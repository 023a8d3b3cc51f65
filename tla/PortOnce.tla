------------------------------ MODULE PortOnce ------------------------------
(***************************************************************************)
(* port::InitOnce of port_chromium.cc, called by several threads on one     *)
(* OnceType: BytewiseComparator (util/comparator.cc) and the default Env    *)
(* (port/env_win.cc) are made this way.                                     *)
(***************************************************************************)
EXTENDS Naturals, FiniteSets

CONSTANTS Threads, ONCE_STATE_UNINITIALIZED, ONCE_STATE_EXECUTING_CLOSURE, ONCE_STATE_DONE

VARIABLES once, state, pc,
          made       \* threads whose initializer call has returned

vars == <<once, state, pc, made>>

Init ==
  /\ once = ONCE_STATE_UNINITIALIZED
  /\ state = [t \in Threads |-> ONCE_STATE_UNINITIALIZED]
  /\ pc = [t \in Threads |-> "out"] /\ made = {}

Goes(t, to) == pc' = [pc EXCEPT ![t] = to]

(* The two unlocked reads of *once that may return at once.                 *)
Call(t) ==
  /\ pc[t] = "out"
  /\ \/ once = ONCE_STATE_DONE /\ Goes(t, "out")
     \/ once # ONCE_STATE_DONE /\ Goes(t, "read")
  /\ UNCHANGED <<once, state, made>>
Read(t) ==
  /\ pc[t] = "read"
  /\ \/ once = ONCE_STATE_DONE /\ Goes(t, "out")
     \/ once # ONCE_STATE_DONE /\ Goes(t, "exchange")
  /\ state' = [state EXCEPT ![t] = once]
  /\ UNCHANGED <<once, made>>

(* InterlockedCompareExchange(destination, exchange, comparand) stores      *)
(* exchange if the destination holds comparand, and returns the old value.  *)
(* The code passes UNINITIALIZED to store and EXECUTING_CLOSURE to compare. *)
Exchange(t) ==
  /\ pc[t] = "exchange"
  /\ once' = IF once = ONCE_STATE_EXECUTING_CLOSURE THEN ONCE_STATE_UNINITIALIZED ELSE once
  /\ state' = [state EXCEPT ![t] = once]
  /\ Goes(t, IF once = ONCE_STATE_UNINITIALIZED THEN "initializer" ELSE "await")
  /\ UNCHANGED made

Initializer(t) ==
  /\ pc[t] = "initializer"
  /\ made' = made \cup {t} /\ Goes(t, "store")
  /\ UNCHANGED <<once, state>>
Store(t) ==
  /\ pc[t] = "store"
  /\ once' = ONCE_STATE_DONE /\ Goes(t, "out")
  /\ UNCHANGED <<state, made>>

(* while (state == ONCE_STATE_EXECUTING_CLOSURE) state = *once, one test.   *)
Await(t) ==
  /\ pc[t] = "await"
  /\ IF state[t] = ONCE_STATE_EXECUTING_CLOSURE
     THEN state' = [state EXCEPT ![t] = once] /\ UNCHANGED pc
     ELSE Goes(t, "out") /\ UNCHANGED state
  /\ UNCHANGED <<once, made>>

Step(t) == Read(t) \/ Exchange(t) \/ Initializer(t) \/ Store(t) \/ Await(t)
Next == \E t \in Threads : Call(t) \/ Step(t)
Spec == Init /\ [][Next]_vars

-----------------------------------------------------------------------------
(* The initializer runs in one thread only: InitOnce "is equivalent to      *)
(* pthread_once_t and pthread_once()" (port_chromium.h:85).                 *)
RunsOnce == Cardinality(made \cup {t \in Threads : pc[t] = "initializer"}) <= 1
=============================================================================
