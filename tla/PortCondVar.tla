----------------------------- MODULE PortCondVar -----------------------------
(***************************************************************************)
(* port::Mutex and port::CondVar of port_chromium.cc: a condition variable  *)
(* made of a counter, a private mutex and two semaphores.  A step is one    *)
(* call of the Win32 API, or what happens under wait_mtx_ before the next.  *)
(***************************************************************************)
EXTENDS Integers, FiniteSets

CONSTANTS
  Threads,
  NULL,       \* nobody: an unowned critical section
  Waiters,    \* the threads that call Wait
  MaxAll      \* SignalAll is called with at most so many threads waiting

ASSUME CondAssumption == IsFiniteSet(Threads) /\ NULL \notin Threads

VARIABLES
  mu_, wait_mtx_,     \* owners of the two critical sections
  waiting_, sem1_, sem2_,
  pc,
  i                   \* the loop variable of the SignalAll in progress

condVars == <<mu_, wait_mtx_, waiting_, sem1_, sem2_, pc, i>>

CondInit ==
  /\ mu_ = NULL /\ wait_mtx_ = NULL
  /\ waiting_ = 0 /\ sem1_ = 0 /\ sem2_ = 0 /\ i = 0
  /\ pc = [t \in Threads |-> "out"]

At(t, from) == pc[t] = from
Goes(t, to) == pc' = [pc EXCEPT ![t] = to]

(* Mutex::Lock, first or at the end of Wait, and Mutex::Unlock.             *)
Lock(t) ==
  /\ pc[t] \in {"out", "relock"} /\ mu_ = NULL
  /\ mu_' = t /\ Goes(t, "in")
  /\ UNCHANGED <<wait_mtx_, waiting_, sem1_, sem2_, i>>
Unlock(t) ==
  /\ At(t, "in")
  /\ mu_' = NULL /\ Goes(t, "out")
  /\ UNCHANGED <<wait_mtx_, waiting_, sem1_, sem2_, i>>

-----------------------------------------------------------------------------
(* Wait, up to mu_->Unlock().                                               *)
WaitCount(t) ==
  /\ At(t, "in") /\ t \in Waiters /\ wait_mtx_ = NULL
  /\ waiting_' = waiting_ + 1 /\ Goes(t, "counted")
  /\ UNCHANGED <<mu_, wait_mtx_, sem1_, sem2_, i>>
WaitUnlock(t) ==
  /\ At(t, "counted")
  /\ mu_' = NULL /\ Goes(t, "sem1")
  /\ UNCHANGED <<wait_mtx_, waiting_, sem1_, sem2_, i>>
WaitSem1(t) ==
  /\ At(t, "sem1") /\ sem1_ > 0
  /\ sem1_' = sem1_ - 1 /\ Goes(t, "release")
  /\ UNCHANGED <<mu_, wait_mtx_, waiting_, sem2_, i>>
WaitRelease_Bug(t) ==   \* forgets its half of the handshake
  /\ At(t, "release")
  /\ Goes(t, "relock")
  /\ UNCHANGED <<mu_, wait_mtx_, waiting_, sem1_, sem2_, i>>
WaitRelease(t) ==
  /\ At(t, "release")
  /\ sem2_' = sem2_ + 1 /\ Goes(t, "relock")
  /\ UNCHANGED <<mu_, wait_mtx_, waiting_, sem1_, i>>

-----------------------------------------------------------------------------
(* Signal and SignalAll are entered with mu_ held.  Names ending in _Bug    *)
(* are broken variants of what follows them; no specification uses them.    *)
Enter(t) ==
  /\ At(t, "in") /\ wait_mtx_ = NULL
  /\ wait_mtx_' = t /\ i' = 0
  /\ Goes(t, "signal") \/ (waiting_ <= MaxAll /\ Goes(t, "signalall"))
  /\ UNCHANGED <<mu_, waiting_, sem1_, sem2_>>

Signal(t) ==
  /\ At(t, "signal")
  /\ IF waiting_ > 0
     THEN waiting_' = waiting_ - 1 /\ sem1_' = sem1_ + 1 /\ Goes(t, "handshake")
          /\ UNCHANGED wait_mtx_
     ELSE wait_mtx_' = NULL /\ Goes(t, "in") /\ UNCHANGED <<waiting_, sem1_>>
  /\ UNCHANGED <<mu_, sem2_, i>>
SignalSem2(t) ==
  /\ At(t, "handshake") /\ sem2_ > 0
  /\ sem2_' = sem2_ - 1 /\ wait_mtx_' = NULL /\ Goes(t, "in")
  /\ UNCHANGED <<mu_, waiting_, sem1_, i>>

(* The for loop of SignalAll, one pass: release sem1_ once, then wait for   *)
(* sem2_ as often as waiting_ says.                                         *)
More_Bug == i <= waiting_
More == i < waiting_
SignalAllFor(t) ==
  /\ At(t, "signalall")
  /\ IF More
     THEN sem1_' = sem1_ + 1 /\ Goes(t, "drain") /\ UNCHANGED wait_mtx_
     ELSE wait_mtx_' = NULL /\ Goes(t, "in") /\ UNCHANGED sem1_
  /\ UNCHANGED <<mu_, waiting_, sem2_, i>>
Drained == waiting_ = 0
SignalAllDrain(t) ==
  /\ At(t, "drain")
  /\ IF ~Drained
     THEN waiting_' = waiting_ - 1 /\ Goes(t, "drain_sem2") /\ UNCHANGED i
     ELSE i' = i + 1 /\ Goes(t, "signalall") /\ UNCHANGED waiting_
  /\ UNCHANGED <<mu_, wait_mtx_, sem1_, sem2_>>
SignalAllSem2(t) ==
  /\ At(t, "drain_sem2") /\ sem2_ > 0
  /\ sem2_' = sem2_ - 1 /\ Goes(t, "drain")
  /\ UNCHANGED <<mu_, wait_mtx_, waiting_, sem1_, i>>

WaitStep(t) == WaitUnlock(t) \/ WaitSem1(t) \/ WaitRelease(t)
SignalStep(t) == \/ Signal(t) \/ SignalSem2(t) \/ SignalAllFor(t) \/ SignalAllDrain(t)
                 \/ SignalAllSem2(t)
CondNext == \E t \in Threads :
          Lock(t) \/ Unlock(t) \/ WaitCount(t) \/ Enter(t) \/ WaitStep(t) \/ SignalStep(t)

CondSpec == CondInit /\ [][CondNext]_condVars

(* A thread in the middle of Wait, Signal or SignalAll is scheduled.        *)
CondFairSpec == CondSpec /\ \A t \in Threads : WF_condVars(WaitStep(t)) /\ WF_condVars(SignalStep(t))

-----------------------------------------------------------------------------
(* Properties.                                                              *)

Positions == {"out", "in", "counted", "sem1", "release", "relock", "signal", "handshake",
              "signalall", "drain", "drain_sem2"}
(* Owners, counters and positions are what port_chromium.cc can make them.  *)
TypeOK ==
  /\ mu_ \in Threads \cup {NULL} /\ wait_mtx_ \in Threads \cup {NULL}
  /\ waiting_ \in Nat /\ sem1_ \in Nat /\ sem2_ \in Nat /\ i \in Nat
  /\ pc \in [Threads -> Positions]

Sleepers == {t \in Threads : pc[t] \in {"counted", "sem1"}}
Releasing == {t \in Threads : pc[t] = "release"}

(* When no signal is in progress the semaphores are empty and waiting_ is   *)
(* exactly the number of threads blocked in Wait: no wakeup is left over    *)
(* for a later waiter to steal, and none is lost.                           *)
Handshake == wait_mtx_ = NULL => /\ sem1_ = 0 /\ sem2_ = 0 /\ Releasing = {}
                                 /\ waiting_ = Cardinality(Sleepers)

(* The contract of port_example.h.  A waiter is woken when it gets sem1_; a *)
(* Signal has picked its waiter from then on.                               *)
Picked(t) == pc[t] = "handshake" /\ sem1_ = 0
state == [t \in Threads |->
            CASE pc[t] = "counted" -> "in"
              [] pc[t] = "sem1" -> "waiting"
              [] pc[t] \in {"release", "relock"} -> "woken"
              [] pc[t] \in {"signal", "handshake"} -> IF Picked(t) THEN "signalled" ELSE "signal"
              [] pc[t] \in {"signalall", "drain", "drain_sem2"} -> "signalall"
              [] OTHER -> pc[t]]
Contract == INSTANCE CondVar WITH owner <- mu_

(* port_chromium.cc implements the contract of port_example.h (CondVar).    *)
ImplementsContract == Contract!Spec

(* A Signal returns, having handed its wakeup over (port_chromium.cc 74-84).*)
SignalReturns == \A t \in Threads : pc[t] \in {"signal", "handshake"} ~> pc[t] = "in"

(* "Wake up all waiting threads" (port_example.h:59): a SignalAll returns,  *)
(* and then nobody it should have woken is still asleep.                    *)
SignalAllReturns == \A t \in Threads : pc[t] \in {"signalall", "drain", "drain_sem2"} ~> pc[t] = "in"
=============================================================================
