------------------------------- MODULE CondVar -------------------------------
(***************************************************************************)
(* What port_example.h promises of a Mutex and a CondVar used together:     *)
(* Wait releases the mutex and blocks until a SignalAll, or a Signal that   *)
(* picks the thread; Signal wakes at least one waiter if there is one;      *)
(* SignalAll wakes all of them.  A thread signals holding the mutex, as     *)
(* every caller in db_impl.cc and env_win.cc does.                          *)
(***************************************************************************)
CONSTANTS Threads, NULL

VARIABLES owner, state   \* who holds the mutex; where each thread is

Waiting == {t \in Threads : state[t] = "waiting"}
Goes(t, where) == state' = [state EXCEPT ![t] = where]

Init == owner = NULL /\ state = [t \in Threads |-> "out"]

Lock(t) == state[t] \in {"out", "woken"} /\ owner = NULL /\ owner' = t /\ Goes(t, "in")
Unlock(t) == state[t] = "in" /\ owner' = NULL /\ Goes(t, "out")
Wait(t) == state[t] = "in" /\ owner' = NULL /\ Goes(t, "waiting")

Call(s) == state[s] = "in" /\ UNCHANGED owner /\ (Goes(s, "signal") \/ Goes(s, "signalall"))
Wakeup(s, t) ==
  /\ state[s] \in {"signal", "signalall"} /\ state[t] = "waiting"
  /\ state' = [state EXCEPT ![t] = "woken",
                            ![s] = IF @ = "signal" THEN "signalled" ELSE @]
  /\ UNCHANGED owner
Return(s) ==
  /\ state[s] = "signalled" \/ (state[s] \in {"signal", "signalall"} /\ Waiting = {})
  /\ Goes(s, "in")
  /\ UNCHANGED owner

Next == \E t \in Threads : \/ Lock(t) \/ Unlock(t) \/ Wait(t) \/ Call(t) \/ Return(t)
                           \/ \E u \in Threads : Wakeup(t, u)
Spec == Init /\ [][Next]_<<owner, state>>
=============================================================================
