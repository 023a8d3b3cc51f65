----------------------------- MODULE EnvSchedule -----------------------------
(***************************************************************************)
(* WinEnv's background thread (port/env_win.cc): Schedule and BGThread.     *)
(* A step is one critical section of mu_, or the unlocked call of a         *)
(* scheduled function.  bgsignal_ has the contract CondVar states.          *)
(***************************************************************************)
EXTENDS Naturals, Sequences

CONSTANT MaxItems    \* bound: calls of Schedule

ASSUME MaxItemsAssumption == MaxItems \in Nat

VARIABLES
  queue_, started_bgthread_,
  bg,          \* where BGThread is
  function,    \* the item BGThread took off the queue
  scheduled,   \* how many items have been scheduled: the next one's name
  ran          \* the items run, in order

vars == <<queue_, started_bgthread_, bg, function, scheduled, ran>>

Init ==
  /\ queue_ = <<>> /\ started_bgthread_ = FALSE /\ bg = "none" /\ function = 0
  /\ scheduled = 0 /\ ran = <<>>

(* Schedule's critical section.  The signal comes before the push_back, and *)
(* only if the queue is empty.                                              *)
Signalled_Bug(b) == b
Signalled(b) == IF queue_ = <<>> /\ b = "waiting" THEN "woken" ELSE b
PushBack_Bug(x) == <<x>> \o queue_
PushBack(x) == Append(queue_, x)
Push(b) ==
  /\ scheduled < MaxItems
  /\ started_bgthread_' = TRUE
  /\ bg' = IF started_bgthread_ THEN Signalled(b) ELSE "loop"
  /\ scheduled' = scheduled + 1
  /\ queue_' = PushBack(scheduled + 1)

Schedule ==
  /\ Push(bg)
  /\ UNCHANGED <<function, ran>>

(* BGThread: wait for an item, or take the first one.                       *)
Take ==
  /\ bg \in {"loop", "woken"}
  /\ IF queue_ = <<>> THEN bg' = "waiting" /\ UNCHANGED <<queue_, function>>
                      ELSE bg' = "run" /\ function' = Head(queue_) /\ queue_' = Tail(queue_)
  /\ UNCHANGED <<started_bgthread_, scheduled, ran>>

(* The function is called; it may schedule more work (BackgroundCall does).  *)
Run ==
  /\ bg = "run"
  /\ ran' = Append(ran, function) /\ function' = 0
  /\ \/ bg' = "loop" /\ UNCHANGED <<queue_, started_bgthread_, scheduled>>
     \/ Push("loop")

(* Nothing more to schedule and BGThread asleep.                            *)
Quiet == /\ scheduled = MaxItems /\ bg \in {"none", "waiting"}
         /\ UNCHANGED vars

Next == Schedule \/ Take \/ Run \/ Quiet
Spec == Init /\ [][Next]_vars

(* The operating system schedules BGThread, and functions return.           *)
FairSpec == Spec /\ WF_vars(Take) /\ WF_vars(Run)

-----------------------------------------------------------------------------
(* BGThread never sleeps over an item in the queue.                         *)
NoSleepOverWork == queue_ # <<>> => bg \in {"loop", "woken", "run"}

(* Items run once each, in the order they were scheduled, none skipped.     *)
RunsInOrder ==
  ran \o (IF bg = "run" THEN <<function>> ELSE <<>>) \o queue_ = [n \in 1 .. scheduled |-> n]

(* What is scheduled is run.                                                *)
RunsAll == \A n \in 1 .. MaxItems : scheduled >= n ~> Len(ran) >= n
=============================================================================
