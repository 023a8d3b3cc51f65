---------------------------- MODULE MCEnvironment ----------------------------
(***************************************************************************)
(* What the database takes from its port and its Env: condition variables   *)
(* (PortCondVar), the background thread (EnvSchedule), the LOCK file        *)
(* (DBLock) and the limit on mapped files (MmapLimiter).  They share no     *)
(* state, so each behaviour moves one of them.                              *)
(***************************************************************************)
EXTENDS EnvSchedule, PortCondVar, DBLock, MmapLimiter

(* Two threads of one process and one of another.                           *)
ThreeUsers == {<<1, 1>>, <<1, 2>>, <<2, 1>>}

VARIABLE part
envVars == <<part, vars, condVars, lockVars, mapVars>>

EnvInit ==
  /\ part \in {"schedule", "condition", "lock", "limit"}
  /\ Init /\ CondInit /\ LockInit /\ MapInit
  /\ part # "lock" => platform = "win" /\ alone

(* A step of one part leaves the others alone.                              *)
InSchedule == part = "schedule" /\ UNCHANGED <<part, condVars, lockVars, mapVars>>
InCondition == part = "condition" /\ UNCHANGED <<part, vars, lockVars, mapVars>>
InLock == part = "lock" /\ UNCHANGED <<part, vars, condVars, mapVars>>
InLimit == part = "limit" /\ UNCHANGED <<part, vars, condVars, lockVars>>

EnvNext ==
  \/ InSchedule /\ Next
  \/ InCondition /\ CondNext
  \/ InLock /\ LockNext
  \/ InLimit /\ MapNext

(* The fairness of EnvSchedule and of PortCondVar.                          *)
EnvSpec ==
  /\ EnvInit /\ [][EnvNext]_envVars
  /\ WF_envVars(InSchedule /\ Take) /\ WF_envVars(InSchedule /\ Run)
  /\ \A t \in Threads : /\ WF_envVars(InCondition /\ WaitStep(t))
                        /\ WF_envVars(InCondition /\ SignalStep(t))

-----------------------------------------------------------------------------
(* A Signal returns, and so does a SignalAll with one waiter                *)
(* (port_chromium.cc 74-96).                                                *)
SignalsReturn == SignalReturns /\ SignalAllReturns
=============================================================================
