----------------------------- MODULE MmapLimiter -----------------------------
(***************************************************************************)
(* The limit on mapped files of PosixEnv (env_posix.cc): MmapLimiter, and   *)
(* NewRandomAccessFile and ~PosixMmapReadableFile that take and give back   *)
(* its slots.  allowed_ changes under mu_ only, so that a critical section  *)
(* is one step; the first look of Acquire is taken without mu_.             *)
(***************************************************************************)
EXTENDS Integers, FiniteSets

CONSTANTS Openers,   \* threads that open a table each
          MaxMaps    \* MmapLimiter(): 1000, or 0 for 32 bits

ASSUME LimiterAssumption == IsFiniteSet(Openers) /\ MaxMaps \in Nat

VARIABLES
  allowed_,
  opener       \* thread -> where it is
mapVars == <<allowed_, opener>>

MapInit == allowed_ = MaxMaps /\ opener = [t \in Openers |-> "closed"]

Moves(t, from, to) == opener[t] = from /\ opener' = [opener EXCEPT ![t] = to]

(* Acquire: the look without mu_, then the one that counts.                 *)
FirstLook(t) ==
  /\ IF allowed_ <= 0 THEN Moves(t, "closed", "pread") ELSE Moves(t, "closed", "acquire")
  /\ UNCHANGED allowed_
Refused_Bug == FALSE
Refused == allowed_ <= 0
Acquire(t) ==
  IF Refused THEN Moves(t, "acquire", "pread") /\ UNCHANGED allowed_
  ELSE Moves(t, "acquire", "acquired") /\ allowed_' = allowed_ - 1

(* GetFileSize and mmap succeed, or one of them fails.                      *)
Map(t) ==
  /\ Moves(t, "acquired", "mapped") \/ Moves(t, "acquired", "failed")
  /\ UNCHANGED allowed_
MapFailed(t) == Moves(t, "failed", "closed") /\ allowed_' = allowed_ + 1

(* The table is dropped: munmap, then Release; or close.                    *)
Unmap(t) == Moves(t, "mapped", "unmapped") /\ UNCHANGED allowed_
Release(t) == Moves(t, "unmapped", "closed") /\ allowed_' = allowed_ + 1
ClosePread(t) == Moves(t, "pread", "closed") /\ UNCHANGED allowed_

MapNext ==
  \E t \in Openers :
    FirstLook(t) \/ Acquire(t) \/ Map(t) \/ MapFailed(t) \/ Unmap(t) \/ Release(t) \/ ClosePread(t)
MapSpec == MapInit /\ [][MapNext]_mapVars

-----------------------------------------------------------------------------
(* However the openers race there are never more mapped files than the      *)
(* limit allows, and no slot is lost: failed and dropped mappings give      *)
(* theirs back (MmapLimiter, env_posix.cc).                                 *)
MapsBounded ==
  /\ allowed_ >= 0
  /\ allowed_ + Cardinality({t \in Openers : opener[t] \in {"acquired", "mapped", "failed", "unmapped"}}) = MaxMaps
=============================================================================
