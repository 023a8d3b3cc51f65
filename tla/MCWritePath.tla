----------------------------- MODULE MCWritePath -----------------------------
(* WritePath for TLC: the calls each run offers the client threads.         *)
EXTENDS WritePath, FiniteSets, TLC

CONSTANTS t1, t2, t3

Put(n, s) == [op |-> "Write", count |-> n, sync |-> s, pieces |-> 0]
CompactMem == [op |-> "CompactMemTable", count |-> 0, sync |-> FALSE, pieces |-> 0]
CompactLevel(n) == [op |-> "CompactRange", count |-> 0, sync |-> FALSE, pieces |-> n]

GroupCalls == {Put(1, TRUE), Put(2, FALSE), CompactMem}
ManualCalls == {Put(1, TRUE), CompactLevel(1), CompactLevel(2)}

Symmetry == Permutations(Threads)

(* WriteSafety's bound: three calls in all, by whichever threads.           *)
FewCalls == Cardinality(UNION {{t} \X (1 .. calls[t]) : t \in Threads}) <= 3

-----------------------------------------------------------------------------
(* Every Write and every TEST_CompactRange and ~DBImpl return: nobody       *)
(* sleeps on a writer's cv or on bg_cv_ for ever (db_impl.cc 143-155,       *)
(* 545-600, 1166-1345).                                                     *)
EverybodyReturns == CallsReturn /\ CloseReturns
=============================================================================
