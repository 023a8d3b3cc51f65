------------------------------- MODULE Entries -------------------------------
(***************************************************************************)
(* Internal keys (db/dbformat.h) and what a compaction keeps of them        *)
(* (DBImpl::DoCompactionWork).  An entry is [key, seq, type]; its value is  *)
(* identified by its sequence number.  Sets of entries stand for memtables, *)
(* tables and the merged input of a compaction.                             *)
(***************************************************************************)
EXTENDS Integers

Entry == [key : Int, seq : Nat, type : {"value", "deletion"}]

(* InternalKeyComparator::Compare: by key, then newest first.               *)
Before(e, f) == e.key < f.key \/ (e.key = f.key /\ e.seq > f.seq)
AtOrBefore(e, f) == e = f \/ Before(e, f)

(* The entry a read of key k at sequence number s stops at in S: the first  *)
(* one at or after (k, s) in internal order, if it is for k.  A set of at   *)
(* most one entry.                                                          *)
Seen(S, k, s) == {e \in S : e.key = k /\ e.seq <= s}
Newest(S, k, s) == {e \in Seen(S, k, s) : \A f \in Seen(S, k, s) : f.seq <= e.seq}

(* What Get reports: the value, or nothing for a deletion.                  *)
Visible(S) == {e \in S : e.type = "value"}

(* DoCompactionWork's rules.  (A): the entry before e in the merge, for the *)
(* same key, is at or below smallest_snapshot.  Else: e is a deletion at or *)
(* below it and its key is in Base, the keys with nothing underneath.       *)
Hidden(S, e, smallest_snapshot) ==
  \E f \in S : f.key = e.key /\ f.seq > e.seq /\ f.seq <= smallest_snapshot
Obsolete_Bug(e, smallest_snapshot, Base) == e.type = "deletion" /\ e.seq <= smallest_snapshot
Obsolete(e, smallest_snapshot, Base) ==
  e.type = "deletion" /\ e.seq <= smallest_snapshot /\ e.key \in Base
Kept(S, smallest_snapshot, Base) ==
  {e \in S : ~Hidden(S, e, smallest_snapshot) /\ ~Obsolete(e, smallest_snapshot, Base)}
=============================================================================
