------------------------------ MODULE MemTable ------------------------------
(***************************************************************************)
(* A memtable (db/memtable.cc) written by DBImpl::Write without the mutex  *)
(* and read by DBImpl::Get and by iterators at the same time.  A batch is  *)
(* inserted entry by entry; its numbers are published by SetLastSequence   *)
(* afterwards.                                                             *)
(***************************************************************************)
EXTENDS SkipList, Sequences

CONSTANTS
  Keys,
  Batches,        \* what a Write may hold: sequences of [key, type]
  MaxSequence,    \* bound: entries ever written
  MaxReads        \* bound: operations per reader

VARIABLES
  batch,          \* what InsertInto has still to insert of the batch at hand
  sequence,       \* the last number given to an entry
  last_sequence,  \* versions_->LastSequence()
  added,          \* every entry handed to MemTable::Add
  get             \* reader -> the lookup of its Get, its answer, operations so far

vars == <<mem, buffer, insert, reader, batch, sequence, last_sequence, added, get>>
listVars == <<mem, buffer, insert, reader>>
writeVars == <<batch, sequence, last_sequence, added>>

Init ==
  /\ ListInit
  /\ batch = <<>> /\ sequence = 0 /\ last_sequence = 0 /\ added = {}
  /\ get = [r \in Readers |-> [state |-> "none", key |-> 0, snapshot |-> 0, found |-> {}, ops |-> 0]]

(* Write: the leader's batch, numbered from last_sequence on.               *)
WriteBegin ==
  /\ batch = <<>> /\ insert = NULL /\ sequence = last_sequence
  /\ \E b \in Batches : sequence + Len(b) <= MaxSequence /\ batch' = b
  /\ UNCHANGED <<sequence, last_sequence, added, get>> /\ UNCHANGED listVars

(* MemTableInserter::Put, Delete and MemTable::Add.                         *)
Add ==
  /\ batch # <<>>
  /\ LET e == [key |-> Head(batch).key, seq |-> sequence + 1, type |-> Head(batch).type]
     IN  /\ \E h \in 1..kMaxHeight : InsertBegin(e, h)
         /\ added' = added \cup {e}
  /\ batch' = Tail(batch) /\ sequence' = sequence + 1
  /\ UNCHANGED <<last_sequence, get>>

(* The mutex is taken again, which makes every store visible, and the       *)
(* batch's numbers are published.                                           *)
SetLastSequence ==
  /\ batch = <<>> /\ insert = NULL /\ sequence > last_sequence
  /\ last_sequence' = sequence
  /\ mem' = buffer @@ mem /\ buffer' = <<>>
  /\ UNCHANGED <<insert, reader, batch, sequence, added, get>>

Idle(r) == ~Searching(r) /\ get[r].state # "pending" /\ get[r].ops < MaxReads

(* DBImpl::Get: the snapshot is taken under the mutex; MemTable::Get seeks  *)
(* (key, snapshot) and looks at the key of what it finds.                   *)
Snapshot == last_sequence
GetBegin(r, k) ==
  /\ Idle(r)
  /\ Seek(r, [key |-> k, seq |-> Snapshot, type |-> "value"])
  /\ get' = [get EXCEPT ![r] = [state |-> "pending", key |-> k, snapshot |-> Snapshot,
                                found |-> {}, ops |-> @.ops + 1]]
  /\ UNCHANGED writeVars
GetEnd(r) ==
  /\ get[r].state = "pending" /\ ~Searching(r)
  /\ LET n == reader[r].node_
     IN  get' = [get EXCEPT ![r].state = "done",
                               ![r].found = IF n # NULL /\ n.key = get[r].key THEN {n} ELSE {}]
  /\ UNCHANGED listVars /\ UNCHANGED writeVars

(* MemTableIterator.                                                        *)
Iterate(r) ==
  /\ Idle(r)
  /\ \/ \E k \in Keys : Seek(r, [key |-> k, seq |-> MaxSequence, type |-> "value"])
     \/ SeekToFirst(r)
     \/ SeekToLast(r)
     \/ IterNext(r)
     \/ IterPrev(r)
  /\ get' = [get EXCEPT ![r] = [state |-> "none", key |-> 0, snapshot |-> 0, found |-> {},
                                ops |-> @.ops + 1]]
  /\ UNCHANGED writeVars

Reading(r) == SearchStep(r) /\ UNCHANGED writeVars /\ UNCHANGED get
Next ==
  \/ WriteBegin \/ Add \/ SetLastSequence
  \/ InsertLink /\ UNCHANGED writeVars /\ UNCHANGED get
  \/ StoreVisible /\ UNCHANGED writeVars /\ UNCHANGED get
  \/ \E r \in Readers : Reading(r) \/ GetEnd(r) \/ Iterate(r) \/ \E k \in Keys : GetBegin(r, k)

Spec == Init /\ [][Next]_vars

-----------------------------------------------------------------------------
(* What is published has been added, and head_'s links are never in the     *)
(* store buffer: only release stores change them (write_batch.cc,           *)
(* skiplist.h 335-366).                                                     *)
TypeOK ==
  /\ DOMAIN buffer \cap {NextOf(head_, i) : i \in Levels} = {}
  /\ added \subseteq [key : Keys, seq : 1..sequence, type : {"value", "deletion"}]
  /\ \A r \in Readers : reader[r].search.level \in Levels
  /\ last_sequence \in 0..sequence

(* A Get sees the newest entry of its key at its snapshot, whatever part of *)
(* a later batch is being inserted next to it.                              *)
GetNewest ==
  \A r \in Readers : get[r].state = "done" =>
    get[r].found = Newest(added, get[r].key, get[r].snapshot)
=============================================================================
