----------------------------- MODULE MCLifetime -----------------------------
(***************************************************************************)
(* What concurrent readers rely on: a memtable that is being written        *)
(* (MemTable), the files, versions and open tables they hold on to          *)
(* (FileLifetime), and the files of the in-memory Env (MemEnv).  They share *)
(* no state, so each behaviour moves one of them.                           *)
(***************************************************************************)
EXTENDS FileLifetime

CONSTANTS
  kMaxHeight, Readers, head_, Garbage, Keys, MaxSequence, MaxMoves,
  Names, States, Threads, kBlockSize, Sizes, MaxSize

VARIABLES
  part,
  mem, buffer, insert, reader, batch, sequence, last_sequence, added, get,
  file_map_, file, handle, mutex_, doomed, got

(* A put, and a deletion followed by a put.                                 *)
Batches ==
  {<<[key |-> k, type |-> "value"]>> : k \in Keys} \cup
  {<<[key |-> p[1], type |-> "deletion"], [key |-> p[2], type |-> "value"]>> :
     p \in {q \in Keys \X Keys : q[1] # q[2]}}
(* Hashes that share a bucket until the table has grown.                    *)
FileHash == [f \in 1..MaxFile |-> f]

Memory == INSTANCE MemTable WITH MaxReads <- MaxMoves
InMemory == INSTANCE MemEnv

memory_vars == <<mem, buffer, insert, reader, batch, sequence, last_sequence, added, get>>
env_vars == <<file_map_, file, handle, mutex_, doomed, got>>

AnyInit == /\ part \in {"memory", "lifetime", "env"}
           /\ Memory!Init /\ Init /\ InMemory!MemInit
MemoryStep == part = "memory" /\ Memory!Next /\ UNCHANGED <<part, vars, env_vars>>
LifetimeStep == part = "lifetime" /\ Next /\ UNCHANGED <<part, memory_vars, env_vars>>
EnvStep == part = "env" /\ InMemory!MemNext /\ UNCHANGED <<part, memory_vars, vars>>
AnyNext == MemoryStep \/ LifetimeStep \/ EnvStep
AnySpec == AnyInit /\ [][AnyNext]_<<part, memory_vars, vars, env_vars>>

(* Bound: tables that the client and the compaction hold or are opening.    *)
InHand(a) == Cardinality(held[a]) + (IF find[a] = 0 THEN 0 ELSE 1)
FewTables == \A c \in Clients : InHand(c) + InHand("merge") <= 2

-----------------------------------------------------------------------------
(* Readers of a memtable need no lock: they meet only nodes whose contents  *)
(* and links they can see; every list is sorted and within the list below   *)
(* it at every moment of an Insert; a finished move has skipped nothing     *)
(* that was there when it began; and a Get sees the newest entry of its key *)
(* at its snapshot (skiplist.h 188-366, memtable.cc 108-142).               *)
MemoryReadsExact ==
  part = "memory" =>
    Memory!NoGarbage /\ Memory!ListsNested /\ Memory!MoveCorrect /\ Memory!GetNewest

(* Every count is the number of those that rely on it, and after the        *)
(* destructor nothing is left (version_set.cc, memtable.h, cache.cc).       *)
ReferencesExact == part = "lifetime" => RefsExact /\ NothingLeaked

(* The table cache is well formed after every operation, also when two      *)
(* threads insert the same table, and over its capacity only by what        *)
(* callers hold (cache.cc 155-283).                                         *)
CacheExact == part = "lifetime" => CacheConsistent /\ CacheBounded

(* A file that somebody may still open is there, and one that is about to   *)
(* be deleted is not open (db_impl.cc 214-270).                             *)
FilesInTime == part = "lifetime" => NeededFilesExist /\ DeletedIsClosed

(* A FileState of the in-memory Env is alive exactly while a name or a file *)
(* object refers to it or its last user is about to delete it, and a Read   *)
(* gives the bytes that were appended, across the borders of blocks and     *)
(* whatever happened to the name meanwhile (memenv.cc 27-122, 302-350).     *)
InMemoryFilesExact == part = "env" => InMemory!AliveIffReferred /\ InMemory!ReadExact
=============================================================================
