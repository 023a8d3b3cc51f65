---------------------------- MODULE FileLifetime ----------------------------
(***************************************************************************)
(* Who keeps a memtable, a version, a table file and an open table alive:  *)
(* reference counts of MemTable and Version, handles of the table cache,   *)
(* pending_outputs_ and DeleteObsoleteFiles, with Gets, iterators, flushes *)
(* and compactions at work together (db_impl.cc, version_set.cc,           *)
(* table_cache.cc).                                                        *)
(*                                                                         *)
(* A version is a set of table numbers.  Objects are named by small        *)
(* numbers that are reused once freed.  Steps of the table cache run under *)
(* its own mutex only; everything that touches reference counts runs under *)
(* the database's, which DeleteObsoleteFiles keeps throughout.  When work  *)
(* is scheduled is the subject of WritePath: here a flush or a compaction  *)
(* may start whenever there is something to do.                            *)
(***************************************************************************)
EXTENDS LRUCache, FiniteSets, FiniteSetsExt

CONSTANTS
  Clients,      \* threads with a Get or an iterator
  Objects,      \* names of versions and of memtables
  MaxFile,      \* bound: table numbers
  MaxReads,     \* bound: Gets and iterators of a client
  MaxMerges     \* bound: compactions

VARIABLES
  disk,                \* table files
  shard,               \* the table cache
  versions, current_,  \* name -> files and refs_; a freed version has refs_ 0
  meta,                \* table number -> refs of its FileMetaData
  memtables, mem_, imm_,
  pending_outputs_, next_file_number_, bg_error_,
  find, held,          \* per actor: the FindTable in progress, the handles it holds
  client,              \* client -> what its Get or iterator has a reference to
  flush, merge, gc,    \* CompactMemTable, DoCompactionWork, DeleteObsoleteFiles
  db                   \* "open" or "closed"

cacheVars == <<shard, find, held>>
refVars == <<versions, current_, meta, memtables, mem_, imm_>>
bgVars == <<flush, merge, gc>>
vars == <<disk, cacheVars, refVars, pending_outputs_, next_file_number_, bg_error_,
          client, bgVars, db>>

Files == 1..MaxFile
Actors == Clients \cup {"flush", "merge"}
NoVersion == [files |-> {}, refs |-> 0]
NoFlush == [pc |-> "idle", base |-> 0, number |-> 0]
NoMerge == [pc |-> "idle", inputs |-> {}, input_version_ |-> 0, output |-> 0, count |-> 0]
NoGC == [pc |-> "idle", todo |-> {}, file |-> 0]
Away == [kind |-> "none", version |-> 0, mem |-> 0, imm |-> 0, reads |-> 0]
Least(S) == CHOOSE x \in S : \A y \in S : x <= y

Init ==
  /\ disk = {} /\ shard = EmptyShard
  /\ versions = [v \in Objects |-> IF v = 1 THEN [NoVersion EXCEPT !.refs = 1] ELSE NoVersion]
  /\ current_ = 1
  /\ meta = [f \in Files |-> 0]
  /\ memtables = [m \in Objects |-> IF m = 1 THEN 1 ELSE 0] /\ mem_ = 1 /\ imm_ = 0
  /\ pending_outputs_ = {} /\ next_file_number_ = 1 /\ bg_error_ = FALSE
  /\ find = [a \in Actors |-> 0] /\ held = [a \in Actors |-> {}]
  /\ client = [c \in Clients |-> Away]
  /\ flush = NoFlush /\ merge = NoMerge /\ gc = NoGC
  /\ db = "open"

-----------------------------------------------------------------------------
(* Reference counts.  Operators on versions and meta as a pair.             *)
VersionRef(vs, v) == [vs EXCEPT ![v].refs = @ + 1]
VersionUnref(vm, v) ==
  IF vm.versions[v].refs = 1
  THEN [versions |-> [vm.versions EXCEPT ![v] = NoVersion],
        meta |-> [f \in Files |-> IF f \in vm.versions[v].files THEN vm.meta[f] - 1 ELSE vm.meta[f]]]
  ELSE [vm EXCEPT !.versions[v].refs = @ - 1]
MemUnref(ms, m) == IF m = 0 THEN ms ELSE [ms EXCEPT ![m] = @ - 1]

(* Builder::SaveTo and AppendVersion: a new current version with the given  *)
(* files; the old one loses a reference.                                    *)
Unused == {v \in Objects : versions[v].refs = 0}
AppendVersion(vm, files) ==
  LET v == Least(Unused)
      old == VersionUnref(vm, current_)
  IN  /\ Unused # {}
      /\ current_' = v
      /\ versions' = [old.versions EXCEPT ![v] = [files |-> files, refs |-> 1]]
      /\ meta' = [f \in Files |-> IF f \in files THEN old.meta[f] + 1 ELSE old.meta[f]]
VersionsAndMeta == [versions |-> versions, meta |-> meta]

-----------------------------------------------------------------------------
(* TableCache::FindTable: Lookup; on a miss the file is opened and Insert   *)
(* called, all without a mutex.  From the miss on the file counts as open.  *)
FindTable(a, f) ==
  LET l == Lookup(shard, f)
  IN  /\ find[a] = 0
      /\ \A h \in held[a] : shard.handle[h].key # f
      /\ shard' = l.shard
      /\ IF l.handle # NULL
         THEN held' = [held EXCEPT ![a] = @ \cup {l.handle}] /\ UNCHANGED find
         ELSE find' = [find EXCEPT ![a] = f] /\ UNCHANGED held
InsertTable(a) ==
  LET i == Insert(shard, find[a], 1)
  IN  /\ find[a] # 0 /\ find[a] \in disk
      /\ shard' = i.shard /\ held' = [held EXCEPT ![a] = @ \cup {i.handle}]
      /\ find' = [find EXCEPT ![a] = 0]
      /\ UNCHANGED <<disk, refVars, pending_outputs_, next_file_number_, bg_error_,
                     client, bgVars, db>>
(* UnrefEntry, or the end of TableCache::Get.                               *)
ReleaseTable(a, h) ==
  /\ h \in held[a]
  /\ shard' = Release(shard, h) /\ held' = [held EXCEPT ![a] = @ \ {h}]
  /\ UNCHANGED find

-----------------------------------------------------------------------------
(* A Get or an iterator takes its references under the mutex, looks into    *)
(* tables without it (a Get into one at a time; an iterator keeps the       *)
(* tables it stands on) and gives the references back under the mutex.      *)
Begin(c, kind) ==
  /\ db = "open" /\ gc = NoGC /\ client[c].kind = "none" /\ client[c].reads < MaxReads
  /\ client' = [client EXCEPT ![c] = [kind |-> kind, version |-> current_, mem |-> mem_,
                                      imm |-> imm_, reads |-> @.reads + 1]]
  /\ versions' = VersionRef(versions, current_)
  /\ memtables' = [m \in Objects |-> IF m \in {mem_, imm_} THEN memtables[m] + 1 ELSE memtables[m]]
  /\ UNCHANGED <<disk, cacheVars, current_, meta, mem_, imm_, pending_outputs_,
                 next_file_number_, bg_error_, bgVars, db>>
GetBegin(c) == Begin(c, "get")
NewInternalIterator(c) == Begin(c, "iterator")

Read(c) ==
  /\ client[c].kind # "none"
  /\ \/ /\ client[c].kind = "iterator" \/ held[c] = {}
        /\ \E f \in versions[client[c].version].files : FindTable(c, f)
     \/ \E h \in held[c] : find[c] = 0 /\ ReleaseTable(c, h)
  /\ UNCHANGED <<disk, refVars, pending_outputs_, next_file_number_, bg_error_,
                 client, bgVars, db>>

(* The end of DBImpl::Get; CleanupIteratorState, which runs after the       *)
(* child iterators have given back their tables.                            *)
GetEnd(c) ==
  /\ client[c].kind # "none" /\ gc = NoGC
  /\ find[c] = 0 /\ held[c] = {}
  /\ LET vm == VersionUnref(VersionsAndMeta, client[c].version)
     IN  versions' = vm.versions /\ meta' = vm.meta
  /\ memtables' = MemUnref(MemUnref(memtables, client[c].mem), client[c].imm)
  /\ client' = [client EXCEPT ![c] = [Away EXCEPT !.reads = client[c].reads]]
  /\ UNCHANGED <<disk, cacheVars, current_, mem_, imm_, pending_outputs_,
                 next_file_number_, bg_error_, bgVars, db>>

-----------------------------------------------------------------------------
(* MakeRoomForWrite: a new memtable.                                        *)
SwitchMemTable ==
  LET free == {m \in Objects : memtables[m] = 0}
  IN  /\ db = "open" /\ gc = NoGC /\ imm_ = 0 /\ free # {}
      /\ imm_' = mem_ /\ mem_' = Least(free)
      /\ memtables' = [memtables EXCEPT ![Least(free)] = 1]
      /\ UNCHANGED <<disk, cacheVars, versions, current_, meta, pending_outputs_,
                     next_file_number_, bg_error_, client, bgVars, db>>

(* CompactMemTable, alone or from inside DoCompactionWork.                  *)
FlushBegin ==
  /\ db = "open" /\ gc = NoGC /\ flush = NoFlush
  /\ imm_ # 0 /\ next_file_number_ <= MaxFile
  /\ merge.pc = "merging" \/ (merge.pc = "idle" /\ ~bg_error_)
  /\ flush' = [pc |-> "build", base |-> current_, number |-> next_file_number_]
  /\ versions' = VersionRef(versions, current_)
  /\ pending_outputs_' = pending_outputs_ \cup {next_file_number_}
  /\ next_file_number_' = next_file_number_ + 1
  /\ UNCHANGED <<disk, cacheVars, current_, meta, memtables, mem_, imm_, bg_error_,
                 client, merge, gc, db>>
(* BuildTable: the file, then a look at it through the table cache; a       *)
(* failure deletes it.                                                      *)
BuildTable ==
  /\ flush.pc = "build" /\ disk' = disk \cup {flush.number}
  /\ flush' = [flush EXCEPT !.pc = "verify"]
  /\ UNCHANGED <<cacheVars, refVars, pending_outputs_, next_file_number_, bg_error_,
                 client, merge, gc, db>>
FlushVerify ==
  /\ flush.pc = "verify" /\ FindTable("flush", flush.number)
  /\ flush' = [flush EXCEPT !.pc = "verified"]
  /\ UNCHANGED <<disk, refVars, pending_outputs_, next_file_number_, bg_error_,
                 client, merge, gc, db>>
FlushVerified ==
  /\ flush.pc = "verified" /\ \E h \in held["flush"] : ReleaseTable("flush", h)
  /\ flush' = [flush EXCEPT !.pc = "built"]
  /\ UNCHANGED <<disk, refVars, pending_outputs_, next_file_number_, bg_error_,
                 client, merge, gc, db>>
BuildFails ==
  /\ flush.pc = "verify" /\ disk' = disk \ {flush.number}
  /\ LET vm == VersionUnref(VersionsAndMeta, flush.base)
     IN  versions' = vm.versions /\ meta' = vm.meta
  /\ pending_outputs_' = pending_outputs_ \ {flush.number}
  /\ bg_error_' = TRUE /\ flush' = NoFlush
  /\ UNCHANGED <<cacheVars, current_, memtables, mem_, imm_, next_file_number_,
                 client, merge, gc, db>>
(* The mutex again; base and pending_outputs_ are given up before           *)
(* LogAndApply, which releases the mutex for the MANIFEST.                  *)
FlushBuilt_Bug ==
  /\ flush.pc = "built"
  /\ pending_outputs_' = pending_outputs_ \ {flush.number}
  /\ flush' = [flush EXCEPT !.pc = "apply"]
  /\ UNCHANGED <<disk, cacheVars, refVars, next_file_number_, bg_error_, client, merge, gc, db>>
FlushBuilt ==
  /\ flush.pc = "built"
  /\ LET vm == VersionUnref(VersionsAndMeta, flush.base)
     IN  versions' = vm.versions /\ meta' = vm.meta
  /\ pending_outputs_' = pending_outputs_ \ {flush.number}
  /\ flush' = [flush EXCEPT !.pc = "apply"]
  /\ UNCHANGED <<disk, cacheVars, current_, memtables, mem_, imm_, next_file_number_, bg_error_,
                 client, merge, gc, db>>

(* DeleteObsoleteFiles: what is neither pending nor in a version of the     *)
(* list.                                                                    *)
LiveFiles_Bug == pending_outputs_ \cup versions[current_].files
LiveFiles == pending_outputs_ \cup UNION {versions[v].files : v \in Objects}
FlushApply ==
  /\ flush.pc = "apply"
  /\ AppendVersion(VersionsAndMeta, versions[current_].files \cup {flush.number})
  /\ memtables' = MemUnref(memtables, imm_) /\ imm_' = 0
  /\ flush' = NoFlush /\ gc' = [NoGC EXCEPT !.pc = "begin"]
  /\ UNCHANGED <<disk, cacheVars, mem_, pending_outputs_, next_file_number_, bg_error_,
                 client, merge, db>>
FlushFails ==
  /\ flush.pc = "apply"
  /\ bg_error_' = TRUE /\ flush' = NoFlush
  /\ UNCHANGED <<disk, cacheVars, refVars, pending_outputs_, next_file_number_,
                 client, merge, gc, db>>
DeleteBegin ==
  /\ gc.pc = "begin"
  /\ gc' = [pc |-> "files", todo |-> IF bg_error_ THEN {} ELSE disk \ LiveFiles, file |-> 0]
  /\ UNCHANGED <<disk, cacheVars, refVars, pending_outputs_, next_file_number_, bg_error_,
                 client, flush, merge, db>>
(* One file: Evict, then DeleteFile, which fails if the file is open        *)
(* (NewRandomAccessFile does not share deletion) and is not tried again.    *)
Open(f) == \/ \E h \in Alive(shard) : shard.handle[h].key = f
           \/ \E a \in Actors : find[a] = f
Evict ==
  /\ gc.pc = "files" /\ gc.file = 0
  /\ \E f \in gc.todo : shard' = Erase(shard, f) /\ gc' = [gc EXCEPT !.file = f]
  /\ UNCHANGED <<find, held, disk, refVars, pending_outputs_, next_file_number_, bg_error_,
                 client, flush, merge, db>>
DeleteFile ==
  /\ gc.pc = "files" /\ gc.file # 0
  /\ disk' = IF Open(gc.file) THEN disk ELSE disk \ {gc.file}
  /\ gc' = [gc EXCEPT !.todo = @ \ {gc.file}, !.file = 0]
  /\ UNCHANGED <<cacheVars, refVars, pending_outputs_, next_file_number_, bg_error_,
                 client, flush, merge, db>>
DeleteEnd ==
  /\ gc.pc = "files" /\ gc.todo = {}
  /\ gc' = NoGC
  /\ UNCHANGED <<disk, cacheVars, refVars, pending_outputs_, next_file_number_, bg_error_,
                 client, flush, merge, db>>

-----------------------------------------------------------------------------
(* A compaction keeps its version until ReleaseInputs, looks at its inputs  *)
(* through the table cache and writes one table, which it looks at again.   *)
MergeBegin ==
  /\ db = "open" /\ ~bg_error_ /\ gc = NoGC /\ flush = NoFlush
  /\ merge.pc = "idle" /\ merge.count < MaxMerges
  /\ \E S \in SUBSET versions[current_].files :
       S # {} /\ merge' = [pc |-> "merging", inputs |-> S, input_version_ |-> current_,
                           output |-> 0, count |-> merge.count + 1]
  /\ versions' = VersionRef(versions, current_)
  /\ UNCHANGED <<disk, cacheVars, current_, meta, memtables, mem_, imm_, pending_outputs_,
                 next_file_number_, bg_error_, client, flush, gc, db>>
Merging == merge.pc = "merging" /\ flush = NoFlush /\ gc = NoGC
MergeRead ==
  /\ Merging
  /\ \/ \E f \in merge.inputs \cup ({merge.output} \ {0}) : FindTable("merge", f)
     \/ \E h \in held["merge"] : find["merge"] = 0 /\ ReleaseTable("merge", h)
  /\ UNCHANGED <<disk, refVars, pending_outputs_, next_file_number_, bg_error_,
                 client, bgVars, db>>
OpenCompactionOutputFile ==
  /\ Merging /\ merge.output = 0 /\ next_file_number_ <= MaxFile
  /\ merge' = [merge EXCEPT !.output = next_file_number_]
  /\ pending_outputs_' = pending_outputs_ \cup {next_file_number_}
  /\ next_file_number_' = next_file_number_ + 1
  /\ disk' = disk \cup {next_file_number_}
  /\ UNCHANGED <<cacheVars, refVars, bg_error_, client, flush, gc, db>>
(* The input iterator is deleted, then LogAndApply; an error leaves the     *)
(* output to a later DeleteObsoleteFiles.                                   *)
MergeDone ==
  /\ Merging /\ held["merge"] = {} /\ find["merge"] = 0
  /\ merge' = [merge EXCEPT !.pc = "install"]
  /\ UNCHANGED <<disk, cacheVars, refVars, pending_outputs_, next_file_number_, bg_error_,
                 client, flush, gc, db>>
InstallCompactionResults ==
  /\ merge.pc = "install" /\ flush = NoFlush /\ gc = NoGC
  /\ AppendVersion(VersionUnref(VersionsAndMeta, merge.input_version_),
                   (versions[current_].files \ merge.inputs) \cup ({merge.output} \ {0}))
  /\ pending_outputs_' = pending_outputs_ \ {merge.output}
  /\ merge' = [NoMerge EXCEPT !.count = merge.count] /\ gc' = [NoGC EXCEPT !.pc = "begin"]
  /\ UNCHANGED <<disk, cacheVars, memtables, mem_, imm_, next_file_number_, bg_error_,
                 client, flush, db>>
(* A trivial move: the same files at other levels, and no                   *)
(* DeleteObsoleteFiles.                                                     *)
TrivialMove ==
  /\ merge.pc = "install" /\ flush = NoFlush /\ gc = NoGC
  /\ Cardinality(merge.inputs) = 1 /\ merge.output = 0
  /\ AppendVersion(VersionUnref(VersionsAndMeta, merge.input_version_), versions[current_].files)
  /\ merge' = [NoMerge EXCEPT !.count = merge.count]
  /\ UNCHANGED <<disk, cacheVars, memtables, mem_, imm_, pending_outputs_, next_file_number_,
                 bg_error_, client, flush, gc, db>>
MergeFails ==
  /\ merge.pc = "install" /\ flush = NoFlush /\ gc = NoGC
  /\ LET vm == VersionUnref(VersionsAndMeta, merge.input_version_)
     IN  versions' = vm.versions /\ meta' = vm.meta
  /\ pending_outputs_' = pending_outputs_ \ {merge.output}
  /\ merge' = [NoMerge EXCEPT !.count = merge.count] /\ bg_error_' = TRUE /\ gc' = [NoGC EXCEPT !.pc = "begin"]
  /\ UNCHANGED <<disk, cacheVars, current_, memtables, mem_, imm_, next_file_number_,
                 client, flush, db>>

-----------------------------------------------------------------------------
(* ~DBImpl, once the background is idle and, as db.h asks, iterators are    *)
(* deleted: ~VersionSet, the memtables, ~TableCache.                        *)
Close ==
  /\ db = "open" /\ flush = NoFlush /\ merge.pc = "idle" /\ gc = NoGC
  /\ \A c \in Clients : client[c].kind = "none"
  /\ LET vm == VersionUnref(VersionsAndMeta, current_)
     IN  versions' = vm.versions /\ meta' = vm.meta
  /\ memtables' = MemUnref(MemUnref(memtables, mem_), imm_)
  /\ shard' = FoldSeq(LAMBDA h, s : Unref(s, h), shard, shard.lru)
  /\ db' = "closed"
  /\ UNCHANGED <<disk, find, held, current_, mem_, imm_, pending_outputs_, next_file_number_,
                 bg_error_, client, bgVars>>

Next ==
  \/ \E c \in Clients : GetBegin(c) \/ NewInternalIterator(c) \/ Read(c) \/ GetEnd(c)
  \/ \E a \in Actors : InsertTable(a)
  \/ SwitchMemTable
  \/ FlushBegin \/ BuildTable \/ FlushVerify \/ FlushVerified \/ BuildFails \/ FlushBuilt \/ FlushApply \/ FlushFails
  \/ DeleteBegin \/ Evict \/ DeleteFile \/ DeleteEnd
  \/ MergeBegin \/ MergeRead \/ OpenCompactionOutputFile \/ MergeDone
  \/ InstallCompactionResults \/ TrivialMove \/ MergeFails
  \/ Close
Spec == Init /\ [][Next]_vars

-----------------------------------------------------------------------------
(* Counts stay within what the actors can hold: none goes below zero or     *)
(* grows for ever (Ref and Unref of version_set.cc and memtable.h).         *)
TypeOK ==
  /\ disk \subseteq Files /\ pending_outputs_ \subseteq Files
  /\ versions \in [Objects -> [files : SUBSET Files, refs : 0..Cardinality(Actors) + 2]]
  /\ meta \in [Files -> 0..Cardinality(Objects)]
  /\ memtables \in [Objects -> 0..Cardinality(Clients) + 1]
  /\ held \in [Actors -> SUBSET Handles]

(* Every count is exactly the number of those that rely on it: a handle's   *)
(* the cache and its holders, a version's current_ and the Gets, iterators, *)
(* flush and compaction that took it, a memtable's mem_, imm_ and readers,  *)
(* a FileMetaData's the versions that list it.                              *)
(* So nothing is freed under anybody and nothing is kept for nobody.        *)
RefsExact ==
  db = "open" =>
  /\ \A h \in Handles : shard.handle[h].refs =
       Cardinality({a \in Actors : h \in held[a]}) + (IF h \in Cached(shard) THEN 1 ELSE 0)
  /\ \A v \in Objects : versions[v].refs =
       Cardinality({c \in Clients : client[c].version = v}) + (IF v = current_ THEN 1 ELSE 0)
       + (IF v = flush.base /\ flush.pc # "apply" THEN 1 ELSE 0)
       + (IF v = merge.input_version_ THEN 1 ELSE 0)
  /\ \A m \in Objects : memtables[m] =
       Cardinality({c \in Clients : m \in {client[c].mem, client[c].imm}})
       + (IF m \in {mem_, imm_} THEN 1 ELSE 0)
  /\ \A f \in Files : meta[f] = Cardinality({v \in Objects : f \in versions[v].files})

(* The table cache's shard is well formed after every operation, also when  *)
(* two threads have missed on the same table and both insert it.            *)
CacheConsistent == db = "open" => ShardConsistent(shard)

(* The cache is over its capacity only by what callers hold.                *)
CacheBounded == shard.usage > capacity_ => shard.lru = <<>>

(* A file a reader, a flush or a compaction may still open is there.        *)
NeededFilesExist ==
  /\ \A c \in Clients : client[c].kind # "none" => versions[client[c].version].files \subseteq disk
  /\ versions[current_].files \subseteq disk
  /\ merge.inputs \subseteq disk /\ {merge.output} \ {0} \subseteq disk
  /\ \A a \in Actors : find[a] # 0 => find[a] \in disk

(* A file that DeleteObsoleteFiles is about to delete is not open, so the   *)
(* deletion succeeds although this Env does not share deletion.             *)
DeletedIsClosed == gc.file # 0 => ~Open(gc.file)

(* After the destructor nothing is left: no version, no memtable, no open   *)
(* table.                                                                   *)
NothingLeaked ==
  db = "closed" =>
    /\ \A v \in Objects : versions[v].refs = 0
    /\ \A m \in Objects : memtables[m] = 0
    /\ Alive(shard) = {} /\ \A f \in Files : meta[f] = 0
=============================================================================
