------------------------------ MODULE Recovery ------------------------------
(***************************************************************************)
(* What is on disk and how DB::Open gets the database back from it: log     *)
(* files, tables, MANIFEST files and CURRENT; Recover and RecoverLogFile,   *)
(* LogAndApply, SetCurrentFile and DeleteObsoleteFiles; flushes, and        *)
(* compactions with a flush nested in them; crashes of the process and of   *)
(* the machine between any two steps.                                       *)
(*                                                                         *)
(* A record of a log is the sequence number of a write, or Torn.  Creating, *)
(* renaming and deleting a file is taken to reach the disk at once and in   *)
(* order; the contents of a file survive a machine crash up to its last     *)
(* Sync.  create_if_missing is on and error_if_exists off.                  *)
(***************************************************************************)
EXTENDS Integers, Sequences, FiniteSets

CONSTANTS
  Env,                 \* "posix": util/env_posix.cc; "win": port/env_win.cc
  Crashes,             \* kinds of crash: a subset of {"process", "machine"}
  Faults,              \* I/O that may fail: a subset of {"append", "manifest"}
  paranoid_checks,
  MaxSequence,         \* bound: sequence numbers
  MaxCrashes,          \* bound
  MaxMoves,            \* bound: tables moved down a level, per MANIFEST
  MaxFile              \* bound: file numbers

ASSUME RecoveryAssumption ==
  /\ Env \in {"posix", "win"} /\ Crashes \subseteq {"process", "machine"}
  /\ Faults \subseteq {"append", "manifest"} /\ paranoid_checks \in BOOLEAN
  /\ MaxSequence \in Nat /\ MaxCrashes \in Nat /\ MaxMoves \in Nat /\ MaxFile \in Nat

VARIABLES
  (* on disk *)
  CURRENT,             \* the MANIFEST it names, 0 if there is no such file
  manifests, logs,     \* number -> sequence of records
  synced,              \* <<kind, number>> -> how many records a machine crash spares
  tables,              \* number -> set of sequence numbers
  (* in the process *)
  pc,                  \* DB::Open
  bg,                  \* the background thread, and DB::Open's DeleteObsoleteFiles
  mem_, imm_, logfile_number_,
  log_number_, manifest_file_number_, live, next_file_number_, last_sequence_,
  replay, edit,        \* Open: logs still to be replayed, tables written from logs
  merge,               \* the compaction at work: output and inputs
  building, record,    \* a flush's table; the record LogAndApply writes
  bg_error_,
  detected,            \* this Open has been told of a corruption
  (* history *)
  acked,               \* writes that must be there at the next Open
  durable,             \* ... even if the machine crashes first
  marker,              \* the last write acknowledged with sync
  exposed,             \* acked, in no table that a reader of the MANIFEST gets to, and
                       \* behind a torn record of its log
  crashes

diskVars == <<CURRENT, manifests, logs, synced, tables>>
memVars == <<mem_, imm_, logfile_number_>>
versionVars == <<log_number_, manifest_file_number_, live>>
openVars == <<replay, edit, detected>>
jobVars == <<merge, building, record>>
historyVars == <<acked, durable, marker, exposed, crashes>>
vars == <<diskVars, pc, bg, memVars, versionVars, next_file_number_, last_sequence_, openVars,
          jobVars, bg_error_, historyVars>>

Torn == 0
Put(f, x, v) == [y \in DOMAIN f \cup {x} |-> IF y = x THEN v ELSE f[y]]
Without(f, x) == [y \in DOMAIN f \ {x} |-> f[y]]
Largest(S) == CHOOSE n \in S : \A m \in S : m <= n
Smallest(S) == CHOOSE n \in S : \A m \in S : n <= m
Records(r) == {r[i] : i \in DOMAIN r}
Contents(T) == UNION {tables[n] : n \in T \cap DOMAIN tables}

(* A VersionEdit.  The numbers come together: next_file = 0 is an edit      *)
(* without them, and -1 a record of which only a part was written.          *)
Edit(log, nextfile, lastseq, add, del) ==
  [log_number |-> log, next_file |-> nextfile, last_sequence |-> lastseq, add |-> add, del |-> del]
TornEdit == Edit(0, -1, 0, {}, {})
NoEdit == Edit(0, 0, 0, {}, {})
NoMerge == [number |-> 0, inputs |-> {}]

(* The state of a process that has not opened the database.                 *)
Down ==
  /\ pc' = "down" /\ bg' = "idle" /\ mem_' = {} /\ imm_' = {} /\ logfile_number_' = 0
  /\ log_number_' = 0 /\ manifest_file_number_' = 0 /\ live' = {} /\ next_file_number_' = 2
  /\ last_sequence_' = 0 /\ replay' = {} /\ edit' = {} /\ detected' = FALSE
  /\ merge' = NoMerge /\ building' = 0 /\ record' = NoEdit /\ bg_error_' = FALSE

Init ==
  /\ CURRENT = 0 /\ manifests = <<>> /\ logs = <<>> /\ synced = <<>> /\ tables = <<>>
  /\ pc = "down" /\ bg = "idle" /\ mem_ = {} /\ imm_ = {} /\ logfile_number_ = 0
  /\ log_number_ = 0 /\ manifest_file_number_ = 0 /\ live = {} /\ next_file_number_ = 2
  /\ last_sequence_ = 0 /\ replay = {} /\ edit = {} /\ detected = FALSE
  /\ merge = NoMerge /\ building = 0 /\ record = NoEdit /\ bg_error_ = FALSE
  /\ acked = {} /\ durable = {} /\ marker = 0 /\ exposed = {} /\ crashes = 0

-----------------------------------------------------------------------------
(* Reading the files.                                                       *)

(* log::Reader over the records of a file, of which partial is what a       *)
(* partial one is: what comes before the first of them, and whether a       *)
(* corruption is reported.  A partial record at the end of the file is passed over.  With *)
(* something behind it, either its length field points past the end of the  *)
(* file, which counts as the end, or its checksum is wrong; from there on   *)
(* the blocks of the file are not where the reader looks for them.          *)
ReadRecord(r, partial) ==
  LET torn == {i \in DOMAIN r : r[i] = partial}
      first == Smallest(torn)
  IN IF torn = {} THEN {[read |-> r, reported |-> FALSE]}
     ELSE {[read |-> SubSeq(r, 1, first - 1), reported |-> b] :
             b \in IF first = Len(r) THEN {FALSE} ELSE BOOLEAN}
ReadLog(r) == ReadRecord(r, Torn)
ReadManifest(r) == ReadRecord(r, TornEdit)

(* VersionSet::Recover over the edits r: the numbers of the last edit that  *)
(* has them, and the tables added and not deleted since.                    *)
HasNumbers(r) == {i \in DOMAIN r : r[i].next_file > 0}
Numbers(r) == r[Largest(HasNumbers(r))]
CurrentRecords == IF CURRENT \in DOMAIN manifests THEN manifests[CURRENT] ELSE <<>>
LiveTables(r) ==
  {n \in UNION {r[i].add : i \in DOMAIN r} :
     \E i \in DOMAIN r : n \in r[i].add /\ \A j \in i + 1 .. Len(r) : n \notin r[j].del}

(* SetCurrentFile writes a temporary file, with Sync, and renames it to     *)
(* CURRENT.  rename() replaces CURRENT; MoveFile fails while CURRENT exists *)
(* and RenameFile deletes it before it tries again.                         *)
RenameReplaces == Env = "posix" \/ CURRENT = 0
DeleteTarget ==
  /\ ~RenameReplaces
  /\ pc \in {"newdb", "current"}
  /\ CURRENT' = 0
  /\ UNCHANGED <<manifests, logs, synced, tables, pc, bg, memVars, versionVars, next_file_number_,
                 last_sequence_, openVars, jobVars, bg_error_, historyVars>>

-----------------------------------------------------------------------------
(* DB::Open.                                                                *)

(* Recover finds no CURRENT: NewDB writes MANIFEST-1, closes it unsynced,   *)
(* and makes CURRENT.                                                       *)
NewDB ==
  /\ pc = "down" /\ CURRENT = 0
  /\ manifests' = Put(manifests, 1, <<Edit(0, 2, 0, {}, {})>>)
  /\ synced' = Put(synced, <<"manifest", 1>>, 0)
  /\ pc' = "newdb"
  /\ UNCHANGED <<CURRENT, logs, tables, bg, memVars, versionVars, next_file_number_,
                 last_sequence_, openVars, jobVars, bg_error_, historyVars>>
NewDBCurrent ==
  /\ pc = "newdb" /\ RenameReplaces
  /\ CURRENT' = 1 /\ pc' = "down"
  /\ UNCHANGED <<manifests, logs, synced, tables, bg, memVars, versionVars, next_file_number_,
                 last_sequence_, openVars, jobVars, bg_error_, historyVars>>

(* VersionSet::Recover, the search for missing tables (any file of that     *)
(* number will do) and for the logs to replay.                              *)
MinLog(r) == Numbers(r).log_number
RecoverVersions ==
  /\ pc = "down" /\ CURRENT # 0
  /\ \E m \in ReadManifest(CurrentRecords) :
       LET r == m.read
           expected == LiveTables(r) \ (DOMAIN tables \cup DOMAIN logs \cup DOMAIN manifests)
       IN IF m.reported \/ HasNumbers(r) = {} \/ expected # {}
          THEN /\ pc' = "failed"
               /\ UNCHANGED <<versionVars, next_file_number_, last_sequence_, replay>>
          ELSE /\ log_number_' = Numbers(r).log_number
               /\ manifest_file_number_' = Numbers(r).next_file
               /\ next_file_number_' = Numbers(r).next_file + 1
               /\ last_sequence_' = Numbers(r).last_sequence
               /\ live' = LiveTables(r)
               /\ replay' = {n \in DOMAIN logs : n >= MinLog(r)}
               /\ pc' = "replay"
  /\ UNCHANGED <<diskVars, bg, memVars, edit, detected, jobVars, bg_error_, historyVars>>

(* One round of Recover's loop over the logs, oldest first.  RecoverLogFile *)
(* reads the log into a table; paranoid_checks turns a corruption into an   *)
(* error before that, and the next log's status replaces this one's.        *)
MarkFileNumberUsed(next, n) == Largest({next, n + 1})
SequenceAfter_Bug(got) == last_sequence_
SequenceAfter(got) == Largest({last_sequence_} \cup got)
RecoverLogFile ==
  /\ pc = "replay" /\ replay # {} /\ next_file_number_ <= MaxFile
  /\ LET n == Smallest(replay)
     IN \E l \in ReadLog(logs[n]) :
        LET failed == paranoid_checks /\ l.reported
            got == Records(l.read)
            table == IF got = {} \/ failed THEN {} ELSE {next_file_number_}
        IN /\ tables' = IF table = {} THEN tables ELSE Put(tables, next_file_number_, got)
           /\ edit' = edit \cup table
           /\ next_file_number_' = MarkFileNumberUsed(IF table = {} THEN next_file_number_
                                                      ELSE next_file_number_ + 1, n)
           /\ last_sequence_' = SequenceAfter(got)
           /\ detected' = (detected \/ l.reported)
           /\ pc' = IF failed /\ replay = {n} THEN "failed" ELSE "replay"
           /\ replay' = replay \ {n}
  /\ UNCHANGED <<CURRENT, manifests, logs, synced, bg, memVars, versionVars, jobVars, bg_error_,
                 historyVars>>

(* This incarnation's first log.                                            *)
NewLog ==
  /\ pc = "replay" /\ replay = {} /\ next_file_number_ <= MaxFile
  /\ logs' = Put(logs, next_file_number_, <<>>)
  /\ synced' = Put(synced, <<"log", next_file_number_>>, 0)
  /\ logfile_number_' = next_file_number_ /\ next_file_number_' = next_file_number_ + 1
  /\ pc' = "manifest"
  /\ UNCHANGED <<CURRENT, manifests, tables, bg, mem_, imm_, versionVars, last_sequence_,
                 openVars, jobVars, bg_error_, historyVars>>

(* What of a MANIFEST of r records is on disk for good: LogAndApply syncs.  *)
SyncedManifest(r) == r

(* The first LogAndApply: a new MANIFEST with a snapshot of the recovered   *)
(* version and the edit, synced.  If that fails the file is deleted.        *)
NewManifest ==
  LET m == manifest_file_number_
  IN /\ pc = "manifest"
     /\ \/ /\ manifests' = Put(manifests, m, <<Edit(0, 0, 0, live, {}),
                    Edit(logfile_number_, next_file_number_, last_sequence_, edit, {})>>)
           /\ synced' = Put(synced, <<"manifest", m>>, SyncedManifest(2))
           /\ pc' = "current"
        \/ /\ "manifest" \in Faults
           /\ manifests' = Without(manifests, m)
           /\ synced' = Without(synced, <<"manifest", m>>)
           /\ pc' = "failed"
     /\ UNCHANGED <<CURRENT, logs, tables, bg, memVars, versionVars, next_file_number_,
                    last_sequence_, openVars, jobVars, bg_error_, historyVars>>

(* ... then CURRENT names it, and everything recovered is in tables.        *)
InstallManifest ==
  /\ pc = "current" /\ RenameReplaces
  /\ CURRENT' = manifest_file_number_
  /\ live' = live \cup edit /\ log_number_' = logfile_number_
  /\ pc' = "open" /\ bg' = "gc"
  /\ acked' = acked \cup Contents(live') /\ durable' = durable \cup Contents(live')
  /\ exposed' = exposed \ Contents(live')
  /\ UNCHANGED <<manifests, logs, synced, tables, memVars, manifest_file_number_,
                 next_file_number_, last_sequence_, openVars, jobVars, bg_error_, marker, crashes>>

(* Open returned an error; the caller tries again.                          *)
Reopen == pc = "failed" /\ Down /\ UNCHANGED <<diskVars, historyVars>>

-----------------------------------------------------------------------------
(* The open database.  DeleteObsoleteFiles keeps the mutex, so nothing else *)
(* runs meanwhile.                                                          *)
Running == pc = "open" /\ bg # "gc"

(* Write: AddRecord, Sync if asked for, InsertInto.                         *)
Synced_Bug(sync, r) == synced
Synced(sync, r) == IF sync THEN Put(synced, <<"log", logfile_number_>>, Len(r)) ELSE synced
Write(sync) ==
  LET n == last_sequence_ + 1
      r == Append(logs[logfile_number_], n)
  IN /\ Running /\ ~bg_error_ /\ n <= MaxSequence
     /\ logs' = Put(logs, logfile_number_, r)
     /\ synced' = Synced(sync, r)
     /\ mem_' = mem_ \cup {n} /\ last_sequence_' = n
     /\ acked' = acked \cup {n}
     /\ durable' = IF sync THEN durable \cup {n} ELSE durable
     /\ marker' = IF sync THEN n ELSE marker
     /\ exposed' = IF Torn \in Records(logs[logfile_number_]) THEN exposed \cup {n} ELSE exposed
     /\ UNCHANGED <<CURRENT, manifests, tables, pc, bg, imm_, logfile_number_, versionVars,
                    next_file_number_, openVars, jobVars, bg_error_, crashes>>

(* AddRecord fails: part of the record, or all of it, is in the log.  The   *)
(* numbers are used up and the database goes on.                            *)
AppendFails ==
  LET n == last_sequence_ + 1
  IN /\ "append" \in Faults /\ Running /\ ~bg_error_ /\ n <= MaxSequence
     /\ \E x \in {Torn, n} : logs' = Put(logs, logfile_number_, Append(logs[logfile_number_], x))
     /\ last_sequence_' = n
     /\ UNCHANGED <<CURRENT, manifests, synced, tables, pc, bg, memVars, versionVars,
                    next_file_number_, openVars, jobVars, bg_error_, historyVars>>

(* MakeRoomForWrite's switch to a new memtable and a new log.               *)
SwitchMemTable ==
  /\ Running /\ ~bg_error_ /\ imm_ = {} /\ mem_ # {} /\ next_file_number_ <= MaxFile
  /\ logs' = Put(logs, next_file_number_, <<>>)
  /\ synced' = Put(synced, <<"log", next_file_number_>>, 0)
  /\ logfile_number_' = next_file_number_ /\ next_file_number_' = next_file_number_ + 1
  /\ imm_' = mem_ /\ mem_' = {}
  /\ UNCHANGED <<CURRENT, manifests, tables, pc, bg, versionVars, last_sequence_, openVars,
                 jobVars, bg_error_, historyVars>>

(* CompactMemTable, also from within a compaction, which does not look at   *)
(* bg_error_: WriteLevel0Table takes a number and builds the table without  *)
(* the mutex ...                                                            *)
CompactMemTable ==
  /\ Running /\ bg = "idle" /\ imm_ # {} /\ (~bg_error_ \/ merge # NoMerge)
  /\ next_file_number_ <= MaxFile
  /\ building' = next_file_number_ /\ next_file_number_' = next_file_number_ + 1
  /\ bg' = "build"
  /\ UNCHANGED <<diskVars, pc, memVars, versionVars, last_sequence_, openVars, merge, record,
                 bg_error_, historyVars>>
(* ... and LogAndApply fills in the edit's numbers, with the mutex.         *)
FlushLogNumber_Bug == next_file_number_
FlushLogNumber == logfile_number_
CompactMemTableBuilt ==
  /\ bg = "build"
  /\ tables' = Put(tables, building, imm_)
  /\ record' = Edit(FlushLogNumber, next_file_number_, last_sequence_, {building}, {})
  /\ bg' = "write"
  /\ UNCHANGED <<CURRENT, manifests, logs, synced, pc, memVars, versionVars, next_file_number_,
                 last_sequence_, openVars, merge, building, bg_error_, historyVars>>

(* DoCompactionWork: the output file, in pending_outputs_, is there from    *)
(* the start.  Which tables are merged is LevelStore's business.            *)
DoCompactionWork ==
  /\ Running /\ bg = "idle" /\ merge = NoMerge /\ imm_ = {} /\ ~bg_error_
  /\ next_file_number_ <= MaxFile
  /\ \E inputs \in (SUBSET live) \ {{}} :
       /\ merge' = [number |-> next_file_number_, inputs |-> inputs]
       /\ tables' = Put(tables, next_file_number_, Contents(inputs))
  /\ next_file_number_' = next_file_number_ + 1
  /\ UNCHANGED <<CURRENT, manifests, logs, synced, pc, bg, memVars, versionVars, last_sequence_,
                 openVars, building, record, bg_error_, historyVars>>

(* InstallCompactionResults, whether or not a flush has failed meanwhile.   *)
InstallCompactionResults ==
  /\ Running /\ bg = "idle" /\ merge # NoMerge
  /\ record' = Edit(log_number_, next_file_number_, last_sequence_, {merge.number}, merge.inputs)
  /\ bg' = "write"
  /\ UNCHANGED <<diskVars, pc, memVars, versionVars, next_file_number_, last_sequence_, openVars,
                 merge, building, bg_error_, historyVars>>

(* BackgroundCompaction moves a table down a level: one edit deletes and    *)
(* adds it.                                                                 *)
Moves == {e \in Records(manifests[manifest_file_number_]) : e.add = e.del /\ e.add # {}}
TrivialMove ==
  /\ Running /\ bg = "idle" /\ merge = NoMerge /\ imm_ = {} /\ ~bg_error_
  /\ Cardinality(Moves) < MaxMoves
  /\ \E n \in live : record' = Edit(log_number_, next_file_number_, last_sequence_, {n}, {n})
  /\ bg' = "write"
  /\ UNCHANGED <<diskVars, pc, memVars, versionVars, next_file_number_, last_sequence_, openVars,
                 merge, building, bg_error_, historyVars>>

(* What a record that comes behind the records r of a MANIFEST secures: a   *)
(* reader does not get past a partial one.                                  *)
Reached(r) == IF TornEdit \in Records(r) THEN {} ELSE Contents(record.add)

(* LogAndApply's write of the record, with Sync and without the mutex, and  *)
(* what follows: the new version and, except for a move, DeleteObsoleteFiles *)
(* which does nothing after a background error; or the background error.    *)
AfterApply == IF bg_error_ \/ record.add = record.del THEN "idle" ELSE "gc"
LogAndApply ==
  LET m == manifest_file_number_
      flush == record.del = {}
  IN /\ bg = "write"
     /\ \/ /\ manifests' = Put(manifests, m, Append(manifests[m], record))
           /\ synced' = Put(synced, <<"manifest", m>>, SyncedManifest(Len(manifests[m]) + 1))
           /\ live' = (live \ record.del) \cup record.add
           /\ log_number_' = record.log_number
           /\ imm_' = IF flush THEN {} ELSE imm_
           /\ durable' = durable \cup Reached(manifests[m])
           /\ exposed' = exposed \ Reached(manifests[m])
           /\ bg' = AfterApply
           /\ UNCHANGED bg_error_
        \/ /\ "manifest" \in Faults
           /\ \/ UNCHANGED manifests
              \/ \E x \in {TornEdit, record} :
                   manifests' = Put(manifests, m, Append(manifests[m], x))
           /\ bg_error_' = TRUE /\ bg' = "idle"
           /\ UNCHANGED <<synced, live, log_number_, imm_, durable, exposed>>
     /\ IF flush THEN building' = 0 /\ UNCHANGED merge ELSE merge' = NoMerge /\ UNCHANGED building
     /\ record' = NoEdit
     /\ UNCHANGED <<CURRENT, logs, tables, pc, mem_, logfile_number_, manifest_file_number_,
                    next_file_number_, last_sequence_, openVars, acked, marker, crashes>>

(* DeleteObsoleteFiles, file by file.                                       *)
Pending_Bug == {}
Pending == {merge.number}
KeepLog(n) == n >= log_number_
KeepManifest(n) == n >= manifest_file_number_
Keep(kind, n) ==
  CASE kind = "log" -> KeepLog(n)
    [] kind = "manifest" -> KeepManifest(n)
    [] kind = "table" -> n \in live \cup Pending
Files == ({"log"} \X DOMAIN logs) \cup ({"manifest"} \X DOMAIN manifests)
           \cup ({"table"} \X DOMAIN tables)
Obsolete == {f \in Files : ~Keep(f[1], f[2])}
DeleteObsoleteFiles ==
  /\ bg = "gc"
  /\ \/ /\ Obsolete = {} /\ bg' = "idle"
        /\ UNCHANGED <<logs, manifests, tables, synced>>
     \/ \E f \in Obsolete :
        /\ logs' = IF f[1] = "log" THEN Without(logs, f[2]) ELSE logs
        /\ manifests' = IF f[1] = "manifest" THEN Without(manifests, f[2]) ELSE manifests
        /\ tables' = IF f[1] = "table" THEN Without(tables, f[2]) ELSE tables
        /\ synced' = Without(synced, f)
        /\ UNCHANGED bg
  /\ UNCHANGED <<CURRENT, pc, memVars, versionVars, next_file_number_, last_sequence_, openVars,
                 jobVars, bg_error_, historyVars>>

-----------------------------------------------------------------------------
(* The process goes away, by a crash or by closing the database.            *)
ProcessCrash ==
  /\ "process" \in Crashes /\ pc \notin {"down", "failed"} /\ crashes < MaxCrashes
  /\ Down /\ crashes' = crashes + 1
  /\ UNCHANGED <<diskVars, acked, durable, marker, exposed>>

(* The machine goes down: each file keeps its synced records and some of    *)
(* those behind them.                                                       *)
Remains(kind, f) ==
  LET cuts == {len \in [DOMAIN f -> 0 .. Largest({0} \cup {Len(f[n]) : n \in DOMAIN f})] :
                 \A n \in DOMAIN f : synced[<<kind, n>>] <= len[n] /\ len[n] <= Len(f[n])}
  IN {[n \in DOMAIN f |-> SubSeq(f[n], 1, len[n])] : len \in cuts}
MachineCrash ==
  /\ "machine" \in Crashes /\ crashes < MaxCrashes
  /\ logs' \in Remains("log", logs)
  /\ manifests' \in Remains("manifest", manifests)
  /\ synced' = [f \in DOMAIN synced |-> IF f[1] = "log" THEN Len(logs'[f[2]])
                                        ELSE Len(manifests'[f[2]])]
  /\ Down /\ crashes' = crashes + 1
  /\ acked' = durable
  /\ UNCHANGED <<CURRENT, tables, durable, marker, exposed>>

(* With a RenameFile that is one step and appends that do not fail.         *)
PosixNext ==
  \/ NewDB \/ NewDBCurrent \/ RecoverVersions \/ RecoverLogFile \/ NewLog \/ NewManifest
  \/ InstallManifest \/ Reopen
  \/ \E sync \in BOOLEAN : Write(sync)
  \/ SwitchMemTable
  \/ CompactMemTable \/ CompactMemTableBuilt \/ DoCompactionWork \/ InstallCompactionResults
  \/ TrivialMove
  \/ LogAndApply \/ DeleteObsoleteFiles
  \/ ProcessCrash \/ MachineCrash
PosixSpec == Init /\ [][PosixNext]_vars

Next == PosixNext \/ DeleteTarget \/ AppendFails
Spec == Init /\ [][Next]_vars

-----------------------------------------------------------------------------
(* Every variable has its type; the numbers of files stay in bounds.        *)
EditType(e) ==
  /\ e.log_number \in 0 .. MaxFile /\ e.next_file \in -1 .. MaxFile + 2
  /\ e.last_sequence \in 0 .. MaxSequence
  /\ e.add \subseteq 1 .. MaxFile /\ e.del \subseteq 1 .. MaxFile
TypeOK ==
  /\ CURRENT \in {0} \cup DOMAIN manifests
  /\ \A n \in DOMAIN manifests : \A e \in Records(manifests[n]) : EditType(e)
  /\ \A n \in DOMAIN logs : Records(logs[n]) \subseteq 0 .. MaxSequence
  /\ \A n \in DOMAIN tables : tables[n] \subseteq 1 .. MaxSequence
  /\ DOMAIN synced = {f \in Files : f[1] # "table"}
  /\ pc \in {"down", "newdb", "replay", "manifest", "current", "open", "failed"}
  /\ bg \in {"idle", "build", "write", "gc"}
  /\ mem_ \subseteq 1 .. MaxSequence /\ imm_ \subseteq 1 .. MaxSequence
  /\ logfile_number_ \in 0 .. MaxFile /\ log_number_ \in 0 .. MaxFile
  /\ EditType(record) /\ building \in 0 .. MaxFile /\ merge.number \in 0 .. MaxFile

(* What an open database holds.                                             *)
Held == Contents(live) \cup mem_ \cup imm_

(* A write that was acknowledged is in the database whenever it is open     *)
(* again: after crashes of the process any write, after a crash of the      *)
(* machine one written with sync, flushed or recovered before (Write,       *)
(* Recover, DeleteObsoleteFiles).                                           *)
Survives == pc = "open" => acked \subseteq Held

(* A failed append costs no write but the ones that follow it in its log,   *)
(* and those only until they are in a table (EmitPhysicalRecord, Reader).   *)
LostOnlyBehindTorn == pc = "open" => acked \ exposed \subseteq Held

(* At every moment the files that CURRENT leads to hold what must be there: *)
(* the logs not older than the MANIFEST's log number and its tables.  No    *)
(* order of flushes, compactions, switches and deletions has a gap.         *)
Reachable ==
  LET r == CHOOSE m \in {x.read : x \in ReadManifest(CurrentRecords)} : TRUE
      logged == {n \in DOMAIN logs : n >= Numbers(r).log_number}
  IN IF HasNumbers(r) = {} THEN {}
     ELSE Contents(LiveTables(r)) \cup UNION {Records(logs[n]) : n \in logged}
AckedOnDisk == acked \subseteq Reachable

(* The tables of the current version, and the output of a compaction at     *)
(* work, are never deleted (DeleteObsoleteFiles, pending_outputs_).         *)
LiveFilesKept == pc = "open" => (live \cup {merge.number}) \ {0} \subseteq DOMAIN tables

(* A database that holds acknowledged writes can be opened.                 *)
Openable == pc = "failed" => acked = {}

(* Crashing at any moment is safe: what must survive is on disk where       *)
(* CURRENT leads, no table in use has been deleted, and no Open has failed  *)
(* on what a crash left (Recover, LogAndApply, DeleteObsoleteFiles).        *)
Recoverable == AckedOnDisk /\ LiveFilesKept /\ Openable

(* The numbers given to new writes are above all that was recovered.        *)
FreshNumbers == pc = "open" => \A n \in Held : n <= last_sequence_

(* include/leveldb/options.h:51: with paranoid_checks the implementation    *)
(* stops if it detects an error.                                            *)
ParanoidStops == paranoid_checks /\ detected => pc # "open"

(* doc/index.html:127: after a crash a bulk load may go on behind the last  *)
(* write made with sync; everything before it is there.                     *)
RestartAfterMarker == pc = "open" => 1 .. marker \subseteq Held
=============================================================================
