------------------------------- MODULE Repair -------------------------------
(***************************************************************************)
(* RepairDB (db/repair.cc) on the files of Recovery: every log becomes a    *)
(* table and is archived, every table is scanned, and copied if it is       *)
(* damaged, and a new MANIFEST lists what was found.  The process may go    *)
(* away between any two steps, and files may turn out to be unreadable.     *)
(*                                                                         *)
(* Archiving a file moves it into lost/, which nothing here ever reads, so  *)
(* it is a deletion.  RepairDB takes no lock: that nobody has the database  *)
(* open, and that the caller repeats a repair which did not return OK       *)
(* before opening the database, is up to the caller.  What a repair loses   *)
(* goes to Recovery's exposed at the step that loses it.                    *)
(***************************************************************************)
EXTENDS Recovery

CONSTANTS
  MaxRepairs,          \* bound: calls of RepairDB
  MaxDamage            \* bound: files that RepairDB finds unreadable, in part or whole

ASSUME RepairAssumption == MaxRepairs \in Nat /\ MaxDamage \in Nat

VARIABLES
  rp,                  \* where RepairDB is; "none" if it is not running
  repairer,            \* the Repairer: what is left to do and what was found
  unfinished,          \* the last RepairDB did not return OK
  repaired,            \* the last RepairDB did, and the database is not yet open
  repairs, damage      \* counted against the bounds

repairVars == <<rp, repairer, unfinished, repaired, repairs, damage>>
allVars == <<vars, repairVars>>

NoRepairer ==
  [logs |-> {}, table_numbers |-> {}, found |-> {}, manifests |-> {}, next |-> 1,
   max_sequence |-> 0, src |-> 0, copy |-> 0, readable |-> {}]

RInit ==
  /\ Init /\ rp = "none" /\ repairer = NoRepairer /\ unfinished = FALSE /\ repaired = FALSE
  /\ repairs = 0 /\ damage = 0

(* What only the given set of tables holds.                                 *)
OnlyIn(T) == Contents(T) \ Contents(DOMAIN tables \ T)

(* RepairDB returns, with or without an error.                              *)
Return(ok) ==
  /\ rp' = "none" /\ repairer' = NoRepairer /\ unfinished' = ~ok /\ repaired' = ok

-----------------------------------------------------------------------------
(* FindFiles.  The numbers of MANIFEST files do not count.                  *)
NextNumber_Bug(numbers) == Largest({1} \cup numbers)
NextNumber(numbers) == Largest({1} \cup {n + 1 : n \in numbers})
FindFiles ==
  /\ rp = "none" /\ pc \in {"down", "failed"} /\ repairs < MaxRepairs
  /\ manifests # <<>> \/ logs # <<>> \/ tables # <<>>
  /\ repairer' = [NoRepairer EXCEPT !.logs = DOMAIN logs, !.table_numbers = DOMAIN tables,
                                    !.manifests = DOMAIN manifests,
                                    !.next = NextNumber(DOMAIN logs \cup DOMAIN tables)]
  /\ rp' = "logs" /\ repairs' = repairs + 1 /\ repaired' = FALSE /\ unfinished' = TRUE
  /\ Down /\ UNCHANGED <<diskVars, historyVars, damage>>

(* What ConvertLogToTable reads from a log: the records before the first    *)
(* partial one.  The reader does not look at checksums, so what is behind   *)
(* that may come back as a record of any number.                            *)
ReadUnchecked_Bug(r) == {Records(SubSeq(r, 1, Len(r) - 1)) \ {Torn}}
ReadUnchecked(r) ==
  {Records(l.read) \cup bad : l \in ReadLog(r),
     bad \in IF Torn \in Records(SubSeq(r, 1, Len(r) - 1))
             THEN {{}} \cup {{n} : n \in 1 .. MaxSequence} ELSE {{}}}

(* ConvertLogToTable: the log's records in a table of a new number, if      *)
(* there are any; the number is used up in any case.  BuildTable may fail.  *)
ConvertLogToTable ==
  /\ rp = "logs" /\ repairer.next <= MaxFile
  /\ \E n \in repairer.logs : \E got \in ReadUnchecked(logs[n]), ok \in BOOLEAN :
       /\ ok \/ damage < MaxDamage
       /\ damage' = IF ok THEN damage ELSE damage + 1
       /\ LET new == IF ok /\ got # {} THEN {repairer.next} ELSE {}
          IN /\ tables' = IF new = {} THEN tables ELSE Put(tables, repairer.next, got)
             /\ repairer' = [repairer EXCEPT !.next = @ + 1, !.table_numbers = @ \cup new, !.src = n]
       /\ exposed' = IF ok THEN exposed ELSE exposed \cup (got \ Contents(DOMAIN tables))
  /\ rp' = "archive_log"
  /\ UNCHANGED <<CURRENT, manifests, logs, synced, pc, bg, memVars, versionVars,
                 next_file_number_, last_sequence_, openVars, jobVars, bg_error_, acked, durable,
                 marker, crashes, unfinished, repaired, repairs>>

(* ... and ConvertLogFilesToTables archives the log, whatever came of it.   *)
ArchiveLog ==
  /\ rp = "archive_log"
  /\ logs' = Without(logs, repairer.src) /\ synced' = Without(synced, <<"log", repairer.src>>)
  /\ repairer' = [repairer EXCEPT !.logs = @ \ {repairer.src}, !.src = 0]
  /\ rp' = "logs"
  /\ UNCHANGED <<CURRENT, manifests, tables, pc, bg, memVars, versionVars, next_file_number_,
                 last_sequence_, openVars, jobVars, bg_error_, historyVars, unfinished, repaired,
                 repairs, damage>>

ExtractMetaData ==
  /\ rp = "logs" /\ repairer.logs = {} /\ rp' = "tables"
  /\ UNCHANGED <<vars, repairer, unfinished, repaired, repairs, damage>>

-----------------------------------------------------------------------------
(* ScanTable reads all of the table.  A table of no entries is the copy of  *)
(* an earlier repair that has no footer.                                    *)
Listed(n, contents) ==
  [repairer EXCEPT !.table_numbers = @ \ {n}, !.found = @ \cup {n},
                   !.max_sequence = Largest({@} \cup contents)]
ScanTable ==
  /\ rp = "tables"
  /\ \E n \in {m \in repairer.table_numbers : tables[m] # {}} : repairer' = Listed(n, tables[n])
  /\ UNCHANGED <<vars, rp, unfinished, repaired, repairs, damage>>

(* ScanTable does not get its size: the file is archived.                   *)
Dropped(n) == [repairer EXCEPT !.table_numbers = @ \ {n}]
DropTable ==
  /\ rp = "tables" /\ damage < MaxDamage
  /\ \E n \in repairer.table_numbers :
       /\ tables' = Without(tables, n)
       /\ exposed' = exposed \cup OnlyIn({n})
       /\ repairer' = Dropped(n)
  /\ damage' = damage + 1
  /\ UNCHANGED <<CURRENT, manifests, logs, synced, pc, bg, memVars, versionVars,
                 next_file_number_, last_sequence_, openVars, jobVars, bg_error_, acked, durable,
                 marker, crashes, rp, unfinished, repaired, repairs>>

(* RepairTable: what can be read goes into a copy, which has no footer when *)
(* the source is archived: until Finish none of it can be read.  What could *)
(* not be read is lost here, the rest if there is no Finish (LostCopy).     *)
Readable(n) == IF tables[n] = {} THEN {{}} ELSE SUBSET tables[n] \ {tables[n]}
Fresh == [repairer EXCEPT !.next = @ + 1]
RepairTable ==
  /\ rp = "tables" /\ repairer.next <= MaxFile
  /\ \E n \in repairer.table_numbers : \E readable \in Readable(n) :
       /\ tables[n] # {} => damage < MaxDamage
       /\ tables' = Put(Without(tables, n), repairer.next, {})
       /\ exposed' = exposed \cup (OnlyIn({n}) \ readable)
       /\ repairer' = [Fresh EXCEPT !.src = n, !.copy = repairer.next, !.readable = readable]
       /\ damage' = IF tables[n] = {} THEN damage ELSE damage + 1
  /\ rp' = "copied"
  /\ UNCHANGED <<CURRENT, manifests, logs, synced, pc, bg, memVars, versionVars,
                 next_file_number_, last_sequence_, openVars, jobVars, bg_error_, acked, durable,
                 marker, crashes, unfinished, repaired, repairs>>
LostCopy == repairer.readable \ Contents(DOMAIN tables)

(* ... Finish, Close and the rename to the source's name; an empty copy     *)
(* stays where it is, and if one of these fails the copy is deleted.        *)
Copied(r) == [r EXCEPT !.src = 0, !.copy = 0, !.readable = {}]
RepairTableFinish ==
  LET n == repairer.src
      got == repairer.readable
  IN /\ rp = "copied"
     /\ \/ /\ got = {}
           /\ repairer' = Copied(Dropped(n))
           /\ UNCHANGED <<tables, exposed>>
        \/ /\ got # {}
           /\ tables' = Put(Without(tables, repairer.copy), n, got)
           /\ repairer' = Copied(Listed(n, got))
           /\ UNCHANGED exposed
        \/ /\ "manifest" \in Faults
           /\ tables' = Without(tables, repairer.copy)
           /\ exposed' = exposed \cup LostCopy
           /\ repairer' = Copied(Dropped(n))
     /\ rp' = "tables"
     /\ UNCHANGED <<CURRENT, manifests, logs, synced, pc, bg, memVars, versionVars,
                    next_file_number_, last_sequence_, openVars, jobVars, bg_error_, acked,
                    durable, marker, crashes, unfinished, repaired, repairs, damage>>

(* ... or the copy cannot be created: the source stays, listed nowhere.     *)
RepairTableFails ==
  /\ rp = "tables" /\ "manifest" \in Faults /\ damage < MaxDamage /\ repairer.next <= MaxFile
  /\ \E n \in repairer.table_numbers :
       /\ repairer' = [Fresh EXCEPT !.table_numbers = @ \ {n}]
       /\ exposed' = exposed \cup OnlyIn({n})
  /\ damage' = damage + 1
  /\ UNCHANGED <<diskVars, pc, bg, memVars, versionVars, next_file_number_, last_sequence_,
                 openVars, jobVars, bg_error_, acked, durable, marker, crashes, rp, unfinished,
                 repaired, repairs>>

-----------------------------------------------------------------------------
(* WriteDescriptor writes the record into a temporary file, unsynced; an    *)
(* error ends the repair before anything else is touched.                   *)
Descriptor_Bug == Edit(0, 0, repairer.max_sequence, repairer.found, {})
Descriptor == Edit(0, repairer.next, repairer.max_sequence, repairer.found, {})
WriteDescriptor ==
  /\ rp = "tables" /\ repairer.table_numbers = {}
  /\ \/ rp' = "manifests" /\ UNCHANGED <<repairer, unfinished, repaired>>
     \/ "manifest" \in Faults /\ Return(FALSE)
  /\ UNCHANGED <<vars, repairs, damage>>

(* ... archives the MANIFEST files it found, one by one ...                 *)
ArchiveManifest ==
  /\ rp = "manifests"
  /\ \E m \in repairer.manifests :
       /\ manifests' = Without(manifests, m) /\ synced' = Without(synced, <<"manifest", m>>)
       /\ repairer' = [repairer EXCEPT !.manifests = @ \ {m}]
  /\ UNCHANGED <<CURRENT, logs, tables, pc, bg, memVars, versionVars, next_file_number_,
                 last_sequence_, openVars, jobVars, bg_error_, historyVars, rp, unfinished,
                 repaired, repairs, damage>>

(* ... renames its own to MANIFEST-1 ...                                    *)
InstallDescriptor ==
  /\ rp = "manifests" /\ repairer.manifests = {}
  /\ \/ /\ manifests' = Put(manifests, 1, <<Descriptor>>)
        /\ synced' = Put(synced, <<"manifest", 1>>, 0)
        /\ rp' = "current"
        /\ UNCHANGED <<repairer, unfinished, repaired>>
     \/ "manifest" \in Faults /\ Return(FALSE) /\ UNCHANGED <<manifests, synced>>
  /\ UNCHANGED <<CURRENT, logs, tables, pc, bg, memVars, versionVars, next_file_number_,
                 last_sequence_, openVars, jobVars, bg_error_, historyVars, repairs, damage>>

(* ... and has SetCurrentFile make it current.                              *)
DeleteCurrent ==
  /\ rp = "current" /\ ~RenameReplaces /\ CURRENT' = 0
  /\ UNCHANGED <<manifests, logs, synced, tables, pc, bg, memVars, versionVars,
                 next_file_number_, last_sequence_, openVars, jobVars, bg_error_, historyVars,
                 repairVars>>
SetCurrentFile ==
  /\ rp = "current" /\ RenameReplaces /\ CURRENT' = 1
  /\ Return(TRUE)
  /\ UNCHANGED <<manifests, logs, synced, tables, pc, bg, memVars, versionVars,
                 next_file_number_, last_sequence_, openVars, jobVars, bg_error_, historyVars,
                 repairs, damage>>

(* The process goes away during a repair.                                   *)
RepairCrash ==
  /\ rp # "none" /\ Return(FALSE) /\ exposed' = exposed \cup LostCopy
  /\ UNCHANGED <<diskVars, pc, bg, memVars, versionVars, next_file_number_, last_sequence_,
                 openVars, jobVars, bg_error_, acked, durable, marker, crashes, repairs, damage>>

RepairDB ==
  \/ FindFiles \/ ConvertLogToTable \/ ArchiveLog \/ ExtractMetaData \/ ScanTable \/ DropTable
  \/ RepairTable \/ RepairTableFinish \/ RepairTableFails \/ WriteDescriptor \/ ArchiveManifest
  \/ InstallDescriptor \/ DeleteCurrent \/ SetCurrentFile \/ RepairCrash

RNext ==
  \/ RepairDB
  \/ /\ rp = "none" /\ ~unfinished /\ Next
     /\ repaired' = (repaired /\ pc' # "open")
     /\ UNCHANGED <<rp, repairer, unfinished, repairs, damage>>

RSpec == RInit /\ [][RNext]_allVars
-----------------------------------------------------------------------------
(* Every variable has its type, and a repair has only numbers of files      *)
(* that are there.                                                          *)
RTypeOK ==
  /\ rp \in {"none", "logs", "archive_log", "tables", "copied", "manifests", "current"}
  /\ repairer.next \in 1 .. MaxFile + 1 /\ repairer.max_sequence \in 0 .. MaxSequence
  /\ repairer.logs \subseteq DOMAIN logs /\ repairer.manifests \subseteq DOMAIN manifests
  /\ repairer.table_numbers \cup repairer.found \subseteq DOMAIN tables \cup {repairer.src}
  /\ <<unfinished, repaired>> \in BOOLEAN \X BOOLEAN
  /\ repairs \in 0 .. MaxRepairs /\ damage \in 0 .. MaxDamage

(* What a repair that starts now would find.                                *)
InDirectory ==
  Contents(DOMAIN tables)
    \cup UNION {Records(l.read) : l \in UNION {ReadLog(logs[n]) : n \in DOMAIN logs}}

(* While a repair runs or waits to be repeated, every acknowledged write is *)
(* in a log or table of the directory or, between the archiving of a        *)
(* damaged table and the renaming of its copy, in that copy; but for those  *)
(* lost: behind a partial record, in what could not be read, built or       *)
(* copied, or in a copy that a crash or an error has left unfinished        *)
(* (ConvertLogFilesToTables, RepairTable).                                  *)
RepairRepeatable ==
  rp # "none" \/ unfinished => acked \ exposed \subseteq InDirectory \cup repairer.readable

(* ... in a log or table of the directory at every moment, as "copy src     *)
(* contents to a new table and then rename the new table over the source"   *)
(* would have it.  Not so: RepairTable archives the source before Finish.   *)
ReadableInDirectory ==
  rp # "none" \/ unfinished => acked \ exposed \subseteq InDirectory

(* A database that was repaired can be opened: CURRENT leads to a MANIFEST  *)
(* with its numbers, and the tables it lists are there (WriteDescriptor).   *)
(* (In a directory with neither logs nor tables next-file-number is 1, and  *)
(* Open writes its MANIFEST over the one that CURRENT names.)               *)
RepairedOpens ==
  repaired /\ pc = "down" /\ acked \ exposed # {} =>
    /\ CURRENT \in DOMAIN manifests /\ HasNumbers(manifests[CURRENT]) # {}
    /\ LiveTables(manifests[CURRENT]) \subseteq DOMAIN tables

(* Neither a repair nor the database opened after it writes over a table    *)
(* that is in use or that a repair has still to scan (FindFiles' number).   *)
InUse == LiveTables(CurrentRecords) \cup repairer.table_numbers \cup repairer.found
NoTableOverwritten ==
  [][\A n \in InUse \cap DOMAIN tables \cap DOMAIN tables' :
       tables'[n] = tables[n] \/ rp = "copied"]_allVars
=============================================================================
