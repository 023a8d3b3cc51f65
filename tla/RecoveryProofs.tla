--------------------------- MODULE RecoveryProofs ---------------------------
(* Theorems about Recovery: what survives crashes, for any number of writes, *)
(* files, failures and crashes.                                              *)
EXTENDS RecoveryInvariant, WellFoundedInduction

(* Seconds for the provers. *)
USE SMTT(30), ZenonT(30)

-----------------------------------------------------------------------------
(* Smallest and Largest.                                                     *)

Less == {p \in Nat \X Nat : p[1] < p[2]}

LEMMA LessWellFounded == IsWellFoundedOn(Less, Nat)
BY NatLessThanWellFounded DEF OpToRel, Less

LEMMA SmallestIs ==
  ASSUME NEW T \in SUBSET Nat, T # {}
  PROVE  Smallest(T) \in T /\ \A y \in T : Smallest(T) <= y
<1>1. PICK u \in T : \A v \in T : ~(<<v, u>> \in Less)
  BY LessWellFounded, WFMin, ZenonT(30)
<1>2. ASSUME NEW v \in T PROVE u <= v
  <2>1. u \in Nat /\ v \in Nat /\ ~(<<v, u>> \in Less)
    BY <1>1, ZenonT(30)
  <2> QED
    BY <2>1 DEF Less
<1> QED
  BY <1>2, ZenonT(30) DEF Smallest

LEMMA LargestIs ==
  ASSUME NEW b \in Nat, NEW T \in SUBSET (0 .. b), T # {}
  PROVE  Largest(T) \in T /\ \A y \in T : y <= Largest(T)
<1> DEFINE U == {b - x : x \in T}
<1>1. U \in SUBSET Nat /\ U # {}
  <2>1. \A x \in T : b - x \in Nat
    OBVIOUS
  <2> QED
    BY <2>1, ZenonT(30)
<1>2. Smallest(U) \in U /\ \A v \in U : Smallest(U) <= v
  <2> HIDE DEF U
  <2> QED
    BY <1>1, SmallestIs
<1>3. PICK x \in T : Smallest(U) = b - x
  BY <1>2, ZenonT(30)
<1>4. ASSUME NEW y \in T PROVE y <= x
  <2>1. b - y \in U
    BY ZenonT(30)
  <2>2. b - x <= b - y
    BY <1>2, <1>3, <2>1, ZenonT(30)
  <2> QED
    BY <2>2
<1> QED
  BY <1>4, ZenonT(30) DEF Largest

LEMMA LargestOfTwo ==
  ASSUME NEW m \in Nat, NEW n \in Nat
  PROVE  /\ Largest({m, n}) \in {m, n} /\ m <= Largest({m, n}) /\ n <= Largest({m, n})
         /\ Largest({m, n}) \in Nat
<1>1. {m, n} \in SUBSET (0 .. m + n) /\ {m, n} # {} /\ m + n \in Nat
  OBVIOUS
<1>2. Largest({m, n}) \in {m, n} /\ \A y \in {m, n} : y <= Largest({m, n})
  BY <1>1, LargestIs
<1> QED
  BY <1>2

-----------------------------------------------------------------------------
(* Reading a file: all that a reader may return is the same prefix.          *)

LEMMA ReadPrefix ==
  ASSUME NEW S, NEW r \in Seq(S), NEW partial, NEW m \in ReadRecord(r, partial)
  PROVE  \E e \in 0 .. Len(r) :
           /\ m.read = SubSeq(r, 1, e)
           /\ \A i \in 1 .. e : r[i] # partial
           /\ e = Len(r) \/ r[e + 1] = partial
<1> DEFINE torn == {i \in DOMAIN r : r[i] = partial}
           first == Smallest(torn)
<1>0. DOMAIN r = 1 .. Len(r) /\ Len(r) \in Nat
  OBVIOUS
<1>1. CASE torn = {}
  <2>1. m = [read |-> r, reported |-> FALSE]
    BY <1>1, ZenonT(30) DEF ReadRecord
  <2>2. SubSeq(r, 1, Len(r)) = r
    OBVIOUS
  <2>3. m.read = r
    BY <2>1
  <2>4. Len(r) \in 0 .. Len(r) /\ \A i \in 1 .. Len(r) : r[i] # partial
    BY <1>0, <1>1
  <2> QED
    BY <2>2, <2>3, <2>4, ZenonT(30)
<1>2. CASE torn # {}
  <2>1. PICK b : m = [read |-> SubSeq(r, 1, first - 1), reported |-> b]
    BY <1>2, ZenonT(30) DEF ReadRecord
  <2>2. first \in torn /\ \A i \in torn : first <= i
    <3>1. torn \in SUBSET Nat
      BY <1>0
    <3> HIDE DEF torn
    <3> QED
      BY <1>2, <3>1, SmallestIs
  <2> HIDE DEF first
  <2>3. first - 1 \in 0 .. Len(r) /\ r[first] = partial /\ \A i \in 1 .. first - 1 : r[i] # partial
    BY <1>0, <2>2
  <2>4. r[first - 1 + 1] = partial /\ first \in 1 .. Len(r)
    BY <1>0, <2>2
  <2>5. m.read = SubSeq(r, 1, first - 1)
    BY <2>1, ZenonT(30)
  <2> HIDE DEF torn
  <2> QED
    BY <2>3, <2>4, <2>5, ZenonT(30)
<1> QED
  BY <1>1, <1>2, ZenonT(30)

LEMMA NothingReported ==
  ASSUME NEW r, NEW partial, NEW m \in ReadRecord(r, partial)
  PROVE  m.reported = FALSE \/ \E i \in DOMAIN r : r[i] = partial
<1> SUFFICES ASSUME \A i \in DOMAIN r : r[i] # partial PROVE m.reported = FALSE
  BY ZenonT(30)
<1>1. {i \in DOMAIN r : r[i] = partial} = {}
  BY ZenonT(30)
<1>2. m = [read |-> r, reported |-> FALSE]
  BY <1>1, ZenonT(30) DEF ReadRecord
<1> QED
  BY <1>2

LEMMA ReadManifestGets ==
  ASSUME NEW r \in Seq(EditRecord), NEW m \in ReadManifest(r)
  PROVE  /\ Whole(r, Len(r)) => m.reported = FALSE
         /\ \E e \in 0 .. Len(r) :
              /\ Whole(r, e) /\ Last(r, e)
              /\ LiveTables(m.read) = LiveAt(r, e)
              /\ e = 0 => HasNumbers(m.read) = {}
              /\ e # 0 /\ r[e].next_file > 0 =>
                   HasNumbers(m.read) # {} /\ Numbers(m.read) = r[e]
<1>1. PICK e \in 0 .. Len(r) :
        /\ m.read = SubSeq(r, 1, e)
        /\ \A i \in 1 .. e : r[i] # TornEdit
        /\ e = Len(r) \/ r[e + 1] = TornEdit
  BY ReadPrefix, ZenonT(30) DEF ReadManifest
<1>2. Whole(r, Len(r)) => m.reported = FALSE
  <2> SUFFICES ASSUME Whole(r, Len(r)) PROVE m.reported = FALSE
    BY ZenonT(30)
  <2>1. m \in ReadRecord(r, TornEdit)
    BY DEF ReadManifest
  <2>2. \A i \in DOMAIN r : r[i] # TornEdit
    BY DEF Whole
  <2> HIDE DEF TornEdit
  <2> QED
    BY <2>1, <2>2, NothingReported, ZenonT(30)
<1> DEFINE q == SubSeq(r, 1, e)
<1>3. /\ DOMAIN q = 1 .. e /\ Len(q) = e /\ e \in Nat /\ \A i \in 1 .. e : q[i] = r[i]
      /\ \A i \in 1 .. e : r[i] \in EditRecord
  OBVIOUS
<1> HIDE DEF q
<1>4. LiveTables(q) = LiveAt(r, e)
  <2>1. ASSUME NEW n, n \in LiveTables(q) PROVE n \in LiveAt(r, e)
    <3>1. PICK i \in 1 .. e : n \in q[i].add /\ \A j \in i + 1 .. e : n \notin q[j].del
      BY <1>3, <2>1, ZenonT(30) DEF LiveTables
    <3>2. \A j \in i + 1 .. e : j \in 1 .. e
      BY <1>3
    <3>3. n \in r[i].add /\ \A j \in i + 1 .. e : n \notin r[j].del
      BY <1>3, <3>1, <3>2, ZenonT(30)
    <3> QED
      BY <1>3, <3>3, ZenonT(30) DEF LiveAt, EditRecord
  <2>2. ASSUME NEW n, n \in LiveAt(r, e) PROVE n \in LiveTables(q)
    <3>1. PICK i \in 1 .. e : n \in r[i].add /\ \A j \in i + 1 .. e : n \notin r[j].del
      BY <2>2, ZenonT(30) DEF LiveAt
    <3>2. \A j \in i + 1 .. e : j \in 1 .. e
      BY <1>3
    <3>3. n \in q[i].add /\ \A j \in i + 1 .. e : n \notin q[j].del
      BY <1>3, <3>1, <3>2, ZenonT(30)
    <3> QED
      BY <1>3, <3>3, ZenonT(30) DEF LiveTables
  <2> QED
    BY <2>1, <2>2, ZenonT(30)
<1>5. e = 0 => HasNumbers(q) = {}
  BY <1>3 DEF HasNumbers
<1>6. ASSUME e # 0, r[e].next_file > 0
      PROVE  HasNumbers(q) # {} /\ Numbers(q) = r[e]
  <2>1. e \in HasNumbers(q) /\ HasNumbers(q) \in SUBSET (0 .. e) /\ e \in 1 .. e
    BY <1>3, <1>6 DEF HasNumbers
  <2>2. /\ Largest(HasNumbers(q)) \in HasNumbers(q)
        /\ \A y \in HasNumbers(q) : y <= Largest(HasNumbers(q))
    BY <1>3, <2>1, LargestIs, ZenonT(30)
  <2>3. Largest(HasNumbers(q)) = e
    BY <1>3, <2>1, <2>2
  <2> QED
    BY <1>3, <2>1, <2>3, ZenonT(30) DEF Numbers
<1> QED
  BY <1>1, <1>2, <1>4, <1>5, <1>6, ZenonT(30) DEF q, Whole, Last

(* RecoverLogFile gets what is whole in the log.                             *)
LEMMA ReadLogGets ==
  ASSUME NEW l \in Seq(LogRecord), NEW m \in ReadLog(l)
  PROVE  /\ Records(m.read) = ReadOf(l, Len(l))
         /\ m.reported = FALSE \/ \E i \in DOMAIN l : l[i] = Torn
<1>1. m \in ReadRecord(l, Torn)
  BY DEF ReadLog
<1>2. PICK e \in 0 .. Len(l) :
        /\ m.read = SubSeq(l, 1, e)
        /\ \A i \in 1 .. e : l[i] # Torn
        /\ e = Len(l) \/ l[e + 1] = Torn
  BY <1>1, ReadPrefix, ZenonT(30)
<1>3. m.reported = FALSE \/ \E i \in DOMAIN l : l[i] = Torn
  BY <1>1, NothingReported, ZenonT(30)
<1> DEFINE q == SubSeq(l, 1, e)
<1>4. DOMAIN q = 1 .. e /\ e \in Nat /\ Len(l) \in Nat /\ \A i \in 1 .. e : q[i] = l[i]
  OBVIOUS
<1> HIDE DEF q
<1>5. {j \in 1 .. Len(l) : \A h \in 1 .. j : l[h] # Torn} = 1 .. e
  <2>1. ASSUME NEW j \in 1 .. Len(l), \A h \in 1 .. j : l[h] # Torn PROVE j \in 1 .. e
    <3>1. CASE e = Len(l)
      BY <3>1
    <3>2. CASE l[e + 1] = Torn
      <4>1. ~(e + 1 \in 1 .. j)
        BY <2>1, <3>2
      <4> QED
        BY <1>4, <4>1
    <3> QED
      BY <1>2, <3>1, <3>2
  <2>2. ASSUME NEW j \in 1 .. e PROVE j \in 1 .. Len(l) /\ \A h \in 1 .. j : l[h] # Torn
    <3>1. j \in 1 .. Len(l) /\ \A h \in 1 .. j : h \in 1 .. e
      BY <1>4
    <3> QED
      BY <1>2, <3>1, ZenonT(30)
  <2> QED
    BY <2>1, <2>2, ZenonT(30)
<1>6. Records(q) = {q[i] : i \in 1 .. e}
  BY <1>4, ZenonT(30) DEF Records
<1>7. {q[i] : i \in 1 .. e} = {l[i] : i \in 1 .. e}
  BY <1>4, ZenonT(30)
<1> QED
  BY <1>2, <1>3, <1>5, <1>6, <1>7, ZenonT(30) DEF q, ReadOf

-----------------------------------------------------------------------------
(* The steps of DB::Open that read.                                         *)

LEMMA RecoverVersionsStep == ASSUME Inv, RecoverVersions PROVE Inv'
<1> DEFINE r == Manifest
           s == CurrentSynced
<1>1. /\ CURRENT \in DOMAIN manifests /\ CURRENT # 0 /\ pc = "down"
      /\ Secure(tables, InLogs, InSyncedLogs, r, s, acked \ exposed, durable \ exposed, CURRENT)
  BY ZenonT(30) DEF Inv, DiskInv, RecoverVersions, Manifest
<1>2. r \in Seq(EditRecord) /\ s \in 0 .. Len(r) /\ CURRENT \in Nat
  BY <1>1, ZenonT(30) DEF Inv, DiskTypes, FileTypes, Manifest, CurrentSynced
<1>3. /\ UNCHANGED diskVars /\ UNCHANGED <<acked, durable, exposed, bg, mem_, imm_, logfile_number_>>
      /\ UNCHANGED <<edit, detected, merge, building, record, bg_error_>>
      /\ pc' \in {"failed", "replay"}
  BY ZenonT(30) DEF RecoverVersions, historyVars, memVars, jobVars
<1>4. DiskTypes' /\ DiskInv'
  BY <1>1, <1>3, SameDisk DEF Inv
<1>5. IdleInv' /\ RunningInv' /\ NewFilesInv'
  BY <1>1, <1>3, ZenonT(30) DEF Inv, ProcessInv, RunningInv, IdleInv, NewFilesInv,
     MemoryInv, VersionInv, MergeInv, FlushInv, ApplyInv
<1>6. CASE /\ pc' = "failed"
           /\ UNCHANGED <<versionVars, next_file_number_, last_sequence_, replay>>
  <2>1. ProcessTypes'
    BY <1>3, <1>6, ZenonT(30) DEF Inv, ProcessTypes, versionVars, diskVars
  <2>2. OpenInv'
    BY <1>6, ZenonT(30) DEF OpenInv
  <2> QED
    BY <1>4, <1>5, <2>1, <2>2 DEF Inv, ProcessInv
<1>7. ASSUME NEW m \in ReadManifest(r), HasNumbers(m.read) # {},
             log_number_' = Numbers(m.read).log_number,
             manifest_file_number_' = Numbers(m.read).next_file,
             next_file_number_' = Numbers(m.read).next_file + 1,
             last_sequence_' = Numbers(m.read).last_sequence,
             live' = LiveTables(m.read),
             replay' = {n \in DOMAIN logs : n >= MinLog(m.read)}, pc' = "replay"
      PROVE  Inv'
  <2>1. PICK e \in 0 .. Len(r) :
          /\ Whole(r, e) /\ Last(r, e)
          /\ LiveTables(m.read) = LiveAt(r, e)
          /\ e = 0 => HasNumbers(m.read) = {}
          /\ e # 0 /\ r[e].next_file > 0 => HasNumbers(m.read) # {} /\ Numbers(m.read) = r[e]
    BY <1>2, ReadManifestGets, ZenonT(30)
  <2>2. e # 0 /\ e \in 1 .. Len(r)
    BY <1>2, <1>7, <2>1
  <2>3. e \in Ends(r, s) /\ r[e] \in EditRecord
    <3>1. e \in Ends(r, s)
      BY <2>1, <2>2, ZenonT(30) DEF Ends
    <3>2. r[e] \in EditRecord
      BY <1>2, <2>2
    <3> QED
      BY <3>1, <3>2
  <2>4. /\ Numbered(tables, r, e, CURRENT)
        /\ \A x \in acked \ exposed : Found(tables, InLogs, r, e, x)
        /\ \A x \in durable \ exposed : Found(tables, InSyncedLogs, r, e, x)
        /\ \A f \in Ends(r, s) : f <= e => r[f].next_file <= r[e].next_file
    BY <1>1, <2>1, <2>3, ZenonT(30) DEF Secure
  <2> DEFINE b == r[e]
  <2>5. b.log_number \in Nat /\ b.next_file \in Int /\ b.last_sequence \in Nat
    BY <2>3 DEF EditRecord
  <2>6. CURRENT < b.next_file /\ b.log_number < b.next_file
    BY <2>4, ZenonT(30) DEF Numbered
  <2>7. b.next_file > 0
    BY <1>2, <2>5, <2>6
  <2>8. Numbers(m.read) = b
    BY <2>1, <2>2, <2>7, ZenonT(30)
  <2>9. /\ log_number_' = b.log_number /\ manifest_file_number_' = b.next_file
        /\ next_file_number_' = b.next_file + 1 /\ last_sequence_' = b.last_sequence
        /\ live' = LiveAt(r, e) /\ replay' = {n \in DOMAIN logs : n >= b.log_number} /\ pc' = "replay"
    BY <1>7, <2>1, <2>8, ZenonT(30) DEF MinLog
  <2> HIDE DEF b
  <2>10. ProcessTypes'
    <3>1. log_number_' \in Nat /\ manifest_file_number_' \in Nat /\ next_file_number_' \in Nat /\ last_sequence_' \in Nat
      BY <2>5, <2>7, <2>9
    <3>2. live' \subseteq Nat /\ replay' \subseteq DOMAIN logs'
      BY <1>3, <2>9, ZenonT(30) DEF LiveAt, diskVars
    <3> QED
      BY <1>3, <2>9, <3>1, <3>2, ZenonT(30) DEF Inv, ProcessTypes
  <2>11. OpenInv'
    <3>1. CURRENT' < manifest_file_number_' /\ manifest_file_number_' < next_file_number_'
      <4>1. CURRENT' = CURRENT
        BY <1>3 DEF diskVars
      <4> QED
        BY <2>5, <2>6, <2>9, <4>1
    <3>2. ASSUME NEW f \in CurrentEnds'
          PROVE  (manifests[CURRENT][f].next_file)' <= manifest_file_number_'
      <4>1. f \in Ends(r, s) /\ (manifests[CURRENT])' = r
        BY <1>3, ZenonT(30) DEF CurrentEnds, CurrentSynced, Manifest, diskVars
      <4>2. f <= e
        BY <1>2, <2>1, <2>2, <4>1, LastIsLargest
      <4> QED
        BY <2>4, <2>9, <4>1, <4>2, ZenonT(30) DEF b
    <3>3. ASSUME NEW n \in live' PROVE n \in DOMAIN tables' /\ n < manifest_file_number_' /\ \A x \in tables'[n] : x <= last_sequence_'
      <4>1. tables' = tables
        BY <1>3 DEF diskVars
      <4> QED
        BY <2>4, <2>9, <4>1, ZenonT(30) DEF Numbered, b
    <3>4. edit' = {}
      BY <1>1, <1>3, ZenonT(30) DEF Inv, ProcessInv, IdleInv
    <3>5. ASSUME NEW n \in DOMAIN logs' \ replay' PROVE n < next_file_number_'
      <4>1. logs' = logs
        BY <1>3 DEF diskVars
      <4>2. n \in DOMAIN logs /\ n \in Nat
        BY <4>1, ZenonT(30) DEF Inv, DiskTypes, FileTypes
      <4>3. ~(n >= b.log_number)
        BY <2>9, <4>1, <4>2, ZenonT(30)
      <4> QED
        BY <2>5, <2>6, <2>9, <4>2, <4>3
    <3>6. ASSUME NEW x \in (acked' \cup durable') \ exposed'
          PROVE  In(tables', live' \cup edit', x) \/ \E n \in replay' : x \in InLogs'[n]
      <4>1. tables' = tables /\ logs' = logs /\ InLogs' = InLogs
        BY <1>3 DEF diskVars, InLogs
      <4>2. live' \cup edit' = LiveAt(r, e)
        BY <2>9, <3>4, ZenonT(30)
      <4>3. ASSUME NEW n \in DOMAIN logs, b.log_number <= n PROVE n \in replay'
        <5>1. n \in Nat
          BY ZenonT(30) DEF Inv, DiskTypes, FileTypes
        <5>2. n >= b.log_number
          BY <2>5, <4>3, <5>1
        <5> QED
          BY <2>9, <5>2, ZenonT(30)
      <4>4. DOMAIN InLogs = DOMAIN logs /\ DOMAIN InSyncedLogs = DOMAIN logs
        BY DEF InLogs, InSyncedLogs, LogsRead, SyncedRead
      <4>5. CASE x \in acked \ exposed
        <5>1. Found(tables, InLogs, r, e, x)
          BY <2>4, <4>5, ZenonT(30)
        <5> QED
          BY <4>1, <4>2, <4>3, <4>4, <5>1, ZenonT(30) DEF Found, b
      <4>6. CASE x \in durable \ exposed
        <5>1. Found(tables, InSyncedLogs, r, e, x)
          BY <2>4, <4>6, ZenonT(30)
        <5>2. \A n \in DOMAIN logs : InSyncedLogs[n] \subseteq InLogs[n]
          BY SyncedInLogs, ZenonT(30) DEF Inv, DiskTypes, InLogs, InSyncedLogs
        <5> QED
          BY <4>1, <4>2, <4>3, <4>4, <5>1, <5>2, ZenonT(30) DEF Found, b
      <4> QED
        BY <1>3, <4>5, <4>6, ZenonT(30)
    <3> QED
      BY <3>1, <3>2, <3>3, <3>4, <3>5, <3>6, ZenonT(30) DEF OpenInv
  <2> QED
    BY <1>4, <1>5, <2>10, <2>11 DEF Inv, ProcessInv
<1>8. CurrentRecords = r
  BY <1>1, ZenonT(30) DEF CurrentRecords, Manifest
<1> HIDE DEF r, s
<1> QED
  BY <1>6, <1>7, <1>8, ZenonT(30) DEF RecoverVersions

(* No append to a log has failed.                                            *)
NoTorn == \A n \in DOMAIN logs : \A i \in DOMAIN logs[n] : logs[n][i] # Torn

LEMMA RecoverLogFileStep ==
  ASSUME Inv, RecoverLogFile, paranoid_checks = FALSE \/ NoTorn PROVE Inv'
<1> DEFINE n == Smallest(replay)
           b == next_file_number_
<1>1. /\ pc = "replay" /\ replay # {} /\ CURRENT # 0 /\ CURRENT \in DOMAIN manifests
      /\ Secure(tables, InLogs, InSyncedLogs, Manifest, CurrentSynced, acked \ exposed, durable \ exposed, CURRENT)
  BY ZenonT(30) DEF Inv, DiskInv, RecoverLogFile, Manifest
<1>2. /\ CURRENT < manifest_file_number_ /\ manifest_file_number_ < b
      /\ \A e \in CurrentEnds : Manifest[e].next_file <= manifest_file_number_
      /\ \A k \in live : k \in DOMAIN tables /\ k < manifest_file_number_
      /\ \A k \in edit : k \in DOMAIN tables /\ manifest_file_number_ < k /\ k < b
      /\ \A k \in live \cup edit : \A x \in tables[k] : x <= last_sequence_
      /\ \A k \in DOMAIN logs \ replay : k < b
      /\ \A x \in (acked \cup durable) \ exposed :
           In(tables, live \cup edit, x) \/ \E k \in replay : x \in InLogs[k]
  BY <1>1, ZenonT(30) DEF Inv, ProcessInv, OpenInv, Manifest
<1>3. /\ b \in Nat /\ last_sequence_ \in Nat /\ manifest_file_number_ \in Nat /\ CURRENT \in Nat
      /\ live \subseteq Nat /\ edit \subseteq Nat /\ replay \subseteq DOMAIN logs /\ TableTypes(tables)
      /\ Manifest \in Seq(EditRecord) /\ FileTypes("log", LogRecord, logs, synced)
  BY <1>1, ZenonT(30) DEF Inv, DiskTypes, ProcessTypes, FileTypes, Manifest
<1>4. n \in replay /\ n \in DOMAIN logs /\ n \in Nat /\ logs[n] \in Seq(LogRecord)
  <2>1. replay \in SUBSET Nat
    BY <1>3, ZenonT(30) DEF FileTypes
  <2>2. n \in replay
    BY <1>1, <2>1, SmallestIs
  <2> QED
    BY <1>3, <2>2, ZenonT(30) DEF FileTypes
<1>5. PICK l \in ReadLog(logs[n]) :
        LET failed == paranoid_checks /\ l.reported
            got == Records(l.read)
            table == IF got = {} \/ failed THEN {} ELSE {next_file_number_}
        IN /\ tables' = IF table = {} THEN tables ELSE Put(tables, next_file_number_, got)
           /\ edit' = edit \cup table
           /\ next_file_number_' = MarkFileNumberUsed(IF table = {} THEN next_file_number_ ELSE next_file_number_ + 1, n)
           /\ last_sequence_' = SequenceAfter(got)
           /\ pc' = IF failed /\ replay = {n} THEN "failed" ELSE "replay"
           /\ replay' = replay \ {n}
  BY ZenonT(30) DEF RecoverLogFile
<1> DEFINE got == Records(l.read)
           table == IF got = {} THEN {} ELSE {b}
<1>6. got = InLogs[n] /\ got \subseteq LogRecord /\ ~(paranoid_checks /\ l.reported)
  <2>1. got = ReadOf(logs[n], Len(logs[n])) /\ (l.reported = FALSE \/ \E i \in DOMAIN logs[n] : logs[n][i] = Torn)
    BY <1>4, ReadLogGets, ZenonT(30)
  <2>2. InLogs[n] = ReadOf(logs[n], Len(logs[n])) /\ InLogs[n] \subseteq LogRecord
    BY <1>3, <1>4, SyncedInLogs, ZenonT(30) DEF InLogs
  <2>3. ~(paranoid_checks /\ l.reported)
    BY <1>4, <2>1, ZenonT(30) DEF NoTorn
  <2> QED
    BY <2>1, <2>2, <2>3, ZenonT(30)
<1>7. /\ tables' = IF table = {} THEN tables ELSE Put(tables, b, got)
      /\ edit' = edit \cup table
      /\ next_file_number_' = MarkFileNumberUsed(IF table = {} THEN b ELSE b + 1, n)
      /\ last_sequence_' = SequenceAfter(got)
      /\ pc' = "replay" /\ replay' = replay \ {n}
  BY <1>5, <1>6, ZenonT(30)
<1> HIDE DEF n, got
<1>8. /\ last_sequence_' \in Nat /\ last_sequence_ <= last_sequence_' /\ \A x \in got : x <= last_sequence_'
      /\ got \subseteq Nat
  <2> DEFINE T == {last_sequence_} \cup got
  <2>1. T \in SUBSET (0 .. last_sequence_ + MaxSequence) /\ T # {} /\ last_sequence_ + MaxSequence \in Nat
        /\ got \subseteq Nat
    BY <1>3, <1>6, RecoveryAssumption DEF LogRecord
  <2> HIDE DEF T
  <2>2. Largest(T) \in T /\ \A y \in T : y <= Largest(T)
    BY <2>1, LargestIs, ZenonT(30)
  <2>3. Largest(T) = last_sequence_'
    BY <1>7 DEF SequenceAfter, T
  <2>4. \A y \in T : y \in Nat
    BY <1>3, <2>1, ZenonT(30) DEF T
  <2> QED
    BY <2>1, <2>2, <2>3, <2>4, ZenonT(30) DEF T
<1>9. /\ next_file_number_' \in Nat /\ b <= next_file_number_' /\ n < next_file_number_'
      /\ got # {} => b < next_file_number_'
  <2> DEFINE c == IF table = {} THEN b ELSE b + 1
  <2>2. c \in Nat /\ n + 1 \in Nat /\ b <= c /\ (got # {} => b < c)
    BY <1>3, <1>4
  <2> HIDE DEF c
  <2>3. Largest({c, n + 1}) \in Nat /\ c <= Largest({c, n + 1}) /\ n + 1 <= Largest({c, n + 1})
    BY <2>2, LargestOfTwo, ZenonT(30)
  <2>4. next_file_number_' = Largest({c, n + 1})
    BY <1>7 DEF MarkFileNumberUsed, c
  <2> HIDE DEF table, b
  <2> QED
    BY <1>3, <1>4, <2>2, <2>3, <2>4 DEF b
<1>10. /\ \A k \in live \cup edit : k \in DOMAIN tables' /\ tables'[k] = tables[k]
       /\ got # {} => b \in DOMAIN tables' /\ tables'[b] = got /\ edit' = edit \cup {b}
       /\ got = {} => edit' = edit /\ tables' = tables
       /\ got # {} => tables' = Put(tables, b, got)
  <2>1. \A k \in live \cup edit : k \in DOMAIN tables /\ k # b
    BY <1>2, <1>3
  <2>2. /\ \A k \in DOMAIN tables : k # b => k \in DOMAIN Put(tables, b, got) /\ Put(tables, b, got)[k] = tables[k]
        /\ b \in DOMAIN Put(tables, b, got) /\ Put(tables, b, got)[b] = got
    BY DEF Put
  <2>3. /\ got = {} => edit' = edit /\ tables' = tables
        /\ got # {} => tables' = Put(tables, b, got) /\ edit' = edit \cup {b}
    BY <1>7, ZenonT(30)
  <2> HIDE DEF b, table
  <2> QED
    BY <2>1, <2>2, <2>3, ZenonT(30)
<1>11. /\ UNCHANGED <<CURRENT, manifests, logs, synced, bg, mem_, imm_, logfile_number_, log_number_>>
       /\ UNCHANGED <<manifest_file_number_, live, merge, building, record, bg_error_, acked, durable, exposed>>
  BY ZenonT(30) DEF RecoverLogFile, memVars, versionVars, jobVars, historyVars
<1> HIDE DEF table, b
<1>12. DiskTypes'
  <2>1. TableTypes(tables')
    BY <1>3, <1>8, <1>10, PutTable, ZenonT(30)
  <2> QED
    BY <1>11, <2>1, ZenonT(30) DEF Inv, DiskTypes
<1>13. DiskInv'
  <2>1. KeepsTables(tables, tables', Manifest, CurrentSynced)
    <3>1. CASE got = {}
      BY <1>10, <3>1, ZenonT(30) DEF KeepsTables
    <3>2. CASE got # {}
      <4>1. \A e \in Ends(Manifest, CurrentSynced) : Manifest[e].next_file <= b
        <5>1. ASSUME NEW e \in Ends(Manifest, CurrentSynced) PROVE Manifest[e].next_file <= b
          <6>1. Manifest[e].next_file <= manifest_file_number_
            BY <1>2, ZenonT(30) DEF CurrentEnds, Manifest
          <6>2. Manifest[e].next_file \in Int
            BY <1>3, EndIs, ZenonT(30)
          <6> QED
            BY <1>2, <1>3, <6>1, <6>2
        <5> QED
          BY <5>1
      <4> QED
        BY <1>1, <1>3, <1>10, <3>2, <4>1, FreshTable, ZenonT(30)
    <3> QED
      BY <3>1, <3>2
  <2>2. Grown(InLogs, InLogs') /\ Grown(InSyncedLogs, InSyncedLogs')
    BY <1>11, ZenonT(30) DEF Grown, InLogs, InSyncedLogs
  <2>3. /\ AddsFound(acked \ exposed, acked' \ exposed', tables', InLogs', Manifest, CurrentSynced)
        /\ AddsFound(durable \ exposed, durable' \ exposed', tables', InSyncedLogs', Manifest, CurrentSynced)
    BY <1>11, ZenonT(30) DEF AddsFound
  <2>4. /\ CURRENT' = CURRENT /\ CURRENT \in DOMAIN manifests' /\ manifests'[CURRENT] = Manifest
        /\ synced'[<<"manifest", CURRENT>>] = CurrentSynced /\ acked' = acked /\ durable' = durable
        /\ DiskInv /\ pc' # "newdb"
    BY <1>1, <1>7, <1>11, ZenonT(30) DEF Inv, Manifest, CurrentSynced
  <2> QED
    BY <1>1, <2>1, <2>2, <2>3, <2>4, DiskStep, ZenonT(30)
<1>14. ProcessTypes'
  <2>1. edit' \subseteq Nat /\ replay' \subseteq DOMAIN logs'
    BY <1>3, <1>7, <1>10, <1>11, ZenonT(30)
  <2> QED
    BY <1>7, <1>8, <1>9, <1>11, <2>1, ZenonT(30) DEF Inv, ProcessTypes
<1>15. IdleInv' /\ NewFilesInv' /\ RunningInv'
  BY <1>1, <1>7, <1>11, ZenonT(30) DEF Inv, ProcessInv, RunningInv, IdleInv, NewFilesInv,
     MemoryInv, VersionInv, MergeInv, FlushInv, ApplyInv
<1>16. OpenInv'
  <2>1. CURRENT' < manifest_file_number_' /\ manifest_file_number_' < next_file_number_'
    BY <1>2, <1>3, <1>9, <1>11
  <2>2. \A e \in CurrentEnds' : (manifests[CURRENT][e].next_file)' <= manifest_file_number_'
    BY <1>2, <1>11, ZenonT(30) DEF CurrentEnds, CurrentSynced, Manifest
  <2>3. \A k \in live' : k \in DOMAIN tables' /\ k < manifest_file_number_'
    BY <1>2, <1>10, <1>11, ZenonT(30)
  <2>4. ASSUME NEW k \in edit' PROVE k \in DOMAIN tables' /\ manifest_file_number_' < k /\ k < next_file_number_'
    <3>1. CASE k \in edit
      <4>1. k \in Nat /\ manifest_file_number_ < k /\ k < b /\ k \in DOMAIN tables'
        BY <1>2, <1>3, <1>10, <3>1, ZenonT(30)
      <4> QED
        BY <1>3, <1>9, <1>11, <4>1
    <3>2. CASE k = b /\ got # {}
      BY <1>2, <1>3, <1>9, <1>10, <1>11, <3>2, ZenonT(30)
    <3> QED
      BY <1>10, <3>1, <3>2, ZenonT(30)
  <2>5. ASSUME NEW k \in live' \cup edit', NEW x \in tables'[k] PROVE x <= last_sequence_'
    <3>1. CASE k \in live \cup edit
      <4>1. x \in tables[k] /\ k \in DOMAIN tables
        BY <1>2, <1>10, <3>1, ZenonT(30)
      <4>2. x <= last_sequence_ /\ x \in Nat
        BY <1>2, <1>3, <3>1, <4>1, ZenonT(30) DEF TableTypes
      <4> QED
        BY <1>3, <1>8, <4>2
    <3>2. CASE k = b /\ got # {}
      BY <1>8, <1>10, <3>2, ZenonT(30)
    <3> QED
      BY <1>10, <1>11, <3>1, <3>2, ZenonT(30)
  <2>6. ASSUME NEW k \in DOMAIN logs' \ replay' PROVE k < next_file_number_'
    <3>1. CASE k = n
      BY <1>9, <3>1
    <3>2. CASE k # n
      <4>1. k \in DOMAIN logs \ replay /\ k \in Nat
        BY <1>3, <1>7, <1>11, <3>2, ZenonT(30) DEF FileTypes
      <4>2. k < b
        BY <1>2, <4>1, ZenonT(30)
      <4> QED
        BY <1>3, <1>9, <4>1, <4>2
    <3> QED
      BY <3>1, <3>2
  <2>7. ASSUME NEW x \in (acked' \cup durable') \ exposed'
        PROVE  In(tables', live' \cup edit', x) \/ \E k \in replay' : x \in InLogs'[k]
    <3>1. InLogs' = InLogs
      BY <1>11 DEF InLogs
    <3>2. CASE In(tables, live \cup edit, x)
      BY <1>10, <1>11, <3>2, ZenonT(30) DEF In
    <3>3. CASE \E k \in replay : x \in InLogs[k]
      <4>1. CASE x \in InLogs[n]
        <5>1. x \in got /\ got # {}
          BY <1>6, <4>1, ZenonT(30)
        <5>2. b \in edit' /\ b \in DOMAIN tables' /\ x \in tables'[b]
          BY <1>10, <5>1, ZenonT(30)
        <5> QED
          BY <5>2, ZenonT(30) DEF In
      <4>2. CASE x \notin InLogs[n]
        BY <1>7, <3>1, <3>3, <4>2, ZenonT(30)
      <4> QED
        BY <4>1, <4>2
    <3> QED
      BY <1>2, <1>11, <3>2, <3>3, ZenonT(30)
  <2> QED
    BY <2>1, <2>2, <2>3, <2>4, <2>5, <2>6, <2>7, ZenonT(30) DEF OpenInv
<1> QED
  BY <1>12, <1>13, <1>14, <1>15, <1>16 DEF Inv, ProcessInv

-----------------------------------------------------------------------------
LEMMA InitInv == Init => Inv
<1> SUFFICES ASSUME Init PROVE Inv
  OBVIOUS
<1>1. DOMAIN manifests = {} /\ DOMAIN logs = {} /\ DOMAIN tables = {}
  BY DEF Init
<1>2. DiskTypes
  BY <1>1 DEF Init, DiskTypes, FileTypes, TableTypes
<1>3. ProcessTypes
  <2>1. NoMerge \in [number : Nat, inputs : SUBSET Nat] /\ NoEdit \in EditRecord
    BY DEF NoMerge, NoEdit, Edit, EditRecord
  <2>2. 0 \in Nat /\ 2 \in Nat /\ FALSE \in BOOLEAN
    OBVIOUS
  <2> QED
    BY <2>1, <2>2, ZenonT(30) DEF Init, ProcessTypes
<1>4. DiskInv /\ ProcessInv /\ RunningInv
  BY ZenonT(30) DEF Init, DiskInv, ProcessInv, RunningInv, IdleInv, OpenInv, NewFilesInv,
     MemoryInv, VersionInv, MergeInv, FlushInv, ApplyInv
<1> QED
  BY <1>2, <1>3, <1>4 DEF Inv

LEMMA PosixStep ==
  ASSUME Inv, PosixNext, paranoid_checks = FALSE \/ NoTorn
  PROVE  Inv'
<1>1. CASE NewDB
  BY <1>1, NewDBStep
<1>2. CASE NewDBCurrent
  BY <1>2, NewDBCurrentStep
<1>3. CASE RecoverVersions
  BY <1>3, RecoverVersionsStep
<1>4. CASE RecoverLogFile
  BY <1>4, RecoverLogFileStep, ZenonT(30)
<1>5. CASE NewLog
  BY <1>5, NewLogStep
<1>6. CASE NewManifest
  BY <1>6, NewManifestStep
<1>7. CASE InstallManifest
  BY <1>7, InstallManifestStep
<1>8. CASE Reopen
  BY <1>8, DownStep, ZenonT(30) DEF Reopen, Inv, historyVars
<1>9. CASE \E sync \in BOOLEAN : Write(sync)
  BY <1>9, WriteStep
<1>10. CASE SwitchMemTable
  BY <1>10, SwitchMemTableStep
<1>11. CASE CompactMemTable
  BY <1>11, CompactMemTableStep
<1>12. CASE CompactMemTableBuilt
  BY <1>12, CompactMemTableBuiltStep
<1>13. CASE DoCompactionWork
  BY <1>13, DoCompactionWorkStep
<1>14. CASE InstallCompactionResults
  BY <1>14, InstallCompactionResultsStep
<1>15. CASE TrivialMove
  BY <1>15, TrivialMoveStep
<1>16. CASE LogAndApply
  BY <1>16, LogAndApplyStep
<1>17. CASE DeleteObsoleteFiles
  BY <1>17, DeleteObsoleteFilesStep
<1>18. CASE ProcessCrash
  BY <1>18, DownStep, ZenonT(30) DEF ProcessCrash, Inv
<1>19. CASE MachineCrash
  BY <1>19, MachineCrashStep
<1> QED
  BY <1>1, <1>2, <1>3, <1>4, <1>5, <1>6, <1>7, <1>8, <1>9, <1>10, <1>11, <1>12, <1>13, <1>14,
     <1>15, <1>16, <1>17, <1>18, <1>19, ZenonT(30) DEF PosixNext

LEMMA Stutters == ASSUME Inv, UNCHANGED vars PROVE Inv'
<1>1. UNCHANGED <<diskVars, pc, bg, memVars, versionVars, next_file_number_, last_sequence_, openVars>>
      /\ UNCHANGED <<jobVars, bg_error_, acked, durable, exposed>>
  BY DEF vars, historyVars
<1>2. UNCHANGED <<InLogs, InSyncedLogs, CurrentSynced, CurrentEnds, Stuck>>
  BY <1>1, ZenonT(30) DEF InLogs, InSyncedLogs, CurrentSynced, CurrentEnds, Stuck, diskVars, jobVars
<1>3. DiskTypes' /\ ProcessTypes' /\ DiskInv'
  BY <1>1, <1>2, ZenonT(30) DEF Inv, DiskTypes, ProcessTypes, DiskInv, diskVars, memVars, versionVars, openVars, jobVars
<1>4. ProcessInv'
  BY <1>1, <1>2, ZenonT(30) DEF Inv, ProcessInv, IdleInv, OpenInv, NewFilesInv, diskVars, memVars, versionVars, openVars, jobVars
<1>5. MemoryInv' /\ VersionInv'
  BY <1>1, <1>2, ZenonT(30) DEF Inv, RunningInv, MemoryInv, VersionInv, diskVars, memVars, versionVars, openVars, jobVars
<1>6. MergeInv' /\ FlushInv' /\ ApplyInv'
  BY <1>1, <1>2, ZenonT(30) DEF Inv, RunningInv, MergeInv, FlushInv, ApplyInv, diskVars, memVars, versionVars, openVars, jobVars
<1> QED
  BY <1>3, <1>4, <1>5, <1>6 DEF Inv, RunningInv

LEMMA NextStep ==
  ASSUME Env = "posix", paranoid_checks = FALSE, Inv, [Next]_vars
  PROVE  Inv'
<1>1. CASE PosixNext
  BY <1>1, PosixStep, ZenonT(30)
<1>2. CASE AppendFails
  BY <1>2, AppendFailsStep
<1>3. ~DeleteTarget
  BY DEF DeleteTarget, RenameReplaces
<1> QED
  BY <1>1, <1>2, <1>3, Stutters DEF Next

-----------------------------------------------------------------------------
(* What the invariant says of the database that is open.                     *)
LEMMA HeldNumbered == Inv => FreshNumbers
<1> SUFFICES ASSUME Inv, pc = "open", NEW x \in Held PROVE x <= last_sequence_
  BY DEF FreshNumbers
<1>1. /\ \A n \in live : n \in DOMAIN tables /\ \A y \in tables[n] : y <= last_sequence_
      /\ \A y \in mem_ \cup imm_ : y <= last_sequence_
  BY ZenonT(30) DEF Inv, RunningInv, MemoryInv
<1>2. In(tables, live, x) \/ x \in mem_ \cup imm_
  BY ContentsIn, ZenonT(30) DEF Held
<1> QED
  BY <1>1, <1>2, ZenonT(30) DEF In

LEMMA AckedHeld == Inv => LostOnlyBehindTorn
<1> SUFFICES ASSUME Inv, pc = "open", NEW x \in acked \ exposed PROVE x \in Held
  BY ZenonT(30) DEF LostOnlyBehindTorn
<1>1. In(tables, live, x) \/ x \in mem_ \cup imm_
  BY ZenonT(30) DEF Inv, RunningInv, MemoryInv
<1> QED
  BY <1>1, ContentsIn, ZenonT(30) DEF Held

(* An append to a log that fails costs no acknowledged write except the ones *)
(* that came behind it in that log, until they are in a table; whatever the  *)
(* order of crashes, flushes, compactions and failures (EmitPhysicalRecord,  *)
(* Reader, Recover).                                                         *)
THEOREM LostOnlyBehindTornAlways ==
  ASSUME Env = "posix", paranoid_checks = FALSE
  PROVE  Spec => []LostOnlyBehindTorn
<1>1. Inv /\ [Next]_vars => Inv'
  BY NextStep, ZenonT(30)
<1> QED
  BY InitInv, <1>1, AckedHeld, PTL DEF Spec


-----------------------------------------------------------------------------
(* Without failing appends no log has a partial record, so that all that was *)
(* acknowledged is safe; and without failing writes of a MANIFEST nor has    *)
(* the MANIFEST that CURRENT names, so that Open reads all of it.            *)
NoneTorn(l) == \A i \in DOMAIN l : l[i] # Torn
Calm == NoTorn /\ exposed = {}
LEMMA TornIsNone == NoTorn <=> \A n \in DOMAIN logs : NoneTorn(logs[n])
BY ZenonT(30) DEF NoTorn, NoneTorn

LEMMA NoneTornAppend ==
  ASSUME NEW l \in Seq(LogRecord), NoneTorn(l), NEW x \in LogRecord, x # Torn
  PROVE  NoneTorn(Append(l, x)) /\ NoneTorn(<<>>)
<1>1. DOMAIN Append(l, x) = 1 .. Len(l) + 1 /\ DOMAIN l = 1 .. Len(l) /\ Len(l) \in Nat
  OBVIOUS
<1>2. \A i \in 1 .. Len(l) : Append(l, x)[i] = l[i]
  OBVIOUS
<1>3. Append(l, x)[Len(l) + 1] = x
  OBVIOUS
<1>4. \A i \in 1 .. Len(l) + 1 : i \in 1 .. Len(l) \/ i = Len(l) + 1
  BY <1>1
<1>5. NoneTorn(<<>>)
  BY DEF NoneTorn
<1> HIDE DEF NoneTorn
<1> QED
  BY <1>1, <1>2, <1>3, <1>4, <1>5, ZenonT(30) DEF NoneTorn

LEMMA NoneTornCut ==
  ASSUME NEW l \in Seq(LogRecord), NoneTorn(l), NEW k \in 0 .. Len(l)
  PROVE  NoneTorn(SubSeq(l, 1, k))
<1>1. /\ DOMAIN SubSeq(l, 1, k) = 1 .. k /\ DOMAIN l = 1 .. Len(l)
      /\ \A i \in 1 .. k : SubSeq(l, 1, k)[i] = l[i] /\ i \in 1 .. Len(l)
  OBVIOUS
<1> QED
  BY <1>1, ZenonT(30) DEF NoneTorn

LEMMA NoTornPut ==
  ASSUME NoTorn, NEW n, NEW l, NoneTorn(l), logs' = Put(logs, n, l)
  PROVE  NoTorn'
<1>1. DOMAIN logs' = DOMAIN logs \cup {n} /\ \A y \in DOMAIN logs' : logs'[y] = IF y = n THEN l ELSE logs[y]
  BY DEF Put
<1>2. ASSUME NEW y \in DOMAIN logs' PROVE NoneTorn(logs'[y])
  <2>1. CASE y = n
    BY <1>1, <2>1
  <2>2. CASE y # n
    BY <1>1, <2>2, TornIsNone
  <2> QED
    BY <2>1, <2>2
<1> QED
  BY <1>2, ZenonT(30) DEF NoTorn, NoneTorn

LEMMA CalmStep ==
  ASSUME Inv, Calm, PosixNext
  PROVE  Calm'
<1>0. FileTypes("log", LogRecord, logs, synced) /\ last_sequence_ \in Nat /\ NoneTorn(<<>>)
  BY DEF Inv, DiskTypes, ProcessTypes, NoneTorn
<1>1. CASE UNCHANGED <<logs, exposed>>
  BY <1>1, ZenonT(30) DEF Calm, NoTorn
<1>2. CASE NewLog \/ SwitchMemTable
  <2>1. logs' = Put(logs, next_file_number_, <<>>) /\ exposed' = exposed
    BY <1>2 DEF NewLog, SwitchMemTable, historyVars
  <2> QED
    BY <1>0, <2>1, NoTornPut DEF Calm
<1>3. ASSUME NEW sync \in BOOLEAN, Write(sync) PROVE Calm'
  <2> DEFINE x == last_sequence_ + 1
             l == logs[logfile_number_]
  <2>1. /\ logs' = Put(logs, logfile_number_, Append(l, x)) /\ pc = "open" /\ x <= MaxSequence
        /\ exposed' = IF Torn \in Records(l) THEN exposed \cup {x} ELSE exposed
    BY <1>3, ZenonT(30) DEF Write, Running
  <2>2. l \in Seq(LogRecord) /\ logfile_number_ \in DOMAIN logs
    BY <2>1, OpenFacts, ZenonT(30)
  <2>3. NoneTorn(l)
    BY <2>2, TornIsNone, ZenonT(30) DEF Calm
  <2>4. x # Torn /\ x \in Nat
    BY <1>0 DEF Torn
  <2>5. x \in LogRecord
    BY <2>1, <2>4, RecoveryAssumption DEF LogRecord
  <2>6. NoTorn'
    <3> HIDE DEF x, l
    <3>1. NoneTorn(Append(l, x))
      BY <2>2, <2>3, <2>4, <2>5, NoneTornAppend, ZenonT(30)
    <3> QED
      BY <2>1, <3>1, NoTornPut, ZenonT(30) DEF Calm
  <2>7. Torn \notin Records(l)
    BY <2>3, ZenonT(30) DEF Records, NoneTorn
  <2> QED
    BY <2>1, <2>6, <2>7, ZenonT(30) DEF Calm
<1>4. CASE UNCHANGED logs /\ exposed' \subseteq exposed
  BY <1>4, ZenonT(30) DEF Calm, NoTorn
<1>5. CASE DeleteObsoleteFiles
  <2>1. exposed' = exposed /\ (logs' = logs \/ \E n : logs' = Without(logs, n))
    BY <1>5, ZenonT(30) DEF DeleteObsoleteFiles, historyVars
  <2>2. ASSUME NEW n, logs' = Without(logs, n) PROVE NoTorn'
    <3>1. \A y \in DOMAIN logs' : y \in DOMAIN logs /\ logs'[y] = logs[y]
      BY <2>2 DEF Without
    <3> QED
      BY <3>1, ZenonT(30) DEF Calm, NoTorn
  <2>3. logs' = logs => NoTorn'
    BY ZenonT(30) DEF Calm, NoTorn
  <2> QED
    BY <2>1, <2>2, <2>3, ZenonT(30) DEF Calm
<1>6. CASE MachineCrash
  <2>1. logs' \in Remains("log", logs) /\ exposed' = exposed
    BY <1>6, ZenonT(30) DEF MachineCrash
  <2>2. /\ DOMAIN logs' = DOMAIN logs
        /\ \A n \in DOMAIN logs : \E k \in synced[<<"log", n>>] .. Len(logs[n]) : logs'[n] = SubSeq(logs[n], 1, k)
    BY <1>0, <2>1, RemainsIs
  <2>3. ASSUME NEW n \in DOMAIN logs PROVE NoneTorn(logs'[n])
    <3>1. logs[n] \in Seq(LogRecord) /\ NoneTorn(logs[n]) /\ synced[<<"log", n>>] \in 0 .. Len(logs[n])
      BY <1>0, TornIsNone, ZenonT(30) DEF FileTypes, Calm
    <3>2. PICK k \in synced[<<"log", n>>] .. Len(logs[n]) : logs'[n] = SubSeq(logs[n], 1, k)
      BY <2>2, ZenonT(30)
    <3>3. k \in 0 .. Len(logs[n])
      BY <3>1
    <3> QED
      BY <3>1, <3>2, <3>3, NoneTornCut, ZenonT(30)
  <2>4. NoTorn'
    BY <2>2, <2>3, ZenonT(30) DEF NoTorn, NoneTorn
  <2> QED
    BY <2>1, <2>4, ZenonT(30) DEF Calm
<1>7. CASE InstallManifest \/ LogAndApply
  <2>1. logs' = logs /\ exposed' \subseteq exposed
    BY <1>7, ZenonT(30) DEF InstallManifest, LogAndApply
  <2> QED
    BY <1>4, <2>1
<1>8. CASE NewDB \/ NewDBCurrent \/ RecoverVersions \/ RecoverLogFile \/ NewManifest \/ Reopen \/ ProcessCrash
  <2>1. UNCHANGED <<logs, exposed>>
    BY <1>8, ZenonT(30) DEF NewDB, NewDBCurrent, RecoverVersions, RecoverLogFile, NewManifest, Reopen, ProcessCrash,
       diskVars, historyVars
  <2> QED
    BY <1>1, <2>1
<1>9. CASE CompactMemTable \/ CompactMemTableBuilt \/ DoCompactionWork \/ InstallCompactionResults \/ TrivialMove
  <2>1. UNCHANGED <<logs, exposed>>
    BY <1>9, ZenonT(30) DEF CompactMemTable, CompactMemTableBuilt, DoCompactionWork, InstallCompactionResults,
       TrivialMove, diskVars, historyVars
  <2> QED
    BY <1>1, <2>1
<1> QED
  BY <1>2, <1>3, <1>5, <1>6, <1>7, <1>8, <1>9, ZenonT(30) DEF PosixNext


(* What Open reads from an established MANIFEST.                             *)
LEMMA ManifestRead ==
  ASSUME Inv, CURRENT # 0, Established(Manifest, CurrentSynced), NEW m \in ReadManifest(Manifest)
  PROVE  /\ CURRENT \in DOMAIN manifests
         /\ Whole(Manifest, Len(Manifest)) => m.reported = FALSE
         /\ HasNumbers(m.read) # {} /\ Numbers(m.read).log_number \in Nat
         /\ LiveTables(m.read) \subseteq DOMAIN tables
         /\ \A x \in acked \ exposed :
              \/ In(tables, LiveTables(m.read), x)
              \/ \E n \in DOMAIN logs : Numbers(m.read).log_number <= n /\ x \in InLogs[n]
<1> DEFINE r == Manifest
           s == CurrentSynced
<1>1. /\ CURRENT \in DOMAIN manifests
      /\ Secure(tables, InLogs, InSyncedLogs, r, s, acked \ exposed, durable \ exposed, CURRENT)
  BY ZenonT(30) DEF Inv, DiskInv, Manifest
<1>2. r \in Seq(EditRecord) /\ s \in 0 .. Len(r) /\ CURRENT \in Nat
  BY <1>1, ZenonT(30) DEF Inv, DiskTypes, FileTypes, Manifest, CurrentSynced
<1>3. /\ Whole(r, Len(r)) => m.reported = FALSE
      /\ \E e \in 0 .. Len(r) :
           /\ Whole(r, e) /\ Last(r, e)
           /\ LiveTables(m.read) = LiveAt(r, e)
           /\ e = 0 => HasNumbers(m.read) = {}
           /\ e # 0 /\ r[e].next_file > 0 => HasNumbers(m.read) # {} /\ Numbers(m.read) = r[e]
  BY <1>2, ReadManifestGets, ZenonT(30)
<1>4. PICK e \in 0 .. Len(r) :
        /\ Whole(r, e) /\ Last(r, e)
        /\ LiveTables(m.read) = LiveAt(r, e)
        /\ e # 0 /\ r[e].next_file > 0 => HasNumbers(m.read) # {} /\ Numbers(m.read) = r[e]
  BY <1>3, ZenonT(30)
<1>5. 2 <= s /\ Whole(r, 2)
  BY DEF Established
<1> HIDE DEF r, s
<1>6. e \in 1 .. Len(r)
  <2>1. CASE e = 0
    <3>1. r[0 + 1] = TornEdit \/ 0 = Len(r)
      BY <1>4, <2>1 DEF Last
    <3>2. 0 + 1 \in 1 .. 2 /\ 0 # Len(r)
      BY <1>2, <1>5
    <3> QED
      BY <1>5, <3>1, <3>2, ZenonT(30) DEF Whole
  <2> QED
    BY <1>2, <2>1
<1>7. e \in Ends(r, s)
  BY <1>4, <1>6, ZenonT(30) DEF Ends
<1>8. Numbered(tables, r, e, CURRENT) /\ \A x \in acked \ exposed : Found(tables, InLogs, r, e, x)
  BY <1>1, <1>4, <1>7, ZenonT(30) DEF Secure
<1>9. r[e].next_file > 0 /\ e # 0
  <2>1. r[e].next_file \in Int
    BY <1>2, <1>7, EndIs
  <2>2. CURRENT < r[e].next_file
    BY <1>8, ZenonT(30) DEF Numbered
  <2> QED
    BY <1>2, <1>6, <2>1, <2>2
<1>10. HasNumbers(m.read) # {} /\ Numbers(m.read) = r[e] /\ r[e].log_number \in Nat
  <2>1. r[e].log_number \in Nat
    BY <1>2, <1>7, EndIs, ZenonT(30)
  <2> QED
    BY <1>4, <1>9, <2>1, ZenonT(30)
<1>11. LiveTables(m.read) \subseteq DOMAIN tables
  BY <1>4, <1>8, ZenonT(30) DEF Numbered
<1>12. DOMAIN InLogs = DOMAIN logs
  BY DEF InLogs, LogsRead
<1> QED
  BY <1>1, <1>3, <1>4, <1>8, <1>10, <1>11, <1>12, ZenonT(30) DEF Found, r

LEMMA ReadsSomething == ASSUME NEW r, NEW partial PROVE ReadRecord(r, partial) # {}
<1>1. \E b \in (IF Smallest({i \in DOMAIN r : r[i] = partial}) = Len(r) THEN {FALSE} ELSE BOOLEAN) : TRUE
  BY ZenonT(30)
<1> QED
  BY <1>1, ZenonT(30) DEF ReadRecord

LEMMA AckedReachable == ASSUME Inv, NEW x \in acked \ exposed PROVE x \in Reachable
<1> DEFINE q == CHOOSE m \in {y.read : y \in ReadManifest(CurrentRecords)} : TRUE
<1>1. CURRENT # 0 /\ CURRENT \in DOMAIN manifests /\ Established(Manifest, CurrentSynced)
  BY ZenonT(30) DEF Inv, DiskInv, Manifest
<1>2. CurrentRecords = Manifest
  BY <1>1 DEF CurrentRecords, Manifest
<1>3. PICK m \in ReadManifest(Manifest) : m.read = q
  <2>1. ReadManifest(CurrentRecords) # {}
    BY ReadsSomething DEF ReadManifest
  <2>2. q \in {y.read : y \in ReadManifest(CurrentRecords)}
    BY <2>1, ZenonT(30)
  <2> QED
    BY <1>2, <2>2, ZenonT(30)
<1>4. /\ HasNumbers(m.read) # {} /\ Numbers(m.read).log_number \in Nat
      /\ \/ In(tables, LiveTables(m.read), x)
         \/ \E n \in DOMAIN logs : Numbers(m.read).log_number <= n /\ x \in InLogs[n]
  BY <1>1, ManifestRead, ZenonT(30)
<1> DEFINE logged == {n \in DOMAIN logs : n >= Numbers(q).log_number}
           there == Contents(LiveTables(q)) \cup UNION {Records(logs[n]) : n \in logged}
<1> HIDE DEF q
<1>5. Reachable = IF HasNumbers(q) = {} THEN {} ELSE there
  BY ZenonT(30) DEF Reachable, q
<1>6. CASE In(tables, LiveTables(m.read), x)
  <2>1. x \in Contents(LiveTables(q))
    BY <1>3, <1>6, ContentsIn, ZenonT(30)
  <2> QED
    BY <1>3, <1>4, <1>5, <2>1, ZenonT(30)
<1>7. ASSUME NEW n \in DOMAIN logs, Numbers(m.read).log_number <= n, x \in InLogs[n] PROVE x \in Reachable
  <2>1. n \in Nat /\ logs[n] \in Seq(LogRecord)
    BY ZenonT(30) DEF Inv, DiskTypes, FileTypes
  <2>2. n \in logged
    BY <1>3, <1>4, <1>7, <2>1
  <2>3. x \in Records(logs[n])
    <3>1. InLogs[n] = ReadOf(logs[n], Len(logs[n])) /\ DOMAIN logs[n] = 1 .. Len(logs[n])
      BY <2>1 DEF InLogs, LogsRead
    <3> QED
      BY <1>7, <3>1, ZenonT(30) DEF ReadOf, Records
  <2> HIDE DEF logged
  <2> QED
    BY <1>3, <1>4, <1>5, <2>2, <2>3, ZenonT(30)
<1> QED
  BY <1>4, <1>6, <1>7, ZenonT(30)


(* Without failures Open reads the whole MANIFEST.                           *)
Readable == CURRENT # 0 => CURRENT \in DOMAIN manifests /\ Whole(Manifest, Len(Manifest))

LEMMA WholeCut ==
  ASSUME NEW r \in Seq(EditRecord), Whole(r, Len(r)), NEW s \in 0 .. Len(r), NEW k \in s .. Len(r)
  PROVE  Whole(SubSeq(r, 1, k), Len(SubSeq(r, 1, k)))
<1>1. \A i \in 1 .. k : SubSeq(r, 1, k)[i] = r[i] /\ i \in 1 .. Len(r)
  OBVIOUS
<1>2. Len(SubSeq(r, 1, k)) = k
  OBVIOUS
<1> QED
  BY <1>1, <1>2, ZenonT(30) DEF Whole

LEMMA ReadableStep ==
  ASSUME Inv, Readable, PosixNext, "manifest" \notin Faults
  PROVE  Readable'
<1>0. FileTypes("manifest", EditRecord, manifests, synced)
  BY DEF Inv, DiskTypes
<1>1. ASSUME CURRENT' = CURRENT, CURRENT # 0 => CURRENT \in DOMAIN manifests' /\ manifests'[CURRENT] = Manifest PROVE Readable'
  BY <1>1, ZenonT(30) DEF Readable, Manifest
<1>2. CASE NewDB
  BY <1>2, ZenonT(30) DEF NewDB, Readable
<1>3. CASE NewDBCurrent
  <2>1. CURRENT' = 1 /\ manifests' = manifests /\ 1 \in DOMAIN manifests /\ manifests[1] = <<Edit(0, 2, 0, {}, {})>>
    BY <1>3, ZenonT(30) DEF NewDBCurrent, Inv, DiskInv
  <2>2. Whole(<<Edit(0, 2, 0, {}, {})>>, Len(<<Edit(0, 2, 0, {}, {})>>))
    BY DEF Whole, TornEdit, Edit
  <2> QED
    BY <2>1, <2>2, ZenonT(30) DEF Readable, Manifest
<1>4. CASE NewManifest
  <2>1. /\ manifests' = Put(manifests, manifest_file_number_, <<Edit(0, 0, 0, live, {}),
                    Edit(logfile_number_, next_file_number_, last_sequence_, edit, {})>>)
        /\ CURRENT' = CURRENT /\ pc = "manifest"
    BY <1>4, ZenonT(30) DEF NewManifest
  <2>2. CURRENT # manifest_file_number_
    <3>1. CURRENT < manifest_file_number_ /\ CURRENT \in Nat /\ manifest_file_number_ \in Nat
      BY <2>1, ZenonT(30) DEF Inv, ProcessInv, OpenInv, DiskTypes, ProcessTypes
    <3> QED
      BY <3>1
  <2>3. CURRENT # 0 => CURRENT \in DOMAIN manifests' /\ manifests'[CURRENT] = Manifest
    BY <2>1, <2>2 DEF Put, Readable, Manifest
  <2> QED
    BY <1>1, <2>1, <2>3
<1>5. CASE InstallManifest
  <2> DEFINE q == <<Edit(0, 0, 0, live, {}), Edit(logfile_number_, next_file_number_, last_sequence_, edit, {})>>
  <2>1. /\ CURRENT' = manifest_file_number_ /\ manifests' = manifests /\ pc = "current"
        /\ manifest_file_number_ \in DOMAIN manifests /\ manifests[manifest_file_number_] = q
    BY <1>5, ZenonT(30) DEF InstallManifest, Inv, ProcessInv, NewFilesInv
  <2>2. Whole(q, Len(q))
    <3>1. next_file_number_ \in Nat
      BY DEF Inv, ProcessTypes
    <3>2. Edit(0, 0, 0, live, {}) # TornEdit /\ Edit(logfile_number_, next_file_number_, last_sequence_, edit, {}) # TornEdit
      BY <3>1 DEF Edit, TornEdit
    <3>3. Len(q) = 2 /\ \A i \in 1 .. 2 : q[i] \in {Edit(0, 0, 0, live, {}), Edit(logfile_number_, next_file_number_, last_sequence_, edit, {})}
      OBVIOUS
    <3> HIDE DEF q
    <3> QED
      BY <3>2, <3>3, ZenonT(30) DEF Whole
  <2> HIDE DEF q
  <2> QED
    BY <2>1, <2>2, ZenonT(30) DEF Readable, Manifest
<1>6. CASE LogAndApply
  <2>1. /\ pc = "open" /\ bg = "write" /\ CURRENT' = CURRENT /\ CURRENT = manifest_file_number_
        /\ manifests[manifest_file_number_] = Manifest
    BY <1>6, ApplyCommon, ZenonT(30)
  <2>2. manifests' = Put(manifests, manifest_file_number_, Append(manifests[manifest_file_number_], record))
    BY <1>6, ZenonT(30) DEF LogAndApply
  <2>3. manifests' = Put(manifests, CURRENT, Append(Manifest, record))
    BY <2>1, <2>2
  <2>4. CURRENT' \in DOMAIN manifests' /\ manifests'[CURRENT'] = Append(Manifest, record)
    BY <2>1, <2>3 DEF Put
  <2>5. Manifest \in Seq(EditRecord) /\ record \in EditRecord /\ record # TornEdit /\ Whole(Manifest, Len(Manifest))
    BY <2>1, OpenFacts, RecordIs, ZenonT(30) DEF Readable
  <2>6. Whole(Append(Manifest, record), Len(Append(Manifest, record)))
    <3> DEFINE r == Manifest
               q == Append(r, record)
    <3>1. Len(q) = Len(r) + 1 /\ q[Len(r) + 1] = record /\ \A i \in 1 .. Len(r) : q[i] = r[i]
      BY <2>5
    <3>2. \A i \in 1 .. Len(r) + 1 : i \in 1 .. Len(r) \/ i = Len(r) + 1
      BY <2>5
    <3> HIDE DEF q, r
    <3>3. Whole(q, Len(q))
      BY <2>5, <3>1, <3>2, ZenonT(30) DEF Whole, r
    <3> QED
      BY <3>3, ZenonT(30) DEF q, r
  <2> QED
    BY <2>4, <2>6, ZenonT(30) DEF Readable, Manifest
<1>7. CASE DeleteObsoleteFiles
  <2>1. CURRENT' = CURRENT /\ pc = "open"
    BY <1>7, ZenonT(30) DEF DeleteObsoleteFiles, Inv, ProcessInv, IdleInv
  <2>2. CASE manifests' = manifests
    BY <1>1, <2>1, <2>2, ZenonT(30) DEF Readable, Manifest
  <2>3. ASSUME NEW f \in Obsolete, f[1] = "manifest", manifests' = Without(manifests, f[2]) PROVE Readable'
    <3>1. ~(f[2] >= manifest_file_number_) /\ CURRENT = manifest_file_number_ /\ CURRENT \in Nat
      BY <2>1, <2>3, OpenFacts, ZenonT(30) DEF Obsolete, Keep, KeepManifest, Inv, DiskTypes
    <3>2. f[2] # CURRENT
      BY <3>1
    <3>3. CURRENT # 0 => CURRENT \in DOMAIN manifests' /\ manifests'[CURRENT] = Manifest
      BY <2>3, <3>2 DEF Without, Readable, Manifest
    <3> QED
      BY <1>1, <2>1, <3>3
  <2> QED
    BY <1>7, <2>2, <2>3, ZenonT(30) DEF DeleteObsoleteFiles
<1>8. CASE MachineCrash
  <2>1. manifests' \in Remains("manifest", manifests) /\ CURRENT' = CURRENT
    BY <1>8, ZenonT(30) DEF MachineCrash
  <2>2. /\ DOMAIN manifests' = DOMAIN manifests
        /\ \A n \in DOMAIN manifests :
             \E k \in synced[<<"manifest", n>>] .. Len(manifests[n]) : manifests'[n] = SubSeq(manifests[n], 1, k)
    BY <1>0, <2>1, RemainsIs
  <2>3. ASSUME CURRENT # 0 PROVE CURRENT \in DOMAIN manifests' /\ Whole(manifests'[CURRENT], Len(manifests'[CURRENT]))
    <3>1. CURRENT \in DOMAIN manifests /\ Whole(Manifest, Len(Manifest))
      BY <2>3, ZenonT(30) DEF Readable
    <3>2. Manifest \in Seq(EditRecord) /\ CurrentSynced \in 0 .. Len(Manifest)
      BY <1>0, <3>1, ZenonT(30) DEF FileTypes, Manifest, CurrentSynced
    <3>3. PICK k \in CurrentSynced .. Len(Manifest) : manifests'[CURRENT] = SubSeq(Manifest, 1, k)
      BY <2>2, <3>1, ZenonT(30) DEF Manifest, CurrentSynced
    <3>4. Whole(SubSeq(Manifest, 1, k), Len(SubSeq(Manifest, 1, k)))
      BY <3>1, <3>2, WholeCut, ZenonT(30)
    <3> QED
      BY <2>2, <3>1, <3>3, <3>4, ZenonT(30)
  <2> QED
    BY <2>1, <2>3, ZenonT(30) DEF Readable, Manifest
<1>9. ASSUME CURRENT' = CURRENT, manifests' = manifests PROVE Readable'
  BY <1>9, ZenonT(30) DEF Readable, Manifest
<1>10. CASE RecoverVersions \/ RecoverLogFile \/ NewLog \/ Reopen \/ ProcessCrash \/ SwitchMemTable \/ \E sync \in BOOLEAN : Write(sync)
  <2>1. CURRENT' = CURRENT /\ manifests' = manifests
    BY <1>10, ZenonT(30) DEF RecoverVersions, RecoverLogFile, NewLog, Reopen, ProcessCrash, SwitchMemTable, Write, diskVars
  <2> QED
    BY <1>9, <2>1
<1>11. CASE CompactMemTable \/ CompactMemTableBuilt \/ DoCompactionWork \/ InstallCompactionResults \/ TrivialMove
  <2>1. CURRENT' = CURRENT /\ manifests' = manifests
    BY <1>11, ZenonT(30) DEF CompactMemTable, CompactMemTableBuilt, DoCompactionWork, InstallCompactionResults, TrivialMove, diskVars
  <2> QED
    BY <1>9, <2>1
<1> QED
  BY <1>2, <1>3, <1>4, <1>5, <1>6, <1>7, <1>8, <1>10, <1>11, ZenonT(30) DEF PosixNext


LEMMA OpenableStep ==
  ASSUME Inv, Calm, Readable, Openable, PosixNext, "manifest" \notin Faults
  PROVE  Openable'
<1>1. ASSUME pc' # "failed" PROVE Openable'
  BY <1>1, ZenonT(30) DEF Openable
<1>2. CASE RecoverVersions
  <2> SUFFICES ASSUME acked # {}, pc' = "failed" PROVE FALSE
    BY <1>2, ZenonT(30) DEF Openable, RecoverVersions, historyVars
  <2>1. CURRENT # 0 /\ Established(Manifest, CurrentSynced) /\ Whole(Manifest, Len(Manifest)) /\ CURRENT \in DOMAIN manifests
    BY ZenonT(30) DEF Inv, DiskInv, Manifest, Readable
  <2>2. CurrentRecords = Manifest
    BY <2>1 DEF CurrentRecords, Manifest
  <2>3. PICK m \in ReadManifest(Manifest) :
          m.reported \/ HasNumbers(m.read) = {}
            \/ LiveTables(m.read) \ (DOMAIN tables \cup DOMAIN logs \cup DOMAIN manifests) # {}
    BY <1>2, <2>2, ZenonT(30) DEF RecoverVersions
  <2>4. m.reported = FALSE /\ HasNumbers(m.read) # {} /\ LiveTables(m.read) \subseteq DOMAIN tables
    BY <2>1, ManifestRead, ZenonT(30)
  <2> QED
    BY <2>3, <2>4, ZenonT(30)
<1>3. CASE RecoverLogFile
  <2>1. pc = "replay" /\ replay # {} /\ replay \subseteq DOMAIN logs /\ replay \subseteq Nat
    BY <1>3, ZenonT(30) DEF RecoverLogFile, Inv, ProcessTypes, DiskTypes, FileTypes
  <2>2. Smallest(replay) \in replay
    BY <2>1, SmallestIs, ZenonT(30)
  <2>3. ASSUME NEW l \in ReadLog(logs[Smallest(replay)]) PROVE ~l.reported
    <3>1. l.reported = FALSE \/ \E i \in DOMAIN logs[Smallest(replay)] : logs[Smallest(replay)][i] = Torn
      BY NothingReported, ZenonT(30) DEF ReadLog
    <3> QED
      BY <2>1, <2>2, <3>1, ZenonT(30) DEF Calm, NoTorn
  <2>4. pc' # "failed"
    BY <1>3, <2>3, ZenonT(30) DEF RecoverLogFile
  <2> QED
    BY <1>1, <2>4
<1>4. CASE NewDB \/ NewDBCurrent \/ NewLog \/ NewManifest \/ InstallManifest \/ Reopen \/ ProcessCrash \/ MachineCrash
  <2>1. pc' # "failed"
    BY <1>4, ZenonT(30) DEF NewDB, NewDBCurrent, NewLog, NewManifest, InstallManifest, Reopen, ProcessCrash, MachineCrash, Down
  <2> QED
    BY <1>1, <2>1
<1>5. CASE pc = "open" /\ pc' = pc
  <2>1. pc' # "failed"
    BY <1>5
  <2> QED
    BY <1>1, <2>1
<1>6. CASE SwitchMemTable \/ CompactMemTable \/ DoCompactionWork \/ InstallCompactionResults \/ TrivialMove \/ \E sync \in BOOLEAN : Write(sync)
  <2>1. pc = "open" /\ pc' = pc
    BY <1>6, ZenonT(30) DEF SwitchMemTable, CompactMemTable, DoCompactionWork, InstallCompactionResults, TrivialMove, Write, Running
  <2> QED
    BY <1>5, <2>1
<1>7. CASE CompactMemTableBuilt \/ LogAndApply \/ DeleteObsoleteFiles
  <2>1. bg # "idle" /\ pc' = pc
    BY <1>7, ZenonT(30) DEF CompactMemTableBuilt, LogAndApply, DeleteObsoleteFiles
  <2>2. pc = "open"
    BY <2>1, ZenonT(30) DEF Inv, ProcessInv, IdleInv
  <2> QED
    BY <1>5, <2>1, <2>2
<1> QED
  BY <1>2, <1>3, <1>4, <1>6, <1>7, ZenonT(30) DEF PosixNext

-----------------------------------------------------------------------------
LEMMA CalmAlways == PosixSpec => [](Inv /\ Calm)
<1>1. Init => Calm
  BY DEF Init, Calm, NoTorn
<1>2. Inv /\ Calm /\ [PosixNext]_vars => Inv' /\ Calm'
  <2>1. ASSUME Inv, Calm, PosixNext PROVE Inv' /\ Calm'
    BY <2>1, PosixStep, CalmStep, ZenonT(30) DEF Calm
  <2>2. ASSUME Inv, Calm, UNCHANGED vars PROVE Inv' /\ Calm'
    BY <2>2, Stutters, ZenonT(30) DEF Calm, NoTorn, vars, diskVars, historyVars
  <2> QED
    BY <2>1, <2>2, ZenonT(30)
<1> QED
  BY InitInv, <1>1, <1>2, PTL DEF PosixSpec

(* Every acknowledged write is in the database whenever it is open again: no *)
(* order of writes, flushes, compactions, deletions of files, crashes of the *)
(* process or the machine and failing writes of a MANIFEST loses one (Write, *)
(* Recover, LogAndApply, DeleteObsoleteFiles).                               *)
THEOREM AckedSurvive == PosixSpec => []Survives
<1>1. Inv /\ Calm => Survives
  BY AckedHeld, ZenonT(30) DEF LostOnlyBehindTorn, Survives, Calm
<1> QED
  BY CalmAlways, <1>1, PTL

(* A database that has been opened again gives out sequence numbers above    *)
(* all that it has recovered (RecoverLogFile, VersionSet::Recover); even     *)
(* where appends to the logs fail.                                           *)
THEOREM NumbersFresh ==
  /\ PosixSpec => []FreshNumbers
  /\ Env = "posix" /\ paranoid_checks = FALSE => (Spec => []FreshNumbers)
<1>1. PosixSpec => []FreshNumbers
  BY CalmAlways, HeldNumbered, PTL
<1>2. ASSUME Env = "posix", paranoid_checks = FALSE PROVE Spec => []FreshNumbers
  <2>1. Inv /\ [Next]_vars => Inv'
    BY <1>2, NextStep, ZenonT(30)
  <2> QED
    BY InitInv, <2>1, HeldNumbered, PTL DEF Spec
<1> QED
  BY <1>1, <1>2, ZenonT(30)

(* At every moment, between any two steps, CURRENT leads to every            *)
(* acknowledged write, and neither a table of the version nor the output of  *)
(* a compaction is gone; though writes of the MANIFEST fail (LogAndApply,    *)
(* DeleteObsoleteFiles, SetCurrentFile).                                     *)
THEOREM AckedStayOnDisk == PosixSpec => [](AckedOnDisk /\ LiveFilesKept)
<1>1. Inv /\ Calm => AckedOnDisk
  BY AckedReachable, ZenonT(30) DEF AckedOnDisk, Calm
<1>2. Inv => LiveFilesKept
  <2> SUFFICES ASSUME Inv, pc = "open", NEW n \in (live \cup {merge.number}) \ {0} PROVE n \in DOMAIN tables
    BY ZenonT(30) DEF LiveFilesKept
  <2>1. NoMerge.number = 0
    BY DEF NoMerge
  <2> QED
    BY <2>1, ZenonT(30) DEF Inv, RunningInv, MemoryInv, MergeInv
<1> QED
  BY CalmAlways, <1>1, <1>2, PTL

(* And if they do not fail no Open reports an error on what any crash has    *)
(* left behind (Recover, NewDB, LogAndApply).                                *)
THEOREM AlwaysRecoverable ==
  ASSUME "manifest" \notin Faults
  PROVE  PosixSpec => []Recoverable
<1>1. Init => Readable /\ Openable
  BY DEF Init, Readable, Openable
<1>2. Inv /\ Calm /\ Readable /\ Openable /\ [PosixNext]_vars => Readable' /\ Openable'
  <2>1. ASSUME Inv, Calm, Readable, Openable, PosixNext PROVE Readable' /\ Openable'
    BY <2>1, ReadableStep, OpenableStep
  <2>2. ASSUME Readable, Openable, UNCHANGED vars PROVE Readable' /\ Openable'
    BY <2>2, ZenonT(30) DEF Readable, Openable, Manifest, vars, diskVars, historyVars
  <2> QED
    BY <2>1, <2>2, ZenonT(30)
<1>3. AckedOnDisk /\ LiveFilesKept /\ Openable => Recoverable
  BY DEF Recoverable
<1> QED
  BY CalmAlways, AckedStayOnDisk, <1>1, <1>2, <1>3, PTL DEF PosixSpec
=============================================================================
