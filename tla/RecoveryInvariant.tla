------------------------- MODULE RecoveryInvariant --------------------------
(* The inductive invariant behind the theorems about Recovery, which says    *)
(* where on disk everything is that must survive, and the proof that every   *)
(* step keeps it that reads no file; RecoveryProofs has the two others and   *)
(* the theorems.                                                             *)
EXTENDS Recovery, TLAPS

(* Seconds for the provers. *)
USE SMTT(30), ZenonT(30)

EditRecord ==
  [log_number : Nat, next_file : Int, last_sequence : Nat, add : SUBSET Nat, del : SUBSET Nat]

(* The records r of a MANIFEST have no partial one up to e.  A reader gets   *)
(* to record e if the next one is partial or there is none; if the machine   *)
(* crashes first, also if the file is synced up to e or not so far.          *)
Whole(r, e) == \A i \in 1 .. e : r[i] # TornEdit
Last(r, e) == e = Len(r) \/ r[e + 1] = TornEdit
Ends(r, s) == {e \in 1 .. Len(r) : Whole(r, e) /\ (s <= e \/ Last(r, e))}

(* The tables of the version that record e leads to, and what is in tables.  *)
LiveAt(r, e) == {n \in Nat : \E i \in 1 .. e : n \in r[i].add /\ \A j \in i + 1 .. e : n \notin r[j].del}
In(T, N, x) == \E n \in N : n \in DOMAIN T /\ x \in T[n]

(* What a reader gets from the first k records of log l, and from the logs   *)
(* if the process crashes now, or the machine.                               *)
ReadOf(l, k) == {l[i] : i \in {j \in 1 .. k : \A h \in 1 .. j : l[h] # Torn}}
LogsRead(L) == [n \in DOMAIN L |-> ReadOf(L[n], Len(L[n]))]
SyncedRead(L, S) == [n \in DOMAIN L |-> ReadOf(L[n], S[<<"log", n>>])]
InLogs == LogsRead(logs)
InSyncedLogs == SyncedRead(logs, synced)

(* Who gets to record e of MANIFEST m finds its tables, numbers above those  *)
(* in use, and x in a table or in a log that it replays.                     *)
Numbered(T, r, e, m) ==
  /\ m < r[e].next_file /\ r[e].log_number < r[e].next_file
  /\ \A n \in LiveAt(r, e) :
       n \in DOMAIN T /\ n < r[e].next_file /\ \A x \in T[n] : x <= r[e].last_sequence
Found(T, G, r, e, x) ==
  In(T, LiveAt(r, e), x) \/ \E n \in DOMAIN G : r[e].log_number <= n /\ x \in G[n]

(* MANIFEST m, with records r of which s are synced, leads to A if the       *)
(* process crashes now and to D if the machine does.                         *)
Secure(T, G, K, r, s, A, D, m) ==
  \A e \in Ends(r, s) :
    /\ Numbered(T, r, e, m)
    /\ \A f \in Ends(r, s) : e <= f => r[e].next_file <= r[f].next_file
    /\ Last(r, e) => \A x \in A : Found(T, G, r, e, x)
    /\ \A x \in D : Found(T, K, r, e, x)

(* LogAndApply's MANIFEST, and NewDB's.                                      *)
Established(r, s) == 2 <= s /\ Whole(r, 2)
Fresh(r, m) == m = 1 /\ (r = <<>> \/ r = <<Edit(0, 2, 0, {}, {})>>)

(* A kind of file: sequences of records from R, of which so many are synced. *)
FileTypes(kind, R, F, S) ==
  \A n \in DOMAIN F :
    n \in Nat /\ F[n] \in Seq(R) /\ <<kind, n>> \in DOMAIN S /\ S[<<kind, n>>] \in 0 .. Len(F[n])
TableTypes(T) == \A n \in DOMAIN T : n \in Nat /\ T[n] \subseteq Nat
LogRecord == 0 .. MaxSequence
DiskTypes ==
  /\ CURRENT \in Nat
  /\ FileTypes("manifest", EditRecord, manifests, synced)
  /\ FileTypes("log", LogRecord, logs, synced) /\ TableTypes(tables)
ProcessTypes ==
  /\ next_file_number_ \in Nat /\ last_sequence_ \in Nat
  /\ logfile_number_ \in Nat /\ log_number_ \in Nat /\ manifest_file_number_ \in Nat
  /\ pc \in {"down", "newdb", "replay", "manifest", "current", "open", "failed"}
  /\ bg \in {"idle", "build", "write", "gc"}
  /\ mem_ \subseteq Nat /\ imm_ \subseteq Nat /\ live \subseteq Nat /\ edit \subseteq Nat
  /\ merge \in [number : Nat, inputs : SUBSET Nat] /\ building \in Nat /\ record \in EditRecord
  /\ replay \subseteq DOMAIN logs /\ bg_error_ \in BOOLEAN

CurrentSynced == synced[<<"manifest", CURRENT>>]
CurrentEnds == Ends(manifests[CURRENT], CurrentSynced)

DiskInv ==
  /\ CURRENT = 0 => acked = {} /\ durable = {} /\ pc \in {"down", "newdb"}
  /\ pc = "newdb" =>
       CURRENT = 0 /\ 1 \in DOMAIN manifests /\ manifests[1] = <<Edit(0, 2, 0, {}, {})>>
  /\ CURRENT # 0 =>
       /\ CURRENT \in DOMAIN manifests
       /\ \/ Established(manifests[CURRENT], CurrentSynced)
          \/ acked = {} /\ durable = {} /\ Fresh(manifests[CURRENT], CURRENT)
       /\ Secure(tables, InLogs, InSyncedLogs, manifests[CURRENT], CurrentSynced,
                 acked \ exposed, durable \ exposed, CURRENT)

(* Nothing is going on in a process that has not opened the database.        *)
IdleInv ==
  pc # "open" =>
    /\ bg = "idle" /\ mem_ = {} /\ imm_ = {} /\ bg_error_ = FALSE
    /\ merge = NoMerge /\ building = 0 /\ record = NoEdit
    /\ pc \in {"down", "newdb"} => edit = {}

(* DB::Open on its way: what has not been read yet is in the logs to replay, *)
(* and everything new gets a number above the ones in use.                   *)
OpenInv ==
  pc \in {"replay", "manifest", "current"} =>
    /\ CURRENT < manifest_file_number_ /\ manifest_file_number_ < next_file_number_
    /\ \A e \in CurrentEnds : manifests[CURRENT][e].next_file <= manifest_file_number_
    /\ \A n \in live : n \in DOMAIN tables /\ n < manifest_file_number_
    /\ \A n \in edit : n \in DOMAIN tables /\ manifest_file_number_ < n /\ n < next_file_number_
    /\ \A n \in live \cup edit : \A x \in tables[n] : x <= last_sequence_
    /\ \A n \in DOMAIN logs \ replay : n < next_file_number_
    /\ \A x \in (acked \cup durable) \ exposed :
         In(tables, live \cup edit, x) \/ \E n \in replay : x \in InLogs[n]
NewFilesInv ==
  /\ pc \in {"manifest", "current"} =>
       /\ replay = {} /\ logfile_number_ \in DOMAIN logs /\ logs[logfile_number_] = <<>>
       /\ manifest_file_number_ < logfile_number_ /\ logfile_number_ < next_file_number_
       /\ \A n \in DOMAIN logs : n <= logfile_number_
  /\ pc = "current" =>
       /\ manifest_file_number_ \in DOMAIN manifests
       /\ manifests[manifest_file_number_] =
            <<Edit(0, 0, 0, live, {}),
              Edit(logfile_number_, next_file_number_, last_sequence_, edit, {})>>
       /\ synced[<<"manifest", manifest_file_number_>>] = 2

(* The open database: what it holds, and where that is on disk.              *)
MemoryInv ==
  pc = "open" =>
    /\ replay = {} /\ \A n \in DOMAIN logs : n <= logfile_number_
    /\ logfile_number_ \in DOMAIN logs /\ logfile_number_ < next_file_number_
    /\ log_number_ <= logfile_number_
    /\ \A n \in live : n \in DOMAIN tables /\ n < next_file_number_ /\ \A x \in tables[n] : x <= last_sequence_
    /\ \A x \in mem_ \cup imm_ : x <= last_sequence_
    /\ \A x \in (acked \cup durable) \ exposed : In(tables, live, x) \/ x \in mem_ \cup imm_
    /\ \A x \in mem_ \ exposed : In(tables, live, x) \/ x \in InLogs[logfile_number_]
    /\ \A x \in durable \ exposed : In(tables, live, x) \/ x \in imm_ \cup InSyncedLogs[logfile_number_]

(* Its MANIFEST has the version in memory.  After a background error it may  *)
(* be ahead of that or end in a partial record, and then nothing is deleted; *)
(* once the compaction at work is over too, nothing more is written.         *)
Stuck == bg_error_ /\ merge = NoMerge /\ bg = "idle"
VersionInv ==
  pc = "open" =>
    LET r == manifests[CURRENT] IN
    /\ CURRENT = manifest_file_number_ /\ CURRENT # 0 /\ Established(r, CurrentSynced)
    /\ \A e \in CurrentEnds : r[e].next_file <= next_file_number_
    /\ ~bg_error_ =>
         /\ Whole(r, Len(r)) /\ CurrentSynced = Len(r)
         /\ LiveAt(r, Len(r)) = live /\ r[Len(r)].log_number = log_number_
    /\ Whole(r, Len(r)) =>
         /\ log_number_ <= r[Len(r)].log_number /\ r[Len(r)].last_sequence <= last_sequence_
         /\ live \subseteq LiveAt(r, Len(r)) \/ Stuck

(* The background thread at work: a compaction, a flush, and LogAndApply.    *)
MergeInv ==
  pc = "open" =>
    /\ bg = "gc" \/ (bg # "idle" /\ merge = NoMerge) => ~bg_error_
    /\ merge # NoMerge =>
         /\ merge.number # 0 /\ merge.number \in DOMAIN tables /\ merge.number < next_file_number_
         /\ merge.inputs # {} /\ \A n \in merge.inputs : n < next_file_number_
         /\ \A x : In(tables, merge.inputs, x) => x \in tables[merge.number]
         /\ \A x \in tables[merge.number] : x <= last_sequence_
FlushInv ==
  pc = "open" /\ bg = "build" =>
    /\ imm_ # {} /\ building < next_file_number_ /\ building # 0
    /\ \A e \in CurrentEnds : manifests[CURRENT][e].next_file <= building
    /\ \A n \in live \cup {merge.number} \cup merge.inputs : n < building
ApplyInv ==
  pc = "open" /\ bg = "write" =>
    LET r == manifests[CURRENT] IN
    /\ record.next_file <= next_file_number_
    /\ record.log_number < record.next_file /\ record.last_sequence <= last_sequence_
    /\ \A e \in CurrentEnds : r[e].next_file <= record.next_file
    /\ Whole(r, Len(r)) => r[Len(r)].last_sequence <= record.last_sequence
    /\ \A n \in record.add :
         n < record.next_file /\ n \in DOMAIN tables /\ \A x \in tables[n] : x <= record.last_sequence
    /\ record.del = {} =>
         /\ imm_ # {} /\ record.add = {building} /\ tables[building] = imm_
         /\ record.log_number = logfile_number_
    /\ record.del # {} =>
         /\ record.log_number = log_number_
         /\ \/ merge # NoMerge /\ record.add = {merge.number} /\ record.del = merge.inputs
            \/ merge = NoMerge /\ record.add = record.del /\ record.add \subseteq live

ProcessInv == IdleInv /\ OpenInv /\ NewFilesInv
RunningInv == MemoryInv /\ VersionInv /\ MergeInv /\ FlushInv /\ ApplyInv
Inv == DiskTypes /\ ProcessTypes /\ DiskInv /\ ProcessInv /\ RunningInv

(* Two sequences are the same up to k.                                       *)
SameTo(r, q, k) == \A i \in 1 .. k : q[i] = r[i]

LEMMA ReadOfIn ==
  ASSUME NEW l, NEW k, NEW x
  PROVE  x \in ReadOf(l, k) <=> \E j \in 1 .. k : l[j] = x /\ \A h \in 1 .. j : l[h] # Torn
BY ZenonT(30) DEF ReadOf

(* A log that has grown, and is synced as far as before or farther.          *)
LEMMA ReadOfLonger ==
  ASSUME NEW l, NEW q, NEW j \in Nat, NEW k \in Nat, j <= k, SameTo(l, q, j)
  PROVE  ReadOf(l, j) \subseteq ReadOf(q, k)
<1> SUFFICES ASSUME NEW x \in ReadOf(l, j) PROVE x \in ReadOf(q, k)
  BY ZenonT(30)
<1>1. PICK i \in 1 .. j : l[i] = x /\ \A h \in 1 .. i : l[h] # Torn
  BY ZenonT(30) DEF ReadOf
<1>2. i \in 1 .. k /\ \A h \in 1 .. i : h \in 1 .. j
  OBVIOUS
<1>3. q[i] = x /\ \A h \in 1 .. i : q[h] # Torn
  BY <1>1, <1>2, ZenonT(30) DEF SameTo
<1> QED
  BY <1>2, <1>3, ReadOfIn, ZenonT(30)

-----------------------------------------------------------------------------
(* MANIFEST files that grow and that are cut.                                *)

LEMMA LiveSame ==
  ASSUME NEW r, NEW q, NEW e \in Nat, SameTo(r, q, e)
  PROVE  LiveAt(q, e) = LiveAt(r, e) /\ (Whole(q, e) <=> Whole(r, e))
<1>1. \A i \in 1 .. e : \A j \in i + 1 .. e : j \in 1 .. e
  OBVIOUS
<1>2. ASSUME NEW n \in Nat
      PROVE  n \in LiveAt(q, e) <=> n \in LiveAt(r, e)
  BY <1>1, ZenonT(30) DEF LiveAt, SameTo
<1> QED
  BY <1>2, ZenonT(30) DEF LiveAt, Whole, SameTo

LEMMA LiveAppend ==
  ASSUME NEW r \in Seq(EditRecord), NEW x \in EditRecord
  PROVE  LiveAt(Append(r, x), Len(r) + 1) = (LiveAt(r, Len(r)) \ x.del) \cup x.add
<1> DEFINE q == Append(r, x)
           e == Len(r)
<1>1. e \in Nat /\ q[e + 1] = x /\ \A i \in 1 .. e : q[i] = r[i]
  OBVIOUS
<1>2. x.add \subseteq Nat /\ x.del \subseteq Nat
  BY DEF EditRecord
<1> HIDE DEF q, e
<1>3. ASSUME NEW n \in x.add PROVE n \in LiveAt(q, e + 1)
  <2>1. e + 1 \in 1 .. e + 1 /\ e + 1 + 1 .. e + 1 = {}
    BY <1>1
  <2> QED
    BY <1>1, <1>2, <2>1, ZenonT(30) DEF LiveAt
<1>4. ASSUME NEW n \in LiveAt(r, e), n \notin x.del PROVE n \in LiveAt(q, e + 1)
  <2>1. PICK i \in 1 .. e : n \in r[i].add /\ \A j \in i + 1 .. e : n \notin r[j].del
    BY ZenonT(30) DEF LiveAt
  <2>2. i \in 1 .. e + 1 /\ \A j \in i + 1 .. e + 1 : (j \in i + 1 .. e /\ j \in 1 .. e) \/ j = e + 1
    BY <1>1
  <2>3. n \in q[i].add /\ \A j \in i + 1 .. e + 1 : n \notin q[j].del
    BY <1>1, <1>4, <2>1, <2>2, ZenonT(30)
  <2> QED
    BY <2>2, <2>3, ZenonT(30) DEF LiveAt
<1>5. ASSUME NEW n \in LiveAt(q, e + 1), n \notin x.add PROVE n \in LiveAt(r, e) /\ n \notin x.del
  <2>1. PICK i \in 1 .. e + 1 : n \in q[i].add /\ \A j \in i + 1 .. e + 1 : n \notin q[j].del
    BY ZenonT(30) DEF LiveAt
  <2>2. i \in 1 .. e
    BY <1>1, <1>5, <2>1
  <2>3. e + 1 \in i + 1 .. e + 1 /\ \A j \in i + 1 .. e : j \in i + 1 .. e + 1 /\ j \in 1 .. e
    BY <1>1, <2>2
  <2>4. n \notin x.del /\ n \in r[i].add /\ \A j \in i + 1 .. e : n \notin r[j].del
    BY <1>1, <2>1, <2>2, <2>3, ZenonT(30)
  <2> QED
    BY <2>2, <2>4, ZenonT(30) DEF LiveAt
<1>6. LiveAt(q, e + 1) = (LiveAt(r, e) \ x.del) \cup x.add
  BY <1>3, <1>4, <1>5, ZenonT(30)
<1> QED
  BY <1>6 DEF q, e

(* Where a reader may get to in q it might have got to in r, and finds the   *)
(* same there.                                                               *)
SameEnds(r, s, q, t) ==
  \A e \in Ends(q, t) :
    e \in Ends(r, s) /\ q[e] = r[e] /\ LiveAt(q, e) = LiveAt(r, e)

LEMMA AppendEnds ==
  ASSUME NEW r \in Seq(EditRecord), NEW s \in 0 .. Len(r), NEW x \in EditRecord,
         NEW t \in {s, Len(r) + 1}, NEW e \in Ends(Append(r, x), t)
  PROVE  LET q == Append(r, x) IN
         \/ e = Len(r) + 1 /\ Whole(r, Len(r)) /\ x # TornEdit
         \/ /\ e \in Ends(r, s) /\ (Last(q, e) => Last(r, e))
            /\ q[e] = r[e] /\ LiveAt(q, e) = LiveAt(r, e)
<1> DEFINE q == Append(r, x)
           k == Len(r)
<1>1. k \in Nat /\ Len(q) = k + 1 /\ q[k + 1] = x /\ \A i \in 1 .. k : q[i] = r[i]
  OBVIOUS
<1>2. e \in 1 .. Len(q) /\ Whole(q, e) /\ (t <= e \/ Last(q, e))
  BY ZenonT(30) DEF Ends
<1> HIDE DEF q, k
<1>3. CASE e = k + 1
  <2>1. e \in 1 .. e /\ \A i \in 1 .. k : i \in 1 .. e
    BY <1>1, <1>3
  <2>2. x # TornEdit /\ \A i \in 1 .. k : r[i] # TornEdit
    BY <1>1, <1>2, <1>3, <2>1, ZenonT(30) DEF Whole
  <2> QED
    BY <1>3, <2>2, ZenonT(30) DEF k, Whole
<1>4. CASE e # k + 1
  <2>1. e \in 1 .. k /\ \A i \in 1 .. e : i \in 1 .. k
    BY <1>1, <1>2, <1>4
  <2>2. LiveAt(q, e) = LiveAt(r, e) /\ Whole(r, e) /\ q[e] = r[e]
    <3>1. SameTo(r, q, e)
      BY <1>1, <2>1, ZenonT(30) DEF SameTo
    <3>2. e \in Nat
      BY <2>1
    <3> QED
      BY <1>1, <1>2, <2>1, <3>1, <3>2, LiveSame, ZenonT(30)
  <2>3. Last(q, e) => Last(r, e)
    <3>1. CASE e = k
      BY <3>1 DEF Last, k
    <3>2. CASE e # k
      <4>1. e + 1 \in 1 .. k /\ e # k + 1
        BY <1>1, <2>1, <3>2
      <4> QED
        BY <1>1, <4>1, ZenonT(30) DEF Last
    <3> QED
      BY <3>1, <3>2
  <2>4. s <= e \/ Last(r, e)
    <3>1. CASE Last(q, e)
      BY <2>3, <3>1
    <3>2. CASE t <= e
      BY <1>1, <2>1, <3>2 DEF k
    <3> QED
      BY <1>2, <3>1, <3>2
  <2>5. e \in Ends(r, s)
    BY <2>1, <2>2, <2>4, ZenonT(30) DEF Ends, k
  <2> QED
    BY <2>2, <2>3, <2>5, ZenonT(30) DEF q
<1> QED
  BY <1>3, <1>4, ZenonT(30)

LEMMA CutEnds ==
  ASSUME NEW r \in Seq(EditRecord), NEW s \in 0 .. Len(r), NEW k \in s .. Len(r)
  PROVE  SameEnds(r, s, SubSeq(r, 1, k), k)
<1> DEFINE q == SubSeq(r, 1, k)
<1>1. /\ k \in Nat /\ Len(r) \in Nat /\ s <= k /\ k <= Len(r)
      /\ Len(q) = k /\ \A i \in 1 .. k : q[i] = r[i]
  OBVIOUS
<1> HIDE DEF q
<1> SUFFICES ASSUME NEW e \in Ends(q, k)
             PROVE  e \in Ends(r, s) /\ q[e] = r[e] /\ LiveAt(q, e) = LiveAt(r, e)
  BY ZenonT(30) DEF SameEnds, q
<1>2. e \in 1 .. k /\ Whole(q, e) /\ (k <= e \/ Last(q, e))
  BY <1>1, ZenonT(30) DEF Ends
<1>3. e \in Nat /\ e \in 1 .. Len(r) /\ (e = k \/ e + 1 \in 1 .. k) /\ \A i \in 1 .. e : i \in 1 .. k
  BY <1>1, <1>2
<1>4. LiveAt(q, e) = LiveAt(r, e) /\ Whole(r, e) /\ q[e] = r[e]
  <2>1. SameTo(r, q, e)
    BY <1>1, <1>3, ZenonT(30) DEF SameTo
  <2> QED
    BY <1>1, <1>2, <1>3, <2>1, LiveSame, ZenonT(30)
<1>5. s <= e \/ Last(r, e)
  <2>1. CASE e = k
    BY <1>1, <2>1
  <2>2. CASE e # k
    <3>1. e + 1 \in 1 .. k /\ ~(k <= e) /\ e # Len(q)
      BY <1>1, <1>2, <1>3, <2>2
    <3> QED
      BY <1>1, <1>2, <3>1, ZenonT(30) DEF Last
  <2> QED
    BY <2>1, <2>2
<1> QED
  BY <1>3, <1>4, <1>5, ZenonT(30) DEF Ends

LEMMA EndIs ==
  ASSUME NEW r \in Seq(EditRecord), NEW s, NEW e \in Ends(r, s)
  PROVE  /\ e \in 1 .. Len(r) /\ r[e] \in EditRecord /\ r[e].next_file \in Int
         /\ r[e].log_number \in Nat /\ r[e].last_sequence \in Nat
<1>1. e \in 1 .. Len(r)
  BY ZenonT(30) DEF Ends
<1>2. r[e] \in EditRecord
  BY <1>1
<1> QED
  BY <1>1, <1>2 DEF EditRecord

(* A reader's end is behind all others, and is the only one if everything is *)
(* synced.                                                                   *)
LEMMA LastIsLargest ==
  ASSUME NEW r \in Seq(EditRecord), NEW s \in 0 .. Len(r),
         NEW e \in 1 .. Len(r), Last(r, e), NEW f \in Ends(r, s)
  PROVE  f <= e
<1>1. f \in 1 .. Len(r) /\ Whole(r, f) /\ Len(r) \in Nat
  BY DEF Ends
<1>2. CASE e = Len(r)
  BY <1>1, <1>2
<1>3. CASE r[e + 1] = TornEdit
  <2>1. ~(e + 1 \in 1 .. f)
    BY <1>1, <1>3, ZenonT(30) DEF Whole
  <2> QED
    BY <1>1, <2>1
<1> QED
  BY <1>2, <1>3 DEF Last

LEMMA WholeEnds ==
  ASSUME NEW r \in Seq(EditRecord), NEW s \in 0 .. Len(r), Whole(r, Len(r)), Len(r) >= 1
  PROVE  /\ Len(r) \in Ends(r, s) /\ Last(r, Len(r)) /\ Len(r) \in 1 .. Len(r)
         /\ s = Len(r) => \A e \in Ends(r, s) : e = Len(r)
<1>1. Len(r) \in 1 .. Len(r) /\ s <= Len(r) /\ Len(r) \in Nat
  OBVIOUS
<1>2. Len(r) \in Ends(r, s) /\ Last(r, Len(r))
  BY <1>1, ZenonT(30) DEF Ends, Last
<1>3. ASSUME s = Len(r), NEW e \in Ends(r, s) PROVE e = Len(r)
  <2>1. e \in 1 .. Len(r) /\ (s <= e \/ Last(r, e))
    BY ZenonT(30) DEF Ends
  <2>2. CASE s <= e
    BY <1>1, <1>3, <2>1, <2>2
  <2>3. CASE Last(r, e) /\ e # Len(r)
    <3>1. e + 1 \in 1 .. Len(r)
      BY <1>1, <2>1, <2>3
    <3> QED
      BY <2>3, <3>1, ZenonT(30) DEF Last, Whole
  <2> QED
    BY <2>1, <2>2, <2>3
<1> QED
  BY <1>1, <1>2, <1>3, ZenonT(30)

-----------------------------------------------------------------------------
(* Steps that leave the MANIFEST alone: its tables are kept, the logs it     *)
(* leads to only grow, and what has to be found in addition is there.        *)

KeepsTables(T, T2, r, s) ==
  \A e \in Ends(r, s) : \A n \in LiveAt(r, e) : n \in DOMAIN T => n \in DOMAIN T2 /\ T2[n] = T[n]
KeepsLogs(G, G2, r, s) ==
  \A e \in Ends(r, s) : \A n \in DOMAIN G : r[e].log_number <= n => n \in DOMAIN G2 /\ G[n] \subseteq G2[n]
AddsFound(A, A2, T, G, r, s) ==
  \A x \in A2 : x \in A \/ \A e \in Ends(r, s) : Found(T, G, r, e, x)

LEMMA FoundStill ==
  ASSUME NEW T, NEW T2, NEW G, NEW G2, NEW r, NEW s, NEW e \in Ends(r, s), NEW x,
         KeepsTables(T, T2, r, s), KeepsLogs(G, G2, r, s), Found(T, G, r, e, x)
  PROVE  Found(T2, G2, r, e, x)
<1>1. CASE In(T, LiveAt(r, e), x)
  <2>1. PICK n \in LiveAt(r, e) : n \in DOMAIN T /\ x \in T[n]
    BY <1>1, ZenonT(30) DEF In
  <2>2. n \in DOMAIN T2 /\ x \in T2[n]
    BY <2>1, ZenonT(30) DEF KeepsTables
  <2> QED
    BY <2>1, <2>2, ZenonT(30) DEF Found, In
<1>2. CASE \E n \in DOMAIN G : r[e].log_number <= n /\ x \in G[n]
  <2>1. PICK n \in DOMAIN G : r[e].log_number <= n /\ x \in G[n]
    BY <1>2, ZenonT(30)
  <2>2. n \in DOMAIN G2 /\ x \in G2[n]
    BY <2>1, ZenonT(30) DEF KeepsLogs
  <2> QED
    BY <2>1, <2>2, ZenonT(30) DEF Found
<1> QED
  BY <1>1, <1>2, ZenonT(30) DEF Found

LEMMA SecureStill ==
  ASSUME NEW T, NEW T2, NEW G, NEW G2, NEW K, NEW K2, NEW r, NEW s,
         NEW A, NEW A2, NEW D, NEW D2, NEW m,
         Secure(T, G, K, r, s, A, D, m), KeepsTables(T, T2, r, s),
         KeepsLogs(G, G2, r, s), KeepsLogs(K, K2, r, s),
         AddsFound(A, A2, T2, G2, r, s), AddsFound(D, D2, T2, K2, r, s)
  PROVE  Secure(T2, G2, K2, r, s, A2, D2, m)
<1> SUFFICES ASSUME NEW e \in Ends(r, s)
             PROVE  /\ Numbered(T2, r, e, m)
                    /\ \A f \in Ends(r, s) : e <= f => r[e].next_file <= r[f].next_file
                    /\ Last(r, e) => \A x \in A2 : Found(T2, G2, r, e, x)
                    /\ \A x \in D2 : Found(T2, K2, r, e, x)
  BY ZenonT(30) DEF Secure
<1>1. /\ Numbered(T, r, e, m)
      /\ \A f \in Ends(r, s) : e <= f => r[e].next_file <= r[f].next_file
      /\ Last(r, e) => \A x \in A : Found(T, G, r, e, x)
      /\ \A x \in D : Found(T, K, r, e, x)
  BY ZenonT(30) DEF Secure
<1>2. Numbered(T2, r, e, m)
  BY <1>1, ZenonT(30) DEF Numbered, KeepsTables
<1>3. ASSUME Last(r, e), NEW x \in A2 PROVE Found(T2, G2, r, e, x)
  BY <1>1, <1>3, FoundStill, ZenonT(30) DEF AddsFound
<1>4. ASSUME NEW x \in D2 PROVE Found(T2, K2, r, e, x)
  BY <1>1, FoundStill, ZenonT(30) DEF AddsFound
<1> QED
  BY <1>1, <1>2, <1>3, <1>4, ZenonT(30)

(* A record that is written to the MANIFEST, in whole or in part.            *)
SecureEnd(T, G, K, r, s, x, A, D, m) ==
  LET q == Append(r, x)
      e == Len(r) + 1
  IN /\ Numbered(T, q, e, m)
     /\ \A f \in Ends(r, s) : r[f].next_file <= x.next_file
     /\ \A y \in A : Found(T, G, q, e, y)
     /\ \A y \in D : Found(T, K, q, e, y)
LEMMA SecureAppend ==
  ASSUME NEW T, NEW G, NEW K, NEW r \in Seq(EditRecord), NEW s \in 0 .. Len(r),
         NEW x \in EditRecord, NEW t \in {s, Len(r) + 1},
         NEW A, NEW A2, NEW D, NEW D2, NEW m,
         Secure(T, G, K, r, s, A, D, m),
         (A2 \subseteq A /\ D2 \subseteq D) \/ (Whole(r, Len(r)) /\ x # TornEdit /\ t = Len(r) + 1),
         Whole(r, Len(r)) /\ x # TornEdit => SecureEnd(T, G, K, r, s, x, A2, D2, m)
  PROVE  Secure(T, G, K, Append(r, x), t, A2, D2, m)
<1> DEFINE q == Append(r, x)
           k == Len(r)
<1>0. k \in Nat /\ k + 1 \in Nat /\ q[k + 1] = x /\ Len(q) = k + 1 /\ q \in Seq(EditRecord)
      /\ \A i \in 1 .. k : q[i] = r[i]
  OBVIOUS
<1>1. ASSUME NEW e \in Ends(q, t)
      PROVE  \/ e = k + 1 /\ Whole(r, k) /\ x # TornEdit
             \/ /\ e \in Ends(r, s) /\ (Last(q, e) => Last(r, e))
                /\ q[e] = r[e] /\ LiveAt(q, e) = LiveAt(r, e)
  BY AppendEnds, ZenonT(30)
<1>2. ASSUME Whole(r, k), x # TornEdit PROVE SecureEnd(T, G, K, r, s, x, A2, D2, m)
  BY <1>2
<1>9. k + 1 \notin Ends(r, s)
  <2>1. k + 1 \notin 1 .. k
    BY <1>0
  <2> QED
    BY <2>1, ZenonT(30) DEF Ends
<1> HIDE DEF q, k
<1>3. ASSUME NEW e \in Ends(q, t) PROVE e \in 1 .. k + 1 /\ (t <= e \/ Last(q, e))
  BY <1>0, ZenonT(30) DEF Ends
<1>4. ASSUME NEW e \in Ends(q, t), e # k + 1 PROVE A2 \subseteq A /\ D2 \subseteq D
  <2> SUFFICES ASSUME Whole(r, k), x # TornEdit, t = k + 1 PROVE FALSE
    BY ZenonT(30) DEF k
  <2>1. e \in 1 .. k /\ e + 1 \in 1 .. k + 1 /\ ~(t <= e) /\ e # Len(q)
    BY <1>0, <1>3, <1>4
  <2>2. q[e + 1] = TornEdit
    BY <1>3, <2>1, ZenonT(30) DEF Last
  <2>3. e + 1 = k + 1 \/ e + 1 \in 1 .. k
    BY <1>0, <2>1
  <2> QED
    BY <1>0, <2>2, <2>3, ZenonT(30) DEF Whole
<1>5. ASSUME NEW e \in Ends(q, t) PROVE Numbered(T, q, e, m)
  <2>1. CASE e = k + 1 /\ Whole(r, k) /\ x # TornEdit
    BY <1>2, <2>1, ZenonT(30) DEF SecureEnd, q, k
  <2>2. CASE e \in Ends(r, s) /\ q[e] = r[e] /\ LiveAt(q, e) = LiveAt(r, e)
    <3>1. Numbered(T, r, e, m)
      BY <2>2, ZenonT(30) DEF Secure
    <3> QED
      BY <2>2, <3>1, ZenonT(30) DEF Numbered
  <2> QED
    BY <1>1, <2>1, <2>2, ZenonT(30)
<1>6. ASSUME NEW e \in Ends(q, t), NEW f \in Ends(q, t), e <= f PROVE q[e].next_file <= q[f].next_file
  <2>1. CASE f = k + 1 /\ Whole(r, k) /\ x # TornEdit
    <3>1. CASE e = k + 1
      <4>1. x.next_file \in Int
        BY DEF EditRecord
      <4> QED
        BY <1>0, <2>1, <3>1, <4>1
    <3>2. CASE e \in Ends(r, s) /\ q[e] = r[e]
      BY <1>0, <1>2, <2>1, <3>2, ZenonT(30) DEF SecureEnd, k
    <3> QED
      BY <1>1, <3>1, <3>2, ZenonT(30)
  <2>2. CASE f # k + 1
    <3>1. e # k + 1
      BY <1>0, <1>3, <1>6, <2>2
    <3>2. e \in Ends(r, s) /\ q[e] = r[e] /\ f \in Ends(r, s) /\ q[f] = r[f]
      BY <1>1, <2>2, <3>1, ZenonT(30)
    <3> QED
      BY <1>6, <3>2, ZenonT(30) DEF Secure
  <2> QED
    BY <1>1, <1>9, <2>1, <2>2, ZenonT(30)
<1>7. ASSUME NEW e \in Ends(q, t), Last(q, e), NEW y \in A2 PROVE Found(T, G, q, e, y)
  <2>1. CASE e = k + 1
    BY <1>1, <1>2, <1>9, <2>1, ZenonT(30) DEF SecureEnd, q, k
  <2>2. CASE e # k + 1
    <3>1. e \in Ends(r, s) /\ Last(r, e) /\ q[e] = r[e] /\ LiveAt(q, e) = LiveAt(r, e) /\ y \in A
      BY <1>1, <1>4, <1>7, <2>2, ZenonT(30)
    <3>2. Found(T, G, r, e, y)
      BY <3>1, ZenonT(30) DEF Secure
    <3> QED
      BY <3>1, <3>2, ZenonT(30) DEF Found
  <2> QED
    BY <2>1, <2>2
<1>8. ASSUME NEW e \in Ends(q, t), NEW y \in D2 PROVE Found(T, K, q, e, y)
  <2>1. CASE e = k + 1
    BY <1>1, <1>2, <1>9, <2>1, ZenonT(30) DEF SecureEnd, q, k
  <2>2. CASE e # k + 1
    <3>1. e \in Ends(r, s) /\ q[e] = r[e] /\ LiveAt(q, e) = LiveAt(r, e) /\ y \in D
      BY <1>1, <1>4, <2>2, ZenonT(30)
    <3>2. Found(T, K, r, e, y)
      BY <3>1, ZenonT(30) DEF Secure
    <3> QED
      BY <3>1, <3>2, ZenonT(30) DEF Found
  <2> QED
    BY <2>1, <2>2
<1> QED
  BY <1>5, <1>6, <1>7, <1>8, ZenonT(30) DEF Secure, q

-----------------------------------------------------------------------------
(* Files written and removed.                                                *)

LEMMA PutIs ==
  ASSUME NEW f, NEW x, NEW v
  PROVE  /\ DOMAIN Put(f, x, v) = DOMAIN f \cup {x} /\ Put(f, x, v)[x] = v
         /\ \A y \in DOMAIN f : y # x => Put(f, x, v)[y] = f[y]
BY DEF Put

LEMMA WithoutIs ==
  ASSUME NEW f, NEW x
  PROVE  /\ DOMAIN Without(f, x) = DOMAIN f \ {x}
         /\ \A y \in DOMAIN f : y # x => Without(f, x)[y] = f[y]
BY DEF Without

(* The file n of a kind is written, and synced up to k.                      *)
LEMMA PutFile ==
  ASSUME NEW kind, NEW R, NEW F, NEW S, FileTypes(kind, R, F, S),
         NEW n \in Nat, NEW r \in Seq(R), NEW k \in 0 .. Len(r)
  PROVE  FileTypes(kind, R, Put(F, n, r), Put(S, <<kind, n>>, k))
<1> DEFINE G == Put(F, n, r)
           U == Put(S, <<kind, n>>, k)
<1>1. /\ DOMAIN G = DOMAIN F \cup {n} /\ G[n] = r
      /\ \A y \in DOMAIN F : y # n => G[y] = F[y]
  BY DEF Put
<1>2. /\ DOMAIN U = DOMAIN S \cup {<<kind, n>>} /\ U[<<kind, n>>] = k
      /\ \A y \in DOMAIN S : y # <<kind, n>> => U[y] = S[y]
  BY DEF Put
<1> HIDE DEF G, U
<1> SUFFICES ASSUME NEW y \in DOMAIN G
             PROVE  y \in Nat /\ G[y] \in Seq(R) /\ <<kind, y>> \in DOMAIN U /\ U[<<kind, y>>] \in 0 .. Len(G[y])
  BY ZenonT(30) DEF FileTypes, G, U
<1>3. CASE y = n
  BY <1>1, <1>2, <1>3, ZenonT(30)
<1>4. CASE y # n
  <2>1. y \in DOMAIN F /\ G[y] = F[y]
    BY <1>1, <1>4, ZenonT(30)
  <2>2. y \in Nat /\ F[y] \in Seq(R) /\ <<kind, y>> \in DOMAIN S /\ S[<<kind, y>>] \in 0 .. Len(F[y])
    BY <2>1, ZenonT(30) DEF FileTypes
  <2>3. <<kind, y>> # <<kind, n>>
    BY <1>4
  <2> QED
    BY <1>2, <2>1, <2>2, <2>3, ZenonT(30)
<1> QED
  BY <1>3, <1>4

(* ... not synced ...                                                        *)
LEMMA PutFileOnly ==
  ASSUME NEW kind, NEW R, NEW F, NEW S, FileTypes(kind, R, F, S),
         NEW n \in DOMAIN F, NEW r \in Seq(R), Len(F[n]) <= Len(r)
  PROVE  FileTypes(kind, R, Put(F, n, r), S)
<1> DEFINE G == Put(F, n, r)
<1>1. /\ DOMAIN G = DOMAIN F \cup {n} /\ G[n] = r
      /\ \A y \in DOMAIN F : y # n => G[y] = F[y]
  BY DEF Put
<1> HIDE DEF G
<1> SUFFICES ASSUME NEW y \in DOMAIN G
             PROVE  y \in Nat /\ G[y] \in Seq(R) /\ <<kind, y>> \in DOMAIN S /\ S[<<kind, y>>] \in 0 .. Len(G[y])
  BY ZenonT(30) DEF FileTypes, G
<1>2. y \in DOMAIN F /\ n \in DOMAIN F
  BY <1>1, ZenonT(30)
<1>3. y \in Nat /\ F[y] \in Seq(R) /\ <<kind, y>> \in DOMAIN S /\ S[<<kind, y>>] \in 0 .. Len(F[y])
  BY <1>2, ZenonT(30) DEF FileTypes
<1>4. CASE y = n
  <2>1. S[<<kind, n>>] \in 0 .. Len(F[n]) /\ F[n] \in Seq(R)
    BY <1>3, <1>4
  <2>2. S[<<kind, n>>] \in 0 .. Len(r)
    BY <2>1
  <2> QED
    BY <1>1, <1>3, <1>4, <2>2, ZenonT(30)
<1>5. CASE y # n
  BY <1>1, <1>2, <1>3, <1>5, ZenonT(30)
<1> QED
  BY <1>4, <1>5

(* ... or a file of another kind is; or files are removed.                   *)
LEMMA OtherFile ==
  ASSUME NEW kind, NEW R, NEW F, NEW S, FileTypes(kind, R, F, S),
         NEW other, other # kind, NEW n, NEW k
  PROVE  /\ FileTypes(kind, R, F, Put(S, <<other, n>>, k))
         /\ FileTypes(kind, R, F, Without(S, <<other, n>>))
<1>1. ASSUME NEW y \in DOMAIN F
      PROVE  /\ y \in Nat /\ F[y] \in Seq(R) /\ <<kind, y>> \in DOMAIN S
             /\ S[<<kind, y>>] \in 0 .. Len(F[y]) /\ <<kind, y>> # <<other, n>>
  <2>1. <<kind, y>> # <<other, n>>
    OBVIOUS
  <2> QED
    BY <2>1, ZenonT(30) DEF FileTypes
<1> DEFINE U == Put(S, <<other, n>>, k)
           W == Without(S, <<other, n>>)
<1>2. DOMAIN U = DOMAIN S \cup {<<other, n>>} /\ \A y \in DOMAIN S : y # <<other, n>> => U[y] = S[y]
  BY DEF Put
<1>3. DOMAIN W = DOMAIN S \ {<<other, n>>} /\ \A y \in DOMAIN S : y # <<other, n>> => W[y] = S[y]
  BY WithoutIs, ZenonT(30)
<1> HIDE DEF U, W
<1>4. FileTypes(kind, R, F, U)
  BY <1>1, <1>2, ZenonT(30) DEF FileTypes
<1>5. FileTypes(kind, R, F, W)
  BY <1>1, <1>3, ZenonT(30) DEF FileTypes
<1> QED
  BY <1>4, <1>5 DEF U, W

LEMMA WithoutFile ==
  ASSUME NEW kind, NEW R, NEW F, NEW S, FileTypes(kind, R, F, S), NEW n
  PROVE  FileTypes(kind, R, Without(F, n), Without(S, <<kind, n>>))
<1> DEFINE G == Without(F, n)
           W == Without(S, <<kind, n>>)
<1>1. DOMAIN G = DOMAIN F \ {n} /\ \A y \in DOMAIN F : y # n => G[y] = F[y]
  BY WithoutIs, ZenonT(30)
<1>2. DOMAIN W = DOMAIN S \ {<<kind, n>>} /\ \A y \in DOMAIN S : y # <<kind, n>> => W[y] = S[y]
  BY WithoutIs, ZenonT(30)
<1> HIDE DEF G, W
<1>3. ASSUME NEW y \in DOMAIN G
      PROVE  /\ y \in Nat /\ F[y] \in Seq(R) /\ <<kind, y>> \in DOMAIN S /\ G[y] = F[y]
             /\ S[<<kind, y>>] \in 0 .. Len(F[y]) /\ <<kind, y>> # <<kind, n>>
  <2>1. y \in DOMAIN F /\ y # n
    BY <1>1, ZenonT(30)
  <2>2. <<kind, y>> # <<kind, n>>
    BY <2>1
  <2> QED
    BY <1>1, <2>1, <2>2, ZenonT(30) DEF FileTypes
<1>4. FileTypes(kind, R, G, W)
  BY <1>2, <1>3, ZenonT(30) DEF FileTypes
<1> QED
  BY <1>4 DEF G, W

(* A log that is created or grows.                                           *)
Grown(G, H) == \A n \in DOMAIN G : n \in DOMAIN H /\ G[n] \subseteq H[n]
GrownLogs(L, S, M, U) ==
  \A n \in DOMAIN L :
    /\ n \in DOMAIN M /\ Len(L[n]) <= Len(M[n]) /\ S[<<"log", n>>] <= U[<<"log", n>>]
    /\ SameTo(L[n], M[n], Len(L[n]))
LEMMA GrownRead ==
  ASSUME NEW L, NEW S, NEW M, NEW U, FileTypes("log", LogRecord, L, S),
         FileTypes("log", LogRecord, M, U), GrownLogs(L, S, M, U)
  PROVE  Grown(LogsRead(L), LogsRead(M)) /\ Grown(SyncedRead(L, S), SyncedRead(M, U))
<1>0. /\ DOMAIN LogsRead(L) = DOMAIN L /\ DOMAIN SyncedRead(L, S) = DOMAIN L
      /\ DOMAIN LogsRead(M) = DOMAIN M /\ DOMAIN SyncedRead(M, U) = DOMAIN M
  BY DEF LogsRead, SyncedRead
<1> SUFFICES ASSUME NEW n \in DOMAIN L
             PROVE  /\ n \in DOMAIN M /\ LogsRead(L)[n] \subseteq LogsRead(M)[n]
                    /\ SyncedRead(L, S)[n] \subseteq SyncedRead(M, U)[n]
  BY <1>0, ZenonT(30) DEF Grown
<1> DEFINE l == L[n]
           q == M[n]
           j == S[<<"log", n>>]
           k == U[<<"log", n>>]
<1>1. n \in DOMAIN M /\ Len(l) <= Len(q) /\ j <= k /\ SameTo(l, q, Len(l))
  BY ZenonT(30) DEF GrownLogs
<1>2. l \in Seq(LogRecord) /\ q \in Seq(LogRecord) /\ j \in 0 .. Len(l) /\ k \in 0 .. Len(q)
  BY <1>1, ZenonT(30) DEF FileTypes
<1>3. /\ LogsRead(L)[n] = ReadOf(l, Len(l)) /\ LogsRead(M)[n] = ReadOf(q, Len(q))
      /\ SyncedRead(L, S)[n] = ReadOf(l, j) /\ SyncedRead(M, U)[n] = ReadOf(q, k)
  BY <1>1, ZenonT(30) DEF LogsRead, SyncedRead
<1> HIDE DEF l, q, j, k
<1>4. /\ Len(l) \in Nat /\ Len(q) \in Nat /\ j \in Nat /\ k \in Nat /\ \A i \in 1 .. j : i \in 1 .. Len(l)
  BY <1>2
<1>5. SameTo(l, q, j)
  BY <1>1, <1>4, ZenonT(30) DEF SameTo
<1>6. ReadOf(l, Len(l)) \subseteq ReadOf(q, Len(q)) /\ ReadOf(l, j) \subseteq ReadOf(q, k)
  BY <1>1, <1>4, <1>5, ReadOfLonger, ZenonT(30)
<1> QED
  BY <1>1, <1>3, <1>6, ZenonT(30)

LEMMA SyncedInLogs ==
  ASSUME NEW L, NEW S, FileTypes("log", LogRecord, L, S), NEW n \in DOMAIN L
  PROVE  /\ SyncedRead(L, S)[n] \subseteq LogsRead(L)[n]
         /\ LogsRead(L)[n] = ReadOf(L[n], Len(L[n])) /\ SyncedRead(L, S)[n] = ReadOf(L[n], S[<<"log", n>>])
         /\ LogsRead(L)[n] \subseteq LogRecord
<1> DEFINE l == L[n]
           j == S[<<"log", n>>]
<1>1. l \in Seq(LogRecord) /\ j \in 0 .. Len(l)
  BY ZenonT(30) DEF FileTypes
<1>2. LogsRead(L)[n] = ReadOf(l, Len(l)) /\ SyncedRead(L, S)[n] = ReadOf(l, j)
  BY ZenonT(30) DEF LogsRead, SyncedRead
<1> HIDE DEF l, j
<1>3. j \in Nat /\ Len(l) \in Nat /\ j <= Len(l) /\ SameTo(l, l, j) /\ \A i \in 1 .. Len(l) : l[i] \in LogRecord
  BY <1>1 DEF SameTo
<1>4. ReadOf(l, j) \subseteq ReadOf(l, Len(l))
  BY <1>3, ReadOfLonger, ZenonT(30)
<1>5. ReadOf(l, Len(l)) \subseteq LogRecord
  BY <1>3, ZenonT(30) DEF ReadOf
<1> QED
  BY <1>2, <1>4, <1>5, ZenonT(30) DEF l, j

(* A new table, with a number that no reader of the MANIFEST knows.          *)
LEMMA FreshTable ==
  ASSUME NEW T, NEW G, NEW K, NEW r \in Seq(EditRecord), NEW s, NEW A, NEW D, NEW m,
         Secure(T, G, K, r, s, A, D, m), NEW b \in Nat, NEW v, TableTypes(T),
         \A e \in Ends(r, s) : r[e].next_file <= b
  PROVE  KeepsTables(T, Put(T, b, v), r, s)
<1> SUFFICES ASSUME NEW e \in Ends(r, s), NEW n \in LiveAt(r, e), n \in DOMAIN T
             PROVE  n \in DOMAIN Put(T, b, v) /\ Put(T, b, v)[n] = T[n]
  BY ZenonT(30) DEF KeepsTables
<1>1. n < r[e].next_file /\ r[e].next_file <= b /\ n \in Nat
  BY ZenonT(30) DEF Secure, Numbered, TableTypes
<1>2. r[e] \in EditRecord
  BY DEF Ends
<1>3. n # b
  BY <1>1, <1>2 DEF EditRecord
<1> QED
  BY <1>3 DEF Put

LEMMA GrownKeeps ==
  ASSUME NEW G, NEW H, NEW r, NEW s, Grown(G, H)
  PROVE  KeepsLogs(G, H, r, s)
BY ZenonT(30) DEF Grown, KeepsLogs

(* Where the states' records and files are.                                  *)
LEMMA LogDomains ==
  /\ DOMAIN InLogs = DOMAIN logs /\ DOMAIN InSyncedLogs = DOMAIN logs
  /\ DOMAIN InLogs' = DOMAIN logs' /\ DOMAIN InSyncedLogs' = DOMAIN logs'
<1>1. DOMAIN InLogs = DOMAIN logs /\ DOMAIN InSyncedLogs = DOMAIN logs
  BY DEF InLogs, InSyncedLogs, LogsRead, SyncedRead
<1>2. DOMAIN InLogs' = DOMAIN logs' /\ DOMAIN InSyncedLogs' = DOMAIN logs'
  BY DEF InLogs, InSyncedLogs, LogsRead, SyncedRead
<1> QED
  BY <1>1, <1>2, ZenonT(30)

LEMMA FileKinds == \A f \in Files : f[1] \in {"log", "manifest", "table"}
BY DEF Files

(* A record appended to a file.                                              *)
LEMMA AppendedRecord ==
  ASSUME NEW R, NEW r \in Seq(R), NEW x \in R
  PROVE  /\ Append(r, x) \in Seq(R) /\ Len(Append(r, x)) = Len(r) + 1 /\ Len(r) \in Nat
         /\ Len(r) <= Len(Append(r, x)) /\ Len(r) + 1 \in 0 .. Len(Append(r, x))
         /\ Append(r, x)[Len(r) + 1] = x /\ \A i \in 1 .. Len(r) : Append(r, x)[i] = r[i]
OBVIOUS

(* Files cut by a crash of the machine, not below what is synced.            *)
LEMMA RemainsIs ==
  ASSUME NEW kind, NEW R, NEW f, FileTypes(kind, R, f, synced), NEW g \in Remains(kind, f)
  PROVE  /\ DOMAIN g = DOMAIN f
         /\ \A n \in DOMAIN f :
              \E k \in synced[<<kind, n>>] .. Len(f[n]) : g[n] = SubSeq(f[n], 1, k)
<1> DEFINE top == Largest({0} \cup {Len(f[n]) : n \in DOMAIN f})
           cuts == {len \in [DOMAIN f -> 0 .. top] :
                      \A n \in DOMAIN f : synced[<<kind, n>>] <= len[n] /\ len[n] <= Len(f[n])}
<1>1. PICK len \in cuts : g = [n \in DOMAIN f |-> SubSeq(f[n], 1, len[n])]
  BY ZenonT(30) DEF Remains
<1> HIDE DEF top
<1>2. \A n \in DOMAIN f : len[n] \in 0 .. top /\ synced[<<kind, n>>] <= len[n] /\ len[n] <= Len(f[n])
  OBVIOUS
<1>3. ASSUME NEW n \in DOMAIN f
      PROVE  \E k \in synced[<<kind, n>>] .. Len(f[n]) : g[n] = SubSeq(f[n], 1, k)
  <2>1. len[n] \in Int
    BY <1>2
  <2>2. synced[<<kind, n>>] \in 0 .. Len(f[n]) /\ f[n] \in Seq(R)
    BY ZenonT(30) DEF FileTypes
  <2>3. len[n] \in synced[<<kind, n>>] .. Len(f[n])
    BY <1>2, <2>1, <2>2
  <2>4. g[n] = SubSeq(f[n], 1, len[n])
    BY <1>1
  <2> QED
    BY <2>3, <2>4, ZenonT(30)
<1> QED
  BY <1>1, <1>3

LEMMA CutFile ==
  ASSUME NEW R, NEW r \in Seq(R), NEW s \in 0 .. Len(r), NEW k \in s .. Len(r)
  PROVE  LET q == SubSeq(r, 1, k) IN
         q \in Seq(R) /\ Len(q) = k /\ k \in 0 .. Len(q) /\ s \in Nat /\ k \in Nat /\ s <= k
         /\ SameTo(r, q, s) /\ SameTo(r, q, k)
<1>1. \A i \in 1 .. k : SubSeq(r, 1, k)[i] = r[i]
  OBVIOUS
<1>2. \A i \in 1 .. s : i \in 1 .. k
  OBVIOUS
<1> QED
  BY <1>1, <1>2 DEF SameTo

LEMMA SecureCut ==
  ASSUME NEW T, NEW G, NEW K, NEW K2, NEW r, NEW s, NEW q, NEW t, NEW A, NEW D, NEW m,
         SameEnds(r, s, q, t), Grown(K, K2), Secure(T, G, K, r, s, A, D, m)
  PROVE  Secure(T, K2, K2, q, t, D, D, m)
<1> SUFFICES ASSUME NEW e \in Ends(q, t)
             PROVE  /\ Numbered(T, q, e, m)
                    /\ \A f \in Ends(q, t) : e <= f => q[e].next_file <= q[f].next_file
                    /\ \A x \in D : Found(T, K2, q, e, x)
  BY ZenonT(30) DEF Secure
<1>1. \A f \in Ends(q, t) : f \in Ends(r, s) /\ q[f] = r[f] /\ LiveAt(q, f) = LiveAt(r, f)
  BY ZenonT(30) DEF SameEnds
<1>2. /\ Numbered(T, r, e, m)
      /\ \A f \in Ends(r, s) : e <= f => r[e].next_file <= r[f].next_file
      /\ \A x \in D : Found(T, K, r, e, x)
  BY <1>1, ZenonT(30) DEF Secure
<1>3. Numbered(T, q, e, m)
  BY <1>1, <1>2, ZenonT(30) DEF Numbered
<1>4. \A f \in Ends(q, t) : e <= f => q[e].next_file <= q[f].next_file
  BY <1>1, <1>2, ZenonT(30)
<1>5. ASSUME NEW x \in D PROVE Found(T, K2, q, e, x)
  <2>1. In(T, LiveAt(r, e), x) \/ \E n \in DOMAIN K : r[e].log_number <= n /\ x \in K[n]
    BY <1>2, ZenonT(30) DEF Found
  <2>2. q[e] = r[e] /\ LiveAt(q, e) = LiveAt(r, e)
    BY <1>1, ZenonT(30)
  <2>3. CASE In(T, LiveAt(r, e), x)
    BY <2>2, <2>3, ZenonT(30) DEF Found
  <2>4. ASSUME NEW n \in DOMAIN K, r[e].log_number <= n, x \in K[n] PROVE Found(T, K2, q, e, x)
    <3>1. n \in DOMAIN K2 /\ x \in K2[n] /\ q[e].log_number <= n
      BY <2>2, <2>4, ZenonT(30) DEF Grown
    <3> QED
      BY <3>1, ZenonT(30) DEF Found
  <2> QED
    BY <2>1, <2>3, <2>4, ZenonT(30)
<1> QED
  BY <1>3, <1>4, <1>5, ZenonT(30)

(* Both kinds of files that a crash of the machine cuts.                     *)
LEMMA RemainsBoth ==
  ASSUME FileTypes("log", LogRecord, logs, synced), FileTypes("manifest", EditRecord, manifests, synced),
         logs' \in Remains("log", logs), manifests' \in Remains("manifest", manifests)
  PROVE  /\ DOMAIN logs' = DOMAIN logs
         /\ \A n \in DOMAIN logs : \E k \in synced[<<"log", n>>] .. Len(logs[n]) : logs'[n] = SubSeq(logs[n], 1, k)
         /\ DOMAIN manifests' = DOMAIN manifests
         /\ \A n \in DOMAIN manifests :
              \E k \in synced[<<"manifest", n>>] .. Len(manifests[n]) : manifests'[n] = SubSeq(manifests[n], 1, k)
<1>1. /\ DOMAIN logs' = DOMAIN logs
      /\ \A n \in DOMAIN logs : \E k \in synced[<<"log", n>>] .. Len(logs[n]) : logs'[n] = SubSeq(logs[n], 1, k)
  BY RemainsIs
<1>2. /\ DOMAIN manifests' = DOMAIN manifests
      /\ \A n \in DOMAIN manifests :
           \E k \in synced[<<"manifest", n>>] .. Len(manifests[n]) : manifests'[n] = SubSeq(manifests[n], 1, k)
  BY RemainsIs
<1> QED
  BY <1>1, <1>2, ZenonT(30)

LEMMA CutShort ==
  ASSUME NEW R, NEW r \in Seq(R), NEW k \in Nat, Len(r) = 1, k = 0 \/ k = 1
  PROVE  SubSeq(r, 1, k) = <<>> \/ SubSeq(r, 1, k) = r
<1>1. CASE k = 0
  BY <1>1
<1>2. CASE k = 1
  BY <1>2
<1> QED
  BY <1>1, <1>2, ZenonT(30)

-----------------------------------------------------------------------------
(* The steps, one by one.                                                    *)

Manifest == manifests[CURRENT]

(* CURRENT's MANIFEST is as before, and what it leads to is still there.     *)
LEMMA DiskStill ==
  ASSUME DiskInv, CURRENT # 0, CURRENT' = CURRENT, CURRENT \in DOMAIN manifests',
         manifests'[CURRENT] = Manifest, synced'[<<"manifest", CURRENT>>] = CurrentSynced,
         KeepsTables(tables, tables', Manifest, CurrentSynced),
         KeepsLogs(InLogs, InLogs', Manifest, CurrentSynced),
         KeepsLogs(InSyncedLogs, InSyncedLogs', Manifest, CurrentSynced),
         AddsFound(acked \ exposed, acked' \ exposed', tables', InLogs', Manifest, CurrentSynced),
         AddsFound(durable \ exposed, durable' \ exposed', tables', InSyncedLogs', Manifest, CurrentSynced),
         (acked' = acked /\ durable' = durable) \/ Established(Manifest, CurrentSynced),
         pc' # "newdb"
  PROVE  DiskInv'
<1>1. Secure(tables, InLogs, InSyncedLogs, Manifest, CurrentSynced, acked \ exposed, durable \ exposed, CURRENT)
  BY ZenonT(30) DEF DiskInv, Manifest
<1>3. Secure(tables', InLogs', InSyncedLogs', Manifest, CurrentSynced, acked' \ exposed', durable' \ exposed', CURRENT)
  BY <1>1, SecureStill, ZenonT(30)
<1>4. CurrentSynced' = CurrentSynced /\ manifests'[CURRENT'] = Manifest
  BY ZenonT(30) DEF CurrentSynced
<1>5. \/ Established(Manifest, CurrentSynced)
      \/ acked' = {} /\ durable' = {} /\ Fresh(Manifest, CURRENT)
  BY ZenonT(30) DEF DiskInv, Manifest
<1> QED
  BY <1>3, <1>4, <1>5, ZenonT(30) DEF DiskInv

LEMMA DiskStep ==
  ASSUME DiskInv, CURRENT # 0, CURRENT' = CURRENT, CURRENT \in DOMAIN manifests',
         manifests'[CURRENT] = Manifest, synced'[<<"manifest", CURRENT>>] = CurrentSynced,
         KeepsTables(tables, tables', Manifest, CurrentSynced),
         Grown(InLogs, InLogs'), Grown(InSyncedLogs, InSyncedLogs'),
         AddsFound(acked \ exposed, acked' \ exposed', tables', InLogs', Manifest, CurrentSynced),
         AddsFound(durable \ exposed, durable' \ exposed', tables', InSyncedLogs', Manifest, CurrentSynced),
         (acked' = acked /\ durable' = durable) \/ Established(Manifest, CurrentSynced),
         pc' # "newdb"
  PROVE  DiskInv'
<1>1. KeepsLogs(InLogs, InLogs', Manifest, CurrentSynced) /\ KeepsLogs(InSyncedLogs, InSyncedLogs', Manifest, CurrentSynced)
  BY GrownKeeps, ZenonT(30)
<1> QED
  BY <1>1, DiskStill, ZenonT(30)

(* Nothing changes on disk and in what has to be there.                      *)
LEMMA SameDisk ==
  ASSUME DiskTypes, DiskInv, UNCHANGED diskVars, UNCHANGED <<acked, durable, exposed>>,
         pc' # "newdb", CURRENT = 0 => pc' = "down"
  PROVE  DiskTypes' /\ DiskInv'
<1>1. DiskTypes'
  BY ZenonT(30) DEF DiskTypes, diskVars
<1>2. InLogs' = InLogs /\ InSyncedLogs' = InSyncedLogs /\ CurrentSynced' = CurrentSynced
  BY ZenonT(30) DEF InLogs, InSyncedLogs, CurrentSynced, diskVars
<1> QED
  BY <1>1, <1>2, ZenonT(30) DEF DiskInv, diskVars

LEMMA DownRest == ASSUME Down PROVE ProcessTypes' /\ ProcessInv' /\ RunningInv'
<1>1. ProcessTypes'
  <2>1. NoMerge \in [number : Nat, inputs : SUBSET Nat] /\ NoEdit \in EditRecord
    BY DEF NoMerge, NoEdit, Edit, EditRecord
  <2>2. 0 \in Nat /\ 2 \in Nat /\ FALSE \in BOOLEAN
    OBVIOUS
  <2> QED
    BY <2>1, <2>2, ZenonT(30) DEF Down, ProcessTypes
<1>2. ProcessInv' /\ RunningInv'
  BY ZenonT(30) DEF Down, ProcessInv, RunningInv, IdleInv, OpenInv, NewFilesInv,
     MemoryInv, VersionInv, MergeInv, FlushInv, ApplyInv
<1> QED
  BY <1>1, <1>2

LEMMA DownStep ==
  ASSUME DiskTypes, DiskInv, Down, UNCHANGED diskVars, UNCHANGED <<acked, durable, exposed>>
  PROVE  Inv'
<1>1. DiskTypes' /\ DiskInv'
  <2>1. pc' = "down"
    BY DEF Down
  <2> QED
    BY <2>1, SameDisk
<1> QED
  BY <1>1, DownRest DEF Inv

LEMMA NewDBStep == ASSUME Inv, NewDB PROVE Inv'
<1> DEFINE q == <<Edit(0, 2, 0, {}, {})>>
<1>0. q \in Seq(EditRecord) /\ Len(q) = 1 /\ 0 \in 0 .. Len(q) /\ 1 \in Nat
  BY DEF Edit, EditRecord
<1>1. DiskTypes'
  <2>1. FileTypes("manifest", EditRecord, Put(manifests, 1, q), Put(synced, <<"manifest", 1>>, 0))
    <3> HIDE DEF q
    <3> QED
      BY <1>0, PutFile, ZenonT(30) DEF Inv, DiskTypes
  <2>2. FileTypes("log", LogRecord, logs, Put(synced, <<"manifest", 1>>, 0))
    <3>1. "manifest" # "log"
      OBVIOUS
    <3> QED
      BY <3>1, OtherFile, ZenonT(30) DEF Inv, DiskTypes
  <2> QED
    BY <2>1, <2>2, ZenonT(30) DEF Inv, DiskTypes, NewDB
<1>2. DiskInv'
  <2>1. manifests'[1] = q /\ 1 \in DOMAIN manifests'
    BY DEF NewDB, Put
  <2> QED
    BY <2>1, ZenonT(30) DEF Inv, DiskInv, NewDB, historyVars
<1>3. ProcessTypes'
  BY ZenonT(30) DEF Inv, ProcessTypes, NewDB, memVars, versionVars, openVars, jobVars
<1>4. ProcessInv' /\ RunningInv'
  BY ZenonT(30) DEF Inv, NewDB, ProcessInv, RunningInv, IdleInv, OpenInv, NewFilesInv,
     MemoryInv, VersionInv, MergeInv, FlushInv, ApplyInv, memVars, versionVars, openVars, jobVars
<1> QED
  BY <1>1, <1>2, <1>3, <1>4 DEF Inv

LEMMA NewDBCurrentStep == ASSUME Inv, NewDBCurrent PROVE Inv'
<1> DEFINE q == Edit(0, 2, 0, {}, {})
<1>0. 1 \in DOMAIN manifests /\ manifests[1] = <<q>> /\ acked = {} /\ durable = {} /\ CURRENT' = 1 /\ pc' = "down"
      /\ manifests' = manifests /\ synced' = synced /\ logs' = logs /\ tables' = tables
      /\ acked' = {} /\ durable' = {}
  BY ZenonT(30) DEF Inv, DiskInv, NewDBCurrent, historyVars
<1>1. DiskTypes'
  <2>1. 1 \in Nat
    OBVIOUS
  <2> QED
    BY <1>0, <2>1, ZenonT(30) DEF Inv, DiskTypes
<1>2. DiskInv'
  <2>1. Fresh(<<q>>, 1)
    BY ZenonT(30) DEF Fresh
  <2>2. ASSUME NEW s PROVE Secure(tables', InLogs', InSyncedLogs', <<q>>, s, {}, {}, 1)
    <3>1. ASSUME NEW e \in Ends(<<q>>, s) PROVE e = 1 /\ <<q>>[e] = q
      <4>1. e \in 1 .. Len(<<q>>)
        BY ZenonT(30) DEF Ends
      <4> QED
        BY <4>1
    <3>2. q.add = {} /\ q.next_file = 2 /\ q.log_number = 0
      BY DEF Edit
    <3>3. LiveAt(<<q>>, 1) = {}
      BY <3>2 DEF LiveAt
    <3>4. Numbered(tables', <<q>>, 1, 1)
      BY <3>2, <3>3 DEF Numbered
    <3>5. <<q>>[1].next_file <= <<q>>[1].next_file
      BY <3>2
    <3> HIDE DEF q
    <3> QED
      BY <3>1, <3>4, <3>5, ZenonT(30) DEF Secure
  <2>3. {} \ exposed' = {} /\ 1 # 0
    OBVIOUS
  <2> QED
    BY <1>0, <2>1, <2>2, <2>3, ZenonT(30) DEF DiskInv
<1>3. ProcessTypes'
  BY ZenonT(30) DEF Inv, ProcessTypes, NewDBCurrent, memVars, versionVars, openVars, jobVars
<1>4. ProcessInv' /\ RunningInv'
  BY ZenonT(30) DEF Inv, NewDBCurrent, ProcessInv, RunningInv, IdleInv, OpenInv, NewFilesInv,
     MemoryInv, VersionInv, MergeInv, FlushInv, ApplyInv, memVars, versionVars, openVars, jobVars
<1> QED
  BY <1>1, <1>2, <1>3, <1>4 DEF Inv

LEMMA PutTable ==
  ASSUME NEW T, TableTypes(T), NEW b \in Nat, NEW v \in SUBSET Nat
  PROVE  TableTypes(Put(T, b, v))
<1> DEFINE U == Put(T, b, v)
<1>1. DOMAIN U = DOMAIN T \cup {b} /\ U[b] = v /\ \A y \in DOMAIN T : y # b => U[y] = T[y]
  BY DEF Put
<1> HIDE DEF U
<1>2. TableTypes(U)
  BY <1>1, ZenonT(30) DEF TableTypes
<1> QED
  BY <1>2 DEF U

(* An empty log, with a new number.                                          *)
LEMMA NewLogFile ==
  ASSUME DiskTypes, CURRENT \in DOMAIN manifests, NEW b \in Nat, \A k \in DOMAIN logs : k # b,
         logs' = Put(logs, b, <<>>), synced' = Put(synced, <<"log", b>>, 0)
  PROVE  /\ DOMAIN logs' = DOMAIN logs \cup {b} /\ logs'[b] = <<>>
         /\ FileTypes("log", LogRecord, logs', synced') /\ FileTypes("manifest", EditRecord, manifests, synced')
         /\ synced'[<<"manifest", CURRENT>>] = CurrentSynced
         /\ Grown(InLogs, InLogs') /\ Grown(InSyncedLogs, InSyncedLogs')
<1>1. FileTypes("log", LogRecord, logs, synced) /\ FileTypes("manifest", EditRecord, manifests, synced)
  BY ZenonT(30) DEF DiskTypes
<1>2. /\ DOMAIN logs' = DOMAIN logs \cup {b} /\ logs'[b] = <<>>
      /\ \A k \in DOMAIN logs : k # b => logs'[k] = logs[k]
  BY DEF Put
<1>3. \A f \in DOMAIN synced : f # <<"log", b>> => synced'[f] = synced[f]
  BY DEF Put
<1>4. FileTypes("log", LogRecord, logs', synced') /\ FileTypes("manifest", EditRecord, manifests, synced')
  <2>1. <<>> \in Seq(LogRecord) /\ 0 \in 0 .. Len(<<>>) /\ "log" # "manifest"
    OBVIOUS
  <2>2. FileTypes("log", LogRecord, logs', synced')
    BY <1>1, <2>1, PutFile, ZenonT(30)
  <2>3. FileTypes("manifest", EditRecord, manifests, synced')
    BY <1>1, <2>1, OtherFile, ZenonT(30)
  <2> QED
    BY <2>2, <2>3
<1>5. synced'[<<"manifest", CURRENT>>] = CurrentSynced
  <2>1. <<"manifest", CURRENT>> \in DOMAIN synced
    BY <1>1, ZenonT(30) DEF FileTypes
  <2>2. <<"manifest", CURRENT>> # <<"log", b>>
    OBVIOUS
  <2> QED
    BY <1>3, <2>1, <2>2, ZenonT(30) DEF CurrentSynced
<1>6. GrownLogs(logs, synced, logs', synced')
  <2> SUFFICES ASSUME NEW k \in DOMAIN logs
               PROVE  /\ k \in DOMAIN logs' /\ Len(logs[k]) <= Len(logs'[k])
                      /\ synced[<<"log", k>>] <= synced'[<<"log", k>>]
                      /\ SameTo(logs[k], logs'[k], Len(logs[k]))
    BY ZenonT(30) DEF GrownLogs
  <2>1. logs'[k] = logs[k] /\ k \in DOMAIN logs' /\ k # b
    BY <1>2, ZenonT(30)
  <2>2. logs[k] \in Seq(LogRecord) /\ synced[<<"log", k>>] \in 0 .. Len(logs[k]) /\ <<"log", k>> \in DOMAIN synced
    BY <1>1, ZenonT(30) DEF FileTypes
  <2>3. <<"log", k>> # <<"log", b>>
    BY <2>1
  <2>4. synced'[<<"log", k>>] = synced[<<"log", k>>]
    BY <1>3, <2>2, <2>3, ZenonT(30)
  <2>5. Len(logs[k]) <= Len(logs[k]) /\ synced[<<"log", k>>] <= synced[<<"log", k>>]
    BY <2>2
  <2> QED
    BY <2>1, <2>4, <2>5, ZenonT(30) DEF SameTo
<1>7. Grown(InLogs, InLogs') /\ Grown(InSyncedLogs, InSyncedLogs')
  BY <1>1, <1>4, <1>6, GrownRead, ZenonT(30) DEF InLogs, InSyncedLogs
<1> QED
  BY <1>2, <1>4, <1>5, <1>7

LEMMA NewLogStep == ASSUME Inv, NewLog PROVE Inv'
<1> DEFINE b == next_file_number_
<1>1. /\ pc = "replay" /\ replay = {} /\ CURRENT # 0 /\ CURRENT \in DOMAIN manifests /\ pc' = "manifest"
      /\ logs' = Put(logs, b, <<>>) /\ synced' = Put(synced, <<"log", b>>, 0)
      /\ logfile_number_' = b /\ next_file_number_' = b + 1
  BY ZenonT(30) DEF Inv, DiskInv, NewLog
<1>2. /\ CURRENT < manifest_file_number_ /\ manifest_file_number_ < b
      /\ \A e \in CurrentEnds : Manifest[e].next_file <= manifest_file_number_
      /\ \A k \in live : k \in DOMAIN tables /\ k < manifest_file_number_
      /\ \A k \in edit : k \in DOMAIN tables /\ manifest_file_number_ < k /\ k < b
      /\ \A k \in live \cup edit : \A x \in tables[k] : x <= last_sequence_
      /\ \A k \in DOMAIN logs : k < b
      /\ \A x \in (acked \cup durable) \ exposed : In(tables, live \cup edit, x)
  BY <1>1, ZenonT(30) DEF Inv, ProcessInv, OpenInv, Manifest
<1>3. b \in Nat /\ manifest_file_number_ \in Nat /\ edit \subseteq Nat /\ DiskInv /\ DiskTypes
  BY ZenonT(30) DEF Inv, ProcessTypes
<1>4. /\ UNCHANGED <<CURRENT, manifests, tables, bg, mem_, imm_, log_number_, manifest_file_number_, live>>
      /\ UNCHANGED <<last_sequence_, replay, edit, merge, building, record, bg_error_, acked, durable, exposed>>
  BY ZenonT(30) DEF NewLog, versionVars, openVars, jobVars, historyVars
<1> HIDE DEF b
<1>5. \A k \in DOMAIN logs : k \in Nat /\ k # b
  <2>1. \A k \in DOMAIN logs : k \in Nat
    BY <1>3, ZenonT(30) DEF DiskTypes, FileTypes
  <2> QED
    BY <1>2, <1>3, <2>1
<1>6. /\ DOMAIN logs' = DOMAIN logs \cup {b} /\ logs'[b] = <<>>
      /\ FileTypes("log", LogRecord, logs', synced') /\ FileTypes("manifest", EditRecord, manifests, synced')
      /\ synced'[<<"manifest", CURRENT>>] = CurrentSynced
      /\ Grown(InLogs, InLogs') /\ Grown(InSyncedLogs, InSyncedLogs')
  BY <1>1, <1>3, <1>5, NewLogFile, ZenonT(30)
<1>7. DiskTypes'
  BY <1>3, <1>4, <1>6, ZenonT(30) DEF DiskTypes
<1>8. DiskInv'
  <2>1. KeepsTables(tables, tables', Manifest, CurrentSynced)
    BY <1>4, ZenonT(30) DEF KeepsTables
  <2>2. /\ AddsFound(acked \ exposed, acked' \ exposed', tables', InLogs', Manifest, CurrentSynced)
        /\ AddsFound(durable \ exposed, durable' \ exposed', tables', InSyncedLogs', Manifest, CurrentSynced)
    BY <1>4, ZenonT(30) DEF AddsFound
  <2>3. /\ CURRENT' = CURRENT /\ CURRENT \in DOMAIN manifests' /\ manifests'[CURRENT] = Manifest
        /\ acked' = acked /\ durable' = durable /\ pc' # "newdb"
    BY <1>1, <1>4, ZenonT(30) DEF Manifest
  <2> QED
    BY <1>1, <1>3, <1>6, <2>1, <2>2, <2>3, DiskStep, ZenonT(30)
<1>9. next_file_number_' \in Nat /\ b < next_file_number_' /\ manifest_file_number_ < next_file_number_'
      /\ \A k \in DOMAIN logs' : k <= b /\ k < next_file_number_'
  BY <1>1, <1>2, <1>3, <1>5, <1>6
<1>10. ProcessTypes'
  BY <1>1, <1>3, <1>4, <1>9, ZenonT(30) DEF Inv, ProcessTypes
<1>11. IdleInv' /\ RunningInv'
  BY <1>1, <1>4, ZenonT(30) DEF Inv, ProcessInv, RunningInv, IdleInv,
     MemoryInv, VersionInv, MergeInv, FlushInv, ApplyInv
<1>12. OpenInv'
  <2>1. \A e \in CurrentEnds' : (manifests[CURRENT][e].next_file)' <= manifest_file_number_'
    BY <1>2, <1>4, <1>6, ZenonT(30) DEF CurrentEnds, CurrentSynced, Manifest
  <2>2. \A k \in edit' : k \in DOMAIN tables' /\ manifest_file_number_' < k /\ k < next_file_number_'
    BY <1>1, <1>2, <1>3, <1>4
  <2> QED
    BY <1>1, <1>2, <1>4, <1>9, <2>1, <2>2, ZenonT(30) DEF OpenInv
<1>13. NewFilesInv'
  BY <1>1, <1>2, <1>4, <1>6, <1>9, ZenonT(30) DEF NewFilesInv
<1> QED
  BY <1>7, <1>8, <1>10, <1>11, <1>12, <1>13 DEF Inv, ProcessInv

LEMMA NewManifestStep == ASSUME Inv, NewManifest PROVE Inv'
<1> DEFINE m == manifest_file_number_
           q == <<Edit(0, 0, 0, live, {}),
                  Edit(logfile_number_, next_file_number_, last_sequence_, edit, {})>>
<1>1. /\ pc = "manifest" /\ CURRENT # 0 /\ CURRENT \in DOMAIN manifests /\ CURRENT < m
      /\ DiskInv /\ OpenInv /\ NewFilesInv
  BY ZenonT(30) DEF Inv, DiskInv, NewManifest, ProcessInv, OpenInv
<1>2. /\ m \in Nat /\ CURRENT \in Nat /\ logfile_number_ \in Nat /\ next_file_number_ \in Nat
      /\ last_sequence_ \in Nat /\ live \subseteq Nat /\ edit \subseteq Nat
      /\ FileTypes("log", LogRecord, logs, synced) /\ FileTypes("manifest", EditRecord, manifests, synced)
  BY ZenonT(30) DEF Inv, DiskTypes, ProcessTypes
<1>3. /\ UNCHANGED <<CURRENT, logs, tables, bg, mem_, imm_, logfile_number_, log_number_, manifest_file_number_>>
      /\ UNCHANGED <<live, next_file_number_, last_sequence_, replay, edit, merge, building, record>>
      /\ UNCHANGED <<bg_error_, acked, durable, exposed>>
  BY ZenonT(30) DEF NewManifest, memVars, versionVars, openVars, jobVars, historyVars
<1>4. \/ /\ manifests' = Put(manifests, m, q) /\ synced' = Put(synced, <<"manifest", m>>, 2)
         /\ pc' = "current"
      \/ /\ manifests' = Without(manifests, m) /\ synced' = Without(synced, <<"manifest", m>>)
         /\ pc' = "failed"
  BY ZenonT(30) DEF NewManifest, SyncedManifest
<1>5. q \in Seq(EditRecord) /\ 2 \in 0 .. Len(q)
  BY <1>2 DEF Edit, EditRecord
<1> HIDE DEF q, m
<1>6. FileTypes("log", LogRecord, logs', synced') /\ FileTypes("manifest", EditRecord, manifests', synced')
  <2>1. "manifest" # "log"
    OBVIOUS
  <2>2. FileTypes("log", LogRecord, logs, synced')
    BY <1>2, <1>4, <2>1, OtherFile, ZenonT(30)
  <2>3. FileTypes("manifest", EditRecord, manifests', synced')
    BY <1>2, <1>4, <1>5, PutFile, WithoutFile, ZenonT(30)
  <2> QED
    BY <1>3, <2>2, <2>3
<1>7. DiskTypes'
  BY <1>3, <1>6, ZenonT(30) DEF Inv, DiskTypes
<1>8. /\ \A k \in DOMAIN manifests : k # m => k \in DOMAIN manifests' /\ manifests'[k] = manifests[k]
      /\ \A f \in DOMAIN synced : f # <<"manifest", m>> => synced'[f] = synced[f]
      /\ pc' = "current" => m \in DOMAIN manifests' /\ manifests'[m] = q /\ synced'[<<"manifest", m>>] = 2
  <2>1. CASE manifests' = Put(manifests, m, q) /\ synced' = Put(synced, <<"manifest", m>>, 2)
    BY <2>1 DEF Put
  <2>2. CASE /\ manifests' = Without(manifests, m) /\ synced' = Without(synced, <<"manifest", m>>)
             /\ pc' = "failed"
    BY <2>2 DEF Without
  <2> QED
    BY <1>4, <2>1, <2>2
<1>9. CURRENT \in DOMAIN manifests' /\ manifests'[CURRENT] = Manifest /\ synced'[<<"manifest", CURRENT>>] = CurrentSynced
  <2>1. CURRENT # m
    BY <1>1, <1>2
  <2>2. <<"manifest", CURRENT>> # <<"manifest", m>>
    BY <2>1
  <2>3. <<"manifest", CURRENT>> \in DOMAIN synced
    BY <1>1, <1>2, ZenonT(30) DEF FileTypes
  <2> QED
    BY <1>1, <1>8, <2>1, <2>2, <2>3, ZenonT(30) DEF Manifest, CurrentSynced
<1>10. Grown(InLogs, InLogs') /\ Grown(InSyncedLogs, InSyncedLogs')
  <2>1. InLogs' = InLogs
    BY <1>3 DEF InLogs
  <2>2. ASSUME NEW k \in DOMAIN logs PROVE synced'[<<"log", k>>] = synced[<<"log", k>>]
    <3>1. <<"log", k>> # <<"manifest", m>>
      OBVIOUS
    <3>2. <<"log", k>> \in DOMAIN synced
      BY <1>2, ZenonT(30) DEF FileTypes
    <3> QED
      BY <1>8, <3>1, <3>2, ZenonT(30)
  <2>3. InSyncedLogs' = InSyncedLogs
    BY <1>3, <2>2 DEF InSyncedLogs, SyncedRead
  <2> QED
    BY <2>1, <2>3, ZenonT(30) DEF Grown
<1>11. DiskInv'
  <2>1. KeepsTables(tables, tables', Manifest, CurrentSynced)
    BY <1>3, ZenonT(30) DEF KeepsTables
  <2>2. /\ AddsFound(acked \ exposed, acked' \ exposed', tables', InLogs', Manifest, CurrentSynced)
        /\ AddsFound(durable \ exposed, durable' \ exposed', tables', InSyncedLogs', Manifest, CurrentSynced)
    BY <1>3, ZenonT(30) DEF AddsFound
  <2>3. CURRENT' = CURRENT /\ acked' = acked /\ durable' = durable /\ pc' # "newdb"
    BY <1>3, <1>4, ZenonT(30)
  <2> QED
    BY <1>1, <1>9, <1>10, <2>1, <2>2, <2>3, DiskStep, ZenonT(30)
<1>12. ProcessTypes'
  BY <1>3, <1>4, ZenonT(30) DEF Inv, ProcessTypes
<1>13. IdleInv' /\ RunningInv'
  BY <1>1, <1>3, <1>4, ZenonT(30) DEF Inv, ProcessInv, RunningInv, IdleInv,
     MemoryInv, VersionInv, MergeInv, FlushInv, ApplyInv
<1>14. OpenInv'
  <2>1. CurrentEnds' = CurrentEnds /\ InLogs' = InLogs /\ manifests'[CURRENT'] = Manifest
    BY <1>3, <1>9, ZenonT(30) DEF CurrentEnds, CurrentSynced, Manifest, InLogs
  <2> QED
    BY <1>1, <1>3, <1>4, <2>1, ZenonT(30) DEF OpenInv, Manifest
<1>15. NewFilesInv'
  BY <1>1, <1>3, <1>4, <1>8, ZenonT(30) DEF NewFilesInv, q, m
<1> QED
  BY <1>7, <1>11, <1>12, <1>13, <1>14, <1>15 DEF Inv, ProcessInv

LEMMA ContentsIn ==
  ASSUME NEW N, NEW x PROVE x \in Contents(N) <=> In(tables, N, x)
BY ZenonT(30) DEF Contents, In

LEMMA InstallManifestStep == ASSUME Inv, InstallManifest PROVE Inv'
<1> DEFINE m == manifest_file_number_
           a == Edit(0, 0, 0, live, {})
           z == Edit(logfile_number_, next_file_number_, last_sequence_, edit, {})
           q == <<a, z>>
<1>1. pc = "current" /\ OpenInv /\ NewFilesInv /\ IdleInv /\ DiskTypes /\ ProcessTypes
  BY ZenonT(30) DEF Inv, InstallManifest, ProcessInv
<1>2. /\ m < next_file_number_
      /\ \A n \in live : n \in DOMAIN tables /\ n < m
      /\ \A n \in edit : n \in DOMAIN tables /\ m < n /\ n < next_file_number_
      /\ \A n \in live \cup edit : \A x \in tables[n] : x <= last_sequence_
      /\ logfile_number_ \in DOMAIN logs /\ logs[logfile_number_] = <<>>
      /\ m < logfile_number_ /\ logfile_number_ < next_file_number_ /\ replay = {}
      /\ \A n \in DOMAIN logs : n <= logfile_number_
      /\ \A x \in (acked \cup durable) \ exposed : In(tables, live \cup edit, x)
      /\ m \in DOMAIN manifests /\ manifests[m] = q /\ synced[<<"manifest", m>>] = 2
  BY <1>1, ZenonT(30) DEF OpenInv, NewFilesInv
<1>3. /\ m \in Nat /\ logfile_number_ \in Nat /\ next_file_number_ \in Nat
      /\ last_sequence_ \in Nat /\ live \subseteq Nat /\ edit \subseteq Nat
  BY <1>1, ZenonT(30) DEF ProcessTypes
<1>4. /\ CURRENT' = m /\ live' = live \cup edit /\ log_number_' = logfile_number_
      /\ pc' = "open" /\ bg' = "gc"
      /\ acked' = acked \cup Contents(live \cup edit) /\ durable' = durable \cup Contents(live \cup edit)
      /\ exposed' = exposed \ Contents(live \cup edit)
  BY ZenonT(30) DEF InstallManifest
<1>5. /\ UNCHANGED <<manifests, logs, synced, tables, mem_, imm_, logfile_number_, manifest_file_number_>>
      /\ UNCHANGED <<next_file_number_, last_sequence_, replay, edit, merge, building, record, bg_error_>>
  BY ZenonT(30) DEF InstallManifest, memVars, openVars, jobVars
<1>6. /\ bg = "idle" /\ mem_ = {} /\ imm_ = {} /\ bg_error_ = FALSE /\ merge = NoMerge
  BY <1>1, ZenonT(30) DEF IdleInv
<1>7. /\ a \in EditRecord /\ z \in EditRecord /\ q \in Seq(EditRecord) /\ Len(q) = 2 /\ q[1] = a /\ q[2] = z
      /\ a.next_file = 0 /\ z.next_file = next_file_number_ /\ z.log_number = logfile_number_
      /\ z.last_sequence = last_sequence_ /\ a.add = live /\ z.add = edit /\ z.del = {} /\ a # TornEdit /\ z # TornEdit
  <2>1. a \in EditRecord /\ z \in EditRecord
    BY <1>3 DEF Edit, EditRecord
  <2>2. /\ a.next_file = 0 /\ z.next_file = next_file_number_ /\ z.log_number = logfile_number_
        /\ z.last_sequence = last_sequence_ /\ a.add = live /\ z.add = edit /\ z.del = {} /\ TornEdit.next_file = -1
    BY DEF Edit, TornEdit
  <2>3. a # TornEdit /\ z # TornEdit
    <3>1. a.next_file # -1 /\ z.next_file # -1
      BY <1>3, <2>2
    <3> QED
      BY <2>2, <3>1, ZenonT(30)
  <2> HIDE DEF a, z
  <2>4. q \in Seq(EditRecord) /\ Len(q) = 2 /\ q[1] = a /\ q[2] = z
    BY <2>1
  <2> QED
    BY <2>1, <2>2, <2>3, <2>4, ZenonT(30)
<1> HIDE DEF a, z, q, m
<1>8. Whole(q, 2) /\ Whole(q, Len(q)) /\ Established(q, 2) /\ 2 \in 0 .. Len(q) /\ Len(q) >= 1
  <2>1. \A i \in 1 .. 2 : i = 1 \/ i = 2
    OBVIOUS
  <2>2. Whole(q, 2)
    BY <1>7, <2>1, ZenonT(30) DEF Whole
  <2> QED
    BY <1>7, <2>2 DEF Established
<1>9. \A e \in Ends(q, 2) : e = 2
  BY <1>7, <1>8, WholeEnds, ZenonT(30)
<1>10. LiveAt(q, 2) = live \cup edit
  <2>1. ASSUME NEW n \in Nat PROVE n \in LiveAt(q, 2) <=> n \in live \cup edit
    <3>1. 1 \in 1 .. 2 /\ 2 \in 1 .. 2 /\ \A i \in 1 .. 2 : i = 1 \/ i = 2
      OBVIOUS
    <3>2. 2 + 1 .. 2 = {} /\ 1 + 1 .. 2 = {2}
      OBVIOUS
    <3> QED
      BY <1>7, <3>1, <3>2, ZenonT(30) DEF LiveAt
  <2> QED
    BY <1>3, <2>1, ZenonT(30) DEF LiveAt
<1>11. \A x \in (acked' \cup durable') \ exposed' : In(tables, live \cup edit, x)
  BY <1>2, <1>4, ContentsIn, ZenonT(30)
<1>12. DiskTypes'
  BY <1>1, <1>3, <1>4, <1>5, ZenonT(30) DEF DiskTypes
<1>13. CURRENT' # 0 /\ CURRENT' \in DOMAIN manifests' /\ manifests'[CURRENT'] = q /\ CurrentSynced' = 2
  <2>1. CURRENT < m /\ CURRENT \in Nat
    BY <1>1, ZenonT(30) DEF OpenInv, DiskTypes, m
  <2>2. m # 0
    BY <1>3, <2>1
  <2> QED
    BY <1>2, <1>4, <1>5, <2>2, ZenonT(30) DEF CurrentSynced
<1>14. DiskInv'
  <2>1. Secure(tables', InLogs', InSyncedLogs', q, 2, acked' \ exposed', durable' \ exposed', m)
    <3>1. Numbered(tables', q, 2, m)
      <4>1. ASSUME NEW n \in LiveAt(q, 2)
            PROVE  n \in DOMAIN tables' /\ n < q[2].next_file /\ \A x \in tables'[n] : x <= q[2].last_sequence
        <5>1. n \in DOMAIN tables /\ n \in Nat /\ (n < m \/ n < next_file_number_) /\ \A x \in tables[n] : x <= last_sequence_
          BY <1>2, <1>3, <1>10, ZenonT(30)
        <5>2. n < next_file_number_
          BY <1>2, <1>3, <5>1
        <5> QED
          BY <1>5, <1>7, <5>1, <5>2, ZenonT(30)
      <4> QED
        BY <1>2, <1>7, <4>1, ZenonT(30) DEF Numbered
    <3>2. q[2].next_file <= q[2].next_file
      BY <1>3, <1>7
    <3>3. \A x \in (acked' \cup durable') \ exposed' : In(tables', LiveAt(q, 2), x)
      BY <1>5, <1>10, <1>11, ZenonT(30)
    <3> QED
      BY <1>9, <3>1, <3>2, <3>3, ZenonT(30) DEF Secure, Found
  <2> QED
    BY <1>4, <1>8, <1>13, <2>1, ZenonT(30) DEF DiskInv
<1>15. ProcessTypes'
  BY <1>1, <1>3, <1>4, <1>5, ZenonT(30) DEF ProcessTypes
<1>16. IdleInv' /\ OpenInv' /\ NewFilesInv' /\ FlushInv' /\ ApplyInv' /\ MergeInv'
  BY <1>4, <1>5, <1>6, ZenonT(30) DEF IdleInv, OpenInv, NewFilesInv, FlushInv, ApplyInv, MergeInv
<1>17. MemoryInv'
  <2>1. logfile_number_ <= logfile_number_ /\ \A n \in live \cup edit : n < next_file_number_
    BY <1>2, <1>3
  <2> QED
    BY <1>2, <1>4, <1>5, <1>6, <1>11, <2>1, ZenonT(30) DEF MemoryInv
<1>18. VersionInv'
  <2>1. \A e \in CurrentEnds' : q[e].next_file <= next_file_number_'
    <3>1. next_file_number_ <= next_file_number_
      BY <1>3
    <3> QED
      BY <1>5, <1>7, <1>9, <1>13, <3>1, ZenonT(30) DEF CurrentEnds
  <2>2. logfile_number_ <= logfile_number_ /\ last_sequence_ <= last_sequence_
    BY <1>3
  <2>3. /\ Whole(q, Len(q)) /\ 2 = Len(q) /\ LiveAt(q, Len(q)) = live' /\ q[Len(q)].log_number = log_number_'
        /\ log_number_' <= q[Len(q)].log_number /\ q[Len(q)].last_sequence <= last_sequence_'
        /\ live' \subseteq LiveAt(q, Len(q))
    BY <1>4, <1>5, <1>7, <1>8, <1>10, <2>2, ZenonT(30)
  <2> QED
    BY <1>4, <1>5, <1>8, <1>13, <2>1, <2>3, ZenonT(30) DEF VersionInv, m
<1> QED
  BY <1>12, <1>14, <1>15, <1>16, <1>17, <1>18 DEF Inv, ProcessInv, RunningInv

-----------------------------------------------------------------------------
(* The steps of the open database.                                           *)

LEMMA OpenFacts ==
  ASSUME Inv, pc = "open"
  PROVE  /\ CURRENT \in DOMAIN manifests /\ CURRENT # 0 /\ CURRENT = manifest_file_number_
         /\ Manifest \in Seq(EditRecord) /\ CurrentSynced \in 0 .. Len(Manifest)
         /\ Len(Manifest) >= 1 /\ Established(Manifest, CurrentSynced)
         /\ Secure(tables, InLogs, InSyncedLogs, Manifest, CurrentSynced, acked \ exposed, durable \ exposed, CURRENT)
         /\ ~bg_error_ => \A e \in CurrentEnds : e = Len(Manifest)
         /\ logfile_number_ \in DOMAIN logs /\ logs[logfile_number_] \in Seq(LogRecord)
         /\ <<"log", logfile_number_>> \in DOMAIN synced /\ <<"manifest", CURRENT>> \in DOMAIN synced
         /\ synced[<<"log", logfile_number_>>] \in 0 .. Len(logs[logfile_number_])
<1>1. /\ CURRENT = manifest_file_number_ /\ CURRENT # 0 /\ Established(Manifest, CurrentSynced)
      /\ ~bg_error_ => Whole(Manifest, Len(Manifest)) /\ CurrentSynced = Len(Manifest)
      /\ logfile_number_ \in DOMAIN logs
  BY ZenonT(30) DEF Inv, RunningInv, VersionInv, MemoryInv, Manifest
<1>2. /\ CURRENT \in DOMAIN manifests
      /\ Secure(tables, InLogs, InSyncedLogs, Manifest, CurrentSynced, acked \ exposed, durable \ exposed, CURRENT)
  BY <1>1, ZenonT(30) DEF Inv, DiskInv, Manifest
<1>3. /\ Manifest \in Seq(EditRecord) /\ CurrentSynced \in 0 .. Len(Manifest) /\ <<"manifest", CURRENT>> \in DOMAIN synced
      /\ logs[logfile_number_] \in Seq(LogRecord) /\ <<"log", logfile_number_>> \in DOMAIN synced
      /\ synced[<<"log", logfile_number_>>] \in 0 .. Len(logs[logfile_number_])
  BY <1>1, <1>2, ZenonT(30) DEF Inv, DiskTypes, FileTypes, Manifest, CurrentSynced
<1>4. Len(Manifest) >= 1
  BY <1>1, <1>3 DEF Established
<1>5. ASSUME ~bg_error_, NEW e \in CurrentEnds PROVE e = Len(Manifest)
  <2>1. e \in Ends(Manifest, CurrentSynced)
    BY ZenonT(30) DEF CurrentEnds, Manifest
  <2> QED
    BY <1>1, <1>3, <1>4, <1>5, <2>1, WholeEnds, ZenonT(30)
<1> QED
  BY <1>1, <1>2, <1>3, <1>4, <1>5, ZenonT(30)

(* A record at the end of the log in use.                                    *)
LEMMA AppendLog ==
  ASSUME Inv, pc = "open", NEW x \in LogRecord,
         logs' = Put(logs, logfile_number_, Append(logs[logfile_number_], x)),
         \/ synced' = synced
         \/ synced' = Put(synced, <<"log", logfile_number_>>, Len(Append(logs[logfile_number_], x)))
  PROVE  /\ FileTypes("log", LogRecord, logs', synced') /\ FileTypes("manifest", EditRecord, manifests, synced')
         /\ DOMAIN logs' = DOMAIN logs /\ synced'[<<"manifest", CURRENT>>] = CurrentSynced
         /\ Grown(InLogs, InLogs') /\ Grown(InSyncedLogs, InSyncedLogs')
         /\ x # Torn /\ Torn \notin Records(logs[logfile_number_]) =>
              /\ x \in InLogs'[logfile_number_]
              /\ synced' = Put(synced, <<"log", logfile_number_>>, Len(Append(logs[logfile_number_], x))) =>
                   x \in InSyncedLogs'[logfile_number_]
<1> DEFINE n == logfile_number_
           l == logs[n]
           q == Append(l, x)
           U == Put(synced, <<"log", n>>, Len(q))
           S == synced'
<1>1. /\ n \in DOMAIN logs /\ l \in Seq(LogRecord) /\ <<"log", n>> \in DOMAIN synced /\ synced[<<"log", n>>] \in 0 .. Len(l)
      /\ <<"manifest", CURRENT>> \in DOMAIN synced
  BY OpenFacts, ZenonT(30)
<1>2. FileTypes("log", LogRecord, logs, synced) /\ FileTypes("manifest", EditRecord, manifests, synced)
  BY ZenonT(30) DEF Inv, DiskTypes
<1>3. /\ q \in Seq(LogRecord) /\ Len(q) = Len(l) + 1 /\ Len(l) \in Nat /\ q[Len(q)] = x
      /\ \A i \in 1 .. Len(l) : q[i] = l[i]
  BY <1>1
<1>4. logs' = Put(logs, n, q) /\ (S = synced \/ S = U)
  OBVIOUS
<1> HIDE DEF q
<1>5. /\ DOMAIN logs' = DOMAIN logs \cup {n} /\ logs'[n] = q
      /\ \A k \in DOMAIN logs : k # n => logs'[k] = logs[k]
  BY <1>4 DEF Put
<1>6. /\ \A f \in DOMAIN synced : f # <<"log", n>> => U[f] = synced[f]
      /\ U[<<"log", n>>] = Len(q)
  BY DEF Put
<1> HIDE DEF n, l, U
<1>7. Len(l) <= Len(q) /\ Len(q) \in 0 .. Len(q) /\ n \in Nat /\ "log" # "manifest"
  <2>1. n \in Nat
    BY <1>1, <1>2, ZenonT(30) DEF FileTypes
  <2> QED
    BY <1>3, <2>1
<1>8. FileTypes("log", LogRecord, logs', S)
  <2>1. FileTypes("log", LogRecord, Put(logs, n, q), synced)
    BY <1>1, <1>2, <1>3, <1>7, PutFileOnly, ZenonT(30) DEF l
  <2>2. FileTypes("log", LogRecord, Put(logs, n, q), Put(synced, <<"log", n>>, Len(q)))
    BY <1>2, <1>3, <1>7, PutFile, ZenonT(30)
  <2> QED
    BY <1>4, <2>1, <2>2, ZenonT(30) DEF U
<1>9. FileTypes("manifest", EditRecord, manifests, S)
  <2>1. FileTypes("manifest", EditRecord, manifests, Put(synced, <<"log", n>>, Len(q)))
    BY <1>2, <1>7, OtherFile, ZenonT(30)
  <2> QED
    BY <1>2, <1>4, <2>1, ZenonT(30) DEF U
<1>10. DOMAIN logs' = DOMAIN logs
  BY <1>1, <1>5, ZenonT(30)
<1>11. S[<<"manifest", CURRENT>>] = CurrentSynced
  <2>1. <<"manifest", CURRENT>> # <<"log", n>>
    OBVIOUS
  <2> QED
    BY <1>1, <1>4, <1>6, <2>1, ZenonT(30) DEF CurrentSynced
<1>12. GrownLogs(logs, synced, logs', S)
  <2> SUFFICES ASSUME NEW k \in DOMAIN logs
               PROVE  /\ k \in DOMAIN logs' /\ Len(logs[k]) <= Len(logs'[k])
                      /\ synced[<<"log", k>>] <= S[<<"log", k>>]
                      /\ SameTo(logs[k], logs'[k], Len(logs[k]))
    BY ZenonT(30) DEF GrownLogs
  <2>1. logs[k] \in Seq(LogRecord) /\ synced[<<"log", k>>] \in 0 .. Len(logs[k]) /\ <<"log", k>> \in DOMAIN synced
    BY <1>2, ZenonT(30) DEF FileTypes
  <2>2. CASE k = n
    <3>1. synced[<<"log", n>>] <= synced[<<"log", n>>] /\ synced[<<"log", n>>] <= Len(q)
      BY <1>1, <1>3
    <3>2. SameTo(l, q, Len(l))
      BY <1>3, ZenonT(30) DEF SameTo
    <3> QED
      BY <1>4, <1>5, <1>6, <1>7, <1>10, <2>2, <3>1, <3>2, ZenonT(30) DEF l
  <2>3. CASE k # n
    <3>1. <<"log", k>> # <<"log", n>>
      BY <2>3
    <3>2. S[<<"log", k>>] = synced[<<"log", k>>] /\ logs'[k] = logs[k]
      BY <1>4, <1>5, <1>6, <2>1, <2>3, <3>1, ZenonT(30)
    <3>3. Len(logs[k]) <= Len(logs[k]) /\ synced[<<"log", k>>] <= synced[<<"log", k>>]
      BY <2>1
    <3> QED
      BY <1>10, <3>2, <3>3, ZenonT(30) DEF SameTo
  <2> QED
    BY <2>2, <2>3
<1>13. Grown(InLogs, InLogs') /\ Grown(InSyncedLogs, InSyncedLogs')
  BY <1>2, <1>8, <1>12, GrownRead, ZenonT(30) DEF InLogs, InSyncedLogs
<1>14. ASSUME x # Torn, Torn \notin Records(l)
       PROVE  x \in InLogs'[n] /\ (S = U => x \in InSyncedLogs'[n])
  <2>1. InLogs'[n] = ReadOf(q, Len(q)) /\ InSyncedLogs'[n] = ReadOf(q, S[<<"log", n>>])
    BY <1>1, <1>5, <1>10, ZenonT(30) DEF InLogs, InSyncedLogs, LogsRead, SyncedRead
  <2>2. \A i \in 1 .. Len(l) : l[i] # Torn
    <3>1. DOMAIN l = 1 .. Len(l)
      BY <1>1
    <3> QED
      BY <1>14, <3>1, ZenonT(30) DEF Records
  <2>3. Len(q) \in 1 .. Len(q) /\ \A h \in 1 .. Len(q) : h = Len(q) \/ h \in 1 .. Len(l)
    BY <1>3
  <2>4. \A h \in 1 .. Len(q) : q[h] # Torn
    BY <1>3, <1>14, <2>2, <2>3, ZenonT(30)
  <2>5. x \in ReadOf(q, Len(q))
    BY <1>3, <2>3, <2>4, ReadOfIn, ZenonT(30)
  <2> QED
    BY <1>6, <2>1, <2>5, ZenonT(30)
<1> QED
  BY <1>8, <1>9, <1>10, <1>11, <1>13, <1>14, ZenonT(30) DEF n, l, q, U

LEMMA AppendStep ==
  ASSUME Inv, Running, ~bg_error_, last_sequence_ + 1 <= MaxSequence,
         NEW x \in {Torn, last_sequence_ + 1},
         logs' = Put(logs, logfile_number_, Append(logs[logfile_number_], x)),
         \/ synced' = synced
         \/ synced' = Put(synced, <<"log", logfile_number_>>, Len(Append(logs[logfile_number_], x))),
         last_sequence_' = last_sequence_ + 1,
         UNCHANGED <<CURRENT, manifests, tables, pc, bg, imm_, logfile_number_, log_number_>>,
         UNCHANGED <<manifest_file_number_, live, next_file_number_, replay, edit, merge, building>>,
         UNCHANGED <<record, bg_error_>>,
         mem_ \subseteq mem_', mem_' \subseteq mem_ \cup {last_sequence_ + 1},
         NEW fresh \in BOOLEAN,
         fresh => x # Torn /\ Torn \notin Records(logs[logfile_number_]) /\ x \in mem_',
         (mem_' \ exposed') \subseteq (mem_ \ exposed) \cup (IF fresh THEN {x} ELSE {}),
         (acked' \ exposed') \subseteq (acked \ exposed) \cup (IF fresh THEN {x} ELSE {}),
         \/ (durable' \ exposed') \subseteq (durable \ exposed)
         \/ /\ (durable' \ exposed') \subseteq (durable \ exposed) \cup (IF fresh THEN {x} ELSE {})
            /\ synced' = Put(synced, <<"log", logfile_number_>>, Len(Append(logs[logfile_number_], x)))
  PROVE  Inv'
<1> DEFINE n == logfile_number_
           y == last_sequence_ + 1
           S == synced'
<1>1. pc = "open" /\ x \in LogRecord /\ x \in Nat /\ y \in Nat /\ last_sequence_ <= y /\ last_sequence_ \in Nat
  <2>1. last_sequence_ \in Nat /\ pc = "open"
    BY ZenonT(30) DEF Inv, ProcessTypes, Running
  <2> QED
    BY <2>1, RecoveryAssumption DEF LogRecord, Torn
<1>2. /\ FileTypes("log", LogRecord, logs', synced') /\ FileTypes("manifest", EditRecord, manifests, synced')
      /\ DOMAIN logs' = DOMAIN logs /\ synced'[<<"manifest", CURRENT>>] = CurrentSynced
      /\ Grown(InLogs, InLogs') /\ Grown(InSyncedLogs, InSyncedLogs')
      /\ fresh => x \in InLogs'[n]
      /\ fresh /\ synced' = Put(synced, <<"log", n>>, Len(Append(logs[n], x))) => x \in InSyncedLogs'[n]
  BY <1>1, AppendLog, ZenonT(30)
<1> DEFINE added == IF fresh THEN {x} ELSE {}
<1>3. /\ \A z \in mem_' \ exposed' : z \in mem_ \ exposed \/ (fresh /\ z = x)
      /\ \A z \in acked' \ exposed' : z \in acked \ exposed \/ (fresh /\ z = x)
      /\ \A z \in durable' \ exposed' : z \in durable \ exposed \/ (fresh /\ z = x /\ x \in InSyncedLogs'[n])
      /\ fresh => x \in InLogs'[n] /\ x \in mem_'
  BY <1>2, ZenonT(30)
<1>4. /\ n \in DOMAIN logs /\ CURRENT \in DOMAIN manifests /\ CURRENT # 0 /\ Established(Manifest, CurrentSynced)
      /\ Manifest \in Seq(EditRecord) /\ CurrentSynced \in 0 .. Len(Manifest) /\ Len(Manifest) >= 1
      /\ \A e \in CurrentEnds : e = Len(Manifest)
  BY <1>1, OpenFacts, ZenonT(30)
<1>5. DOMAIN InLogs' = DOMAIN logs /\ DOMAIN InSyncedLogs' = DOMAIN logs /\ DOMAIN InLogs = DOMAIN logs /\ DOMAIN InSyncedLogs = DOMAIN logs
  BY <1>2, ZenonT(30) DEF InLogs, InSyncedLogs, LogsRead, SyncedRead
<1> HIDE DEF n, y
<1>6. DiskTypes'
  BY <1>2, ZenonT(30) DEF Inv, DiskTypes
<1>7. DiskInv'
  <2>1. KeepsTables(tables, tables', Manifest, CurrentSynced)
    BY ZenonT(30) DEF KeepsTables
  <2>2. \A e \in Ends(Manifest, CurrentSynced) : Manifest[e].log_number <= n
    <3>1. /\ log_number_ <= n /\ Manifest[Len(Manifest)].log_number = log_number_
      BY <1>1, ZenonT(30) DEF Inv, RunningInv, MemoryInv, VersionInv, Manifest, n
    <3> QED
      BY <1>4, <3>1, ZenonT(30) DEF CurrentEnds, Manifest
  <2>3. AddsFound(acked \ exposed, acked' \ exposed', tables', InLogs', Manifest, CurrentSynced)
    BY <1>3, <1>4, <1>5, <2>2, ZenonT(30) DEF AddsFound, Found
  <2>4. AddsFound(durable \ exposed, durable' \ exposed', tables', InSyncedLogs', Manifest, CurrentSynced)
    BY <1>3, <1>4, <1>5, <2>2, ZenonT(30) DEF AddsFound, Found
  <2>5. /\ CURRENT' = CURRENT /\ CURRENT \in DOMAIN manifests' /\ manifests'[CURRENT] = Manifest
        /\ pc' # "newdb" /\ DiskInv
    BY <1>1, <1>4, ZenonT(30) DEF Inv, Manifest
  <2> QED
    BY <1>2, <1>4, <2>1, <2>3, <2>4, <2>5, DiskStep, ZenonT(30)
<1>8. ProcessTypes'
  <2>1. mem_' \subseteq Nat
    BY <1>1, ZenonT(30) DEF Inv, ProcessTypes, y
  <2> QED
    BY <1>1, <1>2, <2>1, ZenonT(30) DEF Inv, ProcessTypes, y
<1>9. IdleInv' /\ OpenInv' /\ NewFilesInv'
  BY <1>1, ZenonT(30) DEF IdleInv, OpenInv, NewFilesInv
<1>10. \A z \in Nat : z <= last_sequence_ => z <= last_sequence_'
  BY <1>1 DEF y
<1>11. TableTypes(tables) /\ mem_ \subseteq Nat /\ imm_ \subseteq Nat
  BY ZenonT(30) DEF Inv, DiskTypes, ProcessTypes
<1>12. MemoryInv'
  <2>1. /\ \A k \in DOMAIN logs : k <= n
        /\ n < next_file_number_ /\ log_number_ <= n
        /\ \A k \in live : k \in DOMAIN tables /\ k < next_file_number_ /\ \A z \in tables[k] : z <= last_sequence_
        /\ \A z \in mem_ \cup imm_ : z <= last_sequence_
        /\ \A z \in (acked \cup durable) \ exposed : In(tables, live, z) \/ z \in mem_ \cup imm_
        /\ \A z \in mem_ \ exposed : In(tables, live, z) \/ z \in InLogs[n]
        /\ replay = {}
        /\ \A z \in durable \ exposed : In(tables, live, z) \/ z \in imm_ \cup InSyncedLogs[n]
    BY <1>1, ZenonT(30) DEF Inv, RunningInv, MemoryInv, n
  <2>2. \A k \in live : \A z \in tables[k] : z <= last_sequence_'
    BY <1>10, <1>11, <2>1, ZenonT(30) DEF TableTypes
  <2>3. \A z \in mem_' \cup imm_ : z <= last_sequence_'
    <3>1. y <= last_sequence_'
      BY <1>1 DEF y
    <3> QED
      BY <1>10, <1>11, <2>1, <3>1, ZenonT(30) DEF y
  <2>4. \A z \in (acked' \cup durable') \ exposed' : In(tables, live, z) \/ z \in mem_' \cup imm_
    BY <1>3, <2>1, ZenonT(30)
  <2>5. InLogs[n] \subseteq InLogs'[n] /\ InSyncedLogs[n] \subseteq InSyncedLogs'[n]
    BY <1>2, <1>4, <1>5, ZenonT(30) DEF Grown
  <2>6. \A z \in mem_' \ exposed' : In(tables, live, z) \/ z \in InLogs'[n]
    BY <1>3, <2>1, <2>5, ZenonT(30)
  <2>7. \A z \in durable' \ exposed' : In(tables, live, z) \/ z \in imm_ \cup InSyncedLogs'[n]
    BY <1>3, <2>1, <2>5, ZenonT(30)
  <2> QED
    BY <1>2, <1>4, <2>1, <2>2, <2>3, <2>4, <2>6, <2>7, ZenonT(30) DEF MemoryInv, n
<1>13. CurrentSynced' = CurrentSynced /\ CurrentEnds' = CurrentEnds /\ Stuck' = Stuck
  BY <1>2, ZenonT(30) DEF CurrentEnds, CurrentSynced, Stuck
<1>14. VersionInv'
  <2>1. Manifest[Len(Manifest)].last_sequence \in Nat
    <3>1. Manifest[Len(Manifest)] \in EditRecord
      BY <1>4
    <3> QED
      BY <3>1 DEF EditRecord
  <2> QED
    BY <1>1, <1>10, <1>13, <2>1, ZenonT(30) DEF Inv, RunningInv, VersionInv, Manifest
<1>15. MergeInv'
  BY <1>1, <1>10, <1>11, ZenonT(30) DEF Inv, RunningInv, MergeInv, TableTypes
<1>16. FlushInv'
  BY <1>1, <1>13, ZenonT(30) DEF Inv, RunningInv, FlushInv
<1>17. ApplyInv'
  <2>1. record.last_sequence \in Nat
    BY DEF Inv, ProcessTypes, EditRecord
  <2> QED
    BY <1>1, <1>10, <1>13, <2>1, ZenonT(30) DEF Inv, RunningInv, ApplyInv
<1> QED
  BY <1>6, <1>7, <1>8, <1>9, <1>12, <1>14, <1>15, <1>16, <1>17 DEF Inv, ProcessInv, RunningInv

LEMMA WriteStep == ASSUME Inv, NEW sync \in BOOLEAN, Write(sync) PROVE Inv'
<1> DEFINE x == last_sequence_ + 1
           torn == Torn \in Records(logs[logfile_number_])
           q == Append(logs[logfile_number_], x)
<1>1. last_sequence_ \in Nat /\ x # Torn
  <2>1. last_sequence_ \in Nat
    BY DEF Inv, ProcessTypes
  <2> QED
    BY <2>1 DEF Torn
<1>2. /\ Running /\ ~bg_error_ /\ x <= MaxSequence
      /\ logs' = Put(logs, logfile_number_, q) /\ synced' = Synced(sync, q)
      /\ mem_' = mem_ \cup {x} /\ last_sequence_' = x
      /\ acked' = acked \cup {x} /\ durable' = IF sync THEN durable \cup {x} ELSE durable
      /\ exposed' = IF torn THEN exposed \cup {x} ELSE exposed
      /\ UNCHANGED <<CURRENT, manifests, tables, pc, bg, imm_, logfile_number_, log_number_>>
      /\ UNCHANGED <<manifest_file_number_, live, next_file_number_, replay, edit, merge, building>>
      /\ UNCHANGED <<record, bg_error_>>
  BY ZenonT(30) DEF Write, versionVars, openVars, jobVars
<1>3. synced' = synced \/ synced' = Put(synced, <<"log", logfile_number_>>, Len(q))
  BY <1>2 DEF Synced
<1>4. sync => synced' = Put(synced, <<"log", logfile_number_>>, Len(q))
  BY <1>2 DEF Synced
<1> HIDE DEF x, torn
<1>5. /\ (mem_' \ exposed') \subseteq (mem_ \ exposed) \cup (IF ~torn THEN {x} ELSE {})
      /\ (acked' \ exposed') \subseteq (acked \ exposed) \cup (IF ~torn THEN {x} ELSE {})
      /\ (durable' \ exposed') \subseteq (durable \ exposed) \cup (IF ~torn THEN {x} ELSE {})
      /\ ~sync => (durable' \ exposed') \subseteq (durable \ exposed)
  BY <1>2, ZenonT(30)
<1>6. (~torn) \in BOOLEAN /\ x \in mem_' /\ mem_ \subseteq mem_' /\ mem_' \subseteq mem_ \cup {x}
      /\ (~torn => x # Torn /\ Torn \notin Records(logs[logfile_number_]))
  BY <1>1, <1>2, ZenonT(30) DEF torn
<1> QED
  BY <1>2, <1>3, <1>4, <1>5, <1>6, AppendStep, ZenonT(30) DEF x

LEMMA AppendFailsStep == ASSUME Inv, AppendFails PROVE Inv'
<1>1. PICK x \in {Torn, last_sequence_ + 1} :
        logs' = Put(logs, logfile_number_, Append(logs[logfile_number_], x))
  BY ZenonT(30) DEF AppendFails
<1>2. /\ Running /\ ~bg_error_ /\ last_sequence_ + 1 <= MaxSequence /\ last_sequence_' = last_sequence_ + 1
      /\ UNCHANGED <<CURRENT, manifests, tables, pc, bg, imm_, logfile_number_, log_number_>>
      /\ UNCHANGED <<manifest_file_number_, live, next_file_number_, replay, edit, merge, building>>
      /\ UNCHANGED <<record, bg_error_, synced, mem_, acked, durable, exposed>>
  BY ZenonT(30) DEF AppendFails, memVars, versionVars, openVars, jobVars, historyVars
<1>3. /\ FALSE \in BOOLEAN /\ mem_ \subseteq mem_' /\ mem_' \subseteq mem_ \cup {last_sequence_ + 1}
      /\ (mem_' \ exposed') \subseteq (mem_ \ exposed) \cup (IF FALSE THEN {x} ELSE {})
      /\ (acked' \ exposed') \subseteq (acked \ exposed) \cup (IF FALSE THEN {x} ELSE {})
      /\ (durable' \ exposed') \subseteq (durable \ exposed)
  BY <1>2, ZenonT(30)
<1> QED
  BY <1>1, <1>2, <1>3, AppendStep, ZenonT(30)

LEMMA SwitchMemTableStep == ASSUME Inv, SwitchMemTable PROVE Inv'
<1> DEFINE b == next_file_number_
<1>1. /\ pc = "open" /\ ~bg_error_ /\ imm_ = {} /\ logs' = Put(logs, b, <<>>) /\ synced' = Put(synced, <<"log", b>>, 0)
      /\ logfile_number_' = b /\ next_file_number_' = b + 1 /\ imm_' = mem_ /\ mem_' = {}
  BY ZenonT(30) DEF SwitchMemTable, Running
<1>2. /\ UNCHANGED <<CURRENT, manifests, tables, pc, bg, log_number_, manifest_file_number_, live>>
      /\ UNCHANGED <<last_sequence_, replay, edit, merge, building, record, bg_error_, acked, durable, exposed>>
  BY ZenonT(30) DEF SwitchMemTable, versionVars, openVars, jobVars, historyVars
<1>3. /\ \A k \in DOMAIN logs : k <= logfile_number_
      /\ logfile_number_ < b /\ log_number_ <= logfile_number_ /\ replay = {}
      /\ \A k \in live : k \in DOMAIN tables /\ k < b /\ \A z \in tables[k] : z <= last_sequence_
      /\ \A z \in mem_ \cup imm_ : z <= last_sequence_
      /\ \A z \in (acked \cup durable) \ exposed : In(tables, live, z) \/ z \in mem_ \cup imm_
  BY <1>1, ZenonT(30) DEF Inv, RunningInv, MemoryInv
<1>4. b \in Nat /\ logfile_number_ \in Nat /\ log_number_ \in Nat /\ live \subseteq Nat /\ DiskTypes /\ DiskInv
      /\ replay \subseteq DOMAIN logs
  BY ZenonT(30) DEF Inv, ProcessTypes
<1>5. CURRENT \in DOMAIN manifests /\ CURRENT # 0
  BY <1>1, OpenFacts, ZenonT(30)
<1> HIDE DEF b
<1>6. \A k \in DOMAIN logs : k \in Nat /\ k # b
  <2>1. \A k \in DOMAIN logs : k \in Nat
    BY <1>4, ZenonT(30) DEF DiskTypes, FileTypes
  <2> QED
    BY <1>3, <1>4, <2>1
<1>7. /\ DOMAIN logs' = DOMAIN logs \cup {b} /\ logs'[b] = <<>>
      /\ FileTypes("log", LogRecord, logs', synced') /\ FileTypes("manifest", EditRecord, manifests, synced')
      /\ synced'[<<"manifest", CURRENT>>] = CurrentSynced
      /\ Grown(InLogs, InLogs') /\ Grown(InSyncedLogs, InSyncedLogs')
  BY <1>1, <1>4, <1>5, <1>6, NewLogFile, ZenonT(30)
<1>8. DiskTypes'
  BY <1>2, <1>4, <1>7, ZenonT(30) DEF DiskTypes
<1>9. DiskInv'
  <2>1. KeepsTables(tables, tables', Manifest, CurrentSynced)
    BY <1>2, ZenonT(30) DEF KeepsTables
  <2>2. /\ AddsFound(acked \ exposed, acked' \ exposed', tables', InLogs', Manifest, CurrentSynced)
        /\ AddsFound(durable \ exposed, durable' \ exposed', tables', InSyncedLogs', Manifest, CurrentSynced)
    BY <1>2, ZenonT(30) DEF AddsFound
  <2>3. /\ CURRENT' = CURRENT /\ CURRENT \in DOMAIN manifests' /\ manifests'[CURRENT] = Manifest
        /\ acked' = acked /\ durable' = durable /\ pc' # "newdb"
    BY <1>1, <1>2, <1>5, ZenonT(30) DEF Manifest
  <2> QED
    BY <1>4, <1>5, <1>7, <2>1, <2>2, <2>3, DiskStep, ZenonT(30)
<1>10. /\ next_file_number_' \in Nat /\ b < next_file_number_' /\ log_number_ <= b
       /\ \A k \in DOMAIN logs' : k <= b
       /\ \A k \in Int : (k < b => k < next_file_number_') /\ (k <= b => k <= next_file_number_')
  BY <1>1, <1>3, <1>4, <1>6, <1>7
<1>11. ProcessTypes'
  BY <1>1, <1>2, <1>4, <1>7, <1>10, ZenonT(30) DEF Inv, ProcessTypes
<1>12. IdleInv' /\ OpenInv' /\ NewFilesInv'
  BY <1>1, <1>2, ZenonT(30) DEF IdleInv, OpenInv, NewFilesInv
<1>13. CurrentSynced' = CurrentSynced /\ CurrentEnds' = CurrentEnds /\ Stuck' = Stuck
  BY <1>2, <1>7, ZenonT(30) DEF CurrentEnds, CurrentSynced, Stuck
<1>14. \A e \in CurrentEnds : Manifest[e].next_file \in Int
  BY <1>1, OpenFacts, EndIs, ZenonT(30) DEF CurrentEnds, Manifest
<1>15. \A k \in Nat : k \in Int
  OBVIOUS
<1>16. MemoryInv'
  BY <1>1, <1>2, <1>3, <1>4, <1>7, <1>10, <1>15, ZenonT(30) DEF MemoryInv
<1>17. VersionInv'
  BY <1>1, <1>2, <1>10, <1>13, <1>14, ZenonT(30) DEF Inv, RunningInv, VersionInv, Manifest, b
<1>18. MergeInv'
  <2>1. merge.number \in Int /\ merge.inputs \subseteq Int
    BY DEF Inv, ProcessTypes
  <2> QED
    BY <1>1, <1>2, <1>10, <2>1, ZenonT(30) DEF Inv, RunningInv, MergeInv, b
<1>19. FlushInv'
  BY <1>1, <1>2, ZenonT(30) DEF Inv, RunningInv, FlushInv
<1>20. ApplyInv'
  <2>1. record.next_file \in Int
    BY DEF Inv, ProcessTypes, EditRecord
  <2> QED
    BY <1>1, <1>2, <1>10, <1>13, <2>1, ZenonT(30) DEF Inv, RunningInv, ApplyInv, b
<1> QED
  BY <1>8, <1>9, <1>11, <1>12, <1>16, <1>17, <1>18, <1>19, <1>20 DEF Inv, ProcessInv, RunningInv

LEMMA CompactMemTableStep == ASSUME Inv, CompactMemTable PROVE Inv'
<1> DEFINE b == next_file_number_
<1>1. /\ pc = "open" /\ bg = "idle" /\ imm_ # {} /\ (~bg_error_ \/ merge # NoMerge)
      /\ building' = b /\ next_file_number_' = b + 1 /\ bg' = "build"
  BY ZenonT(30) DEF CompactMemTable, Running
<1>2. /\ UNCHANGED diskVars
      /\ UNCHANGED <<pc, mem_, imm_, logfile_number_, log_number_, manifest_file_number_, live>>
      /\ UNCHANGED <<last_sequence_, replay, edit, merge, record, bg_error_, acked, durable, exposed>>
  BY ZenonT(30) DEF CompactMemTable, memVars, versionVars, openVars, historyVars
<1>3. b \in Nat /\ logfile_number_ \in Nat /\ logfile_number_ < b /\ live \subseteq Nat
      /\ \A k \in live : k < b
  BY <1>1, ZenonT(30) DEF Inv, ProcessTypes, RunningInv, MemoryInv
<1>4. \A e \in CurrentEnds : Manifest[e].next_file \in Int /\ Manifest[e].next_file <= b
  <2>1. \A e \in CurrentEnds : Manifest[e].next_file \in Int
    BY <1>1, OpenFacts, EndIs, ZenonT(30) DEF CurrentEnds, Manifest
  <2> QED
    BY <1>1, <2>1, ZenonT(30) DEF Inv, RunningInv, VersionInv, Manifest
<1> HIDE DEF b
<1>5. /\ next_file_number_' \in Nat /\ b < next_file_number_' /\ b # 0 /\ 0 < b
      /\ \A k \in Int : (k < b => k < next_file_number_') /\ (k <= b => k <= next_file_number_')
  BY <1>1, <1>3
<1>6. DiskTypes' /\ DiskInv'
  <2>1. DiskTypes /\ DiskInv /\ CURRENT # 0
    BY <1>1, OpenFacts, ZenonT(30) DEF Inv
  <2> QED
    BY <1>1, <1>2, <2>1, SameDisk, ZenonT(30)
<1>7. ProcessTypes'
  BY <1>1, <1>2, <1>3, <1>5, ZenonT(30) DEF Inv, ProcessTypes, diskVars
<1>8. IdleInv' /\ OpenInv' /\ NewFilesInv'
  BY <1>1, <1>2, ZenonT(30) DEF IdleInv, OpenInv, NewFilesInv
<1>9. CurrentSynced' = CurrentSynced /\ CurrentEnds' = CurrentEnds /\ InLogs' = InLogs /\ InSyncedLogs' = InSyncedLogs
  BY <1>2, ZenonT(30) DEF CurrentEnds, CurrentSynced, InLogs, InSyncedLogs, diskVars
<1>10. \A k \in Nat : k \in Int
  OBVIOUS
<1>11. MemoryInv'
  BY <1>1, <1>2, <1>3, <1>5, <1>9, <1>10, ZenonT(30) DEF Inv, RunningInv, MemoryInv, b, diskVars
<1>12. VersionInv'
  <2>1. ~Stuck
    BY <1>1, ZenonT(30) DEF Stuck
  <2> QED
    BY <1>1, <1>2, <1>4, <1>5, <1>9, <2>1, ZenonT(30) DEF Inv, RunningInv, VersionInv, Manifest, diskVars
<1>13. merge.number \in Int /\ merge.inputs \subseteq Int
  BY DEF Inv, ProcessTypes
<1>14. MergeInv'
  BY <1>1, <1>2, <1>5, <1>13, ZenonT(30) DEF Inv, RunningInv, MergeInv, b, diskVars
<1>15. FlushInv'
  <2>1. \A k \in live \cup {merge.number} \cup merge.inputs : k < b
    <3>1. merge = NoMerge => merge.number = 0 /\ merge.inputs = {}
      BY DEF NoMerge
    <3> QED
      BY <1>1, <1>3, <1>5, <3>1, ZenonT(30) DEF Inv, RunningInv, MergeInv, b
  <2> QED
    BY <1>1, <1>2, <1>4, <1>5, <1>9, <2>1, ZenonT(30) DEF FlushInv, Manifest, diskVars
<1>16. ApplyInv'
  BY <1>1, ZenonT(30) DEF ApplyInv
<1> QED
  BY <1>6, <1>7, <1>8, <1>11, <1>12, <1>14, <1>15, <1>16 DEF Inv, ProcessInv, RunningInv

(* A table of a flush or a compaction, with a new number.                    *)
LEMMA NewTable ==
  ASSUME Inv, pc = "open", NEW b \in Nat, NEW v \in SUBSET Nat, tables' = Put(tables, b, v),
         \A e \in CurrentEnds : Manifest[e].next_file <= b,
         UNCHANGED <<CURRENT, manifests, logs, synced, pc, acked, durable, exposed>>
  PROVE  /\ DiskTypes' /\ DiskInv' /\ b \in DOMAIN tables' /\ tables'[b] = v
         /\ \A k \in DOMAIN tables : k # b => k \in DOMAIN tables' /\ tables'[k] = tables[k]
         /\ CurrentSynced' = CurrentSynced /\ CurrentEnds' = CurrentEnds
         /\ InLogs' = InLogs /\ InSyncedLogs' = InSyncedLogs
<1>1. /\ b \in DOMAIN tables' /\ tables'[b] = v
      /\ \A k \in DOMAIN tables : k # b => k \in DOMAIN tables' /\ tables'[k] = tables[k]
  BY DEF Put
<1>2. TableTypes(tables) /\ DiskInv
  BY ZenonT(30) DEF Inv, DiskTypes
<1>3. DiskTypes'
  <2>1. TableTypes(tables')
    BY <1>2, PutTable, ZenonT(30)
  <2> QED
    BY <2>1, ZenonT(30) DEF Inv, DiskTypes
<1>4. CurrentSynced' = CurrentSynced /\ CurrentEnds' = CurrentEnds /\ InLogs' = InLogs /\ InSyncedLogs' = InSyncedLogs
  BY ZenonT(30) DEF CurrentEnds, CurrentSynced, InLogs, InSyncedLogs
<1>5. /\ CURRENT # 0 /\ CURRENT \in DOMAIN manifests /\ Manifest \in Seq(EditRecord)
      /\ Secure(tables, InLogs, InSyncedLogs, Manifest, CurrentSynced, acked \ exposed, durable \ exposed, CURRENT)
  BY OpenFacts, ZenonT(30)
<1>6. KeepsTables(tables, tables', Manifest, CurrentSynced)
  <2>1. \A e \in Ends(Manifest, CurrentSynced) : Manifest[e].next_file <= b
    BY ZenonT(30) DEF CurrentEnds, Manifest
  <2> QED
    BY <1>2, <1>5, <2>1, FreshTable, ZenonT(30)
<1>7. DiskInv'
  <2>1. /\ AddsFound(acked \ exposed, acked' \ exposed', tables', InLogs', Manifest, CurrentSynced)
        /\ AddsFound(durable \ exposed, durable' \ exposed', tables', InSyncedLogs', Manifest, CurrentSynced)
    BY ZenonT(30) DEF AddsFound
  <2>2. Grown(InLogs, InLogs') /\ Grown(InSyncedLogs, InSyncedLogs')
    BY <1>4, ZenonT(30) DEF Grown
  <2>3. /\ CURRENT' = CURRENT /\ CURRENT \in DOMAIN manifests' /\ manifests'[CURRENT] = Manifest
        /\ acked' = acked /\ durable' = durable /\ pc' # "newdb" /\ synced'[<<"manifest", CURRENT>>] = CurrentSynced
    BY <1>5, ZenonT(30) DEF Manifest, CurrentSynced
  <2> QED
    BY <1>2, <1>5, <1>6, <2>1, <2>2, <2>3, DiskStep, ZenonT(30)
<1> QED
  BY <1>1, <1>3, <1>4, <1>7

LEMMA EditIs ==
  ASSUME NEW l \in Nat, NEW n \in Int, NEW z \in Nat, NEW A \in SUBSET Nat, NEW D \in SUBSET Nat
  PROVE  /\ Edit(l, n, z, A, D) \in EditRecord
         /\ Edit(l, n, z, A, D).log_number = l /\ Edit(l, n, z, A, D).next_file = n
         /\ Edit(l, n, z, A, D).last_sequence = z
         /\ Edit(l, n, z, A, D).add = A /\ Edit(l, n, z, A, D).del = D
BY DEF Edit, EditRecord

LEMMA CompactMemTableBuiltStep == ASSUME Inv, CompactMemTableBuilt PROVE Inv'
<1> DEFINE b == building
<1>1. pc = "open" /\ bg = "build" /\ bg' = "write" /\ tables' = Put(tables, b, imm_)
      /\ record' = Edit(logfile_number_, next_file_number_, last_sequence_, {b}, {})
  <2>1. pc = "open"
    BY ZenonT(30) DEF CompactMemTableBuilt, Inv, ProcessInv, IdleInv
  <2> QED
    BY <2>1, ZenonT(30) DEF CompactMemTableBuilt, FlushLogNumber
<1>2. /\ UNCHANGED <<CURRENT, manifests, logs, synced, pc, mem_, imm_, logfile_number_, log_number_>>
      /\ UNCHANGED <<manifest_file_number_, live, next_file_number_, last_sequence_, replay, edit, merge, building>>
      /\ UNCHANGED <<bg_error_, acked, durable, exposed>>
  BY ZenonT(30) DEF CompactMemTableBuilt, memVars, versionVars, openVars, historyVars
<1>3. /\ imm_ # {} /\ b < next_file_number_ /\ b # 0
      /\ \A e \in CurrentEnds : Manifest[e].next_file <= b
      /\ \A n \in live \cup {merge.number} \cup merge.inputs : n < b
  BY <1>1, ZenonT(30) DEF Inv, RunningInv, FlushInv, Manifest
<1>4. /\ b \in Nat /\ imm_ \in SUBSET Nat /\ live \subseteq Nat /\ next_file_number_ \in Nat /\ last_sequence_ \in Nat
      /\ logfile_number_ \in Nat /\ merge \in [number : Nat, inputs : SUBSET Nat]
  BY ZenonT(30) DEF Inv, ProcessTypes
<1> HIDE DEF b
<1>5. /\ DiskTypes' /\ DiskInv' /\ b \in DOMAIN tables' /\ tables'[b] = imm_
      /\ \A k \in DOMAIN tables : k # b => k \in DOMAIN tables' /\ tables'[k] = tables[k]
      /\ CurrentSynced' = CurrentSynced /\ CurrentEnds' = CurrentEnds
      /\ InLogs' = InLogs /\ InSyncedLogs' = InSyncedLogs
  BY <1>1, <1>2, <1>3, <1>4, NewTable, ZenonT(30)
<1>6. \A n \in live \cup {merge.number} \cup merge.inputs : n # b /\ n \in Nat
  <2>1. merge.number \in Nat /\ merge.inputs \subseteq Nat
    BY <1>4
  <2>2. ASSUME NEW n \in live \cup {merge.number} \cup merge.inputs PROVE n # b /\ n \in Nat
    <3>1. n \in Nat /\ n < b
      BY <1>3, <1>4, <2>1, ZenonT(30)
    <3> QED
      BY <1>4, <3>1
  <2> QED
    BY <2>2
<1>7. /\ record'.log_number = logfile_number_ /\ record'.next_file = next_file_number_ /\ record' \in EditRecord
      /\ record'.last_sequence = last_sequence_ /\ record'.add = {b} /\ record'.del = {}
  <2>1. {b} \in SUBSET Nat /\ {} \in SUBSET Nat /\ next_file_number_ \in Int
    BY <1>4
  <2> DEFINE z == Edit(logfile_number_, next_file_number_, last_sequence_, {b}, {})
  <2>2. /\ z \in EditRecord /\ z.log_number = logfile_number_ /\ z.next_file = next_file_number_
        /\ z.last_sequence = last_sequence_ /\ z.add = {b} /\ z.del = {}
    BY <1>4, <2>1, EditIs
  <2> QED
    BY <1>1, <2>2, ZenonT(30)
<1>8. ProcessTypes'
  BY <1>1, <1>2, <1>4, <1>7, ZenonT(30) DEF Inv, ProcessTypes
<1>9. IdleInv' /\ OpenInv' /\ NewFilesInv'
  BY <1>1, <1>2, ZenonT(30) DEF IdleInv, OpenInv, NewFilesInv
<1>10. \A x : In(tables, live, x) => In(tables', live, x)
  BY <1>5, <1>6, ZenonT(30) DEF In
<1>11. \A x : In(tables', merge.inputs, x) => In(tables, merge.inputs, x) \/ merge = NoMerge
  <2>1. DOMAIN tables' = DOMAIN tables \cup {b}
    BY <1>1 DEF Put
  <2> QED
    BY <1>5, <1>6, <2>1, ZenonT(30) DEF In
<1>12. MemoryInv'
  BY <1>1, <1>2, <1>5, <1>6, <1>10, ZenonT(30) DEF Inv, RunningInv, MemoryInv
<1>13. VersionInv'
  BY <1>1, <1>2, <1>5, ZenonT(30) DEF Inv, RunningInv, VersionInv, Stuck
<1>14. MergeInv'
  BY <1>1, <1>2, <1>5, <1>6, <1>11, ZenonT(30) DEF Inv, RunningInv, MergeInv
<1>15. FlushInv'
  BY <1>1, ZenonT(30) DEF FlushInv
<1>16. ApplyInv'
  <2>1. next_file_number_ <= next_file_number_ /\ last_sequence_ <= last_sequence_
    BY <1>4
  <2>2. logfile_number_ < next_file_number_ /\ \A x \in imm_ : x <= last_sequence_
    BY <1>1, ZenonT(30) DEF Inv, RunningInv, MemoryInv
  <2>3. \A e \in CurrentEnds : Manifest[e].next_file <= next_file_number_
    BY <1>1, ZenonT(30) DEF Inv, RunningInv, VersionInv, Manifest
  <2>4. Whole(Manifest, Len(Manifest)) => Manifest[Len(Manifest)].last_sequence <= last_sequence_
    BY <1>1, ZenonT(30) DEF Inv, RunningInv, VersionInv, Manifest
  <2> QED
    BY <1>1, <1>2, <1>3, <1>5, <1>7, <2>1, <2>2, <2>3, <2>4, ZenonT(30) DEF ApplyInv, Manifest, b
<1> QED
  BY <1>5, <1>8, <1>9, <1>12, <1>13, <1>14, <1>15, <1>16 DEF Inv, ProcessInv, RunningInv

LEMMA DoCompactionWorkStep == ASSUME Inv, DoCompactionWork PROVE Inv'
<1> DEFINE b == next_file_number_
<1>1. PICK inputs \in (SUBSET live) \ {{}} :
        /\ merge' = [number |-> b, inputs |-> inputs]
        /\ tables' = Put(tables, b, Contents(inputs))
  BY ZenonT(30) DEF DoCompactionWork
<1>2. pc = "open" /\ bg = "idle" /\ merge = NoMerge /\ imm_ = {} /\ ~bg_error_ /\ next_file_number_' = b + 1
  BY ZenonT(30) DEF DoCompactionWork, Running
<1>3. /\ UNCHANGED <<CURRENT, manifests, logs, synced, pc, bg, mem_, imm_, logfile_number_, log_number_>>
      /\ UNCHANGED <<manifest_file_number_, live, last_sequence_, replay, edit, building, record>>
      /\ UNCHANGED <<bg_error_, acked, durable, exposed>>
  BY ZenonT(30) DEF DoCompactionWork, memVars, versionVars, openVars, historyVars
<1>4. /\ b \in Nat /\ live \subseteq Nat /\ logfile_number_ \in Nat /\ TableTypes(tables) /\ inputs \subseteq live /\ inputs # {}
  BY ZenonT(30) DEF Inv, DiskTypes, ProcessTypes
<1>5. /\ logfile_number_ < b
      /\ \A k \in live : k \in DOMAIN tables /\ k < b /\ \A z \in tables[k] : z <= last_sequence_
  BY <1>2, ZenonT(30) DEF Inv, RunningInv, MemoryInv
<1>6. Contents(inputs) \in SUBSET Nat /\ \A x \in Contents(inputs) : x <= last_sequence_
  <2>1. ASSUME NEW x \in Contents(inputs) PROVE x \in Nat /\ x <= last_sequence_
    <3>1. PICK k \in inputs : k \in DOMAIN tables /\ x \in tables[k]
      BY ContentsIn, ZenonT(30) DEF In
    <3> QED
      BY <1>4, <1>5, <3>1, ZenonT(30) DEF TableTypes
  <2> QED
    BY <2>1, ZenonT(30)
<1>7. \A e \in CurrentEnds : Manifest[e].next_file \in Int /\ Manifest[e].next_file <= b
  <2>1. \A e \in CurrentEnds : Manifest[e].next_file \in Int
    BY <1>2, OpenFacts, EndIs, ZenonT(30) DEF CurrentEnds, Manifest
  <2> QED
    BY <1>2, <2>1, ZenonT(30) DEF Inv, RunningInv, VersionInv, Manifest
<1> HIDE DEF b
<1>8. /\ DiskTypes' /\ DiskInv' /\ b \in DOMAIN tables' /\ tables'[b] = Contents(inputs)
      /\ \A k \in DOMAIN tables : k # b => k \in DOMAIN tables' /\ tables'[k] = tables[k]
      /\ CurrentSynced' = CurrentSynced /\ CurrentEnds' = CurrentEnds
      /\ InLogs' = InLogs /\ InSyncedLogs' = InSyncedLogs
  BY <1>1, <1>2, <1>3, <1>4, <1>6, <1>7, NewTable, ZenonT(30)
<1>9. /\ next_file_number_' \in Nat /\ b < next_file_number_' /\ b # 0
      /\ \A k \in Int : (k < b => k < next_file_number_') /\ (k <= b => k <= next_file_number_')
      /\ \A k \in live : k # b /\ k \in Int
  BY <1>2, <1>4, <1>5
<1>10. merge'.number = b /\ merge'.inputs = inputs /\ merge' \in [number : Nat, inputs : SUBSET Nat]
  <2>1. inputs \subseteq Nat
    BY <1>4, ZenonT(30)
  <2> QED
    BY <1>1, <1>4, <2>1
<1>11. ProcessTypes'
  BY <1>2, <1>3, <1>9, <1>10, ZenonT(30) DEF Inv, ProcessTypes
<1>12. IdleInv' /\ OpenInv' /\ NewFilesInv'
  BY <1>2, <1>3, ZenonT(30) DEF IdleInv, OpenInv, NewFilesInv
<1>13. \A x : In(tables, live, x) => In(tables', live, x)
  BY <1>8, <1>9, ZenonT(30) DEF In
<1>14. \A x : In(tables', inputs, x) => x \in Contents(inputs)
  <2>1. ASSUME NEW x, In(tables', inputs, x) PROVE In(tables, inputs, x)
    <3>1. PICK k \in inputs : k \in DOMAIN tables' /\ x \in tables'[k]
      BY <2>1, ZenonT(30) DEF In
    <3>2. k \in DOMAIN tables /\ tables'[k] = tables[k]
      BY <1>4, <1>5, <1>8, <1>9, ZenonT(30)
    <3> QED
      BY <3>1, <3>2, ZenonT(30) DEF In
  <2> QED
    BY <2>1, ContentsIn, ZenonT(30)
<1>15. MemoryInv'
  <2>1. \A k \in Nat : k \in Int
    OBVIOUS
  <2> QED
    BY <1>2, <1>3, <1>4, <1>8, <1>9, <1>13, <2>1, ZenonT(30) DEF Inv, RunningInv, MemoryInv, b
<1>16. VersionInv'
  BY <1>2, <1>3, <1>7, <1>8, <1>9, ZenonT(30) DEF Inv, RunningInv, VersionInv, Stuck, Manifest
<1>17. MergeInv'
  BY <1>2, <1>3, <1>4, <1>5, <1>6, <1>8, <1>9, <1>10, <1>14, ZenonT(30) DEF MergeInv
<1>18. FlushInv' /\ ApplyInv'
  BY <1>2, <1>3, ZenonT(30) DEF FlushInv, ApplyInv
<1> QED
  BY <1>8, <1>11, <1>12, <1>15, <1>16, <1>17, <1>18 DEF Inv, ProcessInv, RunningInv

(* The record of a compaction or of a move.                                  *)
LEMMA RecordStep ==
  ASSUME Inv, Running, bg = "idle", bg' = "write", NEW A \in SUBSET Nat, NEW D \in SUBSET Nat, D # {},
         record' = Edit(log_number_, next_file_number_, last_sequence_, A, D),
         \/ merge # NoMerge /\ A = {merge.number} /\ D = merge.inputs
         \/ merge = NoMerge /\ A = D /\ A \subseteq live /\ ~bg_error_,
         UNCHANGED diskVars,
         UNCHANGED <<pc, mem_, imm_, logfile_number_, log_number_, manifest_file_number_, live>>,
         UNCHANGED <<last_sequence_, next_file_number_, replay, edit, merge, building, bg_error_>>,
         UNCHANGED <<acked, durable, exposed>>
  PROVE  Inv'
<1>1. pc = "open" /\ ~Stuck
  BY ZenonT(30) DEF Running, Stuck
<1>2. /\ log_number_ \in Nat /\ next_file_number_ \in Nat /\ last_sequence_ \in Nat /\ logfile_number_ \in Nat
      /\ log_number_ <= logfile_number_ /\ logfile_number_ < next_file_number_
  BY <1>1, ZenonT(30) DEF Inv, ProcessTypes, RunningInv, MemoryInv
<1>3. /\ record'.log_number = log_number_ /\ record'.next_file = next_file_number_ /\ record' \in EditRecord
      /\ record'.last_sequence = last_sequence_ /\ record'.add = A /\ record'.del = D
  <2>1. next_file_number_ \in Int
    BY <1>2
  <2> DEFINE z == Edit(log_number_, next_file_number_, last_sequence_, A, D)
  <2>2. /\ z \in EditRecord /\ z.log_number = log_number_ /\ z.next_file = next_file_number_
        /\ z.last_sequence = last_sequence_ /\ z.add = A /\ z.del = D
    BY <1>2, <2>1, EditIs
  <2> QED
    BY <2>2, ZenonT(30)
<1>4. DiskTypes' /\ DiskInv'
  <2>1. DiskTypes /\ DiskInv /\ CURRENT # 0
    BY <1>1, OpenFacts, ZenonT(30) DEF Inv
  <2> QED
    BY <1>1, <2>1, SameDisk, ZenonT(30)
<1>5. ProcessTypes'
  BY <1>3, ZenonT(30) DEF Inv, ProcessTypes, diskVars
<1>6. IdleInv' /\ OpenInv' /\ NewFilesInv'
  BY <1>1, ZenonT(30) DEF IdleInv, OpenInv, NewFilesInv
<1>7. CurrentSynced' = CurrentSynced /\ CurrentEnds' = CurrentEnds /\ InLogs' = InLogs /\ InSyncedLogs' = InSyncedLogs
  BY ZenonT(30) DEF CurrentEnds, CurrentSynced, InLogs, InSyncedLogs, diskVars
<1>8. MemoryInv'
  BY <1>1, <1>7, ZenonT(30) DEF Inv, RunningInv, MemoryInv, diskVars
<1>9. VersionInv'
  BY <1>1, <1>7, ZenonT(30) DEF Inv, RunningInv, VersionInv, diskVars
<1>10. MergeInv'
  BY <1>1, ZenonT(30) DEF Inv, RunningInv, MergeInv, diskVars
<1>11. FlushInv'
  BY ZenonT(30) DEF FlushInv
<1>12. ApplyInv'
  <2>1. next_file_number_ <= next_file_number_ /\ last_sequence_ <= last_sequence_ /\ log_number_ < next_file_number_
    BY <1>2
  <2>2. /\ \A e \in CurrentEnds : Manifest[e].next_file <= next_file_number_
        /\ Whole(Manifest, Len(Manifest)) => Manifest[Len(Manifest)].last_sequence <= last_sequence_
    BY <1>1, ZenonT(30) DEF Inv, RunningInv, VersionInv, Manifest
  <2>3. \A n \in A : n < next_file_number_ /\ n \in DOMAIN tables /\ \A x \in tables[n] : x <= last_sequence_
    <3>1. CASE merge # NoMerge /\ A = {merge.number}
      BY <1>1, <3>1, ZenonT(30) DEF Inv, RunningInv, MergeInv
    <3>2. CASE A \subseteq live
      BY <1>1, <3>2, ZenonT(30) DEF Inv, RunningInv, MemoryInv
    <3> QED
      BY <3>1, <3>2, ZenonT(30)
  <2> QED
    BY <1>1, <1>3, <1>7, <2>1, <2>2, <2>3, ZenonT(30) DEF ApplyInv, Manifest, diskVars
<1> QED
  BY <1>4, <1>5, <1>6, <1>8, <1>9, <1>10, <1>11, <1>12 DEF Inv, ProcessInv, RunningInv

LEMMA InstallCompactionResultsStep == ASSUME Inv, InstallCompactionResults PROVE Inv'
<1>1. /\ Running /\ bg = "idle" /\ merge # NoMerge /\ bg' = "write"
      /\ record' = Edit(log_number_, next_file_number_, last_sequence_, {merge.number}, merge.inputs)
      /\ UNCHANGED diskVars
      /\ UNCHANGED <<pc, mem_, imm_, logfile_number_, log_number_, manifest_file_number_, live>>
      /\ UNCHANGED <<last_sequence_, next_file_number_, replay, edit, merge, building, bg_error_>>
      /\ UNCHANGED <<acked, durable, exposed>>
  BY ZenonT(30) DEF InstallCompactionResults, memVars, versionVars, openVars, historyVars
<1>2. merge \in [number : Nat, inputs : SUBSET Nat] /\ merge.inputs # {}
  BY <1>1, ZenonT(30) DEF Inv, ProcessTypes, RunningInv, MergeInv, Running
<1>3. {merge.number} \in SUBSET Nat /\ merge.inputs \in SUBSET Nat
  BY <1>2
<1> QED
  BY <1>1, <1>2, <1>3, RecordStep, ZenonT(30)

LEMMA TrivialMoveStep == ASSUME Inv, TrivialMove PROVE Inv'
<1>1. PICK n \in live : record' = Edit(log_number_, next_file_number_, last_sequence_, {n}, {n})
  BY ZenonT(30) DEF TrivialMove
<1>2. /\ Running /\ bg = "idle" /\ merge = NoMerge /\ ~bg_error_ /\ bg' = "write" /\ UNCHANGED diskVars
      /\ UNCHANGED <<pc, mem_, imm_, logfile_number_, log_number_, manifest_file_number_, live>>
      /\ UNCHANGED <<last_sequence_, next_file_number_, replay, edit, merge, building, bg_error_>>
      /\ UNCHANGED <<acked, durable, exposed>>
  BY ZenonT(30) DEF TrivialMove, memVars, versionVars, openVars, historyVars
<1>3. {n} \in SUBSET Nat /\ {n} # {} /\ {n} \subseteq live
  BY ZenonT(30) DEF Inv, ProcessTypes
<1> QED
  BY <1>1, <1>2, <1>3, RecordStep, ZenonT(30)

(* The record that LogAndApply writes: who reads up to it finds everything,  *)
(* and what is in its tables besides.                                        *)
LEMMA RecordIs ==
  ASSUME Inv, bg = "write"
  PROVE  /\ pc = "open" /\ record \in EditRecord /\ record # TornEdit
         /\ record.log_number \in Nat /\ record.next_file \in Int /\ record.last_sequence \in Nat
         /\ record.add \in SUBSET Nat /\ record.del \in SUBSET Nat
<1>1. pc = "open" /\ record \in EditRecord
  BY ZenonT(30) DEF Inv, ProcessTypes, ProcessInv, IdleInv
<1>2. record.log_number < record.next_file
  BY <1>1, ZenonT(30) DEF Inv, RunningInv, ApplyInv
<1>3. /\ record.log_number \in Nat /\ record.next_file \in Int /\ record.last_sequence \in Nat
      /\ record.add \in SUBSET Nat /\ record.del \in SUBSET Nat
  BY <1>1 DEF EditRecord
<1>4. record # TornEdit
  <2>1. TornEdit.next_file = -1
    BY DEF TornEdit, Edit
  <2>2. record.next_file # -1
    BY <1>2, <1>3
  <2> QED
    BY <2>1, <2>2, ZenonT(30)
<1> QED
  BY <1>1, <1>3, <1>4

(* What a merge or a move deletes is in what it adds.                        *)
LEMMA RecordKeeps ==
  ASSUME Inv, bg = "write", NEW N, NEW x, In(tables, N, x)
  PROVE  In(tables, (N \ record.del) \cup record.add, x)
<1>1. pc = "open"
  BY RecordIs
<1>2. PICK n \in N : n \in DOMAIN tables /\ x \in tables[n]
  BY ZenonT(30) DEF In
<1>3. CASE n \notin record.del
  BY <1>2, <1>3, ZenonT(30) DEF In
<1>4. CASE n \in record.del
  <2>1. record.del # {}
    BY <1>4, ZenonT(30)
  <2>2. CASE merge # NoMerge /\ record.add = {merge.number} /\ record.del = merge.inputs
    <3>1. In(tables, merge.inputs, x)
      BY <1>2, <1>4, <2>2, ZenonT(30) DEF In
    <3>2. merge.number \in DOMAIN tables /\ x \in tables[merge.number]
      BY <1>1, <2>2, <3>1, ZenonT(30) DEF Inv, RunningInv, MergeInv
    <3> QED
      BY <2>2, <3>2, ZenonT(30) DEF In
  <2>3. CASE record.add = record.del
    BY <1>2, <1>4, <2>3, ZenonT(30) DEF In
  <2> QED
    BY <1>1, <2>1, <2>2, <2>3, ZenonT(30) DEF Inv, RunningInv, ApplyInv
<1> QED
  BY <1>3, <1>4

LEMMA RecordSecured ==
  ASSUME Inv, bg = "write", Whole(Manifest, Len(Manifest)), NEW A, NEW D,
         A \subseteq (acked \ exposed) \cup Contents(record.add),
         D \subseteq (durable \ exposed) \cup Contents(record.add)
  PROVE  SecureEnd(tables, InLogs, InSyncedLogs, Manifest, CurrentSynced, record, A, D, CURRENT)
<1> DEFINE r == Manifest
           s == CurrentSynced
           k == Len(r)
           q == Append(r, record)
           N == LiveAt(q, k + 1)
<1>1. /\ pc = "open" /\ record \in EditRecord /\ record.log_number \in Nat /\ record.next_file \in Int
      /\ record.last_sequence \in Nat /\ record.add \in SUBSET Nat /\ record.del \in SUBSET Nat
  BY RecordIs, ZenonT(30)
<1>2. /\ r \in Seq(EditRecord) /\ s \in 0 .. k /\ k >= 1 /\ CURRENT \in Nat /\ logfile_number_ \in DOMAIN logs
      /\ Secure(tables, InLogs, InSyncedLogs, r, s, acked \ exposed, durable \ exposed, CURRENT)
  <2>1. CURRENT \in Nat
    BY ZenonT(30) DEF Inv, DiskTypes
  <2> QED
    BY <1>1, <2>1, OpenFacts, ZenonT(30)
<1>3. /\ k \in Ends(r, s) /\ Last(r, k)
  BY <1>2, WholeEnds, ZenonT(30)
<1>4. /\ record.log_number < record.next_file
      /\ \A e \in Ends(r, s) : r[e].next_file <= record.next_file
      /\ r[k].last_sequence <= record.last_sequence
      /\ \A n \in record.add :
           n < record.next_file /\ n \in DOMAIN tables /\ \A x \in tables[n] : x <= record.last_sequence
  BY <1>1, ZenonT(30) DEF Inv, RunningInv, ApplyInv, CurrentEnds, Manifest
<1>5. N = (LiveAt(r, k) \ record.del) \cup record.add
  BY <1>1, <1>2, LiveAppend, ZenonT(30)
<1>6. q[k + 1] = record
  BY <1>1, <1>2
<1>7. /\ Numbered(tables, r, k, CURRENT)
      /\ \A x \in acked \ exposed : Found(tables, InLogs, r, k, x)
      /\ \A x \in durable \ exposed : Found(tables, InSyncedLogs, r, k, x)
  BY <1>2, <1>3, ZenonT(30) DEF Secure
<1>8. r[k].next_file \in Int /\ r[k].last_sequence \in Nat /\ r[k].log_number \in Nat
  BY <1>2, <1>3, EndIs, ZenonT(30)
<1> HIDE DEF r, s, k, q, N
<1>9. Numbered(tables, q, k + 1, CURRENT)
  <2>1. CURRENT < record.next_file
    <3>1. CURRENT < r[k].next_file /\ r[k].next_file <= record.next_file
      BY <1>3, <1>4, <1>7, ZenonT(30) DEF Numbered
    <3> QED
      BY <1>1, <1>2, <1>8, <3>1
  <2>2. ASSUME NEW n \in N
        PROVE  n \in DOMAIN tables /\ n < record.next_file /\ \A x \in tables[n] : x <= record.last_sequence
    <3>1. CASE n \in record.add
      BY <1>4, <3>1, ZenonT(30)
    <3>2. CASE n \in LiveAt(r, k)
      <4>1. /\ n \in DOMAIN tables /\ n < r[k].next_file /\ r[k].next_file <= record.next_file
            /\ \A x \in tables[n] : x <= r[k].last_sequence
        BY <1>3, <1>4, <1>7, <3>2, ZenonT(30) DEF Numbered
      <4>2. n \in Nat /\ tables[n] \subseteq Nat
        BY <4>1, ZenonT(30) DEF Inv, DiskTypes, TableTypes
      <4>3. n < record.next_file
        BY <1>1, <1>8, <4>1, <4>2
      <4>4. ASSUME NEW x \in tables[n] PROVE x <= record.last_sequence
        <5>1. x \in Nat /\ x <= r[k].last_sequence
          BY <4>1, <4>2, ZenonT(30)
        <5> QED
          BY <1>1, <1>4, <1>8, <5>1
      <4> QED
        BY <4>1, <4>3, <4>4, ZenonT(30)
    <3> QED
      BY <1>5, <3>1, <3>2, ZenonT(30)
  <2> QED
    BY <1>4, <1>6, <2>1, <2>2, ZenonT(30) DEF Numbered, N
<1>10. ASSUME NEW x, In(tables, LiveAt(r, k), x) \/ x \in Contents(record.add) PROVE In(tables, N, x)
  <2>1. CASE In(tables, LiveAt(r, k), x)
    BY <1>5, <2>1, RecordKeeps, ZenonT(30)
  <2>2. CASE x \in Contents(record.add)
    <3>1. In(tables, record.add, x)
      BY <2>2, ContentsIn, ZenonT(30)
    <3> QED
      BY <1>5, <3>1, ZenonT(30) DEF In
  <2> QED
    BY <1>10, <2>1, <2>2
<1>11. DOMAIN InLogs = DOMAIN logs /\ DOMAIN InSyncedLogs = DOMAIN logs /\ \A n \in DOMAIN logs : n \in Nat
  <2>1. DOMAIN InLogs = DOMAIN logs /\ DOMAIN InSyncedLogs = DOMAIN logs
    BY DEF InLogs, InSyncedLogs, LogsRead, SyncedRead
  <2> QED
    BY <2>1, ZenonT(30) DEF Inv, DiskTypes, FileTypes
<1>12. CASE record.del # {}
  <2>1. record.log_number <= r[k].log_number
    <3>1. record.log_number = log_number_ /\ log_number_ <= r[k].log_number
      BY <1>1, <1>12, ZenonT(30) DEF Inv, RunningInv, ApplyInv, VersionInv, Manifest, r, k
    <3> QED
      BY <3>1
  <2>2. \A n \in DOMAIN logs : r[k].log_number <= n => record.log_number <= n
    BY <1>1, <1>8, <1>11, <2>1
  <2>3. ASSUME NEW x, Found(tables, InLogs, r, k, x) PROVE Found(tables, InLogs, q, k + 1, x)
    BY <1>6, <1>10, <1>11, <2>2, <2>3, ZenonT(30) DEF Found, N
  <2>4. ASSUME NEW x, Found(tables, InSyncedLogs, r, k, x) PROVE Found(tables, InSyncedLogs, q, k + 1, x)
    BY <1>6, <1>10, <1>11, <2>2, <2>4, ZenonT(30) DEF Found, N
  <2>5. \A x \in A : Found(tables, InLogs, q, k + 1, x)
    BY <1>7, <1>10, <2>3, ZenonT(30) DEF Found, N
  <2>6. \A x \in D : Found(tables, InSyncedLogs, q, k + 1, x)
    BY <1>7, <1>10, <2>4, ZenonT(30) DEF Found, N
  <2> QED
    BY <1>4, <1>9, <2>5, <2>6, ZenonT(30) DEF SecureEnd, r, s, k, q
<1>13. CASE record.del = {}
  <2>1. /\ record.add = {building} /\ tables[building] = imm_ /\ record.log_number = logfile_number_
        /\ building \in DOMAIN tables
    BY <1>1, <1>4, <1>13, ZenonT(30) DEF Inv, RunningInv, ApplyInv
  <2>2. live \subseteq LiveAt(r, k)
    BY <1>1, ZenonT(30) DEF Inv, RunningInv, VersionInv, Stuck, Manifest, r, k
  <2>3. ASSUME NEW x, In(tables, live, x) \/ x \in imm_ PROVE In(tables, N, x)
    <3>1. CASE In(tables, live, x)
      <4>1. In(tables, LiveAt(r, k), x)
        BY <2>2, <3>1, ZenonT(30) DEF In
      <4> QED
        BY <1>10, <4>1, ZenonT(30)
    <3>2. CASE x \in imm_
      BY <1>5, <2>1, <3>2, ZenonT(30) DEF In
    <3> QED
      BY <2>3, <3>1, <3>2
  <2>4. /\ \A x \in acked \ exposed : In(tables, live, x) \/ x \in mem_ \cup imm_
        /\ \A x \in mem_ \ exposed : In(tables, live, x) \/ x \in InLogs[logfile_number_]
        /\ \A x \in durable \ exposed : In(tables, live, x) \/ x \in imm_ \cup InSyncedLogs[logfile_number_]
    BY <1>1, ZenonT(30) DEF Inv, RunningInv, MemoryInv
  <2>5. record.log_number <= logfile_number_
    BY <1>1, <2>1
  <2>6. \A x \in A : Found(tables, InLogs, q, k + 1, x)
    BY <1>2, <1>6, <1>10, <1>11, <2>3, <2>4, <2>5, ZenonT(30) DEF Found, N
  <2>7. \A x \in D : Found(tables, InSyncedLogs, q, k + 1, x)
    BY <1>2, <1>6, <1>10, <1>11, <2>3, <2>4, <2>5, ZenonT(30) DEF Found, N
  <2> QED
    BY <1>4, <1>9, <2>6, <2>7, ZenonT(30) DEF SecureEnd, r, s, k, q
<1> QED
  BY <1>12, <1>13

LEMMA AppendRecord ==
  ASSUME Inv, bg = "write", NEW x \in {TornEdit, record},
         manifests' = Put(manifests, CURRENT, Append(Manifest, x)),
         \/ synced' = synced /\ durable' = durable /\ exposed' = exposed
         \/ /\ synced' = Put(synced, <<"manifest", CURRENT>>, Len(Manifest) + 1) /\ x = record
            /\ durable' = durable \cup Reached(Manifest) /\ exposed' = exposed \ Reached(Manifest),
         UNCHANGED <<CURRENT, logs, tables, pc, acked>>
  PROVE  /\ DiskTypes' /\ DiskInv' /\ manifests'[CURRENT] = Append(Manifest, x)
         /\ CurrentSynced' = synced'[<<"manifest", CURRENT>>]
         /\ synced' # synced => CurrentSynced' = Len(Manifest) + 1
         /\ Established(Append(Manifest, x), CurrentSynced')
         /\ InLogs' = InLogs /\ InSyncedLogs' = InSyncedLogs
         /\ \A e \in CurrentEnds' : Append(Manifest, x)[e].next_file <= next_file_number_
<1> DEFINE r == Manifest
           s == CurrentSynced
           k == Len(r)
           q == Append(r, x)
           t == synced'[<<"manifest", CURRENT>>]
<1>1. pc = "open" /\ record \in EditRecord /\ record # TornEdit /\ record.next_file \in Int /\ next_file_number_ \in Nat
  BY RecordIs, ZenonT(30) DEF Inv, ProcessTypes
<1>2. x \in EditRecord
  <2>1. TornEdit \in EditRecord
    BY DEF TornEdit, Edit, EditRecord
  <2> QED
    BY <1>1, <2>1, ZenonT(30)
<1>3. /\ r \in Seq(EditRecord) /\ s \in 0 .. k /\ CURRENT \in DOMAIN manifests /\ CURRENT # 0
      /\ Secure(tables, InLogs, InSyncedLogs, r, s, acked \ exposed, durable \ exposed, CURRENT)
      /\ Established(r, s) /\ <<"manifest", CURRENT>> \in DOMAIN synced
  BY <1>1, OpenFacts, ZenonT(30)
<1>4. FileTypes("log", LogRecord, logs, synced) /\ FileTypes("manifest", EditRecord, manifests, synced) /\ CURRENT \in Nat
  BY ZenonT(30) DEF Inv, DiskTypes
<1>5. q \in Seq(EditRecord) /\ Len(q) = k + 1 /\ k \in Nat /\ k <= Len(q) /\ k + 1 \in 0 .. Len(q)
      /\ q[k + 1] = x /\ \A i \in 1 .. k : q[i] = r[i]
  <2>1. r \in Seq(EditRecord)
    BY <1>3, ZenonT(30)
  <2> QED
    BY <1>2, <2>1, AppendedRecord
<1>6. DOMAIN manifests' = DOMAIN manifests \cup {CURRENT} /\ manifests'[CURRENT] = q
  BY DEF Put
<1>7. /\ synced' = synced => t = s
      /\ synced' = Put(synced, <<"manifest", CURRENT>>, k + 1) => t = k + 1
      /\ \A f \in DOMAIN synced : f # <<"manifest", CURRENT>> => synced'[f] = synced[f]
  <2>1. CASE synced' = synced
    <3>1. synced' = Put(synced, <<"manifest", CURRENT>>, k + 1) => t = k + 1
      BY DEF Put
    <3> QED
      BY <2>1, <3>1, ZenonT(30) DEF CurrentSynced
  <2>2. CASE synced' = Put(synced, <<"manifest", CURRENT>>, k + 1)
    <3>1. /\ t = k + 1
          /\ \A f \in DOMAIN synced : f # <<"manifest", CURRENT>> => synced'[f] = synced[f]
      BY <2>2 DEF Put
    <3> QED
      BY <3>1, ZenonT(30) DEF CurrentSynced
  <2> QED
    BY <2>1, <2>2, ZenonT(30)
<1>8. t \in {s, k + 1} /\ CurrentSynced' = t
  BY <1>7, ZenonT(30) DEF CurrentSynced
<1>9. Whole(r, k) /\ x # TornEdit => x = record
  OBVIOUS
<1>10. DiskTypes'
  <2>1. FileTypes("manifest", EditRecord, manifests', synced')
    <3>1. CASE synced' = synced
      <4>1. CURRENT \in DOMAIN manifests /\ Len(manifests[CURRENT]) <= Len(q)
        BY <1>3, <1>5, ZenonT(30) DEF Manifest
      <4> HIDE DEF q
      <4>2. FileTypes("manifest", EditRecord, Put(manifests, CURRENT, q), synced)
        BY <1>4, <1>5, <4>1, PutFileOnly, ZenonT(30)
      <4> QED
        BY <3>1, <4>2 DEF q
    <3>2. CASE synced' = Put(synced, <<"manifest", CURRENT>>, k + 1)
      <4> HIDE DEF q, k
      <4>1. FileTypes("manifest", EditRecord, Put(manifests, CURRENT, q), Put(synced, <<"manifest", CURRENT>>, k + 1))
        BY <1>4, <1>5, PutFile, ZenonT(30)
      <4> QED
        BY <3>2, <4>1 DEF q
    <3> QED
      BY <3>1, <3>2, ZenonT(30)
  <2>2. FileTypes("log", LogRecord, logs, synced')
    <3>1. "log" # "manifest"
      OBVIOUS
    <3>2. FileTypes("log", LogRecord, logs, Put(synced, <<"manifest", CURRENT>>, k + 1))
      BY <1>4, <3>1, OtherFile, ZenonT(30)
    <3> QED
      BY <1>4, <3>2, ZenonT(30)
  <2> QED
    BY <2>1, <2>2, ZenonT(30) DEF Inv, DiskTypes
<1>11. InLogs' = InLogs /\ InSyncedLogs' = InSyncedLogs
  <2>1. InLogs' = InLogs
    BY DEF InLogs
  <2>2. ASSUME NEW n \in DOMAIN logs PROVE synced'[<<"log", n>>] = synced[<<"log", n>>]
    <3>1. <<"log", n>> # <<"manifest", CURRENT>>
      OBVIOUS
    <3>2. <<"log", n>> \in DOMAIN synced
      BY <1>4, ZenonT(30) DEF FileTypes
    <3> QED
      BY <1>7, <3>1, <3>2, ZenonT(30)
  <2>3. InSyncedLogs' = InSyncedLogs
    BY <2>2 DEF InSyncedLogs, SyncedRead
  <2> QED
    BY <2>1, <2>3
<1> DEFINE A == acked' \ exposed'
           D == durable' \ exposed'
<1>12. /\ Whole(r, k) => /\ A \subseteq (acked \ exposed) \cup Contents(record.add)
                         /\ D \subseteq (durable \ exposed) \cup Contents(record.add)
       /\ \/ A \subseteq acked \ exposed /\ D \subseteq durable \ exposed
          \/ Whole(r, k) /\ x # TornEdit /\ t = k + 1
  <2>1. CASE durable' = durable /\ exposed' = exposed
    BY <2>1, ZenonT(30)
  <2>2. CASE /\ synced' = Put(synced, <<"manifest", CURRENT>>, k + 1) /\ x = record
             /\ durable' = durable \cup Reached(r) /\ exposed' = exposed \ Reached(r)
    <3>1. CASE Whole(r, k)
      <4>1. Reached(r) \subseteq Contents(record.add)
        BY DEF Reached
      <4> QED
        BY <1>1, <1>7, <2>2, <3>1, <4>1, ZenonT(30)
    <3>2. CASE ~Whole(r, k)
      <4>1. TornEdit \in Records(r)
        <5>1. DOMAIN r = 1 .. k
          BY <1>3
        <5> QED
          BY <3>2, <5>1, ZenonT(30) DEF Whole, Records
      <4>2. Reached(r) = {}
        BY <4>1 DEF Reached
      <4> QED
        BY <2>2, <3>2, <4>2, ZenonT(30)
    <3> QED
      BY <3>1, <3>2
  <2> QED
    BY <2>1, <2>2, ZenonT(30)
<1> HIDE DEF r, s, k, q, t, A, D
<1>13. Secure(tables, InLogs, InSyncedLogs, q, t, A, D, CURRENT)
  <2>1. ASSUME Whole(r, k), x # TornEdit
        PROVE  SecureEnd(tables, InLogs, InSyncedLogs, r, s, x, A, D, CURRENT)
    BY <1>9, <1>12, <2>1, RecordSecured, ZenonT(30) DEF r, s, k
  <2> QED
    BY <1>2, <1>3, <1>8, <1>12, <2>1, SecureAppend, ZenonT(30) DEF q, k
<1>14. Established(q, t)
  <2>1. 2 <= s /\ Whole(r, 2)
    BY <1>3, ZenonT(30) DEF Established
  <2>2. 2 <= t /\ \A i \in 1 .. 2 : i \in 1 .. k
    BY <1>3, <1>5, <1>8, <2>1
  <2>3. Whole(q, 2)
    BY <1>5, <2>1, <2>2, ZenonT(30) DEF Whole
  <2> QED
    BY <2>2, <2>3 DEF Established
<1>15. DiskInv'
  <2>1. manifests'[CURRENT'] = q /\ CurrentSynced' = t /\ CURRENT' \in DOMAIN manifests' /\ CURRENT' # 0
    BY <1>3, <1>6, <1>8, ZenonT(30)
  <2> QED
    BY <1>1, <1>11, <1>13, <1>14, <2>1, ZenonT(30) DEF DiskInv, A, D
<1>16. ASSUME NEW e \in CurrentEnds' PROVE q[e].next_file <= next_file_number_
  <2>1. e \in Ends(q, t)
    BY <1>6, <1>8, ZenonT(30) DEF CurrentEnds
  <2>2. (e = k + 1 /\ x = record) \/ (e \in Ends(r, s) /\ q[e] = r[e])
    BY <1>2, <1>3, <1>8, <1>9, <2>1, AppendEnds, ZenonT(30) DEF q, k
  <2>3. CASE e = k + 1 /\ x = record
    BY <1>1, <1>5, <2>3, ZenonT(30) DEF Inv, RunningInv, ApplyInv
  <2>4. CASE e \in Ends(r, s) /\ q[e] = r[e]
    BY <1>1, <2>4, ZenonT(30) DEF Inv, RunningInv, VersionInv, CurrentEnds, Manifest, r, s
  <2> QED
    BY <2>2, <2>3, <2>4
<1> QED
  BY <1>6, <1>7, <1>8, <1>10, <1>11, <1>14, <1>15, <1>16, ZenonT(30) DEF q, t, k, r

(* What the two outcomes of LogAndApply share.                               *)
LEMMA ApplyCommon ==
  ASSUME Inv, LogAndApply
  PROVE  /\ pc = "open" /\ bg = "write" /\ bg' \in {"idle", "gc"} /\ record' = NoEdit
         /\ UNCHANGED <<CURRENT, logs, tables, pc, mem_, logfile_number_, manifest_file_number_>>
         /\ UNCHANGED <<next_file_number_, last_sequence_, replay, edit, acked>>
         /\ record.del = {} => building' = 0 /\ merge' = merge
         /\ record.del # {} => building' = building /\ merge' = NoMerge
         /\ CURRENT = manifest_file_number_ /\ manifests[manifest_file_number_] = Manifest
<1>1. pc = "open" /\ bg = "write"
  BY RecordIs, ZenonT(30) DEF LogAndApply
<1>2. CURRENT = manifest_file_number_ /\ manifests[manifest_file_number_] = Manifest
  BY <1>1, OpenFacts, ZenonT(30) DEF Manifest
<1> QED
  BY <1>1, <1>2, ZenonT(30) DEF LogAndApply, AfterApply, openVars

LEMMA ApplyRest ==
  ASSUME Inv, LogAndApply, DiskTypes', live' \subseteq Nat, imm_' \subseteq imm_, log_number_' \in Nat, bg_error_' \in BOOLEAN,
         bg' = "gc" => ~bg_error_'
  PROVE  ProcessTypes' /\ ProcessInv' /\ MergeInv' /\ FlushInv' /\ ApplyInv'
<1>1. /\ pc = "open" /\ bg = "write" /\ bg' \in {"idle", "gc"} /\ record' = NoEdit
      /\ UNCHANGED <<CURRENT, logs, tables, pc, mem_, logfile_number_, manifest_file_number_>>
      /\ UNCHANGED <<next_file_number_, last_sequence_, replay, edit, acked>>
      /\ record.del = {} => building' = 0 /\ merge' = merge
      /\ record.del # {} => building' = building /\ merge' = NoMerge
  BY ApplyCommon, ZenonT(30)
<1>2. ProcessTypes'
  <2>1. NoMerge \in [number : Nat, inputs : SUBSET Nat] /\ NoEdit \in EditRecord /\ 0 \in Nat
    BY DEF NoMerge, NoEdit, Edit, EditRecord
  <2>2. building' \in Nat /\ merge' \in [number : Nat, inputs : SUBSET Nat]
    BY <1>1, <2>1, ZenonT(30) DEF Inv, ProcessTypes
  <2> QED
    BY <1>1, <2>1, <2>2, ZenonT(30) DEF Inv, ProcessTypes
<1>3. ProcessInv'
  BY <1>1, ZenonT(30) DEF ProcessInv, IdleInv, OpenInv, NewFilesInv
<1>4. MergeInv'
  BY <1>1, ZenonT(30) DEF Inv, RunningInv, MergeInv
<1>5. FlushInv' /\ ApplyInv'
  BY <1>1, ZenonT(30) DEF FlushInv, ApplyInv
<1> QED
  BY <1>2, <1>3, <1>4, <1>5

LEMMA ApplyDoneStep ==
  ASSUME Inv, LogAndApply,
         manifests' = Put(manifests, CURRENT, Append(Manifest, record)),
         synced' = Put(synced, <<"manifest", CURRENT>>, Len(Manifest) + 1),
         live' = (live \ record.del) \cup record.add, log_number_' = record.log_number,
         imm_' = IF record.del = {} THEN {} ELSE imm_,
         durable' = durable \cup Reached(Manifest), exposed' = exposed \ Reached(Manifest),
         bg' = AfterApply, bg_error_' = bg_error_
  PROVE  Inv'
<1> DEFINE r == Manifest
           k == Len(r)
           q == Append(r, record)
<1>1. /\ pc = "open" /\ bg = "write" /\ bg' \in {"idle", "gc"}
      /\ UNCHANGED <<CURRENT, logs, tables, pc, mem_, logfile_number_, manifest_file_number_>>
      /\ UNCHANGED <<next_file_number_, last_sequence_, replay, edit, acked>>
      /\ record.del = {} => building' = 0 /\ merge' = merge
      /\ record.del # {} => building' = building /\ merge' = NoMerge
  BY ApplyCommon, ZenonT(30)
<1>2. /\ record \in EditRecord /\ record.log_number \in Nat /\ record.next_file \in Int
      /\ record.last_sequence \in Nat /\ record.add \in SUBSET Nat /\ record.del \in SUBSET Nat
      /\ next_file_number_ \in Nat /\ last_sequence_ \in Nat /\ live \subseteq Nat /\ logfile_number_ \in Nat
      /\ log_number_ \in Nat
  BY <1>1, RecordIs, ZenonT(30) DEF Inv, ProcessTypes
<1>3. /\ r \in Seq(EditRecord) /\ CURRENT \in DOMAIN manifests /\ CURRENT # 0 /\ CURRENT = manifest_file_number_
      /\ CurrentSynced \in 0 .. k
  BY <1>1, OpenFacts, ZenonT(30)
<1>4. /\ DiskTypes' /\ DiskInv' /\ manifests'[CURRENT] = q
      /\ CurrentSynced' = synced'[<<"manifest", CURRENT>>]
      /\ Established(q, CurrentSynced')
      /\ InLogs' = InLogs /\ InSyncedLogs' = InSyncedLogs
      /\ \A e \in CurrentEnds' : q[e].next_file <= next_file_number_
  BY <1>1, AppendRecord, ZenonT(30)
<1>5. CurrentSynced' = k + 1
  <2>1. Put(synced, <<"manifest", CURRENT>>, k + 1)[<<"manifest", CURRENT>>] = k + 1
    BY DEF Put
  <2> QED
    BY <1>4, <2>1, ZenonT(30)
<1>6. Len(q) = k + 1 /\ q[k + 1] = record /\ k \in Nat /\ LiveAt(q, k + 1) = (LiveAt(r, k) \ record.del) \cup record.add
      /\ \A i \in 1 .. k : q[i] = r[i] /\ i \in 1 .. k + 1
  <2>1. LiveAt(q, k + 1) = (LiveAt(r, k) \ record.del) \cup record.add
    BY <1>2, <1>3, LiveAppend, ZenonT(30)
  <2> QED
    BY <1>2, <1>3, <2>1
<1>7. Whole(q, k + 1) <=> Whole(r, k)
  <2>1. \A i \in 1 .. k + 1 : i \in 1 .. k \/ i = k + 1
    BY <1>6
  <2>2. record # TornEdit
    BY <1>1, RecordIs
  <2> QED
    BY <1>6, <2>1, <2>2, ZenonT(30) DEF Whole
<1>8. ProcessTypes' /\ ProcessInv' /\ MergeInv' /\ FlushInv' /\ ApplyInv'
  <2>1. live' \subseteq Nat /\ imm_' \subseteq imm_ /\ log_number_' \in Nat /\ bg_error_' \in BOOLEAN
    BY <1>2, ZenonT(30) DEF Inv, ProcessTypes
  <2>2. bg' = "gc" => ~bg_error_'
    BY DEF AfterApply
  <2> QED
    BY <1>4, <2>1, <2>2, ApplyRest, ZenonT(30)
<1> HIDE DEF r, k, q
<1>9. /\ record.next_file <= next_file_number_ /\ record.last_sequence <= last_sequence_
      /\ \A n \in record.add :
           n < record.next_file /\ n \in DOMAIN tables /\ \A x \in tables[n] : x <= record.last_sequence
      /\ record.del = {} => record.add = {building} /\ tables[building] = imm_ /\ record.log_number = logfile_number_
      /\ record.del # {} => record.log_number = log_number_
  BY <1>1, ZenonT(30) DEF Inv, RunningInv, ApplyInv
<1>10. \A x : In(tables, live, x) \/ x \in Contents(record.add) => In(tables', live', x)
  <2>1. ASSUME NEW x, In(tables, live, x) PROVE In(tables', live', x)
    BY <1>1, <2>1, RecordKeeps, ZenonT(30)
  <2>2. ASSUME NEW x, x \in Contents(record.add) PROVE In(tables', live', x)
    <3>1. In(tables, record.add, x)
      BY <2>2, ContentsIn, ZenonT(30)
    <3> QED
      BY <1>1, <3>1, ZenonT(30) DEF In
  <2> QED
    BY <2>1, <2>2, ZenonT(30)
<1>11. Reached(Manifest) \subseteq Contents(record.add)
  BY DEF Reached
<1>12. ASSUME NEW x \in imm_ PROVE In(tables', live', x) \/ x \in imm_'
  <2>1. CASE record.del = {}
    <3>1. building \in record.add /\ building \in DOMAIN tables /\ x \in tables[building]
      BY <1>9, <2>1, ZenonT(30)
    <3> QED
      BY <1>1, <3>1, ZenonT(30) DEF In
  <2>2. CASE record.del # {}
    BY <2>2, ZenonT(30)
  <2> QED
    BY <2>1, <2>2
<1>13. MemoryInv'
  <2>1. /\ replay = {} /\ \A n \in DOMAIN logs : n <= logfile_number_
        /\ logfile_number_ \in DOMAIN logs /\ logfile_number_ < next_file_number_
        /\ log_number_ <= logfile_number_
        /\ \A n \in live : n \in DOMAIN tables /\ n < next_file_number_ /\ \A x \in tables[n] : x <= last_sequence_
        /\ \A x \in mem_ \cup imm_ : x <= last_sequence_
        /\ \A x \in (acked \cup durable) \ exposed : In(tables, live, x) \/ x \in mem_ \cup imm_
        /\ \A x \in mem_ \ exposed : In(tables, live, x) \/ x \in InLogs[logfile_number_]
        /\ \A x \in durable \ exposed : In(tables, live, x) \/ x \in imm_ \cup InSyncedLogs[logfile_number_]
    BY <1>1, ZenonT(30) DEF Inv, RunningInv, MemoryInv
  <2>2. log_number_' <= logfile_number_
    BY <1>2, <1>9, <2>1
  <2>3. ASSUME NEW n \in live' PROVE n \in DOMAIN tables /\ n < next_file_number_ /\ \A x \in tables[n] : x <= last_sequence_
    <3>1. CASE n \in live
      BY <2>1, <3>1, ZenonT(30)
    <3>2. CASE n \in record.add
      <4>1. n \in DOMAIN tables /\ n < record.next_file /\ n \in Nat /\ tables[n] \subseteq Nat
            /\ \A x \in tables[n] : x <= record.last_sequence
        BY <1>9, <3>2, ZenonT(30) DEF Inv, DiskTypes, TableTypes
      <4>2. n < next_file_number_
        BY <1>2, <1>9, <4>1
      <4>3. ASSUME NEW x \in tables[n] PROVE x <= last_sequence_
        <5>1. x \in Nat /\ x <= record.last_sequence
          BY <4>1, ZenonT(30)
        <5> QED
          BY <1>2, <1>9, <5>1
      <4> QED
        BY <4>1, <4>2, <4>3, ZenonT(30)
    <3> QED
      BY <3>1, <3>2, ZenonT(30)
  <2>4. ASSUME NEW x \in (acked' \cup durable') \ exposed' PROVE In(tables', live', x) \/ x \in mem_ \cup imm_'
    <3>1. x \in Contents(record.add) \/ x \in (acked \cup durable) \ exposed
      BY <1>1, <1>11, ZenonT(30)
    <3> QED
      BY <1>10, <1>12, <2>1, <3>1, ZenonT(30)
  <2>5. ASSUME NEW x \in mem_ \ exposed' PROVE In(tables', live', x) \/ x \in InLogs[logfile_number_]
    <3>1. x \in Contents(record.add) \/ x \in mem_ \ exposed
      BY <1>11, ZenonT(30)
    <3> QED
      BY <1>10, <2>1, <3>1, ZenonT(30)
  <2>6. ASSUME NEW x \in durable' \ exposed' PROVE In(tables', live', x) \/ x \in imm_' \cup InSyncedLogs[logfile_number_]
    <3>1. x \in Contents(record.add) \/ x \in durable \ exposed
      BY <1>11, ZenonT(30)
    <3> QED
      BY <1>10, <1>12, <2>1, <3>1, ZenonT(30)
  <2> QED
    BY <1>1, <1>4, <2>1, <2>2, <2>3, <2>4, <2>5, <2>6, ZenonT(30) DEF MemoryInv
<1>14. VersionInv'
  <2>1. /\ ~bg_error_ => Whole(r, k) /\ LiveAt(r, k) = live
        /\ Whole(r, k) => live \subseteq LiveAt(r, k)
    BY <1>1, ZenonT(30) DEF Inv, RunningInv, VersionInv, Stuck, Manifest, r, k
  <2>2. record.log_number <= record.log_number
    BY <1>2
  <2>3. ~bg_error_' => Whole(q, Len(q)) /\ CurrentSynced' = Len(q) /\ LiveAt(q, Len(q)) = live' /\ q[Len(q)].log_number = log_number_'
    BY <1>5, <1>6, <1>7, <2>1, ZenonT(30)
  <2>4. Whole(q, Len(q)) =>
          /\ log_number_' <= q[Len(q)].log_number /\ q[Len(q)].last_sequence <= last_sequence_
          /\ live' \subseteq LiveAt(q, Len(q))
    BY <1>6, <1>7, <1>9, <2>1, <2>2, ZenonT(30)
  <2>5. manifests'[CURRENT'] = q
    BY <1>1, <1>4, ZenonT(30) DEF q, r
  <2>6. Established(q, CurrentSynced') /\ \A e \in CurrentEnds' : q[e].next_file <= next_file_number_
    BY <1>4, ZenonT(30) DEF q, r
  <2> QED
    BY <1>1, <1>3, <2>3, <2>4, <2>5, <2>6, ZenonT(30) DEF VersionInv
<1> QED
  BY <1>4, <1>8, <1>13, <1>14 DEF Inv, RunningInv


LEMMA ApplyFailsStep ==
  ASSUME Inv, LogAndApply,
         manifests' = manifests \/ \E x \in {TornEdit, record} : manifests' = Put(manifests, CURRENT, Append(Manifest, x)),
         bg_error_' = TRUE, bg' = "idle", UNCHANGED <<synced, live, log_number_, imm_, durable, exposed>>
  PROVE  Inv'
<1> DEFINE r == Manifest
           k == Len(r)
<1>1. /\ pc = "open" /\ bg = "write"
      /\ UNCHANGED <<CURRENT, logs, tables, pc, mem_, logfile_number_, manifest_file_number_>>
      /\ UNCHANGED <<next_file_number_, last_sequence_, replay, edit, acked>>
      /\ record.del = {} => building' = 0 /\ merge' = merge
      /\ record.del # {} => building' = building /\ merge' = NoMerge
  BY ApplyCommon, ZenonT(30)
<1>2. /\ record \in EditRecord /\ record.log_number \in Nat /\ record # TornEdit
      /\ record.add \in SUBSET Nat /\ record.del \in SUBSET Nat
      /\ log_number_ \in Nat /\ logfile_number_ \in Nat
  BY <1>1, RecordIs, ZenonT(30) DEF Inv, ProcessTypes
<1>3. /\ r \in Seq(EditRecord) /\ CURRENT \in DOMAIN manifests /\ CURRENT # 0 /\ CURRENT = manifest_file_number_
      /\ CurrentSynced \in 0 .. k
  BY <1>1, OpenFacts, ZenonT(30)
<1>4. VersionInv
  BY DEF Inv, RunningInv
<1>5. /\ DiskTypes' /\ DiskInv' /\ VersionInv' /\ InLogs' = InLogs /\ InSyncedLogs' = InSyncedLogs
  <2>1. CASE manifests' = manifests
    <3>1. UNCHANGED diskVars /\ UNCHANGED <<acked, durable, exposed>> /\ pc' # "newdb"
      BY <1>1, <2>1, ZenonT(30) DEF diskVars
    <3>2. DiskTypes' /\ DiskInv'
      BY <1>3, <3>1, SameDisk, ZenonT(30) DEF Inv
    <3>3. CurrentSynced' = CurrentSynced /\ CurrentEnds' = CurrentEnds /\ InLogs' = InLogs /\ InSyncedLogs' = InSyncedLogs
      BY <3>1, ZenonT(30) DEF CurrentSynced, CurrentEnds, InLogs, InSyncedLogs, diskVars
    <3>4. ~Stuck
      BY <1>1, ZenonT(30) DEF Stuck
    <3> QED
      BY <1>1, <1>4, <2>1, <3>2, <3>3, <3>4, ZenonT(30) DEF VersionInv
  <2>2. CASE \E x \in {TornEdit, record} : manifests' = Put(manifests, CURRENT, Append(Manifest, x))
    <3>1. PICK x \in {TornEdit, record} : manifests' = Put(manifests, CURRENT, Append(Manifest, x))
      BY <2>2, ZenonT(30)
    <3> DEFINE q == Append(r, x)
    <3>2. /\ DiskTypes' /\ DiskInv' /\ manifests'[CURRENT] = q
          /\ Established(q, CurrentSynced')
          /\ InLogs' = InLogs /\ InSyncedLogs' = InSyncedLogs
          /\ \A e \in CurrentEnds' : q[e].next_file <= next_file_number_
      <4>1. synced' = synced /\ durable' = durable /\ exposed' = exposed
        OBVIOUS
      <4> QED
        BY <1>1, <3>1, <4>1, AppendRecord, ZenonT(30)
    <3>3. x \in EditRecord
      <4>1. TornEdit \in EditRecord
        BY DEF TornEdit, Edit, EditRecord
      <4> QED
        BY <1>2, <4>1, ZenonT(30)
    <3>4. Len(q) = k + 1 /\ q[k + 1] = x /\ k \in Nat /\ k + 1 \in 1 .. k + 1
      BY <1>3, <3>3
    <3>5. LiveAt(q, k + 1) = (LiveAt(r, k) \ x.del) \cup x.add /\ \A i \in 1 .. k : q[i] = r[i] /\ i \in 1 .. k + 1
      <4>1. LiveAt(q, k + 1) = (LiveAt(r, k) \ x.del) \cup x.add
        BY <1>3, <3>3, LiveAppend, ZenonT(30)
      <4> QED
        BY <1>3, <3>3, <4>1
    <3>6. manifests'[CURRENT'] = q
      BY <1>1, <3>2, ZenonT(30)
    <3>7. /\ record.last_sequence <= last_sequence_ /\ log_number_ <= logfile_number_
          /\ record.del = {} => record.log_number = logfile_number_
          /\ record.del # {} => record.log_number = log_number_
          /\ Whole(r, k) => live \subseteq LiveAt(r, k)
      BY <1>1, ZenonT(30) DEF Inv, RunningInv, ApplyInv, VersionInv, MemoryInv, Stuck, Manifest, r, k
    <3> HIDE DEF q, r, k
    <3>8. ASSUME Whole(q, Len(q))
          PROVE  /\ log_number_ <= q[Len(q)].log_number /\ q[Len(q)].last_sequence <= last_sequence_
                 /\ live \subseteq LiveAt(q, Len(q)) \/ Stuck'
      <4>1. Whole(r, k) /\ x = record
        BY <3>4, <3>5, <3>8, ZenonT(30) DEF Whole
      <4>2. log_number_ <= record.log_number
        BY <1>2, <3>7
      <4>3. CASE record.del = {}
        <5>1. live \subseteq LiveAt(q, k + 1)
          BY <3>5, <3>7, <4>1, <4>3, ZenonT(30)
        <5> QED
          BY <3>4, <3>7, <4>1, <4>2, <5>1, ZenonT(30)
      <4>4. CASE record.del # {}
        <5>1. Stuck'
          BY <1>1, <4>4, ZenonT(30) DEF Stuck
        <5> QED
          BY <3>4, <3>7, <4>1, <4>2, <5>1, ZenonT(30)
      <4> QED
        BY <4>3, <4>4
    <3>9. Established(q, CurrentSynced') /\ \A e \in CurrentEnds' : q[e].next_file <= next_file_number_
      BY <3>2, ZenonT(30)
    <3>10. VersionInv'
      BY <1>1, <1>3, <3>6, <3>8, <3>9, ZenonT(30) DEF VersionInv
    <3> QED
      BY <3>2, <3>10
  <2> QED
    BY <2>1, <2>2
<1>6. ProcessTypes' /\ ProcessInv' /\ MergeInv' /\ FlushInv' /\ ApplyInv'
  <2>1. live' \subseteq Nat /\ imm_' \subseteq imm_ /\ log_number_' \in Nat /\ bg_error_' \in BOOLEAN
    BY <1>2, ZenonT(30) DEF Inv, ProcessTypes
  <2> QED
    BY <1>5, <2>1, ApplyRest, ZenonT(30)
<1>7. MemoryInv'
  BY <1>1, <1>5, ZenonT(30) DEF Inv, RunningInv, MemoryInv
<1> QED
  BY <1>5, <1>6, <1>7 DEF Inv, RunningInv

LEMMA LogAndApplyStep ==
  ASSUME Inv, LogAndApply
  PROVE  Inv'
<1> DEFINE m == manifest_file_number_
           Appends(x) == manifests' = Put(manifests, m, Append(manifests[m], x))
           Done == /\ Appends(record)
                   /\ synced' = Put(synced, <<"manifest", m>>, Len(manifests[m]) + 1)
                   /\ live' = (live \ record.del) \cup record.add
                   /\ log_number_' = record.log_number
                   /\ imm_' = IF record.del = {} THEN {} ELSE imm_
                   /\ durable' = durable \cup Reached(manifests[m])
                   /\ exposed' = exposed \ Reached(manifests[m])
                   /\ bg' = AfterApply /\ bg_error_' = bg_error_
           Fails == /\ manifests' = manifests \/ \E x \in {TornEdit, record} : Appends(x)
                    /\ bg_error_' = TRUE /\ bg' = "idle"
                    /\ UNCHANGED <<synced, live, log_number_, imm_, durable, exposed>>
<1>1. m = CURRENT /\ manifests[m] = Manifest
  BY ApplyCommon, ZenonT(30)
<1>2. Done \/ Fails
  BY ZenonT(30) DEF LogAndApply, SyncedManifest
<1>3. CASE Done
  <2>1. /\ manifests' = Put(manifests, CURRENT, Append(Manifest, record))
        /\ synced' = Put(synced, <<"manifest", CURRENT>>, Len(Manifest) + 1)
        /\ durable' = durable \cup Reached(Manifest) /\ exposed' = exposed \ Reached(Manifest)
    BY <1>1, <1>3
  <2> QED
    BY <1>3, <2>1, ApplyDoneStep, ZenonT(30)
<1>4. CASE Fails
  <2>1. ASSUME NEW x, Appends(x) PROVE manifests' = Put(manifests, CURRENT, Append(Manifest, x))
    BY <1>1, <2>1
  <2>2. manifests' = manifests \/ \E x \in {TornEdit, record} : manifests' = Put(manifests, CURRENT, Append(Manifest, x))
    BY <1>4, <2>1, ZenonT(30)
  <2> QED
    BY <1>4, <2>2, ApplyFailsStep, ZenonT(30)
<1> QED
  BY <1>2, <1>3, <1>4, ZenonT(30)


(* Files go that neither the version nor a compaction needs.                 *)
LEMMA NeededStay ==
  ASSUME Inv, bg = "gc", bg' \in {"gc", "idle"},
         UNCHANGED <<CURRENT, pc, memVars, versionVars, next_file_number_, last_sequence_, openVars,
                     jobVars, bg_error_, historyVars>>,
         DiskTypes', CURRENT \in DOMAIN manifests', manifests'[CURRENT] = Manifest,
         synced'[<<"manifest", CURRENT>>] = CurrentSynced,
         \A n \in DOMAIN logs' : n \in DOMAIN logs,
         \A n \in DOMAIN logs : log_number_ <= n =>
            n \in DOMAIN logs' /\ logs'[n] = logs[n] /\ synced'[<<"log", n>>] = synced[<<"log", n>>],
         \A n \in DOMAIN tables' : n \in DOMAIN tables /\ tables'[n] = tables[n],
         \A n \in DOMAIN tables : n \in live \cup {merge.number} => n \in DOMAIN tables' /\ tables'[n] = tables[n]
  PROVE  Inv'
<1> DEFINE r == Manifest
           k == Len(r)
<1>1. pc = "open" /\ bg = "gc"
  BY ZenonT(30) DEF Inv, ProcessInv, IdleInv
<1>2. ~bg_error_
  BY <1>1, ZenonT(30) DEF Inv, RunningInv, MergeInv
<1>3. LiveAt(r, k) = live /\ r[k].log_number = log_number_ /\ CURRENT # 0
  BY <1>1, <1>2, ZenonT(30) DEF Inv, RunningInv, VersionInv, Manifest
<1>4. \A e \in Ends(r, CurrentSynced) : e = k
  BY <1>1, <1>2, OpenFacts, ZenonT(30) DEF CurrentEnds, Manifest
<1>5. Established(r, CurrentSynced)
  BY <1>1, OpenFacts, ZenonT(30)
<1>6. /\ DOMAIN InLogs = DOMAIN logs /\ DOMAIN InSyncedLogs = DOMAIN logs
      /\ DOMAIN InLogs' = DOMAIN logs' /\ DOMAIN InSyncedLogs' = DOMAIN logs'
  BY LogDomains, ZenonT(30)
<1>7. ASSUME NEW n \in DOMAIN logs, log_number_ <= n
      PROVE  n \in DOMAIN logs' /\ InLogs'[n] = InLogs[n] /\ InSyncedLogs'[n] = InSyncedLogs[n]
  <2>1. n \in DOMAIN logs' /\ logs'[n] = logs[n] /\ synced'[<<"log", n>>] = synced[<<"log", n>>]
    BY <1>7, ZenonT(30)
  <2> QED
    BY <2>1 DEF InLogs, InSyncedLogs, LogsRead, SyncedRead
<1> HIDE DEF r, k
<1>8. DiskInv'
  <2>1. KeepsTables(tables, tables', r, CurrentSynced)
    BY <1>3, <1>4, ZenonT(30) DEF KeepsTables
  <2>2. KeepsLogs(InLogs, InLogs', r, CurrentSynced) /\ KeepsLogs(InSyncedLogs, InSyncedLogs', r, CurrentSynced)
    BY <1>3, <1>4, <1>6, <1>7, ZenonT(30) DEF KeepsLogs
  <2>3. acked' = acked /\ durable' = durable /\ exposed' = exposed /\ pc' # "newdb" /\ CURRENT' = CURRENT
    BY <1>1, ZenonT(30) DEF historyVars
  <2>4. /\ AddsFound(acked \ exposed, acked' \ exposed', tables', InLogs', r, CurrentSynced)
        /\ AddsFound(durable \ exposed, durable' \ exposed', tables', InSyncedLogs', r, CurrentSynced)
    BY <2>3, ZenonT(30) DEF AddsFound
  <2>5. DiskInv
    BY DEF Inv
  <2> QED
    BY <1>3, <1>5, <2>1, <2>2, <2>3, <2>4, <2>5, DiskStill, ZenonT(30) DEF r
<1>9. CurrentSynced' = CurrentSynced /\ manifests'[CURRENT'] = r /\ CurrentEnds' = CurrentEnds
  BY ZenonT(30) DEF CurrentSynced, CurrentEnds, r, Manifest
<1>10. UNCHANGED <<CURRENT, pc, mem_, imm_, logfile_number_, log_number_, manifest_file_number_, live>>
       /\ UNCHANGED <<next_file_number_, last_sequence_, replay, edit, merge, building, record, bg_error_>>
       /\ UNCHANGED <<acked, durable, exposed>>
  BY ZenonT(30) DEF memVars, versionVars, openVars, jobVars, historyVars
<1>11. /\ replay = {} /\ \A n \in DOMAIN logs : n <= logfile_number_
       /\ logfile_number_ \in DOMAIN logs /\ logfile_number_ < next_file_number_
       /\ log_number_ <= logfile_number_
       /\ \A n \in live : n \in DOMAIN tables /\ n < next_file_number_ /\ \A x \in tables[n] : x <= last_sequence_
       /\ \A x \in mem_ \cup imm_ : x <= last_sequence_
       /\ \A x \in (acked \cup durable) \ exposed : In(tables, live, x) \/ x \in mem_ \cup imm_
       /\ \A x \in mem_ \ exposed : In(tables, live, x) \/ x \in InLogs[logfile_number_]
       /\ \A x \in durable \ exposed : In(tables, live, x) \/ x \in imm_ \cup InSyncedLogs[logfile_number_]
  BY <1>1, ZenonT(30) DEF Inv, RunningInv, MemoryInv
<1>12. ProcessTypes' /\ ProcessInv'
  <2>1. replay' \subseteq DOMAIN logs'
    BY <1>10, <1>11, ZenonT(30)
  <2>2. ProcessTypes'
    BY <1>10, <2>1, ZenonT(30) DEF Inv, ProcessTypes
  <2> QED
    BY <1>1, <1>10, <2>2, ZenonT(30) DEF ProcessInv, IdleInv, OpenInv, NewFilesInv
<1>13. MemoryInv'
  <2>1. \A x : In(tables, live, x) => In(tables', live, x)
    BY ZenonT(30) DEF In
  <2>2. \A n \in live : n \in DOMAIN tables' /\ tables'[n] = tables[n]
    BY <1>11, ZenonT(30)
  <2>3. /\ logfile_number_ \in DOMAIN logs' /\ InLogs'[logfile_number_] = InLogs[logfile_number_]
        /\ InSyncedLogs'[logfile_number_] = InSyncedLogs[logfile_number_]
    BY <1>7, <1>11, ZenonT(30)
  <2>4. \A n \in DOMAIN logs' : n <= logfile_number_
    BY <1>11, ZenonT(30)
  <2>5. \A n \in live : n \in DOMAIN tables' /\ n < next_file_number_ /\ \A x \in tables'[n] : x <= last_sequence_
    BY <1>11, <2>2, ZenonT(30)
  <2>6. \A x \in (acked \cup durable) \ exposed : In(tables', live, x) \/ x \in mem_ \cup imm_
    BY <1>11, <2>1, ZenonT(30)
  <2>7. \A x \in mem_ \ exposed : In(tables', live, x) \/ x \in InLogs'[logfile_number_]
    BY <1>11, <2>1, <2>3, ZenonT(30)
  <2>8. \A x \in durable \ exposed : In(tables', live, x) \/ x \in imm_ \cup InSyncedLogs'[logfile_number_]
    BY <1>11, <2>1, <2>3, ZenonT(30)
  <2> QED
    BY <1>10, <1>11, <2>3, <2>4, <2>5, <2>6, <2>7, <2>8, ZenonT(30) DEF MemoryInv
<1>14. VersionInv'
  <2>1. VersionInv
    BY DEF Inv, RunningInv
  <2> QED
    BY <1>1, <1>2, <1>9, <1>10, <2>1, ZenonT(30) DEF VersionInv, r, Manifest
<1>15. MergeInv'
  <2>1. /\ merge # NoMerge =>
             /\ merge.number # 0 /\ merge.number \in DOMAIN tables /\ merge.number < next_file_number_
             /\ merge.inputs # {} /\ \A n \in merge.inputs : n < next_file_number_
             /\ \A x : In(tables, merge.inputs, x) => x \in tables[merge.number]
             /\ \A x \in tables[merge.number] : x <= last_sequence_
    BY <1>1, ZenonT(30) DEF Inv, RunningInv, MergeInv
  <2>2. \A x : In(tables', merge.inputs, x) => In(tables, merge.inputs, x)
    BY ZenonT(30) DEF In
  <2>3. merge # NoMerge => merge.number \in DOMAIN tables' /\ tables'[merge.number] = tables[merge.number]
    BY <2>1, ZenonT(30)
  <2>4. ASSUME merge # NoMerge
        PROVE  /\ merge.number \in DOMAIN tables' /\ \A x : In(tables', merge.inputs, x) => x \in tables'[merge.number]
               /\ \A x \in tables'[merge.number] : x <= last_sequence_
    BY <2>1, <2>2, <2>3, <2>4, ZenonT(30)
  <2>5. merge' = merge /\ next_file_number_' = next_file_number_ /\ last_sequence_' = last_sequence_
    BY <1>10, ZenonT(30)
  <2>7. ~bg_error_'
    <3>1. ~bg_error_ /\ bg_error_' = bg_error_
      BY <1>2, <1>10, ZenonT(30)
    <3> QED
      BY <3>1
  <2>6. ASSUME merge' # NoMerge
        PROVE  /\ merge'.number # 0 /\ merge'.number \in DOMAIN tables' /\ merge'.number < next_file_number_'
               /\ merge'.inputs # {} /\ \A n \in merge'.inputs : n < next_file_number_'
               /\ \A x : In(tables', merge'.inputs, x) => x \in tables'[merge'.number]
               /\ \A x \in tables'[merge'.number] : x <= last_sequence_'
    <3>1. merge # NoMerge
      BY <2>5, <2>6
    <3> QED
      BY <2>1, <2>4, <2>5, <3>1, ZenonT(30)
  <2> QED
    BY <2>6, <2>7, ZenonT(30) DEF MergeInv
<1>16. FlushInv' /\ ApplyInv'
  BY ZenonT(30) DEF FlushInv, ApplyInv
<1> QED
  BY <1>8, <1>12, <1>13, <1>14, <1>15, <1>16 DEF Inv, RunningInv


LEMMA DeleteObsoleteFilesStep ==
  ASSUME Inv, DeleteObsoleteFiles
  PROVE  Inv'
<1>1. bg = "gc" /\ pc = "open"
  BY ZenonT(30) DEF DeleteObsoleteFiles, Inv, ProcessInv, IdleInv
<1>2. UNCHANGED <<CURRENT, pc, memVars, versionVars, next_file_number_, last_sequence_, openVars,
                  jobVars, bg_error_, historyVars>>
  BY ZenonT(30) DEF DeleteObsoleteFiles
<1>3. CURRENT \in DOMAIN manifests /\ CURRENT = manifest_file_number_ /\ <<"manifest", CURRENT>> \in DOMAIN synced
  BY <1>1, OpenFacts, ZenonT(30)
<1>4. /\ FileTypes("manifest", EditRecord, manifests, synced) /\ FileTypes("log", LogRecord, logs, synced)
      /\ TableTypes(tables) /\ CURRENT \in Nat /\ log_number_ \in Nat /\ manifest_file_number_ \in Nat
  BY DEF Inv, DiskTypes, ProcessTypes
<1>5. CASE Obsolete = {} /\ bg' = "idle" /\ UNCHANGED <<logs, manifests, tables, synced>>
  <2>1. DiskTypes'
    BY <1>2, <1>5, ZenonT(30) DEF Inv, DiskTypes
  <2>2. manifests'[CURRENT] = Manifest /\ synced'[<<"manifest", CURRENT>>] = CurrentSynced
    BY <1>5, ZenonT(30) DEF Manifest, CurrentSynced
  <2> QED
    BY <1>1, <1>2, <1>3, <1>5, <2>1, <2>2, NeededStay, ZenonT(30)
<1>6. ASSUME NEW f \in Obsolete,
             logs' = IF f[1] = "log" THEN Without(logs, f[2]) ELSE logs,
             manifests' = IF f[1] = "manifest" THEN Without(manifests, f[2]) ELSE manifests,
             tables' = IF f[1] = "table" THEN Without(tables, f[2]) ELSE tables,
             synced' = Without(synced, f), bg' = bg
      PROVE  Inv'
  <2>1. f \in Files /\ ~Keep(f[1], f[2])
    BY DEF Obsolete
  <2> DEFINE n == f[2]
  <2>2. ASSUME NEW y \in DOMAIN synced, y # f PROVE synced'[y] = synced[y] /\ y \in DOMAIN synced'
    BY <1>6, <2>2 DEF Without
  <2>3. CASE f[1] = "log"
    <3>1. f = <<"log", n>> /\ ~(n >= log_number_) /\ n \in DOMAIN logs /\ n \in Nat
      BY <1>4, <2>1, <2>3 DEF Files, Keep, KeepLog, FileTypes
    <3>2. logs' = Without(logs, n) /\ manifests' = manifests /\ tables' = tables /\ synced' = Without(synced, <<"log", n>>)
      BY <1>6, <2>3, <3>1
    <3>3. /\ DOMAIN logs' = DOMAIN logs \ {n} /\ \A y \in DOMAIN logs : y # n => logs'[y] = logs[y]
      BY <3>2 DEF Without
    <3>4. DiskTypes'
      BY <1>2, <1>4, <3>2, WithoutFile, OtherFile, ZenonT(30) DEF DiskTypes
    <3>5. manifests'[CURRENT] = Manifest /\ synced'[<<"manifest", CURRENT>>] = CurrentSynced
      <4>1. <<"manifest", CURRENT>> # f
        BY <3>1
      <4> QED
        BY <1>3, <2>2, <3>2, <4>1, ZenonT(30) DEF Manifest, CurrentSynced
    <3>6. ASSUME NEW y \in DOMAIN logs, log_number_ <= y
          PROVE  y \in DOMAIN logs' /\ logs'[y] = logs[y] /\ synced'[<<"log", y>>] = synced[<<"log", y>>]
      <4>1. y \in Nat /\ <<"log", y>> \in DOMAIN synced
        BY <1>4, ZenonT(30) DEF FileTypes
      <4>2. y # n
        BY <1>4, <3>1, <3>6, <4>1
      <4>3. <<"log", y>> # f
        BY <3>1, <4>2
      <4> QED
        BY <2>2, <3>3, <4>1, <4>2, <4>3, ZenonT(30)
    <3>7. \A y \in DOMAIN logs' : y \in DOMAIN logs
      BY <3>3, ZenonT(30)
    <3> QED
      BY <1>1, <1>2, <1>3, <1>6, <3>2, <3>4, <3>5, <3>6, <3>7, NeededStay, ZenonT(30)
  <2>4. CASE f[1] = "manifest"
    <3>1. f = <<"manifest", n>> /\ ~(n >= manifest_file_number_)
      BY <2>1, <2>4 DEF Files, Keep, KeepManifest
    <3>2. logs' = logs /\ manifests' = Without(manifests, n) /\ tables' = tables /\ synced' = Without(synced, <<"manifest", n>>)
      BY <1>6, <2>4, <3>1
    <3>3. n # CURRENT
      BY <1>3, <1>4, <3>1
    <3>4. CURRENT \in DOMAIN manifests' /\ manifests'[CURRENT] = manifests[CURRENT]
      BY <1>3, <3>2, <3>3 DEF Without
    <3>5. DiskTypes'
      BY <1>2, <1>4, <3>2, WithoutFile, OtherFile, ZenonT(30) DEF DiskTypes
    <3>6. synced'[<<"manifest", CURRENT>>] = CurrentSynced
      <4>1. <<"manifest", CURRENT>> # f
        BY <3>1, <3>3
      <4> QED
        BY <1>3, <2>2, <4>1, ZenonT(30) DEF CurrentSynced
    <3>7. ASSUME NEW y \in DOMAIN logs PROVE synced'[<<"log", y>>] = synced[<<"log", y>>]
      <4>1. <<"log", y>> # f
        BY <3>1
      <4> QED
        BY <1>4, <2>2, <4>1, ZenonT(30) DEF FileTypes
    <3> QED
      BY <1>1, <1>2, <1>6, <3>2, <3>4, <3>5, <3>6, <3>7, NeededStay, ZenonT(30) DEF Manifest
  <2>5. CASE f[1] = "table"
    <3>1. f = <<"table", n>> /\ n \notin live \cup {merge.number}
      BY <2>1, <2>5 DEF Files, Keep, Pending
    <3>2. logs' = logs /\ manifests' = manifests /\ tables' = Without(tables, n) /\ synced' = Without(synced, <<"table", n>>)
      BY <1>6, <2>5, <3>1
    <3>3. DOMAIN tables' = DOMAIN tables \ {n} /\ \A y \in DOMAIN tables : y # n => tables'[y] = tables[y]
      BY <3>2 DEF Without
    <3>4. TableTypes(tables')
      BY <1>4, <3>3, ZenonT(30) DEF TableTypes
    <3>5. DiskTypes'
      BY <1>2, <1>4, <3>2, <3>4, OtherFile, ZenonT(30) DEF DiskTypes
    <3>6. manifests'[CURRENT] = Manifest /\ synced'[<<"manifest", CURRENT>>] = CurrentSynced
      <4>1. <<"manifest", CURRENT>> # f
        BY <3>1
      <4> QED
        BY <1>3, <2>2, <3>2, <4>1, ZenonT(30) DEF Manifest, CurrentSynced
    <3>7. ASSUME NEW y \in DOMAIN logs PROVE synced'[<<"log", y>>] = synced[<<"log", y>>]
      <4>1. <<"log", y>> # f
        BY <3>1
      <4> QED
        BY <1>4, <2>2, <4>1, ZenonT(30) DEF FileTypes
    <3>8. /\ \A y \in DOMAIN tables' : y \in DOMAIN tables /\ tables'[y] = tables[y]
          /\ \A y \in DOMAIN tables : y \in live \cup {merge.number} => y \in DOMAIN tables' /\ tables'[y] = tables[y]
      BY <3>1, <3>3, ZenonT(30)
    <3> QED
      BY <1>1, <1>2, <1>3, <1>6, <3>2, <3>5, <3>6, <3>7, <3>8, NeededStay, ZenonT(30)
  <2>6. f[1] \in {"log", "manifest", "table"}
    BY <2>1, FileKinds, ZenonT(30)
  <2> QED
    BY <2>3, <2>4, <2>5, <2>6, ZenonT(30)
<1> QED
  BY <1>5, <1>6, ZenonT(30) DEF DeleteObsoleteFiles

(* The machine crashes.                                                      *)
LEMMA MachineCrashStep ==
  ASSUME Inv, MachineCrash
  PROVE  Inv'
<1> DEFINE r == Manifest
           s == CurrentSynced
<1>1. /\ logs' \in Remains("log", logs) /\ manifests' \in Remains("manifest", manifests)
      /\ Down /\ acked' = durable /\ UNCHANGED <<CURRENT, tables, durable, exposed>> /\ pc' = "down"
      /\ synced' = [f \in DOMAIN synced |-> IF f[1] = "log" THEN Len(logs'[f[2]]) ELSE Len(manifests'[f[2]])]
  BY ZenonT(30) DEF MachineCrash, Down
<1>2. /\ FileTypes("manifest", EditRecord, manifests, synced) /\ FileTypes("log", LogRecord, logs, synced)
      /\ TableTypes(tables) /\ CURRENT \in Nat
  BY ZenonT(30) DEF Inv, DiskTypes
<1>3. /\ DOMAIN logs' = DOMAIN logs
      /\ \A n \in DOMAIN logs : \E k \in synced[<<"log", n>>] .. Len(logs[n]) : logs'[n] = SubSeq(logs[n], 1, k)
  BY <1>1, <1>2, RemainsBoth, ZenonT(30)
<1>4. /\ DOMAIN manifests' = DOMAIN manifests
      /\ \A n \in DOMAIN manifests :
           \E k \in synced[<<"manifest", n>>] .. Len(manifests[n]) : manifests'[n] = SubSeq(manifests[n], 1, k)
  BY <1>1, <1>2, RemainsBoth, ZenonT(30)
<1>5. ASSUME NEW n \in DOMAIN logs
      PROVE  /\ logs'[n] \in Seq(LogRecord) /\ <<"log", n>> \in DOMAIN synced'
             /\ synced'[<<"log", n>>] = Len(logs'[n]) /\ Len(logs'[n]) \in 0 .. Len(logs'[n])
             /\ ReadOf(logs[n], synced[<<"log", n>>]) \subseteq ReadOf(logs'[n], Len(logs'[n]))
  <2>1. logs[n] \in Seq(LogRecord) /\ <<"log", n>> \in DOMAIN synced /\ synced[<<"log", n>>] \in 0 .. Len(logs[n])
    BY <1>2, ZenonT(30) DEF FileTypes
  <2>2. PICK k \in synced[<<"log", n>>] .. Len(logs[n]) : logs'[n] = SubSeq(logs[n], 1, k)
    BY <1>3, ZenonT(30)
  <2>3. /\ SubSeq(logs[n], 1, k) \in Seq(LogRecord) /\ Len(SubSeq(logs[n], 1, k)) = k
        /\ k \in 0 .. Len(SubSeq(logs[n], 1, k)) /\ synced[<<"log", n>>] \in Nat /\ k \in Nat
        /\ synced[<<"log", n>>] <= k /\ SameTo(logs[n], SubSeq(logs[n], 1, k), synced[<<"log", n>>])
    BY <2>1, CutFile, ZenonT(30)
  <2>4. ReadOf(logs[n], synced[<<"log", n>>]) \subseteq ReadOf(SubSeq(logs[n], 1, k), k)
    <3> DEFINE l == logs[n]
               q == SubSeq(l, 1, k)
               j == synced[<<"log", n>>]
    <3>1. j \in Nat /\ k \in Nat /\ j <= k /\ SameTo(l, q, j)
      BY <2>3, ZenonT(30)
    <3> HIDE DEF l, q, j
    <3>2. ReadOf(l, j) \subseteq ReadOf(q, k)
      BY <3>1, ReadOfLonger, ZenonT(30)
    <3> QED
      BY <3>2, ZenonT(30) DEF l, q, j
  <2>5. <<"log", n>> \in DOMAIN synced' /\ synced'[<<"log", n>>] = Len(logs'[n])
    BY <1>1, <2>1
  <2> QED
    BY <2>2, <2>3, <2>4, <2>5, ZenonT(30)
<1>6. ASSUME NEW n \in DOMAIN manifests
      PROVE  /\ manifests'[n] \in Seq(EditRecord) /\ <<"manifest", n>> \in DOMAIN synced'
             /\ synced'[<<"manifest", n>>] = Len(manifests'[n]) /\ Len(manifests'[n]) \in 0 .. Len(manifests'[n])
  <2>1. manifests[n] \in Seq(EditRecord) /\ <<"manifest", n>> \in DOMAIN synced /\ synced[<<"manifest", n>>] \in 0 .. Len(manifests[n])
    BY <1>2, ZenonT(30) DEF FileTypes
  <2>2. PICK k \in synced[<<"manifest", n>>] .. Len(manifests[n]) : manifests'[n] = SubSeq(manifests[n], 1, k)
    BY <1>4, ZenonT(30)
  <2>3. /\ SubSeq(manifests[n], 1, k) \in Seq(EditRecord) /\ Len(SubSeq(manifests[n], 1, k)) = k
        /\ k \in 0 .. Len(SubSeq(manifests[n], 1, k))
    BY <2>1, CutFile, ZenonT(30)
  <2>4. <<"manifest", n>> \in DOMAIN synced' /\ synced'[<<"manifest", n>>] = Len(manifests'[n])
    BY <1>1, <2>1
  <2> QED
    BY <2>2, <2>3, <2>4
<1>7. DiskTypes'
  <2>1. FileTypes("log", LogRecord, logs', synced')
    BY <1>2, <1>3, <1>5, ZenonT(30) DEF FileTypes
  <2>2. FileTypes("manifest", EditRecord, manifests', synced')
    BY <1>2, <1>4, <1>6, ZenonT(30) DEF FileTypes
  <2> QED
    BY <1>1, <1>2, <2>1, <2>2, ZenonT(30) DEF DiskTypes
<1>8. InLogs' = InSyncedLogs' /\ Grown(InSyncedLogs, InSyncedLogs')
  <2>1. /\ DOMAIN InSyncedLogs = DOMAIN logs /\ DOMAIN InSyncedLogs' = DOMAIN logs
        /\ \A n \in DOMAIN logs : InSyncedLogs[n] = ReadOf(logs[n], synced[<<"log", n>>])
        /\ \A n \in DOMAIN logs : InSyncedLogs'[n] = ReadOf(logs'[n], synced'[<<"log", n>>])
    BY <1>3 DEF InSyncedLogs, SyncedRead
  <2>2. InLogs' = InSyncedLogs'
    BY <1>3, <1>5 DEF InLogs, InSyncedLogs, LogsRead, SyncedRead
  <2>3. ASSUME NEW n \in DOMAIN logs PROVE InSyncedLogs[n] \subseteq InSyncedLogs'[n]
    BY <1>5, <2>1, ZenonT(30)
  <2> QED
    BY <2>1, <2>2, <2>3, ZenonT(30) DEF Grown
<1>9. CASE CURRENT = 0
  <2>1. DiskInv'
    BY <1>1, <1>9, ZenonT(30) DEF Inv, DiskInv
  <2> QED
    BY <1>1, <1>7, <2>1, DownRest DEF Inv
<1>10. CASE CURRENT # 0
  <2>1. /\ CURRENT \in DOMAIN manifests /\ Secure(tables, InLogs, InSyncedLogs, r, s, acked \ exposed, durable \ exposed, CURRENT)
        /\ Established(r, s) \/ (acked = {} /\ durable = {} /\ Fresh(r, CURRENT))
    BY <1>10, ZenonT(30) DEF Inv, DiskInv, Manifest
  <2>2. r \in Seq(EditRecord) /\ s \in 0 .. Len(r)
    BY <1>2, <2>1, ZenonT(30) DEF FileTypes, Manifest, CurrentSynced
  <2>3. PICK k \in s .. Len(r) : manifests'[CURRENT] = SubSeq(r, 1, k)
    BY <1>4, <2>1, ZenonT(30) DEF Manifest, CurrentSynced
  <2> DEFINE q == SubSeq(r, 1, k)
  <2>4. Len(q) = k /\ s \in Nat /\ k \in Nat /\ s <= k /\ SameTo(r, q, k)
    BY <2>2, CutFile, ZenonT(30)
  <2>5. CurrentSynced' = k /\ manifests'[CURRENT'] = q /\ CURRENT' = CURRENT
    <3>1. CURRENT' = CURRENT /\ manifests'[CURRENT'] = q
      BY <1>1, <2>3, ZenonT(30)
    <3>2. synced'[<<"manifest", CURRENT>>] = Len(manifests'[CURRENT])
      BY <1>6, <2>1, ZenonT(30)
    <3> QED
      BY <2>3, <2>4, <3>1, <3>2 DEF CurrentSynced
  <2>6. SameEnds(r, s, q, k)
    BY <2>2, CutEnds, ZenonT(30)
  <2>7. ASSUME Established(r, s) PROVE Established(q, k)
    <3>1. 2 <= k /\ \A i \in 1 .. 2 : i \in 1 .. k
      BY <2>4, <2>7 DEF Established
    <3> QED
      BY <2>4, <2>7, <3>1, ZenonT(30) DEF Established, SameTo, Whole
  <2>8. ASSUME Fresh(r, CURRENT) PROVE Fresh(q, CURRENT)
    <3>1. CASE r = <<>>
      <4>1. q = <<>>
        BY <2>4, <3>1
      <4> QED
        BY <2>8, <4>1, ZenonT(30) DEF Fresh
    <3>2. CASE r = <<Edit(0, 2, 0, {}, {})>>
      <4>1. q = <<>> \/ q = r
        <5>1. Len(r) = 1 /\ (k = 0 \/ k = 1)
          BY <2>3, <2>4, <3>2
        <5> QED
          BY <2>2, <2>4, <5>1, CutShort, ZenonT(30)
      <4> QED
        BY <2>8, <3>2, <4>1, ZenonT(30) DEF Fresh
    <3> QED
      BY <2>8, <3>1, <3>2, ZenonT(30) DEF Fresh
  <2> HIDE DEF r, s, q
  <2>9. Secure(tables', InLogs', InSyncedLogs', q, k, durable \ exposed, durable \ exposed, CURRENT)
    <3>1. Secure(tables, InSyncedLogs', InSyncedLogs', q, k, durable \ exposed, durable \ exposed, CURRENT)
      BY <1>8, <2>1, <2>6, SecureCut, ZenonT(30)
    <3> QED
      BY <1>1, <1>8, <3>1
  <2>10. DiskInv'
    <3>1. CURRENT' \in DOMAIN manifests' /\ pc' = "down" /\ acked' = durable /\ durable' = durable /\ exposed' = exposed
      BY <1>1, <1>4, <2>1, ZenonT(30)
    <3>2. Established(q, k) \/ (acked' = {} /\ durable' = {} /\ Fresh(q, CURRENT))
      BY <2>1, <2>7, <2>8, <3>1, ZenonT(30)
    <3> QED
      BY <1>10, <2>5, <2>9, <3>1, <3>2, ZenonT(30) DEF DiskInv
  <2> QED
    BY <1>1, <1>7, <2>10, DownRest DEF Inv
<1> QED
  BY <1>9, <1>10
=============================================================================
