----------------------------- MODULE LogFormat -----------------------------
(***************************************************************************)
(* Log files byte for byte: log::Writer cuts records into fragments that   *)
(* do not cross blocks, log::Reader puts them together again from whatever *)
(* a crash or a bad sector has left.  A file is a sequence of bytes; the   *)
(* first byte of a header stands for its contents, a byte of a record is   *)
(* known by the record and its place there, zeroes fill a trailer.         *)
(***************************************************************************)
EXTENDS Integers, Sequences, SequencesExt

CONSTANTS
  kBlockSize, kHeaderSize,  \* 32768 and 7 in the code
  Lengths,                  \* sizes a record may have
  MaxRecords,               \* bound: records of a file
  Uint64                    \* 2^64 in the code: offsets wrap there

VARIABLES
  file,          \* the bytes
  block_offset_, \* of the writer
  starts,        \* where each record begins: its size and place
  reader,        \* log::Reader
  results,       \* the records ReadRecord has returned
  damage         \* what happened to the file before it is read, and at which byte
vars == <<file, block_offset_, starts, reader, results, damage>>

(* A byte.  That of a header knows the type and the payload its checksum    *)
(* was made for.                                                            *)
Sum(type, n, id, after) == [type |-> type, length |-> n, of |-> id, after |-> after]
NoSum == Sum("none", 0, 0, 0)
Byte(type, n, id, crc) == [type |-> type, length |-> n, of |-> id, crc |-> crc]
Header(type, n, crc) ==
  <<Byte(type, n, 0, crc)>> \o [i \in 1..kHeaderSize - 1 |-> Byte("head", i, 0, NoSum)]
Zero == Byte("zero", 0, 0, NoSum)
Zeroes(n) == [i \in 1..n |-> Zero]
Payload(id, n) == [i \in 1..n |-> Byte("data", i, id, NoSum)]
CrcMatches(head, bytes) ==
  /\ head.crc # NoSum /\ head.type = head.crc.type
  /\ bytes = [i \in 1..head.crc.length |-> Byte("data", head.crc.after + i, head.crc.of, NoSum)]
MinOf(a, b) == IF a < b THEN a ELSE b

-----------------------------------------------------------------------------
(* Writer::AddRecord: each fragment's bytes and the block_offset_ behind it. *)
Leftover(offset) == kBlockSize - offset < kHeaderSize
Available(offset) == kBlockSize - offset - kHeaderSize
FragmentType(begin, end) ==
  IF begin /\ end THEN "full" ELSE IF begin THEN "first" ELSE IF end THEN "last" ELSE "middle"
AddRecord(id, length, offset0) ==
  LET RECURSIVE Emit(_, _, _)
      Emit(done, offset, begin) ==
        LET trailer == IF Leftover(offset) THEN Zeroes(kBlockSize - offset) ELSE <<>>
            at == IF Leftover(offset) THEN 0 ELSE offset
            n == MinOf(length - done, Available(at))
            end == n = length - done
            type == FragmentType(begin, end)
            fragment == [bytes |-> trailer \o Header(type, n, Sum(type, n, id, done))
                                           \o SubSeq(Payload(id, length), done + 1, done + n),
                         offset |-> at + kHeaderSize + n]
        IN  <<fragment>> \o (IF end THEN <<>> ELSE Emit(done + n, fragment.offset, FALSE))
  IN  Emit(0, offset0, TRUE)
BytesOf(fragments) == FlattenSeq([i \in DOMAIN fragments |-> fragments[i].bytes])

-----------------------------------------------------------------------------
(* log::Reader.  reports counts the calls of reporter_->Corruption; at is   *)
(* the place of its file, which cannot be read or skipped at place bad.     *)
NewReader(initial_offset, bad) ==
  [at |-> 0, bad |-> bad, buffer |-> <<>>, eof |-> FALSE, last_record_offset |-> 0,
   end_of_buffer_offset |-> 0, initial_offset |-> initial_offset, reports |-> 0,
   done |-> FALSE]
ReportCorruption(r, bytes) ==
  IF (r.end_of_buffer_offset - Len(r.buffer) - bytes) % Uint64 >= r.initial_offset
  THEN [r EXCEPT !.reports = @ + 1] ELSE r
Drop(r) == [r EXCEPT !.buffer = <<>>]

InitialBlock(r) ==
  LET offset == r.initial_offset % kBlockSize
  IN  r.initial_offset - offset + (IF offset > kBlockSize - (kHeaderSize - 1) THEN kBlockSize ELSE 0)
SkipFails(r) == r.last_record_offset < r.initial_offset /\ InitialBlock(r) > 0 /\ r.at = r.bad
SkipToInitialBlock(r) ==
  LET there == [r EXCEPT !.end_of_buffer_offset = InitialBlock(r)]
  IN  IF r.last_record_offset >= r.initial_offset THEN r
      ELSE IF SkipFails(r) THEN ReportCorruption(there, InitialBlock(r))
      ELSE [there EXCEPT !.at = MinOf(InitialBlock(r), Len(file))]
Result(r, type, bytes) == [reader |-> r, type |-> type, bytes |-> bytes]

ReadPhysicalRecord(reader0) ==
  LET RECURSIVE Fill(_)
      Fill(r) ==
        LET n == MinOf(kBlockSize, Len(file) - r.at)
            filled == [r EXCEPT !.buffer = SubSeq(file, r.at + 1, r.at + n), !.at = @ + n,
                                !.end_of_buffer_offset = @ + n, !.eof = n < kBlockSize]
            head == r.buffer[1]
            size == kHeaderSize + head.length
            rest == [r EXCEPT !.buffer = SubSeq(@, size + 1, Len(@))]
        IN  IF Len(r.buffer) < kHeaderSize
            THEN IF r.eof THEN Result(Drop(r), "eof", <<>>)
                 ELSE IF r.at = r.bad
                 THEN Result(ReportCorruption([Drop(r) EXCEPT !.eof = TRUE], kBlockSize), "eof", <<>>)
                 ELSE Fill(filled)
            ELSE IF size > Len(r.buffer)
            THEN IF r.eof THEN Result(Drop(r), "eof", <<>>)
                 ELSE Result(ReportCorruption(Drop(r), Len(r.buffer)), "bad", <<>>)
            ELSE IF head.type = "zero" /\ head.length = 0 THEN Result(Drop(r), "bad", <<>>)
            ELSE IF ~CrcMatches(head, SubSeq(r.buffer, kHeaderSize + 1, size))
            THEN Result(ReportCorruption(Drop(r), Len(r.buffer)), "bad", <<>>)
            ELSE IF r.end_of_buffer_offset - Len(r.buffer) < r.initial_offset
            THEN Result(rest, "bad", <<>>)
            ELSE Result(rest, head.type, SubSeq(r.buffer, kHeaderSize + 1, size))
  IN  Fill(reader0)

NoFragment == [in_fragment |-> FALSE, bytes |-> <<>>, at |-> 0]
AtEof(p, s) == [to |-> "eof", reader |-> p.reader, s |-> NoFragment]
AtBadRecord_Bug(p, s) ==
  [to |-> "loop", s |-> s,
   reader |-> IF s.in_fragment THEN ReportCorruption(p.reader, Len(s.bytes)) ELSE p.reader]
AtBadRecord(p, s) ==
  [to |-> "loop", s |-> NoFragment,
   reader |-> IF s.in_fragment THEN ReportCorruption(p.reader, Len(s.bytes)) ELSE p.reader]
(* One turn of ReadRecord's loop, after a physical record: the reader, the  *)
(* pieces gathered so far (scratch, at: where they begin), what to return.  *)
Turn(p, offset, s) ==
  LET partial == s.in_fragment /\ s.bytes # <<>>
      told == IF partial THEN ReportCorruption(p.reader, Len(s.bytes)) ELSE p.reader
      missing == ReportCorruption(p.reader, Len(p.bytes))
      unknown == ReportCorruption(p.reader, Len(p.bytes) + Len(s.bytes))
  IN  CASE p.type = "full" -> [to |-> "return", reader |-> told, s |-> [s EXCEPT !.bytes = p.bytes, !.at = offset]]
        [] p.type = "first" -> [to |-> "loop", reader |-> told,
                                s |-> [in_fragment |-> TRUE, bytes |-> p.bytes, at |-> offset]]
        [] p.type = "middle" /\ s.in_fragment ->
             [to |-> "loop", reader |-> p.reader, s |-> [s EXCEPT !.bytes = @ \o p.bytes]]
        [] p.type = "last" /\ s.in_fragment ->
             [to |-> "return", reader |-> p.reader, s |-> [s EXCEPT !.bytes = @ \o p.bytes]]
        [] p.type \in {"middle", "last"} /\ ~s.in_fragment -> [to |-> "loop", reader |-> missing, s |-> s]
        [] p.type = "eof" -> AtEof(p, s)
        [] p.type = "bad" -> AtBadRecord(p, s)
        [] OTHER -> [to |-> "loop", reader |-> unknown, s |-> NoFragment]

ReadRecord(reader0) ==
  LET RECURSIVE Loop(_, _)
      Loop(r, s) ==
        LET p == ReadPhysicalRecord(r)
            t == Turn(p, r.end_of_buffer_offset - Len(r.buffer), s)
        IN  IF t.to = "loop" THEN Loop(t.reader, t.s) ELSE t
  IN  IF SkipFails(reader0) THEN [to |-> "eof", reader |-> SkipToInitialBlock(reader0), s |-> NoFragment]
      ELSE Loop(SkipToInitialBlock(reader0), NoFragment)

-----------------------------------------------------------------------------
(* A log is written, something happens to it, it is read.                   *)
Damage(kind, at) == [kind |-> kind, at |-> at]
Torn == {i \in DOMAIN starts : ~starts[i].whole}
Init ==
  /\ file = <<>> /\ block_offset_ = 0 /\ starts = <<>> /\ results = <<>>
  /\ reader = NewReader(0, -1) /\ damage = Damage("writing", 0)
Started(n, whole, bytes) ==
  Append(starts, [length |-> n, whole |-> whole, end |-> Len(file) + Len(bytes),
                  at |-> Len(file) + (IF Leftover(block_offset_) THEN kBlockSize - block_offset_ ELSE 0)])
Write(n) ==
  LET fragments == AddRecord(Len(starts) + 1, n, block_offset_)
  IN  /\ damage.kind = "writing" /\ Len(starts) < MaxRecords
      /\ file' = file \o BytesOf(fragments) /\ block_offset_' = Last(fragments).offset
      /\ starts' = Started(n, TRUE, BytesOf(fragments))
      /\ UNCHANGED <<reader, results, damage>>
(* The file takes only a part of a fragment and returns an error; the       *)
(* writer counts the whole fragment and later records follow.               *)
WriteFails(n) ==
  LET fragments == AddRecord(Len(starts) + 1, n, block_offset_)
  IN  /\ damage.kind = "writing" /\ Len(starts) < MaxRecords
      /\ Torn = {}
      /\ \E i \in DOMAIN fragments : \E m \in 0..Len(fragments[i].bytes) - 1 :
           LET bytes == BytesOf(SubSeq(fragments, 1, i - 1)) \o SubSeq(fragments[i].bytes, 1, m)
           IN  /\ file' = file \o bytes /\ starts' = Started(n, FALSE, bytes)
               /\ block_offset_' = fragments[i].offset
      /\ UNCHANGED <<reader, results, damage>>
(* The writer is gone in the middle of an append: a part of the file.       *)
Crash ==
  /\ damage.kind = "writing" /\ file # <<>> /\ Torn = {}
  /\ \E n \in 0..Len(file) - 1 : file' = SubSeq(file, 1, n)
  /\ damage' = Damage("crash", 0) /\ UNCHANGED <<block_offset_, starts, reader, results>>
(* One fragment is damaged: its checksum or a byte that it covers, its      *)
(* type, its length, or its whole header is zeroes.                         *)
Types == {"full", "first", "middle", "last"}
Damaged(h) ==
  {[h EXCEPT !.crc = NoSum]} \cup {[h EXCEPT !.type = t] : t \in Types \cup {"zero"}}
    \cup {[h EXCEPT !.length = n] : n \in 0..kBlockSize}
Corrupt ==
  /\ damage.kind = "writing" /\ Torn = {}
  /\ \E i \in {j \in DOMAIN file : file[j].type \in Types} :
       /\ \/ \E h \in Damaged(file[i]) \ {file[i]} : file' = [file EXCEPT ![i] = h]
          \/ file' = [j \in DOMAIN file |-> IF j \in i..i + kHeaderSize - 1 THEN Zero ELSE file[j]]
       /\ damage' = Damage("header", i)
  /\ UNCHANGED <<block_offset_, starts, reader, results>>
Open ==
  /\ damage.kind = "writing"
  /\ \E offset \in IF Torn = {} THEN 0..Len(file) ELSE {0} : reader' = NewReader(offset, -1)
  /\ damage' = Damage("none", 0) /\ UNCHANGED <<file, block_offset_, starts, results>>
(* The file is whole, but a block of it cannot be read.                     *)
Unreadable ==
  /\ damage.kind = "writing" /\ Torn = {}
  /\ \E offset \in 0..Len(file), bad \in {n \in 0..Len(file) : n % kBlockSize = 0} :
       reader' = NewReader(offset, bad)
  /\ damage' = Damage("unreadable", 0) /\ UNCHANGED <<file, block_offset_, starts, results>>
Read ==
  LET t == ReadRecord(reader)
  IN  /\ damage.kind # "writing" /\ ~reader.done
      /\ IF t.to = "return"
         THEN /\ results' = Append(results, t.s.bytes)
              /\ reader' = [t.reader EXCEPT !.last_record_offset = t.s.at]
         ELSE reader' = [t.reader EXCEPT !.done = TRUE] /\ UNCHANGED results
      /\ UNCHANGED <<file, block_offset_, starts, damage>>
Next == (\E n \in Lengths : Write(n) \/ WriteFails(n)) \/ Crash \/ Corrupt \/ Open \/ Unreadable \/ Read
Spec == Init /\ [][Next]_vars

-----------------------------------------------------------------------------
Record(i) == Payload(i, starts[i].length)
Records(P) == LET picked == SelectSeq([i \in DOMAIN starts |-> i], LAMBDA i : i \in P)
              IN  [i \in DOMAIN picked |-> Record(picked[i])]

(* The writer knows its place in the block as long as no append failed.     *)
TypeOK ==
  /\ block_offset_ \in 0..kBlockSize
  /\ damage.kind = "writing" /\ Torn = {} /\ file # <<>> => block_offset_ = 1 + ((Len(file) - 1) % kBlockSize)
  /\ Len(results) <= MaxRecords

(* A whole file is read back record by record, from the first record at or  *)
(* behind initial_offset, whichever byte that is.                           *)
ReadBack ==
  damage.kind = "none" /\ Torn = {} /\ reader.done =>
    results = Records({i \in DOMAIN starts : starts[i].at >= reader.initial_offset})

(* After a crash at any byte the complete records are read and nothing is   *)
(* reported: a torn tail is no corruption (log_reader.cc 136-138, 199-202,  *)
(* 221-223).                                                                *)
TornTailIsSilent ==
  damage.kind = "crash" /\ Torn = {} /\ reader.done =>
    results = Records({i \in DOMAIN starts : starts[i].end <= Len(file)}) /\ reader.reports = 0

(* What the reader takes a damaged header for: a region that was allocated  *)
(* and not written, or the torn tail of a last block.                       *)
Block(i) == (i - 1) \div kBlockSize
LooksUnwritten(i) == file[i].type = "zero" /\ file[i].length = 0
LooksTorn(i) ==
  i - 1 + kHeaderSize + file[i].length > Len(file) /\ Len(file) < (Block(i) + 1) * kBlockSize

(* With a block unreadable or a fragment damaged in its checksum, payload,  *)
(* type or length, a reader of the whole file that misses a record has      *)
(* reported something, unless the header looks unwritten or torn: those two *)
(* the code drops without a word (log_reader.cc 211-259).                   *)
CorruptionIsReported ==
  reader.done /\ reader.initial_offset = 0 /\ Len(results) < Len(starts) =>
    /\ damage.kind = "unreadable" => reader.reports > 0
    /\ damage.kind = "header" =>
         reader.reports > 0 \/ LooksUnwritten(damage.at) \/ LooksTorn(damage.at)

(* A damaged fragment, reported or not, costs only records with a byte in   *)
(* its block: the reader finds the next block's first record again.         *)
DamageStaysInBlock ==
  damage.kind = "header" /\ reader.done =>
    \A i \in DOMAIN starts :
      (Block(starts[i].end) < Block(damage.at) \/ Block(starts[i].at + 1) > Block(damage.at)) =>
        \E k \in DOMAIN results : results[k] = Record(i)

(* Whatever happened - a failed append with records behind it, a crash, a   *)
(* corruption - ReadRecord returns only records as they were written and in *)
(* their order, never a piece of one or pieces of two; and what precedes    *)
(* a failed append is read.                                                 *)
NothingInvented ==
  /\ \E P \in SUBSET DOMAIN starts : results = Records(P)
  /\ damage.kind = "none" /\ reader.done /\ reader.initial_offset = 0 =>
       \A i \in DOMAIN starts : (\A j \in Torn : i < j) => \E k \in DOMAIN results : results[k] = Record(i)
=============================================================================
