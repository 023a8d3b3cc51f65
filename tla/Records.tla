------------------------------ MODULE Records ------------------------------
(***************************************************************************)
(* The records of logs and MANIFESTs as bytes: varints, VersionEdit and    *)
(* WriteBatch, written and read back, whole or cut off; and the numbers in *)
(* file names.  A behaviour builds one edit, two batches, a varint or a    *)
(* name.                                                                   *)
(***************************************************************************)
EXTENDS Integers, Sequences, SequencesExt, FiniteSets

CONSTANTS
  Numbers,            \* file numbers, sequence numbers and sizes
  Strings,            \* keys, values and comparator names: sequences of bytes
  Levels, kNumLevels, \* levels of edits; 7 in the code
  MaxOps,             \* bound: calls that build an edit or a batch
  B, Uint32, Uint64,  \* 128, 2^32 and 2^64 in the code, so that a uint32_t takes
                      \* up to 5 bytes of a varint and a uint64_t up to 10
  Digits, MaxDigits   \* digits of file names; bound: their number

VARIABLES
  mode,       \* what this behaviour builds
  edit,       \* VersionEdit
  batch,      \* two WriteBatches: bytes behind the header, count and sequence
  operations, \* the operations put into each
  digits      \* of a file name, or the bytes of a varint
vars == <<mode, edit, batch, operations, digits>>

-----------------------------------------------------------------------------
(* Varints and length-prefixed slices.  A read returns what is left.        *)
RECURSIVE PutVarint(_)
PutVarint(v) == IF v < B THEN <<v>> ELSE <<(v % B) + B>> \o PutVarint(v \div B)
PutLengthPrefixedSlice(s) == PutVarint(Len(s)) \o s

Failed == [ok |-> FALSE]
GetVarint(in, max_bytes, size) ==
  LET ends == {i \in DOMAIN in : i <= max_bytes /\ in[i] < B}
      end == CHOOSE i \in ends : \A j \in ends : i <= j
      Byte(i) == (in[i] % B) * B ^ (i - 1)
  IN  IF ends = {} THEN Failed
      ELSE [ok |-> TRUE, value |-> FoldLeft(LAMBDA n, i : (n + Byte(i)) % size, 0, [i \in 1..end |-> i]),
            rest |-> SubSeq(in, end + 1, Len(in))]
GetVarint32(in) == GetVarint(in, 5, Uint32)
GetVarint64(in) == GetVarint(in, 10, Uint64)
SliceBehind(n) ==
  IF ~n.ok \/ n.value > Len(n.rest) THEN Failed
  ELSE [ok |-> TRUE, value |-> SubSeq(n.rest, 1, n.value), rest |-> SubSeq(n.rest, n.value + 1, Len(n.rest))]
GetLengthPrefixedSlice(in) == SliceBehind(GetVarint32(in))
LevelOf(n) == IF n.ok /\ n.value < kNumLevels THEN n ELSE Failed
GetLevel(in) == LevelOf(GetVarint32(in))

(* Several values one after the other.                                      *)
Get(kind, in) ==
  CASE kind = "level" -> GetLevel(in)
    [] kind = "number" -> GetVarint64(in)
    [] kind = "slice" -> GetLengthPrefixedSlice(in)
Put(kind, v) == IF kind = "slice" THEN PutLengthPrefixedSlice(v) ELSE PutVarint(v)
PutAll(kinds, values) == FlattenSeq([i \in DOMAIN kinds |-> Put(kinds[i], values[i])])
GetAll(kinds, in) ==
  LET With(r, g) == IF ~r.ok \/ ~g.ok THEN [r EXCEPT !.ok = FALSE]
                    ELSE [ok |-> TRUE, values |-> Append(r.values, g.value), rest |-> g.rest]
      Step(r, kind) == With(r, Get(kind, r.rest))
  IN  FoldLeft(Step, [ok |-> TRUE, values |-> <<>>, rest |-> in], kinds)

-----------------------------------------------------------------------------
(* VersionEdit: a list for each field, of at most one value where the code  *)
(* has a has_ flag, in the order of EncodeTo.                               *)
Fields == <<"comparator", "log_number", "prev_log_number", "next_file_number", "last_sequence",
            "compact_pointers", "deleted_files", "new_files">>
Tag == [comparator |-> 1, log_number |-> 2, prev_log_number |-> 9, next_file_number |-> 3, last_sequence |-> 4,
        compact_pointers |-> 5, deleted_files |-> 6, new_files |-> 7]
Layout == [comparator |-> <<"slice">>, log_number |-> <<"number">>, prev_log_number |-> <<"number">>,
           next_file_number |-> <<"number">>, last_sequence |-> <<"number">>,
           compact_pointers |-> <<"level", "slice">>, deleted_files |-> <<"level", "number">>,
           new_files |-> <<"level", "number", "number", "slice", "slice">>]
EmptyEdit == [f \in Range(Fields) |-> <<>>]
Clear(e) == [f \in Range(Fields) |-> IF f = "compact_pointers" THEN e[f] ELSE <<>>]

EncodeTo(e) ==
  FlattenSeq([i \in DOMAIN Fields |->
    FlattenSeq([j \in DOMAIN e[Fields[i]] |->
      PutVarint(Tag[Fields[i]]) \o PutAll(Layout[Fields[i]], e[Fields[i]][j])])])

(* deleted_files_ is a set in order of level and number.                    *)
SetInsert(list, x) ==
  LET Smaller(a, b) == a[1] < b[1] \/ (a[1] = b[1] /\ a[2] < b[2])
  IN  IF x \in Range(list) THEN list
      ELSE SelectSeq(list, LAMBDA y : Smaller(y, x)) \o <<x>> \o SelectSeq(list, LAMBDA y : Smaller(x, y))
Enter(e, f, values) ==
  [e EXCEPT ![f] = IF f = "deleted_files" THEN SetInsert(@, values)
                   ELSE IF f \in {"compact_pointers", "new_files"} THEN Append(@, values) ELSE <<values>>]
RECURSIVE DecodeEntries(_, _)
DecodeBody(e, f, body) ==
  IF ~body.ok THEN Failed ELSE DecodeEntries(body.rest, Enter(e, f, body.values))
DecodeEntry(in, e, tag) ==
  LET fields == {f \in Range(Fields) : Tag[f] = tag.value}
      f == CHOOSE g \in fields : TRUE
  IN  IF ~tag.ok THEN [ok |-> in = <<>>, edit |-> e]
      ELSE IF fields = {} THEN Failed ELSE DecodeBody(e, f, GetAll(Layout[f], tag.rest))
DecodeEntries(in, e) == DecodeEntry(in, e, GetVarint32(in))
DecodeFrom(e, in) == DecodeEntries(in, Clear(e))

-----------------------------------------------------------------------------
(* WriteBatch: header and body.                                             *)
EmptyBatch == [sequence |-> 0, count |-> 0, body |-> <<>>]
BatchPut(b, key, value) ==
  [b EXCEPT !.count = @ + 1, !.body = @ \o <<1>> \o PutLengthPrefixedSlice(key) \o PutLengthPrefixedSlice(value)]
BatchDelete(b, key) == [b EXCEPT !.count = @ + 1, !.body = @ \o <<0>> \o PutLengthPrefixedSlice(key)]
BatchAppend(dst, src) == [dst EXCEPT !.count = @ + src.count, !.body = @ \o src.body]

(* Iterate with MemTableInserter as its handler: the entries added and the  *)
(* status.                                                                  *)
RECURSIVE IterateFrom(_, _)
Handled(name, slices, done) ==
  IF ~slices.ok THEN [ok |-> FALSE, done |-> done]
  ELSE IterateFrom(slices.rest, Append(done, <<name>> \o slices.values))
IterateFrom(in, done) ==
  CASE in = <<>> -> [ok |-> TRUE, done |-> done]
    [] in # <<>> /\ in[1] = 1 -> Handled("Put", GetAll(<<"slice", "slice">>, Tail(in)), done)
    [] in # <<>> /\ in[1] = 0 -> Handled("Delete", GetAll(<<"slice">>, Tail(in)), done)
    [] OTHER -> [ok |-> FALSE, done |-> done]
Counted(r, count) == [r EXCEPT !.ok = @ /\ Len(r.done) = count]
Iterate_Bug(b) == IterateFrom(b.body, <<>>)
Iterate(b) == Counted(IterateFrom(b.body, <<>>), b.count)
Numbered(r, sequence) ==
  [ok |-> r.ok, added |-> [i \in DOMAIN r.done |-> [sequence |-> sequence + i - 1, op |-> r.done[i]]]]
InsertInto(b) == Numbered(Iterate(b), b.sequence)

-----------------------------------------------------------------------------
(* ConsumeDecimalNumber.                                                    *)
kMaxUint64 == Uint64 - 1
Overflows(v, delta) ==
  v > kMaxUint64 \div 10 \/ (v = kMaxUint64 \div 10 /\ delta > kMaxUint64 % 10)
ConsumeDecimalNumber(in) ==
  LET Step(r, delta) ==
        IF ~r.ok \/ Overflows(r.value, delta) THEN [r EXCEPT !.ok = FALSE]
        ELSE [ok |-> TRUE, value |-> (r.value * 10 + delta) % (kMaxUint64 + 1)]
  IN  FoldLeft(Step, [ok |-> in # <<>>, value |-> 0], in)
(* MakeFileName's %06llu.                                                   *)
RECURSIVE Decimal(_)
Decimal(n) == IF n < 10 THEN <<n>> ELSE Append(Decimal(n \div 10), n % 10)
SixDigits(n) == [i \in 1..6 - Len(Decimal(n)) |-> 0] \o Decimal(n)

-----------------------------------------------------------------------------
Init ==
  /\ mode \in {"edit", "batch", "varint", "name"} /\ edit = EmptyEdit /\ digits = <<>>
  /\ batch = <<EmptyBatch, EmptyBatch>> /\ operations = <<<<>>, <<>>>>
EditSize == FoldLeft(LAMBDA n, f : n + Len(edit[f]), 0, Fields)
SetField ==
  /\ mode = "edit" /\ EditSize < MaxOps
  /\ \/ \E f \in {"log_number", "prev_log_number", "next_file_number", "last_sequence"}, n \in Numbers :
          edit' = Enter(edit, f, <<n>>)
     \/ \E s \in Strings : edit' = Enter(edit, "comparator", <<s>>)
  /\ UNCHANGED <<mode, batch, operations, digits>>
SetCompactPointer ==
  /\ mode = "edit" /\ EditSize < MaxOps
  /\ \E l \in Levels, s \in Strings : edit' = Enter(edit, "compact_pointers", <<l, s>>)
  /\ UNCHANGED <<mode, batch, operations, digits>>
DeleteFile ==
  /\ mode = "edit" /\ EditSize < MaxOps
  /\ \E l \in Levels, n \in Numbers : edit' = Enter(edit, "deleted_files", <<l, n>>)
  /\ UNCHANGED <<mode, batch, operations, digits>>
AddFile ==
  /\ mode = "edit" /\ EditSize < MaxOps
  /\ \E l \in Levels, n \in Numbers, s, t \in Strings : edit' = Enter(edit, "new_files", <<l, n, n + 1, s, t>>)
  /\ UNCHANGED <<mode, batch, operations, digits>>
PutOrDelete ==
  /\ mode = "batch" /\ Len(operations[1]) + Len(operations[2]) < MaxOps
  /\ \E i \in 1..2, key \in Strings :
       \/ \E value \in Strings : /\ batch' = [batch EXCEPT ![i] = BatchPut(@, key, value)]
                                 /\ operations' = [operations EXCEPT ![i] = Append(@, <<"Put", key, value>>)]
       \/ /\ batch' = [batch EXCEPT ![i] = BatchDelete(@, key)]
          /\ operations' = [operations EXCEPT ![i] = Append(@, <<"Delete", key>>)]
  /\ UNCHANGED <<mode, edit, digits>>
(* BuildBatchGroup appends batches to tmp_batch_, Write numbers the group.  *)
Group ==
  /\ mode = "batch" /\ Len(operations[1]) + Len(operations[2]) <= MaxOps /\ operations[2] # <<>>
  /\ \E s \in Numbers : batch' = <<[BatchAppend(batch[1], batch[2]) EXCEPT !.sequence = s], EmptyBatch>>
  /\ operations' = <<operations[1] \o operations[2], <<>>>>
  /\ UNCHANGED <<mode, edit, digits>>
Digit ==
  /\ mode = "name" /\ Len(digits) < MaxDigits
  /\ \E d \in Digits : digits' = Append(digits, d)
  /\ UNCHANGED <<mode, edit, batch, operations>>
(* A varint goes on as long as its bytes say so.                            *)
VarintByte ==
  /\ mode = "varint" /\ Len(digits) <= 10 /\ \A i \in DOMAIN digits : digits[i] >= B
  /\ \E b \in {0, 1, B - 1, B, 2 * B - 1} : digits' = Append(digits, b)
  /\ UNCHANGED <<mode, edit, batch, operations>>
Next == VarintByte \/ SetField \/ SetCompactPointer \/ DeleteFile \/ AddFile \/ PutOrDelete \/ Group \/ Digit
Spec == Init /\ [][Next]_vars

-----------------------------------------------------------------------------
(* Every byte is one, and a batch counts its operations.                    *)
TypeOK ==
  /\ Range(EncodeTo(edit)) \subseteq 0..255
  /\ \A i \in 1..2 : batch[i].count = Len(operations[i])

(* An edit read back is the edit written; a part of its bytes is refused or *)
(* is exactly the edit those bytes are the encoding of.                     *)
EditReadBack ==
  mode = "edit" =>
    LET bytes == EncodeTo(edit)
    IN  /\ DecodeFrom(EmptyEdit, bytes) = [ok |-> TRUE, edit |-> edit]
        /\ \A n \in 0..Len(bytes) - 1 :
             LET part == DecodeFrom(EmptyEdit, SubSeq(bytes, 1, n))
             IN  part.ok => EncodeTo(part.edit) = SubSeq(bytes, 1, n)

(* A batch, grouped or not, inserts its operations in order under numbers   *)
(* that follow each other.  A part of it is refused, after inserting a      *)
(* prefix of them.                                                          *)
BatchReadBack ==
  mode = "batch" =>
    \A i \in 1..2 :
      LET b == batch[i]
          Added(n) == [j \in 1..n |-> [sequence |-> b.sequence + j - 1, op |-> operations[i][j]]]
      IN  /\ InsertInto(b) = [ok |-> TRUE, added |-> Added(Len(operations[i]))]
          /\ \A n \in 0..Len(b.body) - 1 :
               LET part == InsertInto([b EXCEPT !.body = SubSeq(@, 1, n)])
               IN  ~part.ok /\ part.added = Added(Len(part.added))

(* A varint is read as the number it stands for if that fits its type, and  *)
(* refused if it does not end within the bytes its type may take; bits      *)
(* beyond the type are dropped.  Every number of a type takes no more bytes *)
(* than that and is read back.                                              *)
VarintReadBack ==
  mode = "varint" /\ digits # <<>> =>
    LET v == FoldRight(LAMBDA b, n : n * B + (b % B), digits, 0)
        Read(n) == [ok |-> TRUE, value |-> n, rest |-> <<>>]
        Accepted(max_bytes) == Last(digits) < B /\ Len(digits) <= max_bytes
    IN  /\ GetVarint32(digits) = IF Accepted(5) THEN Read(v % Uint32) ELSE Failed
        /\ GetVarint64(digits) = IF Accepted(10) THEN Read(v % Uint64) ELSE Failed
        /\ v < Uint32 => GetVarint32(PutVarint(v)) = Read(v)
        /\ v < Uint64 => GetVarint64(PutVarint(v)) = Read(v)

(* A number in a file name is read as it is or, beyond 64 bits, refused;    *)
(* what MakeFileName writes is read back.                                   *)
NumbersReadBack ==
  mode = "name" =>
    LET value == FoldLeft(LAMBDA n, d : 10 * n + d, 0, digits)
        read == ConsumeDecimalNumber(digits)
    IN  /\ read.ok <=> digits # <<>> /\ value <= kMaxUint64
        /\ read.ok => read.value = value /\ ConsumeDecimalNumber(SixDigits(value)) = read
=============================================================================
