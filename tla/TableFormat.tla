---------------------------- MODULE TableFormat ----------------------------
(***************************************************************************)
(* A table file: TableBuilder, BlockBuilder and FilterBlockBuilder write   *)
(* it, Table, Block, FilterBlockReader and the bloom filter read it.  An   *)
(* internal key is a sequence of bytes, the last of which stands for the   *)
(* eight bytes of sequence number and type.  Blocks keep their entries as  *)
(* they are encoded (shared length, delta); sizes count bytes.             *)
(***************************************************************************)
EXTENDS Integers, Sequences, FiniteSets, SequencesExt

CONSTANTS
  UserKeys, Tags,           \* user keys (sequences over 0..MaxByte), numbers of entries
  MaxByte, MaxTag,          \* 0xff; kMaxSequenceNumber with kValueTypeForSeek
  BlockSizes, block_restart_interval,  \* options a table is built with
  kFilterBase,              \* 2048 in the code
  bits_per_key, MinBits, HashBits,  \* 64 and 32 in the code
  BloomHash,                \* Hash of each user key
  MaxEntries,               \* bound: entries of a table
  FailingAppends            \* which Append of the file fails; 0 is none

VARIABLES
  rep,      \* TableBuilder::Rep
  file,     \* the blocks of the file by their offset
  added,    \* the keys the caller added
  table     \* Table::Rep, once opened
vars == <<rep, file, added, table>>

kBlockTrailerSize == 5
Word == 4
kEncodedLength == 48

-----------------------------------------------------------------------------
(* Comparators.                                                             *)
MinOf(a, b) == IF a < b THEN a ELSE b
MaxOf(a, b) == IF a > b THEN a ELSE b
SharedLength(a, b) ==
  CHOOSE n \in 0..MinOf(Len(a), Len(b)) :
    /\ SubSeq(a, 1, n) = SubSeq(b, 1, n)
    /\ n < MinOf(Len(a), Len(b)) => a[n + 1] # b[n + 1]
Before(a, b) ==
  LET n == SharedLength(a, b)
  IN  IF n = MinOf(Len(a), Len(b)) THEN Len(a) < Len(b) ELSE a[n + 1] < b[n + 1]
BytewiseSeparator(start, limit) ==
  LET n == SharedLength(start, limit)
  IN  IF n < MinOf(Len(start), Len(limit)) /\ start[n + 1] < MaxByte /\ start[n + 1] + 1 < limit[n + 1]
      THEN SubSeq(start, 1, n) \o <<start[n + 1] + 1>> ELSE start
BytewiseSuccessor(key) ==
  LET low == {i \in DOMAIN key : key[i] # MaxByte}
      i == CHOOSE j \in low : \A k \in low : j <= k
  IN  IF low = {} THEN key ELSE SubSeq(key, 1, i - 1) \o <<key[i] + 1>>

ExtractUserKey(key) == Front(key)
Less(a, b) ==
  \/ Before(ExtractUserKey(a), ExtractUserKey(b))
  \/ ExtractUserKey(a) = ExtractUserKey(b) /\ Last(a) > Last(b)
Shortened(key, user) ==
  IF Len(user) < Len(ExtractUserKey(key)) /\ Before(ExtractUserKey(key), user)
  THEN Append(user, MaxTag) ELSE key
FindShortSuccessor(key) == Shortened(key, BytewiseSuccessor(ExtractUserKey(key)))
FindShortestSeparator(start, limit) ==
  Shortened(start, BytewiseSeparator(ExtractUserKey(start), ExtractUserKey(limit)))

-----------------------------------------------------------------------------
(* BlockBuilder.                                                            *)
EmptyBlock(interval) ==
  [entries |-> <<>>, size |-> 0, restarts |-> <<0>>, counter |-> 0, last_key |-> <<>>, interval |-> interval]
CurrentSizeEstimate(b) == b.size + Word * Len(b.restarts) + Word
BlockAdd(b, key, value) ==
  LET shared == IF b.counter < b.interval THEN SharedLength(b.last_key, key) ELSE 0
      entry == [at |-> b.size, shared |-> shared, delta |-> SubSeq(key, shared + 1, Len(key)), value |-> value]
  IN  [b EXCEPT !.entries = Append(@, entry), !.size = @ + 3 + Len(entry.delta) + 1, !.last_key = key,
                !.restarts = IF b.counter < b.interval THEN @ ELSE Append(@, b.size),
                !.counter = IF b.counter < b.interval THEN @ + 1 ELSE 1]

-----------------------------------------------------------------------------
(* The bloom filter and FilterBlockBuilder.                                 *)
Probes(hash, bits, k) ==
  LET half == 2 ^ (HashBits - HashBits \div 2 - 1)
      delta == hash \div (2 ^ (HashBits \div 2 + 1)) + ((hash * half) % (2 ^ HashBits))
  IN  {((hash + j * delta) % (2 ^ HashBits)) % bits : j \in 0..k - 1}
NumProbes == MinOf(MaxOf((bits_per_key * 69) \div 100, 1), 30)
CreateFilter(users) ==
  LET bytes == (MaxOf(Len(users) * bits_per_key, MinBits) + 7) \div 8
  IN  [size |-> bytes + 1, k |-> NumProbes,
       bits |-> UNION {Probes(BloomHash[users[i]], 8 * bytes, NumProbes) : i \in DOMAIN users}]
NoFilter == [size |-> 0, k |-> 0, bits |-> {}]
BloomMayMatch(user, filter) ==
  /\ filter.size >= 2
  /\ \/ filter.k > 30
     \/ Probes(BloomHash[user], 8 * (filter.size - 1), filter.k) \subseteq filter.bits

EmptyFilterBlock == [start |-> <<>>, filters |-> <<>>]
AddKey(f, key) == [f EXCEPT !.start = Append(@, ExtractUserKey(key))]
GenerateFilter(f) ==
  [start |-> <<>>, filters |-> Append(f.filters, IF f.start = <<>> THEN NoFilter ELSE CreateFilter(f.start))]
StartBlock_Bug(f, block_offset) ==
  IF block_offset \div kFilterBase > Len(f.filters) THEN GenerateFilter(f) ELSE f
StartBlock(f, block_offset) ==
  LET more == block_offset \div kFilterBase - Len(f.filters)
  IN  IF more <= 0 THEN f
      ELSE [start |-> <<>>, filters |-> GenerateFilter(f).filters \o [i \in 1..more - 1 |-> NoFilter]]
FilterFinish(f) == IF f.start = <<>> THEN f.filters ELSE GenerateFilter(f).filters
FilterSize(filters) == FoldLeft(LAMBDA n, f : n + f.size + Word, Word + 1, filters)

-----------------------------------------------------------------------------
(* TableBuilder.  fails is the number of the block whose Append fails.      *)
Handle(offset, size) == [offset |-> offset, size |-> size]
NewTableBuilder(fails, compression, block_size) ==
  [offset |-> 0, ok |-> TRUE, data |-> EmptyBlock(block_restart_interval), index |-> EmptyBlock(1),
   last_key |-> <<>>, filter |-> StartBlock(EmptyFilterBlock, 0), pending |-> FALSE,
   pending_handle |-> Handle(0, 0), closed |-> FALSE, fails |-> fails, compression |-> compression, block_size |-> block_size,
   blocks |-> <<>>]

WriteRawBlock(r, contents, size, type) ==
  LET block == [contents |-> contents, type |-> type, at |-> r.offset, size |-> size, crc |-> TRUE]
  IN  IF Len(r.blocks) + 1 = r.fails THEN [r EXCEPT !.ok = FALSE]
      ELSE [r EXCEPT !.blocks = Append(@, block), !.offset = @ + size + kBlockTrailerSize]
WriteBlock(r, b) ==
  LET raw == CurrentSizeEstimate(b)
      compressed == IF r.compression THEN raw \div 2 ELSE raw
  IN  WriteRawBlock(r, [kind |-> "block", entries |-> b.entries, restarts |-> b.restarts],
        IF compressed < raw - raw \div 8 THEN compressed ELSE raw,
        IF compressed < raw - raw \div 8 THEN "kSnappyCompression" ELSE "kNoCompression")
Written(r, w) == Handle(r.offset, w.offset - r.offset - kBlockTrailerSize)
Flushed(r, w) ==
  [w EXCEPT !.data = EmptyBlock(block_restart_interval), !.pending_handle = Written(r, w),
            !.pending = w.ok, !.filter = StartBlock(@, w.offset)]
Flush(r) ==
  IF ~r.ok \/ r.data.entries = <<>> THEN r ELSE Flushed(r, WriteBlock(r, r.data))
TableAdd(r, key) ==
  LET indexed == IF r.pending
                 THEN [r EXCEPT !.index = BlockAdd(@, FindShortestSeparator(r.last_key, key), r.pending_handle),
                                !.pending = FALSE]
                 ELSE r
      IfFull(e) == IF CurrentSizeEstimate(e.data) >= e.block_size THEN Flush(e) ELSE e
  IN  IF ~r.ok THEN r
      ELSE IfFull([indexed EXCEPT !.filter = AddKey(@, key), !.last_key = key, !.data = BlockAdd(@, key, key)])
FinishIndex(r) ==
  IF r.pending
  THEN [r EXCEPT !.index = BlockAdd(@, FindShortSuccessor(r.last_key), r.pending_handle), !.pending = FALSE]
  ELSE r
(* Finish: data, filter, metaindex, index, each only while all went well.   *)
WriteFooter(r, metaindex, index) ==
  LET footer == [kind |-> "footer", magic |-> TRUE, metaindex |-> metaindex, index |-> index]
      block == [contents |-> footer, type |-> "footer", at |-> r.offset, size |-> kEncodedLength, crc |-> TRUE]
  IN  IF ~r.ok THEN r
      ELSE IF Len(r.blocks) + 1 = r.fails THEN [r EXCEPT !.ok = FALSE]
      ELSE [r EXCEPT !.blocks = Append(@, block), !.offset = @ + kEncodedLength]
WriteIndex(r, metaindex) ==
  LET Behind(w) == WriteFooter(w, metaindex, Written(r, w))
      Indexed(i) == WriteBlock(i, i.index)
  IN  IF ~r.ok THEN r ELSE Behind(Indexed(FinishIndex(r)))
WriteMetaindex(r, filter) ==
  LET Behind(w) == WriteIndex(w, Written(r, w))
  IN  IF ~r.ok THEN r
      ELSE Behind(WriteBlock(r, BlockAdd(EmptyBlock(block_restart_interval), <<0>>, filter)))
WriteFilter(r) ==
  LET Behind(w) == WriteMetaindex(w, Written(r, w))
      Raw(filters) == WriteRawBlock(r, [kind |-> "filter", filters |-> filters],
                                    FilterSize(filters), "kNoCompression")
  IN  IF ~r.ok THEN r ELSE Behind(Raw(FilterFinish(r.filter)))
TableFinish(r) == WriteFilter([Flush(r) EXCEPT !.closed = TRUE])

-----------------------------------------------------------------------------
(* Reading.  A result has an error or what was read.                        *)
Corruption == [ok |-> FALSE]
Some(x) == [ok |-> TRUE, it |-> x]
ReadBlock(handle, verify_checksums) ==
  LET at == {i \in DOMAIN file : file[i].at = handle.offset /\ file[i].size = handle.size}
      block == file[CHOOSE i \in at : TRUE]
  IN  IF at = {} \/ (verify_checksums /\ ~block.crc) THEN Corruption ELSE Some(block.contents)

(* Keys of a block from the entry at offset on: ParseNextKey.               *)
Decode(block, offset) ==
  LET from == SelectSeq(block.entries, LAMBDA e : e.at >= offset)
      Step(done, e) ==
        LET key == IF done = <<>> THEN <<>> ELSE Last(done).key
        IN  Append(done, [key |-> SubSeq(key, 1, e.shared) \o e.delta, value |-> e.value])
  IN  FoldLeft(Step, <<>>, from)
(* Block::Iter::Seek: from the last restart point before the target on.     *)
FirstFrom(entries, target) ==
  LET there == {i \in DOMAIN entries : ~Less(entries[i].key, target)}
  IN  IF there = {} THEN <<>> ELSE <<entries[CHOOSE i \in there : \A j \in there : i <= j]>>
BlockSeek(block, target) ==
  LET restarts == {i \in DOMAIN block.restarts : i = 1 \/ Less(Decode(block, block.restarts[i])[1].key, target)}
      left == CHOOSE i \in restarts : \A j \in restarts : j <= i
  IN  IF block.entries = <<>> THEN <<>> ELSE FirstFrom(Decode(block, block.restarts[left]), target)

(* Table::Open, ReadMeta and ReadFilter, with paranoid_checks.              *)
ReadFilter(footer) ==
  LET meta == ReadBlock(footer.metaindex, TRUE)
      filter == ReadBlock(meta.it.entries[1].value, TRUE)
  IN  IF ~meta.ok THEN Corruption ELSE filter
TableOpen(size) ==
  LET footer == Last(file).contents
      index == ReadBlock(footer.index, TRUE)
  IN  IF size < kEncodedLength \/ ~footer.magic \/ ~index.ok THEN Corruption
      ELSE Some([index |-> index.it, filter |-> ReadFilter(footer), metaindex |-> footer.metaindex])

KeyMayMatch(t, block_offset, key) ==
  LET index == block_offset \div kFilterBase + 1
  IN  t.filter.ok /\ index \in DOMAIN t.filter.it.filters =>
        BloomMayMatch(ExtractUserKey(key), t.filter.it.filters[index])

(* Table::InternalGet with SaveValue: the entry found, <<>> or an error.    *)
SaveValue(found, key) ==
  Some(IF found # <<>> /\ ExtractUserKey(found[1].key) = ExtractUserKey(key) THEN found[1].value ELSE <<>>)
GetInBlock(block, key) == IF block.ok THEN SaveValue(BlockSeek(block.it, key), key) ELSE Corruption
InternalGet(t, key) ==
  LET At(index) == IF index = <<>> \/ ~KeyMayMatch(t, index[1].value.offset, key) THEN Some(<<>>)
                   ELSE GetInBlock(ReadBlock(index[1].value, TRUE), key)
  IN  At(BlockSeek(t.index, key))
ApproximateOffsetOf(t, key) ==
  LET At(index) == IF index = <<>> THEN t.metaindex.offset ELSE index[1].value.offset
  IN  At(BlockSeek(t.index, key))
(* Table::NewIterator from end to end.                                      *)
Scan(t) ==
  LET blocks == Decode(t.index, 0)
      Entries(i) == LET b == ReadBlock(blocks[i].value, TRUE) IN IF b.ok THEN Decode(b.it, 0) ELSE <<>>
  IN  FlattenSeq([i \in DOMAIN blocks |-> Entries(i)])

-----------------------------------------------------------------------------
NoTable == Corruption
Init ==
  /\ \E fails \in FailingAppends, compression \in BOOLEAN, size \in BlockSizes :
       rep = NewTableBuilder(fails, compression, size)
  /\ file = <<>> /\ added = <<>> /\ table = NoTable
Add ==
  /\ ~rep.closed /\ Len(added) < MaxEntries
  /\ \E user \in UserKeys, tag \in Tags :
       LET key == Append(user, tag)
       IN  /\ added # <<>> => Less(Last(added), key)
           /\ rep' = TableAdd(rep, key) /\ added' = Append(added, key)
  /\ UNCHANGED <<file, table>>
Finish ==
  /\ ~rep.closed /\ rep' = TableFinish(rep)
  /\ file' = rep'.blocks /\ UNCHANGED <<added, table>>
Abandon ==
  /\ ~rep.closed /\ rep' = [rep EXCEPT !.closed = TRUE]
  /\ file' = rep.blocks /\ UNCHANGED <<added, table>>
(* A block of the finished file is damaged.                                 *)
Damage ==
  /\ rep.closed /\ rep.ok /\ file # <<>> /\ Last(file).contents.kind = "footer"
  /\ table = NoTable /\ \A i \in DOMAIN file : file[i].crc
  /\ \E i \in DOMAIN file :
       file' = [file EXCEPT ![i] = IF i < Len(file) THEN [@ EXCEPT !.crc = FALSE]
                                   ELSE [@ EXCEPT !.crc = FALSE, !.contents.magic = FALSE]]
  /\ UNCHANGED <<rep, added, table>>
Open ==
  /\ rep.closed /\ rep.ok /\ file # <<>> /\ Last(file).contents.kind = "footer" /\ table = NoTable
  /\ table' = TableOpen(rep.offset) /\ table'.ok
  /\ UNCHANGED <<rep, file, added>>
OpenFails ==
  /\ rep.closed /\ rep.ok /\ file # <<>> /\ Last(file).contents.kind = "footer" /\ table = NoTable
  /\ ~TableOpen(rep.offset).ok /\ table' = [ok |-> FALSE, status |-> "corruption"]
  /\ UNCHANGED <<rep, file, added>>
Next == Add \/ Finish \/ Abandon \/ Damage \/ Open \/ OpenFails
Spec == Init /\ [][Next]_vars

-----------------------------------------------------------------------------
Undamaged == \A i \in DOMAIN file : file[i].crc
Exact(key) ==
  LET hits == {i \in DOMAIN added : ExtractUserKey(added[i]) = ExtractUserKey(key) /\ Last(added[i]) <= Last(key)}
  IN  IF hits = {} THEN <<>> ELSE added[CHOOSE i \in hits : \A j \in hits : i <= j]

(* What Rep's comment says of pending_index_entry (table_builder.cc 41),    *)
(* and the filter block is never ahead of the file (filter_block.cc 24).    *)
TypeOK ==
  /\ rep.pending => rep.data.entries = <<>>
  /\ ~rep.closed => Len(rep.filter.filters) <= rep.offset \div kFilterBase
  /\ rep.data.counter <= block_restart_interval

(* Finish returns ok only for a file that opens, and a scan of the table    *)
(* then shows every key that was added, once and in order, also when an     *)
(* earlier Append had failed.                                               *)
FinishTellsTruth ==
  /\ "status" \in DOMAIN table => ~Undamaged
  /\ table.ok /\ Undamaged => [i \in DOMAIN Scan(table.it) |-> Scan(table.it)[i].key] = added

(* A Get of any key at any sequence number finds exactly the newest entry   *)
(* at or below it: no filter, index key, separator or restart point hides   *)
(* it.  With one block damaged it may fail but never answers wrongly, and   *)
(* a damaged filter or metaindex costs nothing.                             *)
GetExact ==
  table.ok =>
    \A user \in UserKeys, tag \in Tags :
      LET got == InternalGet(table.it, Append(user, tag))
      IN  IF got.ok THEN got.it = Exact(Append(user, tag))
          ELSE \E i \in DOMAIN file : ~file[i].crc /\ file[i].contents.kind = "block"

(* Each index key is at or behind its block and before the next block, as   *)
(* the comments at table_builder.cc 33-39 promise.                          *)
IndexSeparates ==
  table.ok /\ Undamaged =>
    LET index == Decode(table.it.index, 0)
        KeysIn(i) == Decode(ReadBlock(index[i].value, TRUE).it, 0)
    IN  \A i \in DOMAIN index :
          /\ ~Less(index[i].key, Last(KeysIn(i)).key)
          /\ i < Len(index) => Less(index[i].key, KeysIn(i + 1)[1].key)

(* ApproximateOffsetOf grows with the key, as GetApproximateSizes needs for *)
(* sizes that are not negative.                                             *)
OffsetsGrow ==
  table.ok =>
    \A u1, u2 \in UserKeys : Before(u1, u2) =>
      ApproximateOffsetOf(table.it, Append(u1, MaxTag)) <= ApproximateOffsetOf(table.it, Append(u2, MaxTag))
=============================================================================
