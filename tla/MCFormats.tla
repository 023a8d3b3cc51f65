----------------------------- MODULE MCFormats -----------------------------
(***************************************************************************)
(* What is written to memory and disk, byte for byte: the log (LogFormat), *)
(* the table (TableFormat), the records in logs (Records) and the memory   *)
(* of a memtable (Arena); and the iterators that read it (Iterators).      *)
(* They share nothing here, so each behaviour moves one of them.           *)
(***************************************************************************)
EXTENDS Integers, Sequences

CONSTANTS
  kLogBlockSize, kHeaderSize, Lengths, MaxRecords, Uint64,
  Tags, MaxByte, MaxTag, BlockSizes, block_restart_interval, kFilterBase,
  bits_per_key, MinBits, HashBits, MaxEntries, FailingAppends,
  Numbers, Levels, kNumLevels, MaxOps, B, Uint32, Digits, MaxDigits,
  kArenaBlockSize, align, Sizes, MaxAllocations,
  BlockLen, NumSeqs, Keys

(* User keys with common prefixes, a prefix of another, the largest byte.   *)
UserKeys == {<<>>, <<0>>, <<0, 1, 0>>, <<0, 2>>, <<2, 0, 1>>, <<2, 2>>}
BloomHash == [u \in UserKeys |->
  CASE u = <<>> -> 0 [] u = <<0>> -> 255 [] u = <<0, 1, 0>> -> 37 [] u = <<0, 2>> -> 201
    [] u = <<2, 0, 1>> -> 133 [] u = <<2, 2>> -> 77]
Strings == {<<>>, <<7, 1>>}

VARIABLES
  part,
  log_file, block_offset_, starts, reader, results, damage,
  rep, table_file, added, table,
  mode, edit, batch, operations, digits,
  blocks_, alloc_ptr_, alloc_bytes_remaining_, pieces,
  it, ref

Log == INSTANCE LogFormat WITH kBlockSize <- kLogBlockSize, file <- log_file
Table == INSTANCE TableFormat WITH file <- table_file
Record == INSTANCE Records
Memory == INSTANCE Arena WITH kBlockSize <- kArenaBlockSize
Iterator == INSTANCE MCIterators

log_vars == <<log_file, block_offset_, starts, reader, results, damage>>
table_vars == <<rep, table_file, added, table>>
record_vars == <<mode, edit, batch, operations, digits>>
memory_vars == <<blocks_, alloc_ptr_, alloc_bytes_remaining_, pieces>>
iterator_vars == <<it, ref>>
vars == <<part, log_vars, table_vars, record_vars, memory_vars, iterator_vars>>
Init ==
  /\ part \in {"log", "table", "record", "memory", "iterator"}
  /\ Log!Init /\ Table!Init /\ Record!Init /\ Memory!ArenaInit
  /\ part # "table" => rep = Table!NewTableBuilder(0, FALSE, CHOOSE n \in BlockSizes : TRUE)
  /\ part # "record" => mode = "name"
  /\ IF part = "iterator" THEN Iterator!Init ELSE Iterator!Start(Iterator!Empty)
LogStep == part = "log" /\ Log!Next /\ UNCHANGED <<part, table_vars, record_vars, memory_vars, iterator_vars>>
TableStep == part = "table" /\ Table!Next /\ UNCHANGED <<part, log_vars, record_vars, memory_vars, iterator_vars>>
RecordStep == part = "record" /\ Record!Next /\ UNCHANGED <<part, log_vars, table_vars, memory_vars, iterator_vars>>
MemoryStep == part = "memory" /\ Memory!ArenaNext /\ UNCHANGED <<part, log_vars, table_vars, record_vars, iterator_vars>>
IteratorStep ==
  part = "iterator" /\ Iterator!Next /\ UNCHANGED <<part, log_vars, table_vars, record_vars, memory_vars>>
Next == LogStep \/ TableStep \/ RecordStep \/ MemoryStep \/ IteratorStep
Spec == Init /\ [][Next]_vars

(* ReadRecord gives what was written: a whole log from any initial_offset, *)
(* a log cut off at any byte its complete records without a report; a       *)
(* damaged fragment costs records of its block only, makes no record that   *)
(* was not written, nor another order, and a loss is reported unless the    *)
(* damage made a header zeroes or its length reach behind the end of the    *)
(* file (log_writer.cc 34-103, log_reader.cc 59-259).                       *)
LogExact ==
  part = "log" => /\ Log!ReadBack /\ Log!TornTailIsSilent /\ Log!CorruptionIsReported
                  /\ Log!DamageStaysInBlock /\ Log!NothingInvented

(* A table that Finish has called good opens and a scan shows what was      *)
(* added; InternalGet finds the right entry or fails on a damaged block;    *)
(* index keys separate the blocks; later keys have no smaller offsets       *)
(* (table_builder.cc 94-254, table.cc 226-283, dbformat.cc 68-99).          *)
TableExact ==
  part = "table" => /\ Table!FinishTellsTruth /\ Table!GetExact
                    /\ Table!IndexSeparates /\ Table!OffsetsGrow

(* Version edits, write batches, varints up to the largest number of their  *)
(* type and the numbers in file names are read back as they were written,   *)
(* and a part of them is refused (version_edit.cc 41-210, write_batch.cc    *)
(* 42-145, coding.cc 47-190, logging.cc 48-70).                             *)
RecordsReadBack ==
  part = "record" => /\ Record!EditReadBack /\ Record!BatchReadBack
                     /\ Record!VarintReadBack /\ Record!NumbersReadBack

(* The arena's pieces are disjoint, within their blocks and, if asked for,  *)
(* aligned (arena.cc 24-59).                                                *)
PiecesExact == part = "memory" => Memory!PiecesDisjoint /\ Memory!PiecesAligned

(* As long as status() is OK an iterator is exactly where it ought to be,   *)
(* however its directions are mixed; status() is not OK only if something   *)
(* cannot be read; and moving backwards DBIter stands before all entries of *)
(* its key (block.cc 82-269, two_level_iterator.cc, merger.cc, db_iter.cc). *)
IteratorsExact == part = "iterator" => Iterator!Faithful /\ Iterator!NoFalseAlarm /\ Iterator!StandsBefore

(* Over every move status() stays as it is once it is not OK                *)
(* (two_level_iterator.cc 60-70, 151-153).                                  *)
ErrorSticks == Iterator!ErrorSticks
=============================================================================
