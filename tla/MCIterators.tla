---------------------------- MODULE MCIterators ----------------------------
(***************************************************************************)
(* Small iterators of every shape: one block, one level of tables, and the *)
(* DBIter of a database with a memtable, a table at level 0 and a level of *)
(* tables, each whole or with something that cannot be read.               *)
(***************************************************************************)
EXTENDS Iterators

CONSTANTS
  BlockLen,     \* entries of the block and of the level
  NumSeqs,      \* entries of the database: one for each sequence number
  Keys

Pairs(entries) == [i \in DOMAIN entries |-> [key |-> entries[i], value |-> 0]]
Restarts(n, interval) == [j \in 1..(IF n = 0 THEN 1 ELSE (n + interval - 1) \div interval) |->
                            (j - 1) * interval + 1]
Block(entries, interval, bad) == BlockIterator(Pairs(entries), Restarts(Len(entries), interval), bad)
Run(n) == [i \in 1..n |-> [key |-> 2 * i, seq |-> 1, type |-> "value"]]
AtMostOne(S) == {{}} \cup {{x} : x \in S}

BlockSource(n, interval, bad) ==
  [iter |-> Block(Run(n), interval, bad), yields |-> Run(n),
   targets |-> {[key |-> k, seq |-> 1, type |-> "value"] : k \in 1..2 * n + 1},
   damaged |-> bad # {}]

(* An iterator for handle h of a list of parts, each a sequence of entries. *)
IndexOf(parts) == [h \in DOMAIN parts |-> [key |-> Last(parts[h]), value |-> h]]
Table(parts, lost, bad) ==
  TwoLevelIterator(BlockIterator(IndexOf(parts), Restarts(Len(parts), 1), bad),
                   [h \in DOMAIN parts |-> IF h \in lost THEN ErrorIterator ELSE Block(parts[h], 2, {})])
Level(tables, files, lost) ==
  TwoLevelIterator(FilesIterator(IndexOf(files)),
                   [h \in DOMAIN files |-> IF h \in lost THEN ErrorIterator ELSE tables[h]])
Cut(entries, at) ==   \* at: the indexes after which a part ends
  LET ends == SetToSortSeq(at \cup {Len(entries)}, <)
  IN  [j \in DOMAIN ends |-> SubSeq(entries, (IF j = 1 THEN 0 ELSE ends[j - 1]) + 1, ends[j])]

LevelSource(at, lostBlocks, lostFiles, bad) ==
  LET files == Cut(Run(BlockLen), at)
      blocks(f) == Cut(files[f], 1..Len(files[f]) - 1)
  IN  [iter |-> Level([f \in DOMAIN files |-> Table(blocks(f), lostBlocks, bad)], files, lostFiles),
       yields |-> Run(BlockLen),
       targets |-> {[key |-> k, seq |-> 1, type |-> "value"] : k \in 1..2 * BlockLen + 1},
       damaged |-> lostBlocks \cup lostFiles \cup bad # {}]

(* A database: the entry of each sequence number and the places it is in.   *)
(* (RepairDB may leave an entry in two tables.)                             *)
OnePlace == {{"mem"}, {"level0"}, {"level1"}}
Places == OnePlace \cup {{"level0", "level1"}}
Histories(types, places) == [1..NumSeqs -> Keys \X types \X places]
Entries_(h) == {[key |-> h[s][1], seq |-> s, type |-> h[s][2]] : s \in 1..NumSeqs}
Sorted(S) ==
  [i \in 1..Cardinality(S) |-> CHOOSE e \in S : Cardinality({f \in S : Before(f, e)}) = i - 1]
Scan(h, sequence) ==
  Sorted({e \in Visible(Entries_(h)) :
            e \in Newest({f \in Entries_(h) : f.type # "bad"}, e.key, sequence)})
Database(h, sequence, lost) ==
  LET in(p) == Sorted({e \in Entries_(h) : p \in h[e.seq][3]})
      level1 == in("level1")
      firsts == {i \in 1..Len(level1) - 1 : level1[i].key # level1[i + 1].key}
      files == Cut(level1, firsts)
      table == IF 0 \in lost THEN <<ErrorIterator>>
               ELSE IF in("level0") = <<>> THEN <<>> ELSE <<Table(<<in("level0")>>, {}, {})>>
      level == IF level1 = <<>> THEN <<>>
               ELSE <<Level([f \in DOMAIN files |-> Table(<<files[f]>>, {}, {})], files, lost)>>
  IN  [iter |-> DBIter(NewMergingIterator(<<ListIterator(Pairs(in("mem")))>> \o table \o level), sequence),
       yields |-> Scan(h, sequence),
       targets |-> {[key |-> k, seq |-> NumSeqs + 1, type |-> "value"] : k \in Keys},
       damaged |-> lost # {} \/ \E e \in Entries_(h) : e.type = "bad"]

Cases ==
  {<<"block", n, interval, bad>> :
     n \in 0..BlockLen, interval \in 1..3, bad \in AtMostOne(1..BlockLen)}
  \cup {<<"level", at, lostBlocks, lostFiles, bad>> :
     at \in SUBSET (1..BlockLen - 1), lostBlocks \in AtMostOne(1..2),
     lostFiles \in AtMostOne(1..2), bad \in AtMostOne(1..2)}
  \cup {<<"db", h, sequence, {}>> : h \in Histories({"value", "deletion"}, OnePlace),
                                   sequence \in NumSeqs - 1..NumSeqs}
  \cup {<<"db", h, NumSeqs, {}>> : h \in Histories({"value"}, Places)}
  \cup {<<"db", h, NumSeqs, lost>> : h \in Histories({"value"}, OnePlace), lost \in {{0}, {1}}}
  \cup {<<"db", h, NumSeqs, {}>> :
     h \in {g \in Histories({"value", "deletion", "bad"}, OnePlace) :
             Cardinality({s \in 1..NumSeqs : g[s][2] = "bad"}) = 1}}
Source(c) ==
  CASE c[1] = "block" -> BlockSource(c[2], c[3], c[4])
    [] c[1] = "level" -> LevelSource(c[2], c[3], c[4], c[5])
    [] c[1] = "db" -> Database(c[2], c[3], c[4])

Empty == BlockSource(0, 1, {})
Init == \E c \in Cases : \E s \in {Source(c)} : Start(s)
=============================================================================
