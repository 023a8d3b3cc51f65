----------------------------- MODULE Iterators -----------------------------
(***************************************************************************)
(* The iterators a scan is built from: Block::Iter, the memtable's, the    *)
(* file list of a level, TwoLevelIterator, MergingIterator and DBIter, each*)
(* as operators on its state.  An iterator is a record with its kind;      *)
(* Do(i, op, target) is the virtual call i->op(target).  What blocks and   *)
(* tables are in bytes is left to Formats: a block is here a sequence of   *)
(* [key, value], an offset in it an index.  The value of an index entry is *)
(* a handle, a model of a block's or a file's position.                    *)
(***************************************************************************)
EXTENDS Entries, Sequences, SequencesExt

VARIABLES it, ref  \* the iterator; the sequence it ought to yield, the place in it
vars == <<it, ref>>

NULL == [kind |-> "null"]
(* NewErrorIterator: never valid.                                           *)
ErrorIterator == [kind |-> "error"]
Never == [key |-> 0, seq |-> 0, type |-> "value"]   \* the target of a call without one

RECURSIVE Valid(_), At(_), StatusOK(_), Do(_, _, _)
Key(i) == At(i).key

-----------------------------------------------------------------------------
(* A memtable's iterator; 0 is no position.                                 *)
ListIterator(data) == [kind |-> "list", data |-> data, at |-> 0]
FirstAtOrAfter(s, t) ==
  LET at == {i \in DOMAIN s : ~Before(s[i].key, t)}
  IN  IF at = {} THEN 0 ELSE CHOOSE i \in at : \A j \in at : i <= j
ListDo(i, op, t) ==
  [i EXCEPT !.at =
    CASE op = "SeekToFirst" -> IF i.data = <<>> THEN 0 ELSE 1
      [] op = "SeekToLast" -> Len(i.data)
      [] op = "Seek" -> FirstAtOrAfter(i.data, t)
      [] op = "Next" -> IF @ = Len(i.data) THEN 0 ELSE @ + 1
      [] op = "Prev" -> @ - 1]

(* LevelFileNumIterator over the files' largest keys; one past the last is  *)
(* no position.                                                             *)
FilesIterator(data) == [kind |-> "files", data |-> data, at |-> Len(data) + 1]
FindFile(s, t) ==
  LET RECURSIVE Search(_, _)
      Search(left, right) ==
        LET mid == (left + right) \div 2
        IN  IF left >= right THEN right
            ELSE IF Before(s[mid].key, t) THEN Search(mid + 1, right) ELSE Search(left, mid)
  IN  Search(1, Len(s) + 1)
FilesDo(i, op, t) ==
  [i EXCEPT !.at =
    CASE op = "SeekToFirst" -> 1
      [] op = "SeekToLast" -> IF i.data = <<>> THEN 1 ELSE Len(i.data)
      [] op = "Seek" -> FindFile(i.data, t)
      [] op = "Next" -> @ + 1
      [] op = "Prev" -> IF @ = 1 THEN Len(i.data) + 1 ELSE @ - 1]

-----------------------------------------------------------------------------
(* Block::Iter.  bad: the entries DecodeEntry refuses.                      *)
BlockIterator(data, restarts, bad) ==
  [kind |-> "block", data |-> data, restarts |-> restarts, bad |-> bad,
   at |-> Len(data) + 1, restart_index |-> Len(restarts) + 1, ok |-> TRUE]
Invalid(b) == [b EXCEPT !.at = Len(b.data) + 1, !.restart_index = Len(b.restarts) + 1]
CorruptionError(b) == [Invalid(b) EXCEPT !.ok = FALSE]

ParseNextKey(b, offset) ==
  LET passed == {j \in DOMAIN b.restarts : j = b.restart_index \/ b.restarts[j] < offset}
  IN  IF offset > Len(b.data) THEN Invalid(b)
      ELSE IF offset \in b.bad THEN CorruptionError(b)
      ELSE [b EXCEPT !.at = offset, !.restart_index = CHOOSE j \in passed : \A k \in passed : k <= j]

(* SeekToRestartPoint(index), then ParseNextKey until the entry that ends   *)
(* at limit, if there is one.                                               *)
ParseUpTo(b, index, limit) ==
  LET RECURSIVE Parse(_, _)
      Parse(c, offset) ==
        LET p == ParseNextKey(c, offset)
        IN  IF p.at <= Len(b.data) /\ offset + 1 < limit THEN Parse(p, offset + 1) ELSE p
  IN  Parse([b EXCEPT !.restart_index = index], b.restarts[index])

BlockPrev(b) ==
  LET before == {j \in 1..b.restart_index : b.restarts[j] < b.at}
  IN  IF before = {} THEN Invalid(b)
      ELSE ParseUpTo(b, CHOOSE j \in before : \A k \in before : k <= j, b.at)
BlockSeek_Bug(b, t) ==
  LET RECURSIVE Left(_, _), Scan(_, _)
      Left(left, right) ==          \* 0: a restart point that cannot be decoded
        LET mid == (left + right + 1) \div 2
        IN  IF left >= right THEN left
            ELSE IF b.restarts[mid] \in b.bad THEN 0
            ELSE IF Before(b.data[b.restarts[mid]].key, t) THEN Left(mid, right)
            ELSE Left(left, mid - 1)
      Scan(c, offset) ==
        LET p == ParseNextKey(c, offset)
        IN  IF p.at <= Len(b.data) /\ Before(b.data[p.at].key, t) THEN Scan(p, offset + 1) ELSE p
      left == Left(1, Len(b.restarts))
  IN  IF left = 0 THEN CorruptionError(b)
      ELSE Scan([b EXCEPT !.restart_index = left, !.ok = TRUE], b.restarts[left])
BlockSeek(b, t) ==
  LET RECURSIVE Left(_, _), Scan(_, _)
      Left(left, right) ==          \* 0: a restart point that cannot be decoded
        LET mid == (left + right + 1) \div 2
        IN  IF left >= right THEN left
            ELSE IF b.restarts[mid] \in b.bad THEN 0
            ELSE IF Before(b.data[b.restarts[mid]].key, t) THEN Left(mid, right)
            ELSE Left(left, mid - 1)
      Scan(c, offset) ==
        LET p == ParseNextKey(c, offset)
        IN  IF p.at <= Len(b.data) /\ Before(b.data[p.at].key, t) THEN Scan(p, offset + 1) ELSE p
      left == Left(1, Len(b.restarts))
  IN  IF left = 0 THEN CorruptionError(b)
      ELSE Scan([b EXCEPT !.restart_index = left], b.restarts[left])
BlockDo(b, op, t) ==
  CASE op = "SeekToFirst" -> ParseNextKey([b EXCEPT !.restart_index = 1], b.restarts[1])
    [] op = "SeekToLast" -> ParseUpTo(b, Len(b.restarts), Len(b.data) + 1)
    [] op = "Seek" -> BlockSeek(b, t)
    [] op = "Next" -> ParseNextKey(b, b.at + 1)
    [] op = "Prev" -> BlockPrev(b)

-----------------------------------------------------------------------------
(* TwoLevelIterator: of a table over its index block, of a level over its   *)
(* files.  blocks stands for block_function_: handle -> a fresh iterator.   *)
TwoLevelIterator(index, blocks) ==
  [kind |-> "two", index |-> index, blocks |-> blocks, data |-> NULL, handle |-> 0, ok |-> TRUE]
SetDataIterator(i, data) ==
  [i EXCEPT !.data = data, !.ok = @ /\ (i.data # NULL => StatusOK(i.data))]
InitDataBlock(i) ==
  LET handle == At(i.index).value
  IN  IF ~Valid(i.index) THEN SetDataIterator(i, NULL)
      ELSE IF i.data # NULL /\ handle = i.handle THEN i
      ELSE SetDataIterator([i EXCEPT !.handle = handle], i.blocks[handle])
OnData(i, op, t) == IF i.data = NULL THEN i ELSE [i EXCEPT !.data = Do(@, op, t)]
SkipEmptyDataBlocks(i, step, seek) ==
  LET RECURSIVE Skip(_)
      Skip(j) ==
        IF j.data # NULL /\ Valid(j.data) THEN j
        ELSE IF ~Valid(j.index) THEN SetDataIterator(j, NULL)
        ELSE Skip(OnData(InitDataBlock([j EXCEPT !.index = Do(@, step, Never)]), seek, Never))
  IN  Skip(i)
SkipEmptyDataBlocksForward(i) == SkipEmptyDataBlocks(i, "Next", "SeekToFirst")
SkipEmptyDataBlocksBackward(i) == SkipEmptyDataBlocks(i, "Prev", "SeekToLast")
TwoLevelDo(i, op, t) ==
  LET sought == OnData(InitDataBlock([i EXCEPT !.index = Do(@, op, t)]), op, t)
      moved == [i EXCEPT !.data = Do(@, op, t)]
  IN  CASE op \in {"SeekToFirst", "Seek"} -> SkipEmptyDataBlocksForward(sought)
        [] op = "SeekToLast" -> SkipEmptyDataBlocksBackward(sought)
        [] op = "Next" -> SkipEmptyDataBlocksForward(moved)
        [] op = "Prev" -> SkipEmptyDataBlocksBackward(moved)

-----------------------------------------------------------------------------
(* MergingIterator; current 0 is no child.  NewMergingIterator of one child *)
(* is the child.                                                            *)
NewMergingIterator(children) ==
  IF Len(children) = 1 THEN children[1]
  ELSE [kind |-> "merge", children |-> children, current |-> 0, direction |-> "forward"]
FindSmallest(i) ==
  LET valid == {c \in DOMAIN i.children : Valid(i.children[c])}
      key(c) == Key(i.children[c])
  IN  [i EXCEPT !.current =
         IF valid = {} THEN 0
         ELSE CHOOSE c \in valid : \A d \in valid :
                Before(key(c), key(d)) \/ (key(c) = key(d) /\ c <= d)]
FindLargest(i) ==
  LET valid == {c \in DOMAIN i.children : Valid(i.children[c])}
      key(c) == Key(i.children[c])
  IN  [i EXCEPT !.current =
         IF valid = {} THEN 0
         ELSE CHOOSE c \in valid : \A d \in valid :
                Before(key(d), key(c)) \/ (key(c) = key(d) /\ c >= d)]
Each(i, op, t) == [i EXCEPT !.children = [c \in DOMAIN @ |-> Do(@[c], op, t)]]

(* The other children, when the direction changes: after key(), before it.  *)
AfterKey(child, key) ==
  LET c == Do(child, "Seek", key)
  IN  IF Valid(c) /\ Key(c) = key THEN Do(c, "Next", Never) ELSE c
BeforeKey(child, key) ==
  LET c == Do(child, "Seek", key)
  IN  IF Valid(c) THEN Do(c, "Prev", Never) ELSE Do(c, "SeekToLast", Never)
Turn(i, direction) ==
  IF i.direction = direction THEN i
  ELSE [i EXCEPT !.direction = direction,
                 !.children = [c \in DOMAIN @ |->
                   IF c = i.current THEN @[c]
                   ELSE IF direction = "forward" THEN AfterKey(@[c], Key(i)) ELSE BeforeKey(@[c], Key(i))]]
MergeDo(i, op, t) ==
  CASE op \in {"SeekToFirst", "Seek"} -> [FindSmallest(Each(i, op, t)) EXCEPT !.direction = "forward"]
    [] op = "SeekToLast" -> [FindLargest(Each(i, op, t)) EXCEPT !.direction = "reverse"]
    [] op = "Next" -> FindSmallest([Turn(i, "forward") EXCEPT !.children[i.current] = Do(@, op, t)])
    [] op = "Prev" -> FindLargest([Turn(i, "reverse") EXCEPT !.children[i.current] = Do(@, op, t)])

-----------------------------------------------------------------------------
(* DBIter at a sequence number.  saved_key_ is a user key, 0 when cleared;  *)
(* saved_value_ is the entry whose value it is.  An entry of type "bad" is  *)
(* one whose internal key ParseInternalKey refuses.                         *)
DBIter(iter, sequence) ==
  [kind |-> "db", iter |-> iter, sequence |-> sequence, ok |-> TRUE, saved_key |-> 0,
   saved_value |-> Never, direction |-> "forward", valid |-> FALSE]
ParseKey(d) == Key(d.iter).type # "bad"
Inner(d, op, t) == [d EXCEPT !.iter = Do(@, op, t)]
ClearSaved(d) == [d EXCEPT !.saved_key = 0, !.saved_value = Never]
SaveKey(d, k) == [d EXCEPT !.saved_key = k]

FindNextUserEntry(d, skipping) ==
  LET RECURSIVE Find(_, _)
      Find(c, skip) ==
        LET e == Key(c.iter)
            seen == ParseKey(c) /\ e.seq <= c.sequence
            deletes == seen /\ e.type = "deletion"
            parsed == [c EXCEPT !.ok = @ /\ ParseKey(c)]
            next == Inner(IF deletes THEN SaveKey(parsed, e.key) ELSE parsed, "Next", Never)
        IN  IF ~Valid(c.iter) THEN [SaveKey(c, 0) EXCEPT !.valid = FALSE]
            ELSE IF seen /\ ~deletes /\ ~(skip /\ e.key <= c.saved_key)
            THEN [SaveKey(parsed, 0) EXCEPT !.valid = TRUE]
            ELSE Find(next, skip \/ deletes)
  IN  Find(d, skipping)

FindPrevUserEntry_Bug(d) ==
  LET RECURSIVE Find(_, _)
      Find(c, type) ==
        LET e == Key(c.iter)
            seen == ParseKey(c) /\ e.seq <= c.sequence
            parsed == [c EXCEPT !.ok = @ /\ ParseKey(c)]
            saved == IF e.type = "deletion" THEN ClearSaved(parsed)
                     ELSE [parsed EXCEPT !.saved_key = e.key, !.saved_value = e]
        IN  IF Valid(c.iter) /\ ~(seen /\ type # "deletion" /\ e.key <= c.saved_key)
            THEN Find(Inner(IF seen THEN saved ELSE parsed, "Prev", Never),
                      IF seen THEN e.type ELSE type)
            ELSE IF type = "deletion"
            THEN [ClearSaved(c) EXCEPT !.valid = FALSE, !.direction = "forward"]
            ELSE [c EXCEPT !.valid = TRUE]
  IN  Find(d, "deletion")
FindPrevUserEntry(d) ==
  LET RECURSIVE Find(_, _)
      Find(c, type) ==
        LET e == Key(c.iter)
            seen == ParseKey(c) /\ e.seq <= c.sequence
            parsed == [c EXCEPT !.ok = @ /\ ParseKey(c)]
            saved == IF e.type = "deletion" THEN ClearSaved(parsed)
                     ELSE [parsed EXCEPT !.saved_key = e.key, !.saved_value = e]
        IN  IF Valid(c.iter) /\ ~(seen /\ type # "deletion" /\ e.key < c.saved_key)
            THEN Find(Inner(IF seen THEN saved ELSE parsed, "Prev", Never),
                      IF seen THEN e.type ELSE type)
            ELSE IF type = "deletion"
            THEN [ClearSaved(c) EXCEPT !.valid = FALSE, !.direction = "forward"]
            ELSE [c EXCEPT !.valid = TRUE]
  IN  Find(d, "deletion")

DBNext(d) ==
  LET turned == [Inner(d, IF Valid(d.iter) THEN "Next" ELSE "SeekToFirst", Never)
                   EXCEPT !.direction = "forward"]
  IN  IF d.direction = "forward" THEN FindNextUserEntry(SaveKey(d, Key(d.iter).key), TRUE)
      ELSE IF Valid(turned.iter) THEN FindNextUserEntry(turned, TRUE)
      ELSE [SaveKey(turned, 0) EXCEPT !.valid = FALSE]
DBPrev(d) ==
  LET RECURSIVE Back(_)
      Back(c) ==
        LET p == Inner(c, "Prev", Never)
        IN  IF Valid(p.iter) /\ Key(p.iter).key >= p.saved_key THEN Back(p) ELSE p
      turned == Back(SaveKey(d, Key(d.iter).key))
  IN  IF d.direction = "reverse" THEN FindPrevUserEntry(d)
      ELSE IF Valid(turned.iter) THEN FindPrevUserEntry([turned EXCEPT !.direction = "reverse"])
      ELSE [ClearSaved(turned) EXCEPT !.valid = FALSE]
DBDo(d, op, t) ==
  LET sought == Inner([ClearSaved(d) EXCEPT !.direction = "forward"], op,
                      [key |-> t.key, seq |-> d.sequence, type |-> "value"])
  IN  CASE op \in {"SeekToFirst", "Seek"} ->
             IF Valid(sought.iter) THEN FindNextUserEntry(sought, FALSE)
             ELSE [sought EXCEPT !.valid = FALSE]
        [] op = "SeekToLast" ->
             FindPrevUserEntry(Inner([d EXCEPT !.direction = "reverse", !.saved_value = Never], op, Never))
        [] op = "Next" -> DBNext(d)
        [] op = "Prev" -> DBPrev(d)

-----------------------------------------------------------------------------
(* The virtual calls.                                                       *)
Valid(i) ==
  CASE i.kind = "list" -> i.at # 0
    [] i.kind \in {"files", "block"} -> i.at <= Len(i.data)
    [] i.kind = "two" -> i.data # NULL /\ Valid(i.data)
    [] i.kind = "merge" -> i.current # 0
    [] i.kind = "db" -> i.valid
    [] i.kind = "error" -> FALSE
At(i) ==
  CASE i.kind \in {"list", "files", "block"} -> i.data[i.at]
    [] i.kind = "two" -> At(i.data)
    [] i.kind = "merge" -> At(i.children[i.current])
    [] i.kind = "db" -> IF i.direction = "forward" THEN At(i.iter)
                        ELSE [key |-> i.saved_value, value |-> 0]
StatusOK(i) ==
  CASE i.kind \in {"list", "files"} -> TRUE
    [] i.kind = "block" -> i.ok
    [] i.kind = "two" -> StatusOK(i.index) /\ (i.data # NULL => StatusOK(i.data)) /\ i.ok
    [] i.kind = "merge" -> \A c \in DOMAIN i.children : StatusOK(i.children[c])
    [] i.kind = "db" -> i.ok /\ StatusOK(i.iter)
    [] i.kind = "error" -> FALSE
Do(i, op, t) ==
  CASE i.kind = "list" -> ListDo(i, op, t)
    [] i.kind = "files" -> FilesDo(i, op, t)
    [] i.kind = "block" -> BlockDo(i, op, t)
    [] i.kind = "two" -> TwoLevelDo(i, op, t)
    [] i.kind = "merge" -> MergeDo(i, op, t)
    [] i.kind = "db" -> DBDo(i, op, t)
    [] i.kind = "error" -> i

-----------------------------------------------------------------------------
(* A client moves the iterator as iterator.h allows; ref moves as the       *)
(* sequence does, 0 being no position.                                      *)
Start(s) ==   \* s: the iterator, what it ought to yield, targets for Seek, damaged or not
  it = s.iter /\ ref = [yields |-> s.yields, at |-> 0, targets |-> s.targets, damaged |-> s.damaged]
SeekToFirst ==
  it' = Do(it, "SeekToFirst", Never) /\ ref' = [ref EXCEPT !.at = IF ref.yields = <<>> THEN 0 ELSE 1]
SeekToLast ==
  it' = Do(it, "SeekToLast", Never) /\ ref' = [ref EXCEPT !.at = Len(ref.yields)]
Seek == \E t \in ref.targets :
  LET at == {i \in DOMAIN ref.yields : ~Before(ref.yields[i], t)}
  IN  /\ it' = Do(it, "Seek", t)
      /\ ref' = [ref EXCEPT !.at = IF at = {} THEN 0 ELSE CHOOSE i \in at : \A j \in at : i <= j]
Next_ ==
  Valid(it) /\ it' = Do(it, "Next", Never)
  /\ ref' = [ref EXCEPT !.at = IF @ = Len(ref.yields) \/ @ = 0 THEN 0 ELSE @ + 1]
Prev ==
  Valid(it) /\ it' = Do(it, "Prev", Never) /\ ref' = [ref EXCEPT !.at = IF @ = 0 THEN 0 ELSE @ - 1]
Next == SeekToFirst \/ SeekToLast \/ Seek \/ Next_ \/ Prev

-----------------------------------------------------------------------------
(* A block's iterator is invalid in all its fields or in none: current_ and *)
(* restart_index_ leave their ranges together (block.cc 82-269).            *)
TypeOK ==
  /\ ref.at \in 0..Len(ref.yields)
  /\ it.kind = "block" => /\ it.at \in 1..Len(it.data) + 1
                          /\ it.restart_index \in 1..Len(it.restarts) + 1
                          /\ (it.at > Len(it.data)) = (it.restart_index > Len(it.restarts))

(* As long as status() is OK the iterator is exactly where the sequence is, *)
(* however its directions were mixed: whatever it fails to yield, because a *)
(* block, a file or a key cannot be read, shows in status().                *)
Faithful ==
  StatusOK(it) => /\ Valid(it) = (ref.at # 0)
                  /\ Valid(it) => Key(it) = ref.yields[ref.at]

(* status() is not OK only if something cannot be read.                     *)
NoFalseAlarm == StatusOK(it) \/ ref.damaged

(* An error is never forgotten: status() stays as it is over every move.    *)
ErrorSticks == [][~StatusOK(it) => ~StatusOK(it')]_vars

(* Moving backwards DBIter stands before all entries of its key (db_iter.cc *)
(* 41-45), which is what lets Next continue from there.                     *)
StandsBefore ==
  it.kind = "db" /\ it.valid /\ it.direction = "reverse" /\ Valid(it.iter) =>
    Key(it.iter).key < it.saved_key
=============================================================================
