------------------------------ MODULE SkipList ------------------------------
(***************************************************************************)
(* The list of db/skiplist.h: one writer, readers without a lock, on a     *)
(* memory with the ordering the port's AtomicPointer gives.                *)
(*                                                                         *)
(* A node is identified by the entry it holds.  mem is what every thread   *)
(* can see; a location never stored to holds Garbage (arena memory is not  *)
(* cleared).  Plain stores of the writer go to buffer first and become     *)
(* visible one by one, in any order; Release_Store makes all of them       *)
(* visible before its own.  A reader's step is one turn of a search loop.  *)
(***************************************************************************)
EXTENDS Entries, FiniteSets, Functions, TLC

CONSTANTS
  kMaxHeight,   \* 12 in the code
  Readers,
  NULL, head_, Garbage    \* model values, no entries

VARIABLES
  mem,          \* location -> value, the part of memory that was stored to
  buffer,       \* the writer's stores that may not be visible yet
  insert,       \* the Insert in progress, or NULL
  reader        \* reader -> its iterator and the search in progress

Levels == 0..kMaxHeight - 1
KeyOf(n) == <<"key", n>>
NextOf(n, i) == <<"next", n, i>>
max_height_ == <<"max_height_">>

(* AtomicPointer.  Readers load what is visible, the writer sees its own    *)
(* stores.                                                                  *)
Acquire_Load(loc) == IF loc \in DOMAIN mem THEN mem[loc] ELSE Garbage
NoBarrier_Load(loc) == IF loc \in DOMAIN buffer THEN buffer[loc] ELSE Acquire_Load(loc)
NoBarrier_Store(b, loc, v) == (loc :> v) @@ b
Release_Store_Bug(b, loc, v) ==
  /\ buffer' = NoBarrier_Store(b, loc, v)
  /\ UNCHANGED mem
Release_Store(b, loc, v) ==
  /\ mem' = (loc :> v) @@ b @@ mem
  /\ buffer' = <<>>

(* A plain store reaches memory.                                            *)
StoreVisible ==
  /\ \E loc \in DOMAIN buffer :
       /\ mem' = (loc :> buffer[loc]) @@ mem
       /\ buffer' = Restrict(buffer, DOMAIN buffer \ {loc})
  /\ UNCHANGED <<insert, reader>>

(* SkipList::SkipList and Iterator::Iterator.                               *)
NoSearch == [op |-> "none", target |-> NULL, x |-> NULL, level |-> 0, before |-> {}]
ListInit ==
  /\ mem = (max_height_ :> 1) @@ (KeyOf(head_) :> head_)
           @@ [loc \in {NextOf(head_, i) : i \in Levels} |-> NULL]
  /\ buffer = <<>>
  /\ insert = NULL
  /\ reader = [r \in Readers |-> [node_ |-> NULL, search |-> NoSearch]]

KeyIsAfterNode(key, n) == n # NULL /\ Before(n, key)

(* What the writer, which alone changes the list, finds as prev[i]: the     *)
(* last node before key in list i.                                          *)
ListAt(i) ==
  LET RECURSIVE From(_)
      From(n) == IF n \in {NULL, Garbage} THEN {} ELSE {n} \cup From(NoBarrier_Load(NextOf(n, i)))
  IN  From(head_)
Prev(key, i) ==
  LET S == {n \in ListAt(i) \ {head_} : KeyIsAfterNode(key, n)}
  IN  IF S = {} THEN head_ ELSE CHOOSE n \in S : \A m \in S : AtOrBefore(m, n)

(* Insert up to the loop: the search, the height, max_height_ and NewNode.  *)
InsertBegin(key, height) ==
  LET grow == IF height > NoBarrier_Load(max_height_)
              THEN NoBarrier_Store(buffer, max_height_, height) ELSE buffer
      node == NoBarrier_Store(grow, KeyOf(key), key)
  IN  /\ insert = NULL
      /\ insert' = [node |-> key, height |-> height, level |-> 0,
                    prev |-> [i \in 0..height - 1 |-> Prev(key, i)]]
      /\ buffer' = NoBarrier_Store(node, NextOf(key, 0), NULL)
      /\ UNCHANGED <<mem, reader>>

(* One turn of Insert's loop, lowest list first.                            *)
Linking(b, loc, v) ==
  /\ Release_Store(b, loc, v)
  /\ insert' = IF insert.level + 1 = insert.height THEN NULL ELSE [insert EXCEPT !.level = @ + 1]
  /\ UNCHANGED reader
InsertLink ==
  /\ insert # NULL
  /\ LET i == insert.level
         b == NoBarrier_Store(buffer, NextOf(insert.node, i), NoBarrier_Load(NextOf(insert.prev[i], i)))
     IN  Linking(b, NextOf(insert.prev[i], i), insert.node)

(* The nodes a reader can reach in list i.                                  *)
Linked(i) ==
  LET RECURSIVE From(_)
      From(n) == IF n \in {NULL, Garbage} THEN {} ELSE {n} \cup From(Acquire_Load(NextOf(n, i)))
  IN  From(head_) \ {head_}

(* A reader enters FindGreaterOrEqual, FindLessThan or FindLast.            *)
Search(r, op, target) ==
  /\ reader' = [reader EXCEPT ![r].search =
                  [op |-> op, target |-> target, x |-> head_,
                   level |-> Acquire_Load(max_height_) - 1, before |-> Linked(0)]]
  /\ UNCHANGED <<mem, buffer, insert>>

Seek(r, target) == Search(r, "FindGreaterOrEqual", target)
SeekToLast(r) == Search(r, "FindLast", NULL)
IterPrev(r) == reader[r].node_ # NULL /\ Search(r, "FindLessThan", reader[r].node_)

(* SeekToFirst and Next: one load.                                          *)
Load(r, n, op) ==
  /\ reader' = [reader EXCEPT ![r] =
                  [node_ |-> Acquire_Load(NextOf(n, 0)),
                   search |-> [op |-> op, target |-> n, x |-> NULL, level |-> 0,
                               before |-> Linked(0)]]]
  /\ UNCHANGED <<mem, buffer, insert>>
SeekToFirst(r) == Load(r, head_, "Next")
IterNext(r) == reader[r].node_ # NULL /\ Load(r, reader[r].node_, "Next")

(* Whether a search goes on in its list, and where it ends.                 *)
Onward(op, target, next) ==
  CASE op = "FindGreaterOrEqual" -> KeyIsAfterNode(target, next)
    [] op = "FindLessThan"       -> next # NULL /\ Before(next, target)
    [] op = "FindLast"           -> next # NULL
Found(op, x, next) ==
  IF op = "FindGreaterOrEqual" THEN next ELSE IF x = head_ THEN NULL ELSE x

Searching(r) == reader[r].search.x # NULL
UsesGarbage(n) == n = Garbage \/ (n # NULL /\ Acquire_Load(KeyOf(n)) = Garbage)
SearchStep(r) ==
  LET s == reader[r].search
      next == Acquire_Load(NextOf(s.x, s.level))
  IN  /\ Searching(r) /\ ~UsesGarbage(next)
      /\ reader' =
           IF Onward(s.op, s.target, next) THEN [reader EXCEPT ![r].search.x = next]
           ELSE IF s.level > 0 THEN [reader EXCEPT ![r].search.level = s.level - 1]
           ELSE [reader EXCEPT ![r] = [node_ |-> Found(s.op, s.x, next),
                                       search |-> [s EXCEPT !.x = NULL]]]
      /\ UNCHANGED <<mem, buffer, insert>>

-----------------------------------------------------------------------------
(* A reader only meets nodes whose contents and links it can see, however   *)
(* late the plain stores of Insert become visible.                          *)
NoGarbage ==
  \A r \in Readers :
    /\ reader[r].node_ # NULL => ~UsesGarbage(reader[r].node_)
    /\ Searching(r) =>
         ~UsesGarbage(Acquire_Load(NextOf(reader[r].search.x, reader[r].search.level)))

(* Every list is sorted, has its links in place and holds only nodes of the *)
(* list below it, at every moment of an Insert: a search moves on to later  *)
(* nodes and lower lists only, so it ends although the list grows under it. *)
ListsNested ==
  \A i \in Levels :
    /\ i > 0 => Linked(i) \subseteq Linked(i - 1)
    /\ \A n \in Linked(i) : LET m == Acquire_Load(NextOf(n, i)) IN m # NULL => m # Garbage /\ Before(n, m)

(* Where a finished Seek, Next, Prev or SeekToLast may stand: at a node of  *)
(* the list, on the right side of where it started, with nothing skipped    *)
(* that was in the list when the operation began.                           *)
MoveCorrect ==
  \A r \in Readers :
    LET s == reader[r].search
        n == reader[r].node_
        InRange(e) == CASE s.op = "FindGreaterOrEqual" -> AtOrBefore(s.target, e)
                        [] s.op = "Next" -> s.target = head_ \/ Before(s.target, e)
                        [] s.op = "FindLessThan" -> Before(e, s.target)
                        [] s.op = "FindLast" -> TRUE
        Sooner(e) == IF s.op \in {"FindGreaterOrEqual", "Next"} THEN Before(e, n) ELSE Before(n, e)
    IN  ~Searching(r) /\ s.op # "none" =>
          IF n = NULL THEN \A e \in s.before : ~InRange(e)
          ELSE /\ n \in Linked(0) /\ InRange(n)
               /\ \A e \in s.before : ~(InRange(e) /\ Sooner(e))
=============================================================================
