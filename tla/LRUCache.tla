------------------------------ MODULE LRUCache ------------------------------
(***************************************************************************)
(* One shard of the cache of util/cache.cc as operators on its state: the  *)
(* handles, the LRU list (oldest first) and the hash table.  A handle is a *)
(* number, freed handles are reused.  Each operation runs under the        *)
(* shard's mutex, so a caller's step applies one of them.                  *)
(***************************************************************************)
EXTENDS Integers, Sequences, SequencesExt

CONSTANTS
  Handles,      \* addresses malloc may return
  Hash,         \* key -> its hash
  kMinLength,   \* buckets of an empty table: 4 in the code
  capacity_,
  NULL          \* no handle

Free == [key |-> 0, refs |-> 0, charge |-> 0]

(* LRUCache::LRUCache and HandleTable::HandleTable.                         *)
EmptyShard ==
  [handle |-> [h \in Handles |-> Free], lru |-> <<>>, usage |-> 0,
   list |-> [i \in 0..kMinLength - 1 |-> <<>>], elems |-> 0]

-----------------------------------------------------------------------------
(* HandleTable.                                                             *)
Length(s) == Cardinality(DOMAIN s.list)
Bucket(s, key) == Hash[key] % Length(s)

(* The position of key's handle in its bucket, or one past the end.         *)
FindPointer(s, key) ==
  LET b == s.list[Bucket(s, key)]
      at == {i \in DOMAIN b : s.handle[b[i]].key = key}
  IN  IF at = {} THEN Len(b) + 1 ELSE CHOOSE i \in at : \A j \in at : i <= j
TableLookup(s, key) ==
  LET b == s.list[Bucket(s, key)]  i == FindPointer(s, key)
  IN  IF i <= Len(b) THEN b[i] ELSE NULL

(* Resize: every chain is walked from its head and pushed handle by handle  *)
(* on the new chains.                                                       *)
NewLength(elems) ==
  LET RECURSIVE Double(_)
      Double(n) == IF n < elems THEN Double(2 * n) ELSE n
  IN  Double(kMinLength)
Resize(s) ==
  LET n == NewLength(s.elems)
      all == FlattenSeq([i \in 1..Length(s) |-> s.list[i - 1]])
  IN  [s EXCEPT !.list = [b \in 0..n - 1 |->
         Reverse(SelectSeq(all, LAMBDA h : Hash[s.handle[h].key] % n = b))]]

TableInsert(s, h) ==
  LET key == s.handle[h].key
      b == Bucket(s, key)
      i == FindPointer(s, key)
      new == i > Len(s.list[b])
      t == [s EXCEPT !.list[b] = IF new THEN Append(@, h) ELSE [@ EXCEPT ![i] = h],
                     !.elems = IF new THEN @ + 1 ELSE @]
  IN  IF new /\ t.elems > Length(t) THEN Resize(t) ELSE t
TableRemove(s, key) ==
  IF TableLookup(s, key) = NULL THEN s
  ELSE [s EXCEPT !.list[Bucket(s, key)] = RemoveAt(@, FindPointer(s, key)),
                 !.elems = @ - 1]

-----------------------------------------------------------------------------
(* LRUCache.                                                                *)
Unref(s, h) ==
  IF s.handle[h].refs = 1
  THEN [s EXCEPT !.handle[h] = Free, !.usage = @ - s.handle[h].charge]
  ELSE [s EXCEPT !.handle[h].refs = @ - 1]

LRU_Remove(s, h) == [s EXCEPT !.lru = SelectSeq(@, LAMBDA g : g # h)]
LRU_Append(s, h) == [s EXCEPT !.lru = Append(@, h)]

Lookup(s, key) ==
  LET h == TableLookup(s, key)
  IN  [handle |-> h,
       shard |-> IF h = NULL THEN s
                 ELSE LRU_Append(LRU_Remove([s EXCEPT !.handle[h].refs = @ + 1], h), h)]

Release(s, h) == Unref(s, h)

Erase(s, key) ==
  LET h == TableLookup(s, key)
  IN  IF h = NULL THEN s ELSE Unref(LRU_Remove(TableRemove(s, key), h), h)

(* Insert: the new handle, the one it replaces, then the oldest ones until  *)
(* the shard is within its capacity or its list is empty.                   *)
EvictOldest(s) ==
  LET RECURSIVE Evict(_)
      Evict(t) ==
        IF t.usage > capacity_ /\ t.lru # <<>>
        THEN LET old == Head(t.lru)
             IN  Evict(Unref(TableRemove(LRU_Remove(t, old), t.handle[old].key), old))
        ELSE t
  IN  Evict(s)
Malloc(s) == CHOOSE h \in Handles : s.handle[h] = Free /\ \A g \in Handles : s.handle[g] = Free => h <= g
Insert_Bug(s, key, charge) ==
  LET h == Malloc(s)
      old == TableLookup(s, key)
      added == LRU_Append([s EXCEPT !.handle[h] = [key |-> key, refs |-> 2, charge |-> charge],
                                    !.usage = @ + charge], h)
      entered == TableInsert(added, h)
      replaced == IF old = NULL THEN entered ELSE Unref(entered, old)
  IN  [handle |-> h, shard |-> EvictOldest(replaced)]
Insert(s, key, charge) ==
  LET h == Malloc(s)
      old == TableLookup(s, key)
      added == LRU_Append([s EXCEPT !.handle[h] = [key |-> key, refs |-> 2, charge |-> charge],
                                    !.usage = @ + charge], h)
      entered == TableInsert(added, h)
      replaced == IF old = NULL THEN entered ELSE Unref(LRU_Remove(entered, old), old)
  IN  [handle |-> h, shard |-> EvictOldest(replaced)]

-----------------------------------------------------------------------------
Alive(s) == {h \in Handles : s.handle[h].refs > 0}
Cached(s) == UNION {ToSet(s.list[b]) : b \in DOMAIN s.list}

(* The list and the table of a shard hold the same handles, each once, in   *)
(* the bucket of its hash and none of them freed, and usage_ is what the    *)
(* handles not yet freed cost, cached or only held by a caller.             *)
ShardConsistent(s) ==
  /\ Cached(s) = ToSet(s.lru) /\ Cached(s) \subseteq Alive(s)
  /\ Len(s.lru) = Cardinality(Cached(s)) /\ s.elems = Cardinality(Cached(s))
  /\ \A g, h \in Cached(s) : g # h => s.handle[g].key # s.handle[h].key
  /\ \A b \in DOMAIN s.list : \A h \in ToSet(s.list[b]) : Bucket(s, s.handle[h].key) = b
  /\ s.usage = FoldSet(LAMBDA h, n : n + s.handle[h].charge, 0, Alive(s))
=============================================================================
