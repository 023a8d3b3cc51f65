----------------------------- MODULE LevelStore -----------------------------
(***************************************************************************)
(* The levels of tables: VersionSet and Version (db/version_set.cc) with    *)
(* the flushes and compactions of db/db_impl.cc that change them, and reads *)
(* at snapshots through them.                                               *)
(*                                                                         *)
(* Table and level sizes are abstracted: a compaction may be due at any     *)
(* level and start from any file there, its output may be cut into files    *)
(* anywhere, and every size limit may or may not be exceeded.  A step is a  *)
(* critical section of mutex_; a compaction is two of them, between which   *)
(* writes, snapshots and a flush may come.                                  *)
(***************************************************************************)
EXTENDS Entries, FiniteSets, Sequences

CONSTANTS
  Keys,                  \* a finite set of integers
  Types,                 \* of the entries written
  kNumLevels, kMaxMemCompactLevel,
  Manual,                \* whether CompactRange is called
  MaxSequence,           \* bound: entries written
  MaxSnapshots,          \* bound: snapshots held at a time
  MaxCuts                \* bound: output files of a compaction, less one

ASSUME LevelsAssumption ==
  /\ Keys \subseteq Int /\ IsFiniteSet(Keys) /\ Types \subseteq {"value", "deletion"}
  /\ kNumLevels \in Nat /\ kMaxMemCompactLevel \in 0 .. kNumLevels - 1
  /\ Manual \in BOOLEAN
  /\ MaxSequence \in Nat /\ MaxSnapshots \in Nat /\ MaxCuts \in Nat

VARIABLES
  mem_, imm_,            \* sets of entries; imm_ = {} stands for NULL
  files_,                \* current_: level -> set of [number, entries]
  next_file_number_,
  last_sequence, snapshots_,
  compaction,            \* the Compaction at work, or None
  history                \* every entry ever written

vars == <<mem_, imm_, files_, next_file_number_, last_sequence, snapshots_, compaction, history>>

Levels == 0 .. kNumLevels - 1
None == [level |-> -1]

Init ==
  /\ mem_ = {} /\ imm_ = {} /\ history = {}
  /\ files_ = [level \in Levels |-> {}] /\ next_file_number_ = 2
  /\ last_sequence = 0 /\ snapshots_ = <<>> /\ compaction = None

-----------------------------------------------------------------------------
(* Files and ranges of user keys.                                           *)

KeysOf(F) == UNION {{e.key : e \in f.entries} : f \in F}
Smallest(F) == CHOOSE k \in KeysOf(F) : \A l \in KeysOf(F) : k <= l
Largest(F) == CHOOSE k \in KeysOf(F) : \A l \in KeysOf(F) : l <= k
Overlaps(f, begin, end) == Smallest({f}) <= end /\ begin <= Largest({f})
LastEntry(f) == CHOOSE e \in f.entries : \A d \in f.entries : AtOrBefore(d, e)
FirstEntry(f) == CHOOSE e \in f.entries : \A d \in f.entries : AtOrBefore(e, d)

(* Version::OverlapInLevel, and Version::GetOverlappingInputs: level-0      *)
(* files widen the range, so theirs is the least set closed under overlap.  *)
OverlapInLevel(level, begin, end) == \E f \in files_[level] : Overlaps(f, begin, end)
Touching(F, begin, end) == {f \in F : Overlaps(f, begin, end)}
Closed(G, begin, end) ==
  /\ Touching(files_[0], begin, end) \subseteq G
  /\ \A g \in G : Touching(files_[0], Smallest({g}), Largest({g})) \subseteq G
GetOverlappingInputs(level, begin, end) ==
  IF level > 0 THEN Touching(files_[level], begin, end)
  ELSE CHOOSE G \in SUBSET files_[0] :
         /\ Closed(G, begin, end)
         /\ \A H \in SUBSET files_[0] : Closed(H, begin, end) => G \subseteq H
Over(level, F) == GetOverlappingInputs(level, Smallest(F), Largest(F))

-----------------------------------------------------------------------------
(* Reads: Version::Get, and DBImpl::Get above it.                           *)

(* Level 0: the newest file by number that has an entry.                    *)
GetLevel0(k, s) ==
  LET hits == {f \in files_[0] : Newest(f.entries, k, s) # {}} IN
  UNION {Newest(f.entries, k, s) : f \in {f \in hits : \A g \in hits : g.number <= f.number}}

(* Other levels: FindFile's first file whose largest key is at or after     *)
(* (k, s), a file list in order being what its binary search relies on.     *)
GetLevel(level, k, s) ==
  LET target == [key |-> k, seq |-> s, type |-> "value"]
      later == {f \in files_[level] : ~Before(LastEntry(f), target)}
      found == {f \in later : \A g \in later : AtOrBefore(LastEntry(f), LastEntry(g))}
  IN UNION {Newest(f.entries, k, s) : f \in found}

(* The memtables, then level by level; the first that has an entry decides. *)
Get(k, s) ==
  LET layer == [n \in -2 .. kNumLevels - 1 |->
                  CASE n = -2 -> Newest(mem_, k, s)
                    [] n = -1 -> Newest(imm_, k, s)
                    [] n = 0 -> GetLevel0(k, s)
                    [] OTHER -> GetLevel(n, k, s)]
      hits == {n \in DOMAIN layer : layer[n] # {}}
  IN UNION {layer[n] : n \in {n \in hits : \A m \in hits : n <= m}}

-----------------------------------------------------------------------------
(* Writes and snapshots.                                                    *)

Write(k, type) ==
  LET e == [key |-> k, seq |-> last_sequence + 1, type |-> type] IN
  /\ last_sequence < MaxSequence
  /\ mem_' = mem_ \cup {e} /\ history' = history \cup {e}
  /\ last_sequence' = last_sequence + 1
  /\ UNCHANGED <<imm_, files_, next_file_number_, snapshots_, compaction>>

SwitchMemTable ==
  /\ imm_ = {} /\ mem_ # {}
  /\ imm_' = mem_ /\ mem_' = {}
  /\ UNCHANGED <<files_, next_file_number_, last_sequence, snapshots_, compaction, history>>

GetSnapshot ==
  /\ Len(snapshots_) < MaxSnapshots
  /\ snapshots_' = Append(snapshots_, last_sequence)
  /\ UNCHANGED <<mem_, imm_, files_, next_file_number_, last_sequence, compaction, history>>
ReleaseSnapshot(i) ==
  /\ snapshots_' = SubSeq(snapshots_, 1, i - 1) \o SubSeq(snapshots_, i + 1, Len(snapshots_))
  /\ UNCHANGED <<mem_, imm_, files_, next_file_number_, last_sequence, compaction, history>>

-----------------------------------------------------------------------------
(* The flush.                                                               *)

(* Version::PickLevelForMemTableOutput may return level: nothing overlaps   *)
(* on the way there, and it stops because it may go no further, something   *)
(* overlaps in the next level, or too much does in the one after.           *)
PickLevelForMemTableOutput_Bug(level, begin, end) ==
  level = 0 \/ (level <= kMaxMemCompactLevel /\ ~OverlapInLevel(level, begin, end))
PickLevelForMemTableOutput(level, begin, end) ==
  /\ level <= kMaxMemCompactLevel
  /\ level > 0 => \A m \in 0 .. level : ~OverlapInLevel(m, begin, end)
  /\ \/ level = kMaxMemCompactLevel
     \/ level = 0 /\ OverlapInLevel(0, begin, end)
     \/ OverlapInLevel(level + 1, begin, end)
     \/ level + 2 < kNumLevels /\ OverlapInLevel(level + 2, begin, end)

NewFileNumber == next_file_number_

(* CompactMemTable: WriteLevel0Table and its edit, also in the middle of a  *)
(* compaction.                                                              *)
CompactMemTable ==
  LET f == [number |-> NewFileNumber, entries |-> imm_] IN
  /\ imm_ # {}
  /\ \E level \in Levels :
       /\ PickLevelForMemTableOutput(level, Smallest({f}), Largest({f}))
       /\ files_' = [files_ EXCEPT ![level] = @ \cup {f}]
  /\ imm_' = {} /\ next_file_number_' = next_file_number_ + 1
  /\ UNCHANGED <<mem_, last_sequence, snapshots_, compaction, history>>

-----------------------------------------------------------------------------
(* Compactions.                                                             *)

(* SetupOtherInputs on the files F of level: the overlapping ones below,    *)
(* and, if the limit allows, more of level that need no more of level + 1.  *)
SetupOtherInputs(level, F) ==
  LET parents == Over(level + 1, F)
      more == Over(level, F \cup parents)
      grown == /\ parents # {} /\ Cardinality(more) > Cardinality(F)
               /\ Cardinality(Over(level + 1, more)) = Cardinality(parents)
  IN {<<F, parents>>} \cup (IF grown THEN {<<more, Over(level + 1, more)>>} ELSE {})

SmallestSnapshot == IF snapshots_ = <<>> THEN last_sequence ELSE Head(snapshots_)

Begin(level, in) ==
  /\ compaction' = [level |-> level, inputs |-> in, smallest_snapshot |-> SmallestSnapshot,
                    input_version |-> files_]
  /\ UNCHANGED <<files_, next_file_number_>>

(* A file moves one level down unread.                                      *)
TrivialMove(level, in) ==
  /\ Cardinality(in[1]) = 1 /\ in[2] = {}
  /\ files_' = [files_ EXCEPT ![level] = @ \ in[1], ![level + 1] = @ \cup in[1]]
  /\ UNCHANGED <<compaction, next_file_number_>>

(* BackgroundCompaction, when imm_ is NULL, with PickCompaction.            *)
PickCompaction(level, f) ==
  /\ compaction = None /\ imm_ = {} /\ level + 1 < kNumLevels
  /\ \E in \in SetupOtherInputs(level, IF level = 0 THEN Over(0, {f}) ELSE {f}) :
       TrivialMove(level, in) \/ Begin(level, in)
  /\ UNCHANGED <<mem_, imm_, last_sequence, snapshots_, history>>

(* BackgroundCompaction with a manual compaction: the files of level that   *)
(* overlap the range, or above level 0 any first part of them.              *)
CompactRange(level, begin, end) ==
  LET all == GetOverlappingInputs(level, begin, end)
      first == {F \in SUBSET all : \A f \in F, g \in all :
                  AtOrBefore(LastEntry(g), LastEntry(f)) => g \in F} \ {{}}
  IN /\ Manual /\ compaction = None /\ imm_ = {} /\ level + 1 < kNumLevels /\ all # {}
     /\ \E F \in IF level = 0 THEN {all} ELSE first :
          \E in \in SetupOtherInputs(level, F) : Begin(level, in)
     /\ UNCHANGED <<mem_, imm_, last_sequence, snapshots_, history>>

(* IsBaseLevelForKey, on the version the compaction started from.           *)
IsBaseLevelForKey(c, k) ==
  \A level \in c.level + 2 .. kNumLevels - 1 :
    \A f \in c.input_version[level] : ~Overlaps(f, k, k)

(* The entries DoCompactionWork writes, cut into files after the entries    *)
(* in cuts.                                                                 *)
Output(c) == Kept(UNION {f.entries : f \in c.inputs[1] \cup c.inputs[2]}, c.smallest_snapshot,
                  {k \in Keys : IsBaseLevelForKey(c, k)})
CutsBefore(e, cuts) == Cardinality({d \in cuts : Before(d, e)})
OutputFiles(out, cuts) ==
  {[number |-> NewFileNumber + n, entries |-> {e \in out : CutsBefore(e, cuts) = n}] :
     n \in {CutsBefore(e, cuts) : e \in out}}

(* The end of DoCompactionWork and InstallCompactionResults.                *)
Install_Bug(c, new) ==   \* forgets the inputs of the output level
  [files_ EXCEPT ![c.level] = @ \ c.inputs[1], ![c.level + 1] = @ \cup new]
Install(c, new) ==
  [files_ EXCEPT ![c.level] = @ \ c.inputs[1],
                 ![c.level + 1] = (@ \ c.inputs[2]) \cup new]
InstallCompactionResults ==
  LET c == compaction
      out == Output(c)
  IN /\ c # None
     /\ \E cuts \in SUBSET out :
          /\ Cardinality(cuts) <= MaxCuts
          /\ \A d \in cuts : \E e \in out : Before(d, e)
          /\ files_' = Install(c, OutputFiles(out, cuts))
          /\ next_file_number_' = next_file_number_ + Cardinality(OutputFiles(out, cuts))
     /\ compaction' = None
     /\ UNCHANGED <<mem_, imm_, last_sequence, snapshots_, history>>

(* A compaction fails: its outputs are dropped (CleanupCompaction).         *)
CompactionFails ==
  /\ compaction # None /\ compaction' = None
  /\ UNCHANGED <<mem_, imm_, files_, next_file_number_, last_sequence, snapshots_, history>>

Next ==
  \/ \E k \in Keys, type \in Types : Write(k, type)
  \/ SwitchMemTable \/ GetSnapshot \/ \E i \in 1 .. Len(snapshots_) : ReleaseSnapshot(i)
  \/ CompactMemTable
  \/ \E level \in Levels : \E f \in files_[level] : PickCompaction(level, f)
  \/ \E level \in Levels, begin \in Keys, end \in Keys :
       begin <= end /\ CompactRange(level, begin, end)
  \/ InstallCompactionResults \/ CompactionFails

Spec == Init /\ [][Next]_vars

-----------------------------------------------------------------------------
(* Properties.                                                              *)

(* Every file has a number already given out and at least one entry; the    *)
(* other variables have their types.                                        *)
TypeOK ==
  /\ mem_ \subseteq Entry /\ imm_ \subseteq Entry /\ history \subseteq Entry
  /\ DOMAIN files_ = Levels
  /\ \A level \in Levels : \A f \in files_[level] :
       f.number \in 2 .. next_file_number_ - 1 /\ f.entries \subseteq Entry /\ f.entries # {}
  /\ last_sequence \in Nat /\ snapshots_ \in Seq(0 .. last_sequence)
  /\ compaction = None \/ compaction.level \in 0 .. kNumLevels - 2

Readable == {last_sequence} \cup {snapshots_[i] : i \in DOMAIN snapshots_}
Tables == UNION {f.entries : f \in UNION {files_[level] : level \in Levels}}

(* Get returns, for every key and at every live snapshot, the newest value  *)
(* written up to it, whatever was flushed, moved, merged and dropped.       *)
GetCorrect == \A k \in Keys, s \in Readable :
                Visible(Get(k, s)) = Visible(Newest(history, k, s))

(* So does an iterator, which merges everything instead of searching level  *)
(* by level.                                                                *)
IteratorCorrect == \A k \in Keys, s \in Readable :
  Visible(Newest(mem_ \cup imm_ \cup Tables, k, s)) = Visible(Newest(history, k, s))

(* Get, which searches level by level, and an iterator, which merges all of *)
(* them, give for every key and at every live snapshot the newest value     *)
(* written up to it, whatever was flushed, moved, merged and dropped        *)
(* (version_set.cc 323-433, db_impl.cc 860-1000, 1041-1139).                *)
ReadsCorrect == GetCorrect /\ IteratorCorrect

(* "entries never hop across levels" (version_set.cc:337): for one key, a   *)
(* smaller level has only newer entries than a larger one.                  *)
NewerAbove ==
  \A upper \in Levels, lower \in Levels : upper < lower =>
    \A f \in files_[upper], g \in files_[lower] :
      \A d \in f.entries, e \in g.entries : d.key = e.key => d.seq > e.seq

(* SaveTo's check: below level 0 no two files overlap as internal keys.     *)
LevelsDisjoint ==
  \A level \in Levels \ {0} : \A f \in files_[level], g \in files_[level] :
    f # g => Before(LastEntry(f), FirstEntry(g)) \/ Before(LastEntry(g), FirstEntry(f))
=============================================================================
