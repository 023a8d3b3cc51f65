-------------------------- MODULE LevelReadsProofs --------------------------
(* Reads through the levels are right as long as the files of a level do not *)
(* overlap, and when they do not.                                            *)
EXTENDS LevelStoreProofs

(* Seconds for the provers.                                                  *)
USE SMTT(30), ZenonT(30)

-----------------------------------------------------------------------------
(* Get, which stops at the first hit, finds what a search of all would.      *)

LEMMA NewestExists ==
  ASSUME NEW X \in SUBSET Entry, NEW k, NEW s \in Nat
  PROVE  Newest(X, k, s) = {} <=> Seen(X, k, s) = {}
<1>1. Seen(X, k, s) = {} => Newest(X, k, s) = {}
  BY DEF Newest
<1>2. ASSUME Seen(X, k, s) # {}
      PROVE  Newest(X, k, s) # {}
  <2> DEFINE N == Seen(X, k, s)
             T == {e.seq : e \in N}
  <2>1. N \subseteq Entry /\ N # {} /\ \A e \in N : e.seq <= s
    BY <1>2 DEF Seen
  <2>2. T \in SUBSET (0 .. s) /\ T # {}
    <3> HIDE DEF N
    <3> QED
      BY <2>1 DEF Entry
  <2>3. PICK x \in T : \A y \in T : y <= x
    <3> HIDE DEF T
    <3> QED
      BY <2>2, LargestExists, ZenonT(30)
  <2>4. PICK e \in N : e.seq = x
    BY <2>3
  <2>5. e \in Newest(X, k, s)
    BY <2>3, <2>4 DEF Newest
  <2> QED
    BY <2>5
<1> QED
  BY <1>1, <1>2

(* A part Y of X, outside of which all that a read can see is older.         *)
LEMMA NewestInPart ==
  ASSUME NEW X \in SUBSET Entry, NEW Y \in SUBSET X, NEW k, NEW s \in Nat, Seen(Y, k, s) # {},
         \A d \in Seen(Y, k, s), e \in Seen(X, k, s) : e \in Y \/ e.seq < d.seq
  PROVE  Newest(X, k, s) = Newest(Y, k, s)
<1>1. \A e : e \in Seen(Y, k, s) <=> e \in Seen(X, k, s) /\ e \in Y
  BY DEF Seen
<1>2. \A e \in Seen(X, k, s) : e.seq \in Nat
  BY DEF Seen, Entry
<1>3. PICK top \in Seen(Y, k, s) : TRUE
  OBVIOUS
<1>4. ASSUME NEW e \in Newest(Y, k, s)
      PROVE  e \in Newest(X, k, s)
  <2>1. e \in Seen(Y, k, s) /\ \A d \in Seen(Y, k, s) : d.seq <= e.seq
    BY <1>4 DEF Newest
  <2>2. \A d \in Seen(X, k, s) : d.seq <= e.seq
    BY <1>1, <1>2, <2>1
  <2> QED
    BY <1>1, <2>1, <2>2 DEF Newest
<1>5. ASSUME NEW e \in Newest(X, k, s)
      PROVE  e \in Newest(Y, k, s)
  <2>1. e \in Seen(X, k, s) /\ \A d \in Seen(X, k, s) : d.seq <= e.seq
    BY <1>5 DEF Newest
  <2>2. e \in Y
    BY <1>1, <1>2, <1>3, <2>1
  <2> QED
    BY <1>1, <2>1, <2>2 DEF Newest
<1> QED
  BY <1>4, <1>5

(* The last entry of a file in internal order: of its largest key, the       *)
(* oldest.                                                                   *)
LEMMA LastOfFile ==
  ASSUME StoreInv, NEW level \in Levels, NEW f \in files_[level]
  PROVE  LastEntry(f) \in f.entries /\ \A d \in f.entries : AtOrBefore(d, LastEntry(f))
<1>1. /\ Good(f) /\ f.entries \subseteq history /\ IsFiniteSet(f.entries)
      /\ \A d, e \in f.entries : d.seq = e.seq => d = e
      /\ \A d \in f.entries : d.seq \in Nat /\ d.key \in Int
  <2>1. f.entries \subseteq history /\ Good(f)
    BY GoodFiles DEF StoreInv
  <2> QED
    BY <2>1, FS_Subset DEF StoreInv, Good, Entry
<1> DEFINE T == {e.seq : e \in {d \in f.entries : d.key = Largest({f})}}
<1>2. T \subseteq Nat /\ T # {}
  <2>1. PICK e \in f.entries : e.key = Largest({f})
    BY <1>1, Range1, ZenonT(30)
  <2>2. e.seq \in T
    BY <2>1
  <2>3. \A y \in T : y \in Nat
    BY <1>1
  <2> QED
    BY <2>2, <2>3, ZenonT(30)
<1>3. PICK x \in T : \A y \in T : ~(<<y, x>> \in Less)
  <2> HIDE DEF T
  <2> QED
    BY <1>2, LessWellFounded, WFMin, ZenonT(30)
<1>4. PICK e \in f.entries : e.key = Largest({f}) /\ e.seq = x
  BY <1>3
<1>5. \A d \in f.entries : AtOrBefore(d, e)
  <2> TAKE d \in f.entries
  <2>1. d.key <= e.key
    BY <1>1, <1>4, Range1, ZenonT(30)
  <2>2. CASE d.key = e.key
    <3>1. d.seq \in T
      BY <1>4, <2>2
    <3>2. ~(d.seq < x)
      BY <1>2, <1>3, <3>1, ZenonT(30) DEF Less
    <3> QED
      BY <1>1, <1>4, <2>2, <3>2 DEF AtOrBefore, Before
  <2> QED
    BY <1>1, <1>4, <2>1, <2>2 DEF AtOrBefore, Before
<1> QED
  BY <1>5 DEF LastEntry

Contents(level) == UNION {f.entries : f \in files_[level]}

LEMMA InContents ==
  ASSUME NEW level, NEW k, NEW s
  PROVE  /\ \A e : e \in Contents(level) <=> \E f \in files_[level] : e \in f.entries
         /\ \A e : e \in Seen(Contents(level), k, s) <=> \E f \in files_[level] : e \in Seen(f.entries, k, s)
BY DEF Contents, Seen

LEMMA ContentsEntries ==
  ASSUME StoreInv, NEW level \in Levels
  PROVE  Contents(level) \in SUBSET Entry /\ \A f \in files_[level] : f.entries \in SUBSET Contents(level)
BY InContents, ZenonT(30) DEF StoreInv

LEMMA Level0Right ==
  ASSUME StoreInv, Level0Inv, NEW k, NEW s \in Nat
  PROVE  GetLevel0(k, s) = Newest(Contents(0), k, s)
<1> DEFINE hits == {f \in files_[0] : Newest(f.entries, k, s) # {}}
           tops == {f \in hits : \A g \in hits : g.number <= f.number}
<1>1. GetLevel0(k, s) = UNION {Newest(f.entries, k, s) : f \in tops}
  BY DEF GetLevel0
<1>2. /\ Contents(0) \in SUBSET Entry
      /\ \A f \in files_[0] : f.entries \in SUBSET Contents(0) /\ f.entries \in SUBSET Entry
  BY ContentsEntries, Constants
<1>3. \A f \in files_[0] : f \in hits <=> Seen(f.entries, k, s) # {}
  BY <1>2, NewestExists
<1>4. CASE hits = {}
  <2>1. Seen(Contents(0), k, s) = {}
    BY <1>3, <1>4, InContents
  <2>2. Newest(Contents(0), k, s) = {}
    BY <2>1 DEF Newest
  <2> QED
    BY <1>1, <1>4, <2>2
<1>5. CASE hits # {}
  <2> DEFINE T == {f.number : f \in hits}
  <2>1. next_file_number_ \in Nat /\ \A f \in files_[0] : f.number \in 0 .. next_file_number_
    BY DEF StoreInv
  <2>2. T \in SUBSET (0 .. next_file_number_) /\ T # {}
    BY <1>5, <2>1
  <2>3. PICK x \in T : \A y \in T : y <= x
    <3> HIDE DEF T
    <3> QED
      BY <2>1, <2>2, LargestExists, ZenonT(30)
  <2>4. PICK f \in hits : f.number = x
    BY <2>3
  <2>5. \A g \in hits : g.number <= f.number /\ g.number \in Nat
    BY <2>1, <2>3, <2>4
  <2>6. tops = {f}
    <3>1. \A g \in tops : g.number = f.number
      BY <2>1, <2>5
    <3> QED
      BY <2>4, <2>5, <3>1, ZenonT(30) DEF Level0Inv
  <2>7. GetLevel0(k, s) = Newest(f.entries, k, s)
    <3> HIDE DEF tops
    <3> QED
      BY <1>1, <2>6
  <2>8. ASSUME NEW d \in Seen(f.entries, k, s), NEW e \in Seen(Contents(0), k, s), e \notin f.entries
        PROVE  e.seq < d.seq
    <3>1. PICK g \in files_[0] : e \in Seen(g.entries, k, s)
      BY InContents
    <3>2. g \in hits /\ g # f
      BY <1>3, <2>8, <3>1 DEF Seen
    <3>3. g.number < f.number
      BY <2>4, <2>5, <3>2 DEF Level0Inv
    <3> QED
      BY <2>4, <2>8, <3>1, <3>2, <3>3 DEF Level0Inv, Seen
  <2>9. f \in files_[0] /\ Seen(f.entries, k, s) # {}
    BY <1>3, <2>4
  <2>10. Newest(Contents(0), k, s) = Newest(f.entries, k, s)
    <3> HIDE DEF hits, tops
    <3> QED
      BY <1>2, <2>8, <2>9, NewestInPart
  <2> QED
    BY <2>7, <2>10
<1> QED
  BY <1>4, <1>5

LEMMA LevelRight ==
  ASSUME StoreInv, LevelsApart, NEW level \in Levels, level # 0, NEW k \in Int, NEW s \in Nat
  PROVE  GetLevel(level, k, s) = Newest(Contents(level), k, s)
<1> DEFINE target == [key |-> k, seq |-> s, type |-> "value"]
           later == {f \in files_[level] : ~Before(LastEntry(f), target)}
           found == {f \in later : \A g \in later : AtOrBefore(LastEntry(f), LastEntry(g))}
<1>1. GetLevel(level, k, s) = UNION {Newest(f.entries, k, s) : f \in found}
  BY DEF GetLevel
<1>2. /\ Contents(level) \in SUBSET Entry
      /\ \A f \in files_[level] : f.entries \in SUBSET Contents(level) /\ f.entries \in SUBSET Entry
  BY ContentsEntries
<1>3. \A f \in found : f \in files_[level]
  OBVIOUS
<1>4. CASE Seen(Contents(level), k, s) = {}
  <2>1. \A f \in files_[level] : Newest(f.entries, k, s) = {}
    BY <1>4, InContents DEF Newest
  <2>2. Newest(Contents(level), k, s) = {}
    BY <1>4 DEF Newest
  <2> HIDE DEF found
  <2> QED
    BY <1>1, <1>3, <2>1, <2>2
<1>5. CASE Seen(Contents(level), k, s) # {}
  <2>1. PICK e \in Seen(Contents(level), k, s) : TRUE
    BY <1>5
  <2>2. PICK f \in files_[level] : e \in Seen(f.entries, k, s)
    BY <2>1, InContents
  <2>3. e \in f.entries /\ e.key = k /\ e.seq <= s /\ e.seq \in Nat
    BY <1>2, <2>2 DEF Seen, Entry
  <2>4. \A g \in files_[level] :
          /\ Good(g) /\ LastEntry(g) \in g.entries /\ \A d \in g.entries : AtOrBefore(d, LastEntry(g))
          /\ LastEntry(g).key \in Int /\ LastEntry(g).seq \in Nat
          /\ Smallest({g}) \in Int /\ Largest({g}) \in Int
          /\ Smallest({g}) <= LastEntry(g).key /\ LastEntry(g).key <= Largest({g})
    <3> TAKE g \in files_[level]
    <3>1. Good(g) /\ LastEntry(g) \in g.entries /\ \A d \in g.entries : AtOrBefore(d, LastEntry(g))
      BY GoodFiles, LastOfFile
    <3>2. LastEntry(g) \in Entry
      BY <3>1 DEF Good
    <3> QED
      BY <3>1, <3>2, Range1 DEF Entry
  <2>5. Smallest({f}) <= k /\ k <= Largest({f})
    BY <2>3, <2>4, Range1
  <2>6. f \in later
    <3> DEFINE x == LastEntry(f)
    <3>1. AtOrBefore(e, x) /\ x.key \in Int /\ x.seq \in Nat
      BY <2>3, <2>4, ZenonT(30)
    <3>2. target.key = k /\ target.seq = s
      OBVIOUS
    <3> HIDE DEF x, target
    <3>3. ~Before(x, target)
      BY <2>3, <3>1, <3>2 DEF AtOrBefore, Before
    <3> QED
      BY <3>3 DEF x
  <2>7. ASSUME NEW g \in later, g # f
        PROVE  Before(LastEntry(f), LastEntry(g)) /\ ~AtOrBefore(LastEntry(g), LastEntry(f))
    <3>1. g \in files_[level] /\ ~(LastEntry(g).key < k)
      BY <2>7 DEF Before
    <3>2. Apart(f, g)
      BY <2>7, <3>1 DEF LevelsApart
    <3>3. Largest({f}) < Smallest({g})
      <4>1. /\ Smallest({f}) \in Int /\ Largest({f}) \in Int /\ Smallest({g}) \in Int /\ Largest({g}) \in Int
            /\ LastEntry(g).key \in Int /\ LastEntry(g).key <= Largest({g})
        BY <2>4, <3>1
      <4> QED
        BY <2>5, <3>1, <3>2, <4>1 DEF Apart
    <3>4. LastEntry(f).key < LastEntry(g).key
      BY <2>4, <3>1, <3>3
    <3> DEFINE x == LastEntry(f)
               y == LastEntry(g)
    <3>5. x.key \in Int /\ y.key \in Int /\ x.key < y.key
      BY <2>4, <3>1, <3>4, ZenonT(30)
    <3> HIDE DEF x, y
    <3>6. Before(x, y) /\ ~AtOrBefore(y, x)
      BY <3>5 DEF Before, AtOrBefore
    <3> QED
      BY <3>6 DEF x, y
  <2>8. found = {f}
    <3> HIDE DEF later
    <3> QED
      BY <2>6, <2>7 DEF AtOrBefore
  <2>9. GetLevel(level, k, s) = Newest(f.entries, k, s)
    <3> HIDE DEF found
    <3> QED
      BY <1>1, <2>8
  <2>10. ASSUME NEW d \in Seen(Contents(level), k, s)
         PROVE  d \in f.entries
    <3>1. PICK g \in files_[level] : d \in g.entries /\ d.key = k
      BY <2>10, InContents DEF Seen
    <3>2. CASE g # f
      <4>1. Apart(g, f) /\ Good(g) /\ Good(f)
        BY <2>4, <3>2, ZenonT(30) DEF LevelsApart
      <4> QED
        BY <2>3, <3>1, <4>1, ApartKeys
    <3> QED
      BY <3>1, <3>2
  <2>11. Newest(Contents(level), k, s) = Newest(f.entries, k, s)
    <3> HIDE DEF found, later, target
    <3> QED
      BY <1>2, <2>2, <2>10, NewestInPart
  <2> QED
    BY <2>9, <2>11
<1> QED
  BY <1>4, <1>5

(* The layers Get goes through, from the memtable down.                      *)
Layer(n) == IF n = -2 THEN mem_ ELSE IF n = -1 THEN imm_ ELSE Contents(n)
Layers == -2 .. kNumLevels - 1

LEMMA LayersOfStore ==
  ASSUME StoreInv
  PROVE  /\ \A n \in Layers : Layer(n) \in SUBSET (mem_ \cup imm_ \cup Tables)
         /\ \A e \in mem_ \cup imm_ \cup Tables : \E n \in Layers : e \in Layer(n)
         /\ mem_ \cup imm_ \cup Tables \in SUBSET Entry
<1>1. Levels \subseteq Layers /\ -2 \in Layers /\ -1 \in Layers
  BY Constants DEF Levels, Layers
<1>2. \A n \in Layers : n \in Int /\ (n # -2 /\ n # -1 => n \in Levels)
  BY Constants DEF Levels, Layers
<1>3. \A n \in Levels : Layer(n) = Contents(n) /\ n # -1 /\ n # -2
  BY Constants DEF Layer
<1>4. Layer(-2) = mem_ /\ Layer(-1) = imm_
  BY DEF Layer
<1>5. \A n \in Levels : Contents(n) \subseteq Tables
  BY InContents, InTables, ZenonT(30)
<1>6. \A e \in Tables : \E n \in Levels : e \in Contents(n)
  BY InContents, InTables, ZenonT(30)
<1>7. \A n \in Layers : Layer(n) \in SUBSET (mem_ \cup imm_ \cup Tables)
  BY <1>2, <1>3, <1>4, <1>5
<1>8. \A e \in mem_ \cup imm_ \cup Tables : \E n \in Layers : e \in Layer(n)
  BY <1>1, <1>3, <1>4, <1>6
<1>9. mem_ \cup imm_ \cup Tables \in SUBSET Entry
  BY Written DEF StoreInv
<1> QED
  BY <1>7, <1>8, <1>9

LEMMA LayersAged ==
  ASSUME StoreInv, AgeInv, NewerAbove, NEW m \in Layers, NEW n \in Layers, m < n,
         NEW d \in Layer(m), NEW e \in Layer(n), d.key = e.key
  PROVE  e.seq < d.seq
<1>1. m \in Int /\ n \in Int /\ -2 <= m /\ (m # -2 /\ m # -1 => m \in Levels) /\ (n # -2 /\ n # -1 => n \in Levels)
  BY Constants DEF Levels, Layers
<1>2. \A l \in Levels : Contents(l) \subseteq Tables
  BY InContents, InTables
<1>3. CASE m = -2
  BY <1>1, <1>2, <1>3 DEF Layer, AgeInv
<1>4. CASE m = -1
  BY <1>1, <1>2, <1>4 DEF Layer, AgeInv
<1>5. CASE m # -1 /\ m # -2
  <2>1. m \in Levels /\ n \in Levels /\ d \in Contents(m) /\ e \in Contents(n)
    BY <1>1, <1>5, Constants DEF Layer
  <2>2. PICK f \in files_[m] : d \in f.entries
    BY <2>1, InContents, ZenonT(30)
  <2>3. PICK g \in files_[n] : e \in g.entries
    BY <2>1, InContents
  <2>4. d.seq > e.seq
    BY <2>1, <2>2, <2>3 DEF NewerAbove
  <2>5. d.seq \in Nat /\ e.seq \in Nat
    BY <2>1, <2>2, <2>3 DEF StoreInv, Entry
  <2> QED
    BY <2>4, <2>5
<1> QED
  BY <1>3, <1>4, <1>5

LEMMA GetRight ==
  ASSUME Inv, LevelsApart, NEW k \in Keys, NEW s \in Nat
  PROVE  Get(k, s) = Newest(mem_ \cup imm_ \cup Tables, k, s)
<1> DEFINE store == mem_ \cup imm_ \cup Tables
           layer == [n \in -2 .. kNumLevels - 1 |->
                       CASE n = -2 -> Newest(mem_, k, s)
                         [] n = -1 -> Newest(imm_, k, s)
                         [] n = 0 -> GetLevel0(k, s)
                         [] OTHER -> GetLevel(n, k, s)]
           hits == {n \in DOMAIN layer : layer[n] # {}}
           least == {n \in hits : \A m \in hits : n <= m}
<1>1. Get(k, s) = UNION {layer[n] : n \in least}
  BY DEF Get
<1>2. StoreInv /\ AgeInv /\ Level0Inv /\ NewerAbove /\ k \in Int
  BY LevelsAssumption DEF Inv
<1>3. \A n \in Layers : layer[n] = Newest(Layer(n), k, s)
  <2> TAKE n \in Layers
  <2>1. n \in Int /\ (n # -2 /\ n # -1 => n \in Levels)
    BY Constants DEF Levels, Layers
  <2>2. layer[n] = CASE n = -2 -> Newest(mem_, k, s)
                     [] n = -1 -> Newest(imm_, k, s)
                     [] n = 0 -> GetLevel0(k, s)
                     [] OTHER -> GetLevel(n, k, s)
    BY DEF Layers
  <2> HIDE DEF layer
  <2>3. CASE n = -2
    BY <2>2, <2>3 DEF Layer
  <2>4. CASE n = -1
    BY <2>2, <2>4 DEF Layer
  <2>5. CASE n = 0
    BY <1>2, <2>2, <2>5, Level0Right DEF Layer
  <2>6. CASE n # -2 /\ n # -1 /\ n # 0
    <3>1. GetLevel(n, k, s) = Newest(Contents(n), k, s)
      BY <1>2, <2>1, <2>6, LevelRight
    <3> QED
      BY <2>2, <2>6, <3>1 DEF Layer
  <2> QED
    BY <2>3, <2>4, <2>5, <2>6
<1>4. DOMAIN layer = Layers
  BY DEF Layers
<1> HIDE DEF layer
<1>5. /\ \A n \in Layers : Layer(n) \in SUBSET store /\ Layer(n) \in SUBSET Entry
      /\ \A e \in store : \E n \in Layers : e \in Layer(n)
      /\ store \in SUBSET Entry
  BY <1>2, LayersOfStore
<1>6. \A n \in Layers : n \in hits <=> Seen(Layer(n), k, s) # {}
  BY <1>3, <1>4, <1>5, NewestExists
<1>7. hits \subseteq Layers
  BY <1>4
<1> HIDE DEF hits, store
<1>8. \A e \in Seen(store, k, s) : \E n \in Layers : e \in Seen(Layer(n), k, s)
  BY <1>5 DEF Seen
<1>9. CASE hits = {}
  <2>1. Newest(store, k, s) = {}
    BY <1>6, <1>8, <1>9 DEF Newest
  <2> QED
    BY <1>1, <1>9, <2>1 DEF store
<1>10. CASE hits # {}
  <2>1. hits \in SUBSET Int /\ IsFiniteSet(hits)
    <3>1. IsFiniteSet(Layers) /\ Layers \subseteq Int
      BY FS_Interval, Constants DEF Layers
    <3> QED
      BY <1>7, <3>1, FS_Subset, ZenonT(30)
  <2>2. PICK n \in hits : \A m \in hits : n <= m
    BY <1>10, <2>1, FiniteSmallest
  <2>3. least = {n}
    <3>1. \A m \in least : m = n
      BY <2>1, <2>2
    <3>2. n \in least
      BY <2>2
    <3> QED
      BY <3>1, <3>2
  <2>4. Get(k, s) = Newest(Layer(n), k, s)
    <3> HIDE DEF least
    <3> QED
      BY <1>1, <1>3, <1>7, <2>2, <2>3
  <2>5. ASSUME NEW d \in Seen(Layer(n), k, s), NEW e \in Seen(store, k, s)
        PROVE  e \in Layer(n) \/ e.seq < d.seq
    <3>1. PICK m \in Layers : e \in Seen(Layer(m), k, s)
      BY <1>8
    <3>2. m \in hits /\ m \in Int /\ n \in Int /\ n <= m /\ n \in Layers
      BY <1>6, <1>7, <2>1, <2>2, <3>1
    <3>3. d \in Layer(n) /\ e \in Layer(m) /\ d.key = e.key
      BY <3>1, <2>5 DEF Seen
    <3>4. CASE n < m
      BY <1>2, <3>1, <3>2, <3>3, <3>4, LayersAged
    <3> QED
      BY <3>2, <3>3, <3>4
  <2>6. Seen(Layer(n), k, s) # {} /\ Layer(n) \in SUBSET store
    BY <1>5, <1>6, <1>7, <2>2
  <2>7. Newest(store, k, s) = Newest(Layer(n), k, s)
    BY <1>5, <2>5, <2>6, NewestInPart
  <2> QED
    BY <2>4, <2>7 DEF store
<1> QED
  BY <1>9, <1>10

LEMMA ReadsFollow ==
  ASSUME Inv, LevelsApart
  PROVE  ReadsCorrect
<1>1. \A s \in Readable : s \in Nat
  BY DEF Inv, StoreInv, SnapInv, Readable
<1>2. GetCorrect
  BY <1>1, GetRight, ZenonT(30) DEF Inv, GetCorrect, IteratorCorrect
<1> QED
  BY <1>2 DEF Inv, ReadsCorrect

(* As long as below level 0 no two files of a level share a range of user    *)
(* keys, Get and iterators read exactly what was written, whatever is        *)
(* flushed, compacted (by hand too) and cut and whichever snapshots are held *)
(* (version_set.cc 323-433, db_impl.cc 860-1000, 1041-1139).                 *)
THEOREM ReadsWhileApart == Spec /\ []LevelsApart => []ReadsCorrect
<1>1. Init => Inv
  BY StoreFirst
<1>2. Inv /\ LevelsApart /\ [Next]_vars => Inv'
  BY StoreStep
<1>3. Inv /\ LevelsApart => ReadsCorrect
  BY ReadsFollow
<1> QED
  BY <1>1, <1>2, <1>3, PTL DEF Spec

-----------------------------------------------------------------------------
(* The levels stay apart, without manual compactions and when a compaction   *)
(* cannot cut between two entries of a key.                                  *)

(* For the levels to stay apart: whatever meets none of the inputs lies on   *)
(* one side of all of them; and without snapshots they are all old enough    *)
(* for the merge to keep one entry of a key.                                 *)
Gapless(F) ==
  \A a, b \in Keys : a <= b /\ (\A f \in F : ~Overlaps(f, a, b)) => b < Smallest(F) \/ Largest(F) < a
GapInv ==
  /\ MaxSnapshots = 0 => snapshots_ = <<>>
  /\ compaction # None =>
       /\ Gapless(compaction.inputs[1] \cup compaction.inputs[2])
       /\ MaxSnapshots = 0 =>
            \A f \in compaction.inputs[1] \cup compaction.inputs[2] :
              \A e \in f.entries : e.seq <= compaction.smallest_snapshot

LEMMA Missed ==
  ASSUME NEW f, Good(f), NEW a \in Int, NEW b \in Int
  PROVE  ~Overlaps(f, a, b) <=> b < Smallest({f}) \/ Largest({f}) < a
BY Range1 DEF Overlaps

(* An interval before F that meets none of the files F's range touches is    *)
(* before all of them; the same after F.                                     *)
LEMMA SideLow ==
  ASSUME StoreInv, NEW level \in Levels, NEW F, F # {}, \A f \in F : Good(f),
         NEW a \in Int, NEW b \in Int, a <= b, b < Smallest(F),
         \A g \in Over(level, F) : ~Overlaps(g, a, b), NEW g \in Over(level, F)
  PROVE  b < Smallest({g})
<1> DEFINE begin == Smallest(F)
           end == Largest(F)
           G == GetOverlappingInputs(level, begin, end)
<1>1. begin \in Int /\ end \in Int /\ begin <= end /\ b < begin
  BY Hull
<1>2. g \in G /\ \A h \in G : ~Overlaps(h, a, b)
  BY DEF Over
<1> HIDE DEF begin, end
<1>3. \A h \in files_[level] : Good(h) /\ Smallest({h}) \in Int /\ Largest({h}) \in Int
  BY GoodFiles, Range1, ZenonT(30)
<1>4. ASSUME NEW h \in files_[level], Overlaps(h, begin, end), ~Overlaps(h, a, b)
      PROVE  b < Smallest({h})
  BY <1>1, <1>3, <1>4 DEF Overlaps
<1>5. CASE level # 0
  <2>1. G = Touching(files_[level], begin, end)
    BY <1>5, Constants DEF GetOverlappingInputs
  <2> QED
    BY <1>2, <1>4, <2>1 DEF Touching
<1>6. CASE level = 0
  <2> DEFINE H == {h \in G : b < Smallest({h})}
  <2>1. /\ G \subseteq files_[0] /\ Closed(G, begin, end)
        /\ \A I \in SUBSET files_[0] : Closed(I, begin, end) => G \subseteq I
    BY <1>6, LeastClosed
  <2> HIDE DEF G
  <2>2. Touching(files_[0], begin, end) \subseteq H
    BY <1>2, <1>4, <1>6, <2>1 DEF Closed, Touching
  <2>3. ASSUME NEW h \in H, NEW i \in Touching(files_[0], Smallest({h}), Largest({h}))
        PROVE  i \in H
    <3>1. i \in G /\ i \in files_[0] /\ Overlaps(i, Smallest({h}), Largest({h}))
      BY <2>1, <2>3 DEF Closed, Touching
    <3>2. ~Overlaps(i, a, b)
      BY <1>2, <3>1
    <3>3. /\ Smallest({h}) \in Int /\ Largest({h}) \in Int /\ b < Smallest({h})
          /\ Smallest({i}) \in Int /\ Largest({i}) \in Int
      BY <1>3, <1>6, <2>1, <2>3, <3>1
    <3>4. b < Smallest({i})
      BY <3>1, <3>2, <3>3 DEF Overlaps
    <3> QED
      BY <3>1, <3>4
  <2>4. Closed(H, begin, end) /\ H \in SUBSET files_[0]
    BY <2>1, <2>2, <2>3 DEF Closed
  <2>5. g \in H
    <3> HIDE DEF H
    <3> QED
      BY <1>2, <2>1, <2>4
  <2> QED
    BY <2>5
<1> QED
  BY <1>5, <1>6

LEMMA SideHigh ==
  ASSUME StoreInv, NEW level \in Levels, NEW F, F # {}, \A f \in F : Good(f),
         NEW a \in Int, NEW b \in Int, a <= b, Largest(F) < a,
         \A g \in Over(level, F) : ~Overlaps(g, a, b), NEW g \in Over(level, F)
  PROVE  Largest({g}) < a
<1> DEFINE begin == Smallest(F)
           end == Largest(F)
           G == GetOverlappingInputs(level, begin, end)
<1>1. begin \in Int /\ end \in Int /\ begin <= end /\ end < a
  BY Hull
<1>2. g \in G /\ \A h \in G : ~Overlaps(h, a, b)
  BY DEF Over
<1> HIDE DEF begin, end
<1>3. \A h \in files_[level] : Good(h) /\ Smallest({h}) \in Int /\ Largest({h}) \in Int
  BY GoodFiles, Range1, ZenonT(30)
<1>4. ASSUME NEW h \in files_[level], Overlaps(h, begin, end), ~Overlaps(h, a, b)
      PROVE  Largest({h}) < a
  BY <1>1, <1>3, <1>4 DEF Overlaps
<1>5. CASE level # 0
  <2>1. G = Touching(files_[level], begin, end)
    BY <1>5, Constants DEF GetOverlappingInputs
  <2> QED
    BY <1>2, <1>4, <2>1 DEF Touching
<1>6. CASE level = 0
  <2> DEFINE H == {h \in G : Largest({h}) < a}
  <2>1. /\ G \subseteq files_[0] /\ Closed(G, begin, end)
        /\ \A I \in SUBSET files_[0] : Closed(I, begin, end) => G \subseteq I
    BY <1>6, LeastClosed
  <2> HIDE DEF G
  <2>2. Touching(files_[0], begin, end) \subseteq H
    BY <1>2, <1>4, <1>6, <2>1 DEF Closed, Touching
  <2>3. ASSUME NEW h \in H, NEW i \in Touching(files_[0], Smallest({h}), Largest({h}))
        PROVE  i \in H
    <3>1. i \in G /\ i \in files_[0] /\ Overlaps(i, Smallest({h}), Largest({h}))
      BY <2>1, <2>3 DEF Closed, Touching
    <3>2. ~Overlaps(i, a, b)
      BY <1>2, <3>1
    <3>3. /\ Smallest({h}) \in Int /\ Largest({h}) \in Int /\ Largest({h}) < a
          /\ Smallest({i}) \in Int /\ Largest({i}) \in Int
      BY <1>3, <1>6, <2>1, <2>3, <3>1
    <3>4. Largest({i}) < a
      BY <3>1, <3>2, <3>3 DEF Overlaps
    <3> QED
      BY <3>1, <3>4
  <2>4. Closed(H, begin, end) /\ H \in SUBSET files_[0]
    BY <2>1, <2>2, <2>3 DEF Closed
  <2>5. g \in H
    <3> HIDE DEF H
    <3> QED
      BY <1>2, <2>1, <2>4
  <2> QED
    BY <2>5
<1> QED
  BY <1>5, <1>6

LEMMA GaplessGrows ==
  ASSUME StoreInv, LevelsApart, NEW level \in Levels, NEW W, \A f \in W : Good(f), Gapless(W),
         NEW F \in SUBSET W, F # {}
  PROVE  Gapless(W \cup Over(level, F))
<1> DEFINE G == Over(level, F)
           U == W \cup G
<1>1. \A g \in G : Good(g)
  BY Overlapping, GoodFiles DEF Over
<1>2. (\A f \in U : Good(f)) /\ (\A f \in F : Good(f)) /\ U # {} /\ W # {}
  BY <1>1
<1> HIDE DEF G
<1>3. Smallest(W) <= Smallest(F) /\ Largest(F) <= Largest(W)
  <2>1. PICK f \in F : Smallest({f}) = Smallest(F)
    BY <1>2, Hull, ZenonT(30)
  <2>2. PICK g \in F : Largest({g}) = Largest(F)
    BY <1>2, Hull, ZenonT(30)
  <2> QED
    BY <1>2, <2>1, <2>2, Hull
<1>4. /\ Smallest(W) \in Int /\ Largest(W) \in Int /\ Smallest(F) \in Int /\ Largest(F) \in Int
      /\ Smallest(U) \in Int /\ Largest(U) \in Int
  <2>1. Smallest(W) \in Int /\ Largest(W) \in Int
    BY <1>2, Hull
  <2>2. Smallest(F) \in Int /\ Largest(F) \in Int
    BY <1>2, Hull
  <2>3. Smallest(U) \in Int /\ Largest(U) \in Int
    <3> HIDE DEF U
    <3> QED
      BY <1>2, Hull
  <2> QED
    BY <2>1, <2>2, <2>3
<1> SUFFICES ASSUME NEW a \in Keys, NEW b \in Keys, a <= b, \A f \in U : ~Overlaps(f, a, b)
             PROVE  b < Smallest(U) \/ Largest(U) < a
  BY DEF Gapless, G
<1>5. a \in Int /\ b \in Int
  BY LevelsAssumption
<1>6. b < Smallest(W) \/ Largest(W) < a
  BY DEF Gapless
<1>7. CASE b < Smallest(W)
  <2>1. b < Smallest(F)
    BY <1>3, <1>4, <1>5, <1>7
  <2>2. \A g \in G : b < Smallest({g})
    BY <1>2, <1>5, <2>1, SideLow, ZenonT(30) DEF G
  <2>3. \A w \in W : b < Smallest({w})
    <3> TAKE w \in W
    <3>1. Smallest(W) <= Smallest({w}) /\ Smallest({w}) \in Int
      BY <1>2, Hull, Range1
    <3> QED
      BY <1>4, <1>5, <1>7, <3>1
  <2>4. PICK x \in U : Smallest({x}) = Smallest(U)
    <3> HIDE DEF U
    <3> QED
      BY <1>2, Hull, ZenonT(30)
  <2> QED
    BY <2>2, <2>3, <2>4
<1>8. CASE Largest(W) < a
  <2>1. Largest(F) < a
    BY <1>3, <1>4, <1>5, <1>8
  <2>2. \A g \in G : Largest({g}) < a
    BY <1>2, <1>5, <2>1, SideHigh, ZenonT(30) DEF G
  <2>3. \A w \in W : Largest({w}) < a
    <3> TAKE w \in W
    <3>1. Largest({w}) <= Largest(W) /\ Largest({w}) \in Int
      BY <1>2, Hull, Range1, ZenonT(30)
    <3> QED
      BY <1>4, <1>5, <1>8, <3>1
  <2>4. PICK x \in U : Largest({x}) = Largest(U)
    <3> HIDE DEF U
    <3> QED
      BY <1>2, Hull, ZenonT(30)
  <2> QED
    BY <2>2, <2>3, <2>4
<1> QED
  BY <1>6, <1>7, <1>8

LEMMA PickedGapless ==
  ASSUME StoreInv, LevelsApart, NEW level \in Levels, NEW f \in files_[level]
  PROVE  Gapless(IF level = 0 THEN Over(0, {f}) ELSE {f})
<1>1. Good(f) /\ \A g \in {f} : Good(g)
  BY GoodFiles
<1>2. Gapless({f})
  BY <1>1, Missed, LevelsAssumption DEF Gapless
<1>3. CASE level = 0
  <2>1. Gapless({f} \cup Over(0, {f}))
    BY <1>1, <1>2, GaplessGrows, Constants
  <2>2. f \in Over(0, {f})
    BY <1>3, PickedFiles
  <2>3. {f} \cup Over(0, {f}) = Over(0, {f})
    BY <2>2
  <2> QED
    BY <1>3, <2>1, <2>3
<1> QED
  BY <1>2, <1>3

LEMMA SetupGapless ==
  ASSUME StoreInv, LevelsApart, NEW level \in Levels, level + 1 \in Levels,
         NEW F, F \subseteq files_[level], F # {}, Gapless(F),
         NEW in \in SetupOtherInputs(level, F)
  PROVE  Gapless(in[1] \cup in[2])
<1> DEFINE parents == Over(level + 1, F)
           more == Over(level, F \cup parents)
           others == Over(level + 1, more)
<1>1. in = <<F, parents>> \/ in = <<more, others>>
  BY DEF SetupOtherInputs
<1>2. parents = Touching(files_[level + 1], Smallest(F), Largest(F))
  BY Constants DEF Over, GetOverlappingInputs
<1>3. others = Touching(files_[level + 1], Smallest(more), Largest(more))
  <2> HIDE DEF more
  <2> QED
    BY Constants DEF Over, GetOverlappingInputs
<1>4. \A f \in F : Good(f)
  BY GoodFiles
<1>5. Gapless(F \cup parents)
  BY <1>4, GaplessGrows
<1>6. \A f \in F \cup parents : Good(f)
  BY <1>2, <1>4, GoodFiles DEF Touching
<1>7. /\ more \subseteq files_[level]
      /\ Touching(files_[level], Smallest(F \cup parents), Largest(F \cup parents)) \subseteq more
  <2> HIDE DEF parents
  <2> QED
    BY Overlapping DEF Over
<1>8. F \subseteq more
  <2> HIDE DEF parents, more
  <2> QED
    BY <1>6, <1>7, InsideTouches DEF Touching
<1>9. Gapless((F \cup parents) \cup more)
  <2> HIDE DEF parents
  <2> QED
    BY <1>5, <1>6, GaplessGrows
<1> HIDE DEF parents, more, others
<1>10. (F \cup parents) \cup more = more \cup parents
  BY <1>8
<1>11. \A f \in more : Good(f)
  BY <1>7, GoodFiles
<1>12. Gapless((more \cup parents) \cup others)
  <2>1. \A f \in more \cup parents : Good(f)
    BY <1>6, <1>11
  <2>2. more \in SUBSET (more \cup parents) /\ more # {}
    BY <1>8
  <2> QED
    BY <1>9, <1>10, <2>1, <2>2, GaplessGrows DEF others
<1>13. parents \subseteq others
  <2>1. /\ Smallest(more) <= Smallest(F) /\ Largest(F) <= Largest(more)
        /\ Smallest(more) \in Int /\ Largest(more) \in Int /\ Smallest(F) \in Int /\ Largest(F) \in Int
    <3>1. Smallest(F) \in Int /\ Largest(F) \in Int
      BY <1>4, Hull
    <3>2. Smallest(more) \in Int /\ Largest(more) \in Int
      BY <1>8, <1>11, Hull
    <3>3. PICK f \in F : Smallest({f}) = Smallest(F)
      BY <1>4, Hull, ZenonT(30)
    <3>4. PICK g \in F : Largest({g}) = Largest(F)
      BY <1>4, Hull, ZenonT(30)
    <3>5. Smallest(more) <= Smallest({f}) /\ Largest({g}) <= Largest(more)
      BY <1>8, <1>11, Hull
    <3> QED
      BY <3>1, <3>2, <3>3, <3>4, <3>5
  <2>2. \A h \in files_[level + 1] : Smallest({h}) \in Int /\ Largest({h}) \in Int
    BY GoodFiles, Range1, ZenonT(30)
  <2>3. ASSUME NEW h \in files_[level + 1], Overlaps(h, Smallest(F), Largest(F))
        PROVE  Overlaps(h, Smallest(more), Largest(more))
    BY <2>1, <2>2, <2>3 DEF Overlaps
  <2> QED
    BY <1>2, <1>3, <2>3 DEF Touching
<1>14. (more \cup parents) \cup others = more \cup others
  BY <1>13
<1> QED
  BY <1>1, <1>5, <1>12, <1>14

(* Cut anywhere, entries of distinct keys make files apart.                  *)
LEMMA CutApart ==
  ASSUME NEW out, IsFiniteSet(out), out \subseteq {e \in Entry : e.key \in Keys}, NEW cuts \in SUBSET out,
         cuts = {} \/ \A d, e \in out : d.key = e.key => d = e,
         NEW g \in OutputFiles(out, cuts), NEW h \in OutputFiles(out, cuts), g # h
  PROVE  Apart(g, h)
<1> DEFINE Number(e) == CutsBefore(e, cuts)
           Part(n) == {e \in out : Number(e) = n}
<1>1. PICK m : g = [number |-> NewFileNumber + m, entries |-> Part(m)]
  BY DEF OutputFiles
<1>2. PICK n : h = [number |-> NewFileNumber + n, entries |-> Part(n)]
  BY DEF OutputFiles
<1>3. m # n /\ g.entries = Part(m) /\ h.entries = Part(n)
  BY <1>1, <1>2, ZenonT(30)
<1>4. Good(g) /\ Good(h)
  BY Outputs DEF Good
<1>5. \A e \in out : Number(e) \in Nat /\ IsFiniteSet({x \in cuts : Before(x, e)})
  <2> TAKE e \in out
  <2>1. IsFiniteSet(cuts)
    BY FS_Subset
  <2>2. IsFiniteSet({x \in cuts : Before(x, e)})
    BY <2>1, FS_Subset
  <2> QED
    BY <2>2, FS_CardinalityType DEF CutsBefore
<1>6. ASSUME NEW d \in out, NEW e \in out, e.key < d.key
      PROVE  Number(e) <= Number(d)
  <2>1. d.key \in Int /\ e.key \in Int /\ \A x \in cuts : x.key \in Int
    BY DEF Entry
  <2>2. {x \in cuts : Before(x, e)} \subseteq {x \in cuts : Before(x, d)}
    BY <1>6, <2>1 DEF Before
  <2> QED
    BY <1>5, <2>2, FS_Subset DEF CutsBefore
<1>7. ASSUME cuts = {}
      PROVE  FALSE
  <2>1. \A e \in out : Number(e) = 0
    <3> TAKE e \in out
    <3>1. {x \in cuts : Before(x, e)} = {}
      BY <1>7
    <3> QED
      BY <3>1, FS_EmptySet DEF CutsBefore
  <2>2. m = 0 /\ n = 0
    BY <1>3, <1>4, <2>1 DEF Good
  <2> QED
    BY <1>3, <2>2
<1> HIDE DEF Number
<1>8. ASSUME NEW d \in Part(m), NEW e \in Part(n)
      PROVE  d.key \in Int /\ e.key \in Int /\ d.key # e.key /\ (m < n => d.key < e.key) /\ (n < m => e.key < d.key)
  <2>1. d \in out /\ e \in out /\ Number(d) = m /\ Number(e) = n
    OBVIOUS
  <2>2. d.key \in Int /\ e.key \in Int /\ d.key # e.key /\ m \in Nat /\ n \in Nat
    BY <1>3, <1>5, <1>7, <2>1, ZenonT(30) DEF Entry
  <2>3. m < n => d.key < e.key
    BY <1>6, <2>1, <2>2
  <2>4. n < m => e.key < d.key
    BY <1>6, <2>1, <2>2
  <2> QED
    BY <2>2, <2>3, <2>4
<1>9. m \in Nat /\ n \in Nat
  <2>1. PICK d \in Part(m) : TRUE
    BY <1>3, <1>4 DEF Good
  <2>2. PICK e \in Part(n) : TRUE
    BY <1>3, <1>4 DEF Good
  <2> QED
    BY <1>5, <2>1, <2>2, ZenonT(30)
<1>10. PICK d \in g.entries : d.key = Largest({g})
  BY <1>4, Range1, ZenonT(30)
<1>11. PICK e \in h.entries : e.key = Smallest({h})
  BY <1>4, Range1, ZenonT(30)
<1>12. PICK i \in g.entries : i.key = Smallest({g})
  BY <1>4, Range1, ZenonT(30)
<1>13. PICK j \in h.entries : j.key = Largest({h})
  BY <1>4, Range1, ZenonT(30)
<1>14. (m < n => d.key < e.key) /\ (n < m => j.key < i.key)
  BY <1>3, <1>8, <1>10, <1>11, <1>12, <1>13
<1> QED
  BY <1>3, <1>9, <1>10, <1>11, <1>12, <1>13, <1>14 DEF Apart

LEMMA FlushApart ==
  ASSUME Inv, LevelsApart, CompactMemTable
  PROVE  LevelsApart'
<1> DEFINE f == [number |-> next_file_number_, entries |-> imm_]
<1>1. PICK level \in Levels :
        /\ PickLevelForMemTableOutput(level, Smallest({f}), Largest({f}))
        /\ files_' = [files_ EXCEPT ![level] = @ \cup {f}]
  BY ZenonT(30) DEF CompactMemTable, NewFileNumber
<1>2. StoreInv /\ Good(f)
  BY DEF Inv, StoreInv, Good, CompactMemTable
<1> HIDE DEF f
<1>3. \A l \in Levels : files_'[l] = IF l = level THEN files_[l] \cup {f} ELSE files_[l]
  BY <1>1, <1>2, ZenonT(30) DEF StoreInv
<1>4. level # 0 => \A g \in files_[level] : Apart(g, f) /\ Apart(f, g)
  BY <1>1, <1>2, PickedApart, ApartSymmetric, Constants
<1> QED
  BY <1>3, <1>4, ZenonT(30) DEF LevelsApart

LEMMA MoveApart ==
  ASSUME StoreInv, LevelsApart, NEW level \in Levels, level + 1 \in Levels,
         NEW in, Inputs(level, in), TrivialMove(level, in)
  PROVE  LevelsApart'
<1>1. /\ files_'[level] = files_[level] \ in[1]
      /\ files_'[level + 1] = files_[level + 1] \cup in[1]
      /\ \A l \in Levels : l # level /\ l # level + 1 => files_'[l] = files_[l]
  BY Moves
<1>2. IsFiniteSet(in[1])
  BY FS_Subset DEF StoreInv, Inputs
<1>3. PICK f : in[1] = {f}
  BY <1>2, FS_Singleton, ZenonT(30) DEF TrivialMove
<1>4. \A g \in files_[level + 1] : Apart(f, g) /\ Apart(g, f)
  BY <1>3, ApartSymmetric DEF Inputs, TrivialMove
<1> QED
  BY <1>1, <1>3, <1>4 DEF LevelsApart

LEMMA InstallApart ==
  ASSUME Inv, LevelsApart, GapInv, MaxCuts = 0 \/ MaxSnapshots = 0, InstallCompactionResults
  PROVE  LevelsApart'
<1> DEFINE c == compaction
           out == Output(c)
           F == c.inputs[1] \cup c.inputs[2]
<1>1. PICK cuts \in SUBSET out : Cardinality(cuts) <= MaxCuts /\ files_' = Install(c, OutputFiles(out, cuts))
  BY DEF InstallCompactionResults
<1>2. c # None
  BY DEF InstallCompactionResults
<1>3. StoreInv /\ Sound(c)
  BY <1>2 DEF Inv, CompInv
<1>4. Gapless(F) /\ (MaxSnapshots = 0 => \A f \in F : \A e \in f.entries : e.seq <= c.smallest_snapshot)
  BY <1>2 DEF GapInv
<1> DEFINE new == OutputFiles(out, cuts)
           L == c.level
<1>5. out = Kept(Merged(c), c.smallest_snapshot, {k \in Keys : IsBaseLevelForKey(c, k)}) /\ out \subseteq Merged(c)
  BY DEF Output, Merged, Kept
<1>6. Merged(c) \subseteq history
  BY <1>3, InMerged
<1>7. IsFiniteSet(out) /\ out \subseteq {e \in Entry : e.key \in Keys}
  BY <1>3, <1>5, <1>6, FS_Subset DEF StoreInv
<1>8. \A g \in new : g.entries # {} /\ g.entries \subseteq out
  <2> HIDE DEF out
  <2> QED
    BY <1>7, Outputs
<1>9. \A e \in Merged(c) : \E f \in F : e \in f.entries
  BY DEF Merged
<1>10. files_' = Install(c, new)
  BY <1>1
<1>11. /\ L \in Levels /\ L + 1 \in Levels /\ L \in Nat /\ L + 1 # 0 /\ L # L + 1
       /\ c.inputs[1] \subseteq files_[L] /\ c.inputs[1] # {} /\ c.inputs[2] \subseteq files_[L + 1]
  <2>1. /\ L \in Levels /\ L + 1 \in Levels
        /\ c.inputs[1] \subseteq files_[L] /\ c.inputs[1] # {} /\ c.inputs[2] \subseteq files_[L + 1]
    BY <1>3 DEF Sound
  <2>2. L \in Nat
    BY <2>1, Constants
  <2> QED
    BY <2>1, <2>2
<1>12. cuts = {} \/ \A d, e \in out : d.key = e.key => d = e
  <2>1. CASE MaxCuts = 0
    <3>1. IsFiniteSet(cuts) /\ Cardinality(cuts) \in Nat
      BY <1>7, FS_Subset, FS_CardinalityType
    <3> QED
      BY <1>1, <2>1, <3>1, FS_EmptySet
  <2>2. CASE MaxSnapshots = 0
    <3> SUFFICES ASSUME NEW d \in out, NEW e \in out, d.key = e.key
                 PROVE  d = e
      OBVIOUS
    <3>1. d \in Merged(c) /\ e \in Merged(c) /\ d \in history /\ e \in history
      BY <1>5, <1>6
    <3>2. d.seq <= c.smallest_snapshot /\ e.seq <= c.smallest_snapshot
      BY <1>4, <1>9, <2>2, <3>1
    <3>3. ~Hidden(Merged(c), d, c.smallest_snapshot) /\ ~Hidden(Merged(c), e, c.smallest_snapshot)
      BY <1>5 DEF Kept
    <3>4. ~(d.seq > e.seq) /\ ~(e.seq > d.seq)
      BY <3>1, <3>2, <3>3 DEF Hidden
    <3>5. d.seq \in Nat /\ e.seq \in Nat
      BY <1>7 DEF Entry
    <3> QED
      BY <1>3, <3>1, <3>4, <3>5 DEF StoreInv
  <2> QED
    BY <2>1, <2>2
<1>13. ASSUME NEW g \in new, NEW h \in new, g # h
       PROVE  Apart(g, h)
  <2> HIDE DEF out
  <2> QED
    BY <1>7, <1>12, <1>13, CutApart
<1> HIDE DEF new, out, c
<1>14. \A f \in F : Good(f)
  BY <1>3, <1>11, GoodFiles
<1>15. \A g \in new : Good(g)
  BY <1>7, <1>8 DEF Good
<1>16. ASSUME NEW g \in files_[L + 1] \ c.inputs[2], NEW h \in new
       PROVE  Apart(g, h)
  <2>1. Good(g)
    BY <1>3, <1>11, GoodFiles
  <2>2. \A f \in F : Apart(f, g)
    <3>1. \A f \in c.inputs[1] : Apart(f, g)
      BY <1>3, <1>16 DEF Sound
    <3>2. \A f \in c.inputs[2] : Apart(f, g)
      BY <1>11, <1>16 DEF LevelsApart
    <3> QED
      BY <3>1, <3>2
  <2>3. \A f \in F : ~Overlaps(f, Smallest({g}), Largest({g}))
    BY <1>14, <2>1, <2>2, ApartOrOverlaps
  <2>4. /\ Smallest({g}) \in Keys /\ Largest({g}) \in Keys /\ Smallest({g}) <= Largest({g})
        /\ Smallest({g}) \in Int /\ Largest({g}) \in Int
    BY <2>1, Range1, ZenonT(30)
  <2>5. Largest({g}) < Smallest(F) \/ Largest(F) < Smallest({g})
    BY <1>4, <2>3, <2>4, ZenonT(30) DEF Gapless
  <2>6. F # {} /\ Smallest(F) \in Int /\ Largest(F) \in Int
    <3>1. F # {}
      BY <1>11
    <3> HIDE DEF F
    <3> QED
      BY <1>14, <3>1, Hull
  <2>7. \A e \in h.entries : Smallest(F) <= e.key /\ e.key <= Largest(F)
    <3> TAKE e \in h.entries
    <3>1. PICK f \in F : e \in f.entries
      BY <1>5, <1>8, <1>9
    <3> HIDE DEF F
    <3> QED
      BY <1>14, <2>6, <3>1, Ranges
  <2>8. /\ Smallest({h}) \in Int /\ Largest({h}) \in Int
        /\ \E e \in h.entries : e.key = Smallest({h})
        /\ \E e \in h.entries : e.key = Largest({h})
    BY <1>15, Range1, ZenonT(30)
  <2>9. Smallest(F) <= Smallest({h}) /\ Largest({h}) <= Largest(F)
    BY <2>7, <2>8, ZenonT(30)
  <2> QED
    BY <2>4, <2>5, <2>6, <2>8, <2>9 DEF Apart
<1>17. /\ files_'[L] = files_[L] \ c.inputs[1]
       /\ files_'[L + 1] = (files_[L + 1] \ c.inputs[2]) \cup new
       /\ \A l \in Levels : l # L /\ l # L + 1 => files_'[l] = files_[l]
  BY <1>3, <1>10, Installed
<1> SUFFICES ASSUME NEW l \in Levels \ {0}, NEW g \in files_'[l], NEW h \in files_'[l], g # h
             PROVE  Apart(g, h)
  BY DEF LevelsApart
<1>18. CASE g \in files_[l] /\ h \in files_[l]
  BY <1>18 DEF LevelsApart
<1>19. CASE l = L + 1
  BY <1>13, <1>16, <1>17, <1>18, <1>19, ApartSymmetric
<1> QED
  BY <1>17, <1>18, <1>19

LEMMA PickGap ==
  ASSUME Inv, LevelsApart, GapInv, NEW level \in Levels, NEW f \in files_[level], PickCompaction(level, f)
  PROVE  LevelsApart' /\ GapInv'
<1> DEFINE F == IF level = 0 THEN Over(0, {f}) ELSE {f}
<1>1. compaction = None /\ level + 1 \in Levels /\ UNCHANGED <<last_sequence, snapshots_, history>>
  BY Constants DEF PickCompaction, Levels
<1>2. PICK in \in SetupOtherInputs(level, F) : TrivialMove(level, in) \/ Begin(level, in)
  BY DEF PickCompaction
<1>3. F # {} /\ F \subseteq files_[level] /\ Separate(level, F) /\ StoreInv /\ SnapInv
  BY PickedFiles DEF Inv
<1>4. Gapless(F)
  BY <1>3, PickedGapless
<1> HIDE DEF F
<1>5. Inputs(level, in) /\ Gapless(in[1] \cup in[2])
  BY <1>1, <1>2, <1>3, <1>4, SetupFacts, SetupGapless
<1>6. CASE TrivialMove(level, in)
  <2>1. LevelsApart'
    BY <1>1, <1>3, <1>5, <1>6, MoveApart
  <2>2. GapInv'
    BY <1>1, <1>6 DEF GapInv, TrivialMove
  <2> QED
    BY <2>1, <2>2
<1>7. CASE Begin(level, in)
  <2>1. files_' = files_
    BY <1>7 DEF Begin
  <2>2. compaction'.inputs = in /\ compaction'.smallest_snapshot = SmallestSnapshot
    BY <1>7 DEF Begin
  <2>3. ASSUME MaxSnapshots = 0, NEW g \in in[1] \cup in[2], NEW e \in g.entries
        PROVE  e.seq <= SmallestSnapshot
    <3>1. SmallestSnapshot = last_sequence
      BY <2>3 DEF GapInv, SmallestSnapshot
    <3>2. e \in history
      BY <1>1, <1>3, <1>5, <2>3 DEF Inputs, StoreInv
    <3> QED
      BY <1>3, <3>1, <3>2 DEF StoreInv
  <2>4. Gapless(compaction'.inputs[1] \cup compaction'.inputs[2])
    BY <1>5, <2>2
  <2>5. GapInv'
    BY <1>1, <2>2, <2>3, <2>4, ZenonT(30) DEF GapInv, Gapless
  <2> QED
    BY <2>1, <2>5 DEF LevelsApart
<1> QED
  BY <1>2, <1>6, <1>7

LEMMA ApartStep ==
  ASSUME Inv, LevelsApart, GapInv, Manual = FALSE, MaxCuts = 0 \/ MaxSnapshots = 0, [Next]_vars
  PROVE  LevelsApart' /\ GapInv'
<1>1. ASSUME UNCHANGED files_
      PROVE  LevelsApart'
  BY <1>1, ZenonT(30) DEF LevelsApart
<1>2. ASSUME UNCHANGED <<snapshots_, compaction>>
      PROVE  GapInv'
  BY <1>2, ZenonT(30) DEF GapInv, Gapless
<1>3. CASE UNCHANGED vars
  BY <1>1, <1>2, <1>3 DEF vars
<1>4. CASE \E k \in Keys, type \in Types : Write(k, type)
  BY <1>1, <1>2, <1>4 DEF Write
<1>5. CASE SwitchMemTable
  BY <1>1, <1>2, <1>5 DEF SwitchMemTable
<1>6. CASE GetSnapshot
  <2>1. MaxSnapshots # 0 /\ UNCHANGED <<files_, compaction>>
    <3>1. Len(snapshots_) \in Nat /\ Len(snapshots_) < MaxSnapshots
      BY <1>6 DEF GetSnapshot, Inv, SnapInv
    <3> QED
      BY <1>6, <3>1, LevelsAssumption DEF GetSnapshot
  <2> QED
    BY <1>1, <2>1, ZenonT(30) DEF GapInv, Gapless
<1>7. ASSUME NEW n \in 1 .. Len(snapshots_), ReleaseSnapshot(n)
      PROVE  LevelsApart' /\ GapInv'
  <2>1. MaxSnapshots # 0 /\ UNCHANGED <<files_, compaction>>
    BY <1>7 DEF GapInv, ReleaseSnapshot
  <2> QED
    BY <1>1, <2>1, ZenonT(30) DEF GapInv, Gapless
<1>8. CASE CompactMemTable
  BY <1>2, <1>8, FlushApart, ZenonT(30) DEF CompactMemTable
<1>9. CASE \E level \in Levels : \E f \in files_[level] : PickCompaction(level, f)
  BY <1>9, PickGap
<1>10. CASE \E level \in Levels, begin \in Keys, end \in Keys : begin <= end /\ CompactRange(level, begin, end)
  BY <1>10 DEF CompactRange
<1>11. CASE InstallCompactionResults
  <2>1. GapInv'
    BY <1>11, ZenonT(30) DEF GapInv, InstallCompactionResults
  <2> QED
    BY <1>11, <2>1, InstallApart
<1>12. CASE CompactionFails
  BY <1>1, <1>12 DEF CompactionFails, GapInv
<1> QED
  BY <1>3, <1>4, <1>5, <1>6, <1>7, <1>8, <1>9, <1>10, <1>11, <1>12, ZenonT(30) DEF Next

(* The first entry of a file in internal order.                              *)
LEMMA FirstOfFile ==
  ASSUME StoreInv, NEW level \in Levels, NEW f \in files_[level]
  PROVE  FirstEntry(f) \in f.entries /\ \A d \in f.entries : AtOrBefore(FirstEntry(f), d)
<1>1. /\ Good(f) /\ last_sequence \in Nat
      /\ \A d, e \in f.entries : d.seq = e.seq => d = e
      /\ \A d \in f.entries : d.seq \in Nat /\ d.key \in Int /\ d.seq <= last_sequence
  <2>1. f.entries \subseteq history /\ Good(f)
    BY GoodFiles DEF StoreInv
  <2> QED
    BY <2>1 DEF StoreInv, Good, Entry
<1> DEFINE T == {e.seq : e \in {d \in f.entries : d.key = Smallest({f})}}
<1>2. T \in SUBSET (0 .. last_sequence) /\ T # {}
  <2>1. PICK e \in f.entries : e.key = Smallest({f})
    BY <1>1, Range1, ZenonT(30)
  <2>2. e.seq \in T
    BY <2>1
  <2>3. ASSUME NEW y \in T
        PROVE  y \in 0 .. last_sequence
    <3>1. PICK d \in f.entries : y = d.seq
      BY ZenonT(30)
    <3>2. d.seq \in Nat /\ d.seq <= last_sequence /\ last_sequence \in Nat
      BY <1>1, ZenonT(30)
    <3> QED
      BY <3>1, <3>2
  <2> QED
    BY <2>2, <2>3, ZenonT(30)
<1>3. PICK x \in T : \A y \in T : y <= x
  <2> HIDE DEF T
  <2> QED
    BY <1>1, <1>2, LargestExists, ZenonT(30)
<1>4. PICK e \in f.entries : e.key = Smallest({f}) /\ e.seq = x
  BY <1>3
<1>5. \A d \in f.entries : AtOrBefore(e, d)
  <2> TAKE d \in f.entries
  <2>1. e.key <= d.key
    BY <1>1, <1>4, Range1
  <2>2. CASE d.key = e.key
    <3>1. d.seq <= x
      BY <1>3, <1>4, <2>2
    <3> QED
      BY <1>1, <1>4, <2>2, <3>1 DEF AtOrBefore, Before
  <2> QED
    BY <1>1, <1>4, <2>1, <2>2 DEF AtOrBefore, Before
<1> QED
  BY <1>5 DEF FirstEntry

LEMMA DisjointFollows ==
  ASSUME Inv, LevelsApart
  PROVE  LevelsDisjoint
<1> SUFFICES ASSUME NEW level \in Levels \ {0}, NEW f \in files_[level], NEW g \in files_[level],
                    Largest({f}) < Smallest({g})
             PROVE  Before(LastEntry(f), FirstEntry(g))
  BY ZenonT(30) DEF LevelsApart, LevelsDisjoint, Apart
<1> DEFINE x == LastEntry(f)
           y == FirstEntry(g)
<1>1. x \in f.entries /\ y \in g.entries /\ Good(f) /\ Good(g)
  BY LastOfFile, FirstOfFile, GoodFiles DEF Inv
<1> HIDE DEF x, y
<1>2. x.key \in Int /\ x.key <= Largest({f}) /\ Largest({f}) \in Int
  BY <1>1, Range1, ZenonT(30)
<1>3. y.key \in Int /\ Smallest({g}) <= y.key /\ Smallest({g}) \in Int
  BY <1>1, Range1, ZenonT(30)
<1>4. Before(x, y)
  BY <1>2, <1>3 DEF Before
<1> QED
  BY <1>4 DEF x, y

(* No manual compaction; and no output is cut into files, or no snapshot is  *)
(* held (so that a merge keeps one entry of a key).                          *)
NeverSplit == Manual = FALSE /\ (MaxCuts = 0 \/ MaxSnapshots = 0)

LEMMA ApartAlways ==
  ASSUME NeverSplit
  PROVE  Spec => [](Inv /\ LevelsApart /\ GapInv)
<1>1. Init => Inv /\ LevelsApart /\ GapInv
  BY StoreFirst DEF Init, LevelsApart, GapInv
<1>2. (Inv /\ LevelsApart /\ GapInv) /\ [Next]_vars => (Inv /\ LevelsApart /\ GapInv)'
  BY StoreStep, ApartStep, ZenonT(30) DEF NeverSplit
<1> QED
  BY <1>1, <1>2, PTL DEF Spec

(* Compactions that the store starts by itself then keep every level apart,  *)
(* and every read right: whatever the keys, the levels and the order of      *)
(* writes, flushes, moves and merges (version_set.cc 323-433, 1243-1375).    *)
THEOREM ReadsRight ==
  ASSUME NeverSplit
  PROVE  Spec => []ReadsCorrect
<1>1. Inv /\ LevelsApart => ReadsCorrect
  BY ReadsFollow
<1> QED
  BY <1>1, ApartAlways, PTL

(* Likewise no older entry of a key gets above a newer one                   *)
(* (version_set.cc:337).                                                     *)
THEOREM NewerFirst ==
  ASSUME NeverSplit
  PROVE  Spec => []NewerAbove
<1>1. Inv => NewerAbove
  BY DEF Inv
<1> QED
  BY <1>1, ApartAlways, PTL

(* And SaveTo's check for overlapping files in a level never fails           *)
(* (version_set.cc 732-746).                                                 *)
THEOREM Disjoint ==
  ASSUME NeverSplit
  PROVE  Spec => []LevelsDisjoint
<1>1. Inv /\ LevelsApart => LevelsDisjoint
  BY DisjointFollows
<1> QED
  BY <1>1, ApartAlways, PTL
=============================================================================
