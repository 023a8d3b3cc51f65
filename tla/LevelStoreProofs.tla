-------------------------- MODULE LevelStoreProofs --------------------------
(* The levels of tables keep newer entries above older ones and lose nothing *)
(* that can be read, for any number of keys, levels, writes and snapshots,   *)
(* as long as the files of a level do not overlap.                           *)
EXTENDS LevelStore, WellFoundedInduction, FiniteSetTheorems, TLAPS

-----------------------------------------------------------------------------
(* What a compaction may drop.                                               *)

(* < on the natural numbers as a set of pairs, and that it is well-founded. *)
Less == {p \in Nat \X Nat : p[1] < p[2]}

LEMMA LessWellFounded == IsWellFoundedOn(Less, Nat)
BY NatLessThanWellFounded DEF OpToRel, Less

(* A set of numbers that is not empty and has a bound has a largest one.    *)
LEMMA LargestExists ==
  ASSUME NEW s \in Nat, NEW T \in SUBSET (0 .. s), T # {}
  PROVE  \E x \in T : \A y \in T : y <= x
<1> DEFINE U == {s - x : x \in T}
<1>1. U \subseteq Nat /\ U # {}
  OBVIOUS
<1>2. PICK u \in U : \A v \in U : ~(<<v, u>> \in Less)
  <2> HIDE DEF U
  <2> QED
    BY <1>1, LessWellFounded, WFMin, ZenonT(30)
<1>3. \A v \in U : ~(v < u)
  BY <1>1, <1>2, ZenonT(30) DEF Less
<1>4. PICK x \in T : u = s - x
  BY <1>2
<1>5. ASSUME NEW y \in T PROVE y <= x
  <2>1. s - y \in U /\ s - y \in Nat
    OBVIOUS
  <2>2. ~(s - y < u)
    BY <1>3, <2>1
  <2> QED
    BY <1>4, <2>2
<1> QED
  BY <1>5

(* The newest entry of key k at or below smallest_snapshot is not hidden.   *)
LEMMA NewestNotHidden ==
  ASSUME NEW S \in SUBSET Entry, NEW smallest_snapshot \in Nat, NEW k \in Int,
         NEW f \in Seen(S, k, smallest_snapshot)
  PROVE  \E g \in Seen(S, k, smallest_snapshot) :
           g.seq >= f.seq /\ ~Hidden(S, g, smallest_snapshot)
<1> DEFINE N == Seen(S, k, smallest_snapshot)
           T == {e.seq : e \in N}
<1>1. N \subseteq Entry /\ f \in N /\ \A e \in N : e \in S /\ e.key = k /\ e.seq <= smallest_snapshot
  BY DEF Seen
<1>2. T \in SUBSET (0 .. smallest_snapshot) /\ T # {}
  <2> HIDE DEF N
  <2> QED BY <1>1 DEF Entry
<1>3. PICK x \in T : \A y \in T : y <= x
  <2> HIDE DEF T
  <2> QED BY <1>2, LargestExists, ZenonT(30)
<1>4. PICK g \in N : x = g.seq
  BY <1>3
<1>5. \A e \in N : e.seq <= g.seq
  BY <1>3, <1>4
<1>6. ~Hidden(S, g, smallest_snapshot)
  <2> SUFFICES ASSUME NEW h \in S, h.key = g.key, h.seq > g.seq, h.seq <= smallest_snapshot
               PROVE  FALSE
    BY DEF Hidden
  <2>1. h \in N
    BY <1>1 DEF Seen
  <2> QED
    BY <1>1, <1>5, <2>1 DEF Entry
<1> QED
  BY <1>1, <1>5, <1>6

(* Nothing of a key in Base in Other is older than what S has of it.         *)
NewerInBase(S, Other, Base) ==
  \A e \in S, f \in Other : e.key = f.key /\ e.key \in Base => e.seq < f.seq

(* A compaction changes no read.  S is what it merges and Other the rest of  *)
(* the store, in which nothing of a key in Base is older than what is merged *)
(* (IsBaseLevelForKey).  At every sequence number from smallest_snapshot on, *)
(* a read of the store finds the same value, or none, whether S is there or  *)
(* only what DoCompactionWork's rules keep of it.                            *)
THEOREM KeptReads ==
  ASSUME NEW S \in SUBSET Entry, NEW Other \in SUBSET Entry, NEW Base,
         NEW smallest_snapshot \in Nat, NEW s \in Nat, smallest_snapshot <= s, NEW k \in Int,
         NewerInBase(S, Other, Base)
  PROVE  Visible(Newest(Other \cup Kept(S, smallest_snapshot, Base), k, s))
           = Visible(Newest(Other \cup S, k, s))
<1> DEFINE K == Kept(S, smallest_snapshot, Base)
<1>1. K \subseteq S
  BY DEF Kept
<1>2. ASSUME NEW e \in Visible(Newest(Other \cup S, k, s))
      PROVE  e \in Visible(Newest(Other \cup K, k, s))
  <2>1. /\ e \in Other \cup S /\ e \in Entry /\ e.key = k /\ e.seq <= s /\ e.type = "value"
        /\ \A f \in Other \cup S : f.key = k /\ f.seq <= s => f.seq <= e.seq
    BY <1>2 DEF Visible, Newest, Seen
  <2>2. e \in S => ~Hidden(S, e, smallest_snapshot)
    BY <2>1 DEF Hidden, Entry
  <2>3. e \in Other \cup K
    BY <2>1, <2>2 DEF Kept, Obsolete
  <2> HIDE DEF K
  <2> QED
    BY <1>1, <2>1, <2>3 DEF Visible, Newest, Seen
<1>3. ASSUME NEW e \in Visible(Newest(Other \cup K, k, s))
      PROVE  e \in Visible(Newest(Other \cup S, k, s))
  <2>1. /\ e \in Other \cup K /\ e \in Entry /\ e.key = k /\ e.seq <= s /\ e.type = "value"
        /\ \A f \in Other \cup K : f.key = k /\ f.seq <= s => f.seq <= e.seq
    BY <1>1, <1>3 DEF Visible, Newest, Seen
  <2>2. ASSUME NEW f \in Other \cup S, f.key = k, f.seq <= s, ~(f.seq <= e.seq)
        PROVE  FALSE
    <3>1. f \in S /\ f \notin K /\ f \in Entry /\ e.seq < f.seq
      BY <2>1, <2>2 DEF Entry
    <3>2. f.seq <= smallest_snapshot
      BY <3>1 DEF Kept, Hidden, Obsolete, Entry
    <3>3. PICK g \in Seen(S, k, smallest_snapshot) :
            g.seq >= f.seq /\ ~Hidden(S, g, smallest_snapshot)
      BY <2>2, <3>1, <3>2, NewestNotHidden DEF Seen
    <3>4. /\ g \in S /\ g \in Entry /\ g.key = k /\ g.seq <= smallest_snapshot
          /\ g.seq <= s /\ e.seq < g.seq
      BY <2>1, <3>1, <3>3 DEF Seen, Entry
    <3>5. g \notin K
      <4> HIDE DEF K
      <4> QED BY <2>1, <3>4 DEF Entry
    <3>6. k \in Base
      BY <3>3, <3>4, <3>5 DEF Kept, Obsolete
    <3>7. e \notin Other
      BY <2>1, <3>4, <3>6 DEF Entry, NewerInBase
    <3>8. e \in K
      BY <2>1, <3>7
    <3>9. ~Hidden(S, e, smallest_snapshot)
      BY <3>8 DEF Kept
    <3> QED
      BY <2>1, <3>4, <3>9 DEF Hidden
  <2> QED
    BY <1>1, <2>1, <2>2 DEF Visible, Newest, Seen
<1> QED
  BY <1>2, <1>3, ZenonT(30)

-----------------------------------------------------------------------------
(* Seconds for the provers.                                                  *)
USE SMTT(30), ZenonT(30)

(* Two files have no user key between them that both span.                   *)
Apart(f, g) == Largest({f}) < Smallest({g}) \/ Largest({g}) < Smallest({f})

(* Below level 0 the files of a level are disjoint ranges of user keys.      *)
LevelsApart == \A level \in Levels \ {0} : \A f, g \in files_[level] : f # g => Apart(f, g)

-----------------------------------------------------------------------------
(* The inductive invariant.                                                  *)

Good(f) == f.entries # {} /\ f.entries \subseteq {e \in Entry : e.key \in Keys}

(* What there is, and that all of it was written.                            *)
StoreInv ==
  /\ last_sequence \in Nat /\ next_file_number_ \in Nat
  /\ IsFiniteSet(history) /\ history \subseteq {e \in Entry : e.key \in Keys}
  /\ \A d, e \in history : d.seq = e.seq => d = e
  /\ \A e \in history : e.seq <= last_sequence
  /\ mem_ \subseteq history /\ imm_ \subseteq history
  /\ files_ = [level \in Levels |-> files_[level]]
  /\ \A level \in Levels : /\ IsFiniteSet(files_[level])
                           /\ \A f \in files_[level] : f.entries # {} /\ f.entries \subseteq history
  /\ \A f \in files_[0] : f.number \in Nat /\ f.number < next_file_number_

(* Newer entries are found first: in mem_, in imm_, in the level-0 file with *)
(* the larger number, in the smaller level.                                  *)
AgeInv ==
  /\ \A d \in mem_, e \in imm_ \cup Tables : e.seq < d.seq
  /\ \A d \in imm_, e \in Tables : e.seq < d.seq
Level0Inv ==
  \A f, g \in files_[0] : f # g =>
    /\ f.number # g.number
    /\ f.number < g.number => \A d \in f.entries, e \in g.entries : d.seq < e.seq

SnapInv ==
  /\ snapshots_ \in Seq(Nat)
  /\ \A n \in 1 .. Len(snapshots_) : snapshots_[n] <= last_sequence
  /\ \A m, n \in 1 .. Len(snapshots_) : m <= n => snapshots_[m] <= snapshots_[n]

(* The inputs of the compaction at work are still there.  What has come      *)
(* since is newer than they are, or away from them; so is what was left out. *)
Sound(c) ==
  /\ c.level \in Levels /\ c.level + 1 \in Levels
  /\ c.inputs[1] \subseteq files_[c.level] /\ c.inputs[1] # {}
  /\ c.inputs[2] \subseteq files_[c.level + 1]
  /\ c.smallest_snapshot \in 0 .. last_sequence
  /\ \A n \in 1 .. Len(snapshots_) : c.smallest_snapshot <= snapshots_[n]
  /\ \A f \in c.inputs[1], g \in files_[c.level] \ c.inputs[1] :
       \A d \in f.entries, e \in g.entries : d.key = e.key => d.seq < e.seq
  /\ \A f \in c.inputs[1], g \in files_[c.level + 1] \ c.inputs[2] : Apart(f, g)
  /\ \A level \in Levels : level > c.level + 1 =>
       \A g \in files_[level] :
         g \in c.input_version[level] \/ \A f \in c.inputs[1] \cup c.inputs[2] : Apart(f, g)
CompInv == compaction # None => Sound(compaction)

Inv == StoreInv /\ AgeInv /\ Level0Inv /\ NewerAbove /\ SnapInv /\ CompInv /\ IteratorCorrect

-----------------------------------------------------------------------------
(* Ranges of user keys.                                                      *)

LEMMA FiniteLargest ==
  ASSUME NEW T \in SUBSET Int, IsFiniteSet(T), T # {}
  PROVE  \E x \in T : \A y \in T : y <= x
<1> DEFINE Above(x) == {y \in T : x < y}
           U == {Cardinality(Above(x)) : x \in T}
<1>1. \A x \in T : IsFiniteSet(Above(x)) /\ Cardinality(Above(x)) \in Nat
  BY FS_Subset, FS_CardinalityType
<1>2. U \subseteq Nat /\ U # {}
  BY <1>1, ZenonT(30)
<1>3. PICK u \in U : \A v \in U : ~(<<v, u>> \in Less)
  <2> HIDE DEF U
  <2> QED
    BY <1>2, LessWellFounded, WFMin, ZenonT(30)
<1>4. PICK x \in T : u = Cardinality(Above(x))
  BY <1>3
<1>5. ASSUME NEW y \in T, ~(y <= x)
      PROVE  FALSE
  <2>1. Above(y) \subseteq Above(x) /\ y \in Above(x) /\ y \notin Above(y)
    <3>1. x \in Int /\ y \in Int /\ x < y /\ ~(y < y) /\ \A z \in T : y < z => x < z
      BY <1>5
    <3> QED
      BY <3>1, <1>5, ZenonT(30)
  <2>2. Cardinality(Above(y)) <= Cardinality(Above(x)) /\ Cardinality(Above(y)) # Cardinality(Above(x))
    <3> HIDE DEF Above
    <3> QED
      BY <1>1, <2>1, FS_Subset
  <2>3. Cardinality(Above(y)) \in U
    BY <1>5, ZenonT(30)
  <2>4. <<Cardinality(Above(y)), u>> \in Less
    <3> HIDE DEF Above, U
    <3> QED
      BY <1>1, <1>4, <1>5, <2>2 DEF Less
  <2> QED
    BY <1>3, <2>3, <2>4, ZenonT(30)
<1> QED
  BY <1>5

LEMMA FiniteSmallest ==
  ASSUME NEW T \in SUBSET Int, IsFiniteSet(T), T # {}
  PROVE  \E x \in T : \A y \in T : x <= y
<1> DEFINE U == {-x : x \in T}
<1>1. U \in SUBSET Int /\ U # {}
  OBVIOUS
<1>2. IsFiniteSet(U)
  <2> DEFINE m == [x \in T |-> -x]
  <2>1. m \in Surjection(T, U)
    BY DEF Surjection
  <2> QED
    BY <2>1, FS_Surjection
<1>3. PICK u \in U : \A v \in U : v <= u
  <2> HIDE DEF U
  <2> QED
    BY <1>1, <1>2, FiniteLargest
<1>4. PICK x \in T : u = -x
  BY <1>3
<1>5. ASSUME NEW y \in T
      PROVE  x <= y
  <2>1. -y \in U /\ -y <= u
    BY <1>3
  <2> QED
    BY <1>4, <2>1
<1> QED
  BY <1>5

(* The range of a set of files.                                              *)
LEMMA Ranges ==
  ASSUME NEW F, F # {}, \A f \in F : Good(f)
  PROVE  /\ Smallest(F) \in Keys /\ Largest(F) \in Keys /\ Smallest(F) <= Largest(F)
         /\ \A f \in F : \A e \in f.entries : Smallest(F) <= e.key /\ e.key <= Largest(F)
         /\ \E f \in F : \E e \in f.entries : e.key = Smallest(F)
         /\ \E f \in F : \E e \in f.entries : e.key = Largest(F)
<1>1. KeysOf(F) \subseteq Keys /\ KeysOf(F) # {}
  BY DEF KeysOf, Good
<1>2. IsFiniteSet(KeysOf(F)) /\ KeysOf(F) \in SUBSET Int
  BY <1>1, LevelsAssumption, FS_Subset, ZenonT(30)
<1>3. Smallest(F) \in KeysOf(F) /\ \A l \in KeysOf(F) : Smallest(F) <= l
  <2>1. \E x \in KeysOf(F) : \A y \in KeysOf(F) : x <= y
    BY <1>1, <1>2, FiniteSmallest
  <2> QED
    BY <2>1 DEF Smallest
<1>4. Largest(F) \in KeysOf(F) /\ \A l \in KeysOf(F) : l <= Largest(F)
  <2>1. \E x \in KeysOf(F) : \A y \in KeysOf(F) : y <= x
    BY <1>1, <1>2, FiniteLargest
  <2> QED
    BY <2>1 DEF Largest
<1>5. \A k : k \in KeysOf(F) <=> \E f \in F : \E e \in f.entries : e.key = k
  BY DEF KeysOf
<1> QED
  BY <1>1, <1>2, <1>3, <1>4, <1>5

LEMMA Range1 ==
  ASSUME NEW f, Good(f)
  PROVE  /\ Smallest({f}) \in Keys /\ Largest({f}) \in Keys /\ Smallest({f}) \in Int /\ Largest({f}) \in Int
         /\ Smallest({f}) <= Largest({f})
         /\ \A e \in f.entries : e.key \in Int /\ Smallest({f}) <= e.key /\ e.key <= Largest({f})
         /\ \E e \in f.entries : e.key = Smallest({f})
         /\ \E e \in f.entries : e.key = Largest({f})
<1>1. {f} # {} /\ \A g \in {f} : Good(g)
  OBVIOUS
<1>2. /\ Smallest({f}) \in Keys /\ Largest({f}) \in Keys /\ Smallest({f}) <= Largest({f})
      /\ \A g \in {f} : \A e \in g.entries : Smallest({f}) <= e.key /\ e.key <= Largest({f})
      /\ \E g \in {f} : \E e \in g.entries : e.key = Smallest({f})
      /\ \E g \in {f} : \E e \in g.entries : e.key = Largest({f})
  BY <1>1, Ranges
<1> QED
  BY <1>2, LevelsAssumption DEF Good, Entry

(* A file's range is within that of a set it is in, whose ends are ends of   *)
(* files.                                                                    *)
LEMMA Hull ==
  ASSUME NEW F, F # {}, \A f \in F : Good(f)
  PROVE  /\ Smallest(F) \in Keys /\ Largest(F) \in Keys /\ Smallest(F) \in Int /\ Largest(F) \in Int
         /\ Smallest(F) <= Largest(F)
         /\ \A f \in F : Smallest(F) <= Smallest({f}) /\ Largest({f}) <= Largest(F)
         /\ \E f \in F : Smallest({f}) = Smallest(F)
         /\ \E f \in F : Largest({f}) = Largest(F)
<1>1. Smallest(F) \in Int /\ Largest(F) \in Int
  BY Ranges, LevelsAssumption, ZenonT(30)
<1>2. \A f \in F : Smallest(F) <= Smallest({f}) /\ Largest({f}) <= Largest(F)
  <2> TAKE f \in F
  <2>1. PICK d \in f.entries : d.key = Smallest({f})
    BY Range1, ZenonT(30)
  <2>2. PICK e \in f.entries : e.key = Largest({f})
    BY Range1, ZenonT(30)
  <2> QED
    BY <2>1, <2>2, Ranges
<1>3. PICK f \in F : \E e \in f.entries : e.key = Smallest(F)
  BY Ranges
<1>4. PICK g \in F : \E e \in g.entries : e.key = Largest(F)
  BY Ranges
<1>5. /\ Smallest({f}) <= Smallest(F) /\ Largest(F) <= Largest({g})
      /\ Smallest({f}) \in Int /\ Largest({g}) \in Int
  BY <1>3, <1>4, Range1, ZenonT(30)
<1>6. Smallest({f}) = Smallest(F) /\ Largest({g}) = Largest(F)
  BY <1>1, <1>2, <1>5
<1> QED
  BY <1>1, <1>2, <1>3, <1>4, <1>6, Ranges, ZenonT(30)

(* Files apart have no key in common; Overlaps is the contrary of Apart.     *)
LEMMA ApartKeys ==
  ASSUME NEW f, NEW g, Good(f), Good(g), Apart(f, g), NEW d \in f.entries, NEW e \in g.entries
  PROVE  d.key # e.key
<1>1. /\ d.key \in Int /\ Smallest({f}) <= d.key /\ d.key <= Largest({f})
      /\ Smallest({f}) \in Int /\ Largest({f}) \in Int
  BY Range1, ZenonT(30)
<1>2. /\ e.key \in Int /\ Smallest({g}) <= e.key /\ e.key <= Largest({g})
      /\ Smallest({g}) \in Int /\ Largest({g}) \in Int
  BY Range1, ZenonT(30)
<1> QED
  BY <1>1, <1>2 DEF Apart

LEMMA ApartOrOverlaps ==
  ASSUME NEW f, NEW g, Good(f), Good(g)
  PROVE  Overlaps(f, Smallest({g}), Largest({g})) <=> ~Apart(f, g)
BY Range1 DEF Apart, Overlaps

LEMMA Constants == 0 \in Levels /\ kNumLevels \in Nat /\ Levels \subseteq Nat
BY LevelsAssumption DEF Levels

LEMMA GoodFiles ==
  ASSUME StoreInv, NEW level \in Levels, NEW f \in files_[level]
  PROVE  Good(f)
BY DEF StoreInv, Good

LEMMA InTables ==
  /\ \A e : e \in Tables <=> \E level \in Levels : \E f \in files_[level] : e \in f.entries
  /\ \A e : e \in Tables' <=> \E level \in Levels : \E f \in files_'[level] : e \in f.entries
BY DEF Tables

LEMMA Written ==
  ASSUME StoreInv
  PROVE  mem_ \cup imm_ \cup Tables \subseteq history
BY InTables DEF StoreInv

-----------------------------------------------------------------------------
(* Steps that leave the levels alone.                                        *)

(* A read that cannot see the new entry, and one that can.                   *)
UpTo(X, n) == X \subseteq Entry /\ \A x \in X : x.seq <= n

LEMMA NewestWithNew ==
  ASSUME NEW X, NEW n \in Nat, UpTo(X, n),
         NEW e \in Entry, e.seq = n + 1, NEW k, NEW s \in Nat
  PROVE  /\ s <= n => Newest(X \cup {e}, k, s) = Newest(X, k, s)
         /\ s = n + 1 /\ k # e.key => Newest(X \cup {e}, k, s) = Newest(X, k, n)
         /\ s = n + 1 /\ k = e.key => Newest(X \cup {e}, k, s) = {e}
<1>1. \A x \in X : x.seq \in Nat /\ x.seq <= n
  BY DEF UpTo, Entry
<1>2. s <= n => Seen(X \cup {e}, k, s) = Seen(X, k, s)
  BY <1>1 DEF Seen
<1>3. s = n + 1 /\ k # e.key => Seen(X \cup {e}, k, s) = Seen(X, k, n)
  BY <1>1 DEF Seen
<1>4. s = n + 1 /\ k = e.key => e \in Seen(X \cup {e}, k, s) /\ Seen(X \cup {e}, k, s) \subseteq X \cup {e}
  BY DEF Seen
<1>5. s = n + 1 /\ k = e.key => Newest(X \cup {e}, k, s) = {e}
  <2> SUFFICES ASSUME s = n + 1, k = e.key
               PROVE  Newest(X \cup {e}, k, s) = {e}
    OBVIOUS
  <2>1. \A x \in X : ~(e.seq <= x.seq) /\ x.seq <= e.seq
    BY <1>1
  <2>2. e.seq <= e.seq
    BY DEF Entry
  <2> QED
    BY <1>4, <2>1, <2>2, ZenonT(30) DEF Newest
<1> QED
  BY <1>2, <1>3, <1>5 DEF Newest

LEMMA WriteStep ==
  ASSUME Inv, NEW k \in Keys, NEW type \in Types, Write(k, type)
  PROVE  Inv'
<1> DEFINE e == [key |-> k, seq |-> last_sequence + 1, type |-> type]
<1>1. /\ mem_' = mem_ \cup {e} /\ history' = history \cup {e} /\ last_sequence' = last_sequence + 1
      /\ UNCHANGED <<imm_, files_, next_file_number_, snapshots_, compaction>>
  BY DEF Write
<1>2. StoreInv /\ AgeInv /\ Level0Inv /\ NewerAbove /\ SnapInv /\ CompInv /\ IteratorCorrect
  BY DEF Inv
<1>3. e \in Entry /\ e.key = k /\ e.seq = last_sequence + 1 /\ last_sequence \in Nat
  BY <1>2, LevelsAssumption DEF StoreInv, Entry
<1> HIDE DEF e
<1>4. StoreInv'
  <2>1. IsFiniteSet(history')
    BY <1>1, <1>2, FS_AddElement DEF StoreInv
  <2>2. \A d \in history : d.seq \in Nat /\ d.seq <= last_sequence
    BY <1>2 DEF StoreInv, Entry
  <2>3. /\ \A c, d \in history' : c.seq = d.seq => c = d
        /\ \A d \in history' : d.seq <= last_sequence'
    BY <1>1, <1>2, <1>3, <2>2 DEF StoreInv
  <2> QED
    BY <1>1, <1>2, <1>3, <2>1, <2>3 DEF StoreInv
<1>5. Tables' = Tables
  BY <1>1 DEF Tables
<1>6. AgeInv'
  <2>1. \A d \in imm_ \cup Tables : d.seq \in Nat /\ d.seq <= last_sequence
    BY <1>2, Written DEF StoreInv, Entry
  <2> QED
    BY <1>1, <1>2, <1>3, <1>5, <2>1 DEF AgeInv
<1>7. Level0Inv' /\ NewerAbove'
  BY <1>1, <1>2 DEF Level0Inv, NewerAbove
<1>8. SnapInv'
  <2>1. \A n \in 1 .. Len(snapshots_) : snapshots_[n] \in Nat /\ snapshots_[n] <= last_sequence
    BY <1>2 DEF SnapInv
  <2> QED
    BY <1>1, <1>2, <1>3, <2>1 DEF SnapInv
<1>9. CompInv'
  BY <1>1, <1>2, <1>3 DEF CompInv, Sound
<1>10. IteratorCorrect'
  <2> SUFFICES ASSUME NEW l \in Keys, NEW s \in Readable'
               PROVE  Visible(Newest((mem_ \cup imm_ \cup Tables)', l, s)) = Visible(Newest(history', l, s))
    BY DEF IteratorCorrect
  <2> DEFINE S == mem_ \cup imm_ \cup Tables
  <2>1. (mem_ \cup imm_ \cup Tables)' = S \cup {e}
    BY <1>1, <1>5
  <2>2. S \subseteq history /\ history \in SUBSET Entry /\ \A x \in history : x.seq <= last_sequence
    BY <1>2, Written DEF StoreInv
  <2>3. \A n \in Readable : Visible(Newest(S, l, n)) = Visible(Newest(history, l, n))
    BY <1>2, ZenonT(30) DEF IteratorCorrect
  <2> HIDE DEF S
  <2>4. last_sequence \in Readable
    BY DEF Readable
  <2>5. \A n \in Nat : \A X \in {S, history} :
          /\ n <= last_sequence => Newest(X \cup {e}, l, n) = Newest(X, l, n)
          /\ n = last_sequence + 1 /\ l # e.key => Newest(X \cup {e}, l, n) = Newest(X, l, last_sequence)
          /\ n = last_sequence + 1 /\ l = e.key => Newest(X \cup {e}, l, n) = {e}
    <3> TAKE n \in Nat
    <3> TAKE X \in {S, history}
    <3>1. UpTo(X, last_sequence)
      BY <2>2 DEF UpTo
    <3>2. ASSUME n <= last_sequence PROVE Newest(X \cup {e}, l, n) = Newest(X, l, n)
      BY <1>3, <3>1, <3>2, NewestWithNew
    <3>3. ASSUME n = last_sequence + 1, l # e.key
          PROVE  Newest(X \cup {e}, l, n) = Newest(X, l, last_sequence)
      BY <1>3, <3>1, <3>3, NewestWithNew
    <3>4. ASSUME n = last_sequence + 1, l = e.key PROVE Newest(X \cup {e}, l, n) = {e}
      BY <1>3, <3>1, <3>4, NewestWithNew
    <3> QED
      BY <3>2, <3>3, <3>4
  <2>6. s \in Nat /\ (s = last_sequence + 1 \/ (s <= last_sequence /\ s \in Readable))
    <3>1. \A n \in 1 .. Len(snapshots_) : snapshots_[n] \in Nat /\ snapshots_[n] <= last_sequence
      BY <1>2 DEF SnapInv
    <3>2. s = last_sequence + 1 \/ \E n \in 1 .. Len(snapshots_) : s = snapshots_[n]
      BY <1>1, <1>2 DEF Readable, SnapInv
    <3>3. DOMAIN snapshots_ = 1 .. Len(snapshots_)
      BY <1>2 DEF SnapInv
    <3> QED
      BY <1>3, <3>1, <3>2, <3>3 DEF Readable
  <2> QED
    BY <1>1, <2>1, <2>3, <2>4, <2>5, <2>6
<1> QED
  BY <1>4, <1>6, <1>7, <1>8, <1>9, <1>10 DEF Inv

(* The store is the same and no sequence number is newly readable.          *)
LEMMA SameReads ==
  ASSUME IteratorCorrect, history' = history, Readable' \subseteq Readable,
         (mem_ \cup imm_ \cup Tables)' = mem_ \cup imm_ \cup Tables
  PROVE  IteratorCorrect'
BY DEF IteratorCorrect

LEMMA SwitchStep ==
  ASSUME Inv, SwitchMemTable
  PROVE  Inv'
<1>1. /\ imm_ = {} /\ imm_' = mem_ /\ mem_' = {}
      /\ UNCHANGED <<files_, next_file_number_, last_sequence, snapshots_, compaction, history>>
  BY DEF SwitchMemTable
<1>2. Tables' = Tables
  BY <1>1 DEF Tables
<1>3. StoreInv' /\ AgeInv' /\ Level0Inv' /\ NewerAbove' /\ SnapInv'
  BY <1>1, <1>2, ZenonT(30) DEF Inv, StoreInv, AgeInv, Level0Inv, NewerAbove, SnapInv
<1>4. CompInv'
  BY <1>1 DEF Inv, CompInv, Sound
<1>5. IteratorCorrect'
  BY <1>1, <1>2, SameReads DEF Inv, Readable
<1> QED
  BY <1>3, <1>4, <1>5 DEF Inv

(* A sequence without its i-th element.                                      *)
LEMMA Removed ==
  ASSUME NEW q \in Seq(Nat), NEW i \in 1 .. Len(q)
  PROVE  LET r == SubSeq(q, 1, i - 1) \o SubSeq(q, i + 1, Len(q)) IN
         /\ r \in Seq(Nat) /\ Len(r) = Len(q) - 1
         /\ r = [n \in 1 .. Len(q) - 1 |-> IF n < i THEN q[n] ELSE q[n + 1]]
<1> DEFINE s == SubSeq(q, 1, i - 1)
           t == SubSeq(q, i + 1, Len(q))
           r == s \o t
<1>1. Len(q) \in Nat /\ i \in Int /\ i - 1 \in Int /\ i + 1 \in Int /\ 1 \in Int /\ Len(q) \in Int
  OBVIOUS
<1>2. (\A n \in 1 .. i - 1 : q[n] \in Nat) /\ (\A n \in i + 1 .. Len(q) : q[n] \in Nat)
  OBVIOUS
<1>3. /\ s \in Seq(Nat) /\ Len(s) = IF 1 <= i - 1 THEN i - 1 - 1 + 1 ELSE 0
      /\ \A n \in 1 .. i - 1 - 1 + 1 : s[n] = q[1 + n - 1]
  BY <1>1, <1>2
<1>4. /\ t \in Seq(Nat) /\ Len(t) = IF i + 1 <= Len(q) THEN Len(q) - (i + 1) + 1 ELSE 0
      /\ \A n \in 1 .. Len(q) - (i + 1) + 1 : t[n] = q[i + 1 + n - 1]
  BY <1>1, <1>2
<1> HIDE DEF s, t
<1>5. Len(s) = i - 1 /\ \A n \in 1 .. i - 1 : s[n] = q[n]
  BY <1>1, <1>3
<1>6. Len(t) = Len(q) - i /\ \A n \in 1 .. Len(q) - i : t[n] = q[i + n]
  BY <1>1, <1>4
<1>7. /\ r \in Seq(Nat) /\ Len(r) = Len(s) + Len(t)
      /\ \A n \in 1 .. Len(s) + Len(t) : r[n] = IF n <= Len(s) THEN s[n] ELSE t[n - Len(s)]
  <2>1. s \in Seq(Nat) /\ t \in Seq(Nat)
    BY <1>3, <1>4
  <2>2. /\ s \o t \in Seq(Nat) /\ Len(s \o t) = Len(s) + Len(t)
        /\ \A n \in 1 .. Len(s) + Len(t) : (s \o t)[n] = IF n <= Len(s) THEN s[n] ELSE t[n - Len(s)]
    BY <2>1
  <2> QED
    BY <2>2, ZenonT(30)
<1> HIDE DEF r
<1>8. Len(r) = Len(q) - 1
  BY <1>1, <1>5, <1>6, <1>7
<1>9. ASSUME NEW n \in 1 .. Len(r)
      PROVE  /\ n \in 1 .. Len(q) /\ n + 1 \in 1 .. Len(q)
             /\ n < i => r[n] = q[n]
             /\ ~(n < i) => r[n] = q[n + 1]
  <2>1. /\ n \in Int /\ 1 <= n /\ n <= Len(q) - 1 /\ n \in 1 .. Len(s) + Len(t)
        /\ n <= i - 1 => r[n] = s[n]
        /\ ~(n <= i - 1) => r[n] = t[n - (i - 1)]
    <3>1. n \in Int /\ 1 <= n /\ n <= Len(q) - 1 /\ Len(s) + Len(t) = Len(q) - 1
      BY <1>1, <1>5, <1>6, <1>8, <1>9
    <3>2. n \in 1 .. Len(s) + Len(t)
      BY <1>1, <3>1
    <3>3. r[n] = IF n <= Len(s) THEN s[n] ELSE t[n - Len(s)]
      BY <1>7, <3>2
    <3> QED
      BY <1>5, <3>1, <3>2, <3>3
  <2>2. CASE n < i
    BY <1>1, <1>5, <2>1, <2>2
  <2>3. CASE ~(n < i)
    <3>1. r[n] = t[n - (i - 1)] /\ n - (i - 1) \in 1 .. Len(q) - i
      BY <1>1, <2>1, <2>3
    <3>2. r[n] = q[i + (n - (i - 1))]
      BY <1>6, <3>1
    <3>3. i + (n - (i - 1)) = n + 1
      BY <1>1, <2>1
    <3> QED
      BY <1>1, <2>1, <2>3, <3>2, <3>3
  <2> QED
    BY <2>2, <2>3
<1>10. r = [n \in 1 .. Len(q) - 1 |-> r[n]]
  BY <1>7, <1>8
<1>11. \A n \in 1 .. Len(q) - 1 : r[n] = IF n < i THEN q[n] ELSE q[n + 1]
  BY <1>8, <1>9
<1> QED
  BY <1>7, <1>8, <1>10, <1>11, ZenonT(30) DEF r, s, t

(* A released snapshot leaves the others in order.                           *)
LEMMA Released ==
  ASSUME snapshots_ \in Seq(Nat), NEW i \in 1 .. Len(snapshots_), ReleaseSnapshot(i)
  PROVE  /\ snapshots_' \in Seq(Nat) /\ Len(snapshots_') = Len(snapshots_) - 1
         /\ \A n \in 1 .. Len(snapshots_') :
              /\ n \in 1 .. Len(snapshots_) /\ n + 1 \in 1 .. Len(snapshots_)
              /\ n < i => snapshots_'[n] = snapshots_[n]
              /\ ~(n < i) => snapshots_'[n] = snapshots_[n + 1]
<1>1. /\ snapshots_' \in Seq(Nat) /\ Len(snapshots_') = Len(snapshots_) - 1
      /\ snapshots_' = [n \in 1 .. Len(snapshots_) - 1 |->
                          IF n < i THEN snapshots_[n] ELSE snapshots_[n + 1]]
  BY Removed, ZenonT(30) DEF ReleaseSnapshot
<1> QED
  BY <1>1

(* Only snapshots_ changes, or the compaction goes away.                     *)
LEMMA SnapshotStep ==
  ASSUME Inv, GetSnapshot \/ (\E n \in 1 .. Len(snapshots_) : ReleaseSnapshot(n)) \/ CompactionFails
  PROVE  Inv'
<1>1. UNCHANGED <<mem_, imm_, files_, next_file_number_, last_sequence, history>>
  BY ZenonT(30) DEF GetSnapshot, ReleaseSnapshot, CompactionFails
<1>2. Tables' = Tables
  BY <1>1 DEF Tables
<1>3. StoreInv' /\ AgeInv' /\ Level0Inv' /\ NewerAbove'
  BY <1>1, <1>2 DEF Inv, StoreInv, AgeInv, Level0Inv, NewerAbove
<1>4. /\ snapshots_ \in Seq(Nat) /\ last_sequence \in Nat /\ Len(snapshots_) \in Nat
      /\ DOMAIN snapshots_ = 1 .. Len(snapshots_)
      /\ \A n \in 1 .. Len(snapshots_) : snapshots_[n] \in Nat /\ snapshots_[n] <= last_sequence
      /\ \A m, n \in 1 .. Len(snapshots_) : m <= n => snapshots_[m] <= snapshots_[n]
  BY DEF Inv, SnapInv, StoreInv
<1>5. CASE GetSnapshot
  <2>1. snapshots_' = Append(snapshots_, last_sequence) /\ compaction' = compaction
    BY <1>5 DEF GetSnapshot
  <2>2. /\ snapshots_' \in Seq(Nat) /\ Len(snapshots_') = Len(snapshots_) + 1
        /\ DOMAIN snapshots_' = 1 .. Len(snapshots_')
        /\ \A n \in 1 .. Len(snapshots_') :
             snapshots_'[n] = IF n <= Len(snapshots_) THEN snapshots_[n] ELSE last_sequence
    BY <1>4, <2>1
  <2>3. SnapInv'
    BY <1>1, <1>4, <2>2 DEF SnapInv
  <2>4. Readable' \subseteq Readable
    BY <1>1, <1>4, <2>2 DEF Readable
  <2>5. CompInv'
    <3> SUFFICES ASSUME compaction # None
                 PROVE  Sound(compaction)'
      BY <2>1 DEF CompInv
    <3>1. Sound(compaction)
      BY DEF Inv, CompInv
    <3>2. /\ compaction.smallest_snapshot <= last_sequence
          /\ \A n \in 1 .. Len(snapshots_) : compaction.smallest_snapshot <= snapshots_[n]
      BY <1>4, <3>1 DEF Sound
    <3>3. \A n \in 1 .. Len(snapshots_') : compaction.smallest_snapshot <= snapshots_'[n]
      BY <1>4, <2>2, <3>2
    <3> QED
      BY <1>1, <2>1, <3>1, <3>3 DEF Sound
  <2> QED
    BY <1>1, <1>2, <1>3, <2>3, <2>4, <2>5, SameReads DEF Inv
<1>6. ASSUME NEW i \in 1 .. Len(snapshots_), ReleaseSnapshot(i)
      PROVE  Inv'
  <2>1. /\ snapshots_' = SubSeq(snapshots_, 1, i - 1) \o SubSeq(snapshots_, i + 1, Len(snapshots_))
        /\ compaction' = compaction
    BY <1>6 DEF ReleaseSnapshot
  <2>4. /\ snapshots_' \in Seq(Nat) /\ Len(snapshots_') = Len(snapshots_) - 1
        /\ \A n \in 1 .. Len(snapshots_') :
             /\ n \in 1 .. Len(snapshots_) /\ n + 1 \in 1 .. Len(snapshots_)
             /\ n < i => snapshots_'[n] = snapshots_[n]
             /\ ~(n < i) => snapshots_'[n] = snapshots_[n + 1]
    BY <1>4, <1>6, Released, ZenonT(30)
  <2>5. DOMAIN snapshots_' = 1 .. Len(snapshots_')
    BY <2>4
  <2>6. SnapInv'
    <3>1. \A n \in 1 .. Len(snapshots_') : snapshots_'[n] <= last_sequence
      BY <1>4, <2>4, ZenonT(30)
    <3>2. ASSUME NEW m \in 1 .. Len(snapshots_'), NEW n \in 1 .. Len(snapshots_'), m <= n
          PROVE  snapshots_'[m] <= snapshots_'[n]
      <4>1. i \in Int /\ m \in Int /\ n \in Int
        BY <1>4, <1>6, <2>4, <3>2
      <4>2. CASE n < i
        <5>1. snapshots_'[m] = snapshots_[m] /\ snapshots_'[n] = snapshots_[n]
          BY <2>4, <3>2, <4>1, <4>2
        <5> QED
          BY <1>4, <2>4, <3>2, <5>1
      <4>3. CASE ~(n < i) /\ m < i
        BY <1>4, <2>4, <3>2, <4>1, <4>3
      <4>4. CASE ~(m < i)
        <5>1. snapshots_'[m] = snapshots_[m + 1] /\ snapshots_'[n] = snapshots_[n + 1] /\ m + 1 <= n + 1
          BY <2>4, <3>2, <4>1, <4>4
        <5>2. m + 1 \in 1 .. Len(snapshots_) /\ n + 1 \in 1 .. Len(snapshots_)
          BY <2>4, <3>2
        <5> QED
          BY <1>4, <5>1, <5>2
      <4> QED
        BY <4>1, <4>2, <4>3, <4>4
    <3> QED
      BY <1>1, <2>4, <3>1, <3>2 DEF SnapInv
  <2>7. Readable' \subseteq Readable
    <3>1. \A n \in 1 .. Len(snapshots_') : \E m \in 1 .. Len(snapshots_) : snapshots_'[n] = snapshots_[m]
      BY <2>4
    <3> QED
      BY <1>1, <1>4, <2>5, <3>1, ZenonT(30) DEF Readable
  <2>8. CompInv'
    <3> SUFFICES ASSUME compaction # None
                 PROVE  Sound(compaction)'
      BY <2>1 DEF CompInv
    <3>1. Sound(compaction)
      BY DEF Inv, CompInv
    <3>2. \A n \in 1 .. Len(snapshots_') : compaction.smallest_snapshot <= snapshots_'[n]
      BY <1>4, <1>6, <2>4, <2>5, <3>1, ZenonT(30) DEF Sound
    <3> QED
      BY <1>1, <2>1, <3>1, <3>2, ZenonT(30) DEF Sound
  <2> QED
    BY <1>1, <1>2, <1>3, <2>6, <2>7, <2>8, SameReads DEF Inv
<1>7. CASE CompactionFails
  <2>1. snapshots_' = snapshots_ /\ compaction' = None
    BY <1>7 DEF CompactionFails
  <2> QED
    BY <1>1, <1>2, <1>3, <2>1, SameReads DEF Inv, SnapInv, CompInv, Readable
<1> QED
  BY <1>5, <1>6, <1>7

-----------------------------------------------------------------------------
(* The flush.                                                                *)

LEMMA ApartSymmetric ==
  ASSUME NEW f, NEW g, Apart(f, g)
  PROVE  Apart(g, f)
BY DEF Apart

(* A level below 0 is picked only if nothing overlaps there or above.        *)
LEMMA PickedApart ==
  ASSUME StoreInv, NEW f, Good(f), NEW level \in Levels, level > 0,
         PickLevelForMemTableOutput(level, Smallest({f}), Largest({f})),
         NEW m \in Levels, m <= level, NEW g \in files_[m]
  PROVE  Apart(g, f)
<1>1. m \in 0 .. level
  BY Constants
<1>2. ~Overlaps(g, Smallest({f}), Largest({f}))
  BY <1>1 DEF PickLevelForMemTableOutput, OverlapInLevel
<1> QED
  BY <1>2, GoodFiles, ApartOrOverlaps

LEMMA FlushStep ==
  ASSUME Inv, CompactMemTable
  PROVE  Inv'
<1> DEFINE f == [number |-> next_file_number_, entries |-> imm_]
<1>1. PICK level \in Levels :
        /\ PickLevelForMemTableOutput(level, Smallest({f}), Largest({f}))
        /\ files_' = [files_ EXCEPT ![level] = @ \cup {f}]
  BY ZenonT(30) DEF CompactMemTable, NewFileNumber
<1>2. /\ imm_ # {} /\ imm_' = {} /\ next_file_number_' = next_file_number_ + 1
      /\ UNCHANGED <<mem_, last_sequence, snapshots_, compaction, history>>
  BY DEF CompactMemTable
<1>3. StoreInv /\ AgeInv /\ Level0Inv /\ NewerAbove /\ SnapInv /\ CompInv /\ IteratorCorrect
  BY DEF Inv
<1>4. f.number = next_file_number_ /\ f.entries = imm_ /\ Good(f)
  BY <1>2, <1>3 DEF StoreInv, Good
<1> HIDE DEF f
<1>5. \A l \in Levels : files_'[l] = IF l = level THEN files_[l] \cup {f} ELSE files_[l]
  BY <1>1, <1>3, ZenonT(30) DEF StoreInv
<1>6. files_' = [l \in Levels |-> files_'[l]]
  BY <1>1, <1>3, ZenonT(30) DEF StoreInv
<1>7. \A l \in Levels : \A g \in files_'[l] : g \in files_[l] \/ (l = level /\ g = f)
  BY <1>5, ZenonT(30)
<1>8. \A l \in Levels : \A g \in files_[l] : \A e \in g.entries : e \in Tables
  BY InTables
<1>9. Tables' = Tables \cup imm_
  <2>1. \A e : e \in Tables' <=> e \in Tables \/ e \in imm_
    BY <1>4, <1>5, InTables, ZenonT(30)
  <2> QED
    BY <2>1
<1>10. \A l \in Levels : l <= level /\ level > 0 => \A g \in files_[l] : Apart(g, f)
  BY <1>1, <1>3, <1>4, PickedApart
<1>11. \A e \in f.entries : \A l \in Levels : \A g \in files_[l] : \A d \in g.entries : d.seq < e.seq
  BY <1>3, <1>4, <1>8 DEF AgeInv
<1>12. StoreInv'
  <2>1. \A l \in Levels : IsFiniteSet(files_'[l])
    <3> TAKE l \in Levels
    <3>1. IsFiniteSet(files_[l])
      BY <1>3 DEF StoreInv
    <3>2. IsFiniteSet(files_[l] \cup {f})
      BY <3>1, FS_AddElement
    <3> QED
      BY <1>5, <3>1, <3>2
  <2>2. \A l \in Levels : \A g \in files_'[l] : g.entries # {} /\ g.entries \subseteq history
    BY <1>2, <1>3, <1>4, <1>7 DEF StoreInv
  <2>3. \A g \in files_'[0] : g.number \in Nat /\ g.number < next_file_number_ + 1
    BY <1>3, <1>4, <1>7, Constants DEF StoreInv
  <2> QED
    BY <1>2, <1>3, <1>6, <2>1, <2>2, <2>3 DEF StoreInv
<1>13. AgeInv'
  BY <1>2, <1>3, <1>9 DEF AgeInv
<1>14. Level0Inv'
  <2> SUFFICES ASSUME NEW g \in files_'[0], NEW h \in files_'[0], g # h
               PROVE  /\ g.number # h.number
                      /\ g.number < h.number => \A d \in g.entries, e \in h.entries : d.seq < e.seq
    BY DEF Level0Inv
  <2>1. \A x \in files_[0] : x.number \in Nat /\ x.number < next_file_number_
    BY <1>3 DEF StoreInv
  <2>2. next_file_number_ \in Nat
    BY <1>3 DEF StoreInv
  <2>3. CASE g \in files_[0] /\ h \in files_[0]
    BY <1>3, <2>3 DEF Level0Inv
  <2>4. CASE g \in files_[0] /\ h = f
    BY <1>4, <1>11, <2>1, <2>2, <2>4, Constants
  <2>5. CASE g = f /\ h \in files_[0]
    BY <1>4, <2>1, <2>2, <2>5
  <2> QED
    BY <1>7, <2>3, <2>4, <2>5, Constants
<1>15. NewerAbove'
  <2> SUFFICES ASSUME NEW upper \in Levels, NEW lower \in Levels, upper < lower,
                      NEW g \in files_'[upper], NEW h \in files_'[lower],
                      NEW d \in g.entries, NEW e \in h.entries, d.key = e.key
               PROVE  d.seq > e.seq
    BY DEF NewerAbove
  <2>1. CASE g \in files_[upper] /\ h \in files_[lower]
    BY <1>3, <2>1 DEF NewerAbove
  <2>2. CASE g \in files_[upper] /\ h = f /\ lower = level
    <3>1. Apart(g, f) /\ Good(g)
      BY <1>3, <1>10, <2>2, GoodFiles, Constants
    <3> QED
      BY <1>4, <2>2, <3>1, ApartKeys
  <2>3. CASE g = f /\ h \in files_[lower]
    <3>1. e.seq < d.seq
      BY <1>11, <2>3
    <3>2. d.seq \in Nat /\ e.seq \in Nat
      BY <1>3, <1>4, <2>3 DEF StoreInv, Good, Entry
    <3> QED
      BY <3>1, <3>2
  <2> QED
    BY <1>7, <2>1, <2>2, <2>3, Constants
<1>16. SnapInv'
  BY <1>2, <1>3 DEF SnapInv
<1>17. CompInv'
  <2> SUFFICES ASSUME compaction # None
               PROVE  Sound(compaction)'
    BY <1>2 DEF CompInv
  <2> DEFINE c == compaction
             L == c.level
  <2>1. Sound(c)
    BY <1>3 DEF CompInv
  <2>2. /\ L \in Levels /\ L + 1 \in Levels /\ L \in Nat /\ level \in Nat
        /\ c.inputs[1] \subseteq files_[L] /\ c.inputs[2] \subseteq files_[L + 1]
    BY <2>1, Constants, ZenonT(30) DEF Sound
  <2>3. c.inputs[1] \subseteq files_'[L] /\ c.inputs[2] \subseteq files_'[L + 1]
    BY <1>5, <2>2, ZenonT(30)
  <2>4. ASSUME NEW g \in c.inputs[1], NEW h \in files_'[L] \ c.inputs[1],
               NEW d \in g.entries, NEW e \in h.entries, d.key = e.key
        PROVE  d.seq < e.seq
    BY <1>7, <1>11, <2>1, <2>2, <2>4 DEF Sound
  <2>5. ASSUME NEW g \in c.inputs[1], NEW h \in files_'[L + 1] \ c.inputs[2]
        PROVE  Apart(g, h)
    BY <1>7, <1>10, <2>1, <2>2, <2>5 DEF Sound
  <2>6. ASSUME NEW l \in Levels, l > L + 1, NEW h \in files_'[l], h \notin c.input_version[l],
               NEW g \in c.inputs[1] \cup c.inputs[2]
        PROVE  Apart(g, h)
    BY <1>7, <1>10, <2>1, <2>2, <2>6 DEF Sound
  <2> QED
    BY <1>2, <2>1, <2>3, <2>4, <2>5, <2>6 DEF Sound
<1>18. IteratorCorrect'
  <2>1. (mem_ \cup imm_ \cup Tables)' = mem_ \cup imm_ \cup Tables
    BY <1>2, <1>9
  <2>2. Readable' \subseteq Readable
    BY <1>2 DEF Readable
  <2> QED
    BY <1>2, <1>3, <2>1, <2>2, SameReads
<1> QED
  BY <1>12, <1>13, <1>14, <1>15, <1>16, <1>17, <1>18 DEF Inv

-----------------------------------------------------------------------------
(* The inputs of a compaction.                                               *)

(* What level 0 adds to a range is the least set closed under overlap.       *)
LEMMA LeastClosed ==
  ASSUME NEW begin, NEW end
  PROVE  LET G == GetOverlappingInputs(0, begin, end) IN
         /\ G \subseteq files_[0] /\ Closed(G, begin, end)
         /\ \A H \in SUBSET files_[0] : Closed(H, begin, end) => G \subseteq H
<1> DEFINE I == {f \in files_[0] : \A H \in SUBSET files_[0] : Closed(H, begin, end) => f \in H}
           P(G) == /\ Closed(G, begin, end)
                   /\ \A H \in SUBSET files_[0] : Closed(H, begin, end) => G \subseteq H
<1>1. I \in SUBSET files_[0] /\ \A H \in SUBSET files_[0] : Closed(H, begin, end) => I \subseteq H
  OBVIOUS
<1>2. Closed(I, begin, end)
  <2>1. Touching(files_[0], begin, end) \subseteq I
    BY DEF Closed, Touching
  <2>2. ASSUME NEW g \in I
        PROVE  Touching(files_[0], Smallest({g}), Largest({g})) \subseteq I
    <3> SUFFICES ASSUME NEW f \in Touching(files_[0], Smallest({g}), Largest({g})),
                        NEW H \in SUBSET files_[0], Closed(H, begin, end)
                 PROVE  f \in H /\ f \in files_[0]
      BY DEF Touching
    <3>1. g \in H
      BY <2>2
    <3> QED
      BY <3>1 DEF Closed, Touching
  <2> QED
    BY <2>1, <2>2, ZenonT(30) DEF Closed
<1>3. GetOverlappingInputs(0, begin, end) = CHOOSE G \in SUBSET files_[0] : P(G)
  BY DEF GetOverlappingInputs
<1>4. \E G \in SUBSET files_[0] : P(G)
  BY <1>1, <1>2
<1> HIDE DEF P
<1>5. /\ GetOverlappingInputs(0, begin, end) \in SUBSET files_[0]
      /\ P(GetOverlappingInputs(0, begin, end))
  BY <1>3, <1>4
<1> QED
  BY <1>5 DEF P

(* F holds all files of the level that its own range touches.                *)
Separate(level, F) == \A g \in F, h \in files_[level] \ F : Apart(g, h)

LEMMA Overlapping ==
  ASSUME StoreInv, LevelsApart, NEW level \in Levels, NEW begin, NEW end
  PROVE  LET G == GetOverlappingInputs(level, begin, end) IN
         /\ G \subseteq files_[level] /\ Touching(files_[level], begin, end) \subseteq G
         /\ Separate(level, G)
<1>1. CASE level = 0
  <2> DEFINE G == GetOverlappingInputs(0, begin, end)
  <2>1. G \subseteq files_[0] /\ Closed(G, begin, end)
    BY LeastClosed
  <2> HIDE DEF G
  <2>2. ASSUME NEW g \in G, NEW h \in files_[0] \ G
        PROVE  Apart(g, h)
    <3>1. ~Overlaps(h, Smallest({g}), Largest({g}))
      BY <2>1, <2>2 DEF Closed, Touching
    <3>2. Good(g) /\ Good(h)
      BY <2>1, <2>2, GoodFiles, Constants
    <3> QED
      BY <3>1, <3>2, ApartOrOverlaps, ApartSymmetric
  <2> QED
    BY <1>1, <2>1, <2>2 DEF G, Separate, Closed
<1>2. CASE level # 0
  <2>1. GetOverlappingInputs(level, begin, end) = Touching(files_[level], begin, end)
    BY <1>2, Constants DEF GetOverlappingInputs
  <2> QED
    BY <1>2, <2>1 DEF Touching, Separate, LevelsApart
<1> QED
  BY <1>1, <1>2

(* Files of a level that overlap nothing of F's range are apart from F.      *)
LEMMA OutsideApart ==
  ASSUME NEW F, NEW g \in F, \A f \in F : Good(f), NEW h, Good(h),
         ~Overlaps(h, Smallest(F), Largest(F))
  PROVE  Apart(g, h)
<1>1. /\ Smallest(F) \in Int /\ Largest(F) \in Int
      /\ Smallest(F) <= Smallest({g}) /\ Largest({g}) <= Largest(F)
  BY Hull
<1>2. /\ Smallest({g}) \in Int /\ Largest({g}) \in Int
      /\ Smallest({h}) \in Int /\ Largest({h}) \in Int
  BY Range1, ZenonT(30)
<1> QED
  BY <1>1, <1>2 DEF Apart, Overlaps

LEMMA InsideTouches ==
  ASSUME NEW F, NEW g \in F, \A f \in F : Good(f)
  PROVE  Overlaps(g, Smallest(F), Largest(F))
<1>1. /\ Smallest(F) \in Int /\ Largest(F) \in Int
      /\ Smallest(F) <= Smallest({g}) /\ Largest({g}) <= Largest(F)
  BY Hull
<1>2. Smallest({g}) \in Int /\ Largest({g}) \in Int /\ Smallest({g}) <= Largest({g})
  BY Range1
<1> QED
  BY <1>1, <1>2 DEF Overlaps

(* What a compaction takes in, of a level and of the one below.              *)
Inputs(level, in) ==
  /\ in[1] \subseteq files_[level] /\ in[1] # {} /\ Separate(level, in[1])
  /\ in[2] \subseteq files_[level + 1]
  /\ \A g \in in[1], h \in files_[level + 1] \ in[2] : Apart(g, h)

LEMMA WithParents ==
  ASSUME StoreInv, LevelsApart, NEW level \in Levels, level + 1 \in Levels,
         NEW F, F \subseteq files_[level], F # {}, Separate(level, F)
  PROVE  Inputs(level, <<F, Over(level + 1, F)>>)
<1> DEFINE parents == Over(level + 1, F)
<1>1. /\ parents \subseteq files_[level + 1]
      /\ Touching(files_[level + 1], Smallest(F), Largest(F)) \subseteq parents
  BY Overlapping DEF Over
<1> HIDE DEF parents
<1>2. \A f \in F : Good(f)
  BY GoodFiles
<1>3. ASSUME NEW g \in F, NEW h \in files_[level + 1] \ parents
      PROVE  Apart(g, h)
  <2>1. Good(h) /\ ~Overlaps(h, Smallest(F), Largest(F))
    BY <1>1, <1>3, GoodFiles DEF Touching
  <2> QED
    BY <1>2, <2>1, OutsideApart
<1>4. Inputs(level, <<F, parents>>)
  BY <1>1, <1>3 DEF Inputs
<1> QED
  BY <1>4 DEF parents

LEMMA SetupFacts ==
  ASSUME StoreInv, LevelsApart, NEW level \in Levels, level + 1 \in Levels,
         NEW F, F \subseteq files_[level], F # {}, Separate(level, F),
         NEW in \in SetupOtherInputs(level, F)
  PROVE  Inputs(level, in)
<1> DEFINE parents == Over(level + 1, F)
           more == Over(level, F \cup parents)
<1>1. in = <<F, parents>> \/ in = <<more, Over(level + 1, more)>>
  BY DEF SetupOtherInputs
<1>2. parents \subseteq files_[level + 1]
  BY Overlapping DEF Over
<1>3. /\ more \subseteq files_[level] /\ Separate(level, more)
      /\ Touching(files_[level], Smallest(F \cup parents), Largest(F \cup parents)) \subseteq more
  <2> HIDE DEF parents
  <2> QED
    BY Overlapping DEF Over
<1> HIDE DEF parents, more
<1>4. more # {}
  <2>1. \A f \in F \cup parents : Good(f)
    BY <1>2, GoodFiles
  <2>2. \A f \in F : f \in more
    BY <1>3, <2>1, InsideTouches DEF Touching
  <2> QED
    BY <2>2
<1>5. Inputs(level, <<F, parents>>)
  BY WithParents DEF parents
<1>6. Inputs(level, <<more, Over(level + 1, more)>>)
  BY <1>3, <1>4, WithParents
<1> QED
  BY <1>1, <1>5, <1>6

(* Where a compaction starts.                                                *)
LEMMA PickedFiles ==
  ASSUME StoreInv, LevelsApart, NEW level \in Levels, NEW f \in files_[level]
  PROVE  LET F == IF level = 0 THEN Over(0, {f}) ELSE {f} IN
         f \in F /\ F \subseteq files_[level] /\ Separate(level, F)
<1>1. CASE level = 0
  <2>1. /\ Over(0, {f}) \subseteq files_[0] /\ Separate(0, Over(0, {f}))
        /\ Touching(files_[0], Smallest({f}), Largest({f})) \subseteq Over(0, {f})
    BY Overlapping, Constants DEF Over
  <2>2. Overlaps(f, Smallest({f}), Largest({f}))
    BY GoodFiles, InsideTouches
  <2> QED
    BY <1>1, <2>1, <2>2 DEF Touching
<1>2. CASE level # 0
  BY <1>2 DEF Separate, LevelsApart
<1> QED
  BY <1>1, <1>2

LEMMA RangeFiles ==
  ASSUME StoreInv, LevelsApart, NEW level \in Levels, NEW begin, NEW end,
         NEW F \in SUBSET GetOverlappingInputs(level, begin, end),
         level = 0 => F = GetOverlappingInputs(level, begin, end)
  PROVE  F \subseteq files_[level] /\ Separate(level, F)
<1>1. /\ GetOverlappingInputs(level, begin, end) \subseteq files_[level]
      /\ Separate(level, GetOverlappingInputs(level, begin, end))
  BY Overlapping
<1>2. CASE level = 0
  BY <1>1, <1>2
<1>3. CASE level # 0
  BY <1>1, <1>3 DEF Separate, LevelsApart
<1> QED
  BY <1>2, <1>3

-----------------------------------------------------------------------------
(* A compaction starts, or moves a file.                                     *)

LEMMA OldestSnapshot ==
  ASSUME StoreInv, SnapInv
  PROVE  /\ SmallestSnapshot \in 0 .. last_sequence
         /\ \A n \in 1 .. Len(snapshots_) : SmallestSnapshot <= snapshots_[n]
<1>1. /\ snapshots_ \in Seq(Nat) /\ last_sequence \in Nat
      /\ \A n \in 1 .. Len(snapshots_) : snapshots_[n] \in Nat /\ snapshots_[n] <= last_sequence
      /\ \A m, n \in 1 .. Len(snapshots_) : m <= n => snapshots_[m] <= snapshots_[n]
  BY DEF StoreInv, SnapInv
<1>2. CASE snapshots_ = <<>>
  BY <1>1, <1>2 DEF SmallestSnapshot
<1>3. CASE snapshots_ # <<>>
  <2>1. SmallestSnapshot = snapshots_[1] /\ 1 \in 1 .. Len(snapshots_)
    BY <1>1, <1>3 DEF SmallestSnapshot
  <2> QED
    BY <1>1, <2>1
<1> QED
  BY <1>2, <1>3

LEMMA BeginStep ==
  ASSUME Inv, NEW level \in Levels, level + 1 \in Levels, NEW in, Inputs(level, in), Begin(level, in),
         UNCHANGED <<mem_, imm_, last_sequence, snapshots_, history>>
  PROVE  Inv'
<1>1. /\ compaction' = [level |-> level, inputs |-> in, smallest_snapshot |-> SmallestSnapshot,
                        input_version |-> files_]
      /\ UNCHANGED <<files_, next_file_number_, mem_, imm_, last_sequence, snapshots_, history>>
  BY DEF Begin
<1>2. Tables' = Tables /\ Readable' = Readable
  BY <1>1 DEF Tables, Readable
<1>3. StoreInv' /\ AgeInv' /\ Level0Inv' /\ NewerAbove' /\ SnapInv'
  BY <1>1, <1>2 DEF Inv, StoreInv, AgeInv, Level0Inv, NewerAbove, SnapInv
<1>4. IteratorCorrect'
  BY <1>1, <1>2, SameReads DEF Inv
<1>5. /\ SmallestSnapshot \in 0 .. last_sequence
      /\ \A n \in 1 .. Len(snapshots_) : SmallestSnapshot <= snapshots_[n]
  BY OldestSnapshot DEF Inv
<1>6. ASSUME NEW f \in in[1], NEW g \in files_[level] \ in[1], NEW d \in f.entries, NEW e \in g.entries,
             d.key = e.key
      PROVE  d.seq < e.seq
  <2>1. Good(f) /\ Good(g) /\ Apart(f, g)
    BY <1>6, GoodFiles DEF Inv, Inputs, Separate
  <2> QED
    BY <1>6, <2>1, ApartKeys
<1>7. Sound(compaction)'
  <2> DEFINE c == compaction'
  <2>1. c.level = level /\ c.inputs = in /\ c.smallest_snapshot = SmallestSnapshot /\ c.input_version = files_
    BY <1>1
  <2> HIDE DEF c
  <2>2. /\ level \in Levels /\ level + 1 \in Levels
        /\ in[1] \subseteq files_[level] /\ in[1] # {} /\ in[2] \subseteq files_[level + 1]
        /\ \A g \in in[1], h \in files_[level + 1] \ in[2] : Apart(g, h)
    BY DEF Inputs
  <2>3. Sound(c)
    BY <1>5, <1>6, <2>1, <2>2 DEF Sound
  <2> QED
    BY <1>1, <2>3 DEF Sound, c
<1> QED
  BY <1>3, <1>4, <1>7 DEF Inv, CompInv

LEMMA Moves ==
  ASSUME StoreInv, NEW level \in Levels, level + 1 \in Levels, NEW in, TrivialMove(level, in)
  PROVE  /\ files_' = [l \in Levels |-> files_'[l]]
         /\ files_'[level] = files_[level] \ in[1]
         /\ files_'[level + 1] = files_[level + 1] \cup in[1]
         /\ \A l \in Levels : l # level /\ l # level + 1 => files_'[l] = files_[l]
<1>1. level # level + 1 /\ files_ = [l \in Levels |-> files_[l]]
  BY Constants DEF StoreInv
<1>2. files_' = [files_ EXCEPT ![level] = @ \ in[1], ![level + 1] = @ \cup in[1]]
  BY DEF TrivialMove
<1> QED
  BY <1>1, <1>2, ZenonT(30)

LEMMA MoveStep ==
  ASSUME Inv, compaction = None, NEW level \in Levels, level + 1 \in Levels,
         NEW in, Inputs(level, in), TrivialMove(level, in),
         UNCHANGED <<mem_, imm_, last_sequence, snapshots_, history>>
  PROVE  Inv'
<1>1. StoreInv /\ AgeInv /\ Level0Inv /\ NewerAbove /\ SnapInv /\ IteratorCorrect
  BY DEF Inv
<1>2. /\ files_' = [l \in Levels |-> files_'[l]]
      /\ files_'[level] = files_[level] \ in[1]
      /\ files_'[level + 1] = files_[level + 1] \cup in[1]
      /\ \A l \in Levels : l # level /\ l # level + 1 => files_'[l] = files_[l]
  BY <1>1, Moves
<1>3. UNCHANGED <<compaction, next_file_number_, mem_, imm_, last_sequence, snapshots_, history>>
  BY DEF TrivialMove
<1>4. level \in Nat /\ in[1] \subseteq files_[level] /\ Separate(level, in[1])
  BY Constants DEF Inputs
<1>5. \A l \in Levels : \A g \in files_'[l] :
        \/ g \in files_[l] /\ (l = level => g \notin in[1])
        \/ l = level + 1 /\ g \in in[1] /\ g \in files_[level]
  BY <1>2, <1>4
<1>6. \A l \in Levels : \A g \in files_'[l] : \E m \in Levels : g \in files_[m]
  BY <1>5
<1>7. \A l \in Levels : \A g \in files_[l] : \E m \in Levels : g \in files_'[m]
  BY <1>2, <1>4
<1>8. Tables' = Tables
  <2>1. \A e : e \in Tables' <=> e \in Tables
    BY <1>6, <1>7, InTables
  <2> QED
    BY <2>1, ZenonT(30)
<1>9. files_'[0] \subseteq files_[0]
  BY <1>4, <1>5, Constants
<1>10. StoreInv'
  <2>1. \A l \in Levels : IsFiniteSet(files_'[l])
    <3> TAKE l \in Levels
    <3>1. IsFiniteSet(files_[l]) /\ IsFiniteSet(files_[level])
      BY <1>1 DEF StoreInv
    <3>2. IsFiniteSet(in[1]) /\ IsFiniteSet(files_[l] \ in[1]) /\ IsFiniteSet(files_[l] \cup in[1])
      <4>1. IsFiniteSet(in[1]) /\ IsFiniteSet(files_[l] \ in[1])
        BY <1>4, <3>1, FS_Subset
      <4> QED
        BY <3>1, <4>1, FS_Union, ZenonT(30)
    <3> QED
      BY <1>2, <3>1, <3>2
  <2>2. \A l \in Levels : \A g \in files_'[l] : g.entries # {} /\ g.entries \subseteq history
    BY <1>1, <1>6 DEF StoreInv
  <2>3. \A g \in files_'[0] : g.number \in Nat /\ g.number < next_file_number_
    BY <1>1, <1>9 DEF StoreInv
  <2> QED
    BY <1>1, <1>2, <1>3, <2>1, <2>2, <2>3 DEF StoreInv
<1>11. AgeInv' /\ SnapInv' /\ Level0Inv'
  BY <1>1, <1>3, <1>8, <1>9 DEF AgeInv, SnapInv, Level0Inv
<1>12. NewerAbove'
  <2> SUFFICES ASSUME NEW upper \in Levels, NEW lower \in Levels, upper < lower,
                      NEW g \in files_'[upper], NEW h \in files_'[lower],
                      NEW d \in g.entries, NEW e \in h.entries, d.key = e.key
               PROVE  d.seq > e.seq
    BY DEF NewerAbove
  <2>1. \A m, n \in Levels : m < n /\ g \in files_[m] /\ h \in files_[n] => d.seq > e.seq
    BY <1>1 DEF NewerAbove
  <2>2. CASE upper = level /\ h \in in[1]
    <3>1. Apart(h, g) /\ Good(g) /\ Good(h)
      BY <1>1, <1>4, <1>5, <2>2, GoodFiles, Constants DEF Separate
    <3> QED
      BY <3>1, ApartKeys
  <2>3. CASE ~(upper = level /\ h \in in[1])
    BY <1>4, <1>5, <2>1, <2>3, Constants
  <2> QED
    BY <2>2, <2>3
<1>13. IteratorCorrect'
  BY <1>1, <1>3, <1>8, SameReads DEF Readable
<1> QED
  BY <1>3, <1>10, <1>11, <1>12, <1>13 DEF Inv, CompInv

LEMMA PickStep ==
  ASSUME Inv, LevelsApart, NEW level \in Levels, NEW f \in files_[level], PickCompaction(level, f)
  PROVE  Inv'
<1> DEFINE F == IF level = 0 THEN Over(0, {f}) ELSE {f}
<1>1. /\ compaction = None /\ level + 1 \in Levels
      /\ UNCHANGED <<mem_, imm_, last_sequence, snapshots_, history>>
  BY Constants DEF PickCompaction, Levels
<1>2. PICK in \in SetupOtherInputs(level, F) : TrivialMove(level, in) \/ Begin(level, in)
  BY DEF PickCompaction
<1>3. F # {} /\ F \subseteq files_[level] /\ Separate(level, F) /\ StoreInv
  BY PickedFiles, ZenonT(30) DEF Inv
<1> HIDE DEF F
<1>4. Inputs(level, in)
  BY <1>1, <1>2, <1>3, SetupFacts
<1>5. CASE TrivialMove(level, in)
  BY <1>1, <1>4, <1>5, MoveStep
<1>6. CASE Begin(level, in)
  BY <1>1, <1>4, <1>6, BeginStep
<1> QED
  BY <1>2, <1>5, <1>6

LEMMA RangeStep ==
  ASSUME Inv, LevelsApart, NEW level \in Levels, NEW begin \in Keys, NEW end \in Keys,
         CompactRange(level, begin, end)
  PROVE  Inv'
<1> DEFINE all == GetOverlappingInputs(level, begin, end)
           first == {F \in SUBSET all : \A f \in F, g \in all :
                      AtOrBefore(LastEntry(g), LastEntry(f)) => g \in F} \ {{}}
<1>1. /\ compaction = None /\ level + 1 \in Levels /\ all # {}
      /\ UNCHANGED <<mem_, imm_, last_sequence, snapshots_, history>>
  BY Constants DEF CompactRange, Levels
<1>2. PICK F \in IF level = 0 THEN {all} ELSE first : \E in \in SetupOtherInputs(level, F) : Begin(level, in)
  BY DEF CompactRange
<1>3. PICK in \in SetupOtherInputs(level, F) : Begin(level, in)
  BY <1>2
<1>4. F \in SUBSET all /\ F # {} /\ (level = 0 => F = all)
  BY <1>1, <1>2, ZenonT(30)
<1>5. F \subseteq files_[level] /\ Separate(level, F) /\ StoreInv
  BY <1>4, RangeFiles DEF Inv
<1>6. Inputs(level, in)
  BY <1>1, <1>3, <1>4, <1>5, SetupFacts
<1> QED
  BY <1>1, <1>3, <1>6, BeginStep

-----------------------------------------------------------------------------
(* A compaction ends.                                                        *)

Merged(c) == UNION {f.entries : f \in c.inputs[1] \cup c.inputs[2]}

(* The output files are finitely many parts of the entries kept.             *)
LEMMA Outputs ==
  ASSUME NEW out, IsFiniteSet(out), NEW cuts
  PROVE  /\ IsFiniteSet(OutputFiles(out, cuts))
         /\ \A g \in OutputFiles(out, cuts) : g.entries # {} /\ g.entries \subseteq out
         /\ \A e \in out : \E g \in OutputFiles(out, cuts) : e \in g.entries
<1> DEFINE Number(e) == CutsBefore(e, cuts)
           File(n) == [number |-> NewFileNumber + n, entries |-> {e \in out : Number(e) = n}]
           new == {File(n) : n \in {Number(e) : e \in out}}
           m == [e \in out |-> File(Number(e))]
<1>1. OutputFiles(out, cuts) = new
  BY DEF OutputFiles
<1>2. \A n : File(n).entries = {e \in out : Number(e) = n}
  OBVIOUS
<1> HIDE DEF File, Number
<1>3. m \in Surjection(out, new)
  BY DEF Surjection
<1>4. IsFiniteSet(new)
  <2> HIDE DEF m, new
  <2> QED
    BY <1>3, FS_Surjection
<1> QED
  BY <1>1, <1>2, <1>4

(* Files that are no input of c.                                             *)
Remains(c, level, g) ==
  /\ g \in files_[level]
  /\ level = c.level => g \notin c.inputs[1]
  /\ level = c.level + 1 => g \notin c.inputs[2]

LEMMA InMerged ==
  ASSUME StoreInv, NEW c, Sound(c), NEW d \in Merged(c)
  PROVE  /\ \E f : /\ d \in f.entries /\ Good(f)
                   /\ (f \in c.inputs[1] /\ f \in files_[c.level]) \/ (f \in c.inputs[2] /\ f \in files_[c.level + 1])
         /\ d \in Entry /\ d \in Tables /\ d \in history
<1>1. PICK f \in c.inputs[1] \cup c.inputs[2] : d \in f.entries
  BY DEF Merged
<1>2. /\ c.level \in Levels /\ c.level + 1 \in Levels
      /\ (f \in c.inputs[1] /\ f \in files_[c.level]) \/ (f \in c.inputs[2] /\ f \in files_[c.level + 1])
  BY <1>1 DEF Sound
<1>3. Good(f)
  BY <1>2, GoodFiles
<1>4. d \in Tables /\ d \in history /\ d \in Entry
  BY <1>1, <1>2, InTables DEF StoreInv
<1> QED
  BY <1>1, <1>2, <1>3, <1>4

(* What remains and has a key of the inputs is newer than they are, unless   *)
(* it is below the output level.                                             *)
LEMMA RemainsNewer ==
  ASSUME StoreInv, NewerAbove, LevelsApart, NEW c, Sound(c),
         NEW level \in Levels, NEW g, Remains(c, level, g),
         NEW d \in Merged(c), NEW e \in g.entries, d.key = e.key
  PROVE  level <= c.level + 1 \/ IsBaseLevelForKey(c, d.key) => d.seq < e.seq
<1>1. c.level \in Levels /\ c.level + 1 \in Levels /\ c.level \in Nat /\ level \in Nat
  BY Constants, ZenonT(30) DEF Sound
<1>2. PICK f : /\ d \in f.entries /\ Good(f)
               /\ (f \in c.inputs[1] /\ f \in files_[c.level]) \/ (f \in c.inputs[2] /\ f \in files_[c.level + 1])
  BY InMerged
<1>3. g \in files_[level] /\ Good(g)
  BY GoodFiles DEF Remains
<1>4. d.seq \in Nat /\ e.seq \in Nat
  BY <1>2, <1>3 DEF Good, Entry
<1>5. \A m, n \in Levels : m < n /\ g \in files_[m] /\ f \in files_[n] => e.seq > d.seq
  BY <1>2 DEF NewerAbove
<1>6. ~Apart(f, g)
  BY <1>2, <1>3, ApartKeys
<1>7. CASE level < c.level
  BY <1>1, <1>2, <1>3, <1>4, <1>5, <1>7
<1>8. CASE level = c.level /\ f \in c.inputs[1]
  BY <1>2, <1>3, <1>8 DEF Sound, Remains
<1>9. CASE level = c.level /\ f \in files_[c.level + 1]
  BY <1>1, <1>3, <1>4, <1>5, <1>9
<1>10. CASE level = c.level + 1 /\ f \in c.inputs[1]
  BY <1>3, <1>6, <1>10 DEF Sound, Remains
<1>11. CASE level = c.level + 1 /\ f \in c.inputs[2] /\ f \in files_[c.level + 1]
  <2>1. g \in files_[c.level + 1] /\ f # g
    BY <1>3, <1>11, ZenonT(30) DEF Remains
  <2> QED
    BY <1>1, <1>6, <1>11, <2>1 DEF LevelsApart
<1>12. CASE level > c.level + 1
  <2> SUFFICES ASSUME IsBaseLevelForKey(c, d.key)
               PROVE  FALSE
    BY <1>1, <1>12
  <2>1. g \in c.input_version[level]
    BY <1>2, <1>3, <1>6, <1>12 DEF Sound
  <2>2. ~Overlaps(g, d.key, d.key)
    <3>1. level \in c.level + 2 .. kNumLevels - 1
      BY <1>1, <1>12, Constants DEF Levels
    <3> QED
      BY <2>1, <3>1 DEF IsBaseLevelForKey
  <2>3. d.key \in Int /\ Smallest({g}) <= d.key /\ d.key <= Largest({g})
    BY <1>3, Range1, ZenonT(30)
  <2> QED
    BY <2>2, <2>3 DEF Overlaps
<1> QED
  BY <1>1, <1>2, <1>7, <1>8, <1>9, <1>10, <1>11, <1>12

LEMMA Installed ==
  ASSUME StoreInv, NEW c, Sound(c), NEW new, files_' = Install(c, new)
  PROVE  /\ files_' = [l \in Levels |-> files_'[l]]
         /\ files_'[c.level] = files_[c.level] \ c.inputs[1]
         /\ files_'[c.level + 1] = (files_[c.level + 1] \ c.inputs[2]) \cup new
         /\ \A l \in Levels : l # c.level /\ l # c.level + 1 => files_'[l] = files_[l]
<1>1. /\ c.level \in Levels /\ c.level + 1 \in Levels /\ c.level # c.level + 1
      /\ files_ = [l \in Levels |-> files_[l]]
  BY Constants DEF StoreInv, Sound
<1> QED
  BY <1>1, ZenonT(30) DEF Install

(* What is in the levels before and after.                                   *)
LEMMA Exchanged ==
  ASSUME StoreInv, NEW c, Sound(c), NEW out, out \subseteq Merged(c), NEW new,
         \A g \in new : g.entries \subseteq out,
         \A e \in out : \E g \in new : e \in g.entries,
         files_' = Install(c, new)
  PROVE  \E Rest : /\ Tables = Rest \cup Merged(c) /\ Tables' = Rest \cup out
                   /\ \A e \in Rest : \E l \in Levels : \E g : Remains(c, l, g) /\ e \in g.entries
<1> DEFINE Rest == {e \in Tables : \E l \in Levels : \E g : Remains(c, l, g) /\ e \in g.entries}
<1>1. /\ c.level \in Levels /\ c.level + 1 \in Levels /\ c.level # c.level + 1
      /\ c.inputs[1] \subseteq files_[c.level] /\ c.inputs[2] \subseteq files_[c.level + 1]
  <2>1. /\ c.level \in Levels /\ c.level + 1 \in Levels
        /\ c.inputs[1] \subseteq files_[c.level] /\ c.inputs[2] \subseteq files_[c.level + 1]
    BY DEF Sound
  <2>2. c.level \in Nat
    BY <2>1, Constants, ZenonT(30)
  <2> QED
    BY <2>1, <2>2
<1>11. /\ files_'[c.level] = files_[c.level] \ c.inputs[1]
      /\ files_'[c.level + 1] = (files_[c.level + 1] \ c.inputs[2]) \cup new
      /\ \A l \in Levels : l # c.level /\ l # c.level + 1 => files_'[l] = files_[l]
  BY Installed
<1>2. \A l \in Levels : \A g \in files_'[l] : Remains(c, l, g) \/ (l = c.level + 1 /\ g \in new)
  BY <1>1, <1>11 DEF Remains
<1>3. \A l \in Levels : \A g : Remains(c, l, g) => g \in files_'[l] /\ g \in files_[l]
  BY <1>1, <1>11 DEF Remains
<1>4. new \subseteq files_'[c.level + 1]
  BY <1>11
<1>5. \A l \in Levels : \A g \in files_[l] : Remains(c, l, g) \/ g \in c.inputs[1] \cup c.inputs[2]
  BY DEF Remains
<1>6. \A e : e \in Merged(c) <=> \E g \in c.inputs[1] \cup c.inputs[2] : e \in g.entries
  BY DEF Merged
<1>7. \A e : e \in Tables <=> e \in Rest \/ e \in Merged(c)
  BY <1>1, <1>5, <1>6, InTables
<1>8. \A e : e \in Tables' <=> e \in Rest \/ e \in out
  <2>1. \A e \in Tables' : e \in Rest \/ e \in out
    <3> TAKE e \in Tables'
    <3>1. PICK l \in Levels : \E g \in files_'[l] : e \in g.entries
      BY InTables
    <3>2. PICK g \in files_'[l] : e \in g.entries
      BY <3>1
    <3>3. CASE Remains(c, l, g)
      BY <1>3, <3>2, <3>3, InTables
    <3> QED
      BY <1>2, <3>2, <3>3
  <2>2. \A e \in Rest : e \in Tables'
    BY <1>3, InTables
  <2>3. \A e \in out : e \in Tables'
    BY <1>1, <1>4, InTables
  <2> QED
    BY <2>1, <2>2, <2>3
<1>9. \A e \in Rest : \E l \in Levels : \E g : Remains(c, l, g) /\ e \in g.entries
  OBVIOUS
<1> HIDE DEF Rest
<1>10. Tables = Rest \cup Merged(c) /\ Tables' = Rest \cup out
  BY <1>7, <1>8
<1> QED
  BY <1>9, <1>10

LEMMA InstallStep ==
  ASSUME Inv, LevelsApart, InstallCompactionResults
  PROVE  Inv'
<1> DEFINE c == compaction
           out == Output(c)
           Base == {k \in Keys : IsBaseLevelForKey(c, k)}
<1>1. PICK cuts \in SUBSET out :
        /\ files_' = Install(c, OutputFiles(out, cuts))
        /\ next_file_number_' = next_file_number_ + Cardinality(OutputFiles(out, cuts))
  BY DEF InstallCompactionResults
<1>2. c # None /\ compaction' = None /\ UNCHANGED <<mem_, imm_, last_sequence, snapshots_, history>>
  BY DEF InstallCompactionResults
<1>3. StoreInv /\ AgeInv /\ Level0Inv /\ NewerAbove /\ SnapInv /\ IteratorCorrect /\ Sound(c)
  BY <1>2 DEF Inv, CompInv
<1> DEFINE new == OutputFiles(out, cuts)
           L == c.level
<1>4. out = Kept(Merged(c), c.smallest_snapshot, Base) /\ out \subseteq Merged(c)
  BY ZenonT(30) DEF Output, Merged, Kept
<1>5. Merged(c) \subseteq history /\ Merged(c) \subseteq Entry /\ Merged(c) \subseteq Tables
  BY <1>3, InMerged
<1>6. IsFiniteSet(out)
  BY <1>3, <1>4, <1>5, FS_Subset DEF StoreInv
<1>7. /\ IsFiniteSet(new) /\ \A g \in new : g.entries # {} /\ g.entries \subseteq out
      /\ \A e \in out : \E g \in new : e \in g.entries
  <2> HIDE DEF out
  <2> QED
    BY <1>6, Outputs
<1>8. files_' = Install(c, new) /\ next_file_number_' = next_file_number_ + Cardinality(new)
  BY <1>1
<1> HIDE DEF new, out, Base, c
<1>9. /\ files_' = [l \in Levels |-> files_'[l]]
      /\ files_'[L] = files_[L] \ c.inputs[1]
      /\ files_'[L + 1] = (files_[L + 1] \ c.inputs[2]) \cup new
      /\ \A l \in Levels : l # L /\ l # L + 1 => files_'[l] = files_[l]
  BY <1>3, <1>8, Installed
<1>10. L \in Levels /\ L + 1 \in Levels /\ L \in Nat
  BY <1>3, Constants, ZenonT(30) DEF Sound
<1>11. PICK Rest : /\ Tables = Rest \cup Merged(c) /\ Tables' = Rest \cup out
                   /\ \A e \in Rest : \E l \in Levels : \E g : Remains(c, l, g) /\ e \in g.entries
  BY <1>3, <1>4, <1>7, <1>8, Exchanged, ZenonT(30)
<1>12. \A l \in Levels : \A g \in files_'[l] : Remains(c, l, g) \/ (l = L + 1 /\ g \in new)
  BY <1>9, <1>10 DEF Remains
<1>13. files_'[0] \subseteq files_[0]
  BY <1>9, <1>10, Constants
<1>14. StoreInv'
  <2>1. \A l \in Levels : IsFiniteSet(files_'[l])
    <3> TAKE l \in Levels
    <3>1. IsFiniteSet(files_[l])
      BY <1>3 DEF StoreInv
    <3>2. IsFiniteSet(files_[l] \ c.inputs[1]) /\ IsFiniteSet(files_[l] \ c.inputs[2])
      BY <3>1, FS_Subset
    <3>3. IsFiniteSet((files_[l] \ c.inputs[2]) \cup new)
      BY <1>7, <3>2, FS_Union, ZenonT(30)
    <3> QED
      BY <1>9, <3>1, <3>2, <3>3, ZenonT(30)
  <2>2. \A l \in Levels : \A g \in files_'[l] : g.entries # {} /\ g.entries \subseteq history
    <3> TAKE l \in Levels
    <3> TAKE g \in files_'[l]
    <3>1. CASE Remains(c, l, g)
      BY <1>3, <3>1 DEF StoreInv, Remains
    <3>2. CASE g \in new
      BY <1>4, <1>5, <1>7, <3>2
    <3> QED
      BY <1>12, <3>1, <3>2
  <2>3. next_file_number_' \in Nat /\ \A g \in files_'[0] : g.number \in Nat /\ g.number < next_file_number_'
    <3>1. Cardinality(new) \in Nat
      BY <1>7, FS_CardinalityType
    <3>2. next_file_number_ \in Nat /\ \A g \in files_'[0] : g.number \in Nat /\ g.number < next_file_number_
      BY <1>3, <1>13 DEF StoreInv
    <3> QED
      BY <1>8, <3>1, <3>2
  <2> QED
    BY <1>2, <1>3, <1>9, <2>1, <2>2, <2>3 DEF StoreInv
<1>15. AgeInv' /\ SnapInv' /\ Level0Inv'
  BY <1>2, <1>3, <1>4, <1>11, <1>13 DEF AgeInv, SnapInv, Level0Inv
<1>16. NewerAbove'
  <2> SUFFICES ASSUME NEW upper \in Levels, NEW lower \in Levels, upper < lower,
                      NEW g \in files_'[upper], NEW h \in files_'[lower],
                      NEW d \in g.entries, NEW e \in h.entries, d.key = e.key
               PROVE  d.seq > e.seq
    BY DEF NewerAbove
  <2>1. upper \in Nat /\ lower \in Nat
    BY Constants
  <2>2. CASE Remains(c, upper, g) /\ Remains(c, lower, h)
    BY <1>3, <2>2 DEF NewerAbove, Remains
  <2>3. CASE Remains(c, upper, g) /\ lower = L + 1 /\ h \in new
    <3>1. e \in Merged(c)
      BY <1>4, <1>7, <2>3
    <3>2. e.seq < d.seq
      BY <1>3, <1>10, <2>1, <2>3, <3>1, RemainsNewer
    <3>3. e.seq \in Nat /\ d.seq \in Nat
      BY <1>3, <1>5, <2>3, <3>1 DEF StoreInv, Remains, Entry
    <3> QED
      BY <3>2, <3>3
  <2>4. CASE upper = L + 1 /\ g \in new /\ Remains(c, lower, h)
    <3>1. PICK f : /\ d \in f.entries
                   /\ (f \in files_[L] \/ f \in files_[L + 1])
      BY <1>3, <1>4, <1>7, <2>4, InMerged
    <3> QED
      BY <1>3, <1>10, <2>1, <2>4, <3>1 DEF NewerAbove, Remains
  <2> QED
    BY <1>12, <2>1, <2>2, <2>3, <2>4
<1>17. IteratorCorrect'
  <2> DEFINE Other == mem_ \cup imm_ \cup Rest
  <2>1. (mem_ \cup imm_ \cup Tables)' = Other \cup out /\ mem_ \cup imm_ \cup Tables = Other \cup Merged(c)
    BY <1>2, <1>11
  <2>2. Readable' = Readable /\ history' = history
    BY <1>2 DEF Readable
  <2>3. Other \subseteq Entry
    BY <1>3, <2>1, Written DEF StoreInv
  <2>4. ASSUME NEW d \in Merged(c), NEW e \in Other, d.key = e.key, d.key \in Base
        PROVE  d.seq < e.seq
    <3>1. CASE e \in mem_ \cup imm_
      BY <1>3, <1>5, <3>1 DEF AgeInv
    <3>2. CASE e \in Rest
      <4>1. PICK l \in Levels : \E g : Remains(c, l, g) /\ e \in g.entries
        BY <1>11, <3>2
      <4>2. PICK g : Remains(c, l, g) /\ e \in g.entries
        BY <4>1
      <4>3. IsBaseLevelForKey(c, d.key)
        BY <2>4 DEF Base
      <4> QED
        BY <1>3, <2>4, <4>2, <4>3, RemainsNewer
    <3> QED
      BY <3>1, <3>2
  <2>5. \A s \in Readable : s \in Nat /\ c.smallest_snapshot <= s /\ c.smallest_snapshot \in Nat
    BY <1>3 DEF Readable, Sound, SnapInv, StoreInv
  <2> HIDE DEF Other
  <2> SUFFICES ASSUME NEW k \in Keys, NEW s \in Readable
               PROVE  Visible(Newest(Other \cup out, k, s)) = Visible(Newest(history, k, s))
    BY <2>1, <2>2 DEF IteratorCorrect
  <2>6. Visible(Newest(Other \cup Merged(c), k, s)) = Visible(Newest(history, k, s))
    BY <1>3, <2>1, ZenonT(30) DEF IteratorCorrect
  <2>7. Visible(Newest(Other \cup Kept(Merged(c), c.smallest_snapshot, Base), k, s))
          = Visible(Newest(Other \cup Merged(c), k, s))
    <3> DEFINE S == Merged(c)
               oldest == c.smallest_snapshot
    <3>1. k \in Int
      BY LevelsAssumption
    <3>2. s \in Nat /\ oldest <= s /\ oldest \in Nat
      BY <2>5
    <3>3. S \in SUBSET Entry
      BY <1>5
    <3>4. Other \in SUBSET Entry
      BY <2>3
    <3>5. NewerInBase(S, Other, Base)
      BY <2>4 DEF NewerInBase
    <3> HIDE DEF S, oldest
    <3>6. Visible(Newest(Other \cup Kept(S, oldest, Base), k, s)) = Visible(Newest(Other \cup S, k, s))
      BY <3>1, <3>2, <3>3, <3>4, <3>5, KeptReads
    <3> QED
      BY <3>6 DEF S, oldest
  <2> QED
    BY <1>4, <2>6, <2>7
<1> QED
  BY <1>2, <1>14, <1>15, <1>16, <1>17 DEF Inv, CompInv

-----------------------------------------------------------------------------
(* The invariant, and what follows from it while the levels are apart.       *)

LEMMA StoreFirst ==
  ASSUME Init
  PROVE  Inv
<1>1. Tables = {} /\ mem_ = {} /\ imm_ = {} /\ history = {}
  BY InTables DEF Init
<1>2. IsFiniteSet({})
  BY FS_EmptySet
<1>3. StoreInv
  BY <1>1, <1>2, Constants DEF Init, StoreInv
<1>4. AgeInv /\ Level0Inv /\ NewerAbove
  BY <1>1, Constants DEF Init, AgeInv, Level0Inv, NewerAbove
<1>5. SnapInv /\ CompInv
  BY <1>1 DEF Init, SnapInv, CompInv
<1>6. IteratorCorrect
  BY <1>1 DEF IteratorCorrect
<1> QED
  BY <1>3, <1>4, <1>5, <1>6 DEF Inv

LEMMA StoreStep ==
  ASSUME Inv, LevelsApart, [Next]_vars
  PROVE  Inv'
<1>1. CASE UNCHANGED vars
  <2>1. UNCHANGED <<mem_, imm_, files_, next_file_number_, last_sequence, snapshots_, compaction, history>>
    BY <1>1 DEF vars
  <2>2. Tables' = Tables /\ Readable' = Readable
    BY <2>1 DEF Tables, Readable
  <2>3. StoreInv' /\ AgeInv' /\ Level0Inv' /\ NewerAbove' /\ SnapInv'
    BY <2>1, <2>2 DEF Inv, StoreInv, AgeInv, Level0Inv, NewerAbove, SnapInv
  <2>4. CompInv'
    BY <2>1, ZenonT(30) DEF Inv, CompInv, Sound
  <2>5. IteratorCorrect'
    BY <2>1, <2>2, SameReads DEF Inv
  <2> QED
    BY <2>3, <2>4, <2>5 DEF Inv
<1>2. CASE \E k \in Keys, type \in Types : Write(k, type)
  BY <1>2, WriteStep
<1>3. CASE SwitchMemTable
  BY <1>3, SwitchStep
<1>4. CASE GetSnapshot \/ (\E n \in 1 .. Len(snapshots_) : ReleaseSnapshot(n)) \/ CompactionFails
  BY <1>4, SnapshotStep
<1>5. CASE CompactMemTable
  BY <1>5, FlushStep
<1>6. CASE \E level \in Levels : \E f \in files_[level] : PickCompaction(level, f)
  BY <1>6, PickStep
<1>7. CASE \E level \in Levels, begin \in Keys, end \in Keys : begin <= end /\ CompactRange(level, begin, end)
  BY <1>7, RangeStep
<1>8. CASE InstallCompactionResults
  BY <1>8, InstallStep
<1> QED
  BY <1>1, <1>2, <1>3, <1>4, <1>5, <1>6, <1>7, <1>8, ZenonT(30) DEF Next

(* Whatever is written, flushed, compacted (by hand too) and cut, and        *)
(* whichever snapshots are held: as long as below level 0 no two files of a  *)
(* level share a range of user keys, no older entry of a key gets above a    *)
(* newer one (version_set.cc:337).                                           *)
THEOREM NewerWhileApart == Spec /\ []LevelsApart => []NewerAbove
<1>1. Init => Inv
  BY StoreFirst
<1>2. Inv /\ LevelsApart /\ [Next]_vars => Inv'
  BY StoreStep
<1>3. Inv => NewerAbove
  BY DEF Inv
<1> QED
  BY <1>1, <1>2, <1>3, PTL DEF Spec
=============================================================================
