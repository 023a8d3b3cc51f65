-------------------------- MODULE PrimitivesProofs --------------------------
(* Theorems about what the database stands on.  The condition variable of    *)
(* port_chromium.cc implements its contract, the arena of a memtable gives   *)
(* no byte out twice, BGThread sleeps over nothing and runs every item in    *)
(* order, and mapped files stay within their limit; for any number of        *)
(* threads, waiters, pieces, items and openers.                              *)
EXTENDS PortCondVar, Arena, EnvSchedule, MmapLimiter, FiniteSetTheorems, TLAPS

Signalling == {"signal", "handshake", "signalall", "drain", "drain_sem2"}
Inside == {"in", "counted"} \cup Signalling      \* positions with mu_ held

(* No wakeup is under way, or one is: in sem1_, with the thread that took   *)
(* it, or back in sem2_.                                                    *)
NoToken == sem1_ = 0 /\ sem2_ = 0 /\ Releasing = {}
OneToken == \/ sem1_ = 1 /\ sem2_ = 0 /\ Releasing = {}
            \/ sem1_ = 0 /\ sem2_ = 0 /\ \E t \in Threads : Releasing = {t}
            \/ sem1_ = 0 /\ sem2_ = 1 /\ Releasing = {}
Asleep == Cardinality(Sleepers)

(* mu_ and wait_mtx_ exclude, so that one thread at most signals, and       *)
(* waiting_ counts who sleeps except for the wakeup under way.  A SignalAll *)
(* that drains with no token left, as with two waiters, stays there.        *)
Mutexes ==
  /\ \A t \in Threads : pc[t] \in Inside <=> mu_ = t
  /\ \A t \in Threads : pc[t] \in Signalling <=> wait_mtx_ = t
Account(where) ==
  /\ where = "signal" => NoToken /\ waiting_ = Asleep
  /\ where = "handshake" => OneToken /\ waiting_ = Asleep - sem1_
  /\ where = "signalall" => NoToken /\ waiting_ = Asleep /\ (i # 0 => waiting_ = 0)
  /\ where = "drain" => /\ i = 0
                        /\ \/ OneToken /\ waiting_ = Asleep - sem1_ + 1 /\ waiting_ > 0
                           \/ NoToken /\ waiting_ = Asleep
  /\ where = "drain_sem2" => /\ i = 0
                             /\ (OneToken /\ waiting_ = Asleep - sem1_) \/ NoToken
Counted ==
  /\ wait_mtx_ = NULL => NoToken /\ waiting_ = Asleep
  /\ \A t \in Threads : Account(pc[t])
CondInv == TypeOK /\ Mutexes /\ Counted

(* A move of one thread among positions at which it neither sleeps in Wait  *)
(* nor holds a wakeup.                                                      *)
LEMMA SameCrowd ==
  ASSUME TypeOK, NEW t \in Threads, NEW to, Goes(t, to),
         pc[t] \in {"counted", "sem1"} <=> to \in {"counted", "sem1"},
         pc[t] = "release" <=> to = "release"
  PROVE  Sleepers' = Sleepers /\ Releasing' = Releasing
BY DEF TypeOK, Goes, Sleepers, Releasing

LEMMA CondStep ==
  ASSUME IsFiniteSet(Threads), NULL \notin Threads, CondInv, NEW t \in Threads,
         Lock(t) \/ Unlock(t) \/ WaitCount(t) \/ Enter(t) \/ WaitStep(t) \/ SignalStep(t)
  PROVE  CondInv'
<1> USE DEF At
<1>1. TypeOK /\ Mutexes /\ Counted /\ pc \in [Threads -> Positions]
  BY DEF CondInv, TypeOK
<1>2. waiting_ \in Nat /\ sem1_ \in Nat /\ sem2_ \in Nat /\ i \in Nat
  BY <1>1 DEF TypeOK
<1>3. IsFiniteSet(Sleepers) /\ Asleep \in Nat
  BY FS_Subset, FS_CardinalityType DEF Sleepers, Asleep
<1>4. /\ \A u, v \in Threads : pc[u] \in Inside /\ pc[v] \in Inside => u = v
      /\ Signalling \subseteq Inside
      /\ wait_mtx_ = NULL <=> \A u \in Threads : pc[u] \notin Signalling
      /\ mu_ = NULL => wait_mtx_ = NULL
  BY <1>1 DEF Mutexes, Inside, TypeOK
<1>5. ASSUME Lock(t) \/ Unlock(t)
      PROVE  CondInv'
  <2>1. PICK to \in {"in", "out"} : Goes(t, to)
    BY <1>5 DEF Lock, Unlock
  <2>2. pc'[t] = to /\ (\A u \in Threads \ {t} : pc'[u] = pc[u]) /\ pc[t] \in {"in", "out", "relock"}
    BY <1>1, <1>5, <2>1 DEF Lock, Unlock, Goes
  <2>3. Sleepers' = Sleepers /\ Releasing' = Releasing
    BY <1>1, <2>1, <2>2, SameCrowd
  <2>4. UNCHANGED <<wait_mtx_, waiting_, sem1_, sem2_, i>> /\ wait_mtx_ = NULL
    <3>1. CASE Lock(t)
      BY <1>4, <3>1 DEF Lock
    <3>2. CASE Unlock(t)
      <4>1. pc[t] \in Inside /\ pc[t] \notin Signalling /\ UNCHANGED <<wait_mtx_, waiting_, sem1_, sem2_, i>>
        BY <3>2 DEF Unlock, Inside, Signalling
      <4> QED
        BY <1>4, <4>1
    <3> QED
      BY <1>5, <3>1, <3>2
  <2>5. TypeOK'
    BY <1>1, <1>5, <2>1, <2>4 DEF TypeOK, Lock, Unlock, Goes, Positions
  <2>6. Mutexes'
    BY <1>1, <1>5, <2>2, <2>4 DEF Mutexes, Lock, Unlock, Inside, Signalling, Goes
  <2>7. Counted'
    BY <1>1, <1>4, <2>2, <2>3, <2>4 DEF Counted, Account, NoToken, Asleep, Signalling
  <2> QED
    BY <2>5, <2>6, <2>7 DEF CondInv
<1>6. ASSUME WaitCount(t)
      PROVE  CondInv'
  <2>1. /\ pc[t] = "in" /\ wait_mtx_ = NULL /\ waiting_' = waiting_ + 1 /\ Goes(t, "counted")
        /\ UNCHANGED <<mu_, wait_mtx_, sem1_, sem2_, i>>
    BY <1>6 DEF WaitCount
  <2>2. pc'[t] = "counted" /\ \A u \in Threads \ {t} : pc'[u] = pc[u]
    BY <1>1, <2>1 DEF Goes
  <2>3. t \notin Sleepers /\ Sleepers' = Sleepers \cup {t} /\ Releasing' = Releasing
    BY <2>1, <2>2 DEF Sleepers, Releasing
  <2>4. Asleep' = Asleep + 1
    BY <1>3, <2>3, FS_AddElement, ZenonT(30) DEF Asleep
  <2>5. TypeOK'
    BY <1>1, <2>1 DEF TypeOK, Goes, Positions
  <2>6. Mutexes'
    BY <1>1, <2>1, <2>2 DEF Mutexes, Inside, Signalling
  <2>7. Counted'
    BY <1>1, <1>4, <2>1, <2>2, <2>3, <2>4 DEF Counted, Account, NoToken, Signalling
  <2> QED
    BY <2>5, <2>6, <2>7 DEF CondInv
<1>7. ASSUME WaitUnlock(t)
      PROVE  CondInv'
  <2>1. /\ pc[t] = "counted" /\ mu_' = NULL /\ Goes(t, "sem1")
        /\ UNCHANGED <<wait_mtx_, waiting_, sem1_, sem2_, i>>
    BY <1>7 DEF WaitUnlock
  <2>2. pc'[t] = "sem1" /\ \A u \in Threads \ {t} : pc'[u] = pc[u]
    BY <1>1, <2>1 DEF Goes
  <2>3. Sleepers' = Sleepers /\ Releasing' = Releasing
    BY <1>1, <2>1, <2>2, SameCrowd
  <2>4. wait_mtx_ = NULL
    BY <1>1, <1>4, <2>1 DEF Mutexes, Inside, Signalling, TypeOK
  <2>5. TypeOK'
    BY <1>1, <2>1 DEF TypeOK, Goes, Positions
  <2>6. Mutexes'
    BY <1>1, <1>4, <2>1, <2>2, <2>4 DEF Mutexes, Inside, Signalling
  <2>7. Counted'
    BY <1>1, <1>4, <2>1, <2>2, <2>3, <2>4 DEF Counted, Account, NoToken, Asleep, Signalling
  <2> QED
    BY <2>5, <2>6, <2>7 DEF CondInv
<1>8. ASSUME WaitSem1(t)
      PROVE  CondInv'
  <2>1. /\ pc[t] = "sem1" /\ sem1_ > 0 /\ sem1_' = sem1_ - 1 /\ Goes(t, "release")
        /\ UNCHANGED <<mu_, wait_mtx_, waiting_, sem2_, i>>
    BY <1>8 DEF WaitSem1
  <2>2. pc'[t] = "release" /\ \A u \in Threads \ {t} : pc'[u] = pc[u]
    BY <1>1, <2>1 DEF Goes
  <2>3. t \in Sleepers /\ Sleepers' = Sleepers \ {t} /\ Releasing' = Releasing \cup {t}
    BY <2>1, <2>2 DEF Sleepers, Releasing
  <2>4. Asleep' = Asleep - 1
    BY <1>3, <2>3, FS_RemoveElement, ZenonT(30) DEF Asleep
  <2>5. TypeOK'
    BY <1>1, <1>2, <2>1 DEF TypeOK, Goes, Positions
  <2>6. Mutexes'
    BY <1>1, <2>1, <2>2 DEF Mutexes, Inside, Signalling
  <2>7. PICK s \in Threads : pc[s] \in {"handshake", "drain", "drain_sem2"}
    BY <1>1, <1>4, <2>1 DEF Counted, Account, NoToken, Signalling, TypeOK
  <2>8. ~NoToken /\ sem1_ = 1 /\ sem2_ = 0 /\ Releasing = {} /\ OneToken
    BY <1>1, <2>1, <2>7 DEF Counted, Account, NoToken, OneToken
  <2>9. OneToken' /\ sem1_' = 0
    BY <2>1, <2>3, <2>8 DEF OneToken
  <2>10. \A u \in Threads : pc'[u] \in Signalling => u # t /\ pc'[u] = pc[u]
    BY <2>2 DEF Signalling
  <2>11. Counted'
    BY <1>1, <1>2, <1>3, <1>4, <2>1, <2>4, <2>7, <2>8, <2>9, <2>10 DEF Counted, Account, Signalling, TypeOK
  <2> QED
    BY <2>5, <2>6, <2>11 DEF CondInv
<1>9. ASSUME WaitRelease(t)
      PROVE  CondInv'
  <2>1. /\ pc[t] = "release" /\ sem2_' = sem2_ + 1 /\ Goes(t, "relock")
        /\ UNCHANGED <<mu_, wait_mtx_, waiting_, sem1_, i>>
    BY <1>9 DEF WaitRelease
  <2>2. pc'[t] = "relock" /\ \A u \in Threads \ {t} : pc'[u] = pc[u]
    BY <1>1, <2>1 DEF Goes
  <2>3. t \in Releasing /\ Sleepers' = Sleepers /\ Releasing' = Releasing \ {t}
    BY <2>1, <2>2 DEF Sleepers, Releasing
  <2>4. Asleep' = Asleep
    BY <2>3 DEF Asleep
  <2>5. TypeOK'
    BY <1>1, <1>2, <2>1 DEF TypeOK, Goes, Positions
  <2>6. Mutexes'
    BY <1>1, <2>1, <2>2 DEF Mutexes, Inside, Signalling
  <2>7. PICK s \in Threads : pc[s] \in {"handshake", "drain", "drain_sem2"}
    BY <1>1, <1>4, <2>3 DEF Counted, Account, NoToken, Signalling, TypeOK
  <2>8. ~NoToken /\ sem1_ = 0 /\ sem2_ = 0 /\ Releasing = {t} /\ OneToken
    BY <1>1, <2>3, <2>7 DEF Counted, Account, NoToken, OneToken
  <2>9. OneToken' /\ sem1_' = 0
    BY <2>1, <2>3, <2>8 DEF OneToken
  <2>10. \A u \in Threads : pc'[u] \in Signalling => u # t /\ pc'[u] = pc[u]
    BY <2>2 DEF Signalling
  <2>11. Counted'
    BY <1>1, <1>2, <1>3, <1>4, <2>1, <2>4, <2>7, <2>8, <2>9, <2>10 DEF Counted, Account, Signalling, TypeOK
  <2> QED
    BY <2>5, <2>6, <2>11 DEF CondInv
<1>10. ASSUME Enter(t)
       PROVE  CondInv'
  <2>1. PICK to \in {"signal", "signalall"} : Goes(t, to)
    BY <1>10 DEF Enter
  <2>2. /\ pc[t] = "in" /\ wait_mtx_ = NULL /\ wait_mtx_' = t /\ i' = 0
        /\ UNCHANGED <<mu_, waiting_, sem1_, sem2_>>
    BY <1>10 DEF Enter
  <2>3. pc'[t] = to /\ \A u \in Threads \ {t} : pc'[u] = pc[u]
    BY <1>1, <2>1 DEF Goes
  <2>4. Sleepers' = Sleepers /\ Releasing' = Releasing
    BY <1>1, <2>1, <2>2, SameCrowd
  <2>5. TypeOK'
    BY <1>1, <2>1, <2>2 DEF TypeOK, Goes, Positions
  <2>6. Mutexes'
    BY <1>1, <1>4, <2>2, <2>3 DEF Mutexes, Inside, Signalling
  <2>7. NoToken' /\ waiting_' = Asleep'
    BY <1>1, <2>2, <2>4 DEF Counted, Account, NoToken, Asleep
  <2>8. Counted'
    BY <1>4, <2>2, <2>3, <2>7 DEF Counted, Account, Signalling
  <2> QED
    BY <2>5, <2>6, <2>8 DEF CondInv
<1>11. ASSUME pc[t] \in Signalling,
              NEW to \in {"in"} \cup Signalling, Goes(t, to), mu_' = mu_,
              wait_mtx_' = IF to = "in" THEN NULL ELSE wait_mtx_,
              waiting_' \in Nat, sem1_' \in Nat, sem2_' \in Nat, i' \in Nat,
              Account(to)', to = "in" => NoToken' /\ waiting_' = Asleep'
       PROVE  CondInv'
  <2>1. pc'[t] = to /\ \A u \in Threads \ {t} : pc'[u] = pc[u]
    BY <1>1, <1>11 DEF Goes
  <2>2. wait_mtx_ = t /\ mu_ = t /\ \A u \in Threads \ {t} : pc[u] \notin Inside /\ pc[u] \notin Signalling
    BY <1>1, <1>4, <1>11 DEF Mutexes
  <2>3. TypeOK'
    BY <1>1, <1>11, <2>2 DEF TypeOK, Goes, Positions, Signalling
  <2>4. Mutexes'
    BY <1>11, <2>1, <2>2 DEF Mutexes, Inside, Signalling
  <2>5. Counted'
    <3>1. \A u \in Threads \ {t} : Account(pc[u])'
      BY <2>1, <2>2 DEF Account, Signalling
    <3>2. Account(pc[t])'
      BY <1>11, <2>1 DEF Account
    <3>3. wait_mtx_' = NULL => to = "in"
      BY <1>11, <2>2
    <3> QED
      BY <1>11, <3>1, <3>2, <3>3 DEF Counted
  <2> QED
    BY <2>3, <2>4, <2>5 DEF CondInv
<1>12. ASSUME SignalStep(t)
       PROVE  CondInv'
  <2>1. pc[t] \in Signalling /\ \E to \in {"in"} \cup Signalling : Goes(t, to)
    BY <1>12 DEF SignalStep, Signal, SignalSem2, SignalAllFor, SignalAllDrain, SignalAllSem2, Signalling
  <2>2. Sleepers' = Sleepers /\ Releasing' = Releasing /\ Asleep' = Asleep
    BY <1>1, <2>1, SameCrowd DEF Signalling, Asleep
  <2>3. "in" \in {"in"} \cup Signalling /\ Signalling \subseteq {"in"} \cup Signalling
    OBVIOUS
  <2>4. ASSUME Signal(t)
        PROVE  CondInv'
    <3>1. NoToken /\ waiting_ = Asleep /\ pc[t] = "signal"
      BY <1>1, <2>4 DEF Signal, Counted, Account
    <3>2. CASE waiting_ > 0
      <4>1. /\ waiting_' = waiting_ - 1 /\ sem1_' = sem1_ + 1 /\ Goes(t, "handshake")
            /\ UNCHANGED <<mu_, wait_mtx_, sem2_, i>>
        BY <2>4, <3>2 DEF Signal
      <4>2. OneToken' /\ waiting_' = Asleep' - sem1_' /\ waiting_' \in Nat /\ sem1_' \in Nat
        BY <1>2, <2>2, <3>1, <3>2, <4>1 DEF NoToken, OneToken
      <4> QED
        BY <1>2, <1>11, <2>1, <4>1, <4>2 DEF Account, Signalling
    <3>3. CASE ~(waiting_ > 0)
      <4>1. wait_mtx_' = NULL /\ Goes(t, "in") /\ UNCHANGED <<mu_, waiting_, sem1_, sem2_, i>>
        BY <2>4, <3>3 DEF Signal
      <4>2. NoToken' /\ waiting_' = Asleep' /\ waiting_' = 0
        BY <1>2, <2>2, <3>1, <3>3, <4>1 DEF NoToken
      <4> QED
        BY <1>2, <1>11, <2>1, <4>1, <4>2 DEF Account
    <3> QED
      BY <3>2, <3>3
  <2>5. ASSUME SignalSem2(t)
        PROVE  CondInv'
    <3>1. /\ pc[t] = "handshake" /\ sem2_ > 0 /\ sem2_' = sem2_ - 1 /\ wait_mtx_' = NULL /\ Goes(t, "in")
          /\ UNCHANGED <<mu_, waiting_, sem1_, i>>
      BY <2>5 DEF SignalSem2
    <3>2. OneToken /\ waiting_ = Asleep - sem1_
      BY <1>1, <3>1 DEF Counted, Account
    <3>3. sem1_ = 0 /\ sem2_ = 1 /\ Releasing = {}
      BY <3>1, <3>2 DEF OneToken
    <3>4. NoToken' /\ waiting_' = Asleep' /\ sem2_' \in Nat
      BY <1>3, <2>2, <3>1, <3>2, <3>3 DEF NoToken
    <3> QED
      BY <1>2, <1>11, <2>1, <3>1, <3>4, ZenonT(30) DEF Account
  <2>6. ASSUME SignalAllFor(t)
        PROVE  CondInv'
    <3>1. NoToken /\ waiting_ = Asleep /\ (i # 0 => waiting_ = 0) /\ pc[t] = "signalall"
      BY <1>1, <2>6 DEF SignalAllFor, Counted, Account
    <3>2. CASE More
      <4>1. sem1_' = sem1_ + 1 /\ Goes(t, "drain") /\ UNCHANGED <<mu_, wait_mtx_, waiting_, sem2_, i>>
        BY <2>6, <3>2 DEF SignalAllFor
      <4>2. waiting_ > 0 /\ i = 0
        BY <1>2, <3>1, <3>2 DEF More
      <4>3. OneToken' /\ waiting_' = Asleep' - sem1_' + 1 /\ sem1_' \in Nat
        BY <1>2, <1>3, <2>2, <3>1, <4>1 DEF NoToken, OneToken
      <4> QED
        BY <1>2, <1>11, <2>1, <4>1, <4>2, <4>3 DEF Account, Signalling
    <3>3. CASE ~More
      <4>1. wait_mtx_' = NULL /\ Goes(t, "in") /\ UNCHANGED <<mu_, waiting_, sem1_, sem2_, i>>
        BY <2>6, <3>3 DEF SignalAllFor
      <4>2. NoToken' /\ waiting_' = Asleep' /\ (i' # 0 => waiting_' = 0)
        BY <2>2, <3>1, <4>1 DEF NoToken
      <4> QED
        BY <1>2, <1>11, <2>1, <4>1, <4>2, ZenonT(30) DEF Account
    <3> QED
      BY <3>2, <3>3
  <2>7. ASSUME SignalAllDrain(t)
        PROVE  CondInv'
    <3>1. /\ pc[t] = "drain" /\ i = 0
          /\ \/ OneToken /\ waiting_ = Asleep - sem1_ + 1 /\ waiting_ > 0
             \/ NoToken /\ waiting_ = Asleep
      BY <1>1, <2>7 DEF SignalAllDrain, Counted, Account
    <3>2. CASE ~Drained
      <4>1. waiting_' = waiting_ - 1 /\ Goes(t, "drain_sem2") /\ UNCHANGED <<mu_, wait_mtx_, sem1_, sem2_, i>>
        BY <2>7, <3>2 DEF SignalAllDrain
      <4>2. (OneToken' <=> OneToken) /\ (NoToken' <=> NoToken)
        BY <2>2, <4>1 DEF OneToken, NoToken
      <4>3. waiting_' \in Nat /\ ((OneToken' /\ waiting_' = Asleep' - sem1_') \/ NoToken')
        BY <1>2, <1>3, <2>2, <3>1, <3>2, <4>1, <4>2 DEF Drained
      <4> QED
        BY <1>2, <1>11, <2>1, <3>1, <4>1, <4>3 DEF Account, Signalling
    <3>3. CASE Drained
      <4>1. i' = i + 1 /\ Goes(t, "signalall") /\ UNCHANGED <<mu_, wait_mtx_, waiting_, sem1_, sem2_>>
        BY <2>7, <3>3 DEF SignalAllDrain
      <4>2. NoToken' /\ waiting_' = Asleep' /\ waiting_' = 0
        BY <1>2, <2>2, <3>1, <3>3, <4>1 DEF Drained, NoToken
      <4> QED
        BY <1>2, <1>11, <2>1, <4>1, <4>2 DEF Account, Signalling
    <3> QED
      BY <3>2, <3>3
  <2>8. ASSUME SignalAllSem2(t)
        PROVE  CondInv'
    <3>1. /\ pc[t] = "drain_sem2" /\ sem2_ > 0 /\ sem2_' = sem2_ - 1 /\ Goes(t, "drain")
          /\ UNCHANGED <<mu_, wait_mtx_, waiting_, sem1_, i>>
      BY <2>8 DEF SignalAllSem2
    <3>2. i = 0 /\ OneToken /\ waiting_ = Asleep - sem1_
      BY <1>1, <3>1 DEF Counted, Account, NoToken
    <3>3. sem1_ = 0 /\ sem2_ = 1 /\ Releasing = {}
      BY <3>1, <3>2 DEF OneToken
    <3>4. NoToken' /\ waiting_' = Asleep' /\ sem2_' \in Nat
      BY <1>3, <2>2, <3>1, <3>2, <3>3 DEF NoToken
    <3> QED
      BY <1>2, <1>11, <2>1, <3>1, <3>2, <3>4 DEF Account, Signalling
  <2> QED
    BY <1>12, <2>4, <2>5, <2>6, <2>7, <2>8 DEF SignalStep
<1> QED
  BY <1>5, <1>6, <1>7, <1>8, <1>9, <1>10, <1>12 DEF WaitStep

(* The initial state, for any set of threads.                               *)
LEMMA CondFirst ==
  ASSUME NULL \notin Threads, CondInit
  PROVE  CondInv
<1>1. TypeOK /\ Mutexes
  BY DEF CondInit, TypeOK, Positions, Mutexes, Inside, Signalling
<1>2. Sleepers = {} /\ Releasing = {}
  BY DEF CondInit, Sleepers, Releasing
<1>3. Asleep = 0
  BY <1>2, FS_EmptySet DEF Asleep
<1>4. Counted
  BY <1>2, <1>3 DEF CondInit, Counted, Account, NoToken
<1> QED
  BY <1>1, <1>4 DEF CondInv

(* How the refinement mapping sees a thread.                                 *)
View(w) ==
  CASE w = "counted" -> "in"
    [] w = "sem1" -> "waiting"
    [] w \in {"release", "relock"} -> "woken"
    [] w \in {"signal", "handshake"} -> IF w = "handshake" /\ sem1_ = 0 THEN "signalled" ELSE "signal"
    [] w \in {"signalall", "drain", "drain_sem2"} -> "signalall"
    [] OTHER -> w

LEMMA Viewed ==
  ASSUME NEW u \in Threads
  PROVE  state[u] = View(pc[u]) /\ state'[u] = View(pc[u])'
BY DEF state, View, Picked

(* The move of one thread as a move of the abstract state.                   *)
LEMMA Moved ==
  ASSUME NEW t \in Threads, NEW x, state'[t] = x, \A u \in Threads \ {t} : state'[u] = state[u]
  PROVE  Contract!Goes(t, x)
BY ZenonT(30) DEF state, Contract!Goes

LEMMA Stuttered ==
  ASSUME \A u \in Threads : state'[u] = state[u]
  PROVE  state' = state
BY DEF state

LEMMA Total ==
  state = [u \in Threads |-> state[u]] /\ state' = [u \in Threads |-> state'[u]]
<1>1. state = [u \in Threads |-> state[u]]
  BY DEF state
<1>2. state' = [u \in Threads |-> state'[u]]
  BY DEF state
<1> QED
  BY <1>1, <1>2

(* Each call of the Win32 API is a step of the contract, or is not seen.    *)
LEMMA ContractStep ==
  ASSUME IsFiniteSet(Threads), NULL \notin Threads, CondInv, NEW t \in Threads,
         Lock(t) \/ Unlock(t) \/ WaitCount(t) \/ Enter(t) \/ WaitStep(t) \/ SignalStep(t)
  PROVE  Contract!Next \/ UNCHANGED <<mu_, state>>
<1> USE DEF At
<1>1. /\ pc \in [Threads -> Positions] /\ Counted /\ sem1_ \in Nat /\ sem2_ \in Nat
      /\ waiting_ \in Nat /\ i \in Nat
  BY DEF CondInv, TypeOK
<1>2. \A u \in Threads : state[u] = View(pc[u]) /\ state'[u] = View(pc[u])'
  BY Viewed
<1>3. ASSUME pc[t] \notin {"sem1", "handshake"} \/ pc'[t] \notin {"release", "handshake"},
             \E w : Goes(t, w),
             sem1_' = sem1_ \/ pc[t] \in Signalling
      PROVE  \A u \in Threads \ {t} : state'[u] = state[u]
  <2>1. \A u \in Threads \ {t} : pc'[u] = pc[u]
    BY <1>1, <1>3 DEF Goes
  <2>2. pc[t] \in Signalling => \A u \in Threads \ {t} : pc[u] # "handshake"
    BY DEF CondInv, Mutexes, Signalling
  <2> QED
    BY <1>2, <1>3, <2>1, <2>2 DEF View
<1>4. CASE Lock(t)
  <2>1. /\ pc[t] \in {"out", "relock"} /\ mu_ = NULL /\ mu_' = t /\ sem1_' = sem1_ /\ Goes(t, "in")
        /\ pc'[t] = "in"
    BY <1>1, <1>4 DEF Lock, Goes
  <2>2. state[t] \in {"out", "woken"} /\ state'[t] = "in"
    BY <1>2, <2>1 DEF View
  <2>3. Contract!Lock(t)
    BY <1>3, <2>1, <2>2, Moved DEF Contract!Lock
  <2> QED
    BY <2>3 DEF Contract!Next
<1>5. CASE Unlock(t)
  <2>1. pc[t] = "in" /\ mu_' = NULL /\ sem1_' = sem1_ /\ Goes(t, "out") /\ pc'[t] = "out"
    BY <1>1, <1>5 DEF Unlock, Goes
  <2>2. state[t] = "in" /\ state'[t] = "out"
    BY <1>2, <2>1 DEF View
  <2>3. Contract!Unlock(t)
    BY <1>3, <2>1, <2>2, Moved DEF Contract!Unlock
  <2> QED
    BY <2>3 DEF Contract!Next
<1>6. CASE WaitCount(t)
  <2>1. pc[t] = "in" /\ UNCHANGED <<mu_, sem1_>> /\ Goes(t, "counted") /\ pc'[t] = "counted"
    BY <1>1, <1>6 DEF WaitCount, Goes
  <2>2. state'[t] = state[t]
    BY <1>2, <2>1 DEF View
  <2> QED
    BY <1>3, <2>1, <2>2, Stuttered
<1>7. CASE WaitUnlock(t)
  <2>1. pc[t] = "counted" /\ mu_' = NULL /\ sem1_' = sem1_ /\ Goes(t, "sem1") /\ pc'[t] = "sem1"
    BY <1>1, <1>7 DEF WaitUnlock, Goes
  <2>2. state[t] = "in" /\ state'[t] = "waiting"
    BY <1>2, <2>1 DEF View
  <2>3. Contract!Wait(t)
    BY <1>3, <2>1, <2>2, Moved DEF Contract!Wait
  <2> QED
    BY <2>3 DEF Contract!Next
<1>8. CASE WaitSem1(t)
  <2>1. /\ pc[t] = "sem1" /\ sem1_ > 0 /\ sem1_' = sem1_ - 1 /\ mu_' = mu_
        /\ pc'[t] = "release" /\ \A u \in Threads \ {t} : pc'[u] = pc[u]
    BY <1>1, <1>8, ZenonT(30) DEF WaitSem1, Goes
  <2>2. PICK s \in Threads : pc[s] \in {"handshake", "drain", "drain_sem2"}
    BY <1>1, <2>1 DEF CondInv, Mutexes, Counted, Account, NoToken, Signalling, TypeOK
  <2>3. sem1_ = 1 /\ sem1_' = 0
    BY <1>1, <2>1, <2>2 DEF Counted, Account, NoToken, OneToken
  <2>4. \A u \in Threads \ {s} : pc[u] # "handshake"
    BY <2>2 DEF CondInv, Mutexes, Signalling
  <2>5. /\ s # t /\ state[t] = "waiting" /\ state'[t] = "woken"
        /\ state[s] \in {"signal", "signalall"}
        /\ state'[s] = IF state[s] = "signal" THEN "signalled" ELSE state[s]
        /\ \A u \in Threads \ {s, t} : state'[u] = state[u]
    BY <1>2, <2>1, <2>2, <2>3, <2>4 DEF View
  <2>6. state' = [state EXCEPT ![t] = "woken", ![s] = IF @ = "signal" THEN "signalled" ELSE @]
    BY <2>5, Total
  <2>7. Contract!Wakeup(s, t)
    BY <2>1, <2>5, <2>6 DEF Contract!Wakeup
  <2> QED
    BY <2>7 DEF Contract!Next
<1>9. CASE WaitRelease(t)
  <2>1. pc[t] = "release" /\ UNCHANGED <<mu_, sem1_>> /\ Goes(t, "relock") /\ pc'[t] = "relock"
    BY <1>1, <1>9 DEF WaitRelease, Goes
  <2>2. state'[t] = state[t]
    BY <1>2, <2>1 DEF View
  <2> QED
    BY <1>3, <2>1, <2>2, Stuttered
<1>10. CASE Enter(t)
  <2>1. pc[t] = "in" /\ UNCHANGED <<mu_, sem1_>>
    BY <1>10 DEF Enter
  <2>2. PICK w \in {"signal", "signalall"} : Goes(t, w) /\ pc'[t] = w
    BY <1>1, <1>10 DEF Enter, Goes
  <2>3. state[t] = "in" /\ state'[t] = w
    BY <1>2, <2>1, <2>2, ZenonT(30) DEF View
  <2>4. Contract!Goes(t, w)
    BY <1>3, <2>1, <2>2, <2>3, Moved, ZenonT(30)
  <2>5. Contract!Call(t)
    BY <2>1, <2>3, <2>4 DEF Contract!Call
  <2> QED
    BY <2>5 DEF Contract!Next
<1>11. waiting_ = Asleep /\ waiting_ = 0 => Contract!Waiting = {}
  <2>1. Contract!Waiting \subseteq Sleepers
    <3>1. \A u \in Threads : state[u] = "waiting" => pc[u] = "sem1"
      BY <1>1, <1>2 DEF View, Positions
    <3> QED
      BY <3>1 DEF Contract!Waiting, Sleepers
  <2>2. IsFiniteSet(Sleepers)
    BY FS_Subset DEF Sleepers
  <2> QED
    BY <2>1, <2>2, FS_EmptySet, ZenonT(30) DEF Asleep
<1>12. CASE SignalStep(t)
  <2>1. /\ mu_' = mu_ /\ pc[t] \in Signalling /\ \E w \in {"in"} \cup Signalling : Goes(t, w) /\ pc'[t] = w
        /\ pc[t] = "handshake" => pc'[t] = "in"
    BY <1>1, <1>12 DEF SignalStep, Signal, SignalSem2, SignalAllFor, SignalAllDrain, SignalAllSem2,
                       Signalling, Goes
  <2>2. \A u \in Threads \ {t} : state'[u] = state[u]
    BY <1>3, <2>1, ZenonT(30) DEF Signalling
  <2>3. CASE pc'[t] = "in"
    <3>1. state'[t] = "in"
      BY <1>2, <2>3 DEF View
    <3>2. state[t] = "signalled" \/ (state[t] \in {"signal", "signalall"} /\ Contract!Waiting = {})
      <4>1. CASE Signal(t)
        <5>1. pc[t] = "signal" /\ waiting_ = 0
          BY <1>1, <2>3, <4>1 DEF Signal, Goes
        <5> QED
          BY <1>1, <1>2, <1>11, <5>1 DEF Counted, Account, View
      <4>2. CASE SignalSem2(t)
        <5>1. pc[t] = "handshake" /\ sem2_ > 0
          BY <4>2 DEF SignalSem2
        <5>2. sem1_ = 0
          BY <1>1, <5>1 DEF Counted, Account, OneToken
        <5> QED
          BY <1>2, <5>1, <5>2 DEF View
      <4>3. CASE SignalAllFor(t)
        <5>1. pc[t] = "signalall" /\ ~(i < waiting_)
          BY <1>1, <2>3, <4>3 DEF SignalAllFor, Goes, More
        <5>2. waiting_ = Asleep /\ waiting_ = 0
          BY <1>1, <5>1 DEF Counted, Account
        <5> QED
          BY <1>2, <1>11, <5>1, <5>2 DEF View
      <4>4. CASE SignalAllDrain(t) \/ SignalAllSem2(t)
        BY <1>1, <2>3, <4>4, ZenonT(30) DEF SignalAllDrain, SignalAllSem2, Goes
      <4> QED
        BY <1>12, <4>1, <4>2, <4>3, <4>4 DEF SignalStep
    <3>3. Contract!Return(t)
      BY <2>1, <2>2, <3>1, <3>2, Moved, ZenonT(30) DEF Contract!Return
    <3> QED
      BY <3>3 DEF Contract!Next
  <2>4. CASE pc'[t] # "in"
    <3>1. \/ pc[t] = "signal" /\ pc'[t] = "handshake" /\ sem1_' = sem1_ + 1
          \/ {pc[t], pc'[t]} \subseteq {"signalall", "drain", "drain_sem2"}
      BY <1>1, <1>12, <2>4 DEF SignalStep, Signal, SignalSem2, SignalAllFor, SignalAllDrain,
                               SignalAllSem2, Goes
    <3>2. state'[t] = state[t]
      BY <1>1, <1>2, <3>1 DEF View
    <3> QED
      BY <2>1, <2>2, <3>2, Stuttered, ZenonT(30)
  <2> QED
    BY <2>3, <2>4
<1> QED
  BY <1>4, <1>5, <1>6, <1>7, <1>8, <1>9, <1>10, <1>12 DEF WaitStep

LEMMA CondInvariance == CondSpec => []CondInv
<1> USE CondAssumption
<1>1. CondInit => CondInv
  BY CondFirst
<1>2. CondInv /\ [CondNext]_condVars => CondInv'
  <2> SUFFICES ASSUME CondInv, [CondNext]_condVars
               PROVE  CondInv'
    OBVIOUS
  <2>1. CASE CondNext
    BY <2>1, CondStep DEF CondNext
  <2>2. CASE UNCHANGED condVars
    BY <2>2, ZenonT(30) DEF condVars, CondInv, TypeOK, Mutexes, Counted, Account, NoToken, OneToken, Asleep,
                Sleepers, Releasing
  <2> QED
    BY <2>1, <2>2
<1> QED
  BY <1>1, <1>2, PTL DEF CondSpec

(* Between signals the semaphores are empty and waiting_ counts the threads *)
(* blocked in CondVar::Wait, however many threads wait and signal.          *)
THEOREM Balanced == CondSpec => []Handshake
<1>1. CondInv => Handshake
  BY DEF CondInv, Counted, NoToken, Asleep, Handshake
<1> QED
  BY <1>1, CondInvariance, PTL

(* The semaphores of port_chromium.cc implement the condition variable of   *)
(* port_example.h: a Wait returns only when a signal picked it, a Signal    *)
(* returns once it woke a waiter or found none, a SignalAll when none is    *)
(* left.                                                                    *)
THEOREM Refines == CondSpec => ImplementsContract
<1> USE CondAssumption
<1>1. CondInit => Contract!Init
  <2> SUFFICES ASSUME CondInit
               PROVE  Contract!Init
    OBVIOUS
  <2>1. \A u \in Threads : state[u] = "out"
    BY Viewed DEF CondInit, View
  <2>2. state = [u \in Threads |-> "out"]
    BY <2>1, Total
  <2> QED
    BY <2>2 DEF CondInit, Contract!Init
<1>2. CondInv /\ [CondNext]_condVars => [Contract!Next]_<<mu_, state>>
  <2> SUFFICES ASSUME CondInv, [CondNext]_condVars
               PROVE  Contract!Next \/ UNCHANGED <<mu_, state>>
    OBVIOUS
  <2>1. CASE CondNext
    BY <2>1, ContractStep DEF CondNext
  <2>2. CASE UNCHANGED condVars
    <3>1. \A u \in Threads : state'[u] = state[u]
      BY <2>2, Viewed DEF condVars, View
    <3> QED
      BY <2>2, <3>1, Stuttered DEF condVars
  <2> QED
    BY <2>1, <2>2
<1> QED
  BY <1>1, <1>2, CondInvariance, PTL DEF CondSpec, ImplementsContract, Contract!Spec

-----------------------------------------------------------------------------
(* The pieces of an arena.                                                   *)

(* The sizes that the constants of arena.cc and its assertions allow.        *)
ArenaSizes == kBlockSize \in Nat /\ align \in Nat \ {0} /\ Sizes \subseteq Nat \ {0}

(* Inside its block, and aligned if that was asked for.                      *)
Fits(p, b) ==
  /\ p.block \in DOMAIN b /\ p.at \in Nat /\ p.size \in Nat /\ p.at + p.size <= b[p.block]
  /\ p.aligned => p.at % align = 0
Aside(p, q) == p.block = q.block => p.at + p.size <= q.at \/ q.at + q.size <= p.at

(* The inductive invariant: alloc_ptr_ is behind every piece of its block,   *)
(* and what remains there is in it.                                          *)
ArenaInv ==
  /\ blocks_ \in Seq(Nat) /\ alloc_bytes_remaining_ \in Nat /\ alloc_ptr_ \in Nat \X Nat
  /\ \A p \in pieces : Fits(p, blocks_)
  /\ \A p, q \in pieces : p # q => Aside(p, q)
  /\ alloc_bytes_remaining_ > 0 =>
       /\ alloc_ptr_[1] \in DOMAIN blocks_
       /\ alloc_ptr_[2] + alloc_bytes_remaining_ <= blocks_[alloc_ptr_[1]]
  /\ \A p \in pieces : p.block = alloc_ptr_[1] => p.at + p.size <= alloc_ptr_[2]
  /\ alloc_ptr_[1] <= Len(blocks_)

LEMMA SlopAligns ==
  ASSUME ArenaSizes, NEW ptr \in Nat \X Nat
  PROVE  Slop(ptr) \in Nat /\ (ptr[2] + Slop(ptr)) % align = 0
<1> DEFINE o == ptr[2]
           m == o % align
           d == o \div align
<1>1. align \in Nat \ {0} /\ o \in Nat
  BY DEF ArenaSizes
<1>2. m \in 0 .. align - 1 /\ d \in Nat /\ o = align * d + m
  <2>1. \A x \in Nat : x % align \in 0 .. align - 1
    BY <1>1
  <2>2. \A x \in Nat : x \div align \in Nat
    BY <1>1
  <2>3. \A x \in Nat : x = align * (x \div align) + (x % align)
    BY <1>1
  <2> QED
    BY <1>1, <2>1, <2>2, <2>3, Zenon
<1>3. CASE m = 0
  BY <1>1, <1>3 DEF Slop
<1>4. CASE m # 0
  <2>1. Slop(ptr) = align - m
    BY <1>4 DEF Slop
  <2> HIDE DEF o, m, d
  <2>2. o + (align - m) = align * (d + 1)
    BY <1>1, <1>2
  <2>3. (align * (d + 1)) % align = 0
    BY <1>1, <1>2
  <2>4. Slop(ptr) \in Nat /\ (o + Slop(ptr)) % align = 0
    BY <1>1, <1>2, <2>1, <2>2, <2>3
  <2> QED
    BY <2>4 DEF o
<1> QED
  BY <1>3, <1>4

(* A piece from the current block.                                           *)
LEMMA TakeStep ==
  ASSUME ArenaSizes, ArenaInv, NEW slop \in Nat, NEW bytes \in Nat \ {0}, NEW aligned \in BOOLEAN,
         slop + bytes <= alloc_bytes_remaining_, aligned => (alloc_ptr_[2] + slop) % align = 0,
         TakePiece(slop, bytes, aligned)
  PROVE  ArenaInv'
<1> DEFINE o == alloc_ptr_[2]
           b == alloc_ptr_[1]
           p == Piece(Advance(alloc_ptr_, slop), bytes, aligned)
<1>1. /\ o \in Nat /\ b \in Nat /\ alloc_bytes_remaining_ \in Nat /\ alloc_bytes_remaining_ > 0
      /\ alloc_ptr_ = <<b, o>> /\ blocks_ \in Seq(Nat)
  BY DEF ArenaInv
<1>2. b \in DOMAIN blocks_ /\ o + alloc_bytes_remaining_ <= blocks_[b] /\ blocks_[b] \in Nat /\ b <= Len(blocks_)
  BY <1>1 DEF ArenaInv
<1>3. p.block = b /\ p.at = o + slop /\ p.size = bytes /\ p.aligned = aligned
  BY DEF Piece, Advance
<1>4. /\ alloc_ptr_' = <<b, o + (slop + bytes)>> /\ blocks_' = blocks_ /\ pieces' = pieces \cup {p}
      /\ alloc_bytes_remaining_' = alloc_bytes_remaining_ - (slop + bytes)
  BY DEF TakePiece, Advance
<1> HIDE DEF o, b, p
<1>5. Fits(p, blocks_)
  <2>1. p.aligned => p.at % align = 0
    BY <1>3 DEF o
  <2> QED
    BY <1>1, <1>2, <1>3, <2>1 DEF Fits
<1>6. ASSUME NEW q \in pieces PROVE Aside(p, q) /\ Aside(q, p) /\ (q.block = b => q.at + q.size <= o)
  <2>1. q.block = b => q.at + q.size <= o
    BY DEF ArenaInv, o, b
  <2>2. q.at \in Nat /\ q.size \in Nat
    BY DEF ArenaInv, Fits
  <2> QED
    BY <1>1, <1>3, <2>1, <2>2, SMTT(30) DEF Aside
<1>7. \A q \in pieces' : Fits(q, blocks_')
  BY <1>4, <1>5 DEF ArenaInv
<1>8. \A x, y \in pieces' : x # y => Aside(x, y)
  BY <1>4, <1>6 DEF ArenaInv
<1>9. \A q \in pieces' : q.block = alloc_ptr_'[1] => q.at + q.size <= alloc_ptr_'[2]
  <2>1. alloc_ptr_'[1] = b /\ alloc_ptr_'[2] = o + (slop + bytes)
    BY <1>4
  <2>2. \A q \in pieces : q.at \in Nat /\ q.size \in Nat
    BY DEF ArenaInv, Fits
  <2> QED
    BY <1>1, <1>3, <1>4, <1>6, <2>1, <2>2
<1>10. /\ blocks_' \in Seq(Nat) /\ alloc_bytes_remaining_' \in Nat /\ alloc_ptr_' \in Nat \X Nat
       /\ alloc_ptr_'[1] <= Len(blocks_')
       /\ alloc_bytes_remaining_' > 0 =>
            /\ alloc_ptr_'[1] \in DOMAIN blocks_'
            /\ alloc_ptr_'[2] + alloc_bytes_remaining_' <= blocks_'[alloc_ptr_'[1]]
  BY <1>1, <1>2, <1>4
<1> QED
  BY <1>7, <1>8, <1>9, <1>10, Zenon DEF ArenaInv

(* A piece from a block of its own, or the first one of a new block.         *)
LEMMA FallbackStep ==
  ASSUME ArenaSizes, ArenaInv, NEW bytes \in Nat \ {0}, NEW aligned \in BOOLEAN,
         AllocateFallback(bytes, aligned)
  PROVE  ArenaInv'
<1> DEFINE n == Len(blocks_) + 1
           p == Piece(<<n, 0>>, bytes, aligned)
<1>1. /\ kBlockSize \in Nat /\ blocks_ \in Seq(Nat) /\ n \in Nat /\ alloc_bytes_remaining_ \in Nat
      /\ alloc_ptr_ \in Nat \X Nat /\ alloc_ptr_[1] < n
  BY DEF ArenaInv, ArenaSizes
<1>2. p.block = n /\ p.at = 0 /\ p.size = bytes /\ p.aligned = aligned
  BY DEF Piece
<1>3. PICK size \in Nat : blocks_' = Append(blocks_, size) /\ bytes <= size
  BY <1>1 DEF AllocateFallback
<1>4. pieces' = pieces \cup {p}
  BY DEF AllocateFallback
<1>5. /\ blocks_' \in Seq(Nat) /\ Len(blocks_') = n /\ DOMAIN blocks_' = 1 .. n /\ DOMAIN blocks_ = 1 .. n - 1
      /\ blocks_'[n] = size /\ \A k \in DOMAIN blocks_ : k \in DOMAIN blocks_' /\ blocks_'[k] = blocks_[k]
  BY <1>1, <1>3
<1>6. n \in DOMAIN blocks_' /\ n \notin DOMAIN blocks_
  BY <1>1, <1>5
<1>7. 0 % align = 0
  BY DEF ArenaSizes
<1> HIDE DEF n, p
<1>8. \A q \in pieces : Fits(q, blocks_') /\ q.block # n
  BY <1>5, <1>6, ZenonT(30) DEF ArenaInv, Fits
<1>9. Fits(p, blocks_')
  BY <1>2, <1>3, <1>5, <1>6, <1>7 DEF Fits
<1>10. \A q \in pieces' : Fits(q, blocks_')
  BY <1>4, <1>8, <1>9, Zenon
<1>11. \A x, y \in pieces' : x # y => Aside(x, y)
  <2>1. \A q \in pieces : Aside(p, q) /\ Aside(q, p)
    BY <1>2, <1>8 DEF Aside
  <2> QED
    BY <1>4, <2>1 DEF ArenaInv
<1>12. CASE UNCHANGED <<alloc_ptr_, alloc_bytes_remaining_>>
  <2>1. \A q \in pieces' : q.block = alloc_ptr_'[1] => q.at + q.size <= alloc_ptr_'[2]
    BY <1>1, <1>2, <1>4, <1>12 DEF ArenaInv
  <2>2. /\ alloc_bytes_remaining_' \in Nat /\ alloc_ptr_' \in Nat \X Nat /\ alloc_ptr_'[1] <= Len(blocks_')
        /\ alloc_bytes_remaining_' > 0 =>
             /\ alloc_ptr_'[1] \in DOMAIN blocks_'
             /\ alloc_ptr_'[2] + alloc_bytes_remaining_' <= blocks_'[alloc_ptr_'[1]]
    BY <1>1, <1>5, <1>12 DEF ArenaInv
  <2> QED
    BY <1>5, <1>10, <1>11, <2>1, <2>2 DEF ArenaInv
<1>13. CASE /\ blocks_' = Append(blocks_, kBlockSize) /\ alloc_ptr_' = <<n, bytes>> /\ bytes <= kBlockSize
            /\ alloc_bytes_remaining_' = kBlockSize - bytes
  <2>1. alloc_ptr_'[1] = n /\ alloc_ptr_'[2] = bytes /\ size = kBlockSize
    BY <1>1, <1>3, <1>5, <1>13 DEF n
  <2>2. \A q \in pieces' : q.block = alloc_ptr_'[1] => q.at + q.size <= alloc_ptr_'[2]
    BY <1>2, <1>4, <1>8, <2>1
  <2>3. /\ alloc_bytes_remaining_' \in Nat /\ alloc_ptr_' \in Nat \X Nat /\ alloc_ptr_'[1] <= Len(blocks_')
        /\ alloc_ptr_'[1] \in DOMAIN blocks_' /\ alloc_ptr_'[2] + alloc_bytes_remaining_' <= blocks_'[alloc_ptr_'[1]]
    BY <1>1, <1>5, <1>6, <1>13, <2>1
  <2> QED
    BY <1>5, <1>10, <1>11, <2>2, <2>3, ZenonT(30) DEF ArenaInv
<1> QED
  BY <1>1, <1>12, <1>13 DEF AllocateFallback, n

(* Arena gives no byte to two callers: every piece lies in a block, aligned  *)
(* if it is for AllocateAligned, and no two overlap, whatever the sizes      *)
(* asked for (Allocate, AllocateAligned, AllocateFallback).                  *)
THEOREM PiecesApart ==
  ASSUME ArenaSizes
  PROVE  ArenaSpec => [](PiecesDisjoint /\ PiecesAligned)
<1>1. ArenaInit => ArenaInv
  BY DEF ArenaInit, ArenaInv
<1>2. ArenaInv /\ [ArenaNext]_arenaVars => ArenaInv'
  <2> SUFFICES ASSUME ArenaInv, [ArenaNext]_arenaVars PROVE ArenaInv'
    OBVIOUS
  <2>1. CASE UNCHANGED arenaVars
    BY <2>1 DEF ArenaInv, arenaVars
  <2>2. ASSUME NEW bytes \in Sizes, Allocate(bytes) PROVE ArenaInv'
    <3>1. bytes \in Nat \ {0}
      BY DEF ArenaSizes
    <3>2. CASE bytes <= alloc_bytes_remaining_
      <4>1. TakePiece(0, bytes, FALSE) /\ 0 + bytes <= alloc_bytes_remaining_
        <5>1. TakePiece(0, bytes, FALSE)
          BY <2>2, <3>2, Zenon DEF Allocate
        <5>2. 0 + bytes <= alloc_bytes_remaining_
          BY <3>1, <3>2
        <5> QED
          BY <5>1, <5>2, Zenon
      <4> QED
        BY <3>1, <4>1, TakeStep, Zenon
    <3>3. CASE ~(bytes <= alloc_bytes_remaining_)
      BY <2>2, <3>1, <3>3, FallbackStep, Zenon DEF Allocate
    <3> QED
      BY <3>2, <3>3, Zenon
  <2>3. ASSUME NEW bytes \in Sizes, AllocateAligned(bytes) PROVE ArenaInv'
    <3>1. bytes \in Nat \ {0} /\ alloc_ptr_ \in Nat \X Nat
      BY DEF ArenaSizes, ArenaInv
    <3>2. Slop(alloc_ptr_) \in Nat /\ (alloc_ptr_[2] + Slop(alloc_ptr_)) % align = 0
      BY <3>1, SlopAligns
    <3>3. CASE bytes + Slop(alloc_ptr_) <= alloc_bytes_remaining_
      <4>1. TakePiece(Slop(alloc_ptr_), bytes, TRUE) /\ Slop(alloc_ptr_) + bytes <= alloc_bytes_remaining_
        <5>1. TakePiece(Slop(alloc_ptr_), bytes, TRUE)
          BY <2>3, <3>3, Zenon DEF AllocateAligned
        <5>2. Slop(alloc_ptr_) + bytes <= alloc_bytes_remaining_
          BY <3>1, <3>2, <3>3
        <5> QED
          BY <5>1, <5>2, Zenon
      <4> QED
        BY <3>1, <3>2, <4>1, TakeStep, Zenon
    <3>4. CASE ~(bytes + Slop(alloc_ptr_) <= alloc_bytes_remaining_)
      BY <2>3, <3>1, <3>4, FallbackStep, Zenon DEF AllocateAligned
    <3> QED
      BY <3>3, <3>4, Zenon
  <2> QED
    BY <2>1, <2>2, <2>3 DEF ArenaNext
<1>3. ArenaInv => PiecesDisjoint /\ PiecesAligned
  BY DEF ArenaInv, Fits, Aside, PiecesDisjoint, PiecesAligned
<1> QED
  BY <1>1, <1>2, <1>3, PTL DEF ArenaSpec

-----------------------------------------------------------------------------
(* The background thread.                                                    *)

(* The inductive invariant: types, and that BGThread is there once something *)
(* was scheduled, without which the first signal could be lost.             *)
ThreadInv ==
  /\ queue_ \in Seq(Nat) /\ ran \in Seq(Nat) /\ function \in Nat /\ scheduled \in Nat
  /\ started_bgthread_ \in BOOLEAN /\ bg \in {"none", "loop", "waiting", "woken", "run"}
  /\ started_bgthread_ = TRUE <=> bg # "none"
  /\ NoSleepOverWork

LEMMA ThreadInvInit == Init => ThreadInv
<1> SUFFICES ASSUME Init PROVE ThreadInv
  OBVIOUS
<1>1. queue_ \in Seq(Nat) /\ ran \in Seq(Nat) /\ function \in Nat /\ scheduled \in Nat
  BY DEF Init
<1> QED
  BY <1>1, Zenon DEF Init, ThreadInv, NoSleepOverWork

LEMMA ThreadInvStep == ThreadInv /\ [Next]_vars => ThreadInv'
<1> SUFFICES ASSUME ThreadInv, [Next]_vars PROVE ThreadInv'
  OBVIOUS
<1>1. ASSUME queue_' = Append(queue_, scheduled + 1), scheduled' = scheduled + 1,
             started_bgthread_' = TRUE, bg' \in {"loop", "woken", "run"},
             function' \in Nat, ran' \in Seq(Nat)
      PROVE  ThreadInv'
  <2>1. queue_' \in Seq(Nat) /\ scheduled' \in Nat
    BY <1>1 DEF ThreadInv
  <2> QED
    BY <1>1, <2>1 DEF ThreadInv, NoSleepOverWork
<1>2. CASE Schedule
  <2>1. bg' \in {"loop", "woken", "run"}
    BY <1>2 DEF Schedule, Push, Signalled, ThreadInv, NoSleepOverWork
  <2>2. function' \in Nat /\ ran' \in Seq(Nat)
    BY <1>2 DEF Schedule, ThreadInv
  <2> QED
    BY <1>1, <1>2, <2>1, <2>2, Zenon DEF Schedule, Push, PushBack
<1>3. CASE Take
  <2>1. UNCHANGED <<started_bgthread_, scheduled, ran>>
    BY <1>3, Zenon DEF Take
  <2>2. CASE queue_ = <<>>
    BY <1>3, <2>1, <2>2 DEF Take, ThreadInv, NoSleepOverWork
  <2>3. CASE queue_ # <<>>
    <3>1. bg' = "run" /\ function' = Head(queue_) /\ queue_' = Tail(queue_)
      BY <1>3, <2>3, Zenon DEF Take
    <3>2. Head(queue_) \in Nat /\ Tail(queue_) \in Seq(Nat)
      BY <2>3 DEF ThreadInv
    <3> QED
      BY <2>1, <3>1, <3>2 DEF ThreadInv, NoSleepOverWork
  <2> QED
    BY <2>2, <2>3
<1>4. CASE Run
  <2>1. bg = "run" /\ ran' \in Seq(Nat) /\ function' \in Nat
    BY <1>4 DEF Run, ThreadInv
  <2>2. CASE bg' = "loop" /\ UNCHANGED <<queue_, started_bgthread_, scheduled>>
    BY <2>1, <2>2 DEF ThreadInv, NoSleepOverWork
  <2>3. CASE Push("loop")
    <3>1. bg' \in {"loop", "woken", "run"}
      BY <2>3 DEF Push, Signalled
    <3> QED
      BY <1>1, <2>1, <2>3, <3>1, Zenon DEF Push, PushBack
  <2> QED
    BY <1>4, <2>2, <2>3 DEF Run
<1>5. CASE UNCHANGED vars
  BY <1>5 DEF vars, ThreadInv, NoSleepOverWork
<1> QED
  BY <1>2, <1>3, <1>4, <1>5 DEF Next, Quiet

(* BGThread never sleeps while an item is queued, although Schedule signals  *)
(* before it pushes and only on an empty queue.                              *)
THEOREM Awake == Spec => []NoSleepOverWork
<1>1. ThreadInv => NoSleepOverWork
  BY DEF ThreadInv
<1> QED
  BY <1>1, ThreadInvInit, ThreadInvStep, PTL DEF Spec

(* One more item at the end of a sequence of consecutive ones.              *)
FirstItems(k) == [n \in 1 .. k |-> n]
LEMMA OneMore ==
  ASSUME NEW k \in Nat, NEW r \in Seq(Nat), NEW q \in Seq(Nat), r \o q = FirstItems(k)
  PROVE  r \o Append(q, k + 1) = FirstItems(k + 1)
<1>1. r \o Append(q, k + 1) = Append(r \o q, k + 1)
  BY SMTT(30)
<1>2. Append(FirstItems(k), k + 1) = FirstItems(k + 1)
  BY DEF FirstItems
<1> QED
  BY <1>1, <1>2, ZenonT(30)

LEMMA OrderStep == ThreadInv /\ RunsInOrder /\ [Next]_vars => RunsInOrder'
<1> SUFFICES ASSUME ThreadInv, RunsInOrder, [Next]_vars PROVE RunsInOrder'
  OBVIOUS
<1> DEFINE running == IF bg = "run" THEN <<function>> ELSE <<>>
<1>1. ran \o running \in Seq(Nat) /\ queue_ \in Seq(Nat) /\ scheduled \in Nat
      /\ (ran \o running) \o queue_ = FirstItems(scheduled)
  <2>1. running \in Seq(Nat)
    BY DEF ThreadInv
  <2>2. (ran \o running) \o queue_ = FirstItems(scheduled)
    BY Zenon DEF RunsInOrder, FirstItems
  <2> HIDE DEF running
  <2> QED
    BY <2>1, <2>2 DEF ThreadInv
<1>2. CASE Schedule
  <2>1. queue_' = Append(queue_, scheduled + 1) /\ scheduled' = scheduled + 1 /\ ran' = ran
        /\ function' = function
    BY <1>2 DEF Schedule, Push, PushBack
  <2>2. bg = "run" <=> bg' = "run"
    BY <1>2 DEF Schedule, Push, Signalled, ThreadInv
  <2>3. (ran \o running) \o Append(queue_, scheduled + 1) = FirstItems(scheduled + 1)
    BY <1>1, OneMore, ZenonT(30)
  <2> QED
    BY <2>1, <2>2, <2>3, ZenonT(30) DEF RunsInOrder, FirstItems
<1>3. CASE Take
  <2>1. CASE queue_ = <<>>
    BY <1>3, <2>1, ZenonT(30) DEF Take, RunsInOrder
  <2>2. CASE queue_ # <<>>
    <3>1. bg # "run" /\ bg' = "run" /\ function' = Head(queue_) /\ queue_' = Tail(queue_)
          /\ UNCHANGED <<ran, scheduled>>
      BY <1>3, <2>2 DEF Take
    <3>2. ran \o <<Head(queue_)>> \o Tail(queue_) = ran \o <<>> \o queue_
      BY <2>2 DEF ThreadInv
    <3> QED
      BY <3>1, <3>2, ZenonT(30) DEF RunsInOrder, FirstItems
  <2> QED
    BY <2>1, <2>2
<1>4. CASE Run
  <2>1. bg = "run" /\ bg' # "run" /\ ran' = Append(ran, function)
    BY <1>4 DEF Run, Push, Signalled
  <2>2. ran' \o <<>> = ran \o <<function>> /\ ran' \o <<>> \in Seq(Nat)
    BY <2>1 DEF ThreadInv
  <2>3. (ran' \o <<>>) \o queue_ = FirstItems(scheduled)
    BY <2>1, <2>2, ZenonT(30) DEF RunsInOrder, FirstItems
  <2>4. CASE UNCHANGED <<queue_, scheduled>>
    BY <2>1, <2>3, <2>4 DEF RunsInOrder, FirstItems
  <2>5. CASE Push("loop")
    <3>1. queue_' = Append(queue_, scheduled + 1) /\ scheduled' = scheduled + 1
      BY <2>5 DEF Push, PushBack
    <3>2. (ran' \o <<>>) \o Append(queue_, scheduled + 1) = FirstItems(scheduled + 1)
      BY <1>1, <2>2, <2>3, OneMore, ZenonT(30)
    <3> QED
      BY <2>1, <3>1, <3>2, ZenonT(30) DEF RunsInOrder, FirstItems
  <2> QED
    BY <1>4, <2>4, <2>5 DEF Run
<1>5. CASE UNCHANGED vars
  BY <1>5, ZenonT(30) DEF vars, RunsInOrder
<1> QED
  BY <1>2, <1>3, <1>4, <1>5 DEF Next, Quiet

(* What was run, is running and is queued are the items scheduled, each      *)
(* once and in order.                                                        *)
THEOREM InOrder == Spec => []RunsInOrder
<1>1. Init => RunsInOrder
  BY DEF Init, RunsInOrder
<1> QED
  BY <1>1, ThreadInvInit, ThreadInvStep, OrderStep, PTL DEF Spec

-----------------------------------------------------------------------------
(* The slots of MmapLimiter.                                                 *)

(* Who has a slot: from Acquire to the Release that gives it back.          *)
Holders == {t \in Openers : opener[t] \in {"acquired", "mapped", "failed", "unmapped"}}

LimitInv ==
  /\ allowed_ \in Nat
  /\ opener \in [Openers -> {"closed", "acquire", "acquired", "mapped", "failed", "unmapped", "pread"}]
  /\ allowed_ + Cardinality(Holders) = MaxMaps

(* Every slot of the limiter is free or with the thread that maps, has       *)
(* mapped or failed to map a file, and will be given back: however Acquire's *)
(* two looks at allowed_ race, no more files are mapped than the limit      *)
(* (env_posix.cc:95-139) and none is lost.                                  *)
THEOREM Bounded == MapSpec => []MapsBounded
<1> USE LimiterAssumption
<1>1. MapInit => LimitInv
  <2> SUFFICES ASSUME MapInit
               PROVE  LimitInv
    OBVIOUS
  <2>1. Holders = {}
    BY DEF MapInit, Holders
  <2> QED
    BY <2>1, FS_EmptySet DEF MapInit, LimitInv
<1>2. LimitInv /\ [MapNext]_mapVars => LimitInv'
  <2> SUFFICES ASSUME LimitInv, [MapNext]_mapVars
               PROVE  LimitInv'
    OBVIOUS
  <2>1. IsFiniteSet(Holders) /\ Cardinality(Holders) \in Nat
    BY FS_Subset, FS_CardinalityType DEF Holders
  <2>2. ASSUME NEW t \in Openers, FirstLook(t) \/ Map(t) \/ Unmap(t) \/ ClosePread(t)
        PROVE  LimitInv'
    <3>1. Holders' = Holders /\ allowed_' = allowed_
      BY <2>2 DEF LimitInv, Holders, FirstLook, Map, Unmap, ClosePread, Moves
    <3> QED
      BY <2>2, <3>1 DEF LimitInv, FirstLook, Map, Unmap, ClosePread, Moves
  <2>3. ASSUME NEW t \in Openers, Acquire(t)
        PROVE  LimitInv'
    <3>1. CASE Refused
      <4>1. Holders' = Holders /\ allowed_' = allowed_
        BY <2>3, <3>1 DEF LimitInv, Holders, Acquire, Moves
      <4> QED
        BY <2>3, <3>1, <4>1 DEF LimitInv, Acquire, Moves
    <3>2. CASE ~Refused
      <4>1. t \notin Holders /\ Holders' = Holders \cup {t}
        BY <2>3, <3>2 DEF LimitInv, Holders, Acquire, Moves
      <4>2. Cardinality(Holders') = Cardinality(Holders) + 1
        BY <2>1, <4>1, FS_AddElement, ZenonT(30)
      <4> QED
        BY <2>1, <2>3, <3>2, <4>2 DEF LimitInv, Acquire, Moves, Refused
    <3> QED
      BY <3>1, <3>2
  <2>4. ASSUME NEW t \in Openers, MapFailed(t) \/ Release(t)
        PROVE  LimitInv'
    <3>1. t \in Holders /\ Holders' = Holders \ {t}
      BY <2>4 DEF LimitInv, Holders, MapFailed, Release, Moves
    <3>2. Cardinality(Holders') = Cardinality(Holders) - 1
      BY <2>1, <3>1, FS_RemoveElement, ZenonT(30)
    <3> QED
      BY <2>1, <2>4, <3>2 DEF LimitInv, MapFailed, Release, Moves
  <2>5. CASE UNCHANGED mapVars
    BY <2>5 DEF mapVars, LimitInv, Holders
  <2> QED
    BY <2>2, <2>3, <2>4, <2>5 DEF MapNext
<1>3. LimitInv => MapsBounded
  BY DEF LimitInv, MapsBounded, Holders
<1> QED
  BY <1>1, <1>2, <1>3, PTL DEF MapSpec
=============================================================================
