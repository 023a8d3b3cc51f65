-------------------------- MODULE WriteQueueProofs --------------------------
(* The writers_ queue of DBImpl::Write: its inductive invariant, and what    *)
(* the leader's unlocked work on the log and the memtable rests on, for any  *)
(* number of threads, calls and faults.                                      *)
EXTENDS WritePathProofs

(* Seconds for the provers.                                                  *)
USE SMTT(30), ZenonT(30)

(* Where a thread is while its Writer may be in writers_, and where it is   *)
(* only as the head.                                                        *)
Heads == {"delay", "room_wait", "room_woken"} \cup Working
Inside == {"queued", "woken"} \cup Heads

(* Nobody is in the queue twice, and who is in it is in Write with its work *)
(* still to be done; only the head makes room or writes; who joins has not  *)
(* been told that it is done; the group is a stretch of the queue.          *)
QueueInv ==
  /\ \A i, j \in 1 .. Len(writers_) : writers_[i] = writers_[j] => i = j
  /\ \A i \in 1 .. Len(writers_) : pc[writers_[i]] \in Inside /\ ~done[writers_[i]]
  /\ \A t \in Threads : pc[t] \in Heads => writers_ # <<>> /\ writers_[1] = t
  /\ \A t \in Threads : done[t] => pc[t] \notin {"enter", "queued"}
  /\ writers_ # <<>> => pc[writers_[1]] # "queued"
  /\ \A t \in Threads : pc[t] \in Working => group \in 1 .. Len(writers_)

(* What the leader t of a group knows of its own numbers, step by step: they *)
(* are all above last_sequence, the entries up to next are in mem_, and a   *)
(* group with a sync writer in it has a sync leader.                        *)
GroupInv(t) ==
  /\ last_sequence <= upto /\ next \in last_sequence + 1 .. upto + 1
  /\ pc[t] \in {"append", "sync"} => next = last_sequence + 1
  /\ pc[t] = "insert" => next <= upto /\ last_sequence + 1 .. next - 1 \subseteq mem_
  /\ pc[t] = "commit" /\ status[t] = "ok" => GroupRange \subseteq mem_
  /\ pc[t] = "sync" => GroupRange \subseteq log
  /\ call[t].sync /\ (pc[t] = "insert" \/ (pc[t] = "commit" /\ status[t] = "ok"))
       => GroupRange \subseteq durable
  /\ \A j \in 1 .. group : /\ mine[writers_[j]] \subseteq GroupRange
                           /\ call[writers_[j]].sync => call[t].sync

(* The invariant of the data: what was given out is at most last_sequence   *)
(* unless a group is being written, and a follower that was told ok has its *)
(* entries where the leader's are.                                          *)
ImmInv == ~has_imm => imm_ = {}
IdleGroup == (\A t \in Threads : pc[t] \notin Working) => group = 0
Groups == \A t \in Threads : pc[t] \in Working => GroupInv(t)
Followers == \A u \in Threads :
  done[u] /\ pc[u] = "woken" /\ status[u] = "ok"
    => mine[u] \subseteq Store /\ (call[u].sync => mine[u] \subseteq durable)
SyncErrors == \A t \in Threads :
  status[t] = "sync" /\ pc[t] # "commit"
    => bg_error_ # "ok" /\ \A u \in Threads : pc[u] \notin Working
DataInv == /\ ImmInv /\ IdleGroup /\ FreshNumbers /\ Groups /\ Followers /\ SyncErrors
           /\ AckedIsReadable /\ SyncedIsDurable

(* q is the queue with t at its head, t is about to make room or to finish. *)
AtFront(t, q) ==
  /\ q \in Seq(Threads) /\ Len(q) >= 1 /\ q[1] = t /\ ~done[t]
  /\ \A i, j \in 1 .. Len(q) : q[i] = q[j] => i = j
  /\ \A i \in 2 .. Len(q) : pc[q[i]] \in {"queued", "woken"} /\ ~done[q[i]]
  /\ \A u \in Threads \ {t} : pc[u] \notin Heads
  /\ \A u \in Threads \ {t} : done[u] => pc[u] \notin {"enter", "queued"}

(* In a state of QueueInv its head is at the front.                         *)
LEMMA HeadAtFront ==
  ASSUME TypeOK, QueueInv, NEW t \in Threads, writers_ # <<>>, writers_[1] = t
  PROVE  AtFront(t, writers_)
<1>1. writers_ \in Seq(Threads) /\ Len(writers_) >= 1
  BY DEF TypeOK, QueueType
<1>2. ~done[t] /\ \A i, j \in 1 .. Len(writers_) : writers_[i] = writers_[j] => i = j
  BY <1>1 DEF QueueInv
<1>3. \A u \in Threads \ {t} : pc[u] \notin Heads /\ (done[u] => pc[u] \notin {"enter", "queued"})
  BY ZenonT(30) DEF QueueInv
<1>4. ASSUME NEW i \in 2 .. Len(writers_)
      PROVE  pc[writers_[i]] \in {"queued", "woken"} /\ ~done[writers_[i]]
  <2>1. i \in 1 .. Len(writers_) /\ 1 \in 1 .. Len(writers_) /\ i # 1 /\ writers_[i] \in Threads
    BY <1>1
  <2>2. writers_[i] # t
    BY <1>2, <2>1
  <2>3. pc[writers_[i]] \in Inside /\ ~done[writers_[i]] /\ pc[writers_[i]] \notin Heads
    BY <1>3, <2>1, <2>2 DEF QueueInv
  <2> QED
    BY <2>3 DEF Inside
<1> QED
  BY <1>1, <1>2, <1>3, <1>4 DEF AtFront

(* Popping the group and waking it and the new head keeps QueueInv.         *)
LEMMA FinishQueue ==
  ASSUME TypeOK, NEW t \in Threads, NEW q, AtFront(t, q), NEW k \in 1 .. Len(q), NEW s,
         NEW p, p = pc \/ p = SignalAll(pc), Finish(t, q, k, s, p)
  PROVE  QueueInv'
<1>1. q \in Seq(Threads) /\ Len(q) \in Nat /\ k \in Nat /\ k <= Len(q) /\ 1 <= k
  BY DEF AtFront
<1>2. /\ writers_' = SubSeq(q, k + 1, Len(q)) /\ Len(writers_') = Len(q) - k
      /\ \A i \in 1 .. Len(writers_') : i + k \in 2 .. Len(q) /\ writers_'[i] = q[i + k]
  <2>1. writers_' = SubSeq(q, k + 1, Len(q))
    BY DEF Finish
  <2> QED
    BY <1>1, <2>1
<1>3. \A u \in Threads \ {t} : /\ p[u] \notin Heads
                               /\ pc[u] \in {"enter", "queued", "woken"} \/ p[u] \in {"enter", "queued", "woken"}
                                    => p[u] = pc[u]
  BY DEF AtFront, SignalAll, Heads, Working
<1>4. \A u \in Threads \ {t} : pc'[u] = IF u \in Woken(q, k) /\ p[u] = "queued" THEN "woken" ELSE p[u]
  BY ZenonT(30) DEF Finish
<1>5. pc'[t] \in {"idle", "mem_check"}
  BY DEF Finish, ReturnTo
<1>6. \A u \in Threads : done'[u] <=> ((\E i \in 1 .. k : u = q[i]) /\ u # t) \/ done[u]
  BY ZenonT(30) DEF Finish
<1>7. ASSUME NEW i \in 1 .. Len(writers_')
      PROVE  /\ writers_'[i] \in Threads \ {t} /\ ~done'[writers_'[i]]
             /\ pc'[writers_'[i]] \in {"queued", "woken"}
             /\ i = 1 => pc'[writers_'[i]] = "woken"
  <2> DEFINE u == q[i + k]
  <2>1. i + k \in 2 .. Len(q) /\ writers_'[i] = u /\ u \in Threads
    BY <1>1, <1>2
  <2>2. \A j \in 1 .. k : u # q[j]
    <3>1. \A j \in 1 .. k : j \in 1 .. Len(q) /\ i + k \in 1 .. Len(q) /\ j # i + k
      BY <1>1, <2>1
    <3> QED
      BY <3>1 DEF AtFront
  <2>3. u # t /\ pc[u] \in {"queued", "woken"} /\ ~done[u]
    BY <1>1, <2>1, <2>2 DEF AtFront
  <2>4. ~done'[u]
    BY <1>6, <2>1, <2>2, <2>3
  <2>5. p[u] = pc[u]
    BY <1>3, <2>1, <2>3
  <2>6. pc'[u] \in {"queued", "woken"}
    BY <1>4, <2>1, <2>3, <2>5
  <2>7. i = 1 => pc'[u] = "woken"
    <3>1. i = 1 => u \in Woken(q, k)
      BY <1>1, <1>2 DEF Woken
    <3> QED
      BY <1>4, <2>1, <2>3, <2>5, <3>1
  <2> HIDE DEF u
  <2> QED
    BY <2>1, <2>3, <2>4, <2>6, <2>7
<1>8. \A i, j \in 1 .. Len(writers_') : writers_'[i] = writers_'[j] => i = j
  <2> SUFFICES ASSUME NEW i \in 1 .. Len(writers_'), NEW j \in 1 .. Len(writers_'),
                      writers_'[i] = writers_'[j]
               PROVE  i = j
    OBVIOUS
  <2>1. i + k \in 1 .. Len(q) /\ j + k \in 1 .. Len(q) /\ q[i + k] = q[j + k]
    BY <1>1, <1>2
  <2>2. i + k = j + k
    BY <2>1 DEF AtFront
  <2> QED
    BY <1>1, <2>2
<1>9. \A u \in Threads : pc'[u] \notin Heads
  BY <1>3, <1>4, <1>5 DEF Heads, Working
<1>10. ASSUME NEW u \in Threads, done'[u]
       PROVE  pc'[u] \notin {"enter", "queued"}
  <2>1. CASE u = t
    BY <1>5, <2>1
  <2>2. CASE u # t /\ \E i \in 1 .. k : u = q[i]
    <3>1. PICK i \in 1 .. k : u = q[i]
      BY <2>2
    <3>2. i \in 2 .. Len(q)
      BY <1>1, <2>2, <3>1 DEF AtFront
    <3>3. pc[u] \in {"queued", "woken"}
      BY <3>1, <3>2 DEF AtFront
    <3>4. u \in Woken(q, k)
      BY <1>1, <3>1 DEF Woken
    <3> QED
      BY <1>3, <1>4, <2>2, <3>3, <3>4
  <2>3. CASE u # t /\ done[u]
    BY <1>3, <1>4, <2>3 DEF AtFront
  <2> QED
    BY <1>6, <1>10, <2>1, <2>2, <2>3
<1>11. writers_' # <<>> => pc'[writers_'[1]] # "queued"
  <2>1. writers_' # <<>> => 1 \in 1 .. Len(writers_')
    BY <1>1, <1>2
  <2> QED
    BY <1>7, <2>1
<1>12. \A i \in 1 .. Len(writers_') : pc'[writers_'[i]] \in Inside /\ ~done'[writers_'[i]]
  BY <1>7 DEF Inside
<1> QED
  BY <1>8, <1>9, <1>10, <1>11, <1>12 DEF QueueInv, Heads

(* The head takes its next position, with the queue q behind it.            *)
LEMMA MoveQueue ==
  ASSUME TypeOK, NEW t \in Threads, NEW q, AtFront(t, q), NEW w \in Heads,
         writers_' = q, done' = done, pc' = [pc EXCEPT ![t] = w],
         w \in Working => group' \in 1 .. Len(q)
  PROVE  QueueInv'
<1>1. q \in Seq(Threads) /\ Len(q) \in Nat /\ Len(q) >= 1 /\ q # <<>> /\ q[1] = t
  BY DEF AtFront
<1>2. pc'[t] = w /\ \A u \in Threads \ {t} : pc'[u] = pc[u]
  BY DEF TypeOK, ThreadsType
<1>3. \A i \in 1 .. Len(q) : i = 1 \/ i \in 2 .. Len(q)
  BY <1>1
<1>4. ASSUME NEW i \in 1 .. Len(q)
      PROVE  pc'[q[i]] \in Inside /\ ~done'[q[i]]
  <2>1. CASE i = 1
    BY <1>1, <1>2, <2>1 DEF AtFront, Inside
  <2>2. CASE i \in 2 .. Len(q)
    <3>1. q[i] # t /\ q[i] \in Threads
      BY <1>1, <2>2 DEF AtFront
    <3> QED
      BY <1>2, <2>2, <3>1 DEF AtFront, Inside
  <2> QED
    BY <1>3, <2>1, <2>2
<1>5. \A u \in Threads : pc'[u] \in Heads => u = t
  BY <1>2 DEF AtFront
<1>6. \A u \in Threads : done'[u] => pc'[u] \notin {"enter", "queued"}
  BY <1>2 DEF AtFront
<1>7. pc'[q[1]] # "queued"
  BY <1>1, <1>2 DEF Heads, Working
<1>8. \A u \in Threads : pc'[u] \in Working => group' \in 1 .. Len(q)
  BY <1>2, <1>5 DEF Heads
<1>9. \A i, j \in 1 .. Len(writers_') : writers_'[i] = writers_'[j] => i = j
  BY DEF AtFront
<1> QED
  BY <1>1, <1>4, <1>5, <1>6, <1>7, <1>8, <1>9 DEF QueueInv

LEMMA MakeRoomQueue ==
  ASSUME TypeOK, NEW t \in Threads, NEW q, AtFront(t, q), NEW d, MakeRoomForWrite(t, q, d)
  PROVE  QueueInv'
<1>1. 1 \in 1 .. Len(q)
  BY DEF AtFront
<1>2. ASSUME NEW s, Finish(t, q, 1, s, pc)
      PROVE  QueueInv'
  BY <1>1, <1>2, FinishQueue
<1>3. ASSUME NEW w \in {"delay", "room_wait"}, Stay(t, q, w)
      PROVE  QueueInv'
  <2>1. w \in Heads /\ w \notin Working
    BY DEF Heads, Working
  <2>2. writers_' = q /\ done' = done /\ pc' = [pc EXCEPT ![t] = w]
    BY <1>3 DEF Stay
  <2> QED
    BY <2>1, <2>2, MoveQueue, ZenonT(30)
<1>4. ASSUME Proceed(t, q)
      PROVE  QueueInv'
  <2>1. CASE Finish(t, q, 1, "ok", pc)
    BY <1>2, <2>1
  <2>2. CASE ~Finish(t, q, 1, "ok", pc)
    <3>1. /\ writers_' = q /\ done' = done /\ pc' = [pc EXCEPT ![t] = "append"]
          /\ group' \in 1 .. Len(q)
      BY <1>4, <2>2 DEF Proceed
    <3>2. "append" \in Heads
      BY DEF Heads, Working
    <3> QED
      BY <3>1, <3>2, MoveQueue, ZenonT(30)
  <2> QED
    BY <2>1, <2>2
<1>5. \/ Finish(t, q, 1, bg_error_, pc) \/ Stay(t, q, "delay") \/ Proceed(t, q)
      \/ Stay(t, q, "room_wait") \/ Finish(t, q, 1, "newlog", pc)
  BY ZenonT(30) DEF MakeRoomForWrite
<1> QED
  BY <1>2, <1>3, <1>4, <1>5

(* A thread outside the queue moves about outside it.                       *)
LEMMA OutsideQueue ==
  ASSUME TypeOK, QueueInv, NEW t \in Threads, NEW w, pc' = [pc EXCEPT ![t] = w],
         pc[t] \notin Inside \/ done[t], w \notin Inside,
         done' = done \/ done' = [done EXCEPT ![t] = FALSE], w = "enter" => ~done'[t],
         UNCHANGED <<writers_, group>>
  PROVE  QueueInv'
<1>1. pc'[t] = w /\ \A u \in Threads \ {t} : pc'[u] = pc[u] /\ done'[u] = done[u]
  BY DEF TypeOK, ThreadsType, QueueType
<1>2. writers_ \in Seq(Threads)
  BY DEF TypeOK, QueueType
<1>3. \A i \in 1 .. Len(writers_) : writers_[i] \in Threads \ {t}
  BY <1>2 DEF QueueInv
<1>4. w \notin Heads /\ w \notin Working /\ w # "queued"
  BY DEF Heads, Inside
<1>5. writers_ # <<>> => 1 \in 1 .. Len(writers_)
  BY <1>2
<1> QED
  BY <1>1, <1>2, <1>3, <1>4, <1>5 DEF QueueInv

(* bg_cv_.SignalAll() moves nobody into, out of or along the queue.         *)
LEMMA SignalQueue ==
  ASSUME TypeOK, QueueInv, pc' = pc \/ pc' = SignalAll(pc), UNCHANGED <<writers_, done, group>>
  PROVE  QueueInv'
<1>1. \A u \in Threads : /\ pc'[u] \in Inside <=> pc[u] \in Inside
                         /\ pc'[u] \in Heads <=> pc[u] \in Heads
                         /\ pc'[u] \in Working <=> pc[u] \in Working
                         /\ pc'[u] = "queued" <=> pc[u] = "queued"
                         /\ pc'[u] = "enter" <=> pc[u] = "enter"
  BY DEF SignalAll, Inside, Heads, Working
<1>2. writers_ \in Seq(Threads)
  BY DEF TypeOK, QueueType
<1>3. \A i \in 1 .. Len(writers_) : writers_[i] \in Threads
  BY <1>2
<1>4. writers_ # <<>> => 1 \in 1 .. Len(writers_)
  BY <1>2
<1> QED
  BY <1>1, <1>3, <1>4 DEF QueueInv

(* A new writer lines up behind the others.                                 *)
LEMMA JoinQueue ==
  ASSUME TypeOK, QueueInv, NEW t \in Threads, pc[t] = "enter", writers_ # <<>>,
         writers_' = Append(writers_, t), pc' = [pc EXCEPT ![t] = "queued"],
         UNCHANGED <<done, group>>
  PROVE  QueueInv'
<1>1. writers_ \in Seq(Threads) /\ Len(writers_) \in Nat /\ Len(writers_) >= 1
  BY DEF TypeOK, QueueType
<1>2. /\ Len(writers_') = Len(writers_) + 1 /\ writers_' # <<>>
      /\ \A i \in 1 .. Len(writers_) : writers_'[i] = writers_[i]
      /\ writers_'[Len(writers_) + 1] = t
      /\ \A i \in 1 .. Len(writers_') : i \in 1 .. Len(writers_) \/ i = Len(writers_) + 1
  BY <1>1
<1>3. pc'[t] = "queued" /\ \A u \in Threads \ {t} : pc'[u] = pc[u]
  BY DEF TypeOK, ThreadsType
<1>4. "enter" \notin Inside /\ "queued" \in Inside /\ "queued" \notin Heads /\ "queued" \notin Working
  BY DEF Inside, Heads, Working
<1>5. ~done[t]
  BY DEF QueueInv
<1>6. \A i \in 1 .. Len(writers_) : writers_[i] \in Threads \ {t}
  BY <1>1, <1>4 DEF QueueInv
<1>7. 1 \in 1 .. Len(writers_) /\ writers_'[1] = writers_[1]
  BY <1>1, <1>2
<1>8. \A i \in 1 .. Len(writers_') : pc'[writers_'[i]] \in Inside /\ ~done'[writers_'[i]]
  BY <1>2, <1>3, <1>4, <1>5, <1>6 DEF QueueInv
<1>9. \A i, j \in 1 .. Len(writers_') : writers_'[i] = writers_'[j] => i = j
  BY <1>2, <1>6 DEF QueueInv
<1>10. \A u \in Threads : pc'[u] \in Heads => writers_' # <<>> /\ writers_'[1] = u
  BY <1>2, <1>3, <1>4, <1>7 DEF QueueInv
<1>11. \A u \in Threads : done'[u] => pc'[u] \notin {"enter", "queued"}
  BY <1>3, <1>5 DEF QueueInv
<1>12. pc'[writers_'[1]] # "queued"
  BY <1>3, <1>6, <1>7 DEF QueueInv
<1>13. \A u \in Threads : pc'[u] \in Working => group' \in 1 .. Len(writers_')
  BY <1>1, <1>2, <1>3, <1>4 DEF QueueInv
<1> QED
  BY <1>8, <1>9, <1>10, <1>11, <1>12, <1>13 DEF QueueInv

(* A step of Write under mutex_ before its group is built: t lines up, or is *)
(* told that it is done, or makes room at the front of the queue.           *)
LEMMA UnderMutex ==
  ASSUME TypeOK, QueueInv, NEW t \in Threads, Enter(t) \/ Wake(t) \/ RetryRoom(t)
  PROVE  /\ UNCHANGED call /\ pc[t] \notin Working
         /\ \/ /\ pc[t] = "enter" /\ writers_ # <<>> /\ Stay(t, Append(writers_, t), "queued")
               /\ UNCHANGED last_sequence
            \/ /\ pc[t] = "woken" /\ done[t] /\ pc' = [pc EXCEPT ![t] = ReturnTo(t, status[t])]
               /\ Acknowledge(t, status[t])
               /\ UNCHANGED <<queueVars, groupVars, memVars, logVars, verVars, last_sequence,
                              bg_error_, mine>>
            \/ \E q, d : AtFront(t, q) /\ MakeRoomForWrite(t, q, d)
<1>1. writers_ \in Seq(Threads) /\ "enter" \notin Inside /\ "enter" \notin Working
      /\ {"delay", "room_woken"} \subseteq Heads
  BY DEF TypeOK, QueueType, Inside, Heads, Working
<1>2. CASE Enter(t)
  <2>1. CASE NotHead
    BY <1>1, <1>2, <2>1 DEF Enter, NotHead, Working
  <2>2. CASE ~NotHead
    <3> DEFINE q == Append(writers_, t)
    <3>1. q = <<t>> /\ q \in Seq(Threads) /\ Len(q) = 1 /\ q[1] = t /\ writers_ = <<>>
      BY <1>1, <2>2 DEF NotHead
    <3>2. pc[t] = "enter" /\ MakeRoomForWrite(t, q, HasBatch(t)) /\ UNCHANGED call
      BY <1>2, <2>2 DEF Enter
    <3>3. ~done[t] /\ \A u \in Threads : pc[u] \notin Heads
      BY <3>1, <3>2 DEF QueueInv
    <3>4. \A u \in Threads : done[u] => pc[u] \notin {"enter", "queued"}
      BY DEF QueueInv
    <3> HIDE DEF q
    <3>5. AtFront(t, q)
      BY <3>1, <3>3, <3>4 DEF AtFront
    <3> QED
      BY <1>1, <3>2, <3>5, ZenonT(30)
  <2> QED
    BY <2>1, <2>2, ZenonT(30)
<1>3. CASE Wake(t)
  <2>1. CASE done[t]
    BY <1>3, <2>1 DEF Wake, Working
  <2>2. CASE ~done[t]
    <3>1. writers_ # <<>> /\ Head(writers_) = t /\ pc[t] = "woken" /\ UNCHANGED call
          /\ MakeRoomForWrite(t, writers_, HasBatch(t))
      BY <1>3, <2>2, ZenonT(30) DEF Wake
    <3>2. writers_[1] = t
      BY <1>1, <3>1
    <3>3. AtFront(t, writers_)
      BY <3>1, <3>2, HeadAtFront
    <3> QED
      BY <3>1, <3>3, ZenonT(30) DEF Working
  <2> QED
    BY <2>1, <2>2
<1>4. CASE RetryRoom(t)
  <2>1. pc[t] \in {"delay", "room_woken"} /\ UNCHANGED call
        /\ \E d : MakeRoomForWrite(t, writers_, d)
    BY <1>4 DEF RetryRoom
  <2>2. writers_ # <<>> /\ writers_[1] = t
    BY <1>1, <2>1 DEF QueueInv
  <2>3. AtFront(t, writers_)
    BY <2>2, HeadAtFront
  <2> QED
    BY <2>1, <2>3, ZenonT(30) DEF Working
<1> QED
  BY <1>2, <1>3, <1>4

(* What the background thread, readers and the destructor leave alone: the  *)
(* queue and the leader's group, mem_ and the log.                          *)
LEMMA BackgroundEffect ==
  ASSUME TypeOK, BackgroundStep \/ UpdateStats \/ Close \/ CloseWoken \/ Stopped
  PROVE  /\ pc' = pc \/ pc' = SignalAll(pc)
         /\ UNCHANGED <<call, writers_, done, status, groupVars, mem_, log, retired, last_sequence,
                        histVars>>
         /\ durable \subseteq durable'
         /\ bg_error_' = bg_error_ \/ bg_error_' # "ok"
         /\ \/ UNCHANGED <<imm_, has_imm, tables>>
            \/ imm_' = {} /\ has_imm' = FALSE /\ tables' = tables \cup imm_
<1>1. CASE BackgroundCall
  BY <1>1, ZenonT(30) DEF BackgroundCall, bgUnchanged, queueVars, verVars, BackgroundCallEnd
<1>2. CASE BuildTable
  BY <1>2, ZenonT(30) DEF BuildTable, FlushFails, FlushEnd, RecordBackgroundError, bgUnchanged, queueVars,
                   verVars, BackgroundCallEnd
<1>3. CASE ApplyFlush
  <2>1. CASE FlushFails("manifest")
    BY <2>1, ZenonT(30) DEF FlushFails, FlushEnd, RecordBackgroundError, bgUnchanged,
                            queueVars, verVars, BackgroundCallEnd
  <2>2. CASE ~FlushFails("manifest")
    <3>1. /\ imm_' = {} /\ has_imm' = FALSE /\ tables' = tables \cup imm_
          /\ durable' = durable \cup imm_ /\ bg_error_' = bg_error_ /\ FlushEnd
      BY <1>3, <2>2 DEF ApplyFlush
    <3>2. durable \subseteq durable'
      BY <3>1
    <3> QED
      BY <3>1, <3>2, ZenonT(30) DEF FlushEnd, bgUnchanged, queueVars, BackgroundCallEnd
  <2> QED
    BY <2>1, <2>2, ZenonT(30)
<1>4. CASE MergeFlush
  BY <1>4, ZenonT(30) DEF MergeFlush, bgUnchanged, queueVars, verVars
<1>5. CASE MergeDone
  BY <1>5, ZenonT(30) DEF MergeDone, CompactionFails, CompactionEnd, RecordBackgroundError, bgUnchanged,
                   queueVars, verVars, BackgroundCallEnd
<1>6. CASE Install
  BY <1>6, ZenonT(30) DEF Install, CompactionFails, CompactionEnd, RecordBackgroundError, bgUnchanged,
                   queueVars, BackgroundCallEnd
<1>7. CASE UpdateStats
  BY <1>7, ZenonT(30) DEF UpdateStats, threadVars, queueVars, memVars, logVars
<1>8. CASE Close \/ CloseWoken
  BY <1>8, ZenonT(30) DEF Close, CloseWoken, threadVars, queueVars, memVars, logVars, verVars
<1>9. CASE Stopped
  BY <1>9, ZenonT(30) DEF Stopped, vars, threadVars, queueVars, memVars, logVars, verVars
<1> QED
  BY <1>1, <1>2, <1>3, <1>4, <1>5, <1>6, <1>7, <1>8, <1>9, ZenonT(30) DEF BackgroundStep

LEMMA QueueStep ==
  ASSUME TypeOK, QueueInv, [Next]_vars
  PROVE  QueueInv'
<1>1. ASSUME NEW t \in Threads, Invoke(t)
      PROVE  QueueInv'
  <2>1. pc[t] = "idle" /\ "idle" \notin Inside /\ "enter" \notin Inside /\ "range_check" \notin Inside
        /\ UNCHANGED <<writers_, group>>
    BY <1>1 DEF Invoke, Inside, Heads, Working, groupVars
  <2>2. PICK w \in {"enter", "range_check"} : pc' = [pc EXCEPT ![t] = w]
    BY <1>1, ZenonT(30) DEF Invoke
  <2>3. done' = [done EXCEPT ![t] = FALSE] /\ ~done'[t]
    BY <1>1 DEF Invoke, TypeOK, QueueType
  <2> QED
    BY <2>1, <2>2, <2>3, OutsideQueue, ZenonT(30)
<1>2. ASSUME NEW t \in Threads, Enter(t) \/ Wake(t) \/ RetryRoom(t)
      PROVE  QueueInv'
  <2>1. CASE pc[t] = "enter" /\ writers_ # <<>> /\ Stay(t, Append(writers_, t), "queued")
    BY <2>1, JoinQueue, ZenonT(30) DEF Stay, groupVars
  <2>2. CASE pc[t] = "woken" /\ done[t] /\ pc' = [pc EXCEPT ![t] = ReturnTo(t, status[t])]
             /\ UNCHANGED <<queueVars, groupVars>>
    <3>1. ReturnTo(t, status[t]) \in {"idle", "mem_check"} /\ UNCHANGED <<writers_, done, group>>
      BY <2>2 DEF ReturnTo, queueVars, groupVars
    <3>2. "idle" \notin Inside /\ "mem_check" \notin Inside
      BY DEF Inside, Heads, Working
    <3> QED
      BY <2>2, <3>1, <3>2, OutsideQueue, ZenonT(30)
  <2>3. CASE \E q, d : AtFront(t, q) /\ MakeRoomForWrite(t, q, d)
    BY <2>3, MakeRoomQueue
  <2> QED
    BY <1>2, <2>1, <2>2, <2>3, UnderMutex, ZenonT(30)
<1>3. ASSUME NEW t \in Threads, AddRecord(t) \/ SyncLog(t) \/ InsertInto(t)
      PROVE  QueueInv'
  <2>1. pc[t] \in Working /\ UNCHANGED <<writers_, done, group>>
    BY <1>3 DEF AddRecord, SyncLog, InsertInto, AppendUnchanged, Working
  <2>2. PICK w \in Working : pc' = [pc EXCEPT ![t] = w]
    BY <1>3 DEF AddRecord, SyncLog, InsertInto, InsertNext, Working
  <2>3. w \in Heads /\ pc[t] \in Heads
    BY <2>1 DEF Heads
  <2>4. writers_ # <<>> /\ writers_[1] = t /\ group \in 1 .. Len(writers_)
    BY <2>1, <2>3 DEF QueueInv
  <2>5. AtFront(t, writers_)
    BY <2>4, HeadAtFront
  <2> QED
    BY <2>1, <2>2, <2>3, <2>4, <2>5, MoveQueue, ZenonT(30)
<1>4. ASSUME NEW t \in Threads, Commit(t)
      PROVE  QueueInv'
  <2>1. pc[t] \in Working /\ pc[t] \in Heads
    BY <1>4 DEF Commit, Heads, Working
  <2>2. writers_ # <<>> /\ writers_[1] = t /\ group \in 1 .. Len(writers_)
    BY <2>1 DEF QueueInv
  <2>3. AtFront(t, writers_)
    BY <2>2, HeadAtFront
  <2>4. PICK p : (p = pc \/ p = SignalAll(pc)) /\ Finish(t, writers_, group, status[t], p)
    BY <1>4, ZenonT(30) DEF Commit
  <2> QED
    BY <2>2, <2>3, <2>4, FinishQueue
<1>5. ASSUME NEW t \in Threads, AwaitMemTable(t) \/ AwaitRange(t)
      PROVE  QueueInv'
  <2>1. pc[t] \notin Inside /\ UNCHANGED <<writers_, done, group>>
    BY <1>5, ZenonT(30) DEF AwaitMemTable, AwaitRange, Inside, Heads, Working, queueVars, groupVars
  <2>2. PICK w \in {"idle", "mem_wait", "range_wait"} : pc' = [pc EXCEPT ![t] = w]
    BY <1>5, ZenonT(30) DEF AwaitMemTable, AwaitRange
  <2>3. w \notin Inside /\ w # "enter"
    BY DEF Inside, Heads, Working
  <2> QED
    BY <2>1, <2>2, <2>3, OutsideQueue, ZenonT(30)
<1>6. CASE BackgroundStep \/ UpdateStats \/ Close \/ CloseWoken \/ Stopped
  BY <1>6, BackgroundEffect, SignalQueue, ZenonT(30) DEF groupVars
<1>7. CASE UNCHANGED vars
  <2>1. UNCHANGED <<pc, writers_, done, group>>
    BY <1>7 DEF vars, threadVars, queueVars, groupVars
  <2> QED
    BY <2>1, SignalQueue
<1> QED
  BY <1>1, <1>2, <1>3, <1>4, <1>5, <1>6, <1>7 DEF Next, WriterStep

LEMMA QueueInvariance == Spec => []QueueInv
<1>1. Init => QueueInv
  BY DEF Init, QueueInv, Heads, Working
<1>2. TypeOK /\ QueueInv /\ [Next]_vars => QueueInv'
  BY QueueStep
<1> QED
  BY <1>1, <1>2, Types, PTL DEF Spec

(* Every thread that has nobody left to wait for in Write is awake: its      *)
(* signals (db_impl.cc:1222 and 1229) are enough, however many writers queue *)
(* up, whatever groups are formed and whatever fails.                       *)
THEOREM Wakeups == Spec => []NoLostWakeup
<1>1. TypeOK /\ QueueInv => NoLostWakeup
  <2> SUFFICES ASSUME TypeOK, QueueInv
               PROVE  NoLostWakeup
    OBVIOUS
  <2>1. writers_ \in Seq(Threads)
    BY DEF TypeOK, QueueType
  <2>2. writers_ # <<>> => Head(writers_) = writers_[1]
    BY <2>1
  <2> QED
    BY <2>2 DEF QueueInv, NoLostWakeup
<1> QED
  BY <1>1, Types, QueueInvariance, PTL

(* The log and the memtable have one writer at a time, the head of writers_: *)
(* Write may release mutex_ around them (db_impl.cc:1186) with any number of *)
(* threads.                                                                 *)
THEOREM SingleLogger == Spec => []OneLogger
<1>1. TypeOK /\ QueueInv => OneLogger
  <2> SUFFICES ASSUME TypeOK, QueueInv
               PROVE  OneLogger
    OBVIOUS
  <2>1. writers_ \in Seq(Threads)
    BY DEF TypeOK, QueueType
  <2>2. writers_ # <<>> => Head(writers_) = writers_[1]
    BY <2>1
  <2> QED
    BY <2>2 DEF QueueInv, OneLogger, Heads
<1> QED
  BY <1>1, Types, QueueInvariance, PTL

-----------------------------------------------------------------------------
(* The data: sequence numbers, the log, the memtables and the tables.       *)

(* A step that touches neither the data nor the leader.                     *)
Aside ==
  /\ UNCHANGED <<status, groupVars, last_sequence>>
  /\ mem_ \subseteq mem_' /\ log \subseteq log' /\ durable \subseteq durable'
  /\ Store' = Store /\ log' \cup retired' = log \cup retired
  /\ bg_error_' = bg_error_ \/ bg_error_' # "ok"
  /\ \A u \in Threads : /\ pc'[u] \in Working \/ pc[u] \in Working => pc'[u] = pc[u]
                        /\ done'[u] /\ pc'[u] = "woken"
                             => /\ done[u] /\ pc[u] = "woken"
                                /\ mine'[u] = mine[u] /\ call'[u] = call[u]
  /\ \A t \in Threads : pc[t] \in Working => call'[t] = call[t]
  /\ \A j \in 1 .. Len(writers_) : /\ writers_'[j] = writers_[j]
                                   /\ mine'[writers_[j]] = mine[writers_[j]]
                                   /\ call'[writers_[j]] = call[writers_[j]]

LEMMA AsideData ==
  ASSUME TypeOK, QueueInv, IdleGroup, FreshNumbers, Groups, Followers, SyncErrors, Aside
  PROVE  /\ IdleGroup' /\ FreshNumbers' /\ Groups' /\ Followers' /\ SyncErrors'
<1>1. UNCHANGED <<group, upto, next, last_sequence, status>> /\ Store' = Store
  BY ZenonT(30) DEF Aside, groupVars
<1>2. IdleGroup'
  BY <1>1, ZenonT(30) DEF IdleGroup, Aside
<1>3. FreshNumbers'
  <2>1. (log \cup retired \cup Store)' = log \cup retired \cup Store
    BY DEF Aside
  <2> QED
    BY <1>1, <2>1, ZenonT(30) DEF FreshNumbers
<1>4. ASSUME NEW t \in Threads, pc'[t] \in Working
      PROVE  GroupInv(t)'
  <2>1. pc'[t] = pc[t] /\ pc[t] \in Working /\ GroupInv(t) /\ call'[t] = call[t]
    BY <1>4, ZenonT(30) DEF Groups, Aside
  <2>2. \A j \in 1 .. group : j \in 1 .. Len(writers_)
    BY <2>1 DEF QueueInv, TypeOK, QueueType
  <2>3. \A j \in 1 .. group : /\ writers_'[j] = writers_[j] /\ mine'[writers_[j]] = mine[writers_[j]]
                              /\ call'[writers_[j]] = call[writers_[j]]
    BY <2>2, ZenonT(30) DEF Aside
  <2>4. GroupRange' = GroupRange
    BY <1>1 DEF GroupRange
  <2>5. mem_ \subseteq mem_' /\ log \subseteq log' /\ durable \subseteq durable'
    BY ZenonT(30) DEF Aside
  <2> QED
    BY <1>1, <2>1, <2>3, <2>4, <2>5 DEF GroupInv
<1>5. Followers'
  <2> SUFFICES ASSUME NEW u \in Threads, done'[u], pc'[u] = "woken", status'[u] = "ok"
               PROVE  mine'[u] \subseteq Store' /\ (call'[u].sync => mine'[u] \subseteq durable')
    BY ZenonT(30) DEF Followers
  <2>1. done[u] /\ pc[u] = "woken" /\ mine'[u] = mine[u] /\ call'[u] = call[u]
        /\ durable \subseteq durable'
    BY ZenonT(30) DEF Aside
  <2>2. mine[u] \subseteq Store /\ (call[u].sync => mine[u] \subseteq durable)
    BY <1>1, <2>1, ZenonT(30) DEF Followers
  <2> QED
    BY <1>1, <2>1, <2>2
<1>6. SyncErrors'
  <2> SUFFICES ASSUME NEW t \in Threads, status'[t] = "sync", pc'[t] # "commit"
               PROVE  bg_error_' # "ok" /\ \A u \in Threads : pc'[u] \notin Working
    BY DEF SyncErrors
  <2>1. pc[t] # "commit"
    BY DEF Aside, Working
  <2>2. bg_error_ # "ok" /\ \A u \in Threads : pc[u] \notin Working
    BY <1>1, <2>1 DEF SyncErrors
  <2> QED
    BY <2>2, ZenonT(30) DEF Aside
<1> QED
  BY <1>2, <1>3, <1>4, <1>5, <1>6 DEF Groups

(* The head of the queue leads: the second branch of Proceed.               *)
Lead(t, q) ==
  /\ \E k \in 1 .. Len(q) :
       /\ BuildBatchGroup(q, k)
       /\ group' = k
       /\ upto' = last_sequence + Count(q, k)
       /\ mine' = [u \in Threads |-> IF \E j \in 1 .. k : q[j] = u
                                      THEN Numbers(u, q, k) ELSE mine[u]]
  /\ next' = last_sequence + 1
  /\ writers_' = q
  /\ pc' = [pc EXCEPT ![t] = "append"]
  /\ UNCHANGED <<done, status, acked, acked_sync>>

(* Making room moves entries from mem_ to imm_ at most, and imm_ was free.  *)
LEMMA MakeRoomFrame ==
  ASSUME TypeOK, ImmInv, NEW t \in Threads, NEW q, NEW d, MakeRoomForWrite(t, q, d)
  PROVE  /\ ImmInv' /\ Store' = Store /\ log' \cup retired' = log \cup retired
         /\ UNCHANGED <<durable, last_sequence, bg_error_>>
         /\ \/ \E s : /\ Finish(t, q, 1, s, pc) /\ UNCHANGED <<groupVars, mine>>
                      /\ s = "ok" => ~HasBatch(t)
                      /\ s = "sync" => bg_error_ # "ok"
            \/ \E w \in {"delay", "room_wait"} : Stay(t, q, w)
            \/ bg_error_ = "ok" /\ Lead(t, q)
<1>1. UNCHANGED <<durable, last_sequence, bg_error_>>
  BY ZenonT(30) DEF MakeRoomForWrite, Stay, logVars
<1>2. \/ UNCHANGED <<memVars, logVars, tables>>
      \/ /\ ~Full /\ imm_' = mem_ /\ has_imm' = TRUE /\ mem_' = {} /\ UNCHANGED tables
         /\ retired' = retired \cup log /\ log' = {}
  BY ZenonT(30) DEF MakeRoomForWrite, Stay, verVars
<1>3. ImmInv' /\ Store' = Store /\ log' \cup retired' = log \cup retired
  <2>1. CASE UNCHANGED <<memVars, logVars, tables>>
    BY <2>1 DEF memVars, logVars, ImmInv, Store
  <2>2. CASE /\ ~Full /\ imm_' = mem_ /\ has_imm' = TRUE /\ mem_' = {} /\ UNCHANGED tables
             /\ retired' = retired \cup log /\ log' = {}
    <3>1. imm_ = {}
      BY <2>2 DEF Full, ImmInv
    <3>2. Store' = Store
      BY <2>2, <3>1 DEF Store
    <3>3. log' \cup retired' = log \cup retired
      BY <2>2
    <3> QED
      BY <2>2, <3>2, <3>3 DEF ImmInv
  <2> QED
    BY <1>2, <2>1, <2>2, ZenonT(30)
<1>4. Proceed(t, q) => \/ Finish(t, q, 1, "ok", pc) /\ UNCHANGED <<groupVars, mine>> /\ ~HasBatch(t)
                       \/ Lead(t, q)
  BY ZenonT(30) DEF Proceed, Lead
<1>5. \/ Finish(t, q, 1, bg_error_, pc) /\ bg_error_ # "ok" /\ UNCHANGED <<groupVars, mine>>
      \/ Stay(t, q, "delay") \/ (Proceed(t, q) /\ bg_error_ = "ok")
      \/ Stay(t, q, "room_wait")
      \/ Finish(t, q, 1, "newlog", pc) /\ UNCHANGED <<groupVars, mine>>
  BY ZenonT(30) DEF MakeRoomForWrite
<1> QED
  BY <1>1, <1>3, <1>4, <1>5

LEMMA MakeRoomData ==
  ASSUME TypeOK, QueueInv, DataInv, NEW t \in Threads, pc[t] \notin Working, UNCHANGED call,
         NEW q, AtFront(t, q), NEW d, MakeRoomForWrite(t, q, d)
  PROVE  DataInv'
<1>1. /\ ImmInv' /\ Store' = Store /\ log' \cup retired' = log \cup retired
      /\ UNCHANGED <<durable, last_sequence, bg_error_>>
  BY MakeRoomFrame DEF DataInv
<1>2. \A u \in Threads : pc[u] \notin Working
  BY DEF AtFront, Heads
<1>3. group = 0
  BY <1>2 DEF DataInv, IdleGroup
<1>4. \A n \in log \cup retired \cup Store : n <= last_sequence
  BY <1>3 DEF DataInv, FreshNumbers
<1>5. (log \cup retired \cup Store)' = log \cup retired \cup Store
  BY <1>1
<1>6. FreshNumbers'
  BY <1>1, <1>4, <1>5, ZenonT(30) DEF FreshNumbers
<1>7. pc \in [Threads -> Positions] /\ q \in Seq(Threads) /\ Len(q) \in Nat
  BY DEF TypeOK, ThreadsType, AtFront
<1>8. ASSUME NEW s, Finish(t, q, 1, s, pc), UNCHANGED <<groupVars, mine>>,
             s = "ok" => ~HasBatch(t), s = "sync" => bg_error_ # "ok"
      PROVE  DataInv'
  <2>1. /\ \A u \in Threads \ {t} : /\ status'[u] = status[u] /\ (done'[u] <=> done[u])
                                    /\ pc'[u] = pc[u] \/ (pc[u] = "queued" /\ pc'[u] = "woken")
        /\ status'[t] = s /\ pc'[t] \in {"idle", "mem_check"}
    <3>1. \A u \in Threads : (\E i \in 1 .. 1 : u = q[i]) <=> u = t
      BY DEF AtFront
    <3>2. \A u \in Threads \ {t} : status'[u] = status[u] /\ (done'[u] <=> done[u])
      BY <1>8, <3>1, ZenonT(30) DEF Finish
    <3>3. \A u \in Threads \ {t} : pc'[u] = pc[u] \/ (pc[u] = "queued" /\ pc'[u] = "woken")
      BY <1>8 DEF Finish
    <3>4. status'[t] = s /\ pc'[t] \in {"idle", "mem_check"}
      BY <1>8, <3>1 DEF Finish, ReturnTo
    <3> QED
      BY <3>2, <3>3, <3>4, ZenonT(30)
  <2>2. \A u \in Threads : pc'[u] \notin Working
    BY <1>2, <2>1, ZenonT(30) DEF Working
  <2>3. UNCHANGED <<acked, acked_sync, mine, group>>
    BY <1>8, ZenonT(30) DEF Finish, Acknowledge, groupVars
  <2>4. Followers'
    <3> SUFFICES ASSUME NEW u \in Threads, done'[u], pc'[u] = "woken", status'[u] = "ok"
                 PROVE  mine[u] \subseteq Store /\ (call[u].sync => mine[u] \subseteq durable)
      BY <1>1, <2>3 DEF Followers
    <3>1. u # t /\ done[u] /\ status[u] = "ok"
      BY <2>1, ZenonT(30)
    <3>2. pc[u] = "woken"
      BY <2>1, <3>1, ZenonT(30) DEF AtFront
    <3> QED
      BY <3>1, <3>2, ZenonT(30) DEF DataInv, Followers
  <2>5. SyncErrors'
    <3> SUFFICES ASSUME NEW u \in Threads, status'[u] = "sync"
                 PROVE  bg_error_ # "ok"
      BY <1>1, <2>2 DEF SyncErrors
    <3>1. CASE u = t
      BY <1>8, <2>1, <3>1, ZenonT(30)
    <3>2. CASE u # t
      BY <1>2, <2>1, <3>2, ZenonT(30) DEF DataInv, SyncErrors, Working
    <3> QED
      BY <3>1, <3>2
  <2>6. AckedIsReadable' /\ SyncedIsDurable'
    BY <1>1, <2>3 DEF DataInv, AckedIsReadable, SyncedIsDurable
  <2> QED
    BY <1>1, <1>3, <1>6, <2>2, <2>3, <2>4, <2>5, <2>6 DEF DataInv, IdleGroup, Groups
<1>9. ASSUME NEW w \in {"delay", "room_wait"}, Stay(t, q, w)
      PROVE  DataInv'
  <2>1. /\ pc'[t] = w /\ \A u \in Threads \ {t} : pc'[u] = pc[u]
        /\ UNCHANGED <<done, status, group, upto, next, mem_, log, mine, acked, acked_sync>>
    BY <1>7, <1>9 DEF Stay, groupVars, memVars, logVars, histVars
  <2>2. \A u \in Threads : pc'[u] \notin Working
    BY <1>2, <2>1, ZenonT(30) DEF Working
  <2>3. Followers'
    BY <1>1, <2>1, ZenonT(30) DEF DataInv, Followers
  <2>4. SyncErrors'
    BY <1>1, <1>2, <2>1, <2>2, ZenonT(30) DEF DataInv, SyncErrors, Working
  <2>5. AckedIsReadable' /\ SyncedIsDurable'
    BY <1>1, <2>1 DEF DataInv, AckedIsReadable, SyncedIsDurable
  <2> QED
    BY <1>1, <1>3, <1>6, <2>1, <2>2, <2>3, <2>4, <2>5, ZenonT(30) DEF DataInv, IdleGroup, Groups
<1>10. ASSUME bg_error_ = "ok", Lead(t, q)
       PROVE  DataInv'
  <2>1. PICK k \in 1 .. Len(q) :
          /\ BuildBatchGroup(q, k) /\ group' = k /\ upto' = last_sequence + Count(q, k)
          /\ mine' = [u \in Threads |-> IF \E j \in 1 .. k : q[j] = u
                                         THEN Numbers(u, q, k) ELSE mine[u]]
    BY <1>10, ZenonT(30) DEF Lead
  <2>2. /\ pc'[t] = "append" /\ \A u \in Threads \ {t} : pc'[u] = pc[u]
        /\ writers_' = q /\ next' = last_sequence + 1
        /\ UNCHANGED <<done, status, acked, acked_sync>>
    BY <1>7, <1>10, ZenonT(30) DEF Lead
  <2>3. \A u \in Threads : pc'[u] \in Working => u = t
    BY <1>2, <2>2, ZenonT(30)
  <2>4. last_sequence \in Nat /\ Count(q, k) \in Nat
    <3>1. k \in Nat /\ k <= Len(q) /\ call \in [Threads -> CallType]
      BY <1>7 DEF TypeOK, ThreadsType
    <3> QED
      BY <1>7, <3>1, CountType DEF TypeOK, StoreType
  <2>5. GroupRange' = last_sequence + 1 .. last_sequence + Count(q, k)
    BY <1>1, <2>1, ZenonT(30) DEF GroupRange
  <2>6. \A j \in 1 .. k : j \in 1 .. Len(q) /\ q[j] \in Threads /\ (j = 1 \/ j \in 2 .. k)
    BY <1>7
  <2>7. \A j \in 1 .. k : mine'[q[j]] \subseteq GroupRange'
    BY <2>1, <2>5, <2>6, ZenonT(30) DEF Numbers
  <2>8. \A j \in 1 .. k : call[q[j]].sync => call[t].sync
    BY <2>1, <2>6, ZenonT(30) DEF BuildBatchGroup, Joins, AtFront
  <2>9. GroupInv(t)'
    <3>1. last_sequence <= upto' /\ next' \in last_sequence + 1 .. upto' + 1
      BY <2>1, <2>2, <2>4
    <3> QED
      BY <1>1, <2>1, <2>2, <2>7, <2>8, <3>1, ZenonT(30) DEF GroupInv
  <2>10. Followers'
    <3> SUFFICES ASSUME NEW u \in Threads, done[u], pc'[u] = "woken", status[u] = "ok"
                 PROVE  mine'[u] \subseteq Store /\ (call[u].sync => mine'[u] \subseteq durable)
      BY <1>1, <2>2 DEF Followers
    <3>1. pc[u] = "woken" /\ u # t
      BY <2>2, ZenonT(30)
    <3>2. \A j \in 1 .. k : q[j] # u
      <4>1. q[1] = t /\ \A i \in 2 .. Len(q) : ~done[q[i]]
        BY ZenonT(30) DEF AtFront
      <4>2. \A j \in 1 .. k : j = 1 \/ j \in 2 .. Len(q)
        BY <1>7
      <4> QED
        BY <3>1, <4>1, <4>2, ZenonT(30)
    <3>3. mine'[u] = mine[u]
      BY <2>1, <3>2, ZenonT(30)
    <3> QED
      BY <3>1, <3>3, ZenonT(30) DEF DataInv, Followers
  <2>11. SyncErrors'
    BY <1>2, <1>10, <2>2, ZenonT(30) DEF DataInv, SyncErrors, Working
  <2>12. AckedIsReadable' /\ SyncedIsDurable'
    BY <1>1, <2>2, ZenonT(30) DEF DataInv, AckedIsReadable, SyncedIsDurable
  <2>13. IdleGroup' /\ Groups'
    BY <2>2, <2>3, <2>9, ZenonT(30) DEF IdleGroup, Groups, Working
  <2> QED
    BY <1>1, <1>6, <2>10, <2>11, <2>12, <2>13 DEF DataInv
<1> QED
  BY <1>8, <1>9, <1>10, MakeRoomFrame DEF DataInv

(* While the leader works, nobody else does, and no failed sync is known.   *)
LEMMA LeaderAlone ==
  ASSUME TypeOK, QueueInv, DataInv, NEW t \in Threads, pc[t] \in Working
  PROVE  /\ writers_ # <<>> /\ writers_[1] = t /\ group \in 1 .. Len(writers_)
         /\ \A u \in Threads \ {t} : pc[u] \notin Working
         /\ \A u \in Threads : status[u] = "sync" => u = t /\ pc[t] = "commit"
<1>1. \A u \in Threads : pc[u] \in Working => pc[u] \in Heads
  BY DEF Heads
<1>2. writers_ # <<>> /\ writers_[1] = t /\ group \in 1 .. Len(writers_)
  BY <1>1 DEF QueueInv
<1>3. \A u \in Threads \ {t} : pc[u] \notin Working
  BY <1>1, <1>2 DEF QueueInv
<1>4. \A u \in Threads : status[u] = "sync" => pc[u] = "commit"
  BY DEF DataInv, SyncErrors
<1>5. "commit" \in Working
  BY DEF Working
<1> QED
  BY <1>2, <1>3, <1>4, <1>5

LEMMA RangeGrows ==
  ASSUME NEW a \in Nat, NEW b \in Nat, NEW S, a + 1 .. b - 1 \subseteq S
  PROVE  a + 1 .. b \subseteq S \cup {b}
  OBVIOUS

(* The leader's unlocked work: log_->AddRecord, Sync and InsertInto.        *)
LEMMA WorkData ==
  ASSUME TypeOK, QueueInv, DataInv, NEW t \in Threads, AddRecord(t) \/ SyncLog(t) \/ InsertInto(t)
  PROVE  DataInv'
<1>1. /\ pc[t] \in Working
      /\ UNCHANGED <<call, writers_, done, group, upto, retired, tables, imm_, has_imm,
                     last_sequence, bg_error_, mine, acked, acked_sync>>
  BY ZenonT(30) DEF AddRecord, SyncLog, InsertInto, AppendUnchanged, verVars, histVars, Working
<1>2. /\ writers_ # <<>> /\ writers_[1] = t /\ group \in 1 .. Len(writers_)
      /\ \A u \in Threads \ {t} : pc[u] \notin Working
      /\ \A u \in Threads : status[u] = "sync" => u = t /\ pc[t] = "commit"
  BY <1>1, LeaderAlone
<1>3. GroupInv(t) /\ GroupRange' = GroupRange
  BY <1>1 DEF DataInv, Groups, GroupRange
<1>4. /\ pc \in [Threads -> Positions] /\ status \in [Threads -> Statuses] /\ group \in Nat
      /\ upto \in Nat /\ next \in Nat /\ last_sequence \in Nat
      /\ log \subseteq Nat /\ mem_ \subseteq Nat
  BY DEF TypeOK, ThreadsType, QueueType, GroupType, StoreType
<1>5. /\ pc'[t] \in Working /\ \A u \in Threads \ {t} : pc'[u] = pc[u] /\ status'[u] = status[u]
      /\ pc[t] # "commit"
  BY <1>4 DEF AddRecord, SyncLog, InsertInto, InsertNext, Working
<1>6. mem_ \subseteq mem_' /\ log \subseteq log' /\ durable \subseteq durable'
  BY DEF AddRecord, SyncLog, InsertInto
<1>7. Store \subseteq Store'
  BY <1>1, <1>6 DEF Store
<1>8. FreshNumbers'
  <2>1. group > 0
    BY <1>2
  <2>2. \A n \in log' : n \in log \/ n \in GroupRange
    BY ZenonT(30) DEF AddRecord, SyncLog, InsertInto
  <2>3. \A n \in mem_' : n \in mem_ \/ (n = next /\ n <= upto)
    BY <1>3 DEF AddRecord, SyncLog, InsertInto, GroupInv
  <2>4. \A n \in GroupRange : n <= upto
    BY DEF GroupRange
  <2>5. \A n \in log \cup retired \cup mem_ \cup imm_ \cup tables : n <= last_sequence \/ n <= upto
    BY DEF DataInv, FreshNumbers, Store
  <2> QED
    BY <1>1, <2>1, <2>2, <2>3, <2>4, <2>5 DEF FreshNumbers, Store
<1>9. GroupInv(t)'
  <2>1. \A j \in 1 .. group' : /\ mine'[writers_'[j]] \subseteq GroupRange'
                               /\ call'[writers_'[j]].sync => call'[t].sync
    BY <1>1, <1>3, ZenonT(30) DEF GroupInv
  <2>2. last_sequence <= upto /\ next \in last_sequence + 1 .. upto + 1
    BY <1>3, ZenonT(30) DEF GroupInv
  <2>3. CASE AddRecord(t)
    <3>1. pc[t] = "append" /\ next' = next /\ mem_' = mem_ /\ next = last_sequence + 1
      BY <1>3, <2>3, ZenonT(30) DEF AddRecord, GroupInv
    <3>2. \/ pc'[t] = "sync" /\ GroupRange \subseteq log' /\ status'[t] = "ok"
          \/ ~call[t].sync /\ pc'[t] = IF next > upto THEN "commit" ELSE "insert"
          \/ pc'[t] = "commit" /\ status'[t] = "append"
      BY <1>4, <2>3 DEF AddRecord, InsertNext
    <3>3. next > upto => GroupRange \subseteq mem_
      BY <1>4, <3>1 DEF GroupRange
    <3>4. last_sequence + 1 .. next - 1 \subseteq mem_
      BY <1>4, <3>1
    <3>5. ~(next > upto) => next <= upto
      BY <1>4
    <3> QED
      BY <1>1, <1>3, <2>1, <2>2, <3>1, <3>2, <3>3, <3>4, <3>5, ZenonT(30) DEF GroupInv
  <2>4. CASE SyncLog(t)
    <3>1. pc[t] = "sync" /\ next' = next /\ mem_' = mem_ /\ next = last_sequence + 1
          /\ GroupRange \subseteq log
      BY <1>3, <2>4, ZenonT(30) DEF SyncLog, GroupInv
    <3>2. \/ log \subseteq durable' /\ pc'[t] = IF next > upto THEN "commit" ELSE "insert"
          \/ pc'[t] = "commit" /\ status'[t] = "sync"
      BY <1>4, <2>4 DEF SyncLog, InsertNext
    <3>3. next > upto => GroupRange \subseteq mem_
      BY <1>4, <3>1 DEF GroupRange
    <3>4. last_sequence + 1 .. next - 1 \subseteq mem_
      BY <1>4, <3>1
    <3>5. ~(next > upto) => next <= upto
      BY <1>4
    <3> QED
      BY <1>1, <1>3, <2>1, <2>2, <3>1, <3>2, <3>3, <3>4, <3>5, ZenonT(30) DEF GroupInv
  <2>5. CASE InsertInto(t)
    <3>1. /\ pc[t] = "insert" /\ next' = next + 1 /\ mem_' = mem_ \cup {next} /\ status' = status
          /\ durable' = durable /\ pc'[t] = IF next = upto THEN "commit" ELSE "insert"
      BY <1>4, <2>5 DEF InsertInto
    <3>2. next <= upto /\ last_sequence + 1 .. next - 1 \subseteq mem_
          /\ (call[t].sync => GroupRange \subseteq durable)
      BY <1>3, <3>1, ZenonT(30) DEF GroupInv
    <3>3. last_sequence + 1 .. next \subseteq mem_'
      <4>1. mem_' = mem_ \cup {next}
        BY <3>1, ZenonT(30)
      <4> QED
        BY <1>4, <3>2, <4>1, RangeGrows
    <3>4. next = upto => GroupRange \subseteq mem_'
      BY <3>3 DEF GroupRange
    <3>5. next' \in last_sequence + 1 .. upto + 1 /\ next' - 1 = next
          /\ (next # upto => next' <= upto)
      <4>1. next' = next + 1
        BY <3>1, ZenonT(30)
      <4> QED
        BY <1>4, <2>2, <3>2, <4>1
    <3> QED
      BY <1>1, <1>3, <2>1, <2>2, <3>1, <3>2, <3>3, <3>4, <3>5, ZenonT(30) DEF GroupInv
  <2> QED
    BY <2>3, <2>4, <2>5
<1>10. Groups' /\ IdleGroup'
  BY <1>2, <1>5, <1>9, ZenonT(30) DEF Groups, IdleGroup
<1>11. Followers'
  <2>1. \A u \in Threads : pc'[u] = "woken" => u # t /\ pc[u] = "woken" /\ status'[u] = status[u]
    BY <1>5, ZenonT(30) DEF Working
  <2> QED
    BY <1>1, <1>6, <1>7, <2>1, ZenonT(30) DEF DataInv, Followers
<1>12. SyncErrors'
  <2>1. \A u \in Threads \ {t} : status'[u] # "sync"
    BY <1>2, <1>5, ZenonT(30)
  <2>2. status'[t] = "sync" => pc'[t] = "commit"
    BY <1>2, <1>4, <1>5, ZenonT(30) DEF AddRecord, SyncLog, InsertInto
  <2> QED
    BY <2>1, <2>2, ZenonT(30) DEF SyncErrors
<1>13. ImmInv' /\ AckedIsReadable' /\ SyncedIsDurable'
  BY <1>1, <1>6, <1>7 DEF DataInv, ImmInv, AckedIsReadable, SyncedIsDurable
<1> QED
  BY <1>8, <1>10, <1>11, <1>12, <1>13 DEF DataInv

(* The leader hands out what became of the group.                           *)
LEMMA CommitData ==
  ASSUME TypeOK, QueueInv, DataInv, NEW t \in Threads, Commit(t)
  PROVE  DataInv'
<1>1. /\ pc[t] = "commit" /\ pc[t] \in Working
      /\ UNCHANGED <<call, mem_, imm_, has_imm, log, retired, durable, tables, mine>>
      /\ last_sequence' = upto /\ group' = 0
  BY ZenonT(30) DEF Commit, LastSequenceAfter, memVars, logVars, verVars, Working
<1>2. /\ writers_ # <<>> /\ writers_[1] = t /\ group \in 1 .. Len(writers_)
      /\ \A u \in Threads \ {t} : pc[u] \notin Working
      /\ \A u \in Threads : status[u] = "sync" => u = t
  BY <1>1, LeaderAlone
<1>3. GroupInv(t) /\ AtFront(t, writers_)
  BY <1>1, <1>2, HeadAtFront DEF DataInv, Groups
<1>4. /\ group \in Nat /\ 1 <= group /\ upto \in Nat /\ last_sequence \in Nat
      /\ log \subseteq Nat /\ retired \subseteq Nat /\ Store \subseteq Nat
      /\ writers_ \in Seq(Threads) /\ bg_error_ \in Statuses
  BY <1>2 DEF TypeOK, GroupType, StoreType, QueueType, BackgroundType, Store
<1>5. Store' = Store
  BY <1>1 DEF Store
<1>6. FreshNumbers'
  <2>1. \A n \in log \cup retired \cup Store : n <= upto
    BY <1>3, <1>4 DEF DataInv, FreshNumbers, GroupInv
  <2> QED
    BY <1>1, <1>5, <2>1 DEF FreshNumbers
<1>7. PICK p : (p = pc \/ p = SignalAll(pc)) /\ Finish(t, writers_, group, status[t], p)
  BY ZenonT(30) DEF Commit
<1> DEFINE In(u) == \E j \in 1 .. group : u = writers_[j]
<1>8. /\ \A u \in Threads : status'[u] = IF In(u) THEN status[t] ELSE status[u]
      /\ \A u \in Threads : done'[u] => In(u) \/ done[u]
      /\ \A u \in Threads \ {t} : /\ pc'[u] \notin Working
                                  /\ pc'[u] = "woken" => pc[u] \in {"queued", "woken"}
      /\ pc'[t] \in {"idle", "mem_check"}
  <2>1. \A u \in Threads : status'[u] = IF In(u) THEN status[t] ELSE status[u]
    BY <1>7, ZenonT(30) DEF Finish
  <2>2. \A u \in Threads : done'[u] => In(u) \/ done[u]
    BY <1>7, ZenonT(30) DEF Finish
  <2>3. \A u \in Threads \ {t} : pc'[u] = p[u] \/ (p[u] = "queued" /\ pc'[u] = "woken")
    BY <1>7, ZenonT(30) DEF Finish
  <2>4. \A u \in Threads \ {t} : /\ p[u] \notin Working
                                 /\ p[u] \in {"queued", "woken"} => p[u] = pc[u]
    BY <1>2, <1>7 DEF SignalAll, Working
  <2>5. pc'[t] \in {"idle", "mem_check"}
    BY <1>7, ZenonT(30) DEF Finish, ReturnTo
  <2> HIDE DEF In
  <2> QED
    BY <2>1, <2>2, <2>3, <2>4, <2>5, ZenonT(30) DEF Working
<1>9. In(t)
  BY <1>2, <1>4
<1>10. ASSUME NEW u \in Threads, In(u), status[t] = "ok"
       PROVE  mine[u] \subseteq Store /\ (call[u].sync => mine[u] \subseteq durable)
  <2>1. PICK j \in 1 .. group : u = writers_[j]
    BY <1>10
  <2>2. GroupRange \subseteq mem_ /\ (call[t].sync => GroupRange \subseteq durable)
    BY <1>1, <1>3, <1>10 DEF GroupInv
  <2>3. mine[u] \subseteq GroupRange /\ (call[u].sync => call[t].sync)
    BY <1>3, <2>1, ZenonT(30) DEF GroupInv
  <2> QED
    BY <2>2, <2>3 DEF Store
<1> HIDE DEF In
<1>11. \A u \in Threads : pc'[u] \notin Working
  BY <1>8, ZenonT(30) DEF Working
<1>12. Followers'
  <2> SUFFICES ASSUME NEW u \in Threads, done'[u], pc'[u] = "woken", status'[u] = "ok"
               PROVE  mine[u] \subseteq Store /\ (call[u].sync => mine[u] \subseteq durable)
    BY <1>1, <1>5 DEF Followers
  <2>1. CASE In(u)
    BY <1>8, <1>10, <2>1
  <2>2. CASE ~In(u)
    <3>1. u # t /\ done[u] /\ status[u] = "ok"
      BY <1>8, <1>9, <2>2
    <3>2. pc[u] = "woken"
      BY <1>3, <1>8, <3>1 DEF AtFront
    <3> QED
      BY <3>1, <3>2 DEF DataInv, Followers
  <2> QED
    BY <2>1, <2>2, ZenonT(30)
<1>13. SyncErrors'
  <2>1. \A u \in Threads : status'[u] = "sync" => status[t] = "sync"
    BY <1>2, <1>8
  <2>2. status[t] = "sync" => bg_error_' # "ok"
    BY DEF Commit, RecordBackgroundError
  <2> QED
    BY <1>11, <2>1, <2>2 DEF SyncErrors
<1>14. AckedIsReadable' /\ SyncedIsDurable'
  <2>1. /\ acked' \subseteq acked \cup (IF status[t] = "ok" THEN mine[t] ELSE {})
        /\ acked_sync' \subseteq acked_sync \cup
             (IF status[t] = "ok" /\ call[t].sync THEN mine[t] ELSE {})
    BY <1>7, ZenonT(30) DEF Finish, Acknowledge
  <2>2. status[t] = "ok" => mine[t] \subseteq Store /\ (call[t].sync => mine[t] \subseteq durable)
    BY <1>9, <1>10, ZenonT(30)
  <2> QED
    BY <1>1, <1>5, <2>1, <2>2 DEF DataInv, AckedIsReadable, SyncedIsDurable
<1>15. ImmInv' /\ IdleGroup' /\ Groups'
  BY <1>1, <1>11 DEF DataInv, ImmInv, IdleGroup, Groups
<1> QED
  BY <1>6, <1>12, <1>13, <1>14, <1>15 DEF DataInv

LEMMA DataStep ==
  ASSUME TypeOK, QueueInv, DataInv, [Next]_vars
  PROVE  DataInv'
<1> USE DEF DataInv
<1>1. writers_ \in Seq(Threads) /\ pc \in [Threads -> Positions] /\ Len(writers_) \in Nat
      /\ done \in [Threads -> BOOLEAN] /\ call \in [Threads -> CallType]
      /\ mine \in [Threads -> SUBSET Nat]
  BY DEF TypeOK, ThreadsType, QueueType, HistoryType
<1>2. ASSUME UNCHANGED <<acked, acked_sync>>, Store' = Store, durable \subseteq durable'
      PROVE  AckedIsReadable' /\ SyncedIsDurable'
  BY <1>2 DEF AckedIsReadable, SyncedIsDurable
<1>3. ASSUME NEW t \in Threads, Invoke(t)
      PROVE  DataInv'
  <2>1. /\ pc[t] = "idle" /\ pc'[t] \in {"enter", "range_check"} /\ ~done'[t]
        /\ \A u \in Threads \ {t} : /\ pc'[u] = pc[u] /\ done'[u] = done[u]
                                    /\ mine'[u] = mine[u] /\ call'[u] = call[u]
    BY <1>1, <1>3 DEF Invoke
  <2>2. UNCHANGED <<writers_, status, groupVars, mem_, imm_, has_imm, log, retired, durable, tables,
                    last_sequence, bg_error_, acked, acked_sync>>
    BY <1>3, ZenonT(30) DEF Invoke, memVars, logVars, verVars
  <2>3. \A j \in 1 .. Len(writers_) : writers_[j] \in Threads \ {t}
    BY <1>1, <2>1 DEF QueueInv, Inside, Heads, Working
  <2>4. Aside
    BY <2>1, <2>2, <2>3, ZenonT(30) DEF Aside, Working, Store
  <2> QED
    BY <1>2, <2>2, <2>4, AsideData DEF ImmInv, Store
<1>4. ASSUME NEW t \in Threads, Enter(t) \/ Wake(t) \/ RetryRoom(t)
      PROVE  DataInv'
  <2>1. UNCHANGED call /\ pc[t] \notin Working
    BY <1>4, UnderMutex, ZenonT(30)
  <2>2. CASE pc[t] = "enter" /\ Stay(t, Append(writers_, t), "queued") /\ UNCHANGED last_sequence
    <3>1. /\ \A u \in Threads \ {t} : pc'[u] = pc[u]
          /\ pc'[t] = "queued" /\ writers_' = Append(writers_, t)
          /\ UNCHANGED <<done, status, groupVars, mem_, imm_, has_imm, log, retired, durable, tables,
                         bg_error_, mine, acked, acked_sync>>
      BY <1>1, <2>2 DEF Stay, memVars, logVars, verVars, histVars
    <3>2. \A j \in 1 .. Len(writers_) : writers_'[j] = writers_[j]
      <4>1. writers_' = Append(writers_, t)
        BY <3>1, ZenonT(30)
      <4>2. writers_ \in Seq(Threads)
        BY <1>1, ZenonT(30)
      <4> QED
        BY <4>1, <4>2
    <3>3. Aside
      BY <2>1, <2>2, <3>1, <3>2, ZenonT(30) DEF Aside, Working, Store
    <3> QED
      BY <1>2, <3>1, <3>3, AsideData, ZenonT(30) DEF ImmInv, Store
  <2>3. CASE /\ pc[t] = "woken" /\ done[t] /\ pc' = [pc EXCEPT ![t] = ReturnTo(t, status[t])]
             /\ Acknowledge(t, status[t])
             /\ UNCHANGED <<queueVars, groupVars, memVars, logVars, verVars, last_sequence,
                            bg_error_, mine>>
    <3>1. /\ \A u \in Threads \ {t} : pc'[u] = pc[u]
          /\ pc'[t] \in {"idle", "mem_check"}
          /\ UNCHANGED <<writers_, done, status, mem_, imm_, has_imm, log, retired, durable, tables>>
      BY <1>1, <2>3 DEF ReturnTo, queueVars, memVars, logVars, verVars
    <3>2. Aside
      BY <2>1, <2>3, <3>1, ZenonT(30) DEF Aside, Working, Store
    <3>3. status[t] = "ok" => mine[t] \subseteq Store /\ (call[t].sync => mine[t] \subseteq durable)
      BY <2>3, ZenonT(30) DEF Followers
    <3>4. AckedIsReadable' /\ SyncedIsDurable'
      BY <2>3, <3>1, <3>3, ZenonT(30) DEF Acknowledge, AckedIsReadable, SyncedIsDurable, Store
    <3> QED
      BY <3>1, <3>2, <3>4, AsideData, ZenonT(30) DEF ImmInv
  <2>4. CASE \E q, d : AtFront(t, q) /\ MakeRoomForWrite(t, q, d)
    BY <2>1, <2>4, MakeRoomData
  <2> QED
    BY <1>4, <2>2, <2>3, <2>4, UnderMutex, ZenonT(30)
<1>5. ASSUME NEW t \in Threads, AwaitMemTable(t) \/ AwaitRange(t)
      PROVE  DataInv'
  <2>1. /\ pc[t] \notin Working \cup {"woken"} /\ pc'[t] \notin Working \cup {"woken"}
        /\ \A u \in Threads \ {t} : pc'[u] = pc[u]
    BY <1>1, <1>5 DEF AwaitMemTable, AwaitRange, Working
  <2>2. UNCHANGED <<writers_, done, status, groupVars, mem_, imm_, has_imm, log, retired, durable,
                    tables, last_sequence, bg_error_, call, mine, acked, acked_sync>>
    BY <1>5, ZenonT(30) DEF AwaitMemTable, AwaitRange, queueVars, memVars, logVars, verVars, histVars
  <2>3. Aside
    BY <2>1, <2>2, ZenonT(30) DEF Aside, Store
  <2> QED
    BY <1>2, <2>2, <2>3, AsideData DEF ImmInv, Store
<1>6. CASE BackgroundStep \/ UpdateStats \/ Close \/ CloseWoken \/ Stopped
  <2>1. /\ pc' = pc \/ pc' = SignalAll(pc)
        /\ UNCHANGED <<call, writers_, done, status, groupVars, mem_, log, retired, last_sequence,
                       histVars>>
        /\ durable \subseteq durable'
        /\ bg_error_' = bg_error_ \/ bg_error_' # "ok"
        /\ \/ UNCHANGED <<imm_, has_imm, tables>>
           \/ imm_' = {} /\ has_imm' = FALSE /\ tables' = tables \cup imm_
    BY <1>6, BackgroundEffect, ZenonT(30)
  <2>2. Store' = Store /\ ImmInv'
    BY <2>1 DEF Store, ImmInv
  <2>3. \A u \in Threads : /\ pc'[u] \in Working \/ pc[u] \in Working => pc'[u] = pc[u]
                           /\ pc'[u] = "woken" => pc[u] = "woken"
    BY <2>1 DEF SignalAll, Working
  <2>4. Aside
    BY <2>1, <2>2, <2>3, ZenonT(30) DEF Aside, histVars
  <2> QED
    BY <1>2, <2>1, <2>2, <2>4, AsideData DEF histVars
<1>7. CASE UNCHANGED vars
  <2>1. UNCHANGED <<pc, writers_, done, status, groupVars, mem_, imm_, has_imm, log, retired, durable,
                    tables, last_sequence, bg_error_, call, mine, acked, acked_sync>>
    BY <1>7 DEF vars, threadVars, queueVars, memVars, logVars, verVars, histVars
  <2>2. Aside
    BY <2>1, ZenonT(30) DEF Aside, Store
  <2> QED
    BY <1>2, <2>1, <2>2, AsideData DEF ImmInv, Store
<1> QED
  BY <1>3, <1>4, <1>5, <1>6, <1>7, WorkData, CommitData, ZenonT(30) DEF Next, WriterStep

LEMMA DataInvariance == Spec => []DataInv
<1>1. Init => DataInv
  <2>1. Init => ImmInv /\ IdleGroup /\ Followers /\ SyncErrors
    BY DEF Init, ImmInv, IdleGroup, Followers, SyncErrors, Store
  <2>2. Init => FreshNumbers /\ AckedIsReadable /\ SyncedIsDurable
    BY DEF Init, FreshNumbers, AckedIsReadable, SyncedIsDurable, Store
  <2>3. Init => Groups
    BY DEF Init, Groups, Working
  <2> QED
    BY <2>1, <2>2, <2>3 DEF DataInv
<1>2. TypeOK /\ QueueInv /\ DataInv /\ [Next]_vars => DataInv'
  BY DataStep
<1> QED
  BY <1>1, <1>2, Types, QueueInvariance, PTL DEF Spec

(* A sequence number is given out once: SetLastSequence (db_impl.cc:1215)    *)
(* passes the whole group even if its append or its sync failed.            *)
THEOREM Numbered == Spec => []FreshNumbers
<1>1. DataInv => FreshNumbers
  BY DEF DataInv
<1> QED
  BY <1>1, DataInvariance, PTL

(* What Write acknowledged stays where a read finds it, for a leader and for *)
(* the followers of its group, through every switch and flush of memtables. *)
THEOREM Readable == Spec => []AckedIsReadable
<1>1. DataInv => AckedIsReadable
  BY DEF DataInv
<1> QED
  BY <1>1, DataInvariance, PTL

(* sync is honoured for the leader and for its followers, and after a failed *)
(* Sync that a caller knows of no thread gets to the log (db_impl.cc:1207). *)
THEOREM SyncKept == Spec => []SyncHonoured
<1>1. DataInv => SyncHonoured
  BY DEF DataInv, SyncErrors, SyncHonoured, StoppedAfterSyncError
<1> QED
  BY <1>1, DataInvariance, PTL

(* A step changes nothing of what a read up to last_sequence finds.         *)
PublishedKept == \A n \in 1 .. last_sequence : n \in Store <=> n \in Store'

LEMMA PublishedStep ==
  ASSUME TypeOK, QueueInv, DataInv, [Next]_vars
  PROVE  PublishedKept
<1>1. CASE Store' = Store
  BY <1>1 DEF PublishedKept
<1>2. ASSUME NEW t \in Threads, InsertInto(t)
      PROVE  PublishedKept
  <2>1. Store' = Store \cup {next}
    <3>1. mem_' = mem_ \cup {next} /\ UNCHANGED <<imm_, tables>>
      BY <1>2, ZenonT(30) DEF InsertInto, AppendUnchanged, verVars
    <3> QED
      BY <3>1 DEF Store
  <2>2. GroupInv(t)
    BY <1>2 DEF DataInv, Groups, InsertInto, Working
  <2>3. \A n \in 1 .. last_sequence : n # next
    BY <2>2 DEF GroupInv, TypeOK, GroupType, StoreType
  <2> QED
    BY <2>1, <2>3 DEF PublishedKept
<1>3. ASSUME NEW t \in Threads, Enter(t) \/ Wake(t) \/ RetryRoom(t)
      PROVE  Store' = Store
  <2>1. CASE Stay(t, Append(writers_, t), "queued") \/ UNCHANGED <<memVars, verVars>>
    <3>1. UNCHANGED <<mem_, imm_, tables>>
      BY <2>1, ZenonT(30) DEF Stay, memVars, verVars
    <3> QED
      BY <3>1 DEF Store
  <2>2. CASE \E q, d : AtFront(t, q) /\ MakeRoomForWrite(t, q, d)
    BY <2>2, MakeRoomFrame DEF DataInv
  <2> QED
    BY <1>3, <2>1, <2>2, UnderMutex, ZenonT(30)
<1>4. ASSUME NEW t \in Threads,
             Invoke(t) \/ AddRecord(t) \/ SyncLog(t) \/ Commit(t) \/ AwaitMemTable(t) \/ AwaitRange(t)
      PROVE  Store' = Store
  <2>1. UNCHANGED <<mem_, imm_, tables>>
    BY <1>4, ZenonT(30) DEF Invoke, AddRecord, SyncLog, Commit, AwaitMemTable, AwaitRange,
                       AppendUnchanged, memVars, verVars
  <2> QED
    BY <2>1 DEF Store
<1>5. CASE BackgroundStep \/ UpdateStats \/ Close \/ CloseWoken \/ Stopped
  <2>1. Store' = Store
    BY <1>5, BackgroundEffect, ZenonT(30) DEF Store
  <2> QED
    BY <1>1, <2>1
<1>6. CASE UNCHANGED vars
  <2>1. Store' = Store
    BY <1>6 DEF vars, memVars, verVars, Store
  <2> QED
    BY <1>1, <2>1
<1> QED
  BY <1>1, <1>2, <1>3, <1>4, <1>5, <1>6 DEF Next, WriterStep

(* A read at a sequence number that SetLastSequence has published finds the  *)
(* same entries at any later time.                                          *)
THEOREM Stable == Spec => StableReads
<1>1. TypeOK /\ QueueInv /\ DataInv /\ [Next]_vars => PublishedKept
  BY PublishedStep
<1> QED
  BY <1>1, Types, QueueInvariance, DataInvariance, PTL DEF Spec, StableReads, PublishedKept
=============================================================================
