--------------------------- MODULE WritePathProofs ---------------------------
(* Inductive invariants of WritePath, and the proofs of its safety           *)
(* properties for any number of threads, calls and faults.                   *)
EXTENDS WritePath, TLAPS, FiniteSetTheorems

(* Seconds for the provers.                                                  *)
USE SMTT(30), ZenonT(30)

(* The background thread is in the middle of a compaction.                  *)
Merging == bg \in {"merge", "install"} \/ (bg \in {"build", "apply"} /\ nested)

(* What the background thread and the destructor rely on.                   *)
FlushHasImm == bg \in {"build", "apply"} => has_imm
InputsThere == Merging => inputs <= l0
ManualAtWork ==
  Merging /\ is_manual => IF manual_compaction_ = NULL THEN bg_error_ # "ok"
                          ELSE pieces[manual_compaction_] > 0
ManualWaits ==
  manual_compaction_ # NULL => /\ pc[manual_compaction_] \in {"range_wait", "range_woken"}
                               /\ ~manual_done[manual_compaction_]
CloseIsLast ==
  /\ shutting_down_ <=> dtor # "open"
  /\ shutting_down_ => \A t \in Threads : pc[t] = "idle"
  /\ dtor = "closed" => ~bg_compaction_scheduled_
BackgroundInv ==
  /\ OneJob /\ WorkIsScheduled /\ Level0Bounded /\ CancelledOnlyAfterError
  /\ FlushHasImm /\ InputsThere /\ ManualAtWork /\ ManualWaits /\ CloseIsLast

-----------------------------------------------------------------------------
(* Types.                                                                   *)

USE DEF Operations, IOOperations

(* The batches of a stretch of the queue hold finitely many operations.     *)
LEMMA CountType ==
  ASSUME call \in [Threads -> CallType],
         NEW q \in Seq(Threads), NEW i \in Nat, i <= Len(q)
  PROVE  IsFiniteSet(Ops(q, i)) /\ Count(q, i) \in Nat
<1>1. Ops(q, i) \in SUBSET ((1 .. i) \X (1 .. MaxCount))
  BY LimitsAssumption DEF Ops, CallType
<1>2. IsFiniteSet((1 .. i) \X (1 .. MaxCount))
  <2>1. IsFiniteSet(1 .. i) /\ IsFiniteSet(1 .. MaxCount)
    BY LimitsAssumption, FS_Interval
  <2> QED
    BY <2>1, FS_Product, ZenonT(30)
<1>3. IsFiniteSet(Ops(q, i))
  BY <1>1, <1>2, FS_Subset
<1> QED
  BY <1>3, FS_CardinalityType DEF Count

(* bg_cv_.SignalAll() moves threads between positions.                      *)
LEMMA SignalAllType ==
  ASSUME NEW p \in [Threads -> Positions]
  PROVE  SignalAll(p) \in [Threads -> Positions]
BY DEF SignalAll, Positions

(* The end of Write keeps the types of what it assigns.                     *)
LEMMA FinishType ==
  ASSUME TypeOK, NEW t \in Threads, NEW q \in Seq(Threads), NEW k \in Nat,
         NEW s \in Statuses, NEW p \in [Threads -> Positions], Finish(t, q, k, s, p)
  PROVE  /\ writers_' \in Seq(Threads) /\ done' \in [Threads -> BOOLEAN]
         /\ status' \in [Threads -> Statuses] /\ pc' \in [Threads -> Positions]
         /\ acked' \subseteq Nat /\ acked_sync' \subseteq Nat
<1>1. writers_' \in Seq(Threads)
  <2>1. \A i \in k + 1 .. Len(q) : q[i] \in Threads
    OBVIOUS
  <2> QED
    BY <2>1 DEF Finish
<1>2. done' \in [Threads -> BOOLEAN]
  BY DEF Finish
<1>3. status' \in [Threads -> Statuses]
  BY DEF Finish, TypeOK, QueueType
<1>4. pc' \in [Threads -> Positions]
  BY DEF Finish, ReturnTo, Positions
<1>5. acked' \subseteq Nat /\ acked_sync' \subseteq Nat
  BY ZenonT(30) DEF Finish, Acknowledge, TypeOK, HistoryType
<1> QED
  BY <1>1, <1>2, <1>3, <1>4, <1>5

LEMMA ProceedType ==
  ASSUME TypeOK, NEW t \in Threads, NEW q \in Seq(Threads), Proceed(t, q)
  PROVE  /\ writers_' \in Seq(Threads) /\ done' \in [Threads -> BOOLEAN]
         /\ status' \in [Threads -> Statuses] /\ pc' \in [Threads -> Positions]
         /\ GroupType' /\ HistoryType'
<1>1. CASE ~HasBatch(t)
  <2>1. Finish(t, q, 1, "ok", pc) /\ UNCHANGED <<groupVars, mine, before>>
    BY <1>1 DEF Proceed
  <2>2. pc \in [Threads -> Positions] /\ "ok" \in Statuses
    BY DEF TypeOK, ThreadsType, Statuses
  <2>3. /\ writers_' \in Seq(Threads) /\ done' \in [Threads -> BOOLEAN]
        /\ status' \in [Threads -> Statuses] /\ pc' \in [Threads -> Positions]
        /\ acked' \subseteq Nat /\ acked_sync' \subseteq Nat
    BY <2>1, <2>2, FinishType
  <2>4. GroupType'
    BY <2>1 DEF TypeOK, GroupType, groupVars
  <2>5. HistoryType'
    BY <2>1, <2>3 DEF TypeOK, HistoryType
  <2> QED
    BY <2>3, <2>4, <2>5
<1>2. CASE HasBatch(t)
  <2>1. PICK k \in 1 .. Len(q) :
          /\ group' = k /\ upto' = last_sequence + Count(q, k)
          /\ mine' = [u \in Threads |-> IF \E j \in 1 .. k : q[j] = u
                                         THEN Numbers(u, q, k) ELSE mine[u]]
    BY <1>2 DEF Proceed
  <2>2. Count(q, k) \in Nat
    BY CountType DEF TypeOK, ThreadsType
  <2>3. \A u \in Threads : Numbers(u, q, k) \subseteq Nat
    BY <2>2 DEF Numbers, TypeOK, StoreType
  <2>4. /\ next' = last_sequence + 1 /\ writers_' = q /\ pc' = [pc EXCEPT ![t] = "append"]
        /\ UNCHANGED <<done, status, acked, acked_sync, before>>
    BY <1>2 DEF Proceed
  <2>5. mine' \in [Threads -> SUBSET Nat]
    BY <2>1, <2>3 DEF TypeOK, HistoryType
  <2>6. HistoryType'
    BY <2>4, <2>5 DEF TypeOK, HistoryType
  <2>7. GroupType'
    BY <2>1, <2>2, <2>4 DEF TypeOK, StoreType, GroupType
  <2>8. pc' \in [Threads -> Positions]
    BY <2>4 DEF TypeOK, ThreadsType, Positions
  <2>9. done' \in [Threads -> BOOLEAN] /\ status' \in [Threads -> Statuses]
    BY <2>4 DEF TypeOK, QueueType
  <2> QED
    BY <2>4, <2>6, <2>7, <2>8, <2>9
<1> QED
  BY <1>1, <1>2

LEMMA ScheduleType ==
  ASSUME TypeOK, MaybeScheduleCompaction
  PROVE  bg_compaction_scheduled_' \in BOOLEAN /\ jobs' \in Nat
BY DEF TypeOK, BackgroundType, MaybeScheduleCompaction, MaybeSchedule

LEMMA MakeRoomType ==
  ASSUME TypeOK, NEW t \in Threads, NEW q \in Seq(Threads), NEW delay \in BOOLEAN,
         MakeRoomForWrite(t, q, delay), UNCHANGED <<call, calls>>
  PROVE  TypeOK'
<1> USE DEF groupVars, memVars, logVars, verVars, bgVars, dtorVars, manualVars, histVars
<1>1. /\ allow_delay' \in [Threads -> BOOLEAN]
      /\ UNCHANGED <<last_sequence, dtorVars, manualVars>>
  BY DEF MakeRoomForWrite, TypeOK, QueueType
<1>2. pc \in [Threads -> Positions]
  BY DEF TypeOK, ThreadsType
<1>3. ManualType'
  BY <1>1 DEF TypeOK, ManualType
<1>4. ASSUME pc' \in [Threads -> Positions]
      PROVE  ThreadsType'
  BY <1>4 DEF TypeOK, ThreadsType
<1>5. CASE /\ \E s \in Statuses : Finish(t, q, 1, s, pc)
           /\ UNCHANGED <<groupVars, memVars, logVars, verVars, bg_error_, bgVars, mine, before>>
  <2>1. PICK s \in Statuses : Finish(t, q, 1, s, pc)
    BY <1>5
  <2>2. /\ writers_' \in Seq(Threads) /\ done' \in [Threads -> BOOLEAN]
        /\ status' \in [Threads -> Statuses] /\ pc' \in [Threads -> Positions]
        /\ acked' \subseteq Nat /\ acked_sync' \subseteq Nat
    BY <2>1, <1>2, FinishType
  <2>3. QueueType'
    BY <1>1, <2>2 DEF QueueType
  <2>4. GroupType' /\ HistoryType'
    BY <1>5, <2>2 DEF TypeOK, GroupType, HistoryType
  <2>5. StoreType' /\ BackgroundType'
    BY <1>1, <1>5 DEF TypeOK, StoreType, BackgroundType
  <2> QED
    BY <1>3, <1>4, <2>2, <2>3, <2>4, <2>5 DEF TypeOK
<1>6. CASE \E where \in {"delay", "room_wait"} : Stay(t, q, where)
  <2>1. pc' \in [Threads -> Positions] /\ writers_' = q /\ UNCHANGED <<done, status>>
    BY <1>6, <1>2 DEF Stay, Positions
  <2>2. GroupType' /\ HistoryType' /\ StoreType' /\ BackgroundType'
    BY <1>1, <1>6 DEF Stay, TypeOK, GroupType, HistoryType, StoreType, BackgroundType
  <2>3. QueueType'
    BY <1>1, <2>1 DEF TypeOK, QueueType
  <2> QED
    BY <1>3, <1>4, <2>1, <2>2, <2>3 DEF TypeOK
<1>7. CASE Proceed(t, q) /\ UNCHANGED <<memVars, logVars, verVars, bg_error_, bgVars>>
  <2>1. StoreType' /\ BackgroundType'
    BY <1>1, <1>7 DEF TypeOK, StoreType, BackgroundType
  <2>2. /\ writers_' \in Seq(Threads) /\ done' \in [Threads -> BOOLEAN]
        /\ status' \in [Threads -> Statuses] /\ pc' \in [Threads -> Positions]
        /\ GroupType' /\ HistoryType'
    BY <1>7, ProceedType
  <2>3. QueueType'
    BY <1>1, <2>2 DEF QueueType
  <2> QED
    BY <1>3, <1>4, <2>1, <2>2, <2>3 DEF TypeOK
<1>8. CASE /\ imm_' = mem_ /\ has_imm' = TRUE /\ mem_' = {}
           /\ retired' = retired \cup log /\ log' = {}
           /\ UNCHANGED <<durable, verVars, bg_error_, bg, nested, inputs, is_manual>>
           /\ MaybeScheduleCompaction
           /\ Proceed(t, q)
  <2>1. StoreType'
    BY <1>1, <1>8 DEF TypeOK, StoreType
  <2>2. BackgroundType'
    BY <1>1, <1>8, ScheduleType DEF TypeOK, BackgroundType
  <2>3. /\ writers_' \in Seq(Threads) /\ done' \in [Threads -> BOOLEAN]
        /\ status' \in [Threads -> Statuses] /\ pc' \in [Threads -> Positions]
        /\ GroupType' /\ HistoryType'
    BY <1>8, ProceedType
  <2>4. QueueType'
    BY <1>1, <2>3 DEF QueueType
  <2> QED
    BY <1>3, <1>4, <2>1, <2>2, <2>3, <2>4 DEF TypeOK
<1> QED
  <2>1. bg_error_ \in Statuses /\ "newlog" \in Statuses
    BY DEF TypeOK, BackgroundType, Statuses
  <2> QED
    BY <2>1, <1>5, <1>6, <1>7, <1>8, ZenonT(30) DEF MakeRoomForWrite

(* Every step keeps the types.  Install subtracts the inputs from l0, and   *)
(* CompactionEnd a piece from the manual compaction: both need the          *)
(* background invariant.                                                    *)
LEMMA TypeStep ==
  ASSUME TypeOK, BackgroundInv, [Next]_vars
  PROVE  TypeOK'
<1> USE DEF threadVars, queueVars, groupVars, memVars, logVars, verVars, bgVars, manualVars,
            dtorVars, histVars
<1>1. ASSUME NEW t \in Threads, Invoke(t)
      PROVE  TypeOK'
  <2>1. PICK c \in Calls :
          /\ call' = [call EXCEPT ![t] = c]
          /\ pc' = [pc EXCEPT ![t] = IF c.op = "CompactRange" THEN "range_check" ELSE "enter"]
          /\ pieces' = [pieces EXCEPT ![t] = c.pieces]
          /\ before' = [before EXCEPT ![t] = IF c.op = "CompactMemTable" THEN acked ELSE {}]
    BY <1>1, ZenonT(30) DEF Invoke
  <2>2. c \in CallType
    BY CallsAssumption
  <2>3. ThreadsType'
    BY <1>1, <2>1, <2>2, LimitsAssumption DEF Invoke, TypeOK, ThreadsType, Positions
  <2>4. QueueType' /\ GroupType'
    BY <1>1 DEF Invoke, TypeOK, QueueType, GroupType
  <2>5. StoreType' /\ BackgroundType'
    BY <1>1 DEF Invoke, TypeOK, StoreType, BackgroundType
  <2>6. ManualType'
    BY <1>1, <2>1, <2>2 DEF Invoke, TypeOK, ManualType, CallType
  <2>7. HistoryType'
    BY <1>1, <2>1 DEF Invoke, TypeOK, HistoryType
  <2> QED
    BY <2>3, <2>4, <2>5, <2>6, <2>7 DEF TypeOK
<1>2. ASSUME NEW t \in Threads, Enter(t)
      PROVE  TypeOK'
  <2>1. Append(writers_, t) \in Seq(Threads)
    BY DEF TypeOK, QueueType
  <2>2. CASE MakeRoomForWrite(t, Append(writers_, t), HasBatch(t))
    BY <1>2, <2>1, <2>2, MakeRoomType, ZenonT(30) DEF Enter, HasBatch
  <2>3. CASE /\ Stay(t, Append(writers_, t), "queued")
             /\ UNCHANGED <<allow_delay, last_sequence, dtorVars, manualVars>>
    <3>1. ThreadsType' /\ GroupType' /\ HistoryType'
      BY <1>2, <2>3 DEF Enter, Stay, TypeOK, ThreadsType, Positions, GroupType, HistoryType
    <3>2. QueueType' /\ ManualType'
      BY <2>1, <2>3 DEF Stay, TypeOK, QueueType, ManualType
    <3>3. StoreType' /\ BackgroundType'
      BY <2>3 DEF Stay, TypeOK, StoreType, BackgroundType
    <3> QED
      BY <3>1, <3>2, <3>3 DEF TypeOK
  <2> QED
    BY <1>2, <2>2, <2>3 DEF Enter
<1>3. ASSUME NEW t \in Threads, Wake(t)
      PROVE  TypeOK'
  <2>1. CASE ~done[t] /\ MakeRoomForWrite(t, writers_, HasBatch(t))
    <3>1. writers_ \in Seq(Threads)
      BY DEF TypeOK, QueueType
    <3> QED
      BY <1>3, <2>1, <3>1, MakeRoomType, ZenonT(30) DEF Wake, HasBatch
  <2>2. CASE done[t] /\ Acknowledge(t, status[t])
    <3>1. ThreadsType' /\ QueueType' /\ GroupType'
      BY <1>3, <2>2 DEF Wake, ReturnTo, TypeOK, ThreadsType, Positions, QueueType, GroupType
    <3>2. StoreType' /\ ManualType'
      BY <1>3, <2>2, ZenonT(30) DEF Wake, TypeOK, StoreType, ManualType
    <3>3. BackgroundType'
      BY <1>3, <2>2 DEF Wake, TypeOK, BackgroundType
    <3>4. HistoryType'
      BY <1>3, <2>2 DEF Wake, Acknowledge, TypeOK, HistoryType
    <3> QED
      BY <3>1, <3>2, <3>3, <3>4 DEF TypeOK
  <2> QED
    BY <1>3, <2>1, <2>2, ZenonT(30) DEF Wake
<1>4. ASSUME NEW t \in Threads, RetryRoom(t)
      PROVE  TypeOK'
  <2>1. writers_ \in Seq(Threads) /\ (allow_delay[t] /\ pc[t] # "delay") \in BOOLEAN
    BY DEF TypeOK, QueueType
  <2> QED
    BY <1>4, <2>1, MakeRoomType, ZenonT(30) DEF RetryRoom
<1>5. ASSUME NEW t \in Threads, AddRecord(t) \/ SyncLog(t) \/ InsertInto(t)
      PROVE  TypeOK'
  <2>1. ThreadsType'
    BY <1>5 DEF AddRecord, SyncLog, InsertInto, InsertNext, AppendUnchanged, TypeOK, ThreadsType,
                Positions
  <2>2. QueueType'
    BY <1>5 DEF AddRecord, SyncLog, InsertInto, AppendUnchanged, TypeOK, QueueType, Statuses
  <2>3. GroupType' /\ HistoryType'
    <3>1. next' \in {next, next + 1} /\ AppendUnchanged
      BY <1>5 DEF AddRecord, SyncLog, InsertInto
    <3> QED
      BY <3>1 DEF AppendUnchanged, TypeOK, GroupType, HistoryType
  <2>4. StoreType'
    <3>1. /\ log' \in {log, log \cup GroupRange} /\ durable' \in {durable, durable \cup log}
          /\ mem_' \in {mem_, mem_ \cup {next}} /\ AppendUnchanged
      BY <1>5 DEF AddRecord, SyncLog, InsertInto
    <3>2. GroupRange \subseteq Nat
      BY DEF GroupRange, TypeOK, GroupType, StoreType
    <3>3. next \in Nat
      BY DEF TypeOK, GroupType
    <3> QED
      BY <3>1, <3>2, <3>3 DEF AppendUnchanged, TypeOK, StoreType
  <2>5. BackgroundType' /\ ManualType'
    BY <1>5 DEF AddRecord, SyncLog, InsertInto, AppendUnchanged, TypeOK, BackgroundType, ManualType
  <2> QED
    BY <2>1, <2>2, <2>3, <2>4, <2>5 DEF TypeOK
<1>6. ASSUME NEW t \in Threads, Commit(t)
      PROVE  TypeOK'
  <2>1. PICK p \in [Threads -> Positions] : Finish(t, writers_, group, status[t], p)
    BY <1>6, SignalAllType DEF Commit, TypeOK, ThreadsType
  <2>2. status[t] \in Statuses /\ writers_ \in Seq(Threads) /\ group \in Nat
    BY DEF TypeOK, QueueType, GroupType
  <2>3. /\ writers_' \in Seq(Threads) /\ done' \in [Threads -> BOOLEAN]
        /\ status' \in [Threads -> Statuses] /\ pc' \in [Threads -> Positions]
        /\ acked' \subseteq Nat /\ acked_sync' \subseteq Nat
    BY <2>1, <2>2, FinishType
  <2>4. ThreadsType' /\ QueueType'
    BY <1>6, <2>3 DEF Commit, TypeOK, ThreadsType, QueueType
  <2>5. GroupType' /\ HistoryType'
    BY <1>6, <2>3, ZenonT(30) DEF Commit, TypeOK, GroupType, HistoryType
  <2>6. StoreType' /\ ManualType'
    BY <1>6, ZenonT(30) DEF Commit, LastSequenceAfter, TypeOK, GroupType, StoreType, ManualType
  <2>7. BackgroundType'
    BY <1>6, ZenonT(30) DEF Commit, RecordBackgroundError, TypeOK, BackgroundType, Statuses
  <2> QED
    BY <2>4, <2>5, <2>6, <2>7 DEF TypeOK
<1>7. ASSUME NEW t \in Threads, AwaitMemTable(t)
      PROVE  TypeOK'
  <2>1. ThreadsType' /\ QueueType' /\ GroupType' /\ HistoryType'
    BY <1>7 DEF AwaitMemTable, TypeOK, ThreadsType, Positions, QueueType, GroupType, HistoryType
  <2>2. StoreType' /\ ManualType'
    BY <1>7 DEF AwaitMemTable, TypeOK, StoreType, ManualType
  <2>3. BackgroundType'
    BY <1>7 DEF AwaitMemTable, TypeOK, BackgroundType
  <2> QED
    BY <2>1, <2>2, <2>3 DEF TypeOK
<1>8. ASSUME NEW t \in Threads, AwaitRange(t)
      PROVE  TypeOK'
  <2>1. ThreadsType' /\ QueueType' /\ GroupType' /\ HistoryType'
    BY <1>8 DEF AwaitRange, TypeOK, ThreadsType, Positions, QueueType, GroupType, HistoryType
  <2>2. StoreType' /\ ManualType'
    BY <1>8 DEF AwaitRange, Withdraw, TypeOK, StoreType, ManualType
  <2>3. bg_compaction_scheduled_' \in BOOLEAN /\ jobs' \in Nat
    BY <1>8, ScheduleType DEF AwaitRange, TypeOK, BackgroundType
  <2>4. BackgroundType'
    BY <1>8, <2>3 DEF AwaitRange, TypeOK, BackgroundType
  <2> QED
    BY <2>1, <2>2, <2>4 DEF TypeOK
<1>9. CASE UpdateStats
  <2>1. ThreadsType' /\ QueueType' /\ GroupType' /\ HistoryType'
    BY <1>9 DEF UpdateStats, TypeOK, ThreadsType, QueueType, GroupType, HistoryType
  <2>2. StoreType' /\ ManualType'
    BY <1>9 DEF UpdateStats, TypeOK, StoreType, ManualType
  <2>3. BackgroundType'
    BY <1>9, ScheduleType DEF UpdateStats, TypeOK, BackgroundType
  <2> QED
    BY <2>1, <2>2, <2>3 DEF TypeOK
<1>10. ASSUME bgUnchanged, pc' \in {pc, SignalAll(pc)}
       PROVE  ThreadsType' /\ QueueType' /\ GroupType' /\ HistoryType'
  <2>1. pc' \in [Threads -> Positions]
    BY <1>10, SignalAllType DEF TypeOK, ThreadsType
  <2> QED
    BY <1>10, <2>1 DEF bgUnchanged, TypeOK, ThreadsType, QueueType, GroupType, HistoryType
<1>11. ASSUME NEW j \in Nat, BackgroundCallEnd(j)
       PROVE  /\ bg' = "idle" /\ bg_compaction_scheduled_' \in BOOLEAN /\ jobs' \in Nat
              /\ pc' = SignalAll(pc) /\ dtor' \in {"open", "wait", "woken", "closed"}
  BY <1>11 DEF BackgroundCallEnd, MaybeSchedule, SignalDtor, TypeOK, BackgroundType
<1>12. CASE BackgroundCall
  <2>1. jobs - 1 \in Nat
    BY <1>12 DEF BackgroundCall, TypeOK, BackgroundType
  <2>2. /\ pc' \in {pc, SignalAll(pc)} /\ dtor' \in {"open", "wait", "woken", "closed"}
        /\ bg_compaction_scheduled_' \in BOOLEAN /\ jobs' \in Nat
        /\ bg' \in {"idle", "build", "merge", "install"}
    BY <1>11, <1>12, <2>1 DEF BackgroundCall, TypeOK, BackgroundType
  <2>3. nested' \in BOOLEAN /\ is_manual' \in BOOLEAN /\ inputs' \in Nat
    <3>1. is_manual' \in {is_manual, TRUE, FALSE} /\ nested' \in {nested, FALSE}
      BY <1>12, ZenonT(30) DEF BackgroundCall
    <3>2. inputs' = inputs \/ inputs' \in 0 .. l0
      BY <1>12 DEF BackgroundCall, Level0Inputs
    <3>3. is_manual' \in BOOLEAN /\ nested' \in BOOLEAN
      BY <3>1, ZenonT(30) DEF TypeOK, BackgroundType
    <3>4. inputs' \in Nat
      BY <3>2 DEF TypeOK, BackgroundType, StoreType
    <3> QED
      BY <3>3, <3>4
  <2>4. BackgroundType'
    BY <1>12, <2>2, <2>3 DEF BackgroundCall, bgUnchanged, TypeOK, BackgroundType
  <2>5. StoreType'
    BY <1>12 DEF BackgroundCall, bgUnchanged, TypeOK, StoreType
  <2>6. ManualType'
    BY <1>12, ZenonT(30) DEF BackgroundCall, TypeOK, ManualType
  <2> QED
    BY <1>10, <1>12, <2>2, <2>4, <2>5, <2>6 DEF BackgroundCall, TypeOK
<1>13. ASSUME FlushEnd
       PROVE  /\ pc' = SignalAll(pc) /\ dtor' \in {"open", "wait", "woken", "closed"}
              /\ bg' \in {"idle", "merge"} /\ bg_compaction_scheduled_' \in BOOLEAN /\ jobs' \in Nat
              /\ UNCHANGED <<nested, inputs, is_manual, manualVars>> /\ bgUnchanged
  BY <1>11, <1>13 DEF FlushEnd, SignalDtor, TypeOK, BackgroundType
<1>14. ASSUME FlushEnd, bg_error_' \in Statuses
       PROVE  BackgroundType' /\ ManualType'
  <2>1. ManualType'
    BY <1>13, <1>14 DEF TypeOK, ManualType
  <2>2. BackgroundType'
    BY <1>13, <1>14 DEF bgUnchanged, TypeOK, BackgroundType
  <2> QED
    BY <2>1, <2>2
<1>15. ASSUME NEW e \in Statuses, FlushFails(e)
       PROVE  TypeOK'
  <2>1. StoreType'
    BY <1>13, <1>15, ZenonT(30) DEF FlushFails, bgUnchanged, TypeOK, StoreType
  <2>2. bg_error_' \in Statuses
    BY <1>15 DEF FlushFails, RecordBackgroundError, TypeOK, BackgroundType
  <2> QED
    BY <1>10, <1>13, <1>14, <1>15, <2>1, <2>2 DEF FlushFails, TypeOK
<1>16. CASE BuildTable
  <2>1. CASE FlushFails("table")
    BY <1>15, <2>1 DEF Statuses
  <2>2. CASE /\ bg' = "apply"
             /\ UNCHANGED <<pc, dtor, imm_, has_imm, durable, verVars, bg_error_, nested, inputs,
                            is_manual, bg_compaction_scheduled_, jobs, manualVars>>
             /\ bgUnchanged
    <3>1. StoreType' /\ ManualType'
      BY <2>2 DEF bgUnchanged, TypeOK, StoreType, ManualType
    <3>2. BackgroundType'
      BY <2>2 DEF bgUnchanged, TypeOK, BackgroundType
    <3> QED
      BY <1>10, <2>2, <3>1, <3>2 DEF TypeOK
  <2> QED
    BY <1>16, <2>1, <2>2 DEF BuildTable
<1>17. CASE ApplyFlush
  <2>1. CASE FlushFails("manifest")
    BY <1>15, <2>1 DEF Statuses
  <2>2. CASE /\ imm_' = {} /\ has_imm' = FALSE
             /\ tables' = tables \cup imm_ /\ durable' = durable \cup imm_
             /\ l0' \in {l0, l0 + 1} /\ seek' = FALSE
             /\ UNCHANGED bg_error_ /\ FlushEnd
    <3>1. StoreType'
      <4>1. l0' \in Nat
        BY <2>2 DEF TypeOK, StoreType
      <4>2. /\ imm_' \subseteq Nat /\ tables' \subseteq Nat /\ durable' \subseteq Nat
            /\ has_imm' \in BOOLEAN /\ seek' \in BOOLEAN
        BY <2>2, ZenonT(30) DEF TypeOK, StoreType
      <4> QED
        BY <1>13, <2>2, <4>1, <4>2, ZenonT(30) DEF bgUnchanged, TypeOK, StoreType
    <3>2. bg_error_' \in Statuses
      BY <2>2 DEF TypeOK, BackgroundType
    <3> QED
      BY <1>10, <1>13, <1>14, <2>2, <3>1, <3>2 DEF TypeOK
  <2> QED
    BY <1>17, <2>1, <2>2, ZenonT(30) DEF ApplyFlush
<1>18. CASE MergeFlush
  <2>1. StoreType' /\ ManualType'
    BY <1>18 DEF MergeFlush, bgUnchanged, TypeOK, StoreType, ManualType
  <2>2. BackgroundType'
    BY <1>18 DEF MergeFlush, bgUnchanged, TypeOK, BackgroundType
  <2> QED
    BY <1>10, <1>18, <2>1, <2>2 DEF MergeFlush, TypeOK
<1>19. ASSUME NEW s \in Statuses, CompactionEnd(s), Merging
       PROVE  /\ pc' \in {pc, SignalAll(pc)} /\ dtor' \in {"open", "wait", "woken", "closed"}
              /\ bg' \in {"idle", "crashed"} /\ bg_compaction_scheduled_' \in BOOLEAN
              /\ jobs' \in Nat /\ ManualType'
              /\ UNCHANGED <<imm_, has_imm, durable, tables, nested, inputs, is_manual>>
              /\ bgUnchanged
  <2>1. ManualType'
    <3>1. CASE is_manual /\ manual_compaction_ # NULL
      <4>1. manual_compaction_ \in Threads /\ pieces[manual_compaction_] - 1 \in Nat
        BY <1>19, <3>1 DEF BackgroundInv, ManualAtWork, TypeOK, ManualType
      <4>2. /\ manual_compaction_' = NULL
            /\ pieces' = [pieces EXCEPT ![manual_compaction_] = @ - 1]
            /\ manual_done' = [manual_done EXCEPT ![manual_compaction_] = @ \/ s # "ok"]
        BY <1>19, <3>1 DEF CompactionEnd
      <4>3. manual_done' \in [Threads -> BOOLEAN]
        BY <4>2, ZenonT(30) DEF TypeOK, ManualType
      <4>4. pieces' \in [Threads -> Nat]
        BY <4>1, <4>2 DEF TypeOK, ManualType
      <4> QED
        BY <4>2, <4>3, <4>4 DEF ManualType
    <3>2. CASE ~(is_manual /\ manual_compaction_ # NULL)
      BY <1>19, <3>2 DEF CompactionEnd, manualVars, TypeOK, ManualType
    <3> QED
      BY <3>1, <3>2
  <2>2. jobs \in Nat /\ bg_compaction_scheduled_ \in BOOLEAN /\ dtor \in {"open", "wait", "woken", "closed"}
    BY DEF TypeOK, BackgroundType
  <2> QED
    BY <1>11, <1>19, <2>1, <2>2 DEF CompactionEnd
<1>20. ASSUME NEW s \in Statuses, CompactionEnd(s), Merging, bg_error_' \in Statuses,
              l0' \in Nat, seek' \in BOOLEAN
       PROVE  TypeOK'
  <2>1. StoreType'
    BY <1>19, <1>20, ZenonT(30) DEF bgUnchanged, TypeOK, StoreType
  <2>2. BackgroundType'
    BY <1>19, <1>20 DEF bgUnchanged, TypeOK, BackgroundType
  <2> QED
    BY <1>10, <1>19, <1>20, <2>1, <2>2 DEF TypeOK
<1>21. ASSUME NEW e \in Statuses, CompactionFails(e), Merging
       PROVE  TypeOK'
  <2>1. bg_error_' \in Statuses /\ l0' \in Nat /\ seek' \in BOOLEAN
    BY <1>21 DEF CompactionFails, RecordBackgroundError, TypeOK, BackgroundType, StoreType
  <2> QED
    BY <1>20, <1>21, <2>1 DEF CompactionFails
<1>22. CASE MergeDone
  <2>1. CASE CompactionFails("merge")
    BY <1>21, <1>22, <2>1 DEF MergeDone, Merging, Statuses
  <2>2. CASE /\ bg' = "install"
             /\ UNCHANGED <<pc, dtor, imm_, has_imm, durable, verVars, bg_error_, nested, inputs,
                            is_manual, bg_compaction_scheduled_, jobs, manualVars>>
             /\ bgUnchanged
    <3>1. StoreType' /\ ManualType'
      BY <2>2 DEF bgUnchanged, TypeOK, StoreType, ManualType
    <3>2. BackgroundType'
      BY <2>2 DEF bgUnchanged, TypeOK, BackgroundType
    <3> QED
      BY <1>10, <2>2, <3>1, <3>2 DEF TypeOK
  <2> QED
    BY <1>22, <2>1, <2>2 DEF MergeDone
<1>23. CASE Install
  <2>1. CASE CompactionFails("manifest")
    BY <1>21, <1>23, <2>1 DEF Install, Merging, Statuses
  <2>2. CASE l0' = l0 - inputs /\ seek' = FALSE /\ UNCHANGED bg_error_ /\ CompactionEnd("ok")
    <3>1. inputs <= l0 /\ Merging
      BY <1>23 DEF Install, Merging, BackgroundInv, InputsThere
    <3>2. l0' \in Nat
      BY <2>2, <3>1 DEF TypeOK, BackgroundType, StoreType
    <3>3. bg_error_' \in Statuses /\ seek' \in BOOLEAN /\ "ok" \in Statuses
      BY <2>2, ZenonT(30) DEF TypeOK, BackgroundType, StoreType, Statuses
    <3> QED
      BY <1>20, <2>2, <3>1, <3>2, <3>3
  <2> QED
    BY <1>23, <2>1, <2>2, ZenonT(30) DEF Install
<1>24. CASE Close \/ CloseWoken
  <2>1. ThreadsType' /\ QueueType' /\ GroupType' /\ HistoryType' /\ ManualType'
    BY <1>24, ZenonT(30) DEF Close, CloseWoken, TypeOK, ThreadsType, QueueType, GroupType, HistoryType,
                 ManualType
  <2>2. StoreType'
    BY <1>24, ZenonT(30) DEF Close, CloseWoken, TypeOK, StoreType
  <2>3. BackgroundType'
    BY <1>24, ZenonT(30) DEF Close, CloseWoken, AwaitBackground, TypeOK, BackgroundType
  <2> QED
    BY <2>1, <2>2, <2>3 DEF TypeOK
<1>25. CASE UNCHANGED vars
  <2>1. ThreadsType' /\ QueueType' /\ GroupType' /\ HistoryType' /\ ManualType'
    BY <1>25 DEF vars, TypeOK, ThreadsType, QueueType, GroupType, HistoryType, ManualType
  <2>2. StoreType'
    BY <1>25 DEF vars, TypeOK, StoreType
  <2>3. BackgroundType'
    BY <1>25 DEF vars, TypeOK, BackgroundType
  <2> QED
    BY <2>1, <2>2, <2>3 DEF TypeOK
<1> QED
  BY <1>1, <1>2, <1>3, <1>4, <1>5, <1>6, <1>7, <1>8, <1>9, <1>12, <1>16, <1>17, <1>18, <1>22,
     <1>23, <1>24, <1>25 DEF Next, WriterStep, BackgroundStep, Stopped


-----------------------------------------------------------------------------
(* The background thread and the calls that give it work.                   *)

(* Who waits in TEST_CompactRange, and who is idle, stays so; only the      *)
(* thread itself ends its wait.                                             *)
RangeSleep == {"range_wait", "range_woken"}
RangeKept == \A u \in Threads : pc[u] \in RangeSleep => pc'[u] \in RangeSleep

LEMMA SignalAllKeeps ==
  ASSUME pc' = SignalAll(pc) \/ pc' = pc
  PROVE  RangeKept /\ \A u \in Threads : pc[u] = "idle" => pc'[u] = "idle"
BY DEF RangeKept, RangeSleep, SignalAll

(* Write's critical sections touch the background thread's state only where *)
(* MakeRoomForWrite switches memtables.                                     *)
LEMMA MakeRoomEffect ==
  ASSUME TypeOK, NEW t \in Threads, NEW q, NEW d, MakeRoomForWrite(t, q, d),
         pc[t] \notin RangeSleep
  PROVE  /\ UNCHANGED <<l0, seek, bg, nested, inputs, is_manual, dtorVars, manualVars, bg_error_>>
         /\ \/ UNCHANGED <<has_imm, bg_compaction_scheduled_, jobs>>
            \/ MaybeScheduleCompaction /\ has_imm' = TRUE /\ ~Full
         /\ RangeKept
<1>1. /\ UNCHANGED <<l0, seek, bg, nested, inputs, is_manual, dtorVars, manualVars, bg_error_>>
      /\ \/ UNCHANGED <<has_imm, bg_compaction_scheduled_, jobs>>
         \/ MaybeScheduleCompaction /\ has_imm' = TRUE /\ ~Full
  BY ZenonT(30) DEF MakeRoomForWrite, Stay, bgVars, verVars, memVars
<1>2. ASSUME NEW k, NEW s, Finish(t, q, k, s, pc)
      PROVE  RangeKept
  BY <1>2, ZenonT(30) DEF Finish, RangeKept, RangeSleep
<1>3. ASSUME NEW where, pc' = [pc EXCEPT ![t] = where]
      PROVE  RangeKept
  BY <1>3 DEF RangeKept, TypeOK, ThreadsType
<1>4. (\E k, s : Finish(t, q, k, s, pc)) \/ (\E where : pc' = [pc EXCEPT ![t] = where])
  BY ZenonT(30) DEF MakeRoomForWrite, Stay, Proceed
<1> QED
  BY <1>1, <1>2, <1>3, <1>4

(* What a step of a client thread does to the state that BackgroundInv is   *)
(* about.                                                                   *)
LEMMA ClientEffect ==
  ASSUME TypeOK, BackgroundInv, NEW t \in Threads, Invoke(t) \/ WriterStep(t)
  PROVE  /\ UNCHANGED <<l0, seek, bg, nested, inputs, is_manual, dtorVars>>
         /\ ~shutting_down_
         /\ bg_error_' = bg_error_ \/ bg_error_' # "ok"
         /\ \/ UNCHANGED <<has_imm, bg_compaction_scheduled_, jobs, manual_compaction_>>
            \/ /\ MaybeScheduleCompaction /\ has_imm' = TRUE /\ ~Full
               /\ UNCHANGED manual_compaction_
            \/ /\ UNCHANGED <<has_imm, bg_compaction_scheduled_, jobs>>
               /\ manual_compaction_' = NULL /\ bg_error_ # "ok"
            \/ /\ MaybeScheduleCompaction /\ UNCHANGED has_imm
               /\ manual_compaction_ = NULL /\ manual_compaction_' = t
               /\ pc'[t] \in RangeSleep /\ ~manual_done[t] /\ bg_error_ = "ok"
         /\ \/ manual_compaction_' # manual_compaction_
            \/ manual_compaction_ = NULL
            \/ pc'[manual_compaction_] \in RangeSleep
         /\ \A u \in Threads : pc[u] \in RangeSleep => UNCHANGED <<manual_done[u], pieces[u]>>
<1>1. ~shutting_down_
  BY ZenonT(30) DEF BackgroundInv, CloseIsLast, Invoke, WriterStep, Enter, Wake, RetryRoom, AddRecord,
               SyncLog,
         InsertInto, Commit, AwaitMemTable, AwaitRange
<1>2. ManualWaits /\ NULL \notin Threads /\ manual_compaction_ \in Threads \cup {NULL}
      /\ pc \in [Threads -> Positions]
  BY NullAssumption DEF BackgroundInv, TypeOK, ManualType, ThreadsType
<1>3. CASE Invoke(t)
  <2>1. RangeKept /\ \A u \in Threads : pc[u] \in RangeSleep => UNCHANGED <<manual_done[u], pieces[u]>>
    BY <1>2, <1>3, ZenonT(30) DEF Invoke, RangeKept, RangeSleep, TypeOK, ManualType
  <2>2. UNCHANGED <<l0, seek, bg, nested, inputs, is_manual, dtorVars, bg_error_, has_imm,
                    bg_compaction_scheduled_, jobs, manual_compaction_>>
    BY <1>3 DEF Invoke, verVars, bgVars, memVars
  <2> QED
    BY <1>1, <1>2, <2>1, <2>2, ZenonT(30) DEF RangeKept, RangeSleep, ManualWaits
<1>4. CASE Enter(t) \/ Wake(t) \/ RetryRoom(t)
  <2>1. CASE UNCHANGED <<l0, seek, bg, nested, inputs, is_manual, dtorVars, bg_error_, has_imm,
                         bg_compaction_scheduled_, jobs, manualVars>>
             /\ \E where : pc' = [pc EXCEPT ![t] = where]
    <3>1. RangeKept
      BY <1>2, <1>4, <2>1, ZenonT(30) DEF Enter, Wake, RetryRoom, RangeKept, RangeSleep
    <3> QED
      BY <1>1, <1>2, <2>1, <3>1, ZenonT(30) DEF RangeKept, RangeSleep, ManualWaits, manualVars
  <2>2. CASE \E q, d : MakeRoomForWrite(t, q, d)
    <3>1. /\ UNCHANGED <<l0, seek, bg, nested, inputs, is_manual, dtorVars, manualVars, bg_error_>>
          /\ \/ UNCHANGED <<has_imm, bg_compaction_scheduled_, jobs>>
             \/ MaybeScheduleCompaction /\ has_imm' = TRUE /\ ~Full
          /\ RangeKept
      BY <1>4, <2>2, MakeRoomEffect, ZenonT(30) DEF Enter, Wake, RetryRoom, RangeSleep
    <3> QED
      BY <1>1, <1>2, <3>1, ZenonT(30) DEF RangeKept, RangeSleep, ManualWaits, manualVars
  <2> QED
    BY <1>4, <2>1, <2>2, ZenonT(30) DEF Enter, Wake, RetryRoom, Stay, bgVars, verVars, memVars

<1>5. CASE AddRecord(t) \/ SyncLog(t) \/ InsertInto(t) \/ AwaitMemTable(t)
  <2>1. UNCHANGED <<l0, seek, bg, nested, inputs, is_manual, dtorVars, bg_error_, has_imm,
                    bg_compaction_scheduled_, jobs, manualVars>>
    BY <1>5, ZenonT(30) DEF AddRecord, SyncLog, InsertInto, AwaitMemTable, AppendUnchanged,
                    bgVars, verVars, memVars
  <2>2. pc[t] \notin RangeSleep /\ \E where : pc' = [pc EXCEPT ![t] = where]
    BY <1>5 DEF AddRecord, SyncLog, InsertInto, AwaitMemTable, InsertNext, RangeSleep
  <2>3. RangeKept
    BY <1>2, <2>2 DEF RangeKept
  <2> QED
    BY <1>1, <1>2, <2>1, <2>3, ZenonT(30) DEF RangeKept, RangeSleep, ManualWaits, manualVars
<1>6. CASE Commit(t)
  <2>1. /\ UNCHANGED <<l0, seek, bg, nested, inputs, is_manual, dtorVars, has_imm,
                       bg_compaction_scheduled_, jobs, manualVars>>
        /\ bg_error_' = bg_error_ \/ bg_error_' # "ok"
    BY <1>6, ZenonT(30) DEF Commit, RecordBackgroundError, bgVars, verVars, memVars
  <2>2. RangeKept
    BY <1>6 DEF Commit, Finish, SignalAll, RangeKept, RangeSleep
  <2> QED
    BY <1>1, <1>2, <2>1, <2>2, ZenonT(30) DEF RangeKept, RangeSleep, ManualWaits, manualVars
<1>7. CASE AwaitRange(t)
  <2>1. /\ UNCHANGED <<l0, seek, bg, nested, inputs, is_manual, dtorVars, bg_error_, has_imm,
                       manual_done, pieces>>
        /\ \E where : pc' = [pc EXCEPT ![t] = where]
    BY <1>7, ZenonT(30) DEF AwaitRange, verVars, memVars
  <2>2. CASE manual_done[t] \/ bg_error_ # "ok"
    <3>1. /\ UNCHANGED <<bg_compaction_scheduled_, jobs>>
          /\ IF manual_compaction_ = t THEN manual_compaction_' = NULL /\ bg_error_ # "ok"
             ELSE UNCHANGED manual_compaction_
      BY <1>1, <1>2, <1>7, <2>2 DEF AwaitRange, Withdraw, ManualWaits
    <3> QED
      BY <1>1, <1>2, <2>1, <3>1, ZenonT(30) DEF RangeSleep, ManualWaits
  <2>3. CASE ~manual_done[t] /\ bg_error_ = "ok"
    <3>1. /\ pc' = [pc EXCEPT ![t] = "range_wait"]
          /\ IF manual_compaction_ = NULL THEN manual_compaction_' = t /\ MaybeScheduleCompaction
             ELSE UNCHANGED <<manual_compaction_, bg_compaction_scheduled_, jobs>>
      BY <1>1, <1>2, <1>7, <2>3, ZenonT(30) DEF AwaitRange
    <3>2. pc'[t] \in RangeSleep /\ RangeKept
      BY <1>2, <3>1 DEF RangeSleep, RangeKept
    <3> QED
      BY <1>1, <1>2, <2>1, <2>3, <3>1, <3>2, ZenonT(30) DEF RangeKept, RangeSleep, ManualWaits
  <2> QED
    BY <2>2, <2>3, ZenonT(30)
<1> QED
  BY <1>3, <1>4, <1>5, <1>6, <1>7, ZenonT(30) DEF WriterStep

(* MaybeScheduleCompaction queues a job only where there is none.           *)
LEMMA ScheduleOneJob ==
  ASSUME TypeOK, OneJob, MaybeScheduleCompaction, UNCHANGED bg
  PROVE  OneJob'
<1>1. jobs \in Nat /\ bg_compaction_scheduled_ \in BOOLEAN
  BY DEF TypeOK, BackgroundType
<1>2. CASE MaybeSchedule(bg_compaction_scheduled_)
  <2>1. ~bg_compaction_scheduled_ /\ bg_compaction_scheduled_' /\ jobs' = jobs + 1
    BY <1>2, ZenonT(30) DEF MaybeSchedule, MaybeScheduleCompaction
  <2> QED
    BY <1>1, <2>1 DEF OneJob
<1>3. CASE ~MaybeSchedule(bg_compaction_scheduled_)
  BY <1>1, <1>3 DEF MaybeScheduleCompaction, OneJob
<1> QED
  BY <1>2, <1>3

(* A step of a client thread keeps BackgroundInv.                           *)
LEMMA ClientStep ==
  ASSUME TypeOK, BackgroundInv, NEW t \in Threads, Invoke(t) \/ WriterStep(t)
  PROVE  BackgroundInv'
<1> DEFINE Quiet == UNCHANGED <<has_imm, bg_compaction_scheduled_, jobs>>
           Switch == MaybeScheduleCompaction /\ has_imm' = TRUE /\ ~Full
                       /\ UNCHANGED manual_compaction_
           Register == /\ MaybeScheduleCompaction /\ UNCHANGED has_imm
                       /\ manual_compaction_ = NULL /\ manual_compaction_' = t
<1>1. /\ UNCHANGED <<l0, seek, bg, nested, inputs, is_manual, shutting_down_, dtor>>
      /\ ~shutting_down_
      /\ bg_error_' = bg_error_ \/ bg_error_' # "ok"
      /\ \/ Quiet /\ UNCHANGED manual_compaction_
         \/ Switch
         \/ Quiet /\ manual_compaction_' = NULL /\ bg_error_ # "ok"
         \/ Register /\ pc'[t] \in RangeSleep /\ ~manual_done[t] /\ bg_error_ = "ok"
      /\ \/ manual_compaction_' # manual_compaction_
         \/ manual_compaction_ = NULL
         \/ pc'[manual_compaction_] \in RangeSleep
      /\ \A u \in Threads : pc[u] \in RangeSleep => UNCHANGED <<manual_done[u], pieces[u]>>
  BY ClientEffect, ZenonT(30) DEF dtorVars
<1>2. /\ jobs \in Nat /\ l0 \in Nat /\ inputs \in Nat /\ kL0_StopWritesTrigger \in Nat
      /\ bg_compaction_scheduled_ \in BOOLEAN
      /\ manual_compaction_ \in Threads \cup {NULL} /\ NULL \notin Threads
  BY LimitsAssumption, NullAssumption DEF TypeOK, StoreType, BackgroundType, ManualType
<1>3. OneJob'
  <2>1. Quiet \/ MaybeScheduleCompaction
    BY <1>1, ZenonT(30)
  <2>2. CASE Quiet
    BY <1>1, <2>2, ZenonT(30) DEF BackgroundInv, OneJob
  <2>3. CASE MaybeScheduleCompaction
    BY <1>1, <1>2, <2>3, ScheduleOneJob, ZenonT(30) DEF BackgroundInv
  <2> QED
    BY <2>1, <2>2, <2>3
<1>4. WorkIsScheduled'
  <2>1. CASE Quiet
    BY <1>1, <2>1, ZenonT(30) DEF Switch, Register, MaybeScheduleCompaction, MaybeSchedule,
                    BackgroundInv,
                      WorkIsScheduled, NeedsCompaction
  <2>2. CASE MaybeScheduleCompaction
    BY <1>1, <1>2, <2>2, ZenonT(30) DEF MaybeScheduleCompaction, MaybeSchedule, WorkIsScheduled
  <2> QED
    BY <1>1, <2>1, <2>2, ZenonT(30)
<1>5. Level0Bounded'
  <2>1. l0' = l0 /\ Level0Bounded
    BY <1>1 DEF BackgroundInv
  <2>2. CASE has_imm' = has_imm
    BY <2>1, <2>2 DEF Level0Bounded
  <2>3. CASE has_imm' = TRUE /\ ~Full
    <3>1. l0 + 1 <= kL0_StopWritesTrigger
      BY <1>2, <2>3 DEF Full
    <3> QED
      BY <2>1, <2>3, <3>1 DEF Level0Bounded
  <2> QED
    BY <1>1, <2>2, <2>3, ZenonT(30)
<1>6. CancelledOnlyAfterError'
  BY <1>1 DEF BackgroundInv, CancelledOnlyAfterError
<1>7. FlushHasImm' /\ InputsThere'
  BY <1>1 DEF BackgroundInv, FlushHasImm, InputsThere, Merging
<1>8. ManualAtWork'
  <2> SUFFICES ASSUME Merging, is_manual
               PROVE  IF manual_compaction_' = NULL THEN bg_error_' # "ok"
                      ELSE pieces'[manual_compaction_'] > 0
    BY <1>1 DEF ManualAtWork, Merging
  <2>1. IF manual_compaction_ = NULL THEN bg_error_ # "ok" ELSE pieces[manual_compaction_] > 0
    BY DEF BackgroundInv, ManualAtWork
  <2>2. CASE manual_compaction_' = manual_compaction_ /\ manual_compaction_ # NULL
    BY <1>1, <1>2, <2>1, <2>2, ZenonT(30) DEF BackgroundInv, ManualWaits, RangeSleep
  <2> QED
    BY <1>1, <1>2, <2>1, <2>2, ZenonT(30)
<1>9. ManualWaits'
  <2>1. CASE manual_compaction_' = manual_compaction_ /\ manual_compaction_ # NULL
    BY <1>1, <1>2, <2>1, ZenonT(30) DEF BackgroundInv, ManualWaits, RangeSleep
  <2>2. CASE manual_compaction_ = NULL /\ manual_compaction_' = t
    <3>1. pc'[t] \in RangeSleep /\ ~manual_done'[t]
      <4>1. pc'[t] \in RangeSleep /\ ~manual_done[t]
        BY <1>1, <1>2, <2>2, ZenonT(30)
      <4>2. manual_done'[t] = manual_done[t]
        <5>1. Invoke(t) => UNCHANGED manual_compaction_
          BY DEF Invoke
        <5>2. WriterStep(t) => UNCHANGED manual_done
          BY ZenonT(30) DEF WriterStep, Enter, Wake, RetryRoom, MakeRoomForWrite, AddRecord,
                    SyncLog, InsertInto,
                 AppendUnchanged, Commit, AwaitMemTable, AwaitRange, manualVars
        <5> QED
          BY <1>2, <2>2, <5>1, <5>2
      <4> QED
        BY <4>1, <4>2
    <3> QED
      BY <2>2, <3>1, ZenonT(30) DEF ManualWaits, RangeSleep
  <2>3. CASE manual_compaction_' = NULL
    BY <2>3, ZenonT(30) DEF ManualWaits
  <2> QED
    BY <1>1, <2>1, <2>2, <2>3, ZenonT(30)
<1>10. CloseIsLast'
  BY <1>1, ZenonT(30) DEF BackgroundInv, CloseIsLast
<1> QED
  BY <1>3, <1>4, <1>5, <1>6, <1>7, <1>8, <1>9, <1>10 DEF BackgroundInv

(* The end of BackgroundCall, with no other job queued.                     *)
LEMMA CallEndEffect ==
  ASSUME TypeOK, CloseIsLast, BackgroundCallEnd(0), UNCHANGED shutting_down_, dtor # "closed"
  PROVE  OneJob' /\ WorkIsScheduled' /\ bg' = "idle" /\ CloseIsLast' /\ RangeKept
<1>1. bg' = "idle" /\ pc' = SignalAll(pc) /\ SignalDtor
  BY DEF BackgroundCallEnd
<1>2. CASE MaybeSchedule(FALSE)
  <2>1. bg_compaction_scheduled_' /\ jobs' = 1
    <3>1. MaybeSchedule(FALSE) = TRUE
      BY <1>2 DEF MaybeSchedule
    <3>2. bg_compaction_scheduled_'
      BY <3>1, ZenonT(30) DEF BackgroundCallEnd
    <3>3. jobs' = 0 + 1
      BY <3>1, ZenonT(30) DEF BackgroundCallEnd
    <3> QED
      BY <3>2, <3>3
  <2> QED
    BY <1>1, <2>1, SignalAllKeeps DEF OneJob, WorkIsScheduled, CloseIsLast, SignalDtor
<1>3. CASE ~MaybeSchedule(FALSE)
  <2>1. ~bg_compaction_scheduled_' /\ jobs' = 0
    BY <1>3, ZenonT(30) DEF BackgroundCallEnd
  <2>2. WorkIsScheduled'
    BY <1>3 DEF MaybeSchedule, WorkIsScheduled
  <2> QED
    BY <1>1, <2>1, <2>2, SignalAllKeeps DEF OneJob, CloseIsLast, SignalDtor
<1> QED
  BY <1>2, <1>3, ZenonT(30)

(* While a job runs no other is queued, and the destructor waits.           *)
LEMMA JobRuns ==
  ASSUME TypeOK, BackgroundInv, bg # "idle" \/ jobs > 0
  PROVE  /\ bg_compaction_scheduled_ /\ dtor # "closed"
         /\ bg # "idle" => jobs = 0
         /\ bg = "idle" => jobs = 1
BY DEF TypeOK, BackgroundType, BackgroundInv, OneJob, CloseIsLast

(* A step that keeps bg_compaction_scheduled_ set and takes over the queued *)
(* job, or is already in it.                                                *)
LEMMA StillRunning ==
  ASSUME TypeOK, CloseIsLast, bg_compaction_scheduled_, bg_compaction_scheduled_', jobs' = 0,
         bg' # "idle", UNCHANGED <<pc, dtor, shutting_down_>>
  PROVE  OneJob' /\ WorkIsScheduled' /\ CloseIsLast' /\ RangeKept
BY SignalAllKeeps DEF OneJob, WorkIsScheduled, CloseIsLast, RangeKept

(* The waiter of a manual compaction still waits, if it is still registered. *)
LEMMA ManualStillWaits ==
  ASSUME TypeOK, ManualWaits, RangeKept,
         manual_compaction_' = NULL \/ UNCHANGED <<manual_compaction_, manual_done>>
  PROVE  ManualWaits'
BY NullAssumption DEF TypeOK, ManualType, ManualWaits, RangeKept, RangeSleep

(* BackgroundCall keeps BackgroundInv.                                      *)
LEMMA BackgroundCallStep ==
  ASSUME TypeOK, BackgroundInv, BackgroundCall
  PROVE  BackgroundInv'
<1>1. /\ jobs = 1 /\ bg_compaction_scheduled_ /\ dtor # "closed" /\ CloseIsLast /\ ManualWaits
      /\ UNCHANGED <<has_imm, l0, seek, bg_error_, pieces, shutting_down_>>
  BY JobRuns, ZenonT(30) DEF BackgroundCall, verVars, bgUnchanged, BackgroundInv
<1>2. Level0Bounded'
  BY <1>1 DEF BackgroundInv, Level0Bounded
<1>3. ASSUME BackgroundCallEnd(jobs - 1),
             manual_compaction_' = NULL \/ UNCHANGED <<manual_compaction_, manual_done>>
      PROVE  BackgroundInv'
  <2>1. OneJob' /\ WorkIsScheduled' /\ bg' = "idle" /\ CloseIsLast' /\ RangeKept
    BY <1>1, <1>3, CallEndEffect
  <2>2. ManualWaits'
    BY <1>1, <1>3, <2>1, ManualStillWaits
  <2> QED
    BY <1>2, <2>1, <2>2, ZenonT(30) DEF BackgroundInv, CancelledOnlyAfterError, FlushHasImm, InputsThere,
                            ManualAtWork, Merging
<1>4. CASE /\ has_imm /\ bg' = "build" /\ nested' = FALSE /\ jobs' = jobs - 1
           /\ UNCHANGED <<pc, dtor, bg_compaction_scheduled_, inputs, is_manual,
                          manual_compaction_, manual_done>>
  <2>1. OneJob' /\ WorkIsScheduled' /\ CloseIsLast' /\ RangeKept
    BY <1>1, <1>4, StillRunning
  <2>2. ManualWaits'
    BY <1>1, <1>4, <2>1, ManualStillWaits
  <2> QED
    BY <1>1, <1>2, <1>4, <2>1, <2>2 DEF BackgroundInv, CancelledOnlyAfterError, FlushHasImm,
                                        InputsThere, ManualAtWork, Merging
<1>5. CASE /\ IF manual_compaction_ # NULL THEN pieces[manual_compaction_] > 0
              ELSE NeedsCompaction(l0, seek)
           /\ is_manual' = (manual_compaction_ # NULL)
           /\ inputs' \in Level0Inputs(manual_compaction_) /\ bg' \in {"merge", "install"}
           /\ jobs' = jobs - 1
           /\ UNCHANGED <<pc, dtor, bg_compaction_scheduled_, nested,
                          manual_compaction_, manual_done>>
  <2>1. OneJob' /\ WorkIsScheduled' /\ CloseIsLast' /\ RangeKept
    BY <1>1, <1>5, StillRunning
  <2>2. ManualWaits'
    BY <1>1, <1>5, <2>1, ManualStillWaits
  <2>3. InputsThere'
    BY <1>1, <1>5 DEF Level0Inputs, InputsThere, TypeOK, StoreType
  <2>4. ManualAtWork'
    BY <1>1, <1>5, ZenonT(30) DEF ManualAtWork
  <2>5. CancelledOnlyAfterError' /\ FlushHasImm'
    BY <1>5 DEF CancelledOnlyAfterError, FlushHasImm
  <2> QED
    BY <1>2, <2>1, <2>2, <2>3, <2>4, <2>5 DEF BackgroundInv
<1> QED
  <2>1. \/ BackgroundCallEnd(jobs - 1)
             /\ (manual_compaction_' = NULL \/ UNCHANGED <<manual_compaction_, manual_done>>)
        \/ /\ has_imm /\ bg' = "build" /\ nested' = FALSE /\ jobs' = jobs - 1
           /\ UNCHANGED <<pc, dtor, bg_compaction_scheduled_, inputs, is_manual,
                          manual_compaction_, manual_done>>
        \/ /\ IF manual_compaction_ # NULL THEN pieces[manual_compaction_] > 0
              ELSE NeedsCompaction(l0, seek)
           /\ is_manual' = (manual_compaction_ # NULL)
           /\ inputs' \in Level0Inputs(manual_compaction_) /\ bg' \in {"merge", "install"}
           /\ jobs' = jobs - 1
           /\ UNCHANGED <<pc, dtor, bg_compaction_scheduled_, nested,
                          manual_compaction_, manual_done>>
    BY DEF BackgroundCall
  <2> QED
    BY <1>3, <1>4, <1>5, <2>1, ZenonT(30)

(* The flush of imm_ is over, whether it worked or not.                     *)
LEMMA FlushEndStep ==
  ASSUME TypeOK, BackgroundInv, bg \in {"build", "apply"}, FlushEnd,
         bg_error_' = bg_error_ \/ bg_error_' # "ok", l0' \in Nat, l0' >= l0, Level0Bounded'
  PROVE  BackgroundInv'
<1>1. /\ jobs = 0 /\ bg_compaction_scheduled_ /\ dtor # "closed" /\ CloseIsLast /\ ManualWaits
      /\ UNCHANGED <<nested, inputs, is_manual, manual_compaction_, manual_done, pieces,
                     shutting_down_>>
  BY JobRuns DEF FlushEnd, manualVars, bgUnchanged, BackgroundInv
<1>2. CASE ~nested
  <2>1. OneJob' /\ WorkIsScheduled' /\ bg' = "idle" /\ CloseIsLast' /\ RangeKept
    BY <1>1, <1>2, CallEndEffect, ZenonT(30) DEF FlushEnd
  <2>2. ManualWaits'
    BY <1>1, <2>1, ManualStillWaits
  <2> QED
    BY <2>1, <2>2 DEF BackgroundInv, CancelledOnlyAfterError, FlushHasImm, InputsThere,
                      ManualAtWork, Merging
<1>3. CASE nested
  <2>1. /\ bg' = "merge" /\ pc' = SignalAll(pc) /\ SignalDtor
        /\ UNCHANGED <<bg_compaction_scheduled_, jobs>>
    BY <1>3 DEF FlushEnd
  <2>2. OneJob' /\ WorkIsScheduled'
    BY <1>1, <2>1 DEF OneJob, WorkIsScheduled
  <2>3. CloseIsLast' /\ RangeKept
    BY <1>1, <2>1, SignalAllKeeps DEF CloseIsLast, SignalDtor
  <2>4. ManualWaits'
    BY <1>1, <2>3, ManualStillWaits
  <2>5. InputsThere'
    BY <1>1, <1>3 DEF InputsThere, Merging, BackgroundInv, TypeOK, StoreType, BackgroundType
  <2>6. ManualAtWork'
    BY <1>1, <1>3 DEF ManualAtWork, Merging, BackgroundInv
  <2>7. CancelledOnlyAfterError' /\ FlushHasImm'
    BY <2>1 DEF CancelledOnlyAfterError, FlushHasImm
  <2> QED
    BY <2>2, <2>3, <2>4, <2>5, <2>6, <2>7 DEF BackgroundInv
<1> QED
  BY <1>2, <1>3

(* The end of BackgroundCompaction.                                         *)
LEMMA CompactionEndStep ==
  ASSUME TypeOK, BackgroundInv, Merging, NEW s, CompactionEnd(s),
         bg_error_' = bg_error_ \/ bg_error_' # "ok", l0' \in Nat, l0' <= l0
  PROVE  BackgroundInv'
<1>1. /\ jobs = 0 /\ bg_compaction_scheduled_ /\ dtor # "closed" /\ CloseIsLast /\ ManualWaits
      /\ UNCHANGED <<has_imm, nested, inputs, is_manual, shutting_down_>>
      /\ bg # "idle"
  BY JobRuns DEF CompactionEnd, bgUnchanged, BackgroundInv, Merging
<1>2. Level0Bounded'
  <2>1. l0 \in Nat /\ kL0_StopWritesTrigger \in Nat /\ Level0Bounded
    BY LimitsAssumption DEF BackgroundInv, TypeOK, StoreType
  <2>2. CASE has_imm
    <3>1. l0' + 1 <= kL0_StopWritesTrigger
      <4>1. l0 + 1 <= kL0_StopWritesTrigger
        BY <2>1, <2>2 DEF Level0Bounded
      <4>2. \A a, b, c \in Nat : a <= b /\ b + 1 <= c => a + 1 <= c
        OBVIOUS
      <4> QED
        BY <2>1, <4>1, <4>2, ZenonT(30)
    <3>2. has_imm'
      BY <1>1, <2>2
    <3> QED
      BY <3>1, <3>2 DEF Level0Bounded
  <2>3. CASE ~has_imm
    <3>1. l0' <= kL0_StopWritesTrigger
      BY <2>1, <2>3 DEF Level0Bounded
    <3>2. ~has_imm'
      BY <1>1, <2>3
    <3> QED
      BY <3>1, <3>2 DEF Level0Bounded
  <2> QED
    BY <2>2, <2>3
<1>3. ASSUME BackgroundCallEnd(jobs), manual_compaction_' = NULL \/ UNCHANGED manualVars
      PROVE  BackgroundInv'
  <2>1. OneJob' /\ WorkIsScheduled' /\ bg' = "idle" /\ CloseIsLast' /\ RangeKept
    BY <1>1, <1>3, CallEndEffect
  <2>2. ManualWaits'
    BY <1>1, <1>3, <2>1, ManualStillWaits DEF manualVars
  <2> QED
    BY <1>2, <2>1, <2>2, ZenonT(30) DEF BackgroundInv, CancelledOnlyAfterError, FlushHasImm, InputsThere,
                            ManualAtWork, Merging
<1>4. CASE /\ is_manual /\ manual_compaction_ = NULL /\ bg' = "crashed"
           /\ UNCHANGED <<pc, dtor, bg_compaction_scheduled_, jobs, manualVars>>
  <2>1. OneJob' /\ WorkIsScheduled' /\ CloseIsLast' /\ RangeKept
    BY <1>1, <1>4, StillRunning
  <2>2. ManualWaits'
    BY <1>1, <1>4, <2>1, ManualStillWaits DEF manualVars
  <2>3. CancelledOnlyAfterError'
    BY <1>4 DEF CancelledOnlyAfterError, BackgroundInv, ManualAtWork
  <2> QED
    BY <1>2, <1>4, <2>1, <2>2, <2>3, ZenonT(30) DEF BackgroundInv, FlushHasImm, InputsThere,
                    ManualAtWork, Merging
<1>5. \/ BackgroundCallEnd(jobs) /\ (manual_compaction_' = NULL \/ UNCHANGED manualVars)
      \/ /\ is_manual /\ manual_compaction_ = NULL /\ bg' = "crashed"
         /\ UNCHANGED <<pc, dtor, bg_compaction_scheduled_, jobs, manualVars>>
  BY DEF CompactionEnd
<1> QED
  BY <1>3, <1>4, <1>5

(* BackgroundInv is inductive, given the types.                             *)
LEMMA BackgroundInvStep ==
  ASSUME TypeOK, BackgroundInv, [Next]_vars
  PROVE  BackgroundInv'
<1>1. ASSUME NEW t \in Threads, Invoke(t) \/ WriterStep(t)
      PROVE  BackgroundInv'
  BY <1>1, ClientStep
<1>2. CASE BackgroundCall
  BY <1>2, BackgroundCallStep
<1>3. ASSUME bg' \in {"apply", "install", "build"}, bg # "idle", bg # "crashed",
             UNCHANGED <<pc, dtor, has_imm, verVars, bg_error_, inputs, is_manual,
                         bg_compaction_scheduled_, jobs, manualVars>>,
             bgUnchanged, Merging' => Merging, FlushHasImm'
      PROVE  BackgroundInv'
  <2>1. /\ jobs = 0 /\ bg_compaction_scheduled_ /\ CloseIsLast /\ ManualWaits
        /\ UNCHANGED <<shutting_down_, manual_compaction_, manual_done, pieces, l0>>
    BY <1>3, JobRuns DEF bgUnchanged, verVars, manualVars, BackgroundInv
  <2>2. OneJob' /\ WorkIsScheduled' /\ CloseIsLast' /\ RangeKept
    BY <1>3, <2>1, StillRunning
  <2>3. ManualWaits'
    BY <2>1, <2>2, ManualStillWaits
  <2>4. Level0Bounded' /\ InputsThere' /\ ManualAtWork' /\ CancelledOnlyAfterError'
    BY <1>3, <2>1 DEF BackgroundInv, Level0Bounded, InputsThere, ManualAtWork,
                    CancelledOnlyAfterError
  <2> QED
    BY <1>3, <2>2, <2>3, <2>4 DEF BackgroundInv
<1>4. CASE BuildTable
  <2>1. CASE FlushFails("table")
    <3>1. /\ FlushEnd /\ bg_error_' # "ok" /\ UNCHANGED <<l0, has_imm>>
          /\ bg \in {"build", "apply"} /\ l0 \in Nat
      BY <1>4, <2>1 DEF BuildTable, FlushFails, RecordBackgroundError, verVars, TypeOK, StoreType
    <3>2. Level0Bounded' /\ l0' \in Nat /\ l0' >= l0
      BY <3>1 DEF BackgroundInv, Level0Bounded
    <3> QED
      BY <3>1, <3>2, FlushEndStep
  <2>2. CASE ~FlushFails("table")
    BY <1>3, <1>4, <2>2, ZenonT(30) DEF BuildTable, Merging, FlushHasImm, BackgroundInv
  <2> QED
    BY <2>1, <2>2

<1>5. CASE ApplyFlush
  <2>1. has_imm /\ bg \in {"build", "apply"} /\ l0 \in Nat /\ kL0_StopWritesTrigger \in Nat
    BY <1>5, LimitsAssumption DEF ApplyFlush, BackgroundInv, FlushHasImm, TypeOK, StoreType
  <2>2. CASE FlushFails("manifest")
    <3>1. FlushEnd /\ bg_error_' # "ok" /\ UNCHANGED <<l0, has_imm>>
      BY <2>2 DEF FlushFails, RecordBackgroundError, verVars
    <3>2. Level0Bounded' /\ l0' \in Nat /\ l0' >= l0
      BY <2>1, <3>1 DEF BackgroundInv, Level0Bounded
    <3> QED
      BY <2>1, <3>1, <3>2, FlushEndStep
  <2>3. CASE FlushEnd /\ has_imm' = FALSE /\ l0' \in {l0, l0 + 1} /\ UNCHANGED bg_error_
    <3>1. Level0Bounded' /\ l0' \in Nat /\ l0' >= l0
      <4>1. l0 + 1 <= kL0_StopWritesTrigger
        BY <2>1 DEF BackgroundInv, Level0Bounded
      <4>2. l0' \in Nat /\ l0' >= l0 /\ l0' <= kL0_StopWritesTrigger
        BY <2>1, <2>3, <4>1
      <4>3. ~has_imm'
        BY <2>3
      <4> QED
        BY <4>2, <4>3 DEF Level0Bounded
    <3> QED
      BY <2>1, <2>3, <3>1, FlushEndStep
  <2> QED
    BY <1>5, <2>2, <2>3, ZenonT(30) DEF ApplyFlush
<1>6. CASE MergeFlush
  BY <1>3, <1>6 DEF MergeFlush, Merging, FlushHasImm
<1>7. ASSUME NEW e, CompactionFails(e), e # "ok", Merging
      PROVE  BackgroundInv'
  <2>1. CompactionEnd(e) /\ bg_error_' # "ok" /\ UNCHANGED l0 /\ l0 \in Nat
    BY <1>7 DEF CompactionFails, RecordBackgroundError, TypeOK, StoreType
  <2> QED
    BY <1>7, <2>1, CompactionEndStep
<1>8. CASE MergeDone
  <2>1. CASE CompactionFails("merge")
    BY <1>7, <1>8, <2>1 DEF MergeDone, Merging
  <2>2. CASE ~CompactionFails("merge")
    BY <1>3, <1>8, <2>2 DEF MergeDone, Merging, FlushHasImm
  <2> QED
    BY <2>1, <2>2
<1>9. CASE Install
  <2>1. CASE CompactionFails("manifest")
    BY <1>7, <1>9, <2>1 DEF Install, Merging
  <2>2. CASE CompactionEnd("ok") /\ l0' = l0 - inputs /\ UNCHANGED bg_error_
    <3>1. Merging /\ inputs <= l0
      BY <1>9 DEF Install, Merging, BackgroundInv, InputsThere
    <3>2. l0' \in Nat /\ l0' <= l0
      BY <2>2, <3>1 DEF TypeOK, StoreType, BackgroundType
    <3> QED
      BY <2>2, <3>1, <3>2, CompactionEndStep
  <2> QED
    BY <1>9, <2>1, <2>2 DEF Install
<1>10. CASE UpdateStats
  <2>1. /\ MaybeScheduleCompaction /\ seek' = TRUE
        /\ UNCHANGED <<pc, has_imm, l0, bg_error_, bg, nested, inputs, is_manual,
                       manual_compaction_, manual_done, pieces, shutting_down_, dtor>>
        /\ ~shutting_down_ /\ dtor = "open"
    BY <1>10 DEF UpdateStats, threadVars, memVars, manualVars, dtorVars, BackgroundInv, CloseIsLast
  <2>2. OneJob'
    BY <2>1, ScheduleOneJob DEF BackgroundInv
  <2>3. WorkIsScheduled'
    BY <2>1, ZenonT(30) DEF MaybeScheduleCompaction, MaybeSchedule, WorkIsScheduled, TypeOK,
                    BackgroundType
  <2>4. CloseIsLast' /\ ManualWaits' /\ CancelledOnlyAfterError' /\ FlushHasImm'
    BY <2>1, ZenonT(30) DEF BackgroundInv, CloseIsLast, ManualWaits, CancelledOnlyAfterError, FlushHasImm
  <2>5. Level0Bounded' /\ InputsThere' /\ ManualAtWork'
    BY <2>1 DEF BackgroundInv, Level0Bounded, InputsThere, ManualAtWork, Merging
  <2> QED
    BY <2>2, <2>3, <2>4, <2>5 DEF BackgroundInv
<1>11. CASE Close \/ CloseWoken
  <2>1. /\ UNCHANGED <<pc, has_imm, l0, seek, bg_error_, bg, nested, inputs, is_manual, jobs,
                       bg_compaction_scheduled_, manual_compaction_, manual_done, pieces>>
        /\ shutting_down_' = TRUE /\ \A t \in Threads : pc[t] = "idle"
        /\ AwaitBackground
    BY <1>11, ZenonT(30) DEF Close, CloseWoken, threadVars, memVars, verVars, bgVars, manualVars,
                    BackgroundInv,
                 CloseIsLast, TypeOK, BackgroundType
  <2>2. OneJob' /\ WorkIsScheduled' /\ Level0Bounded'
    BY <2>1 DEF BackgroundInv, OneJob, WorkIsScheduled, Level0Bounded
  <2>3. ManualWaits' /\ CancelledOnlyAfterError' /\ FlushHasImm' /\ InputsThere' /\ ManualAtWork'
    BY <2>1, ZenonT(30) DEF BackgroundInv, ManualWaits, CancelledOnlyAfterError, FlushHasImm,
                    InputsThere,
                ManualAtWork, Merging
  <2>4. CloseIsLast'
    BY <2>1 DEF AwaitBackground, CloseIsLast
  <2> QED
    BY <2>2, <2>3, <2>4 DEF BackgroundInv
<1>12. CASE UNCHANGED vars
  BY <1>12, ZenonT(30) DEF vars, threadVars, memVars, verVars, bgVars, manualVars, dtorVars,
                    BackgroundInv, OneJob,
     WorkIsScheduled, Level0Bounded, ManualWaits, CancelledOnlyAfterError, FlushHasImm, InputsThere,
     ManualAtWork, Merging, CloseIsLast, NeedsCompaction
<1> QED
  BY <1>1, <1>2, <1>4, <1>5, <1>6, <1>8, <1>9, <1>10, <1>11, <1>12 DEF Next, BackgroundStep, Stopped

-----------------------------------------------------------------------------
(* The initial state.                                                       *)
LEMMA InitHolds ==
  ASSUME Init
  PROVE  TypeOK /\ BackgroundInv
<1>1. NoCall \in CallType
  BY LimitsAssumption DEF NoCall, CallType
<1>2. ThreadsType /\ QueueType
  BY <1>1, LimitsAssumption DEF Init, ThreadsType, QueueType, Positions, Statuses
<1>3. GroupType /\ StoreType
  BY ZenonT(30) DEF Init, GroupType, StoreType
<1>4. BackgroundType /\ ManualType /\ HistoryType
  BY ZenonT(30) DEF Init, BackgroundType, ManualType, HistoryType, Statuses
<1>5. OneJob /\ WorkIsScheduled /\ Level0Bounded
  BY LimitsAssumption DEF Init, OneJob, WorkIsScheduled, Level0Bounded, NeedsCompaction
<1>6. CancelledOnlyAfterError /\ FlushHasImm /\ InputsThere /\ ManualAtWork /\ ManualWaits /\ CloseIsLast
  BY DEF Init, CancelledOnlyAfterError, FlushHasImm, InputsThere, ManualAtWork, Merging,
         ManualWaits,
         CloseIsLast
<1> QED
  BY <1>2, <1>3, <1>4, <1>5, <1>6 DEF TypeOK, BackgroundInv

(* Types and the background invariant hold together in every state.         *)
LEMMA Invariance == Spec => [](TypeOK /\ BackgroundInv)
<1>1. Init => TypeOK /\ BackgroundInv
  BY InitHolds
<1>2. TypeOK /\ BackgroundInv /\ [Next]_vars => (TypeOK /\ BackgroundInv)'
  BY TypeStep, BackgroundInvStep
<1> QED
  BY <1>1, <1>2, PTL DEF Spec

-----------------------------------------------------------------------------
(* What every state of the program satisfies, whatever the threads, calls,  *)
(* thresholds and failures.                                                 *)

(* Every variable of DBImpl keeps its type; in particular l0 and the passes *)
(* left of a manual compaction never go negative.                           *)
THEOREM Types == Spec => []TypeOK
BY Invariance, PTL

(* Background work that is wanted is scheduled: MaybeScheduleCompaction is  *)
(* called at every place that makes work or finishes a job.                 *)
THEOREM Scheduled == Spec => []WorkIsScheduled
<1>1. BackgroundInv => WorkIsScheduled
  BY DEF BackgroundInv
<1> QED
  BY <1>1, Invariance, PTL

(* bg_compaction_scheduled_ stands for exactly one job: BackgroundCall      *)
(* never runs twice at the same time.                                       *)
THEOREM SingleJob == Spec => []OneJob
<1>1. BackgroundInv => OneJob
  BY DEF BackgroundInv
<1> QED
  BY <1>1, Invariance, PTL

(* MakeRoomForWrite's stop trigger bounds level 0.                          *)
THEOREM BoundedLevel0 == Spec => []Level0Bounded
<1>1. BackgroundInv => Level0Bounded
  BY DEF BackgroundInv
<1> QED
  BY <1>1, Invariance, PTL

(* ~DBImpl returns only when no background work runs or is queued.          *)
THEOREM Quiet == Spec => []QuietAfterClose
<1>1. TypeOK /\ BackgroundInv => QuietAfterClose
  BY DEF TypeOK, BackgroundType, BackgroundInv, OneJob, CloseIsLast, QuietAfterClose
<1> QED
  BY <1>1, Invariance, PTL

(* A manual compaction at work is withdrawn only after a background error.  *)
THEOREM Cancelled == Spec => []CancelledOnlyAfterError
<1>1. BackgroundInv => CancelledOnlyAfterError
  BY DEF BackgroundInv
<1> QED
  BY <1>1, Invariance, PTL
=============================================================================
