------------------------------ MODULE WritePath ------------------------------
(***************************************************************************)
(* DBImpl's mutex_, writers_ queue, bg_cv_ and background thread           *)
(* (db/db_impl.cc): group commit in Write, the memtable switch in          *)
(* MakeRoomForWrite, the flush of imm_, background and manual compactions  *)
(* and the destructor.                                                     *)
(*                                                                         *)
(* A step is one critical section of mutex_ (from Lock, or the return of a *)
(* Wait, to the next Unlock or Wait) or one piece of unlocked work (an     *)
(* append, a sync, one memtable insertion, a table build, a MANIFEST       *)
(* write).  An entry is identified by its sequence number, so a memtable,  *)
(* a log file and the set of tables are sets of numbers.  Sizes count      *)
(* entries.  Condition variables have the contract of port_example.h       *)
(* (a waiter sleeps until it is signalled); PortCondVar checks the port.   *)
(***************************************************************************)
EXTENDS Integers, Sequences, FiniteSets

CONSTANTS
  Threads,      \* client threads
  NULL,         \* the null pointer, not a thread
  Calls,        \* what a thread may call: see CallsAssumption
  MaxCalls,     \* bound: calls per thread
  MaxCount,     \* operations in a batch at most: its count is a fixed32
  Faults,       \* the I/O operations that may fail
  write_buffer_size,
  kSmallGroup, kMaxGroup,        \* 128<<10 and 1<<20 of BuildBatchGroup
  kL0_CompactionTrigger, kL0_SlowdownWritesTrigger, kL0_StopWritesTrigger

Operations == {"Write", "CompactMemTable", "CompactRange"}
IOOperations == {"append", "sync", "newlog", "table", "manifest", "merge"}

(* count: operations in the batch of a Write; sync: WriteOptions::sync;      *)
(* pieces: passes a manual compaction needs, as CompactRange truncates its   *)
(* inputs.  Only a Write passes a batch: TEST_CompactMemTable passes NULL.   *)
CallType == [op : Operations, count : 0 .. MaxCount, sync : BOOLEAN, pieces : Nat]

ASSUME CallsAssumption ==
  /\ Calls \subseteq CallType
  /\ \A c \in Calls : c.op # "Write" => c.count = 0 /\ ~c.sync
ASSUME NullAssumption == NULL \notin Threads
ASSUME FaultsAssumption == Faults \subseteq IOOperations
ASSUME LimitsAssumption ==
  /\ MaxCalls \in Nat /\ MaxCount \in Nat /\ write_buffer_size \in Nat
  /\ kSmallGroup \in Nat /\ kMaxGroup \in Nat
  /\ kL0_CompactionTrigger \in Nat \ {0}
  /\ kL0_SlowdownWritesTrigger \in Nat
  /\ kL0_StopWritesTrigger \in Nat
  /\ kL0_CompactionTrigger <= kL0_StopWritesTrigger

VARIABLES
  pc, call, calls,                   \* per thread: position, call, calls made
  writers_, done, status, allow_delay,
  group, upto, next,                 \* the leader's group, its last_sequence, InsertInto's cursor
  mem_, imm_, has_imm,               \* has_imm: imm_ # NULL
  log, retired, durable,             \* logfile_, earlier logs, what survives a machine crash
  tables, l0, seek,                  \* current version: entries, NumLevelFiles(0), file_to_compact_
  last_sequence,
  bg_error_, bg_compaction_scheduled_, jobs, bg, nested, inputs, is_manual,
  manual_compaction_, manual_done, pieces,
  shutting_down_, dtor,
  mine, acked, acked_sync, before    \* history: numbers given to a call, acknowledged, at call time

threadVars == <<pc, call, calls>>
queueVars  == <<writers_, done, status, allow_delay>>
groupVars  == <<group, upto, next>>
memVars    == <<mem_, imm_, has_imm>>
logVars    == <<log, retired, durable>>
verVars    == <<tables, l0, seek>>
bgVars     == <<bg_compaction_scheduled_, jobs, bg, nested, inputs, is_manual>>
manualVars == <<manual_compaction_, manual_done, pieces>>
dtorVars   == <<shutting_down_, dtor>>
histVars   == <<mine, acked, acked_sync, before>>
vars == <<threadVars, queueVars, groupVars, memVars, logVars, verVars, last_sequence,
          bg_error_, bgVars, manualVars, dtorVars, histVars>>

NoCall == [op |-> "Write", count |-> 0, sync |-> FALSE, pieces |-> 0]

Init ==
  /\ pc = [t \in Threads |-> "idle"] /\ call = [t \in Threads |-> NoCall]
  /\ calls = [t \in Threads |-> 0]
  /\ writers_ = <<>> /\ done = [t \in Threads |-> FALSE]
  /\ status = [t \in Threads |-> "ok"] /\ allow_delay = [t \in Threads |-> FALSE]
  /\ group = 0 /\ upto = 0 /\ next = 0
  /\ mem_ = {} /\ imm_ = {} /\ has_imm = FALSE
  /\ log = {} /\ retired = {} /\ durable = {}
  /\ tables = {} /\ l0 = 0 /\ seek = FALSE
  /\ last_sequence = 0
  /\ bg_error_ = "ok" /\ bg_compaction_scheduled_ = FALSE /\ jobs = 0 /\ bg = "idle"
  /\ nested = FALSE /\ inputs = 0 /\ is_manual = FALSE
  /\ manual_compaction_ = NULL /\ manual_done = [t \in Threads |-> FALSE]
  /\ pieces = [t \in Threads |-> 0]
  /\ shutting_down_ = FALSE /\ dtor = "open"
  /\ mine = [t \in Threads |-> {}] /\ acked = {} /\ acked_sync = {}
  /\ before = [t \in Threads |-> {}]

-----------------------------------------------------------------------------
(* Condition variables and scheduling.                                      *)

(* Names ending in _Bug are broken variants of the definition that follows  *)
(* them; no specification uses them.                                        *)

(* Signal() where SignalAll() is meant: CompactRange callers sleep on.      *)
SignalAll_Bug(p) ==
  [t \in Threads |-> CASE p[t] = "room_wait" -> "room_woken"
                       [] p[t] = "mem_wait" -> "mem_woken"
                       [] OTHER -> p[t]]

(* bg_cv_.SignalAll(): who waits on bg_cv_ is made runnable.                *)
SignalAll(p) ==
  [t \in Threads |-> CASE p[t] = "room_wait" -> "room_woken"
                       [] p[t] = "mem_wait" -> "mem_woken"
                       [] p[t] = "range_wait" -> "range_woken"
                       [] OTHER -> p[t]]
SignalDtor == dtor' = IF dtor = "wait" THEN "woken" ELSE dtor

(* VersionSet::NeedsCompaction: level 0 is the only scored level here.      *)
NeedsCompaction(n, s) == n >= kL0_CompactionTrigger \/ s

(* Forgets imm_, or that a job is scheduled already.                        *)
MaybeSchedule_ImmBug(scheduled) ==
  ~scheduled /\ ~shutting_down_' /\ bg_error_' = "ok"
    /\ (manual_compaction_' # NULL \/ NeedsCompaction(l0', seek'))
MaybeSchedule_TwiceBug(scheduled) ==
  ~shutting_down_' /\ bg_error_' = "ok"
    /\ (has_imm' \/ manual_compaction_' # NULL \/ NeedsCompaction(l0', seek'))

(* MaybeScheduleCompaction, on the state the step leaves behind.            *)
MaybeSchedule(scheduled) ==
  ~scheduled /\ ~shutting_down_' /\ bg_error_' = "ok"
    /\ (has_imm' \/ manual_compaction_' # NULL \/ NeedsCompaction(l0', seek'))
MaybeScheduleCompaction ==
  LET now == MaybeSchedule(bg_compaction_scheduled_) IN
  /\ bg_compaction_scheduled_' = (bg_compaction_scheduled_ \/ now)
  /\ jobs' = IF now THEN jobs + 1 ELSE jobs

(* RecordBackgroundError keeps the first error.                             *)
RecordBackgroundError(e) == IF bg_error_ = "ok" THEN e ELSE bg_error_

-----------------------------------------------------------------------------
(* The write path.                                                          *)

HasBatch(t) == call[t].op = "Write"

(* The operations in the batches of the first i writers of q: the pair      *)
(* <<j, n>> is operation n of the j-th writer's batch.                      *)
Ops(q, i) == UNION {{j} \X (1 .. call[q[j]].count) : j \in 1 .. i}
Count(q, i) == Cardinality(Ops(q, i))

(* BuildBatchGroup: how many writers, from the front of q, the leader       *)
(* commits.  Writer j joins if every writer up to it does.                  *)
MaxSize(q) == LET size == call[q[1]].count IN
              IF size <= kSmallGroup THEN size + kSmallGroup ELSE kMaxGroup
Joins_Bug(q, j) == HasBatch(q[j]) => Count(q, j) <= MaxSize(q)   \* w->sync ignored
Joins(q, j) == /\ ~(call[q[j]].sync /\ ~call[q[1]].sync)
               /\ HasBatch(q[j]) => Count(q, j) <= MaxSize(q)
BuildBatchGroup(q, k) ==
  /\ \A j \in 2 .. k : Joins(q, j)
  /\ k < Len(q) => ~Joins(q, k + 1)

(* What Write returns to its caller.  TEST_CompactMemTable goes on to wait  *)
(* for the memtable it forced out.                                          *)
ReturnTo(t, s) == IF call[t].op = "CompactMemTable" /\ s = "ok" THEN "mem_check" ELSE "idle"
Acknowledge(t, s) ==
  LET ok == s = "ok" /\ HasBatch(t) IN
  /\ acked' = IF ok THEN acked \cup mine[t] ELSE acked
  /\ acked_sync' = IF ok /\ call[t].sync THEN acked_sync \cup mine[t] ELSE acked_sync

Woken_Bug(q, k) == {q[i] : i \in 1 .. k}   \* does not notify the new head

(* Who Write signals once its group, the first k of q, is committed: the    *)
(* group and the new head of the queue.                                     *)
Woken(q, k) == {q[i] : i \in 1 .. (IF k < Len(q) THEN k + 1 ELSE k)}

(* The end of Write: pop the first k writers, hand each its status, wake    *)
(* them and the new head of the queue.  p is pc after earlier signals.      *)
Finish(t, q, k, s, p) ==
  LET popped == {q[i] : i \in 1 .. k}
  IN /\ writers_' = SubSeq(q, k + 1, Len(q))
     /\ done' = [u \in Threads |-> (u \in popped /\ u # t) \/ done[u]]
     /\ status' = [u \in Threads |-> IF u \in popped THEN s ELSE status[u]]
     /\ pc' = [u \in Threads |-> IF u = t THEN ReturnTo(t, s)
                                 ELSE IF u \in Woken(q, k) /\ p[u] = "queued" THEN "woken"
                                 ELSE p[u]]
     /\ Acknowledge(t, s)

(* The sequence numbers of u's operations in the group of the first k of q.  *)
Numbers(u, q, k) ==
  {n \in last_sequence + 1 .. last_sequence + Count(q, k) :
     \E j \in 1 .. k : /\ q[j] = u
                       /\ last_sequence + Count(q, j - 1) < n
                       /\ n <= last_sequence + Count(q, j)}

(* The rest of Write's critical section once MakeRoomForWrite says ok.      *)
(* A NULL batch commits nothing; otherwise the leader builds its group and  *)
(* unlocks to append it to the log.                                         *)
Proceed(t, q) ==
  \/ /\ ~HasBatch(t)
     /\ Finish(t, q, 1, "ok", pc)
     /\ UNCHANGED <<groupVars, mine, before>>
  \/ /\ HasBatch(t)
     /\ \E k \in 1 .. Len(q) :
          /\ BuildBatchGroup(q, k)
          /\ group' = k
          /\ upto' = last_sequence + Count(q, k)
          /\ mine' = [u \in Threads |-> IF \E j \in 1 .. k : q[j] = u
                                         THEN Numbers(u, q, k) ELSE mine[u]]
     /\ next' = last_sequence + 1
     /\ writers_' = q
     /\ pc' = [pc EXCEPT ![t] = "append"]
     /\ UNCHANGED <<done, status, acked, acked_sync, before>>

Stay(t, q, where) ==
  /\ pc' = [pc EXCEPT ![t] = where]
  /\ writers_' = q
  /\ UNCHANGED <<done, status, groupVars, memVars, logVars, verVars, bg_error_, bgVars, histVars>>

(* Overwrites imm_, or is one off at the stop trigger.                      *)
Full_ImmBug == l0 >= kL0_StopWritesTrigger
Full_StopBug == has_imm \/ l0 > kL0_StopWritesTrigger

(* MakeRoomForWrite must wait for the background thread.                    *)
Full == has_imm \/ l0 >= kL0_StopWritesTrigger

(* MakeRoomForWrite, one pass of its loop, with q the queue and t its head. *)
(* After a switch the next pass finds an empty memtable and breaks.         *)
MakeRoomForWrite(t, q, delay) ==
  LET force == ~HasBatch(t)
      slow == delay /\ l0 >= kL0_SlowdownWritesTrigger
      room == ~force /\ Cardinality(mem_) <= write_buffer_size
  IN /\ allow_delay' = [allow_delay EXCEPT ![t] = delay]
     /\ UNCHANGED <<last_sequence, dtorVars, manualVars>>
     /\ \/ /\ bg_error_ # "ok"
           /\ Finish(t, q, 1, bg_error_, pc)
           /\ UNCHANGED <<groupVars, memVars, logVars, verVars, bg_error_, bgVars, mine, before>>
        \/ /\ bg_error_ = "ok" /\ slow
           /\ Stay(t, q, "delay")
        \/ /\ bg_error_ = "ok" /\ ~slow /\ room
           /\ Proceed(t, q)
           /\ UNCHANGED <<memVars, logVars, verVars, bg_error_, bgVars>>
        \/ /\ bg_error_ = "ok" /\ ~slow /\ ~room /\ Full
           /\ Stay(t, q, "room_wait")
        \/ /\ bg_error_ = "ok" /\ ~slow /\ ~room /\ ~Full
           /\ "newlog" \in Faults
           /\ Finish(t, q, 1, "newlog", pc)
           /\ UNCHANGED <<groupVars, memVars, logVars, verVars, bg_error_, bgVars, mine, before>>
        \/ /\ bg_error_ = "ok" /\ ~slow /\ ~room /\ ~Full
           /\ imm_' = mem_ /\ has_imm' = TRUE /\ mem_' = {}
           /\ retired' = retired \cup log /\ log' = {}
           /\ UNCHANGED <<durable, verVars, bg_error_, bg, nested, inputs, is_manual>>
           /\ MaybeScheduleCompaction
           /\ Proceed(t, q)

(* The caller of Write, TEST_CompactMemTable or TEST_CompactRange, before   *)
(* it locks mutex_.                                                         *)
Invoke(t) ==
  /\ pc[t] = "idle" /\ calls[t] < MaxCalls /\ dtor = "open"
  /\ calls' = [calls EXCEPT ![t] = @ + 1]
  /\ \E c \in Calls :
       /\ call' = [call EXCEPT ![t] = c]
       /\ pc' = [pc EXCEPT ![t] = IF c.op = "CompactRange" THEN "range_check" ELSE "enter"]
       /\ pieces' = [pieces EXCEPT ![t] = c.pieces]
       /\ before' = [before EXCEPT ![t] = IF c.op = "CompactMemTable" THEN acked ELSE {}]
  /\ done' = [done EXCEPT ![t] = FALSE]
  /\ manual_done' = [manual_done EXCEPT ![t] = FALSE]
  /\ mine' = [mine EXCEPT ![t] = {}]
  /\ UNCHANGED <<writers_, status, allow_delay, groupVars, memVars, logVars, verVars,
                 last_sequence, bg_error_, bgVars, manual_compaction_, dtorVars, acked, acked_sync>>

NotHead_Bug == FALSE   \* does not wait for the writers ahead

(* Write: join the queue; the head of the queue goes on at once.            *)
NotHead == writers_ # <<>>
Enter(t) ==
  /\ pc[t] = "enter"
  /\ \/ /\ NotHead
        /\ Stay(t, Append(writers_, t), "queued")
        /\ UNCHANGED <<allow_delay, last_sequence, dtorVars, manualVars>>
     \/ /\ ~NotHead
        /\ MakeRoomForWrite(t, Append(writers_, t), HasBatch(t))
  /\ UNCHANGED <<call, calls>>

(* Write: w.cv.Wait() returns.  A leader has done the work, or t is head.   *)
Wake(t) ==
  /\ pc[t] = "woken"
  /\ \/ /\ done[t]
        /\ pc' = [pc EXCEPT ![t] = ReturnTo(t, status[t])]
        /\ Acknowledge(t, status[t])
        /\ UNCHANGED <<queueVars, groupVars, memVars, logVars, verVars, last_sequence,
                       bg_error_, bgVars, manualVars, dtorVars, mine, before>>
     \/ /\ ~done[t] /\ writers_ # <<>> /\ Head(writers_) = t
        /\ MakeRoomForWrite(t, writers_, HasBatch(t))
  /\ UNCHANGED <<call, calls>>

(* MakeRoomForWrite goes round its loop: after the 1ms sleep, which happens *)
(* once per write, or after bg_cv_.Wait().                                  *)
RetryRoom(t) ==
  /\ pc[t] \in {"delay", "room_woken"}
  /\ MakeRoomForWrite(t, writers_, allow_delay[t] /\ pc[t] # "delay")
  /\ UNCHANGED <<call, calls>>

GroupRange == last_sequence + 1 .. upto
InsertNext(t) == pc' = [pc EXCEPT ![t] = IF next > upto THEN "commit" ELSE "insert"]
AppendUnchanged == UNCHANGED <<call, calls, writers_, done, allow_delay, group, upto, retired,
                               verVars, imm_, has_imm, last_sequence, bg_error_, bgVars,
                               manualVars, dtorVars, histVars>>

(* log_->AddRecord, unlocked.  A failed append may leave the record behind. *)
AddRecord(t) ==
  /\ pc[t] = "append"
  /\ \/ /\ log' = log \cup GroupRange
        /\ status' = [status EXCEPT ![t] = "ok"]
        /\ IF call[t].sync THEN pc' = [pc EXCEPT ![t] = "sync"] ELSE InsertNext(t)
     \/ /\ "append" \in Faults
        /\ log' \in {log, log \cup GroupRange}
        /\ status' = [status EXCEPT ![t] = "append"]
        /\ pc' = [pc EXCEPT ![t] = "commit"]
  /\ UNCHANGED <<next, durable, mem_>>
  /\ AppendUnchanged

(* logfile_->Sync(), unlocked, when the leader's options ask for it.        *)
SyncLog(t) ==
  /\ pc[t] = "sync"
  /\ \/ /\ durable' = durable \cup log
        /\ InsertNext(t)
        /\ UNCHANGED status
     \/ /\ "sync" \in Faults
        /\ status' = [status EXCEPT ![t] = "sync"]
        /\ pc' = [pc EXCEPT ![t] = "commit"]
        /\ UNCHANGED durable
  /\ UNCHANGED <<next, log, mem_>>
  /\ AppendUnchanged

(* WriteBatchInternal::InsertInto, unlocked, one entry at a time.           *)
InsertInto(t) ==
  /\ pc[t] = "insert"
  /\ mem_' = mem_ \cup {next}
  /\ next' = next + 1
  /\ pc' = [pc EXCEPT ![t] = IF next = upto THEN "commit" ELSE "insert"]
  /\ UNCHANGED <<status, log, durable>>
  /\ AppendUnchanged

(* Write locks again: a failed sync stops all later writes, last_sequence   *)
(* moves past the group whatever happened, and the group is popped.         *)
LastSequenceAfter_Bug(t) == IF status[t] = "ok" THEN upto ELSE last_sequence
LastSequenceAfter(t) == upto
Commit(t) ==
  /\ pc[t] = "commit"
  /\ bg_error_' = IF status[t] = "sync" THEN RecordBackgroundError("sync") ELSE bg_error_
  /\ last_sequence' = LastSequenceAfter(t)
  /\ Finish(t, writers_, group, status[t], IF bg_error_' # bg_error_ THEN SignalAll(pc) ELSE pc)
  /\ group' = 0 /\ upto' = 0 /\ next' = 0
  /\ UNCHANGED <<call, calls, allow_delay, memVars, logVars, verVars, bgVars, manualVars,
                 dtorVars, mine, before>>

(* TEST_CompactMemTable after its Write: wait until imm_ has been flushed.  *)
AwaitMemTable(t) ==
  /\ pc[t] \in {"mem_check", "mem_woken"}
  /\ pc' = [pc EXCEPT ![t] = IF has_imm /\ bg_error_ = "ok" THEN "mem_wait" ELSE "idle"]
  /\ UNCHANGED <<call, calls, queueVars, groupVars, memVars, logVars, verVars, last_sequence,
                 bg_error_, bgVars, manualVars, dtorVars, histVars>>

Withdraw_Bug(t) == NULL   \* withdraws anybody's request

(* TEST_CompactRange gives up or is done: only its own request is withdrawn. *)
Withdraw(t) == IF manual_compaction_ = t THEN NULL ELSE manual_compaction_

(* TEST_CompactRange: register the manual compaction when none is, and wait. *)
AwaitRange(t) ==
  /\ pc[t] \in {"range_check", "range_woken"}
  /\ LET over == manual_done[t] \/ shutting_down_ \/ bg_error_ # "ok" IN
     /\ pc' = [pc EXCEPT ![t] = IF over THEN "idle" ELSE "range_wait"]
     /\ manual_compaction_' =
          IF over THEN Withdraw(t)
          ELSE IF manual_compaction_ = NULL THEN t ELSE manual_compaction_
  /\ UNCHANGED <<memVars, verVars, bg_error_, dtorVars>>
  /\ IF manual_compaction_ = NULL /\ manual_compaction_' = t
     THEN MaybeScheduleCompaction
     ELSE UNCHANGED <<bg_compaction_scheduled_, jobs>>
  /\ UNCHANGED <<call, calls, queueVars, groupVars, logVars, last_sequence, bg, nested, inputs,
                 is_manual, manual_done, pieces, histVars>>

(* Get and RecordReadSample: a read used up a file's allowed_seeks.         *)
UpdateStats ==
  /\ dtor = "open" /\ tables # {} /\ ~seek
  /\ seek' = TRUE
  /\ UNCHANGED <<threadVars, queueVars, groupVars, memVars, logVars, tables, l0, last_sequence,
                 bg_error_, bg, nested, inputs, is_manual, manualVars, dtorVars, histVars>>
  /\ MaybeScheduleCompaction

-----------------------------------------------------------------------------
(* The background thread.                                                   *)

bgUnchanged == UNCHANGED <<call, calls, queueVars, groupVars, mem_, log, retired, last_sequence,
                           shutting_down_, histVars>>

(* The end of BackgroundCall; j jobs are still with the Env.                *)
BackgroundCallEnd(j) ==
  LET again == MaybeSchedule(FALSE) IN
  /\ bg' = "idle"
  /\ bg_compaction_scheduled_' = again
  /\ jobs' = IF again THEN j + 1 ELSE j
  /\ pc' = SignalAll(pc) /\ SignalDtor

Level0Inputs_Bug(m) == 0 .. l0 + 1

(* How many level-0 files a compaction for m takes: PickCompaction takes one *)
(* at least when level 0 is due.                                            *)
Level0Inputs(m) == {n \in 0 .. l0 : m = NULL /\ l0 >= kL0_CompactionTrigger => n >= 1}

(* BackgroundCall up to its first unlock.                                   *)
BackgroundCall ==
  /\ bg = "idle" /\ jobs > 0
  /\ UNCHANGED <<imm_, has_imm, durable, verVars, bg_error_, pieces>>
  /\ bgUnchanged
  /\ LET stop == shutting_down_ \/ bg_error_ # "ok"
         m == manual_compaction_
         work == IF m # NULL THEN pieces[m] > 0 ELSE NeedsCompaction(l0, seek)
     IN \/ /\ stop
           /\ UNCHANGED <<nested, inputs, is_manual, manual_compaction_, manual_done>>
           /\ BackgroundCallEnd(jobs - 1)
        \/ /\ ~stop /\ has_imm
           /\ bg' = "build" /\ nested' = FALSE /\ jobs' = jobs - 1
           /\ UNCHANGED <<pc, dtor, bg_compaction_scheduled_, inputs, is_manual,
                          manual_compaction_, manual_done>>
        \/ /\ ~stop /\ ~has_imm /\ ~work
           /\ manual_done' = IF m # NULL THEN [manual_done EXCEPT ![m] = TRUE] ELSE manual_done
           /\ manual_compaction_' = NULL
           /\ UNCHANGED <<nested, inputs, is_manual>>
           /\ BackgroundCallEnd(jobs - 1)
        \/ /\ ~stop /\ ~has_imm /\ work
           /\ is_manual' = (m # NULL)
           /\ \E n \in Level0Inputs(m) :
                /\ inputs' = n
                /\ bg' \in IF m = NULL /\ n <= 1 THEN {"merge", "install"} ELSE {"merge"}
           /\ jobs' = jobs - 1
           /\ UNCHANGED <<pc, dtor, bg_compaction_scheduled_, nested,
                          manual_compaction_, manual_done>>

(* CompactMemTable is over: back to DoCompactionWork's loop, or to the end. *)
FlushEnd ==
  /\ UNCHANGED <<nested, inputs, is_manual, manualVars>>
  /\ bgUnchanged
  /\ \/ /\ nested
        /\ bg' = "merge"
        /\ pc' = SignalAll(pc) /\ SignalDtor
        /\ UNCHANGED <<bg_compaction_scheduled_, jobs>>
     \/ /\ ~nested
        /\ BackgroundCallEnd(jobs)

FlushFails(e) ==
  /\ bg_error_' = RecordBackgroundError(e)
  /\ UNCHANGED <<imm_, has_imm, durable, verVars>>
  /\ FlushEnd

(* WriteLevel0Table's BuildTable is done; CompactMemTable locks again and   *)
(* goes into LogAndApply, which unlocks.                                    *)
BuildTable ==
  /\ bg = "build"
  /\ \/ /\ ~shutting_down_
        /\ bg' = "apply"
        /\ UNCHANGED <<pc, dtor, imm_, has_imm, durable, verVars, bg_error_, nested, inputs,
                       is_manual, bg_compaction_scheduled_, jobs, manualVars>>
        /\ bgUnchanged
     \/ /\ shutting_down_ \/ "table" \in Faults
        /\ FlushFails("table")

(* CompactMemTable's LogAndApply returns.  PickLevelForMemTableOutput puts  *)
(* the table in level 0 or below it; an empty memtable leaves no table.     *)
ApplyFlush ==
  /\ bg = "apply"
  /\ \/ /\ imm_' = {} /\ has_imm' = FALSE
        /\ tables' = tables \cup imm_ /\ durable' = durable \cup imm_
        /\ l0' \in IF imm_ = {} THEN {l0} ELSE {l0, l0 + 1}
        /\ seek' = FALSE
        /\ UNCHANGED bg_error_
        /\ FlushEnd
     \/ /\ "manifest" \in Faults
        /\ FlushFails("manifest")

(* DoCompactionWork gives imm_ precedence over the merge.                   *)
MergeFlush ==
  /\ bg = "merge" /\ has_imm /\ ~shutting_down_
  /\ bg' = "build" /\ nested' = TRUE
  /\ UNCHANGED <<pc, dtor, imm_, has_imm, durable, verVars, bg_error_, inputs, is_manual,
                 bg_compaction_scheduled_, jobs, manualVars>>
  /\ bgUnchanged

(* The end of BackgroundCompaction after a merge or a move with status s.   *)
(* It dereferences manual_compaction_ if it began as a manual compaction.   *)
CompactionEnd(s) ==
  LET m == manual_compaction_ IN
  /\ UNCHANGED <<imm_, has_imm, durable, tables, nested, inputs, is_manual>>
  /\ bgUnchanged
  /\ \/ /\ is_manual /\ m = NULL
        /\ bg' = "crashed"
        /\ UNCHANGED <<pc, dtor, bg_compaction_scheduled_, jobs, manualVars>>
     \/ /\ is_manual /\ m # NULL
        /\ manual_done' = [manual_done EXCEPT ![m] = @ \/ s # "ok"]
        /\ pieces' = [pieces EXCEPT ![m] = @ - 1]
        /\ manual_compaction_' = NULL
        /\ BackgroundCallEnd(jobs)
     \/ /\ ~is_manual
        /\ UNCHANGED manualVars
        /\ BackgroundCallEnd(jobs)

CompactionFails(e) ==
  /\ bg_error_' = RecordBackgroundError(e)
  /\ UNCHANGED <<l0, seek>>
  /\ CompactionEnd(e)

(* DoCompactionWork's loop is over; InstallCompactionResults unlocks.       *)
MergeDone ==
  /\ bg = "merge"
  /\ \/ /\ ~shutting_down_
        /\ bg' = "install"
        /\ UNCHANGED <<pc, dtor, imm_, has_imm, durable, verVars, bg_error_, nested, inputs,
                       is_manual, bg_compaction_scheduled_, jobs, manualVars>>
        /\ bgUnchanged
     \/ /\ shutting_down_ \/ "merge" \in Faults
        /\ CompactionFails("merge")

(* LogAndApply of a compaction or of a trivial move returns.                *)
Install ==
  /\ bg = "install"
  /\ \/ /\ l0' = l0 - inputs /\ seek' = FALSE
        /\ UNCHANGED bg_error_
        /\ CompactionEnd("ok")
     \/ /\ "manifest" \in Faults
        /\ CompactionFails("manifest")

-----------------------------------------------------------------------------
(* The destructor.  No call may be in progress when the DB is deleted.      *)
AwaitBackground == dtor' = IF bg_compaction_scheduled_ THEN "wait" ELSE "closed"
Close ==
  /\ dtor = "open" /\ \A t \in Threads : pc[t] = "idle"
  /\ shutting_down_' = TRUE
  /\ AwaitBackground
  /\ UNCHANGED <<threadVars, queueVars, groupVars, memVars, logVars, verVars, last_sequence,
                 bg_error_, bgVars, manualVars, histVars>>
CloseWoken ==
  /\ dtor = "woken"
  /\ AwaitBackground
  /\ UNCHANGED <<threadVars, queueVars, groupVars, memVars, logVars, verVars, last_sequence,
                 bg_error_, bgVars, manualVars, shutting_down_, histVars>>
Stopped == (dtor = "closed" \/ bg = "crashed") /\ UNCHANGED vars

WriterStep(t) == Enter(t) \/ Wake(t) \/ RetryRoom(t) \/ AddRecord(t) \/ SyncLog(t)
                   \/ InsertInto(t) \/ Commit(t) \/ AwaitMemTable(t) \/ AwaitRange(t)
BackgroundStep == BackgroundCall \/ BuildTable \/ ApplyFlush \/ MergeFlush \/ MergeDone \/ Install

Next == \/ \E t \in Threads : Invoke(t) \/ WriterStep(t)
        \/ BackgroundStep \/ UpdateStats \/ Close \/ CloseWoken \/ Stopped

Spec == Init /\ [][Next]_vars

(* The operating system schedules every runnable thread eventually, and     *)
(* mutex_ is handed out fairly.  Callers need not call, reads need not come *)
(* and I/O need not fail.                                                   *)
Fairness == /\ \A t \in Threads : WF_vars(WriterStep(t))
            /\ WF_vars(BackgroundStep)
            /\ WF_vars(CloseWoken)
FairSpec == Spec /\ Fairness

-----------------------------------------------------------------------------
(* Properties.                                                              *)

Positions == {"idle", "enter", "queued", "woken", "delay", "room_wait", "room_woken", "append",
              "sync", "insert", "commit", "mem_check", "mem_wait", "mem_woken", "range_check",
              "range_wait", "range_woken"}
Statuses == {"ok"} \cup IOOperations

(* Every variable has its type, group by group.                             *)
ThreadsType == /\ pc \in [Threads -> Positions] /\ call \in [Threads -> CallType]
               /\ calls \in [Threads -> 0 .. MaxCalls]
QueueType == /\ writers_ \in Seq(Threads) /\ done \in [Threads -> BOOLEAN]
             /\ status \in [Threads -> Statuses] /\ allow_delay \in [Threads -> BOOLEAN]
GroupType == group \in Nat /\ upto \in Nat /\ next \in Nat
StoreType == /\ mem_ \subseteq Nat /\ imm_ \subseteq Nat /\ has_imm \in BOOLEAN
             /\ log \subseteq Nat /\ retired \subseteq Nat /\ durable \subseteq Nat
             /\ tables \subseteq Nat /\ l0 \in Nat /\ seek \in BOOLEAN
             /\ last_sequence \in Nat
BackgroundType ==
  /\ bg_error_ \in Statuses /\ bg_compaction_scheduled_ \in BOOLEAN /\ jobs \in Nat
  /\ bg \in {"idle", "build", "apply", "merge", "install", "crashed"}
  /\ nested \in BOOLEAN /\ inputs \in Nat /\ is_manual \in BOOLEAN
  /\ shutting_down_ \in BOOLEAN /\ dtor \in {"open", "wait", "woken", "closed"}
ManualType == /\ manual_compaction_ \in Threads \cup {NULL}
              /\ manual_done \in [Threads -> BOOLEAN] /\ pieces \in [Threads -> Nat]
HistoryType == /\ mine \in [Threads -> SUBSET Nat] /\ acked \subseteq Nat
               /\ acked_sync \subseteq Nat /\ before \in [Threads -> SUBSET Nat]
TypeOK == /\ ThreadsType /\ QueueType /\ GroupType /\ StoreType /\ BackgroundType
          /\ ManualType /\ HistoryType

(* The entries a read can find: memtables and tables.                       *)
Store == mem_ \cup imm_ \cup tables

(* The head of writers_ is never asleep on its own condition variable, and  *)
(* neither is a writer whose work a leader has done: Write's two signals    *)
(* (db_impl.cc:1222 and 1229) reach everybody who has nobody else to wait   *)
(* for.                                                                     *)
NoLostWakeup ==
  /\ writers_ # <<>> => pc[Head(writers_)] # "queued"
  /\ \A t \in Threads : done[t] => pc[t] # "queued"

(* One thread at a time is past MakeRoomForWrite, and it is the head of the *)
(* queue: Write releases mutex_ around the log and the memtable on the      *)
(* strength of that (db_impl.cc:1186).                                      *)
Working == {"append", "sync", "insert", "commit"}
OneLogger == \A t \in Threads : pc[t] \in Working => writers_ # <<>> /\ Head(writers_) = t

(* No sequence number is ever given out twice, even to a group whose append *)
(* or sync failed and whose record may nevertheless be in the log: what is  *)
(* in a log, memtable or table is at most LastSequence, or in the one group *)
(* being written.                                                           *)
FreshNumbers ==
  \A n \in log \cup retired \cup Store :
    n <= last_sequence \/ (group > 0 /\ n <= upto)

(* Write returned ok: every operation of the batch is in a memtable or in a *)
(* table of the current version, whatever switches and flushes came since.  *)
AckedIsReadable == acked \subseteq Store

(* A Write with sync that returned ok is on stable storage, also when the   *)
(* thread was a follower in another writer's group.                         *)
SyncedIsDurable == acked_sync \subseteq durable

(* What a read at any sequence number up to LastSequence finds never        *)
(* changes: InsertInto runs unlocked next to the readers, and SetLastSequence *)
(* must not publish a number before its entries are in.                     *)
StableReads == [][\A n \in 1 .. last_sequence : n \in Store <=> n \in Store']_vars

(* Background work that is wanted is scheduled: nobody can wait on bg_cv_   *)
(* for a flush or a compaction that nobody will run.                        *)
WorkIsScheduled ==
  (has_imm \/ manual_compaction_ # NULL \/ NeedsCompaction(l0, seek))
    /\ bg_error_ = "ok" /\ ~shutting_down_ => bg_compaction_scheduled_

(* bg_compaction_scheduled_ stands for exactly one job, queued or running.  *)
OneJob == jobs + (IF bg = "idle" THEN 0 ELSE 1) = IF bg_compaction_scheduled_ THEN 1 ELSE 0

(* Level 0 never outgrows kL0_StopWritesTrigger, the memtable on its way    *)
(* there included.                                                          *)
Level0Bounded == l0 + (IF has_imm THEN 1 ELSE 0) <= kL0_StopWritesTrigger

(* Once the destructor has returned, no background work runs or is queued.  *)
QuietAfterClose == dtor = "closed" => bg = "idle" /\ jobs = 0

(* BackgroundCompaction never dereferences a cancelled manual compaction.   *)
ManualStillThere == bg # "crashed"

(* It does so at most after a background error: until then TEST_CompactRange *)
(* does not withdraw the request that the background thread works on.       *)
CancelledOnlyAfterError == bg = "crashed" => bg_error_ # "ok"

(* TEST_CompactMemTable returns ok: what was acknowledged before the call   *)
(* has left the memtable.                                                   *)
MemTableForced == [][\A t \in Threads :
  pc[t] \in {"mem_check", "mem_woken"} /\ pc'[t] = "idle" /\ ~has_imm
    => before[t] \subseteq tables]_vars

(* After a caller was told of a failed sync no thread writes to the log any  *)
(* more: "we force the DB into a mode where all future writes fail"         *)
(* (db_impl.cc:1207).                                                       *)
StoppedAfterSyncError ==
  (\E t \in Threads : status[t] = "sync" /\ pc[t] # "commit")
    => \A t \in Threads : pc[t] \notin Working

(* What sync means, also for the followers of a leader: an acknowledged     *)
(* write with sync is durable, and once a sync has failed nobody writes on  *)
(* (db_impl.cc 1190-1212, 1256-1259).                                       *)
SyncHonoured == SyncedIsDurable /\ StoppedAfterSyncError

(* Every call returns, and the destructor does, unless the process is gone, *)
(* which CancelledOnlyAfterError confines: no stall, wait for a flush or    *)
(* manual compaction lasts for ever (MakeRoomForWrite, bg_cv_, ~DBImpl).    *)
CallsReturn == \A t \in Threads : pc[t] # "idle" ~> (pc[t] = "idle" \/ bg = "crashed")
CloseReturns == shutting_down_ ~> (dtor = "closed" \/ bg = "crashed")

=============================================================================
