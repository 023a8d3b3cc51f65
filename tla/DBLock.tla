------------------------------- MODULE DBLock -------------------------------
(***************************************************************************)
(* The LOCK file that keeps a database to one user: LockFile and UnlockFile *)
(* of PosixEnv (env_posix.cc) and WinEnv (env_win.cc), as DB::Open, ~DBImpl *)
(* and DestroyDB call them, from threads of several processes.  A step is   *)
(* one system call or one critical section of PosixLockTable.  A lock of    *)
(* fcntl belongs to a process and an inode; closing any descriptor of the   *)
(* inode gives it up.  A file that is open without sharing cannot be opened *)
(* or deleted on Windows.                                                   *)
(***************************************************************************)
EXTENDS Integers, FiniteSets

CONSTANTS
  Users,        \* pairs of a process and a thread, numbers
  Inodes        \* numbers from 1: one LOCK file each, more than Users

Processes == {u[1] : u \in Users}

ASSUME LockAssumption ==
  /\ 0 \notin Inodes /\ 0 \notin Processes
  /\ IsFiniteSet(Users) /\ IsFiniteSet(Inodes) /\ Cardinality(Users) < Cardinality(Inodes)

VARIABLES
  platform,     \* "win" or "posix"
  alone,        \* one thread of each process uses the database and nobody destroys it
  LOCK,         \* the inode of that name, 0 for none
  flock,        \* inode -> the process that has the lock, 0 for none
  locks_,       \* process -> LOCK is in its PosixLockTable
  user          \* thread -> what it is doing
lockVars == <<platform, alone, LOCK, flock, locks_, user>>

Away == [pc |-> "idle", job |-> "none", fd |-> 0]
LockInit ==
  /\ platform \in {"win", "posix"} /\ alone \in BOOLEAN
  /\ LOCK = 0 /\ flock = [n \in Inodes |-> 0] /\ locks_ = [p \in Processes |-> FALSE]
  /\ user = [u \in Users |-> Away]

OpenOn(n) == \E u \in Users : user[u].fd = n
FreeInode == CHOOSE n \in Inodes : n # LOCK /\ ~OpenOn(n)
Opened == IF LOCK = 0 THEN FreeInode ELSE LOCK
Proceeds(u, pc) == user' = [user EXCEPT ![u].pc = pc]
Held(u) == user[u].pc = "held"
GivenUp(p, n) == [flock EXCEPT ![n] = IF @ = p THEN 0 ELSE @]

(* DB::Open and DestroyDB call LockFile: open(O_CREAT) ...                  *)
Begin(u, job) ==
  /\ user[u] = Away
  /\ alone => job = "open" /\ \A v \in Users : v[1] = u[1] /\ v # u => user[v] = Away
PosixOpen(u, job) ==
  /\ platform = "posix" /\ Begin(u, job)
  /\ LOCK' = Opened /\ user' = [user EXCEPT ![u] = [pc |-> "opened", job |-> job, fd |-> Opened]]
  /\ UNCHANGED <<platform, alone, flock, locks_>>
(* ... locks_.Insert: "already held by process", or in the table from now   *)
(* on ...                                                                   *)
Insert_Bug(p) == TRUE
Insert(p) == ~locks_[p]
PosixInsert(u) ==
  /\ user[u].pc = "opened"
  /\ IF Insert(u[1])
     THEN locks_' = [locks_ EXCEPT ![u[1]] = TRUE] /\ Proceeds(u, "inserted")
     ELSE Proceeds(u, "refused") /\ UNCHANGED locks_
  /\ UNCHANGED <<platform, alone, LOCK, flock>>
PosixRefused(u) ==
  /\ user[u].pc = "refused"
  /\ flock' = GivenUp(u[1], user[u].fd) /\ user' = [user EXCEPT ![u] = Away]
  /\ UNCHANGED <<platform, alone, LOCK, locks_>>
(* ... and fcntl(F_SETLK); on failure close, which has no lock to give up,  *)
(* and locks_.Remove.                                                       *)
LockFails(p) == [locks_ EXCEPT ![p] = FALSE]
PosixLock(u) ==
  /\ user[u].pc = "inserted"
  /\ IF flock[user[u].fd] \in {0, u[1]}
     THEN flock' = [flock EXCEPT ![user[u].fd] = u[1]] /\ Proceeds(u, "held") /\ UNCHANGED locks_
     ELSE locks_' = LockFails(u[1]) /\ user' = [user EXCEPT ![u] = Away] /\ UNCHANGED flock
  /\ UNCHANGED <<platform, alone, LOCK>>
(* UnlockFile: fcntl(F_UNLCK), locks_.Remove, close.                        *)
PosixUnlock(u) ==
  /\ platform = "posix" /\ Held(u)
  /\ flock' = GivenUp(u[1], user[u].fd) /\ Proceeds(u, "unlocked")
  /\ UNCHANGED <<platform, alone, LOCK, locks_>>
PosixRemove(u) ==
  /\ user[u].pc = "unlocked"
  /\ locks_' = [locks_ EXCEPT ![u[1]] = FALSE] /\ Proceeds(u, "removed")
  /\ UNCHANGED <<platform, alone, LOCK, flock>>
AfterUnlock(u) == IF user[u].job = "destroy" THEN [pc |-> "delete", job |-> "destroy", fd |-> 0] ELSE Away
PosixClose(u) ==
  /\ user[u].pc = "removed"
  /\ flock' = GivenUp(u[1], user[u].fd)
  /\ user' = [user EXCEPT ![u] = AfterUnlock(u)]
  /\ UNCHANGED <<platform, alone, LOCK, locks_>>

(* WinEnv: CreateFile with no sharing, and CloseHandle.                     *)
Sharing == LOCK # 0 /\ OpenOn(LOCK)
WinLockFile(u, job) ==
  /\ platform = "win" /\ Begin(u, job)
  /\ IF Sharing THEN UNCHANGED <<LOCK, user>>
     ELSE /\ LOCK' = Opened
          /\ user' = [user EXCEPT ![u] = [pc |-> "held", job |-> job, fd |-> Opened]]
  /\ UNCHANGED <<platform, alone, flock, locks_>>
WinUnlockFile(u) ==
  /\ platform = "win" /\ Held(u)
  /\ user' = [user EXCEPT ![u] = AfterUnlock(u)]
  /\ UNCHANGED <<platform, alone, LOCK, flock, locks_>>

(* DestroyDB: DeleteFile(lockname), after UnlockFile.                       *)
DeleteLock(u) ==
  /\ user[u].pc = "delete"
  /\ LOCK' = IF platform = "win" /\ LOCK # 0 /\ OpenOn(LOCK) THEN LOCK ELSE 0
  /\ user' = [user EXCEPT ![u] = Away]
  /\ UNCHANGED <<platform, alone, flock, locks_>>

(* "If the process exits, the lock will be automatically released"          *)
(* (env.h:103-104).                                                         *)
Exit(p) ==
  /\ user' = [u \in Users |-> IF u[1] = p THEN Away ELSE user[u]]
  /\ locks_' = [locks_ EXCEPT ![p] = FALSE]
  /\ flock' = [n \in Inodes |-> IF flock[n] = p THEN 0 ELSE flock[n]]
  /\ UNCHANGED <<platform, alone, LOCK>>

LockNext ==
  \/ \E u \in Users :
       \/ \E job \in {"open", "destroy"} : PosixOpen(u, job) \/ WinLockFile(u, job)
       \/ PosixInsert(u) \/ PosixRefused(u) \/ PosixLock(u) \/ PosixUnlock(u) \/ PosixRemove(u) \/ PosixClose(u)
       \/ WinUnlockFile(u) \/ DeleteLock(u)
  \/ \E p \in Processes : Exit(p)
LockSpec == LockInit /\ [][LockNext]_lockVars

-----------------------------------------------------------------------------
(* At most one user has the database: on Windows always, with PosixEnv      *)
(* among the threads of a process, and among processes as long as each has  *)
(* one user and nobody calls DestroyDB ("Used to prevent concurrent access  *)
(* to the same db by multiple processes", env.h:97-98).                     *)
OneOwner ==
  \A u, v \in Users : Held(u) /\ Held(v) /\ u # v =>
    platform = "posix" /\ ~alone /\ u[1] # v[1]

(* A process none of whose threads is at it holds nothing that would keep   *)
(* the next one out.                                                        *)
LockReleased ==
  \A p \in Processes : (\A u \in Users : u[1] = p => user[u].pc \in {"idle", "delete"}) =>
    ~locks_[p] /\ \A n \in Inodes : flock[n] # p

(* The two together (env_posix.cc 416-448, env_win.cc 329-353).             *)
LockExact == OneOwner /\ LockReleased
=============================================================================
