--------------------------- MODULE EnvFilesProofs ---------------------------
(* Theorems about the files of an Env: who has LOCK, for any number of       *)
(* processes and threads, and the counts of the files in memory, for any     *)
(* number of names, files and threads.                                       *)
EXTENDS DBLock, MemEnv, FiniteSetTheorems, TLAPS

(* Who has LOCK.                                                             *)

InTable == {"inserted", "held", "unlocked"}   \* the process has LOCK in its PosixLockTable
UserPositions == {"idle", "opened", "refused", "removed", "delete"} \cup InTable

LockTypes ==
  /\ platform \in {"win", "posix"} /\ alone \in BOOLEAN
  /\ LOCK \in Inodes \cup {0} /\ flock \in [Inodes -> Processes \cup {0}]
  /\ locks_ \in [Processes -> BOOLEAN]
  /\ user \in [Users -> [pc : UserPositions, job : {"none", "open", "destroy"}, fd : Inodes \cup {0}]]
  /\ \A u \in Users : user[u].fd # 0 <=> user[u].pc \notin {"idle", "delete"}

(* PosixLockTable has an entry exactly while one thread of the process is   *)
(* between Insert and Remove, and who has the lock of an inode has it open. *)
PosixInv ==
  /\ \A u, v \in Users : user[u].pc \in InTable /\ user[v].pc \in InTable /\ u[1] = v[1] => u = v
  /\ \A u \in Users : user[u].pc \in InTable => locks_[u[1]]
  /\ \A p \in Processes : locks_[p] => \E u \in Users : u[1] = p /\ user[u].pc \in InTable
  /\ \A n \in Inodes : flock[n] # 0 =>
       \E u \in Users : u[1] = flock[n] /\ Held(u) /\ user[u].fd = n

(* With one user per process and no DestroyDB there is one LOCK file, and   *)
(* nobody closes a descriptor of it while another has its lock.             *)
AloneInv ==
  /\ \A u, v \in Users : u[1] = v[1] => u = v \/ user[u].pc = "idle" \/ user[v].pc = "idle"
  /\ \A u \in Users : user[u].job # "destroy" /\ user[u].pc \notin {"refused", "delete"}
  /\ \A u \in Users : user[u].fd # 0 => user[u].fd = LOCK
  /\ \A u \in Users : Held(u) => flock[user[u].fd] = u[1]

WinInv ==
  /\ \A u \in Users : user[u].pc \in {"idle", "held", "delete"} /\ (Held(u) => user[u].fd = LOCK)
  /\ \A u, v \in Users : Held(u) /\ Held(v) => u = v
  /\ \A p \in Processes : ~locks_[p]
  /\ \A n \in Inodes : flock[n] = 0

LockInv == /\ LockTypes
           /\ platform = "posix" => PosixInv /\ (alone => AloneInv)
           /\ platform = "win" => WinInv

(* More inodes than users: there is always one for a new LOCK file.          *)
LEMMA NewFile ==
  ASSUME LockTypes, 0 \notin Inodes, IsFiniteSet(Users), IsFiniteSet(Inodes),
         Cardinality(Users) < Cardinality(Inodes)
  PROVE  Opened \in Inodes
<1>1. CASE LOCK # 0
  BY <1>1 DEF Opened, LockTypes
<1>2. CASE LOCK = 0
  <2>1. \E n \in Inodes : ~OpenOn(n)
    <3> SUFFICES ASSUME \A n \in Inodes : \E u \in Users : user[u].fd = n
                 PROVE  FALSE
      BY DEF OpenOn
    <3> DEFINE f == [n \in Inodes |-> CHOOSE u \in Users : user[u].fd = n]
    <3>1. \A n \in Inodes : f[n] \in Users /\ user[f[n]].fd = n
      OBVIOUS
    <3>2. f \in [Inodes -> Users]
      BY <3>1
    <3> HIDE DEF f
    <3>3. \E x, y \in Inodes : x # y /\ f[x] = f[y]
      BY <3>2, FS_PigeonHole
    <3> QED
      BY <3>1, <3>3
  <2>2. \E n \in Inodes : n # LOCK /\ ~OpenOn(n)
    BY <1>2, <2>1
  <2> QED
    BY <1>2, <2>2 DEF Opened, FreeInode
<1> QED
  BY <1>1, <1>2

(* A system call or a critical section of PosixLockTable keeps the invariant. *)
LEMMA PosixStep ==
  ASSUME LockInv, platform = "posix", 0 \notin Inodes, 0 \notin Processes, NEW u \in Users,
         Opened \in Inodes,
         \/ \E job \in {"open", "destroy"} : PosixOpen(u, job)
         \/ PosixInsert(u) \/ PosixRefused(u) \/ PosixLock(u) \/ PosixUnlock(u) \/ PosixRemove(u)
         \/ PosixClose(u) \/ DeleteLock(u)
  PROVE  LockInv'
<1> USE DEF UserPositions, InTable
<1>1. /\ LockTypes /\ PosixInv /\ (alone => AloneInv) /\ u[1] \in Processes
  BY DEF LockInv, Processes
<1>2. platform' = "posix" /\ alone' = alone
  BY DEF PosixOpen, PosixInsert, PosixRefused, PosixLock, PosixUnlock, PosixRemove, PosixClose, DeleteLock
<1>3. \A v \in Users : v[1] \in Processes
  BY DEF Processes
<1> SUFFICES LockTypes' /\ PosixInv' /\ (alone => AloneInv')
  BY <1>2 DEF LockInv
<1>4. ASSUME NEW job \in {"open", "destroy"}, PosixOpen(u, job)
      PROVE  LockTypes' /\ PosixInv' /\ (alone => AloneInv')
  <2>1. /\ user' = [user EXCEPT ![u] = [pc |-> "opened", job |-> job, fd |-> Opened]]
        /\ LOCK' = Opened /\ UNCHANGED <<flock, locks_>> /\ user[u].pc = "idle"
        /\ alone => job = "open" /\ \A v \in Users : v[1] = u[1] /\ v # u => user[v].pc = "idle"
    BY <1>4 DEF PosixOpen, Begin, Away
  <2>2. LockTypes'
    BY <1>1, <1>2, <2>1 DEF LockTypes
  <2>3. /\ \A v \in Users \ {u} : user'[v] = user[v]
        /\ user'[u].pc = "opened" /\ user'[u].job = job /\ user'[u].fd = Opened
    BY <1>1, <2>1 DEF LockTypes
  <2>4. PosixInv'
    BY <1>1, <2>1, <2>3 DEF PosixInv, Held
  <2>5. alone => \A v \in Users : user[v].fd # 0 => LOCK' = LOCK
    BY <1>1, <2>1 DEF AloneInv, Opened
  <2>6. alone => AloneInv'
    BY <1>1, <2>1, <2>3, <2>5 DEF AloneInv, Held
  <2> QED
    BY <2>2, <2>4, <2>6
<1>5. ASSUME PosixInsert(u)
      PROVE  LockTypes' /\ PosixInv' /\ (alone => AloneInv')
  <2>1. user[u].pc = "opened" /\ UNCHANGED <<LOCK, flock>> /\ user[u].fd \in Inodes /\ user[u].fd # 0
    BY <1>1, <1>5 DEF PosixInsert, LockTypes
  <2>2. CASE ~locks_[u[1]]
    <3>1. locks_' = [locks_ EXCEPT ![u[1]] = TRUE] /\ user' = [user EXCEPT ![u].pc = "inserted"]
      BY <1>5, <2>2 DEF PosixInsert, Insert, Proceeds
    <3>2. /\ \A v \in Users \ {u} : user'[v] = user[v]
          /\ user'[u].pc = "inserted" /\ user'[u].job = user[u].job /\ user'[u].fd = user[u].fd
          /\ \A p \in Processes \ {u[1]} : locks_'[p] = locks_[p]
          /\ locks_'[u[1]]
      BY <1>1, <3>1, ZenonT(30) DEF LockTypes
    <3>3. LockTypes'
      BY <1>1, <1>2, <2>1, <3>1 DEF LockTypes
    <3>4. PosixInv'
      BY <1>1, <1>3, <2>1, <2>2, <3>2 DEF PosixInv, Held
    <3>5. alone => AloneInv'
      BY <1>1, <2>1, <3>2 DEF AloneInv, Held
    <3> QED
      BY <3>3, <3>4, <3>5
  <2>3. CASE locks_[u[1]]
    <3>1. user' = [user EXCEPT ![u].pc = "refused"] /\ UNCHANGED locks_
      BY <1>5, <2>3 DEF PosixInsert, Insert, Proceeds
    <3>2. /\ \A v \in Users \ {u} : user'[v] = user[v]
          /\ user'[u].pc = "refused" /\ user'[u].job = user[u].job /\ user'[u].fd = user[u].fd
      BY <1>1, <3>1 DEF LockTypes
    <3>3. LockTypes'
      BY <1>1, <1>2, <2>1, <3>1 DEF LockTypes
    <3>4. PosixInv'
      BY <1>1, <1>3, <2>1, <3>1, <3>2 DEF PosixInv, Held
    <3>5. ~alone
      <4>1. PICK v \in Users : v[1] = u[1] /\ user[v].pc \in InTable
        BY <1>1, <2>3 DEF PosixInv
      <4> QED
        BY <1>1, <2>1, <4>1 DEF AloneInv
    <3> QED
      BY <3>3, <3>4, <3>5
  <2> QED
    BY <2>2, <2>3
<1>6. ASSUME PosixRefused(u)
      PROVE  LockTypes' /\ PosixInv' /\ (alone => AloneInv')
  <2>1. /\ user[u].pc = "refused" /\ user' = [user EXCEPT ![u] = Away] /\ UNCHANGED <<LOCK, locks_>>
        /\ flock' = [flock EXCEPT ![user[u].fd] = IF @ = u[1] THEN 0 ELSE @]
    BY <1>6 DEF PosixRefused, GivenUp
  <2>2. /\ \A v \in Users \ {u} : user'[v] = user[v]
        /\ user'[u].pc = "idle" /\ user'[u].fd = 0
        /\ \A n \in Inodes : flock'[n] # 0 => flock'[n] = flock[n]
    BY <1>1, <2>1 DEF LockTypes, Away
  <2>3. LockTypes'
    BY <1>1, <1>2, <2>1 DEF LockTypes, Away
  <2>4. PosixInv'
    BY <1>1, <2>1, <2>2 DEF PosixInv, Held
  <2>5. ~alone
    BY <1>1, <2>1 DEF AloneInv
  <2> QED
    BY <2>3, <2>4, <2>5
<1>7. ASSUME PosixLock(u)
      PROVE  LockTypes' /\ PosixInv' /\ (alone => AloneInv')
  <2>1. user[u].pc = "inserted" /\ UNCHANGED LOCK /\ user[u].fd \in Inodes /\ user[u].fd # 0
    BY <1>1, <1>7 DEF PosixLock, LockTypes
  <2>2. CASE flock[user[u].fd] \in {0, u[1]}
    <3>1. /\ flock' = [flock EXCEPT ![user[u].fd] = u[1]] /\ user' = [user EXCEPT ![u].pc = "held"]
          /\ UNCHANGED locks_
      BY <1>7, <2>2 DEF PosixLock, Proceeds
    <3>2. /\ \A v \in Users \ {u} : user'[v] = user[v]
          /\ user'[u].pc = "held" /\ user'[u].job = user[u].job /\ user'[u].fd = user[u].fd
          /\ flock'[user[u].fd] = u[1] /\ \A n \in Inodes \ {user[u].fd} : flock'[n] = flock[n]
      BY <1>1, <2>1, <3>1 DEF LockTypes
    <3>3. LockTypes'
      BY <1>1, <1>2, <2>1, <3>1 DEF LockTypes
    <3>4. PosixInv'
      BY <1>1, <2>1, <3>1, <3>2 DEF PosixInv, Held
    <3>5. ASSUME alone
          PROVE  AloneInv'
      <4>1. \A v \in Users \ {u} : Held(v) => v[1] # u[1]
        BY <1>1, <2>1, <3>5 DEF AloneInv, Held
      <4>2. \A v \in Users \ {u} : Held(v) => user[v].fd # user[u].fd
        BY <1>1, <2>1, <2>2, <3>5, <4>1, <1>3 DEF AloneInv, LockTypes, Held
      <4>3. \A v \in Users : Held(v)' => flock'[user'[v].fd] = v[1]
        BY <1>1, <3>2, <3>5, <4>2 DEF AloneInv, Held, LockTypes
      <4> QED
        BY <1>1, <2>1, <3>2, <3>5, <4>3 DEF AloneInv
    <3> QED
      BY <3>3, <3>4, <3>5
  <2>3. CASE flock[user[u].fd] \notin {0, u[1]}
    <3>1. /\ locks_' = [locks_ EXCEPT ![u[1]] = FALSE] /\ user' = [user EXCEPT ![u] = Away]
          /\ UNCHANGED flock
      BY <1>7, <2>3 DEF PosixLock, LockFails
    <3>2. /\ \A v \in Users \ {u} : user'[v] = user[v]
          /\ user'[u].pc = "idle" /\ user'[u].fd = 0 /\ user'[u].job = "none"
          /\ ~locks_'[u[1]] /\ \A p \in Processes \ {u[1]} : locks_'[p] = locks_[p]
      BY <1>1, <3>1, ZenonT(30) DEF LockTypes, Away
    <3>3. LockTypes'
      BY <1>1, <1>2, <2>1, <3>1 DEF LockTypes, Away
    <3>4. PosixInv'
      BY <1>1, <1>3, <2>1, <3>1, <3>2 DEF PosixInv, Held
    <3>5. alone => AloneInv'
      BY <1>1, <2>1, <3>1, <3>2 DEF AloneInv, Held
    <3> QED
      BY <3>3, <3>4, <3>5
  <2> QED
    BY <2>2, <2>3
<1>8. ASSUME PosixUnlock(u)
      PROVE  LockTypes' /\ PosixInv' /\ (alone => AloneInv')
  <2>1. /\ user[u].pc = "held" /\ user' = [user EXCEPT ![u].pc = "unlocked"] /\ UNCHANGED <<LOCK, locks_>>
        /\ flock' = [flock EXCEPT ![user[u].fd] = IF @ = u[1] THEN 0 ELSE @]
        /\ user[u].fd \in Inodes
    BY <1>1, <1>8 DEF PosixUnlock, GivenUp, Held, Proceeds, LockTypes
  <2>2. /\ \A v \in Users \ {u} : user'[v] = user[v]
        /\ user'[u].pc = "unlocked" /\ user'[u].fd = user[u].fd /\ user'[u].job = user[u].job
        /\ \A n \in Inodes : flock'[n] = IF n = user[u].fd /\ flock[n] = u[1] THEN 0 ELSE flock[n]
    BY <1>1, <2>1 DEF LockTypes
  <2>3. LockTypes'
    BY <1>1, <1>2, <2>1 DEF LockTypes
  <2>4. PosixInv'
    <3>1. ASSUME NEW n \in Inodes, flock'[n] # 0
          PROVE  \E v \in Users : v[1] = flock'[n] /\ Held(v)' /\ user'[v].fd = n
      <4>1. flock'[n] = flock[n] /\ ~(n = user[u].fd /\ flock[n] = u[1])
        BY <2>2, <3>1, ZenonT(30)
      <4>2. PICK v \in Users : v[1] = flock[n] /\ Held(v) /\ user[v].fd = n
        BY <1>1, <3>1, <4>1 DEF PosixInv
      <4>3. v # u
        BY <4>1, <4>2
      <4> QED
        BY <2>2, <4>1, <4>2, <4>3, ZenonT(30) DEF Held
    <3> QED
      BY <1>1, <2>1, <2>2, <3>1 DEF PosixInv
  <2>5. alone => AloneInv'
    <3>1. \A v \in Users \ {u} : alone /\ Held(v) => v[1] # u[1]
      BY <1>1, <2>1 DEF AloneInv, Held
    <3> QED
      BY <1>1, <2>1, <2>2, <3>1 DEF AloneInv, Held, LockTypes
  <2> QED
    BY <2>3, <2>4, <2>5
<1>9. ASSUME PosixRemove(u)
      PROVE  LockTypes' /\ PosixInv' /\ (alone => AloneInv')
  <2>1. /\ user[u].pc = "unlocked" /\ user' = [user EXCEPT ![u].pc = "removed"] /\ UNCHANGED <<LOCK, flock>>
        /\ locks_' = [locks_ EXCEPT ![u[1]] = FALSE]
    BY <1>9 DEF PosixRemove, Proceeds
  <2>2. /\ \A v \in Users \ {u} : user'[v] = user[v]
        /\ user'[u].pc = "removed" /\ user'[u].fd = user[u].fd /\ user'[u].job = user[u].job
        /\ ~locks_'[u[1]] /\ \A p \in Processes \ {u[1]} : locks_'[p] = locks_[p]
    BY <1>1, <2>1, ZenonT(30) DEF LockTypes
  <2>3. LockTypes'
    BY <1>1, <1>2, <2>1 DEF LockTypes
  <2>4. PosixInv'
    BY <1>1, <1>3, <2>1, <2>2 DEF PosixInv, Held
  <2>5. alone => AloneInv'
    BY <1>1, <2>1, <2>2 DEF AloneInv, Held
  <2> QED
    BY <2>3, <2>4, <2>5
<1>10. ASSUME PosixClose(u)
       PROVE  LockTypes' /\ PosixInv' /\ (alone => AloneInv')
  <2>1. /\ user[u].pc = "removed" /\ UNCHANGED <<LOCK, locks_>> /\ user' = [user EXCEPT ![u] = AfterUnlock(u)]
        /\ flock' = [flock EXCEPT ![user[u].fd] = IF @ = u[1] THEN 0 ELSE @]
    BY <1>10 DEF PosixClose, GivenUp
  <2>2. /\ \A v \in Users \ {u} : user'[v] = user[v]
        /\ user'[u] = AfterUnlock(u)
        /\ \A n \in Inodes : flock'[n] = flock[n] \/ (flock[n] = u[1] /\ flock'[n] = 0)
    BY <1>1, <2>1, ZenonT(30) DEF LockTypes
  <2>3. /\ AfterUnlock(u) \in [pc : {"idle", "delete"}, job : {"none", "destroy"}, fd : {0}]
        /\ user[u].job # "destroy" => AfterUnlock(u).pc = "idle" /\ AfterUnlock(u).job = "none"
    BY DEF AfterUnlock, Away
  <2>4. LockTypes'
    <3>1. flock' \in [Inodes -> Processes \cup {0}]
      BY <1>1, <2>1, ZenonT(30) DEF LockTypes
    <3> QED
      BY <1>1, <1>2, <2>1, <2>2, <2>3, <3>1 DEF LockTypes
  <2>5. PosixInv'
    BY <1>1, <2>1, <2>2, <2>3, SMTT(30) DEF PosixInv, Held
  <2>6. alone => AloneInv'
    <3>1. alone => \A v \in Users \ {u} : Held(v) => v[1] # u[1]
      BY <1>1, <2>1, ZenonT(30) DEF AloneInv, Held
    <3>2. alone => \A v \in Users \ {u} : Held(v) => flock'[user[v].fd] = v[1]
      BY <1>1, <2>2, <3>1 DEF AloneInv, Held, LockTypes
    <3> QED
      BY <1>1, <2>1, <2>2, <2>3, <3>2 DEF AloneInv, Held
  <2> QED
    BY <2>4, <2>5, <2>6
<1>11. ASSUME DeleteLock(u)
       PROVE  LockTypes' /\ PosixInv' /\ (alone => AloneInv')
  <2>1. /\ user[u].pc = "delete" /\ user' = [user EXCEPT ![u] = Away] /\ UNCHANGED <<flock, locks_>>
        /\ LOCK' = 0
    BY <1>11 DEF DeleteLock
  <2>2. /\ \A v \in Users \ {u} : user'[v] = user[v]
        /\ user'[u].pc = "idle" /\ user'[u].fd = 0
    BY <1>1, <2>1 DEF LockTypes, Away
  <2>3. LockTypes'
    BY <1>1, <1>2, <2>1 DEF LockTypes, Away
  <2>4. PosixInv'
    BY <1>1, <2>1, <2>2 DEF PosixInv, Held
  <2>5. ~alone
    BY <1>1, <2>1 DEF AloneInv
  <2> QED
    BY <2>3, <2>4, <2>5
<1> QED
  BY <1>4, <1>5, <1>6, <1>7, <1>8, <1>9, <1>10, <1>11

(* WinEnv's calls keep it.                                                   *)
LEMMA WinStep ==
  ASSUME LockInv, platform = "win", 0 \notin Inodes, NEW u \in Users, Opened \in Inodes,
         \/ \E job \in {"open", "destroy"} : WinLockFile(u, job)
         \/ WinUnlockFile(u) \/ DeleteLock(u)
  PROVE  LockInv'
<1> USE DEF UserPositions, InTable
<1>1. LockTypes /\ WinInv
  BY DEF LockInv
<1>2. platform' = "win" /\ alone' = alone /\ UNCHANGED <<flock, locks_>>
  BY DEF WinLockFile, WinUnlockFile, DeleteLock
<1> SUFFICES LockTypes' /\ WinInv'
  BY <1>2 DEF LockInv
<1>3. ASSUME NEW job \in {"open", "destroy"}, WinLockFile(u, job)
      PROVE  LockTypes' /\ WinInv'
  <2>1. CASE Sharing
    <3>1. UNCHANGED <<LOCK, user>>
      BY <1>3, <2>1 DEF WinLockFile
    <3> QED
      BY <1>1, <1>2, <3>1 DEF LockTypes, WinInv, Held
  <2>2. CASE ~Sharing
    <3>1. /\ LOCK' = Opened /\ user[u].pc = "idle"
          /\ user' = [user EXCEPT ![u] = [pc |-> "held", job |-> job, fd |-> Opened]]
      BY <1>3, <2>2 DEF WinLockFile, Begin, Away
    <3>2. \A v \in Users : ~Held(v)
      BY <1>1, <2>2 DEF WinInv, LockTypes, Sharing, OpenOn, Held
    <3>3. /\ \A v \in Users \ {u} : user'[v] = user[v]
          /\ user'[u].pc = "held" /\ user'[u].fd = Opened
      BY <1>1, <3>1 DEF LockTypes
    <3>4. LockTypes'
      BY <1>1, <1>2, <3>1 DEF LockTypes
    <3>5. WinInv'
      BY <1>1, <1>2, <3>1, <3>2, <3>3 DEF WinInv, Held
    <3> QED
      BY <3>4, <3>5
  <2> QED
    BY <2>1, <2>2
<1>4. ASSUME WinUnlockFile(u)
      PROVE  LockTypes' /\ WinInv'
  <2>1. user' = [user EXCEPT ![u] = AfterUnlock(u)] /\ UNCHANGED LOCK
    BY <1>4 DEF WinUnlockFile
  <2>2. AfterUnlock(u) \in [pc : {"idle", "delete"}, job : {"none", "destroy"}, fd : {0}]
    BY DEF AfterUnlock, Away
  <2>3. user'[u] = AfterUnlock(u) /\ \A v \in Users \ {u} : user'[v] = user[v]
    BY <1>1, <2>1 DEF LockTypes
  <2>4. LockTypes'
    BY <1>1, <1>2, <2>1, <2>2, <2>3 DEF LockTypes
  <2>5. WinInv'
    BY <1>1, <1>2, <2>1, <2>2, <2>3 DEF WinInv, Held
  <2> QED
    BY <2>4, <2>5
<1>5. ASSUME DeleteLock(u)
      PROVE  LockTypes' /\ WinInv'
  <2>1. /\ user' = [user EXCEPT ![u] = Away] /\ user[u].pc = "delete"
        /\ LOCK' = IF LOCK # 0 /\ OpenOn(LOCK) THEN LOCK ELSE 0
    BY <1>5 DEF DeleteLock
  <2>2. /\ user'[u].pc = "idle" /\ user'[u].fd = 0 /\ \A v \in Users \ {u} : user'[v] = user[v]
    BY <1>1, <2>1 DEF LockTypes, Away
  <2>3. \A v \in Users : Held(v) => LOCK # 0 /\ OpenOn(LOCK)
    BY <1>1 DEF WinInv, LockTypes, OpenOn, Held
  <2>4. LockTypes'
    BY <1>1, <1>2, <2>1 DEF LockTypes, Away
  <2>5. WinInv'
    BY <1>1, <1>2, <2>1, <2>2, <2>3 DEF WinInv, Held
  <2> QED
    BY <2>4, <2>5
<1> QED
  BY <1>3, <1>4, <1>5

(* The operating system closes what a process leaves behind.                *)
LEMMA ExitStep ==
  ASSUME LockInv, 0 \notin Processes, NEW p \in Processes, Exit(p)
  PROVE  LockInv'
<1> USE DEF UserPositions, InTable
<1>1. UNCHANGED <<platform, alone, LOCK>> /\ LockTypes
  BY DEF Exit, LockInv
<1>2. /\ \A v \in Users : user'[v] = IF v[1] = p THEN Away ELSE user[v]
      /\ \A q \in Processes : locks_'[q] = IF q = p THEN FALSE ELSE locks_[q]
      /\ \A n \in Inodes : flock'[n] = IF flock[n] = p THEN 0 ELSE flock[n]
  BY <1>1 DEF Exit, LockTypes
<1>3. Away.pc = "idle" /\ Away.fd = 0 /\ Away.job = "none"
  BY DEF Away
<1>4. \A v \in Users : v[1] \in Processes
  BY DEF Processes
<1>5. LockTypes'
  <2>1. /\ user' \in [Users -> [pc : UserPositions, job : {"none", "open", "destroy"}, fd : Inodes \cup {0}]]
        /\ locks_' \in [Processes -> BOOLEAN] /\ flock' \in [Inodes -> Processes \cup {0}]
    BY <1>1 DEF Exit, LockTypes, Away
  <2> QED
    BY <1>1, <1>2, <1>3, <2>1 DEF LockTypes
<1>6. ASSUME platform = "posix"
      PROVE  PosixInv'
  <2>1. PosixInv
    BY <1>6 DEF LockInv
  <2>2. \A n \in Inodes : flock'[n] # 0 => \E v \in Users : v[1] = flock'[n] /\ Held(v)' /\ user'[v].fd = n
    BY <1>2, <2>1 DEF PosixInv, Held
  <2>3. \A q \in Processes : locks_'[q] => \E v \in Users : v[1] = q /\ user'[v].pc \in InTable
    <3> SUFFICES ASSUME NEW q \in Processes, locks_'[q]
                 PROVE  \E v \in Users : v[1] = q /\ user'[v].pc \in InTable
      OBVIOUS
    <3>1. q # p /\ locks_[q]
      BY <1>2, ZenonT(30)
    <3>2. PICK v \in Users : v[1] = q /\ user[v].pc \in InTable
      BY <2>1, <3>1 DEF PosixInv
    <3> QED
      BY <1>2, <3>1, <3>2
  <2>4. \A v \in Users : user'[v].pc \in InTable => v[1] # p /\ user'[v] = user[v]
    BY <1>2, <1>3
  <2>5. \A v \in Users : user'[v].pc \in InTable => locks_'[v[1]]
    BY <1>2, <1>4, <2>1, <2>4, ZenonT(30) DEF PosixInv
  <2>6. \A u, v \in Users : user'[u].pc \in InTable /\ user'[v].pc \in InTable /\ u[1] = v[1] => u = v
    BY <2>1, <2>4 DEF PosixInv
  <2> QED
    BY <2>2, <2>3, <2>5, <2>6 DEF PosixInv
<1>7. ASSUME platform = "posix", alone
      PROVE  AloneInv'
  <2>1. AloneInv
    BY <1>7 DEF LockInv
  <2>2. ASSUME NEW v \in Users, user'[v].pc = "held"
        PROVE  flock'[user'[v].fd] = v[1]
    <3>1. v[1] # p /\ user'[v] = user[v]
      BY <1>2, <1>3, <2>2
    <3>2. flock[user[v].fd] = v[1] /\ user[v].fd \in Inodes
      BY <1>1, <2>1, <2>2, <3>1 DEF AloneInv, Held, LockTypes
    <3> QED
      BY <1>2, <3>1, <3>2
  <2>3. \A v \in Users : user'[v] = user[v] \/ (user'[v].pc = "idle" /\ user'[v].fd = 0 /\ user'[v].job = "none")
    BY <1>2, <1>3
  <2> QED
    BY <1>1, <2>1, <2>2, <2>3 DEF AloneInv, Held
<1>8. ASSUME platform = "win"
      PROVE  WinInv'
  BY <1>1, <1>2, <1>3, <1>8, ZenonT(30) DEF LockInv, WinInv, Held
<1> QED
  BY <1>1, <1>5, <1>6, <1>7, <1>8 DEF LockInv

(* However the system calls of LockFile, UnlockFile and DestroyDB interleave *)
(* and whichever processes exit, OneOwner and LockReleased hold: the lock    *)
(* table keeps the threads of one process apart, fcntl the processes as long *)
(* as nobody closes or deletes LOCK behind their back, no sharing all of     *)
(* them on Windows (env_posix.cc:416-448, env_win.cc:329-353).              *)
THEOREM Locked == LockSpec => []LockExact
<1> USE LockAssumption
<1>1. LockInit => LockInv
  BY DEF LockInit, LockInv, LockTypes, PosixInv, AloneInv, WinInv, Held, Away, UserPositions, InTable
<1>2. LockInv /\ [LockNext]_lockVars => LockInv'
  <2> SUFFICES ASSUME LockInv, [LockNext]_lockVars
               PROVE  LockInv'
    OBVIOUS
  <2>1. Opened \in Inodes /\ platform \in {"win", "posix"}
    BY NewFile DEF LockInv, LockTypes
  <2>2. ASSUME NEW u \in Users,
               \/ \E job \in {"open", "destroy"} : PosixOpen(u, job) \/ WinLockFile(u, job)
               \/ PosixInsert(u) \/ PosixRefused(u) \/ PosixLock(u) \/ PosixUnlock(u)
               \/ PosixRemove(u) \/ PosixClose(u) \/ WinUnlockFile(u) \/ DeleteLock(u)
        PROVE  LockInv'
    <3>1. CASE platform = "posix"
      <4>1. ~WinUnlockFile(u) /\ ~\E job \in {"open", "destroy"} : WinLockFile(u, job)
        BY <3>1 DEF WinUnlockFile, WinLockFile
      <4> QED
        BY <2>1, <2>2, <3>1, <4>1, PosixStep
    <3>2. CASE platform = "win"
      <4>1. user[u].pc \in {"idle", "held", "delete"}
        BY <3>2, ZenonT(30) DEF LockInv, WinInv
      <4>2. /\ ~\E job \in {"open", "destroy"} : PosixOpen(u, job)
            /\ ~PosixInsert(u) /\ ~PosixRefused(u) /\ ~PosixLock(u) /\ ~PosixUnlock(u)
            /\ ~PosixRemove(u) /\ ~PosixClose(u)
        BY <3>2, <4>1 DEF PosixOpen, PosixInsert, PosixRefused, PosixLock, PosixUnlock, PosixRemove,
                          PosixClose
      <4> QED
        BY <2>1, <2>2, <3>2, <4>2, WinStep
    <3> QED
      BY <2>1, <3>1, <3>2
  <2>3. ASSUME NEW p \in Processes, Exit(p)
        PROVE  LockInv'
    BY <2>3, ExitStep, ZenonT(30)
  <2>4. CASE UNCHANGED lockVars
    BY <2>4 DEF lockVars, LockInv, LockTypes, PosixInv, AloneInv, WinInv, Held
  <2> QED
    BY <2>2, <2>3, <2>4 DEF LockNext
<1>3. LockInv => LockExact
  <2> SUFFICES ASSUME LockInv
               PROVE  LockExact
    OBVIOUS
  <2>1. OneOwner
    <3> SUFFICES ASSUME NEW u \in Users, NEW v \in Users, Held(u), Held(v), u # v
                 PROVE  platform = "posix" /\ ~alone /\ u[1] # v[1]
      BY DEF OneOwner
    <3>1. platform = "posix"
      BY DEF LockInv, LockTypes, WinInv
    <3>2. u[1] # v[1]
      BY <3>1 DEF LockInv, PosixInv, Held, InTable
    <3>3. alone => user[u].fd = LOCK /\ user[v].fd = LOCK /\ flock[LOCK] = u[1] /\ flock[LOCK] = v[1]
      BY <3>1 DEF LockInv, LockTypes, AloneInv, Held
    <3> QED
      BY <3>1, <3>2, <3>3
  <2>2. LockReleased
    <3> SUFFICES ASSUME NEW p \in Processes,
                        \A u \in Users : u[1] = p => user[u].pc \in {"idle", "delete"}
                 PROVE  ~locks_[p] /\ \A n \in Inodes : flock[n] # p
      BY DEF LockReleased
    <3>1. CASE platform = "posix"
      BY <3>1 DEF LockInv, PosixInv, Held, InTable
    <3>2. CASE platform = "win"
      BY <3>2 DEF LockInv, WinInv
    <3> QED
      BY <3>1, <3>2 DEF LockInv, LockTypes
  <2> QED
    BY <2>1, <2>2 DEF LockExact
<1> QED
  BY <1>1, <1>2, <1>3, PTL DEF LockSpec

-----------------------------------------------------------------------------
(* The counts of the files in memory.                                        *)

(* Finitely many names and threads; 0 is no FileState.                       *)
MemSets == IsFiniteSet(Names) /\ IsFiniteSet(Threads) /\ 0 \notin States

(* How many members of S a function leads to k.                              *)
Count(S, m, k) == Cardinality({y \in S : m[y] = k})
Moves(S, m, n, x, v) == IsFiniteSet(S) /\ x \in S /\ m = [y \in S |-> m[y]] /\ n = [m EXCEPT ![x] = v]
One(a, b) == IF a = b THEN 1 ELSE 0
Moved(S, m, n, x, v, k) == Count(S, n, k) = Count(S, m, k) - One(m[x], k) + One(v, k)
Holds == [t \in Threads |-> handle[t].file_]

(* The inductive invariant: refs_ counts the names and the file objects, and *)
(* a FileState that neither refers to has the one thread that will free it.  *)
FileTypes(fs) ==
  /\ fs = [f \in States |-> fs[f]]
  /\ \A f \in States : DOMAIN fs[f] = {"alive", "refs_", "size_", "blocks_"} /\ fs[f].refs_ \in Nat
HandleTypes ==
  /\ handle = [t \in Threads |-> handle[t]]
  /\ \A t \in Threads : DOMAIN handle[t] = {"kind", "file_", "pos_"} /\ handle[t].file_ \in States \cup {0}
Counted(fs, m, h) == \A f \in States : fs[f].refs_ = Count(Names, m, f) + Count(Threads, h, f)
Owned(fs, d) ==
  /\ \A f \in States : fs[f].alive \in BOOLEAN /\ (fs[f].alive <=> fs[f].refs_ # 0 \/ \E t \in Threads : d[t] = f)
  /\ \A t \in Threads : d[t] # 0 => fs[d[t]].refs_ = 0 /\ \A u \in Threads : d[u] = d[t] => u = t
MemInv ==
  /\ file_map_ \in [Names -> States \cup {0}] /\ doomed \in [Threads -> States \cup {0}]
  /\ FileTypes(file) /\ HandleTypes
  /\ Counted(file, file_map_, Holds) /\ Owned(file, doomed)

LEMMA CountType == ASSUME NEW S, IsFiniteSet(S), NEW m, NEW k PROVE Count(S, m, k) \in Nat
<1>1. IsFiniteSet({y \in S : m[y] = k})
  BY FS_Subset
<1> QED
  BY <1>1, FS_CardinalityType DEF Count

LEMMA CountZero ==
  ASSUME NEW S, IsFiniteSet(S), NEW m, NEW k
  PROVE  Count(S, m, k) = 0 <=> \A y \in S : m[y] # k
<1> DEFINE T == {y \in S : m[y] = k}
<1>1. IsFiniteSet(T)
  BY FS_Subset
<1>2. Cardinality(T) = 0 <=> T = {}
  BY <1>1, FS_EmptySet
<1> QED
  BY <1>2 DEF Count

(* Turning x from its old value to v moves one from the old to v.            *)
LEMMA CountMove ==
  ASSUME NEW S, NEW m, NEW n, NEW x, NEW v, NEW k, Moves(S, m, n, x, v)
  PROVE  Moved(S, m, n, x, v, k)
<1> SUFFICES Count(S, n, k) = Count(S, m, k) - One(m[x], k) + One(v, k)
  BY Zenon DEF Moved
<1> DEFINE T == {y \in S : m[y] = k}
           U == {y \in S : n[y] = k}
<1> USE DEF Moves
<1>1. IsFiniteSet(T) /\ IsFiniteSet(U) /\ Cardinality(T) \in Nat /\ Cardinality(U) \in Nat
  BY FS_Subset, FS_CardinalityType
<1>2. n[x] = v /\ \A y \in S : y # x => n[y] = m[y]
  OBVIOUS
<1>3. x \in T <=> m[x] = k
  OBVIOUS
<1>4. x \in U <=> v = k
  BY <1>2
<1>5. \A y : y # x => (y \in U <=> y \in T)
  BY <1>2
<1> HIDE DEF T, U, Moves
<1>6. CASE m[x] = k /\ v = k
  <2>1. U = T
    BY <1>3, <1>4, <1>5, <1>6
  <2> QED
    BY <1>1, <1>6, <2>1 DEF Count, T, U, One
<1>7. CASE m[x] = k /\ v # k
  <2>1. U = T \ {x} /\ x \in T
    BY <1>3, <1>4, <1>5, <1>7
  <2>2. Cardinality(U) = Cardinality(T) - 1
    BY <1>1, <2>1, FS_RemoveElement
  <2> QED
    BY <1>1, <1>7, <2>2 DEF Count, T, U, One
<1>8. CASE m[x] # k /\ v = k
  <2>1. U = T \cup {x} /\ x \notin T
    BY <1>3, <1>4, <1>5, <1>8
  <2>2. Cardinality(U) = Cardinality(T) + 1
    BY <1>1, <2>1, FS_AddElement
  <2> QED
    BY <1>1, <1>8, <2>2 DEF Count, T, U, One
<1>9. CASE m[x] # k /\ v # k
  <2>1. U = T
    BY <1>3, <1>4, <1>5, <1>9
  <2> QED
    <3>1. One(m[x], k) = 0 /\ One(v, k) = 0
      BY <1>9 DEF One
    <3>2. Count(S, m, k) = Cardinality(T) /\ Count(S, n, k) = Cardinality(T)
      BY <2>1 DEF Count, T, U
    <3> QED
      BY <1>1, <3>1, <3>2
<1> QED
  BY <1>6, <1>7, <1>8, <1>9, Zenon

(* What Ref and Unref do to the counts.                                      *)
LEMMA RefIs ==
  ASSUME NEW fs, FileTypes(fs), NEW g \in States
  PROVE  /\ FileTypes(Ref(fs, g))
         /\ \A f \in States : /\ Ref(fs, g)[f].refs_ = fs[f].refs_ + One(f, g)
                               /\ Ref(fs, g)[f].alive = fs[f].alive
<1> DEFINE gs == Ref(fs, g)
<1>1. /\ gs = [f \in States |-> gs[f]] /\ gs[g] = [fs[g] EXCEPT !.refs_ = @ + 1]
      /\ \A f \in States : f # g => gs[f] = fs[f]
  BY DEF FileTypes, Ref
<1>2. /\ DOMAIN gs[g] = DOMAIN fs[g] /\ gs[g].refs_ = fs[g].refs_ + 1 /\ gs[g].alive = fs[g].alive
  BY <1>1 DEF FileTypes
<1> HIDE DEF gs
<1>3. \A f \in States : /\ gs[f].refs_ = fs[f].refs_ + One(f, g)
                        /\ gs[f].alive = fs[f].alive /\ DOMAIN gs[f] = DOMAIN fs[f]
  BY <1>1, <1>2 DEF FileTypes, One
<1>4. FileTypes(gs)
  BY <1>1, <1>3 DEF FileTypes
<1> QED
  BY <1>3, <1>4 DEF gs

LEMMA UnrefIs ==
  ASSUME MemSets, NEW fs, FileTypes(fs), NEW g \in States \cup {0}, g # 0 => fs[g].refs_ # 0
  PROVE  /\ FileTypes(Unref(fs, g))
         /\ \A f \in States : /\ Unref(fs, g)[f].refs_ = fs[f].refs_ - One(f, g)
                               /\ Unref(fs, g)[f].alive = fs[f].alive
<1>1. CASE g = 0
  <2>1. Unref(fs, g) = fs /\ \A f \in States : f # g
    BY <1>1 DEF Unref, MemSets
  <2> QED
    BY <2>1 DEF FileTypes, One
<1>2. CASE g \in States
  <2> DEFINE gs == Unref(fs, g)
  <2>1. /\ gs = [f \in States |-> gs[f]] /\ gs[g] = [fs[g] EXCEPT !.refs_ = @ - 1]
        /\ \A f \in States : f # g => gs[f] = fs[f]
    BY <1>2 DEF FileTypes, Unref, MemSets
  <2>2. /\ DOMAIN gs[g] = DOMAIN fs[g] /\ gs[g].refs_ = fs[g].refs_ - 1 /\ gs[g].alive = fs[g].alive
    BY <1>2, <2>1 DEF FileTypes
  <2> HIDE DEF gs
  <2>3. \A f \in States : /\ gs[f].refs_ = fs[f].refs_ - One(f, g)
                          /\ gs[f].alive = fs[f].alive /\ DOMAIN gs[f] = DOMAIN fs[f]
    BY <1>2, <2>1, <2>2 DEF FileTypes, One
  <2>4. g # 0
    BY <1>2 DEF MemSets
  <2>5. FileTypes(gs)
    BY <1>2, <2>1, <2>3, <2>4, SMTT(30) DEF FileTypes
  <2> QED
    BY <2>3, <2>5 DEF gs
<1> QED
  BY <1>1, <1>2

(* Whoever brings a count to 0 will free the FileState, nobody else.         *)
LEMMA OwnedUnref ==
  ASSUME MemSets, NEW fs, FileTypes(fs), NEW d \in [Threads -> States \cup {0}], Owned(fs, d),
         NEW g \in States \cup {0}, g # 0 => fs[g].refs_ # 0, NEW t \in Threads, d[t] = 0
  PROVE  Owned(Unref(fs, g), [d EXCEPT ![t] = Doom(fs, g)])
<1> DEFINE gs == Unref(fs, g)
           e == [d EXCEPT ![t] = Doom(fs, g)]
<1>1. \A f \in States : gs[f].refs_ = fs[f].refs_ - One(f, g) /\ gs[f].alive = fs[f].alive
  BY UnrefIs
<1>2. e[t] = Doom(fs, g) /\ \A u \in Threads : u # t => e[u] = d[u]
  OBVIOUS
<1>3. \A f \in States : f # 0 /\ fs[f].refs_ \in Nat
  BY DEF FileTypes, MemSets
<1>4. /\ Doom(fs, g) = 0 => g = 0 \/ fs[g].refs_ > 1
      /\ Doom(fs, g) # 0 => Doom(fs, g) = g /\ g \in States /\ fs[g].refs_ = 1
  BY <1>3 DEF Doom, Last
<1> HIDE DEF gs, e
<1>5. ASSUME NEW f \in States
      PROVE  gs[f].alive \in BOOLEAN /\ (gs[f].alive <=> gs[f].refs_ # 0 \/ \E u \in Threads : e[u] = f)
  <2>1. fs[f].alive \in BOOLEAN /\ (fs[f].alive <=> fs[f].refs_ # 0 \/ \E u \in Threads : d[u] = f)
    BY DEF Owned
  <2>2. CASE f = g
    <3>1. fs[f].alive = TRUE /\ gs[f].alive = TRUE
      BY <1>1, <1>3, <2>1, <2>2, ZenonT(30)
    <3>2. gs[f].refs_ = 0 => e[t] = f
      BY <1>1, <1>2, <1>3, <1>4, <2>2 DEF One
    <3> QED
      BY <3>1, <3>2, ZenonT(30)
  <2>3. CASE f # g
    <3>1. gs[f].refs_ = fs[f].refs_ /\ gs[f].alive = fs[f].alive
      BY <1>1, <1>3, <2>3 DEF One
    <3>2. \A u \in Threads : e[u] = f <=> d[u] = f
      BY <1>2, <1>3, <1>4, <2>3, ZenonT(30)
    <3> QED
      BY <2>1, <3>1, <3>2
  <2> QED
    BY <2>2, <2>3
<1>6. ASSUME NEW u \in Threads, e[u] # 0
      PROVE  gs[e[u]].refs_ = 0 /\ \A w \in Threads : e[w] = e[u] => w = u
  <2>1. CASE u = t
    <3>1. e[u] = g /\ g \in States /\ fs[g].refs_ = 1
      BY <1>2, <1>4, <1>6, <2>1, ZenonT(30)
    <3>2. \A w \in Threads : d[w] # g
      BY <1>3, <3>1, SMTT(30) DEF Owned
    <3> QED
      BY <1>1, <1>2, <2>1, <3>1, <3>2 DEF One
  <2>2. CASE u # t
    <3>1. e[u] = d[u] /\ d[u] # 0 /\ d[u] \in States
      BY <1>2, <1>6, <2>2
    <3>2. fs[d[u]].refs_ = 0 /\ \A w \in Threads : d[w] = d[u] => w = u
      BY <3>1 DEF Owned
    <3>3. d[u] # g
      BY <1>3, <3>1, <3>2, ZenonT(30)
    <3>4. e[t] # d[u]
      BY <1>2, <1>4, <3>1, <3>3
    <3> QED
      BY <1>1, <1>2, <3>1, <3>2, <3>3, <3>4 DEF One
  <2> QED
    BY <2>1, <2>2
<1> QED
  BY <1>5, <1>6, ZenonT(30) DEF Owned, gs, e

(* A file object is made or destroyed, and one is moved.                     *)
LEMMA HandleSet ==
  ASSUME HandleTypes, NEW t \in Threads, NEW k, NEW v \in States \cup {0},
         handle' = [handle EXCEPT ![t] = [kind |-> k, file_ |-> v, pos_ |-> 0]]
  PROVE  HandleTypes' /\ Holds' = [Holds EXCEPT ![t] = v]
<1> DEFINE r == [kind |-> k, file_ |-> v, pos_ |-> 0]
<1>1. DOMAIN r = {"kind", "file_", "pos_"} /\ r.file_ = v
  OBVIOUS
<1> HIDE DEF r
<1>2. handle'[t] = r /\ (\A u \in Threads : u # t => handle'[u] = handle[u]) /\ handle' = [u \in Threads |-> handle'[u]]
  BY DEF HandleTypes, r
<1>3. HandleTypes'
  BY <1>1, <1>2 DEF HandleTypes
<1>4. \A u \in Threads : handle'[u].file_ = IF u = t THEN v ELSE handle[u].file_
  BY <1>1, <1>2
<1> QED
  BY <1>3, <1>4, ZenonT(30) DEF Holds

LEMMA HandleMoved ==
  ASSUME HandleTypes, NEW t \in Threads, NEW v, handle' = [handle EXCEPT ![t].pos_ = v]
  PROVE  HandleTypes' /\ Holds' = Holds
<1>1. /\ handle'[t] = [handle[t] EXCEPT !.pos_ = v] /\ (\A u \in Threads : u # t => handle'[u] = handle[u])
      /\ handle' = [u \in Threads |-> handle'[u]]
  BY DEF HandleTypes
<1>2. DOMAIN handle'[t] = {"kind", "file_", "pos_"} /\ handle'[t].file_ = handle[t].file_
  BY <1>1 DEF HandleTypes
<1>3. HandleTypes'
  BY <1>1, <1>2 DEF HandleTypes
<1>4. \A u \in Threads : handle'[u].file_ = handle[u].file_
  BY <1>1, <1>2
<1> QED
  BY <1>3, <1>4 DEF Holds

LEMMA HoldsType == ASSUME HandleTypes PROVE Holds \in [Threads -> States \cup {0}]
BY DEF HandleTypes, Holds

LEMMA DoomType == ASSUME NEW g \in States \cup {0} PROVE Doom(file, g) \in States \cup {0}
BY DEF Doom

LEMMA HoldsNone == ASSUME NEW t \in Threads, handle[t] = Closed PROVE Holds[t] = 0
BY DEF Closed, Holds

LEMMA RefsPositive ==
  ASSUME MemSets, MemInv, NEW f \in States,
         (\E x \in Names : file_map_[x] = f) \/ (\E t \in Threads : handle[t].file_ = f)
  PROVE  file[f].refs_ # 0 /\ file[f].refs_ \in Nat /\ file[f].alive = TRUE
<1>1. Count(Names, file_map_, f) \in Nat /\ Count(Threads, Holds, f) \in Nat
  BY CountType DEF MemSets
<1>2. Count(Names, file_map_, f) # 0 \/ Count(Threads, Holds, f) # 0
  BY CountZero DEF MemSets, Holds
<1>3. file[f].refs_ = Count(Names, file_map_, f) + Count(Threads, Holds, f)
  BY DEF MemInv, Counted
<1>4. file[f].refs_ # 0 /\ file[f].refs_ \in Nat
  BY <1>1, <1>2, <1>3, SMTT(30)
<1> QED
  BY <1>4 DEF MemInv, Owned

LEMMA OpenFileStep ==
  ASSUME MemSets, MemInv, NEW t \in Threads, NEW kind, NEW x \in Names, OpenFile(t, kind, x)
  PROVE  MemInv'
<1> DEFINE g == file_map_[x]
<1>1. /\ handle' = [handle EXCEPT ![t] = [kind |-> kind, file_ |-> g, pos_ |-> 0]] /\ g # 0
      /\ file' = Ref(file, g) /\ UNCHANGED <<file_map_, doomed>> /\ handle[t] = Closed
  BY DEF OpenFile, Idle
<1>2. g \in States /\ FileTypes(file) /\ HandleTypes /\ Counted(file, file_map_, Holds) /\ Owned(file, doomed)
      /\ file_map_ \in [Names -> States \cup {0}] /\ doomed \in [Threads -> States \cup {0}]
  BY <1>1, ZenonT(30) DEF MemInv
<1>3. HandleTypes' /\ Holds' = [Holds EXCEPT ![t] = g]
  BY <1>1, <1>2, HandleSet, ZenonT(30)
<1>4. Holds[t] = 0 /\ Holds \in [Threads -> States \cup {0}]
  BY <1>1, <1>2, HoldsType, HoldsNone, ZenonT(30)
<1>5. FileTypes(file') /\ \A f \in States : /\ file'[f].refs_ = file[f].refs_ + One(f, g)
                                             /\ file'[f].alive = file[f].alive
  BY <1>1, <1>2, RefIs, ZenonT(30)
<1>6. file[g].refs_ # 0
  BY <1>2, RefsPositive, ZenonT(30)
<1> HIDE DEF g
<1>7. Counted(file', file_map_', Holds')
  <2> SUFFICES ASSUME NEW f \in States PROVE file'[f].refs_ = Count(Names, file_map_, f) + Count(Threads, Holds', f)
    BY <1>1 DEF Counted
  <2>1. Count(Threads, Holds', f) = Count(Threads, Holds, f) - One(Holds[t], f) + One(g, f)
    <3>1. Moves(Threads, Holds, Holds', t, g)
      BY <1>3, <1>4 DEF MemSets, Moves
    <3>2. Moved(Threads, Holds, Holds', t, g, f)
      BY <3>1, CountMove, Zenon
    <3> QED
      BY <3>2, Zenon DEF Moved
  <2>2. Count(Names, file_map_, f) \in Nat /\ Count(Threads, Holds, f) \in Nat /\ f # 0
    BY CountType DEF MemSets
  <2>3. file[f].refs_ = Count(Names, file_map_, f) + Count(Threads, Holds, f)
    BY <1>2, ZenonT(30) DEF Counted
  <2> QED
    BY <1>4, <1>5, <2>1, <2>2, <2>3 DEF One
<1>8. Owned(file', doomed')
  <2>1. \A f \in States : file[f].refs_ \in Nat
    BY <1>2 DEF FileTypes
  <2>2. \A f \in States : file'[f].refs_ = 0 <=> file[f].refs_ = 0
    BY <1>5, <1>6, <2>1 DEF One
  <2>3. \A u \in Threads : doomed[u] # 0 => doomed[u] \in States
    BY <1>2, ZenonT(30)
  <2> QED
    BY <1>1, <1>2, <1>5, <2>2, <2>3, ZenonT(30) DEF Owned
<1> QED
  BY <1>1, <1>2, <1>3, <1>5, <1>7, <1>8, ZenonT(30) DEF MemInv

(* A name is taken from a FileState or a file object is destroyed.           *)
LEMMA DropStep ==
  ASSUME MemSets, MemInv, NEW t \in Threads, doomed[t] = 0, NEW g \in States \cup {0},
         g # 0 => file[g].refs_ # 0, file' = Unref(file, g), doomed' = [doomed EXCEPT ![t] = Doom(file, g)],
         file_map_' \in [Names -> States \cup {0}], HandleTypes',
         \A f \in States : Count(Names, file_map_', f) + Count(Threads, Holds', f)
                             = Count(Names, file_map_, f) + Count(Threads, Holds, f) - One(f, g)
  PROVE  MemInv'
<1>1. FileTypes(file) /\ Counted(file, file_map_, Holds) /\ Owned(file, doomed) /\ doomed \in [Threads -> States \cup {0}]
  BY ZenonT(30) DEF MemInv
<1>2. FileTypes(file') /\ \A f \in States : file'[f].refs_ = file[f].refs_ - One(f, g)
  BY <1>1, UnrefIs, ZenonT(30)
<1>3. Owned(file', doomed')
  BY <1>1, OwnedUnref, ZenonT(30)
<1>4. doomed' \in [Threads -> States \cup {0}]
  <2>1. Doom(file, g) \in States \cup {0}
    BY DoomType, ZenonT(30)
  <2> QED
    BY <1>1, <2>1, ZenonT(30)
<1>5. Counted(file', file_map_', Holds')
  <2> SUFFICES ASSUME NEW f \in States PROVE file'[f].refs_ = Count(Names, file_map_', f) + Count(Threads, Holds', f)
    BY Zenon DEF Counted
  <2>1. file[f].refs_ = Count(Names, file_map_, f) + Count(Threads, Holds, f)
    BY <1>1, Zenon DEF Counted
  <2>2. file'[f].refs_ = file[f].refs_ - One(f, g)
    BY <1>2, Zenon
  <2>3. Count(Names, file_map_, f) \in Nat /\ Count(Threads, Holds, f) \in Nat /\ One(f, g) \in Nat
    BY CountType DEF MemSets, One
  <2>4. Count(Names, file_map_', f) + Count(Threads, Holds', f)
          = Count(Names, file_map_, f) + Count(Threads, Holds, f) - One(f, g)
    BY Zenon
  <2> QED
    BY <2>1, <2>2, <2>3, <2>4
<1> QED
  BY <1>2, <1>3, <1>4, <1>5, ZenonT(30) DEF MemInv

LEMMA DeleteFileStep ==
  ASSUME MemSets, MemInv, NEW t \in Threads, NEW x \in Names, DeleteFile(t, x)
  PROVE  MemInv'
<1> DEFINE g == file_map_[x]
<1>1. /\ g # 0 /\ file_map_' = [file_map_ EXCEPT ![x] = 0] /\ file' = Unref(file, g) /\ handle' = handle
      /\ doomed' = [doomed EXCEPT ![t] = Doom(file, g)] /\ doomed[t] = 0
  BY DEF DeleteFile, Idle, Env
<1>2. HandleTypes /\ file_map_ \in [Names -> States \cup {0}] /\ g \in States
  BY <1>1 DEF MemInv
<1>3. HandleTypes' /\ Holds' = Holds
  BY <1>1, <1>2 DEF HandleTypes, Holds
<1>4. file_map_' \in [Names -> States \cup {0}]
  BY <1>1, <1>2
<1>5. file[g].refs_ # 0
  BY <1>2, RefsPositive, ZenonT(30)
<1>6. Moves(Names, file_map_, file_map_', x, 0)
  BY <1>1, <1>2 DEF MemSets, Moves
<1> HIDE DEF g
<1>7. ASSUME NEW f \in States
      PROVE  Count(Names, file_map_', f) + Count(Threads, Holds', f)
               = Count(Names, file_map_, f) + Count(Threads, Holds, f) - One(f, g)
  <2>1. Count(Names, file_map_', f) = Count(Names, file_map_, f) - One(g, f) + One(0, f)
    <3>1. Moved(Names, file_map_, file_map_', x, 0, f)
      BY <1>6, CountMove, Zenon
    <3> QED
      BY <3>1, Zenon DEF Moved, g
  <2>2. Count(Names, file_map_, f) \in Nat /\ Count(Threads, Holds, f) \in Nat /\ f # 0
    BY CountType DEF MemSets
  <2> QED
    BY <1>3, <2>1, <2>2 DEF One
<1> QED
  BY <1>1, <1>2, <1>3, <1>4, <1>5, <1>7, DropStep, Zenon

LEMMA RenameFileStep ==
  ASSUME MemSets, MemInv, NEW t \in Threads, NEW x \in Names, NEW y \in Names, RenameFile(t, x, y)
  PROVE  MemInv'
<1> DEFINE g == file_map_[y]
           m == [file_map_ EXCEPT ![x] = 0]
<1>1. /\ x # y /\ file_map_' = [m EXCEPT ![y] = file_map_[x]] /\ file' = Unref(file, g) /\ handle' = handle
      /\ doomed' = [doomed EXCEPT ![t] = Doom(file, g)] /\ doomed[t] = 0
  BY DEF RenameFile, Replaced, Idle, Env
<1>2. HandleTypes /\ file_map_ \in [Names -> States \cup {0}] /\ g \in States \cup {0}
  BY <1>1 DEF MemInv
<1>3. HandleTypes' /\ Holds' = Holds
  BY <1>1, <1>2 DEF HandleTypes, Holds
<1>4. m \in [Names -> States \cup {0}] /\ file_map_' \in [Names -> States \cup {0}] /\ m[y] = g
  BY <1>1, <1>2
<1>5. g # 0 => file[g].refs_ # 0
  BY <1>2, RefsPositive, ZenonT(30)
<1>6. Moves(Names, file_map_, m, x, 0)
  BY <1>1, <1>2 DEF MemSets, Moves
<1>7. Moves(Names, m, file_map_', y, file_map_[x])
  BY <1>1, <1>4, ZenonT(30) DEF MemSets, Moves
<1> HIDE DEF g, m
<1>8. ASSUME NEW f \in States
      PROVE  Count(Names, file_map_', f) + Count(Threads, Holds', f)
               = Count(Names, file_map_, f) + Count(Threads, Holds, f) - One(f, g)
  <2>1. Count(Names, m, f) = Count(Names, file_map_, f) - One(file_map_[x], f) + One(0, f)
    <3>1. Moved(Names, file_map_, m, x, 0, f)
      BY <1>6, CountMove, Zenon
    <3> QED
      BY <3>1, Zenon DEF Moved
  <2>2. Count(Names, file_map_', f) = Count(Names, m, f) - One(m[y], f) + One(file_map_[x], f)
    <3>1. Moved(Names, m, file_map_', y, file_map_[x], f)
      BY <1>7, CountMove, Zenon
    <3> QED
      BY <3>1, Zenon DEF Moved
  <2>3. Count(Names, file_map_, f) \in Nat /\ Count(Threads, Holds, f) \in Nat /\ f # 0
    BY CountType DEF MemSets
  <2> QED
    BY <1>3, <1>4, <2>1, <2>2, <2>3 DEF One
<1> QED
  BY <1>1, <1>2, <1>3, <1>4, <1>5, <1>8, DropStep, Zenon

LEMMA CloseStep ==
  ASSUME MemSets, MemInv, NEW t \in Threads, Close(t)
  PROVE  MemInv'
<1> DEFINE g == handle[t].file_
<1>1. /\ handle' = [handle EXCEPT ![t] = [kind |-> "none", file_ |-> 0, pos_ |-> 0]] /\ file' = Unref(file, g)
      /\ file_map_' = file_map_ /\ doomed' = [doomed EXCEPT ![t] = Doom(file, g)] /\ doomed[t] = 0
  BY DEF Close, Closed
<1>2. HandleTypes /\ file_map_ \in [Names -> States \cup {0}] /\ g \in States \cup {0}
  BY <1>1 DEF MemInv, HandleTypes
<1>3. HandleTypes' /\ Holds' = [Holds EXCEPT ![t] = 0]
  BY <1>1, <1>2, HandleSet, ZenonT(30)
<1>4. Holds[t] = g /\ Holds \in [Threads -> States \cup {0}]
  BY <1>2, HoldsType DEF Holds
<1>5. g # 0 => file[g].refs_ # 0
  BY <1>2, RefsPositive, ZenonT(30)
<1>6. Moves(Threads, Holds, Holds', t, 0)
  BY <1>3, <1>4 DEF MemSets, Moves
<1> HIDE DEF g
<1>7. ASSUME NEW f \in States
      PROVE  Count(Names, file_map_', f) + Count(Threads, Holds', f)
               = Count(Names, file_map_, f) + Count(Threads, Holds, f) - One(f, g)
  <2>1. Count(Threads, Holds', f) = Count(Threads, Holds, f) - One(Holds[t], f) + One(0, f)
    <3>1. Moved(Threads, Holds, Holds', t, 0, f)
      BY <1>6, CountMove, Zenon
    <3> QED
      BY <3>1, Zenon DEF Moved
  <2>2. Count(Names, file_map_, f) \in Nat /\ Count(Threads, Holds, f) \in Nat /\ f # 0
    BY CountType DEF MemSets
  <2> QED
    BY <1>1, <1>4, <2>1, <2>2 DEF One
<1> QED
  BY <1>1, <1>2, <1>3, <1>5, <1>7, DropStep, Zenon

LEMMA NewWritableFileStep ==
  ASSUME MemSets, MemInv, NEW t \in Threads, NEW x \in Names, NewWritableFile(t, x)
  PROVE  MemInv'
<1> DEFINE old == file_map_[x]
           g == CHOOSE f \in States : ~file[f].alive
           us == Unref(file, old)
           e == [doomed EXCEPT ![t] = Doom(file, old)]
<1>1. /\ g \in States /\ ~file[g].alive
  BY Zenon DEF NewWritableFile
<1>2. /\ file_map_' = [file_map_ EXCEPT ![x] = g] /\ doomed' = e /\ doomed[t] = 0 /\ handle[t] = Closed
      /\ handle' = [handle EXCEPT ![t] = [kind |-> "writable", file_ |-> g, pos_ |-> 0]]
      /\ file' = Ref([us EXCEPT ![g] = [Dead EXCEPT !.alive = TRUE, !.refs_ = 1]], g)
  BY DEF NewWritableFile, Idle, Env
<1> HIDE DEF g
<1>3. /\ HandleTypes /\ FileTypes(file) /\ file_map_ \in [Names -> States \cup {0}] /\ Owned(file, doomed)
      /\ Counted(file, file_map_, Holds) /\ old \in States \cup {0} /\ doomed \in [Threads -> States \cup {0}]
  BY DEF MemInv
<1>4. HandleTypes' /\ Holds' = [Holds EXCEPT ![t] = g]
  BY <1>1, <1>2, <1>3, HandleSet, ZenonT(30)
<1>5. Holds[t] = 0 /\ Holds \in [Threads -> States \cup {0}]
  BY <1>2, <1>3, HoldsType, HoldsNone, ZenonT(30)
<1>6. file_map_' \in [Names -> States \cup {0}]
  BY <1>1, <1>2, <1>3
<1>7. (old # 0 => file[old].refs_ # 0) /\ old # g
  <2>1. old # 0 => file[old].refs_ # 0 /\ file[old].alive = TRUE
    BY <1>3, RefsPositive, ZenonT(30)
  <2> QED
    BY <1>1, <2>1 DEF MemSets
<1>8. FileTypes(us) /\ \A f \in States : us[f].refs_ = file[f].refs_ - One(f, old) /\ us[f].alive = file[f].alive
  BY <1>3, <1>7, UnrefIs, ZenonT(30)
<1>9. Owned(us, e)
  BY <1>2, <1>3, <1>7, OwnedUnref, ZenonT(30)
<1>10. Moves(Names, file_map_, file_map_', x, g)
  BY <1>2, <1>3 DEF MemSets, Moves
<1>11. Moves(Threads, Holds, Holds', t, g)
  BY <1>4, <1>5 DEF MemSets, Moves
<1>12. e \in [Threads -> States \cup {0}]
  <2>1. Doom(file, old) \in States \cup {0}
    BY <1>3, DoomType, ZenonT(30)
  <2> QED
    BY <1>3, <2>1
<1> HIDE DEF us, e, old
<1>13. /\ FileTypes(file') /\ file'[g].refs_ = 2 /\ file'[g].alive = TRUE
       /\ \A f \in States : f # g => file'[f] = us[f]
  <2> DEFINE new == [Dead EXCEPT !.alive = TRUE, !.refs_ = 1]
             fs == [us EXCEPT ![g] = new]
  <2>1. DOMAIN new = {"alive", "refs_", "size_", "blocks_"} /\ new.refs_ = 1 /\ new.alive = TRUE
    BY DEF Dead
  <2> HIDE DEF new
  <2>2. FileTypes(fs) /\ fs[g] = new /\ \A f \in States : f # g => fs[f] = us[f]
    BY <1>1, <1>8, <2>1 DEF FileTypes
  <2>3. file' = Ref(fs, g)
    BY <1>2 DEF new
  <2> HIDE DEF fs
  <2>4. FileTypes(file') /\ file'[g].refs_ = fs[g].refs_ + One(g, g) /\ file'[g].alive = fs[g].alive
    BY <1>1, <2>2, <2>3, RefIs
  <2>5. \A f \in States : f # g => file'[f] = fs[f]
    BY <1>1, <2>2, <2>3, ZenonT(30) DEF Ref, FileTypes
  <2> QED
    BY <2>1, <2>2, <2>4, <2>5 DEF One
<1>14. Counted(file', file_map_', Holds')
  <2> SUFFICES ASSUME NEW f \in States PROVE file'[f].refs_ = Count(Names, file_map_', f) + Count(Threads, Holds', f)
    BY DEF Counted
  <2>1. Count(Names, file_map_', f) = Count(Names, file_map_, f) - One(old, f) + One(g, f)
    <3>1. Moved(Names, file_map_, file_map_', x, g, f)
      BY <1>10, CountMove, Zenon
    <3> QED
      BY <3>1, Zenon DEF Moved, old
  <2>2. Count(Threads, Holds', f) = Count(Threads, Holds, f) - One(Holds[t], f) + One(g, f)
    <3>1. Moved(Threads, Holds, Holds', t, g, f)
      BY <1>11, CountMove, Zenon
    <3> QED
      BY <3>1, Zenon DEF Moved
  <2>3. Count(Names, file_map_, f) \in Nat /\ Count(Threads, Holds, f) \in Nat /\ f # 0
    BY CountType DEF MemSets
  <2>4. file[f].refs_ = Count(Names, file_map_, f) + Count(Threads, Holds, f)
    BY <1>3, ZenonT(30) DEF Counted
  <2>5. CASE f = g
    <3>1. file[f].refs_ = 0
      BY <1>1, <1>3, <2>5, ZenonT(30) DEF Owned
    <3>2. One(old, f) = 0 /\ One(g, f) = 1 /\ One(Holds[t], f) = 0
      BY <1>5, <1>7, <2>3, <2>5, ZenonT(30) DEF One
    <3>3. Count(Names, file_map_, f) = 0 /\ Count(Threads, Holds, f) = 0
      BY <2>3, <2>4, <3>1, SMTT(30)
    <3> QED
      BY <1>13, <2>1, <2>2, <2>5, <3>2, <3>3, SMTT(30)
  <2>6. CASE f # g
    <3>1. file'[f].refs_ = file[f].refs_ - One(f, old)
      BY <1>8, <1>13, <2>6
    <3> QED
      BY <1>5, <2>1, <2>2, <2>3, <2>4, <2>6, <3>1, SMTT(30) DEF One
  <2> QED
    BY <2>5, <2>6
<1>15. Owned(file', e)
  <2>1. \A u \in Threads : e[u] # g
    BY <1>1, <1>8, <1>9 DEF Owned
  <2>2. \A u \in Threads : e[u] # 0 => e[u] \in States
    BY <1>12
  <2>3. ASSUME NEW f \in States
        PROVE  file'[f].alive \in BOOLEAN /\ (file'[f].alive <=> file'[f].refs_ # 0 \/ \E u \in Threads : e[u] = f)
    <3>1. CASE f = g
      <4>1. file'[f].refs_ # 0
        BY <1>13, <3>1
      <4>2. file'[f].alive = TRUE
        BY <1>13, <3>1
      <4> QED
        BY <4>1, <4>2, Zenon
    <3>2. CASE f # g
      BY <1>9, <1>13, <3>2 DEF Owned
    <3> QED
      BY <3>1, <3>2
  <2>4. ASSUME NEW u \in Threads, e[u] # 0
        PROVE  file'[e[u]].refs_ = 0 /\ \A w \in Threads : e[w] = e[u] => w = u
    <3>1. file'[e[u]] = us[e[u]]
      BY <1>13, <2>1, <2>2, <2>4
    <3> QED
      BY <1>9, <2>4, <3>1, Zenon DEF Owned
  <2> QED
    BY <2>3, <2>4 DEF Owned
<1> QED
  BY <1>2, <1>4, <1>6, <1>12, <1>13, <1>14, <1>15 DEF MemInv

(* A step that leaves every reference alone.                                 *)
LEMMA SameRefs ==
  ASSUME MemInv, file_map_' = file_map_, doomed' = doomed, HandleTypes', Holds' = Holds, FileTypes(file'),
         \A f \in States : file'[f].refs_ = file[f].refs_ /\ file'[f].alive = file[f].alive
  PROVE  MemInv'
<1>1. Counted(file', file_map_', Holds')
  BY DEF MemInv, Counted
<1>2. \A t \in Threads : doomed[t] # 0 => doomed[t] \in States
  BY ZenonT(30) DEF MemInv
<1>3. Owned(file', doomed')
  BY <1>2 DEF MemInv, Owned
<1> QED
  BY <1>1, <1>3 DEF MemInv

LEMMA WriteStep ==
  ASSUME MemSets, MemInv, NEW t \in Threads, NEW n, Write(t, n)
  PROVE  MemInv'
<1> DEFINE g == handle[t].file_
           a == Append_(g, file[g], n)
<1>1. /\ file' = [file EXCEPT ![g].blocks_ = a, ![g].size_ = @ + n]
      /\ UNCHANGED <<file_map_, handle, doomed>>
  BY DEF Write
<1> HIDE DEF g, a
<1>2. HandleTypes /\ FileTypes(file)
  BY DEF MemInv
<1>3. HandleTypes' /\ Holds' = Holds
  BY <1>1, <1>2 DEF HandleTypes, Holds
<1>4. \A f \in States : file'[f] = IF f = g THEN [[file[g] EXCEPT !.blocks_ = a] EXCEPT !.size_ = @ + n] ELSE file[f]
  BY <1>1, <1>2, ZenonT(30) DEF FileTypes
<1>5. \A f \in States : DOMAIN file'[f] = DOMAIN file[f] /\ file'[f].refs_ = file[f].refs_ /\ file'[f].alive = file[f].alive
  BY <1>2, <1>4, ZenonT(30) DEF FileTypes
<1>6. FileTypes(file')
  <2>1. file' = [f \in States |-> file'[f]]
    BY <1>1, <1>2, ZenonT(30) DEF FileTypes
  <2> QED
    BY <1>2, <1>5, <2>1 DEF FileTypes
<1> QED
  BY <1>1, <1>3, <1>5, <1>6, SameRefs, ZenonT(30)

LEMMA ReadStep ==
  ASSUME MemInv, NEW t \in Threads, NEW offset, NEW n, Read(t, offset, n) \/ Skip(t, n)
  PROVE  MemInv'
<1>1. /\ handle' = handle \/ \E v : handle' = [handle EXCEPT ![t].pos_ = v]
      /\ UNCHANGED <<file_map_, file, doomed>>
  BY DEF Read, Skip
<1>2. HandleTypes /\ FileTypes(file)
  BY DEF MemInv
<1>3. HandleTypes' /\ Holds' = Holds
  <2>1. CASE handle' = handle
    BY <1>2, <2>1 DEF HandleTypes, Holds
  <2>2. CASE \E v : handle' = [handle EXCEPT ![t].pos_ = v]
    BY <1>2, <2>2, HandleMoved, ZenonT(30)
  <2> QED
    BY <1>1, <2>1, <2>2
<1> QED
  BY <1>1, <1>2, <1>3, SameRefs

LEMMA FreeStep ==
  ASSUME MemSets, MemInv, NEW t \in Threads, Free(t)
  PROVE  MemInv'
<1> DEFINE g == doomed[t]
<1>1. /\ g # 0 /\ file' = [file EXCEPT ![g] = Dead] /\ doomed' = [doomed EXCEPT ![t] = 0]
      /\ UNCHANGED <<file_map_, handle>>
  BY DEF Free
<1>2. HandleTypes /\ FileTypes(file) /\ Owned(file, doomed) /\ doomed \in [Threads -> States \cup {0}]
      /\ g \in States /\ file_map_ \in [Names -> States \cup {0}]
  BY <1>1 DEF MemInv
<1>3. HandleTypes' /\ Holds' = Holds
  BY <1>1, <1>2 DEF HandleTypes, Holds
<1>4. file[g].refs_ = 0 /\ \A u \in Threads : doomed[u] = g => u = t
  BY <1>1, <1>2 DEF Owned
<1>5. doomed'[t] = 0 /\ (\A u \in Threads : u # t => doomed'[u] = doomed[u]) /\ doomed' \in [Threads -> States \cup {0}]
  BY <1>1, <1>2
<1> HIDE DEF g
<1>6. /\ FileTypes(file') /\ file'[g].refs_ = 0 /\ file'[g].alive = FALSE
      /\ \A f \in States : f # g => file'[f] = file[f]
  <2>1. DOMAIN Dead = {"alive", "refs_", "size_", "blocks_"} /\ Dead.refs_ = 0 /\ Dead.alive = FALSE
    BY DEF Dead
  <2> QED
    BY <1>1, <1>2, <2>1, SMTT(30) DEF FileTypes
<1>7. \A f \in States : file'[f].refs_ = file[f].refs_
  BY <1>4, <1>6
<1>8. Counted(file', file_map_', Holds')
  BY <1>1, <1>3, <1>7 DEF MemInv, Counted
<1>9. \A u \in Threads : doomed'[u] # 0 => doomed'[u] = doomed[u] /\ doomed[u] \in States /\ u # t
  BY <1>2, <1>5
<1>10. \A u \in Threads : doomed'[u] # g
  BY <1>1, <1>4, <1>5
<1>11. ASSUME NEW f \in States
       PROVE  file'[f].alive \in BOOLEAN /\ (file'[f].alive <=> file'[f].refs_ # 0 \/ \E u \in Threads : doomed'[u] = f)
  <2>1. CASE f = g
    BY <1>6, <1>10, <2>1, ZenonT(30)
  <2>2. CASE f # g
    <3>1. \A u \in Threads : doomed'[u] = f <=> doomed[u] = f
      BY <1>5, <2>2 DEF MemSets, g
    <3> QED
      BY <1>2, <1>6, <2>2, <3>1, ZenonT(30) DEF Owned
  <2> QED
    BY <2>1, <2>2
<1>12. ASSUME NEW u \in Threads, doomed'[u] # 0
       PROVE  file'[doomed'[u]].refs_ = 0 /\ \A w \in Threads : doomed'[w] = doomed'[u] => w = u
  <2>1. doomed'[u] = doomed[u] /\ doomed[u] \in States /\ doomed[u] # 0
    BY <1>9, <1>12, ZenonT(30)
  <2>2. file[doomed[u]].refs_ = 0 /\ \A w \in Threads : doomed[w] = doomed[u] => w = u
    BY <1>2, <2>1 DEF Owned
  <2>3. \A w \in Threads : doomed'[w] = doomed'[u] => doomed[w] = doomed[u]
    BY <1>9, <1>12
  <2> QED
    BY <1>7, <2>1, <2>2, <2>3
<1>13. Owned(file', doomed')
  BY <1>11, <1>12 DEF Owned
<1> QED
  BY <1>1, <1>2, <1>3, <1>5, <1>6, <1>8, <1>13 DEF MemInv

LEMMA MemStep ==
  ASSUME MemSets, MemInv, [MemNext]_memEnvVars
  PROVE  MemInv'
<1>1. CASE UNCHANGED memEnvVars
  <2>1. HandleTypes' /\ Holds' = Holds /\ FileTypes(file')
    BY <1>1 DEF memEnvVars, MemInv, HandleTypes, Holds, FileTypes
  <2> QED
    BY <1>1, <2>1, SameRefs DEF memEnvVars
<1>2. ASSUME NEW t \in Threads, NEW x \in Names, OpenFile(t, "sequential", x) \/ OpenFile(t, "random", x)
      PROVE  MemInv'
  BY <1>2, OpenFileStep
<1>3. ASSUME NEW t \in Threads, NEW x \in Names, NewWritableFile(t, x)
      PROVE  MemInv'
  BY <1>3, NewWritableFileStep
<1>4. ASSUME NEW t \in Threads, NEW x \in Names, DeleteFile(t, x)
      PROVE  MemInv'
  BY <1>4, DeleteFileStep
<1>5. ASSUME NEW t \in Threads, NEW x \in Names, NEW y \in Names, RenameFile(t, x, y)
      PROVE  MemInv'
  BY <1>5, RenameFileStep
<1>6. ASSUME NEW t \in Threads, NEW n \in Sizes, Write(t, n)
      PROVE  MemInv'
  BY <1>6, WriteStep
<1>7. ASSUME NEW t \in Threads, NEW n \in Sizes, ReadNext(t, n) \/ Skip(t, n)
      PROVE  MemInv'
  BY <1>7, ReadStep DEF ReadNext
<1>8. ASSUME NEW t \in Threads, NEW n \in Sizes, NEW offset \in 0..MaxSize, ReadAt(t, offset, n)
      PROVE  MemInv'
  BY <1>8, ReadStep DEF ReadAt
<1>9. ASSUME NEW t \in Threads, Close(t)
      PROVE  MemInv'
  BY <1>9, CloseStep
<1>10. ASSUME NEW t \in Threads, Free(t)
       PROVE  MemInv'
  BY <1>10, FreeStep
<1> QED
  BY <1>1, <1>2, <1>3, <1>4, <1>5, <1>6, <1>7, <1>8, <1>9, <1>10, Zenon DEF MemNext

(* For any finite sets of names and threads and any number of FileStates, a  *)
(* FileState of the in-memory Env is alive exactly while a name or a file    *)
(* object refers to it or the thread that dropped the last reference is      *)
(* about to delete it, although destructors call Unref without mutex_.       *)
THEOREM FilesLive == ASSUME MemSets PROVE MemSpec => []AliveIffReferred
<1>1. MemInit => MemInv
  <2> SUFFICES ASSUME MemInit PROVE MemInv
    OBVIOUS
  <2>1. /\ file_map_ = [x \in Names |-> 0] /\ file = [f \in States |-> Dead]
        /\ handle = [t \in Threads |-> Closed] /\ doomed = [t \in Threads |-> 0]
    BY DEF MemInit
  <2>2. FileTypes(file) /\ \A f \in States : file[f].refs_ = 0 /\ file[f].alive = FALSE
    BY <2>1 DEF FileTypes, Dead
  <2>3. HandleTypes /\ \A t \in Threads : Holds[t] = 0
    BY <2>1 DEF HandleTypes, Closed, Holds
  <2>4. Counted(file, file_map_, Holds)
    <3> SUFFICES ASSUME NEW f \in States PROVE file[f].refs_ = Count(Names, file_map_, f) + Count(Threads, Holds, f)
      BY DEF Counted
    <3>1. f # 0
      BY DEF MemSets
    <3>2. Count(Names, file_map_, f) = 0 /\ Count(Threads, Holds, f) = 0
      BY <2>1, <2>3, <3>1, CountZero DEF MemSets
    <3> QED
      BY <2>2, <3>2
  <2>5. Owned(file, doomed)
    BY <2>1, <2>2, ZenonT(30) DEF Owned, MemSets
  <2> QED
    BY <2>1, <2>2, <2>3, <2>4, <2>5 DEF MemInv
<1>2. MemInv /\ [MemNext]_memEnvVars => MemInv'
  BY MemStep
<1>3. MemInv => AliveIffReferred
  <2> SUFFICES ASSUME MemInv, NEW f \in States
               PROVE  file[f].alive <=> Referred(f) \/ \E t \in Threads : doomed[t] = f
    BY ZenonT(30) DEF AliveIffReferred
  <2>1. file[f].alive <=> file[f].refs_ # 0 \/ \E t \in Threads : doomed[t] = f
    BY DEF MemInv, Owned
  <2>2. Referred(f) => file[f].refs_ # 0
    BY RefsPositive, ZenonT(30) DEF Referred
  <2>3. file[f].refs_ # 0 => Referred(f)
    <3>1. file[f].refs_ = Count(Names, file_map_, f) + Count(Threads, Holds, f)
      BY DEF MemInv, Counted
    <3>2. Count(Names, file_map_, f) = 0 <=> \A x \in Names : file_map_[x] # f
      BY CountZero DEF MemSets
    <3>3. Count(Threads, Holds, f) = 0 <=> \A t \in Threads : handle[t].file_ # f
      BY CountZero DEF MemSets, Holds
    <3> QED
      BY <3>1, <3>2, <3>3 DEF Referred
  <2> QED
    BY <2>1, <2>2, <2>3
<1> QED
  BY <1>1, <1>2, <1>3, PTL DEF MemSpec
=============================================================================
