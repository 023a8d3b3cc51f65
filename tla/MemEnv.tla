------------------------------- MODULE MemEnv -------------------------------
(***************************************************************************)
(* helpers/memenv/memenv.cc: an Env that keeps its files in memory.  A      *)
(* FileState is counted by the names and the file objects that refer to it; *)
(* its bytes lie in blocks of kBlockSize.  mutex_ guards the names, not the *)
(* counts: the destructor of a file object calls Unref without it.          *)
(***************************************************************************)
EXTENDS Integers, Sequences, FiniteSets

CONSTANTS
  Names,        \* file names
  States,       \* addresses of FileStates, numbers from 1
  Threads,
  kBlockSize,
  Sizes,        \* lengths of appends, reads and skips
  MaxSize       \* bound: bytes of a file

VARIABLES
  file_map_,    \* name -> FileState, 0 for none
  file,         \* FileState -> refs_, size_, blocks_
  handle,       \* thread -> its file object
  mutex_,       \* the thread in a method of the env, 0 for none
  doomed,       \* thread -> FileState whose count it brought to 0
  got           \* what the Read just done was asked and gave
memEnvVars == <<file_map_, file, handle, mutex_, doomed, got>>

Dead == [alive |-> FALSE, refs_ |-> 0, size_ |-> 0, blocks_ |-> <<>>]
Closed == [kind |-> "none", file_ |-> 0, pos_ |-> 0]
NoRead == [thread |-> 0, offset |-> 0, n |-> 0, ok |-> TRUE, bytes |-> <<>>]
Uninitialized == <<0, 0>>           \* what new char[] leaves in a block
MinOf(a, b) == IF a < b THEN a ELSE b

MemInit ==
  /\ file_map_ = [x \in Names |-> 0] /\ file = [f \in States |-> Dead]
  /\ handle = [t \in Threads |-> Closed] /\ mutex_ = 0
  /\ doomed = [t \in Threads |-> 0] /\ got = NoRead

-----------------------------------------------------------------------------
(* FileState: the count ...                                                 *)
Ref(fs, f) == [fs EXCEPT ![f].refs_ = @ + 1]
Last(fs, f) == fs[f].refs_ <= 1
Unref(fs, f) == IF f = 0 THEN fs ELSE [fs EXCEPT ![f].refs_ = @ - 1]
Doom(fs, f) == IF f # 0 /\ Last(fs, f) THEN f ELSE 0

(* ... and the bytes.  The i-th byte of file f is <<f, i>>.  Append_ and    *)
(* Copy have what the loops of Append and Read have after i rounds.         *)
NewBlock == [i \in 1..kBlockSize |-> Uninitialized]
Append_(f, s, src_len) ==
  LET end == s.size_ + src_len
      round[i \in Nat] ==
        IF i = 0 THEN [size_ |-> s.size_, blocks_ |-> s.blocks_]
        ELSE LET r == round[i - 1]
                 offset == r.size_ % kBlockSize
                 blocks == IF offset # 0 THEN r.blocks_ ELSE Append(r.blocks_, NewBlock)
                 avail == MinOf(kBlockSize - offset, end - r.size_)
                 back == [j \in 1..kBlockSize |-> IF j \in offset + 1..offset + avail
                                                  THEN <<f, r.size_ + j - offset>>
                                                  ELSE blocks[Len(blocks)][j]]
             IN  IF r.size_ = end THEN r
                 ELSE [size_ |-> r.size_ + avail, blocks_ |-> [blocks EXCEPT ![Len(blocks)] = back]]
  IN  round[src_len].blocks_

NextOffset(block_offset) == 0
Copy(blocks, block, block_offset, n) ==
  LET round[i \in Nat] ==
        IF i = 0 THEN [bytes |-> <<>>, block |-> block, offset |-> block_offset]
        ELSE LET r == round[i - 1]
                 avail == MinOf(kBlockSize - r.offset, n - Len(r.bytes))
             IN  IF Len(r.bytes) = n THEN r
                 ELSE [bytes |-> r.bytes \o SubSeq(blocks[r.block], r.offset + 1, r.offset + avail),
                       block |-> r.block + 1, offset |-> NextOffset(r.offset)]
  IN  round[n].bytes
Available(s, offset, n) == MinOf(n, s.size_ - offset)
FileRead(s, offset, n) ==
  IF offset > s.size_ THEN [ok |-> FALSE, bytes |-> <<>>]
  ELSE [ok |-> TRUE, bytes |-> Copy(s.blocks_, offset \div kBlockSize + 1, offset % kBlockSize,
                                    Available(s, offset, n))]

-----------------------------------------------------------------------------
(* Methods of the env.  A method that drops the last reference frees the    *)
(* FileState before it releases mutex_ (Free).                              *)
Idle(t) == mutex_ = 0 /\ doomed[t] = 0 /\ handle[t] = Closed
Written(f) == \E t \in Threads : handle[t].kind = "writable" /\ handle[t].file_ = f
Env(t, d) == /\ doomed' = [doomed EXCEPT ![t] = d]
             /\ mutex_' = IF d = 0 THEN 0 ELSE t

(* NewSequentialFile, NewRandomAccessFile.  "concurrent access is not       *)
(* allowed to writable files": the caller opens what is not being written.  *)
OpenFile(t, kind, x) ==
  /\ Idle(t) /\ file_map_[x] # 0 /\ ~Written(file_map_[x])
  /\ handle' = [handle EXCEPT ![t] = [kind |-> kind, file_ |-> file_map_[x], pos_ |-> 0]]
  /\ file' = Ref(file, file_map_[x])
  /\ got' = NoRead /\ UNCHANGED <<file_map_, mutex_, doomed>>
NewWritableFile(t, x) ==
  LET old == file_map_[x]
      f == CHOOSE g \in States : ~file[g].alive
      fs == [Unref(file, old) EXCEPT ![f] = [Dead EXCEPT !.alive = TRUE, !.refs_ = 1]]
  IN  /\ Idle(t) /\ \E g \in States : ~file[g].alive
      /\ file_map_' = [file_map_ EXCEPT ![x] = f]
      /\ file' = Ref(fs, f)
      /\ handle' = [handle EXCEPT ![t] = [kind |-> "writable", file_ |-> f, pos_ |-> 0]]
      /\ Env(t, Doom(file, old)) /\ got' = NoRead
DeleteFile(t, x) ==
  /\ Idle(t) /\ file_map_[x] # 0
  /\ file_map_' = [file_map_ EXCEPT ![x] = 0] /\ file' = Unref(file, file_map_[x])
  /\ Env(t, Doom(file, file_map_[x])) /\ got' = NoRead /\ UNCHANGED handle
(* RenameFile, between two different names.                                 *)
Replaced_Bug(y) == 0
Replaced(y) == file_map_[y]
RenameFile(t, x, y) ==
  /\ Idle(t) /\ x # y /\ file_map_[x] # 0
  /\ file_map_' = [file_map_ EXCEPT ![x] = 0, ![y] = file_map_[x]]
  /\ file' = Unref(file, Replaced(y))
  /\ Env(t, Doom(file, Replaced(y))) /\ got' = NoRead /\ UNCHANGED handle

(* Methods of the file objects, without mutex_.                             *)
Write(t, n) ==
  /\ handle[t].kind = "writable" /\ doomed[t] = 0 /\ file[handle[t].file_].size_ + n <= MaxSize
  /\ file' = [file EXCEPT ![handle[t].file_].blocks_ = Append_(handle[t].file_, file[handle[t].file_], n),
                          ![handle[t].file_].size_ = @ + n]
  /\ got' = NoRead /\ UNCHANGED <<file_map_, handle, mutex_, doomed>>
Read(t, offset, n) ==
  LET r == FileRead(file[handle[t].file_], offset, n)
  IN  /\ got' = [thread |-> t, offset |-> offset, n |-> n, ok |-> r.ok, bytes |-> r.bytes]
      /\ handle' = IF handle[t].kind = "sequential" /\ r.ok
                   THEN [handle EXCEPT ![t].pos_ = @ + Len(r.bytes)] ELSE handle
      /\ UNCHANGED <<file_map_, file, mutex_, doomed>>
ReadNext(t, n) == handle[t].kind = "sequential" /\ Read(t, handle[t].pos_, n)
ReadAt(t, offset, n) == handle[t].kind = "random" /\ Read(t, offset, n)
Skip(t, n) ==
  /\ handle[t].kind = "sequential" /\ handle[t].pos_ <= file[handle[t].file_].size_
  /\ handle' = [handle EXCEPT ![t].pos_ = @ + Available(file[handle[t].file_], @, n)]
  /\ got' = NoRead /\ UNCHANGED <<file_map_, file, mutex_, doomed>>
(* The destructor of a file object.                                         *)
Close(t) ==
  /\ handle[t] # Closed /\ doomed[t] = 0
  /\ file' = Unref(file, handle[t].file_)
  /\ doomed' = [doomed EXCEPT ![t] = Doom(file, handle[t].file_)]
  /\ handle' = [handle EXCEPT ![t] = Closed] /\ got' = NoRead
  /\ UNCHANGED <<file_map_, mutex_>>
Free(t) ==
  /\ doomed[t] # 0
  /\ file' = [file EXCEPT ![doomed[t]] = Dead]
  /\ doomed' = [doomed EXCEPT ![t] = 0]
  /\ mutex_' = IF mutex_ = t THEN 0 ELSE mutex_
  /\ got' = NoRead /\ UNCHANGED <<file_map_, handle>>

MemNext == \E t \in Threads :
  \/ \E x \in Names : \/ OpenFile(t, "sequential", x) \/ OpenFile(t, "random", x)
                      \/ NewWritableFile(t, x) \/ DeleteFile(t, x)
                      \/ \E y \in Names : RenameFile(t, x, y)
  \/ \E n \in Sizes : \/ Write(t, n) \/ ReadNext(t, n) \/ Skip(t, n)
                      \/ \E offset \in 0..MaxSize : ReadAt(t, offset, n)
  \/ Close(t) \/ Free(t)
MemSpec == MemInit /\ [][MemNext]_memEnvVars

-----------------------------------------------------------------------------
(* Every variable has its type; in particular the assertion of              *)
(* FileState::Unref holds, refs_ >= 0.                                      *)
MemTypeOK ==
  /\ file_map_ \in [Names -> States \cup {0}]
  /\ \A f \in States : file[f].refs_ \in 0..Cardinality(Names) + Cardinality(Threads)
  /\ \A t \in Threads : handle[t].file_ \in States \cup {0} /\ doomed[t] \in States \cup {0}
  /\ mutex_ \in Threads \cup {0}

(* A FileState is alive exactly while a name or a file object refers to it  *)
(* or the thread that dropped the last reference is about to delete it: a   *)
(* reader keeps its file through a deletion, a rename over it or its        *)
(* re-creation, and no file is leaked.                                      *)
Referred(f) == \/ \E x \in Names : file_map_[x] = f
               \/ \E t \in Threads : handle[t].file_ = f
AliveIffReferred ==
  \A f \in States : file[f].alive <=> Referred(f) \/ \E t \in Threads : doomed[t] = f

(* Read gives the bytes that were appended, across the borders of blocks,   *)
(* cut at the end of the file, whatever happened to the name meanwhile.     *)
ReadExact ==
  got # NoRead =>
    LET f == handle[got.thread].file_
    IN  /\ got.ok <=> got.offset <= file[f].size_
        /\ got.ok => got.bytes = [i \in 1..Available(file[f], got.offset, got.n) |->
                                    <<f, got.offset + i>>]
=============================================================================
