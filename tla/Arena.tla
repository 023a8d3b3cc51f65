------------------------------- MODULE Arena -------------------------------
(***************************************************************************)
(* Arena, from which a memtable takes its nodes and entries: pieces of     *)
(* blocks, never given back.  A pointer is a block and an offset in it.    *)
(***************************************************************************)
EXTENDS Integers, Sequences, FiniteSets

CONSTANTS
  kBlockSize, align,  \* 4096 and 8 in the code
  Sizes,              \* bytes asked for
  MaxAllocations      \* bound

VARIABLES
  blocks_,                \* the sizes of the blocks
  alloc_ptr_,             \* <<block, offset>>; block 0 is NULL
  alloc_bytes_remaining_,
  pieces                  \* what callers hold: block, offset, size, aligned
arenaVars == <<blocks_, alloc_ptr_, alloc_bytes_remaining_, pieces>>

Advance(ptr, n) == <<ptr[1], ptr[2] + n>>
Piece(ptr, bytes, aligned) == [block |-> ptr[1], at |-> ptr[2], size |-> bytes, aligned |-> aligned]

(* An object of more than a quarter of a block has one of its own, else the *)
(* rest of the current block is wasted.                                     *)
AllocateFallback(bytes, aligned) ==
  /\ IF bytes > kBlockSize \div 4
     THEN /\ blocks_' = Append(blocks_, bytes)
          /\ UNCHANGED <<alloc_ptr_, alloc_bytes_remaining_>>
     ELSE /\ blocks_' = Append(blocks_, kBlockSize)
          /\ alloc_ptr_' = <<Len(blocks_) + 1, bytes>>
          /\ alloc_bytes_remaining_' = kBlockSize - bytes
  /\ pieces' = pieces \union {Piece(<<Len(blocks_) + 1, 0>>, bytes, aligned)}

TakePiece(slop, bytes, aligned) ==
  /\ alloc_ptr_' = Advance(alloc_ptr_, slop + bytes)
  /\ alloc_bytes_remaining_' = alloc_bytes_remaining_ - (slop + bytes)
  /\ pieces' = pieces \union {Piece(Advance(alloc_ptr_, slop), bytes, aligned)}
  /\ UNCHANGED blocks_

Allocate(bytes) ==
  IF bytes <= alloc_bytes_remaining_ THEN TakePiece(0, bytes, FALSE) ELSE AllocateFallback(bytes, FALSE)
Slop_Bug(ptr) == ptr[2] % align
Slop(ptr) == IF ptr[2] % align = 0 THEN 0 ELSE align - (ptr[2] % align)
AllocateAligned(bytes) ==
  IF bytes + Slop(alloc_ptr_) <= alloc_bytes_remaining_
  THEN TakePiece(Slop(alloc_ptr_), bytes, TRUE) ELSE AllocateFallback(bytes, TRUE)

ArenaInit ==
  /\ blocks_ = <<>> /\ alloc_ptr_ = <<0, 0>> /\ alloc_bytes_remaining_ = 0 /\ pieces = {}
ArenaNext ==
  /\ Cardinality(pieces) < MaxAllocations
  /\ \E bytes \in Sizes : Allocate(bytes) \/ AllocateAligned(bytes)
ArenaSpec == ArenaInit /\ [][ArenaNext]_arenaVars

(* No two pieces overlap and each lies in its block, so what is left of the *)
(* current block is never more than there is.                               *)
PiecesDisjoint ==
  /\ \A p \in pieces : p.block \in DOMAIN blocks_ /\ p.at + p.size <= blocks_[p.block]
  /\ \A p, q \in pieces : p # q /\ p.block = q.block => p.at + p.size <= q.at \/ q.at + q.size <= p.at
  /\ alloc_bytes_remaining_ > 0 => alloc_ptr_[2] + alloc_bytes_remaining_ <= blocks_[alloc_ptr_[1]]

(* What AllocateAligned returns is aligned (arena.cc 57).                   *)
PiecesAligned == \A p \in pieces : p.aligned => p.at % align = 0
=============================================================================
