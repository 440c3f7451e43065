------------------------------- MODULE Arena -------------------------------
(***************************************************************************)
(* The arena a memtable allocates from (arena.cpp, arena.h): small pieces  *)
(* are cut from the current block, a large one gets a block of its own,    *)
(* and what is left of a block is wasted when a piece does not fit.        *)
(* Blocks are named in the order they are allocated and begin aligned.     *)
(* Fault_... definitions are wrong variants that the specification does    *)
(* not use.                                                                *)
(***************************************************************************)
EXTENDS Integers, Sequences

CONSTANTS ArenaBlock,      \* kBlockSize
          Align,           \* alignment of AllocateAligned
          PieceSizes,      \* sizes asked for; none is 0
          MaxPieces        \* bound: allocations

ASSUME ArenaAssumption ==
    /\ Align \in Nat \ {0} /\ ArenaBlock \in Nat /\ ArenaBlock % Align = 0
    /\ PieceSizes \subseteq Nat \ {0} /\ MaxPieces \in Nat

VARIABLES ar_blocks,     \* sizes of blocks_
          ar_block,      \* the block alloc_ptr_ points into, 0 for NULL
          ar_ptr,        \* alloc_ptr_, as an offset into it
          ar_remaining,  \* alloc_bytes_remaining_
          ar_pieces      \* history: [block, at, size, aligned] of every allocation
ar_vars == <<ar_blocks, ar_block, ar_ptr, ar_remaining, ar_pieces>>

Piece(block, at, size, aligned) ==
    ar_pieces' = Append(ar_pieces, [block |-> block, at |-> at, size |-> size,
                                    aligned |-> aligned])

\* The piece fits behind slop bytes of the current block.
AllocateHere(bytes, slop, aligned) ==
    /\ ar_ptr' = ar_ptr + slop + bytes
    /\ ar_remaining' = ar_remaining - (slop + bytes)
    /\ Piece(ar_block, ar_ptr + slop, bytes, aligned)
    /\ UNCHANGED <<ar_blocks, ar_block>>

Fault_AllocateFallback(bytes, aligned) ==
    LET new == Len(ar_blocks) + 1
    IN /\ ar_blocks' = Append(ar_blocks, ArenaBlock)
       /\ ar_block' = new /\ ar_ptr' = bytes /\ ar_remaining' = ArenaBlock
       /\ Piece(new, 0, bytes, aligned)

AllocateFallback(bytes, aligned) ==
    LET new == Len(ar_blocks) + 1
        own == bytes > ArenaBlock \div 4
    IN /\ ar_blocks' = Append(ar_blocks, IF own THEN bytes ELSE ArenaBlock)
       /\ IF own THEN UNCHANGED <<ar_block, ar_ptr, ar_remaining>>
          ELSE ar_block' = new /\ ar_ptr' = bytes /\ ar_remaining' = ArenaBlock - bytes
       /\ Piece(new, 0, bytes, aligned)

Allocate(bytes) ==
    /\ Len(ar_pieces) < MaxPieces
    /\ IF bytes <= ar_remaining THEN AllocateHere(bytes, 0, FALSE)
       ELSE AllocateFallback(bytes, FALSE)

AllocateAligned(bytes) ==
    LET slop == IF ar_ptr % Align = 0 THEN 0 ELSE Align - (ar_ptr % Align)
    IN /\ Len(ar_pieces) < MaxPieces
       /\ IF bytes + slop <= ar_remaining THEN AllocateHere(bytes, slop, TRUE)
          ELSE AllocateFallback(bytes, TRUE)

ArenaInit ==
    /\ ar_blocks = <<>> /\ ar_block = 0 /\ ar_ptr = 0 /\ ar_remaining = 0
    /\ ar_pieces = <<>>

ArenaNext == \E bytes \in PieceSizes : Allocate(bytes) \/ AllocateAligned(bytes)

ArenaSpec == ArenaInit /\ [][ArenaNext]_ar_vars

\* No two allocations share a byte, none leaves its block, and the nodes, which
\* are allocated aligned, are aligned.
PiecesDisjoint ==
    /\ \A i, j \in DOMAIN ar_pieces :
          LET p == ar_pieces[i]
              q == ar_pieces[j]
          IN i # j /\ p.block = q.block => p.at + p.size <= q.at \/ q.at + q.size <= p.at
    /\ \A i \in DOMAIN ar_pieces :
          LET p == ar_pieces[i]
          IN /\ p.block \in DOMAIN ar_blocks /\ p.at + p.size <= ar_blocks[p.block]
             /\ p.aligned => p.at % Align = 0
=============================================================================
