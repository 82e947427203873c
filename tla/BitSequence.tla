---------------------------- MODULE BitSequence ----------------------------
(***************************************************************************)
(* The bit sequences of aBinarySequence.cpp.  A block (a byte in the       *)
(* program) is the set of its positions that hold a one, so a shift moves  *)
(* the members of a set, a mask keeps some of them and an inclusive or is  *)
(* a union.  A sequence is a function from block numbers to blocks; its    *)
(* last block may be longer than the bits it holds.                        *)
(***************************************************************************)
EXTENDS Naturals

CONSTANT BLOCK_SIZE   \* bits in a block, 8 in the program

ASSUME BlockAssumption == BLOCK_SIZE \in Nat \ {0}

Positions == 0 .. BLOCK_SIZE - 1
BlocksOf(bits) == (bits + BLOCK_SIZE - 1) \div BLOCK_SIZE

BitOf(sequence, n) == n % BLOCK_SIZE \in sequence[n \div BLOCK_SIZE]

SetBits(sequence, from, size, source) ==
  [b \in DOMAIN sequence |->
     sequence[b] \cup
     {k \in Positions : LET n == b * BLOCK_SIZE + k
                        IN  /\ from <= n /\ n < from + size
                            /\ BitOf(source, n - from)}]

CommittedEmpty(bits) == [b \in 0 .. BlocksOf(bits) - 1 |-> {}]

ShiftedRight(block, by) == {k \in Positions : k + by \in block}
LowPositions(block, bits) == {k \in block : k < bits}

(* The bits of a sequence from a position that is a multiple of the block  *)
(* size: whole blocks, and what the last one has too much masked out.      *)
\* (Mutant: the last block keeps the bits that follow.)
AlignedBlockUnmasked(sequence, index, size) ==
  [b \in 0 .. BlocksOf(size) - 1 |-> sequence[index \div BLOCK_SIZE + b]]
AlignedBlock(sequence, index, size) ==
  [b \in 0 .. BlocksOf(size) - 1 |->
     LET whole == sequence[index \div BLOCK_SIZE + b]
     IN  IF b = BlocksOf(size) - 1 /\ BlocksOf(size) * BLOCK_SIZE > size
         THEN LowPositions(whole, size % BLOCK_SIZE) ELSE whole]
=============================================================================
