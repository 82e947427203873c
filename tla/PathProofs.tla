----------------------------- MODULE PathProofs -----------------------------
(***************************************************************************)
(* Theorems about the ways of data that are built without recursive        *)
(* operators, for every value of their constants: the message through the  *)
(* bit sequences (MessagePath), the bytes through the digest               *)
(* (DigestStream), and the key through the pool that the digests fill      *)
(* (RandomPool), which implements the endless stream of KeyStream.         *)
(***************************************************************************)
EXTENDS RandomPool, MessagePath, DigestStream, GlobalsTheorems, SequenceTheorems

-----------------------------------------------------------------------------
(* Positions in sequences of blocks.                                       *)

\* A bit is that of a block and a position in it, and of no other.
LEMMA BlockAndPosition ==
  ASSUME NEW b \in Nat, NEW k \in Positions
  PROVE  /\ b * BLOCK_SIZE + k \in Nat
         /\ (b * BLOCK_SIZE + k) \div BLOCK_SIZE = b
         /\ (b * BLOCK_SIZE + k) % BLOCK_SIZE = k
  <1>1. BLOCK_SIZE \in Nat \ {0} /\ k \in Nat /\ k \in 0 .. BLOCK_SIZE - 1
    BY BlockAssumption DEF Positions
  <1>2. /\ (BLOCK_SIZE * b + k) \div BLOCK_SIZE = b + (k \div BLOCK_SIZE)
        /\ (BLOCK_SIZE * b + k) % BLOCK_SIZE = k % BLOCK_SIZE
    BY <1>1, DivShift
  <1>3. k \div BLOCK_SIZE = 0 /\ k % BLOCK_SIZE = k
    BY <1>1
  <1>4. BLOCK_SIZE * b = b * BLOCK_SIZE /\ b * BLOCK_SIZE \in Nat
    BY <1>1
  <1> QED BY <1>1, <1>2, <1>3, <1>4

\* The block and the position of a bit.
LEMMA PlaceOfBit ==
  ASSUME NEW n \in Nat
  PROVE  /\ n \div BLOCK_SIZE \in Nat
         /\ n % BLOCK_SIZE \in Positions
         /\ n = (n \div BLOCK_SIZE) * BLOCK_SIZE + (n % BLOCK_SIZE)
  <1>1. BLOCK_SIZE \in Nat \ {0}
    BY BlockAssumption
  <1>2. /\ n \div BLOCK_SIZE \in Nat
        /\ n % BLOCK_SIZE \in 0 .. BLOCK_SIZE - 1
        /\ n = BLOCK_SIZE * (n \div BLOCK_SIZE) + (n % BLOCK_SIZE)
    BY <1>1, DivMod
  <1>3. BLOCK_SIZE * (n \div BLOCK_SIZE) = (n \div BLOCK_SIZE) * BLOCK_SIZE
    BY <1>1, <1>2
  <1> QED BY <1>1, <1>2, <1>3 DEF Positions

\* The blocks of so many bits hold them all, and the last one holds some.
LEMMA BlocksHoldTheBits ==
  ASSUME NEW size \in Nat
  PROVE  /\ BlocksOf(size) \in Nat
         /\ size <= BlocksOf(size) * BLOCK_SIZE
         /\ BlocksOf(size) * BLOCK_SIZE < size + BLOCK_SIZE
  <1>1. BLOCK_SIZE \in Nat \ {0} /\ size + BLOCK_SIZE - 1 \in Nat
    BY BlockAssumption
  <1>2. /\ BlocksOf(size) \in Nat
        /\ (size + BLOCK_SIZE - 1) % BLOCK_SIZE \in 0 .. BLOCK_SIZE - 1
        /\ size + BLOCK_SIZE - 1
             = BlocksOf(size) * BLOCK_SIZE + ((size + BLOCK_SIZE - 1) % BLOCK_SIZE)
    BY <1>1, PlaceOfBit DEF BlocksOf, Positions
  <1>3. BlocksOf(size) * BLOCK_SIZE \in Nat
    BY <1>1, <1>2
  <1> QED BY <1>1, <1>2, <1>3

\* Whole blocks are as many as they are.
LEMMA WholeBlocks ==
  ASSUME NEW n \in Nat
  PROVE  n * BLOCK_SIZE \in Nat /\ BlocksOf(n * BLOCK_SIZE) = n
  <1>1. BLOCK_SIZE \in Nat \ {0} /\ BLOCK_SIZE - 1 \in Positions
    BY BlockAssumption DEF Positions
  <1>2. (n * BLOCK_SIZE + (BLOCK_SIZE - 1)) \div BLOCK_SIZE = n
    BY <1>1, BlockAndPosition
  <1>3. n * BLOCK_SIZE \in Nat
    BY <1>1
  <1>4. n * BLOCK_SIZE + (BLOCK_SIZE - 1) = n * BLOCK_SIZE + BLOCK_SIZE - 1
    BY <1>1, <1>3
  <1> QED BY <1>2, <1>3, <1>4 DEF BlocksOf

\* A bit among the first ones is in one of their blocks.
LEMMA BitIsInABlock ==
  ASSUME NEW size \in Nat, NEW n \in Nat, n < size
  PROVE  n \div BLOCK_SIZE \in 0 .. BlocksOf(size) - 1
  <1> DEFINE q == n \div BLOCK_SIZE
             b == BlocksOf(size)
  <1>1. BLOCK_SIZE \in Nat \ {0}
    BY BlockAssumption
  <1>2. /\ q \in Nat /\ n % BLOCK_SIZE \in Nat
        /\ n = q * BLOCK_SIZE + (n % BLOCK_SIZE)
    BY PlaceOfBit DEF Positions
  <1>3. b \in Nat /\ size <= b * BLOCK_SIZE
    BY BlocksHoldTheBits
  <1> HIDE DEF q, b
  <1>4. q < b
    <2>1. CASE b <= q
      <3>1. PICK d \in Nat : q = b + d
        BY <2>1, <1>2, <1>3
      <3>2. q * BLOCK_SIZE = b * BLOCK_SIZE + d * BLOCK_SIZE
        BY <3>1, <1>1, <1>3
      <3>3. d * BLOCK_SIZE \in Nat /\ b * BLOCK_SIZE \in Nat /\ q * BLOCK_SIZE \in Nat
        BY <3>1, <1>1, <1>2, <1>3
      <3> QED BY <3>2, <3>3, <1>2, <1>3
    <2> QED BY <2>1, <1>2, <1>3
  <1> QED BY <1>2, <1>3, <1>4 DEF q, b
-----------------------------------------------------------------------------
(* GetBlock.                                                               *)

\* The program has whole blocks of the message, and does not ask for more bits
\* than there are.
MessageTypeOK ==
  /\ mpc \in {"start", "cut", "shift", "got", "done"}
  /\ digester \in Nat /\ wanted \in Nat /\ index \in Nat
  /\ \E n \in Nat : /\ message \in [0 .. n - 1 -> SUBSET Positions]
                    /\ messageLength = n * BLOCK_SIZE
  /\ mpc = "start" => digester = 0
  /\ mpc \in {"shift", "got"} => digester + wanted <= messageLength
  /\ mpc \in {"cut", "done"} => digester <= messageLength

\* Of a block there are so many bits, from the digester on, and nothing else.
HoldsBits(count) ==
  /\ DOMAIN block = 0 .. BlocksOf(wanted) - 1
  /\ \A b \in DOMAIN block : \A k \in Positions :
       k \in block[b] <=>
         /\ b * BLOCK_SIZE + k < count
         /\ BitOf(message, digester + b * BLOCK_SIZE + k)

\* The loop has shifted all bits before its index, and the buffer holds the rest
\* of the block the index is in.
LoopIsShifting ==
  mpc = "shift" =>
    /\ digester <= index /\ index <= digester + wanted
    /\ HoldsBits(index - digester)
    /\ index % BLOCK_SIZE # 0 =>
         buffer = ShiftedRight(message[index \div BLOCK_SIZE], index % BLOCK_SIZE)

\* The inductive invariant of the message's way.
MessageInv ==
  /\ MessageTypeOK
  /\ LoopIsShifting
  /\ BlockIsTheBits

\* Where the loop has to start over a block it reads it, and otherwise it has
\* shifted it so far that the next bit is the first one.
LEMMA CurrentIsShifted ==
  ASSUME MessageInv, mpc = "shift", index < digester + wanted
  PROVE  /\ 0 \in Current <=> BitOf(message, index)
         /\ (index + 1) % BLOCK_SIZE # 0 =>
              ShiftedRight(Current, 1) =
                ShiftedRight(message[(index + 1) \div BLOCK_SIZE], (index + 1) % BLOCK_SIZE)
  <1> DEFINE q == index \div BLOCK_SIZE
             r == index % BLOCK_SIZE
             whole == message[q]
  <1>1. BLOCK_SIZE \in Nat \ {0}
    BY BlockAssumption
  <1>2. index \in Nat /\ q \in Nat /\ r \in Positions /\ index = q * BLOCK_SIZE + r
    BY PlaceOfBit DEF MessageInv, MessageTypeOK
  <1>3. whole \subseteq Positions
    <2>1. PICK n \in Nat : /\ message \in [0 .. n - 1 -> SUBSET Positions]
                           /\ messageLength = n * BLOCK_SIZE
      BY DEF MessageInv, MessageTypeOK
    <2>2. index < n * BLOCK_SIZE
      BY <2>1, <1>1, <1>2 DEF MessageInv, MessageTypeOK
    <2>3. n * BLOCK_SIZE \in Nat /\ BlocksOf(n * BLOCK_SIZE) = n
      BY <2>1, WholeBlocks
    <2>4. q \in 0 .. n - 1
      BY <2>2, <2>3, <1>2, BitIsInABlock
    <2> QED BY <2>1, <2>4
  <1>4. Current = ShiftedRight(whole, r)
    <2>1. CASE r = 0
      <3>1. ShiftedRight(whole, 0) = whole
        BY <1>3, <1>1 DEF ShiftedRight, Positions
      <3> QED BY <2>1, <3>1 DEF Current
    <2>2. CASE r # 0
      BY <2>2 DEF Current, MessageInv, LoopIsShifting
    <2> QED BY <2>1, <2>2
  <1>5. 0 \in Current <=> BitOf(message, index)
    BY <1>4, <1>2, <1>1 DEF ShiftedRight, BitOf, Positions
  <1>6. ASSUME (index + 1) % BLOCK_SIZE # 0
        PROVE  ShiftedRight(Current, 1) =
                 ShiftedRight(message[(index + 1) \div BLOCK_SIZE], (index + 1) % BLOCK_SIZE)
    <2>1. r + 1 \in Positions
      <3>1. CASE r = BLOCK_SIZE - 1
        <4>1. index + 1 = BLOCK_SIZE * (q + 1)
          BY <3>1, <1>1, <1>2
        <4>2. q + 1 \in Nat
          BY <1>2
        <4>3. (BLOCK_SIZE * (q + 1)) % BLOCK_SIZE = 0
          BY <4>2, <1>1, MultMod
        <4> QED BY <4>1, <4>3, <1>6
      <3>2. CASE r # BLOCK_SIZE - 1
        BY <3>2, <1>1, <1>2 DEF Positions
      <3> QED BY <3>1, <3>2
    <2>2. index + 1 = q * BLOCK_SIZE + (r + 1)
      <3>1. q * BLOCK_SIZE \in Nat /\ r \in Nat
        BY <1>1, <1>2 DEF Positions
      <3> QED BY <3>1, <1>2
    <2>3. (index + 1) \div BLOCK_SIZE = q /\ (index + 1) % BLOCK_SIZE = r + 1
      BY <2>1, <2>2, <1>2, BlockAndPosition
    <2>4. ShiftedRight(ShiftedRight(whole, r), 1) = ShiftedRight(whole, r + 1)
      <3>1. ASSUME NEW k \in Positions
            PROVE  (k + 1) \in ShiftedRight(whole, r) <=> k + (r + 1) \in whole
        BY <1>1, <1>2, <1>3, <2>1 DEF ShiftedRight, Positions
      <3> QED BY <3>1 DEF ShiftedRight
    <2> QED BY <2>3, <2>4, <1>4
  <1> QED BY <1>5, <1>6

\* One turn of the loop adds the next bit to the block.
LEMMA TurnAddsABit ==
  ASSUME MessageInv, ShiftBit
  PROVE  MessageInv'
  <1> DEFINE j == index - digester
             r == (index - (digester % BLOCK_SIZE)) % BLOCK_SIZE
  <1>1. BLOCK_SIZE \in Nat \ {0}
    BY BlockAssumption
  <1>2. /\ digester \in Nat /\ wanted \in Nat /\ index \in Nat
        /\ mpc = "shift" /\ digester <= index /\ index < digester + wanted
        /\ HoldsBits(index - digester)
        /\ j \in Nat /\ j < wanted
    BY DEF MessageInv, MessageTypeOK, LoopIsShifting, ShiftBit
  <1>3. r = j % BLOCK_SIZE
    <2>1. /\ digester \div BLOCK_SIZE \in Nat /\ digester % BLOCK_SIZE \in Nat
          /\ digester = BLOCK_SIZE * (digester \div BLOCK_SIZE) + (digester % BLOCK_SIZE)
      BY <1>1, <1>2, DivMod
    <2>2. BLOCK_SIZE * (digester \div BLOCK_SIZE) \in Nat
      BY <1>1, <2>1
    <2>3. index - (digester % BLOCK_SIZE) = BLOCK_SIZE * (digester \div BLOCK_SIZE) + j
      BY <1>2, <2>1, <2>2
    <2>4. (BLOCK_SIZE * (digester \div BLOCK_SIZE) + j) % BLOCK_SIZE = j % BLOCK_SIZE
      BY <2>1, <1>1, <1>2, DivShift
    <2> QED BY <2>3, <2>4, Zenon
  <1>4. /\ j \div BLOCK_SIZE \in DOMAIN block
        /\ j \div BLOCK_SIZE \in Nat /\ r \in Positions
        /\ j = (j \div BLOCK_SIZE) * BLOCK_SIZE + r
    BY <1>2, <1>3, BitIsInABlock, PlaceOfBit DEF HoldsBits
  <1>5. UNCHANGED <<mpc, message, messageLength, digester, wanted>>
        /\ index' = index + 1 /\ buffer' = ShiftedRight(Current, 1)
    BY DEF ShiftBit
  <1>6. HoldsBits(index - digester)'
    <2>1. block' = IF 0 \in Current
                   THEN [block EXCEPT ![j \div BLOCK_SIZE] = @ \cup {r}] ELSE block
      BY DEF ShiftBit
    <2>2. DOMAIN block' = 0 .. BlocksOf(wanted) - 1
      BY <2>1, <1>2 DEF HoldsBits
    <2>3. ASSUME NEW b \in DOMAIN block', NEW k \in Positions
          PROVE  k \in block'[b] <=>
                   /\ b * BLOCK_SIZE + k < j + 1
                   /\ BitOf(message, digester + b * BLOCK_SIZE + k)
      <3>1. b \in Nat /\ b \in DOMAIN block
        BY <2>2, <1>2 DEF HoldsBits
      <3>2. b * BLOCK_SIZE + k \in Nat
        BY <3>1, BlockAndPosition
      <3>3. k \in block[b] <=>
              /\ b * BLOCK_SIZE + k < j
              /\ BitOf(message, digester + b * BLOCK_SIZE + k)
        BY <3>1, <1>2 DEF HoldsBits
      <3>4. b * BLOCK_SIZE + k = j <=> b = j \div BLOCK_SIZE /\ k = r
        BY <3>1, <1>3, <1>4, BlockAndPosition
      <3>5. 0 \in Current <=> BitOf(message, index)
        BY <1>2, CurrentIsShifted
      <3>6. b * BLOCK_SIZE + k = j => digester + b * BLOCK_SIZE + k = index
        <4>1. b * BLOCK_SIZE \in Nat /\ k \in Nat
          BY <3>1, <1>1 DEF Positions
        <4>2. \A x \in Nat : x + k = j => digester + x + k = index
          BY <4>1, <1>2
        <4> QED BY <4>1, <4>2, Zenon
      <3>7. b * BLOCK_SIZE + k < j + 1 <=> b * BLOCK_SIZE + k < j \/ b * BLOCK_SIZE + k = j
        BY <3>2, <1>2
      <3>8. k \in block'[b] <=>
              k \in block[b] \/ (0 \in Current /\ b = j \div BLOCK_SIZE /\ k = r)
        BY <2>1, <3>1, Zenon
      <3> QED BY <3>3, <3>4, <3>5, <3>6, <3>7, <3>8
    <2>4. (index - digester)' = j + 1
      BY <1>2, <1>5
    <2> QED BY <2>2, <2>3, <2>4, <1>5 DEF HoldsBits
  <1>7. LoopIsShifting'
    <2>1. digester' <= index' /\ index' <= digester' + wanted'
      BY <1>2, <1>5
    <2>2. (index + 1) % BLOCK_SIZE # 0 =>
            buffer' = ShiftedRight(message[(index + 1) \div BLOCK_SIZE], (index + 1) % BLOCK_SIZE)
      BY <1>2, <1>5, CurrentIsShifted
    <2>3. (index % BLOCK_SIZE # 0 =>
             buffer = ShiftedRight(message[index \div BLOCK_SIZE], index % BLOCK_SIZE))'
      BY <2>2, <1>5
    <2> QED BY <2>1, <2>3, <1>6 DEF LoopIsShifting
  <1>8. MessageTypeOK'
    <2>1. index + 1 \in Nat
      BY <1>2
    <2> QED BY <2>1, <1>5 DEF MessageInv, MessageTypeOK
  <1>9. BlockIsTheBits'
    BY <1>2, <1>5 DEF BlockIsTheBits
  <1> QED BY <1>7, <1>8, <1>9 DEF MessageInv

\* Whole blocks, with what the last one has too much masked out, are the bits.
LEMMA AlignedBlockHoldsTheBits ==
  ASSUME NEW sequence, NEW size \in Nat, NEW n \in Nat, n % BLOCK_SIZE = 0,
         NEW b \in 0 .. BlocksOf(size) - 1, NEW k \in Positions
  PROVE  k \in AlignedBlock(sequence, n, size)[b] <=>
           /\ b * BLOCK_SIZE + k < size
           /\ BitOf(sequence, n + b * BLOCK_SIZE + k)
  <1> DEFINE c == BlocksOf(size)
             whole == sequence[n \div BLOCK_SIZE + b]
  <1>1. BLOCK_SIZE \in Nat \ {0} /\ k \in Nat /\ k < BLOCK_SIZE /\ b \in Nat
    BY BlockAssumption, BlocksHoldTheBits DEF Positions
  <1>2. /\ c \in Nat /\ size <= c * BLOCK_SIZE
        /\ c * BLOCK_SIZE < size + BLOCK_SIZE
    BY BlocksHoldTheBits
  <1>3. BitOf(sequence, n + b * BLOCK_SIZE + k) <=> k \in whole
    <2>1. n \div BLOCK_SIZE \in Nat /\ n = (n \div BLOCK_SIZE) * BLOCK_SIZE
      BY PlaceOfBit, <1>1
    <2>2. n \div BLOCK_SIZE + b \in Nat
      BY <2>1, <1>1
    <2>3. n + b * BLOCK_SIZE + k = (n \div BLOCK_SIZE + b) * BLOCK_SIZE + k
      BY <2>1, <1>1
    <2>4. /\ (n + b * BLOCK_SIZE + k) \div BLOCK_SIZE = n \div BLOCK_SIZE + b
          /\ (n + b * BLOCK_SIZE + k) % BLOCK_SIZE = k
      BY <2>2, <2>3, BlockAndPosition
    <2> QED BY <2>4 DEF BitOf
  <1>4. CASE b = c - 1 /\ c * BLOCK_SIZE > size
    <2>1. c * BLOCK_SIZE = b * BLOCK_SIZE + BLOCK_SIZE /\ b * BLOCK_SIZE \in Nat
      BY <1>1, <1>2, <1>4
    <2>2. size - b * BLOCK_SIZE \in Positions
      BY <2>1, <1>1, <1>2, <1>4 DEF Positions
    <2>3. size = b * BLOCK_SIZE + (size - b * BLOCK_SIZE)
      BY <2>1
    <2>4. size % BLOCK_SIZE = size - b * BLOCK_SIZE
      BY <2>2, <2>3, <1>1, BlockAndPosition
    <2>5. b * BLOCK_SIZE + k < size <=> k < size % BLOCK_SIZE
      BY <2>1, <2>4, <1>1
    <2>6. AlignedBlock(sequence, n, size)[b] = LowPositions(whole, size % BLOCK_SIZE)
      BY <1>4 DEF AlignedBlock
    <2> QED BY <2>5, <2>6, <1>3 DEF LowPositions
  <1>5. CASE ~(b = c - 1 /\ c * BLOCK_SIZE > size)
    <2>1. AlignedBlock(sequence, n, size)[b] = whole
      BY <1>5 DEF AlignedBlock
    <2>2. b * BLOCK_SIZE + k < size
      <3>1. (b + 1) * BLOCK_SIZE = b * BLOCK_SIZE + BLOCK_SIZE
        BY <1>1
      <3>2. b * BLOCK_SIZE \in Nat /\ c * BLOCK_SIZE \in Nat
        BY <1>1, <1>2
      <3>3. CASE b = c - 1
        <4>1. c = b + 1
          BY <3>3, <1>1, <1>2
        <4> QED BY <4>1, <3>1, <3>2, <3>3, <1>1, <1>2, <1>5
      <3>4. CASE b # c - 1
        <4>1. PICK d \in Nat : c = (b + 2) + d
          <5>1. b \in 0 .. c - 1
            OBVIOUS
          <5>2. b \in Nat /\ c \in Nat
            BY <1>1, <1>2
          <5> HIDE DEF c
          <5>3. c - (b + 2) \in Nat /\ c = (b + 2) + (c - (b + 2))
            BY <5>1, <5>2, <3>4
          <5> QED BY <5>3, Zenon
        <4>2. c * BLOCK_SIZE = b * BLOCK_SIZE + 2 * BLOCK_SIZE + d * BLOCK_SIZE
          BY <4>1, <1>1
        <4>3. d * BLOCK_SIZE \in Nat
          BY <4>1, <1>1
        <4> QED BY <4>2, <4>3, <3>2, <1>1, <1>2
      <3> QED BY <3>3, <3>4
    <2> QED BY <2>1, <2>2, <1>3
  <1> QED BY <1>4, <1>5

\* A sequence without ones, of as many blocks as its bits need.
LEMMA EmptyHoldsNothing ==
  ASSUME NEW size \in Nat
  PROVE  /\ DOMAIN CommittedEmpty(size) = 0 .. BlocksOf(size) - 1
         /\ \A b \in DOMAIN CommittedEmpty(size) : CommittedEmpty(size)[b] = {}
  BY DEF CommittedEmpty

\* The invariant holds at first, and every step keeps it.
LEMMA MessageInvHolds ==
  /\ MessageInit => MessageInv
  /\ MessageInv /\ [MessageNext]_messageVars => MessageInv'
  <1>1. ASSUME MessageInit
        PROVE  MessageInv
    <2>1. \E n \in Nat : /\ message \in [0 .. n - 1 -> SUBSET Positions]
                         /\ messageLength = n * BLOCK_SIZE
      <3>1. BLOCK_SIZE \in Nat
        BY BlockAssumption
      <3>2. 0 .. BlocksOf(0) - 1 = {}
        <4>1. BlocksOf(0) \in Nat /\ BlocksOf(0) * BLOCK_SIZE < BLOCK_SIZE
          BY BlocksHoldTheBits, <3>1
        <4>2. BlocksOf(0) = 0
          <5>1. CASE BlocksOf(0) >= 1
            <6>1. PICK d \in Nat : BlocksOf(0) = d + 1
              <7>1. BlocksOf(0) - 1 \in Nat /\ BlocksOf(0) = (BlocksOf(0) - 1) + 1
                BY <4>1, <5>1
              <7> QED BY <7>1, Zenon
            <6>2. (d + 1) * BLOCK_SIZE = d * BLOCK_SIZE + BLOCK_SIZE /\ d * BLOCK_SIZE \in Nat
              BY <3>1
            <6> QED BY <6>1, <6>2, <4>1, <3>1
          <5> QED BY <5>1, <4>1
        <4> QED BY <4>2
      <3>3. message \in [0 .. 0 - 1 -> SUBSET Positions]
        BY <1>1, <3>2 DEF MessageInit, NoBlocks, CommittedEmpty
      <3>4. messageLength = 0 * BLOCK_SIZE
        BY <1>1, <3>1 DEF MessageInit
      <3> QED BY <3>3, <3>4
    <2> QED BY <1>1, <2>1 DEF MessageInit, MessageInv, MessageTypeOK, LoopIsShifting, BlockIsTheBits
  <1>2. ASSUME MessageInv, [MessageNext]_messageVars
        PROVE  MessageInv'
    <2>1. /\ digester \in Nat /\ wanted \in Nat /\ index \in Nat
          /\ mpc \in {"start", "cut", "shift", "got", "done"}
      BY <1>2 DEF MessageInv, MessageTypeOK
    <2>2. PICK n \in Nat : /\ message \in [0 .. n - 1 -> SUBSET Positions]
                           /\ messageLength = n * BLOCK_SIZE
      BY <1>2 DEF MessageInv, MessageTypeOK
    <2>3. BLOCK_SIZE \in Nat \ {0} /\ messageLength \in Nat
      BY <2>2, BlockAssumption
    <2>4. CASE DigestSequence
      <3>1. PICK m \in 0 .. MaxBlocks : /\ message' \in [0 .. m - 1 -> SUBSET Positions]
                                        /\ messageLength' = m * BLOCK_SIZE
        BY <2>4 DEF DigestSequence
      <3>2. m \in Nat
        BY <3>1, PathAssumption
      <3>3. m * BLOCK_SIZE \in Nat
        BY <3>2, <2>3
      <3>4. /\ UNCHANGED <<digester, wanted, index>>
            /\ mpc = "start" /\ mpc' = "cut"
        BY <2>4 DEF DigestSequence
      <3>5. digester' \in Nat /\ digester' <= messageLength'
        BY <1>2, <3>1, <3>3, <3>4 DEF MessageInv, MessageTypeOK
      <3>6. MessageTypeOK'
        BY <2>1, <3>1, <3>2, <3>4, <3>5 DEF MessageTypeOK
      <3> QED BY <3>4, <3>6 DEF MessageInv, LoopIsShifting, BlockIsTheBits
    <2>5. CASE GetAlignedBlock
      <3>1. PICK size \in 0 .. MaxRun :
              /\ digester + size <= messageLength
              /\ wanted' = size
              /\ block' = AlignedBlock(message, digester, size)
        BY <2>5 DEF GetAlignedBlock
      <3>2. size \in Nat
        BY <3>1, PathAssumption
      <3>3. UNCHANGED <<message, messageLength, digester, index>> /\ mpc' = "got"
            /\ digester % BLOCK_SIZE = 0
        BY <2>5 DEF GetAlignedBlock
      <3>4. DOMAIN block' = 0 .. BlocksOf(size) - 1
        BY <3>1 DEF AlignedBlock
      <3>5. \A b \in 0 .. BlocksOf(size) - 1 : \A k \in Positions :
              k \in block'[b] <=> /\ b * BLOCK_SIZE + k < size
                                  /\ BitOf(message, digester + b * BLOCK_SIZE + k)
        BY <3>1, <3>2, <3>3, <2>1, AlignedBlockHoldsTheBits
      <3>6. BlockIsTheBits'
        BY <3>1, <3>3, <3>4, <3>5 DEF BlockIsTheBits
      <3>7. MessageTypeOK'
        BY <1>2, <3>1, <3>2, <3>3 DEF MessageInv, MessageTypeOK
      <3> QED BY <3>3, <3>6, <3>7 DEF MessageInv, LoopIsShifting
    <2>6. CASE GetUnalignedBlock
      <3>1. PICK size \in 1 .. MaxRun :
              /\ digester + size <= messageLength
              /\ wanted' = size
              /\ block' = CommittedEmpty(size)
        BY <2>6 DEF GetUnalignedBlock
      <3>2. size \in Nat
        BY <3>1, PathAssumption
      <3>3. /\ UNCHANGED <<message, messageLength, digester>>
            /\ mpc' = "shift" /\ index' = digester
            /\ buffer' = ShiftedRight(message[digester \div BLOCK_SIZE], digester % BLOCK_SIZE)
        BY <2>6 DEF GetUnalignedBlock
      <3>4. DOMAIN block' = 0 .. BlocksOf(size) - 1 /\ \A b \in DOMAIN block' : block'[b] = {}
        BY <3>1, <3>2, EmptyHoldsNothing
      <3>5. \A b \in 0 .. BlocksOf(size) - 1 : \A k \in Positions : ~(b * BLOCK_SIZE + k < 0)
        BY <3>2, BlockAndPosition, BlocksHoldTheBits
      <3>6. HoldsBits(0)'
        BY <3>1, <3>4, <3>5 DEF HoldsBits
      <3>7. index' - digester' = 0
        BY <3>3, <2>1
      <3>8. LoopIsShifting'
        BY <3>1, <3>2, <3>3, <3>6, <3>7, <2>1 DEF LoopIsShifting
      <3>9. MessageTypeOK'
        BY <1>2, <3>1, <3>2, <3>3 DEF MessageInv, MessageTypeOK
      <3> QED BY <3>3, <3>8, <3>9 DEF MessageInv, BlockIsTheBits
    <2>7. CASE ShiftBit
      BY <1>2, <2>7, TurnAddsABit
    <2>8. CASE ShiftEnds
      <3>1. /\ UNCHANGED <<message, messageLength, digester, wanted, index, block>>
            /\ mpc = "shift" /\ mpc' = "got" /\ index >= digester + wanted
        BY <2>8 DEF ShiftEnds
      <3>2. index - digester = wanted /\ HoldsBits(index - digester)
        BY <1>2, <2>1, <3>1 DEF MessageInv, LoopIsShifting
      <3>3. HoldsBits(wanted)
        BY <3>2
      <3>4. BlockIsTheBits'
        BY <3>1, <3>3 DEF HoldsBits, BlockIsTheBits
      <3>5. MessageTypeOK'
        BY <1>2, <3>1 DEF MessageInv, MessageTypeOK
      <3> QED BY <3>1, <3>4, <3>5 DEF MessageInv, LoopIsShifting
    <2>9. CASE ReceiveBits
      <3>1. /\ UNCHANGED <<message, messageLength, wanted, index>>
            /\ mpc = "got" /\ mpc' = "cut" /\ digester' = digester + wanted
        BY <2>9 DEF ReceiveBits
      <3>2. digester' \in Nat /\ digester' <= messageLength
        BY <1>2, <2>1, <3>1 DEF MessageInv, MessageTypeOK
      <3>3. MessageTypeOK'
        BY <1>2, <3>1, <3>2 DEF MessageInv, MessageTypeOK
      <3> QED BY <3>1, <3>3 DEF MessageInv, LoopIsShifting, BlockIsTheBits
    <2>10. CASE SerializeSequence
      <3>1. /\ UNCHANGED <<message, messageLength, digester, wanted, index>>
            /\ mpc = "got" /\ mpc' = "done" /\ wanted = 0
        BY <2>10 DEF SerializeSequence
      <3>2. digester <= messageLength
        BY <1>2, <2>1, <2>3, <3>1 DEF MessageInv, MessageTypeOK
      <3>3. MessageTypeOK'
        BY <1>2, <3>1, <3>2 DEF MessageInv, MessageTypeOK
      <3> QED BY <3>1, <3>3 DEF MessageInv, LoopIsShifting, BlockIsTheBits
    <2>11. CASE UNCHANGED messageVars
      BY <1>2, <2>11 DEF messageVars, MessageInv, MessageTypeOK, LoopIsShifting, HoldsBits,
                         BlockIsTheBits
    <2> QED BY <1>2, <2>4, <2>5, <2>6, <2>7, <2>8, <2>9, <2>10, <2>11 DEF MessageNext
  <1> QED BY <1>1, <1>2

\* What the decoder has are the bits of the message before the digester, and none
\* behind them; at the end there are no others, and they are in the file.
EstimationInv ==
  /\ messageLength <= MaxBlocks * BLOCK_SIZE
  /\ mpc = "got" /\ wanted = 0 => digester = messageLength
  /\ mpc = "shift" => wanted # 0
  /\ mpc # "start" =>
       /\ DOMAIN estimation = 0 .. BlocksOf(MaxBlocks * BLOCK_SIZE) - 1
       /\ \A b \in DOMAIN estimation :
            /\ estimation[b] \subseteq Positions
            /\ \A k \in Positions :
                 k \in estimation[b] <=>
                   /\ b * BLOCK_SIZE + k < digester
                   /\ BitOf(message, b * BLOCK_SIZE + k)
  /\ mpc = "done" => written = message

\* What SetBits leaves and what it sets.
LEMMA BitsSetAt ==
  ASSUME NEW sequence, NEW from \in Nat, NEW size \in Nat, NEW source,
         NEW b \in DOMAIN sequence, NEW k \in Positions
  PROVE  k \in SetBits(sequence, from, size, source)[b] <=>
           \/ k \in sequence[b]
           \/ /\ from <= b * BLOCK_SIZE + k /\ b * BLOCK_SIZE + k < from + size
              /\ BitOf(source, (b * BLOCK_SIZE + k) - from)
  <1> DEFINE n(i) == b * BLOCK_SIZE + i
             set == {i \in Positions : /\ from <= n(i) /\ n(i) < from + size
                                       /\ BitOf(source, n(i) - from)}
  <1>1. SetBits(sequence, from, size, source)[b] = sequence[b] \cup set
    BY DEF SetBits
  <1>2. k \in set <=> /\ from <= b * BLOCK_SIZE + k /\ b * BLOCK_SIZE + k < from + size
                      /\ BitOf(source, (b * BLOCK_SIZE + k) - from)
    BY Zenon
  <1> HIDE DEF set
  <1> QED BY <1>1, <1>2, Zenon

\* The bits of a run are set behind those the decoder has.
LEMMA ReceivedBitsFollow ==
  ASSUME MessageInv, EstimationInv, ReceiveBits
  PROVE  EstimationInv'
  <1> DEFINE room == 0 .. BlocksOf(MaxBlocks * BLOCK_SIZE) - 1
  <1>1. /\ digester \in Nat /\ wanted \in Nat /\ mpc = "got" /\ mpc' = "cut"
        /\ UNCHANGED <<message, messageLength, written>>
        /\ digester' = digester + wanted
        /\ estimation' = SetBits(estimation, digester, wanted, block)
        /\ BLOCK_SIZE \in Nat \ {0}
    BY BlockAssumption DEF MessageInv, MessageTypeOK, ReceiveBits
  <1>2. DOMAIN estimation = room /\ DOMAIN estimation' = room
    BY <1>1 DEF EstimationInv, SetBits
  <1>3. ASSUME NEW b \in room
        PROVE  /\ estimation'[b] \subseteq Positions
               /\ \A k \in Positions :
                    k \in estimation'[b] <=>
                      /\ b * BLOCK_SIZE + k < digester'
                      /\ BitOf(message, b * BLOCK_SIZE + k)
    <2>1. estimation'[b] \subseteq estimation[b] \cup Positions
      BY <1>1, <1>2 DEF SetBits
    <2>2. estimation[b] \subseteq Positions
      BY <1>1, <1>2 DEF EstimationInv
    <2>3. ASSUME NEW k \in Positions
          PROVE  k \in estimation'[b] <=>
                   /\ b * BLOCK_SIZE + k < digester'
                   /\ BitOf(message, b * BLOCK_SIZE + k)
      <3> DEFINE n == b * BLOCK_SIZE + k
      <3>1. b \in Nat /\ n \in Nat
        BY <1>1, BlockAndPosition
      <3>2. k \in estimation[b] <=> n < digester /\ BitOf(message, n)
        BY <1>1, <1>2 DEF EstimationInv
      <3>3. ASSUME digester <= n, n < digester + wanted
            PROVE  BitOf(block, n - digester) <=> BitOf(message, n)
        <4> DEFINE i == n - digester
                   q == i \div BLOCK_SIZE
                   r == i % BLOCK_SIZE
        <4>1. i \in Nat /\ i < wanted /\ digester + i = n
          <5> HIDE DEF n
          <5> QED BY <3>1, <3>3, <1>1
        <4>2. /\ q \in 0 .. BlocksOf(wanted) - 1 /\ q \in Nat /\ r \in Positions
              /\ i = q * BLOCK_SIZE + r
          BY <4>1, <1>1, PlaceOfBit, BitIsInABlock
        <4>3. r \in block[q] <=> /\ q * BLOCK_SIZE + r < wanted
                                 /\ BitOf(message, digester + q * BLOCK_SIZE + r)
          BY <4>2, <1>1 DEF MessageInv, BlockIsTheBits
        <4>4. digester + q * BLOCK_SIZE + r = n
          <5>1. q * BLOCK_SIZE \in Nat /\ r \in Nat
            BY <4>2, <1>1 DEF Positions
          <5>2. \A x \in Nat : i = x + r => digester + x + r = digester + i
            BY <5>1, <4>1, <1>1
          <5>3. digester + q * BLOCK_SIZE + r = digester + i
            BY <5>1, <5>2, <4>2, Zenon
          <5> QED BY <5>3, <4>1, Zenon
        <4>5. q * BLOCK_SIZE + r < wanted
          BY <4>1, <4>2, Zenon
        <4> QED BY <4>3, <4>4, <4>5 DEF BitOf
      <3>4. k \in estimation'[b] <=>
              \/ k \in estimation[b]
              \/ digester <= n /\ n < digester + wanted /\ BitOf(block, n - digester)
        <4>1. b \in DOMAIN estimation
          BY <1>2
        <4>2. k \in SetBits(estimation, digester, wanted, block)[b] <=>
                \/ k \in estimation[b]
                \/ /\ digester <= b * BLOCK_SIZE + k /\ b * BLOCK_SIZE + k < digester + wanted
                   /\ BitOf(block, (b * BLOCK_SIZE + k) - digester)
          BY <4>1, <1>1, BitsSetAt, Zenon
        <4>3. estimation'[b] = SetBits(estimation, digester, wanted, block)[b]
          BY <1>1
        <4> QED BY <4>2, <4>3, Zenon
      <3>5. n < digester + wanted <=> n < digester \/ (digester <= n /\ n < digester + wanted)
        <4> HIDE DEF n
        <4> QED BY <3>1, <1>1
      <3>6. k \in estimation'[b] <=> n < digester + wanted /\ BitOf(message, n)
        BY <3>2, <3>3, <3>4, <3>5, Zenon
      <3> QED BY <3>6, <1>1, Zenon
    <2> QED BY <2>1, <2>2, <2>3
  <1>4. messageLength' <= MaxBlocks * BLOCK_SIZE
    BY <1>1 DEF EstimationInv
  <1> QED BY <1>1, <1>2, <1>3, <1>4 DEF EstimationInv

\* Cut to the length of the message, the bits the decoder has are its blocks.
LEMMA WrittenBlocksAreTheMessage ==
  ASSUME MessageInv, EstimationInv, SerializeSequence
  PROVE  written' = message
  <1>1. PICK n \in Nat : /\ message \in [0 .. n - 1 -> SUBSET Positions]
                         /\ messageLength = n * BLOCK_SIZE
    BY DEF MessageInv, MessageTypeOK
  <1>2. /\ mpc = "got" /\ wanted = 0 /\ digester \in Nat
        /\ written' = AlignedBlock(estimation, 0, digester)
        /\ BLOCK_SIZE \in Nat \ {0} /\ MaxBlocks \in Nat
    BY BlockAssumption, PathAssumption DEF SerializeSequence, MessageInv, MessageTypeOK
  <1>3. digester = n * BLOCK_SIZE /\ n * BLOCK_SIZE \in Nat /\ BlocksOf(digester) = n
    BY <1>1, <1>2, WholeBlocks DEF EstimationInv
  <1>4. n <= MaxBlocks
    <2>1. n * BLOCK_SIZE <= MaxBlocks * BLOCK_SIZE
      BY <1>1 DEF EstimationInv
    <2>2. CASE n > MaxBlocks
      <3>1. PICK d \in Nat : n = MaxBlocks + 1 + d
        <4>1. n - (MaxBlocks + 1) \in Nat /\ n = MaxBlocks + 1 + (n - (MaxBlocks + 1))
          BY <2>2, <1>1, <1>2
        <4> QED BY <4>1, Zenon
      <3>2. n * BLOCK_SIZE = MaxBlocks * BLOCK_SIZE + BLOCK_SIZE + d * BLOCK_SIZE
        BY <3>1, <1>2
      <3>3. MaxBlocks * BLOCK_SIZE \in Nat /\ d * BLOCK_SIZE \in Nat
        BY <3>1, <1>2
      <3> QED BY <3>2, <3>3, <2>1, <1>2, <1>3
    <2> QED BY <2>2, <1>1, <1>2
  <1>5. BlocksOf(MaxBlocks * BLOCK_SIZE) = MaxBlocks
    BY <1>2, WholeBlocks
  <1>6. DOMAIN written' = 0 .. n - 1
    BY <1>2, <1>3 DEF AlignedBlock
  <1>7. ASSUME NEW b \in 0 .. n - 1
        PROVE  written'[b] = message[b]
    <2>1. b \in DOMAIN estimation /\ b \in Nat
      BY <1>1, <1>2, <1>4, <1>5 DEF EstimationInv
    <2>2. estimation[b] \subseteq Positions
      BY <2>1, <1>2 DEF EstimationInv
    <2>3. 0 \div BLOCK_SIZE = 0 /\ 0 % BLOCK_SIZE = 0
      BY <1>2
    <2>4. written'[b] \subseteq Positions
      <3>1. 0 \div BLOCK_SIZE + b = b
        BY <2>1, <2>3
      <3>2. written'[b] \subseteq estimation[b]
        BY <1>2, <1>3, <3>1 DEF AlignedBlock, LowPositions
      <3> QED BY <3>2, <2>2
    <2>5. message[b] \subseteq Positions
      BY <1>1
    <2>6. ASSUME NEW k \in Positions
          PROVE  k \in written'[b] <=> k \in message[b]
      <3> DEFINE i == b * BLOCK_SIZE + k
      <3>1. i \in Nat /\ i \div BLOCK_SIZE = b /\ i % BLOCK_SIZE = k
        BY <2>1, BlockAndPosition
      <3>2. 0 + b * BLOCK_SIZE + k = i
        <4>1. b * BLOCK_SIZE \in Nat
          BY <2>1, <1>2
        <4> QED BY <4>1
      <3>3. k \in written'[b] <=> i < digester /\ BitOf(estimation, 0 + b * BLOCK_SIZE + k)
        BY <1>2, <1>3, <2>3, AlignedBlockHoldsTheBits
      <3>4. BitOf(estimation, i) <=> i < digester /\ BitOf(message, i)
        BY <3>1, <2>1, <1>2 DEF BitOf, EstimationInv
      <3>5. i < digester
        <4>1. (b + 1) * BLOCK_SIZE = b * BLOCK_SIZE + BLOCK_SIZE /\ b * BLOCK_SIZE \in Nat
          BY <2>1, <1>2
        <4>2. PICK d \in Nat : n = b + 1 + d
          <5>1. n - (b + 1) \in Nat /\ n = b + 1 + (n - (b + 1))
            BY <2>1, <1>1
          <5> QED BY <5>1, Zenon
        <4>3. n * BLOCK_SIZE = b * BLOCK_SIZE + BLOCK_SIZE + d * BLOCK_SIZE
          BY <4>2, <2>1, <1>2
        <4>4. d * BLOCK_SIZE \in Nat
          BY <4>2, <1>2
        <4> QED BY <4>1, <4>3, <4>4, <1>2, <1>3 DEF Positions
      <3> QED BY <3>1, <3>2, <3>3, <3>4, <3>5 DEF BitOf
    <2> QED BY <2>4, <2>5, <2>6
  <1> QED BY <1>1, <1>2, <1>6, <1>7 DEF AlignedBlock

\* GetBlock returns the bits it is asked for, from any position on and across any
\* number of blocks, with zeros behind them (aBinarySequence.cpp:125, where a
\* comment at :175 says that it was proved).
THEOREM BlocksAreTheBits == MessageSpec => []BlockIsTheBits
  <1>1. MessageInv => BlockIsTheBits
    BY DEF MessageInv
  <1> QED BY <1>1, MessageInvHolds, PTL DEF MessageSpec

\* What the decoder has follows the message through every step.
LEMMA EstimationInvHolds ==
  /\ MessageInit => EstimationInv
  /\ MessageInv /\ EstimationInv /\ [MessageNext]_messageVars => EstimationInv'
  <1>1. ASSUME MessageInit
        PROVE  EstimationInv
    <2>1. MaxBlocks * BLOCK_SIZE \in Nat
      BY BlockAssumption, PathAssumption
    <2> QED BY <1>1, <2>1 DEF MessageInit, EstimationInv
  <1>2. ASSUME MessageInv, EstimationInv, [MessageNext]_messageVars
        PROVE  EstimationInv'
    <2>1. /\ BLOCK_SIZE \in Nat \ {0} /\ MaxBlocks \in Nat
          /\ MaxBlocks * BLOCK_SIZE \in Nat
      BY BlockAssumption, PathAssumption
    <2>2. CASE DigestSequence
      <3>1. /\ estimation' = CommittedEmpty(MaxBlocks * BLOCK_SIZE)
            /\ mpc = "start" /\ mpc' = "cut" /\ digester' = digester
        BY <2>2 DEF DigestSequence
      <3>2. PICK m \in 0 .. MaxBlocks : messageLength' = m * BLOCK_SIZE
        BY <2>2 DEF DigestSequence
      <3>3. messageLength' <= MaxBlocks * BLOCK_SIZE
        <4>1. m \in Nat /\ MaxBlocks - m \in Nat /\ MaxBlocks = m + (MaxBlocks - m)
          BY <2>1
        <4>2. PICK d \in Nat : MaxBlocks = m + d
          BY <4>1, Zenon
        <4>3. MaxBlocks * BLOCK_SIZE = m * BLOCK_SIZE + d * BLOCK_SIZE
          BY <4>1, <4>2, <2>1
        <4>4. m * BLOCK_SIZE \in Nat /\ d * BLOCK_SIZE \in Nat
          BY <4>1, <4>2, <2>1
        <4> QED BY <3>2, <4>3, <4>4
      <3>4. digester' = 0
        BY <1>2, <3>1 DEF MessageInv, MessageTypeOK
      <3>5. ASSUME NEW b \in DOMAIN estimation'
            PROVE  /\ estimation'[b] = {} /\ b \in Nat
                   /\ \A k \in Positions : ~(b * BLOCK_SIZE + k < 0)
        <4>1. estimation'[b] = {} /\ b \in Nat
          <5>1. BlocksOf(MaxBlocks * BLOCK_SIZE) \in Nat
            BY <2>1, BlocksHoldTheBits
          <5>2. /\ b \in 0 .. BlocksOf(MaxBlocks * BLOCK_SIZE) - 1
                /\ CommittedEmpty(MaxBlocks * BLOCK_SIZE)[b] = {}
            BY <3>1, <2>1, EmptyHoldsNothing
          <5> QED BY <3>1, <5>1, <5>2
        <4>2. \A k \in Positions : b * BLOCK_SIZE + k \in Nat
          BY <4>1, BlockAndPosition
        <4> QED BY <4>1, <4>2
      <3>6. DOMAIN estimation' = 0 .. BlocksOf(MaxBlocks * BLOCK_SIZE) - 1
        BY <3>1, <2>1, EmptyHoldsNothing
      <3> QED BY <3>1, <3>3, <3>4, <3>5, <3>6 DEF EstimationInv
    <2>3. CASE GetAlignedBlock
      <3>1. /\ UNCHANGED <<message, messageLength, digester, estimation>>
            /\ mpc = "cut" /\ mpc' = "got"
            /\ wanted' = 0 => digester = messageLength
        BY <2>3 DEF GetAlignedBlock
      <3> QED BY <1>2, <3>1 DEF EstimationInv
    <2>4. CASE GetUnalignedBlock
      <3>1. /\ UNCHANGED <<message, messageLength, digester, estimation>>
            /\ mpc = "cut" /\ mpc' = "shift" /\ wanted' # 0
        BY <2>4, PathAssumption DEF GetUnalignedBlock
      <3> QED BY <1>2, <3>1 DEF EstimationInv
    <2>5. CASE ShiftBit
      BY <1>2, <2>5 DEF ShiftBit, EstimationInv
    <2>6. CASE ShiftEnds
      BY <1>2, <2>6 DEF ShiftEnds, EstimationInv
    <2>7. CASE ReceiveBits
      BY <1>2, <2>7, ReceivedBitsFollow
    <2>8. CASE SerializeSequence
      <3>1. written' = message
        BY <1>2, <2>8, WrittenBlocksAreTheMessage
      <3> QED BY <1>2, <2>8, <3>1 DEF SerializeSequence, EstimationInv
    <2>9. CASE UNCHANGED messageVars
      BY <1>2, <2>9 DEF messageVars, EstimationInv
    <2> QED BY <1>2, <2>2, <2>3, <2>4, <2>5, <2>6, <2>7, <2>8, <2>9 DEF MessageNext
  <1> QED BY <1>1, <1>2

\* However the runs cut the message, the file the decoder writes is the file the
\* encoder read (aBinarySequence.cpp:38, :125 and :350).
THEOREM FileIsTheMessage == MessageSpec => [](mpc = "done" => written = message)
  <1>1. EstimationInv => (mpc = "done" => written = message)
    BY DEF EstimationInv
  <1> QED BY <1>1, MessageInvHolds, EstimationInvHolds, PTL DEF MessageSpec
-----------------------------------------------------------------------------
(* The bytes of a digest: numbers of bits in machine words, and blocks.    *)

\* A number is one multiple and one remainder.
LEMMA DivisionIsUnique ==
  ASSUME NEW b \in Nat \ {0}, NEW q \in Nat, NEW r \in 0 .. b - 1
  PROVE  (q * b + r) \div b = q /\ (q * b + r) % b = r
  <1>1. (b * q + r) \div b = q + (r \div b) /\ (b * q + r) % b = r % b
    <2>1. r \in Nat
      OBVIOUS
    <2> QED BY <2>1, DivShift
  <1>2. r \div b = 0 /\ r % b = r
    OBVIOUS
  <1> QED BY <1>1, <1>2

\* A larger number has no smaller quotient.
LEMMA QuotientsGrow ==
  ASSUME NEW b \in Nat \ {0}, NEW m \in Nat, NEW n \in Nat, m <= n
  PROVE  m \div b <= n \div b
  <1> DEFINE p == m \div b
             q == n \div b
  <1>1. /\ p \in Nat /\ q \in Nat /\ m % b \in 0 .. b - 1 /\ n % b \in 0 .. b - 1
        /\ m = b * p + (m % b) /\ n = b * q + (n % b)
    BY DivMod
  <1> HIDE DEF p, q
  <1>2. ASSUME p > q
        PROVE  FALSE
    <2>1. p - q - 1 \in Nat
      BY <1>1, <1>2
    <2>2. b * (p - q - 1) \in Nat
      BY <2>1
    <2>3. b * p = b * q + b + b * (p - q - 1)
      BY <1>1
    <2>4. b * p \in Nat /\ b * q \in Nat
      BY <1>1
    <2> QED BY <1>1, <2>2, <2>3, <2>4
  <1> QED BY <1>1, <1>2 DEF p, q

\* The order of multiples is that of their factors.
LEMMA MultiplesGrow ==
  ASSUME NEW b \in Nat, NEW m \in Nat, NEW n \in Nat, m <= n
  PROVE  m * b <= n * b /\ m * b \in Nat /\ n * b \in Nat
  <1>1. n - m \in Nat
    OBVIOUS
  <1>2. (n - m) * b \in Nat /\ m * b \in Nat /\ n * b \in Nat
    BY <1>1
  <1>3. n * b = m * b + (n - m) * b
    OBVIOUS
  <1> QED BY <1>2, <1>3

\* A product of a sum.
LEMMA ProductOfASum ==
  ASSUME NEW a \in Nat, NEW b \in Nat, NEW c \in Nat
  PROVE  (a + b) * c = a * c + b * c /\ a * c \in Nat /\ b * c \in Nat
  OBVIOUS

\* What is added to a word is a remainder, and the carry shows in that the word
\* becomes smaller.
LEMMA WordIsCounted ==
  ASSUME NEW W \in Nat \ {0}, NEW a \in Nat, NEW d \in 0 .. W - 1
  PROVE  /\ ((a % W) + d) % W = (a + d) % W
         /\ (a + d) \div W = (a \div W) + (IF ((a % W) + d) % W < a % W THEN 1 ELSE 0)
  <1> DEFINE q == a \div W
             r == a % W
  <1>1. q \in Nat /\ r \in 0 .. W - 1 /\ a = W * q + r
    BY DivMod
  <1> HIDE DEF q, r
  <1>2. CASE r + d < W
    <2>1. a + d = q * W + (r + d) /\ r + d \in 0 .. W - 1
      BY <1>1, <1>2
    <2>2. (a + d) \div W = q /\ (a + d) % W = r + d
      BY <1>1, <2>1, DivisionIsUnique
    <2>3. r + d = 0 * W + (r + d)
      BY <1>1
    <2>4. (r + d) % W = r + d
      BY <2>1, <2>3, DivisionIsUnique
    <2> QED BY <1>1, <2>2, <2>4 DEF q, r
  <1>3. CASE r + d >= W
    <2>1. a + d = (q + 1) * W + (r + d - W) /\ r + d - W \in 0 .. W - 1 /\ q + 1 \in Nat
      BY <1>1, <1>3
    <2>2. (a + d) \div W = q + 1 /\ (a + d) % W = r + d - W
      <3> DEFINE q1 == q + 1
                 r1 == r + d - W
      <3>1. a + d = q1 * W + r1 /\ r1 \in 0 .. W - 1 /\ q1 \in Nat
        BY <2>1
      <3> HIDE DEF q1, r1
      <3>2. (a + d) \div W = q1 /\ (a + d) % W = r1
        BY <3>1, DivisionIsUnique
      <3> QED BY <3>2 DEF q1, r1
    <2>3. r + d = 1 * W + (r + d - W)
      BY <1>1
    <2>4. (r + d) % W = r + d - W
      BY <2>1, <2>3, DivisionIsUnique
    <2>5. r + d - W < r
      BY <1>1
    <2> QED BY <1>1, <2>2, <2>4, <2>5 DEF q, r
  <1> QED BY <1>1, <1>2, <1>3

\* The constants.
LEMMA DigestConstants ==
  /\ BLOCKSIZE2 \in Nat \ {0} /\ LengthBytes \in Nat \ {0} /\ LengthBytes < BLOCKSIZE2
  /\ DigestBytes \in Nat \ {0} /\ WordRange \in Nat \ {0} /\ BitsPerByte \in Nat \ {0}
  /\ MaxPiece \in Nat /\ DigestBytes <= MaxPiece
  BY DigestAssumption

\* The words of a number.
LEMMA WordsOfANumber ==
  ASSUME NEW n \in Nat
  PROVE  /\ WordsOf(n)[1] = n % WordRange
         /\ WordsOf(n)[2] = (n \div WordRange) % WordRange
         /\ WordsOf(n)[3] = ((n \div WordRange) \div WordRange) % WordRange
         /\ WordsOf(n)[4] = (((n \div WordRange) \div WordRange) \div WordRange) % WordRange
  BY DEF WordsOf

\* AddData counts the bits of what it adds, through every carry (SHA.cpp:214).
LEMMA BitsAreCounted ==
  ASSUME NEW n \in Nat, NEW size \in Nat, size <= MaxPiece
  PROVE  Counted(WordsOf(n), size) = WordsOf(n + size * BitsPerByte)
  <1> DEFINE W == WordRange
             k == size * BitsPerByte
             k0 == k % W
             k1 == k \div W
             n1 == n \div W
             n2 == n1 \div W
             n3 == n2 \div W
             right == ((n % W) + k) % W
             carry == IF right < n % W THEN 1 ELSE 0
             left == ((n1 % W) + carry + k1) % W
             second == IF left < n1 % W THEN 1 ELSE 0
             next == ((n2 % W) + second) % W
             third == IF next < n2 % W THEN 1 ELSE 0
  <1>1. W \in Nat \ {0} /\ k \in Nat
    BY DigestConstants
  <1>2. k1 < W - 1
    <2>1. MaxPiece * BitsPerByte \in Nat /\ k <= MaxPiece * BitsPerByte
      BY DigestConstants, MultiplesGrow
    <2>2. k1 <= (MaxPiece * BitsPerByte) \div W
      BY <1>1, <2>1, QuotientsGrow
    <2>3. (MaxPiece * BitsPerByte) \div W < W - 1
      BY DigestAssumption
    <2>4. (MaxPiece * BitsPerByte) \div W \in Nat /\ k1 \in Nat
      BY <1>1, <2>1, DivMod
    <2> HIDE DEF k1, W
    <2> QED BY <1>1, <2>2, <2>3, <2>4
  <1>3. k0 \in 0 .. W - 1 /\ k1 \in Nat /\ k = W * k1 + k0
    BY <1>1, DivMod
  <1>4. n1 \in Nat /\ n2 \in Nat /\ n3 \in Nat /\ n % W \in 0 .. W - 1
    <2>1. n1 \in Nat /\ n % W \in 0 .. W - 1
      BY <1>1, DivMod
    <2>2. n2 \in Nat
      BY <1>1, <2>1, DivMod
    <2> QED BY <1>1, <2>1, <2>2, DivMod
  <1>5. right = (n + k) % W /\ (n + k) \div W = n1 + carry + k1
    <2>1. /\ ((n % W) + k0) % W = (n + k0) % W
          /\ (n + k0) \div W = n1 + (IF ((n % W) + k0) % W < n % W THEN 1 ELSE 0)
      BY <1>1, <1>3, WordIsCounted
    <2>2. (n % W) + k = W * k1 + ((n % W) + k0) /\ n + k = W * k1 + (n + k0)
      <3> DEFINE c == W * k1
                 m == n % W
      <3> HIDE DEF k, k0, k1
      <3>1. c \in Nat /\ k0 \in Nat /\ k = c + k0
        BY <1>1, <1>3
      <3>2. m \in Nat
        BY <1>4
      <3> HIDE DEF c, m
      <3> QED BY <3>1, <3>2 DEF c, m
    <2>3. (n % W) + k0 \in Nat /\ n + k0 \in Nat
      BY <1>3, <1>4
    <2>4. /\ (W * k1 + ((n % W) + k0)) % W = ((n % W) + k0) % W
          /\ (W * k1 + (n + k0)) % W = (n + k0) % W
          /\ (W * k1 + (n + k0)) \div W = k1 + ((n + k0) \div W)
      <3> DEFINE a == (n % W) + k0
                 b == n + k0
      <3>1. a \in Nat /\ b \in Nat /\ k1 \in Nat /\ W \in Nat \ {0}
        BY <1>1, <1>3, <2>3
      <3> HIDE DEF a, b, k1, W
      <3>2. (W * k1 + a) % W = a % W
        BY <3>1, DivShift
      <3>3. (W * k1 + b) % W = b % W
        BY <3>1, DivShift
      <3>4. (W * k1 + b) \div W = k1 + (b \div W)
        BY <3>1, DivShift
      <3> QED BY <3>2, <3>3, <3>4 DEF a, b
    <2>5. right = ((n % W) + k0) % W /\ (n + k) % W = (n + k0) % W
      BY <2>2, <2>4
    <2>6. (n + k) \div W = k1 + n1 + carry
      BY <2>1, <2>2, <2>4, <2>5, <1>4, <1>3
    <2>7. carry \in Nat
      OBVIOUS
    <2> QED BY <1>3, <1>4, <2>1, <2>5, <2>6, <2>7
  <1>6. carry \in {0, 1} /\ second \in {0, 1} /\ third \in {0, 1}
    OBVIOUS
  <1> HIDE DEF k0, k1, k, right, carry
  <1>7. left = (n1 + carry + k1) % W /\ (n1 + carry + k1) \div W = n2 + second
    <2>1. carry + k1 \in 0 .. W - 1
      BY <1>1, <1>2, <1>3, <1>6
    <2>2. /\ ((n1 % W) + (carry + k1)) % W = (n1 + (carry + k1)) % W
          /\ (n1 + (carry + k1)) \div W
               = n2 + (IF ((n1 % W) + (carry + k1)) % W < n1 % W THEN 1 ELSE 0)
      BY <1>1, <1>4, <2>1, WordIsCounted
    <2>3. n1 % W \in Nat
      BY <1>1, <1>4, DivMod
    <2>4. (n1 % W) + (carry + k1) = (n1 % W) + carry + k1 /\ n1 + (carry + k1) = n1 + carry + k1
      BY <1>3, <1>4, <1>6, <2>3
    <2> QED BY <2>2, <2>4
  <1> HIDE DEF left, second
  <1>8. CASE W = 1
    <2>1. FALSE
      BY <1>2, <1>3, <1>8
    <2> QED BY <2>1
  <1>9. CASE W # 1
    <2>1. second \in 0 .. W - 1 /\ third \in 0 .. W - 1
      BY <1>1, <1>6, <1>9
    <2>2. next = (n2 + second) % W /\ (n2 + second) \div W = n3 + third
      BY <1>1, <1>4, <2>1, WordIsCounted
    <2> HIDE DEF next, third
    <2>3. ((n3 % W) + third) % W = (n3 + third) % W
      BY <1>1, <1>4, <2>1, WordIsCounted
    <2>4. Counted(WordsOf(n), size) = <<right, left, next, ((n3 % W) + third) % W>>
      BY WordsOfANumber, Zenon DEF Counted, right, left, next, carry, second, third, k, k1
    <2>5. WordsOf(n + k) = <<(n + k) % W, (n1 + carry + k1) % W, (n2 + second) % W, (n3 + third) % W>>
      BY <1>5, <1>7, <2>2, Zenon DEF WordsOf
    <2> QED BY <1>5, <1>7, <2>2, <2>3, <2>4, <2>5 DEF k
  <1> QED BY <1>8, <1>9

\* The lowest word knows how full the block is.
LEMMA FilledIsTheRest ==
  ASSUME NEW n \in Nat
  PROVE  Filled(WordsOf(n * BitsPerByte)) = n % BLOCKSIZE2
  <1> DEFINE W == WordRange
             M == W \div (BitsPerByte * BLOCKSIZE2)
             m == n * BitsPerByte
             q == m \div W
             i == n - BLOCKSIZE2 * (M * q)
  <1>1. BitsPerByte \in Nat \ {0} /\ BLOCKSIZE2 \in Nat \ {0} /\ W \in Nat \ {0} /\ m \in Nat
    BY DigestConstants
  <1>2. BitsPerByte * BLOCKSIZE2 \in Nat \ {0}
    BY <1>1
  <1>3. M \in Nat /\ W = (BitsPerByte * BLOCKSIZE2) * M
    <2> DEFINE b == BitsPerByte * BLOCKSIZE2
    <2>1. b \in Nat \ {0} /\ W % b = 0 /\ M = W \div b
      BY <1>2, DigestAssumption
    <2> HIDE DEF b
    <2>2. W \div b \in Nat /\ W = b * (W \div b) + (W % b)
      BY <1>1, <2>1, DivMod
    <2>3. b * (W \div b) \in Nat
      BY <2>1, <2>2
    <2>4. W = b * (W \div b)
      BY <2>1, <2>2, <2>3
    <2> QED BY <2>1, <2>2, <2>4 DEF b
  <1>4. q \in Nat /\ m % W \in 0 .. W - 1 /\ m = W * q + (m % W)
    BY <1>1, DivMod
  <1> HIDE DEF q, M
  <1>5. m % W = BitsPerByte * i /\ i \in Int
    BY <1>1, <1>3, <1>4
  <1>6. i \in Nat
    BY <1>1, <1>4, <1>5
  <1>7. (m % W) \div BitsPerByte = i
    BY <1>1, <1>5, <1>6, MultMod
  <1>8. M * q \in Nat /\ n = BLOCKSIZE2 * (M * q) + i
    BY <1>1, <1>3, <1>4
  <1>9. n % BLOCKSIZE2 = i % BLOCKSIZE2
    <2> DEFINE d == M * q
    <2>1. d \in Nat /\ n = BLOCKSIZE2 * d + i
      BY <1>8
    <2> HIDE DEF d, i
    <2>2. (BLOCKSIZE2 * d + i) % BLOCKSIZE2 = i % BLOCKSIZE2
      BY <1>1, <1>6, <2>1, DivShift
    <2> QED BY <2>1, <2>2, Zenon
  <1> QED BY <1>1, <1>7, <1>9, WordsOfANumber DEF Filled

-----------------------------------------------------------------------------
(* The bytes of a context: those of the blocks it has transformed, and the *)
(* first ones of its block.                                                *)

Bytes ==
  {ZeroByte, OneByte} \cup (Nat \X Nat)
    \cup {<<"length", WordsOf(n), i>> : n \in Nat, i \in 1 .. LengthBytes}
Blocks == [1 .. BLOCKSIZE2 -> Bytes]

\* A context is that of these bytes, of which some are in each block.
HasBlocks(chain, bytes) ==
  \A n \in 1 .. Len(chain) : \A i \in 1 .. BLOCKSIZE2 :
    chain[n][i] = bytes[(n - 1) * BLOCKSIZE2 + i]
HasRest(held, rest, bytes) ==
  \A i \in 1 .. rest : held[i] = bytes[Len(bytes) - rest + i]
Holds(context, bytes) ==
  /\ bytes \in Seq(Bytes)
  /\ context = [bits |-> context.bits, chained |-> context.chained, input |-> context.input]
  /\ context.bits = WordsOf(Len(bytes) * BitsPerByte)
  /\ context.chained \in Seq(Blocks) /\ context.input \in Blocks
  /\ Len(bytes) = Len(context.chained) * BLOCKSIZE2 + (Len(bytes) % BLOCKSIZE2)
  /\ HasBlocks(context.chained, bytes)
  /\ HasRest(context.input, Len(bytes) % BLOCKSIZE2, bytes)

\* A block a piece is laid over.
LEMMA OverlaidIsABlock ==
  ASSUME NEW base \in Blocks, NEW at \in Nat, NEW piece \in Seq(Bytes), at + Len(piece) <= BLOCKSIZE2
  PROVE  /\ Overlaid(base, at, piece) \in Blocks
         /\ \A i \in 1 .. BLOCKSIZE2 :
              Overlaid(base, at, piece)[i] =
                IF at < i /\ i <= at + Len(piece) THEN piece[i - at] ELSE base[i]
  <1>1. DOMAIN base = 1 .. BLOCKSIZE2 /\ Len(piece) \in Nat /\ BLOCKSIZE2 \in Nat
    BY DigestConstants DEF Blocks
  <1>2. \A i \in 1 .. BLOCKSIZE2 : i \in at + 1 .. at + Len(piece) <=> at < i /\ i <= at + Len(piece)
    BY <1>1
  <1>3. \A i \in 1 .. BLOCKSIZE2 : at < i /\ i <= at + Len(piece) => piece[i - at] \in Bytes
    <2> SUFFICES ASSUME NEW i \in 1 .. BLOCKSIZE2, at < i, i <= at + Len(piece)
                 PROVE  piece[i - at] \in Bytes
      OBVIOUS
    <2>1. i - at \in 1 .. Len(piece)
      BY <1>1
    <2>2. piece \in [1 .. Len(piece) -> Bytes]
      BY LenProperties
    <2> QED BY <2>1, <2>2
  <1>4. Overlaid(base, at, piece) =
          [i \in 1 .. BLOCKSIZE2 |->
             IF at < i /\ i <= at + Len(piece) THEN piece[i - at] ELSE base[i]]
    BY <1>1, <1>2 DEF Overlaid
  <1> DEFINE o == [i \in 1 .. BLOCKSIZE2 |->
                     IF at < i /\ i <= at + Len(piece) THEN piece[i - at] ELSE base[i]]
  <1>5. o \in Blocks
    BY <1>3 DEF Blocks
  <1> QED BY <1>4, <1>5

\* A piece of a sequence.
LEMMA PieceOfBytes ==
  ASSUME NEW data \in Seq(Bytes), NEW from \in Nat, NEW to \in Nat, from <= to, to <= Len(data)
  PROVE  /\ SubSeq(data, from + 1, to) \in Seq(Bytes)
         /\ Len(SubSeq(data, from + 1, to)) = to - from
         /\ \A i \in 1 .. to - from : SubSeq(data, from + 1, to)[i] = data[from + i]
  <1>1. data \in [1 .. Len(data) -> Bytes] /\ Len(data) \in Nat
    BY LenProperties
  <1>2. \A i \in from + 1 .. to : data[i] \in Bytes
    BY <1>1
  <1>3. from + 1 \in Int /\ to \in Int
    OBVIOUS
  <1>4. /\ SubSeq(data, from + 1, to) \in Seq(Bytes)
        /\ Len(SubSeq(data, from + 1, to)) = IF from + 1 <= to THEN to - (from + 1) + 1 ELSE 0
        /\ \A i \in 1 .. to - (from + 1) + 1 : SubSeq(data, from + 1, to)[i] = data[from + 1 + i - 1]
    BY <1>2, <1>3, SubSeqProperties
  <1>5. to - (from + 1) + 1 = to - from /\ \A i \in 1 .. to - from : from + 1 + i - 1 = from + i
    OBVIOUS
  <1> QED BY <1>4, <1>5

\* A sequence of that many bytes is a block.
LEMMA BlockOfBytes ==
  ASSUME NEW s \in Seq(Bytes), Len(s) = BLOCKSIZE2
  PROVE  s \in Blocks
  BY LenProperties DEF Blocks

\* The bytes of whole blocks are bytes of the text.
LEMMA PlaceInTheBlocks ==
  ASSUME NEW q \in Nat, NEW length \in Nat, q * BLOCKSIZE2 <= length,
         NEW n \in 1 .. q, NEW i \in 1 .. BLOCKSIZE2
  PROVE  (n - 1) * BLOCKSIZE2 + i \in 1 .. length
  <1> DEFINE before == (n - 1) * BLOCKSIZE2
             within == n * BLOCKSIZE2
             whole == q * BLOCKSIZE2
  <1>1. n - 1 \in Nat /\ n \in Nat /\ BLOCKSIZE2 \in Nat /\ n <= q
    BY DigestConstants
  <1>2. before \in Nat /\ within = before + BLOCKSIZE2
    <2>1. ((n - 1) + 1) * BLOCKSIZE2 = (n - 1) * BLOCKSIZE2 + 1 * BLOCKSIZE2
          /\ (n - 1) * BLOCKSIZE2 \in Nat
      BY <1>1, ProductOfASum
    <2>2. (n - 1) + 1 = n /\ 1 * BLOCKSIZE2 = BLOCKSIZE2
      BY <1>1
    <2> QED BY <2>1, <2>2
  <1>3. within <= whole /\ whole \in Nat
    BY <1>1, MultiplesGrow
  <1>4. whole <= length
    OBVIOUS
  <1> HIDE DEF before, within, whole
  <1>5. before + i \in 1 .. length
    BY <1>1, <1>2, <1>3, <1>4
  <1> QED BY <1>5 DEF before

\* A text that begins with the bytes has the blocks they have.
LEMMA BlocksOfABeginning ==
  ASSUME NEW chain \in Seq(Blocks), NEW bytes \in Seq(Bytes), NEW text,
         Len(chain) * BLOCKSIZE2 <= Len(bytes), HasBlocks(chain, bytes),
         \A p \in 1 .. Len(bytes) : text[p] = bytes[p]
  PROVE  HasBlocks(chain, text)
  <1> SUFFICES ASSUME NEW n \in 1 .. Len(chain), NEW i \in 1 .. BLOCKSIZE2
               PROVE  chain[n][i] = text[(n - 1) * BLOCKSIZE2 + i]
    BY DEF HasBlocks
  <1> DEFINE p == (n - 1) * BLOCKSIZE2 + i
  <1>1. Len(chain) \in Nat /\ Len(bytes) \in Nat
    BY LenProperties
  <1>2. p \in 1 .. Len(bytes)
    BY <1>1, PlaceInTheBlocks
  <1> HIDE DEF p
  <1>3. chain[n][i] = bytes[p]
    BY DEF HasBlocks, p
  <1> QED BY <1>2, <1>3 DEF p

\* What is added behind does not move the blocks that are there.
LEMMA BlocksStay ==
  ASSUME NEW chain \in Seq(Blocks), NEW bytes \in Seq(Bytes), NEW more \in Seq(Bytes),
         Len(chain) * BLOCKSIZE2 <= Len(bytes), HasBlocks(chain, bytes)
  PROVE  HasBlocks(chain, bytes \o more)
  <1>1. \A p \in 1 .. Len(bytes) : (bytes \o more)[p] = bytes[p]
    BY LenProperties, ConcatProperties
  <1> QED BY <1>1, BlocksOfABeginning

\* Where the bytes of a context are.
LEMMA BytesOfAContext ==
  ASSUME NEW context, NEW bytes, Holds(context, bytes)
  PROVE  /\ bytes \in Seq(Bytes) /\ Len(bytes) \in Nat
         /\ context.chained \in Seq(Blocks) /\ context.input \in Blocks
         /\ Len(context.chained) \in Nat /\ Len(context.chained) * BLOCKSIZE2 \in Nat
         /\ Len(bytes) % BLOCKSIZE2 \in 0 .. BLOCKSIZE2 - 1
         /\ Len(bytes) = Len(context.chained) * BLOCKSIZE2 + (Len(bytes) % BLOCKSIZE2)
  <1>1. /\ bytes \in Seq(Bytes) /\ context.chained \in Seq(Blocks) /\ context.input \in Blocks
        /\ Len(bytes) = Len(context.chained) * BLOCKSIZE2 + (Len(bytes) % BLOCKSIZE2)
    BY DEF Holds
  <1>2. Len(bytes) \in Nat /\ Len(context.chained) \in Nat
    BY <1>1, LenProperties
  <1>3. BLOCKSIZE2 \in Nat \ {0}
    BY DigestConstants
  <1>4. Len(bytes) % BLOCKSIZE2 \in 0 .. BLOCKSIZE2 - 1
    BY <1>2, <1>3, DivMod
  <1>5. Len(context.chained) * BLOCKSIZE2 \in Nat
    BY <1>2, <1>3
  <1> QED BY <1>1, <1>2, <1>4, <1>5

\* AddData, when the piece does not complete the block (SHA.cpp:223).
LEMMA PieceThatFits ==
  ASSUME NEW context, NEW bytes, NEW data \in Seq(Bytes), Holds(context, bytes),
         Len(data) <= MaxPiece, Len(bytes) % BLOCKSIZE2 # 0,
         Len(data) < BLOCKSIZE2 - (Len(bytes) % BLOCKSIZE2)
  PROVE  Holds(Added(context, data), bytes \o data)
  <1> DEFINE B == BLOCKSIZE2
             f == Len(bytes) % B
             q == Len(context.chained)
             start == q * B
             all == bytes \o data
             held == Overlaid(context.input, f, data)
             new == [bits |-> WordsOf(Len(all) * BitsPerByte), chained |-> context.chained,
                     input |-> held]
  <1>1. /\ B \in Nat \ {0} /\ Len(bytes) \in Nat /\ Len(data) \in Nat /\ q \in Nat
        /\ bytes \in Seq(Bytes) /\ context.chained \in Seq(Blocks) /\ context.input \in Blocks
        /\ f \in 0 .. B - 1 /\ Len(bytes) = start + f /\ start \in Nat
    BY LenProperties, DigestConstants, BytesOfAContext
  <1> HIDE DEF start
  <1>2. /\ all \in Seq(Bytes) /\ Len(all) = Len(bytes) + Len(data)
        /\ \A i \in 1 .. Len(bytes) + Len(data) :
             all[i] = IF i <= Len(bytes) THEN bytes[i] ELSE data[i - Len(bytes)]
    BY <1>1, ConcatProperties
  <1>3. Counted(context.bits, Len(data)) = WordsOf(Len(all) * BitsPerByte)
    <2>1. Len(bytes) * BitsPerByte \in Nat
          /\ Len(all) * BitsPerByte = Len(bytes) * BitsPerByte + Len(data) * BitsPerByte
      BY <1>1, <1>2, DigestConstants, ProductOfASum
    <2>2. context.bits = WordsOf(Len(bytes) * BitsPerByte)
      BY DEF Holds
    <2> QED BY <1>1, <2>1, <2>2, BitsAreCounted
  <1>4. Filled(context.bits) = f
    BY <1>1, FilledIsTheRest DEF Holds
  <1>5. Added(context, data) = [context EXCEPT !.bits = Counted(@, Len(data)),
                                               !.input = Overlaid(@, f, data)]
    <2>1. f # 0 /\ Len(data) < B - f
      OBVIOUS
    <2> HIDE DEF f
    <2> QED BY <1>4, <2>1, Zenon DEF Added
  <1>0. Len(data) < B - f
    OBVIOUS
  <1> HIDE DEF all, f
  <1>6. Added(context, data) = new
    BY <1>3, <1>5 DEF Holds
  <1>7. /\ held \in Blocks
        /\ \A i \in 1 .. B : held[i] = IF f < i /\ i <= f + Len(data) THEN data[i - f]
                                        ELSE context.input[i]
    <2>1. f + Len(data) <= BLOCKSIZE2 /\ f \in Nat
      BY <1>0, <1>1
    <2> QED BY <1>1, <2>1, OverlaidIsABlock
  <1>8. Len(all) % B = f + Len(data)
    <2> DEFINE r == f + Len(data)
    <2>1. Len(all) = start + r /\ r \in 0 .. B - 1
      BY <1>0, <1>1, <1>2
    <2> HIDE DEF r
    <2>2. Len(all) % B = r
      <3> HIDE DEF q, B
      <3>1. Len(all) = q * B + r
        BY <2>1 DEF start
      <3> QED BY <1>1, <2>1, <3>1, DivisionIsUnique
    <2> QED BY <2>2 DEF r
  <1>9. HasBlocks(context.chained, all)
    <2>1. HasBlocks(context.chained, bytes)
      BY DEF Holds
    <2>2. start <= Len(bytes)
      BY <1>1
    <2>3. HasBlocks(context.chained, bytes \o data)
      BY <1>1, <2>1, <2>2, BlocksStay DEF start
    <2> QED BY <2>3 DEF all
  <1>10. HasRest(held, f + Len(data), all)
    <2> SUFFICES ASSUME NEW i \in 1 .. f + Len(data)
                 PROVE  held[i] = all[Len(all) - (f + Len(data)) + i]
      BY DEF HasRest
    <2>1. Len(all) - (f + Len(data)) + i = start + i
      BY <1>1, <1>2
    <2>2. i \in 1 .. B /\ start + i \in 1 .. Len(bytes) + Len(data)
      BY <1>0, <1>1
    <2>3. CASE i <= f
      <3>0. ~(f < i) /\ start + i <= Len(bytes)
        BY <1>1, <2>2, <2>3
      <3>1. held[i] = context.input[i] /\ all[start + i] = bytes[start + i]
        BY <1>2, <1>7, <2>2, <3>0, Zenon
      <3>2. context.input[i] = bytes[Len(bytes) - f + i]
        BY <1>1, <2>3 DEF Holds, HasRest, f
      <3>3. Len(bytes) - f + i = start + i
        BY <1>1
      <3> QED BY <2>1, <3>1, <3>2, <3>3
    <2>4. CASE i > f
      <3>0. f < i /\ i <= f + Len(data)
        BY <1>1, <2>4
      <3>1. held[i] = data[i - f]
        BY <1>7, <2>2, <3>0, Zenon
      <3>2. all[start + i] = data[(start + i) - Len(bytes)]
        <4>1. start + i \in 1 .. Len(bytes) + Len(data) /\ ~(start + i <= Len(bytes))
          BY <1>1, <2>2, <2>4
        <4>2. \A p \in 1 .. Len(bytes) + Len(data) : ~(p <= Len(bytes)) => all[p] = data[p - Len(bytes)]
          BY <1>2, Zenon
        <4> QED BY <4>1, <4>2, Zenon
      <3>3. (start + i) - Len(bytes) = i - f
        BY <1>1
      <3> QED BY <2>1, <3>1, <3>2, <3>3
    <2> QED BY <1>1, <2>3, <2>4
  <1> HIDE DEF held
  <1>11. /\ new.bits = WordsOf(Len(all) * BitsPerByte) /\ new.chained = context.chained
         /\ new.input = held /\ new = [bits |-> new.bits, chained |-> new.chained, input |-> new.input]
    OBVIOUS
  <1> HIDE DEF new
  <1>12. Len(all) = start + (Len(all) % B)
    <2>1. Len(all) = start + (f + Len(data))
      BY <1>1, <1>2
    <2> QED BY <1>8, <2>1
  <1>13. Holds(new, all)
    BY <1>1, <1>2, <1>7, <1>8, <1>9, <1>10, <1>11, <1>12 DEF Holds, start
  <1> QED BY <1>6, <1>13 DEF all

\* AddData, when the piece completes the block begun, or none is begun: it fills
\* whole blocks, and what is left begins the next one (SHA.cpp:225).
LEMMA PieceThatCompletes ==
  ASSUME NEW context, NEW bytes, NEW data \in Seq(Bytes), Holds(context, bytes),
         Len(data) <= MaxPiece,
         \/ Len(bytes) % BLOCKSIZE2 = 0
         \/ Len(data) >= BLOCKSIZE2 - (Len(bytes) % BLOCKSIZE2)
  PROVE  Holds(Added(context, data), bytes \o data)
  <1> DEFINE B == BLOCKSIZE2
             f == Filled(context.bits)
             q == Len(context.chained)
             start == q * B
             all == bytes \o data
             room == IF f = 0 THEN 0 ELSE B - f
             whole == (Len(data) - room) \div B
             middle == whole * B
             Piece(n) == SubSeq(data, room + (n - 1) * B + 1, room + n * B)
             first == IF f = 0 THEN << >>
                      ELSE <<Overlaid(context.input, f, SubSeq(data, 1, room))>>
             pieces == [n \in 1 .. whole |-> Piece(n)]
             blocks == first \o pieces
             rest == SubSeq(data, room + middle + 1, Len(data))
             last == IF blocks = << >> THEN context.input ELSE Last(blocks)
             chain == context.chained \o blocks
             held == Overlaid(last, 0, rest)
             new == [bits |-> WordsOf(Len(all) * BitsPerByte), chained |-> chain, input |-> held]
             q1 == q + (IF f = 0 THEN 0 ELSE 1)
             joint == q1 * B
             r == (Len(data) - room) % B
  <1>4. f = Len(bytes) % B
    <2>1. Len(bytes) \in Nat
      BY BytesOfAContext
    <2> QED BY <2>1, FilledIsTheRest DEF Holds
  <1>6. Added(context, data) =
          IF f # 0 /\ Len(data) < room
          THEN [context EXCEPT !.bits = Counted(@, Len(data)), !.input = Overlaid(@, f, data)]
          ELSE [bits |-> Counted(context.bits, Len(data)), chained |-> chain, input |-> held]
    BY Zenon DEF Added
  <1>1. /\ B \in Nat \ {0} /\ Len(bytes) \in Nat /\ Len(data) \in Nat /\ q \in Nat
        /\ bytes \in Seq(Bytes) /\ context.chained \in Seq(Blocks) /\ context.input \in Blocks
        /\ f \in 0 .. B - 1 /\ Len(bytes) = start + f /\ start \in Nat
    BY <1>4, LenProperties, DigestConstants, BytesOfAContext
  <1> HIDE DEF start
  <1>2. /\ all \in Seq(Bytes) /\ Len(all) = Len(bytes) + Len(data)
        /\ \A i \in 1 .. Len(bytes) + Len(data) :
             all[i] = IF i <= Len(bytes) THEN bytes[i] ELSE data[i - Len(bytes)]
    BY <1>1, ConcatProperties
  <1>3. Counted(context.bits, Len(data)) = WordsOf(Len(all) * BitsPerByte)
    <2>1. Len(bytes) * BitsPerByte \in Nat
          /\ Len(all) * BitsPerByte = Len(bytes) * BitsPerByte + Len(data) * BitsPerByte
      <3>1. /\ Len(bytes) \in Nat /\ Len(data) \in Nat /\ BitsPerByte \in Nat
            /\ Len(all) = Len(bytes) + Len(data)
        BY <1>1, <1>2, DigestConstants
      <3> HIDE DEF all
      <3> QED BY <3>1, ProductOfASum
    <2>2. context.bits = WordsOf(Len(bytes) * BitsPerByte)
      BY DEF Holds
    <2> QED BY <1>1, <2>1, <2>2, BitsAreCounted
  <1>5. f = 0 \/ Len(data) >= B - f
    BY <1>4
  <1> HIDE DEF all, f
  <1>7. Added(context, data) = new
    <2>1. ~(f # 0 /\ Len(data) < room)
      BY <1>1, <1>5
    <2> HIDE DEF room, chain, held
    <2>2. Added(context, data) =
            [bits |-> Counted(context.bits, Len(data)), chained |-> chain, input |-> held]
      BY <1>6, <2>1, Zenon
    <2> QED BY <1>3, <2>2
  <1>8. room \in 0 .. B /\ room <= Len(data) /\ q1 \in Nat /\ joint = Len(bytes) + room
    <2>1. CASE f = 0
      <3>1. room = 0 /\ q1 = q
        BY <1>1, <2>1
      <3>2. joint = start
        BY <3>1 DEF start
      <3> QED BY <1>1, <2>1, <3>1, <3>2
    <2>2. CASE f # 0
      <3>1. room = B - f /\ q1 = q + 1
        BY <2>2
      <3>2. joint = start + B
        <4> HIDE DEF q, B
        <4>1. q \in Nat /\ B \in Nat
          BY <1>1
        <4> QED BY <3>1, <4>1 DEF start
      <3>3. q + 1 \in Nat
        BY <1>1
      <3> HIDE DEF room, q1, joint, q, B
      <3> QED BY <1>1, <1>5, <2>2, <3>1, <3>2, <3>3
    <2> QED BY <2>1, <2>2
  <1> HIDE DEF room, q1, joint
  <1>9. /\ whole \in Nat /\ r \in 0 .. B - 1 /\ middle \in Nat
        /\ Len(data) = room + middle + r
    <2>1. Len(data) - room \in Nat
      BY <1>1, <1>8
    <2>2. whole \in Nat /\ r \in 0 .. B - 1 /\ Len(data) - room = B * whole + r
      BY <1>1, <2>1, DivMod
    <2> HIDE DEF whole, r
    <2>3. middle \in Nat /\ B * whole = middle
      BY <1>1, <2>2
    <2> HIDE DEF middle
    <2> QED BY <1>1, <1>8, <2>2, <2>3
  <1> HIDE DEF whole, r, middle
  \* The whole pieces.
  <1>10. \A n \in 1 .. whole : /\ Piece(n) \in Blocks
                               /\ \A i \in 1 .. B : Piece(n)[i] = data[room + (n - 1) * B + i]
    <2> SUFFICES ASSUME NEW n \in 1 .. whole
                 PROVE  /\ Piece(n) \in Blocks
                        /\ \A i \in 1 .. B : Piece(n)[i] = data[room + (n - 1) * B + i]
      OBVIOUS
    <2> DEFINE from == room + (n - 1) * B
               to == room + n * B
    <2>1. n * B <= middle
      BY <1>1, <1>9, MultiplesGrow DEF middle
    <2>2. (n - 1) * B \in Nat /\ n * B = (n - 1) * B + B
      BY <1>1, <1>9
    <2>3. from \in Nat /\ to \in Nat /\ to = from + B /\ to <= Len(data)
      <3> DEFINE u == (n - 1) * B
                 v == n * B
      <3>1. u \in Nat /\ v = u + B /\ v <= middle
        BY <2>1, <2>2
      <3> HIDE DEF u, v
      <3>2. room + u \in Nat /\ room + v = (room + u) + B /\ room + v <= Len(data)
        BY <1>1, <1>8, <1>9, <3>1
      <3>3. room + v \in Nat
        BY <1>1, <3>2
      <3> QED BY <3>2, <3>3 DEF u, v
    <2> HIDE DEF from, to
    <2>4. /\ SubSeq(data, from + 1, to) \in Seq(Bytes)
          /\ Len(SubSeq(data, from + 1, to)) = to - from
          /\ \A i \in 1 .. to - from : SubSeq(data, from + 1, to)[i] = data[from + i]
      BY <1>1, <2>3, PieceOfBytes
    <2>5. to - from = B
      BY <1>1, <2>3
    <2>6. Piece(n) = SubSeq(data, from + 1, to)
      BY DEF from, to
    <2>7. Piece(n) \in Blocks
      BY <2>4, <2>5, <2>6, BlockOfBytes
    <2> HIDE DEF Piece
    <2>8. \A i \in 1 .. B : Piece(n)[i] = data[from + i]
      BY <2>4, <2>5, <2>6
    <2> QED BY <2>7, <2>8 DEF from
  <1> HIDE DEF Piece
  <1>11. /\ pieces \in Seq(Blocks) /\ Len(pieces) = whole
         /\ \A n \in 1 .. whole : pieces[n] = Piece(n)
    <2>1. pieces \in [1 .. whole -> Blocks]
      BY <1>10
    <2> QED BY <1>9, <2>1
  <1> HIDE DEF pieces
  \* The base begun.
  <1>12. ASSUME f # 0
         PROVE  /\ Overlaid(context.input, f, SubSeq(data, 1, room)) \in Blocks
                /\ \A i \in 1 .. B : Overlaid(context.input, f, SubSeq(data, 1, room))[i]
                                       = IF f < i THEN data[i - f] ELSE context.input[i]
    <2> DEFINE head == SubSeq(data, 0 + 1, room)
    <2>1. room = B - f /\ room \in Nat
      BY <1>1, <1>12 DEF room
    <2>2. head \in Seq(Bytes) /\ Len(head) = room - 0 /\ \A i \in 1 .. room - 0 : head[i] = data[0 + i]
      BY <1>1, <1>8, <2>1, PieceOfBytes
    <2>3. SubSeq(data, 1, room) = head
      OBVIOUS
    <2> HIDE DEF head
    <2>4. Len(head) = room /\ \A i \in 1 .. room : head[i] = data[i]
      BY <2>1, <2>2
    <2>5. f \in Nat /\ f + Len(head) = BLOCKSIZE2 /\ f + Len(head) <= BLOCKSIZE2
          /\ context.input \in Blocks
      BY <1>1, <2>1, <2>4
    <2>6. /\ Overlaid(context.input, f, head) \in Blocks
          /\ \A i \in 1 .. BLOCKSIZE2 : Overlaid(context.input, f, head)[i]
               = IF f < i /\ i <= f + Len(head) THEN head[i - f] ELSE context.input[i]
      BY <2>2, <2>5, OverlaidIsABlock
    <2>7. \A i \in 1 .. B : f < i => i - f \in 1 .. room
      BY <1>1, <2>1
    <2>8. \A i \in 1 .. B : Overlaid(context.input, f, head)[i]
            = IF f < i THEN data[i - f] ELSE context.input[i]
      BY <2>4, <2>5, <2>6, <2>7
    <2> QED BY <2>3, <2>6, <2>8
  <1>13. /\ first \in Seq(Blocks) /\ Len(first) = (IF f = 0 THEN 0 ELSE 1)
         /\ f # 0 => first[1] = Overlaid(context.input, f, SubSeq(data, 1, room))
    BY <1>12
  <1> HIDE DEF first
  <1>14. /\ blocks \in Seq(Blocks) /\ Len(blocks) = Len(first) + whole
         /\ \A n \in 1 .. Len(first) + whole :
              blocks[n] = IF n <= Len(first) THEN first[n] ELSE pieces[n - Len(first)]
    BY <1>11, <1>13, ConcatProperties
  <1> HIDE DEF blocks
  <1>15. /\ chain \in Seq(Blocks) /\ Len(chain) = q + Len(blocks)
         /\ \A n \in 1 .. q + Len(blocks) :
              chain[n] = IF n <= q THEN context.chained[n] ELSE blocks[n - q]
    <2>1. context.chained \in Seq(Blocks) /\ blocks \in Seq(Blocks)
      BY <1>1, <1>14
    <2> QED BY <2>1, ConcatProperties
  <1> HIDE DEF chain
  <1>16. Len(chain) = q1 + whole /\ q1 = q + Len(first)
    <2>1. q1 = q + Len(first)
      BY <1>1, <1>13 DEF q1
    <2>2. Len(first) \in Nat
      BY <1>13
    <2> HIDE DEF q
    <2> QED BY <1>1, <1>9, <1>14, <1>15, <2>1, <2>2
  <1>17. last \in Blocks
    <2>1. CASE blocks = << >>
      BY <1>1, <2>1
    <2>2. CASE blocks # << >>
      <3>1. Len(blocks) \in 1 .. Len(blocks) /\ blocks \in [1 .. Len(blocks) -> Blocks]
        BY <1>14, <2>2, LenProperties, EmptySeq
      <3> QED BY <2>2, <3>1 DEF Last
    <2> QED BY <2>1, <2>2
  <1> HIDE DEF last
  <1>18. /\ rest \in Seq(Bytes) /\ Len(rest) = r
         /\ \A i \in 1 .. r : rest[i] = data[room + middle + i]
    <2> DEFINE from == room + middle
    <2>1. from \in Nat /\ from <= Len(data) /\ Len(data) - from = r
      BY <1>1, <1>8, <1>9
    <2> HIDE DEF from
    <2>2. /\ SubSeq(data, from + 1, Len(data)) \in Seq(Bytes)
          /\ Len(SubSeq(data, from + 1, Len(data))) = Len(data) - from
          /\ \A i \in 1 .. Len(data) - from : SubSeq(data, from + 1, Len(data))[i] = data[from + i]
      BY <1>1, <2>1, PieceOfBytes
    <2> QED BY <2>1, <2>2 DEF from
  <1> HIDE DEF rest
  <1>19. /\ held \in Blocks
         /\ \A i \in 1 .. B : i <= r => held[i] = rest[i]
    <2>1. 0 + Len(rest) <= BLOCKSIZE2 /\ 0 \in Nat
      BY <1>1, <1>9, <1>18
    <2>2. /\ held \in Blocks
          /\ \A i \in 1 .. BLOCKSIZE2 :
               held[i] = IF 0 < i /\ i <= 0 + Len(rest) THEN rest[i - 0] ELSE last[i]
      BY <1>17, <1>18, <2>1, OverlaidIsABlock
    <2> HIDE DEF held
    <2>3. \A i \in 1 .. B : i <= r => 0 < i /\ i <= 0 + Len(rest) /\ i - 0 = i
      BY <1>9, <1>18
    <2> QED BY <2>2, <2>3
  <1> HIDE DEF held
  <1>20. Len(all) = Len(chain) * B + r /\ Len(all) % B = r
    <2> DEFINE l == Len(chain)
    <2>1. l * B = joint + middle /\ l \in Nat
      <3>1. l = q1 + whole /\ q1 \in Nat /\ whole \in Nat /\ B \in Nat
        BY <1>1, <1>8, <1>9, <1>16
      <3> HIDE DEF l
      <3> QED BY <3>1 DEF joint, middle
    <2> HIDE DEF l, B
    <2>2. Len(all) = l * B + r
      <3> DEFINE x == l * B
      <3> HIDE DEF x
      <3>1. x = joint + middle
        BY <2>1 DEF x
      <3>2. Len(all) = x + r
        BY <1>1, <1>2, <1>8, <1>9, <3>1
      <3> QED BY <3>2 DEF x
    <2>3. Len(all) % B = r
      <3>1. B \in Nat \ {0} /\ r \in 0 .. B - 1
        BY <1>1, <1>9
      <3>2. (l * B + r) % B = r
        BY <2>1, <3>1, DivisionIsUnique
      <3> QED BY <2>2, <3>2, Zenon
    <2> QED BY <2>2, <2>3 DEF l
  <1>21. HasBlocks(chain, all)
    <2> SUFFICES ASSUME NEW n \in 1 .. Len(chain), NEW i \in 1 .. B
                 PROVE  chain[n][i] = all[(n - 1) * B + i]
      BY DEF HasBlocks
    <2> DEFINE p == (n - 1) * B + i
    <2>1. (n - 1) * B \in Nat /\ n * B = (n - 1) * B + B
      BY <1>1, <1>8, <1>9, <1>16
    <2>2. n \in 1 .. q + Len(blocks)
      BY <1>15
    <2>3. CASE n <= q
      <3>1. HasBlocks(context.chained, bytes) /\ Len(context.chained) * BLOCKSIZE2 <= Len(bytes)
        BY <1>1 DEF Holds, start
      <3>2. HasBlocks(context.chained, all)
        BY <1>1, <3>1, BlocksStay DEF all
      <3>3. n \in 1 .. Len(context.chained)
        BY <1>1, <2>3
      <3>4. context.chained[n][i] = all[p]
        BY <3>2, <3>3 DEF HasBlocks
      <3> QED BY <1>15, <2>2, <2>3, <3>4
    <2>4. CASE n > q /\ n <= q1
      <3>1. f # 0 /\ n = q + 1 /\ Len(first) = 1
        <4>1. n \in Nat /\ (Len(first) = 0 \/ Len(first) = 1)
          BY <1>13
        <4> HIDE DEF q
        <4>2. q \in Nat /\ q1 = q + Len(first)
          BY <1>1, <1>16
        <4>3. Len(first) = 1 /\ n = q + 1
          <5>1. q1 \in Nat /\ n > q /\ n <= q + Len(first)
            BY <2>4, <4>1, <4>2
          <5>2. Len(first) # 0
            BY <4>1, <4>2, <5>1
          <5>3. Len(first) = 1
            BY <4>1, <5>2, Zenon
          <5>4. n <= q + 1
            BY <5>1, <5>3
          <5>5. n \in Nat /\ q \in Nat
            BY <4>1, <4>2
          <5>6. n = q + 1
            BY <5>1, <5>4, <5>5
          <5> QED BY <5>3, <5>6
        <4>4. f # 0
          <5>1. Len(first) # 0
            BY <4>3
          <5> QED BY <1>13, <5>1, Zenon
        <4> QED BY <4>3, <4>4
      <3>2. chain[n] = Overlaid(context.input, f, SubSeq(data, 1, room))
        <4>0. n - q = 1
          BY <1>1, <3>1
        <4>1. chain[n] = blocks[n - q] /\ n - q = 1
          <5>1. ~(n <= q)
            BY <3>1, <1>1
          <5> QED BY <1>15, <2>2, <5>1, <4>0, Zenon
        <4>2. blocks[1] = first[1]
          BY <1>9, <1>14, <3>1
        <4> QED BY <1>13, <3>1, <4>1, <4>2
      <3>3. chain[n][i] = IF f < i THEN data[i - f] ELSE context.input[i]
        BY <1>12, <3>1, <3>2
      <3>4. p = start + i
        <4>1. n - 1 = q
          BY <1>1, <3>1
        <4> QED BY <4>1 DEF start
      <3>5. p \in 1 .. Len(bytes) + Len(data)
        <4>1. joint = start + B
          <5>1. q1 = q + 1 /\ q \in Nat /\ B \in Nat
            BY <1>1, <1>16, <3>1
          <5> HIDE DEF q, B
          <5> QED BY <5>1 DEF joint, start
        <4> QED BY <1>1, <1>8, <3>4, <4>1
      <3>6. CASE i <= f
        <4>1. all[p] = bytes[start + i]
          <5> HIDE DEF p
          <5>1. p <= Len(bytes)
            BY <1>1, <3>4, <3>6
          <5>2. all[p] = bytes[p]
            BY <1>2, <3>5, <5>1
          <5> QED BY <3>4, <5>2
        <4>2. context.input[i] = bytes[Len(bytes) - f + i]
          BY <1>1, <1>4, <3>6 DEF Holds, HasRest
        <4>3. Len(bytes) - f + i = start + i
          BY <1>1
        <4>4. chain[n][i] = context.input[i]
          <5>1. ~(f < i) /\ f \in Nat /\ i \in Nat
            BY <1>1, <3>6
          <5> QED BY <3>3, <5>1, Zenon
        <4>5. chain[n][i] = bytes[start + i]
          BY <4>2, <4>3, <4>4, Zenon
        <4> QED BY <4>1, <4>5, Zenon
      <3>7. CASE i > f
        <4>1. all[p] = data[p - Len(bytes)]
          <5> HIDE DEF p
          <5>1. ~(p <= Len(bytes))
            BY <1>1, <3>4, <3>7
          <5> QED BY <1>2, <3>5, <5>1
        <4>2. p - Len(bytes) = i - f
          BY <1>1, <3>4
        <4> QED BY <1>1, <3>3, <3>7, <4>1, <4>2
      <3> QED BY <1>1, <3>6, <3>7
    <2>5. CASE n > q1
      <3>1. n - q1 \in 1 .. whole
        BY <1>8, <1>9, <1>16, <2>5
      <3>2. chain[n] = Piece(n - q1)
        <4>0. q \in Nat /\ q1 = q + Len(first) /\ Len(first) \in Nat /\ n \in Nat
          BY <1>1, <1>13, <1>16
        <4> HIDE DEF q
        <4>1. chain[n] = blocks[n - q]
          <5>1. ~(n <= q)
            BY <2>5, <4>0
          <5> QED BY <1>15, <2>2, <5>1, Zenon
        <4>2. n - q \in 1 .. Len(first) + whole /\ ~(n - q <= Len(first)) /\ n - q - Len(first) = n - q1
          BY <1>9, <1>14, <2>2, <2>5, <4>0
        <4>3. blocks[n - q] = pieces[n - q - Len(first)]
          BY <1>14, <4>2
        <4> QED BY <1>11, <3>1, <4>1, <4>2, <4>3
      <3>3. Piece(n - q1)[i] = data[room + (n - q1 - 1) * B + i]
        BY <1>10, <3>1
      <3>4. (n - 1) * B = joint + (n - q1 - 1) * B
        <4>1. n \in Nat /\ q1 \in Nat /\ B \in Nat
          BY <1>1, <1>8
        <4> QED BY <4>1 DEF joint
      <3>5. (n - q1) * B <= middle /\ (n - q1) * B = (n - q1 - 1) * B + B
            /\ (n - q1 - 1) * B \in Nat
        <4>1. (n - q1) * B <= middle
          BY <1>1, <1>9, <3>1, MultiplesGrow DEF middle
        <4>2. n - q1 - 1 \in Nat
          BY <1>9, <3>1
        <4>3. (n - q1 - 1) * B \in Nat
          BY <1>1, <4>2
        <4>4. (n - q1) * B = (n - q1 - 1) * B + B
          BY <1>1, <3>1
        <4> QED BY <4>1, <4>3, <4>4
      <3> DEFINE j == (n - q1 - 1) * B
      <3>6. j \in Nat /\ j + B <= middle /\ p = joint + j + i
        BY <1>9, <3>4, <3>5
      <3> HIDE DEF j, p
      <3>7. p = Len(bytes) + (room + j + i) /\ room + j + i \in 1 .. Len(data)
        BY <1>1, <1>8, <1>9, <3>6
      <3>8. all[p] = data[room + j + i]
        <4> DEFINE k == room + j + i
        <4>1. p = Len(bytes) + k /\ k \in 1 .. Len(data)
          BY <3>7
        <4> HIDE DEF k
        <4>2. p \in 1 .. Len(bytes) + Len(data) /\ ~(p <= Len(bytes)) /\ p - Len(bytes) = k
          BY <1>1, <4>1
        <4>3. all[p] = data[k]
          BY <1>2, <4>2, Zenon
        <4> QED BY <4>3 DEF k
      <3> QED BY <3>2, <3>3, <3>8 DEF j, p
    <2> QED BY <1>1, <1>8, <2>2, <2>3, <2>4, <2>5
  <1>22. HasRest(held, r, all)
    <2> SUFFICES ASSUME NEW i \in 1 .. r
                 PROVE  held[i] = all[Len(all) - r + i]
      BY DEF HasRest
    <2>1. i \in 1 .. B /\ i <= r
      BY <1>1, <1>9
    <2>2. held[i] = data[room + middle + i]
      BY <1>18, <1>19, <2>1
    <2>3. Len(all) - r + i = Len(bytes) + (room + middle + i)
      BY <1>1, <1>2, <1>8, <1>9
    <2>4. room + middle + i \in 1 .. Len(data)
      BY <1>1, <1>8, <1>9
    <2> DEFINE j == room + middle + i
    <2> HIDE DEF j
    <2>5. j \in 1 .. Len(data) /\ Len(all) - r + i = Len(bytes) + j /\ held[i] = data[j]
      BY <2>2, <2>3, <2>4 DEF j
    <2>6. all[Len(bytes) + j] = data[j]
      BY <1>1, <1>2, <2>5
    <2> QED BY <2>5, <2>6
  <1>23. /\ new.bits = WordsOf(Len(all) * BitsPerByte) /\ new.chained = chain
         /\ new.input = held /\ new = [bits |-> new.bits, chained |-> new.chained, input |-> new.input]
    OBVIOUS
  <1> HIDE DEF new
  <1>24. Holds(new, all)
    BY <1>2, <1>15, <1>19, <1>20, <1>21, <1>22, <1>23 DEF Holds
  <1> QED BY <1>7, <1>24 DEF all

\* AddData, whatever the piece.
LEMMA PieceIsAdded ==
  ASSUME NEW context, NEW bytes, NEW data \in Seq(Bytes), Holds(context, bytes),
         Len(data) <= MaxPiece
  PROVE  Holds(Added(context, data), bytes \o data)
  <1>1. Len(bytes) % BLOCKSIZE2 \in Nat /\ Len(data) \in Nat /\ BLOCKSIZE2 \in Nat
    BY LenProperties, DigestConstants, DivMod DEF Holds
  <1> QED BY <1>1, PieceThatFits, PieceThatCompletes
-----------------------------------------------------------------------------
(* FinalDigest: what it makes of a context is the message, padded.         *)

\* How many zeros a message of so many bytes needs, and its text with them.
FillerOf(n) ==
  LET short == (n + 1 + LengthBytes) % BLOCKSIZE2
  IN  IF short = 0 THEN 0 ELSE BLOCKSIZE2 - short
TextOf(bytes) ==
  bytes \o <<OneByte>> \o Zeros(FillerOf(Len(bytes)))
    \o Length(WordsOf(Len(bytes) * BitsPerByte))

\* The zeros and the length are bytes.
LEMMA FillersAreBytes ==
  ASSUME NEW n \in Nat, NEW m \in Nat
  PROVE  /\ Zeros(n) \in Seq(Bytes) /\ Len(Zeros(n)) = n
         /\ \A i \in 1 .. n : Zeros(n)[i] = ZeroByte
         /\ Length(WordsOf(m)) \in Seq(Bytes) /\ Len(Length(WordsOf(m))) = LengthBytes
  <1>1. LengthBytes \in Nat
    BY DigestConstants
  <1>2. ZeroByte \in Bytes /\ \A i \in 1 .. LengthBytes : <<"length", WordsOf(m), i>> \in Bytes
    BY DEF Bytes
  <1>3. Zeros(n) = [i \in 1 .. n |-> ZeroByte] /\ Zeros(n) \in [1 .. n -> Bytes]
    BY <1>2 DEF Zeros
  <1>4. /\ Length(WordsOf(m)) = [i \in 1 .. LengthBytes |-> <<"length", WordsOf(m), i>>]
        /\ Length(WordsOf(m)) \in [1 .. LengthBytes -> Bytes]
    BY <1>2 DEF Length
  <1> QED BY <1>1, <1>3, <1>4

\* The zeros fill the block begun up to the length, or that block and the next.
LEMMA FillerFills ==
  ASSUME NEW q \in Nat, NEW f \in 0 .. BLOCKSIZE2 - 1
  PROVE  FillerOf(q * BLOCKSIZE2 + f) =
           IF BLOCKSIZE2 - f - 1 < LengthBytes
           THEN (BLOCKSIZE2 - f - 1) + (BLOCKSIZE2 - LengthBytes)
           ELSE BLOCKSIZE2 - f - 1 - LengthBytes
  <1> DEFINE B == BLOCKSIZE2
             start == q * B
             sum == start + f + 1 + LengthBytes
  <1>1. B \in Nat \ {0} /\ LengthBytes \in Nat \ {0} /\ LengthBytes < B /\ start \in Nat
    BY DigestConstants
  <1>2. FillerOf(q * B + f) = IF sum % B = 0 THEN 0 ELSE B - (sum % B)
    BY DEF FillerOf
  <1>3. CASE B - f - 1 < LengthBytes
    <2> DEFINE r == f + 1 + LengthBytes - B
    <2>1. r \in 0 .. B - 1 /\ r # 0 /\ sum = (start + B) + r
      BY <1>1, <1>3
    <2>2. (q + 1) * B = start + B /\ q + 1 \in Nat
      BY <1>1
    <2> HIDE DEF r, sum
    <2>3. sum = (q + 1) * B + r
      BY <2>1, <2>2
    <2>4. sum % B = r
      BY <1>1, <2>1, <2>2, <2>3, DivisionIsUnique
    <2>5. B - r = (B - f - 1) + (B - LengthBytes)
      BY <1>1 DEF r
    <2> QED BY <1>2, <1>3, <2>1, <2>4, <2>5
  <1>4. CASE B - f - 1 = LengthBytes
    <2>1. sum = (start + B) + 0 /\ (q + 1) * B = start + B /\ q + 1 \in Nat /\ 0 \in 0 .. B - 1
      BY <1>1, <1>4
    <2> HIDE DEF sum
    <2>2. sum = (q + 1) * B + 0
      BY <2>1
    <2>3. sum % B = 0
      BY <1>1, <2>1, <2>2, DivisionIsUnique
    <2>4. B - f - 1 - LengthBytes = 0 /\ ~(B - f - 1 < LengthBytes)
      BY <1>1, <1>4
    <2> QED BY <1>2, <2>3, <2>4
  <1>5. CASE B - f - 1 > LengthBytes
    <2> DEFINE r == f + 1 + LengthBytes
    <2>1. r \in 0 .. B - 1 /\ r # 0 /\ sum = start + r
      BY <1>1, <1>5
    <2> HIDE DEF r, sum
    <2>2. sum = q * B + r
      BY <2>1
    <2>3. sum % B = r
      BY <1>1, <2>1, <2>2, DivisionIsUnique
    <2>4. B - r = B - f - 1 - LengthBytes /\ ~(B - f - 1 < LengthBytes)
      BY <1>1, <1>5 DEF r
    <2> QED BY <1>2, <2>1, <2>3, <2>4
  <1> QED BY <1>1, <1>3, <1>4, <1>5

\* Two sequences, one behind the other.
LEMMA TwoInARow ==
  ASSUME NEW s \in Seq(Bytes), NEW t \in Seq(Bytes), NEW m \in Nat, NEW n \in Nat,
         Len(s) = m, Len(t) = n
  PROVE  s \o t \in Seq(Bytes) /\ Len(s \o t) = m + n
  BY ConcatProperties

\* And what is where in them.
LEMMA PlaceInARow ==
  ASSUME NEW s \in Seq(Bytes), NEW t \in Seq(Bytes), NEW m \in Nat, NEW n \in Nat,
         Len(s) = m, Len(t) = n, NEW p \in 1 .. m + n
  PROVE  (s \o t)[p] = IF p <= m THEN s[p] ELSE t[p - m]
  BY ConcatProperties

\* What is where in the text.
LEMMA TextIsInOrder ==
  ASSUME NEW bytes \in Seq(Bytes), NEW z \in Nat, z = FillerOf(Len(bytes))
  PROVE  /\ TextOf(bytes) \in Seq(Bytes)
         /\ Len(TextOf(bytes)) = Len(bytes) + 1 + z + LengthBytes
         /\ \A p \in 1 .. Len(bytes) : TextOf(bytes)[p] = bytes[p]
         /\ TextOf(bytes)[Len(bytes) + 1] = OneByte
         /\ \A k \in 1 .. z : TextOf(bytes)[Len(bytes) + 1 + k] = ZeroByte
         /\ \A k \in 1 .. LengthBytes :
              TextOf(bytes)[Len(bytes) + 1 + z + k] = Length(WordsOf(Len(bytes) * BitsPerByte))[k]
  <1> DEFINE l == Len(bytes)
             zeros == Zeros(z)
             length == Length(WordsOf(l * BitsPerByte))
             one == <<OneByte>>
             a == bytes \o one
             b == a \o zeros
             c == b \o length
  <1>1. l \in Nat /\ LengthBytes \in Nat /\ l * BitsPerByte \in Nat
    BY LenProperties, DigestConstants
  <1>2. /\ zeros \in Seq(Bytes) /\ Len(zeros) = z /\ \A i \in 1 .. z : zeros[i] = ZeroByte
        /\ length \in Seq(Bytes) /\ Len(length) = LengthBytes
    BY <1>1, FillersAreBytes
  <1>3. one \in Seq(Bytes) /\ Len(one) = 1 /\ one[1] = OneByte
    BY DEF Bytes
  <1>4. TextOf(bytes) = c
    BY DEF TextOf
  <1> HIDE DEF zeros, length, one
  <1>5. /\ a \in Seq(Bytes) /\ Len(a) = l + 1
        /\ \A p \in 1 .. l + 1 : a[p] = IF p <= l THEN bytes[p] ELSE one[p - l]
    <2>1. bytes \in Seq(Bytes) /\ one \in Seq(Bytes) /\ l \in Nat /\ 1 \in Nat /\ Len(bytes) = l /\ Len(one) = 1
      BY <1>1, <1>3
    <2>2. a \in Seq(Bytes) /\ Len(a) = l + 1
      <3>1. a \in Seq(Bytes) /\ Len(a) = Len(bytes) + Len(one)
        BY <2>1, ConcatProperties, Zenon
      <3> HIDE DEF a
      <3> QED BY <2>1, <3>1
    <2>3. ASSUME NEW p \in 1 .. l + 1
          PROVE  a[p] = IF p <= l THEN bytes[p] ELSE one[p - l]
      <3>1. p \in 1 .. Len(bytes) + Len(one)
        BY <2>1
      <3>2. a[p] = IF p <= Len(bytes) THEN bytes[p] ELSE one[p - Len(bytes)]
        BY <2>1, <3>1, ConcatProperties, Zenon
      <3> HIDE DEF a, one
      <3> QED BY <2>1, <3>2
    <2> QED BY <2>2, <2>3
  <1> HIDE DEF a
  <1>6. /\ b \in Seq(Bytes) /\ Len(b) = l + 1 + z
        /\ \A p \in 1 .. l + 1 + z : b[p] = IF p <= l + 1 THEN a[p] ELSE zeros[p - (l + 1)]
    <2> DEFINE m == l + 1
    <2>1. /\ a \in Seq(Bytes) /\ zeros \in Seq(Bytes) /\ m \in Nat
          /\ Len(a) = m /\ Len(zeros) = z
      BY <1>1, <1>2, <1>5
    <2> HIDE DEF m
    <2>2. b \in Seq(Bytes) /\ Len(b) = m + z
      BY <2>1, TwoInARow
    <2>3. ASSUME NEW p \in 1 .. m + z
          PROVE  b[p] = IF p <= m THEN a[p] ELSE zeros[p - m]
      <3>1. p \in 1 .. Len(a) + Len(zeros)
        BY <2>1
      <3>2. b[p] = IF p <= Len(a) THEN a[p] ELSE zeros[p - Len(a)]
        BY <2>1, <3>1, ConcatProperties, Zenon
      <3> HIDE DEF b
      <3> QED BY <2>1, <3>2
    <2> QED BY <2>2, <2>3 DEF m
  <1> HIDE DEF b
  <1>7. /\ c \in Seq(Bytes) /\ Len(c) = l + 1 + z + LengthBytes
        /\ \A p \in 1 .. l + 1 + z + LengthBytes :
             c[p] = IF p <= l + 1 + z THEN b[p] ELSE length[p - (l + 1 + z)]
    <2> DEFINE m == l + 1 + z
    <2>1. /\ b \in Seq(Bytes) /\ length \in Seq(Bytes) /\ m \in Nat /\ LengthBytes \in Nat
          /\ Len(b) = m /\ Len(length) = LengthBytes
      BY <1>1, <1>2, <1>6
    <2> HIDE DEF m
    <2>2. c \in Seq(Bytes) /\ Len(c) = m + LengthBytes
      BY <2>1, TwoInARow
    <2>3. ASSUME NEW p \in 1 .. m + LengthBytes
          PROVE  c[p] = IF p <= m THEN b[p] ELSE length[p - m]
      BY <2>1, ConcatProperties
    <2> QED BY <2>2, <2>3 DEF m
  <1> HIDE DEF c, l
  <1>8. ASSUME NEW p \in 1 .. l
        PROVE  c[p] = bytes[p]
    <2>1. p \in 1 .. l + 1 /\ p \in 1 .. l + 1 + z /\ p \in 1 .. l + 1 + z + LengthBytes
          /\ p <= l /\ p <= l + 1 /\ p <= l + 1 + z
      BY <1>1
    <2> QED BY <1>5, <1>6, <1>7, <2>1, Zenon
  <1>9. c[l + 1] = OneByte
    <2> DEFINE p == l + 1
    <2>1. p \in 1 .. l + 1 /\ p \in 1 .. l + 1 + z /\ p \in 1 .. l + 1 + z + LengthBytes
          /\ ~(p <= l) /\ p <= l + 1 /\ p <= l + 1 + z /\ p - l = 1
      BY <1>1
    <2> HIDE DEF p
    <2>2. c[p] = one[p - l]
      BY <1>5, <1>6, <1>7, <2>1, Zenon
    <2>3. c[p] = OneByte
      BY <1>3, <2>1, <2>2, Zenon
    <2> QED BY <2>3 DEF p
  <1>10. ASSUME NEW k \in 1 .. z
         PROVE  c[l + 1 + k] = ZeroByte
    <2> DEFINE p == l + 1 + k
    <2>1. p \in 1 .. l + 1 + z /\ p \in 1 .. l + 1 + z + LengthBytes
          /\ ~(p <= l + 1) /\ p <= l + 1 + z /\ p - (l + 1) = k
      BY <1>1
    <2> HIDE DEF p
    <2>2. c[p] = zeros[p - (l + 1)]
      BY <1>6, <1>7, <2>1, Zenon
    <2>3. c[p] = ZeroByte
      BY <1>2, <2>1, <2>2, Zenon
    <2> QED BY <2>3 DEF p
  <1>11. ASSUME NEW k \in 1 .. LengthBytes
         PROVE  c[l + 1 + z + k] = length[k]
    <2> DEFINE p == l + 1 + z + k
    <2>1. p \in 1 .. l + 1 + z + LengthBytes /\ ~(p <= l + 1 + z) /\ p - (l + 1 + z) = k
      BY <1>1
    <2> HIDE DEF p
    <2>2. c[p] = length[k]
      BY <1>7, <2>1, Zenon
    <2> QED BY <2>2 DEF p
  <1> QED BY <1>4, <1>7, <1>8, <1>9, <1>10, <1>11 DEF l, length

\* Blocks that have the bytes of a text are the text, cut.
LEMMA BlocksAreTheText ==
  ASSUME NEW blocks \in Seq(Blocks), NEW text \in Seq(Bytes),
         Len(text) = Len(blocks) * BLOCKSIZE2, HasBlocks(blocks, text)
  PROVE  blocks = [n \in 1 .. Len(text) \div BLOCKSIZE2 |->
                     SubSeq(text, (n - 1) * BLOCKSIZE2 + 1, n * BLOCKSIZE2)]
  <1> DEFINE B == BLOCKSIZE2
             N == Len(blocks)
             cut == [n \in 1 .. N |-> SubSeq(text, (n - 1) * B + 1, n * B)]
  <1>1. B \in Nat \ {0} /\ N \in Nat /\ Len(text) \in Nat
    BY LenProperties, DigestConstants
  <1>2. Len(text) \div B = N
    <2> HIDE DEF N, B
    <2>1. Len(text) = N * B /\ N * B = B * N
      BY <1>1 DEF N, B
    <2>2. (B * N) \div B = N
      BY <1>1, MultMod
    <2> QED BY <2>1, <2>2, Zenon
  <1>3. ASSUME NEW n \in 1 .. N
        PROVE  blocks[n] = SubSeq(text, (n - 1) * B + 1, n * B)
    <2> DEFINE from == (n - 1) * B
               to == n * B
               piece == SubSeq(text, from + 1, to)
    <2>1. n \in Nat /\ n - 1 \in Nat /\ n <= N
      BY <1>1
    <2>2. from \in Nat /\ to = from + B
      BY <1>1, <2>1
    <2>3. to <= Len(text)
      BY <1>1, <2>1, MultiplesGrow
    <2> HIDE DEF from, to
    <2>4. piece \in Seq(Bytes) /\ Len(piece) = B /\ \A i \in 1 .. B : piece[i] = text[from + i]
      <3>1. to \in Nat /\ from <= to /\ to - from = B
        BY <1>1, <2>2
      <3>2. /\ piece \in Seq(Bytes) /\ Len(piece) = to - from
            /\ \A i \in 1 .. to - from : piece[i] = text[from + i]
        BY <2>2, <2>3, <3>1, PieceOfBytes
      <3> HIDE DEF piece
      <3> QED BY <3>1, <3>2
    <2> HIDE DEF piece
    <2>5. piece \in Blocks
      BY <2>4, BlockOfBytes
    <2>6. \A i \in 1 .. B : blocks[n][i] = piece[i]
      BY <2>4 DEF HasBlocks, from
    <2>7. blocks[n] \in Blocks
      BY <1>1
    <2>8. blocks[n] = piece
      <3>1. /\ blocks[n] = [i \in 1 .. B |-> blocks[n][i]]
            /\ piece = [i \in 1 .. B |-> piece[i]]
        BY <2>5, <2>7, Zenon DEF Blocks
      <3>2. [i \in 1 .. B |-> blocks[n][i]] = [i \in 1 .. B |-> piece[i]]
        BY <2>6, Zenon
      <3> QED BY <3>1, <3>2, Zenon
    <2> QED BY <2>8 DEF piece, from, to
  <1>4. blocks = [n \in 1 .. N |-> blocks[n]]
    BY LenProperties
  <1>5. blocks = cut
    <2> HIDE DEF N, B
    <2>1. DOMAIN cut = 1 .. N /\ \A n \in 1 .. N : cut[n] = blocks[n]
      BY <1>3
    <2> HIDE DEF cut
    <2> QED BY <1>3, <1>4 DEF cut
  <1> QED BY <1>2, <1>5

\* Blocks behind those there are.
LEMMA BlocksFollow ==
  ASSUME NEW chain \in Seq(Blocks), NEW final \in Seq(Blocks), NEW text, HasBlocks(chain, text),
         \A n \in 1 .. Len(final) : \A i \in 1 .. BLOCKSIZE2 :
           final[n][i] = text[(Len(chain) + n - 1) * BLOCKSIZE2 + i]
  PROVE  /\ chain \o final \in Seq(Blocks) /\ Len(chain \o final) = Len(chain) + Len(final)
         /\ HasBlocks(chain \o final, text)
  <1> DEFINE q == Len(chain)
             blocks == chain \o final
  <1>1. q \in Nat /\ Len(final) \in Nat /\ BLOCKSIZE2 \in Nat
    BY LenProperties, DigestConstants
  <1>2. /\ blocks \in Seq(Blocks) /\ Len(blocks) = q + Len(final)
        /\ \A n \in 1 .. q + Len(final) :
             blocks[n] = IF n <= q THEN chain[n] ELSE final[n - q]
    BY ConcatProperties
  <1> HIDE DEF blocks, q
  <1>3. ASSUME NEW n \in 1 .. Len(blocks), NEW i \in 1 .. BLOCKSIZE2
        PROVE  blocks[n][i] = text[(n - 1) * BLOCKSIZE2 + i]
    <2>1. n \in 1 .. q + Len(final)
      BY <1>2
    <2>2. CASE n <= q
      <3>1. n \in 1 .. Len(chain)
        BY <1>1, <2>2 DEF q
      <3> QED BY <1>2, <2>1, <2>2, <3>1 DEF HasBlocks
    <2>3. CASE n > q
      <3>1. n - q \in 1 .. Len(final) /\ ~(n <= q) /\ q + (n - q) - 1 = n - 1
        BY <1>1, <2>1, <2>3
      <3>2. blocks[n] = final[n - q]
        BY <1>2, <2>1, <3>1
      <3>3. final[n - q][i] = text[(q + (n - q) - 1) * BLOCKSIZE2 + i]
        BY <3>1 DEF q
      <3> QED BY <3>1, <3>2, <3>3
    <2> QED BY <1>1, <2>1, <2>2, <2>3
  <1> QED BY <1>2, <1>3 DEF HasBlocks, blocks, q

\* The one is laid behind the bytes of the block begun.
LEMMA OneIsLaid ==
  ASSUME NEW base \in Blocks, NEW f \in 0 .. BLOCKSIZE2 - 1
  PROVE  /\ Overlaid(base, f, <<OneByte>>) \in Blocks
         /\ \A i \in 1 .. BLOCKSIZE2 :
              Overlaid(base, f, <<OneByte>>)[i] = IF i = f + 1 THEN OneByte ELSE base[i]
  <1> DEFINE one == <<OneByte>>
  <1>1. one \in Seq(Bytes) /\ Len(one) = 1 /\ one[1] = OneByte
    BY DEF Bytes
  <1>2. BLOCKSIZE2 \in Nat
    BY DigestConstants
  <1> HIDE DEF one
  <1>3. f \in Nat /\ f + Len(one) <= BLOCKSIZE2
    BY <1>1, <1>2
  <1>4. /\ Overlaid(base, f, one) \in Blocks
        /\ \A i \in 1 .. BLOCKSIZE2 :
             Overlaid(base, f, one)[i] = IF f < i /\ i <= f + Len(one) THEN one[i - f] ELSE base[i]
    BY <1>1, <1>3, OverlaidIsABlock
  <1>5. ASSUME NEW i \in 1 .. BLOCKSIZE2
        PROVE  Overlaid(base, f, one)[i] = IF i = f + 1 THEN OneByte ELSE base[i]
    <2>1. f < i /\ i <= f + Len(one) <=> i = f + 1
      BY <1>1, <1>3
    <2>2. i = f + 1 => i - f = 1
      BY <1>3
    <2> QED BY <1>1, <1>4, <2>1, <2>2, Zenon
  <1> QED BY <1>4, <1>5 DEF one

\* Where the text of a context's bytes has what, from the block begun on.
LEMMA TextFromTheBlockBegun ==
  ASSUME NEW context, NEW bytes, Holds(context, bytes),
         NEW f \in 0 .. BLOCKSIZE2 - 1, NEW start \in Nat, NEW z \in Nat
  PROVE  /\ f = Len(bytes) % BLOCKSIZE2
         /\ start = Len(context.chained) * BLOCKSIZE2
         /\ z = FillerOf(Len(bytes))
         => /\ TextOf(bytes) \in Seq(Bytes)
            /\ Len(TextOf(bytes)) = start + (f + 1 + z + LengthBytes)
            /\ \A i \in 1 .. f : TextOf(bytes)[start + i] = context.input[i]
            /\ TextOf(bytes)[start + (f + 1)] = OneByte
            /\ \A i \in f + 2 .. f + 1 + z : TextOf(bytes)[start + i] = ZeroByte
            /\ \A i \in f + 2 + z .. f + 1 + z + LengthBytes :
                 TextOf(bytes)[start + i] = Length(context.bits)[i - (f + 1 + z)]
            /\ HasBlocks(context.chained, TextOf(bytes))
  <1>0. SUFFICES ASSUME f = Len(bytes) % BLOCKSIZE2,
                        start = Len(context.chained) * BLOCKSIZE2,
                        z = FillerOf(Len(bytes))
                 PROVE  /\ TextOf(bytes) \in Seq(Bytes)
                        /\ Len(TextOf(bytes)) = start + (f + 1 + z + LengthBytes)
                        /\ \A i \in 1 .. f : TextOf(bytes)[start + i] = context.input[i]
                        /\ TextOf(bytes)[start + (f + 1)] = OneByte
                        /\ \A i \in f + 2 .. f + 1 + z : TextOf(bytes)[start + i] = ZeroByte
                        /\ \A i \in f + 2 + z .. f + 1 + z + LengthBytes :
                             TextOf(bytes)[start + i] = Length(context.bits)[i - (f + 1 + z)]
                        /\ HasBlocks(context.chained, TextOf(bytes))
    OBVIOUS
  <1> DEFINE l == Len(bytes)
             text == TextOf(bytes)
             length == Length(context.bits)
  <1>1. /\ bytes \in Seq(Bytes) /\ context.chained \in Seq(Blocks) /\ l \in Nat /\ l = start + f
        /\ LengthBytes \in Nat /\ f \in Nat
    BY <1>0, BytesOfAContext, DigestConstants
  <1>2. length = Length(WordsOf(l * BitsPerByte))
    BY DEF Holds
  <1>3. /\ text \in Seq(Bytes) /\ Len(text) = l + 1 + z + LengthBytes
        /\ \A p \in 1 .. l : text[p] = bytes[p]
        /\ text[l + 1] = OneByte
        /\ \A k \in 1 .. z : text[l + 1 + k] = ZeroByte
        /\ \A k \in 1 .. LengthBytes : text[l + 1 + z + k] = length[k]
    <2>1. /\ TextOf(bytes) \in Seq(Bytes) /\ Len(TextOf(bytes)) = Len(bytes) + 1 + z + LengthBytes
          /\ \A p \in 1 .. Len(bytes) : TextOf(bytes)[p] = bytes[p]
          /\ TextOf(bytes)[Len(bytes) + 1] = OneByte
          /\ \A k \in 1 .. z : TextOf(bytes)[Len(bytes) + 1 + k] = ZeroByte
          /\ \A k \in 1 .. LengthBytes :
               TextOf(bytes)[Len(bytes) + 1 + z + k] = Length(WordsOf(Len(bytes) * BitsPerByte))[k]
      BY <1>0, <1>1, TextIsInOrder, Zenon
    <2> QED BY <1>2, <2>1, Zenon
  <1>4. HasRest(context.input, f, bytes) /\ HasBlocks(context.chained, bytes)
    BY <1>0 DEF Holds
  <1>5. HasBlocks(context.chained, text)
    <2>1. Len(context.chained) * BLOCKSIZE2 <= l
      BY <1>0, <1>1
    <2> HIDE DEF text
    <2> QED BY <1>1, <1>3, <1>4, <2>1, BlocksOfABeginning
  <1> HIDE DEF text, l, length
  <1>11. start \in Nat /\ f \in Nat /\ z \in Nat /\ LengthBytes \in Nat
    BY <1>1
  <1>6. ASSUME NEW i \in 1 .. f
        PROVE  text[start + i] = context.input[i]
    <2>1. context.input[i] = bytes[l - f + i] /\ l - f + i = start + i /\ start + i \in 1 .. l
      BY <1>1, <1>4 DEF HasRest, l
    <2> QED BY <1>3, <2>1
  <1>7. text[start + (f + 1)] = OneByte
    <2>1. start + (f + 1) = l + 1
      BY <1>1
    <2> QED BY <1>3, <2>1
  <1>8. ASSUME NEW i \in f + 2 .. f + 1 + z
        PROVE  text[start + i] = ZeroByte
    <2>1. i - (f + 1) \in 1 .. z /\ start + i = l + 1 + (i - (f + 1))
      <3>1. i - (f + 1) \in 1 .. z /\ start + i = start + f + 1 + (i - (f + 1))
        BY <1>11
      <3> QED BY <1>1, <3>1, Zenon
    <2> QED BY <1>3, <2>1
  <1>9. ASSUME NEW i \in f + 2 + z .. f + 1 + z + LengthBytes
        PROVE  text[start + i] = length[i - (f + 1 + z)]
    <2>1. i - (f + 1 + z) \in 1 .. LengthBytes /\ start + i = l + 1 + z + (i - (f + 1 + z))
      <3>1. /\ i - (f + 1 + z) \in 1 .. LengthBytes
            /\ start + i = start + f + 1 + z + (i - (f + 1 + z))
        BY <1>11
      <3> QED BY <1>1, <3>1, Zenon
    <2> QED BY <1>3, <2>1
  <1>10. Len(text) = start + (f + 1 + z + LengthBytes)
    <2>1. start + f + 1 + z + LengthBytes = start + (f + 1 + z + LengthBytes)
      BY <1>11
    <2> QED BY <1>1, <1>3, <2>1, Zenon
  <1> QED BY <1>3, <1>5, <1>6, <1>7, <1>8, <1>9, <1>10 DEF text, length

\* FinalDigest transforms the padded message: when the length has room behind
\* the one (SHA.cpp:266).
LEMMA LengthHasRoom ==
  ASSUME NEW context, NEW bytes, Holds(context, bytes),
         ~(BLOCKSIZE2 - (Len(bytes) % BLOCKSIZE2) - 1 < LengthBytes)
  PROVE  /\ FinalBlocks(context) \in Seq(Blocks)
         /\ context.chained \o FinalBlocks(context) = Padded(bytes)
         /\ FinalBlocks(context) # << >>
  <1> DEFINE B == BLOCKSIZE2
             f == Len(bytes) % B
             q == Len(context.chained)
             start == q * B
             room == B - f - 1
             z == FillerOf(Len(bytes))
             text == TextOf(bytes)
             begun == Overlaid(context.input, f, <<OneByte>>)
             zeros == Zeros(room - LengthBytes)
             length == Length(context.bits)
             behind == zeros \o length
             block1 == Overlaid(begun, f + 1, behind)
             final == <<block1>>
  <1>1. /\ B \in Nat \ {0} /\ LengthBytes \in Nat \ {0} /\ q \in Nat /\ start \in Nat
        /\ Len(bytes) \in Nat /\ f \in 0 .. B - 1 /\ Len(bytes) = start + f
        /\ context.chained \in Seq(Blocks) /\ context.input \in Blocks
    BY BytesOfAContext, DigestConstants
  <1>2. Filled(context.bits) = f
    BY <1>1, FilledIsTheRest DEF Holds
  <1>3. FinalBlocks(context) = final
    <2>1. ~(room < LengthBytes)
      OBVIOUS
    <2> HIDE DEF f
    <2>2. FinalBlocks(context) =
            IF room < LengthBytes
            THEN << Overlaid(begun, f + 1, Zeros(room)), Zeros(B - LengthBytes) \o length >>
            ELSE final
      BY <1>2, Zenon DEF FinalBlocks
    <2> HIDE DEF room, final
    <2> QED BY <2>1, <2>2, Zenon
  <1>4. z = room - LengthBytes /\ z \in Nat /\ z + LengthBytes = room /\ room \in Nat
    <2>1. z = room - LengthBytes
      BY <1>1, FillerFills
    <2>2. room - LengthBytes \in Nat /\ room \in Nat
      BY <1>1
    <2> HIDE DEF z, room
    <2> QED BY <1>1, <2>1, <2>2
  <1>5. /\ text \in Seq(Bytes)
        /\ Len(text) = start + (f + 1 + z + LengthBytes)
        /\ \A i \in 1 .. f : text[start + i] = context.input[i]
        /\ text[start + (f + 1)] = OneByte
        /\ \A i \in f + 2 .. f + 1 + z : text[start + i] = ZeroByte
        /\ \A i \in f + 2 + z .. f + 1 + z + LengthBytes :
             text[start + i] = length[i - (f + 1 + z)]
        /\ HasBlocks(context.chained, text)
    BY <1>1, <1>4, TextFromTheBlockBegun
  <1>6. /\ begun \in Blocks
        /\ \A i \in 1 .. B : begun[i] = IF i = f + 1 THEN OneByte ELSE context.input[i]
    BY <1>1, OneIsLaid
  <1>7. /\ zeros \in Seq(Bytes) /\ Len(zeros) = z /\ \A i \in 1 .. z : zeros[i] = ZeroByte
        /\ length \in Seq(Bytes) /\ Len(length) = LengthBytes
    <2>1. Len(bytes) * BitsPerByte \in Nat
      BY <1>1, DigestConstants
    <2>2. context.bits = WordsOf(Len(bytes) * BitsPerByte)
      BY DEF Holds
    <2> HIDE DEF z
    <2> QED BY <1>4, <2>1, <2>2, FillersAreBytes
  <1> HIDE DEF zeros, length, begun
  <1>8. /\ behind \in Seq(Bytes) /\ Len(behind) = z + LengthBytes
        /\ \A p \in 1 .. z + LengthBytes :
             behind[p] = IF p <= z THEN zeros[p] ELSE length[p - z]
    <2> HIDE DEF z
    <2>1. z \in Nat /\ LengthBytes \in Nat
      BY <1>1, <1>4
    <2>2. behind \in Seq(Bytes) /\ Len(behind) = z + LengthBytes
      BY <1>7, <2>1, TwoInARow
    <2>3. ASSUME NEW p \in 1 .. z + LengthBytes
          PROVE  behind[p] = IF p <= z THEN zeros[p] ELSE length[p - z]
      BY <1>7, <2>1, ConcatProperties
    <2> QED BY <2>2, <2>3
  <1> HIDE DEF behind, room, z, f, start, text
  <1>9. /\ block1 \in Blocks
        /\ \A i \in 1 .. B : block1[i] = IF f + 1 < i THEN behind[i - (f + 1)] ELSE begun[i]
    <2>1. f + 1 \in Nat /\ f + 1 + Len(behind) = B
      BY <1>1, <1>4, <1>8 DEF room
    <2>2. f + 1 + Len(behind) <= BLOCKSIZE2
      BY <2>1, <1>1
    <2>3. /\ block1 \in Blocks
          /\ \A i \in 1 .. BLOCKSIZE2 :
               block1[i] = IF f + 1 < i /\ i <= f + 1 + Len(behind) THEN behind[i - (f + 1)] ELSE begun[i]
      BY <1>6, <1>8, <2>1, <2>2, OverlaidIsABlock
    <2> HIDE DEF block1
    <2> QED BY <2>1, <2>3
  <1> HIDE DEF block1
  <1>10. ASSUME NEW i \in 1 .. B
         PROVE  block1[i] = text[start + i]
    <2>1. CASE i <= f
      <3>1. i \in 1 .. f /\ ~(f + 1 < i) /\ i # f + 1
        BY <1>1, <2>1
      <3> QED BY <1>5, <1>6, <1>9, <3>1, Zenon
    <2>2. CASE i = f + 1
      <3>1. ~(f + 1 < i)
        BY <1>1, <2>2
      <3> QED BY <1>5, <1>6, <1>9, <2>2, <3>1, Zenon
    <2>3. CASE i > f + 1 /\ i <= f + 1 + z
      <3>1. /\ i \in f + 2 .. f + 1 + z /\ f + 1 < i /\ i - (f + 1) \in 1 .. z
            /\ i - (f + 1) \in 1 .. z + LengthBytes /\ i - (f + 1) <= z
        BY <1>1, <1>4, <2>3
      <3>2. block1[i] = zeros[i - (f + 1)]
        BY <1>8, <1>9, <3>1, Zenon
      <3> QED BY <1>5, <1>7, <3>1, <3>2, Zenon
    <2>4. CASE i > f + 1 + z
      <3>1. /\ i \in f + 2 + z .. f + 1 + z + LengthBytes /\ f + 1 < i
            /\ i - (f + 1) \in 1 .. z + LengthBytes /\ ~(i - (f + 1) <= z)
            /\ (i - (f + 1)) - z = i - (f + 1 + z)
        BY <1>1, <1>4, <2>4 DEF room
      <3>2. block1[i] = length[(i - (f + 1)) - z]
        BY <1>8, <1>9, <3>1, Zenon
      <3> QED BY <1>5, <3>1, <3>2, Zenon
    <2>5. i \in Nat /\ f \in Nat /\ z \in Nat
      BY <1>1, <1>4
    <2> QED BY <2>1, <2>2, <2>3, <2>4, <2>5
  <1>11. final \in Seq(Blocks) /\ Len(final) = 1 /\ final[1] = block1 /\ final # << >>
    BY <1>9
  <1> HIDE DEF final
  <1>12. \A n \in 1 .. Len(final) : \A i \in 1 .. BLOCKSIZE2 :
           final[n][i] = text[(q + n - 1) * BLOCKSIZE2 + i]
    <2> SUFFICES ASSUME NEW n \in 1 .. Len(final), NEW i \in 1 .. B
                 PROVE  final[n][i] = text[(q + n - 1) * B + i]
      OBVIOUS
    <2>1. n = 1 /\ q + n - 1 = q
      BY <1>1, <1>11
    <2> QED BY <1>10, <1>11, <2>1 DEF start
  <1>13. /\ context.chained \o final \in Seq(Blocks)
         /\ Len(context.chained \o final) = q + 1 /\ HasBlocks(context.chained \o final, text)
    BY <1>1, <1>5, <1>11, <1>12, BlocksFollow
  <1>14. Len(text) = (q + 1) * B
    <2>1. (q + 1) * B = start + B
      <3> HIDE DEF q, B
      <3> QED BY <1>1 DEF start
    <2>2. f + 1 + z + LengthBytes = B
      BY <1>1, <1>4 DEF room
    <2> QED BY <1>5, <2>1, <2>2
  <1>15. context.chained \o final = [n \in 1 .. Len(text) \div BLOCKSIZE2 |->
                                       SubSeq(text, (n - 1) * BLOCKSIZE2 + 1, n * BLOCKSIZE2)]
    <2>1. Len(text) = Len(context.chained \o final) * BLOCKSIZE2
      BY <1>13, <1>14, Zenon
    <2> QED BY <1>5, <1>13, <2>1, BlocksAreTheText, Zenon
  <1>16. Padded(bytes) = [n \in 1 .. Len(text) \div BLOCKSIZE2 |->
                            SubSeq(text, (n - 1) * BLOCKSIZE2 + 1, n * BLOCKSIZE2)]
    BY Zenon DEF Padded, text, TextOf, FillerOf
  <1> QED BY <1>3, <1>11, <1>15, <1>16

\* And when it has none: the next block is zeros and the length (SHA.cpp:258).
LEMMA LengthHasNoRoom ==
  ASSUME NEW context, NEW bytes, Holds(context, bytes),
         BLOCKSIZE2 - (Len(bytes) % BLOCKSIZE2) - 1 < LengthBytes
  PROVE  /\ FinalBlocks(context) \in Seq(Blocks)
         /\ context.chained \o FinalBlocks(context) = Padded(bytes)
         /\ FinalBlocks(context) # << >>
  <1> DEFINE B == BLOCKSIZE2
             f == Len(bytes) % B
             q == Len(context.chained)
             start == q * B
             room == B - f - 1
             more == B - LengthBytes
             z == FillerOf(Len(bytes))
             text == TextOf(bytes)
             begun == Overlaid(context.input, f, <<OneByte>>)
             zeros == Zeros(room)
             others == Zeros(more)
             length == Length(context.bits)
             block1 == Overlaid(begun, f + 1, zeros)
             block2 == others \o length
             final == <<block1, block2>>
  <1>1. /\ B \in Nat \ {0} /\ LengthBytes \in Nat \ {0} /\ q \in Nat /\ start \in Nat
        /\ Len(bytes) \in Nat /\ f \in 0 .. B - 1 /\ Len(bytes) = start + f
        /\ context.chained \in Seq(Blocks) /\ context.input \in Blocks /\ LengthBytes < B
    BY BytesOfAContext, DigestConstants
  <1>2. Filled(context.bits) = f
    BY <1>1, FilledIsTheRest DEF Holds
  <1>3. FinalBlocks(context) = final
    <2>1. room < LengthBytes
      OBVIOUS
    <2> HIDE DEF f
    <2>2. FinalBlocks(context) =
            IF room < LengthBytes THEN final
            ELSE << Overlaid(begun, f + 1, Zeros(room - LengthBytes) \o length) >>
      BY <1>2, Zenon DEF FinalBlocks
    <2> HIDE DEF room, final
    <2> QED BY <2>1, <2>2, Zenon
  <1>4. z = room + more /\ z \in Nat /\ room \in Nat /\ more \in Nat
    <2>1. z = room + more
      BY <1>1, FillerFills
    <2>2. more \in Nat /\ room \in Nat
      BY <1>1
    <2> HIDE DEF z, room
    <2> QED BY <1>1, <2>1, <2>2
  <1>5. /\ text \in Seq(Bytes)
        /\ Len(text) = start + (f + 1 + z + LengthBytes)
        /\ \A i \in 1 .. f : text[start + i] = context.input[i]
        /\ text[start + (f + 1)] = OneByte
        /\ \A i \in f + 2 .. f + 1 + z : text[start + i] = ZeroByte
        /\ \A i \in f + 2 + z .. f + 1 + z + LengthBytes :
             text[start + i] = length[i - (f + 1 + z)]
        /\ HasBlocks(context.chained, text)
    BY <1>1, <1>4, TextFromTheBlockBegun
  <1>6. /\ begun \in Blocks
        /\ \A i \in 1 .. B : begun[i] = IF i = f + 1 THEN OneByte ELSE context.input[i]
    BY <1>1, OneIsLaid
  <1>7. /\ zeros \in Seq(Bytes) /\ Len(zeros) = room /\ \A i \in 1 .. room : zeros[i] = ZeroByte
        /\ others \in Seq(Bytes) /\ Len(others) = more /\ \A i \in 1 .. more : others[i] = ZeroByte
        /\ length \in Seq(Bytes) /\ Len(length) = LengthBytes
    <2>1. Len(bytes) * BitsPerByte \in Nat
      BY <1>1, DigestConstants
    <2>2. context.bits = WordsOf(Len(bytes) * BitsPerByte)
      BY DEF Holds
    <2> HIDE DEF z, room, more
    <2> QED BY <1>4, <2>1, <2>2, FillersAreBytes
  <1> HIDE DEF zeros, others, length, begun, z, f, start, text
  \* The block begun.
  <1>8. /\ block1 \in Blocks
        /\ \A i \in 1 .. B : block1[i] = IF f + 1 < i THEN zeros[i - (f + 1)] ELSE begun[i]
    <2>1. f + 1 \in Nat /\ f + 1 + Len(zeros) = B /\ f + 1 + Len(zeros) <= BLOCKSIZE2
      BY <1>1, <1>7
    <2>2. /\ block1 \in Blocks
          /\ \A i \in 1 .. BLOCKSIZE2 :
               block1[i] = IF f + 1 < i /\ i <= f + 1 + Len(zeros) THEN zeros[i - (f + 1)] ELSE begun[i]
      BY <1>6, <1>7, <2>1, OverlaidIsABlock
    <2> HIDE DEF block1
    <2> QED BY <2>1, <2>2
  <1> HIDE DEF block1
  <1>9. ASSUME NEW i \in 1 .. B
        PROVE  block1[i] = text[start + i]
    <2>1. CASE i <= f
      <3>1. i \in 1 .. f /\ ~(f + 1 < i) /\ i # f + 1
        BY <1>1, <2>1
      <3> QED BY <1>5, <1>6, <1>8, <3>1, Zenon
    <2>2. CASE i = f + 1
      <3>1. ~(f + 1 < i)
        BY <1>1, <2>2
      <3> QED BY <1>5, <1>6, <1>8, <2>2, <3>1, Zenon
    <2>3. CASE i > f + 1
      <3>1. i \in f + 2 .. f + 1 + z /\ f + 1 < i /\ i - (f + 1) \in 1 .. room
        BY <1>1, <1>4, <2>3
      <3>2. block1[i] = zeros[i - (f + 1)]
        BY <1>8, <3>1, Zenon
      <3> QED BY <1>5, <1>7, <3>1, <3>2, Zenon
    <2>4. i \in Nat /\ f \in Nat
      BY <1>1
    <2> QED BY <2>1, <2>2, <2>3, <2>4
  \* The block with the length.
  <1>10. /\ block2 \in Blocks
         /\ \A p \in 1 .. B : block2[p] = IF p <= more THEN others[p] ELSE length[p - more]
    <2>1. more \in Nat /\ LengthBytes \in Nat /\ more + LengthBytes = B
      BY <1>1
    <2> HIDE DEF more
    <2>2. block2 \in Seq(Bytes) /\ Len(block2) = more + LengthBytes
      <3>1. block2 \in Seq(Bytes) /\ Len(block2) = Len(others) + Len(length)
        BY <1>7, ConcatProperties, Zenon
      <3> QED BY <1>7, <3>1, Zenon
    <2>3. ASSUME NEW p \in 1 .. more + LengthBytes
          PROVE  block2[p] = IF p <= more THEN others[p] ELSE length[p - more]
      BY <1>7, <2>1, ConcatProperties
    <2> HIDE DEF block2
    <2>4. block2 \in Blocks
      BY <2>1, <2>2, BlockOfBytes
    <2> QED BY <2>1, <2>3, <2>4
  <1> HIDE DEF block2
  <1>11. ASSUME NEW i \in 1 .. B
         PROVE  block2[i] = text[(start + B) + i]
    <2> DEFINE j == B + i
    <2>1. i \in Nat /\ f \in Nat /\ j = f + 1 + (room + i)
      BY <1>1
    <2>2. text[(start + B) + i] = text[start + j]
      <3>1. (start + B) + i = start + j
        BY <1>1, <2>1
      <3> QED BY <3>1, Zenon
    <2> HIDE DEF j
    <2>3. CASE i <= more
      <3>1. j \in f + 2 .. f + 1 + z /\ i \in 1 .. more
        BY <1>1, <1>4, <2>1, <2>3
      <3> QED BY <1>5, <1>7, <1>10, <2>2, <2>3, <3>1, Zenon
    <2>4. CASE i > more
      <3>1. /\ j \in f + 2 + z .. f + 1 + z + LengthBytes /\ ~(i <= more)
            /\ j - (f + 1 + z) = i - more
        BY <1>1, <1>4, <2>1, <2>4
      <3> QED BY <1>5, <1>10, <2>2, <3>1, Zenon
    <2>5. more \in Nat
      BY <1>4
    <2> HIDE DEF more
    <2> QED BY <2>1, <2>3, <2>4, <2>5
  <1>12. final \in Seq(Blocks) /\ Len(final) = 2 /\ final[1] = block1 /\ final[2] = block2 /\ final # << >>
    BY <1>8, <1>10
  <1> HIDE DEF final
  <1>13. (q + 1) * B = start + B /\ (q + 2) * B = start + B + B
    <2> HIDE DEF q, B
    <2> QED BY <1>1 DEF start
  <1>14. \A n \in 1 .. Len(final) : \A i \in 1 .. BLOCKSIZE2 :
           final[n][i] = text[(q + n - 1) * BLOCKSIZE2 + i]
    <2> SUFFICES ASSUME NEW n \in 1 .. Len(final), NEW i \in 1 .. B
                 PROVE  final[n][i] = text[(q + n - 1) * B + i]
      OBVIOUS
    <2>1. CASE n = 1
      <3>1. q + n - 1 = q
        BY <1>1, <2>1
      <3> QED BY <1>9, <1>12, <2>1, <3>1 DEF start
    <2>2. CASE n = 2
      <3>1. q + n - 1 = q + 1
        BY <1>1, <2>2
      <3>2. (q + n - 1) * B = start + B
        BY <1>13, <3>1, Zenon
      <3> QED BY <1>11, <1>12, <2>2, <3>2, Zenon
    <2>3. n = 1 \/ n = 2
      BY <1>12
    <2> QED BY <2>1, <2>2, <2>3
  <1>15. /\ context.chained \o final \in Seq(Blocks)
         /\ Len(context.chained \o final) = q + 2 /\ HasBlocks(context.chained \o final, text)
    <2>1. /\ context.chained \o final \in Seq(Blocks)
          /\ Len(context.chained \o final) = q + Len(final)
          /\ HasBlocks(context.chained \o final, text)
      BY <1>1, <1>5, <1>12, <1>14, BlocksFollow, Zenon
    <2> QED BY <1>12, <2>1, Zenon
  <1>16. Len(text) = (q + 2) * B
    <2>1. f + 1 + z + LengthBytes = B + B
      BY <1>1, <1>4
    <2>2. start + (B + B) = start + B + B
      BY <1>1
    <2> QED BY <1>5, <1>13, <2>1, <2>2, Zenon
  <1>17. context.chained \o final = [n \in 1 .. Len(text) \div BLOCKSIZE2 |->
                                       SubSeq(text, (n - 1) * BLOCKSIZE2 + 1, n * BLOCKSIZE2)]
    <2>1. Len(text) = Len(context.chained \o final) * BLOCKSIZE2
      BY <1>15, <1>16, Zenon
    <2> QED BY <1>5, <1>15, <2>1, BlocksAreTheText, Zenon
  <1>18. Padded(bytes) = [n \in 1 .. Len(text) \div BLOCKSIZE2 |->
                            SubSeq(text, (n - 1) * BLOCKSIZE2 + 1, n * BLOCKSIZE2)]
    BY Zenon DEF Padded, text, TextOf, FillerOf
  <1> QED BY <1>3, <1>12, <1>17, <1>18

\* FinalDigest, whatever the room: the blocks are those of the padded message.
LEMMA FinalIsPadded ==
  ASSUME NEW context, NEW bytes, Holds(context, bytes)
  PROVE  /\ context.chained \o FinalBlocks(context) = Padded(bytes)
         /\ Last(FinalBlocks(context)) \in Blocks
  <1> DEFINE final == FinalBlocks(context)
  <1>1. /\ final \in Seq(Blocks) /\ final # << >>
        /\ context.chained \o final = Padded(bytes)
    BY LengthHasRoom, LengthHasNoRoom, Zenon
  <1>2. Last(final) \in Blocks
    <2> HIDE DEF final
    <2>1. Len(final) \in 1 .. Len(final) /\ final \in [1 .. Len(final) -> Blocks]
      BY <1>1, LenProperties, EmptySeq
    <2> QED BY <2>1 DEF Last
  <1> QED BY <1>1, <1>2
-----------------------------------------------------------------------------
(* The generator.                                                          *)

\* The context is that of the bytes added since the last digest, which is of
\* those added before.
DigestInv ==
  /\ taken \in Nat
  /\ Holds(Context, added)
  /\ DigestIsOfTheBytes

\* Data are bytes.
LEMMA DataAreBytes ==
  ASSUME NEW source \in Nat, NEW from \in Nat, NEW size \in Nat
  PROVE  DataBytes(source, from, size) \in Seq(Bytes) /\ Len(DataBytes(source, from, size)) = size
  <1>1. \A i \in 1 .. size : <<source, from + i>> \in Bytes
    BY DEF Bytes
  <1>2. DataBytes(source, from, size) \in [1 .. size -> Bytes]
    BY <1>1 DEF DataBytes
  <1> QED BY <1>2

\* A context without a bit holds no byte, whatever its block has.
LEMMA NothingIsHeld ==
  ASSUME NEW base \in Blocks
  PROVE  Holds([bits |-> <<0, 0, 0, 0>>, chained |-> << >>, input |-> base], << >>)
  <1> DEFINE context == [bits |-> <<0, 0, 0, 0>>, chained |-> << >>, input |-> base]
  <1>1. /\ context.bits = <<0, 0, 0, 0>> /\ context.chained = << >> /\ context.input = base
        /\ context = [bits |-> context.bits, chained |-> context.chained, input |-> context.input]
    OBVIOUS
  <1>2. WordRange \in Nat \ {0} /\ BitsPerByte \in Nat /\ BLOCKSIZE2 \in Nat \ {0}
    BY DigestConstants
  <1>3. WordsOf(0) = <<0, 0, 0, 0>>
    <2>1. 0 % WordRange = 0 /\ 0 \div WordRange = 0
      BY <1>2
    <2> QED BY <2>1, Zenon DEF WordsOf
  <1>4. << >> \in Seq(Bytes) /\ Len(<< >>) = 0 /\ << >> \in Seq(Blocks)
    OBVIOUS
  <1>5. Len(<< >>) * BitsPerByte = 0 /\ Len(<< >>) % BLOCKSIZE2 = 0 /\ Len(<< >>) * BLOCKSIZE2 = 0
    BY <1>2, <1>4
  <1> HIDE DEF context
  <1>6. HasBlocks(context.chained, << >>) /\ HasRest(context.input, 0, << >>)
    BY <1>1, <1>4 DEF HasBlocks, HasRest
  <1>7. Holds(context, << >>)
    <2>1. context.bits = WordsOf(Len(<< >>) * BitsPerByte)
      BY <1>1, <1>3, <1>5, Zenon
    <2>2. HasRest(context.input, Len(<< >>) % BLOCKSIZE2, << >>)
      BY <1>5, <1>6, Zenon
    <2>3. Len(<< >>) = Len(context.chained) * BLOCKSIZE2 + (Len(<< >>) % BLOCKSIZE2)
      BY <1>1, <1>4, <1>5
    <2>4. context.chained \in Seq(Blocks) /\ context.input \in Blocks
      BY <1>1, <1>4
    <2> QED BY <1>1, <1>4, <1>6, <2>1, <2>2, <2>3, <2>4, Zenon DEF Holds
  <1> QED BY <1>7 DEF context

\* A context is what is assigned to it.
LEMMA ContextIsSet ==
  ASSUME NEW context, context = [bits |-> context.bits, chained |-> context.chained, input |-> context.input],
         SetContext(context)
  PROVE  Context' = context
  BY DEF SetContext, Context

\* The digests follow the bytes through every step.
LEMMA DigestInvHolds ==
  /\ DigestInit => DigestInv
  /\ DigestInv /\ [DigestNext]_digestVars => DigestInv'
  <1>1. ASSUME DigestInit
        PROVE  DigestInv
    <2>1. input \in Blocks
      <3>1. ZeroByte \in Bytes
        BY DEF Bytes
      <3> QED BY <1>1, <3>1 DEF DigestInit, Blocks
    <2>2. Context = [bits |-> <<0, 0, 0, 0>>, chained |-> << >>, input |-> input] /\ added = << >>
      BY <1>1 DEF DigestInit, Context
    <2>3. Holds(Context, added)
      BY <2>1, <2>2, NothingIsHeld
    <2> QED BY <1>1, <2>3 DEF DigestInit, DigestInv, DigestIsOfTheBytes
  <1>2. ASSUME DigestInv, [DigestNext]_digestVars
        PROVE  DigestInv'
    <2>1. Holds(Context, added) /\ taken \in Nat /\ DigestIsOfTheBytes
      BY <1>2 DEF DigestInv
    <2>2. MaxPiece \in Nat /\ DigestBytes \in Nat /\ DigestBytes <= MaxPiece
      BY DigestConstants
    <2>3. CASE SetSeed
      <3>1. PICK size \in 0 .. MaxPiece :
              /\ SetContext(Added(Context, DataBytes(0, Len(added), size)))
              /\ added' = added \o DataBytes(0, Len(added), size)
        BY <2>3 DEF SetSeed
      <3> DEFINE data == DataBytes(0, Len(added), size)
                 new == Added(Context, data)
      <3>2. data \in Seq(Bytes) /\ Len(data) <= MaxPiece
        <4>1. Len(added) \in Nat /\ size \in Nat /\ size <= MaxPiece /\ 0 \in Nat
          BY <2>1, <2>2, BytesOfAContext
        <4>2. data \in Seq(Bytes) /\ Len(data) = size
          BY <4>1, DataAreBytes
        <4> HIDE DEF data
        <4> QED BY <4>1, <4>2
      <3> HIDE DEF data
      <3>3. Holds(new, added \o data)
        BY <2>1, <3>2, PieceIsAdded
      <3> HIDE DEF new
      <3>4. Context' = new
        BY <3>1, <3>3, ContextIsSet DEF Holds, data, new
      <3>5. Holds(Context, added)'
        BY <3>1, <3>3, <3>4 DEF data
      <3>6. UNCHANGED <<digest, digested, taken>>
        BY <2>3 DEF SetSeed
      <3> QED BY <2>1, <3>5, <3>6 DEF DigestInv, DigestIsOfTheBytes
    <2>4. CASE GenerateRandomInBuffer
      <3> DEFINE blocks == FinalBlocks(Context)
                 final == [Context EXCEPT !.chained = @ \o blocks, !.input = Last(blocks)]
                 data == DataBytes(taken + 1, 0, DigestBytes)
                 new == Added(Reset(final), data)
      <3>1. /\ digest' = final.chained /\ SetContext(new) /\ added' = data
            /\ digested' = added /\ taken' = taken + 1
        BY <2>4, Zenon DEF GenerateRandomInBuffer
      <3>2. Context.chained \o blocks = Padded(added) /\ Last(blocks) \in Blocks
        BY <2>1, FinalIsPadded
      <3>3. data \in Seq(Bytes) /\ Len(data) <= MaxPiece
        BY <2>1, <2>2, DataAreBytes
      <3> HIDE DEF blocks, data
      <3>4. final.chained = Context.chained \o blocks /\ final.input = Last(blocks)
        BY DEF Context
      <3>5. Reset(final) = [bits |-> <<0, 0, 0, 0>>, chained |-> << >>, input |-> Last(blocks)]
        BY <3>4 DEF Reset
      <3> HIDE DEF final
      <3>6. Holds(Reset(final), << >>)
        BY <3>2, <3>5, NothingIsHeld
      <3>7. Holds(new, << >> \o data)
        <4>1. data \in Seq(Bytes) /\ Len(data) <= MaxPiece
          BY <3>3
        <4> QED BY <3>6, <4>1, PieceIsAdded
      <3>8. << >> \o data = data
        BY <3>3, ConcatEmptySeq
      <3> HIDE DEF new
      <3>9. Holds(new, data)
        BY <3>7, <3>8, Zenon
      <3>10. Context' = new
        BY <3>1, <3>9, ContextIsSet DEF Holds
      <3>11. Holds(Context, added)'
        BY <3>1, <3>9, <3>10
      <3>12. DigestIsOfTheBytes'
        BY <3>1, <3>2, <3>4 DEF DigestIsOfTheBytes
      <3> QED BY <2>1, <3>1, <3>11, <3>12 DEF DigestInv
    <2>5. CASE UNCHANGED digestVars
      BY <2>1, <2>5 DEF digestVars, DigestInv, DigestIsOfTheBytes, Context
    <2> QED BY <1>2, <2>3, <2>4, <2>5 DEF DigestNext
  <1> QED BY <1>1, <1>2

\* Whatever the pieces the bytes come in, however long the message and whatever
\* carries its length needs, a digest is that of the padded message of the bytes
\* added since the one before: encoder and decoder, seeded alike, draw the same
\* matrices (SHA.cpp:206 and :245).
THEOREM DigestsAreOfTheBytes == DigestSpec => []DigestIsOfTheBytes
  <1>1. DigestInv => DigestIsOfTheBytes
    BY DEF DigestInv
  <1> QED BY <1>1, DigestInvHolds, PTL DEF DigestSpec

-----------------------------------------------------------------------------
(* The random pool: for every giant step, set of request sizes and bound,  *)
(* its content is the next key.                                            *)

\* The inductive invariant of the pool.
IInv ==
  /\ TypeOK
  /\ HeadInContentInPool
  /\ KeyIsConserved
  /\ PoolHoldsTheNextKey

-----------------------------------------------------------------------------
\* The fill loop writes whole blocks of key: giant step s of a fill that starts
\* at digest d is the key that follows block d * GiantStep - 1.
LEMMA FillContinuesTheKey ==
  ASSUME NEW d \in Nat, NEW i \in Nat
  PROVE  /\ FillBlock(d, i) \in Block
         /\ FillBlock(d, i) = Key!KeyBlock(d * GiantStep + i)
<1> USE PoolAssumption
<1>1. /\ i \div GiantStep \in Nat
      /\ i % GiantStep \in 0 .. GiantStep - 1
  BY DivMod
<1>2. /\ (GiantStep * d + i) \div GiantStep = d + (i \div GiantStep)
      /\ (GiantStep * d + i) % GiantStep = i % GiantStep
  BY DivShift
<1>3. GiantStep * d = d * GiantStep
  OBVIOUS
<1> QED
  BY <1>1, <1>2, <1>3 DEF FillBlock, DigestBlock, Block, Key!KeyBlock

\* A request generates a whole number of giant steps, at least what is missing.
LEMMA RealizedCoversTheRequest ==
  ASSUME NEW n \in Nat, PoolContentSize \in Nat
  PROVE  /\ RealizedRequestSize(n) \in Nat
         /\ n <= PoolContentSize + RealizedRequestSize(n)
         /\ RealizedRequestSize(n) \div GiantStep \in Nat
         /\ (RealizedRequestSize(n) \div GiantStep) * GiantStep = RealizedRequestSize(n)
<1> USE PoolAssumption
<1> DEFINE R == RealizedRequestSize(n)
<1>1. CASE n > PoolContentSize
  <2>1. /\ n - PoolContentSize \in Nat
        /\ R = LeastGreaterMultiple(n - PoolContentSize, GiantStep)
    BY <1>1 DEF RealizedRequestSize
  <2>2. R \in Nat /\ R >= n - PoolContentSize /\ R % GiantStep = 0
    BY <2>1, LGMIsLeastMultiple
  <2>3. R \div GiantStep \in Nat /\ R = GiantStep * (R \div GiantStep) + (R % GiantStep)
    BY <2>2, DivMod
  <2>4. R = (R \div GiantStep) * GiantStep
    BY <2>2, <2>3
  <2>5. n <= PoolContentSize + R
    BY <2>2
  <2> QED BY <2>2, <2>3, <2>4, <2>5
<1>2. CASE ~(n > PoolContentSize)
  <2>1. R = 0
    BY <1>2 DEF RealizedRequestSize
  <2>2. 0 \div GiantStep = 0
    OBVIOUS
  <2> QED BY <2>1, <2>2, <1>2
<1> QED BY <1>1, <1>2

\* The pool after the fill: large enough, of the right type, and holding the
\* next key up to the new content.
LEMMA FilledPoolHoldsTheNextKey ==
  ASSUME IInv, NEW n \in Nat
  PROVE  /\ GrownSize(n) \in Nat
         /\ PoolContentSize + RealizedRequestSize(n) <= GrownSize(n)
         /\ FilledPool(n) \in [0 .. GrownSize(n) - 1 -> Block \cup {Garbage}]
         /\ \A i \in 0 .. PoolContentSize + RealizedRequestSize(n) - 1 :
               FilledPool(n)[i] = Key!KeyBlock(committed + i)
<1> USE PoolAssumption DEF IInv, TypeOK, HeadInContentInPool
<1> DEFINE R == RealizedRequestSize(n)
<1>1. R \in Nat
  BY RealizedCoversTheRequest
<1>2. /\ GrownSize(n) \in Nat
      /\ PoolContentSize + R <= GrownSize(n)
      /\ \A i \in 0 .. GrownSize(n) - 1 : i < PoolContentSize => i \in 0 .. PoolSize - 1
      /\ \A i \in 0 .. GrownSize(n) - 1 : ~(i < PoolContentSize + R) => i \in 0 .. PoolSize - 1
  BY <1>1 DEF GrownSize
<1>3. ASSUME NEW i \in 0 .. GrownSize(n) - 1
      PROVE  /\ FilledPool(n)[i] \in Block \cup {Garbage}
             /\ i < PoolContentSize + R => FilledPool(n)[i] = Key!KeyBlock(committed + i)
  <2>1. CASE i < PoolContentSize
    <3>1. FilledPool(n)[i] = TempoPool[i] /\ i \in 0 .. PoolContentSize - 1
      BY <2>1, <1>2 DEF FilledPool
    <3> QED BY <3>1, <2>1, <1>2 DEF PoolHoldsTheNextKey
  <2>2. CASE PoolContentSize <= i /\ i < PoolContentSize + R
    <3>1. i - PoolContentSize \in Nat
      BY <2>2, <1>2
    <3>2. FilledPool(n)[i] = FillBlock(digests, i - PoolContentSize)
      BY <2>2, <1>1, <1>2 DEF FilledPool
    <3>3. digests * GiantStep + (i - PoolContentSize) = committed + i
      BY <1>2 DEF KeyIsConserved
    <3>4. /\ FillBlock(digests, i - PoolContentSize) \in Block
          /\ FillBlock(digests, i - PoolContentSize)
               = Key!KeyBlock(digests * GiantStep + (i - PoolContentSize))
      BY <3>1, FillContinuesTheKey
    <3> QED BY <3>2, <3>3, <3>4
  <2>3. CASE ~(i < PoolContentSize + R)
    BY <2>3, <1>1, <1>2 DEF FilledPool
  <2> QED BY <2>1, <2>2, <2>3, <1>1, <1>2
<1>4. FilledPool(n) \in [0 .. GrownSize(n) - 1 -> Block \cup {Garbage}]
  BY <1>3 DEF FilledPool
<1> QED BY <1>1, <1>2, <1>3, <1>4

\* A commit that copies forward moves the content to the front unchanged.
LEMMA ForwardCopyKeepsTheContent ==
  ASSUME IInv
  PROVE  /\ CommittedPool("forward") \in [0 .. PoolSize - 1 -> Block \cup {Garbage}]
         /\ \A i \in 0 .. (PoolContentSize - PoolHead) - 1 :
               CommittedPool("forward")[i] = Key!KeyBlock((committed + PoolHead) + i)
<1> USE DEF IInv, TypeOK, HeadInContentInPool
<1>1. \A i : CopiedFrom(i, "forward") = i + PoolHead
  BY DEF CopiedFrom
<1>2. ASSUME NEW i \in 0 .. PoolSize - 1
      PROVE  /\ CommittedPool("forward")[i] \in Block \cup {Garbage}
             /\ i < PoolContentSize - PoolHead =>
                  CommittedPool("forward")[i] = Key!KeyBlock((committed + PoolHead) + i)
  <2>1. CASE i < PoolContentSize - PoolHead
    <3>1. /\ i + PoolHead \in 0 .. PoolContentSize - 1
          /\ i + PoolHead \in 0 .. PoolSize - 1
          /\ committed + (i + PoolHead) = (committed + PoolHead) + i
      BY <2>1
    <3>2. CommittedPool("forward")[i] = TempoPool[i + PoolHead]
      BY <2>1, <1>1 DEF CommittedPool
    <3> QED BY <3>1, <3>2 DEF PoolHoldsTheNextKey
  <2>2. CASE ~(i < PoolContentSize - PoolHead)
    BY <2>2 DEF CommittedPool
  <2> QED BY <2>1, <2>2
<1>3. CommittedPool("forward") \in [0 .. PoolSize - 1 -> Block \cup {Garbage}]
  BY <1>2 DEF CommittedPool
<1> QED BY <1>2, <1>3

-----------------------------------------------------------------------------
\* The empty pool of the constructor satisfies the invariant.
LEMMA InitIInv == Init => IInv
<1> SUFFICES ASSUME Init PROVE IInv
  OBVIOUS
<1> USE PoolAssumption DEF Init
<1>1. TempoPool \in [0 .. PoolSize - 1 -> Block \cup {Garbage}]
  <2>1. 0 .. PoolSize - 1 = {} /\ 0 .. -1 = {}
    OBVIOUS
  <2> QED BY <2>1
<1>2. TypeOK
  BY <1>1 DEF TypeOK
<1>3. HeadInContentInPool /\ KeyIsConserved
  BY DEF HeadInContentInPool, KeyIsConserved
<1>4. PoolHoldsTheNextKey
  <2>1. 0 .. PoolContentSize - 1 = {}
    OBVIOUS
  <2> QED BY <2>1 DEF PoolHoldsTheNextKey
<1> QED BY <1>2, <1>3, <1>4 DEF IInv

\* A request, whether it generates key or not, keeps the invariant.
LEMMA RequestKeepsIInv ==
  ASSUME IInv, NEW n \in Sizes, RequestRandomStream(n)
  PROVE  IInv'
<1> DEFINE R == RealizedRequestSize(n)
<1>1. /\ n \in Nat
      /\ PoolContentSize \in Nat /\ digests \in Nat /\ committed \in Nat
  BY PoolAssumption DEF IInv, TypeOK
<1>2. /\ R \in Nat
      /\ n <= PoolContentSize + R
      /\ R \div GiantStep \in Nat
      /\ (R \div GiantStep) * GiantStep = R
  BY <1>1, RealizedCoversTheRequest
<1>3. /\ GrownSize(n) \in Nat
      /\ PoolContentSize + R <= GrownSize(n)
      /\ FilledPool(n) \in [0 .. GrownSize(n) - 1 -> Block \cup {Garbage}]
      /\ \A i \in 0 .. PoolContentSize + R - 1 :
            FilledPool(n)[i] = Key!KeyBlock(committed + i)
  BY <1>1, FilledPoolHoldsTheNextKey
<1>4. /\ TempoPool' = FilledPool(n)
      /\ PoolSize' = GrownSize(n)
      /\ PoolHead' = n
      /\ PoolContentSize' = PoolContentSize + R
      /\ digests' = digests + (R \div GiantStep)
      /\ committed' = committed
  BY DEF RequestRandomStream
<1>5. RequestInProcess' = TRUE
  BY DEF RequestRandomStream
<1> HIDE DEF R
<1>6. TypeOK'
  BY <1>1, <1>2, <1>3, <1>4, <1>5 DEF TypeOK, Block
<1>7. HeadInContentInPool'
  BY <1>1, <1>2, <1>3, <1>4, <1>5 DEF HeadInContentInPool
<1>8. KeyIsConserved'
  <2>1. digests' * GiantStep = digests * GiantStep + (R \div GiantStep) * GiantStep
    BY <1>1, <1>2, <1>4, PoolAssumption
  <2>2. digests' * GiantStep = digests * GiantStep + R
    BY <2>1, <1>2
  <2> QED BY <2>2, <1>1, <1>2, <1>4 DEF IInv, KeyIsConserved
<1>9. PoolHoldsTheNextKey'
  <2>1. ASSUME NEW i \in 0 .. PoolContentSize' - 1
        PROVE  TempoPool'[i] = Key!KeyBlock(committed' + i)
    <3>1. i \in 0 .. PoolContentSize + R - 1
      BY <1>1, <1>2, <1>4
    <3>2. TempoPool'[i] = Key!KeyBlock(committed + i)
      BY <3>1, <1>3, <1>4
    <3> QED BY <3>2, <1>4
  <2> QED BY <2>1 DEF PoolHoldsTheNextKey, Key!KeyBlock
<1> QED BY <1>6, <1>7, <1>8, <1>9 DEF IInv

\* A denial only moves the head back.
LEMMA DenyKeepsIInv ==
  ASSUME IInv, NEW k \in Sizes, DenyCurrentRequest(k)
  PROVE  IInv'
BY PoolAssumption
   DEF DenyCurrentRequest, IInv, TypeOK, Block, HeadInContentInPool,
       KeyIsConserved, PoolHoldsTheNextKey, Key!KeyBlock

\* A commit consumes what the head reached and shifts the rest to the front.
LEMMA CommitKeepsIInv ==
  ASSUME CopyDirections = {"forward"}, IInv, CommiteCurrentRequest
  PROVE  IInv'
<1> USE DEF CommiteCurrentRequest
<1>1. TempoPool' = CommittedPool("forward")
  OBVIOUS
<1>2. /\ CommittedPool("forward") \in [0 .. PoolSize - 1 -> Block \cup {Garbage}]
      /\ \A i \in 0 .. (PoolContentSize - PoolHead) - 1 :
            CommittedPool("forward")[i] = Key!KeyBlock((committed + PoolHead) + i)
  BY ForwardCopyKeepsTheContent
<1>3. TypeOK'
  <2>1. TempoPool' \in [0 .. PoolSize' - 1 -> Block \cup {Garbage}]
    BY <1>1, <1>2
  <2>2. /\ PoolHead' \in Nat /\ PoolContentSize' \in Nat /\ PoolSize' \in Nat
        /\ committed' \in Nat /\ digests' \in Nat
    BY DEF IInv, TypeOK, HeadInContentInPool
  <2>3. RequestInProcess' \in BOOLEAN
    BY Zenon
  <2> QED BY <2>1, <2>2, <2>3 DEF TypeOK, Block
<1>4. HeadInContentInPool'
  BY DEF IInv, TypeOK, HeadInContentInPool
<1>5. KeyIsConserved'
  BY DEF IInv, TypeOK, HeadInContentInPool, KeyIsConserved
<1>6. PoolHoldsTheNextKey'
  BY <1>1, <1>2 DEF PoolHoldsTheNextKey, Key!KeyBlock
<1> QED BY <1>3, <1>4, <1>5, <1>6 DEF IInv

\* The invariant looks at the buffer and the counters only, not at what the last
\* request returned: a refusal changes nothing it mentions.
LEMMA StutterKeepsIInv ==
  ASSUME IInv, RefuseRequest \/ NothingToFinish \/ UNCHANGED vars
  PROVE  IInv'
BY DEF RefuseRequest, NothingToFinish, vars, pool, IInv, TypeOK, Block,
       HeadInContentInPool, KeyIsConserved, PoolHoldsTheNextKey, Key!KeyBlock

\* Every step of the pool keeps the invariant.
LEMMA NextKeepsIInv ==
  ASSUME CopyDirections = {"forward"}, IInv, [Next]_vars
  PROVE  IInv'
<1>1. ASSUME NEW n \in Sizes, RequestRandomStream(n) PROVE IInv'
  BY <1>1, RequestKeepsIInv
<1>2. ASSUME NEW k \in Sizes, DenyCurrentRequest(k) PROVE IInv'
  BY <1>2, DenyKeepsIInv
<1>3. CASE CommiteCurrentRequest
  BY <1>3, CommitKeepsIInv
<1>4. CASE RefuseRequest \/ NothingToFinish \/ UNCHANGED vars
  BY <1>4, StutterKeepsIInv
<1> QED BY <1>1, <1>2, <1>3, <1>4 DEF Next

-----------------------------------------------------------------------------
\* The inductive invariant of the pool, when memcpy copies forward (or the
\* platform's memcpy is a memmove): see RandomPool!CopiedFrom.
THEOREM PoolInvariant ==
  ASSUME CopyDirections = {"forward"}
  PROVE  Spec => []IInv
<1>1. Init => IInv
  BY InitIInv
<1>2. IInv /\ [Next]_vars => IInv'
  BY NextKeepsIInv
<1> QED BY <1>1, <1>2, PTL DEF Spec

\* The variables keep their types.
THEOREM PoolTypeCorrect ==
  ASSUME CopyDirections = {"forward"}
  PROVE  Spec => []TypeOK
<1>1. IInv => TypeOK
  BY DEF IInv
<1> QED BY <1>1, PoolInvariant, PTL

\* Requests, denials and commits in any order lose, repeat and reorder no block
\* of the key (c_l_randompool.cpp:130-132).
THEOREM PoolNeverLosesKey ==
  ASSUME CopyDirections = {"forward"}
  PROVE  Spec => [](PoolHoldsTheNextKey /\ KeyIsConserved /\ HeadInContentInPool)
<1>1. IInv => PoolHoldsTheNextKey /\ KeyIsConserved /\ HeadInContentInPool
  BY DEF IInv
<1> QED BY <1>1, PoolInvariant, PTL

\* Every block the generator has made is committed or still in the pool, whatever
\* is denied and however often the buffer grows (c_l_randompool.cpp:77-109).
THEOREM PoolConservesKey ==
  ASSUME CopyDirections = {"forward"}
  PROVE  Spec => []KeyIsConserved
<1>1. IInv => KeyIsConserved
  BY DEF IInv
<1> QED BY <1>1, PoolInvariant, PTL

\* A request returns the key that follows the last commit.
LEMMA RequestReturnsTheKey ==
  ASSUME IInv, NEW n \in Sizes, RequestRandomStream(n)
  PROVE  stream' = Key!KeyBlocks(committed, n)
<1> USE PoolAssumption
<1>1. /\ n \in Nat
      /\ n <= PoolContentSize + RealizedRequestSize(n)
      /\ RealizedRequestSize(n) \in Nat
  BY RealizedCoversTheRequest DEF IInv, TypeOK
<1>2. \A i \in 1 .. n : FilledPool(n)[i - 1] = Key!KeyBlock(committed + i - 1)
  <2>1. ASSUME NEW i \in 1 .. n
        PROVE  FilledPool(n)[i - 1] = Key!KeyBlock(committed + i - 1)
    <3>1. i - 1 \in 0 .. PoolContentSize + RealizedRequestSize(n) - 1
      BY <1>1 DEF IInv, TypeOK
    <3>2. FilledPool(n)[i - 1] = Key!KeyBlock(committed + (i - 1))
      BY <3>1, <1>1, FilledPoolHoldsTheNextKey
    <3>3. committed + (i - 1) = committed + i - 1
      BY DEF IInv, TypeOK
    <3> QED BY <3>2, <3>3
  <2> QED BY <2>1
<1>3. stream' = [i \in 1 .. n |-> FilledPool(n)[i - 1]]
  BY DEF RequestRandomStream
<1> QED BY <1>2, <1>3 DEF Key!KeyBlocks

\* Every step of the pool is a step of the key stream, or none.
LEMMA StepImplementsKeyStream ==
  ASSUME IInv, [Next]_vars
  PROVE  [Key!Next]_(Key!vars)
<1>1. ASSUME NEW n \in Sizes, RequestRandomStream(n)
      PROVE  Key!Request(n)
  BY <1>1, RequestReturnsTheKey DEF RequestRandomStream, Key!Request
<1>2. ASSUME NEW k \in Sizes, DenyCurrentRequest(k)
      PROVE  Key!Deny(k)
  BY <1>2 DEF DenyCurrentRequest, Key!Deny
<1>3. CASE CommiteCurrentRequest
  BY <1>3 DEF CommiteCurrentRequest, Key!Commit, Key!Next
<1>4. CASE RefuseRequest
  BY <1>4 DEF RefuseRequest, pool, Key!Refuse, Key!Next
<1>5. CASE NothingToFinish \/ UNCHANGED vars
  BY <1>5 DEF NothingToFinish, vars, Key!vars
<1> QED
  BY <1>1, <1>2, <1>3, <1>4, <1>5 DEF Next, Key!Next

\* The pool implements the cursor over an endless key stream: buffering,
\* growing and shifting are invisible to the code matrices.
THEOREM PoolImplementsKeyStream ==
  ASSUME CopyDirections = {"forward"}
  PROVE  Spec => ImplementsKeyStream
<1>1. Init => Key!Init
  BY DEF Init, Key!Init
<1>2. IInv /\ [Next]_vars => [Key!Next]_(Key!vars)
  BY StepImplementsKeyStream
<1> QED BY <1>1, <1>2, PoolInvariant, PTL DEF Spec, ImplementsKeyStream, Key!Spec
=============================================================================
