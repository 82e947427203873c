---------------------------- MODULE MessagePath ----------------------------
(***************************************************************************)
(* The way of the message through the bit sequences: from its file into a  *)
(* sequence, cut by GetBlock into the bits of one run after the other, put *)
(* together bit by bit on the other side, and from there into a file.      *)
(* That a run carries the bits it is given is the subject of RunCoding and *)
(* WetChannel; here the runs may cut the message anywhere, and GetBlock    *)
(* has to shift what it reads across the blocks, in a loop of its own.     *)
(***************************************************************************)
EXTENDS BitSequence

CONSTANTS
  MaxBlocks,      \* bound: blocks of a message file
  MaxRun          \* bound: bits of the message one run carries

ASSUME PathAssumption == MaxBlocks \in Nat /\ MaxRun \in Nat \ {0}

VARIABLES
  mpc,            \* where the program is
  message,        \* m_MessageSequence: the blocks of the message file
  messageLength,  \* m_SequenceLength, in bits
  digester,       \* MessageDigester: bits already taken
  wanted,         \* CurrentNoOfDataRows, the BlockSize of GetBlock
  index,          \* i of the loop in GetBlock
  buffer,         \* Buffer: the block being shifted
  block,          \* Result of GetBlock
  estimation,     \* MessageEstimation of the decoder
  written         \* the file the decoder writes

messageVars == <<mpc, message, messageLength, digester, wanted, index,
                 buffer, block, estimation, written>>

NoBlocks == CommittedEmpty(0)

MessageInit ==
  /\ mpc = "start"
  /\ message = NoBlocks /\ messageLength = 0
  /\ digester = 0 /\ wanted = 0 /\ index = 0
  /\ buffer = {} /\ block = NoBlocks
  /\ estimation = NoBlocks /\ written = NoBlocks

\* The message file is read and copied into the matrix's sequence; the decoder
\* reserves room for as many bits as there are parities.
DigestSequence ==
  /\ mpc = "start"
  /\ \E n \in 0 .. MaxBlocks :
       /\ message' \in [0 .. n - 1 -> SUBSET Positions]
       /\ messageLength' = n * BLOCK_SIZE
  /\ estimation' = CommittedEmpty(MaxBlocks * BLOCK_SIZE)
  /\ mpc' = "cut"
  /\ UNCHANGED <<digester, wanted, index, buffer, block, written>>

\* GetBlock, of as many bits as the next run has data rows: never more than the
\* message has left, and none only for the run that ends it.
GetAlignedBlock ==
  /\ mpc = "cut" /\ digester % BLOCK_SIZE = 0
  /\ \E size \in 0 .. MaxRun :
       /\ digester + size <= messageLength
       /\ size = 0 => digester = messageLength
       /\ wanted' = size
       /\ block' = AlignedBlock(message, digester, size)
  /\ mpc' = "got"
  /\ UNCHANGED <<message, messageLength, digester, index, buffer, estimation, written>>

GetUnalignedBlock ==
  /\ mpc = "cut" /\ digester % BLOCK_SIZE # 0
  /\ \E size \in 1 .. MaxRun :
       /\ digester + size <= messageLength
       /\ wanted' = size
       /\ block' = CommittedEmpty(size)
  /\ buffer' = ShiftedRight(message[digester \div BLOCK_SIZE], digester % BLOCK_SIZE)
  /\ index' = digester
  /\ mpc' = "shift"
  /\ UNCHANGED <<message, messageLength, digester, estimation, written>>

\* One turn of the loop: the next block is read when its first bit is reached.
Current ==
  IF index % BLOCK_SIZE = 0 THEN message[index \div BLOCK_SIZE] ELSE buffer

ShiftBit ==
  /\ mpc = "shift" /\ index < digester + wanted
  /\ block' = IF 0 \in Current
              THEN [block EXCEPT ![(index - digester) \div BLOCK_SIZE] =
                      @ \cup {(index - (digester % BLOCK_SIZE)) % BLOCK_SIZE}]
              ELSE block
  /\ buffer' = ShiftedRight(Current, 1)
  /\ index' = index + 1
  /\ UNCHANGED <<mpc, message, messageLength, digester, wanted, estimation, written>>

ShiftEnds ==
  /\ mpc = "shift" /\ index >= digester + wanted
  /\ mpc' = "got"
  /\ UNCHANGED <<message, messageLength, digester, wanted, index, buffer, block,
                 estimation, written>>

\* The decoder sets the bits of the run that are one behind those it has; the
\* run without bits ends both programs' loops.
ReceiveBits ==
  /\ mpc = "got" /\ wanted > 0
  /\ estimation' = SetBits(estimation, digester, wanted, block)
  /\ digester' = digester + wanted
  /\ mpc' = "cut"
  /\ UNCHANGED <<message, messageLength, wanted, index, buffer, block, written>>

\* The bits received, cut to the message's length, are written as whole blocks.
SerializeSequence ==
  /\ mpc = "got" /\ wanted = 0
  /\ written' = AlignedBlock(estimation, 0, digester)
  /\ mpc' = "done"
  /\ UNCHANGED <<message, messageLength, digester, wanted, index, buffer, block,
                 estimation>>

MessageNext ==
  \/ DigestSequence
  \/ GetAlignedBlock
  \/ GetUnalignedBlock
  \/ ShiftBit
  \/ ShiftEnds
  \/ ReceiveBits
  \/ SerializeSequence

MessageSpec == MessageInit /\ [][MessageNext]_messageVars
-----------------------------------------------------------------------------
\* GetBlock returns the bits asked for, from the position on, and zeros behind
\* them: they enter the product with a code matrix as a whole block
\* (aBinarySequence.cpp:140 and :156).
BlockIsTheBits ==
  mpc = "got" =>
    /\ DOMAIN block = 0 .. BlocksOf(wanted) - 1
    /\ \A b \in DOMAIN block : \A k \in Positions :
         k \in block[b] <=>
           /\ b * BLOCK_SIZE + k < wanted
           /\ BitOf(message, digester + b * BLOCK_SIZE + k)
=============================================================================
