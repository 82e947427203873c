---------------------------- MODULE DigestStream ----------------------------
(***************************************************************************)
(* The stream side of the SHA-512 of SHA.cpp and the random generator that *)
(* feeds it: bytes are added in pieces of any length and must come out as  *)
(* the padded blocks of one message, which the compression function (left  *)
(* out: the digest is named by the blocks it has seen) turns into the      *)
(* digest.  The generator adds every digest it takes to the next message.  *)
(* The number of bits so far is kept in four machine words with carries,   *)
(* and its lowest word is also the only record of how full the block is.   *)
(***************************************************************************)
EXTENDS Naturals, Sequences, SequencesExt

CONSTANTS
  BLOCKSIZE2,     \* bytes of a block, 128 in the program
  LengthBytes,    \* of them, at the end, for the length: 16
  DigestBytes,    \* bytes of a digest, 64
  WordRange,      \* values of an unsigned int, 2^32
  BitsPerByte,    \* 8
  MaxPiece,       \* the largest int: bytes of one AddData
  MaxSeed,        \* bound: bytes of a seed
  MaxTaken        \* bound: digests taken

ASSUME DigestAssumption ==
  /\ {BLOCKSIZE2, LengthBytes, DigestBytes, WordRange, BitsPerByte} \subseteq Nat \ {0}
  /\ LengthBytes < BLOCKSIZE2
  /\ WordRange % (BitsPerByte * BLOCKSIZE2) = 0
  /\ MaxPiece \in Nat /\ MaxSeed \in Nat /\ MaxTaken \in Nat
  /\ DigestBytes <= MaxPiece
  /\ (MaxPiece * BitsPerByte) \div WordRange < WordRange - 1

VARIABLES
  dpc,            \* "seed" while the seed is added, "random" afterwards
  bits,           \* m_aoui64Bits: <<[0].right, [0].left, [1].right, [1].left>>
  input,          \* m_aucIn
  chained,        \* m_aoui64Buf, named by the blocks transformed since the reset
  digest,         \* what the last FinalDigest returned
  added,          \* history: the bytes added since the reset
  digested,       \* history: those the last digest is of
  taken           \* digests taken

digestVars == <<dpc, bits, input, chained, digest, added, digested, taken>>

ZeroByte == "00"
OneByte == "80"
Length(words) == [i \in 1 .. LengthBytes |-> <<"length", words, i>>]

\* A byte of the seed (the digest number 0) or of a digest.
DataBytes(source, from, size) == [i \in 1 .. size |-> <<source, from + i>>]

DigestInit ==
  /\ dpc = "seed"
  /\ bits = <<0, 0, 0, 0>>
  /\ input = [i \in 1 .. BLOCKSIZE2 |-> ZeroByte]
  /\ chained = << >> /\ digest = << >>
  /\ added = << >> /\ digested = << >>
  /\ taken = 0
-----------------------------------------------------------------------------
\* The bit count, word by word.  `uiU' is the second word before the carry into
\* it, so that one comparison sees either overflow.
\* (Mutant: the carry of the lowest word is not added.)
CountedWithoutCarry(words, size) ==
  LET right == (words[1] + size * BitsPerByte) % WordRange
      left  == (words[2] + (size * BitsPerByte) \div WordRange) % WordRange
      next  == (words[3] + (IF left < words[2] THEN 1 ELSE 0)) % WordRange
      last  == (words[4] + (IF next < words[3] THEN 1 ELSE 0)) % WordRange
  IN  <<right, left, next, last>>
Counted(words, size) ==
  LET right == (words[1] + size * BitsPerByte) % WordRange
      carry == IF right < words[1] THEN 1 ELSE 0
      left  == (words[2] + carry + (size * BitsPerByte) \div WordRange) % WordRange
      next  == (words[3] + (IF left < words[2] THEN 1 ELSE 0)) % WordRange
      last  == (words[4] + (IF next < words[3] THEN 1 ELSE 0)) % WordRange
  IN  <<right, left, next, last>>

Filled(words) == (words[1] \div BitsPerByte) % BLOCKSIZE2

Overlaid(block, at, bytes) ==
  [i \in DOMAIN block |->
     IF i \in at + 1 .. at + Len(bytes) THEN bytes[i - at] ELSE block[i]]

(* AddData: the piece completes the block begun, fills whole blocks, and   *)
(* what is left starts the next one.  Bytes of the last block that the     *)
(* rest does not reach stay where they are.                                *)
Added(context, data) ==
  LET filled == Filled(context.bits)
      room   == IF filled = 0 THEN 0 ELSE BLOCKSIZE2 - filled
      whole  == (Len(data) - room) \div BLOCKSIZE2
      Piece(n) == SubSeq(data, room + (n - 1) * BLOCKSIZE2 + 1, room + n * BLOCKSIZE2)
      first  == IF filled = 0 THEN << >>
                ELSE <<Overlaid(context.input, filled, SubSeq(data, 1, room))>>
      blocks == first \o [n \in 1 .. whole |-> Piece(n)]
      rest   == SubSeq(data, room + whole * BLOCKSIZE2 + 1, Len(data))
  IN  IF filled # 0 /\ Len(data) < room
      THEN [context EXCEPT !.bits = Counted(@, Len(data)),
                           !.input = Overlaid(@, filled, data)]
      ELSE [bits    |-> Counted(context.bits, Len(data)),
            chained |-> context.chained \o blocks,
            input   |-> Overlaid(IF blocks = << >> THEN context.input
                                 ELSE Last(blocks), 0, rest)]

(* FinalDigest: a one, zeros and the length; when the length does not fit  *)
(* behind the one, the block goes without it and another one follows.      *)
Zeros(n) == [i \in 1 .. n |-> ZeroByte]
\* (Mutant: a block with exactly the room of the length is taken for too full.)
FinalBlocksLate(context) ==
  LET filled == Filled(context.bits)
      room   == BLOCKSIZE2 - filled - 1
      begun  == Overlaid(context.input, filled, <<OneByte>>)
  IN  IF room <= LengthBytes
      THEN << Overlaid(begun, filled + 1, Zeros(room)),
              Zeros(BLOCKSIZE2 - LengthBytes) \o Length(context.bits) >>
      ELSE << Overlaid(begun, filled + 1,
                       Zeros(room - LengthBytes) \o Length(context.bits)) >>
FinalBlocks(context) ==
  LET filled == Filled(context.bits)
      room   == BLOCKSIZE2 - filled - 1
      begun  == Overlaid(context.input, filled, <<OneByte>>)
  IN  IF room < LengthBytes
      THEN << Overlaid(begun, filled + 1, Zeros(room)),
              Zeros(BLOCKSIZE2 - LengthBytes) \o Length(context.bits) >>
      ELSE << Overlaid(begun, filled + 1,
                       Zeros(room - LengthBytes) \o Length(context.bits)) >>

Context == [bits |-> bits, chained |-> chained, input |-> input]
SetContext(context) ==
  /\ bits' = context.bits /\ chained' = context.chained /\ input' = context.input

\* Reset, at the end of FinalDigest: the count and the chain, not the block.
Reset(context) == [bits |-> <<0, 0, 0, 0>>, chained |-> << >>, input |-> context.input]
-----------------------------------------------------------------------------
\* The seed may come in any number of pieces.
SetSeed ==
  /\ dpc = "seed"
  /\ \E size \in 0 .. MaxPiece :
       /\ Len(added) + size <= MaxSeed
       /\ LET data == DataBytes(0, Len(added), size)
          IN  /\ SetContext(Added(Context, data))
              /\ added' = added \o data
  /\ UNCHANGED <<dpc, digest, digested, taken>>

\* One digest is taken, and added to the next message at once.
GenerateRandomInBuffer ==
  /\ taken < MaxTaken
  /\ LET blocks == FinalBlocks(Context)
         final  == [Context EXCEPT !.chained = @ \o blocks, !.input = Last(blocks)]
         data   == DataBytes(taken + 1, 0, DigestBytes)
     IN  /\ digest' = final.chained
         /\ SetContext(Added(Reset(final), data))
         /\ added' = data
  /\ digested' = added
  /\ taken' = taken + 1
  /\ dpc' = "random"

DigestNext == SetSeed \/ GenerateRandomInBuffer

DigestSpec == DigestInit /\ [][DigestNext]_digestVars
-----------------------------------------------------------------------------
\* What the standard says of a message: its bytes, a one, the fewest zeros that
\* leave the length at the end of a block.
WordsOf(n) ==
  LET Carried(k) == k \div WordRange
  IN  <<n % WordRange, Carried(n) % WordRange, Carried(Carried(n)) % WordRange,
        Carried(Carried(Carried(n))) % WordRange>>
Padded(bytes) ==
  LET short == (Len(bytes) + 1 + LengthBytes) % BLOCKSIZE2
      text  == bytes \o <<OneByte>>
                 \o Zeros(IF short = 0 THEN 0 ELSE BLOCKSIZE2 - short)
                 \o Length(WordsOf(Len(bytes) * BitsPerByte))
  IN  [n \in 1 .. Len(text) \div BLOCKSIZE2 |->
         SubSeq(text, (n - 1) * BLOCKSIZE2 + 1, n * BLOCKSIZE2)]

\* A digest is of the bytes added since the one before, in order, whatever the
\* pieces they were added in: encoder and decoder seed their generators alike
\* and would otherwise multiply by different matrices.
DigestIsOfTheBytes == taken > 0 => digest = Padded(digested)
=============================================================================
