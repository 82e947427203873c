---------------------------- MODULE EntropyBits ----------------------------
(***************************************************************************)
(* What all the entropy coders of libjpeg share: the bits on their way     *)
(* into the bytes of a scan (jchuff.c, jcphuff.c) and out of them          *)
(* (jdhuff.c, jdhuff.h), Huffman symbols and the values behind them, and   *)
(* the restart markers between the segments of a scan (jdmarker.c).        *)
(***************************************************************************)
EXTENDS HuffmanCode, SequencesExt

CONSTANTS
  DCTable, ACTable,  \* the Huffman tables of all components
  DCTSIZE2,          \* coefficients of a block, 64 in the program
  MaxZeros,          \* the longest run of zeros a symbol names, 15
  ByteBits,          \* bits of a byte, 8
  MIN_GET_BITS,      \* bits the reader tries to hold, 25
  Restarts,          \* the number of restart markers before they repeat, 8
  Intervals          \* restart intervals a file may have (0: no restarts)

VARIABLES
  interval,    \* restart_interval
  file         \* the bytes of the scan

\* A byte is the string of its bits, a marker's second byte a string of one
\* number: no data byte that follows FF is one.
FF == [i \in 1 .. ByteBits |-> 1]
Stuffed == [i \in 1 .. ByteBits |-> 0]
RST(n) == <<n % Restarts>>
EOI == <<Restarts>>
None == << >>
-----------------------------------------------------------------------------
(* The encoders.                                                           *)

\* Bits gather in put_buffer until they are a byte; a byte of ones is followed
\* by a zero byte, so that the reader does not take it for a marker.
\* (Mutant: no zero byte follows.)
EmittedBare(state, string) ==
  LET all   == state.put_buffer \o string
      whole == Len(all) \div ByteBits
      byte(n) == SubSeq(all, (n - 1) * ByteBits + 1, n * ByteBits)
  IN  [state EXCEPT
        !.put_buffer = SubSeq(all, whole * ByteBits + 1, Len(all)),
        !.out = @ \o [n \in 1 .. whole |-> byte(n)]]
Emitted(state, string) ==
  LET all   == state.put_buffer \o string
      whole == Len(all) \div ByteBits
      byte(n) == SubSeq(all, (n - 1) * ByteBits + 1, n * ByteBits)
  IN  [state EXCEPT
        !.put_buffer = SubSeq(all, whole * ByteBits + 1, Len(all)),
        !.out = @ \o FlattenSeq([n \in 1 .. whole |->
                       IF byte(n) = FF THEN <<FF, Stuffed>> ELSE <<byte(n)>>])]

\* flush_bits: the partial byte is filled with ones and what does not fit is forgotten.
Flushed(state) ==
  [Emitted(state, Tail(FF)) EXCEPT !.put_buffer = << >>]

Magnitude(value) == IF value < 0 THEN -value ELSE value
NoOfBits(value) == CHOOSE n \in 0 .. Magnitude(value) :
                     2 ^ n > Magnitude(value) /\ (n > 0 => 2 ^ (n - 1) <= Magnitude(value))
\* The bits of a value: of one less, in two's complement, when it is negative.
ValueBits(value) ==
  BitsOf((IF value < 0 THEN value - 1 ELSE value) % 2 ^ NoOfBits(value), NoOfBits(value))

\* The difference to the last DC value of the component.
EncodedDC(state, difference) ==
  Emitted(state, CodeOf(DCTable, NoOfBits(difference)) \o ValueBits(difference))

\* An AC coefficient behind a run of r zeros: runs that are too long for one
\* symbol begin with symbols for one zero more than it can name.
EncodedAC(state, value, r) ==
  Emitted(state,
    FlattenSeq([n \in 1 .. r \div (MaxZeros + 1) |-> CodeOf(ACTable, <<MaxZeros, 0>>)])
      \o CodeOf(ACTable, <<r % (MaxZeros + 1), NoOfBits(value)>>) \o ValueBits(value))

RestartDue(state) == interval > 0 /\ state.restarts_to_go = 0

\* The restart state of an encoder behind an MCU.
CountedDown(state, restarted) ==
  CASE interval = 0 -> state
    [] restarted -> [state EXCEPT !.restarts_to_go = interval - 1,
                                  !.next_restart_num = (@ + 1) % Restarts]
    [] OTHER -> [state EXCEPT !.restarts_to_go = @ - 1]

-----------------------------------------------------------------------------
(* The decoders.                                                           *)

\* fill_input_buffer never suspends: behind the end of the file comes FF, EOI.
Byte(at) ==
  IF at <= Len(file) THEN file[at]
  ELSE IF (at - Len(file)) % 2 = 1 THEN FF ELSE EOI

\* The first byte from here that is no FF.
PastFF(at) ==
  CHOOSE p \in at .. Len(file) + 2 + at :
    Byte(p) # FF /\ \A q \in at .. p - 1 : Byte(q) = FF

\* One turn of the loop of jpeg_fill_bit_buffer: a byte, an FF that was stuffed, or
\* a marker; p is the first byte behind that is no FF.
LoadedFF(d, p) ==
  IF Byte(p) = Stuffed THEN [d EXCEPT !.get_buffer = @ \o FF, !.at = p + 1]
  ELSE [d EXCEPT !.unread = Byte(p), !.at = p + 1]
Loaded(d) ==
  IF Byte(d.at) # FF THEN [d EXCEPT !.get_buffer = @ \o Byte(d.at), !.at = @ + 1]
  ELSE LoadedFF(d, PastFF(d.at + 1))

LoadedOn(d) ==
  IF d.unread = None /\ Len(d.get_buffer) < MIN_GET_BITS THEN Loaded(d) ELSE d
LoadedFull(d) ==
  LET turn[n \in 0 .. MIN_GET_BITS] == IF n = 0 THEN d ELSE LoadedOn(turn[n - 1])
  IN  turn[MIN_GET_BITS]

\* With a marker ahead and too few bits in front of it, zeros follow, and the
\* decoder has warned.
ZerosSupplied(full, nbits) ==
  IF full.unread # None /\ nbits > Len(full.get_buffer)
  THEN [full EXCEPT
         !.get_buffer = @ \o [i \in 1 .. MIN_GET_BITS - Len(@) |-> 0],
         !.insufficient_data = TRUE, !.warned = TRUE]
  ELSE full
FillBitBuffer(d, nbits) == ZerosSupplied(LoadedFull(d), nbits)

CheckBitBuffer(d, nbits) ==
  IF Len(d.get_buffer) < nbits THEN FillBitBuffer(d, nbits) ELSE d
Peeked(d, nbits) == SubSeq(d.get_buffer, 1, nbits)
Dropped(d, nbits) ==
  [d EXCEPT !.get_buffer = SubSeq(@, nbits + 1, Len(@))]

\* jpeg_huff_decode: bit by bit, from a code of l bits on.  A code longer than
\* any is taken for the symbol zero, with a warning.  <<decoder, symbol>>
HuffDecoded(d, table, l, zero) ==
  IF l > MaxCodeLength THEN <<[Dropped(d, l) EXCEPT !.warned = TRUE], zero>>
  ELSE <<Dropped(d, l), SymbolAt(table, l, ValueOf(Peeked(d, l)))>>
HuffDecodeFrom(d, table, l, zero) ==
  LET held[m \in l .. MaxCodeLength + 1] ==
        IF m = l THEN d ELSE CheckBitBuffer(held[m - 1], m)
      IsCode(m) == m <= MaxCodeLength => ValueOf(Peeked(held[m], m)) <= MaxCode(table, m)
      m == CHOOSE m \in l .. MaxCodeLength + 1 : IsCode(m) /\ \A k \in l .. m - 1 : ~IsCode(k)
  IN  HuffDecoded(held[m], table, m, zero)

\* HUFF_DECODE: the lookahead, where there are bits for it, or else the above.
LookedUp(d, table, zero) ==
  LET short == Len(d.get_buffer) < HUFF_LOOKAHEAD
      found == IF short THEN {} ELSE Lookahead(table, Peeked(d, HUFF_LOOKAHEAD))
      p     == CHOOSE p \in found : TRUE
      nb    == IF short THEN 1 ELSE HUFF_LOOKAHEAD + 1
  IN  IF found # {} THEN <<Dropped(d, table[p].length), table[p].symbol>>
      ELSE HuffDecodeFrom(CheckBitBuffer(d, nb), table, nb, zero)
HuffDecode(d, table, zero) ==
  LookedUp(IF Len(d.get_buffer) < HUFF_LOOKAHEAD THEN FillBitBuffer(d, 0) ELSE d, table, zero)

\* The next bits, as the number they are.  <<decoder, number>>
TakenBits(d, nbits) == <<Dropped(d, nbits), ValueOf(Peeked(d, nbits))>>
NextBits(d, nbits) == TakenBits(CheckBitBuffer(d, nbits), nbits)

\* HUFF_EXTEND of s bits.  <<decoder, value>>
\* (Mutant: the values of s bits that are negative are one too low.)
ExtendedLow(read, s) ==
  <<read[1], IF read[2] < 2 ^ (s - 1) THEN read[2] - 2 ^ s ELSE read[2]>>
Extended(read, s) ==
  <<read[1], IF read[2] < 2 ^ (s - 1) THEN read[2] - 2 ^ s + 1 ELSE read[2]>>
NextValue(d, s) == IF s = 0 THEN <<d, 0>> ELSE Extended(NextBits(d, s), s)

\* The DC value of a component, from the difference to its last one.
Predicted(read, ci) == [read[1] EXCEPT !.last_dc_val[ci] = @ + read[2]]
DecodedDC(d, ci) ==
  LET symbol == HuffDecode(d, DCTable, 0)
  IN  Predicted(NextValue(symbol[1], symbol[2]), ci)

\* The natural order maps places behind the last one, which damaged data may
\* reach, to the last.
Place(k) == IF k > DCTSIZE2 THEN DCTSIZE2 ELSE k
ZeroBlock == [k \in 1 .. DCTSIZE2 |-> 0]

\* next_marker: garbage is skipped up to an FF that a stuffed byte does not
\* follow.
NextMarker(d) ==
  LET p == CHOOSE p \in d.at + 1 .. Len(file) + d.at + 3 :
             /\ Byte(p - 1) = FF /\ Byte(p) \notin {FF, Stuffed}
             /\ \A q \in d.at + 1 .. p - 1 : Byte(q - 1) = FF => Byte(q) \in {FF, Stuffed}
  IN  [d EXCEPT !.unread = Byte(p), !.at = p + 1]

\* jpeg_resync_to_restart: a marker of the next two segments stays, as does the
\* end of the image; one of the last two is skipped with what follows it; any
\* other is swallowed.
\* (Mutant: a marker of a segment to come is swallowed, too.)
SkippedOne(d, desired) ==
  IF d.unread \in {RST(desired + Restarts - 1), RST(desired + Restarts - 2)}
  THEN NextMarker(d) ELSE d
Skipped(d, desired) ==
  LET turn[n \in 0 .. Len(file) + 1] ==
        IF n = 0 THEN d ELSE SkippedOne(turn[n - 1], desired)
  IN  turn[Len(file) + 1]
SwallowedUnless(d, staying) == IF d.unread \in staying THEN d ELSE [d EXCEPT !.unread = None]
ResyncSwallowing(d, desired) == SwallowedUnless(Skipped(d, desired), {EOI})
ResyncToRestart(d, desired) ==
  SwallowedUnless(Skipped(d, desired), {EOI, RST(desired + 1), RST(desired + 2)})

MetRestart(met) ==
  IF met.unread = RST(met.next_restart_num) THEN [met EXCEPT !.unread = None]
  ELSE [ResyncToRestart(met, met.next_restart_num) EXCEPT !.warned = TRUE]
ReadRestartMarker(d) ==
  [MetRestart(IF d.unread = None THEN NextMarker(d) ELSE d)
     EXCEPT !.next_restart_num = (@ + 1) % Restarts]

\* What process_restart does in both decoders: the flag of missing data stays
\* when a marker is still ahead.
RestartRead(d) ==
  [d EXCEPT !.restarts_to_go = interval,
            !.insufficient_data = IF d.unread = None THEN FALSE ELSE @]
PastRestart(d) == RestartRead(ReadRestartMarker([d EXCEPT !.get_buffer = << >>]))
=============================================================================
