------------------------- MODULE ProgressiveCoding -------------------------
(***************************************************************************)
(* Progressive JPEG, which a cover may be: the coefficients come in several*)
(* scans, some first and their lower bits later, as a script says          *)
(* (jcparam.c, jcmaster.c).  Each scan is coded by jcphuff.c and read by   *)
(* jdphuff.c into the arrays the program takes the coefficients from.      *)
(* Places in a block count from 1 here, which is the DC coefficient.       *)
(***************************************************************************)
EXTENDS EntropyBits

CONSTANTS
  Images,         \* the images: for each MCU, a block of each component
  ScriptChoices,  \* lists of scans an encoder may be given
  LastOfLow,      \* where the first part of the AC coefficients ends, 5 + 1
  MAX_CORR_BITS   \* the size of the buffer of correction bits, 1000

VARIABLES
  ppc,        \* where the coding is: "encode", "decode", "done"
  picture,    \* the coefficients
  script,     \* scan_info
  scanno,     \* the scan that is coded
  mcu,        \* the MCU that is coded next
  coder,      \* phuff_entropy_encoder, with bit_buffer a sequence of BE bits and
              \* the largest number of bits it ever had to hold (most)
  reader,     \* phuff_entropy_decoder, as entropy in ScanCoding
  coef_bits,  \* the lowest bit read so far of each coefficient, -1 for none
  restored    \* the coefficients read

progVars == <<ppc, picture, script, interval, scanno, mcu, coder, file, reader,
              coef_bits, restored>>

\* A block has coefficients, the buffer holds the bits of one (jcphuff.c:67), and
\* some blocks can end in a row.
MaxEOBRun == 2 ^ MaxZeros - 1
ASSUME ProgressionAssumption ==
  /\ DCTSIZE2 \in Nat \ {0} /\ MAX_CORR_BITS \in Nat /\ MAX_CORR_BITS >= DCTSIZE2
  /\ MaxEOBRun \in Nat \ {0}
  /\ \A scans \in ScriptChoices : scans \in Seq(Range(scans))

MCUs == DOMAIN picture
PComponents == DOMAIN picture[1]
MAX_AH_AL == 10
-----------------------------------------------------------------------------
(* Scripts.                                                                *)

AScan(comps, Ss, Se, Ah, Al) ==
  [comps |-> comps, Ss |-> Ss, Se |-> Se, Ah |-> Ah, Al |-> Al]

\* fill_scans, fill_dc_scans (one interleaved scan for few components)
FillScans(ncomps, Ss, Se, Ah, Al) ==
  [ci \in 1 .. ncomps |-> AScan(<<ci>>, Ss, Se, Ah, Al)]
FillDCScans(ncomps, Ah, Al) ==
  IF ncomps <= 4 THEN <<AScan([ci \in 1 .. ncomps |-> ci], 1, 1, Ah, Al)>>
  ELSE FillScans(ncomps, 1, 1, Ah, Al)

\* jpeg_simple_progression, for color spaces other than YCbCr
SimpleProgression(ncomps) ==
  FillDCScans(ncomps, 0, 1)
    \o FillScans(ncomps, 2, LastOfLow, 0, 2) \o FillScans(ncomps, LastOfLow + 1, DCTSIZE2, 0, 2)
    \o FillScans(ncomps, 2, DCTSIZE2, 2, 1)
    \o FillDCScans(ncomps, 1, 0) \o FillScans(ncomps, 2, DCTSIZE2, 1, 0)
\* and for YCbCr images
YCbCrProgression ==
  FillDCScans(3, 0, 1)
    \o <<AScan(<<1>>, 2, LastOfLow, 0, 2),
         AScan(<<3>>, 2, DCTSIZE2, 0, 1), AScan(<<2>>, 2, DCTSIZE2, 0, 1),
         AScan(<<1>>, LastOfLow + 1, DCTSIZE2, 0, 2), AScan(<<1>>, 2, DCTSIZE2, 2, 1)>>
    \o FillDCScans(3, 1, 0)
    \o <<AScan(<<3>>, 2, DCTSIZE2, 1, 0), AScan(<<2>>, 2, DCTSIZE2, 1, 0),
         AScan(<<1>>, 2, DCTSIZE2, 1, 0)>>

Band(scan) == scan.Ss .. scan.Se
Concerns(scan, ci, k) == ci \in Range(scan.comps) /\ k \in Band(scan)

\* last_bitpos: the Al of the last scan of a coefficient before scan n, or -1
LastBitPos(scans, n, ci, k) ==
  LET before == {m \in 1 .. n - 1 : Concerns(scans[m], ci, k)}
  IN  IF before = {} THEN -1 ELSE scans[LastOf(before)].Al

\* validate_script, for progressive images
ValidScan(scans, n, ncomps) ==
  LET scan == scans[n]
      last(ci, k) == LastBitPos(scans, n, ci, k)
  IN  /\ Len(scan.comps) \in 1 .. 4 /\ Range(scan.comps) \subseteq 1 .. ncomps
      /\ \A i \in 2 .. Len(scan.comps) : scan.comps[i - 1] < scan.comps[i]
      /\ scan.Ss \in 1 .. DCTSIZE2 /\ scan.Se \in scan.Ss .. DCTSIZE2
      /\ scan.Ah \in 0 .. MAX_AH_AL /\ scan.Al \in 0 .. MAX_AH_AL
      /\ IF scan.Ss = 1 THEN scan.Se = 1
         ELSE Len(scan.comps) = 1 /\ last(scan.comps[1], 1) >= 0
      /\ \A ci \in Range(scan.comps), k \in Band(scan) :
           IF last(ci, k) < 0 THEN scan.Ah = 0
           ELSE scan.Ah = last(ci, k) /\ scan.Al = scan.Ah - 1
ValidScript(scans, ncomps) ==
  /\ scans # << >>
  /\ \A n \in DOMAIN scans : ValidScan(scans, n, ncomps)
  /\ \A ci \in 1 .. ncomps : LastBitPos(scans, Len(scans) + 1, ci, 1) >= 0
-----------------------------------------------------------------------------
(* The encoder.                                                            *)

Symbol(state, symbol) == Emitted(state, CodeOf(ACTable, symbol))

\* emit_eobrun: how many blocks have ended, and the correction bits of all of
\* them.
\* (Mutant: the correction bits come first.)
CorrectionBitsFirst(state) ==
  LET nbits == NoOfBits(state.EOBRUN) - 1
      all   == Emitted(Symbol(Emitted(state, state.bit_buffer), <<nbits, 0>>),
                       BitsOf(state.EOBRUN % 2 ^ nbits, nbits))
  IN  IF state.EOBRUN = 0 THEN state
      ELSE [all EXCEPT !.EOBRUN = 0, !.bit_buffer = << >>]
EmitEOBRun(state) ==
  LET nbits == NoOfBits(state.EOBRUN) - 1
      all   == Emitted(Symbol(state, <<nbits, 0>>),
                       BitsOf(state.EOBRUN % 2 ^ nbits, nbits) \o state.bit_buffer)
  IN  IF state.EOBRUN = 0 THEN state
      ELSE [all EXCEPT !.EOBRUN = 0, !.bit_buffer = << >>]

\* A block ends with zeros: the run is emitted before it, or the buffer of
\* correction bits, could grow too large.
\* (Mutant: only the run is looked at.)
AnotherEOBOfAnyBits(state) ==
  IF state.EOBRUN + 1 = MaxEOBRun
  THEN EmitEOBRun([state EXCEPT !.EOBRUN = @ + 1]) ELSE [state EXCEPT !.EOBRUN = @ + 1]
AnotherEOB(state) ==
  IF state.EOBRUN + 1 = MaxEOBRun \/ Len(state.bit_buffer) > MAX_CORR_BITS - DCTSIZE2 + 1
  THEN EmitEOBRun([state EXCEPT !.EOBRUN = @ + 1]) ELSE [state EXCEPT !.EOBRUN = @ + 1]

\* emit_restart
PRestarted(state) ==
  LET flushed == Flushed(EmitEOBRun(state))
  IN  [flushed EXCEPT !.out = @ \o <<FF, RST(state.next_restart_num)>>,
                      !.last_dc_val = [ci \in PComponents |-> 0]]

EncodedDCFirst(state, value, ci) ==
  [EncodedDC(state, value - state.last_dc_val[ci]) EXCEPT !.last_dc_val[ci] = value]

\* The point transform of an AC coefficient.
Scaled(value, Al) ==
  IF value < 0 THEN -(Magnitude(value) \div 2 ^ Al) ELSE value \div 2 ^ Al

\* One turn of its loop, behind w[2] zeros.  <<state, r>>
FirstTurn(w, value) ==
  IF value = 0 THEN <<w[1], w[2] + 1>>
  ELSE <<EncodedAC(EmitEOBRun(w[1]), value, w[2]), 0>>
EncodedACFirst(state, block, scan) ==
  LET ac[k \in scan.Ss - 1 .. scan.Se] ==
        IF k < scan.Ss THEN <<state, 0>> ELSE FirstTurn(ac[k - 1], Scaled(block[k], scan.Al))
      end == ac[scan.Se]
  IN  IF end[2] > 0 THEN AnotherEOB(end[1]) ELSE end[1]

\* BR bits more behind what the buffer holds, or held before it was emitted.
Held(w) == [w.state EXCEPT !.most = IF w.BE + Len(w.BR) > @ THEN w.BE + Len(w.BR) ELSE @]

\* What ends a run of blocks in the middle of one: none of its bits stay.
Sent(w, string, r) ==
  [state |-> Emitted(EmitEOBRun(Held(w)), string), r |-> r, BE |-> 0, BR |-> << >>]

\* The runs of zeros that cannot be folded into the end of the block.
RunsSent(w, folded) ==
  IF w.r <= MaxZeros \/ folded THEN w
  ELSE Sent(w, CodeOf(ACTable, <<MaxZeros, 0>>) \o w.BR
                 \o FlattenSeq([n \in 1 .. w.r \div (MaxZeros + 1) - 1 |->
                                  CodeOf(ACTable, <<MaxZeros, 0>>)]),
            w.r % (MaxZeros + 1))
Corrects(w, bit) == [w EXCEPT !.BR = Append(@, bit)]
Newly(w, value) ==
  Sent(w, CodeOf(ACTable, <<w.r, 1>>) \o <<IF value < 0 THEN 0 ELSE 1>> \o w.BR, 0)

\* One turn of its loop: a zero, a coefficient that was sent before, or a new one.
RefineTurn(w, value, absvalue, folded) ==
  IF absvalue = 0 THEN [w EXCEPT !.r = @ + 1]
  ELSE IF absvalue > 1 THEN Corrects(RunsSent(w, folded), absvalue % 2)
  ELSE Newly(RunsSent(w, folded), value)
EncodedACRefine(state, block, scan) ==
  LET absvalue(k) == Magnitude(block[k]) \div 2 ^ scan.Al
      newly == {k \in Band(scan) : absvalue(k) = 1}
      EOB == IF newly = {} THEN 0 ELSE LastOf(newly)
      ac[k \in scan.Ss - 1 .. scan.Se] ==
        IF k < scan.Ss
        THEN [state |-> state, r |-> 0, BE |-> Len(state.bit_buffer), BR |-> << >>]
        ELSE RefineTurn(ac[k - 1], block[k], absvalue(k), k > EOB)
      end == ac[scan.Se]
  IN  IF end.r > 0 \/ end.BR # << >>
      THEN AnotherEOB([Held(end) EXCEPT !.bit_buffer = @ \o end.BR])
      ELSE Held(end)

\* The four encode_mcu routines.
PEncodedBlock(state, block, ci, scan) ==
  CASE scan.Ah = 0 /\ scan.Ss = 1 -> EncodedDCFirst(state, block[1] \div 2 ^ scan.Al, ci)
    [] scan.Ah # 0 /\ scan.Ss = 1 -> Emitted(state, <<(block[1] \div 2 ^ scan.Al) % 2>>)
    [] scan.Ah = 0 /\ scan.Ss > 1 -> EncodedACFirst(state, block, scan)
    [] OTHER -> EncodedACRefine(state, block, scan)
PEncodedMCU(state, blocks, scan) ==
  LET begun == IF RestartDue(state) THEN PRestarted(state) ELSE state
      coded[i \in 0 .. Len(scan.comps)] ==
        IF i = 0 THEN begun
        ELSE PEncodedBlock(coded[i - 1], blocks[scan.comps[i]], scan.comps[i], scan)
  IN  CountedDown(coded[Len(scan.comps)], RestartDue(state))

\* start_pass of either side: all but the position in the file begins anew.
StartedCoder ==
  [last_dc_val |-> [ci \in PComponents |-> 0], EOBRUN |-> 0, bit_buffer |-> << >>,
   most |-> 0, put_buffer |-> << >>, out |-> << >>,
   restarts_to_go |-> interval, next_restart_num |-> 0]
StartedReader ==
  [last_dc_val |-> [ci \in PComponents |-> 0], EOBRUN |-> 0, get_buffer |-> << >>,
   at |-> 1, unread |-> None, insufficient_data |-> FALSE,
   restarts_to_go |-> interval, next_restart_num |-> 0, warned |-> FALSE]

ProgInit ==
  /\ picture \in Images
  /\ script \in {scans \in ScriptChoices : ValidScript(scans, Len(picture[1]))}
  /\ interval \in Intervals
  /\ ppc = "encode" /\ scanno = 1 /\ mcu = 1
  /\ coder = StartedCoder /\ reader = StartedReader
  /\ file = << >>
  /\ coef_bits = [ci \in PComponents |-> [k \in 1 .. DCTSIZE2 |-> -1]]
  /\ restored = [m \in MCUs |-> [ci \in PComponents |-> ZeroBlock]]

EncodeProgMCU ==
  /\ ppc = "encode" /\ mcu \in MCUs
  /\ coder' = PEncodedMCU(coder, picture[mcu], script[scanno])
  /\ mcu' = mcu + 1
  /\ UNCHANGED <<ppc, picture, script, interval, scanno, file, reader, coef_bits, restored>>

\* finish_pass_phuff, and start_pass_phuff_decoder, which notes what the scan
\* brings and warns when that is not the next bit of each coefficient.
FinishProgPass ==
  /\ ppc = "encode" /\ mcu \notin MCUs
  /\ LET scan == script[scanno]
         expected(ci, k) == IF coef_bits[ci][k] < 0 THEN 0 ELSE coef_bits[ci][k]
     IN  /\ file' = Flushed(EmitEOBRun(coder)).out \o <<FF, EOI>>
         /\ reader' = [StartedReader EXCEPT !.warned =
              \/ reader.warned
              \/ \E ci \in Range(scan.comps) :
                   \/ scan.Ss > 1 /\ coef_bits[ci][1] < 0
                   \/ \E k \in Band(scan) : scan.Ah # expected(ci, k)]
         /\ coef_bits' = [ci \in PComponents |-> [k \in 1 .. DCTSIZE2 |->
              IF Concerns(scan, ci, k) THEN scan.Al ELSE coef_bits[ci][k]]]
  /\ ppc' = "decode" /\ mcu' = 1
  /\ UNCHANGED <<picture, script, interval, scanno, coder, restored>>
-----------------------------------------------------------------------------
(* The decoder.  Each operator returns <<decoder, block>>.                 *)

\* EOBr: 2^r blocks end, and as many as the next r bits say.
EOBRunOf(read, r) == [read[1] EXCEPT !.EOBRUN = 2 ^ r + read[2]]
ReadEOBRun(d, r) == EOBRunOf(NextBits(d, r), r)

DCPlaced(d, block, ci, scan) ==
  <<d, [block EXCEPT ![1] = d.last_dc_val[ci] * 2 ^ scan.Al]>>
DecodedDCFirst(d, block, ci, scan) ==
  IF d.insufficient_data THEN <<d, block>> ELSE DCPlaced(DecodedDC(d, ci), block, ci, scan)

\* A bit that is set already stays set.
DCRefined(bit, block, p1) ==
  LET set == (block[1] \div p1) % 2 = 1
  IN  <<bit[1], IF bit[2] = 1 /\ ~set THEN [block EXCEPT ![1] = @ + p1] ELSE block>>
DecodedDCRefine(d, block, scan) == DCRefined(NextBits(d, 1), block, 2 ^ scan.Al)

\* One symbol, unless the block has ended.  <<decoder, block, k>>
PastFirstSymbol(symbol, block, k, scan) ==
  LET r == symbol[2][1]
      s == symbol[2][2]
      value == NextValue(symbol[1], s)
  IN  CASE s > 0 ->
             <<value[1], [block EXCEPT ![Place(k + r)] = value[2] * 2 ^ scan.Al], k + r + 1>>
        [] s = 0 /\ r = MaxZeros -> <<symbol[1], block, k + r + 1>>
        [] OTHER -> <<[ReadEOBRun(symbol[1], r) EXCEPT !.EOBRUN = @ - 1], block, scan.Se + 1>>
FirstSymbol(past, scan) ==
  IF past[3] > scan.Se THEN past
  ELSE PastFirstSymbol(HuffDecode(past[1], ACTable, <<0, 0>>), past[2], past[3], scan)

DecodedACFirst(d, block, scan) ==
  LET past[n \in 0 .. DCTSIZE2] ==
        IF n = 0 THEN <<d, block, scan.Ss>> ELSE FirstSymbol(past[n - 1], scan)
  IN  IF d.insufficient_data THEN <<d, block>>
      ELSE IF d.EOBRUN > 0 THEN <<[d EXCEPT !.EOBRUN = @ - 1], block>>
      ELSE past[DCTSIZE2]

\* A correction bit makes a coefficient larger, away from zero.
Correction(bit, block, k, p1) ==
  LET set == (block[k] \div p1) % 2 = 1
  IN  <<bit[1], IF bit[2] = 0 \/ set THEN block
                ELSE [block EXCEPT ![k] = IF @ >= 0 THEN @ + p1 ELSE @ - p1]>>
Corrected(d, block, k, scan) == Correction(NextBits(d, 1), block, k, 2 ^ scan.Al)

\* Past r coefficients that are still zero, up to the next one, or past as many
\* as there are in the band.  <<decoder, block, k, r>>
\* (Mutant: up to the first coefficient behind them, whichever it is.)
AdvancedOne(past, scan) ==
  LET k == past[3]
      one == Corrected(past[1], past[2], k, scan)
  IN  IF past[2][k] = 0 THEN <<past[1], past[2], k + 1, past[4] - 1>>
      ELSE <<one[1], one[2], k + 1, past[4]>>
AdvancedUnless(stop, past, scan) ==
  IF past[3] > scan.Se \/ stop THEN past ELSE AdvancedOne(past, scan)
AdvancedShort(d, block, k, r, scan) ==
  LET past[n \in 0 .. DCTSIZE2] ==
        IF n = 0 THEN <<d, block, k, r>>
        ELSE LET p == past[n - 1] IN AdvancedUnless(p[4] = 0, p, scan)
  IN  past[DCTSIZE2]
Advanced(d, block, k, r, scan) ==
  LET past[n \in 0 .. DCTSIZE2] ==
        IF n = 0 THEN <<d, block, k, r>>
        ELSE LET p == past[n - 1]
             IN  AdvancedUnless(p[2][p[3]] = 0 /\ p[4] = 0, p, scan)
  IN  past[DCTSIZE2]

\* The symbols of a block, up to one that ends it: each but one for a run of
\* zeros only is for a coefficient that is new, of the sign the next bit says.
\* <<decoder, block, k, whether more symbols are to come>>
NewlyPlaced(past, value, s, scan) ==
  <<past[1], IF s = 0 THEN past[2] ELSE [past[2] EXCEPT ![Place(past[3])] = value],
    past[3] + 1, TRUE>>
PastSign(bit, block, k, symbol, scan) ==
  NewlyPlaced(Advanced([bit[1] EXCEPT !.warned = @ \/ symbol[2] > 1], block, k, symbol[1], scan),
              IF bit[2] = 1 THEN 2 ^ scan.Al ELSE -(2 ^ scan.Al), symbol[2], scan)
PastRefineSymbol(symbol, block, k, scan) ==
  LET r == symbol[2][1]
      s == symbol[2][2]
  IN  IF s = 0 /\ r # MaxZeros THEN <<ReadEOBRun(symbol[1], r), block, k, FALSE>>
      ELSE PastSign(IF s = 0 THEN <<symbol[1], 0>> ELSE NextBits(symbol[1], 1),
                    block, k, symbol[2], scan)
RefinedOne(past, scan) ==
  IF past[3] > scan.Se \/ ~past[4] THEN past
  ELSE PastRefineSymbol(HuffDecode(past[1], ACTable, <<0, 0>>), past[2], past[3], scan)
Refined(d, block, scan) ==
  LET past[n \in 0 .. DCTSIZE2] ==
        IF n = 0 THEN <<d, block, scan.Ss, TRUE>> ELSE RefinedOne(past[n - 1], scan)
  IN  past[DCTSIZE2]

\* Behind the end of a block there are only corrections.
CorrectedOne(past, k, scan) ==
  IF past[2][k] # 0 THEN Corrected(past[1], past[2], k, scan) ELSE past
EOBPassed(past) == <<[past[1] EXCEPT !.EOBRUN = @ - 1], past[2]>>
CorrectedToEnd(d, block, first, scan) ==
  LET past[k \in first - 1 .. scan.Se] ==
        IF k < first THEN <<d, block>> ELSE CorrectedOne(past[k - 1], k, scan)
  IN  EOBPassed(past[scan.Se])

RefinedToEnd(read, scan) ==
  IF read[1].EOBRUN > 0 THEN CorrectedToEnd(read[1], read[2], read[3], scan)
  ELSE <<read[1], read[2]>>
DecodedACRefine(d, block, scan) ==
  IF d.insufficient_data THEN <<d, block>>
  ELSE RefinedToEnd(IF d.EOBRUN = 0 THEN Refined(d, block, scan)
                    ELSE <<d, block, scan.Ss>>, scan)

\* The four decode_mcu routines, behind process_restart.
PDecodedBlock(d, block, ci, scan) ==
  CASE scan.Ah = 0 /\ scan.Ss = 1 -> DecodedDCFirst(d, block, ci, scan)
    [] scan.Ah # 0 /\ scan.Ss = 1 -> DecodedDCRefine(d, block, scan)
    [] scan.Ah = 0 /\ scan.Ss > 1 -> DecodedACFirst(d, block, scan)
    [] OTHER -> DecodedACRefine(d, block, scan)
PRestartRead(d) ==
  IF ~RestartDue(d) THEN d
  ELSE [PastRestart(d) EXCEPT !.last_dc_val = [ci \in PComponents |-> 0], !.EOBRUN = 0]
BlockPlaced(one, blocks, ci) == <<one[1], [blocks EXCEPT ![ci] = one[2]]>>
PMCUBlocks(d, blocks, scan) ==
  LET read[i \in 0 .. Len(scan.comps)] ==
        IF i = 0 THEN <<d, blocks>>
        ELSE BlockPlaced(
               PDecodedBlock(read[i - 1][1], blocks[scan.comps[i]], scan.comps[i], scan),
               read[i - 1][2], scan.comps[i])
  IN  read[Len(scan.comps)]
PMCUCounted(read) == <<[read[1] EXCEPT !.restarts_to_go = @ - 1], read[2]>>
PDecodedMCU(d, blocks, scan) == PMCUCounted(PMCUBlocks(PRestartRead(d), blocks, scan))

DecodeProgMCU ==
  /\ ppc = "decode" /\ mcu \in MCUs
  /\ \E read \in {PDecodedMCU(reader, restored[mcu], script[scanno])} :
       reader' = read[1] /\ restored' = [restored EXCEPT ![mcu] = read[2]]
  /\ mcu' = mcu + 1
  /\ UNCHANGED <<ppc, picture, script, interval, scanno, coder, file, coef_bits>>

NextScan ==
  /\ ppc = "decode" /\ mcu \notin MCUs
  /\ IF scanno < Len(script)
     THEN /\ ppc' = "encode" /\ scanno' = scanno + 1 /\ mcu' = 1
          /\ coder' = StartedCoder
     ELSE ppc' = "done" /\ UNCHANGED <<scanno, mcu, coder>>
  /\ UNCHANGED <<picture, script, interval, file, reader, coef_bits, restored>>

ProgNext ==
  \/ EncodeProgMCU
  \/ FinishProgPass
  \/ DecodeProgMCU
  \/ NextScan

ProgSpec == ProgInit /\ [][ProgNext]_progVars
-----------------------------------------------------------------------------
\* Behind every scan, the decoder has each coefficient to the last bit that was
\* sent of it, and has nothing to warn about: runs of blocks that end, the
\* correction bits of several blocks at once, and the runs of zeros around them
\* mean the same to both sides (jcphuff.c:618, jdphuff.c:491).
ProgressionComesBack ==
  ppc = "decode" /\ mcu \notin MCUs =>
    /\ ~reader.warned /\ reader.EOBRUN = 0
    /\ \A m \in MCUs, ci \in PComponents, k \in 1 .. DCTSIZE2 :
         LET Al == coef_bits[ci][k]
             value == picture[m][ci][k]
         IN  restored[m][ci][k] =
               IF Al < 0 THEN 0
               ELSE IF k = 1 THEN (value \div 2 ^ Al) * 2 ^ Al
               ELSE Scaled(value, Al) * 2 ^ Al

\* The buffer of correction bits is never too small for the bits of one more
\* block, and no more blocks end in a row than a symbol can count
\* (jcphuff.c:720).
CorrectionBitsFit ==
  coder.most <= MAX_CORR_BITS /\ coder.EOBRUN < MaxEOBRun
=============================================================================
