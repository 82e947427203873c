----------------------------- MODULE ScanCoding -----------------------------
(***************************************************************************)
(* The entropy-coded scan of a JPEG file: how libjpeg writes the           *)
(* coefficients of the stego image (jchuff.c) and reads those of a cover   *)
(* or a stego image (jdhuff.c), with the restart markers a cover may have  *)
(* (jdmarker.c) and with what happens to a file on its way: its end may be *)
(* missing, or the data between two restart markers lost or repeated.      *)
(* The bits the message is in are the lowest ones of these coefficients.   *)
(***************************************************************************)
EXTENDS EntropyBits

CONSTANTS
  MCU_membership,    \* the component of each block of an MCU
  BlockChoices,      \* for each component, the blocks an image may have
  NoOfMCUs           \* MCUs of an image

VARIABLES
  spc,         \* where the scan is: "encode", "sent", "decode", "done"
  image,       \* the MCUs encoded so far: a history of what decoding must return
  saved,       \* encoder: last_dc_val, put_buffer, restarts_to_go, next_restart_num
  segments,    \* history: where in the file each restart segment begins
  hurt,        \* history: the segments that do not arrive
  entropy,     \* decoder: its own last_dc_val, get_buffer and restart counters,
               \* the position in the file, the marker met, and whether it has
               \* run out of data and has warned
  decoded      \* the MCUs decoded so far

scanVars == <<spc, image, interval, saved, file, segments, hurt, entropy, decoded>>

Components == Range(MCU_membership)
NoDC == [c \in Components |-> 0]
-----------------------------------------------------------------------------
(* The encoder.                                                            *)

EncodedBlock(state, block, ci) ==
  LET dc == EncodedDC(state, block[1] - state.last_dc_val[ci])
      ac[k \in 1 .. DCTSIZE2] ==   \* <<state, r>> behind the coefficient k
        IF k = 1 THEN <<dc, 0>>
        ELSE IF block[k] = 0 THEN <<ac[k - 1][1], ac[k - 1][2] + 1>>
        ELSE <<EncodedAC(ac[k - 1][1], block[k], ac[k - 1][2]), 0>>
      end == IF ac[DCTSIZE2][2] > 0
             THEN Emitted(ac[DCTSIZE2][1], CodeOf(ACTable, <<0, 0>>))
             ELSE ac[DCTSIZE2][1]
  IN  [end EXCEPT !.last_dc_val[ci] = block[1]]

\* (Mutant: the DC values the next segment is coded against are kept.)
RestartedKeepingDC(state) ==
  LET flushed == Flushed(state)
  IN  [flushed EXCEPT !.out = @ \o <<FF, RST(state.next_restart_num)>>]
EmitRestart(state) ==
  LET flushed == Flushed(state)
  IN  [flushed EXCEPT !.out = @ \o <<FF, RST(state.next_restart_num)>>,
                      !.last_dc_val = NoDC]

\* encode_mcu_huff
EncodedMCU(state, blocks) ==
  LET begun == IF RestartDue(state) THEN EmitRestart(state) ELSE state
      coded[b \in 0 .. Len(blocks)] ==
        IF b = 0 THEN begun
        ELSE EncodedBlock(coded[b - 1], blocks[b], MCU_membership[b])
  IN  CountedDown(coded[Len(blocks)], RestartDue(state))

ScanInit ==
  /\ spc = "encode" /\ image = << >>
  /\ interval \in Intervals
  /\ saved = [last_dc_val |-> NoDC, put_buffer |-> << >>, out |-> << >>,
              restarts_to_go |-> interval, next_restart_num |-> 0]
  /\ file = << >> /\ segments = <<1>> /\ hurt = {}
  /\ entropy = [last_dc_val |-> NoDC, get_buffer |-> << >>, at |-> 1,
                unread |-> None, insufficient_data |-> FALSE,
                restarts_to_go |-> interval, next_restart_num |-> 0, warned |-> FALSE]
  /\ decoded = << >>

EncodeMCU ==
  /\ spc = "encode" /\ Len(image) < NoOfMCUs
  /\ \E blocks \in [DOMAIN MCU_membership -> UNION Range(BlockChoices)] :
       /\ \A b \in DOMAIN blocks : blocks[b] \in BlockChoices[MCU_membership[b]]
       /\ image' = Append(image, blocks)
       /\ saved' = EncodedMCU(saved, blocks)
  \* where the marker in front of this MCU begins
  /\ segments' = IF RestartDue(saved)
                 THEN Append(segments, Len(Flushed(saved).out) + 1) ELSE segments
  /\ UNCHANGED <<spc, interval, file, hurt, entropy, decoded>>

\* finish_pass_huff, and the EOI of the file's trailer.
FinishPass ==
  /\ spc = "encode" /\ Len(image) = NoOfMCUs
  /\ file' = Flushed(saved).out \o <<FF, EOI>>
  /\ saved' = [saved EXCEPT !.put_buffer = << >>, !.out = << >>]
  /\ spc' = "sent"
  /\ UNCHANGED <<image, interval, segments, hurt, entropy, decoded>>
-----------------------------------------------------------------------------
(* What happens to the file.                                               *)

EndOf(s) == IF s = Len(segments) THEN Len(file) - 2 ELSE segments[s + 1] - 1

Arrive ==
  /\ spc = "sent" /\ spc' = "decode"
  /\ UNCHANGED <<image, interval, saved, file, segments, hurt, entropy, decoded>>

\* One or two adjacent segments, with the markers in front of them, are lost.
LoseSegments ==
  /\ spc = "sent" /\ interval > 0 /\ spc' = "decode"
  /\ \E s \in DOMAIN segments : \E t \in {s, s + 1} \cap DOMAIN segments :
       /\ file' = SubSeq(file, 1, segments[s] - 1) \o SubSeq(file, EndOf(t) + 1, Len(file))
       /\ hurt' = s .. t
  /\ UNCHANGED <<image, interval, saved, segments, entropy, decoded>>

\* A segment behind a marker arrives twice.
RepeatSegment ==
  /\ spc = "sent" /\ interval > 0 /\ spc' = "decode"
  /\ \E s \in DOMAIN segments \ {1} :
       file' = SubSeq(file, 1, EndOf(s)) \o SubSeq(file, segments[s], Len(file))
  /\ UNCHANGED <<image, interval, saved, segments, hurt, entropy, decoded>>

\* The file ends early: the data source goes on with EOI markers of its own.
Truncate ==
  /\ spc = "sent" /\ spc' = "decode"
  /\ \E size \in 0 .. Len(file) - 1 :
       /\ file' = SubSeq(file, 1, size)
       /\ hurt' = {s \in DOMAIN segments : size < EndOf(s)}
  /\ UNCHANGED <<image, interval, saved, segments, entropy, decoded>>
-----------------------------------------------------------------------------
(* The decoder.                                                            *)

\* The AC coefficients from k on.  <<decoder, block>>
RECURSIVE DecodedAC(_, _, _)
PastSymbol(symbol, block, k) ==
  LET r == symbol[2][1]
      s == symbol[2][2]
      value == NextValue(symbol[1], s)
  IN  CASE s > 0 -> DecodedAC(value[1], [block EXCEPT ![Place(k + r)] = value[2]], k + r + 1)
        [] s = 0 /\ r # MaxZeros -> <<symbol[1], block>>
        [] OTHER -> DecodedAC(symbol[1], block, k + MaxZeros + 1)
DecodedAC(d, block, k) ==
  IF k > DCTSIZE2 THEN <<d, block>>
  ELSE PastSymbol(HuffDecode(d, ACTable, <<0, 0>>), block, k)

PastDC(d, ci) == DecodedAC(d, [ZeroBlock EXCEPT ![1] = d.last_dc_val[ci]], 2)
DecodedBlock(d, ci) == PastDC(DecodedDC(d, ci), ci)

\* process_restart
ProcessRestart(d) == [PastRestart(d) EXCEPT !.last_dc_val = NoDC]

\* decode_mcu: once data has run out, the MCUs up to the next restart are zero.
Behind(block, blocks) == <<block[1], Append(blocks, block[2])>>
MCUBlocks(d) ==
  LET read[b \in 0 .. Len(MCU_membership)] ==
        IF b = 0 THEN <<d, << >> >>
        ELSE Behind(DecodedBlock(read[b - 1][1], MCU_membership[b]), read[b - 1][2])
  IN  IF d.insufficient_data THEN <<d, [b \in DOMAIN MCU_membership |-> ZeroBlock]>>
      ELSE read[Len(MCU_membership)]
OneMCULess(read) == <<[read[1] EXCEPT !.restarts_to_go = @ - 1], read[2]>>
DecodedMCU(d) == OneMCULess(MCUBlocks(IF RestartDue(d) THEN ProcessRestart(d) ELSE d))

DecodeMCU ==
  /\ spc = "decode" /\ Len(decoded) < NoOfMCUs
  /\ \E read \in {DecodedMCU(entropy)} :
       entropy' = read[1] /\ decoded' = Append(decoded, read[2])
  /\ UNCHANGED <<spc, image, interval, saved, file, segments, hurt>>

FinishScan ==
  /\ spc = "decode" /\ Len(decoded) = NoOfMCUs
  /\ spc' = "done"
  /\ UNCHANGED <<image, interval, saved, file, segments, hurt, entropy, decoded>>

ScanNext ==
  \/ EncodeMCU
  \/ FinishPass
  \/ Arrive
  \/ LoseSegments
  \/ RepeatSegment
  \/ Truncate
  \/ DecodeMCU
  \/ FinishScan

ScanSpec == ScanInit /\ [][ScanNext]_scanVars
-----------------------------------------------------------------------------
SegmentOf(m) == IF interval = 0 THEN 1 ELSE (m - 1) \div interval + 1

\* What is in the segments that arrive comes back as it was: the run lengths,
\* the values and the predictions of both sides agree, no byte of the data is
\* taken for a marker, and up to two segments lost in a row, or one repeated,
\* move no other out of its place (jdmarker.c:1179).
SegmentsComeBack ==
  \A m \in DOMAIN decoded :
    SegmentOf(m) \notin hurt => decoded[m] = image[m]

\* Coefficients that are not those of the image never come without a warning.
NoSilentDamage ==
  (\E m \in DOMAIN decoded : decoded[m] # image[m]) => entropy.warned
=============================================================================
