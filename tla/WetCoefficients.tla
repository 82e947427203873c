--------------------------- MODULE WetCoefficients ---------------------------
(***************************************************************************)
(* The coefficients on their way through the program: the encoder          *)
(* quantizes those of the cover again, with the larger steps of a lower    *)
(* quality, notes the parity and the dryness of each                       *)
(* (C_L_WetEncoder::DerivateFundamentalSequences), adds 1 modulo 2 to      *)
(* those the injection wants flipped (EmbedSecretMessage) and writes the   *)
(* image; the decoder takes the parities of what it reads                  *)
(* (C_L_WetDecoder::DerivateFundamentalSequences).                         *)
(*                                                                         *)
(* The doubles of the dryness test are exact fractions here.  Only where   *)
(* neither side of the comparison is a double may a coefficient right at   *)
(* the threshold go either way.                                            *)
(***************************************************************************)
EXTENDS Integers, FiniteSets

CONSTANTS
  NoOfMembers,   \* coefficients of the image
  MaxCover,      \* bound: magnitude of a coefficient of the cover
  FullSteps,     \* quantization steps of the cover (m_pFullInfoQuantizationTables)
  ReducedSteps,  \* and of the stego image (m_pReducedInfoQuantizationTables)
  Thresholds     \* humidity thresholds

\* A step of 0 is no step: jpeg_add_quant_table keeps them between 1 and 255.
ASSUME WetAssumption ==
  /\ NoOfMembers \in Nat /\ MaxCover \in Nat
  /\ FullSteps \subseteq Nat /\ ReducedSteps \subseteq Nat \ {0}
  /\ Thresholds \subseteq Nat

Members == 0 .. NoOfMembers - 1

VARIABLES
  cover,      \* m_pOriginalCoefficients
  full, reduced, threshold,
  wpc,        \* "derive", "inject", "flip", "refused", "read", "end"
  member,     \* the loop index of the phase
  parities,   \* m_ParitySequence, the positions of its ones
  humidity,   \* m_HumiditySequence
  dryTotal,   \* TotalNoOfDryElements
  wet,        \* m_WetQuantizedCoefficients
  delta,      \* *pDeltaParities
  stego,      \* the coefficients of the stego image, or << >> when there is none
  received    \* the decoder's m_ParitySequence

coverVars == <<cover, full, reduced, threshold>>
sequences == <<parities, humidity, dryTotal>>
wetVars == <<coverVars, wpc, member, sequences, wet, delta, stego, received>>

Abs(n) == IF n < 0 THEN -n ELSE n

\* a % b and a ^ 1 as the machine computes them.
Remainder(a, b) == IF a < 0 THEN -(Abs(a) % b) ELSE a % b
XorOne(a) == IF a % 2 = 0 THEN a + 1 ELSE a - 1

Dequantized(k) == cover[k] * full[k]

\* Rounded division, symmetric around zero.
\* (Mutant: without the rounding.)
Truncated(n, step) == IF n < 0 THEN -(Abs(n) \div step) ELSE n \div step
Quantized(n, step) ==
  LET magnitude == (Abs(n) + step \div 2) \div step
  IN  IF n < 0 THEN -magnitude ELSE magnitude

\* 0.5 - |n / step - q| against threshold * 0.5 / 100, times 200 * step.
\* (Mutant: without the absolute value.)
DistanceSigned(n, step, q) == 100 * step - 200 * (n - q * step)
Distance(n, step, q) == 100 * step - 200 * Abs(n - q * step)
SurelyDry(n, step, q) == Distance(n, step, q) < threshold * step

\* At the threshold n / step is an odd or even number of 200ths from q.  These are
\* eighths, which doubles hold exactly, if the threshold is a multiple of 25, and
\* the comparison is strict; else both of its sides are rounded.
EighthsOnly == threshold % 25 = 0
PerhapsDry(n, step, q) == Distance(n, step, q) = threshold * step /\ ~EighthsOnly

\* A coefficient that becomes zero is never dry.  (Mutant: it may be.)
MayBeDryAtZero(n, step, q) == SurelyDry(n, step, q) \/ PerhapsDry(n, step, q)
MayBeDry(n, step, q) == q # 0 /\ (SurelyDry(n, step, q) \/ PerhapsDry(n, step, q))
MayBeWet(n, step, q) == q = 0 \/ ~SurelyDry(n, step, q)

Covers == [Members -> -MaxCover .. MaxCover]

WetInit ==
  /\ cover \in Covers
  /\ full \in [Members -> FullSteps]
  /\ reduced \in [Members -> ReducedSteps]
  /\ threshold \in Thresholds
  /\ wpc = "derive"
  /\ member = 0
  /\ parities = {} /\ humidity = {} /\ dryTotal = 0
  /\ wet = << >> /\ delta = {} /\ stego = << >> /\ received = {}

-----------------------------------------------------------------------------
(* The encoder.                                                            *)

\* (Mutant: one coefficient too many is written.)
WetAfterAndNext(value) == [k \in 0 .. member + 1 |-> IF k >= member THEN value ELSE wet[k]]
WetAfter(value) == [k \in 0 .. member |-> IF k = member THEN value ELSE wet[k]]

DerivateFundamentalSequences ==
  /\ wpc = "derive" /\ member < NoOfMembers
  /\ LET n    == Dequantized(member)
         temp == Quantized(n, reduced[member])
     IN  /\ parities' = IF n # 0 /\ Remainder(temp, 2) # 0 THEN parities \cup {member} ELSE parities
         /\ \/ /\ MayBeDry(n, reduced[member], temp)
               /\ humidity' = humidity \cup {member}
               /\ dryTotal' = dryTotal + 1
            \/ /\ MayBeWet(n, reduced[member], temp)
               /\ UNCHANGED <<humidity, dryTotal>>
         /\ wet' = WetAfter(temp)
  /\ member' = member + 1
  /\ UNCHANGED <<coverVars, wpc, delta, stego, received>>

Derived ==
  /\ wpc = "derive" /\ member = NoOfMembers
  /\ wpc' = "inject"
  /\ UNCHANGED <<coverVars, member, sequences, wet, delta, stego, received>>

\* MessageInjection fails, or asks for flips of dry coefficients (RunCoding).
InjectionFails ==
  /\ wpc = "inject"
  /\ wpc' = "refused"
  /\ UNCHANGED <<coverVars, member, sequences, wet, delta, stego, received>>

InjectionSucceeds ==
  /\ wpc = "inject"
  /\ delta' \in SUBSET humidity
  /\ wpc' = "flip"
  /\ member' = 0
  /\ UNCHANGED <<coverVars, sequences, wet, stego, received>>

UpdateCoefficient ==
  /\ wpc = "flip" /\ member < NoOfMembers
  /\ wet' = IF member \in delta THEN [wet EXCEPT ![member] = XorOne(@)] ELSE wet
  /\ member' = member + 1
  /\ UNCHANGED <<coverVars, wpc, sequences, delta, stego, received>>

WriteStegoImage ==
  /\ wpc = "flip" /\ member = NoOfMembers
  /\ stego' = wet
  /\ wpc' = "read"
  /\ member' = 0
  /\ UNCHANGED <<coverVars, sequences, wet, delta, received>>

-----------------------------------------------------------------------------
(* The decoder.                                                            *)

\* (Mutant: a negative odd coefficient passes for even.)
ReadParityOfPositives ==
  /\ wpc = "read" /\ member < NoOfMembers
  /\ received' = IF Remainder(stego[member], 2) = 1 THEN received \cup {member} ELSE received
  /\ member' = member + 1
  /\ UNCHANGED <<coverVars, wpc, sequences, wet, delta, stego>>
ReadParity ==
  /\ wpc = "read" /\ member < NoOfMembers
  /\ received' = IF Remainder(stego[member], 2) # 0 THEN received \cup {member} ELSE received
  /\ member' = member + 1
  /\ UNCHANGED <<coverVars, wpc, sequences, wet, delta, stego>>

ParitiesRead ==
  /\ wpc = "read" /\ member = NoOfMembers
  /\ wpc' = "end"
  /\ UNCHANGED <<coverVars, member, sequences, wet, delta, stego, received>>

Terminated ==
  /\ wpc \in {"refused", "end"}
  /\ UNCHANGED wetVars

WetNext ==
  \/ DerivateFundamentalSequences
  \/ Derived
  \/ InjectionFails
  \/ InjectionSucceeds
  \/ UpdateCoefficient
  \/ WriteStegoImage
  \/ ReadParity
  \/ ParitiesRead
  \/ Terminated

WetSpec == WetInit /\ [][WetNext]_wetVars

-----------------------------------------------------------------------------
ParitySum(a, b) == (a \ b) \cup (b \ a)

\* The parities the decoder reads are the encoder's with the flips added, of
\* negative coefficients and of those that become zero as well: this is all the
\* code matrices of the two sides share.
DecoderReadsTheFlippedParities ==
  wpc = "end" => received = ParitySum(parities, delta)

\* Apart from the flips, the stego image is the cover recompressed: every
\* coefficient it has is a nearest one of the cover's, and flipping costs less
\* than another step and a half.
StegoIsRecompressedCover ==
  stego # << >> =>
    \A k \in Members :
      /\ k \notin humidity => 2 * Abs(stego[k] * reduced[k] - Dequantized(k)) <= reduced[k]
      /\ 2 * Abs(stego[k] * reduced[k] - Dequantized(k)) <= 3 * reduced[k]

\* How much farther one of the two multiples of the step around a coefficient is
\* than the other: 0 in the middle, a whole step at a multiple.
Unevenness(k) ==
  LET below == (Dequantized(k) \div reduced[k]) * reduced[k]
  IN  Abs((Dequantized(k) - below) - (below + reduced[k] - Dequantized(k)))
Percent(k) == threshold * reduced[k]

\* The dry coefficients, whose count decides how many rows are tried, are those
\* that could have gone either way: with two multiples of the new step almost
\* equally near, by the threshold in percent of a step, whichever of them it was
\* rounded to and on whichever side of zero, unless it was rounded to zero.
DryOnesCouldGoEitherWay ==
  /\ dryTotal = Cardinality(humidity)
  /\ \A k \in Members :
       /\ k \in humidity => /\ 2 * Abs(Dequantized(k)) >= reduced[k]
                            /\ 100 * Unevenness(k) <= Percent(k)
                            /\ EighthsOnly => 100 * Unevenness(k) # Percent(k)
       /\ k \notin humidity /\ (wpc = "derive" => k < member) =>
            \/ 2 * Abs(Dequantized(k)) < reduced[k]
            \/ 100 * Unevenness(k) >= Percent(k)

\* "the sender enforces that the quantized value [...] be either l or l+1"
\* (Tulipan_Chapter02.tex:196): a coefficient between l and l+1 becomes one of
\* the two.
FlipsToANeighbour ==
  stego # << >> =>
    \A k \in humidity :
      stego[k] \in {Dequantized(k) \div reduced[k], Dequantized(k) \div reduced[k] + 1}
=============================================================================
