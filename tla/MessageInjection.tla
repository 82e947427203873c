-------------------------- MODULE MessageInjection --------------------------
(***************************************************************************)
(* C_L_DynamicMatrix::MessageInjection (c_l_dynamicmatrix.cpp:167-505):    *)
(* the loop that cuts the coefficients of the cover into runs of           *)
(* NoOfColumns, draws a code matrix from the key for each run, drops rows  *)
(* until the columns of the dry coefficients have full row rank, and lets  *)
(* the run carry a header (how many message bits follow) and those bits.   *)
(* The message ends with a run whose header is zero.                       *)
(*                                                                         *)
(* The linear algebra is in BinaryMatrix: here a matrix of r rows over d   *)
(* dry coefficients may have full row rank or not, and cannot if r > d.    *)
(* Key is counted in blocks: a row of a code matrix takes BlockColumns.    *)
(***************************************************************************)
EXTENDS TulipanGlobals, Sequences, Functions

CONSTANTS
  BlockBits,      \* BINARY_STREAM_BLOCK_SIZE: 8 in the program
  BlockColumns,   \* m_NoOfBlockColumns; NoOfColumns below is m_NoOfColumns
  ParitiesLength, \* coefficients of the cover
  HeaderSize,     \* m_HeaderSize, as EstimateHeaderSize computes it
  EstimateSlack,  \* the 10 of EstimateNoOfRows
  SizeModulus,    \* blocks after which an unsigned int request size wraps: 2^29
  MaxMessage,     \* bound: bits of the longest message
  GiantStep,      \* KeyStream
  NULL

NoOfColumns == BlockColumns * BlockBits
TotalNoOfMatrices == CeillingDivide(ParitiesLength, NoOfColumns)
FullRuns == ParitiesLength \div NoOfColumns
MaxRows == 2 ^ HeaderSize - 1

ASSUME InjectionAssumption ==
  /\ BlockBits \in Nat \ {0} /\ BlockColumns \in Nat \ {0}
  /\ ParitiesLength \in Nat /\ MaxMessage \in Nat /\ EstimateSlack \in Nat
  /\ HeaderSize \in Nat /\ HeaderSize > 1 /\ HeaderSize % BlockBits = 0
  /\ SizeModulus \in Nat \ {0}
  /\ GiantStep \in Nat \ {0}

\* A header of two or more bits tells at least two values apart (the provers
\* have no rule for exponentiation).
ASSUME HeaderRange == 2 ^ HeaderSize \in Nat /\ 2 ^ HeaderSize > 1

VARIABLES
  messageLength,  \* m_MessageLength
  dry,            \* dry[i]: dry coefficients of run i (m_Humidity), for the runs that fit
  dryTotal,       \* those and the ones after the last run: the numerator of m_DrynessRatio
  pc,             \* where the loops are: "outer", "inner" or "done"
  status,         \* m_ProcessStatus, or "CRASHED" when the process dies
  consumed,       \* NoOfConsumedCoefficents
  digester,       \* MessageDigester
  rows,           \* m_NoOfRows
  carried,        \* history: what each accepted matrix makes its run carry
  cursor, window, claimed, matrix  \* the key stream and m_pMatrixStream

inputs == <<messageLength, dry, dryTotal>>
keyVars == <<cursor, window, claimed, matrix>>
injectionVars == <<inputs, pc, status, consumed, digester, rows, carried, keyVars>>

Key == INSTANCE KeyStream WITH granted <- matrix, Sizes <- Nat

\* The dry coefficients of the whole cover: those of the runs and some of the
\* coefficients after the last full run.
DryTotals(d) ==
  LET inRuns == FoldFunction(+, 0, d)
      after  == ParitiesLength - FullRuns * NoOfColumns
  IN  {t \in 0 .. ParitiesLength : inRuns <= t /\ t <= inRuns + after}

\* Dry coefficients of the run at c: m_Humidity is read past its end when the
\* run is (line 201 comes before the test of line 276), and what is there is
\* whatever the heap holds.
DryCounts(c) ==
  IF c + NoOfColumns <= ParitiesLength
  THEN {dry[c \div NoOfColumns]}
  ELSE 0 .. NoOfColumns

\* (unsigned long)(m_DrynessRatio * n): the double product of dryTotal / n and n
\* may fall just below dryTotal.
Divisors == {d \in {dryTotal, dryTotal - 1} : d >= 0}

\* The rows the paper recommends for a run, without the header's.
RecommendedRows(dryCount, divisor) ==
  LET totalMessage == messageLength + HeaderSize * TotalNoOfMatrices
  IN  CeillingDivide(dryCount * (totalMessage + EstimateSlack), divisor) - HeaderSize

\* (Mutants: without the limit to what is left of the message, without the limit
\* to what a header can count, without a lower limit.)
EstimatePastTheEnd(dryCount, divisor, remainder) ==
  LET recommended == RecommendedRows(dryCount, divisor)
  IN  IF 0 <= recommended /\ recommended < MaxRows THEN recommended ELSE MaxRows
EstimatePastTheHeader(dryCount, divisor, remainder) == remainder
EstimateBelowZero(dryCount, divisor, remainder) ==
  LET recommended == RecommendedRows(dryCount, divisor)
  IN  IF recommended < remainder THEN recommended ELSE remainder
\* The comparisons of lines 526-528 are unsigned: a negative recommendation is
\* larger than every limit.
EstimateNoOfRows(dryCount, divisor, remainder) ==
  LET recommended == RecommendedRows(dryCount, divisor)
      raised      == IF recommended > dryCount \div 2 THEN recommended ELSE dryCount \div 2
      limited     == IF recommended >= 0 /\ raised < remainder THEN raised ELSE remainder
  IN  IF limited < MaxRows THEN limited ELSE MaxRows

\* The blocks GeneratePrimitiveMatrix asks for r rows: an unsigned int product.
StreamSize(r) == (r * BlockColumns) % SizeModulus

Init ==
  /\ messageLength \in 0 .. MaxMessage
  /\ dry \in [0 .. FullRuns - 1 -> 0 .. NoOfColumns]
  /\ dryTotal \in DryTotals(dry)
  /\ pc = "outer"
  /\ status = "INCOMPLETE"
  /\ consumed = 0
  /\ digester = 0
  /\ rows = 0
  /\ carried = << >>
  /\ Key!Init

Stop(outcome) ==
  /\ status' = outcome
  /\ pc' = "done"

-----------------------------------------------------------------------------
(* The head of the outer loop (lines 201-205).                             *)

DivideByZero ==
  /\ pc = "outer"
  /\ 0 \in Divisors
  /\ Stop("CRASHED")
  /\ UNCHANGED <<inputs, consumed, digester, rows, carried, keyVars>>

GeneratePrimitiveMatrix ==
  /\ pc = "outer"
  /\ \E dryCount \in DryCounts(consumed), divisor \in Divisors \ {0} :
       LET r == HeaderSize + EstimateNoOfRows(dryCount, divisor, messageLength - digester)
       IN  rows' = r /\ Key!Request(StreamSize(r))
  /\ pc' = "inner"
  /\ UNCHANGED <<inputs, status, consumed, digester, carried>>

-----------------------------------------------------------------------------
(* One iteration of the inner loop (lines 226-497).                        *)

RunFits == consumed + NoOfColumns <= ParitiesLength
DryHere == dry[consumed \div NoOfColumns]
StreamHoldsMatrix == window = rows * BlockColumns

RunOutOfCoefficients ==
  /\ pc = "inner"
  /\ ~RunFits
  /\ Stop("FAILURE")
  /\ UNCHANGED <<inputs, consumed, digester, rows, carried, keyVars>>

\* The size of the request wrapped: the rows are read past the stream.
ReadPastStream ==
  /\ pc = "inner"
  /\ RunFits
  /\ ~StreamHoldsMatrix
  /\ Stop("CRASHED")
  /\ UNCHANGED <<inputs, consumed, digester, rows, carried, keyVars>>

\* DrySubmatrix of a run without dry coefficients writes block -1 of an empty
\* stream.  Where pointers are longer than unsigned int the index is 2^32 - 1 and
\* the process dies; where they are not, it is the byte before the stream, and the
\* elimination of a matrix without columns fails: DropRow.
NoDryColumn ==
  /\ pc = "inner"
  /\ RunFits /\ StreamHoldsMatrix
  /\ DryHere = 0
  /\ Stop("CRASHED")
  /\ UNCHANGED <<inputs, consumed, digester, rows, carried, keyVars>>

\* (Mutants: a run may be left with its header alone; a row is not dropped.)
DropRowToTheHeader ==
  /\ pc = "inner"
  /\ RunFits /\ StreamHoldsMatrix
  /\ rows' = rows - 1
  /\ IF rows - 1 < HeaderSize
     THEN Stop("FAILURE") /\ UNCHANGED keyVars
     ELSE Key!Deny(BlockColumns) /\ UNCHANGED <<pc, status>>
  /\ UNCHANGED <<inputs, consumed, digester, carried>>
DropNoRow ==
  /\ pc = "inner"
  /\ RunFits /\ StreamHoldsMatrix
  /\ rows > HeaderSize
  /\ UNCHANGED injectionVars
DropRow ==
  /\ pc = "inner"
  /\ RunFits /\ StreamHoldsMatrix
  /\ rows' = rows - 1
  /\ IF rows - 1 <= HeaderSize
     THEN Stop("FAILURE") /\ UNCHANGED keyVars
     ELSE Key!Deny(BlockColumns) /\ UNCHANGED <<pc, status>>
  /\ UNCHANGED <<inputs, consumed, digester, carried>>

\* The header of the accepted matrix: its data rows while there is a message to
\* embed, as many low bits of the count as the header holds.
Header == IF digester < messageLength
          THEN (rows - HeaderSize) % (2 ^ HeaderSize)
          ELSE 0

\* (Mutant: the last bit of the message ends it, without a run for the zero
\* header.)
AcceptMatrixToTheLastBit ==
  /\ pc = "inner"
  /\ RunFits /\ StreamHoldsMatrix
  /\ DryHere > 0
  /\ rows <= DryHere
  /\ Key!Commit
  /\ consumed' = consumed + NoOfColumns
  /\ digester' = digester + (rows - HeaderSize)
  /\ carried' = Append(carried, [key |-> cursor, run |-> consumed,
                                 header |-> Header, from |-> digester])
  /\ IF digester' < messageLength
     THEN pc' = "outer" /\ UNCHANGED status
     ELSE Stop("SUCCESS")
  /\ UNCHANGED <<inputs, rows>>
AcceptMatrix ==
  /\ pc = "inner"
  /\ RunFits /\ StreamHoldsMatrix
  /\ DryHere > 0
  /\ rows <= DryHere
  /\ Key!Commit
  /\ consumed' = consumed + NoOfColumns
  /\ digester' = digester + (rows - HeaderSize)
  /\ carried' = Append(carried, [key |-> cursor, run |-> consumed,
                                 header |-> Header, from |-> digester])
  /\ IF rows - HeaderSize > 0
     THEN pc' = "outer" /\ UNCHANGED status
     ELSE Stop("SUCCESS")
  /\ UNCHANGED <<inputs, rows>>

Inject ==
  \/ DivideByZero
  \/ GeneratePrimitiveMatrix
  \/ RunOutOfCoefficients
  \/ ReadPastStream
  \/ NoDryColumn
  \/ DropRow
  \/ AcceptMatrix
=============================================================================
