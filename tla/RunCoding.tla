------------------------------ MODULE RunCoding ------------------------------
(***************************************************************************)
(* How one run of coefficients comes to carry its header and its bits: the *)
(* inner loop of C_L_DynamicMatrix::MessageInjection with the elimination  *)
(* and the solver of C_L_BinaryMatrix, down to their loops over columns    *)
(* and rows.  MessageInjection takes its outcome for granted; this module  *)
(* is why it may: a matrix is accepted exactly when its dry columns have   *)
(* full row rank, and the flips of an accepted one make the run carry what *)
(* the decoder reads.                                                      *)
(***************************************************************************)
EXTENDS BinaryMatrix

CONSTANTS
  BlockBits,    \* BINARY_STREAM_BLOCK_SIZE
  NoOfColumns,  \* m_NoOfColumns, a multiple of BlockBits
  HeaderSize,   \* m_HeaderSize
  InitialRows,  \* bounds: the rows a matrix may start with,
  ParityChoices, \* the parities of the run,
  MessageChoices \* and the bits to embed

Columns == 0 .. NoOfColumns - 1

ASSUME CodingAssumption ==
  /\ BlockBits \in Nat \ {0} /\ NoOfColumns \in Nat /\ NoOfColumns % BlockBits = 0
  /\ HeaderSize \in Nat \ {0}
  /\ InitialRows \subseteq HeaderSize .. HeaderSize + 2 ^ HeaderSize - 1
  /\ ParityChoices \subseteq SUBSET Columns
  /\ MessageChoices \subseteq SUBSET Nat

VARIABLES
  code,        \* the rows of the code matrix: m_pMatrixStream and m_NoOfRows
  dry,         \* m_Humidity of the run
  parities,    \* m_Parities of the run
  message,     \* the bits of the message still to embed
  phase,       \* "encode", "eliminate", "solve", "done", "failed" or "crashed"
  extended,    \* pExtendedMatrixStream, and the dried matrix once it replaced it
  CurrentRow,
  column,      \* j of GaussianElimniation
  row,         \* i of FindaSolutiontoTheLinearSystem, counting down
  solution,    \* the ones of pSolutions
  FirstEvaluatedVariable,
  flips        \* pDeltaParities of the run

inputs == <<dry, parities, message>>
elimination == <<extended, CurrentRow, column>>
solver == <<row, solution, FirstEvaluatedVariable>>
vars == <<code, inputs, phase, elimination, solver, flips>>

NoOfRows == Cardinality(DOMAIN code)
DataRows == NoOfRows - HeaderSize

(***************************************************************************)
(* What the rows of the code matrix have to give: the count of data rows,  *)
(* low bit first, then as many bits of the message.  (After the message    *)
(* there are no data rows, and so the zero header of the terminator.)      *)
(***************************************************************************)
EncodedMessage ==
  {k \in 0 .. HeaderSize - 1 : (DataRows \div 2 ^ k) % 2 = 1}
    \cup {HeaderSize + j : j \in {j \in message : j < DataRows}}

DeltaIsTheMessage == EncodedMessage  \* (Mutant: the parities the run has are forgotten.)
DeltaMatrix == Xor(EncodedMessage, Product(code, parities))

\* DrySubmatrix packs the dry columns, in their order, to the left, and fills up
\* the last block with zero columns.
PackedColumn(c) == Cardinality({d \in dry : d < c})
PackedColumns == LeastGreaterMultiple(Cardinality(dry), BlockBits)
DrySubmatrix == [i \in DOMAIN code |-> {PackedColumn(c) : c \in code[i] \cap dry}]

Init ==
  /\ \E n \in InitialRows : code \in [0 .. n - 1 -> SUBSET Columns]
  /\ dry \in SUBSET Columns
  /\ parities \in ParityChoices
  /\ message \in MessageChoices
  /\ phase = "encode"
  /\ extended = << >> /\ CurrentRow = 0 /\ column = 0
  /\ row = 0 /\ solution = {} /\ FirstEvaluatedVariable = 0
  /\ flips = {}

-----------------------------------------------------------------------------
\* The head of the inner loop, up to the loop of GaussianElimniation.
Encode ==
  /\ phase = "encode"
  /\ extended' = Extended(DrySubmatrix, DeltaMatrix, PackedColumns)
  /\ CurrentRow' = 0
  /\ column' = 0
  /\ phase' = "eliminate"
  /\ UNCHANGED <<code, inputs, solver, flips>>

\* Without a dry column DrySubmatrix writes block -1 of an empty stream, which kills
\* the process or not (MessageInjection!NoDryColumn).
EncodeNothingDry ==
  /\ phase = "encode"
  /\ dry = {}
  /\ phase' = "crashed"
  /\ UNCHANGED <<code, inputs, elimination, solver, flips>>

EliminationOver == column = PackedColumns \/ CurrentRow = NoOfRows - 1

EliminateColumn ==
  /\ phase = "eliminate"
  /\ ~EliminationOver
  /\ LET pivots == Pivots(extended, CurrentRow, column)
     IN  IF pivots = {}
         THEN UNCHANGED <<extended, CurrentRow>>
         ELSE /\ extended' = Cleared(Swapped(extended, CurrentRow, First(pivots)),
                                     CurrentRow, column)
              /\ CurrentRow' = CurrentRow + 1
  /\ column' = column + 1
  /\ UNCHANGED <<code, inputs, phase, solver, flips>>

\* (Mutant: the matrix is tried again as it is.)
DropNoRow ==
  /\ phase = "eliminate"
  /\ EliminationOver
  /\ LastRowIsZero(extended, PackedColumns)
  /\ phase' = "encode"
  /\ UNCHANGED <<code, inputs, elimination, solver, flips>>
DropRow ==
  /\ phase = "eliminate"
  /\ EliminationOver
  /\ LastRowIsZero(extended, PackedColumns)
  /\ code' = [i \in 0 .. NoOfRows - 2 |-> code[i]]
  /\ phase' = IF NoOfRows - 1 <= HeaderSize THEN "failed" ELSE "encode"
  /\ UNCHANGED <<inputs, elimination, solver, flips>>

\* (Mutant: the solver starts one row too low.)
AcceptPastTheEnd ==
  /\ phase = "eliminate"
  /\ EliminationOver
  /\ ~LastRowIsZero(extended, PackedColumns)
  /\ row' = NoOfRows
  /\ solution' = {}
  /\ FirstEvaluatedVariable' = PackedColumns
  /\ phase' = "solve"
  /\ UNCHANGED <<code, inputs, elimination, flips>>
Accept ==
  /\ phase = "eliminate"
  /\ EliminationOver
  /\ ~LastRowIsZero(extended, PackedColumns)
  /\ row' = NoOfRows - 1
  /\ solution' = {}
  /\ FirstEvaluatedVariable' = PackedColumns
  /\ phase' = "solve"
  /\ UNCHANGED <<code, inputs, elimination, flips>>

\* One row of the solver: its first column keeps it consistent, and the columns
\* from there to the ones already set are random.  (Mutant: columns that are
\* already set are drawn again.)
SolveRowAfresh ==
  /\ phase = "solve"
  /\ row >= 0
  /\ LET ConsistencyVariable == First(extended[row] \ {PackedColumns})
     IN  \E random \in SUBSET {l \in 0 .. PackedColumns - 1 : ConsistencyVariable < l} :
           LET constant == IF PackedColumns \in extended[row] THEN 1 ELSE 0
               value    == (constant + Dot(extended[row] \ {ConsistencyVariable}, random)) % 2
           IN  solution' = random \cup (IF value = 1 THEN {ConsistencyVariable} ELSE {})
  /\ row' = row - 1
  /\ UNCHANGED <<code, inputs, phase, elimination, FirstEvaluatedVariable, flips>>
SolveRow ==
  /\ phase = "solve"
  /\ row >= 0
  /\ LET ConsistencyVariable == First(extended[row] \ {PackedColumns})
         free == {l \in 0 .. PackedColumns - 1 :
                    ConsistencyVariable < l /\ l < FirstEvaluatedVariable}
     IN  /\ \E random \in SUBSET free :
              LET known    == solution \cup random
                  constant == IF PackedColumns \in extended[row] THEN 1 ELSE 0
                  value    == (constant + Dot(extended[row] \ {ConsistencyVariable}, known)) % 2
              IN  solution' = known \cup (IF value = 1 THEN {ConsistencyVariable} ELSE {})
         /\ FirstEvaluatedVariable' = ConsistencyVariable
  /\ row' = row - 1
  /\ UNCHANGED <<code, inputs, phase, elimination, flips>>

\* The solution, unpacked to the dry columns of the run.
Flip ==
  /\ phase = "solve"
  /\ row < 0
  /\ flips' = {c \in dry : PackedColumn(c) \in solution}
  /\ phase' = "done"
  /\ UNCHANGED <<code, inputs, elimination, solver>>

Terminated ==
  /\ phase \in {"done", "failed", "crashed"}
  /\ UNCHANGED vars

Next ==
  \/ Encode
  \/ EncodeNothingDry
  \/ EliminateColumn
  \/ DropRow
  \/ Accept
  \/ SolveRow
  \/ Flip
  \/ Terminated

Spec == Init /\ [][Next]_vars
FairSpec == Spec /\ WF_vars(Next)

-----------------------------------------------------------------------------
TypeOK ==
  /\ DOMAIN code = 0 .. NoOfRows - 1
  /\ \A i \in DOMAIN code : code[i] \subseteq Columns
  /\ dry \subseteq Columns /\ parities \subseteq Columns /\ flips \subseteq Columns
  /\ message \subseteq Nat
  /\ phase \in {"encode", "eliminate", "solve", "done", "failed", "crashed"}
  /\ \A i \in DOMAIN extended : extended[i] \subseteq 0 .. PackedColumns
  /\ CurrentRow \in Nat /\ column \in 0 .. PackedColumns
  /\ row \in -1 .. NoOfRows - 1
  /\ solution \subseteq 0 .. PackedColumns - 1
  /\ FirstEvaluatedVariable \in 0 .. PackedColumns

\* The rows have full row rank: no sum of some of them is zero.
Independent(matrix) ==
  \A rows \in (SUBSET DOMAIN matrix) \ {{}} :
    \E c \in UNION {matrix[i] : i \in rows} :
      Cardinality({i \in rows : c \in matrix[i]}) % 2 = 1

\* What GaussianElimniation returns is the rank: a row is dropped exactly when
\* the dry columns of the matrix are not of full row rank, although the loop
\* stops before the last row and looks at that row only (c_l_binarymatrix.cpp:172,
\* 238).
DropsExactlyWhenDependent ==
  phase = "eliminate" /\ EliminationOver =>
    (LastRowIsZero(extended, PackedColumns) <=> ~Independent(DrySubmatrix))

\* Every swap and sum of rows leaves the flips that solve the system the same:
\* the constants go with their rows.
EliminationKeepsTheSolutions ==
  phase \in {"eliminate", "solve"} =>
    \A x \in SUBSET (0 .. PackedColumns - 1) :
      (\A i \in DOMAIN extended : Dot(extended[i], x \cup {PackedColumns}) = 0)
        <=> Product(DrySubmatrix, x) = DeltaMatrix

\* What the solver has set stays right: the rows below the current one are
\* satisfied, and nothing that is still to be set occurs in them.
SolvedRowsStaySolved ==
  phase = "solve" =>
    \A i \in row + 1 .. NoOfRows - 1 :
      /\ Dot(extended[i], solution \cup {PackedColumns}) = 0
      /\ \A c \in extended[i] : c >= FirstEvaluatedVariable

\* A run that is coded gives the decoder the count of its data rows and then
\* that many bits of the message, by changing dry coefficients only.
RunCarriesItsBits ==
  phase = "done" =>
    /\ flips \subseteq dry
    /\ Product(code, Xor(parities, flips)) = EncodedMessage

\* The guard of MessageInjection!AcceptMatrix: a matrix with more rows than dry
\* coefficients is never accepted, whatever columns the last block is filled up
\* with, and the rows of the header are never dropped from an accepted one.
AcceptedRowsFitTheDryColumns ==
  phase \in {"solve", "done"} => HeaderSize <= NoOfRows /\ NoOfRows <= Cardinality(dry)

\* The loops end: rows are dropped until the matrix has full row rank or there is
\* no row left for the message.
CodingEnds == <>(phase \in {"done", "failed", "crashed"})
=============================================================================
