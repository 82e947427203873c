---------------------------- MODULE BinaryMatrix ----------------------------
(***************************************************************************)
(* The matrices over GF(2) of c_l_binarymatrix.cpp.  A row is the set of   *)
(* the columns that hold a 1, a matrix maps its rows (from 0) to such sets *)
(* and a vector of one column is the set of the rows that hold a 1.        *)
(***************************************************************************)
EXTENDS TulipanGlobals, FiniteSets

Xor(a, b) == (a \ b) \cup (b \ a)

\* The bits of ModulationBuffer added together.
Dot(row, vector) == Cardinality(row \cap vector) % 2

Product(matrix, vector) == {i \in DOMAIN matrix : Dot(matrix[i], vector) = 1}

First(columns) == CHOOSE c \in columns : \A d \in columns : c <= d

(***************************************************************************)
(* GaussianElimniation works on the rows extended by the constants, which  *)
(* it keeps in column NoOfColumns.                                         *)
(***************************************************************************)
Extended(matrix, constants, NoOfColumns) ==
  [i \in DOMAIN matrix |->
     matrix[i] \cup (IF i \in constants THEN {NoOfColumns} ELSE {})]

\* (Mutant: half of the swap.)
Overwritten(matrix, r, s) == [matrix EXCEPT ![r] = matrix[s]]
Swapped(matrix, r, s) == [matrix EXCEPT ![r] = matrix[s], ![s] = matrix[r]]

\* Row r is added to the rows below it that have a 1 in column c.
Cleared(matrix, r, c) ==
  [i \in DOMAIN matrix |->
     IF i > r /\ c \in matrix[i] THEN Xor(matrix[i], matrix[r]) ELSE matrix[i]]

\* The rows that may become row r because of their 1 in column c.
Pivots(matrix, r, c) == {i \in DOMAIN matrix : i >= r /\ c \in matrix[i]}

\* (Mutant: the constant of the last row counts as an entry.)
LastRowIsEmpty(extended, NoOfColumns) ==
  extended[Cardinality(DOMAIN extended) - 1] = {}
\* The test of the last row, which the constants do not enter.
LastRowIsZero(extended, NoOfColumns) ==
  \A c \in extended[Cardinality(DOMAIN extended) - 1] : c = NoOfColumns

=============================================================================
