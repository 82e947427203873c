----------------------------- MODULE PlainArray -----------------------------
(***************************************************************************)
(* What libjpeg's virtual arrays promise: an array of rows, zero at first, *)
(* of which a few neighbouring ones are read or written at a time.  Either *)
(* kind of access may be refused, and then the array is of no more use.    *)
(***************************************************************************)
EXTENDS Integers

CONSTANTS NoOfRows, Contents, Zero

VARIABLES rows, seen

RowNos == 0 .. NoOfRows - 1
ArrayVars == <<rows, seen>>

ArrayInit == rows = [r \in RowNos |-> Zero] /\ seen = << >>

\* Rows from start on, up to the one before end, are given new contents.
WriteRows(start, end) ==
  /\ rows' \in [RowNos -> Contents]
  /\ \A r \in RowNos \ (start .. end - 1) : rows'[r] = rows[r]
  /\ seen' = << >>

ReadRows(start, end) ==
  /\ seen' = [r \in start .. end - 1 |-> rows[r]]
  /\ UNCHANGED rows

ArrayNext ==
  \E start, end \in 0 .. NoOfRows : WriteRows(start, end) \/ ReadRows(start, end)

ArraySpec == ArrayInit /\ [][ArrayNext]_ArrayVars
=============================================================================
