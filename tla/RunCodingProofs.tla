--------------------------- MODULE RunCodingProofs ---------------------------
(***************************************************************************)
(* What holds of the coding of a run for any number of columns and rows,   *)
(* any matrix, humidity, parities and message: the elimination keeps the   *)
(* solutions and ends in a staircase, the solver goes up the staircase and *)
(* leaves every row solved, and so the run carries its header and bits.    *)
(***************************************************************************)
EXTENDS RunCoding, GlobalsTheorems, FiniteSetTheorems, WellFoundedInduction

-----------------------------------------------------------------------------
(***************************************************************************)
(* Parities of finite sets                                                 *)
(***************************************************************************)

\* Every set of numbers has a first one.
LEMMA FirstIsLeast ==
  ASSUME NEW S \in SUBSET Nat, S # {}
  PROVE  First(S) \in S /\ \A d \in S : First(S) <= d
<1>1. PICK x \in S : \A y \in S : ~ (<<y, x>> \in OpToRel(<, Nat))
  BY NatLessThanWellFounded, WFMin
<1>2. ASSUME NEW y \in S
      PROVE  x <= y
  <2>1. ~ (<<y, x>> \in OpToRel(<, Nat))
    BY <1>1, <1>2, Zenon
  <2>2. ~ (y < x)
    BY <2>1 DEF OpToRel
  <2> QED BY <2>2
<1> QED BY <1>2 DEF First

\* A remainder of two is 0 or 1.
LEMMA ParityIsBit ==
  ASSUME NEW n \in Nat
  PROVE  n % 2 \in {0, 1}
OBVIOUS

\* The parity of a sum.
LEMMA ParityOfSum ==
  ASSUME NEW m \in Nat, NEW n \in Nat
  PROVE  (m + n) % 2 = ((m % 2) + (n % 2)) % 2
OBVIOUS

\* What is in both of two sets does not change the parity of their sum.
LEMMA ParityOfXor ==
  ASSUME NEW A, NEW B, IsFiniteSet(A), IsFiniteSet(B)
  PROVE  /\ IsFiniteSet(Xor(A, B))
         /\ Cardinality(Xor(A, B)) % 2 = ((Cardinality(A) % 2) + (Cardinality(B) % 2)) % 2
<1> DEFINE c == Cardinality(A \cap B)
<1>1. /\ IsFiniteSet(A \ B) /\ Cardinality(A \ B) = Cardinality(A) - c
      /\ IsFiniteSet(B \ A) /\ Cardinality(B \ A) = Cardinality(B) - Cardinality(B \cap A)
  BY FS_Difference
<1>2. B \cap A = A \cap B /\ (B \ A) \cap (A \ B) = {}
  OBVIOUS
<1>3. IsFiniteSet((B \ A) \cup (A \ B))
      /\ Cardinality((B \ A) \cup (A \ B))
           = Cardinality(B \ A) + Cardinality(A \ B) - Cardinality({})
  BY <1>1, <1>2, FS_Union
<1>4. /\ Cardinality(A) \in Nat /\ Cardinality(B) \in Nat /\ c \in Nat
      /\ Cardinality({}) = 0
  BY FS_CardinalityType, FS_Intersection, FS_EmptySet
<1>5. Cardinality((B \ A) \cup (A \ B)) = Cardinality(A) + Cardinality(B) - 2 * c
  <2>1. Cardinality(A \ B) = Cardinality(A) - c /\ Cardinality(B \ A) = Cardinality(B) - c
    BY <1>1, <1>2, Zenon
  <2>2. Cardinality((B \ A) \cup (A \ B)) = (Cardinality(B) - c) + (Cardinality(A) - c) - 0
    BY <1>3, <1>4, <2>1, Zenon
  <2> HIDE DEF c
  <2> QED BY <1>4, <2>2
<1>6. Cardinality((B \ A) \cup (A \ B)) \in Nat
  BY <1>3, FS_CardinalityType
<1>7. Xor(A, B) = (B \ A) \cup (A \ B)
  BY DEF Xor
<1> HIDE DEF c
<1>8. Cardinality(Xor(A, B)) % 2 = (Cardinality(A) + Cardinality(B)) % 2
  BY <1>4, <1>5, <1>6, <1>7
<1> QED BY <1>3, <1>4, <1>7, <1>8, ParityOfSum

\* A product with a vector is a bit.
LEMMA DotIsBit ==
  ASSUME NEW A, NEW v, IsFiniteSet(A)
  PROVE  Dot(A, v) \in {0, 1} /\ Dot(A, v) \in Nat
<1>1. Cardinality(A \cap v) \in Nat
  BY FS_Intersection, FS_CardinalityType
<1> QED BY <1>1, ParityIsBit DEF Dot

\* It is linear in the row.
LEMMA DotIsLinear ==
  ASSUME NEW A, NEW B, NEW v, IsFiniteSet(A), IsFiniteSet(B)
  PROVE  Dot(Xor(A, B), v) = (Dot(A, v) + Dot(B, v)) % 2
<1>1. IsFiniteSet(A \cap v) /\ IsFiniteSet(B \cap v)
  BY FS_Intersection
<1>2. Xor(A, B) \cap v = Xor(A \cap v, B \cap v)
  BY DEF Xor
<1>3. Cardinality(Xor(A \cap v, B \cap v)) % 2
        = ((Cardinality(A \cap v) % 2) + (Cardinality(B \cap v) % 2)) % 2
  BY <1>1, ParityOfXor
<1>4. Cardinality(Xor(A, B) \cap v) % 2
        = ((Cardinality(A \cap v) % 2) + (Cardinality(B \cap v) % 2)) % 2
  BY <1>2, <1>3, Zenon
<1>5. Cardinality(A \cap v) \in Nat /\ Cardinality(B \cap v) \in Nat
  BY <1>1, FS_CardinalityType
<1> QED BY <1>4, <1>5, SMT DEF Dot

\* And linear in the vector.
LEMMA DotIsLinearInVector ==
  ASSUME NEW A, NEW v, NEW w, IsFiniteSet(A)
  PROVE  Dot(A, Xor(v, w)) = (Dot(A, v) + Dot(A, w)) % 2
<1>1. IsFiniteSet(A \cap v) /\ IsFiniteSet(A \cap w)
  BY FS_Intersection
<1>2. A \cap Xor(v, w) = Xor(A \cap v, A \cap w)
  BY DEF Xor
<1>3. Cardinality(Xor(A \cap v, A \cap w)) % 2
        = ((Cardinality(A \cap v) % 2) + (Cardinality(A \cap w) % 2)) % 2
  BY <1>1, ParityOfXor
<1>4. Cardinality(A \cap Xor(v, w)) % 2
        = ((Cardinality(A \cap v) % 2) + (Cardinality(A \cap w) % 2)) % 2
  BY <1>2, <1>3, Zenon
<1>5. Cardinality(A \cap v) \in Nat /\ Cardinality(A \cap w) \in Nat
  BY <1>1, FS_CardinalityType
<1> QED BY <1>4, <1>5, SMT DEF Dot

\* One more column that the vector does not have yet.
LEMMA DotWithOneMore ==
  ASSUME NEW A, NEW v, NEW c, IsFiniteSet(A), c \notin v
  PROVE  Dot(A, v \cup {c}) = IF c \in A THEN (1 + Dot(A, v)) % 2 ELSE Dot(A, v)
<1>1. IsFiniteSet(A \cap v) /\ Cardinality(A \cap v) \in Nat
  BY FS_Intersection, FS_CardinalityType
<1>2. CASE c \in A
  <2>1. A \cap (v \cup {c}) = (A \cap v) \cup {c} /\ c \notin A \cap v
    BY <1>2
  <2>2. Cardinality(A \cap (v \cup {c})) = Cardinality(A \cap v) + 1
    BY <1>1, <2>1, FS_AddElement
  <2>3. (Cardinality(A \cap v) + 1) % 2 = (1 + (Cardinality(A \cap v) % 2)) % 2
    BY <1>1
  <2>4. Cardinality(A \cap (v \cup {c})) % 2 = (1 + (Cardinality(A \cap v) % 2)) % 2
    BY <2>2, <2>3, Zenon
  <2>5. Dot(A, v \cup {c}) = (1 + Dot(A, v)) % 2
    BY <1>1, <2>4, SMT DEF Dot
  <2> QED BY <1>2, <2>5, Zenon
<1>3. CASE c \notin A
  <2>1. A \cap (v \cup {c}) = A \cap v
    BY <1>3
  <2>2. Dot(A, v \cup {c}) = Dot(A, v)
    BY <2>1, Zenon DEF Dot
  <2> QED BY <1>3, <2>2, Zenon
<1> QED BY <1>2, <1>3

-----------------------------------------------------------------------------
(***************************************************************************)
(* Rows                                                                    *)
(***************************************************************************)
Solves(matrix, v) == \A i \in DOMAIN matrix : Dot(matrix[i], v) = 0

\* Row i begins at column c, and the rows below it begin further to the right.
Leads(matrix, i, c) ==
  /\ c \in matrix[i] /\ \A d \in matrix[i] : c <= d
  /\ \A j \in DOMAIN matrix : j > i => \A d \in matrix[j] : c < d

\* The rows before r begin before column limit, each one to the right of those above.
Stairs(matrix, r, limit) == \A i \in 0 .. r - 1 : \E c \in 0 .. limit - 1 : Leads(matrix, i, c)

\* The rows from r are empty up to column c.
Beyond(matrix, r, c) == \A i \in DOMAIN matrix : i >= r => \A d \in matrix[i] : d >= c

\* The order of the equations does not matter.
LEMMA SwapKeepsSolutions ==
  ASSUME NEW m, NEW r \in DOMAIN m, NEW s \in DOMAIN m, NEW v
  PROVE  Solves(Swapped(m, r, s), v) <=> Solves(m, v)
<1> DEFINE m1 == Swapped(m, r, s)
<1>1. /\ DOMAIN m1 = DOMAIN m
      /\ \A i \in DOMAIN m : m1[i] = IF i = s THEN m[r] ELSE IF i = r THEN m[s] ELSE m[i]
  BY DEF Swapped
<1> HIDE DEF m1
<1>2. ASSUME Solves(m, v) PROVE Solves(m1, v)
  BY <1>1, <1>2 DEF Solves
<1>3. ASSUME Solves(m1, v) PROVE Solves(m, v)
  <2>1. ASSUME NEW i \in DOMAIN m PROVE Dot(m[i], v) = 0
    <3>1. CASE i = r
      BY <1>1, <1>3, <3>1 DEF Solves
    <3>2. CASE i = s
      BY <1>1, <1>3, <3>2 DEF Solves
    <3>3. CASE i # r /\ i # s
      BY <1>1, <1>3, <2>1, <3>3 DEF Solves
    <3> QED BY <3>1, <3>2, <3>3
  <2> QED BY <2>1 DEF Solves
<1> QED BY <1>2, <1>3 DEF m1

\* Nor does it matter whether an equation is added to others.
LEMMA ClearKeepsSolutions ==
  ASSUME NEW m, NEW r \in DOMAIN m, NEW c, NEW v,
         DOMAIN m \subseteq Nat, \A i \in DOMAIN m : IsFiniteSet(m[i])
  PROVE  Solves(Cleared(m, r, c), v) <=> Solves(m, v)
<1> DEFINE m1 == Cleared(m, r, c)
<1>1. /\ DOMAIN m1 = DOMAIN m
      /\ \A i \in DOMAIN m : m1[i] = IF i > r /\ c \in m[i] THEN Xor(m[i], m[r]) ELSE m[i]
  BY DEF Cleared
<1>2. m1[r] = m[r]
  BY <1>1
<1> HIDE DEF m1
<1>3. ASSUME NEW i \in DOMAIN m, Dot(m[r], v) = 0
      PROVE  Dot(Xor(m[i], m[r]), v) = Dot(m[i], v)
  <2>1. Dot(Xor(m[i], m[r]), v) = (Dot(m[i], v) + Dot(m[r], v)) % 2
    BY DotIsLinear
  <2>2. Dot(m[i], v) \in {0, 1}
    BY DotIsBit
  <2> QED BY <1>3, <2>1, <2>2
<1>4. ASSUME Dot(m[r], v) = 0, NEW i \in DOMAIN m
      PROVE  Dot(m1[i], v) = Dot(m[i], v)
  BY <1>1, <1>3, <1>4, Zenon
<1>5. Solves(m, v) => Dot(m[r], v) = 0
  BY DEF Solves
<1>6. Solves(m1, v) => Dot(m[r], v) = 0
  BY <1>1, <1>2 DEF Solves
<1> QED BY <1>1, <1>4, <1>5, <1>6 DEF Solves, m1

\* A solution of the extended rows is one of the system.
LEMMA ExtendedSolutions ==
  ASSUME NEW m, NEW k \in SUBSET DOMAIN m, NEW p, NEW x, p \notin x,
         \A i \in DOMAIN m : IsFiniteSet(m[i]) /\ p \notin m[i]
  PROVE  Solves(Extended(m, k, p), x \cup {p}) <=> Product(m, x) = k
<1> DEFINE e == Extended(m, k, p)
<1>1. /\ DOMAIN e = DOMAIN m
      /\ \A i \in DOMAIN m : e[i] = m[i] \cup (IF i \in k THEN {p} ELSE {})
  BY DEF Extended
<1> HIDE DEF e
<1>2. ASSUME NEW i \in DOMAIN m
      PROVE  Dot(e[i], x \cup {p}) = 0 <=> (Dot(m[i], x) = 1 <=> i \in k)
  <2>1. IsFiniteSet(e[i]) /\ p \in e[i] <=> i \in k
    BY <1>1, FS_AddElement
  <2>2. IsFiniteSet(e[i])
    <3>1. CASE i \in k
      BY <1>1, <3>1, FS_AddElement
    <3>2. CASE i \notin k
      <4>1. e[i] = m[i]
        BY <1>1, <3>2
      <4> QED BY <4>1
    <3> QED BY <3>1, <3>2
  <2>3. e[i] \cap x = m[i] \cap x
    BY <1>1
  <2>4. Dot(e[i], x) = Dot(m[i], x)
    BY <2>3, Zenon DEF Dot
  <2>5. Dot(e[i], x \cup {p}) = IF p \in e[i] THEN (1 + Dot(m[i], x)) % 2 ELSE Dot(m[i], x)
    BY <2>2, <2>4, DotWithOneMore, Zenon
  <2>6. p \in e[i] <=> i \in k
    BY <1>1
  <2>7. Dot(m[i], x) = 0 \/ Dot(m[i], x) = 1
    BY DotIsBit
  <2> QED BY <2>5, <2>6, <2>7
<1>3. Solves(e, x \cup {p}) <=> \A i \in DOMAIN m : Dot(m[i], x) = 1 <=> i \in k
  BY <1>1, <1>2, Zenon DEF Solves
<1>4. Product(m, x) = k <=> \A i \in DOMAIN m : Dot(m[i], x) = 1 <=> i \in k
  BY DEF Product
<1> QED BY <1>3, <1>4 DEF e

\* One turn of the elimination with a pivot: one more row leads.
LEMMA EliminationStep ==
  ASSUME NEW n \in Nat, NEW p \in Nat, NEW m \in [0 .. n - 1 -> SUBSET (0 .. p)],
         NEW r \in 0 .. n - 1, NEW c \in 0 .. p - 1, Pivots(m, r, c) # {},
         Stairs(m, r, c), Beyond(m, r, c)
  PROVE  LET e == Cleared(Swapped(m, r, First(Pivots(m, r, c))), r, c)
         IN  /\ e \in [0 .. n - 1 -> SUBSET (0 .. p)]
             /\ Stairs(e, r + 1, c + 1) /\ Beyond(e, r + 1, c + 1)
             /\ \A v : Solves(e, v) <=> Solves(m, v)
<1> DEFINE s == First(Pivots(m, r, c))
           m1 == Swapped(m, r, s)
           e == Cleared(m1, r, c)
<1>1. s \in 0 .. n - 1 /\ s >= r /\ c \in m[s]
  <2>1. Pivots(m, r, c) \in SUBSET Nat
    BY DEF Pivots
  <2>2. s \in Pivots(m, r, c)
    BY <2>1, FirstIsLeast
  <2> QED BY <2>2 DEF Pivots
<1> HIDE DEF s
<1>2. /\ DOMAIN m1 = 0 .. n - 1
      /\ \A i \in 0 .. n - 1 : m1[i] = IF i = s THEN m[r] ELSE IF i = r THEN m[s] ELSE m[i]
      /\ m1 \in [0 .. n - 1 -> SUBSET (0 .. p)]
  BY <1>1 DEF Swapped
<1>3. m1[r] = m[s]
  BY <1>1, <1>2
<1>4. \A v : Solves(m1, v) <=> Solves(m, v)
  BY <1>1, SwapKeepsSolutions
<1>5. Beyond(m1, r, c) /\ Stairs(m1, r, c)
  <2>1. Beyond(m1, r, c)
    BY <1>1, <1>2 DEF Beyond
  <2>2. ASSUME NEW i \in 0 .. r - 1
        PROVE  \E l \in 0 .. c - 1 : Leads(m1, i, l)
    <3>1. PICK l \in 0 .. c - 1 : Leads(m, i, l)
      BY DEF Stairs
    <3>2. m1[i] = m[i]
      BY <1>1, <1>2
    <3>3. ASSUME NEW j \in 0 .. n - 1, j > i, NEW d \in m1[j]
          PROVE  l < d
      BY <1>1, <1>2, <3>1, <3>3 DEF Leads
    <3> QED BY <1>2, <3>1, <3>2, <3>3 DEF Leads
  <2> QED BY <2>1, <2>2 DEF Stairs
<1> HIDE DEF m1
<1>6. /\ DOMAIN e = 0 .. n - 1
      /\ \A i \in 0 .. n - 1 : e[i] = IF i > r /\ c \in m1[i] THEN Xor(m1[i], m1[r]) ELSE m1[i]
      /\ e \in [0 .. n - 1 -> SUBSET (0 .. p)]
  BY <1>2 DEF Cleared, Xor
<1>7. \A v : Solves(e, v) <=> Solves(m1, v)
  <2>1. \A i \in 0 .. n - 1 : IsFiniteSet(m1[i])
    <3>1. IsFiniteSet(0 .. p)
      BY FS_Interval
    <3>2. \A i \in 0 .. n - 1 : m1[i] \in SUBSET (0 .. p)
      BY <1>2
    <3> QED BY <3>1, <3>2, FS_Subset
  <2>2. DOMAIN m1 \subseteq Nat /\ r \in DOMAIN m1 /\ \A i \in DOMAIN m1 : IsFiniteSet(m1[i])
    BY <1>2, <2>1
  <2> QED BY <2>2, ClearKeepsSolutions, Zenon
<1> HIDE DEF e
<1>8. e[r] = m1[r] /\ \A i \in 0 .. r - 1 : e[i] = m1[i]
  BY <1>6
<1>9. \A i \in 0 .. n - 1 : i > r => e[i] \subseteq m1[i] \cup m1[r] /\ c \notin e[i]
  BY <1>1, <1>3, <1>6 DEF Xor
<1>10. \A i \in 0 .. n - 1 : i > r => \A d \in e[i] : d > c
  <2>1. ASSUME NEW i \in 0 .. n - 1, i > r, NEW d \in e[i] PROVE d > c
    <3>1. d \in m1[i] \cup m1[r] /\ d # c
      BY <1>9, <2>1
    <3>2. d >= c /\ d \in Nat
      BY <1>2, <1>5, <2>1, <3>1 DEF Beyond
    <3> QED BY <3>1, <3>2
  <2> QED BY <2>1
<1>11. Leads(e, r, c)
  BY <1>1, <1>2, <1>3, <1>5, <1>6, <1>8, <1>10 DEF Leads, Beyond
<1>12. ASSUME NEW i \in 0 .. r - 1
       PROVE  \E l \in 0 .. c - 1 : Leads(e, i, l)
  <2>1. PICK l \in 0 .. c - 1 : Leads(m1, i, l)
    BY <1>5 DEF Stairs
  <2>2. e[i] = m1[i]
    BY <1>8
  <2>3. ASSUME NEW j \in 0 .. n - 1, j > i, NEW d \in e[j]
        PROVE  l < d
    <3>1. d \in m1[j] \/ d \in m1[r]
      BY <1>6, <2>3 DEF Xor
    <3> QED BY <1>2, <2>1, <2>3, <3>1 DEF Leads
  <2> QED BY <1>2, <1>6, <2>1, <2>2, <2>3 DEF Leads
<1>13. Stairs(e, r + 1, c + 1)
  <2>1. ASSUME NEW i \in 0 .. r PROVE \E l \in 0 .. c : Leads(e, i, l)
    <3>1. CASE i = r
      BY <1>11, <3>1
    <3>2. CASE i # r
      BY <1>12, <3>2
    <3> QED BY <3>1, <3>2
  <2> QED BY <2>1 DEF Stairs
<1>14. Beyond(e, r + 1, c + 1)
  BY <1>6, <1>10 DEF Beyond
<1> QED BY <1>4, <1>6, <1>7, <1>13, <1>14 DEF e, m1, s

\* One turn of the solver: whatever is drawn for the free columns, the first column
\* of the row makes it right.
LEMMA SolverStep ==
  ASSUME NEW p \in Nat, NEW A \in SUBSET (0 .. p), NEW c \in A, c < p,
         NEW known \in SUBSET (c + 1 .. p - 1),
         NEW value, value = ((IF p \in A THEN 1 ELSE 0) + Dot(A \ {c}, known)) % 2
  PROVE  Dot(A, known \cup (IF value = 1 THEN {c} ELSE {}) \cup {p}) = 0
<1> DEFINE new == known \cup (IF value = 1 THEN {c} ELSE {})
<1>1. IsFiniteSet(A)
  <2>1. IsFiniteSet(0 .. p)
    BY FS_Interval
  <2> QED BY <2>1, FS_Subset
<1>2. c \in Nat /\ c \notin known /\ p \notin known /\ p \notin new
  OBVIOUS
<1>3. (A \ {c}) \cap known = A \cap known
  BY <1>2
<1>4. Dot(A \ {c}, known) = Dot(A, known)
  BY <1>3, Zenon DEF Dot
<1>5. Dot(A, known) = 0 \/ Dot(A, known) = 1
  BY <1>1, DotIsBit
<1>6. Dot(A, known \cup {c}) = (1 + Dot(A, known)) % 2
  BY <1>1, <1>2, DotWithOneMore
<1>7. value = ((IF p \in A THEN 1 ELSE 0) + Dot(A, known)) % 2
  BY <1>4
<1>8. Dot(A, new) = IF value = 1 THEN (1 + Dot(A, known)) % 2 ELSE Dot(A, known)
  <2>1. CASE value = 1
    BY <1>6, <2>1
  <2>2. CASE value # 1
    <3>1. new = known
      BY <2>2
    <3> HIDE DEF new
    <3> QED BY <2>2, <3>1
  <2> QED BY <2>1, <2>2
<1>9. Dot(A, new \cup {p}) = IF p \in A THEN (1 + Dot(A, new)) % 2 ELSE Dot(A, new)
  BY <1>1, <1>2, DotWithOneMore, Zenon
<1> HIDE DEF new
<1>10. Dot(A, new \cup {p}) = 0
  <2>1. CASE p \in A /\ Dot(A, known) = 0
    BY <1>7, <1>8, <1>9, <2>1
  <2>2. CASE p \in A /\ Dot(A, known) = 1
    BY <1>7, <1>8, <1>9, <2>2
  <2>3. CASE p \notin A /\ Dot(A, known) = 0
    BY <1>7, <1>8, <1>9, <2>3
  <2>4. CASE p \notin A /\ Dot(A, known) = 1
    BY <1>7, <1>8, <1>9, <2>4
  <2> QED BY <1>5, <2>1, <2>2, <2>3, <2>4
<1> QED BY <1>10 DEF new

-----------------------------------------------------------------------------
(***************************************************************************)
(* Packing                                                                 *)
(***************************************************************************)

\* The dry columns get different places, within the packed ones.
LEMMA PackingIsInjective ==
  ASSUME dry \subseteq Columns
  PROVE  /\ IsFiniteSet(dry) /\ PackedColumns \in Nat
         /\ \A c \in dry : /\ PackedColumn(c) \in 0 .. PackedColumns - 1
                           /\ PackedColumn(c) \in 0 .. Cardinality(dry) - 1
         /\ \A c, d \in dry : PackedColumn(c) = PackedColumn(d) => c = d
<1>1. IsFiniteSet(dry)
  <2>1. IsFiniteSet(Columns)
    BY CodingAssumption, FS_Interval DEF Columns
  <2> QED BY <2>1, FS_Subset
<1>2. Cardinality(dry) \in Nat
  BY <1>1, FS_CardinalityType
<1>3. PackedColumns \in Nat /\ PackedColumns >= Cardinality(dry)
  BY <1>2, CodingAssumption, LGMIsLeastMultiple DEF PackedColumns
<1>4. ASSUME NEW c \in dry, NEW S \in SUBSET dry,
             \A e \in dry : e < c => e \in S, c \in S
      PROVE  PackedColumn(c) \in Nat /\ PackedColumn(c) < Cardinality(S)
  <2> DEFINE T == {e \in dry : e < c}
  <2>1. T \in SUBSET S
    BY <1>4
  <2>6. c \in Int /\ ~ (c < c)
    BY CodingAssumption DEF Columns
  <2>7. T # S
    BY <1>4, <2>6
  <2>2. IsFiniteSet(S) /\ Cardinality(S) \in Nat
    BY <1>1, FS_Subset, FS_CardinalityType
  <2>3. IsFiniteSet(T) /\ Cardinality(T) <= Cardinality(S) /\ Cardinality(S) # Cardinality(T)
    BY <2>1, <2>2, <2>7, FS_Subset
  <2>4. Cardinality(T) \in Nat
    BY <2>3, FS_CardinalityType
  <2>5. PackedColumn(c) = Cardinality(T)
    BY DEF PackedColumn
  <2> HIDE DEF T
  <2> QED BY <2>2, <2>3, <2>4, <2>5
<1>5. ASSUME NEW c \in dry
      PROVE  /\ PackedColumn(c) \in 0 .. PackedColumns - 1
             /\ PackedColumn(c) \in 0 .. Cardinality(dry) - 1
  <2>1. PackedColumn(c) \in Nat /\ PackedColumn(c) < Cardinality(dry)
    BY <1>4
  <2> QED BY <1>2, <1>3, <2>1
<1>6. ASSUME NEW c \in dry, NEW d \in dry, c < d
      PROVE  PackedColumn(c) # PackedColumn(d)
  <2> DEFINE S == {e \in dry : e < d}
  <2>1. c \in S /\ \A e \in dry : e < c => e \in S
    BY <1>6, CodingAssumption DEF Columns
  <2>2. PackedColumn(c) \in Nat /\ PackedColumn(c) < Cardinality(S)
    BY <1>4, <2>1
  <2>3. PackedColumn(d) = Cardinality(S)
    BY DEF PackedColumn
  <2>4. Cardinality(S) \in Nat
    BY <1>1, FS_Subset, FS_CardinalityType
  <2> HIDE DEF S
  <2> QED BY <2>2, <2>3, <2>4
<1>7. ASSUME NEW c \in dry, NEW d \in dry, PackedColumn(c) = PackedColumn(d)
      PROVE  c = d
  <2>1. c \in Int /\ d \in Int
    BY CodingAssumption DEF Columns
  <2>2. ~ (c < d) /\ ~ (d < c)
    BY <1>6, <1>7
  <2> QED BY <2>1, <2>2
<1> QED BY <1>1, <1>3, <1>5, <1>7

\* Unpacked, a solution meets a row where it met the packed one.
LEMMA UnpackedSolution ==
  ASSUME dry \subseteq Columns, NEW A \in SUBSET Columns, NEW x
  PROVE  Dot(A, {c \in dry : PackedColumn(c) \in x}) = Dot({PackedColumn(c) : c \in A \cap dry}, x)
<1> DEFINE S == A \cap {c \in dry : PackedColumn(c) \in x}
           T == {PackedColumn(c) : c \in A \cap dry} \cap x
           f == [c \in S |-> PackedColumn(c)]
<1>1. \A c, d \in dry : PackedColumn(c) = PackedColumn(d) => c = d
  BY PackingIsInjective
<1>2. f \in [S -> T] /\ \A c, d \in S : f[c] = f[d] => c = d
  BY <1>1
<1>3. \A t \in T : \E c \in S : f[c] = t
  OBVIOUS
<1> HIDE DEF f, S, T
<1>4. f \in Bijection(S, T)
  BY <1>2, <1>3 DEF Bijection, Injection, Surjection, IsInjective
<1>5. IsFiniteSet(S)
  BY PackingIsInjective, FS_Subset DEF S
<1>6. Cardinality(T) = Cardinality(S)
  BY <1>4, <1>5, FS_Bijection DEF ExistsBijection
<1> QED BY <1>6, Zenon DEF Dot, S, T

-----------------------------------------------------------------------------
(***************************************************************************)
(* The inductive invariant                                                 *)
(***************************************************************************)

\* A code matrix has the rows of its header, until one of those is dropped.
Shape ==
  /\ NoOfRows \in Nat /\ code \in [0 .. NoOfRows - 1 -> SUBSET Columns]
  /\ phase # "failed" => HeaderSize <= NoOfRows
  /\ dry \subseteq Columns /\ message \subseteq Nat
  /\ phase \in {"encode", "eliminate", "solve", "done", "failed", "crashed"}

\* The rows that are worked on have the solutions of the system.
Equivalent ==
  /\ extended \in [0 .. NoOfRows - 1 -> SUBSET (0 .. PackedColumns)]
  /\ \A x \in SUBSET (0 .. PackedColumns - 1) :
       Solves(extended, x \cup {PackedColumns}) <=> Product(DrySubmatrix, x) = DeltaMatrix

\* The staircase is built from the top,
Built ==
  /\ CurrentRow \in 0 .. NoOfRows - 1 /\ column \in 0 .. PackedColumns
  /\ Stairs(extended, CurrentRow, column) /\ Beyond(extended, CurrentRow, column)

\* and climbed from the bottom.
Climbed ==
  /\ row \in -1 .. NoOfRows - 1 /\ FirstEvaluatedVariable \in 0 .. PackedColumns
  /\ Stairs(extended, NoOfRows, PackedColumns)
  /\ row < NoOfRows - 1 => Leads(extended, row + 1, FirstEvaluatedVariable)
  /\ row = NoOfRows - 1 => FirstEvaluatedVariable = PackedColumns
  /\ solution \subseteq FirstEvaluatedVariable .. PackedColumns - 1
  /\ \A i \in row + 1 .. NoOfRows - 1 :
       /\ Dot(extended[i], solution \cup {PackedColumns}) = 0
       /\ \A c \in extended[i] : c >= FirstEvaluatedVariable

CodingInvariant ==
  /\ Shape
  /\ phase \in {"eliminate", "solve"} => Equivalent
  /\ phase = "eliminate" => Built
  /\ phase = "solve" => Climbed
  /\ phase = "done" => RunCarriesItsBits

-----------------------------------------------------------------------------
\* A matrix of n rows has n rows.
LEMMA RowsAreCounted ==
  ASSUME NEW n \in Nat
  PROVE  Cardinality(0 .. n - 1) = n
<1>1. 0 \in Int /\ n - 1 \in Int
  OBVIOUS
<1>2. Cardinality(0 .. n - 1) = IF 0 > n - 1 THEN 0 ELSE (n - 1) - 0 + 1
  BY <1>1, FS_Interval
<1> QED BY <1>2

\* What depends on the code matrix and the inputs only.
LEMMA SystemStays ==
  ASSUME UNCHANGED <<code, inputs>>
  PROVE  /\ NoOfRows' = NoOfRows /\ PackedColumns' = PackedColumns
         /\ DrySubmatrix' = DrySubmatrix /\ DeltaMatrix' = DeltaMatrix
         /\ EncodedMessage' = EncodedMessage
BY DEF inputs, NoOfRows, PackedColumns, PackedColumn, DrySubmatrix, DeltaMatrix, EncodedMessage, DataRows

\* And so the shape.
LEMMA ShapeStays ==
  ASSUME Shape, UNCHANGED <<code, inputs>>, phase' # "failed",
         phase' \in {"encode", "eliminate", "solve", "done", "crashed"}, phase # "failed"
  PROVE  Shape'
BY SystemStays DEF Shape, inputs

\* The constants are those of rows, and the dry columns are packed columns.
LEMMA SystemFits ==
  ASSUME Shape, phase # "failed"
  PROVE  /\ DOMAIN code = 0 .. NoOfRows - 1 /\ DOMAIN DrySubmatrix = 0 .. NoOfRows - 1
         /\ EncodedMessage \subseteq 0 .. NoOfRows - 1 /\ DeltaMatrix \subseteq 0 .. NoOfRows - 1
         /\ PackedColumns \in Nat
         /\ \A i \in 0 .. NoOfRows - 1 : DrySubmatrix[i] \in SUBSET (0 .. PackedColumns - 1)
<1>1. DOMAIN code = 0 .. NoOfRows - 1 /\ DOMAIN DrySubmatrix = 0 .. NoOfRows - 1
  BY DEF Shape, DrySubmatrix
<1>2. HeaderSize \in Nat /\ HeaderSize <= NoOfRows /\ NoOfRows \in Nat /\ message \subseteq Nat
  BY CodingAssumption DEF Shape
<1>3. EncodedMessage \subseteq 0 .. NoOfRows - 1
  <2>1. \A k \in 0 .. HeaderSize - 1 : k \in 0 .. NoOfRows - 1
    BY <1>2
  <2>2. \A j \in message : j < DataRows => HeaderSize + j \in 0 .. NoOfRows - 1
    BY <1>2 DEF DataRows
  <2> QED BY <2>1, <2>2 DEF EncodedMessage
<1>4. Product(code, parities) \subseteq 0 .. NoOfRows - 1
  BY <1>1 DEF Product
<1>5. DeltaMatrix \subseteq 0 .. NoOfRows - 1
  BY <1>3, <1>4 DEF DeltaMatrix, Xor
<1>6. PackedColumns \in Nat /\ \A c \in dry : PackedColumn(c) \in 0 .. PackedColumns - 1
  BY PackingIsInjective DEF Shape
<1>7. ASSUME NEW i \in 0 .. NoOfRows - 1
      PROVE  DrySubmatrix[i] \in SUBSET (0 .. PackedColumns - 1)
  BY <1>1, <1>6 DEF DrySubmatrix
<1> QED BY <1>1, <1>3, <1>5, <1>6, <1>7

\* Before the first step no row has been worked on.
LEMMA InitIsCoded == Init => CodingInvariant
<1> SUFFICES ASSUME Init PROVE CodingInvariant
  OBVIOUS
<1>1. PICK n \in InitialRows : code \in [0 .. n - 1 -> SUBSET Columns]
  BY DEF Init
<1>2. n \in Nat /\ HeaderSize <= n
  BY CodingAssumption
<1>3. NoOfRows = n
  BY <1>1, <1>2, RowsAreCounted DEF NoOfRows
<1>4. message \subseteq Nat
  BY CodingAssumption DEF Init
<1> QED BY <1>1, <1>2, <1>3, <1>4 DEF Init, CodingInvariant, Shape

\* The extended rows have the solutions of the system, and no stair is built yet.
LEMMA EncodeKeepsInvariant ==
  ASSUME CodingInvariant, Encode
  PROVE  CodingInvariant'
<1>1. Shape /\ phase = "encode" /\ phase' = "eliminate" /\ UNCHANGED <<code, inputs>>
  BY DEF CodingInvariant, Encode
<1>2. Shape'
  BY <1>1, ShapeStays
<1>3. /\ DOMAIN DrySubmatrix = 0 .. NoOfRows - 1 /\ DeltaMatrix \subseteq 0 .. NoOfRows - 1
      /\ PackedColumns \in Nat
      /\ \A i \in 0 .. NoOfRows - 1 : DrySubmatrix[i] \in SUBSET (0 .. PackedColumns - 1)
  BY <1>1, SystemFits
<1>4. extended' = Extended(DrySubmatrix, DeltaMatrix, PackedColumns)
  BY DEF Encode
<1> DEFINE m == DrySubmatrix
           p == PackedColumns
           e == Extended(m, DeltaMatrix, p)
<1>5. e \in [0 .. NoOfRows - 1 -> SUBSET (0 .. p)]
  <2>1. ASSUME NEW i \in 0 .. NoOfRows - 1
        PROVE  m[i] \cup (IF i \in DeltaMatrix THEN {p} ELSE {}) \in SUBSET (0 .. p)
    BY <1>3
  <2> QED BY <1>3, <2>1 DEF Extended
<1>6. \A x \in SUBSET (0 .. p - 1) : Solves(e, x \cup {p}) <=> Product(m, x) = DeltaMatrix
  <2>1. IsFiniteSet(0 .. p - 1)
    BY <1>3, FS_Interval
  <2>2. \A i \in DOMAIN m : IsFiniteSet(m[i]) /\ p \notin m[i]
    BY <1>3, <2>1, FS_Subset
  <2>3. ASSUME NEW x \in SUBSET (0 .. p - 1) PROVE p \notin x
    BY <1>3
  <2>4. DeltaMatrix \in SUBSET DOMAIN m
    BY <1>3
  <2> HIDE DEF m, p
  <2> QED BY <2>2, <2>3, <2>4, ExtendedSolutions
<1>7. Equivalent'
  <2>1. /\ NoOfRows' = NoOfRows /\ PackedColumns' = PackedColumns
        /\ DrySubmatrix' = DrySubmatrix /\ DeltaMatrix' = DeltaMatrix
    BY <1>1, SystemStays
  <2> HIDE DEF e
  <2>2. extended' = e
    BY <1>4 DEF e
  <2> QED BY <1>5, <1>6, <2>1, <2>2 DEF Equivalent
<1>8. Built'
  <2>1. NoOfRows' = NoOfRows /\ PackedColumns' = PackedColumns
    BY <1>1, SystemStays
  <2>2. CurrentRow' = 0 /\ column' = 0
    BY DEF Encode
  <2>3. NoOfRows \in Nat /\ NoOfRows >= 1
    BY <1>1, CodingAssumption DEF Shape
  <2>4. Stairs(e, 0, 0)
    BY DEF Stairs
  <2>5. Beyond(e, 0, 0)
    BY <1>3, <1>5 DEF Beyond
  <2> HIDE DEF e
  <2>6. extended' = e
    BY <1>4 DEF e
  <2> QED BY <1>3, <2>1, <2>2, <2>3, <2>4, <2>5, <2>6 DEF Built
<1> QED BY <1>1, <1>2, <1>7, <1>8 DEF CodingInvariant

\* One column of the elimination.
LEMMA EliminateKeepsInvariant ==
  ASSUME CodingInvariant, EliminateColumn
  PROVE  CodingInvariant'
<1>1. /\ Shape /\ Equivalent /\ Built
      /\ phase = "eliminate" /\ phase' = "eliminate" /\ UNCHANGED <<code, inputs>>
  BY DEF CodingInvariant, EliminateColumn
<1>2. Shape'
  BY <1>1, ShapeStays
<1>3. PackedColumns \in Nat /\ NoOfRows \in Nat
  BY <1>1, SystemFits DEF Shape
<1>4. /\ column \in 0 .. PackedColumns - 1 /\ column' = column + 1
      /\ CurrentRow \in 0 .. NoOfRows - 1 /\ CurrentRow # NoOfRows - 1
  BY <1>1, <1>3 DEF Built, EliminateColumn, EliminationOver
<1>5. /\ NoOfRows' = NoOfRows /\ PackedColumns' = PackedColumns
      /\ DrySubmatrix' = DrySubmatrix /\ DeltaMatrix' = DeltaMatrix
  BY <1>1, SystemStays
<1> DEFINE pivots == Pivots(extended, CurrentRow, column)
<1>6. CASE pivots = {}
  <2>1. extended' = extended /\ CurrentRow' = CurrentRow
    BY <1>6 DEF EliminateColumn
  <2>2. Equivalent'
    BY <1>1, <1>5, <2>1 DEF Equivalent
  <2>3. Stairs(extended, CurrentRow, column + 1)
    BY <1>1, <1>4 DEF Built, Stairs
  <2>4. ASSUME NEW i \in 0 .. NoOfRows - 1, i >= CurrentRow, NEW d \in extended[i]
        PROVE  d >= column + 1
    <3>1. d >= column /\ d # column
      BY <1>1, <1>6, <2>4 DEF Built, Beyond, Pivots, Equivalent
    <3>2. d \in Nat
      BY <1>1, <1>3 DEF Equivalent
    <3> QED BY <1>4, <3>1, <3>2
  <2>5. Beyond(extended, CurrentRow, column + 1)
    BY <1>1, <2>4 DEF Beyond, Equivalent
  <2>6. Built'
    BY <1>3, <1>4, <1>5, <2>1, <2>3, <2>5 DEF Built
  <2> QED BY <1>1, <1>2, <2>2, <2>6 DEF CodingInvariant
<1>7. CASE pivots # {}
  <2> DEFINE e == Cleared(Swapped(extended, CurrentRow, First(pivots)), CurrentRow, column)
  <2>1. extended' = e /\ CurrentRow' = CurrentRow + 1
    BY <1>7 DEF EliminateColumn
  <2>2. /\ e \in [0 .. NoOfRows - 1 -> SUBSET (0 .. PackedColumns)]
        /\ Stairs(e, CurrentRow + 1, column + 1) /\ Beyond(e, CurrentRow + 1, column + 1)
        /\ \A v : Solves(e, v) <=> Solves(extended, v)
    BY <1>1, <1>3, <1>4, <1>7, EliminationStep DEF Built, Equivalent
  <2> HIDE DEF e
  <2>3. Equivalent'
    BY <1>1, <1>5, <2>1, <2>2 DEF Equivalent
  <2>4. Built'
    BY <1>3, <1>4, <1>5, <2>1, <2>2 DEF Built
  <2> QED BY <1>1, <1>2, <2>3, <2>4 DEF CodingInvariant
<1> QED BY <1>6, <1>7

\* A dropped row leaves the others.
LEMMA DropKeepsInvariant ==
  ASSUME CodingInvariant, DropRow
  PROVE  CodingInvariant'
<1>1. Shape /\ phase = "eliminate"
  BY DEF CodingInvariant, DropRow
<1>2. NoOfRows \in Nat /\ NoOfRows >= 1 /\ HeaderSize \in Nat
  BY <1>1, CodingAssumption DEF Shape
<1>3. code' = [i \in 0 .. NoOfRows - 2 |-> code[i]]
  BY DEF DropRow
<1>4. NoOfRows' = NoOfRows - 1
  <2>1. DOMAIN code' = 0 .. (NoOfRows - 1) - 1
    BY <1>2, <1>3
  <2>2. NoOfRows - 1 \in Nat
    BY <1>2
  <2> QED BY <2>1, <2>2, RowsAreCounted DEF NoOfRows
<1>5. code' \in [0 .. NoOfRows' - 1 -> SUBSET Columns]
  BY <1>1, <1>2, <1>3, <1>4 DEF Shape
<1>6. phase' = IF NoOfRows - 1 <= HeaderSize THEN "failed" ELSE "encode"
  BY DEF DropRow
<1>7. Shape'
  BY <1>1, <1>2, <1>4, <1>5, <1>6 DEF Shape, DropRow, inputs
<1> QED BY <1>6, <1>7 DEF CodingInvariant

\* Where the elimination is over and the last row is not zero, the staircase goes
\* down to it.
LEMMA StairsReachTheLastRow ==
  ASSUME CodingInvariant, phase = "eliminate", EliminationOver,
         ~ LastRowIsZero(extended, PackedColumns)
  PROVE  Stairs(extended, NoOfRows, PackedColumns)
<1>1. Shape /\ Equivalent /\ Built
  BY DEF CodingInvariant
<1>2. PackedColumns \in Nat /\ NoOfRows \in Nat /\ NoOfRows >= 1
  BY <1>1, SystemFits, CodingAssumption DEF Shape
<1>3. PICK d \in extended[NoOfRows - 1] : d # PackedColumns
  <2>1. Cardinality(DOMAIN extended) = NoOfRows
    BY <1>1, <1>2, RowsAreCounted DEF Equivalent
  <2> QED BY <2>1 DEF LastRowIsZero
<1>4. NoOfRows - 1 \in 0 .. NoOfRows - 1 /\ extended[NoOfRows - 1] \in SUBSET (0 .. PackedColumns)
  BY <1>1, <1>2 DEF Equivalent
<1>5. d \in 0 .. PackedColumns - 1 /\ d >= column /\ column \in Nat
  BY <1>1, <1>2, <1>3, <1>4 DEF Built, Beyond, Equivalent
<1>6. CurrentRow = NoOfRows - 1
  <2>1. column # PackedColumns
    BY <1>2, <1>5
  <2> QED BY <2>1 DEF EliminationOver
<1>7. PICK c \in extended[NoOfRows - 1] : \A b \in extended[NoOfRows - 1] : c <= b
  <2>1. extended[NoOfRows - 1] \in SUBSET Nat /\ extended[NoOfRows - 1] # {}
    BY <1>2, <1>3, <1>4
  <2> QED BY <2>1, FirstIsLeast
<1>8. c \in 0 .. PackedColumns - 1
  BY <1>2, <1>3, <1>4, <1>5, <1>7
<1>9. Leads(extended, NoOfRows - 1, c)
  <2>1. \A j \in DOMAIN extended : ~ (j > NoOfRows - 1)
    BY <1>1, <1>2 DEF Equivalent
  <2> QED BY <1>7, <2>1 DEF Leads
<1>10. Stairs(extended, NoOfRows, PackedColumns)
  <2>1. ASSUME NEW i \in 0 .. NoOfRows - 1
        PROVE  \E b \in 0 .. PackedColumns - 1 : Leads(extended, i, b)
    <3>1. CASE i = NoOfRows - 1
      BY <1>8, <1>9, <3>1
    <3>2. CASE i # NoOfRows - 1
      <4>1. i \in 0 .. CurrentRow - 1
        BY <1>2, <1>6, <3>2
      <4>2. PICK b \in 0 .. column - 1 : Leads(extended, i, b)
        BY <1>1, <4>1 DEF Built, Stairs
      <4>3. b \in 0 .. PackedColumns - 1
        BY <1>1, <1>2 DEF Built
      <4> QED BY <4>2, <4>3
    <3> QED BY <3>1, <3>2
  <2> QED BY <2>1 DEF Stairs
<1> QED BY <1>10

\* An accepted matrix is a staircase down to its last row.
LEMMA AcceptKeepsInvariant ==
  ASSUME CodingInvariant, Accept
  PROVE  CodingInvariant'
<1>1. /\ Shape /\ Equivalent
      /\ phase = "eliminate" /\ phase' = "solve" /\ UNCHANGED <<code, inputs>>
  BY DEF CodingInvariant, Accept
<1>2. Shape'
  BY <1>1, ShapeStays
<1>3. PackedColumns \in Nat /\ NoOfRows \in Nat /\ NoOfRows >= 1
  BY <1>1, SystemFits, CodingAssumption DEF Shape
<1>4. /\ NoOfRows' = NoOfRows /\ PackedColumns' = PackedColumns
      /\ DrySubmatrix' = DrySubmatrix /\ DeltaMatrix' = DeltaMatrix
  BY <1>1, SystemStays
<1>5. extended' = extended
  BY DEF Accept, elimination
<1>6. Equivalent'
  BY <1>1, <1>4, <1>5 DEF Equivalent
<1>7. Stairs(extended, NoOfRows, PackedColumns)
  BY <1>1, StairsReachTheLastRow DEF Accept
<1>8. Climbed'
  <2>1. row' = NoOfRows - 1 /\ solution' = {} /\ FirstEvaluatedVariable' = PackedColumns
    BY DEF Accept
  <2> QED BY <1>3, <1>4, <1>5, <1>7, <2>1 DEF Climbed
<1> QED BY <1>1, <1>2, <1>6, <1>8 DEF CodingInvariant

\* One row of the solver: it is solved, and those below stay solved.
LEMMA SolveKeepsInvariant ==
  ASSUME CodingInvariant, SolveRow
  PROVE  CodingInvariant'
<1>1. /\ Shape /\ Equivalent /\ Climbed
      /\ phase = "solve" /\ phase' = "solve" /\ UNCHANGED <<code, inputs>>
  BY DEF CodingInvariant, SolveRow
<1>2. Shape'
  BY <1>1, ShapeStays
<1>3. PackedColumns \in Nat /\ NoOfRows \in Nat
  BY <1>1, SystemFits DEF Shape
<1>4. /\ NoOfRows' = NoOfRows /\ PackedColumns' = PackedColumns
      /\ DrySubmatrix' = DrySubmatrix /\ DeltaMatrix' = DeltaMatrix
  BY <1>1, SystemStays
<1>5. extended' = extended /\ row' = row - 1 /\ row \in 0 .. NoOfRows - 1
  BY <1>1, <1>3 DEF SolveRow, elimination, Climbed
<1>6. Equivalent'
  BY <1>1, <1>4, <1>5 DEF Equivalent
<1> DEFINE A == extended[row]
           p == PackedColumns
<1>7. A \in SUBSET (0 .. p) /\ DOMAIN extended = 0 .. NoOfRows - 1
  BY <1>1, <1>5 DEF Equivalent
<1>8. PICK c \in 0 .. p - 1 : Leads(extended, row, c)
  BY <1>1, <1>5 DEF Climbed, Stairs
<1>9. c \in A /\ \A d \in A : c <= d
  BY <1>8 DEF Leads
<1>10. First(A \ {p}) = c
  <2>1. A \ {p} \in SUBSET Nat /\ c \in A \ {p}
    BY <1>3, <1>7, <1>9
  <2>2. First(A \ {p}) \in A \ {p} /\ First(A \ {p}) <= c
    BY <2>1, FirstIsLeast
  <2>3. First(A \ {p}) \in Nat /\ c \in Nat /\ c <= First(A \ {p})
    BY <1>9, <2>1, <2>2
  <2> QED BY <2>2, <2>3
<1>11. c < FirstEvaluatedVariable /\ FirstEvaluatedVariable \in 0 .. p
  <2>1. CASE row = NoOfRows - 1
    BY <1>1, <1>3, <2>1 DEF Climbed
  <2>2. CASE row # NoOfRows - 1
    <3>1. row + 1 \in DOMAIN extended /\ row + 1 > row /\ row < NoOfRows - 1
      BY <1>3, <1>5, <1>7, <2>2
    <3>2. FirstEvaluatedVariable \in extended[row + 1]
      BY <1>1, <3>1 DEF Climbed, Leads
    <3> QED BY <1>1, <1>8, <3>1, <3>2 DEF Leads, Climbed
  <2> QED BY <2>1, <2>2
<1> DEFINE free == {l \in 0 .. p - 1 : c < l /\ l < FirstEvaluatedVariable}
           constant == IF p \in A THEN 1 ELSE 0
           value(known) == (constant + Dot(A \ {c}, known)) % 2
<1>12. /\ FirstEvaluatedVariable' = c
       /\ \E random \in SUBSET free :
            solution' = solution \cup random
                          \cup (IF value(solution \cup random) = 1 THEN {c} ELSE {})
  BY <1>10, Zenon DEF SolveRow
<1>13. PICK random \in SUBSET free :
         solution' = solution \cup random
                       \cup (IF value(solution \cup random) = 1 THEN {c} ELSE {})
  BY <1>12
<1> DEFINE known == solution \cup random
<1>14. known \in SUBSET (c + 1 .. p - 1)
  BY <1>1, <1>3, <1>11 DEF Climbed
<1>15. Dot(A, solution' \cup {p}) = 0
  <2>1. A \in SUBSET (0 .. p) /\ c \in A /\ c < p /\ p \in Nat
    BY <1>3, <1>7, <1>9
  <2>2. solution' = known \cup (IF value(known) = 1 THEN {c} ELSE {})
    BY <1>13
  <2>3. value(known) = ((IF p \in A THEN 1 ELSE 0) + Dot(A \ {c}, known)) % 2
    OBVIOUS
  <2> HIDE DEF A, p, known, value
  <2> QED BY <1>14, <2>1, <2>2, <2>3, SolverStep
<1>16. solution' \subseteq c .. p - 1
       /\ \A l \in solution' : l \in solution \/ l < FirstEvaluatedVariable
  BY <1>1, <1>3, <1>11, <1>13, <1>14
<1>17. solution \subseteq solution'
  BY <1>13
<1>18. ASSUME NEW i \in row + 1 .. NoOfRows - 1
       PROVE  /\ Dot(extended[i], solution' \cup {p}) = 0
              /\ \A d \in extended[i] : d >= c
  <2>1. /\ Dot(extended[i], solution \cup {p}) = 0
        /\ \A d \in extended[i] : d >= FirstEvaluatedVariable /\ d \in 0 .. p
    <3>1. i \in 0 .. NoOfRows - 1
      BY <1>3, <1>5
    <3>2. extended[i] \in SUBSET (0 .. p)
      BY <1>1, <3>1 DEF Equivalent
    <3>3. /\ Dot(extended[i], solution \cup {p}) = 0
          /\ \A d \in extended[i] : d >= FirstEvaluatedVariable
      BY <1>1 DEF Climbed
    <3> QED BY <3>2, <3>3
  <2>2. \A l \in solution' : l \in Int
    BY <1>3, <1>16
  <2>3. \A l \in solution' : l \in extended[i] => l \in solution
    BY <1>11, <1>16, <2>1, <2>2
  <2>4. extended[i] \cap (solution' \cup {p}) = extended[i] \cap (solution \cup {p})
    BY <1>17, <2>3
  <2>5. Dot(extended[i], solution' \cup {p}) = Dot(extended[i], solution \cup {p})
    BY <2>4, Zenon DEF Dot
  <2>6. ASSUME NEW d \in extended[i] PROVE d >= c
    BY <1>11, <2>1, <2>6
  <2> QED BY <2>1, <2>5, <2>6
<1>19. ASSUME NEW i \in row .. NoOfRows - 1
       PROVE  /\ Dot(extended[i], solution' \cup {p}) = 0
              /\ \A d \in extended[i] : d >= c
  <2>1. CASE i = row
    BY <1>7, <1>9, <1>15, <2>1
  <2>2. CASE i # row
    BY <1>5, <1>18, <2>2
  <2> QED BY <2>1, <2>2
<1>20. Climbed'
  <2>1. row' \in -1 .. NoOfRows - 1 /\ row' + 1 = row /\ row' # NoOfRows - 1
    BY <1>3, <1>5
  <2>2. /\ Stairs(extended, NoOfRows, p) /\ FirstEvaluatedVariable' \in 0 .. p
        /\ Leads(extended, row, FirstEvaluatedVariable')
    BY <1>1, <1>3, <1>8, <1>12 DEF Climbed
  <2> QED BY <1>4, <1>5, <1>12, <1>16, <1>19, <2>1, <2>2 DEF Climbed
<1> QED BY <1>1, <1>2, <1>6, <1>20 DEF CodingInvariant

\* The unpacked solution makes the run carry what it has to.
LEMMA FlipKeepsInvariant ==
  ASSUME CodingInvariant, Flip
  PROVE  CodingInvariant'
<1>1. /\ Shape /\ Equivalent /\ Climbed
      /\ phase = "solve" /\ phase' = "done" /\ UNCHANGED <<code, inputs>>
  BY DEF CodingInvariant, Flip
<1>2. Shape'
  BY <1>1, ShapeStays
<1>3. /\ PackedColumns \in Nat /\ NoOfRows \in Nat
      /\ DOMAIN code = 0 .. NoOfRows - 1 /\ DOMAIN DrySubmatrix = 0 .. NoOfRows - 1
      /\ EncodedMessage \subseteq 0 .. NoOfRows - 1
  BY <1>1, SystemFits DEF Shape
<1>4. row + 1 = 0
  BY <1>1, <1>3 DEF Climbed, Flip
<1>5. solution \in SUBSET (0 .. PackedColumns - 1)
  BY <1>1, <1>3 DEF Climbed
<1>6. Solves(extended, solution \cup {PackedColumns})
  BY <1>1, <1>3, <1>4 DEF Climbed, Equivalent, Solves
<1>7. Product(DrySubmatrix, solution) = DeltaMatrix
  BY <1>1, <1>5, <1>6 DEF Equivalent
<1> DEFINE f == {c \in dry : PackedColumn(c) \in solution}
<1>8. ASSUME NEW i \in 0 .. NoOfRows - 1
      PROVE  Dot(code[i], Xor(parities, f)) = 1 <=> i \in EncodedMessage
  <2>1. code[i] \in SUBSET Columns /\ dry \subseteq Columns
    BY <1>1 DEF Shape
  <2>2. IsFiniteSet(code[i])
    <3>1. IsFiniteSet(Columns)
      BY CodingAssumption, FS_Interval DEF Columns
    <3> QED BY <2>1, <3>1, FS_Subset
  <2>3. Dot(code[i], f) = Dot({PackedColumn(c) : c \in code[i] \cap dry}, solution)
    BY <2>1, UnpackedSolution
  <2>4. DrySubmatrix[i] = {PackedColumn(c) : c \in code[i] \cap dry}
    BY <1>3 DEF DrySubmatrix
  <2>5. Dot(code[i], f) = 1 <=> i \in DeltaMatrix
    <3>1. i \in Product(DrySubmatrix, solution) <=> Dot(DrySubmatrix[i], solution) = 1
      BY <1>3 DEF Product
    <3> HIDE DEF f
    <3> QED BY <1>7, <2>3, <2>4, <3>1
  <2>6. i \in DeltaMatrix <=> ~ (i \in EncodedMessage <=> Dot(code[i], parities) = 1)
    BY <1>3 DEF DeltaMatrix, Xor, Product
  <2> HIDE DEF f
  <2>7. Dot(code[i], Xor(parities, f)) = (Dot(code[i], parities) + Dot(code[i], f)) % 2
    BY <2>2, DotIsLinearInVector
  <2>8. Dot(code[i], parities) \in {0, 1} /\ Dot(code[i], f) \in {0, 1}
    BY <2>2, DotIsBit
  <2> QED BY <2>5, <2>6, <2>7, <2>8
<1>9. Product(code, Xor(parities, f)) = EncodedMessage
  BY <1>3, <1>8 DEF Product
<1>10. flips' = f /\ code' = code /\ parities' = parities /\ dry' = dry
  BY <1>1 DEF Flip, inputs
<1>11. EncodedMessage' = EncodedMessage
  BY <1>1, SystemStays
<1>12. RunCarriesItsBits'
  BY <1>9, <1>10, <1>11 DEF RunCarriesItsBits
<1> QED BY <1>1, <1>2, <1>12 DEF CodingInvariant

\* What stops leaves everything as it is.
LEMMA StopKeepsInvariant ==
  ASSUME CodingInvariant, EncodeNothingDry \/ UNCHANGED vars
  PROVE  CodingInvariant'
<1>1. CASE EncodeNothingDry
  <2>1. Shape /\ phase = "encode" /\ phase' = "crashed" /\ UNCHANGED <<code, inputs>>
    BY <1>1 DEF CodingInvariant, EncodeNothingDry
  <2> QED BY <2>1, ShapeStays DEF CodingInvariant
<1>2. CASE UNCHANGED vars
  <2>1. /\ NoOfRows' = NoOfRows /\ PackedColumns' = PackedColumns
        /\ DrySubmatrix' = DrySubmatrix /\ DeltaMatrix' = DeltaMatrix
        /\ EncodedMessage' = EncodedMessage
    BY <1>2, SystemStays DEF vars
  <2>2. Shape' = Shape /\ Equivalent' = Equivalent
    BY <1>2, <2>1 DEF Shape, Equivalent, vars, inputs, elimination
  <2>3. Built' = Built /\ Climbed' = Climbed /\ RunCarriesItsBits' = RunCarriesItsBits
    BY <1>2, <2>1 DEF Built, Climbed, RunCarriesItsBits, vars, inputs, elimination, solver
  <2>4. phase' = phase
    BY <1>2 DEF vars
  <2> QED BY <2>2, <2>3, <2>4 DEF CodingInvariant
<1> QED BY <1>1, <1>2

-----------------------------------------------------------------------------
\* The inductive invariant: the rows keep the solutions of the system, and are a
\* staircase that is built downwards and solved upwards.
THEOREM CodingIsInvariant == Spec => []CodingInvariant
<1>1. CodingInvariant /\ [Next]_vars => CodingInvariant'
  <2> SUFFICES ASSUME CodingInvariant, [Next]_vars PROVE CodingInvariant'
    OBVIOUS
  <2>1. CASE Encode
    BY <2>1, EncodeKeepsInvariant
  <2>2. CASE EncodeNothingDry
    BY <2>2, StopKeepsInvariant
  <2>3. CASE EliminateColumn
    BY <2>3, EliminateKeepsInvariant
  <2>4. CASE DropRow
    BY <2>4, DropKeepsInvariant
  <2>5. CASE Accept
    BY <2>5, AcceptKeepsInvariant
  <2>6. CASE SolveRow
    BY <2>6, SolveKeepsInvariant
  <2>7. CASE Flip
    BY <2>7, FlipKeepsInvariant
  <2>8. CASE Terminated \/ UNCHANGED vars
    BY <2>8, StopKeepsInvariant DEF Terminated
  <2> QED BY <2>1, <2>2, <2>3, <2>4, <2>5, <2>6, <2>7, <2>8 DEF Next
<1> QED BY <1>1, InitIsCoded, PTL DEF Spec

\* For every matrix, humidity and message the swaps and sums of rows leave the
\* solutions as they are (c_l_binarymatrix.cpp:172-236).
THEOREM EliminationIsSound == Spec => []EliminationKeepsTheSolutions
<1>1. CodingInvariant => EliminationKeepsTheSolutions
  BY DEF CodingInvariant, Equivalent, Solves, EliminationKeepsTheSolutions
<1> QED BY <1>1, CodingIsInvariant, PTL

\* For every matrix the solver leaves the rows it has passed solved
\* (c_l_binarymatrix.cpp:266).
THEOREM SolverIsSound == Spec => []SolvedRowsStaySolved
<1>1. CodingInvariant => SolvedRowsStaySolved
  BY DEF CodingInvariant, Climbed, SolvedRowsStaySolved
<1> QED BY <1>1, CodingIsInvariant, PTL

\* For every matrix, humidity, parities and message a run that is coded gives the
\* decoder its header and its bits (c_l_dynamicmatrix.cpp, MessageInjection).
THEOREM CodedRunsCarry == Spec => []RunCarriesItsBits
<1>1. CodingInvariant => RunCarriesItsBits
  BY DEF CodingInvariant, RunCarriesItsBits
<1> QED BY <1>1, CodingIsInvariant, PTL
-----------------------------------------------------------------------------
(***************************************************************************)
(* No more rows than dry columns                                           *)
(***************************************************************************)

\* Nothing but the constants is outside the dry columns, and accepted rows fit them.
FitInvariant ==
  /\ phase \in {"eliminate", "solve"} =>
       \A i \in 0 .. NoOfRows - 1 : extended[i] \subseteq 0 .. Cardinality(dry) - 1 \cup {PackedColumns}
  /\ phase \in {"solve", "done"} => NoOfRows <= Cardinality(dry)

\* A staircase has no more steps than columns.
LEMMA StairsFit ==
  ASSUME NEW n \in Nat, NEW k \in Nat, NEW p \in Nat, NEW m, DOMAIN m = 0 .. n - 1,
         Stairs(m, n, p), \A i \in 0 .. n - 1 : m[i] \subseteq 0 .. k - 1 \cup {p}
  PROVE  n <= k
<1> DEFINE f == [i \in 0 .. n - 1 |-> CHOOSE c \in 0 .. p - 1 : Leads(m, i, c)]
<1>1. \A i \in 0 .. n - 1 : f[i] \in 0 .. p - 1 /\ Leads(m, i, f[i])
  BY DEF Stairs
<1>2. DOMAIN f = 0 .. n - 1 /\ f = [i \in 0 .. n - 1 |-> f[i]]
  OBVIOUS
<1> HIDE DEF f
<1>3. \A i, j \in 0 .. n - 1 : i < j => f[i] < f[j]
  <2>1. ASSUME NEW i \in 0 .. n - 1, NEW j \in 0 .. n - 1, i < j PROVE f[i] < f[j]
    <3>1. Leads(m, i, f[i]) /\ f[j] \in m[j]
      BY <1>1 DEF Leads
    <3>2. j \in DOMAIN m /\ j > i
      BY <2>1
    <3> QED BY <3>1, <3>2 DEF Leads
  <2> QED BY <2>1
<1>4. f \in [0 .. n - 1 -> 0 .. k - 1]
  <2>1. ASSUME NEW i \in 0 .. n - 1 PROVE f[i] \in 0 .. k - 1
    <3>1. f[i] \in m[i] /\ f[i] \in 0 .. p - 1
      BY <1>1 DEF Leads
    <3> QED BY <3>1
  <2> QED BY <1>2, <2>1
<1>5. ASSUME NEW i \in 0 .. n - 1, NEW j \in 0 .. n - 1, f[i] = f[j]
      PROVE  i = j
  <2>1. f[i] \in Int /\ i \in Int /\ j \in Int
    BY <1>1
  <2>2. ~ (i < j) /\ ~ (j < i)
    BY <1>3, <1>5, <2>1
  <2> QED BY <2>1, <2>2
<1>6. f \in Injection(0 .. n - 1, 0 .. k - 1)
  BY <1>4, <1>5 DEF Injection, IsInjective
<1>7. IsFiniteSet(0 .. k - 1)
  BY FS_Interval
<1>8. Cardinality(0 .. n - 1) <= Cardinality(0 .. k - 1)
  BY <1>6, <1>7, FS_Injection
<1> QED BY <1>8, RowsAreCounted

\* Swaps and sums of rows stay within the columns of the rows.
LEMMA SumsStayInside ==
  ASSUME NEW m, NEW n, DOMAIN m = 0 .. n - 1, NEW r \in 0 .. n - 1, NEW s \in 0 .. n - 1, NEW c,
         NEW S, \A i \in 0 .. n - 1 : m[i] \subseteq S
  PROVE  \A i \in 0 .. n - 1 : Cleared(Swapped(m, r, s), r, c)[i] \subseteq S
<1> DEFINE m1 == Swapped(m, r, s)
<1>1. DOMAIN m1 = 0 .. n - 1 /\ \A i \in 0 .. n - 1 : m1[i] \subseteq S
  BY DEF Swapped
<1> HIDE DEF m1
<1>2. \A i \in 0 .. n - 1 : Cleared(m1, r, c)[i] \subseteq S
  BY <1>1 DEF Cleared, Xor
<1> QED BY <1>2 DEF m1

\* Each step keeps the rows within the dry columns.
LEMMA StepFits ==
  ASSUME CodingInvariant, FitInvariant, [Next]_vars
  PROVE  FitInvariant'
<1>1. CASE Encode
  <2>1. /\ Shape /\ phase = "encode" /\ phase' = "eliminate" /\ UNCHANGED <<code, inputs>>
        /\ extended' = Extended(DrySubmatrix, DeltaMatrix, PackedColumns)
    BY <1>1 DEF Encode, CodingInvariant
  <2>2. NoOfRows' = NoOfRows /\ PackedColumns' = PackedColumns /\ dry' = dry
    BY <2>1, SystemStays DEF inputs
  <2>3. DOMAIN DrySubmatrix = 0 .. NoOfRows - 1 /\ DOMAIN code = 0 .. NoOfRows - 1
    BY <2>1, SystemFits
  <2>4. \A c \in dry : PackedColumn(c) \in 0 .. Cardinality(dry) - 1
    BY <2>1, PackingIsInjective DEF Shape
  <2>5. \A i \in 0 .. NoOfRows - 1 : DrySubmatrix[i] \subseteq 0 .. Cardinality(dry) - 1
    BY <2>3, <2>4 DEF DrySubmatrix
  <2>6. \A i \in 0 .. NoOfRows - 1 :
          extended'[i] \subseteq 0 .. Cardinality(dry) - 1 \cup {PackedColumns}
    BY <2>1, <2>3, <2>5 DEF Extended
  <2> QED BY <2>1, <2>2, <2>6 DEF FitInvariant
<1>2. CASE EliminateColumn
  <2>1. /\ Shape /\ Equivalent /\ Built
        /\ phase = "eliminate" /\ phase' = "eliminate" /\ UNCHANGED <<code, inputs>>
    BY <1>2 DEF EliminateColumn, CodingInvariant
  <2>2. NoOfRows' = NoOfRows /\ PackedColumns' = PackedColumns /\ dry' = dry
    BY <2>1, SystemStays DEF inputs
  <2>3. DOMAIN extended = 0 .. NoOfRows - 1 /\ CurrentRow \in 0 .. NoOfRows - 1
    BY <2>1 DEF Equivalent, Built
  <2> DEFINE pivots == Pivots(extended, CurrentRow, column)
             S == 0 .. Cardinality(dry) - 1 \cup {PackedColumns}
  <2>4. \A i \in 0 .. NoOfRows - 1 : extended[i] \subseteq S
    BY <2>1 DEF FitInvariant
  <2>5. pivots # {} => First(pivots) \in 0 .. NoOfRows - 1
    <3>1. pivots \in SUBSET Nat /\ pivots \subseteq 0 .. NoOfRows - 1
      BY <2>3 DEF Pivots
    <3> QED BY <3>1, FirstIsLeast
  <2>6. \A i \in 0 .. NoOfRows - 1 : extended'[i] \subseteq S
    <3>1. CASE pivots = {}
      BY <1>2, <2>4, <3>1 DEF EliminateColumn
    <3>2. CASE pivots # {}
      <4>1. extended' = Cleared(Swapped(extended, CurrentRow, First(pivots)), CurrentRow, column)
        BY <1>2, <3>2 DEF EliminateColumn
      <4> HIDE DEF S, pivots
      <4>2. \A i \in 0 .. NoOfRows - 1 :
              Cleared(Swapped(extended, CurrentRow, First(pivots)), CurrentRow, column)[i] \subseteq S
        BY <2>3, <2>4, <2>5, <3>2, SumsStayInside
      <4> QED BY <4>1, <4>2
    <3> QED BY <3>1, <3>2
  <2> QED BY <2>1, <2>2, <2>6 DEF FitInvariant
<1>3. CASE Accept
  <2>1. CodingInvariant'
    BY <1>3, AcceptKeepsInvariant
  <2>2. /\ phase = "eliminate" /\ phase' = "solve" /\ UNCHANGED <<code, inputs>>
        /\ extended' = extended /\ Shape
    BY <1>3 DEF Accept, elimination, CodingInvariant
  <2>3. NoOfRows' = NoOfRows /\ PackedColumns' = PackedColumns /\ dry' = dry
    BY <2>2, SystemStays DEF inputs
  <2>4. Stairs(extended, NoOfRows, PackedColumns) /\ DOMAIN extended = 0 .. NoOfRows - 1
    BY <2>1, <2>2, <2>3 DEF CodingInvariant, Climbed, Equivalent
  <2>5. NoOfRows \in Nat /\ PackedColumns \in Nat /\ Cardinality(dry) \in Nat
    BY <2>2, PackingIsInjective, FS_CardinalityType DEF Shape
  <2>6. \A i \in 0 .. NoOfRows - 1 : extended[i] \subseteq 0 .. Cardinality(dry) - 1 \cup {PackedColumns}
    BY <2>2 DEF FitInvariant
  <2>7. NoOfRows <= Cardinality(dry)
    BY <2>4, <2>5, <2>6, StairsFit
  <2> QED BY <2>2, <2>3, <2>6, <2>7 DEF FitInvariant
<1>4. CASE SolveRow \/ Flip
  <2>1. /\ phase = "solve" /\ phase' \in {"solve", "done"} /\ UNCHANGED <<code, inputs>>
        /\ extended' = extended
    BY <1>4 DEF SolveRow, Flip, elimination
  <2>2. NoOfRows' = NoOfRows /\ PackedColumns' = PackedColumns /\ dry' = dry
    BY <2>1, SystemStays DEF inputs
  <2> QED BY <2>1, <2>2 DEF FitInvariant
<1>5. CASE EncodeNothingDry \/ DropRow
  <2>1. phase' \in {"crashed", "failed", "encode"}
    BY <1>5 DEF EncodeNothingDry, DropRow
  <2> QED BY <2>1 DEF FitInvariant
<1>6. CASE Terminated \/ UNCHANGED vars
  <2>1. UNCHANGED vars
    BY <1>6 DEF Terminated
  <2>2. NoOfRows' = NoOfRows /\ PackedColumns' = PackedColumns
    BY <2>1, SystemStays DEF vars
  <2> QED BY <2>1, <2>2 DEF FitInvariant, vars, inputs, elimination
<1> QED BY <1>1, <1>2, <1>3, <1>4, <1>5, <1>6 DEF Next

\* For every matrix and humidity, a matrix with more rows than its run has dry
\* coefficients is never accepted, whatever the last block of columns is filled up
\* with: the guard of MessageInjection (c_l_dynamicmatrix.cpp, MessageInjection).
THEOREM AcceptedRowsFit == Spec => []AcceptedRowsFitTheDryColumns
<1>1. Init => FitInvariant
  BY DEF Init, FitInvariant
<1>2. CodingInvariant /\ FitInvariant => AcceptedRowsFitTheDryColumns
  BY DEF CodingInvariant, Shape, FitInvariant, AcceptedRowsFitTheDryColumns
<1> QED BY <1>1, <1>2, StepFits, CodingIsInvariant, PTL DEF Spec
-----------------------------------------------------------------------------
(***************************************************************************)
(* The rank                                                                *)
(***************************************************************************)

\* The rows with a 1 in column c.
InColumn(m, c) == {i \in DOMAIN m : c \in m[i]}

\* No sum of rows is zero, but for the constants in column p.
Free(m, p) ==
  \A R \in SUBSET DOMAIN m : R # {} => \E c : c # p /\ Dot(InColumn(m, c), R) = 1

\* A row that is added to others does not make rows depend on each other: it counts
\* once more in a sum with an odd number of those it was added to.
LEMMA ClearKeepsFreedom ==
  ASSUME NEW n \in Nat, NEW m, DOMAIN m = 0 .. n - 1, NEW r \in 0 .. n - 1, NEW c, NEW p
  PROVE  Free(Cleared(m, r, c), p) <=> Free(m, p)
<1> DEFINE e == Cleared(m, r, c)
           L == {i \in 0 .. n - 1 : i > r /\ c \in m[i]}
           Other(R) == IF Dot(L, R) = 1 THEN Xor(R, {r}) ELSE R
<1>1. DOMAIN e = 0 .. n - 1
      /\ \A i \in 0 .. n - 1 : e[i] = IF i \in L THEN Xor(m[i], m[r]) ELSE m[i]
  BY DEF Cleared
<1>2. L \in SUBSET (0 .. n - 1) /\ r \notin L
  OBVIOUS
<1> HIDE DEF e, L
<1>3. /\ \A d : IsFiniteSet(InColumn(m, d)) /\ IsFiniteSet(InColumn(e, d))
      /\ IsFiniteSet(L) /\ IsFiniteSet({r})
  <2>1. IsFiniteSet(0 .. n - 1)
    BY FS_Interval
  <2>2. \A d : InColumn(m, d) \in SUBSET (0 .. n - 1) /\ InColumn(e, d) \in SUBSET (0 .. n - 1)
    BY <1>1 DEF InColumn
  <2>3. ASSUME NEW S \in SUBSET (0 .. n - 1) PROVE IsFiniteSet(S)
    BY <2>1, FS_Subset
  <2>4. IsFiniteSet(L) /\ IsFiniteSet({r})
    BY <1>2, <2>3
  <2> QED BY <2>2, <2>3, <2>4
<1>4. ASSUME NEW R \in SUBSET (0 .. n - 1)
      PROVE  /\ Other(R) \in SUBSET (0 .. n - 1)
             /\ Other(Other(R)) = R
             /\ R # {} => Other(R) # {}
  <2>1. Dot(L, Xor(R, {r})) = Dot(L, R)
    <3>1. L \cap Xor(R, {r}) = L \cap R
      BY <1>2 DEF Xor
    <3> QED BY <3>1, Zenon DEF Dot
  <2>2. Xor(Xor(R, {r}), {r}) = R /\ Xor(R, {r}) \in SUBSET (0 .. n - 1)
    BY DEF Xor
  <2>3. Dot(L, R) = 1 => Xor(R, {r}) # {}
    <3>1. CASE L \cap R = {}
      <4>1. Cardinality(L \cap R) = 0
        BY <3>1, FS_EmptySet
      <4> QED BY <4>1 DEF Dot
    <3>2. CASE L \cap R # {}
      BY <1>2, <3>2 DEF Xor
    <3> QED BY <3>1, <3>2
  <2> QED BY <2>1, <2>2, <2>3
<1>5. ASSUME NEW R \in SUBSET (0 .. n - 1), NEW d
      PROVE  Dot(InColumn(e, d), R) = Dot(InColumn(m, d), Other(R))
  <2>1. InColumn(e, d) = IF d \in m[r] THEN Xor(InColumn(m, d), L) ELSE InColumn(m, d)
    <3>1. CASE d \in m[r]
      <4>1. ASSUME NEW i
            PROVE  i \in InColumn(e, d) <=> i \in Xor(InColumn(m, d), L)
        BY <1>1, <1>2, <3>1 DEF InColumn, Xor
      <4> QED BY <3>1, <4>1
    <3>2. CASE d \notin m[r]
      <4>1. ASSUME NEW i
            PROVE  i \in InColumn(e, d) <=> i \in InColumn(m, d)
        BY <1>1, <1>2, <3>2 DEF InColumn, Xor
      <4> QED BY <3>2, <4>1
    <3> QED BY <3>1, <3>2
  <2>2. Dot(InColumn(m, d), {r}) = IF d \in m[r] THEN 1 ELSE 0
    <3>1. CASE d \in m[r]
      <4>1. InColumn(m, d) \cap {r} = {r}
        BY <3>1 DEF InColumn
      <4>2. Cardinality(InColumn(m, d) \cap {r}) = 1
        BY <4>1, FS_Singleton
      <4> QED BY <3>1, <4>2 DEF Dot
    <3>2. CASE d \notin m[r]
      <4>1. InColumn(m, d) \cap {r} = {}
        BY <3>2 DEF InColumn
      <4>2. Cardinality(InColumn(m, d) \cap {r}) = 0
        BY <4>1, FS_EmptySet
      <4> QED BY <3>2, <4>2 DEF Dot
    <3> QED BY <3>1, <3>2
  <2>3. Dot(InColumn(m, d), Xor(R, {r})) = (Dot(InColumn(m, d), R) + Dot(InColumn(m, d), {r})) % 2
    BY <1>3, DotIsLinearInVector
  <2>4. Dot(Xor(InColumn(m, d), L), R) = (Dot(InColumn(m, d), R) + Dot(L, R)) % 2
    BY <1>3, DotIsLinear
  <2>5. Dot(InColumn(m, d), R) \in {0, 1} /\ Dot(L, R) \in {0, 1}
    BY <1>3, DotIsBit
  <2>6. CASE d \in m[r]
    <3>1. Dot(InColumn(e, d), R) = (Dot(InColumn(m, d), R) + Dot(L, R)) % 2
      BY <2>1, <2>4, <2>6
    <3>2. Dot(InColumn(m, d), Xor(R, {r})) = (Dot(InColumn(m, d), R) + 1) % 2
      BY <2>2, <2>3, <2>6
    <3> QED BY <2>5, <3>1, <3>2
  <2>7. CASE d \notin m[r]
    <3>1. Dot(InColumn(e, d), R) = Dot(InColumn(m, d), R)
      BY <2>1, <2>7
    <3>2. Dot(InColumn(m, d), Xor(R, {r})) = (Dot(InColumn(m, d), R) + 0) % 2
      BY <2>2, <2>3, <2>7
    <3> QED BY <2>5, <3>1, <3>2
  <2> QED BY <2>6, <2>7
<1> HIDE DEF Other
<1>6. ASSUME Free(m, p) PROVE Free(e, p)
  <2>1. ASSUME NEW R \in SUBSET (0 .. n - 1), R # {}
        PROVE  \E d : d # p /\ Dot(InColumn(e, d), R) = 1
    <3>1. Other(R) \in SUBSET (0 .. n - 1) /\ Other(R) # {}
      BY <1>4, <2>1
    <3>2. PICK d : d # p /\ Dot(InColumn(m, d), Other(R)) = 1
      BY <1>6, <3>1 DEF Free
    <3>3. Dot(InColumn(e, d), R) = 1
      BY <1>5, <3>2
    <3> QED BY <3>2, <3>3
  <2> QED BY <1>1, <2>1 DEF Free
<1>7. ASSUME Free(e, p) PROVE Free(m, p)
  <2>1. ASSUME NEW R \in SUBSET (0 .. n - 1), R # {}
        PROVE  \E d : d # p /\ Dot(InColumn(m, d), R) = 1
    <3>1. Other(R) \in SUBSET (0 .. n - 1) /\ Other(R) # {}
      BY <1>4, <2>1
    <3>2. PICK d : d # p /\ Dot(InColumn(e, d), Other(R)) = 1
      BY <1>1, <1>7, <3>1 DEF Free
    <3>3. Dot(InColumn(m, d), R) = 1
      BY <1>4, <1>5, <3>1, <3>2
    <3> QED BY <3>2, <3>3
  <2> QED BY <2>1 DEF Free
<1> QED BY <1>6, <1>7 DEF e

\* Nor does the order of the rows.
LEMMA SwapKeepsFreedom ==
  ASSUME NEW n \in Nat, NEW m, DOMAIN m = 0 .. n - 1, NEW r \in 0 .. n - 1, NEW s \in 0 .. n - 1, NEW p
  PROVE  Free(Swapped(m, r, s), p) <=> Free(m, p)
<1> DEFINE e == Swapped(m, r, s)
           Place(i) == IF i = r THEN s ELSE IF i = s THEN r ELSE i
           Other(R) == {Place(i) : i \in R}
<1>1. DOMAIN e = 0 .. n - 1 /\ \A i \in 0 .. n - 1 : e[i] = m[Place(i)]
  BY DEF Swapped
<1>2. /\ \A i \in 0 .. n - 1 : Place(i) \in 0 .. n - 1
      /\ \A i : Place(Place(i)) = i
  OBVIOUS
<1> HIDE DEF e, Place
<1>3. ASSUME NEW R \in SUBSET (0 .. n - 1)
      PROVE  /\ Other(R) \in SUBSET (0 .. n - 1)
             /\ Other(Other(R)) = R
             /\ R # {} => Other(R) # {}
  BY <1>2
<1>4. ASSUME NEW R \in SUBSET (0 .. n - 1), NEW d
      PROVE  Dot(InColumn(e, d), R) = Dot(InColumn(m, d), Other(R))
  <2> DEFINE S == InColumn(e, d) \cap R
             T == InColumn(m, d) \cap Other(R)
             f == [i \in S |-> Place(i)]
  <2>1. ASSUME NEW i \in S PROVE f[i] \in T
    BY <1>1, <1>2, <2>1 DEF InColumn
  <2>2. \A i, j \in S : f[i] = f[j] => i = j
    BY <1>2
  <2>3. ASSUME NEW t \in T PROVE \E i \in S : f[i] = t
    <3>1. PICK i \in R : t = Place(i)
      OBVIOUS
    <3>2. i \in S
      BY <1>1, <1>2, <3>1 DEF InColumn
    <3> QED BY <3>1, <3>2
  <2>4. f \in [S -> T]
    BY <2>1
  <2> HIDE DEF f, S, T
  <2>5. IsFiniteSet(S)
    <3>1. S \in SUBSET (0 .. n - 1)
      BY DEF S
    <3>2. IsFiniteSet(0 .. n - 1)
      BY FS_Interval
    <3> QED BY <3>1, <3>2, FS_Subset
  <2>6. f \in Bijection(S, T)
    BY <2>2, <2>3, <2>4 DEF Bijection, Injection, Surjection, IsInjective
  <2>7. Cardinality(S) = Cardinality(T)
    BY <2>5, <2>6, FS_Bijection DEF ExistsBijection
  <2> QED BY <2>7, Zenon DEF Dot, S, T
<1> HIDE DEF Other
<1>5. ASSUME Free(m, p) PROVE Free(e, p)
  <2>1. ASSUME NEW R \in SUBSET (0 .. n - 1), R # {}
        PROVE  \E d : d # p /\ Dot(InColumn(e, d), R) = 1
    <3>1. Other(R) \in SUBSET (0 .. n - 1) /\ Other(R) # {}
      BY <1>3, <2>1
    <3>2. PICK d : d # p /\ Dot(InColumn(m, d), Other(R)) = 1
      BY <1>5, <3>1 DEF Free
    <3>3. Dot(InColumn(e, d), R) = 1
      BY <1>4, <3>2
    <3> QED BY <3>2, <3>3
  <2> QED BY <1>1, <2>1 DEF Free
<1>6. ASSUME Free(e, p) PROVE Free(m, p)
  <2>1. ASSUME NEW R \in SUBSET (0 .. n - 1), R # {}
        PROVE  \E d : d # p /\ Dot(InColumn(m, d), R) = 1
    <3>1. Other(R) \in SUBSET (0 .. n - 1) /\ Other(R) # {}
      BY <1>3, <2>1
    <3>2. PICK d : d # p /\ Dot(InColumn(e, d), Other(R)) = 1
      BY <1>1, <1>6, <3>1 DEF Free
    <3>3. Dot(InColumn(m, d), R) = 1
      BY <1>3, <1>4, <3>1, <3>2
    <3> QED BY <3>2, <3>3
  <2> QED BY <2>1 DEF Free
<1> QED BY <1>5, <1>6 DEF e

\* The rows are free with their constants as they are without.
LEMMA ExtendedFreedom ==
  ASSUME NEW m, NEW k, NEW p, \A i \in DOMAIN m : p \notin m[i]
  PROVE  Free(Extended(m, k, p), p) <=> Independent(m)
<1> DEFINE e == Extended(m, k, p)
<1>1. DOMAIN e = DOMAIN m
      /\ \A i \in DOMAIN m : e[i] = m[i] \cup (IF i \in k THEN {p} ELSE {})
  BY DEF Extended
<1> HIDE DEF e
<1>2. ASSUME NEW R \in SUBSET DOMAIN m, NEW c, c # p
      PROVE  Dot(InColumn(e, c), R) = Cardinality({i \in R : c \in m[i]}) % 2
  <2>1. InColumn(e, c) \cap R = {i \in R : c \in m[i]}
    BY <1>1, <1>2 DEF InColumn
  <2> QED BY <2>1, Zenon DEF Dot
<1>3. ASSUME NEW R \in SUBSET DOMAIN m, NEW c, Cardinality({i \in R : c \in m[i]}) % 2 = 1
      PROVE  c \in UNION {m[i] : i \in R} /\ c # p
  <2>1. {i \in R : c \in m[i]} # {}
    <3>1. SUFFICES ASSUME {i \in R : c \in m[i]} = {} PROVE FALSE
      OBVIOUS
    <3>2. Cardinality({i \in R : c \in m[i]}) = 0
      BY <3>1, FS_EmptySet
    <3> QED BY <1>3, <3>2
  <2> QED BY <2>1
<1>4. ASSUME Independent(m) PROVE Free(e, p)
  <2>1. ASSUME NEW R \in SUBSET DOMAIN m, R # {}
        PROVE  \E c : c # p /\ Dot(InColumn(e, c), R) = 1
    <3>1. PICK c : Cardinality({i \in R : c \in m[i]}) % 2 = 1
      BY <1>4, <2>1 DEF Independent
    <3>2. c # p
      BY <1>3, <3>1
    <3> QED BY <1>2, <3>1, <3>2
  <2> QED BY <1>1, <2>1 DEF Free
<1>5. ASSUME Free(e, p) PROVE Independent(m)
  <2>1. ASSUME NEW R \in (SUBSET DOMAIN m) \ {{}}
        PROVE  \E c \in UNION {m[i] : i \in R} : Cardinality({i \in R : c \in m[i]}) % 2 = 1
    <3>1. R \in SUBSET DOMAIN m /\ R # {}
      OBVIOUS
    <3>2. PICK c : c # p /\ Dot(InColumn(e, c), R) = 1
      BY <1>1, <1>5, <3>1 DEF Free
    <3>3. Cardinality({i \in R : c \in m[i]}) % 2 = 1
      BY <1>2, <3>1, <3>2
    <3> QED BY <1>3, <3>1, <3>3
  <2> QED BY <2>1 DEF Independent
<1> QED BY <1>4, <1>5 DEF e

\* The rows of a staircase are free: in a sum of them the uppermost begins alone.
LEMMA StairsAreFree ==
  ASSUME NEW n \in Nat, NEW p \in Nat, NEW m, DOMAIN m = 0 .. n - 1, Stairs(m, n, p)
  PROVE  Free(m, p)
<1>1. ASSUME NEW R \in SUBSET (0 .. n - 1), R # {}
      PROVE  \E c : c # p /\ Dot(InColumn(m, c), R) = 1
  <2>1. R \in SUBSET Nat
    OBVIOUS
  <2>2. PICK i \in R : \A j \in R : i <= j
    BY <1>1, <2>1, FirstIsLeast
  <2>3. PICK c \in 0 .. p - 1 : Leads(m, i, c)
    BY DEF Stairs
  <2>4. ASSUME NEW j \in R, j # i PROVE c \notin m[j]
    <3>1. j > i /\ j \in DOMAIN m
      BY <2>1, <2>2, <2>4
    <3>2. c \in Int /\ ~ (c < c)
      OBVIOUS
    <3> QED BY <2>3, <3>1, <3>2 DEF Leads
  <2>5. InColumn(m, c) \cap R = {i}
    BY <2>3, <2>4 DEF InColumn, Leads
  <2>6. Cardinality(InColumn(m, c) \cap R) = 1
    BY <2>5, FS_Singleton
  <2>7. Dot(InColumn(m, c), R) = 1
    BY <2>6 DEF Dot
  <2> QED BY <2>7
<1> QED BY <1>1 DEF Free

\* A row of zeros is not free.
LEMMA ZeroRowIsNotFree ==
  ASSUME NEW m, NEW r \in DOMAIN m, NEW p, m[r] \subseteq {p}
  PROVE  ~ Free(m, p)
<1>1. ASSUME NEW c, c # p PROVE Dot(InColumn(m, c), {r}) = 0
  <2>1. InColumn(m, c) \cap {r} = {}
    BY <1>1 DEF InColumn
  <2>2. Cardinality(InColumn(m, c) \cap {r}) = 0
    BY <2>1, FS_EmptySet
  <2> QED BY <2>2 DEF Dot
<1>2. {r} \in SUBSET DOMAIN m /\ {r} # {}
  OBVIOUS
<1>3. SUFFICES ASSUME Free(m, p) PROVE FALSE
  OBVIOUS
<1>4. PICK c : c # p /\ Dot(InColumn(m, c), {r}) = 1
  BY <1>2, <1>3 DEF Free
<1> QED BY <1>1, <1>4

\* The elimination keeps the rank.
RankIsKept == phase = "eliminate" => (Free(extended, PackedColumns) <=> Independent(DrySubmatrix))

\* Each step does.
LEMMA StepKeepsTheRank ==
  ASSUME CodingInvariant, RankIsKept, [Next]_vars
  PROVE  RankIsKept'
<1>1. CASE Encode
  <2>1. /\ Shape /\ phase = "encode" /\ UNCHANGED <<code, inputs>>
        /\ extended' = Extended(DrySubmatrix, DeltaMatrix, PackedColumns)
    BY <1>1 DEF Encode, CodingInvariant
  <2>2. PackedColumns' = PackedColumns /\ DrySubmatrix' = DrySubmatrix
    BY <2>1, SystemStays
  <2>3. \A i \in DOMAIN DrySubmatrix : PackedColumns \notin DrySubmatrix[i]
    BY <2>1, SystemFits
  <2>4. Free(extended', PackedColumns) <=> Independent(DrySubmatrix)
    BY <2>1, <2>3, ExtendedFreedom
  <2> QED BY <2>2, <2>4 DEF RankIsKept
<1>2. CASE EliminateColumn
  <2>1. /\ Shape /\ Equivalent /\ Built
        /\ phase = "eliminate" /\ phase' = "eliminate" /\ UNCHANGED <<code, inputs>>
    BY <1>2 DEF EliminateColumn, CodingInvariant
  <2>2. PackedColumns' = PackedColumns /\ DrySubmatrix' = DrySubmatrix
    BY <2>1, SystemStays
  <2>3. DOMAIN extended = 0 .. NoOfRows - 1 /\ CurrentRow \in 0 .. NoOfRows - 1 /\ NoOfRows \in Nat
    BY <2>1 DEF Equivalent, Built, Shape
  <2> DEFINE pivots == Pivots(extended, CurrentRow, column)
  <2>4. Free(extended', PackedColumns) <=> Free(extended, PackedColumns)
    <3>1. CASE pivots = {}
      <4>1. extended' = extended
        BY <1>2, <3>1 DEF EliminateColumn
      <4> QED BY <4>1
    <3>2. CASE pivots # {}
      <4> DEFINE s == First(pivots)
                 e == Swapped(extended, CurrentRow, s)
      <4>1. extended' = Cleared(e, CurrentRow, column)
        BY <1>2, <3>2 DEF EliminateColumn
      <4>2. s \in 0 .. NoOfRows - 1
        <5>1. pivots \in SUBSET Nat /\ pivots \subseteq 0 .. NoOfRows - 1
          BY <2>3 DEF Pivots
        <5> QED BY <3>2, <5>1, FirstIsLeast
      <4> HIDE DEF pivots, s
      <4>3. DOMAIN e = 0 .. NoOfRows - 1
        BY <2>3 DEF Swapped
      <4>4. Free(e, PackedColumns) <=> Free(extended, PackedColumns)
        BY <2>3, <4>2, SwapKeepsFreedom
      <4> HIDE DEF e
      <4>5. Free(Cleared(e, CurrentRow, column), PackedColumns) <=> Free(e, PackedColumns)
        BY <2>3, <4>3, ClearKeepsFreedom
      <4> QED BY <4>1, <4>4, <4>5
    <3> QED BY <3>1, <3>2
  <2> QED BY <2>1, <2>2, <2>4 DEF RankIsKept
<1>3. CASE EncodeNothingDry \/ DropRow \/ Accept \/ SolveRow \/ Flip
  <2>1. phase' # "eliminate"
    BY <1>3 DEF EncodeNothingDry, DropRow, Accept, SolveRow, Flip
  <2> QED BY <2>1 DEF RankIsKept
<1>4. CASE Terminated \/ UNCHANGED vars
  <2>1. UNCHANGED vars
    BY <1>4 DEF Terminated
  <2>2. PackedColumns' = PackedColumns /\ DrySubmatrix' = DrySubmatrix
    BY <2>1, SystemStays DEF vars
  <2> QED BY <2>1, <2>2 DEF RankIsKept, vars, elimination
<1> QED BY <1>1, <1>2, <1>3, <1>4 DEF Next

\* For every matrix and humidity a row is dropped exactly when the dry columns do
\* not have full row rank (c_l_binarymatrix.cpp:172, 238).
THEOREM EliminationFindsTheRank == Spec => []DropsExactlyWhenDependent
<1>1. Init => RankIsKept
  BY DEF Init, RankIsKept
<1>2. CodingInvariant /\ RankIsKept => DropsExactlyWhenDependent
  <2> SUFFICES ASSUME CodingInvariant, RankIsKept, phase = "eliminate", EliminationOver
               PROVE  LastRowIsZero(extended, PackedColumns) <=> ~ Independent(DrySubmatrix)
    BY DEF DropsExactlyWhenDependent
  <2>1. Shape /\ Equivalent
    BY DEF CodingInvariant
  <2>2. /\ NoOfRows \in Nat /\ NoOfRows >= 1 /\ PackedColumns \in Nat
        /\ DOMAIN extended = 0 .. NoOfRows - 1
    BY <2>1, SystemFits, CodingAssumption DEF Shape, Equivalent
  <2>3. ASSUME LastRowIsZero(extended, PackedColumns)
        PROVE  ~ Free(extended, PackedColumns)
    <3>1. Cardinality(DOMAIN extended) = NoOfRows
      BY <2>2, RowsAreCounted
    <3>2. extended[NoOfRows - 1] \subseteq {PackedColumns} /\ NoOfRows - 1 \in DOMAIN extended
      BY <2>2, <2>3, <3>1 DEF LastRowIsZero
    <3> QED BY <3>2, ZeroRowIsNotFree
  <2>4. ASSUME ~ LastRowIsZero(extended, PackedColumns)
        PROVE  Free(extended, PackedColumns)
    <3>1. Stairs(extended, NoOfRows, PackedColumns)
      BY <2>4, StairsReachTheLastRow
    <3> QED BY <2>2, <3>1, StairsAreFree
  <2> QED BY <2>3, <2>4 DEF RankIsKept
<1> QED BY <1>1, <1>2, StepKeepsTheRank, CodingIsInvariant, PTL DEF Spec
=============================================================================
