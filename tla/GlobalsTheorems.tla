--------------------------- MODULE GlobalsTheorems ---------------------------
(***************************************************************************)
(* What the shared arithmetic of tulipan computes, for all arguments, and  *)
(* the few facts of division the other proofs need.                        *)
(***************************************************************************)
EXTENDS TulipanGlobals, TLAPS

\* Products of counts are counts (kept apart so that no other leaf is non-linear).
LEMMA Products ==
  ASSUME NEW a \in Nat, NEW b \in Nat
  PROVE  a * b \in Nat
  OBVIOUS

\* Quotient and remainder: what the provers need of / and %.
LEMMA DivMod ==
  ASSUME NEW a \in Nat, NEW b \in Nat \ {0}
  PROVE  /\ a \div b \in Nat /\ a % b \in 0 .. b - 1
         /\ a = b * (a \div b) + (a % b)
  OBVIOUS

\* Whole divisors go out of a division: block G * d + i lies d digests after block i.
LEMMA DivShift ==
  ASSUME NEW d \in Nat, NEW i \in Nat, NEW G \in Nat \ {0}
  PROVE  /\ (G * d + i) \div G = d + (i \div G)
         /\ (G * d + i) % G = i % G
  OBVIOUS

\* A multiple divides without remainder.
LEMMA MultMod ==
  ASSUME NEW d \in Nat, NEW G \in Nat \ {0}
  PROVE  /\ (G * d) % G = 0
         /\ (G * d) \div G = d
  OBVIOUS

\* LeastGreaterMultiple returns the least multiple of the block size that is not
\* less than the rough value (the comment at l_tulipanglobal.cpp:25).
LEMMA LGMIsLeastMultiple ==
  ASSUME NEW a \in Nat, NEW b \in Nat \ {0}
  PROVE  /\ LeastGreaterMultiple(a, b) \in Nat
         /\ LeastGreaterMultiple(a, b) >= a
         /\ LeastGreaterMultiple(a, b) < a + b
         /\ LeastGreaterMultiple(a, b) % b = 0
  <1> DEFINE r == a % b
             L == LeastGreaterMultiple(a, b)
             q == a \div b
  <1>1. a = b * q + r /\ q \in Nat /\ r \in 0 .. b-1
    BY DivMod
  <1>2. CASE r = 0
    BY <1>1, <1>2 DEF LeastGreaterMultiple
  <1>3. CASE r # 0
    <2>1. L = b * (q + 1)
      BY <1>1, <1>3 DEF LeastGreaterMultiple
    <2>2. L % b = 0
      BY <2>1, <1>1, MultMod
    <2> QED BY <1>1, <1>3, <2>1, <2>2 DEF LeastGreaterMultiple
  <1> QED BY <1>2, <1>3

\* CeillingDivide returns the ceiling of a / b (l_tulipanglobal.cpp:18).
LEMMA CeillingDivideIsCeiling ==
  ASSUME NEW a \in Nat, NEW b \in Nat \ {0}
  PROVE  /\ CeillingDivide(a, b) \in Nat
         /\ a <= b * CeillingDivide(a, b)
         /\ b * CeillingDivide(a, b) < a + b
  <1>1. /\ a \div b \in Nat /\ a % b \in 0 .. b - 1
        /\ a = b * (a \div b) + (a % b)
    BY DivMod
  <1>2. CASE a % b # 0
    <2>1. CeillingDivide(a, b) = a \div b + 1
      BY <1>2 DEF CeillingDivide
    <2>2. b * (a \div b + 1) = b * (a \div b) + b
      BY <1>1
    <2> QED BY <1>1, <1>2, <2>1, <2>2
  <1>3. CASE a % b = 0
    BY <1>1, <1>3 DEF CeillingDivide
  <1> QED BY <1>2, <1>3
=============================================================================
