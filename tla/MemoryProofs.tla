---------------------------- MODULE MemoryProofs ----------------------------
(***************************************************************************)
(* The memory manager of libjpeg, for any sizes, limits and calls: objects *)
(* and rows never overlap, shares suffice, and nothing is lost.            *)
(***************************************************************************)
EXTENDS MemoryPools, GlobalsTheorems, FiniteSetTheorems, SequenceTheorems,
        WellFoundedInduction

-----------------------------------------------------------------------------
(* Sums over finite sets.                                                  *)

\* A set of numbers has a least one.
LEMMA LeastNumber ==
  ASSUME NEW S \in SUBSET Nat, S # {}
  PROVE  \E k \in S : \A j \in S : k <= j
  <1>1. PICK k \in S : \A j \in S : <<j, k>> \notin OpToRel(<, Nat)
    BY NatLessThanWellFounded, WFMin
  <1>2. \A j \in S : ~(j < k)
    BY <1>1 DEF OpToRel
  <1> QED BY <1>2

\* The lesser of two numbers.
LEMMA MinOfTwo ==
  ASSUME NEW a \in Int, NEW b \in Int
  PROVE  Min({a, b}) = IF a <= b THEN a ELSE b
  BY DEF Min

\* What holds of a set as soon as it holds of all that lack one element of it,
\* holds of every finite set.
Inherits(S, Good) == \A T \in SUBSET S : (\A x \in T : T \ {x} \in Good) => T \in Good
LEMMA FiniteInduction ==
  ASSUME NEW S, IsFiniteSet(S), NEW Good, Inherits(S, Good)
  PROVE  S \in Good
  <1> DEFINE Sizes == {Cardinality(T) : T \in (SUBSET S) \ Good}
  <1>1. \A T \in SUBSET S : IsFiniteSet(T) /\ Cardinality(T) \in Nat
    BY FS_Subset, FS_CardinalityType
  <1>2. ASSUME S \notin Good PROVE FALSE
    <2>1. Sizes \in SUBSET Nat /\ Sizes # {}
      BY <1>1, <1>2
    <2>2. PICK k \in Sizes : \A j \in Sizes : k <= j
      BY <2>1, LeastNumber
    <2>3. PICK T \in (SUBSET S) \ Good : k = Cardinality(T)
      BY <2>2
    <2>4. ASSUME NEW x \in T PROVE T \ {x} \in Good
      <3>1. Cardinality(T \ {x}) = Cardinality(T) - 1
        BY <1>1, FS_RemoveElement
      <3>2. Cardinality(T) \in Nat
        BY <1>1
      <3>3. T \ {x} \in SUBSET S
        OBVIOUS
      <3>4. ~(Cardinality(T) <= Cardinality(T \ {x}))
        BY <3>1, <3>2
      <3>5. Cardinality(T \ {x}) \notin Sizes
        <4> HIDE DEF Sizes
        <4> QED BY <2>2, <2>3, <3>4
      <3> QED BY <3>3, <3>5
    <2> QED BY <2>3, <2>4 DEF Inherits
  <1> QED BY <1>2

\* How the community module adds up: whichever element comes first.
First(s) == CHOOSE x \in s : TRUE
Adds(f, S, g) ==
  g = [s \in SUBSET S |-> IF s = {} THEN 0 ELSE f[First(s)] + g[s \ {First(s)}]]
SumOver(f, S) == SumFunctionOnSet(f, S)

LEMMA FirstOf ==
  ASSUME NEW s, s # {} PROVE First(s) \in s
  BY DEF First

LEMMA SumIsChosen ==
  ASSUME NEW f, NEW S
  PROVE  SumOver(f, S) = (CHOOSE g : Adds(f, S, g))[S]
  BY Zenon DEF SumOver, SumFunctionOnSet, FoldFunctionOnSet, MapThenFoldSet, Adds, First

\* Two ways to add agree on what both of them add.
LEMMA SumsAgree ==
  ASSUME NEW f, NEW S, NEW T, NEW g, NEW h, Adds(f, S, g), Adds(f, T, h),
         NEW s \in SUBSET (S \cap T), IsFiniteSet(s)
  PROVE  g[s] = h[s]
  <1> DEFINE Good == {t \in SUBSET s : g[t] = h[t]}
  <1>1. ASSUME NEW t \in SUBSET s, \A x \in t : t \ {x} \in Good
        PROVE  t \in Good
    <2>1. /\ g[t] = IF t = {} THEN 0 ELSE f[First(t)] + g[t \ {First(t)}]
          /\ h[t] = IF t = {} THEN 0 ELSE f[First(t)] + h[t \ {First(t)}]
      <3>1. t \in SUBSET S /\ t \in SUBSET T
        OBVIOUS
      <3> QED BY <3>1 DEF Adds
    <2>2. CASE t = {}
      BY <2>1, <2>2
    <2>3. CASE t # {}
      <3>1. t \ {First(t)} \in Good
        BY <1>1, <2>3, FirstOf
      <3> QED BY <2>1, <2>3, <3>1
    <2> QED BY <2>2, <2>3
  <1>2. Inherits(s, Good)
    BY <1>1 DEF Inherits
  <1> HIDE DEF Good
  <1>3. s \in Good
    BY <1>2, FiniteInduction
  <1> QED BY <1>3 DEF Good

\* And every finite set can be added up.
LEMMA SumsExist ==
  ASSUME NEW f, NEW S, IsFiniteSet(S)
  PROVE  \E g : Adds(f, S, g)
  <1> DEFINE Good == {T \in SUBSET S : \E g : Adds(f, T, g)}
  <1>1. ASSUME NEW T \in SUBSET S, \A x \in T : T \ {x} \in Good
        PROVE  T \in Good
    <2> DEFINE G(x) == CHOOSE g : Adds(f, T \ {x}, g)
               h == [s \in SUBSET T |-> IF s = {} THEN 0
                                        ELSE f[First(s)] + G(First(s))[s \ {First(s)}]]
    <2>1. \A x \in T : Adds(f, T \ {x}, G(x))
      BY <1>1
    <2>2. ASSUME NEW s \in SUBSET T, s # {}
          PROVE  h[s \ {First(s)}] = G(First(s))[s \ {First(s)}]
      <3> DEFINE c == First(s)
                 r == s \ {c}
      <3>1. c \in s /\ c \in T /\ r \in SUBSET T /\ r \in SUBSET (T \ {c})
        BY <2>2, FirstOf
      <3> HIDE DEF c
      <3>2. G(c)[r] = IF r = {} THEN 0 ELSE f[First(r)] + G(c)[r \ {First(r)}]
        <4>1. Adds(f, T \ {c}, G(c))
          BY <2>1, <3>1
        <4> HIDE DEF G, r
        <4> QED BY <4>1, <3>1 DEF Adds
      <3>3. h[r] = IF r = {} THEN 0 ELSE f[First(r)] + G(First(r))[r \ {First(r)}]
        <4> HIDE DEF G, r
        <4> QED BY <3>1
      <3>4. CASE r = {}
        BY <3>2, <3>3, <3>4 DEF c
      <3>5. CASE r # {}
        <4>1. First(r) \in r
          BY <3>5, FirstOf
        <4>2. First(r) \in T
          BY <4>1, <3>1
        <4>3. r \ {First(r)} \in SUBSET ((T \ {c}) \cap (T \ {First(r)}))
          BY <3>1
        <4>4. IsFiniteSet(r \ {First(r)})
          <5>1. r \ {First(r)} \in SUBSET S
            BY <3>1
          <5> QED BY <5>1, FS_Subset
        <4>5. Adds(f, T \ {c}, G(c)) /\ Adds(f, T \ {First(r)}, G(First(r)))
          BY <2>1, <3>1, <4>2
        <4> HIDE DEF G, r, h
        <4>6. G(c)[r \ {First(r)}] = G(First(r))[r \ {First(r)}]
          BY <4>3, <4>4, <4>5, SumsAgree
        <4> QED BY <3>2, <3>3, <3>5, <4>6 DEF c, r
      <3> QED BY <3>4, <3>5
    <2>3. Adds(f, T, h)
      <3> HIDE DEF G
      <3>1. \A s \in SUBSET T : s # {} => G(First(s))[s \ {First(s)}] = h[s \ {First(s)}]
        BY <2>2
      <3> QED BY <3>1, Zenon DEF Adds
    <2> QED BY <2>3
  <1>2. Inherits(S, Good)
    BY <1>1 DEF Inherits
  <1> HIDE DEF Good
  <1>3. S \in Good
    BY <1>2, FiniteInduction
  <1> QED BY <1>3 DEF Good

\* The sum of no numbers, and of others from the first that comes.
LEMMA SumStep ==
  ASSUME NEW f, NEW S, IsFiniteSet(S)
  PROVE  /\ SumOver(f, {}) = 0
         /\ S # {} => SumOver(f, S) = f[First(S)] + SumOver(f, S \ {First(S)})
  <1>1. ASSUME NEW T, IsFiniteSet(T)
        PROVE  \E g : Adds(f, T, g) /\ SumOver(f, T) = g[T]
    <2>1. \E g : Adds(f, T, g)
      BY <1>1, SumsExist
    <2>2. Adds(f, T, CHOOSE g : Adds(f, T, g))
      BY <2>1
    <2> QED BY <2>2, SumIsChosen
  <1>2. SumOver(f, {}) = 0
    <2>1. IsFiniteSet({})
      BY FS_EmptySet
    <2>2. PICK g : Adds(f, {}, g) /\ SumOver(f, {}) = g[{}]
      BY <2>1, <1>1
    <2> QED BY <2>2 DEF Adds
  <1>3. ASSUME S # {} PROVE SumOver(f, S) = f[First(S)] + SumOver(f, S \ {First(S)})
    <2> DEFINE r == S \ {First(S)}
    <2>1. IsFiniteSet(r) /\ r \in SUBSET (S \cap r) /\ S \in SUBSET S
      BY FS_Subset
    <2>2. PICK g : Adds(f, S, g) /\ SumOver(f, S) = g[S]
      BY <1>1
    <2>3. PICK h : Adds(f, r, h) /\ SumOver(f, r) = h[r]
      BY <1>1, <2>1
    <2>4. g[S] = f[First(S)] + g[r]
      BY <1>3, <2>1, <2>2 DEF Adds
    <2> HIDE DEF r
    <2>5. g[r] = h[r]
      BY <2>1, <2>2, <2>3, SumsAgree
    <2> QED BY <2>2, <2>3, <2>4, <2>5 DEF r
  <1> QED BY <1>2, <1>3

\* A sum of numbers is one.
Numbers(f, S) == IsFiniteSet(S) /\ \A x \in S : f[x] \in Int
LEMMA SumsAreNumbers ==
  ASSUME NEW f, NEW S, Numbers(f, S)
  PROVE  SumOver(f, S) \in Int
  <1> DEFINE Good == {T \in SUBSET S : SumOver(f, T) \in Int}
  <1>1. ASSUME NEW T \in SUBSET S, \A x \in T : T \ {x} \in Good
        PROVE  T \in Good
    <2>1. IsFiniteSet(T) /\ \A x \in T : f[x] \in Int
      BY FS_Subset DEF Numbers
    <2>2. CASE T = {}
      <3>1. SumOver(f, T) = 0
        BY <2>1, <2>2, SumStep
      <3> QED BY <3>1
    <2>3. CASE T # {}
      <3>1. First(T) \in T
        BY <2>3, FirstOf
      <3>2. SumOver(f, T) = f[First(T)] + SumOver(f, T \ {First(T)})
        BY <2>1, <2>3, SumStep
      <3>3. SumOver(f, T \ {First(T)}) \in Int /\ f[First(T)] \in Int
        BY <1>1, <2>1, <3>1
      <3>4. SumOver(f, T) \in Int
        BY <3>2, <3>3
      <3> QED BY <3>4
    <2> QED BY <2>2, <2>3
  <1>2. Inherits(S, Good)
    BY <1>1 DEF Inherits
  <1>3. IsFiniteSet(S)
    BY DEF Numbers
  <1> HIDE DEF Good
  <1>4. S \in Good
    BY <1>2, <1>3, FiniteInduction
  <1> QED BY <1>4 DEF Good

\* Any number can be taken out of a sum of numbers.
Takes(f, T) ==
  SumOver(f, T) \in Int /\ \A x \in T : SumOver(f, T) = f[x] + SumOver(f, T \ {x})
LEMMA SumTakes ==
  ASSUME NEW f, NEW S, Numbers(f, S)
  PROVE  Takes(f, S)
  <1> DEFINE Good == {T \in SUBSET S : Takes(f, T)}
  <1>1. ASSUME NEW T \in SUBSET S, \A x \in T : T \ {x} \in Good
        PROVE  T \in Good
    <2>1. IsFiniteSet(T) /\ \A x \in T : f[x] \in Int
      BY FS_Subset DEF Numbers
    <2>2. CASE T = {}
      <3>1. SumOver(f, T) = 0
        BY <2>1, <2>2, SumStep
      <3>2. Takes(f, T)
        BY <2>2, <3>1 DEF Takes
      <3> QED BY <3>2
    <2>3. CASE T # {}
      <3> DEFINE c == First(T)
      <3>1. c \in T
        BY <2>3, FirstOf
      <3>2. SumOver(f, T) = f[c] + SumOver(f, T \ {c})
        BY <2>1, <2>3, SumStep
      <3> HIDE DEF c
      <3>3. \A x \in T : Takes(f, T \ {x})
        BY <1>1
      <3>4. SumOver(f, T) \in Int
        BY <2>1, <3>1, <3>2, <3>3 DEF Takes
      <3>5. ASSUME NEW x \in T, x # c
            PROVE  SumOver(f, T) = f[x] + SumOver(f, T \ {x})
        <4>1. SumOver(f, T \ {c}) = f[x] + SumOver(f, (T \ {c}) \ {x})
          BY <3>1, <3>3, <3>5 DEF Takes
        <4>2. SumOver(f, T \ {x}) = f[c] + SumOver(f, (T \ {x}) \ {c})
          BY <3>1, <3>3, <3>5 DEF Takes
        <4>3. (T \ {x}) \ {c} = (T \ {c}) \ {x}
          OBVIOUS
        <4> DEFINE rest == SumOver(f, (T \ {c}) \ {x})
        <4>4. /\ SumOver(f, T \ {x}) \in Int /\ SumOver(f, T \ {c}) \in Int
              /\ f[x] \in Int /\ f[c] \in Int
          BY <2>1, <3>1, <3>3 DEF Takes
        <4>5. rest \in Int
          <5>1. (T \ {c}) \ {x} \in SUBSET T
            OBVIOUS
          <5>2. Numbers(f, (T \ {c}) \ {x})
            BY <2>1, <5>1, FS_Subset DEF Numbers
          <5> QED BY <5>2, SumsAreNumbers
        <4>6. SumOver(f, T \ {c}) = f[x] + rest /\ SumOver(f, T \ {x}) = f[c] + rest
          BY <4>1, <4>2, <4>3
        <4> HIDE DEF rest
        <4> QED BY <3>2, <4>4, <4>5, <4>6
      <3> QED BY <3>2, <3>4, <3>5 DEF Takes
    <2> QED BY <2>2, <2>3
  <1>2. Inherits(S, Good)
    BY <1>1 DEF Inherits
  <1>3. IsFiniteSet(S)
    BY DEF Numbers
  <1> HIDE DEF Good
  <1>4. S \in Good
    BY <1>2, <1>3, FiniteInduction
  <1> QED BY <1>4 DEF Good

\* What is added up are the numbers, wherever they stand.
Moves(h, S, f, b) ==
  /\ \A x \in S : f[b[x]] = h[x]
  /\ \A x, y \in S : b[x] = b[y] => x = y
ImageOf(b, S) == {b[x] : x \in S}
LEMMA SumMoved ==
  ASSUME NEW h, NEW S, NEW f, NEW b, Numbers(h, S), Moves(h, S, f, b)
  PROVE  /\ Numbers(f, ImageOf(b, S))
         /\ SumOver(h, S) = SumOver(f, ImageOf(b, S))
  <1> DEFINE Good == {T \in SUBSET S : SumOver(h, T) = SumOver(f, ImageOf(b, T))}
  <1>1. ASSUME NEW T \in SUBSET S
        PROVE  /\ IsFiniteSet(T) /\ Numbers(h, T)
               /\ IsFiniteSet(ImageOf(b, T)) /\ Numbers(f, ImageOf(b, T))
    <2>1. IsFiniteSet(T) /\ Numbers(h, T)
      BY FS_Subset DEF Numbers
    <2>2. IsFiniteSet(ImageOf(b, T))
      <3>1. [x \in T |-> b[x]] \in Surjection(T, ImageOf(b, T))
        BY DEF Surjection, ImageOf
      <3> QED BY <2>1, <3>1, FS_Surjection
    <2>3. \A y \in ImageOf(b, T) : f[y] \in Int
      BY <2>1 DEF ImageOf, Numbers, Moves
    <2> QED BY <2>1, <2>2, <2>3 DEF Numbers
  <1>2. ASSUME NEW T \in SUBSET S, \A x \in T : T \ {x} \in Good
        PROVE  T \in Good
    <2>1. CASE T = {}
      <3>1. ImageOf(b, T) = {}
        BY <2>1 DEF ImageOf
      <3>2. SumOver(h, T) = 0 /\ SumOver(f, ImageOf(b, T)) = 0
        BY <2>1, <3>1, <1>1, SumStep
      <3> QED BY <3>2
    <2>2. CASE T # {}
      <3>1. PICK x \in T : TRUE
        BY <2>2
      <3>2. ImageOf(b, T) \ {b[x]} = ImageOf(b, T \ {x}) /\ b[x] \in ImageOf(b, T)
        BY <3>1 DEF ImageOf, Moves
      <3>3. Takes(h, T) /\ Takes(f, ImageOf(b, T))
        BY <1>1, SumTakes
      <3>4. SumOver(h, T) = h[x] + SumOver(h, T \ {x})
        BY <3>1, <3>3 DEF Takes
      <3>5. SumOver(f, ImageOf(b, T)) = f[b[x]] + SumOver(f, ImageOf(b, T) \ {b[x]})
        BY <3>2, <3>3 DEF Takes
      <3>6. SumOver(h, T \ {x}) = SumOver(f, ImageOf(b, T \ {x})) /\ f[b[x]] = h[x]
        BY <1>2, <3>1 DEF Moves
      <3>7. SumOver(h, T) = SumOver(f, ImageOf(b, T))
        BY <3>2, <3>4, <3>5, <3>6
      <3> QED BY <3>7
    <2> QED BY <2>1, <2>2
  <1>3. Inherits(S, Good)
    BY <1>2 DEF Inherits
  <1>4. IsFiniteSet(S) /\ Numbers(f, ImageOf(b, S))
    BY <1>1
  <1> HIDE DEF Good
  <1>5. S \in Good
    BY <1>3, <1>4, FiniteInduction
  <1> QED BY <1>4, <1>5 DEF Good

LEMMA SumSame ==
  ASSUME NEW h, NEW S, NEW f, Numbers(h, S), \A x \in S : f[x] = h[x]
  PROVE  SumOver(h, S) = SumOver(f, S)
  <1> DEFINE b == [x \in S |-> x]
  <1>1. Moves(h, S, f, b) /\ ImageOf(b, S) = S
    BY DEF Moves, ImageOf
  <1> HIDE DEF b
  <1> QED BY <1>1, SumMoved

\* Two sets without a common element are added up one after the other.
LEMMA SumOfTwo ==
  ASSUME NEW f, NEW R, NEW S, Numbers(f, R \cup S), R \cap S = {}
  PROVE  /\ SumOver(f, R \cup S) = SumOver(f, R) + SumOver(f, S)
         /\ SumOver(f, R) \in Int /\ SumOver(f, S) \in Int
  <1> DEFINE Good == {T \in SUBSET S : SumOver(f, R \cup T) = SumOver(f, R) + SumOver(f, T)}
  <1>1. \A T \in SUBSET (R \cup S) : Numbers(f, T) /\ SumOver(f, T) \in Int
    BY FS_Subset, SumsAreNumbers DEF Numbers
  <1>2. ASSUME NEW T \in SUBSET S, \A x \in T : T \ {x} \in Good
        PROVE  T \in Good
    <2>0. SumOver(f, R) \in Int /\ IsFiniteSet(R)
      BY <1>1 DEF Numbers
    <2>1. CASE T = {}
      <3>1. R \cup T = R /\ SumOver(f, T) = 0
        BY <2>0, <2>1, SumStep
      <3>2. SumOver(f, R \cup T) = SumOver(f, R) + SumOver(f, T)
        <4>1. SumOver(f, R \cup T) = SumOver(f, R)
          BY <3>1
        <4>2. SumOver(f, R) + SumOver(f, T) = SumOver(f, R)
          BY <2>0, <3>1
        <4> QED BY <4>1, <4>2
      <3> QED BY <3>2
    <2>2. CASE T # {}
      <3>1. PICK x \in T : TRUE
        BY <2>2
      <3>2. (R \cup T) \ {x} = R \cup (T \ {x}) /\ x \in R \cup T
        BY <3>1
      <3>3. R \cup T \in SUBSET (R \cup S) /\ T \in SUBSET (R \cup S) /\ T \ {x} \in SUBSET (R \cup S)
        OBVIOUS
      <3>4. Takes(f, R \cup T) /\ Takes(f, T)
        BY <1>1, <3>3, SumTakes
      <3>5. SumOver(f, R \cup T) = f[x] + SumOver(f, R \cup (T \ {x}))
        BY <3>2, <3>4 DEF Takes
      <3>6. SumOver(f, T) = f[x] + SumOver(f, T \ {x})
        BY <3>1, <3>4 DEF Takes
      <3>7. SumOver(f, R \cup (T \ {x})) = SumOver(f, R) + SumOver(f, T \ {x})
        BY <1>2, <3>1
      <3>8. f[x] \in Int /\ SumOver(f, T \ {x}) \in Int
        BY <1>1, <3>1, <3>3 DEF Numbers
      <3>9. SumOver(f, R \cup T) = SumOver(f, R) + SumOver(f, T)
        BY <2>0, <3>5, <3>6, <3>7, <3>8
      <3> QED BY <3>9
    <2> QED BY <2>1, <2>2
  <1>3. Inherits(S, Good)
    BY <1>2 DEF Inherits
  <1>4. IsFiniteSet(S)
    BY <1>1 DEF Numbers
  <1> HIDE DEF Good
  <1>5. S \in Good
    BY <1>3, <1>4, FiniteInduction
  <1>6. SumOver(f, R) \in Int /\ SumOver(f, S) \in Int
    BY <1>1
  <1> QED BY <1>5, <1>6 DEF Good

LEMMA ListsAreFinite ==
  ASSUME NEW S, NEW s \in Seq(S)
  PROVE  IsFiniteSet(DOMAIN s)
  <1>1. Len(s) \in Nat /\ DOMAIN s = 1 .. Len(s)
    OBVIOUS
  <1>2. \A n \in Nat : IsFiniteSet(1 .. n)
    BY FS_Interval
  <1> QED BY <1>1, <1>2

-----------------------------------------------------------------------------
(* The invariant.                                                          *)

SmallHdr == [block : Nat, bytes_used : Nat, bytes_left : Nat]
LargeHdr == [block : Nat, bytes_used : Nat]
Piece == [block : Nat, size : Nat, from : Nat]
Pointer == [block : Nat, from : Nat]
RowArray == [bytes : Nat \ {0}, rows : Seq(Pointer), rowsperchunk : Nat \ {0}]
VirtArray ==
  [call : ArrayCalls, realized : BOOLEAN, rows_in_mem : Nat, b_s_open : BOOLEAN, buffer : Nat]
Heaps == UNION {[S -> Nat] : S \in {T \in SUBSET Nat : IsFiniteSet(T)}}
Errors ==
  {"none", "destroyed", "JERR_OUT_OF_MEMORY", "JERR_WIDTH_OVERFLOW", "JERR_TFILE_CREATE"}
Manager ==
  [error : Errors, heap : Heaps,
   small_list : [Lifetimes -> Seq(SmallHdr)], large_list : [Lifetimes -> Seq(LargeHdr)],
   virt_list : Seq(VirtArray), total_space_allocated : Int,
   objects : [Lifetimes -> Seq(Piece)], arrays : [Lifetimes -> Seq(RowArray)], files : Int]

\* The total is that of all blocks.
Books(m) == m.total_space_allocated = SumOver(m.heap, DOMAIN m.heap)

\* Each block but the manager's own belongs to one header, which knows its size.
SmallOnes(m) ==
  \A q \in Lifetimes : \A p \in DOMAIN m.small_list[q] : \A hdr \in {m.small_list[q][p]} :
    /\ hdr.block \in DOMAIN m.heap /\ hdr.block # 0
    /\ m.heap[hdr.block] = hdr.bytes_used + hdr.bytes_left + HeaderBytes
    /\ hdr.bytes_used % AlignBytes = 0
LargeOnes(m) ==
  \A q \in Lifetimes : \A p \in DOMAIN m.large_list[q] : \A hdr \in {m.large_list[q][p]} :
    /\ hdr.block \in DOMAIN m.heap /\ hdr.block # 0
    /\ m.heap[hdr.block] = hdr.bytes_used + HeaderBytes
Distinct(lists) ==
  \A q, r \in Lifetimes : \A p \in DOMAIN lists[q], s \in DOMAIN lists[r] :
    lists[q][p].block = lists[r][s].block => q = r /\ p = s
NoneShared(m) ==
  \A q, r \in Lifetimes : \A p \in DOMAIN m.small_list[q], s \in DOMAIN m.large_list[r] :
    m.small_list[q][p].block # m.large_list[r][s].block
AllKnown(m) ==
  /\ 0 \in DOMAIN m.heap
  /\ DOMAIN m.heap = {0} \cup BlocksOfPool(m, PERMANENT) \cup BlocksOfPool(m, IMAGE)
BlocksOK(m) ==
  /\ SmallOnes(m) /\ LargeOnes(m) /\ NoneShared(m) /\ AllKnown(m)
  /\ Distinct(m.small_list) /\ Distinct(m.large_list)

\* Each object is in the used part of a block of its lifetime.
InSmall(hdr, object) ==
  object.block = hdr.block /\ object.from + object.size <= HeaderBytes + hdr.bytes_used
InLarge(hdr, object) ==
  object.block = hdr.block /\ object.from = HeaderBytes /\ object.size = hdr.bytes_used
PieceOK(m, q, object) ==
  /\ object.from % AlignBytes = 0 /\ object.from >= HeaderBytes
  /\ \/ \E p \in DOMAIN m.small_list[q] : InSmall(m.small_list[q][p], object)
     \/ \E p \in DOMAIN m.large_list[q] : InLarge(m.large_list[q][p], object)
PiecesOK(m) ==
  \A q \in Lifetimes : \A i \in DOMAIN m.objects[q] : PieceOK(m, q, m.objects[q][i])
PiecesApart(m) ==
  \A p, q \in Lifetimes : \A i \in DOMAIN m.objects[p], j \in DOMAIN m.objects[q] :
    <<p, i>> # <<q, j>> => Apart(m.objects[p][i], m.objects[q][j])

\* The rows of an array that has all of them.
ArrayOK(objects, arr) ==
  /\ \A r \in DOMAIN arr.rows : \E i \in DOMAIN objects : Inside(RowOf(arr, r), objects[i])
  /\ \A r, s \in DOMAIN arr.rows : r # s => Apart(RowOf(arr, r), RowOf(arr, s))
  /\ \A r \in DOMAIN arr.rows \ {1} : (r - 1) % arr.rowsperchunk # 0 =>
       arr.rows[r] = [arr.rows[r - 1] EXCEPT !.from = @ + arr.bytes]
ArraysOK(m) ==
  \A q \in Lifetimes : \A a \in DOMAIN m.arrays[q] : ArrayOK(m.objects[q], m.arrays[q][a])

\* Only an array that got its share has a file.
ShareOK(m, ptr) ==
  IF ptr.realized
  THEN /\ ptr.b_s_open <=> ptr.rows_in_mem < ptr.call.rows
       /\ ptr.rows_in_mem >= Min({ptr.call.maxaccess, ptr.call.rows})
       /\ ptr.buffer \in DOMAIN m.arrays[IMAGE]
       /\ Len(m.arrays[IMAGE][ptr.buffer].rows) = ptr.rows_in_mem
  ELSE ~ptr.b_s_open
SharesOK(m) == \A v \in DOMAIN m.virt_list : ShareOK(m, m.virt_list[v])

Core(m) == m \in Manager /\ Books(m) /\ BlocksOK(m) /\ PiecesOK(m) /\ PiecesApart(m)
FilesOK(m) == m.files = Cardinality(OpenStores(m))
\* What outlives an image are no arrays.
NoneIsPermanent(m) == m.arrays[PERMANENT] = << >>
Sound(m) ==
  /\ Core(m) /\ FilesOK(m) /\ NoneIsPermanent(m)
  /\ m.error = "none" => ArraysOK(m) /\ SharesOK(m)
Gone(m) ==
  /\ m.error = "destroyed" /\ m.heap = << >> /\ m.files = 0 /\ m.virt_list = << >>
  /\ \A p \in Lifetimes : m.objects[p] = << >> /\ m.arrays[p] = << >>

MemoryInv == IF mem.error = "destroyed" THEN Gone(mem) ELSE Sound(mem)

-----------------------------------------------------------------------------
(* Small and large objects.                                                *)

\* What is known of the constants, one by one.
LEMMA ConstantsAreSizes ==
  /\ HeaderBytes \in Nat /\ HeaderBytes > 0 /\ HeaderBytes % AlignBytes = 0
  /\ AlignBytes \in Nat \ {0} /\ MaxChunk \in Nat /\ MaxChunk % AlignBytes = 0
  /\ HeaderBytes < MaxChunk /\ MinSlop \in Nat /\ MinSlop > 0
  /\ PointerBytes \in Nat /\ ControlBytes \in Nat /\ ManagerBytes \in Nat /\ MaxMemory \in Int
  BY PoolsAssumption

\* A heap is a finite number of blocks with their sizes.
LEMMA HeapFacts ==
  ASSUME NEW h \in Heaps
  PROVE  /\ DOMAIN h \in SUBSET Nat /\ IsFiniteSet(DOMAIN h) /\ \A b \in DOMAIN h : h[b] \in Nat
         /\ h = [b \in DOMAIN h |-> h[b]]
         /\ Numbers(h, DOMAIN h)
  <1>1. PICK S \in {T \in SUBSET Nat : IsFiniteSet(T)} : h \in [S -> Nat]
    BY DEF Heaps
  <1> QED BY <1>1 DEF Numbers

LEMMA MakesAHeap ==
  ASSUME NEW S \in SUBSET Nat, IsFiniteSet(S), NEW h \in [S -> Nat]
  PROVE  h \in Heaps
  BY DEF Heaps

\* The system gives a block that nobody has.
LEMMA NewBlockIsNew ==
  ASSUME NEW m, m.heap \in Heaps
  PROVE  NewBlock(m) \in Nat /\ NewBlock(m) \notin DOMAIN m.heap
  <1> DEFINE n == Cardinality(DOMAIN m.heap)
  <1>1. n \in Nat /\ IsFiniteSet(DOMAIN m.heap)
    BY HeapFacts, FS_CardinalityType
  <1>2. \E b \in 0 .. n : b \notin DOMAIN m.heap
    <2>1. ASSUME 0 .. n \subseteq DOMAIN m.heap PROVE FALSE
      <3>1. Cardinality(0 .. n) = n + 1
        BY <1>1, FS_Interval
      <3>2. Cardinality(0 .. n) <= n
        BY <1>1, <2>1, FS_Subset
      <3> QED BY <1>1, <3>1, <3>2
    <2> QED BY <2>1
  <1> QED BY <1>1, <1>2 DEF NewBlock

\* What the system gives is added to the total.
GivesABlock(m, d, size) ==
  /\ d.heap \in Heaps
  /\ DOMAIN d.heap = DOMAIN m.heap \cup {NewBlock(m)}
  /\ d.heap[NewBlock(m)] = size /\ \A b \in DOMAIN m.heap : d.heap[b] = m.heap[b]
LEMMA GivenOK ==
  ASSUME NEW m \in Manager, Books(m), NEW size \in Nat
  PROVE  /\ Given(m, size) \in Manager /\ Books(Given(m, size))
         /\ GivesABlock(m, Given(m, size), size)
  <1> DEFINE b == NewBlock(m)
             d == Given(m, size)
             h == [x \in DOMAIN m.heap \cup {b} |-> IF x \in DOMAIN m.heap THEN m.heap[x] ELSE size]
  <1>1. m.heap \in Heaps /\ m.total_space_allocated \in Int
    BY DEF Manager
  <1>2. b \in Nat /\ b \notin DOMAIN m.heap
    BY <1>1, NewBlockIsNew
  <1>3. /\ DOMAIN m.heap \in SUBSET Nat /\ IsFiniteSet(DOMAIN m.heap)
        /\ \A x \in DOMAIN m.heap : m.heap[x] \in Nat
    BY <1>1, HeapFacts
  <1> HIDE DEF b
  <1>4. h \in Heaps
    <2>1. IsFiniteSet(DOMAIN m.heap \cup {b}) /\ DOMAIN m.heap \cup {b} \in SUBSET Nat
      BY <1>2, <1>3, FS_AddElement
    <2>2. h \in [DOMAIN m.heap \cup {b} -> Nat]
      BY <1>2, <1>3
    <2> QED BY <2>1, <2>2, MakesAHeap
  <1>5. d = [m EXCEPT !.heap = h, !.total_space_allocated = m.total_space_allocated + size]
    BY DEF Given, b, Manager
  <1>6. DOMAIN h = DOMAIN m.heap \cup {b} /\ h[b] = size /\ \A x \in DOMAIN m.heap : h[x] = m.heap[x]
    BY <1>2
  <1> HIDE DEF h, d
  <1>7. d \in Manager /\ d.heap = h /\ d.total_space_allocated = m.total_space_allocated + size
    <2>1. m.total_space_allocated + size \in Int
      BY <1>1
    <2>2. d.heap = h /\ d.total_space_allocated = m.total_space_allocated + size
      BY <1>5 DEF Manager
    <2>3. d \in Manager
      BY <1>4, <1>5, <2>1 DEF Manager
    <2> QED BY <2>2, <2>3
  <1>8. SumOver(h, DOMAIN h) = SumOver(m.heap, DOMAIN m.heap) + size
    <2>1. Numbers(h, DOMAIN h) /\ Numbers(m.heap, DOMAIN m.heap)
      BY <1>1, <1>4, HeapFacts
    <2>2. Takes(h, DOMAIN h) /\ b \in DOMAIN h
      BY <1>6, <2>1, SumTakes
    <2>3. SumOver(h, DOMAIN h) = size + SumOver(h, DOMAIN h \ {b})
      BY <1>6, <2>2 DEF Takes
    <2>4. DOMAIN h \ {b} = DOMAIN m.heap
      BY <1>2, <1>6
    <2>5. SumOver(m.heap, DOMAIN m.heap) = SumOver(h, DOMAIN m.heap)
      BY <1>6, <2>1, SumSame
    <2>6. SumOver(m.heap, DOMAIN m.heap) \in Int
      BY <2>1, SumsAreNumbers
    <2>7. SumOver(h, DOMAIN h) = size + SumOver(m.heap, DOMAIN m.heap)
      BY <2>3, <2>4, <2>5
    <2> QED BY <2>6, <2>7
  <1> QED BY <1>4, <1>6, <1>7, <1>8 DEF Books, GivesABlock, d, b

LEMMA WholeMultiple ==
  ASSUME NEW a \in Nat, NEW k \in Nat \ {0}, a % k = 0
  PROVE  a = k * (a \div k) /\ a \div k \in Nat
  BY DivMod

\* Two multiples of the alignment make a third.
LEMMA SumOfMultiples ==
  ASSUME NEW a \in Nat, NEW b \in Nat, NEW k \in Nat \ {0}, a % k = 0, b % k = 0
  PROVE  (a + b) % k = 0
  <1>1. a = k * (a \div k) /\ b = k * (b \div k) /\ a \div k \in Nat /\ b \div k \in Nat
    BY DivMod
  <1> DEFINE x == a \div k
             y == b \div k
  <1>2. k * x + k * y = k * (x + y) /\ x + y \in Nat
    BY <1>1
  <1>3. (k * (x + y)) % k = 0
    BY <1>2, MultMod
  <1> QED BY <1>1, <1>2, <1>3

\* The objects of before are there, and one more.
PieceAdded(m, d, q, piece) ==
  \A r \in Lifetimes : d.objects[r] = IF r = q THEN Append(m.objects[q], piece) ELSE m.objects[r]
Grows(m, d) ==
  /\ d.arrays = m.arrays /\ d.virt_list = m.virt_list /\ d.files = m.files
  /\ \A q \in Lifetimes :
       /\ DOMAIN m.objects[q] \subseteq DOMAIN d.objects[q]
       /\ \A i \in DOMAIN m.objects[q] : d.objects[q][i] = m.objects[q][i]
OneMore(m, d, q, piece) ==
  \A r \in Lifetimes :
    /\ d.objects[r] \in Seq(Piece)
    /\ DOMAIN m.objects[r] \subseteq DOMAIN d.objects[r]
    /\ \A i \in DOMAIN m.objects[r] : d.objects[r][i] = m.objects[r][i]
    /\ \A i \in DOMAIN d.objects[r] :
         i \notin DOMAIN m.objects[r] =>
           r = q /\ d.objects[r][i] = piece /\ i = Len(m.objects[q]) + 1
LEMMA AddedPiece ==
  ASSUME NEW m \in Manager, NEW d, NEW q \in Lifetimes, NEW piece \in Piece,
         PieceAdded(m, d, q, piece)
  PROVE  OneMore(m, d, q, piece)
  <1> SUFFICES ASSUME NEW r \in Lifetimes
               PROVE  /\ d.objects[r] \in Seq(Piece)
                      /\ DOMAIN m.objects[r] \subseteq DOMAIN d.objects[r]
                      /\ \A i \in DOMAIN m.objects[r] : d.objects[r][i] = m.objects[r][i]
                      /\ \A i \in DOMAIN d.objects[r] :
                           i \notin DOMAIN m.objects[r] =>
                             r = q /\ d.objects[r][i] = piece /\ i = Len(m.objects[q]) + 1
    BY DEF OneMore
  <1>1. m.objects[r] \in Seq(Piece) /\ m.objects[q] \in Seq(Piece)
    BY DEF Manager
  <1>2. CASE r = q
    <2>1. d.objects[r] = Append(m.objects[q], piece)
      BY <1>2 DEF PieceAdded
    <2> QED BY <1>1, <1>2, <2>1
  <1>3. CASE r # q
    BY <1>1, <1>3 DEF PieceAdded
  <1> QED BY <1>2, <1>3

LEMMA StillApart ==
  ASSUME NEW m \in Manager, NEW d, NEW q \in Lifetimes, NEW piece \in Piece,
         PieceAdded(m, d, q, piece), PiecesApart(m),
         \A r \in Lifetimes : \A i \in DOMAIN m.objects[r] : Apart(m.objects[r][i], piece)
  PROVE  PiecesApart(d)
  <1> SUFFICES ASSUME NEW r \in Lifetimes, NEW s \in Lifetimes,
                      NEW i \in DOMAIN d.objects[r], NEW j \in DOMAIN d.objects[s],
                      <<r, i>> # <<s, j>>
               PROVE  Apart(d.objects[r][i], d.objects[s][j])
    BY DEF PiecesApart
  <1>0. \A t \in Lifetimes :
          /\ \A k \in DOMAIN m.objects[t] : d.objects[t][k] = m.objects[t][k]
          /\ \A k \in DOMAIN d.objects[t] : k \notin DOMAIN m.objects[t] =>
               t = q /\ d.objects[t][k] = piece /\ k = Len(m.objects[q]) + 1
    <2>1. OneMore(m, d, q, piece)
      BY AddedPiece
    <2> QED BY <2>1 DEF OneMore
  <1>1. CASE i \in DOMAIN m.objects[r] /\ j \in DOMAIN m.objects[s]
    BY <1>0, <1>1 DEF PiecesApart
  <1>2. CASE i \in DOMAIN m.objects[r] /\ j \notin DOMAIN m.objects[s]
    BY <1>0, <1>2
  <1>3. CASE i \notin DOMAIN m.objects[r] /\ j \in DOMAIN m.objects[s]
    <2>1. Apart(m.objects[s][j], piece)
      BY <1>3
    <2>2. Apart(piece, m.objects[s][j])
      BY <2>1 DEF Apart
    <2> QED BY <1>0, <1>3, <2>2
  <1>4. CASE i \notin DOMAIN m.objects[r] /\ j \notin DOMAIN m.objects[s]
    BY <1>0, <1>4
  <1> QED BY <1>1, <1>2, <1>3, <1>4

\* An object behind the others of its block.
LEMMA PlacedInFields ==
  ASSUME NEW m \in Manager, NEW q \in Lifetimes, NEW p \in DOMAIN m.small_list[q],
         NEW size \in Nat, size <= m.small_list[q][p].bytes_left
  PROVE  LET d == PlacedIn(m, q, p, size)
             hdr == m.small_list[q][p]
         IN  /\ d \in Manager /\ d.heap = m.heap /\ d.error = m.error
             /\ d.large_list = m.large_list /\ d.total_space_allocated = m.total_space_allocated
             /\ d.arrays = m.arrays /\ d.virt_list = m.virt_list /\ d.files = m.files
             /\ \A r \in Lifetimes :
                  /\ DOMAIN d.small_list[r] = DOMAIN m.small_list[r]
                  /\ \A s \in DOMAIN m.small_list[r] :
                       r # q \/ s # p => d.small_list[r][s] = m.small_list[r][s]
             /\ d.small_list[q][p] = [block |-> hdr.block, bytes_used |-> hdr.bytes_used + size,
                                      bytes_left |-> hdr.bytes_left - size]
             /\ PieceAdded(m, d, q, [block |-> hdr.block, size |-> size,
                                     from |-> HeaderBytes + hdr.bytes_used])
  <1> DEFINE d == PlacedIn(m, q, p, size)
             hdr == m.small_list[q][p]
             new == [block |-> hdr.block, bytes_used |-> hdr.bytes_used + size,
                     bytes_left |-> hdr.bytes_left - size]
             piece == [block |-> hdr.block, size |-> size, from |-> HeaderBytes + hdr.bytes_used]
             small == [m.small_list EXCEPT ![q] = [m.small_list[q] EXCEPT ![p] = new]]
             objects == [m.objects EXCEPT ![q] = Append(m.objects[q], piece)]
  <1>1. /\ m.small_list \in [Lifetimes -> Seq(SmallHdr)]
        /\ m.small_list[q] \in Seq(SmallHdr) /\ hdr \in SmallHdr
        /\ m.objects \in [Lifetimes -> Seq(Piece)] /\ m.objects[q] \in Seq(Piece)
        /\ m.large_list \in [Lifetimes -> Seq(LargeHdr)]
    BY DEF Manager
  <1>2. new \in SmallHdr /\ piece \in Piece
    <2>1. hdr.block \in Nat /\ hdr.bytes_used \in Nat /\ hdr.bytes_left \in Nat
      BY <1>1 DEF SmallHdr
    <2>2. /\ hdr.bytes_used + size \in Nat /\ hdr.bytes_left - size \in Nat
          /\ HeaderBytes + hdr.bytes_used \in Nat
      BY <2>1, ConstantsAreSizes
    <2> QED BY <2>1, <2>2 DEF SmallHdr, Piece
  <1>3. small \in [Lifetimes -> Seq(SmallHdr)] /\ objects \in [Lifetimes -> Seq(Piece)]
    BY <1>1, <1>2
  <1>4. d = [m EXCEPT !.small_list = small, !.objects = objects]
    <2>3. d = [m EXCEPT !.small_list[q][p] = new, !.objects[q] = Append(@, piece)]
      BY Zenon DEF PlacedIn
    <2> HIDE DEF new, piece, d
    <2> QED BY <2>3, <1>1 DEF Manager
  <1>5. /\ \A r \in Lifetimes :
             /\ DOMAIN small[r] = DOMAIN m.small_list[r]
             /\ \A s \in DOMAIN m.small_list[r] :
                  r # q \/ s # p => small[r][s] = m.small_list[r][s]
        /\ small[q][p] = new
        /\ \A r \in Lifetimes :
             objects[r] = IF r = q THEN Append(m.objects[q], piece) ELSE m.objects[r]
    BY <1>1
  <1> HIDE DEF d, small, objects, new, piece
  <1>6. d \in Manager
    BY <1>3, <1>4 DEF Manager
  <1>7. /\ d.heap = m.heap /\ d.error = m.error
        /\ d.large_list = m.large_list /\ d.total_space_allocated = m.total_space_allocated
        /\ d.arrays = m.arrays /\ d.virt_list = m.virt_list /\ d.files = m.files
        /\ d.small_list = small /\ d.objects = objects
    BY <1>4 DEF Manager
  <1> QED BY <1>5, <1>6, <1>7 DEF PieceAdded, d, new, piece

LEMMA PlacedInOK ==
  ASSUME NEW m, Core(m), NEW q \in Lifetimes, NEW p \in DOMAIN m.small_list[q],
         NEW size \in Nat, size % AlignBytes = 0, size <= m.small_list[q][p].bytes_left
  PROVE  /\ Core(PlacedIn(m, q, p, size)) /\ PlacedIn(m, q, p, size).error = m.error
         /\ Grows(m, PlacedIn(m, q, p, size))
  <1> DEFINE d == PlacedIn(m, q, p, size)
             hdr == m.small_list[q][p]
             piece == [block |-> hdr.block, size |-> size, from |-> HeaderBytes + hdr.bytes_used]
  <1>1. /\ m \in Manager /\ Books(m) /\ SmallOnes(m) /\ LargeOnes(m) /\ NoneShared(m)
        /\ AllKnown(m) /\ Distinct(m.small_list) /\ Distinct(m.large_list)
        /\ PiecesOK(m) /\ PiecesApart(m)
    BY DEF Core, BlocksOK
  <1>2. hdr \in SmallHdr /\ hdr.block \in Nat /\ hdr.bytes_used \in Nat /\ hdr.bytes_left \in Nat
    <2>1. m.small_list[q] \in Seq(SmallHdr)
      BY <1>1 DEF Manager
    <2>2. hdr \in SmallHdr
      BY <2>1
    <2> QED BY <2>2 DEF SmallHdr
  <1>3. /\ d \in Manager /\ d.heap = m.heap /\ d.error = m.error
        /\ d.large_list = m.large_list /\ d.total_space_allocated = m.total_space_allocated
        /\ d.arrays = m.arrays /\ d.virt_list = m.virt_list /\ d.files = m.files
        /\ \A r \in Lifetimes :
             /\ DOMAIN d.small_list[r] = DOMAIN m.small_list[r]
             /\ \A s \in DOMAIN m.small_list[r] :
                  r # q \/ s # p => d.small_list[r][s] = m.small_list[r][s]
        /\ d.small_list[q][p] = [block |-> hdr.block, bytes_used |-> hdr.bytes_used + size,
                                 bytes_left |-> hdr.bytes_left - size]
        /\ PieceAdded(m, d, q, piece)
    BY <1>1, PlacedInFields
  <1>4. HeaderBytes + hdr.bytes_used \in Nat /\ piece \in Piece
    BY <1>2, ConstantsAreSizes DEF Piece
  <1>5. hdr.bytes_used % AlignBytes = 0
    BY <1>1 DEF SmallOnes
  <1> HIDE DEF d
  <1>6. \A r \in Lifetimes : \A s \in DOMAIN m.small_list[r] :
          /\ s \in DOMAIN d.small_list[r] /\ d.small_list[r][s].block = m.small_list[r][s].block
          /\ d.small_list[r][s].bytes_used >= m.small_list[r][s].bytes_used
    <2> SUFFICES ASSUME NEW r \in Lifetimes, NEW s \in DOMAIN m.small_list[r]
                 PROVE  /\ s \in DOMAIN d.small_list[r]
                        /\ d.small_list[r][s].block = m.small_list[r][s].block
                        /\ d.small_list[r][s].bytes_used >= m.small_list[r][s].bytes_used
      OBVIOUS
    <2>1. CASE r = q /\ s = p
      BY <1>2, <1>3, <2>1
    <2>2. CASE r # q \/ s # p
      <3>1. m.small_list[r][s] \in SmallHdr
        BY <1>1 DEF Manager
      <3>2. m.small_list[r][s].bytes_used \in Nat
        BY <3>1 DEF SmallHdr
      <3> QED BY <1>3, <2>2, <3>2
    <2> QED BY <2>1, <2>2
  <1>7. SmallOnes(d)
    <2> SUFFICES ASSUME NEW r \in Lifetimes, NEW s \in DOMAIN d.small_list[r]
                 PROVE  LET h == d.small_list[r][s]
                        IN  /\ h.block \in DOMAIN d.heap /\ h.block # 0
                            /\ d.heap[h.block] = h.bytes_used + h.bytes_left + HeaderBytes
                            /\ h.bytes_used % AlignBytes = 0
      BY DEF SmallOnes
    <2>1. CASE r = q /\ s = p
      <3>1. (hdr.bytes_used + size) % AlignBytes = 0
        BY <1>2, <1>5, SumOfMultiples, ConstantsAreSizes
      <3>2. /\ hdr.block \in DOMAIN m.heap /\ hdr.block # 0
            /\ m.heap[hdr.block] = hdr.bytes_used + hdr.bytes_left + HeaderBytes
        BY <1>1 DEF SmallOnes
      <3>3. (hdr.bytes_used + size) + (hdr.bytes_left - size) = hdr.bytes_used + hdr.bytes_left
        BY <1>2
      <3> QED BY <1>3, <2>1, <3>1, <3>2, <3>3
    <2>2. CASE r # q \/ s # p
      BY <1>1, <1>3, <2>2 DEF SmallOnes
    <2> QED BY <2>1, <2>2
  <1>8. LargeOnes(d) /\ NoneShared(d) /\ Distinct(d.small_list) /\ Distinct(d.large_list)
    <2>1. LargeOnes(d) /\ Distinct(d.large_list)
      BY <1>1, <1>3 DEF LargeOnes
    <2>2. NoneShared(d)
      BY <1>1, <1>3, <1>6 DEF NoneShared
    <2>3. Distinct(d.small_list)
      BY <1>1, <1>3, <1>6 DEF Distinct
    <2> QED BY <2>1, <2>2, <2>3
  <1>9. AllKnown(d)
    <2>1. \A r \in Lifetimes : BlocksOfPool(d, r) = BlocksOfPool(m, r)
      BY <1>3, <1>6 DEF BlocksOfPool
    <2> QED BY <1>1, <1>3, <2>1 DEF AllKnown, Lifetimes
  <1>10. OneMore(m, d, q, piece)
    BY <1>1, <1>3, <1>4, AddedPiece
  <1>11. PieceOK(d, q, piece)
    <2>1. InSmall(d.small_list[q][p], piece)
      BY <1>2, <1>3, ConstantsAreSizes DEF InSmall
    <2>2. piece.from % AlignBytes = 0
      BY <1>2, <1>5, SumOfMultiples, ConstantsAreSizes
    <2>3. piece.from >= HeaderBytes
      BY <1>2, ConstantsAreSizes
    <2>4. p \in DOMAIN d.small_list[q]
      BY <1>6
    <2> QED BY <2>1, <2>2, <2>3, <2>4 DEF PieceOK
  <1>12. PiecesOK(d)
    <2> SUFFICES ASSUME NEW r \in Lifetimes, NEW i \in DOMAIN d.objects[r]
                 PROVE  PieceOK(d, r, d.objects[r][i])
      BY DEF PiecesOK
    <2>1. CASE i \notin DOMAIN m.objects[r]
      BY <1>10, <1>11, <2>1 DEF OneMore
    <2>2. CASE i \in DOMAIN m.objects[r]
      <3> DEFINE o == m.objects[r][i]
      <3>1. o = d.objects[r][i] /\ PieceOK(m, r, o)
        BY <1>1, <1>10, <2>2 DEF OneMore, PiecesOK
      <3>2. o \in Piece /\ o.from \in Nat /\ o.size \in Nat
        <4>1. o \in Piece
          BY <1>1, <2>2 DEF Manager
        <4> QED BY <4>1 DEF Piece
      <3>3. ASSUME NEW s \in DOMAIN m.small_list[r], InSmall(m.small_list[r][s], o)
            PROVE  InSmall(d.small_list[r][s], o)
        <4>1. /\ m.small_list[r][s].bytes_used \in Nat /\ d.small_list[r][s].bytes_used \in Nat
          <5>1. m.small_list[r] \in Seq(SmallHdr) /\ d.small_list[r] \in Seq(SmallHdr)
            BY <1>1, <1>3 DEF Manager
          <5>2. s \in DOMAIN d.small_list[r]
            BY <1>6
          <5>3. m.small_list[r][s] \in SmallHdr /\ d.small_list[r][s] \in SmallHdr
            BY <5>1, <5>2
          <5> QED BY <5>3 DEF SmallHdr
        <4> HIDE DEF o
        <4> QED BY <1>6, <3>2, <3>3, <4>1, ConstantsAreSizes DEF InSmall
      <3> HIDE DEF o
      <3>4. PieceOK(d, r, o)
        BY <1>3, <1>6, <3>1, <3>3 DEF PieceOK
      <3> QED BY <3>1, <3>4
    <2> QED BY <2>1, <2>2
  <1>13. ASSUME NEW r \in Lifetimes, NEW i \in DOMAIN m.objects[r]
         PROVE  Apart(m.objects[r][i], piece)
    <2> DEFINE o == m.objects[r][i]
    <2>1. PieceOK(m, r, o)
      BY <1>1 DEF PiecesOK
    <2>2. ASSUME NEW s \in DOMAIN m.small_list[r], InSmall(m.small_list[r][s], o)
          PROVE  Apart(o, piece)
      <3>1. CASE r = q /\ s = p
        <4> HIDE DEF o
        <4> QED BY <2>2, <3>1 DEF InSmall, Apart
      <3>2. CASE r # q \/ s # p
        <4>1. m.small_list[r][s].block # hdr.block
          BY <1>1, <3>2 DEF Distinct
        <4> HIDE DEF o
        <4> QED BY <2>2, <4>1 DEF InSmall, Apart
      <3> QED BY <3>1, <3>2
    <2>3. ASSUME NEW s \in DOMAIN m.large_list[r], InLarge(m.large_list[r][s], o)
          PROVE  Apart(o, piece)
      <3>1. m.large_list[r][s].block # hdr.block
        BY <1>1 DEF NoneShared
      <3> HIDE DEF o
      <3> QED BY <2>3, <3>1 DEF InLarge, Apart
    <2> QED BY <2>1, <2>2, <2>3 DEF PieceOK
  <1>14. PiecesApart(d)
    BY <1>1, <1>3, <1>4, <1>13, StillApart
  <1>15. Grows(m, d)
    BY <1>3, <1>10 DEF Grows, OneMore
  <1>16. Books(d)
    BY <1>1, <1>3 DEF Books
  <1> QED BY <1>3, <1>7, <1>8, <1>9, <1>12, <1>14, <1>15, <1>16 DEF Core, BlocksOK, d

\* A pool that is still empty.
WithPool(m, q, bytes) ==
  [Given(m, bytes + HeaderBytes) EXCEPT
     !.small_list[q] = Append(@, [block |-> NewBlock(m), bytes_used |-> 0, bytes_left |-> bytes])]
LEMMA WithPoolFields ==
  ASSUME NEW m, Core(m), NEW q \in Lifetimes, NEW bytes \in Nat
  PROVE  LET d == WithPool(m, q, bytes)
         IN  /\ d \in Manager /\ Books(d) /\ GivesABlock(m, d, bytes + HeaderBytes)
             /\ d.error = m.error /\ d.large_list = m.large_list /\ d.objects = m.objects
             /\ d.arrays = m.arrays /\ d.virt_list = m.virt_list /\ d.files = m.files
             /\ \A r \in Lifetimes :
                  d.small_list[r] = IF r = q
                                    THEN Append(m.small_list[q], [block |-> NewBlock(m),
                                           bytes_used |-> 0, bytes_left |-> bytes])
                                    ELSE m.small_list[r]
  <1> DEFINE g == Given(m, bytes + HeaderBytes)
             d == WithPool(m, q, bytes)
             hdr == [block |-> NewBlock(m), bytes_used |-> 0, bytes_left |-> bytes]
             small == [m.small_list EXCEPT ![q] = Append(m.small_list[q], hdr)]
  <1>1. m \in Manager /\ Books(m)
    BY DEF Core
  <1>2. bytes + HeaderBytes \in Nat
    BY ConstantsAreSizes
  <1>3. g \in Manager /\ Books(g) /\ GivesABlock(m, g, bytes + HeaderBytes)
    BY <1>1, <1>2, GivenOK
  <1>4. /\ g.error = m.error /\ g.large_list = m.large_list /\ g.objects = m.objects
        /\ g.arrays = m.arrays /\ g.virt_list = m.virt_list /\ g.files = m.files
        /\ g.small_list = m.small_list
    BY <1>1 DEF Given, Manager
  <1>5. m.small_list \in [Lifetimes -> Seq(SmallHdr)] /\ m.small_list[q] \in Seq(SmallHdr)
        /\ m.heap \in Heaps
    BY <1>1 DEF Manager
  <1>6. hdr \in SmallHdr
    BY <1>5, NewBlockIsNew DEF SmallHdr
  <1>7. small \in [Lifetimes -> Seq(SmallHdr)]
    BY <1>5, <1>6
  <1>8. d = [g EXCEPT !.small_list[q] = Append(@, hdr)]
    BY Zenon DEF WithPool
  <1>9. \A r \in Lifetimes :
          small[r] = IF r = q THEN Append(m.small_list[q], hdr) ELSE m.small_list[r]
    BY <1>5
  <1> HIDE DEF g, d, hdr
  <1>10. d = [g EXCEPT !.small_list = small]
    BY <1>3, <1>4, <1>8 DEF Manager
  <1> HIDE DEF small
  <1>11. /\ d.error = g.error /\ d.large_list = g.large_list /\ d.objects = g.objects
         /\ d.arrays = g.arrays /\ d.virt_list = g.virt_list /\ d.files = g.files
         /\ d.heap = g.heap /\ d.total_space_allocated = g.total_space_allocated
         /\ d.small_list = small
    BY <1>3, <1>10 DEF Manager
  <1>12. d \in Manager
    BY <1>3, <1>7, <1>10 DEF Manager
  <1>13. Books(d) /\ GivesABlock(m, d, bytes + HeaderBytes)
    BY <1>3, <1>11 DEF Books, GivesABlock
  <1> QED BY <1>4, <1>9, <1>11, <1>12, <1>13 DEF d, hdr

LEMMA WithPoolOK ==
  ASSUME NEW m, Core(m), NEW q \in Lifetimes, NEW bytes \in Nat
  PROVE  /\ Core(WithPool(m, q, bytes)) /\ WithPool(m, q, bytes).error = m.error
         /\ Grows(m, WithPool(m, q, bytes))
         /\ Len(m.small_list[q]) + 1 \in DOMAIN WithPool(m, q, bytes).small_list[q]
         /\ WithPool(m, q, bytes).small_list[q][Len(m.small_list[q]) + 1]
              = [block |-> NewBlock(m), bytes_used |-> 0, bytes_left |-> bytes]
  <1> DEFINE d == WithPool(m, q, bytes)
             b == NewBlock(m)
             hdr == [block |-> b, bytes_used |-> 0, bytes_left |-> bytes]
             n == Len(m.small_list[q]) + 1
  <1>1. /\ m \in Manager /\ Books(m) /\ SmallOnes(m) /\ LargeOnes(m) /\ NoneShared(m)
        /\ AllKnown(m) /\ Distinct(m.small_list) /\ Distinct(m.large_list)
        /\ PiecesOK(m) /\ PiecesApart(m)
    BY DEF Core, BlocksOK
  <1>2. /\ d \in Manager /\ Books(d) /\ GivesABlock(m, d, bytes + HeaderBytes)
        /\ d.error = m.error /\ d.large_list = m.large_list /\ d.objects = m.objects
        /\ d.arrays = m.arrays /\ d.virt_list = m.virt_list /\ d.files = m.files
        /\ \A r \in Lifetimes :
             d.small_list[r] = IF r = q THEN Append(m.small_list[q], hdr) ELSE m.small_list[r]
    BY WithPoolFields
  <1>3. b \notin DOMAIN m.heap /\ b \in Nat /\ b # 0
    BY <1>1, NewBlockIsNew DEF Manager, AllKnown
  <1> HIDE DEF d, b, hdr
  <1>4. /\ DOMAIN d.heap = DOMAIN m.heap \cup {b} /\ d.heap[b] = bytes + HeaderBytes
        /\ \A x \in DOMAIN m.heap : d.heap[x] = m.heap[x]
    BY <1>2 DEF GivesABlock, b
  <1>5. \A r \in Lifetimes :
          /\ \A s \in DOMAIN m.small_list[r] :
               s \in DOMAIN d.small_list[r] /\ d.small_list[r][s] = m.small_list[r][s]
          /\ \A s \in DOMAIN d.small_list[r] :
               s \notin DOMAIN m.small_list[r] => r = q /\ s = n /\ d.small_list[r][s] = hdr
    <2> SUFFICES ASSUME NEW r \in Lifetimes
                 PROVE  /\ \A s \in DOMAIN m.small_list[r] :
                             s \in DOMAIN d.small_list[r] /\ d.small_list[r][s] = m.small_list[r][s]
                        /\ \A s \in DOMAIN d.small_list[r] : s \notin DOMAIN m.small_list[r] =>
                             r = q /\ s = n /\ d.small_list[r][s] = hdr
      OBVIOUS
    <2>1. m.small_list[r] \in Seq(SmallHdr)
      BY <1>1 DEF Manager
    <2>2. CASE r = q
      <3>1. d.small_list[r] = Append(m.small_list[r], hdr)
        BY <1>2, <2>2
      <3> QED BY <2>1, <2>2, <3>1
    <2>3. CASE r # q
      BY <1>2, <2>3
    <2> QED BY <2>2, <2>3
  <1>6. n \in DOMAIN d.small_list[q] /\ d.small_list[q][n] = hdr
    <2>1. m.small_list[q] \in Seq(SmallHdr)
      BY <1>1 DEF Manager
    <2>2. d.small_list[q] = Append(m.small_list[q], hdr)
      BY <1>2
    <2> QED BY <2>1, <2>2
  <1>7. /\ \A r \in Lifetimes : \A s \in DOMAIN m.small_list[r] : m.small_list[r][s].block # b
        /\ \A r \in Lifetimes : \A s \in DOMAIN m.large_list[r] : m.large_list[r][s].block # b
    BY <1>1, <1>3 DEF SmallOnes, LargeOnes
  <1>8. hdr.block = b /\ hdr.bytes_used = 0 /\ hdr.bytes_left = bytes
    BY DEF hdr
  <1>9. SmallOnes(d)
    <2> SUFFICES ASSUME NEW r \in Lifetimes, NEW s \in DOMAIN d.small_list[r]
                 PROVE  LET h == d.small_list[r][s]
                        IN  /\ h.block \in DOMAIN d.heap /\ h.block # 0
                            /\ d.heap[h.block] = h.bytes_used + h.bytes_left + HeaderBytes
                            /\ h.bytes_used % AlignBytes = 0
      BY DEF SmallOnes
    <2>1. CASE s \in DOMAIN m.small_list[r]
      BY <1>1, <1>4, <1>5, <2>1 DEF SmallOnes
    <2>2. CASE s \notin DOMAIN m.small_list[r]
      <3>1. d.small_list[r][s] = hdr
        BY <1>5, <2>2
      <3>2. 0 % AlignBytes = 0
        BY ConstantsAreSizes
      <3> QED BY <1>3, <1>4, <1>8, <3>1, <3>2, ConstantsAreSizes
    <2> QED BY <2>1, <2>2
  <1>10. LargeOnes(d) /\ Distinct(d.large_list)
    BY <1>1, <1>2, <1>4 DEF LargeOnes
  <1>11. NoneShared(d)
    BY <1>1, <1>2, <1>5, <1>7, <1>8 DEF NoneShared
  <1>12. Distinct(d.small_list)
    <2> SUFFICES ASSUME NEW r \in Lifetimes, NEW t \in Lifetimes,
                        NEW s \in DOMAIN d.small_list[r], NEW u \in DOMAIN d.small_list[t],
                        d.small_list[r][s].block = d.small_list[t][u].block
                 PROVE  r = t /\ s = u
      BY DEF Distinct
    <2>1. CASE s \in DOMAIN m.small_list[r] /\ u \in DOMAIN m.small_list[t]
      BY <1>1, <1>5, <2>1 DEF Distinct
    <2>2. CASE s \in DOMAIN m.small_list[r] /\ u \notin DOMAIN m.small_list[t]
      BY <1>5, <1>7, <1>8, <2>2
    <2>3. CASE s \notin DOMAIN m.small_list[r] /\ u \in DOMAIN m.small_list[t]
      BY <1>5, <1>7, <1>8, <2>3
    <2>4. CASE s \notin DOMAIN m.small_list[r] /\ u \notin DOMAIN m.small_list[t]
      BY <1>5, <2>4
    <2> QED BY <2>1, <2>2, <2>3, <2>4
  <1>13. AllKnown(d)
    <2>1. \A r \in Lifetimes :
            BlocksOfPool(d, r) = BlocksOfPool(m, r) \cup (IF r = q THEN {b} ELSE {})
      <3> SUFFICES ASSUME NEW r \in Lifetimes
                   PROVE  BlocksOfPool(d, r) = BlocksOfPool(m, r) \cup (IF r = q THEN {b} ELSE {})
        OBVIOUS
      <3>1. CASE r = q
        BY <1>2, <1>5, <1>6, <1>8, <3>1 DEF BlocksOfPool
      <3>2. CASE r # q
        BY <1>2, <3>2 DEF BlocksOfPool
      <3> QED BY <3>1, <3>2
    <2>2. q = PERMANENT \/ q = IMAGE
      BY DEF Lifetimes
    <2> QED BY <1>1, <1>4, <2>1, <2>2 DEF AllKnown, Lifetimes
  <1>14. PiecesOK(d)
    <2> SUFFICES ASSUME NEW r \in Lifetimes, NEW i \in DOMAIN m.objects[r]
                 PROVE  PieceOK(d, r, m.objects[r][i])
      BY <1>2 DEF PiecesOK
    <2>1. PieceOK(m, r, m.objects[r][i])
      BY <1>1 DEF PiecesOK
    <2> QED BY <1>2, <1>5, <2>1 DEF PieceOK
  <1>15. PiecesApart(d)
    BY <1>1, <1>2 DEF PiecesApart
  <1>16. Grows(m, d)
    BY <1>2 DEF Grows
  <1> QED BY <1>2, <1>6, <1>9, <1>10, <1>11, <1>12, <1>13, <1>14, <1>15, <1>16
          DEF Core, BlocksOK, d, hdr, b

\* The slop is halved until there is memory for it, or not enough of it is left.
Halves(m, request, slop, given) ==
  given = [s \in 0 .. slop |->
             IF HeapFits(m, request + s) THEN s
             ELSE IF s \div 2 < MinSlop THEN -1 ELSE given[s \div 2]]
LEMMA HalvesExist ==
  ASSUME NEW m, NEW request, NEW slop \in Nat
  PROVE  \E given : Halves(m, request, slop, given)
  <1> DEFINE Bad == {n \in Nat : ~ \E given : Halves(m, request, n, given)}
  <1>1. ASSUME Bad # {} PROVE FALSE
    <2>1. PICK n \in Bad : \A k \in Bad : n <= k
      BY <1>1, LeastNumber
    <2>2. \A k \in 0 .. n - 1 : \E given : Halves(m, request, k, given)
      BY <2>1
    <2> DEFINE Below(k) == CHOOSE given : Halves(m, request, k, given)
               Value(s, under) == IF HeapFits(m, request + s) THEN s
                                  ELSE IF s \div 2 < MinSlop THEN -1 ELSE under
               g == [s \in 0 .. n |-> Value(s, Below(n - 1)[s \div 2])]
    <2>3. n \in Nat
      BY <2>1
    <2>4. \A s \in 0 .. n : s \div 2 \in Nat /\ (s \div 2 < MinSlop \/ s \div 2 \in 0 .. n - 1)
      BY <2>3, ConstantsAreSizes
    <2>5. ASSUME NEW s \in 0 .. n PROVE g[s] = Value(s, g[s \div 2])
      <3>1. CASE s \div 2 < MinSlop
        <4>1. \A u, v : Value(s, u) = Value(s, v)
          BY <3>1
        <4> HIDE DEF Value, Below
        <4> QED BY <4>1
      <3>2. CASE ~(s \div 2 < MinSlop)
        <4>1. s \div 2 \in 0 .. n - 1 /\ n - 1 \in 0 .. n - 1
          BY <2>3, <2>4, <3>2
        <4>2. Halves(m, request, n - 1, Below(n - 1))
          BY <2>2, <4>1
        <4> HIDE DEF Below
        <4>3. Below(n - 1) = [t \in 0 .. n - 1 |-> Value(t, Below(n - 1)[t \div 2])]
          BY <4>2 DEF Halves
        <4> HIDE DEF Value
        <4>4. Below(n - 1)[s \div 2] = Value(s \div 2, Below(n - 1)[(s \div 2) \div 2])
          BY <4>1, <4>3
        <4>5. s \div 2 \in 0 .. n
          BY <2>3, <4>1
        <4>6. g[s \div 2] = Value(s \div 2, Below(n - 1)[(s \div 2) \div 2])
          BY <4>5
        <4> QED BY <4>4, <4>6
      <3> QED BY <3>1, <3>2
    <2>6. Halves(m, request, n, g)
      <3> DEFINE h == g
      <3>1. h = [s \in 0 .. n |-> h[s]]
        OBVIOUS
      <3> HIDE DEF h
      <3>2. \A s \in 0 .. n : h[s] = Value(s, h[s \div 2])
        BY <2>5 DEF h
      <3>3. h = [s \in 0 .. n |-> Value(s, h[s \div 2])]
        <4> HIDE DEF Value
        <4> QED BY <3>1, <3>2
      <3> QED BY <3>3 DEF Halves, h
    <2> QED BY <2>1, <2>6
  <1> QED BY <1>1

LEMMA SlopIsGiven ==
  ASSUME NEW m, NEW request, NEW slop \in Nat
  PROVE  SlopGiven(m, request, slop) = -1 \/ SlopGiven(m, request, slop) \in Nat
  <1> DEFINE g == CHOOSE given : Halves(m, request, slop, given)
             Bad == {n \in 0 .. slop : ~(g[n] = -1 \/ g[n] \in Nat)}
  <1>1. SlopGiven(m, request, slop) = g[slop]
    BY Zenon DEF SlopGiven, Halves
  <1>2. Halves(m, request, slop, g)
    BY HalvesExist
  <1> HIDE DEF g
  <1>3. ASSUME Bad # {} PROVE FALSE
    <2>0. Bad \in SUBSET Nat
      OBVIOUS
    <2>1. PICK n \in Bad : \A k \in Bad : n <= k
      <3> HIDE DEF Bad
      <3> QED BY <1>3, <2>0, LeastNumber
    <2>2. g[n] = IF HeapFits(m, request + n) THEN n
                 ELSE IF n \div 2 < MinSlop THEN -1 ELSE g[n \div 2]
      BY <1>2, <2>1 DEF Halves
    <2>3. n \div 2 < MinSlop \/ (n \div 2 \in 0 .. slop /\ ~(n <= n \div 2))
      BY <2>1, ConstantsAreSizes
    <2> QED BY <2>1, <2>2, <2>3
  <1>4. slop \in 0 .. slop
    OBVIOUS
  <1> QED BY <1>1, <1>3, <1>4

\* An error changes nothing else.
Fails(m, d) == d.error = "JERR_OUT_OF_MEMORY"
LEMMA FailedOK ==
  ASSUME NEW m, Core(m), NEW error \in Errors
  PROVE  /\ Core(Failed(m, error)) /\ Failed(m, error).error = error
         /\ Grows(m, Failed(m, error))
  <1> DEFINE d == Failed(m, error)
  <1>1. m \in Manager
    BY DEF Core
  <1>2. /\ d \in Manager /\ d.error = error /\ d.heap = m.heap /\ d.small_list = m.small_list
        /\ d.large_list = m.large_list /\ d.total_space_allocated = m.total_space_allocated
        /\ d.objects = m.objects /\ d.arrays = m.arrays /\ d.virt_list = m.virt_list
        /\ d.files = m.files
    BY <1>1 DEF Failed, Manager
  <1> HIDE DEF d
  <1>3. BlocksOK(d)
    <2>1. \A r \in Lifetimes : BlocksOfPool(d, r) = BlocksOfPool(m, r)
      BY <1>2 DEF BlocksOfPool
    <2>2. AllKnown(d)
      BY <1>2, <2>1 DEF AllKnown, Core, BlocksOK, Lifetimes
    <2>3. SmallOnes(d) /\ LargeOnes(d) /\ NoneShared(d)
      BY <1>2 DEF SmallOnes, LargeOnes, NoneShared, Core, BlocksOK
    <2> QED BY <1>2, <2>2, <2>3 DEF Core, BlocksOK
  <1>4. Books(d) /\ PiecesApart(d) /\ Grows(m, d)
    BY <1>2 DEF Books, PiecesApart, Grows, Core
  <1>5. PiecesOK(d)
    BY <1>2 DEF PiecesOK, PieceOK, Core
  <1> QED BY <1>2, <1>3, <1>4, <1>5 DEF Core, d

\* Growing twice is growing.
LEMMA GrowsTwice ==
  ASSUME NEW m, NEW g, NEW d, Grows(m, g), Grows(g, d)
  PROVE  Grows(m, d)
  BY DEF Grows

LEMMA RoundedOK ==
  ASSUME NEW size \in Nat
  PROVE  /\ Rounded(size) \in Nat /\ Rounded(size) >= size /\ Rounded(size) % AlignBytes = 0
         /\ size <= MaxChunk - HeaderBytes => Rounded(size) <= MaxChunk - HeaderBytes
  <1>1. /\ Rounded(size) \in Nat /\ Rounded(size) >= size /\ Rounded(size) % AlignBytes = 0
        /\ Rounded(size) < size + AlignBytes
    BY LGMIsLeastMultiple, ConstantsAreSizes DEF Rounded
  <1>2. ASSUME size <= MaxChunk - HeaderBytes PROVE Rounded(size) <= MaxChunk - HeaderBytes
    <2> DEFINE a == Rounded(size) \div AlignBytes
               b == MaxChunk \div AlignBytes
               c == HeaderBytes \div AlignBytes
    <2>1. /\ Rounded(size) = AlignBytes * a /\ MaxChunk = AlignBytes * b
          /\ HeaderBytes = AlignBytes * c /\ a \in Nat /\ b \in Nat /\ c \in Nat
      BY <1>1, WholeMultiple, ConstantsAreSizes
    <2>2. AlignBytes * a < AlignBytes * b - AlignBytes * c + AlignBytes
      BY <1>1, <1>2, <2>1, ConstantsAreSizes
    <2> HIDE DEF a, b, c
    <2>3. a <= b - c
      <3>1. ASSUME a >= b - c + 1 PROVE FALSE
        <4>1. PICK e \in Nat : a = b - c + 1 + e
          <5>1. a - (b - c + 1) \in Nat
            BY <2>1, <3>1
          <5> QED BY <2>1, <5>1
        <4>2. AlignBytes * a = AlignBytes * b - AlignBytes * c + AlignBytes + AlignBytes * e
          BY <2>1, <4>1, ConstantsAreSizes
        <4>3. AlignBytes * e \in Nat /\ AlignBytes * b \in Nat /\ AlignBytes * c \in Nat
          BY <2>1, <4>1, Products, ConstantsAreSizes
        <4> QED BY <2>2, <4>2, <4>3, ConstantsAreSizes
      <3> QED BY <2>1, <3>1
    <2>4. AlignBytes * a <= AlignBytes * (b - c)
      BY <2>1, <2>3, ConstantsAreSizes
    <2>5. AlignBytes * (b - c) = AlignBytes * b - AlignBytes * c
      BY <2>1, ConstantsAreSizes
    <2> QED BY <2>1, <2>4, <2>5
  <1> QED BY <1>1, <1>2

LEMMA NewPoolOK ==
  ASSUME NEW m, Core(m), NEW q \in Lifetimes, NEW size \in Nat, size % AlignBytes = 0,
         NEW slop, slop = -1 \/ slop \in Nat
  PROVE  LET d == NewPool(m, q, size, slop)
         IN  Core(d) /\ Grows(m, d) /\ (d.error = m.error \/ Fails(m, d))
  <1>1. CASE slop = -1
    <2>1. NewPool(m, q, size, slop) = Failed(m, "JERR_OUT_OF_MEMORY")
      BY <1>1 DEF NewPool
    <2>2. Core(NewPool(m, q, size, slop)) /\ Grows(m, NewPool(m, q, size, slop))
          /\ NewPool(m, q, size, slop).error = "JERR_OUT_OF_MEMORY"
      <3>1. "JERR_OUT_OF_MEMORY" \in Errors
        BY DEF Errors
      <3> QED BY <2>1, <3>1, FailedOK
    <2> QED BY <2>2 DEF Fails
  <1>2. CASE slop \in Nat
    <2> DEFINE g == WithPool(m, q, size + slop)
               n == Len(m.small_list[q]) + 1
    <2>1. /\ size + slop \in Nat /\ size <= size + slop
          /\ size + HeaderBytes + slop = (size + slop) + HeaderBytes /\ slop # -1
      BY <1>2, ConstantsAreSizes
    <2>2. NewPool(m, q, size, slop) = PlacedIn(g, q, n, size)
      BY <2>1, Zenon DEF NewPool, WithPool
    <2>3. /\ Core(g) /\ g.error = m.error /\ Grows(m, g) /\ n \in DOMAIN g.small_list[q]
          /\ g.small_list[q][n] = [block |-> NewBlock(m), bytes_used |-> 0, bytes_left |-> size + slop]
      BY <2>1, WithPoolOK
    <2> HIDE DEF g, n
    <2>4. size <= g.small_list[q][n].bytes_left
      BY <2>1, <2>3
    <2>5. /\ Core(PlacedIn(g, q, n, size)) /\ PlacedIn(g, q, n, size).error = g.error
          /\ Grows(g, PlacedIn(g, q, n, size))
      BY <2>3, <2>4, PlacedInOK
    <2> QED BY <2>2, <2>3, <2>5, GrowsTwice
  <1> QED BY <1>1, <1>2

\* alloc_small: whatever is asked for, what was there stays where it is.
Allocates(m, d) == Core(d) /\ Grows(m, d) /\ (d.error = m.error \/ Fails(m, d))
LEMMA AllocSmallOK ==
  ASSUME NEW m, Core(m), NEW q \in Lifetimes, NEW size \in Nat
  PROVE  Allocates(m, AllocSmall(m, q, size))
  <1>0. m \in Manager
    BY DEF Core
  <1>1. CASE m.error # "none"
    <2>1. AllocSmall(m, q, size) = m
      BY <1>1 DEF AllocSmall
    <2> QED BY <2>1 DEF Allocates, Grows
  <1>2. CASE m.error = "none" /\ size > MaxChunk - HeaderBytes
    <2>1. AllocSmall(m, q, size) = Failed(m, "JERR_OUT_OF_MEMORY")
      BY <1>2 DEF AllocSmall
    <2>2. "JERR_OUT_OF_MEMORY" \in Errors
      BY DEF Errors
    <2>3. /\ Core(Failed(m, "JERR_OUT_OF_MEMORY")) /\ Grows(m, Failed(m, "JERR_OUT_OF_MEMORY"))
          /\ Failed(m, "JERR_OUT_OF_MEMORY").error = "JERR_OUT_OF_MEMORY"
      BY <2>2, FailedOK
    <2> QED BY <2>1, <2>3 DEF Allocates, Fails
  <1>3. CASE m.error = "none" /\ ~(size > MaxChunk - HeaderBytes)
    <2> DEFINE bytes == Rounded(size)
               fits == {i \in 1 .. Len(m.small_list[q]) : m.small_list[q][i].bytes_left >= bytes}
               p == SelectInSeq(m.small_list[q], LAMBDA hdr : hdr.bytes_left >= bytes)
    <2>1. AllocSmall(m, q, size) = PlacedSmall(m, q, bytes)
      BY <1>3 DEF AllocSmall
    <2>2. /\ bytes \in Nat /\ bytes % AlignBytes = 0 /\ bytes <= MaxChunk - HeaderBytes
      BY <1>3, RoundedOK, ConstantsAreSizes
    <2>3. m.small_list[q] \in Seq(SmallHdr)
      BY <1>0 DEF Manager
    <2>4. p = IF fits # {} THEN Min(fits) ELSE 0
      BY Zenon DEF SelectInSeq
    <2> HIDE DEF p, bytes
    <2>5. CASE fits # {}
      <3>1. fits \in SUBSET Nat
        OBVIOUS
      <3>2. \E i \in fits : \A j \in fits : i <= j
        <4> HIDE DEF fits
        <4> QED BY <2>5, <3>1, LeastNumber
      <3>3. Min(fits) \in fits
        <4> HIDE DEF fits
        <4> QED BY <3>2 DEF Min
      <3>4. p \in DOMAIN m.small_list[q] /\ bytes <= m.small_list[q][p].bytes_left /\ p # 0
        <4>1. p \in fits
          BY <2>4, <2>5, <3>3
        <4>2. m.small_list[q][p] \in SmallHdr /\ p \in DOMAIN m.small_list[q]
          BY <2>3, <4>1
        <4> QED BY <2>2, <2>3, <4>1, <4>2 DEF SmallHdr
      <3>5. PlacedSmall(m, q, bytes) = PlacedIn(m, q, p, bytes)
        BY <3>4, Zenon DEF PlacedSmall, p
      <3> HIDE DEF fits
      <3> QED BY <2>1, <2>2, <3>4, <3>5, PlacedInOK DEF Allocates
    <2>6. CASE fits = {}
      <3>1. p = 0
        BY <2>4, <2>6
      <3> DEFINE slop == Slop(m, q, bytes)
      <3>2. PlacedSmall(m, q, bytes)
              = NewPool(m, q, bytes, SlopGiven(m, bytes + HeaderBytes, slop))
        BY <3>1, Zenon DEF PlacedSmall, p
      <3>3. slop \in Nat
        <4> DEFINE wanted == IF m.small_list[q] = << >> THEN FirstSlop[q] ELSE ExtraSlop[q]
        <4>1. wanted \in Nat /\ MaxChunk - (bytes + HeaderBytes) \in Nat
          BY <2>2, PoolsAssumption, ConstantsAreSizes
        <4>2. slop = Min({wanted, MaxChunk - (bytes + HeaderBytes)})
          BY Zenon DEF Slop
        <4> HIDE DEF wanted, slop
        <4> QED BY <4>1, <4>2, MinOfTwo
      <3> HIDE DEF slop
      <3> QED BY <2>1, <2>2, <3>2, <3>3, SlopIsGiven, NewPoolOK DEF Allocates
    <2> QED BY <2>5, <2>6
  <1> QED BY <1>1, <1>2, <1>3

\* An element in front of the others.
InFront(s, e, t) ==
  /\ DOMAIN t = 1 .. Len(s) + 1 /\ t[1] = e
  /\ \A i \in DOMAIN s : i + 1 \in DOMAIN t /\ t[i + 1] = s[i]
  /\ \A i \in DOMAIN t : i # 1 => i - 1 \in DOMAIN s /\ t[i] = s[i - 1]
LEMMA PutInFront ==
  ASSUME NEW S, NEW s \in Seq(S), NEW e \in S
  PROVE  <<e>> \o s \in Seq(S) /\ InFront(s, e, <<e>> \o s)
  <1>1. <<e>> \in Seq(S) /\ Len(<<e>>) = 1 /\ <<e>>[1] = e
    OBVIOUS
  <1>2. /\ <<e>> \o s \in Seq(S) /\ Len(<<e>> \o s) = 1 + Len(s)
        /\ \A i \in 1 .. 1 + Len(s) :
             (<<e>> \o s)[i] = IF i <= 1 THEN <<e>>[i] ELSE s[i - 1]
    BY <1>1, ConcatProperties
  <1>3. Len(s) \in Nat /\ DOMAIN s = 1 .. Len(s) /\ DOMAIN (<<e>> \o s) = 1 .. Len(s) + 1
    BY <1>2
  <1> DEFINE t == <<e>> \o s
  <1> HIDE DEF t
  <1>4. t[1] = e
    BY <1>1, <1>2, <1>3 DEF t
  <1>5. \A i \in 1 .. Len(s) : t[i + 1] = s[i]
    BY <1>2, <1>3 DEF t
  <1> QED BY <1>2, <1>3, <1>4, <1>5 DEF InFront, t

\* A large object has a block of its own.
GivesLarge(m, d, q, size) ==
  /\ d \in Manager /\ Books(d) /\ GivesABlock(m, d, size + HeaderBytes)
  /\ d.error = m.error /\ d.small_list = m.small_list
  /\ d.arrays = m.arrays /\ d.virt_list = m.virt_list /\ d.files = m.files
  /\ \A r \in Lifetimes : r # q => d.large_list[r] = m.large_list[r]
  /\ InFront(m.large_list[q], [block |-> NewBlock(m), bytes_used |-> size], d.large_list[q])
  /\ PieceAdded(m, d, q, [block |-> NewBlock(m), size |-> size, from |-> HeaderBytes])
LEMMA PlacedLargeFields ==
  ASSUME NEW m, Core(m), NEW q \in Lifetimes, NEW size \in Nat,
         HeapFits(m, size + HeaderBytes)
  PROVE  GivesLarge(m, PlacedLarge(m, q, size), q, size)
  <1> DEFINE g == Given(m, size + HeaderBytes)
             d == PlacedLarge(m, q, size)
             hdr == [block |-> NewBlock(m), bytes_used |-> size]
             piece == [block |-> NewBlock(m), size |-> size, from |-> HeaderBytes]
             large == [m.large_list EXCEPT ![q] = <<hdr>> \o m.large_list[q]]
             objects == [m.objects EXCEPT ![q] = Append(m.objects[q], piece)]
  <1>1. m \in Manager /\ Books(m)
    BY DEF Core
  <1>2. size + HeaderBytes \in Nat
    BY ConstantsAreSizes
  <1>3. g \in Manager /\ Books(g) /\ GivesABlock(m, g, size + HeaderBytes)
    BY <1>1, <1>2, GivenOK
  <1>4. /\ g.error = m.error /\ g.large_list = m.large_list /\ g.objects = m.objects
        /\ g.arrays = m.arrays /\ g.virt_list = m.virt_list /\ g.files = m.files
        /\ g.small_list = m.small_list
    BY <1>1 DEF Given, Manager
  <1>5. /\ m.large_list \in [Lifetimes -> Seq(LargeHdr)] /\ m.large_list[q] \in Seq(LargeHdr)
        /\ m.objects \in [Lifetimes -> Seq(Piece)] /\ m.objects[q] \in Seq(Piece)
        /\ m.heap \in Heaps
    BY <1>1 DEF Manager
  <1>6. hdr \in LargeHdr /\ piece \in Piece
    BY <1>5, NewBlockIsNew, ConstantsAreSizes DEF LargeHdr, Piece
  <1>7. d = [g EXCEPT !.large_list[q] = <<hdr>> \o @, !.objects[q] = Append(@, piece)]
    BY Zenon DEF PlacedLarge
  <1> HIDE DEF g, d, hdr, piece
  <1>8. <<hdr>> \o m.large_list[q] \in Seq(LargeHdr)
        /\ InFront(m.large_list[q], hdr, <<hdr>> \o m.large_list[q])
    BY <1>5, <1>6, PutInFront
  <1>9. large \in [Lifetimes -> Seq(LargeHdr)] /\ objects \in [Lifetimes -> Seq(Piece)]
    BY <1>5, <1>6, <1>8
  <1>10. /\ \A r \in Lifetimes : r # q => large[r] = m.large_list[r]
         /\ large[q] = <<hdr>> \o m.large_list[q]
         /\ \A r \in Lifetimes :
              objects[r] = IF r = q THEN Append(m.objects[q], piece) ELSE m.objects[r]
    BY <1>5
  <1>11. d = [g EXCEPT !.large_list = large, !.objects = objects]
    BY <1>3, <1>4, <1>7 DEF Manager
  <1> HIDE DEF large, objects
  <1>12. /\ d.error = g.error /\ d.small_list = g.small_list /\ d.objects = objects
         /\ d.arrays = g.arrays /\ d.virt_list = g.virt_list /\ d.files = g.files
         /\ d.heap = g.heap /\ d.total_space_allocated = g.total_space_allocated
         /\ d.large_list = large
    BY <1>3, <1>11 DEF Manager
  <1>13. d \in Manager
    BY <1>3, <1>9, <1>11 DEF Manager
  <1>14. Books(d) /\ GivesABlock(m, d, size + HeaderBytes)
    BY <1>3, <1>12 DEF Books, GivesABlock
  <1>15. PieceAdded(m, d, q, piece)
    BY <1>10, <1>12 DEF PieceAdded
  <1> QED BY <1>4, <1>8, <1>10, <1>12, <1>13, <1>14, <1>15 DEF GivesLarge, d, hdr, piece

\* Where the object is: alone in a block that was not there before.
LiesAlone(m, d, q, size) ==
  LET b == d.large_list[q][1].block
  IN  /\ b \in Nat /\ b \notin DOMAIN m.heap
      /\ \E i \in DOMAIN d.objects[q] :
           d.objects[q][i].block = b /\ d.objects[q][i].from = HeaderBytes
             /\ d.objects[q][i].size = size
LEMMA PlacedLargeOK ==
  ASSUME NEW m, Core(m), NEW q \in Lifetimes, NEW size \in Nat,
         NEW d, GivesLarge(m, d, q, size)
  PROVE  Core(d) /\ Grows(m, d) /\ d.error = m.error /\ LiesAlone(m, d, q, size)
  <1> DEFINE b == NewBlock(m)
             hdr == [block |-> b, bytes_used |-> size]
             piece == [block |-> b, size |-> size, from |-> HeaderBytes]
  <1>1. /\ m \in Manager /\ Books(m) /\ SmallOnes(m) /\ LargeOnes(m) /\ NoneShared(m)
        /\ AllKnown(m) /\ Distinct(m.small_list) /\ Distinct(m.large_list)
        /\ PiecesOK(m) /\ PiecesApart(m)
    BY DEF Core, BlocksOK
  <1>2. /\ d \in Manager /\ Books(d) /\ GivesABlock(m, d, size + HeaderBytes)
        /\ d.error = m.error /\ d.small_list = m.small_list
        /\ d.arrays = m.arrays /\ d.virt_list = m.virt_list /\ d.files = m.files
        /\ \A r \in Lifetimes : r # q => d.large_list[r] = m.large_list[r]
        /\ InFront(m.large_list[q], hdr, d.large_list[q])
        /\ PieceAdded(m, d, q, piece)
    BY DEF GivesLarge
  <1>3. b \notin DOMAIN m.heap /\ b \in Nat /\ b # 0
    BY <1>1, NewBlockIsNew DEF Manager, AllKnown
  <1>4. piece \in Piece /\ piece.block = b /\ piece.from = HeaderBytes /\ piece.size = size
        /\ hdr.block = b /\ hdr.bytes_used = size
    BY <1>3, ConstantsAreSizes DEF Piece
  <1> HIDE DEF b, hdr, piece
  <1>5. /\ DOMAIN d.heap = DOMAIN m.heap \cup {b} /\ d.heap[b] = size + HeaderBytes
        /\ \A x \in DOMAIN m.heap : d.heap[x] = m.heap[x]
    BY <1>2 DEF GivesABlock, b
  \* Where the headers of before are, and which one is new.
  <1>6. /\ 1 \in DOMAIN d.large_list[q] /\ d.large_list[q][1] = hdr
        /\ \A s \in DOMAIN m.large_list[q] :
             s + 1 \in DOMAIN d.large_list[q] /\ d.large_list[q][s + 1] = m.large_list[q][s]
        /\ \A s \in DOMAIN d.large_list[q] : s # 1 =>
             /\ s \in Nat /\ s - 1 \in DOMAIN m.large_list[q]
             /\ d.large_list[q][s] = m.large_list[q][s - 1]
    <2>1. m.large_list[q] \in Seq(LargeHdr)
      BY <1>1 DEF Manager
    <2>2. Len(m.large_list[q]) \in Nat
      BY <2>1
    <2> QED BY <1>2, <2>2 DEF InFront
  <1>7. /\ \A r \in Lifetimes : \A s \in DOMAIN m.small_list[r] : m.small_list[r][s].block # b
        /\ \A r \in Lifetimes : \A s \in DOMAIN m.large_list[r] : m.large_list[r][s].block # b
    BY <1>1, <1>3 DEF SmallOnes, LargeOnes
  <1>8. \A r \in Lifetimes : \A s \in DOMAIN d.large_list[r] :
          \/ r = q /\ s = 1 /\ d.large_list[r][s] = hdr
          \/ \E t \in DOMAIN m.large_list[r] :
               d.large_list[r][s] = m.large_list[r][t] /\ s = IF r = q THEN t + 1 ELSE t
    <2> SUFFICES ASSUME NEW r \in Lifetimes, NEW s \in DOMAIN d.large_list[r]
                 PROVE  \/ r = q /\ s = 1 /\ d.large_list[r][s] = hdr
                        \/ \E t \in DOMAIN m.large_list[r] :
                             /\ d.large_list[r][s] = m.large_list[r][t]
                             /\ s = IF r = q THEN t + 1 ELSE t
      OBVIOUS
    <2>1. CASE r # q
      BY <1>2, <2>1
    <2>2. CASE r = q /\ s = 1
      BY <1>6, <2>2
    <2>3. CASE r = q /\ s # 1
      <3>1. s \in Nat /\ s - 1 \in DOMAIN m.large_list[r]
            /\ d.large_list[r][s] = m.large_list[r][s - 1] /\ s = (s - 1) + 1
        BY <1>6, <2>3
      <3> QED BY <2>3, <3>1
    <2> QED BY <2>1, <2>2, <2>3
  <1>9. SmallOnes(d) /\ Distinct(d.small_list)
    BY <1>1, <1>2, <1>5 DEF SmallOnes
  <1>10. LargeOnes(d)
    <2> SUFFICES ASSUME NEW r \in Lifetimes, NEW s \in DOMAIN d.large_list[r]
                 PROVE  LET h == d.large_list[r][s]
                        IN  /\ h.block \in DOMAIN d.heap /\ h.block # 0
                            /\ d.heap[h.block] = h.bytes_used + HeaderBytes
      BY DEF LargeOnes
    <2>1. CASE d.large_list[r][s] = hdr
      BY <1>3, <1>4, <1>5, <2>1
    <2>2. CASE \E t \in DOMAIN m.large_list[r] : d.large_list[r][s] = m.large_list[r][t]
      BY <1>1, <1>5, <2>2 DEF LargeOnes
    <2> QED BY <1>8, <2>1, <2>2
  <1>11. NoneShared(d)
    <2> SUFFICES ASSUME NEW r \in Lifetimes, NEW s \in Lifetimes,
                        NEW u \in DOMAIN m.small_list[r], NEW v \in DOMAIN d.large_list[s]
                 PROVE  m.small_list[r][u].block # d.large_list[s][v].block
      BY <1>2 DEF NoneShared
    <2>1. CASE d.large_list[s][v] = hdr
      BY <1>4, <1>7, <2>1
    <2>2. CASE \E t \in DOMAIN m.large_list[s] : d.large_list[s][v] = m.large_list[s][t]
      BY <1>1, <2>2 DEF NoneShared
    <2> QED BY <1>8, <2>1, <2>2
  <1>12. Distinct(d.large_list)
    <2> SUFFICES ASSUME NEW r \in Lifetimes, NEW s \in Lifetimes,
                        NEW u \in DOMAIN d.large_list[r], NEW v \in DOMAIN d.large_list[s],
                        d.large_list[r][u].block = d.large_list[s][v].block
                 PROVE  r = s /\ u = v
      BY DEF Distinct
    <2>1. CASE d.large_list[r][u] = hdr /\ d.large_list[s][v] = hdr
      BY <1>4, <1>7, <1>8, <2>1
    <2>2. CASE d.large_list[r][u] = hdr /\ d.large_list[s][v] # hdr
      BY <1>4, <1>7, <1>8, <2>2
    <2>3. CASE d.large_list[r][u] # hdr /\ d.large_list[s][v] = hdr
      BY <1>4, <1>7, <1>8, <2>3
    <2>4. CASE d.large_list[r][u] # hdr /\ d.large_list[s][v] # hdr
      <3>1. PICK t \in DOMAIN m.large_list[r] :
              d.large_list[r][u] = m.large_list[r][t] /\ u = IF r = q THEN t + 1 ELSE t
        BY <1>8, <2>4
      <3>2. PICK w \in DOMAIN m.large_list[s] :
              d.large_list[s][v] = m.large_list[s][w] /\ v = IF s = q THEN w + 1 ELSE w
        BY <1>8, <2>4
      <3>3. r = s /\ t = w
        BY <1>1, <3>1, <3>2 DEF Distinct
      <3> QED BY <3>1, <3>2, <3>3
    <2> QED BY <2>1, <2>2, <2>3, <2>4
  <1>13. AllKnown(d)
    <2>1. \A r \in Lifetimes :
            BlocksOfPool(d, r) = BlocksOfPool(m, r) \cup (IF r = q THEN {b} ELSE {})
      <3> SUFFICES ASSUME NEW r \in Lifetimes
                   PROVE  BlocksOfPool(d, r) = BlocksOfPool(m, r) \cup (IF r = q THEN {b} ELSE {})
        OBVIOUS
      <3>1. CASE r = q
        <4>1. {d.large_list[q][s].block : s \in DOMAIN d.large_list[q]}
                = {m.large_list[q][s].block : s \in DOMAIN m.large_list[q]} \cup {b}
          BY <1>4, <1>6
        <4> QED BY <1>2, <3>1, <4>1 DEF BlocksOfPool
      <3>2. CASE r # q
        BY <1>2, <3>2 DEF BlocksOfPool
      <3> QED BY <3>1, <3>2
    <2>2. q = PERMANENT \/ q = IMAGE
      BY DEF Lifetimes
    <2> QED BY <1>1, <1>5, <2>1, <2>2 DEF AllKnown, Lifetimes
  <1>14. OneMore(m, d, q, piece)
    BY <1>1, <1>2, <1>4, AddedPiece
  <1>15. PieceOK(d, q, piece)
    BY <1>4, <1>6, ConstantsAreSizes DEF PieceOK, InLarge
  <1>16. PiecesOK(d)
    <2> SUFFICES ASSUME NEW r \in Lifetimes, NEW i \in DOMAIN d.objects[r]
                 PROVE  PieceOK(d, r, d.objects[r][i])
      BY DEF PiecesOK
    <2>1. CASE i \notin DOMAIN m.objects[r]
      BY <1>14, <1>15, <2>1 DEF OneMore
    <2>2. CASE i \in DOMAIN m.objects[r]
      <3>1. m.objects[r][i] = d.objects[r][i] /\ PieceOK(m, r, m.objects[r][i])
        BY <1>1, <1>14, <2>2 DEF OneMore, PiecesOK
      <3>2. \A t \in DOMAIN m.large_list[r] :
              \E s \in DOMAIN d.large_list[r] : d.large_list[r][s] = m.large_list[r][t]
        BY <1>2, <1>6
      <3> QED BY <1>2, <3>1, <3>2 DEF PieceOK
    <2> QED BY <2>1, <2>2
  <1>17. ASSUME NEW r \in Lifetimes, NEW i \in DOMAIN m.objects[r]
         PROVE  Apart(m.objects[r][i], piece)
    <2>1. PieceOK(m, r, m.objects[r][i])
      BY <1>1 DEF PiecesOK
    <2>2. m.objects[r][i].block # b
      BY <1>7, <2>1 DEF PieceOK, InSmall, InLarge
    <2> QED BY <1>4, <2>2 DEF Apart
  <1>18. PiecesApart(d)
    BY <1>1, <1>2, <1>4, <1>17, StillApart
  <1>19. Grows(m, d)
    BY <1>2, <1>14 DEF Grows, OneMore
  <1>20. LiesAlone(m, d, q, size)
    <2>1. \E i \in DOMAIN d.objects[q] : d.objects[q][i] = piece
      <3>1. d.objects[q] = Append(m.objects[q], piece) /\ m.objects[q] \in Seq(Piece)
        BY <1>1, <1>2 DEF PieceAdded, Manager
      <3> QED BY <3>1, <1>4
    <2>2. d.large_list[q][1].block = b
      BY <1>4, <1>6
    <2> HIDE DEF hdr, piece
    <2> QED BY <1>3, <1>4, <2>1, <2>2 DEF LiesAlone
  <1>21. Core(d)
    BY <1>2, <1>9, <1>10, <1>11, <1>12, <1>13, <1>16, <1>18 DEF Core, BlocksOK
  <1> QED BY <1>2, <1>19, <1>20, <1>21

\* alloc_large
LEMMA AllocLargeOK ==
  ASSUME NEW m, Core(m), NEW q \in Lifetimes, NEW size \in Nat
  PROVE  LET d == AllocLarge(m, q, size)
         IN  /\ Allocates(m, d)
             /\ d.error = "none" => m.error = "none" /\ LiesAlone(m, d, q, Rounded(size))
  <1>1. CASE m.error # "none"
    <2>1. AllocLarge(m, q, size) = m
      BY <1>1 DEF AllocLarge
    <2> QED BY <1>1, <2>1 DEF Allocates, Grows
  <1>2. "JERR_OUT_OF_MEMORY" \in Errors
    BY DEF Errors
  <1>3. /\ Core(Failed(m, "JERR_OUT_OF_MEMORY")) /\ Grows(m, Failed(m, "JERR_OUT_OF_MEMORY"))
        /\ Failed(m, "JERR_OUT_OF_MEMORY").error = "JERR_OUT_OF_MEMORY"
    BY <1>2, FailedOK
  <1>4. CASE m.error = "none" /\ size > MaxChunk - HeaderBytes
    <2>1. AllocLarge(m, q, size) = Failed(m, "JERR_OUT_OF_MEMORY")
      BY <1>4 DEF AllocLarge
    <2> QED BY <1>3, <2>1 DEF Allocates, Fails
  <1>5. CASE m.error = "none" /\ ~(size > MaxChunk - HeaderBytes)
    <2> DEFINE bytes == Rounded(size)
    <2>1. AllocLarge(m, q, size) = PlacedLarge(m, q, bytes)
      BY <1>5 DEF AllocLarge
    <2>2. bytes \in Nat
      BY RoundedOK
    <2> HIDE DEF bytes
    <2>3. CASE ~HeapFits(m, bytes + HeaderBytes)
      <3>1. PlacedLarge(m, q, bytes) = Failed(m, "JERR_OUT_OF_MEMORY")
        BY <2>3 DEF PlacedLarge
      <3> QED BY <1>3, <2>1, <3>1 DEF Allocates, Fails
    <2>4. CASE HeapFits(m, bytes + HeaderBytes)
      <3>1. GivesLarge(m, PlacedLarge(m, q, bytes), q, bytes)
        BY <2>2, <2>4, PlacedLargeFields
      <3> DEFINE d == PlacedLarge(m, q, bytes)
      <3> HIDE DEF d
      <3>2. Core(d) /\ Grows(m, d) /\ d.error = m.error /\ LiesAlone(m, d, q, bytes)
        BY <2>2, <3>1, PlacedLargeOK DEF d
      <3> QED BY <1>5, <2>1, <3>2 DEF Allocates, bytes, d
    <2> QED BY <2>3, <2>4
  <1> QED BY <1>1, <1>4, <1>5

-----------------------------------------------------------------------------
(* Arrays.                                                                 *)

LEMMA CoreTypes ==
  ASSUME NEW m, Core(m), NEW q \in Lifetimes
  PROVE  /\ m \in Manager /\ m.error \in Errors
         /\ m.arrays \in [Lifetimes -> Seq(RowArray)] /\ m.arrays[q] \in Seq(RowArray)
         /\ m.virt_list \in Seq(VirtArray)
         /\ m.objects[q] \in Seq(Piece)
  BY DEF Core, Manager

\* What changes arrays, virtual arrays or files only.
LEMMA CoreOfTheSame ==
  ASSUME NEW m, Core(m), NEW d \in Manager, d.heap = m.heap,
         d.total_space_allocated = m.total_space_allocated, d.small_list = m.small_list,
         d.large_list = m.large_list, d.objects = m.objects
  PROVE  Core(d)
  <1>1. BlocksOK(d)
    <2>1. \A r \in Lifetimes : BlocksOfPool(d, r) = BlocksOfPool(m, r)
      BY DEF BlocksOfPool
    <2>2. AllKnown(d)
      BY <2>1 DEF AllKnown, Core, BlocksOK, Lifetimes
    <2>3. SmallOnes(d) /\ LargeOnes(d) /\ NoneShared(d)
      BY DEF SmallOnes, LargeOnes, NoneShared, Core, BlocksOK
    <2> QED BY <2>2, <2>3 DEF Core, BlocksOK
  <1>2. Books(d) /\ PiecesApart(d)
    BY DEF Books, PiecesApart, Core
  <1>3. PiecesOK(d)
    BY DEF PiecesOK, PieceOK, Core
  <1> QED BY <1>1, <1>2, <1>3 DEF Core

\* An array at the end of the list, of which n rows are there.
ObjectsGrow(m, d) ==
  \A r \in Lifetimes :
    /\ DOMAIN m.objects[r] \subseteq DOMAIN d.objects[r]
    /\ \A i \in DOMAIN m.objects[r] : d.objects[r][i] = m.objects[r][i]
ArraysGrow(m, d, q) ==
  /\ \A r \in Lifetimes : r # q => d.arrays[r] = m.arrays[r]
  /\ Len(d.arrays[q]) = Len(m.arrays[q]) + 1
  /\ \A a \in DOMAIN m.arrays[q] : d.arrays[q][a] = m.arrays[q][a]
HasRows(objects, arr, bytes, per, n) ==
  arr.bytes = bytes /\ arr.rowsperchunk = per /\ Len(arr.rows) = n /\ ArrayOK(objects, arr)
AddsArray(m, d, q, bytes, per, n) ==
  /\ Core(d) /\ d.virt_list = m.virt_list /\ d.files = m.files
  /\ d.error = m.error \/ Fails(m, d)
  /\ ObjectsGrow(m, d) /\ ArraysGrow(m, d, q)
  /\ d.error = "none" =>
       HasRows(d.objects[q], d.arrays[q][Len(m.arrays[q]) + 1], bytes, per, n)

\* The array has no rows at first.
Begun(m, q, call, numrows, perchunk) ==
  [AllocSmall(m, q, numrows * PointerBytes) EXCEPT
     !.arrays[q] = Append(@, [bytes |-> RowBytes(call), rows |-> << >>,
                              rowsperchunk |-> perchunk])]
LEMMA BegunOK ==
  ASSUME NEW m, Core(m), NEW q \in Lifetimes, NEW call, RowBytes(call) \in Nat \ {0},
         NEW numrows \in Nat, NEW per \in Nat \ {0}
  PROVE  AddsArray(m, Begun(m, q, call, numrows, per), q, RowBytes(call), per, 0)
  <1> DEFINE g == AllocSmall(m, q, numrows * PointerBytes)
             d == Begun(m, q, call, numrows, per)
             arr == [bytes |-> RowBytes(call), rows |-> << >>, rowsperchunk |-> per]
             arrays == [g.arrays EXCEPT ![q] = Append(g.arrays[q], arr)]
  <1>1. Allocates(m, g)
    BY AllocSmallOK, Products, ConstantsAreSizes
  <1>2. d = [g EXCEPT !.arrays[q] = Append(@, arr)]
    BY Zenon DEF Begun
  <1> HIDE DEF g, d
  <1>3. Core(g) /\ g \in Manager /\ g.arrays \in [Lifetimes -> Seq(RowArray)]
        /\ g.arrays[q] \in Seq(RowArray) /\ g.arrays = m.arrays
        /\ g.virt_list = m.virt_list /\ g.files = m.files /\ ObjectsGrow(m, g)
        /\ (g.error = m.error \/ Fails(m, g))
    BY <1>1, CoreTypes DEF Allocates, Grows, ObjectsGrow
  <1>4. arr \in RowArray
    <2>1. << >> \in Seq(Pointer)
      OBVIOUS
    <2> QED BY <2>1 DEF RowArray
  <1>5. arr.rows = << >> /\ arr.bytes = RowBytes(call) /\ arr.rowsperchunk = per
    OBVIOUS
  <1> HIDE DEF arr
  <1>6. arrays \in [Lifetimes -> Seq(RowArray)]
    BY <1>3, <1>4
  <1>7. d = [g EXCEPT !.arrays = arrays]
    BY <1>2, <1>3 DEF Manager
  <1>8. /\ \A r \in Lifetimes : r # q => arrays[r] = m.arrays[r]
        /\ arrays[q] = Append(m.arrays[q], arr)
    BY <1>3
  <1> HIDE DEF arrays
  <1>9. /\ d \in Manager /\ d.arrays = arrays /\ d.heap = g.heap /\ d.error = g.error
        /\ d.total_space_allocated = g.total_space_allocated /\ d.small_list = g.small_list
        /\ d.large_list = g.large_list /\ d.objects = g.objects /\ d.virt_list = g.virt_list
        /\ d.files = g.files
    BY <1>3, <1>6, <1>7 DEF Manager
  <1>10. Core(d)
    BY <1>3, <1>9, CoreOfTheSame
  <1>11. ArraysGrow(m, d, q) /\ d.arrays[q][Len(m.arrays[q]) + 1] = arr
    <2>1. m.arrays[q] \in Seq(RowArray)
      BY <1>3
    <2>2. d.arrays[q] = Append(m.arrays[q], arr) /\ d.arrays = arrays
      BY <1>8, <1>9
    <2>3. /\ Len(d.arrays[q]) = Len(m.arrays[q]) + 1
          /\ \A a \in DOMAIN m.arrays[q] : d.arrays[q][a] = m.arrays[q][a]
          /\ d.arrays[q][Len(m.arrays[q]) + 1] = arr
      BY <1>4, <2>1, <2>2
    <2> QED BY <1>8, <2>2, <2>3 DEF ArraysGrow
  <1>12. HasRows(d.objects[q], arr, RowBytes(call), per, 0)
    <2>1. DOMAIN arr.rows = {} /\ Len(arr.rows) = 0
      BY <1>5
    <2> QED BY <1>5, <2>1 DEF HasRows, ArrayOK
  <1>13. ObjectsGrow(m, d) /\ (d.error = m.error \/ Fails(m, d))
    BY <1>3, <1>9 DEF ObjectsGrow, Fails
  <1>14. d.virt_list = m.virt_list /\ d.files = m.files
    BY <1>3, <1>9
  <1> QED BY <1>10, <1>11, <1>12, <1>13, <1>14 DEF AddsArray, d

\* Rows behind each other do not overlap.
LEMMA RowsBehind ==
  ASSUME NEW k \in Nat, NEW l \in Nat, k < l, NEW w \in Nat
  PROVE  k * w \in Nat /\ l * w \in Nat /\ k * w + w <= l * w
  <1>1. l - k - 1 \in Nat
    OBVIOUS
  <1>2. l * w = k * w + w + (l - k - 1) * w
    BY <1>1
  <1>3. k * w \in Nat /\ l * w \in Nat /\ (l - k - 1) * w \in Nat
    BY <1>1, Products
  <1> QED BY <1>2, <1>3

\* One sequence behind another.
Joins(s, t, u) ==
  /\ Len(u) = Len(s) + Len(t)
  /\ \A k \in 1 .. Len(s) + Len(t) : u[k] = IF k <= Len(s) THEN s[k] ELSE t[k - Len(s)]
LEMMA ConcatJoins ==
  ASSUME NEW S, NEW s \in Seq(S), NEW t \in Seq(S)
  PROVE  s \o t \in Seq(S) /\ Joins(s, t, s \o t)
  BY ConcatProperties DEF Joins

\* The rows of one more chunk.
ChunkPointers(b, w, rows) == [i \in 1 .. rows |-> [block |-> b, from |-> HeaderBytes + (i - 1) * w]]
PointsAt(P, b, w, rows) ==
  \A k \in 1 .. rows : /\ (k - 1) * w \in Nat /\ P[k].block = b
                        /\ P[k].from = HeaderBytes + (k - 1) * w
                        /\ P[k] = [block |-> b, from |-> HeaderBytes + (k - 1) * w]
LEMMA ChunkPointersOK ==
  ASSUME NEW b \in Nat, NEW w \in Nat, NEW rows \in Nat
  PROVE  LET P == ChunkPointers(b, w, rows)
         IN  P \in Seq(Pointer) /\ Len(P) = rows /\ PointsAt(P, b, w, rows)
  <1> DEFINE P == ChunkPointers(b, w, rows)
  <1>1. \A k \in 1 .. rows : (k - 1) * w \in Nat
    BY Products
  <1>2. \A k \in 1 .. rows : [block |-> b, from |-> HeaderBytes + (k - 1) * w] \in Pointer
    <2> SUFFICES ASSUME NEW k \in 1 .. rows
                 PROVE  [block |-> b, from |-> HeaderBytes + (k - 1) * w] \in Pointer
      OBVIOUS
    <2> DEFINE x == (k - 1) * w
    <2>1. x \in Nat
      BY <1>1
    <2> HIDE DEF x
    <2>2. HeaderBytes + x \in Nat
      BY <2>1, ConstantsAreSizes
    <2>3. [block |-> b, from |-> HeaderBytes + x] \in Pointer
      BY <2>2 DEF Pointer
    <2> QED BY <2>3 DEF x
  <1>3. P \in [1 .. rows -> Pointer] /\ rows \in Nat
    BY <1>2 DEF ChunkPointers
  <1>4. P \in Seq(Pointer) /\ Len(P) = rows
    <2> HIDE DEF P
    <2> QED BY <1>3
  <1>5. ASSUME NEW k \in 1 .. rows
        PROVE  P[k] = [block |-> b, from |-> HeaderBytes + (k - 1) * w]
    BY DEF ChunkPointers
  <1>6. ASSUME NEW k \in 1 .. rows
        PROVE  P[k].block = b /\ P[k].from = HeaderBytes + (k - 1) * w
    <2> DEFINE x == (k - 1) * w
    <2>1. P[k] = [block |-> b, from |-> HeaderBytes + x]
      BY <1>5
    <2> HIDE DEF P, x
    <2>2. P[k].block = b /\ P[k].from = HeaderBytes + x
      BY <2>1
    <2> QED BY <2>2 DEF x
  <1> HIDE DEF P
  <1> QED BY <1>1, <1>4, <1>5, <1>6 DEF P, PointsAt

\* The rows of a chunk that is not the first lie in a block of their own.
Extends(old, objects) ==
  DOMAIN old \subseteq DOMAIN objects /\ \A i \in DOMAIN old : objects[i] = old[i]
Avoids(arr, b) == \A r \in DOMAIN arr.rows : arr.rows[r].block # b
HoldsAll(object, b, bytes) ==
  object.block = b /\ object.from = HeaderBytes /\ object.size \in Nat /\ object.size >= bytes
LEMMA RowsJoined ==
  ASSUME NEW old, NEW objects, NEW arr \in RowArray, NEW new \in RowArray,
         NEW w \in Nat \ {0}, NEW per \in Nat \ {0}, NEW n \in Nat, NEW rows \in 1 .. per,
         HasRows(old, arr, w, per, n), n % per = 0,
         Extends(old, objects), NEW b \in Nat, Avoids(arr, b),
         NEW i \in DOMAIN objects, HoldsAll(objects[i], b, rows * w),
         new.bytes = w, new.rowsperchunk = per,
         new.rows = arr.rows \o ChunkPointers(b, w, rows)
  PROVE  HasRows(objects, new, w, per, n + rows)
  <1> DEFINE P == ChunkPointers(b, w, rows)
             Q == arr.rows
             R == new.rows
  <1>0. rows \in Nat /\ n \in Nat
    OBVIOUS
  <1>1. Q \in Seq(Pointer) /\ Len(Q) = n /\ ArrayOK(old, arr) /\ arr.bytes = w
        /\ arr.rowsperchunk = per
    BY DEF RowArray, HasRows
  <1>2. rows \in Nat /\ P \in Seq(Pointer) /\ Len(P) = rows
        /\ \A k \in 1 .. rows : (k - 1) * w \in Nat /\ P[k].block = b
                                  /\ P[k].from = HeaderBytes + (k - 1) * w
                                  /\ P[k] = [block |-> b, from |-> HeaderBytes + (k - 1) * w]
    <2>1. rows \in Nat
      OBVIOUS
    <2>2. P \in Seq(Pointer) /\ Len(P) = rows /\ PointsAt(P, b, w, rows)
      BY <2>1, ChunkPointersOK
    <2> QED BY <2>1, <2>2 DEF PointsAt
  <1>3. /\ Len(R) = n + rows
        /\ \A k \in 1 .. n + rows : R[k] = IF k <= n THEN Q[k] ELSE P[k - n]
    <2>1. R = Q \o P
      OBVIOUS
    <2>2. Q \in Seq(Pointer) /\ Len(Q) = n /\ P \in Seq(Pointer) /\ Len(P) = rows /\ rows \in Nat
      BY <1>1, <1>2
    <2> HIDE DEF P, Q, R
    <2>3. Joins(Q, P, Q \o P)
      BY <2>2, ConcatJoins
    <2>4. Len(R) = n + rows
      BY <2>1, <2>2, <2>3 DEF Joins
    <2>5. ASSUME NEW k \in 1 .. n + rows
          PROVE  R[k] = IF k <= n THEN Q[k] ELSE P[k - n]
      <3>1. k \in 1 .. Len(Q) + Len(P)
        BY <2>2
      <3>2. (Q \o P)[k] = IF k <= Len(Q) THEN Q[k] ELSE P[k - Len(Q)]
        BY <2>3, <3>1 DEF Joins
      <3> QED BY <2>1, <2>2, <3>2, Zenon
    <2> QED BY <2>4, <2>5
  <1>4. DOMAIN Q = 1 .. n /\ DOMAIN R = 1 .. n + rows
    <2>1. R \in Seq(Pointer)
      BY DEF RowArray
    <2> QED BY <1>1, <1>3, <2>1
  <1> HIDE DEF P, R, Q
  <1>5. \A k \in 1 .. n : k \in 1 .. n + rows /\ R[k] = Q[k] /\ R[k].block # b
    <2> SUFFICES ASSUME NEW k \in 1 .. n
                 PROVE  k \in 1 .. n + rows /\ R[k] = Q[k] /\ R[k].block # b
      OBVIOUS
    <2>1. k \in 1 .. n + rows /\ k <= n
      BY <1>0
    <2>2. R[k] = Q[k]
      BY <1>3, <2>1
    <2>3. Q[k].block # b
      BY <1>4 DEF Q, Avoids
    <2> QED BY <2>1, <2>2, <2>3
  <1>6. \A k \in n + 1 .. n + rows :
          k - n \in 1 .. rows /\ R[k].block = b /\ R[k].from = HeaderBytes + (k - n - 1) * w
            /\ R[k] = [block |-> b, from |-> HeaderBytes + (k - n - 1) * w]
    <2> SUFFICES ASSUME NEW k \in n + 1 .. n + rows
                 PROVE  /\ k - n \in 1 .. rows /\ R[k].block = b
                        /\ R[k].from = HeaderBytes + (k - n - 1) * w
                        /\ R[k] = [block |-> b, from |-> HeaderBytes + (k - n - 1) * w]
      OBVIOUS
    <2>1. k - n \in 1 .. rows /\ k \in 1 .. n + rows /\ ~(k <= n)
      BY <1>0
    <2>2. R[k] = P[k - n]
      BY <1>3, <2>1
    <2> DEFINE j == k - n
    <2>3. j \in 1 .. rows /\ R[k] = P[j]
      BY <2>1, <2>2
    <2> HIDE DEF j
    <2>4. R[k].block = b /\ R[k].from = HeaderBytes + (j - 1) * w
          /\ R[k] = [block |-> b, from |-> HeaderBytes + (j - 1) * w]
      BY <1>2, <2>3
    <2> QED BY <2>1, <2>4 DEF j
  <1>7. \A k \in DOMAIN R : RowOf(new, k) = [block |-> R[k].block, from |-> R[k].from, size |-> w]
    BY DEF RowOf, R
  <1>8. \A k \in DOMAIN Q : RowOf(arr, k) = [block |-> Q[k].block, from |-> Q[k].from, size |-> w]
    BY <1>1 DEF RowOf, Q
  <1>9. \A k \in 1 .. n : RowOf(new, k) = RowOf(arr, k)
    BY <1>4, <1>5, <1>7, <1>8
  <1>10. ASSUME NEW k \in DOMAIN R
         PROVE  \E j \in DOMAIN objects : Inside(RowOf(new, k), objects[j])
    <2>1. CASE k \in 1 .. n
      <3>1. PICK j \in DOMAIN old : Inside(RowOf(arr, k), old[j])
        BY <1>1, <1>4, <2>1 DEF ArrayOK, Q
      <3> QED BY <1>9, <2>1, <3>1 DEF Extends
    <2>2. CASE k \notin 1 .. n
      <3>1. k \in n + 1 .. n + rows /\ k - n - 1 \in Nat /\ k - n - 1 < rows
        BY <1>0, <1>4, <2>2
      <3> DEFINE at == (k - n - 1) * w
                 all == rows * w
      <3>2. at \in Nat /\ all \in Nat /\ at + w <= all
        BY <1>2, <3>1, RowsBehind
      <3>3. R[k].block = b /\ R[k].from = HeaderBytes + at /\ objects[i].size >= all
        BY <1>6, <3>1 DEF HoldsAll
      <3>4. objects[i].block = b /\ objects[i].from = HeaderBytes /\ objects[i].size \in Nat
        BY DEF HoldsAll
      <3>5. RowOf(new, k) = [block |-> R[k].block, from |-> R[k].from, size |-> w]
        BY <1>7
      <3> HIDE DEF at, all
      <3>6. RowOf(new, k) = [block |-> b, from |-> HeaderBytes + at, size |-> w]
        BY <3>3, <3>5
      <3> DEFINE size == objects[i].size
      <3>7. size \in Nat /\ size >= all /\ at \in Nat /\ all \in Nat /\ at + w <= all
            /\ w \in Nat /\ HeaderBytes \in Nat
        BY <3>2, <3>3, <3>4, ConstantsAreSizes
      <3> HIDE DEF size
      <3>8. HeaderBytes <= HeaderBytes + at /\ (HeaderBytes + at) + w <= HeaderBytes + size
        BY <3>7
      <3>9. /\ RowOf(new, k).block = b /\ RowOf(new, k).from = HeaderBytes + at
            /\ RowOf(new, k).size = w
        BY <3>6
      <3>10. Inside(RowOf(new, k), objects[i])
        BY <3>4, <3>8, <3>9, Zenon DEF Inside, size
      <3> QED BY <3>10
    <2> QED BY <2>1, <2>2
  <1>11. ASSUME NEW k \in n + 1 .. n + rows, NEW l \in n + 1 .. n + rows, k < l
         PROVE  Apart(RowOf(new, k), RowOf(new, l)) /\ Apart(RowOf(new, l), RowOf(new, k))
    <2> DEFINE x == (k - n - 1) * w
               y == (l - n - 1) * w
    <2>1. k - n - 1 \in Nat /\ l - n - 1 \in Nat /\ k - n - 1 < l - n - 1
      BY <1>11
    <2>2. x \in Nat /\ y \in Nat /\ x + w <= y
      BY <2>1, RowsBehind
    <2>3. R[k].from = HeaderBytes + x /\ R[l].from = HeaderBytes + y
      BY <1>6
    <2>4. k \in DOMAIN R /\ l \in DOMAIN R
      BY <1>4
    <2> HIDE DEF x, y
    <2>5. RowOf(new, k).from + RowOf(new, k).size <= RowOf(new, l).from
      <3>1. RowOf(new, k) = [block |-> R[k].block, from |-> HeaderBytes + x, size |-> w]
            /\ RowOf(new, l) = [block |-> R[l].block, from |-> HeaderBytes + y, size |-> w]
        BY <1>7, <2>3, <2>4
      <3> QED BY <2>2, <3>1, ConstantsAreSizes
    <2> QED BY <2>5 DEF Apart
  <1>12. ASSUME NEW k \in DOMAIN R, NEW l \in DOMAIN R, k # l
         PROVE  Apart(RowOf(new, k), RowOf(new, l))
    <2>1. CASE k \in 1 .. n /\ l \in 1 .. n
      <3>1. Apart(RowOf(arr, k), RowOf(arr, l))
        BY <1>1, <1>4, <1>12, <2>1 DEF ArrayOK, Q
      <3> QED BY <1>9, <2>1, <3>1
    <2>2. CASE k \in 1 .. n /\ l \notin 1 .. n
      <3>1. l \in n + 1 .. n + rows
        BY <1>0, <1>4, <2>2
      <3>2. R[k].block # b /\ R[l].block = b
        BY <1>5, <1>6, <2>2, <3>1
      <3> QED BY <1>7, <3>2 DEF Apart
    <2>3. CASE k \notin 1 .. n /\ l \in 1 .. n
      <3>1. k \in n + 1 .. n + rows
        BY <1>0, <1>4, <2>3
      <3>2. R[l].block # b /\ R[k].block = b
        BY <1>5, <1>6, <2>3, <3>1
      <3> QED BY <1>7, <3>2 DEF Apart
    <2>4. CASE k \notin 1 .. n /\ l \notin 1 .. n
      <3>1. k \in n + 1 .. n + rows /\ l \in n + 1 .. n + rows /\ (k < l \/ l < k)
        BY <1>0, <1>4, <1>12, <2>4
      <3> QED BY <1>11, <3>1
    <2> QED BY <2>1, <2>2, <2>3, <2>4
  <1>13. ASSUME NEW k \in DOMAIN R \ {1}, (k - 1) % per # 0
         PROVE  R[k] = [R[k - 1] EXCEPT !.from = @ + w]
    <2>1. CASE k \in 1 .. n
      <3>1. k - 1 \in 1 .. n /\ k \in DOMAIN Q \ {1}
        BY <1>4, <1>13, <2>1
      <3>2. Q[k] = [Q[k - 1] EXCEPT !.from = @ + w]
        BY <1>1, <1>13, <3>1 DEF ArrayOK, Q
      <3>3. R[k] = Q[k]
        BY <1>5, <2>1
      <3>4. R[k - 1] = Q[k - 1]
        BY <1>5, <3>1
      <3> QED BY <3>2, <3>3, <3>4, Zenon
    <2>2. CASE k \notin 1 .. n
      <3>1. k # n + 1
        <4>1. ASSUME k = n + 1 PROVE FALSE
          <5>1. k - 1 = n
            BY <4>1
          <5> QED BY <1>13, <5>1
        <4> QED BY <4>1
      <3>2. k \in n + 1 .. n + rows /\ k - 1 \in n + 1 .. n + rows
        <4>1. k \in 1 .. n + rows
          BY <1>4
        <4> QED BY <1>0, <2>2, <3>1, <4>1
      <3> DEFINE x == (k - 1 - n - 1) * w
                 y == (k - n - 1) * w
      <3>3. y = x + w /\ x \in Nat
        <4>1. k - 1 - n - 1 \in Nat /\ (k - 1 - n - 1) + 1 = k - n - 1
          <5>1. k \in Int /\ k - 1 >= n + 1
            BY <1>0, <3>2
          <5> QED BY <5>1
        <4>2. ((k - 1 - n - 1) + 1) * w = (k - 1 - n - 1) * w + w
          BY <4>1
        <4> QED BY <4>1, <4>2, Products
      <3>4. R[k] = [block |-> b, from |-> HeaderBytes + y]
            /\ R[k - 1] = [block |-> b, from |-> HeaderBytes + x]
        BY <1>6, <3>2
      <3>5. HeaderBytes + y = (HeaderBytes + x) + w
        <4> HIDE DEF x, y
        <4> QED BY <3>3, ConstantsAreSizes
      <3> HIDE DEF x, y
      <3>6. [R[k - 1] EXCEPT !.from = @ + w] = [block |-> b, from |-> (HeaderBytes + x) + w]
        BY <3>4
      <3> QED BY <3>4, <3>5, <3>6
    <2> QED BY <2>1, <2>2
  <1>14. ArrayOK(objects, new)
    BY <1>10, <1>12, <1>13 DEF ArrayOK, R
  <1> QED BY <1>3, <1>14 DEF HasRows, R

\* An object is inside a block.
LEMMA ObjectsInside ==
  ASSUME NEW m, Core(m), NEW q \in Lifetimes, NEW i \in DOMAIN m.objects[q]
  PROVE  /\ m.objects[q][i].block \in DOMAIN m.heap
         /\ m.objects[q][i].from + m.objects[q][i].size <= m.heap[m.objects[q][i].block]
         /\ m.objects[q][i].from % AlignBytes = 0 /\ m.objects[q][i].from >= HeaderBytes
  <1> DEFINE object == m.objects[q][i]
  <1>1. PieceOK(m, q, object) /\ SmallOnes(m) /\ LargeOnes(m)
    BY DEF Core, PiecesOK, BlocksOK
  <1>2. object \in Piece /\ m.small_list[q] \in Seq(SmallHdr) /\ m.large_list[q] \in Seq(LargeHdr)
    BY DEF Core, Manager
  <1> HIDE DEF object
  <1>3. object.from \in Nat /\ object.size \in Nat
    BY <1>2 DEF Piece
  <1>4. CASE \E p \in DOMAIN m.small_list[q] : InSmall(m.small_list[q][p], object)
    <2>1. PICK p \in DOMAIN m.small_list[q] : InSmall(m.small_list[q][p], object)
      BY <1>4
    <2> DEFINE hdr == m.small_list[q][p]
    <2>2. hdr.bytes_used \in Nat /\ hdr.bytes_left \in Nat
      <3>1. hdr \in SmallHdr
        BY <1>2
      <3> QED BY <3>1 DEF SmallHdr
    <2>3. /\ hdr.block \in DOMAIN m.heap
          /\ m.heap[hdr.block] = hdr.bytes_used + hdr.bytes_left + HeaderBytes
      BY <1>1 DEF SmallOnes
    <2>4. object.block = hdr.block /\ object.from + object.size <= HeaderBytes + hdr.bytes_used
      BY <2>1 DEF InSmall
    <2> HIDE DEF hdr
    <2>5. object.from + object.size <= m.heap[object.block]
      BY <1>3, <2>2, <2>3, <2>4, ConstantsAreSizes
    <2> QED BY <1>1, <2>3, <2>4, <2>5 DEF PieceOK, object
  <1>5. CASE \E p \in DOMAIN m.large_list[q] : InLarge(m.large_list[q][p], object)
    <2>1. PICK p \in DOMAIN m.large_list[q] : InLarge(m.large_list[q][p], object)
      BY <1>5
    <2> DEFINE hdr == m.large_list[q][p]
    <2>2. hdr.bytes_used \in Nat
      <3>1. hdr \in LargeHdr
        BY <1>2
      <3> QED BY <3>1 DEF LargeHdr
    <2>3. hdr.block \in DOMAIN m.heap /\ m.heap[hdr.block] = hdr.bytes_used + HeaderBytes
      BY <1>1 DEF LargeOnes
    <2>4. object.block = hdr.block /\ object.from = HeaderBytes /\ object.size = hdr.bytes_used
      BY <2>1 DEF InLarge
    <2> HIDE DEF hdr
    <2>5. object.from + object.size <= m.heap[object.block]
      BY <1>3, <2>2, <2>3, <2>4, ConstantsAreSizes
    <2> QED BY <1>1, <2>3, <2>4, <2>5 DEF PieceOK, object
  <1> QED BY <1>1, <1>4, <1>5 DEF PieceOK

\* One more chunk of rows.
LEMMA ChunkOK ==
  ASSUME NEW m, NEW g, NEW q \in Lifetimes, NEW call, RowBytes(call) \in Nat \ {0},
         NEW per \in Nat \ {0}, NEW n \in Nat, n % per = 0, NEW rows \in 1 .. per,
         Len(m.arrays[q]) \in Nat, AddsArray(m, g, q, RowBytes(call), per, n)
  PROVE  AddsArray(m, WithChunk(g, q, call, rows), q, RowBytes(call), per, n + rows)
  <1> DEFINE w == RowBytes(call)
             done == AllocLarge(g, q, rows * w)
             d == WithChunk(g, q, call, rows)
             L == Len(m.arrays[q]) + 1
             b == done.large_list[q][1].block
             P == ChunkPointers(b, w, rows)
  <1>0. w \in Nat \ {0} /\ w \in Nat /\ rows \in Nat /\ rows * w \in Nat
    BY Products
  <1>1. /\ Allocates(g, done)
        /\ done.error = "none" => g.error = "none" /\ LiesAlone(g, done, q, Rounded(rows * w))
    <2>1. Core(g)
      BY DEF AddsArray
    <2> QED BY <2>1, <1>0, AllocLargeOK
  <1>2. /\ Core(g) /\ g.virt_list = m.virt_list /\ g.files = m.files
        /\ (g.error = m.error \/ Fails(m, g)) /\ ObjectsGrow(m, g) /\ ArraysGrow(m, g, q)
        /\ g.error = "none" => HasRows(g.objects[q], g.arrays[q][L], w, per, n)
    BY DEF AddsArray
  <1>3. d = IF done.error # "none" THEN done
            ELSE [done EXCEPT !.arrays[q][Len(done.arrays[q])].rows = @ \o P]
    BY Zenon DEF WithChunk, ChunkPointers
  <1> HIDE DEF w, done, d, P, b
  <1>4. /\ Core(done) /\ done.arrays = g.arrays /\ done.virt_list = m.virt_list
        /\ done.files = m.files /\ ObjectsGrow(g, done) /\ ObjectsGrow(m, done)
        /\ (done.error = m.error \/ Fails(m, done))
    BY <1>1, <1>2 DEF Allocates, Grows, ObjectsGrow, Fails
  <1>5. ArraysGrow(m, done, q) /\ Len(done.arrays[q]) = L
    BY <1>2, <1>4 DEF ArraysGrow
  <1>6. CASE done.error # "none"
    <2>1. d = done
      BY <1>3, <1>6
    <2> QED BY <1>4, <1>5, <1>6, <2>1 DEF AddsArray, d, w
  <1>7. CASE done.error = "none"
    <2> DEFINE arr == g.arrays[q][L]
               new == [arr EXCEPT !.rows = arr.rows \o P]
               arrays == [g.arrays EXCEPT ![q] = [g.arrays[q] EXCEPT ![L] = new]]
    <2>1. g.error = "none" /\ LiesAlone(g, done, q, Rounded(rows * w)) /\ HasRows(g.objects[q], arr, w, per, n)
      BY <1>1, <1>2, <1>7
    <2>2. d = [done EXCEPT !.arrays[q][L].rows = @ \o P]
      BY <1>3, <1>5, <1>7
    <2>3. /\ done \in Manager /\ g.arrays \in [Lifetimes -> Seq(RowArray)]
          /\ g.arrays[q] \in Seq(RowArray) /\ done.arrays = g.arrays
      BY <1>2, <1>4, CoreTypes
    <2>4. arr \in RowArray /\ L \in DOMAIN g.arrays[q]
      <3>1. L \in 1 .. Len(g.arrays[q])
        BY <1>4, <1>5
      <3> QED BY <2>3, <3>1
    <2> HIDE DEF L, arr
    <2>5. P \in Seq(Pointer)
      BY <1>0, <2>1, ChunkPointersOK DEF LiesAlone, P, b
    <2>6. /\ new \in RowArray /\ new.rows = arr.rows \o P /\ new.bytes = arr.bytes
          /\ new.rowsperchunk = arr.rowsperchunk
      <3>1. arr.rows \in Seq(Pointer) /\ arr.bytes \in Nat \ {0} /\ arr.rowsperchunk \in Nat \ {0}
        BY <2>4 DEF RowArray
      <3>2. arr.rows \o P \in Seq(Pointer)
        BY <2>5, <3>1, ConcatJoins
      <3> QED BY <2>4, <3>1, <3>2 DEF RowArray
    <2>7. d = [done EXCEPT !.arrays = arrays]
      <3>1. [g.arrays[q] EXCEPT ![L].rows = @ \o P] = [g.arrays[q] EXCEPT ![L] = new]
        BY <2>4, Zenon DEF arr
      <3>2. d = [done EXCEPT !.arrays = [done.arrays EXCEPT ![q] = [done.arrays[q] EXCEPT ![L].rows = @ \o P]]]
        BY <2>2, <2>3 DEF Manager
      <3> HIDE DEF new
      <3> QED BY <2>3, <3>1, <3>2
    <2> HIDE DEF new
    <2>8. /\ arrays \in [Lifetimes -> Seq(RowArray)]
          /\ \A r \in Lifetimes : r # q => arrays[r] = g.arrays[r]
          /\ Len(arrays[q]) = Len(g.arrays[q]) /\ arrays[q][L] = new
          /\ \A a \in DOMAIN g.arrays[q] : a # L => arrays[q][a] = g.arrays[q][a]
      BY <2>3, <2>4, <2>6
    <2> HIDE DEF arrays
    <2>9. /\ d \in Manager /\ d.arrays = arrays /\ d.heap = done.heap /\ d.error = done.error
          /\ d.total_space_allocated = done.total_space_allocated
          /\ d.small_list = done.small_list /\ d.large_list = done.large_list
          /\ d.objects = done.objects /\ d.virt_list = done.virt_list /\ d.files = done.files
      BY <2>3, <2>7, <2>8 DEF Manager
    <2>10. Core(d)
      BY <1>4, <2>9, CoreOfTheSame
    <2>11. ArraysGrow(m, d, q)
      <3>1. \A a \in DOMAIN m.arrays[q] : a \in DOMAIN g.arrays[q] /\ a # L
        <4>1. m.arrays[q] = m.arrays[q] /\ Len(g.arrays[q]) = L
          BY <1>4, <1>5
        <4> QED BY <4>1, <2>3 DEF L
      <3> QED BY <1>2, <2>8, <2>9, <3>1 DEF ArraysGrow
    <2>12. HasRows(d.objects[q], new, w, per, n + rows)
      <3>1. PICK i \in DOMAIN done.objects[q] :
              done.objects[q][i].block = b /\ done.objects[q][i].from = HeaderBytes
                /\ done.objects[q][i].size = Rounded(rows * w)
        BY <2>1 DEF LiesAlone, b
      <3>2. b \in Nat /\ b \notin DOMAIN g.heap
        BY <2>1 DEF LiesAlone, b
      <3>3. Rounded(rows * w) \in Nat /\ Rounded(rows * w) >= rows * w
        BY <1>0, RoundedOK
      <3>4. \A r \in DOMAIN arr.rows : arr.rows[r].block # b
        <4> SUFFICES ASSUME NEW r \in DOMAIN arr.rows PROVE arr.rows[r].block # b
          OBVIOUS
        <4>1. PICK j \in DOMAIN g.objects[q] : Inside(RowOf(arr, r), g.objects[q][j])
          BY <2>1 DEF HasRows, ArrayOK
        <4>2. arr.rows[r].block = g.objects[q][j].block
          BY <4>1 DEF Inside, RowOf
        <4>3. g.objects[q][j].block \in DOMAIN g.heap
          BY <1>2, ObjectsInside
        <4> QED BY <3>2, <4>2, <4>3
      <3>5. /\ DOMAIN g.objects[q] \subseteq DOMAIN done.objects[q]
            /\ \A j \in DOMAIN g.objects[q] : done.objects[q][j] = g.objects[q][j]
        BY <1>4 DEF ObjectsGrow
      <3>6. arr.bytes = w /\ arr.rowsperchunk = per
        BY <2>1 DEF HasRows
      <3>7. new.bytes = w /\ new.rowsperchunk = per /\ new.rows = arr.rows \o ChunkPointers(b, w, rows)
        BY <2>6, <3>6 DEF P
      <3>8. /\ done.objects[q][i].block = b /\ done.objects[q][i].from = HeaderBytes
            /\ done.objects[q][i].size \in Nat /\ done.objects[q][i].size >= rows * w
        BY <3>1, <3>3
      <3>9. HasRows(done.objects[q], new, w, per, n + rows)
        <4> DEFINE old == g.objects[q]
                   objects == done.objects[q]
        <4>1. HasRows(old, arr, w, per, n) /\ arr \in RowArray /\ new \in RowArray
          BY <2>1, <2>4, <2>6
        <4>2. Extends(old, objects) /\ Avoids(arr, b)
          BY <3>4, <3>5 DEF Extends, Avoids
        <4>3. i \in DOMAIN objects /\ HoldsAll(objects[i], b, rows * w)
          BY <3>8 DEF HoldsAll
        <4> HIDE DEF old, objects
        <4>4. HasRows(objects, new, w, per, n + rows)
          BY <1>0, <3>2, <3>7, <4>1, <4>2, <4>3, RowsJoined
        <4> QED BY <4>4 DEF objects
      <3> QED BY <2>9, <3>9
    <2>13. d.virt_list = m.virt_list /\ d.files = m.files /\ ObjectsGrow(m, d)
           /\ (d.error = m.error \/ Fails(m, d))
      BY <1>4, <2>9 DEF ObjectsGrow, Fails
    <2> QED BY <2>8, <2>9, <2>10, <2>11, <2>12, <2>13 DEF AddsArray, d, w, L
  <1> QED BY <1>6, <1>7

\* What is done for one chunk or one virtual array after the other.
TurnOf(loop, g, c) ==
  IF loop.of = "chunks"
  THEN WithChunk(g, loop.pool, loop.call, ChunkRows(loop.numrows, loop.perchunk, c))
  ELSE RealizedOne(g, c, loop.max_minheights)
Runs(loop, w, n, f) == f = [c \in 0 .. n |-> IF c = 0 THEN w ELSE TurnOf(loop, f[c - 1], c)]
RunsThrough(loop, w, n, f) ==
  f[0] = w /\ \A c \in 1 .. n : f[c] = TurnOf(loop, f[c - 1], c)
LEMMA RunsExist ==
  ASSUME NEW loop, NEW w, NEW n \in Nat
  PROVE  \E f : Runs(loop, w, n, f)
  <1> DEFINE S == {k \in Nat : ~ \E f : Runs(loop, w, k, f)}
  <1>1. ASSUME S # {} PROVE FALSE
    <2>1. PICK k \in S : \A j \in S : k <= j
      BY <1>1, LeastNumber
    <2>2. k # 0
      <3> DEFINE f == [c \in 0 .. 0 |-> w]
      <3>1. \A c \in 0 .. 0 : c = 0
        OBVIOUS
      <3>2. f = [c \in 0 .. 0 |-> IF c = 0 THEN w ELSE TurnOf(loop, f[c - 1], c)]
        BY <3>1
      <3> HIDE DEF f
      <3>3. Runs(loop, w, 0, f)
        BY <3>2 DEF Runs
      <3> QED BY <3>3, <2>1
    <2>3. k - 1 \in Nat /\ ~(k <= k - 1) /\ k \in Nat
      BY <2>1, <2>2
    <2>4. PICK f : Runs(loop, w, k - 1, f)
      BY <2>1, <2>3
    <2>5. \A c \in 0 .. k - 1 : f[c] = IF c = 0 THEN w ELSE TurnOf(loop, f[c - 1], c)
      BY <2>4 DEF Runs
    <2> DEFINE g == [c \in 0 .. k |-> IF c = k THEN TurnOf(loop, f[k - 1], k) ELSE f[c]]
    <2>6. ASSUME NEW c \in 0 .. k
          PROVE  g[c] = IF c = 0 THEN w ELSE TurnOf(loop, g[c - 1], c)
      <3>1. CASE c = k
        <4>1. k - 1 \in 0 .. k /\ k - 1 # k
          BY <2>3
        <4> QED BY <2>2, <3>1, <4>1
      <3>2. CASE c # k /\ c # 0
        <4>1. c \in 0 .. k - 1 /\ c - 1 \in 0 .. k /\ c - 1 # k
          BY <2>3, <3>2
        <4> QED BY <2>5, <3>2, <4>1
      <3>3. CASE c # k /\ c = 0
        <4>1. c \in 0 .. k - 1
          BY <2>3, <3>3
        <4> QED BY <2>5, <3>3, <4>1
      <3> QED BY <3>1, <3>2, <3>3
    <2>7. g = [c \in 0 .. k |-> g[c]]
      OBVIOUS
    <2> HIDE DEF g
    <2>8. Runs(loop, w, k, g)
      BY <2>6, <2>7, Zenon DEF Runs
    <2> QED BY <2>1, <2>8
  <1> QED BY <1>1
LEMMA RunsAreThrough ==
  ASSUME NEW loop, NEW w, NEW n \in Nat, NEW f, Runs(loop, w, n, f)
  PROVE  RunsThrough(loop, w, n, f)
  <1>1. \A c \in 0 .. n : f[c] = IF c = 0 THEN w ELSE TurnOf(loop, f[c - 1], c)
    BY DEF Runs
  <1>2. 0 \in 0 .. n /\ \A c \in 1 .. n : c \in 0 .. n /\ c # 0
    OBVIOUS
  <1> QED BY <1>1, <1>2 DEF RunsThrough

\* As many chunks as hold the rows: all but the last are full.
RowsOf(numrows, per, chunks, c) == IF c = chunks THEN numrows ELSE c * per
LEMMA ChunksAreFilled ==
  ASSUME NEW numrows \in Nat \ {0}, NEW per \in Nat \ {0}, NEW c \in Nat \ {0},
         c <= CeillingDivide(numrows, per)
  PROVE  LET chunks == CeillingDivide(numrows, per)
             before == RowsOf(numrows, per, chunks, c - 1)
             r == ChunkRows(numrows, per, c)
         IN  /\ chunks \in Nat \ {0} /\ before \in Nat /\ before % per = 0 /\ r \in 1 .. per
             /\ RowsOf(numrows, per, chunks, c) = before + r
  <1> DEFINE chunks == CeillingDivide(numrows, per)
             before == RowsOf(numrows, per, chunks, c - 1)
             r == ChunkRows(numrows, per, c)
             x == (c - 1) * per
             y == (chunks - c) * per
  <1>1. chunks \in Nat /\ numrows <= per * chunks /\ per * chunks < numrows + per
    BY CeillingDivideIsCeiling
  <1> HIDE DEF chunks
  <1>2. chunks # 0 /\ c <= chunks /\ c - 1 # chunks /\ c - 1 \in Nat
    BY <1>1 DEF chunks
  <1>3. chunks - c \in Nat
    BY <1>1, <1>2
  <1>4. x \in Nat /\ y \in Nat
    BY <1>2, <1>3, Products
  <1>5. c * per = x + per
    BY <1>2
  <1>6. per * chunks = x + per + y
    <2>1. chunks = (c - 1) + 1 + (chunks - c)
      BY <1>1, <1>2
    <2> DEFINE u == c - 1
               v == chunks - c
    <2> HIDE DEF u, v
    <2>2. u \in Int /\ v \in Int
      BY <1>2, <1>3 DEF u, v
    <2>3. per * (u + 1 + v) = u * per + per + v * per
      BY <2>2
    <2>4. chunks = u + 1 + v
      BY <2>1 DEF u, v
    <2> QED BY <2>3, <2>4 DEF u, v
  <1>7. before = x
    BY <1>2 DEF RowsOf
  <1>8. x % per = 0
    BY <1>2, MultMod
  <1>9. r = IF per <= numrows - x THEN per ELSE numrows - x
    <2>1. numrows - x \in Int /\ per \in Int
      BY <1>4
    <2> QED BY <2>1, MinOfTwo DEF ChunkRows
  <1>10. CASE c = chunks
    <2>1. y = 0
      BY <1>10, <1>1
    <2> HIDE DEF x, y
    <2>2. numrows - x <= per /\ numrows - x >= 1
      BY <1>1, <1>4, <1>6, <2>1
    <2>3. r = numrows - x
      BY <1>4, <1>9, <2>2
    <2>4. r \in 1 .. per /\ numrows = x + r
      BY <1>4, <2>2, <2>3
    <2>5. RowsOf(numrows, per, chunks, c) = numrows
      BY <1>10 DEF RowsOf
    <2> HIDE DEF before, r
    <2> QED BY <1>1, <1>2, <1>4, <1>7, <1>8, <2>4, <2>5 DEF chunks, before, r
  <1>11. CASE c # chunks
    <2>1. y >= per
      <3>1. 0 < chunks - c /\ 0 \in Nat /\ 0 * per = 0
        BY <1>1, <1>2, <1>11
      <3>2. 0 * per + per <= (chunks - c) * per
        BY <1>3, <3>1, RowsBehind
      <3> QED BY <3>1, <3>2
    <2> HIDE DEF x, y
    <2>2. numrows - x > per
      BY <1>1, <1>4, <1>6, <2>1
    <2>3. r = per
      BY <1>4, <1>9, <2>2
    <2>4. RowsOf(numrows, per, chunks, c) = x + per
      BY <1>5, <1>11 DEF RowsOf
    <2>5. r \in 1 .. per
      BY <2>3
    <2> HIDE DEF before, r
    <2> QED BY <1>1, <1>2, <1>4, <1>7, <1>8, <2>3, <2>4, <2>5 DEF chunks, before, r
  <1> QED BY <1>10, <1>11

\* All rows of an array, in as many chunks as it takes.
LEMMA AllocRowsOK ==
  ASSUME NEW m, Core(m), NEW q \in Lifetimes, NEW call, RowBytes(call) \in Nat \ {0},
         NEW numrows \in Nat \ {0}, NEW per \in Nat \ {0}
  PROVE  AddsArray(m, AllocRows(m, q, call, numrows, per), q, RowBytes(call), per, numrows)
  <1> DEFINE w == RowBytes(call)
             chunks == CeillingDivide(numrows, per)
             loop == [of |-> "chunks", pool |-> q, call |-> call, numrows |-> numrows,
                      perchunk |-> per]
             first == Begun(m, q, call, numrows, per)
             f == CHOOSE f : Runs(loop, first, chunks, f)
             S == {c \in 0 .. chunks :
                     ~AddsArray(m, f[c], q, w, per, RowsOf(numrows, per, chunks, c))}
  <1>1. chunks \in Nat /\ chunks # 0
    <2>1. numrows \in Nat /\ 1 \in Nat \ {0} /\ chunks \in Nat
          /\ numrows <= per * chunks
      BY CeillingDivideIsCeiling
    <2> HIDE DEF chunks
    <2> QED BY <2>1
  <1>2. \A g, c : TurnOf(loop, g, c) = WithChunk(g, q, call, ChunkRows(numrows, per, c))
    BY DEF TurnOf
  <1>3. AllocRows(m, q, call, numrows, per) = f[chunks]
    <2>1. \A h : Runs(loop, first, chunks, h) <=>
                 h = [c \in 0 .. chunks |->
                        IF c = 0 THEN first
                        ELSE WithChunk(h[c - 1], q, call, ChunkRows(numrows, per, c))]
      BY <1>2, Zenon DEF Runs
    <2>2. f = CHOOSE h : h = [c \in 0 .. chunks |->
                                IF c = 0 THEN first
                                ELSE WithChunk(h[c - 1], q, call, ChunkRows(numrows, per, c))]
      BY <2>1, Zenon
    <2> HIDE DEF f
    <2> QED BY <2>2, Zenon DEF AllocRows, Begun
  <1> HIDE DEF loop, first, f, S
  <1>4. RunsThrough(loop, first, chunks, f)
    <2>1. Runs(loop, first, chunks, f)
      BY <1>1, RunsExist DEF f
    <2> QED BY <1>1, <2>1, RunsAreThrough
  <1>5. ASSUME S # {} PROVE FALSE
    <2>0. S \in SUBSET Nat
      BY <1>1 DEF S
    <2>1. PICK c \in S : \A j \in S : c <= j
      BY <1>5, <2>0, LeastNumber
    <2>2. c \in 0 .. chunks /\ ~AddsArray(m, f[c], q, w, per, RowsOf(numrows, per, chunks, c))
      BY <2>1 DEF S
    <2>3. c # 0
      <3>1. AddsArray(m, first, q, w, per, 0)
        BY BegunOK DEF first
      <3>2. RowsOf(numrows, per, chunks, 0) = 0
        <4>1. 0 * per = 0
          OBVIOUS
        <4> QED BY <1>1, <4>1 DEF RowsOf
      <3> QED BY <1>4, <2>2, <3>1, <3>2 DEF RunsThrough
    <2>4. c \in Nat \ {0} /\ c <= chunks /\ c \in 1 .. chunks /\ c - 1 \in 0 .. chunks /\ ~(c <= c - 1)
      BY <1>1, <2>2, <2>3
    <2> DEFINE before == RowsOf(numrows, per, chunks, c - 1)
               r == ChunkRows(numrows, per, c)
    <2>5. /\ before \in Nat /\ before % per = 0 /\ r \in 1 .. per
          /\ RowsOf(numrows, per, chunks, c) = before + r
      BY <2>4, ChunksAreFilled
    <2>6. AddsArray(m, f[c - 1], q, w, per, before)
      BY <2>1, <2>4 DEF S
    <2>7. f[c] = WithChunk(f[c - 1], q, call, r)
      BY <1>2, <1>4, <2>4 DEF RunsThrough
    <2>8. Len(m.arrays[q]) \in Nat
      <3>1. m.arrays[q] \in Seq(RowArray)
        BY CoreTypes
      <3> QED BY <3>1
    <2> HIDE DEF before, r
    <2>9. AddsArray(m, WithChunk(f[c - 1], q, call, r), q, w, per, before + r)
      BY <2>5, <2>6, <2>8, ChunkOK
    <2> QED BY <2>2, <2>5, <2>7, <2>9
  <1>6. AddsArray(m, f[chunks], q, w, per, RowsOf(numrows, per, chunks, chunks))
    <2>1. chunks \in 0 .. chunks
      BY <1>1
    <2> QED BY <1>5, <2>1 DEF S
  <1> QED BY <1>3, <1>6 DEF RowsOf

\* The calls there are.
LEMMA CallsAreSizes ==
  ASSUME NEW call \in ArrayCalls
  PROVE  /\ call.width \in Nat \ {0} /\ call.rows \in Nat \ {0} /\ call.maxaccess \in Nat \ {0}
         /\ RowBytes(call) \in Nat \ {0}
  <1>1. /\ call.width \in Nat \ {0} /\ call.rows \in Nat \ {0} /\ call.maxaccess \in Nat \ {0}
        /\ ElementBytes[call.kind] \in Nat \ {0}
    BY PoolsAssumption
  <1> DEFINE a == call.width
             b == ElementBytes[call.kind]
  <1> HIDE DEF a, b
  <1>2. a \in Nat \ {0} /\ b \in Nat \ {0}
    BY <1>1 DEF a, b
  <1>3. a * b \in Nat \ {0}
    <2>1. 0 \in Nat /\ 0 < a /\ 0 * b = 0
      BY <1>2
    <2>2. 0 * b + b <= a * b /\ a * b \in Nat
      BY <1>2, <2>1, RowsBehind
    <2> QED BY <1>2, <2>1, <2>2
  <1> QED BY <1>1, <1>3 DEF RowBytes, a, b

LEMMA RowsPerChunkOK ==
  ASSUME NEW call \in ArrayCalls, NEW numrows \in Nat \ {0},
         ~(RowBytes(call) > MaxChunk - HeaderBytes)
  PROVE  RowsPerChunk(call, numrows) \in Nat \ {0}
  <1> DEFINE w == RowBytes(call)
             all == MaxChunk - HeaderBytes
             r == all \div w
  <1>1. w \in Nat \ {0}
    BY CallsAreSizes
  <1>2. all \in Nat /\ w <= all
    BY <1>1, ConstantsAreSizes
  <1> HIDE DEF w, all
  <1>3. r \in Nat \ {0}
    <2>1. r \in Nat /\ w * r > all - w
      <3>1. r \in Nat /\ all % w \in 0 .. w - 1 /\ all = w * r + (all % w)
        BY <1>1, <1>2, DivMod
      <3>2. w * r \in Nat
        BY <1>1, <3>1, Products
      <3> HIDE DEF r
      <3> QED BY <1>1, <1>2, <3>1, <3>2
    <2>2. r # 0
      <3>1. w * 0 = 0
        BY <1>1
      <3> HIDE DEF r
      <3>2. ASSUME r = 0 PROVE FALSE
        <4>1. w * r = 0
          BY <3>1, <3>2
        <4> QED BY <1>1, <1>2, <2>1, <4>1
      <3> QED BY <3>2
    <2> QED BY <2>1, <2>2
  <1> HIDE DEF r
  <1>4. Min({r, numrows}) \in Nat \ {0}
    <2>1. Min({r, numrows}) = IF r <= numrows THEN r ELSE numrows
      BY <1>3, MinOfTwo
    <2> QED BY <1>3, <2>1
  <1> QED BY <1>4 DEF RowsPerChunk, r, w, all

\* alloc_sarray and alloc_barray
Failing(m, d) ==
  d.error \in {"JERR_OUT_OF_MEMORY", "JERR_WIDTH_OVERFLOW", "JERR_TFILE_CREATE"}
GetsAnArray(m, d, q, call, numrows) ==
  /\ Core(d) /\ d.virt_list = m.virt_list /\ d.files = m.files
  /\ \A r \in Lifetimes : r # q => d.arrays[r] = m.arrays[r]
  /\ \/ Failing(m, d)
     \/ /\ d.error = "none"
        /\ \E per \in Nat : AddsArray(m, d, q, RowBytes(call), per, numrows)
LEMMA AllocArrayOK ==
  ASSUME NEW m, Core(m), m.error = "none", NEW q \in Lifetimes, NEW call \in ArrayCalls,
         NEW numrows \in Nat \ {0}
  PROVE  GetsAnArray(m, AllocArray(m, q, call, numrows), q, call, numrows)
  <1>1. CASE RowBytes(call) > MaxChunk - HeaderBytes
    <2>1. AllocArray(m, q, call, numrows) = Failed(m, "JERR_WIDTH_OVERFLOW")
      BY <1>1 DEF AllocArray
    <2>2. "JERR_WIDTH_OVERFLOW" \in Errors
      BY DEF Errors
    <2>3. Core(Failed(m, "JERR_WIDTH_OVERFLOW")) /\ Grows(m, Failed(m, "JERR_WIDTH_OVERFLOW"))
          /\ Failed(m, "JERR_WIDTH_OVERFLOW").error = "JERR_WIDTH_OVERFLOW"
      BY <2>2, FailedOK
    <2> QED BY <2>1, <2>3 DEF GetsAnArray, Failing, Grows
  <1>2. CASE ~(RowBytes(call) > MaxChunk - HeaderBytes)
    <2> DEFINE per == RowsPerChunk(call, numrows)
               d == AllocArray(m, q, call, numrows)
    <2>1. d = AllocRows(m, q, call, numrows, per)
      BY <1>2 DEF AllocArray
    <2>2. per \in Nat \ {0} /\ RowBytes(call) \in Nat \ {0}
      BY <1>2, RowsPerChunkOK, CallsAreSizes
    <2> HIDE DEF per, d
    <2>3. AddsArray(m, d, q, RowBytes(call), per, numrows)
      BY <2>1, <2>2, AllocRowsOK
    <2>4. Core(d) /\ d.virt_list = m.virt_list /\ d.files = m.files
          /\ (d.error = "none" \/ Failing(m, d))
          /\ \A r \in Lifetimes : r # q => d.arrays[r] = m.arrays[r]
      BY <2>3 DEF AddsArray, ArraysGrow, Fails, Failing
    <2> QED BY <2>2, <2>3, <2>4 DEF GetsAnArray, d
  <1> QED BY <1>1, <1>2

-----------------------------------------------------------------------------
(* What a call leaves.                                                     *)

\* The rows of an array stay inside the objects there are.
LEMMA ArrayStaysOK ==
  ASSUME NEW old, NEW objects, NEW arr, ArrayOK(old, arr),
         DOMAIN old \subseteq DOMAIN objects, \A i \in DOMAIN old : objects[i] = old[i]
  PROVE  ArrayOK(objects, arr)
  <1>1. ASSUME NEW r \in DOMAIN arr.rows
        PROVE  \E i \in DOMAIN objects : Inside(RowOf(arr, r), objects[i])
    <2>1. PICK i \in DOMAIN old : Inside(RowOf(arr, r), old[i])
      BY DEF ArrayOK
    <2> QED BY <2>1
  <1> QED BY <1>1 DEF ArrayOK
LEMMA ArraysStayOK ==
  ASSUME NEW m, NEW d, ArraysOK(m), d.arrays = m.arrays, ObjectsGrow(m, d)
  PROVE  ArraysOK(d)
  <1> SUFFICES ASSUME NEW q \in Lifetimes, NEW a \in DOMAIN m.arrays[q]
               PROVE  ArrayOK(d.objects[q], m.arrays[q][a])
    BY DEF ArraysOK
  <1>1. ArrayOK(m.objects[q], m.arrays[q][a])
    BY DEF ArraysOK
  <1>2. /\ DOMAIN m.objects[q] \subseteq DOMAIN d.objects[q]
        /\ \A i \in DOMAIN m.objects[q] : d.objects[q][i] = m.objects[q][i]
    BY DEF ObjectsGrow
  <1> QED BY <1>1, <1>2, ArrayStaysOK

\* A call that only allocates.
LEMMA AllocationOK ==
  ASSUME NEW m, Sound(m), m.error = "none", NEW d, Allocates(m, d)
  PROVE  Sound(d) /\ d.error # "destroyed" /\ (d.error = "none" \/ Fails(m, d))
  <1>1. /\ Core(d) /\ d.arrays = m.arrays /\ d.virt_list = m.virt_list /\ d.files = m.files
        /\ ObjectsGrow(m, d) /\ (d.error = "none" \/ Fails(m, d))
    BY DEF Allocates, Grows, ObjectsGrow
  <1>2. ArraysOK(d)
    BY <1>1, ArraysStayOK DEF Sound
  <1>3. SharesOK(d)
    BY <1>1 DEF SharesOK, ShareOK, Sound
  <1>4. FilesOK(d) /\ NoneIsPermanent(d)
    BY <1>1 DEF FilesOK, OpenStores, NoneIsPermanent, Sound
  <1> QED BY <1>1, <1>2, <1>3, <1>4 DEF Sound, Fails

\* A call that makes an array.
OldArraysStay(m, d) ==
  \A a \in DOMAIN m.arrays[IMAGE] :
    a \in DOMAIN d.arrays[IMAGE] /\ d.arrays[IMAGE][a] = m.arrays[IMAGE][a]
LastArrayHas(d, q, n) ==
  /\ Len(d.arrays[q]) \in Nat /\ Len(d.arrays[q]) \in DOMAIN d.arrays[q]
  /\ Len(d.arrays[q][Len(d.arrays[q])].rows) = n
LEMMA MoreArraysOK ==
  ASSUME NEW m, Core(m), ArraysOK(m), NEW d, NEW q \in Lifetimes,
         NEW w, NEW per, NEW n, AddsArray(m, d, q, w, per, n), d.error = "none"
  PROVE  ArraysOK(d) /\ OldArraysStay(m, d) /\ LastArrayHas(d, q, n)
  <1>1. /\ Core(d) /\ d.virt_list = m.virt_list /\ d.files = m.files
        /\ ObjectsGrow(m, d) /\ ArraysGrow(m, d, q)
        /\ HasRows(d.objects[q], d.arrays[q][Len(m.arrays[q]) + 1], w, per, n)
    BY DEF AddsArray
  <1>2. /\ m.arrays \in [Lifetimes -> Seq(RowArray)] /\ d.arrays \in [Lifetimes -> Seq(RowArray)]
        /\ \A r \in Lifetimes : m.arrays[r] \in Seq(RowArray) /\ d.arrays[r] \in Seq(RowArray)
    BY <1>1, CoreTypes
  <1>3. /\ Len(d.arrays[q]) = Len(m.arrays[q]) + 1 /\ Len(d.arrays[q]) \in DOMAIN d.arrays[q]
        /\ Len(m.arrays[q]) \in Nat /\ Len(d.arrays[q]) \in Nat
    <2>1. Len(m.arrays[q]) \in Nat /\ Len(d.arrays[q]) = Len(m.arrays[q]) + 1
      BY <1>1, <1>2 DEF ArraysGrow
    <2> QED BY <1>2, <2>1
  <1>4. \A r \in Lifetimes : \A a \in DOMAIN d.arrays[r] :
          \/ a \in DOMAIN m.arrays[r] /\ d.arrays[r][a] = m.arrays[r][a]
          \/ r = q /\ a = Len(m.arrays[q]) + 1
    <2> SUFFICES ASSUME NEW r \in Lifetimes, NEW a \in DOMAIN d.arrays[r],
                        ~(r = q /\ a = Len(m.arrays[q]) + 1)
                 PROVE  a \in DOMAIN m.arrays[r] /\ d.arrays[r][a] = m.arrays[r][a]
      OBVIOUS
    <2>1. CASE r # q
      BY <1>1, <2>1 DEF ArraysGrow
    <2>2. CASE r = q
      <3>1. a \in 1 .. Len(m.arrays[q]) + 1 /\ a # Len(m.arrays[q]) + 1
        BY <1>2, <1>3, <2>2
      <3>2. a \in DOMAIN m.arrays[q]
        BY <1>2, <1>3, <3>1
      <3> QED BY <1>1, <2>2, <3>2 DEF ArraysGrow
    <2> QED BY <2>1, <2>2
  <1>5. ArraysOK(d)
    <2> SUFFICES ASSUME NEW r \in Lifetimes, NEW a \in DOMAIN d.arrays[r]
                 PROVE  ArrayOK(d.objects[r], d.arrays[r][a])
      BY DEF ArraysOK
    <2>1. CASE r = q /\ a = Len(m.arrays[q]) + 1
      BY <1>1, <2>1 DEF HasRows
    <2>2. CASE a \in DOMAIN m.arrays[r] /\ d.arrays[r][a] = m.arrays[r][a]
      <3>1. ArrayOK(m.objects[r], m.arrays[r][a])
        BY <2>2 DEF ArraysOK
      <3>2. /\ DOMAIN m.objects[r] \subseteq DOMAIN d.objects[r]
            /\ \A i \in DOMAIN m.objects[r] : d.objects[r][i] = m.objects[r][i]
        BY <1>1 DEF ObjectsGrow
      <3> QED BY <2>2, <3>1, <3>2, ArrayStaysOK
    <2> QED BY <1>4, <2>1, <2>2
  <1>6. ASSUME NEW a \in DOMAIN m.arrays[IMAGE]
        PROVE  a \in DOMAIN d.arrays[IMAGE] /\ d.arrays[IMAGE][a] = m.arrays[IMAGE][a]
    <2>0. IMAGE \in Lifetimes
      BY DEF Lifetimes
    <2>1. CASE IMAGE # q
      BY <1>1, <2>0, <2>1 DEF ArraysGrow
    <2>2. CASE IMAGE = q
      <3>1. a \in 1 .. Len(m.arrays[q])
        BY <1>2, <2>2
      <3>2. a \in DOMAIN d.arrays[q]
        BY <1>2, <1>3, <3>1
      <3> QED BY <1>1, <2>2, <3>2 DEF ArraysGrow
    <2> QED BY <2>1, <2>2
  <1>7. Len(d.arrays[q][Len(d.arrays[q])].rows) = n
    BY <1>1, <1>3 DEF HasRows
  <1> QED BY <1>3, <1>5, <1>6, <1>7 DEF OldArraysStay, LastArrayHas

\* A share is the same as long as its array is.
LEMMA SharesStayOK ==
  ASSUME NEW m, NEW d, OldArraysStay(m, d), NEW ptr, ShareOK(m, ptr)
  PROVE  ShareOK(d, ptr)
  BY DEF OldArraysStay, ShareOK

\* Arrays of samples or blocks that are not virtual.
LEMMA ArrayCallOK ==
  ASSUME NEW m, Sound(m), m.error = "none", NEW call \in ArrayCalls,
         NEW numrows \in Nat \ {0}
  PROVE  /\ Sound(AllocArray(m, IMAGE, call, numrows))
         /\ AllocArray(m, IMAGE, call, numrows).error # "destroyed"
  <1> DEFINE d == AllocArray(m, IMAGE, call, numrows)
  <1>0. IMAGE \in Lifetimes /\ PERMANENT \in Lifetimes /\ PERMANENT # IMAGE
    BY DEF Lifetimes, PERMANENT, IMAGE
  <1>1. GetsAnArray(m, d, IMAGE, call, numrows)
    BY <1>0, AllocArrayOK DEF Sound
  <1> HIDE DEF d
  <1>2. Core(d) /\ d.virt_list = m.virt_list /\ d.files = m.files
    BY <1>1 DEF GetsAnArray
  <1>3. FilesOK(d) /\ NoneIsPermanent(d)
    BY <1>0, <1>1, <1>2 DEF FilesOK, OpenStores, NoneIsPermanent, GetsAnArray, Sound
  <1>4. CASE Failing(m, d)
    BY <1>2, <1>3, <1>4 DEF Failing, Sound, d
  <1>5. CASE ~Failing(m, d)
    <2>1. d.error = "none" /\ \E per \in Nat : AddsArray(m, d, IMAGE, RowBytes(call), per, numrows)
      BY <1>1, <1>5 DEF GetsAnArray
    <2>2. ArraysOK(d) /\ OldArraysStay(m, d)
      BY <1>0, <2>1, MoreArraysOK DEF Sound
    <2>3. SharesOK(d)
      <3> SUFFICES ASSUME NEW v \in DOMAIN m.virt_list PROVE ShareOK(d, m.virt_list[v])
        BY <1>2 DEF SharesOK
      <3>1. ShareOK(m, m.virt_list[v])
        BY DEF Sound, SharesOK
      <3> QED BY <2>2, <3>1, SharesStayOK
    <2> QED BY <1>2, <1>3, <2>1, <2>2, <2>3 DEF Sound, d
  <1> QED BY <1>4, <1>5

\* An element put into a sequence: those in front of it stay, the others make room.
Inserted(s, i, e, t) ==
  /\ Len(t) = Len(s) + 1
  /\ \A k \in 1 .. Len(s) + 1 : t[k] = IF k < i THEN s[k] ELSE IF k = i THEN e ELSE s[k - 1]
LEMMA InsertedAt ==
  ASSUME NEW S, NEW s \in Seq(S), NEW e \in S, NEW i \in 1 .. Len(s) + 1
  PROVE  InsertAt(s, i, e) \in Seq(S) /\ Inserted(s, i, e, InsertAt(s, i, e))
  <1> DEFINE n == Len(s)
             a == SubSeq(s, 1, i - 1)
             b == SubSeq(s, i, n)
             t == (a \o <<e>>) \o b
  <1>0. n \in Nat /\ i \in Int /\ 1 <= i /\ i <= n + 1 /\ \A k \in 1 .. n : s[k] \in S
    OBVIOUS
  <1> HIDE DEF n
  <1>1. /\ a \in Seq(S) /\ Len(a) = i - 1 /\ \A k \in 1 .. i - 1 : a[k] = s[k]
    <2>1. \A k \in 1 .. i - 1 : s[k] \in S
      BY <1>0
    <2>2. /\ a \in Seq(S) /\ Len(a) = IF 1 <= i - 1 THEN (i - 1) - 1 + 1 ELSE 0
          /\ \A k \in 1 .. (i - 1) - 1 + 1 : a[k] = s[1 + k - 1]
      <3>1. 1 \in Int /\ i - 1 \in Int
        BY <1>0
      <3> QED BY <2>1, <3>1, SubSeqProperties
    <2> HIDE DEF a
    <2>3. Len(a) = i - 1
      BY <1>0, <2>2
    <2>4. \A k \in 1 .. i - 1 : k \in 1 .. (i - 1) - 1 + 1 /\ 1 + k - 1 = k
      BY <1>0
    <2> QED BY <2>2, <2>3, <2>4
  <1>2. /\ b \in Seq(S) /\ Len(b) = n + 1 - i /\ \A k \in 1 .. n + 1 - i : b[k] = s[i + k - 1]
    <2>1. \A k \in i .. n : s[k] \in S
      BY <1>0
    <2>2. /\ b \in Seq(S) /\ Len(b) = IF i <= n THEN n - i + 1 ELSE 0
          /\ \A k \in 1 .. n - i + 1 : b[k] = s[i + k - 1]
      <3>1. n \in Int /\ i \in Int
        BY <1>0
      <3> QED BY <2>1, <3>1, SubSeqProperties
    <2> HIDE DEF b
    <2>3. Len(b) = n + 1 - i
      BY <1>0, <2>2
    <2>4. n - i + 1 = n + 1 - i
      BY <1>0
    <2> QED BY <2>2, <2>3, <2>4
  <1>3. InsertAt(s, i, e) = t
    BY Zenon DEF InsertAt, n
  <1> HIDE DEF a, b
  <1>4. <<e>> \in Seq(S) /\ Len(<<e>>) = 1 /\ <<e>>[1] = e
    OBVIOUS
  <1>5. a \o <<e>> \in Seq(S) /\ Joins(a, <<e>>, a \o <<e>>)
    BY <1>1, <1>4, ConcatJoins
  <1> DEFINE c == a \o <<e>>
  <1>6. c \in Seq(S) /\ Len(c) = i /\ c[i] = e /\ \A k \in 1 .. i - 1 : c[k] = s[k]
    <2> DEFINE one == <<e>>
    <2>1. Joins(a, one, c) /\ Len(one) = 1 /\ one[1] = e
      BY <1>4, <1>5
    <2> HIDE DEF c, one
    <2>2. Len(c) = i /\ \A k \in 1 .. i : c[k] = IF k <= i - 1 THEN a[k] ELSE one[k - (i - 1)]
      <3>1. Len(a) + Len(one) = i
        BY <1>0, <1>1, <2>1
      <3> QED BY <1>1, <2>1, <3>1 DEF Joins
    <2>3. i \in 1 .. i /\ ~(i <= i - 1) /\ i - (i - 1) = 1
      BY <1>0
    <2>4. c[i] = e
      BY <2>1, <2>2, <2>3
    <2>5. \A k \in 1 .. i - 1 : k \in 1 .. i /\ k <= i - 1
      BY <1>0
    <2>6. \A k \in 1 .. i - 1 : c[k] = s[k]
      BY <1>1, <2>2, <2>5
    <2> QED BY <1>5, <2>2, <2>4, <2>6 DEF c
  <1>7. t \in Seq(S) /\ Joins(c, b, t)
    <2>1. t = c \o b
      OBVIOUS
    <2> HIDE DEF c
    <2> QED BY <1>2, <1>6, <2>1, ConcatJoins
  <1> HIDE DEF c, t
  <1>8. Len(t) = n + 1
    <2>1. Len(t) = Len(c) + Len(b)
      BY <1>7 DEF Joins
    <2> QED BY <1>0, <1>2, <1>6, <2>1
  <1>9. ASSUME NEW k \in 1 .. n + 1
        PROVE  t[k] = IF k < i THEN s[k] ELSE IF k = i THEN e ELSE s[k - 1]
    <2>1. t[k] = IF k <= i THEN c[k] ELSE b[k - i]
      <3>1. k \in 1 .. Len(c) + Len(b)
        BY <1>0, <1>2, <1>6
      <3> QED BY <1>6, <1>7, <3>1 DEF Joins
    <2>2. CASE k < i
      <3>1. k \in 1 .. i - 1 /\ k <= i
        BY <1>0, <2>2
      <3> QED BY <1>6, <2>1, <2>2, <3>1
    <2>3. CASE k = i
      <3>1. k <= i /\ ~(k < i)
        BY <1>0, <2>3
      <3> QED BY <1>6, <2>1, <2>3, <3>1
    <2>4. CASE k > i
      <3>1. k - i \in 1 .. n + 1 - i /\ i + (k - i) - 1 = k - 1 /\ ~(k <= i) /\ ~(k < i) /\ k # i
        BY <1>0, <2>4
      <3> QED BY <1>2, <2>1, <3>1
    <2> QED BY <1>0, <2>2, <2>3, <2>4
  <1> QED BY <1>3, <1>7, <1>8, <1>9 DEF Inserted, n

\* The place is one of the list or behind it.
LEMMA PlaceIsThere ==
  ASSUME NEW list \in Seq(VirtArray), NEW call
  PROVE  PlaceFor(list, call) \in 1 .. Len(list) + 1
  <1> DEFINE T == {v \in DOMAIN list : list[v].call.kind = "s"}
  <1>1. Len(list) \in Nat /\ DOMAIN list = 1 .. Len(list) /\ T \in SUBSET (1 .. Len(list))
    OBVIOUS
  <1>2. IsFiniteSet(1 .. Len(list)) /\ Cardinality(1 .. Len(list)) = Len(list)
    BY <1>1, FS_Interval
  <1>3. Cardinality(T) \in Nat /\ Cardinality(T) <= Len(list)
    BY <1>1, <1>2, FS_Subset, FS_CardinalityType
  <1> HIDE DEF T
  <1>4. 1 \in 1 .. Len(list) + 1 /\ 1 + Cardinality(T) \in 1 .. Len(list) + 1
    BY <1>1, <1>3
  <1> QED BY <1>4 DEF PlaceFor, T

\* The arrays with a file make room as well.
OpenOf(list) == {v \in DOMAIN list : list[v].b_s_open}
LEMMA OpenMakeRoom ==
  ASSUME NEW s \in Seq(VirtArray), NEW e \in VirtArray, ~e.b_s_open, NEW i \in 1 .. Len(s) + 1,
         NEW t \in Seq(VirtArray), Inserted(s, i, e, t)
  PROVE  Cardinality(OpenOf(t)) = Cardinality(OpenOf(s))
  <1> DEFINE n == Len(s)
             to == [v \in OpenOf(s) |-> IF v < i THEN v ELSE v + 1]
  <1>1. n \in Nat /\ DOMAIN s = 1 .. n /\ Len(t) = n + 1 /\ DOMAIN t = 1 .. n + 1 /\ i \in 1 .. n + 1
    BY DEF Inserted
  <1>2. \A k \in 1 .. n + 1 : t[k] = IF k < i THEN s[k] ELSE IF k = i THEN e ELSE s[k - 1]
    BY DEF Inserted
  <1> HIDE DEF n
  <1>3. OpenOf(s) \in SUBSET (1 .. n) /\ OpenOf(t) \in SUBSET (1 .. n + 1)
    BY <1>1 DEF OpenOf
  <1>4. IsFiniteSet(OpenOf(s))
    <2>1. IsFiniteSet(1 .. n)
      BY <1>1, FS_Interval
    <2> QED BY <1>3, <2>1, FS_Subset
  <1>5. ASSUME NEW v \in OpenOf(s) PROVE to[v] \in OpenOf(t)
    <2>1. CASE v < i
      <3>1. v \in 1 .. n + 1 /\ t[v] = s[v] /\ to[v] = v
        BY <1>1, <1>2, <1>3, <2>1
      <3> QED BY <1>1, <3>1 DEF OpenOf
    <2>2. CASE ~(v < i)
      <3>1. v \in 1 .. n /\ v + 1 \in 1 .. n + 1 /\ ~(v + 1 < i) /\ v + 1 # i /\ (v + 1) - 1 = v
        BY <1>1, <1>3, <2>2
      <3>2. t[v + 1] = s[v]
        BY <1>2, <3>1
      <3>3. to[v] = v + 1
        BY <2>2
      <3> QED BY <1>1, <3>1, <3>2, <3>3 DEF OpenOf
    <2> QED BY <2>1, <2>2
  <1>6. ASSUME NEW v \in OpenOf(s), NEW u \in OpenOf(s), to[v] = to[u] PROVE v = u
    BY <1>1, <1>3, <1>6
  <1>7. ASSUME NEW k \in OpenOf(t) PROVE \E v \in OpenOf(s) : to[v] = k
    <2>1. k \in 1 .. n + 1 /\ t[k].b_s_open
      BY <1>3 DEF OpenOf
    <2>2. k # i
      <3>1. ~(i < i)
        BY <1>1
      <3> QED BY <1>2, <2>1, <3>1
    <2>3. CASE k < i
      <3>1. k \in 1 .. n /\ t[k] = s[k]
        BY <1>1, <1>2, <2>1, <2>3
      <3>2. k \in OpenOf(s)
        BY <1>1, <2>1, <3>1 DEF OpenOf
      <3> QED BY <2>3, <3>2
    <2>4. CASE ~(k < i)
      <3>1. k - 1 \in 1 .. n /\ ~(k - 1 < i) /\ (k - 1) + 1 = k
        BY <1>1, <2>1, <2>2, <2>4
      <3>2. t[k] = s[k - 1]
        BY <1>2, <2>1, <2>2, <2>4
      <3>3. k - 1 \in OpenOf(s)
        BY <1>1, <2>1, <3>1, <3>2 DEF OpenOf
      <3>4. to[k - 1] = k
        BY <3>1, <3>3
      <3> QED BY <3>3, <3>4
    <2> QED BY <2>3, <2>4
  <1>8. ExistsBijection(OpenOf(s), OpenOf(t))
    <2>1. to \in [OpenOf(s) -> OpenOf(t)]
      BY <1>5
    <2> HIDE DEF to
    <2>2. to \in Bijection(OpenOf(s), OpenOf(t))
      BY <1>6, <1>7, <2>1 DEF Bijection, Injection, Surjection, IsInjective
    <2> QED BY <2>2 DEF ExistsBijection
  <1> QED BY <1>4, <1>8, FS_Bijection

\* What is put into the list of virtual arrays.
ListReplaced(g, d, list, files) ==
  /\ d \in Manager /\ Core(d) /\ d.virt_list = list /\ d.files = files
  /\ d.error = g.error /\ d.arrays = g.arrays /\ d.objects = g.objects
LEMMA ListReplacedOK ==
  ASSUME NEW g, Core(g), NEW list \in Seq(VirtArray), NEW files \in Int
  PROVE  ListReplaced(g, [g EXCEPT !.virt_list = list, !.files = files], list, files)
  <1> DEFINE d == [g EXCEPT !.virt_list = list, !.files = files]
  <1>1. g \in Manager
    BY DEF Core
  <1>2. /\ d.heap = g.heap /\ d.error = g.error /\ d.virt_list = list /\ d.files = files
        /\ d.total_space_allocated = g.total_space_allocated
        /\ d.small_list = g.small_list /\ d.large_list = g.large_list
        /\ d.objects = g.objects /\ d.arrays = g.arrays
    BY <1>1 DEF Manager
  <1>3. d \in Manager
    BY <1>1 DEF Manager
  <1> HIDE DEF d
  <1>4. Core(d)
    BY <1>2, <1>3, CoreOfTheSame
  <1> QED BY <1>2, <1>3, <1>4 DEF ListReplaced, d

\* request_virt_sarray and request_virt_barray
LEMMA RequestOK ==
  ASSUME NEW m, Sound(m), m.error = "none", NEW call \in ArrayCalls
  PROVE  Sound(RequestVirtArray(m, call)) /\ RequestVirtArray(m, call).error # "destroyed"
  <1> DEFINE g == AllocSmall(m, IMAGE, ControlBytes)
             d == RequestVirtArray(m, call)
             ptr == [call |-> call, realized |-> FALSE, rows_in_mem |-> 0, b_s_open |-> FALSE,
                     buffer |-> 0]
             place == PlaceFor(m.virt_list, call)
             list == InsertAt(m.virt_list, place, ptr)
  <1>1. Allocates(m, g)
    <2>1. IMAGE \in Lifetimes
      BY DEF Lifetimes
    <2> QED BY <2>1, AllocSmallOK, ConstantsAreSizes DEF Sound
  <1> HIDE DEF g
  <1>2. Sound(g) /\ g.error # "destroyed"
    BY <1>1, AllocationOK
  <1>3. g.virt_list = m.virt_list /\ m.virt_list \in Seq(VirtArray) /\ g \in Manager
    BY <1>1, CoreTypes DEF Allocates, Grows, Sound, Core, Manager
  <1>4. d = IF g.error # "none" THEN g ELSE [g EXCEPT !.virt_list = InsertAt(@, place, ptr)]
    BY Zenon DEF RequestVirtArray, g
  <1>5. ptr \in VirtArray /\ ~ptr.b_s_open /\ ~ptr.realized
    BY DEF VirtArray
  <1>6. place \in 1 .. Len(m.virt_list) + 1
    BY <1>3, PlaceIsThere
  <1> HIDE DEF d, ptr, place
  <1>7. CASE g.error # "none"
    BY <1>2, <1>4, <1>7 DEF d
  <1>8. CASE g.error = "none"
    <2>1. list \in Seq(VirtArray) /\ Inserted(m.virt_list, place, ptr, list)
      BY <1>3, <1>5, <1>6, InsertedAt
    <2>2. d = [g EXCEPT !.virt_list = list]
      BY <1>3, <1>4, <1>8
    <2> HIDE DEF list
    <2>3. g.files \in Int /\ d = [g EXCEPT !.virt_list = list, !.files = g.files]
      BY <1>3, <2>2 DEF Manager
    <2>4. ListReplaced(g, d, list, g.files)
      BY <1>2, <2>1, <2>3, ListReplacedOK DEF Sound
    <2>5. ArraysOK(d)
      <3>1. ObjectsGrow(g, d) /\ d.arrays = g.arrays
        BY <2>4 DEF ListReplaced, ObjectsGrow
      <3> QED BY <1>2, <1>8, <3>1, ArraysStayOK DEF Sound
    <2>6. SharesOK(d)
      <3> SUFFICES ASSUME NEW k \in DOMAIN list PROVE ShareOK(d, list[k])
        BY <2>4 DEF SharesOK, ListReplaced
      <3>1. list[k] = ptr \/ \E v \in DOMAIN m.virt_list : list[k] = m.virt_list[v]
        <4>1. /\ Len(m.virt_list) \in Nat /\ DOMAIN m.virt_list = 1 .. Len(m.virt_list)
              /\ k \in 1 .. Len(m.virt_list) + 1 /\ place \in 1 .. Len(m.virt_list) + 1
          BY <1>3, <1>6, <2>1 DEF Inserted
        <4>2. list[k] = IF k < place THEN m.virt_list[k]
                        ELSE IF k = place THEN ptr ELSE m.virt_list[k - 1]
          BY <2>1, <4>1 DEF Inserted
        <4>3. CASE k < place
          BY <4>1, <4>2, <4>3
        <4>4. CASE k = place
          BY <4>1, <4>2, <4>4
        <4>5. CASE k > place
          <5>1. k - 1 \in DOMAIN m.virt_list /\ ~(k < place) /\ k # place
            BY <4>1, <4>5
          <5> QED BY <4>2, <5>1
        <4> QED BY <4>1, <4>3, <4>4, <4>5
      <3>2. CASE list[k] = ptr
        BY <1>5, <3>2 DEF ShareOK
      <3>3. CASE \E v \in DOMAIN m.virt_list : list[k] = m.virt_list[v]
        <4>1. ShareOK(g, list[k])
          BY <1>2, <1>3, <1>8, <3>3 DEF Sound, SharesOK
        <4> QED BY <2>4, <4>1 DEF ShareOK, ListReplaced
      <3> QED BY <3>1, <3>2, <3>3
    <2>7. FilesOK(d)
      <3>1. OpenStores(d) = OpenOf(list) /\ OpenStores(g) = OpenOf(m.virt_list) /\ d.files = g.files
        BY <1>3, <2>4 DEF OpenStores, OpenOf, ListReplaced
      <3>2. Cardinality(OpenOf(list)) = Cardinality(OpenOf(m.virt_list))
        BY <1>3, <1>5, <1>6, <2>1, OpenMakeRoom
      <3>3. g.files = Cardinality(OpenStores(g))
        BY <1>2 DEF Sound, FilesOK
      <3> QED BY <3>1, <3>2, <3>3 DEF FilesOK
    <2> QED BY <1>2, <2>4, <2>5, <2>6, <2>7 DEF Sound, ListReplaced, NoneIsPermanent, d
  <1> QED BY <1>7, <1>8

\* A virtual array whose file could be opened, if it needs one.
Started(m, d, i, open) ==
  /\ d \in Manager /\ Core(d) /\ ArraysOK(d) /\ d.error = "none" /\ FilesOK(d)
  /\ d.arrays = m.arrays /\ d.virt_list \in Seq(VirtArray)
  /\ Len(d.virt_list) = Len(m.virt_list) /\ i \in DOMAIN d.virt_list
  /\ d.virt_list[i].call = m.virt_list[i].call /\ d.virt_list[i].b_s_open = open
  /\ \A v \in DOMAIN m.virt_list : v # i => d.virt_list[v] = m.virt_list[v]
LEMMA StartedOK ==
  ASSUME NEW m, Sound(m), m.error = "none", NEW i \in DOMAIN m.virt_list,
         ~m.virt_list[i].realized
  PROVE  /\ Started(m, m, i, FALSE)
         /\ Started(m, [m EXCEPT !.files = @ + 1, !.virt_list[i].b_s_open = TRUE], i, TRUE)
  <1> DEFINE ptr == m.virt_list[i]
             opened == [ptr EXCEPT !.b_s_open = TRUE]
             list == [m.virt_list EXCEPT ![i] = opened]
             d == [m EXCEPT !.files = @ + 1, !.virt_list[i].b_s_open = TRUE]
  <1>1. /\ m \in Manager /\ Core(m) /\ ArraysOK(m) /\ FilesOK(m) /\ m.virt_list \in Seq(VirtArray)
        /\ m.files \in Int
    BY DEF Sound, Core, Manager
  <1>2. ptr \in VirtArray /\ ~ptr.b_s_open
    <2>1. ShareOK(m, ptr)
      BY DEF Sound, SharesOK
    <2> QED BY <1>1, <2>1 DEF ShareOK
  <1>3. Started(m, m, i, FALSE)
    <2>1. ptr.b_s_open = FALSE
      BY <1>2 DEF VirtArray
    <2> QED BY <1>1, <2>1 DEF Started
  <1>4. opened \in VirtArray /\ opened.b_s_open = TRUE /\ opened.call = ptr.call
    BY <1>2 DEF VirtArray
  <1>5. d = [m EXCEPT !.virt_list = list, !.files = m.files + 1]
    BY <1>1 DEF Manager
  <1> HIDE DEF opened
  <1>6. /\ list \in Seq(VirtArray) /\ Len(list) = Len(m.virt_list)
        /\ DOMAIN list = DOMAIN m.virt_list /\ list[i] = opened
        /\ \A v \in DOMAIN m.virt_list : v # i => list[v] = m.virt_list[v]
    BY <1>1, <1>4
  <1> HIDE DEF list, d
  <1>7. ListReplaced(m, d, list, m.files + 1)
    <2>1. m.files + 1 \in Int
      BY <1>1
    <2> QED BY <1>1, <1>5, <1>6, <2>1, ListReplacedOK
  <1>8. ArraysOK(d)
    <2>1. d.arrays = m.arrays /\ ObjectsGrow(m, d)
      BY <1>7 DEF ListReplaced, ObjectsGrow
    <2> QED BY <1>1, <2>1, ArraysStayOK
  <1>9. FilesOK(d)
    <2>1. OpenStores(m) = OpenOf(m.virt_list) /\ OpenStores(d) = OpenOf(list)
      BY <1>7 DEF OpenStores, OpenOf, ListReplaced
    <2>2. OpenOf(list) = OpenOf(m.virt_list) \cup {i} /\ i \notin OpenOf(m.virt_list)
      BY <1>2, <1>4, <1>6 DEF OpenOf, ptr
    <2>3. IsFiniteSet(OpenOf(m.virt_list))
      <3>1. Len(m.virt_list) \in Nat /\ OpenOf(m.virt_list) \in SUBSET (1 .. Len(m.virt_list))
        BY <1>1 DEF OpenOf
      <3>2. IsFiniteSet(1 .. Len(m.virt_list))
        BY <3>1, FS_Interval
      <3> QED BY <3>1, <3>2, FS_Subset
    <2>4. Cardinality(OpenOf(list)) = Cardinality(OpenOf(m.virt_list)) + 1
      BY <2>2, <2>3, FS_AddElement
    <2> QED BY <1>1, <1>7, <2>1, <2>4 DEF FilesOK, ListReplaced
  <1>10. Started(m, d, i, TRUE)
    BY <1>4, <1>6, <1>7, <1>8, <1>9 DEF Started, ListReplaced, ptr
  <1> QED BY <1>3, <1>10 DEF d

\* The share of a virtual array: all of it, or what a file completes.
ShareFits(call, rows, open) ==
  /\ open <=> rows < call.rows
  /\ rows >= Min({call.maxaccess, call.rows})
Realized(done, i, rows) ==
  [done EXCEPT !.virt_list[i] = [@ EXCEPT !.realized = TRUE, !.rows_in_mem = rows,
                                          !.buffer = Len(done.arrays[IMAGE])]]
LEMMA RealizedOK ==
  ASSUME NEW m, Sound(m), m.error = "none", NEW i \in DOMAIN m.virt_list,
         NEW open \in BOOLEAN, NEW rows \in Nat \ {0},
         ShareFits(m.virt_list[i].call, rows, open),
         NEW g, Started(m, g, i, open),
         NEW done, done.error = "none", Core(done), done.virt_list = g.virt_list,
         done.files = g.files, ArraysOK(done), OldArraysStay(g, done),
         LastArrayHas(done, IMAGE, rows), NoneIsPermanent(done)
  PROVE  LET d == Realized(done, i, rows)
         IN  Sound(d) /\ d.error = "none" /\ Len(d.virt_list) = Len(m.virt_list)
  <1> DEFINE last == Len(done.arrays[IMAGE])
             ptr == g.virt_list[i]
             new == [ptr EXCEPT !.realized = TRUE, !.rows_in_mem = rows, !.buffer = last]
             list == [g.virt_list EXCEPT ![i] = new]
             d == Realized(done, i, rows)
  <1>1. /\ g.virt_list \in Seq(VirtArray) /\ Len(g.virt_list) = Len(m.virt_list)
        /\ i \in DOMAIN g.virt_list /\ ptr.call = m.virt_list[i].call /\ ptr.b_s_open = open
        /\ FilesOK(g) /\ g.arrays = m.arrays /\ m.virt_list \in Seq(VirtArray)
        /\ \A v \in DOMAIN m.virt_list : v # i => g.virt_list[v] = m.virt_list[v]
    BY CoreTypes DEF Started, Sound, Core, Manager
  <1>2. done \in Manager /\ done.files \in Int /\ last \in Nat
        /\ done.virt_list = g.virt_list /\ done.arrays \in [Lifetimes -> Seq(RowArray)]
    BY DEF Core, Manager, LastArrayHas
  <1>3. ptr \in VirtArray
    BY <1>1
  <1> HIDE DEF last
  <1>4. /\ new \in VirtArray /\ new.call = ptr.call /\ new.b_s_open = ptr.b_s_open
        /\ new.realized = TRUE /\ new.rows_in_mem = rows /\ new.buffer = last
    BY <1>2, <1>3 DEF VirtArray
  <1>5. d = [done EXCEPT !.virt_list = list, !.files = done.files]
    <2>1. d = [done EXCEPT !.virt_list[i] = [@ EXCEPT !.realized = TRUE, !.rows_in_mem = rows,
                                                      !.buffer = last]]
      BY Zenon DEF Realized, last
    <2>2. d = [done EXCEPT !.virt_list =
                 [done.virt_list EXCEPT ![i] = [@ EXCEPT !.realized = TRUE, !.rows_in_mem = rows,
                                                         !.buffer = last]]]
      <3> HIDE DEF d
      <3> QED BY <1>2, <2>1, Zenon DEF Manager
    <2>3. [done.virt_list EXCEPT ![i] = [@ EXCEPT !.realized = TRUE, !.rows_in_mem = rows,
                                                  !.buffer = last]] = list
      BY <1>1, <1>2, Zenon
    <2>4. d = [done EXCEPT !.virt_list = list]
      BY <2>2, <2>3
    <2> HIDE DEF list, d
    <2> QED BY <1>2, <2>4 DEF Manager
  <1> HIDE DEF ptr, new, d
  <1>6. /\ list \in Seq(VirtArray) /\ Len(list) = Len(m.virt_list)
        /\ DOMAIN list = DOMAIN g.virt_list /\ DOMAIN list = DOMAIN m.virt_list /\ list[i] = new
        /\ \A v \in DOMAIN m.virt_list : v # i => list[v] = m.virt_list[v]
        /\ \A v \in DOMAIN m.virt_list : list[v].b_s_open = g.virt_list[v].b_s_open
    <2>1. /\ list \in Seq(VirtArray) /\ Len(list) = Len(g.virt_list)
          /\ DOMAIN list = DOMAIN g.virt_list /\ list[i] = new
          /\ \A v \in DOMAIN g.virt_list : v # i => list[v] = g.virt_list[v]
      BY <1>1, <1>4
    <2>2. DOMAIN list = DOMAIN m.virt_list
      BY <1>1, <2>1
    <2> HIDE DEF list
    <2> QED BY <1>1, <1>4, <2>1, <2>2 DEF ptr
  <1> HIDE DEF list
  <1>7. ListReplaced(done, d, list, done.files)
    BY <1>2, <1>5, <1>6, ListReplacedOK
  <1>8. ArraysOK(d)
    <2>1. d.arrays = done.arrays /\ ObjectsGrow(done, d)
      BY <1>7 DEF ListReplaced, ObjectsGrow
    <2> QED BY <2>1, ArraysStayOK
  <1>9. FilesOK(d)
    <2>1. OpenStores(d) = OpenStores(g)
      BY <1>6, <1>7 DEF OpenStores, ListReplaced
    <2> QED BY <1>1, <1>7, <2>1 DEF FilesOK, ListReplaced
  <1>10. SharesOK(d)
    <2> SUFFICES ASSUME NEW v \in DOMAIN m.virt_list PROVE ShareOK(d, list[v])
      BY <1>6, <1>7 DEF SharesOK, ListReplaced
    <2>1. CASE v = i
      <3>1. /\ last \in DOMAIN d.arrays[IMAGE] /\ Len(d.arrays[IMAGE][last].rows) = rows
        BY <1>7 DEF LastArrayHas, ListReplaced, last
      <3>2. /\ new.b_s_open <=> new.rows_in_mem < new.call.rows
            /\ new.rows_in_mem >= Min({new.call.maxaccess, new.call.rows})
        BY <1>1, <1>4 DEF ShareFits
      <3> QED BY <1>4, <1>6, <2>1, <3>1, <3>2 DEF ShareOK
    <2>2. CASE v # i
      <3>1. ShareOK(m, list[v])
        BY <1>6, <2>2 DEF Sound, SharesOK
      <3>2. OldArraysStay(m, d)
        BY <1>1, <1>7 DEF OldArraysStay, ListReplaced
      <3> QED BY <3>1, <3>2, SharesStayOK
    <2> QED BY <2>1, <2>2
  <1> QED BY <1>6, <1>7, <1>8, <1>9, <1>10 DEF Sound, ListReplaced, NoneIsPermanent, d

\* One virtual array gets its memory, or the call fails and loses nothing.
OneMoreShare(m, d) ==
  /\ Sound(d) /\ (d.error = "none" \/ Failing(m, d))
  /\ Len(d.virt_list) = Len(m.virt_list)
LEMMA BufferedOK ==
  ASSUME NEW m, Sound(m), m.error = "none", NEW i \in DOMAIN m.virt_list,
         ~m.virt_list[i].realized, NEW open \in BOOLEAN, NEW rows \in Nat \ {0},
         ShareFits(m.virt_list[i].call, rows, open)
  PROVE  OneMoreShare(m, Buffered(m, i, rows, open))
  <1> DEFINE call == m.virt_list[i].call
             g == IF ~open THEN m
                  ELSE IF m.files = system.files THEN Failed(m, "JERR_TFILE_CREATE")
                  ELSE [m EXCEPT !.files = @ + 1, !.virt_list[i].b_s_open = TRUE]
             done == AllocArray(g, IMAGE, call, rows)
             d == Buffered(m, i, rows, open)
  <1>1. d = IF done.error # "none" THEN done ELSE Realized(done, i, rows)
    BY Zenon DEF Buffered, Realized
  <1>2. call \in ArrayCalls /\ IMAGE \in Lifetimes
    <2>1. m.virt_list \in Seq(VirtArray)
      BY DEF Sound, Core, Manager
    <2>2. m.virt_list[i] \in VirtArray
      BY <2>1
    <2> QED BY <2>2 DEF VirtArray, Lifetimes
  <1>3. CASE open /\ m.files = system.files
    <2>1. g = Failed(m, "JERR_TFILE_CREATE")
      BY <1>3
    <2>2. "JERR_TFILE_CREATE" \in Errors
      BY DEF Errors
    <2> HIDE DEF g, call
    <2>3. Core(g) /\ g.error = "JERR_TFILE_CREATE" /\ Grows(m, g)
      BY <2>1, <2>2, FailedOK DEF Sound
    <2>4. done = g
      BY <2>3 DEF AllocArray
    <2> HIDE DEF done, d
    <2>5. d = g
      BY <1>1, <2>3, <2>4
    <2>6. FilesOK(g)
      BY <2>3 DEF FilesOK, OpenStores, Grows, Sound
    <2>7. g.virt_list = m.virt_list /\ NoneIsPermanent(g)
      BY <2>3 DEF Grows, NoneIsPermanent, Sound
    <2> QED BY <2>3, <2>5, <2>6, <2>7 DEF OneMoreShare, Sound, Failing, d
  <1>4. CASE ~(open /\ m.files = system.files)
    <2>1. Started(m, g, i, open)
      <3>1. CASE ~open
        <4>1. g = m /\ open = FALSE
          BY <3>1
        <4> QED BY <4>1, StartedOK
      <3>2. CASE open
        <4>1. g = [m EXCEPT !.files = @ + 1, !.virt_list[i].b_s_open = TRUE] /\ open = TRUE
          BY <1>4, <3>2
        <4> HIDE DEF g
        <4> QED BY <4>1, StartedOK
      <3> QED BY <3>1, <3>2
    <2> HIDE DEF g, call
    <2>2. Core(g) /\ ArraysOK(g) /\ g.error = "none" /\ FilesOK(g)
          /\ Len(g.virt_list) = Len(m.virt_list)
      BY <2>1 DEF Started
    <2>3. GetsAnArray(g, done, IMAGE, call, rows)
      BY <1>2, <2>2, AllocArrayOK
    <2> HIDE DEF done, d
    <2>4. Core(done) /\ done.virt_list = g.virt_list /\ done.files = g.files
          /\ NoneIsPermanent(done)
      <3>1. PERMANENT \in Lifetimes /\ PERMANENT # IMAGE
        BY DEF Lifetimes, PERMANENT, IMAGE
      <3>2. g.arrays = m.arrays
        BY <2>1 DEF Started
      <3> QED BY <2>3, <3>1, <3>2 DEF GetsAnArray, NoneIsPermanent, Sound
    <2>5. CASE Failing(g, done)
      <3>1. done.error # "none" /\ done.error # "destroyed"
        BY <2>5 DEF Failing
      <3>2. FilesOK(done)
        BY <2>2, <2>4 DEF FilesOK, OpenStores
      <3>3. d = done
        BY <1>1, <3>1
      <3> QED BY <2>2, <2>4, <2>5, <3>1, <3>2, <3>3 DEF OneMoreShare, Sound, Failing, d
    <2>6. CASE ~Failing(g, done)
      <3>1. done.error = "none" /\ \E per \in Nat : AddsArray(g, done, IMAGE, RowBytes(call), per, rows)
        BY <2>3, <2>6 DEF GetsAnArray
      <3>2. ArraysOK(done) /\ OldArraysStay(g, done) /\ LastArrayHas(done, IMAGE, rows)
        BY <1>2, <2>2, <3>1, MoreArraysOK
      <3>3. d = Realized(done, i, rows)
        BY <1>1, <3>1
      <3>4. Sound(d) /\ d.error = "none" /\ Len(d.virt_list) = Len(m.virt_list)
        BY <2>1, <2>4, <3>1, <3>2, <3>3, RealizedOK
      <3> QED BY <3>4 DEF OneMoreShare, d
    <2> QED BY <2>5, <2>6
  <1> QED BY <1>3, <1>4

\* What is read and written at once has room.
LEMMA ShareIsEnough ==
  ASSUME NEW call \in ArrayCalls, NEW max \in Nat \ {0}
  PROVE  /\ call.rows \in Nat \ {0} /\ ShareFits(call, call.rows, FALSE)
         /\ ~(Minheights(call) <= max) =>
              max * call.maxaccess \in Nat \ {0} /\ ShareFits(call, max * call.maxaccess, TRUE)
  <1> DEFINE r == call.rows
             a == call.maxaccess
             least == Min({a, r})
             share == max * a
  <1>1. r \in Nat \ {0} /\ a \in Nat \ {0}
    BY CallsAreSizes
  <1>2. least <= r /\ least <= a /\ least \in Nat
    <2> HIDE DEF a, r
    <2>1. least = IF a <= r THEN a ELSE r
      BY <1>1, MinOfTwo
    <2> QED BY <1>1, <2>1
  <1> HIDE DEF least
  <1>3. ShareFits(call, r, FALSE)
    <2>1. ~(r < r) /\ r >= least
      BY <1>1, <1>2
    <2> QED BY <2>1 DEF ShareFits, least
  <1>4. ASSUME ~(Minheights(call) <= max)
        PROVE  share \in Nat \ {0} /\ ShareFits(call, share, TRUE)
    <2> HIDE DEF a, r
    <2> DEFINE n == (r - 1) \div a
    <2>1. /\ n \in Nat /\ (r - 1) % a \in 0 .. a - 1 /\ r - 1 = a * n + ((r - 1) % a)
      <3>1. r - 1 \in Nat
        BY <1>1
      <3> QED BY <1>1, <3>1, DivMod
    <2>2. max <= n
      <3>1. ~(n + 1 <= max)
        BY <1>4 DEF Minheights, a, r
      <3> HIDE DEF n
      <3> QED BY <2>1, <3>1
    <2> HIDE DEF n
    <2>3. share <= a * n
      <3>1. n * a = a * n
        BY <1>1, <2>1
      <3>2. CASE max = n
        <4>1. max * a = n * a
          BY <3>2
        <4>2. n * a \in Nat
          BY <1>1, <2>1, Products
        <4> QED BY <3>1, <4>1, <4>2
      <3>3. CASE max < n
        <4>1. max * a + a <= n * a /\ max * a \in Nat /\ n * a \in Nat
          BY <1>1, <2>1, <3>3, RowsBehind
        <4> HIDE DEF share
        <4>2. share = max * a
          BY DEF share
        <4> QED BY <1>1, <3>1, <4>1, <4>2
      <3> QED BY <2>1, <2>2, <3>2, <3>3
    <2>4. share >= a /\ share \in Nat
      <3>1. 0 * a = 0 /\ 0 \in Nat /\ 0 < max
        BY <1>1
      <3>2. 0 * a + a <= max * a /\ max * a \in Nat
        BY <1>1, <3>1, RowsBehind
      <3> HIDE DEF share
      <3>3. share = max * a
        BY DEF share
      <3> QED BY <1>1, <3>1, <3>2, <3>3
    <2>5. a * n \in Nat
      BY <1>1, <2>1, Products
    <2> HIDE DEF share
    <2>6. share < r /\ share >= least /\ share \in Nat \ {0}
      BY <1>1, <1>2, <2>1, <2>3, <2>4, <2>5
    <2> QED BY <2>6 DEF ShareFits, least, a, r
  <1> QED BY <1>1, <1>3, <1>4

\* What the arrays need at least.
LEMMA SpaceIsANumber ==
  ASSUME NEW m, Core(m)
  PROVE  SpacePerMinheight(m) \in Int
  <1> DEFINE list == m.virt_list
             space(v) == IF list[v].realized THEN 0
                         ELSE [u \in DOMAIN list |-> list[u].call.maxaccess][v] * RowBytes(list[v].call)
             h == [v \in DOMAIN list |-> space(v)]
             s == SpacePerMinheight(m)
  <1>1. list \in Seq(VirtArray)
    BY DEF Core, Manager
  <1>2. ASSUME NEW v \in DOMAIN list PROVE space(v) \in Int
    <2>1. list[v] \in VirtArray
      BY <1>1
    <2>2. list[v].call \in ArrayCalls
      BY <2>1 DEF VirtArray
    <2> DEFINE x == list[v].call.maxaccess
               y == RowBytes(list[v].call)
    <2>3. x \in Nat /\ y \in Nat
      BY <2>2, CallsAreSizes
    <2>4. space(v) = IF list[v].realized THEN 0 ELSE x * y
      OBVIOUS
    <2> HIDE DEF space, x, y
    <2>5. x * y \in Nat
      BY <2>3, Products
    <2> QED BY <2>4, <2>5
  <1>3. s = SumOver(h, DOMAIN h)
    BY Zenon DEF SpacePerMinheight, SpaceFor, SumFunction, SumOver
  <1>4. Numbers(h, DOMAIN h)
    <2>1. IsFiniteSet(DOMAIN list)
      <3>1. Len(list) \in Nat /\ DOMAIN list = 1 .. Len(list)
        BY <1>1
      <3> QED BY <3>1, FS_Interval
    <2>2. \A v \in DOMAIN list : space(v) \in Int
      BY <1>2
    <2> HIDE DEF space
    <2> QED BY <2>1, <2>2 DEF Numbers
  <1> HIDE DEF h
  <1>5. s \in Int
    BY <1>3, <1>4, SumsAreNumbers
  <1> QED BY <1>5

\* How many times the rows accessed at once every array may have: at least once.
LEMMA MaxMinheightsOK ==
  ASSUME NEW m, Core(m), SpacePerMinheight(m) > 0
  PROVE  MaxMinheights(m) \in Nat \ {0}
  <1> DEFINE s == SpacePerMinheight(m)
             a == AvailMem(m)
  <1>1. m.total_space_allocated \in Int
    BY DEF Core, Manager
  <1>5. s \in Int
    BY SpaceIsANumber
  <1>6. a \in Int
    BY <1>1, ConstantsAreSizes DEF AvailMem
  <1> HIDE DEF s, a
  <1>7. s > 0
    BY DEF s
  <1>8. ASSUME ~(a < s) PROVE a \div s \in Nat \ {0}
    <2>1. a \in Nat /\ s \in Nat \ {0} /\ s <= a
      BY <1>5, <1>6, <1>7, <1>8
    <2>2. /\ a \div s \in Nat /\ a % s \in 0 .. s - 1 /\ a = s * (a \div s) + (a % s)
      BY <2>1, DivMod
    <2>3. ASSUME a \div s = 0 PROVE FALSE
      <3>1. s * (a \div s) = 0
        BY <2>1, <2>3
      <3> DEFINE z == s * (a \div s)
                 y == a % s
      <3>2. a = z + y /\ z = 0 /\ y \in 0 .. s - 1
        BY <2>2, <3>1
      <3> HIDE DEF z, y
      <3> QED BY <2>1, <3>2
    <2> QED BY <2>2, <2>3
  <1>9. MaxMinheights(m) = IF a >= MaximumSpace(m) THEN 1000000000
                           ELSE IF a < s THEN 1 ELSE a \div s
    BY DEF MaxMinheights, a, s
  <1>10. 1000000000 \in Nat \ {0} /\ 1 \in Nat \ {0}
    OBVIOUS
  <1> QED BY <1>8, <1>9, <1>10

LEMMA RealizedOneOK ==
  ASSUME NEW m, Sound(m), m.error = "none" \/ Failing(m, m), NEW i \in DOMAIN m.virt_list,
         NEW max \in Nat \ {0}
  PROVE  OneMoreShare(m, RealizedOne(m, i, max))
  <1> DEFINE call == m.virt_list[i].call
  <1>1. CASE m.error # "none" \/ m.virt_list[i].realized
    <2>1. RealizedOne(m, i, max) = m
      BY <1>1 DEF RealizedOne
    <2> QED BY <2>1 DEF OneMoreShare, Failing
  <1>2. CASE m.error = "none" /\ ~m.virt_list[i].realized
    <2>1. call \in ArrayCalls
      <3>1. m.virt_list \in Seq(VirtArray)
        BY DEF Sound, Core, Manager
      <3>2. m.virt_list[i] \in VirtArray
        BY <3>1
      <3> QED BY <3>2 DEF VirtArray
    <2>2. CASE Minheights(call) <= max
      <3>1. RealizedOne(m, i, max) = Buffered(m, i, call.rows, FALSE)
        BY <1>2, <2>2 DEF RealizedOne
      <3>2. call.rows \in Nat \ {0} /\ ShareFits(call, call.rows, FALSE)
        BY <2>1, ShareIsEnough
      <3> QED BY <1>2, <3>1, <3>2, BufferedOK
    <2>3. CASE ~(Minheights(call) <= max)
      <3>1. RealizedOne(m, i, max) = Buffered(m, i, max * call.maxaccess, TRUE)
        BY <1>2, <2>3 DEF RealizedOne
      <3> DEFINE rows == max * call.maxaccess
      <3>2. rows \in Nat \ {0} /\ ShareFits(call, rows, TRUE)
        BY <2>1, <2>3, ShareIsEnough
      <3> HIDE DEF rows
      <3>3. OneMoreShare(m, Buffered(m, i, rows, TRUE))
        BY <1>2, <3>2, BufferedOK
      <3> QED BY <3>1, <3>3 DEF rows
    <2> QED BY <2>2, <2>3
  <1> QED BY <1>1, <1>2

\* realize_virt_arrays
LEMMA RealizeOK ==
  ASSUME NEW m, Sound(m), m.error = "none"
  PROVE  Sound(RealizeVirtArrays(m)) /\ RealizeVirtArrays(m).error # "destroyed"
  <1>1. CASE SpacePerMinheight(m) <= 0
    <2>1. RealizeVirtArrays(m) = m
      BY <1>1 DEF RealizeVirtArrays
    <2> QED BY <2>1
  <1>2. CASE ~(SpacePerMinheight(m) <= 0)
    <2> DEFINE n == Len(m.virt_list)
               max == MaxMinheights(m)
               loop == [of |-> "arrays", max_minheights |-> max]
               f == CHOOSE f : Runs(loop, m, n, f)
               S == {i \in 0 .. n : ~OneMoreShare(m, f[i])}
    <2>1. n \in Nat /\ m.virt_list \in Seq(VirtArray) /\ Core(m)
      BY DEF Sound, Core, Manager
    <2>2. max \in Nat \ {0}
      <3>1. SpacePerMinheight(m) > 0
        BY <1>2, <2>1, SpaceIsANumber
      <3> QED BY <2>1, <3>1, MaxMinheightsOK
    <2>3. \A g, i : TurnOf(loop, g, i) = RealizedOne(g, i, max)
      BY DEF TurnOf
    <2>4. RealizeVirtArrays(m) = f[n]
      <3>1. \A h : Runs(loop, m, n, h) <=>
                   h = [i \in 0 .. n |-> IF i = 0 THEN m ELSE RealizedOne(h[i - 1], i, max)]
        BY <2>3, Zenon DEF Runs
      <3>2. f = CHOOSE h : h = [i \in 0 .. n |->
                                  IF i = 0 THEN m ELSE RealizedOne(h[i - 1], i, max)]
        BY <3>1, Zenon
      <3> HIDE DEF f
      <3> QED BY <1>2, <3>2, Zenon DEF RealizeVirtArrays
    <2> HIDE DEF n, max, loop, f, S
    <2>5. RunsThrough(loop, m, n, f)
      <3>1. Runs(loop, m, n, f)
        BY <2>1, RunsExist DEF f
      <3> QED BY <2>1, <3>1, RunsAreThrough
    <2>6. ASSUME S # {} PROVE FALSE
      <3>0. S \in SUBSET Nat
        BY <2>1 DEF S
      <3>1. PICK i \in S : \A j \in S : i <= j
        BY <2>6, <3>0, LeastNumber
      <3>2. i \in 0 .. n /\ ~OneMoreShare(m, f[i])
        BY <3>1 DEF S
      <3>3. i # 0
        <4>1. OneMoreShare(m, m)
          BY DEF OneMoreShare
        <4> QED BY <2>5, <3>2, <4>1 DEF RunsThrough
      <3>4. i \in 1 .. n /\ i - 1 \in 0 .. n /\ ~(i <= i - 1)
        BY <2>1, <3>2, <3>3
      <3> DEFINE g == f[i - 1]
      <3>5. OneMoreShare(m, g) /\ f[i] = RealizedOne(g, i, max)
        BY <2>3, <2>5, <3>1, <3>4 DEF S, RunsThrough
      <3> HIDE DEF g
      <3>6. Sound(g) /\ (g.error = "none" \/ Failing(g, g)) /\ Len(g.virt_list) = n
        BY <3>5 DEF OneMoreShare, Failing, n
      <3>7. i \in DOMAIN g.virt_list
        <4>1. g.virt_list \in Seq(VirtArray)
          BY <3>6 DEF Sound, Core, Manager
        <4> QED BY <3>4, <3>6, <4>1
      <3>8. OneMoreShare(g, RealizedOne(g, i, max))
        BY <2>2, <3>6, <3>7, RealizedOneOK
      <3> QED BY <3>2, <3>5, <3>6, <3>8 DEF OneMoreShare, Failing, n
    <2>7. OneMoreShare(m, f[n])
      <3>1. n \in 0 .. n
        BY <2>1
      <3> QED BY <2>6, <3>1 DEF S
    <2> QED BY <2>4, <2>7 DEF OneMoreShare, Failing
  <1> QED BY <1>1, <1>2

-----------------------------------------------------------------------------
(* The end of a lifetime.                                                  *)

\* The blocks of the small objects of a lifetime and those of its large ones.
SmallBlocks(m, q) == {m.small_list[q][p].block : p \in DOMAIN m.small_list[q]}
LargeBlocks(m, q) == {m.large_list[q][p].block : p \in DOMAIN m.large_list[q]}
LEMMA BlocksOfLists ==
  ASSUME NEW m, Core(m), NEW q \in Lifetimes
  PROVE  /\ BlocksOfPool(m, q) = SmallBlocks(m, q) \cup LargeBlocks(m, q)
         /\ SmallBlocks(m, q) \cap LargeBlocks(m, q) = {}
         /\ BlocksOfPool(m, q) \subseteq DOMAIN m.heap /\ 0 \notin BlocksOfPool(m, q)
         /\ \A r \in Lifetimes : r # q => BlocksOfPool(m, q) \cap BlocksOfPool(m, r) = {}
  <1>1. BlocksOfPool(m, q) = SmallBlocks(m, q) \cup LargeBlocks(m, q)
    BY DEF BlocksOfPool, SmallBlocks, LargeBlocks
  <1>2. SmallOnes(m) /\ LargeOnes(m) /\ NoneShared(m) /\ Distinct(m.small_list) /\ Distinct(m.large_list)
    BY DEF Core, BlocksOK
  <1>3. \A r \in Lifetimes : SmallBlocks(m, q) \cap LargeBlocks(m, r) = {}
                             /\ SmallBlocks(m, r) \cap LargeBlocks(m, q) = {}
    BY <1>2 DEF NoneShared, SmallBlocks, LargeBlocks
  <1>4. BlocksOfPool(m, q) \subseteq DOMAIN m.heap /\ 0 \notin BlocksOfPool(m, q)
    BY <1>1, <1>2 DEF SmallOnes, LargeOnes, SmallBlocks, LargeBlocks
  <1>5. ASSUME NEW r \in Lifetimes, r # q
        PROVE  BlocksOfPool(m, q) \cap BlocksOfPool(m, r) = {}
    <2>1. BlocksOfPool(m, r) = SmallBlocks(m, r) \cup LargeBlocks(m, r)
      BY DEF BlocksOfPool, SmallBlocks, LargeBlocks
    <2>2. SmallBlocks(m, q) \cap SmallBlocks(m, r) = {}
      BY <1>2, <1>5 DEF Distinct, SmallBlocks
    <2>3. LargeBlocks(m, q) \cap LargeBlocks(m, r) = {}
      BY <1>2, <1>5 DEF Distinct, LargeBlocks
    <2> QED BY <1>1, <1>3, <2>1, <2>2, <2>3
  <1> QED BY <1>1, <1>3, <1>4, <1>5

\* What the headers of a lifetime add up to is the size of its blocks.
LEMMA FreedIsItsSize ==
  ASSUME NEW m, Core(m), NEW q \in Lifetimes
  PROVE  /\ SpaceFreed(m, q) = SumOver(m.heap, BlocksOfPool(m, q))
         /\ Numbers(m.heap, BlocksOfPool(m, q))
  <1> DEFINE small == m.small_list[q]
             large == m.large_list[q]
             h == [p \in DOMAIN small |-> small[p].bytes_used + small[p].bytes_left + HeaderBytes]
             k == [p \in DOMAIN large |-> large[p].bytes_used + HeaderBytes]
             b == [p \in DOMAIN small |-> small[p].block]
             c == [p \in DOMAIN large |-> large[p].block]
  <1>1. small \in Seq(SmallHdr) /\ large \in Seq(LargeHdr) /\ m.heap \in Heaps
    BY DEF Core, Manager
  <1>2. /\ \A p \in DOMAIN small : small[p].block \in DOMAIN m.heap
             /\ m.heap[small[p].block] = small[p].bytes_used + small[p].bytes_left + HeaderBytes
        /\ \A p, s \in DOMAIN small : small[p].block = small[s].block => p = s
    BY DEF Core, BlocksOK, SmallOnes, Distinct
  <1>3. /\ \A p \in DOMAIN large : large[p].block \in DOMAIN m.heap
             /\ m.heap[large[p].block] = large[p].bytes_used + HeaderBytes
        /\ \A p, s \in DOMAIN large : large[p].block = large[s].block => p = s
    BY DEF Core, BlocksOK, LargeOnes, Distinct
  <1>4. IsFiniteSet(DOMAIN small) /\ IsFiniteSet(DOMAIN large)
    <2> HIDE DEF small, large
    <2> QED BY <1>1, ListsAreFinite
  <1>5. \A x \in DOMAIN m.heap : m.heap[x] \in Nat
    BY <1>1, HeapFacts
  <1>6. SpaceFreed(m, q) = SumOver(h, DOMAIN small) + SumOver(k, DOMAIN large)
    <2>1. SpaceFreed(m, q) = SumFunction(h) + SumFunction(k)
      BY DEF SpaceFreed
    <2>2. DOMAIN h = DOMAIN small /\ DOMAIN k = DOMAIN large
      OBVIOUS
    <2> HIDE DEF h, k
    <2>3. SumFunction(h) = SumOver(h, DOMAIN h) /\ SumFunction(k) = SumOver(k, DOMAIN k)
      BY DEF SumFunction, SumOver
    <2> QED BY <2>1, <2>2, <2>3
  <1>7. ImageOf(b, DOMAIN small) = SmallBlocks(m, q) /\ ImageOf(c, DOMAIN large) = LargeBlocks(m, q)
    BY DEF ImageOf, SmallBlocks, LargeBlocks
  <1> HIDE DEF small, large
  <1>8. Numbers(h, DOMAIN small) /\ Moves(h, DOMAIN small, m.heap, b)
    <2>1. \A p \in DOMAIN small : h[p] = m.heap[small[p].block] /\ b[p] = small[p].block
                                  /\ m.heap[small[p].block] \in Nat
      BY <1>2, <1>5
    <2> HIDE DEF h, b
    <2> QED BY <1>2, <1>4, <2>1 DEF Numbers, Moves
  <1>9. Numbers(k, DOMAIN large) /\ Moves(k, DOMAIN large, m.heap, c)
    <2>1. \A p \in DOMAIN large : k[p] = m.heap[large[p].block] /\ c[p] = large[p].block
                                  /\ m.heap[large[p].block] \in Nat
      BY <1>3, <1>5
    <2> HIDE DEF k, c
    <2> QED BY <1>3, <1>4, <2>1 DEF Numbers, Moves
  <1> HIDE DEF h, k, b, c
  <1>10. /\ Numbers(m.heap, SmallBlocks(m, q))
         /\ SumOver(h, DOMAIN small) = SumOver(m.heap, SmallBlocks(m, q))
    BY <1>7, <1>8, SumMoved
  <1>11. /\ Numbers(m.heap, LargeBlocks(m, q))
         /\ SumOver(k, DOMAIN large) = SumOver(m.heap, LargeBlocks(m, q))
    BY <1>7, <1>9, SumMoved
  <1>12. Numbers(m.heap, SmallBlocks(m, q) \cup LargeBlocks(m, q))
    <2>1. IsFiniteSet(SmallBlocks(m, q) \cup LargeBlocks(m, q))
      BY <1>10, <1>11, FS_Union DEF Numbers
    <2> QED BY <1>10, <1>11, <2>1 DEF Numbers
  <1>13. SumOver(m.heap, SmallBlocks(m, q) \cup LargeBlocks(m, q))
           = SumOver(m.heap, SmallBlocks(m, q)) + SumOver(m.heap, LargeBlocks(m, q))
    BY <1>12, BlocksOfLists, SumOfTwo
  <1> QED BY <1>6, <1>10, <1>11, <1>12, <1>13, BlocksOfLists

\* What is left of a heap.
KeptOf(h, B) == Restrict(h, {b \in DOMAIN h : b \notin B})
LEMMA HeapKept ==
  ASSUME NEW h \in Heaps, NEW B
  PROVE  /\ KeptOf(h, B) \in Heaps /\ DOMAIN KeptOf(h, B) = DOMAIN h \ B
         /\ \A b \in DOMAIN h \ B : KeptOf(h, B)[b] = h[b]
  <1> DEFINE T == {b \in DOMAIN h : b \notin B}
             k == KeptOf(h, B)
  <1>1. T = DOMAIN h \ B /\ T \in SUBSET Nat /\ \A b \in T : h[b] \in Nat
    BY HeapFacts
  <1>2. IsFiniteSet(T)
    <2>1. T \in SUBSET (DOMAIN h) /\ IsFiniteSet(DOMAIN h)
      BY HeapFacts
    <2> QED BY <2>1, FS_Subset
  <1>3. k = [b \in T |-> h[b]]
    BY DEF KeptOf, Restrict
  <1> HIDE DEF T, k
  <1>4. k \in [T -> Nat]
    BY <1>1, <1>3
  <1>5. k \in Heaps
    BY <1>1, <1>2, <1>4, MakesAHeap
  <1> QED BY <1>1, <1>3, <1>5 DEF k

\* What free_pool changes.
EndsOne(lists, freed, q) ==
  /\ freed[q] = << >>
  /\ \A r \in Lifetimes : r # q => freed[r] = lists[r]
EndsALifetime(m, d, q) ==
  /\ d \in Manager /\ d.error = m.error
  /\ d.heap = KeptOf(m.heap, BlocksOfPool(m, q))
  /\ d.total_space_allocated = m.total_space_allocated - SpaceFreed(m, q)
  /\ EndsOne(m.small_list, d.small_list, q) /\ EndsOne(m.large_list, d.large_list, q)
  /\ EndsOne(m.objects, d.objects, q) /\ EndsOne(m.arrays, d.arrays, q)
  /\ d.virt_list = IF q = IMAGE THEN << >> ELSE m.virt_list
  /\ d.files = IF q = IMAGE THEN m.files - Cardinality(OpenStores(m)) ELSE m.files
LEMMA EndedList ==
  ASSUME NEW S, NEW lists \in [Lifetimes -> Seq(S)], NEW q \in Lifetimes
  PROVE  /\ [lists EXCEPT ![q] = << >>] \in [Lifetimes -> Seq(S)]
         /\ EndsOne(lists, [lists EXCEPT ![q] = << >>], q)
  BY DEF EndsOne
LEMMA FreedPoolFields ==
  ASSUME NEW m, Core(m), NEW q \in Lifetimes
  PROVE  EndsALifetime(m, FreedPool(m, q), q)
  <1> DEFINE closed == IF q = IMAGE THEN StoresClosed(m) ELSE m
             heap == KeptOf(m.heap, BlocksOfPool(m, q))
             total == m.total_space_allocated - SpaceFreed(m, q)
             virt == IF q = IMAGE THEN << >> ELSE m.virt_list
             files == IF q = IMAGE THEN m.files - Cardinality(OpenStores(m)) ELSE m.files
             small == [m.small_list EXCEPT ![q] = << >>]
             large == [m.large_list EXCEPT ![q] = << >>]
             objects == [m.objects EXCEPT ![q] = << >>]
             arrays == [m.arrays EXCEPT ![q] = << >>]
             d == FreedPool(m, q)
  <1>1. /\ m \in Manager /\ m.heap \in Heaps /\ m.total_space_allocated \in Int /\ m.files \in Int
        /\ m.virt_list \in Seq(VirtArray) /\ m.small_list \in [Lifetimes -> Seq(SmallHdr)]
        /\ m.large_list \in [Lifetimes -> Seq(LargeHdr)] /\ m.objects \in [Lifetimes -> Seq(Piece)]
        /\ m.arrays \in [Lifetimes -> Seq(RowArray)]
    BY DEF Core, Manager
  <1>2. closed = [m EXCEPT !.virt_list = virt, !.files = files]
    <2>1. CASE q = IMAGE
      BY <1>1, <2>1 DEF StoresClosed, Manager
    <2>2. CASE q # IMAGE
      BY <1>1, <2>2 DEF Manager
    <2> QED BY <2>1, <2>2
  <1>3. heap \in Heaps
    BY <1>1, HeapKept
  <1>4. total \in Int
    <2>1. SpaceFreed(m, q) \in Int
      BY FreedIsItsSize, SumsAreNumbers
    <2> QED BY <1>1, <2>1
  <1>5. virt \in Seq(VirtArray)
    BY <1>1
  <1>6. files \in Int
    <2>1. Cardinality(OpenStores(m)) \in Nat
      <3>1. IsFiniteSet(DOMAIN m.virt_list) /\ OpenStores(m) \in SUBSET DOMAIN m.virt_list
        BY <1>1, ListsAreFinite DEF OpenStores
      <3> QED BY <3>1, FS_Subset, FS_CardinalityType
    <2> QED BY <1>1, <2>1
  <1>7. /\ small \in [Lifetimes -> Seq(SmallHdr)] /\ EndsOne(m.small_list, small, q)
        /\ large \in [Lifetimes -> Seq(LargeHdr)] /\ EndsOne(m.large_list, large, q)
        /\ objects \in [Lifetimes -> Seq(Piece)] /\ EndsOne(m.objects, objects, q)
        /\ arrays \in [Lifetimes -> Seq(RowArray)] /\ EndsOne(m.arrays, arrays, q)
    BY <1>1, EndedList
  <1>8. d = [closed EXCEPT !.heap = RestrictDomain(@, LAMBDA b : b \notin BlocksOfPool(m, q)),
                           !.small_list[q] = << >>, !.large_list[q] = << >>,
                           !.total_space_allocated = @ - SpaceFreed(m, q),
                           !.objects[q] = << >>, !.arrays[q] = << >>]
    BY Zenon DEF FreedPool
  <1> HIDE DEF closed, virt, files, d
  <1>9. /\ closed.heap = m.heap /\ closed.total_space_allocated = m.total_space_allocated
        /\ closed.small_list = m.small_list /\ closed.large_list = m.large_list
        /\ closed.objects = m.objects /\ closed.arrays = m.arrays /\ closed.error = m.error
        /\ closed.virt_list = virt /\ closed.files = files /\ closed \in Manager
    BY <1>1, <1>2, <1>5, <1>6 DEF Manager
  <1>10. RestrictDomain(closed.heap, LAMBDA b : b \notin BlocksOfPool(m, q)) = heap
    BY <1>9, Zenon DEF RestrictDomain, KeptOf
  <1>11. d = [closed EXCEPT !.heap = heap, !.small_list = small, !.large_list = large,
                            !.total_space_allocated = total, !.objects = objects,
                            !.arrays = arrays]
    <2> DEFINE kept == RestrictDomain(closed.heap, LAMBDA b : b \notin BlocksOfPool(m, q))
               freed == SpaceFreed(m, q)
    <2>1. d = [closed EXCEPT !.heap = kept, !.small_list[q] = << >>, !.large_list[q] = << >>,
                             !.total_space_allocated = @ - freed,
                             !.objects[q] = << >>, !.arrays[q] = << >>]
      BY <1>8, <1>9, Zenon DEF Manager
    <2>2. kept = heap /\ total = closed.total_space_allocated - freed
      BY <1>9, <1>10
    <2> HIDE DEF kept, freed, heap, total
    <2> QED BY <1>9, <2>1, <2>2 DEF Manager
  <1> HIDE DEF heap, total, small, large, objects, arrays
  <1>12. d \in Manager
    BY <1>3, <1>4, <1>7, <1>9, <1>11 DEF Manager
  <1>13. /\ d.heap = heap /\ d.small_list = small /\ d.large_list = large
         /\ d.total_space_allocated = total /\ d.objects = objects /\ d.arrays = arrays
         /\ d.error = m.error /\ d.virt_list = virt /\ d.files = files
    BY <1>9, <1>11 DEF Manager
  <1> QED BY <1>7, <1>12, <1>13 DEF EndsALifetime, heap, total, virt, files, d

\* The other lifetime keeps its blocks and objects.
LEMMA LifetimeEnds ==
  ASSUME NEW m, Core(m), NEW q \in Lifetimes, NEW d, EndsALifetime(m, d, q)
  PROVE  Core(d)
  <1> DEFINE B == BlocksOfPool(m, q)
  <1>1. /\ m \in Manager /\ m.heap \in Heaps /\ Books(m) /\ SmallOnes(m) /\ LargeOnes(m)
        /\ NoneShared(m) /\ AllKnown(m) /\ Distinct(m.small_list) /\ Distinct(m.large_list)
        /\ PiecesOK(m) /\ PiecesApart(m) /\ m.total_space_allocated \in Int
    BY DEF Core, BlocksOK, Manager
  <1>2. /\ d \in Manager /\ d.heap = KeptOf(m.heap, B)
        /\ d.total_space_allocated = m.total_space_allocated - SpaceFreed(m, q)
        /\ EndsOne(m.small_list, d.small_list, q) /\ EndsOne(m.large_list, d.large_list, q)
        /\ EndsOne(m.objects, d.objects, q)
    BY DEF EndsALifetime
  <1>3. /\ B \subseteq DOMAIN m.heap /\ 0 \notin B
        /\ \A r \in Lifetimes : r # q => B \cap BlocksOfPool(m, r) = {}
    BY BlocksOfLists
  <1>4. SpaceFreed(m, q) = SumOver(m.heap, B) /\ Numbers(m.heap, B)
    BY FreedIsItsSize
  <1> HIDE DEF B
  <1>5. /\ d.heap \in Heaps /\ DOMAIN d.heap = DOMAIN m.heap \ B
        /\ \A b \in DOMAIN m.heap \ B : d.heap[b] = m.heap[b]
    <2>1. /\ KeptOf(m.heap, B) \in Heaps /\ DOMAIN KeptOf(m.heap, B) = DOMAIN m.heap \ B
          /\ \A b \in DOMAIN m.heap \ B : KeptOf(m.heap, B)[b] = m.heap[b]
      BY <1>1, HeapKept
    <2> QED BY <1>2, <2>1
  <1>6. Books(d)
    <2> DEFINE K == DOMAIN m.heap \ B
    <2>1. B \cup K = DOMAIN m.heap /\ B \cap K = {} /\ Numbers(m.heap, B \cup K)
      BY <1>1, <1>3, HeapFacts
    <2> HIDE DEF K
    <2>2. /\ SumOver(m.heap, B \cup K) = SumOver(m.heap, B) + SumOver(m.heap, K)
          /\ SumOver(m.heap, B) \in Int /\ SumOver(m.heap, K) \in Int
      BY <2>1, SumOfTwo
    <2>3. SumOver(d.heap, K) = SumOver(m.heap, K)
      <3>1. Numbers(d.heap, K) /\ \A x \in K : m.heap[x] = d.heap[x]
        BY <1>5, HeapFacts DEF K
      <3> QED BY <3>1, SumSame
    <2>4. DOMAIN d.heap = K
      BY <1>5 DEF K
    <2>5. m.total_space_allocated = SumOver(m.heap, B) + SumOver(m.heap, K)
      BY <1>1, <2>1, <2>2 DEF Books
    <2>6. d.total_space_allocated = m.total_space_allocated - SumOver(m.heap, B)
      BY <1>2, <1>4
    <2> DEFINE x == SumOver(m.heap, B)
               y == SumOver(m.heap, K)
    <2>7. x \in Int /\ y \in Int /\ d.total_space_allocated = (x + y) - x
      BY <2>2, <2>5, <2>6
    <2>8. d.total_space_allocated = y
      <3> HIDE DEF x, y
      <3> QED BY <2>7
    <2> QED BY <2>3, <2>4, <2>8 DEF Books
  <1>7. /\ DOMAIN d.small_list[q] = {} /\ DOMAIN d.large_list[q] = {} /\ DOMAIN d.objects[q] = {}
    BY <1>2 DEF EndsOne
  <1>8. ASSUME NEW r \in Lifetimes, r # q
        PROVE  /\ d.small_list[r] = m.small_list[r] /\ d.large_list[r] = m.large_list[r]
               /\ d.objects[r] = m.objects[r]
               /\ \A p \in DOMAIN m.small_list[r] : m.small_list[r][p].block \in DOMAIN m.heap \ B
               /\ \A p \in DOMAIN m.large_list[r] : m.large_list[r][p].block \in DOMAIN m.heap \ B
    <2>1. BlocksOfPool(m, r) \subseteq DOMAIN m.heap
      BY BlocksOfLists
    <2> QED BY <1>2, <1>3, <1>8, <2>1 DEF EndsOne, BlocksOfPool
  <1>9. SmallOnes(d)
    <2> SUFFICES ASSUME NEW r \in Lifetimes, NEW p \in DOMAIN d.small_list[r]
                 PROVE  LET hdr == d.small_list[r][p]
                        IN  /\ hdr.block \in DOMAIN d.heap /\ hdr.block # 0
                            /\ d.heap[hdr.block] = hdr.bytes_used + hdr.bytes_left + HeaderBytes
                            /\ hdr.bytes_used % AlignBytes = 0
      BY DEF SmallOnes
    <2>1. r # q
      BY <1>7
    <2> QED BY <1>1, <1>5, <1>8, <2>1 DEF SmallOnes
  <1>10. LargeOnes(d)
    <2> SUFFICES ASSUME NEW r \in Lifetimes, NEW p \in DOMAIN d.large_list[r]
                 PROVE  LET hdr == d.large_list[r][p]
                        IN  /\ hdr.block \in DOMAIN d.heap /\ hdr.block # 0
                            /\ d.heap[hdr.block] = hdr.bytes_used + HeaderBytes
      BY DEF LargeOnes
    <2>1. r # q
      BY <1>7
    <2> QED BY <1>1, <1>5, <1>8, <2>1 DEF LargeOnes
  <1>11. NoneShared(d)
    <2> SUFFICES ASSUME NEW r \in Lifetimes, NEW s \in Lifetimes,
                        NEW u \in DOMAIN d.small_list[r], NEW v \in DOMAIN d.large_list[s]
                 PROVE  d.small_list[r][u].block # d.large_list[s][v].block
      BY DEF NoneShared
    <2>1. r # q /\ s # q
      BY <1>7
    <2> QED BY <1>1, <1>8, <2>1 DEF NoneShared
  <1>12. ASSUME NEW old, NEW new, EndsOne(old, new, q), Distinct(old)
         PROVE  Distinct(new)
    <2> SUFFICES ASSUME NEW r \in Lifetimes, NEW s \in Lifetimes,
                        NEW u \in DOMAIN new[r], NEW v \in DOMAIN new[s],
                        new[r][u].block = new[s][v].block
                 PROVE  r = s /\ u = v
      BY DEF Distinct
    <2>1. r # q /\ s # q
      BY <1>12 DEF EndsOne
    <2>2. new[r] = old[r] /\ new[s] = old[s]
      BY <1>12, <2>1 DEF EndsOne
    <2> QED BY <1>12, <2>2 DEF Distinct
  <1>13. Distinct(d.small_list) /\ Distinct(d.large_list)
    BY <1>1, <1>2, <1>12
  <1>14. AllKnown(d)
    <2>1. BlocksOfPool(d, q) = {}
      BY <1>7 DEF BlocksOfPool
    <2>2. \A r \in Lifetimes : r # q => BlocksOfPool(d, r) = BlocksOfPool(m, r)
      BY <1>8 DEF BlocksOfPool
    <2>3. PICK r \in Lifetimes : r # q /\ Lifetimes = {q, r}
      BY DEF Lifetimes, PERMANENT, IMAGE
    <2>4. DOMAIN m.heap = {0} \cup B \cup BlocksOfPool(m, r)
      BY <1>1, <2>3 DEF AllKnown, Lifetimes, PERMANENT, IMAGE, B
    <2>5. DOMAIN d.heap = {0} \cup BlocksOfPool(d, q) \cup BlocksOfPool(d, r)
      BY <1>3, <1>5, <2>1, <2>2, <2>3, <2>4
    <2> QED BY <2>3, <2>5 DEF AllKnown, Lifetimes, PERMANENT, IMAGE
  <1>15. PiecesOK(d)
    <2> SUFFICES ASSUME NEW r \in Lifetimes, NEW i \in DOMAIN d.objects[r]
                 PROVE  PieceOK(d, r, d.objects[r][i])
      BY DEF PiecesOK
    <2>1. r # q
      BY <1>7
    <2>2. PieceOK(m, r, d.objects[r][i])
      BY <1>1, <1>8, <2>1 DEF PiecesOK
    <2> QED BY <1>8, <2>1, <2>2 DEF PieceOK
  <1>16. PiecesApart(d)
    <2> SUFFICES ASSUME NEW r \in Lifetimes, NEW s \in Lifetimes,
                        NEW i \in DOMAIN d.objects[r], NEW j \in DOMAIN d.objects[s],
                        <<r, i>> # <<s, j>>
                 PROVE  Apart(d.objects[r][i], d.objects[s][j])
      BY DEF PiecesApart
    <2>1. r # q /\ s # q
      BY <1>7
    <2> QED BY <1>1, <1>8, <2>1 DEF PiecesApart
  <1> QED BY <1>2, <1>6, <1>9, <1>10, <1>11, <1>13, <1>14, <1>15, <1>16 DEF Core, BlocksOK

\* jpeg_abort
LEMMA AbortOK ==
  ASSUME NEW m, Sound(m)
  PROVE  LET d == [FreedPool(m, IMAGE) EXCEPT !.error = "none"]
         IN  Sound(d) /\ d.error # "destroyed"
  <1> DEFINE g == FreedPool(m, IMAGE)
             d == [g EXCEPT !.error = "none"]
  <1>0. IMAGE \in Lifetimes /\ PERMANENT \in Lifetimes /\ PERMANENT # IMAGE
        /\ \A r \in Lifetimes : r = IMAGE \/ r = PERMANENT
    BY DEF Lifetimes, PERMANENT, IMAGE
  <1>1. EndsALifetime(m, g, IMAGE)
    BY <1>0, FreedPoolFields DEF Sound
  <1> HIDE DEF g
  <1>2. Core(g)
    BY <1>0, <1>1, LifetimeEnds DEF Sound
  <1>3. d = Failed(g, "none") /\ "none" \in Errors
    BY DEF Failed, Errors
  <1> HIDE DEF d
  <1>4. Core(d) /\ d.error = "none" /\ Grows(g, d)
    BY <1>2, <1>3, FailedOK
  <1>5. d.virt_list = << >> /\ d.files = m.files - Cardinality(OpenStores(m))
        /\ d.arrays[IMAGE] = << >> /\ d.arrays[PERMANENT] = << >>
    BY <1>0, <1>1, <1>4 DEF Grows, EndsALifetime, EndsOne, Sound, NoneIsPermanent
  <1>6. FilesOK(d)
    <2>1. m.files = Cardinality(OpenStores(m)) /\ m.files \in Int
      BY DEF Sound, FilesOK, Core, Manager
    <2>2. OpenStores(d) = {}
      BY <1>5 DEF OpenStores
    <2>3. Cardinality(OpenStores(d)) = 0
      BY <2>2, FS_EmptySet
    <2> DEFINE n == Cardinality(OpenStores(m))
    <2>4. n \in Int /\ d.files = n - n
      BY <1>5, <2>1
    <2> HIDE DEF n
    <2> QED BY <2>3, <2>4 DEF FilesOK
  <1>7. ArraysOK(d) /\ SharesOK(d) /\ NoneIsPermanent(d)
    BY <1>0, <1>5 DEF ArraysOK, SharesOK, NoneIsPermanent
  <1> QED BY <1>4, <1>6, <1>7 DEF Sound, d, g

\* jpeg_destroy
LEMMA SelfDestructOK ==
  ASSUME NEW m, Sound(m)
  PROVE  Gone([FreedPool(FreedPool(m, IMAGE), PERMANENT) EXCEPT
                 !.error = "destroyed",
                 !.heap = RestrictDomain(@, LAMBDA b : b # 0)])
  <1> DEFINE g == FreedPool(m, IMAGE)
             h == FreedPool(g, PERMANENT)
             kept == RestrictDomain(h.heap, LAMBDA b : b # 0)
             d == [h EXCEPT !.error = "destroyed", !.heap = RestrictDomain(@, LAMBDA b : b # 0)]
  <1>0. IMAGE \in Lifetimes /\ PERMANENT \in Lifetimes /\ PERMANENT # IMAGE
        /\ \A r \in Lifetimes : r = IMAGE \/ r = PERMANENT
    BY DEF Lifetimes, PERMANENT, IMAGE
  <1>1. EndsALifetime(m, g, IMAGE)
    BY <1>0, FreedPoolFields DEF Sound
  <1> HIDE DEF g
  <1>2. Core(g)
    BY <1>0, <1>1, LifetimeEnds DEF Sound
  <1>3. EndsALifetime(g, h, PERMANENT)
    BY <1>0, <1>2, FreedPoolFields
  <1> HIDE DEF h
  <1>4. Core(h) /\ h \in Manager
    BY <1>0, <1>2, <1>3, LifetimeEnds DEF Core
  <1>5. /\ \A r \in Lifetimes : /\ h.small_list[r] = << >> /\ h.large_list[r] = << >>
                                /\ h.objects[r] = << >> /\ h.arrays[r] = << >>
        /\ h.virt_list = << >> /\ h.files = m.files - Cardinality(OpenStores(m))
    BY <1>0, <1>1, <1>3 DEF EndsALifetime, EndsOne
  <1>6. DOMAIN h.heap = {0}
    <2>1. \A r \in Lifetimes : BlocksOfPool(h, r) = {}
      BY <1>5 DEF BlocksOfPool
    <2> QED BY <1>0, <1>4, <2>1 DEF Core, BlocksOK, AllKnown
  <1>7. kept = << >>
    <2>1. kept = Restrict(h.heap, {b \in DOMAIN h.heap : b # 0})
      BY Zenon DEF RestrictDomain
    <2>2. {b \in DOMAIN h.heap : b # 0} = {}
      BY <1>6
    <2> HIDE DEF kept
    <2>3. kept = [x \in {} |-> h.heap[x]]
      BY <2>1, <2>2 DEF Restrict
    <2> QED BY <2>3
  <1>8. h.files = 0
    <2>1. m.files = Cardinality(OpenStores(m)) /\ m.files \in Int
      BY DEF Sound, FilesOK, Core, Manager
    <2> DEFINE n == Cardinality(OpenStores(m))
    <2>2. n \in Int /\ h.files = n - n
      BY <1>5, <2>1
    <2> HIDE DEF n
    <2> QED BY <2>2
  <1>9. d = [h EXCEPT !.error = "destroyed", !.heap = kept]
    BY <1>4, Zenon DEF Manager
  <1> HIDE DEF kept, d
  <1>10. /\ d.error = "destroyed" /\ d.heap = << >> /\ d.files = 0 /\ d.virt_list = << >>
         /\ d.objects = h.objects /\ d.arrays = h.arrays
    BY <1>4, <1>5, <1>7, <1>8, <1>9 DEF Manager
  <1>11. Gone(d)
    BY <1>5, <1>10 DEF Gone
  <1> QED BY <1>11 DEF d, h, g

\* A new manager.
LEMMA ManagerBegins ==
  PoolsInit => Sound(mem) /\ mem.error = "none"
  <1> SUFFICES ASSUME PoolsInit PROVE Sound(mem) /\ mem.error = "none"
    OBVIOUS
  <1> DEFINE h == [b \in {0} |-> ManagerBytes]
  <1>1. /\ mem.error = "none" /\ mem.heap = h /\ mem.total_space_allocated = ManagerBytes
        /\ mem.small_list = [pool \in Lifetimes |-> << >>]
        /\ mem.large_list = [pool \in Lifetimes |-> << >>]
        /\ mem.objects = [pool \in Lifetimes |-> << >>]
        /\ mem.arrays = [pool \in Lifetimes |-> << >>]
        /\ mem.virt_list = << >> /\ mem.files = 0
    BY DEF PoolsInit
  <1>2. h \in Heaps /\ DOMAIN h = {0} /\ h[0] = ManagerBytes
    <2>1. {0} \in SUBSET Nat /\ IsFiniteSet({0})
      BY FS_Singleton
    <2>2. h \in [{0} -> Nat]
      BY ConstantsAreSizes
    <2> QED BY <2>1, <2>2, MakesAHeap
  <1>3. mem \in Manager
    <2>1. /\ << >> \in Seq(SmallHdr) /\ << >> \in Seq(LargeHdr) /\ << >> \in Seq(Piece)
          /\ << >> \in Seq(RowArray) /\ << >> \in Seq(VirtArray)
      OBVIOUS
    <2>2. /\ [pool \in Lifetimes |-> << >>] \in [Lifetimes -> Seq(SmallHdr)]
          /\ [pool \in Lifetimes |-> << >>] \in [Lifetimes -> Seq(LargeHdr)]
          /\ [pool \in Lifetimes |-> << >>] \in [Lifetimes -> Seq(Piece)]
          /\ [pool \in Lifetimes |-> << >>] \in [Lifetimes -> Seq(RowArray)]
      BY <2>1
    <2>3. "none" \in Errors /\ ManagerBytes \in Int /\ 0 \in Int
      BY ConstantsAreSizes DEF Errors
    <2>4. h \in Heaps
      BY <1>2
    <2> HIDE DEF h
    <2>5. mem = [error |-> "none", heap |-> h,
                 small_list |-> [pool \in Lifetimes |-> << >>],
                 large_list |-> [pool \in Lifetimes |-> << >>],
                 virt_list |-> << >>, total_space_allocated |-> ManagerBytes,
                 objects |-> [pool \in Lifetimes |-> << >>],
                 arrays |-> [pool \in Lifetimes |-> << >>], files |-> 0]
      BY Zenon DEF PoolsInit, h
    <2> QED BY <2>1, <2>2, <2>3, <2>4, <2>5 DEF Manager
  <1> HIDE DEF h
  <1>4. \A r \in Lifetimes : /\ mem.small_list[r] = << >> /\ mem.large_list[r] = << >>
                             /\ mem.objects[r] = << >> /\ mem.arrays[r] = << >>
    BY <1>1
  <1>5. Books(mem)
    <2>1. Numbers(h, DOMAIN h)
      BY <1>2, HeapFacts
    <2>2. Takes(h, DOMAIN h)
      BY <2>1, SumTakes
    <2>3. SumOver(h, DOMAIN h) = h[0] + SumOver(h, DOMAIN h \ {0})
      BY <1>2, <2>2 DEF Takes
    <2>4. DOMAIN h \ {0} = {} /\ IsFiniteSet({})
      BY <1>2, FS_EmptySet
    <2>5. SumOver(h, {}) = 0
      BY <2>4, SumStep
    <2>6. SumOver(h, DOMAIN h) = ManagerBytes + 0
      BY <1>2, <2>3, <2>4, <2>5
    <2> QED BY <1>1, <2>6, ConstantsAreSizes DEF Books
  <1>6. BlocksOK(mem)
    <2>1. \A r \in Lifetimes : BlocksOfPool(mem, r) = {}
      BY <1>4 DEF BlocksOfPool
    <2>2. AllKnown(mem)
      BY <1>1, <1>2, <2>1 DEF AllKnown, Lifetimes
    <2>3. SmallOnes(mem) /\ LargeOnes(mem) /\ NoneShared(mem)
      BY <1>4 DEF SmallOnes, LargeOnes, NoneShared
    <2>4. Distinct(mem.small_list) /\ Distinct(mem.large_list)
      BY <1>4 DEF Distinct
    <2> QED BY <2>2, <2>3, <2>4 DEF BlocksOK
  <1>7. PiecesOK(mem) /\ PiecesApart(mem) /\ ArraysOK(mem)
    BY <1>4 DEF PiecesOK, PiecesApart, ArraysOK
  <1>8. SharesOK(mem) /\ FilesOK(mem) /\ NoneIsPermanent(mem)
    <2>1. OpenStores(mem) = {}
      BY <1>1 DEF OpenStores
    <2>2. Cardinality(OpenStores(mem)) = 0
      BY <2>1, FS_EmptySet
    <2>3. PERMANENT \in Lifetimes
      BY DEF Lifetimes
    <2> QED BY <1>1, <1>4, <2>2, <2>3 DEF SharesOK, FilesOK, NoneIsPermanent
  <1> QED BY <1>1, <1>3, <1>5, <1>6, <1>7, <1>8 DEF Sound, Core

-----------------------------------------------------------------------------
(* The theorem.                                                            *)

\* Every call of the manager leaves everything in order, or nothing at all.
LEMMA MemoryKept ==
  MemoryInv /\ [PoolsNext]_poolVars => MemoryInv'
  <1> SUFFICES ASSUME MemoryInv, [PoolsNext]_poolVars PROVE MemoryInv'
    OBVIOUS
  <1>0. ASSUME Sound(mem'), mem'.error # "destroyed" PROVE MemoryInv'
    BY <1>0 DEF MemoryInv, Sound, Core, FilesOK, NoneIsPermanent, ArraysOK, SharesOK, ShareOK,
                Books, BlocksOK, SmallOnes, LargeOnes, NoneShared, AllKnown, BlocksOfPool,
                PiecesOK, PieceOK, PiecesApart, OpenStores
  <1>1. ASSUME mem.error = "none" PROVE Sound(mem) /\ Core(mem)
    BY <1>1 DEF MemoryInv, Sound
  <1>2. CASE Alloc
    <2>1. mem.error = "none"
      BY <1>2 DEF Alloc, Call
    <2>2. ASSUME NEW c \in SmallCalls, mem' = AllocSmall(mem, c[1], c[2]) PROVE MemoryInv'
      <3>1. c[1] \in Lifetimes /\ c[2] \in Nat
        BY PoolsAssumption
      <3>2. Allocates(mem, mem')
        BY <1>1, <2>1, <2>2, <3>1, AllocSmallOK
      <3> QED BY <1>0, <1>1, <2>1, <3>2, AllocationOK
    <2>3. ASSUME NEW c \in LargeCalls, mem' = AllocLarge(mem, c[1], c[2]) PROVE MemoryInv'
      <3>1. c[1] \in Lifetimes /\ c[2] \in Nat
        BY PoolsAssumption
      <3>2. Allocates(mem, mem')
        BY <1>1, <2>1, <2>3, <3>1, AllocLargeOK
      <3> QED BY <1>0, <1>1, <2>1, <3>2, AllocationOK
    <2>4. ASSUME NEW c \in ArrayCalls, mem' = AllocArray(mem, IMAGE, c, c.rows) PROVE MemoryInv'
      <3>1. c.rows \in Nat \ {0}
        BY PoolsAssumption
      <3> QED BY <1>0, <1>1, <2>1, <2>4, <3>1, ArrayCallOK
    <2> QED BY <1>2, <2>2, <2>3, <2>4 DEF Alloc
  <1>3. CASE Request
    <2>1. mem.error = "none" /\ \E c \in ArrayCalls : mem' = RequestVirtArray(mem, c)
      BY <1>3 DEF Request, Call
    <2> QED BY <1>0, <1>1, <2>1, RequestOK
  <1>4. CASE Realize
    <2>1. mem.error = "none" /\ mem' = RealizeVirtArrays(mem)
      BY <1>4 DEF Realize, Call
    <2> QED BY <1>0, <1>1, <2>1, RealizeOK
  <1>5. CASE Abort
    <2>1. Sound(mem) /\ mem' = [FreedPool(mem, IMAGE) EXCEPT !.error = "none"]
      BY <1>5 DEF Abort, MemoryInv
    <2> QED BY <1>0, <2>1, AbortOK
  <1>6. CASE SelfDestruct
    <2>1. Sound(mem) /\ mem' = [FreedPool(FreedPool(mem, IMAGE), PERMANENT) EXCEPT
                                  !.error = "destroyed",
                                  !.heap = RestrictDomain(@, LAMBDA b : b # 0)]
      BY <1>6 DEF SelfDestruct, MemoryInv
    <2>2. Gone(mem')
      BY <2>1, SelfDestructOK
    <2> QED BY <2>2 DEF MemoryInv, Gone
  <1>7. CASE UNCHANGED poolVars
    <2>1. mem' = mem
      BY <1>7 DEF poolVars
    <2> QED BY <1>0, <2>1 DEF MemoryInv, Gone
  <1> QED BY <1>2, <1>3, <1>4, <1>5, <1>6, <1>7 DEF PoolsNext

\* What is in order is accounted for.
LEMMA SoundIsAccountedFor ==
  ASSUME Sound(mem), mem.error # "destroyed"
  PROVE  MemoryIsAccountedFor
  <1>1. ObjectsApart
    <2>1. PiecesApart(mem)
      BY DEF Sound, Core
    <2>2. \A p \in Lifetimes : \A i \in DOMAIN mem.objects[p] :
            \A object \in {mem.objects[p][i]} :
              /\ object.from % AlignBytes = 0 /\ object.from >= HeaderBytes
              /\ object.block \in DOMAIN mem.heap
              /\ object.from + object.size <= mem.heap[object.block]
      BY ObjectsInside DEF Sound
    <2> QED BY <2>1, <2>2 DEF ObjectsApart, PiecesApart
  <1>2. RowsApart
    <2>1. mem.error = "none" => ArraysOK(mem)
      BY DEF Sound
    <2> QED BY <2>1 DEF RowsApart, ArraysOK, ArrayOK
  <1>3. SharesAreFair
    <2>1. mem.error = "none" => SharesOK(mem)
      BY DEF Sound
    <2> QED BY <2>1 DEF SharesAreFair, SharesOK, ShareOK
  <1>4. NothingIsLost
    <2>1. SumFunction(mem.heap) = SumOver(mem.heap, DOMAIN mem.heap)
      BY DEF SumFunction, SumOver
    <2> QED BY <2>1 DEF NothingIsLost, Sound, Core, Books, FilesOK
  <1> QED BY <1>1, <1>2, <1>3, <1>4 DEF MemoryIsAccountedFor

LEMMA GoneIsAccountedFor ==
  ASSUME Gone(mem)
  PROVE  MemoryIsAccountedFor
  <1>1. \A p \in Lifetimes : DOMAIN mem.objects[p] = {}
    BY DEF Gone
  <1>2. OpenStores(mem) = {}
    BY DEF Gone, OpenStores
  <1>3. Cardinality(OpenStores(mem)) = 0
    BY <1>2, FS_EmptySet
  <1>4. ObjectsApart
    BY <1>1 DEF ObjectsApart
  <1>5. RowsApart /\ SharesAreFair
    BY DEF Gone, RowsApart, SharesAreFair
  <1>6. NothingIsLost
    BY <1>3 DEF Gone, NothingIsLost
  <1> QED BY <1>4, <1>5, <1>6 DEF MemoryIsAccountedFor

\* The invariant behind it: unless the manager is gone, each block belongs to one
\* header that knows its size, each object lies in the used part of a block of its
\* lifetime, each row in such an object, and only shared arrays have files.
THEOREM MemoryInvariant ==
  PoolsSpec => []MemoryInv
  <1>1. PoolsInit => MemoryInv
    BY ManagerBegins DEF MemoryInv
  <1>2. MemoryInv /\ [PoolsNext]_poolVars => MemoryInv'
    BY MemoryKept
  <1> QED BY <1>1, <1>2, PTL DEF PoolsSpec

\* Whatever is asked for, in whatever order, with as much memory and as many files
\* as the system has, and given up at any time: no two objects share a byte and
\* each is aligned and inside a block of its lifetime; the rows of an array lie in
\* its objects, apart, and behind each other within a chunk; a realized virtual
\* array has all its rows or a file, and room for what is accessed at once; and
\* the manager's total and its files are those the system has given it, none when
\* it is gone (jmemmgr.c).
THEOREM MemoryAccounted ==
  PoolsSpec => []MemoryIsAccountedFor
  <1>1. MemoryInv => MemoryIsAccountedFor
    BY SoundIsAccountedFor, GoneIsAccountedFor DEF MemoryInv
  <1> QED BY <1>1, MemoryInvariant, PTL

=============================================================================
