--------------------------- MODULE TulipanGlobals ---------------------------
(***************************************************************************)
(* The arithmetic every part of tulipan shares (l_tulipanglobal.cpp): how  *)
(* a count of bits becomes a count of bytes, and how a size is rounded up  *)
(* to whole blocks.                                                        *)
(***************************************************************************)
EXTENDS Integers

\* The ceiling of a / b.
CeillingDivide(a, b) == IF a % b # 0 THEN a \div b + 1 ELSE a \div b

\* The least multiple of BlockSize that is at least RoughValue.
LeastGreaterMultiple(RoughValue, BlockSize) ==
  LET Remainder == RoughValue % BlockSize
  IN  RoughValue + (IF Remainder # 0 THEN BlockSize - Remainder ELSE 0)

=============================================================================
