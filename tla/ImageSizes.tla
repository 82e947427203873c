----------------------------- MODULE ImageSizes -----------------------------
(***************************************************************************)
(* The arithmetic of sizes in samples, blocks and MCUs, which both sides   *)
(* of libjpeg share (jutils.c, initial_setup).  An image p has components  *)
(* p.comps with sampling factors h and v.                                  *)
(***************************************************************************)
EXTENDS Integers, Sequences, SequencesExt, FiniteSetsExt

\* jdiv_round_up and jround_up
DivRoundUp(a, b) == (a + b - 1) \div b
RoundUp(a, b) == DivRoundUp(a, b) * b

\* What is left of n in the last part, of parts of size: all of one if nothing is.
Left(n, size) == IF n % size = 0 THEN size ELSE n % size

\* max_h_samp_factor and max_v_samp_factor
HMax(p) == Max({1} \cup {p.comps[ci].h : ci \in DOMAIN p.comps})
VMax(p) == Max({1} \cup {p.comps[ci].v : ci \in DOMAIN p.comps})
=============================================================================
