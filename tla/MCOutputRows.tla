---------------------------- MODULE MCOutputRows ----------------------------
(***************************************************************************)
(* A color image of three sampling rows, quantized in two passes and read  *)
(* a few lines at a time.                                                  *)
(***************************************************************************)
EXTENDS OutputRows

ThreeRows ==
  {[width |-> 9, height |-> height,
    comps |-> <<[h |-> 1, v |-> 3], [h |-> 1, v |-> 1], [h |-> 1, v |-> 1]>>,
    M |-> FullSize, fancy |-> FALSE, color |-> TRUE, quantize |-> "two"] : height \in 1 .. 9}
=============================================================================
