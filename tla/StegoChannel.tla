---------------------------- MODULE StegoChannel ----------------------------
(***************************************************************************)
(* What embedding and retrieving promise the two ends: a message is either *)
(* refused by the encoder, with no stego image, or carried, and then a     *)
(* decoder with the same key gets that message, all of it and nothing      *)
(* else.                                                                   *)
(***************************************************************************)
EXTENDS Integers, Sequences

CONSTANT MaxMessage

VARIABLES
  length,     \* bits of the message
  state,      \* "embedding", "refused", "carried" or "delivered"
  delivered   \* the bits the decoder returned, by their positions

vars == <<length, state, delivered>>

TheMessage == [i \in 1 .. length |-> i]

Init ==
  /\ length \in 0 .. MaxMessage
  /\ state = "embedding"
  /\ delivered = << >>

Refuse ==
  /\ state = "embedding"
  /\ state' = "refused"
  /\ UNCHANGED <<length, delivered>>

Carry ==
  /\ state = "embedding"
  /\ state' = "carried"
  /\ UNCHANGED <<length, delivered>>

Deliver ==
  /\ state = "carried"
  /\ state' = "delivered"
  /\ delivered' = TheMessage
  /\ UNCHANGED length

Next == Refuse \/ Carry \/ Deliver

Spec == Init /\ [][Next]_vars
=============================================================================
