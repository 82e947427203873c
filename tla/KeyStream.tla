----------------------------- MODULE KeyStream -----------------------------
(***************************************************************************)
(* What the random pool promises to the code matrices: one endless stream  *)
(* of key blocks, fixed by the stego key, read through a cursor.  A client *)
(* looks at the next n blocks (Request), gives back the last k of them     *)
(* (Deny, any number of times) and finally moves the cursor over the rest  *)
(* (Commit, once).  There is no buffer: nothing can be lost or repeated.   *)
(*                                                                         *)
(* One block is one T_L_BinaryStreamBlock (a byte); every size the program *)
(* passes to the pool is a whole number of them.                           *)
(***************************************************************************)
EXTENDS TulipanGlobals

CONSTANTS
  GiantStep,   \* blocks of key taken from one digest (64 bits = 8 in the program)
  Sizes,       \* sizes a client may request, in blocks
  NULL         \* what a refused request returns

VARIABLES
  cursor,      \* blocks consumed for good
  window,      \* blocks the request in process still claims
  claimed,     \* a request is in process
  granted      \* what the last request returned

vars == <<cursor, window, claimed, granted>>

(***************************************************************************)
(* Block n of the stream, named by where it comes from: the digest and the *)
(* position in it.  Digest d depends on the stego key and d alone, so two  *)
(* equal names are equal bytes for the two holders of a key.               *)
(***************************************************************************)
KeyBlock(n) == [digest |-> n \div GiantStep, byte |-> n % GiantStep]
KeyBlocks(from, n) == [i \in 1 .. n |-> KeyBlock(from + i - 1)]

Init ==
  /\ cursor = 0
  /\ window = 0
  /\ claimed = FALSE
  /\ granted = NULL

Request(n) ==
  /\ ~claimed
  /\ claimed' = TRUE
  /\ window' = n
  /\ granted' = KeyBlocks(cursor, n)
  /\ UNCHANGED cursor

Refuse ==
  /\ claimed
  /\ granted' = NULL
  /\ UNCHANGED <<cursor, window, claimed>>

Deny(k) ==
  /\ claimed
  /\ k <= window
  /\ window' = window - k
  /\ UNCHANGED <<cursor, claimed, granted>>

Commit ==
  /\ claimed
  /\ cursor' = cursor + window
  /\ window' = 0
  /\ claimed' = FALSE
  /\ UNCHANGED granted

Next ==
  \/ \E n \in Sizes : Request(n)
  \/ \E k \in Sizes : Deny(k)
  \/ Refuse
  \/ Commit

Spec == Init /\ [][Next]_vars
=============================================================================
