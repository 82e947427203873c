----------------------------- MODULE WetChannel -----------------------------
(***************************************************************************)
(* The encoder's injection loop and the decoder's retrieval loop, each     *)
(* with a random pool of its own seeded with the stego key, and the stego  *)
(* image between them.  The decoder draws its key in other pieces than the *)
(* encoder: the header rows, then as many data rows as the header says,    *)
(* never more than it uses.  Both must come out at the same block of key   *)
(* at every run, or everything after it is noise.                          *)
(***************************************************************************)
EXTENDS MessageInjection

CONSTANTS SameKeys   \* whether the decoder may have the key of the encoder, another one

ASSUME ChannelAssumption == SameKeys \subseteq BOOLEAN

VARIABLES
  sameKey,
  rpc, rconsumed, rrows, retrieved, result,   \* the decoder: MessageRetrieval
  rcursor, rwindow, rclaimed, rmatrix

R == INSTANCE MessageRetrieval WITH
       pc <- rpc, consumed <- rconsumed, rows <- rrows,
       cursor <- rcursor, window <- rwindow, claimed <- rclaimed, matrix <- rmatrix

retrievalVars == <<rpc, rconsumed, rrows, retrieved, result,
                   rcursor, rwindow, rclaimed, rmatrix>>
vars == <<injectionVars, sameKey, retrievalVars>>

ChannelInit ==
  /\ Init
  /\ sameKey \in SameKeys
  /\ R!Init

Encode == Inject /\ UNCHANGED <<sameKey, retrievalVars>>

\* The stego image is written only after a success (c_l_wetencoder.cpp:118).
\* (Mutant: it is written after a failure, too.)
OpenAfterFailure ==
  /\ pc = "done" /\ status # "CRASHED"
  /\ R!Start
  /\ UNCHANGED <<injectionVars, sameKey>>
Open ==
  /\ status = "SUCCESS"
  /\ R!Start
  /\ UNCHANGED <<injectionVars, sameKey>>

Decode == R!Retrieve /\ UNCHANGED <<injectionVars, sameKey>>
DecodeAstray == R!EndAstray /\ UNCHANGED <<injectionVars, sameKey>>

Terminated ==
  /\ pc = "done"
  /\ status = "SUCCESS" => rpc = "done"
  /\ UNCHANGED vars

Next == Encode \/ Open \/ Decode \/ DecodeAstray \/ Terminated

\* Outside its buffers the decoder need not come to an end.
Fairness == WF_vars(Encode \/ Open \/ Decode)
Spec == ChannelInit /\ [][Next]_vars
FairSpec == Spec /\ Fairness
-----------------------------------------------------------------------------
Statuses == {"INCOMPLETE", "SUCCESS", "FAILURE", "CRASHED"}
Carrier == [key : Nat, run : Nat, header : Nat, from : Nat]

TypeOK ==
  /\ messageLength \in 0 .. MaxMessage
  /\ dry \in [0 .. FullRuns - 1 -> 0 .. NoOfColumns]
  /\ dryTotal \in Nat
  /\ pc \in {"outer", "inner", "done"} /\ status \in Statuses
  /\ consumed \in Nat /\ digester \in Nat /\ rows \in Nat
  /\ carried \in Seq(Carrier)
  /\ cursor \in Nat /\ window \in Nat /\ claimed \in BOOLEAN
  /\ sameKey \in BOOLEAN
  /\ rpc \in {"idle", "header", "headerRows", "payload", "payloadRows", "astray", "done"}
  /\ rconsumed \in Nat /\ rrows \in Nat
  /\ retrieved \in Seq(Nat \cup {R!Noise})
  /\ result \in {"none", "returned", "UNDEFINED"}
  /\ rcursor \in Nat /\ rwindow \in Nat /\ rclaimed \in BOOLEAN

\* The encoder never asks the pool while a request is in process (it would get
\* NULL for a matrix) and never denies rows it does not hold: while it drops
\* rows, what the request still claims is what the matrix it is trying needs
\* (c_l_randompool.cpp:59, c_l_dynamicmatrix.cpp:334-350).
MatrixIsTheClaimedKey ==
  /\ pc = "outer" => ~claimed
  /\ pc = "inner" => claimed /\ window = StreamSize(rows) /\ rows >= HeaderSize

\* A header says how many message bits its run carries, and only the last one
\* of a finished message is zero: no run that carries data can be taken for the
\* end, and no count is cut by the width of the header.
HeadersTellTheTruth ==
  \A i \in DOMAIN carried :
    LET next == IF i < Len(carried) THEN carried[i + 1].from ELSE digester
    IN  /\ carried[i].header = next - carried[i].from
        /\ carried[i].header = 0 <=> status = "SUCCESS" /\ i = Len(carried)

\* Success means all of the message: there is no partial stego image.
SuccessIsComplete ==
  status = "SUCCESS" => digester = messageLength

\* The decoder is where the encoder was: at the start of every run its pool
\* continues at the block of key the encoder's matrix for that run began with,
\* and at the data rows behind the header rows of it.
KeysStayTogether ==
  sameKey /\ rpc \notin {"idle", "done"} =>
    \E i \in DOMAIN carried :
      /\ carried[i].run = rconsumed
      /\ rcursor = IF rpc \in {"header", "headerRows"}
                   THEN carried[i].key
                   ELSE carried[i].key + HeaderSize * BlockColumns

\* With the key of the encoder, the decoder reads message bits in order, stays
\* inside the parities and inside the buffer it reserved, and the message it
\* returns is the message.
RetrievedIsTheMessage ==
  sameKey =>
    /\ result # "UNDEFINED"
    /\ retrieved = [i \in 1 .. Len(retrieved) |-> i]
    /\ result = "returned" => Len(retrieved) = messageLength

\* The two programs and their pools implement the channel.  A crash of the
\* encoder shows as a refusal: it leaves no stego image.
ChannelState ==
  IF rpc = "done" THEN "delivered"
  ELSE IF status = "SUCCESS" THEN "carried"
  ELSE IF status = "INCOMPLETE" THEN "embedding" ELSE "refused"
Delivered == IF rpc = "done" THEN retrieved ELSE << >>
Channel == INSTANCE StegoChannel WITH
             length <- messageLength, state <- ChannelState, delivered <- Delivered
ImplementsChannel == Channel!Spec

\* The encoder's loop ends: it drops rows or uses up coefficients.
EmbeddingEnds == <>(pc = "done")

\* With the key of the encoder the decoder's loop, which has no bound, returns:
\* it comes to the zero header before it comes to the end of a buffer, however
\* the last bits of the message fell on the runs.
RetrievalEnds == rpc = "header" /\ sameKey ~> result = "returned"

-----------------------------------------------------------------------------
(* What the comments say and the code does not do.                         *)

\* "return false if the embeding fails for any reason" (c_l_wetencoder.cpp:33).
FailureIsReported == status # "CRASHED"

\* "the JPEG images are designed to support up to 64Kx64K coefficients, unsigned
\* int should be enough" (common.h:38): the size of a code matrix does not wrap.
UnsignedIntIsEnough == rows * BlockColumns < SizeModulus

\* "return false if the retreiving fails for any reason" (c_l_wetdecoder.cpp:26).
RetrievalFailureIsReported == result # "UNDEFINED"
=============================================================================
