-------------------------- MODULE MessageRetrieval --------------------------
(***************************************************************************)
(* C_L_DynamicMatrix::MessageRetrieval (c_l_dynamicmatrix.cpp:571-697):    *)
(* per run, HeaderSize rows of key multiply the parities of the run into   *)
(* the header; a header q > 0 says that the next q rows give q message     *)
(* bits, a header 0 ends the message.                                      *)
(*                                                                         *)
(* carried is what the stego image holds (MessageInjection): which rows of *)
(* which key, multiplied by which run, give what.  Any other product is    *)
(* noise.                                                                  *)
(***************************************************************************)
EXTENDS TulipanGlobals, Sequences

CONSTANTS BlockBits, BlockColumns, ParitiesLength, HeaderSize, SizeModulus,
          GiantStep, NULL

NoOfColumns == BlockColumns * BlockBits

VARIABLES
  carried,     \* the stego image
  sameKey,     \* the decoder was given the key of the encoder
  pc,          \* "idle", "header", "headerRows", "payload", "payloadRows", "astray",
               \* "done"
  consumed,    \* NoOfConsumedCoefficents
  rows,        \* NoOfCurrentMatrixRows
  retrieved,   \* the MessageLength bits set so far: positions in the message, or Noise
  result,      \* "none", "returned", or "UNDEFINED" once it left its buffers
  cursor, window, claimed, matrix

keyVars == <<cursor, window, claimed, matrix>>
retrievalVars == <<pc, consumed, rows, retrieved, result, keyVars>>

Key == INSTANCE KeyStream WITH granted <- matrix, Sizes <- Nat

Noise == -1

\* The matrix whose header rows start at block k of the key, for the run at c.
Matches(k, c) == {i \in DOMAIN carried :
                    sameKey /\ carried[i].key = k /\ carried[i].run = c}

HeadersRead(k, c) ==
  IF Matches(k, c) # {}
  THEN {carried[i].header : i \in Matches(k, c)}
  ELSE 0 .. 2 ^ HeaderSize - 1

\* (Mutant: the bits of a run come in the wrong order.)
BitsReadBackwards(k, c, q) ==
  LET first == k - HeaderSize * BlockColumns
  IN  IF Matches(first, c) # {}
      THEN [j \in 1 .. q |-> carried[CHOOSE i \in Matches(first, c) : TRUE].from - j]
      ELSE [j \in 1 .. q |-> Noise]
\* The bits q rows at block k give for the run at c: message bits when they are
\* the data rows of a matrix, which follow its header rows.
BitsRead(k, c, q) ==
  LET first == k - HeaderSize * BlockColumns
  IN  IF \E i \in Matches(first, c) : carried[i].header = q
      THEN LET i == CHOOSE i \in Matches(first, c) : carried[i].header = q
           IN  [j \in 1 .. q |-> carried[i].from + j]
      ELSE [j \in 1 .. q |-> Noise]

Init ==
  /\ pc = "idle"
  /\ consumed = 0
  /\ rows = 0
  /\ retrieved = << >>
  /\ result = "none"
  /\ Key!Init

Start ==
  /\ pc = "idle"
  /\ pc' = "header"
  /\ UNCHANGED <<consumed, rows, retrieved, result, keyVars>>

\* (Mutant: the header is requested in blocks instead of rows.)
RequestHeaderBlocks ==
  /\ pc = "header"
  /\ Key!Request(HeaderSize)
  /\ pc' = "headerRows"
  /\ UNCHANGED <<consumed, rows, retrieved, result>>
RequestHeaderRows ==
  /\ pc = "header"
  /\ Key!Request(HeaderSize * BlockColumns)
  /\ pc' = "headerRows"
  /\ UNCHANGED <<consumed, rows, retrieved, result>>

\* Nothing stops the loop at the end of the parities.
RunFits == consumed + NoOfColumns <= ParitiesLength

ReadHeader ==
  /\ pc = "headerRows"
  /\ RunFits
  /\ Key!Commit
  /\ \E q \in HeadersRead(cursor, consumed) :
       /\ rows' = q
       /\ IF q > 0
          THEN pc' = "payload" /\ UNCHANGED <<consumed, result>>
          ELSE /\ pc' = "done" /\ result' = "returned"
               /\ consumed' = consumed + NoOfColumns
  /\ UNCHANGED retrieved

\* The size of the request is an unsigned int product (line 552).
StreamFits == rows * BlockColumns < SizeModulus

RequestDataRows ==
  /\ pc = "payload"
  /\ StreamFits
  /\ Key!Request(rows * BlockColumns)
  /\ pc' = "payloadRows"
  /\ UNCHANGED <<consumed, rows, retrieved, result>>

\* MessageEstimation has room for ParitiesLength bits.
BitsFit == Len(retrieved) + rows <= ParitiesLength

ReadBits ==
  /\ pc = "payloadRows"
  /\ BitsFit
  /\ Key!Commit
  /\ retrieved' = retrieved \o BitsRead(cursor, consumed, rows)
  /\ consumed' = consumed + NoOfColumns
  /\ pc' = "header"
  /\ UNCHANGED <<rows, result>>

\* A read or write outside a buffer.  The loop has no test for it and goes on
\* with what is there: the headers may be anything.
LeaveBuffers ==
  /\ \/ pc = "headerRows" /\ ~RunFits
     \/ pc = "payload" /\ ~StreamFits
     \/ pc = "payloadRows" /\ ~BitsFit
  /\ pc' = "astray"
  /\ result' = "UNDEFINED"
  /\ UNCHANGED <<consumed, rows, retrieved, keyVars>>

\* Out there a zero header may come and end the loop, or the process dies; or
\* the loop goes on, for as long as it finds no zero.
EndAstray ==
  /\ pc = "astray"
  /\ pc' = "done"
  /\ UNCHANGED <<consumed, rows, retrieved, result, keyVars>>

\* The steps the program is sure to take.
Retrieve ==
  \/ RequestHeaderRows
  \/ ReadHeader
  \/ RequestDataRows
  \/ ReadBits
  \/ LeaveBuffers
=============================================================================
