-------------------------- MODULE WetChannelProofs --------------------------
(***************************************************************************)
(* What holds of the encoder and the decoder for every size of cover, run, *)
(* header and message, every distribution of dry coefficients and every    *)
(* outcome of the eliminations: the two programs stay at the same block of *)
(* the key, and what the decoder returns is the message.                   *)
(*                                                                         *)
(* The inductive invariant describes carried as a chain: each matrix       *)
(* starts, in the key, in the coefficients and in the message, where the   *)
(* one before it ends, and the last one ends where the encoder stands.     *)
(***************************************************************************)
EXTENDS WetChannel, GlobalsTheorems

-----------------------------------------------------------------------------
EncType ==
  /\ messageLength \in 0 .. MaxMessage
  /\ dry \in [0 .. FullRuns - 1 -> 0 .. NoOfColumns]
  /\ dryTotal \in Nat
  /\ pc \in {"outer", "inner", "done"}
  /\ status \in Statuses
  /\ consumed \in Nat /\ digester \in Nat /\ rows \in Nat
  /\ carried \in Seq(Carrier)
  /\ cursor \in Nat /\ window \in Nat
  /\ claimed \in BOOLEAN

DecType ==
  /\ sameKey \in BOOLEAN
  /\ rpc \in {"idle", "header", "headerRows", "payload", "payloadRows", "astray", "done"}
  /\ rconsumed \in Nat /\ rrows \in Nat
  /\ retrieved \in Seq(Nat \cup {R!Noise})
  /\ result \in {"none", "returned", "UNDEFINED"}
  /\ rcursor \in Nat /\ rwindow \in Nat
  /\ rclaimed \in BOOLEAN

\* Where the loops of the encoder stand.  The last line of the inner loop is why
\* no run that carries data has a zero header: a matrix is left without data
\* rows only by a run with at most one dry coefficient, which cannot hold it.
EncControl ==
  /\ pc = "done" <=> status # "INCOMPLETE"
  /\ pc = "outer" => ~claimed
  /\ pc = "inner" =>
       /\ claimed
       /\ window = StreamSize(rows)
       /\ rows >= HeaderSize
       /\ rows - HeaderSize <= MaxRows
       /\ rows - HeaderSize <= messageLength - digester
       /\ RunFits /\ digester < messageLength /\ rows = HeaderSize => DryHere <= 1
  /\ digester <= messageLength
  /\ status = "SUCCESS" => digester = messageLength /\ Len(carried) > 0

NextFrom(i) == IF i < Len(carried) THEN carried[i + 1].from ELSE digester
NextKey(i) == IF i < Len(carried) THEN carried[i + 1].key ELSE cursor

\* Matrix i of the chain.
Link(i) ==
  /\ carried[i].run = (i - 1) * NoOfColumns
  /\ carried[i].run + NoOfColumns <= ParitiesLength
  /\ HeaderSize + carried[i].header <= dry[i - 1]
  /\ carried[i].from <= carried[i].run
  /\ (HeaderSize + carried[i].header) * BlockColumns < SizeModulus
  /\ NextFrom(i) = carried[i].from + carried[i].header
  /\ NextKey(i) = carried[i].key + (HeaderSize + carried[i].header) * BlockColumns
  /\ carried[i].header = 0 <=> status = "SUCCESS" /\ i = Len(carried)

Chain ==
  /\ consumed = Len(carried) * NoOfColumns
  /\ digester <= consumed
  /\ \A i \in 1 .. Len(carried) : Link(i)
  /\ Len(carried) > 0 => carried[1].key = 0 /\ carried[1].from = 0
  /\ Len(carried) = 0 => cursor = 0 /\ digester = 0

EncInv == EncType /\ EncControl /\ Chain

\* The decoder is at matrix i of the chain.
At(i) ==
  /\ rconsumed = carried[i].run
  /\ retrieved = [j \in 1 .. carried[i].from |-> j]
  /\ rpc \in {"header", "headerRows"} => rcursor = carried[i].key
  /\ rpc = "headerRows" => rwindow = HeaderSize * BlockColumns
  /\ rpc \in {"payload", "payloadRows"} =>
       /\ rcursor = carried[i].key + HeaderSize * BlockColumns
       /\ rrows = carried[i].header
       /\ rrows > 0
  /\ rpc = "payloadRows" => rwindow = rrows * BlockColumns

DecControl ==
  /\ rpc = "idle" => /\ rconsumed = 0 /\ rcursor = 0 /\ retrieved = << >>
                     /\ result = "none"
  /\ rpc \in {"idle", "header", "payload"} => ~rclaimed
  /\ rpc \in {"headerRows", "payloadRows"} => rclaimed
  /\ rpc # "idle" => status = "SUCCESS"

DecSync ==
  sameKey =>
    /\ rpc # "astray"
    /\ rpc \notin {"idle", "done"} =>
         result = "none" /\ \E i \in 1 .. Len(carried) : At(i)
    /\ rpc = "done" =>
         result = "returned" /\ retrieved = [j \in 1 .. messageLength |-> j]

IInv == EncInv /\ DecType /\ DecControl /\ DecSync

-----------------------------------------------------------------------------
\* The derived constants are counts.
LEMMA Constants ==
  /\ NoOfColumns \in Nat \ {0}
  /\ FullRuns \in Nat
  /\ MaxRows \in Nat \ {0}
  /\ ParitiesLength = NoOfColumns * FullRuns + (ParitiesLength % NoOfColumns)
  /\ ParitiesLength % NoOfColumns \in 0 .. NoOfColumns - 1
<1>1. NoOfColumns \in Nat \ {0}
  BY InjectionAssumption DEF NoOfColumns
<1>2. MaxRows \in Nat \ {0}
  BY HeaderRange DEF MaxRows
<1>3. ParitiesLength \in Nat
  BY InjectionAssumption
<1> QED BY <1>1, <1>2, <1>3, DivMod DEF FullRuns

\* A run that fits has its entry in dry.
LEMMA RunIndex ==
  ASSUME NEW k \in Nat, k * NoOfColumns + NoOfColumns <= ParitiesLength
  PROVE  /\ (k * NoOfColumns) \div NoOfColumns = k
         /\ k \in 0 .. FullRuns - 1
<1> DEFINE C == NoOfColumns
           left == ParitiesLength % C
<1>1. /\ C \in Nat \ {0} /\ FullRuns \in Nat
      /\ ParitiesLength = C * FullRuns + left /\ left \in 0 .. C - 1
  BY Constants
<1> HIDE DEF C, left
<1>2. C * k + C <= ParitiesLength
  BY <1>1 DEF C
<1>3. (C * k) \div C = k /\ C * k = k * C
  BY <1>1, MultMod
<1>4. k < FullRuns
  <2> SUFFICES ASSUME k >= FullRuns PROVE FALSE
    BY <1>1
  <2>1. C * k >= C * FullRuns
    BY <1>1
  <2> QED BY <2>1, <1>1, <1>2
<1> QED BY <1>1, <1>3, <1>4 DEF C

\* A run gets at most the bits that are left and at most what a header can
\* count, and none only if it has at most one dry coefficient.
LEMMA EstimateIsBounded ==
  ASSUME NEW d \in Nat, NEW v \in Nat \ {0}, NEW left \in Nat,
         messageLength \in Nat
  PROVE  /\ EstimateNoOfRows(d, v, left) \in Nat
         /\ EstimateNoOfRows(d, v, left) <= left
         /\ EstimateNoOfRows(d, v, left) <= MaxRows
         /\ left > 0 /\ EstimateNoOfRows(d, v, left) = 0 => d <= 1
<1> DEFINE total == messageLength + HeaderSize * TotalNoOfMatrices
           x == d * (total + EstimateSlack)
<1>1. TotalNoOfMatrices \in Nat
  BY Constants, CeillingDivideIsCeiling, InjectionAssumption DEF TotalNoOfMatrices
<1>2. HeaderSize * TotalNoOfMatrices \in Nat
  BY <1>1, InjectionAssumption
<1>3. x \in Nat
  BY <1>2, InjectionAssumption
<1> HIDE DEF x
<1>4. CeillingDivide(x, v) \in Nat
  BY <1>3, CeillingDivideIsCeiling
<1>5. RecommendedRows(d, v) \in Int
  BY <1>4, InjectionAssumption DEF RecommendedRows, x
<1>6. d \div 2 \in Nat /\ (d \div 2 = 0 => d <= 1)
  OBVIOUS
<1> QED BY <1>5, <1>6, Constants DEF EstimateNoOfRows

-----------------------------------------------------------------------------
\* The initial states satisfy the invariant of the encoder.
LEMMA InitEncInv == Init => EncInv
<1> SUFFICES ASSUME Init PROVE EncInv
  OBVIOUS
<1>1. /\ messageLength \in 0 .. MaxMessage
      /\ dry \in [0 .. FullRuns - 1 -> 0 .. NoOfColumns]
      /\ dryTotal \in DryTotals(dry)
      /\ pc = "outer" /\ status = "INCOMPLETE" /\ consumed = 0 /\ digester = 0
      /\ rows = 0 /\ carried = << >> /\ cursor = 0 /\ window = 0
  BY DEF Init, Key!Init
<1>2. claimed = FALSE
  BY DEF Init, Key!Init
<1>3. dryTotal \in Nat
  <2>1. dryTotal \in 0 .. ParitiesLength
    BY <1>1, Zenon DEF DryTotals
  <2> QED BY <2>1, InjectionAssumption
<1>4. carried \in Seq(Carrier)
  BY <1>1
<1>5. claimed \in BOOLEAN
  BY <1>2
<1>6. EncType
  BY <1>1, <1>3, <1>4, <1>5, Zenon DEF EncType, Statuses
<1>7. EncControl
  BY <1>1, <1>2, InjectionAssumption DEF EncControl
<1>8. Chain
  BY <1>1, Constants DEF Chain
<1> QED BY <1>6, <1>7, <1>8 DEF EncInv

\* Steps that leave carried and where it ends alone keep the chain.
LEMMA ChainUnchanged ==
  ASSUME EncInv, status = "INCOMPLETE", status' # "SUCCESS",
         UNCHANGED <<inputs, consumed, digester, carried, cursor>>
  PROVE  Chain'
<1> USE DEF EncInv, inputs
<1>1. ASSUME NEW i \in 1 .. Len(carried)
      PROVE  Link(i)'
  BY <1>1 DEF Chain, Link, NextFrom, NextKey, NoOfColumns
<1> QED BY <1>1 DEF Chain, NoOfColumns

\* A step that only ends the embedding without a stego image.
LEMMA StopKeepsEncInv ==
  ASSUME EncInv, pc # "done", pc' = "done", status' \in {"FAILURE", "CRASHED"},
         UNCHANGED <<inputs, consumed, digester, rows, carried, cursor, window, claimed>>
  PROVE  EncInv'
<1>1. EncType'
  BY DEF EncInv, EncType, inputs, Statuses
<1>2. status = "INCOMPLETE"
  BY DEF EncInv, EncControl
<1>3. EncControl'
  BY DEF EncInv, EncControl, inputs
<1>4. Chain'
  BY <1>2, ChainUnchanged
<1> QED BY <1>1, <1>3, <1>4 DEF EncInv

\* Drawing a matrix for the next run keeps the encoder's invariant.
LEMMA GenerateKeepsEncInv ==
  ASSUME EncInv, GeneratePrimitiveMatrix
  PROVE  EncInv'
<1>1. PICK dryCount \in DryCounts(consumed), divisor \in Divisors \ {0} :
        LET r == HeaderSize + EstimateNoOfRows(dryCount, divisor, messageLength - digester)
        IN  rows' = r /\ Key!Request(StreamSize(r))
  BY DEF GeneratePrimitiveMatrix
<1> DEFINE left == messageLength - digester
           estimate == EstimateNoOfRows(dryCount, divisor, left)
<1>2. /\ messageLength \in Nat /\ digester \in Nat /\ digester <= messageLength
      /\ pc = "outer" /\ dryTotal \in Nat /\ consumed \in Nat /\ cursor \in Nat
      /\ status = "INCOMPLETE"
  BY InjectionAssumption DEF EncInv, EncType, EncControl, GeneratePrimitiveMatrix
<1>3. /\ rows' = HeaderSize + estimate
      /\ window' = StreamSize(rows') /\ claimed' = TRUE /\ cursor' = cursor
      /\ pc' = "inner"
      /\ UNCHANGED <<inputs, status, consumed, digester, carried>>
  BY <1>1 DEF GeneratePrimitiveMatrix, Key!Request
<1>4. UNCHANGED <<messageLength, dry, dryTotal, status, consumed, digester, carried>>
  BY <1>3 DEF inputs
<1>5. divisor \in Nat \ {0}
  BY <1>2 DEF Divisors
<1>6. dryCount \in 0 .. NoOfColumns
  <2>1. CASE RunFits
    <3>1. consumed = Len(carried) * NoOfColumns /\ Len(carried) \in Nat
      BY DEF EncInv, Chain, EncType
    <3>2. consumed \div NoOfColumns \in 0 .. FullRuns - 1
      BY <2>1, <3>1, RunIndex DEF RunFits
    <3>3. dryCount = dry[consumed \div NoOfColumns]
      BY <2>1 DEF RunFits, DryCounts
    <3> QED BY <3>2, <3>3 DEF EncInv, EncType
  <2>2. CASE ~RunFits
    BY <2>2 DEF RunFits, DryCounts
  <2> QED BY <2>1, <2>2
<1>7. left \in Nat /\ dryCount \in Nat
  BY <1>2, <1>6, Constants
<1>8. /\ estimate \in Nat
      /\ estimate <= left
      /\ estimate <= MaxRows
      /\ left > 0 /\ estimate = 0 => dryCount <= 1
  BY <1>2, <1>5, <1>7, EstimateIsBounded
<1> HIDE DEF estimate
<1>9. RunFits => dryCount = DryHere
  BY DEF DryCounts, RunFits, DryHere
<1>10. StreamSize(rows') \in Nat
  BY <1>3, <1>8, InjectionAssumption DEF StreamSize
<1>11. EncType'
  <2>1. /\ messageLength' \in 0 .. MaxMessage
        /\ dry' \in [0 .. FullRuns - 1 -> 0 .. NoOfColumns]
        /\ dryTotal' \in Nat
        /\ pc' \in {"outer", "inner", "done"}
        /\ status' \in Statuses
        /\ consumed' \in Nat /\ digester' \in Nat
        /\ carried' \in Seq(Carrier)
        /\ cursor' \in Nat /\ window' \in Nat
    BY <1>3, <1>4, <1>10 DEF EncInv, EncType
  <2>2. rows' \in Nat
    BY <1>3, <1>8, InjectionAssumption
  <2>3. claimed' \in BOOLEAN
    BY <1>3
  <2> QED BY <2>1, <2>2, <2>3, Zenon DEF EncType
<1>12. EncControl'
  <2>1. window' = StreamSize(rows)'
    BY <1>3 DEF StreamSize
  <2>2. RunFits' = RunFits /\ DryHere' = DryHere
    BY <1>4 DEF RunFits, DryHere
  <2>3. rows' - HeaderSize = estimate
    BY <1>3, <1>8, InjectionAssumption
  <2>4. rows' >= HeaderSize
    BY <1>3, <1>8, InjectionAssumption
  <2>5. rows' = HeaderSize => estimate = 0
    BY <1>3, <1>8, InjectionAssumption
  <2>6. RunFits' /\ digester' < messageLength' /\ rows' = HeaderSize => DryHere' <= 1
    BY <1>2, <1>4, <1>8, <1>9, <2>2, <2>5
  <2> QED BY <1>2, <1>3, <1>4, <1>8, <2>1, <2>3, <2>4, <2>6 DEF EncInv, EncControl
<1>13. Chain'
  BY <1>2, <1>3, <1>4, ChainUnchanged
<1> QED BY <1>11, <1>12, <1>13 DEF EncInv

\* Dropping a row gives one row of key back: the claim stays the matrix's size.
LEMMA DropRowKeepsEncInv ==
  ASSUME EncInv, DropRow
  PROVE  EncInv'
<1>1. /\ rows \in Nat /\ window \in Nat /\ cursor \in Nat /\ claimed
      /\ pc = "inner" /\ status = "INCOMPLETE"
      /\ rows >= HeaderSize /\ rows - HeaderSize <= MaxRows
      /\ rows - HeaderSize <= messageLength - digester
      /\ messageLength \in Nat /\ digester \in Nat /\ digester <= messageLength
      /\ window = rows * BlockColumns
      /\ window = (rows * BlockColumns) % SizeModulus
  BY InjectionAssumption
  DEF EncInv, EncType, EncControl, DropRow, StreamHoldsMatrix, StreamSize
<1>2. /\ rows' = rows - 1
      /\ UNCHANGED <<messageLength, dry, dryTotal, consumed, digester, carried>>
  BY DEF DropRow, inputs
<1>3. CASE rows - 1 <= HeaderSize
  <2>1. /\ pc' = "done" /\ status' = "FAILURE"
        /\ UNCHANGED <<cursor, window, claimed>>
    BY <1>3 DEF DropRow, Stop, keyVars
  <2>2. rows' \in Nat
    BY <1>1, <1>2, InjectionAssumption
  <2>3. EncType'
    BY <1>2, <2>1, <2>2 DEF EncInv, EncType, Statuses
  <2>4. EncControl'
    BY <1>1, <1>2, <2>1 DEF EncInv, EncControl
  <2>5. Chain'
    BY <1>1, <1>2, <2>1, ChainUnchanged DEF inputs
  <2> QED BY <2>3, <2>4, <2>5 DEF EncInv
<1>4. CASE ~(rows - 1 <= HeaderSize)
  <2>1. /\ UNCHANGED <<pc, status, cursor, claimed>>
        /\ window' = window - BlockColumns
    BY <1>4 DEF DropRow, Key!Deny
  <2>2. rows' \in Nat /\ rows' > HeaderSize
    BY <1>1, <1>2, <1>4, InjectionAssumption
  <2>3. rows' * BlockColumns = rows * BlockColumns - BlockColumns
    BY <1>1, <1>2, InjectionAssumption
  <2>4. rows * BlockColumns < SizeModulus
    BY <1>1, InjectionAssumption
  <2>5. rows' * BlockColumns \in Nat
    BY <2>2, Products, InjectionAssumption
  <2>6. window' = StreamSize(rows)' /\ window' \in Nat
    BY <1>1, <2>1, <2>3, <2>4, <2>5, InjectionAssumption DEF StreamSize
  <2>7. EncType'
    BY <1>2, <2>1, <2>2, <2>6 DEF EncInv, EncType
  <2>8. EncControl'
    <3>1. rows' - HeaderSize <= MaxRows /\ rows' - HeaderSize <= messageLength - digester
      BY <1>1, <1>2, InjectionAssumption, Constants
    <3> QED BY <1>1, <1>2, <2>1, <2>2, <2>6, <3>1, InjectionAssumption
            DEF EncControl, EncInv
  <2>9. Chain'
    BY <1>1, <1>2, <2>1, ChainUnchanged DEF inputs
  <2> QED BY <2>7, <2>8, <2>9 DEF EncInv
<1> QED BY <1>3, <1>4

\* An accepted matrix adds one link, which starts where the chain ended.
LEMMA AcceptKeepsEncInv ==
  ASSUME EncInv, AcceptMatrix
  PROVE  EncInv'
<1> DEFINE n == Len(carried)
           d == rows - HeaderSize
           new == [key |-> cursor, run |-> consumed, header |-> Header, from |-> digester]
<1>1. /\ rows \in Nat /\ cursor \in Nat /\ consumed \in Nat
      /\ pc = "inner" /\ status = "INCOMPLETE"
      /\ rows >= HeaderSize /\ d <= MaxRows
      /\ d <= messageLength - digester
      /\ messageLength \in Nat /\ digester \in Nat /\ digester <= messageLength
      /\ window = rows * BlockColumns
      /\ window = (rows * BlockColumns) % SizeModulus
      /\ rows <= DryHere /\ RunFits
      /\ RunFits /\ digester < messageLength /\ rows = HeaderSize => DryHere <= 1
  BY InjectionAssumption
  DEF EncInv, EncType, EncControl, AcceptMatrix, StreamHoldsMatrix, StreamSize
<1>2. /\ UNCHANGED <<messageLength, dry, dryTotal, rows>>
      /\ cursor' = cursor + window /\ window' = 0 /\ claimed' = FALSE
      /\ consumed' = consumed + NoOfColumns
      /\ digester' = digester + d
      /\ carried' = Append(carried, new)
      /\ IF d > 0 THEN pc' = "outer" /\ UNCHANGED status
                  ELSE pc' = "done" /\ status' = "SUCCESS"
  BY DEF AcceptMatrix, Key!Commit, inputs, Stop
<1>3. d \in Nat /\ HeaderSize \in Nat /\ HeaderSize > 1 /\ rows = HeaderSize + d
  BY <1>1, InjectionAssumption
<1>4. Header = d
  BY <1>1, <1>3, HeaderRange DEF Header, MaxRows
<1>5. /\ n \in Nat /\ consumed = n * NoOfColumns /\ digester <= consumed
      /\ carried \in Seq(Carrier)
      /\ \A i \in 1 .. n : Link(i)
      /\ n > 0 => carried[1].key = 0 /\ carried[1].from = 0
      /\ n = 0 => cursor = 0 /\ digester = 0
  BY DEF EncInv, EncType, Chain
<1>6. NoOfColumns \in Nat \ {0} /\ SizeModulus \in Nat \ {0} /\ BlockColumns \in Nat
  BY Constants, InjectionAssumption
<1>7. consumed \div NoOfColumns = n /\ n \in 0 .. FullRuns - 1
  BY <1>1, <1>5, RunIndex DEF RunFits
<1>8. rows <= dry[n] /\ dry[n] \in 0 .. NoOfColumns
  BY <1>1, <1>7 DEF DryHere, EncInv, EncType
<1>9. d = 0 => digester = messageLength
  BY <1>1, <1>3, <1>7, <1>8 DEF DryHere
<1>10. rows * BlockColumns \in Nat /\ rows * BlockColumns < SizeModulus
  BY <1>1, <1>6, Products
<1>11. new \in Carrier
  BY <1>1, <1>3, <1>4 DEF Carrier
<1> HIDE DEF d, new
<1>12. /\ carried' \in Seq(Carrier) /\ Len(carried') = n + 1
       /\ carried'[n + 1] = new
       /\ \A i \in 1 .. n : carried'[i] = carried[i]
  BY <1>2, <1>5, <1>11
<1>13. new.key = cursor /\ new.run = consumed /\ new.header = d /\ new.from = digester
  BY <1>4 DEF new
<1> HIDE DEF n
<1>14. EncType'
  <2>1. cursor' \in Nat /\ window' \in Nat /\ consumed' \in Nat /\ digester' \in Nat
    BY <1>1, <1>2, <1>3, <1>6, <1>10
  <2>2. pc' \in {"outer", "inner", "done"} /\ status' \in Statuses
    BY <1>1, <1>2 DEF Statuses
  <2>3. claimed' \in BOOLEAN
    BY <1>2
  <2> QED BY <1>2, <1>12, <2>1, <2>2, <2>3 DEF EncInv, EncType
<1>15. EncControl'
  BY <1>1, <1>2, <1>3, <1>5, <1>9, <1>12 DEF EncControl
<1>16. /\ consumed' = (n + 1) * NoOfColumns
       /\ digester' <= consumed'
  <2>1. (n + 1) * NoOfColumns = n * NoOfColumns + NoOfColumns
    BY <1>5, <1>6
  <2>2. d <= NoOfColumns
    BY <1>3, <1>6, <1>8
  <2>3. digester \in Nat /\ consumed \in Nat
    BY <1>1
  <2>4. digester' = digester + d /\ consumed' = consumed + NoOfColumns
    BY <1>2
  <2>5. digester' <= consumed'
    <3>1. digester <= consumed
      BY <1>5
    <3> QED BY <1>3, <1>6, <2>2, <2>3, <2>4, <3>1
  <2>6. consumed' = (n + 1) * NoOfColumns
    <3>1. consumed = n * NoOfColumns
      BY <1>5
    <3> QED BY <2>1, <2>4, <3>1, Zenon
  <2> QED BY <2>5, <2>6, Zenon
<1>17. \A i \in 1 .. n + 1 : Link(i)'
  <2> TAKE i \in 1 .. n + 1
  <2>1. CASE i \in 1 .. n
    <3>1. Link(i) /\ carried'[i] = carried[i] /\ i < Len(carried')
      BY <1>5, <1>12, <2>1
    <3>2. NextFrom(i)' = NextFrom(i) /\ NextKey(i)' = NextKey(i)
      <4>1. CASE i < n
        BY <4>1, <1>5, <1>12, <2>1 DEF NextFrom, NextKey, n
      <4>2. CASE i = n
        BY <4>2, <1>5, <1>12, <1>13, <2>1 DEF NextFrom, NextKey, n
      <4> QED BY <4>1, <4>2, <2>1, <1>5
    <3>3. carried[i].header # 0
      BY <3>1, <1>1 DEF Link
    <3> QED BY <3>1, <3>2, <3>3, <1>2, <1>12 DEF Link, NoOfColumns
  <2>2. CASE i = n + 1
    <3>1. NextFrom(i)' = digester + d /\ NextKey(i)' = cursor + window
      BY <2>2, <1>2, <1>12, <1>5 DEF NextFrom, NextKey
    <3>2. carried'[i] = new /\ i = Len(carried')
      BY <2>2, <1>12
    <3>3. new.run = (i - 1) * NoOfColumns /\ i - 1 = n
      BY <1>5, <1>13, <2>2
    <3>4. d = 0 <=> status' = "SUCCESS"
      BY <1>1, <1>2, <1>3
    <3> QED BY <3>1, <3>2, <3>3, <3>4, <1>1, <1>2, <1>3, <1>5, <1>8, <1>10, <1>13
            DEF Link, RunFits, NoOfColumns
  <2> QED BY <2>1, <2>2, <1>5
<1>18. carried'[1].key = 0 /\ carried'[1].from = 0
  BY <1>5, <1>12, <1>13
<1>19. Chain'
  BY <1>5, <1>12, <1>16, <1>17, <1>18 DEF Chain, NoOfColumns
<1> QED BY <1>14, <1>15, <1>19 DEF EncInv

\* Every step of the injection loop keeps the encoder's invariant.
LEMMA InjectKeepsEncInv ==
  ASSUME EncInv, Inject
  PROVE  EncInv'
<1>1. ASSUME DivideByZero \/ RunOutOfCoefficients \/ ReadPastStream \/ NoDryColumn
      PROVE  EncInv'
  BY <1>1, StopKeepsEncInv
  DEF DivideByZero, RunOutOfCoefficients, ReadPastStream, NoDryColumn, Stop, keyVars
<1> QED BY <1>1, GenerateKeepsEncInv, DropRowKeepsEncInv, AcceptKeepsEncInv DEF Inject

\* The encoder works only before there is a stego image, and so before the
\* decoder starts.
LEMMA EncodeKeepsInv ==
  ASSUME IInv, Encode
  PROVE  IInv'
<1>1. EncInv'
  BY InjectKeepsEncInv DEF IInv, Encode
<1>2. status = "INCOMPLETE"
  <2>1. pc # "done"
    BY DEF Encode, Inject, DivideByZero, GeneratePrimitiveMatrix, RunOutOfCoefficients,
           ReadPastStream, NoDryColumn, DropRow, AcceptMatrix
  <2> QED BY <2>1 DEF IInv, EncInv, EncControl
<1>3. rpc = "idle"
  BY <1>2 DEF IInv, DecControl
<1>4. UNCHANGED <<sameKey, rpc, rconsumed, rrows, retrieved, result,
                  rcursor, rwindow, rclaimed>>
  BY DEF Encode, retrievalVars
<1>5. DecType'
  BY <1>4 DEF IInv, DecType, R!Noise
<1>6. DecControl'
  BY <1>3, <1>4 DEF IInv, DecControl
<1>7. DecSync'
  BY <1>3, <1>4 DEF DecSync
<1> QED BY <1>1, <1>5, <1>6, <1>7 DEF IInv

-----------------------------------------------------------------------------
\* Of all matrices, only the one the decoder is at was multiplied by its run.
LEMMA OneMatrix ==
  ASSUME EncInv, sameKey, NEW i \in 1 .. Len(carried)
  PROVE  R!Matches(carried[i].key, carried[i].run) = {i}
<1>1. ASSUME NEW j \in DOMAIN carried, carried[j].run = carried[i].run
      PROVE  j = i
  <2>1. DOMAIN carried = 1 .. Len(carried) /\ Len(carried) \in Nat
    BY DEF EncInv, EncType
  <2>2. (j - 1) * NoOfColumns = (i - 1) * NoOfColumns
    BY <1>1, <2>1 DEF EncInv, Chain, Link
  <2> DEFINE a == j - 1
             b == i - 1
  <2>3. a \in Nat /\ b \in Nat /\ NoOfColumns \in Nat \ {0}
    BY <2>1, Constants, SMTT(30)
  <2> HIDE DEF a, b
  <2>4. NoOfColumns * a = NoOfColumns * b
    BY <2>2, <2>3 DEF a, b
  <2>5. a = b
    BY <2>3, <2>4, MultMod
  <2> QED BY <2>1, <2>5 DEF a, b
<1>2. i \in DOMAIN carried
  BY DEF EncInv, EncType
<1> QED BY <1>1, <1>2 DEF R!Matches

\* What the links say of one matrix, in the types the provers need.
LEMMA LinkFacts ==
  ASSUME EncInv, NEW i \in 1 .. Len(carried)
  PROVE  /\ Link(i)
         /\ i \in DOMAIN carried /\ i \in Nat /\ Len(carried) \in Nat
         /\ carried[i].key \in Nat /\ carried[i].run \in Nat
         /\ carried[i].header \in Nat /\ carried[i].from \in Nat
         /\ HeaderSize + carried[i].header <= NoOfColumns
<1>1. carried \in Seq(Carrier) /\ Link(i)
  BY DEF EncInv, EncType, Chain
<1>2. carried[i] \in Carrier
  BY <1>1
<1>3. carried[i].run = (i - 1) * NoOfColumns
      /\ carried[i].run + NoOfColumns <= ParitiesLength
      /\ HeaderSize + carried[i].header <= dry[i - 1]
  BY <1>1 DEF Link
<1>4. i - 1 \in 0 .. FullRuns - 1
  BY <1>3, RunIndex
<1>5. dry[i - 1] \in 0 .. NoOfColumns
  BY <1>4 DEF EncInv, EncType
<1>6. /\ carried[i].key \in Nat /\ carried[i].run \in Nat
      /\ carried[i].header \in Nat /\ carried[i].from \in Nat
  BY <1>2 DEF Carrier
<1>7. HeaderSize + carried[i].header <= NoOfColumns
  <2>1. HeaderSize \in Nat /\ NoOfColumns \in Nat
    BY Constants, InjectionAssumption
  <2> DEFINE d == dry[i - 1]
  <2>2. d \in 0 .. NoOfColumns /\ HeaderSize + carried[i].header <= d
    BY <1>3, <1>5
  <2> HIDE DEF d
  <2> QED BY <1>6, <2>1, <2>2
<1>8. i \in DOMAIN carried /\ i \in Nat /\ Len(carried) \in Nat
  BY <1>1
<1> QED BY <1>1, <1>6, <1>7, <1>8

\* Whatever the key, a header is a count.
LEMMA HeadersAreCounts ==
  ASSUME EncInv, NEW k, NEW c, NEW q \in R!HeadersRead(k, c)
  PROVE  q \in Nat
<1>1. \A i \in DOMAIN carried : carried[i].header \in Nat
  <2> TAKE i \in DOMAIN carried
  <2>1. i \in 1 .. Len(carried)
    BY DEF EncInv, EncType
  <2> QED BY <2>1, LinkFacts
<1>2. CASE R!Matches(k, c) # {}
  BY <1>1, <1>2 DEF R!HeadersRead, R!Matches
<1>3. CASE R!Matches(k, c) = {}
  BY <1>3, HeaderRange DEF R!HeadersRead
<1> QED BY <1>2, <1>3

\* Whatever the key, what a run is read as are positions in the message or noise.
LEMMA BitsAreBits ==
  ASSUME EncInv, NEW k \in Nat, NEW c, NEW q \in Nat
  PROVE  R!BitsRead(k, c, q) \in Seq(Nat \cup {R!Noise})
<1> DEFINE first == k - HeaderSize * BlockColumns
           S == {i \in R!Matches(first, c) : carried[i].header = q}
<1>1. CASE \E i \in R!Matches(first, c) : carried[i].header = q
  <2> DEFINE i == CHOOSE i \in R!Matches(first, c) : carried[i].header = q
  <2>1. i \in R!Matches(first, c)
    BY <1>1
  <2>2. i \in DOMAIN carried
    BY <2>1 DEF R!Matches
  <2>3. carried[i].from \in Nat
    <3>1. i \in 1 .. Len(carried)
      BY <2>2 DEF EncInv, EncType
    <3> HIDE DEF i
    <3> QED BY <3>1, LinkFacts
  <2>4. R!BitsRead(k, c, q) = [j \in 1 .. q |-> carried[i].from + j]
    BY <1>1 DEF R!BitsRead
  <2> HIDE DEF i
  <2>5. [j \in 1 .. q |-> carried[i].from + j] \in [1 .. q -> Nat \cup {R!Noise}]
    BY <2>3
  <2> QED BY <2>4, <2>5
<1>2. CASE ~(\E i \in R!Matches(first, c) : carried[i].header = q)
  <2>1. R!BitsRead(k, c, q) = [j \in 1 .. q |-> R!Noise]
    BY <1>2 DEF R!BitsRead
  <2>2. [j \in 1 .. q |-> R!Noise] \in [1 .. q -> Nat \cup {R!Noise}]
    OBVIOUS
  <2> QED BY <2>1, <2>2
<1> QED BY <1>1, <1>2

\* The steps of the decoder leave what the encoder did alone.
LEMMA DecoderLeavesEncInv ==
  ASSUME EncInv, UNCHANGED injectionVars
  PROVE  EncInv'
<1>1. UNCHANGED <<messageLength, dry, dryTotal, pc, status, consumed, digester, rows,
                  carried, cursor, window, claimed>>
  BY DEF injectionVars, inputs, keyVars
<1>2. EncType'
  BY <1>1 DEF EncInv, EncType
<1>3. EncControl'
  BY <1>1 DEF EncInv, EncControl, RunFits, DryHere, StreamSize
<1>4. Chain'
  <2>1. ASSUME NEW i \in 1 .. Len(carried)
        PROVE  Link(i)'
    BY <1>1, <2>1 DEF EncInv, Chain, Link, NextFrom, NextKey, NoOfColumns
  <2> QED BY <1>1, <2>1 DEF EncInv, Chain, NoOfColumns
<1> QED BY <1>2, <1>3, <1>4 DEF EncInv

\* The first run starts where every key stream starts.
LEMMA OpenKeepsInv ==
  ASSUME IInv, Open
  PROVE  IInv'
<1>1. /\ status = "SUCCESS" /\ rpc = "idle" /\ rpc' = "header"
      /\ UNCHANGED <<sameKey, rconsumed, rrows, retrieved, result,
                     rcursor, rwindow, rclaimed>>
      /\ UNCHANGED injectionVars
  BY DEF Open, R!Start, R!keyVars
<1>2. UNCHANGED <<carried, messageLength, status>>
  BY <1>1 DEF injectionVars, inputs
<1>3. EncInv'
  BY <1>1, DecoderLeavesEncInv DEF IInv
<1>4. DecType'
  BY <1>1 DEF IInv, DecType, R!Noise
<1>5. DecControl'
  BY <1>1, <1>2 DEF IInv, DecControl
<1>6. DecSync'
  <2>1. /\ rconsumed = 0 /\ rcursor = 0 /\ retrieved = << >> /\ result = "none"
    BY <1>1 DEF IInv, DecControl
  <2>2. 1 \in 1 .. Len(carried) /\ carried[1].key = 0 /\ carried[1].from = 0
    BY <1>1 DEF IInv, EncInv, EncType, EncControl, Chain
  <2>3. carried[1].run = 0
    <3>1. carried[1].run = (1 - 1) * NoOfColumns
      BY <2>2, LinkFacts DEF IInv, Link
    <3> QED BY <3>1, Constants
  <2>4. retrieved = [j \in 1 .. carried[1].from |-> j]
    BY <2>1, <2>2
  <2>5. At(1)'
    BY <1>1, <1>2, <2>1, <2>2, <2>3, <2>4 DEF At
  <2> QED BY <1>1, <1>2, <2>1, <2>2, <2>5 DEF DecSync
<1> QED BY <1>3, <1>4, <1>5, <1>6 DEF IInv

\* The decoder draws its header rows without losing its place.
LEMMA RequestHeaderKeepsInv ==
  ASSUME IInv, R!RequestHeaderRows, UNCHANGED <<injectionVars, sameKey>>
  PROVE  IInv'
<1>1. /\ rpc = "header" /\ rpc' = "headerRows"
      /\ rclaimed' = TRUE /\ rwindow' = HeaderSize * BlockColumns
      /\ UNCHANGED <<sameKey, rconsumed, rrows, retrieved, result, rcursor>>
  BY DEF R!RequestHeaderRows, R!Key!Request
<1>2. UNCHANGED <<carried, messageLength, status>>
  BY DEF injectionVars, inputs
<1>3. EncInv'
  BY DecoderLeavesEncInv DEF IInv
<1>4. rwindow' \in Nat /\ rclaimed' \in BOOLEAN
  BY <1>1, Products, InjectionAssumption
<1>5. DecType'
  BY <1>1, <1>4 DEF IInv, DecType, R!Noise
<1>6. DecControl'
  BY <1>1, <1>2 DEF IInv, DecControl
<1>7. ASSUME NEW i \in 1 .. Len(carried), At(i)
      PROVE  At(i)'
  BY <1>1, <1>2, <1>7 DEF At
<1>8. DecSync'
  BY <1>1, <1>2, <1>7 DEF IInv, DecSync
<1> QED BY <1>3, <1>5, <1>6, <1>8 DEF IInv

\* The decoder draws its data rows without losing its place.
LEMMA RequestDataKeepsInv ==
  ASSUME IInv, R!RequestDataRows, UNCHANGED <<injectionVars, sameKey>>
  PROVE  IInv'
<1>1. /\ rpc = "payload" /\ rpc' = "payloadRows"
      /\ rclaimed' = TRUE /\ rwindow' = rrows * BlockColumns
      /\ UNCHANGED <<sameKey, rconsumed, rrows, retrieved, result, rcursor>>
  BY DEF R!RequestDataRows, R!Key!Request
<1>2. UNCHANGED <<carried, messageLength, status>>
  BY DEF injectionVars, inputs
<1>3. EncInv'
  BY DecoderLeavesEncInv DEF IInv
<1>4. rwindow' \in Nat /\ rclaimed' \in BOOLEAN
  BY <1>1, Products, InjectionAssumption DEF IInv, DecType
<1>5. DecType'
  BY <1>1, <1>4 DEF IInv, DecType, R!Noise
<1>6. DecControl'
  BY <1>1, <1>2 DEF IInv, DecControl
<1>7. ASSUME NEW i \in 1 .. Len(carried), At(i)
      PROVE  At(i)'
  BY <1>1, <1>2, <1>7 DEF At
<1>8. DecSync'
  BY <1>1, <1>2, <1>7 DEF IInv, DecSync
<1> QED BY <1>3, <1>5, <1>6, <1>8 DEF IInv

\* The header read is the header of the matrix the decoder is at; a zero header
\* is the last one, and all of the message is before it.
LEMMA ReadHeaderKeepsInv ==
  ASSUME IInv, R!ReadHeader, UNCHANGED <<injectionVars, sameKey>>
  PROVE  IInv'
<1>1. PICK q \in R!HeadersRead(rcursor, rconsumed) :
        /\ rrows' = q
        /\ IF q > 0
           THEN rpc' = "payload" /\ UNCHANGED <<rconsumed, result>>
           ELSE /\ rpc' = "done" /\ result' = "returned"
                /\ rconsumed' = rconsumed + R!NoOfColumns
  BY DEF R!ReadHeader
<1>2. /\ rpc = "headerRows"
      /\ rclaimed' = FALSE /\ rwindow' = 0 /\ rcursor' = rcursor + rwindow
      /\ UNCHANGED <<sameKey, retrieved>>
  BY DEF R!ReadHeader, R!Key!Commit
<1>3. UNCHANGED <<carried, messageLength, status, digester>>
  BY DEF injectionVars, inputs
<1>4. EncInv'
  BY DecoderLeavesEncInv DEF IInv
<1>5. q \in Nat
  BY HeadersAreCounts DEF IInv
<1>6. R!NoOfColumns = NoOfColumns
  BY DEF R!NoOfColumns, NoOfColumns
<1>7. DecType'
  <2>1. rconsumed' \in Nat /\ rcursor' \in Nat
    <3>1. NoOfColumns \in Nat /\ rconsumed \in Nat /\ rcursor \in Nat /\ rwindow \in Nat
      BY Constants DEF IInv, DecType
    <3>2. CASE q > 0
      BY <1>1, <1>2, <3>1, <3>2
    <3>3. CASE ~(q > 0)
      BY <1>1, <1>2, <1>6, <3>1, <3>3
    <3> QED BY <3>2, <3>3
  <2>2. rclaimed' \in BOOLEAN
    BY <1>2
  <2>3. /\ rpc' \in {"idle", "header", "headerRows", "payload", "payloadRows", "astray", "done"}
        /\ result' \in {"none", "returned", "UNDEFINED"}
    BY <1>1 DEF IInv, DecType
  <2> QED BY <1>1, <1>2, <1>5, <2>1, <2>2, <2>3 DEF IInv, DecType, R!Noise
<1>8. DecControl'
  BY <1>1, <1>2, <1>3 DEF IInv, DecControl
<1>9. DecSync'
  <2> SUFFICES ASSUME sameKey PROVE DecSync'
    BY <1>2 DEF DecSync
  <2>1. PICK i \in 1 .. Len(carried) : At(i)
    BY <1>2 DEF IInv, DecSync
  <2>2. result = "none"
    BY <1>2 DEF IInv, DecSync
  <2>3. /\ rconsumed = carried[i].run /\ rcursor = carried[i].key
        /\ rwindow = HeaderSize * BlockColumns
        /\ retrieved = [j \in 1 .. carried[i].from |-> j]
    BY <1>2, <2>1 DEF At
  <2>4. /\ Link(i) /\ carried[i].header \in Nat /\ carried[i].from \in Nat
        /\ i \in DOMAIN carried
    BY LinkFacts DEF IInv
  <2>5. q = carried[i].header
    BY <2>3, OneMatrix DEF IInv, R!HeadersRead
  <2>6. CASE q > 0
    <3>1. At(i)'
      BY <1>1, <1>2, <1>3, <2>3, <2>5, <2>6 DEF At
    <3> QED BY <1>1, <1>3, <2>2, <2>6, <3>1 DEF DecSync
  <2>7. CASE ~(q > 0)
    <3>1. carried[i].header = 0
      BY <1>5, <2>5, <2>7
    <3>2. status = "SUCCESS" /\ NextFrom(i) = carried[i].from /\ i = Len(carried)
      BY <2>4, <3>1 DEF Link
    <3>3. digester = carried[i].from
      BY <2>4, <3>2 DEF NextFrom
    <3>4. digester = messageLength
      BY <3>2 DEF IInv, EncInv, EncControl
    <3> QED BY <1>1, <1>2, <1>3, <2>3, <2>7, <3>3, <3>4 DEF DecSync
  <2> QED BY <1>5, <2>6, <2>7
<1> QED BY <1>4, <1>7, <1>8, <1>9 DEF IInv

\* The bits read are the next ones of the message, and the decoder is at the
\* next matrix.
LEMMA ReadBitsKeepsInv ==
  ASSUME IInv, R!ReadBits, UNCHANGED <<injectionVars, sameKey>>
  PROVE  IInv'
<1> DEFINE bits == R!BitsRead(rcursor, rconsumed, rrows)
<1>1. /\ rpc = "payloadRows" /\ rpc' = "header"
      /\ retrieved' = retrieved \o bits
      /\ rconsumed' = rconsumed + NoOfColumns
      /\ rclaimed' = FALSE /\ rwindow' = 0 /\ rcursor' = rcursor + rwindow
      /\ UNCHANGED <<sameKey, rrows, result>>
  BY DEF R!ReadBits, R!Key!Commit, R!NoOfColumns, NoOfColumns
<1>2. UNCHANGED <<carried, messageLength, status>>
  BY DEF injectionVars, inputs
<1>3. EncInv'
  BY DecoderLeavesEncInv DEF IInv
<1>4. bits \in Seq(Nat \cup {R!Noise})
  BY BitsAreBits DEF IInv, DecType
<1> HIDE DEF bits
<1>5. DecType'
  <2>1. retrieved' \in Seq(Nat \cup {R!Noise})
    BY <1>1, <1>4 DEF IInv, DecType
  <2>2. rconsumed' \in Nat /\ rcursor' \in Nat
    BY <1>1, Constants DEF IInv, DecType
  <2>3. rclaimed' \in BOOLEAN
    BY <1>1
  <2> QED BY <1>1, <2>1, <2>2, <2>3 DEF IInv, DecType, R!Noise
<1>6. DecControl'
  BY <1>1, <1>2 DEF IInv, DecControl
<1>7. DecSync'
  <2> SUFFICES ASSUME sameKey PROVE DecSync'
    BY <1>1 DEF DecSync
  <2>1. PICK i \in 1 .. Len(carried) : At(i)
    BY <1>1 DEF IInv, DecSync
  <2>2. result = "none"
    BY <1>1 DEF IInv, DecSync
  <2> DEFINE q == carried[i].header
             from == carried[i].from
             key == carried[i].key
  <2>3. /\ rconsumed = carried[i].run
        /\ rcursor = key + HeaderSize * BlockColumns
        /\ rrows = q /\ q > 0 /\ rwindow = q * BlockColumns
        /\ retrieved = [j \in 1 .. from |-> j]
    BY <1>1, <2>1 DEF At
  <2>4. /\ Link(i) /\ q \in Nat /\ from \in Nat /\ key \in Nat
        /\ i \in DOMAIN carried /\ i \in Nat /\ Len(carried) \in Nat
    BY LinkFacts DEF IInv
  <2>5. rcursor - HeaderSize * BlockColumns = key
    BY <2>3, <2>4, Products, InjectionAssumption
  <2>6. bits = [j \in 1 .. q |-> from + j]
    <3>1. R!Matches(rcursor - HeaderSize * BlockColumns, rconsumed) = {i}
      BY <2>3, <2>5, OneMatrix DEF IInv
    <3>2. (CHOOSE k \in {i} : carried[k].header = q) = i
      OBVIOUS
    <3> QED BY <2>3, <3>1, <3>2 DEF bits, R!BitsRead
  <2> HIDE DEF q, from, key
  <2>7. retrieved \o bits = [j \in 1 .. from + q |-> j]
    BY <2>3, <2>4, <2>6
  <2>8. i < Len(carried)
    <3>1. status = "SUCCESS"
      BY <1>1 DEF IInv, DecControl
    <3> QED BY <2>3, <2>4, <3>1 DEF Link, q
  <2>9. i + 1 \in 1 .. Len(carried)
    BY <2>4, <2>8
  <2>10. carried[i + 1].from = from + q
    BY <2>4, <2>8 DEF Link, NextFrom, from, q
  <2>11. carried[i + 1].key = rcursor'
    <3>1. carried[i + 1].key = key + (HeaderSize + q) * BlockColumns
      BY <2>4, <2>8 DEF Link, NextKey, key, q
    <3>2. (HeaderSize + q) * BlockColumns = HeaderSize * BlockColumns + q * BlockColumns
      BY <2>4, InjectionAssumption
    <3>3. HeaderSize * BlockColumns \in Nat /\ q * BlockColumns \in Nat
      BY <2>4, Products, InjectionAssumption
    <3> QED BY <1>1, <2>3, <2>4, <3>1, <3>2, <3>3
  <2>12. carried[i + 1].run = rconsumed'
    <3>1. carried[i + 1].run = (i + 1 - 1) * NoOfColumns
      <4>1. Link(i + 1)
        BY <2>9, LinkFacts, Zenon DEF IInv
      <4> QED BY <4>1 DEF Link
    <3>2. rconsumed = (i - 1) * NoOfColumns
      BY <2>3, <2>4 DEF Link
    <3> QED BY <1>1, <2>4, <3>1, <3>2, Constants, SMTT(30)
  <2>13. At(i + 1)'
    BY <1>1, <1>2, <2>7, <2>10, <2>11, <2>12 DEF At
  <2> QED BY <1>1, <1>2, <2>2, <2>9, <2>13 DEF DecSync
<1> QED BY <1>3, <1>5, <1>6, <1>7 DEF IInv

\* With the key of the encoder no read or write leaves its buffer.
LEMMA LeaveBuffersKeepsInv ==
  ASSUME IInv, R!LeaveBuffers, UNCHANGED <<injectionVars, sameKey>>
  PROVE  IInv'
<1>1. /\ rpc \in {"headerRows", "payload", "payloadRows"}
      /\ rpc' = "astray" /\ result' = "UNDEFINED"
      /\ UNCHANGED <<sameKey, rconsumed, rrows, retrieved, rcursor, rwindow, rclaimed>>
  BY DEF R!LeaveBuffers, R!keyVars
<1>2. UNCHANGED <<carried, messageLength, status>>
  BY DEF injectionVars, inputs
<1>3. EncInv'
  BY DecoderLeavesEncInv DEF IInv
<1>4. DecType'
  BY <1>1 DEF IInv, DecType, R!Noise
<1>5. DecControl'
  BY <1>1, <1>2 DEF IInv, DecControl
<1>6. ~sameKey
  <2> SUFFICES ASSUME sameKey PROVE FALSE
    OBVIOUS
  <2>1. PICK i \in 1 .. Len(carried) : At(i)
    BY <1>1 DEF IInv, DecSync
  <2>2. /\ Link(i) /\ carried[i].run \in Nat
        /\ carried[i].header \in Nat /\ carried[i].from \in Nat
        /\ HeaderSize + carried[i].header <= NoOfColumns
    BY LinkFacts DEF IInv
  <2>3. rconsumed = carried[i].run /\ retrieved = [j \in 1 .. carried[i].from |-> j]
    BY <2>1 DEF At
  <2>4. R!RunFits
    BY <2>2, <2>3 DEF R!RunFits, R!NoOfColumns, NoOfColumns, Link
  <2>5. rpc \in {"payload", "payloadRows"} => R!StreamFits /\ R!BitsFit
    <3> SUFFICES ASSUME rpc \in {"payload", "payloadRows"}
                 PROVE  R!StreamFits /\ R!BitsFit
      OBVIOUS
    <3>1. rrows = carried[i].header
      BY <2>1 DEF At
    <3>2. R!StreamFits
      <4>1. /\ (HeaderSize + rrows) * BlockColumns = HeaderSize * BlockColumns + rrows * BlockColumns
            /\ HeaderSize * BlockColumns \in Nat /\ rrows * BlockColumns \in Nat
        BY <2>2, <3>1, Products, InjectionAssumption, SMTT(30)
      <4>2. (HeaderSize + rrows) * BlockColumns < SizeModulus
        BY <2>2, <3>1 DEF Link
      <4> QED BY <4>1, <4>2, InjectionAssumption DEF R!StreamFits
    <3>3. R!BitsFit
      <4>1. Len(retrieved) = carried[i].from
        BY <2>2, <2>3
      <4>2. carried[i].from <= carried[i].run /\ carried[i].run + NoOfColumns <= ParitiesLength
        BY <2>2 DEF Link
      <4>3. NoOfColumns \in Nat /\ ParitiesLength \in Nat /\ HeaderSize \in Nat
        BY Constants, InjectionAssumption
      <4>4. rrows <= NoOfColumns /\ rrows \in Nat
        BY <2>2, <3>1, <4>3
      <4>5. carried[i].from + rrows <= ParitiesLength
        BY <2>2, <4>2, <4>3, <4>4
      <4> QED BY <4>1, <4>5 DEF R!BitsFit
    <3> QED BY <3>2, <3>3
  <2> QED BY <2>4, <2>5 DEF R!LeaveBuffers
<1>7. DecSync'
  BY <1>1, <1>6 DEF DecSync
<1> QED BY <1>3, <1>4, <1>5, <1>7 DEF IInv

\* Only a decoder with another key is astray, and the invariant says nothing of
\* where it ends.
LEMMA EndAstrayKeepsInv ==
  ASSUME IInv, DecodeAstray
  PROVE  IInv'
<1>1. /\ rpc = "astray" /\ rpc' = "done"
      /\ UNCHANGED <<injectionVars, sameKey, rconsumed, rrows, retrieved, result,
                     rcursor, rwindow, rclaimed>>
  BY DEF DecodeAstray, R!EndAstray, R!keyVars
<1>2. UNCHANGED <<carried, messageLength, status>>
  BY <1>1 DEF injectionVars, inputs
<1>3. EncInv'
  BY <1>1, DecoderLeavesEncInv DEF IInv
<1>4. DecType'
  BY <1>1 DEF IInv, DecType, R!Noise
<1>5. DecControl'
  BY <1>1, <1>2 DEF IInv, DecControl
<1>6. DecSync'
  BY <1>1 DEF IInv, DecSync
<1> QED BY <1>3, <1>4, <1>5, <1>6 DEF IInv

\* Steps that change no variable keep the invariant.
LEMMA StutterKeepsInv ==
  ASSUME IInv, UNCHANGED vars
  PROVE  IInv'
<1>1. /\ UNCHANGED injectionVars
      /\ UNCHANGED <<sameKey, rpc, rconsumed, rrows, retrieved, result,
                     rcursor, rwindow, rclaimed>>
  BY DEF vars, retrievalVars
<1>2. UNCHANGED <<carried, messageLength, status>>
  BY <1>1 DEF injectionVars, inputs
<1>3. EncInv'
  BY <1>1, DecoderLeavesEncInv DEF IInv
<1>4. DecType'
  BY <1>1 DEF IInv, DecType, R!Noise
<1>5. DecControl'
  BY <1>1, <1>2 DEF IInv, DecControl
<1>6. ASSUME NEW i \in 1 .. Len(carried), At(i)
      PROVE  At(i)'
  BY <1>1, <1>2, <1>6 DEF At
<1>7. DecSync'
  BY <1>1, <1>2, <1>6 DEF IInv, DecSync
<1> QED BY <1>3, <1>4, <1>5, <1>7 DEF IInv

\* The two programs start in the invariant.
LEMMA InitInv == ChannelInit => IInv
<1> SUFFICES ASSUME ChannelInit PROVE IInv
  OBVIOUS
<1>1. EncInv /\ status = "INCOMPLETE"
  BY InitEncInv DEF ChannelInit, Init
<1>2. /\ rpc = "idle" /\ rconsumed = 0 /\ rrows = 0 /\ retrieved = << >>
      /\ result = "none" /\ rcursor = 0 /\ rwindow = 0 /\ rclaimed = FALSE
      /\ sameKey \in BOOLEAN
  BY ChannelAssumption DEF ChannelInit, R!Init, R!Key!Init
<1>3. rclaimed \in BOOLEAN
  BY <1>2
<1>4. retrieved \in Seq(Nat \cup {R!Noise})
  BY <1>2
<1>5. DecType
  BY <1>2, <1>3, <1>4 DEF DecType
<1>6. DecControl
  BY <1>1, <1>2 DEF DecControl
<1>7. DecSync
  BY <1>2 DEF DecSync
<1> QED BY <1>1, <1>5, <1>6, <1>7 DEF IInv

\* Every step of the encoder, of the hand-over and of the decoder keeps the
\* invariant.
LEMMA StepKeepsInv ==
  ASSUME IInv, [Next]_vars
  PROVE  IInv'
<1>1. CASE Encode
  BY <1>1, EncodeKeepsInv
<1>2. CASE Open
  BY <1>2, OpenKeepsInv
<1>3. CASE Decode
  BY <1>3, RequestHeaderKeepsInv, RequestDataKeepsInv, ReadHeaderKeepsInv,
     ReadBitsKeepsInv, LeaveBuffersKeepsInv DEF Decode, R!Retrieve
<1>4. CASE DecodeAstray
  BY <1>4, EndAstrayKeepsInv
<1>5. CASE Terminated \/ UNCHANGED vars
  BY <1>5, StutterKeepsInv DEF Terminated
<1> QED BY <1>1, <1>2, <1>3, <1>4, <1>5 DEF Next

\* The chain describes every reachable state of the two programs.
THEOREM ChannelInvariant == Spec => []IInv
<1> QED BY InitInv, StepKeepsInv, PTL DEF Spec

-----------------------------------------------------------------------------
\* Every variable keeps its type.
THEOREM ChannelTypeCorrect == Spec => []TypeOK
<1>1. IInv => TypeOK
  BY DEF IInv, EncInv, EncType, DecType, TypeOK
<1> QED BY <1>1, ChannelInvariant, PTL

\* What the encoder claims of the key is the matrix it is trying.
THEOREM ClaimsAreMatrices == Spec => []MatrixIsTheClaimedKey
<1>1. IInv => MatrixIsTheClaimedKey
  BY DEF IInv, EncInv, EncControl, MatrixIsTheClaimedKey
<1> QED BY <1>1, ChannelInvariant, PTL

\* Headers count the bits of their run, and only the last of a finished message
\* is zero.
THEOREM HeadersAreTrue == Spec => []HeadersTellTheTruth
<1>1. ASSUME IInv PROVE HeadersTellTheTruth
  <2> SUFFICES ASSUME NEW i \in DOMAIN carried
               PROVE  /\ carried[i].header = NextFrom(i) - carried[i].from
                      /\ carried[i].header = 0 <=> status = "SUCCESS" /\ i = Len(carried)
    BY DEF HeadersTellTheTruth, NextFrom
  <2>1. i \in 1 .. Len(carried)
    BY <1>1 DEF IInv, EncInv, EncType
  <2>2. Link(i) /\ carried[i].header \in Nat /\ carried[i].from \in Nat
    BY <1>1, <2>1, LinkFacts DEF IInv
  <2> QED BY <2>2 DEF Link
<1> QED BY <1>1, ChannelInvariant, PTL

\* Success is never partial.
THEOREM SuccessMeansAll == Spec => []SuccessIsComplete
<1>1. IInv => SuccessIsComplete
  BY DEF IInv, EncInv, EncControl, SuccessIsComplete
<1> QED BY <1>1, ChannelInvariant, PTL

\* The decoder's key is where the encoder's was, at every run.
THEOREM KeysAgree == Spec => []KeysStayTogether
<1>1. ASSUME IInv PROVE KeysStayTogether
  <2> SUFFICES ASSUME sameKey, rpc \notin {"idle", "done"}
               PROVE  \E i \in DOMAIN carried :
                        /\ carried[i].run = rconsumed
                        /\ rcursor = IF rpc \in {"header", "headerRows"}
                                     THEN carried[i].key
                                     ELSE carried[i].key + HeaderSize * BlockColumns
    BY DEF KeysStayTogether
  <2>1. PICK i \in 1 .. Len(carried) : At(i)
    BY <1>1 DEF IInv, DecSync
  <2>2. i \in DOMAIN carried
    BY <1>1, LinkFacts DEF IInv
  <2>3. rpc \in {"header", "headerRows", "payload", "payloadRows"}
    BY <1>1 DEF IInv, DecType, DecSync
  <2> QED BY <2>1, <2>2, <2>3 DEF At
<1> QED BY <1>1, ChannelInvariant, PTL

\* The decoder that has the key returns the message, whole and in order, and
\* never leaves its buffers.
THEOREM MessageComesBack == Spec => []RetrievedIsTheMessage
<1>1. ASSUME IInv PROVE RetrievedIsTheMessage
  <2> SUFFICES ASSUME sameKey
               PROVE  /\ result # "UNDEFINED"
                      /\ retrieved = [i \in 1 .. Len(retrieved) |-> i]
                      /\ result = "returned" => Len(retrieved) = messageLength
    BY DEF RetrievedIsTheMessage
  <2>1. CASE rpc = "idle"
    BY <1>1, <2>1 DEF IInv, DecControl
  <2>2. CASE rpc = "done"
    <3>1. messageLength \in Nat
      BY <1>1, InjectionAssumption DEF IInv, EncInv, EncType
    <3> QED BY <1>1, <2>2, <3>1 DEF IInv, DecSync
  <2>3. CASE rpc \notin {"idle", "done"}
    <3>1. PICK i \in 1 .. Len(carried) : At(i)
      BY <1>1, <2>3 DEF IInv, DecSync
    <3>2. carried[i].from \in Nat
      BY <1>1, LinkFacts DEF IInv
    <3>3. retrieved = [j \in 1 .. carried[i].from |-> j]
      BY <3>1 DEF At
    <3> QED BY <1>1, <2>3, <3>2, <3>3 DEF IInv, DecSync
  <2> QED BY <2>1, <2>2, <2>3
<1> QED BY <1>1, ChannelInvariant, PTL

-----------------------------------------------------------------------------
\* With one key, every step of the two programs is a step of the channel or
\* leaves the channel alone.
LEMMA StepOfTheChannel ==
  ASSUME IInv, IInv', sameKey, [Next]_vars
  PROVE  [Channel!Next]_Channel!vars
<1> DEFINE stutter == UNCHANGED <<messageLength, ChannelState, Delivered>>
<1>1. stutter => UNCHANGED Channel!vars
  BY DEF Channel!vars
<1>2. CASE Encode
  <2>1. status = "INCOMPLETE"
    <3>1. pc # "done"
      BY <1>2 DEF Encode, Inject, DivideByZero, GeneratePrimitiveMatrix,
           RunOutOfCoefficients, ReadPastStream, NoDryColumn, DropRow, AcceptMatrix
    <3> QED BY <3>1 DEF IInv, EncInv, EncControl
  <2>2. rpc = "idle" /\ rpc' = "idle"
    BY <1>2, <2>1 DEF IInv, DecControl, Encode, retrievalVars
  <2>3. messageLength' = messageLength
    BY <1>2 DEF Encode, Inject, DivideByZero, GeneratePrimitiveMatrix,
         RunOutOfCoefficients, ReadPastStream, NoDryColumn, DropRow, AcceptMatrix, inputs
  <2>4. Delivered = << >> /\ Delivered' = << >> /\ ChannelState = "embedding"
    BY <2>1, <2>2 DEF Delivered, ChannelState
  <2>5. status' \in Statuses
    BY DEF IInv, EncInv, EncType
  <2>6. CASE status' = "INCOMPLETE"
    BY <2>2, <2>3, <2>4, <2>6, <1>1 DEF ChannelState
  <2>7. CASE status' = "SUCCESS"
    <3>1. ChannelState' = "carried"
      BY <2>2, <2>7 DEF ChannelState
    <3> QED BY <2>3, <2>4, <3>1 DEF Channel!Next, Channel!Carry
  <2>8. CASE status' \in {"FAILURE", "CRASHED"}
    <3>1. ChannelState' = "refused"
      BY <2>2, <2>8 DEF ChannelState
    <3> QED BY <2>3, <2>4, <3>1 DEF Channel!Next, Channel!Refuse
  <2> QED BY <2>5, <2>6, <2>7, <2>8 DEF Statuses
<1>3. CASE Open
  <2>1. /\ rpc = "idle" /\ rpc' = "header"
        /\ messageLength' = messageLength /\ status' = status
    BY <1>3 DEF Open, R!Start, injectionVars, inputs
  <2> QED BY <1>1, <2>1 DEF ChannelState, Delivered
<1>4. CASE Decode
  <2>1. /\ rpc \notin {"idle", "done"} /\ sameKey'
        /\ messageLength' = messageLength /\ status' = status
    BY <1>4 DEF Decode, R!Retrieve, R!RequestHeaderRows, R!ReadHeader, R!RequestDataRows,
                R!ReadBits, R!LeaveBuffers, injectionVars, inputs
  <2>2. status = "SUCCESS"
    BY <2>1 DEF IInv, DecControl
  <2>3. ChannelState = "carried" /\ Delivered = << >>
    BY <2>1, <2>2 DEF ChannelState, Delivered
  <2>4. CASE rpc' # "done"
    BY <1>1, <2>1, <2>2, <2>3, <2>4 DEF ChannelState, Delivered
  <2>5. CASE rpc' = "done"
    <3>1. retrieved' = [i \in 1 .. messageLength |-> i]
      BY <2>1, <2>5 DEF IInv, DecSync
    <3>2. ChannelState' = "delivered" /\ Delivered' = retrieved'
      BY <2>5 DEF ChannelState, Delivered
    <3> QED BY <2>1, <2>3, <3>1, <3>2 DEF Channel!Next, Channel!Deliver, Channel!TheMessage
  <2> QED BY <2>4, <2>5
<1>5. CASE DecodeAstray
  BY <1>5 DEF DecodeAstray, R!EndAstray, IInv, DecSync
<1>6. CASE Terminated \/ UNCHANGED vars
  <2>1. UNCHANGED <<messageLength, rpc, status, retrieved>>
    BY <1>6 DEF Terminated, vars, injectionVars, inputs, retrievalVars
  <2> QED BY <1>1, <2>1 DEF ChannelState, Delivered
<1> QED BY <1>2, <1>3, <1>4, <1>5, <1>6 DEF Next

\* When encoder and decoder have one key, they implement the channel.
THEOREM ProgramsImplementChannel ==
  ASSUME SameKeys = {TRUE}
  PROVE  Spec => ImplementsChannel
<1>1. ChannelInit => Channel!Init
  <2> SUFFICES ASSUME ChannelInit PROVE Channel!Init
    OBVIOUS
  <2>1. /\ messageLength \in 0 .. MaxMessage /\ status = "INCOMPLETE" /\ rpc = "idle"
    BY DEF ChannelInit, Init, R!Init
  <2> QED BY <2>1 DEF Channel!Init, ChannelState, Delivered
<1>2. ChannelInit => sameKey
  BY DEF ChannelInit
<1>3. sameKey /\ [Next]_vars => sameKey'
  BY DEF Next, Encode, Open, Decode, DecodeAstray, Terminated, vars
<1>4. IInv /\ IInv' /\ sameKey /\ [Next]_vars => [Channel!Next]_Channel!vars
  BY StepOfTheChannel
<1> QED BY <1>1, <1>2, <1>3, <1>4, ChannelInvariant, PTL
        DEF Spec, ImplementsChannel, Channel!Spec
=============================================================================
