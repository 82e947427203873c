------------------------------ MODULE StegoProofs ------------------------------
(***************************************************************************)
(* That the stego image comes back, with the steps its coefficients belong *)
(* to, for every set of files and command lines and every size of the      *)
(* buffers.                                                                *)
(*                                                                         *)
(* First comes the image the calls of the writer put together, unit by     *)
(* unit (Beginning); then what an object that reads it knows behind each   *)
(* unit (AtUnit); then the readings of the cover, which all agree          *)
(* (ReadingsAgree); then what is invariant of the two commands             *)
(* (StegoImage); and last the tables.                                      *)
(***************************************************************************)
EXTENDS TranscodeProofs

-----------------------------------------------------------------------------
(* Sequences, put together.                                                *)

\* The elements of a concatenation, by their places.
LEMMA Joined ==
  ASSUME NEW m \in Nat, NEW s, s = [i \in 1 .. m |-> s[i]],
         NEW n \in Nat, NEW t, t = [i \in 1 .. n |-> t[i]]
  PROVE  s \o t = [i \in 1 .. m + n |-> IF i <= m THEN s[i] ELSE t[i - m]]
  <1> DEFINE S == {s[i] : i \in 1 .. m} \cup {t[i] : i \in 1 .. n}
  <1>1. s \in [1 .. m -> S] /\ t \in [1 .. n -> S]
    OBVIOUS
  <1> HIDE DEF S
  <1>2. s \in Seq(S) /\ Len(s) = m /\ t \in Seq(S) /\ Len(t) = n
    BY <1>1, FunctionIsASequence
  <1>3. /\ s \o t \in Seq(S) /\ Len(s \o t) = m + n
        /\ \A i \in 1 .. m + n : (s \o t)[i] = IF i <= m THEN s[i] ELSE t[i - m]
    BY <1>2, ConcatProperties
  <1> DEFINE u == s \o t
  <1>4. DOMAIN u = 1 .. m + n /\ u = [i \in 1 .. m + n |-> u[i]]
    <2>1. IsASequence(u)
      BY <1>3, SequenceOfASet
    <2> HIDE DEF u
    <2>2. Len(u) = m + n
      BY <1>3 DEF u
    <2> QED BY <2>1, <2>2, SequenceIsOnAnInterval
  <1> QED BY <1>3, <1>4

\* Up to three elements.
LEMMA JoinedElements ==
  ASSUME NEW a, NEW b, NEW c
  PROVE  /\ <<a>> \o << >> = <<a>> /\ <<a>> \o <<b>> = <<a, b>>
         /\ <<a, b>> \o << >> = <<a, b>> /\ <<a, b>> \o <<c>> = <<a, b, c>>
  <1> DEFINE s == <<a, b>>
             t == <<c>>
             v == <<a>>
             w == <<b>>
  <1>1. /\ s = [i \in 1 .. 2 |-> s[i]] /\ t = [i \in 1 .. 1 |-> t[i]]
        /\ v = [i \in 1 .. 1 |-> v[i]] /\ w = [i \in 1 .. 1 |-> w[i]]
    OBVIOUS
  <1>2. s \o t = [i \in 1 .. 2 + 1 |-> IF i <= 2 THEN s[i] ELSE t[i - 2]]
    <2> HIDE DEF s, t
    <2> QED BY <1>1, Joined
  <1>3. v \o w = [i \in 1 .. 1 + 1 |-> IF i <= 1 THEN v[i] ELSE w[i - 1]]
    <2> HIDE DEF v, w
    <2> QED BY <1>1, Joined
  <1>4. <<a, b, c>> = [i \in 1 .. 2 + 1 |-> IF i <= 2 THEN s[i] ELSE t[i - 2]]
    OBVIOUS
  <1>5. <<a, b>> = [i \in 1 .. 1 + 1 |-> IF i <= 1 THEN v[i] ELSE w[i - 1]]
    OBVIOUS
  <1>6. <<a>> \o << >> = <<a>> /\ <<a, b>> \o << >> = <<a, b>>
    <2>1. <<a>> \in Seq({a, b}) /\ <<a, b>> \in Seq({a, b})
      OBVIOUS
    <2> QED BY <2>1, ConcatEmptySeq
  <1> QED BY <1>2, <1>3, <1>4, <1>5, <1>6

-----------------------------------------------------------------------------
(* The image.                                                              *)

\* Everything on a list is among its first uses.
LEMMA EveryUseIsOnTheList ==
  ASSUME NEW S, NEW list \in Seq(S), NEW i \in DOMAIN list
  PROVE  \E k \in DOMAIN FirstUses(list) : FirstUses(list)[k] = list[i]
  <1> DEFINE uses == {m \in DOMAIN list : \A j \in 1 .. m - 1 : list[j] # list[m]}
             below(m) == {j \in uses : j < m}
             use(k) == CHOOSE m \in uses : Cardinality(below(m)) = k - 1
             same == {m \in DOMAIN list : list[m] = list[i]}
  <1>1. Len(list) \in Nat /\ DOMAIN list = 1 .. Len(list)
    BY SequenceOfASet
  <1>2. FirstUses(list) = [k \in 1 .. Cardinality(uses) |-> list[use(k)]]
    BY Zenon DEF FirstUses
  <1>3. PICK j \in same : \A m \in same : j <= m
    <2>1. same \in SUBSET Nat /\ same # {}
      BY <1>1
    <2> HIDE DEF same
    <2> QED BY <2>1, LeastNumber
  <1>4. j \in uses /\ list[j] = list[i]
    <2>1. j \in 1 .. Len(list) /\ list[j] = list[i]
      BY <1>1, <1>3
    <2>2. ASSUME NEW m \in 1 .. j - 1
          PROVE  list[m] # list[j]
      <3>1. m \in DOMAIN list /\ ~(j <= m)
        BY <1>1, <2>1
      <3>2. m \notin same
        BY <1>3, <3>1
      <3> QED BY <2>1, <3>1, <3>2
    <2> QED BY <1>1, <2>1, <2>2
  <1>5. uses \in SUBSET (1 .. Len(list)) /\ uses \in SUBSET Nat
    BY <1>1
  <1> HIDE DEF uses, same
  <1>6. IsFiniteSet(uses) /\ Cardinality(uses) \in Nat
    <2>1. IsFiniteSet(1 .. Len(list))
      BY <1>1, FS_Interval
    <2> QED BY <1>5, <2>1, FS_Subset, FS_CardinalityType
  <1>7. ASSUME NEW m \in uses, NEW T \in SUBSET uses, below(m) \in SUBSET T, m \in T
        PROVE  Cardinality(below(m)) < Cardinality(T)
    <2>1. IsFiniteSet(T) /\ Cardinality(T) \in Nat
      BY <1>6, FS_Subset, FS_CardinalityType
    <2>2. IsFiniteSet(below(m)) /\ Cardinality(below(m)) <= Cardinality(T)
          /\ (Cardinality(T) = Cardinality(below(m)) => T = below(m))
      <3> HIDE DEF below
      <3> QED BY <1>7, <2>1, FS_Subset
    <2>3. Cardinality(below(m)) \in Nat
      <3> HIDE DEF below
      <3> QED BY <2>2, FS_CardinalityType
    <2>4. m \notin below(m)
      BY <1>5
    <2>5. Cardinality(T) # Cardinality(below(m))
      <3> HIDE DEF below
      <3> QED BY <1>7, <2>2, <2>4
    <2> HIDE DEF below
    <2> QED BY <2>1, <2>2, <2>3, <2>5
  <1> DEFINE k == Cardinality(below(j)) + 1
  <1>8. k \in 1 .. Cardinality(uses) /\ Cardinality(below(j)) = k - 1 /\ Cardinality(below(j)) \in Nat
    <2>1. below(j) \in SUBSET uses
      OBVIOUS
    <2> HIDE DEF below
    <2>2. Cardinality(below(j)) < Cardinality(uses)
      BY <1>4, <1>7, <2>1
    <2>3. Cardinality(below(j)) \in Nat
      BY <1>6, <2>1, FS_Subset, FS_CardinalityType
    <2> QED BY <1>6, <2>2, <2>3
  <1>9. ASSUME NEW m \in uses, Cardinality(below(m)) = k - 1
        PROVE  m = j
    <2>1. m \in Nat /\ j \in Nat
      BY <1>4, <1>5
    <2>2. below(m) \in SUBSET uses /\ below(j) \in SUBSET uses
      OBVIOUS
    <2>3. ASSUME m < j PROVE FALSE
      <3>1. below(m) \in SUBSET below(j) /\ m \in below(j)
        <4>1. \A x \in uses : x < m => x < j
          BY <1>5, <2>1, <2>3
        <4> QED BY <1>9, <2>3, <4>1, Zenon
      <3> HIDE DEF below, k
      <3>2. Cardinality(below(m)) < Cardinality(below(j))
        BY <1>7, <2>2, <3>1
      <3> QED BY <1>8, <1>9, <3>2
    <2>4. ASSUME j < m PROVE FALSE
      <3>1. below(j) \in SUBSET below(m) /\ j \in below(m)
        <4>1. \A x \in uses : x < j => x < m
          BY <1>5, <2>1, <2>4
        <4> QED BY <1>4, <2>4, <4>1, Zenon
      <3> HIDE DEF below, k
      <3>2. Cardinality(below(j)) < Cardinality(below(m))
        BY <1>4, <1>7, <2>2, <3>1
      <3> QED BY <1>8, <1>9, <3>2
    <2> QED BY <2>1, <2>3, <2>4
  <1> HIDE DEF k
  <1>10. use(k) = j
    <2>1. \E m \in uses : Cardinality(below(m)) = k - 1
      BY <1>4, <1>8
    <2> HIDE DEF below
    <2>2. use(k) \in uses /\ Cardinality(below(use(k))) = k - 1
      BY <2>1
    <2> QED BY <1>9, <2>2
  <1> HIDE DEF use, below
  <1> QED BY <1>2, <1>4, <1>8, <1>10

\* What is in front of the tables.
FileHeader(c) == <<SOI>> \o emit_jfif_app0(c) \o emit_adobe_app14(c)

\* The places of the frame header, of the scan header and of the end.
HeaderEnd(c) == Len(FileHeader(c))
FrameAt(c) == HeaderEnd(c) + Len(emit_dqt(c)) + 1
ScanAt(c) == FrameAt(c) + Len(emit_dht(c)) + 1
ImageEnd(c) == ScanAt(c) + NoOfRows + 1

WriterCode(c) ==
  [interval |-> c.restart_interval,
   tables |-> [ci \in DOMAIN c.comp_info |->
     <<c.huff_tbl_ptrs["DC"][c.comp_info[ci].dc_tbl_no],
       c.huff_tbl_ptrs["AC"][c.comp_info[ci].ac_tbl_no]>>]]
WrittenRow(c, arrays, r) == ROW([ci \in DOMAIN c.comp_info |-> arrays[ci][r]], WriterCode(c))

UnitAt(c, arrays, i) ==
  IF i <= HeaderEnd(c) THEN FileHeader(c)[i]
  ELSE IF i < FrameAt(c) THEN emit_dqt(c)[i - HeaderEnd(c)]
  ELSE IF i = FrameAt(c) THEN emit_sof(c)[1]
  ELSE IF i < ScanAt(c) THEN emit_dht(c)[i - FrameAt(c)]
  ELSE IF i = ScanAt(c) THEN emit_sos(c)[1]
  ELSE IF i <= ScanAt(c) + NoOfRows THEN WrittenRow(c, arrays, i - ScanAt(c))
  ELSE EOI

Beginning(c, arrays, m) == [i \in 1 .. m |-> UnitAt(c, arrays, i)]

\* The file header has its marks where the color space asks for them.
LEMMA UnitsOfTheFileHeader ==
  ASSUME NEW c, IsCompress(c)
  PROVE  /\ HeaderEnd(c) \in Nat \ {0} /\ DOMAIN FileHeader(c) = 1 .. HeaderEnd(c)
         /\ FileHeader(c) = [i \in 1 .. HeaderEnd(c) |-> FileHeader(c)[i]]
         /\ FileHeader(c)[1] = SOI
         /\ \A i \in 2 .. HeaderEnd(c) :
              \/ c.write_JFIF_header /\ FileHeader(c)[i] = APP0
              \/ c.Adobe_transform # -1 /\ FileHeader(c)[i] = APP14(c.Adobe_transform)
         /\ c.write_JFIF_header => \E i \in 2 .. HeaderEnd(c) : FileHeader(c)[i] = APP0
         /\ c.Adobe_transform # -1 =>
              \E i \in 2 .. HeaderEnd(c) : FileHeader(c)[i] = APP14(c.Adobe_transform)
  <1> DEFINE mark == APP14(c.Adobe_transform)
  <1>1. CASE c.write_JFIF_header /\ c.Adobe_transform # -1
    <2>1. FileHeader(c) = <<SOI, APP0, mark>>
      BY <1>1, JoinedElements DEF FileHeader, emit_jfif_app0, emit_adobe_app14
    <2> HIDE DEF mark
    <2>2. HeaderEnd(c) = 3 /\ FileHeader(c)[1] = SOI /\ FileHeader(c)[2] = APP0 /\ FileHeader(c)[3] = mark
          /\ DOMAIN FileHeader(c) = 1 .. 3 /\ FileHeader(c) = [i \in 1 .. 3 |-> FileHeader(c)[i]]
      BY <2>1 DEF HeaderEnd
    <2> QED BY <1>1, <2>2 DEF mark
  <1>2. CASE c.write_JFIF_header /\ c.Adobe_transform = -1
    <2>1. FileHeader(c) = <<SOI, APP0>>
      BY <1>2, JoinedElements DEF FileHeader, emit_jfif_app0, emit_adobe_app14
    <2>2. HeaderEnd(c) = 2 /\ FileHeader(c)[1] = SOI /\ FileHeader(c)[2] = APP0
          /\ DOMAIN FileHeader(c) = 1 .. 2 /\ FileHeader(c) = [i \in 1 .. 2 |-> FileHeader(c)[i]]
      BY <2>1 DEF HeaderEnd
    <2> QED BY <1>2, <2>2
  <1>3. CASE ~c.write_JFIF_header /\ c.Adobe_transform # -1
    <2>1. FileHeader(c) = <<SOI, mark>>
      BY <1>3, JoinedElements DEF FileHeader, emit_jfif_app0, emit_adobe_app14
    <2> HIDE DEF mark
    <2>2. HeaderEnd(c) = 2 /\ FileHeader(c)[1] = SOI /\ FileHeader(c)[2] = mark
          /\ DOMAIN FileHeader(c) = 1 .. 2 /\ FileHeader(c) = [i \in 1 .. 2 |-> FileHeader(c)[i]]
      BY <2>1 DEF HeaderEnd
    <2> QED BY <1>3, <2>2 DEF mark
  <1>4. CASE ~c.write_JFIF_header /\ c.Adobe_transform = -1
    <2>1. FileHeader(c) = <<SOI>>
      BY <1>4, JoinedElements DEF FileHeader, emit_jfif_app0, emit_adobe_app14
    <2>2. HeaderEnd(c) = 1 /\ FileHeader(c)[1] = SOI
          /\ DOMAIN FileHeader(c) = 1 .. 1 /\ FileHeader(c) = [i \in 1 .. 1 |-> FileHeader(c)[i]]
      BY <2>1 DEF HeaderEnd
    <2> QED BY <1>4, <2>2
  <1> QED BY <1>1, <1>2, <1>3, <1>4

\* The tables that are sent are the writer's, and each that is used is sent.
LEMMA UnitsOfDQT ==
  ASSUME NEW c, IsCompress(c)
  PROVE  /\ Len(emit_dqt(c)) \in Nat /\ DOMAIN emit_dqt(c) = 1 .. Len(emit_dqt(c))
         /\ \A k \in DOMAIN emit_dqt(c) :
              \E s \in QuantSlots : emit_dqt(c)[k] = DQT(s, c.quant_tbl_ptrs[s])
         /\ \A ci \in DOMAIN c.comp_info : \E k \in DOMAIN emit_dqt(c) :
              emit_dqt(c)[k] = DQT(c.comp_info[ci].quant_tbl_no, c.quant_tbl_ptrs[c.comp_info[ci].quant_tbl_no])
  <1> DEFINE list == [ci \in DOMAIN c.comp_info |-> c.comp_info[ci].quant_tbl_no]
             slots == FirstUses(list)
  <1>1. list \in Seq(QuantSlots) /\ DOMAIN list = DOMAIN c.comp_info
    <2>1. list \in [1 .. Len(c.comp_info) -> QuantSlots] /\ Len(c.comp_info) \in Nat
      BY WrittenComponents
    <2>2. DOMAIN list = DOMAIN c.comp_info
      OBVIOUS
    <2> HIDE DEF list
    <2> QED BY <2>1, <2>2, FunctionIsASequence
  <1>2. slots \in Seq(QuantSlots)
    <2> HIDE DEF list
    <2> QED BY <1>1, FirstUsesAreOnTheList
  <1>3. \A k \in DOMAIN slots : slots[k] \in QuantSlots
    <2> HIDE DEF slots
    <2> QED BY <1>2, SequenceOfASet, Zenon
  <1>4. emit_dqt(c) = [k \in DOMAIN slots |-> DQT(slots[k], c.quant_tbl_ptrs[slots[k]])]
    BY DEF emit_dqt, list
  <1>5. Len(emit_dqt(c)) \in Nat /\ DOMAIN emit_dqt(c) = 1 .. Len(emit_dqt(c))
    BY DQTIsWritten, SequenceIsOnAnInterval DEF IsStream
  <1>6. ASSUME NEW ci \in DOMAIN c.comp_info
        PROVE  \E k \in DOMAIN slots : slots[k] = c.comp_info[ci].quant_tbl_no
    <2>1. list[ci] = c.comp_info[ci].quant_tbl_no
      OBVIOUS
    <2> HIDE DEF list
    <2> QED BY <1>1, <2>1, EveryUseIsOnTheList
  <1> HIDE DEF slots
  <1> QED BY <1>3, <1>4, <1>5, <1>6

\* The entropy codes of every component are among those that are written.
LEMMA UnitsOfDHT ==
  ASSUME NEW c, IsCompress(c)
  PROVE  /\ Len(emit_dht(c)) \in Nat /\ DOMAIN emit_dht(c) = 1 .. Len(emit_dht(c))
         /\ \A k \in DOMAIN emit_dht(c) : \E class \in {"DC", "AC"}, s \in HuffSlots :
              emit_dht(c)[k] = DHT(class, s, c.huff_tbl_ptrs[class][s])
         /\ \A ci \in DOMAIN c.comp_info :
              /\ \E k \in DOMAIN emit_dht(c) : emit_dht(c)[k] =
                   DHT("DC", c.comp_info[ci].dc_tbl_no, c.huff_tbl_ptrs["DC"][c.comp_info[ci].dc_tbl_no])
              /\ \E k \in DOMAIN emit_dht(c) : emit_dht(c)[k] =
                   DHT("AC", c.comp_info[ci].ac_tbl_no, c.huff_tbl_ptrs["AC"][c.comp_info[ci].ac_tbl_no])
  <1> DEFINE Tables == {"DC", "AC"} \X HuffSlots
             list == [k \in 1 .. 2 * Len(c.comp_info) |->
                  IF k % 2 = 1 THEN <<"DC", c.comp_info[(k + 1) \div 2].dc_tbl_no>>
                  ELSE <<"AC", c.comp_info[(k + 1) \div 2].ac_tbl_no>>]
             tables == FirstUses(list)
  <1>0. Len(c.comp_info) \in Nat /\ DOMAIN c.comp_info = 1 .. Len(c.comp_info)
        /\ \A ci \in DOMAIN c.comp_info : c.comp_info[ci].dc_tbl_no \in HuffSlots
                                          /\ c.comp_info[ci].ac_tbl_no \in HuffSlots
    BY WrittenComponents
  <1>1. list \in Seq(Tables)
    <2>2. \A k \in 1 .. 2 * Len(c.comp_info) : (k + 1) \div 2 \in DOMAIN c.comp_info
      BY <1>0
    <2>3. 2 * Len(c.comp_info) \in Nat
      BY <1>0
    <2>4. list \in [1 .. 2 * Len(c.comp_info) -> Tables]
      BY <1>0, <2>2
    <2> HIDE DEF list, Tables
    <2> QED BY <2>3, <2>4, FunctionIsASequence
  <1>2. emit_dht(c) = [k \in DOMAIN tables |->
         DHT(tables[k][1], tables[k][2], c.huff_tbl_ptrs[tables[k][1]][tables[k][2]])]
    BY Zenon DEF emit_dht
  <1>3. ASSUME NEW ci \in DOMAIN c.comp_info
        PROVE  /\ \E i \in DOMAIN list : list[i] = <<"DC", c.comp_info[ci].dc_tbl_no>>
               /\ \E i \in DOMAIN list : list[i] = <<"AC", c.comp_info[ci].ac_tbl_no>>
    <2> DEFINE odd == 2 * ci - 1
               even == 2 * ci
    <2>0. ci \in Nat /\ 1 <= ci /\ ci <= Len(c.comp_info)
      BY <1>0
    <2>1. /\ odd \in 1 .. 2 * Len(c.comp_info) /\ odd % 2 = 1 /\ (odd + 1) \div 2 = ci
          /\ even \in 1 .. 2 * Len(c.comp_info) /\ even % 2 = 0 /\ (even + 1) \div 2 = ci
      <3>1. odd % 2 = 1
        BY <2>0
      <3>2. even % 2 = 0
        BY <2>0
      <3>3. (odd + 1) \div 2 = ci
        BY <2>0
      <3>4. (even + 1) \div 2 = ci
        BY <2>0
      <3>5. odd \in 1 .. 2 * Len(c.comp_info) /\ even \in 1 .. 2 * Len(c.comp_info)
        <4> DEFINE n == Len(c.comp_info)
        <4>1. n \in Nat /\ ci <= n
          BY <1>0, <2>0
        <4> HIDE DEF n
        <4>2. odd \in 1 .. 2 * n /\ even \in 1 .. 2 * n
          BY <2>0, <4>1
        <4> QED BY <4>2 DEF n
      <3> QED BY <3>1, <3>2, <3>3, <3>4, <3>5
    <2> HIDE DEF odd, even
    <2>2. list[odd] = <<"DC", c.comp_info[ci].dc_tbl_no>> /\ list[even] = <<"AC", c.comp_info[ci].ac_tbl_no>>
      BY <2>1
    <2>3. DOMAIN list = 1 .. 2 * Len(c.comp_info)
      OBVIOUS
    <2> HIDE DEF list
    <2> QED BY <2>1, <2>2, <2>3
  <1> HIDE DEF list
  <1>4. tables \in Seq(Tables)
    <2> HIDE DEF Tables
    <2> QED BY <1>1, FirstUsesAreOnTheList
  <1>5. \A k \in DOMAIN tables : tables[k] \in Tables
    <2> HIDE DEF tables, Tables
    <2> QED BY <1>4, SequenceOfASet, Zenon
  <1>6. ASSUME NEW i \in DOMAIN list
        PROVE  \E k \in DOMAIN tables : tables[k] = list[i]
    <2> HIDE DEF Tables
    <2> QED BY <1>1, EveryUseIsOnTheList
  <1> HIDE DEF tables
  <1>7. Len(emit_dht(c)) \in Nat /\ DOMAIN emit_dht(c) = 1 .. Len(emit_dht(c))
    BY DHTIsWritten, SequenceIsOnAnInterval DEF IsStream
  <1>8. \A k \in DOMAIN emit_dht(c) : \E class \in {"DC", "AC"}, s \in HuffSlots :
              emit_dht(c)[k] = DHT(class, s, c.huff_tbl_ptrs[class][s])
    BY <1>2, <1>5
  <1>9. ASSUME NEW ci \in DOMAIN c.comp_info
        PROVE  /\ \E k \in DOMAIN emit_dht(c) : emit_dht(c)[k] =
                   DHT("DC", c.comp_info[ci].dc_tbl_no, c.huff_tbl_ptrs["DC"][c.comp_info[ci].dc_tbl_no])
               /\ \E k \in DOMAIN emit_dht(c) : emit_dht(c)[k] =
                   DHT("AC", c.comp_info[ci].ac_tbl_no, c.huff_tbl_ptrs["AC"][c.comp_info[ci].ac_tbl_no])
    <2>1. PICK k \in DOMAIN tables : tables[k] = <<"DC", c.comp_info[ci].dc_tbl_no>>
      BY <1>3, <1>6
    <2>2. PICK l \in DOMAIN tables : tables[l] = <<"AC", c.comp_info[ci].ac_tbl_no>>
      BY <1>3, <1>6
    <2>3. tables[k][1] = "DC" /\ tables[k][2] = c.comp_info[ci].dc_tbl_no
          /\ tables[l][1] = "AC" /\ tables[l][2] = c.comp_info[ci].ac_tbl_no
      BY <2>1, <2>2
    <2> QED BY <1>2, <2>3
  <1> QED BY <1>7, <1>8, <1>9

\* The parts of the image follow one another.
LEMMA PlacesOfTheImage ==
  ASSUME NEW c, IsCompress(c)
  PROVE  /\ HeaderEnd(c) \in Nat /\ FrameAt(c) \in Nat /\ ScanAt(c) \in Nat /\ ImageEnd(c) \in Nat
         /\ 1 <= HeaderEnd(c) /\ HeaderEnd(c) < FrameAt(c) /\ FrameAt(c) < ScanAt(c)
         /\ NoOfRows \in Nat \ {0} /\ ImageEnd(c) = ScanAt(c) + NoOfRows + 1
         /\ Len(emit_dqt(c)) \in Nat /\ FrameAt(c) = HeaderEnd(c) + Len(emit_dqt(c)) + 1
         /\ Len(emit_dht(c)) \in Nat /\ ScanAt(c) = FrameAt(c) + Len(emit_dht(c)) + 1
  <1>1. HeaderEnd(c) \in Nat \ {0} /\ Len(emit_dqt(c)) \in Nat /\ Len(emit_dht(c)) \in Nat
        /\ NoOfRows \in Nat \ {0}
    BY UnitsOfTheFileHeader, UnitsOfDQT, UnitsOfDHT, DefaultSlots, Zenon
  <1>2. FrameAt(c) = HeaderEnd(c) + Len(emit_dqt(c)) + 1
    BY Zenon DEF FrameAt
  <1>3. FrameAt(c) \in Nat /\ HeaderEnd(c) < FrameAt(c)
    BY <1>1, <1>2
  <1>4. ScanAt(c) = FrameAt(c) + Len(emit_dht(c)) + 1
    BY Zenon DEF ScanAt
  <1>5. ScanAt(c) \in Nat /\ FrameAt(c) < ScanAt(c)
    BY <1>1, <1>3, <1>4
  <1>6. ImageEnd(c) = ScanAt(c) + NoOfRows + 1
    BY Zenon DEF ImageEnd
  <1> QED BY SMTT(30), <1>1, <1>2, <1>3, <1>4, <1>5, <1>6

\* What is at each place of the image.
LEMMA UnitsOfTheImage ==
  ASSUME NEW c, IsCompress(c), NEW arrays
  PROVE  /\ UnitAt(c, arrays, 1) = SOI
         /\ \A i \in 2 .. HeaderEnd(c) :
              \/ c.write_JFIF_header /\ UnitAt(c, arrays, i) = APP0
              \/ c.Adobe_transform # -1 /\ UnitAt(c, arrays, i) = APP14(c.Adobe_transform)
         /\ \A i \in HeaderEnd(c) + 1 .. FrameAt(c) - 1 :
              \E s \in QuantSlots : UnitAt(c, arrays, i) = DQT(s, c.quant_tbl_ptrs[s])
         /\ UnitAt(c, arrays, FrameAt(c)) = emit_sof(c)[1]
         /\ \A i \in FrameAt(c) + 1 .. ScanAt(c) - 1 : \E class \in {"DC", "AC"}, s \in HuffSlots :
              UnitAt(c, arrays, i) = DHT(class, s, c.huff_tbl_ptrs[class][s])
         /\ UnitAt(c, arrays, ScanAt(c)) = emit_sos(c)[1]
         /\ \A r \in Rows : UnitAt(c, arrays, ScanAt(c) + r) = WrittenRow(c, arrays, r)
         /\ UnitAt(c, arrays, ImageEnd(c)) = EOI
  <1> DEFINE h == HeaderEnd(c)
             f == FrameAt(c)
             s == ScanAt(c)
             e == ImageEnd(c)
  <1>1. /\ h \in Nat /\ f \in Nat /\ s \in Nat /\ e \in Nat /\ 1 <= h /\ h < f /\ f < s
        /\ NoOfRows \in Nat \ {0} /\ e = s + NoOfRows + 1
        /\ Len(emit_dqt(c)) \in Nat /\ f = h + Len(emit_dqt(c)) + 1
        /\ Len(emit_dht(c)) \in Nat /\ s = f + Len(emit_dht(c)) + 1
    BY PlacesOfTheImage
  <1>2. \A i : UnitAt(c, arrays, i) =
          IF i <= h THEN FileHeader(c)[i]
          ELSE IF i < f THEN emit_dqt(c)[i - h]
          ELSE IF i = f THEN emit_sof(c)[1]
          ELSE IF i < s THEN emit_dht(c)[i - f]
          ELSE IF i = s THEN emit_sos(c)[1]
          ELSE IF i <= s + NoOfRows THEN WrittenRow(c, arrays, i - s)
          ELSE EOI
    BY Zenon DEF UnitAt
  <1> HIDE DEF h, f, s, e
  <1>3. UnitAt(c, arrays, 1) = SOI
    BY <1>1, <1>2, UnitsOfTheFileHeader
  <1>4. ASSUME NEW i \in 2 .. h
        PROVE  \/ c.write_JFIF_header /\ UnitAt(c, arrays, i) = APP0
               \/ c.Adobe_transform # -1 /\ UnitAt(c, arrays, i) = APP14(c.Adobe_transform)
    <2>1. UnitAt(c, arrays, i) = FileHeader(c)[i]
      BY <1>1, <1>2
    <2> QED BY <2>1, UnitsOfTheFileHeader DEF h
  <1>5. ASSUME NEW i \in h + 1 .. f - 1
        PROVE  \E t \in QuantSlots : UnitAt(c, arrays, i) = DQT(t, c.quant_tbl_ptrs[t])
    <2>1. UnitAt(c, arrays, i) = emit_dqt(c)[i - h] /\ i - h \in 1 .. Len(emit_dqt(c))
      BY <1>1, <1>2
    <2> QED BY <2>1, UnitsOfDQT
  <1>6. UnitAt(c, arrays, f) = emit_sof(c)[1]
    BY SMTT(30), <1>1, <1>2
  <1>7. ASSUME NEW i \in f + 1 .. s - 1
        PROVE  \E class \in {"DC", "AC"}, t \in HuffSlots :
                 UnitAt(c, arrays, i) = DHT(class, t, c.huff_tbl_ptrs[class][t])
    <2>1. UnitAt(c, arrays, i) = emit_dht(c)[i - f] /\ i - f \in 1 .. Len(emit_dht(c))
      BY <1>1, <1>2
    <2> QED BY <2>1, UnitsOfDHT
  <1>8. UnitAt(c, arrays, s) = emit_sos(c)[1]
    <2>1. ~(s <= h) /\ ~(s < f) /\ s # f /\ ~(s < s)
      BY <1>1
    <2> QED BY <1>2, <2>1, Zenon
  <1>9. ASSUME NEW r \in Rows
        PROVE  UnitAt(c, arrays, s + r) = WrittenRow(c, arrays, r)
    <2>1. r \in Nat /\ 1 <= r /\ r <= NoOfRows /\ (s + r) - s = r
      BY <1>1 DEF Rows
    <2>2. ~(s + r <= h) /\ ~(s + r < f) /\ s + r # f /\ ~(s + r < s) /\ s + r # s /\ s + r <= s + NoOfRows
      BY <1>1, <2>1
    <2>3. UnitAt(c, arrays, s + r) = WrittenRow(c, arrays, (s + r) - s)
      BY <1>2, <2>2, Zenon
    <2> QED BY <2>1, <2>3
  <1>10. UnitAt(c, arrays, e) = EOI
    <2>1. ~(e <= h) /\ ~(e < f) /\ e # f /\ ~(e < s) /\ e # s /\ ~(e <= s + NoOfRows)
      BY <1>1
    <2> QED BY <1>2, <2>1, Zenon
  <1> QED BY <1>3, <1>4, <1>5, <1>6, <1>7, <1>8, <1>9, <1>10, Zenon DEF h, f, s, e

\* Each mark and each table that is used is somewhere in front of the scan header.
LEMMA NothingIsMissing ==
  ASSUME NEW c, IsCompress(c), NEW arrays
  PROVE  /\ c.write_JFIF_header => \E i \in 1 .. ScanAt(c) - 1 : UnitAt(c, arrays, i) = APP0
         /\ c.Adobe_transform # -1 =>
              \E i \in 1 .. ScanAt(c) - 1 : UnitAt(c, arrays, i) = APP14(c.Adobe_transform)
         /\ \A ci \in DOMAIN c.comp_info :
              /\ \E i \in 1 .. ScanAt(c) - 1 : UnitAt(c, arrays, i) =
                   DQT(c.comp_info[ci].quant_tbl_no, c.quant_tbl_ptrs[c.comp_info[ci].quant_tbl_no])
              /\ \E i \in 1 .. ScanAt(c) - 1 : UnitAt(c, arrays, i) =
                   DHT("DC", c.comp_info[ci].dc_tbl_no, c.huff_tbl_ptrs["DC"][c.comp_info[ci].dc_tbl_no])
              /\ \E i \in 1 .. ScanAt(c) - 1 : UnitAt(c, arrays, i) =
                   DHT("AC", c.comp_info[ci].ac_tbl_no, c.huff_tbl_ptrs["AC"][c.comp_info[ci].ac_tbl_no])
  <1> DEFINE h == HeaderEnd(c)
             f == FrameAt(c)
             s == ScanAt(c)
  <1>1. /\ h \in Nat /\ f \in Nat /\ s \in Nat /\ 1 <= h /\ h < f /\ f < s
        /\ Len(emit_dqt(c)) \in Nat /\ f = h + Len(emit_dqt(c)) + 1
        /\ Len(emit_dht(c)) \in Nat /\ s = f + Len(emit_dht(c)) + 1
    BY PlacesOfTheImage
  <1>2. \A i : /\ i <= h => UnitAt(c, arrays, i) = FileHeader(c)[i]
               /\ ~(i <= h) /\ i < f => UnitAt(c, arrays, i) = emit_dqt(c)[i - h]
               /\ ~(i <= h) /\ ~(i < f) /\ i # f /\ i < s => UnitAt(c, arrays, i) = emit_dht(c)[i - f]
    BY Zenon DEF UnitAt
  <1> HIDE DEF h, f, s
  <1>3. ASSUME NEW i \in 2 .. h
        PROVE  i \in 1 .. s - 1 /\ UnitAt(c, arrays, i) = FileHeader(c)[i]
    BY <1>1, <1>2
  <1>4. ASSUME NEW k \in DOMAIN emit_dqt(c)
        PROVE  \E i \in 1 .. s - 1 : UnitAt(c, arrays, i) = emit_dqt(c)[k]
    <2>1. k \in 1 .. Len(emit_dqt(c))
      BY UnitsOfDQT
    <2>2. h + k \in 1 .. s - 1 /\ ~(h + k <= h) /\ h + k < f /\ (h + k) - h = k
      BY <1>1, <2>1
    <2> QED BY <1>2, <2>2
  <1>5. ASSUME NEW k \in DOMAIN emit_dht(c)
        PROVE  \E i \in 1 .. s - 1 : UnitAt(c, arrays, i) = emit_dht(c)[k]
    <2>1. k \in 1 .. Len(emit_dht(c))
      BY UnitsOfDHT
    <2> DEFINE n == Len(emit_dht(c))
    <2>2. k \in Nat /\ 1 <= k /\ k <= n /\ n \in Nat /\ s = f + n + 1
      BY <1>1, <2>1
    <2> HIDE DEF n
    <2>3. f + k \in 1 .. s - 1 /\ ~(f + k <= h) /\ ~(f + k < f) /\ f + k # f /\ f + k < s /\ (f + k) - f = k
      BY <1>1, <2>2
    <2> QED BY <1>2, <2>3
  <1>6. ASSUME c.write_JFIF_header
        PROVE  \E i \in 1 .. s - 1 : UnitAt(c, arrays, i) = APP0
    <2>1. PICK i \in 2 .. h : FileHeader(c)[i] = APP0
      BY <1>6, UnitsOfTheFileHeader DEF h
    <2> QED BY <1>3, <2>1, Zenon
  <1>7. ASSUME c.Adobe_transform # -1
        PROVE  \E i \in 1 .. s - 1 : UnitAt(c, arrays, i) = APP14(c.Adobe_transform)
    <2>1. PICK i \in 2 .. h : FileHeader(c)[i] = APP14(c.Adobe_transform)
      BY <1>7, UnitsOfTheFileHeader DEF h
    <2> QED BY <1>3, <2>1, Zenon
  <1>8. ASSUME NEW ci \in DOMAIN c.comp_info
        PROVE /\ \E i \in 1 .. s - 1 : UnitAt(c, arrays, i) =
                   DQT(c.comp_info[ci].quant_tbl_no, c.quant_tbl_ptrs[c.comp_info[ci].quant_tbl_no])
              /\ \E i \in 1 .. s - 1 : UnitAt(c, arrays, i) =
                   DHT("DC", c.comp_info[ci].dc_tbl_no, c.huff_tbl_ptrs["DC"][c.comp_info[ci].dc_tbl_no])
              /\ \E i \in 1 .. s - 1 : UnitAt(c, arrays, i) =
                   DHT("AC", c.comp_info[ci].ac_tbl_no, c.huff_tbl_ptrs["AC"][c.comp_info[ci].ac_tbl_no])
    <2>1. PICK k \in DOMAIN emit_dqt(c) : emit_dqt(c)[k] =
            DQT(c.comp_info[ci].quant_tbl_no, c.quant_tbl_ptrs[c.comp_info[ci].quant_tbl_no])
      BY UnitsOfDQT
    <2>2. PICK l \in DOMAIN emit_dht(c) : emit_dht(c)[l] =
            DHT("DC", c.comp_info[ci].dc_tbl_no, c.huff_tbl_ptrs["DC"][c.comp_info[ci].dc_tbl_no])
      BY UnitsOfDHT
    <2>3. PICK m \in DOMAIN emit_dht(c) : emit_dht(c)[m] =
            DHT("AC", c.comp_info[ci].ac_tbl_no, c.huff_tbl_ptrs["AC"][c.comp_info[ci].ac_tbl_no])
      BY UnitsOfDHT
    <2> QED BY <1>4, <1>5, <2>1, <2>2, <2>3, Zenon
  <1> QED BY <1>6, <1>7, <1>8, Zenon DEF s

-----------------------------------------------------------------------------
(* An object that reads the image, or as much as there is of it.           *)

\* An object is the same but for what is in its buffer.
SameReading(d, e) ==
  /\ e.global_state = d.global_state /\ e.error = d.error
  /\ e.warned = d.warned /\ e.eoi_reached = d.eoi_reached
  /\ e.saw_SOI = d.saw_SOI /\ e.saw_SOF = d.saw_SOF /\ e.saw_JFIF_marker = d.saw_JFIF_marker
  /\ e.inheaders = d.inheaders /\ e.has_multiple_scans = d.has_multiple_scans
  /\ e.insufficient_data = d.insufficient_data /\ e.Adobe_transform = d.Adobe_transform
  /\ e.consume_input = d.consume_input
  /\ SameTables(d, e) /\ SameFrame(d, e) /\ SameScan(d, e) /\ SameArrays(d, e)

\* One scan can have all components: only then is there a scan in the image.
InOneScan(c) ==
  /\ Len(c.comp_info) <= MAX_COMPS_IN_SCAN
  /\ FitsMCU(c.comp_info, [ci \in DOMAIN c.comp_info |-> ci])

\* It has taken k units, and has the next ones in its buffer.
Source(d, c, arrays, k) ==
  /\ k \in Nat /\ d.at \in Nat /\ k <= d.at
  /\ d.buffer = [j \in 1 .. d.at - k |-> UnitAt(c, arrays, k + j)]
  /\ d.at >= ScanAt(c) => InOneScan(c)

\* The buffer is empty when all that was read is taken.
LEMMA BufferIsEmpty ==
  ASSUME NEW d, NEW c, NEW arrays, NEW k, Source(d, c, arrays, k)
  PROVE  /\ d.buffer = << >> <=> k = d.at
         /\ Len(d.buffer) = d.at - k /\ DOMAIN d.buffer = 1 .. d.at - k
  <1> DEFINE n == d.at - k
             b == d.buffer
  <1>1. n \in Nat /\ k \in Nat /\ d.at \in Nat /\ (n = 0 <=> k = d.at)
    BY DEF Source
  <1>2. b = [j \in 1 .. n |-> UnitAt(c, arrays, k + j)]
    BY DEF Source
  <1> HIDE DEF n, b
  <1>3. DOMAIN b = 1 .. n /\ b = [j \in 1 .. n |-> b[j]]
    BY <1>2
  <1>4. IsASequence(b) /\ Len(b) = n
    BY <1>1, <1>3, OnAnInterval
  <1>5. b = << >> <=> Len(b) = 0
    BY <1>4, EmptySeq DEF IsASequence
  <1> QED BY <1>1, <1>3, <1>4, <1>5 DEF n, b

\* The buffer is filled with the next units, if there are any.
LEMMA FilledFromTheImage ==
  ASSUME NEW c, IsCompress(c), NEW arrays, NEW m \in Nat, IsStream(Beginning(c, arrays, m)),
         m >= ScanAt(c) => InOneScan(c),
         NEW d, IsDecompress(d), d.error = "none", NEW k, Source(d, c, arrays, k), d.buffer = << >>,
         NEW e, e = FillInputBuffer(d, Beginning(c, arrays, m))
  PROVE  /\ IsDecompress(e)
         /\ \/ e.error # "none" \/ e.warned
            \/ Source(e, c, arrays, k) /\ SameReading(d, e) /\ e.buffer # << >>
         /\ k < m => Source(e, c, arrays, k) /\ SameReading(d, e) /\ e.buffer # << >>
  <1> DEFINE content == Beginning(c, arrays, m)
             left == Len(content) - d.at
             size == IF left < INPUT_BUF_SIZE THEN left ELSE INPUT_BUF_SIZE
             part == SubSeq(content, d.at + 1, d.at + size)
             more == [d EXCEPT !.buffer = part, !.at = @ + size, !.start_of_file = FALSE]
             end == [d EXCEPT !.buffer = <<EOI>>, !.warned = TRUE]
  <1>0. IsDecompress(e)
    BY BufferIsFilled
  <1>1. e = IF size > 0 THEN more
            ELSE IF d.start_of_file THEN Failed(d, "JERR_INPUT_EMPTY") ELSE end
    BY Zenon DEF FillInputBuffer, Refilled
  <1>2. d.at \in Nat /\ k \in Nat /\ d.at = k /\ INPUT_BUF_SIZE \in Nat \ {0}
    BY BufferIsEmpty, JobsAssumption DEF Source
  <1>3. content = [i \in 1 .. m |-> UnitAt(c, arrays, i)]
    BY DEF Beginning
  <1> HIDE DEF content
  <1>4. Len(content) = m /\ DOMAIN content = 1 .. m
    <2>1. content = [i \in 1 .. m |-> content[i]]
      BY <1>3
    <2> QED BY <2>1, OnAnInterval
  <1>5. ASSUME size > 0
        PROVE  Source(e, c, arrays, k) /\ SameReading(d, e) /\ e.buffer # << >>
    <2>1. size \in Nat /\ k + 1 \in Nat \ {0} /\ k + size \in Int /\ k + size <= m /\ 1 <= size
      BY <1>2, <1>4, <1>5
    <2> HIDE DEF size
    <2>2. IsStream(part) /\ (\A i \in DOMAIN part : (i + (k + 1)) - 1 \in DOMAIN content
             /\ part[i] = content[(i + (k + 1)) - 1])
      BY <1>2, <1>4, <2>1, PlacesOfAPart DEF content
    <2>3. part = [j \in 1 .. size |-> UnitAt(c, arrays, k + j)]
      <3>1. part = [j \in 1 .. size |-> content[k + j]]
        <4>1. part = [j \in 1 .. (k + size) - (k + 1) + 1 |-> content[(k + 1 + j) - 1]]
          BY <1>2, <1>4, <2>1
        <4>2. (k + size) - (k + 1) + 1 = size /\ \A j \in 1 .. size : (k + 1 + j) - 1 = k + j
          BY <1>2, <2>1
        <4> QED BY <4>1, <4>2
      <3>2. \A j \in 1 .. size : k + j \in 1 .. m
        BY <1>2, <2>1
      <3> QED BY <1>3, <3>1, <3>2
    <2> HIDE DEF part
    <2>4. e = more
      BY <1>1, <1>5
    <2>5. e.buffer = part /\ e.at = k + size
      BY <1>2, <2>4 DEF IsDecompress, jpeg_decompress_struct
    <2>6. SameReading(d, e)
      BY <2>4 DEF IsDecompress, jpeg_decompress_struct, SameReading, SameTables, SameFrame, SameScan, SameArrays
    <2>7. (k + size) - k = size
      BY <1>2, <2>1
    <2>8. Source(e, c, arrays, k)
      <3>1. e.at >= ScanAt(c) => m >= ScanAt(c)
        <4>1. ScanAt(c) \in Nat
          BY PlacesOfTheImage
        <4> QED BY <2>1, <2>5, <4>1
      <3> QED BY <1>2, <2>1, <2>3, <2>5, <2>7, <3>1 DEF Source
    <2>9. e.buffer # << >>
      BY <1>2, <2>1, <2>5, <2>8, BufferIsEmpty
    <2> QED BY <2>6, <2>8, <2>9
  <1>6. ASSUME ~(size > 0)
        PROVE  e.error # "none" \/ e.warned
    <2>1. CASE d.start_of_file
      <3>1. e = Failed(d, "JERR_INPUT_EMPTY")
        BY <1>1, <1>6, <2>1
      <3> QED BY <3>1, FailedIsAnObject DEF ReadErrors
    <2>2. CASE ~d.start_of_file
      <3>1. e = end
        BY <1>1, <1>6, <2>2
      <3> QED BY <3>1 DEF IsDecompress, jpeg_decompress_struct
    <2> QED BY <2>1, <2>2
  <1>7. k < m => size > 0
    BY <1>2, <1>4
  <1> QED BY <1>0, <1>5, <1>6, <1>7

\* The next unit is taken from the buffer.
LEMMA NextUnit ==
  ASSUME NEW c, NEW arrays, NEW d, IsDecompress(d), d.error = "none",
         NEW k, Source(d, c, arrays, k), d.buffer # << >>,
         NEW e, e = [d EXCEPT !.buffer = Tail(@)]
  PROVE  /\ Head(d.buffer) = UnitAt(c, arrays, k + 1) /\ IsUnit(UnitAt(c, arrays, k + 1))
         /\ IsDecompress(e) /\ Source(e, c, arrays, k + 1) /\ SameReading(d, e)
  <1> DEFINE n == d.at - k
             b == d.buffer
  <1>1. n \in Nat \ {0} /\ k \in Nat /\ d.at \in Nat /\ d.at - (k + 1) = n - 1 /\ k + 1 \in Nat
        /\ k + 1 <= d.at
    BY BufferIsEmpty DEF Source
  <1>2. b = [j \in 1 .. n |-> UnitAt(c, arrays, k + j)] /\ Len(b) = n /\ DOMAIN b = 1 .. n
    BY BufferIsEmpty DEF Source
  <1>3. /\ IsStream(Tail(b)) /\ IsUnit(Head(b)) /\ Head(b) = b[1]
    BY TailOfStream DEF IsDecompress, SourceOK
  <1>4. IsDecompress(e) /\ e.buffer = Tail(b)
    BY UnitIsTaken
  <1> HIDE DEF n, b
  <1>5. Tail(b) = [j \in 1 .. n - 1 |-> UnitAt(c, arrays, (k + 1) + j)]
    <2>1. Tail(b) = [j \in 1 .. n - 1 |-> b[j + 1]]
      BY <1>1, <1>2
    <2>2. \A j \in 1 .. n - 1 : j + 1 \in 1 .. n /\ k + (j + 1) = (k + 1) + j
      BY SMTT(30), <1>1
    <2> QED BY <1>2, <2>1, <2>2
  <1>6. Head(b) = UnitAt(c, arrays, k + 1)
    BY <1>1, <1>2, <1>3
  <1>7. SameReading(d, e) /\ e.at = d.at
    BY DEF IsDecompress, jpeg_decompress_struct, SameReading, SameTables, SameFrame, SameScan, SameArrays
  <1>8. Source(e, c, arrays, k + 1)
    BY <1>1, <1>4, <1>5, <1>7 DEF Source
  <1> QED BY <1>3, <1>4, <1>6, <1>7, <1>8 DEF b

\* A writer whose image can be read: it has sent what is used, and the marks
\* tell the color space.
Marked(c) ==
  /\ c.write_JFIF_header \in BOOLEAN
  /\ c.write_JFIF_header <=> c.jpeg_color_space \in {"GRAYSCALE", "YCbCr"}
  /\ c.jpeg_color_space \in {"RGB", "CMYK"} => c.Adobe_transform = 0
  /\ c.jpeg_color_space = "YCCK" => c.Adobe_transform = 2
  /\ c.jpeg_color_space \in {"GRAYSCALE", "YCbCr", "UNKNOWN"} => c.Adobe_transform = -1
  /\ Len(c.comp_info) \in ColorComponents(c.jpeg_color_space)
  /\ c.jpeg_color_space = "UNKNOWN" => Len(c.comp_info) \notin {1, 3, 4}

Sendable(c) ==
  /\ IsCompress(c) /\ c.restart_interval = 0
  /\ c.comp_info # << >> /\ Len(c.comp_info) <= MAX_COMPONENTS
  /\ DistinctIds(c)
  /\ \A ci \in DOMAIN c.comp_info :
       /\ c.quant_tbl_ptrs[c.comp_info[ci].quant_tbl_no] # NoTable
       /\ c.huff_tbl_ptrs["DC"][c.comp_info[ci].dc_tbl_no] # NoTable
       /\ c.huff_tbl_ptrs["AC"][c.comp_info[ci].ac_tbl_no] # NoTable
  /\ Marked(c)

\* The components, as the frame header tells of them, and with the tables of
\* the scan header and the quantization tables.
FrameOf(c) ==
  [ci \in DOMAIN c.comp_info |->
     [component_id |-> c.comp_info[ci].component_id,
      quant_tbl_no |-> c.comp_info[ci].quant_tbl_no,
      MCU_blocks   |-> c.comp_info[ci].MCU_blocks,
      dc_tbl_no |-> 0, ac_tbl_no |-> 0, quant_table |-> NoTable]]
ScanOf(c, tables) ==
  [ci \in DOMAIN c.comp_info |->
     [component_id |-> c.comp_info[ci].component_id,
      quant_tbl_no |-> c.comp_info[ci].quant_tbl_no,
      MCU_blocks   |-> c.comp_info[ci].MCU_blocks,
      dc_tbl_no |-> c.comp_info[ci].dc_tbl_no, ac_tbl_no |-> c.comp_info[ci].ac_tbl_no,
      quant_table |-> tables[ci]]]

\* What a unit has told is still known.
Taken(d, c, u) ==
  /\ u.kind = "APP0" => d.saw_JFIF_marker
  /\ u.kind = "APP14" => d.Adobe_transform = c.Adobe_transform
  /\ u.kind = "DQT" => u.slot \in QuantSlots /\ d.quant_tbl_ptrs[u.slot] = c.quant_tbl_ptrs[u.slot]
  /\ u.kind = "DHT" => /\ u.class \in {"DC", "AC"} /\ u.slot \in HuffSlots
                       /\ d.huff_tbl_ptrs[u.class][u.slot] = c.huff_tbl_ptrs[u.class][u.slot]

Sound(d) ==
  /\ d.error = "none" /\ ~d.warned /\ ~d.eoi_reached
  /\ d.restart_interval = 0 /\ d.coding = "sequential"

\* The object behind k units, none of which is the scan header.
HeaderState(d, c, arrays, k) ==
  /\ Sound(d) /\ d.global_state = "DSTATE_START" /\ d.consume_input = "markers"
  /\ d.saw_SOI <=> k >= 1
  /\ d.saw_SOF <=> k >= FrameAt(c)
  /\ d.saw_SOF => d.comp_info = FrameOf(c)
  /\ d.saw_JFIF_marker => c.write_JFIF_header
  /\ d.Adobe_transform \in {-1, c.Adobe_transform}
  /\ \A i \in 1 .. k : Taken(d, c, UnitAt(c, arrays, i))

\* The header goes on when nothing that was told is forgotten.
LEMMA HeaderGoesOn ==
  ASSUME NEW c, NEW arrays, NEW k \in Nat, NEW e, HeaderState(e, c, arrays, k), NEW r,
         Sound(r), r.global_state = e.global_state, r.consume_input = e.consume_input,
         r.saw_SOI, r.saw_SOF <=> k + 1 >= FrameAt(c), r.saw_SOF => r.comp_info = FrameOf(c),
         r.saw_JFIF_marker => c.write_JFIF_header, r.Adobe_transform \in {-1, c.Adobe_transform},
         \A i \in 1 .. k : Taken(e, c, UnitAt(c, arrays, i)) => Taken(r, c, UnitAt(c, arrays, i)),
         Taken(r, c, UnitAt(c, arrays, k + 1))
  PROVE  HeaderState(r, c, arrays, k + 1)
  <1>1. \A i \in 1 .. k + 1 : i \in 1 .. k \/ i = k + 1
    OBVIOUS
  <1>2. \A i \in 1 .. k + 1 : Taken(r, c, UnitAt(c, arrays, i))
    BY <1>1 DEF HeaderState
  <1>3. k + 1 >= 1
    OBVIOUS
  <1> QED BY <1>2, <1>3 DEF HeaderState

\* A table is put into its slot.
LEMMA HeaderTableIsRead ==
  ASSUME NEW c, NEW arrays, NEW k \in Nat, NEW e, IsDecompress(e), HeaderState(e, c, arrays, k), e.saw_SOI,
         e.saw_SOF <=> k + 1 >= FrameAt(c), NEW u, u = UnitAt(c, arrays, k + 1),
         \/ \E s \in QuantSlots : u = DQT(s, c.quant_tbl_ptrs[s])
         \/ \E class \in {"DC", "AC"}, s \in HuffSlots : u = DHT(class, s, c.huff_tbl_ptrs[class][s])
  PROVE  SameSource(e, get_tables(e, u)) /\ HeaderState(get_tables(e, u), c, arrays, k + 1)
  <1>1. e.quant_tbl_ptrs \in [QuantSlots -> Nat] /\ e.huff_tbl_ptrs \in [{"DC", "AC"} -> [HuffSlots -> Nat]]
    BY DEF IsDecompress, TablesOK
  <1> DEFINE r == get_tables(e, u)
  <1>2. ASSUME NEW s \in QuantSlots, u = DQT(s, c.quant_tbl_ptrs[s])
        PROVE  SameSource(e, r) /\ HeaderState(r, c, arrays, k + 1)
    <2> DEFINE tables == [e.quant_tbl_ptrs EXCEPT ![s] = c.quant_tbl_ptrs[s]]
    <2>1. u.kind = "DQT" /\ u.slot = s /\ u.table = c.quant_tbl_ptrs[s]
      BY <1>2 DEF DQT
    <2>2. r = [e EXCEPT !.quant_tbl_ptrs = tables]
      BY <2>1 DEF get_tables
    <2>3. \A t \in QuantSlots : tables[t] = IF t = s THEN c.quant_tbl_ptrs[s] ELSE e.quant_tbl_ptrs[t]
      BY <1>1
    <2> HIDE DEF tables, r
    <2>4. /\ SameSource(e, r) /\ r.quant_tbl_ptrs = tables /\ r.huff_tbl_ptrs = e.huff_tbl_ptrs
          /\ r.saw_SOI = e.saw_SOI /\ r.saw_SOF = e.saw_SOF /\ r.comp_info = e.comp_info
          /\ r.saw_JFIF_marker = e.saw_JFIF_marker /\ r.Adobe_transform = e.Adobe_transform
      BY <2>2 DEF IsDecompress, jpeg_decompress_struct, SameSource
    <2>5. /\ r.error = e.error /\ r.warned = e.warned /\ r.eoi_reached = e.eoi_reached
          /\ r.restart_interval = e.restart_interval /\ r.coding = e.coding
          /\ r.global_state = e.global_state /\ r.consume_input = e.consume_input
      BY <2>2 DEF IsDecompress, jpeg_decompress_struct
    <2>6. Sound(r)
      BY <2>5 DEF HeaderState, Sound
    <2>7. \A v : Taken(e, c, v) => Taken(r, c, v)
      BY <2>3, <2>4 DEF Taken
    <2>8. Taken(r, c, u)
      BY <2>1, <2>3, <2>4 DEF Taken
    <2>9. HeaderState(r, c, arrays, k + 1)
      BY <2>4, <2>5, <2>6, <2>7, <2>8, HeaderGoesOn DEF HeaderState
    <2> QED BY <2>4, <2>9
  <1>3. ASSUME NEW class \in {"DC", "AC"}, NEW s \in HuffSlots, u = DHT(class, s, c.huff_tbl_ptrs[class][s])
        PROVE  SameSource(e, r) /\ HeaderState(r, c, arrays, k + 1)
    <2> DEFINE tables == [e.huff_tbl_ptrs EXCEPT ![class][s] = c.huff_tbl_ptrs[class][s]]
    <2>1. u.kind = "DHT" /\ u.class = class /\ u.slot = s /\ u.table = c.huff_tbl_ptrs[class][s]
      BY <1>3 DEF DHT
    <2>2. r = [e EXCEPT !.huff_tbl_ptrs = tables]
      BY <2>1 DEF get_tables
    <2>3. \A cl \in {"DC", "AC"}, t \in HuffSlots : tables[cl][t] =
             IF cl = class /\ t = s THEN c.huff_tbl_ptrs[class][s] ELSE e.huff_tbl_ptrs[cl][t]
      BY <1>1
    <2> HIDE DEF tables, r
    <2>4. /\ SameSource(e, r) /\ r.huff_tbl_ptrs = tables /\ r.quant_tbl_ptrs = e.quant_tbl_ptrs
          /\ r.saw_SOI = e.saw_SOI /\ r.saw_SOF = e.saw_SOF /\ r.comp_info = e.comp_info
          /\ r.saw_JFIF_marker = e.saw_JFIF_marker /\ r.Adobe_transform = e.Adobe_transform
      BY <2>2 DEF IsDecompress, jpeg_decompress_struct, SameSource
    <2>5. /\ r.error = e.error /\ r.warned = e.warned /\ r.eoi_reached = e.eoi_reached
          /\ r.restart_interval = e.restart_interval /\ r.coding = e.coding
          /\ r.global_state = e.global_state /\ r.consume_input = e.consume_input
      BY <2>2 DEF IsDecompress, jpeg_decompress_struct
    <2>6. Sound(r)
      BY <2>5 DEF HeaderState, Sound
    <2>7. \A v : Taken(e, c, v) => Taken(r, c, v)
      BY <2>3, <2>4 DEF Taken
    <2>8. Taken(r, c, u)
      BY <2>1, <2>3, <2>4 DEF Taken
    <2>9. HeaderState(r, c, arrays, k + 1)
      BY <2>4, <2>5, <2>6, <2>7, <2>8, HeaderGoesOn DEF HeaderState
    <2> QED BY <2>4, <2>9
  <1> HIDE DEF r
  <1> QED BY <1>2, <1>3 DEF r

\* A mark is noted.
LEMMA HeaderMarkIsRead ==
  ASSUME NEW c, NEW arrays, NEW k \in Nat, NEW e, IsDecompress(e), HeaderState(e, c, arrays, k), e.saw_SOI,
         e.saw_SOF <=> k + 1 >= FrameAt(c), NEW u, u = UnitAt(c, arrays, k + 1),
         \/ c.write_JFIF_header /\ u = APP0
         \/ c.Adobe_transform # -1 /\ u = APP14(c.Adobe_transform)
  PROVE  SameSource(e, get_interesting_appn(e, u)) /\ HeaderState(get_interesting_appn(e, u), c, arrays, k + 1)
  <1> DEFINE r == get_interesting_appn(e, u)
  <1>1. /\ SameSource(e, r) /\ r.quant_tbl_ptrs = e.quant_tbl_ptrs /\ r.huff_tbl_ptrs = e.huff_tbl_ptrs
        /\ r.saw_SOI = e.saw_SOI /\ r.saw_SOF = e.saw_SOF /\ r.comp_info = e.comp_info
    BY DEF IsDecompress, jpeg_decompress_struct, SameSource, get_interesting_appn
  <1>2. /\ r.error = e.error /\ r.warned = e.warned /\ r.eoi_reached = e.eoi_reached
        /\ r.restart_interval = e.restart_interval /\ r.coding = e.coding
        /\ r.global_state = e.global_state /\ r.consume_input = e.consume_input
    BY DEF IsDecompress, jpeg_decompress_struct, get_interesting_appn
  <1>3. \/ /\ u.kind = "APP0" /\ c.write_JFIF_header
           /\ r.saw_JFIF_marker = TRUE /\ r.Adobe_transform = e.Adobe_transform
        \/ /\ u.kind = "APP14" /\ u.transform = c.Adobe_transform
           /\ r.Adobe_transform = c.Adobe_transform /\ r.saw_JFIF_marker = e.saw_JFIF_marker
    <2>1. CASE c.write_JFIF_header /\ u = APP0
      <3>1. u.kind = "APP0"
        BY <2>1 DEF APP0
      <3> QED BY <2>1, <3>1 DEF IsDecompress, jpeg_decompress_struct, get_interesting_appn
    <2>2. CASE u = APP14(c.Adobe_transform)
      <3>1. u.kind = "APP14" /\ u.transform = c.Adobe_transform
        BY <2>2 DEF APP14
      <3> QED BY <3>1 DEF IsDecompress, jpeg_decompress_struct, get_interesting_appn
    <2> QED BY <2>1, <2>2
  <1> HIDE DEF r
  <1>4. Sound(r)
    BY <1>2 DEF HeaderState, Sound
  <1>5. \A v : Taken(e, c, v) => Taken(r, c, v)
    BY <1>1, <1>3 DEF Taken
  <1>6. Taken(r, c, u)
    BY <1>3 DEF Taken
  <1>7. /\ r.saw_JFIF_marker => c.write_JFIF_header
        /\ r.Adobe_transform \in {-1, c.Adobe_transform}
    BY <1>3 DEF HeaderState
  <1>8. HeaderState(r, c, arrays, k + 1)
    BY <1>1, <1>2, <1>4, <1>5, <1>6, <1>7, HeaderGoesOn DEF HeaderState
  <1> QED BY <1>1, <1>8 DEF r

\* The image begins.
LEMMA HeaderSOIIsRead ==
  ASSUME NEW c, IsCompress(c), NEW arrays, NEW e, IsDecompress(e), HeaderState(e, c, arrays, 0),
         UnitAt(c, arrays, 1) = SOI
  PROVE  SameSource(e, get_soi(e)) /\ HeaderState(get_soi(e), c, arrays, 1)
  <1> DEFINE r == get_soi(e)
  <1>1. ~e.saw_SOI /\ ~e.saw_SOF
    BY DEF HeaderState, IsDecompress, StateOK
  <1>2. r = [e EXCEPT !.saw_SOI = TRUE, !.restart_interval = 0, !.saw_JFIF_marker = FALSE,
                 !.Adobe_transform = -1, !.jpeg_color_space = "UNKNOWN"]
    BY <1>1 DEF get_soi
  <1> HIDE DEF r
  <1>3. /\ SameSource(e, r) /\ r.saw_SOI = TRUE /\ r.saw_SOF = e.saw_SOF /\ r.restart_interval = 0
        /\ r.saw_JFIF_marker = FALSE /\ r.Adobe_transform = -1
    BY <1>2 DEF IsDecompress, jpeg_decompress_struct, SameSource
  <1>4. /\ r.error = e.error /\ r.warned = e.warned /\ r.eoi_reached = e.eoi_reached
        /\ r.coding = e.coding
        /\ r.global_state = e.global_state /\ r.consume_input = e.consume_input
    BY <1>2 DEF IsDecompress, jpeg_decompress_struct
  <1>5. Sound(r)
    BY <1>3, <1>4 DEF HeaderState, Sound
  <1>6. Taken(r, c, UnitAt(c, arrays, 0 + 1))
    BY DEF Taken, SOI
  <1>7. ~(0 + 1 >= FrameAt(c))
    BY PlacesOfTheImage
  <1>8. HeaderState(r, c, arrays, 0 + 1)
    <2>1. \A i \in 1 .. 0 : Taken(e, c, UnitAt(c, arrays, i)) => Taken(r, c, UnitAt(c, arrays, i))
      OBVIOUS
    <2> QED BY <1>1, <1>3, <1>4, <1>5, <1>6, <1>7, <2>1, HeaderGoesOn DEF HeaderState
  <1> QED BY <1>3, <1>8 DEF r

\* The frame header tells of the components.
LEMMA HeaderSOFIsRead ==
  ASSUME NEW c, Sendable(c), NEW arrays, NEW k \in Nat, NEW e, IsDecompress(e), HeaderState(e, c, arrays, k),
         e.saw_SOI, k + 1 = FrameAt(c), NEW u, u = UnitAt(c, arrays, k + 1), u = emit_sof(c)[1]
  PROVE  /\ u.kind = "SOF"
         /\ SameSource(e, get_sof(e, u)) /\ HeaderState(get_sof(e, u), c, arrays, k + 1)
  <1> DEFINE r == get_sof(e, u)
             comps == [ci \in DOMAIN c.comp_info |->
                         [component_id |-> c.comp_info[ci].component_id,
                          quant_tbl_no |-> c.comp_info[ci].quant_tbl_no,
                          MCU_blocks   |-> c.comp_info[ci].MCU_blocks]]
             info == [ci \in DOMAIN u.comps |->
                   [component_id |-> u.comps[ci].component_id,
                    quant_tbl_no |-> u.comps[ci].quant_tbl_no,
                    MCU_blocks   |-> u.comps[ci].MCU_blocks,
                    dc_tbl_no |-> 0, ac_tbl_no |-> 0, quant_table |-> NoTable]]
  <1>1. u = SOF("sequential", comps)
    BY DEF emit_sof
  <1> HIDE DEF comps
  <1>2. u.kind = "SOF" /\ u.coding = "sequential" /\ u.comps = comps
    BY <1>1 DEF SOF
  <1>3. info = FrameOf(c)
    BY <1>2 DEF FrameOf, comps
  <1>4. u.comps # << >>
    <2>1. Len(c.comp_info) \in Nat /\ DOMAIN c.comp_info = 1 .. Len(c.comp_info)
      BY WrittenComponents DEF Sendable
    <2>2. Len(c.comp_info) # 0
      <3>1. c.comp_info # << >>
        BY DEF Sendable
      <3>2. \E S : c.comp_info \in Seq(S)
        BY DEF Sendable, IsCompress, ParametersOK
      <3> QED BY <3>1, <3>2, EmptySeq
    <2>3. 1 \in DOMAIN c.comp_info
      BY <2>1, <2>2
    <2>4. 1 \in DOMAIN comps
      BY <2>3 DEF comps
    <2> QED BY <1>2, <2>4
  <1>5. ~e.saw_SOF
    <2>1. FrameAt(c) \in Nat
      BY PlacesOfTheImage DEF Sendable
    <2>2. ~(k >= FrameAt(c))
      BY <2>1
    <2> QED BY <2>2 DEF HeaderState
  <1>6. r = [e EXCEPT !.saw_SOF = TRUE, !.coding = u.coding, !.comp_info = info]
    BY <1>4, <1>5 DEF get_sof
  <1> HIDE DEF r, info
  <1>7. /\ SameSource(e, r) /\ r.quant_tbl_ptrs = e.quant_tbl_ptrs /\ r.huff_tbl_ptrs = e.huff_tbl_ptrs
        /\ r.saw_SOI = e.saw_SOI /\ r.saw_SOF = TRUE /\ r.comp_info = FrameOf(c)
        /\ r.saw_JFIF_marker = e.saw_JFIF_marker /\ r.Adobe_transform = e.Adobe_transform
    BY <1>3, <1>6 DEF IsDecompress, jpeg_decompress_struct, SameSource
  <1>8. /\ r.error = e.error /\ r.warned = e.warned /\ r.eoi_reached = e.eoi_reached
        /\ r.restart_interval = e.restart_interval /\ r.coding = "sequential"
        /\ r.global_state = e.global_state /\ r.consume_input = e.consume_input
    BY <1>2, <1>6 DEF IsDecompress, jpeg_decompress_struct
  <1>9. Sound(r)
    BY <1>8 DEF HeaderState, Sound
  <1>10. \A v : Taken(e, c, v) => Taken(r, c, v)
    BY <1>7 DEF Taken
  <1>11. Taken(r, c, u)
    BY <1>2 DEF Taken
  <1>12. k + 1 >= FrameAt(c)
    OBVIOUS
  <1>13. HeaderState(r, c, arrays, k + 1)
    BY <1>7, <1>8, <1>9, <1>10, <1>11, <1>12, HeaderGoesOn DEF HeaderState
  <1> QED BY <1>2, <1>7, <1>13 DEF r

\* What a marker calls for.
LEMMA CallsForAMarker ==
  ASSUME NEW d, NEW u, u = Head(d.buffer), NEW e, e = [d EXCEPT !.buffer = Tail(@)],
         d.error = "none", d.saw_SOI \/ u.kind = "SOI"
  PROVE  /\ u.kind = "SOI" => ReadMarker(d) = get_soi(e)
         /\ u.kind = "SOF" => ReadMarker(d) = get_sof(e, u)
         /\ u.kind = "SOS" => ReadMarker(d) = IF get_sos(e, u).error = "none"
                                              THEN ReachedSOS(get_sos(e, u)) ELSE get_sos(e, u)
         /\ u.kind = "EOI" => ReadMarker(d) = ReachedEOI(e)
         /\ u.kind \in {"DQT", "DHT", "DRI"} => ReadMarker(d) = get_tables(e, u)
         /\ u.kind \in {"APP0", "APP14"} => ReadMarker(d) = get_interesting_appn(e, u)
  <1> DEFINE sos == IF get_sos(e, u).error = "none" THEN ReachedSOS(get_sos(e, u)) ELSE get_sos(e, u)
  <1>1. ReadMarker(d) =
          IF ~d.saw_SOI /\ first_marker(d, u).error # "none" THEN first_marker(d, u)
          ELSE CASE u.kind = "SOI" -> get_soi(e)
             [] u.kind = "SOF" -> get_sof(e, u)
             [] u.kind = "SOS" -> sos
             [] u.kind = "EOI" -> ReachedEOI(e)
             [] u.kind \in {"DQT", "DHT", "DRI"} -> get_tables(e, u)
             [] u.kind \in {"APP0", "APP14"} -> get_interesting_appn(e, u)
             [] u.kind = "COM" -> skip_variable(e)
             [] u.kind = "ROW" -> [e EXCEPT !.warned = TRUE]
    <2> DEFINE unit == Head(d.buffer)
               taken == [d EXCEPT !.buffer = Tail(@)]
               scan == IF get_sos(taken, unit).error = "none" THEN ReachedSOS(get_sos(taken, unit))
                       ELSE get_sos(taken, unit)
    <2>1. ReadMarker(d) =
          IF ~d.saw_SOI /\ first_marker(d, unit).error # "none" THEN first_marker(d, unit)
          ELSE CASE unit.kind = "SOI" -> get_soi(taken)
             [] unit.kind = "SOF" -> get_sof(taken, unit)
             [] unit.kind = "SOS" -> scan
             [] unit.kind = "EOI" -> ReachedEOI(taken)
             [] unit.kind \in {"DQT", "DHT", "DRI"} -> get_tables(taken, unit)
             [] unit.kind \in {"APP0", "APP14"} -> get_interesting_appn(taken, unit)
             [] unit.kind = "COM" -> skip_variable(taken)
             [] unit.kind = "ROW" -> [taken EXCEPT !.warned = TRUE]
      BY Zenon DEF ReadMarker
    <2>2. unit = u /\ taken = e
      OBVIOUS
    <2> HIDE DEF unit, taken
    <2> QED BY <2>1, <2>2
  <1>2. u.kind = "SOI" => first_marker(d, u) = d
    BY DEF first_marker
  <1> HIDE DEF sos
  <1>3. ASSUME u.kind = "SOI" PROVE ReadMarker(d) = get_soi(e)
    <2>1. CASE d.saw_SOI
      BY <1>1, <1>3, <2>1
    <2>2. CASE ~d.saw_SOI
      BY <1>1, <1>2, <1>3, <2>2
    <2> QED BY <2>1, <2>2
  <1>4. ASSUME u.kind # "SOI"
        PROVE  /\ u.kind = "SOF" => ReadMarker(d) = get_sof(e, u)
               /\ u.kind = "SOS" => ReadMarker(d) = sos
               /\ u.kind = "EOI" => ReadMarker(d) = ReachedEOI(e)
               /\ u.kind \in {"DQT", "DHT", "DRI"} => ReadMarker(d) = get_tables(e, u)
               /\ u.kind \in {"APP0", "APP14"} => ReadMarker(d) = get_interesting_appn(e, u)
    BY <1>1, <1>4
  <1> QED BY <1>3, <1>4 DEF sos

\* The header tells the same, whatever is in the buffer.
LEMMA HeaderIsTheSame ==
  ASSUME NEW c, NEW arrays, NEW k, NEW d, NEW e, SameReading(d, e), HeaderState(d, c, arrays, k)
  PROVE  HeaderState(e, c, arrays, k)
  <1>1. Sound(e) /\ e.global_state = "DSTATE_START" /\ e.consume_input = "markers"
    BY DEF SameReading, SameTables, SameFrame, HeaderState, Sound
  <1>2. \A u : Taken(d, c, u) => Taken(e, c, u)
    BY DEF SameReading, SameTables, Taken
  <1> QED BY <1>1, <1>2 DEF SameReading, SameFrame, HeaderState

\* The object that leaves the file as it is has as much of the image.
LEMMA SourceIsTheSame ==
  ASSUME NEW c, NEW arrays, NEW k, NEW e, NEW r, SameSource(e, r), Source(e, c, arrays, k)
  PROVE  Source(r, c, arrays, k)
  BY DEF SameSource, Source

\* One more unit of the header.
LEMMA HeaderUnitIsRead ==
  ASSUME NEW c, Sendable(c), NEW arrays, NEW k, NEW d, IsDecompress(d), Source(d, c, arrays, k),
         d.buffer # << >>, HeaderState(d, c, arrays, k), k + 1 < ScanAt(c), NEW r, r = ReadMarker(d)
  PROVE  Source(r, c, arrays, k + 1) /\ HeaderState(r, c, arrays, k + 1)
  <1> DEFINE u == UnitAt(c, arrays, k + 1)
             e == [d EXCEPT !.buffer = Tail(@)]
             h == HeaderEnd(c)
             f == FrameAt(c)
             s == ScanAt(c)
  <1>1. IsCompress(c)
    BY DEF Sendable
  <1>2. /\ h \in Nat /\ f \in Nat /\ s \in Nat /\ 1 <= h /\ h < f /\ f < s /\ k \in Nat /\ k + 1 < s
    BY <1>1, PlacesOfTheImage DEF Source
  <1>3. d.error = "none" /\ (d.saw_SOI <=> k >= 1) /\ (d.saw_SOF <=> k >= f)
    BY DEF HeaderState, Sound
  <1>4. Head(d.buffer) = u /\ IsDecompress(e) /\ Source(e, c, arrays, k + 1) /\ SameReading(d, e)
    BY <1>3, NextUnit
  <1>5. HeaderState(e, c, arrays, k)
    <2> HIDE DEF e
    <2> QED BY <1>4, HeaderIsTheSame
  <1>6. (e.saw_SOI <=> k >= 1) /\ (e.saw_SOF <=> k >= f)
    BY <1>5 DEF HeaderState
  <1> HIDE DEF h, f, s
  <1>7. CASE k = 0
    <2>1. u = SOI /\ u.kind = "SOI"
      BY <1>1, <1>7, UnitsOfTheImage DEF SOI
    <2>2. r = get_soi(e)
      <3> HIDE DEF u, e
      <3>1. d.saw_SOI \/ u.kind = "SOI"
        BY <2>1
      <3> QED BY <1>3, <1>4, <2>1, <3>1, CallsForAMarker DEF e
    <2> HIDE DEF e
    <2>3. UnitAt(c, arrays, 1) = SOI
      BY <1>1, UnitsOfTheImage
    <2>4. SameSource(e, r) /\ HeaderState(r, c, arrays, k + 1)
      BY <1>1, <1>4, <1>5, <1>7, <2>2, <2>3, HeaderSOIIsRead
    <2> QED BY <1>4, <2>4, SourceIsTheSame
  <1>8. ASSUME k # 0
        PROVE  /\ e.saw_SOI
               /\ u.kind = "SOF" => r = get_sof(e, u)
               /\ u.kind \in {"DQT", "DHT", "DRI"} => r = get_tables(e, u)
               /\ u.kind \in {"APP0", "APP14"} => r = get_interesting_appn(e, u)
    <2>1. k >= 1 /\ e.saw_SOI /\ d.saw_SOI
      BY <1>2, <1>3, <1>6, <1>8
    <2> HIDE DEF u, e
    <2> QED BY <1>3, <1>4, <2>1, CallsForAMarker DEF e
  <1>9. CASE k # 0 /\ k + 1 <= h
    <2>1. k + 1 \in 2 .. h /\ ~(k + 1 >= f) /\ ~(k >= f)
      BY <1>2, <1>9
    <2>2. \/ c.write_JFIF_header /\ u = APP0
          \/ c.Adobe_transform # -1 /\ u = APP14(c.Adobe_transform)
      BY <1>1, <2>1, UnitsOfTheImage DEF h
    <2>3. u.kind \in {"APP0", "APP14"}
      BY <2>2 DEF APP0, APP14
    <2> HIDE DEF u, e
    <2>4. r = get_interesting_appn(e, u) /\ e.saw_SOI
      BY <1>8, <1>9, <2>3
    <2>5. e.saw_SOF <=> k + 1 >= FrameAt(c)
      BY <1>6, <2>1 DEF f
    <2>6. SameSource(e, r) /\ HeaderState(r, c, arrays, k + 1)
      BY <1>2, <1>4, <1>5, <2>2, <2>4, <2>5, HeaderMarkIsRead DEF u
    <2> QED BY <1>4, <2>6, SourceIsTheSame
  <1>10. CASE h < k + 1 /\ k + 1 # f
    <2>1. /\ k # 0 /\ (k + 1 \in h + 1 .. f - 1 \/ k + 1 \in f + 1 .. s - 1)
          /\ (k >= f <=> k + 1 >= f)
      BY <1>2, <1>10
    <2>2. \/ \E t \in QuantSlots : u = DQT(t, c.quant_tbl_ptrs[t])
          \/ \E class \in {"DC", "AC"}, t \in HuffSlots : u = DHT(class, t, c.huff_tbl_ptrs[class][t])
      BY <1>1, <2>1, UnitsOfTheImage DEF h, f, s
    <2> HIDE DEF u, e
    <2>3. u.kind \in {"DQT", "DHT", "DRI"}
      BY <2>2 DEF DQT, DHT
    <2>4. r = get_tables(e, u) /\ e.saw_SOI
      BY <1>8, <2>1, <2>3
    <2>5. e.saw_SOF <=> k + 1 >= FrameAt(c)
      BY <1>6, <2>1 DEF f
    <2>6. SameSource(e, r) /\ HeaderState(r, c, arrays, k + 1)
      BY <1>2, <1>4, <1>5, <2>2, <2>4, <2>5, HeaderTableIsRead DEF u
    <2> QED BY <1>4, <2>6, SourceIsTheSame
  <1>11. CASE k + 1 = f
    <2>1. k # 0 /\ k + 1 = FrameAt(c)
      BY <1>2, <1>11 DEF f
    <2>2. u = emit_sof(c)[1]
      BY <1>1, <2>1, UnitsOfTheImage
    <2> HIDE DEF u, e
    <2>3. e.saw_SOI
      BY <1>8, <2>1
    <2>4. /\ u.kind = "SOF"
          /\ SameSource(e, get_sof(e, u)) /\ HeaderState(get_sof(e, u), c, arrays, k + 1)
      BY <1>2, <1>4, <1>5, <2>1, <2>2, <2>3, HeaderSOFIsRead DEF u
    <2>5. r = get_sof(e, u)
      BY <1>8, <2>1, <2>4
    <2> QED BY <1>4, <2>4, <2>5, SourceIsTheSame
  <1> QED BY <1>2, <1>7, <1>9, <1>10, <1>11

\* The object in its only scan, which has all components with all their tables.
NoTables(c) == [ci \in DOMAIN c.comp_info |-> NoTable]
TablesOf(c) == [ci \in DOMAIN c.comp_info |-> c.quant_tbl_ptrs[c.comp_info[ci].quant_tbl_no]]
ScanState(d, c) ==
  /\ d.error = "none" /\ ~d.warned /\ d.restart_interval = 0 /\ d.coding = "sequential"
  /\ d.saw_SOI /\ d.saw_SOF /\ d.has_multiple_scans = FALSE
  /\ d.cur_comp_info = [ci \in DOMAIN c.comp_info |-> ci] /\ d.band = {"DC", "AC"}
  /\ d.jpeg_color_space = c.jpeg_color_space
  /\ \A ci \in DOMAIN c.comp_info :
       /\ d.quant_tbl_ptrs[c.comp_info[ci].quant_tbl_no] = c.quant_tbl_ptrs[c.comp_info[ci].quant_tbl_no]
       /\ d.huff_tbl_ptrs["DC"][c.comp_info[ci].dc_tbl_no] = c.huff_tbl_ptrs["DC"][c.comp_info[ci].dc_tbl_no]
       /\ d.huff_tbl_ptrs["AC"][c.comp_info[ci].ac_tbl_no] = c.huff_tbl_ptrs["AC"][c.comp_info[ci].ac_tbl_no]
ReadyState(d, c) ==
  /\ ScanState(d, c) /\ ~d.eoi_reached /\ d.global_state = "DSTATE_READY" /\ d.consume_input = "markers"
  /\ d.comp_info = ScanOf(c, NoTables(c))

\* The tables of the entropy code are put into the entry of a component.
LEMMA EntryIsSet ==
  ASSUME NEW id, NEW slot, NEW blocks, NEW table, NEW dc, NEW ac,
         NEW old, old = [component_id |-> id, quant_tbl_no |-> slot, MCU_blocks |-> blocks,
                         dc_tbl_no |-> 0, ac_tbl_no |-> 0, quant_table |-> table],
         NEW new, new = [old EXCEPT !.dc_tbl_no = dc, !.ac_tbl_no = ac]
  PROVE  new = [component_id |-> id, quant_tbl_no |-> slot, MCU_blocks |-> blocks,
                dc_tbl_no |-> dc, ac_tbl_no |-> ac, quant_table |-> table]
  OBVIOUS

\* The components of the scan are found, each at its own place.
LEMMA ScanIsFound ==
  ASSUME NEW c, Sendable(c), InOneScan(c), NEW e, e.saw_SOF, e.comp_info = FrameOf(c),
         NEW u, u = emit_sos(c)[1]
  PROVE  /\ u.kind = "SOS"
         /\ get_sos(e, u) = [e EXCEPT !.cur_comp_info = [ci \in DOMAIN c.comp_info |-> ci],
                                      !.band = {"DC", "AC"}, !.comp_info = ScanOf(c, NoTables(c))]
  <1> DEFINE D == DOMAIN c.comp_info
             scan == [ci \in D |->
                        [component_id |-> c.comp_info[ci].component_id,
                         dc_tbl_no |-> c.comp_info[ci].dc_tbl_no,
                         ac_tbl_no |-> c.comp_info[ci].ac_tbl_no]]
             with(i) == {ci \in DOMAIN e.comp_info : e.comp_info[ci].component_id = u.scan[i].component_id}
             found(i) == CHOOSE ci \in with(i) : \A cj \in with(i) : ci <= cj
             used == {i \in DOMAIN u.scan : with(i) # {}}
             scanned(ci) == {i \in DOMAIN u.scan : found(i) = ci}
             last(ci) == CHOOSE i \in scanned(ci) : \A j \in scanned(ci) : j <= i
             cur == [i \in DOMAIN u.scan |-> found(i)]
             comps == [ci \in DOMAIN e.comp_info |->
                         IF scanned(ci) = {} THEN e.comp_info[ci]
                         ELSE [e.comp_info[ci] EXCEPT !.dc_tbl_no = u.scan[last(ci)].dc_tbl_no,
                                                      !.ac_tbl_no = u.scan[last(ci)].ac_tbl_no]]
             new == [e EXCEPT !.cur_comp_info = cur, !.band = u.band, !.comp_info = comps]
  <1>1. u = SOS(scan, {"DC", "AC"})
    BY DEF emit_sos
  <1>2. /\ Len(c.comp_info) \in Nat /\ D = 1 .. Len(c.comp_info)
        /\ Len(c.comp_info) \in 1 .. MAX_COMPS_IN_SCAN
    <2>1. Len(c.comp_info) \in Nat /\ D = 1 .. Len(c.comp_info)
      BY WrittenComponents DEF Sendable
    <2>2. Len(c.comp_info) # 0
      <3>1. c.comp_info # << >>
        BY DEF Sendable
      <3>2. \E S : c.comp_info \in Seq(S)
        BY DEF Sendable, IsCompress, ParametersOK
      <3> QED BY <3>1, <3>2, EmptySeq
    <2>3. MAX_COMPS_IN_SCAN \in Nat /\ Len(c.comp_info) <= MAX_COMPS_IN_SCAN
      BY JobsAssumption, Zenon DEF InOneScan
    <2> QED BY <2>1, <2>2, <2>3
  <1> HIDE DEF scan
  <1>3. u.kind = "SOS" /\ u.scan = scan /\ u.band = {"DC", "AC"}
    BY <1>1 DEF SOS
  <1>4. /\ DOMAIN scan = D /\ DOMAIN e.comp_info = D /\ Len(scan) = Len(c.comp_info)
        /\ \A ci \in D : /\ scan[ci].component_id = c.comp_info[ci].component_id
                         /\ scan[ci].dc_tbl_no = c.comp_info[ci].dc_tbl_no
                         /\ scan[ci].ac_tbl_no = c.comp_info[ci].ac_tbl_no
                         /\ e.comp_info[ci] = FrameOf(c)[ci]
                         /\ e.comp_info[ci].component_id = c.comp_info[ci].component_id
    <2>1. DOMAIN scan = D /\ DOMAIN e.comp_info = D
      BY DEF scan, FrameOf
    <2>2. Len(scan) = Len(c.comp_info)
      <3>1. scan = [i \in 1 .. Len(c.comp_info) |-> scan[i]]
        BY <1>2 DEF scan
      <3> QED BY <1>2, <3>1, OnAnInterval
    <2> QED BY <2>1, <2>2 DEF scan, FrameOf
  <1>5. ASSUME NEW i \in D PROVE with(i) = {i}
    <2>1. \A ci \in D : c.comp_info[ci].component_id = c.comp_info[i].component_id <=> ci = i
      BY DEF Sendable, DistinctIds
    <2> QED BY <1>3, <1>4, <2>1
  <1> HIDE DEF with
  <1>6. ASSUME NEW i \in D PROVE found(i) = i
    <2>1. i <= i
      BY <1>2
    <2> QED BY <1>5, <2>1
  <1> HIDE DEF found
  <1>7. used = DOMAIN u.scan
    BY <1>3, <1>4, <1>5
  <1>8. ASSUME NEW ci \in D PROVE scanned(ci) = {ci}
    BY <1>3, <1>4, <1>6
  <1> HIDE DEF scanned
  <1>9. ASSUME NEW ci \in D PROVE last(ci) = ci
    <2>1. ci <= ci
      BY <1>2
    <2> QED BY <1>8, <2>1
  <1> HIDE DEF last, used
  <1>10. cur = [ci \in D |-> ci]
    BY <1>3, <1>4, <1>6
  <1>11. comps = ScanOf(c, NoTables(c))
    <2>1. ASSUME NEW ci \in D
          PROVE  comps[ci] = ScanOf(c, NoTables(c))[ci]
      <3>1. comps[ci] = [e.comp_info[ci] EXCEPT !.dc_tbl_no = u.scan[ci].dc_tbl_no,
                                                !.ac_tbl_no = u.scan[ci].ac_tbl_no]
        BY <1>4, <1>8, <1>9
      <3> DEFINE old == [component_id |-> c.comp_info[ci].component_id,
                         quant_tbl_no |-> c.comp_info[ci].quant_tbl_no,
                         MCU_blocks   |-> c.comp_info[ci].MCU_blocks,
                         dc_tbl_no |-> 0, ac_tbl_no |-> 0, quant_table |-> NoTable]
                 entry == [old EXCEPT !.dc_tbl_no = c.comp_info[ci].dc_tbl_no,
                                    !.ac_tbl_no = c.comp_info[ci].ac_tbl_no]
      <3>2. e.comp_info[ci] = old
        BY <1>4 DEF FrameOf
      <3>3. comps[ci] = entry
        <4> HIDE DEF old, comps
        <4> QED BY <1>3, <1>4, <3>1, <3>2
      <3>4. entry = [component_id |-> c.comp_info[ci].component_id,
                   quant_tbl_no |-> c.comp_info[ci].quant_tbl_no,
                   MCU_blocks   |-> c.comp_info[ci].MCU_blocks,
                   dc_tbl_no |-> c.comp_info[ci].dc_tbl_no, ac_tbl_no |-> c.comp_info[ci].ac_tbl_no,
                   quant_table |-> NoTable]
        <4>1. old = [component_id |-> c.comp_info[ci].component_id,
                     quant_tbl_no |-> c.comp_info[ci].quant_tbl_no,
                     MCU_blocks   |-> c.comp_info[ci].MCU_blocks,
                     dc_tbl_no |-> 0, ac_tbl_no |-> 0, quant_table |-> NoTable]
          OBVIOUS
        <4>2. entry = [old EXCEPT !.dc_tbl_no = c.comp_info[ci].dc_tbl_no,
                                  !.ac_tbl_no = c.comp_info[ci].ac_tbl_no]
          OBVIOUS
        <4> HIDE DEF old, entry
        <4> QED BY <4>1, <4>2, EntryIsSet
      <3> HIDE DEF entry, comps
      <3> QED BY <3>3, <3>4 DEF ScanOf, NoTables
    <2>2. DOMAIN comps = D
      BY <1>4
    <2> HIDE DEF comps
    <2>3. comps = [ci \in D |-> comps[ci]]
      <3>1. comps = [ci \in DOMAIN comps |-> comps[ci]]
        BY DEF comps
      <3> QED BY <2>2, <3>1
    <2> QED BY <2>1, <2>3 DEF ScanOf
  <1>12. get_sos(e, u) = new
    <2>1. get_sos(e, u) = IF ~e.saw_SOF THEN Failed(e, "JERR_SOS_NO_SOF")
             ELSE IF Len(u.scan) \notin 1 .. MAX_COMPS_IN_SCAN THEN Failed(e, "JERR_BAD_LENGTH")
             ELSE IF used # DOMAIN u.scan THEN Failed(e, "JERR_BAD_COMPONENT_ID")
             ELSE new
      BY Zenon DEF get_sos, with, found, scanned, last, used
    <2> HIDE DEF new
    <2> QED BY <1>2, <1>3, <1>4, <1>7, <2>1
  <1> HIDE DEF cur, comps
  <1> QED BY <1>3, <1>10, <1>11, <1>12

\* Behind the tables all marks have been seen, and everything that is used is known.
LEMMA HeaderIsKnown ==
  ASSUME NEW c, Sendable(c), NEW arrays, NEW d, NEW k, k + 1 = ScanAt(c), k \in Nat,
         HeaderState(d, c, arrays, k)
  PROVE  /\ d.saw_SOI /\ d.saw_SOF /\ d.comp_info = FrameOf(c)
         /\ d.saw_JFIF_marker <=> c.write_JFIF_header
         /\ d.Adobe_transform = c.Adobe_transform
         /\ \A ci \in DOMAIN c.comp_info :
              /\ d.quant_tbl_ptrs[c.comp_info[ci].quant_tbl_no] = c.quant_tbl_ptrs[c.comp_info[ci].quant_tbl_no]
              /\ d.huff_tbl_ptrs["DC"][c.comp_info[ci].dc_tbl_no] = c.huff_tbl_ptrs["DC"][c.comp_info[ci].dc_tbl_no]
              /\ d.huff_tbl_ptrs["AC"][c.comp_info[ci].ac_tbl_no] = c.huff_tbl_ptrs["AC"][c.comp_info[ci].ac_tbl_no]
  <1> DEFINE f == FrameAt(c)
             s == ScanAt(c)
  <1>1. IsCompress(c)
    BY DEF Sendable
  <1>2. f \in Nat /\ s \in Nat /\ 1 <= f /\ f < s /\ k + 1 = s /\ s - 1 = k
    <2> DEFINE h == HeaderEnd(c)
    <2>1. h \in Nat /\ f \in Nat /\ s \in Nat /\ 1 <= h /\ h < f /\ f < s /\ k + 1 = s
      BY <1>1, PlacesOfTheImage
    <2> HIDE DEF h, f, s
    <2> QED BY <2>1
  <1> HIDE DEF f, s
  <1>3. k >= 1 /\ k >= f
    BY <1>2
  <1>4. d.saw_SOI /\ d.saw_SOF /\ d.comp_info = FrameOf(c)
    BY <1>3 DEF HeaderState, f
  <1>5. \A i \in 1 .. s - 1 : Taken(d, c, UnitAt(c, arrays, i))
    BY <1>2 DEF HeaderState
  <1>6. d.saw_JFIF_marker <=> c.write_JFIF_header
    <2>1. d.saw_JFIF_marker => c.write_JFIF_header
      BY DEF HeaderState
    <2>2. ASSUME c.write_JFIF_header PROVE d.saw_JFIF_marker
      <3>1. PICK i \in 1 .. s - 1 : UnitAt(c, arrays, i) = APP0
        BY <1>1, <2>2, NothingIsMissing DEF s
      <3>2. Taken(d, c, APP0)
        BY <1>5, <3>1
      <3> QED BY <3>2 DEF Taken, APP0
    <2> QED BY <2>1, <2>2
  <1>7. d.Adobe_transform = c.Adobe_transform
    <2>1. d.Adobe_transform \in {-1, c.Adobe_transform}
      BY DEF HeaderState
    <2>2. ASSUME c.Adobe_transform # -1 PROVE d.Adobe_transform = c.Adobe_transform
      <3>1. PICK i \in 1 .. s - 1 : UnitAt(c, arrays, i) = APP14(c.Adobe_transform)
        BY <1>1, <2>2, NothingIsMissing DEF s
      <3>2. Taken(d, c, APP14(c.Adobe_transform))
        BY <1>5, <3>1
      <3> QED BY <3>2 DEF Taken, APP14
    <2> QED BY <2>1, <2>2
  <1>8. ASSUME NEW ci \in DOMAIN c.comp_info
        PROVE /\ d.quant_tbl_ptrs[c.comp_info[ci].quant_tbl_no] = c.quant_tbl_ptrs[c.comp_info[ci].quant_tbl_no]
              /\ d.huff_tbl_ptrs["DC"][c.comp_info[ci].dc_tbl_no] = c.huff_tbl_ptrs["DC"][c.comp_info[ci].dc_tbl_no]
              /\ d.huff_tbl_ptrs["AC"][c.comp_info[ci].ac_tbl_no] = c.huff_tbl_ptrs["AC"][c.comp_info[ci].ac_tbl_no]
    <2> DEFINE q == c.comp_info[ci].quant_tbl_no
               dc == c.comp_info[ci].dc_tbl_no
               ac == c.comp_info[ci].ac_tbl_no
    <2>1. PICK i \in 1 .. s - 1 : UnitAt(c, arrays, i) = DQT(q, c.quant_tbl_ptrs[q])
      BY <1>1, NothingIsMissing DEF s
    <2>2. PICK j \in 1 .. s - 1 : UnitAt(c, arrays, j) = DHT("DC", dc, c.huff_tbl_ptrs["DC"][dc])
      BY <1>1, NothingIsMissing DEF s
    <2>3. PICK l \in 1 .. s - 1 : UnitAt(c, arrays, l) = DHT("AC", ac, c.huff_tbl_ptrs["AC"][ac])
      BY <1>1, NothingIsMissing DEF s
    <2> HIDE DEF q, dc, ac
    <2>4. Taken(d, c, DQT(q, c.quant_tbl_ptrs[q]))
      BY <1>5, <2>1
    <2>5. Taken(d, c, DHT("DC", dc, c.huff_tbl_ptrs["DC"][dc]))
      BY <1>5, <2>2
    <2>6. Taken(d, c, DHT("AC", ac, c.huff_tbl_ptrs["AC"][ac]))
      BY <1>5, <2>3
    <2>7. d.quant_tbl_ptrs[q] = c.quant_tbl_ptrs[q]
      BY <2>4 DEF Taken, DQT
    <2>8. d.huff_tbl_ptrs["DC"][dc] = c.huff_tbl_ptrs["DC"][dc]
      BY <2>5 DEF Taken, DHT
    <2>9. d.huff_tbl_ptrs["AC"][ac] = c.huff_tbl_ptrs["AC"][ac]
      BY <2>6 DEF Taken, DHT
    <2> QED BY <2>7, <2>8, <2>9 DEF q, dc, ac
  <1> QED BY <1>4, <1>6, <1>7, <1>8

\* The marks say which color space it is.
LEMMA ColorSpaceIsTold ==
  ASSUME NEW c, Sendable(c), NEW d, Len(d.comp_info) = Len(c.comp_info), DOMAIN d.comp_info = DOMAIN c.comp_info,
         d.saw_JFIF_marker <=> c.write_JFIF_header, d.Adobe_transform = c.Adobe_transform
  PROVE  default_decompress_parms(d) = c.jpeg_color_space
  <1> DEFINE ids == [ci \in DOMAIN d.comp_info |-> d.comp_info[ci].component_id]
             rgb == \/ ~d.saw_JFIF_marker /\ d.Adobe_transform = 0
                    \/ ~d.saw_JFIF_marker /\ d.Adobe_transform = -1 /\ ids = <<82, 71, 66>>
             three == IF rgb THEN "RGB" ELSE "YCbCr"
             four == IF d.Adobe_transform \in {-1, 0} THEN "CMYK" ELSE "YCCK"
             n == Len(ids)
             space == default_decompress_parms(d)
             given == c.jpeg_color_space
  <1>1. Len(c.comp_info) \in Nat /\ n = Len(c.comp_info)
    <2>1. Len(c.comp_info) \in Nat /\ DOMAIN c.comp_info = 1 .. Len(c.comp_info)
      BY WrittenComponents DEF Sendable
    <2>2. ids = [ci \in 1 .. Len(c.comp_info) |-> ids[ci]]
      BY <2>1
    <2> HIDE DEF ids
    <2> QED BY <2>1, <2>2, OnAnInterval
  <1>2. space = CASE n = 1 -> "GRAYSCALE" [] n = 3 -> three [] n = 4 -> four [] OTHER -> "UNKNOWN"
    BY Zenon DEF default_decompress_parms
  <1>3. /\ given \in ColorSpaces
        /\ c.write_JFIF_header <=> given \in {"GRAYSCALE", "YCbCr"}
        /\ given \in {"RGB", "CMYK"} => c.Adobe_transform = 0
        /\ given = "YCCK" => c.Adobe_transform = 2
        /\ n \in ColorComponents(given)
        /\ given = "UNKNOWN" => n \notin {1, 3, 4}
    BY <1>1 DEF Sendable, Marked, IsCompress, ParametersOK
  <1> HIDE DEF ids
  <1>4. /\ given = "RGB" => three = "RGB"
        /\ given = "YCbCr" => three = "YCbCr"
        /\ given = "CMYK" => four = "CMYK"
        /\ given = "YCCK" => four = "YCCK"
    BY <1>3
  <1>5. /\ given = "GRAYSCALE" => n = 1
        /\ given \in {"RGB", "YCbCr"} => n = 3
        /\ given \in {"CMYK", "YCCK"} => n = 4
    BY <1>3 DEF ColorComponents
  <1>6. given \in {"UNKNOWN", "GRAYSCALE", "RGB", "YCbCr", "CMYK", "YCCK"}
    BY <1>3 DEF ColorSpaces
  <1> HIDE DEF three, four, n, space, given
  <1>7. space = given
    BY <1>2, <1>3, <1>4, <1>5, <1>6
  <1> QED BY <1>7 DEF space, given

\* The scan header ends the header.
LEMMA ScanHeaderIsRead ==
  ASSUME NEW c, Sendable(c), InOneScan(c), NEW arrays, NEW k, NEW d, IsDecompress(d), Source(d, c, arrays, k),
         d.buffer # << >>, HeaderState(d, c, arrays, k), k + 1 = ScanAt(c), NEW r, r = ReadMarker(d)
  PROVE  Source(r, c, arrays, k + 1) /\ ReadyState(r, c)
  <1> DEFINE u == UnitAt(c, arrays, k + 1)
             e == [d EXCEPT !.buffer = Tail(@)]
             D == DOMAIN c.comp_info
             cur == [ci \in D |-> ci]
             info == ScanOf(c, NoTables(c))
             s == [e EXCEPT !.cur_comp_info = cur, !.band = {"DC", "AC"}, !.comp_info = info]
             cleared == [ci \in DOMAIN s.comp_info |-> [s.comp_info[ci] EXCEPT !.quant_table = NoTable]]
             several == Len(s.cur_comp_info) < Len(s.comp_info) \/ s.coding = "progressive"
             set == [s EXCEPT !.inheaders = FALSE, !.comp_info = cleared, !.has_multiple_scans = several]
             ready == [set EXCEPT !.jpeg_color_space = default_decompress_parms(set),
                                  !.global_state = "DSTATE_READY"]
  <1>1. IsCompress(c) /\ k \in Nat /\ d.error = "none"
    BY DEF Sendable, Source, HeaderState, Sound
  <1>2. Head(d.buffer) = u /\ IsDecompress(e) /\ Source(e, c, arrays, k + 1) /\ SameReading(d, e)
    BY <1>1, NextUnit
  <1>3. HeaderState(e, c, arrays, k)
    <2> HIDE DEF e
    <2> QED BY <1>2, HeaderIsTheSame
  <1> HIDE DEF e, u
  <1>4. /\ e.saw_SOI /\ e.saw_SOF /\ e.comp_info = FrameOf(c)
        /\ e.saw_JFIF_marker <=> c.write_JFIF_header
        /\ e.Adobe_transform = c.Adobe_transform
        /\ \A ci \in DOMAIN c.comp_info :
              /\ e.quant_tbl_ptrs[c.comp_info[ci].quant_tbl_no] = c.quant_tbl_ptrs[c.comp_info[ci].quant_tbl_no]
              /\ e.huff_tbl_ptrs["DC"][c.comp_info[ci].dc_tbl_no] = c.huff_tbl_ptrs["DC"][c.comp_info[ci].dc_tbl_no]
              /\ e.huff_tbl_ptrs["AC"][c.comp_info[ci].ac_tbl_no] = c.huff_tbl_ptrs["AC"][c.comp_info[ci].ac_tbl_no]
    BY <1>1, <1>3, HeaderIsKnown
  <1>5. u = emit_sos(c)[1]
    BY <1>1, UnitsOfTheImage DEF u
  <1>6. u.kind = "SOS" /\ get_sos(e, u) = s
    <2>1. /\ u.kind = "SOS"
          /\ get_sos(e, u) = [e EXCEPT !.cur_comp_info = [ci \in DOMAIN c.comp_info |-> ci],
                                       !.band = {"DC", "AC"}, !.comp_info = ScanOf(c, NoTables(c))]
      <3>1. e.saw_SOF /\ e.comp_info = FrameOf(c)
        BY <1>4
      <3> HIDE DEF s, cur, info
      <3> QED BY <1>5, <3>1, ScanIsFound, Zenon
    <2> QED BY <2>1, Zenon
  <1>7. d.saw_SOI
    BY <1>2, <1>4 DEF SameReading
  <1>8. /\ e.global_state = "DSTATE_START" /\ e.consume_input = "markers" /\ e.error = "none" /\ ~e.warned
        /\ ~e.eoi_reached /\ e.restart_interval = 0 /\ e.coding = "sequential" /\ e.inheaders
    BY <1>2, <1>3 DEF HeaderState, Sound, IsDecompress, FrameOK
  <1> HIDE DEF cur, info
  <1>9. /\ DOMAIN s = DOMAIN jpeg_decompress_struct
        /\ s.cur_comp_info = cur /\ s.band = {"DC", "AC"} /\ s.comp_info = info
        /\ s.global_state = e.global_state /\ s.consume_input = e.consume_input /\ s.error = e.error
        /\ s.warned = e.warned /\ s.eoi_reached = e.eoi_reached /\ s.inheaders = e.inheaders
        /\ s.coding = e.coding /\ s.restart_interval = e.restart_interval
        /\ s.saw_SOI = e.saw_SOI /\ s.saw_SOF = e.saw_SOF /\ s.saw_JFIF_marker = e.saw_JFIF_marker
        /\ s.Adobe_transform = e.Adobe_transform /\ s.quant_tbl_ptrs = e.quant_tbl_ptrs
        /\ s.huff_tbl_ptrs = e.huff_tbl_ptrs /\ SameSource(e, s)
    BY <1>2 DEF IsDecompress, jpeg_decompress_struct, SameSource
  <1>10. r = ReachedSOS(s)
    <2> HIDE DEF s
    <2> QED BY <1>1, <1>2, <1>6, <1>7, <1>8, <1>9, CallsForAMarker DEF e
  <1> HIDE DEF s
  <1>11. /\ Len(c.comp_info) \in Nat /\ D = 1 .. Len(c.comp_info) /\ Len(c.comp_info) <= MAX_COMPONENTS
         /\ MAX_COMPONENTS \in Nat
    BY WrittenComponents, JobsAssumption DEF Sendable
  <1>12. DOMAIN info = D /\ Len(info) = Len(c.comp_info) /\ Len(cur) = Len(c.comp_info)
    <2>1. DOMAIN info = D /\ info = [i \in D |-> info[i]] /\ cur = [i \in D |-> cur[i]]
      BY DEF info, cur, ScanOf
    <2> QED BY <1>11, <2>1, OnAnInterval
  <1>13. cleared = info
    <2>1. \A ci \in D : [info[ci] EXCEPT !.quant_table = NoTable] = info[ci]
      BY DEF info, ScanOf, NoTables
    <2>2. info = [i \in D |-> info[i]]
      BY DEF info, ScanOf
    <2> QED BY <1>9, <1>12, <2>1, <2>2
  <1>14. several = FALSE
    BY <1>8, <1>9, <1>11, <1>12
  <1>15. initial_setup(s) = set
    <2>1. initial_setup(s) = IF Len(s.comp_info) > MAX_COMPONENTS THEN Failed(s, "JERR_COMPONENT_COUNT")
                             ELSE set
      BY Zenon DEF initial_setup
    <2> HIDE DEF set
    <2>2. ~(Len(s.comp_info) > MAX_COMPONENTS)
      BY <1>9, <1>11, <1>12
    <2> QED BY <2>1, <2>2
  <1> HIDE DEF cleared, several
  <1>16. /\ DOMAIN set = DOMAIN jpeg_decompress_struct
         /\ set.cur_comp_info = cur /\ set.band = {"DC", "AC"} /\ set.comp_info = info
         /\ set.has_multiple_scans = FALSE
         /\ set.consume_input = s.consume_input /\ set.error = s.error
         /\ set.warned = s.warned /\ set.eoi_reached = s.eoi_reached
         /\ set.coding = s.coding /\ set.restart_interval = s.restart_interval
         /\ set.saw_SOI = s.saw_SOI /\ set.saw_SOF = s.saw_SOF /\ set.saw_JFIF_marker = s.saw_JFIF_marker
         /\ set.Adobe_transform = s.Adobe_transform /\ set.quant_tbl_ptrs = s.quant_tbl_ptrs
         /\ set.huff_tbl_ptrs = s.huff_tbl_ptrs /\ SameSource(s, set)
    BY <1>9, <1>13, <1>14 DEF jpeg_decompress_struct, SameSource
  <1>17. r = ready
    <2>1. ReachedSOS(s) = IF s.inheaders
                THEN IF initial_setup(s).error # "none" THEN initial_setup(s)
                     ELSE [initial_setup(s) EXCEPT !.jpeg_color_space = default_decompress_parms(initial_setup(s)),
                                                   !.global_state = "DSTATE_READY"]
                ELSE IF s.has_multiple_scans THEN start_input_pass(s)
                ELSE Failed(s, "JERR_EOI_EXPECTED")
      BY Zenon DEF ReachedSOS
    <2> HIDE DEF set
    <2> QED BY <1>8, <1>9, <1>10, <1>15, <1>16, <2>1
  <1> HIDE DEF set
  <1>18. default_decompress_parms(set) = c.jpeg_color_space
    <2>1. Len(set.comp_info) = Len(c.comp_info) /\ DOMAIN set.comp_info = DOMAIN c.comp_info
      BY <1>12, <1>16
    <2>2. (set.saw_JFIF_marker <=> c.write_JFIF_header) /\ set.Adobe_transform = c.Adobe_transform
      BY <1>4, <1>9, <1>16
    <2> QED BY <2>1, <2>2, ColorSpaceIsTold
  <1> HIDE DEF D
  <1>19. /\ r.jpeg_color_space = c.jpeg_color_space /\ r.global_state = "DSTATE_READY"
         /\ r.cur_comp_info = cur /\ r.band = {"DC", "AC"} /\ r.comp_info = info
         /\ r.has_multiple_scans = FALSE
         /\ r.consume_input = set.consume_input /\ r.error = set.error
         /\ r.warned = set.warned /\ r.eoi_reached = set.eoi_reached
         /\ r.coding = set.coding /\ r.restart_interval = set.restart_interval
         /\ r.saw_SOI = set.saw_SOI /\ r.saw_SOF = set.saw_SOF /\ r.quant_tbl_ptrs = set.quant_tbl_ptrs
         /\ r.huff_tbl_ptrs = set.huff_tbl_ptrs /\ SameSource(set, r)
    BY <1>16, <1>17, <1>18 DEF jpeg_decompress_struct, SameSource
  <1>20. Source(r, c, arrays, k + 1)
    BY <1>2, <1>9, <1>16, <1>19 DEF SameSource, Source
  <1>21. ReadyState(r, c)
    BY SMTT(30), <1>4, <1>8, <1>9, <1>16, <1>19 DEF ReadyState, ScanState, cur, info, D
  <1> QED BY <1>20, <1>21

\* What the object knows of each component.
LEMMA EntriesOfTheScan ==
  ASSUME NEW c, NEW tables
  PROVE  /\ DOMAIN ScanOf(c, tables) = DOMAIN c.comp_info
         /\ \A ci \in DOMAIN c.comp_info :
              /\ ScanOf(c, tables)[ci].component_id = c.comp_info[ci].component_id
              /\ ScanOf(c, tables)[ci].quant_tbl_no = c.comp_info[ci].quant_tbl_no
              /\ ScanOf(c, tables)[ci].MCU_blocks = c.comp_info[ci].MCU_blocks
              /\ ScanOf(c, tables)[ci].dc_tbl_no = c.comp_info[ci].dc_tbl_no
              /\ ScanOf(c, tables)[ci].ac_tbl_no = c.comp_info[ci].ac_tbl_no
              /\ ScanOf(c, tables)[ci].quant_table = tables[ci]
  BY DEF ScanOf

\* Behind r rows.
RowsRead(c, arrays, r) ==
  [ci \in DOMAIN c.comp_info |-> [q \in Rows |-> IF q <= r THEN arrays[ci][q] ELSE Blank]]
RowState(d, c, arrays, r) ==
  /\ ScanState(d, c) /\ ~d.eoi_reached /\ d.global_state = "DSTATE_RDCOEFS"
  /\ d.comp_info = ScanOf(c, TablesOf(c))
  /\ r \in 0 .. NoOfRows /\ d.input_iMCU_row = r /\ ~d.insufficient_data
  /\ d.consume_input = IF r < NoOfRows THEN "data" ELSE "markers"
  /\ d.coef_arrays = RowsRead(c, arrays, r)

\* The rows are decoded with the tables they were coded with.
LEMMA CodesAgree ==
  ASSUME NEW c, Sendable(c), NEW d, ScanState(d, c), DOMAIN d.comp_info = DOMAIN c.comp_info,
         \A ci \in DOMAIN c.comp_info : /\ d.comp_info[ci].dc_tbl_no = c.comp_info[ci].dc_tbl_no
                                        /\ d.comp_info[ci].ac_tbl_no = c.comp_info[ci].ac_tbl_no
  PROVE  ScanCode(d) = WriterCode(c) /\ Scanned(d) = DOMAIN c.comp_info
  <1> DEFINE D == DOMAIN c.comp_info
  <1>1. d.cur_comp_info = [ci \in D |-> ci]
    BY DEF ScanState
  <1>2. Scanned(d) = D
    BY <1>1 DEF Scanned
  <1>3. \A ci \in D : c.comp_info[ci].dc_tbl_no \in HuffSlots /\ c.comp_info[ci].ac_tbl_no \in HuffSlots
    BY WrittenComponents DEF Sendable
  <1>4. ASSUME NEW ci \in D
        PROVE  /\ HuffTable(d, "DC", d.comp_info[d.cur_comp_info[ci]].dc_tbl_no)
                    = c.huff_tbl_ptrs["DC"][c.comp_info[ci].dc_tbl_no]
               /\ HuffTable(d, "AC", d.comp_info[d.cur_comp_info[ci]].ac_tbl_no)
                    = c.huff_tbl_ptrs["AC"][c.comp_info[ci].ac_tbl_no]
    <2>1. /\ d.comp_info[d.cur_comp_info[ci]].dc_tbl_no = c.comp_info[ci].dc_tbl_no
          /\ d.comp_info[d.cur_comp_info[ci]].ac_tbl_no = c.comp_info[ci].ac_tbl_no
      BY <1>1
    <2> QED BY <1>3, <2>1 DEF ScanState, HuffTable
  <1>5. d.restart_interval = c.restart_interval
    BY DEF ScanState, Sendable
  <1>6. DOMAIN d.cur_comp_info = D
    BY <1>1
  <1>7. ScanCode(d) = WriterCode(c)
    BY <1>4, <1>5, <1>6 DEF ScanCode, WriterCode
  <1> QED BY <1>2, <1>7

\* The scan starts, with blank arrays.
LEMMA RowsAreStarted ==
  ASSUME NEW c, Sendable(c), InOneScan(c), NEW arrays, NEW d, IsDecompress(d), ReadyState(d, c),
         NEW r, r = StartCoefficients(d)
  PROVE  SameSource(d, r) /\ RowState(r, c, arrays, 0)
  <1> DEFINE D == DOMAIN c.comp_info
             blank == [ci \in DOMAIN d.comp_info |-> [q \in Rows |-> Blank]]
             e == [d EXCEPT !.global_state = "DSTATE_RDCOEFS", !.coef_arrays = blank]
             comps == [ci \in DOMAIN e.comp_info |->
                 IF ci \in Scanned(e) THEN [e.comp_info[ci] EXCEPT !.quant_table = Latched(e, ci)]
                 ELSE e.comp_info[ci]]
             new == [e EXCEPT !.comp_info = comps, !.consume_input = "data", !.input_iMCU_row = 0,
                              !.insufficient_data = FALSE]
             missing(class, k) == class \in e.band /\ \E i \in DOMAIN e.cur_comp_info :
                                    ScanCode(e).tables[i][k] = NoTable
  <1>1. r = start_input_pass(e)
    BY DEF StartCoefficients, ReadyState, ScanState
  <1>2. /\ DOMAIN d.comp_info = D /\ \A ci \in D : d.comp_info[ci] = ScanOf(c, NoTables(c))[ci]
    BY DEF ReadyState, ScanOf
  <1>3. \A ci \in D : /\ d.comp_info[ci].quant_tbl_no = c.comp_info[ci].quant_tbl_no
                      /\ d.comp_info[ci].MCU_blocks = c.comp_info[ci].MCU_blocks
                      /\ d.comp_info[ci].dc_tbl_no = c.comp_info[ci].dc_tbl_no
                      /\ d.comp_info[ci].ac_tbl_no = c.comp_info[ci].ac_tbl_no
                      /\ d.comp_info[ci].quant_table = NoTable
    BY <1>2, EntriesOfTheScan DEF NoTables
  <1>4. blank = RowsRead(c, arrays, 0)
    <2>1. \A q \in Rows : ~(q <= 0)
      BY DEF Rows
    <2> QED BY <1>2, <2>1 DEF RowsRead
  <1> HIDE DEF blank
  <1>5. /\ DOMAIN e = DOMAIN jpeg_decompress_struct
        /\ e.global_state = "DSTATE_RDCOEFS" /\ e.coef_arrays = blank /\ e.comp_info = d.comp_info
        /\ e.error = d.error /\ e.warned = d.warned /\ e.restart_interval = d.restart_interval
        /\ e.coding = d.coding /\ e.saw_SOI = d.saw_SOI /\ e.saw_SOF = d.saw_SOF
        /\ e.has_multiple_scans = d.has_multiple_scans /\ e.cur_comp_info = d.cur_comp_info
        /\ e.band = d.band /\ e.jpeg_color_space = d.jpeg_color_space
        /\ e.quant_tbl_ptrs = d.quant_tbl_ptrs /\ e.huff_tbl_ptrs = d.huff_tbl_ptrs
        /\ e.eoi_reached = d.eoi_reached /\ SameSource(d, e)
    BY DEF IsDecompress, jpeg_decompress_struct, SameSource
  <1> HIDE DEF e
  <1>6. ScanState(e, c)
    BY <1>5 DEF ReadyState, ScanState
  <1>7. ScanCode(e) = WriterCode(c) /\ Scanned(e) = D
    BY <1>2, <1>3, <1>5, <1>6, CodesAgree
  <1>8. FitsMCU(e.comp_info, e.cur_comp_info)
    <2> DEFINE cur == [ci \in D |-> ci]
               blocks == [i \in DOMAIN cur |-> c.comp_info[cur[i]].MCU_blocks]
    <2>1. e.cur_comp_info = cur
      BY <1>6 DEF ScanState
    <2>2. blocks = [i \in DOMAIN cur |-> e.comp_info[cur[i]].MCU_blocks]
      BY <1>3, <1>5
    <2>3. Len(cur) = 1 \/ BlocksInMCU(blocks) <= MAX_BLOCKS_IN_MCU
      BY Zenon DEF InOneScan, FitsMCU
    <2> HIDE DEF cur, blocks
    <2> QED BY <2>1, <2>2, <2>3 DEF FitsMCU
  <1>9. ASSUME NEW ci \in D
        PROVE  Latched(e, ci) = TablesOf(c)[ci] /\ Latched(e, ci) # NoTable
    <2>1. c.comp_info[ci].quant_tbl_no \in QuantSlots
      BY WrittenComponents DEF Sendable
    <2>2. Latched(e, ci) = e.quant_tbl_ptrs[c.comp_info[ci].quant_tbl_no]
      BY <1>3, <1>5, <2>1 DEF Latched
    <2>3. e.quant_tbl_ptrs[c.comp_info[ci].quant_tbl_no] = c.quant_tbl_ptrs[c.comp_info[ci].quant_tbl_no]
      BY <1>6 DEF ScanState
    <2> QED BY <2>2, <2>3 DEF TablesOf, Sendable
  <1>10. ~missing("DC", 1) /\ ~missing("AC", 2)
    <2>1. \A i \in D : WriterCode(c).tables[i][1] # NoTable /\ WriterCode(c).tables[i][2] # NoTable
      BY DEF WriterCode, Sendable
    <2>2. DOMAIN e.cur_comp_info = D
      BY <1>6 DEF ScanState
    <2> QED BY <1>7, <2>1, <2>2
  <1>11. r = new
    <2>1. start_input_pass(e) =
            IF ~FitsMCU(e.comp_info, e.cur_comp_info) THEN Failed(e, "JERR_BAD_MCU_SIZE")
            ELSE IF \E ci \in Scanned(e) : Latched(e, ci) = NoTable THEN Failed(e, "JERR_NO_QUANT_TABLE")
            ELSE IF missing("DC", 1) \/ missing("AC", 2) THEN Failed(e, "JERR_NO_HUFF_TABLE")
            ELSE new
      BY Zenon DEF start_input_pass
    <2> HIDE DEF missing, new
    <2> QED BY <1>1, <1>7, <1>8, <1>9, <1>10, <2>1
  <1>12. comps = ScanOf(c, TablesOf(c))
    <2>1. ASSUME NEW ci \in D
          PROVE  [e.comp_info[ci] EXCEPT !.quant_table = Latched(e, ci)] = ScanOf(c, TablesOf(c))[ci]
      <3> DEFINE old == ScanOf(c, NoTables(c))[ci]
      <3>1. e.comp_info[ci] = old
        BY <1>2, <1>5
      <3>2. old = [component_id |-> c.comp_info[ci].component_id,
                   quant_tbl_no |-> c.comp_info[ci].quant_tbl_no,
                   MCU_blocks   |-> c.comp_info[ci].MCU_blocks,
                   dc_tbl_no |-> c.comp_info[ci].dc_tbl_no, ac_tbl_no |-> c.comp_info[ci].ac_tbl_no,
                   quant_table |-> NoTable]
        BY DEF ScanOf, NoTables
      <3> HIDE DEF old
      <3>3. [old EXCEPT !.quant_table = Latched(e, ci)] =
                  [component_id |-> c.comp_info[ci].component_id,
                   quant_tbl_no |-> c.comp_info[ci].quant_tbl_no,
                   MCU_blocks   |-> c.comp_info[ci].MCU_blocks,
                   dc_tbl_no |-> c.comp_info[ci].dc_tbl_no, ac_tbl_no |-> c.comp_info[ci].ac_tbl_no,
                   quant_table |-> TablesOf(c)[ci]]
        BY <1>9, <3>2
      <3> QED BY <3>1, <3>3 DEF ScanOf
    <2>2. DOMAIN e.comp_info = D
      BY <1>2, <1>5
    <2> QED BY <1>7, <2>1, <2>2 DEF ScanOf
  <1> HIDE DEF comps
  <1>13. /\ r.comp_info = comps /\ r.consume_input = "data" /\ r.input_iMCU_row = 0
         /\ r.insufficient_data = FALSE
         /\ r.global_state = e.global_state /\ r.coef_arrays = e.coef_arrays
         /\ r.error = e.error /\ r.warned = e.warned /\ r.restart_interval = e.restart_interval
         /\ r.coding = e.coding /\ r.saw_SOI = e.saw_SOI /\ r.saw_SOF = e.saw_SOF
         /\ r.has_multiple_scans = e.has_multiple_scans /\ r.cur_comp_info = e.cur_comp_info
         /\ r.band = e.band /\ r.jpeg_color_space = e.jpeg_color_space
         /\ r.quant_tbl_ptrs = e.quant_tbl_ptrs /\ r.huff_tbl_ptrs = e.huff_tbl_ptrs
         /\ r.eoi_reached = e.eoi_reached /\ SameSource(e, r)
    BY <1>5, <1>11 DEF jpeg_decompress_struct, SameSource
  <1> HIDE DEF new
  <1>14. ScanState(r, c)
    BY <1>6, <1>13 DEF ScanState
  <1>15. 0 \in 0 .. NoOfRows /\ 0 < NoOfRows
    <2>1. NoOfRows \in Nat \ {0}
      BY JobsAssumption, Zenon
    <2> QED BY <2>1
  <1>16. ~r.eoi_reached /\ ~r.insufficient_data /\ r.coef_arrays = RowsRead(c, arrays, 0)
         /\ r.global_state = "DSTATE_RDCOEFS" /\ r.comp_info = ScanOf(c, TablesOf(c))
         /\ SameSource(d, r)
    BY <1>4, <1>5, <1>12, <1>13 DEF ReadyState, SameSource
  <1> QED BY <1>13, <1>14, <1>15, <1>16 DEF RowState

\* One more row.
LEMMA RowIsRead ==
  ASSUME NEW c, Sendable(c), NEW arrays, NEW k, NEW d, IsDecompress(d), Source(d, c, arrays, k),
         d.buffer # << >>, NEW r, RowState(d, c, arrays, r), r < NoOfRows, k = ScanAt(c) + r,
         NEW x, x = ConsumeRow(d)
  PROVE  Source(x, c, arrays, k + 1) /\ RowState(x, c, arrays, r + 1)
  <1> DEFINE D == DOMAIN c.comp_info
             u == UnitAt(c, arrays, k + 1)
             row == d.input_iMCU_row + 1
             hit == d.insufficient_data \/ Head(d.buffer).kind # "ROW"
             at(ci) == CHOOSE i \in DOMAIN d.cur_comp_info :
                        /\ d.cur_comp_info[i] = ci
                        /\ \A j \in DOMAIN d.cur_comp_info : d.cur_comp_info[j] = ci => j <= i
             turned == [d EXCEPT !.input_iMCU_row = row]
             next == IF row = NoOfRows THEN finish_input_pass(turned) ELSE turned
             old == d.coef_arrays
             new == [ci \in DOMAIN next.coef_arrays |->
               IF ci \in Scanned(d)
               THEN [next.coef_arrays[ci] EXCEPT ![row] = Decoded(d, d.coef_arrays[ci][row], Head(d.buffer), at(ci))]
               ELSE next.coef_arrays[ci]]
             warned == [next EXCEPT !.insufficient_data = TRUE, !.warned = TRUE]
             read == [next EXCEPT !.buffer = Tail(@), !.coef_arrays = new]
             e == [d EXCEPT !.buffer = Tail(@)]
  <1>1. IsCompress(c) /\ k \in Nat /\ d.error = "none"
    BY DEF Sendable, Source, RowState, ScanState
  <1>2. NoOfRows \in Nat \ {0} /\ r \in 0 .. NoOfRows /\ d.input_iMCU_row = r /\ r + 1 \in Rows /\ row = r + 1
        /\ ScanAt(c) \in Nat
    <2>1. NoOfRows \in Nat \ {0} /\ ScanAt(c) \in Nat
      BY <1>1, PlacesOfTheImage
    <2>2. r \in 0 .. NoOfRows /\ d.input_iMCU_row = r
      BY DEF RowState
    <2> QED BY <2>1, <2>2 DEF Rows
  <1>3. /\ Head(d.buffer) = u /\ IsUnit(u) /\ IsDecompress(e) /\ Source(e, c, arrays, k + 1)
    BY <1>1, NextUnit
  <1>4. u = WrittenRow(c, arrays, row)
    <2>1. k + 1 = ScanAt(c) + row
      BY <1>2
    <2> QED BY <1>1, <1>2, <2>1, UnitsOfTheImage
  <1>5. /\ u.kind = "ROW" /\ u.code = WriterCode(c) /\ DOMAIN u.contents = D
        /\ \A ci \in D : u.contents[ci] = arrays[ci][row]
    BY <1>4 DEF WrittenRow, ROW
  <1>6. x = read
    <2>1. ConsumeRow(d) = IF hit THEN warned ELSE read
      BY Zenon DEF ConsumeRow
    <2>2. ~d.insufficient_data
      BY DEF RowState
    <2> HIDE DEF warned, read, u
    <2> QED BY <1>3, <1>5, <2>1, <2>2
  <1>7. /\ ScanCode(d) = WriterCode(c) /\ Scanned(d) = D
    <2>1. DOMAIN d.comp_info = D
      BY EntriesOfTheScan DEF RowState
    <2>2. \A ci \in D : /\ d.comp_info[ci].dc_tbl_no = c.comp_info[ci].dc_tbl_no
                        /\ d.comp_info[ci].ac_tbl_no = c.comp_info[ci].ac_tbl_no
      BY EntriesOfTheScan DEF RowState
    <2> QED BY <2>1, <2>2, CodesAgree DEF RowState
  <1> HIDE DEF u, e
  <1>8. ASSUME NEW ci \in D PROVE at(ci) = ci
    BY DEF RowState, ScanState
  <1> HIDE DEF at
  <1>9. /\ next.coef_arrays = old /\ next.buffer = d.buffer /\ DOMAIN next = DOMAIN jpeg_decompress_struct
        /\ next.at = d.at
        /\ next.input_iMCU_row = row /\ next.insufficient_data = d.insufficient_data
        /\ next.consume_input = IF row = NoOfRows THEN "markers" ELSE d.consume_input
        /\ next.comp_info = d.comp_info /\ next.global_state = d.global_state
        /\ next.error = d.error /\ next.warned = d.warned /\ next.restart_interval = d.restart_interval
        /\ next.coding = d.coding /\ next.saw_SOI = d.saw_SOI /\ next.saw_SOF = d.saw_SOF
        /\ next.has_multiple_scans = d.has_multiple_scans /\ next.cur_comp_info = d.cur_comp_info
        /\ next.band = d.band /\ next.jpeg_color_space = d.jpeg_color_space
        /\ next.quant_tbl_ptrs = d.quant_tbl_ptrs /\ next.huff_tbl_ptrs = d.huff_tbl_ptrs
        /\ next.eoi_reached = d.eoi_reached
    <2> HIDE DEF row
    <2> QED BY DEF finish_input_pass, IsDecompress, jpeg_decompress_struct
  <1> HIDE DEF next
  <1>10. /\ x.coef_arrays = new /\ x.buffer = Tail(d.buffer) /\ x.at = next.at
         /\ x.input_iMCU_row = next.input_iMCU_row /\ x.insufficient_data = next.insufficient_data
         /\ x.consume_input = next.consume_input
         /\ x.comp_info = next.comp_info /\ x.global_state = next.global_state
         /\ x.error = next.error /\ x.warned = next.warned /\ x.restart_interval = next.restart_interval
         /\ x.coding = next.coding /\ x.saw_SOI = next.saw_SOI /\ x.saw_SOF = next.saw_SOF
         /\ x.has_multiple_scans = next.has_multiple_scans /\ x.cur_comp_info = next.cur_comp_info
         /\ x.band = next.band /\ x.jpeg_color_space = next.jpeg_color_space
         /\ x.quant_tbl_ptrs = next.quant_tbl_ptrs /\ x.huff_tbl_ptrs = next.huff_tbl_ptrs
         /\ x.eoi_reached = next.eoi_reached
    <2> HIDE DEF new
    <2> QED BY <1>6, <1>9 DEF jpeg_decompress_struct
  <1>11. Source(x, c, arrays, k + 1)
    <2>1. e.buffer = Tail(d.buffer) /\ e.at = d.at
      BY DEF e, IsDecompress, jpeg_decompress_struct
    <2> HIDE DEF read, new
    <2>2. x.buffer = e.buffer /\ x.at = e.at
      BY <1>9, <1>10, <2>1
    <2> QED BY <1>3, <2>2 DEF Source
  <1>12. new = RowsRead(c, arrays, r + 1)
    <2>1. old = RowsRead(c, arrays, r) /\ DOMAIN old = D
      BY DEF RowState, RowsRead
    <2>2. ASSUME NEW ci \in D
          PROVE  new[ci] = RowsRead(c, arrays, r + 1)[ci]
      <3> DEFINE decoded == Decoded(d, d.coef_arrays[ci][row], Head(d.buffer), at(ci))
                 content == arrays[ci][row]
      <3>1. new[ci] = [old[ci] EXCEPT ![row] = decoded]
        BY <1>7, <1>9, <2>1
      <3>2. old[ci][row] = Blank
        <4>1. row \in Rows /\ ~(row <= r)
          BY <1>2
        <4> QED BY <2>1, <4>1 DEF RowsRead
      <3>3. u.contents[ci] = content /\ IsContent(content)
        <4>1. \A i \in DOMAIN u.contents : IsContent(u.contents[i])
          BY <1>3, <1>5 DEF IsUnit
        <4> QED BY <1>5, <4>1
      <3>4. decoded = content
        <4>1. decoded = [u.contents[ci] EXCEPT !.pieces = @ \cup Blank.pieces]
          BY <1>3, <1>5, <1>7, <1>8, <3>2 DEF Decoded
        <4>2. decoded = [content EXCEPT !.pieces = @ \cup Blank.pieces]
          BY <3>3, <4>1
        <4>3. content.pieces \cup Blank.pieces = content.pieces
          BY DEF Blank
        <4> HIDE DEF content, decoded
        <4> QED BY <3>3, <4>2, <4>3 DEF IsContent
      <3> HIDE DEF decoded, new
      <3>5. new[ci] = [RowsRead(c, arrays, r)[ci] EXCEPT ![row] = content]
        BY <2>1, <3>1, <3>4
      <3>6. RowsRead(c, arrays, r)[ci] = [q \in Rows |-> IF q <= r THEN arrays[ci][q] ELSE Blank]
        BY DEF RowsRead
      <3>7. RowsRead(c, arrays, r + 1)[ci] = [q \in Rows |-> IF q <= r + 1 THEN arrays[ci][q] ELSE Blank]
        BY DEF RowsRead
      <3>8. \A q \in Rows : q <= r + 1 <=> q <= r \/ q = row
        BY <1>2 DEF Rows
      <3> HIDE DEF row
      <3> QED BY <1>2, <3>5, <3>6, <3>7, <3>8
    <2>3. DOMAIN new = D
      BY <1>9, <2>1
    <2>4. new = [ci \in D |-> new[ci]]
      <3>1. new = [ci \in DOMAIN new |-> new[ci]]
        OBVIOUS
      <3> HIDE DEF new
      <3> QED BY <2>3, <3>1
    <2> HIDE DEF new
    <2> QED BY <2>2, <2>4 DEF RowsRead
  <1> HIDE DEF new, read
  <1>13. ScanState(x, c)
    BY SMTT(30), <1>9, <1>10 DEF RowState, ScanState
  <1>14. x.consume_input = IF r + 1 < NoOfRows THEN "data" ELSE "markers"
    <2>1. row = NoOfRows <=> ~(r + 1 < NoOfRows)
      BY <1>2
    <2>2. d.consume_input = "data"
      BY DEF RowState
    <2> QED BY <1>9, <1>10, <2>1, <2>2
  <1>15. r + 1 \in 0 .. NoOfRows
    BY <1>2
  <1>16. x.input_iMCU_row = r + 1 /\ ~x.insufficient_data /\ ~x.eoi_reached
         /\ x.global_state = "DSTATE_RDCOEFS" /\ x.comp_info = ScanOf(c, TablesOf(c))
    BY <1>2, <1>9, <1>10 DEF RowState
  <1>17. RowState(x, c, arrays, r + 1)
    BY <1>10, <1>12, <1>13, <1>14, <1>15, <1>16 DEF RowState
  <1> QED BY <1>11, <1>17

\* The object that has read the image to its end.
EndState(d, c, arrays) ==
  /\ d.error = "none" /\ ~d.warned /\ d.eoi_reached
  /\ d.comp_info = ScanOf(c, TablesOf(c)) /\ d.jpeg_color_space = c.jpeg_color_space
  /\ d.coef_arrays = RowsRead(c, arrays, NoOfRows)

\* The object behind k units of the image.
AtUnit(d, c, arrays, k) ==
  \/ /\ Source(d, c, arrays, k)
     /\ \/ k < ScanAt(c) /\ HeaderState(d, c, arrays, k)
        \/ k = ScanAt(c) /\ ReadyState(d, c)
        \/ \E r \in 0 .. NoOfRows : k = ScanAt(c) + r /\ RowState(d, c, arrays, r)
  \/ k = ImageEnd(c) /\ EndState(d, c, arrays)

\* The end of the image.
LEMMA EndIsRead ==
  ASSUME NEW c, Sendable(c), NEW arrays, NEW k, NEW d, IsDecompress(d), Source(d, c, arrays, k),
         d.buffer # << >>, RowState(d, c, arrays, NoOfRows), k = ScanAt(c) + NoOfRows,
         NEW x, x = ReadMarker(d)
  PROVE  k + 1 = ImageEnd(c) /\ EndState(x, c, arrays)
  <1> DEFINE u == UnitAt(c, arrays, k + 1)
             e == [d EXCEPT !.buffer = Tail(@)]
  <1>1. IsCompress(c) /\ k \in Nat /\ d.error = "none" /\ d.saw_SOI
    BY DEF Sendable, Source, RowState, ScanState
  <1>2. k + 1 = ImageEnd(c)
    BY <1>1, PlacesOfTheImage
  <1>3. u = EOI /\ u.kind = "EOI"
    BY <1>1, <1>2, UnitsOfTheImage DEF EOI
  <1>4. Head(d.buffer) = u /\ IsDecompress(e) /\ SameReading(d, e)
    <2>1. IsDecompress(e) /\ Source(e, c, arrays, k + 1) /\ SameReading(d, e) /\ Head(d.buffer) = u
      BY <1>1, NextUnit
    <2> QED BY <2>1
  <1> HIDE DEF u, e
  <1>5. x = ReachedEOI(e)
    BY <1>1, <1>3, <1>4, CallsForAMarker DEF e
  <1>6. ~e.inheaders
    <2>1. e.global_state = "DSTATE_RDCOEFS"
      BY <1>4 DEF SameReading, RowState
    <2> QED BY <1>4, <2>1 DEF IsDecompress, FrameOK
  <1>7. x = [e EXCEPT !.eoi_reached = TRUE]
    BY <1>5, <1>6 DEF ReachedEOI
  <1>8. /\ x.error = e.error /\ x.warned = e.warned /\ x.eoi_reached = TRUE
        /\ x.comp_info = e.comp_info /\ x.jpeg_color_space = e.jpeg_color_space
        /\ x.coef_arrays = e.coef_arrays
    BY <1>4, <1>7 DEF IsDecompress, jpeg_decompress_struct
  <1>9. EndState(x, c, arrays)
    BY <1>4, <1>8 DEF EndState, SameReading, SameFrame, SameArrays, RowState, ScanState
  <1> QED BY <1>2, <1>9

\* The state of the object does not depend on what is in the buffer.
LEMMA ReadingIsTheSame ==
  ASSUME NEW c, NEW arrays, NEW d, NEW e, SameReading(d, e)
  PROVE  /\ ReadyState(d, c) => ReadyState(e, c)
         /\ \A r : RowState(d, c, arrays, r) => RowState(e, c, arrays, r)
  <1>1. ScanState(d, c) => ScanState(e, c)
    BY DEF SameReading, SameTables, SameFrame, SameScan, ScanState
  <1>2. ReadyState(d, c) => ReadyState(e, c)
    BY <1>1 DEF SameReading, SameFrame, ReadyState
  <1>3. \A r : RowState(d, c, arrays, r) => RowState(e, c, arrays, r)
    BY <1>1 DEF SameReading, SameFrame, SameScan, SameArrays, RowState
  <1> QED BY <1>2, <1>3

\* One call on the first m units of the image goes on by a unit, or notices
\* that there are no more.
LEMMA ImageGoesOn ==
  ASSUME NEW c, Sendable(c), NEW arrays, NEW m \in Nat, IsStream(Beginning(c, arrays, m)),
         m >= ScanAt(c) => InOneScan(c),
         NEW k, NEW d, IsDecompress(d), AtUnit(d, c, arrays, k), ~d.eoi_reached,
         d.global_state # "DSTATE_READY",
         NEW x, x = ConsumeInput(d, Beginning(c, arrays, m))
  PROVE  /\ x.error # "none" \/ x.warned \/ AtUnit(x, c, arrays, k + 1)
         /\ k < m => AtUnit(x, c, arrays, k + 1)
  <1> DEFINE s == ScanAt(c)
             content == Beginning(c, arrays, m)
             f == IF d.buffer = << >> THEN FillInputBuffer(d, content) ELSE d
             Good(e) == Source(e, c, arrays, k) /\ SameReading(d, e) /\ e.buffer # << >>
  <1>1. IsCompress(c)
    BY DEF Sendable
  <1>2. /\ Source(d, c, arrays, k)
        /\ \/ k < s /\ HeaderState(d, c, arrays, k)
           \/ \E r \in 0 .. NoOfRows : k = s + r /\ RowState(d, c, arrays, r)
    BY DEF AtUnit, EndState, ReadyState
  <1>3. /\ k \in Nat /\ d.at \in Nat /\ k <= d.at /\ s \in Nat /\ NoOfRows \in Nat \ {0} /\ d.error = "none"
    <2>1. s \in Nat /\ NoOfRows \in Nat \ {0}
      BY <1>1, PlacesOfTheImage
    <2>2. d.error = "none"
      BY <1>2 DEF HeaderState, Sound, RowState, ScanState
    <2> QED BY <1>2, <2>1, <2>2 DEF Source
  <1>4. /\ IsDecompress(f)
        /\ f.error # "none" \/ f.warned \/ Good(f)
        /\ k < m => Good(f)
    <2>1. CASE d.buffer = << >>
      <3>1. f = FillInputBuffer(d, content)
        BY <2>1
      <3> HIDE DEF f, content
      <3> QED BY <1>1, <1>2, <1>3, <2>1, <3>1, FilledFromTheImage DEF content
    <2>2. CASE d.buffer # << >>
      <3>1. f = d
        BY <2>2
      <3>2. SameReading(d, d)
        BY DEF SameReading, SameTables, SameFrame, SameScan, SameArrays
      <3> HIDE DEF f
      <3> QED BY <1>2, <2>2, <3>1, <3>2
    <2> QED BY <2>1, <2>2
  <1>5. x = IF f.error # "none" \/ f.buffer = << >> THEN f
            ELSE IF f.consume_input = "markers" THEN ReadMarker(f)
            ELSE ConsumeRow(f)
    BY Zenon DEF ConsumeInput
  <1> HIDE DEF f, s, content
  <1>6. ASSUME Good(f) PROVE AtUnit(x, c, arrays, k + 1)
    <2>1. f.error = "none" /\ f.buffer # << >> /\ Source(f, c, arrays, k) /\ SameReading(d, f)
      BY <1>3, <1>6 DEF SameReading
    <2> HIDE DEF Good
    <2>2. /\ f.consume_input = "markers" => x = ReadMarker(f)
          /\ f.consume_input # "markers" => x = ConsumeRow(f)
      BY <1>5, <2>1
    <2>3. CASE k < s /\ HeaderState(d, c, arrays, k)
      <3>1. HeaderState(f, c, arrays, k)
        BY <2>1, <2>3, HeaderIsTheSame
      <3>2. x = ReadMarker(f)
        BY <2>2, <3>1 DEF HeaderState
      <3>3. CASE k + 1 < s
        <4>1. Source(x, c, arrays, k + 1) /\ HeaderState(x, c, arrays, k + 1)
          BY <1>4, <2>1, <3>1, <3>2, <3>3, HeaderUnitIsRead DEF s
        <4> QED BY <3>3, <4>1 DEF AtUnit, s
      <3>4. CASE k + 1 = s
        <4>1. f.at >= s
          <5>1. f.at \in Nat /\ k <= f.at /\ k # f.at
            BY <2>1, BufferIsEmpty DEF Source
          <5> QED BY <1>3, <3>4, <5>1
        <4>2. InOneScan(c)
          BY <2>1, <4>1 DEF Source, s
        <4>3. Source(x, c, arrays, k + 1) /\ ReadyState(x, c)
          BY <1>4, <2>1, <3>1, <3>2, <3>4, <4>2, ScanHeaderIsRead DEF s
        <4> QED BY <3>4, <4>3 DEF AtUnit, s
      <3> QED BY <1>3, <2>3, <3>3, <3>4
    <2>4. ASSUME NEW r \in 0 .. NoOfRows, k = s + r, RowState(d, c, arrays, r)
          PROVE  AtUnit(x, c, arrays, k + 1)
      <3>1. RowState(f, c, arrays, r)
        BY <2>1, <2>4, ReadingIsTheSame
      <3>2. CASE r < NoOfRows
        <4>1. x = ConsumeRow(f)
          BY <2>2, <3>1, <3>2 DEF RowState
        <4>2. Source(x, c, arrays, k + 1) /\ RowState(x, c, arrays, r + 1)
          BY <1>4, <2>1, <2>4, <3>1, <3>2, <4>1, RowIsRead DEF s
        <4>3. r + 1 \in 0 .. NoOfRows /\ k + 1 = s + (r + 1)
          BY <1>3, <2>4, <3>2
        <4> QED BY <4>2, <4>3 DEF AtUnit, s
      <3>3. CASE r = NoOfRows
        <4>1. x = ReadMarker(f)
          <5>1. ~(r < NoOfRows)
            BY <1>3, <3>3
          <5> QED BY <2>2, <3>1, <5>1 DEF RowState
        <4>2. k + 1 = ImageEnd(c) /\ EndState(x, c, arrays)
          BY <1>4, <2>1, <2>4, <3>1, <3>3, <4>1, EndIsRead DEF s
        <4> QED BY <4>2 DEF AtUnit
      <3> QED BY <1>3, <2>4, <3>2, <3>3
    <2> QED BY <1>2, <2>3, <2>4
  <1>7. ASSUME f.error # "none" \/ f.warned PROVE x.error # "none" \/ x.warned
    <2>1. CASE f.error # "none" \/ f.buffer = << >>
      BY <1>5, <1>7, <2>1
    <2>2. CASE f.error = "none" /\ f.buffer # << >> /\ f.consume_input = "markers"
      <3>1. ReadsOn(f, ReadMarker(f)) /\ x = ReadMarker(f)
        BY <1>4, <1>5, <2>2, MarkerIsRead
      <3> QED BY <1>7, <2>2, <3>1 DEF ReadsOn, Advances
    <2>3. CASE f.error = "none" /\ f.buffer # << >> /\ f.consume_input # "markers"
      <3>1. f.consume_input = "data"
        BY <1>4, <2>3 DEF IsDecompress, StateOK
      <3>2. ReadsOn(f, ConsumeRow(f)) /\ x = ConsumeRow(f)
        BY <1>4, <1>5, <2>3, <3>1, RowIsConsumed
      <3> QED BY <1>7, <2>3, <3>2 DEF ReadsOn, Advances
    <2> QED BY <2>1, <2>2, <2>3
  <1> HIDE DEF Good
  <1> QED BY <1>4, <1>6, <1>7

\* The scan goes on from the end of the header.
LEMMA ScanGoesOn ==
  ASSUME NEW c, Sendable(c), NEW arrays, NEW k, NEW d, IsDecompress(d), AtUnit(d, c, arrays, k),
         ~d.eoi_reached, d.global_state = "DSTATE_READY"
  PROVE  AtUnit(StartCoefficients(d), c, arrays, k)
  <1> DEFINE x == StartCoefficients(d)
  <1>1. Source(d, c, arrays, k) /\ k = ScanAt(c) /\ ReadyState(d, c)
    BY DEF AtUnit, HeaderState, RowState, EndState
  <1>2. ScanAt(c) \in Nat /\ NoOfRows \in Nat
    BY PlacesOfTheImage DEF Sendable
  <1>3. d.at >= ScanAt(c)
    BY <1>1 DEF Source
  <1>4. InOneScan(c)
    BY <1>1, <1>3 DEF Source
  <1>5. SameSource(d, x) /\ RowState(x, c, arrays, 0)
    BY <1>1, <1>4, RowsAreStarted
  <1> HIDE DEF x
  <1>6. Source(x, c, arrays, k)
    BY <1>1, <1>5, SourceIsTheSame
  <1>7. 0 \in 0 .. NoOfRows /\ k = ScanAt(c) + 0
    BY <1>1, <1>2
  <1>8. AtUnit(x, c, arrays, k)
    BY <1>5, <1>6, <1>7 DEF AtUnit
  <1> QED BY <1>8 DEF x

\* A new object is in front of the image.
LEMMA BeginsAtZero ==
  ASSUME NEW c, Sendable(c), NEW arrays, NEW name
  PROVE  AtUnit(CreateDecompress(name), c, arrays, 0)
  <1> DEFINE d == CreateDecompress(name)
  <1>1. /\ d.global_state = "DSTATE_START" /\ d.error = "none" /\ ~d.warned /\ ~d.eoi_reached
        /\ d.consume_input = "markers" /\ d.restart_interval = 0 /\ d.coding = "sequential"
        /\ ~d.saw_SOI /\ ~d.saw_SOF /\ ~d.saw_JFIF_marker /\ d.Adobe_transform = -1
        /\ d.at = 0 /\ d.buffer = << >>
    BY FieldsOfANewObject
  <1> HIDE DEF d
  <1>2. /\ ScanAt(c) \in Nat /\ 0 < ScanAt(c) /\ FrameAt(c) \in Nat /\ 0 < FrameAt(c)
    BY SMTT(30), PlacesOfTheImage DEF Sendable
  <1>3. << >> = [j \in 1 .. 0 - 0 |-> UnitAt(c, arrays, 0 + j)]
    <2>1. 1 .. 0 - 0 = {}
      OBVIOUS
    <2> QED BY <2>1
  <1>4. Source(d, c, arrays, 0)
    BY <1>1, <1>2, <1>3 DEF Source
  <1>5. HeaderState(d, c, arrays, 0)
    BY <1>1, <1>2 DEF HeaderState, Sound
  <1>6. AtUnit(d, c, arrays, 0)
    BY <1>2, <1>4, <1>5 DEF AtUnit
  <1> QED BY <1>6 DEF d

-----------------------------------------------------------------------------
(* Reading a file that stays as it is, call by call.                       *)

\* What the next call does, if there is one.
NextCall(d, content) ==
  IF d.error # "none" \/ d.eoi_reached THEN d
  ELSE IF d.global_state = "DSTATE_READY" THEN StartCoefficients(d)
  ELSE ConsumeInput(d, content)

\* The object before the first call, and behind each of the first n calls.
Calls(name, content, n, f) ==
  f = [i \in 0 .. n |-> IF i = 0 THEN CreateDecompress(name) ELSE NextCall(f[i - 1], content)]
Reading(name, content, n) == (CHOOSE f : Calls(name, content, n, f))[n]

\* A sequence of calls can go on.
LEMMA CallsGoOn ==
  ASSUME NEW name, NEW content, NEW n \in Nat, NEW f, Calls(name, content, n, f),
         NEW g, g = [i \in 0 .. n + 1 |-> IF i = n + 1 THEN NextCall(f[n], content) ELSE f[i]]
  PROVE  Calls(name, content, n + 1, g)
  <1>1. \A i \in 0 .. n : f[i] = IF i = 0 THEN CreateDecompress(name) ELSE NextCall(f[i - 1], content)
    BY DEF Calls
  <1>2. ASSUME NEW i \in 0 .. n + 1
        PROVE  g[i] = IF i = 0 THEN CreateDecompress(name) ELSE NextCall(g[i - 1], content)
    <2>1. CASE i = n + 1
      <3>1. i # 0 /\ i - 1 = n /\ n \in 0 .. n + 1 /\ n # n + 1
        BY <2>1
      <3>2. g[i - 1] = f[n] /\ g[i] = NextCall(f[n], content)
        BY <2>1, <3>1
      <3> QED BY <3>1, <3>2
    <2>2. CASE i = 0
      <3>1. 0 \in 0 .. n + 1 /\ 0 # n + 1 /\ 0 \in 0 .. n
        OBVIOUS
      <3> QED BY <1>1, <2>2, <3>1
    <2>3. CASE i # 0 /\ i # n + 1
      <3>1. i \in 0 .. n /\ i - 1 \in 0 .. n + 1 /\ i - 1 # n + 1
        BY <2>3
      <3>2. g[i] = f[i] /\ g[i - 1] = f[i - 1]
        BY <2>3, <3>1
      <3> QED BY <1>1, <2>3, <3>1, <3>2
    <2> QED BY <2>1, <2>2, <2>3
  <1>3. g = [i \in 0 .. n + 1 |-> g[i]]
    OBVIOUS
  <1> QED BY <1>2, <1>3, Zenon DEF Calls

\* There is such a sequence, of any length.
LEMMA CallsCanBeMade ==
  ASSUME NEW name, NEW content, NEW n \in Nat
  PROVE  \E f : Calls(name, content, n, f)
  <1> DEFINE S == {k \in Nat : ~ \E f : Calls(name, content, k, f)}
  <1>1. ASSUME S # {} PROVE FALSE
    <2>1. PICK k \in S : \A j \in S : k <= j
      BY <1>1, LeastNumber
    <2>2. k # 0
      <3> DEFINE f == [i \in 0 .. 0 |-> CreateDecompress(name)]
      <3>1. \A i \in 0 .. 0 : i = 0
        OBVIOUS
      <3>2. f = [i \in 0 .. 0 |-> IF i = 0 THEN CreateDecompress(name) ELSE NextCall(f[i - 1], content)]
        BY <3>1
      <3> HIDE DEF f
      <3>3. Calls(name, content, 0, f)
        BY <3>2 DEF Calls
      <3> QED BY <3>3, <2>1
    <2>3. k - 1 \in Nat /\ ~(k <= k - 1) /\ (k - 1) + 1 = k
      BY <2>1, <2>2
    <2>4. PICK f : Calls(name, content, k - 1, f)
      BY <2>1, <2>3
    <2> DEFINE g == [i \in 0 .. (k - 1) + 1 |-> IF i = (k - 1) + 1 THEN NextCall(f[k - 1], content) ELSE f[i]]
    <2>5. Calls(name, content, (k - 1) + 1, g)
      BY <2>3, <2>4, CallsGoOn
    <2> HIDE DEF g
    <2>6. Calls(name, content, k, g)
      BY <2>3, <2>5
    <2> QED BY <2>1, <2>6
  <1> QED BY <1>1

\* And only one.
LEMMA CallsAgree ==
  ASSUME NEW name, NEW content, NEW n \in Nat, NEW m \in Nat, n <= m,
         NEW f, Calls(name, content, n, f), NEW g, Calls(name, content, m, g)
  PROVE  \A i \in 0 .. n : f[i] = g[i]
  <1> DEFINE S == {i \in 0 .. n : f[i] # g[i]}
  <1>0. /\ \A i \in 0 .. n : f[i] = IF i = 0 THEN CreateDecompress(name) ELSE NextCall(f[i - 1], content)
        /\ \A i \in 0 .. m : g[i] = IF i = 0 THEN CreateDecompress(name) ELSE NextCall(g[i - 1], content)
    BY DEF Calls
  <1>1. ASSUME S # {} PROVE FALSE
    <2>0. S \in SUBSET Nat
      OBVIOUS
    <2>1. PICK k \in S : \A j \in S : k <= j
      BY <1>1, <2>0, LeastNumber
    <2>2. k \in 0 .. n /\ k \in 0 .. m /\ f[k] # g[k]
      BY <2>1
    <2>3. k # 0
      BY <1>0, <2>2
    <2>4. k - 1 \in 0 .. n /\ ~(k <= k - 1)
      BY <2>2, <2>3
    <2>5. f[k - 1] = g[k - 1]
      BY <2>1, <2>4
    <2> QED BY <1>0, <2>2, <2>3, <2>5
  <1> QED BY <1>1

\* The object behind so many calls.
LEMMA ReadingStepByStep ==
  ASSUME NEW name, NEW content
  PROVE  /\ Reading(name, content, 0) = CreateDecompress(name)
         /\ \A n \in Nat : Reading(name, content, n + 1) = NextCall(Reading(name, content, n), content)
  <1> DEFINE F(n) == CHOOSE f : Calls(name, content, n, f)
  <1>1. \A n \in Nat : Calls(name, content, n, F(n)) /\ Reading(name, content, n) = F(n)[n]
    <2> TAKE n \in Nat
    <2>1. \E f : Calls(name, content, n, f)
      BY CallsCanBeMade
    <2> QED BY <2>1 DEF Reading
  <1> HIDE DEF F
  <1>2. Reading(name, content, 0) = CreateDecompress(name)
    <2>1. Calls(name, content, 0, F(0)) /\ Reading(name, content, 0) = F(0)[0] /\ 0 \in 0 .. 0
      BY <1>1
    <2>2. F(0) = [i \in 0 .. 0 |-> IF i = 0 THEN CreateDecompress(name) ELSE NextCall(F(0)[i - 1], content)]
      BY <2>1, Zenon DEF Calls
    <2>3. F(0)[0] = CreateDecompress(name)
      BY <2>1, <2>2
    <2> QED BY <2>1, <2>3
  <1>3. ASSUME NEW n \in Nat
        PROVE  Reading(name, content, n + 1) = NextCall(Reading(name, content, n), content)
    <2> DEFINE f == F(n)
               g == F(n + 1)
    <2>1. Calls(name, content, n, f) /\ Calls(name, content, n + 1, g)
          /\ Reading(name, content, n) = f[n] /\ Reading(name, content, n + 1) = g[n + 1]
      BY <1>1
    <2> HIDE DEF f, g
    <2>2. n + 1 \in Nat /\ n <= n + 1 /\ n \in 0 .. n /\ n + 1 \in 0 .. n + 1 /\ n + 1 # 0 /\ (n + 1) - 1 = n
      OBVIOUS
    <2>3. f[n] = g[n]
      BY <2>1, <2>2, CallsAgree
    <2>4. g = [i \in 0 .. n + 1 |-> IF i = 0 THEN CreateDecompress(name) ELSE NextCall(g[i - 1], content)]
      BY <2>1, Zenon DEF Calls
    <2>5. g[n + 1] = NextCall(g[n], content)
      BY <2>2, <2>4
    <2> QED BY <2>1, <2>3, <2>5
  <1> QED BY <1>2, <1>3

\* What is read back is what is there behind enough calls.
LEMMA ReadBackIsReading ==
  ASSUME NEW content
  PROVE  ReadBack(content) = Reading("", content, 2 * (Len(content) + NoOfRows + 2))
  BY Zenon DEF ReadBack, Reading, Calls, NextCall

\* Every call leaves an object with the same file.
LEMMA NextCallIsAnObject ==
  ASSUME NEW d, IsDecompress(d), NEW content, IsStream(content)
  PROVE  IsDecompress(NextCall(d, content)) /\ NextCall(d, content).file = d.file
  <1>1. CASE d.error # "none" \/ d.eoi_reached
    BY <1>1 DEF NextCall
  <1>2. CASE d.error = "none" /\ ~d.eoi_reached /\ d.global_state = "DSTATE_READY"
    <2>1. NextCall(d, content) = StartCoefficients(d)
      BY <1>2 DEF NextCall
    <2>2. IsDecompress(StartCoefficients(d)) /\ Keeps(d, StartCoefficients(d))
      BY <1>2, CoefficientsAreStarted
    <2> QED BY <2>1, <2>2 DEF Keeps, SameSource
  <1>3. CASE d.error = "none" /\ ~d.eoi_reached /\ d.global_state # "DSTATE_READY"
    <2>1. NextCall(d, content) = ConsumeInput(d, content)
      BY <1>3 DEF NextCall
    <2>2. IsDecompress(ConsumeInput(d, content)) /\ Advances(d, ConsumeInput(d, content))
      BY <1>3, InputIsConsumed
    <2> QED BY <2>1, <2>2 DEF Advances
  <1> QED BY <1>1, <1>2, <1>3

\* Behind any number of calls there is an object with that file.
LEMMA ReadingIsAnObject ==
  ASSUME NEW name, NEW content, IsStream(content), NEW n \in Nat
  PROVE  IsDecompress(Reading(name, content, n)) /\ Reading(name, content, n).file = name
  <1> DEFINE R(k) == Reading(name, content, k)
             S == {k \in Nat : ~(IsDecompress(R(k)) /\ R(k).file = name)}
  <1>1. R(0) = CreateDecompress(name) /\ \A k \in Nat : R(k + 1) = NextCall(R(k), content)
    BY ReadingStepByStep
  <1> HIDE DEF R
  <1>2. IsDecompress(R(0)) /\ R(0).file = name
    BY <1>1, ObjectIsCreated
  <1>3. ASSUME S # {} PROVE FALSE
    <2>1. PICK k \in S : \A j \in S : k <= j
      BY <1>3, LeastNumber
    <2>2. k # 0
      BY <1>2, <2>1
    <2>3. k - 1 \in Nat /\ ~(k <= k - 1) /\ (k - 1) + 1 = k
      BY <2>1, <2>2
    <2>4. IsDecompress(R(k - 1)) /\ R(k - 1).file = name
      BY <2>1, <2>3
    <2>5. R(k) = NextCall(R(k - 1), content)
      BY <1>1, <2>3
    <2>6. IsDecompress(R(k)) /\ R(k).file = name
      BY <2>4, <2>5, NextCallIsAnObject
    <2> QED BY <2>1, <2>6
  <1>4. IsDecompress(R(n)) /\ R(n).file = name
    BY <1>3
  <1> QED BY <1>4 DEF R

\* Where the object may be in the image.
LEMMA PlacesOfTheReader ==
  ASSUME NEW c, Sendable(c), NEW arrays, NEW k, NEW d, AtUnit(d, c, arrays, k)
  PROVE  /\ k \in Nat /\ ImageEnd(c) \in Nat /\ ScanAt(c) \in Nat /\ k <= ImageEnd(c)
         /\ d.error = "none" /\ ~d.warned
         /\ ~d.eoi_reached => k < ImageEnd(c)
         /\ k = ImageEnd(c) => EndState(d, c, arrays)
         /\ ~d.eoi_reached /\ k >= ScanAt(c) => d.global_state \in {"DSTATE_READY", "DSTATE_RDCOEFS"}
  <1>1. /\ ScanAt(c) \in Nat /\ NoOfRows \in Nat \ {0} /\ ImageEnd(c) = ScanAt(c) + NoOfRows + 1
    BY PlacesOfTheImage DEF Sendable, ImageEnd
  <1> DEFINE s == ScanAt(c)
             t == ImageEnd(c)
  <1>2. t \in Nat /\ s < t /\ \A r \in 0 .. NoOfRows : s + r < t /\ s + r \in Nat
    BY <1>1
  <1> HIDE DEF s, t
  <1>3. CASE k < s /\ HeaderState(d, c, arrays, k) /\ Source(d, c, arrays, k)
    <2>1. k \in Nat /\ k < t /\ ~(k >= s) /\ k # t /\ s \in Nat
      BY <1>1, <1>2, <1>3 DEF Source, s
    <2> QED BY <1>2, <1>3, <2>1 DEF HeaderState, Sound, s, t
  <1>4. CASE k = s /\ ReadyState(d, c)
    BY <1>1, <1>2, <1>4 DEF ReadyState, ScanState, s, t
  <1>5. CASE \E r \in 0 .. NoOfRows : k = s + r /\ RowState(d, c, arrays, r)
    <2>1. PICK r \in 0 .. NoOfRows : k = s + r /\ RowState(d, c, arrays, r)
      BY <1>5
    <2>2. k \in Nat /\ k < t /\ k # t /\ s \in Nat
      BY <1>1, <1>2, <2>1 DEF s
    <2> QED BY <1>2, <2>1, <2>2 DEF RowState, ScanState, s, t
  <1>6. CASE k = t /\ EndState(d, c, arrays)
    BY <1>1, <1>2, <1>6 DEF EndState, s, t
  <1> QED BY <1>3, <1>4, <1>5, <1>6 DEF AtUnit, s, t

\* Each call but one goes on by a unit, until the end.
LEMMA ImageIsReadOn ==
  ASSUME NEW c, Sendable(c), InOneScan(c), NEW arrays, NEW content,
         content = Beginning(c, arrays, ImageEnd(c)), IsStream(content), NEW name, NEW n \in Nat
  PROVE  \E k \in Nat : /\ AtUnit(Reading(name, content, n), c, arrays, k)
                        /\ \/ k = ImageEnd(c) \/ k >= n
                           \/ /\ k + 1 >= n /\ k >= ScanAt(c)
                              /\ Reading(name, content, n).global_state # "DSTATE_READY"
  <1> DEFINE R(i) == Reading(name, content, i)
             t == ImageEnd(c)
             s == ScanAt(c)
             On(d, i, k) == /\ AtUnit(d, c, arrays, k)
                            /\ k = t \/ k >= i \/ (k + 1 >= i /\ k >= s /\ d.global_state # "DSTATE_READY")
             S == {i \in Nat : ~ \E k \in Nat : On(R(i), i, k)}
  <1>1. R(0) = CreateDecompress(name) /\ \A i \in Nat : R(i + 1) = NextCall(R(i), content)
    BY ReadingStepByStep
  <1>2. \A i \in Nat : IsDecompress(R(i))
    BY ReadingIsAnObject
  <1>3. t \in Nat /\ s \in Nat
    BY PlacesOfTheImage DEF Sendable, ImageEnd
  <1> HIDE DEF R
  <1>4. On(R(0), 0, 0)
    BY <1>1, BeginsAtZero
  <1>5. ASSUME NEW i \in Nat, NEW k \in Nat, On(R(i), i, k)
        PROVE  \E j \in Nat : On(R(i + 1), i + 1, j)
    <2> DEFINE d == R(i)
               x == R(i + 1)
    <2>1. AtUnit(d, c, arrays, k) /\ IsDecompress(d) /\ x = NextCall(d, content)
      BY <1>1, <1>2, <1>5
    <2>2. k = t \/ k >= i \/ (k + 1 >= i /\ k >= s /\ d.global_state # "DSTATE_READY")
      BY <1>5
    <2> HIDE DEF d, x, t, s
    <2>3. /\ d.error = "none" /\ (~d.eoi_reached => k < t) /\ k <= t
          /\ ~d.eoi_reached /\ k >= s => d.global_state \in {"DSTATE_READY", "DSTATE_RDCOEFS"}
          /\ k = t => EndState(d, c, arrays)
      BY <2>1, PlacesOfTheReader DEF t, s
    <2>4. ASSUME d.eoi_reached
          PROVE  \E j \in Nat : On(x, i + 1, j)
      <3>1. x = d
        BY <2>1, <2>4 DEF NextCall
      <3>2. k = t
        BY <2>1, <2>4 DEF AtUnit, HeaderState, Sound, ReadyState, RowState, t
      <3> QED BY <2>1, <3>1, <3>2
    <2>5. ASSUME ~d.eoi_reached, d.global_state = "DSTATE_READY"
          PROVE  \E j \in Nat : On(x, i + 1, j)
      <3>1. x = StartCoefficients(d)
        BY <2>1, <2>3, <2>5 DEF NextCall
      <3>2. AtUnit(x, c, arrays, k)
        BY <2>1, <2>5, <3>1, ScanGoesOn
      <3>3. x.error = "none"
        BY <3>2, PlacesOfTheReader
      <3>4. x.global_state = "DSTATE_RDCOEFS"
        BY <2>1, <2>3, <2>5, <3>1, <3>3, CoefficientsAreStarted
      <3>5. k >= s
        BY <1>3, <2>1, <2>5 DEF AtUnit, HeaderState, RowState, EndState, s, ReadyState
      <3>6. k + 1 >= i + 1
        BY <2>2, <2>3, <2>5
      <3> QED BY <3>2, <3>4, <3>5, <3>6
    <2>6. ASSUME ~d.eoi_reached, d.global_state # "DSTATE_READY"
          PROVE  \E j \in Nat : On(x, i + 1, j)
      <3>1. x = ConsumeInput(d, content)
        BY <2>1, <2>3, <2>6 DEF NextCall
      <3>2. k < t
        BY <2>3, <2>6
      <3>3. AtUnit(x, c, arrays, k + 1)
        <4>1. t >= ScanAt(c) => InOneScan(c)
          OBVIOUS
        <4>2. content = Beginning(c, arrays, t)
          BY DEF t
        <4> QED BY <1>3, <2>1, <2>6, <3>1, <3>2, <4>1, <4>2, ImageGoesOn
      <3>4. ASSUME k + 1 >= i, k >= s
            PROVE  x.global_state # "DSTATE_READY"
        <4>1. d.global_state = "DSTATE_RDCOEFS"
          BY <2>3, <2>6, <3>4
        <4>2. Advances(d, x)
          BY <2>1, <2>3, <3>1, InputIsConsumed
        <4> QED BY <4>1, <4>2 DEF Advances
      <3>5. k + 1 \in Nat /\ (k >= i => k + 1 >= i + 1) /\ (k + 1 >= i => (k + 1) + 1 >= i + 1)
            /\ (k >= s => k + 1 >= s)
        BY <1>3 DEF s
      <3>6. On(x, i + 1, k + 1)
        BY <2>2, <3>2, <3>3, <3>4, <3>5
      <3> QED BY <3>5, <3>6
    <2> QED BY <2>4, <2>5, <2>6 DEF x
  <1> HIDE DEF On
  <1>6. ASSUME S # {} PROVE FALSE
    <2>1. PICK i \in S : \A j \in S : i <= j
      BY <1>6, LeastNumber
    <2>2. i # 0
      BY <1>4, <2>1
    <2>3. i - 1 \in Nat /\ ~(i <= i - 1) /\ (i - 1) + 1 = i
      BY <2>1, <2>2
    <2>4. PICK k \in Nat : On(R(i - 1), i - 1, k)
      BY <2>1, <2>3
    <2>5. \E j \in Nat : On(R((i - 1) + 1), (i - 1) + 1, j)
      BY <1>5, <2>3, <2>4
    <2> QED BY <2>1, <2>3, <2>5
  <1>7. \E k \in Nat : On(R(n), n, k)
    BY <1>6
  <1> QED BY <1>7 DEF On, R

\* All of the image is read back, without an error or a warning.
LEMMA ImageIsReadBack ==
  ASSUME NEW c, Sendable(c), InOneScan(c), NEW arrays, NEW content,
         content = Beginning(c, arrays, ImageEnd(c)), IsStream(content)
  PROVE  EndState(ReadBack(content), c, arrays)
  <1> DEFINE t == ImageEnd(c)
             n == 2 * (Len(content) + NoOfRows + 2)
             d == Reading("", content, n)
  <1>1. t \in Nat /\ NoOfRows \in Nat
    BY PlacesOfTheImage DEF Sendable, ImageEnd
  <1>2. content = [i \in 1 .. t |-> content[i]]
    BY DEF Beginning
  <1>3. Len(content) = t
    BY <1>1, <1>2, OnAnInterval
  <1> HIDE DEF t
  <1>4. n \in Nat /\ n > t + 1
    BY <1>1, <1>3
  <1>5. ReadBack(content) = d
    BY ReadBackIsReading
  <1> HIDE DEF n
  <1>6. PICK k \in Nat : /\ AtUnit(d, c, arrays, k)
                         /\ k = t \/ k >= n \/ k + 1 >= n
    BY ZenonT(60), <1>4, ImageIsReadOn DEF t
  <1> HIDE DEF d
  <1>7. k <= t
    BY <1>6, PlacesOfTheReader DEF t
  <1>8. k = t
    BY <1>1, <1>4, <1>6, <1>7
  <1> QED BY <1>5, <1>6, <1>8, PlacesOfTheReader DEF t

-----------------------------------------------------------------------------
(* Behind the header of an image its components stay what they are, and    *)
(* as long as no table comes the tables they use are those of the header.  *)
SameImage(d, e) ==
  /\ DOMAIN e.comp_info = DOMAIN d.comp_info /\ e.jpeg_color_space = d.jpeg_color_space
  /\ \A ci \in DOMAIN d.comp_info :
       /\ e.comp_info[ci].component_id = d.comp_info[ci].component_id
       /\ e.comp_info[ci].quant_tbl_no = d.comp_info[ci].quant_tbl_no
       /\ e.comp_info[ci].MCU_blocks = d.comp_info[ci].MCU_blocks
Uses(d, tables) ==
  /\ d.quant_tbl_ptrs = tables
  /\ \A ci \in DOMAIN d.comp_info :
       \/ d.comp_info[ci].quant_table = NoTable
       \/ /\ d.comp_info[ci].quant_tbl_no \in QuantSlots
          /\ d.comp_info[ci].quant_table = tables[d.comp_info[ci].quant_tbl_no]
StillUses(d, e) == \A tables : Uses(d, tables) => Uses(e, tables)

\* Nothing happens to the components.
LEMMA ComponentsStay ==
  ASSUME NEW d, NEW e, e.comp_info = d.comp_info, e.jpeg_color_space = d.jpeg_color_space
  PROVE  /\ SameImage(d, e)
         /\ e.quant_tbl_ptrs = d.quant_tbl_ptrs => StillUses(d, e)
  BY DEF SameImage, StillUses, Uses

\* One thing after another.
LEMMA ImageStaysOn ==
  ASSUME NEW c, NEW d, NEW e, SameImage(c, d), SameImage(d, e)
  PROVE  SameImage(c, e) /\ (StillUses(c, d) /\ StillUses(d, e) => StillUses(c, e))
  BY DEF SameImage, StillUses

\* The header of a scan tells of the entropy code.
LEMMA SOSKeepsTheImage ==
  ASSUME NEW d, IsDecompress(d), d.error = "none", NEW u, NEW r, r = get_sos(d, u), r.error = "none"
  PROVE  SameImage(d, r) /\ StillUses(d, r)
  <1> DEFINE with(i) == {ci \in DOMAIN d.comp_info :
                           d.comp_info[ci].component_id = u.scan[i].component_id}
             found(i) == CHOOSE ci \in with(i) : \A cj \in with(i) : ci <= cj
             used == {i \in DOMAIN u.scan : with(i) # {}}
             scanned(ci) == {i \in DOMAIN u.scan : found(i) = ci}
             last(ci) == CHOOSE i \in scanned(ci) : \A j \in scanned(ci) : j <= i
             cur == [i \in DOMAIN u.scan |-> found(i)]
             comps == [ci \in DOMAIN d.comp_info |->
                         IF scanned(ci) = {} THEN d.comp_info[ci]
                         ELSE [d.comp_info[ci] EXCEPT !.dc_tbl_no = u.scan[last(ci)].dc_tbl_no,
                                                      !.ac_tbl_no = u.scan[last(ci)].ac_tbl_no]]
             Component == [component_id : Nat, quant_tbl_no : Nat, MCU_blocks : Nat,
                           dc_tbl_no : Nat, ac_tbl_no : Nat, quant_table : Nat]
             e == [d EXCEPT !.cur_comp_info = cur, !.band = u.band, !.comp_info = comps]
  <1>1. get_sos(d, u) =
          IF ~d.saw_SOF THEN Failed(d, "JERR_SOS_NO_SOF")
          ELSE IF Len(u.scan) \notin 1 .. MAX_COMPS_IN_SCAN THEN Failed(d, "JERR_BAD_LENGTH")
          ELSE IF used # DOMAIN u.scan THEN Failed(d, "JERR_BAD_COMPONENT_ID")
          ELSE e
    BY Zenon DEF get_sos
  <1>2. \A ci \in DOMAIN d.comp_info : d.comp_info[ci] \in Component
    BY SequenceOfASet, Zenon DEF IsDecompress, FrameOK
  <1>3. \A code \in ReadErrors : Failed(d, code).error # "none"
    BY FailedIsAnObject
  <1> HIDE DEF used, last, scanned
  <1>4. \A ci \in DOMAIN d.comp_info :
          /\ comps[ci].component_id = d.comp_info[ci].component_id
          /\ comps[ci].quant_tbl_no = d.comp_info[ci].quant_tbl_no
          /\ comps[ci].MCU_blocks = d.comp_info[ci].MCU_blocks
          /\ comps[ci].quant_table = d.comp_info[ci].quant_table
    BY <1>2
  <1>5. DOMAIN comps = DOMAIN d.comp_info
    OBVIOUS
  <1> HIDE DEF comps, cur
  <1>6. /\ e.comp_info = comps /\ e.jpeg_color_space = d.jpeg_color_space
        /\ e.quant_tbl_ptrs = d.quant_tbl_ptrs
    BY DEF IsDecompress, jpeg_decompress_struct
  <1> HIDE DEF e
  <1>7. r = e
    BY <1>1, <1>3 DEF ReadErrors
  <1> QED BY <1>4, <1>5, <1>6, <1>7 DEF SameImage, StillUses, Uses

\* The start of a scan sets tables that were not set.
LEMMA PassKeepsTheImage ==
  ASSUME NEW d, IsDecompress(d), d.error = "none", NEW r, r = start_input_pass(d), r.error = "none"
  PROVE  SameImage(d, r) /\ StillUses(d, r)
  <1> DEFINE Component == [component_id : Nat, quant_tbl_no : Nat, MCU_blocks : Nat,
                           dc_tbl_no : Nat, ac_tbl_no : Nat, quant_table : Nat]
             comps == [ci \in DOMAIN d.comp_info |->
                 IF ci \in Scanned(d) THEN [d.comp_info[ci] EXCEPT !.quant_table = Latched(d, ci)]
                 ELSE d.comp_info[ci]]
             e == [d EXCEPT !.comp_info = comps, !.consume_input = "data", !.input_iMCU_row = 0,
                            !.insufficient_data = FALSE]
  <1>1. start_input_pass(d) \in {e, Failed(d, "JERR_BAD_MCU_SIZE"), Failed(d, "JERR_NO_QUANT_TABLE"),
                                 Failed(d, "JERR_NO_HUFF_TABLE")}
    BY Zenon DEF start_input_pass
  <1>2. \A ci \in DOMAIN d.comp_info : d.comp_info[ci] \in Component
    BY SequenceOfASet, Zenon DEF IsDecompress, FrameOK
  <1>3. \A code \in ReadErrors : Failed(d, code).error # "none"
    BY FailedIsAnObject
  <1>4. \A ci \in DOMAIN d.comp_info :
          /\ comps[ci].component_id = d.comp_info[ci].component_id
          /\ comps[ci].quant_tbl_no = d.comp_info[ci].quant_tbl_no
          /\ comps[ci].MCU_blocks = d.comp_info[ci].MCU_blocks
          /\ comps[ci].quant_table \in {d.comp_info[ci].quant_table, Latched(d, ci)}
    BY <1>2
  <1>5. DOMAIN comps = DOMAIN d.comp_info
    OBVIOUS
  <1> HIDE DEF comps
  <1>6. /\ e.comp_info = comps /\ e.jpeg_color_space = d.jpeg_color_space
        /\ e.quant_tbl_ptrs = d.quant_tbl_ptrs
    BY DEF IsDecompress, jpeg_decompress_struct
  <1> HIDE DEF e
  <1>7. r = e
    BY <1>1, <1>3 DEF ReadErrors
  <1>8. ASSUME NEW tables, Uses(d, tables), NEW ci \in DOMAIN d.comp_info
        PROVE  \/ comps[ci].quant_table = NoTable
               \/ /\ comps[ci].quant_tbl_no \in QuantSlots
                  /\ comps[ci].quant_table = tables[comps[ci].quant_tbl_no]
    <2>1. \/ Latched(d, ci) = NoTable
          \/ /\ d.comp_info[ci].quant_tbl_no \in QuantSlots
             /\ Latched(d, ci) = tables[d.comp_info[ci].quant_tbl_no]
      BY <1>8 DEF Latched, Uses
    <2>2. \/ d.comp_info[ci].quant_table = NoTable
          \/ /\ d.comp_info[ci].quant_tbl_no \in QuantSlots
             /\ d.comp_info[ci].quant_table = tables[d.comp_info[ci].quant_tbl_no]
      BY <1>8 DEF Uses
    <2>3. comps[ci].quant_tbl_no = d.comp_info[ci].quant_tbl_no
      BY <1>4
    <2>4. comps[ci].quant_table = d.comp_info[ci].quant_table \/ comps[ci].quant_table = Latched(d, ci)
      BY <1>4
    <2> QED BY <2>1, <2>2, <2>3, <2>4
  <1>9. StillUses(d, r)
    BY <1>5, <1>6, <1>7, <1>8 DEF StillUses, Uses
  <1> QED BY <1>4, <1>5, <1>6, <1>7, <1>9 DEF SameImage

\* A marker behind the header.
LEMMA MarkerKeepsTheImage ==
  ASSUME NEW d, IsDecompress(d), d.error = "none", d.global_state # "DSTATE_START",
         d.consume_input = "markers", d.buffer # << >>, NEW r, r = ReadMarker(d), r.error = "none"
  PROVE  /\ SameImage(d, r) /\ (Head(d.buffer).kind # "DQT" => StillUses(d, r))
         /\ r.at = d.at /\ r.buffer = Tail(d.buffer)
  <1> DEFINE u == Head(d.buffer)
             e == [d EXCEPT !.buffer = Tail(@)]
             Good(x) == SameSource(e, x) /\ SameImage(e, x) /\ (u.kind # "DQT" => StillUses(e, x))
  <1>1. /\ IsDecompress(e) /\ IsUnit(u) /\ SameState(d, e) /\ e.buffer = Tail(d.buffer)
    BY UnitIsTaken
  <1>2. e.at = d.at /\ e.comp_info = d.comp_info /\ e.jpeg_color_space = d.jpeg_color_space
        /\ e.quant_tbl_ptrs = d.quant_tbl_ptrs
    BY DEF IsDecompress, jpeg_decompress_struct
  <1>3. d.saw_SOI /\ d.saw_SOF /\ ~d.inheaders
    BY DEF IsDecompress, FrameOK, StateOK
  <1>4. /\ u.kind = "SOI" => r = get_soi(e)
        /\ u.kind = "SOF" => r = get_sof(e, u)
        /\ u.kind = "SOS" => r = IF get_sos(e, u).error = "none"
                                 THEN ReachedSOS(get_sos(e, u)) ELSE get_sos(e, u)
        /\ u.kind = "EOI" => r = ReachedEOI(e)
        /\ u.kind \in {"DQT", "DHT", "DRI"} => r = get_tables(e, u)
        /\ u.kind \in {"APP0", "APP14"} => r = get_interesting_appn(e, u)
    <2> HIDE DEF u, e
    <2> QED BY <1>3, CallsForAMarker DEF u, e
  <1>5. /\ u.kind = "COM" => r = e
        /\ u.kind = "ROW" => r = [e EXCEPT !.warned = TRUE]
    <2>1. ReadMarker(d) =
          IF ~d.saw_SOI /\ first_marker(d, u).error # "none" THEN first_marker(d, u)
          ELSE CASE u.kind = "SOI" -> get_soi(e)
             [] u.kind = "SOF" -> get_sof(e, u)
             [] u.kind = "SOS" -> IF get_sos(e, u).error = "none" THEN ReachedSOS(get_sos(e, u)) ELSE get_sos(e, u)
             [] u.kind = "EOI" -> ReachedEOI(e)
             [] u.kind \in {"DQT", "DHT", "DRI"} -> get_tables(e, u)
             [] u.kind \in {"APP0", "APP14"} -> get_interesting_appn(e, u)
             [] u.kind = "COM" -> skip_variable(e)
             [] u.kind = "ROW" -> [e EXCEPT !.warned = TRUE]
      BY Zenon DEF ReadMarker
    <2> HIDE DEF u, e
    <2> QED BY <1>3, <2>1 DEF skip_variable
  <1>6. /\ e.error = "none" /\ e.saw_SOI /\ e.saw_SOF /\ ~e.inheaders /\ e.consume_input = "markers"
    BY <1>1, <1>3 DEF SameState
  <1> HIDE DEF u, e
  <1>7. \A code \in ReadErrors : Failed(e, code).error # "none"
    BY <1>1, FailedIsAnObject
  <1>8. ASSUME NEW x, SameSource(e, x), x.comp_info = e.comp_info, x.jpeg_color_space = e.jpeg_color_space,
               x.quant_tbl_ptrs = e.quant_tbl_ptrs
        PROVE  Good(x)
    BY <1>8, ComponentsStay
  <1>9. ASSUME u.kind \in {"SOI", "SOF"}
        PROVE  Good(r)
    <2>1. r = Failed(e, IF u.kind = "SOI" THEN "JERR_SOI_DUPLICATE" ELSE "JERR_SOF_DUPLICATE")
      BY <1>4, <1>6, <1>9 DEF get_soi, get_sof
    <2> QED BY <1>7, <2>1 DEF ReadErrors
  <1>10. ASSUME u.kind = "SOS"
        PROVE  Good(r)
    <2> DEFINE s == get_sos(e, u)
    <2>1. r = IF s.error = "none" THEN ReachedSOS(s) ELSE s
      BY <1>4, <1>10
    <2>2. /\ IsDecompress(s) /\ Keeps(e, s) /\ s.inheaders = e.inheaders
      BY <1>1, <1>6, <1>10, SOSIsRead
    <2>3. s.error = "none" => SameImage(e, s) /\ StillUses(e, s)
      BY <1>1, <1>6, SOSKeepsTheImage
    <2> HIDE DEF s
    <2>4. s.error = "none" /\ r = ReachedSOS(s)
      BY <2>1
    <2>5. r = IF s.has_multiple_scans THEN start_input_pass(s) ELSE Failed(s, "JERR_EOI_EXPECTED")
      BY <1>6, <2>2, <2>4 DEF ReachedSOS
    <2>6. Failed(s, "JERR_EOI_EXPECTED").error # "none"
      BY <2>2, FailedIsAnObject DEF ReadErrors
    <2>7. r = start_input_pass(s)
      BY <2>5, <2>6
    <2>8. SameImage(s, r) /\ StillUses(s, r) /\ Keeps(s, r)
      BY <2>2, <2>4, <2>7, PassKeepsTheImage, PassIsStarted
    <2>9. SameImage(e, r) /\ StillUses(e, r)
      BY <2>3, <2>4, <2>8, ImageStaysOn
    <2>10. SameSource(e, r)
      BY <2>2, <2>8 DEF Keeps, SameSource
    <2>11. Good(r)
      BY <2>9, <2>10
    <2> HIDE DEF Good
    <2> QED BY <2>11
  <1>11. ASSUME u.kind = "EOI"
        PROVE  Good(r)
    <2>1. r = [e EXCEPT !.eoi_reached = TRUE]
      BY <1>4, <1>6, <1>11 DEF ReachedEOI
    <2>2. SameSource(e, r) /\ r.comp_info = e.comp_info /\ r.jpeg_color_space = e.jpeg_color_space
          /\ r.quant_tbl_ptrs = e.quant_tbl_ptrs
      BY <1>1, <2>1 DEF IsDecompress, jpeg_decompress_struct, SameSource
    <2> QED BY <1>8, <2>2
  <1>12. ASSUME u.kind \in {"DQT", "DHT", "DRI"}
        PROVE  Good(r)
    <2>1. r = get_tables(e, u)
      BY <1>4, <1>12
    <2>2. \/ u.kind = "DQT" /\ r = [e EXCEPT !.quant_tbl_ptrs[u.slot] = u.table]
          \/ u.kind # "DQT" /\ r = [e EXCEPT !.huff_tbl_ptrs[u.class][u.slot] = u.table]
          \/ u.kind # "DQT" /\ r = [e EXCEPT !.restart_interval = u.interval]
          \/ r \in {Failed(e, "JERR_DQT_INDEX"), Failed(e, "JERR_DHT_INDEX")}
      BY <1>12, <2>1, Zenon DEF get_tables
    <2>3. SameSource(e, r) /\ r.comp_info = e.comp_info /\ r.jpeg_color_space = e.jpeg_color_space
          /\ (u.kind # "DQT" => r.quant_tbl_ptrs = e.quant_tbl_ptrs)
      <3>1. CASE u.kind = "DQT" /\ r = [e EXCEPT !.quant_tbl_ptrs[u.slot] = u.table]
        BY <1>1, <3>1 DEF IsDecompress, jpeg_decompress_struct, SameSource
      <3>2. CASE u.kind # "DQT" /\ r = [e EXCEPT !.huff_tbl_ptrs[u.class][u.slot] = u.table]
        BY <1>1, <3>2 DEF IsDecompress, jpeg_decompress_struct, SameSource
      <3>3. CASE u.kind # "DQT" /\ r = [e EXCEPT !.restart_interval = u.interval]
        BY <1>1, <3>3 DEF IsDecompress, jpeg_decompress_struct, SameSource
      <3>4. CASE r \in {Failed(e, "JERR_DQT_INDEX"), Failed(e, "JERR_DHT_INDEX")}
        BY <1>7, <3>4 DEF ReadErrors
      <3> QED BY <2>2, <3>1, <3>2, <3>3, <3>4
    <2> QED BY <2>3, ComponentsStay
  <1>13. ASSUME u.kind \in {"APP0", "APP14"}
        PROVE  Good(r)
    <2>1. \/ r = [e EXCEPT !.saw_JFIF_marker = TRUE]
          \/ r = [e EXCEPT !.Adobe_transform = u.transform]
      BY <1>4, <1>13 DEF get_interesting_appn
    <2>2. SameSource(e, r) /\ r.comp_info = e.comp_info /\ r.jpeg_color_space = e.jpeg_color_space
          /\ r.quant_tbl_ptrs = e.quant_tbl_ptrs
      <3>1. CASE r = [e EXCEPT !.saw_JFIF_marker = TRUE]
        BY <1>1, <3>1 DEF IsDecompress, jpeg_decompress_struct, SameSource
      <3>2. CASE r = [e EXCEPT !.Adobe_transform = u.transform]
        BY <1>1, <3>2 DEF IsDecompress, jpeg_decompress_struct, SameSource
      <3> QED BY <2>1, <3>1, <3>2
    <2> QED BY <1>8, <2>2
  <1>14. ASSUME u.kind = "COM"
        PROVE  Good(r)
    <2>1. SameSource(e, r) /\ r = e
      BY <1>5, <1>14 DEF SameSource
    <2> QED BY <1>8, <2>1
  <1>15. ASSUME u.kind = "ROW"
        PROVE  Good(r)
    <2>1. r = [e EXCEPT !.warned = TRUE]
      BY <1>5, <1>15
    <2>2. SameSource(e, r) /\ r.comp_info = e.comp_info /\ r.jpeg_color_space = e.jpeg_color_space
          /\ r.quant_tbl_ptrs = e.quant_tbl_ptrs
      BY <1>1, <2>1 DEF IsDecompress, jpeg_decompress_struct, SameSource
    <2> QED BY <1>8, <2>2
  <1>16. Good(r)
    <2> HIDE DEF Good
    <2>1. u.kind \in {"SOI", "EOI", "COM", "APP0", "APP14", "DQT", "DHT", "DRI", "SOF", "SOS", "ROW"}
      BY <1>1 DEF IsUnit
    <2> QED BY <1>9, <1>10, <1>11, <1>12, <1>13, <1>14, <1>15, <2>1
  <1>17. SameImage(d, e) /\ StillUses(d, e)
    BY <1>2, ComponentsStay
  <1> QED BY <1>1, <1>2, <1>16, <1>17, ImageStaysOn DEF SameSource, u

\* A row of a scan.
LEMMA RowKeepsTheImage ==
  ASSUME NEW d, IsDecompress(d), d.buffer # << >>, NEW r, r = ConsumeRow(d)
  PROVE  /\ SameImage(d, r) /\ StillUses(d, r)
         /\ r.at = d.at /\ r.buffer \in {d.buffer, Tail(d.buffer)} /\ r.eoi_reached = d.eoi_reached
         /\ r.global_state = d.global_state
  <1> DEFINE u == Head(d.buffer)
             row == d.input_iMCU_row + 1
             hit == d.insufficient_data \/ u.kind # "ROW"
             at(ci) == CHOOSE i \in DOMAIN d.cur_comp_info :
                        /\ d.cur_comp_info[i] = ci
                        /\ \A j \in DOMAIN d.cur_comp_info : d.cur_comp_info[j] = ci => j <= i
             turned == [d EXCEPT !.input_iMCU_row = row]
             next == IF row = NoOfRows THEN finish_input_pass(turned) ELSE turned
             arrays == [ci \in DOMAIN next.coef_arrays |->
               IF ci \in Scanned(d)
               THEN [next.coef_arrays[ci] EXCEPT ![row] = Decoded(d, d.coef_arrays[ci][row], u, at(ci))]
               ELSE next.coef_arrays[ci]]
             warned == [next EXCEPT !.insufficient_data = TRUE, !.warned = TRUE]
             read == [next EXCEPT !.buffer = Tail(@), !.coef_arrays = arrays]
  <1>1. ConsumeRow(d) = IF hit THEN warned ELSE read
    BY Zenon DEF ConsumeRow
  <1>2. /\ DOMAIN next = DOMAIN d /\ next.comp_info = d.comp_info
        /\ next.jpeg_color_space = d.jpeg_color_space /\ next.quant_tbl_ptrs = d.quant_tbl_ptrs
        /\ next.at = d.at /\ next.buffer = d.buffer
        /\ next.eoi_reached = d.eoi_reached /\ next.global_state = d.global_state
    BY DEF finish_input_pass, IsDecompress, jpeg_decompress_struct
  <1> HIDE DEF next, arrays, hit
  <1>3. /\ warned.comp_info = d.comp_info /\ warned.quant_tbl_ptrs = d.quant_tbl_ptrs
        /\ warned.jpeg_color_space = d.jpeg_color_space
        /\ warned.at = d.at /\ warned.buffer = d.buffer
        /\ warned.eoi_reached = d.eoi_reached /\ warned.global_state = d.global_state
    BY <1>2 DEF IsDecompress, jpeg_decompress_struct
  <1>4. /\ read.comp_info = d.comp_info /\ read.quant_tbl_ptrs = d.quant_tbl_ptrs
        /\ read.jpeg_color_space = d.jpeg_color_space
        /\ read.at = d.at /\ read.buffer = Tail(d.buffer)
        /\ read.eoi_reached = d.eoi_reached /\ read.global_state = d.global_state
    BY <1>2 DEF IsDecompress, jpeg_decompress_struct
  <1> HIDE DEF warned, read
  <1>5. r = warned \/ r = read
    BY <1>1
  <1>6. /\ r.comp_info = d.comp_info /\ r.quant_tbl_ptrs = d.quant_tbl_ptrs
        /\ r.jpeg_color_space = d.jpeg_color_space
        /\ r.at = d.at /\ r.buffer \in {d.buffer, Tail(d.buffer)} /\ r.eoi_reached = d.eoi_reached
        /\ r.global_state = d.global_state
    BY <1>3, <1>4, <1>5
  <1> QED BY <1>6, ComponentsStay

\* The start of the coefficients.
LEMMA StartingKeepsTheImage ==
  ASSUME NEW d, IsDecompress(d), d.error = "none", d.global_state = "DSTATE_READY",
         NEW r, r = StartCoefficients(d), r.error = "none"
  PROVE  SameImage(d, r) /\ StillUses(d, r) /\ r.at = d.at /\ r.buffer = d.buffer
  <1> DEFINE blank == [ci \in DOMAIN d.comp_info |-> [q \in Rows |-> Blank]]
             e == [d EXCEPT !.global_state = "DSTATE_RDCOEFS", !.coef_arrays = blank]
  <1>1. Failed(d, "JERR_ARITH_NOTIMPL").error # "none"
    BY FailedIsAnObject DEF ReadErrors
  <1>2. r = start_input_pass(e)
    BY <1>1, Zenon DEF StartCoefficients
  <1>3. IsDecompress(e) /\ e.error = "none" /\ SameSource(d, e) /\ SameTables(d, e) /\ SameFrame(d, e)
    <2>1. e = [d EXCEPT !.global_state = "DSTATE_RDCOEFS",
                        !.coef_arrays = [ci \in DOMAIN d.comp_info |-> [q \in Rows |-> Blank]]]
      OBVIOUS
    <2> HIDE DEF e
    <2> QED BY <2>1, ArraysAreBlank
  <1> HIDE DEF blank, e
  <1>4. SameImage(d, e) /\ StillUses(d, e)
    BY <1>3, ComponentsStay DEF SameFrame, SameTables
  <1>5. SameImage(e, r) /\ StillUses(e, r) /\ SameSource(e, r)
    BY <1>2, <1>3, PassKeepsTheImage, PassIsStarted DEF Keeps
  <1> QED BY <1>3, <1>4, <1>5, ImageStaysOn DEF SameSource

\* No quantization table is read any more.
NoTableAhead(d, content) ==
  /\ \A i \in DOMAIN d.buffer : d.buffer[i].kind # "DQT"
  /\ \A j \in DOMAIN content : j > d.at => content[j].kind # "DQT"

\* What is taken from the buffer was ahead.
LEMMA AheadOfTheNext ==
  ASSUME NEW d, IsDecompress(d), NEW content, NoTableAhead(d, content),
         NEW r, r.at = d.at, r.buffer = d.buffer \/ (d.buffer # << >> /\ r.buffer = Tail(d.buffer))
  PROVE  NoTableAhead(r, content) /\ (d.buffer # << >> => Head(d.buffer).kind # "DQT")
  <1>1. d.buffer # << >> =>
          /\ Head(d.buffer) = d.buffer[1] /\ 1 \in DOMAIN d.buffer
          /\ \A i \in DOMAIN Tail(d.buffer) : i + 1 \in DOMAIN d.buffer /\ Tail(d.buffer)[i] = d.buffer[i + 1]
    BY TailOfStream DEF IsDecompress, SourceOK
  <1> QED BY <1>1 DEF NoTableAhead

\* Neither does the source bring one.
LEMMA FillingKeepsTheImage ==
  ASSUME NEW d, IsDecompress(d), d.error = "none", NEW content, IsStream(content),
         NEW r, r = FillInputBuffer(d, content), r.error = "none"
  PROVE  /\ SameImage(d, r) /\ StillUses(d, r)
         /\ NoTableAhead(d, content) => NoTableAhead(r, content)
  <1> DEFINE left == Len(content) - d.at
             size == IF left < INPUT_BUF_SIZE THEN left ELSE INPUT_BUF_SIZE
             part == SubSeq(content, d.at + 1, d.at + size)
             more == [d EXCEPT !.buffer = part, !.at = @ + size, !.start_of_file = FALSE]
             end == [d EXCEPT !.buffer = <<EOI>>, !.warned = TRUE]
  <1>1. r = IF size > 0 THEN more
            ELSE IF d.start_of_file THEN Failed(d, "JERR_INPUT_EMPTY") ELSE end
    BY Zenon DEF FillInputBuffer, Refilled
  <1>2. Failed(d, "JERR_INPUT_EMPTY").error # "none"
    BY FailedIsAnObject DEF ReadErrors
  <1>3. d.at \in Nat /\ Len(content) \in Nat /\ DOMAIN content = 1 .. Len(content) /\ INPUT_BUF_SIZE \in Nat \ {0}
    <2>1. content = [i \in 1 .. Len(content) |-> content[i]] /\ Len(content) \in Nat
      BY SequenceIsOnAnInterval DEF IsStream
    <2> QED BY <2>1, JobsAssumption DEF IsDecompress, SourceOK
  <1>4. CASE size > 0
    <2>1. r = more
      BY <1>1, <1>4
    <2>2. size \in Nat \ {0} /\ d.at + 1 \in Nat \ {0} /\ d.at + size \in Int /\ d.at + size <= Len(content)
      BY <1>3, <1>4
    <2> HIDE DEF size
    <2>3. \A i \in DOMAIN part : /\ (i + (d.at + 1)) - 1 \in DOMAIN content
                                 /\ part[i] = content[(i + (d.at + 1)) - 1]
      BY <2>2, PlacesOfAPart
    <2>4. DOMAIN part \subseteq Nat \ {0}
      BY SMTT(30), <1>3, <2>2
    <2> HIDE DEF part
    <2>5. r.comp_info = d.comp_info /\ r.jpeg_color_space = d.jpeg_color_space
          /\ r.quant_tbl_ptrs = d.quant_tbl_ptrs /\ r.buffer = part /\ r.at = d.at + size
      BY <2>1 DEF IsDecompress, jpeg_decompress_struct
    <2>6. ASSUME NoTableAhead(d, content) PROVE NoTableAhead(r, content)
      <3>1. ASSUME NEW i \in DOMAIN part PROVE part[i].kind # "DQT"
        <4>1. (i + (d.at + 1)) - 1 > d.at
          BY <1>3, <2>4
        <4> QED BY <2>3, <2>6, <4>1 DEF NoTableAhead
      <3>2. \A j \in DOMAIN content : j > d.at + size => j > d.at
        BY <1>3, <2>2
      <3> QED BY <2>5, <2>6, <3>1, <3>2 DEF NoTableAhead
    <2> QED BY <2>5, <2>6, ComponentsStay
  <1>5. CASE ~(size > 0)
    <2>1. r = end
      BY <1>1, <1>2, <1>5
    <2>2. r.comp_info = d.comp_info /\ r.jpeg_color_space = d.jpeg_color_space
          /\ r.quant_tbl_ptrs = d.quant_tbl_ptrs /\ r.buffer = <<EOI>> /\ r.at = d.at
      BY <2>1 DEF IsDecompress, jpeg_decompress_struct
    <2>3. \A i \in DOMAIN <<EOI>> : <<EOI>>[i].kind # "DQT"
      BY DEF EOI
    <2> QED BY <2>2, <2>3, ComponentsStay DEF NoTableAhead
  <1> QED BY <1>4, <1>5

\* Behind the header every call leaves the components as they are.
LEMMA CallKeepsTheImage ==
  ASSUME NEW d, IsDecompress(d), d.global_state \in {"DSTATE_READY", "DSTATE_RDCOEFS"},
         d.error = "none", ~d.eoi_reached, NEW content, IsStream(content),
         NEW r, r = NextCall(d, content), r.error = "none"
  PROVE  /\ SameImage(d, r) /\ r.global_state = "DSTATE_RDCOEFS"
         /\ NoTableAhead(d, content) => StillUses(d, r) /\ NoTableAhead(r, content)
  <1>1. CASE d.global_state = "DSTATE_READY"
    <2>1. r = StartCoefficients(d)
      BY <1>1 DEF NextCall
    <2>2. SameImage(d, r) /\ StillUses(d, r) /\ r.at = d.at /\ r.buffer = d.buffer
      BY <1>1, <2>1, StartingKeepsTheImage
    <2> QED BY <1>1, <2>1, <2>2, CoefficientsAreStarted, AheadOfTheNext
  <1>2. CASE d.global_state # "DSTATE_READY"
    <2> DEFINE f == IF d.buffer = << >> THEN FillInputBuffer(d, content) ELSE d
    <2>1. r = ConsumeInput(d, content)
      BY <1>2 DEF NextCall
    <2>2. r = IF f.error # "none" \/ f.buffer = << >> THEN f
              ELSE IF f.consume_input = "markers" THEN ReadMarker(f)
              ELSE ConsumeRow(f)
      BY <2>1, Zenon DEF ConsumeInput
    <2>3. r.global_state = "DSTATE_RDCOEFS"
      <3>1. Advances(d, r)
        BY <2>1, InputIsConsumed
      <3> QED BY <1>2, <3>1 DEF Advances
    <2>4. /\ IsDecompress(f) /\ f.global_state = "DSTATE_RDCOEFS"
          /\ f.error = "none" =>
               /\ SameImage(d, f) /\ StillUses(d, f)
               /\ NoTableAhead(d, content) => NoTableAhead(f, content)
      <3>1. CASE d.buffer = << >>
        <4>1. f = FillInputBuffer(d, content)
          BY <3>1
        <4> HIDE DEF f
        <4> QED BY <1>2, <4>1, BufferIsFilled, FillingKeepsTheImage
      <3>2. CASE d.buffer # << >>
        <4>1. f = d
          BY <3>2
        <4> HIDE DEF f
        <4> QED BY <1>2, <4>1, ComponentsStay
      <3> QED BY <3>1, <3>2
    <2> HIDE DEF f
    <2>5. f.error = "none"
      BY <2>2
    <2>6. CASE f.buffer = << >>
      BY <2>2, <2>3, <2>4, <2>5, <2>6
    <2>7. CASE f.buffer # << >> /\ f.consume_input = "markers"
      <3>1. r = ReadMarker(f)
        BY <2>2, <2>5, <2>7
      <3>2. /\ SameImage(f, r) /\ (Head(f.buffer).kind # "DQT" => StillUses(f, r))
            /\ r.at = f.at /\ r.buffer = Tail(f.buffer)
        BY <2>4, <2>5, <2>7, <3>1, MarkerKeepsTheImage
      <3>3. NoTableAhead(f, content) => NoTableAhead(r, content) /\ Head(f.buffer).kind # "DQT"
        BY <2>4, <2>7, <3>2, AheadOfTheNext
      <3> QED BY <2>3, <2>4, <2>5, <3>2, <3>3, ImageStaysOn
    <2>8. CASE f.buffer # << >> /\ f.consume_input # "markers"
      <3>1. r = ConsumeRow(f)
        BY <2>2, <2>5, <2>8
      <3>2. /\ SameImage(f, r) /\ StillUses(f, r) /\ r.at = f.at /\ r.buffer \in {f.buffer, Tail(f.buffer)}
        BY <2>4, <2>8, <3>1, RowKeepsTheImage
      <3>3. NoTableAhead(f, content) => NoTableAhead(r, content)
        BY <2>4, <2>8, <3>2, AheadOfTheNext
      <3> QED BY <2>3, <2>4, <2>5, <3>2, <3>3, ImageStaysOn
    <2> QED BY <2>6, <2>7, <2>8
  <1> QED BY <1>1, <1>2

\* The image does not end in its header.
LEMMA HeaderIsNotTheEnd ==
  ASSUME NEW d, IsDecompress(d), d.error = "none", ~d.eoi_reached, d.global_state = "DSTATE_START",
         NEW content, IsStream(content), NEW r, r = ConsumeInput(d, content), r.error = "none"
  PROVE  ~r.eoi_reached
  <1> DEFINE f == IF d.buffer = << >> THEN FillInputBuffer(d, content) ELSE d
  <1>1. r = IF f.error # "none" \/ f.buffer = << >> THEN f
            ELSE IF f.consume_input = "markers" THEN ReadMarker(f)
            ELSE ConsumeRow(f)
    BY Zenon DEF ConsumeInput
  <1>2. IsDecompress(f) /\ f.global_state = "DSTATE_START" /\ ~f.eoi_reached
    <2>1. CASE d.buffer = << >>
      <3> DEFINE left == Len(content) - d.at
                 size == IF left < INPUT_BUF_SIZE THEN left ELSE INPUT_BUF_SIZE
                 part == SubSeq(content, d.at + 1, d.at + size)
                 more == [d EXCEPT !.buffer = part, !.at = @ + size, !.start_of_file = FALSE]
                 end == [d EXCEPT !.buffer = <<EOI>>, !.warned = TRUE]
                 failed == [d EXCEPT !.error = "JERR_INPUT_EMPTY"]
      <3>1. f = FillInputBuffer(d, content)
        BY <2>1
      <3>2. FillInputBuffer(d, content) \in {more, end, failed}
        BY Zenon DEF FillInputBuffer, Refilled, Failed
      <3> HIDE DEF part, size
      <3>3. more.eoi_reached = d.eoi_reached /\ end.eoi_reached = d.eoi_reached
            /\ failed.eoi_reached = d.eoi_reached
        BY DEF IsDecompress, jpeg_decompress_struct
      <3> HIDE DEF f, more, end, failed
      <3> QED BY <3>1, <3>2, <3>3, BufferIsFilled
    <2>2. CASE d.buffer # << >>
      BY <2>2
    <2> QED BY <2>1, <2>2
  <1> HIDE DEF f
  <1>3. f.inheaders /\ f.consume_input \in {"markers", "data"}
    BY <1>2 DEF IsDecompress, FrameOK, StateOK
  <1>4. f.error = "none"
    BY <1>1
  <1>5. CASE f.buffer = << >>
    BY <1>1, <1>2, <1>5
  <1>6. CASE f.buffer # << >> /\ f.consume_input = "markers"
    <2> DEFINE u == Head(f.buffer)
               e == [f EXCEPT !.buffer = Tail(@)]
               Good(x) == x.error # "none" \/ ~x.eoi_reached
    <2>1. r = ReadMarker(f)
      BY <1>1, <1>4, <1>6
    <2>2. IsDecompress(e) /\ IsUnit(u) /\ SameState(f, e)
      BY <1>2, <1>4, <1>6, UnitIsTaken
    <2>3. ReadMarker(f) =
          IF ~f.saw_SOI /\ first_marker(f, u).error # "none" THEN first_marker(f, u)
          ELSE CASE u.kind = "SOI" -> get_soi(e)
             [] u.kind = "SOF" -> get_sof(e, u)
             [] u.kind = "SOS" -> IF get_sos(e, u).error = "none" THEN ReachedSOS(get_sos(e, u)) ELSE get_sos(e, u)
             [] u.kind = "EOI" -> ReachedEOI(e)
             [] u.kind \in {"DQT", "DHT", "DRI"} -> get_tables(e, u)
             [] u.kind \in {"APP0", "APP14"} -> get_interesting_appn(e, u)
             [] u.kind = "COM" -> skip_variable(e)
             [] u.kind = "ROW" -> [e EXCEPT !.warned = TRUE]
      BY Zenon DEF ReadMarker
    <2>4. /\ e.error = "none" /\ ~e.eoi_reached /\ e.inheaders /\ e.consume_input = "markers"
          /\ e.global_state = "DSTATE_START"
      BY <1>2, <1>3, <1>4, <1>6, <2>2 DEF SameState
    <2> HIDE DEF u, e
    <2>5. CASE ~f.saw_SOI /\ first_marker(f, u).error # "none"
      BY <2>1, <2>3, <2>5
    <2>6. CASE ~(~f.saw_SOI /\ first_marker(f, u).error # "none")
      <3>1. u.kind = "SOI" => Good(r)
        <4>1. SUFFICES ASSUME u.kind = "SOI" PROVE Good(r)
          OBVIOUS
        <4>2. r = get_soi(e)
          BY <2>1, <2>3, <2>6, <4>1
        <4>3. Keeps(e, get_soi(e))
          BY <2>2, <2>4, SOIIsRead
        <4> QED BY <2>4, <4>2, <4>3 DEF Keeps
      <3>2. u.kind = "SOF" => Good(r)
        <4>1. SUFFICES ASSUME u.kind = "SOF" PROVE Good(r)
          OBVIOUS
        <4>2. r = get_sof(e, u)
          BY <2>1, <2>3, <2>6, <4>1
        <4>3. e.saw_SOI
          <5>1. f.saw_SOI
            BY <2>6, <4>1, FailedIsAnObject, <1>2 DEF first_marker, ReadErrors
          <5> QED BY <2>2, <5>1 DEF SameState
        <4>4. Keeps(e, get_sof(e, u))
          BY <2>2, <2>4, <4>1, <4>3, SOFIsRead
        <4> QED BY <2>4, <4>2, <4>4 DEF Keeps
      <3>3. u.kind = "SOS" => Good(r)
        <4>1. SUFFICES ASSUME u.kind = "SOS" PROVE Good(r)
          OBVIOUS
        <4> DEFINE s == get_sos(e, u)
        <4>2. r = IF s.error = "none" THEN ReachedSOS(s) ELSE s
          BY <2>1, <2>3, <2>6, <4>1
        <4>3. /\ IsDecompress(s) /\ Keeps(e, s) /\ s.consume_input = "markers"
              /\ s.error = "none" => s.saw_SOF
          BY <2>2, <2>4, <4>1, SOSIsRead
        <4> HIDE DEF s
        <4>4. s.error = "none" => Keeps(s, ReachedSOS(s))
          BY <4>3, SOSIsReached
        <4> QED BY <2>4, <4>2, <4>3, <4>4 DEF Keeps
      <3>4. u.kind = "EOI" => Good(r)
        <4>1. SUFFICES ASSUME u.kind = "EOI" PROVE Good(r)
          OBVIOUS
        <4>2. r = ReachedEOI(e)
          BY <2>1, <2>3, <2>6, <4>1
        <4>3. r = Failed(e, IF e.saw_SOF THEN "JERR_SOF_NO_SOS" ELSE "JERR_NO_IMAGE")
          BY <2>4, <4>2 DEF ReachedEOI
        <4> QED BY <2>2, <4>3, FailedIsAnObject DEF ReadErrors
      <3>5. u.kind \in {"DQT", "DHT", "DRI"} => Good(r)
        <4>1. SUFFICES ASSUME u.kind \in {"DQT", "DHT", "DRI"} PROVE Good(r)
          OBVIOUS
        <4>2. r = get_tables(e, u)
          BY <2>1, <2>3, <2>6, <4>1
        <4>3. Keeps(e, get_tables(e, u))
          BY <2>2, <2>4, <4>1, TablesAreRead
        <4> QED BY <2>4, <4>2, <4>3 DEF Keeps
      <3>6. u.kind \in {"APP0", "APP14"} => Good(r)
        <4>1. SUFFICES ASSUME u.kind \in {"APP0", "APP14"} PROVE Good(r)
          OBVIOUS
        <4>2. r = get_interesting_appn(e, u)
          BY <2>1, <2>3, <2>6, <4>1
        <4>3. Keeps(e, get_interesting_appn(e, u))
          BY <2>2, <2>4, <4>1, AppnIsRead
        <4> QED BY <2>4, <4>2, <4>3 DEF Keeps
      <3>7. u.kind = "COM" => Good(r)
        BY <2>1, <2>3, <2>4, <2>6 DEF skip_variable
      <3>8. u.kind = "ROW" => Good(r)
        <4>1. SUFFICES ASSUME u.kind = "ROW" PROVE Good(r)
          OBVIOUS
        <4>2. r = [e EXCEPT !.warned = TRUE]
          BY <2>1, <2>3, <2>6, <4>1
        <4> QED BY <2>2, <2>4, <4>2 DEF IsDecompress, jpeg_decompress_struct
      <3>9. u.kind \in {"SOI", "EOI", "COM", "APP0", "APP14", "DQT", "DHT", "DRI", "SOF", "SOS", "ROW"}
        BY <2>2 DEF IsUnit
      <3>10. Good(r)
        <4> HIDE DEF Good
        <4> QED BY <3>1, <3>2, <3>3, <3>4, <3>5, <3>6, <3>7, <3>8, <3>9
      <3> QED BY <3>10
    <2> QED BY <2>5, <2>6
  <1>7. CASE f.buffer # << >> /\ f.consume_input = "data"
    <2>1. r = ConsumeRow(f)
      BY <1>1, <1>4, <1>7
    <2> QED BY <1>2, <1>7, <2>1, RowKeepsTheImage
  <1> QED BY <1>3, <1>5, <1>6, <1>7

\* Behind an error or the end of the image there are no more calls.
LEMMA ReadingEnds ==
  ASSUME NEW name, NEW content, NEW i \in Nat, NEW n \in Nat, i <= n,
         Reading(name, content, i).error # "none" \/ Reading(name, content, i).eoi_reached
  PROVE  Reading(name, content, n) = Reading(name, content, i)
  <1> DEFINE R(k) == Reading(name, content, k)
             S == {k \in Nat : i <= k /\ R(k) # R(i)}
  <1>1. \A k \in Nat : R(k + 1) = NextCall(R(k), content)
    BY ReadingStepByStep
  <1>2. R(i).error # "none" \/ R(i).eoi_reached
    OBVIOUS
  <1> HIDE DEF R
  <1>3. ASSUME S # {} PROVE FALSE
    <2>1. PICK k \in S : \A j \in S : k <= j
      BY <1>3, LeastNumber
    <2>2. k # i
      BY <2>1
    <2>3. k - 1 \in Nat /\ i <= k - 1 /\ ~(k <= k - 1) /\ (k - 1) + 1 = k
      BY <2>1, <2>2
    <2>4. R(k - 1) = R(i)
      BY <2>1, <2>3
    <2>5. R(k) = NextCall(R(k - 1), content)
      BY <1>1, <2>3
    <2>6. R(k) = R(i)
      BY <1>2, <2>4, <2>5 DEF NextCall
    <2> QED BY <2>1, <2>6
  <1>4. R(n) = R(i)
    BY <1>3
  <1> QED BY <1>4 DEF R

\* As long as the coefficients are not read the end is not reached.
LEMMA NotYetTheEnd ==
  ASSUME NEW name, NEW content, IsStream(content), NEW n \in Nat,
         Reading(name, content, n).error = "none",
         Reading(name, content, n).global_state \in {"DSTATE_START", "DSTATE_READY"}
  PROVE  ~Reading(name, content, n).eoi_reached
  <1> DEFINE R(k) == Reading(name, content, k)
             Early(d) == d.error = "none" /\ d.global_state \in {"DSTATE_START", "DSTATE_READY"}
             S == {k \in Nat : Early(R(k)) /\ R(k).eoi_reached}
  <1>1. R(0) = CreateDecompress(name) /\ \A k \in Nat : R(k + 1) = NextCall(R(k), content)
    BY ReadingStepByStep
  <1>2. \A k \in Nat : IsDecompress(R(k))
    BY ReadingIsAnObject
  <1> HIDE DEF R
  <1>3. ~R(0).eoi_reached
    BY <1>1, FieldsOfANewObject
  <1>4. ASSUME S # {} PROVE FALSE
    <2>1. PICK k \in S : \A j \in S : k <= j
      BY <1>4, LeastNumber
    <2>2. k # 0
      BY <1>3, <2>1
    <2>3. k - 1 \in Nat /\ ~(k <= k - 1) /\ (k - 1) + 1 = k
      BY <2>1, <2>2
    <2> DEFINE d == R(k - 1)
               r == R(k)
    <2>4. r = NextCall(d, content) /\ IsDecompress(d) /\ r.error = "none" /\ r.eoi_reached
          /\ r.global_state \in {"DSTATE_START", "DSTATE_READY"}
      BY <1>1, <1>2, <2>1, <2>3
    <2>5. Early(d) => ~d.eoi_reached
      BY <2>1, <2>3
    <2> HIDE DEF d, r
    <2>6. d.error = "none" /\ ~d.eoi_reached
      BY <2>4, <2>5 DEF NextCall
    <2>7. CASE d.global_state = "DSTATE_READY"
      BY <2>4, <2>6, <2>7, CoefficientsAreStarted DEF NextCall
    <2>8. CASE d.global_state # "DSTATE_READY"
      <3>1. r = ConsumeInput(d, content)
        BY <2>4, <2>6, <2>8 DEF NextCall
      <3>2. d.global_state = "DSTATE_START"
        BY <2>4, <2>6, <2>8, <3>1, InputIsConsumed DEF Advances
      <3> QED BY <2>4, <2>6, <3>1, <3>2, HeaderIsNotTheEnd
    <2> QED BY <2>7, <2>8
  <1>5. Early(R(n)) => ~R(n).eoi_reached
    BY <1>4
  <1> QED BY <1>5 DEF R

\* From the end of the header on the image stays the same.
LEMMA ImageStaysTheSame ==
  ASSUME NEW name, NEW content, IsStream(content), NEW i \in Nat, NEW n \in Nat, i < n,
         Reading(name, content, i).error = "none",
         Reading(name, content, i).global_state = "DSTATE_READY",
         Reading(name, content, n).error = "none"
  PROVE  /\ Reading(name, content, n).global_state = "DSTATE_RDCOEFS"
         /\ SameImage(Reading(name, content, i), Reading(name, content, n))
         /\ NoTableAhead(Reading(name, content, i), content) =>
              StillUses(Reading(name, content, i), Reading(name, content, n))
  <1> DEFINE R(k) == Reading(name, content, k)
             ahead == NoTableAhead(R(i), content)
             Good(d) == /\ SameImage(R(i), d)
                        /\ ahead => StillUses(R(i), d) /\ NoTableAhead(d, content)
             S == {k \in Nat : /\ i < k /\ R(k).error = "none"
                               /\ ~(R(k).global_state = "DSTATE_RDCOEFS" /\ Good(R(k)))}
  <1>1. \A k \in Nat : R(k + 1) = NextCall(R(k), content)
    BY ReadingStepByStep
  <1>2. \A k \in Nat : IsDecompress(R(k))
    BY ReadingIsAnObject
  <1>3. R(i).error = "none" /\ R(i).global_state = "DSTATE_READY" /\ ~R(i).eoi_reached
    BY NotYetTheEnd
  <1> HIDE DEF R
  <1>4. Good(R(i))
    BY ComponentsStay
  <1> HIDE DEF ahead, Good
  <1>5. ASSUME S # {} PROVE FALSE
    <2>1. PICK k \in S : \A j \in S : k <= j
      BY <1>5, LeastNumber
    <2>2. k \in Nat /\ i < k /\ R(k).error = "none"
      BY <2>1
    <2>3. k - 1 \in Nat /\ ~(k <= k - 1) /\ (k - 1) + 1 = k /\ (i = k - 1 \/ i < k - 1)
      BY <2>2
    <2> DEFINE d == R(k - 1)
               r == R(k)
    <2>4. r = NextCall(d, content) /\ IsDecompress(d) /\ r.error = "none"
      BY <1>1, <1>2, <2>2, <2>3
    <2>5. d.error = "none" => Good(d) /\ d.global_state \in {"DSTATE_READY", "DSTATE_RDCOEFS"}
                                 /\ (d.global_state = "DSTATE_READY" => ~d.eoi_reached)
      <3>1. CASE i = k - 1
        BY <1>3, <1>4, <3>1
      <3>2. CASE i < k - 1
        <4>1. k - 1 \notin S
          BY <2>1, <2>3
        <4> QED BY <2>3, <3>2, <4>1
      <3> QED BY <2>3, <3>1, <3>2
    <2>6. ~(r.global_state = "DSTATE_RDCOEFS" /\ Good(r))
      BY <2>1
    <2> HIDE DEF d, r
    <2>7. d.error = "none"
      BY <2>4 DEF NextCall
    <2>8. CASE d.eoi_reached
      <3>1. r = d
        BY <2>4, <2>8 DEF NextCall
      <3> QED BY <2>5, <2>6, <2>7, <2>8, <3>1
    <2>9. CASE ~d.eoi_reached
      <3>1. /\ SameImage(d, r) /\ r.global_state = "DSTATE_RDCOEFS"
            /\ NoTableAhead(d, content) => StillUses(d, r) /\ NoTableAhead(r, content)
        BY <2>4, <2>5, <2>7, <2>9, CallKeepsTheImage
      <3>2. Good(r)
        BY <2>5, <2>7, <3>1, ImageStaysOn DEF Good
      <3> QED BY <2>6, <3>1, <3>2
    <2> QED BY <2>8, <2>9
  <1>6. R(n).global_state = "DSTATE_RDCOEFS" /\ Good(R(n))
    <2>1. R(n).error = "none"
      BY DEF R
    <2> QED BY <1>5, <2>1
  <1> QED BY <1>6 DEF R, Good, ahead

\* Behind the header, and behind all of the image.
IsReady(d) == d.error = "none" /\ d.global_state = "DSTATE_READY"
IsAtTheEnd(d) == d.error = "none" /\ d.eoi_reached

\* All readings of a file have the same header and the same end.
LEMMA ReadingsAgree ==
  ASSUME NEW name, NEW content, IsStream(content), NEW i \in Nat, NEW j \in Nat
  PROVE  /\ IsReady(Reading(name, content, i)) /\ IsReady(Reading(name, content, j))
              => Reading(name, content, i) = Reading(name, content, j)
         /\ IsAtTheEnd(Reading(name, content, i)) /\ IsAtTheEnd(Reading(name, content, j))
              => Reading(name, content, i) = Reading(name, content, j)
         /\ IsReady(Reading(name, content, i)) /\ IsAtTheEnd(Reading(name, content, j)) =>
              /\ SameImage(Reading(name, content, i), Reading(name, content, j))
              /\ NoTableAhead(Reading(name, content, i), content) =>
                   StillUses(Reading(name, content, i), Reading(name, content, j))
  <1> DEFINE R(k) == Reading(name, content, k)
  <1>1. ASSUME NEW k \in Nat, NEW m \in Nat, k < m, IsReady(R(k)), R(m).error = "none"
        PROVE  /\ R(m).global_state = "DSTATE_RDCOEFS" /\ SameImage(R(k), R(m))
               /\ NoTableAhead(R(k), content) => StillUses(R(k), R(m))
    BY <1>1, ImageStaysTheSame DEF IsReady
  <1>2. ASSUME NEW k \in Nat, NEW m \in Nat, k <= m, IsAtTheEnd(R(k))
        PROVE  R(m) = R(k)
    BY <1>2, ReadingEnds DEF IsAtTheEnd
  <1>3. ASSUME NEW k \in Nat, IsReady(R(k)), IsAtTheEnd(R(k))
        PROVE  FALSE
    BY <1>3, NotYetTheEnd DEF IsReady, IsAtTheEnd
  <1> HIDE DEF R
  <1>4. IsReady(R(i)) /\ IsReady(R(j)) => R(i) = R(j)
    <2> SUFFICES ASSUME IsReady(R(i)), IsReady(R(j)) PROVE R(i) = R(j)
      OBVIOUS
    <2>1. R(i).error = "none" /\ R(j).error = "none"
          /\ R(i).global_state # "DSTATE_RDCOEFS" /\ R(j).global_state # "DSTATE_RDCOEFS"
      BY DEF IsReady
    <2>2. ~(i < j) /\ ~(j < i)
      BY <1>1, <2>1
    <2>3. i = j
      BY <2>2
    <2> QED BY <2>3
  <1>5. IsAtTheEnd(R(i)) /\ IsAtTheEnd(R(j)) => R(i) = R(j)
    <2>1. i <= j \/ j <= i
      OBVIOUS
    <2> QED BY <1>2, <2>1
  <1>6. ASSUME IsReady(R(i)), IsAtTheEnd(R(j))
        PROVE  i < j
    <2>1. ASSUME j <= i PROVE FALSE
      <3>1. R(i) = R(j)
        BY <1>2, <1>6, <2>1
      <3> QED BY <1>3, <1>6, <3>1
    <2> QED BY <2>1
  <1>7. IsReady(R(i)) /\ IsAtTheEnd(R(j)) =>
              /\ SameImage(R(i), R(j)) /\ (NoTableAhead(R(i), content) => StillUses(R(i), R(j)))
    <2> SUFFICES ASSUME IsReady(R(i)), IsAtTheEnd(R(j))
                 PROVE  SameImage(R(i), R(j)) /\ (NoTableAhead(R(i), content) => StillUses(R(i), R(j)))
      OBVIOUS
    <2>1. i < j /\ R(j).error = "none"
      BY <1>6 DEF IsAtTheEnd
    <2> QED BY <1>1, <2>1
  <1> QED BY <1>4, <1>5, <1>7 DEF R

-----------------------------------------------------------------------------
(* The writer puts the image together.                                     *)

\* What it puts into the file depends on these.
SameSettings(c, e) == SameParameters(c, e) /\ e.write_JFIF_header = c.write_JFIF_header

\* Nothing else matters to the units.
LEMMA SettingsAreEnough ==
  ASSUME NEW c, NEW e, SameSettings(c, e)
  PROVE  /\ FileHeader(e) = FileHeader(c) /\ emit_dqt(e) = emit_dqt(c) /\ emit_sof(e) = emit_sof(c)
         /\ emit_dht(e) = emit_dht(c) /\ emit_sos(e) = emit_sos(c)
         /\ \A arrays, r : WrittenRow(e, arrays, r) = WrittenRow(c, arrays, r)
         /\ InOneScan(e) <=> InOneScan(c)
  <1>1. /\ e.restart_interval = c.restart_interval /\ e.Adobe_transform = c.Adobe_transform
        /\ e.quant_tbl_ptrs = c.quant_tbl_ptrs /\ e.huff_tbl_ptrs = c.huff_tbl_ptrs
        /\ e.comp_info = c.comp_info /\ e.write_JFIF_header = c.write_JFIF_header
    BY DEF SameSettings, SameParameters
  <1>2. FileHeader(e) = FileHeader(c)
    BY <1>1 DEF FileHeader, emit_jfif_app0, emit_adobe_app14
  <1>3. emit_dqt(e) = emit_dqt(c) /\ emit_sof(e) = emit_sof(c)
    BY <1>1 DEF emit_dqt, emit_sof
  <1>4. emit_dht(e) = emit_dht(c) /\ emit_sos(e) = emit_sos(c)
    BY <1>1 DEF emit_dht, emit_sos
  <1>5. \A arrays, r : WrittenRow(e, arrays, r) = WrittenRow(c, arrays, r)
    BY <1>1 DEF WrittenRow, WriterCode
  <1>6. InOneScan(e) <=> InOneScan(c)
    BY <1>1 DEF InOneScan
  <1> QED BY <1>2, <1>3, <1>4, <1>5, <1>6

\* From place to place.
LEMMA PartsOfTheImage ==
  ASSUME NEW c, IsCompress(c), NEW arrays
  PROVE  /\ FileHeader(c) = [i \in 1 .. HeaderEnd(c) |-> UnitAt(c, arrays, i)]
         /\ emit_dqt(c) \o emit_sof(c) =
              [i \in 1 .. FrameAt(c) - HeaderEnd(c) |-> UnitAt(c, arrays, HeaderEnd(c) + i)]
         /\ emit_dht(c) \o emit_sos(c) =
              [i \in 1 .. ScanAt(c) - FrameAt(c) |-> UnitAt(c, arrays, FrameAt(c) + i)]
         /\ \A r \in Rows : UnitAt(c, arrays, ScanAt(c) + r) = WrittenRow(c, arrays, r)
         /\ UnitAt(c, arrays, ImageEnd(c)) = EOI
  <1> DEFINE h == HeaderEnd(c)
             f == FrameAt(c)
             s == ScanAt(c)
             e == ImageEnd(c)
             q == Len(emit_dqt(c))
             t == Len(emit_dht(c))
             sof == emit_sof(c)
             sos == emit_sos(c)
  <1>1. /\ h \in Nat /\ f \in Nat /\ s \in Nat /\ e \in Nat /\ 1 <= h /\ h < f /\ f < s
        /\ NoOfRows \in Nat \ {0} /\ e = s + NoOfRows + 1
        /\ q \in Nat /\ f = h + q + 1
        /\ t \in Nat /\ s = f + t + 1
    BY PlacesOfTheImage
  <1>2. \A i : UnitAt(c, arrays, i) =
          IF i <= h THEN FileHeader(c)[i]
          ELSE IF i < f THEN emit_dqt(c)[i - h]
          ELSE IF i = f THEN emit_sof(c)[1]
          ELSE IF i < s THEN emit_dht(c)[i - f]
          ELSE IF i = s THEN emit_sos(c)[1]
          ELSE IF i <= s + NoOfRows THEN WrittenRow(c, arrays, i - s)
          ELSE EOI
    BY Zenon DEF UnitAt
  <1>3. FileHeader(c) = [i \in 1 .. h |-> FileHeader(c)[i]]
    BY UnitsOfTheFileHeader
  <1>4. emit_dqt(c) = [i \in 1 .. q |-> emit_dqt(c)[i]] /\ emit_dht(c) = [i \in 1 .. t |-> emit_dht(c)[i]]
    BY DQTIsWritten, DHTIsWritten, SequenceIsOnAnInterval DEF IsStream
  <1>5. sof = [i \in 1 .. 1 |-> sof[i]] /\ sos = [i \in 1 .. 1 |-> sos[i]]
    BY DEF emit_sof, emit_sos
  <1> HIDE DEF h, f, s, e, q, t, sof, sos
  <1>6. FileHeader(c) = [i \in 1 .. h |-> UnitAt(c, arrays, i)]
    <2>1. \A i \in 1 .. h : UnitAt(c, arrays, i) = FileHeader(c)[i]
      BY <1>1, <1>2
    <2> QED BY <1>3, <2>1
  <1>7. emit_dqt(c) \o sof = [i \in 1 .. f - h |-> UnitAt(c, arrays, h + i)]
    <2> DEFINE dqt == emit_dqt(c)
    <2>1. dqt = [i \in 1 .. q |-> dqt[i]] /\ 1 \in Nat /\ q \in Nat
      BY <1>1, <1>4
    <2> HIDE DEF dqt
    <2>2. dqt \o sof = [i \in 1 .. q + 1 |-> IF i <= q THEN dqt[i] ELSE sof[i - q]]
      BY <1>5, <2>1, Joined
    <2>3. f - h = q + 1
      BY <1>1
    <2>4. ASSUME NEW i \in 1 .. q + 1
          PROVE  UnitAt(c, arrays, h + i) = IF i <= q THEN dqt[i] ELSE sof[i - q]
      <3>1. CASE i <= q
        <4>1. ~(h + i <= h) /\ h + i < f /\ (h + i) - h = i
          BY <1>1, <3>1
        <4> QED BY <1>2, <3>1, <4>1 DEF dqt
      <3>2. CASE ~(i <= q)
        <4>1. ~(h + i <= h) /\ ~(h + i < f) /\ h + i = f /\ i - q = 1
          BY <1>1, <3>2
        <4> QED BY <1>2, <3>2, <4>1 DEF sof
      <3> QED BY <3>1, <3>2
    <2> QED BY <2>2, <2>3, <2>4 DEF dqt
  <1>8. emit_dht(c) \o sos = [i \in 1 .. s - f |-> UnitAt(c, arrays, f + i)]
    <2> DEFINE dht == emit_dht(c)
    <2>1. dht = [i \in 1 .. t |-> dht[i]] /\ 1 \in Nat /\ t \in Nat
      BY <1>1, <1>4
    <2> HIDE DEF dht
    <2>2. dht \o sos = [i \in 1 .. t + 1 |-> IF i <= t THEN dht[i] ELSE sos[i - t]]
      BY <1>5, <2>1, Joined
    <2>3. s - f = t + 1
      BY <1>1
    <2>4. ASSUME NEW i \in 1 .. t + 1
          PROVE  UnitAt(c, arrays, f + i) = IF i <= t THEN dht[i] ELSE sos[i - t]
      <3>1. CASE i <= t
        <4>1. ~(f + i <= h) /\ ~(f + i < f) /\ f + i # f /\ f + i < s /\ (f + i) - f = i
          BY <1>1, <3>1
        <4> QED BY <1>2, <3>1, <4>1 DEF dht
      <3>2. CASE ~(i <= t)
        <4>1. ~(f + i <= h) /\ ~(f + i < f) /\ f + i # f /\ ~(f + i < s) /\ f + i = s /\ i - t = 1
          BY <1>1, <3>2
        <4> QED BY <1>2, <3>2, <4>1 DEF sos
      <3> QED BY <3>1, <3>2
    <2> QED BY <2>2, <2>3, <2>4 DEF dht
  <1>9. /\ \A r \in Rows : UnitAt(c, arrays, s + r) = WrittenRow(c, arrays, r)
        /\ UnitAt(c, arrays, e) = EOI
    BY UnitsOfTheImage DEF s, e
  <1> QED BY <1>6, <1>7, <1>8, <1>9 DEF h, f, s, e, sof, sos

\* Units are put behind those in the buffer.
LEMMA PutBehind ==
  ASSUME NEW c, IsCompress(c), NEW units, NEW e, e = Put(c, units)
  PROVE  /\ SameSettings(c, e) /\ e.buffer = c.buffer \o units /\ e.error = c.error
         /\ e.is_last_pass = c.is_last_pass /\ e.iMCU_row_num = c.iMCU_row_num
  BY FieldsOfAWriter DEF Put, SameSettings, SameParameters

\* The header of the file is put into the buffer first.
LEMMA FileHeaderIsPut ==
  ASSUME NEW c, IsCompress(c), c.global_state = "CSTATE_START", NEW e, e = jpeg_write_coefficients(c)
  PROVE  /\ SameSettings(c, e) /\ e.buffer = c.buffer \o FileHeader(c)
         /\ e.is_last_pass = c.is_last_pass
  <1> DEFINE h == write_file_header(c)
             units == <<SOI>> \o emit_jfif_app0(c) \o emit_adobe_app14(c)
  <1>1. e = [h EXCEPT !.global_state = "CSTATE_WRCOEFS"]
    BY DEF jpeg_write_coefficients, transencode_master_selection
  <1>2. h = Put(c, units) /\ units = FileHeader(c) /\ IsCompress(h)
    BY FileHeaderIsWritten DEF write_file_header, FileHeader
  <1> HIDE DEF h, units
  <1>3. SameSettings(c, h) /\ h.buffer = c.buffer \o units /\ h.is_last_pass = c.is_last_pass
    BY <1>2, PutBehind
  <1>4. SameSettings(h, e) /\ e.buffer = h.buffer /\ e.is_last_pass = h.is_last_pass
    BY <1>1, <1>2, FieldsOfAWriter DEF SameSettings, SameParameters
  <1> QED BY <1>2, <1>3, <1>4 DEF SameSettings, SameParameters

\* The headers of the frame and of the one scan follow, if there can be one.
LEMMA HeadersArePut ==
  ASSUME NEW c, IsCompress(c), c.error = "none", c.restart_interval = 0,
         NEW e, e = prepare_for_pass(c), e.error = "none"
  PROVE  /\ SameSettings(c, e) /\ InOneScan(c) /\ e.is_last_pass /\ e.iMCU_row_num = 0
         /\ e.buffer = (c.buffer \o (emit_dqt(c) \o emit_sof(c))) \o (emit_dht(c) \o emit_sos(c))
  <1> DEFINE f == write_frame_header(c)
             h == write_scan_header(f)
             x == [h EXCEPT !.iMCU_row_num = 0, !.is_last_pass = TRUE]
             dri == IF f.restart_interval # 0 THEN emit_dri(f) ELSE << >>
             fits == FitsMCU(c.comp_info, [ci \in DOMAIN c.comp_info |-> ci])
  <1>1. e = IF Len(c.comp_info) > MAX_COMPS_IN_SCAN THEN Failed(c, "JERR_COMPONENT_COUNT")
            ELSE IF ~fits THEN Failed(c, "JERR_BAD_MCU_SIZE") ELSE x
    BY Zenon DEF prepare_for_pass
  <1>2. f = Put(c, emit_dqt(c) \o emit_sof(c)) /\ IsCompress(f)
    BY FrameHeaderIsWritten DEF write_frame_header
  <1> HIDE DEF f
  <1>3. h = Put(f, emit_dht(f) \o dri \o emit_sos(f)) /\ IsCompress(h)
    BY <1>2, ScanHeaderIsWritten DEF write_scan_header
  <1> HIDE DEF h, dri, fits
  <1>4. SameSettings(c, f) /\ f.buffer = c.buffer \o (emit_dqt(c) \o emit_sof(c))
    BY ZenonT(60), <1>2, PutBehind
  <1>5. SameSettings(f, h) /\ h.buffer = f.buffer \o (emit_dht(f) \o dri \o emit_sos(f))
    <2> DEFINE units == emit_dht(f) \o dri \o emit_sos(f)
    <2>1. h = Put(f, units)
      BY <1>3
    <2> HIDE DEF units
    <2>2. SameSettings(f, h) /\ h.buffer = f.buffer \o units
      BY <1>2, <2>1, PutBehind
    <2> QED BY <2>2 DEF units
  <1>6. emit_dht(f) = emit_dht(c) /\ emit_sos(f) = emit_sos(c)
    BY <1>4, SettingsAreEnough
  <1>7. emit_dht(c) \o dri = emit_dht(c)
    <2>1. dri = << >>
      BY <1>4 DEF dri, SameSettings, SameParameters
    <2>2. emit_dht(c) \in Seq({emit_dht(c)[i] : i \in DOMAIN emit_dht(c)})
      BY DHTIsWritten DEF IsStream, IsASequence
    <2> QED BY <2>1, <2>2, ConcatEmptySeq
  <1>8. h.buffer = (c.buffer \o (emit_dqt(c) \o emit_sof(c))) \o (emit_dht(c) \o emit_sos(c))
    BY <1>4, <1>5, <1>6, <1>7
  <1>9. SameSettings(h, x) /\ x.buffer = h.buffer /\ x.is_last_pass = TRUE /\ x.iMCU_row_num = 0
    BY <1>3, FieldsOfAWriter DEF SameSettings, SameParameters
  <1> HIDE DEF x
  <1>10. Len(c.comp_info) <= MAX_COMPS_IN_SCAN /\ fits /\ e = x
    <2>1. Failed(c, "JERR_COMPONENT_COUNT").error # "none" /\ Failed(c, "JERR_BAD_MCU_SIZE").error # "none"
      BY FailedIsAWriter DEF WriteErrors
    <2>2. ~(Len(c.comp_info) > MAX_COMPS_IN_SCAN) /\ fits
      BY <1>1, <2>1
    <2>3. Len(c.comp_info) \in Nat /\ MAX_COMPS_IN_SCAN \in Nat
      BY WrittenComponents, JobsAssumption
    <2> QED BY <1>1, <2>2, <2>3
  <1>11. InOneScan(c)
    BY <1>10 DEF InOneScan, fits
  <1> QED BY <1>4, <1>5, <1>8, <1>9, <1>10, <1>11 DEF SameSettings, SameParameters

\* Row by row.
LEMMA RowIsPut ==
  ASSUME NEW c, IsCompress(c), c.error = "none", NEW arrays,
         NEW e, e = compress_output(c, arrays, TooLarge), e.error = "none"
  PROVE  /\ SameSettings(c, e) /\ e.is_last_pass = c.is_last_pass
         /\ e.iMCU_row_num = c.iMCU_row_num + 1
         /\ e.buffer = c.buffer \o <<WrittenRow(c, arrays, c.iMCU_row_num + 1)>>
  <1> DEFINE row == c.iMCU_row_num + 1
             contents == [ci \in DOMAIN c.comp_info |-> arrays[ci][row]]
             u == ROW(contents, WriterCode(c))
             p == Put(c, <<u>>)
             x == [p EXCEPT !.iMCU_row_num = row]
  <1>1. e = IF \E ci \in DOMAIN contents : TooLarge(contents[ci]) THEN Failed(c, "JERR_BAD_DCT_COEF")
            ELSE x
    BY Zenon DEF compress_output, WriterCode
  <1>2. u = WrittenRow(c, arrays, row)
    BY DEF WrittenRow
  <1> HIDE DEF u, contents, row
  <1>3. /\ SameSettings(c, p) /\ p.buffer = c.buffer \o <<u>> /\ p.is_last_pass = c.is_last_pass
        /\ DOMAIN p = DOMAIN c
    <2>1. DOMAIN p = DOMAIN c
      BY FieldsOfAWriter DEF Put
    <2> QED BY ZenonT(60), <2>1, PutBehind
  <1> HIDE DEF p
  <1>4. SameSettings(p, x) /\ x.buffer = p.buffer /\ x.is_last_pass = p.is_last_pass /\ x.iMCU_row_num = row
    BY <1>3, FieldsOfAWriter DEF SameSettings, SameParameters
  <1> HIDE DEF x
  <1>5. Failed(c, "JERR_BAD_DCT_COEF").error # "none"
    BY FailedIsAWriter DEF WriteErrors
  <1>6. e = x
    BY <1>1, <1>5
  <1>7. SameSettings(c, e)
    BY <1>3, <1>4, <1>6 DEF SameSettings, SameParameters
  <1> QED BY <1>2, <1>3, <1>4, <1>6, <1>7 DEF row

\* Of the first m units of the image, n are in the file and the others in the
\* buffer.
Sent(c, arrays, m, n, file, buffer) ==
  /\ n \in 0 .. m /\ file = Beginning(c, arrays, n)
  /\ buffer = [j \in 1 .. m - n |-> UnitAt(c, arrays, n + j)]

\* The next units are put into the buffer.
LEMMA MoreIsPut ==
  ASSUME NEW c, NEW arrays, NEW m \in Nat, NEW n, NEW file, NEW buffer, Sent(c, arrays, m, n, file, buffer),
         NEW k \in Nat, NEW units, units = [i \in 1 .. k |-> UnitAt(c, arrays, m + i)]
  PROVE  m + k \in Nat /\ Sent(c, arrays, m + k, n, file, buffer \o units)
  <1> DEFINE l == m - n
             whole == [j \in 1 .. l + k |-> UnitAt(c, arrays, n + j)]
  <1>1. n \in Nat /\ l \in Nat /\ n + l = m /\ (m + k) - n = l + k /\ n \in 0 .. m + k /\ m + k \in Nat
    BY DEF Sent
  <1>2. buffer = [j \in 1 .. l |-> UnitAt(c, arrays, n + j)] /\ file = Beginning(c, arrays, n)
    BY DEF Sent
  <1> HIDE DEF l
  <1>3. buffer = [j \in 1 .. l |-> buffer[j]] /\ units = [i \in 1 .. k |-> units[i]]
    BY <1>2
  <1>4. buffer \o units = [j \in 1 .. l + k |-> IF j <= l THEN buffer[j] ELSE units[j - l]]
    <2>1. l \in Nat
      BY <1>1
    <2> HIDE DEF whole
    <2> QED BY SMTT(30), <1>3, <2>1, Joined
  <1>5. ASSUME NEW j \in 1 .. l + k
        PROVE  (IF j <= l THEN buffer[j] ELSE units[j - l]) = UnitAt(c, arrays, n + j)
    <2>1. CASE j <= l
      <3>1. j \in 1 .. l
        BY <1>1, <2>1
      <3> QED BY <1>2, <2>1, <3>1
    <2>2. CASE ~(j <= l)
      <3>1. j - l \in 1 .. k /\ m + (j - l) = n + j
        BY <1>1, <2>2
      <3>2. units[j - l] = UnitAt(c, arrays, m + (j - l))
        BY <3>1
      <3> QED BY <2>2, <3>1, <3>2
    <2> QED BY <2>1, <2>2
  <1>6. buffer \o units = whole
    BY <1>4, <1>5
  <1> QED BY <1>1, <1>2, <1>6 DEF Sent

\* Some of the buffer is written into the file.
LEMMA MoreIsSent ==
  ASSUME NEW c, NEW arrays, NEW m \in Nat, NEW n, NEW file, NEW buffer, Sent(c, arrays, m, n, file, buffer),
         NEW size \in Nat, size <= Len(buffer)
  PROVE  /\ n + size \in Nat /\ (size = Len(buffer) => n + size = m)
         /\ Sent(c, arrays, m, n + size, file \o SubSeq(buffer, 1, size),
                 SubSeq(buffer, size + 1, Len(buffer)))
  <1> DEFINE l == m - n
             sent == SubSeq(buffer, 1, size)
             left == SubSeq(buffer, size + 1, Len(buffer))
  <1>1. n \in Nat /\ l \in Nat /\ n + l = m
    BY DEF Sent
  <1>2. buffer = [j \in 1 .. l |-> UnitAt(c, arrays, n + j)]
    BY DEF Sent
  <1>3. file = [j \in 1 .. n |-> UnitAt(c, arrays, j)]
    BY DEF Sent, Beginning
  <1> HIDE DEF l
  <1>4. Len(buffer) = l /\ IsASequence(buffer)
    <2>1. buffer = [j \in 1 .. l |-> buffer[j]]
      BY <1>2
    <2> QED BY <1>1, <2>1, OnAnInterval
  <1>5. size <= l /\ n + size \in 0 .. m /\ n + size \in Nat /\ (size = l => n + size = m)
        /\ m - (n + size) = l - size /\ l - size \in Nat
    BY <1>1, <1>4
  <1>6. sent = [j \in 1 .. size |-> UnitAt(c, arrays, n + j)]
    <2>1. sent = [j \in 1 .. size |-> buffer[j]]
      BY <1>1, <1>4, <1>5
    <2>2. \A j \in 1 .. size : j \in 1 .. l
      BY <1>1, <1>5
    <2> QED BY <1>2, <2>1, <2>2
  <1>7. left = [j \in 1 .. l - size |-> UnitAt(c, arrays, (n + size) + j)]
    <2>1. left = [j \in 1 .. l - size |-> buffer[size + j]]
      BY <1>1, <1>4, <1>5
    <2>2. \A j \in 1 .. l - size : size + j \in 1 .. l /\ n + (size + j) = (n + size) + j
      BY <1>1, <1>5
    <2> QED BY <1>2, <2>1, <2>2
  <1>8. file \o sent = [j \in 1 .. n + size |-> UnitAt(c, arrays, j)]
    <2>1. file = [j \in 1 .. n |-> file[j]] /\ sent = [j \in 1 .. size |-> sent[j]]
      BY <1>3, <1>6
    <2> HIDE DEF sent
    <2>2. file \o sent = [j \in 1 .. n + size |-> IF j <= n THEN file[j] ELSE sent[j - n]]
      BY SMTT(30), <1>1, <2>1, Joined
    <2>3. ASSUME NEW j \in 1 .. n + size
          PROVE  (IF j <= n THEN file[j] ELSE sent[j - n]) = UnitAt(c, arrays, j)
      <3>1. CASE j <= n
        <4>1. j \in 1 .. n
          BY <1>1, <3>1
        <4> QED BY <1>3, <3>1, <4>1
      <3>2. CASE ~(j <= n)
        <4>1. j - n \in 1 .. size /\ n + (j - n) = j
          BY <1>1, <3>2
        <4>2. sent[j - n] = UnitAt(c, arrays, n + (j - n))
          BY <1>6, <4>1
        <4> QED BY <3>2, <4>1, <4>2
      <3> QED BY <3>1, <3>2
    <2> QED BY <2>2, <2>3
  <1> HIDE DEF sent, left
  <1>9. Sent(c, arrays, m, n + size, file \o sent, left)
    BY <1>5, <1>7, <1>8 DEF Sent, Beginning
  <1> QED BY <1>4, <1>5, <1>9 DEF sent, left

-----------------------------------------------------------------------------
(* The encoder reads the cover as it is, four times over.                  *)
CoverReading(j, n) == Reading(j.cover, j.files[j.cover], n)
Stopped(d) == [d EXCEPT !.global_state = "DSTATE_STOPPING"]

Begun(j, d) ==
  /\ ~d.eoi_reached /\ d.global_state # "DSTATE_STOPPING"
  /\ \E n \in Nat : d = CoverReading(j, n)
AtItsEnd(j, d) ==
  \E n \in Nat : /\ IsAtTheEnd(CoverReading(j, n)) /\ CoverReading(j, n).global_state = "DSTATE_RDCOEFS"
                 /\ d = Stopped(CoverReading(j, n))
HeaderHas(j, tables) ==
  \E n \in Nat : IsReady(CoverReading(j, n)) /\ tables = CoverReading(j, n).quant_tbl_ptrs

\* What the encoder has open, and what it has read so far.
Opening == pc["encode"] \in {"header", "coefficients"}
CoverIsOpen ==
  Opening => Begun(job, dec["encode"]) \/ AtItsEnd(job, dec["encode"])
CoverIsRead ==
  purpose["encode"] # "read" =>
    AtItsEnd(job, seen["encode"]) /\ collection["encode"] = seen["encode"].coef_arrays[1]
TablesAreKnown ==
  /\ purpose["encode"] \in {"reduced", "write"} => HeaderHas(job, full)
  /\ pc["encode"] = "derive" \/ purpose["encode"] = "write" => reduced[0] # NoTable \/ reduced = full
  /\ purpose["encode"] = "write" => full[0] # NoTable
CoverKnown ==
  /\ DOMAIN seen = Processes
  /\ Opening \/ purpose["encode"] # "read" => job.cover \in DOMAIN job.files
  /\ CoverIsOpen /\ CoverIsRead /\ TablesAreKnown

Alive == pc["encode"] \notin {"aborted", "exited", "crashed", "refused"}

\* Nobody writes the cover.
LEMMA CoverStays ==
  ASSUME CommandsOK, OnlyTheStegoImageChanges, DistinctNames, job.cover \in DOMAIN files
  PROVE  /\ job.cover \in DOMAIN job.files /\ files[job.cover] = job.files[job.cover]
         /\ IsStream(job.files[job.cover])
  <1>1. job.cover \in DOMAIN job.files
    BY DEF CommandsOK, FilesOK, DistinctNames
  <1>2. files[job.cover] = job.files[job.cover]
    BY <1>1 DEF OnlyTheStegoImageChanges, DistinctNames
  <1>3. IsStream(files[job.cover])
    BY DEF CommandsOK, FilesOK
  <1> QED BY <1>1, <1>2, <1>3

\* Once there, it is always there.
LEMMA CoverIsThere ==
  ASSUME CommandsOK, job.cover \in DOMAIN job.files
  PROVE  job.cover \in DOMAIN files
  BY DEF CommandsOK, FilesOK

\* The encoder makes the next call.
LEMMA NextCallOnTheCover ==
  ASSUME NEW j, IsStream(j.files[j.cover]), NEW d, Begun(j, d), IsDecompress(d), d.error = "none",
         NEW e, e = NextCall(d, j.files[j.cover])
  PROVE  /\ \E n \in Nat : e = CoverReading(j, n)
         /\ e.error = "none" => \/ Begun(j, e)
                                \/ /\ d.global_state = "DSTATE_RDCOEFS" /\ e.eoi_reached
                                   /\ AtItsEnd(j, Stopped(e))
  <1>1. PICK n \in Nat : d = CoverReading(j, n)
    BY DEF Begun
  <1>2. n + 1 \in Nat /\ e = CoverReading(j, n + 1)
    <2>1. CoverReading(j, n + 1) = NextCall(CoverReading(j, n), j.files[j.cover])
      BY <1>1, ReadingStepByStep DEF CoverReading
    <2> QED BY <1>1, <2>1
  <1>3. ~d.eoi_reached /\ d.global_state # "DSTATE_STOPPING"
    BY DEF Begun
  <1>4. SUFFICES ASSUME e.error = "none"
                 PROVE  \/ Begun(j, e)
                        \/ /\ d.global_state = "DSTATE_RDCOEFS" /\ e.eoi_reached
                           /\ AtItsEnd(j, Stopped(e))
    BY <1>2
  <1>5. CASE d.global_state = "DSTATE_READY"
    <2>1. e = StartCoefficients(d)
      BY <1>3, <1>5 DEF NextCall
    <2>2. e.global_state = "DSTATE_RDCOEFS" /\ ~e.eoi_reached
      BY <1>3, <1>4, <1>5, <2>1, CoefficientsAreStarted DEF Keeps
    <2> QED BY <1>2, <2>2 DEF Begun
  <1>6. CASE d.global_state # "DSTATE_READY"
    <2>1. e = ConsumeInput(d, j.files[j.cover])
      BY <1>3, <1>6 DEF NextCall
    <2>2. Advances(d, e) /\ IsDecompress(e)
      BY <1>6, <2>1, InputIsConsumed
    <2>3. d.global_state \in {"DSTATE_START", "DSTATE_RDCOEFS"}
      BY <1>3, <1>6 DEF IsDecompress, StateOK
    <2>4. CASE d.global_state = "DSTATE_START"
      <3>1. ~e.eoi_reached
        BY <1>3, <1>4, <2>1, <2>4, HeaderIsNotTheEnd
      <3>2. e.global_state # "DSTATE_STOPPING"
        BY <2>2, <2>4 DEF Advances
      <3> QED BY <1>2, <3>1, <3>2 DEF Begun
    <2>5. CASE d.global_state = "DSTATE_RDCOEFS"
      <3>1. e.global_state = "DSTATE_RDCOEFS"
        BY <2>2, <2>5 DEF Advances
      <3>2. CASE ~e.eoi_reached
        BY <1>2, <3>1, <3>2 DEF Begun
      <3>3. CASE e.eoi_reached
        BY <1>2, <1>4, <2>5, <3>1, <3>3 DEF AtItsEnd, IsAtTheEnd
      <3> QED BY <3>2, <3>3
    <2> QED BY <2>3, <2>4, <2>5
  <1> QED BY <1>5, <1>6

\* What belongs to the encoder.
Encoders == <<job, purpose["encode"], pc["encode"], dec["encode"], comp, full, reduced,
              collection["encode"], seen["encode"]>>

\* The decoder leaves it alone.
LEMMA DecoderLeavesTheEncoder ==
  ASSUME CommandsOK, DOMAIN seen = Processes, Decode
  PROVE  UNCHANGED files /\ UNCHANGED Encoders /\ DOMAIN seen' = Processes
  <1>1. /\ DOMAIN pc = Processes /\ DOMAIN dec = Processes /\ Processes = {"encode", "decode"}
        /\ DOMAIN purpose = Processes /\ DOMAIN collection = Processes
    BY DEF CommandsOK, ProcessesOK, ReadersReady, RowsCollected, Processes
  <1>2. UNCHANGED <<job, files, comp, full, reduced>> /\ DOMAIN seen' = Processes
    BY DEF Decode, Start, DecompressionStarter, ReadHeader, StartReadCoefficients, ReadCoefficients,
           LoadDCT_Coefficients, Loaded, Retrieve
  <1>3. pc'["encode"] = pc["encode"] /\ dec'["encode"] = dec["encode"]
    BY <1>1 DEF Decode, Start, DecompressionStarter, ReadHeader, StartReadCoefficients, ReadCoefficients,
                LoadDCT_Coefficients, Loaded, Retrieve, Go, SetDec
  <1>4. /\ purpose'["encode"] = purpose["encode"] /\ collection'["encode"] = collection["encode"]
        /\ seen'["encode"] = seen["encode"]
    BY <1>1 DEF Decode, Start, DecompressionStarter, ReadHeader, StartReadCoefficients, ReadCoefficients,
                LoadDCT_Coefficients, Loaded, Retrieve
  <1> QED BY <1>2, <1>3, <1>4 DEF Encoders

\* And so it knows of the cover what it knew.
LEMMA CoverStaysKnown ==
  ASSUME CoverKnown, UNCHANGED Encoders, DOMAIN seen' = Processes
  PROVE  CoverKnown'
  <1>1. /\ job' = job /\ purpose'["encode"] = purpose["encode"] /\ pc'["encode"] = pc["encode"]
        /\ dec'["encode"] = dec["encode"] /\ full' = full /\ reduced' = reduced
        /\ collection'["encode"] = collection["encode"] /\ seen'["encode"] = seen["encode"]
    BY DEF Encoders
  <1> QED BY <1>1 DEF CoverKnown, Opening, CoverIsOpen, CoverIsRead, TablesAreKnown

\* Places and objects of the encoder, and nothing else, have changed.
LEMMA CoverGoesOn ==
  ASSUME CoverKnown, UNCHANGED <<job, full, reduced>>, DOMAIN seen' = Processes,
         purpose'["encode"] = purpose["encode"], collection'["encode"] = collection["encode"],
         seen'["encode"] = seen["encode"], pc'["encode"] = "derive" => pc["encode"] = "derive",
         Opening' => job.cover \in DOMAIN job.files
                     /\ (Begun(job, dec'["encode"]) \/ AtItsEnd(job, dec'["encode"]))
  PROVE  CoverKnown'
  BY DEF CoverKnown, CoverIsOpen, CoverIsRead, TablesAreKnown

\* The encoder reads the cover.
LEMMA CoverIsReadOn ==
  ASSUME CommandsOK, OnlyTheStegoImageChanges, DistinctNames, CoverKnown, NEW p, p = "encode",
         ReadHeader(p) \/ StartReadCoefficients(p) \/ ReadCoefficients(p)
  PROVE  CoverKnown'
  <1> DEFINE d == dec["encode"]
             content == job.files[job.cover]
             e == NextCall(d, content)
             stop == pc["encode"] = "coefficients" /\ d.global_state = "DSTATE_RDCOEFS" /\ e.eoi_reached
  <1>1. /\ UNCHANGED <<job, purpose, full, reduced, collection, seen>> /\ Opening
        /\ d.global_state # "DSTATE_STOPPING"
        /\ pc["encode"] = "header" => d.global_state # "DSTATE_RDCOEFS"
    BY DEF ReadHeader, StartReadCoefficients, ReadCoefficients, HeaderRead, Opening
  <1>2. job.cover \in DOMAIN job.files /\ Begun(job, d)
    <2>1. ~AtItsEnd(job, d)
      <3> SUFFICES ASSUME AtItsEnd(job, d) PROVE FALSE
        OBVIOUS
      <3>1. PICK n \in Nat : IsAtTheEnd(CoverReading(job, n)) /\ d = Stopped(CoverReading(job, n))
                             /\ CoverReading(job, n).global_state = "DSTATE_RDCOEFS"
        BY DEF AtItsEnd
      <3>2. IsStream(job.files[job.cover])
        BY <1>1, CoverIsThere, CoverStays DEF CoverKnown
      <3>3. IsDecompress(CoverReading(job, n))
        BY <3>2, ReadingIsAnObject DEF CoverReading
      <3>4. d.global_state = "DSTATE_STOPPING"
        BY <3>1, <3>3, StoppingIsAnObject DEF Stopped
      <3> QED BY <1>1, <3>4
    <2> QED BY <1>1, <2>1 DEF CoverKnown, CoverIsOpen
  <1>3. IsStream(content) /\ files[job.cover] = content
    BY <1>2, CoverIsThere, CoverStays
  <1>4. IsDecompress(d) /\ d.error = "none" /\ d.file = job.cover
    <2>1. PICK n \in Nat : d = CoverReading(job, n)
      BY <1>2 DEF Begun
    <2>2. IsDecompress(d) /\ d.file = job.cover
      BY <1>3, <2>1, ReadingIsAnObject DEF CoverReading
    <2> QED BY <1>1, <2>2, ObjectBeingRead DEF Opening, Processes
  <1>5. ~d.eoi_reached
    BY <1>2 DEF Begun
  <1>6. e.error = "none" => Begun(job, e) \/ (stop /\ AtItsEnd(job, Stopped(e)))
    <2>1. e.error = "none" => \/ Begun(job, e)
                              \/ /\ d.global_state = "DSTATE_RDCOEFS" /\ e.eoi_reached
                                 /\ AtItsEnd(job, Stopped(e))
      BY <1>2, <1>3, <1>4, NextCallOnTheCover
    <2>2. d.global_state = "DSTATE_RDCOEFS" => pc["encode"] = "coefficients"
      BY <1>1 DEF Opening
    <2> HIDE DEF e, d
    <2> QED BY <2>1, <2>2
  <1>7. "encode" \in DOMAIN pc /\ "encode" \in DOMAIN dec
    BY DEF CommandsOK, ProcessesOK, ReadersReady, Processes
  <1>8. /\ dec'["encode"] = IF stop THEN Stopped(e) ELSE e
        /\ e.error # "none" => pc'["encode"] = "exited"
        /\ pc'["encode"] # "derive"
    <2>1. CASE ReadHeader("encode")
      <3>1. pc["encode"] = "header" /\ d.global_state = "DSTATE_START"
        BY <2>1 DEF ReadHeader
      <3>2. e = ConsumeInput(d, files[d.file])
        BY <1>3, <1>4, <1>5, <3>1 DEF NextCall
      <3>3. dec'["encode"] = e /\ pc'["encode"] = IF e.error # "none" THEN "exited" ELSE "header"
        BY <1>7, <2>1, <3>2, Zenon DEF ReadHeader, SetDec, Go
      <3> HIDE DEF e, d
      <3> QED BY <3>1, <3>3
    <2>2. CASE StartReadCoefficients("encode")
      <3>1. d.global_state = "DSTATE_READY"
        BY <2>2 DEF StartReadCoefficients, HeaderRead
      <3>2. e = StartCoefficients(d)
        BY <1>4, <1>5, <3>1 DEF NextCall
      <3>3. dec'["encode"] = e /\ pc'["encode"] = IF e.error # "none" THEN "exited" ELSE "coefficients"
        BY <1>7, <2>2, <3>2, Zenon DEF StartReadCoefficients, SetDec, Go
      <3> HIDE DEF e, d
      <3> QED BY <3>1, <3>3
    <2>3. CASE ReadCoefficients("encode")
      <3>1. pc["encode"] = "coefficients" /\ d.global_state = "DSTATE_RDCOEFS"
        BY <2>3 DEF ReadCoefficients
      <3>2. e = ConsumeInput(d, files[d.file])
        BY <1>3, <1>4, <1>5, <3>1 DEF NextCall
      <3> DEFINE r == ConsumeInput(dec["encode"], files[dec["encode"].file])
                 x == IF r.eoi_reached THEN [r EXCEPT !.global_state = "DSTATE_STOPPING"] ELSE r
                 place == IF r.error # "none" THEN "exited" ELSE "coefficients"
      <3>3. dec' = [dec EXCEPT !["encode"] = x] /\ pc' = [pc EXCEPT !["encode"] = place]
        BY <2>3, Zenon DEF ReadCoefficients, SetDec, Go
      <3>4. e = r /\ x = IF r.eoi_reached THEN Stopped(r) ELSE r
        BY <3>2 DEF Stopped
      <3> HIDE DEF e, d, r, x
      <3>5. dec'["encode"] = x /\ pc'["encode"] = place
        BY <1>7, <3>3
      <3> QED BY <3>1, <3>4, <3>5
    <2> QED BY <2>1, <2>2, <2>3
  <1> HIDE DEF e, d, content, stop
  <1>9. Opening' => Begun(job, dec'["encode"]) \/ AtItsEnd(job, dec'["encode"])
    <2> SUFFICES ASSUME Opening' PROVE Begun(job, dec'["encode"]) \/ AtItsEnd(job, dec'["encode"])
      OBVIOUS
    <2>1. e.error = "none"
      BY <1>8 DEF Opening
    <2>2. CASE stop
      BY <1>6, <1>8, <2>1, <2>2 DEF stop, Begun
    <2>3. CASE ~stop
      BY <1>6, <1>8, <2>1, <2>3
    <2> QED BY <2>2, <2>3
  <1>10. DOMAIN seen' = Processes
    BY <1>1 DEF CoverKnown
  <1> QED BY <1>1, <1>2, <1>8, <1>9, <1>10, CoverGoesOn

\* An object whose image has ended is at the end of the cover, and one that has
\* read the header is at the end of that.
LEMMA WhatIsOpen ==
  ASSUME CommandsOK, OnlyTheStegoImageChanges, DistinctNames, CoverKnown, Opening
  PROVE  /\ job.cover \in DOMAIN job.files /\ IsStream(job.files[job.cover])
         /\ dec["encode"].global_state = "DSTATE_STOPPING" => AtItsEnd(job, dec["encode"])
         /\ dec["encode"].global_state = "DSTATE_READY" =>
              \E n \in Nat : dec["encode"] = CoverReading(job, n) /\ IsReady(CoverReading(job, n))
  <1>1. job.cover \in DOMAIN job.files /\ IsStream(job.files[job.cover])
    BY CoverIsThere, CoverStays DEF CoverKnown
  <1>2. Begun(job, dec["encode"]) \/ AtItsEnd(job, dec["encode"])
    BY DEF CoverKnown, CoverIsOpen
  <1>3. dec["encode"].global_state = "DSTATE_STOPPING" => AtItsEnd(job, dec["encode"])
    BY <1>2 DEF Begun
  <1>4. ASSUME AtItsEnd(job, dec["encode"])
        PROVE  dec["encode"].global_state = "DSTATE_STOPPING"
    <2>1. PICK n \in Nat : /\ dec["encode"] = Stopped(CoverReading(job, n))
                           /\ CoverReading(job, n).global_state = "DSTATE_RDCOEFS"
      BY <1>4 DEF AtItsEnd
    <2>2. IsDecompress(CoverReading(job, n))
      BY <1>1, ReadingIsAnObject DEF CoverReading
    <2> QED BY <2>1, <2>2, StoppingIsAnObject DEF Stopped
  <1>5. dec["encode"].error = "none"
    BY ObjectBeingRead DEF Opening, Processes
  <1>6. dec["encode"].global_state = "DSTATE_READY" =>
              \E n \in Nat : dec["encode"] = CoverReading(job, n) /\ IsReady(CoverReading(job, n))
    BY <1>2, <1>4, <1>5 DEF Begun, IsReady
  <1> QED BY <1>1, <1>3, <1>6

\* The tables of a quality are numbers that are not 0.
LEMMA TablesOfQuality ==
  ASSUME CommandsOK, AquireTablesOfQuality, Alive'
  PROVE  UNCHANGED <<job, purpose, full, collection, seen>> /\ pc'["encode"] = "derive" /\ reduced'[0] # NoTable
  <1> DEFINE c == jpeg_copy_critical_parameters(dec["encode"], CreateCompress(Temp))
             tables == jpeg_set_quality(c, job.quality, TRUE).quant_tbl_ptrs
  <1>1. UNCHANGED <<job, purpose, full, collection, seen>> /\ pc["encode"] = "header"
    BY DEF AquireTablesOfQuality, AquireTablesFrom, HeaderRead
  <1>2. \/ pc' = [pc EXCEPT !["encode"] = "aborted"] \/ pc' = [pc EXCEPT !["encode"] = "exited"]
        \/ reduced' = tables /\ pc' = [pc EXCEPT !["encode"] = "derive"]
    BY Zenon DEF AquireTablesOfQuality, AquireTablesFrom, Go, SetDec
  <1>3. reduced' = tables /\ pc'["encode"] = "derive"
    <2>1. "encode" \in DOMAIN pc
      BY DEF CommandsOK, ProcessesOK, Processes
    <2> HIDE DEF tables
    <2> QED BY <1>2, <2>1 DEF Alive
  <1>4. IsCompress(c)
    <2>1. IsDecompress(dec["encode"])
      BY <1>1, ObjectBeingRead DEF Processes
    <2> QED BY <2>1, WriterIsCreated, ParametersAreCopied
  <1>5. job.quality \in Int
    <2>1. \A j \in Jobs : j.quality \in Int
      BY JobsAssumption, Zenon
    <2> QED BY <2>1 DEF CommandsOK, FilesOK
  <1> HIDE DEF c
  <1>6. tables[0] # NoTable
    BY <1>4, <1>5, QualityIsSet
  <1> HIDE DEF tables
  <1> QED BY <1>1, <1>3, <1>6

\* The encoder goes on with the cover in all it does.
LEMMA EncoderKnowsTheCover ==
  ASSUME CommandsOK, OnlyTheStegoImageChanges, DistinctNames, CoverKnown, Encode, Alive'
  PROVE  CoverKnown'
  <1> DEFINE d == dec["encode"]
  <1>1. /\ DOMAIN pc = Processes /\ DOMAIN dec = Processes /\ Processes = {"encode", "decode"}
        /\ DOMAIN purpose = Processes /\ DOMAIN collection = Processes /\ DOMAIN seen = Processes
    BY DEF CommandsOK, ProcessesOK, ReadersReady, RowsCollected, Processes, CoverKnown
  <1>2. CASE Start("encode")
    <2>1. /\ UNCHANGED <<job, purpose, full, reduced, collection, seen>>
          /\ pc'["encode"] \in {"open", "aborted"}
      BY <1>1, <1>2 DEF Start, Go
    <2> QED BY <1>1, <2>1, CoverGoesOn DEF Opening
  <1>3. CASE DecompressionStarter("encode")
    <2>1. /\ UNCHANGED <<job, purpose, full, reduced, collection, seen>>
          /\ pc'["encode"] \in {"header", "aborted"}
          /\ pc'["encode"] = "header" =>
               job.cover \in DOMAIN files /\ dec'["encode"] = CreateDecompress(job.cover)
      BY <1>1, <1>3 DEF DecompressionStarter, Go, SetDec, Opened
    <2>2. Begun(job, CreateDecompress(job.cover))
      BY ReadingStepByStep, FieldsOfANewObject DEF Begun, CoverReading
    <2>3. Opening' => job.cover \in DOMAIN job.files /\ Begun(job, dec'["encode"])
      BY <2>1, <2>2, CoverStays DEF Opening
    <2> QED BY <1>1, <2>1, <2>3, CoverGoesOn
  <1>4. CASE ReadHeader("encode") \/ StartReadCoefficients("encode") \/ ReadCoefficients("encode")
    BY <1>4, CoverIsReadOn
  <1>5. CASE LoadDCT_Coefficients("encode")
    <2>1. /\ UNCHANGED <<job, full, reduced>> /\ Opening /\ d.global_state = "DSTATE_STOPPING"
          /\ purpose'["encode"] = "full" /\ pc'["encode"] = "open" /\ DOMAIN seen' = Processes
          /\ seen'["encode"] = d /\ collection'["encode"] = d.coef_arrays[1]
      BY <1>1, <1>5 DEF LoadDCT_Coefficients, Loaded, Go, Opening
    <2>2. AtItsEnd(job, d) /\ job.cover \in DOMAIN job.files
      BY <2>1, WhatIsOpen
    <2> HIDE DEF d
    <2> QED BY <2>1, <2>2 DEF CoverKnown, Opening, CoverIsOpen, CoverIsRead, TablesAreKnown
  <1>6. CASE AquireExistingTables
    <2>1. /\ UNCHANGED <<job, collection, seen>> /\ Opening /\ d.global_state = "DSTATE_READY"
          /\ purpose["encode"] \in {"full", "reduced"}
          /\ \/ /\ full' = d.quant_tbl_ptrs /\ reduced' = reduced
                /\ purpose'["encode"] = "reduced" /\ pc'["encode"] = "open"
             \/ /\ reduced' = d.quant_tbl_ptrs /\ full' = full /\ purpose["encode"] = "reduced"
                /\ purpose'["encode"] = "reduced" /\ pc'["encode"] = "derive"
      BY <1>1, <1>6 DEF AquireExistingTables, HeaderRead, Go, Opening
    <2>2. PICK n \in Nat : d = CoverReading(job, n) /\ IsReady(CoverReading(job, n))
      BY <2>1, WhatIsOpen
    <2>3. job.cover \in DOMAIN job.files /\ IsStream(job.files[job.cover])
      BY <2>1, WhatIsOpen
    <2> HIDE DEF d
    <2>4. HeaderHas(job, d.quant_tbl_ptrs)
      BY <2>2 DEF HeaderHas
    <2>5. HeaderHas(job, full) => d.quant_tbl_ptrs = full
      <3> SUFFICES ASSUME HeaderHas(job, full) PROVE d.quant_tbl_ptrs = full
        OBVIOUS
      <3>1. PICK m \in Nat : IsReady(CoverReading(job, m)) /\ full = CoverReading(job, m).quant_tbl_ptrs
        BY DEF HeaderHas
      <3>2. CoverReading(job, m) = CoverReading(job, n)
        BY <2>2, <2>3, <3>1, ReadingsAgree DEF CoverReading
      <3> QED BY <2>2, <3>1, <3>2
    <2>6. CoverIsOpen' /\ CoverIsRead'
      BY <2>1 DEF CoverKnown, CoverIsOpen, CoverIsRead, Opening
    <2>7. TablesAreKnown'
      BY <2>1, <2>4, <2>5 DEF CoverKnown, TablesAreKnown
    <2> QED BY <2>1, <2>3, <2>6, <2>7 DEF CoverKnown
  <1>7. CASE AquireTablesOfQuality
    <2>1. UNCHANGED <<job, purpose, full, collection, seen>> /\ pc'["encode"] = "derive" /\ reduced'[0] # NoTable
      BY <1>7, TablesOfQuality
    <2>2. purpose["encode"] = "reduced"
      BY <1>7 DEF AquireTablesOfQuality, AquireTablesFrom
    <2> QED BY <2>1, <2>2 DEF CoverKnown, Opening, CoverIsOpen, CoverIsRead, TablesAreKnown
  <1>8. CASE Inject
    <2>1. /\ UNCHANGED <<job, full, reduced, collection, seen>> /\ pc["encode"] = "derive"
          /\ purpose'["encode"] = "write" /\ pc'["encode"] = "open" /\ full[0] # NoTable
      BY <1>1, <1>8 DEF Inject, Go, Alive
    <2>2. purpose["encode"] = "reduced"
      BY <2>1 DEF CommandsOK, ProcessesOK
    <2> QED BY <2>1, <2>2 DEF CoverKnown, Opening, CoverIsOpen, CoverIsRead, TablesAreKnown
  <1>9. CASE CompressionStarter
    <2>1. /\ UNCHANGED <<job, purpose, dec, full, reduced, collection, seen>> /\ Opening
          /\ pc'["encode"] \in {"aborted", "exited", "coefficients"}
      BY <1>1, <1>9 DEF CompressionStarter, StartWith, HeaderRead, Go, Opening
    <2> QED BY <1>1, <2>1, CoverGoesOn DEF CoverKnown, CoverIsOpen
  <1>10. CASE SaveDCT_Coefficients
    <2>1. /\ UNCHANGED <<job, purpose, full, reduced, collection, seen>>
          /\ pc'["encode"] \in {"exited", "compress"}
      BY <1>1, <1>10 DEF SaveDCT_Coefficients, Go
    <2> QED BY <1>1, <2>1, CoverGoesOn DEF Opening
  <1>11. CASE PrepareForPass \/ CompressOutput \/ FinishCompress \/ DestroyStores
    <2>1. /\ UNCHANGED <<job, purpose, full, reduced, collection, seen>>
          /\ pc'["encode"] \in {"exited", "compress", "close", "embedded"}
      BY <1>1, <1>11 DEF PrepareForPass, CompressOutput, FinishCompress, DestroyStores, Go, Output
    <2> QED BY <1>1, <2>1, CoverGoesOn DEF Opening
  <1> QED BY <1>2, <1>3, <1>4, <1>5, <1>6, <1>7, <1>8, <1>9, <1>10, <1>11 DEF Encode

-----------------------------------------------------------------------------
(* The image the encoder writes: that of a writer which has the components *)
(* and the tables of the cover, but for slot 0, and sends the wet          *)
(* coefficients with what was read of the other components.                *)
Describes(c, d, first, tables) ==
  /\ DOMAIN c.comp_info = DOMAIN d.comp_info /\ c.jpeg_color_space = d.jpeg_color_space
  /\ \A ci \in DOMAIN d.comp_info :
       /\ c.comp_info[ci].component_id = d.comp_info[ci].component_id
       /\ c.comp_info[ci].quant_tbl_no = d.comp_info[ci].quant_tbl_no
       /\ c.comp_info[ci].MCU_blocks = d.comp_info[ci].MCU_blocks
       /\ c.comp_info[ci].quant_tbl_no # 0 =>
            c.quant_tbl_ptrs[c.comp_info[ci].quant_tbl_no] = tables[c.comp_info[ci].quant_tbl_no]
  /\ c.quant_tbl_ptrs[0] = first

\* The writer that gets the parameters of a header can send an image.
LEMMA WriterIsSetUp ==
  ASSUME NEW d, IsDecompress(d), d.global_state = "DSTATE_READY", DistinctIds(d),
         NEW name, NEW r, r = jpeg_copy_critical_parameters(d, CreateCompress(name)), r.error = "none",
         NEW first \in Nat \ {0}, NEW c, c = [r EXCEPT !.quant_tbl_ptrs[0] = first]
  PROVE  /\ Sendable(c) /\ Describes(c, d, first, d.quant_tbl_ptrs)
         /\ c.buffer = << >> /\ ~c.is_last_pass
  <1> DEFINE new == CreateCompress(name)
             tables == [r.quant_tbl_ptrs EXCEPT ![0] = first]
  <1>1. /\ IsCompress(new) /\ new.global_state = "CSTATE_START" /\ new.error = "none"
        /\ new.buffer = << >> /\ ~new.is_last_pass
    BY WriterIsCreated
  <1>2. IsCompress(r) /\ DOMAIN r.comp_info = DOMAIN d.comp_info /\ CopiedFrom(d, new, r)
    BY <1>1, ParametersAreCopied
  <1> HIDE DEF new
  <1>3. IsCompress(c) /\ SameWriter(r, c) /\ c.comp_info = r.comp_info
    BY <1>2, SlotIsSet
  <1>4. /\ c.quant_tbl_ptrs = tables /\ c.huff_tbl_ptrs = r.huff_tbl_ptrs
        /\ c.restart_interval = r.restart_interval /\ c.Adobe_transform = r.Adobe_transform
        /\ c.jpeg_color_space = r.jpeg_color_space
    BY <1>2, FieldsOfAWriter
  <1>5. r.quant_tbl_ptrs \in [QuantSlots -> Nat] /\ 0 \in QuantSlots
    BY <1>2, DefaultSlots DEF IsCompress, ParametersOK
  <1>6. /\ c.quant_tbl_ptrs[0] = first
        /\ \A s \in QuantSlots : s # 0 => c.quant_tbl_ptrs[s] = r.quant_tbl_ptrs[s]
    BY <1>4, <1>5
  <1> HIDE DEF tables
  <1>7. ASSUME NEW ci \in DOMAIN d.comp_info
        PROVE  /\ c.comp_info[ci].component_id = d.comp_info[ci].component_id
               /\ c.comp_info[ci].quant_tbl_no = d.comp_info[ci].quant_tbl_no
               /\ c.comp_info[ci].MCU_blocks = d.comp_info[ci].MCU_blocks
               /\ c.comp_info[ci].dc_tbl_no \in {0, 1} /\ c.comp_info[ci].ac_tbl_no \in {0, 1}
               /\ c.comp_info[ci].quant_tbl_no \in QuantSlots
               /\ d.quant_tbl_ptrs[c.comp_info[ci].quant_tbl_no] # NoTable
               /\ c.comp_info[ci].quant_tbl_no # 0 =>
                    c.quant_tbl_ptrs[c.comp_info[ci].quant_tbl_no] = d.quant_tbl_ptrs[c.comp_info[ci].quant_tbl_no]
    BY <1>2, <1>3, <1>6 DEF CopiedFrom
  <1>8. Describes(c, d, first, d.quant_tbl_ptrs)
    BY <1>2, <1>3, <1>4, <1>6, <1>7 DEF Describes, CopiedFrom, MarkedWith
  <1>9. \A ci \in DOMAIN c.comp_info :
       /\ c.quant_tbl_ptrs[c.comp_info[ci].quant_tbl_no] # NoTable
       /\ c.huff_tbl_ptrs["DC"][c.comp_info[ci].dc_tbl_no] # NoTable
       /\ c.huff_tbl_ptrs["AC"][c.comp_info[ci].ac_tbl_no] # NoTable
    <2>1. \A class \in {"DC", "AC"}, s \in {0, 1} : c.huff_tbl_ptrs[class][s] # NoTable
      BY <1>2, <1>4 DEF CopiedFrom, StdHuff, NoTable
    <2>2. \A ci \in DOMAIN c.comp_info : c.quant_tbl_ptrs[c.comp_info[ci].quant_tbl_no] # NoTable
      BY <1>2, <1>3, <1>6, <1>7 DEF NoTable
    <2> QED BY <1>2, <1>3, <1>7, <2>1, <2>2
  <1>10. DistinctIds(c)
    BY <1>2, <1>3, <1>7 DEF DistinctIds
  <1>11. /\ d.comp_info # << >> /\ Len(d.comp_info) \in ColorComponents(d.jpeg_color_space)
         /\ d.jpeg_color_space = "UNKNOWN" => Len(d.comp_info) \notin {1, 3, 4}
    BY DEF IsDecompress, FrameOK
  <1>12. /\ Len(c.comp_info) = Len(d.comp_info) /\ Len(c.comp_info) <= MAX_COMPONENTS
         /\ c.comp_info # << >>
    <2>1. /\ Len(c.comp_info) \in Nat /\ DOMAIN c.comp_info = 1 .. Len(c.comp_info)
      BY <1>3, WrittenComponents
    <2> DEFINE Component == [component_id : Nat, quant_tbl_no : Nat, MCU_blocks : Nat,
                             dc_tbl_no : Nat, ac_tbl_no : Nat, quant_table : Nat]
    <2>2. d.comp_info \in Seq(Component)
      BY DEF IsDecompress, FrameOK
    <2> HIDE DEF Component
    <2>3. /\ Len(d.comp_info) \in Nat /\ DOMAIN d.comp_info = 1 .. Len(d.comp_info)
      BY <2>2, SequenceOfASet, Zenon
    <2>7. Len(d.comp_info) \in Nat \ {0}
      BY <1>11, <2>2, EmptySeq, Zenon
    <2>6. Len(d.comp_info) # 0
      BY <2>7
    <2>4. Len(c.comp_info) = Len(d.comp_info)
      <3>1. 1 .. Len(c.comp_info) = 1 .. Len(d.comp_info)
        BY <1>2, <1>3, <2>1, <2>3, Zenon
      <3> DEFINE m == Len(c.comp_info)
                 n == Len(d.comp_info)
      <3>2. m \in Nat /\ n \in Nat /\ 1 .. m = 1 .. n
        BY <2>1, <2>3, <3>1, Zenon
      <3> HIDE DEF m, n
      <3>3. m = n
        <4>1. m <= n
          BY <3>2
        <4>2. n <= m
          BY <3>2
        <4> QED BY <3>2, <4>1, <4>2
      <3> QED BY <3>3 DEF m, n
    <2>5. 1 \in DOMAIN c.comp_info
      BY <2>1, <2>3, <2>4, <2>6
    <2> QED BY <1>2, <2>3, <2>4, <2>5 DEF CopiedFrom
  <1>13. Marked(c)
    <2>1. MarkedWith(c, d.jpeg_color_space)
      BY <1>2, <1>3, <1>4 DEF CopiedFrom, MarkedWith, SameWriter
    <2> QED BY <1>11, <1>12, <2>1 DEF MarkedWith, Marked
  <1>14. c.restart_interval = 0 /\ c.buffer = << >> /\ ~c.is_last_pass
    BY <1>1, <1>2, <1>3, <1>4 DEF CopiedFrom, SameWriter
  <1>15. Sendable(c)
    BY <1>3, <1>9, <1>10, <1>12, <1>13, <1>14 DEF Sendable
  <1> QED BY <1>8, <1>14, <1>15

-----------------------------------------------------------------------------
(* The image on its way to the file, and what a decoder takes from there.  *)
StegoArrays ==
  [ci \in DOMAIN seen["encode"].coef_arrays |->
     IF ci = 1 THEN [r \in Rows |-> Wet(collection["encode"][r])]
     ELSE seen["encode"].coef_arrays[ci]]

Sending == Writing \/ pc["encode"] \in {"compress", "close", "embedded"}

SentSoFar(c) == IF comp.is_last_pass THEN ScanAt(c) + comp.iMCU_row_num ELSE HeaderEnd(c)

\* The parameters are those of c, and what has been sent is the image of c.
Stage(c) ==
  /\ Sendable(c) /\ Describes(c, seen["encode"], reduced[0], full)
  /\ Writing => /\ SameSettings(c, comp) /\ comp.buffer = << >> /\ ~comp.is_last_pass
                /\ files[job.stego] = << >>
  /\ pc["encode"] = "compress" =>
       /\ SameSettings(c, comp) /\ dec["encode"].coef_arrays = StegoArrays
       /\ comp.is_last_pass => InOneScan(c)
       /\ \E n \in Nat : Sent(c, StegoArrays, SentSoFar(c), n, files[job.stego], comp.buffer)
  /\ pc["encode"] \in {"close", "embedded"} =>
       InOneScan(c) /\ files[job.stego] = Beginning(c, StegoArrays, ImageEnd(c))

\* What depends on nothing but these stays when they do.
LEMMA StageStays ==
  ASSUME NEW c, Stage(c), UNCHANGED <<job, comp, full, reduced>>, files'[job.stego] = files[job.stego],
         collection'["encode"] = collection["encode"], seen'["encode"] = seen["encode"],
         purpose'["encode"] = purpose["encode"], pc'["encode"] = pc["encode"],
         pc["encode"] = "compress" => dec'["encode"] = dec["encode"]
  PROVE  Stage(c)' /\ StegoArrays' = StegoArrays
  <1>1. StegoArrays' = StegoArrays
    BY DEF StegoArrays, Wet
  <1>2. Writing' <=> Writing
    BY DEF Writing
  <1>3. SentSoFar(c)' = SentSoFar(c)
    BY DEF SentSoFar
  <1> QED BY <1>1, <1>2, <1>3 DEF Stage

\* The file begins with the image, and reaches behind the header of the scan
\* only when there is one scan.
LEMMA PartIsWritten ==
  ASSUME CommandsOK, Sending, NEW c, Stage(c)
  PROVE  \E m \in Nat : /\ files[job.stego] = Beginning(c, StegoArrays, m)
                        /\ m >= ScanAt(c) => InOneScan(c)
  <1> DEFINE file == files[job.stego]
             arrays == StegoArrays
  <1>1. IsCompress(c)
    BY DEF Stage, Sendable
  <1>2. HeaderEnd(c) \in Nat /\ ScanAt(c) \in Nat /\ ImageEnd(c) \in Nat /\ HeaderEnd(c) < ScanAt(c)
        /\ 0 < ScanAt(c)
    BY SMTT(30), <1>1, PlacesOfTheImage
  <1>3. CASE Writing
    <2>1. file = << >>
      BY <1>3 DEF Stage
    <2>2. Beginning(c, arrays, 0) = << >>
      BY DEF Beginning
    <2> HIDE DEF file, arrays
    <2> QED BY <1>2, <2>1, <2>2 DEF file, arrays
  <1>4. CASE pc["encode"] = "compress"
    <2>1. PICK n \in Nat : Sent(c, arrays, SentSoFar(c), n, file, comp.buffer)
      BY <1>4 DEF Stage
    <2>2. comp.is_last_pass => InOneScan(c)
      BY <1>4 DEF Stage
    <2>3. file = Beginning(c, arrays, n) /\ n \in 0 .. SentSoFar(c)
      BY <2>1 DEF Sent
    <2>4. ~comp.is_last_pass => n < ScanAt(c)
      BY <1>2, <2>3 DEF SentSoFar
    <2> QED BY <1>2, <2>2, <2>3, <2>4
  <1>5. CASE pc["encode"] \in {"close", "embedded"}
    BY <1>2, <1>5 DEF Stage
  <1> QED BY <1>3, <1>4, <1>5 DEF Sending

\* The stego image is opened, and gets the parameters of the cover.
LEMMA StageBegins ==
  ASSUME CommandsOK, OnlyTheStegoImageChanges, DistinctNames, CoverKnown, CompressionStarter, Alive',
         DistinctIds(seen["encode"])
  PROVE  Writing' /\ \E c : Stage(c)'
  <1> DEFINE d == dec["encode"]
             r == jpeg_copy_critical_parameters(d, CreateCompress(job.stego))
             first == reduced[0]
  <1>1. /\ pc["encode"] = "header" /\ d.global_state = "DSTATE_READY" /\ purpose["encode"] = "write"
        /\ UNCHANGED <<job, purpose, dec, full, reduced, collection, seen>>
    BY DEF CompressionStarter, StartWith, HeaderRead
  <1>2. \/ pc' = [pc EXCEPT !["encode"] = "aborted"] \/ pc' = [pc EXCEPT !["encode"] = "exited"]
        \/ /\ pc' = [pc EXCEPT !["encode"] = "coefficients"] /\ r.error = "none"
           /\ comp' = [r EXCEPT !.quant_tbl_ptrs[0] = first] /\ files' = Truncate(job.stego)
    BY Zenon DEF CompressionStarter, StartWith, Go
  <1>3. /\ pc'["encode"] = "coefficients" /\ r.error = "none"
        /\ comp' = [r EXCEPT !.quant_tbl_ptrs[0] = first] /\ files' = Truncate(job.stego)
    <2>1. "encode" \in DOMAIN pc
      BY DEF CommandsOK, ProcessesOK, Processes
    <2> HIDE DEF r, first
    <2> QED BY <1>2, <2>1 DEF Alive
  <1>4. files'[job.stego] = << >>
    BY <1>3, TruncatedFiles DEF Truncate
  <1>5. IsDecompress(d)
    BY <1>1, ObjectBeingRead DEF Processes
  <1>6. PICK n \in Nat : d = CoverReading(job, n) /\ IsReady(CoverReading(job, n))
    BY <1>1, WhatIsOpen DEF Opening
  <1>7. job.cover \in DOMAIN job.files /\ IsStream(job.files[job.cover])
    BY <1>1, WhatIsOpen DEF Opening
  <1> HIDE DEF d
  <1>8. PICK m \in Nat : /\ IsAtTheEnd(CoverReading(job, m))
                         /\ CoverReading(job, m).global_state = "DSTATE_RDCOEFS"
                         /\ seen["encode"] = Stopped(CoverReading(job, m))
    BY <1>1 DEF CoverKnown, CoverIsRead, AtItsEnd
  <1>9. SameImage(d, CoverReading(job, m))
    BY <1>6, <1>7, <1>8, ReadingsAgree DEF CoverReading
  <1>10. SameImage(d, seen["encode"])
    <2>1. IsDecompress(CoverReading(job, m))
      BY <1>7, ReadingIsAnObject DEF CoverReading
    <2> DEFINE e == CoverReading(job, m)
    <2> HIDE DEF e
    <2>2. Stopped(e).comp_info = e.comp_info /\ Stopped(e).jpeg_color_space = e.jpeg_color_space
      BY <2>1 DEF Stopped, IsDecompress, jpeg_decompress_struct, e
    <2> QED BY <1>8, <1>9, <2>2 DEF SameImage, e
  <1>11. DistinctIds(d)
    BY <1>10 DEF DistinctIds, SameImage
  <1>12. full = d.quant_tbl_ptrs
    <2>1. PICK i \in Nat : IsReady(CoverReading(job, i)) /\ full = CoverReading(job, i).quant_tbl_ptrs
      BY <1>1 DEF CoverKnown, TablesAreKnown, HeaderHas
    <2>2. CoverReading(job, i) = CoverReading(job, n)
      BY <1>6, <1>7, <2>1, ReadingsAgree DEF CoverReading
    <2> QED BY <1>6, <2>1, <2>2
  <1>13. first \in Nat \ {0}
    <2>1. reduced[0] # NoTable \/ reduced = full
      BY <1>1 DEF CoverKnown, TablesAreKnown
    <2>2. full[0] # NoTable /\ reduced \in [QuantSlots -> Nat]
      BY <1>1 DEF CoverKnown, TablesAreKnown, CommandsOK, StepsOK
    <2> QED BY <2>1, <2>2, DefaultSlots DEF NoTable
  <1> HIDE DEF r, first
  <1>14. /\ Sendable(comp') /\ Describes(comp', d, first, d.quant_tbl_ptrs)
         /\ comp'.buffer = << >> /\ ~comp'.is_last_pass
    <2>1. r = jpeg_copy_critical_parameters(d, CreateCompress(job.stego)) /\ d.global_state = "DSTATE_READY"
      BY <1>1 DEF r
    <2>2. r.error = "none" /\ comp' = [r EXCEPT !.quant_tbl_ptrs[0] = first]
      BY <1>3
    <2> PICK c : c = comp'
      OBVIOUS
    <2>3. /\ Sendable(c) /\ Describes(c, d, first, d.quant_tbl_ptrs)
          /\ c.buffer = << >> /\ ~c.is_last_pass
      <3>1. c = [r EXCEPT !.quant_tbl_ptrs[0] = first]
        BY <2>2
      <3> QED BY <1>5, <1>11, <1>13, <2>1, <2>2, <3>1, WriterIsSetUp
    <2> QED BY <2>3
  <1>15. Describes(comp', seen["encode"], first, full)
    BY <1>10, <1>12, <1>14 DEF Describes, SameImage
  <1> PICK c : c = comp'
    OBVIOUS
  <1>16. SameSettings(c, comp')
    BY DEF SameSettings, SameParameters
  <1>17. Writing'
    BY <1>1, <1>3 DEF Writing
  <1>18. Stage(c)'
    <2>1. pc'["encode"] = "coefficients" /\ full' = full /\ reduced' = reduced /\ seen' = seen /\ job' = job
      BY <1>1, <1>3
    <2> QED BY <1>4, <1>14, <1>15, <1>16, <2>1 DEF Stage, first
  <1> QED BY <1>17, <1>18

\* Settings that agree with the same ones agree.
LEMMA SettingsGoOn ==
  ASSUME NEW c, NEW d, NEW e, SameSettings(c, d), SameSettings(d, e)
  PROVE  SameSettings(c, e)
  BY DEF SameSettings, SameParameters

\* The object that has read the cover is the one that had read it before.
LEMMA CoverIsReadAgain ==
  ASSUME CommandsOK, OnlyTheStegoImageChanges, DistinctNames, CoverKnown, Writing,
         dec["encode"].global_state = "DSTATE_STOPPING"
  PROVE  dec["encode"] = seen["encode"]
  <1>1. AtItsEnd(job, dec["encode"]) /\ IsStream(job.files[job.cover])
    BY WhatIsOpen DEF Writing, Opening
  <1>2. PICK n \in Nat : IsAtTheEnd(CoverReading(job, n)) /\ dec["encode"] = Stopped(CoverReading(job, n))
    BY <1>1 DEF AtItsEnd
  <1>3. PICK m \in Nat : IsAtTheEnd(CoverReading(job, m)) /\ seen["encode"] = Stopped(CoverReading(job, m))
    BY DEF CoverKnown, CoverIsRead, AtItsEnd, Writing
  <1>4. CoverReading(job, n) = CoverReading(job, m)
    BY <1>1, <1>2, <1>3, ReadingsAgree DEF CoverReading
  <1> QED BY <1>2, <1>3, <1>4

\* The header of the file is put into the buffer, and the first component of the
\* cover becomes the wet coefficients.
LEMMA StageIsSaved ==
  ASSUME CommandsOK, OnlyTheStegoImageChanges, DistinctNames, CoverKnown, NEW c, Stage(c),
         SaveDCT_Coefficients, Alive'
  PROVE  pc'["encode"] = "compress" /\ Stage(c)' /\ StegoArrays' = StegoArrays
  <1> DEFINE d == dec["encode"]
             rows == [r \in Rows |-> Wet(collection["encode"][r])]
             e == [d EXCEPT !.coef_arrays[1] = rows]
             new == jpeg_write_coefficients(comp)
             place == IF comp'.error # "none" THEN "exited" ELSE "compress"
  <1>1. /\ Writing /\ d.global_state = "DSTATE_STOPPING"
        /\ UNCHANGED <<job, files, purpose, full, reduced, collection, seen>>
        /\ comp' = new /\ dec' = [dec EXCEPT !["encode"] = e] /\ pc' = [pc EXCEPT !["encode"] = place]
    BY Zenon DEF SaveDCT_Coefficients, Writing, SetDec, Go
  <1>2. /\ IsDecompress(d) /\ d.error = "none" /\ d = seen["encode"]
    BY <1>1, ObjectBeingRead, CoverIsReadAgain DEF Writing, Processes
  <1>3. "encode" \in DOMAIN pc /\ "encode" \in DOMAIN dec
    BY DEF CommandsOK, ProcessesOK, ReadersReady, Processes
  <1>4. StegoArrays' = StegoArrays
    BY <1>1 DEF StegoArrays, Wet
  <1>5. dec'["encode"].coef_arrays = StegoArrays
    <2>1. "coef_arrays" \in DOMAIN d
      BY <1>2, FieldsOfANewObject DEF IsDecompress, jpeg_decompress_struct
    <2> DEFINE arrays == d.coef_arrays
               changed == [arrays EXCEPT ![1] = rows]
    <2>2. e.coef_arrays = changed
      <3> HIDE DEF rows
      <3> QED BY <2>1
    <2>3. changed = [ci \in DOMAIN arrays |-> IF ci = 1 THEN rows ELSE arrays[ci]]
      <3> HIDE DEF rows, arrays
      <3> QED OBVIOUS
    <2>4. StegoArrays = [ci \in DOMAIN arrays |-> IF ci = 1 THEN rows ELSE arrays[ci]]
      BY <1>2, Zenon DEF StegoArrays
    <2> HIDE DEF rows, arrays, changed, e
    <2> QED BY <1>1, <1>3, <2>2, <2>3, <2>4
  <1>6. /\ IsCompress(comp) /\ comp.global_state = "CSTATE_START" /\ comp.error = "none"
    BY <1>1 DEF CommandsOK, WriterReady, CompressorOK, Writing
  <1>7. /\ SameSettings(comp, new) /\ new.buffer = comp.buffer \o FileHeader(comp)
        /\ new.is_last_pass = comp.is_last_pass /\ new.error = "none"
    BY <1>6, FileHeaderIsPut, WritingIsStarted
  <1>8. place = "compress"
    BY <1>1, <1>7
  <1>9. pc'["encode"] = "compress"
    <2> HIDE DEF place
    <2> QED BY <1>1, <1>3, <1>8
  <1>10. /\ SameSettings(c, comp) /\ comp.buffer = << >> /\ ~comp.is_last_pass /\ files[job.stego] = << >>
         /\ Sendable(c) /\ IsCompress(c)
    BY <1>1 DEF Stage, Sendable
  <1>11. FileHeader(comp) = FileHeader(c) /\ HeaderEnd(c) \in Nat
    BY <1>10, SettingsAreEnough, PlacesOfTheImage
  <1> DEFINE arrays == StegoArrays
             units == FileHeader(comp)
             none == << >>
  <1>12. units = [i \in 1 .. HeaderEnd(c) |-> UnitAt(c, arrays, 0 + i)]
    <2>1. FileHeader(c) = [i \in 1 .. HeaderEnd(c) |-> UnitAt(c, arrays, i)]
      BY <1>10, PartsOfTheImage
    <2>2. \A i \in 1 .. HeaderEnd(c) : UnitAt(c, arrays, 0 + i) = UnitAt(c, arrays, i)
      <3>1. \A i \in 1 .. HeaderEnd(c) : 0 + i = i
        BY <1>11
      <3> QED BY <3>1
    <2> HIDE DEF arrays
    <2> QED BY <1>11, <2>1, <2>2
  <1>13. Sent(c, arrays, 0, 0, none, none)
    BY DEF Sent, Beginning
  <1>14. Sent(c, arrays, HeaderEnd(c), 0, none, new.buffer)
    <2>1. new.buffer = none \o units
      BY <1>7, <1>10
    <2> HIDE DEF arrays, units, none, new
    <2>2. Sent(c, arrays, 0 + HeaderEnd(c), 0, none, none \o units)
      BY <1>11, <1>12, <1>13, MoreIsPut
    <2> QED BY <1>11, <2>1, <2>2
  <1>15. Stage(c)'
    <2>1. SameSettings(c, comp') /\ ~comp'.is_last_pass
      <3>1. SameSettings(c, new)
        BY <1>7, <1>10, SettingsGoOn
      <3> HIDE DEF new
      <3> QED BY <1>1, <1>7, <1>10, <3>1
    <2>2. SentSoFar(c)' = HeaderEnd(c) /\ ~Writing'
      BY <1>9, <2>1 DEF SentSoFar, Writing
    <2>3. Sent(c, StegoArrays', SentSoFar(c)', 0, files'[job'.stego], comp'.buffer)
      <3> HIDE DEF new
      <3> QED BY <1>1, <1>4, <1>10, <1>14, <2>2
    <2>4. Describes(c, seen'["encode"], reduced'[0], full')
      BY <1>1 DEF Stage
    <2> HIDE DEF new, d, e, place
    <2> QED BY <1>4, <1>5, <1>9, <1>10, <2>1, <2>2, <2>3, <2>4 DEF Stage
  <1> QED BY <1>4, <1>9, <1>15

\* What is in the buffer goes to the file, some of it or all.
LEMMA BufferIsSent ==
  ASSUME CommandsOK, pc["encode"] = "compress", NEW e, IsCompress(e), NEW all \in BOOLEAN, Output(e, all),
         Alive', UNCHANGED job, NEW c, NEW arrays, NEW m \in Nat, NEW n \in Nat,
         Sent(c, arrays, m, n, files[job.stego], e.buffer)
  PROVE  /\ SameSettings(e, comp') /\ comp'.is_last_pass = e.is_last_pass
         /\ comp'.iMCU_row_num = e.iMCU_row_num
         /\ pc'["encode"] = IF all THEN "close" ELSE "compress"
         /\ \E k \in Nat : /\ Sent(c, arrays, m, k, files'[job.stego], comp'.buffer)
                           /\ all => k = m
  <1>1. PICK size \in Nat, part \in Int :
           /\ size <= Len(e.buffer) /\ part <= size /\ (all => size = Len(e.buffer))
           /\ files' = [files EXCEPT ![job.stego] = files[job.stego] \o SubSeq(e.buffer, 1, part)]
           /\ comp' = [e EXCEPT !.buffer = SubSeq(e.buffer, size + 1, Len(e.buffer)),
                                !.error = IF part < size THEN "JERR_FILE_WRITE" ELSE e.error]
           /\ pc' = [pc EXCEPT !["encode"] =
                       IF comp'.error # "none" THEN "exited" ELSE IF all THEN "close" ELSE "compress"]
    BY BufferIsWritten
  <1> DEFINE rest == SubSeq(e.buffer, size + 1, Len(e.buffer))
             code == IF part < size THEN "JERR_FILE_WRITE" ELSE e.error
             file == files[job.stego]
             more == file \o SubSeq(e.buffer, 1, part)
             place == IF comp'.error # "none" THEN "exited" ELSE IF all THEN "close" ELSE "compress"
  <1>2. "encode" \in DOMAIN pc
    BY DEF CommandsOK, ProcessesOK, Processes
  <1>3. job.stego \in DOMAIN files
    BY <1>1, WrittenPartsAreStreams
  <1>4. pc'["encode"] = place
    <2>1. pc' = [pc EXCEPT !["encode"] = place]
      BY <1>1
    <2> HIDE DEF place
    <2> QED BY <1>2, <2>1
  <1>5. comp'.error = "none" /\ pc'["encode"] = IF all THEN "close" ELSE "compress"
    BY <1>4 DEF Alive
  <1>6. files'[job.stego] = more
    <2>1. files' = [files EXCEPT ![job.stego] = more]
      BY <1>1
    <2> HIDE DEF more
    <2> QED BY <1>3, <2>1
  <1>7. /\ comp'.buffer = rest /\ comp'.error = code /\ SameSettings(e, comp')
        /\ comp'.is_last_pass = e.is_last_pass /\ comp'.iMCU_row_num = e.iMCU_row_num
    <2>1. comp' = [e EXCEPT !.buffer = rest, !.error = code]
      BY <1>1
    <2> HIDE DEF rest, code
    <2>2. /\ comp'.buffer = rest /\ comp'.error = code
          /\ comp'.is_last_pass = e.is_last_pass /\ comp'.iMCU_row_num = e.iMCU_row_num
      BY <2>1, FieldsOfAWriter
    <2>3. SameSettings(e, comp')
      BY <2>1, FieldsOfAWriter DEF SameSettings, SameParameters
    <2> QED BY <2>2, <2>3
  <1>8. part = size
    BY <1>1, <1>5, <1>7
  <1> DEFINE buffer == e.buffer
  <1>9. /\ n + size \in Nat /\ (size = Len(buffer) => n + size = m)
        /\ Sent(c, arrays, m, n + size, file \o SubSeq(buffer, 1, size),
                 SubSeq(buffer, size + 1, Len(buffer)))
    <2>1. Sent(c, arrays, m, n, file, buffer) /\ size <= Len(buffer)
      BY <1>1
    <2> HIDE DEF file, buffer
    <2> QED BY <2>1, MoreIsSent
  <1>10. Sent(c, arrays, m, n + size, files'[job.stego], comp'.buffer)
    BY <1>6, <1>7, <1>8, <1>9
  <1>11. all => n + size = m
    BY <1>1, <1>9
  <1> HIDE DEF rest, code, file, more, place, buffer
  <1> QED BY <1>5, <1>7, <1>9, <1>10, <1>11

\* All that has been sent is the image.
LEMMA AllIsSent ==
  ASSUME NEW c, NEW arrays, NEW m \in Nat, NEW file, NEW buffer, Sent(c, arrays, m, m, file, buffer)
  PROVE  file = Beginning(c, arrays, m)
  BY DEF Sent

\* A call puts the next units of the image into the buffer, up to some place.
LEMMA StageGoesOn ==
  ASSUME CommandsOK, pc["encode"] = "compress", NEW c, Stage(c), NEW e, IsCompress(e),
         SameSettings(comp, e), NEW all \in BOOLEAN, Output(e, all), Alive',
         UNCHANGED <<job, purpose, dec, full, reduced, collection, seen>>,
         NEW end \in Nat,
         \A n \in Nat : Sent(c, StegoArrays, SentSoFar(c), n, files[job.stego], comp.buffer) =>
                        Sent(c, StegoArrays, end, n, files[job.stego], e.buffer),
         IF all THEN comp.is_last_pass /\ end = ImageEnd(c)
         ELSE e.is_last_pass /\ InOneScan(c) /\ end = ScanAt(c) + e.iMCU_row_num
  PROVE  Stage(c)' /\ StegoArrays' = StegoArrays
  <1> DEFINE arrays == StegoArrays
  <1>1. StegoArrays' = arrays
    BY DEF StegoArrays, Wet
  <1>2. /\ SameSettings(c, comp) /\ dec["encode"].coef_arrays = arrays
        /\ (comp.is_last_pass => InOneScan(c)) /\ Sendable(c)
        /\ Describes(c, seen["encode"], reduced[0], full)
    BY DEF Stage
  <1>3. PICK n \in Nat : Sent(c, arrays, SentSoFar(c), n, files[job.stego], comp.buffer)
    BY DEF Stage
  <1>5. Sent(c, arrays, end, n, files[job.stego], e.buffer)
    BY <1>3
  <1> HIDE DEF arrays
  <1>6. end = IF all THEN ImageEnd(c) ELSE ScanAt(c) + e.iMCU_row_num
    OBVIOUS
  <1>7. /\ SameSettings(e, comp') /\ comp'.is_last_pass = e.is_last_pass
        /\ comp'.iMCU_row_num = e.iMCU_row_num
        /\ pc'["encode"] = IF all THEN "close" ELSE "compress"
    BY <1>5, BufferIsSent
  <1>8. PICK i \in Nat : /\ Sent(c, arrays, end, i, files'[job.stego], comp'.buffer)
                         /\ all => i = end
    BY <1>5, BufferIsSent
  <1>9. SameSettings(c, comp')
    BY <1>2, <1>7, SettingsGoOn
  <1>10. pc'["encode"] \in {"close", "compress"} /\ ~Writing'
    BY <1>7 DEF Writing
  <1>11. ASSUME pc'["encode"] = "compress"
         PROVE  /\ SameSettings(c, comp') /\ dec'["encode"].coef_arrays = StegoArrays'
                /\ InOneScan(c)
                /\ \E j \in Nat : Sent(c, StegoArrays', SentSoFar(c)', j, files'[job'.stego], comp'.buffer)
    <2>1. ~all
      BY <1>7, <1>11
    <2>2. SentSoFar(c)' = end
      BY <1>6, <1>7, <2>1 DEF SentSoFar
    <2> QED BY <1>1, <1>2, <1>8, <1>9, <2>1, <2>2
  <1>12. ASSUME pc'["encode"] = "close"
         PROVE  InOneScan(c) /\ files'[job'.stego] = Beginning(c, StegoArrays', ImageEnd(c))
    <2>1. all
      BY <1>7, <1>12
    <2>2. Sent(c, arrays, end, end, files'[job.stego], comp'.buffer)
      BY <1>8, <2>1
    <2>3. files'[job.stego] = Beginning(c, arrays, end)
      BY <1>5, <2>2, AllIsSent
    <2> QED BY <1>1, <1>2, <1>6, <2>1, <2>3
  <1>13. Stage(c)'
    BY <1>2, <1>10, <1>11, <1>12 DEF Stage
  <1> QED BY <1>1, <1>13 DEF arrays

\* An encoder that goes on has met no error.
LEMMA NoErrorIsMet ==
  ASSUME CommandsOK, pc["encode"] = "compress", NEW e, IsCompress(e), NEW all \in BOOLEAN, Output(e, all),
         Alive'
  PROVE  e.error = "none"
  <1>1. PICK size \in Nat, part \in Int :
           /\ comp' = [e EXCEPT !.buffer = SubSeq(e.buffer, size + 1, Len(e.buffer)),
                                !.error = IF part < size THEN "JERR_FILE_WRITE" ELSE e.error]
           /\ pc' = [pc EXCEPT !["encode"] =
                       IF comp'.error # "none" THEN "exited" ELSE IF all THEN "close" ELSE "compress"]
    BY BufferIsWritten
  <1> DEFINE place == IF comp'.error # "none" THEN "exited" ELSE IF all THEN "close" ELSE "compress"
             rest == SubSeq(e.buffer, size + 1, Len(e.buffer))
             code == IF part < size THEN "JERR_FILE_WRITE" ELSE e.error
  <1>2. pc'["encode"] = place
    <2>1. "encode" \in DOMAIN pc /\ pc' = [pc EXCEPT !["encode"] = place]
      BY <1>1 DEF CommandsOK, ProcessesOK, Processes
    <2> HIDE DEF place
    <2> QED BY <2>1
  <1>3. comp'.error = "none"
    BY <1>2 DEF Alive
  <1>4. comp'.error = code
    <2>1. comp' = [e EXCEPT !.buffer = rest, !.error = code]
      BY <1>1
    <2> HIDE DEF rest, code
    <2> QED BY <2>1, FieldsOfAWriter
  <1> QED BY <1>3, <1>4

\* The headers of the frame and of the scan are sent.
LEMMA HeadersAreSent ==
  ASSUME CommandsOK, NEW c, Stage(c), PrepareForPass, Alive'
  PROVE  Stage(c)' /\ StegoArrays' = StegoArrays
  <1> DEFINE e == prepare_for_pass(comp)
  <1>1. /\ pc["encode"] = "compress" /\ ~comp.is_last_pass /\ Output(e, FALSE)
        /\ UNCHANGED <<job, purpose, dec, full, reduced, collection, seen>>
    BY DEF PrepareForPass
  <1>2. /\ IsCompress(comp) /\ comp.error = "none"
    BY <1>1 DEF CommandsOK, WriterReady, CompressorOK
  <1>3. SameSettings(c, comp) /\ Sendable(c) /\ IsCompress(c)
    BY <1>1 DEF Stage, Sendable
  <1>4. comp.restart_interval = 0
    BY <1>3 DEF SameSettings, SameParameters, Sendable
  <1>5. IsCompress(e)
    BY <1>2, PassIsPrepared
  <1>6. e.error = "none"
    <2> HIDE DEF e
    <2> QED BY <1>1, <1>5, NoErrorIsMet
  <1> DEFINE dqt == emit_dqt(c) \o emit_sof(c)
             dht == emit_dht(c) \o emit_sos(c)
             arrays == StegoArrays
             file == files[job.stego]
  <1>7. /\ SameSettings(comp, e) /\ InOneScan(comp) /\ e.is_last_pass /\ e.iMCU_row_num = 0
        /\ e.buffer = (comp.buffer \o (emit_dqt(comp) \o emit_sof(comp))) \o (emit_dht(comp) \o emit_sos(comp))
    BY <1>2, <1>4, <1>6, HeadersArePut
  <1>8. InOneScan(c) /\ e.buffer = (comp.buffer \o dqt) \o dht
    BY <1>3, <1>7, SettingsAreEnough
  <1> HIDE DEF e
  <1>9. /\ HeaderEnd(c) \in Nat /\ FrameAt(c) \in Nat /\ ScanAt(c) \in Nat
        /\ FrameAt(c) - HeaderEnd(c) \in Nat /\ ScanAt(c) - FrameAt(c) \in Nat
    <2> DEFINE h == HeaderEnd(c)
               f == FrameAt(c)
               s == ScanAt(c)
    <2>1. h \in Nat /\ f \in Nat /\ s \in Nat /\ h < f /\ f < s
      BY <1>3, PlacesOfTheImage
    <2> HIDE DEF h, f, s
    <2>2. f - h \in Nat /\ s - f \in Nat
      BY <2>1
    <2> QED BY <2>1, <2>2 DEF h, f, s
  <1>10. /\ dqt = [i \in 1 .. FrameAt(c) - HeaderEnd(c) |-> UnitAt(c, arrays, HeaderEnd(c) + i)]
         /\ dht = [i \in 1 .. ScanAt(c) - FrameAt(c) |-> UnitAt(c, arrays, FrameAt(c) + i)]
    BY <1>3, PartsOfTheImage
  <1> HIDE DEF dqt, dht, arrays, file
  <1>11. ASSUME NEW n \in Nat, Sent(c, arrays, HeaderEnd(c), n, file, comp.buffer)
         PROVE  Sent(c, arrays, ScanAt(c), n, file, e.buffer)
    <2> DEFINE h == HeaderEnd(c)
               f == FrameAt(c)
               s == ScanAt(c)
               first == comp.buffer \o dqt
    <2>1. h \in Nat /\ f \in Nat /\ s \in Nat /\ f - h \in Nat /\ s - f \in Nat
      BY <1>9
    <2>2. Sent(c, arrays, h, n, file, comp.buffer) /\ dqt = [i \in 1 .. f - h |-> UnitAt(c, arrays, h + i)]
      BY <1>10, <1>11
    <2>3. dht = [i \in 1 .. s - f |-> UnitAt(c, arrays, f + i)]
      BY <1>10
    <2> HIDE DEF h, f, s
    <2>4. Sent(c, arrays, h + (f - h), n, file, first)
      BY <2>1, <2>2, MoreIsPut
    <2>5. h + (f - h) = f /\ f + (s - f) = s
      BY <2>1
    <2>6. Sent(c, arrays, f, n, file, first)
      BY <2>4, <2>5
    <2> HIDE DEF first
    <2>7. Sent(c, arrays, f + (s - f), n, file, first \o dht)
      BY <2>1, <2>3, <2>6, MoreIsPut
    <2>8. e.buffer = first \o dht
      BY <1>8 DEF first
    <2> QED BY <2>5, <2>7, <2>8 DEF s
  <1>12. SentSoFar(c) = HeaderEnd(c)
    BY <1>1 DEF SentSoFar
  <1>13. ScanAt(c) = ScanAt(c) + e.iMCU_row_num
    BY <1>7, <1>9
  <1>14. \A n \in Nat : Sent(c, StegoArrays, SentSoFar(c), n, files[job.stego], comp.buffer) =>
                        Sent(c, StegoArrays, ScanAt(c), n, files[job.stego], e.buffer)
    BY <1>11, <1>12 DEF arrays, file
  <1> QED BY <1>1, <1>5, <1>7, <1>8, <1>9, <1>13, <1>14, StageGoesOn

\* The next row is sent.
LEMMA RowIsSent ==
  ASSUME CommandsOK, NEW c, Stage(c), CompressOutput, Alive'
  PROVE  Stage(c)' /\ StegoArrays' = StegoArrays
  <1> DEFINE e == compress_output(comp, dec["encode"].coef_arrays, TooLarge)
             r == comp.iMCU_row_num
             arrays == StegoArrays
             file == files[job.stego]
  <1>1. /\ pc["encode"] = "compress" /\ comp.is_last_pass /\ r < NoOfRows /\ Output(e, FALSE)
        /\ UNCHANGED <<job, purpose, dec, full, reduced, collection, seen>>
    BY Zenon DEF CompressOutput
  <1>2. /\ IsCompress(comp) /\ comp.error = "none" /\ DOMAIN comp.comp_info = DOMAIN dec["encode"].comp_info
        /\ dec["encode"].global_state = "DSTATE_STOPPING" /\ dec["encode"].error = "none"
        /\ IsDecompress(dec["encode"])
    BY <1>1 DEF CommandsOK, WriterReady, CompressorOK, ReadersReady, ReaderOK, Processes
  <1>3. /\ SameSettings(c, comp) /\ Sendable(c) /\ IsCompress(c) /\ InOneScan(c)
        /\ dec["encode"].coef_arrays = arrays
    BY <1>1 DEF Stage, Sendable
  <1>4. IsCompress(e)
    <2>1. \A ci \in DOMAIN comp.comp_info : \A q \in Rows : IsContent(dec["encode"].coef_arrays[ci][q])
      BY <1>2, ArraysAreRows
    <2> QED BY <1>1, <1>2, <2>1, RowIsCompressed
  <1>5. e = compress_output(comp, arrays, TooLarge)
    BY <1>3
  <1> HIDE DEF e, arrays
  <1>6. e.error = "none"
    BY <1>1, <1>4, NoErrorIsMet
  <1>7. /\ SameSettings(comp, e) /\ e.is_last_pass = comp.is_last_pass
        /\ e.iMCU_row_num = r + 1 /\ e.buffer = comp.buffer \o <<WrittenRow(comp, arrays, r + 1)>>
    BY <1>2, <1>5, <1>6, RowIsPut
  <1>8. r \in Nat /\ r + 1 \in Rows
    <2>1. r \in 0 .. NoOfRows /\ NoOfRows \in Nat
      BY <1>2, DefaultSlots DEF IsCompress, WriterOK
    <2> QED BY <1>1, <2>1 DEF Rows
  <1> HIDE DEF r
  <1>9. ScanAt(c) \in Nat
    BY <1>3, PlacesOfTheImage
  <1> DEFINE m == ScanAt(c) + r
             unit == WrittenRow(comp, arrays, r + 1)
  <1>10. m \in Nat /\ m + 1 = ScanAt(c) + (r + 1)
    BY <1>8, <1>9
  <1>11. unit = UnitAt(c, arrays, m + 1)
    <2>1. unit = WrittenRow(c, arrays, r + 1)
      BY <1>3, SettingsAreEnough
    <2>2. UnitAt(c, arrays, ScanAt(c) + (r + 1)) = WrittenRow(c, arrays, r + 1)
      BY <1>3, <1>8, PartsOfTheImage
    <2> HIDE DEF m, unit
    <2> QED BY <1>10, <2>1, <2>2
  <1>12. <<unit>> = [i \in 1 .. 1 |-> UnitAt(c, arrays, m + i)]
    <2> HIDE DEF m, unit
    <2> QED BY <1>11
  <1> HIDE DEF m, unit, file
  <1>13. ASSUME NEW n \in Nat, Sent(c, arrays, m, n, file, comp.buffer)
         PROVE  Sent(c, arrays, m + 1, n, file, e.buffer)
    <2> DEFINE units == <<unit>>
    <2>1. units = [i \in 1 .. 1 |-> UnitAt(c, arrays, m + i)]
      BY <1>12
    <2> HIDE DEF units
    <2>2. Sent(c, arrays, m + 1, n, file, comp.buffer \o units)
      BY <1>10, <1>13, <2>1, MoreIsPut
    <2> QED BY <1>7, <2>2 DEF units, unit
  <1>14. SentSoFar(c) = m
    BY <1>1 DEF SentSoFar, m, r
  <1>15. \A n \in Nat : Sent(c, StegoArrays, SentSoFar(c), n, files[job.stego], comp.buffer) =>
                        Sent(c, StegoArrays, m + 1, n, files[job.stego], e.buffer)
    BY <1>13, <1>14 DEF arrays, file
  <1>16. m + 1 \in Nat /\ m + 1 = ScanAt(c) + e.iMCU_row_num /\ e.is_last_pass
    BY <1>1, <1>7, <1>10
  <1> QED BY <1>1, <1>3, <1>4, <1>7, <1>15, <1>16, StageGoesOn

\* The end of the image is sent, and all that is left in the buffer.
LEMMA TrailerIsSent ==
  ASSUME CommandsOK, NEW c, Stage(c), FinishCompress, Alive'
  PROVE  Stage(c)' /\ StegoArrays' = StegoArrays
  <1> DEFINE e == write_file_trailer(comp)
             arrays == StegoArrays
             file == files[job.stego]
             m == ScanAt(c) + NoOfRows
             units == <<EOI>>
  <1>1. /\ pc["encode"] = "compress" /\ comp.is_last_pass /\ comp.iMCU_row_num = NoOfRows /\ Output(e, TRUE)
        /\ UNCHANGED <<job, purpose, dec, full, reduced, collection, seen>>
    BY DEF FinishCompress
  <1>2. IsCompress(comp) /\ comp.error = "none"
    BY <1>1 DEF CommandsOK, WriterReady, CompressorOK
  <1>3. SameSettings(c, comp) /\ Sendable(c) /\ IsCompress(c)
    BY <1>1 DEF Stage, Sendable
  <1>4. IsCompress(e) /\ SameSettings(comp, e) /\ e.buffer = comp.buffer \o units
    <2>1. e = Put(comp, units)
      BY DEF write_file_trailer
    <2>2. IsCompress(e)
      BY <1>2, TrailerIsWritten
    <2> HIDE DEF e, units
    <2>3. SameSettings(comp, e) /\ e.buffer = comp.buffer \o units
      BY <1>2, <2>1, PutBehind
    <2> QED BY <2>2, <2>3
  <1>5. ScanAt(c) \in Nat /\ NoOfRows \in Nat /\ ImageEnd(c) = ScanAt(c) + NoOfRows + 1
    BY <1>3, PlacesOfTheImage
  <1>6. m \in Nat /\ m + 1 = ImageEnd(c) /\ SentSoFar(c) = m
    BY <1>1, <1>5 DEF SentSoFar
  <1>7. UnitAt(c, arrays, m + 1) = EOI
    BY <1>3, <1>6, PartsOfTheImage
  <1> HIDE DEF e, arrays, m, file
  <1>8. units = [i \in 1 .. 1 |-> UnitAt(c, arrays, m + i)]
    BY <1>7
  <1> HIDE DEF units
  <1>9. ASSUME NEW n \in Nat, Sent(c, arrays, m, n, file, comp.buffer)
        PROVE  Sent(c, arrays, m + 1, n, file, e.buffer)
    <2>1. Sent(c, arrays, m + 1, n, file, comp.buffer \o units)
      BY <1>6, <1>8, <1>9, MoreIsPut
    <2> QED BY <1>4, <2>1
  <1>10. \A n \in Nat : Sent(c, StegoArrays, SentSoFar(c), n, files[job.stego], comp.buffer) =>
                        Sent(c, StegoArrays, m + 1, n, files[job.stego], e.buffer)
    BY <1>6, <1>9 DEF arrays, file
  <1>11. m + 1 \in Nat
    BY <1>6
  <1> QED BY <1>1, <1>4, <1>6, <1>10, <1>11, StageGoesOn

\* The objects are destroyed, and the file stays.
LEMMA StageIsClosed ==
  ASSUME CommandsOK, NEW c, Stage(c), DestroyStores
  PROVE  pc'["encode"] = "embedded" /\ Stage(c)' /\ StegoArrays' = StegoArrays
  <1>1. /\ pc["encode"] = "close" /\ pc'["encode"] = "embedded"
        /\ UNCHANGED <<job, files, purpose, full, reduced, collection, seen>>
    BY DEF DestroyStores, Go, CommandsOK, ProcessesOK, Processes
  <1>2. StegoArrays' = StegoArrays
    BY <1>1 DEF StegoArrays, Wet
  <1> QED BY <1>1, <1>2 DEF Stage, Writing

\* While the cover is read for the last time nothing is sent.
LEMMA StageWaits ==
  ASSUME CommandsOK, NEW c, Stage(c), Writing, NEW p, p = "encode",
         StartReadCoefficients(p) \/ ReadCoefficients(p), Alive'
  PROVE  Writing' /\ Stage(c)' /\ StegoArrays' = StegoArrays
  <1>1. /\ UNCHANGED <<job, files, purpose, comp, full, reduced, collection, seen>>
        /\ \E x \in {"exited", "coefficients"} : pc' = [pc EXCEPT !["encode"] = x]
    BY DEF StartReadCoefficients, ReadCoefficients, Go
  <1>2. pc["encode"] = "coefficients" /\ pc'["encode"] = "coefficients"
    BY <1>1 DEF CommandsOK, ProcessesOK, Processes, Writing, Alive
  <1> QED BY <1>1, <1>2, StageStays DEF Writing

\* An encoder that has begun an image does these steps, and no others.
LEMMA StepsOfSending ==
  ASSUME Encode, Sending
  PROVE  \/ Writing /\ (StartReadCoefficients("encode") \/ ReadCoefficients("encode"))
         \/ SaveDCT_Coefficients \/ PrepareForPass \/ CompressOutput \/ FinishCompress \/ DestroyStores
  <1>1. CASE StartReadCoefficients("encode") \/ ReadCoefficients("encode")
    BY <1>1 DEF StartReadCoefficients, ReadCoefficients, HeaderRead, Sending, Writing
  <1>2. CASE \/ Start("encode") \/ DecompressionStarter("encode") \/ ReadHeader("encode")
             \/ LoadDCT_Coefficients("encode") \/ AquireExistingTables \/ AquireTablesOfQuality
             \/ Inject \/ CompressionStarter
    <2>1. \/ pc["encode"] \in {"start", "open", "header", "derive"}
          \/ pc["encode"] = "coefficients" /\ purpose["encode"] = "read"
      BY <1>2 DEF Start, DecompressionStarter, ReadHeader, LoadDCT_Coefficients, Loaded, HeaderRead,
                  AquireExistingTables, AquireTablesOfQuality, AquireTablesFrom, Inject,
                  CompressionStarter, StartWith
    <2> QED BY <2>1 DEF Sending, Writing
  <1> QED BY <1>1, <1>2 DEF Encode

\* It does them until the image is complete, or it fails.
LEMMA SendingGoesOn ==
  ASSUME CommandsOK, Encode, Alive', Sending
  PROVE  Sending' /\ seen' = seen
  <1>1. DOMAIN pc = Processes /\ "encode" \in Processes
    BY DEF CommandsOK, ProcessesOK, Processes
  <1>2. CASE Writing /\ (StartReadCoefficients("encode") \/ ReadCoefficients("encode"))
    BY <1>1, <1>2 DEF StartReadCoefficients, ReadCoefficients, Go, Sending, Writing, Alive
  <1>3. CASE SaveDCT_Coefficients \/ DestroyStores
    BY <1>1, <1>3 DEF SaveDCT_Coefficients, DestroyStores, Go, Sending, Alive
  <1>4. CASE PrepareForPass \/ CompressOutput \/ FinishCompress
    <2>1. seen' = seen /\ pc["encode"] = "compress"
      BY <1>4 DEF PrepareForPass, CompressOutput, FinishCompress
    <2>2. \E x \in {"exited", "close", "compress"} : pc' = [pc EXCEPT !["encode"] = x]
      BY <1>4, <2>1, Zenon DEF PrepareForPass, CompressOutput, FinishCompress, Output
    <2> QED BY <1>1, <2>1, <2>2 DEF Sending, Alive
  <1> QED BY <1>2, <1>3, <1>4, StepsOfSending

\* The encoder goes on with the image it has begun.
LEMMA EncoderSendsOn ==
  ASSUME CommandsOK, OnlyTheStegoImageChanges, DistinctNames, CoverKnown, Encode, Alive',
         Sending, NEW c, Stage(c)
  PROVE  Stage(c)' /\ StegoArrays' = StegoArrays
  BY StepsOfSending, StageWaits, StageIsSaved, HeadersAreSent, RowIsSent, TrailerIsSent, StageIsClosed

\* What a decoder has that has found the image, or a part of it, at the name of
\* the stego image.
Follows(d, c, arrays) ==
  \/ d.warned
  \/ IF d.global_state = "DSTATE_STOPPING" THEN EndState(d, c, arrays)
     ELSE ~d.eoi_reached /\ \E k \in Nat : AtUnit(d, c, arrays, k)

DecoderFollows(c) ==
  /\ pc["decode"] \in {"header", "coefficients"} =>
       dec["decode"].file = job.stego /\ Follows(dec["decode"], c, StegoArrays)
  /\ pc["decode"] \in {"derive", "retrieved"} =>
       seen["decode"].warned \/ EndState(seen["decode"], c, StegoArrays)

NothingToRead ==
  job.stego \notin DOMAIN files /\ pc["decode"] \in {"start", "open", "aborted"}

\* The object after a call of the library that reads.
Told(d, x) == IF d.global_state = "DSTATE_RDCOEFS" /\ x.eoi_reached THEN Stopped(x) ELSE x

\* An object that has warned keeps the warning, and one that has not follows the
\* image.
LEMMA DecoderReads ==
  ASSUME NEW c, Sendable(c), NEW arrays, NEW m \in Nat, NEW content, content = Beginning(c, arrays, m),
         IsStream(content), m >= ScanAt(c) => InOneScan(c),
         NEW d, IsDecompress(d), d.error = "none", Follows(d, c, arrays),
         d.global_state \in {"DSTATE_START", "DSTATE_RDCOEFS"},
         NEW x, x = ConsumeInput(d, content), x.error = "none",
         NEW e, e = Told(d, x)
  PROVE  e.file = d.file /\ Follows(e, c, arrays)
  <1>1. /\ IsDecompress(x) /\ x.file = d.file /\ (d.warned => x.warned)
        /\ IF d.global_state = "DSTATE_START" THEN x.global_state \in {"DSTATE_START", "DSTATE_READY"}
           ELSE x.global_state = d.global_state
    BY InputIsConsumed DEF Advances
  <1>2. x.warned \/ \E k \in Nat : AtUnit(x, c, arrays, k)
    <2>1. CASE d.warned
      BY <1>1, <2>1
    <2>2. CASE ~d.warned
      <3>1. PICK k \in Nat : ~d.eoi_reached /\ AtUnit(d, c, arrays, k)
        BY <2>2 DEF Follows
      <3>2. x.error # "none" \/ x.warned \/ AtUnit(x, c, arrays, k + 1)
        BY <3>1, ImageGoesOn
      <3> QED BY <3>2
    <2> QED BY <2>1, <2>2
  <1>3. CASE d.global_state = "DSTATE_RDCOEFS" /\ x.eoi_reached
    <2>1. /\ e.file = x.file /\ e.warned = x.warned /\ e.global_state = "DSTATE_STOPPING"
          /\ (EndState(x, c, arrays) => EndState(e, c, arrays))
      BY <1>1, <1>3 DEF IsDecompress, jpeg_decompress_struct, EndState, Told, Stopped
    <2>2. ASSUME NEW k \in Nat, AtUnit(x, c, arrays, k)
          PROVE  EndState(x, c, arrays)
      BY <1>3, <2>2 DEF AtUnit, HeaderState, Sound, ReadyState, RowState
    <2> QED BY <1>1, <1>2, <2>1, <2>2 DEF Follows
  <1>4. CASE d.global_state = "DSTATE_RDCOEFS" /\ ~x.eoi_reached
    BY <1>1, <1>2, <1>4 DEF Follows, Told
  <1>5. CASE d.global_state = "DSTATE_START"
    <2>1. e = x
      BY <1>5 DEF Told
    <2>2. CASE d.warned
      BY <1>1, <2>1, <2>2 DEF Follows
    <2>3. CASE ~d.warned
      <3>1. ~d.eoi_reached
        BY <1>5, <2>3 DEF Follows
      <3>2. ~x.eoi_reached
        BY <1>5, <3>1, HeaderIsNotTheEnd
      <3> QED BY <1>1, <1>2, <1>5, <2>1, <3>2 DEF Follows
    <2> QED BY <2>2, <2>3
  <1> QED BY <1>3, <1>4, <1>5

\* The arrays are made, and nothing is read.
LEMMA DecoderStartsToRead ==
  ASSUME NEW c, Sendable(c), NEW arrays, NEW d, IsDecompress(d), d.error = "none", Follows(d, c, arrays),
         d.global_state = "DSTATE_READY", NEW e, e = StartCoefficients(d), e.error = "none"
  PROVE  e.file = d.file /\ Follows(e, c, arrays)
  <1>1. e.file = d.file /\ e.warned = d.warned /\ e.eoi_reached = d.eoi_reached
        /\ e.global_state = "DSTATE_RDCOEFS"
    BY CoefficientsAreStarted DEF Keeps, SameSource
  <1>2. CASE d.warned
    BY <1>1, <1>2 DEF Follows
  <1>3. CASE ~d.warned
    <2>1. PICK k \in Nat : ~d.eoi_reached /\ AtUnit(d, c, arrays, k)
      BY <1>3 DEF Follows
    <2>2. AtUnit(e, c, arrays, k)
      BY <2>1, ScanGoesOn
    <2> QED BY <1>1, <2>1, <2>2 DEF Follows
  <1> QED BY <1>2, <1>3

\* A step of the decoder while the image is sent.
LEMMA DecoderFollowsOn ==
  ASSUME CommandsOK, DOMAIN seen = Processes, Sending, NEW c, Stage(c), DecoderFollows(c), Decode
  PROVE  DecoderFollows(c)'
  <1> DEFINE d == dec["decode"]
             content == files[d.file]
             arrays == StegoArrays
  <1>1. /\ DOMAIN pc = Processes /\ DOMAIN dec = Processes /\ DOMAIN seen = Processes
        /\ "decode" \in Processes
    BY DEF CommandsOK, ProcessesOK, ReadersReady, Processes
  <1>2. job' = job /\ StegoArrays' = StegoArrays
    BY DecoderLeavesTheEncoder DEF Encoders, StegoArrays, Wet
  <1>3. Sendable(c)
    BY DEF Stage
  <1>4. ASSUME pc["decode"] \in {"header", "coefficients"}
        PROVE  /\ IsDecompress(d) /\ d.error = "none" /\ d.file = job.stego /\ Follows(d, c, arrays)
               /\ IsStream(content)
    BY <1>1, <1>4, ObjectBeingRead DEF DecoderFollows
  <1>5. PICK m \in Nat : /\ files[job.stego] = Beginning(c, StegoArrays, m)
                         /\ m >= ScanAt(c) => InOneScan(c)
    BY PartIsWritten
  <1>6. CASE Start("decode") \/ Retrieve
    <2>1. /\ UNCHANGED <<dec, seen>> /\ pc'["decode"] \notin {"header", "coefficients"}
          /\ pc'["decode"] \in {"derive", "retrieved"} => pc["decode"] = "derive"
      BY <1>1, <1>6 DEF Start, Retrieve, Go
    <2> QED BY <1>2, <2>1 DEF DecoderFollows
  <1>7. CASE DecompressionStarter("decode")
    <2> DEFINE e == CreateDecompress(job.stego)
    <2>1. /\ pc'["decode"] \in {"header", "aborted"}
          /\ pc'["decode"] = "header" => dec'["decode"] = e
      BY <1>1, <1>7 DEF DecompressionStarter, Go, SetDec, Opened
    <2>2. AtUnit(e, c, arrays, 0) /\ e.file = job.stego /\ ~e.eoi_reached /\ e.global_state = "DSTATE_START"
      BY <1>3, BeginsAtZero, FieldsOfANewObject
    <2> HIDE DEF e, arrays
    <2>3. Follows(e, c, arrays)
      BY <2>2 DEF Follows
    <2> QED BY <1>2, <2>1, <2>2, <2>3 DEF DecoderFollows, arrays
  <1>8. CASE ReadHeader("decode") \/ ReadCoefficients("decode")
    <2> DEFINE x == ConsumeInput(d, content)
               e == Told(d, x)
               place == IF x.error # "none" THEN "exited" ELSE pc["decode"]
    <2>1. /\ pc["decode"] \in {"header", "coefficients"}
          /\ d.global_state \in {"DSTATE_START", "DSTATE_RDCOEFS"}
      BY <1>8 DEF ReadHeader, ReadCoefficients
    <2>2. dec' = [dec EXCEPT !["decode"] = e] /\ pc' = [pc EXCEPT !["decode"] = place]
      <3>1. CASE ReadHeader("decode")
        <4>1. /\ pc["decode"] = "header" /\ d.global_state = "DSTATE_START"
              /\ dec' = [dec EXCEPT !["decode"] = x]
              /\ pc' = [pc EXCEPT !["decode"] = IF x.error # "none" THEN "exited" ELSE "header"]
          BY <3>1, Zenon DEF ReadHeader, SetDec, Go
        <4>2. e = x /\ place = IF x.error # "none" THEN "exited" ELSE "header"
          BY <4>1 DEF Told
        <4> QED BY <4>1, <4>2, Zenon
      <3>2. CASE ReadCoefficients("decode")
        <4> DEFINE y == IF x.eoi_reached THEN [x EXCEPT !.global_state = "DSTATE_STOPPING"] ELSE x
        <4>1. /\ pc["decode"] = "coefficients" /\ d.global_state = "DSTATE_RDCOEFS"
              /\ dec' = [dec EXCEPT !["decode"] = y]
              /\ pc' = [pc EXCEPT !["decode"] = IF x.error # "none" THEN "exited" ELSE "coefficients"]
          BY <3>2, Zenon DEF ReadCoefficients, SetDec, Go
        <4>2. e = y /\ place = IF x.error # "none" THEN "exited" ELSE "coefficients"
          BY <4>1, Zenon DEF Told, Stopped
        <4> QED BY <4>1, <4>2, Zenon
      <3> QED BY <1>8, <3>1, <3>2
    <2>3. /\ IsDecompress(d) /\ d.error = "none" /\ d.file = job.stego /\ Follows(d, c, arrays)
          /\ IsStream(content) /\ content = Beginning(c, arrays, m)
      BY <1>4, <1>5, <2>1
    <2> HIDE DEF place, e, x, content, arrays
    <2>4. dec'["decode"] = e /\ pc'["decode"] = place
      BY <1>1, <2>2
    <2>5. x.error = "none" => e.file = d.file /\ Follows(e, c, arrays)
      <3> SUFFICES ASSUME x.error = "none" PROVE e.file = d.file /\ Follows(e, c, arrays)
        OBVIOUS
      <3>1. x = ConsumeInput(d, content)
        BY DEF x
      <3>2. e = Told(d, x)
        BY DEF e
      <3> HIDE DEF d
      <3> QED BY <1>3, <1>5, <2>1, <2>3, <3>1, <3>2, DecoderReads
    <2>6. place \in {"header", "coefficients"} => x.error = "none"
      BY DEF place
    <2>7. pc'["decode"] \notin {"derive", "retrieved"}
      BY <2>1, <2>4 DEF place
    <2> QED BY <1>2, <2>3, <2>4, <2>5, <2>6, <2>7 DEF DecoderFollows, arrays
  <1>9. CASE StartReadCoefficients("decode")
    <2> DEFINE e == StartCoefficients(d)
               place == IF e.error # "none" THEN "exited" ELSE "coefficients"
    <2>1. /\ pc["decode"] \in {"header", "coefficients"} /\ d.global_state = "DSTATE_READY"
          /\ dec' = [dec EXCEPT !["decode"] = e] /\ pc' = [pc EXCEPT !["decode"] = place]
      BY <1>9, Zenon DEF StartReadCoefficients, HeaderRead, SetDec, Go
    <2>2. IsDecompress(d) /\ d.error = "none" /\ d.file = job.stego /\ Follows(d, c, arrays)
      BY <1>4, <2>1
    <2>3. e.error = "none" => e.file = d.file /\ Follows(e, c, arrays)
      BY <1>3, <2>1, <2>2, DecoderStartsToRead
    <2> HIDE DEF e, place, arrays
    <2>4. dec'["decode"] = e /\ pc'["decode"] = place
      BY <1>1, <2>1
    <2> QED BY <1>2, <2>2, <2>3, <2>4 DEF DecoderFollows, arrays, place
  <1>10. CASE LoadDCT_Coefficients("decode")
    <2>1. /\ pc["decode"] = "coefficients" /\ d.global_state = "DSTATE_STOPPING"
          /\ pc'["decode"] = "derive" /\ seen'["decode"] = d
      BY <1>1, <1>10 DEF LoadDCT_Coefficients, Loaded, Go
    <2>2. Follows(d, c, arrays)
      BY <1>4, <2>1
    <2> QED BY <1>2, <2>1, <2>2 DEF DecoderFollows, Follows
  <1> QED BY <1>6, <1>7, <1>8, <1>9, <1>10 DEF Decode

\* A decoder that comes before the image finds nothing.
LEMMA DecoderFindsNothing ==
  ASSUME CommandsOK, DOMAIN seen = Processes, NothingToRead, Decode
  PROVE  NothingToRead'
  <1>1. DOMAIN pc = Processes /\ "decode" \in Processes
    BY DEF CommandsOK, ProcessesOK, Processes
  <1>2. files' = files /\ job' = job
    BY DecoderLeavesTheEncoder DEF Encoders
  <1>3. pc'["decode"] \in {"open", "aborted"}
    BY <1>1 DEF NothingToRead, Decode, Start, DecompressionStarter, ReadHeader, StartReadCoefficients,
                ReadCoefficients, LoadDCT_Coefficients, Loaded, Retrieve, HeaderRead, Go, Opened
  <1> QED BY <1>2, <1>3 DEF NothingToRead

\* The encoder begins to send when it has opened the stego image, and makes no
\* such file before.
LEMMA EncoderBegins ==
  ASSUME CommandsOK, OnlyTheStegoImageChanges, DistinctNames, CoverKnown, Encode, Alive', ~Sending
  PROVE  /\ Sending' /\ DistinctIds(seen["encode"]) => \E c : Stage(c)'
         /\ seen'["encode"] = seen["encode"] \/ ~Sending'
         /\ ~Sending' => (job.stego \in DOMAIN files' => job.stego \in DOMAIN files)
  <1>1. DOMAIN pc = Processes /\ "encode" \in Processes /\ DOMAIN purpose = Processes
    BY DEF CommandsOK, ProcessesOK, Processes
  <1>2. CASE CompressionStarter
    <2>1. seen' = seen /\ pc'["encode"] \in {"aborted", "exited", "coefficients"}
          /\ purpose'["encode"] = "write"
      BY <1>1, <1>2 DEF CompressionStarter, StartWith, Go
    <2>2. Sending'
      BY <2>1 DEF Alive, Sending, Writing
    <2> QED BY <1>2, <2>1, <2>2, StageBegins
  <1>3. CASE \/ Start("encode") \/ DecompressionStarter("encode") \/ ReadHeader("encode")
             \/ LoadDCT_Coefficients("encode") \/ AquireExistingTables \/ Inject
    <2>1. /\ files' = files
          /\ pc'["encode"] \in {"open", "header", "derive", "aborted", "exited", "crashed", "refused"}
      BY <1>1, <1>3 DEF Start, DecompressionStarter, ReadHeader, LoadDCT_Coefficients, Loaded,
                        AquireExistingTables, Inject, Go
    <2> QED BY <2>1 DEF Sending, Writing
  <1>4. CASE StartReadCoefficients("encode") \/ ReadCoefficients("encode")
    <2>1. files' = files /\ purpose' = purpose /\ pc'["encode"] \in {"exited", "coefficients"}
      BY <1>1, <1>4 DEF StartReadCoefficients, ReadCoefficients, Go
    <2>2. purpose["encode"] # "write"
      BY <1>4 DEF StartReadCoefficients, ReadCoefficients, HeaderRead, Sending, Writing
    <2> QED BY <2>1, <2>2 DEF Sending, Writing
  <1>5. CASE AquireTablesOfQuality
    <2>1. /\ files' = files \/ files' = Truncate(Temp)
          /\ pc'["encode"] \in {"derive", "aborted", "exited"}
      BY <1>1, <1>5 DEF AquireTablesOfQuality, AquireTablesFrom, Go
    <2>2. job.stego \in DOMAIN files' => job.stego \in DOMAIN files
      BY <2>1 DEF Truncate, DistinctNames
    <2> QED BY <2>1, <2>2 DEF Sending, Writing
  <1>6. ~(SaveDCT_Coefficients \/ PrepareForPass \/ CompressOutput \/ FinishCompress \/ DestroyStores)
    BY DEF SaveDCT_Coefficients, PrepareForPass, CompressOutput, FinishCompress, DestroyStores, Sending, Writing
  <1> QED BY <1>2, <1>3, <1>4, <1>5, <1>6 DEF Encode

-----------------------------------------------------------------------------
(* All of it is kept by every step, and at the end it says what is read    *)
(* back.                                                                   *)
ImageIsThere ==
  pc["encode"] \in {"close", "embedded"} => job.stego \in DOMAIN files /\ purpose["encode"] = "write"

StegoImage ==
  /\ DOMAIN seen = Processes /\ ImageIsThere
  /\ DistinctNames /\ Alive => CoverKnown
  /\ DistinctNames /\ Alive /\ ~Sending /\ job.stego \notin DOMAIN job.files => NothingToRead
  /\ DistinctNames /\ Sending /\ DistinctIds(seen["encode"]) =>
       \E c : Stage(c) /\ (job.stego \notin DOMAIN job.files => DecoderFollows(c))

\* At first neither has done anything.
LEMMA StegoImageIsNotBegun ==
  ASSUME Init
  PROVE  StegoImage
  <1>1. /\ DOMAIN seen = Processes /\ purpose["encode"] = "read" /\ files = job.files
        /\ pc["encode"] = "start" /\ pc["decode"] = "start"
    BY DEF Init, Processes
  <1> QED BY <1>1 DEF StegoImage, CoverKnown, CoverIsOpen, CoverIsRead, TablesAreKnown, Opening,
                      NothingToRead, Sending, Writing, ImageIsThere

\* The file that was written stays where it is.
LEMMA ImageStaysThere ==
  ASSUME CommandsOK, ImageIsThere, Encode
  PROVE  ImageIsThere'
  <1>1. DOMAIN pc = Processes /\ "encode" \in Processes
    BY DEF CommandsOK, ProcessesOK, Processes
  <1>2. CASE FinishCompress
    <2>1. /\ DOMAIN files' = DOMAIN files /\ UNCHANGED <<job, purpose>> /\ pc["encode"] = "compress"
      BY <1>2, Zenon DEF FinishCompress, Output
    <2>2. job.stego \in DOMAIN files /\ purpose["encode"] = "write"
      BY <2>1 DEF CommandsOK, WriterReady, CompressorOK
    <2> QED BY <2>1, <2>2 DEF ImageIsThere
  <1>3. CASE DestroyStores
    BY <1>1, <1>3 DEF DestroyStores, Go, ImageIsThere
  <1>4. CASE PrepareForPass \/ CompressOutput
    <2>1. pc["encode"] = "compress"
      BY <1>4 DEF PrepareForPass, CompressOutput
    <2>2. \E x \in {"exited", "compress"} : pc' = [pc EXCEPT !["encode"] = x]
      BY <1>4, <2>1, Zenon DEF PrepareForPass, CompressOutput, Output
    <2> QED BY <1>1, <2>2 DEF ImageIsThere
  <1>5. CASE ~(FinishCompress \/ DestroyStores \/ PrepareForPass \/ CompressOutput)
    <2>1. pc'["encode"] \notin {"close", "embedded"}
      BY <1>1, <1>5 DEF Encode, Start, DecompressionStarter, ReadHeader, StartReadCoefficients, ReadCoefficients,
           LoadDCT_Coefficients, Loaded, AquireExistingTables, AquireTablesOfQuality, AquireTablesFrom,
           Inject, CompressionStarter, StartWith, SaveDCT_Coefficients, Go
    <2> QED BY <2>1 DEF ImageIsThere
  <1> QED BY <1>2, <1>3, <1>4, <1>5

\* A step of the encoder.
LEMMA EncoderKeepsTheImage ==
  ASSUME CommandsOK, OnlyTheStegoImageChanges, StegoImage, Encode
  PROVE  StegoImage'
  <1>1. /\ UNCHANGED job /\ dec'["decode"] = dec["decode"] /\ pc'["decode"] = pc["decode"]
        /\ seen'["decode"] = seen["decode"] /\ DOMAIN seen' = Processes
    BY EncoderLeavesTheDecoder DEF StegoImage
  <1>2. Alive
    BY DEF Encode, Start, DecompressionStarter, ReadHeader, StartReadCoefficients, ReadCoefficients,
           LoadDCT_Coefficients, Loaded, AquireExistingTables, AquireTablesOfQuality, AquireTablesFrom,
           Inject, CompressionStarter, StartWith, SaveDCT_Coefficients, PrepareForPass, CompressOutput,
           FinishCompress, DestroyStores, HeaderRead, Alive
  <1>3. (DistinctNames' <=> DistinctNames) /\ (Sending' => Alive')
    BY <1>1 DEF DistinctNames, Sending, Writing, Alive
  <1>4. CASE ~(DistinctNames /\ Alive')
    BY <1>1, <1>3, <1>4, ImageStaysThere DEF StegoImage
  <1>5. CASE DistinctNames /\ Alive'
    <2>1. CoverKnown /\ CoverKnown'
      BY <1>2, <1>5, EncoderKnowsTheCover DEF StegoImage
    <2>2. CASE Sending
      <3>1. ASSUME DistinctIds(seen'["encode"])
            PROVE  \E c : Stage(c)' /\ (job.stego \notin DOMAIN job.files => DecoderFollows(c)')
        <4>1. ASSUME NEW c, Stage(c)
              PROVE  Stage(c)' /\ StegoArrays' = StegoArrays
          BY <1>5, <2>1, <2>2, <4>1, EncoderSendsOn
        <4>2. seen' = seen
          BY <1>5, <2>2, SendingGoesOn
        <4>3. PICK c : Stage(c) /\ (job.stego \notin DOMAIN job.files => DecoderFollows(c))
          BY <1>5, <2>2, <3>1, <4>2 DEF StegoImage
        <4>4. DecoderFollows(c) => DecoderFollows(c)'
          BY <1>1, <4>1, <4>3 DEF DecoderFollows
        <4> QED BY <4>1, <4>3, <4>4
      <3>2. Sending'
        BY <1>5, <2>2, SendingGoesOn
      <3> QED BY <1>1, <1>3, <2>1, <3>1, <3>2, ImageStaysThere DEF StegoImage
    <2>3. CASE ~Sending
      <3>1. /\ Sending' /\ DistinctIds(seen["encode"]) => \E c : Stage(c)'
            /\ seen'["encode"] = seen["encode"] \/ ~Sending'
            /\ ~Sending' => (job.stego \in DOMAIN files' => job.stego \in DOMAIN files)
        BY <1>5, <2>1, <2>3, EncoderBegins
      <3>2. job.stego \notin DOMAIN job.files => NothingToRead
        BY <1>2, <1>5, <2>3 DEF StegoImage
      <3>3. ASSUME ~Sending', job.stego \notin DOMAIN job.files
            PROVE  NothingToRead'
        BY <1>1, <3>1, <3>2, <3>3 DEF NothingToRead
      <3>4. ASSUME Sending', DistinctIds(seen'["encode"])
            PROVE  \E c : Stage(c)' /\ (job.stego \notin DOMAIN job.files => DecoderFollows(c)')
        <4>1. PICK c : Stage(c)'
          BY <3>1, <3>4
        <4>2. job.stego \notin DOMAIN job.files => DecoderFollows(c)'
          BY <1>1, <3>2 DEF NothingToRead, DecoderFollows
        <4> QED BY <4>1, <4>2
      <3> QED BY <1>1, <1>3, <2>1, <3>3, <3>4, ImageStaysThere DEF StegoImage
    <2> QED BY <2>2, <2>3
  <1> QED BY <1>4, <1>5

\* A step of the decoder.
LEMMA DecoderKeepsTheImage ==
  ASSUME CommandsOK, StegoImage, Decode
  PROVE  StegoImage'
  <1>1. /\ UNCHANGED <<job, files, comp, full, reduced>> /\ DOMAIN seen' = Processes
        /\ purpose'["encode"] = purpose["encode"] /\ pc'["encode"] = pc["encode"]
        /\ dec'["encode"] = dec["encode"] /\ collection'["encode"] = collection["encode"]
        /\ seen'["encode"] = seen["encode"]
    BY DecoderLeavesTheEncoder DEF StegoImage, Encoders
  <1>2. (DistinctNames' <=> DistinctNames) /\ (Sending' <=> Sending) /\ (Alive' <=> Alive)
    BY <1>1 DEF DistinctNames, Sending, Writing, Alive
  <1>3. CoverKnown => CoverKnown'
    BY <1>1, CoverStaysKnown DEF Encoders
  <1>4. NothingToRead => NothingToRead'
    BY DecoderFindsNothing DEF StegoImage
  <1>5. ASSUME NEW c, Sending, Stage(c)
        PROVE  Stage(c)' /\ (DecoderFollows(c) => DecoderFollows(c)')
    <2>1. Stage(c)'
      BY <1>1, <1>5, StageStays
    <2>2. DecoderFollows(c) => DecoderFollows(c)'
      BY <1>5, DecoderFollowsOn DEF StegoImage
    <2> QED BY <2>1, <2>2
  <1>6. ASSUME DistinctNames, Sending, DistinctIds(seen["encode"])
        PROVE  \E c : Stage(c)' /\ (job.stego \notin DOMAIN job.files => DecoderFollows(c)')
    <2>1. PICK c : Stage(c) /\ (job.stego \notin DOMAIN job.files => DecoderFollows(c))
      BY <1>6 DEF StegoImage
    <2> QED BY <1>5, <1>6, <2>1
  <1>7. ImageIsThere'
    BY <1>1 DEF StegoImage, ImageIsThere
  <1> QED BY <1>1, <1>2, <1>3, <1>4, <1>6, <1>7 DEF StegoImage

\* Every step.
LEMMA StegoImageGoesOn ==
  ASSUME CommandsOK, OnlyTheStegoImageChanges, StegoImage, [Next]_vars
  PROVE  StegoImage'
  <1>1. CASE UNCHANGED vars
    <2>1. (DistinctNames' <=> DistinctNames) /\ (Sending' <=> Sending) /\ (Alive' <=> Alive)
      BY <1>1 DEF vars, DistinctNames, Sending, Writing, Alive
    <2>2. CoverKnown => CoverKnown'
      BY <1>1, CoverStaysKnown DEF vars, Encoders, StegoImage
    <2>3. \A c : Stage(c) => Stage(c)' /\ StegoArrays' = StegoArrays
      BY <1>1, StageStays DEF vars
    <2>4. ASSUME NEW c, Stage(c), DecoderFollows(c)
          PROVE  DecoderFollows(c)'
      BY <1>1, <2>3, <2>4 DEF vars, DecoderFollows
    <2>5. NothingToRead => NothingToRead'
      BY <1>1 DEF vars, NothingToRead
    <2>6. ImageIsThere'
      BY <1>1 DEF vars, StegoImage, ImageIsThere
    <2> QED BY <1>1, <2>1, <2>2, <2>3, <2>4, <2>5, <2>6 DEF vars, StegoImage
  <1>2. CASE Encode
    BY <1>2, EncoderKeepsTheImage
  <1>3. CASE Decode
    BY <1>3, DecoderKeepsTheImage
  <1> QED BY <1>1, <1>2, <1>3 DEF Next

\* What was read of the cover is an object at its end.
LEMMA CoverAtItsEnd ==
  ASSUME CommandsOK, CoverKnown, purpose["encode"] # "read"
  PROVE  /\ IsDecompress(seen["encode"]) /\ seen["encode"].error = "none"
         /\ seen["encode"].global_state = "DSTATE_STOPPING"
  <1>1. IsStream(job.files[job.cover])
    <2>1. job.cover \in DOMAIN job.files /\ job \in Jobs
      BY DEF CoverKnown, CommandsOK, FilesOK
    <2>2. \A j \in Jobs : \A n \in DOMAIN j.files : IsStream(j.files[n])
      BY JobsAssumption, Zenon
    <2> QED BY <2>1, <2>2
  <1>2. PICK n \in Nat : /\ IsAtTheEnd(CoverReading(job, n)) /\ CoverReading(job, n).global_state = "DSTATE_RDCOEFS"
                         /\ seen["encode"] = Stopped(CoverReading(job, n))
    BY DEF CoverKnown, CoverIsRead, AtItsEnd
  <1>3. IsDecompress(CoverReading(job, n))
    BY <1>1, ReadingIsAnObject DEF CoverReading
  <1> QED BY <1>2, <1>3, StoppingIsAnObject DEF Stopped, IsAtTheEnd

\* A complete image is read back as the writer was told, with what was sent.
LEMMA StegoImageIsReadBack ==
  ASSUME CommandsOK, StegoImage, pc["encode"] = "embedded", DistinctNames, DistinctIds(seen["encode"])
  PROVE  \E c : /\ Sendable(c) /\ Describes(c, seen["encode"], reduced[0], full)
                /\ EndState(ReadBack(files[job.stego]), c, StegoArrays)
                /\ job.stego \notin DOMAIN job.files => DecoderFollows(c)
  <1>1. PICK c : Stage(c) /\ (job.stego \notin DOMAIN job.files => DecoderFollows(c))
    BY DEF StegoImage, Sending
  <1>2. /\ Sendable(c) /\ InOneScan(c) /\ files[job.stego] = Beginning(c, StegoArrays, ImageEnd(c))
        /\ Describes(c, seen["encode"], reduced[0], full)
    BY <1>1 DEF Stage
  <1>3. IsStream(files[job.stego])
    BY DEF StegoImage, ImageIsThere, CommandsOK, FilesOK
  <1>4. EndState(ReadBack(files[job.stego]), c, StegoArrays)
    <2> DEFINE arrays == StegoArrays
               content == files[job.stego]
    <2>1. content = Beginning(c, arrays, ImageEnd(c)) /\ IsStream(content)
      BY <1>2, <1>3
    <2>2. EndState(ReadBack(content), c, arrays)
      <3> HIDE DEF content, arrays
      <3> QED BY <1>2, <2>1, ImageIsReadBack
    <2> QED BY <2>2
  <1> QED BY <1>1, <1>2, <1>4

\* The coefficients of a complete image are the wet and the dry ones.
LEMMA StegoImageComesBack ==
  ASSUME CommandsOK, StegoImage
  PROVE  StegoComesBack
  <1> DEFINE d == ReadBack(files[job.stego])
             cover == seen["encode"]
  <1> SUFFICES ASSUME pc["encode"] = "embedded", DistinctNames, DistinctIds(cover)
               PROVE  /\ d.error = "none" /\ ~d.warned /\ d.eoi_reached
                      /\ d.jpeg_color_space = cover.jpeg_color_space
                      /\ DOMAIN d.coef_arrays = DOMAIN cover.coef_arrays
                      /\ \A ci \in DOMAIN d.coef_arrays :
                           d.coef_arrays[ci] = IF ci = 1 THEN [r \in Rows |-> Wet(collection["encode"][r])]
                                               ELSE cover.coef_arrays[ci]
                      /\ HasReadIt /\ job.stego \notin DOMAIN job.files =>
                           seen["decode"].coef_arrays = d.coef_arrays
    BY Zenon DEF StegoComesBack
  <1> DEFINE arrays == StegoArrays
  <1>1. PICK c : /\ Sendable(c) /\ Describes(c, cover, reduced[0], full) /\ EndState(d, c, arrays)
                 /\ job.stego \notin DOMAIN job.files => DecoderFollows(c)
    BY StegoImageIsReadBack
  <1>2. Describes(c, cover, reduced[0], full)
    BY <1>1
  <1>3. purpose["encode"] = "write"
    BY DEF StegoImage, ImageIsThere
  <1>4. EndState(d, c, arrays)
    BY <1>1
  <1>5. CoverKnown
    BY DEF StegoImage, Alive
  <1>6. /\ IsDecompress(cover) /\ cover.error = "none" /\ cover.global_state = "DSTATE_STOPPING"
    BY <1>3, <1>5, CoverAtItsEnd
  <1>7. /\ DOMAIN cover.coef_arrays = DOMAIN c.comp_info
        /\ \A ci \in DOMAIN cover.coef_arrays :
             cover.coef_arrays[ci] = [r \in Rows |-> cover.coef_arrays[ci][r]]
    BY <1>2, <1>6, ArraysAreRows DEF Describes
  <1>8. \A r \in Rows : r <= NoOfRows
    BY DEF Rows
  <1> HIDE DEF d, cover
  <1>9. d.coef_arrays = [ci \in DOMAIN c.comp_info |-> [q \in Rows |-> arrays[ci][q]]]
    <2> HIDE DEF arrays
    <2> QED BY <1>4, <1>8 DEF EndState, RowsRead
  <1>10. ASSUME NEW ci \in DOMAIN c.comp_info
         PROVE  d.coef_arrays[ci] = IF ci = 1 THEN [r \in Rows |-> Wet(collection["encode"][r])]
                                    ELSE cover.coef_arrays[ci]
    <2>1. arrays[ci] = IF ci = 1 THEN [r \in Rows |-> Wet(collection["encode"][r])]
                       ELSE cover.coef_arrays[ci]
      BY <1>7, <1>10 DEF StegoArrays, cover
    <2>2. d.coef_arrays[ci] = [q \in Rows |-> arrays[ci][q]]
      <3> HIDE DEF arrays
      <3> QED BY <1>9, <1>10
    <2>3. arrays[ci] = [q \in Rows |-> arrays[ci][q]]
      <3>1. CASE ci = 1
        <4> DEFINE row(r) == Wet(collection["encode"][r])
        <4>1. arrays[ci] = [r \in Rows |-> row(r)]
          BY <2>1, <3>1
        <4> HIDE DEF arrays, row
        <4> QED BY <4>1
      <3>2. CASE ci # 1
        <4>1. arrays[ci] = cover.coef_arrays[ci]
          BY <2>1, <3>2
        <4> HIDE DEF arrays
        <4> QED BY <1>7, <1>10, <4>1
      <3> QED BY <3>1, <3>2
    <2> HIDE DEF arrays
    <2> QED BY <2>1, <2>2, <2>3
  <1>11. DOMAIN d.coef_arrays = DOMAIN cover.coef_arrays
    BY <1>7, <1>9
  <1>12. /\ d.error = "none" /\ ~d.warned /\ d.eoi_reached /\ d.jpeg_color_space = cover.jpeg_color_space
    BY <1>2, <1>4 DEF EndState, Describes
  <1>13. HasReadIt /\ job.stego \notin DOMAIN job.files =>
           seen["decode"].coef_arrays = d.coef_arrays
    BY <1>1, <1>4 DEF HasReadIt, DecoderFollows, EndState
  <1> QED BY <1>7, <1>10, <1>11, <1>12, <1>13

\* What the two commands have made of the stego image at each of their places, with
\* what else it takes to keep that: the inductive invariant of all that follows
\* (EmbedMessageInCoverMedia, RetrieveMessage).
THEOREM StegoImageIsKept == Spec => [](CommandsOK /\ OnlyTheStegoImageChanges /\ StegoImage)
  <1>1. Init => CommandsOK /\ OnlyTheStegoImageChanges /\ StegoImage
    BY CommandsStart, StegoImageIsNotBegun DEF Init, OnlyTheStegoImageChanges
  <1>2. /\ CommandsOK /\ OnlyTheStegoImageChanges /\ StegoImage /\ [Next]_vars
           => CommandsOK' /\ OnlyTheStegoImageChanges' /\ StegoImage'
    BY CommandsGoOn, OtherFilesAreLeft, StegoImageGoesOn
  <1> QED BY <1>1, <1>2, PTL DEF Spec

\* When the encoder reports success, the stego image is complete and sound: it
\* has the wet coefficients in the first component, what was read of the cover in
\* all others, and its color space; a decoder that had no warning has read that,
\* although some of it was written while it read (WriteJPEG_Image,
\* SaveDCT_Coefficients).
THEOREM StegoImagesComeBack == Spec => []StegoComesBack
  <1>1. CommandsOK /\ StegoImage => StegoComesBack
    BY StegoImageComesBack
  <1> QED BY <1>1, StegoImageIsKept, PTL

-----------------------------------------------------------------------------
(* The tables of the image.                                                *)

\* No table is behind a scan, in the file and in what is buffered of it.
TablesFirst(content) ==
  \A i, j \in DOMAIN content : content[i].kind = "SOS" /\ content[j].kind = "DQT" => j < i
TablesAreFirst(d, content) ==
  \A i \in DOMAIN d.buffer : d.buffer[i].kind = "SOS" =>
    /\ \A j \in DOMAIN d.buffer : d.buffer[j].kind = "DQT" => j < i
    /\ \A j \in DOMAIN content : j > d.at => content[j].kind # "DQT"

\* A unit is taken from the buffer; behind the start of a scan no table is left.
LEMMA TablesStayFirst ==
  ASSUME NEW d, IsDecompress(d), NEW content, TablesAreFirst(d, content),
         NEW r, r.at = d.at, r.buffer = d.buffer \/ (d.buffer # << >> /\ r.buffer = Tail(d.buffer))
  PROVE  /\ TablesAreFirst(r, content)
         /\ d.buffer # << >> /\ Head(d.buffer).kind = "SOS" /\ r.buffer = Tail(d.buffer) =>
              NoTableAhead(r, content)
  <1>1. d.buffer # << >> =>
          /\ Head(d.buffer) = d.buffer[1] /\ 1 \in DOMAIN d.buffer
          /\ \A i \in DOMAIN Tail(d.buffer) : i + 1 \in DOMAIN d.buffer /\ Tail(d.buffer)[i] = d.buffer[i + 1]
    BY TailOfStream DEF IsDecompress, SourceOK
  <1>2. d.buffer # << >> => \A i \in DOMAIN Tail(d.buffer) : i \in Nat \ {0}
    <2>1. d.buffer # << >> => IsStream(Tail(d.buffer))
      BY TailOfStream DEF IsDecompress, SourceOK
    <2> DEFINE tail == Tail(d.buffer)
    <2> HIDE DEF tail
    <2>2. d.buffer # << >> => tail = [i \in 1 .. Len(tail) |-> tail[i]] /\ Len(tail) \in Nat
      BY <2>1, SequenceIsOnAnInterval DEF IsStream, tail
    <2>3. d.buffer # << >> => DOMAIN tail = 1 .. Len(tail) /\ Len(tail) \in Nat
      BY <2>2
    <2>4. d.buffer # << >> => \A i \in DOMAIN tail : i \in Nat \ {0}
      BY <2>3
    <2> QED BY <2>4 DEF tail
  <1>3. ASSUME r.buffer = d.buffer
        PROVE  TablesAreFirst(r, content)
    BY <1>3 DEF TablesAreFirst
  <1>4. ASSUME d.buffer # << >> /\ r.buffer = Tail(d.buffer)
        PROVE  TablesAreFirst(r, content)
    <2>1. ASSUME NEW i \in DOMAIN r.buffer, r.buffer[i].kind = "SOS"
          PROVE  /\ \A j \in DOMAIN r.buffer : r.buffer[j].kind = "DQT" => j < i
                 /\ \A j \in DOMAIN content : j > r.at => content[j].kind # "DQT"
      <3>1. i + 1 \in DOMAIN d.buffer /\ d.buffer[i + 1].kind = "SOS"
        BY <1>1, <1>4, <2>1
      <3>2. ASSUME NEW j \in DOMAIN r.buffer, r.buffer[j].kind = "DQT" PROVE j < i
        <4>1. j + 1 \in DOMAIN d.buffer /\ d.buffer[j + 1].kind = "DQT"
          BY <1>1, <1>4, <3>2
        <4>2. j + 1 < i + 1
          BY <3>1, <4>1 DEF TablesAreFirst
        <4>3. i \in Nat /\ j \in Nat
          BY <1>2, <1>4, <2>1, <3>2
        <4> QED BY <4>2, <4>3
      <3> QED BY <3>1, <3>2 DEF TablesAreFirst
    <2> QED BY <2>1 DEF TablesAreFirst
  <1>5. ASSUME d.buffer # << >>, Head(d.buffer).kind = "SOS", r.buffer = Tail(d.buffer)
        PROVE  NoTableAhead(r, content)
    <2>1. d.buffer[1].kind = "SOS" /\ 1 \in DOMAIN d.buffer
      BY <1>1, <1>5
    <2>2. ASSUME NEW i \in DOMAIN r.buffer, r.buffer[i].kind = "DQT" PROVE FALSE
      <3>1. i + 1 \in DOMAIN d.buffer /\ d.buffer[i + 1].kind = "DQT" /\ i \in Nat
        BY <1>1, <1>2, <1>5, <2>2
      <3>2. i + 1 < 1
        BY <2>1, <3>1 DEF TablesAreFirst
      <3> QED BY <3>1, <3>2
    <2> QED BY <2>1, <2>2 DEF TablesAreFirst, NoTableAhead
  <1> QED BY <1>3, <1>4, <1>5

\* The buffer is filled with units in their order.
LEMMA TablesAreFilledFirst ==
  ASSUME NEW d, IsDecompress(d), d.error = "none", NEW content, IsStream(content), TablesFirst(content),
         NEW r, r = FillInputBuffer(d, content), r.error = "none"
  PROVE  TablesAreFirst(r, content)
  <1> DEFINE left == Len(content) - d.at
             size == IF left < INPUT_BUF_SIZE THEN left ELSE INPUT_BUF_SIZE
             part == SubSeq(content, d.at + 1, d.at + size)
             more == [d EXCEPT !.buffer = part, !.at = @ + size, !.start_of_file = FALSE]
             end == [d EXCEPT !.buffer = <<EOI>>, !.warned = TRUE]
  <1>1. r = IF size > 0 THEN more
            ELSE IF d.start_of_file THEN Failed(d, "JERR_INPUT_EMPTY") ELSE end
    BY Zenon DEF FillInputBuffer, Refilled
  <1>2. Failed(d, "JERR_INPUT_EMPTY").error # "none"
    BY FailedIsAnObject DEF ReadErrors
  <1>3. d.at \in Nat /\ Len(content) \in Nat /\ DOMAIN content = 1 .. Len(content) /\ INPUT_BUF_SIZE \in Nat \ {0}
    <2>1. content = [i \in 1 .. Len(content) |-> content[i]] /\ Len(content) \in Nat
      BY SequenceIsOnAnInterval DEF IsStream
    <2> QED BY <2>1, JobsAssumption DEF IsDecompress, SourceOK
  <1>4. CASE size > 0
    <2>1. r = more
      BY <1>1, <1>4
    <2>2. size \in Nat \ {0} /\ d.at + 1 \in Nat \ {0} /\ d.at + size \in Int /\ d.at + size <= Len(content)
      BY <1>3, <1>4
    <2> HIDE DEF size
    <2>3. \A i \in DOMAIN part : /\ (i + (d.at + 1)) - 1 \in DOMAIN content
                                 /\ (i + (d.at + 1)) - 1 \in 1 .. d.at + size
                                 /\ part[i] = content[(i + (d.at + 1)) - 1]
      BY <2>2, PlacesOfAPart
    <2>4. IsStream(part)
      BY <2>2, PlacesOfAPart
    <2> HIDE DEF part
    <2>5. r.buffer = part /\ r.at = d.at + size
      BY <2>1 DEF IsDecompress, jpeg_decompress_struct
    <2>6. \A i \in DOMAIN part : i \in Nat
      <3>1. part = [i \in 1 .. Len(part) |-> part[i]] /\ Len(part) \in Nat
        BY <2>4, SequenceIsOnAnInterval DEF IsStream
      <3> QED BY <3>1
    <2>7. ASSUME NEW i \in DOMAIN part, part[i].kind = "SOS"
          PROVE  /\ \A j \in DOMAIN part : part[j].kind = "DQT" => j < i
                 /\ \A j \in DOMAIN content : j > d.at + size => content[j].kind # "DQT"
      <3> DEFINE place == (i + (d.at + 1)) - 1
      <3>1. place \in DOMAIN content /\ place <= d.at + size /\ content[place].kind = "SOS" /\ place \in Nat
        BY <1>3, <2>3, <2>7
      <3>2. ASSUME NEW j \in DOMAIN part, part[j].kind = "DQT" PROVE j < i
        <4>1. (j + (d.at + 1)) - 1 < place
          BY <2>3, <3>1, <3>2 DEF TablesFirst
        <4> QED BY <1>3, <2>6, <4>1
      <3>3. ASSUME NEW j \in DOMAIN content, j > d.at + size, content[j].kind = "DQT" PROVE FALSE
        <4>1. j < place
          BY <3>1, <3>3 DEF TablesFirst
        <4> HIDE DEF place
        <4> QED BY <1>3, <2>2, <3>1, <3>3, <4>1
      <3> QED BY <3>2, <3>3
    <2> QED BY <2>5, <2>7 DEF TablesAreFirst
  <1>5. CASE ~(size > 0)
    <2>1. r = end
      BY <1>1, <1>2, <1>5
    <2>2. r.buffer = <<EOI>>
      BY <2>1 DEF IsDecompress, jpeg_decompress_struct
    <2>3. \A i \in DOMAIN <<EOI>> : <<EOI>>[i].kind # "SOS"
      BY DEF EOI
    <2> QED BY <2>2, <2>3 DEF TablesAreFirst
  <1> QED BY <1>4, <1>5

\* A marker of the header leaves the rest of the buffer; only the start of a scan
\* ends the header, and then no component has a table yet.
LEMMA HeaderIsPassed ==
  ASSUME NEW d, IsDecompress(d), d.error = "none", d.global_state = "DSTATE_START",
         d.consume_input = "markers", d.buffer # << >>, NEW r, r = ReadMarker(d), r.error = "none"
  PROVE  /\ r.at = d.at /\ r.buffer = Tail(d.buffer)
         /\ r.global_state = "DSTATE_READY" =>
              Head(d.buffer).kind = "SOS" /\ \A ci \in DOMAIN r.comp_info : r.comp_info[ci].quant_table = NoTable
  <1> DEFINE u == Head(d.buffer)
             e == [d EXCEPT !.buffer = Tail(@)]
             Good(x) == x.error = "none" => SameSource(e, x) /\ x.global_state = e.global_state
  <1>1. IsDecompress(e) /\ IsUnit(u) /\ SameState(d, e) /\ e.buffer = Tail(d.buffer) /\ e.at = d.at
    <2>1. e.at = d.at
      BY DEF IsDecompress, jpeg_decompress_struct
    <2> QED BY <2>1, UnitIsTaken
  <1>2. e.error = "none" /\ e.global_state = "DSTATE_START" /\ e.consume_input = "markers" /\ e.inheaders
    BY <1>1 DEF SameState, IsDecompress, FrameOK
  <1>3. d.saw_SOI \/ u.kind = "SOI"
    <2>1. ~d.saw_SOI /\ first_marker(d, u).error # "none" => r = first_marker(d, u)
      BY Zenon DEF ReadMarker
    <2>2. u.kind # "SOI" => first_marker(d, u).error # "none"
      <3>1. Failed(d, "JERR_NO_SOI").error # "none"
        BY FailedIsAnObject DEF ReadErrors
      <3> QED BY <3>1 DEF first_marker
    <2> HIDE DEF u
    <2> QED BY <2>1, <2>2
  <1>4. /\ u.kind = "SOI" => r = get_soi(e)
        /\ u.kind = "SOF" => r = get_sof(e, u)
        /\ u.kind = "SOS" => r = IF get_sos(e, u).error = "none"
                                 THEN ReachedSOS(get_sos(e, u)) ELSE get_sos(e, u)
        /\ u.kind = "EOI" => r = ReachedEOI(e)
        /\ u.kind \in {"DQT", "DHT", "DRI"} => r = get_tables(e, u)
        /\ u.kind \in {"APP0", "APP14"} => r = get_interesting_appn(e, u)
    <2> HIDE DEF u, e
    <2> QED BY <1>3, CallsForAMarker DEF u, e
  <1>5. /\ u.kind = "COM" => r = e
        /\ u.kind = "ROW" => r = [e EXCEPT !.warned = TRUE]
    <2>1. ReadMarker(d) =
          IF ~d.saw_SOI /\ first_marker(d, u).error # "none" THEN first_marker(d, u)
          ELSE CASE u.kind = "SOI" -> get_soi(e)
             [] u.kind = "SOF" -> get_sof(e, u)
             [] u.kind = "SOS" -> IF get_sos(e, u).error = "none" THEN ReachedSOS(get_sos(e, u)) ELSE get_sos(e, u)
             [] u.kind = "EOI" -> ReachedEOI(e)
             [] u.kind \in {"DQT", "DHT", "DRI"} -> get_tables(e, u)
             [] u.kind \in {"APP0", "APP14"} -> get_interesting_appn(e, u)
             [] u.kind = "COM" -> skip_variable(e)
             [] u.kind = "ROW" -> [e EXCEPT !.warned = TRUE]
      BY Zenon DEF ReadMarker
    <2> HIDE DEF u, e
    <2> QED BY <1>3, <2>1 DEF skip_variable
  <1> HIDE DEF u, e
  <1>6. u.kind # "SOS" => Good(r)
    <2>1. u.kind = "SOI" => Good(r)
      BY <1>1, <1>2, <1>4, SOIIsRead DEF Keeps
    <2>2. u.kind = "SOF" => Good(r)
      <3>1. u.kind = "SOF" => e.saw_SOI
        BY <1>1, <1>3 DEF SameState
      <3> QED BY <1>1, <1>2, <1>4, <3>1, SOFIsRead DEF Keeps
    <2>3. u.kind = "EOI" => Good(r)
      BY <1>1, <1>2, <1>4, EOIIsReached
    <2>4. u.kind \in {"DQT", "DHT", "DRI"} => Good(r)
      BY <1>1, <1>2, <1>4, TablesAreRead DEF Keeps
    <2>5. u.kind \in {"APP0", "APP14"} => Good(r)
      BY <1>1, <1>2, <1>4, AppnIsRead DEF Keeps
    <2>6. u.kind = "COM" => Good(r)
      BY <1>5 DEF SameSource
    <2>7. u.kind = "ROW" => Good(r)
      BY <1>1, <1>5 DEF IsDecompress, jpeg_decompress_struct, SameSource
    <2>8. u.kind \in {"SOI", "EOI", "COM", "APP0", "APP14", "DQT", "DHT", "DRI", "SOF", "SOS", "ROW"}
      BY <1>1 DEF IsUnit
    <2> HIDE DEF Good
    <2> QED BY <2>1, <2>2, <2>3, <2>4, <2>5, <2>6, <2>7, <2>8
  <1>7. ASSUME u.kind = "SOS"
        PROVE  SameSource(e, r) /\ \A ci \in DOMAIN r.comp_info : r.comp_info[ci].quant_table = NoTable
    <2> DEFINE s == get_sos(e, u)
    <2>1. r = IF s.error = "none" THEN ReachedSOS(s) ELSE s
      BY <1>4, <1>7
    <2>2. IsDecompress(s) /\ Keeps(e, s) /\ s.inheaders /\ s.consume_input = "markers"
          /\ (s.error = "none" => s.saw_SOF)
      BY <1>1, <1>2, <1>7, SOSIsRead
    <2> HIDE DEF s
    <2>3. s.error = "none" /\ r = ReachedSOS(s)
      BY <2>1
    <2>4. SameSource(e, r)
      BY <2>2, <2>3, SOSIsReached DEF Keeps, SameSource
    <2> DEFINE comps == [ci \in DOMAIN s.comp_info |-> [s.comp_info[ci] EXCEPT !.quant_table = NoTable]]
               several == \/ Len(s.cur_comp_info) < Len(s.comp_info)
                          \/ s.coding = "progressive"
               t == [s EXCEPT !.inheaders = FALSE, !.comp_info = comps, !.has_multiple_scans = several]
    <2>5. initial_setup(s) \in {Failed(s, "JERR_COMPONENT_COUNT"), t}
      BY Zenon DEF initial_setup
    <2>6. Failed(s, "JERR_COMPONENT_COUNT").error # "none"
      BY <2>2, FailedIsAnObject DEF ReadErrors
    <2>7. r = IF initial_setup(s).error # "none" THEN initial_setup(s)
              ELSE [initial_setup(s) EXCEPT
                      !.jpeg_color_space = default_decompress_parms(initial_setup(s)),
                      !.global_state = "DSTATE_READY"]
      BY <2>2, <2>3, Zenon DEF ReachedSOS
    <2>8. r = [t EXCEPT !.jpeg_color_space = default_decompress_parms(t), !.global_state = "DSTATE_READY"]
      <3> HIDE DEF t
      <3> QED BY <2>5, <2>6, <2>7
    <2>9. \A ci \in DOMAIN comps : comps[ci].quant_table = NoTable
      <3>1. s.comp_info \in Seq([component_id : Nat, quant_tbl_no : Nat, MCU_blocks : Nat,
                                 dc_tbl_no : Nat, ac_tbl_no : Nat, quant_table : Nat])
        BY <2>2 DEF IsDecompress, FrameOK
      <3>2. \A ci \in DOMAIN s.comp_info : s.comp_info[ci] \in
              [component_id : Nat, quant_tbl_no : Nat, MCU_blocks : Nat,
               dc_tbl_no : Nat, ac_tbl_no : Nat, quant_table : Nat]
        BY <3>1, SequenceOfASet, Zenon
      <3> QED BY <3>2
    <2> HIDE DEF comps, several
    <2>10. DOMAIN t = DOMAIN s /\ t.comp_info = comps
      BY <2>2 DEF IsDecompress, jpeg_decompress_struct
    <2> HIDE DEF t
    <2>11. r.comp_info = comps
      BY <2>2, <2>8, <2>10 DEF IsDecompress, jpeg_decompress_struct
    <2> QED BY <2>4, <2>9, <2>11
  <1>8. SameSource(e, r)
    BY <1>6, <1>7
  <1>9. r.at = d.at /\ r.buffer = Tail(d.buffer)
    BY <1>1, <1>8 DEF SameSource
  <1> QED BY <1>2, <1>6, <1>7, <1>9 DEF u

\* What the header leaves, if the tables of the file are first.
HeaderInOrder(d, content) ==
  /\ d.global_state = "DSTATE_START" => TablesAreFirst(d, content)
  /\ d.global_state = "DSTATE_READY" =>
       NoTableAhead(d, content) /\ \A ci \in DOMAIN d.comp_info : d.comp_info[ci].quant_table = NoTable

\* Every call on the header leaves it so.
LEMMA HeaderStaysInOrder ==
  ASSUME NEW d, IsDecompress(d), d.error = "none", ~d.eoi_reached, d.global_state = "DSTATE_START",
         NEW content, IsStream(content), TablesFirst(content), TablesAreFirst(d, content),
         NEW r, r = NextCall(d, content), r.error = "none"
  PROVE  HeaderInOrder(r, content)
  <1> DEFINE f == IF d.buffer = << >> THEN FillInputBuffer(d, content) ELSE d
  <1>1. r = IF f.error # "none" \/ f.buffer = << >> THEN f
            ELSE IF f.consume_input = "markers" THEN ReadMarker(f)
            ELSE ConsumeRow(f)
    <2>1. r = ConsumeInput(d, content)
      BY DEF NextCall
    <2> QED BY <2>1, Zenon DEF ConsumeInput
  <1>2. /\ IsDecompress(f) /\ f.global_state = "DSTATE_START"
        /\ f.error = "none" => TablesAreFirst(f, content)
    <2>1. CASE d.buffer = << >>
      <3>1. f = FillInputBuffer(d, content)
        BY <2>1
      <3> HIDE DEF f
      <3> QED BY <3>1, BufferIsFilled, TablesAreFilledFirst
    <2>2. CASE d.buffer # << >>
      <3>1. f = d
        BY <2>2
      <3> HIDE DEF f
      <3> QED BY <3>1
    <2> QED BY <2>1, <2>2
  <1> HIDE DEF f
  <1>3. f.error = "none"
    BY <1>1
  <1>4. CASE f.buffer = << >>
    BY <1>1, <1>2, <1>3, <1>4 DEF HeaderInOrder
  <1>5. CASE f.buffer # << >> /\ f.consume_input = "markers"
    <2>1. r = ReadMarker(f)
      BY <1>1, <1>3, <1>5
    <2>2. /\ r.at = f.at /\ r.buffer = Tail(f.buffer)
          /\ r.global_state = "DSTATE_READY" =>
               Head(f.buffer).kind = "SOS" /\ \A ci \in DOMAIN r.comp_info : r.comp_info[ci].quant_table = NoTable
      BY <1>2, <1>3, <1>5, <2>1, HeaderIsPassed
    <2>3. TablesAreFirst(r, content) /\ (Head(f.buffer).kind = "SOS" => NoTableAhead(r, content))
      BY <1>2, <1>3, <1>5, <2>2, TablesStayFirst
    <2> QED BY <2>2, <2>3 DEF HeaderInOrder
  <1>6. CASE f.buffer # << >> /\ f.consume_input # "markers"
    <2>1. r = ConsumeRow(f)
      BY <1>1, <1>3, <1>6
    <2>2. r.at = f.at /\ r.buffer \in {f.buffer, Tail(f.buffer)}
      BY <1>2, <1>6, <2>1, RowKeepsTheImage
    <2>3. TablesAreFirst(r, content)
      BY <1>2, <1>3, <1>6, <2>2, TablesStayFirst
    <2>4. r.global_state = f.global_state
      BY <1>2, <1>6, <2>1, RowKeepsTheImage
    <2> QED BY <1>2, <2>3, <2>4 DEF HeaderInOrder
  <1> QED BY <1>4, <1>5, <1>6

\* At the end of its header no table is ahead, and no component has one.
LEMMA HeaderIsInOrder ==
  ASSUME NEW name, NEW content, IsStream(content), TablesFirst(content), NEW n \in Nat,
         IsReady(Reading(name, content, n))
  PROVE  /\ NoTableAhead(Reading(name, content, n), content)
         /\ Uses(Reading(name, content, n), Reading(name, content, n).quant_tbl_ptrs)
  <1> DEFINE R(k) == Reading(name, content, k)
             S == {k \in Nat : R(k).error = "none" /\ ~HeaderInOrder(R(k), content)}
  <1>1. R(0) = CreateDecompress(name) /\ \A k \in Nat : R(k + 1) = NextCall(R(k), content)
    BY ReadingStepByStep
  <1>2. \A k \in Nat : IsDecompress(R(k))
    BY ReadingIsAnObject
  <1>3. \A k \in Nat : R(k).error = "none" /\ R(k).global_state \in {"DSTATE_START", "DSTATE_READY"}
                         => ~R(k).eoi_reached
    BY NotYetTheEnd
  <1> HIDE DEF R
  <1>4. HeaderInOrder(R(0), content)
    <2>1. R(0).buffer = << >> /\ R(0).global_state = "DSTATE_START"
      BY <1>1, FieldsOfANewObject
    <2> QED BY <2>1 DEF HeaderInOrder, TablesAreFirst
  <1>5. ASSUME S # {} PROVE FALSE
    <2>1. PICK k \in S : \A j \in S : k <= j
      BY <1>5, LeastNumber
    <2>2. k # 0
      BY <1>4, <2>1
    <2>3. k - 1 \in Nat /\ ~(k <= k - 1) /\ (k - 1) + 1 = k
      BY <2>1, <2>2
    <2> DEFINE d == R(k - 1)
               r == R(k)
    <2>4. r = NextCall(d, content) /\ IsDecompress(d) /\ IsDecompress(r) /\ r.error = "none"
          /\ ~HeaderInOrder(r, content)
      BY <1>1, <1>2, <2>1, <2>3
    <2>5. d.error = "none" => HeaderInOrder(d, content)
      BY <2>1, <2>3
    <2>6. d.error = "none" /\ d.global_state \in {"DSTATE_START", "DSTATE_READY"} => ~d.eoi_reached
      BY <1>3, <2>3
    <2> HIDE DEF d, r
    <2>7. d.error = "none"
      BY <2>4 DEF NextCall
    <2>8. r.global_state \in {"DSTATE_START", "DSTATE_READY"}
      BY <2>4 DEF HeaderInOrder
    <2>9. CASE d.global_state = "DSTATE_READY"
      BY <2>4, <2>6, <2>7, <2>8, <2>9, CallKeepsTheImage
    <2>10. CASE d.global_state = "DSTATE_START"
      <3>1. TablesAreFirst(d, content) /\ ~d.eoi_reached
        BY <2>5, <2>6, <2>7, <2>10 DEF HeaderInOrder
      <3> QED BY <2>4, <2>7, <2>10, <3>1, HeaderStaysInOrder
    <2>11. CASE d.global_state \notin {"DSTATE_START", "DSTATE_READY"}
      <3>1. CASE d.eoi_reached
        BY <2>4, <2>8, <2>11, <3>1 DEF NextCall
      <3>2. CASE ~d.eoi_reached
        <4>1. r = ConsumeInput(d, content)
          BY <2>4, <2>7, <2>11, <3>2 DEF NextCall
        <4>2. Advances(d, r)
          BY <2>4, <2>7, <4>1, InputIsConsumed
        <4> QED BY <2>8, <2>11, <4>2 DEF Advances
      <3> QED BY <3>1, <3>2
    <2> QED BY <2>9, <2>10, <2>11
  <1>6. HeaderInOrder(R(n), content) /\ R(n).global_state = "DSTATE_READY"
    <2>1. R(n).error = "none" /\ R(n).global_state = "DSTATE_READY"
      BY DEF R, IsReady
    <2> QED BY <1>5, <2>1
  <1> QED BY <1>6 DEF R, HeaderInOrder, Uses

\* The tables the encoder took are those the coefficients were read with.
LEMMA CoverUsesTheTables ==
  ASSUME CommandsOK, CoverKnown, purpose["encode"] = "write", TablesFirst(job.files[job.cover])
  PROVE  Uses(seen["encode"], full)
  <1>1. IsStream(job.files[job.cover])
    <2>1. job.cover \in DOMAIN job.files /\ job \in Jobs
      BY DEF CoverKnown, CommandsOK, FilesOK
    <2>2. \A j \in Jobs : \A n \in DOMAIN j.files : IsStream(j.files[n])
      BY JobsAssumption, Zenon
    <2> QED BY <2>1, <2>2
  <1>2. PICK n \in Nat : IsAtTheEnd(CoverReading(job, n)) /\ seen["encode"] = Stopped(CoverReading(job, n))
    BY DEF CoverKnown, CoverIsRead, AtItsEnd
  <1>3. PICK m \in Nat : IsReady(CoverReading(job, m)) /\ full = CoverReading(job, m).quant_tbl_ptrs
    BY DEF CoverKnown, TablesAreKnown, HeaderHas
  <1>4. NoTableAhead(CoverReading(job, m), job.files[job.cover]) /\ Uses(CoverReading(job, m), full)
    BY <1>1, <1>3, HeaderIsInOrder DEF CoverReading
  <1>5. StillUses(CoverReading(job, m), CoverReading(job, n))
    BY <1>1, <1>2, <1>3, <1>4, ReadingsAgree DEF CoverReading
  <1>6. Uses(CoverReading(job, n), full)
    BY <1>4, <1>5 DEF StillUses
  <1>7. IsDecompress(CoverReading(job, n))
    BY <1>1, ReadingIsAnObject DEF CoverReading
  <1> DEFINE e == CoverReading(job, n)
  <1> HIDE DEF e
  <1>8. Stopped(e).comp_info = e.comp_info /\ Stopped(e).quant_tbl_ptrs = e.quant_tbl_ptrs
    BY <1>7 DEF e, Stopped, IsDecompress, jpeg_decompress_struct
  <1> QED BY <1>2, <1>6, <1>8 DEF e, Uses

\* The stego image has the tables the writer was told.
LEMMA StegoImageHasItsSteps ==
  ASSUME CommandsOK, StegoImage
  PROVE  StepsBelongToTheCoefficients
  <1> DEFINE d == ReadBack(files[job.stego])
             table(object, ci) == object.comp_info[ci].quant_table
             read == {ci \in DOMAIN d.comp_info : table(seen["encode"], ci) # NoTable}
  <1> SUFFICES ASSUME pc["encode"] = "embedded", DistinctNames, DistinctIds(seen["encode"]), KeepsItsTables
               PROVE  /\ 1 \in read => full[0] = table(seen["encode"], 1)
                      /\ table(d, 1) = reduced[0]
                      /\ \A ci \in read :
                           d.comp_info[ci].quant_tbl_no # 0 => table(d, ci) = table(seen["encode"], ci)
    BY Zenon DEF StepsBelongToTheCoefficients
  <1>1. PICK c : /\ Sendable(c) /\ Describes(c, seen["encode"], reduced[0], full)
                 /\ EndState(d, c, StegoArrays)
    BY StegoImageIsReadBack
  <1>2. Uses(seen["encode"], full) /\ seen["encode"].comp_info[1].quant_tbl_no = 0
    <2>1. CoverKnown /\ purpose["encode"] = "write"
      BY DEF StegoImage, Alive, ImageIsThere
    <2> QED BY <2>1, CoverUsesTheTables DEF KeepsItsTables, TablesFirst
  <1> HIDE DEF d
  <1>3. DOMAIN d.comp_info = DOMAIN c.comp_info /\ DOMAIN c.comp_info = DOMAIN seen["encode"].comp_info
    BY <1>1, EntriesOfTheScan DEF EndState, Describes
  <1>4. \A ci \in DOMAIN c.comp_info : /\ table(d, ci) = c.quant_tbl_ptrs[c.comp_info[ci].quant_tbl_no]
                                       /\ d.comp_info[ci].quant_tbl_no = c.comp_info[ci].quant_tbl_no
    BY <1>1, EntriesOfTheScan DEF EndState, TablesOf
  <1>5. \A ci \in DOMAIN c.comp_info :
          c.comp_info[ci].quant_tbl_no = seen["encode"].comp_info[ci].quant_tbl_no
    BY <1>1, <1>3 DEF Describes
  <1>6. ASSUME NEW ci \in read
        PROVE  table(seen["encode"], ci) = full[seen["encode"].comp_info[ci].quant_tbl_no]
    BY <1>2, <1>3 DEF Uses
  <1>7. 1 \in DOMAIN c.comp_info
    <2>1. c.comp_info # << >> /\ IsCompress(c)
      BY <1>1 DEF Sendable
    <2>2. \E S : c.comp_info \in Seq(S)
      BY <2>1 DEF IsCompress, ParametersOK
    <2> QED BY <2>1, <2>2
  <1>8. table(d, 1) = reduced[0]
    BY <1>1, <1>2, <1>4, <1>5, <1>7 DEF Describes
  <1>9. ASSUME NEW ci \in read, d.comp_info[ci].quant_tbl_no # 0
        PROVE  table(d, ci) = table(seen["encode"], ci)
    <2>1. ci \in DOMAIN c.comp_info
      BY <1>3
    <2>2. c.quant_tbl_ptrs[c.comp_info[ci].quant_tbl_no] = full[c.comp_info[ci].quant_tbl_no]
      BY <1>1, <1>3, <1>4, <1>9, <2>1 DEF Describes
    <2> QED BY <1>4, <1>5, <1>6, <2>1, <2>2
  <1> QED BY <1>2, <1>6, <1>8, <1>9

\* The coefficients of the stego image belong to the steps it names: those of the
\* first component to the steps they were requantized to, the others to the steps
\* they were read with, unless they share the first one's slot (CompressionStarter,
\* SaveDCT_Coefficients).
THEOREM StepsBelong == Spec => []StepsBelongToTheCoefficients
  <1>1. CommandsOK /\ StegoImage => StepsBelongToTheCoefficients
    BY StegoImageHasItsSteps
  <1> QED BY <1>1, StegoImageIsKept, PTL

================================================================================
