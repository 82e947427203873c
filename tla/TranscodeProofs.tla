--------------------------- MODULE TranscodeProofs ---------------------------
(***************************************************************************)
(* Theorems about the two commands and the files they share, for every set *)
(* of files and command lines and every size of the buffers: the types of  *)
(* all objects, which files may change, the order of the calls of the      *)
(* library, and that half an image is noticed.  First come the sequences   *)
(* of units, then each routine of the reader and of the writer.            *)
(***************************************************************************)
EXTENDS Transcode, SequenceTheorems, FiniteSetTheorems, WellFoundedInduction, TLAPS

-----------------------------------------------------------------------------
(* Sequences of units.                                                     *)

\* A function on 1 .. n is a sequence.
LEMMA OnAnInterval ==
  ASSUME NEW n \in Nat, NEW s, s = [i \in 1 .. n |-> s[i]]
  PROVE  IsASequence(s) /\ Len(s) = n /\ DOMAIN s = 1 .. n
  <1>1. s \in [1 .. n -> {s[i] : i \in DOMAIN s}]
    OBVIOUS
  <1>2. s \in Seq({s[i] : i \in DOMAIN s})
    BY <1>1
  <1> QED BY <1>2 DEF IsASequence

\* And a sequence is such a function.
LEMMA SequenceIsOnAnInterval ==
  ASSUME NEW s, IsASequence(s)
  PROVE  Len(s) \in Nat /\ DOMAIN s = 1 .. Len(s) /\ s = [i \in 1 .. Len(s) |-> s[i]]
  <1> DEFINE S == {s[i] : i \in DOMAIN s}
  <1>1. s \in Seq(S)
    BY DEF IsASequence
  <1> QED BY <1>1, LenProperties

\* The elements of a sequence of a set are in the set, and the sequence is one.
LEMMA SequenceOfASet ==
  ASSUME NEW S, NEW s \in Seq(S)
  PROVE  IsASequence(s) /\ Len(s) \in Nat /\ DOMAIN s = 1 .. Len(s) /\ \A i \in DOMAIN s : s[i] \in S
  <1>1. Len(s) \in Nat /\ DOMAIN s = 1 .. Len(s) /\ s = [i \in 1 .. Len(s) |-> s[i]]
    BY LenProperties
  <1>2. IsASequence(s)
    BY <1>1, OnAnInterval
  <1>3. \A i \in 1 .. Len(s) : s[i] \in S
    BY ElementOfSeq
  <1> QED BY <1>1, <1>2, <1>3

\* What is behind the first unit of a stream.
LEMMA TailOfStream ==
  ASSUME NEW s, IsStream(s), s # << >>
  PROVE  /\ IsStream(Tail(s)) /\ IsUnit(Head(s)) /\ Head(s) = s[1] /\ 1 \in DOMAIN s
         /\ \A i \in DOMAIN Tail(s) : i + 1 \in DOMAIN s /\ Tail(s)[i] = s[i + 1]
  <1> DEFINE S == {s[i] : i \in DOMAIN s}
  <1>1. s \in Seq(S)
    BY DEF IsStream, IsASequence
  <1>2. /\ Head(s) \in S /\ Tail(s) \in Seq(S)
        /\ Len(Tail(s)) = Len(s) - 1 /\ \A i \in 1 .. Len(Tail(s)) : Tail(s)[i] = s[i + 1]
    BY <1>1, HeadTailProperties
  <1>3. IsASequence(Tail(s)) /\ DOMAIN Tail(s) = 1 .. Len(Tail(s)) /\ Len(Tail(s)) \in Nat
    BY <1>2, SequenceOfASet
  <1>4. DOMAIN s = 1 .. Len(s) /\ Len(s) \in Nat
    BY <1>1, LenProperties
  <1>5. \A i \in DOMAIN Tail(s) : i + 1 \in DOMAIN s /\ Tail(s)[i] = s[i + 1]
    BY <1>2, <1>3, <1>4
  <1>6. \A i \in DOMAIN Tail(s) : IsUnit(Tail(s)[i])
    BY <1>5 DEF IsStream
  <1>7. Len(s) # 0
    BY <1>1, EmptySeq
  <1>8. Head(s) = s[1] /\ 1 \in DOMAIN s
    BY <1>1, <1>4, <1>7
  <1> QED BY <1>3, <1>5, <1>6, <1>8 DEF IsStream

\* Two streams one behind the other, and the units between two places.
LEMMA ConcatenatedStreams ==
  ASSUME NEW s, NEW t, IsStream(s), IsStream(t)
  PROVE  /\ IsStream(s \o t)
         /\ \A i \in DOMAIN (s \o t) :
              \/ i \in DOMAIN s /\ (s \o t)[i] = s[i]
              \/ \E j \in DOMAIN t : (s \o t)[i] = t[j]
  <1> DEFINE S == {s[i] : i \in DOMAIN s} \cup {t[i] : i \in DOMAIN t}
  <1>1. s \in Seq({s[i] : i \in DOMAIN s}) /\ t \in Seq({t[i] : i \in DOMAIN t})
    BY DEF IsStream, IsASequence
  <1>2. s \in Seq(S) /\ t \in Seq(S)
    BY <1>1, SeqMonotonic
  <1> HIDE DEF S
  <1>3. /\ s \o t \in Seq(S) /\ Len(s \o t) = Len(s) + Len(t)
        /\ \A i \in 1 .. Len(s) + Len(t) :
             (s \o t)[i] = IF i <= Len(s) THEN s[i] ELSE t[i - Len(s)]
    BY <1>2, ConcatProperties
  <1>4. /\ DOMAIN s = 1 .. Len(s) /\ Len(s) \in Nat
        /\ DOMAIN t = 1 .. Len(t) /\ Len(t) \in Nat
    BY <1>2, LenProperties
  <1>5. IsASequence(s \o t) /\ DOMAIN (s \o t) = 1 .. Len(s) + Len(t)
    BY <1>3, SequenceOfASet
  <1>6. ASSUME NEW i \in DOMAIN (s \o t)
        PROVE  \/ i \in DOMAIN s /\ (s \o t)[i] = s[i]
               \/ \E j \in DOMAIN t : (s \o t)[i] = t[j]
    <2>1. CASE i <= Len(s)
      BY <1>3, <1>4, <1>5, <2>1
    <2>2. CASE ~(i <= Len(s))
      <3>1. i - Len(s) \in DOMAIN t /\ (s \o t)[i] = t[i - Len(s)]
        BY <1>3, <1>4, <1>5, <2>2
      <3> QED BY <3>1
    <2> QED BY <2>1, <2>2
  <1>7. \A i \in DOMAIN (s \o t) : IsUnit((s \o t)[i])
    BY <1>6 DEF IsStream
  <1> QED BY <1>5, <1>6, <1>7 DEF IsStream

\* The units between two places of a stream, and where they were.
LEMMA PlacesOfAPart ==
  ASSUME NEW s, IsStream(s), NEW m \in Nat \ {0}, NEW n \in Int, n <= Len(s)
  PROVE  /\ IsStream(SubSeq(s, m, n))
         /\ \A i \in DOMAIN SubSeq(s, m, n) :
              (i + m) - 1 \in DOMAIN s /\ (i + m) - 1 \in 1 .. n /\ SubSeq(s, m, n)[i] = s[(i + m) - 1]
         /\ SubSeq(s, m, n) = << >> <=> m > n
  <1> DEFINE S == {s[i] : i \in DOMAIN s}
             k == IF m <= n THEN n - m + 1 ELSE 0
  <1>1. s \in Seq(S)
    BY DEF IsStream, IsASequence
  <1>2. DOMAIN s = 1 .. Len(s) /\ Len(s) \in Nat
    BY <1>1, LenProperties
  <1>3. SubSeq(s, m, n) = [i \in 1 .. k |-> s[(i + m) - 1]] /\ k \in Nat
    BY <1>1, <1>2, SMT
  <1>4. DOMAIN SubSeq(s, m, n) = 1 .. k
    BY <1>3
  <1>5. SubSeq(s, m, n) = [i \in 1 .. k |-> SubSeq(s, m, n)[i]]
    BY <1>3
  <1>6. IsASequence(SubSeq(s, m, n)) /\ Len(SubSeq(s, m, n)) = k
    BY <1>3, <1>5, OnAnInterval
  <1>7. \A i \in DOMAIN SubSeq(s, m, n) :
           (i + m) - 1 \in DOMAIN s /\ (i + m) - 1 \in 1 .. n /\ SubSeq(s, m, n)[i] = s[(i + m) - 1]
    <2> SUFFICES ASSUME NEW i \in 1 .. k
                 PROVE  /\ (i + m) - 1 \in 1 .. Len(s) /\ (i + m) - 1 \in 1 .. n
                        /\ SubSeq(s, m, n)[i] = s[(i + m) - 1]
      BY <1>2, <1>4
    <2>1. SubSeq(s, m, n)[i] = s[(i + m) - 1]
      BY <1>3
    <2>2. m <= n /\ i <= n - m + 1 /\ i \in Nat /\ i >= 1
      OBVIOUS
    <2>3. (i + m) - 1 \in 1 .. Len(s) /\ (i + m) - 1 \in 1 .. n
      BY <1>2, <2>2
    <2> QED BY <2>1, <2>3
  <1>8. \A i \in DOMAIN SubSeq(s, m, n) : IsUnit(SubSeq(s, m, n)[i])
    BY <1>7 DEF IsStream
  <1>9. SubSeq(s, m, n) = << >> <=> m > n
    <2>1. SubSeq(s, m, n) \in Seq({SubSeq(s, m, n)[i] : i \in DOMAIN SubSeq(s, m, n)})
      BY <1>6 DEF IsASequence
    <2>2. SubSeq(s, m, n) = << >> <=> Len(SubSeq(s, m, n)) = 0
      BY <2>1, EmptySeq
    <2> QED BY <1>6, <2>2
  <1> QED BY <1>6, <1>7, <1>8, <1>9 DEF IsStream
\* They are a stream of units of it.
LEMMA PartOfAStream ==
  ASSUME NEW s, IsStream(s), NEW m \in Nat \ {0}, NEW n \in Int, n <= Len(s)
  PROVE  /\ IsStream(SubSeq(s, m, n))
         /\ \A i \in DOMAIN SubSeq(s, m, n) : \E j \in DOMAIN s : SubSeq(s, m, n)[i] = s[j]
         /\ SubSeq(s, m, n) = << >> <=> m > n
  <1>1. IsStream(SubSeq(s, m, n))
    BY PlacesOfAPart, Zenon
  <1>2. \A i \in DOMAIN SubSeq(s, m, n) : (i + m) - 1 \in DOMAIN s /\ SubSeq(s, m, n)[i] = s[(i + m) - 1]
    BY PlacesOfAPart, Zenon
  <1>3. SubSeq(s, m, n) = << >> <=> m > n
    BY PlacesOfAPart, Zenon
  <1> QED BY <1>1, <1>2, <1>3

\* A function from 1 .. n to a set is a sequence of it.
LEMMA FunctionIsASequence ==
  ASSUME NEW S, NEW n \in Nat, NEW f \in [1 .. n -> S]
  PROVE  f \in Seq(S) /\ Len(f) = n /\ DOMAIN f = 1 .. n
  OBVIOUS

\* A sequence of which every element is replaced.
LEMMA ReplacedElements ==
  ASSUME NEW S, NEW T, NEW s \in Seq(S), NEW f, f = [i \in DOMAIN s |-> f[i]],
         \A i \in DOMAIN s : f[i] \in T
  PROVE  f \in Seq(T) /\ Len(f) = Len(s) /\ DOMAIN f = DOMAIN s /\ (f = << >> <=> s = << >>)
  <1>1. Len(s) \in Nat /\ DOMAIN s = 1 .. Len(s)
    BY LenProperties
  <1>2. f \in [1 .. Len(s) -> T]
    BY <1>1
  <1>3. f \in Seq(T) /\ Len(f) = Len(s)
    BY <1>1, <1>2, FunctionIsASequence
  <1> QED BY <1>1, <1>3, EmptySeq

\* A set of numbers has a least one, and a bounded set a greatest one.
LEMMA LeastNumber ==
  ASSUME NEW S \in SUBSET Nat, S # {}
  PROVE  \E k \in S : \A j \in S : k <= j
  <1>1. PICK k \in S : \A j \in S : <<j, k>> \notin OpToRel(<, Nat)
    BY NatLessThanWellFounded, WFMin
  <1>2. \A j \in S : ~(j < k)
    BY <1>1 DEF OpToRel
  <1> QED BY <1>2

\* A set of numbers below a bound has a greatest one.
LEMMA GreatestNumber ==
  ASSUME NEW n \in Nat, NEW S \in SUBSET (1 .. n), S # {}
  PROVE  \E k \in S : \A j \in S : j <= k
  <1> DEFINE T == {n - k : k \in S}
  <1>1. T \in SUBSET Nat /\ T # {}
    <2>1. \A k \in S : n - k \in Nat
      OBVIOUS
    <2> QED BY <2>1
  <1>2. PICK t \in T : \A j \in T : t <= j
    BY <1>1, LeastNumber
  <1>3. PICK k \in S : t = n - k
    OBVIOUS
  <1>4. \A j \in S : n - k <= n - j
    BY <1>2, <1>3
  <1> QED BY <1>4

-----------------------------------------------------------------------------
(* The routines of the reader.  An object is left with the file as it was  *)
(* read so far, and without other components once it has some.             *)
SameState(d, e) ==
  /\ e.global_state = d.global_state /\ e.error = d.error /\ e.start_of_file = d.start_of_file
  /\ e.warned = d.warned /\ e.eoi_reached = d.eoi_reached
  /\ e.saw_SOI = d.saw_SOI /\ e.saw_SOF = d.saw_SOF /\ e.saw_JFIF_marker = d.saw_JFIF_marker
  /\ e.inheaders = d.inheaders /\ e.has_multiple_scans = d.has_multiple_scans
  /\ e.insufficient_data = d.insufficient_data /\ e.Adobe_transform = d.Adobe_transform
  /\ e.consume_input = d.consume_input
SameSource(d, e) == e.file = d.file /\ e.at = d.at /\ e.buffer = d.buffer
SameTables(d, e) ==
  /\ e.restart_interval = d.restart_interval /\ e.quant_tbl_ptrs = d.quant_tbl_ptrs
  /\ e.huff_tbl_ptrs = d.huff_tbl_ptrs
SameFrame(d, e) ==
  /\ e.coding = d.coding /\ e.comp_info = d.comp_info /\ e.jpeg_color_space = d.jpeg_color_space
SameScan(d, e) ==
  /\ e.cur_comp_info = d.cur_comp_info /\ e.band = d.band /\ e.input_iMCU_row = d.input_iMCU_row
SameArrays(d, e) == e.coef_arrays = d.coef_arrays

\* What was read of the file stays, and so do the components there are.
Keeps(d, e) ==
  /\ SameSource(d, e) /\ e.warned = d.warned /\ e.eoi_reached = d.eoi_reached
  /\ d.saw_SOF => e.saw_SOF /\ DOMAIN e.comp_info = DOMAIN d.comp_info

\* Each part of the type is about some of the fields.
LEMMA PartsOfAnObject ==
  ASSUME NEW d, NEW e, IsDecompress(d), DOMAIN e = DOMAIN d
  PROVE  /\ SameState(d, e) => StateOK(e)
         /\ SameSource(d, e) => SourceOK(e)
         /\ SameTables(d, e) => TablesOK(e)
         /\ SameFrame(d, e) /\ e.saw_SOF = d.saw_SOF /\ e.inheaders = d.inheaders
              /\ e.global_state = d.global_state => FrameOK(e)
         /\ SameScan(d, e) /\ DOMAIN e.comp_info = DOMAIN d.comp_info
              /\ e.consume_input = d.consume_input => ScanOK(e)
         /\ SameArrays(d, e) /\ DOMAIN e.comp_info = DOMAIN d.comp_info
              /\ e.global_state = d.global_state /\ e.error = d.error => ArraysOK(e)
  <1>1. SameState(d, e) => StateOK(e)
    BY DEF IsDecompress, SameState, StateOK
  <1>2. SameSource(d, e) => SourceOK(e)
    BY DEF IsDecompress, SameSource, SourceOK
  <1>3. SameTables(d, e) => TablesOK(e)
    BY DEF IsDecompress, SameTables, TablesOK
  <1>4. SameFrame(d, e) /\ e.saw_SOF = d.saw_SOF /\ e.inheaders = d.inheaders
              /\ e.global_state = d.global_state => FrameOK(e)
    BY DEF IsDecompress, SameFrame, FrameOK
  <1>5. SameScan(d, e) /\ DOMAIN e.comp_info = DOMAIN d.comp_info
              /\ e.consume_input = d.consume_input => ScanOK(e)
    BY DEF IsDecompress, SameScan, ScanOK
  <1>6. SameArrays(d, e) /\ DOMAIN e.comp_info = DOMAIN d.comp_info
              /\ e.global_state = d.global_state /\ e.error = d.error => ArraysOK(e)
    BY DEF IsDecompress, SameArrays, ArraysOK
  <1> QED BY <1>1, <1>2, <1>3, <1>4, <1>5, <1>6

\* An object with an error is still one.
LEMMA FailedIsAnObject ==
  ASSUME NEW d, IsDecompress(d), NEW code \in ReadErrors
  PROVE  /\ IsDecompress(Failed(d, code)) /\ Keeps(d, Failed(d, code))
         /\ Failed(d, code).error # "none" /\ Failed(d, code).global_state = d.global_state
  <1> DEFINE e == Failed(d, code)
  <1>0. e = [d EXCEPT !.error = code]
    BY DEF Failed
  <1> HIDE DEF e
  <1>1. DOMAIN e = DOMAIN d /\ e.error = code /\ code # "none"
        /\ SameState(d, [e EXCEPT !.error = d.error])
    BY <1>0 DEF IsDecompress, jpeg_decompress_struct, SameState, ReadErrors
  <1>2. SameSource(d, e) /\ SameTables(d, e) /\ SameFrame(d, e) /\ SameScan(d, e) /\ SameArrays(d, e)
    BY <1>0 DEF IsDecompress, jpeg_decompress_struct, SameSource, SameTables, SameFrame, SameScan,
         SameArrays
  <1>3. /\ e.saw_SOF = d.saw_SOF /\ e.inheaders = d.inheaders /\ e.global_state = d.global_state
        /\ e.consume_input = d.consume_input /\ e.warned = d.warned /\ e.eoi_reached = d.eoi_reached
    BY <1>0 DEF IsDecompress, jpeg_decompress_struct
  <1>4. StateOK(e)
    BY <1>0, <1>1, <1>3 DEF IsDecompress, jpeg_decompress_struct, StateOK
  <1>5. ArraysOK(e)
    BY <1>1 DEF ArraysOK
  <1>6. SourceOK(e) /\ TablesOK(e) /\ FrameOK(e) /\ ScanOK(e)
    BY <1>1, <1>2, <1>3, PartsOfAnObject DEF SameFrame
  <1>7. Keeps(d, e)
    BY <1>2, <1>3 DEF Keeps, SameFrame
  <1> QED BY <1>1, <1>3, <1>4, <1>5, <1>6, <1>7 DEF IsDecompress, e

\* The first marker.
LEMMA SOIIsRead ==
  ASSUME NEW d, IsDecompress(d), d.error = "none"
  PROVE  /\ IsDecompress(get_soi(d)) /\ Keeps(d, get_soi(d))
         /\ get_soi(d).global_state = d.global_state
  <1>1. CASE d.saw_SOI
    BY <1>1, FailedIsAnObject DEF get_soi, ReadErrors
  <1>2. CASE ~d.saw_SOI
    <2> DEFINE e == get_soi(d)
    <2>00. d.inheaders /\ ~d.saw_SOF
      BY <1>2 DEF IsDecompress, StateOK, FrameOK
    <2>0. e = [d EXCEPT !.saw_SOI = TRUE, !.restart_interval = 0, !.saw_JFIF_marker = FALSE,
                        !.Adobe_transform = -1, !.jpeg_color_space = "UNKNOWN"]
      BY <1>2 DEF get_soi
    <2> HIDE DEF e
    <2>1. /\ DOMAIN e = DOMAIN d /\ e.restart_interval = 0 /\ e.jpeg_color_space = "UNKNOWN"
          /\ e.Adobe_transform = -1 /\ e.saw_SOI \in BOOLEAN /\ e.saw_JFIF_marker \in BOOLEAN
      BY <2>0 DEF IsDecompress, jpeg_decompress_struct
    <2>2. SameSource(d, e) /\ SameScan(d, e) /\ SameArrays(d, e) /\ e.comp_info = d.comp_info
      BY <2>0 DEF IsDecompress, jpeg_decompress_struct, SameSource, SameScan, SameArrays
    <2>3. /\ e.saw_SOF = d.saw_SOF /\ e.inheaders = d.inheaders /\ e.global_state = d.global_state
          /\ e.consume_input = d.consume_input /\ e.warned = d.warned /\ e.eoi_reached = d.eoi_reached
          /\ e.error = d.error /\ e.start_of_file = d.start_of_file /\ e.insufficient_data = d.insufficient_data
          /\ e.has_multiple_scans = d.has_multiple_scans /\ e.coding = d.coding
          /\ e.quant_tbl_ptrs = d.quant_tbl_ptrs /\ e.huff_tbl_ptrs = d.huff_tbl_ptrs
      BY <2>0 DEF IsDecompress, jpeg_decompress_struct
    <2>4. StateOK(e)
      BY <2>00, <2>1, <2>3 DEF IsDecompress, StateOK
    <2>5. TablesOK(e)
      BY <2>1, <2>3 DEF IsDecompress, TablesOK
    <2>6. FrameOK(e)
      BY <2>00, <2>1, <2>2, <2>3 DEF IsDecompress, FrameOK
    <2>7. SourceOK(e) /\ ScanOK(e) /\ ArraysOK(e)
      BY <2>1, <2>2, <2>3, PartsOfAnObject
    <2>8. Keeps(d, e)
      BY <2>2, <2>3 DEF Keeps
    <2> QED BY <2>1, <2>3, <2>4, <2>5, <2>6, <2>7, <2>8 DEF IsDecompress, e
  <1> QED BY <1>1, <1>2

\* A frame header comes while the header is read, or it is one too many.
LEMMA SOFIsRead ==
  ASSUME NEW d, IsDecompress(d), d.error = "none", d.saw_SOI, NEW u, IsUnit(u), u.kind = "SOF"
  PROVE  /\ IsDecompress(get_sof(d, u)) /\ Keeps(d, get_sof(d, u))
         /\ get_sof(d, u).global_state = d.global_state
  <1>1. CASE d.saw_SOF
    BY <1>1, FailedIsAnObject DEF get_sof, ReadErrors
  <1>2. CASE ~d.saw_SOF /\ u.comps = << >>
    BY <1>2, FailedIsAnObject DEF get_sof, ReadErrors
  <1>3. CASE ~d.saw_SOF /\ u.comps # << >>
    <2> DEFINE e == get_sof(d, u)
               comps == [ci \in DOMAIN u.comps |->
                   [component_id |-> u.comps[ci].component_id,
                    quant_tbl_no |-> u.comps[ci].quant_tbl_no,
                    MCU_blocks   |-> u.comps[ci].MCU_blocks,
                    dc_tbl_no |-> 0, ac_tbl_no |-> 0, quant_table |-> NoTable]]
               Component == [component_id : Nat, quant_tbl_no : Nat, MCU_blocks : Nat,
                             dc_tbl_no : Nat, ac_tbl_no : Nat, quant_table : Nat]
    <2>0. e = [d EXCEPT !.saw_SOF = TRUE, !.coding = u.coding, !.comp_info = comps]
      BY <1>3 DEF get_sof
    <2>01. u.comps \in Seq([component_id : Nat, quant_tbl_no : Nat, MCU_blocks : Nat])
           /\ u.coding \in {"sequential", "progressive", "arithmetic"}
      BY DEF IsUnit
    <2>02. comps \in Seq(Component) /\ DOMAIN comps = DOMAIN u.comps /\ comps # << >>
      <3>1. /\ Len(u.comps) \in Nat /\ DOMAIN u.comps = 1 .. Len(u.comps)
            /\ \A ci \in DOMAIN u.comps :
                 u.comps[ci] \in [component_id : Nat, quant_tbl_no : Nat, MCU_blocks : Nat]
        BY <2>01, SequenceOfASet
      <3>2. \A ci \in DOMAIN u.comps : comps[ci] \in Component
        BY <3>1 DEF NoTable
      <3>3. comps \in [1 .. Len(u.comps) -> Component]
        BY <3>1, <3>2
      <3>4. 1 \in DOMAIN u.comps
        <4>1. Len(u.comps) # 0
          BY <1>3, <2>01, EmptySeq
        <4> QED BY <3>1, <4>1
      <3>5. comps # << >>
        BY <3>4
      <3> QED BY <3>1, <3>3, <3>5
    <2>03. d.inheaders /\ d.comp_info = << >>
      BY <1>3 DEF IsDecompress, FrameOK
    <2> HIDE DEF e, comps
    <2>1. /\ DOMAIN e = DOMAIN d /\ e.saw_SOF = TRUE /\ e.coding = u.coding /\ e.comp_info = comps
      BY <2>0 DEF IsDecompress, jpeg_decompress_struct
    <2>2. SameSource(d, e) /\ SameTables(d, e) /\ SameScan(d, e) /\ SameArrays(d, e)
          /\ SameState(d, [e EXCEPT !.saw_SOF = d.saw_SOF])
      BY <2>0 DEF IsDecompress, jpeg_decompress_struct, SameSource, SameTables, SameScan, SameArrays, SameState
    <2>3. /\ e.inheaders = d.inheaders /\ e.global_state = d.global_state
          /\ e.consume_input = d.consume_input /\ e.warned = d.warned /\ e.eoi_reached = d.eoi_reached
          /\ e.error = d.error /\ e.jpeg_color_space = d.jpeg_color_space
      BY <2>0 DEF IsDecompress, jpeg_decompress_struct
    <2>4. StateOK(e)
      BY <2>0, <2>1, <2>3 DEF IsDecompress, jpeg_decompress_struct, StateOK
    <2>5. FrameOK(e)
      <3>1. e.jpeg_color_space = "UNKNOWN" /\ d.global_state = "DSTATE_START"
        BY <2>03, <2>3 DEF IsDecompress, FrameOK
      <3>2. Len(comps) \in Nat /\ ColorComponents("UNKNOWN") = Nat
        BY <2>02, SequenceOfASet DEF ColorComponents
      <3> QED BY <2>01, <2>02, <2>03, <2>1, <2>3, <3>1, <3>2 DEF FrameOK, ColorSpaces
    <2>6. ScanOK(e)
      <3>1. d.cur_comp_info \in Seq(DOMAIN << >>) /\ d.cur_comp_info = e.cur_comp_info
        BY <2>03, <2>2 DEF IsDecompress, ScanOK, SameScan
      <3>2. d.cur_comp_info \in Seq(DOMAIN comps)
        BY <3>1, SeqMonotonic
      <3> QED BY <2>1, <2>2, <2>3, <3>1, <3>2 DEF IsDecompress, ScanOK, SameScan
    <2>7. ArraysOK(e)
      BY <2>03, <2>3 DEF ArraysOK, IsDecompress, FrameOK
    <2>8. SourceOK(e) /\ TablesOK(e)
      BY <2>1, <2>2, PartsOfAnObject
    <2>9. Keeps(d, e)
      BY <1>3, <2>2, <2>3 DEF Keeps
    <2> QED BY <2>1, <2>3, <2>4, <2>5, <2>6, <2>7, <2>8, <2>9 DEF IsDecompress, e
  <1> QED BY <1>1, <1>2, <1>3 DEF IsDecompress, StateOK

\* The header of a scan names components there are, each by its id.
LEMMA SOSIsRead ==
  ASSUME NEW d, IsDecompress(d), d.error = "none", d.consume_input = "markers",
         NEW u, IsUnit(u), u.kind = "SOS"
  PROVE  /\ IsDecompress(get_sos(d, u)) /\ Keeps(d, get_sos(d, u))
         /\ get_sos(d, u).global_state = d.global_state
         /\ get_sos(d, u).inheaders = d.inheaders /\ get_sos(d, u).consume_input = "markers"
         /\ get_sos(d, u).error = "none" => get_sos(d, u).saw_SOF
  <1> DEFINE with(i) == {ci \in DOMAIN d.comp_info :
                           d.comp_info[ci].component_id = u.scan[i].component_id}
             found(i) == CHOOSE ci \in with(i) : \A cj \in with(i) : ci <= cj
             used == {i \in DOMAIN u.scan : with(i) # {}}
             scanned(ci) == {i \in DOMAIN u.scan : found(i) = ci}
             last(ci) == CHOOSE i \in scanned(ci) : \A j \in scanned(ci) : j <= i
             cur == [i \in DOMAIN u.scan |-> found(i)]
             comps == [ci \in DOMAIN d.comp_info |->
                         IF scanned(ci) = {} THEN d.comp_info[ci]
                         ELSE [d.comp_info[ci] EXCEPT !.dc_tbl_no = u.scan[last(ci)].dc_tbl_no,
                                                      !.ac_tbl_no = u.scan[last(ci)].ac_tbl_no]]
             Component == [component_id : Nat, quant_tbl_no : Nat, MCU_blocks : Nat,
                           dc_tbl_no : Nat, ac_tbl_no : Nat, quant_table : Nat]
             Named == [component_id : Nat, dc_tbl_no : Nat, ac_tbl_no : Nat]
             e == [d EXCEPT !.cur_comp_info = cur, !.band = u.band, !.comp_info = comps]
  <1>1. get_sos(d, u) =
          IF ~d.saw_SOF THEN Failed(d, "JERR_SOS_NO_SOF")
          ELSE IF Len(u.scan) \notin 1 .. MAX_COMPS_IN_SCAN THEN Failed(d, "JERR_BAD_LENGTH")
          ELSE IF used # DOMAIN u.scan THEN Failed(d, "JERR_BAD_COMPONENT_ID")
          ELSE e
    BY Zenon DEF get_sos
  <1>2. ASSUME NEW code \in ReadErrors, get_sos(d, u) = Failed(d, code)
        PROVE  /\ IsDecompress(get_sos(d, u)) /\ Keeps(d, get_sos(d, u))
               /\ get_sos(d, u).error # "none"
               /\ get_sos(d, u).global_state = d.global_state
               /\ get_sos(d, u).inheaders = d.inheaders /\ get_sos(d, u).consume_input = "markers"
    <2>1. Failed(d, code).inheaders = d.inheaders /\ Failed(d, code).consume_input = "markers"
      BY DEF Failed, IsDecompress, jpeg_decompress_struct
    <2> QED BY <1>2, <2>1, FailedIsAnObject
  <1>3. CASE d.saw_SOF /\ used = DOMAIN u.scan /\ get_sos(d, u) = e
    <2>1. u.scan \in Seq(Named) /\ u.band \subseteq {"DC", "AC"}
      BY DEF IsUnit
    <2>2. d.comp_info \in Seq(Component)
      BY DEF IsDecompress, FrameOK
    <2>3. Len(u.scan) \in Nat /\ DOMAIN u.scan = 1 .. Len(u.scan) /\ \A i \in DOMAIN u.scan : u.scan[i] \in Named
      BY <2>1, SequenceOfASet, Zenon
    <2>4. Len(d.comp_info) \in Nat /\ DOMAIN d.comp_info = 1 .. Len(d.comp_info)
          /\ \A ci \in DOMAIN d.comp_info : d.comp_info[ci] \in Component
      BY <2>2, SequenceOfASet, Zenon
    <2>5. ASSUME NEW i \in DOMAIN u.scan
          PROVE  found(i) \in DOMAIN d.comp_info
      <3>1. with(i) # {} /\ with(i) \in SUBSET Nat
        <4>1. i \in used
          BY <1>3, <2>5
        <4>2. with(i) # {}
          BY <4>1
        <4>3. with(i) \subseteq 1 .. Len(d.comp_info)
          BY <2>4
        <4> QED BY <2>4, <4>2, <4>3
      <3>2. \E ci \in with(i) : \A cj \in with(i) : ci <= cj
        BY <3>1, LeastNumber
      <3>3. found(i) \in with(i)
        BY <3>2, Zenon
      <3> QED BY <3>3
    <2> HIDE DEF found
    <2>6. cur \in Seq(DOMAIN d.comp_info)
      BY <2>3, <2>5
    <2>7. ASSUME NEW ci \in DOMAIN d.comp_info, scanned(ci) # {}
          PROVE  last(ci) \in DOMAIN u.scan
      <3>1. scanned(ci) \in SUBSET (1 .. Len(u.scan))
        BY <2>3
      <3>2. \E i \in scanned(ci) : \A j \in scanned(ci) : j <= i
        BY <2>3, <2>7, <3>1, GreatestNumber
      <3>3. last(ci) \in scanned(ci)
        BY <3>2, Zenon
      <3> QED BY <3>3
    <2> HIDE DEF last, scanned
    <2>8. \A ci \in DOMAIN d.comp_info : comps[ci] \in Component
      BY <2>3, <2>4, <2>7
    <2>9. comps \in Seq(Component) /\ DOMAIN comps = DOMAIN d.comp_info /\ Len(comps) = Len(d.comp_info)
      <3>1. DOMAIN comps = 1 .. Len(d.comp_info)
        BY <2>4
      <3> HIDE DEF comps
      <3>2. comps \in [1 .. Len(d.comp_info) -> Component]
        <4>1. comps = [ci \in DOMAIN d.comp_info |-> comps[ci]]
          BY DEF comps
        <4> QED BY <2>4, <2>8, <4>1
      <3> QED BY <2>4, <3>1, <3>2, FunctionIsASequence
    <2> HIDE DEF e, comps, cur
    <2>10. /\ DOMAIN e = DOMAIN d /\ e.cur_comp_info = cur /\ e.band = u.band /\ e.comp_info = comps
           /\ SameState(d, e) /\ SameSource(d, e) /\ SameTables(d, e) /\ SameArrays(d, e)
           /\ e.input_iMCU_row = d.input_iMCU_row
           /\ e.coding = d.coding /\ e.jpeg_color_space = d.jpeg_color_space
      BY DEF e, IsDecompress, jpeg_decompress_struct, SameState, SameSource, SameTables, SameArrays
    <2>11. FrameOK(e)
      <3>1. comps # << >>
        BY <1>3, <2>2, <2>9, EmptySeq DEF IsDecompress, FrameOK
      <3> QED BY <1>3, <2>9, <2>10, <3>1 DEF IsDecompress, FrameOK, SameState
    <2>12. ScanOK(e)
      BY <2>1, <2>6, <2>9, <2>10 DEF IsDecompress, ScanOK, SameState
    <2>13. StateOK(e) /\ SourceOK(e) /\ TablesOK(e) /\ ArraysOK(e)
      BY <2>9, <2>10, PartsOfAnObject DEF SameState
    <2>14. Keeps(d, e)
      BY <2>9, <2>10 DEF Keeps, SameState
    <2>15. IsDecompress(e)
      BY <2>10, <2>11, <2>12, <2>13 DEF IsDecompress
    <2> QED BY <1>3, <2>10, <2>14, <2>15 DEF SameState
  <1> HIDE DEF e, used
  <1> QED BY <1>1, <1>2, <1>3 DEF ReadErrors

\* Tables go into the slots there are.
LEMMA TablesAreRead ==
  ASSUME NEW d, IsDecompress(d), d.error = "none", NEW u, IsUnit(u), u.kind \in {"DQT", "DHT", "DRI"}
  PROVE  /\ IsDecompress(get_tables(d, u)) /\ Keeps(d, get_tables(d, u))
         /\ get_tables(d, u).global_state = d.global_state
  <1> DEFINE q == [d EXCEPT !.quant_tbl_ptrs[u.slot] = u.table]
             h == [d EXCEPT !.huff_tbl_ptrs[u.class][u.slot] = u.table]
             r == [d EXCEPT !.restart_interval = u.interval]
             Good(e) == IsDecompress(e) /\ Keeps(d, e) /\ e.global_state = d.global_state
  <1>1. ASSUME NEW e, DOMAIN e = DOMAIN d, TablesOK(e), SameState(d, e), SameSource(d, e),
               SameFrame(d, e), SameScan(d, e), SameArrays(d, e)
        PROVE  Good(e)
    <2>1. StateOK(e) /\ SourceOK(e) /\ FrameOK(e) /\ ScanOK(e) /\ ArraysOK(e)
      BY <1>1, PartsOfAnObject DEF SameState, SameFrame
    <2> QED BY <1>1, <2>1 DEF IsDecompress, Keeps, SameState, SameFrame
  <1>2. CASE u.kind = "DQT" /\ u.slot \in QuantSlots
    <2>1. u.table \in Nat /\ d.quant_tbl_ptrs \in [QuantSlots -> Nat]
      BY <1>2 DEF IsUnit, IsDecompress, TablesOK
    <2>2. /\ DOMAIN q = DOMAIN d /\ q.quant_tbl_ptrs = [d.quant_tbl_ptrs EXCEPT ![u.slot] = u.table]
          /\ q.huff_tbl_ptrs = d.huff_tbl_ptrs /\ q.restart_interval = d.restart_interval
          /\ SameState(d, q) /\ SameSource(d, q) /\ SameFrame(d, q) /\ SameScan(d, q) /\ SameArrays(d, q)
      BY DEF IsDecompress, jpeg_decompress_struct, SameState, SameSource, SameFrame, SameScan, SameArrays
    <2>3. TablesOK(q)
      <3>1. TablesOK(d)
        BY DEF IsDecompress
      <3> HIDE DEF q, h, r, Good
      <3>2. q.quant_tbl_ptrs \in [QuantSlots -> Nat]
        BY <2>1, <2>2
      <3> QED BY <2>2, <3>1, <3>2, Zenon DEF TablesOK
    <2>4. get_tables(d, u) = q
      BY <1>2 DEF get_tables
    <2> QED BY <1>1, <2>2, <2>3, <2>4
  <1>3. CASE u.kind = "DHT" /\ u.slot \in HuffSlots
    <2>1. u.table \in Nat /\ u.class \in {"DC", "AC"}
          /\ d.huff_tbl_ptrs \in [{"DC", "AC"} -> [HuffSlots -> Nat]]
      BY <1>3 DEF IsUnit, IsDecompress, TablesOK
    <2>2. /\ DOMAIN h = DOMAIN d /\ h.huff_tbl_ptrs = [d.huff_tbl_ptrs EXCEPT ![u.class][u.slot] = u.table]
          /\ h.quant_tbl_ptrs = d.quant_tbl_ptrs /\ h.restart_interval = d.restart_interval
          /\ SameState(d, h) /\ SameSource(d, h) /\ SameFrame(d, h) /\ SameScan(d, h) /\ SameArrays(d, h)
      BY DEF IsDecompress, jpeg_decompress_struct, SameState, SameSource, SameFrame, SameScan, SameArrays
    <2>3. TablesOK(h)
      <3>1. [d.huff_tbl_ptrs EXCEPT ![u.class][u.slot] = u.table] \in [{"DC", "AC"} -> [HuffSlots -> Nat]]
        BY <1>3, <2>1
      <3> QED BY <2>2, <3>1 DEF IsDecompress, TablesOK
    <2>4. get_tables(d, u) = h
      BY <1>3 DEF get_tables
    <2> QED BY <1>1, <2>2, <2>3, <2>4
  <1>4. CASE u.kind = "DRI"
    <2>1. u.interval \in Nat
      BY <1>4 DEF IsUnit
    <2>2. /\ DOMAIN r = DOMAIN d /\ r.restart_interval = u.interval
          /\ r.quant_tbl_ptrs = d.quant_tbl_ptrs /\ r.huff_tbl_ptrs = d.huff_tbl_ptrs
          /\ SameState(d, r) /\ SameSource(d, r) /\ SameFrame(d, r) /\ SameScan(d, r) /\ SameArrays(d, r)
      BY DEF IsDecompress, jpeg_decompress_struct, SameState, SameSource, SameFrame, SameScan, SameArrays
    <2>3. TablesOK(r)
      BY <2>1, <2>2 DEF IsDecompress, TablesOK
    <2>4. get_tables(d, u) = r
      BY <1>4 DEF get_tables
    <2> QED BY <1>1, <2>2, <2>3, <2>4
  <1>5. CASE /\ u.kind = "DQT" => u.slot \notin QuantSlots
             /\ u.kind = "DHT" => u.slot \notin HuffSlots
             /\ u.kind # "DRI"
    <2>1. \E code \in ReadErrors : get_tables(d, u) = Failed(d, code)
      <3>1. get_tables(d, u) = Failed(d, IF u.kind = "DQT" THEN "JERR_DQT_INDEX" ELSE "JERR_DHT_INDEX")
        BY <1>5 DEF get_tables
      <3> QED BY <3>1 DEF ReadErrors
    <2> QED BY <2>1, FailedIsAnObject
  <1> HIDE DEF Good
  <1> QED BY <1>2, <1>3, <1>4, <1>5

\* The application markers that matter.
LEMMA AppnIsRead ==
  ASSUME NEW d, IsDecompress(d), d.error = "none", NEW u, IsUnit(u), u.kind \in {"APP0", "APP14"}
  PROVE  /\ IsDecompress(get_interesting_appn(d, u)) /\ Keeps(d, get_interesting_appn(d, u))
         /\ get_interesting_appn(d, u).global_state = d.global_state
         /\ get_interesting_appn(d, u).error = "none"
  <1> DEFINE e == get_interesting_appn(d, u)
  <1>1. /\ DOMAIN e = DOMAIN d /\ SameSource(d, e) /\ SameTables(d, e) /\ SameFrame(d, e)
        /\ SameScan(d, e) /\ SameArrays(d, e)
    BY DEF get_interesting_appn, IsDecompress, jpeg_decompress_struct, SameSource, SameTables, SameFrame, SameScan, SameArrays
  <1>2. /\ e.error = "none" /\ e.global_state = d.global_state /\ e.inheaders = d.inheaders
        /\ e.saw_SOF = d.saw_SOF /\ e.saw_SOI = d.saw_SOI /\ e.start_of_file = d.start_of_file
        /\ e.warned = d.warned /\ e.eoi_reached = d.eoi_reached /\ e.consume_input = d.consume_input
        /\ e.has_multiple_scans = d.has_multiple_scans /\ e.insufficient_data = d.insufficient_data
    BY DEF get_interesting_appn, IsDecompress, jpeg_decompress_struct
  <1>3. e.saw_JFIF_marker \in BOOLEAN /\ e.Adobe_transform \in Int
    BY DEF get_interesting_appn, IsUnit, IsDecompress, jpeg_decompress_struct, StateOK
  <1> HIDE DEF e
  <1>4. StateOK(e)
    BY <1>2, <1>3 DEF IsDecompress, StateOK
  <1>5. SourceOK(e) /\ TablesOK(e) /\ FrameOK(e) /\ ScanOK(e) /\ ArraysOK(e)
    BY <1>1, <1>2, PartsOfAnObject DEF SameFrame
  <1>6. Keeps(d, e)
    BY <1>1, <1>2 DEF Keeps, SameFrame
  <1> QED BY <1>1, <1>2, <1>4, <1>5, <1>6 DEF IsDecompress, e

\* A scan starts with the tables its components use from then on.
LEMMA PassIsStarted ==
  ASSUME NEW d, IsDecompress(d), d.error = "none"
  PROVE  /\ IsDecompress(start_input_pass(d)) /\ Keeps(d, start_input_pass(d))
         /\ start_input_pass(d).global_state = d.global_state
  <1> DEFINE Component == [component_id : Nat, quant_tbl_no : Nat, MCU_blocks : Nat,
                           dc_tbl_no : Nat, ac_tbl_no : Nat, quant_table : Nat]
             comps == [ci \in DOMAIN d.comp_info |->
                 IF ci \in Scanned(d) THEN [d.comp_info[ci] EXCEPT !.quant_table = Latched(d, ci)]
                 ELSE d.comp_info[ci]]
             e == [d EXCEPT !.comp_info = comps, !.consume_input = "data", !.input_iMCU_row = 0,
                            !.insufficient_data = FALSE]
  <1>1. \/ start_input_pass(d) = e
        \/ \E code \in ReadErrors : start_input_pass(d) = Failed(d, code)
    <2>1. start_input_pass(d) \in {e, Failed(d, "JERR_BAD_MCU_SIZE"), Failed(d, "JERR_NO_QUANT_TABLE"),
                                   Failed(d, "JERR_NO_HUFF_TABLE")}
      BY Zenon DEF start_input_pass
    <2> HIDE DEF e
    <2> QED BY <2>1 DEF ReadErrors
  <1>2. CASE \E code \in ReadErrors : start_input_pass(d) = Failed(d, code)
    BY <1>2, FailedIsAnObject
  <1>3. CASE start_input_pass(d) = e
    <2>1. d.comp_info \in Seq(Component)
      BY DEF IsDecompress, FrameOK
    <2>2. \A ci \in DOMAIN d.comp_info : d.comp_info[ci] \in Component
      BY <2>1, SequenceOfASet, Zenon
    <2>3. ASSUME NEW ci \in DOMAIN d.comp_info
          PROVE  Latched(d, ci) \in Nat
      <3>1. d.comp_info[ci].quant_table \in Nat /\ d.comp_info[ci].quant_tbl_no \in Nat
        BY <2>2
      <3>2. d.quant_tbl_ptrs \in [QuantSlots -> Nat]
        BY DEF IsDecompress, TablesOK
      <3> QED BY <3>1, <3>2 DEF Latched, NoTable
    <2>4. ASSUME NEW ci \in DOMAIN d.comp_info
          PROVE  comps[ci] \in Component
      BY <2>2, <2>3
    <2>5. comps \in Seq(Component) /\ Len(comps) = Len(d.comp_info)
          /\ DOMAIN comps = DOMAIN d.comp_info /\ (comps = << >> <=> d.comp_info = << >>)
      <3>1. comps = [ci \in DOMAIN d.comp_info |-> comps[ci]]
        OBVIOUS
      <3> HIDE DEF comps, Component, e
      <3>2. \A ci \in DOMAIN d.comp_info : comps[ci] \in Component
        BY <2>4
      <3> QED BY <2>1, <3>1, <3>2, ReplacedElements, ZenonT(60)
    <2> HIDE DEF comps
    <2>6. /\ DOMAIN e = DOMAIN d /\ e.comp_info = comps /\ e.consume_input = "data"
          /\ e.input_iMCU_row = 0 /\ e.insufficient_data = FALSE
          /\ SameSource(d, e) /\ SameTables(d, e) /\ SameArrays(d, e)
          /\ SameState(d, [e EXCEPT !.consume_input = d.consume_input,
                                    !.insufficient_data = d.insufficient_data])
      BY DEF IsDecompress, jpeg_decompress_struct, SameState, SameSource, SameTables, SameArrays
    <2>7. /\ e.inheaders = d.inheaders /\ e.global_state = d.global_state /\ e.saw_SOF = d.saw_SOF
          /\ e.warned = d.warned /\ e.eoi_reached = d.eoi_reached
          /\ e.error = d.error /\ e.jpeg_color_space = d.jpeg_color_space /\ e.coding = d.coding
          /\ e.cur_comp_info = d.cur_comp_info /\ e.band = d.band
      BY DEF IsDecompress, jpeg_decompress_struct
    <2>8. StateOK(e)
      BY <2>6, <2>7 DEF IsDecompress, jpeg_decompress_struct, StateOK
    <2> HIDE DEF e
    <2>9. FrameOK(e)
      BY <2>5, <2>6, <2>7 DEF IsDecompress, FrameOK
    <2>10. ScanOK(e)
      <3>1. NoOfRows \in Nat \ {0}
        BY JobsAssumption, Zenon
      <3>2. e.cur_comp_info \in Seq(DOMAIN e.comp_info) /\ e.band \subseteq {"DC", "AC"}
        BY <2>5, <2>6, <2>7 DEF IsDecompress, ScanOK
      <3>3. 0 \in 0 .. NoOfRows /\ 0 < NoOfRows
        BY <3>1
      <3> QED BY <2>6, <3>2, <3>3 DEF ScanOK
    <2>11. SourceOK(e) /\ TablesOK(e) /\ ArraysOK(e)
      BY <2>5, <2>6, <2>7, PartsOfAnObject
    <2>12. Keeps(d, e)
      BY <2>5, <2>6, <2>7 DEF Keeps
    <2> QED BY <1>3, <2>6, <2>7, <2>8, <2>9, <2>10, <2>11, <2>12 DEF IsDecompress
  <1> HIDE DEF e
  <1> QED BY <1>1, <1>2, <1>3

\* A guess at the color space agrees with the number of components.
LEMMA ColorSpaceIsGuessed ==
  ASSUME NEW d, Len(d.comp_info) \in Nat, DOMAIN d.comp_info = 1 .. Len(d.comp_info)
  PROVE  /\ default_decompress_parms(d) \in ColorSpaces
         /\ Len(d.comp_info) \in ColorComponents(default_decompress_parms(d))
         /\ default_decompress_parms(d) = "UNKNOWN" => Len(d.comp_info) \notin {1, 3, 4}
  <1> DEFINE ids == [ci \in DOMAIN d.comp_info |-> d.comp_info[ci].component_id]
  <1>1. Len(ids) = Len(d.comp_info)
    <2>1. ids = [ci \in 1 .. Len(d.comp_info) |-> ids[ci]]
      OBVIOUS
    <2> HIDE DEF ids
    <2> QED BY <2>1, OnAnInterval
  <1>2. /\ Len(ids) = 1 => default_decompress_parms(d) = "GRAYSCALE"
        /\ Len(ids) = 3 => default_decompress_parms(d) \in {"RGB", "YCbCr"}
        /\ Len(ids) = 4 => default_decompress_parms(d) \in {"CMYK", "YCCK"}
        /\ Len(ids) \notin {1, 3, 4} => default_decompress_parms(d) = "UNKNOWN"
    <2> DEFINE three == IF \/ ~d.saw_JFIF_marker /\ d.Adobe_transform = 0
                           \/ ~d.saw_JFIF_marker /\ d.Adobe_transform = -1 /\ ids = <<82, 71, 66>>
                        THEN "RGB" ELSE "YCbCr"
               four == IF d.Adobe_transform \in {-1, 0} THEN "CMYK" ELSE "YCCK"
    <2>1. default_decompress_parms(d) = CASE Len(ids) = 1 -> "GRAYSCALE" [] Len(ids) = 3 -> three
                                          [] Len(ids) = 4 -> four [] OTHER -> "UNKNOWN"
      BY Zenon DEF default_decompress_parms
    <2>2. three \in {"RGB", "YCbCr"} /\ four \in {"CMYK", "YCCK"}
      BY Zenon
    <2>3. Len(ids) \in Nat
      BY <1>1
    <2> DEFINE n == Len(ids)
               space == default_decompress_parms(d)
    <2>4. /\ space = CASE n = 1 -> "GRAYSCALE" [] n = 3 -> three [] n = 4 -> four [] OTHER -> "UNKNOWN"
          /\ three \in {"RGB", "YCbCr"} /\ four \in {"CMYK", "YCCK"} /\ n \in Nat
      BY <2>1, <2>2, <2>3, Zenon
    <2> HIDE DEF ids, three, four, n, space
    <2>5. /\ n = 1 => space = "GRAYSCALE"
          /\ n = 3 => space \in {"RGB", "YCbCr"}
          /\ n = 4 => space \in {"CMYK", "YCCK"}
          /\ n \notin {1, 3, 4} => space = "UNKNOWN"
      BY <2>4
    <2> QED BY <2>5, Zenon DEF n, space
  <1> HIDE DEF ids
  <1> QED BY <1>1, <1>2 DEF ColorSpaces, ColorComponents

\* The first SOS ends the header; each other one begins the next scan.
LEMMA SOSIsReached ==
  ASSUME NEW d, IsDecompress(d), d.error = "none", d.saw_SOF, d.consume_input = "markers"
  PROVE  /\ IsDecompress(ReachedSOS(d)) /\ Keeps(d, ReachedSOS(d))
         /\ IF d.global_state = "DSTATE_START" THEN ReachedSOS(d).global_state \in {"DSTATE_START", "DSTATE_READY"}
            ELSE ReachedSOS(d).global_state = d.global_state
  <1> DEFINE Component == [component_id : Nat, quant_tbl_no : Nat, MCU_blocks : Nat,
                           dc_tbl_no : Nat, ac_tbl_no : Nat, quant_table : Nat]
             comps == [ci \in DOMAIN d.comp_info |-> [d.comp_info[ci] EXCEPT !.quant_table = NoTable]]
             several == \/ Len(d.cur_comp_info) < Len(d.comp_info)
                        \/ d.coding = "progressive"
             s == [d EXCEPT !.inheaders = FALSE, !.comp_info = comps, !.has_multiple_scans = several]
             e == [s EXCEPT !.jpeg_color_space = default_decompress_parms(s),
                            !.global_state = "DSTATE_READY"]
  <1>1. initial_setup(d) = IF Len(d.comp_info) > MAX_COMPONENTS THEN Failed(d, "JERR_COMPONENT_COUNT")
                           ELSE s
    BY Zenon DEF initial_setup
  <1>2. CASE d.inheaders /\ Len(d.comp_info) > MAX_COMPONENTS
    <2>1. ReachedSOS(d) = Failed(d, "JERR_COMPONENT_COUNT") /\ d.global_state = "DSTATE_START"
      <3>1. d.global_state = "DSTATE_START"
        BY <1>2 DEF IsDecompress, FrameOK
      <3> HIDE DEF s, e
      <3>2. "JERR_COMPONENT_COUNT" \in ReadErrors
        BY DEF ReadErrors
      <3>3. initial_setup(d) = Failed(d, "JERR_COMPONENT_COUNT")
        BY <1>1, <1>2
      <3>4. initial_setup(d).error # "none"
        BY <3>2, <3>3, FailedIsAnObject
      <3>5. ReachedSOS(d) = initial_setup(d)
        BY <1>2, <3>4, Zenon DEF ReachedSOS
      <3> QED BY <3>1, <3>3, <3>5
    <2> QED BY <2>1, FailedIsAnObject DEF ReadErrors
  <1>3. CASE d.inheaders /\ ~(Len(d.comp_info) > MAX_COMPONENTS)
    <2>1. s.error = "none"
      BY DEF IsDecompress, jpeg_decompress_struct
    <2>2. ReachedSOS(d) = e
      <3> HIDE DEF s, e
      <3>1. initial_setup(d) = s
        BY <1>1, <1>3
      <3> QED BY <1>3, <2>1, <3>1 DEF ReachedSOS, e
    <2>3. d.comp_info \in Seq(Component)
      BY DEF IsDecompress, FrameOK
    <2>4. Len(d.comp_info) \in Nat /\ DOMAIN d.comp_info = 1 .. Len(d.comp_info)
          /\ \A ci \in DOMAIN d.comp_info : d.comp_info[ci] \in Component
      BY <2>3, SequenceOfASet, Zenon
    <2>5. \A ci \in DOMAIN d.comp_info : comps[ci] \in Component
      BY <2>4 DEF NoTable
    <2>6. comps \in Seq(Component) /\ Len(comps) = Len(d.comp_info)
          /\ DOMAIN comps = DOMAIN d.comp_info /\ (comps = << >> <=> d.comp_info = << >>)
      <3>1. comps = [ci \in DOMAIN d.comp_info |-> comps[ci]]
        OBVIOUS
      <3> HIDE DEF comps, Component, several, s, e
      <3>2. comps \in [1 .. Len(d.comp_info) -> Component]
        BY <2>4, <2>5, <3>1
      <3>3. comps \in Seq(Component) /\ Len(comps) = Len(d.comp_info) /\ DOMAIN comps = 1 .. Len(d.comp_info)
        BY <2>4, <3>2, FunctionIsASequence
      <3>4. comps = << >> <=> d.comp_info = << >>
        BY <2>3, <3>3, EmptySeq
      <3> QED BY <2>4, <3>3, <3>4
    <2> HIDE DEF comps
    <2>7. several \in BOOLEAN
      OBVIOUS
    <2> HIDE DEF several
    <2>8. s.comp_info = comps /\ DOMAIN s = DOMAIN d
      BY DEF IsDecompress, jpeg_decompress_struct
    <2>9. /\ default_decompress_parms(s) \in ColorSpaces
          /\ Len(comps) \in ColorComponents(default_decompress_parms(s))
          /\ default_decompress_parms(s) = "UNKNOWN" => Len(comps) \notin {1, 3, 4}
      <3> HIDE DEF s
      <3>1. Len(comps) \in Nat /\ DOMAIN comps = 1 .. Len(comps)
        BY <2>4, <2>6
      <3> QED BY <2>8, <3>1, ColorSpaceIsGuessed
    <2> DEFINE space == default_decompress_parms(s)
    <2> HIDE DEF space
    <2>10. e = [d EXCEPT !.inheaders = FALSE, !.comp_info = comps, !.has_multiple_scans = several,
                         !.jpeg_color_space = space, !.global_state = "DSTATE_READY"]
      BY DEF space, IsDecompress, jpeg_decompress_struct
    <2> HIDE DEF e, s
    <2>11. /\ DOMAIN e = DOMAIN d /\ e.comp_info = comps /\ e.has_multiple_scans = several
           /\ e.jpeg_color_space = space /\ e.global_state = "DSTATE_READY" /\ e.inheaders = FALSE
           /\ SameSource(d, e) /\ SameTables(d, e) /\ SameScan(d, e)
           /\ e.coding = d.coding
      BY <2>10 DEF IsDecompress, jpeg_decompress_struct, SameSource, SameTables, SameScan
    <2>12. /\ e.saw_SOF = d.saw_SOF /\ e.consume_input = d.consume_input
           /\ e.warned = d.warned /\ e.eoi_reached = d.eoi_reached
           /\ e.error = d.error /\ e.saw_SOI = d.saw_SOI /\ e.saw_JFIF_marker = d.saw_JFIF_marker
           /\ e.start_of_file = d.start_of_file /\ e.insufficient_data = d.insufficient_data
           /\ e.Adobe_transform = d.Adobe_transform
      BY <2>10 DEF IsDecompress, jpeg_decompress_struct
    <2>13. StateOK(e)
      BY <2>7, <2>11, <2>12 DEF IsDecompress, StateOK
    <2>14. FrameOK(e)
      <3>1. comps # << >>
        BY <2>6 DEF IsDecompress, FrameOK
      <3> QED BY <2>6, <2>9, <2>11, <2>12, <3>1 DEF IsDecompress, FrameOK, space
    <2>15. ScanOK(e) /\ SourceOK(e) /\ TablesOK(e)
      BY <2>6, <2>11, <2>12, PartsOfAnObject
    <2>16. ArraysOK(e)
      BY <2>11 DEF ArraysOK
    <2>17. Keeps(d, e)
      BY <2>6, <2>11, <2>12 DEF Keeps
    <2>18. d.global_state = "DSTATE_START"
      BY <1>3 DEF IsDecompress, FrameOK
    <2> QED BY <2>2, <2>11, <2>13, <2>14, <2>15, <2>16, <2>17, <2>18 DEF IsDecompress
  <1>4. CASE ~d.inheaders
    <2>1. ReachedSOS(d) = IF d.has_multiple_scans THEN start_input_pass(d) ELSE Failed(d, "JERR_EOI_EXPECTED")
      BY <1>4 DEF ReachedSOS
    <2>2. d.global_state # "DSTATE_START"
      BY <1>4 DEF IsDecompress, FrameOK
    <2> QED BY <2>1, <2>2, PassIsStarted, FailedIsAnObject DEF ReadErrors
  <1> QED BY <1>2, <1>3, <1>4

-----------------------------------------------------------------------------
(* A turn of the loop that reads the file.  Where no end of the image was  *)
(* seen there is none, unless the library has put one there, with a        *)
(* warning.                                                                *)
NoEnd(units) == \A i \in DOMAIN units : units[i].kind # "EOI"
Unended(d) == ~d.warned => ~d.eoi_reached /\ NoEnd(d.buffer)

Advances(d, e) ==
  /\ e.file = d.file /\ (d.warned => e.warned)
  /\ d.saw_SOF => e.saw_SOF /\ DOMAIN e.comp_info = DOMAIN d.comp_info
  /\ IF d.global_state = "DSTATE_START" THEN e.global_state \in {"DSTATE_START", "DSTATE_READY"}
     ELSE e.global_state = d.global_state

ReadsOn(d, e) == Advances(d, e) /\ (Unended(d) => Unended(e))

\* A routine that does not touch the source reads on.
LEMMA KeepingIsReadingOn ==
  ASSUME NEW d, NEW e, Keeps(d, e),
         IF d.global_state = "DSTATE_START" THEN e.global_state \in {"DSTATE_START", "DSTATE_READY"}
         ELSE e.global_state = d.global_state
  PROVE  ReadsOn(d, e)
  BY DEF Keeps, SameSource, ReadsOn, Advances, Unended

\* One turn behind another.
LEMMA ReadingOnGoesOn ==
  ASSUME NEW c, NEW d, NEW e, ReadsOn(c, d), ReadsOn(d, e), d.global_state = c.global_state
  PROVE  ReadsOn(c, e)
  BY DEF ReadsOn, Advances

\* The unit that is read next leaves the buffer.
LEMMA UnitIsTaken ==
  ASSUME NEW d, IsDecompress(d), d.error = "none", d.buffer # << >>,
         NEW e, e = [d EXCEPT !.buffer = Tail(@)]
  PROVE  /\ IsDecompress(e) /\ IsUnit(Head(d.buffer)) /\ ReadsOn(d, e)
         /\ SameState(d, e) /\ e.buffer = Tail(d.buffer)
         /\ Unended(d) /\ ~d.warned => Head(d.buffer).kind # "EOI"
  <1>1. DOMAIN e = DOMAIN d /\ e.buffer = Tail(d.buffer) /\ e.file = d.file /\ e.at = d.at
    BY DEF IsDecompress, jpeg_decompress_struct
  <1>2. SameState(d, e) /\ SameTables(d, e) /\ SameFrame(d, e) /\ SameScan(d, e) /\ SameArrays(d, e)
    BY DEF IsDecompress, jpeg_decompress_struct, SameState, SameTables, SameFrame, SameScan, SameArrays
  <1>3. /\ IsStream(Tail(d.buffer)) /\ IsUnit(Head(d.buffer)) /\ Head(d.buffer) = d.buffer[1]
        /\ 1 \in DOMAIN d.buffer
        /\ \A i \in DOMAIN Tail(d.buffer) :
             i + 1 \in DOMAIN d.buffer /\ Tail(d.buffer)[i] = d.buffer[i + 1]
    BY TailOfStream DEF IsDecompress, SourceOK
  <1>4. SourceOK(e)
    BY <1>1, <1>3 DEF IsDecompress, SourceOK
  <1>5. StateOK(e) /\ TablesOK(e) /\ FrameOK(e) /\ ScanOK(e) /\ ArraysOK(e)
    BY <1>1, <1>2, PartsOfAnObject DEF SameState, SameFrame
  <1>6. Unended(d) => Unended(e)
    BY <1>1, <1>2, <1>3 DEF Unended, NoEnd, SameState
  <1>7. ReadsOn(d, e)
    <2>1. e.global_state = d.global_state /\ e.warned = d.warned /\ e.saw_SOF = d.saw_SOF
          /\ e.comp_info = d.comp_info
      BY <1>2 DEF SameState, SameFrame
    <2> QED BY <1>1, <1>6, <2>1 DEF ReadsOn, Advances
  <1>8. Unended(d) /\ ~d.warned => Head(d.buffer).kind # "EOI"
    BY <1>3 DEF Unended, NoEnd
  <1> QED BY <1>1, <1>2, <1>3, <1>4, <1>5, <1>7, <1>8 DEF IsDecompress

\* The warning that there was something to skip.
LEMMA WarnedIsAnObject ==
  ASSUME NEW d, IsDecompress(d), d.error = "none", NEW e, e = [d EXCEPT !.warned = TRUE]
  PROVE  IsDecompress(e) /\ ReadsOn(d, e) /\ e.global_state = d.global_state /\ e.error = "none"
  <1>1. DOMAIN e = DOMAIN d /\ e.warned /\ e.warned \in BOOLEAN /\ SameSource(d, e)
        /\ SameTables(d, e) /\ SameFrame(d, e) /\ SameScan(d, e) /\ SameArrays(d, e)
    BY DEF IsDecompress, jpeg_decompress_struct, SameSource, SameTables, SameFrame, SameScan, SameArrays
  <1>2. /\ e.error = d.error /\ e.global_state = d.global_state /\ e.inheaders = d.inheaders
        /\ e.saw_SOF = d.saw_SOF /\ e.saw_SOI = d.saw_SOI /\ e.start_of_file = d.start_of_file
        /\ e.eoi_reached = d.eoi_reached /\ e.consume_input = d.consume_input
        /\ e.has_multiple_scans = d.has_multiple_scans /\ e.insufficient_data = d.insufficient_data
        /\ e.saw_JFIF_marker = d.saw_JFIF_marker /\ e.Adobe_transform = d.Adobe_transform
    BY DEF IsDecompress, jpeg_decompress_struct
  <1>3. StateOK(e)
    BY <1>1, <1>2 DEF IsDecompress, StateOK
  <1>4. SourceOK(e) /\ TablesOK(e) /\ FrameOK(e) /\ ScanOK(e) /\ ArraysOK(e)
    BY <1>1, <1>2, PartsOfAnObject DEF SameFrame
  <1>5. ReadsOn(d, e)
    BY <1>1, <1>2 DEF ReadsOn, Advances, Unended, SameSource, SameFrame
  <1> QED BY <1>1, <1>2, <1>3, <1>4, <1>5 DEF IsDecompress

\* The end of the image.
LEMMA EOIIsReached ==
  ASSUME NEW d, IsDecompress(d), d.error = "none"
  PROVE  /\ IsDecompress(ReachedEOI(d)) /\ ReachedEOI(d).global_state = d.global_state
         /\ SameSource(d, ReachedEOI(d)) /\ ReachedEOI(d).warned = d.warned
         /\ d.saw_SOF => ReachedEOI(d).saw_SOF /\ DOMAIN ReachedEOI(d).comp_info = DOMAIN d.comp_info
  <1>1. CASE d.inheaders
    <2>1. \E code \in ReadErrors : ReachedEOI(d) = Failed(d, code)
      <3>1. ReachedEOI(d) = Failed(d, IF d.saw_SOF THEN "JERR_SOF_NO_SOS" ELSE "JERR_NO_IMAGE")
        BY <1>1 DEF ReachedEOI
      <3> QED BY <3>1 DEF ReadErrors
    <2> QED BY <2>1, FailedIsAnObject DEF Keeps
  <1>2. CASE ~d.inheaders
    <2> DEFINE e == ReachedEOI(d)
    <2>0. e = [d EXCEPT !.eoi_reached = TRUE]
      BY <1>2 DEF ReachedEOI
    <2> HIDE DEF e
    <2>1. DOMAIN e = DOMAIN d /\ e.eoi_reached \in BOOLEAN /\ SameSource(d, e)
          /\ SameTables(d, e) /\ SameFrame(d, e) /\ SameScan(d, e) /\ SameArrays(d, e)
      BY <2>0 DEF IsDecompress, jpeg_decompress_struct, SameSource, SameTables, SameFrame, SameScan, SameArrays
    <2>2. /\ e.error = d.error /\ e.global_state = d.global_state /\ e.inheaders = d.inheaders
          /\ e.saw_SOF = d.saw_SOF /\ e.saw_SOI = d.saw_SOI /\ e.start_of_file = d.start_of_file
          /\ e.warned = d.warned /\ e.consume_input = d.consume_input
          /\ e.has_multiple_scans = d.has_multiple_scans /\ e.insufficient_data = d.insufficient_data
          /\ e.saw_JFIF_marker = d.saw_JFIF_marker /\ e.Adobe_transform = d.Adobe_transform
      BY <2>0 DEF IsDecompress, jpeg_decompress_struct
    <2>3. StateOK(e)
      BY <2>1, <2>2 DEF IsDecompress, StateOK
    <2>4. SourceOK(e) /\ TablesOK(e) /\ FrameOK(e) /\ ScanOK(e) /\ ArraysOK(e)
      BY <2>1, <2>2, PartsOfAnObject DEF SameFrame
    <2> QED BY <2>1, <2>2, <2>3, <2>4 DEF IsDecompress, SameFrame, e
  <1> QED BY <1>1, <1>2

\* Whatever comes next where a marker may be.
LEMMA MarkerIsRead ==
  ASSUME NEW d, IsDecompress(d), d.error = "none", d.consume_input = "markers", d.buffer # << >>
  PROVE  IsDecompress(ReadMarker(d)) /\ ReadsOn(d, ReadMarker(d))
  <1> DEFINE u == Head(d.buffer)
             e == [d EXCEPT !.buffer = Tail(@)]
             Good(r) == IsDecompress(r) /\ ReadsOn(d, r)
  <1>1. /\ IsDecompress(e) /\ IsUnit(u) /\ ReadsOn(d, e) /\ SameState(d, e)
        /\ Unended(d) /\ ~d.warned => u.kind # "EOI"
    BY UnitIsTaken
  <1>2. e.error = "none" /\ e.global_state = d.global_state /\ e.consume_input = "markers"
        /\ e.saw_SOI = d.saw_SOI
    BY <1>1 DEF SameState
  <1>3. ReadMarker(d) =
          IF ~d.saw_SOI /\ first_marker(d, u).error # "none" THEN first_marker(d, u)
          ELSE CASE u.kind = "SOI" -> get_soi(e)
             [] u.kind = "SOF" -> get_sof(e, u)
             [] u.kind = "SOS" -> IF get_sos(e, u).error = "none" THEN ReachedSOS(get_sos(e, u)) ELSE get_sos(e, u)
             [] u.kind = "EOI" -> ReachedEOI(e)
             [] u.kind \in {"DQT", "DHT", "DRI"} -> get_tables(e, u)
             [] u.kind \in {"APP0", "APP14"} -> get_interesting_appn(e, u)
             [] u.kind = "COM" -> skip_variable(e)
             [] u.kind = "ROW" -> [e EXCEPT !.warned = TRUE]
    BY Zenon DEF ReadMarker
  <1>4. /\ u.kind = "SOI" => first_marker(d, u).error = "none"
        /\ u.kind # "SOI" => first_marker(d, u) = Failed(d, "JERR_NO_SOI")
                             /\ first_marker(d, u).error # "none"
    BY FailedIsAnObject DEF first_marker, ReadErrors
  <1> HIDE DEF e, u
  <1>5. ASSUME NEW r, IsDecompress(r), Keeps(e, r),
               IF e.global_state = "DSTATE_START" THEN r.global_state \in {"DSTATE_START", "DSTATE_READY"}
               ELSE r.global_state = e.global_state
        PROVE  Good(r)
    <2>1. ReadsOn(e, r)
      BY <1>5, KeepingIsReadingOn
    <2> QED BY <1>1, <1>2, <1>5, <2>1, ReadingOnGoesOn
  <1>6. CASE ~d.saw_SOI /\ u.kind # "SOI"
    <2>1. ReadMarker(d) = Failed(d, "JERR_NO_SOI")
      BY <1>3, <1>4, <1>6
    <2>2. IsDecompress(ReadMarker(d)) /\ Keeps(d, ReadMarker(d)) /\ ReadMarker(d).global_state = d.global_state
      BY <2>1, FailedIsAnObject DEF ReadErrors
    <2>3. ReadsOn(d, ReadMarker(d))
      BY <2>2, KeepingIsReadingOn
    <2> QED BY <2>2, <2>3
  <1>7. CASE u.kind = "SOI"
    <2>1. ReadMarker(d) = get_soi(e)
      BY <1>3, <1>4, <1>7
    <2> HIDE DEF Good
    <2> QED BY <1>1, <1>2, <1>5, <2>1, SOIIsRead DEF Good
  <1>8. CASE d.saw_SOI /\ u.kind = "SOF"
    <2>1. ReadMarker(d) = get_sof(e, u)
      BY <1>3, <1>8
    <2>2. IsDecompress(get_sof(e, u)) /\ Keeps(e, get_sof(e, u)) /\ get_sof(e, u).global_state = e.global_state
      BY <1>1, <1>2, <1>8, SOFIsRead
    <2> QED BY <1>5, <2>1, <2>2
  <1>9. CASE d.saw_SOI /\ u.kind = "SOS"
    <2> DEFINE s == get_sos(e, u)
    <2>1. ReadMarker(d) = IF s.error = "none" THEN ReachedSOS(s) ELSE s
      BY <1>3, <1>9
    <2>2. /\ IsDecompress(s) /\ Keeps(e, s) /\ s.global_state = e.global_state
          /\ s.consume_input = "markers" /\ (s.error = "none" => s.saw_SOF)
      BY <1>1, <1>2, <1>9, SOSIsRead
    <2> HIDE DEF s
    <2>3. Good(s)
      BY <1>5, <2>2
    <2>4. CASE s.error = "none"
      <3>1. IsDecompress(ReachedSOS(s)) /\ ReadsOn(s, ReachedSOS(s))
        BY <2>2, <2>4, SOSIsReached, KeepingIsReadingOn
      <3> QED BY <1>2, <2>1, <2>2, <2>3, <2>4, <3>1, ReadingOnGoesOn
    <2> QED BY <2>1, <2>3, <2>4
  <1>10. CASE d.saw_SOI /\ u.kind = "EOI"
    <2>1. ReadMarker(d) = ReachedEOI(e)
      BY <1>3, <1>10
    <2> DEFINE r == ReachedEOI(e)
    <2>2. /\ IsDecompress(r) /\ r.global_state = e.global_state /\ SameSource(e, r)
          /\ r.warned = e.warned
          /\ e.saw_SOF => r.saw_SOF /\ DOMAIN r.comp_info = DOMAIN e.comp_info
      BY <1>1, <1>2, EOIIsReached
    <2>3. Unended(d) => d.warned
      BY <1>1, <1>10
    <2> HIDE DEF r
    <2>4. e.warned = d.warned /\ e.saw_SOF = d.saw_SOF
      BY <1>1 DEF SameState
    <2>5. ReadsOn(d, r)
      BY <1>1, <1>2, <2>2, <2>3, <2>4 DEF ReadsOn, Advances, Unended, SameSource
    <2> QED BY <2>1, <2>2, <2>5 DEF r
  <1>11. CASE d.saw_SOI /\ u.kind \in {"DQT", "DHT", "DRI"}
    <2>1. ReadMarker(d) = get_tables(e, u)
      BY <1>3, <1>11
    <2>2. IsDecompress(get_tables(e, u)) /\ Keeps(e, get_tables(e, u)) /\ get_tables(e, u).global_state = e.global_state
      BY <1>1, <1>2, <1>11, TablesAreRead
    <2> QED BY <1>5, <2>1, <2>2
  <1>12. CASE d.saw_SOI /\ u.kind \in {"APP0", "APP14"}
    <2>1. ReadMarker(d) = get_interesting_appn(e, u)
      BY <1>3, <1>12
    <2>2. /\ IsDecompress(get_interesting_appn(e, u)) /\ Keeps(e, get_interesting_appn(e, u))
          /\ get_interesting_appn(e, u).global_state = e.global_state
      BY <1>1, <1>2, <1>12, AppnIsRead
    <2> QED BY <1>5, <2>1, <2>2
  <1>13. CASE d.saw_SOI /\ u.kind = "COM"
    <2>1. ReadMarker(d) = e
      BY <1>3, <1>13 DEF skip_variable
    <2> QED BY <1>1, <2>1
  <1>14. CASE d.saw_SOI /\ u.kind = "ROW"
    <2>1. ReadMarker(d) = [e EXCEPT !.warned = TRUE]
      BY <1>3, <1>14
    <2>2. IsDecompress(ReadMarker(d)) /\ ReadsOn(e, ReadMarker(d))
      BY <1>1, <1>2, <2>1, WarnedIsAnObject
    <2> QED BY <1>1, <1>2, <2>2, ReadingOnGoesOn
  <1>15. u.kind \in {"SOI", "EOI", "COM", "APP0", "APP14", "DQT", "DHT", "DRI", "SOF", "SOS", "ROW"}
    BY <1>1 DEF IsUnit
  <1>16. d.saw_SOI \in BOOLEAN
    BY DEF IsDecompress, StateOK
  <1> QED BY <1>6, <1>7, <1>8, <1>9, <1>10, <1>11, <1>12, <1>13, <1>14, <1>15, <1>16

\* A decoded row is what was there with what the scan adds, or noise.
LEMMA DecodedContent ==
  ASSUME NEW d, IsDecompress(d), NEW u, IsUnit(u), u.kind = "ROW", NEW old,
         NEW i \in DOMAIN d.cur_comp_info
  PROVE  IsContent(Decoded(d, old, u, i))
  <1>1. CASE u.code # ScanCode(d)
    BY <1>1 DEF Decoded, Noise, IsContent, NoTable
  <1>2. CASE u.code = ScanCode(d)
    <2>1. DOMAIN u.contents = DOMAIN d.cur_comp_info /\ \A k \in DOMAIN u.contents : IsContent(u.contents[k])
      BY <1>2 DEF IsUnit, ScanCode
    <2> DEFINE content == u.contents[i]
    <2>2. IsContent(content)
      BY <2>1
    <2>3. Decoded(d, old, u, i) = [content EXCEPT !.pieces = @ \cup old.pieces]
      BY <1>2 DEF Decoded
    <2> HIDE DEF content
    <2> QED BY <2>2, <2>3 DEF IsContent
  <1> QED BY <1>1, <1>2

\* The end of a pass, or the next row of it.
LEMMA RowIsCounted ==
  ASSUME NEW d, IsDecompress(d), d.error = "none", d.consume_input = "data",
         NEW t, t = [d EXCEPT !.input_iMCU_row = @ + 1],
         NEW n, n = IF d.input_iMCU_row + 1 = NoOfRows THEN finish_input_pass(t) ELSE t
  PROVE  /\ IsDecompress(n) /\ n.error = "none" /\ Keeps(d, n) /\ n.global_state = d.global_state
         /\ SameFrame(d, n) /\ SameArrays(d, n) /\ d.input_iMCU_row + 1 \in Rows
  <1>1. NoOfRows \in Nat \ {0} /\ d.input_iMCU_row \in 0 .. NoOfRows /\ d.input_iMCU_row < NoOfRows
    BY JobsAssumption, Zenon DEF IsDecompress, ScanOK
  <1>2. d.input_iMCU_row + 1 \in Rows
    BY <1>1 DEF Rows
  <1>3. /\ DOMAIN n = DOMAIN d /\ n.input_iMCU_row = d.input_iMCU_row + 1
        /\ n.consume_input \in {"markers", "data"}
        /\ n.consume_input = "data" => n.input_iMCU_row # NoOfRows
        /\ SameSource(d, n) /\ SameTables(d, n) /\ SameFrame(d, n) /\ SameArrays(d, n)
        /\ n.cur_comp_info = d.cur_comp_info /\ n.band = d.band
    BY <1>1 DEF finish_input_pass, IsDecompress, jpeg_decompress_struct, SameSource, SameTables, SameFrame, SameArrays
  <1>4. /\ n.error = d.error /\ n.global_state = d.global_state /\ n.inheaders = d.inheaders
        /\ n.saw_SOF = d.saw_SOF /\ n.saw_SOI = d.saw_SOI /\ n.start_of_file = d.start_of_file
        /\ n.eoi_reached = d.eoi_reached /\ n.warned = d.warned
        /\ n.has_multiple_scans = d.has_multiple_scans /\ n.insufficient_data = d.insufficient_data
        /\ n.saw_JFIF_marker = d.saw_JFIF_marker /\ n.Adobe_transform = d.Adobe_transform
    BY DEF finish_input_pass, IsDecompress, jpeg_decompress_struct
  <1>5. StateOK(n)
    BY <1>3, <1>4 DEF IsDecompress, StateOK
  <1>6. ScanOK(n)
    <2>1. n.input_iMCU_row \in 0 .. NoOfRows
      BY <1>1, <1>3
    <2>2. n.consume_input = "data" => n.input_iMCU_row < NoOfRows
      BY <1>1, <1>3
    <2>3. n.cur_comp_info \in Seq(DOMAIN n.comp_info) /\ n.band \subseteq {"DC", "AC"}
      BY <1>3 DEF IsDecompress, ScanOK, SameFrame
    <2> QED BY <2>1, <2>2, <2>3 DEF ScanOK
  <1>7. SourceOK(n) /\ TablesOK(n) /\ FrameOK(n) /\ ArraysOK(n)
    BY <1>3, <1>4, PartsOfAnObject DEF SameFrame
  <1>8. Keeps(d, n)
    BY <1>3, <1>4 DEF Keeps, SameFrame
  <1> QED BY <1>2, <1>3, <1>4, <1>5, <1>6, <1>7, <1>8 DEF IsDecompress

\* A row of the arrays that the scan is of.
LEMMA RowIsConsumed ==
  ASSUME NEW d, IsDecompress(d), d.error = "none", d.consume_input = "data", d.buffer # << >>
  PROVE  IsDecompress(ConsumeRow(d)) /\ ReadsOn(d, ConsumeRow(d))
  <1> DEFINE u == Head(d.buffer)
             row == d.input_iMCU_row + 1
             hit == d.insufficient_data \/ u.kind # "ROW"
             at(ci) == CHOOSE i \in DOMAIN d.cur_comp_info :
                        /\ d.cur_comp_info[i] = ci
                        /\ \A j \in DOMAIN d.cur_comp_info : d.cur_comp_info[j] = ci => j <= i
             turned == [d EXCEPT !.input_iMCU_row = row]
             next == IF row = NoOfRows THEN finish_input_pass(turned) ELSE turned
             arrays == [ci \in DOMAIN next.coef_arrays |->
               IF ci \in Scanned(d)
               THEN [next.coef_arrays[ci] EXCEPT ![row] = Decoded(d, d.coef_arrays[ci][row], u, at(ci))]
               ELSE next.coef_arrays[ci]]
             warned == [next EXCEPT !.insufficient_data = TRUE, !.warned = TRUE]
             read == [next EXCEPT !.buffer = Tail(@), !.coef_arrays = arrays]
  <1>1. ConsumeRow(d) = IF hit THEN warned ELSE read
    BY Zenon DEF ConsumeRow
  <1>2. /\ IsDecompress(next) /\ next.error = "none" /\ Keeps(d, next) /\ next.global_state = d.global_state
        /\ SameFrame(d, next) /\ SameArrays(d, next) /\ row \in Rows
    <2>1. turned = [d EXCEPT !.input_iMCU_row = @ + 1]
      OBVIOUS
    <2> HIDE DEF turned
    <2> QED BY <2>1, RowIsCounted
  <1> HIDE DEF turned, next
  <1>3. ReadsOn(d, next)
    BY <1>2, KeepingIsReadingOn
  <1>4. IsDecompress(warned) /\ ReadsOn(d, warned)
    <2> DEFINE w == [next EXCEPT !.warned = TRUE]
    <2>1. IsDecompress(w) /\ ReadsOn(next, w) /\ w.global_state = next.global_state /\ w.error = "none"
      <3>1. w = [next EXCEPT !.warned = TRUE]
        OBVIOUS
      <3> HIDE DEF w
      <3> QED BY <1>2, <3>1, WarnedIsAnObject
    <2>2. warned = [w EXCEPT !.insufficient_data = TRUE] /\ w.warned = TRUE
      BY <1>2 DEF IsDecompress, jpeg_decompress_struct
    <2> HIDE DEF w, warned
    <2>3. DOMAIN warned = DOMAIN w /\ SameSource(w, warned) /\ SameTables(w, warned)
          /\ SameFrame(w, warned) /\ SameScan(w, warned) /\ SameArrays(w, warned)
      BY <2>1, <2>2 DEF IsDecompress, jpeg_decompress_struct, SameSource, SameTables, SameFrame, SameScan, SameArrays
    <2>4. /\ warned.error = w.error /\ warned.global_state = w.global_state /\ warned.inheaders = w.inheaders
          /\ warned.saw_SOF = w.saw_SOF /\ warned.saw_SOI = w.saw_SOI
          /\ warned.start_of_file = w.start_of_file /\ warned.warned = w.warned
          /\ warned.eoi_reached = w.eoi_reached /\ warned.consume_input = w.consume_input
          /\ warned.has_multiple_scans = w.has_multiple_scans /\ warned.insufficient_data \in BOOLEAN
          /\ warned.saw_JFIF_marker = w.saw_JFIF_marker /\ warned.Adobe_transform = w.Adobe_transform
      BY <2>1, <2>2 DEF IsDecompress, jpeg_decompress_struct
    <2>5. StateOK(warned)
      BY <2>1, <2>4 DEF IsDecompress, StateOK
    <2>6. SourceOK(warned) /\ TablesOK(warned) /\ FrameOK(warned) /\ ScanOK(warned) /\ ArraysOK(warned)
      BY <2>1, <2>3, <2>4, PartsOfAnObject DEF SameFrame
    <2>7. IsDecompress(warned)
      BY <2>1, <2>3, <2>5, <2>6 DEF IsDecompress
    <2>8. ReadsOn(w, warned)
      BY <2>3, <2>4 DEF ReadsOn, Advances, Unended, SameSource, SameFrame
    <2> QED BY <1>2, <1>3, <2>1, <2>4, <2>7, <2>8, ReadingOnGoesOn
  <1>5. ASSUME ~hit
        PROVE  IsDecompress(read) /\ ReadsOn(d, read)
    <2> DEFINE t == [next EXCEPT !.buffer = Tail(@)]
    <2>0. next.buffer = d.buffer
      BY <1>2 DEF Keeps, SameSource
    <2>1. IsDecompress(t) /\ IsUnit(u) /\ ReadsOn(next, t) /\ SameState(next, t) /\ t.coef_arrays = next.coef_arrays
      <3>1. IsDecompress(t) /\ IsUnit(Head(next.buffer)) /\ ReadsOn(next, t) /\ SameState(next, t)
        BY <1>2, <2>0, UnitIsTaken
      <3>2. t.coef_arrays = next.coef_arrays
        BY <1>2 DEF IsDecompress, jpeg_decompress_struct
      <3> QED BY <2>0, <3>1, <3>2
    <2>2. read = [t EXCEPT !.coef_arrays = arrays] /\ u.kind = "ROW"
      <3> HIDE DEF arrays, u
      <3> QED BY <1>2, <1>5 DEF IsDecompress, jpeg_decompress_struct
    <2> HIDE DEF t, arrays, u, read
    <2>3. /\ DOMAIN read = DOMAIN t /\ read.coef_arrays = arrays
          /\ SameState(t, read) /\ SameSource(t, read)
          /\ SameTables(t, read) /\ SameFrame(t, read) /\ SameScan(t, read)
      BY <2>1, <2>2 DEF IsDecompress, jpeg_decompress_struct, SameState, SameSource, SameTables, SameFrame, SameScan
    <2> HIDE DEF read
    <2>4. ASSUME NEW ci \in DOMAIN d.cur_comp_info
          PROVE  d.cur_comp_info[ci] \in Scanned(d)
      BY DEF Scanned
    <2>5. ASSUME NEW ci \in Scanned(d), NEW old
          PROVE  IsContent(Decoded(d, old, u, at(ci)))
      <3>1. at(ci) \in DOMAIN d.cur_comp_info
        <4> DEFINE scanned == {i \in DOMAIN d.cur_comp_info : d.cur_comp_info[i] = ci}
        <4>1. d.cur_comp_info \in Seq(DOMAIN d.comp_info) /\ scanned # {}
          BY DEF IsDecompress, ScanOK, Scanned
        <4>2. PICK i \in scanned : \A j \in scanned : j <= i
          <5>1. DOMAIN d.cur_comp_info = 1 .. Len(d.cur_comp_info) /\ Len(d.cur_comp_info) \in Nat
            BY <4>1
          <5>2. scanned \in SUBSET (1 .. Len(d.cur_comp_info))
            BY <5>1
          <5> HIDE DEF scanned
          <5> QED BY <4>1, <5>1, <5>2, GreatestNumber
        <4> QED BY <4>2, Zenon
      <3> HIDE DEF at
      <3> QED BY <2>1, <2>2, <3>1, DecodedContent
    <2> HIDE DEF at
    <2>6. ArraysOK(read)
      <3> SUFFICES ASSUME read.global_state \in {"DSTATE_RDCOEFS", "DSTATE_STOPPING"}, read.error = "none"
                   PROVE  /\ DOMAIN arrays = DOMAIN read.comp_info
                          /\ \A ci \in DOMAIN arrays :
                               /\ arrays[ci] = [r \in Rows |-> arrays[ci][r]]
                               /\ \A r \in Rows : IsContent(arrays[ci][r])
        BY <2>3 DEF ArraysOK
      <3> DEFINE old == next.coef_arrays
      <3>1. /\ DOMAIN old = DOMAIN read.comp_info
            /\ \A ci \in DOMAIN old : old[ci] = [r \in Rows |-> old[ci][r]] /\ \A r \in Rows : IsContent(old[ci][r])
        <4>1. ArraysOK(t) /\ t.global_state = read.global_state /\ t.error = read.error
              /\ t.comp_info = read.comp_info
          BY <2>1, <2>3 DEF IsDecompress, SameState, SameFrame
        <4> QED BY <2>1, <4>1 DEF ArraysOK
      <3>2. arrays = [ci \in DOMAIN old |->
               IF ci \in Scanned(d) THEN [old[ci] EXCEPT ![row] = Decoded(d, d.coef_arrays[ci][row], u, at(ci))]
               ELSE old[ci]]
        BY DEF arrays
      <3> HIDE DEF old, row
      <3>3. ASSUME NEW ci \in DOMAIN old
            PROVE  arrays[ci] = [r \in Rows |-> arrays[ci][r]] /\ \A r \in Rows : IsContent(arrays[ci][r])
        <4>1. CASE ci \in Scanned(d)
          <5> DEFINE new == Decoded(d, d.coef_arrays[ci][row], u, at(ci))
          <5>1. arrays[ci] = [old[ci] EXCEPT ![row] = new]
            BY <3>2, <4>1
          <5>2. IsContent(new)
            BY <2>5, <4>1
          <5> HIDE DEF new
          <5>3. arrays[ci] = [r \in Rows |-> IF r = row THEN new ELSE old[ci][r]]
            BY <3>1, <5>1
          <5> QED BY <3>1, <5>2, <5>3
        <4>2. CASE ci \notin Scanned(d)
          BY <3>1, <3>2, <4>2
        <4> QED BY <4>1, <4>2
      <3>4. DOMAIN arrays = DOMAIN old
        BY <3>2
      <3> QED BY <3>1, <3>3, <3>4
    <2>7. StateOK(read) /\ SourceOK(read) /\ TablesOK(read) /\ FrameOK(read) /\ ScanOK(read)
      BY <2>1, <2>3, PartsOfAnObject DEF SameState, SameFrame
    <2>8. IsDecompress(read)
      BY <2>1, <2>3, <2>6, <2>7 DEF IsDecompress
    <2>9. ReadsOn(t, read) /\ t.global_state = next.global_state
      BY <2>1, <2>3 DEF ReadsOn, Advances, Unended, SameSource, SameState, SameFrame
    <2>10. ReadsOn(next, read)
      BY <2>1, <2>9, ReadingOnGoesOn
    <2> QED BY <1>2, <1>3, <2>8, <2>10, ReadingOnGoesOn
  <1> HIDE DEF warned, read, hit
  <1> QED BY <1>1, <1>4, <1>5

\* The arrays are there, and blank, before the first scan.
LEMMA ArraysAreBlank ==
  ASSUME NEW d, IsDecompress(d), d.error = "none", d.global_state = "DSTATE_READY",
         NEW e, e = [d EXCEPT !.global_state = "DSTATE_RDCOEFS",
                              !.coef_arrays = [ci \in DOMAIN d.comp_info |-> [r \in Rows |-> Blank]]]
  PROVE  /\ IsDecompress(e) /\ e.error = "none" /\ e.global_state = "DSTATE_RDCOEFS" /\ Keeps(d, e)
         /\ SameSource(d, e) /\ SameTables(d, e) /\ SameFrame(d, e)
  <1> DEFINE blank == [ci \in DOMAIN d.comp_info |-> [r \in Rows |-> Blank]]
  <1>1. e = [d EXCEPT !.global_state = "DSTATE_RDCOEFS", !.coef_arrays = blank]
    OBVIOUS
  <1>2. /\ DOMAIN blank = DOMAIN d.comp_info
        /\ \A ci \in DOMAIN blank : blank[ci] = [r \in Rows |-> blank[ci][r]] /\ \A r \in Rows : IsContent(blank[ci][r])
    BY DEF Blank, IsContent, NoTable
  <1> HIDE DEF blank
  <1>3. /\ DOMAIN e = DOMAIN d /\ e.global_state = "DSTATE_RDCOEFS" /\ e.coef_arrays = blank
        /\ SameSource(d, e) /\ SameTables(d, e) /\ SameFrame(d, e) /\ SameScan(d, e)
    BY ZenonT(60), <1>1 DEF IsDecompress, jpeg_decompress_struct, SameSource, SameTables, SameFrame, SameScan
  <1>4. /\ e.error = d.error /\ e.inheaders = d.inheaders
        /\ e.saw_SOF = d.saw_SOF /\ e.saw_SOI = d.saw_SOI /\ e.start_of_file = d.start_of_file
        /\ e.eoi_reached = d.eoi_reached /\ e.warned = d.warned /\ e.consume_input = d.consume_input
        /\ e.has_multiple_scans = d.has_multiple_scans /\ e.insufficient_data = d.insufficient_data
        /\ e.saw_JFIF_marker = d.saw_JFIF_marker /\ e.Adobe_transform = d.Adobe_transform
    BY <1>1 DEF IsDecompress, jpeg_decompress_struct
  <1>5. StateOK(e)
    BY <1>3, <1>4 DEF IsDecompress, StateOK
  <1>6. FrameOK(e)
    BY <1>3, <1>4 DEF IsDecompress, FrameOK, SameFrame
  <1>7. ArraysOK(e)
    BY <1>2, <1>3 DEF ArraysOK, SameFrame
  <1>8. SourceOK(e) /\ TablesOK(e) /\ ScanOK(e)
    BY <1>3, <1>4, PartsOfAnObject DEF SameFrame
  <1>9. IsDecompress(e)
    BY <1>3, <1>5, <1>6, <1>7, <1>8 DEF IsDecompress
  <1>10. Keeps(d, e)
    BY <1>3, <1>4 DEF Keeps, SameFrame
  <1> QED BY <1>3, <1>4, <1>9, <1>10

\* The coefficients are started with blank arrays.
LEMMA CoefficientsAreStarted ==
  ASSUME NEW d, IsDecompress(d), d.error = "none", d.global_state = "DSTATE_READY"
  PROVE  /\ IsDecompress(StartCoefficients(d)) /\ Keeps(d, StartCoefficients(d))
         /\ StartCoefficients(d).global_state \in {"DSTATE_READY", "DSTATE_RDCOEFS"}
         /\ StartCoefficients(d).error = "none" => StartCoefficients(d).global_state = "DSTATE_RDCOEFS"
  <1>1. CASE d.coding = "arithmetic"
    BY <1>1, FailedIsAnObject DEF StartCoefficients, ReadErrors
  <1>2. CASE d.coding # "arithmetic"
    <2> DEFINE blank == [ci \in DOMAIN d.comp_info |-> [r \in Rows |-> Blank]]
               e == [d EXCEPT !.global_state = "DSTATE_RDCOEFS", !.coef_arrays = blank]
    <2>1. StartCoefficients(d) = start_input_pass(e)
      BY <1>2 DEF StartCoefficients
    <2>2. IsDecompress(e) /\ e.error = "none" /\ e.global_state = "DSTATE_RDCOEFS" /\ Keeps(d, e)
      <3>1. e = [d EXCEPT !.global_state = "DSTATE_RDCOEFS",
                          !.coef_arrays = [ci \in DOMAIN d.comp_info |-> [r \in Rows |-> Blank]]]
        OBVIOUS
      <3> HIDE DEF e
      <3> QED BY <3>1, ArraysAreBlank
    <2> HIDE DEF blank, e
    <2>3. /\ IsDecompress(start_input_pass(e)) /\ Keeps(e, start_input_pass(e))
          /\ start_input_pass(e).global_state = e.global_state
      BY <2>2, PassIsStarted
    <2>4. Keeps(d, start_input_pass(e))
      BY <2>2, <2>3 DEF Keeps, SameSource
    <2> QED BY <2>1, <2>2, <2>3, <2>4
  <1> QED BY <1>1, <1>2

\* The buffer is filled from the file, or with an end of the image.
LEMMA BufferIsFilled ==
  ASSUME NEW d, IsDecompress(d), d.error = "none", NEW content, IsStream(content)
  PROVE  /\ IsDecompress(FillInputBuffer(d, content)) /\ Advances(d, FillInputBuffer(d, content))
         /\ NoEnd(content) => ReadsOn(d, FillInputBuffer(d, content))
         /\ FillInputBuffer(d, content).global_state = d.global_state
         /\ FillInputBuffer(d, content).consume_input = d.consume_input
  <1> DEFINE left == Len(content) - d.at
             size == IF left < INPUT_BUF_SIZE THEN left ELSE INPUT_BUF_SIZE
             more == [d EXCEPT !.buffer = SubSeq(content, d.at + 1, d.at + size),
                               !.at = @ + size, !.start_of_file = FALSE]
             end == [d EXCEPT !.buffer = <<EOI>>, !.warned = TRUE]
             Good(e) == /\ IsDecompress(e) /\ Advances(d, e) /\ (NoEnd(content) => ReadsOn(d, e))
                        /\ e.global_state = d.global_state /\ e.consume_input = d.consume_input
  <1>1. FillInputBuffer(d, content) =
          IF size > 0 THEN more
          ELSE IF d.start_of_file THEN Failed(d, "JERR_INPUT_EMPTY") ELSE end
    BY Zenon DEF FillInputBuffer, Refilled
  <1>2. ASSUME NEW e, DOMAIN e = DOMAIN d, SourceOK(e), e.file = d.file, e.warned \in BOOLEAN,
               d.warned => e.warned, NoEnd(content) => (Unended(d) => Unended(e)), e.start_of_file \in BOOLEAN,
               SameState(d, [e EXCEPT !.warned = d.warned, !.start_of_file = d.start_of_file]),
               SameTables(d, e), SameFrame(d, e), SameScan(d, e), SameArrays(d, e)
        PROVE  Good(e)
    <2>1. /\ e.error = d.error /\ e.global_state = d.global_state /\ e.inheaders = d.inheaders
          /\ e.saw_SOF = d.saw_SOF /\ e.saw_SOI = d.saw_SOI
          /\ e.eoi_reached = d.eoi_reached /\ e.consume_input = d.consume_input
          /\ e.has_multiple_scans = d.has_multiple_scans /\ e.insufficient_data = d.insufficient_data
          /\ e.saw_JFIF_marker = d.saw_JFIF_marker /\ e.Adobe_transform = d.Adobe_transform
      BY <1>2 DEF IsDecompress, jpeg_decompress_struct, SameState
    <2>2. StateOK(e)
      BY <1>2, <2>1 DEF IsDecompress, StateOK
    <2>3. TablesOK(e) /\ FrameOK(e) /\ ScanOK(e) /\ ArraysOK(e)
      BY <1>2, <2>1, PartsOfAnObject DEF SameFrame
    <2>4. IsDecompress(e)
      BY <1>2, <2>2, <2>3 DEF IsDecompress
    <2>5. Advances(d, e)
      BY <1>2, <2>1 DEF Advances, SameFrame
    <2> QED BY <1>2, <2>1, <2>4, <2>5 DEF ReadsOn
  <1>3. d.at \in Nat /\ INPUT_BUF_SIZE \in Nat \ {0} /\ Len(content) \in Nat
    <2>1. INPUT_BUF_SIZE \in Nat \ {0}
      BY JobsAssumption, Zenon
    <2>2. Len(content) \in Nat
      BY SequenceIsOnAnInterval DEF IsStream
    <2> QED BY <2>1, <2>2 DEF IsDecompress, SourceOK
  <1>4. CASE size > 0
    <2> DEFINE part == SubSeq(content, d.at + 1, d.at + size)
    <2>1. /\ d.at + 1 \in Nat \ {0} /\ d.at + size \in Nat /\ d.at + size \in Int /\ d.at + size <= Len(content)
      BY <1>3, <1>4
    <2>2. IsStream(part) /\ \A i \in DOMAIN part : \E j \in DOMAIN content : part[i] = content[j]
      <3> HIDE DEF size
      <3> QED BY <2>1, PartOfAStream
    <2>3. NoEnd(content) => NoEnd(part)
      <3> HIDE DEF part
      <3> QED BY <2>2 DEF NoEnd
    <2> HIDE DEF part, size
    <2>4. /\ DOMAIN more = DOMAIN d /\ more.file = d.file /\ more.warned = d.warned
          /\ more.buffer = part /\ more.at = d.at + size /\ more.start_of_file \in BOOLEAN
          /\ more.eoi_reached = d.eoi_reached
      BY DEF IsDecompress, jpeg_decompress_struct, part
    <2>5. /\ SameState(d, [more EXCEPT !.warned = d.warned, !.start_of_file = d.start_of_file])
          /\ SameTables(d, more) /\ SameFrame(d, more) /\ SameScan(d, more) /\ SameArrays(d, more)
      BY DEF IsDecompress, jpeg_decompress_struct, SameState, SameTables, SameFrame, SameScan, SameArrays
    <2> HIDE DEF more
    <2>6. SourceOK(more)
      BY <2>1, <2>2, <2>4 DEF SourceOK
    <2>7. NoEnd(content) => (Unended(d) => Unended(more))
      BY <2>3, <2>4 DEF Unended
    <2>8. more.warned \in BOOLEAN
      BY <2>4 DEF IsDecompress, StateOK
    <2>9. Good(more)
      BY <1>2, <2>4, <2>5, <2>6, <2>7, <2>8
    <2> QED BY <1>1, <1>4, <2>9 DEF size
  <1>5. CASE ~(size > 0) /\ d.start_of_file
    <2> DEFINE e == Failed(d, "JERR_INPUT_EMPTY")
    <2>1. FillInputBuffer(d, content) = e
      BY <1>1, <1>5
    <2>2. IsDecompress(e) /\ Keeps(d, e) /\ e.global_state = d.global_state
      BY FailedIsAnObject DEF ReadErrors
    <2>3. e.consume_input = d.consume_input
      BY DEF Failed, IsDecompress, jpeg_decompress_struct
    <2> HIDE DEF e
    <2>4. ReadsOn(d, e)
      BY <2>2, KeepingIsReadingOn
    <2> QED BY <2>1, <2>2, <2>3, <2>4 DEF ReadsOn
  <1>6. CASE ~(size > 0) /\ ~d.start_of_file
    <2>1. IsStream(<<EOI>>)
      <3>1. IsUnit(EOI)
        BY DEF EOI, IsUnit
      <3>2. <<EOI>> = [i \in 1 .. 1 |-> <<EOI>>[i]] /\ <<EOI>>[1] = EOI
        OBVIOUS
      <3>3. IsASequence(<<EOI>>) /\ DOMAIN <<EOI>> = 1 .. 1
        BY <3>2, OnAnInterval
      <3> QED BY <3>1, <3>2, <3>3 DEF IsStream
    <2>2. /\ DOMAIN end = DOMAIN d /\ end.file = d.file /\ end.warned = TRUE
          /\ end.buffer = <<EOI>> /\ end.at = d.at /\ end.start_of_file = d.start_of_file
      BY DEF IsDecompress, jpeg_decompress_struct
    <2>3. /\ SameState(d, [end EXCEPT !.warned = d.warned, !.start_of_file = d.start_of_file])
          /\ SameTables(d, end) /\ SameFrame(d, end) /\ SameScan(d, end) /\ SameArrays(d, end)
      BY DEF IsDecompress, jpeg_decompress_struct, SameState, SameTables, SameFrame, SameScan, SameArrays
    <2> HIDE DEF end
    <2>4. SourceOK(end)
      BY <1>3, <2>1, <2>2 DEF SourceOK
    <2>5. Unended(end) /\ end.warned \in BOOLEAN
      BY <2>2 DEF Unended
    <2>6. end.start_of_file \in BOOLEAN
      BY <2>2 DEF IsDecompress, StateOK
    <2>7. Good(end)
      BY <1>2, <2>2, <2>3, <2>4, <2>5, <2>6
    <2> QED BY <1>1, <1>6, <2>7
  <1> QED BY <1>4, <1>5, <1>6

\* A call of consume_input, whatever the file is like.
LEMMA InputIsConsumed ==
  ASSUME NEW d, IsDecompress(d), d.error = "none", NEW content, IsStream(content)
  PROVE  /\ IsDecompress(ConsumeInput(d, content)) /\ Advances(d, ConsumeInput(d, content))
         /\ NoEnd(content) => ReadsOn(d, ConsumeInput(d, content))
  <1> DEFINE filled == IF d.buffer = << >> THEN FillInputBuffer(d, content) ELSE d
             Good(e) == /\ IsDecompress(e) /\ Advances(d, e) /\ (NoEnd(content) => ReadsOn(d, e))
  <1>1. ConsumeInput(d, content) =
          IF filled.error # "none" \/ filled.buffer = << >> THEN filled
          ELSE IF filled.consume_input = "markers" THEN ReadMarker(filled)
          ELSE ConsumeRow(filled)
    BY Zenon DEF ConsumeInput
  <1>2. /\ IsDecompress(filled) /\ Advances(d, filled) /\ (NoEnd(content) => ReadsOn(d, filled))
        /\ filled.global_state = d.global_state
    <2>1. IF d.global_state = "DSTATE_START" THEN d.global_state \in {"DSTATE_START", "DSTATE_READY"}
          ELSE d.global_state = d.global_state
      BY Zenon
    <2>2. Advances(d, d) /\ ReadsOn(d, d)
      BY <2>1 DEF Advances, ReadsOn
    <2> QED BY <2>2, BufferIsFilled
  <1> HIDE DEF filled
  <1>3. ASSUME NEW e, IsDecompress(e), ReadsOn(filled, e)
        PROVE  Good(e)
    <2>1. Advances(d, e)
      BY <1>2, <1>3 DEF ReadsOn, Advances
    <2>2. NoEnd(content) => ReadsOn(d, e)
      BY <1>2, <1>3, ReadingOnGoesOn
    <2> QED BY <1>3, <2>1, <2>2
  <1>4. CASE filled.error # "none" \/ filled.buffer = << >>
    BY <1>1, <1>2, <1>4
  <1>5. CASE filled.error = "none" /\ filled.buffer # << >> /\ filled.consume_input = "markers"
    BY <1>1, <1>2, <1>3, <1>5, MarkerIsRead
  <1>6. CASE filled.error = "none" /\ filled.buffer # << >> /\ filled.consume_input # "markers"
    <2>1. filled.consume_input = "data"
      BY <1>2, <1>6 DEF IsDecompress, StateOK
    <2> QED BY <1>1, <1>2, <1>3, <1>6, <2>1, RowIsConsumed
  <1> QED BY <1>4, <1>5, <1>6

\* The fields of a new object.
LEMMA FieldsOfANewObject ==
  ASSUME NEW name, NEW d, d = CreateDecompress(name)
  PROVE  /\ DOMAIN d = DOMAIN jpeg_decompress_struct
         /\ d.global_state = "DSTATE_START" /\ d.error = "none"
         /\ d.warned \in BOOLEAN /\ ~d.warned /\ d.start_of_file \in BOOLEAN
         /\ d.file = name /\ d.at = 0 /\ d.buffer = << >>
         /\ d.consume_input = "markers" /\ d.inheaders \in BOOLEAN /\ d.inheaders
         /\ d.eoi_reached \in BOOLEAN /\ ~d.eoi_reached
         /\ d.saw_SOI \in BOOLEAN /\ ~d.saw_SOI /\ d.saw_SOF \in BOOLEAN /\ ~d.saw_SOF
         /\ d.saw_JFIF_marker \in BOOLEAN /\ ~d.saw_JFIF_marker
         /\ d.Adobe_transform = -1 /\ d.restart_interval = 0
         /\ d.quant_tbl_ptrs = [s \in QuantSlots |-> NoTable]
         /\ d.huff_tbl_ptrs = [class \in {"DC", "AC"} |-> [s \in HuffSlots |-> NoTable]]
         /\ d.coding = "sequential" /\ d.comp_info = << >> /\ d.jpeg_color_space = "UNKNOWN"
         /\ d.cur_comp_info = << >> /\ d.band = {} /\ d.has_multiple_scans \in BOOLEAN
         /\ d.input_iMCU_row = 0 /\ d.insufficient_data \in BOOLEAN
  <1> DEFINE new == jinit_input_controller(jinit_marker_reader(jpeg_decompress_struct))
  <1>1. d = [new EXCEPT !.global_state = "DSTATE_START", !.file = name, !.at = 0,
                        !.buffer = << >>, !.start_of_file = TRUE]
    BY DEF CreateDecompress, jpeg_CreateDecompress, jpeg_stdio_src
  <1>2. new = [jpeg_decompress_struct EXCEPT
                 !.comp_info = << >>, !.saw_SOI = FALSE, !.saw_SOF = FALSE,
                 !.consume_input = "markers", !.has_multiple_scans = FALSE,
                 !.eoi_reached = FALSE, !.inheaders = TRUE]
    BY DEF jinit_marker_reader, jinit_input_controller
  <1> HIDE DEF new
  <1>3. d = [jpeg_decompress_struct EXCEPT
               !.comp_info = << >>, !.saw_SOI = FALSE, !.saw_SOF = FALSE,
               !.consume_input = "markers", !.has_multiple_scans = FALSE,
               !.eoi_reached = FALSE, !.inheaders = TRUE,
               !.global_state = "DSTATE_START", !.file = name, !.at = 0,
               !.buffer = << >>, !.start_of_file = TRUE]
    BY <1>1, <1>2
  <1>4. /\ DOMAIN d = DOMAIN jpeg_decompress_struct
        /\ d.quant_tbl_ptrs = jpeg_decompress_struct.quant_tbl_ptrs
        /\ d.huff_tbl_ptrs = jpeg_decompress_struct.huff_tbl_ptrs
    <2>1. DOMAIN d = DOMAIN jpeg_decompress_struct
      BY <1>3, Zenon
    <2>2. d.quant_tbl_ptrs = jpeg_decompress_struct.quant_tbl_ptrs
      BY <1>3 DEF jpeg_decompress_struct
    <2>3. d.huff_tbl_ptrs = jpeg_decompress_struct.huff_tbl_ptrs
      BY <1>3 DEF jpeg_decompress_struct
    <2> QED BY <2>1, <2>2, <2>3
  <1>5. /\ jpeg_decompress_struct.quant_tbl_ptrs = [s \in QuantSlots |-> NoTable]
        /\ jpeg_decompress_struct.huff_tbl_ptrs
             = [class \in {"DC", "AC"} |-> [s \in HuffSlots |-> NoTable]]
    BY DEF jpeg_decompress_struct
  <1>6. /\ d.global_state = "DSTATE_START" /\ d.error = "none"
        /\ d.warned \in BOOLEAN /\ ~d.warned /\ d.start_of_file \in BOOLEAN
        /\ d.file = name /\ d.at = 0 /\ d.buffer = << >>
        /\ d.consume_input = "markers" /\ d.inheaders \in BOOLEAN /\ d.inheaders
        /\ d.eoi_reached \in BOOLEAN /\ ~d.eoi_reached
        /\ d.saw_SOI \in BOOLEAN /\ ~d.saw_SOI /\ d.saw_SOF \in BOOLEAN /\ ~d.saw_SOF
        /\ d.saw_JFIF_marker \in BOOLEAN /\ ~d.saw_JFIF_marker
    BY <1>3 DEF jpeg_decompress_struct
  <1>7. /\ d.Adobe_transform = -1 /\ d.restart_interval = 0
        /\ d.coding = "sequential" /\ d.comp_info = << >> /\ d.jpeg_color_space = "UNKNOWN"
        /\ d.cur_comp_info = << >> /\ d.band = {} /\ d.has_multiple_scans \in BOOLEAN
        /\ d.input_iMCU_row = 0 /\ d.insufficient_data \in BOOLEAN
    BY <1>3 DEF jpeg_decompress_struct
  <1> QED BY <1>4, <1>5, <1>6, <1>7, Zenon

\* A new object is at the start of its file.
LEMMA ObjectIsCreated ==
  ASSUME NEW name
  PROVE  /\ IsDecompress(CreateDecompress(name)) /\ Unended(CreateDecompress(name))
         /\ CreateDecompress(name).file = name /\ CreateDecompress(name).error = "none"
         /\ CreateDecompress(name).global_state = "DSTATE_START"
  <1> DEFINE d == CreateDecompress(name)
  <1> HIDE DEF d
  <1>2. /\ DOMAIN d = DOMAIN jpeg_decompress_struct
        /\ d.global_state = "DSTATE_START" /\ d.error = "none"
        /\ d.warned \in BOOLEAN /\ ~d.warned /\ d.start_of_file \in BOOLEAN
        /\ d.file = name /\ d.at = 0 /\ d.buffer = << >>
        /\ d.consume_input = "markers" /\ d.inheaders \in BOOLEAN /\ d.inheaders
        /\ d.eoi_reached \in BOOLEAN /\ ~d.eoi_reached
        /\ d.saw_SOI \in BOOLEAN /\ d.saw_SOF \in BOOLEAN /\ ~d.saw_SOF
        /\ d.saw_JFIF_marker \in BOOLEAN
        /\ d.Adobe_transform = -1 /\ d.restart_interval = 0
        /\ d.quant_tbl_ptrs = [s \in QuantSlots |-> NoTable]
        /\ d.huff_tbl_ptrs = [class \in {"DC", "AC"} |-> [s \in HuffSlots |-> NoTable]]
        /\ d.coding = "sequential" /\ d.comp_info = << >> /\ d.jpeg_color_space = "UNKNOWN"
        /\ d.cur_comp_info = << >> /\ d.band = {} /\ d.has_multiple_scans \in BOOLEAN
        /\ d.input_iMCU_row = 0 /\ d.insufficient_data \in BOOLEAN
    BY FieldsOfANewObject DEF d
  <1>3. StateOK(d)
    BY <1>2 DEF StateOK
  <1>4. SourceOK(d) /\ Unended(d)
    <2>1. << >> = [i \in 1 .. 0 |-> << >>[i]]
      OBVIOUS
    <2>2. IsASequence(<< >>) /\ DOMAIN << >> = 1 .. 0
      BY <2>1, OnAnInterval
    <2> QED BY <1>2, <2>2 DEF SourceOK, IsStream, Unended, NoEnd
  <1>5. TablesOK(d)
    BY <1>2 DEF TablesOK, NoTable
  <1>6. FrameOK(d)
    <2>1. << >> \in Seq([component_id : Nat, quant_tbl_no : Nat, MCU_blocks : Nat,
                         dc_tbl_no : Nat, ac_tbl_no : Nat, quant_table : Nat]) /\ Len(<< >>) = 0
      OBVIOUS
    <2>2. 0 \in ColorComponents("UNKNOWN")
      BY DEF ColorComponents
    <2> QED BY <1>2, <2>1, <2>2 DEF FrameOK, ColorSpaces
  <1>7. ScanOK(d)
    <2>1. NoOfRows \in Nat \ {0}
      BY JobsAssumption, Zenon
    <2>2. 0 \in 0 .. NoOfRows
      BY <2>1
    <2>3. << >> \in Seq(DOMAIN << >>)
      OBVIOUS
    <2> QED BY <1>2, <2>2, <2>3 DEF ScanOK
  <1>8. ArraysOK(d)
    BY <1>2 DEF ArraysOK
  <1> QED BY <1>2, <1>3, <1>4, <1>5, <1>6, <1>7, <1>8 DEF IsDecompress, d

-----------------------------------------------------------------------------
(* The routines of the writer.                                             *)
SameParameters(c, e) ==
  /\ e.restart_interval = c.restart_interval /\ e.Adobe_transform = c.Adobe_transform
  /\ e.jpeg_color_space = c.jpeg_color_space /\ e.quant_tbl_ptrs = c.quant_tbl_ptrs
  /\ e.huff_tbl_ptrs = c.huff_tbl_ptrs /\ e.comp_info = c.comp_info
SameWriter(c, e) ==
  /\ e.global_state = c.global_state /\ e.error = c.error /\ e.file = c.file
  /\ e.buffer = c.buffer /\ e.write_JFIF_header = c.write_JFIF_header
  /\ e.is_last_pass = c.is_last_pass /\ e.iMCU_row_num = c.iMCU_row_num

\* Each part of the type is about some of the fields.
LEMMA PartsOfAWriter ==
  ASSUME NEW c, NEW e, IsCompress(c)
  PROVE  /\ SameParameters(c, e) => ParametersOK(e)
         /\ SameWriter(c, e) => WriterOK(e)
  BY DEF IsCompress, SameParameters, SameWriter, ParametersOK, WriterOK

\* The fields of an object of the writer.
LEMMA FieldsOfAWriter ==
  ASSUME NEW c, IsCompress(c)
  PROVE  DOMAIN c = {"global_state", "error", "file", "buffer", "quant_tbl_ptrs", "huff_tbl_ptrs",
                     "comp_info", "jpeg_color_space", "write_JFIF_header", "Adobe_transform",
                     "restart_interval", "iMCU_row_num", "is_last_pass"}
  BY DEF IsCompress, jpeg_compress_struct

\* A stream of nothing, and of one unit.
LEMMA ShortStreams ==
  ASSUME NEW u, IsUnit(u)
  PROVE  /\ IsStream(<< >>) /\ NoEnd(<< >>)
         /\ IsStream(<<u>>) /\ (u.kind # "EOI" => NoEnd(<<u>>))
  <1>1. << >> = [i \in 1 .. 0 |-> << >>[i]]
    OBVIOUS
  <1>2. IsASequence(<< >>) /\ DOMAIN << >> = 1 .. 0
    BY <1>1, OnAnInterval
  <1>3. <<u>> = [i \in 1 .. 1 |-> <<u>>[i]] /\ <<u>>[1] = u
    OBVIOUS
  <1>4. IsASequence(<<u>>) /\ DOMAIN <<u>> = 1 .. 1
    BY <1>3, OnAnInterval
  <1>5. IsStream(<< >>) /\ NoEnd(<< >>)
    BY <1>2 DEF IsStream, NoEnd
  <1>6. \A i \in DOMAIN <<u>> : <<u>>[i] = u
    BY <1>3, <1>4
  <1> QED BY <1>4, <1>5, <1>6 DEF IsStream, NoEnd

\* Two streams without an end of the image have none together.
LEMMA NoEndOfBoth ==
  ASSUME NEW s, NEW t, IsStream(s), IsStream(t)
  PROVE  IsStream(s \o t) /\ (NoEnd(s) /\ NoEnd(t) => NoEnd(s \o t))
  <1>1. IsStream(s \o t) /\ \A i \in DOMAIN (s \o t) :
           \/ i \in DOMAIN s /\ (s \o t)[i] = s[i]
           \/ \E j \in DOMAIN t : (s \o t)[i] = t[j]
    BY ConcatenatedStreams
  <1> QED BY <1>1 DEF NoEnd

\* What a step of the writer leaves alone, and that it ends no image.
Writes(c, e) ==
  /\ e.file = c.file /\ e.comp_info = c.comp_info
  /\ NoEnd(c.buffer) => NoEnd(e.buffer)

\* What is put behind what is in the buffer.
LEMMA PutIsAnObject ==
  ASSUME NEW c, IsCompress(c), NEW units, IsStream(units)
  PROVE  /\ IsCompress(Put(c, units)) /\ SameParameters(c, Put(c, units))
         /\ Put(c, units).buffer = c.buffer \o units
         /\ SameWriter(c, [Put(c, units) EXCEPT !.buffer = c.buffer])
         /\ NoEnd(units) => Writes(c, Put(c, units))
  <1> DEFINE e == Put(c, units)
  <1>1. e = [c EXCEPT !.buffer = @ \o units]
    BY DEF Put
  <1> HIDE DEF e
  <1>2. /\ DOMAIN e = DOMAIN c /\ SameParameters(c, e) /\ e.buffer = c.buffer \o units
        /\ SameWriter(c, [e EXCEPT !.buffer = c.buffer])
        /\ e.global_state = c.global_state /\ e.error = c.error /\ e.file = c.file
        /\ e.write_JFIF_header = c.write_JFIF_header
        /\ e.is_last_pass = c.is_last_pass /\ e.iMCU_row_num = c.iMCU_row_num
    BY <1>1, FieldsOfAWriter DEF SameParameters, SameWriter
  <1>3. IsStream(c.buffer \o units) /\ (NoEnd(c.buffer) /\ NoEnd(units) => NoEnd(c.buffer \o units))
    BY NoEndOfBoth DEF IsCompress, WriterOK
  <1>4. WriterOK(e)
    BY <1>2, <1>3 DEF IsCompress, WriterOK
  <1>5. ParametersOK(e)
    BY <1>2, PartsOfAWriter
  <1>6. NoEnd(units) => Writes(c, e)
    BY <1>2, <1>3 DEF Writes, SameParameters
  <1> QED BY <1>2, <1>4, <1>5, <1>6 DEF IsCompress, e

\* An object of the writer with an error is still one.
LEMMA FailedIsAWriter ==
  ASSUME NEW c, IsCompress(c), NEW code \in WriteErrors
  PROVE  /\ IsCompress(Failed(c, code)) /\ Failed(c, code).error = code /\ code # "none"
         /\ Writes(c, Failed(c, code)) /\ Failed(c, code).global_state = c.global_state
  <1> DEFINE e == Failed(c, code)
  <1>1. e = [c EXCEPT !.error = code]
    BY DEF Failed
  <1> HIDE DEF e
  <1>2. /\ DOMAIN e = DOMAIN c /\ SameParameters(c, e) /\ e.error = code /\ code # "none"
        /\ e.global_state = c.global_state /\ e.buffer = c.buffer /\ e.file = c.file
        /\ e.write_JFIF_header = c.write_JFIF_header
        /\ e.is_last_pass = c.is_last_pass /\ e.iMCU_row_num = c.iMCU_row_num
    BY <1>1, FieldsOfAWriter DEF SameParameters, WriteErrors
  <1>3. WriterOK(e)
    BY <1>2 DEF IsCompress, WriterOK
  <1>4. ParametersOK(e)
    BY <1>2, PartsOfAWriter
  <1> QED BY <1>2, <1>3, <1>4 DEF IsCompress, Writes, SameParameters, e

\* The slots that the defaults use are there.
LEMMA DefaultSlots ==
  /\ QuantSlots \subseteq Nat /\ HuffSlots \subseteq Nat
  /\ {0, 1} \subseteq QuantSlots /\ {0, 1} \subseteq HuffSlots
  /\ NoOfRows \in Nat \ {0} /\ OUTPUT_BUF_SIZE \in Nat \ {0}
  /\ StdLuminance \in Nat /\ StdChrominance \in Nat
  <1>1. /\ NoOfRows \in Nat \ {0} /\ OUTPUT_BUF_SIZE \in Nat \ {0}
        /\ NUM_QUANT_TBLS \in Nat /\ NUM_QUANT_TBLS >= 2 /\ NUM_HUFF_TBLS \in Nat /\ NUM_HUFF_TBLS >= 2
        /\ StdLuminance \in Nat /\ StdChrominance \in Nat
    BY JobsAssumption, Zenon
  <1> QED BY <1>1 DEF QuantSlots, HuffSlots

\* A new object of the writer.
LEMMA WriterIsCreated ==
  ASSUME NEW name
  PROVE  /\ IsCompress(CreateCompress(name)) /\ CreateCompress(name).global_state = "CSTATE_START"
         /\ CreateCompress(name).error = "none" /\ NoEnd(CreateCompress(name).buffer)
         /\ CreateCompress(name).file = name
         /\ CreateCompress(name).buffer = << >> /\ ~CreateCompress(name).is_last_pass
  <1> DEFINE c == CreateCompress(name)
  <1>1. IsStream(<< >>) /\ NoEnd(<< >>)
    <2>1. IsUnit(EOI)
      BY DEF IsUnit, EOI
    <2> QED BY <2>1, ShortStreams
  <1>2. /\ c.global_state = "CSTATE_START" /\ c.error = "none" /\ c.file = name /\ c.buffer = << >>
        /\ c.quant_tbl_ptrs = [s \in QuantSlots |-> NoTable]
        /\ c.huff_tbl_ptrs = [class \in {"DC", "AC"} |-> [s \in HuffSlots |-> NoTable]]
        /\ c.comp_info = << >> /\ c.jpeg_color_space = "UNKNOWN"
        /\ c.write_JFIF_header \in BOOLEAN /\ c.Adobe_transform = -1
        /\ c.restart_interval = 0 /\ c.iMCU_row_num = 0 /\ c.is_last_pass \in BOOLEAN /\ ~c.is_last_pass
        /\ DOMAIN c = DOMAIN jpeg_compress_struct
    BY DEF CreateCompress, jpeg_CreateCompress, jpeg_stdio_dest, jpeg_compress_struct
  <1> HIDE DEF c
  <1>3. WriterOK(c)
    <2>1. 0 \in 0 .. NoOfRows
      BY DefaultSlots
    <2> QED BY <1>1, <1>2, <2>1 DEF WriterOK
  <1>4. ParametersOK(c)
    <2>1. << >> \in Seq([component_id : Nat, quant_tbl_no : QuantSlots, MCU_blocks : Nat,
                         dc_tbl_no : HuffSlots, ac_tbl_no : HuffSlots])
      OBVIOUS
    <2>2. c.quant_tbl_ptrs \in [QuantSlots -> Nat] /\ c.huff_tbl_ptrs \in [{"DC", "AC"} -> [HuffSlots -> Nat]]
      <3>1. NoTable \in Nat
        BY DEF NoTable
      <3>2. [s \in QuantSlots |-> NoTable] \in [QuantSlots -> Nat]
        BY <3>1
      <3>3. [s \in HuffSlots |-> NoTable] \in [HuffSlots -> Nat]
        BY <3>1
      <3>4. [class \in {"DC", "AC"} |-> [s \in HuffSlots |-> NoTable]] \in [{"DC", "AC"} -> [HuffSlots -> Nat]]
        BY <3>3
      <3> QED BY <1>2, <3>2, <3>4
    <2>3. -1 \in Int /\ 0 \in Nat /\ "UNKNOWN" \in ColorSpaces
      BY DEF ColorSpaces
    <2> QED BY <1>2, <2>1, <2>2, <2>3 DEF ParametersOK
  <1> QED BY <1>1, <1>2, <1>3, <1>4 DEF IsCompress, c

\* A step of the tables by quality is a number of at least 1.
LEMMA StepIsANumber ==
  ASSUME NEW basic \in Nat, NEW quality \in Int, NEW force \in BOOLEAN
  PROVE  jpeg_add_quant_table(basic, jpeg_quality_scaling(quality), force) \in Nat \ {0}
  <1> DEFINE q == IF quality <= 0 THEN 1 ELSE IF quality > 100 THEN 100 ELSE quality
             scale == jpeg_quality_scaling(quality)
  <1>1. scale = IF q < 50 THEN 5000 \div q ELSE 200 - q * 2
    BY Zenon DEF jpeg_quality_scaling
  <1>2. q \in Nat \ {0}
    OBVIOUS
  <1> HIDE DEF q
  <1>3. 5000 \div q \in Int /\ 200 - q * 2 \in Int
    BY <1>2
  <1>4. scale \in Int
    BY <1>1, <1>3
  <1> HIDE DEF scale
  <1> DEFINE value == (basic * scale + 50) \div 100
             limit == IF force THEN 255 ELSE 32767
  <1>5. basic * scale \in Int
    BY <1>4
  <1>6. value \in Int
    BY <1>5
  <1>7. limit \in Nat \ {0}
    OBVIOUS
  <1>8. jpeg_add_quant_table(basic, scale, force) =
          IF value <= 0 THEN 1 ELSE IF value > limit THEN limit ELSE value
    BY DEF jpeg_add_quant_table
  <1> HIDE DEF value, limit
  <1>9. jpeg_add_quant_table(basic, scale, force) \in Nat \ {0}
    BY <1>6, <1>7, <1>8
  <1> QED BY <1>9 DEF scale

\* Two tables are set, by quality.
LEMMA QualityIsSet ==
  ASSUME NEW c, IsCompress(c), NEW quality \in Int
  PROVE  /\ IsCompress(jpeg_set_quality(c, quality, TRUE))
         /\ SameWriter(c, jpeg_set_quality(c, quality, TRUE))
         /\ jpeg_set_quality(c, quality, TRUE).comp_info = c.comp_info
         /\ jpeg_set_quality(c, quality, TRUE).huff_tbl_ptrs = c.huff_tbl_ptrs
         /\ jpeg_set_quality(c, quality, TRUE).quant_tbl_ptrs[0] # NoTable
  <1> DEFINE table(basic) == jpeg_add_quant_table(basic, jpeg_quality_scaling(quality), TRUE)
             e == jpeg_set_quality(c, quality, TRUE)
             first == table(StdLuminance)
             second == table(StdChrominance)
  <1>1. e = [c EXCEPT !.quant_tbl_ptrs[0] = first, !.quant_tbl_ptrs[1] = second]
    BY DEF jpeg_set_quality
  <1>2. first \in Nat \ {0} /\ second \in Nat
    BY StepIsANumber, DefaultSlots
  <1> HIDE DEF e, first, second
  <1>3. /\ DOMAIN e = DOMAIN c /\ SameWriter(c, e)
        /\ e.quant_tbl_ptrs = [c.quant_tbl_ptrs EXCEPT ![0] = first, ![1] = second]
        /\ e.restart_interval = c.restart_interval /\ e.Adobe_transform = c.Adobe_transform
        /\ e.jpeg_color_space = c.jpeg_color_space /\ e.huff_tbl_ptrs = c.huff_tbl_ptrs
        /\ e.comp_info = c.comp_info
    BY <1>1, FieldsOfAWriter DEF SameWriter
  <1>4. [c.quant_tbl_ptrs EXCEPT ![0] = first, ![1] = second] \in [QuantSlots -> Nat]
    BY <1>2 DEF IsCompress, ParametersOK
  <1>5. ParametersOK(e)
    BY <1>3, <1>4 DEF IsCompress, ParametersOK
  <1>6. WriterOK(e)
    BY <1>3, PartsOfAWriter
  <1>7. e.quant_tbl_ptrs[0] # NoTable
    <2>1. 0 \in DOMAIN c.quant_tbl_ptrs
      BY DefaultSlots DEF IsCompress, ParametersOK
    <2> QED BY <1>2, <1>3, <2>1 DEF NoTable
  <1> QED BY <1>3, <1>5, <1>6, <1>7 DEF IsCompress, e

\* A component of the defaults.
LEMMA ComponentIsSet ==
  ASSUME NEW id \in Nat, NEW quant \in {0, 1}, NEW huff \in {0, 1}
  PROVE  SET_COMP(id, quant, huff) \in
           [component_id : Nat, quant_tbl_no : QuantSlots, MCU_blocks : Nat,
            dc_tbl_no : {0, 1}, ac_tbl_no : {0, 1}]
  BY DefaultSlots DEF SET_COMP

\* The marks that tell the color space of an image.
MarkedWith(c, space) ==
  /\ c.jpeg_color_space = space
  /\ c.write_JFIF_header \in BOOLEAN
  /\ c.write_JFIF_header <=> space \in {"GRAYSCALE", "YCbCr"}
  /\ c.Adobe_transform = IF space \in {"RGB", "CMYK"} THEN 0 ELSE IF space = "YCCK" THEN 2 ELSE -1

\* A color space has its components, or as many as there are, and its marks.
LEMMA ColorSpaceIsSet ==
  ASSUME NEW c, IsCompress(c), NEW space \in ColorSpaces, NEW n \in Nat
  PROVE  /\ IsCompress(jpeg_set_colorspace(c, space, n))
         /\ jpeg_set_colorspace(c, space, n).global_state = c.global_state
         /\ jpeg_set_colorspace(c, space, n).error = c.error
         /\ jpeg_set_colorspace(c, space, n).buffer = c.buffer
         /\ jpeg_set_colorspace(c, space, n).is_last_pass = c.is_last_pass
         /\ jpeg_set_colorspace(c, space, n).restart_interval = c.restart_interval
         /\ jpeg_set_colorspace(c, space, n).huff_tbl_ptrs = c.huff_tbl_ptrs
         /\ MarkedWith(jpeg_set_colorspace(c, space, n), space)
         /\ n \in ColorComponents(space) => DOMAIN jpeg_set_colorspace(c, space, n).comp_info = 1 .. n
         /\ \A ci \in DOMAIN jpeg_set_colorspace(c, space, n).comp_info :
              /\ jpeg_set_colorspace(c, space, n).comp_info[ci].dc_tbl_no \in {0, 1}
              /\ jpeg_set_colorspace(c, space, n).comp_info[ci].ac_tbl_no \in {0, 1}
  <1> DEFINE Component == [component_id : Nat, quant_tbl_no : QuantSlots, MCU_blocks : Nat,
                           dc_tbl_no : {0, 1}, ac_tbl_no : {0, 1}]
             luminance(id) == SET_COMP(id, 0, 0)
             chrominance(id) == SET_COMP(id, 1, 1)
             comps == CASE space = "GRAYSCALE" -> <<luminance(1)>>
                 [] space = "RGB" -> [ci \in 1 .. 3 |-> luminance(<<82, 71, 66>>[ci])]
                 [] space = "YCbCr" -> <<luminance(1), chrominance(2), chrominance(3)>>
                 [] space = "CMYK" -> [ci \in 1 .. 4 |-> luminance(<<67, 77, 89, 75>>[ci])]
                 [] space = "YCCK" ->
                      <<luminance(1), chrominance(2), chrominance(3), luminance(4)>>
                 [] OTHER -> [ci \in 1 .. n |-> luminance(ci - 1)]
             jfif == space \in {"GRAYSCALE", "YCbCr"}
             transform == CASE space \in {"RGB", "CMYK"} -> 0
                            [] space = "YCCK" -> 2
                            [] OTHER -> -1
             e == jpeg_set_colorspace(c, space, n)
  <1>1. e = [c EXCEPT !.jpeg_color_space = space, !.write_JFIF_header = jfif,
                      !.Adobe_transform = transform, !.comp_info = comps]
    BY Zenon DEF jpeg_set_colorspace
  <1>2. \A id \in Nat : luminance(id) \in Component /\ chrominance(id) \in Component
    BY ComponentIsSet
  <1> HIDE DEF luminance, chrominance, Component
  <1>3. space \in {"UNKNOWN", "GRAYSCALE", "RGB", "YCbCr", "CMYK", "YCCK"}
    BY DEF ColorSpaces
  <1>4. /\ comps \in Seq(Component)
        /\ n \in ColorComponents(space) => DOMAIN comps = 1 .. n
    <2>1. CASE space = "GRAYSCALE"
      <3>1. comps = <<luminance(1)>> /\ ColorComponents(space) = {1}
        BY <2>1 DEF ColorComponents
      <3> HIDE DEF comps
      <3> QED BY <1>2, <3>1
    <2>2. CASE space = "RGB"
      <3>1. comps = [ci \in 1 .. 3 |-> luminance(<<82, 71, 66>>[ci])] /\ ColorComponents(space) = {3}
        BY <2>2 DEF ColorComponents
      <3>2. \A ci \in 1 .. 3 : <<82, 71, 66>>[ci] \in Nat
        OBVIOUS
      <3> HIDE DEF comps
      <3>3. comps \in [1 .. 3 -> Component]
        BY <1>2, <3>1, <3>2
      <3> QED BY <3>1, <3>3
    <2>3. CASE space = "YCbCr"
      <3>1. comps = <<luminance(1), chrominance(2), chrominance(3)>> /\ ColorComponents(space) = {3}
        BY <2>3 DEF ColorComponents
      <3> HIDE DEF comps
      <3> QED BY <1>2, <3>1
    <2>4. CASE space = "CMYK"
      <3>1. comps = [ci \in 1 .. 4 |-> luminance(<<67, 77, 89, 75>>[ci])] /\ ColorComponents(space) = {4}
        BY <2>4 DEF ColorComponents
      <3>2. \A ci \in 1 .. 4 : <<67, 77, 89, 75>>[ci] \in Nat
        OBVIOUS
      <3> HIDE DEF comps
      <3>3. comps \in [1 .. 4 -> Component]
        BY <1>2, <3>1, <3>2
      <3> QED BY <3>1, <3>3
    <2>5. CASE space = "YCCK"
      <3>1. comps = <<luminance(1), chrominance(2), chrominance(3), luminance(4)>>
            /\ ColorComponents(space) = {4}
        BY <2>5 DEF ColorComponents
      <3> HIDE DEF comps
      <3> QED BY <1>2, <3>1
    <2>6. CASE space = "UNKNOWN"
      <3>1. comps = [ci \in 1 .. n |-> luminance(ci - 1)]
        BY <2>6
      <3> HIDE DEF comps
      <3>2. comps \in [1 .. n -> Component]
        <4>1. \A ci \in 1 .. n : ci - 1 \in Nat
          OBVIOUS
        <4> QED BY <1>2, <3>1, <4>1
      <3> QED BY <3>1, <3>2
    <2> HIDE DEF comps
    <2> QED BY <1>3, <2>1, <2>2, <2>3, <2>4, <2>5, <2>6
  <1>5. jfif \in BOOLEAN /\ transform \in Int
    BY <1>3
  <1> HIDE DEF e, comps, jfif, transform
  <1>6. /\ DOMAIN e = DOMAIN c /\ e.jpeg_color_space = space /\ e.write_JFIF_header = jfif
        /\ e.Adobe_transform = transform /\ e.comp_info = comps
        /\ e.quant_tbl_ptrs = c.quant_tbl_ptrs /\ e.huff_tbl_ptrs = c.huff_tbl_ptrs
        /\ e.restart_interval = c.restart_interval
        /\ e.global_state = c.global_state /\ e.error = c.error /\ e.buffer = c.buffer
        /\ e.is_last_pass = c.is_last_pass /\ e.iMCU_row_num = c.iMCU_row_num
    BY <1>1, FieldsOfAWriter
  <1>7. WriterOK(e)
    BY <1>5, <1>6 DEF IsCompress, WriterOK
  <1>8. /\ comps \in Seq([component_id : Nat, quant_tbl_no : QuantSlots, MCU_blocks : Nat,
                         dc_tbl_no : HuffSlots, ac_tbl_no : HuffSlots])
        /\ \A ci \in DOMAIN comps : comps[ci].dc_tbl_no \in {0, 1} /\ comps[ci].ac_tbl_no \in {0, 1}
    <2>1. /\ comps = [ci \in 1 .. Len(comps) |-> comps[ci]] /\ Len(comps) \in Nat
          /\ \A ci \in DOMAIN comps : comps[ci] \in Component
      <3>1. IsASequence(comps)
        BY <1>4, SequenceOfASet
      <3> QED BY <1>4, <3>1, SequenceOfASet, SequenceIsOnAnInterval
    <2>2. \A ci \in DOMAIN comps :
            /\ comps[ci] \in [component_id : Nat, quant_tbl_no : QuantSlots, MCU_blocks : Nat,
                              dc_tbl_no : HuffSlots, ac_tbl_no : HuffSlots]
            /\ comps[ci].dc_tbl_no \in {0, 1} /\ comps[ci].ac_tbl_no \in {0, 1}
      BY <2>1, DefaultSlots DEF Component
    <2>3. comps \in [1 .. Len(comps) -> [component_id : Nat, quant_tbl_no : QuantSlots, MCU_blocks : Nat,
                                        dc_tbl_no : HuffSlots, ac_tbl_no : HuffSlots]]
      BY <2>1, <2>2
    <2> QED BY <2>1, <2>2, <2>3, FunctionIsASequence
  <1>9. ParametersOK(e)
    BY <1>5, <1>6, <1>8 DEF IsCompress, ParametersOK
  <1>10. MarkedWith(e, space)
    <2>1. transform = IF space \in {"RGB", "CMYK"} THEN 0 ELSE IF space = "YCCK" THEN 2 ELSE -1
      <3>1. CASE space \in {"RGB", "CMYK"}
        BY <3>1 DEF transform
      <3>2. CASE space = "YCCK"
        BY <3>2 DEF transform
      <3>3. CASE space \notin {"RGB", "CMYK", "YCCK"}
        BY <3>3 DEF transform
      <3> QED BY <3>1, <3>2, <3>3
    <2>2. e.write_JFIF_header \in BOOLEAN /\ (e.write_JFIF_header <=> space \in {"GRAYSCALE", "YCbCr"})
      <3>1. e.write_JFIF_header = jfif
        BY <1>6
      <3>2. jfif \in BOOLEAN /\ (jfif <=> space \in {"GRAYSCALE", "YCbCr"})
        BY DEF jfif
      <3> QED BY <3>1, <3>2, Zenon
    <2> QED BY <1>6, <2>1, <2>2 DEF MarkedWith
  <1> QED BY <1>4, <1>6, <1>7, <1>8, <1>9, <1>10 DEF IsCompress, e

\* The defaults have the tables of quality 75 and the standard Huffman tables.
LEMMA DefaultsAreSet ==
  ASSUME NEW c, IsCompress(c), NEW space \in ColorSpaces, NEW n \in Nat
  PROVE  /\ IsCompress(jpeg_set_defaults(c, space, n))
         /\ jpeg_set_defaults(c, space, n).global_state = c.global_state
         /\ jpeg_set_defaults(c, space, n).error = c.error
         /\ jpeg_set_defaults(c, space, n).buffer = c.buffer
         /\ jpeg_set_defaults(c, space, n).is_last_pass = c.is_last_pass
         /\ jpeg_set_defaults(c, space, n).restart_interval = 0
         /\ \A class \in {"DC", "AC"}, s \in {0, 1} :
              jpeg_set_defaults(c, space, n).huff_tbl_ptrs[class][s] = StdHuff(s)
  <1> DEFINE q == jpeg_set_quality(c, 75, TRUE)
             tables == [class \in DOMAIN q.huff_tbl_ptrs |->
                 [s \in HuffSlots |-> IF s \in {0, 1} THEN StdHuff(s) ELSE q.huff_tbl_ptrs[class][s]]]
             e == [q EXCEPT !.huff_tbl_ptrs = tables, !.restart_interval = 0]
             target == IF space = "RGB" THEN "YCbCr" ELSE space
  <1>1. IsCompress(q) /\ SameWriter(c, q)
    <2>1. 75 \in Int
      OBVIOUS
    <2> QED BY <2>1, QualityIsSet, Zenon
  <1>2. jpeg_set_defaults(c, space, n) = jpeg_set_colorspace(e, target, n)
    BY Zenon DEF jpeg_set_defaults
  <1> HIDE DEF q
  <1>3. tables \in [{"DC", "AC"} -> [HuffSlots -> Nat]]
    <2>1. q.huff_tbl_ptrs \in [{"DC", "AC"} -> [HuffSlots -> Nat]]
      BY <1>1 DEF IsCompress, ParametersOK
    <2>2. \A s \in {0, 1} : StdHuff(s) \in Nat
      BY DEF StdHuff
    <2>3. ASSUME NEW class \in {"DC", "AC"}
          PROVE  [s \in HuffSlots |-> IF s \in {0, 1} THEN StdHuff(s) ELSE q.huff_tbl_ptrs[class][s]]
                   \in [HuffSlots -> Nat]
      BY <2>1, <2>2
    <2>4. DOMAIN q.huff_tbl_ptrs = {"DC", "AC"}
      BY <2>1
    <2> QED BY <2>3, <2>4
  <1>9. \A class \in {"DC", "AC"}, s \in {0, 1} : tables[class][s] = StdHuff(s)
    <2>1. DOMAIN q.huff_tbl_ptrs = {"DC", "AC"}
      BY <1>1 DEF IsCompress, ParametersOK
    <2> QED BY <2>1, DefaultSlots
  <1> HIDE DEF tables
  <1>4. /\ DOMAIN e = DOMAIN q /\ SameWriter(q, e) /\ e.huff_tbl_ptrs = tables /\ e.restart_interval = 0
        /\ e.Adobe_transform = q.Adobe_transform /\ e.jpeg_color_space = q.jpeg_color_space
        /\ e.quant_tbl_ptrs = q.quant_tbl_ptrs /\ e.comp_info = q.comp_info
    BY <1>1, FieldsOfAWriter DEF SameWriter
  <1> HIDE DEF e
  <1>5. ParametersOK(e)
    <2>1. e.restart_interval \in Nat
      BY <1>4
    <2> QED BY <1>1, <1>3, <1>4, <2>1, Zenon DEF IsCompress, ParametersOK
  <1>6. WriterOK(e)
    BY <1>1, <1>4, PartsOfAWriter
  <1>7. IsCompress(e) /\ target \in ColorSpaces
    BY <1>1, <1>4, <1>5, <1>6 DEF IsCompress, ColorSpaces
  <1> HIDE DEF target
  <1>8. /\ IsCompress(jpeg_set_colorspace(e, target, n))
        /\ jpeg_set_colorspace(e, target, n).global_state = e.global_state
        /\ jpeg_set_colorspace(e, target, n).error = e.error
        /\ jpeg_set_colorspace(e, target, n).buffer = e.buffer
        /\ jpeg_set_colorspace(e, target, n).is_last_pass = e.is_last_pass
        /\ jpeg_set_colorspace(e, target, n).restart_interval = e.restart_interval
        /\ jpeg_set_colorspace(e, target, n).huff_tbl_ptrs = e.huff_tbl_ptrs
    BY <1>7, ColorSpaceIsSet
  <1> QED BY <1>1, <1>2, <1>4, <1>8, <1>9 DEF SameWriter

\* The components and their tables are those of the decompression object, the
\* marks those of its color space, and everything else the default.
CopiedFrom(d, c, r) ==
  /\ r.buffer = c.buffer /\ r.is_last_pass = c.is_last_pass /\ r.restart_interval = 0
  /\ MarkedWith(r, d.jpeg_color_space) /\ Len(d.comp_info) <= MAX_COMPONENTS
  /\ \A class \in {"DC", "AC"}, s \in {0, 1} : r.huff_tbl_ptrs[class][s] = StdHuff(s)
  /\ \A s \in QuantSlots : d.quant_tbl_ptrs[s] # NoTable => r.quant_tbl_ptrs[s] = d.quant_tbl_ptrs[s]
  /\ \A ci \in DOMAIN d.comp_info :
       /\ d.comp_info[ci].quant_tbl_no \in QuantSlots
       /\ d.quant_tbl_ptrs[d.comp_info[ci].quant_tbl_no] # NoTable
       /\ r.comp_info[ci].component_id = d.comp_info[ci].component_id
       /\ r.comp_info[ci].quant_tbl_no = d.comp_info[ci].quant_tbl_no
       /\ r.comp_info[ci].MCU_blocks = d.comp_info[ci].MCU_blocks
       /\ r.comp_info[ci].dc_tbl_no \in {0, 1} /\ r.comp_info[ci].ac_tbl_no \in {0, 1}

\* What is critical of a decompression object goes to a new one of the writer.
LEMMA ParametersAreCopied ==
  ASSUME NEW d, IsDecompress(d), NEW c, IsCompress(c), c.error = "none", c.global_state = "CSTATE_START"
  PROVE  /\ IsCompress(jpeg_copy_critical_parameters(d, c))
         /\ jpeg_copy_critical_parameters(d, c).global_state = "CSTATE_START"
         /\ jpeg_copy_critical_parameters(d, c).error # "JERR_BAD_STATE"
         /\ NoEnd(c.buffer) => NoEnd(jpeg_copy_critical_parameters(d, c).buffer)
         /\ jpeg_copy_critical_parameters(d, c).error = "none" =>
              /\ DOMAIN jpeg_copy_critical_parameters(d, c).comp_info = DOMAIN d.comp_info
              /\ CopiedFrom(d, c, jpeg_copy_critical_parameters(d, c))
  <1> DEFINE n == Len(d.comp_info)
             space == d.jpeg_color_space
             set == jpeg_set_colorspace(jpeg_set_defaults(c, space, n), space, n)
             slot(ci) == d.comp_info[ci].quant_tbl_no
             absent(ci) == slot(ci) \notin QuantSlots \/ d.quant_tbl_ptrs[slot(ci)] = NoTable
             redefined(ci) == d.comp_info[ci].quant_table \notin {NoTable, d.quant_tbl_ptrs[slot(ci)]}
             tables == [s \in QuantSlots |->
                 IF d.quant_tbl_ptrs[s] # NoTable THEN d.quant_tbl_ptrs[s] ELSE set.quant_tbl_ptrs[s]]
             comps == [ci \in DOMAIN d.comp_info |->
                 [set.comp_info[ci] EXCEPT !.component_id = d.comp_info[ci].component_id,
                               !.quant_tbl_no = slot(ci),
                               !.MCU_blocks = d.comp_info[ci].MCU_blocks]]
             Component == [component_id : Nat, quant_tbl_no : QuantSlots, MCU_blocks : Nat,
                           dc_tbl_no : HuffSlots, ac_tbl_no : HuffSlots]
             Source == [component_id : Nat, quant_tbl_no : Nat, MCU_blocks : Nat,
                        dc_tbl_no : Nat, ac_tbl_no : Nat, quant_table : Nat]
             e == [set EXCEPT !.quant_tbl_ptrs = tables, !.comp_info = comps]
             copied == jpeg_copy_critical_parameters(d, c)
             Good(r) == /\ IsCompress(r) /\ r.global_state = "CSTATE_START" /\ r.error # "JERR_BAD_STATE"
                        /\ (NoEnd(c.buffer) => NoEnd(r.buffer))
                        /\ (r.error = "none" => DOMAIN r.comp_info = DOMAIN d.comp_info
                                                /\ CopiedFrom(d, c, r))
  <1>1. /\ d.comp_info \in Seq(Source) /\ space \in ColorSpaces /\ n \in ColorComponents(space)
        /\ d.quant_tbl_ptrs \in [QuantSlots -> Nat]
    BY DEF IsDecompress, FrameOK, TablesOK
  <1>2. n \in Nat /\ DOMAIN d.comp_info = 1 .. n /\ \A ci \in DOMAIN d.comp_info : d.comp_info[ci] \in Source
    BY <1>1, SequenceOfASet, Zenon
  <1>3. /\ IsCompress(set) /\ set.global_state = "CSTATE_START" /\ set.error = "none"
        /\ set.buffer = c.buffer /\ DOMAIN set.comp_info = 1 .. n
        /\ set.is_last_pass = c.is_last_pass /\ set.restart_interval = 0 /\ MarkedWith(set, space)
        /\ \A class \in {"DC", "AC"}, s \in {0, 1} : set.huff_tbl_ptrs[class][s] = StdHuff(s)
        /\ \A ci \in 1 .. n : set.comp_info[ci].dc_tbl_no \in {0, 1} /\ set.comp_info[ci].ac_tbl_no \in {0, 1}
    <2> DEFINE f == jpeg_set_defaults(c, space, n)
    <2>1. /\ IsCompress(f) /\ f.global_state = c.global_state /\ f.error = c.error /\ f.buffer = c.buffer
          /\ f.is_last_pass = c.is_last_pass /\ f.restart_interval = 0
          /\ \A class \in {"DC", "AC"}, s \in {0, 1} : f.huff_tbl_ptrs[class][s] = StdHuff(s)
      BY <1>1, <1>2, DefaultsAreSet
    <2> HIDE DEF f, n, space
    <2>2. /\ IsCompress(jpeg_set_colorspace(f, space, n))
          /\ jpeg_set_colorspace(f, space, n).global_state = f.global_state
          /\ jpeg_set_colorspace(f, space, n).error = f.error
          /\ jpeg_set_colorspace(f, space, n).buffer = f.buffer
          /\ DOMAIN jpeg_set_colorspace(f, space, n).comp_info = 1 .. n
          /\ jpeg_set_colorspace(f, space, n).is_last_pass = f.is_last_pass
          /\ jpeg_set_colorspace(f, space, n).restart_interval = f.restart_interval
          /\ jpeg_set_colorspace(f, space, n).huff_tbl_ptrs = f.huff_tbl_ptrs
          /\ MarkedWith(jpeg_set_colorspace(f, space, n), space)
          /\ \A ci \in DOMAIN jpeg_set_colorspace(f, space, n).comp_info :
               /\ jpeg_set_colorspace(f, space, n).comp_info[ci].dc_tbl_no \in {0, 1}
               /\ jpeg_set_colorspace(f, space, n).comp_info[ci].ac_tbl_no \in {0, 1}
      BY <1>1, <1>2, <2>1, ColorSpaceIsSet
    <2> QED BY <2>1, <2>2 DEF f
  <1>4. copied =
          IF c.global_state # "CSTATE_START" THEN Failed(c, "JERR_BAD_STATE")
          ELSE IF Len(d.comp_info) > MAX_COMPONENTS THEN Failed(c, "JERR_COMPONENT_COUNT")
          ELSE IF \E ci \in DOMAIN d.comp_info : absent(ci) THEN Failed(c, "JERR_NO_QUANT_TABLE")
          ELSE IF \E ci \in DOMAIN d.comp_info : redefined(ci)
               THEN Failed(c, "JERR_MISMATCHED_QUANT_TABLE")
          ELSE e
    BY Zenon DEF jpeg_copy_critical_parameters
  <1>5. ASSUME NEW code \in WriteErrors \ {"JERR_BAD_STATE"}
        PROVE  Good(Failed(c, code))
    BY FailedIsAWriter DEF Writes
  <1>6. ASSUME \A ci \in DOMAIN d.comp_info : ~absent(ci), n <= MAX_COMPONENTS
        PROVE  Good(e)
    <2>1. tables \in [QuantSlots -> Nat]
      <3>1. set.quant_tbl_ptrs \in [QuantSlots -> Nat]
        BY <1>3 DEF IsCompress, ParametersOK
      <3> HIDE DEF set
      <3> QED BY <1>1, <3>1
    <2>2. comps \in Seq(Component) /\ DOMAIN comps = DOMAIN d.comp_info
      <3>1. set.comp_info \in Seq(Component)
        BY <1>3 DEF IsCompress, ParametersOK
      <3>2. \A ci \in 1 .. n : set.comp_info[ci] \in Component
        <4> HIDE DEF set, Component, n
        <4> QED BY <1>3, <3>1, SequenceOfASet
      <3> HIDE DEF set
      <3>3. \A ci \in DOMAIN d.comp_info : slot(ci) \in QuantSlots
        BY <1>6
      <3>4. \A ci \in DOMAIN d.comp_info : comps[ci] \in Component
        BY <1>2, <3>2, <3>3
      <3>5. comps = [ci \in DOMAIN d.comp_info |-> comps[ci]]
        OBVIOUS
      <3> HIDE DEF comps, Component, n, Source
      <3>6. comps \in [1 .. n -> Component]
        BY <1>2, <3>4, <3>5
      <3> QED BY <1>2, <3>6, FunctionIsASequence
    <2>7. \A s \in QuantSlots : d.quant_tbl_ptrs[s] # NoTable => tables[s] = d.quant_tbl_ptrs[s]
      OBVIOUS
    <2>8. \A ci \in DOMAIN d.comp_info :
            /\ slot(ci) \in QuantSlots /\ d.quant_tbl_ptrs[slot(ci)] # NoTable
            /\ comps[ci].component_id = d.comp_info[ci].component_id
            /\ comps[ci].quant_tbl_no = d.comp_info[ci].quant_tbl_no
            /\ comps[ci].MCU_blocks = d.comp_info[ci].MCU_blocks
            /\ comps[ci].dc_tbl_no \in {0, 1} /\ comps[ci].ac_tbl_no \in {0, 1}
      <3>1. set.comp_info \in Seq(Component)
        BY <1>3 DEF IsCompress, ParametersOK
      <3>2. \A ci \in 1 .. n : set.comp_info[ci] \in Component
        <4> HIDE DEF set, Component, n
        <4> QED BY <1>3, <3>1, SequenceOfASet
      <3> HIDE DEF set, n
      <3> QED BY ZenonT(60), <1>2, <1>3, <1>6, <3>2
    <2> HIDE DEF tables, comps, set
    <2>3. /\ DOMAIN e = DOMAIN set /\ SameWriter(set, e) /\ e.quant_tbl_ptrs = tables /\ e.comp_info = comps
          /\ e.restart_interval = set.restart_interval /\ e.Adobe_transform = set.Adobe_transform
          /\ e.jpeg_color_space = set.jpeg_color_space /\ e.huff_tbl_ptrs = set.huff_tbl_ptrs
      BY <1>3, FieldsOfAWriter DEF SameWriter
    <2> HIDE DEF e
    <2>4. ParametersOK(e)
      BY <1>3, <2>1, <2>2, <2>3 DEF IsCompress, ParametersOK
    <2>5. WriterOK(e)
      BY <1>3, <2>3, PartsOfAWriter
    <2>6. IsCompress(e)
      BY <1>3, <2>3, <2>4, <2>5 DEF IsCompress
    <2>9. MarkedWith(e, space)
      BY <1>3, <2>3 DEF MarkedWith, SameWriter
    <2>10. CopiedFrom(d, c, e)
      BY <1>3, <1>6, <2>3, <2>7, <2>8, <2>9 DEF CopiedFrom, SameWriter
    <2> QED BY <1>3, <2>2, <2>3, <2>6, <2>10 DEF SameWriter
  <1> HIDE DEF e, absent, redefined, Good
  <1>7. Good(copied)
    <2>1. CASE \E ci \in DOMAIN d.comp_info : absent(ci)
      BY <1>4, <1>5, <2>1 DEF WriteErrors
    <2>2. CASE n > MAX_COMPONENTS
      BY <1>4, <1>5, <2>2 DEF WriteErrors
    <2>3. CASE (\A ci \in DOMAIN d.comp_info : ~absent(ci)) /\ n <= MAX_COMPONENTS
      BY <1>4, <1>5, <1>6, <2>3 DEF WriteErrors
    <2>4. n <= MAX_COMPONENTS \/ n > MAX_COMPONENTS
      BY <1>2, JobsAssumption
    <2> QED BY <2>1, <2>2, <2>3, <2>4
  <1> QED BY <1>7 DEF Good

\* A set of numbers has an element for each place in their order.
LEMMA ElementAtAPlace ==
  ASSUME NEW n \in Nat, NEW S \in SUBSET (1 .. n), NEW k \in 1 .. Cardinality(S)
  PROVE  \E i \in S : Cardinality({j \in S : j < i}) = k - 1
  <1> DEFINE upTo(m) == {j \in S : j <= m}
             M == {m \in 0 .. n : Cardinality(upTo(m)) >= k}
  <1>0. \A j \in S : j \in Nat /\ 1 <= j /\ j <= n
    OBVIOUS
  <1>1. IsFiniteSet(S) /\ Cardinality(S) \in Nat
    <2>1. IsFiniteSet(1 .. n)
      BY FS_Interval
    <2> QED BY <2>1, FS_Subset, FS_CardinalityType
  <1>2. ASSUME NEW m
        PROVE  IsFiniteSet(upTo(m)) /\ Cardinality(upTo(m)) \in Nat
    <2>1. upTo(m) \in SUBSET S
      OBVIOUS
    <2> HIDE DEF upTo
    <2> QED BY <1>1, <2>1, FS_Subset, FS_CardinalityType
  <1>3. n \in M
    <2>1. upTo(n) = S
      BY <1>0
    <2> HIDE DEF upTo
    <2> QED BY <1>1, <2>1
  <1>4. PICK m \in M : \A l \in M : m <= l
    <2>1. M \in SUBSET Nat
      <3>1. M \subseteq 0 .. n
        BY Zenon
      <3> HIDE DEF M
      <3> QED BY <3>1
    <2>2. M # {}
      BY <1>3, Zenon
    <2> QED BY <2>1, <2>2, LeastNumber, Zenon
  <1>5. m # 0
    <2>1. upTo(0) = {}
      <3>1. \A j \in S : ~(j <= 0)
        BY <1>0
      <3> QED BY <3>1, Zenon
    <2> HIDE DEF upTo
    <2>2. Cardinality(upTo(0)) = 0
      BY <2>1, FS_EmptySet
    <2>3. Cardinality(upTo(m)) >= k
      BY <1>4
    <2> QED BY <1>1, <2>2, <2>3
  <1>6. m - 1 \in 0 .. n /\ m \in 0 .. n
    BY <1>4, <1>5
  <1>7. Cardinality(upTo(m - 1)) < k /\ Cardinality(upTo(m)) >= k
    <2>1. m - 1 \notin M
      <3> HIDE DEF M
      <3>1. m - 1 \in M => m <= m - 1
        BY <1>4
      <3> QED BY <1>6, <3>1
    <2>2. Cardinality(upTo(m - 1)) \in Nat
      BY <1>2
    <2>3. ~(Cardinality(upTo(m - 1)) >= k)
      BY <1>6, <2>1
    <2> HIDE DEF upTo, M
    <2>4. Cardinality(upTo(m - 1)) < k
      BY <1>1, <2>2, <2>3
    <2> QED BY <1>4, <2>4 DEF M
  <1>8. upTo(m) = IF m \in S THEN upTo(m - 1) \cup {m} ELSE upTo(m - 1)
    <2>1. \A j \in S : j <= m <=> j <= m - 1 \/ j = m
      BY <1>0, <1>6
    <2> QED BY <1>0, <1>6, <2>1
  <1>9. m \in S
    <2> HIDE DEF upTo
    <2>1. Cardinality(upTo(m - 1)) # Cardinality(upTo(m))
      BY <1>1, <1>2, <1>7
    <2> QED BY <1>8, <2>1
  <1>10. {j \in S : j < m} = upTo(m - 1) /\ m \notin upTo(m - 1)
    <2>1. \A j \in S : j < m <=> j <= m - 1
      BY <1>0, <1>6
    <2>2. {j \in S : j < m} = upTo(m - 1)
      BY <2>1, Zenon
    <2>3. ~(m <= m - 1)
      BY <1>6
    <2> QED BY <2>2, <2>3, Zenon
  <1> HIDE DEF upTo
  <1>11. Cardinality(upTo(m)) = Cardinality(upTo(m - 1)) + 1
    BY <1>2, <1>8, <1>9, <1>10, FS_AddElement
  <1>12. Cardinality(upTo(m - 1)) = k - 1
    BY <1>1, <1>2, <1>7, <1>11
  <1> QED BY <1>9, <1>10, <1>12

\* What a list names first is on the list.
LEMMA FirstUsesAreOnTheList ==
  ASSUME NEW S, NEW list \in Seq(S)
  PROVE  FirstUses(list) \in Seq(S)
  <1> DEFINE uses == {i \in DOMAIN list : \A j \in 1 .. i - 1 : list[j] # list[i]}
             use(k) == CHOOSE i \in uses : Cardinality({j \in uses : j < i}) = k - 1
  <1>1. FirstUses(list) = [k \in 1 .. Cardinality(uses) |-> list[use(k)]]
    BY Zenon DEF FirstUses
  <1>2. Len(list) \in Nat /\ DOMAIN list = 1 .. Len(list) /\ \A i \in DOMAIN list : list[i] \in S
    BY SequenceOfASet, Zenon
  <1>3. uses \in SUBSET (1 .. Len(list))
    BY <1>2
  <1> HIDE DEF uses
  <1>4. Cardinality(uses) \in Nat
    <2>1. IsFiniteSet(1 .. Len(list))
      BY <1>2, FS_Interval
    <2> QED BY <1>3, <2>1, FS_Subset, FS_CardinalityType
  <1>5. ASSUME NEW k \in 1 .. Cardinality(uses)
        PROVE  use(k) \in uses
    <2>1. \E i \in uses : Cardinality({j \in uses : j < i}) = k - 1
      BY <1>2, <1>3, ElementAtAPlace
    <2> QED BY <2>1, Zenon
  <1> HIDE DEF use
  <1>6. FirstUses(list) \in [1 .. Cardinality(uses) -> S]
    BY <1>1, <1>2, <1>3, <1>5
  <1> QED BY <1>4, <1>6, FunctionIsASequence

\* A sequence of units none of which ends the image.
LEMMA StreamOfUnits ==
  ASSUME NEW n \in Nat, NEW s, s = [i \in 1 .. n |-> s[i]],
         \A i \in 1 .. n : IsUnit(s[i]) /\ s[i].kind # "EOI"
  PROVE  IsStream(s) /\ NoEnd(s)
  <1>1. IsASequence(s) /\ DOMAIN s = 1 .. n
    BY OnAnInterval
  <1> QED BY <1>1 DEF IsStream, NoEnd

\* The components of the writer, and the slots they are on.
LEMMA WrittenComponents ==
  ASSUME NEW c, IsCompress(c)
  PROVE  /\ Len(c.comp_info) \in Nat /\ DOMAIN c.comp_info = 1 .. Len(c.comp_info)
         /\ \A ci \in DOMAIN c.comp_info :
              c.comp_info[ci] \in [component_id : Nat, quant_tbl_no : QuantSlots, MCU_blocks : Nat,
                                   dc_tbl_no : HuffSlots, ac_tbl_no : HuffSlots]
  <1>1. c.comp_info \in Seq([component_id : Nat, quant_tbl_no : QuantSlots, MCU_blocks : Nat,
                             dc_tbl_no : HuffSlots, ac_tbl_no : HuffSlots])
    BY DEF IsCompress, ParametersOK
  <1> QED BY <1>1, SequenceOfASet, Zenon

\* The quantization tables are those of slots there are.
LEMMA DQTIsWritten ==
  ASSUME NEW c, IsCompress(c)
  PROVE  IsStream(emit_dqt(c)) /\ NoEnd(emit_dqt(c))
  <1> DEFINE list == [ci \in DOMAIN c.comp_info |-> c.comp_info[ci].quant_tbl_no]
             slots == FirstUses(list)
  <1>1. list \in Seq(QuantSlots)
    <2>1. list \in [1 .. Len(c.comp_info) -> QuantSlots] /\ Len(c.comp_info) \in Nat
      BY WrittenComponents
    <2> HIDE DEF list
    <2> QED BY <2>1, FunctionIsASequence
  <1> HIDE DEF list
  <1>2. slots \in Seq(QuantSlots)
    BY <1>1, FirstUsesAreOnTheList
  <1>3. Len(slots) \in Nat /\ DOMAIN slots = 1 .. Len(slots) /\ \A k \in DOMAIN slots : slots[k] \in QuantSlots
    <2> HIDE DEF slots
    <2> QED BY <1>2, SequenceOfASet, Zenon
  <1>4. emit_dqt(c) = [k \in DOMAIN slots |-> DQT(slots[k], c.quant_tbl_ptrs[slots[k]])]
    BY DEF emit_dqt, list
  <1> HIDE DEF slots
  <1>5. c.quant_tbl_ptrs \in [QuantSlots -> Nat]
    BY DEF IsCompress, ParametersOK
  <1>6. \A s \in QuantSlots : IsUnit(DQT(s, c.quant_tbl_ptrs[s])) /\ DQT(s, c.quant_tbl_ptrs[s]).kind # "EOI"
    BY <1>5, DefaultSlots DEF DQT, IsUnit
  <1>7. \A k \in 1 .. Len(slots) : IsUnit(emit_dqt(c)[k]) /\ emit_dqt(c)[k].kind # "EOI"
    BY <1>3, <1>4, <1>6
  <1> QED BY <1>3, <1>4, <1>7, StreamOfUnits

\* And so are the Huffman tables.
LEMMA DHTIsWritten ==
  ASSUME NEW c, IsCompress(c)
  PROVE  IsStream(emit_dht(c)) /\ NoEnd(emit_dht(c))
  <1> DEFINE Tables == {"DC", "AC"} \X HuffSlots
             list == [k \in 1 .. 2 * Len(c.comp_info) |->
                  IF k % 2 = 1 THEN <<"DC", c.comp_info[(k + 1) \div 2].dc_tbl_no>>
                  ELSE <<"AC", c.comp_info[(k + 1) \div 2].ac_tbl_no>>]
             tables == FirstUses(list)
  <1>1. list \in Seq(Tables)
    <2>1. Len(c.comp_info) \in Nat /\ DOMAIN c.comp_info = 1 .. Len(c.comp_info)
          /\ \A ci \in DOMAIN c.comp_info : c.comp_info[ci].dc_tbl_no \in HuffSlots
                                            /\ c.comp_info[ci].ac_tbl_no \in HuffSlots
      BY WrittenComponents
    <2>2. \A k \in 1 .. 2 * Len(c.comp_info) : (k + 1) \div 2 \in DOMAIN c.comp_info
      BY <2>1
    <2>3. 2 * Len(c.comp_info) \in Nat
      BY <2>1
    <2>4. list \in [1 .. 2 * Len(c.comp_info) -> Tables]
      BY <2>1, <2>2
    <2> HIDE DEF list, Tables
    <2> QED BY <2>3, <2>4, FunctionIsASequence
  <1>2. emit_dht(c) = [k \in DOMAIN tables |->
         DHT(tables[k][1], tables[k][2], c.huff_tbl_ptrs[tables[k][1]][tables[k][2]])]
    BY Zenon DEF emit_dht
  <1> HIDE DEF list
  <1>3. tables \in Seq(Tables)
    <2> HIDE DEF Tables
    <2> QED BY <1>1, FirstUsesAreOnTheList
  <1>4. Len(tables) \in Nat /\ DOMAIN tables = 1 .. Len(tables) /\ \A k \in DOMAIN tables : tables[k] \in Tables
    <2> HIDE DEF tables, Tables
    <2> QED BY <1>3, SequenceOfASet, Zenon
  <1> HIDE DEF tables
  <1>5. c.huff_tbl_ptrs \in [{"DC", "AC"} -> [HuffSlots -> Nat]]
    BY DEF IsCompress, ParametersOK
  <1>6. \A class \in {"DC", "AC"}, s \in HuffSlots :
          IsUnit(DHT(class, s, c.huff_tbl_ptrs[class][s])) /\ DHT(class, s, c.huff_tbl_ptrs[class][s]).kind # "EOI"
    BY <1>5, DefaultSlots DEF DHT, IsUnit
  <1>7. \A k \in 1 .. Len(tables) : IsUnit(emit_dht(c)[k]) /\ emit_dht(c)[k].kind # "EOI"
    BY <1>2, <1>4, <1>6
  <1> QED BY <1>2, <1>4, <1>7, StreamOfUnits

\* The single units of the headers.
LEMMA HeadersAreUnits ==
  ASSUME NEW c, IsCompress(c)
  PROVE  /\ IsStream(emit_sof(c)) /\ NoEnd(emit_sof(c))
         /\ IsStream(emit_dri(c)) /\ NoEnd(emit_dri(c))
         /\ IsStream(emit_sos(c)) /\ NoEnd(emit_sos(c))
  <1>1. Len(c.comp_info) \in Nat /\ DOMAIN c.comp_info = 1 .. Len(c.comp_info)
        /\ \A ci \in DOMAIN c.comp_info :
              c.comp_info[ci] \in [component_id : Nat, quant_tbl_no : QuantSlots, MCU_blocks : Nat,
                                   dc_tbl_no : HuffSlots, ac_tbl_no : HuffSlots]
    BY WrittenComponents
  <1>2. IsStream(emit_sof(c)) /\ NoEnd(emit_sof(c))
    <2> DEFINE comps == [ci \in DOMAIN c.comp_info |->
                 [component_id |-> c.comp_info[ci].component_id,
                  quant_tbl_no |-> c.comp_info[ci].quant_tbl_no,
                  MCU_blocks   |-> c.comp_info[ci].MCU_blocks]]
               u == SOF("sequential", comps)
    <2>1. comps \in [1 .. Len(c.comp_info) -> [component_id : Nat, quant_tbl_no : Nat, MCU_blocks : Nat]]
      BY <1>1, DefaultSlots
    <2>2. emit_sof(c) = <<u>>
      BY DEF emit_sof
    <2> HIDE DEF comps
    <2>3. comps \in Seq([component_id : Nat, quant_tbl_no : Nat, MCU_blocks : Nat])
      BY <1>1, <2>1, FunctionIsASequence
    <2>4. IsUnit(u) /\ u.kind # "EOI"
      BY <2>3 DEF SOF, IsUnit
    <2> HIDE DEF u
    <2> QED BY <2>2, <2>4, ShortStreams
  <1>3. IsStream(emit_dri(c)) /\ NoEnd(emit_dri(c))
    <2>1. IsUnit(DRI(c.restart_interval)) /\ DRI(c.restart_interval).kind # "EOI"
      BY DEF DRI, IsUnit, IsCompress, ParametersOK
    <2> QED BY <2>1, ShortStreams DEF emit_dri
  <1>4. IsStream(emit_sos(c)) /\ NoEnd(emit_sos(c))
    <2> DEFINE scan == [ci \in DOMAIN c.comp_info |->
                 [component_id |-> c.comp_info[ci].component_id,
                  dc_tbl_no |-> c.comp_info[ci].dc_tbl_no,
                  ac_tbl_no |-> c.comp_info[ci].ac_tbl_no]]
               u == SOS(scan, {"DC", "AC"})
    <2>1. scan \in [1 .. Len(c.comp_info) -> [component_id : Nat, dc_tbl_no : Nat, ac_tbl_no : Nat]]
      BY <1>1, DefaultSlots
    <2>2. emit_sos(c) = <<u>>
      BY DEF emit_sos
    <2> HIDE DEF scan
    <2>3. scan \in Seq([component_id : Nat, dc_tbl_no : Nat, ac_tbl_no : Nat])
      BY <1>1, <2>1, FunctionIsASequence
    <2>4. IsUnit(u) /\ u.kind # "EOI"
      BY <2>3 DEF SOS, IsUnit
    <2> HIDE DEF u
    <2> QED BY <2>2, <2>4, ShortStreams
  <1> QED BY <1>2, <1>3, <1>4

\* One header behind another.
LEMMA PutOnPut ==
  ASSUME NEW c, NEW d, NEW e, Writes(c, d), Writes(d, e)
  PROVE  Writes(c, e)
  BY DEF Writes

\* The headers of the file, of the frame and of the scan.
LEMMA FileHeaderIsWritten ==
  ASSUME NEW c, IsCompress(c)
  PROVE  /\ IsCompress(write_file_header(c)) /\ Writes(c, write_file_header(c))
         /\ write_file_header(c).error = c.error /\ write_file_header(c).is_last_pass = c.is_last_pass
         /\ write_file_header(c).iMCU_row_num = c.iMCU_row_num
  <1> DEFINE jfif == emit_jfif_app0(c)
             adobe == emit_adobe_app14(c)
             units == <<SOI>> \o jfif \o adobe
  <1>1. write_file_header(c) = Put(c, units)
    BY Zenon DEF write_file_header
  <1>2. IsUnit(SOI) /\ SOI.kind # "EOI"
    BY DEF SOI, IsUnit
  <1>3. IsStream(<<SOI>>) /\ NoEnd(<<SOI>>) /\ IsStream(<< >>) /\ NoEnd(<< >>)
    BY <1>2, ShortStreams
  <1>4. IsStream(jfif) /\ NoEnd(jfif)
    <2>1. IsUnit(APP0) /\ APP0.kind # "EOI"
      BY DEF APP0, IsUnit
    <2>2. IsStream(<<APP0>>) /\ NoEnd(<<APP0>>)
      BY <2>1, ShortStreams
    <2> QED BY <1>3, <2>2 DEF emit_jfif_app0
  <1>5. IsStream(adobe) /\ NoEnd(adobe)
    <2>1. c.Adobe_transform \in Int
      BY DEF IsCompress, ParametersOK
    <2>2. IsUnit(APP14(c.Adobe_transform)) /\ APP14(c.Adobe_transform).kind # "EOI"
      BY <2>1 DEF APP14, IsUnit
    <2>3. IsStream(<<APP14(c.Adobe_transform)>>) /\ NoEnd(<<APP14(c.Adobe_transform)>>)
      BY <2>2, ShortStreams
    <2> QED BY <1>3, <2>3 DEF emit_adobe_app14
  <1> HIDE DEF jfif, adobe
  <1>6. IsStream(<<SOI>> \o jfif) /\ NoEnd(<<SOI>> \o jfif)
    BY <1>3, <1>4, NoEndOfBoth
  <1>7. IsStream(units) /\ NoEnd(units)
    BY <1>5, <1>6, NoEndOfBoth
  <1> HIDE DEF units
  <1>8. /\ IsCompress(Put(c, units)) /\ Writes(c, Put(c, units))
    BY <1>7, PutIsAnObject
  <1>9. /\ Put(c, units).error = c.error /\ Put(c, units).is_last_pass = c.is_last_pass
        /\ Put(c, units).iMCU_row_num = c.iMCU_row_num
    BY FieldsOfAWriter DEF Put
  <1> QED BY <1>1, <1>8, <1>9

\* The tables and the frame header.
LEMMA FrameHeaderIsWritten ==
  ASSUME NEW c, IsCompress(c)
  PROVE  /\ IsCompress(write_frame_header(c)) /\ Writes(c, write_frame_header(c))
         /\ write_frame_header(c).error = c.error
         /\ write_frame_header(c).global_state = c.global_state
  <1> DEFINE units == emit_dqt(c) \o emit_sof(c)
  <1>1. IsStream(units) /\ NoEnd(units)
    BY DQTIsWritten, HeadersAreUnits, NoEndOfBoth
  <1>2. write_frame_header(c) = Put(c, units)
    BY Zenon DEF write_frame_header
  <1> HIDE DEF units
  <1>3. Put(c, units).error = c.error /\ Put(c, units).global_state = c.global_state
    BY FieldsOfAWriter DEF Put
  <1> QED BY <1>1, <1>2, <1>3, PutIsAnObject

\* The tables and the header of the one scan.
LEMMA ScanHeaderIsWritten ==
  ASSUME NEW c, IsCompress(c)
  PROVE  /\ IsCompress(write_scan_header(c)) /\ Writes(c, write_scan_header(c))
         /\ write_scan_header(c).error = c.error
         /\ write_scan_header(c).global_state = c.global_state
  <1> DEFINE dri == IF c.restart_interval # 0 THEN emit_dri(c) ELSE << >>
             units == emit_dht(c) \o dri \o emit_sos(c)
  <1>1. IsStream(dri) /\ NoEnd(dri)
    <2>1. IsUnit(SOI)
      BY DEF SOI, IsUnit
    <2>2. IsStream(<< >>) /\ NoEnd(<< >>)
      BY <2>1, ShortStreams
    <2> QED BY <2>2, HeadersAreUnits
  <1>2. write_scan_header(c) = Put(c, units)
    BY Zenon DEF write_scan_header
  <1> HIDE DEF dri
  <1>3. IsStream(emit_dht(c) \o dri) /\ NoEnd(emit_dht(c) \o dri)
    BY <1>1, DHTIsWritten, NoEndOfBoth
  <1>4. IsStream(units) /\ NoEnd(units)
    BY <1>3, HeadersAreUnits, NoEndOfBoth
  <1> HIDE DEF units
  <1>5. Put(c, units).error = c.error /\ Put(c, units).global_state = c.global_state
    BY FieldsOfAWriter DEF Put
  <1> QED BY <1>2, <1>4, <1>5, PutIsAnObject

\* The object is told to write coefficients; only the header of the file is written.
LEMMA WritingIsStarted ==
  ASSUME NEW c, IsCompress(c), c.error = "none", c.global_state = "CSTATE_START"
  PROVE  /\ IsCompress(jpeg_write_coefficients(c)) /\ Writes(c, jpeg_write_coefficients(c))
         /\ jpeg_write_coefficients(c).error = "none"
         /\ jpeg_write_coefficients(c).global_state = "CSTATE_WRCOEFS"
  <1> DEFINE h == write_file_header(c)
             e == [h EXCEPT !.global_state = "CSTATE_WRCOEFS"]
  <1>1. jpeg_write_coefficients(c) = e
    BY DEF jpeg_write_coefficients, transencode_master_selection
  <1>2. IsCompress(h) /\ Writes(c, h) /\ h.error = "none"
    BY FileHeaderIsWritten
  <1> HIDE DEF h
  <1>3. /\ DOMAIN e = DOMAIN h /\ SameParameters(h, e) /\ e.global_state = "CSTATE_WRCOEFS"
        /\ e.error = h.error /\ e.buffer = h.buffer /\ e.file = h.file
        /\ e.write_JFIF_header = h.write_JFIF_header
        /\ e.is_last_pass = h.is_last_pass /\ e.iMCU_row_num = h.iMCU_row_num
    BY <1>2, FieldsOfAWriter DEF SameParameters
  <1> HIDE DEF e
  <1>4. WriterOK(e)
    BY <1>2, <1>3 DEF IsCompress, WriterOK
  <1>5. ParametersOK(e)
    BY <1>2, <1>3, PartsOfAWriter
  <1> QED BY <1>1, <1>2, <1>3, <1>4, <1>5 DEF IsCompress, Writes, SameParameters

\* The one scan there is, of all components.
LEMMA PassIsPrepared ==
  ASSUME NEW c, IsCompress(c), c.error = "none"
  PROVE  /\ IsCompress(prepare_for_pass(c)) /\ Writes(c, prepare_for_pass(c))
         /\ prepare_for_pass(c).error # "JERR_BAD_STATE"
         /\ prepare_for_pass(c).global_state = c.global_state
  <1> DEFINE f == write_frame_header(c)
             h == write_scan_header(f)
             e == [h EXCEPT !.iMCU_row_num = 0, !.is_last_pass = TRUE]
             fits == FitsMCU(c.comp_info, [ci \in DOMAIN c.comp_info |-> ci])
  <1>1. prepare_for_pass(c) = IF Len(c.comp_info) > MAX_COMPS_IN_SCAN THEN Failed(c, "JERR_COMPONENT_COUNT")
                              ELSE IF ~fits THEN Failed(c, "JERR_BAD_MCU_SIZE") ELSE e
    BY Zenon DEF prepare_for_pass
  <1>2. IsCompress(f) /\ Writes(c, f) /\ f.error = "none" /\ f.global_state = c.global_state
    BY FrameHeaderIsWritten
  <1> HIDE DEF f, fits
  <1>3. IsCompress(h) /\ Writes(f, h) /\ h.error = "none" /\ h.global_state = c.global_state
    BY <1>2, ScanHeaderIsWritten
  <1> HIDE DEF h
  <1>4. /\ DOMAIN e = DOMAIN h /\ SameParameters(h, e) /\ e.global_state = h.global_state
        /\ e.error = h.error /\ e.buffer = h.buffer /\ e.file = h.file
        /\ e.write_JFIF_header = h.write_JFIF_header
        /\ e.is_last_pass \in BOOLEAN /\ e.iMCU_row_num = 0
    BY <1>3, FieldsOfAWriter DEF SameParameters
  <1> HIDE DEF e
  <1>5. WriterOK(e)
    <2>1. 0 \in 0 .. NoOfRows
      BY DefaultSlots
    <2> QED BY <1>3, <1>4, <2>1 DEF IsCompress, WriterOK
  <1>6. ParametersOK(e)
    BY <1>3, <1>4, PartsOfAWriter
  <1>7. IsCompress(e) /\ Writes(c, e)
    BY <1>2, <1>3, <1>4, <1>5, <1>6 DEF IsCompress, Writes, SameParameters
  <1>8. e.error # "JERR_BAD_STATE" /\ e.global_state = c.global_state
    BY <1>3, <1>4
  <1>9. /\ "JERR_COMPONENT_COUNT" \in WriteErrors /\ "JERR_BAD_MCU_SIZE" \in WriteErrors
        /\ "JERR_COMPONENT_COUNT" # "JERR_BAD_STATE" /\ "JERR_BAD_MCU_SIZE" # "JERR_BAD_STATE"
    BY DEF WriteErrors
  <1>10. CASE Len(c.comp_info) > MAX_COMPS_IN_SCAN
    BY <1>1, <1>9, <1>10, FailedIsAWriter
  <1>11. CASE ~(Len(c.comp_info) > MAX_COMPS_IN_SCAN) /\ ~fits
    BY <1>1, <1>9, <1>11, FailedIsAWriter
  <1>12. CASE ~(Len(c.comp_info) > MAX_COMPS_IN_SCAN) /\ fits
    BY <1>1, <1>7, <1>8, <1>12
  <1> QED BY <1>10, <1>11, <1>12

\* A row of all components, if none of its coefficients is too large.
LEMMA RowIsCompressed ==
  ASSUME NEW c, IsCompress(c), c.error = "none", c.iMCU_row_num < NoOfRows,
         NEW arrays, \A ci \in DOMAIN c.comp_info : \A r \in Rows : IsContent(arrays[ci][r])
  PROVE  /\ IsCompress(compress_output(c, arrays, TooLarge)) /\ Writes(c, compress_output(c, arrays, TooLarge))
         /\ compress_output(c, arrays, TooLarge).error # "JERR_BAD_STATE"
         /\ compress_output(c, arrays, TooLarge).global_state = c.global_state
  <1> DEFINE row == c.iMCU_row_num + 1
             contents == [ci \in DOMAIN c.comp_info |-> arrays[ci][row]]
             tables == [ci \in DOMAIN c.comp_info |->
                 <<c.huff_tbl_ptrs["DC"][c.comp_info[ci].dc_tbl_no],
                   c.huff_tbl_ptrs["AC"][c.comp_info[ci].ac_tbl_no]>>]
             code == [interval |-> c.restart_interval, tables |-> tables]
             u == ROW(contents, code)
             p == Put(c, <<u>>)
             e == [p EXCEPT !.iMCU_row_num = row]
  <1>1. compress_output(c, arrays, TooLarge) =
          IF \E ci \in DOMAIN contents : TooLarge(contents[ci]) THEN Failed(c, "JERR_BAD_DCT_COEF") ELSE e
    BY Zenon DEF compress_output
  <1>2. row \in Rows /\ row \in 0 .. NoOfRows
    <2>1. c.iMCU_row_num \in 0 .. NoOfRows
      BY DEF IsCompress, WriterOK
    <2> QED BY <2>1, DefaultSlots DEF Rows
  <1>3. IsUnit(u) /\ u.kind # "EOI"
    <2>1. DOMAIN contents = DOMAIN tables /\ \A i \in DOMAIN contents : IsContent(contents[i])
      BY <1>2
    <2> HIDE DEF contents, tables, row
    <2>2. u.kind = "ROW" /\ u.contents = contents /\ u.code.tables = tables
      BY DEF ROW
    <2> HIDE DEF u
    <2> QED BY <2>1, <2>2 DEF IsUnit
  <1> HIDE DEF u, row
  <1>4. IsStream(<<u>>) /\ NoEnd(<<u>>)
    BY <1>3, ShortStreams
  <1>5. IsCompress(p) /\ Writes(c, p)
    BY <1>4, PutIsAnObject
  <1>6. p.error = c.error /\ p.global_state = c.global_state
    BY FieldsOfAWriter DEF Put
  <1> HIDE DEF p
  <1>7. /\ DOMAIN e = DOMAIN p /\ SameParameters(p, e) /\ e.global_state = p.global_state
        /\ e.error = p.error /\ e.buffer = p.buffer /\ e.file = p.file
        /\ e.write_JFIF_header = p.write_JFIF_header
        /\ e.is_last_pass = p.is_last_pass /\ e.iMCU_row_num = row
    BY <1>5, FieldsOfAWriter DEF SameParameters
  <1> HIDE DEF e
  <1>8. WriterOK(e)
    BY <1>2, <1>5, <1>7 DEF IsCompress, WriterOK
  <1>9. ParametersOK(e)
    BY <1>5, <1>7, PartsOfAWriter
  <1>10. IsCompress(e) /\ Writes(c, e) /\ e.error # "JERR_BAD_STATE" /\ e.global_state = c.global_state
    BY <1>5, <1>6, <1>7, <1>8, <1>9 DEF IsCompress, Writes, SameParameters
  <1>11. "JERR_BAD_DCT_COEF" \in WriteErrors /\ "JERR_BAD_DCT_COEF" # "JERR_BAD_STATE"
    BY DEF WriteErrors
  <1> HIDE DEF contents
  <1> QED BY <1>1, <1>10, <1>11, FailedIsAWriter

\* The end of the image comes last.
LEMMA TrailerIsWritten ==
  ASSUME NEW c, IsCompress(c)
  PROVE  /\ IsCompress(write_file_trailer(c)) /\ write_file_trailer(c).comp_info = c.comp_info
         /\ write_file_trailer(c).error = c.error /\ write_file_trailer(c).global_state = c.global_state
  <1>1. IsUnit(EOI)
    BY DEF EOI, IsUnit
  <1>2. IsStream(<<EOI>>)
    BY <1>1, ShortStreams
  <1> DEFINE p == Put(c, <<EOI>>)
  <1>3. IsCompress(p) /\ SameParameters(c, p)
    BY <1>2, PutIsAnObject
  <1>4. p.error = c.error /\ p.global_state = c.global_state
    BY FieldsOfAWriter DEF Put
  <1> QED BY <1>3, <1>4 DEF write_file_trailer, SameParameters

\* No more leaves the buffer than there is in it.
LEMMA EmptiedFromTheBuffer ==
  ASSUME NEW c, IsCompress(c), NEW all
  PROVE  Emptied(c, all) \in Nat /\ Emptied(c, all) <= Len(c.buffer) /\ Len(c.buffer) \in Nat
  <1> DEFINE l == Len(c.buffer)
             k == l \div OUTPUT_BUF_SIZE
  <1>1. l \in Nat
    BY SequenceIsOnAnInterval DEF IsCompress, WriterOK, IsStream
  <1>2. OUTPUT_BUF_SIZE \in Nat \ {0}
    BY DefaultSlots
  <1> HIDE DEF l
  <1>3. k \in Nat /\ k * OUTPUT_BUF_SIZE \in Nat /\ k * OUTPUT_BUF_SIZE <= l
    <2>1. k \in Nat
      BY <1>1, <1>2
    <2>2. l = (OUTPUT_BUF_SIZE * k) + (l % OUTPUT_BUF_SIZE)
      BY <1>1, <1>2
    <2>3. l % OUTPUT_BUF_SIZE \in Nat
      BY <1>1, <1>2
    <2>4. k * OUTPUT_BUF_SIZE = OUTPUT_BUF_SIZE * k /\ k * OUTPUT_BUF_SIZE \in Nat
      BY <1>2, <2>1
    <2> HIDE DEF k
    <2> QED BY <1>1, <1>2, <2>1, <2>2, <2>3, <2>4
  <1>4. Emptied(c, all) = IF all THEN l ELSE k * OUTPUT_BUF_SIZE
    BY DEF Emptied, l
  <1> HIDE DEF k
  <1> QED BY <1>1, <1>3, <1>4 DEF l

-----------------------------------------------------------------------------
(* The commands.  Beyond the types, an invariant says what the library is  *)
(* ready for wherever it is called: the reader at the header or among the  *)
(* coefficients, the writer before and behind jpeg_write_coefficients.     *)
ReaderPlace(p) ==
  /\ pc[p] = "header" => dec[p].global_state \in {"DSTATE_START", "DSTATE_READY"}
  /\ pc[p] = "coefficients" =>
       dec[p].global_state \in {"DSTATE_READY", "DSTATE_RDCOEFS", "DSTATE_STOPPING"}

ReadersReady ==
  /\ dec \in [Processes -> {dec[p] : p \in Processes}]
  /\ \A p \in Processes : ReaderOK(p) /\ ReaderPlace(p)

Writing == pc["encode"] = "coefficients" /\ purpose["encode"] = "write"

WriterReady ==
  /\ CompressorOK /\ comp.error # "JERR_BAD_STATE"
  /\ Writing => comp.error = "none" /\ comp.global_state = "CSTATE_START"
  /\ pc["encode"] = "compress" =>
       /\ purpose["encode"] = "write" /\ comp.error = "none" /\ comp.global_state = "CSTATE_WRCOEFS"
       /\ dec["encode"].global_state = "DSTATE_STOPPING" /\ dec["encode"].error = "none"
       /\ dec["encode"] # NoObject

RowsCollected ==
  /\ collection \in [Processes -> {collection[p] : p \in Processes}]
  /\ purpose["encode"] # "read" => \A r \in Rows : IsContent(collection["encode"][r])

StepsOK == full \in [QuantSlots -> Nat] /\ reduced \in [QuantSlots -> Nat]

CommandsOK ==
  FilesOK /\ ProcessesOK /\ ReadersReady /\ WriterReady /\ RowsCollected /\ StepsOK

\* It implies the types.
LEMMA CommandsHaveTheirTypes ==
  ASSUME CommandsOK
  PROVE  TranscodeTypeOK
  BY DEF CommandsOK, TranscodeTypeOK, ReadersReady, WriterReady, StepsOK

\* One reader has another object, and is at another place.
LEMMA OneReaderMoves ==
  ASSUME ReadersReady, ProcessesOK, NEW p \in Processes, NEW place, NEW e,
         pc' = [pc EXCEPT ![p] = place], dec' = [dec EXCEPT ![p] = e],
         DOMAIN files \subseteq DOMAIN files',
         e = NoObject \/ (IsDecompress(e) /\ e.file \in DOMAIN files'),
         place \in {"header", "coefficients"} => e # NoObject /\ e.error = "none",
         place = "header" => e.global_state \in {"DSTATE_START", "DSTATE_READY"},
         place = "coefficients" =>
           e.global_state \in {"DSTATE_READY", "DSTATE_RDCOEFS", "DSTATE_STOPPING"}
  PROVE  ReadersReady'
  <1>1. DOMAIN pc = Processes /\ DOMAIN dec = Processes
    BY DEF ProcessesOK, ReadersReady
  <1>2. /\ DOMAIN dec' = Processes /\ dec'[p] = e /\ pc'[p] = place
        /\ \A q \in Processes \ {p} : dec'[q] = dec[q] /\ pc'[q] = pc[q]
    BY <1>1
  <1>3. dec' \in [Processes -> {dec'[q] : q \in Processes}]
    <2>1. dec' = [q \in Processes |-> IF q = p THEN e ELSE dec[q]]
      BY <1>1
    <2> QED BY <2>1
  <1>4. ASSUME NEW q \in Processes
        PROVE  ReaderOK(q)' /\ ReaderPlace(q)'
    <2>1. CASE q = p
      BY <1>2, <2>1 DEF ReaderOK, ReaderPlace, NoObject
    <2>2. CASE q # p
      <3>1. ReaderOK(q) /\ ReaderPlace(q)
        BY DEF ReadersReady
      <3>2. dec'[q] = dec[q] /\ pc'[q] = pc[q]
        BY <1>2, <2>2
      <3> QED BY <3>1, <3>2 DEF ReaderOK, ReaderPlace, NoObject
    <2> QED BY <2>1, <2>2
  <1> QED BY <1>3, <1>4 DEF ReadersReady

\* A reader goes elsewhere with the object it has.
LEMMA OneReaderGoes ==
  ASSUME ReadersReady, ProcessesOK, NEW p \in Processes, NEW place,
         pc' = [pc EXCEPT ![p] = place], UNCHANGED dec, DOMAIN files \subseteq DOMAIN files',
         place \notin {"header", "coefficients"}
  PROVE  ReadersReady'
  <1>1. dec' = [dec EXCEPT ![p] = dec[p]]
    BY DEF ReadersReady
  <1>2. dec[p] = NoObject \/ (IsDecompress(dec[p]) /\ dec[p].file \in DOMAIN files')
    BY DEF ReadersReady, ReaderOK
  <1> QED BY <1>1, <1>2, OneReaderMoves

\* While nothing is written, an object of the writer is left as it is.
LEMMA NothingIsWritten ==
  ASSUME WriterReady, UNCHANGED comp, ~Writing', pc'["encode"] # "compress"
  PROVE  WriterReady'
  <1>1. comp = NoObject \/ IsCompress(comp)
    BY DEF WriterReady, CompressorOK
  <1>2. CompressorOK'
    BY <1>1 DEF CompressorOK, Writing, NoObject
  <1> QED BY <1>2 DEF WriterReady

\* What the decoder does is nothing to the writer.
LEMMA DecodingWritesNothing ==
  ASSUME WriterReady, UNCHANGED <<comp, job>>, DOMAIN files \subseteq DOMAIN files',
         pc'["encode"] = pc["encode"], purpose'["encode"] = purpose["encode"],
         dec'["encode"] = dec["encode"]
  PROVE  WriterReady'
  <1>1. Writing' <=> Writing
    BY DEF Writing
  <1>2. CompressorOK'
    BY DEF WriterReady, CompressorOK, NoObject
  <1> QED BY <1>1, <1>2 DEF WriterReady, NoObject

\* At first there are no objects.
LEMMA CommandsStart ==
  ASSUME Init
  PROVE  CommandsOK
  <1>1. job \in Jobs /\ \A n \in DOMAIN job.files : IsStream(job.files[n])
    <2>1. \A j \in Jobs : \A n \in DOMAIN j.files : IsStream(j.files[n])
      BY JobsAssumption, Zenon
    <2> QED BY <2>1 DEF Init
  <1>2. FilesOK
    BY <1>1 DEF Init, FilesOK
  <1>3. ProcessesOK
    BY DEF Init, ProcessesOK, Processes, Running
  <1>4. ReadersReady
    <2>1. dec = [p \in Processes |-> NoObject] /\ pc = [p \in Processes |-> "start"]
      BY DEF Init
    <2>2. \A p \in Processes : dec[p] = NoObject /\ pc[p] = "start"
      BY <2>1
    <2>3. \A p \in Processes : ReaderOK(p) /\ ReaderPlace(p)
      BY <2>2 DEF ReaderOK, ReaderPlace
    <2>4. dec \in [Processes -> {dec[p] : p \in Processes}]
      BY <2>1
    <2> QED BY <2>3, <2>4 DEF ReadersReady
  <1>5. WriterReady
    <2>1. pc["encode"] = "start" /\ comp = NoObject
      BY DEF Init, Processes
    <2> QED BY <2>1 DEF WriterReady, CompressorOK, Writing, NoObject
  <1>6. RowsCollected
    BY DEF Init, RowsCollected, Processes
  <1>7. StepsOK
    BY DEF Init, StepsOK, NoTable
  <1> QED BY <1>2, <1>3, <1>4, <1>5, <1>6, <1>7 DEF CommandsOK

\* A step that leaves these alone.
LEMMA TheRestStays ==
  ASSUME CommandsOK
  PROVE  /\ UNCHANGED <<job, files>> => FilesOK'
         /\ UNCHANGED <<purpose, collection>> => RowsCollected'
         /\ UNCHANGED <<full, reduced>> => StepsOK'
  BY DEF CommandsOK, FilesOK, RowsCollected, StepsOK

\* A command begins.
LEMMA StartKeepsTypes ==
  ASSUME CommandsOK, NEW p \in Processes, Start(p)
  PROVE  CommandsOK'
  <1> DEFINE place == IF p = "encode" /\ ~job.message THEN "aborted" ELSE "open"
  <1>1. pc' = [pc EXCEPT ![p] = place] /\ UNCHANGED <<job, files, purpose, dec, comp, full, reduced, collection>>
        /\ pc[p] = "start"
    BY DEF Start, Go
  <1>2. place \in {"aborted", "open"}
    OBVIOUS
  <1> HIDE DEF place
  <1>3. ProcessesOK'
    BY <1>1, <1>2 DEF CommandsOK, ProcessesOK, Processes, Running
  <1>4. ReadersReady'
    BY <1>1, <1>2, OneReaderGoes DEF CommandsOK
  <1>5. \/ ~Writing' /\ pc'["encode"] # "compress"
        \/ pc'["encode"] = pc["encode"]
    BY <1>1, <1>2 DEF CommandsOK, ProcessesOK, Writing, Processes
  <1>6. WriterReady'
    BY <1>1, <1>5, NothingIsWritten, DecodingWritesNothing DEF CommandsOK
  <1> QED BY <1>1, <1>3, <1>4, <1>6, TheRestStays DEF CommandsOK

\* A file is opened, if there is one.
LEMMA OpeningKeepsTypes ==
  ASSUME CommandsOK, NEW p \in Processes, DecompressionStarter(p)
  PROVE  CommandsOK'
  <1> DEFINE e == CreateDecompress(Opened(p))
  <1>1. UNCHANGED <<job, files, purpose, comp, full, reduced, collection>> /\ pc[p] = "open"
    BY DEF DecompressionStarter
  <1>2. \/ Opened(p) \in DOMAIN files /\ pc' = [pc EXCEPT ![p] = "header"] /\ dec' = [dec EXCEPT ![p] = e]
        \/ pc' = [pc EXCEPT ![p] = "aborted"] /\ dec' = dec
    BY DEF DecompressionStarter, Go, SetDec
  <1>3. /\ IsDecompress(e) /\ e.file = Opened(p) /\ e.error = "none"
        /\ e.global_state = "DSTATE_START"
    BY ObjectIsCreated
  <1>4. e # NoObject
    BY <1>3 DEF NoObject
  <1> HIDE DEF e
  <1>5. ProcessesOK'
    BY <1>1, <1>2 DEF CommandsOK, ProcessesOK, Processes, Running
  <1>6. ReadersReady'
    <2>1. CASE Opened(p) \in DOMAIN files /\ pc' = [pc EXCEPT ![p] = "header"] /\ dec' = [dec EXCEPT ![p] = e]
      BY <1>1, <1>3, <1>4, <2>1, OneReaderMoves DEF CommandsOK
    <2>2. CASE pc' = [pc EXCEPT ![p] = "aborted"] /\ dec' = dec
      BY <1>1, <2>2, OneReaderGoes DEF CommandsOK
    <2> QED BY <1>2, <2>1, <2>2
  <1>7. \/ ~Writing' /\ pc'["encode"] # "compress"
        \/ pc'["encode"] = pc["encode"] /\ dec'["encode"] = dec["encode"]
    BY <1>1, <1>2 DEF CommandsOK, ProcessesOK, ReadersReady, Writing, Processes
  <1>8. WriterReady'
    BY <1>1, <1>7, NothingIsWritten, DecodingWritesNothing DEF CommandsOK
  <1> QED BY <1>1, <1>5, <1>6, <1>8, TheRestStays DEF CommandsOK

\* What a reader reads from is a file, and its object is one without an error.
LEMMA ObjectBeingRead ==
  ASSUME CommandsOK, NEW p \in Processes, pc[p] \in {"header", "coefficients"}
  PROVE  /\ IsDecompress(dec[p]) /\ dec[p].error = "none" /\ dec[p] # NoObject
         /\ dec[p].file \in DOMAIN files /\ IsStream(files[dec[p].file])
  <1>1. ReaderOK(p)
    BY DEF CommandsOK, ReadersReady
  <1>2. IsDecompress(dec[p]) /\ dec[p].error = "none" /\ dec[p] # NoObject /\ dec[p].file \in DOMAIN files
    BY <1>1 DEF ReaderOK
  <1> QED BY <1>2 DEF CommandsOK, FilesOK

\* The header is read, unit by unit.
LEMMA HeaderKeepsTypes ==
  ASSUME CommandsOK, NEW p \in Processes, ReadHeader(p)
  PROVE  CommandsOK'
  <1> DEFINE e == ConsumeInput(dec[p], files[dec[p].file])
             place == IF e.error # "none" THEN "exited" ELSE "header"
  <1>1. /\ UNCHANGED <<job, files, purpose, comp, full, reduced, collection>> /\ pc[p] = "header"
        /\ dec[p].global_state = "DSTATE_START"
    BY DEF ReadHeader
  <1>2. dec' = [dec EXCEPT ![p] = e] /\ pc' = [pc EXCEPT ![p] = place]
    BY Zenon DEF ReadHeader, Go, SetDec
  <1>3. IsDecompress(e) /\ Advances(dec[p], e)
    BY <1>1, ObjectBeingRead, InputIsConsumed
  <1> HIDE DEF e
  <1>4. e # NoObject /\ e.file \in DOMAIN files /\ e.global_state \in {"DSTATE_START", "DSTATE_READY"}
    <2>1. e.global_state \in {"DSTATE_START", "DSTATE_READY"}
      BY <1>1, <1>3 DEF Advances
    <2> QED BY <1>1, <1>3, <2>1, ObjectBeingRead DEF Advances, NoObject
  <1>5. place \in {"exited", "header"} /\ (place = "header" => e.error = "none")
    OBVIOUS
  <1> HIDE DEF place
  <1>6. ProcessesOK'
    BY <1>1, <1>2, <1>5 DEF CommandsOK, ProcessesOK, Processes, Running
  <1>7. ReadersReady'
    BY <1>1, <1>2, <1>3, <1>4, <1>5, OneReaderMoves DEF CommandsOK
  <1>8. \/ ~Writing' /\ pc'["encode"] # "compress"
        \/ pc'["encode"] = pc["encode"] /\ dec'["encode"] = dec["encode"]
    BY <1>1, <1>2, <1>5 DEF CommandsOK, ProcessesOK, ReadersReady, Writing, Processes
  <1>9. WriterReady'
    BY <1>1, <1>8, NothingIsWritten, DecodingWritesNothing DEF CommandsOK
  <1> QED BY <1>1, <1>6, <1>7, <1>9, TheRestStays DEF CommandsOK

\* The cover that is written from goes on being read, with the components it has.
LEMMA CoverReadsOn ==
  ASSUME CommandsOK, Writing, NEW e, e # NoObject => DOMAIN e.comp_info = DOMAIN dec["encode"].comp_info,
         e # NoObject, UNCHANGED <<comp, job, files, purpose>>, dec'["encode"] = e,
         pc'["encode"] \in {"coefficients", "exited"}
  PROVE  WriterReady'
  <1>1. CompressorOK'
    BY DEF CommandsOK, WriterReady, CompressorOK, Writing, NoObject
  <1> QED BY <1>1 DEF CommandsOK, WriterReady, Writing

\* The coefficients are started, at the header or behind it.
LEMMA StartingKeepsTypes ==
  ASSUME CommandsOK, NEW p \in Processes, StartReadCoefficients(p)
  PROVE  CommandsOK'
  <1> DEFINE e == StartCoefficients(dec[p])
             place == IF e.error # "none" THEN "exited" ELSE "coefficients"
  <1>1. /\ UNCHANGED <<job, files, purpose, comp, full, reduced, collection>>
        /\ pc[p] \in {"header", "coefficients"} /\ dec[p].global_state = "DSTATE_READY"
        /\ pc[p] = "header" => purpose[p] = "read"
    BY DEF StartReadCoefficients, HeaderRead
  <1>2. dec' = [dec EXCEPT ![p] = e] /\ pc' = [pc EXCEPT ![p] = place]
    BY Zenon DEF StartReadCoefficients, Go, SetDec
  <1>3. IsDecompress(dec[p]) /\ dec[p].error = "none" /\ dec[p].file \in DOMAIN files
    BY <1>1, ObjectBeingRead
  <1>4. /\ IsDecompress(e) /\ Keeps(dec[p], e)
        /\ e.error = "none" => e.global_state = "DSTATE_RDCOEFS"
    BY <1>1, <1>3, CoefficientsAreStarted
  <1> HIDE DEF e
  <1>5. e # NoObject /\ e.file \in DOMAIN files /\ DOMAIN e.comp_info = DOMAIN dec[p].comp_info
    <2>1. dec[p].saw_SOF
      BY <1>1, <1>3 DEF IsDecompress, FrameOK
    <2>2. e.global_state # "none"
      BY <1>4 DEF IsDecompress, StateOK
    <2> QED BY <1>3, <1>4, <2>1, <2>2 DEF Keeps, SameSource, NoObject
  <1>6. place \in {"exited", "coefficients"} /\ (place = "coefficients" => e.error = "none")
    OBVIOUS
  <1> HIDE DEF place
  <1>7. ProcessesOK'
    BY <1>1, <1>2, <1>6 DEF CommandsOK, ProcessesOK, Processes, Running
  <1>8. ReadersReady'
    BY <1>1, <1>2, <1>4, <1>5, <1>6, OneReaderMoves DEF CommandsOK
  <1>9. DOMAIN pc = Processes /\ DOMAIN dec = Processes
    BY DEF CommandsOK, ProcessesOK, ReadersReady
  <1>10. WriterReady'
    <2>1. CASE p = "encode" /\ Writing
      <3>1. dec'["encode"] = e /\ pc'["encode"] = place
        BY <1>2, <1>9, <2>1
      <3> QED BY <1>1, <1>5, <1>6, <2>1, <3>1, CoverReadsOn
    <2>2. CASE p = "encode" /\ ~Writing
      <3>1. pc'["encode"] = place /\ purpose'["encode"] # "write"
        BY <1>1, <1>2, <1>9, <2>2 DEF Writing
      <3> QED BY <1>1, <1>6, <3>1, NothingIsWritten DEF CommandsOK, Writing
    <2>3. CASE p # "encode"
      <3>1. pc'["encode"] = pc["encode"] /\ dec'["encode"] = dec["encode"]
        BY <1>2, <1>9, <2>3
      <3> QED BY <1>1, <3>1, DecodingWritesNothing DEF CommandsOK
    <2> QED BY <2>1, <2>2, <2>3
  <1> QED BY <1>1, <1>7, <1>8, <1>10, TheRestStays DEF CommandsOK

\* An image that ends is still one.
LEMMA StoppingIsAnObject ==
  ASSUME NEW d, IsDecompress(d), d.global_state = "DSTATE_RDCOEFS",
         NEW e, e = [d EXCEPT !.global_state = "DSTATE_STOPPING"]
  PROVE  /\ IsDecompress(e) /\ SameSource(d, e) /\ e.comp_info = d.comp_info /\ e.error = d.error
         /\ e.global_state = "DSTATE_STOPPING" /\ e.eoi_reached = d.eoi_reached /\ e.warned = d.warned
         /\ e.saw_SOF = d.saw_SOF /\ e.coef_arrays = d.coef_arrays
  <1>1. /\ DOMAIN e = DOMAIN d /\ e.global_state = "DSTATE_STOPPING" /\ e.coef_arrays = d.coef_arrays
        /\ SameSource(d, e) /\ SameTables(d, e) /\ SameFrame(d, e) /\ SameScan(d, e)
    BY DEF IsDecompress, jpeg_decompress_struct, SameSource, SameTables, SameFrame, SameScan
  <1>2. /\ e.error = d.error /\ e.inheaders = d.inheaders
        /\ e.saw_SOF = d.saw_SOF /\ e.saw_SOI = d.saw_SOI /\ e.start_of_file = d.start_of_file
        /\ e.eoi_reached = d.eoi_reached /\ e.warned = d.warned /\ e.consume_input = d.consume_input
        /\ e.has_multiple_scans = d.has_multiple_scans /\ e.insufficient_data = d.insufficient_data
        /\ e.saw_JFIF_marker = d.saw_JFIF_marker /\ e.Adobe_transform = d.Adobe_transform
    BY DEF IsDecompress, jpeg_decompress_struct
  <1>3. StateOK(e)
    BY <1>1, <1>2 DEF IsDecompress, StateOK
  <1>4. FrameOK(e)
    BY <1>1, <1>2 DEF IsDecompress, FrameOK, SameFrame
  <1>5. ArraysOK(e)
    BY <1>1, <1>2 DEF IsDecompress, ArraysOK, SameFrame
  <1>6. SourceOK(e) /\ TablesOK(e) /\ ScanOK(e)
    BY <1>1, <1>2, PartsOfAnObject DEF SameFrame
  <1> QED BY <1>1, <1>2, <1>3, <1>4, <1>5, <1>6 DEF IsDecompress, SameFrame

\* The coefficients are read, until the image ends.
LEMMA ReadingKeepsTypes ==
  ASSUME CommandsOK, NEW p \in Processes, ReadCoefficients(p)
  PROVE  CommandsOK'
  <1> DEFINE r == ConsumeInput(dec[p], files[dec[p].file])
             e == IF r.eoi_reached THEN [r EXCEPT !.global_state = "DSTATE_STOPPING"] ELSE r
             place == IF r.error # "none" THEN "exited" ELSE "coefficients"
  <1>1. /\ UNCHANGED <<job, files, purpose, comp, full, reduced, collection>>
        /\ pc[p] = "coefficients" /\ dec[p].global_state = "DSTATE_RDCOEFS"
    BY DEF ReadCoefficients
  <1>2. dec' = [dec EXCEPT ![p] = e] /\ pc' = [pc EXCEPT ![p] = place]
    BY Zenon DEF ReadCoefficients, Go, SetDec
  <1>3. IsDecompress(dec[p]) /\ dec[p].error = "none" /\ dec[p].file \in DOMAIN files
    BY <1>1, ObjectBeingRead
  <1>4. IsDecompress(r) /\ Advances(dec[p], r)
    BY <1>1, ObjectBeingRead, InputIsConsumed
  <1> HIDE DEF r
  <1>5. dec[p].saw_SOF
    BY <1>1, <1>3 DEF IsDecompress, FrameOK
  <1>6. /\ r.global_state = "DSTATE_RDCOEFS" /\ r.file = dec[p].file
        /\ DOMAIN r.comp_info = DOMAIN dec[p].comp_info
    BY <1>1, <1>4, <1>5 DEF Advances
  <1>7. /\ IsDecompress(e) /\ e.file = r.file /\ e.comp_info = r.comp_info /\ e.error = r.error
        /\ e.global_state \in {"DSTATE_RDCOEFS", "DSTATE_STOPPING"}
    <2>1. CASE r.eoi_reached
      BY <1>4, <1>6, <2>1, StoppingIsAnObject DEF SameSource
    <2>2. CASE ~r.eoi_reached
      BY <1>4, <1>6, <2>2
    <2> QED BY <2>1, <2>2
  <1> HIDE DEF e
  <1>8. e # NoObject /\ e.file \in DOMAIN files /\ DOMAIN e.comp_info = DOMAIN dec[p].comp_info
    BY <1>3, <1>6, <1>7 DEF NoObject
  <1>9. place \in {"exited", "coefficients"} /\ (place = "coefficients" => e.error = "none")
    BY <1>7
  <1> HIDE DEF place
  <1>10. ProcessesOK'
    BY <1>1, <1>2, <1>9 DEF CommandsOK, ProcessesOK, Processes, Running
  <1>11. ReadersReady'
    BY <1>1, <1>2, <1>7, <1>8, <1>9, OneReaderMoves DEF CommandsOK
  <1>12. DOMAIN pc = Processes /\ DOMAIN dec = Processes
    BY DEF CommandsOK, ProcessesOK, ReadersReady
  <1>13. WriterReady'
    <2>1. CASE p = "encode" /\ Writing
      <3>1. dec'["encode"] = e /\ pc'["encode"] = place
        BY <1>2, <1>12, <2>1
      <3> QED BY <1>1, <1>8, <1>9, <2>1, <3>1, CoverReadsOn
    <2>2. CASE p = "encode" /\ ~Writing
      <3>1. pc'["encode"] = place /\ purpose'["encode"] # "write"
        BY <1>1, <1>2, <1>12, <2>2 DEF Writing
      <3> QED BY <1>1, <1>9, <3>1, NothingIsWritten DEF CommandsOK, Writing
    <2>3. CASE p # "encode"
      <3>1. pc'["encode"] = pc["encode"] /\ dec'["encode"] = dec["encode"]
        BY <1>2, <1>12, <2>3
      <3> QED BY <1>1, <3>1, DecodingWritesNothing DEF CommandsOK
    <2> QED BY <2>1, <2>2, <2>3
  <1> QED BY <1>1, <1>10, <1>11, <1>13, TheRestStays DEF CommandsOK

\* What is read of a first component is a row each.
LEMMA ArraysAreRows ==
  ASSUME NEW d, IsDecompress(d), d.error = "none", d.global_state = "DSTATE_STOPPING"
  PROVE  /\ 1 \in DOMAIN d.coef_arrays /\ DOMAIN d.coef_arrays = DOMAIN d.comp_info
         /\ \A ci \in DOMAIN d.coef_arrays : \A r \in Rows : IsContent(d.coef_arrays[ci][r])
         /\ \A ci \in DOMAIN d.coef_arrays : d.coef_arrays[ci] = [r \in Rows |-> d.coef_arrays[ci][r]]
  <1> DEFINE Component == [component_id : Nat, quant_tbl_no : Nat, MCU_blocks : Nat,
                           dc_tbl_no : Nat, ac_tbl_no : Nat, quant_table : Nat]
  <1>1. d.saw_SOF /\ d.comp_info # << >> /\ d.comp_info \in Seq(Component)
    BY DEF IsDecompress, FrameOK
  <1> HIDE DEF Component
  <1>2. Len(d.comp_info) \in Nat /\ DOMAIN d.comp_info = 1 .. Len(d.comp_info) /\ Len(d.comp_info) # 0
    BY <1>1, SequenceOfASet, EmptySeq
  <1>3. 1 \in DOMAIN d.comp_info
    BY <1>2
  <1> QED BY <1>3 DEF IsDecompress, ArraysOK

\* The first component is loaded, and the store destroyed.
LEMMA LoadingKeepsTypes ==
  ASSUME CommandsOK, NEW p \in Processes, LoadDCT_Coefficients(p)
  PROVE  CommandsOK'
  <1> DEFINE place == IF p = "encode" THEN "open" ELSE "derive"
             goal == IF p = "encode" THEN "full" ELSE purpose[p]
  <1>1. /\ UNCHANGED <<job, files, comp, full, reduced>>
        /\ pc[p] = "coefficients" /\ purpose[p] = "read" /\ dec[p].global_state = "DSTATE_STOPPING"
        /\ collection' = [collection EXCEPT ![p] = dec[p].coef_arrays[1]]
    BY DEF LoadDCT_Coefficients, Loaded
  <1>2. /\ dec' = [dec EXCEPT ![p] = NoObject] /\ pc' = [pc EXCEPT ![p] = place]
        /\ p = "encode" => purpose' = [purpose EXCEPT ![p] = "full"]
        /\ p # "encode" => purpose' = purpose
    BY DEF LoadDCT_Coefficients, Loaded, Go, SetDec
  <1>3. place \in {"open", "derive"} /\ (p = "encode" => place = "open")
    OBVIOUS
  <1> HIDE DEF place
  <1>4. IsDecompress(dec[p]) /\ dec[p].error = "none"
    BY <1>1, ObjectBeingRead
  <1>5. \A r \in Rows : IsContent(dec[p].coef_arrays[1][r])
    BY <1>1, <1>4, ArraysAreRows
  <1>6. ProcessesOK'
    BY <1>1, <1>2, <1>3 DEF CommandsOK, ProcessesOK, Processes, Running
  <1>7. ReadersReady'
    BY <1>1, <1>2, <1>3, OneReaderMoves DEF CommandsOK
  <1>8. /\ DOMAIN pc = Processes /\ DOMAIN dec = Processes /\ DOMAIN purpose = Processes
        /\ DOMAIN collection = Processes
    BY DEF CommandsOK, ProcessesOK, ReadersReady, RowsCollected
  <1>9. WriterReady'
    <2>1. CASE p = "encode"
      <3>1. pc'["encode"] = "open"
        BY <1>2, <1>3, <1>8, <2>1
      <3> QED BY <1>1, <3>1, NothingIsWritten DEF CommandsOK, Writing
    <2>2. CASE p # "encode"
      <3>1. pc'["encode"] = pc["encode"] /\ dec'["encode"] = dec["encode"]
            /\ purpose'["encode"] = purpose["encode"]
        BY <1>2, <1>8, <2>2
      <3> QED BY <1>1, <3>1, DecodingWritesNothing DEF CommandsOK
    <2> QED BY <2>1, <2>2
  <1>10. RowsCollected'
    <2>1. collection' \in [Processes -> {collection'[q] : q \in Processes}]
      <3>1. collection' = [q \in Processes |-> IF q = p THEN dec[p].coef_arrays[1] ELSE collection[q]]
        BY <1>1, <1>8
      <3> QED BY <3>1
    <2>2. CASE p = "encode"
      <3>1. collection'["encode"] = dec[p].coef_arrays[1]
        BY <1>1, <1>8, <2>2
      <3> QED BY <1>5, <2>1, <3>1 DEF RowsCollected
    <2>3. CASE p # "encode"
      <3>1. collection'["encode"] = collection["encode"] /\ purpose'["encode"] = purpose["encode"]
        BY <1>1, <1>2, <1>8, <2>3
      <3> QED BY <2>1, <3>1 DEF RowsCollected, CommandsOK
    <2> QED BY <2>2, <2>3
  <1> QED BY <1>1, <1>6, <1>7, <1>9, <1>10, TheRestStays DEF CommandsOK

\* The encoder is done with its object.
LEMMA EncoderLetsGo ==
  ASSUME CommandsOK, NEW place, place \in {"open", "derive"}, place = "derive" => purpose'["encode"] = "reduced",
         pc' = [pc EXCEPT !["encode"] = place], dec' = [dec EXCEPT !["encode"] = NoObject],
         purpose' = purpose \/ purpose' = [purpose EXCEPT !["encode"] = "reduced"],
         UNCHANGED comp, DOMAIN files \subseteq DOMAIN files'
  PROVE  ProcessesOK' /\ ReadersReady' /\ WriterReady' /\ purpose'["decode"] = purpose["decode"]
  <1>1. "encode" \in Processes /\ DOMAIN pc = Processes /\ DOMAIN purpose = Processes
    BY DEF CommandsOK, ProcessesOK, Processes
  <1>2. ProcessesOK' /\ purpose'["decode"] = purpose["decode"]
    BY <1>1 DEF CommandsOK, ProcessesOK, Processes, Running
  <1>3. ReadersReady'
    BY <1>1, OneReaderMoves DEF CommandsOK
  <1>4. pc'["encode"] = place
    BY <1>1
  <1>5. WriterReady'
    BY <1>4, NothingIsWritten DEF CommandsOK, Writing
  <1> QED BY <1>2, <1>3, <1>5

\* The tables of the header are taken.
LEMMA TablesKeepTypes ==
  ASSUME CommandsOK, AquireExistingTables
  PROVE  CommandsOK'
  <1>1. /\ UNCHANGED <<job, files, comp, collection>> /\ pc["encode"] = "header"
        /\ purpose["encode"] \in {"full", "reduced"}
        /\ dec' = [dec EXCEPT !["encode"] = NoObject]
    BY DEF AquireExistingTables, HeaderRead, SetDec
  <1>2. \/ /\ full' = dec["encode"].quant_tbl_ptrs /\ reduced' = reduced
           /\ purpose' = [purpose EXCEPT !["encode"] = "reduced"]
           /\ pc' = [pc EXCEPT !["encode"] = "open"]
        \/ /\ reduced' = dec["encode"].quant_tbl_ptrs /\ full' = full /\ purpose' = purpose
           /\ pc' = [pc EXCEPT !["encode"] = "derive"] /\ purpose["encode"] = "reduced"
    BY <1>1 DEF AquireExistingTables, Go
  <1>3. dec["encode"].quant_tbl_ptrs \in [QuantSlots -> Nat]
    <2>1. IsDecompress(dec["encode"])
      BY <1>1, ObjectBeingRead DEF Processes
    <2> QED BY <2>1 DEF IsDecompress, TablesOK
  <1>4. StepsOK'
    BY <1>2, <1>3 DEF StepsOK, CommandsOK
  <1>5. ProcessesOK' /\ ReadersReady' /\ WriterReady' /\ purpose'["decode"] = purpose["decode"]
    <2>1. "encode" \in DOMAIN purpose
      BY DEF CommandsOK, ProcessesOK, Processes
    <2> QED BY <1>1, <1>2, <2>1, EncoderLetsGo
  <1>6. RowsCollected'
    BY <1>1, <1>2 DEF CommandsOK, RowsCollected
  <1> QED BY <1>1, <1>4, <1>5, <1>6, TheRestStays DEF CommandsOK

\* A file that is opened for writing is there, and empty.
LEMMA TruncatedFiles ==
  ASSUME FilesOK, NEW name \in {Temp, job.stego}, files' = Truncate(name), UNCHANGED job
  PROVE  /\ FilesOK' /\ DOMAIN files' = DOMAIN files \cup {name} /\ files'[name] = << >>
         /\ \A n \in DOMAIN files : n # name => files'[n] = files[n]
  <1>1. /\ DOMAIN files' = DOMAIN files \cup {name} /\ files'[name] = << >>
        /\ \A n \in DOMAIN files : n # name => files'[n] = files[n]
    BY DEF Truncate
  <1>2. IsStream(<< >>)
    <2>1. IsUnit(EOI)
      BY DEF IsUnit, EOI
    <2> QED BY <2>1, ShortStreams
  <1>3. \A n \in DOMAIN files' : IsStream(files'[n])
    BY <1>1, <1>2 DEF FilesOK
  <1> QED BY <1>1, <1>3 DEF FilesOK

\* A step that ends the encoder, and writes no coefficient.
LEMMA EncoderEnds ==
  ASSUME CommandsOK, NEW place, place \in {"aborted", "exited", "crashed", "refused", "embedded"},
         pc' = [pc EXCEPT !["encode"] = place], UNCHANGED <<dec, purpose>>,
         comp' = NoObject \/ IsCompress(comp'), comp'.error # "JERR_BAD_STATE",
         DOMAIN files \subseteq DOMAIN files'
  PROVE  ProcessesOK' /\ ReadersReady' /\ WriterReady'
  <1>1. "encode" \in Processes /\ DOMAIN pc = Processes
    BY DEF CommandsOK, ProcessesOK, Processes
  <1>2. ProcessesOK'
    BY <1>1 DEF CommandsOK, ProcessesOK, Processes, Running
  <1>3. ReadersReady'
    BY <1>1, OneReaderGoes DEF CommandsOK
  <1>4. pc'["encode"] = place
    BY <1>1
  <1>5. CompressorOK'
    BY <1>4 DEF CompressorOK, NoObject
  <1>6. WriterReady'
    BY <1>4, <1>5 DEF WriterReady, Writing
  <1> QED BY <1>2, <1>3, <1>6

\* The tables of a quality are taken.
LEMMA QualityKeepsTypes ==
  ASSUME CommandsOK, AquireTablesOfQuality
  PROVE  CommandsOK'
  <1> DEFINE c == jpeg_copy_critical_parameters(dec["encode"], CreateCompress(Temp))
             tables == jpeg_set_quality(c, job.quality, TRUE).quant_tbl_ptrs
  <1>1. UNCHANGED <<job, purpose, comp, full, collection>> /\ pc["encode"] = "header"
        /\ purpose["encode"] = "reduced"
    BY DEF AquireTablesOfQuality, AquireTablesFrom, HeaderRead
  <1>2. \/ pc' = [pc EXCEPT !["encode"] = "aborted"] /\ UNCHANGED <<files, dec, reduced>>
        \/ /\ files' = Truncate(Temp)
           /\ IF c.error # "none"
              THEN pc' = [pc EXCEPT !["encode"] = "exited"] /\ UNCHANGED <<dec, reduced>>
              ELSE /\ reduced' = tables /\ dec' = [dec EXCEPT !["encode"] = NoObject]
                   /\ pc' = [pc EXCEPT !["encode"] = "derive"]
    BY Zenon DEF AquireTablesOfQuality, AquireTablesFrom, Go, SetDec
  <1>3. IsCompress(c)
    <2>1. IsDecompress(dec["encode"])
      BY <1>1, ObjectBeingRead DEF Processes
    <2> QED BY <2>1, WriterIsCreated, ParametersAreCopied
  <1>4. job.quality \in Int
    <2>1. \A j \in Jobs : j.quality \in Int
      BY JobsAssumption, Zenon
    <2> QED BY <2>1 DEF CommandsOK, FilesOK
  <1> HIDE DEF c
  <1>5. tables \in [QuantSlots -> Nat]
    BY <1>3, <1>4, QualityIsSet DEF IsCompress, ParametersOK
  <1> HIDE DEF tables
  <1>6. FilesOK' /\ DOMAIN files \subseteq DOMAIN files'
    BY <1>1, <1>2, TheRestStays, TruncatedFiles DEF CommandsOK
  <1>7. StepsOK'
    BY <1>1, <1>2, <1>5 DEF StepsOK, CommandsOK
  <1>8. comp = NoObject \/ IsCompress(comp)
    BY DEF CommandsOK, WriterReady, CompressorOK
  <1>9. comp.error # "JERR_BAD_STATE"
    BY DEF CommandsOK, WriterReady
  <1>10. ProcessesOK' /\ ReadersReady' /\ WriterReady'
    BY <1>1, <1>2, <1>6, <1>8, <1>9, EncoderLetsGo, EncoderEnds
  <1> QED BY <1>1, <1>6, <1>7, <1>10, TheRestStays DEF CommandsOK

\* The message is injected, or not.
LEMMA InjectingKeepsTypes ==
  ASSUME CommandsOK, Inject
  PROVE  CommandsOK'
  <1>1. UNCHANGED <<job, files, dec, comp, full, reduced, collection>> /\ pc["encode"] = "derive"
    BY DEF Inject
  <1>2. \/ /\ pc' = [pc EXCEPT !["encode"] = "crashed"] \/ pc' = [pc EXCEPT !["encode"] = "refused"]
           /\ purpose' = purpose
        \/ pc' = [pc EXCEPT !["encode"] = "open"] /\ purpose' = [purpose EXCEPT !["encode"] = "write"]
    BY DEF Inject, Go
  <1>3. "encode" \in Processes /\ DOMAIN pc = Processes /\ DOMAIN purpose = Processes
    BY DEF CommandsOK, ProcessesOK, Processes
  <1>4. PICK place \in {"crashed", "refused", "open"} : pc' = [pc EXCEPT !["encode"] = place]
    BY <1>2
  <1>5. ProcessesOK'
    BY <1>2, <1>3 DEF CommandsOK, ProcessesOK, Processes, Running
  <1>6. ReadersReady'
    BY <1>1, <1>3, <1>4, OneReaderGoes DEF CommandsOK
  <1>7. pc'["encode"] = place
    BY <1>3, <1>4
  <1>8. WriterReady'
    BY <1>1, <1>7, NothingIsWritten DEF CommandsOK, Writing
  <1>9. RowsCollected'
    <2>1. collection' \in [Processes -> {collection'[p] : p \in Processes}]
      BY <1>1 DEF CommandsOK, RowsCollected
    <2>2. CASE purpose' = purpose
      BY <1>1, <2>2, TheRestStays
    <2>3. CASE pc' = [pc EXCEPT !["encode"] = "open"] /\ purpose' = [purpose EXCEPT !["encode"] = "write"]
      <3>1. purpose["encode"] # "read"
        BY <1>1 DEF CommandsOK, ProcessesOK
      <3> QED BY <1>1, <2>1, <3>1 DEF CommandsOK, RowsCollected
    <2> QED BY <1>2, <2>2, <2>3
  <1> QED BY <1>1, <1>5, <1>6, <1>8, <1>9, TheRestStays DEF CommandsOK

\* The message is retrieved.
LEMMA RetrievingKeepsTypes ==
  ASSUME CommandsOK, Retrieve
  PROVE  CommandsOK'
  <1> DEFINE place == IF job.matrices = 0 THEN "crashed" ELSE "retrieved"
  <1>1. UNCHANGED <<job, files, purpose, dec, comp, full, reduced, collection>>
        /\ pc' = [pc EXCEPT !["decode"] = place]
    BY DEF Retrieve, Go
  <1>2. place \in {"crashed", "retrieved"}
    OBVIOUS
  <1> HIDE DEF place
  <1>3. "decode" \in Processes /\ DOMAIN pc = Processes
    BY DEF CommandsOK, ProcessesOK, Processes
  <1>4. ProcessesOK'
    BY <1>1, <1>2, <1>3 DEF CommandsOK, ProcessesOK, Processes, Running
  <1>5. ReadersReady'
    BY <1>1, <1>2, <1>3, OneReaderGoes DEF CommandsOK
  <1>6. pc'["encode"] = pc["encode"]
    BY <1>1, <1>3
  <1>7. WriterReady'
    BY <1>1, <1>6, DecodingWritesNothing DEF CommandsOK
  <1> QED BY <1>1, <1>4, <1>5, <1>7, TheRestStays DEF CommandsOK

\* A slot gets another table.
LEMMA SlotIsSet ==
  ASSUME NEW c, IsCompress(c), NEW t \in Nat, NEW e, e = [c EXCEPT !.quant_tbl_ptrs[0] = t]
  PROVE  IsCompress(e) /\ SameWriter(c, e) /\ e.comp_info = c.comp_info
  <1>1. c.quant_tbl_ptrs \in [QuantSlots -> Nat]
    BY DEF IsCompress, ParametersOK
  <1> DEFINE tables == [c.quant_tbl_ptrs EXCEPT ![0] = t]
  <1>2. tables \in [QuantSlots -> Nat]
    BY <1>1
  <1>3. e = [c EXCEPT !.quant_tbl_ptrs = tables]
    OBVIOUS
  <1> HIDE DEF tables
  <1>4. /\ DOMAIN e = DOMAIN c /\ SameWriter(c, e) /\ e.quant_tbl_ptrs = tables
        /\ e.comp_info = c.comp_info /\ e.huff_tbl_ptrs = c.huff_tbl_ptrs
        /\ e.restart_interval = c.restart_interval /\ e.Adobe_transform = c.Adobe_transform
        /\ e.jpeg_color_space = c.jpeg_color_space
    BY <1>3, FieldsOfAWriter DEF SameWriter
  <1>5. WriterOK(e)
    BY <1>4, PartsOfAWriter
  <1>6. ParametersOK(e)
    BY <1>2, <1>4 DEF IsCompress, ParametersOK
  <1> QED BY <1>4, <1>5, <1>6 DEF IsCompress

\* The stego image is opened for writing.
LEMMA CompressionKeepsTypes ==
  ASSUME CommandsOK, CompressionStarter
  PROVE  CommandsOK'
  <1> DEFINE c == jpeg_copy_critical_parameters(dec["encode"], CreateCompress(job.stego))
             e == [c EXCEPT !.quant_tbl_ptrs[0] = reduced[0]]
  <1>1. /\ UNCHANGED <<job, purpose, dec, full, reduced, collection>> /\ pc["encode"] = "header"
        /\ purpose["encode"] = "write" /\ dec["encode"].global_state = "DSTATE_READY"
    BY DEF CompressionStarter, StartWith, HeaderRead
  <1>2. \/ pc' = [pc EXCEPT !["encode"] = "aborted"] /\ UNCHANGED <<files, comp>>
        \/ /\ files' = Truncate(job.stego)
           /\ IF c.error # "none" THEN comp' = c /\ pc' = [pc EXCEPT !["encode"] = "exited"]
              ELSE comp' = e /\ pc' = [pc EXCEPT !["encode"] = "coefficients"]
    BY Zenon DEF CompressionStarter, StartWith, Go
  <1>3. IsDecompress(dec["encode"]) /\ dec["encode"].error = "none" /\ dec["encode"] # NoObject
    BY <1>1, ObjectBeingRead DEF Processes
  <1>4. /\ IsCompress(c) /\ c.error # "JERR_BAD_STATE" /\ c.global_state = "CSTATE_START"
        /\ c.error = "none" => DOMAIN c.comp_info = DOMAIN dec["encode"].comp_info
    BY <1>3, WriterIsCreated, ParametersAreCopied
  <1> HIDE DEF c
  <1>5. /\ IsCompress(e) /\ e.error = c.error /\ e.global_state = "CSTATE_START"
        /\ e.comp_info = c.comp_info
    <2>1. reduced[0] \in Nat
      BY DefaultSlots DEF CommandsOK, StepsOK
    <2> QED BY <1>4, <2>1, SlotIsSet DEF SameWriter
  <1> HIDE DEF e
  <1>6. /\ FilesOK' /\ DOMAIN files \subseteq DOMAIN files'
        /\ files' = Truncate(job.stego) => job.stego \in DOMAIN files'
    <2>1. CASE files' = files
      <3>1. files' = Truncate(job.stego) => DOMAIN files' = DOMAIN files \cup {job.stego}
        BY DEF Truncate
      <3> QED BY <1>1, <2>1, <3>1, TheRestStays
    <2>2. CASE files' = Truncate(job.stego)
      BY <1>1, <2>2, TruncatedFiles DEF CommandsOK
    <2> QED BY <1>2, <2>1, <2>2
  <1>7. comp = NoObject \/ IsCompress(comp)
    BY DEF CommandsOK, WriterReady, CompressorOK
  <1>8. comp.error # "JERR_BAD_STATE"
    BY DEF CommandsOK, WriterReady
  <1>9. ProcessesOK' /\ ReadersReady' /\ WriterReady'
    <2>1. CASE pc' = [pc EXCEPT !["encode"] = "aborted"] /\ UNCHANGED <<files, comp>>
      BY <1>1, <1>6, <1>7, <1>8, <2>1, EncoderEnds
    <2>2. CASE comp' = c /\ pc' = [pc EXCEPT !["encode"] = "exited"]
      BY <1>1, <1>4, <1>6, <2>2, EncoderEnds
    <2>3. CASE /\ files' = Truncate(job.stego) /\ c.error = "none"
               /\ comp' = e /\ pc' = [pc EXCEPT !["encode"] = "coefficients"]
      <3>1. "encode" \in Processes /\ DOMAIN pc = Processes
        BY DEF CommandsOK, ProcessesOK, Processes
      <3>2. ProcessesOK'
        BY <1>1, <2>3, <3>1 DEF CommandsOK, ProcessesOK, Processes, Running
      <3>3. dec' = [dec EXCEPT !["encode"] = dec["encode"]]
        BY <1>1 DEF CommandsOK, ReadersReady
      <3>4. dec["encode"].file \in DOMAIN files
        BY <1>1, <3>1, ObjectBeingRead
      <3>5. ReadersReady'
        BY <1>1, <1>3, <1>6, <2>3, <3>1, <3>3, <3>4, OneReaderMoves DEF CommandsOK
      <3>6. pc'["encode"] = "coefficients" /\ comp' # NoObject
        BY <1>5, <2>3, <3>1 DEF NoObject
      <3>7. CompressorOK'
        BY <1>1, <1>4, <1>5, <1>6, <2>3, <3>6 DEF CompressorOK, NoObject
      <3>8. WriterReady'
        BY <1>1, <1>4, <1>5, <2>3, <3>6, <3>7 DEF WriterReady, Writing
      <3> QED BY <3>2, <3>5, <3>8
    <2> QED BY <1>2, <2>1, <2>2, <2>3
  <1> QED BY <1>1, <1>6, <1>9, TheRestStays DEF CommandsOK

\* The first component becomes the wet coefficients.
LEMMA ArraysAreReplaced ==
  ASSUME NEW d, IsDecompress(d), d.error = "none", d.global_state = "DSTATE_STOPPING",
         NEW rows, rows = [r \in Rows |-> rows[r]], \A r \in Rows : IsContent(rows[r]),
         NEW e, e = [d EXCEPT !.coef_arrays[1] = rows]
  PROVE  /\ IsDecompress(e) /\ e.file = d.file /\ e.comp_info = d.comp_info /\ e.error = "none"
         /\ e.global_state = "DSTATE_STOPPING" /\ e # NoObject
  <1> DEFINE arrays == [d.coef_arrays EXCEPT ![1] = rows]
  <1>1. /\ 1 \in DOMAIN d.coef_arrays /\ DOMAIN d.coef_arrays = DOMAIN d.comp_info
        /\ \A ci \in DOMAIN d.coef_arrays : \A r \in Rows : IsContent(d.coef_arrays[ci][r])
        /\ \A ci \in DOMAIN d.coef_arrays : d.coef_arrays[ci] = [r \in Rows |-> d.coef_arrays[ci][r]]
    BY ArraysAreRows
  <1>2. /\ DOMAIN arrays = DOMAIN d.comp_info
        /\ \A ci \in DOMAIN arrays : arrays[ci] = [r \in Rows |-> arrays[ci][r]] /\ \A r \in Rows : IsContent(arrays[ci][r])
    <2>1. \A ci \in DOMAIN arrays : arrays[ci] = rows \/ arrays[ci] = d.coef_arrays[ci]
      OBVIOUS
    <2> QED BY <1>1, <2>1
  <1>3. e = [d EXCEPT !.coef_arrays = arrays]
    OBVIOUS
  <1> HIDE DEF arrays
  <1>4. /\ DOMAIN e = DOMAIN d /\ e.coef_arrays = arrays /\ e.global_state = d.global_state
        /\ SameSource(d, e) /\ SameTables(d, e) /\ SameFrame(d, e) /\ SameScan(d, e)
    BY <1>3 DEF IsDecompress, jpeg_decompress_struct, SameSource, SameTables, SameFrame, SameScan
  <1>5. /\ e.error = d.error /\ e.inheaders = d.inheaders
        /\ e.saw_SOF = d.saw_SOF /\ e.saw_SOI = d.saw_SOI /\ e.start_of_file = d.start_of_file
        /\ e.eoi_reached = d.eoi_reached /\ e.warned = d.warned /\ e.consume_input = d.consume_input
        /\ e.has_multiple_scans = d.has_multiple_scans /\ e.insufficient_data = d.insufficient_data
        /\ e.saw_JFIF_marker = d.saw_JFIF_marker /\ e.Adobe_transform = d.Adobe_transform
    BY <1>3 DEF IsDecompress, jpeg_decompress_struct
  <1>6. StateOK(e)
    BY <1>4, <1>5 DEF IsDecompress, StateOK
  <1>7. FrameOK(e)
    BY <1>4, <1>5 DEF IsDecompress, FrameOK, SameFrame
  <1>8. ArraysOK(e)
    BY <1>2, <1>4, <1>5 DEF ArraysOK, SameFrame
  <1>9. SourceOK(e) /\ TablesOK(e) /\ ScanOK(e)
    BY <1>4, <1>5, PartsOfAnObject DEF SameFrame
  <1> QED BY <1>4, <1>5, <1>6, <1>7, <1>8, <1>9 DEF IsDecompress, SameFrame, SameSource, NoObject

\* The arrays are handed over, and the writer starts.
LEMMA SavingKeepsTypes ==
  ASSUME CommandsOK, SaveDCT_Coefficients
  PROVE  CommandsOK'
  <1> DEFINE rows == [r \in Rows |-> Wet(collection["encode"][r])]
             e == [dec["encode"] EXCEPT !.coef_arrays[1] = rows]
             c == jpeg_write_coefficients(comp)
  <1>1. /\ UNCHANGED <<job, files, purpose, full, reduced, collection>>
        /\ Writing /\ dec["encode"].global_state = "DSTATE_STOPPING"
        /\ dec' = [dec EXCEPT !["encode"] = e] /\ comp' = c
        /\ pc' = [pc EXCEPT !["encode"] = IF comp'.error # "none" THEN "exited" ELSE "compress"]
    BY Zenon DEF SaveDCT_Coefficients, SetDec, Go, Writing
  <1>2. /\ IsDecompress(dec["encode"]) /\ dec["encode"].error = "none" /\ dec["encode"] # NoObject
        /\ dec["encode"].file \in DOMAIN files
    BY <1>1, ObjectBeingRead DEF Processes, Writing
  <1>3. \A r \in Rows : IsContent(rows[r])
    <2>1. \A r \in Rows : IsContent(collection["encode"][r])
      BY <1>1 DEF CommandsOK, RowsCollected, Writing
    <2>2. full[0] \in Nat /\ reduced[0] \in Nat
      BY DefaultSlots DEF CommandsOK, StepsOK
    <2>3. ASSUME NEW r \in Rows
          PROVE  IsContent(Wet(collection["encode"][r]))
      <3> DEFINE old == collection["encode"][r]
      <3>1. IsContent(old)
        BY <2>1
      <3> HIDE DEF old
      <3>2. Wet(old) = [pieces |-> old.pieces, full |-> full[0], reduced |-> reduced[0]]
        <4>1. PICK pieces, f, r2 : old = [pieces |-> pieces, full |-> f, reduced |-> r2] /\ pieces = old.pieces
          BY <3>1, Zenon DEF IsContent
        <4> DEFINE new == Wet(old)
        <4>2. new = [old EXCEPT !.full = full[0], !.reduced = reduced[0]]
          BY DEF Wet
        <4> HIDE DEF new
        <4>3. new = [pieces |-> pieces, full |-> full[0], reduced |-> reduced[0]]
          BY <4>1, <4>2
        <4> QED BY <4>1, <4>3 DEF new
      <3> QED BY <2>2, <3>2 DEF IsContent, old
    <2> QED BY <2>3
  <1>4. rows = [r \in Rows |-> rows[r]]
    OBVIOUS
  <1> HIDE DEF rows
  <1>5. /\ IsDecompress(e) /\ e.file = dec["encode"].file /\ e.comp_info = dec["encode"].comp_info
        /\ e.error = "none" /\ e.global_state = "DSTATE_STOPPING" /\ e # NoObject
    BY <1>1, <1>2, <1>3, <1>4, ArraysAreReplaced
  <1> HIDE DEF e
  <1>6. /\ IsCompress(comp) /\ comp.error = "none" /\ comp.global_state = "CSTATE_START"
        /\ DOMAIN comp.comp_info = DOMAIN dec["encode"].comp_info /\ job.stego \in DOMAIN files
    BY <1>1 DEF CommandsOK, WriterReady, CompressorOK, Writing
  <1>7. /\ IsCompress(c) /\ c.error = "none" /\ c.global_state = "CSTATE_WRCOEFS"
        /\ c.comp_info = comp.comp_info
    BY <1>6, WritingIsStarted DEF Writes
  <1> HIDE DEF c
  <1>8. pc' = [pc EXCEPT !["encode"] = "compress"]
    BY <1>1, <1>7
  <1>9. "encode" \in Processes /\ DOMAIN pc = Processes /\ DOMAIN dec = Processes
    BY DEF CommandsOK, ProcessesOK, ReadersReady, Processes
  <1>10. ProcessesOK'
    BY <1>1, <1>8, <1>9 DEF CommandsOK, ProcessesOK, Processes, Running
  <1>11. ReadersReady'
    BY <1>1, <1>2, <1>5, <1>8, <1>9, OneReaderMoves DEF CommandsOK
  <1>12. pc'["encode"] = "compress" /\ dec'["encode"] = e /\ comp' # NoObject
    BY <1>1, <1>7, <1>8, <1>9 DEF NoObject
  <1>13. CompressorOK'
    BY <1>1, <1>5, <1>6, <1>7, <1>12 DEF CompressorOK, NoObject
  <1>14. WriterReady'
    BY <1>1, <1>5, <1>7, <1>12, <1>13 DEF WriterReady, Writing
  <1> QED BY <1>1, <1>10, <1>11, <1>14, TheRestStays DEF CommandsOK

\* What leaves the buffer and what is left in it are parts of it.
LEMMA BufferIsWritten ==
  ASSUME CommandsOK, pc["encode"] = "compress", NEW c, IsCompress(c), NEW all \in BOOLEAN, Output(c, all)
  PROVE  \E size \in Nat, part \in Int :
           /\ size <= Len(c.buffer) /\ part <= size /\ (all => size = Len(c.buffer))
           /\ files' = [files EXCEPT ![job.stego] = files[job.stego] \o SubSeq(c.buffer, 1, part)]
           /\ comp' = [c EXCEPT !.buffer = SubSeq(c.buffer, size + 1, Len(c.buffer)),
                                !.error = IF part < size THEN "JERR_FILE_WRITE" ELSE c.error]
           /\ pc' = [pc EXCEPT !["encode"] =
                       IF comp'.error # "none" THEN "exited" ELSE IF all THEN "close" ELSE "compress"]
  <1> DEFINE size == Emptied(c, all)
             room == job.room - Len(files[job.stego])
             part == IF size <= room THEN size ELSE room
  <1>1. /\ files' = [files EXCEPT ![job.stego] = @ \o SubSeq(c.buffer, 1, part)]
        /\ comp' = [c EXCEPT !.buffer = SubSeq(@, size + 1, Len(@)),
                             !.error = IF part < size THEN "JERR_FILE_WRITE" ELSE @]
        /\ pc' = [pc EXCEPT !["encode"] =
                    IF comp'.error # "none" THEN "exited" ELSE IF all THEN "close" ELSE @]
    BY Zenon DEF Output
  <1>2. size \in Nat /\ size <= Len(c.buffer) /\ Len(c.buffer) \in Nat
    BY EmptiedFromTheBuffer
  <1>3. all => size = Len(c.buffer)
    BY DEF Emptied
  <1>4. job.room \in Nat
    <2>1. \A j \in Jobs : j.room \in Nat
      BY JobsAssumption, Zenon
    <2> QED BY <2>1 DEF CommandsOK, FilesOK
  <1>5. Len(files[job.stego]) \in Nat
    <2>1. IsStream(files[job.stego])
      BY DEF CommandsOK, FilesOK, WriterReady, CompressorOK
    <2> QED BY <2>1, SequenceIsOnAnInterval DEF IsStream
  <1> HIDE DEF size
  <1>6. part \in Int /\ part <= size
    BY <1>2, <1>4, <1>5
  <1> HIDE DEF part
  <1>7. /\ files' = [files EXCEPT ![job.stego] = files[job.stego] \o SubSeq(c.buffer, 1, part)]
        /\ comp' = [c EXCEPT !.buffer = SubSeq(c.buffer, size + 1, Len(c.buffer)),
                             !.error = IF part < size THEN "JERR_FILE_WRITE" ELSE c.error]
        /\ pc' = [pc EXCEPT !["encode"] =
                    IF comp'.error # "none" THEN "exited" ELSE IF all THEN "close" ELSE "compress"]
    BY <1>1
  <1> QED BY <1>2, <1>3, <1>6, <1>7

\* So they have an end of the image only if the buffer had one.
LEMMA WrittenPartsAreStreams ==
  ASSUME CommandsOK, pc["encode"] = "compress", NEW c, IsCompress(c),
         NEW size \in Nat, NEW part \in Int, size <= Len(c.buffer), part <= size,
         files' = [files EXCEPT ![job.stego] = files[job.stego] \o SubSeq(c.buffer, 1, part)],
         comp' = [c EXCEPT !.buffer = SubSeq(c.buffer, size + 1, Len(c.buffer)),
                           !.error = IF part < size THEN "JERR_FILE_WRITE" ELSE c.error],
         UNCHANGED job
  PROVE  /\ FilesOK' /\ DOMAIN files' = DOMAIN files
         /\ job.stego \in DOMAIN files /\ \A n \in DOMAIN files : n # job.stego => files'[n] = files[n]
         /\ IsCompress(comp') /\ comp' # NoObject
         /\ SameParameters(c, comp') /\ comp'.global_state = c.global_state
         /\ comp'.error \in {c.error, "JERR_FILE_WRITE"} /\ (comp'.error # c.error => part < size)
         /\ NoEnd(c.buffer) => NoEnd(comp'.buffer)
         /\ NoEnd(files[job.stego]) /\ NoEnd(SubSeq(c.buffer, 1, part)) => NoEnd(files'[job.stego])
         /\ NoEnd(c.buffer) => NoEnd(SubSeq(c.buffer, 1, part))
  <1> DEFINE sent == SubSeq(c.buffer, 1, part)
             left == SubSeq(c.buffer, size + 1, Len(c.buffer))
             code == IF part < size THEN "JERR_FILE_WRITE" ELSE c.error
  <1>1. IsStream(c.buffer) /\ Len(c.buffer) \in Nat
    BY SequenceIsOnAnInterval DEF IsCompress, WriterOK, IsStream
  <1>2. IsStream(sent) /\ (NoEnd(c.buffer) => NoEnd(sent))
    <2>1. IsStream(sent) /\ \A i \in DOMAIN sent : \E j \in DOMAIN c.buffer : sent[i] = c.buffer[j]
      <3>1. 1 \in Nat \ {0} /\ part <= Len(c.buffer)
        BY <1>1
      <3> QED BY <1>1, <3>1, PartOfAStream, ZenonT(60)
    <2> HIDE DEF sent
    <2> QED BY <2>1 DEF NoEnd
  <1>3. IsStream(left) /\ (NoEnd(c.buffer) => NoEnd(left))
    <2>1. IsStream(left) /\ \A i \in DOMAIN left : \E j \in DOMAIN c.buffer : left[i] = c.buffer[j]
      <3>1. size + 1 \in Nat \ {0} /\ Len(c.buffer) \in Int /\ Len(c.buffer) <= Len(c.buffer)
        BY <1>1
      <3> QED BY <1>1, <3>1, PartOfAStream, ZenonT(60)
    <2> HIDE DEF left
    <2> QED BY <2>1 DEF NoEnd
  <1>4. code \in WriteErrors \cup {"none"} /\ code \in {c.error, "JERR_FILE_WRITE"}
        /\ (code # c.error => part < size)
    BY DEF WriteErrors, IsCompress, WriterOK
  <1> HIDE DEF sent, left, code
  <1>5. comp' = [c EXCEPT !.buffer = left, !.error = code]
    BY DEF left, code
  <1>6. /\ DOMAIN comp' = DOMAIN c /\ SameParameters(c, comp') /\ comp'.buffer = left /\ comp'.error = code
        /\ comp'.global_state = c.global_state /\ comp'.file = c.file
        /\ comp'.write_JFIF_header = c.write_JFIF_header
        /\ comp'.is_last_pass = c.is_last_pass /\ comp'.iMCU_row_num = c.iMCU_row_num
    BY <1>5, FieldsOfAWriter DEF SameParameters
  <1>7. WriterOK(comp')
    BY <1>3, <1>4, <1>6 DEF IsCompress, WriterOK
  <1>8. ParametersOK(comp')
    BY <1>6, PartsOfAWriter
  <1>9. IsCompress(comp')
    BY <1>6, <1>7, <1>8 DEF IsCompress
  <1>10. job.stego \in DOMAIN files /\ IsStream(files[job.stego])
    BY DEF CommandsOK, FilesOK, WriterReady, CompressorOK
  <1>11. files' = [files EXCEPT ![job.stego] = files[job.stego] \o sent]
    BY DEF sent
  <1>12. IsStream(files[job.stego] \o sent)
         /\ (NoEnd(files[job.stego]) /\ NoEnd(sent) => NoEnd(files[job.stego] \o sent))
    BY <1>2, <1>10, NoEndOfBoth
  <1>13. /\ DOMAIN files' = DOMAIN files /\ files'[job.stego] = files[job.stego] \o sent
         /\ \A n \in DOMAIN files : n # job.stego => files'[n] = files[n]
    BY <1>10, <1>11
  <1>14. FilesOK'
    BY <1>12, <1>13 DEF CommandsOK, FilesOK
  <1>15. NoEnd(files[job.stego]) /\ NoEnd(SubSeq(c.buffer, 1, part)) => NoEnd(files'[job.stego])
    BY <1>12, <1>13 DEF sent
  <1>16. NoEnd(c.buffer) => NoEnd(SubSeq(c.buffer, 1, part))
    BY <1>2 DEF sent
  <1>17. comp' # NoObject
    <2>1. comp'.global_state # "none"
      BY <1>7 DEF WriterOK
    <2> QED BY <2>1 DEF NoObject
  <1> QED BY <1>3, <1>4, <1>6, <1>9, <1>10, <1>13, <1>14, <1>15, <1>16, <1>17

\* The encoder writes what it has made of its object.
LEMMA OutputKeepsTypes ==
  ASSUME CommandsOK, pc["encode"] = "compress", NEW c, IsCompress(c), c.error # "JERR_BAD_STATE",
         c.comp_info = comp.comp_info, c.global_state = comp.global_state,
         NEW all \in BOOLEAN, Output(c, all), UNCHANGED <<job, purpose, dec, full, reduced, collection>>
  PROVE  CommandsOK'
  <1>1. PICK size \in Nat, part \in Int :
           /\ size <= Len(c.buffer) /\ part <= size
           /\ files' = [files EXCEPT ![job.stego] = files[job.stego] \o SubSeq(c.buffer, 1, part)]
           /\ comp' = [c EXCEPT !.buffer = SubSeq(c.buffer, size + 1, Len(c.buffer)),
                                !.error = IF part < size THEN "JERR_FILE_WRITE" ELSE c.error]
           /\ pc' = [pc EXCEPT !["encode"] =
                       IF comp'.error # "none" THEN "exited" ELSE IF all THEN "close" ELSE "compress"]
    BY BufferIsWritten
  <1>2. /\ FilesOK' /\ DOMAIN files' = DOMAIN files /\ job.stego \in DOMAIN files
        /\ IsCompress(comp') /\ SameParameters(c, comp') /\ comp'.global_state = c.global_state
        /\ comp'.error # "JERR_BAD_STATE" /\ comp' # NoObject
    BY <1>1, WrittenPartsAreStreams
  <1>3. comp'.comp_info = comp.comp_info
    BY <1>2 DEF SameParameters
  <1>4. PICK place \in {"exited", "close", "compress"} :
           pc' = [pc EXCEPT !["encode"] = place] /\ (place = "compress" => comp'.error = "none")
    BY <1>1
  <1>5. "encode" \in Processes /\ DOMAIN pc = Processes
    BY DEF CommandsOK, ProcessesOK, Processes
  <1>6. pc'["encode"] = place
    BY <1>4, <1>5
  <1>7. ProcessesOK'
    BY <1>4, <1>5 DEF CommandsOK, ProcessesOK, Processes, Running
  <1>8. ReadersReady'
    BY <1>2, <1>4, <1>5, OneReaderGoes DEF CommandsOK
  <1>9. CompressorOK'
    <2>1. DOMAIN comp'.comp_info = DOMAIN dec'["encode"].comp_info
      BY <1>3 DEF CommandsOK, WriterReady, CompressorOK
    <2> QED BY <1>2, <1>6, <2>1 DEF CompressorOK
  <1>10. WriterReady'
    BY <1>2, <1>4, <1>6, <1>9 DEF CommandsOK, WriterReady, Writing
  <1> QED BY <1>2, <1>7, <1>8, <1>10, TheRestStays DEF CommandsOK

\* The headers are written.
LEMMA PreparingKeepsTypes ==
  ASSUME CommandsOK, PrepareForPass
  PROVE  CommandsOK'
  <1> DEFINE c == prepare_for_pass(comp)
  <1>1. /\ UNCHANGED <<job, purpose, dec, full, reduced, collection>> /\ pc["encode"] = "compress"
        /\ Output(c, FALSE)
    BY Zenon DEF PrepareForPass
  <1>2. IsCompress(comp) /\ comp.error = "none"
    BY <1>1 DEF CommandsOK, WriterReady, CompressorOK
  <1>3. /\ IsCompress(c) /\ c.error # "JERR_BAD_STATE" /\ c.comp_info = comp.comp_info
        /\ c.global_state = comp.global_state
    BY <1>2, PassIsPrepared DEF Writes
  <1> HIDE DEF c
  <1> QED BY <1>1, <1>3, OutputKeepsTypes

\* A row is written.
LEMMA CompressingKeepsTypes ==
  ASSUME CommandsOK, CompressOutput
  PROVE  CommandsOK'
  <1> DEFINE arrays == dec["encode"].coef_arrays
             c == compress_output(comp, arrays, TooLarge)
  <1>1. /\ UNCHANGED <<job, purpose, dec, full, reduced, collection>> /\ pc["encode"] = "compress"
        /\ comp.iMCU_row_num < NoOfRows /\ Output(c, FALSE)
    BY Zenon DEF CompressOutput
  <1>2. /\ IsCompress(comp) /\ comp.error = "none" /\ DOMAIN comp.comp_info = DOMAIN dec["encode"].comp_info
        /\ dec["encode"].global_state = "DSTATE_STOPPING" /\ dec["encode"].error = "none"
        /\ dec["encode"] # NoObject
    BY <1>1 DEF CommandsOK, WriterReady, CompressorOK
  <1>3. IsDecompress(dec["encode"])
    BY <1>2 DEF CommandsOK, ReadersReady, ReaderOK, Processes
  <1>4. \A ci \in DOMAIN comp.comp_info : \A r \in Rows : IsContent(arrays[ci][r])
    BY <1>2, <1>3, ArraysAreRows
  <1> HIDE DEF arrays
  <1>5. /\ IsCompress(c) /\ c.error # "JERR_BAD_STATE" /\ c.comp_info = comp.comp_info
        /\ c.global_state = comp.global_state
    BY <1>1, <1>2, <1>4, RowIsCompressed DEF Writes
  <1> HIDE DEF c
  <1> QED BY <1>1, <1>5, OutputKeepsTypes

\* The end of the image is written.
LEMMA FinishingKeepsTypes ==
  ASSUME CommandsOK, FinishCompress
  PROVE  CommandsOK'
  <1> DEFINE c == write_file_trailer(comp)
  <1>1. /\ UNCHANGED <<job, purpose, dec, full, reduced, collection>> /\ pc["encode"] = "compress"
        /\ Output(c, TRUE)
    BY Zenon DEF FinishCompress
  <1>2. IsCompress(comp) /\ comp.error = "none"
    BY <1>1 DEF CommandsOK, WriterReady, CompressorOK
  <1>3. /\ IsCompress(c) /\ c.error # "JERR_BAD_STATE" /\ c.comp_info = comp.comp_info
        /\ c.global_state = comp.global_state
    BY <1>2, TrailerIsWritten
  <1> HIDE DEF c
  <1> QED BY <1>1, <1>3, OutputKeepsTypes

\* The stores are destroyed.
LEMMA DestroyingKeepsTypes ==
  ASSUME CommandsOK, DestroyStores
  PROVE  CommandsOK'
  <1>1. /\ UNCHANGED <<job, files, purpose, full, reduced, collection>> /\ pc["encode"] = "close"
        /\ comp' = NoObject /\ dec' = [dec EXCEPT !["encode"] = NoObject]
        /\ pc' = [pc EXCEPT !["encode"] = "embedded"]
    BY DEF DestroyStores, SetDec, Go
  <1>2. "encode" \in Processes /\ DOMAIN pc = Processes
    BY DEF CommandsOK, ProcessesOK, Processes
  <1>3. ProcessesOK'
    BY <1>1, <1>2 DEF CommandsOK, ProcessesOK, Processes, Running
  <1>4. ReadersReady'
    BY <1>1, <1>2, OneReaderMoves DEF CommandsOK
  <1>5. pc'["encode"] = "embedded"
    BY <1>1, <1>2
  <1>6. WriterReady'
    BY <1>1, <1>5 DEF WriterReady, CompressorOK, Writing, NoObject
  <1> QED BY <1>1, <1>3, <1>4, <1>6, TheRestStays DEF CommandsOK

\* Every step keeps the invariant.
LEMMA CommandsGoOn ==
  ASSUME CommandsOK, [Next]_vars
  PROVE  CommandsOK'
  <1>1. "encode" \in Processes /\ "decode" \in Processes
    BY DEF Processes
  <1>2. CASE Encode
    BY <1>1, <1>2, StartKeepsTypes, OpeningKeepsTypes, HeaderKeepsTypes, StartingKeepsTypes,
       ReadingKeepsTypes, LoadingKeepsTypes, TablesKeepTypes, QualityKeepsTypes, InjectingKeepsTypes,
       CompressionKeepsTypes, SavingKeepsTypes, PreparingKeepsTypes, CompressingKeepsTypes,
       FinishingKeepsTypes, DestroyingKeepsTypes DEF Encode
  <1>3. CASE Decode
    BY <1>1, <1>3, StartKeepsTypes, OpeningKeepsTypes, HeaderKeepsTypes, StartingKeepsTypes,
       ReadingKeepsTypes, LoadingKeepsTypes, RetrievingKeepsTypes DEF Decode
  <1>4. CASE UNCHANGED vars
    <2>1. UNCHANGED <<job, files, pc, purpose, dec, comp, full, reduced, collection>>
      BY <1>4 DEF vars
    <2>2. FilesOK' /\ ProcessesOK' /\ StepsOK' /\ RowsCollected'
      BY <2>1, TheRestStays DEF CommandsOK, ProcessesOK
    <2>3. ReadersReady'
      BY <2>1 DEF CommandsOK, ReadersReady, ReaderOK, ReaderPlace
    <2>4. WriterReady'
      BY <2>1, DecodingWritesNothing DEF CommandsOK
    <2> QED BY <2>2, <2>3, <2>4 DEF CommandsOK
  <1> QED BY <1>2, <1>3, <1>4 DEF Next

-----------------------------------------------------------------------------
(* The theorems.                                                           *)

\* All files and objects have their types, whatever the files at first hold:
\* the library's records are within their slots, arrays and errors.
THEOREM TranscodeTypes == Spec => []TranscodeTypeOK
  <1>1. Init => CommandsOK
    BY CommandsStart
  <1>2. CommandsOK /\ [Next]_vars => CommandsOK'
    BY CommandsGoOn
  <1>3. CommandsOK => TranscodeTypeOK
    BY CommandsHaveTheirTypes
  <1> QED BY <1>1, <1>2, <1>3, PTL DEF Spec

\* The library is called in the order it demands, and what it writes from is not
\* destroyed before it has written (c_l_jpeg_interface.cpp, the two stores).
THEOREM CallsAreInOrder == Spec => []ArraysOutliveTheirWriter
  <1>1. Init => CommandsOK
    BY CommandsStart
  <1>2. CommandsOK /\ [Next]_vars => CommandsOK'
    BY CommandsGoOn
  <1>3. CommandsOK => ArraysOutliveTheirWriter
    <2> SUFFICES ASSUME CommandsOK
                 PROVE  ArraysOutliveTheirWriter
      OBVIOUS
    <2>1. ASSUME NEW p \in Processes
          PROVE  dec[p].error # "JERR_BAD_STATE"
      <3>1. dec[p] = NoObject \/ IsDecompress(dec[p])
        BY DEF CommandsOK, ReadersReady, ReaderOK
      <3>2. IsDecompress(dec[p]) => dec[p].error \in ReadErrors \cup {"none"}
        BY DEF IsDecompress, StateOK
      <3> QED BY <3>1, <3>2 DEF NoObject, ReadErrors
    <2> QED BY <2>1 DEF CommandsOK, WriterReady, ArraysOutliveTheirWriter
  <1> QED BY <1>1, <1>2, <1>3, PTL DEF Spec

\* The steps that write no file, and those that do.
LEMMA WhatIsWritten ==
  ASSUME CommandsOK, [Next]_vars
  PROVE  /\ job' = job /\ (purpose["encode"] = "write" => purpose'["encode"] = "write")
         /\ \/ files' = files
            \/ job.quality # 0 /\ \A n \in DOMAIN files : n # Temp => files'[n] = files[n]
            \/ /\ purpose'["encode"] = "write"
               /\ \A n \in DOMAIN files : n # job.stego => files'[n] = files[n]
  <1>1. DOMAIN purpose = Processes /\ "encode" \in Processes
    BY DEF CommandsOK, ProcessesOK, Processes
  <1>2. CASE \/ \E p \in Processes : \/ Start(p) \/ DecompressionStarter(p) \/ ReadHeader(p)
                                     \/ StartReadCoefficients(p) \/ ReadCoefficients(p)
             \/ SaveDCT_Coefficients \/ DestroyStores \/ Retrieve \/ UNCHANGED vars
    BY <1>2 DEF Start, DecompressionStarter, ReadHeader, StartReadCoefficients, ReadCoefficients,
                SaveDCT_Coefficients, DestroyStores, Retrieve, vars
  <1>3. CASE \E p \in Processes : LoadDCT_Coefficients(p)
    <2>1. PICK p \in Processes : LoadDCT_Coefficients(p)
      BY <1>3
    <2>2. /\ files' = files /\ job' = job /\ purpose[p] = "read"
          /\ p = "encode" \/ purpose' = purpose
      BY <2>1 DEF LoadDCT_Coefficients, Loaded
    <2> QED BY <2>2
  <1>4. CASE AquireExistingTables \/ Inject
    BY <1>1, <1>4 DEF AquireExistingTables, Inject
  <1>5. CASE AquireTablesOfQuality
    <2>1. UNCHANGED <<job, purpose>> /\ job.quality # 0 /\ (files' = files \/ files' = Truncate(Temp))
      BY <1>5 DEF AquireTablesOfQuality, AquireTablesFrom
    <2> QED BY <2>1 DEF Truncate
  <1>6. CASE CompressionStarter
    <2>1. UNCHANGED <<job, purpose>> /\ purpose["encode"] = "write"
          /\ (files' = files \/ files' = Truncate(job.stego))
      BY <1>6 DEF CompressionStarter, StartWith
    <2> QED BY <2>1 DEF Truncate
  <1>7. CASE PrepareForPass \/ CompressOutput \/ FinishCompress
    <2>1. UNCHANGED <<job, purpose>> /\ pc["encode"] = "compress"
      BY <1>7 DEF PrepareForPass, CompressOutput, FinishCompress
    <2>2. \E units : files' = [files EXCEPT ![job.stego] = units]
      BY <1>7 DEF PrepareForPass, CompressOutput, FinishCompress, Output
    <2>3. purpose["encode"] = "write"
      BY <2>1 DEF CommandsOK, WriterReady
    <2> QED BY <2>1, <2>2, <2>3
  <1> QED BY <1>2, <1>3, <1>4, <1>5, <1>6, <1>7 DEF Next, Encode, Decode, Processes

\* A step writes no other file.
LEMMA OtherFilesAreLeft ==
  ASSUME CommandsOK, OnlyTheStegoImageChanges, [Next]_vars
  PROVE  OnlyTheStegoImageChanges'
  <1>1. DOMAIN job.files \subseteq DOMAIN files
    BY DEF CommandsOK, FilesOK
  <1>2. job' = job /\ (purpose["encode"] = "write" => purpose'["encode"] = "write")
    BY WhatIsWritten
  <1>3. ASSUME NEW n \in DOMAIN job.files, files'[n] # job.files[n]
        PROVE  \/ n = job.stego /\ purpose'["encode"] = "write"
               \/ n = Temp /\ job.quality # 0
    <2>1. CASE files'[n] = files[n]
      BY <1>2, <1>3, <2>1 DEF OnlyTheStegoImageChanges
    <2>2. CASE files'[n] # files[n]
      BY <1>1, <2>2, WhatIsWritten
    <2> QED BY <2>1, <2>2
  <1>4. OnlyTheStegoImageChanges'
    BY <1>2, <1>3 DEF OnlyTheStegoImageChanges
  <1> QED BY <1>4

\* Only the stego image is written, and only when the message is injected, except
\* for the file of the tables of a quality (c_l_jpeg_interface.cpp:403 and :461).
THEOREM OtherFilesStay == Spec => []OnlyTheStegoImageChanges
  <1>1. Init => CommandsOK /\ OnlyTheStegoImageChanges
    BY CommandsStart DEF Init, OnlyTheStegoImageChanges
  <1>2. CommandsOK /\ OnlyTheStegoImageChanges /\ [Next]_vars => CommandsOK' /\ OnlyTheStegoImageChanges'
    BY CommandsGoOn, OtherFilesAreLeft
  <1> QED BY <1>1, <1>2, PTL DEF Spec

-----------------------------------------------------------------------------
(* Half an image.  Until the encoder writes the last unit there is no end  *)
(* of the image in the file or in the buffer, so whoever reads it so far   *)
(* gets one only behind the end of the file, with a warning.               *)
HalfWritten ==
  /\ job.stego \in DOMAIN files => NoEnd(files[job.stego])
  /\ comp # NoObject => NoEnd(comp.buffer)

HalfRead ==
  /\ dec["decode"] # NoObject => dec["decode"].file = job.stego /\ Unended(dec["decode"])
  /\ dec["decode"].global_state = "DSTATE_STOPPING" => dec["decode"].eoi_reached
  /\ pc["decode"] \in {"derive", "retrieved"} => seen["decode"].warned

StillWritten == DistinctNames /\ NoOldImage /\ pc["encode"] \notin {"close", "embedded"}

ImageUnfinished ==
  /\ DOMAIN seen = Processes
  /\ StillWritten => HalfWritten /\ HalfRead

\* At first there is at most a part of an image.
LEMMA ImageIsUnfinished ==
  ASSUME Init
  PROVE  ImageUnfinished
  <1>1. /\ files = job.files /\ comp = NoObject /\ DOMAIN seen = Processes
        /\ dec["decode"] = NoObject /\ pc["decode"] = "start"
    BY DEF Init, Processes
  <1> QED BY <1>1 DEF ImageUnfinished, StillWritten, HalfWritten, HalfRead, NoOldImage, NoEnd, NoObject

\* A step of the decoder leaves what is written.
LEMMA DecoderDoesNotWrite ==
  ASSUME HalfWritten, UNCHANGED <<job, files, comp>>
  PROVE  HalfWritten'
  BY DEF HalfWritten, NoObject

\* A step of the encoder leaves what is read.
LEMMA EncoderDoesNotRead ==
  ASSUME HalfRead, UNCHANGED job, dec'["decode"] = dec["decode"], pc'["decode"] = pc["decode"],
         seen'["decode"] = seen["decode"]
  PROVE  HalfRead'
  BY DEF HalfRead, NoObject

\* The decoder reads half an image.
LEMMA DecodingHalfAnImage ==
  ASSUME CommandsOK, DOMAIN seen = Processes, DistinctNames, HalfWritten, HalfRead, Decode
  PROVE  HalfWritten' /\ HalfRead' /\ UNCHANGED job
  <1> DEFINE p == "decode"
  <1>1. /\ DOMAIN pc = Processes /\ DOMAIN dec = Processes /\ p \in Processes
    BY DEF CommandsOK, ProcessesOK, ReadersReady, Processes
  <1>2. UNCHANGED <<job, files, comp>>
    BY DEF Decode, Start, DecompressionStarter, ReadHeader, StartReadCoefficients, ReadCoefficients,
           LoadDCT_Coefficients, Loaded, Retrieve
  <1>3. HalfWritten'
    BY <1>2, DecoderDoesNotWrite
  <1>4. CASE Start(p)
    <2>1. dec' = dec /\ seen' = seen /\ pc'[p] = "open"
      BY <1>1, <1>4 DEF Start, Go
    <2> QED BY <1>2, <1>3, <2>1 DEF HalfRead, NoObject
  <1>5. CASE DecompressionStarter(p)
    <2> DEFINE e == CreateDecompress(job.stego)
    <2>1. /\ seen' = seen
          /\ \/ dec'[p] = e /\ pc'[p] = "header"
             \/ dec' = dec /\ pc'[p] = "aborted"
      BY <1>1, <1>5 DEF DecompressionStarter, Go, SetDec, Opened
    <2>2. Unended(e) /\ e.file = job.stego /\ e.global_state = "DSTATE_START"
      BY ObjectIsCreated
    <2> HIDE DEF e
    <2> QED BY <1>2, <1>3, <2>1, <2>2 DEF HalfRead, NoObject
  <1>6. ASSUME pc[p] \in {"header", "coefficients"}
        PROVE  /\ IsDecompress(dec[p]) /\ dec[p].error = "none" /\ dec[p].file = job.stego
               /\ IsStream(files[dec[p].file]) /\ NoEnd(files[dec[p].file]) /\ Unended(dec[p])
    BY <1>1, <1>6, ObjectBeingRead DEF HalfRead, HalfWritten
  <1>7. CASE ReadHeader(p)
    <2> DEFINE e == ConsumeInput(dec[p], files[dec[p].file])
    <2>1. pc[p] = "header" /\ dec[p].global_state = "DSTATE_START"
      BY <1>7 DEF ReadHeader
    <2>2. seen' = seen /\ dec'[p] = e /\ pc'[p] \in {"header", "exited"}
      BY <1>1, <1>7 DEF ReadHeader, Go, SetDec
    <2>3. ReadsOn(dec[p], e) /\ IsDecompress(e)
      BY <1>6, <2>1, InputIsConsumed
    <2> HIDE DEF e
    <2>4. /\ e.file = job.stego /\ Unended(e) /\ e.global_state # "DSTATE_STOPPING"
      BY <1>6, <2>1, <2>3 DEF ReadsOn, Advances
    <2> QED BY <1>2, <1>3, <2>2, <2>4 DEF HalfRead, NoObject
  <1>8. CASE StartReadCoefficients(p)
    <2> DEFINE e == StartCoefficients(dec[p])
    <2>1. pc[p] \in {"header", "coefficients"} /\ dec[p].global_state = "DSTATE_READY"
      BY <1>8 DEF StartReadCoefficients, HeaderRead
    <2>2. seen' = seen /\ dec'[p] = e /\ pc'[p] \in {"coefficients", "exited"}
      BY <1>1, <1>8 DEF StartReadCoefficients, Go, SetDec
    <2>3. Keeps(dec[p], e) /\ e.global_state \in {"DSTATE_READY", "DSTATE_RDCOEFS"}
      BY <1>6, <2>1, CoefficientsAreStarted
    <2> HIDE DEF e
    <2>4. /\ e.file = job.stego /\ Unended(e)
      BY <1>6, <2>1, <2>3 DEF Keeps, SameSource, Unended
    <2> QED BY <1>2, <1>3, <2>2, <2>3, <2>4 DEF HalfRead, NoObject
  <1>9. CASE ReadCoefficients(p)
    <2> DEFINE r == ConsumeInput(dec[p], files[dec[p].file])
               e == IF r.eoi_reached THEN [r EXCEPT !.global_state = "DSTATE_STOPPING"] ELSE r
    <2>1. pc[p] = "coefficients" /\ dec[p].global_state = "DSTATE_RDCOEFS"
      BY <1>9 DEF ReadCoefficients
    <2>2. seen' = seen /\ dec'[p] = e /\ pc'[p] \in {"coefficients", "exited"}
      BY <1>1, <1>9 DEF ReadCoefficients, Go, SetDec
    <2>3. ReadsOn(dec[p], r) /\ IsDecompress(r)
      BY <1>6, <2>1, InputIsConsumed
    <2> HIDE DEF r
    <2>4. r.file = job.stego /\ Unended(r) /\ r.global_state = "DSTATE_RDCOEFS"
      BY <1>6, <2>1, <2>3 DEF ReadsOn, Advances
    <2>5. /\ e.file = job.stego /\ Unended(e) /\ (e.global_state = "DSTATE_STOPPING" => e.eoi_reached)
      <3>1. CASE r.eoi_reached
        <4>0. e = [r EXCEPT !.global_state = "DSTATE_STOPPING"]
          BY <3>1, Zenon
        <4> HIDE DEF e
        <4>1. /\ SameSource(r, e) /\ e.eoi_reached = r.eoi_reached /\ e.warned = r.warned
          BY <2>3, <2>4, <4>0, StoppingIsAnObject, Zenon
        <4> QED BY <2>4, <3>1, <4>1 DEF SameSource, Unended
      <3>2. CASE ~r.eoi_reached
        BY <2>4, <3>2
      <3> QED BY <3>1, <3>2
    <2> HIDE DEF e
    <2> QED BY <1>2, <1>3, <2>2, <2>5 DEF HalfRead, NoObject
  <1>10. CASE LoadDCT_Coefficients(p)
    <2>1. pc[p] = "coefficients" /\ dec[p].global_state = "DSTATE_STOPPING" /\ dec[p] # NoObject
      BY <1>1, <1>10, ObjectBeingRead DEF LoadDCT_Coefficients, Loaded
    <2>2. seen'[p] = dec[p] /\ dec'[p] = NoObject
      BY <1>1, <1>10 DEF LoadDCT_Coefficients, Loaded, SetDec
    <2>3. dec[p].warned
      BY <2>1 DEF HalfRead, Unended
    <2> QED BY <1>2, <1>3, <2>2, <2>3 DEF HalfRead, NoObject
  <1>11. CASE Retrieve
    <2>1. pc[p] = "derive" /\ dec' = dec /\ seen' = seen
      BY <1>11 DEF Retrieve
    <2> QED BY <1>2, <1>3, <2>1 DEF HalfRead, NoObject
  <1> QED BY <1>2, <1>3, <1>4, <1>5, <1>7, <1>8, <1>9, <1>10, <1>11 DEF Decode

\* What is written before the last unit has no end of the image.
LEMMA AllButTheEnd ==
  ASSUME NEW s, IsStream(s), NoEnd(s), NEW part \in Int, part < Len(s \o <<EOI>>)
  PROVE  NoEnd(SubSeq(s \o <<EOI>>, 1, part))
  <1> DEFINE S == {s[i] : i \in DOMAIN s} \cup {EOI}
             all == s \o <<EOI>>
             sent == SubSeq(all, 1, part)
  <1>1. s \in Seq({s[i] : i \in DOMAIN s})
    BY DEF IsStream, IsASequence
  <1>2. s \in Seq(S) /\ <<EOI>> \in Seq(S) /\ Len(<<EOI>>) = 1
    BY <1>1, SeqMonotonic
  <1> HIDE DEF S
  <1>3. /\ all \in Seq(S) /\ Len(all) = Len(s) + 1
        /\ \A i \in 1 .. Len(s) + 1 : i <= Len(s) => all[i] = s[i]
    BY <1>2, ConcatProperties
  <1>4. DOMAIN s = 1 .. Len(s) /\ Len(s) \in Nat
    BY <1>2, LenProperties
  <1>5. IsStream(all)
    <2>1. IsStream(<<EOI>>)
      <3>1. IsUnit(EOI)
        BY DEF EOI, IsUnit
      <3> QED BY <3>1, ShortStreams
    <2> QED BY <2>1, ConcatenatedStreams
  <1>6. part <= Len(all) /\ part <= Len(s)
    BY <1>3, <1>4
  <1> HIDE DEF all
  <1>7. \A i \in DOMAIN sent : (i + 1) - 1 \in 1 .. part /\ sent[i] = all[(i + 1) - 1]
    <2>1. 1 \in Nat \ {0}
      OBVIOUS
    <2> QED BY <1>5, <1>6, <2>1, PlacesOfAPart, Zenon
  <1> HIDE DEF sent
  <1>8. \A i \in DOMAIN sent : sent[i].kind # "EOI"
    <2> SUFFICES ASSUME NEW i \in DOMAIN sent
                 PROVE  sent[i].kind # "EOI"
      OBVIOUS
    <2> DEFINE j == (i + 1) - 1
    <2>1. j \in 1 .. part /\ sent[i] = all[j]
      BY <1>7
    <2> HIDE DEF j
    <2>2. j \in DOMAIN s /\ all[j] = s[j]
      BY <1>3, <1>4, <1>6, <2>1
    <2> QED BY <2>1, <2>2 DEF NoEnd
  <1> QED BY <1>8 DEF NoEnd, sent, all

\* The encoder writes an image, but not the end of it.
LEMMA WritingHalfAnImage ==
  ASSUME CommandsOK, pc["encode"] = "compress", HalfWritten, NEW c, IsCompress(c), UNCHANGED job,
         NEW all \in BOOLEAN, Output(c, all), pc'["encode"] \notin {"close", "embedded"},
         IF all THEN c.error = "none" /\ c.buffer = comp.buffer \o <<EOI>> ELSE NoEnd(c.buffer)
  PROVE  HalfWritten'
  <1>1. PICK size \in Nat, part \in Int :
           /\ size <= Len(c.buffer) /\ part <= size /\ (all => size = Len(c.buffer))
           /\ files' = [files EXCEPT ![job.stego] = files[job.stego] \o SubSeq(c.buffer, 1, part)]
           /\ comp' = [c EXCEPT !.buffer = SubSeq(c.buffer, size + 1, Len(c.buffer)),
                                !.error = IF part < size THEN "JERR_FILE_WRITE" ELSE c.error]
           /\ pc' = [pc EXCEPT !["encode"] =
                       IF comp'.error # "none" THEN "exited" ELSE IF all THEN "close" ELSE "compress"]
    BY BufferIsWritten
  <1>2. /\ job.stego \in DOMAIN files
        /\ comp'.error \in {c.error, "JERR_FILE_WRITE"} /\ (comp'.error # c.error => part < size)
        /\ NoEnd(c.buffer) => NoEnd(comp'.buffer)
        /\ NoEnd(files[job.stego]) /\ NoEnd(SubSeq(c.buffer, 1, part)) => NoEnd(files'[job.stego])
        /\ NoEnd(c.buffer) => NoEnd(SubSeq(c.buffer, 1, part))
    BY <1>1, WrittenPartsAreStreams
  <1>3. NoEnd(files[job.stego])
    BY <1>2 DEF HalfWritten
  <1>4. IsCompress(comp) /\ comp # NoObject
    BY DEF CommandsOK, WriterReady, CompressorOK
  <1>5. CASE ~all
    BY <1>2, <1>3, <1>5 DEF HalfWritten
  <1>6. CASE all
    <2>1. comp'.error # "none"
      BY <1>1, <1>6 DEF CommandsOK, ProcessesOK, Processes
    <2>2. part < Len(c.buffer) /\ size = Len(c.buffer)
      BY <1>1, <1>2, <1>6, <2>1
    <2>3. IsStream(comp.buffer) /\ NoEnd(comp.buffer)
      BY <1>4 DEF HalfWritten, IsCompress, WriterOK
    <2>4. NoEnd(SubSeq(c.buffer, 1, part))
      <3>1. c.buffer = comp.buffer \o <<EOI>>
        BY <1>6
      <3> QED BY <2>2, <2>3, <3>1, AllButTheEnd
    <2>5. comp'.buffer = SubSeq(c.buffer, size + 1, Len(c.buffer))
      BY <1>1, FieldsOfAWriter
    <2>6. comp'.buffer = << >>
      <3>1. IsStream(c.buffer) /\ Len(c.buffer) \in Nat
        BY SequenceIsOnAnInterval DEF IsCompress, WriterOK, IsStream
      <3>2. size + 1 \in Nat \ {0} /\ Len(c.buffer) \in Int /\ size + 1 > Len(c.buffer)
        BY <2>2, <3>1
      <3>3. SubSeq(c.buffer, size + 1, Len(c.buffer)) = << >>
        <4>1. Len(c.buffer) <= Len(c.buffer)
          BY <3>1
        <4> QED BY <3>1, <3>2, <4>1, PartOfAStream, Zenon
      <3> QED BY <2>5, <3>3
    <2>7. NoEnd(comp'.buffer)
      <3>1. NoEnd(<< >>)
        <4>1. IsUnit(EOI)
          BY DEF EOI, IsUnit
        <4> QED BY <4>1, ShortStreams
      <3> QED BY <2>6, <3>1
    <2> QED BY <1>2, <1>3, <2>4, <2>7 DEF HalfWritten
  <1> QED BY <1>5, <1>6

\* A new object of the writer has written nothing.
LEMMA NothingIsBuffered ==
  ASSUME CommandsOK, DistinctNames, HalfWritten, CompressionStarter
  PROVE  HalfWritten'
  <1> DEFINE c == jpeg_copy_critical_parameters(dec["encode"], CreateCompress(job.stego))
             e == [c EXCEPT !.quant_tbl_ptrs[0] = reduced[0]]
  <1>1. /\ UNCHANGED job /\ pc["encode"] = "header"
    BY DEF CompressionStarter, StartWith, HeaderRead
  <1>2. \/ UNCHANGED <<files, comp>>
        \/ files' = Truncate(job.stego) /\ (comp' = c \/ comp' = e)
    BY Zenon DEF CompressionStarter, StartWith
  <1>3. IsDecompress(dec["encode"])
    BY <1>1, ObjectBeingRead DEF Processes
  <1>4. IsCompress(c) /\ NoEnd(c.buffer)
    BY <1>3, WriterIsCreated, ParametersAreCopied
  <1> HIDE DEF c
  <1>5. e.buffer = c.buffer
    BY <1>4, FieldsOfAWriter
  <1> HIDE DEF e
  <1>6. NoEnd(<< >>)
    <2>1. IsUnit(EOI)
      BY DEF EOI, IsUnit
    <2> QED BY <2>1, ShortStreams
  <1>7. CASE UNCHANGED <<files, comp>>
    BY <1>1, <1>7, DecoderDoesNotWrite
  <1>8. CASE files' = Truncate(job.stego) /\ (comp' = c \/ comp' = e)
    BY <1>1, <1>4, <1>5, <1>6, <1>8 DEF HalfWritten, Truncate
  <1> QED BY <1>2, <1>7, <1>8

\* A step of the encoder leaves the decoder, and the job.
LEMMA EncoderLeavesTheDecoder ==
  ASSUME CommandsOK, DOMAIN seen = Processes, Encode
  PROVE  /\ UNCHANGED job /\ dec'["decode"] = dec["decode"] /\ pc'["decode"] = pc["decode"]
         /\ seen'["decode"] = seen["decode"] /\ DOMAIN seen' = Processes
  <1>1. DOMAIN pc = Processes /\ DOMAIN dec = Processes /\ Processes = {"encode", "decode"}
    BY DEF CommandsOK, ProcessesOK, ReadersReady, Processes
  <1>2. job' = job
    BY DEF Encode, Start, DecompressionStarter, ReadHeader, StartReadCoefficients, ReadCoefficients,
           LoadDCT_Coefficients, Loaded, AquireExistingTables, AquireTablesOfQuality, AquireTablesFrom,
           Inject, CompressionStarter, StartWith, SaveDCT_Coefficients, PrepareForPass, CompressOutput,
           FinishCompress, DestroyStores
  <1>3. dec'["decode"] = dec["decode"]
    BY <1>1 DEF Encode, Start, DecompressionStarter, ReadHeader, StartReadCoefficients, ReadCoefficients,
           LoadDCT_Coefficients, Loaded, AquireExistingTables, AquireTablesOfQuality, AquireTablesFrom,
           Inject, CompressionStarter, StartWith, SaveDCT_Coefficients, PrepareForPass, CompressOutput,
           FinishCompress, DestroyStores, SetDec
  <1>4. pc'["decode"] = pc["decode"]
    BY <1>1 DEF Encode, Start, DecompressionStarter, ReadHeader, StartReadCoefficients, ReadCoefficients,
           LoadDCT_Coefficients, Loaded, AquireExistingTables, AquireTablesOfQuality, AquireTablesFrom,
           Inject, CompressionStarter, StartWith, SaveDCT_Coefficients, PrepareForPass, CompressOutput,
           FinishCompress, DestroyStores, Go, Output
  <1>5. seen'["decode"] = seen["decode"] /\ DOMAIN seen' = Processes
    BY <1>1 DEF Encode, Start, DecompressionStarter, ReadHeader, StartReadCoefficients, ReadCoefficients,
           LoadDCT_Coefficients, Loaded, AquireExistingTables, AquireTablesOfQuality, AquireTablesFrom,
           Inject, CompressionStarter, StartWith, SaveDCT_Coefficients, PrepareForPass, CompressOutput,
           FinishCompress, DestroyStores
  <1> QED BY <1>2, <1>3, <1>4, <1>5

\* The encoder writes half an image.
LEMMA EncodingHalfAnImage ==
  ASSUME CommandsOK, DOMAIN seen = Processes, DistinctNames, HalfWritten, HalfRead, Encode,
         pc'["encode"] \notin {"close", "embedded"}
  PROVE  HalfWritten' /\ HalfRead' /\ UNCHANGED job
  <1>1. /\ DOMAIN pc = Processes /\ DOMAIN dec = Processes /\ Processes = {"encode", "decode"}
    BY DEF CommandsOK, ProcessesOK, ReadersReady, Processes
  <1>2. job' = job
    BY EncoderLeavesTheDecoder
  <1>6. HalfRead'
    BY EncoderLeavesTheDecoder, EncoderDoesNotRead
  <1>7. CASE \/ Start("encode") \/ DecompressionStarter("encode") \/ ReadHeader("encode")
             \/ StartReadCoefficients("encode") \/ ReadCoefficients("encode")
             \/ LoadDCT_Coefficients("encode") \/ AquireExistingTables \/ Inject
    <2>1. UNCHANGED <<files, comp>>
      BY <1>7 DEF Start, DecompressionStarter, ReadHeader, StartReadCoefficients, ReadCoefficients,
         LoadDCT_Coefficients, Loaded, AquireExistingTables, Inject
    <2>2. HalfWritten'
      BY <1>2, <2>1, DecoderDoesNotWrite
    <2> QED BY <1>2, <1>6, <2>2
  <1>8. CASE AquireTablesOfQuality
    <2>1. comp' = comp /\ (files' = files \/ files' = Truncate(Temp))
      BY <1>8 DEF AquireTablesOfQuality, AquireTablesFrom
    <2>2. /\ job.stego \in DOMAIN files' => job.stego \in DOMAIN files /\ files'[job.stego] = files[job.stego]
      BY <2>1 DEF Truncate, DistinctNames
    <2>3. HalfWritten'
      BY <1>2, <2>1, <2>2 DEF HalfWritten, NoObject
    <2> QED BY <1>2, <1>6, <2>3
  <1>9. CASE CompressionStarter
    BY <1>2, <1>6, <1>9, NothingIsBuffered
  <1>10. CASE SaveDCT_Coefficients
    <2>1. files' = files /\ comp' = jpeg_write_coefficients(comp) /\ Writing
      BY <1>10 DEF SaveDCT_Coefficients, Writing
    <2>2. /\ IsCompress(comp) /\ comp.error = "none" /\ comp.global_state = "CSTATE_START"
          /\ comp # NoObject
      BY <2>1 DEF CommandsOK, WriterReady, CompressorOK, Writing
    <2>3. NoEnd(comp'.buffer)
      <3>1. Writes(comp, jpeg_write_coefficients(comp))
        BY <2>2, WritingIsStarted
      <3> QED BY <2>1, <2>2, <3>1 DEF HalfWritten, Writes
    <2>4. HalfWritten'
      BY <1>2, <2>1, <2>3 DEF HalfWritten
    <2> QED BY <1>2, <1>6, <2>4
  <1>11. ASSUME pc["encode"] = "compress"
         PROVE  /\ IsCompress(comp) /\ comp.error = "none" /\ NoEnd(comp.buffer)
                /\ dec["encode"].global_state = "DSTATE_STOPPING" /\ dec["encode"].error = "none"
                /\ dec["encode"] # NoObject /\ DOMAIN comp.comp_info = DOMAIN dec["encode"].comp_info
    BY <1>11 DEF CommandsOK, WriterReady, CompressorOK, HalfWritten
  <1>12. CASE PrepareForPass
    <2> DEFINE c == prepare_for_pass(comp)
    <2>1. pc["encode"] = "compress" /\ Output(c, FALSE)
      BY <1>12, Zenon DEF PrepareForPass
    <2>2. IsCompress(c) /\ NoEnd(c.buffer)
      BY <1>11, <2>1, PassIsPrepared DEF Writes
    <2> HIDE DEF c
    <2> QED BY <1>2, <1>6, <2>1, <2>2, WritingHalfAnImage
  <1>13. CASE CompressOutput
    <2> DEFINE arrays == dec["encode"].coef_arrays
               c == compress_output(comp, arrays, TooLarge)
    <2>1. pc["encode"] = "compress" /\ comp.iMCU_row_num < NoOfRows /\ Output(c, FALSE)
      BY <1>13, Zenon DEF CompressOutput
    <2>2. IsDecompress(dec["encode"])
      BY <1>1, <1>11, <2>1 DEF CommandsOK, ReadersReady, ReaderOK
    <2>3. \A ci \in DOMAIN comp.comp_info : \A r \in Rows : IsContent(arrays[ci][r])
      BY <1>11, <2>1, <2>2, ArraysAreRows
    <2> HIDE DEF arrays
    <2>4. IsCompress(c) /\ NoEnd(c.buffer)
      BY <1>11, <2>1, <2>3, RowIsCompressed DEF Writes
    <2> HIDE DEF c
    <2> QED BY <1>2, <1>6, <2>1, <2>4, WritingHalfAnImage
  <1>14. CASE FinishCompress
    <2> DEFINE c == write_file_trailer(comp)
    <2>1. pc["encode"] = "compress" /\ Output(c, TRUE)
      BY <1>14, Zenon DEF FinishCompress
    <2>2. IsCompress(c) /\ c.error = "none"
      BY <1>11, <2>1, TrailerIsWritten
    <2>3. c.buffer = comp.buffer \o <<EOI>>
      <3>1. IsStream(<<EOI>>)
        <4>1. IsUnit(EOI)
          BY DEF EOI, IsUnit
        <4> QED BY <4>1, ShortStreams
      <3> QED BY <1>11, <2>1, <3>1, PutIsAnObject DEF write_file_trailer
    <2> HIDE DEF c
    <2> QED BY <1>2, <1>6, <2>1, <2>2, <2>3, WritingHalfAnImage
  <1>15. CASE DestroyStores
    <2>1. pc'["encode"] = "embedded"
      BY <1>1, <1>15 DEF DestroyStores, Go
    <2> QED BY <2>1
  <1> QED BY <1>7, <1>8, <1>9, <1>10, <1>12, <1>13, <1>14, <1>15 DEF Encode

\* Once the last unit is out, the encoder never goes back to writing.
LEMMA ClosingIsForGood ==
  ASSUME CommandsOK, [Next]_vars, pc["encode"] \in {"close", "embedded"}
  PROVE  pc'["encode"] \in {"close", "embedded"}
  <1>1. DOMAIN pc = Processes /\ Processes = {"encode", "decode"}
    BY DEF CommandsOK, ProcessesOK, Processes
  <1>2. CASE Encode
    <2>1. DestroyStores
      BY <1>2 DEF Encode, Start, DecompressionStarter, ReadHeader, StartReadCoefficients, HeaderRead,
         ReadCoefficients, LoadDCT_Coefficients, Loaded, AquireExistingTables, AquireTablesOfQuality,
         AquireTablesFrom, Inject, CompressionStarter, StartWith, SaveDCT_Coefficients, PrepareForPass,
         CompressOutput, FinishCompress
    <2> QED BY <1>1, <2>1 DEF DestroyStores, Go
  <1>3. CASE Decode
    <2>1. pc'["encode"] = pc["encode"]
      BY <1>1, <1>3 DEF Decode, Start, DecompressionStarter, ReadHeader, StartReadCoefficients,
         ReadCoefficients, LoadDCT_Coefficients, Loaded, Retrieve, Go
    <2> QED BY <2>1
  <1> QED BY <1>2, <1>3 DEF Next, vars

\* Every step keeps that the image is unfinished until its end is written.
LEMMA ImageStaysUnfinished ==
  ASSUME CommandsOK, ImageUnfinished, [Next]_vars
  PROVE  ImageUnfinished'
  <1>1. DOMAIN seen' = Processes
    BY DEF ImageUnfinished, Next, Encode, Decode, Start, DecompressionStarter, ReadHeader,
       StartReadCoefficients, ReadCoefficients, LoadDCT_Coefficients, Loaded, AquireExistingTables,
       AquireTablesOfQuality, AquireTablesFrom, Inject, CompressionStarter, StartWith,
       SaveDCT_Coefficients, PrepareForPass, CompressOutput, FinishCompress, DestroyStores, Retrieve, vars
  <1>2. ASSUME StillWritten'
        PROVE  HalfWritten' /\ HalfRead'
    <2>1. job' = job
      BY WhatIsWritten
    <2>2. pc["encode"] \notin {"close", "embedded"}
      BY <1>2, ClosingIsForGood DEF StillWritten
    <2>3. DistinctNames /\ HalfWritten /\ HalfRead /\ DOMAIN seen = Processes
      BY <1>2, <2>1, <2>2 DEF StillWritten, ImageUnfinished, DistinctNames, NoOldImage
    <2>4. CASE Encode
      BY <1>2, <2>3, <2>4, EncodingHalfAnImage DEF StillWritten
    <2>5. CASE Decode
      BY <2>3, <2>5, DecodingHalfAnImage
    <2>6. CASE UNCHANGED vars
      BY <2>3, <2>6 DEF vars, HalfWritten, HalfRead, NoObject
    <2> QED BY <2>4, <2>5, <2>6 DEF Next
  <1> QED BY <1>1, <1>2 DEF ImageUnfinished

\* A decoder that reads the stego image while it is being written, or after the
\* encoder has died over it, is warned, for every size of the buffers, of the disk
\* and of the image (fill_input_buffer, jdatasrc.c:96).
THEOREM HalfAnImageIsKnown == Spec => []HalfAnImageIsNoticed
  <1>1. Init => CommandsOK /\ ImageUnfinished
    BY CommandsStart, ImageIsUnfinished
  <1>2. CommandsOK /\ ImageUnfinished /\ [Next]_vars => CommandsOK' /\ ImageUnfinished'
    BY CommandsGoOn, ImageStaysUnfinished
  <1>3. ImageUnfinished => HalfAnImageIsNoticed
    BY DEF ImageUnfinished, StillWritten, HalfRead, HalfAnImageIsNoticed, HasReadIt
  <1> QED BY <1>1, <1>2, <1>3, PTL DEF Spec
=============================================================================
