----------------------------- MODULE JpegReader -----------------------------
(***************************************************************************)
(* A JPEG file and the decompression object that reads its coefficients,   *)
(* as jpeg_read_header, jpeg_read_coefficients and jpeg_finish_decompress  *)
(* of libjpeg drive it.  A file is a sequence of units: its markers with   *)
(* what they carry, and the rows of entropy-coded data (ScanCoding is      *)
(* about what is inside a row).  An object is a record; each operator is   *)
(* a routine of the library and returns the object it leaves, in whose     *)
(* field "error" an ERREXIT shows.                                         *)
(***************************************************************************)
EXTENDS Integers, Sequences

CONSTANTS
  NUM_QUANT_TBLS, NUM_HUFF_TBLS,   \* slots for tables, 4
  MAX_COMPONENTS,                  \* 10
  MAX_COMPS_IN_SCAN,               \* 4
  MAX_BLOCKS_IN_MCU,               \* 10, for either direction
  NoOfRows,                        \* total_iMCU_rows of the images
  INPUT_BUF_SIZE                   \* units the data source reads at a time

QuantSlots == 0 .. NUM_QUANT_TBLS - 1
HuffSlots == 0 .. NUM_HUFF_TBLS - 1
Rows == 1 .. NoOfRows
NoTable == 0          \* the NULL of a table pointer

(* The units of a file.  A component of the frame is a record of its       *)
(* component_id, its quant_tbl_no and the blocks it has in an MCU; one of  *)
(* a scan of its id and its table numbers; the band says whether a scan    *)
(* carries the DC values, the others, or both.                             *)
SOI == [kind |-> "SOI"]
EOI == [kind |-> "EOI"]
APP0 == [kind |-> "APP0"]
COM == [kind |-> "COM"]
APP14(transform) == [kind |-> "APP14", transform |-> transform]
DQT(slot, table) == [kind |-> "DQT", slot |-> slot, table |-> table]
DHT(class, slot, table) == [kind |-> "DHT", class |-> class, slot |-> slot, table |-> table]
DRI(interval) == [kind |-> "DRI", interval |-> interval]
SOF(coding, comps) == [kind |-> "SOF", coding |-> coding, comps |-> comps]
SOS(scan, band) == [kind |-> "SOS", scan |-> scan, band |-> band]
ROW(contents, code) == [kind |-> "ROW", contents |-> contents, code |-> code]

(* The coefficients of one component in one row: which of them are there,  *)
(* and the steps they were requantized from and to, if they were.          *)
Blank == [pieces |-> {}, full |-> NoTable, reduced |-> NoTable]
Noise == [pieces |-> {"noise"}, full |-> NoTable, reduced |-> NoTable]

(* A decompression object is zeroed when it is created; then the marker    *)
(* reader, the input controller and the data source start.                 *)
jpeg_decompress_struct ==
  [global_state |-> "none", error |-> "none", warned |-> FALSE,
   file |-> "none", at |-> 0, buffer |-> << >>, start_of_file |-> FALSE,
   consume_input |-> "none", inheaders |-> FALSE, eoi_reached |-> FALSE,
   saw_SOI |-> FALSE, saw_SOF |-> FALSE, saw_JFIF_marker |-> FALSE,
   Adobe_transform |-> -1,          \* when there was no Adobe marker
   restart_interval |-> 0,
   quant_tbl_ptrs |-> [s \in QuantSlots |-> NoTable],
   huff_tbl_ptrs |-> [class \in {"DC", "AC"} |-> [s \in HuffSlots |-> NoTable]],
   coding |-> "sequential", comp_info |-> << >>, jpeg_color_space |-> "UNKNOWN",
   cur_comp_info |-> << >>, band |-> {}, has_multiple_scans |-> FALSE,
   input_iMCU_row |-> 0, insufficient_data |-> FALSE, coef_arrays |-> << >>]

jinit_marker_reader(d) ==
  [d EXCEPT !.comp_info = << >>, !.saw_SOI = FALSE, !.saw_SOF = FALSE]

jinit_input_controller(d) ==
  [d EXCEPT !.consume_input = "markers", !.has_multiple_scans = FALSE,
            !.eoi_reached = FALSE, !.inheaders = TRUE]

jpeg_stdio_src(d, name) ==
  [d EXCEPT !.file = name, !.at = 0, !.buffer = << >>, !.start_of_file = TRUE]

jpeg_CreateDecompress ==
  [jinit_input_controller(jinit_marker_reader(jpeg_decompress_struct))
     EXCEPT !.global_state = "DSTATE_START"]

CreateDecompress(name) == jpeg_stdio_src(jpeg_CreateDecompress, name)

Failed(object, code) == [object EXCEPT !.error = code]
-----------------------------------------------------------------------------
(* The data source.  An empty file is an error; behind the end of any      *)
(* other there is an EOI marker, with a warning.                           *)
Refilled(d, content, atEnd) ==
  LET size == IF Len(content) - d.at < INPUT_BUF_SIZE THEN Len(content) - d.at
              ELSE INPUT_BUF_SIZE
  IN  IF size > 0
      THEN [d EXCEPT !.buffer = SubSeq(content, d.at + 1, d.at + size),
                     !.at = @ + size, !.start_of_file = FALSE]
      ELSE IF d.start_of_file THEN Failed(d, "JERR_INPUT_EMPTY")
      ELSE atEnd
\* (Mutants: nothing is inserted behind the end, or it is without a warning.)
FillWithoutEOI(d, content) == Refilled(d, content, d)
FillSilently(d, content) == Refilled(d, content, [d EXCEPT !.buffer = <<EOI>>])
FillInputBuffer(d, content) ==
  Refilled(d, content, [d EXCEPT !.buffer = <<EOI>>, !.warned = TRUE])
-----------------------------------------------------------------------------
(* Markers.                                                                *)
get_soi(d) ==
  IF d.saw_SOI THEN Failed(d, "JERR_SOI_DUPLICATE")
  ELSE [d EXCEPT !.saw_SOI = TRUE, !.restart_interval = 0, !.saw_JFIF_marker = FALSE,
                 !.Adobe_transform = -1, !.jpeg_color_space = "UNKNOWN"]

get_sof(d, u) ==
  IF d.saw_SOF THEN Failed(d, "JERR_SOF_DUPLICATE")
  ELSE IF u.comps = << >> THEN Failed(d, "JERR_EMPTY_IMAGE")
  ELSE [d EXCEPT !.saw_SOF = TRUE, !.coding = u.coding,
                 !.comp_info = [ci \in DOMAIN u.comps |->
                   [component_id |-> u.comps[ci].component_id,
                    quant_tbl_no |-> u.comps[ci].quant_tbl_no,
                    MCU_blocks   |-> u.comps[ci].MCU_blocks,
                    dc_tbl_no |-> 0, ac_tbl_no |-> 0, quant_table |-> NoTable]]]

\* The components of a scan are found by their ids.
get_sos(d, u) ==
  LET with(i) == {ci \in DOMAIN d.comp_info : d.comp_info[ci].component_id = u.scan[i].component_id}
      found(i) == CHOOSE ci \in with(i) : \A cj \in with(i) : ci <= cj
      used == {i \in DOMAIN u.scan : with(i) # {}}
  IN  IF ~d.saw_SOF THEN Failed(d, "JERR_SOS_NO_SOF")
      ELSE IF Len(u.scan) \notin 1 .. MAX_COMPS_IN_SCAN THEN Failed(d, "JERR_BAD_LENGTH")
      ELSE IF used # DOMAIN u.scan THEN Failed(d, "JERR_BAD_COMPONENT_ID")
      ELSE
             [d EXCEPT
               !.cur_comp_info = [i \in DOMAIN u.scan |-> found(i)],
               !.band = u.band,
               !.comp_info = [ci \in DOMAIN @ |->
                 LET scanned == {i \in DOMAIN u.scan : found(i) = ci}
                     i == CHOOSE i \in scanned : \A j \in scanned : j <= i
                 IN  IF scanned = {} THEN @[ci]
                     ELSE [@[ci] EXCEPT !.dc_tbl_no = u.scan[i].dc_tbl_no,
                                        !.ac_tbl_no = u.scan[i].ac_tbl_no]]]

get_tables(d, u) ==
  CASE u.kind = "DQT" /\ u.slot \in QuantSlots -> [d EXCEPT !.quant_tbl_ptrs[u.slot] = u.table]
    [] u.kind = "DHT" /\ u.slot \in HuffSlots ->
         [d EXCEPT !.huff_tbl_ptrs[u.class][u.slot] = u.table]
    [] u.kind = "DRI" -> [d EXCEPT !.restart_interval = u.interval]
    [] OTHER -> Failed(d, IF u.kind = "DQT" THEN "JERR_DQT_INDEX" ELSE "JERR_DHT_INDEX")

get_interesting_appn(d, u) ==
  IF u.kind = "APP0" THEN [d EXCEPT !.saw_JFIF_marker = TRUE]
  ELSE [d EXCEPT !.Adobe_transform = u.transform]

\* What the marker carries is behind it in the file; it is not looked at.
skip_variable(d) == d
-----------------------------------------------------------------------------
(* The start of the image and of a scan.                                   *)

initial_setup(d) ==
  IF Len(d.comp_info) > MAX_COMPONENTS THEN Failed(d, "JERR_COMPONENT_COUNT")
  ELSE [d EXCEPT !.inheaders = FALSE,
                 !.comp_info = [ci \in DOMAIN @ |-> [@[ci] EXCEPT !.quant_table = NoTable]],
                 !.has_multiple_scans = \/ Len(d.cur_comp_info) < Len(d.comp_info)
                                        \/ d.coding = "progressive"]

\* The color space is guessed from the markers, and without them from the ids.
default_decompress_parms(d) ==
  LET ids == [ci \in DOMAIN d.comp_info |-> d.comp_info[ci].component_id]
  IN  CASE Len(ids) = 1 -> "GRAYSCALE"
        [] Len(ids) = 3 ->
             IF \/ ~d.saw_JFIF_marker /\ d.Adobe_transform = 0
                \/ ~d.saw_JFIF_marker /\ d.Adobe_transform = -1 /\ ids = <<82, 71, 66>>
             THEN "RGB" ELSE "YCbCr"
        [] Len(ids) = 4 -> IF d.Adobe_transform \in {-1, 0} THEN "CMYK" ELSE "YCCK"
        [] OTHER -> "UNKNOWN"

\* per_scan_setup, on either side: blocks of the components of a scan.
BlocksInMCU(blocks) ==
  LET sum[i \in 0 .. Len(blocks)] == IF i = 0 THEN 0 ELSE sum[i - 1] + blocks[i]
  IN  sum[Len(blocks)]
FitsMCU(comps, scan) ==
  Len(scan) = 1 \/
  BlocksInMCU([i \in DOMAIN scan |-> comps[scan[i]].MCU_blocks]) <= MAX_BLOCKS_IN_MCU

\* The table a component uses is that of its slot when its first scan begins.
Latched(d, ci) ==
  LET comp == d.comp_info[ci]
  IN  IF comp.quant_table # NoTable THEN comp.quant_table
      ELSE IF comp.quant_tbl_no \in QuantSlots THEN d.quant_tbl_ptrs[comp.quant_tbl_no]
      ELSE NoTable
Scanned(d) == {d.cur_comp_info[i] : i \in DOMAIN d.cur_comp_info}

\* The tables the rows of a scan are decoded with.
HuffTable(d, class, slot) ==
  IF class \in d.band /\ slot \in HuffSlots THEN d.huff_tbl_ptrs[class][slot] ELSE NoTable
ScanCode(d) ==
  [interval |-> d.restart_interval,
   tables |-> [i \in DOMAIN d.cur_comp_info |->
     <<HuffTable(d, "DC", d.comp_info[d.cur_comp_info[i]].dc_tbl_no),
       HuffTable(d, "AC", d.comp_info[d.cur_comp_info[i]].ac_tbl_no)>>]]

start_input_pass(d) ==
  LET missing(class, k) == class \in d.band /\ \E i \in DOMAIN d.cur_comp_info :
                             ScanCode(d).tables[i][k] = NoTable
  IN  IF ~FitsMCU(d.comp_info, d.cur_comp_info) THEN Failed(d, "JERR_BAD_MCU_SIZE")
      ELSE IF \E ci \in Scanned(d) : Latched(d, ci) = NoTable
           THEN Failed(d, "JERR_NO_QUANT_TABLE")
      ELSE IF missing("DC", 1) \/ missing("AC", 2) THEN Failed(d, "JERR_NO_HUFF_TABLE")
      ELSE
             [d EXCEPT
               !.comp_info = [ci \in DOMAIN @ |->
                 IF ci \in Scanned(d) THEN [@[ci] EXCEPT !.quant_table = Latched(d, ci)]
                 ELSE @[ci]],
               !.consume_input = "data", !.input_iMCU_row = 0,
               !.insufficient_data = FALSE]

\* consume_markers, when read_markers returns at a SOS.
ReachedSOS(d) ==
  LET e == initial_setup(d)
  IN  IF d.inheaders
      THEN IF e.error # "none" THEN e
           ELSE [e EXCEPT !.jpeg_color_space = default_decompress_parms(e),
                          !.global_state = "DSTATE_READY"]
      ELSE IF d.has_multiple_scans THEN start_input_pass(d)
      ELSE Failed(d, "JERR_EOI_EXPECTED")

\* consume_markers and jpeg_read_header, when it returns at an EOI.
ReachedEOI(d) ==
  IF ~d.inheaders THEN [d EXCEPT !.eoi_reached = TRUE]
  ELSE Failed(d, IF d.saw_SOF THEN "JERR_SOF_NO_SOS" ELSE "JERR_NO_IMAGE")

\* Nothing but an SOI may be first.
first_marker(d, u) == IF u.kind = "SOI" THEN d ELSE Failed(d, "JERR_NO_SOI")

(* One turn of the loop of read_markers.  Data that is no marker is        *)
(* skipped, with a warning, once there was an SOI.                         *)
ReadMarker(d) ==
  LET u == Head(d.buffer)
      e == [d EXCEPT !.buffer = Tail(@)]
  IN  IF ~d.saw_SOI /\ first_marker(d, u).error # "none" THEN first_marker(d, u)
      ELSE CASE u.kind = "SOI" -> get_soi(e)
             [] u.kind = "SOF" -> get_sof(e, u)
             [] u.kind = "SOS" ->
                  LET s == get_sos(e, u) IN IF s.error = "none" THEN ReachedSOS(s) ELSE s
             [] u.kind = "EOI" -> ReachedEOI(e)
             [] u.kind \in {"DQT", "DHT", "DRI"} -> get_tables(e, u)
             [] u.kind \in {"APP0", "APP14"} -> get_interesting_appn(e, u)
             [] u.kind = "COM" -> skip_variable(e)
             [] u.kind = "ROW" -> [e EXCEPT !.warned = TRUE]

finish_input_pass(d) == [d EXCEPT !.consume_input = "markers"]

(* consume_data, for one row.  When a marker comes first, this row and     *)
(* those behind it stay as they are, with a warning.  A row decoded with   *)
(* tables it was not coded with is noise; of a component named twice in a  *)
(* scan the blocks decoded last lie over the others.                       *)
Decoded(d, old, u, i) ==
  IF u.code # ScanCode(d) THEN Noise
  ELSE [u.contents[i] EXCEPT !.pieces = @ \cup old.pieces]

ConsumeRow(d) ==
  LET u == Head(d.buffer)
      row == d.input_iMCU_row + 1
      hit == d.insufficient_data \/ u.kind # "ROW"
      at(ci) == CHOOSE i \in DOMAIN d.cur_comp_info :
                 /\ d.cur_comp_info[i] = ci
                 /\ \A j \in DOMAIN d.cur_comp_info : d.cur_comp_info[j] = ci => j <= i
      turned == [d EXCEPT !.input_iMCU_row = row]
      next == IF row = NoOfRows THEN finish_input_pass(turned) ELSE turned
  IN  IF hit THEN [next EXCEPT !.insufficient_data = TRUE, !.warned = TRUE]
      ELSE [next EXCEPT
             !.buffer = Tail(@),
             !.coef_arrays = [ci \in DOMAIN @ |->
               IF ci \in Scanned(d)
               THEN [@[ci] EXCEPT ![row] = Decoded(d, d.coef_arrays[ci][row], u, at(ci))]
               ELSE @[ci]]]

(* transdecode_master_selection: the arrays are zero, and the first scan   *)
(* starts.                                                                 *)
StartCoefficients(d) ==
  IF d.coding = "arithmetic" THEN Failed(d, "JERR_ARITH_NOTIMPL")
  ELSE start_input_pass([d EXCEPT !.global_state = "DSTATE_RDCOEFS",
                          !.coef_arrays = [ci \in DOMAIN d.comp_info |-> [r \in Rows |-> Blank]]])

\* One call of consume_input: fill_input_buffer when there is nothing to read.
ConsumeInput(d, content) ==
  LET filled == IF d.buffer = << >> THEN FillInputBuffer(d, content) ELSE d
  IN  IF filled.error # "none" \/ filled.buffer = << >> THEN filled
      ELSE IF filled.consume_input = "markers" THEN ReadMarker(filled)
      ELSE ConsumeRow(filled)
-----------------------------------------------------------------------------
(* What the objects of the reader are made of.                             *)

IsASequence(s) == s \in Seq({s[i] : i \in DOMAIN s})

IsContent(content) ==
  /\ content = [pieces |-> content.pieces, full |-> content.full, reduced |-> content.reduced]
  /\ content.full \in Nat /\ content.reduced \in Nat

IsUnit(u) ==
  /\ u.kind \in {"SOI", "EOI", "COM", "APP0", "APP14", "DQT", "DHT", "DRI", "SOF", "SOS", "ROW"}
  /\ u.kind = "APP14" => u.transform \in Int
  /\ u.kind = "DQT" => u.slot \in Nat /\ u.table \in Nat
  /\ u.kind = "DHT" => u.class \in {"DC", "AC"} /\ u.slot \in Nat /\ u.table \in Nat
  /\ u.kind = "DRI" => u.interval \in Nat
  /\ u.kind = "SOF" =>
       /\ u.coding \in {"sequential", "progressive", "arithmetic"}
       /\ u.comps \in Seq([component_id : Nat, quant_tbl_no : Nat, MCU_blocks : Nat])
  /\ u.kind = "SOS" =>
       /\ u.scan \in Seq([component_id : Nat, dc_tbl_no : Nat, ac_tbl_no : Nat])
       /\ u.band \subseteq {"DC", "AC"}
  /\ u.kind = "ROW" =>
       /\ DOMAIN u.contents = DOMAIN u.code.tables
       /\ \A i \in DOMAIN u.contents : IsContent(u.contents[i])

IsStream(units) == IsASequence(units) /\ \A i \in DOMAIN units : IsUnit(units[i])

ReadErrors ==
  {"JERR_INPUT_EMPTY", "JERR_NO_SOI", "JERR_SOI_DUPLICATE", "JERR_SOF_DUPLICATE", "JERR_SOS_NO_SOF",
   "JERR_BAD_LENGTH", "JERR_BAD_COMPONENT_ID", "JERR_DQT_INDEX", "JERR_DHT_INDEX",
   "JERR_BAD_MCU_SIZE", "JERR_NO_QUANT_TABLE", "JERR_NO_HUFF_TABLE", "JERR_EOI_EXPECTED",
   "JERR_SOF_NO_SOS", "JERR_NO_IMAGE", "JERR_ARITH_NOTIMPL", "JERR_EMPTY_IMAGE",
   "JERR_COMPONENT_COUNT"}

\* How many components an image of a color space has.
ColorComponents(colorspace) ==
  CASE colorspace = "GRAYSCALE" -> {1}
    [] colorspace \in {"RGB", "YCbCr"} -> {3}
    [] colorspace \in {"CMYK", "YCCK"} -> {4}
    [] OTHER -> Nat
ColorSpaces == {"UNKNOWN", "GRAYSCALE", "RGB", "YCbCr", "CMYK", "YCCK"}

StateOK(d) ==
  /\ d.global_state \in {"DSTATE_START", "DSTATE_READY", "DSTATE_RDCOEFS", "DSTATE_STOPPING"}
  /\ d.error \in ReadErrors \cup {"none"}
  /\ d.warned \in BOOLEAN /\ d.start_of_file \in BOOLEAN /\ d.eoi_reached \in BOOLEAN
  /\ d.saw_SOI \in BOOLEAN /\ d.saw_SOF \in BOOLEAN /\ d.saw_JFIF_marker \in BOOLEAN
  /\ d.saw_SOF => d.saw_SOI
  /\ d.inheaders \in BOOLEAN /\ d.has_multiple_scans \in BOOLEAN
  /\ d.insufficient_data \in BOOLEAN
  /\ d.Adobe_transform \in Int
  /\ d.consume_input \in {"markers", "data"}

SourceOK(d) == d.at \in Nat /\ IsStream(d.buffer)

TablesOK(d) ==
  /\ d.restart_interval \in Nat
  /\ d.quant_tbl_ptrs \in [QuantSlots -> Nat]
  /\ d.huff_tbl_ptrs \in [{"DC", "AC"} -> [HuffSlots -> Nat]]

\* There are components behind the frame header, and none before.
FrameOK(d) ==
  /\ d.coding \in {"sequential", "progressive", "arithmetic"}
  /\ d.comp_info \in Seq([component_id : Nat, quant_tbl_no : Nat, MCU_blocks : Nat,
                          dc_tbl_no : Nat, ac_tbl_no : Nat, quant_table : Nat])
  /\ d.jpeg_color_space \in ColorSpaces
  /\ Len(d.comp_info) \in ColorComponents(d.jpeg_color_space)
  /\ IF d.inheaders THEN d.jpeg_color_space = "UNKNOWN"
     ELSE d.jpeg_color_space = "UNKNOWN" => Len(d.comp_info) \notin {1, 3, 4}
  /\ d.inheaders <=> d.global_state = "DSTATE_START"
  /\ IF d.saw_SOF THEN d.comp_info # << >> ELSE d.inheaders /\ d.comp_info = << >>

ScanOK(d) ==
  /\ d.cur_comp_info \in Seq(DOMAIN d.comp_info)
  /\ d.band \subseteq {"DC", "AC"}
  /\ d.input_iMCU_row \in 0 .. NoOfRows
  /\ d.consume_input = "data" => d.input_iMCU_row < NoOfRows

\* There are arrays when they are read, one for each component.
ArraysOK(d) ==
  d.global_state \in {"DSTATE_RDCOEFS", "DSTATE_STOPPING"} /\ d.error = "none" =>
    /\ DOMAIN d.coef_arrays = DOMAIN d.comp_info
    /\ \A ci \in DOMAIN d.coef_arrays :
         /\ d.coef_arrays[ci] = [r \in Rows |-> d.coef_arrays[ci][r]]
         /\ \A r \in Rows : IsContent(d.coef_arrays[ci][r])

IsDecompress(d) ==
  /\ DOMAIN d = DOMAIN jpeg_decompress_struct
  /\ StateOK(d) /\ SourceOK(d) /\ TablesOK(d) /\ FrameOK(d) /\ ScanOK(d) /\ ArraysOK(d)
=============================================================================
