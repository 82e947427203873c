----------------------------- MODULE JpegWriter -----------------------------
(***************************************************************************)
(* The compression object that writes coefficients, as the transcoding     *)
(* side of libjpeg drives it (jctrans.c): its parameters are the defaults  *)
(* with the critical ones of a decompression object copied over them, and  *)
(* most of the file is written only by jpeg_finish_compress.               *)
(***************************************************************************)
EXTENDS JpegReader, FiniteSets

CONSTANTS
  StdLuminance, StdChrominance,   \* the entry that stands for the standard tables
  OUTPUT_BUF_SIZE                 \* units the data destination writes at a time

(* A compression object is zeroed when it is created; the caller then      *)
(* gives it the file it is to write.                                       *)
jpeg_compress_struct ==
  [global_state |-> "none", error |-> "none", file |-> "none", buffer |-> << >>,
   quant_tbl_ptrs |-> [s \in QuantSlots |-> NoTable],
   huff_tbl_ptrs |-> [class \in {"DC", "AC"} |-> [s \in HuffSlots |-> NoTable]],
   comp_info |-> << >>, jpeg_color_space |-> "UNKNOWN",
   write_JFIF_header |-> FALSE, Adobe_transform |-> -1,
   restart_interval |-> 0, iMCU_row_num |-> 0, is_last_pass |-> FALSE]

jpeg_CreateCompress == [jpeg_compress_struct EXCEPT !.global_state = "CSTATE_START"]

jpeg_stdio_dest(c, name) == [c EXCEPT !.file = name, !.buffer = << >>]

CreateCompress(name) == jpeg_stdio_dest(jpeg_CreateCompress, name)
-----------------------------------------------------------------------------
(* Tables by quality.                                                      *)

jpeg_quality_scaling(quality) ==
  LET q == IF quality <= 0 THEN 1 ELSE IF quality > 100 THEN 100 ELSE quality
  IN  IF q < 50 THEN 5000 \div q ELSE 200 - q * 2

jpeg_add_quant_table(basic, scale_factor, force_baseline) ==
  LET limit == IF force_baseline THEN 255 ELSE 32767
      value == (basic * scale_factor + 50) \div 100
  IN  IF value <= 0 THEN 1 ELSE IF value > limit THEN limit ELSE value

jpeg_set_quality(c, quality, force_baseline) ==
  LET table(basic) == jpeg_add_quant_table(basic, jpeg_quality_scaling(quality), force_baseline)
  IN  [c EXCEPT !.quant_tbl_ptrs[0] = table(StdLuminance),
                !.quant_tbl_ptrs[1] = table(StdChrominance)]
-----------------------------------------------------------------------------
(* Parameters.                                                             *)

StdHuff(slot) == slot + 1         \* std_huff_tables: luminance, chrominance

SET_COMP(id, quant, huff) ==
  [component_id |-> id, quant_tbl_no |-> quant, MCU_blocks |-> 1,
   dc_tbl_no |-> huff, ac_tbl_no |-> huff]

jpeg_set_colorspace(c, colorspace, noOfComponents) ==
  LET luminance(id) == SET_COMP(id, 0, 0)
      chrominance(id) == SET_COMP(id, 1, 1)
      comps == CASE colorspace = "GRAYSCALE" -> <<luminance(1)>>
                 [] colorspace = "RGB" -> [ci \in 1 .. 3 |-> luminance(<<82, 71, 66>>[ci])]
                 [] colorspace = "YCbCr" -> <<luminance(1), chrominance(2), chrominance(3)>>
                 [] colorspace = "CMYK" -> [ci \in 1 .. 4 |-> luminance(<<67, 77, 89, 75>>[ci])]
                 [] colorspace = "YCCK" ->
                      <<luminance(1), chrominance(2), chrominance(3), luminance(4)>>
                 [] OTHER -> [ci \in 1 .. noOfComponents |-> luminance(ci - 1)]
  IN  [c EXCEPT !.jpeg_color_space = colorspace,
                !.write_JFIF_header = colorspace \in {"GRAYSCALE", "YCbCr"},
                !.Adobe_transform = CASE colorspace \in {"RGB", "CMYK"} -> 0
                                      [] colorspace = "YCCK" -> 2
                                      [] OTHER -> -1,
                !.comp_info = comps]

jpeg_set_defaults(c, in_color_space, noOfComponents) ==
  jpeg_set_colorspace(
    [jpeg_set_quality(c, 75, TRUE) EXCEPT
       !.huff_tbl_ptrs = [class \in DOMAIN @ |->
          [s \in HuffSlots |-> IF s \in {0, 1} THEN StdHuff(s) ELSE @[class][s]]],
       !.restart_interval = 0],
    IF in_color_space = "RGB" THEN "YCbCr" ELSE in_color_space, noOfComponents)

(* What is critical: the tables, and of each component its id, its sampling *)
(* and its slot.  A component that has latched another table than the slot  *)
(* holds now is refused, but before the first scan none has latched any.    *)
jpeg_copy_critical_parameters(d, c) ==
  LET set == jpeg_set_colorspace(
               jpeg_set_defaults(c, d.jpeg_color_space, Len(d.comp_info)),
               d.jpeg_color_space, Len(d.comp_info))
      slot(ci) == d.comp_info[ci].quant_tbl_no
      absent(ci) == slot(ci) \notin QuantSlots \/ d.quant_tbl_ptrs[slot(ci)] = NoTable
      redefined(ci) == d.comp_info[ci].quant_table \notin {NoTable, d.quant_tbl_ptrs[slot(ci)]}
  IN  IF c.global_state # "CSTATE_START" THEN Failed(c, "JERR_BAD_STATE")
      ELSE IF Len(d.comp_info) > MAX_COMPONENTS THEN Failed(c, "JERR_COMPONENT_COUNT")
      ELSE IF \E ci \in DOMAIN d.comp_info : absent(ci) THEN Failed(c, "JERR_NO_QUANT_TABLE")
      ELSE IF \E ci \in DOMAIN d.comp_info : redefined(ci)
           THEN Failed(c, "JERR_MISMATCHED_QUANT_TABLE")
      ELSE
             [set EXCEPT
               !.quant_tbl_ptrs = [s \in QuantSlots |->
                 IF d.quant_tbl_ptrs[s] # NoTable THEN d.quant_tbl_ptrs[s] ELSE @[s]],
               !.comp_info = [ci \in DOMAIN d.comp_info |->
                 [@[ci] EXCEPT !.component_id = d.comp_info[ci].component_id,
                               !.quant_tbl_no = slot(ci),
                               !.MCU_blocks = d.comp_info[ci].MCU_blocks]]]
-----------------------------------------------------------------------------
(* The file.                                                               *)

Put(c, units) == [c EXCEPT !.buffer = @ \o units]

\* What a list names, each once, in the order of the first uses: a table is
\* sent for the first component that uses it.
FirstUses(list) ==
  LET uses == {i \in DOMAIN list : \A j \in 1 .. i - 1 : list[j] # list[i]}
      use(k) == CHOOSE i \in uses : Cardinality({j \in uses : j < i}) = k - 1
  IN  [k \in 1 .. Cardinality(uses) |-> list[use(k)]]

emit_dqt(c) ==
  LET slots == FirstUses([ci \in DOMAIN c.comp_info |-> c.comp_info[ci].quant_tbl_no])
  IN  [k \in DOMAIN slots |-> DQT(slots[k], c.quant_tbl_ptrs[slots[k]])]

emit_dht(c) ==
  LET tables == FirstUses([k \in 1 .. 2 * Len(c.comp_info) |->
                  LET comp == c.comp_info[(k + 1) \div 2]
                  IN  IF k % 2 = 1 THEN <<"DC", comp.dc_tbl_no>> ELSE <<"AC", comp.ac_tbl_no>>])
  IN  [k \in DOMAIN tables |->
         DHT(tables[k][1], tables[k][2], c.huff_tbl_ptrs[tables[k][1]][tables[k][2]])]

emit_jfif_app0(c) == IF c.write_JFIF_header THEN <<APP0>> ELSE << >>

emit_adobe_app14(c) == IF c.Adobe_transform # -1 THEN <<APP14(c.Adobe_transform)>> ELSE << >>

write_file_header(c) == Put(c, <<SOI>> \o emit_jfif_app0(c) \o emit_adobe_app14(c))

\* The samples are 8 bits and the code is Huffman's, so it is a baseline image.
emit_sof(c) ==
  <<SOF("sequential", [ci \in DOMAIN c.comp_info |->
      [component_id |-> c.comp_info[ci].component_id,
       quant_tbl_no |-> c.comp_info[ci].quant_tbl_no,
       MCU_blocks   |-> c.comp_info[ci].MCU_blocks]])>>

emit_dri(c) == <<DRI(c.restart_interval)>>

emit_sos(c) ==
  <<SOS([ci \in DOMAIN c.comp_info |->
           [component_id |-> c.comp_info[ci].component_id,
            dc_tbl_no |-> c.comp_info[ci].dc_tbl_no,
            ac_tbl_no |-> c.comp_info[ci].ac_tbl_no]],
        {"DC", "AC"})>>

write_frame_header(c) == Put(c, emit_dqt(c) \o emit_sof(c))

\* The interval is sent when it has changed, and it was 0 at the SOI.
write_scan_header(c) ==
  Put(c, emit_dht(c) \o (IF c.restart_interval # 0 THEN emit_dri(c) ELSE << >>) \o emit_sos(c))

write_file_trailer(c) == Put(c, <<EOI>>)

\* The modules of the library are chosen, and the last one writes the header.
transencode_master_selection(c) == write_file_header(c)

\* jpeg_write_coefficients: only the header of the file is written at once.
jpeg_write_coefficients(c) ==
  IF c.global_state # "CSTATE_START" THEN Failed(c, "JERR_BAD_STATE")
  ELSE [transencode_master_selection(c) EXCEPT !.global_state = "CSTATE_WRCOEFS"]

\* prepare_for_pass: without a script there is one scan of all components, which
\* must not be too many.
prepare_for_pass(c) ==
  IF Len(c.comp_info) > MAX_COMPS_IN_SCAN THEN Failed(c, "JERR_COMPONENT_COUNT")
  ELSE IF ~FitsMCU(c.comp_info, [ci \in DOMAIN c.comp_info |-> ci])
       THEN Failed(c, "JERR_BAD_MCU_SIZE")
  ELSE [write_scan_header(write_frame_header(c)) EXCEPT
         !.iMCU_row_num = 0, !.is_last_pass = TRUE]

\* compress_output, for one row: a coefficient that has become too large for
\* its code ends the program.
compress_output(c, arrays, tooLarge(_)) ==
  LET row == c.iMCU_row_num + 1
      contents == [ci \in DOMAIN c.comp_info |-> arrays[ci][row]]
      code == [interval |-> c.restart_interval,
               tables |-> [ci \in DOMAIN c.comp_info |->
                 <<c.huff_tbl_ptrs["DC"][c.comp_info[ci].dc_tbl_no],
                   c.huff_tbl_ptrs["AC"][c.comp_info[ci].ac_tbl_no]>>]]
  IN  IF \E ci \in DOMAIN contents : tooLarge(contents[ci])
      THEN Failed(c, "JERR_BAD_DCT_COEF")
      ELSE [Put(c, <<ROW(contents, code)>>) EXCEPT !.iMCU_row_num = row]

\* empty_output_buffer, as often as the buffer is full, or term_destination, all
\* that is left: how many units go to the file.
\* (Mutant: what does not fill a buffer is never written.)
EmptiedWhenFull(c, all) == (Len(c.buffer) \div OUTPUT_BUF_SIZE) * OUTPUT_BUF_SIZE
Emptied(c, all) ==
  IF all THEN Len(c.buffer) ELSE (Len(c.buffer) \div OUTPUT_BUF_SIZE) * OUTPUT_BUF_SIZE
-----------------------------------------------------------------------------
(* What the object of the writer is made of: a component of it is always   *)
(* on slots there are.                                                     *)
WriteErrors ==
  {"JERR_BAD_STATE", "JERR_COMPONENT_COUNT", "JERR_NO_QUANT_TABLE", "JERR_MISMATCHED_QUANT_TABLE",
   "JERR_BAD_MCU_SIZE", "JERR_BAD_DCT_COEF", "JERR_FILE_WRITE"}

WriterOK(c) ==
  /\ c.global_state \in {"CSTATE_START", "CSTATE_WRCOEFS"}
  /\ c.error \in WriteErrors \cup {"none"}
  /\ IsStream(c.buffer)
  /\ {c.write_JFIF_header, c.is_last_pass} \subseteq BOOLEAN
  /\ c.iMCU_row_num \in 0 .. NoOfRows

ParametersOK(c) ==
  /\ c.restart_interval \in Nat /\ c.Adobe_transform \in Int
  /\ c.jpeg_color_space \in ColorSpaces
  /\ c.quant_tbl_ptrs \in [QuantSlots -> Nat]
  /\ c.huff_tbl_ptrs \in [{"DC", "AC"} -> [HuffSlots -> Nat]]
  /\ c.comp_info \in Seq([component_id : Nat, quant_tbl_no : QuantSlots, MCU_blocks : Nat,
                          dc_tbl_no : HuffSlots, ac_tbl_no : HuffSlots])

IsCompress(c) == DOMAIN c = DOMAIN jpeg_compress_struct /\ WriterOK(c) /\ ParametersOK(c)
=============================================================================
