----------------------------- MODULE OutputRows -----------------------------
(***************************************************************************)
(* The way of sample rows from the decoder of an image to the application: *)
(* the main buffer with its lists of pointers (jdmainct.c), upsampling     *)
(* (jdsample.c), or upsampling merged with colour conversion (jdmerge.c),  *)
(* and postprocessing for colour quantization (jdpostct.c), driven by      *)
(* jpeg_read_scanlines (jdapistd.c).  A row stands for its samples: its    *)
(* number in its component, and the output pass it was decoded in.         *)
(***************************************************************************)
EXTENDS ImageSizes, Functions

CONSTANTS
  FullSize,       \* DCTSIZE, a power of two
  Shows,          \* what is asked for: [width, height, comps, M, fancy, color, quantize],
                  \* where M is min_DCT_scaled_size and comps have h and v
  BufferHeights,  \* max_lines: how many lines the application takes at once
  MaxPasses       \* bound: output passes in buffered-image mode

VARIABLES
  shown,          \* what is asked for
  lines           \* main, upsample and post, output_scanline, and as a history the
                  \* lines of the last call

outputVars == <<shown, lines>>

Undefined == <<0, 0>>        \* the row of a buffer nobody has written
-----------------------------------------------------------------------------
(* jpeg_calc_output_dimensions and the choice of the modules.              *)

\* Small components are scaled up by the IDCT as far as both directions allow.
ScaledSize(p, c) ==
  Max({s \in p.M .. FullSize :
         /\ \E k \in 0 .. FullSize : s = p.M * 2 ^ k
         /\ s = p.M \/ (c.h * s <= HMax(p) * p.M /\ c.v * s <= VMax(p) * p.M)})

\* use_merged_upsample
UsesMerged(p) ==
  /\ ~p.fancy /\ p.color /\ Len(p.comps) = 3
  /\ p.comps[1].h = 2 /\ p.comps[1].v <= 2
  /\ \A ci \in {2, 3} : p.comps[ci].h = 1 /\ p.comps[ci].v = 1
  /\ \A ci \in 1 .. 3 : ScaledSize(p, p.comps[ci]) = p.M

\* jinit_upsampler
Upsampling(h_expand, v_expand, fancy) ==
  CASE h_expand = 1 /\ v_expand = 1 -> "fullsize"
    [] h_expand = 2 /\ v_expand = 1 -> IF fancy THEN "h2v1_fancy" ELSE "h2v1"
    [] h_expand = 2 /\ v_expand = 2 -> IF fancy THEN "h2v2_fancy" ELSE "h2v2"
    [] OTHER -> "int"

\* What is calculated of a component; rowgroup, columns: of it in a row group.
Calculated(p, c, size, rowgroup, columns) ==
  [v |-> c.v, DCT_scaled_size |-> size, rowgroup |-> rowgroup,
   downsampled_width |-> DivRoundUp(p.width * c.h * size, HMax(p) * FullSize),
   downsampled_height |-> DivRoundUp(p.height * c.v * size, VMax(p) * FullSize),
   height_in_blocks |-> DivRoundUp(p.height * c.v, VMax(p) * FullSize),
   h_expand |-> HMax(p) \div columns, v_expand |-> VMax(p) \div rowgroup,
   upsample |-> Upsampling(HMax(p) \div columns, VMax(p) \div rowgroup,
                           p.fancy /\ p.M > 1
                             /\ DivRoundUp(p.width * c.h * size, HMax(p) * FullSize) > 2)]
CalculatedComponent(p, c) ==
  Calculated(p, c, ScaledSize(p, c), (c.v * ScaledSize(p, c)) \div p.M,
             (c.h * ScaledSize(p, c)) \div p.M)
CalculatedImage(p, merged, comps) ==
  [M |-> p.M, quantize |-> p.quantize, merged |-> merged, comps |-> comps,
   max_v_samp_factor |-> VMax(p),
   output_width |-> DivRoundUp(p.width, FullSize \div p.M),
   output_height |-> DivRoundUp(p.height, FullSize \div p.M),
   total_iMCU_rows |-> DivRoundUp(p.height, VMax(p) * FullSize),
   need_context_rows |-> ~merged /\ \E ci \in DOMAIN comps : comps[ci].upsample = "h2v2_fancy"]
OutputDimensions(p) ==
  CalculatedImage(p, UsesMerged(p),
                  [ci \in DOMAIN p.comps |-> CalculatedComponent(p, p.comps[ci])])

\* Ratios that are no whole numbers are refused.
IsWhole(p) ==
  \A ci \in DOMAIN p.comps :
    /\ HMax(p) % ((p.comps[ci].h * ScaledSize(p, p.comps[ci])) \div p.M) = 0
    /\ VMax(p) % ((p.comps[ci].v * ScaledSize(p, p.comps[ci])) \div p.M) = 0

\* Only three components can be quantized in two passes; master_selection takes
\* one pass for any other number.
MayTakeTwoPasses(p) == p.quantize = "two" => Len(p.comps) = 3

ASSUME ShowsAssumption ==
  \A p \in Shows : IsWhole(p) /\ MayTakeTwoPasses(p) /\ Len(p.comps) > 0

OutComps(p) == DOMAIN p.comps

\* The columns mixed to the samples of a line, again "near" and "next": those of
\* the fancy routines, whose first and last column are special cases, and of the
\* others, which repeat each sample.
FancyColumns(size) ==
  <<<<0, 0>>, <<0, 1>>>>
    \o FlattenSeq([c \in 1 .. size - 2 |-> <<<<c, c - 1>>, <<c, c + 1>>>>])
    \o <<<<size - 1, size - 2>>, <<size - 1, size - 1>>>>
RepeatedColumns(expand, width) ==
  FlattenSeq([c \in 1 .. DivRoundUp(width, expand) |-> [k \in 1 .. expand |-> <<c - 1, c - 1>>]])
Columns(p, c) ==
  IF c.upsample \in {"h2v1_fancy", "h2v2_fancy"} THEN FancyColumns(c.downsampled_width)
  ELSE RepeatedColumns(c.h_expand, p.output_width)
-----------------------------------------------------------------------------
(* The main buffer: rows, and two lists of pointers to them.               *)

WorkspaceGroups(p) == p.M + (IF p.need_context_rows THEN 2 ELSE 0)
Workspace(p) ==
  [ci \in OutComps(p) |->
     [i \in 0 .. p.comps[ci].rowgroup * WorkspaceGroups(p) - 1 |-> Undefined]]

\* Without context the buffer is passed itself, a list of pointers in order.
PlainPointers(p) ==
  [ci \in OutComps(p) |-> [i \in 0 .. p.comps[ci].rowgroup * p.M - 1 |-> i]]

\* make_funny_pointers; what is not set is -1.
SwappedPointer(M, g, i) ==
  CASE i \in g * (M - 2) .. g * M - 1 -> i + 2 * g
    [] i \in g * M .. g * (M + 2) - 1 -> i - 2 * g
    [] OTHER -> i
FunnyPointers(p) ==
  [which \in 0 .. 1 |-> [ci \in OutComps(p) |->
     [i \in -p.comps[ci].rowgroup .. p.comps[ci].rowgroup * (p.M + 3) - 1 |->
        CASE i \in 0 .. p.comps[ci].rowgroup * (p.M + 2) - 1 ->
               IF which = 0 THEN i ELSE SwappedPointer(p.M, p.comps[ci].rowgroup, i)
          [] i < 0 /\ which = 0 -> 0
          [] OTHER -> -1]]]

\* set_wraparound_pointers, behind the first iMCU row
Wraparound(p, xbuffer) ==
  [which \in 0 .. 1 |-> [ci \in OutComps(p) |-> [i \in DOMAIN xbuffer[which][ci] |->
     CASE i < 0 -> xbuffer[which][ci][i + p.comps[ci].rowgroup * (p.M + 2)]
       [] i >= p.comps[ci].rowgroup * (p.M + 2) ->
            xbuffer[which][ci][i - p.comps[ci].rowgroup * (p.M + 2)]
       [] OTHER -> xbuffer[which][ci][i]]]]

\* set_bottom_pointers: the last row stands for those behind it.
RowsLeft(c) == ((c.downsampled_height - 1) % (c.v * c.DCT_scaled_size)) + 1
BelowBottom(list, rows_left, rowgroup) ==
  [i \in DOMAIN list |->
     list[IF i \in rows_left .. rows_left + 2 * rowgroup - 1 THEN rows_left - 1 ELSE i]]
BottomPointers(p, list) ==
  [ci \in OutComps(p) |->
     BelowBottom(list[ci], RowsLeft(p.comps[ci]), p.comps[ci].rowgroup)]

\* decompress_onepass writes an iMCU row through a list of pointers, but no
\* blocks from behind the last.
IMCUHeight(c) == c.v * c.DCT_scaled_size
WrittenRows(c, imcu) ==
  {i \in 0 .. IMCUHeight(c) - 1 : imcu * c.v + i \div c.DCT_scaled_size < c.height_in_blocks}
RowWritten(old, pass, first, at) == IF at = {} THEN old ELSE <<pass, first + Max(at)>>
Decompressed(p, d, list) ==
  [d EXCEPT !.imcu = @ + 1,
            !.buffer = [ci \in OutComps(p) |-> [n \in DOMAIN d.buffer[ci] |->
               RowWritten(d.buffer[ci][n], d.pass, d.imcu * IMCUHeight(p.comps[ci]),
                          {i \in WrittenRows(p.comps[ci], d.imcu) : list[ci][i] = n})]]]
-----------------------------------------------------------------------------
(* Upsampling.  A line of one component is mixed of two rows, three parts  *)
(* of "near" and one of "next", which are the same in a box filter.        *)

\* The list of pointers that is passed to the postprocessor, and a row of it.
PassedList(p, d, which) == IF p.need_context_rows THEN d.xbuffer[which] ELSE PlainPointers(p)
RowAtPointer(d, ci, n) == IF n = -1 THEN Undefined ELSE d.buffer[ci][n]
BoxLine(row) == [near |-> row, next |-> row]

\* A full-size component is not copied: the colour conversion reads where the
\* list points when the line is emitted.
UpsampledLine(c, o, In(_)) ==
  CASE c.upsample = "fullsize" -> BoxLine(Undefined)
    [] c.upsample = "h2v2_fancy" ->
         [near |-> In(o \div 2), next |-> In(o \div 2 + (IF o % 2 = 0 THEN -1 ELSE 1))]
    [] OTHER -> BoxLine(In(o \div c.v_expand))
UpsampledComponent(p, d, ci, first) ==
  [aliased |-> p.comps[ci].upsample = "fullsize", which |-> d.whichptr, first |-> first,
   rows |-> [o \in 0 .. p.max_v_samp_factor - 1 |->
      UpsampledLine(p.comps[ci], o,
                    LAMBDA i : RowAtPointer(d, ci, PassedList(p, d, d.whichptr)[ci][first + i]))]]
ConvertedComponent(p, d, ci, buf, o) ==
  IF buf.aliased
  THEN BoxLine(RowAtPointer(d, ci, PassedList(p, d, buf.which)[ci][buf.first + o]))
  ELSE buf.rows[o]
Converted(p, d, o) ==
  [ci \in OutComps(p) |-> ConvertedComponent(p, d, ci, d.color_buf[ci], o)]

\* sep_upsample.  What it emits, at most limit lines, is in "fresh".
ColorBufFilled(p, d) ==
  IF d.next_row_out < p.max_v_samp_factor THEN d
  ELSE [d EXCEPT !.color_buf = [ci \in OutComps(p) |->
                    UpsampledComponent(p, d, ci, d.rowgroup_ctr * p.comps[ci].rowgroup)],
                 !.next_row_out = 0]
LinesEmitted(p, d, num_rows) ==
  [d EXCEPT !.fresh = [n \in 1 .. num_rows |-> Converted(p, d, d.next_row_out + n - 1)],
            !.rows_to_go = @ - num_rows,
            !.next_row_out = @ + num_rows,
            !.rowgroup_ctr = @ + (IF d.next_row_out + num_rows >= p.max_v_samp_factor THEN 1 ELSE 0)]
SepLimited(p, d, limit) ==
  LinesEmitted(p, d, Min({p.max_v_samp_factor - d.next_row_out, d.rows_to_go, limit}))
SepUpsampled(p, d, limit) == SepLimited(p, ColorBufFilled(p, d), limit)

\* merged_2v_upsample and merged_1v_upsample: lines go to the application at
\* once, and the second one to a spare row when there is no place for it.
MergedLine(p, d, o) ==
  [ci \in OutComps(p) |->
     BoxLine(d.buffer[ci][d.rowgroup_ctr * p.comps[ci].rowgroup
                            + (IF p.comps[ci].rowgroup = 1 THEN 0 ELSE o)])]
MergedUpsampled(p, d, num_rows) ==
  CASE p.max_v_samp_factor = 1 ->
         [d EXCEPT !.fresh = <<MergedLine(p, d, 0)>>, !.rowgroup_ctr = @ + 1]
    [] p.max_v_samp_factor = 2 /\ d.spare_row # << >> ->
         [d EXCEPT !.fresh = d.spare_row, !.spare_row = << >>,
                   !.rows_to_go = @ - 1, !.rowgroup_ctr = @ + 1]
    [] OTHER ->
         [d EXCEPT !.fresh = [n \in 1 .. num_rows |-> MergedLine(p, d, n - 1)],
                   !.spare_row = IF num_rows > 1 THEN << >> ELSE <<MergedLine(p, d, 1)>>,
                   !.rows_to_go = @ - num_rows,
                   !.rowgroup_ctr = @ + (IF num_rows > 1 THEN 1 ELSE 0)]
Upsampled(p, d, limit) ==
  IF p.merged THEN MergedUpsampled(p, d, Min({2, d.rows_to_go, limit}))
  ELSE SepUpsampled(p, d, limit)
-----------------------------------------------------------------------------
(* Postprocessing.  Quantization replaces colours and keeps lines.         *)

GivenOut(d, rows) == [d EXCEPT !.given = @ \o rows, !.out_row_ctr = @ + Len(rows)]
StripAdvanced(p, d) ==
  IF d.next_row < p.max_v_samp_factor THEN d
  ELSE [d EXCEPT !.starting_row = @ + p.max_v_samp_factor, !.next_row = 0]

\* post_process_prepass: nothing is emitted, the whole image is kept.
Kept(d, at) ==
  [d EXCEPT !.next_row = @ + Len(d.fresh),
            !.whole_image = [y \in DOMAIN @ |->
               IF y \in at .. at + Len(d.fresh) - 1 THEN d.fresh[y - at + 1] ELSE @[y]]]
PrepassDone(p, d) ==
  StripAdvanced(p, GivenOut(Kept(d, d.starting_row + d.next_row), d.fresh))

\* post_process_2pass
SecondPassEmitted(p, d, num_rows) ==
  StripAdvanced(p, GivenOut(
    [d EXCEPT !.next_row = @ + num_rows],
    [n \in 1 .. num_rows |-> d.whole_image[d.starting_row + d.next_row + n - 1]]))
SecondPassed(p, d, avail) ==
  SecondPassEmitted(p, d, Min({p.max_v_samp_factor - d.next_row, avail - d.out_row_ctr,
                               p.output_height - d.starting_row}))

\* What the upsampler may emit, at most a strip where it is emitted to the
\* buffer of the postprocessor (post_process_1pass).
UpsampleLimit(p, d, avail) ==
  CASE d.dummy -> p.max_v_samp_factor - d.next_row
    [] ~d.dummy /\ p.quantize = "one" -> Min({avail - d.out_row_ctr, p.max_v_samp_factor})
    [] OTHER -> avail - d.out_row_ctr
PostDone(p, d) == IF d.dummy THEN PrepassDone(p, d) ELSE GivenOut(d, d.fresh)
PostProcessed(p, d, avail) == PostDone(p, Upsampled(p, d, UpsampleLimit(p, d, avail)))
-----------------------------------------------------------------------------
(* The main controller.                                                    *)

FilledMain(p, d) ==
  IF d.buffer_full THEN d
  ELSE [Decompressed(p, d, PassedList(p, d, d.whichptr)) EXCEPT !.buffer_full = TRUE]

\* process_data_simple_main
SimpleDone(p, d) ==
  IF d.rowgroup_ctr < p.M THEN d
  ELSE [d EXCEPT !.buffer_full = FALSE, !.rowgroup_ctr = 0]

\* process_data_context_main, what each case of its switch does to the buffers.
PostponedDone(d) ==
  IF d.rowgroup_ctr < d.rowgroups_avail THEN d ELSE [d EXCEPT !.context_state = "prepare"]
\* (Mutant: all row groups of an iMCU row are passed on before the next is read.)
PreparedForAll(p, d) ==
  [d EXCEPT !.rowgroup_ctr = 0, !.rowgroups_avail = p.M, !.context_state = "process"]
PreparedForIMCU(p, d) ==
  LET last == d.imcu = p.total_iMCU_rows
  IN  [d EXCEPT !.rowgroup_ctr = 0,
                !.rowgroups_avail =
                   IF last THEN DivRoundUp(RowsLeft(p.comps[1]), p.comps[1].rowgroup) ELSE p.M - 1,
                !.xbuffer[d.whichptr] = IF last THEN BottomPointers(p, @) ELSE @,
                !.context_state = "process"]
IMCUDone(p, d) ==
  IF d.rowgroup_ctr < d.rowgroups_avail THEN d
  ELSE [d EXCEPT !.xbuffer = IF d.imcu = 1 THEN Wraparound(p, @) ELSE @,
                 !.whichptr = 1 - @,
                 !.buffer_full = FALSE,
                 !.rowgroup_ctr = p.M + 1, !.rowgroups_avail = p.M + 2,
                 !.context_state = "postponed"]
-----------------------------------------------------------------------------
(* The output passes.                                                      *)

\* prepare_for_output_pass: the start_pass routines of all modules.  Buffers and
\* the virtual array keep what they hold.
PassStarted(p, d) ==
  [d EXCEPT !.pass = @ + 1, !.imcu = 0, !.dummy = p.quantize = "two",
            !.xbuffer = FunnyPointers(p), !.whichptr = 0, !.context_state = "prepare",
            !.buffer_full = FALSE, !.rowgroup_ctr = 0,
            !.next_row_out = p.max_v_samp_factor, !.rows_to_go = p.output_height, !.spare_row = << >>,
            !.starting_row = 0, !.next_row = 0,
            !.output_scanline = 0, !.given = << >>]
NoLines(p) ==
  [pass |-> 0, imcu |-> 0, dummy |-> FALSE,
   buffer |-> Workspace(p), xbuffer |-> FunnyPointers(p), whichptr |-> 0,
   context_state |-> "prepare", buffer_full |-> FALSE, rowgroup_ctr |-> 0, rowgroups_avail |-> 0,
   color_buf |-> [ci \in OutComps(p) |-> [aliased |-> TRUE, which |-> 0, first |-> 0,
                                          rows |-> [o \in 0 .. p.max_v_samp_factor - 1 |-> BoxLine(Undefined)]]],
   next_row_out |-> 0, rows_to_go |-> 0, spare_row |-> << >>, fresh |-> << >>,
   starting_row |-> 0, next_row |-> 0,
   whole_image |-> [y \in 0 .. p.max_v_samp_factor * DivRoundUp(p.output_height, p.max_v_samp_factor) - 1 |->
                      [ci \in OutComps(p) |-> BoxLine(Undefined)]],
   output_scanline |-> 0, out_row_ctr |-> 0, given |-> << >>]

OutputInit ==
  /\ shown \in {OutputDimensions(p) : p \in Shows}
  /\ lines = PassStarted(shown, NoLines(shown))

\* A call of process_data that counts lines from ctr on.
Called(ctr) == [lines EXCEPT !.given = << >>, !.out_row_ctr = ctr]
Returned(d, ctr) ==
  lines' = [d EXCEPT !.fresh = << >>, !.out_row_ctr = 0,
                     !.output_scanline = @ + d.out_row_ctr - ctr]
SimpleMain(filled, avail, ctr) ==
  \E d \in {SimpleDone(shown, PostProcessed(shown, filled, avail))} : Returned(d, ctr)
ProcessIMCU(ready, avail, ctr) ==
  \E d \in {IMCUDone(shown, PostProcessed(shown, ready, avail))} : Returned(d, ctr)
ProcessPostponed(filled, avail, ctr) ==
  \E d \in {PostponedDone(PostProcessed(shown, filled, avail))} :
    IF d.context_state = "postponed" \/ d.out_row_ctr >= avail THEN Returned(d, ctr)
    ELSE ProcessIMCU(PreparedForIMCU(shown, d), avail, ctr)
ContextMain(filled, avail, ctr) ==
  CASE filled.context_state = "postponed" -> ProcessPostponed(filled, avail, ctr)
    [] filled.context_state = "prepare" -> ProcessIMCU(PreparedForIMCU(shown, filled), avail, ctr)
    [] filled.context_state = "process" -> ProcessIMCU(filled, avail, ctr)
MainProcess(avail, ctr) ==
  \E filled \in {FilledMain(shown, Called(ctr))} :
    IF shown.need_context_rows THEN ContextMain(filled, avail, ctr) ELSE SimpleMain(filled, avail, ctr)
\* The last of two passes needs the postprocessor only.
CrankPost(avail, ctr) ==
  \E d \in {SecondPassed(shown, Called(ctr), avail)} : Returned(d, ctr)
Unfinished == lines.output_scanline < shown.output_height

\* The dummy pass, in output_pass_setup: its counter is output_scanline itself.
CrankDummyPass ==
  /\ lines.dummy /\ Unfinished
  /\ MainProcess(0, lines.output_scanline)
  /\ UNCHANGED shown
FinishDummyPass ==
  /\ lines.dummy /\ ~Unfinished
  /\ lines' = [lines EXCEPT !.dummy = FALSE, !.starting_row = 0, !.next_row = 0,
                            !.output_scanline = 0, !.given = << >>]
  /\ UNCHANGED shown

ReadScanlines ==
  /\ ~lines.dummy /\ Unfinished
  /\ \E max_lines \in BufferHeights :
       IF shown.quantize = "two" THEN CrankPost(max_lines, 0) ELSE MainProcess(max_lines, 0)
  /\ UNCHANGED shown

\* jpeg_finish_output and jpeg_start_output: a pass need not be completed.
StartOutput ==
  /\ ~lines.dummy /\ lines.pass < MaxPasses
  /\ lines' = PassStarted(shown, lines)
  /\ UNCHANGED shown

OutputNext == CrankDummyPass \/ FinishDummyPass \/ ReadScanlines \/ StartOutput

OutputSpec == OutputInit /\ [][OutputNext]_outputVars
-----------------------------------------------------------------------------
(* What a line should be, from the whole component.                        *)

Clamped(n, size) == Max({0, Min({n, size - 1})})
Nearest(n, expand) == n \div expand
NextRow(n, expand, fancy, size) ==
  IF ~fancy THEN Nearest(n, expand)
  ELSE Clamped(Nearest(n, expand) + (IF n % 2 = 0 THEN -1 ELSE 1), size)
LineOf(p, pass, y) ==
  [ci \in OutComps(p) |->
     [near |-> <<pass, Nearest(y, p.comps[ci].v_expand)>>,
      next |-> <<pass, NextRow(y, p.comps[ci].v_expand, p.comps[ci].upsample = "h2v2_fancy",
                             p.comps[ci].downsampled_height)>>]]

ColumnsMeetTheirNeighbours ==
  \A ci \in OutComps(shown), x \in 0 .. shown.output_width - 1 :
    Columns(shown, shown.comps[ci])[x + 1] =
      <<Nearest(x, shown.comps[ci].h_expand),
        NextRow(x, shown.comps[ci].h_expand, shown.comps[ci].upsample \in {"h2v1_fancy", "h2v2_fancy"},
                shown.comps[ci].downsampled_width)>>

\* Every call hands over the next lines of the image, at least one of them, and
\* each is mixed from the rows of this pass and the columns that surround it,
\* however the application divides the image among its calls.
FirstGiven == lines.output_scanline - Len(lines.given)
RowsMeetTheirNeighbours ==
  /\ \A n \in DOMAIN lines.given :
       FirstGiven + n - 1 < shown.output_height =>
         lines.given[n] = LineOf(shown, lines.pass, FirstGiven + n - 1)
  /\ lines.output_scanline > 0 => lines.given # << >>
  /\ lines.output_scanline = 0 /\ lines.pass = 1 => ColumnsMeetTheirNeighbours

\* No call hands over lines from below the image.
EndsAtTheBottom == lines.output_scanline <= shown.output_height
=============================================================================
