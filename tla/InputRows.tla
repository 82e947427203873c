----------------------------- MODULE InputRows -----------------------------
(***************************************************************************)
(* The way of sample rows from the application into the MCUs of a file:    *)
(* the preprocessor with its buffer of color-converted rows (jcprepct.c),  *)
(* downsampling (jcsample.c), the strip of the main controller             *)
(* (jcmainct.c) and the coefficient controller (jccoefct.c), driven by     *)
(* jpeg_write_scanlines or jpeg_write_raw_data (jcapistd.c), and the       *)
(* passes jpeg_finish_compress adds.  The destination may suspend.  A row  *)
(* stands for its samples, a block for the rows and the column it is of.   *)
(***************************************************************************)
EXTENDS ImageSizes, Functions

CONSTANTS
  BlockSize,     \* DCTSIZE
  Takes,         \* what is compressed: [width, height, comps, smoothing, raw,
                 \* scans, gather], where scans are sequences of components, and
                 \* gather says that statistics are made in passes of their own
  CallSizes,     \* num_lines: how many lines the application gives at once
  Budgets        \* how many MCUs the destination takes in a call

VARIABLES
  source,         \* what is compressed, with what is calculated of it
  feed           \* prep, main, coef, next_scanline, and as a history the MCUs
                 \* given to the entropy encoder in each pass

inputVars == <<source, feed>>

NoRow == -1      \* a row of a buffer nobody has written
-----------------------------------------------------------------------------
(* initial_setup, per_scan_setup and jinit_downsampler.                    *)

Downsampling(p, c) ==
  CASE c.h = HMax(p) /\ c.v = VMax(p) ->
         IF p.smoothing THEN "fullsize_smooth" ELSE "fullsize"
    [] c.h * 2 = HMax(p) /\ c.v = VMax(p) -> "h2v1"
    [] c.h * 2 = HMax(p) /\ c.v * 2 = VMax(p) ->
         IF p.smoothing THEN "h2v2_smooth" ELSE "h2v2"
    [] OTHER -> "int"
Smooths(c) == c.method \in {"fullsize_smooth", "h2v2_smooth"}

Measured(p, c) ==
  [h |-> c.h, v |-> c.v, method |-> Downsampling(p, c),
   h_expand |-> HMax(p) \div c.h, v_expand |-> VMax(p) \div c.v,
   width_in_blocks |-> DivRoundUp(p.width * c.h, HMax(p) * BlockSize),
   height_in_blocks |-> DivRoundUp(p.height * c.v, VMax(p) * BlockSize)]

\* Statistics are made of a scan in the pass before the one that writes it.
Passes(p) ==
  IF p.gather THEN FlattenSeq([n \in DOMAIN p.scans |-> <<p.scans[n], p.scans[n]>>]) ELSE p.scans

ImageMeasured(p, comps) ==
  [height |-> p.height, width |-> p.width, raw |-> p.raw, comps |-> comps,
   max_v_samp_factor |-> VMax(p),
   total_iMCU_rows |-> DivRoundUp(p.height, VMax(p) * BlockSize),
   MCUs_across |-> DivRoundUp(p.width, HMax(p) * BlockSize),
   need_context_rows |-> \E ci \in DOMAIN comps : Smooths(comps[ci]),
   passes |-> Passes(p)]
InputDimensions(p) == ImageMeasured(p, [ci \in DOMAIN p.comps |-> Measured(p, p.comps[ci])])

\* Ratios that are no whole numbers are refused.
ASSUME TakesAssumption ==
  \A p \in Takes : \A ci \in DOMAIN p.comps :
    HMax(p) % p.comps[ci].h = 0 /\ VMax(p) % p.comps[ci].v = 0

InComps(p) == DOMAIN p.comps
FullBuffer(p) == Len(p.passes) > 1
LastiMCURow(p) == p.total_iMCU_rows - 1

MCUsAcross(p, cis) ==
  IF Len(cis) > 1 THEN p.MCUs_across ELSE p.comps[cis[1]].width_in_blocks
BlocksAcross(p, cis, ci) == IF Len(cis) > 1 THEN p.comps[ci].h ELSE 1
BlocksDown(p, cis, ci) == IF Len(cis) > 1 THEN p.comps[ci].v ELSE 1
LastColBlocks(p, cis, ci) ==
  IF Len(cis) > 1 THEN Left(p.comps[ci].width_in_blocks, p.comps[ci].h) ELSE 1
RealBlockRows(p, iMCU_row, ci) ==
  IF iMCU_row < LastiMCURow(p) THEN p.comps[ci].v
  ELSE Left(p.comps[ci].height_in_blocks, p.comps[ci].v)
MCURows(p, cis, iMCU_row) == IF Len(cis) > 1 THEN 1 ELSE RealBlockRows(p, iMCU_row, cis[1])
-----------------------------------------------------------------------------
(* The preprocessor.  In f are the state of all controllers and, during a  *)
(* call, in_row_ctr, in_rows_avail and what the destination takes yet.     *)

\* The columns of the image a sample is made of, "members" and "near"; the
\* buffers are expanded to the right by repeating the last column.
Expanded(p, columns) == [n \in DOMAIN columns |-> Min({columns[n], p.width - 1})]
MemberColumns(c, x) == [n \in 1 .. c.h_expand |-> x * c.h_expand + n - 1]
NearColumns(c, x, output_cols) ==
  <<IF x = 0 THEN 0 ELSE x * c.h_expand - 1,
    IF x = output_cols - 1 THEN (x + 1) * c.h_expand - 1 ELSE (x + 1) * c.h_expand>>
SampleColumns(p, c, x) ==
  [members |-> Expanded(p, MemberColumns(c, x)),
   near |-> IF Smooths(c) THEN Expanded(p, NearColumns(c, x, c.width_in_blocks * BlockSize))
            ELSE << >>]

\* The conversion buffer: in context mode five row groups of pointers, the first
\* and last of which are those of the last and first real row group.
BufferRows(p) == p.max_v_samp_factor * (IF p.need_context_rows THEN 3 ELSE 1)
TrueRow(p, i) == i % BufferRows(p)

\* color_convert
RowsConverted(f, numrows) ==
  [f EXCEPT !.color_buf =
              [i \in DOMAIN f.color_buf |->
                 IF i \in f.next_buf_row .. f.next_buf_row + numrows - 1
                 THEN f.next_scanline + f.in_row_ctr + (i - f.next_buf_row)
                 ELSE f.color_buf[i]]]
RowsCounted(f, numrows) ==
  [f EXCEPT !.in_row_ctr = @ + numrows, !.next_buf_row = @ + numrows, !.rows_to_go = @ - numrows]
Fits(f, stop) == Min({stop - f.next_buf_row, f.in_rows_avail - f.in_row_ctr})

\* The dummy context above the image, "if first time through".
TopRows(p, buf) ==
  [i \in DOMAIN buf |->
     IF \E row \in 1 .. p.max_v_samp_factor : i = TrueRow(p, -row) THEN buf[0] ELSE buf[i]]
TopPadded(p, f) ==
  IF f.rows_to_go = p.height THEN [f EXCEPT !.color_buf = TopRows(p, @)] ELSE f

\* expand_bottom_edge, of the conversion buffer
BottomExpanded(p, f, stop) ==
  [f EXCEPT !.color_buf =
              [i \in DOMAIN f.color_buf |->
                 IF i \in f.next_buf_row .. stop - 1 THEN f.color_buf[TrueRow(p, f.next_buf_row - 1)]
                 ELSE f.color_buf[i]],
            !.next_buf_row = stop]

\* sep_downsample and its methods, one row of a component from those at start on
DownsampledRow(p, c, buf, start) ==
  [members |-> [n \in 1 .. c.v_expand |-> buf[start + n - 1]],
   near |-> IF Smooths(c)
            THEN <<buf[TrueRow(p, start - 1)], buf[TrueRow(p, start + c.v_expand)]>>
            ELSE << >>]
DownsampledGroup(p, c, buf, strip, start, group) ==
  [r \in DOMAIN strip |->
     IF r \in group * c.v .. (group + 1) * c.v - 1
     THEN DownsampledRow(p, c, buf, start + (r - group * c.v) * c.v_expand)
     ELSE strip[r]]
Downsampled(p, f, start) ==
  [f EXCEPT !.strip = [ci \in InComps(p) |->
                         DownsampledGroup(p, p.comps[ci], f.color_buf, f.strip[ci], start,
                                          f.rowgroup_ctr)],
            !.rowgroup_ctr = @ + 1]

\* pre_process_data: one row group is buffered.
Emptied(p, f) ==
  IF f.next_buf_row = p.max_v_samp_factor
  THEN [Downsampled(p, f, 0) EXCEPT !.next_buf_row = 0] ELSE f
BufferFilled(p, f) ==
  IF f.rows_to_go = 0 /\ f.next_buf_row < p.max_v_samp_factor
  THEN BottomExpanded(p, f, p.max_v_samp_factor) ELSE f
StripExpanded(p, f) ==
  IF f.rows_to_go = 0 /\ f.rowgroup_ctr < BlockSize
  THEN [f EXCEPT !.strip = [ci \in InComps(p) |->
                              [r \in DOMAIN f.strip[ci] |->
                                 f.strip[ci][Min({r, f.rowgroup_ctr * p.comps[ci].v - 1})]]],
                 !.rowgroup_ctr = BlockSize]
  ELSE f
GroupTaken(p, f, numrows) ==
  StripExpanded(p, Emptied(p, BufferFilled(p, RowsCounted(RowsConverted(f, numrows), numrows))))
RECURSIVE PreProcessData(_, _)
PreProcessData(p, f) ==
  IF f.in_row_ctr < f.in_rows_avail /\ f.rowgroup_ctr < BlockSize
  THEN PreProcessData(p, GroupTaken(p, f, Fits(f, p.max_v_samp_factor))) ELSE f

\* pre_process_context: three row groups are, and one is processed when the next
\* is there.
Wrapped(p, i) == IF i >= BufferRows(p) THEN 0 ELSE i
GroupAdvanced(p, f, next_buf_row) ==
  [f EXCEPT !.this_row_group = Wrapped(p, @ + p.max_v_samp_factor),
            !.next_buf_row = next_buf_row,
            !.next_buf_stop = next_buf_row + p.max_v_samp_factor]
GroupProcessed(p, f) ==
  IF f.next_buf_row = f.next_buf_stop
  THEN GroupAdvanced(p, Downsampled(p, f, f.this_row_group), Wrapped(p, f.next_buf_row)) ELSE f
RowsTaken(p, f, numrows) ==
  GroupProcessed(p, RowsCounted(TopPadded(p, RowsConverted(f, numrows)), numrows))
AtTheBottom(p, f) ==
  GroupProcessed(p, IF f.next_buf_row < f.next_buf_stop
                    THEN BottomExpanded(p, f, f.next_buf_stop) ELSE f)
RECURSIVE PreProcessContext(_, _)
PreProcessContext(p, f) ==
  CASE f.rowgroup_ctr < BlockSize /\ f.in_row_ctr < f.in_rows_avail ->
         PreProcessContext(p, RowsTaken(p, f, Fits(f, f.next_buf_stop)))
    [] f.rowgroup_ctr < BlockSize /\ f.in_row_ctr >= f.in_rows_avail /\ f.rows_to_go = 0 ->
         PreProcessContext(p, AtTheBottom(p, f))
    [] OTHER -> f
-----------------------------------------------------------------------------
(* The coefficient controller.                                             *)

\* forward_DCT of the block at row number row and column col of the strip.
DCTBlock(strip, row, col) ==
  [rows |-> [r \in 1 .. BlockSize |-> strip[row * BlockSize + r - 1]], column |-> col]
RealBlock(strip, row, col) ==
  [dc |-> DCTBlock(strip, row, col), ac |-> DCTBlock(strip, row, col)]
DummyBlock(dc) == [dc |-> dc, ac |-> << >>]

\* compress_data: MCU column x of MCU row y, blocks of one component.  A dummy
\* block repeats the one in front of it in the MCU.
DataBlock(c, strip, y, col, yindex, xindex, rows, blockcnt) ==
  CASE y + yindex < rows /\ xindex < blockcnt ->
         RealBlock(strip, y + yindex, col + xindex)
    [] y + yindex < rows /\ xindex >= blockcnt ->
         DummyBlock(DCTBlock(strip, y + yindex, col + blockcnt - 1))
    [] OTHER -> DummyBlock(DCTBlock(strip, rows - 1, col + blockcnt - 1))
DataBlocks(p, f, cis, ci, y, x) ==
  LET w == BlocksAcross(p, cis, ci)
  IN  [b \in 1 .. w * BlocksDown(p, cis, ci) |->
         DataBlock(p.comps[ci], f.strip[ci], y, x * w, (b - 1) \div w, (b - 1) % w,
                   RealBlockRows(p, f.iMCU_row_num, ci),
                   IF x < MCUsAcross(p, cis) - 1 THEN w ELSE LastColBlocks(p, cis, ci))]

\* compress_first_pass: all components go into the arrays, dummy blocks included.
FirstPassBlock(c, strip, row, col, rows) ==
  IF row < rows /\ col < c.width_in_blocks THEN RealBlock(strip, row, col)
  ELSE DummyBlock(DCTBlock(strip, Min({row, rows - 1}),
                           Min({(col \div c.h) * c.h + c.h - 1, c.width_in_blocks - 1})))
FirstPassArray(p, f, ci, array) ==
  [row \in DOMAIN array |->
     IF row \div p.comps[ci].v # f.iMCU_row_num THEN array[row]
     ELSE [col \in DOMAIN array[row] |->
             FirstPassBlock(p.comps[ci], f.strip[ci], row % p.comps[ci].v, col,
                            RealBlockRows(p, f.iMCU_row_num, ci))]]
FirstPassed(p, f) ==
  [f EXCEPT !.whole_image = [ci \in InComps(p) |-> FirstPassArray(p, f, ci, f.whole_image[ci])]]

\* compress_output: they come out of the arrays.
OutputBlocks(p, f, cis, ci, y, x) ==
  LET w == BlocksAcross(p, cis, ci)
  IN  [b \in 1 .. w * BlocksDown(p, cis, ci) |->
         f.whole_image[ci][f.iMCU_row_num * p.comps[ci].v + y + (b - 1) \div w]
                          [x * w + ((b - 1) % w)]]
AnMCU(p, f, cis, y, x) ==
  [i \in DOMAIN cis |-> IF FullBuffer(p) THEN OutputBlocks(p, f, cis, cis[i], y, x)
                        ELSE DataBlocks(p, f, cis, cis[i], y, x)]

\* The MCUs of the iMCU row from the saved counters on, as many of them as the
\* destination takes; start_iMCU_row when that is all of them.
MCUsSent(p, f, cis, first, number) ==
  [f EXCEPT !.sent[f.pass] =
              @ \o [n \in 1 .. number |->
                      AnMCU(p, f, cis, (first + n - 1) \div MCUsAcross(p, cis),
                            (first + n - 1) % MCUsAcross(p, cis))],
            !.budget = @ - number]
Suspended(f, vert_offset, ctr) == [f EXCEPT !.MCU_vert_offset = vert_offset, !.mcu_ctr = ctr]
RowCompleted(f) ==
  [f EXCEPT !.iMCU_row_num = @ + 1, !.MCU_vert_offset = 0, !.mcu_ctr = 0]
MCURowDone(p, f, cis, done, all) ==
  IF done = all THEN RowCompleted(f)
  ELSE Suspended(f, done \div MCUsAcross(p, cis), done % MCUsAcross(p, cis))
MCUsWritten(p, f, cis, first, all) ==
  MCURowDone(p, MCUsSent(p, f, cis, first, Min({all - first, f.budget})), cis,
             first + Min({all - first, f.budget}), all)
ScanCompressed(p, f, cis) ==
  MCUsWritten(p, f, cis, f.MCU_vert_offset * MCUsAcross(p, cis) + f.mcu_ctr,
              MCURows(p, cis, f.iMCU_row_num) * MCUsAcross(p, cis))
Compressed(p, f) ==
  ScanCompressed(p, IF FullBuffer(p) /\ f.pass = 1 THEN FirstPassed(p, f) ELSE f,
                 p.passes[f.pass])
-----------------------------------------------------------------------------
(* The main controller, process_data_simple_main.                          *)

\* When the destination suspends, the last row is given back, until it is done.
\* (Mutant: it is not given back.)
NothingGivenBack(f) == [f EXCEPT !.suspended = TRUE]
RowGivenBack(f) ==
  [f EXCEPT !.in_row_ctr = IF f.suspended THEN @ ELSE @ - 1, !.suspended = TRUE]
IMCURowDone(f) ==
  [f EXCEPT !.in_row_ctr = IF f.suspended THEN @ + 1 ELSE @, !.suspended = FALSE,
            !.rowgroup_ctr = 0, !.cur_iMCU_row = @ + 1]

PreProcessed(p, f) ==
  CASE f.rowgroup_ctr = BlockSize -> f
    [] f.rowgroup_ctr < BlockSize /\ p.need_context_rows -> PreProcessContext(p, f)
    [] OTHER -> PreProcessData(p, f)
RECURSIVE Processed(_, _)
StripSent(p, f, g) ==
  IF g.iMCU_row_num = f.iMCU_row_num THEN RowGivenBack(g) ELSE Processed(p, IMCURowDone(g))
StripFilled(p, f) ==
  IF f.rowgroup_ctr = BlockSize THEN StripSent(p, f, Compressed(p, f)) ELSE f
Processed(p, f) ==
  IF f.cur_iMCU_row < p.total_iMCU_rows THEN StripFilled(p, PreProcessed(p, f)) ELSE f
-----------------------------------------------------------------------------
(* The application.                                                        *)

\* start_pass_prep, start_pass_main and start_pass_coef
EmptyRow(c) == [members |-> [n \in 1 .. c.v_expand |-> NoRow], near |-> << >>]
NothingFed(p) ==
  [rows_to_go |-> p.height, next_buf_row |-> 0, this_row_group |-> 0,
   next_buf_stop |-> 2 * p.max_v_samp_factor,
   color_buf |-> [i \in 0 .. BufferRows(p) - 1 |-> NoRow],
   strip |-> [ci \in InComps(p) |->
                [r \in 0 .. p.comps[ci].v * BlockSize - 1 |-> EmptyRow(p.comps[ci])]],
   rowgroup_ctr |-> 0, cur_iMCU_row |-> 0, suspended |-> FALSE,
   iMCU_row_num |-> 0, mcu_ctr |-> 0, MCU_vert_offset |-> 0,
   whole_image |->
     [ci \in InComps(p) |->
        [row \in 0 .. RoundUp(p.comps[ci].height_in_blocks, p.comps[ci].v) - 1 |->
           [col \in 0 .. (IF FullBuffer(p)
                          THEN RoundUp(p.comps[ci].width_in_blocks, p.comps[ci].h) ELSE 0) - 1 |->
              DummyBlock(<< >>)]]],
   next_scanline |-> 0, pass |-> 1, sent |-> [n \in DOMAIN p.passes |-> << >>],
   in_row_ctr |-> 0, in_rows_avail |-> 0, budget |-> 0]

InputInit == feed = NothingFed(source)

TakenIn(num_lines, budget) ==
  [feed EXCEPT !.in_rows_avail = Min({num_lines, source.height - feed.next_scanline}),
               !.budget = budget]
CallDone(f) ==
  feed' = [f EXCEPT !.next_scanline = @ + f.in_row_ctr, !.in_row_ctr = 0, !.in_rows_avail = 0,
                    !.budget = 0]

\* jpeg_write_scanlines: the rows from next_scanline on are given.
WriteScanlines ==
  /\ ~source.raw /\ feed.next_scanline < source.height
  /\ \E num_lines \in CallSizes, budget \in Budgets :
       \E f \in {Processed(source, TakenIn(num_lines, budget))} : CallDone(f)
  /\ UNCHANGED source

\* jpeg_write_raw_data: an iMCU row of the components themselves.
RawRow(c, r) == [members |-> [n \in 1 .. c.v_expand |-> r], near |-> << >>]
RawStrip(p, iMCU_row) ==
  [ci \in InComps(p) |->
     [r \in 0 .. p.comps[ci].v * BlockSize - 1 |->
        RawRow(p.comps[ci], iMCU_row * p.comps[ci].v * BlockSize + r)]]
RowHeight(p) == p.max_v_samp_factor * BlockSize
RawTaken(budget) ==
  Compressed(source, [feed EXCEPT !.strip = RawStrip(source, feed.next_scanline \div RowHeight(source)),
                                 !.budget = budget])
WriteRawData ==
  /\ source.raw /\ feed.next_scanline < source.height
  /\ \E budget \in Budgets :
       \E f \in {RawTaken(budget)} :
         CallDone([f EXCEPT !.in_row_ctr =
                              IF f.iMCU_row_num > feed.iMCU_row_num THEN RowHeight(source) ELSE 0])
  /\ UNCHANGED source

\* jpeg_finish_compress: further passes, which must not be suspended.
RECURSIVE Cranked(_, _)
Cranked(p, f) ==
  IF f.iMCU_row_num = p.total_iMCU_rows THEN f ELSE Cranked(p, Compressed(p, f))
PassPrepared(f, enough) ==
  [f EXCEPT !.pass = @ + 1, !.iMCU_row_num = 0, !.mcu_ctr = 0, !.MCU_vert_offset = 0,
            !.budget = enough]
NoOfBlocks(p) ==
  FoldLeft(LAMBDA sum, c : sum + c.width_in_blocks * c.height_in_blocks, 0, p.comps)
FinishCompress ==
  /\ feed.next_scanline >= source.height
  /\ feed.pass < Len(source.passes)
  /\ \E f \in {Cranked(source, PassPrepared(feed, NoOfBlocks(source)))} : CallDone(f)
  /\ UNCHANGED source

InputNext == WriteScanlines \/ WriteRawData \/ FinishCompress

InputSpec == InputInit /\ [][InputNext]_inputVars
-----------------------------------------------------------------------------
(* What the MCUs of a scan should be, from the whole image.                *)

Within(n, size) == Max({0, Min({n, size - 1})})
ImageRow(p, c, r) ==
  IF p.raw THEN RawRow(c, r)
  ELSE [members |-> [n \in 1 .. c.v_expand |-> Within(r * c.v_expand + n - 1, p.height)],
        near |-> IF Smooths(c)
                 THEN <<Within(r * c.v_expand - 1, p.height),
                        Within((r + 1) * c.v_expand, p.height)>>
                 ELSE << >>]
\* Rows behind the image repeat its last one, or the last row group's last one.
LastRow(p, c) == DivRoundUp(p.height, p.max_v_samp_factor) * c.v - 1
IsImageRow(p, c, r, row) ==
  \/ row = ImageRow(p, c, r)
  \/ r > LastRow(p, c) /\ row = ImageRow(p, c, LastRow(p, c))

IsImageBlock(p, c, row, col, block) ==
  /\ block.ac = block.dc /\ block.dc.column = col
  /\ \A r \in 1 .. BlockSize : IsImageRow(p, c, row * BlockSize + r - 1, block.dc.rows[r])

\* Blocks behind the edges cost as little as possible.
IsDummy(block, before) == block = DummyBlock(before.dc)

AreBlocks(p, cis, ci, y, x, blocks) ==
  LET w == BlocksAcross(p, cis, ci)
      c == p.comps[ci]
      row(b) == y * BlocksDown(p, cis, ci) + (b - 1) \div w
      col(b) == x * w + ((b - 1) % w)
  IN  /\ DOMAIN blocks = 1 .. w * BlocksDown(p, cis, ci)
      /\ \A b \in DOMAIN blocks :
           IF row(b) < c.height_in_blocks /\ col(b) < c.width_in_blocks
           THEN IsImageBlock(p, c, row(b), col(b), blocks[b])
           ELSE IsDummy(blocks[b], blocks[b - 1])

IsMCU(p, cis, n, blocks) ==
  \A i \in DOMAIN cis :
    AreBlocks(p, cis, cis[i], (n - 1) \div MCUsAcross(p, cis), (n - 1) % MCUsAcross(p, cis),
              blocks[i])

MCUsOfScan(p, cis) ==
  MCUsAcross(p, cis) *
    (IF Len(cis) > 1 THEN p.total_iMCU_rows ELSE p.comps[cis[1]].height_in_blocks)

ColumnsAreTheImages(p) ==
  \A ci \in InComps(p) : \A x \in 0 .. p.comps[ci].width_in_blocks * BlockSize - 1 :
    SampleColumns(p, p.comps[ci], x) =
      [members |-> [n \in 1 .. p.comps[ci].h_expand |->
                      Within(x * p.comps[ci].h_expand + n - 1, p.width)],
       near |-> IF Smooths(p.comps[ci])
                THEN <<Within(x * p.comps[ci].h_expand - 1, p.width),
                       Within((x + 1) * p.comps[ci].h_expand, p.width)>>
                ELSE << >>]

\* Every pass over the image hands the same MCUs to the entropy encoder, those of
\* the image that was written, however it is divided into calls and wherever the
\* destination suspends; and when the application is told that its last row is
\* taken, no MCU of the pass is missing.
MCUsAreTheImages ==
  /\ \A n \in 1 .. feed.pass :
       /\ Len(feed.sent[n]) <= MCUsOfScan(source, source.passes[n])
       /\ \A k \in DOMAIN feed.sent[n] : IsMCU(source, source.passes[n], k, feed.sent[n][k])
  /\ feed.next_scanline >= source.height =>
       Len(feed.sent[feed.pass]) = MCUsOfScan(source, source.passes[feed.pass])
  /\ feed.next_scanline = 0 => ColumnsAreTheImages(source)
=============================================================================
