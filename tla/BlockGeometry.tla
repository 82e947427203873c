--------------------------- MODULE BlockGeometry ---------------------------
(***************************************************************************)
(* The way of the coefficient blocks of an image: out of the MCUs of the   *)
(* cover's scans into virtual arrays (jdcoefct.c), row by row into the     *)
(* collection the message goes to and, from there, over a second reading   *)
(* of the cover (c_l_jpeg_interface.cpp), into the MCUs of the stego image *)
(* (jctrans.c), which the decoder reads.  Images whose size is no multiple *)
(* of an MCU have dummy blocks at their edges, and the components have     *)
(* arrays of different sizes.                                              *)
(*                                                                         *)
(* A block is its DC coefficient and all others.  SELECTED_COMPONENT is    *)
(* the first.                                                              *)
(***************************************************************************)
EXTENDS VirtualArrays, ImageSizes

CONSTANTS
  DCTSIZE,       \* samples of a block's side, 8
  Layouts,       \* the images: their size in samples, the sampling factors of
                 \* their components, whether they are progressive
  MinHeights     \* what max_minheights may be

\* initial_setup refuses images without samples or components.
ASSUME GeometryAssumption ==
  /\ DCTSIZE \in Nat \ {0} /\ MinHeights \in SUBSET (Nat \ {0})
  /\ \A l \in Layouts :
       /\ l.width \in Nat \ {0} /\ l.height \in Nat \ {0} /\ l.progressive \in BOOLEAN
       /\ l.comps \in Seq([h : Nat \ {0}, v : Nat \ {0}]) \ {<< >>}

VARIABLES
  gpc,           \* "read", "load", "save", "write", "loaded", or "error"
  pass,          \* the reading: of the cover for the collection, of the cover
                 \* for its clone, of the stego image
  layout,        \* the image
  room,          \* max_minheights
  scans,         \* the scans of the file that is read: the components, the MCUs
  scan,          \* the scan that is read
  iMCU,          \* input_iMCU_row, RowCounter or iMCU_row_num
  arrays,        \* the virtual array of each component
  collection,    \* m_pDCT_Coefficient, when it is complete that of the cover
  MCUs_out       \* the MCUs written so far

geometryVars == <<gpc, pass, layout, room, scans, scan, iMCU, arrays, collection, MCUs_out>>

Comps == DOMAIN layout.comps
-----------------------------------------------------------------------------
(* initial_setup and per_scan_setup, the same on both sides.               *)

MaxH == HMax(layout)
MaxV == VMax(layout)
HSamp(ci) == layout.comps[ci].h
VSamp(ci) == layout.comps[ci].v
WidthInBlocks(ci) == DivRoundUp(layout.width * HSamp(ci), MaxH * DCTSIZE)
HeightInBlocks(ci) == DivRoundUp(layout.height * VSamp(ci), MaxV * DCTSIZE)
TotaliMCURows == DivRoundUp(layout.height, MaxV * DCTSIZE)

Interleaved(cis) == Len(cis) > 1
MCUsPerRow(cis) ==
  IF Interleaved(cis) THEN DivRoundUp(layout.width, MaxH * DCTSIZE)
  ELSE WidthInBlocks(cis[1])
MCUWidth(cis, ci) == IF Interleaved(cis) THEN HSamp(ci) ELSE 1
MCUHeight(cis, ci) == IF Interleaved(cis) THEN VSamp(ci) ELSE 1
LastColWidth(cis, ci) == IF Interleaved(cis) THEN Left(WidthInBlocks(ci), HSamp(ci)) ELSE 1
LastRowHeight(cis, ci) == Left(HeightInBlocks(ci), VSamp(ci))

\* start_iMCU_row
MCURowsPeriMCURow(cis, row) ==
  IF Interleaved(cis) THEN 1
  ELSE IF row < TotaliMCURows - 1 THEN VSamp(cis[1]) ELSE LastRowHeight(cis, cis[1])

\* The blocks of component number i in front of its own in an MCU, and of all.
BlocksBefore(cis, i) ==
  LET sum[n \in 0 .. Len(cis)] ==
        IF n = 0 THEN 0
        ELSE sum[n - 1] + MCUWidth(cis, cis[n]) * MCUHeight(cis, cis[n])
  IN  sum[i - 1]
-----------------------------------------------------------------------------
(* The blocks of a file.                                                   *)

ABlock(ci, row, col) == [dc |-> <<ci, row, col>>, ac |-> <<ci, row, col>>]
WetBlock(ci, row, col) ==
  [dc |-> <<ci, row, col>>, ac |-> IF ci = 1 THEN "wet" ELSE <<ci, row, col>>]
NoBlock == [dc |-> 0, ac |-> 0]
Padding == [dc |-> "padding", ac |-> 0]
ZeroRow(ci) == [col \in 0 .. RoundUp(WidthInBlocks(ci), HSamp(ci)) - 1 |-> NoBlock]
Garbage(ci) == [col \in 0 .. RoundUp(WidthInBlocks(ci), HSamp(ci)) - 1 |-> Padding]

\* The MCUs of a scan as the JPEG standard has them: one block each in a scan of
\* one component, and otherwise a rectangle of each; padding where there is no
\* block.  Pad is what an encoder puts there.
ScanMCUs(cis, Block(_, _, _), Pad) ==
  LET perrow == MCUsPerRow(cis)
      norows == IF Interleaved(cis) THEN TotaliMCURows ELSE HeightInBlocks(cis[1])
      block(ci, row, col) ==
        IF row < HeightInBlocks(ci) /\ col < WidthInBlocks(ci) THEN Block(ci, row, col) ELSE Pad
      part(ci, m) ==
        LET w == MCUWidth(cis, ci)
            h == MCUHeight(cis, ci)
        IN  [b \in 1 .. w * h |->
              block(ci, ((m - 1) \div perrow) * h + (b - 1) \div w,
                        ((m - 1) % perrow) * w + ((b - 1) % w))]
  IN  [m \in 1 .. perrow * norows |-> FlattenSeq([i \in DOMAIN cis |-> part(cis[i], m)])]

AFile(components, Block(_, _, _)) ==
  [n \in DOMAIN components |->
    [comps |-> components[n], MCUs |-> ScanMCUs(components[n], Block, Padding)]]

AllComps == [ci \in Comps |-> ci]
-----------------------------------------------------------------------------
\* jinit_d_coef_controller: the arrays of a decompression object, for which
\* memory is found when its first scan begins.
AccessRows(ci) == IF layout.progressive THEN 3 * VSamp(ci) ELSE VSamp(ci)
NewArrays ==
  [ci \in Comps |->
    Realized(RoundUp(HeightInBlocks(ci), VSamp(ci)), AccessRows(ci), room,
             Garbage(ci), Garbage(ci))]

GeometryInit ==
  /\ layout \in Layouts
  /\ room \in MinHeights
  /\ \E components \in {<<AllComps>>, [ci \in Comps |-> <<ci>>]} :
       scans = AFile(components, ABlock)
  /\ gpc = "read" /\ pass = "collection"
  /\ scan = 1 /\ iMCU = 0
  /\ arrays = NewArrays
  /\ collection = << >> /\ MCUs_out = << >>

Fine(as) == \A ci \in Comps : as[ci].error = "none"

\* The strips of the components of a scan for an iMCU row.
Aligned(cis, writable) ==
  [ci \in Comps |->
    IF ci \notin Range(cis) THEN arrays[ci]
    ELSE Accessed(arrays[ci], iMCU * VSamp(ci), (iMCU + 1) * VSamp(ci), writable, ZeroRow(ci))]

\* The blocks of a component in an MCU are numbered row by row.
\* (Mutant: as if its rows were as long as its columns.)
PlaceByColumns(w, h, y, col) == (y % h) * h + (col % w) + 1
PlaceInMCU(w, h, y, col) == (y % h) * w + (col % w) + 1

\* consume_data: each block of each MCU of the row goes to its place.
BlockRead(cis, MCUs, i, y, col, old) ==
  LET ci == cis[i]
      w == MCUWidth(cis, ci)
      h == MCUHeight(cis, ci)
      before == IF Interleaved(cis) THEN iMCU * MCUsPerRow(cis)
                ELSE iMCU * VSamp(ci) * MCUsPerRow(cis)
      m == before + (y \div h) * MCUsPerRow(cis) + (col \div w) + 1
  IN  IF y \div h < MCURowsPeriMCURow(cis, iMCU) /\ col \div w < MCUsPerRow(cis)
      THEN MCUs[m][BlocksBefore(cis, i) + PlaceInMCU(w, h, y, col)]
      ELSE old

ConsumeData ==
  /\ gpc = "read" /\ scan \in DOMAIN scans
  /\ LET cis == scans[scan].comps
         aligned == Aligned(cis, TRUE)
         strip(i) == [r \in iMCU * VSamp(cis[i]) .. (iMCU + 1) * VSamp(cis[i]) - 1 |->
                       [col \in DOMAIN RowAt(aligned[cis[i]], r) |->
                         BlockRead(cis, scans[scan].MCUs, i, r - iMCU * VSamp(cis[i]), col,
                                   RowAt(aligned[cis[i]], r)[col])]]
         place(ci) == CHOOSE i \in DOMAIN cis : cis[i] = ci
     IN  IF Fine(aligned)
         THEN /\ arrays' = [ci \in Comps |->
                   IF ci \in Range(cis) THEN Stored(aligned[ci], strip(place(ci))) ELSE aligned[ci]]
              /\ IF iMCU + 1 < TotaliMCURows
                 THEN iMCU' = iMCU + 1 /\ UNCHANGED scan
                 ELSE iMCU' = 0 /\ scan' = scan + 1
              /\ UNCHANGED gpc
         ELSE gpc' = "error" /\ UNCHANGED <<arrays, iMCU, scan>>
  /\ UNCHANGED <<pass, layout, room, scans, collection, MCUs_out>>

\* The end of the image: the coefficients are read, or written.
FinishReading ==
  /\ gpc = "read" /\ scan \notin DOMAIN scans
  /\ gpc' = IF pass = "clone" THEN "save" ELSE "load"
  /\ UNCHANGED <<pass, layout, room, scans, scan, iMCU, arrays, collection, MCUs_out>>

\* One row of the first component's array at a time.
ThisRow(writable) == Accessed(arrays[1], iMCU, iMCU + 1, writable, ZeroRow(1))

\* LoadDCT_Coefficients; then the object is destroyed, and the cover read again.
LoadRow ==
  /\ gpc = "load" /\ iMCU < HeightInBlocks(1)
  /\ arrays' = [arrays EXCEPT ![1] = ThisRow(FALSE)]
  /\ IF Fine(arrays')
     THEN /\ collection' = collection
               \o [c \in 1 .. WidthInBlocks(1) |-> RowAt(arrays'[1], iMCU)[c - 1]]
          /\ iMCU' = iMCU + 1 /\ UNCHANGED gpc
     ELSE gpc' = "error" /\ UNCHANGED <<collection, iMCU>>
  /\ UNCHANGED <<pass, layout, room, scans, scan, MCUs_out>>

RowsLoaded ==
  /\ gpc = "load" /\ iMCU = HeightInBlocks(1)
  /\ IF pass = "collection"
     THEN gpc' = "read" /\ pass' = "clone" /\ arrays' = NewArrays /\ scan' = 1 /\ iMCU' = 0
     ELSE gpc' = "loaded" /\ UNCHANGED <<pass, arrays, scan, iMCU>>
  /\ UNCHANGED <<layout, room, scans, collection, MCUs_out>>

\* SaveDCT_Coefficients: the blocks of the collection, which the message is in
\* now, over those of the clone.
SaveRow ==
  /\ gpc = "save" /\ iMCU < HeightInBlocks(1)
  /\ LET accessed == ThisRow(TRUE)
         saved == [r \in {iMCU} |-> [col \in DOMAIN RowAt(accessed, iMCU) |->
                    IF col < WidthInBlocks(1)
                    THEN [collection[iMCU * WidthInBlocks(1) + col + 1] EXCEPT !.ac = "wet"]
                    ELSE RowAt(accessed, iMCU)[col]]]
     IN  IF accessed.error = "none"
         THEN arrays' = [arrays EXCEPT ![1] = Stored(accessed, saved)] /\ UNCHANGED gpc
         ELSE gpc' = "error" /\ UNCHANGED arrays
  /\ iMCU' = iMCU + 1
  /\ UNCHANGED <<pass, layout, room, scans, scan, collection, MCUs_out>>

RowsSaved ==
  /\ gpc = "save" /\ iMCU = HeightInBlocks(1)
  /\ gpc' = "write" /\ iMCU' = 0
  /\ UNCHANGED <<pass, layout, room, scans, scan, arrays, collection, MCUs_out>>

\* compress_output: the blocks of each MCU of the row and, where there are none,
\* dummy ones with the DC coefficient of the block before.
MCUOut(cis, aligned, yoffset, mcu) ==
  LET row(ci) == iMCU * VSamp(ci) + yoffset
      real(ci, b) ==
        LET w == MCUWidth(cis, ci)
            useful == IF mcu < MCUsPerRow(cis) - 1 THEN w ELSE LastColWidth(cis, ci)
        IN  /\ (b - 1) % w < useful
            /\ \/ iMCU < TotaliMCURows - 1
               \/ (b - 1) \div w + yoffset < LastRowHeight(cis, ci)
      found(ci, b) ==
        LET w == MCUWidth(cis, ci)
        IN  RowAt(aligned[ci], row(ci) + (b - 1) \div w)[mcu * w + ((b - 1) % w)]
      part(ci) ==
        LET blocks[b \in 1 .. MCUWidth(cis, ci) * MCUHeight(cis, ci)] ==
              IF real(ci, b) THEN found(ci, b)
              ELSE [dc |-> blocks[b - 1].dc, ac |-> 0]
        IN  blocks
  IN  FlattenSeq([i \in DOMAIN cis |-> part(cis[i])])

CompressOutput ==
  /\ gpc = "write" /\ iMCU < TotaliMCURows
  /\ LET aligned == Aligned(AllComps, FALSE)
         norows == MCURowsPeriMCURow(AllComps, iMCU)
         perrow == MCUsPerRow(AllComps)
     IN  IF Fine(aligned)
         THEN /\ MCUs_out' = MCUs_out \o [n \in 1 .. norows * perrow |->
                   MCUOut(AllComps, aligned, (n - 1) \div perrow, (n - 1) % perrow)]
              /\ arrays' = aligned /\ UNCHANGED gpc
         ELSE gpc' = "error" /\ UNCHANGED <<arrays, MCUs_out>>
  /\ iMCU' = iMCU + 1
  /\ UNCHANGED <<pass, layout, room, scans, scan, collection>>

\* The stego image is complete, and the decoder reads it.
ReadStego ==
  /\ gpc = "write" /\ iMCU = TotaliMCURows
  /\ gpc' = "read" /\ pass' = "stego"
  /\ scans' = <<[comps |-> AllComps, MCUs |-> MCUs_out]>>
  /\ scan' = 1 /\ iMCU' = 0 /\ arrays' = NewArrays
  /\ collection' = << >>
  /\ UNCHANGED <<layout, room, MCUs_out>>

GeometryNext ==
  \/ ConsumeData
  \/ FinishReading
  \/ LoadRow
  \/ RowsLoaded
  \/ SaveRow
  \/ RowsSaved
  \/ CompressOutput
  \/ ReadStego

GeometrySpec == GeometryInit /\ [][GeometryNext]_geometryVars
-----------------------------------------------------------------------------
InOrder(Block(_, _, _)) ==
  [n \in 1 .. WidthInBlocks(1) * HeightInBlocks(1) |->
    Block(1, (n - 1) \div WidthInBlocks(1), (n - 1) % WidthInBlocks(1))]

\* The collection of the cover has each block of the first component, and none
\* of the padding; the stego image has every block of every component where the
\* standard wants it; and the decoder's collection is the one the message was
\* put into.  No access to the arrays is refused, whatever the size of the
\* image, its sampling factors, the scans of the cover, and the memory are
\* (jdcoefct.c:227, jctrans.c:262).
BlocksComeBack ==
  /\ gpc # "error"
  /\ gpc = "save" => collection = InOrder(ABlock)
  /\ pass = "stego" =>
       \A m \in DOMAIN MCUs_out : \A b \in DOMAIN MCUs_out[m] :
         LET block == ScanMCUs(AllComps, WetBlock, Padding)[m][b]
         IN  block # Padding => MCUs_out[m][b] = block
  /\ gpc = "loaded" => collection = InOrder(WetBlock)
=============================================================================
