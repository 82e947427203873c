--------------------------- MODULE ImageTransform ---------------------------
(***************************************************************************)
(* Lossless transformations of an image (transupp.c), in the order in      *)
(* which jpegtran.c calls them: the parameters of the output are those of  *)
(* the input, changed, and its blocks those of the input, moved, with the  *)
(* signs of coefficients changed.  Blocks are 2 by 2, for which the cosine *)
(* transform is made of sums and differences; rows and columns of          *)
(* coefficients are even or odd as they are in larger blocks.              *)
(***************************************************************************)
EXTENDS ImageSizes

CONSTANTS
  Pictures,      \* images: [width, height, comps, tables, color, markers], where
                 \* comps have h, v and quant_tbl_no
  Switches,      \* what jpegtran is asked for: [transform, trim, force_grayscale, copy]
  MaxTurns        \* bound: transformations one after the other

VARIABLES
  turned,       \* the image with the coefficients of its components
  turns,          \* as a history, the transformations made of it
  unturned,         \* and the image at first
  pixels         \* the samples it should have

transformVars == <<turned, turns, unturned, pixels>>

Side == 2        \* DCTSIZE
CoefPositions == (0 .. 1) \X (0 .. 1)
RowsOf(p, c) == DivRoundUp(p.height * c.v, VMax(p) * Side)
ColsOf(p, c) == DivRoundUp(p.width * c.h, HMax(p) * Side)
PartsOf(p) == DOMAIN p.comps
-----------------------------------------------------------------------------
(* jtransform_adjust_parameters.                                           *)

\* jpeg_set_colorspace, where the table of the unturned component is kept.
CanBeGray(p) ==
  \/ p.color = "YCbCr" /\ Len(p.comps) = 3
  \/ p.color = "GRAYSCALE" /\ Len(p.comps) = 1
Grayed(p, t) ==
  IF t.force_grayscale
  THEN [p EXCEPT !.comps = <<[h |-> 1, v |-> 1, quant_tbl_no |-> p.comps[1].quant_tbl_no]>>,
                 !.color = "GRAYSCALE"]
  ELSE p

\* transpose_critical_parameters
TransposedTable(table) == [k \in CoefPositions |-> table[<<k[2], k[1]>>]]
TransposedParameters(p) ==
  [p EXCEPT !.width = p.height, !.height = p.width,
            !.comps = [ci \in PartsOf(p) |->
                         [@[ci] EXCEPT !.h = p.comps[ci].v, !.v = p.comps[ci].h]],
            !.tables = [tblno \in DOMAIN p.tables |-> TransposedTable(p.tables[tblno])]]

\* trim_right_edge and trim_bottom_edge; nothing is trimmed to no pixels.
Whole(size, part) == IF size \div part > 0 THEN (size \div part) * part ELSE size
TrimmedRight(p) == [p EXCEPT !.width = Whole(@, HMax(p) * Side)]
TrimmedBottom(p) == [p EXCEPT !.height = Whole(@, VMax(p) * Side)]

Transposing == {"transpose", "transverse", "rot_90", "rot_270"}
Shaped(p, t) == IF t.transform \in Transposing THEN TransposedParameters(p) ELSE p
Trimmed(p, t) ==
  CASE ~t.trim \/ t.transform \in {"none", "transpose"} -> p
    [] t.trim /\ t.transform \in {"flip_h", "rot_90"} -> TrimmedRight(p)
    [] t.trim /\ t.transform \in {"flip_v", "rot_270"} -> TrimmedBottom(p)
    [] t.trim /\ t.transform \in {"rot_180", "transverse"} -> TrimmedBottom(TrimmedRight(p))
AdjustedParameters(p, t) == Trimmed(Shaped(Grayed(p, t), t), t)
-----------------------------------------------------------------------------
(* jtransform_execute_transformation.  In a are the blocks of a component  *)
(* of the input, in whole iMCUs; row and col are those of a block of the   *)
(* output; of comp_width columns and comp_height rows the iMCUs are whole. *)

\* The coefficient in row i and column j goes to the same place or that of row j
\* and column i, with its sign changed in odd rows or odd columns, or both.
OddSign(change, n) == IF change /\ n = 1 THEN -1 ELSE 1
Signed(b, rows, columns) ==
  [k \in CoefPositions |-> OddSign(rows, k[1]) * OddSign(columns, k[2]) * b[k]]
\* (Mutant: the signs are changed in the rows of the output.)
SignedBehind(b, rows, columns) ==
  [k \in CoefPositions |-> OddSign(rows, k[1]) * OddSign(columns, k[2]) * b[<<k[2], k[1]>>]]
SignedTransposed(b, rows, columns) ==
  [k \in CoefPositions |-> OddSign(rows, k[2]) * OddSign(columns, k[1]) * b[<<k[2], k[1]>>]]

do_flip_h(a, row, col, comp_width) ==
  IF col < comp_width THEN Signed(a[row][comp_width - col - 1], FALSE, TRUE) ELSE a[row][col]
do_flip_v(a, row, col, comp_height) ==
  IF row < comp_height THEN Signed(a[comp_height - row - 1][col], TRUE, FALSE) ELSE a[row][col]
do_transpose(a, row, col) == SignedTransposed(a[col][row], FALSE, FALSE)
do_rot_90(a, row, col, comp_width) ==
  IF col < comp_width THEN SignedTransposed(a[comp_width - col - 1][row], TRUE, FALSE)
  ELSE SignedTransposed(a[col][row], FALSE, FALSE)
do_rot_270(a, row, col, comp_height) ==
  IF row < comp_height THEN SignedTransposed(a[col][comp_height - row - 1], FALSE, TRUE)
  ELSE SignedTransposed(a[col][row], FALSE, FALSE)
do_rot_180(a, row, col, comp_width, comp_height) ==
  CASE row < comp_height /\ col < comp_width ->
         Signed(a[comp_height - row - 1][comp_width - col - 1], TRUE, TRUE)
    [] row < comp_height /\ col >= comp_width ->
         Signed(a[comp_height - row - 1][col], TRUE, FALSE)
    [] row >= comp_height /\ col < comp_width ->
         Signed(a[row][comp_width - col - 1], FALSE, TRUE)
    [] OTHER -> a[row][col]
do_transverse(a, row, col, comp_width, comp_height) ==
  CASE row < comp_height /\ col < comp_width ->
         SignedTransposed(a[comp_width - col - 1][comp_height - row - 1], TRUE, TRUE)
    [] row < comp_height /\ col >= comp_width ->
         SignedTransposed(a[col][comp_height - row - 1], FALSE, TRUE)
    [] row >= comp_height /\ col < comp_width ->
         SignedTransposed(a[comp_width - col - 1][row], TRUE, FALSE)
    [] OTHER -> SignedTransposed(a[col][row], FALSE, FALSE)

TransformedBlock(transform, a, row, col, comp_width, comp_height) ==
  CASE transform = "none" -> a[row][col]
    [] transform = "flip_h" -> do_flip_h(a, row, col, comp_width)
    [] transform = "flip_v" -> do_flip_v(a, row, col, comp_height)
    [] transform = "transpose" -> do_transpose(a, row, col)
    [] transform = "rot_90" -> do_rot_90(a, row, col, comp_width)
    [] transform = "rot_270" -> do_rot_270(a, row, col, comp_height)
    [] transform = "rot_180" -> do_rot_180(a, row, col, comp_width, comp_height)
    [] transform = "transverse" -> do_transverse(a, row, col, comp_width, comp_height)

\* The arrays of the input, which has padding in its last iMCUs.
NoCoefs == [k \in CoefPositions |-> 0]
WithPadding(p, c, blocks) ==
  [row \in 0 .. RoundUp(RowsOf(p, c), c.v) - 1 |->
     [col \in 0 .. RoundUp(ColsOf(p, c), c.h) - 1 |->
        IF row < RowsOf(p, c) /\ col < ColsOf(p, c) THEN blocks[row][col] ELSE NoCoefs]]

\* What is written of a component of the output, d its parameters.
TransformedComponent(d, c, transform, a) ==
  [row \in 0 .. RowsOf(d, c) - 1 |->
     [col \in 0 .. ColsOf(d, c) - 1 |->
        TransformedBlock(transform, a, row, col, (d.width \div (HMax(d) * Side)) * c.h,
                         (d.height \div (VMax(d) * Side)) * c.v)]]
-----------------------------------------------------------------------------
(* jcopy_markers_setup and jcopy_markers_execute.                          *)

Saved(markers, copy) ==
  SelectSeq(markers, LAMBDA marker : copy = "all" \/ (copy = "comments" /\ marker = "COM"))
WritesJFIF(d) == d.color \in {"GRAYSCALE", "YCbCr"}
WritesAdobe(d) == d.color \in {"RGB", "CMYK", "YCCK"}
Own(d) ==
  (IF WritesJFIF(d) THEN <<"JFIF">> ELSE << >>) \o (IF WritesAdobe(d) THEN <<"Adobe">> ELSE << >>)
CopiedMarkers(d, markers, copy) ==
  Own(d) \o SelectSeq(Saved(markers, copy),
                      LAMBDA marker : ~(WritesJFIF(d) /\ marker = "JFIF")
                                        /\ ~(WritesAdobe(d) /\ marker = "Adobe"))
-----------------------------------------------------------------------------
(* What the samples should be, q an image with samples: transformations    *)
(* are made of transpositions and mirrorings, of which the latter leave    *)
(* partial iMCUs as they are.                                              *)

SamplesOf(p, ci) ==
  [y \in 0 .. RowsOf(p, p.comps[ci]) * Side - 1 |->
     [x \in 0 .. ColsOf(p, p.comps[ci]) * Side - 1 |->
        LET b == p.coefs[ci][y \div Side][x \div Side]
            q == p.tables[p.comps[ci].quant_tbl_no]
            term(i, j) == OddSign(y % Side = 1, i) * OddSign(x % Side = 1, j)
                            * b[<<i, j>>] * q[<<i, j>>]
        IN  term(0, 0) + term(0, 1) + term(1, 0) + term(1, 1)]]
Sizes(p) ==
  [width |-> p.width, height |-> p.height,
   comps |-> [ci \in PartsOf(p) |-> [h |-> p.comps[ci].h, v |-> p.comps[ci].v]]]
PixelsOf(p) == [sizes |-> Sizes(p), planes |-> [ci \in PartsOf(p) |-> SamplesOf(p, ci)]]

Mirrored(n, whole) == IF n < whole THEN whole - n - 1 ELSE n
PixelFlipH(q) ==
  [q EXCEPT !.planes = [ci \in DOMAIN q.planes |-> [y \in DOMAIN q.planes[ci] |->
     [x \in DOMAIN q.planes[ci][y] |->
        q.planes[ci][y][Mirrored(x, (q.sizes.width \div (HMax(q.sizes) * Side))
                                      * q.sizes.comps[ci].h * Side)]]]]]
PixelFlipV(q) ==
  [q EXCEPT !.planes = [ci \in DOMAIN q.planes |-> [y \in DOMAIN q.planes[ci] |->
     q.planes[ci][Mirrored(y, (q.sizes.height \div (VMax(q.sizes) * Side))
                                * q.sizes.comps[ci].v * Side)]]]]
PixelTranspose(q) ==
  [sizes |-> [width |-> q.sizes.height, height |-> q.sizes.width,
              comps |-> [ci \in DOMAIN q.planes |->
                           [h |-> q.sizes.comps[ci].v, v |-> q.sizes.comps[ci].h]]],
   planes |-> [ci \in DOMAIN q.planes |-> [x \in DOMAIN q.planes[ci][0] |->
                 [y \in DOMAIN q.planes[ci] |-> q.planes[ci][y][x]]]]]
PixelGray(q) ==
  [sizes |-> [q.sizes EXCEPT !.comps = <<[h |-> 1, v |-> 1]>>], planes |-> <<q.planes[1]>>]

PixelTurn(q, transform) ==
  CASE transform = "none" -> q
    [] transform = "flip_h" -> PixelFlipH(q)
    [] transform = "flip_v" -> PixelFlipV(q)
    [] transform = "transpose" -> PixelTranspose(q)
    [] transform = "rot_90" -> PixelFlipH(PixelTranspose(q))
    [] transform = "rot_180" -> PixelFlipH(PixelFlipV(q))
    [] transform = "rot_270" -> PixelTranspose(PixelFlipH(q))
    [] transform = "transverse" -> PixelFlipH(PixelTranspose(PixelFlipH(q)))

\* Trimmed are the edges that would not be mirrored, if more is left.
MirrorsX(transform) == transform \in {"flip_h", "rot_90", "rot_180", "transverse"}
MirrorsY(transform) == transform \in {"flip_v", "rot_270", "rot_180", "transverse"}
PixelCut(q, sizes) ==
  [sizes |-> sizes,
   planes |-> [ci \in DOMAIN q.planes |->
                 [y \in 0 .. RowsOf(sizes, sizes.comps[ci]) * Side - 1 |->
                    [x \in 0 .. ColsOf(sizes, sizes.comps[ci]) * Side - 1 |-> q.planes[ci][y][x]]]]]
PixelTrim(q, t) ==
  PixelCut(q, [q.sizes EXCEPT
    !.width = IF t.trim /\ MirrorsX(t.transform) THEN Whole(@, HMax(q.sizes) * Side) ELSE @,
    !.height = IF t.trim /\ MirrorsY(t.transform) THEN Whole(@, VMax(q.sizes) * Side) ELSE @])
PixelTransform(q, t) ==
  PixelTrim(PixelTurn(IF t.force_grayscale THEN PixelGray(q) ELSE q, t.transform), t)
-----------------------------------------------------------------------------
\* Coefficients that differ from block to block and within a block.
SomeCoefs(ci, row, col) ==
  [k \in CoefPositions |-> 1 + 97 * ci + 31 * row + 7 * col + 3 * k[1] + k[1] * k[2] + 13 * k[2]]
SomeImage(p) ==
  [p EXCEPT !.coefs = [ci \in PartsOf(p) |-> [row \in 0 .. RowsOf(p, p.comps[ci]) - 1 |->
     [col \in 0 .. ColsOf(p, p.comps[ci]) - 1 |-> SomeCoefs(ci, row, col)]]]]

TransformInit ==
  /\ unturned = turned
  /\ pixels = PixelsOf(turned)
  /\ turns = << >>

\* One run of jpegtran, whose output is the image for the next one.
Output(t, d) ==
  [d EXCEPT !.coefs =
              [ci \in PartsOf(d) |->
                 TransformedComponent(d, d.comps[ci], t.transform,
                   WithPadding(turned, turned.comps[ci], turned.coefs[ci]))],
            !.markers = CopiedMarkers(d, turned.markers, t.copy)]
Jpegtran(t) ==
  /\ Len(turns) < MaxTurns
  /\ t.force_grayscale => CanBeGray(turned)
  /\ turned' = Output(t, AdjustedParameters(turned, t))
  /\ turns' = Append(turns, t)
  /\ pixels' = PixelTransform(pixels, t)
  /\ UNCHANGED unturned

TransformNext == \E t \in Switches : Jpegtran(t)
-----------------------------------------------------------------------------
Opposite(transform) ==
  CASE transform = "rot_90" -> "rot_270"
    [] transform = "rot_270" -> "rot_90"
    [] OTHER -> transform
Lossless(t) == ~t.trim /\ ~t.force_grayscale
\* One transformation undoes the other, whatever the size of the image.
UndoneByTheLast ==
  Len(turns) = 2 /\ Lossless(turns[1]) /\ Lossless(turns[2])
    /\ turns[2].transform = Opposite(turns[1].transform)
  => [turned EXCEPT !.markers = unturned.markers] = unturned

\* A marker the library writes by itself is not copied too, and no other is lost.
Times(marker) == Len(SelectSeq(turned.markers, LAMBDA m : m = marker))
MarkersOnce ==
  turns # << >> =>
    /\ Times("JFIF") <= 1 /\ Times("Adobe") <= 1
    /\ (\A n \in DOMAIN turns : turns[n].copy = "all") =>
         \A marker \in {"JFIF", "Adobe", "COM", "APP1"} :
           Len(SelectSeq(unturned.markers, LAMBDA m : m = marker)) <= Times(marker)

\* After any sequence of transformations the image has the samples it should have:
\* those of the same sequence of transpositions and mirrorings of samples, in which
\* partial iMCUs stay where they are or are trimmed; and without trimming every
\* transformation can be undone to the last coefficient.
TransformsMoveTheSamples == PixelsOf(turned) = pixels /\ UndoneByTheLast /\ MarkersOnce
=============================================================================
