----------------------------- MODULE DataPaths -----------------------------
(***************************************************************************)
(* The ways data takes through the program, each with a small instance:    *)
(* the bits of the message through their sequences (MessagePath), the      *)
(* bytes of the seed through the digest (DigestStream), coefficients       *)
(* through sequential and progressive scans (ScanCoding,                   *)
(* ProgressiveCoding), symbols through the counting that makes their codes *)
(* (OptimalCodes), rows through virtual arrays (VirtualArrays), blocks     *)
(* through MCUs and arrays (BlockGeometry), sample rows on to the          *)
(* application (OutputRows) and from one into MCUs (InputRows),            *)
(* blocks through transformations of an image (ImageTransform),            *)
(* coefficients through quantization and flips (WetCoefficients), and the  *)
(* memory of it all through its pools (MemoryPools).  The ways share no    *)
(* state but the file of a scan and its restarts; a behaviour follows one  *)
(* of them.                                                                *)
(***************************************************************************)
EXTENDS MessagePath, DigestStream, ScanCoding, ProgressiveCoding, BlockGeometry,
        OptimalCodes, MemoryPools, WetCoefficients, OutputRows, InputRows,
        ImageTransform

VARIABLE path     \* the way taken

codingVars == <<scanVars, progVars, codeVars>>
rowVars == <<outputVars, inputVars>>
blockVars == <<arrayVars, geometryVars, rowVars, transformVars>>
restVars == <<path, messageVars, digestVars, codingVars, poolVars, wetVars>>
vars == <<path, messageVars, digestVars, codingVars, blockVars, poolVars, wetVars>>
-----------------------------------------------------------------------------
(* The instance.                                                           *)

Entry(s, l) == [symbol |-> s, length |-> l]
SmallDCTable == <<Entry(1, 1), Entry(0, 2), Entry(2, 3), Entry(3, 4)>>
SmallACTable ==
  <<Entry(<<0, 0>>, 3), Entry(<<0, 1>>, 3), Entry(<<1, 1>>, 3), Entry(<<2, 1>>, 3),
    Entry(<<2, 0>>, 3), Entry(<<1, 0>>, 4), Entry(<<0, 2>>, 4), Entry(<<1, 2>>, 4),
    Entry(<<2, 2>>, 4)>>
ASSUME TableAssumption == IsTable(SmallDCTable) /\ IsTable(SmallACTable)

\* Blocks with values of all sizes, runs longer than a symbol names, and none.
OneComponentTwice == <<1, 2>>
SmallBlocks ==
  << {<<0, 0, 0, 0, 0, 0>>, <<-2, -1, 3, 0, 0, 0>>, <<3, 0, 0, 0, -2, 0>>},
     {<<2, 0, 0, 0, 0, 0>>, <<-1, 0, 0, 1, -3, 1>>} >>

\* Progressive images: some of one component, one of three.
GrayBlocks ==
  {<<0, 2, 3, 2, -3, 2>>, <<-1, 0, 0, 0, 0, 0>>, <<3, 0, -1, 0, 0, 1>>,
   <<2, 0, 0, 0, 3, -1>>, <<-3, -3, 0, 1, 2, 0>>}
GrayImage == [m \in 1 .. 3 |-> <<<<0, 2, 3, 2, -3, 2>>>>]
SmallImages ==
  {[m \in 1 .. 3 |-> <<b[m]>>] : b \in [1 .. 3 -> GrayBlocks]}
    \cup {<<<< <<0, 2, 3, 2, -3, 2>>, <<3, 0, -1, 0, 0, 1>>, <<-1, 0, 0, 0, 0, 0>> >>,
            << <<2, 0, 0, 0, 3, -1>>, <<-3, -3, 0, 1, 2, 0>>, <<-1, 0, 0, 0, 0, 3>> >> >>}
\* The program's own scripts, one of a single pass over each coefficient, and
\* two that no encoder may use: a bit twice, and AC coefficients first.
OnePass == FillDCScans(1, 0, 0) \o FillScans(1, 2, DCTSIZE2, 0, 0)
SmallScripts ==
  {SimpleProgression(1), YCbCrProgression, OnePass,
   FillDCScans(1, 0, 1) \o FillDCScans(1, 0, 1),
   FillScans(1, 2, DCTSIZE2, 0, 0) \o FillDCScans(1, 0, 0)}

\* Images of one block and of several, with and without padding at either edge.
Comp(h, v) == [h |-> h, v |-> v]
SmallLayout(width, height, comps, progressive) ==
  [width |-> width, height |-> height, comps |-> comps, progressive |-> progressive]
OneBlock == SmallLayout(1, 1, <<Comp(1, 1)>>, FALSE)
SmallLayouts ==
  {SmallLayout(size[1], size[2], comps, progressive) :
     size \in {<<1, 1>>, <<3, 5>>, <<4, 4>>},
     comps \in {<<Comp(1, 1)>>, <<Comp(2, 2)>>, <<Comp(2, 2), Comp(1, 1)>>,
                <<Comp(2, 1), Comp(1, 1)>>, <<Comp(1, 2), Comp(1, 1)>>,
                <<Comp(1, 1), Comp(2, 2)>>},
     progressive \in BOOLEAN}

\* Images of two MCUs whose components share tables or do not, and counts that
\* are equal, skewed, and skewed enough for codes beyond the limit; those of eight
\* symbols are as many as the search for the least takes, the last ones are more.
CountedOnce == {<<0, 0, 0, 0, 0, 0>>, <<-2, -1, 3, 0, 0, 0>>, <<1, 0, 0, 1, -3, 1>>}
SharedTables == {<<0>>, <<0, 0>>, <<0, 1>>}
SmallHistograms ==
  UNION {[0 .. n -> {1, 2, 4, 7}] : n \in 0 .. 3}
    \cup {[s \in 0 .. 4 |-> 3 * 2 ^ s], [s \in 0 .. 4 |-> 2 ^ (4 - s)],
          [s \in 0 .. 5 |-> 2 ^ s], [s \in 0 .. 6 |-> 2 ^ ((3 * s) % 7)],
          [s \in 0 .. 7 |-> 2 ^ s],
          [s \in 0 .. 2 |-> 2 ^ (9 - 3 * s)]}
OneCount == [image |-> [m \in 1 .. 2 |-> <<<<0, 0, 0, 0, 0, 0>>>>], tbl_no |-> <<0>>]

\* Systems with hardly any memory, too little, and enough; objects that fit where
\* others are, need a pool of their own, and are larger than any.
SmallFirstSlop == (PERMANENT :> 5) @@ (IMAGE :> 9)
SmallExtraSlop == (PERMANENT :> 0) @@ (IMAGE :> 4)
SmallElements == [s |-> 1, b |-> 2]
SmallSystems == {[heap |-> h, files |-> f] : h \in {30, 60, 150}, f \in {0, 2}}
SmallObjects == {<<PERMANENT, 3>>, <<IMAGE, 3>>, <<IMAGE, 6>>, <<PERMANENT, 40>>}
LargeObjects == {<<IMAGE, 5>>}
SmallArrays ==
  {[kind |-> "s", width |-> 3, rows |-> 5, maxaccess |-> 1],
   [kind |-> "b", width |-> 2, rows |-> 5, maxaccess |-> 2]}

\* Images without subsampling and with the usual ones, one with three rows in a
\* row group, of one iMCU row and of several, shown in full and in half size.
Show(width, height, comps, M, fancy, quantize) ==
  [width |-> width, height |-> height, comps |-> comps, M |-> M,
   fancy |-> fancy, color |-> TRUE, quantize |-> quantize]
YCbCr(h, v) == <<Comp(h, v), Comp(1, 1), Comp(1, 1)>>
SmallShows ==
  {p \in {Show(size[1], size[2], comps, M, fancy, quantize) :
            size \in {<<1, 1>>, <<9, 9>>, <<7, 17>>},
            comps \in {<<Comp(1, 1)>>, YCbCr(2, 2), <<Comp(2, 2), Comp(2, 1)>>,
                      <<Comp(3, 3), Comp(1, 1), Comp(3, 1)>>},
            M \in {2, 4}, fancy \in BOOLEAN, quantize \in {"none", "two"}} :
     IsWhole(p) /\ MayTakeTwoPasses(p)}
    \cup {Show(9, 17, comps, M, FALSE, "one") :
            comps \in {<<Comp(1, 1)>>, YCbCr(2, 2), YCbCr(2, 1)}, M \in {1, 4}}
OneLine == Show(1, 1, <<Comp(1, 1)>>, 4, FALSE, "none")

\* Images of one MCU and of several, padded at either edge, with and without
\* smoothing, written in one pass, in several, and from raw data.
Take(width, height, comps, smoothing, cis, gather) ==
  [width |-> width, height |-> height, comps |-> comps, smoothing |-> smoothing,
   raw |-> FALSE, scans |-> cis, gather |-> gather]
Raw(take) == [take EXCEPT !.raw = TRUE]
TogetherOrEach(comps) ==
  {<<[ci \in DOMAIN comps |-> ci]>>, [ci \in DOMAIN comps |-> <<ci>>]}
SmallTakes ==
  {Take(size[1], size[2], comps, smoothing, <<<<1>>>>, gather) :
     size \in {<<1, 1>>, <<5, 9>>}, comps \in {<<Comp(1, 1)>>, <<Comp(2, 2)>>},
     smoothing \in BOOLEAN, gather \in BOOLEAN}
    \cup {Take(size[1], size[2], comps, smoothing, cis, FALSE) :
            size \in {<<1, 1>>, <<3, 5>>, <<5, 9>>},
            comps \in {<<Comp(2, 2), Comp(1, 1)>>, <<Comp(2, 1), Comp(1, 1)>>,
                      <<Comp(3, 3), Comp(1, 3)>>, <<Comp(1, 2), Comp(1, 1)>>},
            smoothing \in BOOLEAN, cis \in TogetherOrEach(<<1, 2>>)}
    \cup {Raw(Take(3, 5, <<Comp(2, 2), Comp(1, 1)>>, FALSE, cis, gather)) :
            cis \in TogetherOrEach(<<1, 2>>), gather \in BOOLEAN}
OneSample == Take(1, 1, <<Comp(1, 1)>>, FALSE, <<<<1>>>>, FALSE)

\* Pictures of whole iMCUs and others, in colour and in gray, and all that
\* jpegtran can be asked to do with them.
Table(a, b, c, d) ==
  (<<0, 0>> :> a) @@ (<<0, 1>> :> b) @@ (<<1, 0>> :> c) @@ (<<1, 1>> :> d)
WithTable(comp, n) == [h |-> comp.h, v |-> comp.v, quant_tbl_no |-> n]
Picture(width, height, comps, color, markers) ==
  [width |-> width, height |-> height, comps |-> comps, color |-> color, markers |-> markers,
   tables |-> <<Table(1, 2, 3, 5), Table(2, 7, 3, 1)>>, coefs |-> << >>]
Colored(h, v) == <<WithTable(Comp(h, v), 1), WithTable(Comp(1, 1), 2), WithTable(Comp(1, 1), 2)>>
SmallPictures ==
  {Picture(size[1], size[2], Colored(h, 2), "YCbCr", <<"JFIF", "COM", "APP1">>) :
     size \in {<<5, 9>>, <<8, 4>>}, h \in {1, 2}}
    \cup {Picture(1, 1, Colored(2, 1), "YCbCr", << >>),
          Picture(5, 9, <<WithTable(Comp(1, 2), 2)>>, "GRAYSCALE", <<"Adobe", "APP1", "COM">>),
          Picture(7, 3, <<WithTable(Comp(1, 1), 1), WithTable(Comp(1, 2), 1)>>, "UNKNOWN", << >>),
          Picture(7, 3, Colored(1, 1), "RGB", <<"Adobe", "COM">>)}
OnePicture == Picture(1, 1, <<WithTable(Comp(1, 1), 1)>>, "GRAYSCALE", << >>)
Switch(transform, trim, gray, copy) ==
  [transform |-> transform, trim |-> trim, force_grayscale |-> gray, copy |-> copy]
Transforms ==
  Transposing \cup {"none", "flip_h", "flip_v", "rot_180"}
SmallSwitches ==
  {Switch(transform, trim, FALSE, "all") : transform \in Transforms, trim \in BOOLEAN}
    \cup {Switch(transform, TRUE, TRUE, "comments") : transform \in Transforms}
    \cup {Switch("none", FALSE, FALSE, "none")}
-----------------------------------------------------------------------------
Paths == {"message", "digest", "scan", "progression", "codes", "rows", "blocks", "lines",
          "samples", "turns", "memory", "coefficients"}

\* A way that is not taken stays at one of its initial states.
Only(way, choices, one) == IF path = way THEN choices ELSE {one}
Init ==
  /\ path \in Paths
  /\ shown \in {OutputDimensions(p) : p \in Only("lines", Shows, OneLine)}
  /\ OutputInit
  /\ source \in {InputDimensions(p) : p \in Only("samples", Takes, OneSample)}
  /\ InputInit
  /\ MessageInit
  /\ DigestInit
  /\ interval \in IF path \in {"scan", "progression", "codes"} THEN Intervals ELSE {0}
  /\ ScanInit
  /\ picture \in Only("progression", Images, GrayImage)
  /\ script \in Only("progression", ScriptChoices, OnePass)
  /\ ProgInit
  /\ IF path = "codes" THEN ScanChoices ELSE ScanOf(OneCount.image, OneCount.tbl_no)
  /\ OptimalInit
  /\ layout \in Only("blocks", Layouts, OneBlock)
  /\ room \in Only("blocks", MinHeights, 1)
  /\ GeometryInit
  /\ VirtualInit
  /\ path = "rows" \/ Range(array.mem_buffer) \cup Range(array.b_s_info) = {Zero}
  /\ turned \in {SomeImage(p) : p \in Only("turns", Pictures, OnePicture)}
  /\ TransformInit
  /\ system \in Only("memory", Rooms, [heap |-> 30, files |-> 0])
  /\ PoolsInit
  /\ cover \in Only("coefficients", Covers, [k \in Members |-> 0])
  /\ full \in Only("coefficients", [Members -> FullSteps], [k \in Members |-> 1])
  /\ reduced \in Only("coefficients", [Members -> ReducedSteps], [k \in Members |-> 3])
  /\ threshold \in Only("coefficients", Thresholds, 0)
  /\ WetInit

Next ==
  \/ path = "message" /\ MessageNext
       /\ UNCHANGED <<path, digestVars, codingVars, blockVars, poolVars, wetVars>>
  \/ path = "digest" /\ DigestNext
       /\ UNCHANGED <<path, messageVars, codingVars, blockVars, poolVars, wetVars>>
  \/ path = "scan" /\ ScanNext
       /\ UNCHANGED <<path, messageVars, digestVars, blockVars, poolVars, codeVars, wetVars>>
       /\ UNCHANGED <<ppc, picture, script, scanno, mcu, coder, reader, coef_bits, restored>>
  \/ path = "progression" /\ ProgNext
       /\ UNCHANGED <<path, messageVars, digestVars, blockVars, poolVars, codeVars, wetVars>>
       /\ UNCHANGED <<spc, image, saved, segments, hurt, entropy, decoded>>
  \/ path = "codes" /\ OptimalNext
       /\ UNCHANGED <<path, messageVars, digestVars, scanVars, progVars, blockVars, poolVars, wetVars>>
  \/ path = "rows" /\ VirtualNext
       /\ UNCHANGED <<restVars, geometryVars, rowVars, transformVars>>
  \/ path = "blocks" /\ GeometryNext
       /\ UNCHANGED <<restVars, arrayVars, rowVars, transformVars>>
  \/ path = "lines" /\ OutputNext
       /\ UNCHANGED <<restVars, arrayVars, geometryVars, inputVars, transformVars>>
  \/ path = "samples" /\ InputNext
       /\ UNCHANGED <<restVars, arrayVars, geometryVars, outputVars, transformVars>>
  \/ path = "turns" /\ TransformNext
       /\ UNCHANGED <<restVars, arrayVars, geometryVars, rowVars>>
  \/ path = "memory" /\ PoolsNext
       /\ UNCHANGED <<path, messageVars, digestVars, codingVars, blockVars, wetVars>>
  \/ path = "coefficients" /\ WetNext
       /\ UNCHANGED <<path, messageVars, digestVars, codingVars, blockVars, poolVars>>

Spec == Init /\ [][Next]_vars
=============================================================================
