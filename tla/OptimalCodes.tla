---------------------------- MODULE OptimalCodes ----------------------------
(***************************************************************************)
(* Huffman tables made for one scan (jchuff.c, with optimize_coding, and   *)
(* jcphuff.c always): a first pass counts the symbols the coder is going   *)
(* to emit, and the best code for the counts is built, cut down to the     *)
(* length JPEG allows and written without the pseudo-symbol that keeps the *)
(* code of all ones free.  A symbol the first pass missed would have no    *)
(* code in the second.                                                     *)
(***************************************************************************)
EXTENDS EntropyBits

CONSTANTS
  CountedBlocks,   \* the blocks of the images that are counted
  CountedMCUs,     \* MCUs of an image, of one block of each component
  TableNumbers,    \* the choices of the tables of the components
  Histograms,      \* counts that come from no image
  MaxCount,        \* the largest count the search for the least takes: 1000000000
  LengthLimit,     \* the longest code JPEG allows: 16
  MAX_CLEN         \* the longest one expected of the tree: 32

VARIABLES
  opc,         \* "gather", "merge", "limit" or "done"
  scanned,     \* the image that is counted, its tables, and how far the counting is
  counts,      \* dc_count_ptrs and ac_count_ptrs
  did,         \* did_dc, did_ac: the tables whose turn it has been, the last one's at the end
  tree,        \* freq, codesize and others
  code_bits,   \* how many codes of each length
  htbl         \* the tables that are finished

codeVars == <<opc, scanned, counts, did, tree, code_bits, htbl>>

\* A symbol is numbered as the program does, a run in the higher bits.
MaxSize == MaxZeros
SymbolOf(r, nbits) == r * (MaxSize + 1) + nbits
ZRL == SymbolOf(MaxZeros, 0)
EOB == SymbolOf(0, 0)
RealSymbols == 0 .. SymbolOf(MaxZeros, MaxSize)
Pseudo == SymbolOf(MaxZeros, MaxSize) + 1       \* 256
NoCounts == [s \in RealSymbols |-> 0]
-----------------------------------------------------------------------------
(* The first pass.                                                         *)

\* htest_one_block: the AC symbols of a block, in the loop over its coefficients.
GatheredAC(block) ==
  LET walk[k \in 1 .. DCTSIZE2] ==    \* [counted, r] behind the coefficient k
        CASE k = 1 -> [counted |-> << >>, r |-> 0]
          [] k > 1 /\ block[k] = 0 -> [walk[k - 1] EXCEPT !.r = @ + 1]
          [] OTHER ->
               [counted |-> walk[k - 1].counted
                  \o [n \in 1 .. walk[k - 1].r \div (MaxZeros + 1) |-> ZRL]
                  \o <<SymbolOf(walk[k - 1].r % (MaxZeros + 1), NoOfBits(block[k]))>>,
                r |-> 0]
  IN  walk[DCTSIZE2].counted \o (IF walk[DCTSIZE2].r > 0 THEN <<EOB>> ELSE << >>)

Incremented(histogram, symbols) ==
  [s \in DOMAIN histogram |->
     histogram[s] + Cardinality({i \in DOMAIN symbols : symbols[i] = s})]

\* encode_mcu_gather; only the predictions and the countdown of a restart matter.
Restarting == interval > 0 /\ scanned.restarts_to_go = 0
DCBefore(ci) == IF Restarting THEN 0 ELSE scanned.last_dc_val[ci]
GatherMCU ==
  /\ opc = "gather" /\ scanned.mcu < Len(scanned.image)
  /\ \E blocks \in {scanned.image[scanned.mcu + 1]} :
       /\ counts' = [t \in DOMAIN counts |->
            Incremented(counts[t],
              FlattenSeq([ci \in DOMAIN blocks |->
                IF t[2] # scanned.tbl_no[ci] THEN << >>
                ELSE IF t[1] = "dc" THEN <<NoOfBits(blocks[ci][1] - DCBefore(ci))>>
                ELSE GatheredAC(blocks[ci])]))]
       /\ scanned' = [scanned EXCEPT
            !.mcu = @ + 1,
            !.last_dc_val = [ci \in DOMAIN blocks |-> blocks[ci][1]],
            !.restarts_to_go = IF interval = 0 THEN 0
                               ELSE (IF Restarting THEN interval ELSE @) - 1]
  /\ UNCHANGED <<opc, did, tree, code_bits, htbl, interval>>
-----------------------------------------------------------------------------
(* jpeg_gen_optimal_table                                                  *)

\* The counts are used up by it, so that each table gets one turn only, however
\* many components share it.
Turns ==
  LET all == FlattenSeq([ci \in DOMAIN scanned.tbl_no |->
                           <<<<"dc", scanned.tbl_no[ci]>>, <<"ac", scanned.tbl_no[ci]>>>>])
      again == {n \in DOMAIN all : \E m \in 1 .. n - 1 : all[m] = all[n]}
  IN  [n \in 1 .. Len(all) - Cardinality(again) |->
         all[CHOOSE m \in DOMAIN all \ again :
               Cardinality((1 .. m) \ again) = n]]

Planted(histogram) ==
  [freq     |-> [s \in RealSymbols \cup {Pseudo} |-> IF s = Pseudo THEN 1 ELSE histogram[s]],
   codesize |-> [s \in RealSymbols \cup {Pseudo} |-> 0],
   others   |-> [s \in RealSymbols \cup {Pseudo} |-> -1]]

BeginTable ==
  /\ opc = "gather" /\ scanned.mcu = Len(scanned.image) /\ Len(did) < Len(Turns)
  /\ did' = Append(did, Turns[Len(did) + 1])
  /\ tree' = Planted(counts[Turns[Len(did) + 1]])
  /\ opc' = "merge"
  /\ UNCHANGED <<scanned, counts, code_bits, htbl, interval>>

\* The smallest count, and the largest of the symbols that have it; counts that
\* are too large are not seen.
LeastUsed(freq, not) ==
  LET used == {s \in DOMAIN freq : 0 < freq[s] /\ freq[s] <= MaxCount} \ not
  IN  IF used = {} THEN -1
      ELSE CHOOSE s \in used : \A t \in used : freq[s] < freq[t] \/ (freq[s] = freq[t] /\ t <= s)

\* A symbol and those chained onto its branch.
RECURSIVE Branch(_, _)
Branch(others, s) == IF s = -1 THEN << >> ELSE <<s>> \o Branch(others, others[s])

\* The second branch is chained to the end of the first.
Merged(t, c1, c2) ==
  [freq     |-> [t.freq EXCEPT ![c1] = @ + t.freq[c2], ![c2] = 0],
   codesize |-> [s \in DOMAIN t.codesize |->
                   IF s \in Range(Branch(t.others, c1) \o Branch(t.others, c2))
                   THEN t.codesize[s] + 1 ELSE t.codesize[s]],
   others   |-> [t.others EXCEPT ![Last(Branch(t.others, c1))] = c2]]

MergeTwo ==
  /\ opc = "merge"
  /\ \E c1 \in {LeastUsed(tree.freq, {})} : \E c2 \in {LeastUsed(tree.freq, {c1})} :
       c2 # -1 /\ tree' = Merged(tree, c1, c2)
  /\ UNCHANGED <<opc, scanned, counts, did, code_bits, htbl, interval>>

CountLengths ==
  /\ opc = "merge" /\ LeastUsed(tree.freq, {LeastUsed(tree.freq, {})}) = -1
  /\ code_bits' = [l \in 1 .. MAX_CLEN |->
                Cardinality({s \in DOMAIN tree.codesize : tree.codesize[s] = l})]
  /\ opc' = "limit"
  /\ UNCHANGED <<scanned, counts, did, tree, htbl, interval>>

\* Two codes that are too long go: one takes the place of their prefix, the
\* other shares that of a shorter code.
Longest(lengths) == CHOOSE l \in DOMAIN lengths :
  lengths[l] > 0 /\ \A m \in DOMAIN lengths : m > l => lengths[m] = 0
Shortened(lengths, i) ==
  LET j == CHOOSE j \in 1 .. i - 2 :
             lengths[j] > 0 /\ \A k \in j + 1 .. i - 2 : lengths[k] = 0
  IN  [lengths EXCEPT ![i] = @ - 2, ![i - 1] = @ + 1, ![j + 1] = @ + 2, ![j] = @ - 1]
\* (Mutant: the loop over the lengths ends one too early.)
TooLongByTwo(lengths) == Longest(lengths) > LengthLimit + 1
TooLong(lengths) == Longest(lengths) > LengthLimit
ShortenTwo ==
  /\ opc = "limit" /\ TooLong(code_bits)
  /\ code_bits' = Shortened(code_bits, Longest(code_bits))
  /\ UNCHANGED <<opc, scanned, counts, did, tree, htbl, interval>>

\* The symbols in the order of the lengths the tree gave them take the lengths
\* that are left, without one of the longest, which was the pseudo-symbol's.
WithoutPseudo(lengths) == [lengths EXCEPT ![Longest(lengths)] = @ - 1]
Before(s, t) ==
  \/ tree.codesize[s] < tree.codesize[t]
  \/ tree.codesize[s] = tree.codesize[t] /\ s <= t
Listed ==
  LET coded == {s \in RealSymbols : tree.codesize[s] > 0}
  IN  [p \in 1 .. Cardinality(coded) |->
         CHOOSE s \in coded : Cardinality({t \in coded : Before(t, s)}) = p]
LengthsOf(lengths) ==
  FlattenSeq([l \in DOMAIN lengths |-> [n \in 1 .. lengths[l] |-> l]])
FinishTable ==
  /\ opc = "limit" /\ ~TooLong(code_bits)
  /\ \E lengths \in {LengthsOf(WithoutPseudo(code_bits))} : \E huffval \in {Listed} :
       htbl' = Append(htbl, [p \in 1 .. Len(huffval) |->
                               [symbol |-> huffval[p], length |-> lengths[p]]])
  /\ opc' = "gather"
  \* what is left of the counts
  /\ counts' = [counts EXCEPT ![Last(did)] = [s \in RealSymbols |-> tree.freq[s]]]
  /\ UNCHANGED <<scanned, did, tree, code_bits, interval>>

FinishPassGather ==
  /\ opc = "gather" /\ scanned.mcu = Len(scanned.image) /\ Len(did) = Len(Turns)
  /\ opc' = "done"
  /\ UNCHANGED <<scanned, counts, did, tree, code_bits, htbl, interval>>
-----------------------------------------------------------------------------
Tables(tbl_no) == {"dc", "ac"} \X Range(tbl_no)
OptimalInit ==
  /\ opc = "gather"
  /\ did = << >> /\ htbl = << >>
  /\ tree = Planted(NoCounts)
  /\ code_bits = [l \in 1 .. MAX_CLEN |-> 0]

\* Counts of an image, or any counts at all, for a table of AC symbols.
ScanOf(image, tbl_no) ==
  /\ scanned = [image |-> image, given |-> << >>, mcu |-> 0, tbl_no |-> tbl_no,
             restarts_to_go |-> interval,
             last_dc_val |-> [ci \in DOMAIN tbl_no |-> 0]]
  /\ counts = [t \in Tables(tbl_no) |-> NoCounts]
CountsOf(histogram) ==
  /\ scanned = [image |-> << >>, given |-> histogram, mcu |-> 0, tbl_no |-> <<0>>,
             restarts_to_go |-> 0,
             last_dc_val |-> <<0>>]
  /\ counts = [t \in Tables(<<0>>) |-> [s \in RealSymbols |->
                 IF s \in DOMAIN histogram THEN histogram[s] ELSE 0]]
ScanChoices ==
  \/ \E tbl_no \in TableNumbers :
       \E image \in [1 .. CountedMCUs -> [DOMAIN tbl_no -> CountedBlocks]] :
         ScanOf(image, tbl_no)
  \/ interval = 0 /\ \E histogram \in Histograms : CountsOf(histogram)

OptimalNext ==
  \/ GatherMCU
  \/ BeginTable
  \/ MergeTwo
  \/ CountLengths
  \/ ShortenTwo
  \/ FinishTable
  \/ FinishPassGather

OptimalSpec == OptimalInit /\ ScanChoices /\ [][OptimalNext]_<<codeVars, interval>>
-----------------------------------------------------------------------------
(* What the second pass is going to emit, from the places of the           *)
(* coefficients: a symbol for each that is not zero, with as many ZRLs in  *)
(* front as its run has whole sixteens, and an EOB behind the last one.    *)
NonZero(block) == {k \in 2 .. DCTSIZE2 : block[k] # 0}
RunBefore(block, k) ==
  k - 1 - (CHOOSE p \in NonZero(block) \cup {1} :
             p < k /\ NonZero(block) \cap (p + 1 .. k - 1) = {})
EmittedAC(block) ==
  {SymbolOf(RunBefore(block, k) % (MaxZeros + 1), NoOfBits(block[k])) : k \in NonZero(block)}
    \cup {s \in {ZRL} : \E k \in NonZero(block) : RunBefore(block, k) > MaxZeros}
    \cup {s \in {EOB} : block[DCTSIZE2] = 0}
EmittedDC(m, ci) ==
  NoOfBits(scanned.image[m][ci][1] -
    (IF m = 1 \/ (interval > 0 /\ (m - 1) % interval = 0) THEN 0 ELSE scanned.image[m - 1][ci][1]))
EmittedSymbols(t) ==
  UNION {IF t[1] = "dc" THEN {EmittedDC(m, ci)} ELSE EmittedAC(scanned.image[m][ci]) :
           m \in DOMAIN scanned.image, ci \in {c \in DOMAIN scanned.tbl_no : scanned.tbl_no[c] = t[2]}}

\* The lengths any code for these counts could have, the pseudo-symbol counted once.
WithPseudo(histogram) == [s \in DOMAIN histogram \cup {Pseudo} |->
                            IF s = Pseudo THEN 1 ELSE histogram[s]]
Lengths(symbols) ==
  LET n == Cardinality(symbols)
  IN  {l \in [symbols -> 1 .. n] :
         FoldSet(LAMBDA s, sum : sum + 2 ^ (n - l[s]), 0, symbols) <= 2 ^ n}
Cost(histogram, lengths) ==
  FoldSet(LAMBDA s, sum : sum + histogram[s] * lengths[s], 0, DOMAIN histogram)
LengthIn(table, s) ==
  IF s = Pseudo THEN Last(table).length
  ELSE table[CHOOSE p \in DOMAIN table : table[p].symbol = s].length

\* Every table is one a decoder accepts, no code is too long or all ones, and
\* exactly the symbols the second pass emits have one, in whatever way the
\* components share tables and restarts cut the scan.
TableFits(n) ==
  /\ IsTable(htbl[n]) /\ \A p \in DOMAIN htbl[n] : htbl[n][p].length <= LengthLimit
  /\ scanned.image # << >> => Symbols(htbl[n]) = EmittedSymbols(did[n])

\* No code for the counts takes fewer bits, unless one had to be shortened, and
\* a symbol that occurs more often never has a longer code.
IsOptimal(histogram, table) ==
  \A h \in {WithPseudo(histogram)} : \A l \in {[s \in DOMAIN h |-> LengthIn(table, s)]} :
    /\ \A s, t \in DOMAIN histogram : histogram[s] > histogram[t] => l[s] <= l[t]
    /\ (\A s \in DOMAIN h : tree.codesize[s] <= LengthLimit) =>
         \A other \in Lengths(DOMAIN h) : Cost(h, l) <= Cost(h, other)

\* The merging sees every count and every sum of counts up to the last.
CountsFit(histogram) == FoldFunction(+, 0, histogram) <= MaxCount

\* The best Huffman code table for the given counts (jchuff.c:611).
CodesAreOptimal ==
  opc = "done" =>
    /\ \A n \in DOMAIN htbl : TableFits(n)
    /\ scanned.given # << >> /\ CountsFit(scanned.given) => IsOptimal(scanned.given, htbl[2])
=============================================================================
