---------------------------- MODULE MCTranscode ----------------------------
(***************************************************************************)
(* The images and command lines for TLC: covers of the common layouts,     *)
(* with every one of their markers missing or there twice, cut off         *)
(* anywhere; names that coincide; files that cannot be written.            *)
(***************************************************************************)
EXTENDS Transcode
LOCAL INSTANCE SequencesExt

\* A component of a cover: its id, its slot, its blocks in an MCU.
C(id, slot, blocks) ==
  [component_id |-> id, quant_tbl_no |-> slot, MCU_blocks |-> blocks]
Gray == <<C(1, 0, 1)>>
YCC == <<C(1, 0, 4), C(2, 1, 1), C(3, 1, 1)>>
SharedSlot == <<C(1, 0, 1), C(2, 0, 1)>>
TwoSlots == <<C(1, 0, 1), C(2, 1, 1)>>
SameIds == <<C(1, 0, 1), C(1, 1, 1)>>
OtherSlot == <<C(1, 1, 1), C(2, 0, 1)>>
RGB == <<C(82, 0, 1), C(71, 0, 1), C(66, 0, 1)>>
Four == [ci \in 1 .. 4 |-> C(ci, ci % 2, 1)]
Five == [ci \in 1 .. 5 |-> C(ci, 0, 1)]
Big == [ci \in 1 .. 3 |-> C(ci, 0, 4)]

\* The scan of some of its components; the chrominance has Huffman tables of
\* its own.
Huff(ci) == IF ci = 1 THEN 0 ELSE 1
OwnHuff(ci) == 3 + Huff(ci)
Scan(comps, cis, band, interval) ==
  <<SOS([i \in DOMAIN cis |->
          [component_id |-> comps[cis[i]].component_id,
           dc_tbl_no |-> Huff(cis[i]), ac_tbl_no |-> Huff(cis[i])]], band)>>
  \o [r \in Rows |->
       ROW([i \in DOMAIN cis |->
             [pieces |-> {<<part, cis[i], r>> : part \in band},
              full |-> NoTable, reduced |-> NoTable]],
           [interval |-> interval,
            tables |-> [i \in DOMAIN cis |->
              <<IF "DC" \in band THEN OwnHuff(cis[i]) ELSE NoTable,
                IF "AC" \in band THEN OwnHuff(cis[i]) ELSE NoTable>>]])]

Both == {"DC", "AC"}
All(comps) == [ci \in DOMAIN comps |-> ci]
Header(markers, coding, comps) ==
  <<SOI>> \o markers \o <<DQT(0, 12), DQT(1, 20), SOF(coding, comps),
     DHT("DC", 0, 3), DHT("AC", 0, 3), DHT("DC", 1, 4), DHT("AC", 1, 4)>>
Baseline(markers, comps) ==
  Header(markers, "sequential", comps) \o Scan(comps, All(comps), Both, 0) \o <<EOI>>
Restarting(markers, comps) ==
  Header(markers, "sequential", comps) \o <<DRI(2)>> \o Scan(comps, All(comps), Both, 2) \o <<EOI>>
Separate(comps) ==
  Header(<<APP0>>, "sequential", comps)
    \o FlattenSeq([ci \in DOMAIN comps |-> Scan(comps, <<ci>>, Both, 0)]) \o <<EOI>>
Redefining(comps) ==
  Header(<<APP0>>, "sequential", comps)
    \o Scan(comps, <<1>>, Both, 0) \o <<DQT(0, 5), DHT("DC", 1, 4)>>
    \o Scan(comps, <<2>>, Both, 0) \o <<EOI>>
\* A table that has changed only for the scan of the first component.
ThereAndBack(comps) ==
  Header(<<APP0>>, "sequential", comps)
    \o Scan(comps, <<2>>, Both, 0) \o <<DQT(0, 5)>>
    \o Scan(comps, <<1>>, Both, 0) \o <<DQT(0, 12), EOI>>
\* A component without a scan.
Lacking(comps, ci) ==
  Header(<<APP0>>, "sequential", comps) \o Scan(comps, <<3 - ci>>, Both, 0) \o <<EOI>>
Progressive(comps) ==
  Header(<<APP14(1)>>, "progressive", comps)
    \o Scan(comps, All(comps), {"DC"}, 0) \o Scan(comps, <<1>>, {"AC"}, 0)
    \o Scan(comps, <<2>>, {"AC"}, 0) \o <<EOI>>

Covers == {
  Baseline(<<APP0>>, Gray), Baseline(<<APP0>>, YCC), Restarting(<<APP0, APP14(0)>>, YCC),
  Baseline(<<APP14(0)>>, [YCC EXCEPT ![3] = C(3, 2, 1)]),   \* no table in slot 2
  Baseline(<< >>, RGB), Baseline(<<APP14(7)>>, RGB), Baseline(<<APP14(0)>>, Four),
  Baseline(<<APP14(2)>>, Four), Baseline(<< >>, Four), Baseline(<< >>, Five),
  Baseline(<<APP0>>, OtherSlot), Separate(SharedSlot), Separate(Big), Separate(YCC), Separate(Five),
  Redefining(SharedSlot), ThereAndBack(SharedSlot), Progressive(YCC), Baseline(<<APP0>>, SameIds),
  Lacking(TwoSlots, 1), Lacking(TwoSlots, 2),
  Header(<<APP0>>, "arithmetic", YCC) \o Scan(YCC, All(YCC), Both, 0) \o <<EOI>>,
  \* a component, a quantization and a Huffman table that do not exist
  Header(<<APP0>>, "sequential", Gray) \o Scan(YCC, <<2>>, Both, 0) \o <<EOI>>,
  Baseline(<<DQT(NUM_QUANT_TBLS, 1)>>, Gray), Baseline(<<DHT("AC", NUM_HUFF_TBLS, 3)>>, Gray),
  Header(<<COM, APP0>>, "sequential", Gray)
    \o <<SOS(<<[component_id |-> 1, dc_tbl_no |-> NUM_HUFF_TBLS, ac_tbl_no |-> 0]>>, Both), EOI>>,
  \* no components, or too many
  Header(<<APP0>>, "sequential", << >>) \o <<EOI>>,
  Header(<<APP0>>, "sequential", Gray) \o <<SOS(<< >>, Both), EOI>>,
  Header(<<APP0>>, "sequential", [ci \in 1 .. MAX_COMPONENTS + 1 |-> C(ci, 0, 1)])
    \o Scan(Gray, <<1>>, Both, 0) \o <<EOI>>,
  << >>, <<EOI>> }

CutOff(units) == {SubSeq(units, 1, n) : n \in DOMAIN units}

\* One unit too few, one too often, or the end missing.  (Rows are lost and
\* repeated in ScanCoding.)
Damaged(units) ==
  LET markers == {n \in DOMAIN units : units[n].kind # "ROW"}
  IN  {SubSeq(units, 1, n - 1) \o SubSeq(units, n + 1, Len(units)) : n \in markers}
      \cup {SubSeq(units, 1, n) \o SubSeq(units, n, Len(units)) : n \in markers}
      \cup CutOff(units)

Job(units) ==
  [files |-> [n \in {"cover"} |-> units], readonly |-> {}, message |-> TRUE,
   cover |-> "cover", stego |-> "stego", quality |-> 60, matrices |-> 1,
   room |-> 100, large |-> FALSE]

Plain == Job(Separate(SharedSlot))
Named(cover, stego, quality) ==
  [Plain EXCEPT !.files = [n \in {cover, "other"} |-> IF n = cover THEN Baseline(<<APP0>>, Gray)
                                                      ELSE <<SOI>>],
                !.cover = cover, !.stego = stego, !.quality = quality]

\* What an encoder has left that was stopped in a row.
OldPart ==
  <<SOI, DQT(0, 5), SOF("sequential", SharedSlot), DHT("DC", 0, 1), DHT("AC", 0, 1),
    SOS([i \in 1 .. 2 |-> [component_id |-> i, dc_tbl_no |-> 0, ac_tbl_no |-> 0]], Both),
    ROW([i \in 1 .. 2 |-> [pieces |-> {"old"}, full |-> 12, reduced |-> 5]],
        [interval |-> 0, tables |-> [i \in 1 .. 2 |-> <<1, 1>>]])>>

MCJobs ==
  {Job(units) : units \in Covers}
  \cup {[Job(units) EXCEPT !.quality = 0] :
           units \in {Baseline(<<APP0>>, Gray), Redefining(SharedSlot), Separate(Big)}}
  \cup {Job(units) : units \in Damaged(Restarting(<<APP0>>, SharedSlot)) \cup CutOff(Redefining(OtherSlot))}
  \cup {Named(cover, stego, quality) : cover \in {"cover", Temp},
                       stego \in {"stego", "cover", Temp, "other"}, quality \in {0, 90}}
  \cup {[Plain EXCEPT !.room = room] : room \in {0, 5, 12}}
  \cup {[Plain EXCEPT !.files = [n \in {"cover", "stego"} |->
             IF n = "cover" THEN Separate(SharedSlot) ELSE OldPart]]}
  \cup {[Plain EXCEPT !.quality = quality, !.large = TRUE] : quality \in {1, 30, 95, 120}}
  \cup {[Plain EXCEPT !.readonly = {"stego"}], [Plain EXCEPT !.readonly = {Temp}],
        [Plain EXCEPT !.message = FALSE], [Plain EXCEPT !.matrices = 0]}
=============================================================================
