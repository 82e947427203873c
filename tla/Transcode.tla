------------------------------ MODULE Transcode ------------------------------
(***************************************************************************)
(* The two commands of tulipan over the files they share: the encoder      *)
(* reads the cover four times, with a new decompression object each time   *)
(* (its coefficients, its tables, its tables again or those of a quality,  *)
(* and what it copies into the stego image), and writes the stego image;   *)
(* the decoder reads that, perhaps while it is still being written.  What  *)
(* happens to the message in between is the subject of WetChannel and      *)
(* WetCoefficients; here the injection succeeds or fails.                  *)
(*                                                                         *)
(* A process ends by itself, by the exit of libjpeg's error handler, by an *)
(* exception nobody catches, or by a division by zero.                     *)
(***************************************************************************)
EXTENDS JpegWriter

CONSTANT Jobs
  \* Records of: the files there are at first (files), those that cannot be
  \* written (readonly), the names of the cover and of the stego image on the
  \* command line (cover, stego), the quality and the number of matrices on it,
  \* the units that fit on the disk (room), and whether the cover has
  \* coefficients that are too large for smaller steps (large).

ASSUME JobsAssumption ==
  /\ {INPUT_BUF_SIZE, OUTPUT_BUF_SIZE, NoOfRows} \subseteq Nat \ {0}
  /\ NUM_QUANT_TBLS \in Nat /\ NUM_QUANT_TBLS >= 2 /\ NUM_HUFF_TBLS \in Nat /\ NUM_HUFF_TBLS >= 2
  /\ MAX_COMPONENTS \in Nat /\ MAX_COMPS_IN_SCAN \in Nat /\ MAX_BLOCKS_IN_MCU \in Nat
  /\ StdLuminance \in Nat /\ StdChrominance \in Nat
  /\ \A j \in Jobs :
       /\ \A n \in DOMAIN j.files : IsStream(j.files[n])
       /\ j.quality \in Int /\ j.room \in Nat /\ j.large \in BOOLEAN

Processes == {"encode", "decode"}
Temp == "/tmp/tmpImage.jpg"

VARIABLES
  job,
  files,      \* the contents of the files there are
  pc,         \* where each process is
  purpose,    \* the encoder's: what the cover is open for
  dec,        \* the decompression object of each process
  comp,       \* the encoder's compression object
  full, reduced,   \* m_pFullInfoQuantizationTables, m_pReducedInfoQuantizationTables
  collection, \* the coefficients each process has read: those of the first component
  seen        \* history: all that the object they were read with held

vars == <<job, files, pc, purpose, dec, comp, full, reduced, collection, seen>>

NoObject == [global_state |-> "none", error |-> "none"]
Running == {"start", "open", "header", "coefficients", "compress", "close", "derive"}

Init ==
  /\ job \in Jobs
  /\ files = job.files
  /\ pc = [p \in Processes |-> "start"]
  /\ purpose = [p \in Processes |-> "read"]
  /\ dec = [p \in Processes |-> NoObject] /\ comp = NoObject
  /\ full = [s \in QuantSlots |-> NoTable] /\ reduced = full
  /\ collection = [p \in Processes |-> << >>]
  /\ seen = [p \in Processes |-> NoObject]

Go(p, place) == pc' = [pc EXCEPT ![p] = place]
SetDec(p, object) == dec' = [dec EXCEPT ![p] = object]
Opened(p) == IF p = "encode" THEN job.cover ELSE job.stego
-----------------------------------------------------------------------------
\* The message file is read first; without one an exception is thrown.
Start(p) ==
  /\ pc[p] = "start"
  /\ Go(p, IF p = "encode" /\ ~job.message THEN "aborted" ELSE "open")
  /\ UNCHANGED <<job, files, purpose, dec, comp, full, reduced, collection, seen>>

\* DecompressionStarter: the exception of a missing file ends the program
\* without the destructors of what is open.
DecompressionStarter(p) ==
  /\ pc[p] = "open"
  /\ IF Opened(p) \in DOMAIN files
     THEN SetDec(p, CreateDecompress(Opened(p))) /\ Go(p, "header")
     ELSE Go(p, "aborted") /\ UNCHANGED dec
  /\ UNCHANGED <<job, files, purpose, comp, full, reduced, collection, seen>>

\* jpeg_read_header, marker by marker.
ReadHeader(p) ==
  /\ pc[p] = "header" /\ dec[p].global_state = "DSTATE_START"
  /\ \E d \in {ConsumeInput(dec[p], files[dec[p].file])} :
         SetDec(p, d) /\ Go(p, IF d.error # "none" THEN "exited" ELSE "header")
  /\ UNCHANGED <<job, files, purpose, comp, full, reduced, collection, seen>>

HeaderRead(p) == pc[p] = "header" /\ dec[p].global_state = "DSTATE_READY"

\* jpeg_read_coefficients, from its start to the end of the image.
StartReadCoefficients(p) ==
  /\ \/ HeaderRead(p) /\ purpose[p] = "read"
     \/ pc[p] = "coefficients" /\ dec[p].global_state = "DSTATE_READY"
  /\ \E d \in {StartCoefficients(dec[p])} :
         SetDec(p, d) /\ Go(p, IF d.error # "none" THEN "exited" ELSE "coefficients")
  /\ UNCHANGED <<job, files, purpose, comp, full, reduced, collection, seen>>

ReadCoefficients(p) ==
  /\ pc[p] = "coefficients" /\ dec[p].global_state = "DSTATE_RDCOEFS"
  /\ \E d \in {ConsumeInput(dec[p], files[dec[p].file])} :
         /\ SetDec(p, IF d.eoi_reached THEN [d EXCEPT !.global_state = "DSTATE_STOPPING"]
                      ELSE d)
         /\ Go(p, IF d.error # "none" THEN "exited" ELSE "coefficients")
  /\ UNCHANGED <<job, files, purpose, comp, full, reduced, collection, seen>>

\* LoadDCT_Coefficients copies the first component; the store is destroyed.
Loaded(p) ==
  /\ pc[p] = "coefficients" /\ purpose[p] = "read"
  /\ dec[p].global_state = "DSTATE_STOPPING"
  /\ collection' = [collection EXCEPT ![p] = dec[p].coef_arrays[1]]
  /\ seen' = [seen EXCEPT ![p] = dec[p]]
  /\ SetDec(p, NoObject)
  /\ UNCHANGED <<job, files, comp, full, reduced>>
\* (Mutant: the decoder, too, goes on to the tables.)
LoadForTheEncoder(p) ==
  Loaded(p) /\ purpose' = [purpose EXCEPT ![p] = "full"] /\ Go(p, "open")
LoadDCT_Coefficients(p) ==
  /\ Loaded(p)
  /\ IF p = "encode"
     THEN purpose' = [purpose EXCEPT ![p] = "full"] /\ Go(p, "open")
     ELSE UNCHANGED purpose /\ Go(p, "derive")

(* AquireQuantizationTables: the tables of the cover's header, and then    *)
(* either the same ones or those of a quality, for which a file is opened  *)
(* that nothing is written to.                                             *)
AquireExistingTables ==
  /\ HeaderRead("encode") /\ purpose["encode"] \in {"full", "reduced"}
  /\ purpose["encode"] = "reduced" => job.quality = 0
  /\ IF purpose["encode"] = "full"
     THEN /\ full' = dec["encode"].quant_tbl_ptrs /\ UNCHANGED reduced
          /\ purpose' = [purpose EXCEPT !["encode"] = "reduced"]
          /\ Go("encode", "open")
     ELSE /\ reduced' = dec["encode"].quant_tbl_ptrs /\ UNCHANGED full
          /\ UNCHANGED purpose
          /\ Go("encode", "derive")
  /\ SetDec("encode", NoObject)
  /\ UNCHANGED <<job, files, comp, collection, seen>>

Truncate(name) == [n \in DOMAIN files \cup {name} |-> IF n = name THEN << >> ELSE files[n]]

\* (Mutant: the file is that of the stego image.)
AquireTablesFrom(name) ==
  /\ HeaderRead("encode") /\ purpose["encode"] = "reduced" /\ job.quality # 0
  /\ IF name \in job.readonly
     THEN Go("encode", "aborted") /\ UNCHANGED <<files, dec, reduced>>
     ELSE \E copied \in {jpeg_copy_critical_parameters(dec["encode"], CreateCompress(name))} :
              /\ files' = Truncate(name)
              /\ IF copied.error # "none"
                 THEN Go("encode", "exited") /\ UNCHANGED <<dec, reduced>>
                 ELSE /\ reduced' = jpeg_set_quality(copied, job.quality, TRUE).quant_tbl_ptrs
                      /\ SetDec("encode", NoObject)
                      /\ Go("encode", "derive")
  /\ UNCHANGED <<job, purpose, comp, full, collection, seen>>
AquireTablesFromStego == AquireTablesFrom(job.stego)
AquireTablesOfQuality == AquireTablesFrom(Temp)

(* The sequences are derived and the message injected.  A cover that comes *)
(* out as zeros has no dry coefficient, and the estimate of the first run  *)
(* divides by their number; so does NoOfColumns by the number of matrices. *)
Inject ==
  /\ pc["encode"] = "derive"
  /\ IF job.matrices = 0 \/ full[0] = NoTable
     THEN Go("encode", "crashed") /\ UNCHANGED purpose
     ELSE \/ Go("encode", "refused") /\ UNCHANGED purpose
          \/ /\ purpose' = [purpose EXCEPT !["encode"] = "write"]
             /\ Go("encode", "open")
  /\ UNCHANGED <<job, files, dec, comp, full, reduced, collection, seen>>

Retrieve ==
  /\ pc["decode"] = "derive"
  /\ Go("decode", IF job.matrices = 0 THEN "crashed" ELSE "retrieved")
  /\ UNCHANGED <<job, files, purpose, dec, comp, full, reduced, collection, seen>>
-----------------------------------------------------------------------------
\* WriteJPEG_Image up to SaveDCT_Coefficients: the stego image is opened for
\* writing, and gets the parameters of the cover and the reduced table in slot 0.
StartWith(table) ==
  /\ HeaderRead("encode") /\ purpose["encode"] = "write"
  /\ IF job.stego \in job.readonly
     THEN Go("encode", "aborted") /\ UNCHANGED <<files, comp>>
     ELSE \E copied \in {jpeg_copy_critical_parameters(dec["encode"], CreateCompress(job.stego))} :
              /\ files' = Truncate(job.stego)
              /\ IF copied.error # "none"
                 THEN comp' = copied /\ Go("encode", "exited")
                 ELSE /\ comp' = [copied EXCEPT !.quant_tbl_ptrs[0] = table]
                      /\ Go("encode", "coefficients")
  /\ UNCHANGED <<job, purpose, dec, full, reduced, collection, seen>>
\* (Mutant: slot 0 keeps the table of the cover.)
StartWithTheCovers == StartWith(dec["encode"].quant_tbl_ptrs[0])
CompressionStarter == StartWith(reduced[0])

\* What the wet coefficients are: those read from the cover, requantized.
Wet(content) == [content EXCEPT !.full = full[0], !.reduced = reduced[0]]

\* The first component of the cover's arrays becomes the wet coefficients, and
\* the object is told to write the arrays, which only jpeg_finish_compress does.
\* (Mutant: the cover's object is destroyed before.)
SaveAndDestroyCover ==
  /\ pc["encode"] = "coefficients" /\ purpose["encode"] = "write"
  /\ dec["encode"].global_state = "DSTATE_STOPPING"
  /\ comp' = jpeg_write_coefficients(comp)
  /\ SetDec("encode", NoObject)
  /\ Go("encode", "compress")
  /\ UNCHANGED <<job, files, purpose, full, reduced, collection, seen>>
SaveDCT_Coefficients ==
  /\ pc["encode"] = "coefficients" /\ purpose["encode"] = "write"
  /\ dec["encode"].global_state = "DSTATE_STOPPING"
  /\ SetDec("encode", [dec["encode"] EXCEPT !.coef_arrays[1] =
                         [r \in Rows |-> Wet(collection["encode"][r])]])
  /\ comp' = jpeg_write_coefficients(comp)
  /\ Go("encode", IF comp'.error # "none" THEN "exited" ELSE "compress")
  /\ UNCHANGED <<job, files, purpose, full, reduced, collection, seen>>

(* The library has put units into the buffer, and writes the buffers that  *)
(* are full, or all.  What does not fit on the disk ends the program.      *)
Output(c, all) ==
  LET size == Emptied(c, all)
      room == job.room - Len(files[job.stego])
      part == IF size <= room THEN size ELSE room
  IN  /\ files' = [files EXCEPT ![job.stego] = @ \o SubSeq(c.buffer, 1, part)]
      /\ comp' = [c EXCEPT !.buffer = SubSeq(@, size + 1, Len(@)),
                           !.error = IF part < size THEN "JERR_FILE_WRITE" ELSE @]
      /\ pc' = [pc EXCEPT !["encode"] =
                  IF comp'.error # "none" THEN "exited" ELSE IF all THEN "close" ELSE @]

PrepareForPass ==
  /\ pc["encode"] = "compress" /\ ~comp.is_last_pass
  /\ \E c \in {prepare_for_pass(comp)} : Output(c, FALSE)
  /\ UNCHANGED <<job, purpose, dec, full, reduced, collection, seen>>

TooLarge(content) == job.large /\ content.reduced < content.full

CompressOutput ==
  /\ pc["encode"] = "compress" /\ comp.is_last_pass /\ comp.iMCU_row_num < NoOfRows
  /\ \E c \in {compress_output(comp, dec["encode"].coef_arrays, TooLarge)} : Output(c, FALSE)
  /\ UNCHANGED <<job, purpose, dec, full, reduced, collection, seen>>

\* write_file_trailer and term_destination.
FinishCompress ==
  /\ pc["encode"] = "compress" /\ comp.is_last_pass /\ comp.iMCU_row_num = NoOfRows
  /\ \E c \in {write_file_trailer(comp)} : Output(c, TRUE)
  /\ UNCHANGED <<job, purpose, dec, full, reduced, collection, seen>>

\* The store of the stego image is deleted, then that of the cover.
DestroyStores ==
  /\ pc["encode"] = "close"
  /\ comp' = NoObject /\ SetDec("encode", NoObject)
  /\ Go("encode", "embedded")
  /\ UNCHANGED <<job, files, purpose, full, reduced, collection, seen>>
-----------------------------------------------------------------------------
Encode ==
  \/ Start("encode")
  \/ DecompressionStarter("encode")
  \/ ReadHeader("encode")
  \/ StartReadCoefficients("encode")
  \/ ReadCoefficients("encode")
  \/ LoadDCT_Coefficients("encode")
  \/ AquireExistingTables
  \/ AquireTablesOfQuality
  \/ Inject
  \/ CompressionStarter
  \/ SaveDCT_Coefficients
  \/ PrepareForPass
  \/ CompressOutput
  \/ FinishCompress
  \/ DestroyStores

Decode ==
  \/ Start("decode")
  \/ DecompressionStarter("decode")
  \/ ReadHeader("decode")
  \/ StartReadCoefficients("decode")
  \/ ReadCoefficients("decode")
  \/ LoadDCT_Coefficients("decode")
  \/ Retrieve

Ended == \A p \in Processes : pc[p] \notin Running
Next == Encode \/ Decode \/ (Ended /\ UNCHANGED vars)

Spec == Init /\ [][Next]_vars /\ WF_vars(Encode) /\ WF_vars(Decode)
-----------------------------------------------------------------------------
(* The types: of the files, of the places the processes are at, of their   *)
(* objects, and of what they have read.                                    *)
FilesOK ==
  /\ job \in Jobs
  /\ DOMAIN job.files \subseteq DOMAIN files
  /\ DOMAIN files \subseteq DOMAIN job.files \cup {Temp, job.stego}
  /\ \A n \in DOMAIN files : IsStream(files[n])

ProcessesOK ==
  /\ pc \in [Processes -> Running \cup
               {"aborted", "exited", "crashed", "refused", "embedded", "retrieved"}]
  /\ purpose \in [Processes -> {"read", "full", "reduced", "write"}]
  /\ purpose["decode"] = "read"
  /\ pc["decode"] \notin {"compress", "close", "embedded", "refused"} /\ pc["encode"] # "retrieved"
  /\ pc["encode"] = "derive" => purpose["encode"] = "reduced"

\* An object is open while a process reads, and has not failed.
ReaderOK(p) ==
  /\ dec[p] = NoObject \/ (IsDecompress(dec[p]) /\ dec[p].file \in DOMAIN files)
  /\ pc[p] \in {"header", "coefficients"} => dec[p] # NoObject /\ dec[p].error = "none"

\* The writer has the components of the object whose arrays it writes.
CompressorOK ==
  /\ comp = NoObject \/ IsCompress(comp)
  /\ (\/ pc["encode"] = "coefficients" /\ purpose["encode"] = "write"
      \/ pc["encode"] = "compress")
     => /\ comp # NoObject /\ job.stego \in DOMAIN files
        /\ DOMAIN comp.comp_info = DOMAIN dec["encode"].comp_info

TranscodeTypeOK ==
  /\ FilesOK /\ ProcessesOK
  /\ dec \in [Processes -> {dec[p] : p \in Processes}] /\ \A p \in Processes : ReaderOK(p)
  /\ CompressorOK
  /\ full \in [QuantSlots -> Nat] /\ reduced \in [QuantSlots -> Nat]

\* What the library reads from a file that nobody writes: the object at the end
\* of the image, or at an error.
ReadBack(content) ==
  LET Step(d) ==
        IF d.error # "none" \/ d.eoi_reached THEN d
        ELSE IF d.global_state = "DSTATE_READY" THEN StartCoefficients(d)
        ELSE ConsumeInput(d, content)
      read[n \in 0 .. 2 * (Len(content) + NoOfRows + 2)] ==
        IF n = 0 THEN CreateDecompress("") ELSE Step(read[n - 1])
  IN  read[2 * (Len(content) + NoOfRows + 2)]

DistinctNames == job.stego \notin {job.cover, Temp} /\ job.cover # Temp

\* There is no image from an earlier run at the name of the stego image, at most
\* a part of one: such an image would be read as it is.
NoOldImage ==
  job.stego \in DOMAIN job.files =>
    \A i \in DOMAIN job.files[job.stego] : job.files[job.stego][i].kind # "EOI"

\* A decoder has read the stego image, and without a warning.
HasReadIt == pc["decode"] \in {"derive", "retrieved"} /\ NoOldImage /\ ~seen["decode"].warned

\* A decoder that has read an image without a warning came when the encoder had
\* written all of it, or read until it had: nothing it takes for the message is
\* from half an image.
HalfAnImageIsNoticed ==
  HasReadIt /\ DistinctNames => pc["encode"] \in {"close", "embedded"}

\* The components of an object have ids of their own.
DistinctIds(d) ==
  \A ci, cj \in DOMAIN d.comp_info :
    d.comp_info[ci].component_id = d.comp_info[cj].component_id => ci = cj

\* When the encoder reports success, the stego image is complete and sound,
\* whatever the cover was like and however much room there was: it has the wet
\* coefficients in the first component, what was read of the cover in all
\* others, and its color space (WriteJPEG_Image, SaveDCT_Coefficients).  A decoder
\* that had no warning has read that, although some of it was written while it
\* read, unless it had begun with what an earlier run had left there.
StegoComesBack ==
  pc["encode"] = "embedded" /\ DistinctNames /\ DistinctIds(seen["encode"]) =>
    LET d == ReadBack(files[job.stego])
        cover == seen["encode"]
    IN  /\ d.error = "none" /\ ~d.warned /\ d.eoi_reached
        /\ d.jpeg_color_space = cover.jpeg_color_space
        /\ DOMAIN d.coef_arrays = DOMAIN cover.coef_arrays
        /\ \A ci \in DOMAIN d.coef_arrays :
             d.coef_arrays[ci] = IF ci = 1 THEN [r \in Rows |-> Wet(collection["encode"][r])]
                                 ELSE cover.coef_arrays[ci]
        /\ HasReadIt /\ job.stego \notin DOMAIN job.files =>
             seen["decode"].coef_arrays = d.coef_arrays

\* A cover with all its tables in front of its scans, and its first component on
\* slot 0.
KeepsItsTables ==
  /\ seen["encode"].comp_info[1].quant_tbl_no = 0
  /\ \A i, j \in DOMAIN job.files[job.cover] :
       job.files[job.cover][i].kind = "SOS" /\ job.files[job.cover][j].kind = "DQT" => j < i

\* The steps the wet coefficients were requantized from are those they were
\* read with, and the stego image says the steps they were requantized to; the
\* other components that were read keep their own, except that those on slot 0
\* get the first one's (c_l_jpeg_interface.cpp:479).
StepsBelongToTheCoefficients ==
  pc["encode"] = "embedded" /\ DistinctNames /\ DistinctIds(seen["encode"]) /\ KeepsItsTables =>
    LET d == ReadBack(files[job.stego])
        table(object, ci) == object.comp_info[ci].quant_table
        read == {ci \in DOMAIN d.comp_info : table(seen["encode"], ci) # NoTable}
    IN  /\ 1 \in read => full[0] = table(seen["encode"], 1)
        /\ table(d, 1) = reduced[0]
        /\ \A ci \in read :
             d.comp_info[ci].quant_tbl_no # 0 => table(d, ci) = table(seen["encode"], ci)

\* No file is lost before the message is injected, except for the one whose
\* name the program takes for its own, and afterwards only the stego image
\* changes (c_l_jpeg_interface.cpp:403 and :461).
OnlyTheStegoImageChanges ==
  \A n \in DOMAIN job.files :
    files[n] # job.files[n] =>
      \/ n = job.stego /\ purpose["encode"] = "write"
      \/ n = Temp /\ job.quality # 0

\* The library is never called out of turn, and while it writes coefficients
\* the arrays it was given are those of an object that is not destroyed yet.
ArraysOutliveTheirWriter ==
  /\ \A p \in Processes : dec[p].error # "JERR_BAD_STATE"
  /\ comp.error # "JERR_BAD_STATE"
  /\ comp.global_state = "CSTATE_WRCOEFS" /\ pc["encode"] = "compress" =>
       dec["encode"].global_state = "DSTATE_STOPPING"

\* Either command ends, whatever the files are like: behind the end of a file
\* that ends too early there is always an end of the image (jdatasrc.c:96).
CommandsEnd == <>Ended
=============================================================================
