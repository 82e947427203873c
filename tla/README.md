# TULIPAN: verification project

TULIPAN hides a message in a JPEG image with *wet paper codes* and *perturbed
quantization*: the encoder recompresses the cover, regards the coefficients
whose rounding was a close call as *dry* (they may be changed) and all others as
*wet*, and changes dry ones so that secret linear codes of the parities spell
the message. The decoder, which does not know what was dry, multiplies the
parities it reads by the same code matrices. Both draw the matrices from a
stream of key, seeded with the stego key. The program is sequential and has no
tests. What is hard in it is that two programs, run at different places, must
agree on the position in the key after every run of coefficients, although the
encoder gives key back and the decoder never does; that everything else it does
is linear algebra and arithmetic on bits with its edges; and that it trusts the
libjpeg in its tree (`jpeg-6b/`) to give back every coefficient it was given,
through files, arrays and edges of images of any layout.

Paths are those of the repository; `*.cpp` and `*.h` named alone are in
`src/src/`, the sources of libjpeg in `src/src/jpeg-6b/`.

## 1. Inventory

### The program

| Component | State | Operations | Correct when |
|---|---|---|---|
| **Random pool** `c_l_randompool.cpp` | buffer, its size, content size, head, request in process | Request, Deny, Commit | serves the key once, in order, whatever is denied and whenever the buffer grows |
| **Key generator** `c_l_sharandomgenerator.cpp` | hash context | SetSeed, SetRandomSize, GenerateRandomInBuffer | same seed, same digests |
| **SHA digest** `SHA.cpp` | bit counts, partial block, chaining values | AddData, FinalDigest, Reset | the digest depends on the bytes, not on how they were cut |
| **Dynamic matrix** `c_l_dynamicmatrix.cpp` | rows, header size, status, message, parities, humidity | MessageInjection, MessageRetrieval and their helpers | what is injected is what is retrieved; success is complete |
| **Binary matrix** `c_l_binarymatrix.cpp` | rows of bits, eliminated constants | product, sum, elimination, solver | full row rank is recognised; the solution solves the system |
| **Bit sequence** `aBinarySequence.cpp` | bits in bytes | set, get, get and set blocks, load, save | a block at any position is those bits |
| **Wet encoder** `c_l_wetencoder.cpp` | coefficients, tables, parities, humidity | DerivateFundamentalSequences, EmbedSecretMessage | no image on failure; only dry coefficients change |
| **Wet decoder** `c_l_wetdecoder.cpp` | coefficients, parities | DerivateFundamentalSequences, RetrieveMessage | reads the parities the encoder left |
| **JPEG interface and store** `c_l_jpeg_interface.cpp` | libjpeg objects and their files | ReadJPEGImage, AquireQuantizationTables, WriteJPEG_Image | files opened, finished and closed in order |
| **Steganographer, command line** `c_l_wetsteganographer.cpp`, `tulipan.cpp` | file names, key, parameters | encode, decode | arguments checked, failure reported |
| **Global arithmetic** `l_tulipanglobal.cpp` | none | CeillingDivide, LeastGreaterMultiple | as their names say |

### The libjpeg in its tree

| Part | State | Operations | Correct when |
|---|---|---|---|
| **Reading files** `jdmarker.c`, `jdinput.c`, `jdapimin.c`, `jdtrans.c`, `jdatasrc.c` | markers seen, tables by slot and as latched by a component, scans, buffer of the source | read header, consume input, finish, resynchronise | half a file is never taken for one; a component keeps the table it was quantized with |
| **Writing files** `jctrans.c`, `jcmarker.c`, `jcmaster.c`, `jcparam.c`, `jcapimin.c`, `jdatadst.c` | parameters, tables, scan script, buffer of the destination | copy parameters, write coefficients, finish | the file decodes to what was written |
| **Entropy coding** `jchuff.c`, `jdhuff.c`, `jcphuff.c`, `jdphuff.c` | last DC values, bit buffers, runs of empty blocks, correction bits, counts of symbols | encode and decode an MCU, flush, restart, count, build the codes | coefficients come back; damage stays in its segment; codes are the best allowed |
| **Coefficient arrays** `jdcoefct.c`, `jutils.c` | arrays, the MCU and row being read | consume data | dummy blocks at the edges are made and skipped alike |
| **Pixels out** `jdapistd.c`, `jdmaster.c`, `jdmainct.c`, `jdsample.c`, `jdmerge.c`, `jdpostct.c` and others | main buffer with two lists of pointers, counters of rows, strips, passes | read scanlines | each line is made of the rows around it, once |
| **Pixels in** `jcapistd.c`, `jcmainct.c`, `jcprepct.c`, `jcsample.c`, `jccoefct.c` and others | conversion buffer, strip, MCU row, suspension | write scanlines, raw data, finish | each MCU is made of its rows and columns, once |
| **Transformations** `transupp.c`, `jpegtran.c` | parameters, arrays | rotate, mirror, trim, reduce to gray, copy markers | the samples move, and nothing else |
| **Memory** `jmemmgr.c`, `jmemansi.c`, `jcomapi.c` | pools, large objects, virtual arrays with windows and files | allocate, realize, access, free | rows come back; every byte goes back |

How they interact (calls only; there are no threads and no callbacks of the
program's own): the encoder reads the cover through the JPEG interface, derives
parities and dryness, builds a generator, a pool over it and a dynamic matrix
over the pool, and lets the matrix inject the message. For each run of
coefficients the matrix requests the rows of a code matrix from the pool, keeps
the columns of the dry coefficients as a binary matrix, eliminates it, denies a
row of key per failure and commits the rest on success. If the injection
succeeds, the encoder flips the parities the matrix asks for and writes the
stego image. The decoder builds the same objects; its matrix requests and
commits first the header rows of each run, then as many rows as the header says.
Each reading of an image is a life of one decompression object, whose virtual
arrays the collection of coefficients is filled from; the stego image is written
by a compression object out of the arrays of the cover's.

What goes wrong in such a program, and where, is listed in `PROJECT.json` under
`hazards`, with the properties that watch each place.

## 2. Modules

| Module | Models | Kind |
|---|---|---|
| `TulipanGlobals` | the shared arithmetic | operators |
| `KeyStream` | what the pool promises: one endless key stream and a cursor | abstract |
| `RandomPool` | the pool and the generator, with buffer, growth and shift | detailed, implements `KeyStream` |
| `MessageInjection` | the loops of the encoder's dynamic matrix | detailed, over `KeyStream` |
| `MessageRetrieval` | the loop of the decoder's | detailed, over `KeyStream` |
| `StegoChannel` | what embedding and retrieving promise the user | abstract |
| `WetChannel` | encoder, stego image and decoder together | composition, implements `StegoChannel` |
| `BinaryMatrix` | rows over GF(2) and the steps of the elimination | operators |
| `RunCoding` | one run: code matrix, dry columns, elimination, solver, flips | detailed |
| `WetCoefficients` | one pass of coefficients: recompression, dryness, flips, the decoder's parities | detailed |
| `BitSequence`, `MessagePath` | bits in blocks; the message from its file through the runs to a file | operators; detailed |
| `DigestStream` | the bytes hashed, cut into padded blocks, and the generator that feeds the digest back | detailed |
| `JpegReader` | a file and the object that reads it | operators on a record |
| `JpegWriter` | the object that writes a file | operators on a record |
| `Transcode`, `MCTranscode` | both commands over the files they share; the covers and command lines | composition |
| `HuffmanCode`, `EntropyBits` | codes, bits, symbols, restart markers | operators |
| `ScanCoding` | a sequential scan, damaged on its way | detailed |
| `ProgressiveCoding` | a progressive image, scan by scan | detailed |
| `OptimalCodes` | the counting and building of the codes of one scan | detailed |
| `ImageSizes`, `BlockGeometry` | sizes in samples, blocks, MCUs; the way of blocks through MCUs and arrays | operators; detailed |
| `PlainArray` | an array of rows | abstract |
| `VirtualArrays` | the same with a window and a backing store | detailed, implements `PlainArray` |
| `MemoryPools` | the memory manager of one object | detailed |
| `OutputRows`, `MCOutputRows` | rows on their way to the application | detailed |
| `InputRows` | rows on their way into MCUs | detailed |
| `ImageTransform` | `jpegtran`'s transformations | detailed |
| `DataPaths` | `MessagePath`, `DigestStream`, `ScanCoding` and the other ways of data, side by side | composition |
| `GlobalsTheorems`, `WetChannelProofs`, `RunCodingProofs`, `CoefficientsProofs`, `PathProofs`, `TranscodeProofs`, `StegoProofs`, `MemoryProofs` | theorems | proofs |

### From the code to the modules

*Pool.* Sizes count blocks (bytes), since every size the program passes is a
whole number of them; `TempoPool`, `PoolSize`, `PoolHead`, `PoolContentSize` and
`RequestInProcess` are the members of those names. A block of key is named by
its place, digest and byte, so that two equal names are equal bytes for two
holders of one key. Each method is one action. `CopiedFrom` is the `memcpy` of
the commit, whose buffers overlap: the C standard leaves its outcome open, so
`CopyDirections` says which ones a platform's `memcpy` may have.

*Injection.* `pc` says whether the next step is the head of the outer loop
(estimate and request) or one iteration of the inner loop. Every way an
iteration ends is an action: out of coefficients, elimination failed (`DropRow`,
with the failure when only the header is left), matrix accepted
(`AcceptMatrix`, with the commit, and the end of both loops when the matrix had
no data rows), and the three ways the process dies (`DivideByZero`,
`ReadPastStream`, `NoDryColumn`). The outcome of an elimination is
nondeterministic, except that more rows than dry coefficients never have full
rank (`RunCoding`, `AcceptedRowsFit`). Where the humidity is read behind its
end, any count may come out. The divisor of the estimate is one less than the
number of dry coefficients or equal to it, as the product of doubles falls.
`carried` is a history variable: which rows of key make which run carry what.

*Retrieval.* The decoder multiplies rows of key by runs. If the rows are the
ones the encoder used for that run, `carried` says what comes out; any other
product is noise, any value. The loop has no bound of its own: once it reads or
writes outside a buffer the decoder is `"astray"`, with `result = "UNDEFINED"`. From
there it may end (`EndAstray`: it happens upon a zero header, or dies) and may as
well go on for ever.

*Coding of a run.* A row is the set of its columns with a 1. `EliminateColumn`
is one turn of the loop over columns, with the search, the swap and the sums;
`SolveRow` one turn of the solver's loop over rows, with every choice of the
random bits.

*Coefficients.* Integers as the machine divides them (`%` of a negative is
negative, `^ 1` on two's complement). The doubles of the dryness test are exact
fractions. For a coefficient right at the threshold both sides of the comparison are
multiples of 1/200: if the threshold is a multiple of 25 they are eighths, which
doubles hold exactly, and the coefficient is wet, since the comparison is strict
(`EighthsOnly`); else both are rounded, and it may go either way.

*Message bits.* `GetBlock` is modelled at its two ways, aligned and shifted, the
latter with its loop; the runs may cut the message anywhere.

*Digest.* A digest is named by the blocks it has seen, so that two digests are
equal exactly when the same bytes were padded alike. Words have `WordRange`
values, so that the carries between the four words of the bit count happen.

*Reading and writing files.* A file is a sequence of units: markers with what
they carry, and rows of coefficients. An object is a record, each routine of the
library an operator on it that returns the object it leaves, with the ERREXIT in
field `error`. One entry stands for a whole table. `Transcode` has the processes
around them: what each command opens, reads, writes and leaves behind, with every
step that may fail. The decoder may run while the encoder still writes. A
`JWRN_` goes to `warnings`; what the library decodes after one is what the
warning allows.

*Scans.* The bits of symbols and values are really written and read, with byte
stuffing, with the derived tables and the lookahead, in a byte of `ByteBits` bits.
On its way a file may lose its end, a segment or have one twice (`hurt`).
`image` and `segments` are histories. Progressive scans are read undamaged.

*Blocks.* A block is its number, a row of an array a row of block numbers; the
program's own collection (`LoadDCT_Coefficients`, `SaveDCT_Coefficients`) is
between two readings of the cover.

*Virtual arrays.* A row is one value. The memory manager's two copies of the code
(for rows of samples and rows of blocks) are the same, and modelled once.

*Rows out, rows in.* A row stands for its samples, named by the number it has in
its component (and the pass, going out), so that what is computed of a sample
names the rows and columns it was computed of. Two pointers of the main buffer's
lists may name the same memory, as in the code: the lists are functions into the
buffer. Each call of the application is one action, with the number of lines it
offers, and the destination takes any of `Budgets` MCUs before it suspends.

*Transformations.* Blocks are 2 by 2, for which the cosine transform is a sum and
a difference, so that the samples an image stands for can be computed and turned.

## 3. What the runs check

| Run | Bounds | Shows |
|---|---|---|
| `pool` | 2 blocks per digest; sizes 0, 1, 2, 3, 5; 6 digests | the pool implements the key stream, keeps its invariants |
| `pool_overlap` | the same, `memcpy` in either direction | **finding**: key is lost |
| `channel` | 3 runs of 6 coefficients and 2 coefficients behind them; header of 2 rows; messages of 0 to 7 bits | encoder and decoder stay together; refused, or delivered whole |
| `channel_live` | 2 runs of 6; header of 3; both keys; requests wrap at 11 blocks | the encoder's loop ends; with its key the decoder's returns |
| `channel_drought` | as `channel` | **finding**: the encoder dies on a cover without dry coefficients |
| `channel_wrap` | as `channel`, requests wrap at 12 blocks | **finding**: the size of a matrix wraps |
| `channel_wrongkey` | 2 runs, another key | **finding**: no failure is reported, buffers are left |
| `run_coding` | 3 columns; 4 or 2 rows, 2 of header; all matrices, all dry sets; 2 messages | a run carries its header and bits; rank is recognised; the loops end |
| `coefficients_neighbour` | 2 coefficients in -2..2, step 1 to 3, threshold 50 | **finding**: a flip may leave the two neighbours |
| `transcode` | covers of 31 kinds, each marker of one missing or there twice, cut off anywhere; coinciding, unwritable names; an old file, whole or in part, at the stego name; disks of 0, 5, 12, 100 units; 2 rows; 3 quantization and 2 Huffman slots; source and destination buffers of 4 and 3 units | the stego image decodes to what was written; half an image is noticed; no other file changes; the commands end |
| `data_paths` | the instance in `DataPaths`: one small instance per way | what goes in comes out, on each way |
| `output_bottom` | 9 images of three components and one to three row groups of three rows, 1 to 3 lines at a time | **finding**: lines from below the bottom |

The ways of `data_paths`, with their bounds and properties:

| Way | Bounds | Property |
|---|---|---|
| message | blocks of 3 bits; up to 3 blocks; runs of up to 4 bits | `BlockIsTheBits` |
| digest | blocks of 8 bytes, 4 of them length; words of 8 values; pieces of up to 31 bytes, seeds of up to 70; 3 digests | `DigestIsOfTheBytes` |
| scan | 2 blocks of 6 coefficients in an MCU, 3 MCUs; bytes of 3 bits; restarts off or each MCU; an end, a segment lost, a segment twice | `SegmentsComeBack`, `NoSilentDamage` |
| progression | 126 images of 3 or 2 MCUs; 5 scripts; 7 correction bits | `ProgressionComesBack`, `CorrectionBitsFit` |
| codes | 2 MCUs, shared and separate tables, restarts; all counts of up to 4 symbols in 1, 2, 4, 7, and skewed ones of up to 8; the search for the least sees counts up to 255, one histogram has larger ones; codes of 4 bits | `CodesAreOptimal` |
| rows | 4 rows, 2 at a time, 2 in memory; memory and file undefined at first | `RowsComeBack` |
| blocks | 36 layouts, of one block and of several MCUs with padding; three sizes of memory | `BlocksComeBack` |
| lines | 66 images; no, fancy, merged upsampling; reduced size; quantization in no, one, two passes; 1 or 3 lines at a time | `RowsMeetTheirNeighbours` |
| samples | 68 images; with and without smoothing; one scan or several, statistics or not, raw data; calls of 1, 3, 100 lines; a destination that takes 0, 1 or 100 MCUs | `MCUsAreTheImages` |
| turns | 8 images in whole and partial iMCUs; 8 transformations, trimmed or not, reduced to gray or not; two in a row | `TransformsMoveTheSamples` |
| memory | systems with 30, 60, 150 bytes and 0 or 2 files; 4 calls | `MemoryIsAccountedFor` |
| coefficients | 2 coefficients in -3..3, steps 1, 3 to 3, 4, 5, thresholds 0, 50, 60, 100 | `DecoderReadsTheFlippedParities`, `StegoIsRecompressedCover`, `DryOnesCouldGoEitherWay` |

*Why the bounds are enough.* Pool: sizes on both sides of a multiple of the
giant step, an empty one, and enough digests for the content to be left over,
grown around, shifted and refused several times. Channel: three runs are a first
one, one in the middle and a last one or the terminator; the largest header
value (3) is below what a run of 6 dry coefficients could carry, so that the
limit by the header, by the rest of the message and by the dry coefficients all
decide in some state; two coefficients behind the last run keep
`TotalNoOfMatrices` (rounded up) different from the runs that fit. Run coding:
four rows over at most three dry columns is always rank deficient and drops rows
at least once, three rows accept or fail, two are the header alone; one column
short of a block shows the padding. Parities enter only through a product with the
code matrix, which takes all values. Coefficients: magnitudes and steps reach
rounding up, down, half, to zero and across zero by a flip; steps of 4 with the
threshold 50 have coefficients exactly at the threshold, steps of 5 with the
threshold 60 ones that the rounding of doubles decides.

Transcode: two rows are a first and a last one; buffers shorter than a file are
filled and flushed at every kind of unit; layouts have one to five components,
shared and separate slots, one scan and several, tables redefined in between and
redefined back, a component without a scan, two components of one id, adobe and
JFIF markers that agree and do not. In `Jobs` only one thing is wrong
at a time. Scans: three MCUs and restarts at each make a first, a middle and a
last segment to be lost or to come twice, and numbers of restart markers that are
ahead and behind; bytes of 3 bits are filled by one symbol or by a part of one,
and the byte of ones that is stuffed does occur. Progression: magnitudes of two
bits come in a first scan and a refinement; runs of empty blocks are ended by a
block, by the end of the scan and by a full buffer. Codes: counts that double make
the longest codes a tree can have, beyond the limit of four bits. Their sum is the
largest count the search for the least takes (1000000000 in the code, 255 here). Lines and
samples: images of one, two and three iMCU rows are those at which the wraparound
pointers are set, swapped and cut off; sampling factors of 3 make strips that end
inside a call. Memory: sizes that fit behind another object, need a pool of
their own, and exceed every chunk; the heap runs dry in each call. Turns:
images whose edges are whole iMCUs and not, in either direction. The ways of
`data_paths` share no state, each is checked alone, in one state space; each
comes to its end and stops there, so that deadlock is not checked in this run and
in `output_bottom`.

*Fairness.* `FairSpec` of `WetChannel` is weak fairness of the encoder's and the
decoder's steps together, of `RunCoding` that of its next step, of `Transcode`
that of each process: a sequential program that is not stopped takes its next
step. Nothing stronger is assumed: the loops end because rows, coefficients,
buffers or units of a file run out, whatever the eliminations and the files are. The
decoder's loop ends at a zero header only. With the key of the encoder there is one,
and `RetrievalEnds` says that it is reached; with another key nothing bounds the
loop, so no fairness is assumed of a decoder that has gone astray and nothing is
claimed of its end. A `Terminated` step lets the finished system stutter.

## 4. What is proved

TLAPS checks, for every value of the constants:

* `WetChannelProofs`: `ChannelInvariant`, and from it every invariant of the
  run `channel` (`KeysAgree`, `MessageComesBack`, `HeadersAreTrue`, `SuccessMeansAll`,
  `ClaimsAreMatrices`, `ChannelTypeCorrect`) and the refinement `ProgramsImplementChannel`. None of
  the invariants is inductive alone. The strengthening says that `carried` is a
  *chain*: matrix *i* starts at coefficient `(i-1) * NoOfColumns`, and its key
  and its message bits end where those of the next one begin, the last one where
  the encoder's cursor and digester are. The decoder, between runs, stands at
  the start of some link of the chain, and what it has retrieved is the message
  up to there; a header of zero is the last link. That a link before the last
  never has a zero header needs that a matrix cannot be left without data rows
  while bits remain, which follows from the estimate: it is zero only for a run
  with less than two dry coefficients, and a header has at least two rows.
* `RunCodingProofs`: `CodingIsInvariant`, and from it every safety property of the
  run `run_coding`: `CodedRunsCarry`, `EliminationFindsTheRank`,
  `EliminationIsSound`, `SolverIsSound`; and `AcceptedRowsFit`, the guard that
  `MessageInjection` takes for granted. The invariant: the extended rows have the
  solutions of the system; the rows above the current one are a *staircase* (each
  begins to the left of all rows below it) and the others are empty up to the
  current column; the solver stands at the first column of the row it solved last,
  and the rows below are solved. The proof rests on lemmas about parities of finite
  sets (a product with a vector is linear in the row and in the vector), on the
  packing of the dry columns being injective, and, for the rank, on a pairing
  of the sums of rows before and after a step of the elimination.
* `CoefficientsProofs`: `LoopsKeepTheirWord`, the inductive invariant of the
  three loops over the coefficients, and from it `ParitiesAreShared` and
  `StegoIsNear`. It says what each loop has made of the coefficients it has
  passed and that those ahead are untouched; the rest are two facts of numbers:
  the rounded quotient is a nearest one (`QuantizedIsNearest`), a flip changes the
  parity, of negatives too (`FlipChangesTheParity`).
  `DryOnesAreUndecided` adds which coefficients are dry and that they are counted as
  often: the distance the code compares with the threshold is half the unevenness of
  the two multiples of the step around a coefficient, whichever of them it was
  rounded to and on whichever side of zero.
  Then `WindowIsConsistent` and, from it, `VirtualArrayIsPlain`:
  for any number of rows, any size of the window and any contents of fresh memory
  the virtual array implements the plain one. The invariant: unless the window is
  marked as changed, the backing store has what the window has of defined rows.
  The proof goes along the code: the move of the window, the rows defined by an
  access, what the caller stores.
  On these arrays stand the blocks: `BlocksAreInTheirPlaces` and, from it,
  `BlocksAreBack`, for images of any size, sampling factors, scans and memory. The
  invariant says, at each place of the three readings and the writing between them,
  which rows of blocks each array holds, each block where its place in the image
  says (`ArraysHold`), how far the collection goes in its order, and that what is
  written so far has every block of its MCU rows where the standard wants it, among
  the dummies at the edges (`IsWritten`). What the folds over scans
  and MCUs do is shown for one MCU, one row of them and one scan in turn.
  Last, `BufferHasRoom` and `CorrectionsFit`: the buffer in which the progressive
  encoder keeps correction bits until the blocks they belong to are counted never
  overflows. That the buffer has room when a block begins is not inductive alone:
  an end of a run that is emitted in the middle of a block forgets the bits that
  came before this block, which is right only if a run of no blocks has no bits
  (`RunOK`). The assumption is the one the source states, that the buffer holds
  64 bits at least (`jcphuff.c:67`). The loops over a block and over the blocks of an
  MCU are recursive functions; `LoopsCanBeRun` shows once for all of them that they
  exist, by the least number of turns for which they would not.
* `PathProofs`, on the pool: `PoolInvariant`, and from it `PoolTypeCorrect`,
  `PoolNeverLosesKey`, `PoolConservesKey` and `PoolImplementsKeyStream`. The invariant is the type
  invariant with the three invariants of the run: content within the
  allocation, generated = committed + content, and content = the next key. They
  need each other: a fill continues the stream only if the digests drawn so far
  end where the content ends. The theorems assume
  `CopyDirections = {"forward"}`; without it they are false (`pool_overlap`).
  Then, on the message: `BlocksAreTheBits`: whatever the message, the size of a block, the
  position and the length, `GetBlock` returns the bits it is asked for, with zeros
  behind them. The shifted way is a loop over the bits, with a block read ahead at
  each of its ends: the lemmas say what the loop has put together after each bit.
  `FileIsTheMessage`: the runs put the message together again, to the bit.
  `DigestsAreOfTheBytes`: the digests are of the bytes, in whatever pieces these
  come. The invariant says that the context *holds* the bytes added since the
  reset: the four words are those of the number of their bits (`BitsAreCounted`,
  through every carry), the blocks chained so far are their whole blocks, and the
  block begun has the rest of them in front (`PieceIsAdded`: a piece that stays
  within the block, one that completes it and goes on for any number of blocks).
  `FinalIsPadded` then makes both endings of the final block (`LengthHasRoom`,
  `LengthHasNoRoom`) the message as the standard pads it. What lies in the block
  behind the rest is left open: it is old, and every ending covers it.
* `TranscodeProofs`: two inductive invariants. `CommandsOK` says, process by
  process and place by place, in which state its object is, that the file it
  reads is there, what type each field has, that a row read has an entry for each
  component, and that the writer has a first component to take the coefficients
  from. One lemma per routine of the library says what it keeps of an object, one
  per step what it keeps of the system. From it follow `TranscodeTypes`,
  `CallsAreInOrder` and `OtherFilesStay`. `ImageUnfinished` says that, until the
  writer has closed, no end of the image is in the stego file or in the writer's
  buffer, so that a reader of that file without a warning has not met one either:
  the only end it could have met is the one `fill_input_buffer` inserts, which
  warns. From it follows `HalfAnImageIsKnown`. The property is about names that
  differ, and needs that no whole image was at the stego name before the
  encoder started (`NoOldImage`): an old one is read as it is.
* `StegoProofs`: `StegoImageIsKept`, and from it `StegoImagesComeBack` and
  `StepsBelong`: whatever the files, names, room and sizes of buffers, a stego image
  the encoder reports as a success is read back without error or warning, with the
  coefficients that were put into it and the steps they belong to.
  The argument has five parts, in this order. *The image.* The calls of the writer
  make one sequence of units, of a length that the parameters give: `UnitAt(c, arrays,
  i)` is the unit at place *i*, `Beginning` the first *m* of them. Every call of the
  writer appends the next of these, and every flush of a full buffer moves them to the
  file (`Sent`: file and buffer together are a beginning). *An object that reads it.*
  `AtUnit(d, c, arrays, k)` is what an object knows behind *k* units: markers seen,
  the tables of the slots passed, the components, the rows read. A call of the library
  takes it to a later *k*, or it warns because the file ends there. *Readings.* The
  encoder reads the cover four times, with the coefficients or for the header, and
  each time from the same file: reading is a function of the number of calls
  (`Reading`), so that all of them meet in the same object (`ReadingsAgree`).
  `ReadBack`, which reads without an encoder beside it, is the same function.
  *The commands.* `StegoImage` says of each place of the encoder what it has read
  (`CoverKnown`), what it has sent (`Stage`), and of the decoder that it has warned or
  stands behind some unit of the same image (`DecoderFollows`), although that image
  grows while it reads; before there is an image, nothing can be read
  (`NothingToRead`). The image is described by an object *c* that does not change any
  more, the writer's settings as they were when it started. *The tables.* If all tables
  of the cover come before its scans (`KeepsItsTables`), those of the header are those
  the components latch (`HeaderInOrder`, `NoTableAhead`).
  What goes on for any number of units is proved without induction over data: of
  the numbers of calls, or of places, at which the claim fails, take the least
  (`LeastNumber`), and show that it held one before.
* `MemoryProofs`: `MemoryInvariant`, and from it `MemoryAccounted`: whatever is asked of the memory manager, in
  whatever order, with any limits of the system and of the heap, at every call it may fail
  in, `MemoryIsAccountedFor`. It is not inductive, since what it says of bytes rests on what
  the manager knows of its blocks. The invariant `MemoryInv` therefore says what is
  behind it. *Blocks*: every block the system has given, but the manager's own, belongs
  to one header of one list, no two headers have one block, and its size is what its
  header says of it (used, left, and the header itself; `BlocksOK`); so what `free_pool`
  takes from the total is what goes back. *Objects* lie in the used part of a block
  of their lifetime (`PiecesOK`), so that the next one, placed behind that part, meets
  none. *Arrays*: the rows that are there lie in objects of their lifetime
  (`ArraysOK`), also while the loop over the chunks is running; an array cut short by an
  error is forgotten with the error, by `jpeg_abort`. *Shares*: an array that has not
  been realized has no file, unless something failed (`SharesOK`); without that the number of open
  files would not be that of the list. Nothing permanent is an array, which the end of
  an image needs. One lemma for each routine says what it keeps, from the placing of one
  object (`PlacedInOK`, `PlacedLargeOK`) through chunks and rows (`ChunkOK`,
  `AllocRowsOK`) to the calls. That an array gets room for what is accessed at once
  (`ShareIsEnough`) rests on the code taking one for a quotient below one. That the
  functions exist which the loops over chunks and arrays and the halved slop are
  written as is shown as in `CoefficientsProofs`. The sums are those of the community module, which adds up
  a finite set by choosing elements: `SumsExist`, `SumStep` and `SumTakes` give them
  their laws, by the one induction over finite sets the provers can use
  (`FiniteInduction`, about a set and not an operator).
* `GlobalsTheorems`: what the shared arithmetic computes (`LGMIsLeastMultiple`,
  `CeillingDivideIsCeiling`), and the facts about division the others use.

The assumptions are those of the modules, named there: block sizes and columns
are positive, a header is a multiple of the block size and longer than one row,
and a power of two is a natural number larger than one (`HeaderRange`; the
provers have no rule for exponentiation); a code matrix starts with its header
rows at least (`CodingAssumption`); quantization steps are not 0
(`WetAssumption`), thresholds are natural numbers; a virtual array has rows, and room for one access
(`VirtualArraysAssumption`); images have samples and components, with sampling
factors that are not 0 (`GeometryAssumption`); the library has at least two slots of either kind of
table, as `jpeg_set_defaults` fills two, buffers and images are not empty, and a
file is a sequence of units (`JobsAssumption`); the length fits into a block with a
byte to spare, a word counts whole blocks of bits, a digest is no longer than the
largest piece, and the bits of a piece overflow one word and not two
(`DigestAssumption`: 2^32 is a multiple of 1024, and a piece is an `int`); the headers
of pools and the largest chunk are aligned, a header is shorter than a chunk, and
what is allocated has a size (`PoolsAssumption`). TLC evaluates them in the runs.
`ProgramsImplementChannel` also assumes that the decoder has the encoder's key.
The two parts compose: `WetChannel` is built over `KeyStream`, and the pool is
proved to implement it.

The two properties that `StegoProofs` proves were changed on the way there, since as
they stood they were true only of the images first chosen for TLC. Neither is a fault
of the code, both are what a library can be handed:
a cover whose scan names an id that two components share is written with the rows of
one for the other (`DistinctIds`); a decoder that comes first and finds part of an
older image takes it for the beginning of the new one, and what it reads then is a
mixture without a warning (so the last clause of `StegoComesBack` asks that no file was
at the name; `NoOldImage`, enough for `HalfAnImageIsNoticed`, is not enough here); a
table that was redefined for one scan and defined back hides that its component
was quantized otherwise, and a component without a scan has latched no table
(`KeepsItsTables`, and the restriction of `StepsBelongToTheCoefficients` to components
read). A job or cover for each is in `MCTranscode`, so the hypotheses are
needed in that run.

Only model-checked: liveness (`EmbeddingEnds`, `RetrievalEnds`, `CodingEnds`,
`CommandsEnd`), which is out of the provers' reach; and the other ways of
`DataPaths`. Of their modules `ScanCoding`, `OptimalCodes` and `InputRows` have
recursive operators, which no theorem can be about. That a
progressive scan comes back (`ProgressionComesBack`) is an induction over the bits
of a file against the decoder's loops. `ImageTransform` makes its images with folds
and flattenings of sequences of any length, again inductions over data. `OutputRows`
is free of both: what it lacks is an invariant for its two lists of pointers in every
state of the context controller; it has been checked only.

## 5. Findings

Each is a `violation` run and is described in `PROJECT.json`: the crash on a
cover without dry coefficients, the overlapping `memcpy`, the 32-bit product,
the decoder that never fails, the flip that is not to the other neighbour, and
the lines from below the bottom of an image (`jdpostct.c:225`).
Other disagreements met while reading, which no run is about:
`Tulipan_Chapter03.tex:59` says that a threshold of 100 makes every coefficient
wet, while at `c_l_wetencoder.cpp:216` it makes (nearly) every non-zero one dry;
`c_l_wetencoder.cpp:85` calls 512 the size at which no random bit is wasted,
while the pool keeps 8 of the 64 bytes of a digest (`c_l_randompool.cpp:34`,
`:99`), which both sides do alike; `operator==` of the bit sequence compares
pointers (`aBinarySequence.cpp:230`). What a
file with an unusual layout loses on its way is not a disagreement, since nothing
says otherwise: the tables of a quality replace those of the cover by slot.

## 6. Not modelled, and the plan

Done in this order: globals, key stream and pool; injection, retrieval and the
channel with their proofs; the coding of a run; the coefficients; bit sequences
and digest; the commands with their files; entropy coding; arrays and memory;
rows in both directions; transformations; proofs of the coding of a run, of the
coefficients and of the virtual arrays; of the message's bits and of the commands
with their files; of the image that goes from one command to the other; of the memory
manager; of the blocks on their way through arrays, MCUs and files, and of what is
counted as dry.

Left out of what is modelled:

* Of the program: `EstimateHeaderSize` (logarithms of doubles; the header size is
  a constant), the printing of progress, the parsing of arguments other than
  names, quality and number of matrices, random bit sequences and XOR of
  sequences, which nothing calls. `MaxRows` is static, but a process embeds once, so it
  is never stale.
* SHA: the compression function (no property depends on its values) and the
  variants of 256 and 384 bits, which are never used.
* Files: arithmetic coding (refused, as in the code), suspension of the source
  (the program's never suspends; the destination's is in `InputRows`), the contents
  of markers the program does not look at. `JERR_MISMATCHED_QUANT_TABLE` cannot
  occur: the parameters are copied before the first scan is read, when no
  component has latched a table.
* `ScanCoding` loses and repeats whole segments; files cut inside a row are there
  only. `ProgressiveCoding` has undamaged files.
* `OptimalCodes` claims the best code of counts whose sum is at most 1000000000
  (`CountsFit`; `MaxCount`): larger ones are not merged (`jchuff.c:734`). The largest
  image JPEG has, 65535 by 65535 samples, could reach that.
* `OutputRows`: the arithmetic on samples (inverse DCT, colour conversion,
  dithering), block smoothing, external colour maps, raw output.
* `InputRows`: the weights of samples, the forward DCT, the full-size main buffer,
  which is never compiled. Passes after the first do not suspend
  (`JERR_CANT_SUSPEND` otherwise).
* `ImageTransform`: jpegtran's switches are taken as parsed; gray is forced only
  where the library accepts it.

Left out for good: the unfinished classes (`C_L_SelectorRuler`,
`C_L_PerturbedQuantizer`, `C_L_ProgressiveMatrix`), which nothing calls; of
libjpeg the other programs (`cjpeg`, `djpeg`, `rdjpgcom`, `wrjpgcom`) with their
image formats, the arithmetic of the transforms and of colours, the colour
quantizers, the memory managers of other systems and the error messages.

Next:

1. The colour quantizers' histograms and maps (`jquant1.c`, `jquant2.c`).
2. The states of the library's objects as an application drives them
   (`jdapimin.c`, `jdapistd.c`, `jcapimin.c`), with a source that suspends and
   buffered-image mode.
3. The proof that is left in reach: `RowsMeetTheirNeighbours`, with an invariant for
   the two lists of pointers in every state of the context controller.
