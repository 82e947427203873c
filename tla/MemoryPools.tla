---------------------------- MODULE MemoryPools ----------------------------
(***************************************************************************)
(* The memory of one libjpeg object (jmemmgr.c): small objects placed in   *)
(* pools, large ones with a block of their own, arrays cut in chunks of    *)
(* rows, virtual arrays whose share of the memory is decided when all have *)
(* been requested, and the release of everything of one lifetime at once.  *)
(* The system below (jmemansi.c) is a heap that may be exhausted at any    *)
(* size, and files for the arrays that do not fit.  What virtual arrays    *)
(* contain is the subject of VirtualArrays.                                *)
(***************************************************************************)
EXTENDS Integers, Sequences, SequencesExt, FiniteSetsExt, Functions, TulipanGlobals

CONSTANTS
  HeaderBytes,       \* SIZEOF(small_pool_hdr), and of large_pool_hdr
  AlignBytes,        \* SIZEOF(ALIGN_TYPE)
  MaxChunk,          \* MAX_ALLOC_CHUNK
  FirstSlop, ExtraSlop, \* first_pool_slop and extra_pool_slop of each lifetime
  MinSlop,           \* MIN_SLOP
  PointerBytes,      \* SIZEOF(JSAMPROW)
  ControlBytes,      \* SIZEOF(jvirt_sarray_control)
  ManagerBytes,      \* SIZEOF(my_memory_mgr)
  ElementBytes,      \* SIZEOF(JSAMPLE) for "s", SIZEOF(JBLOCK) for "b"
  MaxMemory,         \* max_memory_to_use
  Rooms,             \* what the system has: [heap |-> bytes, files |-> backing stores]
  SmallCalls, LargeCalls, \* the objects asked for: <<lifetime, size>>
  ArrayCalls,        \* the arrays: [kind, width, rows, maxaccess]
  MaxCalls           \* bound: calls of the memory manager

PERMANENT == 0
IMAGE == 1
Lifetimes == {PERMANENT, IMAGE}

ASSUME PoolsAssumption ==
  /\ {HeaderBytes, AlignBytes, MaxChunk, MinSlop} \subseteq Nat \ {0}
  /\ HeaderBytes % AlignBytes = 0 /\ MaxChunk % AlignBytes = 0 /\ HeaderBytes < MaxChunk
  /\ {PointerBytes, ControlBytes, ManagerBytes} \subseteq Nat /\ MaxMemory \in Int
  /\ \A pool \in Lifetimes : {FirstSlop[pool], ExtraSlop[pool]} \subseteq Nat
  /\ \A room \in Rooms : {room.heap, room.files} \subseteq Nat
  /\ \A c \in SmallCalls \cup LargeCalls : c[1] \in Lifetimes /\ c[2] \in Nat
  /\ \A call \in ArrayCalls :
       {call.width, call.rows, call.maxaccess, ElementBytes[call.kind]} \subseteq Nat \ {0}

VARIABLES
  system,     \* what the system has
  mem,        \* my_memory_mgr, the blocks the system has given it, and, as a
              \* history, the objects and rows that have not been released
  calls       \* calls so far

poolVars == <<system, mem, calls>>

\* jinit_memory_mgr.  Block 0 is the manager itself.
PoolsInit ==
  /\ system \in Rooms
  /\ mem = [error |-> "none", heap |-> [b \in {0} |-> ManagerBytes],
            small_list |-> [pool \in Lifetimes |-> << >>],
            large_list |-> [pool \in Lifetimes |-> << >>],
            virt_list |-> << >>, total_space_allocated |-> ManagerBytes,
            objects |-> [pool \in Lifetimes |-> << >>],
            arrays |-> [pool \in Lifetimes |-> << >>], files |-> 0]
  /\ calls = 0
-----------------------------------------------------------------------------
Failed(m, error) == [m EXCEPT !.error = error]

\* jpeg_get_small and jpeg_get_large
HeapFits(m, size) == SumFunction(m.heap) + size <= system.heap
NewBlock(m) == CHOOSE b \in 0 .. Cardinality(DOMAIN m.heap) : b \notin DOMAIN m.heap
Given(m, size) ==
  [m EXCEPT !.heap = [b \in DOMAIN @ \cup {NewBlock(m)} |-> IF b \in DOMAIN @ THEN @[b] ELSE size],
            !.total_space_allocated = @ + size]

\* The object lies behind those the pool already holds.
Rounded(size) == LeastGreaterMultiple(size, AlignBytes)
PlacedIn(m, pool, p, size) ==
  LET hdr == m.small_list[pool][p]
  IN  [m EXCEPT !.small_list[pool][p] =
                  [block |-> hdr.block, bytes_used |-> hdr.bytes_used + size,
                   bytes_left |-> hdr.bytes_left - size],
                !.objects[pool] = Append(@, [block |-> hdr.block, size |-> size,
                                             from |-> HeaderBytes + hdr.bytes_used])]

\* The slop is halved until the system has so much, or it is too little.
SlopGiven(m, request, slop) ==
  LET given[s \in 0 .. slop] ==
        IF HeapFits(m, request + s) THEN s
        ELSE IF s \div 2 < MinSlop THEN -1 ELSE given[s \div 2]
  IN  given[slop]

NewPool(m, pool, size, slop) ==
  LET given == Given(m, size + HeaderBytes + slop)
  IN  IF slop = -1 THEN Failed(m, "JERR_OUT_OF_MEMORY")
      ELSE PlacedIn([given EXCEPT !.small_list[pool] =
                       Append(@, [block |-> NewBlock(m), bytes_used |-> 0,
                                  bytes_left |-> size + slop])],
                    pool, Len(m.small_list[pool]) + 1, size)

Slop(m, pool, size) ==
  LET wanted == IF m.small_list[pool] = << >> THEN FirstSlop[pool] ELSE ExtraSlop[pool]
  IN  Min({wanted, MaxChunk - (size + HeaderBytes)})

PlacedSmall(m, pool, size) ==
  LET p == SelectInSeq(m.small_list[pool], LAMBDA hdr : hdr.bytes_left >= size)
  IN  IF p # 0 THEN PlacedIn(m, pool, p, size)
      ELSE NewPool(m, pool, size, SlopGiven(m, size + HeaderBytes, Slop(m, pool, size)))
AllocSmall(m, pool, size) ==
  IF m.error # "none" THEN m
  ELSE IF size > MaxChunk - HeaderBytes THEN Failed(m, "JERR_OUT_OF_MEMORY")
  ELSE PlacedSmall(m, pool, Rounded(size))

PlacedLarge(m, pool, size) ==
  IF ~HeapFits(m, size + HeaderBytes) THEN Failed(m, "JERR_OUT_OF_MEMORY")
  ELSE [Given(m, size + HeaderBytes) EXCEPT
         !.large_list[pool] = <<[block |-> NewBlock(m), bytes_used |-> size]>> \o @,
         !.objects[pool] = Append(@, [block |-> NewBlock(m), size |-> size,
                                      from |-> HeaderBytes])]
AllocLarge(m, pool, size) ==
  IF m.error # "none" THEN m
  ELSE IF size > MaxChunk - HeaderBytes THEN Failed(m, "JERR_OUT_OF_MEMORY")
  ELSE PlacedLarge(m, pool, Rounded(size))

\* alloc_sarray and alloc_barray: as many rows at a time as a chunk can hold, and
\* the pointers to them.
RowBytes(call) == call.width * ElementBytes[call.kind]
RowsPerChunk(call, numrows) == Min({(MaxChunk - HeaderBytes) \div RowBytes(call), numrows})
ChunkRows(numrows, perchunk, c) == Min({perchunk, numrows - (c - 1) * perchunk})
WithChunk(m, pool, call, rows) ==
  LET done == AllocLarge(m, pool, rows * RowBytes(call))
      pointers == [i \in 1 .. rows |-> [block |-> done.large_list[pool][1].block,
                                        from |-> HeaderBytes + (i - 1) * RowBytes(call)]]
  IN  IF done.error # "none" THEN done
      ELSE [done EXCEPT !.arrays[pool][Len(done.arrays[pool])].rows = @ \o pointers]
AllocRows(m, pool, call, numrows, perchunk) ==
  LET chunks == CeillingDivide(numrows, perchunk)
      done[c \in 0 .. chunks] ==
        IF c = 0
        THEN [AllocSmall(m, pool, numrows * PointerBytes) EXCEPT
                !.arrays[pool] = Append(@, [bytes |-> RowBytes(call), rows |-> << >>,
                                            rowsperchunk |-> perchunk])]
        ELSE WithChunk(done[c - 1], pool, call, ChunkRows(numrows, perchunk, c))
  IN  done[chunks]
AllocArray(m, pool, call, numrows) ==
  IF m.error # "none" THEN m
  ELSE IF RowBytes(call) > MaxChunk - HeaderBytes THEN Failed(m, "JERR_WIDTH_OVERFLOW")
  ELSE AllocRows(m, pool, call, numrows, RowsPerChunk(call, numrows))
-----------------------------------------------------------------------------
\* request_virt_sarray and request_virt_barray: no memory yet but for the control
\* block.  The arrays of samples are in front of those of blocks.
PlaceFor(list, call) ==
  IF call.kind = "s" THEN 1 ELSE 1 + Cardinality({v \in DOMAIN list : list[v].call.kind = "s"})
RequestVirtArray(m, call) ==
  LET done == AllocSmall(m, IMAGE, ControlBytes)
      ptr  == [call |-> call, realized |-> FALSE, rows_in_mem |-> 0, b_s_open |-> FALSE,
               buffer |-> 0]
  IN  IF done.error # "none" THEN done
      ELSE [done EXCEPT !.virt_list = InsertAt(@, PlaceFor(m.virt_list, call), ptr)]

\* realize_virt_arrays
SpaceFor(m, rows) ==
  SumFunction([v \in DOMAIN m.virt_list |->
                 IF m.virt_list[v].realized THEN 0 ELSE rows[v] * RowBytes(m.virt_list[v].call)])
SpacePerMinheight(m) ==
  SpaceFor(m, [v \in DOMAIN m.virt_list |-> m.virt_list[v].call.maxaccess])
MaximumSpace(m) ==
  SpaceFor(m, [v \in DOMAIN m.virt_list |-> m.virt_list[v].call.rows])
AvailMem(m) == MaxMemory - m.total_space_allocated      \* jpeg_mem_available
Minheights(call) == (call.rows - 1) \div call.maxaccess + 1
\* (A division in C: what is available may be negative.)
MaxMinheights(m) ==
  IF AvailMem(m) >= MaximumSpace(m) THEN 1000000000
  ELSE IF AvailMem(m) < SpacePerMinheight(m) THEN 1
  ELSE AvailMem(m) \div SpacePerMinheight(m)

\* A file is opened for an array before it gets its memory.
Buffered(m, i, rows_in_mem, open) ==
  LET started == IF ~open THEN m
                 ELSE IF m.files = system.files THEN Failed(m, "JERR_TFILE_CREATE")
                 ELSE [m EXCEPT !.files = @ + 1, !.virt_list[i].b_s_open = TRUE]
      done == AllocArray(started, IMAGE, m.virt_list[i].call, rows_in_mem)
  IN  IF done.error # "none" THEN done
      ELSE [done EXCEPT !.virt_list[i] = [@ EXCEPT !.realized = TRUE,
                                                   !.rows_in_mem = rows_in_mem,
                                                   !.buffer = Len(done.arrays[IMAGE])]]
RealizedOne(m, i, max_minheights) ==
  LET call == m.virt_list[i].call
  IN  IF m.error # "none" \/ m.virt_list[i].realized THEN m
      ELSE IF Minheights(call) <= max_minheights THEN Buffered(m, i, call.rows, FALSE)
      ELSE Buffered(m, i, max_minheights * call.maxaccess, TRUE)
RealizeVirtArrays(m) ==
  IF SpacePerMinheight(m) <= 0 THEN m
  ELSE LET done[i \in 0 .. Len(m.virt_list)] ==
             IF i = 0 THEN m ELSE RealizedOne(done[i - 1], i, MaxMinheights(m))
       IN  done[Len(m.virt_list)]

\* free_pool: the backing stores with the lifetime of an image first.
\* (Mutant: a file stays open.)
OpenStores(m) == {v \in DOMAIN m.virt_list : m.virt_list[v].b_s_open}
StoresForgotten(m) == [m EXCEPT !.virt_list = << >>]
StoresClosed(m) ==
  [m EXCEPT !.virt_list = << >>,
            !.files = @ - Cardinality(OpenStores(m))]
BlocksOfPool(m, pool) ==
  {m.small_list[pool][p].block : p \in DOMAIN m.small_list[pool]}
    \cup {m.large_list[pool][p].block : p \in DOMAIN m.large_list[pool]}
SpaceFreed(m, pool) ==
  SumFunction([p \in DOMAIN m.small_list[pool] |->
                 m.small_list[pool][p].bytes_used + m.small_list[pool][p].bytes_left + HeaderBytes])
    + SumFunction([p \in DOMAIN m.large_list[pool] |->
                     m.large_list[pool][p].bytes_used + HeaderBytes])
FreedPool(m, pool) ==
  LET closed == IF pool = IMAGE THEN StoresClosed(m) ELSE m
  IN  [closed EXCEPT
        !.heap = RestrictDomain(@, LAMBDA b : b \notin BlocksOfPool(m, pool)),
        !.small_list[pool] = << >>, !.large_list[pool] = << >>,
        !.total_space_allocated = @ - SpaceFreed(m, pool),
        !.objects[pool] = << >>, !.arrays[pool] = << >>]
-----------------------------------------------------------------------------
Call(error) ==
  mem.error = error /\ calls < MaxCalls /\ calls' = calls + 1 /\ UNCHANGED system

Alloc ==
  /\ Call("none")
  /\ \/ \E c \in SmallCalls : mem' = AllocSmall(mem, c[1], c[2])
     \/ \E c \in LargeCalls : mem' = AllocLarge(mem, c[1], c[2])
     \/ \E c \in ArrayCalls : mem' = AllocArray(mem, IMAGE, c, c.rows)
Request ==
  Call("none") /\ \E c \in ArrayCalls : mem' = RequestVirtArray(mem, c)
Realize ==
  Call("none") /\ mem' = RealizeVirtArrays(mem)

\* jpeg_abort, after an error, too: the end of an image.
Abort ==
  /\ mem.error # "destroyed" /\ calls < MaxCalls
  /\ mem' = [FreedPool(mem, IMAGE) EXCEPT !.error = "none"]
  /\ calls' = calls + 1 /\ UNCHANGED system

\* jpeg_destroy
SelfDestruct ==
  /\ mem.error # "destroyed"
  /\ mem' = [FreedPool(FreedPool(mem, IMAGE), PERMANENT) EXCEPT
               !.error = "destroyed",
               !.heap = RestrictDomain(@, LAMBDA b : b # 0)]
  /\ UNCHANGED <<system, calls>>

PoolsNext == Alloc \/ Request \/ Realize \/ Abort \/ SelfDestruct

PoolsSpec == PoolsInit /\ [][PoolsNext]_poolVars
-----------------------------------------------------------------------------
Apart(a, b) ==
  a.block # b.block \/ a.from + a.size <= b.from \/ b.from + b.size <= a.from
Inside(a, b) ==
  a.block = b.block /\ b.from <= a.from /\ a.from + a.size <= b.from + b.size

\* No two objects share a byte, each is aligned and inside a block the system has
\* not got back.
ObjectsApart ==
  /\ \A p, q \in Lifetimes : \A i \in DOMAIN mem.objects[p], j \in DOMAIN mem.objects[q] :
       <<p, i>> # <<q, j>> => Apart(mem.objects[p][i], mem.objects[q][j])
  /\ \A p \in Lifetimes : \A i \in DOMAIN mem.objects[p] : \A object \in {mem.objects[p][i]} :
       /\ object.from % AlignBytes = 0 /\ object.from >= HeaderBytes
       /\ object.block \in DOMAIN mem.heap
       /\ object.from + object.size <= mem.heap[object.block]

\* The rows of an array are apart from each other and inside objects of its
\* lifetime, and those of one chunk lie behind each other, as the input and
\* output of a virtual array takes them (jmemmgr.c:699).
RowOf(array, r) ==
  [block |-> array.rows[r].block, from |-> array.rows[r].from, size |-> array.bytes]
RowsApart ==
  mem.error = "none" =>
    \A p \in Lifetimes : \A a \in DOMAIN mem.arrays[p] : \A array \in {mem.arrays[p][a]} :
      /\ \A r \in DOMAIN array.rows : \E i \in DOMAIN mem.objects[p] :
           Inside(RowOf(array, r), mem.objects[p][i])
      /\ \A r, s \in DOMAIN array.rows : r # s => Apart(RowOf(array, r), RowOf(array, s))
      /\ \A r \in DOMAIN array.rows \ {1} : (r - 1) % array.rowsperchunk # 0 =>
           array.rows[r] = [array.rows[r - 1] EXCEPT !.from = @ + array.bytes]

\* A realized array holds all its rows or has a file, and room for what is
\* accessed at once; its rows are those of the array it was given.
SharesAreFair ==
  mem.error = "none" =>
    \A v \in DOMAIN mem.virt_list : \A ptr \in {mem.virt_list[v]} : ptr.realized =>
      /\ ptr.b_s_open <=> ptr.rows_in_mem < ptr.call.rows
      /\ ptr.rows_in_mem >= Min({ptr.call.maxaccess, ptr.call.rows})
      /\ Len(mem.arrays[IMAGE][ptr.buffer].rows) = ptr.rows_in_mem

\* What the manager believes to hold is what it holds; after it is gone, nothing
\* is left, not even of an array whose memory could not be had after its file.
NothingIsLost ==
  /\ mem.error # "destroyed" => mem.total_space_allocated = SumFunction(mem.heap)
  /\ mem.files = Cardinality(OpenStores(mem))
  /\ mem.error = "destroyed" =>
       mem.heap = << >> /\ mem.files = 0 /\ \A p \in Lifetimes : mem.objects[p] = << >>

\* (jmemmgr.c:26)
MemoryIsAccountedFor == ObjectsApart /\ RowsApart /\ SharesAreFair /\ NothingIsLost
=============================================================================
