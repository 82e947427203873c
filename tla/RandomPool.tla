----------------------------- MODULE RandomPool -----------------------------
(***************************************************************************)
(* C_L_RandomPool (c_l_randompool.cpp) over C_L_SHARandomGenerator: the    *)
(* buffer that lets the encoder look at more key than it will use.  The    *)
(* generator appends key at the end of the content, a request copies the   *)
(* front of the pool to the client, a denial moves the head back, and a    *)
(* commit moves what the head did not reach to the front.                  *)
(*                                                                         *)
(* Sizes count blocks (bytes): every size the program uses is a multiple   *)
(* of BINARY_STREAM_BLOCK_SIZE bits.  GiantStep is m_RandomBlockSize in    *)
(* blocks: what is kept of the digest one call of the generator writes.    *)
(***************************************************************************)
EXTENDS TulipanGlobals

CONSTANTS
  GiantStep,       \* m_RandomBlockSize / BINARY_STREAM_BLOCK_SIZE: 8 in the program
  Sizes,           \* sizes a client may request or deny
  MaxDigests,      \* bound: digests the generator is asked for
  CopyDirections,  \* ways the memcpy of a commit may walk its (overlapping) buffers
  NULL,            \* the NULL a refused request returns
  Garbage          \* memory never written

ASSUME PoolAssumption ==
  /\ GiantStep \in Nat \ {0}
  /\ Sizes \subseteq Nat
  /\ MaxDigests \in Nat
  /\ CopyDirections \subseteq {"forward", "backward"}

VARIABLES
  TempoPool,         \* m_pTempoPool: a function on 0 .. PoolSize - 1
  PoolSize,          \* m_PoolSize
  PoolHead,          \* m_PoolHead
  PoolContentSize,   \* m_PoolContentSize
  RequestInProcess,  \* m_RequestInProcess
  digests,           \* digests the generator has produced since SetSeed
  stream,            \* what the last RequestRandomStream returned
  committed          \* history: blocks committed so far

pool == <<TempoPool, PoolSize, PoolHead, PoolContentSize, RequestInProcess>>
vars == <<TempoPool, PoolSize, PoolHead, PoolContentSize, RequestInProcess,
          digests, stream, committed>>

Init ==
  /\ TempoPool = [i \in 0 .. -1 |-> Garbage]
  /\ PoolSize = 0
  /\ PoolHead = 0
  /\ PoolContentSize = 0
  /\ RequestInProcess = FALSE
  /\ digests = 0
  /\ stream = NULL
  /\ committed = 0

\* Block i of digest d of the chain seeded with the stego key.
DigestBlock(d, i) == [digest |-> d, byte |-> i]

\* Block i written by a fill that starts at digest d: each giant step keeps the
\* first GiantStep blocks of one digest.  (Mutant: one digest for all steps.)
FillFromOneDigest(d, i) == DigestBlock(d, i)
FillBlock(d, i) == DigestBlock(d + (i \div GiantStep), i % GiantStep)

\* The content the pool must grow by to serve n blocks.  (Mutant: without
\* rounding up to whole giant steps.)
RealizedWithoutRounding(n) == IF n > PoolContentSize THEN n - PoolContentSize ELSE 0
RealizedRequestSize(n) ==
  IF n > PoolContentSize
  THEN LeastGreaterMultiple(n - PoolContentSize, GiantStep)
  ELSE 0

\* The pool is reallocated when the new content does not fit.
GrownSize(n) ==
  LET realized == RealizedRequestSize(n)
  IN  IF PoolSize - PoolContentSize < realized
      THEN realized + PoolContentSize
      ELSE PoolSize

FilledPool(n) ==
  [i \in 0 .. GrownSize(n) - 1 |->
     IF i < PoolContentSize THEN TempoPool[i]
     ELSE IF i < PoolContentSize + RealizedRequestSize(n)
          THEN FillBlock(digests, i - PoolContentSize)
          ELSE TempoPool[i]]

RequestRandomStream(n) ==
  /\ ~RequestInProcess
  /\ digests + RealizedRequestSize(n) \div GiantStep <= MaxDigests
  /\ RequestInProcess' = TRUE
  /\ PoolHead' = n
  /\ PoolContentSize' = PoolContentSize + RealizedRequestSize(n)
  /\ PoolSize' = GrownSize(n)
  /\ TempoPool' = FilledPool(n)
  /\ digests' = digests + RealizedRequestSize(n) \div GiantStep
  /\ stream' = [i \in 1 .. n |-> FilledPool(n)[i - 1]]
  /\ UNCHANGED committed

RefuseRequest ==
  /\ RequestInProcess
  /\ stream' = NULL
  /\ UNCHANGED <<pool, digests, committed>>

\* The unsigned head never wraps because the one client denies rows of the
\* matrix it requested, one at a time (WetChannel!MatrixIsTheClaimedKey).
\* (Mutant: the denied key is thrown out of the pool.)
DenyAndForget(k) ==
  /\ RequestInProcess
  /\ k <= PoolHead
  /\ PoolHead' = PoolHead - k
  /\ PoolContentSize' = PoolContentSize - k
  /\ UNCHANGED <<TempoPool, PoolSize, RequestInProcess, digests, stream, committed>>
DenyCurrentRequest(k) ==
  /\ RequestInProcess
  /\ k <= PoolHead
  /\ PoolHead' = PoolHead - k
  /\ UNCHANGED <<TempoPool, PoolSize, PoolContentSize, RequestInProcess,
                 digests, stream, committed>>

(***************************************************************************)
(* memcpy(pool, pool + head, content - head).  When content - head > head  *)
(* the buffers overlap, which memcpy leaves undefined: a copy that walks   *)
(* forward moves the content as intended, one that walks backward reads    *)
(* cells of the source it has already overwritten.  (Mutant: the content   *)
(* is not moved at all.)                                                   *)
(***************************************************************************)
CopiedInPlace(i, direction) == i
CopiedFrom(i, direction) ==
  LET length == PoolContentSize - PoolHead
      overwritten == direction = "backward" /\ 0 < PoolHead /\ i + PoolHead < length
  IN  IF overwritten THEN length + ((i - length) % PoolHead) ELSE i + PoolHead

CommittedPool(direction) ==
  [i \in 0 .. PoolSize - 1 |->
     IF i < PoolContentSize - PoolHead
     THEN TempoPool[CopiedFrom(i, direction)]
     ELSE TempoPool[i]]

\* (Mutant: the head is not reset.)
CommiteKeepingTheHead ==
  /\ RequestInProcess
  /\ \E direction \in CopyDirections : TempoPool' = CommittedPool(direction)
  /\ PoolContentSize' = PoolContentSize - PoolHead
  /\ RequestInProcess' = FALSE
  /\ committed' = committed + PoolHead
  /\ UNCHANGED <<PoolSize, PoolHead, digests, stream>>
CommiteCurrentRequest ==
  /\ RequestInProcess
  /\ \E direction \in CopyDirections : TempoPool' = CommittedPool(direction)
  /\ PoolContentSize' = PoolContentSize - PoolHead
  /\ PoolHead' = 0
  /\ RequestInProcess' = FALSE
  /\ committed' = committed + PoolHead
  /\ UNCHANGED <<PoolSize, digests, stream>>

\* Deny and Commite return false, and change nothing, without a request.
NothingToFinish ==
  /\ ~RequestInProcess
  /\ UNCHANGED vars

Next ==
  \/ \E n \in Sizes : RequestRandomStream(n)
  \/ \E k \in Sizes : DenyCurrentRequest(k)
  \/ RefuseRequest
  \/ CommiteCurrentRequest
  \/ NothingToFinish

Spec == Init /\ [][Next]_vars
-----------------------------------------------------------------------------
Block == [digest : Nat, byte : 0 .. GiantStep - 1]

\* The variables keep their C types: counters are naturals, the pool has
\* PoolSize cells, the last result is NULL or an array of blocks.
TypeOK ==
  /\ PoolSize \in Nat /\ PoolHead \in Nat /\ PoolContentSize \in Nat
  /\ TempoPool \in [0 .. PoolSize - 1 -> Block \cup {Garbage}]
  /\ RequestInProcess \in BOOLEAN
  /\ digests \in Nat /\ committed \in Nat

\* The header's picture of the buffer: what is claimed is content, the content
\* is inside the allocation, and only a request in process claims anything
\* (c_l_randompool.h:26-36).
HeadInContentInPool ==
  /\ PoolHead <= PoolContentSize
  /\ PoolContentSize <= PoolSize
  /\ ~RequestInProcess => PoolHead = 0

Key == INSTANCE KeyStream WITH
         cursor <- committed, window <- PoolHead,
         claimed <- RequestInProcess, granted <- stream

\* The content of the pool is the key that follows what was committed, block
\* for block: requests that grow the pool, denials and the shift of a commit
\* lose, repeat and reorder nothing ("NOT A BIT OF RANDOM POOL SHOULD BE WASTE
\* or the secret isn't decodable", c_l_randompool.cpp:131).
PoolHoldsTheNextKey ==
  \A i \in 0 .. PoolContentSize - 1 : TempoPool[i] = Key!KeyBlock(committed + i)

\* Everything the generator gave is either committed or still in the pool: the
\* next giant step continues the stream where the content ends.
KeyIsConserved == digests * GiantStep = committed + PoolContentSize

\* The pool implements the cursor over an endless key stream.
ImplementsKeyStream == Key!Spec

=============================================================================
