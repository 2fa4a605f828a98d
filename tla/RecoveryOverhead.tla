--------------------------- MODULE RecoveryOverhead ---------------------------
(***************************************************************************)
(* The recovery-overhead benchmark of src/benchmark/recovery/overhead.hpp  *)
(* on top of the FreeList of its object.  RdWrObject::Factory allocates    *)
(* the object, allocateBlocks allocates numberOfPages chunks of one block  *)
(* each (the first one 192 bytes short, so that it fits in the block that  *)
(* holds the object) and swaps the first and the last, and the worker maps *)
(* every offset below totalCells to blocks[offset / CellsPerBlock] plus    *)
(* offset % CellsPerBlock.  mainMethod runs the worker twice, the second   *)
(* time with a snapshot requested.                                         *)
(*                                                                         *)
(* Addresses and sizes are in cells of 8 bytes, a chunk's header being one *)
(* cell; the FreeList module gives the chunk layout every alloc leaves.    *)
(***************************************************************************)
EXTENDS Naturals, FiniteSets

CONSTANTS
  PagesPerBlock,  \* FreeList::BlockSize / BitmapGranularity
  UnitsPerPage,   \* cells per bitmap page
  Resvd,          \* resvdCells = (128 + 64) / sizeof(uint64_t)
  ObjSizes,       \* sizeof(RdWrObject) + sizeof(chunk_header_t), in cells,
                  \* as the static_assert allows it to be in a build
  PageCounts      \* values of numberOfPages given on the command line

BlockCells == PagesPerBlock * UnitsPerPage
MaxPages == CHOOSE n \in PageCounts : \A m \in PageCounts : m <= n

\* The static_assert: the object and its header fit in the reservation.
ASSUME \A n \in ObjSizes : 0 < n /\ n <= Resvd
ASSUME Resvd < BlockCells - 1
ASSUME PageCounts \subseteq Nat \ {0}

\* const size_t CellsPerBlock = FreeList::BlockSize / sizeof(uint64_t) - 1
CellsPerBlock == BlockCells - 1

\* totalCells = cellsPerBlk * numOfPages - resvdCells
TotalCells(n) == CellsPerBlock * n - Resvd

\* Chunk sizes, header included, of the object and of blocks[i].
BlockChunk(i) == IF i = 0 THEN CellsPerBlock - Resvd + 1 ELSE CellsPerBlock + 1

VARIABLES
  chunks, bitmap, pool,  \* the object's FreeList and GlobalAlloc (module FreeList)
  pages,                 \* numberOfPages
  obj,                   \* the object's chunk
  blocks,                \* RdWrObject::blocks: data address of each block
  i,                     \* loop index of allocateBlocks
  phase,                 \* "factory", "alloc", "run1", "run2" or "done"
  accessed               \* the cell the last read or write reached, if any

vars == << chunks, bitmap, pool, pages, obj, blocks, i, phase, accessed >>

FL == INSTANCE FreeList
        WITH MinPoolSize <- MaxPages, MaxPoolSize <- MaxPages,
             WordBits <- PagesPerBlock, JumboSizes <- {}, jumbo <- {},
             Sizes <- ObjSizes \cup {BlockChunk(k) : k \in {0, 1}}

\* The chunk alloc added: alloc returns its address plus the header.
NewChunk(r) == CHOOSE c \in r.layout \ chunks : c.used

TypeOK ==
  /\ FL!TypeOK
  /\ pages \in PageCounts
  /\ obj \in FL!Chunk \cup {<< >>}
  /\ blocks \in [0 .. pages - 1 -> 0 .. FL!Units]
  /\ i \in 0 .. pages
  /\ phase \in {"factory", "alloc", "run1", "run2", "done"}
  /\ accessed \subseteq Nat

Init ==
  /\ FL!Init
  /\ pages \in PageCounts
  /\ obj = << >>
  /\ blocks = [k \in 0 .. pages - 1 |-> 0]
  /\ i = 0
  /\ phase = "factory"
  /\ accessed = {}

\* The object's FreeList after an alloc with outcome r.
TakeAlloc(r) == chunks' = r.layout /\ bitmap' = r.bitmap /\ pool' = r.pool

-----------------------------------------------------------------------------

\* RdWrObject::Factory: the object is the first allocation of its allocator.
Factory ==
  /\ phase = "factory"
  /\ \E n \in ObjSizes :
       \E r \in FL!AllocOutcomes(chunks, bitmap, pool, n) :
         TakeAlloc(r) /\ obj' = NewChunk(r)
  /\ phase' = "alloc"
  /\ UNCHANGED << pages, blocks, i, accessed >>

\* Mutant: the loop runs to i <= numberOfBlocks.
AllocateBlockOnePast ==
  /\ phase = "alloc" /\ i <= pages
  /\ \E r \in FL!AllocOutcomes(chunks, bitmap, pool, BlockChunk(i)) :
       TakeAlloc(r) /\ blocks' = [blocks EXCEPT ![i] = NewChunk(r).start + 1]
  /\ i' = i + 1
  /\ UNCHANGED << pages, obj, phase, accessed >>

\* One iteration of allocateBlocks: blocks[i] = alloc->alloc(sz).
AllocateBlock ==
  /\ phase = "alloc" /\ i < pages
  /\ \E r \in FL!AllocOutcomes(chunks, bitmap, pool, BlockChunk(i)) :
       TakeAlloc(r) /\ blocks' = [blocks EXCEPT ![i] = NewChunk(r).start + 1]
  /\ i' = i + 1
  /\ UNCHANGED << pages, obj, phase, accessed >>

\* Mutant: the first and last blocks are left in allocation order.
SwapBlocksNone(b) == b

\* Swap first and last blocks.
SwapBlocks(b) == [b EXCEPT ![0] = b[pages - 1], ![pages - 1] = b[0]]

\* The loop is over: swap, then the worker thread is started.
FinishAllocation ==
  /\ phase = "alloc" /\ i = pages
  /\ blocks' = SwapBlocks(blocks)
  /\ phase' = "run1"
  /\ UNCHANGED << chunks, bitmap, pool, pages, obj, i, accessed >>

\* The cell read(offset) and write(offset, v) access.
Cell(b, offset) == b[offset \div CellsPerBlock] + (offset % CellsPerBlock)

\* One operation of workerMethod: offset is i % totalCells or
\* rand() % totalCells; read and write reach the same cell.
Access(offset) ==
  /\ phase \in {"run1", "run2"}
  /\ accessed' = {Cell(blocks, offset)}
  /\ UNCHANGED << chunks, bitmap, pool, pages, obj, blocks, i, phase >>

\* pthread_join: the run without snapshot, then the one with, have ended.
WorkerDone ==
  /\ phase \in {"run1", "run2"}
  /\ phase' = IF phase = "run1" THEN "run2" ELSE "done"
  /\ UNCHANGED << chunks, bitmap, pool, pages, obj, blocks, i, accessed >>

\* mainMethod has returned.
Finished == phase = "done" /\ UNCHANGED vars

Next ==
  \/ Factory
  \/ AllocateBlock
  \/ FinishAllocation
  \/ \E offset \in 0 .. TotalCells(pages) - 1 : Access(offset)
  \/ WorkerDone
  \/ Finished

Spec == Init /\ [][Next]_vars

-----------------------------------------------------------------------------
(* Properties.                                                             *)

\* The data cells of the chunks allocateBlocks obtained.
BlockData ==
  UNION {FL!Span(c) \ {c.start} :
           c \in {d \in FL!Used : \E k \in 0 .. pages - 1 : blocks[k] = d.start + 1}}

\* Every cell a worker reads or writes lies in the data of a block chunk:
\* never in the object, a chunk header, free space or outside the blocks,
\* for every numberOfPages, including the block shortened for the object.
AccessesInBlockData ==
  phase \in {"run1", "run2", "done"} => accessed \subseteq BlockData

=============================================================================
