-------------------------- MODULE RecoveryBreakdown --------------------------
(***************************************************************************)
(* The recovery-breakdown benchmark of src/benchmark/recovery/breakdown.hpp *)
(* on top of the FreeList of its object.  mainMethod creates a DummyObject *)
(* and calls allocateAndFillOneBlock modifiedPages times, then raises       *)
(* SIGUSR1; the checkpoint's latency is then reported against               *)
(* modifiedPages.  The first fill is 64 bytes short "for the current        *)
(* object", so that it shares the object's block.                           *)
(*                                                                         *)
(* Sizes are in cells of 8 bytes, a chunk header being one cell.  The size *)
(* of DummyObject is not in the repository, but the static_assert of       *)
(* overhead.hpp fixes sizeof(PersistentObject) + 16 + 8 to (128, 192], so  *)
(* sizeof(DummyObject) + 8 = sizeof(PersistentObject) + 16 lies in         *)
(* (120, 184] bytes: 16 to 23 cells.                                       *)
(***************************************************************************)
EXTENDS Naturals, FiniteSets

CONSTANTS
  PagesPerBlock,  \* FreeList::BlockSize / BitmapGranularity
  UnitsPerPage,   \* cells per bitmap page
  DummyResvd,     \* the 64 bytes allocateAndFillOneBlock leaves, in cells
  DummySizes,     \* sizeof(DummyObject) + sizeof(chunk_header_t), in cells
  PageCounts      \* values of modifiedPages

BlockCells == PagesPerBlock * UnitsPerPage
MaxBlocks == 1 + CHOOSE n \in PageCounts : \A m \in PageCounts : m <= n

ASSUME \A n \in DummySizes : 0 < n /\ n < BlockCells
ASSUME DummyResvd < BlockCells /\ PageCounts \subseteq Nat \ {0}

\* Chunk size, header included, of the k-th fill (totalAllocated = k).
FillChunk(k) == IF k = 0 THEN BlockCells - DummyResvd ELSE BlockCells

VARIABLES
  chunks, bitmap, pool,  \* the object's FreeList and GlobalAlloc (module FreeList)
  modifiedPages,         \* RecoveryBreakdown::modifiedPages
  totalAllocated,        \* DummyObject::totalAllocated
  phase                  \* "factory", "fill", "snapshot"

vars == << chunks, bitmap, pool, modifiedPages, totalAllocated, phase >>

FL == INSTANCE FreeList
        WITH MinPoolSize <- MaxBlocks, MaxPoolSize <- MaxBlocks,
             WordBits <- PagesPerBlock, JumboSizes <- {}, jumbo <- {},
             Sizes <- DummySizes \cup {FillChunk(0), FillChunk(1)}

TypeOK ==
  /\ FL!TypeOK
  /\ modifiedPages \in PageCounts
  /\ totalAllocated \in 0 .. modifiedPages
  /\ phase \in {"factory", "fill", "snapshot"}

Init ==
  /\ FL!Init
  /\ modifiedPages \in PageCounts
  /\ totalAllocated = 0
  /\ phase = "factory"

\* The object's FreeList after an alloc with outcome r.
TakeAlloc(r) == chunks' = r.layout /\ bitmap' = r.bitmap /\ pool' = r.pool

\* DummyObject::Factory: the object is its allocator's first allocation.
Factory ==
  /\ phase = "factory"
  /\ \E n \in DummySizes :
       \E r \in FL!AllocOutcomes(chunks, bitmap, pool, n) : TakeAlloc(r)
  /\ phase' = "fill"
  /\ UNCHANGED << modifiedPages, totalAllocated >>

\* allocateAndFillOneBlock: alloc, memset, totalAllocated++.
FillOneBlock ==
  /\ phase = "fill" /\ totalAllocated < modifiedPages
  /\ \E r \in FL!AllocOutcomes(chunks, bitmap, pool, FillChunk(totalAllocated)) :
       TakeAlloc(r)
  /\ totalAllocated' = totalAllocated + 1
  /\ UNCHANGED << modifiedPages, phase >>

\* raise(SIGUSR1): the checkpoint is taken over the blocks in use.
RaiseSnapshot ==
  /\ phase = "fill" /\ totalAllocated = modifiedPages
  /\ phase' = "snapshot"
  /\ UNCHANGED << chunks, bitmap, pool, modifiedPages, totalAllocated >>

Done == phase = "snapshot" /\ UNCHANGED vars

Next == Factory \/ FillOneBlock \/ RaiseSnapshot \/ Done

Spec == Init /\ [][Next]_vars

\* The checkpoint that breakdown.hpp times holds modifiedPages blocks: the
\* first fill, shortened "for the current object", shares the object's
\* block, so the latency is reported against the number of blocks copied.
CheckpointCoversModifiedPages ==
  phase = "snapshot" => Cardinality(FL!Taken) = modifiedPages

=============================================================================
