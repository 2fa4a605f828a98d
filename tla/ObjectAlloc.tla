------------------------------ MODULE ObjectAlloc ------------------------------
(***************************************************************************)
(* ObjectAlloc, the allocator of one persistent object: one FreeList per   *)
(* core over the process-wide GlobalAlloc.                                 *)
(*  - alloc(n) is served by the calling core's FreeList, which carves a    *)
(*    free chunk that fits or takes one block from GlobalAlloc and carves *)
(*    its head; a jumbo size (more than a block holds) is a range of whole *)
(*    blocks straight from GlobalAlloc, its header at the range's start.   *)
(*  - dealloc and realloc are served by the FreeList the chunk header      *)
(*    names (free_list_id), whichever core calls; a freed jumbo range goes *)
(*    back to GlobalAlloc.                                                 *)
(* Each FreeList call runs under that FreeList's lock and each GlobalAlloc *)
(* call under the GlobalAlloc lock, taken inside it: every call is one     *)
(* step, and calls of different cores interleave.  Block addresses are     *)
(* GlobalAlloc's, chunk offsets are in units of the FreeList module with a *)
(* block of BlockUnits units.  The dirty bitmap is left to FreeList.       *)
(***************************************************************************)
EXTENDS Naturals, FiniteSets

CONSTANTS
  Cores,        \* the detected cores, one FreeList each
  BlockUnits,   \* allocation units per block
  Sizes,        \* small request sizes, header included, in units
  JumboBlocks,  \* block counts of jumbo requests
  MinPoolSize, MaxPoolSize, SnapWords, None   \* as in GlobalAlloc

VARIABLES
  ga, live, buf, rep,  \* GlobalAlloc (module GlobalAlloc)
  chunks,   \* chunks[o]: the chunk layout of core o's FreeList
  owned,    \* owned[o]: the blocks core o's FreeList took from GlobalAlloc
  jumbo     \* live jumbo allocations, as GlobalAlloc ranges << addr, n >>

gaVars == << ga, live, buf, rep >>
vars == << gaVars, chunks, owned, jumbo >>

GA == INSTANCE GlobalAlloc WITH Requests <- {1} \cup JumboBlocks
FL == INSTANCE FreeList
        WITH PagesPerBlock <- 1, UnitsPerPage <- BlockUnits, WordBits <- 1,
             JumboSizes <- {},
             chunks <- {}, bitmap <- << >>, pool <- ga, jumbo <- {}

TypeOK ==
  /\ GA!TypeOK
  /\ chunks \in [Cores -> SUBSET FL!Chunk]
  /\ owned \in [Cores -> SUBSET (0 .. MaxPoolSize - 1)]
  /\ jumbo \subseteq GA!Region

\* A new ObjectAlloc: every FreeList empty, in a fresh GlobalAlloc.
Init ==
  /\ GA!Init
  /\ chunks = [o \in Cores |-> {}]
  /\ owned = [o \in Cores |-> {}]
  /\ jumbo = {}

-----------------------------------------------------------------------------
(* Operations.                                                             *)

\* Mutant: dealloc and realloc are served by the calling core's FreeList.
RouteToCaller(caller, o) == caller

\* The FreeList serving a dealloc or realloc: the one named in the header.
Route(caller, o) == o

\* Layout l with the chunks in rel (none, or the chunk a realloc moves
\* away from) deallocated and coalesced.
Finish(l, rel) == IF rel = {} THEN l ELSE FL!Coalesce(l, CHOOSE c \in rel : TRUE)

\* FreeList t takes layout l; the chunks in rel leave every other layout.
Serve(t, rel, l) == chunks' = [k \in Cores |-> IF k = t THEN l ELSE chunks[k] \ rel]

\* Mutant: a realloc that moves frees the old chunk before allocating.
AllocFitFreeFirst(t, n, rel) ==
  /\ \E f \in FL!Fits(Finish(chunks[t], rel), n) :
       Serve(t, rel, FL!Carve(Finish(chunks[t], rel), f, n))
  /\ UNCHANGED << gaVars, owned, jumbo >>

\* FreeList t serves alloc(n) from a free chunk that fits, then frees rel.
AllocFit(t, n, rel) ==
  /\ \E f \in FL!Fits(chunks[t], n) : Serve(t, rel, Finish(FL!Carve(chunks[t], f, n), rel))
  /\ UNCHANGED << gaVars, owned, jumbo >>

\* When none fits: GlobalAlloc::alloc of one block, its head carved.
AllocBlock(t, n, rel) ==
  /\ FL!Fits(chunks[t], n) = {}
  /\ GA!Alloc(1)
  /\ LET a == GA!AllocOp(ga, 1).addr IN
     /\ Serve(t, rel, Finish(FL!FreshBlock(chunks[t], a * BlockUnits, n), rel))
     /\ owned' = [owned EXCEPT ![t] = @ \cup {a}]
  /\ UNCHANGED jumbo

\* ObjectAlloc::alloc(n) on core o.
Alloc(o, n) == AllocFit(o, n, {}) \/ AllocBlock(o, n, {})

\* ObjectAlloc::dealloc(c) on core caller, c owned by core o.
Dealloc(caller, o, c) ==
  LET t == Route(caller, o) IN
  /\ Serve(t, {c}, FL!Coalesce(chunks[t], c))
  /\ UNCHANGED << gaVars, owned, jumbo >>

\* ObjectAlloc::realloc(c, n) on core caller: grown in place into a free
\* right neighbour, else moved by alloc, copy and dealloc, all on the
\* FreeList the header names.
Realloc(caller, o, c, n) ==
  LET t == Route(caller, o) IN
  /\ n > c.size
  /\ \/ \E f \in FL!Room(chunks[t], c, n) :
          /\ Serve(t, {c}, FL!Grow(chunks[t], c, f, n))
          /\ UNCHANGED << gaVars, owned, jumbo >>
     \/ /\ FL!Room(chunks[t], c, n) = {}
        /\ AllocFit(t, n, {c}) \/ AllocBlock(t, n, {c})

\* alloc of a jumbo size: j whole blocks from GlobalAlloc.
JumboAlloc(j) ==
  /\ GA!Alloc(j)
  /\ jumbo' = jumbo \cup {<< GA!AllocOp(ga, j).addr, j >>}
  /\ UNCHANGED << chunks, owned >>

\* dealloc of a jumbo chunk, from any core: its blocks go to GlobalAlloc.
JumboDealloc(x) ==
  /\ GA!Release(x)
  /\ jumbo' = jumbo \ {x}
  /\ UNCHANGED << chunks, owned >>

\* A checkpoint saves GlobalAlloc; recovery would reload it.
Checkpoint == GA!Checkpoint /\ UNCHANGED << chunks, owned, jumbo >>

Next ==
  \/ \E o \in Cores, n \in Sizes : Alloc(o, n)
  \/ \E caller, o \in Cores :
       \E c \in chunks[o] : c.used /\ Dealloc(caller, o, c)
  \/ \E caller, o \in Cores :
       \E c \in chunks[o] : \E n \in Sizes : c.used /\ Realloc(caller, o, c, n)
  \/ \E j \in JumboBlocks : JumboAlloc(j)
  \/ \E x \in jumbo : JumboDealloc(x)
  \/ Checkpoint

Spec == Init /\ [][Next]_vars

-----------------------------------------------------------------------------
(* Properties.                                                             *)

\* GlobalAlloc's free regions, FreeList blocks and jumbo ranges partition
\* the pool, under calls of all cores interleaved.
PoolPartitioned == GA!PoolPartitioned

\* Recovery from a GlobalAlloc snapshot replays the block and jumbo
\* allocations of every core to the same addresses.
ReplayReproducesAddresses == GA!ReplayReproducesAddresses

\* Each core's FreeList lays its chunks exactly over the blocks it took
\* from GlobalAlloc, each chunk inside one block: a chunk freed or resized
\* from another core is merged into its owner's layout and no other.
CoreLayoutsTileOwnedBlocks ==
  \A o \in Cores :
    /\ \A c \in chunks[o] : FL!BlockOf(c.start) = FL!BlockOf(FL!End(c) - 1)
    /\ \A u \in 0 .. FL!Units - 1 :
         Cardinality({c \in chunks[o] : u \in FL!Span(c)}) =
           IF FL!BlockOf(u) \in owned[o] THEN 1 ELSE 0

\* What the callers see: the used chunks of every core and the jumbo ranges.
LiveAllocations ==
  {[start |-> c.start, size |-> c.size] : c \in {d \in UNION {chunks[o] : o \in Cores} : d.used}}
    \cup {[start |-> x[1] * BlockUnits, size |-> x[2] * BlockUnits] : x \in jumbo}

Contract == INSTANCE Heap
              WITH Arena <- 0 .. FL!Units - 1,
                   Sizes <- Sizes \cup {j * BlockUnits : j \in JumboBlocks},
                   allocs <- LiveAllocations

\* ObjectAlloc implements the allocator contract Heap: every call of any
\* core only adds a range overlapping no live allocation, removes one, or
\* resizes one in place or into a range disjoint from it, so that
\* realloc's copy reads the old content before it is freed.
ImplementsHeap == Contract!Spec

=============================================================================
