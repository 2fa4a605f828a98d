------------------------------- MODULE FreeList -------------------------------
(***************************************************************************)
(* A FreeList, the blocks it takes from GlobalAlloc, and the dirty-page    *)
(* bitmap that covers them.  Offsets and sizes are in allocation units (a  *)
(* chunk's size includes its header); a page (BitmapGranularity) is        *)
(* UnitsPerPage units and a block PagesPerBlock pages.  Blocks come from   *)
(* GlobalAlloc: pool is its state, and its alloc and release operators     *)
(* decide which blocks the FreeList gets.                                  *)
(*                                                                         *)
(* As the FreeList and bitmap unit tests pin the allocator:                *)
(*  - alloc(n) carves n units from the tail of a free chunk that fits,     *)
(*    the free chunk keeping its head; when none fits it takes a new      *)
(*    block, puts the request at the block's head and the rest of the     *)
(*    block in a free chunk; setBitmap marks every page the chunk touches; *)
(*  - dealloc merges the chunk with free neighbours in the same block (a   *)
(*    chunk flagged last ends its block) and clears the bit of every page  *)
(*    lying wholly in the merged free chunk;                               *)
(*  - realloc(c, n) for an n larger than c grows c in place into a free   *)
(*    right neighbour that is large enough, shrinking or consuming it;     *)
(*    otherwise it allocates n units, copies and deallocates c;            *)
(*  - alloc of a jumbo size (more than a block holds) takes the whole      *)
(*    blocks the chunk spans from GlobalAlloc, the chunk at their start,   *)
(*    and marks the pages the chunk touches; its dealloc gives the blocks  *)
(*    back to GlobalAlloc and clears the bits of all their pages.          *)
(* The calls run under the FreeList's lock, so each is one step.           *)
(* Which fitting free chunk the size-class buckets yield is left open.     *)
(***************************************************************************)
EXTENDS Naturals, FiniteSets, Bitwise

CONSTANTS
  MinPoolSize,    \* GlobalAlloc's pool growth increment, in blocks
  MaxPoolSize,    \* GlobalAlloc's addressable range, in blocks
  PagesPerBlock,  \* FreeList::BlockSize / GlobalAlloc::BitmapGranularity
  UnitsPerPage,   \* allocation units per page
  WordBits,       \* pages per bitmap word (64: one uint64_t)
  Sizes,          \* request sizes, header included, in units
  JumboSizes      \* jumbo request sizes, header included, in units

BlockUnits == PagesPerBlock * UnitsPerPage
Units == MaxPoolSize * BlockUnits
PageIds == 0 .. MaxPoolSize * PagesPerBlock - 1
WordIds == 0 .. (MaxPoolSize * PagesPerBlock + WordBits - 1) \div WordBits - 1

\* Mutant: the block count of a jumbo chunk is rounded down.
BlocksFloor(n) == n \div BlockUnits

\* The whole blocks a jumbo chunk of n units spans.
Blocks(n) == (n + BlockUnits - 1) \div BlockUnits

ASSUME Sizes \subseteq 1 .. BlockUnits
ASSUME \A n \in JumboSizes : BlockUnits < n /\ n <= MinPoolSize * BlockUnits

Chunk == [start : 0 .. Units - 1, size : 1 .. BlockUnits, used : BOOLEAN]
Jumbo == [start : 0 .. Units - 1, size : JumboSizes]

VARIABLES
  chunks,   \* the chunks of the blocks taken so far
  bitmap,   \* bitmap[w]: the w-th word, bit i for page w * WordBits + i
  pool,     \* GlobalAlloc's state (module GlobalAlloc)
  jumbo     \* the live jumbo chunks

vars == << chunks, bitmap, pool, jumbo >>

GA == INSTANCE GlobalAlloc
        WITH Requests <- {1} \cup {Blocks(n) : n \in JumboSizes},
             SnapWords <- 0, None <- "none",
             ga <- pool, live <- {}, buf <- << >>, rep <- "none"

End(c) == c.start + c.size
Span(c) == c.start .. End(c) - 1
PageOf(u) == u \div UnitsPerPage
BlockOf(u) == u \div BlockUnits

\* The blocks holding the FreeList's chunks.
Taken == {BlockOf(c.start) : c \in chunks}

\* Pages setBitmap(start, size) marks: every page the range touches.
Touched(s, n) == {PageOf(u) : u \in s .. s + n - 1}

\* The first and the last page lying wholly inside [s, s + n); none when
\* the first is past the last.
FirstCovered(s) == (s + UnitsPerPage - 1) \div UnitsPerPage
LastCovered(s, n) == (s + n) \div UnitsPerPage - 1

\* The bit of page p in the word array b (CheckBitmap: the word at
\* (ptr - BaseAddress) >> 18, pages from the least significant bit).
Dirty(b, p) == (b[p \div WordBits] \div 2^(p % WordBits)) % 2 = 1

Used == {c \in chunks : c.used}
Free == {c \in chunks : ~c.used}

\* f and g are neighbours in one block: f ends where g starts, f not last.
Adjacent(f, g) == End(f) = g.start /\ BlockOf(f.start) = BlockOf(g.start)

TypeOK ==
  /\ chunks \subseteq Chunk
  /\ bitmap \in [WordIds -> 0 .. 2^WordBits - 1]
  /\ pool \in GA!State
  /\ jumbo \subseteq Jumbo

\* A new FreeList owns no block; no page is dirty; GlobalAlloc is fresh.
Init ==
  /\ chunks = {}
  /\ bitmap = [w \in WordIds |-> 0]
  /\ pool = GA!Fresh
  /\ jumbo = {}

-----------------------------------------------------------------------------
(* Operations on the chunk layout and the bitmap.                          *)

UsedChunk(s, n) == [start |-> s, size |-> n, used |-> TRUE]
FreeChunk(s, n) == [start |-> s, size |-> n, used |-> FALSE]

\* Mutant: the free chunk is kept in its list even when carved to nothing.
CarveKeepEmpty(cs, f, n) ==
  (cs \ {f}) \cup {UsedChunk(End(f) - n, n), FreeChunk(f.start, f.size - n)}

\* Carve n units from the tail of free chunk f.
Carve(cs, f, n) ==
  (cs \ {f}) \cup {UsedChunk(End(f) - n, n)}
             \cup IF f.size = n THEN {} ELSE {FreeChunk(f.start, f.size - n)}

\* A new block: the request at its head, the rest one free chunk.
FreshBlock(cs, base, n) ==
  cs \cup {UsedChunk(base, n)}
     \cup IF n = BlockUnits THEN {} ELSE {FreeChunk(base + n, BlockUnits - n)}

\* The bits of word w that pages f .. l cover: from the first page's bit
\* (bit 0 past the first word) to the last page's bit (the top bit before
\* the last word); none for a word the range misses or an empty range.
WordMask(w, f, l) ==
  LET lo == IF f > w * WordBits THEN f - w * WordBits ELSE 0
      hi == IF l < (w + 1) * WordBits THEN l - w * WordBits ELSE WordBits - 1
  IN IF f > l \/ l < w * WordBits \/ (w + 1) * WordBits <= f THEN 0
     ELSE 2^(hi + 1) - 2^lo

SetPages(b, f, l) == [w \in WordIds |-> b[w] | WordMask(w, f, l)]
ClearPages(b, f, l) == [w \in WordIds |-> b[w] - (b[w] & WordMask(w, f, l))]

\* setBitmap(ptr, size): the bits of the first to the last page the range
\* touches are ORed into their words.
SetBitmap(b, s, n) == SetPages(b, PageOf(s), PageOf(s + n - 1))

\* Mutant: pages only partly inside the merged chunk are cleared too.
ClearBitmapRoundOut(b, s, n) == ClearPages(b, PageOf(s), PageOf(s + n - 1))

\* The bits of the pages wholly inside the free chunk [s, s + n) are cleared.
ClearBitmap(b, s, n) == ClearPages(b, FirstCovered(s), LastCovered(s, n))

\* The free chunks alloc(n) may carve from.
Fits(cs, n) == {f \in cs : ~f.used /\ f.size >= n}

\* The outcomes alloc(n) can have: the layout, bitmap and GlobalAlloc state.
AllocOutcomes(cs, b, s, n) ==
  LET fits == Fits(cs, n)
      g == GA!AllocOp(s, 1)
  IN IF fits # {}
     THEN {[layout |-> Carve(cs, f, n), bitmap |-> SetBitmap(b, End(f) - n, n),
            pool |-> s] : f \in fits}
     ELSE IF ~GA!CanAlloc(s, 1) THEN {}
     ELSE {[layout |-> FreshBlock(cs, g.addr * BlockUnits, n),
            bitmap |-> SetBitmap(b, g.addr * BlockUnits, n),
            pool |-> g.st]}

\* Mutant: the left neighbour is merged even across a block boundary.
CoalesceAcrossBlocks(cs, c) ==
  LET left == {f \in cs : ~f.used /\ End(f) = c.start}
      right == {f \in cs : ~f.used /\ Adjacent(c, f)}
      start == IF left = {} THEN c.start ELSE (CHOOSE f \in left : TRUE).start
      stop == IF right = {} THEN End(c) ELSE End(CHOOSE f \in right : TRUE)
  IN (cs \ ({c} \cup left \cup right)) \cup {FreeChunk(start, stop - start)}

\* Mutant: only the right neighbour is merged.
CoalesceNoLeft(cs, c) ==
  LET right == {f \in cs : ~f.used /\ Adjacent(c, f)}
      stop == IF right = {} THEN End(c) ELSE End(CHOOSE f \in right : TRUE)
  IN (cs \ ({c} \cup right)) \cup {FreeChunk(c.start, stop - c.start)}

\* dealloc(c): c and its free neighbours in the block become one chunk.
Coalesce(cs, c) ==
  LET left == {f \in cs : ~f.used /\ Adjacent(f, c)}
      right == {f \in cs : ~f.used /\ Adjacent(c, f)}
      start == IF left = {} THEN c.start ELSE (CHOOSE f \in left : TRUE).start
      stop == IF right = {} THEN End(c) ELSE End(CHOOSE f \in right : TRUE)
  IN (cs \ ({c} \cup left \cup right)) \cup {FreeChunk(start, stop - start)}

\* The layout and bitmap dealloc(c) leaves.
Release(cs, b, c) ==
  LET layout == Coalesce(cs, c)
      merged == CHOOSE f \in layout : ~f.used /\ c.start \in Span(f)
  IN [layout |-> layout, bitmap |-> ClearBitmap(b, merged.start, merged.size)]

-----------------------------------------------------------------------------
(* Calls.                                                                  *)

Alloc(n) ==
  \E r \in AllocOutcomes(chunks, bitmap, pool, n) :
    /\ chunks' = r.layout
    /\ bitmap' = r.bitmap
    /\ pool' = r.pool
    /\ UNCHANGED jumbo

Dealloc(c) ==
  LET r == Release(chunks, bitmap, c) IN
  /\ chunks' = r.layout
  /\ bitmap' = r.bitmap
  /\ UNCHANGED << pool, jumbo >>

\* The free right neighbours c can grow into to n units in layout cs.
Room(cs, c, n) == {f \in cs : ~f.used /\ Adjacent(c, f) /\ c.size + f.size >= n}

\* The layout after c grows to n units into its free right neighbour f.
Grow(cs, c, f, n) ==
  (cs \ {c, f}) \cup {UsedChunk(c.start, n)}
                \cup IF c.size + f.size = n THEN {}
                     ELSE {FreeChunk(c.start + n, c.size + f.size - n)}

\* realloc(c, n): grow into the free right neighbour.
ReallocInPlace(c, n) ==
  \E f \in Room(chunks, c, n) :
    /\ chunks' = Grow(chunks, c, f, n)
    /\ bitmap' = SetBitmap(bitmap, c.start, n)
    /\ UNCHANGED << pool, jumbo >>

\* realloc(c, n) otherwise: alloc(n), copy, dealloc(c).
ReallocMove(c, n) ==
  /\ Room(chunks, c, n) = {}
  /\ \E a \in AllocOutcomes(chunks, bitmap, pool, n) :
       LET r == Release(a.layout, a.bitmap, c) IN
       /\ chunks' = r.layout
       /\ bitmap' = r.bitmap
       /\ pool' = a.pool
       /\ UNCHANGED jumbo

\* A realloc to a size the chunk already has returns it unchanged.
Realloc(c, n) ==
  /\ n > c.size
  /\ ReallocInPlace(c, n) \/ ReallocMove(c, n)

\* alloc(n) of a jumbo size: GlobalAlloc::alloc of the blocks the chunk
\* spans, the chunk at their start, setBitmap over the chunk.
JumboAlloc(n) ==
  LET g == GA!AllocOp(pool, Blocks(n))
      x == [start |-> g.addr * BlockUnits, size |-> n]
  IN /\ GA!CanAlloc(pool, Blocks(n))
     /\ pool' = g.st
     /\ jumbo' = jumbo \cup {x}
     /\ bitmap' = SetBitmap(bitmap, x.start, n)
     /\ UNCHANGED chunks

\* dealloc of a jumbo chunk: its blocks go back to GlobalAlloc and no page
\* of them stays dirty.
JumboDealloc(x) ==
  /\ pool' = GA!ReleaseOp(pool, BlockOf(x.start), Blocks(x.size))
  /\ jumbo' = jumbo \ {x}
  /\ bitmap' = ClearBitmap(bitmap, x.start, Blocks(x.size) * BlockUnits)
  /\ UNCHANGED chunks

Next ==
  \/ \E n \in Sizes : Alloc(n)
  \/ \E c \in Used : Dealloc(c)
  \/ \E c \in Used, n \in Sizes : Realloc(c, n)
  \/ \E n \in JumboSizes : JumboAlloc(n)
  \/ \E x \in jumbo : JumboDealloc(x)

Spec == Init /\ [][Next]_vars

-----------------------------------------------------------------------------
(* Properties.                                                             *)

\* Conservation: the chunks tile the blocks they lie in, each chunk inside
\* one block, so each block's chunk sizes add up to the block size.
ChunksTileBlocks ==
  /\ \A c \in chunks : BlockOf(c.start) = BlockOf(End(c) - 1)
  /\ \A u \in 0 .. Units - 1 :
       Cardinality({c \in chunks : u \in Span(c)}) =
         IF BlockOf(u) \in Taken THEN 1 ELSE 0

\* Every block of GlobalAlloc's pool is in exactly one place: a free
\* region of GlobalAlloc, the FreeList's blocks, or under one jumbo chunk;
\* no chunk lies past the pool.  A jumbo chunk must take, and give back,
\* every block its units reach, whatever its size modulo the block size.
BlocksPartitioned ==
  LET regions == {pool.free[i] : i \in DOMAIN pool.free}
      inRegions(b) == Cardinality({r \in regions : b \in GA!Span(r)})
      underJumbo(b) == Cardinality({x \in jumbo : \E u \in Span(x) : BlockOf(u) = b})
      held(b) == IF b \in Taken THEN 1 ELSE 0
  IN /\ Cardinality(DOMAIN pool.free) = Cardinality(regions)
     /\ \A b \in 0 .. MaxPoolSize - 1 :
          inRegions(b) + underJumbo(b) + held(b) = IF b < pool.pool THEN 1 ELSE 0

\* Coalescing is complete: no two free chunks of a block are neighbours, so
\* the free layout depends only on the used chunks, not on the free order.
FreeChunksCoalesced ==
  \A f, g \in Free : ~Adjacent(f, g)

\* The incrementally maintained bitmap marks exactly the pages that a used
\* or jumbo chunk touches: a checkpoint copies every live page and no dead
\* one, whatever the order of small and jumbo allocs and deallocs.
BitmapTracksUsedPages ==
  \A p \in PageIds :
    Dirty(bitmap, p) <=> \E c \in Used \cup jumbo : p \in Touched(c.start, c.size)

\* spec.md section 8, "Dirty-bit persistence": no step clears a page's
\* dirty bit; in particular freeing a chunk never clears it.
DirtyBitPersistence ==
  [][\A p \in PageIds : Dirty(bitmap, p) => Dirty(bitmap', p)]_vars

=============================================================================
