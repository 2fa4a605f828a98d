--------------------------------- MODULE Heap ---------------------------------
(***************************************************************************)
(* What an allocator promises its callers, with no chunks, blocks or       *)
(* cores: the live allocations are disjoint ranges of the arena.  alloc    *)
(* adds a range that overlaps no live one; dealloc removes a live one;     *)
(* realloc replaces a live range by one that overlaps no other live range  *)
(* and either starts where the old one did (grown in place) or is disjoint *)
(* from it, so that the old content can be copied before it is freed.      *)
(***************************************************************************)
EXTENDS Naturals

CONSTANTS
  Arena,      \* the addresses the allocator manages
  Sizes       \* the sizes of allocations, in the same units

VARIABLES
  allocs      \* live allocations, as records [start, size]

Alloc == [start : Arena, size : Sizes]
Addrs(r) == r.start .. r.start + r.size - 1
Apart(r, q) == Addrs(r) \cap Addrs(q) = {}
Fits(r, S) == Addrs(r) \subseteq Arena /\ \A q \in S : Apart(r, q)

Init == allocs = {}

New(r) ==
  /\ allocs' = allocs \cup {r}
  /\ r \in Alloc /\ Fits(r, allocs)

Free(r) ==
  /\ allocs' = allocs \ {r}
  /\ r \in allocs

Resize(r, q) ==
  /\ allocs' = (allocs \ {r}) \cup {q}
  /\ r \in allocs /\ q \in Alloc /\ q # r
  /\ Fits(q, allocs \ {r})
  /\ q.start = r.start \/ Apart(q, r)

\* A step is named by the change it makes: the range it adds, the range it
\* removes, or both.  (Next is the abstract side of a refinement; written
\* this way it is checked as a property, not run on its own.)
Next ==
  \/ \E r \in allocs' \ allocs : New(r)
  \/ \E r \in allocs \ allocs' : Free(r)
  \/ \E r \in allocs \ allocs' : \E q \in allocs' \ allocs : Resize(r, q)

Spec == Init /\ [][Next]_allocs

=============================================================================
