------------------------------ MODULE GlobalAlloc ------------------------------
(***************************************************************************)
(* The process-wide block pool (GlobalAlloc).  Addresses and sizes are in  *)
(* blocks (FreeList::BlockSize), relative to GlobalAlloc::BaseAddress.     *)
(* The pool [0, pool) grows by MinPoolSize when no free region fits; the   *)
(* free-region list is served first-fit from its head, most recently freed *)
(* first; a request is carved from the top of the region; a released       *)
(* range is coalesced with both neighbours and put at the head.  save()    *)
(* writes [poolSize, count, (addr, size) ...] into the snapshot buffer and *)
(* the loading constructor reads count regions back.  All operations run   *)
(* under the GlobalAlloc lock, so each is one atomic step.                 *)
(*                                                                         *)
(* The variable rep is the allocator a recovery would rebuild from the     *)
(* last snapshot: from the snapshot on it is handed the same calls as the  *)
(* running allocator (the redo log replays them).                          *)
(***************************************************************************)
EXTENDS Naturals, Sequences, SequencesExt, FiniteSets

CONSTANTS
  MinPoolSize,   \* pool growth increment, in blocks
  MaxPoolSize,   \* addressable range (MaxMemorySize), in blocks
  Requests,      \* block counts requested by FreeLists and jumbo allocations
  SnapWords,     \* length of the snapshot buffer, in words
  None

ASSUME MinPoolSize > 0 /\ MaxPoolSize >= MinPoolSize
ASSUME \A n \in Requests : 0 < n /\ n <= MinPoolSize

Addr == 0 .. MaxPoolSize
Region == Addr \X (1 .. MaxPoolSize)
End(r) == r[1] + r[2]
Span(r) == r[1] .. End(r) - 1

VARIABLES
  ga,        \* the running allocator: [pool |-> size, free |-> regions]
  live,      \* ranges handed out and not released
  buf,       \* the snapshot buffer GlobalAlloc::save writes into
  rep        \* allocator reloaded from the last snapshot, or None

vars == << ga, live, buf, rep >>

State == [pool : Addr, free : Seq(Region)]

TypeOK ==
  /\ ga \in State
  /\ live \subseteq Region
  /\ buf \in [1 .. SnapWords -> Nat]
  /\ rep \in State \cup {None}

\* A fresh instance maps MinPoolSize: one free region covering the pool.
Fresh == [pool |-> MinPoolSize, free |-> << <<0, MinPoolSize>> >>]

Init ==
  /\ ga = Fresh
  /\ live = {}
  /\ buf = [i \in 1 .. SnapWords |-> 0]
  /\ rep = None

-----------------------------------------------------------------------------
(* The allocator's operations, as functions of its state.                  *)

FirstFit(s, n) == SelectInSeq(s.free, LAMBDA r : r[2] >= n)

\* Mutant: the address-range limit is not checked before growing.
CanAllocNoLimit(s, n) == TRUE

\* alloc(n) can be served without exhausting the address range.
CanAlloc(s, n) == FirstFit(s, n) # 0 \/ s.pool + MinPoolSize <= MaxPoolSize

\* alloc(n): carve the top n blocks of the first region that fits, dropping
\* the region once empty; else grow the pool by MinPoolSize and carve the
\* top of the new region.
AllocOp(s, n) ==
  LET i == FirstFit(s, n)
      r == s.free[i]
      g == << s.pool, MinPoolSize >>
  IN IF i # 0
     THEN [addr |-> End(r) - n,
           st |-> [s EXCEPT !.free = IF r[2] = n THEN RemoveAt(s.free, i)
                                     ELSE [s.free EXCEPT ![i] = << r[1], r[2] - n >>]]]
     ELSE [addr |-> End(g) - n,
           st |-> [pool |-> s.pool + MinPoolSize,
                   free |-> IF MinPoolSize = n THEN s.free
                            ELSE << << g[1], MinPoolSize - n >> >> \o s.free]]

\* Mutant: the right neighbour is merged but not unlinked from the list.
ReleaseOpKeepRight(s, a, n) ==
  LET left == {r \in ToSet(s.free) : End(r) = a}
      right == {r \in ToSet(s.free) : r[1] = a + n}
      start == IF left = {} THEN a ELSE (CHOOSE r \in left : TRUE)[1]
      stop == IF right = {} THEN a + n ELSE End(CHOOSE r \in right : TRUE)
      rest == SelectSeq(s.free, LAMBDA r : End(r) # a)
  IN [s EXCEPT !.free = << << start, stop - start >> >> \o rest]

\* release(a, n): merge with the region ending at a and the one starting at
\* a + n, and put the result at the head of the list.
ReleaseOp(s, a, n) ==
  LET left == {r \in ToSet(s.free) : End(r) = a}
      right == {r \in ToSet(s.free) : r[1] = a + n}
      start == IF left = {} THEN a ELSE (CHOOSE r \in left : TRUE)[1]
      stop == IF right = {} THEN a + n ELSE End(CHOOSE r \in right : TRUE)
      rest == SelectSeq(s.free, LAMBDA r : End(r) # a /\ r[1] # a + n)
  IN [s EXCEPT !.free = << << start, stop - start >> >> \o rest]

\* save(buf): poolSize, count, then the regions in list order; words past
\* them keep what an earlier save left there.
SaveOp(s, b) ==
  [i \in 1 .. SnapWords |->
     IF i = 1 THEN s.pool
     ELSE IF i = 2 THEN Len(s.free)
     ELSE IF i <= 2 + 2 * Len(s.free)
          THEN s.free[(i - 1) \div 2][IF i % 2 = 1 THEN 1 ELSE 2]
     ELSE b[i]]

\* Mutant: each loaded region is pushed at the head, reversing the list.
LoadOpReversed(b) ==
  [pool |-> b[1],
   free |-> [j \in 1 .. b[2] |-> << b[2 * (b[2] - j + 1) + 1],
                                    b[2 * (b[2] - j + 1) + 2] >>]]

\* GlobalAlloc(snapshot): the pool size and exactly count regions, in order.
LoadOp(b) ==
  [pool |-> b[1],
   free |-> [j \in 1 .. b[2] |-> << b[2 * j + 1], b[2 * j + 2] >>]]

-----------------------------------------------------------------------------
(* Calls.                                                                  *)

Alloc(n) ==
  /\ CanAlloc(ga, n)
  /\ LET g == AllocOp(ga, n) IN
     /\ ga' = g.st
     /\ live' = live \cup {<< g.addr, n >>}
     /\ rep' = IF rep = None THEN None ELSE AllocOp(rep, n).st
  /\ UNCHANGED buf

Release(x) ==
  /\ ga' = ReleaseOp(ga, x[1], x[2])
  /\ live' = live \ {x}
  /\ rep' = IF rep = None THEN None ELSE ReleaseOp(rep, x[1], x[2])
  /\ UNCHANGED buf

\* A checkpoint saves the allocator; recovery from it would load that buffer.
Checkpoint ==
  /\ 2 + 2 * Len(ga.free) <= SnapWords
  /\ buf' = SaveOp(ga, buf)
  /\ rep' = LoadOp(buf')
  /\ UNCHANGED << ga, live >>

Next ==
  \/ \E n \in Requests : Alloc(n)
  \/ \E x \in live : Release(x)
  \/ Checkpoint

Spec == Init /\ [][Next]_vars

-----------------------------------------------------------------------------
(* Properties.                                                             *)

\* The free regions and the live ranges partition the pool exactly: no
\* block is handed out twice, lost, or outside the mapped pool.
PoolPartitioned ==
  LET parts == ToSet(ga.free) \cup live IN
  /\ \A r \in parts : End(r) <= ga.pool
  /\ \A b \in 0 .. ga.pool - 1 : Cardinality({r \in parts : b \in Span(r)}) = 1
  /\ Len(ga.free) = Cardinality(ToSet(ga.free))

\* Replaying the same allocator calls against the allocator loaded from a
\* snapshot returns the same addresses as the run that wrote the snapshot:
\* after any calls since the save, the next alloc of every size succeeds or
\* fails on both alike and, when it succeeds, returns the same address.
ReplayReproducesAddresses ==
  rep # None =>
    \A n \in Requests :
      /\ CanAlloc(rep, n) = CanAlloc(ga, n)
      /\ CanAlloc(ga, n) => AllocOp(rep, n).addr = AllocOp(ga, n).addr

=============================================================================
