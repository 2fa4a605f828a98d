------------------------------- MODULE Snapshot -------------------------------
(***************************************************************************)
(* The copy-on-write checkpoint engine.  A trigger (SIGUSR1) pauses        *)
(* mutation, copies the allocator's page bitmap, marks every block that    *)
(* holds an in-use page UsedHugePage and write-protects it.  A mutator     *)
(* write to a protected block faults; the fault handler claims the block,  *)
(* copies the pages whose bit is set in the saved bitmap into the snapshot *)
(* data region, marks the block SavedHugePage, unprotects it and the write *)
(* is re-executed.  A background snapshot worker does the same for blocks  *)
(* no mutator touches, and the checkpoint completes once no block is left  *)
(* UsedHugePage.  A "copier" is a mutator thread in its fault handler or   *)
(* the snapshot worker.                                                    *)
(***************************************************************************)
EXTENDS Naturals, FiniteSets

CONSTANTS
  Threads,        \* mutator threads
  Worker,         \* the background snapshot thread
  Blocks,         \* 2 MiB heap blocks
  PagesPerBlock,  \* bitmap granules per block
  Values,         \* page contents
  InitValue,      \* content of a fresh page
  Freed,          \* the mutation that frees the page's last used chunk
  Nil

ASSUME InitValue \in Values /\ Worker \notin Threads /\ Freed \notin Values

Pages == Blocks \X (1 .. PagesPerBlock)
BlockOf(p) == p[1]
PagesOf(b) == {p \in Pages : BlockOf(p) = b}
Copiers == Threads \cup {Worker}
\* A mutation of a page: a store of a value, or a dealloc.
Ops == Values \cup {Freed}

\* Per-block context of the snapshot (snapshot.hpp's block states).
Contexts == {"Free", "UsedHugePage", "Copying", "SavedHugePage"}

VARIABLES
  mem,          \* heap content of every page
  bitmap,       \* allocator bitmap: page overlaps a used chunk
  phase,        \* checkpoint state: "none", "active", "complete"
  savedBitmap,  \* bitmap copied when the checkpoint was prepared
  context,      \* per-block snapshot context
  prot,         \* per-block write protection
  data,         \* snapshot data region: copied pre-image of each page
  pc,           \* per copier: "idle", "fault", "copy", "unprot"
  cblock,       \* per copier: block it is handling
  target,       \* per thread: page of the faulting write
  wval          \* per thread: value of the faulting write

vars == << mem, bitmap, phase, savedBitmap, context, prot, data,
           pc, cblock, target, wval >>

TypeOK ==
  /\ mem \in [Pages -> Values]
  /\ bitmap \in [Pages -> BOOLEAN]
  /\ phase \in {"none", "active", "complete"}
  /\ savedBitmap \in [Pages -> BOOLEAN]
  /\ context \in [Blocks -> Contexts]
  /\ prot \in [Blocks -> BOOLEAN]
  /\ data \in [Pages -> Values \cup {Nil}]
  /\ pc \in [Copiers -> {"idle", "fault", "copy", "unprot"}]
  /\ cblock \in [Copiers -> Blocks \cup {Nil}]
  /\ target \in [Threads -> Pages \cup {Nil}]
  /\ wval \in [Threads -> Ops \cup {Nil}]
  \* only one copier at a time owns a block being copied
  /\ \A c, d \in Copiers :
       c # d /\ pc[c] \in {"copy", "unprot"} /\ pc[d] \in {"copy", "unprot"}
         => cblock[c] # cblock[d]

Init ==
  /\ mem = [p \in Pages |-> InitValue]
  /\ bitmap = [p \in Pages |-> FALSE]
  /\ phase = "none"
  /\ savedBitmap = [p \in Pages |-> FALSE]
  /\ context = [b \in Blocks |-> "Free"]
  /\ prot = [b \in Blocks |-> FALSE]
  /\ data = [p \in Pages |-> Nil]
  /\ pc = [c \in Copiers |-> "idle"]
  /\ cblock = [c \in Copiers |-> Nil]
  /\ target = [t \in Threads |-> Nil]
  /\ wval = [t \in Threads |-> Nil]

-----------------------------------------------------------------------------
(* Mutator side.                                                           *)

\* A mutation landing on an unprotected block: a store (allocating the
\* page it lands on) sets the page's bit; a dealloc that frees the last
\* used chunk of the page clears it and leaves the content alone.
Store(p, v) ==
  IF v = Freed
  THEN /\ bitmap' = [bitmap EXCEPT ![p] = FALSE]
       /\ UNCHANGED mem
  ELSE /\ mem' = [mem EXCEPT ![p] = v]
       /\ bitmap' = [bitmap EXCEPT ![p] = TRUE]

Write(t, p, v) ==
  /\ pc[t] = "idle"
  /\ ~prot[BlockOf(p)]
  /\ Store(p, v)
  /\ UNCHANGED << phase, savedBitmap, context, prot, data, pc, cblock,
                  target, wval >>

\* The store hits a protected block: SIGSEGV enters the fault handler.
Trap(t, p, v) ==
  /\ pc[t] = "idle"
  /\ prot[BlockOf(p)]
  /\ pc' = [pc EXCEPT ![t] = "fault"]
  /\ target' = [target EXCEPT ![t] = p]
  /\ wval' = [wval EXCEPT ![t] = v]
  /\ UNCHANGED << mem, bitmap, phase, savedBitmap, context, prot, data,
                  cblock >>

\* The handler returned and the faulting store is re-executed; it only
\* gets through once the block is unprotected.
Retry(t) ==
  /\ pc[t] = "fault"
  /\ ~prot[BlockOf(target[t])]
  /\ Store(target[t], wval[t])
  /\ pc' = [pc EXCEPT ![t] = "idle"]
  /\ target' = [target EXCEPT ![t] = Nil]
  /\ wval' = [wval EXCEPT ![t] = Nil]
  /\ UNCHANGED << phase, savedBitmap, context, prot, data, cblock >>

-----------------------------------------------------------------------------
(* Copy-on-write of one block, shared by fault handler and worker.         *)

\* Mutant: the block is taken without publishing the Copying state.
ClaimBlockNoMark(c, b) ==
  /\ context[b] = "UsedHugePage"
  /\ pc' = [pc EXCEPT ![c] = "copy"]
  /\ cblock' = [cblock EXCEPT ![c] = b]
  /\ UNCHANGED << mem, bitmap, phase, savedBitmap, context, prot, data,
                  target, wval >>

\* Mutant: the block is unprotected when claimed, before its pages are copied.
ClaimAndUnprotect(c, b) ==
  /\ context[b] = "UsedHugePage"
  /\ context' = [context EXCEPT ![b] = "Copying"]
  /\ prot' = [prot EXCEPT ![b] = FALSE]
  /\ pc' = [pc EXCEPT ![c] = "copy"]
  /\ cblock' = [cblock EXCEPT ![c] = b]
  /\ UNCHANGED << mem, bitmap, phase, savedBitmap, data, target, wval >>

\* Claim a UsedHugePage block by moving it to Copying.
ClaimBlock(c, b) ==
  /\ context[b] = "UsedHugePage"
  /\ context' = [context EXCEPT ![b] = "Copying"]
  /\ pc' = [pc EXCEPT ![c] = "copy"]
  /\ cblock' = [cblock EXCEPT ![c] = b]
  /\ UNCHANGED << mem, bitmap, phase, savedBitmap, prot, data, target, wval >>

HandlerClaim(t) ==
  /\ pc[t] = "fault"
  /\ ClaimBlock(t, BlockOf(target[t]))

WorkerClaim(b) ==
  /\ phase = "active"
  /\ pc[Worker] = "idle"
  /\ ClaimBlock(Worker, b)

\* Copy the pre-image of the block's saved-bitmap pages to the data region.
CopyPages(c) ==
  LET b == cblock[c] IN
  /\ pc[c] = "copy"
  /\ data' = [p \in Pages |->
                IF p \in PagesOf(b) /\ savedBitmap[p] THEN mem[p] ELSE data[p]]
  /\ pc' = [pc EXCEPT ![c] = "unprot"]
  /\ UNCHANGED << mem, bitmap, phase, savedBitmap, context, prot, cblock,
                  target, wval >>

\* Mark the block SavedHugePage and make it writable again.
Unprotect(c) ==
  LET b == cblock[c] IN
  /\ pc[c] = "unprot"
  /\ context' = [context EXCEPT ![b] = "SavedHugePage"]
  /\ prot' = [prot EXCEPT ![b] = FALSE]
  /\ pc' = [pc EXCEPT ![c] = IF c = Worker THEN "idle" ELSE "fault"]
  /\ cblock' = [cblock EXCEPT ![c] = Nil]
  /\ UNCHANGED << mem, bitmap, phase, savedBitmap, data, target, wval >>

-----------------------------------------------------------------------------
(* Checkpoint trigger and completion.                                      *)

\* Mutant: every block is write-protected, in-use pages or not.
PrepareProtectAll ==
  /\ phase # "active"
  /\ \A c \in Copiers : pc[c] = "idle"
  /\ phase' = "active"
  /\ savedBitmap' = bitmap
  /\ context' = [b \in Blocks |->
                   IF \E p \in PagesOf(b) : bitmap[p] THEN "UsedHugePage"
                                                      ELSE "Free"]
  /\ prot' = [b \in Blocks |-> TRUE]
  /\ data' = [p \in Pages |-> Nil]
  /\ UNCHANGED << mem, bitmap, pc, cblock, target, wval >>

\* SIGUSR1 with no active checkpoint: mutation is paused (no thread is in
\* a store or a handler), the bitmap is saved, blocks with in-use pages
\* become UsedHugePage and are write-protected.
Prepare ==
  /\ phase # "active"
  /\ \A c \in Copiers : pc[c] = "idle"
  /\ phase' = "active"
  /\ savedBitmap' = bitmap
  /\ context' = [b \in Blocks |->
                   IF \E p \in PagesOf(b) : bitmap[p] THEN "UsedHugePage"
                                                      ELSE "Free"]
  /\ prot' = [b \in Blocks |-> context'[b] = "UsedHugePage"]
  /\ data' = [p \in Pages |-> Nil]
  /\ UNCHANGED << mem, bitmap, pc, cblock, target, wval >>

\* Every block of the checkpoint has been saved.
Complete ==
  /\ phase = "active"
  /\ \A b \in Blocks : context[b] \in {"Free", "SavedHugePage"}
  /\ phase' = "complete"
  /\ UNCHANGED << mem, bitmap, savedBitmap, context, prot, data, pc, cblock,
                  target, wval >>

-----------------------------------------------------------------------------
Next ==
  \/ \E t \in Threads, p \in Pages, v \in Ops : Write(t, p, v) \/ Trap(t, p, v)
  \/ \E t \in Threads : HandlerClaim(t) \/ Retry(t)
  \/ \E b \in Blocks : WorkerClaim(b)
  \/ \E c \in Copiers : CopyPages(c) \/ Unprotect(c)
  \/ Prepare
  \/ Complete

\* The handler and the worker thread always run their steps to the end;
\* mutators are free to stop writing and no trigger is forced.
Fairness ==
  /\ \A c \in Copiers : WF_vars(CopyPages(c)) /\ WF_vars(Unprotect(c))
  /\ \A t \in Threads : WF_vars(HandlerClaim(t)) /\ WF_vars(Retry(t))
  /\ WF_vars(\E b \in Blocks : WorkerClaim(b))
  /\ WF_vars(Complete)

Spec == Init /\ [][Next]_vars /\ Fairness

-----------------------------------------------------------------------------
(* Properties.                                                             *)

\* The image the checkpoint stands for: a saved page's copy once the block
\* was copied, else its content in the (still protected) heap.
ImageOf ==
  [p \in Pages |->
     IF phase = "none" \/ ~savedBitmap[p] THEN Nil
     ELSE IF data[p] # Nil THEN data[p] ELSE mem[p]]

Abstract == INSTANCE SnapshotImage WITH image <- ImageOf

\* Copy-on-write implements a consistent checkpoint: from the trigger on,
\* the image formed by the data region and the not-yet-copied protected
\* pages never changes whatever the fault handlers, the worker and the
\* mutators do, and every active checkpoint completes (pageFaultHandler,
\* the snapshot worker and the checkpoint trigger together).
ImplementsSnapshotImage == Abstract!Spec

\* A mutator whose store faulted is eventually let through: the handler
\* never leaves a thread spinning on a block nobody will unprotect.
FaultEventuallyResolved ==
  \A t \in Threads : pc[t] = "fault" ~> pc[t] = "idle"

=============================================================================
