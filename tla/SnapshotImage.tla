---------------------------- MODULE SnapshotImage ----------------------------
(***************************************************************************)
(* What a checkpoint promises, with no copy-on-write machinery: when a     *)
(* checkpoint is triggered the content of every in-use page is frozen into *)
(* an image, the image stays that pre-image however the mutators write the *)
(* heap afterwards, and an active checkpoint eventually completes.  A new  *)
(* trigger is only taken when no checkpoint is active.                     *)
(***************************************************************************)
EXTENDS Naturals

CONSTANTS
  Pages,      \* the heap's pages (bitmap granules)
  Values,     \* the contents a page can hold
  Freed,      \* a dealloc releasing the page
  Nil         \* "not part of the image"

VARIABLES
  mem,        \* current content of every page
  bitmap,     \* the allocator's page bitmap
  phase,      \* "none", "active" or "complete"
  image       \* the frozen pre-image of the last triggered checkpoint

vars == << mem, bitmap, phase, image >>

Init ==
  /\ mem \in [Pages -> Values]
  /\ bitmap \in [Pages -> BOOLEAN]
  /\ phase = "none"
  /\ image = [p \in Pages |-> Nil]

\* A mutator writes (and so marks in use) a page, or frees it.
Write(p, v) ==
  /\ mem' = [mem EXCEPT ![p] = IF v = Freed THEN @ ELSE v]
  /\ bitmap' = [bitmap EXCEPT ![p] = v # Freed]
  /\ UNCHANGED << phase, image >>

\* A trigger freezes the in-use pages; it is ignored while one is active.
Trigger ==
  /\ phase # "active"
  /\ phase' = "active"
  /\ image' = [p \in Pages |-> IF bitmap[p] THEN mem[p] ELSE Nil]
  /\ UNCHANGED << mem, bitmap >>

Finish ==
  /\ phase = "active"
  /\ phase' = "complete"
  /\ UNCHANGED << mem, bitmap, image >>

Next ==
  \/ \E p \in Pages, v \in Values \cup {Freed} : Write(p, v)
  \/ Trigger
  \/ Finish

Spec == Init /\ [][Next]_vars /\ WF_vars(Finish)

=============================================================================
