------------------------- MODULE MCRecoveryBreakdown -------------------------
(* Blocks of 32 cells in four pages; the 64-byte reservation (8 cells) and *)
(* the smallest and largest DummyObject the static_assert admits (16 and  *)
(* 23 cells with header) keep their real sizes: whether a fill fits next to *)
(* the object depends only on them, not on the block size.                 *)
EXTENDS RecoveryBreakdown

MCDummySizes == {16, 23}
MCPageCounts == {1, 2}
=============================================================================
