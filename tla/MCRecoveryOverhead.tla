------------------------- MODULE MCRecoveryOverhead -------------------------
(* Blocks of 8 cells in two bitmap pages; a reservation of 3 cells, which  *)
(* the object fills or leaves a one-cell gap in, as the static_assert      *)
(* allows; one, two and three blocks: the swap is a no-op, exchanges two  *)
(* neighbours, or skips a middle block.                                    *)
EXTENDS RecoveryOverhead

MCPageCounts == {1, 2, 3}
=============================================================================
