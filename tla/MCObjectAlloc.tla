----------------------------- MODULE MCObjectAlloc -----------------------------
(* Two cores; blocks of two units, requests of one or two units, jumbo     *)
(* requests of two blocks; a pool growing by two blocks up to four, so a   *)
(* released jumbo range can merge with a free region on one side (a merge  *)
(* on both sides would need six blocks); a snapshot buffer with room for   *)
(* two regions.                                                            *)
EXTENDS ObjectAlloc, TLC

CONSTANTS c1, c2

MCCores == {c1, c2}
MCSizes == {1, 2}
MCJumboBlocks == {2}
CoreSymmetry == Permutations(MCCores)

=============================================================================
