------------------------------ MODULE MCSnapshot ------------------------------
(* Model-checking instance of Snapshot: one mutator racing the snapshot    *)
(* worker (two copiers), two blocks of two pages, two page contents.       *)
EXTENDS Snapshot

MCPagesPerBlock == 2
MCValues == {0, 1}
MCInitValue == 0

=============================================================================
