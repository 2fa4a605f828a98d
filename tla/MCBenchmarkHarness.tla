------------------------- MODULE MCBenchmarkHarness -------------------------
(* Three benchmark threads (two spawned, one on the main thread) with     *)
(* traces of different lengths.                                            *)
EXTENDS BenchmarkHarness

MCN == 3
MCTraceLen == [t \in 0 .. 2 |-> t + 1]

=============================================================================
