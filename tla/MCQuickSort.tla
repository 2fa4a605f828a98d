----------------------------- MODULE MCQuickSort -----------------------------
(* Two sort threads of three elements each; indices of 4 bits, so i = LB-1 *)
(* and pi - 1 wrap exactly as uint64_t does at 0.                          *)
EXTENDS QuickSort

MCT == 2
MCPartSize == 3
MCWidth == 4

\* Two-word elements: <<0, 1>> and <<1, 0>> are incomparable under
\* operator<=, both lie above <<0, 0>>.
MCVals == {<< 0, 0 >>, << 0, 1 >>, << 1, 0 >>}
=============================================================================
