---------------------------- MODULE MCDumpSnapshot ----------------------------
(* Bitmaps of two 4-bit words.                                             *)
EXTENDS DumpSnapshot

MCWordBits == 4
MCWords == 2

=============================================================================
