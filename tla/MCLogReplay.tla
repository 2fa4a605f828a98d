----------------------------- MODULE MCLogReplay -----------------------------
(* Keys and values of one or two bytes over {1, 2}, tag byte 9, lines of *)
(* four bytes, two calls before the crash.  MCNulCodecs puts the map      *)
(* objects' NUL-terminated pair beside the vector's one-argument pair.    *)
EXTENDS LogReplay

MCStrings == {<<1>>, <<2>>, <<1, 2>>, <<2, 2>>}
MCTag == 9
MCLine == 4
MCMaxPuts == 2
MCNulCodecs == {"NulTerminated", "Single"}
MCSliceCodecs == {"Slice"}

=============================================================================
