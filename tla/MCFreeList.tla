------------------------------ MODULE MCFreeList ------------------------------
(* Model-checking instance of FreeList: blocks of two pages of two units,  *)
(* requests of one to three units, so chunks can sit inside a page, fill   *)
(* one, straddle two, end at a block boundary, and sit in a block between  *)
(* two others.  GlobalAlloc maps three blocks (its growth is exercised by  *)
(* MCObjectAlloc), so FreeList blocks and jumbo ranges compete for them.   *)
(* A jumbo request of five units spans two blocks and ends one unit into   *)
(* the second block's first page.  A bitmap word holds four pages, so a    *)
(* chunk of block 1 sits at an offset inside word 0 and a jumbo range from *)
(* block 1 has a partial first and a partial last word.                    *)
EXTENDS FreeList

MCMinPoolSize == 3
MCMaxPoolSize == 3
MCPagesPerBlock == 2
MCUnitsPerPage == 2
MCWordBits == 4
MCSizes == {1, 2, 3}
MCJumboSizes == {5}

=============================================================================
