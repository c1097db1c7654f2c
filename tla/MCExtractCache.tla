--------------------------- MODULE MCExtractCache ---------------------------
(* The sizes and the contents of three versions. *)
EXTENDS ExtractCache, TLC
CONSTANTS v1, v2, v3, meta, main, sibling
MCSize == (v1 :> 7) @@ (v2 :> 8) @@ (v3 :> 7)
MCContents == (v1 :> <<meta, sibling, main>>) @@ (v2 :> <<meta, main>>) @@ (v3 :> <<main, meta, main>>)
=============================================================================
