--------------------------- MODULE MCSampleChannel ---------------------------
(* SampleChannel for TLC: a root and one child, pages of four words.  With     *)
(* sizes 2 and 3 some samples fit the end of a page exactly, some leave a      *)
(* gap, and some need the page stuffed, as in the pages of 4096 bytes.         *)
EXTENDS SampleChannelRefinement, TLC

MCTotalSize ==
  ("PMC" :> 3) @@ ("INFO" :> 3) @@ ("RAPL" :> 2) @@ ("FORK" :> 2)
=============================================================================
