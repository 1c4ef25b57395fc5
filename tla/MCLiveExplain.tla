--------------------------- MODULE MCLiveExplain ----------------------------
(***************************************************************************)
(* One buyer, two exchanges: one that can be paid and one that cannot.     *)
(***************************************************************************)
EXTENDS LiveExplain, MCLivePipeline
=============================================================================
