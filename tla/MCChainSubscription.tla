------------------------ MODULE MCChainSubscription ------------------------
(***************************************************************************)
(* A chain of two blocks: one transfer in the first, two in the second, in *)
(* one transaction (OneBatch).                                             *)
(***************************************************************************)
EXTENDS ChainSubscription, TLC

MCBlockOf == <<1, 2, 2>>
OneBatch == <<1, 2, 2>>

============================================================================
