-------------------------- MODULE MCLivePipeline ---------------------------
(***************************************************************************)
(* Two exchanges of one buyer, each with or without a payment; the value   *)
(* of e2's payment is none that BigInt() can read.                         *)
(***************************************************************************)
EXTENDS LivePipeline, TLC

CONSTANTS e1, e2, e3, NaN, None

MCHex == {"n1", "n2", "buyer", "seller"}
MCLower == [h \in MCHex |-> h]
MCValueText == {"1000", "1e3"}
MCBigInt == [v \in MCValueText |-> IF v = "1e3" THEN NaN ELSE 1000]

Signed(nonce, value) == [nonce |-> nonce, from |-> "buyer", to |-> "seller", value |-> value]
Moved(nonce, value) == [nonce |-> nonce, from |-> "buyer", to |-> "seller", value |-> value]

MCAuth == [id \in Ids |-> IF id = e2 THEN Signed("n2", "1e3") ELSE Signed("n1", "1000")]
MCTransfers == {Moved("n1", 1000), Moved("n2", 1000)}
OneTransfer == {Moved("n1", 1000)}
============================================================================
