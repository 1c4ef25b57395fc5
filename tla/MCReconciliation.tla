------------------------- MODULE MCReconciliation --------------------------
(***************************************************************************)
(* A small instance of the engine: a client that sends the same            *)
(* authorization twice, in different letter case and the second time with  *)
(* a value BigInt() cannot read (e1 and e2), and one more exchange (e3).   *)
(* The transfers are the exact one of e1, one that pays a wrong recipient, *)
(* and the exact one of e3, whose value is written in another base.        *)
(***************************************************************************)
EXTENDS Reconciliation, TLC

CONSTANTS e1, e2, e3, NaN, None

MCHex == {"n1", "N1", "n2", "buyer", "Buyer", "seller", "other"}
MCLower ==
  [h \in MCHex |-> CASE h = "N1" -> "n1" [] h = "Buyer" -> "buyer" [] OTHER -> h]
MCValueText == {"1000", "0x3e8", "1e3"}
MCBigInt == [v \in MCValueText |-> IF v = "1e3" THEN NaN ELSE 1000]

Signed(nonce, from, value) ==
  [nonce |-> nonce, from |-> from, to |-> "seller", value |-> value]
Moved(nonce, to, value) ==
  [nonce |-> nonce, from |-> "Buyer", to |-> to, value |-> value]

\* One authorization sent twice, once with an unreadable value, and another.
MCAuth ==
  [id \in Ids |-> CASE id = e1 -> Signed("n1", "buyer", "1000")
                    [] id = e2 -> Signed("N1", "Buyer", "1e3")
                    [] OTHER   -> Signed("n2", "buyer", "0x3e8")]
\* A transfer for the first authorization, a misdirected one, and one for e3.
RetryTransfers ==
  {Moved("n1", "seller", 1000), Moved("N1", "other", 1000), Moved("n2", "seller", 1000)}
============================================================================
