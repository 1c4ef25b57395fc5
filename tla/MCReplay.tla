------------------------------ MODULE MCReplay -----------------------------
(***************************************************************************)
(* Logs of up to four lines about one exchange, and longer ones about two. *)
(***************************************************************************)
EXTENDS Replay

CONSTANTS e1, e2, e3, NaN, None

MCHex == {"n1", "n2", "n3", "buyer", "seller", "other"}
MCLower == [h \in MCHex |-> h]
MCValueText == {"1000", "1e3"}
MCBigInt == [v \in MCValueText |-> IF v = "1e3" THEN NaN ELSE 1000]

Signed(nonce, value) == [nonce |-> nonce, from |-> "buyer", to |-> "seller", value |-> value]
Moved(nonce, to, value) == [nonce |-> nonce, from |-> "buyer", to |-> to, value |-> value]

\* e3's header holds a value BigInt() rejects.
MCAuth ==
  [id \in Ids |-> CASE id = e1 -> Signed("n1", "1000")
                    [] id = e2 -> Signed("n2", "1000")
                    [] OTHER   -> Signed("n3", "1e3")]
MCTransfers ==
  {Moved("n1", "seller", 1000), Moved("n1", "seller", 1), Moved("n1", "other", 1000),
   Moved(None, "seller", 1000), Moved("n3", "seller", 1000)}

ClosedLine(id, outcome, t) ==
  [event |-> "exchange.closed", id |-> id, outcome |-> outcome, t |-> t]
PaymentLine(id, t) == [event |-> "exchange.payment", id |-> id, t |-> t]
TransferLine(transfer, t) == [event |-> "chain.transfer", transfer |-> transfer, t |-> t]
OtherLine(t) == [event |-> "other", t |-> t]

\* Every log of at most four lines in which each half occurs at most once: a
\* line may be too early, in time or too late, or its time unreadable.
Times == {1, 3, Unreadable}
About(id) ==
  {ClosedLine(id, "rejected", t) : t \in Times} \union {ClosedLine(id, "paid", 1)}
    \union {PaymentLine(id, t) : t \in Times}
    \union {TransferLine(Moved("n1", "seller", v), t) : v \in {1, 1000}, t \in Times}
    \union {TransferLine(Moved("n1", "other", 1000), 2),
            TransferLine(Moved(None, "seller", 1000), 1), OtherLine(4)}
AtMostOne(lines, event) ==
  \A j, k \in DOMAIN lines : lines[j].event = event /\ lines[k].event = event => j = k
LogsOf(n) ==
  {lines \in [1..n -> About(e1)] :
     AtMostOne(lines, "exchange.closed") /\ AtMostOne(lines, "exchange.payment")}
ShortLogs == LogsOf(1) \union LogsOf(2) \union LogsOf(3) \union LogsOf(4)

\* Three exchanges, one of which the engine cannot compare, and its transfer:
\* in time, so that the engine throws and the replay ends there, or too late.
EndingLogs ==
  {<<PaymentLine(e3, 1), ClosedLine(e3, outcome, 1), PaymentLine(e2, 1), OtherLine(2),
     ClosedLine(e2, "rejected", 3), TransferLine(Moved("n3", "seller", 1000), t)>> :
     outcome \in OutcomeKinds, t \in 1..3}
  \union
  {<<PaymentLine(e3, 1), ClosedLine(e3, outcome, 1), PaymentLine(e2, 1),
     ClosedLine(e2, "rejected", 1), TransferLine(Moved("n3", "seller", 1000), t), OtherLine(4)>> :
     outcome \in OutcomeKinds, t \in 2..3}
MCLogs == ShortLogs \union EndingLogs

\* What ReplayReportsTheLog asks of the logs holds of these.
ASSUME MCPlainLogs == \A lines \in Logs : PlainLog(lines)
============================================================================
