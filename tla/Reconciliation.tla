-------------------------- MODULE Reconciliation ---------------------------
(***************************************************************************)
(* The reconciliation engine among its callers.  The handlers of module    *)
(* Engine are called with the discipline of the proxy command (one close   *)
(* and at most one payment per exchange), transfers are delivered at any   *)
(* moment and possibly more than once, the interval timer sweeps, and time *)
(* passes, in ticks of the engine's clock; every run bounds it.            *)
(***************************************************************************)
EXTENDS Engine

CONSTANTS
  Outcomes,       \* the outcomes the proxy may report in this instance
  SweepInterval,  \* sweepIntervalMs
  Latency,        \* how late a due interval callback may run
  Horizon,        \* bound: no exchange event is ingested after this instant
  MaxDeliveries   \* bound: how often one transfer may be delivered

ASSUME OutcomesAssumption == Outcomes \subseteq OutcomeKinds
ASSUME TimeAssumption ==
  /\ SweepInterval \in Nat \ {0}
  /\ Latency \in Nat
  /\ Horizon \in Nat
  /\ MaxDeliveries \in Nat

VARIABLES
  nextSweep,   \* when the interval timer is due
  sweeping,    \* the interval has not been cleared
  \* history, read only by guards of the environment and by properties
  closedAs,    \* id -> the outcome it closed with, for the closed exchanges
  decoded,     \* the ids whose payment has been ingested
  delivered,   \* how often each transfer has been delivered
  seen         \* the transfers handed over while an exchange was pending

timerVars == <<now, nextSweep, sweeping>>
historyVars == <<closedAs, decoded, delivered, seen>>
vars == <<engineVars, timerVars, historyVars>>

TypeOK ==
  /\ EngineTypeOK
  /\ nextSweep \in Nat
  /\ sweeping \in BOOLEAN
  /\ IsMap(closedAs, Outcomes)
  /\ decoded \subseteq Ids
  /\ delivered \in [Transfers -> 0..MaxDeliveries]
  /\ seen \in [Ids -> SUBSET Transfers]

Init ==
  /\ EngineInit
  /\ nextSweep = SweepInterval
  /\ sweeping = TRUE
  /\ closedAs = [i \in {} |-> {}]
  /\ decoded = {}
  /\ delivered = [t \in Transfers |-> 0]
  /\ seen = [i \in Ids |-> {}]
----------------------------------------------------------------------------
\* The engine among its callers.

Closed(id) == id \in DOMAIN closedAs

\* The proxy task hands over one exchange.closed per exchange.
CloseExchange(id, kind) ==
  /\ now <= Horizon
  /\ ~Closed(id)
  /\ IngestProxyEvent(id, kind)
  /\ closedAs' = Put(closedAs, id, kind)
  /\ UNCHANGED <<timerVars, decoded, delivered, seen>>

\* ... and one exchange.payment if the request carried a readable header.
DecodePayment(id) ==
  /\ now <= Horizon
  /\ id \notin decoded
  /\ IngestDecoderEvent(id)
  /\ decoded' = decoded \union {id}
  /\ UNCHANGED <<timerVars, closedAs, delivered, seen>>

\* The chain task hands over a transfer; overlapping polls repeat some.
DeliverTransfer(t) ==
  /\ delivered[t] < MaxDeliveries
  /\ IngestChainTransfer(t)
  /\ delivered' = [delivered EXCEPT ![t] = @ + 1]
  /\ seen' = [id \in Ids |->
                IF id \in DOMAIN pending THEN seen[id] \union {t} ELSE seen[id]]
  /\ UNCHANGED <<timerVars, closedAs, decoded>>

\* setInterval fires once it is due and is re-armed from that moment.
IntervalSweep ==
  /\ sweeping
  /\ now >= nextSweep
  /\ Sweep
  /\ nextSweep' = now + SweepInterval
  /\ UNCHANGED <<now, sweeping, historyVars>>

\* tick(): offline replay sweeps between two log lines.
Tick ==
  /\ Sweep
  /\ UNCHANGED <<timerVars, historyVars>>

\* close() clears the interval and nothing else.
Close ==
  /\ sweeping
  /\ sweeping' = FALSE
  /\ UNCHANGED <<engineVars, now, nextSweep, historyVars>>

\* A due timer callback is at most Latency late: the event loop is responsive.
Advance ==
  /\ now < Horizon + WatchTimeout + SweepInterval + Latency
  /\ sweeping => now < nextSweep + Latency
  /\ now' = now + 1
  /\ UNCHANGED <<engineVars, nextSweep, sweeping, historyVars>>

Next ==
  \/ \E id \in Ids, kind \in Outcomes : CloseExchange(id, kind)
  \/ \E id \in Ids : DecodePayment(id)
  \/ \E t \in Transfers : DeliverTransfer(t)
  \/ IntervalSweep
  \/ Tick
  \/ Close
  \/ Advance

Spec == Init /\ [][Next]_vars
----------------------------------------------------------------------------
\* What the engine promises.

Complete(id) == Closed(id) /\ id \in decoded
WorthWatching(id) == Complete(id) /\ closedAs[id] # "paid"
Verdicts(id) == {results[id][k] : k \in DOMAIN results[id]}

\* Whatever the order the two halves arrive in, an exchange that is complete
\* and not paid is in exactly one place: pending, or resolved by exactly one
\* result.  No other exchange is ever pending or reported
\* (engine.ts promote, ingestProxyEvent, ingestDecoderEvent, sweep).
Accounted ==
  \A id \in Ids :
    Len(results[id]) + (IF id \in DOMAIN pending THEN 1 ELSE 0)
      = (IF WorthWatching(id) THEN 1 ELSE 0)

\* A verdict is justified by what the engine saw: a transfer verdict names a
\* transfer delivered while the exchange was pending, and "settled_on_chain" is
\* given exactly when payer, payee, value and nonce all agree; "not_settled"
\* only after the whole watch timeout (match.ts and the two emitters).
FourTupleAgrees(auth, t) ==
  /\ t.nonce # NoNonce
  /\ <<Lower[auth.nonce], Lower[auth.from], Lower[auth.to], BigInt[auth.value]>>
       = <<Lower[t.nonce], Lower[t.from], Lower[t.to], t.value>>
Justified(id, r) ==
  IF r.kind = "not_settled"
  THEN r.at - r.pending.addedAt >= WatchTimeout
  ELSE /\ r.onChain \in seen[id]
       /\ SameAuthorization(Auth[id], r.onChain)
       /\ (r.kind = "settled_on_chain") <=> FourTupleAgrees(Auth[id], r.onChain)
VerdictsJustified == \A id \in Ids : \A r \in Verdicts(id) : Justified(id, r)

\* If a transfer carrying an exchange's nonce and payer was handed over while
\* the exchange was pending, the exchange may stay unresolved, or be given up
\* as not_settled, only for one of two reasons: that transfer went to another
\* exchange that carries the same authorization (a client that retried its
\* X-PAYMENT), or the engine stopped with an exception before it came to this
\* exchange, at one that had waited at least as long (or this one itself),
\* whose header holds a value BigInt() cannot read (match.ts, engine.ts
\* ingestChainTransfer: the transfer is then lost to every exchange).
UnresolvedByTransfer(id) ==
  id \in DOMAIN pending \/ \E r \in Verdicts(id) : r.kind = "not_settled"
Entries(id) ==
  {pending[o] : o \in DOMAIN pending \intersect {id}} \union {r.pending : r \in Verdicts(id)}
TakenByAnother(id, t) == \E other \in Ids \ {id} : \E r \in Verdicts(other) : r.onChain = t
LostToException(id, t) ==
  \E other \in Ids :
    /\ t \in seen[other] /\ MatchKind(Auth[other], t) = "throws"
    /\ \E p \in Entries(other), q \in Entries(id) : p.rank <= q.rank
NoTransferWasted ==
  \A id \in Ids : \A t \in seen[id] :
    UnresolvedByTransfer(id) /\ SameAuthorization(Auth[id], t)
      => TakenByAnother(id, t) \/ LostToException(id, t)

\* Among exchanges that carry one authorization, a transfer goes to the one
\* that has been pending longest: a younger one is never resolved by a transfer
\* while an older one still waits (the Map's iteration order).
OldestFirst ==
  \A id, other \in Ids :
    \A r \in Verdicts(other) :
      id \in DOMAIN pending /\ r.onChain # NoTransfer
        => (SameAuthorization(Auth[id], r.onChain)
              => r.pending.rank < pending[id].rank)

\* While the interval runs, no exchange is held, and no verdict is delayed,
\* for WatchTimeout + SweepInterval + Latency or longer (sweep's cutoff).
HoldBound == WatchTimeout + SweepInterval + Latency
HeldBounded ==
  sweeping =>
    /\ \A id \in DOMAIN pending : now - pending[id].addedAt < HoldBound
    /\ \A id \in Ids : \A r \in Verdicts(id) :
         r.at - r.pending.addedAt < HoldBound

\* The inductive strengthening the proofs use.  A half-joined exchange has
\* exactly one half, the one that was ingested; insertion ranks order the
\* exchanges that were ever watched; every time stamp is in the past; and only
\* a watched exchange has seen a transfer.
OutcomeOf(id) == IF Closed(id) THEN closedAs[id] ELSE NoOutcome
HalvesRecorded ==
  \A id \in Ids :
    /\ id \in DOMAIN partial <=> (Closed(id) <=> id \notin decoded)
    /\ id \in DOMAIN partial =>
         /\ partial[id].payment <=> id \in decoded
         /\ partial[id].outcome = OutcomeOf(id)
TimesPast ==
  \A id \in Ids :
    /\ id \in DOMAIN pending => pending[id].addedAt <= now
    /\ \A r \in Verdicts(id) : r.pending.addedAt <= r.at /\ r.at <= now
VerdictRanksOrdered ==
  \A id \in Ids : \A r \in Verdicts(id) :
    /\ r.pending.rank < inserted
    /\ \A other \in DOMAIN pending : pending[other].rank # r.pending.rank
SeenOnlyWatched == \A id \in Ids : seen[id] # {} => WorthWatching(id)
Inductive ==
  /\ TypeOK
  /\ HalvesRecorded
  /\ Accounted
  /\ RanksOrdered
  /\ VerdictRanksOrdered
  /\ TimesPast
  /\ SeenOnlyWatched

\* The engine implements the lifecycle of module ExchangeWatch: the two Maps
\* and the emitted results determine where each exchange is in it.
StatusOf(id) ==
  IF results[id] # <<>> THEN results[id][1].kind
  ELSE IF id \in DOMAIN pending THEN "watched"
  ELSE IF Complete(id) THEN "ignored" ELSE "joining"
SinceOf(id) ==
  IF results[id] # <<>> THEN results[id][1].pending.addedAt
  ELSE IF id \in DOMAIN pending THEN pending[id].addedAt ELSE 0
Watch == INSTANCE ExchangeWatch WITH
  status <- [id \in Ids |-> StatusOf(id)],
  since <- [id \in Ids |-> SinceOf(id)],
  clock <- now
ImplementsExchangeWatch == Watch!Spec

\* The headline promise read literally (reconciliation/types.ts, lines 12-15):
\* "For every exchange whose facilitator outcome was failed-but-the-underlying-
\* tx-might-have-settled" the engine says what the chain says.  An exchange
\* whose exact transfer was delivered is then never reported as not_settled.
ChainSaysYes ==
  \A id \in Ids : \A t \in Transfers :
    delivered[t] > 0 /\ FourTupleAgrees(Auth[id], t)
      => \A r \in Verdicts(id) : r.kind # "not_settled"
============================================================================
