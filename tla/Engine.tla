------------------------------- MODULE Engine ------------------------------
(***************************************************************************)
(* The state and the handlers of the reconciliation engine                 *)
(* (src/reconciliation/engine.ts), with nobody calling them.               *)
(*                                                                         *)
(* The engine joins two halves of every exchange, the decoded payment and  *)
(* the outcome the proxy observed, in the Map `partial`; a complete        *)
(* exchange whose outcome is not "paid" moves to the Map `pending`, where  *)
(* an on-chain transfer resolves it or the sweep gives up on it.           *)
(* Modules Reconciliation, Replay and LivePipeline call the handlers.      *)
(***************************************************************************)
EXTENDS TransferMatch, Sequences, Functions

CONSTANTS
  Ids,            \* exchange ids
  NoTransfer,     \* the onChain of a not_settled result
  Auth,           \* the authorization each exchange's payment header carries
  Transfers,      \* the on-chain transfers the chain client may deliver
  WatchTimeout    \* watchTimeoutMs, in ticks of the engine's clock

OutcomeKinds == {"paid", "rejected", "upstream_timeout", "unknown"}
NoOutcome == "none"

ASSUME AuthAssumption == Auth \in [Ids -> Authorization]
ASSUME TransfersAssumption == Transfers \subseteq ChainTransfer
ASSUME NoTransferAssumption == NoTransfer \notin Transfers
ASSUME WatchTimeoutAssumption == WatchTimeout \in Nat

VARIABLES
  partial,     \* Map: id -> the half-joined exchange
  pending,     \* Map: id -> the exchange awaiting its transfer
  inserted,    \* pending.set calls so far: a Map iterates in insertion order
  results,     \* per exchange, the results emitted for it
  now          \* opts.now(), Date.now in production

engineVars == <<partial, pending, inserted, results>>

\* A Map from some exchange ids, Map.set and Map.delete.
IsMap(map, Values) == DOMAIN map \subseteq Ids /\ map \in [DOMAIN map -> Values]
Put(map, key, value) ==
  [k \in DOMAIN map \union {key} |-> IF k = key THEN value ELSE map[k]]
Delete(map, keys) == Restrict(map, DOMAIN map \ keys)

Half == [payment : BOOLEAN, outcome : OutcomeKinds \union {NoOutcome}]
Pending == [addedAt : Nat, rank : Nat, outcomeKind : OutcomeKinds \ {"paid"}]
ResultKinds ==
  {"settled_on_chain", "not_settled", "value_mismatch", "recipient_mismatch"}
Result == [kind : ResultKinds, at : Nat, pending : Pending,
           onChain : Transfers \union {NoTransfer}]

EngineTypeOK ==
  /\ IsMap(partial, Half)
  /\ IsMap(pending, Pending)
  /\ inserted \in Nat
  /\ results \in [Ids -> Seq(Result)]
  /\ now \in Nat

EngineInit ==
  /\ partial = [i \in {} |-> {}]
  /\ pending = [i \in {} |-> {}]
  /\ inserted = 0
  /\ results = [i \in Ids |-> <<>>]
  /\ now = 0
----------------------------------------------------------------------------
\* The engine's handlers.

HalfOf(id) ==
  IF id \in DOMAIN partial
  THEN partial[id] ELSE [payment |-> FALSE, outcome |-> NoOutcome]

\* Map.set leaves a key that is already in the Map at its place.
PlaceOf(id) == IF id \in DOMAIN pending THEN pending[id].rank ELSE inserted

\* Slip (a faulty variant the checks must catch): "paid" is not set apart.
PromotePaidToo(id, half) ==
  \/ /\ ~half.payment \/ half.outcome = NoOutcome
     /\ partial' = Put(partial, id, half)
     /\ UNCHANGED <<pending, inserted>>
  \/ /\ half.payment /\ half.outcome # NoOutcome
     /\ pending' = Put(pending, id, [addedAt |-> now, rank |-> PlaceOf(id),
                                     outcomeKind |-> half.outcome])
     /\ inserted' = inserted + 1
     /\ partial' = Delete(partial, {id})

\* partial.set(id, half) followed by promote(id).
Promote(id, half) ==
  \/ /\ ~half.payment \/ half.outcome = NoOutcome
     /\ partial' = Put(partial, id, half)
     /\ UNCHANGED <<pending, inserted>>
  \/ /\ half.payment /\ half.outcome = "paid"
     /\ partial' = Delete(partial, {id})
     /\ UNCHANGED <<pending, inserted>>
  \/ /\ half.payment /\ half.outcome \notin {NoOutcome, "paid"}
     /\ pending' = Put(pending, id, [addedAt |-> now, rank |-> PlaceOf(id),
                                     outcomeKind |-> half.outcome])
     /\ inserted' = inserted + 1
     /\ partial' = Delete(partial, {id})

\* Slip: the outcome starts a new half instead of completing the old one.
ProxyEventForgetsPayment(id, kind) ==
  /\ Promote(id, [payment |-> FALSE, outcome |-> kind])
  /\ UNCHANGED results

\* An `exchange.closed` event.
IngestProxyEvent(id, kind) ==
  /\ Promote(id, [payment |-> HalfOf(id).payment, outcome |-> kind])
  /\ UNCHANGED results

\* Slip: the payment starts a new half instead of completing the old one.
DecoderEventForgetsOutcome(id) ==
  /\ Promote(id, [payment |-> TRUE, outcome |-> NoOutcome])
  /\ UNCHANGED results

\* An `exchange.payment` event.
IngestDecoderEvent(id) ==
  /\ Promote(id, [payment |-> TRUE, outcome |-> HalfOf(id).outcome])
  /\ UNCHANGED results

\* The exchanges the loop over `pending` would stop at, and the first of them.
Candidates(t) == {id \in DOMAIN pending : MatchKind(Auth[id], t) # "no_match"}
\* Slip: the loop runs over `pending` from its newest entry.
IsNewest(id, ids) ==
  \A other \in ids : pending[id].rank >= pending[other].rank
IsOldest(id, ids) ==
  \A other \in ids : pending[id].rank <= pending[other].rank
Throws(t) ==
  \E id \in Candidates(t) :
    IsOldest(id, Candidates(t)) /\ MatchKind(Auth[id], t) = "throws"

ResultKindOf(match) == IF match = "exact" THEN "settled_on_chain" ELSE match
ResultFor(id, kind, t) ==
  [kind |-> kind, at |-> now, pending |-> pending[id], onChain |-> t]

\* Slip: the resolved exchange stays in `pending`.
ChainTransferKeepsPending(t) ==
  /\ \/ /\ Candidates(t) = {} \/ Throws(t)
        /\ UNCHANGED results
     \/ /\ ~Throws(t)
        /\ \E id \in Candidates(t) :
             /\ IsOldest(id, Candidates(t))
             /\ results' = [results EXCEPT ![id] = Append(@,
                  ResultFor(id, ResultKindOf(MatchKind(Auth[id], t)), t))]
  /\ UNCHANGED <<partial, pending, inserted>>

\* The loop stops at the first candidate and resolves it, unless comparing
\* the values throws; a call that throws changes nothing.
IngestChainTransfer(t) ==
  /\ \/ /\ Candidates(t) = {} \/ Throws(t)
        /\ UNCHANGED <<pending, results>>
     \/ /\ ~Throws(t)
        /\ \E id \in Candidates(t) :
             /\ IsOldest(id, Candidates(t))
             /\ results' = [results EXCEPT ![id] = Append(@,
                  ResultFor(id, ResultKindOf(MatchKind(Auth[id], t)), t))]
             /\ pending' = Delete(pending, {id})
  /\ UNCHANGED <<partial, inserted>>

\* Slips: the cutoff compared with `<`, and the timeout one tick short.
ExpiredStrictly == {id \in DOMAIN pending : pending[id].addedAt < now - WatchTimeout}
ExpiredEarly == {id \in DOMAIN pending : pending[id].addedAt <= now - WatchTimeout + 1}
Expired == {id \in DOMAIN pending : pending[id].addedAt <= now - WatchTimeout}

\* Slip: expired exchanges are deleted without a result.
SweepSilently ==
  /\ pending' = Delete(pending, Expired)
  /\ UNCHANGED <<partial, inserted, results>>

\* The interval callback, which is also the public tick().
Sweep ==
  /\ results' = [id \in Ids |->
                   IF id \in Expired
                   THEN Append(results[id], ResultFor(id, "not_settled", NoTransfer))
                   ELSE results[id]]
  /\ pending' = Delete(pending, Expired)
  /\ UNCHANGED <<partial, inserted>>
----------------------------------------------------------------------------
\* No two pending exchanges were inserted at the same place.
RanksOrdered ==
  \A id, other \in Ids :
    /\ id \in DOMAIN pending => pending[id].rank < inserted
    /\ id \in DOMAIN pending /\ other \in DOMAIN pending /\ id # other
         => pending[id].rank # pending[other].rank
============================================================================
