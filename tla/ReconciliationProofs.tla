----------------------- MODULE ReconciliationProofs ------------------------
(***************************************************************************)
(* Proofs about the reconciliation engine: type correctness, the inductive *)
(* invariant, and that verdicts are justified, no transfer is wasted, the  *)
(* oldest exchange gets it, no exchange is held too long, and each goes    *)
(* through the lifecycle of ExchangeWatch; for every set of exchanges,     *)
(* authorizations and transfers and every timing.                          *)
(***************************************************************************)
EXTENDS Reconciliation, ResultStream, SubscriberProofs

----------------------------------------------------------------------------
\* The match function: it never says no_match to a transfer about the
\* authorization, and "exact" is equality of the four-tuple.
LEMMA MatchFacts ==
  ASSUME NEW auth \in Authorization, NEW t \in ChainTransfer
  PROVE  /\ MatchKind(auth, t) \in MatchKinds
         /\ MatchKind(auth, t) # "no_match" <=> SameAuthorization(auth, t)
         /\ MatchKind(auth, t) = "exact" <=> FourTupleAgrees(auth, t)
<1>1. CASE ~SameAuthorization(auth, t)
  BY <1>1 DEF MatchKind, MatchKinds, SameAuthorization, FourTupleAgrees,
              SameText
<1>2. CASE SameAuthorization(auth, t) /\ ~SameText(auth.to, t.to)
  BY <1>2 DEF MatchKind, MatchKinds, FourTupleAgrees, SameText
<1>3. CASE SameAuthorization(auth, t) /\ SameText(auth.to, t.to)
  <2>1. t.value # NotANumber
    BY BigIntAssumption DEF ChainTransfer
  <2>2. FourTupleAgrees(auth, t) <=> BigInt[auth.value] = t.value
    BY <1>3 DEF FourTupleAgrees, SameAuthorization, SameText
  <2> QED
    BY <1>3, <2>1, <2>2 DEF MatchKind, MatchKinds
<1> QED
  BY <1>1, <1>2, <1>3

\* A verdict the chain loop emits is one of the four result kinds, and not
\* the one of the sweep.
LEMMA ResultKindFacts ==
  ASSUME NEW auth \in Authorization, NEW t \in ChainTransfer,
         SameAuthorization(auth, t), MatchKind(auth, t) # "throws"
  PROVE  /\ ResultKindOf(MatchKind(auth, t)) \in ResultKinds \ {"not_settled"}
         /\ ResultKindOf(MatchKind(auth, t)) = "settled_on_chain"
              <=> FourTupleAgrees(auth, t)
BY MatchFacts DEF MatchKinds, ResultKindOf, ResultKinds

LEMMA PutMap ==
  ASSUME NEW V, NEW map, IsMap(map, V), NEW id \in Ids, NEW v \in V
  PROVE  /\ IsMap(Put(map, id, v), V)
         /\ DOMAIN Put(map, id, v) = DOMAIN map \union {id}
         /\ Put(map, id, v)[id] = v
         /\ \A k \in DOMAIN map \ {id} : Put(map, id, v)[k] = map[k]
BY DEF IsMap, Put

LEMMA DeleteMap ==
  ASSUME NEW V, NEW map, IsMap(map, V), NEW keys
  PROVE  /\ IsMap(Delete(map, keys), V)
         /\ DOMAIN Delete(map, keys) = DOMAIN map \ keys
         /\ \A k \in DOMAIN map \ keys : Delete(map, keys)[k] = map[k]
BY DEF IsMap, Delete, Restrict

----------------------------------------------------------------------------
\* Type correctness.

LEMMA HalfTyped ==
  ASSUME EngineTypeOK, NEW id \in Ids
  PROVE  HalfOf(id) \in Half
BY DEF EngineTypeOK, IsMap, HalfOf, Half

LEMMA PromoteTyped ==
  ASSUME EngineTypeOK, NEW id \in Ids, NEW half \in Half, Promote(id, half)
  PROVE  /\ IsMap(partial', Half)
         /\ IsMap(pending', Pending)
         /\ inserted' \in Nat
<1>1. CASE ~half.payment \/ half.outcome = NoOutcome
  <2>1. partial' = Put(partial, id, half) /\ UNCHANGED <<pending, inserted>>
    BY <1>1 DEF Promote, Half, NoOutcome
  <2>2. IsMap(Put(partial, id, half), Half)
    BY PutMap DEF EngineTypeOK
  <2> QED
    BY <2>1, <2>2 DEF EngineTypeOK
<1>2. CASE half.payment /\ half.outcome = "paid"
  <2>1. partial' = Delete(partial, {id}) /\ UNCHANGED <<pending, inserted>>
    BY <1>2 DEF Promote, NoOutcome
  <2>2. IsMap(Delete(partial, {id}), Half)
    BY DeleteMap DEF EngineTypeOK
  <2> QED
    BY <2>1, <2>2 DEF EngineTypeOK
<1>3. CASE half.payment /\ half.outcome \notin {NoOutcome, "paid"}
  <2> DEFINE entry == [addedAt |-> now, rank |-> PlaceOf(id),
                       outcomeKind |-> half.outcome]
  <2>1. /\ pending' = Put(pending, id, entry)
        /\ inserted' = inserted + 1
        /\ partial' = Delete(partial, {id})
    BY <1>3 DEF Promote
  <2>2. entry \in Pending
    BY <1>3 DEF EngineTypeOK, IsMap, Half, Pending, PlaceOf
  <2>3. IsMap(Put(pending, id, entry), Pending)
    BY <2>2, PutMap DEF EngineTypeOK
  <2>4. IsMap(Delete(partial, {id}), Half)
    BY DeleteMap DEF EngineTypeOK
  <2> QED
    BY <2>1, <2>3, <2>4 DEF EngineTypeOK
<1> QED
  BY <1>1, <1>2, <1>3 DEF Half

LEMMA ResultTyped ==
  ASSUME EngineTypeOK, NEW id \in DOMAIN pending, NEW kind \in ResultKinds,
         NEW t \in Transfers \union {NoTransfer}
  PROVE  ResultFor(id, kind, t) \in Result
BY DEF EngineTypeOK, IsMap, ResultFor, Result

\* The transfer the loop resolves, when it resolves one.
LEMMA CandidateFacts ==
  ASSUME EngineTypeOK, NEW t \in Transfers, NEW id \in Candidates(t)
  PROVE  /\ id \in DOMAIN pending /\ id \in Ids
         /\ Auth[id] \in Authorization /\ t \in ChainTransfer
         /\ SameAuthorization(Auth[id], t)
BY AuthAssumption, TransfersAssumption, MatchFacts
   DEF EngineTypeOK, IsMap, Candidates

LEMMA TransferTyped ==
  ASSUME EngineTypeOK, NEW t \in Transfers, IngestChainTransfer(t)
  PROVE  IsMap(pending', Pending) /\ results' \in [Ids -> Seq(Result)]
<1> USE DEF EngineTypeOK
<1>1. CASE UNCHANGED <<pending, results>>
  BY <1>1
<1>2. ASSUME NEW id \in Candidates(t),
             IsOldest(id, Candidates(t)), ~Throws(t),
             results' = [results EXCEPT ![id] = Append(@,
               ResultFor(id, ResultKindOf(MatchKind(Auth[id], t)), t))],
             pending' = Delete(pending, {id})
      PROVE  IsMap(pending', Pending) /\ results' \in [Ids -> Seq(Result)]
  <2>1. MatchKind(Auth[id], t) # "throws"
    BY <1>2 DEF Throws
  <2>2. ResultFor(id, ResultKindOf(MatchKind(Auth[id], t)), t) \in Result
    BY <2>1, CandidateFacts, ResultKindFacts, ResultTyped
  <2>3. IsMap(pending', Pending)
    BY <1>2, DeleteMap
  <2>4. id \in Ids /\ results[id] \in Seq(Result)
    BY CandidateFacts
  <2>5. Append(results[id], ResultFor(id, ResultKindOf(MatchKind(Auth[id], t)), t))
          \in Seq(Result)
    BY <2>2, <2>4
  <2> QED
    BY <1>2, <2>3, <2>5
<1> QED
  BY <1>1, <1>2 DEF IngestChainTransfer

LEMMA SweepTyped ==
  ASSUME EngineTypeOK, Sweep
  PROVE  IsMap(pending', Pending) /\ results' \in [Ids -> Seq(Result)]
<1>1. \A id \in Expired : ResultFor(id, "not_settled", NoTransfer) \in Result
  BY ResultTyped DEF Expired, ResultKinds
<1>2. results' \in [Ids -> Seq(Result)]
  BY <1>1 DEF Sweep, EngineTypeOK
<1> QED
  BY <1>2, DeleteMap DEF Sweep, EngineTypeOK

LEMMA TypeStep ==
  ASSUME TypeOK, [Next]_vars
  PROVE  TypeOK'
<1> USE DEF TypeOK, EngineTypeOK
<1>1. ASSUME NEW id \in Ids, NEW kind \in Outcomes, CloseExchange(id, kind)
      PROVE  TypeOK'
  <2>1. [payment |-> HalfOf(id).payment, outcome |-> kind] \in Half
    BY HalfTyped, OutcomesAssumption DEF Half, TypeOK
  <2>2. /\ IsMap(partial', Half)
        /\ IsMap(pending', Pending)
        /\ inserted' \in Nat
    BY <1>1, <2>1, PromoteTyped DEF CloseExchange, IngestProxyEvent, TypeOK
  <2>3. IsMap(closedAs', Outcomes)
    BY <1>1, PutMap DEF CloseExchange
  <2> QED
    BY <1>1, <2>2, <2>3
       DEF CloseExchange, IngestProxyEvent, timerVars
<1>2. ASSUME NEW id \in Ids, DecodePayment(id)
      PROVE  TypeOK'
  <2>1. [payment |-> TRUE, outcome |-> HalfOf(id).outcome] \in Half
    BY HalfTyped DEF Half, TypeOK
  <2>2. /\ IsMap(partial', Half)
        /\ IsMap(pending', Pending)
        /\ inserted' \in Nat
    BY <1>2, <2>1, PromoteTyped DEF DecodePayment, IngestDecoderEvent, TypeOK
  <2> QED
    BY <1>2, <2>2 DEF DecodePayment, IngestDecoderEvent, timerVars
<1>3. ASSUME NEW t \in Transfers, DeliverTransfer(t)
      PROVE  TypeOK'
  <2>1. /\ delivered' \in [Transfers -> 0..MaxDeliveries]
        /\ seen' \in [Ids -> SUBSET Transfers]
        /\ UNCHANGED <<partial, inserted, timerVars, closedAs, decoded>>
    BY <1>3, TimeAssumption DEF DeliverTransfer, IngestChainTransfer
  <2>2. IsMap(pending', Pending) /\ results' \in [Ids -> Seq(Result)]
    BY <1>3, TransferTyped DEF DeliverTransfer
  <2> QED
    BY <2>1, <2>2 DEF timerVars
<1>4. ASSUME Sweep, UNCHANGED historyVars, UNCHANGED <<now, sweeping>>,
             nextSweep' \in Nat
      PROVE  TypeOK'
  <2>1. IsMap(pending', Pending) /\ results' \in [Ids -> Seq(Result)]
    BY <1>4, SweepTyped
  <2> QED
    BY <1>4, <2>1 DEF Sweep, historyVars
<1>5. ASSUME IntervalSweep
      PROVE  TypeOK'
  BY <1>4, <1>5, TimeAssumption DEF IntervalSweep
<1>6. ASSUME Tick
      PROVE  TypeOK'
  BY <1>4, <1>6 DEF Tick, timerVars
<1>7. ASSUME Close
      PROVE  TypeOK'
  BY <1>7 DEF Close, engineVars, historyVars
<1>8. ASSUME Advance
      PROVE  TypeOK'
  BY <1>8 DEF Advance, engineVars, historyVars
<1>9. CASE UNCHANGED vars
  BY <1>9 DEF vars, engineVars, timerVars, historyVars
<1> QED
  BY <1>1, <1>2, <1>3, <1>5, <1>6, <1>7, <1>8, <1>9 DEF Next

LEMMA TypeInit == Init => TypeOK
BY TimeAssumption DEF Init, EngineInit, TypeOK, EngineTypeOK, IsMap

\* The engine's Maps, results, timer and clock always have their types.
THEOREM TypeCorrect == Spec => []TypeOK
<1>1. Init => TypeOK
  BY TypeInit
<1>2. TypeOK /\ [Next]_vars => TypeOK'
  BY TypeStep
<1> QED
  BY <1>1, <1>2, PTL DEF Spec
----------------------------------------------------------------------------
\* The inductive invariant.

\* An exchange without a verdict has an empty result sequence, and the other
\* way round; an exchange that is not worth watching is in neither place.
LEMMA Placement ==
  ASSUME TypeOK, Accounted, NEW id \in Ids
  PROVE  /\ results[id] \in Seq(Result) /\ Len(results[id]) \in Nat
         /\ id \in DOMAIN pending => WorthWatching(id) /\ results[id] = <<>>
         /\ ~WorthWatching(id) => id \notin DOMAIN pending /\ results[id] = <<>>
         /\ WorthWatching(id) /\ id \notin DOMAIN pending => Len(results[id]) = 1
<1>1. results[id] \in Seq(Result) /\ Len(results[id]) \in Nat
  BY DEF TypeOK, EngineTypeOK
<1>2. Len(results[id]) = 0 => results[id] = <<>>
  BY <1>1
<1> DEFINE n == Len(results[id])
<1>3. n + (IF id \in DOMAIN pending THEN 1 ELSE 0)
        = (IF WorthWatching(id) THEN 1 ELSE 0)
  BY DEF Accounted
<1>4. n \in Nat /\ (n = 0 => results[id] = <<>>)
  BY <1>1, <1>2
<1>5. /\ id \in DOMAIN pending => WorthWatching(id) /\ n = 0
      /\ ~WorthWatching(id) => id \notin DOMAIN pending /\ n = 0
      /\ WorthWatching(id) /\ id \notin DOMAIN pending => n = 1
  <2> HIDE DEF n
  <2> QED
    BY <1>3, <1>4
<1> QED
  BY <1>1, <1>4, <1>5

LEMMA NoVerdicts ==
  ASSUME NEW id, results[id] = <<>>
  PROVE  Verdicts(id) = {}
BY DEF Verdicts

LEMMA VerdictTyped ==
  ASSUME TypeOK, NEW id \in Ids, NEW r \in Verdicts(id)
  PROVE  r \in Result
<1>1. results[id] \in Seq(Result)
  BY DEF TypeOK, EngineTypeOK
<1> QED
  BY <1>1 DEF Verdicts

\* What promote() leaves behind, case by case.
LEMMA PromoteEffect ==
  ASSUME EngineTypeOK, NEW id \in Ids, NEW half \in Half, Promote(id, half)
  PROVE  /\ DOMAIN pending' \subseteq DOMAIN pending \union {id}
         /\ \A o \in Ids \ {id} :
              /\ o \in DOMAIN partial' <=> o \in DOMAIN partial
              /\ o \in DOMAIN partial => partial'[o] = partial[o]
              /\ o \in DOMAIN pending' <=> o \in DOMAIN pending
              /\ o \in DOMAIN pending => pending'[o] = pending[o]
         /\ inserted' \in Nat /\ inserted <= inserted'
         /\ ~half.payment \/ half.outcome = NoOutcome =>
              /\ id \in DOMAIN partial' /\ partial'[id] = half
              /\ UNCHANGED <<pending, inserted>>
         /\ half.payment /\ half.outcome # NoOutcome => id \notin DOMAIN partial'
         /\ half.payment /\ half.outcome = "paid" => UNCHANGED <<pending, inserted>>
         /\ half.payment /\ half.outcome \notin {NoOutcome, "paid"} =>
              /\ id \in DOMAIN pending'
              /\ pending'[id].addedAt = now
              /\ pending'[id].rank = PlaceOf(id)
              /\ inserted' = inserted + 1
<1> DEFINE entry == [addedAt |-> now, rank |-> PlaceOf(id),
                     outcomeKind |-> half.outcome]
<1>1. CASE ~half.payment \/ half.outcome = NoOutcome
  <2>1. partial' = Put(partial, id, half) /\ UNCHANGED <<pending, inserted>>
    BY <1>1 DEF Promote, Half, NoOutcome
  <2>2. /\ DOMAIN partial' = DOMAIN partial \union {id}
        /\ partial'[id] = half
        /\ \A k \in DOMAIN partial \ {id} : partial'[k] = partial[k]
    BY <2>1 DEF Put
  <2>3. inserted' \in Nat /\ inserted <= inserted'
    BY <2>1 DEF EngineTypeOK
  <2> QED
    BY <1>1, <2>1, <2>2, <2>3
<1>2. CASE half.payment /\ half.outcome = "paid"
  <2>1. partial' = Delete(partial, {id}) /\ UNCHANGED <<pending, inserted>>
    BY <1>2 DEF Promote, NoOutcome
  <2>2. /\ DOMAIN partial' = DOMAIN partial \ {id}
        /\ \A k \in DOMAIN partial \ {id} : partial'[k] = partial[k]
    BY <2>1 DEF Delete, Restrict
  <2>3. inserted' \in Nat /\ inserted <= inserted'
    BY <2>1 DEF EngineTypeOK
  <2> QED
    BY <1>2, <2>1, <2>2, <2>3 DEF NoOutcome
<1>3. CASE half.payment /\ half.outcome \notin {NoOutcome, "paid"}
  <2>1. /\ pending' = Put(pending, id, entry)
        /\ inserted' = inserted + 1
        /\ partial' = Delete(partial, {id})
    BY <1>3 DEF Promote
  <2>2. /\ DOMAIN partial' = DOMAIN partial \ {id}
        /\ \A k \in DOMAIN partial \ {id} : partial'[k] = partial[k]
    BY <2>1 DEF Delete, Restrict
  <2>3. /\ DOMAIN pending' = DOMAIN pending \union {id}
        /\ pending'[id] = entry
        /\ \A k \in DOMAIN pending \ {id} : pending'[k] = pending[k]
    BY <2>1 DEF Put
  <2>4. inserted' \in Nat /\ inserted <= inserted'
    BY <2>1 DEF EngineTypeOK
  <2>5. pending'[id].addedAt = now /\ pending'[id].rank = PlaceOf(id)
    BY <2>3
  <2> QED
    BY <1>3, <2>1, <2>2, <2>3, <2>4, <2>5
<1> QED
  BY <1>1, <1>2, <1>3 DEF Half

\* A half arrives for an exchange that is not yet complete: the step common to
\* an exchange.closed and an exchange.payment event.
LEMMA JoinStep ==
  ASSUME Inductive, TypeOK', NEW id \in Ids, ~Complete(id), NEW half \in Half,
         Promote(id, half), UNCHANGED <<results, now, seen>>,
         half.payment <=> id \in decoded', half.outcome = OutcomeOf(id)',
         Closed(id)' \/ id \in decoded',
         \A o \in Ids \ {id} :
           /\ Closed(o)' <=> Closed(o)
           /\ o \in decoded' <=> o \in decoded
           /\ OutcomeOf(o)' = OutcomeOf(o)
  PROVE  Inductive'
<1> USE DEF Inductive
<1>1. ~WorthWatching(id) /\ id \notin DOMAIN pending /\ results[id] = <<>>
  BY Placement DEF WorthWatching
<1>2. seen[id] = {}
  BY <1>1 DEF SeenOnlyWatched
<1>3. OutcomeOf(id)' = NoOutcome <=> ~Closed(id)'
  BY OutcomesAssumption DEF OutcomeOf, TypeOK, EngineTypeOK, IsMap, Closed, OutcomeKinds, NoOutcome
<1>4. \A o \in Ids \ {id} : WorthWatching(o)' <=> WorthWatching(o)
  BY DEF WorthWatching, Complete, OutcomeOf, Closed
<1>5. WorthWatching(id)' <=> half.payment /\ half.outcome \notin {NoOutcome, "paid"}
  BY <1>3 DEF WorthWatching, Complete, OutcomeOf, Closed, NoOutcome
<1>6. \A o \in Ids : Verdicts(o)' = Verdicts(o)
  BY DEF Verdicts
<1>7. HalvesRecorded'
  <2>1. ASSUME NEW o \in Ids \ {id}
        PROVE  /\ o \in DOMAIN partial' <=> (Closed(o)' <=> o \notin decoded')
               /\ o \in DOMAIN partial' =>
                    /\ partial'[o].payment <=> o \in decoded'
                    /\ partial'[o].outcome = OutcomeOf(o)'
    BY <2>1, PromoteEffect DEF HalvesRecorded, TypeOK
  <2>2. /\ id \in DOMAIN partial' <=> (Closed(id)' <=> id \notin decoded')
        /\ id \in DOMAIN partial' =>
             /\ partial'[id].payment <=> id \in decoded'
             /\ partial'[id].outcome = OutcomeOf(id)'
    <3>1. CASE ~half.payment \/ half.outcome = NoOutcome
      BY <1>3, <3>1, PromoteEffect DEF TypeOK
    <3>2. CASE half.payment /\ half.outcome # NoOutcome
      BY <1>3, <3>2, PromoteEffect DEF TypeOK
    <3> QED
      BY <3>1, <3>2
  <2> QED
    BY <2>1, <2>2 DEF HalvesRecorded
<1>8. Accounted'
  <2>1. ASSUME NEW o \in Ids \ {id}
        PROVE  Len(results'[o]) + (IF o \in DOMAIN pending' THEN 1 ELSE 0)
                 = (IF WorthWatching(o)' THEN 1 ELSE 0)
    <3>1. o \in DOMAIN pending' <=> o \in DOMAIN pending
      BY PromoteEffect DEF TypeOK
    <3> QED
      BY <1>4, <3>1 DEF Accounted
  <2>2. id \in DOMAIN pending' <=> WorthWatching(id)'
    BY <1>1, <1>5, PromoteEffect DEF Half, TypeOK
  <2>3. Len(results'[id]) = 0
    BY <1>1
  <2>4. Len(results'[id]) + (IF id \in DOMAIN pending' THEN 1 ELSE 0)
          = (IF WorthWatching(id)' THEN 1 ELSE 0)
    BY <2>2, <2>3
  <2> QED
    BY <2>1, <2>4 DEF Accounted
<1>9. \A o \in DOMAIN pending' :
        \/ o \in DOMAIN pending /\ pending'[o] = pending[o]
        \/ /\ o = id /\ pending'[o].addedAt = now /\ pending'[o].rank = inserted
           /\ inserted' = inserted + 1
  <2>1. CASE half.payment /\ half.outcome \notin {NoOutcome, "paid"}
    BY <1>1, <2>1, PromoteEffect DEF TypeOK, EngineTypeOK, IsMap, PlaceOf
  <2>2. CASE ~(half.payment /\ half.outcome \notin {NoOutcome, "paid"})
    BY <2>2, PromoteEffect DEF Half, TypeOK
  <2> QED
    BY <2>1, <2>2
<1>10. inserted' \in Nat /\ inserted <= inserted' /\ inserted \in Nat
  BY PromoteEffect DEF TypeOK, EngineTypeOK
<1>11. \A o \in DOMAIN pending :
         pending[o].rank \in Nat /\ pending[o].rank < inserted /\ o \in Ids
  BY DEF RanksOrdered, TypeOK, EngineTypeOK, IsMap, Pending
<1>12. RanksOrdered'
  BY <1>9, <1>10, <1>11 DEF RanksOrdered
<1>13. VerdictRanksOrdered'
  <2>1. ASSUME NEW o \in Ids, NEW r \in Verdicts(o)
        PROVE  /\ r.pending.rank < inserted'
               /\ \A other \in DOMAIN pending' : pending'[other].rank # r.pending.rank
    <3>1. /\ r.pending.rank < inserted
          /\ \A other \in DOMAIN pending : pending[other].rank # r.pending.rank
      BY DEF VerdictRanksOrdered
    <3>2. r.pending.rank \in Nat
      BY VerdictTyped DEF Result, Pending
    <3> QED
      BY <1>9, <1>10, <3>1, <3>2
  <2> QED
    BY <1>6, <2>1 DEF VerdictRanksOrdered
<1>14. TimesPast'
  BY <1>6, <1>9 DEF TimesPast, TypeOK, EngineTypeOK
<1>15. SeenOnlyWatched'
  BY <1>2, <1>4 DEF SeenOnlyWatched
<1> QED
  BY <1>7, <1>8, <1>12, <1>13, <1>14, <1>15

\* Exchanges in `gone` leave `pending`, each with its first result: the step
\* common to a matched transfer (one exchange) and a sweep (any number).
LEMMA ResolveStep ==
  ASSUME Inductive, TypeOK', NEW gone \in SUBSET DOMAIN pending,
         UNCHANGED <<partial, inserted, now, closedAs, decoded>>,
         pending' = Delete(pending, gone),
         \A id \in Ids \ gone : results'[id] = results[id],
         \A id \in gone : \E r : /\ results'[id] = Append(results[id], r)
                                 /\ r \in Result
                                 /\ r.pending = pending[id] /\ r.at = now,
         \A id \in Ids : seen'[id] # {} => seen[id] # {} \/ id \in DOMAIN pending
  PROVE  Inductive'
<1> USE DEF Inductive
<1>1. /\ DOMAIN pending' = DOMAIN pending \ gone
      /\ \A o \in DOMAIN pending' : pending'[o] = pending[o]
  BY DEF Delete, Restrict
<1>2. gone \subseteq Ids
  BY DEF TypeOK, EngineTypeOK, IsMap
<1>3. \A id \in Ids : WorthWatching(id)' <=> WorthWatching(id)
  BY DEF WorthWatching, Complete, Closed
<1>4. \A id \in Ids \ gone : Verdicts(id)' = Verdicts(id)
  BY DEF Verdicts
<1>5. \A id \in gone : /\ WorthWatching(id) /\ Len(results'[id]) = 1
                       /\ \A r \in Verdicts(id)' :
                            r \in Result /\ r.pending = pending[id] /\ r.at = now
  <2> TAKE id \in gone
  <2>1. WorthWatching(id) /\ results[id] = <<>>
    BY <1>2, Placement
  <2>2. PICK r : /\ results'[id] = Append(results[id], r)
                 /\ r \in Result
                 /\ r.pending = pending[id] /\ r.at = now
    OBVIOUS
  <2>3. results'[id] = <<r>>
    BY <2>1, <2>2
  <2>4. Verdicts(id)' = {r}
    BY <2>3 DEF Verdicts
  <2> QED
    BY <2>1, <2>2, <2>3, <2>4
<1>6. HalvesRecorded'
  BY DEF HalvesRecorded, OutcomeOf, Closed
<1>7. Accounted'
  <2>1. ASSUME NEW id \in Ids
        PROVE  Len(results'[id]) + (IF id \in DOMAIN pending' THEN 1 ELSE 0)
                 = (IF WorthWatching(id)' THEN 1 ELSE 0)
    <3>1. CASE id \in gone
      <4>1. id \notin DOMAIN pending' /\ WorthWatching(id)' /\ Len(results'[id]) = 1
        BY <1>1, <1>3, <1>5, <3>1
      <4> QED
        BY <4>1
    <3>2. CASE id \notin gone
      <4>1. (id \in DOMAIN pending' <=> id \in DOMAIN pending)
              /\ results'[id] = results[id]
        BY <1>1, <3>2
      <4> QED
        BY <1>3, <4>1 DEF Accounted
    <3> QED
      BY <3>1, <3>2
  <2> QED
    BY <2>1 DEF Accounted
<1>8. RanksOrdered'
  BY <1>1 DEF RanksOrdered
<1>9. VerdictRanksOrdered'
  <2>1. ASSUME NEW id \in Ids, NEW r \in Verdicts(id)'
        PROVE  /\ r.pending.rank < inserted'
               /\ \A other \in DOMAIN pending' : pending'[other].rank # r.pending.rank
    <3>1. CASE id \in gone
      <4>1. r.pending = pending[id] /\ id \in DOMAIN pending
        BY <1>5, <3>1
      <4>2. \A other \in DOMAIN pending' :
              other # id /\ other \in Ids /\ other \in DOMAIN pending
        BY <1>1, <3>1 DEF TypeOK, EngineTypeOK, IsMap
      <4> QED
        BY <1>1, <4>1, <4>2 DEF RanksOrdered
    <3>2. CASE id \notin gone
      BY <1>1, <1>4, <3>2 DEF VerdictRanksOrdered
    <3> QED
      BY <3>1, <3>2
  <2> QED
    BY <2>1 DEF VerdictRanksOrdered
<1>10. TimesPast'
  <2>1. ASSUME NEW id \in Ids
        PROVE  /\ id \in DOMAIN pending' => pending'[id].addedAt <= now'
               /\ \A r \in Verdicts(id)' : r.pending.addedAt <= r.at /\ r.at <= now'
    <3>1. CASE id \in gone
      BY <1>1, <1>5, <3>1 DEF TimesPast, TypeOK, EngineTypeOK
    <3>2. CASE id \notin gone
      BY <1>1, <1>4, <3>2 DEF TimesPast
    <3> QED
      BY <3>1, <3>2
  <2> QED
    BY <2>1 DEF TimesPast
<1>11. SeenOnlyWatched'
  BY <1>3, Placement DEF SeenOnlyWatched
<1> QED
  BY <1>6, <1>7, <1>8, <1>9, <1>10, <1>11

\* A sweep of the interval or of tick().
LEMMA SweepStep ==
  ASSUME Inductive, TypeOK', Sweep, UNCHANGED <<now, historyVars>>
  PROVE  Inductive'
<1>1. Expired \in SUBSET DOMAIN pending /\ DOMAIN pending \subseteq Ids
  BY DEF Inductive, TypeOK, EngineTypeOK, IsMap, Expired
<1>2. /\ pending' = Delete(pending, Expired)
      /\ UNCHANGED <<partial, inserted>>
      /\ results' = [id \in Ids |->
                       IF id \in Expired
                       THEN Append(results[id], ResultFor(id, "not_settled", NoTransfer))
                       ELSE results[id]]
  BY DEF Sweep
<1>3. UNCHANGED <<closedAs, decoded, seen>>
  BY DEF historyVars
<1>4. \A id \in Ids \ Expired : results'[id] = results[id]
  BY <1>2
<1>5. ASSUME NEW id \in Expired
      PROVE  \E r : /\ results'[id] = Append(results[id], r)
                    /\ r \in Result
                    /\ r.pending = pending[id] /\ r.at = now
  <2>1. results'[id] = Append(results[id], ResultFor(id, "not_settled", NoTransfer))
    BY <1>1, <1>2
  <2>2. ResultFor(id, "not_settled", NoTransfer) \in Result
    BY <1>1, ResultTyped DEF Inductive, ResultKinds, TypeOK
  <2>3. /\ ResultFor(id, "not_settled", NoTransfer).pending = pending[id]
        /\ ResultFor(id, "not_settled", NoTransfer).at = now
    BY DEF ResultFor
  <2> QED
    BY <2>1, <2>2, <2>3
<1> QED
  BY <1>1, <1>2, <1>3, <1>4, <1>5, ResolveStep

\* The join half an event brings, when the other half is as recorded.
LEMMA HalfOfRecorded ==
  ASSUME Inductive, NEW id \in Ids, ~Complete(id)
  PROVE  /\ HalfOf(id).payment <=> id \in decoded
         /\ HalfOf(id).outcome = OutcomeOf(id)
BY DEF Inductive, HalvesRecorded, HalfOf, OutcomeOf, Complete, Closed

LEMMA InductiveInit == Init => Inductive
<1> SUFFICES ASSUME Init
             PROVE  Inductive
  OBVIOUS
<1>1. TypeOK
  BY TypeInit
<1>2. \A id \in Ids : /\ id \notin DOMAIN partial /\ id \notin DOMAIN pending
                       /\ results[id] = <<>> /\ seen[id] = {}
                       /\ ~Closed(id) /\ id \notin decoded
  BY DEF Init, EngineInit, Closed
<1>3. \A id \in Ids : Verdicts(id) = {} /\ ~WorthWatching(id)
  BY <1>2, NoVerdicts DEF WorthWatching, Complete
<1>4. Accounted
  <2>1. ASSUME NEW id \in Ids
        PROVE  Len(results[id]) + (IF id \in DOMAIN pending THEN 1 ELSE 0)
                 = (IF WorthWatching(id) THEN 1 ELSE 0)
    <3>1. Len(results[id]) = 0 /\ id \notin DOMAIN pending /\ ~WorthWatching(id)
      BY <1>2, <1>3
    <3> QED
      BY <3>1
  <2> QED
    BY <2>1 DEF Accounted
<1> QED
  BY <1>1, <1>2, <1>3, <1>4
     DEF Inductive, HalvesRecorded, RanksOrdered, VerdictRanksOrdered,
         TimesPast, SeenOnlyWatched

LEMMA InductiveStep ==
  ASSUME Inductive, [Next]_vars
  PROVE  Inductive'
<1>1. TypeOK /\ TypeOK'
  BY TypeStep DEF Inductive
<1>2. ASSUME NEW id \in Ids, NEW kind \in Outcomes, CloseExchange(id, kind)
      PROVE  Inductive'
  <2> DEFINE half == [payment |-> HalfOf(id).payment, outcome |-> kind]
  <2>1. ~Closed(id) /\ ~Complete(id)
    BY <1>2 DEF CloseExchange, Complete
  <2>2. half \in Half
    BY <1>1, HalfTyped, OutcomesAssumption DEF Half, TypeOK
  <2>3. /\ Promote(id, half)
        /\ closedAs' = Put(closedAs, id, kind)
        /\ UNCHANGED <<results, now, seen, decoded>>
    BY <1>2 DEF CloseExchange, IngestProxyEvent, timerVars
  <2>4. /\ Closed(id)' /\ closedAs'[id] = kind
        /\ \A o \in Ids \ {id} : /\ Closed(o)' <=> Closed(o)
                                 /\ OutcomeOf(o)' = OutcomeOf(o)
    BY <2>3 DEF Closed, OutcomeOf, Put
  <2>5. half.payment <=> id \in decoded'
    BY <2>1, <2>3, HalfOfRecorded
  <2>6. half.outcome = OutcomeOf(id)'
    BY <2>4 DEF OutcomeOf
  <2> HIDE DEF half
  <2> QED
    BY <1>1, <2>1, <2>2, <2>3, <2>4, <2>5, <2>6, JoinStep
<1>3. ASSUME NEW id \in Ids, DecodePayment(id)
      PROVE  Inductive'
  <2> DEFINE half == [payment |-> TRUE, outcome |-> HalfOf(id).outcome]
  <2>1. id \notin decoded /\ ~Complete(id)
    BY <1>3 DEF DecodePayment, Complete
  <2>2. half \in Half
    BY <1>1, HalfTyped DEF Half, TypeOK
  <2>3. /\ Promote(id, half)
        /\ decoded' = decoded \union {id}
        /\ UNCHANGED <<results, now, seen, closedAs>>
    BY <1>3 DEF DecodePayment, IngestDecoderEvent, timerVars
  <2>4. half.payment <=> id \in decoded'
    BY <2>3
  <2>5. half.outcome = OutcomeOf(id)'
    <3>1. HalfOf(id).outcome = OutcomeOf(id)
      BY <2>1, HalfOfRecorded
    <3>2. OutcomeOf(id)' = OutcomeOf(id)
      BY <2>3 DEF OutcomeOf, Closed
    <3> QED
      BY <3>1, <3>2
  <2>6. \A o \in Ids \ {id} : /\ Closed(o)' <=> Closed(o)
                              /\ o \in decoded' <=> o \in decoded
                              /\ OutcomeOf(o)' = OutcomeOf(o)
    BY <2>3 DEF Closed, OutcomeOf
  <2>7. UNCHANGED <<results, now, seen>> /\ id \in decoded'
    BY <2>3
  <2> HIDE DEF half
  <2> QED
    BY <1>1, <2>1, <2>2, <2>3, <2>4, <2>5, <2>6, <2>7, JoinStep
<1>4. ASSUME NEW t \in Transfers, DeliverTransfer(t)
      PROVE  Inductive'
  <2>1. /\ UNCHANGED <<partial, inserted, now, closedAs, decoded>>
        /\ \A id \in Ids : seen'[id] # {} => seen[id] # {} \/ id \in DOMAIN pending
    BY <1>4 DEF DeliverTransfer, IngestChainTransfer, timerVars
  <2>2. CASE UNCHANGED <<pending, results>>
    <3>1. pending' = Delete(pending, {})
      BY <1>1, <2>2 DEF Delete, Restrict, TypeOK, EngineTypeOK, IsMap
    <3> QED
      BY <1>1, <2>1, <2>2, <3>1, ResolveStep
  <2>3. ASSUME NEW id \in Candidates(t), ~Throws(t), IsOldest(id, Candidates(t)),
               results' = [results EXCEPT ![id] = Append(@,
                 ResultFor(id, ResultKindOf(MatchKind(Auth[id], t)), t))],
               pending' = Delete(pending, {id})
        PROVE  Inductive'
    <3> DEFINE verdict == ResultFor(id, ResultKindOf(MatchKind(Auth[id], t)), t)
    <3>1. id \in DOMAIN pending /\ id \in Ids /\ results \in [Ids -> Seq(Result)]
      BY <1>1, CandidateFacts DEF TypeOK, EngineTypeOK
    <3>2. MatchKind(Auth[id], t) # "throws"
      BY <2>3 DEF Throws
    <3>3. verdict \in Result
      BY <1>1, <3>2, CandidateFacts, ResultKindFacts, ResultTyped DEF TypeOK
    <3>4. verdict.pending = pending[id] /\ verdict.at = now
      BY DEF ResultFor
    <3>5. results'[id] = Append(results[id], verdict)
      BY <2>3, <3>1
    <3>6. \A o \in Ids \ {id} : results'[o] = results[o]
      BY <2>3, <3>1
    <3>7. {id} \in SUBSET DOMAIN pending
      BY <3>1
    <3> HIDE DEF verdict
    <3>8. \A o \in {id} : \E r : /\ results'[o] = Append(results[o], r)
                                  /\ r \in Result
                                  /\ r.pending = pending[o] /\ r.at = now
      BY <3>3, <3>4, <3>5
    <3> QED
      BY <1>1, <2>1, <2>3, <3>6, <3>7, <3>8, ResolveStep
  <2> QED
    BY <1>4, <2>2, <2>3 DEF DeliverTransfer, IngestChainTransfer
<1>5. CASE IntervalSweep \/ Tick
  BY <1>1, <1>5, SweepStep DEF IntervalSweep, Tick, timerVars
<1>6. CASE Close \/ Advance \/ UNCHANGED vars
  <2>1. UNCHANGED <<engineVars, historyVars>> /\ now <= now' /\ now \in Nat /\ now' \in Nat
    BY <1>1, <1>6 DEF Close, Advance, vars, timerVars, TypeOK, EngineTypeOK
  <2>2. UNCHANGED <<partial, pending, inserted, results, closedAs, decoded, seen>>
    BY <2>1 DEF engineVars, historyVars
  <2>3. HalvesRecorded' /\ Accounted' /\ SeenOnlyWatched'
    BY <2>2 DEF Inductive, HalvesRecorded, Accounted, SeenOnlyWatched, OutcomeOf,
                WorthWatching, Complete, Closed
  <2>4. RanksOrdered' /\ VerdictRanksOrdered'
    BY <2>2 DEF Inductive, RanksOrdered, VerdictRanksOrdered, Verdicts
  <2>5. TimesPast'
    <3>1. ASSUME NEW id \in Ids
          PROVE  /\ id \in DOMAIN pending' => pending'[id].addedAt <= now'
                 /\ \A r \in Verdicts(id)' : r.pending.addedAt <= r.at /\ r.at <= now'
      <4>1. id \in DOMAIN pending' => pending'[id].addedAt <= now'
        BY <1>1, <2>1, <2>2 DEF Inductive, TimesPast, TypeOK, EngineTypeOK, IsMap, Pending
      <4>2. ASSUME NEW r \in Verdicts(id)'
            PROVE  r.pending.addedAt <= r.at /\ r.at <= now'
        <5>1. r \in Verdicts(id)
          BY <2>2 DEF Verdicts
        <5>2. r.at \in Nat /\ r.pending.addedAt <= r.at /\ r.at <= now
          BY <1>1, <5>1, VerdictTyped DEF Inductive, TimesPast, Result
        <5> QED
          BY <2>1, <5>2
      <4> QED
        BY <4>1, <4>2
    <3> QED
      BY <3>1 DEF TimesPast
  <2> QED
    BY <1>1, <2>3, <2>4, <2>5 DEF Inductive
<1> QED
  BY <1>2, <1>3, <1>4, <1>5, <1>6 DEF Next

\* The inductive invariant holds in every reachable state.
THEOREM InductiveInvariant == Spec => []Inductive
<1> QED
  BY InductiveInit, InductiveStep, PTL DEF Spec

\* Every exchange that is complete and not paid is pending or has exactly one
\* result, whatever the order in which its halves, transfers and sweeps come,
\* for any number of exchanges and transfers and any timing.
THEOREM EachExchangeAccounted == Spec => []Accounted
<1>1. Inductive => Accounted
  BY DEF Inductive
<1> QED
  BY <1>1, InductiveInvariant, PTL

----------------------------------------------------------------------------
\* What each kind of step does.

\* A half arrives: verdicts stay, and at most that exchange becomes pending,
\* one that has seen no transfer and has no verdict.
Joins(id) == DecodePayment(id) \/ \E kind \in Outcomes : CloseExchange(id, kind)

LEMMA JoinFacts ==
  ASSUME Inductive, NEW id \in Ids, Joins(id)
  PROVE  /\ UNCHANGED <<results, seen, timerVars>>
         /\ DOMAIN pending \subseteq DOMAIN pending'
         /\ seen[id] = {} /\ results[id] = <<>> /\ id \notin DOMAIN pending
         /\ \A o \in DOMAIN pending' :
              \/ o \in DOMAIN pending /\ pending'[o] = pending[o]
              \/ o = id /\ pending'[o].addedAt = now /\ pending'[o].rank = inserted
<1>1. TypeOK /\ ~Complete(id)
  BY DEF Inductive, Joins, CloseExchange, DecodePayment, Complete
<1>2. seen[id] = {} /\ results[id] = <<>> /\ id \notin DOMAIN pending
  BY <1>1, Placement DEF Inductive, SeenOnlyWatched, WorthWatching
<1>3. /\ UNCHANGED <<results, seen, timerVars>>
      /\ \E half \in Half : Promote(id, half)
  <2>1. CASE DecodePayment(id)
    <3>1. [payment |-> TRUE, outcome |-> HalfOf(id).outcome] \in Half
      BY <1>1, HalfTyped DEF Half, TypeOK
    <3> QED
      BY <2>1, <3>1 DEF DecodePayment, IngestDecoderEvent
  <2>2. ASSUME NEW kind \in Outcomes, CloseExchange(id, kind)
        PROVE  /\ UNCHANGED <<results, seen, timerVars>>
               /\ \E half \in Half : Promote(id, half)
    <3>1. [payment |-> HalfOf(id).payment, outcome |-> kind] \in Half
      BY <1>1, HalfTyped, OutcomesAssumption DEF Half, TypeOK
    <3> QED
      BY <2>2, <3>1 DEF CloseExchange, IngestProxyEvent
  <2> QED
    BY <2>1, <2>2 DEF Joins
<1>4. PICK half \in Half : Promote(id, half)
  BY <1>3
<1>5. /\ DOMAIN pending \subseteq DOMAIN pending'
      /\ \A o \in DOMAIN pending' :
           \/ o \in DOMAIN pending /\ pending'[o] = pending[o]
           \/ o = id /\ pending'[o].addedAt = now /\ pending'[o].rank = inserted
  <2>1. CASE half.payment /\ half.outcome \notin {NoOutcome, "paid"}
    BY <1>1, <1>2, <1>4, <2>1, PromoteEffect DEF TypeOK, EngineTypeOK, IsMap, PlaceOf
  <2>2. CASE ~(half.payment /\ half.outcome \notin {NoOutcome, "paid"})
    BY <1>1, <1>4, <2>2, PromoteEffect DEF Half, TypeOK
  <2> QED
    BY <2>1, <2>2
<1> QED
  BY <1>2, <1>3, <1>5

\* A pending exchange has no verdict yet.
LEMMA PendingUndecided ==
  ASSUME Inductive, NEW id \in DOMAIN pending
  PROVE  id \in Ids /\ Verdicts(id) = {}
<1>1. TypeOK /\ Accounted /\ id \in Ids
  BY DEF Inductive, TypeOK, EngineTypeOK, IsMap
<1> QED
  BY <1>1, Placement, NoVerdicts

\* A transfer arrives: it resolves nothing, or the oldest candidate.
LEMMA DeliverFacts ==
  ASSUME Inductive, NEW t \in Transfers, DeliverTransfer(t)
  PROVE  /\ UNCHANGED <<inserted, timerVars>>
         /\ \A id \in Ids :
              seen'[id] = IF id \in DOMAIN pending THEN seen[id] \union {t} ELSE seen[id]
         /\ \/ /\ Candidates(t) = {} \/ Throws(t)
               /\ UNCHANGED <<pending, results>>
            \/ /\ ~Throws(t)
               /\ \E c \in Candidates(t) :
                    /\ IsOldest(c, Candidates(t))
                    /\ c \in Ids /\ c \in DOMAIN pending
                    /\ Verdicts(c)' =
                         {ResultFor(c, ResultKindOf(MatchKind(Auth[c], t)), t)}
                    /\ \A o \in Ids \ {c} : Verdicts(o)' = Verdicts(o)
                    /\ DOMAIN pending' = DOMAIN pending \ {c}
                    /\ \A o \in DOMAIN pending' : pending'[o] = pending[o]
<1>1. TypeOK /\ Accounted
  BY DEF Inductive
<1>2. UNCHANGED <<inserted, timerVars>>
  BY DEF DeliverTransfer, IngestChainTransfer
<1>3. \A id \in Ids :
        seen'[id] = IF id \in DOMAIN pending THEN seen[id] \union {t} ELSE seen[id]
  BY DEF DeliverTransfer
<1>4. ASSUME NEW c \in Candidates(t), IsOldest(c, Candidates(t)),
             results' = [results EXCEPT ![c] = Append(@,
               ResultFor(c, ResultKindOf(MatchKind(Auth[c], t)), t))],
             pending' = Delete(pending, {c})
      PROVE  /\ c \in Ids /\ c \in DOMAIN pending
             /\ Verdicts(c)' = {ResultFor(c, ResultKindOf(MatchKind(Auth[c], t)), t)}
             /\ \A o \in Ids \ {c} : Verdicts(o)' = Verdicts(o)
             /\ DOMAIN pending' = DOMAIN pending \ {c}
             /\ \A o \in DOMAIN pending' : pending'[o] = pending[o]
  <2> DEFINE outcome == ResultFor(c, ResultKindOf(MatchKind(Auth[c], t)), t)
  <2>1. c \in Ids /\ c \in DOMAIN pending
    BY <1>1, CandidateFacts DEF TypeOK
  <2>2. results[c] = <<>> /\ results \in [Ids -> Seq(Result)]
    BY <1>1, <2>1, Placement DEF TypeOK, EngineTypeOK
  <2>3. results'[c] = Append(results[c], outcome)
    BY <1>4, <2>1, <2>2
  <2>4. \A o \in Ids \ {c} : results'[o] = results[o]
    BY <1>4, <2>2
  <2> HIDE DEF outcome
  <2>5. results'[c] = <<outcome>>
    BY <2>2, <2>3
  <2>6. Verdicts(c)' = {outcome}
    BY <2>5 DEF Verdicts
  <2>7. \A o \in Ids \ {c} : Verdicts(o)' = Verdicts(o)
    BY <2>4 DEF Verdicts
  <2>8. DOMAIN pending' = DOMAIN pending \ {c}
        /\ \A o \in DOMAIN pending' : pending'[o] = pending[o]
    BY <1>4 DEF Delete, Restrict
  <2> QED
    BY <2>1, <2>6, <2>7, <2>8 DEF outcome
<1>5. \/ /\ Candidates(t) = {} \/ Throws(t)
         /\ UNCHANGED <<pending, results>>
      \/ /\ ~Throws(t)
         /\ \E c \in Candidates(t) :
              /\ IsOldest(c, Candidates(t))
              /\ results' = [results EXCEPT ![c] = Append(@,
                   ResultFor(c, ResultKindOf(MatchKind(Auth[c], t)), t))]
              /\ pending' = Delete(pending, {c})
  BY DEF DeliverTransfer, IngestChainTransfer
<1>6. CASE /\ Candidates(t) = {} \/ Throws(t)
           /\ UNCHANGED <<pending, results>>
  BY <1>2, <1>3, <1>6
<1>7. ASSUME ~Throws(t), NEW c \in Candidates(t), IsOldest(c, Candidates(t)),
             results' = [results EXCEPT ![c] = Append(@,
               ResultFor(c, ResultKindOf(MatchKind(Auth[c], t)), t))],
             pending' = Delete(pending, {c})
      PROVE  \E d \in Candidates(t) :
               /\ IsOldest(d, Candidates(t))
               /\ d \in Ids /\ d \in DOMAIN pending
               /\ Verdicts(d)' = {ResultFor(d, ResultKindOf(MatchKind(Auth[d], t)), t)}
               /\ \A o \in Ids \ {d} : Verdicts(o)' = Verdicts(o)
               /\ DOMAIN pending' = DOMAIN pending \ {d}
               /\ \A o \in DOMAIN pending' : pending'[o] = pending[o]
  <2> WITNESS c \in Candidates(t)
  <2> QED
    BY <1>4, <1>7
<1> QED
  BY <1>2, <1>3, <1>5, <1>6, <1>7

\* A sweep gives up exactly the expired exchanges.
LEMMA SweepFacts ==
  ASSUME Inductive, Sweep
  PROVE  /\ Expired \subseteq DOMAIN pending /\ DOMAIN pending \subseteq Ids
         /\ UNCHANGED inserted
         /\ DOMAIN pending' = DOMAIN pending \ Expired
         /\ \A o \in DOMAIN pending' : pending'[o] = pending[o]
         /\ \A o \in Expired : Verdicts(o)' = {ResultFor(o, "not_settled", NoTransfer)}
         /\ \A o \in Ids \ Expired : Verdicts(o)' = Verdicts(o)
<1>1. TypeOK /\ Accounted
  BY DEF Inductive
<1>2. Expired \subseteq DOMAIN pending /\ DOMAIN pending \subseteq Ids
  BY <1>1 DEF TypeOK, EngineTypeOK, IsMap, Expired
<1>3. /\ UNCHANGED inserted
      /\ DOMAIN pending' = DOMAIN pending \ Expired
      /\ \A o \in DOMAIN pending' : pending'[o] = pending[o]
  BY DEF Sweep, Delete, Restrict
<1>4. ASSUME NEW o \in Expired
      PROVE  Verdicts(o)' = {ResultFor(o, "not_settled", NoTransfer)}
  <2> DEFINE outcome == ResultFor(o, "not_settled", NoTransfer)
  <2>1. results[o] = <<>> /\ results'[o] = Append(results[o], outcome)
    BY <1>1, <1>2, Placement DEF Sweep
  <2> HIDE DEF outcome
  <2>2. results'[o] = <<outcome>>
    BY <2>1
  <2> QED
    BY <2>2 DEF Verdicts, outcome
<1>5. ASSUME NEW o \in Ids \ Expired
      PROVE  Verdicts(o)' = Verdicts(o)
  <2>1. results'[o] = results[o]
    BY DEF Sweep
  <2> QED
    BY <2>1 DEF Verdicts
<1> QED
  BY <1>2, <1>3, <1>4, <1>5

\* Every other step leaves the engine and what it saw alone.
Rests == Close \/ Advance \/ UNCHANGED vars

LEMMA RestFacts ==
  ASSUME Rests
  PROVE  /\ UNCHANGED <<pending, inserted, results, seen>>
         /\ \A id \in Ids : Verdicts(id)' = Verdicts(id)
<1>1. UNCHANGED <<pending, inserted, results, seen>>
  BY DEF Rests, Close, Advance, vars, engineVars, historyVars
<1> QED
  BY <1>1 DEF Verdicts

Sweeps == Sweep /\ UNCHANGED <<now, sweeping, historyVars>>

LEMMA Steps ==
  ASSUME [Next]_vars
  PROVE  \/ \E id \in Ids : Joins(id)
         \/ \E t \in Transfers : DeliverTransfer(t)
         \/ Sweeps
         \/ Rests
BY DEF Next, Joins, Sweeps, Rests, IntervalSweep, Tick, timerVars
----------------------------------------------------------------------------
\* Verdicts are justified.

LEMMA JustifiedStep ==
  ASSUME Inductive, VerdictsJustified, [Next]_vars
  PROVE  VerdictsJustified'
<1>1. TypeOK /\ DOMAIN pending \subseteq Ids
  BY DEF Inductive, TypeOK, EngineTypeOK, IsMap
<1>2. ASSUME \A id \in Ids : seen[id] \subseteq seen'[id],
             NEW id \in Ids, NEW r \in Verdicts(id)
      PROVE  Justified(id, r)'
  BY <1>2 DEF VerdictsJustified, Justified
<1>3. ASSUME NEW id \in Ids, Joins(id)
      PROVE  VerdictsJustified'
  <2>1. UNCHANGED <<results, seen>>
    BY <1>3, JoinFacts
  <2> QED
    BY <1>2, <2>1 DEF VerdictsJustified, Verdicts
<1>4. ASSUME NEW t \in Transfers, DeliverTransfer(t)
      PROVE  VerdictsJustified'
  <2>1. \A id \in Ids : seen[id] \subseteq seen'[id]
    BY <1>4, DeliverFacts
  <2>2. CASE UNCHANGED results
    BY <1>2, <2>1, <2>2 DEF VerdictsJustified, Verdicts
  <2>3. ASSUME ~Throws(t), NEW c \in Candidates(t), IsOldest(c, Candidates(t)),
               c \in Ids, c \in DOMAIN pending,
               Verdicts(c)' = {ResultFor(c, ResultKindOf(MatchKind(Auth[c], t)), t)},
               \A o \in Ids \ {c} : Verdicts(o)' = Verdicts(o)
        PROVE  VerdictsJustified'
    <3>0. PICK verdict : verdict = ResultFor(c, ResultKindOf(MatchKind(Auth[c], t)), t)
      OBVIOUS
    <3>1. MatchKind(Auth[c], t) # "throws"
      BY <2>3 DEF Throws
    <3>2. /\ verdict.kind # "not_settled"
          /\ verdict.kind = "settled_on_chain" <=> FourTupleAgrees(Auth[c], t)
          /\ verdict.onChain = t /\ SameAuthorization(Auth[c], t)
      BY <1>1, <3>0, <3>1, CandidateFacts, ResultKindFacts DEF ResultFor, TypeOK
    <3>3. t \in seen'[c]
      <4>1. seen'[c] = IF c \in DOMAIN pending THEN seen[c] \union {t} ELSE seen[c]
        BY <1>4, <2>3, DeliverFacts
      <4> QED
        BY <2>3, <4>1
    <3>4. Justified(c, verdict)'
      BY <3>2, <3>3 DEF Justified
    <3>5. \A r \in Verdicts(c)' : r = verdict
      BY <2>3, <3>0
    <3>6. \A r \in Verdicts(c)' : Justified(c, r)'
      BY <3>4, <3>5
    <3>7. \A o \in Ids \ {c} : \A r \in Verdicts(o)' : Justified(o, r)'
      BY <1>2, <2>1, <2>3
    <3> QED
      BY <3>6, <3>7 DEF VerdictsJustified
  <2> QED
    BY <1>4, <2>2, <2>3, DeliverFacts
<1>5. CASE Sweeps
  <2>1. UNCHANGED seen
    BY <1>5 DEF Sweeps, historyVars
  <2>2. ASSUME NEW id \in Expired
        PROVE  \A r \in Verdicts(id)' : Justified(id, r)'
    <3>0. PICK verdict : verdict = ResultFor(id, "not_settled", NoTransfer)
      OBVIOUS
    <3>1. pending[id] \in Pending /\ pending[id].addedAt \in Nat /\ now \in Nat
      BY <1>1 DEF TypeOK, EngineTypeOK, IsMap, Expired, Pending
    <3>2. pending[id].addedAt <= now - WatchTimeout
      BY DEF Expired
    <3>3. verdict.kind = "not_settled" /\ verdict.at - verdict.pending.addedAt >= WatchTimeout
      BY <3>0, <3>1, <3>2, WatchTimeoutAssumption DEF ResultFor
    <3>4. Justified(id, verdict)'
      BY <3>3 DEF Justified
    <3>5. \A r \in Verdicts(id)' : r = verdict
      BY <1>5, <3>0, SweepFacts DEF Sweeps
    <3> QED
      BY <3>4, <3>5
  <2>3. ASSUME NEW id \in Ids \ Expired
        PROVE  \A r \in Verdicts(id)' : Justified(id, r)'
    <3>1. Verdicts(id)' = Verdicts(id)
      BY <1>5, SweepFacts DEF Sweeps
    <3> QED
      BY <1>2, <2>1, <3>1
  <2> QED
    BY <2>2, <2>3 DEF VerdictsJustified
<1>6. CASE Rests
  <2>1. UNCHANGED seen /\ \A id \in Ids : Verdicts(id)' = Verdicts(id)
    BY <1>6, RestFacts
  <2> QED
    BY <1>2, <2>1 DEF VerdictsJustified
<1> QED
  BY <1>3, <1>4, <1>5, <1>6, Steps

\* Initially there is no verdict.
LEMMA NoVerdictsInit == Init => \A id \in Ids : Verdicts(id) = {} /\ seen[id] = {}
BY NoVerdicts DEF Init, EngineInit

\* A verdict names a transfer that was delivered while the exchange was
\* pending, says what the comparison of the four fields says, and gives up
\* only after the whole watch timeout; for every set of exchanges and
\* transfers and any timing (engine.ts, match.ts).
THEOREM EveryVerdictJustified == Spec => []VerdictsJustified
<1>1. Init => VerdictsJustified
  BY NoVerdictsInit DEF VerdictsJustified
<1>2. Inductive /\ VerdictsJustified /\ [Next]_vars => VerdictsJustified'
  BY JustifiedStep
<1> QED
  BY <1>1, <1>2, InductiveInvariant, PTL DEF Spec
----------------------------------------------------------------------------
\* No transfer is wasted.

Excused(id, t) == TakenByAnother(id, t) \/ LostToException(id, t)

\* An excuse stays one: verdicts are final, what an exchange was pending as is
\* kept in its verdict, and what it saw is remembered.
LEMMA ExcusesStay ==
  ASSUME \A o \in Ids : /\ Verdicts(o) \subseteq Verdicts(o)'
                        /\ Entries(o) \subseteq Entries(o)'
                        /\ seen[o] \subseteq seen'[o],
         NEW id \in Ids, NEW t, Excused(id, t)
  PROVE  Excused(id, t)'
<1>1. CASE TakenByAnother(id, t)
  BY <1>1 DEF TakenByAnother, Excused
<1>2. CASE LostToException(id, t)
  <2>1. PICK other \in Ids :
          /\ t \in seen[other] /\ MatchKind(Auth[other], t) = "throws"
          /\ \E p \in Entries(other), q \in Entries(id) : p.rank <= q.rank
    BY <1>2 DEF LostToException
  <2>2. \E p \in Entries(other)', q \in Entries(id)' : p.rank <= q.rank
    BY <2>1
  <2>3. t \in seen'[other]
    BY <2>1
  <2> QED
    BY <2>1, <2>2, <2>3 DEF LostToException, Excused
<1> QED
  BY <1>1, <1>2 DEF Excused

\* What was decided, waited for and seen is kept: a pending exchange's entry is
\* in the Map until its verdict carries it.
LEMMA HistoryGrows ==
  ASSUME Inductive, [Next]_vars, NEW o \in Ids
  PROVE  /\ Verdicts(o) \subseteq Verdicts(o)'
         /\ Entries(o) \subseteq Entries(o)'
         /\ seen[o] \subseteq seen'[o]
<1>1. /\ \A p \in Entries(o) : \/ o \in DOMAIN pending /\ p = pending[o]
                               \/ \E r \in Verdicts(o) : p = r.pending
      /\ o \in DOMAIN pending' => pending'[o] \in Entries(o)'
      /\ \A r \in Verdicts(o)' : r.pending \in Entries(o)'
  BY DEF Entries
<1>2. ASSUME Verdicts(o)' = Verdicts(o),
             o \in DOMAIN pending => o \in DOMAIN pending' /\ pending'[o] = pending[o]
      PROVE  Verdicts(o) \subseteq Verdicts(o)' /\ Entries(o) \subseteq Entries(o)'
  BY <1>1, <1>2
<1>3. ASSUME o \in DOMAIN pending, NEW v, Verdicts(o)' = {v}, v.pending = pending[o]
      PROVE  Verdicts(o) \subseteq Verdicts(o)' /\ Entries(o) \subseteq Entries(o)'
  BY <1>1, <1>3, PendingUndecided
<1>4. ASSUME NEW id \in Ids, Joins(id)
      PROVE  /\ Verdicts(o) \subseteq Verdicts(o)'
             /\ Entries(o) \subseteq Entries(o)'
             /\ seen[o] \subseteq seen'[o]
  <2>1. UNCHANGED <<results, seen>>
    BY <1>4, JoinFacts
  <2>2. Verdicts(o)' = Verdicts(o)
    BY <2>1 DEF Verdicts
  <2>3. o \in DOMAIN pending => o \in DOMAIN pending' /\ pending'[o] = pending[o]
    BY <1>4, JoinFacts
  <2> QED
    BY <1>2, <2>1, <2>2, <2>3
<1>5. ASSUME NEW t \in Transfers, DeliverTransfer(t)
      PROVE  /\ Verdicts(o) \subseteq Verdicts(o)'
             /\ Entries(o) \subseteq Entries(o)'
             /\ seen[o] \subseteq seen'[o]
  <2>1. seen[o] \subseteq seen'[o]
    BY <1>5, DeliverFacts
  <2>2. CASE UNCHANGED <<pending, results>>
    BY <1>2, <2>1, <2>2 DEF Verdicts
  <2>3. ASSUME NEW c \in Candidates(t), c \in DOMAIN pending,
               Verdicts(c)' = {ResultFor(c, ResultKindOf(MatchKind(Auth[c], t)), t)},
               \A other \in Ids \ {c} : Verdicts(other)' = Verdicts(other),
               DOMAIN pending' = DOMAIN pending \ {c},
               \A other \in DOMAIN pending' : pending'[other] = pending[other]
        PROVE  Verdicts(o) \subseteq Verdicts(o)' /\ Entries(o) \subseteq Entries(o)'
    <3>1. CASE o = c
      <4>1. PICK v : v = ResultFor(c, ResultKindOf(MatchKind(Auth[c], t)), t)
        OBVIOUS
      <4>2. v.pending = pending[o]
        BY <3>1, <4>1 DEF ResultFor
      <4> QED
        BY <1>3, <2>3, <3>1, <4>1, <4>2
    <3>2. CASE o # c
      BY <1>2, <2>3, <3>2
    <3> QED
      BY <3>1, <3>2
  <2> QED
    BY <1>5, <2>1, <2>2, <2>3, DeliverFacts
<1>6. CASE Sweeps
  <2>1. seen'[o] = seen[o]
    BY <1>6 DEF Sweeps, historyVars
  <2>2. CASE o \in Expired
    <3>1. PICK v : v = ResultFor(o, "not_settled", NoTransfer)
      OBVIOUS
    <3>2. v.pending = pending[o]
      BY <3>1 DEF ResultFor
    <3>3. Verdicts(o)' = {v} /\ o \in DOMAIN pending
      BY <1>6, <2>2, <3>1, SweepFacts DEF Sweeps
    <3> QED
      BY <1>3, <2>1, <3>2, <3>3
  <2>3. CASE o \notin Expired
    <3>1. /\ Verdicts(o)' = Verdicts(o)
          /\ o \in DOMAIN pending => o \in DOMAIN pending' /\ pending'[o] = pending[o]
      BY <1>6, <2>3, SweepFacts DEF Sweeps
    <3> QED
      BY <1>2, <2>1, <3>1
  <2> QED
    BY <2>2, <2>3
<1>7. CASE Rests
  BY <1>2, <1>7, RestFacts
<1> QED
  BY <1>4, <1>5, <1>6, <1>7, Steps

LEMMA NotWastedStep ==
  ASSUME Inductive, NoTransferWasted, [Next]_vars
  PROVE  NoTransferWasted'
<1>1. TypeOK /\ DOMAIN pending \subseteq Ids
  BY DEF Inductive, TypeOK, EngineTypeOK, IsMap
<1>2. ASSUME NEW id \in Ids, NEW t \in seen[id], UnresolvedByTransfer(id),
             SameAuthorization(Auth[id], t)
      PROVE  Excused(id, t)'
  <2>1. Excused(id, t)
    BY <1>2 DEF NoTransferWasted, Excused
  <2> QED
    BY <2>1, ExcusesStay, HistoryGrows
<1>3. ASSUME \A id \in Ids : \A t \in seen'[id] :
               UnresolvedByTransfer(id)' /\ SameAuthorization(Auth[id], t) => Excused(id, t)'
      PROVE  NoTransferWasted'
  BY <1>3 DEF NoTransferWasted, Excused
<1>4. ASSUME NEW j \in Ids, Joins(j),
             NEW id \in Ids, NEW t \in seen'[id],
             UnresolvedByTransfer(id)', SameAuthorization(Auth[id], t)
      PROVE  Excused(id, t)'
  <2>1. \A o \in Ids : Verdicts(o)' = Verdicts(o)
    BY <1>4, JoinFacts DEF Verdicts
  <2>2. t \in seen[id] /\ id # j
    BY <1>4, JoinFacts
  <2>3. UnresolvedByTransfer(id)
    BY <1>4, <2>1, <2>2, JoinFacts DEF UnresolvedByTransfer
  <2> QED
    BY <1>2, <1>4, <2>2, <2>3
<1>5. ASSUME NEW u \in Transfers, DeliverTransfer(u),
             NEW id \in Ids, NEW t \in seen'[id],
             UnresolvedByTransfer(id)', SameAuthorization(Auth[id], t)
      PROVE  Excused(id, t)'
  <2>1. t \in seen[id] \/ (t = u /\ id \in DOMAIN pending)
    <3>1. seen'[id] = IF id \in DOMAIN pending THEN seen[id] \union {u} ELSE seen[id]
      BY <1>5, DeliverFacts
    <3> QED
      BY <1>5, <3>1
  <2>2. ASSUME t = u, id \in DOMAIN pending
        PROVE  id \in Candidates(u)
    <3>1. Auth[id] \in Authorization /\ u \in ChainTransfer
      BY AuthAssumption, TransfersAssumption
    <3> QED
      BY <1>5, <2>2, <3>1, MatchFacts DEF Candidates
  <2>3. CASE UNCHANGED <<pending, results>> /\ (Candidates(u) = {} \/ Throws(u))
    <3>1. CASE t \in seen[id]
      <4>1. \A o \in Ids : Verdicts(o)' = Verdicts(o)
        BY <2>3 DEF Verdicts
      <4>2. UnresolvedByTransfer(id)
        BY <1>5, <2>3, <4>1 DEF UnresolvedByTransfer
      <4> QED
        BY <1>2, <1>5, <3>1, <4>2
    <3>2. CASE t = u /\ id \in DOMAIN pending
      <4>1. PICK o \in Candidates(u) :
              IsOldest(o, Candidates(u)) /\ MatchKind(Auth[o], u) = "throws"
        BY <2>2, <2>3, <3>2 DEF Throws
      <4>2. o \in Ids /\ o \in DOMAIN pending /\ pending[o].rank <= pending[id].rank
        <5>1. o \in Ids /\ o \in DOMAIN pending
          BY <1>1, <4>1, CandidateFacts DEF TypeOK
        <5>2. id \in Candidates(u)
          BY <2>2, <3>2
        <5> QED
          BY <4>1, <5>1, <5>2 DEF IsOldest
      <4>3. u \in seen'[o]
        <5>1. seen'[o] = IF o \in DOMAIN pending THEN seen[o] \union {u} ELSE seen[o]
          BY <1>5, <4>2, DeliverFacts
        <5> QED
          BY <4>2, <5>1
      <4>4. /\ o \in DOMAIN pending' /\ pending'[o] = pending[o]
            /\ id \in DOMAIN pending' /\ pending'[id] = pending[id]
        BY <2>2, <2>3, <3>2, <4>2
      <4>5. pending[o] \in Entries(o)' /\ pending[id] \in Entries(id)'
        BY <4>4 DEF Entries
      <4>6. LostToException(id, t)'
        <5>1. \E p \in Entries(o)', q \in Entries(id)' : p.rank <= q.rank
          BY <4>2, <4>5
        <5> QED
          BY <3>2, <4>1, <4>2, <4>3, <5>1 DEF LostToException
      <4> QED
        BY <4>6 DEF Excused
    <3> QED
      BY <2>1, <3>1, <3>2
  <2>4. ASSUME ~Throws(u), NEW c \in Candidates(u), IsOldest(c, Candidates(u)),
               c \in Ids, c \in DOMAIN pending,
               Verdicts(c)' = {ResultFor(c, ResultKindOf(MatchKind(Auth[c], u)), u)},
               \A o \in Ids \ {c} : Verdicts(o)' = Verdicts(o),
               DOMAIN pending' = DOMAIN pending \ {c}
        PROVE  Excused(id, t)'
    <3>1. MatchKind(Auth[c], u) # "throws"
      BY <2>4 DEF Throws
    <3>2. PICK verdict : verdict = ResultFor(c, ResultKindOf(MatchKind(Auth[c], u)), u)
      OBVIOUS
    <3>3. verdict.kind # "not_settled" /\ verdict.onChain = u
      BY <1>1, <3>1, <3>2, CandidateFacts, ResultKindFacts DEF ResultFor, TypeOK
    <3>4. id # c
      <4>1. ASSUME id = c
            PROVE  FALSE
        <5>1. id \notin DOMAIN pending'
          BY <2>4, <4>1
        <5>2. \A r \in Verdicts(id)' : r = verdict
          BY <2>4, <3>2, <4>1
        <5> QED
          BY <1>5, <3>3, <5>1, <5>2 DEF UnresolvedByTransfer
      <4> QED
        BY <4>1
    <3>5. UnresolvedByTransfer(id)
      BY <1>5, <2>4, <3>4 DEF UnresolvedByTransfer
    <3>6. CASE t \in seen[id]
      BY <1>2, <1>5, <3>5, <3>6
    <3>7. CASE t = u
      <4>1. verdict \in Verdicts(c)'
        BY <2>4, <3>2
      <4>2. c \in Ids \ {id} /\ verdict.onChain = t
        BY <2>4, <3>3, <3>4, <3>7
      <4> QED
        BY <4>1, <4>2 DEF TakenByAnother, Excused
    <3> QED
      BY <2>1, <3>6, <3>7
  <2> QED
    BY <1>5, <2>3, <2>4, DeliverFacts
<1>6. ASSUME Sweeps,
             NEW id \in Ids, NEW t \in seen'[id],
             UnresolvedByTransfer(id)', SameAuthorization(Auth[id], t)
      PROVE  Excused(id, t)'
  <2>1. t \in seen[id]
    BY <1>6 DEF Sweeps, historyVars
  <2>2. UnresolvedByTransfer(id)
    <3>1. CASE id \in Expired
      BY <1>6, <3>1, SweepFacts DEF Sweeps, UnresolvedByTransfer
    <3>2. CASE id \notin Expired
      BY <1>6, <3>2, SweepFacts DEF Sweeps, UnresolvedByTransfer
    <3> QED
      BY <3>1, <3>2
  <2> QED
    BY <1>2, <1>6, <2>1, <2>2
<1>7. ASSUME Rests,
             NEW id \in Ids, NEW t \in seen'[id],
             UnresolvedByTransfer(id)', SameAuthorization(Auth[id], t)
      PROVE  Excused(id, t)'
  <2>1. /\ UNCHANGED <<pending, seen>>
        /\ \A o \in Ids : Verdicts(o)' = Verdicts(o)
    BY <1>7, RestFacts
  <2>2. UnresolvedByTransfer(id)
    BY <1>7, <2>1 DEF UnresolvedByTransfer
  <2> QED
    BY <1>2, <1>7, <2>1, <2>2
<1> QED
  BY <1>3, <1>4, <1>5, <1>6, <1>7, Steps

\* An exchange stays unresolved although its transfer was handed over only when
\* another exchange with the same authorization took that transfer, or when
\* comparing it threw at an exchange that had waited at least as long and so
\* lost the transfer to all of them (engine.ts, the loop of ingestChainTransfer).
THEOREM NoTransferIsWasted == Spec => []NoTransferWasted
<1>1. Init => NoTransferWasted
  BY NoVerdictsInit DEF NoTransferWasted
<1>2. Inductive /\ NoTransferWasted /\ [Next]_vars => NoTransferWasted'
  BY NotWastedStep
<1> QED
  BY <1>1, <1>2, InductiveInvariant, PTL DEF Spec
----------------------------------------------------------------------------
\* The oldest exchange gets the transfer.

LEMMA OldestStep ==
  ASSUME Inductive, OldestFirst, [Next]_vars
  PROVE  OldestFirst'
<1>1. TypeOK /\ DOMAIN pending \subseteq Ids /\ inserted \in Nat
  BY DEF Inductive, TypeOK, EngineTypeOK, IsMap
<1>2. \A o \in DOMAIN pending : pending[o].rank \in Nat
  BY <1>1 DEF TypeOK, EngineTypeOK, IsMap, Pending
<1>3. ASSUME NEW id \in Ids, NEW other \in Ids, NEW r \in Verdicts(other),
             id \in DOMAIN pending, r.onChain # NoTransfer,
             SameAuthorization(Auth[id], r.onChain)
      PROVE  r.pending.rank < pending[id].rank
  BY <1>3 DEF OldestFirst
<1>4. ASSUME NEW j \in Ids, Joins(j),
             NEW id \in Ids, NEW other \in Ids, NEW r \in Verdicts(other)',
             id \in DOMAIN pending', r.onChain # NoTransfer,
             SameAuthorization(Auth[id], r.onChain)
      PROVE  r.pending.rank < pending'[id].rank
  <2>1. r \in Verdicts(other)
    BY <1>4, JoinFacts DEF Verdicts
  <2>2. r.pending.rank < inserted
    BY <2>1 DEF Inductive, VerdictRanksOrdered
  <2> QED
    BY <1>3, <1>4, <2>1, <2>2, JoinFacts
<1>5. ASSUME NEW t \in Transfers, DeliverTransfer(t),
             NEW id \in Ids, NEW other \in Ids, NEW r \in Verdicts(other)',
             id \in DOMAIN pending', r.onChain # NoTransfer,
             SameAuthorization(Auth[id], r.onChain)
      PROVE  r.pending.rank < pending'[id].rank
  <2>1. CASE UNCHANGED <<pending, results>>
    BY <1>3, <1>5, <2>1 DEF Verdicts
  <2>2. ASSUME NEW c \in Candidates(t), IsOldest(c, Candidates(t)),
               c \in Ids, c \in DOMAIN pending,
               Verdicts(c)' = {ResultFor(c, ResultKindOf(MatchKind(Auth[c], t)), t)},
               \A o \in Ids \ {c} : Verdicts(o)' = Verdicts(o),
               DOMAIN pending' = DOMAIN pending \ {c},
               \A o \in DOMAIN pending' : pending'[o] = pending[o]
        PROVE  r.pending.rank < pending'[id].rank
    <3>1. id # c /\ id \in DOMAIN pending /\ pending'[id] = pending[id]
      BY <1>5, <2>2
    <3>2. CASE other # c
      BY <1>3, <1>5, <2>2, <3>1, <3>2
    <3>3. CASE other = c
      <4>1. r = ResultFor(c, ResultKindOf(MatchKind(Auth[c], t)), t)
        BY <1>5, <2>2, <3>3
      <4>2. r.onChain = t /\ r.pending = pending[c]
        BY <4>1 DEF ResultFor
      <4>3. id \in Candidates(t)
        <5>1. Auth[id] \in Authorization /\ t \in ChainTransfer
          BY AuthAssumption, TransfersAssumption
        <5> QED
          BY <1>5, <3>1, <4>2, <5>1, MatchFacts DEF Candidates
      <4>4. pending[c].rank <= pending[id].rank
        BY <2>2, <4>3 DEF IsOldest
      <4>5. pending[c].rank # pending[id].rank
        BY <2>2, <3>1 DEF Inductive, RanksOrdered
      <4> QED
        BY <1>2, <2>2, <3>1, <4>2, <4>4, <4>5
    <3> QED
      BY <3>2, <3>3
  <2> QED
    BY <1>5, <2>1, <2>2, DeliverFacts
<1>6. ASSUME Sweeps,
             NEW id \in Ids, NEW other \in Ids, NEW r \in Verdicts(other)',
             id \in DOMAIN pending', r.onChain # NoTransfer,
             SameAuthorization(Auth[id], r.onChain)
      PROVE  r.pending.rank < pending'[id].rank
  <2>1. id \in DOMAIN pending /\ pending'[id] = pending[id]
    BY <1>6, SweepFacts DEF Sweeps
  <2>2. other \notin Expired
    <3>1. ASSUME other \in Expired
          PROVE  FALSE
      <4>1. r = ResultFor(other, "not_settled", NoTransfer)
        BY <1>6, <3>1, SweepFacts DEF Sweeps
      <4> QED
        BY <1>6, <4>1 DEF ResultFor
    <3> QED
      BY <3>1
  <2>3. r \in Verdicts(other)
    BY <1>6, <2>2, SweepFacts DEF Sweeps
  <2> QED
    BY <1>3, <1>6, <2>1, <2>3
<1>7. ASSUME Rests,
             NEW id \in Ids, NEW other \in Ids, NEW r \in Verdicts(other)',
             id \in DOMAIN pending', r.onChain # NoTransfer,
             SameAuthorization(Auth[id], r.onChain)
      PROVE  r.pending.rank < pending'[id].rank
  BY <1>3, <1>7, RestFacts
<1>8. ASSUME NEW id \in Ids, NEW other \in Ids, NEW r \in Verdicts(other)',
             id \in DOMAIN pending', r.onChain # NoTransfer,
             SameAuthorization(Auth[id], r.onChain)
      PROVE  r.pending.rank < pending'[id].rank
  BY <1>4, <1>5, <1>6, <1>7, <1>8, Steps
<1> QED
  BY <1>8 DEF OldestFirst

\* Among exchanges that carry one authorization, the transfer goes to the one
\* that has been pending longest (engine.ts, the Map's iteration order).
THEOREM TransfersGoToTheOldest == Spec => []OldestFirst
<1>1. Init => OldestFirst
  BY NoVerdictsInit DEF OldestFirst
<1>2. Inductive /\ OldestFirst /\ [Next]_vars => OldestFirst'
  BY OldestStep
<1> QED
  BY <1>1, <1>2, InductiveInvariant, PTL DEF Spec
----------------------------------------------------------------------------
\* No exchange is held too long.

\* While the interval runs it is due within SweepInterval and at most Latency
\* late, and what is still pending was not expired at the last sweep.
Timely ==
  sweeping =>
    /\ nextSweep <= now + SweepInterval
    /\ now <= nextSweep + Latency
    /\ \A id \in DOMAIN pending :
         pending[id].addedAt + WatchTimeout + SweepInterval > nextSweep

LEMMA TimelyStep ==
  ASSUME WatchTimeout > 0, Inductive, Timely, [Next]_vars
  PROVE  Timely'
<1>1. /\ now \in Nat /\ nextSweep \in Nat /\ DOMAIN pending \subseteq Ids
      /\ \A id \in DOMAIN pending : pending[id].addedAt \in Nat
  BY DEF Inductive, TypeOK, EngineTypeOK, IsMap, Pending
<1>2. SweepInterval \in Nat \ {0} /\ Latency \in Nat /\ WatchTimeout \in Nat
  BY TimeAssumption, WatchTimeoutAssumption
<1>3. ASSUME NEW j \in Ids, Joins(j)
      PROVE  Timely'
  <2>1. UNCHANGED timerVars
    BY <1>3, JoinFacts
  <2>2. ASSUME sweeping, NEW o \in DOMAIN pending'
        PROVE  pending'[o].addedAt + WatchTimeout + SweepInterval > nextSweep
    <3>1. CASE o \in DOMAIN pending /\ pending'[o] = pending[o]
      BY <2>2, <3>1 DEF Timely
    <3>2. CASE pending'[o].addedAt = now
      BY <1>1, <1>2, <2>2, <3>2 DEF Timely
    <3> QED
      BY <1>3, <3>1, <3>2, JoinFacts
  <2> QED
    BY <2>1, <2>2 DEF Timely, timerVars
<1>4. ASSUME UNCHANGED timerVars, DOMAIN pending' \subseteq DOMAIN pending,
             \A o \in DOMAIN pending' : pending'[o] = pending[o]
      PROVE  Timely'
  BY <1>4 DEF Timely, timerVars
<1>5. ASSUME NEW t \in Transfers, DeliverTransfer(t)
      PROVE  Timely'
  <2>1. UNCHANGED timerVars
    BY <1>5, DeliverFacts
  <2>2. CASE UNCHANGED <<pending, results>>
    BY <1>4, <2>1, <2>2
  <2>3. CASE \E c \in Candidates(t) :
               /\ DOMAIN pending' = DOMAIN pending \ {c}
               /\ \A o \in DOMAIN pending' : pending'[o] = pending[o]
    BY <1>4, <2>1, <2>3
  <2> QED
    BY <1>5, <2>2, <2>3, DeliverFacts
<1>6. CASE Tick
  BY <1>4, <1>6, SweepFacts DEF Tick
<1>7. CASE IntervalSweep
  <2>1. nextSweep' = now + SweepInterval /\ UNCHANGED <<now, sweeping>> /\ Sweep
    BY <1>7 DEF IntervalSweep
  <2>2. ASSUME NEW o \in DOMAIN pending'
        PROVE  pending'[o].addedAt + WatchTimeout + SweepInterval > now + SweepInterval
    <3>1. o \in DOMAIN pending /\ o \notin Expired /\ pending'[o] = pending[o]
      BY <2>1, SweepFacts
    <3>2. pending[o].addedAt > now - WatchTimeout
      BY <1>1, <1>2, <3>1 DEF Expired
    <3> QED
      BY <1>1, <1>2, <3>1, <3>2
  <2>3. now <= now + SweepInterval + Latency
    BY <1>1, <1>2
  <2> QED
    BY <1>1, <1>2, <2>1, <2>2, <2>3 DEF Timely
<1>8. CASE Close
  BY <1>8 DEF Close, Timely
<1>9. CASE Advance
  <2>1. /\ now' = now + 1 /\ UNCHANGED <<pending, nextSweep, sweeping>>
        /\ sweeping => now < nextSweep + Latency
    BY <1>9 DEF Advance, engineVars
  <2> QED
    BY <1>1, <1>2, <2>1 DEF Timely
<1>10. CASE UNCHANGED vars
  BY <1>4, <1>10 DEF vars, engineVars, timerVars
<1>11. \/ \E j \in Ids : Joins(j)
       \/ \E t \in Transfers : DeliverTransfer(t)
       \/ Tick \/ IntervalSweep \/ Close \/ Advance \/ UNCHANGED vars
  BY DEF Next, Joins
<1> QED
  BY <1>3, <1>5, <1>6, <1>7, <1>8, <1>9, <1>10, <1>11

\* What is pending is within the bound.
LEMMA PendingWithinBound ==
  ASSUME Inductive, Timely, sweeping, NEW id \in DOMAIN pending
  PROVE  now - pending[id].addedAt < HoldBound
<1>1. /\ now \in Nat /\ nextSweep \in Nat
      /\ pending[id].addedAt \in Nat
  BY DEF Inductive, TypeOK, EngineTypeOK, IsMap, Pending
<1> QED
  BY <1>1, TimeAssumption, WatchTimeoutAssumption DEF Timely, HoldBound

\* So is every verdict, which dates from a moment when its exchange was pending.
VerdictsInTime ==
  sweeping => \A id \in Ids : \A r \in Verdicts(id) : r.at - r.pending.addedAt < HoldBound

LEMMA InTimeStep ==
  ASSUME Inductive, Timely, VerdictsInTime, [Next]_vars
  PROVE  VerdictsInTime'
<1>1. ASSUME sweeping, NEW id \in DOMAIN pending, NEW kind, NEW t
      PROVE  LET r == ResultFor(id, kind, t) IN r.at - r.pending.addedAt < HoldBound
  BY <1>1, PendingWithinBound DEF ResultFor
<1>2. sweeping' => sweeping
  BY DEF Next, vars, CloseExchange, DecodePayment, DeliverTransfer, IntervalSweep,
         Tick, Close, Advance, timerVars
<1>3. ASSUME NEW j \in Ids, Joins(j)
      PROVE  VerdictsInTime'
  BY <1>2, <1>3, JoinFacts DEF VerdictsInTime, Verdicts
<1>4. ASSUME NEW t \in Transfers, DeliverTransfer(t)
      PROVE  VerdictsInTime'
  <2>1. CASE UNCHANGED <<pending, results>>
    BY <1>2, <2>1 DEF VerdictsInTime, Verdicts
  <2>2. ASSUME NEW c \in DOMAIN pending,
               Verdicts(c)' = {ResultFor(c, ResultKindOf(MatchKind(Auth[c], t)), t)},
               \A o \in Ids \ {c} : Verdicts(o)' = Verdicts(o)
        PROVE  VerdictsInTime'
    <3>1. ASSUME sweeping, NEW o \in Ids, NEW r \in Verdicts(o)'
          PROVE  r.at - r.pending.addedAt < HoldBound
      <4>1. CASE o = c
        BY <1>1, <2>2, <3>1, <4>1
      <4>2. CASE o # c
        BY <2>2, <3>1, <4>2 DEF VerdictsInTime
      <4> QED
        BY <4>1, <4>2
    <3> QED
      BY <1>2, <3>1 DEF VerdictsInTime, HoldBound
  <2> QED
    BY <1>4, <2>1, <2>2, DeliverFacts
<1>5. CASE Sweeps
  <2>1. ASSUME sweeping, NEW o \in Ids, NEW r \in Verdicts(o)'
        PROVE  r.at - r.pending.addedAt < HoldBound
    <3>1. CASE o \in Expired
      <4>1. o \in DOMAIN pending /\ r = ResultFor(o, "not_settled", NoTransfer)
        BY <1>5, <2>1, <3>1, SweepFacts DEF Sweeps
      <4> QED
        BY <1>1, <2>1, <4>1
    <3>2. CASE o \notin Expired
      <4>1. r \in Verdicts(o)
        BY <1>5, <2>1, <3>2, SweepFacts DEF Sweeps
      <4> QED
        BY <2>1, <4>1 DEF VerdictsInTime
    <3> QED
      BY <3>1, <3>2
  <2> QED
    BY <1>2, <2>1 DEF VerdictsInTime, HoldBound
<1>6. CASE Rests
  BY <1>2, <1>6, RestFacts DEF VerdictsInTime
<1> QED
  BY <1>3, <1>4, <1>5, <1>6, Steps

\* While the interval runs, no exchange is held and no verdict delayed for
\* WatchTimeout + SweepInterval + Latency, whatever these are, as long as the
\* watch timeout is not zero: with zero, an exchange that joins in the very
\* millisecond of a sweep waits that long exactly (engine.ts, sweep).
THEOREM NobodyIsHeldTooLong ==
  ASSUME WatchTimeout > 0
  PROVE  Spec => []HeldBounded
<1>1. Init => Timely
  BY TimeAssumption, WatchTimeoutAssumption DEF Init, EngineInit, Timely
<1>2. Inductive /\ Timely /\ [Next]_vars => Timely'
  BY TimelyStep
<1>3. Init => VerdictsInTime
  BY NoVerdictsInit DEF VerdictsInTime
<1>4. Inductive /\ Timely /\ VerdictsInTime /\ [Next]_vars => VerdictsInTime'
  BY InTimeStep
<1>5. Inductive /\ Timely /\ VerdictsInTime => HeldBounded
  BY PendingWithinBound DEF VerdictsInTime, HeldBounded
<1> QED
  BY <1>1, <1>2, <1>3, <1>4, <1>5, InductiveInvariant, PTL DEF Spec
----------------------------------------------------------------------------
\* Where each exchange is in its lifecycle, read from its verdict, from
\* `pending`, or from what has arrived.
StatusFits ==
  \A id \in Ids :
    /\ \A v \in Verdicts(id) : StatusOf(id) = v.kind /\ SinceOf(id) = v.pending.addedAt
    /\ id \in DOMAIN pending =>
         /\ Verdicts(id) = {}
         /\ StatusOf(id) = "watched" /\ SinceOf(id) = pending[id].addedAt
    /\ Verdicts(id) = {} /\ id \notin DOMAIN pending =>
         /\ StatusOf(id) = IF Complete(id) THEN "ignored" ELSE "joining"
         /\ SinceOf(id) = 0
    /\ ~Complete(id) => Verdicts(id) = {} /\ id \notin DOMAIN pending

LEMMA StatusesFit == Inductive => StatusFits
<1> SUFFICES ASSUME Inductive, NEW id \in Ids
             PROVE  /\ \A v \in Verdicts(id) :
                         StatusOf(id) = v.kind /\ SinceOf(id) = v.pending.addedAt
                    /\ id \in DOMAIN pending =>
                         /\ Verdicts(id) = {}
                         /\ StatusOf(id) = "watched" /\ SinceOf(id) = pending[id].addedAt
                    /\ Verdicts(id) = {} /\ id \notin DOMAIN pending =>
                         /\ StatusOf(id) = IF Complete(id) THEN "ignored" ELSE "joining"
                         /\ SinceOf(id) = 0
                    /\ ~Complete(id) => Verdicts(id) = {} /\ id \notin DOMAIN pending
  BY DEF StatusFits
<1>1. TypeOK /\ Accounted /\ results[id] \in Seq(Result)
  BY DEF Inductive, TypeOK, EngineTypeOK
<1>2. results[id] = <<>> \/ Len(results[id]) = 1
  BY <1>1, Placement
<1>3. CASE results[id] = <<>>
  <2>1. Verdicts(id) = {}
    BY <1>3, NoVerdicts
  <2> QED
    BY <1>1, <1>3, <2>1, Placement DEF StatusOf, SinceOf, WorthWatching
<1>4. CASE Len(results[id]) = 1
  <2>1. results[id] # <<>>
    BY <1>4
  <2>2. DOMAIN results[id] = {1}
    BY <1>1, <1>4
  <2>3. Verdicts(id) = {results[id][1]}
    BY <2>2 DEF Verdicts
  <2>4. id \notin DOMAIN pending /\ WorthWatching(id)
    BY <1>1, <2>1, Placement
  <2> QED
    BY <2>1, <2>3, <2>4 DEF StatusOf, SinceOf, WorthWatching
<1> QED
  BY <1>2, <1>3, <1>4

LEMMA StatusesFitNext == Inductive' => StatusFits'
BY StatusesFit, PTL

\* The mapped variables change at one exchange.
LEMMA OneMoves ==
  ASSUME NEW j \in Ids, NEW s, NEW since,
         \A o \in Ids \ {j} : StatusOf(o)' = StatusOf(o) /\ SinceOf(o)' = SinceOf(o),
         StatusOf(j)' = s, SinceOf(j)' = since
  PROVE  /\ [id \in Ids |-> StatusOf(id)]' = [[id \in Ids |-> StatusOf(id)] EXCEPT ![j] = s]
         /\ [id \in Ids |-> SinceOf(id)]' = [[id \in Ids |-> SinceOf(id)] EXCEPT ![j] = since]
OBVIOUS

LEMMA NoneMoves ==
  ASSUME \A o \in Ids : StatusOf(o)' = StatusOf(o) /\ SinceOf(o)' = SinceOf(o)
  PROVE  /\ [id \in Ids |-> StatusOf(id)]' = [id \in Ids |-> StatusOf(id)]
         /\ [id \in Ids |-> SinceOf(id)]' = [id \in Ids |-> SinceOf(id)]
OBVIOUS

\* An exchange whose verdicts, pending entry and completeness stay is where it was.
LEMMA StaysPut ==
  ASSUME StatusFits, StatusFits', NEW o \in Ids,
         Verdicts(o)' = Verdicts(o), Complete(o)' <=> Complete(o),
         o \in DOMAIN pending' <=> o \in DOMAIN pending,
         o \in DOMAIN pending => pending'[o] = pending[o]
  PROVE  StatusOf(o)' = StatusOf(o) /\ SinceOf(o)' = SinceOf(o)
<1>1. CASE o \in DOMAIN pending
  BY <1>1 DEF StatusFits
<1>2. CASE o \notin DOMAIN pending /\ Verdicts(o) = {}
  BY <1>2 DEF StatusFits
<1>3. CASE Verdicts(o) # {}
  <2>1. PICK v : v \in Verdicts(o)
    BY <1>3
  <2>2. StatusOf(o) = v.kind /\ SinceOf(o) = v.pending.addedAt
    BY <2>1 DEF StatusFits
  <2>3. v \in Verdicts(o)'
    BY <2>1
  <2>4. StatusOf(o)' = v.kind /\ SinceOf(o)' = v.pending.addedAt
    BY <2>3 DEF StatusFits
  <2> QED
    BY <2>2, <2>4
<1> QED
  BY <1>1, <1>2, <1>3
----------------------------------------------------------------------------
\* Every step of the engine is a step of the lifecycle, or none.

LEMMA JoinRefines ==
  ASSUME Inductive, Inductive', NEW j \in Ids, Joins(j)
  PROVE  [Watch!Next]_(Watch!vars)
<1>1. StatusFits /\ StatusFits'
  BY StatusesFit, StatusesFitNext
<1>2. /\ UNCHANGED <<results, now>> /\ ~Complete(j)
      /\ \A o \in Ids \ {j} : Complete(o)' <=> Complete(o)
  BY DEF Joins, CloseExchange, DecodePayment, IngestProxyEvent, IngestDecoderEvent,
         Complete, Closed, Put, timerVars
<1>3. \A o \in Ids : Verdicts(o)' = Verdicts(o)
  BY <1>2 DEF Verdicts
<1>4. \A o \in Ids \ {j} : StatusOf(o)' = StatusOf(o) /\ SinceOf(o)' = SinceOf(o)
  <2> TAKE o \in Ids \ {j}
  <2>1. /\ o \in DOMAIN pending' <=> o \in DOMAIN pending
        /\ o \in DOMAIN pending => pending'[o] = pending[o]
    BY JoinFacts
  <2> QED
    BY <1>1, <1>2, <1>3, <2>1, StaysPut
<1>5. StatusOf(j) = "joining" /\ SinceOf(j) = 0 /\ Verdicts(j)' = {} /\ j \notin DOMAIN pending
  BY <1>1, <1>2, <1>3 DEF StatusFits
<1>6. CASE j \in DOMAIN pending'
  <2>1. StatusOf(j)' = "watched" /\ SinceOf(j)' = now
    BY <1>1, <1>5, <1>6, JoinFacts DEF StatusFits
  <2>2. /\ [id \in Ids |-> StatusOf(id)]' = [[id \in Ids |-> StatusOf(id)] EXCEPT ![j] = "watched"]
        /\ [id \in Ids |-> SinceOf(id)]' = [[id \in Ids |-> SinceOf(id)] EXCEPT ![j] = now]
    BY <1>4, <2>1, OneMoves
  <2>3. Watch!Watch(j)
    BY <1>2, <1>5, <2>2 DEF Watch!Watch
  <2> QED
    BY <2>3 DEF Watch!Next
<1>7. CASE j \notin DOMAIN pending' /\ Complete(j)'
  <2>1. StatusOf(j)' = "ignored" /\ SinceOf(j)' = SinceOf(j)
    BY <1>1, <1>5, <1>7 DEF StatusFits
  <2>2. /\ [id \in Ids |-> StatusOf(id)]' = [[id \in Ids |-> StatusOf(id)] EXCEPT ![j] = "ignored"]
        /\ [id \in Ids |-> SinceOf(id)]' = [id \in Ids |-> SinceOf(id)]
    BY <1>4, <2>1
  <2>3. Watch!Ignore(j)
    BY <1>2, <1>5, <2>2 DEF Watch!Ignore
  <2> QED
    BY <2>3 DEF Watch!Next
<1>8. CASE j \notin DOMAIN pending' /\ ~Complete(j)'
  <2>1. StatusOf(j)' = StatusOf(j) /\ SinceOf(j)' = SinceOf(j)
    BY <1>1, <1>5, <1>8 DEF StatusFits
  <2>2. \A o \in Ids : StatusOf(o)' = StatusOf(o) /\ SinceOf(o)' = SinceOf(o)
    BY <1>4, <2>1
  <2> QED
    BY <1>2, <2>2, NoneMoves DEF Watch!vars
<1> QED
  BY <1>6, <1>7, <1>8

LEMMA DeliverRefines ==
  ASSUME Inductive, Inductive', NEW t \in Transfers, DeliverTransfer(t)
  PROVE  [Watch!Next]_(Watch!vars)
<1>1. StatusFits /\ StatusFits' /\ TypeOK
  BY StatusesFit, StatusesFitNext DEF Inductive
<1>2. UNCHANGED now /\ \A o \in Ids : Complete(o)' <=> Complete(o)
  BY DEF DeliverTransfer, Complete, Closed, timerVars
<1>3. CASE UNCHANGED <<pending, results>>
  <2>1. \A o \in Ids : StatusOf(o)' = StatusOf(o) /\ SinceOf(o)' = SinceOf(o)
    BY <1>1, <1>2, <1>3, StaysPut DEF Verdicts
  <2> QED
    BY <1>2, <2>1, NoneMoves DEF Watch!vars
<1>4. ASSUME ~Throws(t), NEW c \in Candidates(t), IsOldest(c, Candidates(t)),
             c \in Ids, c \in DOMAIN pending,
             Verdicts(c)' = {ResultFor(c, ResultKindOf(MatchKind(Auth[c], t)), t)},
             \A o \in Ids \ {c} : Verdicts(o)' = Verdicts(o),
             DOMAIN pending' = DOMAIN pending \ {c},
             \A o \in DOMAIN pending' : pending'[o] = pending[o]
      PROVE  [Watch!Next]_(Watch!vars)
  <2>0. PICK verdict : verdict = ResultFor(c, ResultKindOf(MatchKind(Auth[c], t)), t)
    OBVIOUS
  <2>1. MatchKind(Auth[c], t) # "throws"
    BY <1>4 DEF Throws
  <2>2. verdict.kind \in ResultKinds \ {"not_settled"} /\ verdict.pending = pending[c]
    BY <1>1, <2>0, <2>1, CandidateFacts, ResultKindFacts DEF ResultFor, TypeOK
  <2>3. verdict \in Verdicts(c)'
    BY <1>4, <2>0
  <2>4. StatusOf(c)' = verdict.kind /\ SinceOf(c)' = pending[c].addedAt
    BY <1>1, <1>4, <2>2, <2>3 DEF StatusFits
  <2>5. StatusOf(c) = "watched" /\ SinceOf(c) = pending[c].addedAt
    BY <1>1, <1>4 DEF StatusFits
  <2>6. \A o \in Ids \ {c} : StatusOf(o)' = StatusOf(o) /\ SinceOf(o)' = SinceOf(o)
    BY <1>1, <1>2, <1>4, StaysPut
  <2>7. /\ [id \in Ids |-> StatusOf(id)]' = [[id \in Ids |-> StatusOf(id)] EXCEPT ![c] = verdict.kind]
        /\ [id \in Ids |-> SinceOf(id)]' = [id \in Ids |-> SinceOf(id)]
    BY <1>4, <2>4, <2>5, <2>6
  <2>8. Watch!Resolve(c, verdict.kind)
    BY <1>2, <1>4, <2>5, <2>7 DEF Watch!Resolve
  <2>9. verdict.kind \in Watch!Verdict
    BY <2>2 DEF ResultKinds, Watch!Verdict
  <2> QED
    BY <1>4, <2>8, <2>9 DEF Watch!Next
<1> QED
  BY <1>3, <1>4, DeliverFacts

LEMMA SweepRefines ==
  ASSUME Inductive, Inductive', Sweeps
  PROVE  [Watch!Next]_(Watch!vars)
<1>1. StatusFits /\ StatusFits' /\ TypeOK
  BY StatusesFit, StatusesFitNext DEF Inductive
<1>2. UNCHANGED now /\ \A o \in Ids : Complete(o)' <=> Complete(o)
  BY DEF Sweeps, historyVars, Complete, Closed
<1>3. ASSUME NEW o \in Expired
      PROVE  /\ StatusOf(o)' = "not_settled" /\ SinceOf(o)' = SinceOf(o)
             /\ o \in Ids
  <2>0. PICK verdict : verdict = ResultFor(o, "not_settled", NoTransfer)
    OBVIOUS
  <2>1. o \in DOMAIN pending /\ o \in Ids /\ verdict \in Verdicts(o)'
    BY <2>0, SweepFacts DEF Sweeps
  <2>2. verdict.kind = "not_settled" /\ verdict.pending = pending[o]
    BY <2>0 DEF ResultFor
  <2> QED
    BY <1>1, <2>1, <2>2 DEF StatusFits
<1>4. ASSUME NEW o \in Ids \ Expired
      PROVE  StatusOf(o)' = StatusOf(o) /\ SinceOf(o)' = SinceOf(o)
  BY <1>1, <1>2, SweepFacts, StaysPut DEF Sweeps
<1>5. ASSUME NEW o \in Ids
      PROVE  o \in Expired <=> StatusOf(o) = "watched" /\ now - SinceOf(o) >= WatchTimeout
  <2>1. CASE o \in DOMAIN pending
    <3>1. /\ StatusOf(o) = "watched" /\ SinceOf(o) = pending[o].addedAt
          /\ pending[o].addedAt \in Nat /\ now \in Nat
      BY <1>1, <2>1 DEF StatusFits, TypeOK, EngineTypeOK, IsMap, Pending
    <3> QED
      BY <2>1, <3>1, WatchTimeoutAssumption DEF Expired
  <2>2. CASE o \notin DOMAIN pending
    <3>1. StatusOf(o) # "watched"
      <4>1. CASE Verdicts(o) = {}
        BY <1>1, <2>2, <4>1 DEF StatusFits
      <4>2. ASSUME NEW v \in Verdicts(o)
            PROVE  StatusOf(o) # "watched"
        <5>1. StatusOf(o) = v.kind /\ v.kind \in ResultKinds
          BY <1>1, VerdictTyped DEF StatusFits, Result
        <5> QED
          BY <5>1 DEF ResultKinds
      <4> QED
        BY <4>1, <4>2
    <3> QED
      BY <2>2, <3>1 DEF Expired
  <2> QED
    BY <2>1, <2>2
<1>6. \A o \in Ids : o \in Watch!Overdue <=> o \in Expired
  BY <1>5 DEF Watch!Overdue
<1>7. [id \in Ids |-> StatusOf(id)]'
        = [id \in Ids |-> IF id \in Watch!Overdue THEN "not_settled"
                          ELSE [i \in Ids |-> StatusOf(i)][id]]
  BY <1>3, <1>4, <1>6
<1>8. [id \in Ids |-> SinceOf(id)]' = [id \in Ids |-> SinceOf(id)]
  BY <1>3, <1>4
<1>9. Watch!GiveUp
  BY <1>2, <1>7, <1>8 DEF Watch!GiveUp
<1> QED
  BY <1>9 DEF Watch!Next

LEMMA RestRefines ==
  ASSUME Inductive, Inductive', Rests
  PROVE  [Watch!Next]_(Watch!vars)
<1>1. StatusFits /\ StatusFits'
  BY StatusesFit, StatusesFitNext
<1>2. UNCHANGED pending /\ \A o \in Ids : Verdicts(o)' = Verdicts(o)
  BY RestFacts
<1>3. \A o \in Ids : Complete(o)' <=> Complete(o)
  BY DEF Rests, Close, Advance, vars, historyVars, Complete, Closed
<1>4. \A o \in Ids : StatusOf(o)' = StatusOf(o) /\ SinceOf(o)' = SinceOf(o)
  BY <1>1, <1>2, <1>3, StaysPut
<1>5. now' = now + 1 \/ now' = now
  BY DEF Rests, Close, Advance, vars, timerVars
<1>6. CASE now' = now + 1
  BY <1>4, <1>6, NoneMoves DEF Watch!Next, Watch!TimePasses
<1>7. CASE now' = now
  BY <1>4, <1>7, NoneMoves DEF Watch!vars
<1> QED
  BY <1>5, <1>6, <1>7

LEMMA StartRefines == Init => Watch!Init
<1> SUFFICES ASSUME Init
             PROVE  Watch!Init
  OBVIOUS
<1>1. now = 0
  BY DEF Init, EngineInit
<1>2. \A id \in Ids : results[id] = <<>> /\ id \notin DOMAIN pending /\ ~Complete(id)
  BY DEF Init, EngineInit, Complete, Closed
<1>3. \A id \in Ids : StatusOf(id) = "joining" /\ SinceOf(id) = 0
  BY <1>2 DEF StatusOf, SinceOf
<1> QED
  BY <1>1, <1>3 DEF Watch!Init

\* The engine implements the lifecycle: an exchange is joined, then ignored or
\* watched, a watched one ends with one final verdict, and giving up takes
\* exactly the exchanges that have been watched for the whole timeout, at once.
THEOREM EngineImplementsWatch == Spec => ImplementsExchangeWatch
<1>1. Init => Watch!Init
  BY StartRefines
<1>2. Inductive /\ Inductive' /\ [Next]_vars => [Watch!Next]_(Watch!vars)
  BY JoinRefines, DeliverRefines, SweepRefines, RestRefines, Steps
<1> QED
  BY <1>1, <1>2, InductiveInvariant, PTL DEF Spec, ImplementsExchangeWatch, Watch!Spec
----------------------------------------------------------------------------
\* The results of one synchronous stretch.

\* Emissions lists the exchanges of Emitting, each once.
LEMMA EmissionFacts ==
  ASSUME IsFiniteSet(Emitting), Emitting \subseteq DOMAIN pending,
         EngineTypeOK, RanksOrdered,
         \A id \in Emitting : results'[id] \in Seq(Result) /\ results'[id] # <<>>
  PROVE  /\ Emissions \in Seq(Emission)
         /\ Len(Emissions) = Cardinality(Emitting)
         /\ Cardinality(Emitting) \in Nat
         /\ \A j, k \in DOMAIN Emissions : j # k => Emissions[j].id # Emissions[k].id
         /\ {Emissions[k].id : k \in DOMAIN Emissions} = Emitting
         /\ \A k \in DOMAIN Emissions :
              Emissions[k].result = results'[Emissions[k].id][Len(results'[Emissions[k].id])]
<1> DEFINE S == Emitting
           n == Cardinality(S)
           rank == [id \in S |-> pending[id].rank]
           Pick(k) == CHOOSE id \in S : Cardinality(Older(id)) = k - 1
           Last(id) == results'[id][Len(results'[id])]
<1>1. \A id \in S : id \in Ids /\ pending[id].rank \in Nat
  BY DEF EngineTypeOK, IsMap, Pending
<1>2. Distinguishes(rank, S)
  <2>1. rank \in [S -> Nat]
    BY <1>1
  <2>2. \A x, y \in S : x # y => rank[x] # rank[y]
    BY <1>1 DEF RanksOrdered
  <2> QED
    BY <2>1, <2>2 DEF Distinguishes
<1>3. \A k : Pick(k) = Ranked(rank, S, k)
  <2>1. \A id \in S : Smaller(rank, S)[id] = Older(id)
    BY DEF Older, Smaller
  <2> QED
    BY <2>1 DEF Ranked
<1> HIDE DEF rank
<1>4. /\ n \in Nat
      /\ \A k \in 1..n : Pick(k) \in S
      /\ \A j, k \in 1..n : j # k => Pick(j) # Pick(k)
      /\ \A x \in S : \E k \in 1..n : Pick(k) = x
  <2> HIDE DEF S, Pick
  <2> QED
    BY <1>2, <1>3, RankedOnce DEF S
<1>5. Emissions = [k \in 1..n |-> [id |-> Pick(k), result |-> Last(Pick(k))]]
  BY DEF Emissions
<1>6. \A id \in S : Last(id) \in Result
  <2> SUFFICES ASSUME NEW id \in S
               PROVE  Last(id) \in Result
    OBVIOUS
  <2> DEFINE seq == results'[id]
  <2>1. seq \in Seq(Result) /\ seq # <<>>
    OBVIOUS
  <2> HIDE DEF seq
  <2>2. seq[Len(seq)] \in Result
    BY <2>1
  <2> QED
    BY <2>2 DEF seq
<1> HIDE DEF n, S, Pick, Last
<1>7. \A k \in 1..n : [id |-> Pick(k), result |-> Last(Pick(k))] \in Emission
  BY <1>1, <1>4, <1>6 DEF Emission
<1>8. Emissions \in Seq(Emission) /\ Len(Emissions) = n /\ DOMAIN Emissions = 1..n
  BY <1>4, <1>5, <1>7
<1>9. \A k \in 1..n : /\ Emissions[k].id = Pick(k)
                      /\ Emissions[k].result = Last(Emissions[k].id)
  BY <1>5
<1>10. \A j, k \in DOMAIN Emissions : j # k => Emissions[j].id # Emissions[k].id
  BY <1>4, <1>8, <1>9
<1>11. {Emissions[k].id : k \in DOMAIN Emissions} = S
  BY <1>4, <1>8, <1>9
<1>12. \A k \in DOMAIN Emissions : Emissions[k].result = Last(Emissions[k].id)
  BY <1>8, <1>9
<1> QED
  BY <1>4, <1>8, <1>10, <1>11, <1>12 DEF n, S, Last

\* A transfer or a sweep gives verdicts to pending exchanges, one each.
LEMMA NewVerdicts ==
  ASSUME EngineTypeOK, EngineTypeOK', RanksOrdered,
         IsFiniteSet(Reported), IsFiniteSet(DOMAIN pending),
         DOMAIN pending \subseteq Ids \ Reported,
         \/ Sweep
         \/ \E t \in Transfers : IngestChainTransfer(t)
         \/ UNCHANGED results
  PROVE  /\ Emitting \subseteq DOMAIN pending /\ Emitting \subseteq Ids \ Reported
         /\ Reported' = Reported \union Emitting
         /\ Cardinality(Reported') = Cardinality(Reported) + Cardinality(Emitting)
         /\ Emissions \in Seq(Emission)
         /\ Len(Emissions) = Cardinality(Emitting)
         /\ Cardinality(Emitting) \in Nat
         /\ \A j, k \in DOMAIN Emissions : j # k => Emissions[j].id # Emissions[k].id
         /\ {Emissions[k].id : k \in DOMAIN Emissions} = Emitting
         /\ \A k \in DOMAIN Emissions :
              results'[Emissions[k].id] = <<Emissions[k].result>>
<1>2. \A id \in Ids : results[id] \in Seq(Result) /\ results'[id] \in Seq(Result)
  BY DEF EngineTypeOK
<1>3. \A id \in Ids : results'[id] # results[id]
        => id \in DOMAIN pending /\ \E v : results'[id] = Append(results[id], v)
  <2>1. ASSUME Sweep, NEW id \in Ids, results'[id] # results[id]
        PROVE  id \in DOMAIN pending /\ \E v : results'[id] = Append(results[id], v)
    BY <2>1 DEF Sweep, Expired
  <2>2. ASSUME NEW t \in Transfers, IngestChainTransfer(t),
               NEW id \in Ids, results'[id] # results[id]
        PROVE  id \in DOMAIN pending /\ \E v : results'[id] = Append(results[id], v)
    <3>1. PICK c \in Candidates(t) : results' = [results EXCEPT ![c] = Append(@,
             ResultFor(c, ResultKindOf(MatchKind(Auth[c], t)), t))]
      BY <2>2 DEF IngestChainTransfer
    <3>2. results \in [Ids -> Seq(Result)] /\ c \in DOMAIN pending
      BY DEF Candidates, EngineTypeOK
    <3> DEFINE v == ResultFor(c, ResultKindOf(MatchKind(Auth[c], t)), t)
    <3>3. results' = [results EXCEPT ![c] = Append(results[c], v)]
      BY <3>1
    <3> HIDE DEF v
    <3>4. id = c
      BY <2>2, <3>2, <3>3
    <3>5. results'[c] = Append(results[c], v)
      BY <2>2, <3>2, <3>3, <3>4
    <3> QED
      BY <3>2, <3>4, <3>5
  <2> QED
    BY <2>1, <2>2
<1>4. Cardinality(Reported) \in Nat
  BY FS_CardinalityType
<1>5. Emitting \in SUBSET (DOMAIN pending)
  BY <1>3 DEF Emitting
<1>6. IsFiniteSet(Emitting)
  BY <1>4, <1>5, FS_Subset
<1>7. \A id \in Emitting : results'[id] \in Seq(Result) /\ results'[id] # <<>>
  <2> SUFFICES ASSUME NEW id \in Emitting
               PROVE  results'[id] \in Seq(Result) /\ results'[id] # <<>>
    OBVIOUS
  <2>1. id \in Ids /\ results[id] = <<>> /\ results'[id] # results[id]
    BY <1>4, <1>5 DEF Reported, Emitting
  <2> QED
    BY <1>2, <2>1
<1>8. Reported' = Reported \union Emitting
  <2>1. ASSUME NEW id \in Ids
        PROVE  results'[id] # <<>> <=> results[id] # <<>> \/ id \in Emitting
    <3>1. CASE id \in Emitting
      BY <1>7, <3>1
    <3>2. CASE id \notin Emitting
      BY <3>2 DEF Emitting
    <3> QED
      BY <3>1, <3>2
  <2> QED
    BY <1>5, <2>1 DEF Reported, Emitting
<1>9. Emitting \cap Reported = {}
  BY <1>4, <1>5
<1>10. /\ Emissions \in Seq(Emission)
       /\ Len(Emissions) = Cardinality(Emitting)
       /\ Cardinality(Emitting) \in Nat
       /\ \A j, k \in DOMAIN Emissions : j # k => Emissions[j].id # Emissions[k].id
       /\ {Emissions[k].id : k \in DOMAIN Emissions} = Emitting
       /\ \A k \in DOMAIN Emissions :
            Emissions[k].result = results'[Emissions[k].id][Len(results'[Emissions[k].id])]
  BY <1>5, <1>6, <1>7, EmissionFacts
<1>11. Cardinality(Reported \union Emitting) = Cardinality(Reported) + Cardinality(Emitting)
  <2> DEFINE R == Reported
             E == Emitting
  <2>1. IsFiniteSet(R) /\ IsFiniteSet(E) /\ R \cap E = {}
        /\ Cardinality(R) \in Nat /\ Cardinality(E) \in Nat
    BY <1>4, <1>6, <1>9, <1>10
  <2> HIDE DEF R, E
  <2>2. Cardinality(R \cup E) = Cardinality(R) + Cardinality(E) - Cardinality(R \cap E)
    BY <2>1, FS_Union
  <2>3. Cardinality(R \cap E) = 0
    BY <2>1, FS_EmptySet
  <2> QED
    BY <2>1, <2>2, <2>3 DEF R, E
<1>12. \A k \in DOMAIN Emissions : results'[Emissions[k].id] = <<Emissions[k].result>>
  <2> SUFFICES ASSUME NEW k \in DOMAIN Emissions
               PROVE  results'[Emissions[k].id] = <<Emissions[k].result>>
    OBVIOUS
  <2> DEFINE id == Emissions[k].id
             r == Emissions[k].result
  <2>1. id \in Emitting /\ r = results'[id][Len(results'[id])]
    BY <1>10
  <2> HIDE DEF id, r
  <2>2. id \in DOMAIN pending /\ id \in Ids /\ results'[id] # results[id]
    BY <1>5, <2>1 DEF Emitting
  <2>3. results[id] = <<>> /\ \E v : results'[id] = Append(results[id], v)
    BY <1>3, <1>5, <2>1, <2>2 DEF Reported
  <2>4. PICK v : results'[id] = <<v>>
    BY <2>3
  <2>5. r = v
    BY <2>1, <2>4
  <2> QED
    BY <2>4, <2>5 DEF id, r
<1> QED
  BY <1>5, <1>8, <1>10, <1>11, <1>12
============================================================================
