--------------------------- MODULE PipelineProofs --------------------------
(***************************************************************************)
(* Proofs about the proxy command: it calls the engine as Reconciliation   *)
(* assumes, so that all that is proved of the engine holds of it, its      *)
(* loops keep up with the proxy, and no verdict is lost while it runs; for *)
(* every number of exchanges, every outcome and every size of the queues.  *)
(***************************************************************************)
EXTENDS LivePipeline, ReconciliationProofs

----------------------------------------------------------------------------
\* The verdicts given so far are of closed exchanges, and so finitely many.
LEMMA ReportedFacts ==
  ASSUME Inductive, IsFiniteSet(DOMAIN closedAs)
  PROVE  /\ IsFiniteSet(Reported) /\ Cardinality(Reported) \in Nat
         /\ IsFiniteSet(DOMAIN pending)
         /\ DOMAIN pending \subseteq Ids \ Reported
<1>1. TypeOK /\ Accounted
  BY DEF Inductive
<1>2. DOMAIN pending \subseteq Ids
  BY <1>1 DEF TypeOK, EngineTypeOK, IsMap
<1>3. Reported \in SUBSET (DOMAIN closedAs) /\ DOMAIN pending \in SUBSET (DOMAIN closedAs)
  BY <1>1, <1>2, Placement DEF Reported, WorthWatching, Complete, Closed
<1>4. DOMAIN pending \subseteq Ids \ Reported
  BY <1>1, <1>2, Placement DEF Reported
<1>5. IsFiniteSet(Reported) /\ IsFiniteSet(DOMAIN pending)
  BY <1>3, FS_Subset
<1> QED
  BY <1>4, <1>5, FS_CardinalityType

LEMMA JournaledFinite ==
  ASSUME IsFiniteSet(Reported), Journaled \subseteq Reported
  PROVE  IsFiniteSet(Journaled) /\ Cardinality(Journaled) \in Nat
<1>1. Journaled \in SUBSET Reported
  OBVIOUS
<1>2. IsFiniteSet(Journaled)
  BY <1>1, FS_Subset
<1> QED
  BY <1>2, FS_CardinalityType

\* A transfer or a sweep: its verdicts are handed to the loop, or queue up, or
\* push older ones out, which are counted.
LEMMA EmitsTracked ==
  ASSUME PipelineInductive, TypeOK',
         Sweep \/ \E t \in Transfers : DeliverTransfer(t),
         EmitResults, UNCHANGED <<journal, command>>
  PROVE  /\ IsLoop(resultLoop', Emission) /\ InStep(resultLoop')
         /\ Len(resultLoop'.sub.queue) <= MaxQueue
         /\ Subscribed(resultLoop') <=> Subscribed(resultLoop)
         /\ VerdictsTracked'
<1>1. /\ Inductive /\ IsFiniteSet(DOMAIN closedAs)
      /\ IsLoop(resultLoop, Emission) /\ InStep(resultLoop)
      /\ Len(resultLoop.sub.queue) <= MaxQueue
      /\ command = "running" <=> Subscribed(resultLoop)
      /\ Journaled \subseteq Reported /\ IdsDistinct(resultLoop)
      /\ HeldIds(resultLoop) \subseteq Reported \ Journaled
      /\ EveryVerdictCounted
  BY DEF PipelineInductive, LoopsInStep, TeardownInOrder, VerdictsTracked
<1>2. /\ Emitting \subseteq Ids \ Reported
      /\ Reported' = Reported \union Emitting
      /\ Cardinality(Reported') = Cardinality(Reported) + Cardinality(Emitting)
      /\ Emissions \in Seq(Emission)
      /\ Len(Emissions) = Cardinality(Emitting)
      /\ Cardinality(Emitting) \in Nat
      /\ \A j, k \in DOMAIN Emissions : j # k => Emissions[j].id # Emissions[k].id
      /\ {Emissions[k].id : k \in DOMAIN Emissions} = Emitting
  <2>1. EngineTypeOK /\ EngineTypeOK' /\ RanksOrdered
    BY <1>1 DEF Inductive, TypeOK
  <2>2. /\ IsFiniteSet(Reported) /\ IsFiniteSet(DOMAIN pending)
        /\ DOMAIN pending \subseteq Ids \ Reported
    BY <1>1, ReportedFacts
  <2>3. Sweep \/ \E t \in Transfers : IngestChainTransfer(t)
    BY DEF DeliverTransfer
  <2> QED
    BY <2>1, <2>2, <2>3, NewVerdicts
<1>3. Fresh(Emissions, resultLoop)
  <2>1. \A k \in DOMAIN Emissions : Emissions[k].id \in Emitting
    BY <1>2
  <2> QED
    BY <1>1, <1>2, <2>1 DEF Fresh
<1>4. MaxQueue \in Nat \ {0} /\ resultLoop' = OfferAll(resultLoop, Emissions, MaxQueue)
  BY MaxQueueAssumption DEF EmitResults
<1> DEFINE events == Emissions
           l == resultLoop'
<1>5. events \in Seq(Emission) /\ Fresh(events, resultLoop)
      /\ l = OfferAll(resultLoop, events, MaxQueue)
  BY <1>2, <1>3, <1>4
<1> HIDE DEF events, l
<1>6. /\ IsLoop(l, Emission) /\ InStep(l) /\ Len(l.sub.queue) <= MaxQueue
      /\ Subscribed(l) <=> Subscribed(resultLoop)
      /\ IdsDistinct(l)
      /\ HeldIds(l) \subseteq HeldIds(resultLoop) \union {events[k].id : k \in DOMAIN events}
      /\ Subscribed(resultLoop) => Load(l) = Load(resultLoop) + Len(events)
  BY <1>1, <1>4, <1>5, OfferAllFacts
<1> USE DEF events, l
<1>7. Journaled' = Journaled
  BY DEF Journaled, Verdict
<1>8. HeldIds(resultLoop') \subseteq Reported' \ Journaled'
  BY <1>1, <1>2, <1>6, <1>7
<1>9. EveryVerdictCounted'
  <2> SUFFICES ASSUME command' = "running"
               PROVE  /\ Journaled' \subseteq Reported'
                      /\ Cardinality(Reported') =
                           Cardinality(Journaled') + Len(resultLoop'.hand)
                             + Len(resultLoop'.sub.queue) + resultLoop'.sub.dropped
    BY DEF EveryVerdictCounted
  <2>1. command = "running" /\ Subscribed(resultLoop)
    BY <1>1
  <2> DEFINE r == Cardinality(Reported)
             j == Cardinality(Journaled)
             e == Cardinality(Emitting)
             a == Load(resultLoop)
             b == Load(resultLoop')
  <2>2. j \in Nat /\ r \in Nat
    BY <1>1, ReportedFacts, JournaledFinite
  <2>3. a \in Nat
    BY <1>1, LoopFields
  <2>4. r = j + Len(resultLoop.hand) + Len(resultLoop.sub.queue) + resultLoop.sub.dropped
    BY <2>1, <1>1 DEF EveryVerdictCounted
  <2>5. b = a + e /\ e \in Nat
    BY <1>2, <1>6, <2>1
  <2>6. Cardinality(Reported') = r + e
    BY <1>2
  <2> HIDE DEF j, a, b, r, e
  <2>7. r = j + a
    BY <1>1, <2>2, <2>4, CountedLoad DEF a
  <2>8. r + e = j + b
    BY <2>2, <2>3, <2>5, <2>7
  <2>9. j + Len(resultLoop'.hand) + Len(resultLoop'.sub.queue) + resultLoop'.sub.dropped = j + b
    <3> HIDE DEF l
    <3>1. j + Len(l.hand) + Len(l.sub.queue) + l.sub.dropped = j + Load(l)
      BY <1>6, <2>2, CountedLoad
    <3> QED
      BY <3>1 DEF l, b
  <2> QED
    BY <1>1, <1>2, <1>7, <2>6, <2>8, <2>9 DEF j
<1> QED
  BY <1>1, <1>2, <1>6, <1>7, <1>8, <1>9 DEF VerdictsTracked

\* The body of the loop writes the verdict in hand to the log.
LEMMA ResultTracked ==
  ASSUME PipelineInductive, ResultStep
  PROVE  /\ IsLoop(resultLoop', Emission) /\ InStep(resultLoop')
         /\ Len(resultLoop'.sub.queue) <= MaxQueue
         /\ Subscribed(resultLoop') /\ Subscribed(resultLoop)
         /\ VerdictsTracked'
         /\ resultLoop.hand[1].id \in Ids
<1>1. /\ Inductive /\ IsFiniteSet(DOMAIN closedAs)
      /\ IsLoop(resultLoop, Emission) /\ InStep(resultLoop)
      /\ Len(resultLoop.sub.queue) <= MaxQueue
      /\ command = "running" <=> Subscribed(resultLoop)
      /\ Journaled \subseteq Reported /\ IdsDistinct(resultLoop)
      /\ HeldIds(resultLoop) \subseteq Reported \ Journaled
      /\ EveryVerdictCounted
  BY DEF PipelineInductive, LoopsInStep, TeardownInOrder, VerdictsTracked
<1>2. /\ Busy(resultLoop) /\ resultLoop' = AskAgain(resultLoop)
      /\ journal' = journal \union {[event |-> "reconcile.result", id |-> resultLoop.hand[1].id]}
      /\ UNCHANGED <<results, command>>
  BY DEF ResultStep, vars, engineVars
<1> DEFINE l == resultLoop'
           id == resultLoop.hand[1].id
<1>3. l = AskAgain(resultLoop)
  BY <1>2
<1> HIDE DEF l
<1>4. /\ IsLoop(l, Emission) /\ InStep(l) /\ Subscribed(resultLoop) /\ Subscribed(l)
      /\ Load(resultLoop) = Load(l) + 1
      /\ Len(l.sub.queue) <= Len(resultLoop.sub.queue)
  BY <1>1, <1>2, <1>3, AskAgainFacts
<1>5. /\ IdsDistinct(l)
      /\ id \in HeldIds(resultLoop)
      /\ HeldIds(l) \subseteq HeldIds(resultLoop) \ {id}
  BY <1>1, <1>2, <1>3, AskAgainDistinct DEF InStep
<1>6. Len(l.sub.queue) \in Nat /\ Len(resultLoop.sub.queue) \in Nat
  BY <1>1, <1>4, LoopFields
<1>7. Len(l.sub.queue) <= MaxQueue
  BY <1>1, <1>4, <1>6, MaxQueueAssumption
<1>8. Reported' = Reported /\ id \in Reported \ Journaled /\ id \in Ids
  BY <1>1, <1>2, <1>5 DEF Reported
<1>9. Journaled' = Journaled \union {id}
  BY <1>2, <1>8 DEF Journaled, Verdict
<1>10. EveryVerdictCounted'
  <2> DEFINE r == Cardinality(Reported)
             j == Cardinality(Journaled)
             a == Load(resultLoop)
             b == Load(l)
  <2>1. j \in Nat /\ r \in Nat /\ IsFiniteSet(Journaled)
    BY <1>1, ReportedFacts, JournaledFinite
  <2>2. b \in Nat
    BY <1>4, LoopFields
  <2>3. r = j + Len(resultLoop.hand) + Len(resultLoop.sub.queue) + resultLoop.sub.dropped
    BY <1>1, <1>4 DEF EveryVerdictCounted
  <2>4. Cardinality(Journaled') = j + 1
    BY <1>8, <1>9, <2>1, FS_AddElement
  <2>5. a = b + 1
    BY <1>4
  <2> HIDE DEF j, a, b, r
  <2>6. r = j + a
    BY <1>1, <2>1, <2>3, CountedLoad DEF a
  <2>7. r = (j + 1) + b /\ j + 1 \in Nat
    BY <2>1, <2>2, <2>5, <2>6
  <2>8. (j + 1) + Len(l.hand) + Len(l.sub.queue) + l.sub.dropped = (j + 1) + b
    BY <1>4, <2>7, CountedLoad DEF b
  <2> QED
    BY <1>1, <1>8, <1>9, <2>4, <2>7, <2>8 DEF r, l, EveryVerdictCounted
<1> QED
  BY <1>1, <1>4, <1>5, <1>7, <1>8, <1>9, <1>10 DEF l, VerdictsTracked

\* The other steps leave the verdicts where they are; the signal drops none.
LEMMA VerdictsLeft ==
  ASSUME PipelineInductive, UNCHANGED <<results, resultLoop>>, Journaled' = Journaled,
         command' = "running" => command = "running"
  PROVE  VerdictsTracked'
<1>1. VerdictsTracked /\ Reported' = Reported
  BY DEF PipelineInductive, Reported
<1> QED
  BY <1>1 DEF VerdictsTracked, EveryVerdictCounted, HeldIds, IdsDistinct, Busy
----------------------------------------------------------------------------
\* The first loop: the events of a handler, and what the body makes of them.

\* A stretch of one event, or of one and the error behind it.
Stretch(id, e, events) == events = <<e>> \/ events = <<e, Failed(id)>>

LEMMA EventTypes ==
  ASSUME NEW id \in Ids
  PROVE  /\ Opened(id) \in ProxyEvent /\ Failed(id) \in ProxyEvent
         /\ \A kind \in OutcomeKinds : ClosedWith(id, kind) \in ProxyEvent
         /\ Opened(id).event = "exchange.opened" /\ Opened(id).id = id
         /\ Failed(id).event = "proxy.error" /\ Failed(id).id = id
         /\ \A kind \in OutcomeKinds :
              /\ ClosedWith(id, kind).event = "exchange.closed"
              /\ ClosedWith(id, kind).id = id /\ ClosedWith(id, kind).outcome = kind
BY DEF Opened, Failed, ClosedWith, ProxyEvent

LEMMA OneOffered ==
  ASSUME NEW loop, NEW e, NEW limit
  PROVE  OfferAll(loop, <<e>>, limit) = Offer(loop, e, limit)
<1> DEFINE events == <<e>>
           after[k \in 0..Len(events)] ==
             IF k = 0 THEN loop ELSE Offer(after[k - 1], events[k], limit)
<1>1. after = [k \in 0..Len(events) |->
                 IF k = 0 THEN loop ELSE Offer(after[k - 1], events[k], limit)]
  OBVIOUS
<1>2. OfferAll(loop, events, limit) = after[Len(events)]
  BY DEF OfferAll
<1> HIDE DEF after
<1>3. Len(events) = 1 /\ events[1] = e
  OBVIOUS
<1>4. after[0] = loop
  BY <1>1, <1>3
<1>5. after[1] = Offer(after[0], e, limit)
  BY <1>1, <1>3
<1> QED
  BY <1>2, <1>3, <1>4, <1>5

LEMMA TwoOffered ==
  ASSUME NEW loop, NEW e, NEW f, NEW limit
  PROVE  OfferAll(loop, <<e, f>>, limit) = Offer(Offer(loop, e, limit), f, limit)
<1> DEFINE events == <<e, f>>
           after[k \in 0..Len(events)] ==
             IF k = 0 THEN loop ELSE Offer(after[k - 1], events[k], limit)
<1>1. after = [k \in 0..Len(events) |->
                 IF k = 0 THEN loop ELSE Offer(after[k - 1], events[k], limit)]
  OBVIOUS
<1>2. OfferAll(loop, events, limit) = after[Len(events)]
  BY DEF OfferAll
<1> HIDE DEF after
<1>3. Len(events) = 2 /\ events[1] = e /\ events[2] = f
  OBVIOUS
<1> HIDE DEF events
<1>4. after[0] = loop
  BY <1>1, <1>3
<1>5. after[1] = Offer(after[0], e, limit)
  BY <1>1, <1>3
<1>6. after[2] = Offer(after[1], f, limit)
  BY <1>1, <1>3
<1> QED
  BY <1>2, <1>3, <1>4, <1>5, <1>6 DEF events

\* The loop waits, or is over: the first event is in hand, the error behind it.
LEMMA ProxyOffered ==
  ASSUME PipelineInductive, Quiet, NEW id \in Ids, NEW e \in ProxyEvent,
         NEW events, Stretch(id, e, events),
         NEW l, l = OfferAll(proxyLoop, events, MaxQueue)
  PROVE  /\ IsLoop(l, ProxyEvent) /\ InStep(l)
         /\ Subscribed(l) <=> Subscribed(proxyLoop)
         /\ l.sub.dropped = 0 /\ Len(l.sub.queue) <= 1
         /\ \A k \in DOMAIN l.sub.queue : l.sub.queue[k].event = "proxy.error"
         /\ Subscribed(proxyLoop) => Busy(l) /\ l.hand[1] = e
         /\ ~Subscribed(proxyLoop) => l = proxyLoop /\ ~Busy(l)
<1>1. /\ IsLoop(proxyLoop, ProxyEvent) /\ InStep(proxyLoop) /\ ~Busy(proxyLoop)
      /\ proxyLoop.sub.dropped = 0 /\ Len(proxyLoop.sub.queue) <= 1
      /\ \A k \in DOMAIN proxyLoop.sub.queue : proxyLoop.sub.queue[k].event = "proxy.error"
      /\ MaxQueue \in Nat \ {0}
  BY MaxQueueAssumption
     DEF PipelineInductive, LoopsInStep, ProxyLoopInTime, ProxyLoopKeepsUp, Quiet
<1> DEFINE f == Failed(id)
           m == Offer(proxyLoop, e, MaxQueue)
<1>2. f \in ProxyEvent /\ f.event = "proxy.error"
  BY EventTypes
<1>3. \/ l = m
      \/ l = Offer(m, f, MaxQueue)
  BY OneOffered, TwoOffered DEF Stretch
<1> HIDE DEF f
<1>4. CASE ~Subscribed(proxyLoop)
  <2>1. m = proxyLoop /\ Offer(proxyLoop, f, MaxQueue) = proxyLoop
    BY <1>4 DEF Offer
  <2> QED
    BY <1>1, <1>3, <1>4, <2>1
<1>5. CASE Subscribed(proxyLoop)
  <2>1. /\ IsLoop(m, ProxyEvent) /\ InStep(m) /\ Subscribed(m)
        /\ m.hand = <<e>> /\ m.sub.queue = <<>>
        /\ m.sub.dropped = 0
    BY <1>1, <1>5, OfferToWaiting
  <2>2. Busy(m) /\ m.hand[1] = e /\ Len(m.sub.queue) = 0 /\ DOMAIN m.sub.queue = {}
    BY <2>1 DEF Busy
  <2>3. CASE l = m
    BY <1>5, <2>1, <2>2, <2>3
  <2>4. CASE l = Offer(m, f, MaxQueue)
    <3> HIDE DEF m
    <3>1. Len(m.sub.queue) <= MaxQueue /\ Len(m.sub.queue) # MaxQueue
      BY <1>1, <2>2
    <3>2. /\ IsLoop(l, ProxyEvent) /\ InStep(l) /\ Subscribed(l) /\ Busy(l)
          /\ l.hand = m.hand /\ Queued(m, l, f, MaxQueue)
      BY <1>1, <1>2, <2>1, <2>2, <2>4, <3>1, OfferToBusy
    <3>3. l.sub.queue = <<f>> /\ l.sub.dropped = 0
      BY <2>1, <3>1, <3>2 DEF Queued
    <3>4. Len(l.sub.queue) = 1 /\ DOMAIN l.sub.queue = {1} /\ l.sub.queue[1] = f
      BY <3>3
    <3> QED
      BY <1>2, <1>5, <2>2, <3>2, <3>3, <3>4
  <2> QED
    BY <1>3, <2>3, <2>4
<1> QED
  BY <1>4, <1>5

\* What a stretch of events of one exchange does, whatever the handler.
LEMMA HandlerEffect ==
  ASSUME PipelineInductive, Quiet, now <= Horizon, NEW id \in Ids, NEW e \in ProxyEvent,
         e.id = id, e.event = "exchange.closed" => e.outcome \in Outcomes,
         NEW events, Stretch(id, e, events), EmitAll(events)
  PROVE  /\ LoopsInStep' /\ ProxyLoopInTime' /\ VerdictsTracked'
         /\ journal' \subseteq JournalLine
         /\ Subscribed(proxyLoop') <=> Subscribed(proxyLoop)
         /\ \A event \in {"exchange.opened", "exchange.closed"}, o \in Ids :
              /\ Logged(event, o)' <=> Logged(event, o) \/ (event = e.event /\ o = id)
              /\ InHand(event, o)' <=> command = "running" /\ event = e.event /\ o = id
<1> DEFINE l == proxyLoop'
<1>1. /\ PipelineTypeOK /\ LoopsInStep /\ TeardownInOrder
      /\ journal \subseteq JournalLine
      /\ command = "running" <=> Subscribed(proxyLoop)
  BY DEF PipelineInductive, PipelineTypeOK, TeardownInOrder
<1>2. /\ l = OfferAll(proxyLoop, events, MaxQueue)
      /\ journal' = journal \union {LineOf(events[k]) : k \in DOMAIN events}
      /\ UNCHANGED <<results, resultLoop, command, now>>
  BY DEF EmitAll, vars, engineVars, timerVars
<1> HIDE DEF l
<1>3. /\ IsLoop(l, ProxyEvent) /\ InStep(l)
      /\ Subscribed(l) <=> Subscribed(proxyLoop)
      /\ l.sub.dropped = 0 /\ Len(l.sub.queue) <= 1
      /\ \A k \in DOMAIN l.sub.queue : l.sub.queue[k].event = "proxy.error"
      /\ Subscribed(proxyLoop) => Busy(l) /\ l.hand[1] = e
      /\ ~Subscribed(proxyLoop) => l = proxyLoop /\ ~Busy(l)
  BY <1>2, ProxyOffered
<1>4. LoopsInStep'
  BY <1>1, <1>2, <1>3 DEF l, LoopsInStep
<1>5. ProxyLoopInTime'
  BY <1>2, <1>3 DEF l, ProxyLoopInTime, ProxyLoopKeepsUp
<1>6. {LineOf(events[k]) : k \in DOMAIN events}
         \in {{LineOf(e)}, {LineOf(e), LineOf(Failed(id))}}
  <2>1. CASE events = <<e>>
    <3>1. DOMAIN events = {1} /\ events[1] = e
      BY <2>1
    <3> QED
      BY <3>1
  <2>2. CASE events = <<e, Failed(id)>>
    <3>1. DOMAIN events = {1, 2} /\ events[1] = e /\ events[2] = Failed(id)
      BY <2>2
    <3> QED
      BY <3>1
  <2> QED
    BY <2>1, <2>2 DEF Stretch
<1>7. /\ LineOf(e) = [event |-> e.event, id |-> id]
      /\ LineOf(Failed(id)) = [event |-> "proxy.error", id |-> id]
      /\ e.event \in {"exchange.opened", "exchange.closed", "proxy.error"}
  BY DEF LineOf, Failed, ProxyEvent
<1>8. /\ journal' \subseteq journal \union {[event |-> e.event, id |-> id],
                                         [event |-> "proxy.error", id |-> id]}
      /\ journal \subseteq journal' /\ [event |-> e.event, id |-> id] \in journal'
  BY <1>2, <1>6, <1>7
<1>9. journal' \subseteq JournalLine
  BY <1>1, <1>7, <1>8 DEF JournalLine
<1>10. \A event \in {"exchange.opened", "exchange.closed", "reconcile.result"}, o \in Ids :
         [event |-> event, id |-> o] \in journal'
           <=> [event |-> event, id |-> o] \in journal \/ (event = e.event /\ o = id)
  BY <1>8
<1>11. Journaled' = Journaled
  BY <1>7, <1>10 DEF Journaled, Verdict
<1>12. VerdictsTracked'
  BY <1>2, <1>11, VerdictsLeft
<1>13. \A event \in {"exchange.opened", "exchange.closed"}, o \in Ids :
          /\ Logged(event, o)' <=> Logged(event, o) \/ (event = e.event /\ o = id)
          /\ InHand(event, o)' <=> command = "running" /\ event = e.event /\ o = id
  BY <1>1, <1>3, <1>10 DEF l, Logged, InHand
<1> QED
  BY <1>3, <1>4, <1>5, <1>9, <1>12, <1>13 DEF l

\* What is left of the invariant once the engine's part, the loops' and the
\* verdicts' are known.
LEMMA Assembled ==
  ASSUME Inductive', IsFiniteSet(DOMAIN closedAs'),
         LoopsInStep', ProxyLoopInTime', VerdictsTracked',
         HandlersLogged', TeardownInOrder',
         pays' \subseteq Ids, journal' \subseteq JournalLine,
         exchange' \in [Ids -> {"none", "inFlight", "answered", "hung", "broken"}],
         chainLoops' \in BOOLEAN, command' \in {"running", "closing", "closed", "exited"}
  PROVE  PipelineInductive'
<1>1. Len(proxyLoop'.sub.queue) <= MaxQueue
  <2>1. IsLoop(proxyLoop', ProxyEvent) /\ Len(proxyLoop'.sub.queue) <= 1
    BY DEF LoopsInStep, ProxyLoopInTime, ProxyLoopKeepsUp
  <2> DEFINE n == Len(proxyLoop'.sub.queue)
             l == proxyLoop'
  <2>2. Len(l.sub.queue) \in Nat
    <3>1. IsLoop(l, ProxyEvent)
      BY <2>1
    <3> HIDE DEF l
    <3> QED
      BY <3>1, LoopFields
  <2> HIDE DEF n
  <2> QED
    BY <2>1, <2>2, MaxQueueAssumption DEF n
<1>2. PipelineTypeOK'
  BY <1>1 DEF Inductive, LoopsInStep, PipelineTypeOK
<1> QED
  BY <1>2 DEF PipelineInductive

\* The engine is not touched by a handler of the proxy.
LEMMA EngineLeft ==
  ASSUME Inductive, UNCHANGED vars
  PROVE  Inductive'
BY InductiveStep
----------------------------------------------------------------------------
\* One lemma per action.

LEMMA HandlersKeep ==
  ASSUME PipelineInductive, NEW id \in Ids,
         RequestArrives(id) \/ RequestBroken(id) \/ RequestEnds(id)
  PROVE  PipelineInductive'
<1>1. /\ Inductive /\ PipelineTypeOK /\ HandlersLogged /\ TeardownInOrder
      /\ IsFiniteSet(DOMAIN closedAs)
      /\ exchange \in [Ids -> {"none", "inFlight", "answered", "hung", "broken"}]
      /\ pays \subseteq Ids /\ chainLoops \in BOOLEAN
      /\ command \in {"running", "closing", "closed", "exited"}
  BY DEF PipelineInductive, PipelineTypeOK
\* A handler whose first event is e moves its exchange to the state `to`.
<1>2. ASSUME NEW from \in {"none", "inFlight"},
             NEW to \in {"inFlight", "answered", "hung", "broken"},
             Becomes(id, from, to),
             NEW e \in ProxyEvent, NEW events, Stretch(id, e, events), EmitAll(events),
             e.id = id, e.event = "exchange.closed" => e.outcome \in Outcomes,
             from = "none" => Serving /\ e.event # "exchange.closed",
             to = "inFlight" => from = "none" /\ e.event = "exchange.opened",
             from = "inFlight" => e.event # "exchange.opened"
      PROVE  PipelineInductive'
  <2>1. /\ Quiet /\ now <= Horizon /\ exchange[id] = from
        /\ exchange' = [exchange EXCEPT ![id] = to]
        /\ UNCHANGED <<vars, pays, resultLoop, chainLoops, command>>
        /\ UNCHANGED <<closedAs, decoded, sweeping>>
    BY <1>2 DEF Becomes, EmitAll, vars, timerVars, historyVars
  <2>2. /\ LoopsInStep' /\ ProxyLoopInTime' /\ VerdictsTracked'
        /\ journal' \subseteq JournalLine
        /\ Subscribed(proxyLoop') <=> Subscribed(proxyLoop)
        /\ \A event \in {"exchange.opened", "exchange.closed"}, o \in Ids :
              /\ Logged(event, o)' <=> Logged(event, o) \/ (event = e.event /\ o = id)
              /\ InHand(event, o)' <=> command = "running" /\ event = e.event /\ o = id
    BY <1>2, <2>1, HandlerEffect
  <2>3. Inductive' /\ IsFiniteSet(DOMAIN closedAs')
    BY <1>1, <2>1, EngineLeft
  <2>4. /\ exchange'[id] = to
        /\ \A o \in Ids \ {id} : exchange'[o] = exchange[o]
        /\ exchange' \in [Ids -> {"none", "inFlight", "answered", "hung", "broken"}]
    BY <1>1, <2>1
  <2>5. TeardownInOrder'
    <3>1. command \in {"closed", "exited"} => InFlight' = {}
      BY <1>1, <1>2, <2>1, <2>4 DEF TeardownInOrder, InFlight, Serving
    <3> QED
      BY <1>1, <2>1, <2>2, <3>1 DEF TeardownInOrder, Subscribed
  <2>6. HandlersLogged'
    <3>1. ASSUME NEW o \in Ids
          PROVE  /\ exchange'[o] = "none" => ~Logged("exchange.opened", o)'
                 /\ exchange'[o] = "inFlight" => Logged("exchange.opened", o)'
                 /\ exchange'[o] \in {"none", "inFlight"} => ~Logged("exchange.closed", o)'
                 /\ Logged("exchange.closed", o)' => Logged("exchange.opened", o)'
                 /\ InHand("exchange.closed", o)' => Logged("exchange.closed", o)' /\ ~Closed(o)'
                 /\ InHand("exchange.opened", o)' => Logged("exchange.opened", o)' /\ o \notin decoded'
                 /\ Closed(o)' => Logged("exchange.closed", o)'
                 /\ o \in decoded' => Logged("exchange.opened", o)' /\ o \in pays'
                 /\ command' = "running" =>
                      /\ Logged("exchange.closed", o)' => Closed(o)' \/ InHand("exchange.closed", o)'
                      /\ Logged("exchange.opened", o)' /\ o \in pays'
                           => o \in decoded' \/ InHand("exchange.opened", o)'
      <4>1. ~InHand("exchange.closed", o) /\ ~InHand("exchange.opened", o)
        BY <2>1 DEF Quiet, InHand
      <4>2. Closed(o)' <=> Closed(o)
        BY <2>1 DEF Closed
      <4>3. CASE o = id
        BY <1>1, <1>2, <2>1, <2>2, <2>4, <4>1, <4>2, <4>3 DEF HandlersLogged
      <4>4. CASE o # id
        BY <1>1, <2>1, <2>2, <2>4, <4>1, <4>2, <4>4 DEF HandlersLogged
      <4> QED
        BY <4>3, <4>4
    <3> QED
      BY <3>1 DEF HandlersLogged
  <2> QED
    BY <1>1, <2>1, <2>2, <2>3, <2>4, <2>5, <2>6, Assembled
<1>3. CASE RequestArrives(id)
  <2>1. /\ Serving /\ Becomes(id, "none", "inFlight")
        /\ EmitAll(<<Opened(id)>>) /\ Stretch(id, Opened(id), <<Opened(id)>>)
    BY <1>3 DEF RequestArrives, Stretch
  <2> QED
    BY <1>2, <2>1, EventTypes
<1>4. CASE RequestBroken(id)
  <2>1. Serving /\ Becomes(id, "none", "broken")
    BY <1>4 DEF RequestBroken
  <2>2. CASE EmitAll(<<Failed(id)>>)
    <3>1. Stretch(id, Failed(id), <<Failed(id)>>)
      BY DEF Stretch
    <3> QED
      BY <1>2, <2>1, <2>2, <3>1, EventTypes
  <2>3. CASE EmitAll(<<Opened(id), Failed(id)>>)
    <3>1. Stretch(id, Opened(id), <<Opened(id), Failed(id)>>)
      BY DEF Stretch
    <3> QED
      BY <1>2, <2>1, <2>3, <3>1, EventTypes
  <2> QED
    BY <1>4, <2>2, <2>3 DEF RequestBroken
<1>5. ASSUME NEW kind \in Outcomes, FetchFails(id, kind)
      PROVE  PipelineInductive'
  <2> DEFINE to == IF kind = "upstream_timeout" THEN "hung" ELSE "broken"
             e == ClosedWith(id, kind)
  <2>1. /\ Becomes(id, "inFlight", to) /\ to \in {"hung", "broken"}
        /\ EmitAll(<<e, Failed(id)>>)
    BY <1>5 DEF FetchFails
  <2>2. /\ e \in ProxyEvent /\ e.id = id /\ e.event = "exchange.closed" /\ e.outcome \in Outcomes
    BY OutcomesAssumption, EventTypes
  <2>3. Stretch(id, e, <<e, Failed(id)>>)
    BY DEF Stretch
  <2> HIDE DEF e, to
  <2> QED
    BY <1>2, <2>1, <2>2, <2>3
<1>6. ASSUME NEW kind \in Outcomes, BodyArrives(id, kind)
      PROVE  PipelineInductive'
  <2> DEFINE e == ClosedWith(id, kind)
  <2>1. /\ Becomes(id, "inFlight", "answered")
        /\ EmitAll(<<e>>) \/ EmitAll(<<e, Failed(id)>>)
    BY <1>6 DEF BodyArrives
  <2>2. /\ e \in ProxyEvent /\ e.id = id /\ e.event = "exchange.closed" /\ e.outcome \in Outcomes
    BY OutcomesAssumption, EventTypes
  <2>3. Stretch(id, e, <<e>>) /\ Stretch(id, e, <<e, Failed(id)>>)
    BY DEF Stretch
  <2> HIDE DEF e
  <2> QED
    BY <1>2, <2>1, <2>2, <2>3
<1>7. ASSUME NEW hangs \in BOOLEAN, BodyFails(id, hangs)
      PROVE  PipelineInductive'
  <2> DEFINE to == IF hangs THEN "hung" ELSE "broken"
  <2>1. Becomes(id, "inFlight", to) /\ EmitAll(<<Failed(id)>>) /\ to \in {"hung", "broken"}
    BY <1>7 DEF BodyFails
  <2>2. Stretch(id, Failed(id), <<Failed(id)>>)
    BY DEF Stretch
  <2> HIDE DEF to
  <2> QED
    BY <1>2, <2>1, <2>2, EventTypes
<1> QED
  BY <1>3, <1>4, <1>5, <1>6, <1>7 DEF RequestEnds

\* The body of the first loop: the engine gets an outcome or a payment that it
\* has not had of that exchange, before the Horizon, or nothing.
LEMMA ProxyStepCalls ==
  ASSUME PipelineInductive, ProxyStep
  PROVE  /\ [Next]_vars
         /\ LET e == proxyLoop.hand[1]
            IN /\ e \in ProxyEvent
               /\ \/ /\ e.event = "exchange.closed"
                     /\ closedAs' = Put(closedAs, e.id, e.outcome) /\ UNCHANGED decoded
                  \/ /\ e.event = "exchange.opened" /\ e.id \in pays
                     /\ UNCHANGED closedAs /\ decoded' = decoded \union {e.id}
                  \/ /\ e.event = "proxy.error" \/ (e.event = "exchange.opened" /\ e.id \notin pays)
                     /\ UNCHANGED <<closedAs, decoded>>
         /\ UNCHANGED <<results, timerVars, pays, resultLoop, exchange, chainLoops,
                        command, journal>>
         /\ Busy(proxyLoop) /\ proxyLoop' = AskAgain(proxyLoop)
<1> DEFINE e == proxyLoop.hand[1]
<1>1. Busy(proxyLoop) /\ proxyLoop' = AskAgain(proxyLoop)
  BY DEF ProxyStep
<1>2. /\ e \in ProxyEvent /\ e.id \in Ids
      /\ now <= Horizon
      /\ e.event = "exchange.closed" => e.outcome \in Outcomes
  <2>1. IsLoop(proxyLoop, ProxyEvent) /\ ProxyLoopInTime
    BY DEF PipelineInductive, LoopsInStep
  <2>2. e \in ProxyEvent
    BY <1>1, <2>1, LoopFields
  <2> QED
    BY <1>1, <2>1, <2>2 DEF ProxyLoopInTime, ProxyEvent
<1>3. /\ e.event = "exchange.closed" => ~Closed(e.id)
      /\ e.event = "exchange.opened" => e.id \notin decoded
  BY <1>1, <1>2 DEF PipelineInductive, HandlersLogged, InHand
<1>4. UNCHANGED <<timerVars, delivered, seen, pays, resultLoop, exchange, chainLoops,
                  command, journal>>
  BY DEF ProxyStep
<1>5. CASE /\ e.event = "exchange.closed"
           /\ IngestProxyEvent(e.id, e.outcome)
           /\ closedAs' = Put(closedAs, e.id, e.outcome)
           /\ UNCHANGED decoded
  <2>1. CloseExchange(e.id, e.outcome)
    BY <1>2, <1>3, <1>4, <1>5 DEF CloseExchange
  <2>2. Next
    BY <1>2, <1>5, <2>1 DEF Next
  <2> QED
    BY <1>1, <1>2, <1>4, <1>5, <2>2 DEF IngestProxyEvent
<1>6. CASE /\ e.event = "exchange.opened" /\ e.id \in pays
           /\ IngestDecoderEvent(e.id)
           /\ decoded' = decoded \union {e.id}
           /\ UNCHANGED closedAs
  <2>1. DecodePayment(e.id)
    BY <1>2, <1>3, <1>4, <1>6 DEF DecodePayment
  <2>2. Next
    BY <1>2, <2>1 DEF Next
  <2> QED
    BY <1>1, <1>2, <1>4, <1>6, <2>2 DEF IngestDecoderEvent
<1>7. CASE /\ e.event = "proxy.error" \/ (e.event = "exchange.opened" /\ e.id \notin pays)
           /\ UNCHANGED <<engineVars, closedAs, decoded>>
  BY <1>1, <1>2, <1>4, <1>7 DEF vars, historyVars, engineVars
<1> QED
  BY <1>5, <1>6, <1>7 DEF ProxyStep

LEMMA ProxyStepKeeps ==
  ASSUME PipelineInductive, ProxyStep
  PROVE  PipelineInductive'
<1> DEFINE e == proxyLoop.hand[1]
           l == proxyLoop'
<1>1. /\ Inductive /\ PipelineTypeOK /\ LoopsInStep /\ ProxyLoopInTime
      /\ HandlersLogged /\ TeardownInOrder
      /\ IsFiniteSet(DOMAIN closedAs) /\ TypeOK
      /\ IsLoop(proxyLoop, ProxyEvent) /\ InStep(proxyLoop)
  BY DEF PipelineInductive, LoopsInStep, PipelineTypeOK
<1>2. /\ [Next]_vars /\ e \in ProxyEvent
      /\ \/ /\ e.event = "exchange.closed"
            /\ closedAs' = Put(closedAs, e.id, e.outcome) /\ UNCHANGED decoded
         \/ /\ e.event = "exchange.opened" /\ e.id \in pays
            /\ UNCHANGED closedAs /\ decoded' = decoded \union {e.id}
         \/ /\ e.event = "proxy.error" \/ (e.event = "exchange.opened" /\ e.id \notin pays)
            /\ UNCHANGED <<closedAs, decoded>>
      /\ UNCHANGED <<results, timerVars, pays, resultLoop, exchange, chainLoops,
                     command, journal>>
      /\ Busy(proxyLoop) /\ proxyLoop' = AskAgain(proxyLoop)
  BY ProxyStepCalls
<1>3. Inductive'
  BY <1>1, <1>2, InductiveStep
<1> HIDE DEF l
<1>4. /\ IsLoop(l, ProxyEvent) /\ InStep(l) /\ Subscribed(proxyLoop) /\ Subscribed(l)
      /\ l.sub.dropped = proxyLoop.sub.dropped
      /\ Advanced(proxyLoop, l)
  BY <1>1, <1>2, AskAgainFacts DEF l
<1>5. /\ l.sub.queue = <<>> /\ l.sub.dropped = 0
      /\ Busy(l) => l.hand[1].event = "proxy.error"
  <2>1. CASE proxyLoop.sub.queue = <<>> /\ l.hand = <<>> /\ l.sub.queue = <<>>
    BY <1>1, <1>4, <2>1 DEF ProxyLoopInTime, ProxyLoopKeepsUp, Busy
  <2>2. CASE /\ proxyLoop.sub.queue # <<>>
             /\ l.hand = <<Head(proxyLoop.sub.queue)>>
             /\ l.sub.queue = Tail(proxyLoop.sub.queue)
    <3> DEFINE q == proxyLoop.sub.queue
    <3>1. /\ q \in Seq(ProxyEvent) /\ q # <<>> /\ Len(q) <= 1
          /\ \A k \in DOMAIN q : q[k].event = "proxy.error"
      BY <1>1, <2>2, LoopFields DEF ProxyLoopInTime, ProxyLoopKeepsUp
    <3>2. l.hand[1] = Head(q) /\ l.sub.queue = Tail(q)
      BY <2>2
    <3> HIDE DEF q
    <3>3. Tail(q) = <<>> /\ Head(q) = q[1] /\ 1 \in DOMAIN q
      BY <3>1
    <3> QED
      BY <1>1, <1>4, <3>1, <3>2, <3>3 DEF ProxyLoopInTime, ProxyLoopKeepsUp
  <2> QED
    BY <1>4, <2>1, <2>2 DEF Advanced
<1>6. LoopsInStep'
  BY <1>1, <1>2, <1>4 DEF l, LoopsInStep
<1>7. ProxyLoopInTime'
  <2>1. Len(l.sub.queue) = 0 /\ DOMAIN l.sub.queue = {}
    BY <1>5
  <2> QED
    BY <1>1, <1>2, <1>5, <2>1 DEF l, ProxyLoopInTime, ProxyLoopKeepsUp, timerVars
<1>8. VerdictsTracked'
  BY <1>2, VerdictsLeft DEF Journaled, Verdict
<1>9. TeardownInOrder'
  BY <1>1, <1>2, <1>4 DEF l, TeardownInOrder, InFlight, timerVars
<1>10. IsFiniteSet(DOMAIN closedAs')
  <2>1. DOMAIN closedAs' = DOMAIN closedAs \union {e.id} \/ closedAs' = closedAs
    BY <1>2 DEF Put
  <2> QED
    BY <1>1, <2>1, FS_AddElement
<1>11. HandlersLogged'
  <2>1. ASSUME NEW o \in Ids
        PROVE  /\ InHand("exchange.closed", o)' = FALSE
               /\ InHand("exchange.opened", o)' = FALSE
               /\ \A event : Logged(event, o)' <=> Logged(event, o)
               /\ Closed(o)' <=> Closed(o) \/ InHand("exchange.closed", o)
               /\ o \in decoded' <=> o \in decoded \/ (InHand("exchange.opened", o) /\ o \in pays)
    <3>1. ~InHand("exchange.closed", o)' /\ ~InHand("exchange.opened", o)'
      BY <1>5 DEF l, InHand
    <3>2. \A event : Logged(event, o)' <=> Logged(event, o)
      BY <1>2 DEF Logged
    <3>3. Closed(o)' <=> Closed(o) \/ InHand("exchange.closed", o)
      BY <1>2 DEF Closed, Put, InHand
    <3>4. o \in decoded' <=> o \in decoded \/ (InHand("exchange.opened", o) /\ o \in pays)
      BY <1>2 DEF InHand
    <3> QED
      BY <3>1, <3>2, <3>3, <3>4
  <2> QED
    BY <1>1, <1>2, <2>1 DEF HandlersLogged
<1> QED
  BY <1>1, <1>2, <1>3, <1>6, <1>7, <1>8, <1>9, <1>10, <1>11, Assembled DEF PipelineTypeOK

\* A step that leaves the log, the handlers and the first loop alone, and what
\* the engine was told.
LEMMA HandlersLeft ==
  ASSUME PipelineInductive,
         UNCHANGED <<closedAs, decoded, pays, exchange, proxyLoop, command>>,
         \A event \in {"exchange.opened", "exchange.closed"}, o \in Ids :
           Logged(event, o)' <=> Logged(event, o)
  PROVE  HandlersLogged'
BY DEF PipelineInductive, HandlersLogged, Closed, InHand, Busy

\* A transfer, or a sweep by the timer, between two callbacks.
LEMMA EmittersKeep ==
  ASSUME PipelineInductive,
         SweepTimer \/ \E t \in Transfers : TransferArrives(t)
  PROVE  PipelineInductive'
<1>1. /\ Inductive /\ PipelineTypeOK /\ LoopsInStep /\ ProxyLoopInTime
      /\ TeardownInOrder /\ IsFiniteSet(DOMAIN closedAs)
  BY DEF PipelineInductive
<1>2. /\ [Next]_vars
      /\ Sweep \/ \E t \in Transfers : DeliverTransfer(t)
      /\ EmitResults
      /\ UNCHANGED <<pays, exchange, proxyLoop, command, journal, closedAs, decoded, sweeping, now>>
      /\ chainLoops' \in BOOLEAN
      /\ chainLoops' => chainLoops
  <2>1. CASE SweepTimer
    BY <1>1, <2>1 DEF SweepTimer, IntervalSweep, Next, historyVars, PipelineTypeOK
  <2>2. ASSUME NEW t \in Transfers, TransferArrives(t)
        PROVE  /\ [Next]_vars
               /\ Sweep \/ \E u \in Transfers : DeliverTransfer(u)
               /\ EmitResults
               /\ UNCHANGED <<pays, exchange, proxyLoop, command, journal, closedAs, decoded,
                              sweeping, now>>
               /\ chainLoops' \in BOOLEAN
               /\ chainLoops' => chainLoops
    <3>1. Throws(t) \in BOOLEAN
      BY DEF Throws
    <3> QED
      BY <2>2, <3>1 DEF TransferArrives, DeliverTransfer, Next, timerVars
  <2> QED
    BY <2>1, <2>2
<1>3. Inductive' /\ TypeOK'
  <2>1. Inductive'
    BY <1>1, <1>2, InductiveStep
  <2> QED
    BY <2>1 DEF Inductive
<1>4. /\ IsLoop(resultLoop', Emission) /\ InStep(resultLoop')
      /\ Len(resultLoop'.sub.queue) <= MaxQueue
      /\ Subscribed(resultLoop') <=> Subscribed(resultLoop)
      /\ VerdictsTracked'
  BY <1>2, <1>3, EmitsTracked
<1>5. LoopsInStep'
  BY <1>1, <1>2, <1>4 DEF LoopsInStep
<1>6. ProxyLoopInTime'
  BY <1>1, <1>2 DEF ProxyLoopInTime, ProxyLoopKeepsUp, Busy
<1>7. HandlersLogged'
  BY <1>2, HandlersLeft DEF Logged
<1>8. TeardownInOrder'
  BY <1>1, <1>2, <1>4 DEF TeardownInOrder, InFlight, Subscribed
<1>9. /\ pays' \subseteq Ids /\ journal' \subseteq JournalLine
      /\ exchange' \in [Ids -> {"none", "inFlight", "answered", "hung", "broken"}]
      /\ command' \in {"running", "closing", "closed", "exited"}
      /\ IsFiniteSet(DOMAIN closedAs') /\ chainLoops' \in BOOLEAN
  BY <1>1, <1>2 DEF PipelineTypeOK
<1>10. Inductive' /\ VerdictsTracked'
  BY <1>3, <1>4
<1> QED
  BY <1>5, <1>6, <1>7, <1>8, <1>9, <1>10, Assembled

LEMMA ResultStepKeeps ==
  ASSUME PipelineInductive, ResultStep
  PROVE  PipelineInductive'
<1>1. /\ Inductive /\ PipelineTypeOK /\ LoopsInStep /\ ProxyLoopInTime
      /\ TeardownInOrder /\ IsFiniteSet(DOMAIN closedAs)
  BY DEF PipelineInductive
<1>2. /\ UNCHANGED <<vars, pays, exchange, proxyLoop, chainLoops, command>>
      /\ UNCHANGED <<closedAs, decoded, sweeping, now>>
      /\ journal' = journal \union {[event |-> "reconcile.result", id |-> resultLoop.hand[1].id]}
  BY DEF ResultStep, vars, timerVars, historyVars
<1>3. /\ IsLoop(resultLoop', Emission) /\ InStep(resultLoop')
      /\ Len(resultLoop'.sub.queue) <= MaxQueue
      /\ Subscribed(resultLoop') /\ Subscribed(resultLoop)
      /\ VerdictsTracked' /\ resultLoop.hand[1].id \in Ids
  BY ResultTracked
<1>4. Inductive'
  BY <1>1, <1>2, EngineLeft
<1>5. LoopsInStep'
  BY <1>1, <1>2, <1>3 DEF LoopsInStep
<1>6. ProxyLoopInTime'
  BY <1>1, <1>2 DEF ProxyLoopInTime, ProxyLoopKeepsUp, Busy
<1>7. HandlersLogged'
  BY <1>2, HandlersLeft DEF Logged
<1>8. TeardownInOrder'
  BY <1>1, <1>2, <1>3 DEF TeardownInOrder, InFlight, Subscribed
<1>9. journal' \subseteq JournalLine
  BY <1>1, <1>2, <1>3 DEF PipelineTypeOK, JournalLine
<1> QED
  BY <1>1, <1>2, <1>3, <1>4, <1>5, <1>6, <1>7, <1>8, <1>9, Assembled DEF PipelineTypeOK

\* The signal comes between two callbacks: nothing waits in either loop.
LEMMA TeardownKeeps ==
  ASSUME PipelineInductive, BeginTeardown
  PROVE  PipelineInductive'
<1>1. /\ Inductive /\ PipelineTypeOK /\ LoopsInStep /\ ProxyLoopInTime /\ HandlersLogged
      /\ VerdictsTracked /\ TeardownInOrder /\ IsFiniteSet(DOMAIN closedAs)
      /\ IsLoop(proxyLoop, ProxyEvent) /\ InStep(proxyLoop)
      /\ IsLoop(resultLoop, Emission) /\ InStep(resultLoop)
  BY DEF PipelineInductive, LoopsInStep
<1>2. /\ ~Busy(proxyLoop) /\ ~Busy(resultLoop)
      /\ command = "running" /\ command' = "closing"
      /\ proxyLoop' = Unsubscribed(proxyLoop) /\ resultLoop' = Unsubscribed(resultLoop)
      /\ chainLoops' = FALSE
      /\ UNCHANGED <<vars, pays, exchange, journal>>
      /\ UNCHANGED <<closedAs, decoded, sweeping, now, results>>
  BY DEF BeginTeardown, Quiet, vars, engineVars, timerVars, historyVars
<1> DEFINE l == proxyLoop'
           m == resultLoop'
<1>3. l = Unsubscribed(proxyLoop) /\ m = Unsubscribed(resultLoop)
  BY <1>2
<1> HIDE DEF l, m
<1>4. /\ IsLoop(l, ProxyEvent) /\ InStep(l) /\ ~Subscribed(l)
      /\ l.hand = <<>> /\ l.sub.queue = <<>>
      /\ l.sub.dropped = proxyLoop.sub.dropped
  BY <1>1, <1>2, <1>3, UnsubscribedFacts
<1>5. /\ IsLoop(m, Emission) /\ InStep(m) /\ ~Subscribed(m)
      /\ m.hand = <<>> /\ m.sub.queue = <<>>
  BY <1>1, <1>2, <1>3, UnsubscribedFacts
<1>6. Inductive'
  BY <1>1, <1>2, EngineLeft
<1>7. Len(<<>>) = 0 /\ DOMAIN <<>> = {}
  OBVIOUS
<1>8. LoopsInStep'
  BY <1>4, <1>5, <1>7, MaxQueueAssumption DEF l, m, LoopsInStep
<1>9. ProxyLoopInTime'
  BY <1>1, <1>4, <1>7 DEF l, ProxyLoopInTime, ProxyLoopKeepsUp, Busy
<1>10. VerdictsTracked'
  <2>1. Reported' = Reported /\ Journaled' = Journaled
    BY <1>2 DEF Reported, Journaled, Verdict
  <2>2. HeldIds(resultLoop') = {} /\ IdsDistinct(resultLoop')
    BY <1>5, <1>7 DEF m, HeldIds, IdsDistinct
  <2> QED
    BY <1>1, <1>2, <2>1, <2>2 DEF VerdictsTracked, EveryVerdictCounted
<1>11. HandlersLogged'
  <2>1. ASSUME NEW o \in Ids
        PROVE  /\ ~InHand("exchange.closed", o)' /\ ~InHand("exchange.opened", o)'
               /\ \A event : Logged(event, o)' <=> Logged(event, o)
               /\ Closed(o)' <=> Closed(o)
    BY <1>2, <1>4 DEF l, InHand, Busy, Logged, Closed
  <2> QED
    BY <1>1, <1>2, <2>1 DEF HandlersLogged
<1>12. TeardownInOrder'
  BY <1>1, <1>2, <1>4, <1>5 DEF l, m, TeardownInOrder
<1> QED
  BY <1>1, <1>2, <1>6, <1>8, <1>9, <1>10, <1>11, <1>12, Assembled DEF PipelineTypeOK

\* The rest of the teardown, and the clock: both loops stay as they are.
LEMMA RestKeeps ==
  ASSUME PipelineInductive,
         CloseAll \/ Exit \/ ClockTicks \/ UNCHANGED pipelineVars
  PROVE  PipelineInductive'
<1>1. /\ Inductive /\ PipelineTypeOK /\ LoopsInStep /\ ProxyLoopInTime /\ HandlersLogged
      /\ VerdictsTracked /\ TeardownInOrder /\ IsFiniteSet(DOMAIN closedAs)
  BY DEF PipelineInductive
<1>2. /\ [Next]_vars
      /\ UNCHANGED <<pays, resultLoop, exchange, proxyLoop, chainLoops, journal>>
      /\ UNCHANGED <<closedAs, decoded, results>>
      /\ command' \in {"running", "closing", "closed", "exited"}
      /\ command' = "running" <=> command = "running"
  BY <1>1 DEF CloseAll, Exit, ClockTicks, Close, Advance, Next, pipelineVars,
              vars, engineVars, historyVars, PipelineTypeOK
<1>3. Inductive'
  BY <1>1, <1>2, InductiveStep
<1>4. LoopsInStep'
  BY <1>1, <1>2 DEF LoopsInStep
<1>5. ProxyLoopInTime'
  <2>1. now' = now \/ ~Busy(proxyLoop)
    BY DEF CloseAll, Exit, ClockTicks, Close, Quiet, pipelineVars, vars, timerVars
  <2> QED
    BY <1>1, <1>2, <2>1 DEF ProxyLoopInTime, ProxyLoopKeepsUp, Busy
<1>6. VerdictsTracked'
  BY <1>2, VerdictsLeft DEF Journaled, Verdict
<1>7. HandlersLogged'
  BY <1>1, <1>2 DEF HandlersLogged, Closed, InHand, Logged, Busy
<1>8. TeardownInOrder'
  <2>1. sweeping' <=> command' \in {"running", "closing"}
    BY <1>1 DEF TeardownInOrder, CloseAll, Exit, ClockTicks, Close, Advance,
                pipelineVars, vars, timerVars
  <2>2. command' \in {"closed", "exited"} => InFlight' = {}
    BY <1>1, <1>2 DEF TeardownInOrder, InFlight, CloseAll, Exit, ClockTicks, pipelineVars
  <2> QED
    BY <1>1, <1>2, <2>1, <2>2 DEF TeardownInOrder, Subscribed
<1> QED
  BY <1>1, <1>2, <1>3, <1>4, <1>5, <1>6, <1>7, <1>8, Assembled DEF PipelineTypeOK

----------------------------------------------------------------------------
\* The theorems.

LEMMA PipelineStarts == PipelineInit => PipelineInductive
<1> SUFFICES ASSUME PipelineInit
             PROVE  PipelineInductive
  OBVIOUS
<1>1. Inductive /\ Init
  BY InductiveInit DEF PipelineInit
<1>2. /\ proxyLoop = NewLoop /\ resultLoop = NewLoop /\ journal = {}
      /\ exchange = [id \in Ids |-> "none"] /\ pays \subseteq Ids
      /\ chainLoops = TRUE /\ command = "running"
      /\ sweeping = TRUE /\ decoded = {} /\ DOMAIN closedAs = {}
      /\ results = [id \in Ids |-> <<>>]
  BY DEF PipelineInit, Init, EngineInit
<1>3. /\ IsLoop(NewLoop, ProxyEvent) /\ IsLoop(NewLoop, Emission)
      /\ InStep(NewLoop) /\ Subscribed(NewLoop)
      /\ NewLoop.hand = <<>> /\ NewLoop.sub.queue = <<>> /\ NewLoop.sub.dropped = 0
  BY NewLoopFacts
<1>4. ~Busy(NewLoop) /\ Len(NewLoop.sub.queue) = 0 /\ DOMAIN NewLoop.sub.queue = {}
      /\ Len(NewLoop.hand) = 0 /\ DOMAIN NewLoop.hand = {}
  BY <1>3 DEF Busy
<1>5. IsFiniteSet(DOMAIN closedAs)
  BY <1>2, FS_EmptySet
<1>6. LoopsInStep
  BY <1>2, <1>3, <1>4, MaxQueueAssumption DEF LoopsInStep
<1>7. ProxyLoopInTime
  BY <1>2, <1>3, <1>4 DEF ProxyLoopInTime, ProxyLoopKeepsUp
<1>8. HandlersLogged
  BY <1>2, <1>4 DEF HandlersLogged, Logged, InHand, Closed
<1>9. TeardownInOrder
  BY <1>2, <1>3 DEF TeardownInOrder
<1>10. VerdictsTracked
  <2>1. Reported = {} /\ Journaled = {}
    BY <1>2 DEF Reported, Journaled
  <2>2. HeldIds(resultLoop) = {} /\ IdsDistinct(resultLoop)
    BY <1>2, <1>4 DEF HeldIds, IdsDistinct
  <2>3. Cardinality({}) = 0
    BY FS_EmptySet
  <2> QED
    BY <1>2, <1>3, <1>4, <2>1, <2>2, <2>3 DEF VerdictsTracked, EveryVerdictCounted
<1>11. PipelineTypeOK
  BY <1>1, <1>2, <1>3, <1>4, MaxQueueAssumption DEF PipelineTypeOK, Inductive
<1> QED
  BY <1>1, <1>5, <1>6, <1>7, <1>8, <1>9, <1>10, <1>11 DEF PipelineInductive

LEMMA PipelineKeeps ==
  ASSUME PipelineInductive, [PipelineNext]_pipelineVars
  PROVE  PipelineInductive'
BY HandlersKeep, ProxyStepKeeps, EmittersKeep, ResultStepKeeps, TeardownKeeps, RestKeeps
   DEF PipelineNext

\* Every reachable state of the command satisfies the inductive invariant.
THEOREM PipelineInvariant == PipelineSpec => []PipelineInductive
BY PipelineStarts, PipelineKeeps, PTL DEF PipelineSpec

\* The loops, the log, the handlers and the engine keep their types, and no
\* queue grows past its limit.
THEOREM PipelineTypeCorrect == PipelineSpec => []PipelineTypeOK
<1>1. PipelineInductive => PipelineTypeOK
  BY DEF PipelineInductive
<1> QED
  BY <1>1, PipelineInvariant, PTL

\* The subscription of the proxy's events never drops one (cli/proxy-command.ts).
THEOREM ProxyLoopAlwaysKeepsUp == PipelineSpec => []ProxyLoopKeepsUp
<1>1. PipelineInductive => ProxyLoopKeepsUp
  BY DEF PipelineInductive, ProxyLoopInTime
<1> QED
  BY <1>1, PipelineInvariant, PTL

\* No verdict is lost uncounted while the command runs, whatever the number of
\* verdicts one sweep emits and the size of the queue.
THEOREM NoVerdictLost == PipelineSpec => []EveryVerdictCounted
<1>1. PipelineInductive => EveryVerdictCounted
  BY DEF PipelineInductive, VerdictsTracked
<1> QED
  BY <1>1, PipelineInvariant, PTL

\* The engine knows an exchange by exactly the halves it was told of.
THEOREM EngineKnowsTheHalves == PipelineSpec => []HalvesKnown
<1>1. PipelineInductive => HalvesKnown
  <2> SUFFICES ASSUME PipelineInductive, Quiet, command = "running", NEW id \in Ids
               PROVE  /\ Closed(id) <=> Logged("exchange.closed", id)
                      /\ id \in decoded <=> Logged("exchange.opened", id) /\ id \in pays
                      /\ id \in DOMAIN partial /\ exchange[id] # "inFlight"
                           => id \notin pays \/ ~Logged("exchange.closed", id)
    BY DEF HalvesKnown, Logged
  <2>1. HandlersLogged /\ HalvesRecorded
    BY DEF PipelineInductive, Inductive
  <2>2. ~InHand("exchange.closed", id) /\ ~InHand("exchange.opened", id)
    BY DEF Quiet, InHand
  <2>3. Closed(id) <=> Logged("exchange.closed", id)
    BY <2>1, <2>2 DEF HandlersLogged
  <2>4. id \in decoded <=> Logged("exchange.opened", id) /\ id \in pays
    BY <2>1, <2>2 DEF HandlersLogged
  <2>5. Logged("exchange.closed", id) => Logged("exchange.opened", id)
    BY <2>1 DEF HandlersLogged
  <2> QED
    BY <2>1, <2>3, <2>4, <2>5 DEF HalvesRecorded
<1> QED
  BY <1>1, PipelineInvariant, PTL

\* After the engine and the log are closed nothing is left that could use them.
THEOREM ExitIsClean == PipelineSpec => []CleanExit
<1>1. PipelineInductive => CleanExit
  <2> SUFFICES ASSUME PipelineInductive, command \in {"closed", "exited"}
               PROVE  /\ InFlight = {} /\ ~sweeping /\ ~chainLoops
                      /\ Ended(proxyLoop) /\ Ended(resultLoop)
    BY DEF CleanExit
  <2>1. /\ InStep(proxyLoop) /\ InStep(resultLoop)
        /\ ~Subscribed(proxyLoop) /\ ~Subscribed(resultLoop)
        /\ InFlight = {} /\ ~sweeping /\ ~chainLoops
    BY DEF PipelineInductive, LoopsInStep, TeardownInOrder, PipelineTypeOK
  <2> QED
    BY <2>1 DEF InStep, InOrder, Subscribed, Ended, Awaited
<1> QED
  BY <1>1, PipelineInvariant, PTL

LEMMA PipelineCalls ==
  ASSUME PipelineInductive, [PipelineNext]_pipelineVars
  PROVE  [Next]_vars
<1>1. CASE \E id \in Ids : RequestArrives(id) \/ RequestBroken(id) \/ RequestEnds(id)
  BY <1>1 DEF RequestArrives, RequestBroken, RequestEnds, FetchFails, BodyArrives,
              BodyFails, EmitAll
<1>2. CASE ProxyStep
  BY <1>2, ProxyStepCalls
<1>3. CASE \E t \in Transfers : TransferArrives(t)
  BY <1>3 DEF TransferArrives, Next
<1>4. CASE SweepTimer
  BY <1>4 DEF SweepTimer, Next
<1>5. CASE CloseAll \/ ClockTicks
  BY <1>5 DEF CloseAll, ClockTicks, Next
<1>6. CASE ResultStep \/ BeginTeardown \/ Exit \/ UNCHANGED pipelineVars
  BY <1>6 DEF ResultStep, BeginTeardown, Exit, pipelineVars
<1> QED
  BY <1>1, <1>2, <1>3, <1>4, <1>5, <1>6 DEF PipelineNext

\* The proxy command keeps the discipline the engine needs: one close and at
\* most one payment per exchange, none while the other half is being joined.
THEOREM CommandKeepsTheDiscipline == PipelineSpec => ImplementsReconciliation
<1>1. PipelineInit => Init
  BY DEF PipelineInit
<1>2. PipelineInductive /\ [PipelineNext]_pipelineVars => [Next]_vars
  BY PipelineCalls
<1> QED
  BY <1>1, <1>2, PipelineInvariant, PTL DEF PipelineSpec, ImplementsReconciliation, Spec

\* So what is proved of the engine holds of the command: every exchange is
\* accounted for, and no verdict is given without its reason.
THEOREM CommandVerdictsEarned ==
  PipelineSpec => [](Accounted /\ VerdictsJustified /\ NoTransferWasted /\ OldestFirst)
BY CommandKeepsTheDiscipline, EachExchangeAccounted, EveryVerdictJustified,
   NoTransferIsWasted, TransfersGoToTheOldest, PTL DEF ImplementsReconciliation

\* And each exchange goes through the lifecycle of module ExchangeWatch.
THEOREM CommandImplementsWatch == PipelineSpec => ImplementsExchangeWatch
BY CommandKeepsTheDiscipline, EngineImplementsWatch DEF ImplementsReconciliation

\* While the command's sweep timer runs, no exchange is held, and no verdict
\* delayed, for longer than the watch timeout, the interval and the timer's
\* latency together.
THEOREM CommandHoldsNobodyTooLong ==
  ASSUME WatchTimeout > 0
  PROVE  PipelineSpec => []HeldBounded
BY CommandKeepsTheDiscipline, NobodyIsHeldTooLong DEF ImplementsReconciliation
============================================================================
