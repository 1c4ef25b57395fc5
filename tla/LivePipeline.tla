---------------------------- MODULE LivePipeline ---------------------------
(***************************************************************************)
(* `x402trace proxy --reconcile` end to end: the proxy's request handlers  *)
(* (src/proxy/proxy.ts) emit events, a loop feeds them through the decoder *)
(* to the engine, another feeds it transfers, its interval sweeps, a third *)
(* loop writes its results to the log, and a signal tears all of it down   *)
(* (src/cli/proxy-command.ts).                                             *)
(*                                                                         *)
(* The bodies of the three loops await nothing but the next event, so each *)
(* callback of the event loop (a request, an answer, a timer, a signal)    *)
(* finds them idle: their steps are microtasks and run first.              *)
(***************************************************************************)
EXTENDS Reconciliation, ResultStream

VARIABLES
  pays,       \* the exchanges whose request carries a readable payment header
  exchange,   \* what has become of each exchange's request handler
  proxyLoop,  \* the loop over proxyHandle.events
  chainLoops, \* the loop over the chain subscription is waiting
  command,    \* where runProxyCommand is
  journal     \* the lines of the log, by event and exchange

pipelineVars == <<vars, pays, resultLoop, exchange, proxyLoop, chainLoops, command, journal>>

ProxyEvent ==
  [event : {"exchange.opened", "exchange.closed", "proxy.error"}, id : Ids,
   outcome : OutcomeKinds \union {NoOutcome}]
Opened(id) == [event |-> "exchange.opened", id |-> id, outcome |-> NoOutcome]
ClosedWith(id, kind) == [event |-> "exchange.closed", id |-> id, outcome |-> kind]
Failed(id) == [event |-> "proxy.error", id |-> id, outcome |-> NoOutcome]

JournalLine ==
  [event : {"exchange.opened", "exchange.closed", "proxy.error",
            "reconcile.result"}, id : Ids]
LineOf(e) == [event |-> e.event, id |-> e.id]

PipelineTypeOK ==
  /\ TypeOK
  /\ IsLoop(resultLoop, Emission) /\ Len(resultLoop.sub.queue) <= MaxQueue
  /\ IsLoop(proxyLoop, ProxyEvent) /\ Len(proxyLoop.sub.queue) <= MaxQueue
  /\ pays \subseteq Ids
  /\ exchange \in [Ids -> {"none", "inFlight", "answered", "hung", "broken"}]
  /\ chainLoops \in BOOLEAN
  /\ command \in {"running", "closing", "closed", "exited"}
  /\ journal \subseteq JournalLine

PipelineInit ==
  /\ Init
  /\ pays \in SUBSET Ids
  /\ resultLoop = NewLoop
  /\ exchange = [id \in Ids |-> "none"]
  /\ proxyLoop = NewLoop
  /\ chainLoops = TRUE
  /\ command = "running"
  /\ journal = {}

InFlight == {id \in Ids : exchange[id] = "inFlight"}
\* Slip (faulty variants the checks must catch): the loops' bodies await I/O.
QuietOrNot == TRUE
Quiet == ~Busy(proxyLoop) /\ ~Busy(resultLoop)
----------------------------------------------------------------------------
\* The proxy's request handler, cut at its awaits.

\* emit(), for the events of one synchronous stretch: the bus, then the log.
EmitAll(events) ==
  /\ proxyLoop' = OfferAll(proxyLoop, events, MaxQueue)
  /\ journal' = journal \union {LineOf(events[k]) : k \in DOMAIN events}
  /\ UNCHANGED <<vars, pays, resultLoop, chainLoops, command>>

Becomes(id, from, to) ==
  /\ Quiet
  /\ now <= Horizon
  /\ exchange[id] = from
  /\ exchange' = [exchange EXCEPT ![id] = to]

\* The server takes no new connection once the teardown has closed it; a request
\* that was being read at the signal may still be read to its end.
Serving == command \in {"running", "closing"}

\* The request has been read and is sent on.
RequestArrives(id) ==
  /\ Serving
  /\ Becomes(id, "none", "inFlight")
  /\ EmitAll(<<Opened(id)>>)

\* Reading the request fails, or its path makes no upstream URL.
RequestBroken(id) ==
  /\ Serving
  /\ Becomes(id, "none", "broken")
  /\ \/ EmitAll(<<Failed(id)>>)
     \/ EmitAll(<<Opened(id), Failed(id)>>)

\* Slip: the handler goes on after answering 502.
FetchFailsAndGoesOn(id, kind) ==
  /\ Becomes(id, "inFlight", "inFlight")
  /\ kind \in {"upstream_timeout", "unknown"}
  /\ EmitAll(<<ClosedWith(id, kind), Failed(id)>>)

\* fetch() rejects: the upstream timeout, or any other failure.
FetchFails(id, kind) ==
  /\ Becomes(id, "inFlight", IF kind = "upstream_timeout" THEN "hung" ELSE "broken")
  /\ kind \in {"upstream_timeout", "unknown"}
  /\ EmitAll(<<ClosedWith(id, kind), Failed(id)>>)

\* The whole answer has been read; passing on a header may throw after that.
BodyArrives(id, kind) ==
  /\ Becomes(id, "inFlight", "answered")
  /\ kind \in {"paid", "rejected", "unknown"}
  /\ \/ EmitAll(<<ClosedWith(id, kind)>>)
     \/ EmitAll(<<ClosedWith(id, kind), Failed(id)>>)

\* Reading the answer's body fails: the upstream timeout covers that too.
BodyFails(id, hangs) ==
  /\ Becomes(id, "inFlight", IF hangs THEN "hung" ELSE "broken")
  /\ EmitAll(<<Failed(id)>>)
----------------------------------------------------------------------------
\* The three loops of the proxy command and the engine's timer.

\* The loop over the proxy's events: the engine first, then the decoder, whose
\* only event the engine takes is the payment of an exchange.opened.
ProxyStep ==
  /\ Busy(proxyLoop)
  /\ LET e == proxyLoop.hand[1]
     IN \/ /\ e.event = "exchange.closed"
           /\ IngestProxyEvent(e.id, e.outcome)
           /\ closedAs' = Put(closedAs, e.id, e.outcome)
           /\ UNCHANGED decoded
        \/ /\ e.event = "exchange.opened" /\ e.id \in pays
           /\ IngestDecoderEvent(e.id)
           /\ decoded' = decoded \union {e.id}
           /\ UNCHANGED closedAs
        \/ /\ e.event = "proxy.error" \/ (e.event = "exchange.opened" /\ e.id \notin pays)
           /\ UNCHANGED <<engineVars, closedAs, decoded>>
  /\ proxyLoop' = AskAgain(proxyLoop)
  /\ UNCHANGED <<timerVars, delivered, seen, pays, resultLoop, exchange, chainLoops,
                 command, journal>>

\* The loop over the chain's transfers ends if the engine throws.
TransferArrives(t) ==
  /\ Quiet
  /\ chainLoops
  /\ DeliverTransfer(t)
  /\ EmitResults
  /\ chainLoops' = ~Throws(t)
  /\ UNCHANGED <<pays, exchange, proxyLoop, command, journal>>

SweepTimer ==
  /\ Quiet
  /\ IntervalSweep
  /\ EmitResults
  /\ UNCHANGED <<pays, exchange, proxyLoop, chainLoops, command, journal>>

\* Slip: only what the chain says is written to the log.
ResultStepOnChainOnly ==
  /\ Busy(resultLoop)
  /\ LET e == resultLoop.hand[1]
     IN journal' = IF e.result.onChain = NoTransfer THEN journal
                   ELSE journal \union {[event |-> "reconcile.result", id |-> e.id]}
  /\ resultLoop' = AskAgain(resultLoop)
  /\ UNCHANGED <<vars, pays, exchange, proxyLoop, chainLoops, command>>
\* The loop over the engine's results.
ResultStep ==
  /\ Busy(resultLoop)
  /\ journal' = journal \union {[event |-> "reconcile.result", id |-> resultLoop.hand[1].id]}
  /\ resultLoop' = AskAgain(resultLoop)
  /\ UNCHANGED <<vars, pays, exchange, proxyLoop, chainLoops, command>>

\* Slip: the loop over the results is left subscribed.
BeginTeardownKeepsResults ==
  /\ Quiet
  /\ command = "running"
  /\ command' = "closing"
  /\ proxyLoop' = Unsubscribed(proxyLoop)
  /\ chainLoops' = FALSE
  /\ UNCHANGED <<vars, pays, resultLoop, exchange, journal>>
\* SIGINT or SIGTERM: teardown() unsubscribes the three loops ...
BeginTeardown ==
  /\ Quiet
  /\ command = "running"
  /\ command' = "closing"
  /\ proxyLoop' = Unsubscribed(proxyLoop)
  /\ resultLoop' = Unsubscribed(resultLoop)
  /\ chainLoops' = FALSE
  /\ UNCHANGED <<vars, pays, exchange, journal>>

\* Slip: the server is closed without waiting for its requests.
CloseAtOnce ==
  /\ Quiet
  /\ command = "closing"
  /\ Close
  /\ command' = "closed"
  /\ UNCHANGED <<pays, resultLoop, exchange, proxyLoop, chainLoops, journal>>
\* ... waits for the requests in flight, and closes the engine and the log ...
CloseAll ==
  /\ Quiet
  /\ command = "closing"
  /\ InFlight = {}
  /\ Close
  /\ command' = "closed"
  /\ UNCHANGED <<pays, resultLoop, exchange, proxyLoop, chainLoops, journal>>

\* ... and waits for the loops to end.
Exit ==
  /\ command = "closed"
  /\ Ended(proxyLoop) /\ Ended(resultLoop) /\ ~chainLoops
  /\ command' = "exited"
  /\ UNCHANGED <<vars, pays, resultLoop, exchange, proxyLoop, chainLoops, journal>>

\* Bounds: the upstream timeout ends every request before the Horizon, and once
\* the engine is closed nothing depends on time.
ClockTicks ==
  /\ Quiet
  /\ command \in {"running", "closing"}
  /\ now = Horizon => InFlight = {}
  /\ Advance
  /\ UNCHANGED <<pays, resultLoop, exchange, proxyLoop, chainLoops, command, journal>>

RequestEnds(id) ==
  \/ \E kind \in Outcomes : FetchFails(id, kind) \/ BodyArrives(id, kind)
  \/ \E hangs \in BOOLEAN : BodyFails(id, hangs)

PipelineNext ==
  \/ \E id \in Ids : RequestArrives(id) \/ RequestBroken(id) \/ RequestEnds(id)
  \/ ProxyStep
  \/ \E t \in Transfers : TransferArrives(t)
  \/ SweepTimer
  \/ ResultStep
  \/ BeginTeardown
  \/ CloseAll
  \/ Exit
  \/ ClockTicks

PipelineSpec == PipelineInit /\ [][PipelineNext]_pipelineVars

\* The event loop runs what is due, the clock runs, fetch() settles (at the
\* latest by its timeout), and the awaits of the teardown settle.
FairPipelineSpec ==
  /\ PipelineSpec
  /\ WF_pipelineVars(ProxyStep)
  /\ WF_pipelineVars(ResultStep)
  /\ WF_pipelineVars(SweepTimer)
  /\ WF_pipelineVars(ClockTicks)
  /\ WF_pipelineVars(CloseAll)
  /\ WF_pipelineVars(Exit)
  /\ \A id \in Ids : WF_pipelineVars(RequestEnds(id))
----------------------------------------------------------------------------
\* What the pipeline promises.

\* The callers of the engine keep the discipline module Reconciliation assumes:
\* one close and at most one payment per exchange, whatever fails on the way,
\* so all that is proved of that module holds of the running command.
ImplementsReconciliation == Spec

\* The proxy's events never overtake the loop: it drops none, and queues one at
\* most (the second event of a stretch that emits two).
ProxyLoopKeepsUp == proxyLoop.sub.dropped = 0 /\ Len(proxyLoop.sub.queue) <= 1

\* Between two callbacks, while the command runs, every exchange that was read
\* is known to the engine by exactly the halves it has: the payment if its
\* header was readable, the outcome unless it is in flight or broke.  So an
\* entry of the Map of halves that never leaves it is that of an exchange
\* without payment, or of one the proxy never closed.
HalvesKnown ==
  Quiet /\ command = "running" =>
    \A id \in Ids :
      LET logged(event) == [event |-> event, id |-> id] \in journal
      IN /\ Closed(id) <=> logged("exchange.closed")
         /\ id \in decoded <=> logged("exchange.opened") /\ id \in pays
         /\ id \in DOMAIN partial /\ exchange[id] # "inFlight"
              => id \notin pays \/ ~logged("exchange.closed")

\* A verdict is never lost while the command runs: it is in the log, or waits
\* for the result loop, or was dropped at the queue's limit and counted.
Verdict(id) == [event |-> "reconcile.result", id |-> id]
Journaled == {id \in Ids : Verdict(id) \in journal}
EveryVerdictCounted ==
  command = "running" =>
    /\ Journaled \subseteq Reported
    /\ Cardinality(Reported) =
         Cardinality(Journaled) + Len(resultLoop.hand) + Len(resultLoop.sub.queue)
           + resultLoop.sub.dropped

\* Once the log is closed nothing writes to it or changes the engine: no request
\* is in flight, no loop will get another event and the timer is off (the order
\* of teardown's awaits).
CleanExit ==
  command \in {"closed", "exited"} =>
    /\ InFlight = {}
    /\ ~sweeping /\ ~chainLoops
    /\ Ended(proxyLoop) /\ Ended(resultLoop)

\* Unless the command is stopped, an exchange that paid and was closed with
\* anything but success gets a verdict in the log, even after the transfer loop
\* has died of an exception.  It is so as long as no sweep expires more
\* exchanges than the result loop's waiting call and its queue take (MaxQueue + 1,
\* 1025 in the code): past that verdicts are dropped, and EveryVerdictCounted is
\* what is left.  A run's Ids must stay within that limit.
WatchedReported ==
  \A id \in Ids :
    WorthWatching(id) ~> (Verdict(id) \in journal \/ command # "running")

\* A signal ends the command.
ShutdownCompletes == command = "closing" ~> command = "exited"

\* The inductive strengthening the proofs use.
LoopsInStep ==
  /\ IsLoop(proxyLoop, ProxyEvent) /\ InStep(proxyLoop)
  /\ IsLoop(resultLoop, Emission) /\ InStep(resultLoop)
  /\ Len(resultLoop.sub.queue) <= MaxQueue
\* What waits behind the event in hand of the first loop is at most the error
\* of the same stretch; events are handled at the instant they are emitted.
ProxyLoopInTime ==
  /\ ProxyLoopKeepsUp
  /\ \A k \in DOMAIN proxyLoop.sub.queue : proxyLoop.sub.queue[k].event = "proxy.error"
  /\ Busy(proxyLoop) =>
       /\ now <= Horizon
       /\ proxyLoop.hand[1].event = "exchange.closed" => proxyLoop.hand[1].outcome \in Outcomes

\* An exchange's events are logged in the order of its handler, and what is
\* logged has reached the engine, or is in hand, or came after the signal.
Logged(event, id) == [event |-> event, id |-> id] \in journal
InHand(event, id) ==
  Busy(proxyLoop) /\ proxyLoop.hand[1].event = event /\ proxyLoop.hand[1].id = id
HandlersLogged ==
  \A id \in Ids :
    /\ exchange[id] = "none" => ~Logged("exchange.opened", id)
    /\ exchange[id] = "inFlight" => Logged("exchange.opened", id)
    /\ exchange[id] \in {"none", "inFlight"} => ~Logged("exchange.closed", id)
    /\ Logged("exchange.closed", id) => Logged("exchange.opened", id)
    /\ InHand("exchange.closed", id) => Logged("exchange.closed", id) /\ ~Closed(id)
    /\ InHand("exchange.opened", id) => Logged("exchange.opened", id) /\ id \notin decoded
    /\ Closed(id) => Logged("exchange.closed", id)
    /\ id \in decoded => Logged("exchange.opened", id) /\ id \in pays
    /\ command = "running" =>
         /\ Logged("exchange.closed", id) => Closed(id) \/ InHand("exchange.closed", id)
         /\ Logged("exchange.opened", id) /\ id \in pays
              => id \in decoded \/ InHand("exchange.opened", id)

\* The loops run until the signal and no longer, the engine until its close.
TeardownInOrder ==
  /\ command = "running" <=> Subscribed(proxyLoop)
  /\ command = "running" <=> Subscribed(resultLoop)
  /\ chainLoops => command = "running"
  /\ sweeping <=> command \in {"running", "closing"}
  /\ command \in {"closed", "exited"} => InFlight = {}

\* The verdicts that wait for the result loop are of different exchanges, none
\* of which has its line yet.
VerdictsTracked ==
  /\ Journaled \subseteq Reported
  /\ HeldIds(resultLoop) \subseteq Reported \ Journaled
  /\ IdsDistinct(resultLoop)
  /\ EveryVerdictCounted

PipelineInductive ==
  /\ Inductive
  /\ IsFiniteSet(DOMAIN closedAs)
  /\ PipelineTypeOK
  /\ LoopsInStep
  /\ ProxyLoopInTime
  /\ HandlersLogged
  /\ TeardownInOrder
  /\ VerdictsTracked
----------------------------------------------------------------------------
\* What the documents say and the command does not do.

\* "On a match: emits a `ReconciliationResult` to the JSONL log" and "On no match
\* after `--watch-timeout-ms` ...: emits `kind: 'not_settled'`" (ARCHITECTURE.md,
\* lines 72-73): a verdict is in the log, or on its way there.
EveryVerdictJournaled ==
  \A id \in Reported :
    \/ Verdict(id) \in journal
    \/ \E k \in DOMAIN resultLoop.sub.queue : resultLoop.sub.queue[k].id = id
    \/ Busy(resultLoop) /\ resultLoop.hand[1].id = id

\* "Upstream hangs past its own timeout, ... Proxy emits `exchange.outcome
\* { kind:'upstream_timeout', afterMs }`. ... move to pending, start chain
\* watch" (ARCHITECTURE.md, line 102).
HangIsWatched ==
  \A id \in pays :
    Quiet /\ command = "running" /\ exchange[id] = "hung" => WorthWatching(id)
============================================================================
