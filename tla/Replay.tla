------------------------------- MODULE Replay ------------------------------
(***************************************************************************)
(* The offline replay of a log (src/cli/replay.ts): every line advances a  *)
(* virtual clock, runs the sweep and is fed to a fresh engine; after the   *)
(* last line the clock jumps past the watch timeout and the sweep runs     *)
(* once more.  A loop of its own collects the results.                     *)
(*                                                                         *)
(* One line is three steps (the clock, tick, the handler) that nothing     *)
(* interrupts; the collecting loop runs between lines.                     *)
(***************************************************************************)
EXTENDS ResultStream

CONSTANTS
  Logs,       \* the logs that may be replayed: sequences of lines
  Unreadable  \* a line's `t` that Date.parse does not understand

ASSUME LogsAssumption ==
  \A lines \in Logs :
    /\ lines \in Seq({lines[k] : k \in DOMAIN lines})
    /\ \A k \in DOMAIN lines :
         /\ lines[k].t \in Int \union {Unreadable}
         /\ lines[k].event \in {"exchange.closed", "exchange.payment"} => lines[k].id \in Ids
         /\ lines[k].event = "exchange.closed" => lines[k].outcome \in OutcomeKinds
         /\ lines[k].event = "chain.transfer" => lines[k].transfer \in Transfers

VARIABLES
  log,        \* the file
  position,   \* lines read
  stage,      \* where replayLog is
  collected   \* the results array

replayVars == <<engineVars, now, resultLoop, log, position, stage, collected>>

ReplayInit ==
  /\ EngineInit
  /\ resultLoop = NewLoop
  /\ log \in Logs
  /\ position = 0
  /\ stage = "next"
  /\ collected = <<>>

Line == log[position]

\* The virtual clock never goes back; a line whose time is unreadable neither
\* moves it nor sweeps.
ReadLine ==
  /\ stage = "next"
  /\ position < Len(log)
  /\ position' = position + 1
  /\ LET t == log[position'].t
     IN /\ now' = IF t # Unreadable /\ t > now THEN t ELSE now
        /\ stage' = IF t # Unreadable THEN "tick" ELSE "ingest"
  /\ UNCHANGED <<engineVars, resultLoop, log, collected>>

TickAtLine ==
  /\ stage = "tick"
  /\ Sweep
  /\ EmitResults
  /\ stage' = "ingest"
  /\ UNCHANGED <<now, log, position, collected>>

\* An exception of the engine ends the replay.
IngestLine ==
  /\ stage = "ingest"
  /\ \/ /\ Line.event = "exchange.closed"
        /\ IngestProxyEvent(Line.id, Line.outcome)
        /\ stage' = "next"
     \/ /\ Line.event = "exchange.payment"
        /\ IngestDecoderEvent(Line.id)
        /\ stage' = "next"
     \/ /\ Line.event = "chain.transfer"
        /\ IngestChainTransfer(Line.transfer)
        /\ stage' = IF Throws(Line.transfer) THEN "rejected" ELSE "next"
     \/ /\ Line.event = "other"
        /\ stage' = "next"
        /\ UNCHANGED engineVars
  /\ EmitResults
  /\ UNCHANGED <<now, log, position, collected>>

\* Slip: the last sweep happens at the last line's time.
JumpNowhere ==
  /\ stage = "next"
  /\ position = Len(log)
  /\ stage' = "lastTick"
  /\ UNCHANGED <<now, engineVars, resultLoop, log, position, collected>>

\* The end of the file.
JumpPastTimeout ==
  /\ stage = "next"
  /\ position = Len(log)
  /\ now' = now + WatchTimeout + 1
  /\ stage' = "lastTick"
  /\ UNCHANGED <<engineVars, resultLoop, log, position, collected>>

LastTick ==
  /\ stage = "lastTick"
  /\ Sweep
  /\ EmitResults
  /\ stage' = "closing"
  /\ UNCHANGED <<now, log, position, collected>>

\* Slip: the subscription is left open.
LeaveSubscribed ==
  /\ stage = "closing"
  /\ stage' = "draining"
  /\ UNCHANGED <<engineVars, now, resultLoop, log, position, collected>>

Unsubscribe ==
  /\ stage = "closing"
  /\ resultLoop' = Unsubscribed(resultLoop)
  /\ stage' = "draining"
  /\ UNCHANGED <<engineVars, now, log, position, collected>>

\* The collecting loop, whenever replayLog awaits something.
Collect ==
  /\ stage \in {"next", "closing", "draining"}
  /\ Busy(resultLoop)
  /\ collected' = Append(collected, resultLoop.hand[1])
  /\ resultLoop' = AskAgain(resultLoop)
  /\ UNCHANGED <<engineVars, now, log, position, stage>>

Return ==
  /\ stage = "draining"
  /\ Ended(resultLoop)
  /\ stage' = "returned"
  /\ UNCHANGED <<engineVars, now, resultLoop, log, position, collected>>

ReplayNext ==
  ReadLine \/ TickAtLine \/ IngestLine \/ JumpPastTimeout \/ LastTick
    \/ Unsubscribe \/ Collect \/ Return

ReplaySpec == ReplayInit /\ [][ReplayNext]_replayVars

\* The event loop runs every step that is due.
FairReplaySpec == ReplaySpec /\ WF_replayVars(ReplayNext)
----------------------------------------------------------------------------
\* What a log says, without Maps, sweeps, clocks or buses: the reference.

Lines(lines, event) == {k \in DOMAIN lines : lines[k].event = event}
LinesOf(lines, event, id) == {k \in Lines(lines, event) : lines[k].id = id}
HalvesOf(lines, id) ==
  LinesOf(lines, "exchange.closed", id) \union LinesOf(lines, "exchange.payment", id)
TimesTo(lines, k) == ({lines[j].t : j \in 1..k} \ {Unreadable}) \union {0}
TimeAt(lines, k) == CHOOSE m \in TimesTo(lines, k) : \A t \in TimesTo(lines, k) : t <= m

\* Each half of the exchange is in the log, and the outcome is not paid.
Watched(lines, id) ==
  /\ \E k \in LinesOf(lines, "exchange.closed", id) : lines[k].outcome # "paid"
  /\ LinesOf(lines, "exchange.payment", id) # {}
WatchedFrom(lines, id) ==
  CHOOSE k \in HalvesOf(lines, id) : \A j \in HalvesOf(lines, id) : j <= k
Deadline(lines, id) == TimeAt(lines, WatchedFrom(lines, id)) + WatchTimeout

\* The transfers about this exchange that come while it is watched.
Compare(lines, id, k) == MatchKind(Auth[id], lines[k].transfer)
InTime(lines, id) ==
  {k \in Lines(lines, "chain.transfer") :
     /\ k > WatchedFrom(lines, id)
     /\ TimeAt(lines, k) < Deadline(lines, id)
     /\ Compare(lines, id, k) # "no_match"}
IsFirst(k, set) == k \in set /\ \A j \in set : k <= j
LogVerdict(lines, id) ==
  IF InTime(lines, id) = {} THEN "not_settled"
  ELSE ResultKindOf(Compare(lines, id, CHOOSE k \in InTime(lines, id) : IsFirst(k, InTime(lines, id))))
----------------------------------------------------------------------------
\* What the replay promises.

\* The replay reports for every exchange exactly what the log says of it: one
\* verdict for a watched exchange (the first transfer about it that comes less
\* than the watch timeout after it was watched, else not_settled), and none for
\* another (the order of clock, tick and handler within a line).
CollectedFor(id) == {k \in DOMAIN collected : collected[k].id = id}
ReplayAgreesWithLog ==
  stage = "returned" =>
    \A id \in Ids :
      /\ Cardinality(CollectedFor(id)) = IF Watched(log, id) THEN 1 ELSE 0
      /\ \A k \in CollectedFor(id) : collected[k].result.kind = LogVerdict(log, id)

\* After the last sweep nothing is pending: "any still-pending entry past
\* watchTimeoutMs fires not_settled" (replay.ts, lines 47-49).
NothingLeftPending ==
  stage \in {"closing", "draining", "returned"} => DOMAIN pending = {}

\* A log in which no exchange can take another's place: each half is in it
\* once, no transfer is about two exchanges, and the results of all that are
\* watched fit into the queue and the loop's hand.
OneHalfEach(lines) ==
  \A event \in {"exchange.closed", "exchange.payment"}, id \in Ids :
    \A j, k \in LinesOf(lines, event, id) : j = k
NoSharedTransfer(lines) ==
  \A k \in Lines(lines, "chain.transfer"), id, other \in Ids :
    Compare(lines, id, k) # "no_match" /\ Compare(lines, other, k) # "no_match"
      => id = other
WatchedIds(lines) == {id \in Ids : Watched(lines, id)}
PlainLog(lines) ==
  /\ OneHalfEach(lines)
  /\ NoSharedTransfer(lines)
  /\ Cardinality(WatchedIds(lines)) <= MaxQueue + 1

\* The inductive strengthening the proofs use.
\* The clock shows the latest time read, and what is pending is younger than
\* the timeout (if that is positive) except between the clock and the sweep.
Reading == stage \in {"next", "tick", "ingest"}
Over == stage \in {"closing", "draining", "returned"}
ClockInStep ==
  /\ Reading => now \in TimesTo(log, position) /\ \A t \in TimesTo(log, position) : t <= now
  /\ Reading => \A id \in DOMAIN pending : pending[id].addedAt <= now
  /\ WatchTimeout > 0 /\ stage \in {"next", "ingest"} =>
       \A id \in DOMAIN pending : now < pending[id].addedAt + WatchTimeout
  /\ stage = "lastTick" =>
       \A id \in DOMAIN pending : pending[id].addedAt + WatchTimeout < now
  /\ Over => DOMAIN pending = {}
FileInStep ==
  /\ log \in Logs
  /\ position \in 0..Len(log)
  /\ stage \in {"next", "tick", "ingest", "rejected", "lastTick", "closing", "draining", "returned"}
  /\ stage \in {"tick", "ingest", "rejected"} => position > 0
  /\ stage = "lastTick" \/ Over => position = Len(log)

\* Of each exchange the engine knows what the lines handled so far say: the
\* halves, until both are there; then that it waits, or why it does not.
Handled == IF stage \in {"tick", "ingest", "rejected"} THEN position - 1 ELSE position
Seen(event, id, n) == {k \in LinesOf(log, event, id) : k <= n}
IsHalfRead(half, id, n) ==
  /\ half.payment = (Seen("exchange.payment", id, n) # {})
  /\ Seen("exchange.closed", id, n) = {} => half.outcome = NoOutcome
  /\ \A k \in Seen("exchange.closed", id, n) : half.outcome = log[k].outcome
NoneYet(id, n) == \A k \in InTime(log, id) : k > n
Waits(id, n) ==
  /\ id \in DOMAIN pending /\ results[id] = <<>>
  /\ pending[id].addedAt = TimeAt(log, WatchedFrom(log, id))
  /\ NoneYet(id, n)
IsTold(id, kind, n) ==
  \/ kind = "not_settled" /\ Deadline(log, id) <= now /\ NoneYet(id, n)
  \/ \E k \in 1..n :
       IsFirst(k, InTime(log, id)) /\ kind = ResultKindOf(Compare(log, id, k))
IsOut(id) == id \notin DOMAIN pending /\ results[id] = <<>>
HasVerdict(id, n) ==
  /\ id \notin DOMAIN pending /\ Len(results[id]) = 1
  /\ IsTold(id, results[id][1].kind, n)
AsRead(id, n) ==
  IF Seen("exchange.closed", id, n) = {} \/ Seen("exchange.payment", id, n) = {}
  THEN IsHalfRead(HalfOf(id), id, n) /\ IsOut(id)
  ELSE IF ~Watched(log, id) THEN IsOut(id)
  ELSE Waits(id, n) \/ HasVerdict(id, n)
LogFollowed == stage # "rejected" => \A id \in Ids : AsRead(id, Handled)

\* What was emitted is collected, in hand or queued; nothing was dropped.
Told == {e \in Emission : results[e.id] = <<e.result>>}
CollectedIds == {collected[k].id : k \in DOMAIN collected}
LoopInStep ==
  /\ IsLoop(resultLoop, Told)
  /\ InOrder(resultLoop)
  /\ Len(resultLoop.sub.queue) <= MaxQueue
  /\ resultLoop.sub.dropped = 0
  /\ Subscribed(resultLoop) <=> stage \notin {"draining", "returned"}
  /\ stage = "returned" => ~Busy(resultLoop)
ResultsCollected ==
  /\ collected \in Seq(Told)
  /\ \A j, k \in DOMAIN collected : collected[j].id = collected[k].id => j = k
  /\ IdsDistinct(resultLoop)
  /\ CollectedIds \intersect HeldIds(resultLoop) = {}
  /\ IsFiniteSet(Reported)
  /\ Cardinality(Reported) = Len(collected) + Load(resultLoop)

ReplayInductive ==
  /\ EngineTypeOK
  /\ RanksOrdered
  /\ FileInStep
  /\ ClockInStep
  /\ WatchTimeout > 0 /\ PlainLog(log) => LogFollowed /\ LoopInStep /\ ResultsCollected

\* replayLog settles: it returns, or an exception of the engine rejects it.
ReplayEnds == <>(stage \in {"returned", "rejected"})
============================================================================
