# x402trace: a TLA+ model

x402trace is a diagnostic tool for x402 payments. `x402trace proxy --reconcile` is a
pass-through proxy: it records every HTTP exchange, decodes the payment headers, watches USDC
transfers on chain and reconciles the two. An exchange whose outcome was not `paid` is watched
until a transfer that carries its authorization appears on chain, or a timeout passes. `inspect`
replays a recorded log offline, `explain` explains the failed exchanges of a log. `bazaar-check`
asks, once, what a seller publishes and what discovery and a facilitator make of it, and keeps a
history file that repeated runs share. `validate <wallet> <service-url>` diagnoses a service's
402 challenge for a wallet before anything is paid, and with `--diff` compares what several
facilitators say of the payment. As a library, the chain client answers what became of one
transaction (`getTransferByTxHash`, `verifyTransfer`).

Paths below are relative to the repository (`src/...`). The source lines of every definition are
in `PROJECT.json` under `map`.

## 1. Inventory

| Component | State | Operations | Interacts through | What is hard |
|---|---|---|---|---|
| Event bus, `src/proxy/event-bus.ts` | per subscriber: queue, waiting resolvers, `done`, `dropped` | `emit`, `subscribe`, `next`, `return`, `unsubscribe` | callbacks: an event resolves a promise, the consumer runs later | bounded queue, several open calls, the end of the stream |
| Proxy, `src/proxy/proxy.ts` | per request: where its handler is | request, answer, failed fetch, failed body, close | emits on a bus and appends to the log | a failure at every await, the upstream timeout, requests in flight at shutdown |
| JSONL sink, `src/proxy/jsonl-sink.ts` | one write stream | `append`, `close` | two sinks append to one file | order of lines across streams |
| Decoder, `src/decoder/` | none | `decode`, `parseChallengeBody` | pure, called by the proxy command and by `validate` | two versions of the protocol |
| Chain client, `src/chain/client.ts` | per subscription: cursor, queue, resolvers, polls in flight | `poll` on an interval, `next`, `unsubscribe` | RPC calls that are retried, lag or fail | polls overlap and share the cursor; receipts lag; end of subscription |
| One-shot lookups, `src/chain/client.ts`, `retry.ts` | none beyond the call | `getTransferByTxHash`, `verifyTransfer`, the three reads of a wallet, `withRetry` | RPC calls, one after the other | each read may come from another node; the transaction may be mined in between |
| Reconciliation engine, `src/reconciliation/` | Maps `partial` and `pending`, interval | `ingestProxyEvent`, `ingestDecoderEvent`, `ingestChainTransfer`, `tick`, `close` | called by the proxy command, emits on a bus of its own | halves in either order, transfers early, twice, or for two exchanges; expiry |
| Proxy command, `src/cli/proxy-command.ts` | three `for await` loops, the teardown | signal, teardown | wires all of the above | a signal at any moment; ordering of the teardown's awaits |
| Offline replay, `src/cli/replay.ts`, and `inspect` | virtual clock, a fresh engine, results | one step per log line, a last jump | engine and bus, driven by a file | order of clock, sweep and handler; a burst of results |
| Bazaar check, `src/bazaar/` | results so far; the probe-history file | eight checks one after the other, the verdict | HTTP, a JSONL file that other runs append to | partial failure, answers that change between checks, concurrent runs, the precedence of verdicts |
| Facilitator checks, `src/bazaar/facilitator-*.ts` and rules | none | one probe with retries, predicates on documents | HTTP | retries, precedence |
| `bazaar-check` command | one timer per request | `withRequestTimeout`, arguments, exit code | wraps `fetch` | headers in time, body never |
| Diagnose rules, `src/diagnose/` | none | fifteen rules and their sum | pure | absent and unreadable parts |
| `validate` command and `--diff` | three reads, or a call per facilitator | challenge, reads, diagnosis, comparison, exit code | HTTP, RPC, concurrent calls with timers | one of several calls failing or late |
| `explain` command | none | which exchanges of a log it explains, exit code | reads what the proxy command wrote | a log another command wrote |
| Command line, `src/cli/index.ts` | the exit code | flags, dispatch | runs the commands | |
| `versions` command, dogfood rig | none; test rig | | | |

What makes each part correct:

- **Event bus**: calls and events are paired in order; an event is queued, handed out or
  counted as dropped; nobody waits beside a queued event; the end of a stream loses nothing.
- **Chain subscription**: the cursor passes no log that was not dealt with; nothing from
  before the start is reported; a log is delivered in the end; no call waits after the end.
- **Lookups**: an answer is true of the transaction when it is given.
- **Engine**: a complete unpaid exchange is in exactly one place, pending or reported once;
  a verdict is justified by what the engine saw; the oldest exchange gets the transfer; no
  exchange is held past its bound; each gets a verdict.
- **Live pipeline**: the callers of the engine keep its discipline; buses keep up; verdicts
  reach the log; a signal ends the command and leaves nothing running.
- **Replay**: what it reports is what the log says; it ends.
- **Bazaar check**: a verdict tells the operator only what was heard; a service is called
  unreachable only on the testimony of as many runs as the threshold says; the command ends
  whoever fails to answer.
- **Validate**: exit code 0 is earned, by a challenge the wallet can satisfy and what was read of
  the wallet, or by a facilitator's answer.
- **Explain**: its exit code 0 means a log without failures (it does not, see section 5).

## 2. Modules

| Module | Models | State and actions in the code |
|---|---|---|
| `TransferMatch` | `match.ts` | `MatchKind(auth, transfer)` is the comparison: nonce, payer, payee without letter case, the value as an integer; `throws` when `BigInt()` would |
| `Engine` | `engine.ts` without its callers | `partial`, `pending` (functions from ids, with the insertion rank that gives a Map its iteration order), `results`; one operator per handler |
| `Reconciliation` | the engine among its callers and its timer | one action per handler call, the interval, `tick`, `close`, time |
| `ExchangeWatch` | the abstract specification of the engine | a lifecycle per exchange: joining, ignored or watched, one final verdict |
| `BusSubscriber`, `EventBus` | `event-bus.ts` | the subscriber record and its operations; the bus with an emitter and consumers |
| `ChainSubscription` | `subscribeUsdcTransfers` | a poll is cut at its awaits: `StartPoll`, `HeadArrives`, `LogsArrive`, `ReceiptArrives`, `PollFails` |
| `ForAwait`, `ResultStream` | a `for await` loop over a subscription; the engine's result bus with such a loop | an event in hand, or a waiting call, or the end |
| `LivePipeline` | `proxy.ts` and `proxy-command.ts`, composed with `Reconciliation` and two loops | the request handler cut at its awaits, the three loops, the teardown cut at its awaits |
| `Replay` | `replay.ts`, composed with `Engine` and a loop | clock, `tick` and handler of a line are three steps nothing interrupts; the collecting loop runs between lines |
| `Explain`, `LiveExplain` | `explain-command.ts`; the same run on the log `LivePipeline` wrote | operators on a log |
| `ProbeHistory` | `reachability.ts` and `probe-history.ts`, operators | what one probe ends with, what is read from the file, what a run makes of both |
| `Reachability` | several runs of `bazaar-check` over one history file | `Probe`, `ReadHistory`, `WriteRecord` and their failures, per run; the clock |
| `BazaarRules` | the well-known, challenge, indexing, propagation, host-pollution and fitness checks, operators | a parsed document (a record of what the checks tell apart) to a check's result |
| `BazaarVerdict` | `verdict.ts` | results to verdict and exit code |
| `BazaarCheck` | the command, `runBazaarCheck` and `withRequestTimeout` | arguments; per check: skip, send, headers, body, failure, timer; the report |
| `Decoder` | `parseChallengeBody` | body of a 402 to its requirements |
| `Diagnose` | the fifteen rules and their sum | context to results and outcome |
| `Validate` | `validate-command.ts`, `validate-facilitator-diff.ts` | challenge; the three reads, each with its retries, in any order; a call per facilitator with its timer |
| `VerifyTransfer` | the two lookups and `withRetry` | one action per read that is answered, fails, or finds nothing; the chain moves in between |
| `OneShots` | `runCli` with `bazaar-check` and `validate`, and a caller of the lookups | one of them runs in a behaviour |
| `ReconciliationProofs` | theorems about `Reconciliation`; lemmas about the engine's handlers and its stream of results | |
| `SubscriberProofs`, `EventBusProofs` | lemmas about one subscriber and a `for await` loop; theorems about `EventBus` | |
| `PipelineProofs` | theorems about `LivePipeline`, on top of those about the engine | |
| `ReplayProofs` | theorems about `Replay`, likewise | |
| `ChainProofs` | theorems about `ChainSubscription` | |
| `OneShotProofs` | theorems about `bazaar-check`, `validate` and the lookups in `OneShots` | |
| `ReachabilityProofs` | theorems about `Reachability` | |
| `MC...` | instances for TLC | values of the constants only |

`Engine` is written once and used by `Reconciliation`, `Replay` and `LivePipeline`, each of
which calls the handlers the way that part of the code does. `LivePipeline` is shown to
implement `Reconciliation`, which is shown (and proved) to implement `ExchangeWatch`.
`ProbeHistory` is likewise used twice: by `Reachability`, which shows several runs and only
their probes, and by `BazaarCheck`, which shows one run with all its checks.

How the code's concurrency is cut into steps: JavaScript runs one callback to completion, so
an action is what happens between two awaits (or callbacks). In `LivePipeline` a new
callback needs `Quiet`: the loops' bodies await nothing but the next event, so their steps
are microtasks, which Node drains before the next callback. In `Reachability` the actors are
processes of their own: nothing is atomic between reading the shared file and appending to it.

Data is abstract. An exchange id is a model value; a hex string is a token with a function
`Lower` that gives its lower-case form; a decimal text is a token with a function `BigInt`
that gives its value or `NotANumber`; a log of the chain is its position; a manifest, a
challenge, a listing or a receipt is a record of what the code tells apart. Definitions marked
*slip* are faulty variants of the definition they stand before; they show that the
properties can fail.

## 3. Runs

| Run | Question | Bounds |
|---|---|---|
| `engine` | one authorization sent twice in different letter case, once with a value `BigInt()` rejects: accounted for, oldest first, held within the bound, justified, no transfer wasted but by the exception, an implementation of `ExchangeWatch`? | 3 exchanges, of which two carry the same authorization; an exact and a misdirected transfer for it and one for the third, each delivered once |
| `bus` | the bus with open calls and a queue at its limit: paired in order, counted, nobody left waiting? | 2 subscribers, queues of 2, 5 events, 3 calls each |
| `chain` | overlapping polls, stale heads, lagging receipts, a failure: does the cursor cover, is every log delivered? | 2 blocks, 3 logs (two in one block and transaction), 2 polls in flight, 1 failure |
| `live` | the pipeline with failures at every await and a signal at any moment: discipline, accounting, exit, progress? | 2 exchanges, each with or without payment, one whose value the engine cannot compare; 2 transfers |
| `replay` | does the replay agree with the log (`ReplayAgreesWithLog`, a definition without clock, Maps or sweeps), leave nothing pending, and end? | every log of up to 4 lines about one exchange, 20 of 6 lines about two, in 3 of which the engine throws |
| `reach` | is a service called unreachable only on the testimony of enough runs? | 3 runs of one service, `Threshold` 2, five files left by earlier runs, answers responsive, 5xx and ENOTFOUND, failing reads and writes, time in steps of 2 and 3 up to 5 |
| `oneshots` | are verdicts, exit codes and answers true of what was heard, and does each program end? | `bazaar-check`: 6 command lines, 6 manifests, 4 challenges, 4 listings, 2 earlier histories; `validate`: 8 command lines, 11 bodies of a 402, 2 balances, 2 facilitators with 4 answers; lookups: 1 transaction, 5 receipts, 9 questions, 3 blocks |
| `live_early` | (violated) does the engine agree with the chain about every delivered transfer? | 1 exchange |
| `chain_batch` | (violated) one transfer per event? | 1 poll |
| `live_teardown`, `live_hang` | (violated) every verdict in the log, every hang watched? | 2 exchanges |
| `live_explain` | (violated) does `explain`'s 0 on the log of a live run mean that every verdict in it is settled? | 2 exchanges, 1 transfer |

Why the bounds are enough. Exchanges interact only through a transfer that matches several
of them and through the order of the Map: two that share an authorization and one that does
not show both. Every comparison of times has a boundary that occurs with timeouts of one or
two ticks. The queue's limit (1024 in the code) is one or two, so that it is reached, except by
the results in `live`, where two exchanges are too few to overflow (`NoVerdictLost` covers that). Polls
interact pairwise through the cursor. In `reach` one run more than the threshold can be in
flight, so that a run may read before, between or after the lines of the others, and the two
tick lengths put records inside, at and outside the span of twice `Threshold` windows, in
either order; what the threshold counts is symmetric in the runs. In `oneshots` requests are
made one at a time, or at once without sharing anything but the exit code, so two facilitators
and two of everything suffice; the documents are chosen so that every check both passes and
fails. Named bounds (`Horizon`, `MaxDeliveries`, `MaxEvents`, `MaxCalls`, `MaxHeight`,
`MaxFailures`, `MaxWaiters`, `MaxTime`, `MaxHead`) are in guards of the environment's actions,
never in those of the code. In `LivePipeline` every request ends before `Horizon`: the upstream
timeout does that in the code.

No run checks deadlock: each of these programs may stop (the environment is bounded, the
command exits, a replay or a check returns). That the ones that must not stop early do not is
what the liveness properties say.

## 4. Fairness

- `Reconciliation`: none, it is checked for safety; `Latency` bounds how late a due timer
  may be. That every watched exchange gets its verdict is a property of `LivePipeline`.
- `ChainSubscription`: weak fairness of the interval, of each resumption of a poll (an RPC
  call settles, by its answer or by its failure after the retries) and of the consumer's
  call; strong fairness only of reading the newest head, since a node that lags for ever
  would never show a block. Failures are bounded, not unfair.
- `LivePipeline`: weak fairness of the loops, the timer, the clock, of the end of each
  request (fetch settles, at the latest by its timeout) and of the end of the teardown.
  None of requests, transfers or signals: the environment owes nothing.
- `Replay`: weak fairness of the whole next-state relation.
- `OneShots`: the process runs, its timers fire, and a call to the RPC node settles (viem
  gives each a timeout). Services, discovery and facilitators owe nothing: they may take a
  request and never answer, or stop in the middle of a body. The request of `validate` to the
  service has no timer in the code, so `ProgramsEnd` asks `validate` to end only once it has
  its challenge.
- `Reachability`: none, it is checked for safety.

## 5. What the code does and the documents do not say

Five places where TLC refutes what a document says of the code; the quotations are in
`PROJECT.json` under `findings`:

- a transfer that is polled before its exchange is closed is forgotten (`live_early`);
- of several transfers of one transaction only the first is emitted (`chain_batch`);
- a verdict reached during the teardown is not logged (`live_teardown`);
- an upstream that hangs in the middle of its body leaves the exchange unwatched
  (`live_hang`);
- `explain` exits with 0 on the log of a live run whatever its verdicts are: challenges go to
  stdout only, and an exchange without a logged challenge is passed over before it is counted
  (`live_explain`, `explain-command.ts`, line 138).

Seen while modelling, without a run of their own. Proxy, chain client and replay:

- the live log never holds an `exchange.payment` line (`proxy-command.ts` prints decoded
  events to stdout only), so a replay of a live log joins nothing (`replay.ts`, lines 2-5), and
  `inspect` exits with 0 in any case;
- an exchange is watched whenever its outcome is not `paid`, so after `unknown` too (an upstream
  that fails otherwise, or answers in a way that is not understood), although `engine.ts`, lines
  9-15, and `ARCHITECTURE.md` name only `rejected` and `upstream_timeout`;
- a header whose value `BigInt()` cannot read makes the engine throw at the next transfer with its
  nonce and payer: that transfer is lost, also to a younger exchange behind it that carries the
  same authorization in a readable form (`engine.ts`, line 129; `NoTransferWasted` states the
  exception), and in a live run every later transfer is lost with it;
- a replay whose last sweep expires more than 1024 exchanges drops results, the queue's
  limit (`replay.ts`, lines 45 and 139-140);
- polls overlap, and a slow one and its successor emit the same transfers twice
  (`client.ts`, line 310); the engine copes, as `Accounted` shows, except that a repeated
  transfer may resolve a second exchange with the same authorization;
- the default start of a subscription is the first head that is read, not the block at
  subscribe time (`client.ts`, line 274; `types.ts`, lines 107-108);
- the engine's `close()` clears the interval but does not "resolve any subscriber awaits"
  (`engine.ts`, line 50); the proxy command unsubscribes by itself;
- `withRetry` makes four calls, `ARCHITECTURE.md` says three attempts;
- `verifyTransfer` says of a transaction without a receipt that it "must be reverted"
  (`client.ts`, line 213), and calls one reverted that succeeded without a Transfer log, or was
  mined after the receipt was asked for; it compares only the first transfer of the token.

Bazaar check and facilitators:

- discovery that answers with JSON in which `resources` is no list (`{"error": ...}`, `null`)
  counts as "not indexed yet" and makes the verdict `upstream_stuck` (`indexing.ts`, lines
  136-154), as does a 404, where the comment says "404 / error treated as `unknown`"
  (`indexing.ts`, line 18); only a query that fails, another status and a body that is not JSON
  are `unknown`;
- without a history file `service_unreachable` is said never to fire (`bazaar/index.ts`, lines
  128-131; `bazaar-check-command.ts`, lines 43-45), but with a consensus of one it does, on this
  run's own probe;
- `probeCount` is said to count consecutive matching probes (`types.ts`) and is the length of
  the whole history; concurrent runs give the same `attempt_seq` to two records;
- a history file that cannot be read makes the command exit with 1, where `exit-codes.ts` says 2;
- a single failed probe is said to be an implementation issue and yields `upstream_issue`;
- the pause between retries after a 5xx is 500 ms, not 10 s; the fitness probe makes up to four
  attempts, not three; a 5xx that is followed by a 4xx is ok, not degraded; so is a network
  error that is followed by a 2xx;
- `detectFacilitator` takes CDP's URL for another facilitator, `resolveFacilitator` resolves it:
  an unlisted service that declares the URL gets `looks_correct`;
- `withRequestTimeout` replaces a signal its caller passed, and leaves its timer pending when
  the body is not read.

Validate and diagnose:

- "would succeed needs at least one pass" is not enforced by the sum of the rules;
- one refused read discards what the other two answered: an insufficient balance may be known
  and the exit code still be 0;
- `detectWalletKind` swallows an RPC failure as an unknown kind, which fails a rule, although an
  RPC outage is said to leave the diagnosis only uncertain;
- `--chain` is never compared with the challenge's network;
- the list of `--diff` is parsed only after the service and the chain were asked; a facilitator
  that could not be reached does not count as timed out;
- the request of `validate`, and of `versions`, to the service has no timeout.

## 6. Proofs

Proved with TLAPS for every value of the constants, from the assumptions named in the modules
(the constants have their types, intervals and limits are positive where the code needs it).

`ReconciliationProofs`, for every set of exchanges, every set of transfers and every timing:

- `TypeCorrect`: `Spec => []TypeOK`;
- `InductiveInvariant`: `Spec => []Inductive`;
- `EachExchangeAccounted`: `Spec => []Accounted`.

`Accounted` (a complete unpaid exchange is pending or has exactly one result, and no other
exchange is either) is not inductive: it needs that a half-joined exchange holds exactly
the half that was ingested (`HalvesRecorded`), or a second half could promote it twice.
`Inductive` adds that, the order of insertion ranks, and that time stamps are in the past;
the run `engine` checks it as an invariant. The proof goes action by action, and for
each action conjunct by conjunct; lemmas state what `Put`, `Delete` and `Promote` do.

On it rest `EveryVerdictJustified`, `NoTransferIsWasted`,
`TransfersGoToTheOldest`, and `NobodyIsHeldTooLong`. A lemma describes every step by what it
may do to one exchange (`Steps`), and each property is preserved by each kind of step. The
bound of `HeldBounded` needs `WatchTimeout > 0`, which the theorem assumes: with 0 an exchange
that joins in the very millisecond of a sweep waits the whole sum. It rests on `Timely`, which
places the next sweep before the bound of every pending exchange.

`NoTransferIsWasted` is about every transfer handed over while an exchange was pending, those the
engine threw at included (`seen` records them). An exchange may stay unresolved for one of two
reasons: another exchange took the transfer, or the engine threw at one that had waited at least
as long. The proof keeps each excuse: a verdict is final and carries the entry it was pending as,
so that ranks can still be compared after the other exchange has gone.

So does the refinement: `EngineImplementsWatch`, `Spec => ImplementsExchangeWatch`;
a step of the engine maps to the lifecycle's step of one exchange, of all that expire at once,
or to a stutter.

`SubscriberProofs` states, once for all of its users, what each operation does to one
subscriber record and to a loop over it, and that the record stays well-formed. Of a whole
stretch of results it says that each is offered once, in the order of the ranks, and that
something is dropped only when more came than the loop's hand and the queue can hold.

`EventBusProofs`, for any number of subscriptions, events and calls and any queue limit of at
least one (`BusAssumption`): `TypeCorrect`, which bounds every queue by `MaxQueue`,
`NobodyWaitsInVain` and `NewestEventsKept`. `IInv` carries them: per subscriber it says that the
record fits its history (`Fits`: waiting calls only beside an empty live queue, a queue that is
a run of consecutive events ending at the last one offered), that a live subscriber is not done
and was offered every event so far, and that a subscription not opened yet is empty; without
these the next event would leave a gap. What the calls were told is the second half:
`CallsAnsweredInOrder`, `NothingAfterTheEnd` and `NoEventUnaccountedFor`. Their invariant
`Answers` says that the calls answered so far are a prefix of the calls made, that their events
ascend and end before the queue begins, and that events handed out, queued and dropped add up to
the events offered.

`PipelineProofs`, for any number of exchanges, any outcomes, any queue limit, a signal and a
failure anywhere. The invariant is `PipelineInductive` (`PipelineInvariant`); the run `live`
checks its conclusions. Besides the engine's `Inductive` it has, in `LivePipeline`:

- `LoopsInStep`: a loop has an event in hand, or a call that waits, or has ended; without it an
  event could be both handed over and queued;
- `ProxyLoopInTime`: behind the event in hand at most the error of the same stretch is queued,
  so no stretch finds a full queue (`ProxyLoopKeepsUp`), whatever the limit;
- `HandlersLogged`: the log lines of an exchange follow its handler, and a logged half is
  ingested, in hand, or came after the signal. It gives `HalvesKnown`, and it is what excludes a
  second close or payment of an exchange, which `Reconciliation` assumes of its callers;
- `VerdictsTracked`: the verdicts that wait for the result loop are of different exchanges, none
  in the log yet; the count of `EveryVerdictCounted` does not survive a step without that;
- `TeardownInOrder`: which of the loops, the timer and the requests are still there at each
  stage of the teardown. It gives `CleanExit`.

`CommandKeepsTheDiscipline` is the refinement `PipelineSpec => ImplementsReconciliation`, so what
is proved of the engine among any callers holds of the command: `CommandVerdictsEarned`,
`CommandImplementsWatch` and, with `WatchTimeout > 0`, `CommandHoldsNobodyTooLong`. The
theorems also cover what the run's bounds do not reach: with two exchanges the engine's result
queue never overflows in `live`; the proof covers the drops, which are counted.

`ReplayProofs`, for any set of logs of any length whose lines have the fields their event
promises, with times that may be unreadable, equal, or out of order (`LogsAssumption`):

- `NothingStaysPending`: `NothingLeftPending`, for every log and every watch timeout: the last
  jump passes the timeout of whatever is pending.
- `ReplayInvariant`: `ReplayInductive`. `ClockInStep` says that the clock shows the latest time
  read so far and that nothing pending is as old as the timeout, except between the clock's step
  and the sweep; `LogFollowed` that the engine holds of each exchange what the lines handled so
  far say of it: no half, one half, waiting since the later half, or a verdict; `LoopInStep` and
  `ResultsCollected` that each verdict given is collected, in the loop's hand or queued, once.
- `ReplayReportsTheLog`: `ReplayAgreesWithLog`, from hypotheses the code needs. `PlainLog`: each
  half of an exchange is in the log once (a second close or payment starts over), no transfer
  could pay two exchanges (the engine's choice among them is the subject of
  `TransfersGoToTheOldest`), and at most `MaxQueue + 1` exchanges are watched (past that a last
  sweep may drop results, section 5). And `WatchTimeout > 0`: with 0 a line with an unreadable
  time runs no sweep, and a transfer on it could still settle what the reference calls overdue.
  `MCReplay` assumes `PlainLog` of the run's logs, so TLC shows that logs of this kind exist.

The reference (`LogVerdict`) knows neither clock nor Map nor sweep, so the theorem says that the
order of clock, sweep and handler within a line computes what the log says by itself.

`ChainProofs`, for any chain, any number of overlapping polls and any failures, proves every
safety property the run `chain` checks. `IInv` has two halves. `Watched` is about the cursor: of
each poll it says what its range is and that everything before it was dealt with, which is what
lets a late poll set the cursor back without harm. `Queued` is about the consumer: where each
reported log is, and who will pump.

`OneShotProofs` proves every safety property of the run `oneshots`, from `OneShotsInductive`: an
invariant per program, none of which another program's step disturbs.

- `AnswersAreEarned`, for any question, receipt and length of chain: between two reads, what the
  first established (`Established`) stays true while the chain moves on.
- `ExitCodesAreEarned`, for any command line, 402 body, wallet and list of facilitators
  (`ValidateAssumption` gives their types): each read and each call remembers what it was
  answered, in whatever order they finish, and the exit code is computed only from complete ones.
  Exit code 0 does not mean that the wallet was looked at: when the node refuses a read, the code
  goes on without any of the three (`validate-command.ts`, lines 197-201), and only `--strict`
  turns that into a failure (lines 255-257).
- `VerdictsAreEarned`, for any manifest, challenge, listing, history and facilitator: every check
  leaves in its result what the answers it was given allow; a verdict is a function of the
  results, and says no more than they do. JSON without a list of resources is an answer here
  ("no list"), and is told from a query that failed.
- `OneShotsTypeCorrect` also bounds attempts and calls.

`ReachabilityProofs`, for any number of concurrent checks, any services, windows and threshold,
and any file of earlier runs with at most one line each, none of the future
(`EarlierLogsAssumption`): `ReachTypeCorrect` and `CondemnedWithWitnesses`. The property is about
runs, the code counts lines; `ReachInductive` closes the gap: a run whose line is in the file
has reported, and no run has two lines. So a check never counts its own line, nor a run twice,
whatever the interleaving of reads and writes. The sort of the history is a relation (the set
of stable orders, which has one member), so that the proof reasons about any order it returns.

Only model-checked: the liveness properties (`EveryLogDelivered`, `WatchedReported`,
`ShutdownCompletes`, `ReplayEnds`, `ProgramsEnd`), since fairness and ENABLED are beyond the
prover; and the five runs that show a violation, which are counterexamples and need no proof.

What a recursive definition computes for every input would need induction over data, which the
prover cannot instantiate; no such theorem is stated.

## 7. Not modelled

- Text: parsing and formatting of headers, addresses, ABI logs, messages and output, colour.
- The order of the lines of the log's two write streams: the log is a set of lines.
- The flags of each command; `runCli` is modelled for what it returns.
- What `inspect` prints. Its exit code is constant.
- `versions`: one request and a table of three entries, no state.
- The dogfood rig, scripts and sample applications: no part of the product.
- A caller's own abort signal: no caller passes one.
- In `LivePipeline`: the reading of a request. A request that is being read at the signal may
  still be read to its end and be served (`Serving`), but the teardown waits only for those that
  have been read; a client that never ends its request would hold `server.close()` for ever, and
  `ShutdownCompletes` does not speak of it. And writing the fixed 502 answer after a failed fetch
  is taken not to throw (`proxy.ts`, lines 209-211: a constant header, nothing sent before);
  passing on the upstream's headers may (`BodyArrives`).
- Reorganisations of the chain: the code does not handle them.
- A watch timeout that is no number (`--watch-timeout-ms abc`): every comparison of the sweep
  would be false, and a model with that value would only say so again.

## 8. Plan

Done: the engine with its abstract specification; the bus; the chain subscription; the live
pipeline; the replay; the lookups and their retries; the probe history shared by runs; the
bazaar check; the diagnosis, `validate` and `explain`; proofs of every safety property the
passing runs check, and of both refinements.

Left, in this order:

1. The two write streams of the log as a module of their own between the pipeline and `Replay`.
2. `inspect` and `versions`, for what they print.
