------------------------- MODULE ChainSubscription -------------------------
(***************************************************************************)
(* subscribeUsdcTransfers of the chain client (src/chain/client.ts): an    *)
(* interval starts polls that never look at each other, each poll reads    *)
(* the head, the logs since the shared cursor and one receipt per log, and *)
(* pushes what it finds on a queue that next() calls drain.                *)
(*                                                                         *)
(* A poll is cut at its awaits: HeadArrives, LogsArrive, ReceiptArrives    *)
(* and PollFails are the resumptions, so polls interleave exactly there.   *)
(* The retries of one RPC call are part of the call.  The chain is the     *)
(* environment: blocks appear, the head read may be an old one, a receipt  *)
(* may lag behind its log, and any call may fail.                          *)
(***************************************************************************)
EXTENDS Integers, Sequences, FiniteSets

CONSTANTS
  NumLogs,     \* the USDC Transfer logs of the chain are 1..NumLogs, in order
  BlockOf,     \* the block of each log
  FirstOf,     \* the log that findTransferLog picks in the receipt of a log's tx
  Polls,       \* the polls that may be in flight at once
  FromBlock,   \* subOpts.fromBlock, or Unset
  Unset,
  MaxHeight,   \* bound: the highest block
  MaxFailures, \* bound: polls that fail
  MaxWaiters   \* next() calls a consumer has open at once: 1 for a for-await loop

Logs == 1..NumLogs
Blocks == 0..MaxHeight

ASSUME ChainAssumption ==
  /\ NumLogs \in Nat /\ MaxHeight \in Nat /\ MaxFailures \in Nat /\ MaxWaiters \in Nat
  /\ BlockOf \in [Logs -> Blocks]
  /\ FirstOf \in [Logs -> Logs]
  /\ \A l \in Logs : BlockOf[FirstOf[l]] = BlockOf[l]
  /\ Unset \notin Int
  /\ FromBlock \in Blocks \union {Unset}

VARIABLES
  cursor,    \* the last block the watcher has been through, null at first
  polls,     \* each poll in flight: its phase, its range, the logs left to enrich
  queue,     \* enriched transfers not handed out yet
  waiters,   \* next() calls waiting for a transfer
  done,      \* finish() has run: the interval is cleared
  height,    \* the chain's head
  \* history
  failures,  \* polls that have failed
  began,     \* the first value of the cursor
  pushed,    \* the transfers ever queued
  skipped,   \* the logs passed over because their receipt was null
  delivered, \* how often each transfer was handed to the consumer
  behind     \* a poll has failed after pushing, and nothing was pumped since

watcher == <<cursor, polls, queue, waiters, done>>
history == <<failures, began, pushed, skipped, delivered, behind>>
vars == <<watcher, height, history>>

Idle == [phase |-> "idle", from |-> 0, to |-> 0, left |-> {}]
Poll == [phase : {"idle", "head", "logs", "receipts"},
         from : Nat, to : Nat, left : SUBSET Logs]

TypeOK ==
  /\ cursor \in Blocks \union {Unset}
  /\ polls \in [Polls -> Poll]
  /\ queue \in Seq(Logs)
  /\ waiters \in 0..MaxWaiters
  /\ done \in BOOLEAN
  /\ height \in Blocks
  /\ failures \in 0..MaxFailures
  /\ began \in Blocks \union {Unset}
  /\ pushed \subseteq Logs
  /\ skipped \subseteq Logs
  /\ delivered \in [Logs -> Nat]
  /\ behind \in BOOLEAN

\* subscribeUsdcTransfers kicks off the first poll at once.
Init ==
  /\ cursor = Unset
  /\ \E first \in Polls :
       polls = [p \in Polls |-> IF p = first THEN [Idle EXCEPT !.phase = "head"] ELSE Idle]
  /\ queue = <<>>
  /\ waiters = 0
  /\ done = FALSE
  /\ height = 0
  /\ failures = 0
  /\ began = Unset
  /\ pushed = {}
  /\ skipped = {}
  /\ delivered = [l \in Logs |-> 0]
  /\ behind = FALSE
----------------------------------------------------------------------------
\* The watcher.

InFlight(p) == polls[p].phase # "idle"

\* pumpQueue over queue q: the oldest transfers go to the waiting calls.
Handed(q) == IF Len(q) < waiters THEN Len(q) ELSE waiters
Pump(q) ==
  /\ queue' = SubSeq(q, Handed(q) + 1, Len(q))
  /\ waiters' = waiters - Handed(q)
  /\ delivered' = [l \in Logs |->
                     delivered[l] + Cardinality({k \in 1..Handed(q) : q[k] = l})]

\* Slips (faulty variants the checks must catch): the cursor ends one block
\* too far, and the queue is not pumped.
FinishOnePast(p, q) ==
  /\ cursor' = polls[p].to + 1
  /\ Pump(q)
  /\ polls' = [polls EXCEPT ![p] = Idle]
  /\ behind' = FALSE
FinishUnpumped(p, q) ==
  /\ cursor' = polls[p].to
  /\ queue' = q
  /\ polls' = [polls EXCEPT ![p] = Idle]
  /\ behind' = FALSE
  /\ UNCHANGED <<waiters, delivered>>

\* The last lines of a poll: the cursor moves past the range, the queue is
\* pumped, and the poll is over.
Finish(p, q) ==
  /\ cursor' = polls[p].to
  /\ Pump(q)
  /\ polls' = [polls EXCEPT ![p] = Idle]
  /\ behind' = FALSE

\* setInterval's callback; it does not ask whether a poll is in flight.
StartPoll(p) ==
  /\ ~done
  /\ ~InFlight(p)
  /\ polls' = [polls EXCEPT ![p].phase = "head"]
  /\ UNCHANGED <<cursor, queue, waiters, done, height, history>>

\* Slip: the cursor is moved as soon as the range is known.
HeadArrivesMovesCursor(p, head) ==
  /\ polls[p].phase = "head"
  /\ head <= height
  /\ LET from == IF cursor # Unset THEN cursor
                 ELSE IF FromBlock = Unset THEN head ELSE FromBlock
     IN /\ cursor' = IF head <= from THEN from ELSE head
        /\ began' = IF cursor = Unset THEN from ELSE began
        /\ polls' = [polls EXCEPT ![p] =
             IF head <= from THEN Idle
             ELSE [phase |-> "logs", from |-> from + 1, to |-> head, left |-> {}]]
  /\ UNCHANGED <<queue, waiters, done, height, failures, pushed, skipped,
                 delivered, behind>>

\* getBlockNumber has answered with `head`: an unset cursor is set, and the
\* poll is over unless there are blocks past the cursor.
HeadArrives(p, head) ==
  LET from == IF cursor # Unset THEN cursor
              ELSE IF FromBlock = Unset THEN head ELSE FromBlock
  IN /\ polls[p].phase = "head"
     /\ head <= height
     /\ cursor' = from
     /\ began' = IF cursor = Unset THEN from ELSE began
     /\ polls' = [polls EXCEPT ![p] =
          IF head <= from THEN Idle
          ELSE [phase |-> "logs", from |-> from + 1, to |-> head, left |-> {}]]
     /\ UNCHANGED <<queue, waiters, done, height, failures, pushed, skipped,
                    delivered, behind>>

\* Slips: the range includes the cursor, and leaves out the head.
LogsFromCursor(from, to) == {l \in Logs : BlockOf[l] \in from - 1..to}
LogsBelowHead(from, to) == {l \in Logs : BlockOf[l] \in from..to - 1}

\* getLogs has answered.
LogsBetween(from, to) == {l \in Logs : BlockOf[l] \in from..to}
LogsArrive(p) ==
  /\ polls[p].phase = "logs"
  /\ LET found == LogsBetween(polls[p].from, polls[p].to)
     IN \/ /\ found = {}
           /\ Finish(p, queue)
        \/ /\ found # {}
           /\ polls' = [polls EXCEPT ![p].phase = "receipts", ![p].left = found]
           /\ UNCHANGED <<cursor, queue, waiters, delivered, behind>>
  /\ UNCHANGED <<done, height, failures, began, pushed, skipped>>

\* The receipt of the next log, and its block, have arrived: `read` says
\* whether buildTransferFromReceipt returned a transfer or null.
NextLog(p, l) == l \in polls[p].left /\ \A m \in polls[p].left : l <= m
ReceiptArrives(p, l, read) ==
  /\ polls[p].phase = "receipts"
  /\ NextLog(p, l)
  /\ LET q == IF read THEN Append(queue, FirstOf[l]) ELSE queue
     IN /\ pushed' = IF read THEN pushed \union {FirstOf[l]} ELSE pushed
        /\ skipped' = IF read THEN skipped ELSE skipped \union {l}
        /\ \/ /\ polls[p].left = {l}
              /\ Finish(p, q)
           \/ /\ polls[p].left # {l}
              /\ queue' = q
              /\ polls' = [polls EXCEPT ![p].left = @ \ {l}]
              /\ UNCHANGED <<cursor, waiters, delivered, behind>>
  /\ UNCHANGED <<done, height, failures, began>>

\* Slip: a failed poll moves the cursor like a finished one.
PollFailsPastRange(p) ==
  /\ failures < MaxFailures
  /\ InFlight(p)
  /\ cursor' = IF polls[p].phase = "head" THEN cursor ELSE polls[p].to
  /\ polls' = [polls EXCEPT ![p] = Idle]
  /\ failures' = failures + 1
  /\ behind' = (behind \/ queue # <<>>)
  /\ UNCHANGED <<queue, waiters, done, height, began, pushed, skipped, delivered>>

\* Any of the calls has thrown after its retries: the catch clause ends the
\* poll, with the cursor where it was and the queue as it is.
PollFails(p) ==
  /\ failures < MaxFailures
  /\ InFlight(p)
  /\ polls' = [polls EXCEPT ![p] = Idle]
  /\ failures' = failures + 1
  /\ behind' = (behind \/ queue # <<>>)
  /\ UNCHANGED <<cursor, queue, waiters, done, height, began, pushed, skipped, delivered>>

\* Slip: a call made after the end waits.
NextCallIgnoresDone ==
  /\ waiters < MaxWaiters
  /\ \/ /\ queue # <<>>
        /\ queue' = Tail(queue)
        /\ delivered' = [delivered EXCEPT ![Head(queue)] = @ + 1]
        /\ UNCHANGED waiters
     \/ /\ queue = <<>>
        /\ waiters' = waiters + 1
        /\ UNCHANGED <<queue, delivered>>
  /\ UNCHANGED <<cursor, polls, done, height, failures, began, pushed, skipped, behind>>

\* next(): a queued transfer, or a wait.  Once the queue is empty and the
\* watcher is done the call reports the end and changes nothing.
NextCall ==
  /\ waiters < MaxWaiters
  /\ \/ /\ queue # <<>>
        /\ queue' = Tail(queue)
        /\ delivered' = [delivered EXCEPT ![Head(queue)] = @ + 1]
        /\ UNCHANGED waiters
     \/ /\ queue = <<>> /\ ~done
        /\ waiters' = waiters + 1
        /\ UNCHANGED <<queue, delivered>>
  /\ UNCHANGED <<cursor, polls, done, height, failures, began, pushed, skipped, behind>>

\* Slip: the queue is thrown away with the subscription.
UnsubscribeClears ==
  /\ ~done
  /\ done' = TRUE
  /\ waiters' = 0
  /\ queue' = <<>>
  /\ UNCHANGED <<cursor, polls, height, history>>

\* finish(), by unsubscribe(), return() or close(): polls in flight go on.
Unsubscribe ==
  /\ ~done
  /\ done' = TRUE
  /\ waiters' = 0
  /\ UNCHANGED <<cursor, polls, queue, height, history>>

\* The environment mines a block.
Mine ==
  /\ height < MaxHeight
  /\ height' = height + 1
  /\ UNCHANGED <<watcher, history>>

Next ==
  \/ \E p \in Polls :
       \/ StartPoll(p)
       \/ \E head \in Blocks : HeadArrives(p, head)
       \/ LogsArrive(p)
       \/ \E l \in Logs, read \in BOOLEAN : ReceiptArrives(p, l, read)
       \/ PollFails(p)
  \/ NextCall
  \/ Unsubscribe
  \/ Mine

Spec == Init /\ [][Next]_vars

\* The interval keeps firing, the RPC node answers (and sooner or later with
\* its newest block), and the consumer loop keeps asking.
FairSpec ==
  /\ Spec
  /\ WF_vars(Mine)
  /\ WF_vars(NextCall)
  /\ \A p \in Polls :
       /\ WF_vars(StartPoll(p))
       /\ WF_vars(\E head \in Blocks : HeadArrives(p, head))
       /\ SF_vars(HeadArrives(p, height))
       /\ WF_vars(LogsArrive(p))
       /\ WF_vars(\E l \in Logs, read \in BOOLEAN : ReceiptArrives(p, l, read))
----------------------------------------------------------------------------
\* What the watcher promises.

\* Whatever polls overlap or fail, the cursor never passes a log that was not
\* dealt with: every log between the first cursor and the current one was
\* queued (as the transfer its receipt shows first) or had no receipt.
DealtWith(l) == FirstOf[l] \in pushed \/ l \in skipped
Through(block) ==
  began # Unset /\ \A l \in Logs : BlockOf[l] \in began + 1..block => DealtWith(l)
CursorCovers == cursor # Unset => Through(cursor)

\* Nothing mined at or before the first cursor is ever reported.
NothingFromThePast == \A l \in pushed : began # Unset /\ BlockOf[l] > began

\* A call waits beside a queued transfer only while a poll that will pump the
\* queue is in flight, or after a poll failed between pushing and pumping.
NoCallStranded ==
  waiters > 0 /\ queue # <<>> => behind \/ \E p \in Polls : polls[p].phase = "receipts"

\* After finish() no call waits, and none starts to.
NoneWaitsWhenDone == done => waiters = 0

\* What a poll queued stays queued until a call takes it, however pumps, calls
\* and the end of the subscription interleave.
QueuedUntilHanded ==
  \A l \in Logs :
    l \in pushed <=> (delivered[l] > 0 \/ \E k \in DOMAIN queue : queue[k] = l)

\* A log mined past the first cursor is delivered sooner or later, unless its
\* receipt lagged or the watcher was stopped.
EveryLogDelivered ==
  \A l \in Logs :
    (began # Unset /\ BlockOf[l] > began /\ height >= BlockOf[l])
      ~> (delivered[FirstOf[l]] > 0 \/ l \in skipped \/ done)

\* The inductive strengthening of CursorCovers: the same holds up to the start
\* of every poll's range, and a poll has dealt with the logs of its range that
\* it no longer lists.
PollCovers(p) ==
  LET poll == polls[p]
  IN /\ poll.phase \in {"logs", "receipts"} =>
          /\ poll.to \in Blocks
          /\ Through(poll.from - 1)
     /\ poll.phase = "receipts" =>
          \A l \in LogsBetween(poll.from, poll.to) \ poll.left : DealtWith(l)
Covers == TypeOK /\ CursorCovers /\ \A p \in Polls : PollCovers(p)
----------------------------------------------------------------------------
\* What the documents say and the watcher does not do.

\* "Emits one `ChainTransfer` per matching event" (ARCHITECTURE.md, line 104):
\* no log between the first cursor and the current one goes without its own
\* transfer, unless its receipt lagged.
EveryEventEmitted ==
  cursor # Unset =>
    \A l \in Logs : BlockOf[l] \in began + 1..cursor => l \in pushed \/ l \in skipped
============================================================================
