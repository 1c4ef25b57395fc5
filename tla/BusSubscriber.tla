--------------------------- MODULE BusSubscriber ---------------------------
(***************************************************************************)
(* One subscriber of the in-process event bus (src/proxy/event-bus.ts): a  *)
(* bounded queue of events nobody asked for yet, the resolvers of the      *)
(* next() calls that found it empty, and the flag that ends the stream.    *)
(* Operators only: EventBus, Replay and LivePipeline drive them.           *)
(***************************************************************************)
EXTENDS Sequences, Integers

\* The fields of `Subscriber<T>`; a resolver is named by its next() call.
NewSubscriber == [queue |-> <<>>, resolvers |-> <<>>, done |-> FALSE, dropped |-> 0]
Subscriber(Event, Call) ==
  [queue : Seq(Event), resolvers : Seq(Call), done : BOOLEAN, dropped : Nat]

Awaited(sub) == sub.resolvers # <<>>

\* Slips (faulty variants the checks must catch): an event is queued even if a
\* call waits for one, the newest event is dropped, the limit is off by one.
QueuedAlways(sub, event, maxQueue) ==
  IF Len(sub.queue) >= maxQueue
  THEN [sub EXCEPT !.queue = Append(Tail(@), event), !.dropped = @ + 1]
  ELSE [sub EXCEPT !.queue = Append(@, event)]
DroppedNewest(sub, event, maxQueue) ==
  IF Awaited(sub) THEN [sub EXCEPT !.resolvers = Tail(@)]
  ELSE IF Len(sub.queue) >= maxQueue THEN [sub EXCEPT !.dropped = @ + 1]
  ELSE [sub EXCEPT !.queue = Append(@, event)]
QueuedPastLimit(sub, event, maxQueue) ==
  IF Awaited(sub) THEN [sub EXCEPT !.resolvers = Tail(@)]
  ELSE IF Len(sub.queue) > maxQueue
  THEN [sub EXCEPT !.queue = Append(Tail(@), event), !.dropped = @ + 1]
  ELSE [sub EXCEPT !.queue = Append(@, event)]

\* emit: the event goes to the oldest waiting call, else to the queue, which
\* drops its oldest event when it is full.
Emitted(sub, event, maxQueue) ==
  IF Awaited(sub) THEN [sub EXCEPT !.resolvers = Tail(@)]
  ELSE IF Len(sub.queue) >= maxQueue
  THEN [sub EXCEPT !.queue = Append(Tail(@), event), !.dropped = @ + 1]
  ELSE [sub EXCEPT !.queue = Append(@, event)]

\* next(): a queued event, else the end of the stream, else a wait.
Taken(sub) == [sub EXCEPT !.queue = Tail(@)]
Waiting(sub, call) == [sub EXCEPT !.resolvers = Append(@, call)]

\* Slip: the queue is thrown away with the subscription.
StoppedAndCleared(sub) ==
  [sub EXCEPT !.done = TRUE, !.resolvers = <<>>, !.queue = <<>>]
\* unsubscribe() and return(): every waiting call learns that it is over.
Stopped(sub) == [sub EXCEPT !.done = TRUE, !.resolvers = <<>>]
============================================================================
