------------------------------ MODULE ForAwait -----------------------------
(***************************************************************************)
(* A `for await` loop over one subscription of the event bus: it has one   *)
(* next() call open, or an event in hand that its body has not handled     *)
(* yet, or it has ended.  The proxy command and the offline replay consume *)
(* every stream this way (src/cli/proxy-command.ts, src/cli/replay.ts).    *)
(***************************************************************************)
EXTENDS BusSubscriber

NewLoop == [sub |-> Waiting(NewSubscriber, "loop"), hand |-> <<>>]
IsLoop(loop, Event) ==
  /\ DOMAIN loop = {"sub", "hand"}
  /\ loop.sub \in Subscriber(Event, {"loop"})
  /\ loop.hand \in Seq(Event)
  /\ Len(loop.hand) <= 1

Subscribed(loop) == ~loop.sub.done
Busy(loop) == loop.hand # <<>>
Ended(loop) == ~Busy(loop) /\ ~Awaited(loop.sub)

\* A loop handles an event, or waits for one, or is done; events queue only
\* behind one that is being handled.
InOrder(loop) ==
  /\ loop.sub.resolvers = (IF loop.sub.done \/ Busy(loop) THEN <<>> ELSE <<"loop">>)
  /\ ~Busy(loop) => loop.sub.queue = <<>>
\* A loop that is stopped only between two events.
InStep(loop) == InOrder(loop) /\ (loop.sub.done => ~Busy(loop))

\* The ids of the events a loop holds, and that no two of them are the same.
HeldIds(loop) ==
  {loop.hand[k].id : k \in DOMAIN loop.hand}
    \union {loop.sub.queue[k].id : k \in DOMAIN loop.sub.queue}
IdsDistinct(loop) ==
  \A k \in DOMAIN loop.sub.queue :
    /\ Busy(loop) => loop.sub.queue[k].id # loop.hand[1].id
    /\ \A j \in DOMAIN loop.sub.queue :
         j # k => loop.sub.queue[j].id # loop.sub.queue[k].id

\* The events a loop was given and has not handled, or has lost.
Load(loop) == Len(loop.hand) + Len(loop.sub.queue) + loop.sub.dropped

\* The bus emits one event, or several in one synchronous stretch.
Offer(loop, event, maxQueue) ==
  IF ~Subscribed(loop) THEN loop
  ELSE [sub |-> Emitted(loop.sub, event, maxQueue),
        hand |-> IF Awaited(loop.sub) THEN <<event>> ELSE loop.hand]
OfferAll(loop, events, maxQueue) ==
  LET after[k \in 0..Len(events)] ==
        IF k = 0 THEN loop ELSE Offer(after[k - 1], events[k], maxQueue)
  IN after[Len(events)]

\* The body is through with the event in hand and calls next().
AskAgain(loop) ==
  IF loop.sub.queue # <<>> THEN
    [sub |-> Taken(loop.sub), hand |-> <<Head(loop.sub.queue)>>]
  ELSE IF loop.sub.done THEN [loop EXCEPT !.hand = <<>>]
  ELSE [sub |-> Waiting(loop.sub, "loop"), hand |-> <<>>]

Unsubscribed(loop) == [loop EXCEPT !.sub = Stopped(@)]
============================================================================
