-------------------------- MODULE SubscriberProofs --------------------------
(***************************************************************************)
(* Lemmas about one subscriber of the event bus and about the `for await`  *)
(* loops over one, which the proofs of EventBus, Reconciliation,           *)
(* LivePipeline and Replay share.                                          *)
(***************************************************************************)
EXTENDS ForAwait, SequenceTheorems, FiniteSetTheorems, WellFoundedInduction, TLAPS

\* What one operation of a subscriber record changes, and what it keeps.
\* emit: a waiting call is answered and the queue left alone; else the event
\* is queued, at the price of the oldest one when the queue is full.
LEMMA EmittedToCall ==
  ASSUME NEW Event, NEW Call, NEW s \in Subscriber(Event, Call), NEW e \in Event,
         NEW limit \in Nat \ {0}, Awaited(s)
  PROVE  /\ Emitted(s, e, limit) \in Subscriber(Event, Call)
         /\ Emitted(s, e, limit).queue = s.queue
         /\ Emitted(s, e, limit).done = s.done
         /\ Emitted(s, e, limit).resolvers = Tail(s.resolvers)
<1>1. Tail(s.resolvers) \in Seq(Call)
  BY DEF Awaited, Subscriber
<1>2. Emitted(s, e, limit) = [s EXCEPT !.resolvers = Tail(s.resolvers)]
  BY Zenon DEF Emitted
<1>3. /\ [s EXCEPT !.resolvers = Tail(s.resolvers)] \in Subscriber(Event, Call)
      /\ [s EXCEPT !.resolvers = Tail(s.resolvers)].queue = s.queue
      /\ [s EXCEPT !.resolvers = Tail(s.resolvers)].done = s.done
      /\ [s EXCEPT !.resolvers = Tail(s.resolvers)].resolvers = Tail(s.resolvers)
  BY <1>1 DEF Subscriber
<1>. QED BY <1>2, <1>3, Zenon

LEMMA EmittedToQueue ==
  ASSUME NEW Event, NEW Call, NEW s \in Subscriber(Event, Call), NEW e \in Event,
         NEW limit \in Nat \ {0}, ~Awaited(s)
  PROVE  /\ Emitted(s, e, limit) \in Subscriber(Event, Call)
         /\ Emitted(s, e, limit).queue =
              IF Len(s.queue) >= limit THEN Append(Tail(s.queue), e)
                                       ELSE Append(s.queue, e)
         /\ Emitted(s, e, limit).done = s.done
         /\ Emitted(s, e, limit).resolvers = s.resolvers
<1>1. CASE Len(s.queue) >= limit
  <2>1. Append(Tail(s.queue), e) \in Seq(Event)
    BY <1>1 DEF Subscriber
  <2>2. Emitted(s, e, limit) =
          [s EXCEPT !.queue = Append(Tail(s.queue), e), !.dropped = @ + 1]
    BY <1>1, Zenon DEF Emitted
  <2>3. s.dropped + 1 \in Nat
    BY DEF Subscriber
  <2>. DEFINE r == [s EXCEPT !.queue = Append(Tail(s.queue), e), !.dropped = @ + 1]
  <2>4. r \in Subscriber(Event, Call)
    BY <2>1, <2>3 DEF Subscriber
  <2>5. r.queue = Append(Tail(s.queue), e)
    BY DEF Subscriber
  <2>6. r.done = s.done
    BY DEF Subscriber
  <2>7. r.resolvers = s.resolvers
    BY DEF Subscriber
  <2>. QED BY <1>1, <2>2, <2>4, <2>5, <2>6, <2>7, Zenon
<1>2. CASE ~(Len(s.queue) >= limit)
  <2>1. Append(s.queue, e) \in Seq(Event)
    BY DEF Subscriber
  <2>2. Emitted(s, e, limit) = [s EXCEPT !.queue = Append(s.queue, e)]
    BY <1>2, Zenon DEF Emitted
  <2>3. /\ [s EXCEPT !.queue = Append(s.queue, e)] \in Subscriber(Event, Call)
        /\ [s EXCEPT !.queue = Append(s.queue, e)].queue = Append(s.queue, e)
        /\ [s EXCEPT !.queue = Append(s.queue, e)].done = s.done
        /\ [s EXCEPT !.queue = Append(s.queue, e)].resolvers = s.resolvers
    BY <2>1 DEF Subscriber
  <2>. QED BY <1>2, <2>2, <2>3, Zenon
<1>. QED BY <1>1, <1>2

LEMMA TakenSubscriber ==
  ASSUME NEW Event, NEW Call, NEW s \in Subscriber(Event, Call), s.queue # <<>>
  PROVE  /\ Taken(s) \in Subscriber(Event, Call)
         /\ Taken(s).queue = Tail(s.queue)
         /\ Taken(s).done = s.done
         /\ Taken(s).resolvers = s.resolvers
<1>1. Tail(s.queue) \in Seq(Event)
  BY DEF Subscriber
<1>2. Taken(s) = [s EXCEPT !.queue = Tail(s.queue)]
  BY Zenon DEF Taken
<1>3. /\ [s EXCEPT !.queue = Tail(s.queue)] \in Subscriber(Event, Call)
      /\ [s EXCEPT !.queue = Tail(s.queue)].queue = Tail(s.queue)
      /\ [s EXCEPT !.queue = Tail(s.queue)].done = s.done
      /\ [s EXCEPT !.queue = Tail(s.queue)].resolvers = s.resolvers
  BY <1>1 DEF Subscriber
<1>. QED BY <1>2, <1>3, Zenon

LEMMA WaitingSubscriber ==
  ASSUME NEW Event, NEW Call, NEW s \in Subscriber(Event, Call), NEW c \in Call
  PROVE  /\ Waiting(s, c) \in Subscriber(Event, Call)
         /\ Waiting(s, c).queue = s.queue
         /\ Waiting(s, c).done = s.done
         /\ Waiting(s, c).resolvers = Append(s.resolvers, c)
<1>1. Append(s.resolvers, c) \in Seq(Call)
  BY DEF Subscriber
<1>2. Waiting(s, c) = [s EXCEPT !.resolvers = Append(s.resolvers, c)]
  BY Zenon DEF Waiting
<1>3. /\ [s EXCEPT !.resolvers = Append(s.resolvers, c)] \in Subscriber(Event, Call)
      /\ [s EXCEPT !.resolvers = Append(s.resolvers, c)].queue = s.queue
      /\ [s EXCEPT !.resolvers = Append(s.resolvers, c)].done = s.done
      /\ [s EXCEPT !.resolvers = Append(s.resolvers, c)].resolvers = Append(s.resolvers, c)
  BY <1>1 DEF Subscriber
<1>. QED BY <1>2, <1>3, Zenon

LEMMA StoppedSubscriber ==
  ASSUME NEW Event, NEW Call, NEW s \in Subscriber(Event, Call)
  PROVE  /\ Stopped(s) \in Subscriber(Event, Call)
         /\ Stopped(s).queue = s.queue
         /\ Stopped(s).done = TRUE
         /\ Stopped(s).resolvers = <<>>
<1>1. <<>> \in Seq(Call)
  OBVIOUS
<1>2. Stopped(s) \in Subscriber(Event, Call)
  BY <1>1 DEF Stopped, Subscriber
<1>3. Stopped(s).queue = s.queue
  BY DEF Stopped, Subscriber
<1>4. Stopped(s).done = TRUE
  BY DEF Stopped, Subscriber
<1>5. Stopped(s).resolvers = <<>>
  BY DEF Stopped, Subscriber
<1>. QED BY <1>2, <1>3, <1>4, <1>5

\* What an operation on a subscriber does to its count of dropped events.
LEMMA DroppedByEmit ==
  ASSUME NEW Event, NEW Call, NEW s \in Subscriber(Event, Call), NEW e \in Event,
         NEW limit \in Nat \ {0}
  PROVE  Emitted(s, e, limit).dropped =
           IF ~Awaited(s) /\ Len(s.queue) >= limit THEN s.dropped + 1 ELSE s.dropped
<1>1. CASE Awaited(s)
  <2>1. Emitted(s, e, limit) = [s EXCEPT !.resolvers = Tail(s.resolvers)]
    BY <1>1, Zenon DEF Emitted
  <2>2. [s EXCEPT !.resolvers = Tail(s.resolvers)].dropped = s.dropped
    BY DEF Subscriber
  <2> QED
    BY <1>1, <2>1, <2>2
<1>2. CASE ~Awaited(s) /\ Len(s.queue) >= limit
  <2>1. Emitted(s, e, limit) =
          [s EXCEPT !.queue = Append(Tail(s.queue), e), !.dropped = @ + 1]
    BY <1>2, Zenon DEF Emitted
  <2>2. [s EXCEPT !.queue = Append(Tail(s.queue), e), !.dropped = @ + 1].dropped
          = s.dropped + 1
    BY DEF Subscriber
  <2> QED
    BY <1>2, <2>1, <2>2
<1>3. CASE ~Awaited(s) /\ ~(Len(s.queue) >= limit)
  <2>1. Emitted(s, e, limit) = [s EXCEPT !.queue = Append(s.queue, e)]
    BY <1>3, Zenon DEF Emitted
  <2>2. [s EXCEPT !.queue = Append(s.queue, e)].dropped = s.dropped
    BY DEF Subscriber
  <2> QED
    BY <1>3, <2>1, <2>2
<1> QED
  BY <1>1, <1>2, <1>3

LEMMA DroppedByWait ==
  ASSUME NEW Event, NEW Call, NEW s \in Subscriber(Event, Call), NEW c \in Call
  PROVE  Waiting(s, c).dropped = s.dropped
<1>1. Waiting(s, c) = [s EXCEPT !.resolvers = Append(s.resolvers, c)]
  BY Zenon DEF Waiting
<1>2. [s EXCEPT !.resolvers = Append(s.resolvers, c)].dropped = s.dropped
  BY DEF Subscriber
<1> QED
  BY <1>1, <1>2

LEMMA DroppedByTakeOrStop ==
  ASSUME NEW Event, NEW Call, NEW s \in Subscriber(Event, Call)
  PROVE  /\ Taken(s).dropped = s.dropped
         /\ Stopped(s).dropped = s.dropped
<1>1. Taken(s) = [s EXCEPT !.queue = Tail(s.queue)]
  BY Zenon DEF Taken
<1>2. [s EXCEPT !.queue = Tail(s.queue)].dropped = s.dropped
  BY DEF Subscriber
<1>3. Stopped(s).dropped = s.dropped
  BY DEF Stopped, Subscriber
<1> QED
  BY <1>1, <1>2, <1>3

----------------------------------------------------------------------------
\* What the steps of a loop do to the event in hand and to the queue.

LEMMA LoadSum ==
  ASSUME NEW Event, NEW hand \in Seq(Event), NEW queue \in Seq(Event), NEW dropped \in Nat
  PROVE  Len(hand) + Len(queue) + dropped \in Nat
OBVIOUS

LEMMA OneInHand ==
  ASSUME NEW Event, NEW hand \in Seq(Event), Len(hand) <= 1
  PROVE  hand # <<>> => Len(hand) = 1 /\ hand[1] \in Event /\ DOMAIN hand = {1}
<1> SUFFICES ASSUME hand # <<>>
             PROVE  Len(hand) = 1 /\ hand[1] \in Event /\ DOMAIN hand = {1}
  OBVIOUS
<1> DEFINE n == Len(hand)
<1>1. n \in Nat /\ n <= 1 /\ n # 0
  OBVIOUS
<1> HIDE DEF n
<1>2. n = 1
  BY <1>1
<1> QED
  BY <1>2 DEF n

\* The fields of a loop.
LEMMA LoopFields ==
  ASSUME NEW Event, NEW loop, IsLoop(loop, Event)
  PROVE  /\ loop.sub \in Subscriber(Event, {"loop"})
         /\ loop.sub.queue \in Seq(Event) /\ loop.hand \in Seq(Event)
         /\ Len(loop.sub.queue) \in Nat /\ loop.sub.dropped \in Nat
         /\ Load(loop) \in Nat
         /\ Busy(loop) => Len(loop.hand) = 1 /\ loop.hand[1] \in Event
                            /\ DOMAIN loop.hand = {1}
         /\ ~Busy(loop) => loop.hand = <<>>
<1>1. /\ loop.sub \in Subscriber(Event, {"loop"})
      /\ loop.hand \in Seq(Event) /\ Len(loop.hand) <= 1
  BY DEF IsLoop
<1>2. loop.sub.queue \in Seq(Event) /\ loop.sub.dropped \in Nat
  BY <1>1 DEF Subscriber
<1>3. Len(loop.sub.queue) \in Nat
  BY <1>2
<1>4. Load(loop) \in Nat
  BY <1>1, <1>2, LoadSum DEF Load
<1> QED
  BY <1>1, <1>2, <1>3, <1>4, OneInHand DEF Busy

\* A count of events with the load of the loop that waits for them.
LEMMA CountedLoad ==
  ASSUME NEW Event, NEW loop, IsLoop(loop, Event), NEW n \in Nat
  PROVE  n + Len(loop.hand) + Len(loop.sub.queue) + loop.sub.dropped = n + Load(loop)
<1> DEFINE h == Len(loop.hand)
           q == Len(loop.sub.queue)
           d == loop.sub.dropped
<1>1. q \in Nat /\ d \in Nat
  BY LoopFields
<1>2. h \in Nat
  BY DEF IsLoop
<1> HIDE DEF h, q, d
<1>3. n + h + q + d = n + (h + q + d)
  BY <1>1, <1>2
<1> QED
  BY <1>3 DEF Load, h, q, d

\* A loop over some events is one over more of them.
LEMMA LoopWidens ==
  ASSUME NEW Event, NEW Wider, Event \subseteq Wider, NEW loop, IsLoop(loop, Event)
  PROVE  IsLoop(loop, Wider)
<1>1. Seq(Event) \subseteq Seq(Wider)
  OBVIOUS
<1> QED
  BY <1>1 DEF IsLoop, Subscriber

\* A new loop waits, holds nothing and has dropped nothing.
LEMMA NewLoopFacts ==
  ASSUME NEW Event
  PROVE  /\ IsLoop(NewLoop, Event) /\ InStep(NewLoop) /\ Subscribed(NewLoop)
         /\ NewLoop.hand = <<>> /\ NewLoop.sub.queue = <<>>
         /\ NewLoop.sub.dropped = 0
<1> DEFINE s == Waiting(NewSubscriber, "loop")
<1>1. NewSubscriber \in Subscriber(Event, {"loop"})
  BY DEF NewSubscriber, Subscriber
<1>2. /\ s \in Subscriber(Event, {"loop"})
      /\ s.queue = <<>> /\ s.done = FALSE /\ s.dropped = 0
      /\ s.resolvers = Append(<<>>, "loop")
  BY <1>1, WaitingSubscriber, DroppedByWait DEF NewSubscriber
<1>3. NewLoop = [sub |-> s, hand |-> <<>>]
  BY DEF NewLoop
<1>4. Append(<<>>, "loop") = <<"loop">> /\ <<>> \in Seq(Event) /\ Len(<<>>) <= 1
  OBVIOUS
<1> HIDE DEF s
<1>5. IsLoop(NewLoop, Event)
  BY <1>2, <1>3, <1>4 DEF IsLoop
<1>6. ~Busy(NewLoop) /\ NewLoop.sub.resolvers = <<"loop">> /\ NewLoop.sub.done = FALSE
  BY <1>2, <1>3, <1>4 DEF Busy
<1> QED
  BY <1>2, <1>3, <1>5, <1>6 DEF InStep, InOrder, Subscribed

\* emit, to a loop that waits: the event is in hand.
LEMMA OfferToWaiting ==
  ASSUME NEW Event, NEW loop, IsLoop(loop, Event), InStep(loop),
         Subscribed(loop), ~Busy(loop), NEW e \in Event, NEW limit \in Nat \ {0},
         NEW l, l = Offer(loop, e, limit)
  PROVE  /\ IsLoop(l, Event) /\ InStep(l) /\ Subscribed(l)
         /\ l.hand = <<e>> /\ l.sub.queue = <<>>
         /\ l.sub.dropped = loop.sub.dropped
         /\ Load(l) = Load(loop) + 1
<1> DEFINE s == Emitted(loop.sub, e, limit)
<1>1. loop.sub \in Subscriber(Event, {"loop"}) /\ loop.sub.dropped \in Nat
  BY LoopFields
<1>2. /\ loop.sub.resolvers = <<"loop">> /\ loop.sub.queue = <<>> /\ loop.hand = <<>>
      /\ Awaited(loop.sub)
  BY DEF InStep, InOrder, Subscribed, Busy, Awaited
<1>3. /\ s \in Subscriber(Event, {"loop"})
      /\ s.queue = <<>> /\ s.done = loop.sub.done /\ s.resolvers = Tail(<<"loop">>)
      /\ s.dropped = loop.sub.dropped
  <2>1. /\ s \in Subscriber(Event, {"loop"})
        /\ s.queue = loop.sub.queue /\ s.done = loop.sub.done
        /\ s.resolvers = Tail(loop.sub.resolvers)
    <3> DEFINE Call == {"loop"}
    <3>1. loop.sub \in Subscriber(Event, Call) /\ Awaited(loop.sub)
      BY <1>1, <1>2
    <3> HIDE DEF Call
    <3>2. /\ Emitted(loop.sub, e, limit) \in Subscriber(Event, Call)
          /\ Emitted(loop.sub, e, limit).queue = loop.sub.queue
          /\ Emitted(loop.sub, e, limit).done = loop.sub.done
          /\ Emitted(loop.sub, e, limit).resolvers = Tail(loop.sub.resolvers)
      BY <3>1, EmittedToCall
    <3> QED
      BY <3>2 DEF Call
  <2>2. s.dropped = loop.sub.dropped
    BY <1>1, <1>2, DroppedByEmit
  <2> QED
    BY <1>2, <2>1, <2>2
<1>4. l = [sub |-> s, hand |-> <<e>>]
  BY <1>2 DEF Offer
<1>5. /\ Tail(<<"loop">>) = <<>> /\ <<e>> \in Seq(Event) /\ Len(<<e>>) = 1
      /\ Len(<<>>) = 0
  OBVIOUS
<1> HIDE DEF s
<1>6. IsLoop(l, Event)
  BY <1>3, <1>4, <1>5 DEF IsLoop
<1>7. /\ l.hand = <<e>> /\ l.sub.queue = <<>> /\ l.sub.dropped = loop.sub.dropped
      /\ l.sub.resolvers = <<>> /\ l.sub.done = loop.sub.done
  BY <1>3, <1>4, <1>5
<1>8. InStep(l) /\ Subscribed(l)
  BY <1>5, <1>7 DEF InStep, InOrder, Subscribed, Busy
<1>9. Load(l) = Load(loop) + 1
  <2>1. Load(l) = 1 + 0 + loop.sub.dropped /\ Load(loop) = 0 + 0 + loop.sub.dropped
    BY <1>2, <1>5, <1>7 DEF Load
  <2> QED
    BY <1>1, <2>1
<1> QED
  BY <1>6, <1>7, <1>8, <1>9

LEMMA QueueLengths ==
  ASSUME NEW Event, NEW queue \in Seq(Event), NEW e \in Event
  PROVE  /\ Len(queue) \in Nat
         /\ Len(Append(queue, e)) = Len(queue) + 1
         /\ queue # <<>> => Len(Append(Tail(queue), e)) = Len(queue)
<1>1. Len(Append(queue, e)) = Len(queue) + 1 /\ Len(queue) \in Nat
  OBVIOUS
<1>2. ASSUME queue # <<>>
      PROVE  Len(Append(Tail(queue), e)) = Len(queue)
  <2>1. Tail(queue) \in Seq(Event) /\ Len(Tail(queue)) = Len(queue) - 1
    BY <1>2
  <2>2. Len(Append(Tail(queue), e)) = Len(Tail(queue)) + 1
    BY <2>1
  <2> QED
    BY <1>1, <2>1, <2>2
<1> QED
  BY <1>1, <1>2

\* What a busy loop is left with: the event is queued, and when the queue is
\* full its oldest entry makes room.
Queued(loop, l, e, limit) ==
  \/ /\ Len(loop.sub.queue) < limit
     /\ l.sub.queue = Append(loop.sub.queue, e)
     /\ l.sub.dropped = loop.sub.dropped
  \/ /\ loop.sub.queue # <<>>
     /\ Len(loop.sub.queue) = limit
     /\ l.sub.queue = Append(Tail(loop.sub.queue), e)
     /\ l.sub.dropped = loop.sub.dropped + 1

\* emit, to a loop at work.
LEMMA OfferToBusy ==
  ASSUME NEW Event, NEW loop, IsLoop(loop, Event), InStep(loop),
         Subscribed(loop), Busy(loop), NEW e \in Event, NEW limit \in Nat \ {0},
         Len(loop.sub.queue) <= limit,
         NEW l, l = Offer(loop, e, limit)
  PROVE  /\ IsLoop(l, Event) /\ InStep(l) /\ Subscribed(l) /\ Busy(l)
         /\ l.hand = loop.hand
         /\ Queued(loop, l, e, limit)
         /\ Len(l.sub.queue) <= limit
         /\ Load(l) = Load(loop) + 1
<1> DEFINE s == Emitted(loop.sub, e, limit)
<1>1. /\ loop.sub \in Subscriber(Event, {"loop"}) /\ loop.sub.dropped \in Nat
      /\ loop.hand \in Seq(Event) /\ Len(loop.hand) <= 1
      /\ loop.sub.queue \in Seq(Event)
      /\ Len(loop.hand) \in Nat /\ Len(loop.sub.queue) \in Nat
      /\ loop.sub.resolvers = <<>> /\ ~Awaited(loop.sub)
  BY LoopFields DEF IsLoop, InStep, InOrder, Subscribed, Awaited
<1>2. /\ s \in Subscriber(Event, {"loop"})
      /\ s.done = loop.sub.done /\ s.resolvers = <<>>
      /\ s.queue = IF Len(loop.sub.queue) >= limit
                   THEN Append(Tail(loop.sub.queue), e) ELSE Append(loop.sub.queue, e)
      /\ s.dropped = IF Len(loop.sub.queue) >= limit
                     THEN loop.sub.dropped + 1 ELSE loop.sub.dropped
  BY <1>1, EmittedToQueue, DroppedByEmit
<1>3. l = [sub |-> s, hand |-> loop.hand]
  BY <1>1 DEF Offer
<1> HIDE DEF s
<1>4. /\ l.hand = loop.hand /\ l.sub.resolvers = <<>> /\ l.sub.done = loop.sub.done
      /\ l.sub.queue = s.queue /\ l.sub.dropped = s.dropped
  BY <1>2, <1>3
<1>5. IsLoop(l, Event)
  BY <1>1, <1>2, <1>3 DEF IsLoop
<1>6. InStep(l) /\ Subscribed(l) /\ Busy(l)
  BY <1>4 DEF InStep, InOrder, Subscribed, Busy
<1>7. CASE Len(loop.sub.queue) = limit
  <2>1. /\ l.sub.queue = Append(Tail(loop.sub.queue), e)
        /\ l.sub.dropped = loop.sub.dropped + 1
    BY <1>2, <1>4, <1>7
  <2>2. loop.sub.queue # <<>>
    BY <1>7
  <2>3. Len(l.sub.queue) = Len(loop.sub.queue)
    BY <1>1, <2>1, <2>2, QueueLengths
  <2>4. Load(l) = Len(loop.hand) + Len(loop.sub.queue) + (loop.sub.dropped + 1)
    BY <1>4, <2>1, <2>3 DEF Load
  <2>5. Load(l) = Load(loop) + 1
    <3> DEFINE h == Len(loop.hand)
               q == Len(loop.sub.queue)
               d == loop.sub.dropped
    <3>1. h \in Nat /\ q \in Nat /\ d \in Nat
      BY <1>1
    <3>2. Load(l) = h + q + (d + 1) /\ Load(loop) = h + q + d
      BY <2>4 DEF Load
    <3> HIDE DEF h, q, d
    <3> QED
      BY <3>1, <3>2
  <2> QED
    BY <1>4, <1>5, <1>6, <1>7, <2>1, <2>2, <2>3, <2>5 DEF Queued
<1>8. CASE Len(loop.sub.queue) < limit
  <2>1. /\ l.sub.queue = Append(loop.sub.queue, e)
        /\ l.sub.dropped = loop.sub.dropped
    BY <1>1, <1>2, <1>4, <1>8
  <2>2. Len(l.sub.queue) = Len(loop.sub.queue) + 1
    BY <1>1, <2>1, QueueLengths
  <2>3. Load(l) = Len(loop.hand) + (Len(loop.sub.queue) + 1) + loop.sub.dropped
    BY <1>4, <2>1, <2>2 DEF Load
  <2>4. Load(l) = Load(loop) + 1
    <3> DEFINE h == Len(loop.hand)
               q == Len(loop.sub.queue)
               d == loop.sub.dropped
    <3>1. h \in Nat /\ q \in Nat /\ d \in Nat
      BY <1>1
    <3>2. Load(l) = h + (q + 1) + d /\ Load(loop) = h + q + d
      BY <2>3 DEF Load
    <3> HIDE DEF h, q, d
    <3> QED
      BY <3>1, <3>2
  <2> QED
    BY <1>1, <1>4, <1>5, <1>6, <1>8, <2>1, <2>2, <2>4 DEF Queued
<1> QED
  BY <1>1, <1>7, <1>8

\* What a loop that asks again finds: the next event of the queue, or nothing.
Advanced(loop, l) ==
  \/ /\ loop.sub.queue # <<>>
     /\ l.hand = <<Head(loop.sub.queue)>>
     /\ l.sub.queue = Tail(loop.sub.queue)
     /\ Len(l.sub.queue) = Len(loop.sub.queue) - 1
  \/ loop.sub.queue = <<>> /\ l.hand = <<>> /\ l.sub.queue = <<>>

\* next(), by the body of the loop: the oldest queued event is in hand, or the
\* loop waits.
LEMMA AskAgainMoves ==
  ASSUME NEW Event, NEW loop, IsLoop(loop, Event), InOrder(loop), Busy(loop),
         NEW l, l = AskAgain(loop)
  PROVE  /\ IsLoop(l, Event) /\ InOrder(l) /\ l.sub.done = loop.sub.done
         /\ Load(loop) = Load(l) + 1
         /\ l.sub.dropped = loop.sub.dropped
         /\ Len(l.sub.queue) <= Len(loop.sub.queue)
         /\ Advanced(loop, l)
<1>1. /\ loop.sub \in Subscriber(Event, {"loop"}) /\ loop.sub.dropped \in Nat
      /\ loop.sub.queue \in Seq(Event) /\ Len(loop.sub.queue) \in Nat
      /\ Len(loop.hand) = 1
      /\ loop.sub.resolvers = <<>>
  BY LoopFields DEF InOrder
<1>2. CASE loop.sub.queue # <<>>
  <2> DEFINE s == Taken(loop.sub)
             Call == {"loop"}
  <2>1. loop.sub \in Subscriber(Event, Call)
    BY <1>1
  <2> HIDE DEF Call
  <2>2. /\ s \in Subscriber(Event, Call)
        /\ s.queue = Tail(loop.sub.queue) /\ s.done = loop.sub.done
        /\ s.resolvers = <<>> /\ s.dropped = loop.sub.dropped
    <3>1. /\ Taken(loop.sub) \in Subscriber(Event, Call)
          /\ Taken(loop.sub).queue = Tail(loop.sub.queue)
          /\ Taken(loop.sub).done = loop.sub.done
          /\ Taken(loop.sub).resolvers = loop.sub.resolvers
      BY <1>2, <2>1, TakenSubscriber
    <3>2. Taken(loop.sub).dropped = loop.sub.dropped
      BY <2>1, DroppedByTakeOrStop
    <3> QED
      BY <1>1, <3>1, <3>2
  <2>3. l = [sub |-> s, hand |-> <<Head(loop.sub.queue)>>]
    BY <1>2 DEF AskAgain
  <2>4. /\ Head(loop.sub.queue) \in Event /\ Len(Tail(loop.sub.queue)) = Len(loop.sub.queue) - 1
    BY <1>1, <1>2
  <2>5. /\ <<Head(loop.sub.queue)>> \in Seq(Event) /\ Len(<<Head(loop.sub.queue)>>) = 1
        /\ <<Head(loop.sub.queue)>> # <<>>
    BY <2>4
  <2> HIDE DEF s
  <2>6. IsLoop(l, Event)
    BY <2>2, <2>3, <2>5 DEF IsLoop, Call
  <2>7. /\ l.hand = <<Head(loop.sub.queue)>> /\ l.sub.queue = Tail(loop.sub.queue)
        /\ l.sub.dropped = loop.sub.dropped
        /\ l.sub.done = loop.sub.done /\ l.sub.resolvers = <<>>
    BY <2>2, <2>3
  <2>8. InOrder(l)
    BY <1>1, <2>5, <2>7 DEF InOrder, Busy
  <2>9. /\ Load(l) = 1 + (Len(loop.sub.queue) - 1) + loop.sub.dropped
        /\ Load(loop) = 1 + Len(loop.sub.queue) + loop.sub.dropped
    BY <1>1, <2>4, <2>5, <2>7 DEF Load
  <2> DEFINE n == Len(loop.sub.queue)
             d == loop.sub.dropped
  <2>10. n \in Nat /\ d \in Nat /\ Load(l) = 1 + (n - 1) + d /\ Load(loop) = 1 + n + d
    BY <1>1, <2>9
  <2>11. Len(l.sub.queue) = n - 1
    BY <2>4, <2>7
  <2> HIDE DEF n, d
  <2>12. Load(loop) = Load(l) + 1 /\ Len(l.sub.queue) <= n
    BY <2>10, <2>11
  <2> QED
    BY <1>1, <1>2, <2>6, <2>7, <2>8, <2>11, <2>12 DEF n, Advanced
<1>3. CASE loop.sub.queue = <<>> /\ ~loop.sub.done
  <2> DEFINE s == Waiting(loop.sub, "loop")
             Call == {"loop"}
  <2>1. loop.sub \in Subscriber(Event, Call) /\ "loop" \in Call
    BY <1>1
  <2> HIDE DEF Call
  <2>2. /\ s \in Subscriber(Event, Call)
        /\ s.queue = <<>> /\ s.done = loop.sub.done
        /\ s.resolvers = Append(<<>>, "loop") /\ s.dropped = loop.sub.dropped
    <3>1. /\ Waiting(loop.sub, "loop") \in Subscriber(Event, Call)
          /\ Waiting(loop.sub, "loop").queue = loop.sub.queue
          /\ Waiting(loop.sub, "loop").done = loop.sub.done
          /\ Waiting(loop.sub, "loop").resolvers = Append(loop.sub.resolvers, "loop")
      BY <2>1, WaitingSubscriber
    <3>2. Waiting(loop.sub, "loop").dropped = loop.sub.dropped
      BY <2>1, DroppedByWait
    <3> QED
      BY <1>1, <1>3, <3>1, <3>2
  <2>3. l = [sub |-> s, hand |-> <<>>]
    BY <1>1, <1>3 DEF AskAgain
  <2>4. Append(<<>>, "loop") = <<"loop">> /\ <<>> \in Seq(Event) /\ Len(<<>>) = 0
    OBVIOUS
  <2> HIDE DEF s
  <2>5. IsLoop(l, Event)
    BY <2>2, <2>3, <2>4 DEF IsLoop, Call
  <2>6. /\ l.hand = <<>> /\ l.sub.queue = <<>> /\ l.sub.dropped = loop.sub.dropped
        /\ l.sub.done = loop.sub.done /\ l.sub.resolvers = <<"loop">>
    BY <2>2, <2>3, <2>4
  <2>7. InOrder(l)
    BY <1>3, <2>6 DEF InOrder, Busy
  <2>8. /\ Load(l) = 0 + 0 + loop.sub.dropped
        /\ Load(loop) = 1 + 0 + loop.sub.dropped
        /\ Len(l.sub.queue) = 0 /\ Len(loop.sub.queue) = 0
    BY <1>1, <1>3, <2>4, <2>6 DEF Load
  <2> QED
    BY <1>1, <1>3, <2>5, <2>6, <2>7, <2>8 DEF Advanced
<1>4. CASE loop.sub.queue = <<>> /\ loop.sub.done
  <2>1. l = [loop EXCEPT !.hand = <<>>]
    BY <1>4, Zenon DEF AskAgain
  <2>2. DOMAIN l = {"sub", "hand"} /\ l.sub = loop.sub /\ l.hand = <<>>
    BY <2>1 DEF IsLoop
  <2>3. <<>> \in Seq(Event) /\ Len(<<>>) = 0
    OBVIOUS
  <2>4. IsLoop(l, Event)
    BY <1>1, <2>2, <2>3 DEF IsLoop
  <2>5. InOrder(l)
    BY <1>1, <1>4, <2>2 DEF InOrder, Busy
  <2>6. /\ Load(l) = 0 + 0 + loop.sub.dropped
        /\ Load(loop) = 1 + 0 + loop.sub.dropped
        /\ Len(l.sub.queue) = 0 /\ Len(loop.sub.queue) = 0
    BY <1>1, <1>4, <2>2, <2>3 DEF Load
  <2>7. /\ loop.sub.dropped \in Nat /\ Load(loop) = Load(l) + 1
    <3> DEFINE d == loop.sub.dropped
    <3>1. d \in Nat
      BY DEF IsLoop, Subscriber
    <3>2. Load(l) = 0 + 0 + d /\ Load(loop) = 1 + 0 + d
      BY <2>6
    <3> HIDE DEF d
    <3>3. Load(loop) = Load(l) + 1
      BY <3>1, <3>2
    <3> QED
      BY <3>1, <3>3 DEF d
  <2>8. Len(l.sub.queue) <= Len(loop.sub.queue)
    BY <2>6
  <2> QED
    BY <1>4, <2>2, <2>4, <2>5, <2>7, <2>8 DEF Advanced
<1> QED
  BY <1>2, <1>3, <1>4

LEMMA AskAgainFacts ==
  ASSUME NEW Event, NEW loop, IsLoop(loop, Event), InStep(loop), Busy(loop),
         NEW l, l = AskAgain(loop)
  PROVE  /\ IsLoop(l, Event) /\ InStep(l) /\ Subscribed(loop) /\ Subscribed(l)
         /\ Load(loop) = Load(l) + 1
         /\ l.sub.dropped = loop.sub.dropped
         /\ Len(l.sub.queue) <= Len(loop.sub.queue)
         /\ Advanced(loop, l)
<1>1. InOrder(loop) /\ ~loop.sub.done
  BY DEF InStep
<1>2. /\ IsLoop(l, Event) /\ InOrder(l) /\ l.sub.done = loop.sub.done
      /\ Load(loop) = Load(l) + 1
      /\ l.sub.dropped = loop.sub.dropped
      /\ Len(l.sub.queue) <= Len(loop.sub.queue)
  BY <1>1, AskAgainMoves
<1>3. Advanced(loop, l)
  BY <1>1, AskAgainMoves
<1>4. InStep(l) /\ Subscribed(loop) /\ Subscribed(l)
  BY <1>1, <1>2 DEF InStep, Subscribed
<1> QED
  BY <1>2, <1>3, <1>4

\* unsubscribe() leaves what is in hand and what is queued.
LEMMA StopFacts ==
  ASSUME NEW Event, NEW loop, IsLoop(loop, Event), InOrder(loop),
         NEW l, l = Unsubscribed(loop)
  PROVE  /\ IsLoop(l, Event) /\ InOrder(l) /\ ~Subscribed(l)
         /\ l.hand = loop.hand /\ l.sub.queue = loop.sub.queue
         /\ l.sub.dropped = loop.sub.dropped
<1> DEFINE s == Stopped(loop.sub)
           Call == {"loop"}
<1>1. /\ loop.sub \in Subscriber(Event, Call)
      /\ loop.hand \in Seq(Event) /\ Len(loop.hand) <= 1
  BY LoopFields DEF IsLoop
<1> HIDE DEF Call
<1>2. /\ s \in Subscriber(Event, Call)
      /\ s.queue = loop.sub.queue /\ s.done = TRUE
      /\ s.resolvers = <<>> /\ s.dropped = loop.sub.dropped
  <2>1. /\ Stopped(loop.sub) \in Subscriber(Event, Call)
        /\ Stopped(loop.sub).queue = loop.sub.queue
        /\ Stopped(loop.sub).done = TRUE
        /\ Stopped(loop.sub).resolvers = <<>>
    <3> DEFINE x == loop.sub
    <3>1. x \in Subscriber(Event, Call)
      BY <1>1
    <3> HIDE DEF x
    <3>2. /\ Stopped(x) \in Subscriber(Event, Call)
          /\ Stopped(x).queue = x.queue
          /\ Stopped(x).done = TRUE
          /\ Stopped(x).resolvers = <<>>
      BY <3>1, StoppedSubscriber, Zenon
    <3> QED
      BY <3>2 DEF x
  <2>2. Stopped(loop.sub).dropped = loop.sub.dropped
    BY <1>1, DroppedByTakeOrStop
  <2> QED
    BY <1>1, <2>1, <2>2
<1>3. l = [sub |-> s, hand |-> loop.hand]
  BY <1>1 DEF Unsubscribed, IsLoop
<1> HIDE DEF s
<1>4. IsLoop(l, Event)
  BY <1>1, <1>2, <1>3 DEF IsLoop, Call
<1>5. /\ l.hand = loop.hand /\ l.sub.queue = loop.sub.queue
      /\ l.sub.dropped = loop.sub.dropped
      /\ l.sub.done = TRUE /\ l.sub.resolvers = <<>>
  BY <1>2, <1>3
<1>6. InOrder(l) /\ ~Subscribed(l)
  BY <1>5 DEF InOrder, Subscribed, Busy
<1> QED
  BY <1>4, <1>5, <1>6

\* Between two events both are empty.
LEMMA UnsubscribedFacts ==
  ASSUME NEW Event, NEW loop, IsLoop(loop, Event), InStep(loop), ~Busy(loop),
         NEW l, l = Unsubscribed(loop)
  PROVE  /\ IsLoop(l, Event) /\ InStep(l) /\ ~Subscribed(l)
         /\ l.hand = <<>> /\ l.sub.queue = <<>>
         /\ l.sub.dropped = loop.sub.dropped
<1>1. /\ IsLoop(l, Event) /\ InOrder(l) /\ ~Subscribed(l)
      /\ l.hand = loop.hand /\ l.sub.queue = loop.sub.queue
      /\ l.sub.dropped = loop.sub.dropped
  BY StopFacts DEF InStep
<1> QED
  BY <1>1 DEF InStep, InOrder, Busy

\* A set of naturals that holds 0 and every successor of its members is Nat.
LEMMA NatInduct ==
  ASSUME NEW S, 0 \in S, \A n \in Nat : n \in S => n + 1 \in S
  PROVE  Nat \subseteq S
<1> DEFINE T == Nat \ S
<1>1. SUFFICES ASSUME T # {}
               PROVE  FALSE
  OBVIOUS
<1>2. PICK n \in T : \A m \in T : ~(<<m, n>> \in OpToRel(<, Nat))
  <2> HIDE DEF T
  <2>1. T \subseteq Nat
    BY DEF T
  <2>2. IsWellFoundedOn(OpToRel(<, Nat), Nat)
    BY NatLessThanWellFounded
  <2> QED
    BY <1>1, <2>1, <2>2, WFMin
<1>3. n # 0 /\ n - 1 \in Nat /\ n - 1 \notin S
  OBVIOUS
<1>4. <<n - 1, n>> \in OpToRel(<, Nat)
  BY <1>3 DEF OpToRel
<1> QED
  BY <1>2, <1>3, <1>4

----------------------------------------------------------------------------
\* Events of different ids, none of which the loop holds, leave it with events
\* of different ids.

LEMMA AppendIndices ==
  ASSUME NEW Event, NEW q \in Seq(Event), NEW e, NEW k \in DOMAIN Append(q, e)
  PROVE  \/ k \in DOMAIN q /\ Append(q, e)[k] = q[k]
         \/ k = Len(q) + 1 /\ Append(q, e)[k] = e
OBVIOUS

LEMMA ShiftIndices ==
  ASSUME NEW Event, NEW q \in Seq(Event), NEW e \in Event, q # <<>>,
         NEW k \in DOMAIN Append(Tail(q), e)
  PROVE  \/ k + 1 \in DOMAIN q /\ Append(Tail(q), e)[k] = q[k + 1]
         \/ k = Len(q) /\ Append(Tail(q), e)[k] = e
<1>1. Tail(q) \in Seq(Event) /\ Len(Tail(q)) = Len(q) - 1 /\ Len(q) \in Nat
  OBVIOUS
<1>2. \/ k \in DOMAIN Tail(q) /\ Append(Tail(q), e)[k] = Tail(q)[k]
      \/ k = Len(Tail(q)) + 1 /\ Append(Tail(q), e)[k] = e
  BY <1>1, AppendIndices
<1>3. ASSUME k \in DOMAIN Tail(q)
      PROVE  k + 1 \in DOMAIN q /\ Tail(q)[k] = q[k + 1]
  BY <1>1, <1>3, SMTT(30)
<1> QED
  BY <1>1, <1>2, <1>3

\* The queue of a loop l is that of `loop` without its first entries, and with
\* the event e behind it.
Follows(l, loop, e, shift, last) ==
  /\ DOMAIN l.sub.queue \subseteq Nat /\ DOMAIN loop.sub.queue \subseteq Nat
  /\ \A k \in DOMAIN l.sub.queue :
       \/ k + shift \in DOMAIN loop.sub.queue /\ l.sub.queue[k] = loop.sub.queue[k + shift]
       \/ k = last /\ l.sub.queue[k] = e

LEMMA QueueDistinct ==
  ASSUME NEW loop, NEW l, l.hand = loop.hand, Busy(loop), IdsDistinct(loop),
         DOMAIN loop.hand = {1}, NEW e, e.id \notin HeldIds(loop),
         NEW shift \in Nat, NEW last, Follows(l, loop, e, shift, last)
  PROVE  IdsDistinct(l) /\ HeldIds(l) \subseteq HeldIds(loop) \union {e.id}
<1> USE DEF Follows
<1>1. Busy(l) /\ loop.hand[1].id \in HeldIds(loop)
      /\ \A k \in DOMAIN loop.sub.queue : loop.sub.queue[k].id \in HeldIds(loop)
  BY DEF Busy, HeldIds
<1>2. ASSUME NEW k \in DOMAIN l.sub.queue
      PROVE  /\ l.sub.queue[k].id # l.hand[1].id
             /\ l.sub.queue[k].id \in HeldIds(loop) \union {e.id}
             /\ \A j \in DOMAIN l.sub.queue :
                  j # k => l.sub.queue[j].id # l.sub.queue[k].id
  <2>1. CASE k + shift \in DOMAIN loop.sub.queue /\ l.sub.queue[k] = loop.sub.queue[k + shift]
    <3>1. l.sub.queue[k].id # l.hand[1].id /\ l.sub.queue[k].id \in HeldIds(loop)
      BY <1>1, <2>1 DEF IdsDistinct
    <3>2. ASSUME NEW j \in DOMAIN l.sub.queue, j # k
          PROVE  l.sub.queue[j].id # l.sub.queue[k].id
      <4>1. CASE j + shift \in DOMAIN loop.sub.queue /\ l.sub.queue[j] = loop.sub.queue[j + shift]
        <5>1. j + shift # k + shift
          BY <3>2
        <5> QED
          BY <2>1, <4>1, <5>1 DEF IdsDistinct
      <4>2. CASE j = last /\ l.sub.queue[j] = e
        BY <3>1, <4>2
      <4> QED
        BY <4>1, <4>2
    <3> QED
      BY <3>1, <3>2
  <2>2. CASE k = last /\ l.sub.queue[k] = e
    <3>1. ASSUME NEW j \in DOMAIN l.sub.queue, j # k
          PROVE  l.sub.queue[j].id # l.sub.queue[k].id
      <4>1. j + shift \in DOMAIN loop.sub.queue /\ l.sub.queue[j] = loop.sub.queue[j + shift]
        BY <2>2, <3>1
      <4> QED
        BY <1>1, <2>2, <4>1
    <3> QED
      BY <1>1, <2>2, <3>1
  <2> QED
    BY <2>1, <2>2
<1>3. \A k \in DOMAIN l.hand : l.hand[k].id \in HeldIds(loop)
  BY DEF HeldIds
<1> HIDE DEF Follows
<1>4. IdsDistinct(l)
  BY <1>2, Zenon DEF IdsDistinct
<1>5. HeldIds(l) \subseteq HeldIds(loop) \union {e.id}
  <2>1. ASSUME NEW i \in HeldIds(l)
        PROVE  i \in HeldIds(loop) \union {e.id}
    <3>1. \/ \E k \in DOMAIN l.hand : i = l.hand[k].id
          \/ \E k \in DOMAIN l.sub.queue : i = l.sub.queue[k].id
      BY <2>1 DEF HeldIds
    <3> QED
      BY <1>2, <1>3, <3>1, Zenon
  <2> QED
    BY <2>1
<1> QED
  BY <1>4, <1>5

LEMMA OfferDistinct ==
  ASSUME NEW Event, NEW loop, IsLoop(loop, Event), InStep(loop), Subscribed(loop),
         NEW e \in Event, NEW limit \in Nat \ {0}, Len(loop.sub.queue) <= limit,
         IdsDistinct(loop), e.id \notin HeldIds(loop),
         NEW l, l = Offer(loop, e, limit)
  PROVE  IdsDistinct(l) /\ HeldIds(l) \subseteq HeldIds(loop) \union {e.id}
<1>1. CASE ~Busy(loop)
  <2>1. l.hand = <<e>> /\ l.sub.queue = <<>>
    BY <1>1, OfferToWaiting
  <2>2. DOMAIN l.hand = {1} /\ l.hand[1] = e /\ DOMAIN l.sub.queue = {}
    BY <2>1
  <2> QED
    BY <2>2 DEF IdsDistinct, HeldIds
<1>2. CASE Busy(loop)
  <2>1. /\ l.hand = loop.hand /\ loop.sub.queue \in Seq(Event) /\ DOMAIN loop.hand = {1}
        /\ \/ l.sub.queue = Append(loop.sub.queue, e)
           \/ /\ loop.sub.queue # <<>>
              /\ l.sub.queue = Append(Tail(loop.sub.queue), e)
        /\ IsLoop(l, Event)
    <3>1. loop.sub.queue \in Seq(Event) /\ DOMAIN loop.hand = {1}
      BY <1>2, LoopFields
    <3>2. IsLoop(l, Event) /\ l.hand = loop.hand /\ Queued(loop, l, e, limit)
      BY <1>2, OfferToBusy
    <3> QED
      BY <3>1, <3>2 DEF Queued
  <2>2. l.sub.queue \in Seq(Event)
    BY <2>1, LoopFields
  <2>3. DOMAIN l.sub.queue \subseteq Nat /\ DOMAIN loop.sub.queue \subseteq Nat
    BY <2>1, <2>2
  <2>4. CASE l.sub.queue = Append(loop.sub.queue, e)
    <3> DEFINE shift == 0
               last == Len(loop.sub.queue) + 1
    <3>1. Follows(l, loop, e, shift, last)
      BY <2>1, <2>3, <2>4, AppendIndices DEF Follows
    <3>2. shift \in Nat
      OBVIOUS
    <3> HIDE DEF shift, last
    <3> QED
      BY <1>2, <2>1, <3>1, <3>2, QueueDistinct
  <2>5. CASE loop.sub.queue # <<>> /\ l.sub.queue = Append(Tail(loop.sub.queue), e)
    <3> DEFINE shift == 1
               last == Len(loop.sub.queue)
    <3>1. Follows(l, loop, e, shift, last)
      BY <2>1, <2>3, <2>5, ShiftIndices DEF Follows
    <3>2. shift \in Nat
      OBVIOUS
    <3> HIDE DEF shift, last
    <3> QED
      BY <1>2, <2>1, <3>1, <3>2, QueueDistinct
  <2> QED
    BY <2>1, <2>4, <2>5
<1> QED
  BY <1>1, <1>2

\* A loop drops events only when more came than the queue and its hand hold.
DropsExcused(loop, limit) == loop.sub.dropped = 0 \/ Load(loop) > limit + 1

LEMMA OfferExcused ==
  ASSUME NEW Event, NEW loop, IsLoop(loop, Event), InStep(loop), Subscribed(loop),
         NEW e \in Event, NEW limit \in Nat \ {0}, Len(loop.sub.queue) <= limit,
         DropsExcused(loop, limit), NEW l, l = Offer(loop, e, limit)
  PROVE  DropsExcused(l, limit)
<1>1. Load(loop) \in Nat /\ loop.sub.dropped \in Nat
  BY LoopFields
<1>2. CASE ~Busy(loop)
  <2>1. l.sub.dropped = loop.sub.dropped /\ Load(l) = Load(loop) + 1
    BY <1>2, OfferToWaiting
  <2> QED
    BY <1>1, <2>1 DEF DropsExcused
<1>3. CASE Busy(loop)
  <2>1. /\ Load(l) = Load(loop) + 1
        /\ l.sub.dropped = loop.sub.dropped \/ Len(loop.sub.queue) = limit
    <3>1. Load(l) = Load(loop) + 1 /\ Queued(loop, l, e, limit)
      BY <1>3, OfferToBusy
    <3> QED
      BY <3>1 DEF Queued
  <2>2. ASSUME Len(loop.sub.queue) = limit
        PROVE  Load(loop) >= limit + 1
    <3> DEFINE d == loop.sub.dropped
    <3>1. Load(loop) = 1 + limit + d
      BY <1>3, <2>2, LoopFields DEF Load
    <3> HIDE DEF d
    <3>2. d \in Nat
      BY <1>1 DEF d
    <3> QED
      BY <3>1, <3>2
  <2> QED
    BY <1>1, <2>1, <2>2 DEF DropsExcused
<1> QED
  BY <1>2, <1>3

\* The same of the events of one synchronous stretch, and of their number.
Fresh(events, loop) ==
  /\ \A k \in DOMAIN events : events[k].id \notin HeldIds(loop)
  /\ \A j, k \in DOMAIN events : j # k => events[j].id # events[k].id

LEMMA OfferAllFacts ==
  ASSUME NEW Event, NEW loop, IsLoop(loop, Event), InStep(loop),
         NEW events \in Seq(Event), NEW limit \in Nat \ {0}, Len(loop.sub.queue) <= limit,
         IdsDistinct(loop), Fresh(events, loop),
         NEW l, l = OfferAll(loop, events, limit)
  PROVE  /\ IsLoop(l, Event) /\ InStep(l) /\ Len(l.sub.queue) <= limit
         /\ Subscribed(l) <=> Subscribed(loop)
         /\ ~Subscribed(loop) => l = loop
         /\ IdsDistinct(l)
         /\ HeldIds(l) \subseteq HeldIds(loop) \union {events[k].id : k \in DOMAIN events}
         /\ Subscribed(loop) => Load(l) = Load(loop) + Len(events)
         /\ DropsExcused(loop, limit) => DropsExcused(l, limit)
<1> DEFINE after[k \in 0..Len(events)] ==
             IF k = 0 THEN loop ELSE Offer(after[k - 1], events[k], limit)
           Good(n) ==
             /\ IsLoop(after[n], Event) /\ InStep(after[n]) /\ Len(after[n].sub.queue) <= limit
             /\ Subscribed(after[n]) <=> Subscribed(loop)
             /\ ~Subscribed(loop) => after[n] = loop
             /\ IdsDistinct(after[n])
             /\ HeldIds(after[n]) \subseteq HeldIds(loop) \union {events[k].id : k \in 1..n}
             /\ Subscribed(loop) => Load(after[n]) = Load(loop) + n
             /\ DropsExcused(loop, limit) => DropsExcused(after[n], limit)
           S == {n \in Nat : n <= Len(events) => Good(n)}
<1> USE DEF Fresh
<1>1. after = [k \in 0..Len(events) |->
                 IF k = 0 THEN loop ELSE Offer(after[k - 1], events[k], limit)]
  BY SMTT(30)
<1>2. l = after[Len(events)]
  BY DEF OfferAll
<1> HIDE DEF after
<1>3. Len(events) \in Nat /\ DOMAIN events = 1..Len(events)
  OBVIOUS
<1>4. 0 \in S
  <2>1. after[0] = loop
    BY <1>1, <1>3
  <2>2. Load(loop) = Load(loop) + 0
    BY LoopFields
  <2> QED
    BY <2>1, <2>2
<1>5. ASSUME NEW n \in Nat, n \in S
      PROVE  n + 1 \in S
  <2> SUFFICES ASSUME n + 1 <= Len(events)
               PROVE  Good(n + 1)
    OBVIOUS
  <2>1. /\ n <= Len(events) /\ n + 1 \in DOMAIN events /\ n + 1 \in 0..Len(events)
        /\ n + 1 # 0 /\ (n + 1) - 1 = n
    BY <1>3
  <2>2. Good(n)
    BY <1>5, <2>1
  <2> DEFINE e == events[n + 1]
  <2>3. after[n + 1] = Offer(after[n], e, limit) /\ e \in Event
    BY <1>1, <2>1
  <2>4. CASE ~Subscribed(loop)
    <3>1. after[n + 1] = loop
      BY <2>2, <2>3, <2>4 DEF Offer
    <3> QED
      BY <2>4, <3>1
  <2>5. CASE Subscribed(loop)
    <3>1. \A k \in 1..n : k \in DOMAIN events /\ k # n + 1
      BY <1>3, <2>1
    <3>2. e.id \notin HeldIds(after[n])
      BY <2>1, <2>2, <3>1
    <3> HIDE DEF e
    <3>3. /\ IdsDistinct(after[n + 1])
          /\ HeldIds(after[n + 1]) \subseteq HeldIds(after[n]) \union {e.id}
      BY <2>2, <2>3, <2>5, <3>2, OfferDistinct
    <3>4. HeldIds(after[n + 1]) \subseteq HeldIds(loop) \union {events[k].id : k \in 1..(n + 1)}
      <4>1. e.id \in {events[k].id : k \in 1..(n + 1)}
        BY DEF e
      <4>2. {events[k].id : k \in 1..n} \subseteq {events[k].id : k \in 1..(n + 1)}
        OBVIOUS
      <4> QED
        BY <2>2, <3>3, <4>1, <4>2
    <3>5. /\ IsLoop(after[n + 1], Event) /\ InStep(after[n + 1])
          /\ Len(after[n + 1].sub.queue) <= limit /\ Subscribed(after[n + 1])
          /\ Load(after[n + 1]) = Load(after[n]) + 1
      <4>1. CASE Busy(after[n])
        BY <2>2, <2>3, <2>5, <4>1, OfferToBusy
      <4>2. CASE ~Busy(after[n])
        <5>1. Len(<<>>) <= limit
          OBVIOUS
        <5> QED
          BY <2>2, <2>3, <2>5, <4>2, <5>1, OfferToWaiting
      <4> QED
        BY <4>1, <4>2
    <3>6. Load(after[n + 1]) = Load(loop) + (n + 1)
      <4>1. Load(loop) \in Nat /\ Load(after[n]) = Load(loop) + n
        BY <2>2, <2>5, LoopFields
      <4> QED
        BY <3>5, <4>1
    <3>7. DropsExcused(loop, limit) => DropsExcused(after[n + 1], limit)
      BY <2>2, <2>3, <2>5, OfferExcused
    <3> QED
      BY <2>5, <3>3, <3>4, <3>5, <3>6, <3>7
  <2> QED
    BY <2>4, <2>5
<1>6. Good(Len(events))
  <2> HIDE DEF Good
  <2>1. Nat \subseteq S
    <3> HIDE DEF S
    <3> QED
      BY <1>4, <1>5, NatInduct
  <2> QED
    BY <1>3, <2>1
<1> QED
  BY <1>2, <1>3, <1>6

\* The event in hand is the only one with its id: when it is handled, the id is
\* gone from the loop.
LEMMA AskAgainDistinct ==
  ASSUME NEW Event, NEW loop, IsLoop(loop, Event), InOrder(loop), Busy(loop),
         IdsDistinct(loop), NEW l, l = AskAgain(loop)
  PROVE  /\ IdsDistinct(l)
         /\ loop.hand[1].id \in HeldIds(loop)
         /\ HeldIds(l) \subseteq HeldIds(loop) \ {loop.hand[1].id}
<1>1. loop.hand[1].id \in HeldIds(loop)
  <2>1. DOMAIN loop.hand = {1}
    BY LoopFields
  <2> QED
    BY <2>1 DEF HeldIds
<1>2. \/ /\ loop.sub.queue # <<>>
         /\ l.hand = <<Head(loop.sub.queue)>>
         /\ l.sub.queue = Tail(loop.sub.queue)
      \/ loop.sub.queue = <<>> /\ l.hand = <<>> /\ l.sub.queue = <<>>
  <2>1. Advanced(loop, l)
    BY AskAgainMoves
  <2> QED
    BY <2>1 DEF Advanced
<1>3. CASE loop.sub.queue = <<>> /\ l.hand = <<>> /\ l.sub.queue = <<>>
  <2>1. DOMAIN l.hand = {} /\ DOMAIN l.sub.queue = {}
    BY <1>3
  <2> QED
    BY <1>1, <2>1 DEF IdsDistinct, HeldIds
<1>4. CASE /\ loop.sub.queue # <<>>
           /\ l.hand = <<Head(loop.sub.queue)>>
           /\ l.sub.queue = Tail(loop.sub.queue)
  <2> DEFINE q == loop.sub.queue
             t == Tail(q)
  <2>1. q \in Seq(Event) /\ q # <<>>
    BY <1>4, LoopFields
  <2>2. Busy(l) /\ DOMAIN l.hand = {1} /\ l.hand[1] = Head(q)
    BY <1>4 DEF Busy
  <2>3. \A j, k \in DOMAIN q : j # k => q[j].id # q[k].id
    BY DEF IdsDistinct
  <2>4. \A k \in DOMAIN q : q[k].id # loop.hand[1].id /\ q[k].id \in HeldIds(loop)
    BY DEF IdsDistinct, HeldIds
  <2> HIDE DEF q
  <2>5. /\ \A k \in DOMAIN t : k + 1 \in DOMAIN q /\ t[k] = q[k + 1] /\ k \in Nat /\ k + 1 # 1
        /\ Head(q) = q[1] /\ 1 \in DOMAIN q
    BY <2>1
  <2>6. l.sub.queue = t
    BY <1>4 DEF q
  <2> HIDE DEF t
  <2>7. \A k \in DOMAIN t : t[k].id # q[1].id
    BY <2>3, <2>5
  <2>8. ASSUME NEW j \in DOMAIN t, NEW k \in DOMAIN t, j # k
        PROVE  t[j].id # t[k].id
    <3>1. j + 1 # k + 1
      BY <2>5, <2>8
    <3> QED
      BY <2>3, <2>5, <3>1
  <2>9. IdsDistinct(l)
    BY <2>2, <2>5, <2>6, <2>7, <2>8 DEF IdsDistinct
  <2>10. HeldIds(l) \subseteq HeldIds(loop) \ {loop.hand[1].id}
    <3>1. HeldIds(l) = {q[1].id} \union {t[k].id : k \in DOMAIN t}
      BY <2>2, <2>5, <2>6 DEF HeldIds
    <3> QED
      BY <2>4, <2>5, <3>1
  <2> QED
    BY <1>1, <2>9, <2>10
<1> QED
  BY <1>2, <1>3, <1>4

----------------------------------------------------------------------------
\* The events of one stretch are emitted in the order of ranks.

\* How many members of a finite set have a smaller rank tells its members apart
\* and takes every value below the size of the set.
Distinguishes(rank, S) ==
  rank \in [S -> Nat] /\ \A x, y \in S : x # y => rank[x] # rank[y]
Smaller(rank, S) == [x \in S |-> {y \in S : rank[y] < rank[x]}]

LEMMA RanksCount ==
  ASSUME NEW S, IsFiniteSet(S), NEW rank, Distinguishes(rank, S),
         NEW below, below = Smaller(rank, S)
  PROVE  /\ Cardinality(S) \in Nat
         /\ \A k \in 1..Cardinality(S) : \E x \in S : Cardinality(below[x]) = k - 1
         /\ \A x \in S : Cardinality(below[x]) + 1 \in 1..Cardinality(S)
         /\ \A x, y \in S : x # y => Cardinality(below[x]) # Cardinality(below[y])
<1> DEFINE n == Cardinality(S)
<1> USE DEF Distinguishes, Smaller
<1>1. n \in Nat
  BY FS_CardinalityType
<1>2. ASSUME NEW x \in S
      PROVE  IsFiniteSet(below[x]) /\ Cardinality(below[x]) \in Nat
             /\ Cardinality(below[x]) + 1 <= n
  <2>1. below[x] \in SUBSET S /\ x \notin below[x]
    OBVIOUS
  <2> DEFINE b == below[x]
  <2> HIDE DEF b, n
  <2>2. IsFiniteSet(b) /\ Cardinality(b) <= n
    BY <2>1, FS_Subset DEF b, n
  <2>3. Cardinality(b) \in Nat
    BY <2>2, FS_CardinalityType
  <2>4. Cardinality(b) # n
    BY <2>1, FS_Subset DEF b, n
  <2> QED
    BY <1>1, <2>2, <2>3, <2>4 DEF b
<1>3. ASSUME NEW x \in S, NEW y \in S, rank[x] < rank[y]
      PROVE  Cardinality(below[x]) < Cardinality(below[y])
  <2> DEFINE b == below[x]
             c == below[y]
  <2>1. b \in SUBSET c /\ x \in c /\ x \notin b
    BY <1>3
  <2>2. /\ IsFiniteSet(b) /\ Cardinality(b) \in Nat
        /\ IsFiniteSet(c) /\ Cardinality(c) \in Nat
    BY <1>2
  <2> HIDE DEF b, c
  <2>3. Cardinality(b) <= Cardinality(c) /\ Cardinality(b) # Cardinality(c)
    BY <2>1, <2>2, FS_Subset
  <2> QED
    BY <2>2, <2>3 DEF b, c
<1> DEFINE count == [x \in S |-> Cardinality(below[x])]
           f == [x \in S |-> count[x] + 1]
<1>4. \A x \in S : count[x] = Cardinality(below[x])
  OBVIOUS
<1> HIDE DEF count
<1>5. \A x \in S : count[x] \in Nat /\ count[x] + 1 \in 1..n
  <2> SUFFICES ASSUME NEW x \in S
               PROVE  count[x] \in Nat /\ count[x] + 1 \in 1..n
    OBVIOUS
  <2>1. count[x] \in Nat /\ count[x] + 1 <= n
    BY <1>2, <1>4
  <2> HIDE DEF n
  <2> QED
    BY <1>1, <2>1
<1>6. \A x, y \in S : x # y => count[x] # count[y]
  <2> SUFFICES ASSUME NEW x \in S, NEW y \in S, x # y
               PROVE  count[x] # count[y]
    OBVIOUS
  <2>1. rank[x] \in Nat /\ rank[y] \in Nat /\ rank[x] # rank[y]
    OBVIOUS
  <2>2. rank[x] < rank[y] \/ rank[y] < rank[x]
    BY <2>1
  <2>3. count[x] < count[y] \/ count[y] < count[x]
    BY <1>3, <1>4, <2>2
  <2> QED
    BY <1>5, <2>3
<1>7. f \in Injection(S, 1..n)
  <2> HIDE DEF n
  <2>1. \A x \in S : f[x] \in 1..n
    BY <1>5
  <2>2. \A x, y \in S : x # y => f[x] # f[y]
    BY <1>5, <1>6
  <2> QED
    BY <2>1, <2>2 DEF Injection, IsInjective
<1>8. IsFiniteSet(1..n) /\ Cardinality(1..n) = n
  <2> HIDE DEF n
  <2> QED
    BY <1>1, FS_Interval
<1>9. f \in Surjection(S, 1..n)
  <2> HIDE DEF f
  <2> QED
    BY <1>7, <1>8, FS_Injection
<1>10. ASSUME NEW k \in 1..n
      PROVE  \E x \in S : count[x] = k - 1
  <2>1. PICK x \in S : f[x] = k
    BY <1>9 DEF Surjection
  <2>2. count[x] \in Nat /\ count[x] + 1 = k
    BY <1>5, <2>1
  <2> QED
    BY <2>2
<1> HIDE DEF n, f
<1>11. ASSUME NEW k \in 1..n
       PROVE  \E x \in S : Cardinality(below[x]) = k - 1
  <2>1. PICK x \in S : count[x] = k - 1
    BY <1>10
  <2> QED
    BY <1>4, <2>1
<1>12. ASSUME NEW x \in S
       PROVE  Cardinality(below[x]) + 1 \in 1..n
  <2>1. Cardinality(below[x]) = count[x]
    BY <1>4
  <2> QED
    BY <1>5, <2>1
<1>13. ASSUME NEW x \in S, NEW y \in S, x # y
       PROVE  Cardinality(below[x]) # Cardinality(below[y])
  <2>1. Cardinality(below[x]) = count[x] /\ Cardinality(below[y]) = count[y]
    BY <1>4
  <2> QED
    BY <1>6, <1>13, <2>1
<1> QED
  BY <1>1, <1>11, <1>12, <1>13 DEF n

\* So every member is picked by its number, and no two numbers pick the same.
Ranked(rank, S, k) == CHOOSE x \in S : Cardinality(Smaller(rank, S)[x]) = k - 1

LEMMA RankedOnce ==
  ASSUME NEW S, IsFiniteSet(S), NEW rank, Distinguishes(rank, S),
         NEW n, n = Cardinality(S)
  PROVE  /\ n \in Nat
         /\ \A k \in 1..n : Ranked(rank, S, k) \in S
         /\ \A j, k \in 1..n : j # k => Ranked(rank, S, j) # Ranked(rank, S, k)
         /\ \A x \in S : \E k \in 1..n : Ranked(rank, S, k) = x
<1> DEFINE below == Smaller(rank, S)
           Pick(k) == Ranked(rank, S, k)
<1>1. /\ n \in Nat
      /\ \A k \in 1..n : \E x \in S : Cardinality(below[x]) = k - 1
      /\ \A x \in S : Cardinality(below[x]) + 1 \in 1..n
      /\ \A x, y \in S : x # y => Cardinality(below[x]) # Cardinality(below[y])
  BY RanksCount
<1>2. \A x \in S : Cardinality(below[x]) \in Nat
  <2> SUFFICES ASSUME NEW x \in S
               PROVE  Cardinality(below[x]) \in Nat
    OBVIOUS
  <2>1. below[x] \in SUBSET S
    BY DEF Smaller
  <2> HIDE DEF below
  <2> QED
    BY <2>1, FS_Subset, FS_CardinalityType
<1> HIDE DEF below
<1>3. ASSUME NEW k \in 1..n
      PROVE  Pick(k) \in S /\ Cardinality(below[Pick(k)]) = k - 1
  <2>1. \E x \in S : Cardinality(below[x]) = k - 1
    BY <1>1
  <2> QED
    BY <2>1 DEF Ranked, below
<1>4. ASSUME NEW j \in 1..n, NEW k \in 1..n, j # k
      PROVE  Pick(j) # Pick(k)
  <2> HIDE DEF Pick
  <2>1. j - 1 # k - 1
    BY <1>1, <1>4
  <2> QED
    BY <1>3, <2>1
<1>5. ASSUME NEW x \in S
      PROVE  \E k \in 1..n : Pick(k) = x
  <2> DEFINE c == Cardinality(below[x])
  <2>1. c + 1 \in 1..n /\ c \in Nat
    BY <1>1, <1>2
  <2> HIDE DEF c, Pick
  <2>2. (c + 1) - 1 = c
    BY <2>1
  <2>3. Pick(c + 1) \in S /\ Cardinality(below[Pick(c + 1)]) = c
    BY <1>3, <2>1, <2>2
  <2>4. Pick(c + 1) = x
    BY <1>1, <2>3 DEF c
  <2> QED
    BY <2>1, <2>4
<1> QED
  BY <1>1, <1>3, <1>4, <1>5

============================================================================
