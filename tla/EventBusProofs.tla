--------------------------- MODULE EventBusProofs --------------------------
(***************************************************************************)
(* Theorems about the event bus, for any number of subscribers, any queue  *)
(* limit and any number of events and calls: what is queued, who waits,    *)
(* and what each call is answered.                                         *)
(***************************************************************************)
EXTENDS EventBus, SubscriberProofs

----------------------------------------------------------------------------
\* A run of consecutive numbers that ends at l: what is left without the first
\* is one, and so is what the next number is appended to.
Consecutive(q, l) == \A k \in 1..Len(q) : q[k] = l - Len(q) + k

LEMMA TailConsecutive ==
  ASSUME NEW l \in Nat, NEW q \in Seq(Nat), q # <<>>, Consecutive(q, l)
  PROVE  Consecutive(Tail(q), l)
<1>1. Len(Tail(q)) = Len(q) - 1 /\ Len(q) \in Nat
  OBVIOUS
<1>2. ASSUME NEW k \in 1..Len(Tail(q))
      PROVE  Tail(q)[k] = l - Len(Tail(q)) + k
  <2>1. Tail(q)[k] = q[k + 1] /\ k + 1 \in 1..Len(q)
    BY <1>1
  <2>2. q[k + 1] = l - Len(q) + (k + 1)
    BY <2>1 DEF Consecutive
  <2>. QED BY <1>1, <2>1, <2>2
<1>. QED BY <1>2 DEF Consecutive

LEMMA AppendConsecutive ==
  ASSUME NEW l \in Nat, NEW q \in Seq(Nat), Consecutive(q, l)
  PROVE  Consecutive(Append(q, l + 1), l + 1)
<1>. DEFINE p == Append(q, l + 1)
<1>1. Len(p) = Len(q) + 1 /\ Len(q) \in Nat
  OBVIOUS
<1>2. ASSUME NEW k \in 1..Len(p)
      PROVE  p[k] = (l + 1) - Len(p) + k
  <2>1. CASE k = Len(p)
    <3>1. p[k] = l + 1
      BY <1>1, <2>1
    <3>. QED BY <1>1, <2>1, <3>1
  <2>2. CASE k # Len(p)
    <3>1. p[k] = q[k] /\ k \in 1..Len(q)
      BY <1>1, <2>2
    <3>2. q[k] = l - Len(q) + k
      BY <3>1 DEF Consecutive
    <3>. QED BY <1>1, <3>1, <3>2
  <2>. QED BY <2>1, <2>2
<1>. QED BY <1>2 DEF Consecutive

\* What holds of one subscriber's record r that has made n calls of next() and
\* was offered the events up to l: the heart of the inductive invariant.
Fits(r, n, l) ==
  /\ r \in Subscriber(1..MaxEvents, 1..n)
  /\ Len(r.queue) <= MaxQueue
  /\ Awaited(r) => r.queue = <<>> /\ r.done = FALSE
  /\ Consecutive(r.queue, l)

LEMMA FitsQueue ==
  ASSUME NEW n, NEW l, NEW r, Fits(r, n, l)
  PROVE  /\ r.queue \in Seq(1..MaxEvents)
         /\ r.queue \in Seq(Nat)
         /\ Len(r.queue) \in Nat
         /\ Len(r.queue) <= MaxQueue
         /\ Consecutive(r.queue, l)
<1>1. r.queue \in Seq(1..MaxEvents)
  BY DEF Fits, Subscriber
<1>2. ASSUME NEW q \in Seq(1..MaxEvents)
      PROVE  q \in Seq(Nat)
  BY BusAssumption
<1>3. r.queue \in Seq(Nat) /\ Len(r.queue) \in Nat
  BY <1>1, <1>2
<1>4. Len(r.queue) <= MaxQueue /\ Consecutive(r.queue, l)
  BY Zenon DEF Fits
<1>. QED BY <1>1, <1>3, <1>4

LEMMA EmptyConsecutive ==
  ASSUME NEW l, NEW q, q = <<>>
  PROVE  Consecutive(q, l) /\ Len(q) = 0
BY DEF Consecutive

\* An event offered to a live subscriber is the next one in its queue, or is
\* answered to the oldest of its waiting calls.
LEMMA FitsEmitted ==
  ASSUME NEW n \in Nat, NEW l \in Nat, l + 1 \in 1..MaxEvents, NEW r, Fits(r, n, l)
  PROVE  /\ Fits(Emitted(r, l + 1, MaxQueue), n, l + 1)
         /\ Emitted(r, l + 1, MaxQueue).done = r.done
<1>. DEFINE e == Emitted(r, l + 1, MaxQueue)
<1>1. /\ r \in Subscriber(1..MaxEvents, 1..n)
      /\ MaxQueue \in Nat \ {0} /\ MaxEvents \in Nat
  BY BusAssumption DEF Fits
<1>2. CASE Awaited(r)
  <2>1. /\ e \in Subscriber(1..MaxEvents, 1..n)
        /\ e.queue = r.queue
        /\ e.done = r.done
    <3>. DEFINE Event == 1..MaxEvents
                Call == 1..n
                i == l + 1
    <3>1. r \in Subscriber(Event, Call) /\ i \in Event
      BY <1>1
    <3>. HIDE DEF Event, Call, i
    <3>2. /\ Emitted(r, i, MaxQueue) \in Subscriber(Event, Call)
          /\ Emitted(r, i, MaxQueue).queue = r.queue
          /\ Emitted(r, i, MaxQueue).done = r.done
      BY <1>1, <1>2, <3>1, EmittedToCall
    <3>. QED BY <3>2 DEF Event, Call, i
  <2>2. r.queue = <<>> /\ r.done = FALSE
    BY <1>2 DEF Fits
  <2>. HIDE DEF e
  <2>3. Consecutive(e.queue, l + 1) /\ Len(e.queue) = 0
    BY <2>1, <2>2, EmptyConsecutive
  <2>4. Fits(e, n, l + 1)
    BY <2>1, <2>2, <2>3, <1>1 DEF Fits
  <2>. QED BY <2>1, <2>4 DEF e
<1>3. CASE ~Awaited(r)
  <2>1. /\ e \in Subscriber(1..MaxEvents, 1..n)
        /\ e.queue = IF Len(r.queue) >= MaxQueue THEN Append(Tail(r.queue), l + 1)
                                                 ELSE Append(r.queue, l + 1)
        /\ e.done = r.done
        /\ e.resolvers = r.resolvers
    <3>. DEFINE Event == 1..MaxEvents
                Call == 1..n
                i == l + 1
    <3>1. r \in Subscriber(Event, Call) /\ i \in Event
      BY <1>1
    <3>. HIDE DEF Event, Call, i
    <3>2. /\ Emitted(r, i, MaxQueue) \in Subscriber(Event, Call)
          /\ Emitted(r, i, MaxQueue).queue =
               IF Len(r.queue) >= MaxQueue THEN Append(Tail(r.queue), i)
                                           ELSE Append(r.queue, i)
          /\ Emitted(r, i, MaxQueue).done = r.done
          /\ Emitted(r, i, MaxQueue).resolvers = r.resolvers
      BY <1>1, <1>3, <3>1, EmittedToQueue
    <3>. QED BY <3>2 DEF Event, Call, i
  <2>2. /\ r.queue \in Seq(1..MaxEvents)
        /\ Len(r.queue) <= MaxQueue
        /\ r.queue \in Seq(Nat) /\ Consecutive(r.queue, l)
    BY FitsQueue
  <2>. HIDE DEF e
  <2>3. ~Awaited(e)
    BY <1>3, <2>1 DEF Awaited
  <2>4. Len(e.queue) <= MaxQueue /\ Consecutive(e.queue, l + 1)
    <3>1. CASE Len(r.queue) >= MaxQueue
      <4>1. /\ Tail(r.queue) \in Seq(Nat)
            /\ Len(Append(Tail(r.queue), l + 1)) = Len(r.queue)
            /\ r.queue # <<>>
        BY <1>1, <2>2, <3>1
      <4>2. Consecutive(Append(Tail(r.queue), l + 1), l + 1)
        BY <2>2, <4>1, TailConsecutive, AppendConsecutive
      <4>3. e.queue = Append(Tail(r.queue), l + 1)
        BY <2>1, <3>1
      <4>. QED BY <2>2, <4>1, <4>2, <4>3
    <3>2. CASE ~(Len(r.queue) >= MaxQueue)
      <4>1. Len(Append(r.queue, l + 1)) <= MaxQueue
        BY <1>1, <2>2, <3>2
      <4>2. Consecutive(Append(r.queue, l + 1), l + 1)
        BY <2>2, AppendConsecutive
      <4>3. e.queue = Append(r.queue, l + 1)
        BY <2>1, <3>2
      <4>. QED BY <4>1, <4>2, <4>3
    <3>. QED BY <3>1, <3>2
  <2>5. Fits(e, n, l + 1)
    BY <2>1, <2>3, <2>4 DEF Fits
  <2>. QED BY <2>1, <2>5 DEF e
<1>. QED BY <1>2, <1>3

\* A call more leaves a record that fits fitting.
LEMMA FitsMoreCalls ==
  ASSUME NEW n \in Nat, NEW l \in Nat, NEW r, Fits(r, n, l)
  PROVE  Fits(r, n + 1, l)
<1>1. r \in Subscriber(1..MaxEvents, 1..(n + 1))
  <2>1. r \in Subscriber(1..MaxEvents, 1..n)
    BY DEF Fits
  <2>2. Seq(1..n) \subseteq Seq(1..(n + 1))
    OBVIOUS
  <2>. QED BY <2>1, <2>2 DEF Subscriber
<1>. QED BY <1>1 DEF Fits

\* next() with something queued takes the oldest event.
LEMMA FitsTaken ==
  ASSUME NEW n \in Nat, NEW l \in Nat, NEW r, Fits(r, n, l), r.queue # <<>>
  PROVE  /\ Fits(Taken(r), n, l)
         /\ Taken(r).done = r.done
         /\ Head(r.queue) \in 1..MaxEvents
<1>. DEFINE t == Taken(r)
<1>1. r \in Subscriber(1..MaxEvents, 1..n)
  BY DEF Fits
<1>2. /\ t \in Subscriber(1..MaxEvents, 1..n)
      /\ t.queue = Tail(r.queue)
      /\ t.done = r.done
      /\ t.resolvers = r.resolvers
  BY <1>1, TakenSubscriber
<1>3. /\ r.queue \in Seq(1..MaxEvents)
      /\ Len(r.queue) <= MaxQueue
      /\ r.queue \in Seq(Nat) /\ Consecutive(r.queue, l)
  BY FitsQueue
<1>4. ~Awaited(r)
  BY DEF Fits
<1>. HIDE DEF t
<1>5. ~Awaited(t)
  BY <1>2, <1>4 DEF Awaited
<1>6. /\ Len(Tail(r.queue)) = Len(r.queue) - 1
      /\ Head(r.queue) \in 1..MaxEvents
      /\ Len(r.queue) \in Nat
  <2>. DEFINE q == r.queue
              Event == 1..MaxEvents
  <2>1. q \in Seq(Event) /\ q # <<>>
    BY <1>3, Zenon
  <2>. HIDE DEF q, Event
  <2>2. Len(Tail(q)) = Len(q) - 1 /\ Head(q) \in Event /\ Len(q) \in Nat
    BY <2>1
  <2>. QED BY <2>2 DEF q, Event
<1>7. Consecutive(t.queue, l)
  BY <1>2, <1>3, TailConsecutive
<1>8. Len(t.queue) <= MaxQueue
  BY <1>2, <1>3, <1>6, BusAssumption
<1>9. Fits(t, n, l)
  BY <1>2, <1>5, <1>7, <1>8 DEF Fits
<1>. QED BY <1>2, <1>6, <1>9 DEF t

\* next() on an empty live queue waits.
LEMMA FitsWaiting ==
  ASSUME NEW n \in Nat, NEW l \in Nat, NEW c \in 1..n, NEW r, Fits(r, n, l),
         r.queue = <<>>, r.done = FALSE
  PROVE  /\ Fits(Waiting(r, c), n, l)
         /\ Waiting(r, c).done = FALSE
<1>. DEFINE w == Waiting(r, c)
<1>1. r \in Subscriber(1..MaxEvents, 1..n)
  BY DEF Fits
<1>2. /\ w \in Subscriber(1..MaxEvents, 1..n)
      /\ w.queue = r.queue
      /\ w.done = r.done
  BY <1>1, WaitingSubscriber
<1>3. MaxQueue \in Nat
  BY BusAssumption
<1>. HIDE DEF w
<1>4. Fits(w, n, l)
  BY <1>2, <1>3 DEF Fits, Consecutive
<1>. QED BY <1>2, <1>4 DEF w

\* unsubscribe() and return() leave nobody waiting.
LEMMA FitsStopped ==
  ASSUME NEW n \in Nat, NEW l \in Nat, NEW r, Fits(r, n, l)
  PROVE  /\ Fits(Stopped(r), n, l)
         /\ Stopped(r).done = TRUE
<1>. DEFINE z == Stopped(r)
<1>1. r \in Subscriber(1..MaxEvents, 1..n)
  BY DEF Fits
<1>2. /\ z \in Subscriber(1..MaxEvents, 1..n)
      /\ z.queue = r.queue
      /\ z.done = TRUE
      /\ z.resolvers = <<>>
  BY <1>1, StoppedSubscriber
<1>. HIDE DEF z
<1>3. ~Awaited(z)
  BY <1>2 DEF Awaited
<1>4. Fits(z, n, l)
  BY <1>2, <1>3 DEF Fits
<1>. QED BY <1>2, <1>4 DEF z

----------------------------------------------------------------------------
(***************************************************************************)
(* The inductive invariant.  NoCallLeftWaiting and NewestKept are not      *)
(* inductive alone: that a live subscriber has been offered every event    *)
(* so far, is not done, and that a handle not opened yet has an empty      *)
(* queue is what the steps need.                                           *)
(***************************************************************************)
Typed ==
  /\ subscribers \subseteq Subs
  /\ emitted \in 0..MaxEvents
  /\ first \in [Subs -> 0..MaxEvents]
  /\ last \in [Subs -> 0..MaxEvents]
  /\ calls \in [Subs -> 0..MaxCalls]
  /\ sub = [s \in Subs |-> sub[s]]
  /\ answers = [s \in Subs |-> answers[s]]

Answered(f, n) == DOMAIN f \subseteq 1..n /\ f \in [DOMAIN f -> Answer]

SubscriberOK(s) ==
  /\ Fits(sub[s], calls[s], last[s])
  /\ Answered(answers[s], calls[s])
  /\ s \in subscribers => sub[s].done = FALSE /\ last[s] = emitted
  /\ ~Opened(s) => sub[s].queue = <<>> /\ sub[s].done = FALSE

IInv == Typed /\ \A s \in Subs : SubscriberOK(s)

\* Who waits is a call that was made.
LEMMA CallsOfRecord ==
  ASSUME NEW n \in Nat, NEW l, NEW r, Fits(r, n, l)
  PROVE  r.resolvers \in Seq(1..n)
BY DEF Fits, Subscriber

LEMMA OldestCall ==
  ASSUME NEW n \in Nat, NEW l, NEW r, Fits(r, n, l), Awaited(r)
  PROVE  Head(r.resolvers) \in 1..n
<1>. DEFINE q == r.resolvers
            Call == 1..n
<1>1. q \in Seq(Call) /\ q # <<>>
  BY CallsOfRecord DEF Awaited
<1>. HIDE DEF q, Call
<1>2. Head(q) \in Call
  BY <1>1
<1>. QED BY <1>2 DEF q, Call

\* One more answered call, and the calls that unsubscribe() answers.
LEMMA ResolvedAnswered ==
  ASSUME NEW n \in Nat, NEW s, NEW c \in 1..n, NEW v \in Answer, Answered(answers[s], n)
  PROVE  Answered(Resolved(s, c, v), n)
BY DEF Answered, Resolved

LEMMA MoreAnswered ==
  ASSUME NEW n \in Nat, NEW f, Answered(f, n)
  PROVE  Answered(f, n + 1)
BY DEF Answered

LEMMA InitIInv == Init => IInv
<1>. SUFFICES ASSUME Init PROVE IInv
  OBVIOUS
<1>1. Typed
  BY BusAssumption DEF Init, Typed
<1>2. ASSUME NEW s \in Subs
      PROVE  SubscriberOK(s)
  <2>1. /\ sub[s] = NewSubscriber /\ calls[s] = 0 /\ last[s] = 0
        /\ answers[s] = [c \in {} |-> Over]
        /\ subscribers = {}
    BY DEF Init
  <2>2. /\ NewSubscriber.queue = <<>>
        /\ NewSubscriber.resolvers = <<>>
        /\ NewSubscriber.done = FALSE
    BY DEF NewSubscriber
  <2>3. NewSubscriber \in Subscriber(1..MaxEvents, 1..0)
    <3>1. <<>> \in Seq(1..MaxEvents) /\ <<>> \in Seq(1..0)
      OBVIOUS
    <3>. QED BY <3>1 DEF NewSubscriber, Subscriber
  <2>4. Fits(NewSubscriber, 0, 0)
    <3>1. Consecutive(NewSubscriber.queue, 0) /\ Len(NewSubscriber.queue) = 0
      BY <2>2, EmptyConsecutive
    <3>. QED BY <2>2, <2>3, <3>1, BusAssumption DEF Fits, Awaited
  <2>5. Answered(answers[s], 0)
    BY <2>1 DEF Answered
  <2>. QED BY <2>1, <2>2, <2>4, <2>5 DEF SubscriberOK
<1>. QED BY <1>1, <1>2 DEF IInv

LEMMA SubscribeIInv ==
  ASSUME IInv, NEW t \in Subs, Subscribe(t)
  PROVE  IInv'
<1>1. Typed'
  BY DEF IInv, Typed, Subscribe
<1>2. ASSUME NEW s \in Subs
      PROVE  SubscriberOK(s)'
  <2>1. CASE s # t
    BY <2>1 DEF IInv, Typed, SubscriberOK, Subscribe, Opened
  <2>2. CASE s = t
    <3>1. /\ sub[s].queue = <<>> /\ sub[s].done = FALSE
          /\ Fits(sub[s], calls[s], last[s])
          /\ Answered(answers[s], calls[s])
      BY <2>2 DEF IInv, SubscriberOK, Subscribe
    <3>2. /\ sub'[s] = sub[s] /\ calls'[s] = calls[s] /\ answers'[s] = answers[s]
          /\ last'[s] = emitted /\ emitted' = emitted /\ s \in subscribers'
      BY <2>2 DEF IInv, Typed, Subscribe
    <3>3. Consecutive(sub[s].queue, emitted)
      BY <3>1, EmptyConsecutive
    <3>4. Fits(sub[s], calls[s], emitted)
      BY <3>1, <3>3 DEF Fits
    <3>. QED BY <3>1, <3>2, <3>4 DEF SubscriberOK, Opened
  <2>. QED BY <2>1, <2>2
<1>. QED BY <1>1, <1>2 DEF IInv

LEMMA EmitIInv ==
  ASSUME IInv, Emit
  PROVE  IInv'
<1>1. Typed'
  BY BusAssumption DEF IInv, Typed, Emit
<1>2. ASSUME NEW s \in Subs
      PROVE  SubscriberOK(s)'
  <2>1. /\ SubscriberOK(s)
        /\ calls[s] \in Nat /\ calls'[s] = calls[s]
        /\ subscribers' = subscribers
        /\ emitted \in Nat /\ emitted' = emitted + 1 /\ emitted + 1 \in 1..MaxEvents
    BY BusAssumption DEF IInv, Typed, Emit
  <2>2. CASE s \notin subscribers
    <3>1. sub'[s] = sub[s] /\ last'[s] = last[s] /\ answers'[s] = answers[s]
      BY <2>2 DEF Emit
    <3>. QED BY <2>1, <2>2, <3>1 DEF SubscriberOK, Opened
  <2>3. CASE s \in subscribers
    <3>1. /\ sub'[s] = Emitted(sub[s], emitted + 1, MaxQueue)
          /\ last'[s] = emitted + 1
      BY <2>1, <2>3 DEF Emit
    <3>2. Fits(sub[s], calls[s], emitted) /\ sub[s].done = FALSE
      BY <2>1, <2>3 DEF SubscriberOK
    <3>3. Fits(sub'[s], calls'[s], last'[s]) /\ sub'[s].done = FALSE
      BY <2>1, <3>1, <3>2, FitsEmitted
    <3>4. Answered(answers'[s], calls'[s])
      <4>1. Answered(answers[s], calls[s])
        BY <2>1 DEF SubscriberOK
      <4>2. CASE Awaited(sub[s])
        <5>1. Head(sub[s].resolvers) \in 1..calls[s]
          BY <2>1, <3>2, <4>2, OldestCall
        <5>2. answers'[s] = Resolved(s, Head(sub[s].resolvers), emitted + 1)
          BY <2>1, <2>3, <4>2 DEF Emit
        <5>3. emitted + 1 \in Answer
          BY <2>1 DEF Answer
        <5>. QED BY <2>1, <4>1, <5>1, <5>2, <5>3, ResolvedAnswered
      <4>3. CASE ~Awaited(sub[s])
        BY <2>1, <2>3, <4>1, <4>3 DEF Emit
      <4>. QED BY <4>2, <4>3
    <3>. QED BY <2>1, <2>3, <3>1, <3>3, <3>4 DEF SubscriberOK, Opened
  <2>. QED BY <2>2, <2>3
<1>. QED BY <1>1, <1>2 DEF IInv

\* The other subscribers see nothing of a call to this one.
LEMMA OthersOK ==
  ASSUME IInv, NEW t \in Subs, NextCall(t) \/ Unsubscribe(t), NEW s \in Subs, s # t
  PROVE  SubscriberOK(s)'
<1>1. /\ sub'[s] = sub[s] /\ calls'[s] = calls[s] /\ answers'[s] = answers[s]
      /\ last'[s] = last[s] /\ emitted' = emitted
      /\ s \in subscribers' <=> s \in subscribers
  BY DEF NextCall, Unsubscribe, IInv, Typed
<1>2. SubscriberOK(s)
  BY DEF IInv
<1>. QED BY <1>1, <1>2 DEF SubscriberOK, Opened

LEMMA NextCallIInv ==
  ASSUME IInv, NEW t \in Subs, NextCall(t)
  PROVE  IInv'
<1>. DEFINE n == calls[t] + 1
<1>1. /\ calls[t] \in Nat /\ n \in Nat /\ n \in 1..n /\ calls'[t] = n
      /\ n \in 0..MaxCalls
      /\ last[t] \in Nat /\ last'[t] = last[t]
      /\ subscribers' = subscribers /\ emitted' = emitted
  BY BusAssumption DEF IInv, Typed, NextCall
<1>2. /\ SubscriberOK(t)
      /\ Opened(t)
      /\ Fits(sub[t], n, last[t])
      /\ Answered(answers[t], n)
  BY <1>1, FitsMoreCalls, MoreAnswered DEF IInv, SubscriberOK, NextCall
<1>3. Typed'
  BY <1>1 DEF IInv, Typed, NextCall
<1>4. SubscriberOK(t)'
  <2>1. CASE sub[t].queue # <<>>
    <3>1. /\ sub'[t] = Taken(sub[t])
          /\ answers'[t] = Resolved(t, n, Head(sub[t].queue))
      BY <2>1 DEF NextCall, IInv, Typed
    <3>2. /\ Fits(sub'[t], n, last[t])
          /\ sub'[t].done = sub[t].done
          /\ Head(sub[t].queue) \in 1..MaxEvents
      BY <1>1, <1>2, <2>1, <3>1, FitsTaken
    <3>3. Head(sub[t].queue) \in Answer
      BY <3>2, BusAssumption DEF Answer
    <3>4. Answered(answers'[t], n)
      BY <1>1, <1>2, <3>1, <3>3, ResolvedAnswered
    <3>. QED BY <1>1, <1>2, <3>2, <3>4 DEF SubscriberOK, Opened
  <2>2. CASE sub[t].queue = <<>> /\ sub[t].done
    <3>1. /\ sub'[t] = sub[t]
          /\ answers'[t] = Resolved(t, n, Over)
      BY <2>2 DEF NextCall, IInv, Typed
    <3>2. Over \in Answer
      BY BusAssumption DEF Answer, Over
    <3>3. Answered(answers'[t], n)
      BY <1>1, <1>2, <3>1, <3>2, ResolvedAnswered
    <3>. QED BY <1>1, <1>2, <3>1, <3>3 DEF SubscriberOK, Opened
  <2>3. CASE sub[t].queue = <<>> /\ ~sub[t].done
    <3>1. /\ sub'[t] = Waiting(sub[t], n)
          /\ answers'[t] = answers[t]
      BY <2>3 DEF NextCall, IInv, Typed
    <3>2. t \in subscribers
      BY <1>2, <2>3, Zenon DEF Opened
    <3>3. sub[t].done = FALSE
      BY <1>2, <3>2, Zenon DEF SubscriberOK
    <3>. HIDE DEF n
    <3>4. Fits(sub'[t], n, last[t]) /\ sub'[t].done = FALSE
      <4>1. sub[t].queue = <<>>
        BY <2>3, Zenon
      <4>2. /\ Fits(Waiting(sub[t], n), n, last[t])
            /\ Waiting(sub[t], n).done = FALSE
        <5> DEFINE r == sub[t]
                   l == last[t]
        <5>1. /\ n \in Nat /\ l \in Nat /\ n \in 1..n
              /\ Fits(r, n, l) /\ r.queue = <<>> /\ r.done = FALSE
          BY <1>1, <1>2, <3>3, <4>1
        <5> HIDE DEF r, l
        <5>2. Fits(Waiting(r, n), n, l) /\ Waiting(r, n).done = FALSE
          BY <5>1, FitsWaiting
        <5> QED BY <5>2 DEF r, l
      <4>. QED BY <3>1, <4>2, Zenon
    <3>. QED BY <1>1, <1>2, <3>1, <3>2, <3>4 DEF SubscriberOK, Opened
  <2>. QED BY <2>1, <2>2, <2>3
<1>. QED BY <1>3, <1>4, OthersOK DEF IInv

LEMMA UnsubscribeIInv ==
  ASSUME IInv, NEW t \in Subs, Unsubscribe(t)
  PROVE  IInv'
<1>1. /\ calls[t] \in Nat /\ calls'[t] = calls[t]
      /\ last[t] \in Nat /\ last'[t] = last[t]
      /\ t \notin subscribers'
  BY DEF IInv, Typed, Unsubscribe
<1>2. SubscriberOK(t)
  BY DEF IInv
<1>3. Typed'
  BY DEF IInv, Typed, Unsubscribe
<1>4. SubscriberOK(t)'
  <2>1. sub'[t] = Stopped(sub[t])
    BY DEF IInv, Typed, Unsubscribe
  <2>2. Fits(sub'[t], calls'[t], last'[t]) /\ sub'[t].done = TRUE
    BY <1>1, <1>2, <2>1, FitsStopped DEF SubscriberOK
  <2>3. Answered(answers'[t], calls'[t])
    <3>1. answers'[t] = [c \in DOMAIN answers[t] \union Range(sub[t].resolvers) |->
                           IF c \in DOMAIN answers[t] THEN answers[t][c] ELSE Over]
      BY DEF IInv, Typed, Unsubscribe
    <3>2. Range(sub[t].resolvers) \subseteq 1..calls[t]
      <4>. DEFINE q == sub[t].resolvers
                  Call == 1..calls[t]
      <4>1. q \in Seq(Call)
        BY <1>1, <1>2, CallsOfRecord DEF SubscriberOK
      <4>. HIDE DEF q, Call
      <4>2. ASSUME NEW i \in DOMAIN q
            PROVE  q[i] \in Call
        BY <4>1
      <4>3. Range(q) \subseteq Call
        BY <4>2 DEF Range
      <4>. QED BY <4>3 DEF q, Call
    <3>3. Over \in Answer
      BY BusAssumption DEF Answer, Over
    <3>4. Answered(answers[t], calls[t])
      BY <1>2 DEF SubscriberOK
    <3>. QED BY <1>1, <3>1, <3>2, <3>3, <3>4 DEF Answered
  <2>. QED BY <1>1, <2>2, <2>3 DEF SubscriberOK, Opened
<1>. QED BY <1>3, <1>4, OthersOK DEF IInv

LEMMA StepIInv == IInv /\ [Next]_vars => IInv'
<1>. SUFFICES ASSUME IInv, [Next]_vars
              PROVE  IInv'
  OBVIOUS
<1>1. CASE Emit
  BY <1>1, EmitIInv
<1>2. ASSUME NEW s \in Subs, Subscribe(s) \/ NextCall(s) \/ Unsubscribe(s)
      PROVE  IInv'
  BY <1>2, SubscribeIInv, NextCallIInv, UnsubscribeIInv
<1>3. CASE UNCHANGED vars
  BY <1>3 DEF vars, bus, history, IInv, Typed, SubscriberOK, Opened
<1>. QED BY <1>1, <1>2, <1>3 DEF Next

\* The strengthened invariant holds in every state the bus can reach.
THEOREM Invariance == Spec => []IInv
BY InitIInv, StepIInv, PTL DEF Spec
----------------------------------------------------------------------------
\* The records and the histories keep their types; no queue exceeds its limit.
THEOREM TypeCorrect == Spec => []TypeOK
<1>1. IInv => TypeOK
  <2>. SUFFICES ASSUME IInv PROVE TypeOK
    OBVIOUS
  <2>1. /\ subscribers \subseteq Subs
        /\ emitted \in 0..MaxEvents
        /\ first \in [Subs -> 0..MaxEvents]
        /\ last \in [Subs -> 0..MaxEvents]
        /\ calls \in [Subs -> 0..MaxCalls]
        /\ DOMAIN answers = Subs
    BY DEF IInv, Typed
  <2>2. ASSUME NEW s \in Subs
        PROVE  /\ sub[s] \in Subscriber(1..MaxEvents, 1..MaxCalls)
               /\ Len(sub[s].queue) <= MaxQueue
               /\ DOMAIN answers[s] \subseteq 1..calls[s]
               /\ answers[s] \in [DOMAIN answers[s] -> Answer]
    <3>1. Fits(sub[s], calls[s], last[s]) /\ Answered(answers[s], calls[s])
      BY DEF IInv, SubscriberOK
    <3>2. sub[s] \in Subscriber(1..MaxEvents, 1..calls[s]) /\ Len(sub[s].queue) <= MaxQueue
      BY <3>1 DEF Fits
    <3>3. 1..calls[s] \subseteq 1..MaxCalls
      BY <2>1, BusAssumption
    <3>4. ASSUME NEW Small, NEW Large, Small \subseteq Large, NEW q \in Seq(Small)
          PROVE  q \in Seq(Large)
      BY <3>4
    <3>5. sub[s].resolvers \in Seq(1..MaxCalls)
      <4>1. sub[s].resolvers \in Seq(1..calls[s])
        BY <3>2 DEF Subscriber
      <4>. QED BY <3>3, <3>4, <4>1
    <3>6. sub[s] \in Subscriber(1..MaxEvents, 1..MaxCalls)
      BY <3>2, <3>5 DEF Subscriber
    <3>. QED BY <3>1, <3>2, <3>6 DEF Answered
  <2>3. sub \in [Subs -> Subscriber(1..MaxEvents, 1..MaxCalls)]
    BY <2>2 DEF IInv, Typed
  <2>. QED BY <2>1, <2>2, <2>3 DEF TypeOK
<1>. QED BY <1>1, Invariance, PTL

\* No consumer hangs while there is an event for it or after its stream ended:
\* emit, next and unsubscribe always agree on who waits.
THEOREM NobodyWaitsInVain == Spec => []NoCallLeftWaiting
<1>1. IInv => NoCallLeftWaiting
  <2>. SUFFICES ASSUME IInv, NEW s \in Subs, Awaited(sub[s])
                PROVE  sub[s].queue = <<>> /\ ~sub[s].done
    BY DEF NoCallLeftWaiting
  <2>1. Fits(sub[s], calls[s], last[s])
    BY DEF IInv, SubscriberOK
  <2>2. sub[s].queue = <<>> /\ sub[s].done = FALSE
    BY <2>1 DEF Fits
  <2>. QED BY <2>2
<1>. QED BY <1>1, Invariance, PTL

\* A queue at its limit drops its oldest event and nothing else: what is queued
\* is the gapless run of the newest events offered.
THEOREM NewestEventsKept == Spec => []NewestKept
<1>1. IInv => NewestKept
  <2>. SUFFICES ASSUME IInv, NEW s \in Subs, NEW k \in 1..Unread(s)
                PROVE  sub[s].queue[k] = last[s] - Unread(s) + k
    BY DEF NewestKept
  <2>1. Fits(sub[s], calls[s], last[s])
    BY DEF IInv, SubscriberOK
  <2>2. Consecutive(sub[s].queue, last[s])
    BY <2>1 DEF Fits
  <2>. QED BY <2>2 DEF Consecutive, Unread
<1>. QED BY <1>1, Invariance, PTL
----------------------------------------------------------------------------
\* The answers A to n calls, of which the last w still wait, when q events are
\* queued and the events f+1..l were offered.
Tells(A, n, w, q, done, f, l) ==
  /\ n \in Nat /\ w \in 0..n /\ q \in Nat /\ f \in Nat /\ l \in Nat /\ f + q <= l
  /\ DOMAIN A = 1..(n - w)
  /\ \A c \in DOMAIN A : A[c] # Over => A[c] \in f + 1 .. l - q
  /\ \A c, d \in DOMAIN A : c < d /\ A[c] # Over /\ A[d] # Over => A[c] < A[d]
  /\ \A c \in DOMAIN A : A[c] = Over =>
       done = TRUE /\ q = 0 /\ \A d \in DOMAIN A : d > c => A[d] = Over

With(A, c, v) == [x \in DOMAIN A \union {c} |-> IF x = c THEN v ELSE A[x]]

\* emit: the oldest waiting call gets the event.
LEMMA TellsCall ==
  ASSUME NEW A, NEW n, NEW w, NEW f, NEW l, Tells(A, n, w, 0, FALSE, f, l), w > 0
  PROVE  Tells(With(A, n - w + 1, l + 1), n, w - 1, 0, FALSE, f, l + 1)
<1> DEFINE B == With(A, n - w + 1, l + 1)
<1>1. /\ n \in Nat /\ w \in 1..n /\ f \in Nat /\ l \in Nat /\ f <= l
      /\ DOMAIN A = 1..(n - w)
  BY DEF Tells
<1>2. DOMAIN B = 1..(n - (w - 1))
  BY <1>1 DEF With
<1>3. B[n - w + 1] = l + 1 /\ \A c \in DOMAIN A : B[c] = A[c] /\ c < n - w + 1
  BY <1>1 DEF With
<1>4. \A c \in DOMAIN A : A[c] # Over /\ A[c] \in f + 1 .. l
  BY <1>1 DEF Tells
<1>5. \A c \in DOMAIN B : c = n - w + 1 \/ c \in DOMAIN A
  BY DEF With
<1>6. l + 1 # Over
  BY <1>1 DEF Over
<1> HIDE DEF B
<1>7. \A c \in DOMAIN B : B[c] # Over /\ B[c] \in f + 1 .. l + 1
  BY <1>1, <1>3, <1>4, <1>5, <1>6
<1>8. \A c, d \in DOMAIN B : c < d => B[c] < B[d]
  <2> TAKE c, d \in DOMAIN B
  <2> HAVE c < d
  <2>1. c \in DOMAIN A
    BY <1>1, <1>3, <1>5
  <2>2. CASE d = n - w + 1
    BY <1>1, <1>3, <1>4, <2>1, <2>2
  <2>3. CASE d \in DOMAIN A
    BY <1>1, <1>3, <1>4, <2>1, <2>3 DEF Tells
  <2> QED
    BY <1>5, <2>2, <2>3
<1>9. Tells(B, n, w - 1, 0, FALSE, f, l + 1)
  BY <1>1, <1>2, <1>7, <1>8 DEF Tells
<1> QED
  BY <1>9 DEF B

\* emit: the event is queued, or pushes the oldest one out.
LEMMA TellsQueue ==
  ASSUME NEW A, NEW n, NEW q, NEW p, NEW f, NEW l, Tells(A, n, 0, q, FALSE, f, l),
         p = q \/ p = q + 1, p \in Nat
  PROVE  Tells(A, n, 0, p, FALSE, f, l + 1)
BY DEF Tells

\* next() takes a queued event.
LEMMA TellsTake ==
  ASSUME NEW A, NEW n, NEW q, NEW done, NEW f, NEW l, Tells(A, n, 0, q, done, f, l), q > 0
  PROVE  Tells(With(A, n + 1, l - q + 1), n + 1, 0, q - 1, done, f, l)
<1> DEFINE B == With(A, n + 1, l - q + 1)
<1>1. /\ n \in Nat /\ q \in Nat /\ f \in Nat /\ l \in Nat /\ f + q <= l
      /\ DOMAIN A = 1..n
  BY DEF Tells
<1>2. DOMAIN B = 1..(n + 1)
  BY <1>1 DEF With
<1>3. B[n + 1] = l - q + 1 /\ \A c \in DOMAIN A : B[c] = A[c] /\ c < n + 1
  BY <1>1 DEF With
<1>4. \A c \in DOMAIN A : A[c] # Over /\ A[c] \in f + 1 .. l - q
  BY <1>1 DEF Tells
<1>5. \A c \in DOMAIN B : c = n + 1 \/ c \in DOMAIN A
  BY DEF With
<1>6. l - q + 1 # Over
  BY <1>1 DEF Over
<1> HIDE DEF B
<1>7. \A c \in DOMAIN B : B[c] # Over /\ B[c] \in f + 1 .. l - (q - 1)
  BY <1>1, <1>3, <1>4, <1>5, <1>6
<1>8. \A c, d \in DOMAIN B : c < d => B[c] < B[d]
  <2> TAKE c, d \in DOMAIN B
  <2> HAVE c < d
  <2>1. c \in DOMAIN A
    BY <1>1, <1>2, <1>3, <1>5
  <2>2. CASE d = n + 1
    BY <1>1, <1>3, <1>4, <2>1, <2>2
  <2>3. CASE d \in DOMAIN A
    BY <1>1, <1>3, <1>4, <2>1, <2>3 DEF Tells
  <2> QED
    BY <1>5, <2>2, <2>3
<1>9. Tells(B, n + 1, 0, q - 1, done, f, l)
  BY <1>1, <1>2, <1>7, <1>8 DEF Tells
<1> QED
  BY <1>9 DEF B

\* next() on a stream that is over.
LEMMA TellsOver ==
  ASSUME NEW A, NEW n, NEW f, NEW l, Tells(A, n, 0, 0, TRUE, f, l)
  PROVE  Tells(With(A, n + 1, Over), n + 1, 0, 0, TRUE, f, l)
<1> DEFINE B == With(A, n + 1, Over)
<1>1. n \in Nat /\ f \in Nat /\ l \in Nat /\ f <= l /\ DOMAIN A = 1..n
  BY DEF Tells
<1>2. DOMAIN B = 1..(n + 1)
  BY <1>1 DEF With
<1>3. B[n + 1] = Over /\ \A c \in DOMAIN A : B[c] = A[c] /\ c < n + 1
  BY <1>1 DEF With
<1>4. \A c \in DOMAIN B : c = n + 1 \/ c \in DOMAIN A
  BY DEF With
<1> HIDE DEF B
<1>5. \A c \in DOMAIN B : B[c] # Over => B[c] \in f + 1 .. l
  BY <1>1, <1>3, <1>4 DEF Tells
<1>6. \A c, d \in DOMAIN B : c < d /\ B[c] # Over /\ B[d] # Over => B[c] < B[d]
  BY <1>1, <1>3, <1>4 DEF Tells
<1>7. \A c, d \in DOMAIN B : B[c] = Over /\ d > c => B[d] = Over
  <2> TAKE c, d \in DOMAIN B
  <2> HAVE B[c] = Over /\ d > c
  <2>1. CASE d = n + 1
    BY <1>3, <2>1
  <2>2. CASE d \in DOMAIN A
    <3>1. c \in DOMAIN A
      BY <1>1, <1>2, <2>2
    <3> QED
      BY <1>3, <2>2, <3>1 DEF Tells
  <2> QED
    BY <1>4, <2>1, <2>2
<1>8. Tells(B, n + 1, 0, 0, TRUE, f, l)
  BY <1>1, <1>2, <1>5, <1>6, <1>7 DEF Tells
<1> QED
  BY <1>8 DEF B

\* next() waits.
LEMMA TellsWait ==
  ASSUME NEW A, NEW n, NEW w, NEW f, NEW l, Tells(A, n, w, 0, FALSE, f, l)
  PROVE  Tells(A, n + 1, w + 1, 0, FALSE, f, l)
BY DEF Tells

\* unsubscribe(): every waiting call learns that the stream is over.
LEMMA TellsStop ==
  ASSUME NEW A, NEW n, NEW w, NEW q, NEW done, NEW f, NEW l, Tells(A, n, w, q, done, f, l),
         w > 0 => q = 0, NEW waiting, waiting = (n - w + 1)..n
  PROVE  Tells([c \in DOMAIN A \union waiting |-> IF c \in DOMAIN A THEN A[c] ELSE Over],
               n, 0, q, TRUE, f, l)
<1> DEFINE B == [c \in DOMAIN A \union waiting |-> IF c \in DOMAIN A THEN A[c] ELSE Over]
<1>1. /\ n \in Nat /\ w \in 0..n /\ q \in Nat /\ f \in Nat /\ l \in Nat /\ f + q <= l
      /\ DOMAIN A = 1..(n - w)
  BY DEF Tells
<1>2. DOMAIN B = 1..n
  BY <1>1
<1>3. /\ \A c \in DOMAIN A : B[c] = A[c]
      /\ \A c \in DOMAIN B : c \notin DOMAIN A => B[c] = Over
  OBVIOUS
<1> HIDE DEF B
<1>4. \A c \in DOMAIN B : B[c] # Over => B[c] \in f + 1 .. l - q
  BY <1>1, <1>3 DEF Tells
<1>5. \A c, d \in DOMAIN B : c < d /\ B[c] # Over /\ B[d] # Over => B[c] < B[d]
  BY <1>1, <1>3 DEF Tells
<1>6. \A c \in DOMAIN B : B[c] = Over => q = 0
  BY <1>1, <1>2, <1>3 DEF Tells
<1>7. \A c, d \in DOMAIN B : B[c] = Over /\ d > c => B[d] = Over
  <2> TAKE c, d \in DOMAIN B
  <2> HAVE B[c] = Over /\ d > c
  <2>1. CASE d \in DOMAIN A
    <3>1. c \in DOMAIN A
      BY <1>1, <1>2, <2>1
    <3> QED
      BY <1>3, <2>1, <3>1 DEF Tells
  <2> QED
    BY <1>3, <2>1
<1>8. Tells(B, n, 0, q, TRUE, f, l)
  BY <1>1, <1>2, <1>4, <1>5, <1>6, <1>7 DEF Tells
<1> QED
  BY <1>8 DEF B

----------------------------------------------------------------------------
\* The calls that an event went to, and the count that adds up.
HandedOf(A) == {c \in DOMAIN A : A[c] # Over}
Tallied(A, q, d, f, l) ==
  /\ IsFiniteSet(HandedOf(A)) /\ d \in Nat
  /\ l = f + q + Cardinality(HandedOf(A)) + d

LEMMA OneMoreHanded ==
  ASSUME NEW A, NEW c, c \notin DOMAIN A, NEW v, v # Over, IsFiniteSet(HandedOf(A))
  PROVE  /\ IsFiniteSet(HandedOf(With(A, c, v)))
         /\ Cardinality(HandedOf(With(A, c, v))) = Cardinality(HandedOf(A)) + 1
<1>1. HandedOf(With(A, c, v)) = HandedOf(A) \cup {c} /\ c \notin HandedOf(A)
  BY DEF HandedOf, With
<1> QED
  BY <1>1, FS_AddElement

LEMMA NoneMoreHanded ==
  ASSUME NEW A, NEW c, c \notin DOMAIN A
  PROVE  HandedOf(With(A, c, Over)) = HandedOf(A)
BY DEF HandedOf, With

----------------------------------------------------------------------------
\* One subscriber: its record r, the answers A to its n calls, and the events
\* f+1..l that it was offered.
Told(A, r, n, f, l) ==
  /\ Tells(A, n, Len(r.resolvers), Len(r.queue), r.done, f, l)
  /\ Consecutive(r.resolvers, n)
  /\ Tallied(A, Len(r.queue), r.dropped, f, l)

LEMMA WaitingCalls ==
  ASSUME NEW n \in Nat, NEW l, NEW r, Fits(r, n, l)
  PROVE  r.resolvers \in Seq(Nat) /\ Len(r.resolvers) \in Nat
<1> DEFINE q == r.resolvers
<1>1. q \in Seq(1..n)
  BY CallsOfRecord
<1> HIDE DEF q
<1>2. q \in Seq(Nat) /\ Len(q) \in Nat
  BY <1>1
<1> QED
  BY <1>2 DEF q

LEMMA FirstWaiting ==
  ASSUME NEW n \in Nat, NEW q \in Seq(Nat), q # <<>>, Consecutive(q, n)
  PROVE  Head(q) = n - Len(q) + 1 /\ Len(Tail(q)) = Len(q) - 1 /\ Len(q) > 0
<1>1. Len(q) \in Nat /\ 1 \in 1..Len(q) /\ Head(q) = q[1] /\ Len(Tail(q)) = Len(q) - 1
  OBVIOUS
<1> QED
  BY <1>1 DEF Consecutive

\* emit, to a waiting call.
LEMMA ToldCall ==
  ASSUME NEW n \in Nat, NEW f, NEW l \in Nat, l + 1 \in 1..MaxEvents, NEW r, NEW A,
         Fits(r, n, l), Told(A, r, n, f, l), Awaited(r)
  PROVE  Told(With(A, Head(r.resolvers), l + 1), Emitted(r, l + 1, MaxQueue), n, f, l + 1)
<1> DEFINE e == Emitted(r, l + 1, MaxQueue)
           h == Head(r.resolvers)
           w == Len(r.resolvers)
<1>1. /\ r \in Subscriber(1..MaxEvents, 1..n) /\ MaxQueue \in Nat \ {0}
      /\ r.queue = <<>> /\ r.done = FALSE /\ Len(r.queue) = 0
  BY BusAssumption DEF Fits
<1>2. r.resolvers \in Seq(Nat) /\ w \in Nat
  BY WaitingCalls
<1>3. h = n - w + 1 /\ Len(Tail(r.resolvers)) = w - 1 /\ w > 0
  BY <1>2, FirstWaiting DEF Told, Awaited
<1>4. /\ e.queue = r.queue /\ e.done = r.done /\ e.resolvers = Tail(r.resolvers)
      /\ e.dropped = r.dropped
  <2> DEFINE Event == 1..MaxEvents
             Call == 1..n
             i == l + 1
  <2>1. r \in Subscriber(Event, Call) /\ i \in Event
    BY <1>1
  <2> HIDE DEF Event, Call, i
  <2>2. /\ Emitted(r, i, MaxQueue).queue = r.queue
        /\ Emitted(r, i, MaxQueue).done = r.done
        /\ Emitted(r, i, MaxQueue).resolvers = Tail(r.resolvers)
    BY <1>1, <2>1, EmittedToCall
  <2>3. Emitted(r, i, MaxQueue).dropped = r.dropped
    BY <1>1, <2>1, DroppedByEmit
  <2> QED
    BY <2>2, <2>3 DEF i
<1> HIDE DEF e, w
<1>5. Tells(A, n, w, 0, FALSE, f, l)
  BY <1>1 DEF Told, w
<1>6. Tells(With(A, n - w + 1, l + 1), n, w - 1, 0, FALSE, f, l + 1)
  BY <1>3, <1>5, TellsCall
<1>7. Consecutive(Tail(r.resolvers), n)
  BY <1>2, TailConsecutive DEF Told, Awaited
<1>8. h \notin DOMAIN A /\ l + 1 # Over
  BY <1>2, <1>3, <1>5 DEF Tells, Over
<1>9. Tallied(A, 0, r.dropped, f, l) /\ f \in Nat
  BY <1>1, <1>5 DEF Told, Tells
<1>10. /\ IsFiniteSet(HandedOf(With(A, h, l + 1)))
       /\ Cardinality(HandedOf(With(A, h, l + 1))) = Cardinality(HandedOf(A)) + 1
  BY <1>8, <1>9, OneMoreHanded DEF Tallied
<1>11. Tallied(With(A, h, l + 1), 0, r.dropped, f, l + 1)
  <2>1. Cardinality(HandedOf(A)) \in Nat
    BY <1>9, FS_CardinalityType DEF Tallied
  <2> QED
    BY <1>9, <1>10, <2>1 DEF Tallied
<1>12. /\ Len(e.resolvers) = w - 1 /\ Len(e.queue) = 0 /\ e.done = FALSE
       /\ e.dropped = r.dropped /\ Consecutive(e.resolvers, n)
  BY <1>1, <1>3, <1>4, <1>7, Zenon
<1>13. Told(With(A, h, l + 1), e, n, f, l + 1)
  BY <1>3, <1>6, <1>11, <1>12 DEF Told
<1> QED
  BY <1>13 DEF e

\* emit, to the queue.
LEMMA ToldQueue ==
  ASSUME NEW n \in Nat, NEW f, NEW l \in Nat, l + 1 \in 1..MaxEvents, NEW r, NEW A,
         Fits(r, n, l), Told(A, r, n, f, l), r.done = FALSE, ~Awaited(r)
  PROVE  Told(A, Emitted(r, l + 1, MaxQueue), n, f, l + 1)
<1> DEFINE e == Emitted(r, l + 1, MaxQueue)
           q == Len(r.queue)
           p == Len(e.queue)
<1>1. /\ r \in Subscriber(1..MaxEvents, 1..n) /\ MaxQueue \in Nat \ {0}
      /\ r.resolvers = <<>> /\ Len(r.resolvers) = 0
  BY BusAssumption DEF Fits, Awaited
<1>2. r.queue \in Seq(Nat) /\ q \in Nat
  BY FitsQueue
<1>3. /\ e.queue = IF Len(r.queue) >= MaxQueue THEN Append(Tail(r.queue), l + 1)
                                              ELSE Append(r.queue, l + 1)
      /\ e.done = r.done /\ e.resolvers = r.resolvers
      /\ e.dropped = IF Len(r.queue) >= MaxQueue THEN r.dropped + 1 ELSE r.dropped
  <2> DEFINE Event == 1..MaxEvents
             Call == 1..n
             i == l + 1
  <2>1. r \in Subscriber(Event, Call) /\ i \in Event
    BY <1>1
  <2> HIDE DEF Event, Call, i
  <2>2. /\ Emitted(r, i, MaxQueue).queue =
              IF Len(r.queue) >= MaxQueue THEN Append(Tail(r.queue), i)
                                          ELSE Append(r.queue, i)
        /\ Emitted(r, i, MaxQueue).done = r.done
        /\ Emitted(r, i, MaxQueue).resolvers = r.resolvers
    BY <1>1, <2>1, EmittedToQueue
  <2>3. Emitted(r, i, MaxQueue).dropped =
          IF Len(r.queue) >= MaxQueue THEN r.dropped + 1 ELSE r.dropped
    BY <1>1, <2>1, DroppedByEmit
  <2> QED
    BY <2>2, <2>3 DEF i
<1>4. Tells(A, n, 0, q, FALSE, f, l) /\ Tallied(A, q, r.dropped, f, l) /\ f \in Nat
  BY <1>1 DEF Told, Tells
<1>5. Cardinality(HandedOf(A)) \in Nat /\ r.dropped \in Nat
  BY <1>4, FS_CardinalityType DEF Tallied
<1> HIDE DEF e
<1>6. \/ p = q /\ e.dropped = r.dropped + 1
      \/ p = q + 1 /\ e.dropped = r.dropped
  <2>1. CASE Len(r.queue) >= MaxQueue
    <3>1. Len(Append(Tail(r.queue), l + 1)) = q
      BY <1>1, <1>2, <2>1
    <3> QED
      BY <1>3, <2>1, <3>1
  <2>2. CASE ~(Len(r.queue) >= MaxQueue)
    <3>1. Len(Append(r.queue, l + 1)) = q + 1
      BY <1>2
    <3> QED
      BY <1>3, <2>2, <3>1
  <2> QED
    BY <2>1, <2>2
<1> HIDE DEF p, q
<1>7. p \in Nat
  BY <1>2, <1>6 DEF q
<1>8. Tells(A, n, 0, p, FALSE, f, l + 1)
  BY <1>4, <1>6, <1>7, TellsQueue
<1>9. Tallied(A, p, e.dropped, f, l + 1)
  <2>1. q \in Nat /\ IsFiniteSet(HandedOf(A)) /\ l = f + q + Cardinality(HandedOf(A)) + r.dropped
    BY <1>2, <1>4 DEF Tallied, q
  <2>2. e.dropped \in Nat
    BY <1>5, <1>6
  <2>3. l + 1 = f + p + Cardinality(HandedOf(A)) + e.dropped
    BY <1>4, <1>5, <1>6, <2>1
  <2> QED
    BY <2>1, <2>2, <2>3 DEF Tallied
<1>10. /\ Len(e.resolvers) = 0 /\ e.done = FALSE /\ Consecutive(e.resolvers, n)
  BY <1>1, <1>3, EmptyConsecutive, Zenon
<1>11. Told(A, e, n, f, l + 1)
  BY <1>8, <1>9, <1>10 DEF Told, p
<1> QED
  BY <1>11 DEF e

\* next() with something queued.
LEMMA ToldTaken ==
  ASSUME NEW n \in Nat, NEW f, NEW l \in Nat, NEW r, NEW A,
         Fits(r, n, l), Told(A, r, n, f, l), r.queue # <<>>
  PROVE  Told(With(A, n + 1, Head(r.queue)), Taken(r), n + 1, f, l)
<1> DEFINE t == Taken(r)
           q == Len(r.queue)
           h == Head(r.queue)
           B == With(A, n + 1, h)
<1>1. r \in Subscriber(1..MaxEvents, 1..n) /\ ~Awaited(r)
  BY DEF Fits
<1>2. r.resolvers = <<>> /\ Len(r.resolvers) = 0
  BY <1>1 DEF Awaited
<1>3. r.queue \in Seq(Nat) /\ q \in Nat /\ Consecutive(r.queue, l)
  BY FitsQueue
<1>4. h = l - q + 1 /\ Len(Tail(r.queue)) = q - 1 /\ q > 0
  BY <1>3, FirstWaiting
<1>5. /\ t.queue = Tail(r.queue) /\ t.done = r.done /\ t.resolvers = r.resolvers
      /\ t.dropped = r.dropped
  BY <1>1, TakenSubscriber, DroppedByTakeOrStop
<1>6. Tells(A, n, 0, q, r.done, f, l) /\ Tallied(A, q, r.dropped, f, l)
  BY <1>2 DEF Told
<1>7. n + 1 \notin DOMAIN A /\ l - q + 1 # Over
  BY <1>6 DEF Tells, Over
<1> HIDE DEF t, q, h
<1>8. Tells(B, n + 1, 0, q - 1, r.done, f, l)
  BY <1>4, <1>6, TellsTake
<1>9. /\ IsFiniteSet(HandedOf(B))
      /\ Cardinality(HandedOf(B)) = Cardinality(HandedOf(A)) + 1
  BY <1>4, <1>6, <1>7, OneMoreHanded DEF Tallied
<1>10. Tallied(B, q - 1, r.dropped, f, l)
  <2>1. Cardinality(HandedOf(A)) \in Nat /\ f \in Nat /\ r.dropped \in Nat
    BY <1>6, FS_CardinalityType DEF Tallied, Tells
  <2> QED
    BY <1>3, <1>6, <1>9, <2>1 DEF Tallied
<1>11. /\ Len(t.resolvers) = 0 /\ Len(t.queue) = q - 1 /\ t.done = r.done
       /\ t.dropped = r.dropped /\ Consecutive(t.resolvers, n + 1)
  BY <1>2, <1>4, <1>5, EmptyConsecutive, Zenon
<1> HIDE DEF B
<1>12. Told(B, t, n + 1, f, l)
  BY <1>8, <1>10, <1>11 DEF Told
<1> QED
  BY <1>12 DEF B, t, h

\* next() on a stream that is over.
LEMMA ToldOver ==
  ASSUME NEW n \in Nat, NEW f, NEW l \in Nat, NEW r, NEW A,
         Fits(r, n, l), Told(A, r, n, f, l), r.queue = <<>>, r.done = TRUE
  PROVE  Told(With(A, n + 1, Over), r, n + 1, f, l)
<1>1. r.resolvers = <<>> /\ Len(r.resolvers) = 0 /\ Len(r.queue) = 0
  BY DEF Fits, Awaited
<1>2. Tells(A, n, 0, 0, TRUE, f, l)
  BY <1>1 DEF Told
<1>3. Tells(With(A, n + 1, Over), n + 1, 0, 0, TRUE, f, l)
  BY <1>2, TellsOver
<1>4. n + 1 \notin DOMAIN A
  BY <1>2 DEF Tells
<1>5. Tallied(With(A, n + 1, Over), 0, r.dropped, f, l)
  BY <1>1, <1>4, NoneMoreHanded DEF Told, Tallied
<1>6. Consecutive(r.resolvers, n + 1)
  BY <1>1, EmptyConsecutive
<1> QED
  BY <1>1, <1>3, <1>5, <1>6 DEF Told

\* next() waits.
LEMMA ToldWaiting ==
  ASSUME NEW n \in Nat, NEW f, NEW l \in Nat, NEW r, NEW A,
         Fits(r, n, l), Told(A, r, n, f, l), r.queue = <<>>, r.done = FALSE
  PROVE  Told(A, Waiting(r, n + 1), n + 1, f, l)
<1> DEFINE t == Waiting(r, n + 1)
           w == Len(r.resolvers)
<1>1. r.resolvers \in Seq(Nat) /\ w \in Nat /\ Len(r.queue) = 0
  BY WaitingCalls
<1>2. /\ t.queue = r.queue /\ t.done = r.done /\ t.dropped = r.dropped
      /\ t.resolvers = Append(r.resolvers, n + 1)
  <2> DEFINE Event == 1..MaxEvents
             Call == 1..(n + 1)
             c == n + 1
  <2>1. r \in Subscriber(Event, Call) /\ c \in Call
    <3>1. Fits(r, n + 1, l)
      BY FitsMoreCalls
    <3> QED
      BY <3>1 DEF Fits
  <2> HIDE DEF Event, Call, c
  <2>2. /\ Waiting(r, c).queue = r.queue /\ Waiting(r, c).done = r.done
        /\ Waiting(r, c).resolvers = Append(r.resolvers, c)
        /\ Waiting(r, c).dropped = r.dropped
    BY <2>1, WaitingSubscriber, DroppedByWait
  <2> QED
    BY <2>2 DEF c
<1>3. Consecutive(Append(r.resolvers, n + 1), n + 1)
  BY <1>1, AppendConsecutive DEF Told
<1>4. Len(Append(r.resolvers, n + 1)) = w + 1
  BY <1>1
<1> HIDE DEF t, w
<1>5. Tells(A, n, w, 0, FALSE, f, l) /\ Tallied(A, 0, r.dropped, f, l)
  BY <1>1 DEF Told, w
<1>6. Tells(A, n + 1, w + 1, 0, FALSE, f, l)
  BY <1>5, TellsWait
<1>7. /\ Len(t.resolvers) = w + 1 /\ Len(t.queue) = 0 /\ t.done = FALSE
      /\ t.dropped = r.dropped /\ Consecutive(t.resolvers, n + 1)
  BY <1>1, <1>2, <1>3, <1>4, Zenon
<1>8. Told(A, t, n + 1, f, l)
  BY <1>5, <1>6, <1>7 DEF Told
<1> QED
  BY <1>8 DEF t

\* unsubscribe() and return().
AllOver(A, waiting) ==
  [c \in DOMAIN A \union waiting |-> IF c \in DOMAIN A THEN A[c] ELSE Over]

LEMMA ConsecutiveRange ==
  ASSUME NEW n \in Nat, NEW q \in Seq(Nat), Consecutive(q, n), Len(q) <= n
  PROVE  Range(q) = (n - Len(q) + 1)..n
<1> DEFINE w == Len(q)
<1>1. w \in Nat /\ DOMAIN q = 1..w /\ \A k \in 1..w : q[k] = n - w + k
  BY DEF Consecutive
<1> HIDE DEF w
<1>2. ASSUME NEW x \in (n - w + 1)..n
      PROVE  \E k \in 1..w : q[k] = x
  <2>1. x - (n - w) \in 1..w /\ n - w + (x - (n - w)) = x
    BY <1>1
  <2>2. q[x - (n - w)] = x
    BY <1>1, <2>1
  <2> QED
    BY <2>1, <2>2
<1>3. \A k \in 1..w : q[k] \in (n - w + 1)..n
  BY <1>1, w <= n DEF w
<1> QED
  BY <1>1, <1>2, <1>3 DEF Range, w

LEMMA ToldStopped ==
  ASSUME NEW n \in Nat, NEW f, NEW l \in Nat, NEW r, NEW A,
         Fits(r, n, l), Told(A, r, n, f, l)
  PROVE  Told(AllOver(A, Range(r.resolvers)), Stopped(r), n, f, l)
<1> DEFINE z == Stopped(r)
           w == Len(r.resolvers)
           q == Len(r.queue)
           waiting == Range(r.resolvers)
           B == AllOver(A, waiting)
<1>1. r.resolvers \in Seq(Nat) /\ w \in Nat /\ r \in Subscriber(1..MaxEvents, 1..n)
  BY WaitingCalls DEF Fits
<1>2. /\ z.queue = r.queue /\ z.done = TRUE /\ z.dropped = r.dropped
      /\ z.resolvers = <<>>
  <2>1. /\ Stopped(r).queue = r.queue /\ Stopped(r).done = TRUE
        /\ Stopped(r).resolvers = <<>>
    <3> DEFINE Event == 1..MaxEvents
               Call == 1..n
    <3>1. r \in Subscriber(Event, Call)
      BY <1>1
    <3> HIDE DEF Event, Call
    <3> QED
      BY <3>1, StoppedSubscriber
  <2>2. Stopped(r).dropped = r.dropped
    BY <1>1, DroppedByTakeOrStop
  <2> QED
    BY <2>1, <2>2
<1>3. w > 0 => q = 0
  <2>1. ASSUME w > 0
        PROVE  r.queue = <<>>
    <3>1. r.resolvers # <<>>
      BY <2>1
    <3> QED
      BY <3>1 DEF Fits, Awaited
  <2> QED
    BY <2>1
<1> HIDE DEF z, w, q, waiting
<1>4. Tells(A, n, w, q, r.done, f, l) /\ Tallied(A, q, r.dropped, f, l)
  BY DEF Told, w, q
<1>5. w <= n
  BY <1>4 DEF Tells
<1>6. waiting = (n - w + 1)..n
  BY <1>1, <1>5, ConsecutiveRange DEF Told, w, waiting
<1>7. Tells(B, n, 0, q, TRUE, f, l)
  BY <1>3, <1>4, <1>6, TellsStop DEF AllOver
<1>8. HandedOf(B) = HandedOf(A)
  BY DEF HandedOf, AllOver
<1>9. Tallied(B, q, r.dropped, f, l)
  BY <1>4, <1>8 DEF Tallied
<1>10. /\ Len(z.resolvers) = 0 /\ Len(z.queue) = q /\ z.done = TRUE
       /\ z.dropped = r.dropped /\ Consecutive(z.resolvers, n)
  BY <1>2, EmptyConsecutive, Zenon DEF q
<1> HIDE DEF B
<1>11. Told(B, z, n, f, l)
  BY <1>7, <1>9, <1>10 DEF Told
<1> QED
  BY <1>11 DEF B, z, waiting

----------------------------------------------------------------------------
(***************************************************************************)
(* The strengthened invariant.  The three properties are not inductive     *)
(* alone: that the waiting calls are the latest ones, that every earlier   *)
(* call is answered, and that what was handed out and what is queued       *)
(* partition the events offered is what the steps need.                    *)
(***************************************************************************)
AnswersOK(s) ==
  /\ Told(answers[s], sub[s], calls[s], first[s], last[s])
  /\ ~Opened(s) => calls[s] = 0 /\ sub[s].dropped = 0

Answers == \A s \in Subs : AnswersOK(s)

LEMMA NothingTold ==
  ASSUME NEW A, DOMAIN A = {}, NEW r, r.queue = <<>>, r.resolvers = <<>>, r.done = FALSE,
         r.dropped = 0, NEW l \in Nat
  PROVE  Told(A, r, 0, l, l)
<1>1. Len(r.queue) = 0 /\ Len(r.resolvers) = 0 /\ Consecutive(r.resolvers, 0)
  BY EmptyConsecutive
<1>2. Tells(A, 0, 0, 0, FALSE, l, l)
  <2>1. DOMAIN A = 1..0
    OBVIOUS
  <2> QED
    BY <2>1 DEF Tells
<1>3. Tallied(A, 0, 0, l, l)
  <2>1. HandedOf(A) = {}
    BY DEF HandedOf
  <2> QED
    BY <2>1, FS_EmptySet DEF Tallied
<1> QED
  BY <1>1, <1>2, <1>3 DEF Told

LEMMA InitAnswers == Init => Answers
<1> SUFFICES ASSUME Init, NEW s \in Subs
             PROVE  AnswersOK(s)
  BY DEF Answers
<1>1. /\ sub[s] = NewSubscriber /\ calls[s] = 0 /\ first[s] = 0 /\ last[s] = 0
      /\ DOMAIN answers[s] = {}
  BY DEF Init
<1>2. /\ sub[s].queue = <<>> /\ sub[s].resolvers = <<>> /\ sub[s].done = FALSE
      /\ sub[s].dropped = 0
  BY <1>1 DEF NewSubscriber
<1> QED
  BY <1>1, <1>2, NothingTold DEF AnswersOK

LEMMA EmitAnswers ==
  ASSUME IInv, Answers, Emit
  PROVE  Answers'
<1> SUFFICES ASSUME NEW s \in Subs
             PROVE  AnswersOK(s)'
  BY DEF Answers
<1>1. /\ SubscriberOK(s) /\ AnswersOK(s)
      /\ calls[s] \in Nat /\ calls'[s] = calls[s] /\ first'[s] = first[s]
      /\ subscribers' = subscribers
      /\ emitted \in Nat /\ emitted' = emitted + 1 /\ emitted + 1 \in 1..MaxEvents
  BY BusAssumption DEF IInv, Typed, Emit, Answers
<1>2. CASE s \notin subscribers
  <2>1. sub'[s] = sub[s] /\ last'[s] = last[s] /\ answers'[s] = answers[s]
    BY <1>2 DEF Emit
  <2> QED
    BY <1>1, <2>1 DEF AnswersOK, Opened
<1>3. CASE s \in subscribers
  <2>1. /\ sub'[s] = Emitted(sub[s], emitted + 1, MaxQueue)
        /\ last'[s] = emitted + 1 /\ s \in subscribers'
    BY <1>1, <1>3 DEF Emit
  <2>2. /\ Fits(sub[s], calls[s], emitted) /\ sub[s].done = FALSE
        /\ Told(answers[s], sub[s], calls[s], first[s], emitted)
    BY <1>1, <1>3 DEF SubscriberOK, AnswersOK
  <2>3. CASE Awaited(sub[s])
    <3>1. answers'[s] = With(answers[s], Head(sub[s].resolvers), emitted + 1)
      BY <1>1, <1>3, <2>3 DEF Emit, Resolved, With
    <3>2. Told(answers'[s], sub'[s], calls'[s], first'[s], last'[s])
      BY <1>1, <2>1, <2>2, <2>3, <3>1, ToldCall
    <3> QED
      BY <2>1, <3>2 DEF AnswersOK, Opened
  <2>4. CASE ~Awaited(sub[s])
    <3>1. answers'[s] = answers[s]
      BY <2>4, <1>3 DEF Emit
    <3>2. Told(answers'[s], sub'[s], calls'[s], first'[s], last'[s])
      BY <1>1, <2>1, <2>2, <2>4, <3>1, ToldQueue
    <3> QED
      BY <2>1, <3>2 DEF AnswersOK, Opened
  <2> QED
    BY <2>3, <2>4
<1> QED
  BY <1>2, <1>3

LEMMA SubscribeAnswers ==
  ASSUME IInv, Answers, NEW t \in Subs, Subscribe(t)
  PROVE  Answers'
<1> SUFFICES ASSUME NEW s \in Subs
             PROVE  AnswersOK(s)'
  BY DEF Answers
<1>1. /\ SubscriberOK(s) /\ AnswersOK(s)
      /\ sub'[s] = sub[s] /\ calls'[s] = calls[s] /\ answers'[s] = answers[s]
  BY DEF IInv, Subscribe, Answers
<1>2. CASE s # t
  <2>1. /\ first'[s] = first[s] /\ last'[s] = last[s]
        /\ s \in subscribers' <=> s \in subscribers
    BY <1>2 DEF IInv, Typed, Subscribe
  <2> QED
    BY <1>1, <2>1 DEF AnswersOK, Opened
<1>3. CASE s = t
  <2>1. /\ first'[s] = emitted /\ last'[s] = emitted /\ emitted \in Nat
        /\ s \in subscribers' /\ ~Opened(s)
    BY <1>3 DEF IInv, Typed, Subscribe
  <2>2. /\ calls[s] = 0 /\ sub[s].dropped = 0
        /\ sub[s].queue = <<>> /\ sub[s].done = FALSE
        /\ Fits(sub[s], calls[s], last[s])
        /\ Told(answers[s], sub[s], 0, first[s], last[s])
    BY <1>1, <2>1 DEF AnswersOK, SubscriberOK
  <2>3. sub[s].resolvers \in Seq(Nat) /\ Len(sub[s].resolvers) \in Nat
    BY <2>2, WaitingCalls
  <2>4. DOMAIN answers[s] = {} /\ Len(sub[s].resolvers) = 0
    BY <2>2, <2>3 DEF Told, Tells
  <2>5. sub[s].resolvers = <<>>
    BY <2>3, <2>4
  <2>6. Told(answers[s], sub[s], 0, emitted, emitted)
    BY <2>1, <2>2, <2>4, <2>5, NothingTold
  <2> QED
    BY <1>1, <2>1, <2>2, <2>6 DEF AnswersOK, Opened
<1> QED
  BY <1>2, <1>3

LEMMA OthersAnswers ==
  ASSUME IInv, Answers, NEW t \in Subs, NextCall(t) \/ Unsubscribe(t),
         NEW s \in Subs, s # t
  PROVE  AnswersOK(s)'
<1>1. /\ sub'[s] = sub[s] /\ calls'[s] = calls[s] /\ answers'[s] = answers[s]
      /\ first'[s] = first[s] /\ last'[s] = last[s]
      /\ s \in subscribers' <=> s \in subscribers
  BY DEF NextCall, Unsubscribe, IInv, Typed
<1> QED
  BY <1>1 DEF AnswersOK, Opened, Answers

LEMMA NextCallAnswers ==
  ASSUME IInv, Answers, NEW t \in Subs, NextCall(t)
  PROVE  Answers'
<1> DEFINE n == calls[t]
<1>1. /\ n \in Nat /\ calls'[t] = n + 1
      /\ last[t] \in Nat /\ last'[t] = last[t] /\ first'[t] = first[t]
      /\ subscribers' = subscribers /\ Opened(t)
  BY DEF IInv, Typed, NextCall
<1>2. /\ Fits(sub[t], n, last[t])
      /\ Told(answers[t], sub[t], n, first[t], last[t])
  BY DEF IInv, SubscriberOK, Answers, AnswersOK
<1>3. /\ Told(answers'[t], sub'[t], n + 1, first[t], last[t])
      /\ sub[t].done = TRUE => sub'[t].done = TRUE
  <2>1. CASE sub[t].queue # <<>>
    <3>1. /\ sub'[t] = Taken(sub[t])
          /\ answers'[t] = With(answers[t], n + 1, Head(sub[t].queue))
      <4>1. /\ sub'[t] = Taken(sub[t])
            /\ answers'[t] = Resolved(t, n + 1, Head(sub[t].queue))
        BY <2>1 DEF NextCall, IInv, Typed
      <4> QED
        BY <4>1 DEF Resolved, With
    <3> DEFINE r == sub[t]
               l == last[t]
               f == first[t]
               A == answers[t]
    <3>2. n \in Nat /\ l \in Nat /\ Fits(r, n, l) /\ Told(A, r, n, f, l) /\ r.queue # <<>>
      BY <1>1, <1>2, <2>1
    <3> HIDE DEF n, r, l, f, A
    <3>3. Told(With(A, n + 1, Head(r.queue)), Taken(r), n + 1, f, l)
      BY <3>2, ToldTaken
    <3>4. Taken(r).done = r.done
      BY <3>2, FitsTaken
    <3> QED
      BY <3>1, <3>3, <3>4 DEF r, l, f, A
  <2>2. CASE sub[t].queue = <<>> /\ sub[t].done
    <3>1. sub'[t] = sub[t] /\ answers'[t] = With(answers[t], n + 1, Over)
      BY <2>2 DEF NextCall, IInv, Typed, Resolved, With
    <3>2. sub[t].done = TRUE
      <4>1. sub[t].done \in BOOLEAN
        BY <1>2 DEF Fits, Subscriber
      <4> QED
        BY <2>2, <4>1, Zenon
    <3> DEFINE r == sub[t]
               l == last[t]
               f == first[t]
               A == answers[t]
    <3>3. /\ n \in Nat /\ l \in Nat
          /\ Fits(r, n, l) /\ Told(A, r, n, f, l) /\ r.queue = <<>> /\ r.done = TRUE
      BY <1>1, <1>2, <2>2, <3>2
    <3> HIDE DEF n, r, l, f, A
    <3>4. Told(With(A, n + 1, Over), r, n + 1, f, l)
      BY <3>3, ToldOver
    <3> QED
      BY <3>1, <3>2, <3>4 DEF r, l, f, A
  <2>3. CASE sub[t].queue = <<>> /\ ~sub[t].done
    <3>1. sub'[t] = Waiting(sub[t], n + 1) /\ answers'[t] = answers[t]
      BY <2>3 DEF NextCall, IInv, Typed
    <3>2. sub[t].done = FALSE
      <4>1. sub[t].done \in BOOLEAN
        BY <1>2 DEF Fits, Subscriber
      <4> QED
        BY <2>3, <4>1, Zenon
    <3> HIDE DEF n
    <3> QED
      BY <1>1, <1>2, <2>3, <3>1, <3>2, ToldWaiting
  <2> QED
    BY <2>1, <2>2, <2>3
<1>4. AnswersOK(t)'
  <2>1. CASE t \in subscribers
    BY <1>1, <1>3, <2>1 DEF AnswersOK, Opened
  <2>2. CASE sub[t].done
    <3>1. sub[t].done \in BOOLEAN
      BY <1>2 DEF Fits, Subscriber
    <3>2. sub'[t].done = TRUE
      BY <1>3, <2>2, <3>1, Zenon
    <3> QED
      BY <1>1, <1>3, <3>2 DEF AnswersOK, Opened
  <2> QED
    BY <1>1, <2>1, <2>2, Zenon DEF Opened
<1> QED
  BY <1>4, OthersAnswers DEF Answers

LEMMA UnsubscribeAnswers ==
  ASSUME IInv, Answers, NEW t \in Subs, Unsubscribe(t)
  PROVE  Answers'
<1>1. /\ calls[t] \in Nat /\ calls'[t] = calls[t]
      /\ last[t] \in Nat /\ last'[t] = last[t] /\ first'[t] = first[t]
      /\ sub'[t] = Stopped(sub[t])
      /\ answers'[t] = AllOver(answers[t], Range(sub[t].resolvers))
  BY DEF IInv, Typed, Unsubscribe, AllOver
<1>2. /\ Fits(sub[t], calls[t], last[t])
      /\ Told(answers[t], sub[t], calls[t], first[t], last[t])
  BY DEF IInv, SubscriberOK, Answers, AnswersOK
<1>3. Told(answers'[t], sub'[t], calls'[t], first'[t], last'[t])
  BY <1>1, <1>2, ToldStopped
<1>4. sub'[t].done = TRUE
  BY <1>1, <1>2, FitsStopped
<1>5. AnswersOK(t)'
  BY <1>3, <1>4 DEF AnswersOK, Opened
<1> QED
  BY <1>5, OthersAnswers DEF Answers

LEMMA StepAnswers == IInv /\ Answers /\ [Next]_vars => Answers'
<1> SUFFICES ASSUME IInv, Answers, [Next]_vars
             PROVE  Answers'
  OBVIOUS
<1>1. CASE Emit
  BY <1>1, EmitAnswers
<1>2. ASSUME NEW s \in Subs, Subscribe(s) \/ NextCall(s) \/ Unsubscribe(s)
      PROVE  Answers'
  BY <1>2, SubscribeAnswers, NextCallAnswers, UnsubscribeAnswers
<1>3. CASE UNCHANGED vars
  BY <1>3 DEF vars, bus, history, Answers, AnswersOK, Opened
<1> QED
  BY <1>1, <1>2, <1>3 DEF Next

\* What the calls were answered with is what the invariant says, always.
THEOREM AnswersKnown == Spec => []Answers
BY InitAnswers, StepAnswers, Invariance, PTL DEF Spec

----------------------------------------------------------------------------
\* A consumer that awaits several next() calls at once gets the events in the
\* order of its calls, each at most once, none from before it subscribed.
THEOREM CallsAnsweredInOrder == Spec => []AnsweredInOrder
<1>1. Answers => AnsweredInOrder
  <2> SUFFICES ASSUME Answers, NEW s \in Subs
               PROVE  /\ \A c \in Handed(s) : answers[s][c] \in first[s] + 1..last[s]
                      /\ \A c, d \in Handed(s) : c < d => answers[s][c] < answers[s][d]
                      /\ \A c \in DOMAIN answers[s] : 1..c \subseteq DOMAIN answers[s]
    BY DEF AnsweredInOrder
  <2>1. Tells(answers[s], calls[s], Len(sub[s].resolvers), Len(sub[s].queue), sub[s].done,
              first[s], last[s])
    BY DEF Answers, AnswersOK, Told
  <2>2. /\ first[s] \in Nat /\ last[s] \in Nat /\ Len(sub[s].queue) \in Nat
        /\ calls[s] \in Nat /\ Len(sub[s].resolvers) \in Nat
        /\ DOMAIN answers[s] = 1..(calls[s] - Len(sub[s].resolvers))
    BY <2>1 DEF Tells
  <2>3. \A c \in Handed(s) : answers[s][c] \in first[s] + 1..last[s]
    BY <2>1, <2>2 DEF Tells, Handed
  <2>4. \A c, d \in Handed(s) : c < d => answers[s][c] < answers[s][d]
    BY <2>1 DEF Tells, Handed
  <2>5. \A c \in DOMAIN answers[s] : 1..c \subseteq DOMAIN answers[s]
    BY <2>2
  <2> QED
    BY <2>3, <2>4, <2>5
<1> QED
  BY <1>1, AnswersKnown, PTL

\* A consumer that saw the end of its stream has missed nothing and is never
\* handed an event afterwards.
THEOREM NothingAfterTheEnd == Spec => []OverIsFinal
<1>1. IInv /\ Answers => OverIsFinal
  <2> SUFFICES ASSUME IInv, Answers, NEW s \in Subs, NEW c \in DOMAIN answers[s],
                      answers[s][c] = Over
               PROVE  /\ sub[s].done /\ sub[s].queue = <<>>
                      /\ \A d \in DOMAIN answers[s] : d > c => answers[s][d] = Over
    BY DEF OverIsFinal
  <2>1. Tells(answers[s], calls[s], Len(sub[s].resolvers), Len(sub[s].queue), sub[s].done,
              first[s], last[s])
    BY DEF Answers, AnswersOK, Told
  <2>2. Fits(sub[s], calls[s], last[s])
    BY DEF IInv, SubscriberOK
  <2>3. /\ sub[s].done = TRUE /\ Len(sub[s].queue) = 0
        /\ \A d \in DOMAIN answers[s] : d > c => answers[s][d] = Over
    BY <2>1 DEF Tells
  <2>4. sub[s].queue \in Seq(Nat)
    BY <2>2, FitsQueue
  <2> QED
    BY <2>3, <2>4
<1> QED
  BY <1>1, AnswersKnown, Invariance, PTL

\* No event is lost silently or handed out twice: the events a subscriber was
\* offered are those it got, those still queued, and those droppedFor counts.
THEOREM NoEventUnaccountedFor == Spec => []EveryEventCounted
<1>1. Answers => EveryEventCounted
  <2> SUFFICES ASSUME Answers, NEW s \in Subs
               PROVE  last[s] - first[s] =
                        Unread(s) + Cardinality(Handed(s)) + sub[s].dropped
    BY DEF EveryEventCounted
  <2>1. /\ Tells(answers[s], calls[s], Len(sub[s].resolvers), Len(sub[s].queue),
                 sub[s].done, first[s], last[s])
        /\ Tallied(answers[s], Len(sub[s].queue), sub[s].dropped, first[s], last[s])
    BY DEF Answers, AnswersOK, Told
  <2>2. HandedOf(answers[s]) = Handed(s)
    BY DEF HandedOf, Handed
  <2>3. /\ first[s] \in Nat /\ Unread(s) \in Nat /\ sub[s].dropped \in Nat
        /\ Cardinality(Handed(s)) \in Nat
        /\ last[s] = first[s] + Unread(s) + Cardinality(Handed(s)) + sub[s].dropped
    BY <2>1, <2>2, FS_CardinalityType DEF Tells, Tallied, Unread
  <2> QED
    BY <2>3
<1> QED
  BY <1>1, AnswersKnown, PTL
============================================================================
