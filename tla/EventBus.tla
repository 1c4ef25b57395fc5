------------------------------ MODULE EventBus -----------------------------
(***************************************************************************)
(* The event bus (src/proxy/event-bus.ts) with its emitter and any number  *)
(* of subscribers.  Events are numbered in the order they are emitted, the *)
(* next() calls of a subscriber in the order they are made.                *)
(***************************************************************************)
EXTENDS BusSubscriber, FiniteSets, Functions

CONSTANTS
  Subs,       \* the subscriptions that may be opened
  MaxQueue,   \* maxQueue of subscribe(), 1024 by default
  MaxEvents,  \* bound: events emitted
  MaxCalls    \* bound: next() calls of one subscriber

ASSUME BusAssumption ==
  /\ MaxQueue \in Nat \ {0}
  /\ MaxEvents \in Nat
  /\ MaxCalls \in Nat

VARIABLES
  subscribers,  \* the Set of live subscriptions
  sub,          \* the Subscriber record of each
  \* history
  emitted,      \* how many events the bus was given
  first, last,  \* the event before the first, and the last, a subscriber was offered
  calls,        \* next() calls made by each subscriber
  answers       \* what each of them resolved with: an event's number, or Over

bus == <<subscribers, sub>>
history == <<emitted, first, last, calls, answers>>
vars == <<bus, history>>

Over == 0
Answer == 0..MaxEvents

TypeOK ==
  /\ subscribers \subseteq Subs
  /\ sub \in [Subs -> Subscriber(1..MaxEvents, 1..MaxCalls)]
  /\ \A s \in Subs : Len(sub[s].queue) <= MaxQueue
  /\ emitted \in 0..MaxEvents
  /\ first \in [Subs -> 0..MaxEvents]
  /\ last \in [Subs -> 0..MaxEvents]
  /\ calls \in [Subs -> 0..MaxCalls]
  /\ DOMAIN answers = Subs
  /\ \A s \in Subs : /\ DOMAIN answers[s] \subseteq 1..calls[s]
                     /\ answers[s] \in [DOMAIN answers[s] -> Answer]

Init ==
  /\ subscribers = {}
  /\ sub = [s \in Subs |-> NewSubscriber]
  /\ emitted = 0
  /\ first = [s \in Subs |-> 0]
  /\ last = [s \in Subs |-> 0]
  /\ calls = [s \in Subs |-> 0]
  /\ answers = [s \in Subs |-> [c \in {} |-> Over]]

\* subscribe() has been called: the handle exists, live or done.
Opened(s) == s \in subscribers \/ sub[s].done

Resolved(s, call, value) ==
  [c \in DOMAIN answers[s] \union {call} |-> IF c = call THEN value ELSE answers[s][c]]

Subscribe(s) ==
  /\ ~Opened(s)
  /\ subscribers' = subscribers \union {s}
  /\ first' = [first EXCEPT ![s] = emitted]
  /\ last' = [last EXCEPT ![s] = emitted]
  /\ UNCHANGED <<sub, emitted, calls, answers>>

\* Slip: the call that was made last is answered first.
EmitToLatest ==
  /\ emitted < MaxEvents
  /\ emitted' = emitted + 1
  /\ sub' = [s \in Subs |->
       IF s \in subscribers /\ Awaited(sub[s])
       THEN [sub[s] EXCEPT !.resolvers = SubSeq(@, 1, Len(@) - 1)]
       ELSE IF s \in subscribers THEN Emitted(sub[s], emitted', MaxQueue) ELSE sub[s]]
  /\ answers' = [s \in Subs |->
       IF s \in subscribers /\ Awaited(sub[s])
       THEN Resolved(s, sub[s].resolvers[Len(sub[s].resolvers)], emitted') ELSE answers[s]]
  /\ last' = [s \in Subs |-> IF s \in subscribers THEN emitted' ELSE last[s]]
  /\ UNCHANGED <<subscribers, first, calls>>

\* One call of emit() offers the event to every live subscriber.
Emit ==
  /\ emitted < MaxEvents
  /\ emitted' = emitted + 1
  /\ sub' = [s \in Subs |-> IF s \in subscribers
                            THEN Emitted(sub[s], emitted', MaxQueue) ELSE sub[s]]
  /\ answers' = [s \in Subs |-> IF s \in subscribers /\ Awaited(sub[s])
                                THEN Resolved(s, Head(sub[s].resolvers), emitted')
                                ELSE answers[s]]
  /\ last' = [s \in Subs |-> IF s \in subscribers THEN emitted' ELSE last[s]]
  /\ UNCHANGED <<subscribers, first, calls>>

\* Slip: a stream that is over does not hand out what is still queued.
NextCallDoneFirst(s) ==
  /\ Opened(s)
  /\ calls[s] < MaxCalls
  /\ calls' = [calls EXCEPT ![s] = @ + 1]
  /\ \/ /\ sub[s].done
        /\ answers' = [answers EXCEPT ![s] = Resolved(s, calls'[s], Over)]
        /\ UNCHANGED sub
     \/ /\ sub[s].queue # <<>> /\ ~sub[s].done
        /\ sub' = [sub EXCEPT ![s] = Taken(@)]
        /\ answers' = [answers EXCEPT ![s] = Resolved(s, calls'[s], Head(sub[s].queue))]
     \/ /\ sub[s].queue = <<>> /\ ~sub[s].done
        /\ sub' = [sub EXCEPT ![s] = Waiting(@, calls'[s])]
        /\ UNCHANGED answers
  /\ UNCHANGED <<subscribers, emitted, first, last>>

NextCall(s) ==
  /\ Opened(s)
  /\ calls[s] < MaxCalls
  /\ calls' = [calls EXCEPT ![s] = @ + 1]
  /\ \/ /\ sub[s].queue # <<>>
        /\ sub' = [sub EXCEPT ![s] = Taken(@)]
        /\ answers' = [answers EXCEPT ![s] = Resolved(s, calls'[s], Head(sub[s].queue))]
     \/ /\ sub[s].queue = <<>> /\ sub[s].done
        /\ answers' = [answers EXCEPT ![s] = Resolved(s, calls'[s], Over)]
        /\ UNCHANGED sub
     \/ /\ sub[s].queue = <<>> /\ ~sub[s].done
        /\ sub' = [sub EXCEPT ![s] = Waiting(@, calls'[s])]
        /\ UNCHANGED answers
  /\ UNCHANGED <<subscribers, emitted, first, last>>

\* unsubscribe(), and the iterator's return(), at any time and more than once.
Unsubscribe(s) ==
  /\ Opened(s)
  /\ subscribers' = subscribers \ {s}
  /\ sub' = [sub EXCEPT ![s] = Stopped(@)]
  /\ answers' = [answers EXCEPT ![s] =
                   [c \in DOMAIN @ \union Range(sub[s].resolvers) |->
                      IF c \in DOMAIN @ THEN @[c] ELSE Over]]
  /\ UNCHANGED <<emitted, first, last, calls>>

Next ==
  \/ Emit
  \/ \E s \in Subs : Subscribe(s) \/ NextCall(s) \/ Unsubscribe(s)

Spec == Init /\ [][Next]_vars
----------------------------------------------------------------------------
\* What the bus promises.

\* A call waits only while there is nothing to hand out: no event is queued and
\* the stream is not over (emit, next and unsubscribe agree on who waits).
NoCallLeftWaiting ==
  \A s \in Subs : Awaited(sub[s]) => sub[s].queue = <<>> /\ ~sub[s].done

\* The queue holds the newest events the subscriber was offered, in order and
\* without a gap; only the oldest ones are ever missing.
Unread(s) == Len(sub[s].queue)
NewestKept ==
  \A s \in Subs : \A k \in 1..Unread(s) :
    sub[s].queue[k] = last[s] - Unread(s) + k

\* Every event a subscriber was offered is either still queued, or was handed
\* to exactly one call, or is counted as dropped (droppedFor).
Handed(s) == {c \in DOMAIN answers[s] : answers[s][c] # Over}
EveryEventCounted ==
  \A s \in Subs :
    last[s] - first[s] = Unread(s) + Cardinality(Handed(s)) + sub[s].dropped

\* Calls are answered in the order they were made, with events in the order
\* they were emitted, none of them older than the subscription.
AnsweredInOrder ==
  \A s \in Subs :
    /\ \A c \in Handed(s) : answers[s][c] \in first[s] + 1..last[s]
    /\ \A c, d \in Handed(s) : c < d => answers[s][c] < answers[s][d]
    /\ \A c \in DOMAIN answers[s] : 1..c \subseteq DOMAIN answers[s]

\* A consumer that was told the stream is over has missed nothing: what was
\* queued when the subscription ended was handed out first.
OverIsFinal ==
  \A s \in Subs : \A c \in DOMAIN answers[s] :
    answers[s][c] = Over =>
      /\ sub[s].done /\ sub[s].queue = <<>>
      /\ \A d \in DOMAIN answers[s] : d > c => answers[s][d] = Over
============================================================================
