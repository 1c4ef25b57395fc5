----------------------------- MODULE ChainProofs -----------------------------
(***************************************************************************)
(* Theorems about the transfer subscription of the chain client, for any   *)
(* chain, any number of overlapping polls, failures and waiting calls.     *)
(***************************************************************************)
EXTENDS ChainSubscription, SequenceTheorems, FiniteSetTheorems, TLAPS

----------------------------------------------------------------------------
\* pumpQueue: nothing is lost, nothing waits beside what is left, and a log
\* counts as handed out exactly when it left the queue.
Holds(q, l) == \E k \in 1..Len(q) : q[k] = l

LEMMA Pumped ==
  ASSUME NEW q \in Seq(Logs), waiters \in Nat, delivered \in [Logs -> Nat], Pump(q)
  PROVE  /\ queue' \in Seq(Logs)
         /\ waiters' \in 0..waiters
         /\ delivered' \in [Logs -> Nat]
         /\ waiters' = 0 \/ queue' = <<>>
         /\ \A l \in Logs : (delivered'[l] > 0 \/ Holds(queue', l))
                              <=> (delivered[l] > 0 \/ Holds(q, l))
<1> DEFINE h == Handed(q)
<1>1. h \in 0..Len(q) /\ h \in 0..waiters /\ (h = Len(q) \/ h = waiters) /\ Len(q) \in Nat
  BY DEF Handed
<1>2. /\ queue' = SubSeq(q, h + 1, Len(q)) /\ waiters' = waiters - h
      /\ delivered' = [l \in Logs |->
                         delivered[l] + Cardinality({k \in 1..h : q[k] = l})]
  BY DEF Pump
<1> HIDE DEF h
<1>3. /\ queue' \in Seq(Logs) /\ Len(queue') = Len(q) - h
      /\ \A k \in 1..Len(q) - h : queue'[k] = q[h + k]
  <2>1. \A k \in h + 1..Len(q) : q[k] \in Logs
    BY <1>1
  <2> QED
    BY <1>1, <1>2, <2>1
<1>4. waiters' \in 0..waiters /\ (waiters' = 0 \/ queue' = <<>>)
  BY <1>1, <1>2, <1>3
<1>5. ASSUME NEW l \in Logs
      PROVE  /\ Cardinality({k \in 1..h : q[k] = l}) \in Nat
             /\ Cardinality({k \in 1..h : q[k] = l}) > 0 <=> \E k \in 1..h : q[k] = l
  <2> DEFINE S == {k \in 1..h : q[k] = l}
  <2>1. IsFiniteSet(1..h)
    BY <1>1, FS_Interval
  <2>2. IsFiniteSet(S)
    BY <2>1, FS_Subset
  <2>3. Cardinality(S) \in Nat /\ (Cardinality(S) = 0 <=> S = {})
    BY <2>2, FS_CardinalityType, FS_EmptySet
  <2>4. S = {} <=> ~\E k \in 1..h : q[k] = l
    OBVIOUS
  <2> HIDE DEF S
  <2>5. Cardinality(S) > 0 <=> \E k \in 1..h : q[k] = l
    BY <2>3, <2>4
  <2> QED
    BY <2>3, <2>5 DEF S
<1>6. delivered' \in [Logs -> Nat]
  <2>1. ASSUME NEW l \in Logs
        PROVE  delivered[l] + Cardinality({k \in 1..h : q[k] = l}) \in Nat
    BY <1>5
  <2> QED
    BY <1>2, <2>1
<1>7. ASSUME NEW l \in Logs
      PROVE  (delivered'[l] > 0 \/ Holds(queue', l)) <=> (delivered[l] > 0 \/ Holds(q, l))
  <2>1. delivered'[l] > 0 <=> delivered[l] > 0 \/ \E k \in 1..h : q[k] = l
    <3> DEFINE n == Cardinality({k \in 1..h : q[k] = l})
    <3>1. n \in Nat /\ (n > 0 <=> \E k \in 1..h : q[k] = l)
      BY <1>5
    <3>2. delivered'[l] = delivered[l] + n /\ delivered[l] \in Nat
      BY <1>2
    <3> HIDE DEF n
    <3> QED
      BY <3>1, <3>2
  <2>2. Holds(queue', l) <=> \E k \in h + 1..Len(q) : q[k] = l
    <3>1. ASSUME NEW k \in h + 1..Len(q), q[k] = l
          PROVE  Holds(queue', l)
      <4>1. k - h \in 1..Len(queue') /\ h + (k - h) = k
        BY <1>1, <1>3
      <4>2. queue'[k - h] = l
        BY <1>1, <1>3, <3>1, <4>1
      <4> QED
        BY <4>1, <4>2 DEF Holds
    <3>2. ASSUME NEW k \in 1..Len(queue'), queue'[k] = l
          PROVE  \E j \in h + 1..Len(q) : q[j] = l
      <4>1. h \in Nat /\ Len(q) \in Nat /\ h <= Len(q)
        BY <1>1
      <4>2. k \in 1..Len(q) - h /\ q[h + k] = l
        BY <1>3, <3>2
      <4>3. h + k \in h + 1..Len(q)
        BY <4>1, <4>2
      <4> QED
        BY <4>2, <4>3
    <3> QED
      BY <3>1, <3>2 DEF Holds
  <2>3. Holds(q, l) <=> \/ \E k \in 1..h : q[k] = l
                        \/ \E k \in h + 1..Len(q) : q[k] = l
    BY <1>1 DEF Holds
  <2> QED
    BY <2>1, <2>2, <2>3
<1> QED
  BY <1>3, <1>4, <1>6, <1>7

----------------------------------------------------------------------------
(***************************************************************************)
(* The inductive invariant.  The cursor only moves past a range that was   *)
(* dealt with because the same holds of every range a poll works on, and   *)
(* ranges start past the first cursor because the cursor never falls below *)
(* it, even when a slow poll sets it back.                                 *)
(***************************************************************************)
Ranged(p) == polls[p].phase \in {"logs", "receipts"}

RangeOK(p) ==
  Ranged(p) =>
    /\ began # Unset /\ polls[p].from > began
    /\ polls[p].to \in Blocks /\ polls[p].to >= polls[p].from
    /\ polls[p].left \subseteq LogsBetween(polls[p].from, polls[p].to)
    /\ Through(polls[p].from - 1)
    /\ polls[p].phase = "receipts" =>
         \A l \in LogsBetween(polls[p].from, polls[p].to) \ polls[p].left : DealtWith(l)

CursorOK ==
  /\ cursor = Unset <=> began = Unset
  /\ cursor # Unset => cursor >= began /\ Through(cursor)

Watched ==
  /\ TypeOK /\ CursorOK /\ NothingFromThePast
  /\ \A p \in Polls : RangeOK(p)

\* The queue's side: a call and a transfer wait beside each other only while a
\* pump is due, nobody waits after the end, and what was queued is kept.
Queued ==
  /\ NoCallStranded /\ NoneWaitsWhenDone
  /\ \A l \in Logs : l \in pushed <=> (delivered[l] > 0 \/ Holds(queue, l))

IInv == Watched /\ Queued

LEMMA UnsetIsNoBlock == Unset \notin Blocks /\ Blocks \subseteq Nat /\ Logs \subseteq Nat
BY ChainAssumption DEF Blocks, Logs

\* What was dealt with stays dealt with, and so does a range.
Grows == began' = began /\ pushed \subseteq pushed' /\ skipped \subseteq skipped'

LEMMA DealtWithStays ==
  ASSUME Grows
  PROVE  /\ \A l : DealtWith(l) => DealtWith(l)'
         /\ \A b : Through(b) => /\ began' # Unset
                                 /\ \A l \in Logs : BlockOf[l] \in began' + 1..b => DealtWith(l)'
BY DEF Grows, DealtWith, Through

LEMMA RangeStays ==
  ASSUME Grows, NEW p \in Polls, polls'[p] = polls[p], RangeOK(p)
  PROVE  RangeOK(p)'
BY DealtWithStays DEF RangeOK, Ranged, Grows, Through, LogsBetween

LEMMA CursorStays ==
  ASSUME Grows, cursor' = cursor, CursorOK
  PROVE  CursorOK'
BY DealtWithStays DEF CursorOK, Grows, Through

\* A poll that is through with its range moves the cursor past it.
LEMMA CursorMoves ==
  ASSUME Watched, Grows, NEW p \in Polls, Ranged(p), cursor' = polls[p].to,
         \A l \in LogsBetween(polls[p].from, polls[p].to) : DealtWith(l)'
  PROVE  CursorOK' /\ cursor' \in Blocks
<1>1. /\ began # Unset /\ polls[p].from > began /\ polls[p].from \in Nat
      /\ polls[p].to \in Blocks /\ polls[p].to >= polls[p].from
      /\ Through(polls[p].from - 1) /\ began \in Nat /\ polls[p].to \in Nat
  BY UnsetIsNoBlock DEF Watched, RangeOK, TypeOK, Poll
<1>2. cursor' # Unset /\ cursor' >= began' /\ began' # Unset /\ began' = began
  BY <1>1, UnsetIsNoBlock DEF Grows
<1>3. ASSUME NEW l \in Logs, BlockOf[l] \in began + 1..polls[p].to
      PROVE  DealtWith(l)'
  <2>1. BlockOf[l] \in Nat
    BY <1>1, <1>3
  <2>2. CASE BlockOf[l] <= polls[p].from - 1
    BY <1>1, <1>3, <2>1, <2>2, DealtWithStays DEF Grows
  <2>3. CASE BlockOf[l] \in polls[p].from..polls[p].to
    BY <2>3 DEF LogsBetween
  <2> QED
    BY <1>1, <1>3, <2>1, <2>2, <2>3
<1>4. Through(cursor)'
  BY <1>2, <1>3 DEF Through
<1> QED
  BY <1>1, <1>2, <1>4 DEF CursorOK

----------------------------------------------------------------------------
\* The watcher's side of the invariant, one action at a time.
LEMMA InitWatched == Init => Watched
<1> SUFFICES ASSUME Init PROVE Watched
  OBVIOUS
<1>1. PICK first \in Polls :
        polls = [p \in Polls |-> IF p = first THEN [Idle EXCEPT !.phase = "head"] ELSE Idle]
  BY DEF Init
<1>2. /\ Idle \in Poll /\ [Idle EXCEPT !.phase = "head"] \in Poll
      /\ Idle.phase = "idle" /\ [Idle EXCEPT !.phase = "head"].phase = "head"
  BY DEF Idle, Poll
<1> HIDE DEF Idle
<1>3. TypeOK
  <2>1. polls \in [Polls -> Poll]
    BY <1>1, <1>2
  <2>2. queue \in Seq(Logs) /\ delivered \in [Logs -> Nat]
    BY DEF Init
  <2>3. 0 \in Blocks /\ 0 \in 0..MaxWaiters /\ 0 \in 0..MaxFailures
    BY ChainAssumption DEF Blocks
  <2> QED
    BY <2>1, <2>2, <2>3 DEF Init, TypeOK
<1>4. \A p \in Polls : RangeOK(p)
  BY <1>1, <1>2 DEF RangeOK, Ranged
<1>5. CursorOK /\ NothingFromThePast
  BY DEF Init, CursorOK, NothingFromThePast
<1> QED
  BY <1>3, <1>4, <1>5 DEF Watched

LEMMA StartPollWatched ==
  ASSUME Watched, NEW p \in Polls, StartPoll(p)
  PROVE  Watched'
<1>1. Grows /\ pushed' = pushed /\ cursor' = cursor
  BY DEF StartPoll, history, Grows
<1>2. /\ polls' \in [Polls -> Poll] /\ polls'[p].phase = "head"
      /\ \A r \in Polls : r # p => polls'[r] = polls[r]
  <2>1. polls \in [Polls -> Poll]
    BY DEF Watched, TypeOK
  <2>2. [polls[p] EXCEPT !.phase = "head"] \in Poll
    BY <2>1 DEF Poll
  <2>3. [polls[p] EXCEPT !.phase = "head"].phase = "head"
    BY <2>1 DEF Poll
  <2>4. polls' = [polls EXCEPT ![p] = [polls[p] EXCEPT !.phase = "head"]]
    BY DEF StartPoll
  <2> QED
    BY <2>1, <2>2, <2>3, <2>4
<1>3. TypeOK'
  BY <1>2 DEF Watched, TypeOK, StartPoll, history
<1>4. ASSUME NEW r \in Polls
      PROVE  RangeOK(r)'
  <2>1. CASE r = p
    BY <1>2, <2>1 DEF RangeOK, Ranged
  <2>2. CASE r # p
    BY <1>1, <1>2, <2>2, RangeStays DEF Watched
  <2> QED
    BY <2>1, <2>2
<1>5. CursorOK' /\ NothingFromThePast'
  BY <1>1, CursorStays DEF Watched, NothingFromThePast, Grows
<1> QED
  BY <1>3, <1>4, <1>5 DEF Watched

LEMMA HeadArrivesWatched ==
  ASSUME Watched, NEW p \in Polls, NEW head \in Blocks, HeadArrives(p, head)
  PROVE  Watched'
<1> DEFINE from == IF cursor # Unset THEN cursor
                   ELSE IF FromBlock = Unset THEN head ELSE FromBlock
           next == [phase |-> "logs", from |-> from + 1, to |-> head, left |-> {}]
<1>1. /\ polls[p].phase = "head" /\ cursor' = from
      /\ began' = IF cursor = Unset THEN from ELSE began
      /\ polls' = [polls EXCEPT ![p] = IF head <= from THEN Idle ELSE next]
      /\ pushed' = pushed /\ skipped' = skipped
  BY DEF HeadArrives
<1>2. /\ TypeOK /\ CursorOK /\ NothingFromThePast /\ polls \in [Polls -> Poll]
      /\ \A r \in Polls : RangeOK(r)
  BY DEF Watched, TypeOK
<1>3. from \in Blocks /\ from # Unset /\ from \in Nat /\ head \in Nat
  BY <1>2, UnsetIsNoBlock, ChainAssumption DEF TypeOK
<1>4. /\ began' \in Blocks /\ began' # Unset /\ began' \in Nat /\ from >= began'
      /\ began # Unset => began' = began
      /\ \A l \in Logs : BlockOf[l] \in began' + 1..from => DealtWith(l)
  <2>1. CASE cursor = Unset
    BY <1>1, <1>2, <1>3, <2>1 DEF CursorOK
  <2>2. CASE cursor # Unset
    BY <1>1, <1>2, <1>3, <2>2, UnsetIsNoBlock DEF CursorOK, Through, TypeOK
  <2> QED
    BY <2>1, <2>2
<1> HIDE DEF from
<1>5. Idle \in Poll /\ Idle.phase = "idle"
  BY DEF Idle, Poll
<1>6. /\ next \in Poll /\ next.phase = "logs" /\ next.from = from + 1 /\ next.to = head
      /\ next.left = {}
  BY <1>3 DEF Poll
<1> HIDE DEF next
<1>7. /\ polls' \in [Polls -> Poll]
      /\ polls'[p] = IF head <= from THEN Idle ELSE next
      /\ \A r \in Polls : r # p => polls'[r] = polls[r]
  BY <1>1, <1>2, <1>5, <1>6
<1>8. TypeOK'
  BY <1>1, <1>2, <1>3, <1>4, <1>7 DEF TypeOK, HeadArrives
<1>9. CursorOK'
  <2>1. Through(cursor)'
    BY <1>1, <1>4 DEF Through, DealtWith
  <2> QED
    BY <1>1, <1>3, <1>4, <2>1 DEF CursorOK
<1>10. NothingFromThePast'
  BY <1>1, <1>2, <1>4 DEF NothingFromThePast
<1>11. ASSUME NEW r \in Polls
       PROVE  RangeOK(r)'
  <2>1. CASE r # p
    <3>1. CASE began # Unset
      <4>1. Grows
        BY <1>1, <1>4, <3>1 DEF Grows
      <4> QED
        BY <1>2, <1>7, <2>1, <4>1, RangeStays
    <3>2. CASE began = Unset
      BY <1>2, <1>7, <2>1, <3>2 DEF RangeOK, Ranged
    <3> QED
      BY <3>1, <3>2
  <2>2. CASE r = p /\ head <= from
    BY <1>5, <1>7, <2>2 DEF RangeOK, Ranged
  <2>3. CASE r = p /\ ~(head <= from)
    <3>1. polls'[r] = next
      BY <1>7, <2>3
    <3>2. from + 1 > began' /\ head >= from + 1 /\ from + 1 - 1 = from
      BY <1>3, <1>4, <2>3
    <3>3. \A l \in Logs : BlockOf[l] \in began' + 1..polls'[r].from - 1 => DealtWith(l)'
      BY <1>1, <1>4, <1>6, <3>1, <3>2 DEF DealtWith
    <3> QED
      BY <1>4, <1>6, <3>1, <3>2, <3>3 DEF RangeOK, Ranged, Through
  <2> QED
    BY <2>1, <2>2, <2>3
<1> QED
  BY <1>8, <1>9, <1>10, <1>11 DEF Watched

\* A poll that ends keeps the invariant if the cursor it leaves does.
LEMMA EndedWatched ==
  ASSUME Watched, Grows, NEW p \in Polls, polls' = [polls EXCEPT ![p] = Idle],
         TypeOK', CursorOK', NothingFromThePast'
  PROVE  Watched'
<1>1. polls \in [Polls -> Poll] /\ Idle.phase = "idle"
  BY DEF Watched, TypeOK, Idle
<1> HIDE DEF Idle
<1>2. polls'[p] = Idle /\ \A r \in Polls : r # p => polls'[r] = polls[r]
  BY <1>1
<1>3. ASSUME NEW r \in Polls
      PROVE  RangeOK(r)'
  <2>1. CASE r = p
    BY <1>1, <1>2, <2>1 DEF RangeOK, Ranged
  <2>2. CASE r # p
    BY <1>2, <2>2, RangeStays DEF Watched
  <2> QED
    BY <2>1, <2>2
<1> QED
  BY <1>3 DEF Watched

LEMMA IdleTyped ==
  ASSUME polls \in [Polls -> Poll], NEW p \in Polls, polls' = [polls EXCEPT ![p] = Idle]
  PROVE  polls' \in [Polls -> Poll]
<1>1. Idle \in Poll
  BY DEF Idle, Poll
<1> QED
  BY <1>1

LEMMA LogsArriveWatched ==
  ASSUME Watched, NEW p \in Polls, LogsArrive(p)
  PROVE  Watched'
<1> DEFINE found == LogsBetween(polls[p].from, polls[p].to)
<1>1. /\ TypeOK /\ CursorOK /\ NothingFromThePast /\ polls \in [Polls -> Poll]
      /\ \A r \in Polls : RangeOK(r)
      /\ Ranged(p) /\ polls[p].phase = "logs"
  BY DEF Watched, TypeOK, LogsArrive, Ranged
<1>2. Grows /\ pushed' = pushed /\ skipped' = skipped
  BY DEF LogsArrive, Grows
<1>3. NothingFromThePast'
  BY <1>1, <1>2 DEF NothingFromThePast, Grows
<1>4. CASE found = {} /\ Finish(p, queue)
  <2>1. /\ cursor' = polls[p].to /\ Pump(queue) /\ behind' = FALSE
        /\ polls' = [polls EXCEPT ![p] = Idle]
    BY <1>4 DEF Finish
  <2>2. CursorOK' /\ cursor' \in Blocks
    BY <1>1, <1>2, <1>4, <2>1, CursorMoves
  <2>3. /\ queue' \in Seq(Logs) /\ waiters' \in 0..waiters
        /\ delivered' \in [Logs -> Nat]
    BY <1>1, <2>1, Pumped DEF TypeOK
  <2>4. waiters' \in 0..MaxWaiters
    BY <1>1, <2>3, ChainAssumption DEF TypeOK
  <2>5. polls' \in [Polls -> Poll]
    BY <1>1, <2>1, IdleTyped
  <2>6. TypeOK'
    BY <1>1, <2>1, <2>2, <2>3, <2>4, <2>5 DEF TypeOK, LogsArrive
  <2> QED
    BY <1>2, <1>3, <2>1, <2>2, <2>6, EndedWatched
<1>5. CASE /\ found # {}
           /\ polls' = [polls EXCEPT ![p].phase = "receipts", ![p].left = found]
           /\ UNCHANGED <<cursor, queue, waiters, delivered, behind>>
  <2> DEFINE next == [polls[p] EXCEPT !.phase = "receipts", !.left = found]
  <2>1. polls' = [polls EXCEPT ![p] = next]
    BY <1>1, <1>5
  <2>2. polls[p] \in Poll /\ found \subseteq Logs
    BY <1>1 DEF LogsBetween
  <2> HIDE DEF found
  <2>3. next \in Poll
    BY <2>2 DEF Poll
  <2>4. next.phase = "receipts"
    BY <2>2 DEF Poll
  <2>5. next.left = found
    BY <2>2 DEF Poll
  <2>6. next.from = polls[p].from
    BY <2>2 DEF Poll
  <2>7. next.to = polls[p].to
    BY <2>2 DEF Poll
  <2> HIDE DEF next
  <2>8. /\ polls' \in [Polls -> Poll] /\ polls'[p] = next
        /\ \A r \in Polls : r # p => polls'[r] = polls[r]
    BY <1>1, <2>1, <2>3
  <2>9. TypeOK'
    BY <1>1, <1>5, <2>8 DEF TypeOK, LogsArrive
  <2>10. CursorOK'
    BY <1>1, <1>2, <1>5, CursorStays
  <2>11. ASSUME NEW r \in Polls
         PROVE  RangeOK(r)'
    <3>1. CASE r # p
      BY <1>1, <1>2, <2>8, <3>1, RangeStays
    <3>2. CASE r = p
      <4>1. /\ began # Unset /\ polls[p].from > began
            /\ polls[p].to \in Blocks /\ polls[p].to >= polls[p].from
            /\ Through(polls[p].from - 1)
        BY <1>1 DEF RangeOK
      <4>2. Through(polls[p].from - 1)'
        <5>1. polls'[p].from = polls[p].from /\ began' = began
          BY <1>2, <2>6, <2>8 DEF Grows
        <5> QED
          BY <1>2, <4>1, <5>1, DealtWithStays DEF Through
      <4>3. LogsBetween(polls'[p].from, polls'[p].to) = found
        BY <2>6, <2>7, <2>8 DEF found
      <4>4. /\ polls'[p].from = polls[p].from /\ polls'[p].to = polls[p].to
            /\ polls'[p].left = found /\ began' = began
        BY <1>2, <2>5, <2>6, <2>7, <2>8 DEF Grows
      <4> QED
        BY <3>2, <4>1, <4>2, <4>3, <4>4 DEF RangeOK, LogsBetween
    <3> QED
      BY <3>1, <3>2
  <2> QED
    BY <1>3, <2>9, <2>10, <2>11 DEF Watched
<1> QED
  BY <1>4, <1>5 DEF LogsArrive

LEMMA ReceiptArrivesWatched ==
  ASSUME Watched, NEW p \in Polls, NEW l \in Logs, NEW read \in BOOLEAN,
         ReceiptArrives(p, l, read)
  PROVE  Watched'
<1> DEFINE q == IF read THEN Append(queue, FirstOf[l]) ELSE queue
           found == LogsBetween(polls[p].from, polls[p].to)
<1>1. /\ TypeOK /\ CursorOK /\ NothingFromThePast /\ polls \in [Polls -> Poll]
      /\ \A r \in Polls : RangeOK(r)
      /\ Ranged(p) /\ polls[p].phase = "receipts" /\ l \in polls[p].left
      /\ pushed' = IF read THEN pushed \union {FirstOf[l]} ELSE pushed
      /\ skipped' = IF read THEN skipped ELSE skipped \union {l}
      /\ began' = began
  BY DEF Watched, TypeOK, ReceiptArrives, Ranged, NextLog
<1>2. Grows /\ DealtWith(l)'
  BY <1>1 DEF Grows, DealtWith
<1>3. /\ began # Unset /\ polls[p].from > began /\ polls[p].from \in Nat
      /\ polls[p].to \in Blocks /\ polls[p].to >= polls[p].from
      /\ polls[p].left \subseteq found /\ Through(polls[p].from - 1)
      /\ \A m \in found \ polls[p].left : DealtWith(m)
      /\ began \in Nat /\ found \subseteq Logs
  BY <1>1, UnsetIsNoBlock DEF RangeOK, TypeOK, Poll, LogsBetween
<1>4. FirstOf[l] \in Logs /\ BlockOf[FirstOf[l]] = BlockOf[l]
  BY ChainAssumption
<1>5. NothingFromThePast'
  <2>1. BlockOf[l] \in polls[p].from..polls[p].to
    BY <1>1, <1>3 DEF LogsBetween
  <2>2. BlockOf[l] > began
    BY <1>3, <2>1
  <2> QED
    BY <1>1, <1>3, <1>4, <2>2 DEF NothingFromThePast
<1>6. pushed' \subseteq Logs /\ skipped' \subseteq Logs
  BY <1>1, <1>4 DEF TypeOK
<1>7. q \in Seq(Logs)
  BY <1>1, <1>4 DEF TypeOK
<1> HIDE DEF q
<1>8. CASE polls[p].left = {l} /\ Finish(p, q)
  <2>1. /\ cursor' = polls[p].to /\ Pump(q) /\ behind' = FALSE
        /\ polls' = [polls EXCEPT ![p] = Idle]
    BY <1>8 DEF Finish
  <2>2. \A m \in found : DealtWith(m)'
    BY <1>2, <1>3, <1>8, DealtWithStays
  <2>3. CursorOK' /\ cursor' \in Blocks
    BY <1>1, <1>2, <2>1, <2>2, CursorMoves
  <2>4. /\ queue' \in Seq(Logs) /\ waiters' \in 0..waiters
        /\ delivered' \in [Logs -> Nat]
    BY <1>1, <1>7, <2>1, Pumped DEF TypeOK
  <2>5. waiters' \in 0..MaxWaiters
    BY <1>1, <2>4, ChainAssumption DEF TypeOK
  <2>6. polls' \in [Polls -> Poll]
    BY <1>1, <2>1, IdleTyped
  <2>7. TypeOK'
    BY <1>1, <1>6, <2>1, <2>3, <2>4, <2>5, <2>6 DEF TypeOK, ReceiptArrives
  <2> QED
    BY <1>2, <1>5, <2>1, <2>3, <2>7, EndedWatched
<1>9. CASE /\ polls[p].left # {l} /\ queue' = q
           /\ polls' = [polls EXCEPT ![p].left = @ \ {l}]
           /\ UNCHANGED <<cursor, waiters, delivered, behind>>
  <2> DEFINE rest == polls[p].left \ {l}
             next == [polls[p] EXCEPT !.left = rest]
  <2>1. polls' = [polls EXCEPT ![p] = next]
    BY <1>1, <1>9
  <2>2. polls[p] \in Poll /\ rest \subseteq Logs
    BY <1>1, <1>3
  <2> HIDE DEF rest
  <2>3. /\ next \in Poll /\ next.phase = polls[p].phase /\ next.left = rest
        /\ next.from = polls[p].from /\ next.to = polls[p].to
    BY <2>2 DEF Poll
  <2> HIDE DEF next
  <2>4. /\ polls' \in [Polls -> Poll] /\ polls'[p] = next
        /\ \A r \in Polls : r # p => polls'[r] = polls[r]
    BY <1>1, <2>1, <2>3
  <2>5. TypeOK'
    BY <1>1, <1>6, <1>7, <1>9, <2>4 DEF TypeOK, ReceiptArrives
  <2>6. CursorOK'
    BY <1>1, <1>2, <1>9, CursorStays
  <2>7. ASSUME NEW r \in Polls
        PROVE  RangeOK(r)'
    <3>1. CASE r # p
      BY <1>1, <1>2, <2>4, <3>1, RangeStays
    <3>2. CASE r = p
      <4>1. /\ polls'[p].from = polls[p].from /\ polls'[p].to = polls[p].to
            /\ polls'[p].left = rest /\ began' = began
        BY <1>1, <2>3, <2>4
      <4>2. Through(polls[p].from - 1)'
        BY <1>2, <1>3, <4>1, DealtWithStays DEF Through
      <4>3. LogsBetween(polls'[p].from, polls'[p].to) = found
        BY <4>1
      <4>4. \A m \in found \ rest : DealtWith(m)'
        BY <1>2, <1>3, DealtWithStays DEF rest
      <4>5. rest \subseteq found
        BY <1>3 DEF rest
      <4> HIDE DEF found
      <4> QED
        BY <1>3, <3>2, <4>1, <4>2, <4>3, <4>4, <4>5 DEF RangeOK
    <3> QED
      BY <3>1, <3>2
  <2> QED
    BY <1>5, <2>5, <2>6, <2>7 DEF Watched
<1> QED
  BY <1>8, <1>9 DEF ReceiptArrives, q

LEMMA PollFailsWatched ==
  ASSUME Watched, NEW p \in Polls, PollFails(p)
  PROVE  Watched'
<1>1. /\ TypeOK /\ CursorOK /\ NothingFromThePast /\ polls \in [Polls -> Poll]
  BY DEF Watched, TypeOK
<1>2. /\ Grows /\ cursor' = cursor /\ pushed' = pushed
      /\ polls' = [polls EXCEPT ![p] = Idle]
  BY DEF PollFails, Grows
<1>3. failures' \in 0..MaxFailures /\ behind' \in BOOLEAN
  BY <1>1, ChainAssumption DEF PollFails, TypeOK
<1>4. polls' \in [Polls -> Poll]
  BY <1>1, <1>2, IdleTyped
<1>5. TypeOK'
  BY <1>1, <1>3, <1>4 DEF TypeOK, PollFails
<1>6. CursorOK' /\ NothingFromThePast'
  BY <1>1, <1>2, CursorStays DEF NothingFromThePast, Grows
<1> QED
  BY <1>2, <1>5, <1>6, EndedWatched

LEMMA CallsWatched ==
  ASSUME Watched, NextCall \/ Unsubscribe \/ Mine \/ UNCHANGED vars
  PROVE  Watched'
<1>1. TypeOK /\ CursorOK /\ NothingFromThePast /\ \A p \in Polls : RangeOK(p)
  BY DEF Watched
<1>2. Grows /\ cursor' = cursor /\ pushed' = pushed /\ polls' = polls
  BY DEF NextCall, Unsubscribe, Mine, vars, watcher, history, Grows
<1>3. TypeOK'
  <2>1. CASE NextCall
    <3>1. CASE queue # <<>> /\ queue' = Tail(queue) /\ waiters' = waiters
               /\ delivered' = [delivered EXCEPT ![Head(queue)] = @ + 1]
      <4>1. queue' \in Seq(Logs) /\ Head(queue) \in Logs
        BY <1>1, <3>1, HeadTailProperties DEF TypeOK
      <4>2. delivered' \in [Logs -> Nat]
        BY <1>1, <3>1, <4>1 DEF TypeOK
      <4> QED
        BY <1>1, <2>1, <3>1, <4>1, <4>2 DEF TypeOK, NextCall
    <3>2. CASE queue = <<>> /\ waiters' = waiters + 1 /\ UNCHANGED <<queue, delivered>>
      BY <1>1, <2>1, <3>2, ChainAssumption DEF TypeOK, NextCall
    <3> QED
      BY <2>1, <3>1, <3>2 DEF NextCall
  <2>2. CASE Unsubscribe
    BY <1>1, <2>2, ChainAssumption DEF TypeOK, Unsubscribe, history
  <2>3. CASE Mine
    BY <1>1, <2>3, ChainAssumption DEF TypeOK, Mine, watcher, history, Blocks
  <2>4. CASE UNCHANGED vars
    BY <1>1, <2>4 DEF TypeOK, vars, watcher, history
  <2> QED
    BY <2>1, <2>2, <2>3, <2>4
<1>4. CursorOK' /\ NothingFromThePast'
  BY <1>1, <1>2, CursorStays DEF NothingFromThePast, Grows
<1>5. \A p \in Polls : RangeOK(p)'
  BY <1>1, <1>2, RangeStays
<1> QED
  BY <1>3, <1>4, <1>5 DEF Watched

LEMMA StepWatched == Watched /\ [Next]_vars => Watched'
<1> SUFFICES ASSUME Watched, [Next]_vars
             PROVE  Watched'
  OBVIOUS
<1>1. ASSUME NEW p \in Polls,
             \/ StartPoll(p)
             \/ \E head \in Blocks : HeadArrives(p, head)
             \/ LogsArrive(p)
             \/ \E l \in Logs, read \in BOOLEAN : ReceiptArrives(p, l, read)
             \/ PollFails(p)
      PROVE  Watched'
  BY <1>1, StartPollWatched, HeadArrivesWatched, LogsArriveWatched, ReceiptArrivesWatched,
     PollFailsWatched
<1>2. CASE NextCall \/ Unsubscribe \/ Mine \/ UNCHANGED vars
  BY <1>2, CallsWatched
<1> QED
  BY <1>1, <1>2 DEF Next

----------------------------------------------------------------------------
\* The queue's side.
LEMMA HoldsAppend ==
  ASSUME NEW q \in Seq(Logs), NEW x \in Logs, NEW l
  PROVE  Holds(Append(q, x), l) <=> Holds(q, l) \/ l = x
<1>1. /\ Len(Append(q, x)) = Len(q) + 1 /\ Len(q) \in Nat
      /\ \A k \in 1..Len(q) : Append(q, x)[k] = q[k]
      /\ Append(q, x)[Len(q) + 1] = x
  OBVIOUS
<1>2. \A k \in 1..Len(q) + 1 : k \in 1..Len(q) \/ k = Len(q) + 1
  BY <1>1
<1>3. 1..Len(q) \subseteq 1..Len(q) + 1 /\ Len(q) + 1 \in 1..Len(q) + 1
  BY <1>1
<1> QED
  BY <1>1, <1>2, <1>3 DEF Holds

LEMMA HoldsTail ==
  ASSUME NEW q \in Seq(Logs), q # <<>>, NEW l
  PROVE  Holds(q, l) <=> Holds(Tail(q), l) \/ l = Head(q)
<1>1. /\ Len(Tail(q)) = Len(q) - 1 /\ Len(q) \in Nat \ {0} /\ Head(q) = q[1]
      /\ \A k \in 1..Len(Tail(q)) : Tail(q)[k] = q[k + 1]
  BY HeadTailProperties
<1>2. ASSUME Holds(q, l), l # Head(q)
      PROVE  Holds(Tail(q), l)
  <2>1. PICK k \in 1..Len(q) : q[k] = l
    BY <1>2 DEF Holds
  <2>2. k - 1 \in 1..Len(Tail(q)) /\ k - 1 + 1 = k
    BY <1>1, <1>2, <2>1
  <2>3. Tail(q)[k - 1] = l
    BY <1>1, <2>1, <2>2
  <2> QED
    BY <2>2, <2>3 DEF Holds
<1>3. ASSUME Holds(Tail(q), l)
      PROVE  Holds(q, l)
  <2>1. PICK k \in 1..Len(Tail(q)) : Tail(q)[k] = l
    BY <1>3 DEF Holds
  <2>2. k + 1 \in 1..Len(q) /\ q[k + 1] = l
    BY <1>1, <2>1
  <2> QED
    BY <2>2 DEF Holds
<1>4. Holds(q, Head(q))
  <2>1. 1 \in 1..Len(q) /\ q[1] = Head(q)
    BY <1>1
  <2> QED
    BY <2>1 DEF Holds
<1> QED
  BY <1>2, <1>3, <1>4

LEMMA PumpQueued ==
  ASSUME TypeOK, Queued, NEW q \in Seq(Logs), Pump(q), done' = done,
         \A l \in Logs : l \in pushed' <=> (delivered[l] > 0 \/ Holds(q, l))
  PROVE  Queued'
<1>1. /\ waiters' \in 0..waiters /\ waiters \in Nat
      /\ waiters' = 0 \/ queue' = <<>>
      /\ \A l \in Logs : (delivered'[l] > 0 \/ Holds(queue', l))
                           <=> (delivered[l] > 0 \/ Holds(q, l))
  BY Pumped DEF TypeOK
<1>2. NoCallStranded'
  BY <1>1 DEF NoCallStranded
<1>3. NoneWaitsWhenDone'
  BY <1>1 DEF NoneWaitsWhenDone, Queued
<1>4. \A l \in Logs : l \in pushed' <=> (delivered'[l] > 0 \/ Holds(queue', l))
  BY <1>1
<1> QED
  BY <1>2, <1>3, <1>4 DEF Queued

LEMMA InitQueued == Init => Queued
<1> SUFFICES ASSUME Init PROVE Queued
  OBVIOUS
<1>1. waiters = 0 /\ pushed = {} /\ queue = <<>> /\ \A l \in Logs : delivered[l] = 0
  BY DEF Init
<1>2. \A l \in Logs : ~Holds(queue, l)
  BY <1>1 DEF Holds
<1> QED
  BY <1>1, <1>2 DEF Queued, NoCallStranded, NoneWaitsWhenDone

LEMMA ReceiptArrivesQueued ==
  ASSUME TypeOK, Queued, NEW p \in Polls, NEW l \in Logs, NEW read \in BOOLEAN,
         ReceiptArrives(p, l, read)
  PROVE  Queued'
<1> DEFINE q == IF read THEN Append(queue, FirstOf[l]) ELSE queue
<1>1. FirstOf[l] \in Logs /\ queue \in Seq(Logs) /\ polls \in [Polls -> Poll]
  BY ChainAssumption DEF TypeOK
<1>2. q \in Seq(Logs)
  BY <1>1
<1>3. \A m \in Logs : m \in pushed' <=> (delivered[m] > 0 \/ Holds(q, m))
  <2>1. CASE read = TRUE
    <3>1. q = Append(queue, FirstOf[l]) /\ pushed' = pushed \union {FirstOf[l]}
      BY <2>1 DEF ReceiptArrives
    <3>2. \A m \in Logs : Holds(q, m) <=> Holds(queue, m) \/ m = FirstOf[l]
      BY <1>1, <3>1, HoldsAppend
    <3> HIDE DEF q
    <3> QED
      BY <3>1, <3>2 DEF Queued
  <2>2. CASE read = FALSE
    BY <2>2 DEF ReceiptArrives, Queued
  <2> QED
    BY <2>1, <2>2
<1> HIDE DEF q
<1>4. done' = done /\ polls[p].phase = "receipts"
  BY DEF ReceiptArrives
<1>5. CASE Pump(q)
  BY <1>2, <1>3, <1>4, <1>5, PumpQueued
<1>6. CASE /\ queue' = q /\ polls' = [polls EXCEPT ![p].left = @ \ {l}]
           /\ UNCHANGED <<waiters, delivered>>
  <2>1. polls'[p].phase = "receipts"
    <3>1. polls'[p] = [polls[p] EXCEPT !.left = @ \ {l}] /\ polls[p] \in Poll
      BY <1>1, <1>6
    <3>2. [polls[p] EXCEPT !.left = @ \ {l}].phase = polls[p].phase
      BY <3>1 DEF Poll
    <3> QED
      BY <1>4, <3>1, <3>2
  <2>2. NoCallStranded'
    BY <2>1 DEF NoCallStranded
  <2>3. NoneWaitsWhenDone'
    BY <1>4, <1>6 DEF Queued, NoneWaitsWhenDone
  <2> QED
    BY <1>3, <1>6, <2>2, <2>3 DEF Queued
<1> QED
  BY <1>5, <1>6 DEF ReceiptArrives, Finish, q

\* The steps of a poll that leave the queue and the waiting calls alone.
LEMMA KeptQueued ==
  ASSUME Queued, UNCHANGED <<queue, waiters, done, delivered, pushed>>,
         behind => behind',
         \A r \in Polls : polls[r].phase = "receipts" => polls'[r].phase = "receipts"
  PROVE  Queued'
<1>1. NoCallStranded'
  BY DEF Queued, NoCallStranded
<1>2. NoneWaitsWhenDone'
  BY DEF Queued, NoneWaitsWhenDone
<1>3. \A l \in Logs : l \in pushed' <=> (delivered'[l] > 0 \/ Holds(queue', l))
  BY DEF Queued
<1> QED
  BY <1>1, <1>2, <1>3 DEF Queued

LEMMA PollQueued ==
  ASSUME TypeOK, Queued, NEW p \in Polls,
         \/ StartPoll(p)
         \/ \E head \in Blocks : HeadArrives(p, head)
         \/ LogsArrive(p)
         \/ PollFails(p)
  PROVE  Queued'
<1>1. polls \in [Polls -> Poll] /\ queue \in Seq(Logs)
  BY DEF TypeOK
<1>2. CASE StartPoll(p)
  <2>1. /\ UNCHANGED <<queue, waiters, done, delivered, pushed, behind>>
        /\ polls' = [polls EXCEPT ![p].phase = "head"] /\ polls[p].phase = "idle"
    BY <1>2 DEF StartPoll, history, InFlight
  <2>2. \A r \in Polls : polls[r].phase = "receipts" => polls'[r].phase = "receipts"
    BY <1>1, <2>1
  <2> QED
    BY <2>1, <2>2, KeptQueued
<1>3. ASSUME NEW head \in Blocks, HeadArrives(p, head)
      PROVE  Queued'
  <2>1. /\ UNCHANGED <<queue, waiters, done, delivered, pushed, behind>>
        /\ polls[p].phase = "head"
        /\ \A r \in Polls : r # p => polls'[r] = polls[r]
    BY <1>1, <1>3 DEF HeadArrives
  <2>2. \A r \in Polls : polls[r].phase = "receipts" => polls'[r].phase = "receipts"
    BY <2>1
  <2> QED
    BY <2>1, <2>2, KeptQueued
<1>4. CASE LogsArrive(p)
  <2>1. done' = done /\ pushed' = pushed /\ polls[p].phase = "logs"
    BY <1>4 DEF LogsArrive
  <2>2. CASE Pump(queue)
    <3>1. \A l \in Logs : l \in pushed' <=> (delivered[l] > 0 \/ Holds(queue, l))
      BY <2>1 DEF Queued
    <3> QED
      BY <1>1, <2>1, <2>2, <3>1, PumpQueued
  <2>3. CASE UNCHANGED <<cursor, queue, waiters, delivered, behind>>
             /\ \A r \in Polls : r # p => polls'[r] = polls[r]
    BY <2>1, <2>3, KeptQueued
  <2> QED
    BY <1>1, <1>4, <2>2, <2>3 DEF LogsArrive, Finish
<1>5. CASE PollFails(p)
  <2>1. /\ UNCHANGED <<queue, waiters, done, delivered, pushed>>
        /\ behind' = (behind \/ queue # <<>>)
    BY <1>5 DEF PollFails
  <2>2. NoCallStranded'
    BY <2>1 DEF NoCallStranded
  <2>3. NoneWaitsWhenDone'
    BY <2>1 DEF Queued, NoneWaitsWhenDone
  <2> QED
    BY <2>1, <2>2, <2>3 DEF Queued
<1> QED
  BY <1>2, <1>3, <1>4, <1>5

LEMMA CallsQueued ==
  ASSUME TypeOK, Queued, NextCall \/ Unsubscribe \/ Mine \/ UNCHANGED vars
  PROVE  Queued'
<1>1. CASE NextCall
  <2>1. CASE queue # <<>> /\ queue' = Tail(queue) /\ waiters' = waiters
             /\ delivered' = [delivered EXCEPT ![Head(queue)] = @ + 1]
    <3>1. /\ queue \in Seq(Logs) /\ Head(queue) \in Logs
          /\ delivered \in [Logs -> Nat]
          /\ UNCHANGED <<polls, done, pushed, behind>>
      BY <1>1, <2>1, HeadTailProperties DEF TypeOK, NextCall
    <3>2. \A l \in Logs : Holds(queue, l) <=> Holds(queue', l) \/ l = Head(queue)
      BY <2>1, <3>1, HoldsTail
    <3>3. \A l \in Logs : delivered'[l] > 0 <=> delivered[l] > 0 \/ l = Head(queue)
      BY <2>1, <3>1
    <3>4. \A l \in Logs : l \in pushed' <=> (delivered'[l] > 0 \/ Holds(queue', l))
      BY <3>1, <3>2, <3>3 DEF Queued
    <3>5. NoCallStranded'
      BY <2>1, <3>1 DEF Queued, NoCallStranded
    <3>6. NoneWaitsWhenDone'
      BY <2>1, <3>1 DEF Queued, NoneWaitsWhenDone
    <3> QED
      BY <3>4, <3>5, <3>6 DEF Queued
  <2>2. CASE queue = <<>> /\ ~done /\ UNCHANGED <<queue, delivered>>
    BY <1>1, <2>2 DEF Queued, NoCallStranded, NoneWaitsWhenDone, NextCall
  <2> QED
    BY <1>1, <2>1, <2>2 DEF NextCall
<1>2. CASE Unsubscribe
  BY <1>2 DEF Queued, NoCallStranded, NoneWaitsWhenDone, Unsubscribe, history
<1>3. CASE Mine \/ UNCHANGED vars
  BY <1>3, KeptQueued DEF Mine, vars, watcher, history
<1> QED
  BY <1>1, <1>2, <1>3

LEMMA StepQueued == TypeOK /\ Queued /\ [Next]_vars => Queued'
<1> SUFFICES ASSUME TypeOK, Queued, [Next]_vars
             PROVE  Queued'
  OBVIOUS
<1>1. ASSUME NEW p \in Polls,
             \/ StartPoll(p)
             \/ \E head \in Blocks : HeadArrives(p, head)
             \/ LogsArrive(p)
             \/ PollFails(p)
      PROVE  Queued'
  BY <1>1, PollQueued
<1>2. ASSUME NEW p \in Polls, NEW l \in Logs, NEW read \in BOOLEAN,
             ReceiptArrives(p, l, read)
      PROVE  Queued'
  BY <1>2, ReceiptArrivesQueued
<1>3. CASE NextCall \/ Unsubscribe \/ Mine \/ UNCHANGED vars
  BY <1>3, CallsQueued
<1> QED
  BY <1>1, <1>2, <1>3 DEF Next

----------------------------------------------------------------------------
\* The strengthened invariant holds in every state the watcher can reach.
THEOREM Invariance == Spec => []IInv
<1>1. Init => IInv
  BY InitWatched, InitQueued DEF IInv
<1>2. IInv /\ [Next]_vars => IInv'
  BY StepWatched, StepQueued DEF IInv, Watched
<1> QED
  BY <1>1, <1>2, PTL DEF Spec

\* Cursor, polls, queue and histories keep their types.
THEOREM TypeCorrect == Spec => []TypeOK
<1>1. IInv => TypeOK
  BY DEF IInv, Watched
<1> QED
  BY <1>1, Invariance, PTL

\* However polls overlap, overtake each other or fail, no log between the first
\* cursor and the current one is forgotten.
THEOREM NoLogIsForgotten == Spec => []CursorCovers
<1>1. IInv => CursorCovers
  BY DEF IInv, Watched, CursorOK, CursorCovers
<1> QED
  BY <1>1, Invariance, PTL

\* The invariant the run checks under the name Covers: every poll's range is
\* dealt with up to the logs it still lists.
THEOREM EveryRangeCovered == Spec => []Covers
<1>1. IInv => Covers
  <2> SUFFICES ASSUME IInv, NEW p \in Polls
               PROVE  PollCovers(p)
    BY DEF Covers, IInv, Watched, CursorOK, CursorCovers
  <2>1. RangeOK(p)
    BY DEF IInv, Watched
  <2> QED
    BY <2>1 DEF RangeOK, Ranged, PollCovers
<1> QED
  BY <1>1, Invariance, PTL

\* No transfer mined before the subscription's first cursor is reported, even
\* by a poll that a stale head read set back.
THEOREM ThePastStaysOut == Spec => []NothingFromThePast
<1>1. IInv => NothingFromThePast
  BY DEF IInv, Watched
<1> QED
  BY <1>1, Invariance, PTL

\* A consumer waits beside a queued transfer only while a pump is due, or
\* after a poll that failed between pushing and pumping.
THEOREM NobodyIsStranded == Spec => []NoCallStranded
<1>1. IInv => NoCallStranded
  BY DEF IInv, Queued
<1> QED
  BY <1>1, Invariance, PTL

\* After finish() nobody waits, although polls in flight go on to pump.
THEOREM TheEndReachesEveryone == Spec => []NoneWaitsWhenDone
<1>1. IInv => NoneWaitsWhenDone
  BY DEF IInv, Queued
<1> QED
  BY <1>1, Invariance, PTL

\* No transfer that a poll queued is lost before a call takes it.
THEOREM QueueLosesNothing == Spec => []QueuedUntilHanded
<1>1. IInv => QueuedUntilHanded
  <2> SUFFICES ASSUME IInv, NEW l \in Logs
               PROVE  l \in pushed <=> (delivered[l] > 0 \/ \E k \in DOMAIN queue : queue[k] = l)
    BY DEF QueuedUntilHanded
  <2>1. DOMAIN queue = 1..Len(queue)
    BY DEF IInv, Watched, TypeOK
  <2> QED
    BY <2>1 DEF IInv, Queued, Holds
<1> QED
  BY <1>1, Invariance, PTL
============================================================================
