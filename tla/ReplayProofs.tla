---------------------------- MODULE ReplayProofs ---------------------------
(***************************************************************************)
(* Theorems about the offline replay, for any exchanges and any limit of   *)
(* the queue: after the last sweep nothing is pending, whatever the log;   *)
(* and for a log in which no exchange can take another's place, what is    *)
(* reported is what the log says.  Of ReconciliationProofs only the lemmas *)
(* about the engine's handlers and its stream of results are used.         *)
(***************************************************************************)
EXTENDS Replay, ReconciliationProofs

----------------------------------------------------------------------------
\* What does not depend on the log: types, the clock, the sweeps.

Basics == EngineTypeOK /\ RanksOrdered /\ FileInStep /\ ClockInStep

\* The line that is handled.
LEMMA LineTyped ==
  ASSUME FileInStep, position > 0
  PROVE  /\ position \in 1..Len(log) /\ position \in DOMAIN log
         /\ Line.t \in Int \union {Unreadable}
         /\ Line.event \in {"exchange.closed", "exchange.payment"} => Line.id \in Ids
         /\ Line.event = "exchange.closed" => Line.outcome \in OutcomeKinds
         /\ Line.event = "chain.transfer" => Line.transfer \in Transfers
<1>1. log \in Logs /\ log \in Seq({log[k] : k \in DOMAIN log})
  BY LogsAssumption DEF FileInStep
<1>2. position \in 1..Len(log) /\ Len(log) \in Nat
  BY <1>1 DEF FileInStep
<1>3. position \in DOMAIN log
  BY <1>1, <1>2
<1> QED
  BY <1>1, <1>2, <1>3, LogsAssumption DEF Line

LEMMA LogLength ==
  ASSUME FileInStep
  PROVE  Len(log) \in Nat /\ DOMAIN log = 1..Len(log) /\ position \in Nat
<1>1. log \in Seq({log[k] : k \in DOMAIN log})
  BY LogsAssumption DEF FileInStep
<1> QED
  BY <1>1 DEF FileInStep

\* A half is added: at most one exchange becomes pending, now, behind the others.
LEMMA PromoteBasics ==
  ASSUME Basics, NEW id \in Ids, NEW half \in Half,
         Promote(id, half), UNCHANGED <<results, now>>
  PROVE  /\ EngineTypeOK' /\ RanksOrdered'
         /\ \A o \in DOMAIN pending' :
              \/ o \in DOMAIN pending /\ pending'[o] = pending[o]
              \/ pending'[o].addedAt = now
<1>1. /\ IsMap(partial', Half) /\ IsMap(pending', Pending) /\ inserted' \in Nat
  BY PromoteTyped DEF Basics
<1>2. EngineTypeOK'
  BY <1>1 DEF Basics, EngineTypeOK
<1>3. DOMAIN pending' \subseteq Ids
  BY <1>1 DEF IsMap
<1>4. \/ UNCHANGED <<pending, inserted>>
      \/ /\ id \in DOMAIN pending' /\ pending'[id].addedAt = now
         /\ pending'[id].rank = PlaceOf(id) /\ inserted' = inserted + 1
         /\ DOMAIN pending' \subseteq DOMAIN pending \union {id}
         /\ \A o \in Ids \ {id} :
              /\ o \in DOMAIN pending' <=> o \in DOMAIN pending
              /\ o \in DOMAIN pending => pending'[o] = pending[o]
  BY PromoteEffect DEF Basics, Half
<1>5. inserted \in Nat /\ \A o \in DOMAIN pending : pending[o].rank \in Nat
  BY DEF Basics, EngineTypeOK, IsMap, Pending
<1>6. RanksOrdered'
  BY <1>3, <1>4, <1>5 DEF Basics, RanksOrdered, PlaceOf
<1> QED
  BY <1>2, <1>3, <1>4, <1>6

\* Exchanges leave; those that stay are as they were.
LEMMA DeletePending ==
  ASSUME EngineTypeOK, NEW keys, pending' = Delete(pending, keys)
  PROVE  /\ IsMap(pending', Pending)
         /\ DOMAIN pending' = DOMAIN pending \ keys
         /\ \A o \in DOMAIN pending' : pending'[o] = pending[o]
<1>1. IsMap(pending, Pending)
  BY DEF EngineTypeOK
<1>2. /\ IsMap(Delete(pending, keys), Pending)
      /\ DOMAIN Delete(pending, keys) = DOMAIN pending \ keys
      /\ \A k \in DOMAIN pending \ keys : Delete(pending, keys)[k] = pending[k]
  BY <1>1 DEF IsMap, Delete, Restrict
<1> QED
  BY <1>2

LEMMA DeleteBasics ==
  ASSUME Basics, NEW keys, pending' = Delete(pending, keys),
         UNCHANGED <<partial, inserted, now>>, results' \in [Ids -> Seq(Result)]
  PROVE  /\ EngineTypeOK' /\ RanksOrdered'
         /\ DOMAIN pending' = DOMAIN pending \ keys
         /\ \A o \in DOMAIN pending' : pending'[o] = pending[o]
<1>1. /\ IsMap(pending', Pending)
      /\ DOMAIN pending' = DOMAIN pending \ keys
      /\ \A o \in DOMAIN pending' : pending'[o] = pending[o]
  BY DeletePending DEF Basics
<1>2. EngineTypeOK'
  BY <1>1 DEF Basics, EngineTypeOK
<1>3. RanksOrdered'
  BY <1>1 DEF Basics, RanksOrdered
<1> QED
  BY <1>1, <1>2, <1>3

LEMMA TransferBasics ==
  ASSUME Basics, NEW t \in Transfers, IngestChainTransfer(t), UNCHANGED now
  PROVE  /\ EngineTypeOK' /\ RanksOrdered'
         /\ \A o \in DOMAIN pending' : o \in DOMAIN pending /\ pending'[o] = pending[o]
<1>1. results' \in [Ids -> Seq(Result)]
  BY TransferTyped DEF Basics
<1>2. CASE UNCHANGED pending
  BY <1>1, <1>2 DEF IngestChainTransfer, Basics, EngineTypeOK, RanksOrdered
<1>3. ASSUME NEW id \in Candidates(t), pending' = Delete(pending, {id})
      PROVE  /\ EngineTypeOK' /\ RanksOrdered'
             /\ \A o \in DOMAIN pending' : o \in DOMAIN pending /\ pending'[o] = pending[o]
  <2>1. UNCHANGED <<partial, inserted, now>>
    BY DEF IngestChainTransfer
  <2> QED
    BY <1>1, <1>3, <2>1, DeleteBasics
<1> QED
  BY <1>2, <1>3 DEF IngestChainTransfer

\* The sweep leaves only what is younger than the timeout.
LEMMA SweepBasics ==
  ASSUME Basics, Sweep, UNCHANGED now
  PROVE  /\ EngineTypeOK' /\ RanksOrdered'
         /\ DOMAIN pending' \subseteq DOMAIN pending
         /\ \A o \in DOMAIN pending' :
              /\ pending'[o] = pending[o]
              /\ now < pending[o].addedAt + WatchTimeout
<1>1. results' \in [Ids -> Seq(Result)]
  BY SweepTyped DEF Basics
<1>2. pending' = Delete(pending, Expired) /\ UNCHANGED <<partial, inserted>>
  BY DEF Sweep
<1>3. /\ EngineTypeOK' /\ RanksOrdered'
      /\ DOMAIN pending' = DOMAIN pending \ Expired
      /\ \A o \in DOMAIN pending' : pending'[o] = pending[o]
  BY <1>1, <1>2, DeleteBasics
<1>4. \A o \in DOMAIN pending : pending[o].addedAt \in Nat
  BY DEF Basics, EngineTypeOK, IsMap, Pending
<1>5. now \in Nat /\ WatchTimeout \in Nat
  BY WatchTimeoutAssumption DEF Basics, EngineTypeOK
<1>6. \A o \in DOMAIN pending \ Expired : now < pending[o].addedAt + WatchTimeout
  BY <1>4, <1>5 DEF Expired
<1> QED
  BY <1>3, <1>6

\* The clock reads a line: its times are those before and the line's own.
LEMMA TimesGrow ==
  ASSUME NEW n \in Nat
  PROVE  TimesTo(log, n + 1) = IF log[n + 1].t = Unreadable THEN TimesTo(log, n)
                               ELSE TimesTo(log, n) \union {log[n + 1].t}
<1>1. 1..(n + 1) = 1..n \union {n + 1}
  OBVIOUS
<1>2. {log[j].t : j \in 1..(n + 1)} = {log[j].t : j \in 1..n} \union {log[n + 1].t}
  BY <1>1
<1> QED
  BY <1>2 DEF TimesTo

LEMMA TimesTyped ==
  ASSUME FileInStep, NEW k \in 0..Len(log)
  PROVE  TimesTo(log, k) \subseteq Int /\ 0 \in TimesTo(log, k)
<1>1. log \in Logs /\ DOMAIN log = 1..Len(log) /\ Len(log) \in Nat
  BY LogLength DEF FileInStep
<1>2. \A j \in 1..k : j \in DOMAIN log
  BY <1>1
<1>3. \A j \in 1..k : log[j].t \in Int \union {Unreadable}
  BY <1>1, <1>2, LogsAssumption
<1> QED
  BY <1>3 DEF TimesTo

LEMMA ReadBasics ==
  ASSUME Basics, ReadLine
  PROVE  Basics'
<1>1. /\ stage = "next" /\ position' = position + 1 /\ position' \in DOMAIN log
      /\ UNCHANGED <<partial, pending, inserted, results, log>>
      /\ position' \in 0..Len(log)
  BY LogLength DEF ReadLine, Basics, engineVars, FileInStep
<1> DEFINE t == log[position'].t
<1>2. /\ now' = IF t # Unreadable /\ t > now THEN t ELSE now
      /\ stage' = IF t # Unreadable THEN "tick" ELSE "ingest"
  BY DEF ReadLine
<1>3. now \in Nat /\ TimesTo(log, position) \subseteq Int
  BY LogLength, TimesTyped DEF Basics, EngineTypeOK, FileInStep
<1>4. /\ now \in TimesTo(log, position) /\ \A s \in TimesTo(log, position) : s <= now
      /\ \A id \in DOMAIN pending : pending[id].addedAt <= now
      /\ WatchTimeout > 0 =>
           \A id \in DOMAIN pending : now < pending[id].addedAt + WatchTimeout
  BY <1>1 DEF Basics, ClockInStep, Reading
<1>5. TimesTo(log, position)' = IF t = Unreadable THEN TimesTo(log, position)
                           ELSE TimesTo(log, position) \union {t}
  <2>1. TimesTo(log, position)' = TimesTo(log, position')
    BY <1>1 DEF TimesTo
  <2>2. position \in Nat
    BY LogLength DEF Basics
  <2> QED
    BY <1>1, <2>1, <2>2, TimesGrow
<1>6. t \in Int \union {Unreadable}
  BY <1>1, LogsAssumption DEF Basics, FileInStep
<1>7. now' \in Nat /\ now <= now'
  BY <1>2, <1>3, <1>6
<1>8. now' \in TimesTo(log, position)' /\ \A s \in TimesTo(log, position)' : s <= now'
  BY <1>2, <1>3, <1>4, <1>5, <1>6
<1>9. \A id \in DOMAIN pending : pending[id].addedAt \in Nat
  BY DEF Basics, EngineTypeOK, IsMap, Pending
<1>10. \A id \in DOMAIN pending : pending[id].addedAt <= now'
  BY <1>3, <1>4, <1>7, <1>9
<1>11. stage' = "ingest" => now' = now
  BY <1>2
<1>12. ClockInStep'
  BY <1>1, <1>2, <1>4, <1>8, <1>10, <1>11 DEF ClockInStep, Reading, Over
<1>13. EngineTypeOK' /\ RanksOrdered'
  BY <1>1, <1>7 DEF Basics, EngineTypeOK, RanksOrdered
<1>14. FileInStep'
  BY <1>1, <1>2, LogLength DEF Basics, FileInStep, Over
<1> QED
  BY <1>12, <1>13, <1>14 DEF Basics

LEMMA TickBasics ==
  ASSUME Basics, TickAtLine
  PROVE  Basics'
<1>1. stage = "tick" /\ stage' = "ingest" /\ Sweep /\ UNCHANGED <<now, log, position>>
  BY DEF TickAtLine
<1>2. /\ EngineTypeOK' /\ RanksOrdered'
      /\ DOMAIN pending' \subseteq DOMAIN pending
      /\ \A o \in DOMAIN pending' :
           /\ pending'[o] = pending[o]
           /\ now < pending[o].addedAt + WatchTimeout
  BY <1>1, SweepBasics
<1>3. ClockInStep'
  BY <1>1, <1>2 DEF Basics, ClockInStep, Reading, Over, TimesTo
<1>4. FileInStep'
  BY <1>1 DEF Basics, FileInStep, Over
<1> QED
  BY <1>2, <1>3, <1>4 DEF Basics

LEMMA IngestBasics ==
  ASSUME Basics, IngestLine
  PROVE  Basics'
<1>1. /\ stage = "ingest" /\ stage' \in {"next", "rejected"}
      /\ UNCHANGED <<now, log, position>> /\ position > 0
  BY DEF IngestLine, Basics, FileInStep
<1>2. now \in Nat /\ WatchTimeout \in Nat
  BY WatchTimeoutAssumption DEF Basics, EngineTypeOK
<1>3. /\ EngineTypeOK' /\ RanksOrdered'
      /\ \A o \in DOMAIN pending' :
           \/ o \in DOMAIN pending /\ pending'[o] = pending[o]
           \/ pending'[o].addedAt = now
  <2>1. CASE Line.event = "exchange.closed" /\ IngestProxyEvent(Line.id, Line.outcome)
    <3>1. Line.id \in Ids /\ Line.outcome \in OutcomeKinds
      BY <1>1, <2>1, LineTyped DEF Basics
    <3>2. [payment |-> HalfOf(Line.id).payment, outcome |-> Line.outcome] \in Half
      BY <3>1, HalfTyped DEF Half, Basics
    <3> QED
      BY <1>1, <2>1, <3>1, <3>2, PromoteBasics DEF IngestProxyEvent
  <2>2. CASE Line.event = "exchange.payment" /\ IngestDecoderEvent(Line.id)
    <3>1. Line.id \in Ids
      BY <1>1, <2>2, LineTyped DEF Basics
    <3>2. [payment |-> TRUE, outcome |-> HalfOf(Line.id).outcome] \in Half
      BY <3>1, HalfTyped DEF Half, Basics
    <3> QED
      BY <1>1, <2>2, <3>1, <3>2, PromoteBasics DEF IngestDecoderEvent
  <2>3. CASE Line.event = "chain.transfer" /\ IngestChainTransfer(Line.transfer)
    <3>1. Line.transfer \in Transfers
      BY <1>1, <2>3, LineTyped DEF Basics
    <3> QED
      BY <1>1, <2>3, <3>1, TransferBasics
  <2>4. CASE UNCHANGED engineVars
    BY <1>1, <2>4 DEF engineVars, Basics, EngineTypeOK, RanksOrdered
  <2> QED
    BY <2>1, <2>2, <2>3, <2>4 DEF IngestLine
<1>4. /\ now \in TimesTo(log, position) /\ \A s \in TimesTo(log, position) : s <= now
      /\ \A id \in DOMAIN pending : pending[id].addedAt <= now
      /\ WatchTimeout > 0 =>
           \A id \in DOMAIN pending : now < pending[id].addedAt + WatchTimeout
  BY <1>1 DEF Basics, ClockInStep, Reading
<1>5. \A o \in DOMAIN pending' :
        /\ pending'[o].addedAt <= now
        /\ WatchTimeout > 0 => now < pending'[o].addedAt + WatchTimeout
  BY <1>2, <1>3, <1>4
<1>6. ClockInStep'
  BY <1>1, <1>4, <1>5 DEF ClockInStep, Reading, Over, TimesTo
<1>7. FileInStep'
  BY <1>1 DEF Basics, FileInStep, Over
<1> QED
  BY <1>3, <1>6, <1>7 DEF Basics

LEMMA EndBasics ==
  ASSUME Basics, JumpPastTimeout \/ LastTick \/ Unsubscribe \/ Collect \/ Return
  PROVE  Basics'
<1>1. CASE JumpPastTimeout
  <2>1. /\ stage = "next" /\ stage' = "lastTick" /\ now' = now + WatchTimeout + 1
        /\ position = Len(log) /\ UNCHANGED <<partial, pending, inserted, results, log, position>>
    BY <1>1 DEF JumpPastTimeout, engineVars
  <2>2. now \in Nat /\ WatchTimeout \in Nat
    BY WatchTimeoutAssumption DEF Basics, EngineTypeOK
  <2>3. \A id \in DOMAIN pending : pending[id].addedAt \in Nat /\ pending[id].addedAt <= now
    BY <2>1 DEF Basics, ClockInStep, Reading, EngineTypeOK, IsMap, Pending
  <2>4. \A id \in DOMAIN pending : pending[id].addedAt + WatchTimeout < now'
    BY <2>1, <2>2, <2>3
  <2>5. ClockInStep'
    BY <2>1, <2>4 DEF ClockInStep, Reading, Over
  <2>6. FileInStep'
    BY <2>1 DEF Basics, FileInStep, Over
  <2>7. EngineTypeOK' /\ RanksOrdered'
    BY <2>1, <2>2 DEF Basics, EngineTypeOK, RanksOrdered
  <2> QED
    BY <2>5, <2>6, <2>7 DEF Basics
<1>2. CASE LastTick
  <2>1. stage = "lastTick" /\ stage' = "closing" /\ Sweep /\ UNCHANGED <<now, log, position>>
    BY <1>2 DEF LastTick
  <2>2. /\ EngineTypeOK' /\ RanksOrdered'
        /\ DOMAIN pending' \subseteq DOMAIN pending
        /\ \A o \in DOMAIN pending' : now < pending[o].addedAt + WatchTimeout
    BY <2>1, SweepBasics
  <2>3. now \in Nat /\ WatchTimeout \in Nat
    BY WatchTimeoutAssumption DEF Basics, EngineTypeOK
  <2>4. \A id \in DOMAIN pending :
          pending[id].addedAt \in Nat /\ pending[id].addedAt + WatchTimeout < now
    BY <2>1 DEF Basics, ClockInStep, EngineTypeOK, IsMap, Pending
  <2>5. ASSUME NEW o \in DOMAIN pending'
        PROVE  FALSE
    <3> DEFINE added == pending[o].addedAt
    <3>1. added \in Nat /\ added + WatchTimeout < now /\ now < added + WatchTimeout
      BY <2>2, <2>4
    <3> HIDE DEF added
    <3> QED
      BY <2>3, <3>1
  <2>6. ClockInStep'
    BY <2>1, <2>5 DEF ClockInStep, Reading, Over
  <2>7. FileInStep'
    BY <2>1 DEF Basics, FileInStep, Over
  <2> QED
    BY <2>2, <2>6, <2>7 DEF Basics
<1>3. CASE Unsubscribe \/ Collect \/ Return
  <2>1. /\ UNCHANGED <<partial, pending, inserted, results, now, log, position>>
        /\ \/ stage' = stage
           \/ stage \in {"closing", "draining"} /\ stage' \in {"draining", "returned"}
    BY <1>3 DEF Unsubscribe, Collect, Return, engineVars
  <2>2. EngineTypeOK' /\ RanksOrdered'
    BY <2>1 DEF Basics, EngineTypeOK, RanksOrdered
  <2>3. ClockInStep'
    BY <2>1 DEF Basics, ClockInStep, Reading, Over, TimesTo
  <2>4. FileInStep'
    BY <2>1 DEF Basics, FileInStep, Over
  <2> QED
    BY <2>2, <2>3, <2>4 DEF Basics
<1> QED
  BY <1>1, <1>2, <1>3

LEMMA InitBasics == ReplayInit => Basics
<1> SUFFICES ASSUME ReplayInit
             PROVE  Basics
  OBVIOUS
<1>1. log \in Logs /\ position = 0 /\ stage = "next" /\ EngineInit
  BY DEF ReplayInit
<1>2. log \in Seq({log[k] : k \in DOMAIN log})
  BY <1>1, LogsAssumption
<1>3. position \in 0..Len(log)
  BY <1>1, <1>2
<1>4. TimesTo(log, position) = {0}
  BY <1>1 DEF TimesTo
<1>5. EngineTypeOK /\ RanksOrdered /\ now = 0 /\ DOMAIN pending = {}
  BY <1>1 DEF EngineInit, EngineTypeOK, IsMap, RanksOrdered
<1>6. ClockInStep
  BY <1>1, <1>4, <1>5 DEF ClockInStep, Reading, Over
<1>7. FileInStep
  BY <1>1, <1>3 DEF FileInStep, Over
<1> QED
  BY <1>5, <1>6, <1>7 DEF Basics

LEMMA StepBasics ==
  ASSUME Basics, [ReplayNext]_replayVars
  PROVE  Basics'
<1>1. CASE UNCHANGED replayVars
  BY <1>1 DEF replayVars, engineVars, Basics, EngineTypeOK, RanksOrdered, FileInStep,
              ClockInStep, Reading, Over, TimesTo
<1> QED
  BY <1>1, ReadBasics, TickBasics, IngestBasics, EndBasics DEF ReplayNext

THEOREM ReplayBasics == ReplaySpec => []Basics
<1>1. ReplayInit => Basics
  BY InitBasics
<1>2. Basics /\ [ReplayNext]_replayVars => Basics'
  BY StepBasics
<1> QED
  BY <1>1, <1>2, PTL DEF ReplaySpec

\* After the last sweep, a whole timeout past the latest time read, nothing is
\* pending, whatever the log holds.
THEOREM NothingStaysPending == ReplaySpec => []NothingLeftPending
<1>1. Basics => NothingLeftPending
  BY DEF Basics, ClockInStep, Over, NothingLeftPending
<1> QED
  BY <1>1, ReplayBasics, PTL

----------------------------------------------------------------------------
\* What a plain log says of one exchange.

\* The two halves of an exchange are two lines, and it is watched from the later.
LEMMA WatchedFromLater ==
  ASSUME FileInStep, OneHalfEach(log), NEW id \in Ids,
         NEW c \in LinesOf(log, "exchange.closed", id),
         NEW p \in LinesOf(log, "exchange.payment", id)
  PROVE  /\ c \in Nat /\ p \in Nat
         /\ WatchedFrom(log, id) = IF c <= p THEN p ELSE c
<1>1. c \in Nat /\ p \in Nat
  BY LogLength DEF LinesOf, Lines
<1>2. HalvesOf(log, id) = {c, p}
  BY DEF HalvesOf, OneHalfEach
<1> DEFINE m == IF c <= p THEN p ELSE c
<1>3. m \in {c, p} /\ \A j \in {c, p} : j <= m
  BY <1>1
<1>4. ASSUME NEW k \in {c, p}, \A j \in {c, p} : j <= k
      PROVE  k = m
  BY <1>1, <1>4
<1> HIDE DEF m
<1>5. WatchedFrom(log, id) = CHOOSE k \in {c, p} : \A j \in {c, p} : j <= k
  BY <1>2 DEF WatchedFrom
<1>6. WatchedFrom(log, id) = m
  BY <1>3, <1>4, <1>5
<1> QED
  BY <1>1, <1>6 DEF m

\* The latest time read.
LEMMA LatestTime ==
  ASSUME FileInStep, NEW k \in 0..Len(log),
         NEW m \in TimesTo(log, k), \A t \in TimesTo(log, k) : t <= m
  PROVE  TimeAt(log, k) = m
<1>1. TimesTo(log, k) \subseteq Int
  BY TimesTyped
<1>2. ASSUME NEW n \in TimesTo(log, k), \A t \in TimesTo(log, k) : t <= n
      PROVE  n = m
  BY <1>1, <1>2
<1> QED
  BY <1>2 DEF TimeAt

\* There is one, and so a watched exchange has a deadline.
LEMMA TimeTyped ==
  ASSUME FileInStep, NEW k \in 0..Len(log)
  PROVE  TimeAt(log, k) \in Int
<1> DEFINE Latest(n) == \E m \in TimesTo(log, n) : \A t \in TimesTo(log, n) : t <= m
           S == {n \in Nat : n <= Len(log) => Latest(n)}
<1>1. DOMAIN log = 1..Len(log) /\ Len(log) \in Nat /\ log \in Logs
  BY LogLength DEF FileInStep
<1>2. 0 \in S
  <2>1. TimesTo(log, 0) = {0}
    BY DEF TimesTo
  <2> QED
    BY <2>1
<1>3. ASSUME NEW n \in Nat, n \in S
      PROVE  n + 1 \in S
  <2> SUFFICES ASSUME n + 1 <= Len(log)
               PROVE  Latest(n + 1)
    OBVIOUS
  <2>1. n \in 0..Len(log) /\ n + 1 \in DOMAIN log
    BY <1>1
  <2>2. PICK m \in TimesTo(log, n) : \A t \in TimesTo(log, n) : t <= m
    BY <1>1, <1>3, <2>1
  <2>3. TimesTo(log, n) \subseteq Int
    BY <2>1, TimesTyped
  <2> DEFINE new == log[n + 1].t
  <2>4. new \in Int \union {Unreadable}
    BY <1>1, <2>1, LogsAssumption
  <2>5. TimesTo(log, n + 1) = IF new = Unreadable THEN TimesTo(log, n)
                              ELSE TimesTo(log, n) \union {new}
    BY TimesGrow
  <2> HIDE DEF new
  <2>6. CASE new \in Int /\ new > m /\ new # Unreadable
    BY <2>2, <2>3, <2>5, <2>6
  <2>7. CASE ~(new \in Int /\ new > m /\ new # Unreadable)
    BY <2>2, <2>3, <2>4, <2>5, <2>7
  <2> QED
    BY <2>6, <2>7
<1>4. Latest(k)
  <2>1. Nat \subseteq S
    <3> HIDE DEF S
    <3> QED
      BY <1>2, <1>3, NatInduct
  <2> QED
    BY <1>1, <2>1
<1>5. PICK m \in TimesTo(log, k) : \A t \in TimesTo(log, k) : t <= m
  BY <1>4
<1> QED
  BY <1>5, LatestTime, TimesTyped

LEMMA DeadlineTyped ==
  ASSUME FileInStep, OneHalfEach(log), NEW id \in Ids, Watched(log, id)
  PROVE  Deadline(log, id) \in Int
<1>1. PICK c \in LinesOf(log, "exchange.closed", id) : log[c].outcome # "paid"
  BY DEF Watched
<1>2. PICK p \in LinesOf(log, "exchange.payment", id) : TRUE
  BY DEF Watched
<1>3. c \in 0..Len(log) /\ p \in 0..Len(log)
  BY LogLength DEF LinesOf, Lines
<1>4. WatchedFrom(log, id) \in 0..Len(log)
  BY <1>3, WatchedFromLater
<1> QED
  BY <1>4, TimeTyped, WatchTimeoutAssumption DEF Deadline

LEMMA ClockShowsTime ==
  ASSUME Basics, Reading
  PROVE  TimeAt(log, position) = now
<1>1. /\ now \in TimesTo(log, position) /\ \A t \in TimesTo(log, position) : t <= now
      /\ position \in 0..Len(log)
  BY DEF Basics, ClockInStep, FileInStep
<1> QED
  BY <1>1, LatestTime DEF Basics

\* The lines handled go by one.
LEMMA HandledTyped ==
  ASSUME FileInStep
  PROVE  Handled \in Nat /\ Handled <= position
BY LogLength DEF FileInStep, Handled

LEMMA SeenGrows ==
  ASSUME FileInStep, position > 0, NEW event, NEW id, NEW n, n = position - 1
  PROVE  /\ Line.event = event /\ Line.id = id =>
              /\ Seen(event, id, position) = Seen(event, id, n) \union {position}
              /\ position \in LinesOf(log, event, id)
         /\ ~(Line.event = event /\ Line.id = id) => Seen(event, id, position) = Seen(event, id, n)
<1>1. position \in DOMAIN log /\ position \in Nat
  BY LineTyped, LogLength
<1>2. LinesOf(log, event, id) \subseteq Nat
  BY LogLength DEF LinesOf, Lines
<1>3. position \in LinesOf(log, event, id) <=> Line.event = event /\ Line.id = id
  BY <1>1 DEF LinesOf, Lines, Line
<1> QED
  BY <1>1, <1>2, <1>3 DEF Seen

----------------------------------------------------------------------------
\* What the engine knows of one exchange is left alone.
LEMMA Kept ==
  ASSUME NEW id \in Ids, NEW n \in Nat, NEW m \in Nat, n <= m, AsRead(id, n),
         log' = log, results'[id] = results[id], HalfOf(id)' = HalfOf(id),
         Seen("exchange.closed", id, m) = Seen("exchange.closed", id, n),
         Seen("exchange.payment", id, m) = Seen("exchange.payment", id, n),
         id \in DOMAIN pending' <=> id \in DOMAIN pending,
         id \in DOMAIN pending => pending'[id] = pending[id],
         Watched(log, id) /\ Deadline(log, id) <= now => Deadline(log, id) <= now',
         id \in DOMAIN pending \/ (Watched(log, id) /\ Deadline(log, id) <= now) =>
           (NoneYet(id, n) => NoneYet(id, m))
  PROVE  AsRead(id, m)'
<1>1. /\ Seen("exchange.closed", id, m)' = Seen("exchange.closed", id, n)
      /\ Seen("exchange.payment", id, m)' = Seen("exchange.payment", id, n)
  BY DEF Seen
<1>2. Watched(log, id)' = Watched(log, id)
  OBVIOUS
<1>3. NoneYet(id, m)' = NoneYet(id, m)
  BY DEF NoneYet
<1>4. IsHalfRead(HalfOf(id), id, n) => IsHalfRead(HalfOf(id), id, m)'
  BY <1>1 DEF IsHalfRead
<1>5. IsOut(id)' = IsOut(id)
  BY DEF IsOut
<1>6. Waits(id, n) => Waits(id, m)'
  BY <1>3 DEF Waits
<1>7. Watched(log, id) /\ HasVerdict(id, n) => HasVerdict(id, m)'
  <2> SUFFICES ASSUME Watched(log, id), HasVerdict(id, n)
               PROVE  HasVerdict(id, m)'
    OBVIOUS
  <2> DEFINE kind == results[id][1].kind
  <2>1. IsTold(id, kind, n)
    BY DEF HasVerdict
  <2>2. IsTold(id, kind, m)'
    <3>1. CASE kind = "not_settled" /\ Deadline(log, id) <= now /\ NoneYet(id, n)
      <4>1. Deadline(log, id)' <= now'
        BY <3>1
      <4> QED
        BY <1>3, <3>1, <4>1 DEF IsTold
    <3>2. CASE \E k \in 1..n : /\ IsFirst(k, InTime(log, id))
                               /\ kind = ResultKindOf(Compare(log, id, k))
      <4>1. 1..n \subseteq 1..m
        OBVIOUS
      <4> QED
        BY <3>2, <4>1 DEF IsTold
    <3> QED
      BY <2>1, <3>1, <3>2 DEF IsTold
  <2> QED
    BY <2>2 DEF HasVerdict
<1> QED
  BY <1>1, <1>2, <1>4, <1>5, <1>6, <1>7 DEF AsRead

\* The sweep tells those whose deadline has passed that nothing came.
LEMMA SweepRead ==
  ASSUME Basics, Sweep, log' = log, now' = now,
         NEW n \in Nat, NEW id \in Ids, AsRead(id, n)
  PROVE  AsRead(id, n)'
<1>1. /\ pending' = Delete(pending, Expired) /\ partial' = partial
      /\ results'[id] = IF id \in Expired
                        THEN Append(results[id], ResultFor(id, "not_settled", NoTransfer))
                        ELSE results[id]
  BY DEF Sweep
<1>2. /\ DOMAIN pending' = DOMAIN pending \ Expired
      /\ \A o \in DOMAIN pending \ Expired : pending'[o] = pending[o]
  BY <1>1, DeletePending DEF Basics
<1>3. HalfOf(id)' = HalfOf(id)
  BY <1>1 DEF HalfOf
<1>4. CASE id \notin Expired
  BY <1>1, <1>2, <1>3, <1>4, Kept
<1>5. CASE id \in Expired
  <2>1. id \in DOMAIN pending /\ pending[id].addedAt <= now - WatchTimeout
    BY <1>5 DEF Expired
  <2>2. /\ Waits(id, n) /\ Watched(log, id)
        /\ ~(Seen("exchange.closed", id, n) = {} \/ Seen("exchange.payment", id, n) = {})
    BY <2>1 DEF AsRead, IsOut, HasVerdict
  <2>3. pending[id].addedAt \in Nat /\ now \in Nat /\ WatchTimeout \in Nat
    BY <2>1, WatchTimeoutAssumption DEF Basics, EngineTypeOK, IsMap, Pending
  <2>4. Deadline(log, id) <= now /\ NoneYet(id, n)
    BY <2>1, <2>2, <2>3 DEF Waits, Deadline
  <2> DEFINE r == ResultFor(id, "not_settled", NoTransfer)
  <2>5. r.kind = "not_settled"
    BY DEF ResultFor
  <2>6. results'[id] = Append(<<>>, r)
    BY <1>1, <1>5, <2>2 DEF Waits
  <2> HIDE DEF r
  <2>7. Len(results'[id]) = 1 /\ results'[id][1].kind = "not_settled"
    BY <2>5, <2>6
  <2>8. /\ Deadline(log, id)' <= now' /\ NoneYet(id, n)'
        /\ Watched(log, id)' /\ id \notin DOMAIN pending'
    BY <1>2, <1>5, <2>2, <2>4 DEF NoneYet
  <2>9. HasVerdict(id, n)'
    BY <2>7, <2>8 DEF HasVerdict, IsTold
  <2>10. ~(Seen("exchange.closed", id, n)' = {} \/ Seen("exchange.payment", id, n)' = {})
    BY <2>2 DEF Seen
  <2> QED
    BY <2>8, <2>9, <2>10 DEF AsRead
<1> QED
  BY <1>4, <1>5

\* A line that is not a transfer is none of the transfers in time.
LEMMA NotATransfer ==
  ASSUME FileInStep, position > 0, Line.event # "chain.transfer",
         NEW m, m = position, NEW n, n = m - 1, NEW id, NoneYet(id, n)
  PROVE  NoneYet(id, m)
<1> SUFFICES ASSUME NEW k \in InTime(log, id)
             PROVE  k > m
  BY DEF NoneYet
<1>1. k > n /\ k \in DOMAIN log /\ log[k].event = "chain.transfer"
  BY DEF NoneYet, InTime, Lines
<1>2. k \in Nat /\ k # m /\ m \in Nat
  BY <1>1, LogLength DEF Line
<1> QED
  BY <1>1, <1>2

\* The first half of its kind: the engine had what came before it.
LEMMA FirstOfItsKind ==
  ASSUME FileInStep, OneHalfEach(log), position > 0,
         NEW event, event = Line.event, event \in {"exchange.closed", "exchange.payment"},
         NEW me, me = Line.id, NEW m, m = position, NEW n, n = m - 1, AsRead(me, n)
  PROVE  /\ me \in Ids /\ m \in LinesOf(log, event, me)
         /\ Seen(event, me, n) = {} /\ Seen(event, me, m) = {m}
         /\ \A other : other # event => Seen(other, me, m) = Seen(other, me, n)
         /\ IsHalfRead(HalfOf(me), me, n) /\ IsOut(me)
<1>1. me \in Ids /\ m \in Nat
  BY LineTyped, LogLength
<1>2. /\ Seen(event, me, m) = Seen(event, me, n) \union {m}
      /\ m \in LinesOf(log, event, me)
      /\ \A other : other # event => Seen(other, me, m) = Seen(other, me, n)
  BY SeenGrows
<1>3. Seen(event, me, n) = {}
  <2>1. \A k \in LinesOf(log, event, me) : k = m
    BY <1>1, <1>2 DEF OneHalfEach
  <2> QED
    BY <1>1, <2>1 DEF Seen
<1>4. IsHalfRead(HalfOf(me), me, n) /\ IsOut(me)
  BY <1>3 DEF AsRead
<1> QED
  BY <1>1, <1>2, <1>3, <1>4

\* A half arrives that this line carries: the exchange has it now, and if it is
\* complete, it is watched from this line or ignored.
LEMMA JoinRead ==
  ASSUME Basics, OneHalfEach(log), stage = "ingest", log' = log, now' = now,
         UNCHANGED results,
         Line.event \in {"exchange.closed", "exchange.payment"},
         NEW me, me = Line.id, NEW m, m = position, NEW n, n = m - 1,
         NEW half \in Half, Promote(me, half), IsHalfRead(half, me, m),
         \A id \in Ids : AsRead(id, n)
  PROVE  \A id \in Ids : AsRead(id, m)'
<1> DEFINE event == Line.event
<1>1. /\ FileInStep /\ EngineTypeOK /\ position > 0 /\ m \in Nat /\ n \in Nat /\ n <= m
      /\ m \in DOMAIN log /\ me \in Ids
  BY LogLength, LineTyped DEF Basics, FileInStep
<1>2. /\ \A o \in Ids \ {me} :
           /\ o \in DOMAIN partial' <=> o \in DOMAIN partial
           /\ o \in DOMAIN partial => partial'[o] = partial[o]
           /\ o \in DOMAIN pending' <=> o \in DOMAIN pending
           /\ o \in DOMAIN pending => pending'[o] = pending[o]
      /\ ~half.payment \/ half.outcome = NoOutcome =>
           /\ me \in DOMAIN partial' /\ partial'[me] = half
           /\ UNCHANGED <<pending, inserted>>
      /\ half.payment /\ half.outcome = "paid" => UNCHANGED <<pending, inserted>>
      /\ half.payment /\ half.outcome \notin {NoOutcome, "paid"} =>
           me \in DOMAIN pending' /\ pending'[me].addedAt = now
  BY <1>1, PromoteEffect
<1>4. \A id \in Ids : NoneYet(id, n) => NoneYet(id, m)
  BY <1>1, NotATransfer
<1>5. ASSUME NEW id \in Ids, id # me
      PROVE  AsRead(id, m)'
  <2>1. /\ Seen("exchange.closed", id, m) = Seen("exchange.closed", id, n)
        /\ Seen("exchange.payment", id, m) = Seen("exchange.payment", id, n)
    BY <1>1, <1>5, SeenGrows
  <2>2. HalfOf(id)' = HalfOf(id)
    BY <1>2, <1>5 DEF HalfOf
  <2> QED
    BY <1>1, <1>2, <1>4, <1>5, <2>1, <2>2, Kept
<1> DEFINE C == Seen("exchange.closed", me, m)
           P == Seen("exchange.payment", me, m)
<1>6. /\ IsOut(me) /\ m \in LinesOf(log, event, me)
      /\ event = "exchange.closed" => m \in C
      /\ event = "exchange.payment" => m \in P
  BY <1>1, FirstOfItsKind
<1>7. /\ half.payment = (P # {})
      /\ C = {} => half.outcome = NoOutcome
      /\ \A k \in C : half.outcome = log[k].outcome
  BY DEF IsHalfRead
<1>8. \A k \in C : k \in LinesOf(log, "exchange.closed", me) /\ log[k].outcome \in OutcomeKinds
  BY <1>1, LogsAssumption DEF Seen, LinesOf, Lines, FileInStep
<1>9. NoOutcome \notin OutcomeKinds
  BY DEF NoOutcome, OutcomeKinds
<1>10. C' = C /\ P' = P /\ Watched(log, me)' = Watched(log, me)
  BY <1>1 DEF Seen
<1>11. CASE C = {} \/ P = {}
  <2>1. ~half.payment \/ half.outcome = NoOutcome
    BY <1>7, <1>11
  <2>2. HalfOf(me)' = half /\ pending' = pending
    BY <1>2, <2>1 DEF HalfOf
  <2>3. IsHalfRead(HalfOf(me), me, m)' /\ IsOut(me)'
    BY <1>6, <1>7, <1>10, <2>2 DEF IsHalfRead, IsOut
  <2>4. AsRead(me, m)'
    BY <1>10, <1>11, <2>3 DEF AsRead
  <2> QED
    BY <1>5, <2>4
<1>12. CASE C # {} /\ P # {}
  <2>1. PICK c \in C : TRUE
    BY <1>12
  <2>2. PICK p \in P : TRUE
    BY <1>12
  <2>3. /\ c \in LinesOf(log, "exchange.closed", me) /\ c <= m
        /\ p \in LinesOf(log, "exchange.payment", me) /\ p <= m
        /\ half.payment = TRUE /\ half.outcome = log[c].outcome /\ half.outcome # NoOutcome
    BY <1>7, <1>8, <1>9, <1>12 DEF Seen
  <2>4. c = m \/ p = m
    <3>1. /\ \A j, k \in LinesOf(log, "exchange.closed", me) : j = k
          /\ \A j, k \in LinesOf(log, "exchange.payment", me) : j = k
      BY <1>1 DEF OneHalfEach
    <3> QED
      BY <1>6, <2>3, <3>1
  <2>5. Watched(log, me) <=> half.outcome # "paid"
    BY <1>1, <2>3 DEF Watched, OneHalfEach
  <2>6. CASE half.outcome = "paid"
    <3>1. IsOut(me)'
      BY <1>2, <1>6, <2>3, <2>6 DEF IsOut
    <3>2. AsRead(me, m)'
      BY <1>10, <1>12, <2>5, <2>6, <3>1 DEF AsRead
    <3> QED
      BY <1>5, <3>2
  <2>7. CASE half.outcome # "paid"
    <3>1. me \in DOMAIN pending' /\ pending'[me].addedAt = now
      BY <1>2, <2>3, <2>7
    <3>2. WatchedFrom(log, me) = m
      BY <1>1, <2>3, <2>4, WatchedFromLater
    <3>3. TimeAt(log, m) = now
      BY ClockShowsTime DEF Reading
    <3>4. NoneYet(me, m)
      BY <3>2 DEF NoneYet, InTime
    <3>5. results'[me] = <<>>
      BY <1>6 DEF IsOut
    <3>6. Waits(me, m)'
      BY <3>1, <3>2, <3>3, <3>4, <3>5 DEF Waits, NoneYet
    <3>7. AsRead(me, m)'
      BY <1>10, <1>12, <2>5, <2>7, <3>6 DEF AsRead
    <3> QED
      BY <1>5, <3>7
  <2> QED
    BY <2>6, <2>7
<1> QED
  BY <1>11, <1>12

\* A transfer of this line: the exchange it is about, if that is watched and in
\* time, has its verdict, and nobody else is concerned.
LEMMA TransferRead ==
  ASSUME Basics, OneHalfEach(log), NoSharedTransfer(log), WatchTimeout > 0,
         stage = "ingest", log' = log, now' = now, Line.event = "chain.transfer",
         IngestChainTransfer(Line.transfer), ~Throws(Line.transfer),
         NEW m, m = position, NEW n, n = m - 1,
         \A id \in Ids : AsRead(id, n)
  PROVE  \A id \in Ids : AsRead(id, m)'
<1> DEFINE t == Line.transfer
<1>1. /\ FileInStep /\ EngineTypeOK /\ position > 0 /\ m \in Nat /\ n \in Nat /\ n <= m
      /\ m \in DOMAIN log /\ t \in Transfers /\ m \in Lines(log, "chain.transfer")
      /\ n < m
  BY LogLength, LineTyped DEF Basics, FileInStep, Lines, Line
<1>2. /\ TimeAt(log, m) = now /\ now \in Nat /\ WatchTimeout \in Nat
  BY ClockShowsTime, WatchTimeoutAssumption DEF Reading, Basics, EngineTypeOK
<1>3. \A id \in Ids : /\ Seen("exchange.closed", id, m) = Seen("exchange.closed", id, n)
                      /\ Seen("exchange.payment", id, m) = Seen("exchange.payment", id, n)
  BY <1>1, SeenGrows
<1>4. \A id \in Ids : Compare(log, id, m) = MatchKind(Auth[id], t)
  BY DEF Compare, Line
<1>5. ASSUME NEW id \in Ids, m \notin InTime(log, id), NoneYet(id, n)
      PROVE  NoneYet(id, m)
  <2> SUFFICES ASSUME NEW k \in InTime(log, id)
               PROVE  k > m
    BY DEF NoneYet
  <2>1. k > n /\ k # m /\ k \in Nat
    BY <1>5, LogLength, <1>1 DEF NoneYet, InTime, Lines
  <2> QED
    BY <1>1, <2>1
<1>7. ASSUME NEW id \in Ids, results'[id] = results[id],
             id \in DOMAIN pending' <=> id \in DOMAIN pending,
             id \in DOMAIN pending => pending'[id] = pending[id],
             id \in DOMAIN pending => Compare(log, id, m) = "no_match"
      PROVE  AsRead(id, m)'
  <2>1. HalfOf(id)' = HalfOf(id)
    BY DEF IngestChainTransfer, HalfOf
  <2>2. ASSUME id \in DOMAIN pending \/ (Watched(log, id) /\ Deadline(log, id) <= now)
        PROVE  m \notin InTime(log, id)
    <3>1. CASE id \in DOMAIN pending
      BY <1>7, <3>1 DEF InTime
    <3>2. CASE Watched(log, id) /\ Deadline(log, id) <= now
      <4> SUFFICES ASSUME m \in InTime(log, id)
                   PROVE  FALSE
        OBVIOUS
      <4>1. now < Deadline(log, id)
        BY <1>2 DEF InTime
      <4>2. Deadline(log, id) \in Int
        BY <1>1, <3>2, DeadlineTyped
      <4> QED
        BY <1>2, <3>2, <4>1, <4>2
    <3> QED
      BY <2>2, <3>1, <3>2
  <2>3. AsRead(id, n) /\ (now' = now)
    OBVIOUS
  <2> QED
    BY <1>1, <1>3, <1>5, <1>7, <2>1, <2>2, <2>3, Kept
<1>8. CASE Candidates(t) = {}
  <2>1. UNCHANGED <<pending, results>>
    BY <1>8 DEF IngestChainTransfer
  <2>2. \A id \in Ids : id \in DOMAIN pending => Compare(log, id, m) = "no_match"
    BY <1>4, <1>8 DEF Candidates
  <2> QED
    BY <1>7, <2>1, <2>2
<1>9. CASE Candidates(t) # {}
  <2>1. PICK c \in Candidates(t) :
          /\ results' = [results EXCEPT ![c] = Append(@,
               ResultFor(c, ResultKindOf(MatchKind(Auth[c], t)), t))]
          /\ pending' = Delete(pending, {c})
    BY <1>9 DEF IngestChainTransfer
  <2>2. c \in DOMAIN pending /\ c \in Ids /\ Compare(log, c, m) # "no_match"
    BY <1>1, <1>4 DEF Candidates, EngineTypeOK, IsMap
  <2>3. /\ DOMAIN pending' = DOMAIN pending \ {c}
        /\ \A o \in DOMAIN pending \ {c} : pending'[o] = pending[o]
    <3> DEFINE keys == {c}
    <3>1. pending' = Delete(pending, keys)
      BY <2>1
    <3> HIDE DEF keys
    <3>2. /\ DOMAIN pending' = DOMAIN pending \ keys
          /\ \A o \in DOMAIN pending' : pending'[o] = pending[o]
      BY <1>1, <3>1, DeletePending
    <3> QED
      BY <3>2 DEF keys
  <2>4. ASSUME NEW id \in Ids, id # c
        PROVE  AsRead(id, m)'
    <3>1. Compare(log, id, m) = "no_match"
      BY <1>1, <2>2, <2>4 DEF NoSharedTransfer
    <3>2. results'[id] = results[id]
      BY <1>1, <2>1, <2>4 DEF EngineTypeOK
    <3>3. /\ id \in DOMAIN pending' <=> id \in DOMAIN pending
          /\ id \in DOMAIN pending => pending'[id] = pending[id]
      BY <2>3, <2>4
    <3> QED
      BY <1>7, <3>1, <3>2, <3>3
  <2>5. AsRead(c, m)'
    <3>1. /\ Waits(c, n) /\ Watched(log, c)
          /\ ~(Seen("exchange.closed", c, n) = {} \/ Seen("exchange.payment", c, n) = {})
      BY <2>2 DEF AsRead, IsOut, HasVerdict
    <3>2. WatchedFrom(log, c) \in Nat /\ WatchedFrom(log, c) <= n
      <4>1. PICK k \in Seen("exchange.closed", c, n) : TRUE
        BY <3>1
      <4>2. PICK j \in Seen("exchange.payment", c, n) : TRUE
        BY <3>1
      <4>3. /\ k \in LinesOf(log, "exchange.closed", c) /\ k <= n
            /\ j \in LinesOf(log, "exchange.payment", c) /\ j <= n
        BY DEF Seen
      <4> QED
        BY <1>1, <2>2, <4>3, WatchedFromLater
    <3>3. now < Deadline(log, c)
      BY <2>2, <3>1 DEF Basics, ClockInStep, Waits, Deadline
    <3>4. m \in InTime(log, c)
      BY <1>1, <1>2, <2>2, <3>2, <3>3 DEF InTime
    <3>5. IsFirst(m, InTime(log, c)) /\ m \in 1..m
      <4>1. \A k \in InTime(log, c) : k > n /\ k \in Nat
        BY <3>1, LogLength, <1>1 DEF Waits, NoneYet, InTime, Lines
      <4> QED
        BY <1>1, <3>4, <4>1 DEF IsFirst
    <3> DEFINE r == ResultFor(c, ResultKindOf(MatchKind(Auth[c], t)), t)
    <3>6. r.kind = ResultKindOf(Compare(log, c, m))
      BY <1>4, <2>2 DEF ResultFor
    <3>7. results'[c] = Append(<<>>, r)
      BY <1>1, <2>1, <2>2, <3>1 DEF Waits, EngineTypeOK
    <3> HIDE DEF r
    <3>8. Len(results'[c]) = 1 /\ results'[c][1].kind = ResultKindOf(Compare(log, c, m))
      BY <3>6, <3>7
    <3>9. IsTold(c, results[c][1].kind, m)'
      BY <3>5, <3>8 DEF IsTold
    <3>10. HasVerdict(c, m)'
      BY <2>3, <3>8, <3>9 DEF HasVerdict
    <3>11. ~(Seen("exchange.closed", c, m)' = {} \/ Seen("exchange.payment", c, m)' = {})
      BY <1>3, <2>2, <3>1 DEF Seen
    <3> QED
      BY <3>1, <3>10, <3>11 DEF AsRead
  <2> QED
    BY <2>4, <2>5
<1> QED
  BY <1>8, <1>9

----------------------------------------------------------------------------
\* Every step follows the log.

\* The clock moves on, or only the loop and the stage change.
LEMMA ClockMovesOn ==
  ASSUME FileInStep, OneHalfEach(log), UNCHANGED <<partial, pending, results, log>>,
         now \in Nat, now' \in Nat, now <= now',
         NEW n \in Nat, \A id \in Ids : AsRead(id, n)
  PROVE  \A id \in Ids : AsRead(id, n)'
<1> SUFFICES ASSUME NEW id \in Ids
             PROVE  AsRead(id, n)'
  OBVIOUS
<1>1. Watched(log, id) => Deadline(log, id) \in Int
  BY DeadlineTyped
<1>2. HalfOf(id)' = HalfOf(id)
  BY DEF HalfOf
<1> QED
  BY <1>1, <1>2, Kept

\* The virtual clock never goes back.
LEMMA ClockNeverBack ==
  ASSUME Basics, [ReplayNext]_replayVars
  PROVE  now \in Nat /\ now' \in Nat /\ now <= now'
<1>1. now \in Nat /\ now' \in Nat /\ WatchTimeout \in Nat
  BY StepBasics, WatchTimeoutAssumption DEF Basics, EngineTypeOK
<1>2. CASE ReadLine
  <2>1. now' = now \/ now' > now
    BY <1>2 DEF ReadLine
  <2> QED
    BY <1>1, <2>1
<1>3. CASE JumpPastTimeout
  BY <1>1, <1>3 DEF JumpPastTimeout
<1>4. CASE ~(ReadLine \/ JumpPastTimeout)
  <2>1. now' = now
    BY <1>4 DEF ReplayNext, TickAtLine, IngestLine, LastTick, Unsubscribe, Collect, Return,
                replayVars
  <2> QED
    BY <1>1, <2>1
<1> QED
  BY <1>2, <1>3, <1>4

\* The lines handled so far, after each step.
LEMMA HandledMoves ==
  ASSUME Basics, [ReplayNext]_replayVars
  PROVE  /\ IngestLine /\ stage' # "rejected" =>
              Handled = position - 1 /\ Handled' = position /\ UNCHANGED <<position, log>>
         /\ ~IngestLine => Handled' = Handled /\ log' = log
<1>1. position \in Nat
  BY LogLength DEF Basics
<1>2. CASE ReadLine
  BY <1>1, <1>2 DEF ReadLine, Handled, IngestLine
<1>3. CASE IngestLine
  BY <1>1, <1>3 DEF IngestLine, Handled
<1>4. CASE TickAtLine \/ JumpPastTimeout \/ LastTick \/ Unsubscribe \/ Collect \/ Return
  BY <1>1, <1>4 DEF TickAtLine, JumpPastTimeout, LastTick, Unsubscribe, Collect, Return,
                    Handled, IngestLine
<1>5. CASE UNCHANGED replayVars
  BY <1>5 DEF replayVars, Handled, IngestLine
<1> QED
  BY <1>2, <1>3, <1>4, <1>5 DEF ReplayNext

LEMMA IngestFollows ==
  ASSUME Basics, OneHalfEach(log), NoSharedTransfer(log), WatchTimeout > 0,
         IngestLine, stage' # "rejected",
         NEW m, m = position, NEW n, n = m - 1, \A id \in Ids : AsRead(id, n)
  PROVE  \A id \in Ids : AsRead(id, m)'
<1>1. /\ stage = "ingest" /\ UNCHANGED <<now, log, position>> /\ position > 0
      /\ FileInStep /\ position \in Nat /\ EngineTypeOK
  BY LogLength DEF IngestLine, Basics, FileInStep
<1>2. n = m - 1 /\ m = position /\ n \in Nat /\ n <= m
  BY <1>1
<1>3. \A id \in Ids : AsRead(id, n)
  OBVIOUS
<1>4. CASE Line.event = "exchange.closed" /\ IngestProxyEvent(Line.id, Line.outcome)
  <2> DEFINE me == Line.id
             old == HalfOf(me)
             half == [payment |-> old.payment, outcome |-> Line.outcome]
  <2>1. me \in Ids /\ Line.outcome \in OutcomeKinds /\ Line.outcome = log[m].outcome
    BY <1>1, <1>2, <1>4, LineTyped DEF Line
  <2>2. half \in Half /\ old \in Half
    BY <1>1, <2>1, HalfTyped DEF Half
  <2>3. /\ Seen("exchange.closed", me, m) = {m}
        /\ Seen("exchange.payment", me, m) = Seen("exchange.payment", me, n)
        /\ IsHalfRead(old, me, n)
    BY <1>1, <1>2, <1>3, <1>4, <2>1, FirstOfItsKind
  <2>4. IsHalfRead(half, me, m)
    BY <2>1, <2>3 DEF IsHalfRead
  <2>5. Promote(me, half) /\ UNCHANGED results
    BY <1>4 DEF IngestProxyEvent
  <2> HIDE DEF half, me
  <2> QED
    BY <1>1, <1>2, <1>3, <1>4, <2>2, <2>4, <2>5, JoinRead DEF me
<1>5. CASE Line.event = "exchange.payment" /\ IngestDecoderEvent(Line.id)
  <2> DEFINE me == Line.id
             old == HalfOf(me)
             half == [payment |-> TRUE, outcome |-> old.outcome]
  <2>1. me \in Ids
    BY <1>1, <1>5, LineTyped
  <2>2. half \in Half
    BY <1>1, <2>1, HalfTyped DEF Half
  <2>3. /\ Seen("exchange.payment", me, m) = {m}
        /\ Seen("exchange.closed", me, m) = Seen("exchange.closed", me, n)
        /\ IsHalfRead(old, me, n)
    BY <1>1, <1>2, <1>3, <1>5, <2>1, FirstOfItsKind
  <2>4. IsHalfRead(half, me, m)
    BY <2>3 DEF IsHalfRead
  <2>5. Promote(me, half) /\ UNCHANGED results
    BY <1>5 DEF IngestDecoderEvent
  <2> HIDE DEF half, me
  <2> QED
    BY <1>1, <1>2, <1>3, <1>5, <2>2, <2>4, <2>5, JoinRead DEF me
<1>6. CASE Line.event = "chain.transfer" /\ IngestChainTransfer(Line.transfer)
           /\ ~Throws(Line.transfer)
  BY <1>1, <1>2, <1>3, <1>6, TransferRead
<1>7. CASE Line.event = "other" /\ UNCHANGED engineVars
  <2> SUFFICES ASSUME NEW id \in Ids
               PROVE  AsRead(id, m)'
    OBVIOUS
  <2>1. /\ Seen("exchange.closed", id, m) = Seen("exchange.closed", id, n)
        /\ Seen("exchange.payment", id, m) = Seen("exchange.payment", id, n)
    BY <1>1, <1>2, <1>7, SeenGrows
  <2>2. NoneYet(id, n) => NoneYet(id, m)
    BY <1>1, <1>2, <1>7, NotATransfer
  <2>3. UNCHANGED <<partial, pending, results>> /\ HalfOf(id)' = HalfOf(id)
    BY <1>7 DEF engineVars, HalfOf
  <2> QED
    BY <1>1, <1>2, <1>3, <2>1, <2>2, <2>3, Kept
<1> QED
  BY <1>4, <1>5, <1>6, <1>7 DEF IngestLine

LEMMA LogFollows ==
  ASSUME Basics, OneHalfEach(log), NoSharedTransfer(log), WatchTimeout > 0,
         [ReplayNext]_replayVars, LogFollowed
  PROVE  LogFollowed'
<1> SUFFICES ASSUME stage' # "rejected"
             PROVE  \A id \in Ids : AsRead(id, Handled)'
  BY DEF LogFollowed
<1>1. /\ IngestLine => Handled = position - 1 /\ Handled' = position
      /\ ~IngestLine => Handled' = Handled /\ log' = log
      /\ Handled \in Nat /\ FileInStep
  BY HandledMoves, HandledTyped DEF Basics
<1>2. CASE stage = "rejected"
  BY <1>2 DEF ReplayNext, ReadLine, TickAtLine, IngestLine, JumpPastTimeout, LastTick,
              Unsubscribe, Collect, Return, replayVars
<1>3. CASE IngestLine /\ stage # "rejected"
  <2>1. PICK m : m = position /\ m = Handled'
    BY <1>1, <1>3
  <2>2. PICK n : n = m - 1 /\ n = Handled
    BY <1>1, <1>3, <2>1
  <2>3. \A id \in Ids : AsRead(id, n)
    BY <1>3, <2>2 DEF LogFollowed
  <2>4. \A id \in Ids : AsRead(id, m)'
    BY <1>3, <2>1, <2>2, <2>3, IngestFollows
  <2> QED
    BY <2>1, <2>4
<1>4. CASE ~IngestLine /\ stage # "rejected"
  <2>1. PICK n : n = Handled /\ n = Handled'
    BY <1>1, <1>4
  <2>2. \A id \in Ids : AsRead(id, n)
    BY <1>4, <2>1 DEF LogFollowed
  <2>3. n \in Nat /\ log' = log
    BY <1>1, <1>4, <2>1
  <2>4. CASE TickAtLine \/ LastTick
    <3>1. Sweep /\ now' = now
      BY <2>4 DEF TickAtLine, LastTick
    <3>2. \A id \in Ids : AsRead(id, n)'
      BY <2>2, <2>3, <3>1, SweepRead
    <3> QED
      BY <2>1, <3>2
  <2>5. CASE ReadLine \/ JumpPastTimeout \/ Unsubscribe \/ Collect \/ Return
             \/ UNCHANGED replayVars
    <3>1. UNCHANGED <<partial, pending, results>>
      BY <2>5 DEF ReadLine, JumpPastTimeout, Unsubscribe, Collect, Return, replayVars,
                  engineVars
    <3>2. now \in Nat /\ now' \in Nat /\ now <= now'
      BY ClockNeverBack
    <3>3. \A id \in Ids : AsRead(id, n)'
      BY <1>1, <2>2, <2>3, <3>1, <3>2, ClockMovesOn
    <3> QED
      BY <2>1, <3>3
  <2> QED
    BY <1>4, <2>4, <2>5 DEF ReplayNext
<1> QED
  BY <1>2, <1>3, <1>4

----------------------------------------------------------------------------
\* The results are collected.

\* A file names finitely many exchanges.
LEMMA WatchedFinite ==
  ASSUME FileInStep
  PROVE  IsFiniteSet(WatchedIds(log)) /\ Cardinality(WatchedIds(log)) \in Nat
<1> DEFINE S == DOMAIN log
           f == [k \in S |-> log[k].id]
           T == {f[k] : k \in S}
<1>1. IsFiniteSet(S)
  BY LogLength, FS_Interval
<1>2. f \in Surjection(S, T)
  BY DEF Surjection
<1>3. IsFiniteSet(T)
  <2> HIDE DEF S, f, T
  <2> QED
    BY <1>1, <1>2, FS_Surjection
<1>4. WatchedIds(log) \in SUBSET T
  <2> SUFFICES ASSUME NEW id \in WatchedIds(log)
               PROVE  id \in T
    OBVIOUS
  <2>1. PICK k \in LinesOf(log, "exchange.closed", id) : TRUE
    BY DEF WatchedIds, Watched
  <2>2. k \in S /\ f[k] = id
    BY <2>1 DEF LinesOf, Lines
  <2> QED
    BY <2>2
<1> HIDE DEF T
<1>5. IsFiniteSet(WatchedIds(log))
  BY <1>3, <1>4, FS_Subset
<1> QED
  BY <1>5, FS_CardinalityType

\* Only watched exchanges are pending or have a result, and none both.
LEMMA OnlyWatched ==
  ASSUME Basics, LogFollowed, stage # "rejected"
  PROVE  /\ DOMAIN pending \subseteq WatchedIds(log) \ Reported
         /\ Reported \subseteq WatchedIds(log)
         /\ IsFiniteSet(DOMAIN pending) /\ IsFiniteSet(Reported)
<1>1. DOMAIN pending \subseteq Ids
  BY DEF Basics, EngineTypeOK, IsMap
<1>2. PICK n : n = Handled
  OBVIOUS
<1>3. \A id \in Ids : AsRead(id, n)
  BY <1>2 DEF LogFollowed
<1>4. \A id \in Ids : id \in DOMAIN pending => Watched(log, id) /\ results[id] = <<>>
  BY <1>3 DEF AsRead, IsOut, HasVerdict, Waits
<1>5. \A id \in Ids : results[id] # <<>> => Watched(log, id)
  BY <1>3 DEF AsRead, IsOut
<1>6. /\ DOMAIN pending \in SUBSET WatchedIds(log) /\ Reported \in SUBSET WatchedIds(log)
      /\ DOMAIN pending \subseteq WatchedIds(log) \ Reported
  BY <1>1, <1>4, <1>5 DEF WatchedIds, Reported
<1> QED
  BY <1>6, WatchedFinite, FS_Subset DEF Basics

\* What is held or collected has been reported.
LEMMA ToldReported ==
  ASSUME NEW e \in Told
  PROVE  e.id \in Reported
<1>1. e.id \in Ids /\ results[e.id] = <<e.result>>
  BY DEF Told, Emission
<1>2. <<e.result>> # <<>>
  OBVIOUS
<1> QED
  BY <1>1, <1>2 DEF Reported

LEMMA OnlyReported ==
  ASSUME IsLoop(resultLoop, Told), collected \in Seq(Told)
  PROVE  HeldIds(resultLoop) \subseteq Reported /\ CollectedIds \subseteq Reported
<1>1. \A e \in Told : e.id \in Reported
  BY ToldReported
<1>2. resultLoop.hand \in Seq(Told) /\ resultLoop.sub.queue \in Seq(Told)
  BY LoopFields
<1>3. /\ \A k \in DOMAIN resultLoop.hand : resultLoop.hand[k] \in Told
      /\ \A k \in DOMAIN resultLoop.sub.queue : resultLoop.sub.queue[k] \in Told
      /\ \A k \in DOMAIN collected : collected[k] \in Told
  BY <1>2
<1> QED
  BY <1>1, <1>3 DEF HeldIds, CollectedIds

\* A handler's results: each is new, all fit into the queue and the hand.
LEMMA EmitsCollected ==
  ASSUME Basics, EngineTypeOK', PlainLog(log), LogFollowed, LoopInStep, ResultsCollected,
         stage \notin {"rejected", "draining", "returned"},
         stage' \notin {"draining", "returned"},
         \/ Sweep
         \/ \E t \in Transfers : IngestChainTransfer(t)
         \/ UNCHANGED results,
         EmitResults, UNCHANGED <<collected, log>>
  PROVE  LoopInStep' /\ ResultsCollected'
<1>1. /\ DOMAIN pending \subseteq WatchedIds(log) \ Reported
      /\ Reported \subseteq WatchedIds(log)
      /\ IsFiniteSet(DOMAIN pending) /\ IsFiniteSet(Reported)
      /\ DOMAIN pending \subseteq Ids
  BY OnlyWatched DEF Basics, EngineTypeOK, IsMap
<1>2. /\ IsLoop(resultLoop, Told) /\ InOrder(resultLoop) /\ Subscribed(resultLoop)
      /\ InStep(resultLoop)
      /\ Len(resultLoop.sub.queue) <= MaxQueue /\ resultLoop.sub.dropped = 0
      /\ collected \in Seq(Told) /\ IdsDistinct(resultLoop)
      /\ CollectedIds \intersect HeldIds(resultLoop) = {}
      /\ Cardinality(Reported) = Len(collected) + Load(resultLoop)
  BY DEF LoopInStep, ResultsCollected, InStep, Subscribed
<1>3. DOMAIN pending \subseteq Ids \ Reported
  BY <1>1
<1>4. /\ Emitting \subseteq DOMAIN pending /\ Emitting \subseteq Ids \ Reported
      /\ Reported' = Reported \union Emitting
      /\ Cardinality(Reported') = Cardinality(Reported) + Cardinality(Emitting)
      /\ Emissions \in Seq(Emission)
      /\ Len(Emissions) = Cardinality(Emitting)
      /\ Cardinality(Emitting) \in Nat
      /\ \A j, k \in DOMAIN Emissions : j # k => Emissions[j].id # Emissions[k].id
      /\ {Emissions[k].id : k \in DOMAIN Emissions} = Emitting
      /\ \A k \in DOMAIN Emissions : results'[Emissions[k].id] = <<Emissions[k].result>>
  BY <1>1, <1>3, NewVerdicts DEF Basics
<1> DEFINE wider == Told'
           events == Emissions
           l == resultLoop'
<1>5. Told \subseteq wider
  <2> SUFFICES ASSUME NEW e \in Told
               PROVE  e \in Told'
    OBVIOUS
  <2>1. e \in Emission /\ e.id \in Ids /\ results[e.id] = <<e.result>>
    BY DEF Told, Emission
  <2>2. e.id \notin Emitting
    BY <1>4, ToldReported
  <2>3. results'[e.id] = results[e.id]
    BY <2>1, <2>2 DEF Emitting
  <2> QED
    BY <2>1, <2>3 DEF Told
<1>6. events \in Seq(wider)
  <2>1. \A k \in DOMAIN Emissions : Emissions[k] \in Emission
    BY <1>4
  <2>2. \A k \in DOMAIN Emissions : Emissions[k] \in Told'
    BY <1>4, <2>1 DEF Told
  <2> HIDE DEF wider
  <2>3. Len(Emissions) \in Nat /\ Emissions = [k \in 1..Len(Emissions) |-> Emissions[k]]
        /\ DOMAIN Emissions = 1..Len(Emissions)
    BY <1>4
  <2>4. \A k \in 1..Len(Emissions) : Emissions[k] \in wider
    BY <2>2, <2>3 DEF wider
  <2> QED
    BY <2>3, <2>4
<1>7. HeldIds(resultLoop) \subseteq Reported /\ CollectedIds \subseteq Reported
  BY <1>2, OnlyReported
<1>8. Fresh(events, resultLoop)
  <2>1. \A k \in DOMAIN Emissions : Emissions[k].id \in Emitting
    BY <1>4
  <2> QED
    BY <1>4, <1>7, <2>1 DEF Fresh
<1>9. MaxQueue \in Nat \ {0} /\ l = OfferAll(resultLoop, events, MaxQueue)
  BY MaxQueueAssumption DEF EmitResults
<1>10. IsLoop(resultLoop, wider) /\ collected \in Seq(wider)
  <2> HIDE DEF wider
  <2>1. Seq(Told) \subseteq Seq(wider)
    BY <1>5
  <2>2. IsLoop(resultLoop, wider)
    BY <1>2, <1>5, LoopWidens
  <2> QED
    BY <1>2, <2>1, <2>2
<1> HIDE DEF wider, events, l
<1>11. DropsExcused(resultLoop, MaxQueue)
  BY <1>2 DEF DropsExcused
<1>12. /\ IsLoop(l, wider) /\ InStep(l) /\ Len(l.sub.queue) <= MaxQueue
       /\ Subscribed(l)
       /\ IdsDistinct(l)
       /\ HeldIds(l) \subseteq HeldIds(resultLoop) \union {events[k].id : k \in DOMAIN events}
       /\ Load(l) = Load(resultLoop) + Len(events)
       /\ DropsExcused(l, MaxQueue)
  BY <1>2, <1>8, <1>6, <1>9, <1>10, <1>11, OfferAllFacts
<1> DEFINE c == Len(collected)
           a == Load(resultLoop)
           b == Load(l)
           e == Cardinality(Emitting)
           r == Cardinality(Reported')
<1>13. c \in Nat /\ a \in Nat /\ b \in Nat /\ e \in Nat
  BY <1>2, <1>4, <1>12, LoopFields
<1>14. Cardinality(Reported) = c + a /\ b = a + e /\ r = Cardinality(Reported) + e
  BY <1>2, <1>4, <1>12 DEF events
<1>15. r <= MaxQueue + 1
  <2> DEFINE R == Reported'
  <2>1. R \in SUBSET WatchedIds(log)
    BY <1>1, <1>4
  <2>2. IsFiniteSet(WatchedIds(log)) /\ Cardinality(WatchedIds(log)) \in Nat
    BY WatchedFinite DEF Basics
  <2> HIDE DEF R
  <2>3. IsFiniteSet(R) /\ Cardinality(R) <= Cardinality(WatchedIds(log))
    BY <2>1, <2>2, FS_Subset
  <2>4. Cardinality(R) \in Nat
    BY <2>3, FS_CardinalityType
  <2>5. Cardinality(WatchedIds(log)) <= MaxQueue + 1
    BY DEF PlainLog
  <2>6. Cardinality(R) <= MaxQueue + 1
    BY <1>9, <2>2, <2>3, <2>4, <2>5
  <2> QED
    BY <2>6 DEF R
<1> HIDE DEF a, b, c, e, r
<1>16. r = c + b /\ b <= MaxQueue + 1
  BY <1>9, <1>13, <1>14, <1>15
<1>17. l.sub.dropped = 0
  BY <1>9, <1>12, <1>13, <1>16 DEF DropsExcused, b
<1>18. LoopInStep'
  BY <1>12, <1>17 DEF LoopInStep, InStep, l, wider
<1>19. CollectedIds' = CollectedIds
  BY DEF CollectedIds
<1>20. CollectedIds' \intersect HeldIds(resultLoop') = {}
  BY <1>2, <1>4, <1>7, <1>12, <1>19 DEF l, events
<1>21. Cardinality(Reported)' = Len(collected)' + Load(resultLoop)'
  BY <1>16 DEF r, c, b, l
<1>22. IsFiniteSet(Reported')
  BY <1>1, <1>4, WatchedFinite, FS_Subset DEF Basics
<1>23. /\ collected' \in Seq(Told')
       /\ \A j, k \in DOMAIN collected' : collected'[j].id = collected'[k].id => j = k
  BY <1>10 DEF wider, ResultsCollected
<1>24. IdsDistinct(resultLoop')
  BY <1>12 DEF l
<1>25. ResultsCollected'
  BY <1>20, <1>21, <1>22, <1>23, <1>24 DEF ResultsCollected
<1> QED
  BY <1>18, <1>25

LEMMA CollectCollected ==
  ASSUME LoopInStep, ResultsCollected, Collect
  PROVE  LoopInStep' /\ ResultsCollected'
<1>1. /\ Busy(resultLoop) /\ resultLoop' = AskAgain(resultLoop)
      /\ collected' = Append(collected, resultLoop.hand[1])
      /\ stage' = stage /\ results' = results /\ stage # "returned"
  BY DEF Collect, engineVars
<1>2. /\ IsLoop(resultLoop, Told) /\ InOrder(resultLoop)
      /\ Len(resultLoop.sub.queue) <= MaxQueue /\ resultLoop.sub.dropped = 0
      /\ collected \in Seq(Told) /\ IdsDistinct(resultLoop)
      /\ CollectedIds \intersect HeldIds(resultLoop) = {}
      /\ Cardinality(Reported) = Len(collected) + Load(resultLoop)
      /\ Len(resultLoop.sub.queue) \in Nat
  BY LoopFields DEF LoopInStep, ResultsCollected
<1>3. Told' = Told /\ Reported' = Reported
  BY <1>1 DEF Told, Reported
<1> DEFINE l == resultLoop'
           e == resultLoop.hand[1]
           told == Told
<1>4. l = AskAgain(resultLoop)
  BY <1>1
<1> HIDE DEF l
<1>5. /\ IsLoop(l, Told) /\ InOrder(l) /\ l.sub.done = resultLoop.sub.done
      /\ Load(resultLoop) = Load(l) + 1
      /\ l.sub.dropped = resultLoop.sub.dropped
      /\ Len(l.sub.queue) <= Len(resultLoop.sub.queue)
  BY <1>1, <1>2, <1>4, AskAgainMoves
<1>6. /\ IdsDistinct(l) /\ e.id \in HeldIds(resultLoop)
      /\ HeldIds(l) \subseteq HeldIds(resultLoop) \ {e.id}
  BY <1>1, <1>2, <1>4, AskAgainDistinct
<1>7. e \in Told
  BY <1>1, <1>2, LoopFields
<1> HIDE DEF e
<1>8. Len(l.sub.queue) <= MaxQueue
  <2>1. Len(l.sub.queue) \in Nat
    BY <1>5, LoopFields
  <2> QED
    BY <1>2, <1>5, <2>1, MaxQueueAssumption
<1>9. LoopInStep'
  BY <1>1, <1>2, <1>3, <1>5, <1>8 DEF LoopInStep, Subscribed, l
<1>10. /\ collected' = Append(collected, e) /\ collected' \in Seq(Told)
       /\ Len(collected') = Len(collected) + 1 /\ Len(collected) \in Nat
       /\ DOMAIN collected = 1..Len(collected) /\ DOMAIN collected' = 1..(Len(collected) + 1)
       /\ \A k \in DOMAIN collected : collected'[k] = collected[k]
       /\ collected'[Len(collected) + 1] = e
  BY <1>1, <1>2, <1>7 DEF e
<1>11. \A k \in DOMAIN collected : collected[k].id # e.id
  BY <1>2, <1>6 DEF CollectedIds
<1>12. \A j, k \in DOMAIN collected' : collected'[j].id = collected'[k].id => j = k
  <2>1. \A j, k \in DOMAIN collected : collected[j].id = collected[k].id => j = k
    BY DEF ResultsCollected
  <2>2. \A k \in DOMAIN collected' : k \in DOMAIN collected \/ k = Len(collected) + 1
    BY <1>10
  <2> QED
    BY <1>10, <1>11, <2>1, <2>2
<1>13. CollectedIds' \subseteq CollectedIds \union {e.id}
  <2>1. \A k \in DOMAIN collected' : k \in DOMAIN collected \/ k = Len(collected) + 1
    BY <1>10
  <2> QED
    BY <1>10, <2>1 DEF CollectedIds
<1>14. CollectedIds' \intersect HeldIds(resultLoop') = {}
  BY <1>2, <1>6, <1>13 DEF l
<1>15. Cardinality(Reported) = Len(collected') + Load(l)
  <2> DEFINE a == Load(resultLoop)
             b == Load(l)
             c == Len(collected)
  <2>1. a \in Nat /\ b \in Nat /\ c \in Nat
    BY <1>2, <1>5, <1>10, LoopFields
  <2>2. Cardinality(Reported) = c + a /\ a = b + 1 /\ Len(collected') = c + 1
    BY <1>2, <1>5, <1>10
  <2> HIDE DEF a, b, c
  <2>3. Cardinality(Reported) = Len(collected') + b
    BY <2>1, <2>2
  <2> QED
    BY <2>3 DEF b
<1>16. ResultsCollected'
  BY <1>3, <1>6, <1>10, <1>12, <1>14, <1>15 DEF ResultsCollected, l
<1> QED
  BY <1>9, <1>16

LEMMA UnsubscribeCollected ==
  ASSUME LoopInStep, ResultsCollected, Unsubscribe
  PROVE  LoopInStep' /\ ResultsCollected'
<1>1. /\ resultLoop' = Unsubscribed(resultLoop) /\ stage' = "draining"
      /\ UNCHANGED <<results, collected>>
  BY DEF Unsubscribe, engineVars
<1>2. Told' = Told /\ Reported' = Reported /\ CollectedIds' = CollectedIds
  BY <1>1 DEF Told, Reported, CollectedIds
<1> DEFINE l == resultLoop'
<1>3. l = Unsubscribed(resultLoop) /\ IsLoop(resultLoop, Told) /\ InOrder(resultLoop)
  BY <1>1 DEF LoopInStep
<1> HIDE DEF l
<1>4. /\ IsLoop(l, Told) /\ InOrder(l) /\ ~Subscribed(l)
      /\ l.hand = resultLoop.hand /\ l.sub.queue = resultLoop.sub.queue
      /\ l.sub.dropped = resultLoop.sub.dropped
  BY <1>3, StopFacts
<1>5. Load(l) = Load(resultLoop) /\ HeldIds(l) = HeldIds(resultLoop)
      /\ (IdsDistinct(l) <=> IdsDistinct(resultLoop))
  BY <1>4 DEF Load, HeldIds, IdsDistinct, Busy
<1>6. LoopInStep'
  BY <1>1, <1>2, <1>4 DEF LoopInStep, l
<1>7. ResultsCollected'
  BY <1>1, <1>2, <1>5 DEF ResultsCollected, l
<1> QED
  BY <1>6, <1>7

LEMMA StepCollected ==
  ASSUME Basics, PlainLog(log), LogFollowed, LoopInStep, ResultsCollected,
         [ReplayNext]_replayVars
  PROVE  LoopInStep' /\ ResultsCollected'
<1>1. EngineTypeOK'
  BY StepBasics DEF Basics
<1>2. CASE TickAtLine \/ LastTick
  BY <1>1, <1>2, EmitsCollected DEF TickAtLine, LastTick
<1>3. CASE IngestLine
  <2>1. /\ stage = "ingest" /\ stage' \in {"next", "rejected"} /\ EmitResults
        /\ UNCHANGED <<collected, log>>
    BY <1>3 DEF IngestLine
  <2>2. \/ \E t \in Transfers : IngestChainTransfer(t)
        \/ UNCHANGED results
    <3>1. Line.event = "chain.transfer" => Line.transfer \in Transfers
      BY <2>1, LineTyped DEF Basics, FileInStep
    <3> QED
      BY <1>3, <3>1 DEF IngestLine, IngestProxyEvent, IngestDecoderEvent, engineVars
  <2> QED
    BY <1>1, <2>1, <2>2, EmitsCollected
<1>4. CASE Collect
  BY <1>4, CollectCollected
<1>5. CASE Unsubscribe
  BY <1>5, UnsubscribeCollected
<1>6. CASE ReadLine \/ JumpPastTimeout \/ Return \/ UNCHANGED replayVars
  <2>1. /\ UNCHANGED <<results, resultLoop, collected>>
        /\ (stage' \in {"draining", "returned"} <=> stage \in {"draining", "returned"})
        /\ stage' = "returned" => ~Busy(resultLoop)
    BY <1>6 DEF ReadLine, JumpPastTimeout, Return, Ended, replayVars, engineVars, LoopInStep
  <2>2. Told' = Told /\ Reported' = Reported /\ CollectedIds' = CollectedIds
    BY <2>1 DEF Told, Reported, CollectedIds
  <2>3. LoopInStep'
    BY <2>1, <2>2 DEF LoopInStep
  <2>4. ResultsCollected'
    BY <2>1, <2>2 DEF ResultsCollected
  <2> QED
    BY <2>3, <2>4
<1> QED
  BY <1>2, <1>3, <1>4, <1>5, <1>6 DEF ReplayNext

LEMMA StartCollected ==
  ASSUME ReplayInit
  PROVE  LogFollowed /\ LoopInStep /\ ResultsCollected
<1>1. /\ EngineInit /\ resultLoop = NewLoop /\ position = 0 /\ stage = "next"
      /\ collected = <<>> /\ log \in Logs /\ FileInStep
  BY InitBasics DEF ReplayInit, Basics
<1>2. /\ results = [id \in Ids |-> <<>>] /\ DOMAIN pending = {} /\ DOMAIN partial = {}
  BY <1>1 DEF EngineInit
<1>3. \A id \in Ids : AsRead(id, 0)
  <2> SUFFICES ASSUME NEW id \in Ids
               PROVE  AsRead(id, 0)
    OBVIOUS
  <2>1. \A event : LinesOf(log, event, id) \subseteq Nat \ {0}
    BY <1>1, LogLength DEF LinesOf, Lines
  <2>2. \A event : Seen(event, id, 0) = {}
    BY <2>1 DEF Seen
  <2>3. HalfOf(id) = [payment |-> FALSE, outcome |-> NoOutcome]
    BY <1>2 DEF HalfOf
  <2>4. HalfOf(id).payment = FALSE /\ HalfOf(id).outcome = NoOutcome
    BY <2>3
  <2>5. IsHalfRead(HalfOf(id), id, 0)
    BY <2>2, <2>4 DEF IsHalfRead
  <2>6. IsOut(id)
    BY <1>2 DEF IsOut
  <2> QED
    BY <2>2, <2>5, <2>6 DEF AsRead
<1>4. LogFollowed
  BY <1>1, <1>3 DEF LogFollowed, Handled
<1>5. /\ IsLoop(resultLoop, Told) /\ InStep(resultLoop) /\ Subscribed(resultLoop)
      /\ resultLoop.hand = <<>> /\ resultLoop.sub.queue = <<>>
      /\ resultLoop.sub.dropped = 0
  BY <1>1, NewLoopFacts
<1>6. Len(<<>>) = 0 /\ <<>> \in Seq(Told) /\ DOMAIN <<>> = {}
  OBVIOUS
<1>7. LoopInStep
  BY <1>1, <1>5, <1>6, MaxQueueAssumption DEF LoopInStep, InStep
<1>8. Reported = {} /\ IsFiniteSet(Reported) /\ Cardinality(Reported) = 0
  BY <1>2, FS_EmptySet DEF Reported
<1>9. Load(resultLoop) = 0 /\ CollectedIds = {} /\ IdsDistinct(resultLoop)
  BY <1>1, <1>5, <1>6 DEF Load, CollectedIds, IdsDistinct
<1>10. ResultsCollected
  BY <1>1, <1>6, <1>8, <1>9 DEF ResultsCollected
<1> QED
  BY <1>4, <1>7, <1>10

THEOREM ReplayInvariant == ReplaySpec => []ReplayInductive
<1> DEFINE Agrees == WatchTimeout > 0 /\ PlainLog(log) =>
                       LogFollowed /\ LoopInStep /\ ResultsCollected
<1>1. ReplayInit => Basics /\ Agrees
  BY InitBasics, StartCollected
<1>2. Basics /\ Agrees /\ [ReplayNext]_replayVars => (Basics /\ Agrees)'
  <2> SUFFICES ASSUME Basics, Agrees, [ReplayNext]_replayVars
               PROVE  (Basics /\ Agrees)'
    OBVIOUS
  <2>1. log' = log
    BY DEF ReplayNext, ReadLine, TickAtLine, IngestLine, JumpPastTimeout, LastTick,
           Unsubscribe, Collect, Return, replayVars
  <2>2. ASSUME WatchTimeout > 0, PlainLog(log)
        PROVE  LogFollowed' /\ LoopInStep' /\ ResultsCollected'
    <3>1. LogFollowed /\ LoopInStep /\ ResultsCollected
      BY <2>2
    <3>2. LoopInStep' /\ ResultsCollected'
      BY <2>2, <3>1, StepCollected
    <3>3. LogFollowed'
      BY <2>2, <3>1, LogFollows DEF PlainLog
    <3> QED
      BY <3>2, <3>3
  <2>3. Basics'
    BY StepBasics
  <2> QED
    BY <2>1, <2>2, <2>3
<1>3. Basics /\ Agrees => ReplayInductive
  BY DEF Basics, ReplayInductive
<1> QED
  BY <1>1, <1>2, <1>3, PTL DEF ReplaySpec

\* When every line is handled, a verdict told is the log's.
LEMMA ToldIsVerdict ==
  ASSUME FileInStep, NEW n, n = Len(log), NEW id, NEW kind, IsTold(id, kind, n)
  PROVE  kind = LogVerdict(log, id)
<1> DEFINE S == InTime(log, id)
<1>1. \A k \in S : k \in Nat /\ k <= n
  BY LogLength DEF InTime, Lines
<1>2. CASE kind = "not_settled" /\ NoneYet(id, n)
  <2>1. S = {}
    BY <1>1, <1>2, LogLength DEF NoneYet
  <2> QED
    BY <1>2, <2>1 DEF LogVerdict
<1>3. CASE \E k \in 1..n : IsFirst(k, S) /\ kind = ResultKindOf(Compare(log, id, k))
  <2>1. PICK k \in 1..n : IsFirst(k, S) /\ kind = ResultKindOf(Compare(log, id, k))
    BY <1>3
  <2>2. S # {} /\ k \in S
    BY <2>1 DEF IsFirst
  <2>3. ASSUME NEW j \in S, IsFirst(j, S)
        PROVE  j = k
    BY <1>1, <2>1, <2>2, <2>3 DEF IsFirst
  <2> HIDE DEF S
  <2>4. (CHOOSE j \in S : IsFirst(j, S)) = k
    BY <2>1, <2>2, <2>3
  <2> DEFINE first == CHOOSE j \in S : IsFirst(j, S)
  <2>5. LogVerdict(log, id) = ResultKindOf(Compare(log, id, first))
    BY <2>2 DEF LogVerdict, S
  <2> QED
    BY <2>1, <2>4, <2>5
<1> QED
  BY <1>2, <1>3 DEF IsTold

\* As many collected results as there are exchanges with one, no two of them of
\* the same exchange: each of these has one.
LEMMA AllCollected ==
  ASSUME ResultsCollected, Load(resultLoop) = 0
  PROVE  CollectedIds = Reported
<1> DEFINE C == CollectedIds
           R == Reported
           n == Len(collected)
           f == [k \in 1..n |-> collected[k].id]
<1>1. /\ collected \in Seq(Told) /\ IsFiniteSet(R) /\ n \in Nat
      /\ DOMAIN collected = 1..n /\ Cardinality(R) = n + Load(resultLoop)
      /\ \A j, k \in 1..n : collected[j].id = collected[k].id => j = k
  BY DEF ResultsCollected
<1>2. Cardinality(R) = n
  BY <1>1
<1>3. C \in SUBSET R
  <2>1. \A k \in DOMAIN collected : collected[k] \in Told
    BY <1>1
  <2> QED
    BY <2>1, ToldReported DEF CollectedIds
<1>4. f \in Injection(1..n, C) /\ IsFiniteSet(C)
  <2>1. IsFiniteSet(C)
    <3> HIDE DEF C, R
    <3> QED
      BY <1>1, <1>3, FS_Subset
  <2>2. f \in [1..n -> C]
    BY <1>1 DEF CollectedIds
  <2>3. \A j, k \in 1..n : f[j] = f[k] => j = k
    BY <1>1
  <2> QED
    BY <2>1, <2>2, <2>3 DEF Injection, IsInjective
<1> HIDE DEF f, C, R, n
<1>5. n <= Cardinality(C)
  <2>1. Cardinality(1..n) <= Cardinality(C)
    BY <1>4, FS_Injection
  <2>2. Cardinality(1..n) = n
    BY <1>1, FS_Interval
  <2> QED
    BY <2>1, <2>2
<1>6. Cardinality(C) <= Cardinality(R) /\ (Cardinality(R) = Cardinality(C) => R = C)
  BY <1>1, <1>3, FS_Subset
<1>7. Cardinality(C) \in Nat
  BY <1>4, FS_CardinalityType
<1>8. Cardinality(R) = Cardinality(C)
  BY <1>1, <1>2, <1>5, <1>6, <1>7
<1> QED
  BY <1>6, <1>8 DEF C, R

\* At the end the results are the verdicts of the log.
LEMMA AgreesAtLast ==
  ASSUME ReplayInductive, WatchTimeout > 0, PlainLog(log), stage = "returned",
         NEW id \in Ids
  PROVE  /\ Cardinality(CollectedFor(id)) = IF Watched(log, id) THEN 1 ELSE 0
         /\ \A k \in CollectedFor(id) : collected[k].result.kind = LogVerdict(log, id)
<1>1. /\ FileInStep /\ ClockInStep /\ LogFollowed /\ LoopInStep /\ ResultsCollected
  BY DEF ReplayInductive
<1>2. /\ position = Len(log) /\ Handled = Len(log) /\ DOMAIN pending = {}
  BY <1>1 DEF FileInStep, ClockInStep, Over, Handled
<1>3. PICK n : n = Len(log)
  OBVIOUS
<1>4. AsRead(id, n)
  BY <1>1, <1>2, <1>3 DEF LogFollowed
<1>5. \A event : Seen(event, id, n) = LinesOf(log, event, id)
  BY <1>1, <1>3, LogLength DEF Seen, LinesOf, Lines
<1>6. Watched(log, id) => HasVerdict(id, n)
  <2>1. Watched(log, id) => /\ LinesOf(log, "exchange.closed", id) # {}
                            /\ LinesOf(log, "exchange.payment", id) # {}
    BY DEF Watched
  <2> QED
    BY <1>2, <1>4, <1>5, <2>1 DEF AsRead, Waits
<1>7. ~Watched(log, id) => results[id] = <<>>
  BY <1>4 DEF AsRead, IsOut
<1>8. CollectedIds = Reported
  <2>1. /\ resultLoop.hand = <<>> /\ resultLoop.sub.queue = <<>>
        /\ resultLoop.sub.dropped = 0
    BY <1>1 DEF LoopInStep, InOrder, Busy
  <2>2. Len(<<>>) = 0
    OBVIOUS
  <2>3. Load(resultLoop) = 0
    BY <2>1, <2>2 DEF Load
  <2> QED
    BY <1>1, <2>3, AllCollected
<1>9. /\ \A k \in DOMAIN collected : collected[k] \in Told
      /\ \A j, k \in DOMAIN collected : collected[j].id = collected[k].id => j = k
  <2>1. collected \in Seq(Told)
    BY <1>1 DEF ResultsCollected
  <2>2. \A k \in DOMAIN collected : collected[k] \in Told
    BY <2>1
  <2> QED
    BY <1>1, <2>2 DEF ResultsCollected
<1>10. CASE ~Watched(log, id)
  <2>1. id \notin CollectedIds
    BY <1>7, <1>8, <1>10 DEF Reported
  <2>2. CollectedFor(id) = {}
    BY <2>1 DEF CollectedFor, CollectedIds
  <2> QED
    BY <1>10, <2>2, FS_EmptySet
<1>11. CASE Watched(log, id)
  <2>1. HasVerdict(id, n) /\ results[id] # <<>>
    BY <1>6, <1>11 DEF HasVerdict
  <2>2. PICK k \in DOMAIN collected : collected[k].id = id
    BY <1>8, <2>1 DEF Reported, CollectedIds
  <2>3. CollectedFor(id) = {k}
    BY <1>9, <2>2 DEF CollectedFor
  <2>4. collected[k].result.kind = LogVerdict(log, id)
    <3>1. results[id] = <<collected[k].result>>
      BY <1>9, <2>2 DEF Told
    <3>2. results[id][1] = collected[k].result
      BY <3>1
    <3>3. IsTold(id, collected[k].result.kind, n)
      BY <2>1, <3>2 DEF HasVerdict
    <3> QED
      BY <1>1, <1>3, <3>3, ToldIsVerdict
  <2> QED
    BY <1>11, <2>3, <2>4, FS_Singleton
<1> QED
  BY <1>10, <1>11

\* The replay reports of every exchange exactly what the log says of it, for
\* every log in which no exchange can take another's place, of any length and
\* with its lines in any order, and however the collecting loop is scheduled.
THEOREM ReplayReportsTheLog ==
  ASSUME WatchTimeout > 0, \A lines \in Logs : PlainLog(lines)
  PROVE  ReplaySpec => []ReplayAgreesWithLog
<1>1. ReplayInductive => ReplayAgreesWithLog
  <2> SUFFICES ASSUME ReplayInductive, stage = "returned"
               PROVE  \A id \in Ids :
                        /\ Cardinality(CollectedFor(id)) = IF Watched(log, id) THEN 1 ELSE 0
                        /\ \A k \in CollectedFor(id) :
                             collected[k].result.kind = LogVerdict(log, id)
    BY DEF ReplayAgreesWithLog
  <2>1. PlainLog(log)
    BY DEF ReplayInductive, FileInStep
  <2> QED
    BY <2>1, AgreesAtLast
<1> QED
  BY <1>1, ReplayInvariant, PTL
============================================================================
