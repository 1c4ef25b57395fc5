------------------------- MODULE ReachabilityProofs -------------------------
(***************************************************************************)
(* Theorems about checks that share a history file, for any number of      *)
(* them, any services, any file the earlier runs left, any windows and any *)
(* threshold: what the checks read is what runs have recorded, each run    *)
(* once, and no service is called unreachable without its witnesses.       *)
(***************************************************************************)
EXTENDS Reachability, FiniteSetTheorems, TLAPS

Lines(log) == {log[i] : i \in DOMAIN log}

\* A run writes one line, at its end.
FileWritten ==
  /\ file \in Seq(Lines(file))
  /\ \A i \in DOMAIN file : isProbeAttemptRecord(file[i]) =>
       /\ file[i].t \in Int /\ file[i].t <= now
       /\ file[i].by \in Checks => phase[file[i].by] = "reported"
       /\ \A j \in DOMAIN file :
            isProbeAttemptRecord(file[j]) /\ file[j].by = file[i].by => i = j

RecordBuilt(c) ==
  IF Recording(c)
  THEN /\ isProbeAttemptRecord(record[c])
       /\ record[c].t \in 0..now /\ record[c].service_url = UrlOf[c]
       /\ record[c].cause = cause[c] /\ record[c].by = c
  ELSE record[c] = None

\* A history: records of one service by runs that are over, each once, from old
\* to new, none of them newer than time.
History(h, url, c, time) ==
  /\ h \in Seq(Lines(h))
  /\ \A k \in DOMAIN h :
       /\ isProbeAttemptRecord(h[k]) /\ h[k].service_url = url /\ h[k].by # c
       /\ h[k].t \in Int /\ h[k].t <= time
       /\ \A j \in DOMAIN h : j < k => h[j].t <= h[k].t
       /\ \A j \in DOMAIN h : h[j].by = h[k].by => j = k

HistoryRead(c) ==
  Recording(c) => /\ Lines(prior[c]) \subseteq Lines(file)
                  /\ History(prior[c], UrlOf[c], c, record[c].t)

FacetReported(c) ==
  facet[c] = IF phase[c] = "reported" THEN FacetOf(prior[c], record[c]) ELSE None

ReachTyped ==
  /\ now \in 0..MaxTime
  /\ phase \in [Checks -> {"probing", "read", "write", "reported", "failed"}]
  /\ fails \in [Checks -> 0 .. PERSISTENT_5XX_RETRY_COUNT - 1]
  /\ cause \in [Checks -> UnreachableCause \union {NoCause}]
  /\ DOMAIN prior = Checks /\ DOMAIN record = Checks /\ DOMAIN facet = Checks

(***************************************************************************)
(* The invariant.  A verdict is read off the last lines of a history; it   *)
(* is true because those lines are whole runs: a run that has its line in  *)
(* the file has reported, so no check finds its own line, and none finds a *)
(* run twice, whatever it read and whenever it writes.                     *)
(***************************************************************************)
ReachInductive ==
  /\ ReachTyped
  /\ FileWritten
  /\ \A c \in Checks : RecordBuilt(c) /\ HistoryRead(c) /\ FacetReported(c)

LEMMA FacetTyped ==
  ASSUME NEW h, NEW current, Len(h) \in Nat, current.cause \in UnreachableCause \union {NoCause}
  PROVE  FacetOf(h, current) \in ReachabilityFacet
<1> DEFINE met == consensusReached(Append(h, current), current.cause)
<1>1. met \in BOOLEAN
  BY DEF consensusReached
<1>2. Len(h) + 1 \in Nat
  OBVIOUS
<1> HIDE DEF met
<1> QED
  BY <1>1, <1>2 DEF FacetOf, met, ReachabilityFacet, ReachabilityState, UnreachableCause, NoCause

LEMMA HistoryLength ==
  ASSUME NEW h, NEW url, NEW c, NEW time, History(h, url, c, time)
  PROVE  Len(h) \in Nat /\ DOMAIN h = 1..Len(h)
BY DEF History

LEMMA InitReach == Init => ReachInductive
<1> SUFFICES ASSUME Init PROVE ReachInductive
  OBVIOUS
<1>1. ReachTyped
  BY ReachabilityAssumption DEF Init, ReachTyped, PERSISTENT_5XX_RETRY_COUNT
<1>2. FileWritten
  BY EarlierLogsAssumption DEF Init, FileWritten, Lines
<1>3. \A c \in Checks : RecordBuilt(c) /\ HistoryRead(c) /\ FacetReported(c)
  BY DEF Init, RecordBuilt, HistoryRead, FacetReported, Recording
<1> QED
  BY <1>1, <1>2, <1>3 DEF ReachInductive
----------------------------------------------------------------------------
\* A check whose own state is unchanged keeps what is known of it, while the
\* clock goes on and the file grows.
LEMMA OtherKeeps ==
  ASSUME NEW c \in Checks, RecordBuilt(c), HistoryRead(c), FacetReported(c),
         now \in Nat, now' \in Nat, now <= now', Lines(file) \subseteq Lines(file'),
         phase'[c] = phase[c], record'[c] = record[c], prior'[c] = prior[c],
         facet'[c] = facet[c], cause'[c] = cause[c]
  PROVE  RecordBuilt(c)' /\ HistoryRead(c)' /\ FacetReported(c)'
<1>1. Recording(c)' <=> Recording(c)
  BY DEF Recording
<1>2. RecordBuilt(c)'
  BY <1>1 DEF RecordBuilt
<1>3. HistoryRead(c)'
  BY <1>1 DEF HistoryRead
<1>4. FacetReported(c)'
  BY DEF FacetReported
<1> QED
  BY <1>2, <1>3, <1>4

LEMMA ProbeKeeps ==
  ASSUME ReachInductive, NEW c \in Checks, Probe(c)
  PROVE  ReachInductive'
<1>1. PICK answer \in AnswersGiven :
        LET outcome == ProbeOutcome(fails[c], answer)
        IN IF outcome = "retry"
           THEN /\ fails' = [fails EXCEPT ![c] = @ + 1]
                /\ UNCHANGED <<phase, cause>>
           ELSE /\ cause' = [cause EXCEPT ![c] = outcome]
                /\ phase' = [phase EXCEPT ![c] = "read"]
                /\ fails' = fails
  BY DEF Probe
<1> DEFINE outcome == ProbeOutcome(fails[c], answer)
<1>2. /\ UNCHANGED <<now, file, prior, record, facet>> /\ phase[c] = "probing"
      /\ ReachTyped /\ now \in Nat /\ FileWritten
      /\ \A d \in Checks : RecordBuilt(d) /\ HistoryRead(d) /\ FacetReported(d)
  BY ReachabilityAssumption DEF Probe, ReachInductive, ReachTyped
<1>3. \A err : ErrorCause(err) \in NetworkCauses
  BY DEF ErrorCause, classifyFetchError, NoCause, NetworkCauses
<1>4. CASE outcome = "retry"
  <2>1. fails[c] + 1 < PERSISTENT_5XX_RETRY_COUNT
    BY <1>3, <1>4 DEF ProbeOutcome, NoCause, NetworkCauses
  <2>2. ReachTyped'
    BY <1>1, <1>2, <1>4, <2>1 DEF ReachTyped, PERSISTENT_5XX_RETRY_COUNT
  <2>3. FileWritten'
    BY <1>1, <1>2, <1>4 DEF FileWritten
  <2>4. \A d \in Checks : RecordBuilt(d)' /\ HistoryRead(d)' /\ FacetReported(d)'
    BY <1>1, <1>2, <1>4, OtherKeeps
  <2> QED
    BY <2>2, <2>3, <2>4 DEF ReachInductive
<1>5. CASE outcome # "retry"
  <2>1. outcome \in UnreachableCause \union {NoCause}
    BY <1>3, <1>5 DEF ProbeOutcome, UnreachableCause
  <2>2. /\ cause' = [cause EXCEPT ![c] = outcome]
        /\ phase' = [phase EXCEPT ![c] = "read"] /\ fails' = fails
    BY <1>1, <1>5
  <2> HIDE DEF outcome
  <2>3. ReachTyped'
    BY <1>2, <2>1, <2>2 DEF ReachTyped
  <2>4. FileWritten'
    BY <1>2, <2>2 DEF FileWritten, ReachTyped
  <2>5. ASSUME NEW d \in Checks
        PROVE  RecordBuilt(d)' /\ HistoryRead(d)' /\ FacetReported(d)'
    <3>1. CASE d = c
      <4>1. phase'[c] = "read"
        BY <1>2, <2>2 DEF ReachTyped
      <4> QED
        BY <1>2, <3>1, <4>1 DEF RecordBuilt, HistoryRead, FacetReported, Recording
    <3>2. CASE d # c
      <4>1. phase'[d] = phase[d] /\ cause'[d] = cause[d]
        BY <1>2, <2>2, <3>2 DEF ReachTyped
      <4> QED
        BY <1>2, <4>1, OtherKeeps
    <3> QED
      BY <3>1, <3>2
  <2> QED
    BY <2>3, <2>4, <2>5 DEF ReachInductive
<1> QED
  BY <1>4, <1>5

LEMMA ReadFailsKeeps ==
  ASSUME ReachInductive, NEW c \in Checks, ReadFails(c)
  PROVE  ReachInductive'
<1>1. /\ phase' = [phase EXCEPT ![c] = "failed"] /\ phase[c] = "read"
      /\ UNCHANGED <<now, file, fails, cause, prior, record, facet>>
      /\ ReachTyped /\ now \in Nat /\ FileWritten
      /\ \A d \in Checks : RecordBuilt(d) /\ HistoryRead(d) /\ FacetReported(d)
  BY ReachabilityAssumption DEF ReadFails, ReachInductive, ReachTyped
<1>2. ReachTyped'
  BY <1>1 DEF ReachTyped
<1>3. FileWritten'
  BY <1>1 DEF FileWritten, ReachTyped
<1>4. ASSUME NEW d \in Checks
      PROVE  RecordBuilt(d)' /\ HistoryRead(d)' /\ FacetReported(d)'
  <2>1. CASE d = c
    <3>1. phase'[c] = "failed"
      BY <1>1 DEF ReachTyped
    <3> QED
      BY <1>1, <2>1, <3>1 DEF RecordBuilt, HistoryRead, FacetReported, Recording
  <2>2. CASE d # c
    <3>1. phase'[d] = phase[d]
      BY <1>1, <2>2 DEF ReachTyped
    <3> QED
      BY <1>1, <3>1, OtherKeeps
  <2> QED
    BY <2>1, <2>2
<1> QED
  BY <1>2, <1>3, <1>4 DEF ReachInductive

LEMMA TickKeeps ==
  ASSUME ReachInductive, Tick
  PROVE  ReachInductive'
<1>1. /\ UNCHANGED <<file, check>> /\ ReachTyped /\ FileWritten
      /\ \A d \in Checks : RecordBuilt(d) /\ HistoryRead(d) /\ FacetReported(d)
  BY DEF Tick, ReachInductive
<1>2. now \in Nat /\ now' \in 0..MaxTime /\ now <= now'
  BY <1>1, ReachabilityAssumption DEF Tick, ReachTyped
<1>3. ReachTyped'
  BY <1>1, <1>2 DEF ReachTyped, check
<1>4. FileWritten'
  BY <1>1, <1>2, ReachabilityAssumption DEF FileWritten, check
<1>5. \A d \in Checks : RecordBuilt(d)' /\ HistoryRead(d)' /\ FacetReported(d)'
  BY <1>1, <1>2, OtherKeeps DEF check
<1> QED
  BY <1>3, <1>4, <1>5 DEF ReachInductive
----------------------------------------------------------------------------
\* What a check that has no line in the file reads is a history.
LEMMA ReadsHistory ==
  ASSUME FileWritten, now \in Nat, NEW c \in Checks, phase[c] # "reported",
         NEW h \in readProbeHistory(file, UrlOf[c])
  PROVE  Lines(h) \subseteq Lines(file) /\ History(h, UrlOf[c], c, now)
<1> DEFINE lines == RecordsOf(file, UrlOf[c])
           n == Cardinality(lines)
<1>1. PICK order \in OldestFirst(file, UrlOf[c]) : h = [k \in DOMAIN order |-> file[order[k]]]
  BY DEF readProbeHistory
<1>2. n \in Nat
  <2>1. IsFiniteSet(DOMAIN file)
    BY FS_Interval DEF FileWritten
  <2>2. lines \subseteq DOMAIN file
    BY DEF RecordsOf
  <2> QED
    BY <2>1, <2>2, FS_Subset, FS_CardinalityType
<1>3. /\ order \in [1..n -> lines]
      /\ \A j, k \in 1..n : j < k =>
           \/ file[order[j]].t < file[order[k]].t
           \/ file[order[j]].t = file[order[k]].t /\ order[j] < order[k]
  BY <1>1 DEF OldestFirst
<1> HIDE DEF n
<1>4. DOMAIN h = 1..n /\ \A k \in 1..n : h[k] = file[order[k]]
  BY <1>1, <1>3
<1>5. \A k \in 1..n :
        /\ order[k] \in DOMAIN file /\ order[k] \in Int
        /\ isProbeAttemptRecord(h[k]) /\ h[k].service_url = UrlOf[c]
        /\ h[k].t \in Int /\ h[k].t <= now /\ h[k].by # c
  BY <1>3, <1>4 DEF RecordsOf, FileWritten
<1>6. h \in Seq(Lines(h))
  <2>1. h = [k \in 1..n |-> h[k]] /\ \A k \in 1..n : h[k] \in Lines(h)
    BY <1>1, <1>3, <1>4 DEF Lines
  <2> QED
    BY <1>2, <2>1
<1>7. \A j, k \in 1..n : j < k => h[j].t <= h[k].t
  BY <1>3, <1>4, <1>5
<1>8. \A j, k \in 1..n : order[j] = order[k] => j = k
  <2> SUFFICES ASSUME NEW j \in 1..n, NEW k \in 1..n, j < k, order[j] = order[k]
               PROVE  FALSE
    BY <1>2
  <2>1. file[order[j]].t \in Int /\ order[j] \in Int
    BY <1>4, <1>5
  <2> QED
    BY <1>3, <2>1
<1>once. \A j, k \in 1..n : h[j].by = h[k].by => j = k
  BY <1>4, <1>5, <1>8 DEF FileWritten
<1>10. Lines(h) \subseteq Lines(file)
  BY <1>4, <1>5 DEF Lines
<1>11. History(h, UrlOf[c], c, now)
  BY <1>4, <1>5, <1>6, <1>7, <1>once DEF History
<1> QED
  BY <1>10, <1>11

LEMMA ReadHistoryKeeps ==
  ASSUME ReachInductive, NEW c \in Checks, ReadHistory(c)
  PROVE  ReachInductive'
<1>1. PICK h \in readProbeHistory(file, UrlOf[c]) :
        /\ prior' = [prior EXCEPT ![c] = h]
        /\ record' = [record EXCEPT ![c] =
                        [event |-> "bazaar.probe_attempt", t |-> now,
                         service_url |-> UrlOf[c], attempt_seq |-> nextAttemptSeq(h),
                         cause |-> cause[c], by |-> c]]
  BY DEF ReadHistory
<1>2. /\ phase' = [phase EXCEPT ![c] = "write"] /\ phase[c] = "read"
      /\ UNCHANGED <<now, file, fails, cause, facet>>
      /\ ReachTyped /\ now \in Nat /\ FileWritten
      /\ \A d \in Checks : RecordBuilt(d) /\ HistoryRead(d) /\ FacetReported(d)
  BY ReachabilityAssumption DEF ReadHistory, ReachInductive, ReachTyped
<1>3. ReachTyped'
  BY <1>1, <1>2 DEF ReachTyped
<1>4. FileWritten'
  BY <1>2 DEF FileWritten, ReachTyped
<1>5. ASSUME NEW d \in Checks
      PROVE  RecordBuilt(d)' /\ HistoryRead(d)' /\ FacetReported(d)'
  <2>1. CASE d = c
    <3>1. phase'[c] = "write" /\ prior'[c] = h
      BY <1>1, <1>2 DEF ReachTyped
    <3>2. /\ record'[c].event = "bazaar.probe_attempt" /\ record'[c].t = now
          /\ record'[c].service_url = UrlOf[c] /\ record'[c].cause = cause[c]
          /\ record'[c].by = c
      BY <1>1, <1>2 DEF ReachTyped
    <3>3. RecordBuilt(c)'
      BY <1>2, <3>1, <3>2 DEF RecordBuilt, Recording, isProbeAttemptRecord
    <3>4. HistoryRead(c)'
      BY <1>2, <3>1, <3>2, ReadsHistory DEF HistoryRead
    <3>5. FacetReported(c)'
      BY <1>2, <3>1 DEF FacetReported
    <3> QED
      BY <2>1, <3>3, <3>4, <3>5
  <2>2. CASE d # c
    <3>1. phase'[d] = phase[d] /\ prior'[d] = prior[d] /\ record'[d] = record[d]
      BY <1>1, <1>2, <2>2 DEF ReachTyped
    <3> QED
      BY <1>2, <3>1, OtherKeeps
  <2> QED
    BY <2>1, <2>2
<1> QED
  BY <1>3, <1>4, <1>5 DEF ReachInductive

\* The line that is written is the only one of its run.
LEMMA WriteRecordKeeps ==
  ASSUME ReachInductive, NEW c \in Checks, WriteRecord(c)
  PROVE  ReachInductive'
<1>1. /\ facet' = [facet EXCEPT ![c] = FacetOf(prior[c], record[c])]
      /\ phase' = [phase EXCEPT ![c] = "reported"] /\ phase[c] = "write"
      /\ UNCHANGED <<now, fails, cause, prior, record>>
      /\ file' = Append(file, record[c]) \/ file' = file
      /\ ReachTyped /\ now \in Nat /\ FileWritten
      /\ \A d \in Checks : RecordBuilt(d) /\ HistoryRead(d) /\ FacetReported(d)
  BY ReachabilityAssumption DEF WriteRecord, ReachInductive, ReachTyped
<1>2. ReachTyped'
  BY <1>1 DEF ReachTyped
<1>3. phase'[c] = "reported" /\ \A d \in Checks : phase[d] = "reported" => phase'[d] = "reported"
  BY <1>1 DEF ReachTyped
<1>4. FileWritten' /\ Lines(file) \subseteq Lines(file')
  <2>1. CASE file' = file
    BY <1>1, <1>3, <2>1 DEF FileWritten
  <2>2. CASE file' = Append(file, record[c])
    <3> DEFINE n == Len(file)
    <3>1. /\ n \in Nat /\ DOMAIN file = 1..n /\ DOMAIN file' = 1 .. n + 1
          /\ file'[n + 1] = record[c] /\ \A i \in 1..n : file'[i] = file[i]
      BY <1>1, <2>2 DEF FileWritten
    <3>2. /\ isProbeAttemptRecord(record[c]) /\ record[c].t \in Int
          /\ record[c].t <= now /\ record[c].by = c
      BY <1>1 DEF RecordBuilt, Recording
    <3>3. file' \in Seq(Lines(file'))
      <4>1. Lines(file') = Lines(file) \union {record[c]}
        BY <3>1 DEF Lines
      <4>2. file \in Seq(Lines(file'))
        BY <1>1, <4>1 DEF FileWritten
      <4> QED
        BY <2>2, <4>1, <4>2
    <3> HIDE DEF n
    <3>4. \A i \in 1..n : isProbeAttemptRecord(file[i]) => file[i].by # c
      BY <1>1, <3>1 DEF FileWritten
    <3>5. ASSUME NEW i \in 1 .. n + 1, isProbeAttemptRecord(file'[i])
          PROVE  /\ file'[i].t \in Int /\ file'[i].t <= now
                 /\ file'[i].by \in Checks => phase'[file'[i].by] = "reported"
                 /\ \A j \in 1 .. n + 1 :
                      isProbeAttemptRecord(file'[j]) /\ file'[j].by = file'[i].by => i = j
      <4>1. CASE i = n + 1
        BY <1>3, <3>1, <3>2, <3>4, <4>1
      <4>2. CASE i \in 1..n
        <5>1. /\ file'[i] = file[i] /\ isProbeAttemptRecord(file[i]) /\ i \in DOMAIN file
          BY <3>1, <3>5, <4>2
        <5>2. /\ file[i].t \in Int /\ file[i].t <= now
              /\ file[i].by \in Checks => phase[file[i].by] = "reported"
              /\ \A j \in 1..n :
                   isProbeAttemptRecord(file[j]) /\ file[j].by = file[i].by => i = j
          BY <1>1, <3>1, <5>1 DEF FileWritten
        <5>3. file[i].by # c
          BY <3>4, <4>2, <5>1
        <5>4. \A j \in 1 .. n + 1 : j \in 1..n \/ j = n + 1
          BY <3>1
        <5> QED
          BY <1>3, <3>1, <3>2, <5>1, <5>2, <5>3, <5>4
      <4> QED
        BY <3>1, <4>1, <4>2
    <3>6. FileWritten'
      BY <1>1, <3>1, <3>3, <3>5 DEF FileWritten
    <3>7. Lines(file) \subseteq Lines(file')
      BY <3>1 DEF Lines
    <3> QED
      BY <3>6, <3>7
  <2> QED
    BY <1>1, <2>1, <2>2
<1>5. ASSUME NEW d \in Checks
      PROVE  RecordBuilt(d)' /\ HistoryRead(d)' /\ FacetReported(d)'
  <2>1. CASE d = c
    <3>1. Recording(c) /\ Recording(c)'
      BY <1>1, <1>3 DEF Recording
    <3>2. RecordBuilt(c)'
      BY <1>1, <3>1 DEF RecordBuilt
    <3>3. HistoryRead(c)'
      BY <1>1, <1>4, <3>1 DEF HistoryRead
    <3>4. FacetReported(c)'
      BY <1>1, <1>3 DEF FacetReported, ReachTyped
    <3> QED
      BY <2>1, <3>2, <3>3, <3>4
  <2>2. CASE d # c
    <3>1. phase'[d] = phase[d] /\ facet'[d] = facet[d]
      BY <1>1, <2>2 DEF ReachTyped
    <3> QED
      BY <1>1, <1>4, <3>1, OtherKeeps
  <2> QED
    BY <2>1, <2>2
<1> QED
  BY <1>2, <1>4, <1>5 DEF ReachInductive
----------------------------------------------------------------------------
LEMMA ReachInvariant == Spec => []ReachInductive
<1>1. ASSUME ReachInductive, [Next]_vars
      PROVE  ReachInductive'
  <2>1. CASE Tick
    BY <1>1, <2>1, TickKeeps
  <2>2. CASE \E c \in Checks : Step(c)
    BY <1>1, <2>2, ProbeKeeps, ReadHistoryKeeps, ReadFailsKeeps, WriteRecordKeeps DEF Step
  <2>3. CASE UNCHANGED vars
    <3>1. UNCHANGED <<now, file, phase, fails, cause, prior, record, facet>>
      BY <2>3 DEF vars, check
    <3>2. ReachTyped' /\ FileWritten'
      BY <1>1, <3>1 DEF ReachInductive, ReachTyped, FileWritten
    <3>3. \A c \in Checks : RecordBuilt(c)' /\ HistoryRead(c)' /\ FacetReported(c)'
      BY <1>1, <3>1 DEF ReachInductive, RecordBuilt, HistoryRead, FacetReported, Recording
    <3> QED
      BY <3>2, <3>3 DEF ReachInductive
  <2> QED
    BY <1>1, <2>1, <2>2, <2>3 DEF Next
<1> QED
  BY <1>1, InitReach, PTL DEF Spec

LEMMA FacetKnown ==
  ASSUME ReachInductive, NEW c \in Checks
  PROVE  /\ phase[c] = "reported" <=> facet[c] # None
         /\ facet[c] \in ReachabilityFacet \union {None}
<1>1. RecordBuilt(c) /\ HistoryRead(c) /\ FacetReported(c) /\ ReachTyped
  BY DEF ReachInductive
<1>2. CASE phase[c] = "reported"
  <2>1. record[c].cause \in UnreachableCause \union {NoCause}
    BY <1>1, <1>2 DEF RecordBuilt, Recording, ReachTyped
  <2>2. Len(prior[c]) \in Nat
    BY <1>1, <1>2, HistoryLength DEF HistoryRead, Recording
  <2>3. facet[c] \in ReachabilityFacet
    BY <1>1, <1>2, <2>1, <2>2, FacetTyped DEF FacetReported
  <2> QED
    BY <1>2, <2>3, ReachabilityAssumption
<1>3. CASE phase[c] # "reported"
  BY <1>1, <1>3 DEF FacetReported
<1> QED
  BY <1>2, <1>3

(***************************************************************************)
(* No line of the file is newer than the clock, a check has its record and *)
(* its facet exactly when its phase says so, and every facet is one that   *)
(* checkReachability can return.                                           *)
(***************************************************************************)
THEOREM ReachTypeCorrect == Spec => []ReachTypeOK
<1>1. ASSUME ReachInductive
      PROVE  ReachTypeOK
  <2>1. /\ now \in 0..MaxTime
        /\ \A i \in DOMAIN file : isProbeAttemptRecord(file[i]) => file[i].t <= now
        /\ phase \in [Checks -> {"probing", "read", "write", "reported", "failed"}]
        /\ fails \in [Checks -> 0 .. PERSISTENT_5XX_RETRY_COUNT - 1]
        /\ cause \in [Checks -> UnreachableCause \union {NoCause}]
    BY <1>1 DEF ReachInductive, ReachTyped, FileWritten
  <2>2. ASSUME NEW c \in Checks
        PROVE  IF Recording(c)
               THEN /\ isProbeAttemptRecord(record[c])
                    /\ record[c].t \in 0..now /\ record[c].service_url = UrlOf[c]
               ELSE record[c] = None
    BY <1>1 DEF ReachInductive, RecordBuilt
  <2> QED
    BY <1>1, <2>1, <2>2, FacetKnown DEF ReachTypeOK
<1> QED
  BY <1>1, ReachInvariant, PTL

\* The records a consensus counts, the last Threshold - 1 of the history, all have
\* the cause and are recent.
ConsensusFrom(h, r, why) ==
  LET first == Len(h) + 2 - Threshold
  IN /\ first \in 1 .. Len(h) + 1
     /\ \A k \in first .. Len(h) :
          h[k].cause = why /\ r.t - h[k].t <= Threshold * Window[why] * 2
     /\ r.t - r.t <= Threshold * Window[why] * 2

LEMMA ConsensusCounts ==
  ASSUME NEW h, NEW url, NEW c, NEW r, NEW why \in NetworkCauses, r.t \in Int, History(h, url, c, r.t),
         r.cause = why, consensusReached(Append(h, r), why)
  PROVE  ConsensusFrom(h, r, why)
<1> DEFINE n == Len(h)
           first == n + 2 - Threshold
           all == Append(h, r)
           recent == SubSeq(all, Len(all) - Threshold + 1, Len(all))
           bound == Threshold * Window[why] * 2
<1>1. /\ n \in Nat /\ DOMAIN h = 1..n /\ h \in Seq(Lines(h)) /\ Threshold \in Nat \ {0}
  BY HistoryLength, HistoryAssumption DEF History
<1>dates. \A k \in 1..n : /\ h[k].t \in Int /\ h[k].t <= r.t
                       /\ \A j \in 1..n : j < k => h[j].t <= h[k].t
  BY <1>1 DEF History
<1>2. /\ Len(all) = n + 1 /\ all[n + 1] = r /\ \A k \in 1..n : all[k] = h[k]
      /\ all \in Seq(Lines(h) \union {r})
  BY <1>1
<1>3. /\ Len(all) >= Threshold /\ \A i \in 1..Threshold : recent[i].cause = why
      /\ recent[Threshold].t - recent[1].t <= bound
  BY DEF consensusReached
<1> USE HistoryAssumption
<1>whole. bound \in Int
  OBVIOUS
<1> HIDE DEF n, all, bound
<1>4. first \in 1 .. n + 1
  <2>1. n + 1 >= Threshold
    BY <1>2, <1>3
  <2> QED
    BY <1>1, <2>1
<1>5. \A i \in 1..Threshold : recent[i] = all[first + i - 1]
  BY <1>1, <1>2, <1>4
<1>6. recent[1] = all[first] /\ recent[Threshold] = r
  BY <1>1, <1>2, <1>4, <1>5
<1> HIDE DEF recent
<1>7. all[first].t \in Int /\ all[first].t <= r.t /\ r.t - all[first].t <= bound
  <2>1. CASE first = n + 1
    BY <1>2, <1>3, <1>6, <2>1
  <2>2. CASE first \in 1..n
    <3>1. all[first] = h[first]
      BY <1>2, <2>2
    <3> QED
      BY <1>3, <1>6, <1>dates, <2>2, <3>1
  <2> QED
    BY <1>1, <1>4, <2>1, <2>2
<1>8. ASSUME NEW k \in first..n
      PROVE  h[k].cause = why /\ r.t - h[k].t <= bound
  <2>1. k \in 1..n /\ first \in 1..n /\ k - first + 1 \in 1..Threshold
    BY <1>1, <1>4
  <2>2. all[k] = h[k] /\ all[first] = h[first]
    BY <1>2, <2>1
  <2>3. h[k].cause = why
    <3>1. first + (k - first + 1) - 1 = k
      BY <1>1, <2>1
    <3>2. recent[k - first + 1] = all[k]
      BY <1>5, <2>1, <3>1
    <3> QED
      BY <1>3, <2>1, <2>2, <3>2
  <2>4. h[first].t <= h[k].t /\ h[k].t \in Int
    <3>1. first = k \/ first < k
      BY <1>1, <2>1
    <3> QED
      BY <1>dates, <2>1, <3>1
  <2>5. h[first].t \in Int /\ h[first].t <= r.t /\ r.t - h[first].t <= bound
    BY <1>7, <2>2
  <2>6. r.t - h[k].t <= bound
    BY <1>whole, <2>4, <2>5
  <2> QED
    BY <2>3, <2>6
<1> QED
  BY <1>4, <1>7, <1>8 DEF n, bound, ConsensusFrom

\* With the record of the check they are the witnesses.
Witnesses(h, r) == {r} \union {h[k] : k \in Len(h) + 2 - Threshold .. Len(h)}

\* Each of them is the record of another run, so their runs are Threshold.
LEMMA RunsCounted ==
  ASSUME NEW h, NEW url, NEW c, NEW r, NEW time, History(h, url, c, time), r.by = c,
         Len(h) + 2 - Threshold \in 1 .. Len(h) + 1
  PROVE  Cardinality({w.by : w \in Witnesses(h, r)}) = Threshold
<1> DEFINE n == Len(h)
           first == n + 2 - Threshold
           runs == {w.by : w \in Witnesses(h, r)}
           run == [i \in 1..Threshold |-> IF i = Threshold THEN c ELSE h[first + i - 1].by]
<1>1. n \in Nat /\ DOMAIN h = 1..n /\ Threshold \in Nat \ {0}
  BY HistoryLength, HistoryAssumption
<1>2. /\ \A k \in 1..n : h[k].by # c
      /\ \A j, k \in 1..n : h[j].by = h[k].by => j = k
  BY <1>1 DEF History
<1> HIDE DEF n
<1>3. first \in 1 .. n + 1
  BY DEF n
<1>4. \A i \in 1..Threshold : i # Threshold => first + i - 1 \in first..n /\ first + i - 1 \in 1..n
  BY <1>1, <1>3
<1>5. runs = {c} \union {h[k].by : k \in first..n}
  BY DEF Witnesses, n
<1> HIDE DEF runs
<1>6. run \in [1..Threshold -> runs]
  BY <1>4, <1>5
<1>7. \A i, j \in 1..Threshold : run[i] = run[j] => i = j
  <2> SUFFICES ASSUME NEW i \in 1..Threshold, NEW j \in 1..Threshold, run[i] = run[j]
               PROVE  i = j
    OBVIOUS
  <2>1. CASE i = Threshold \/ j = Threshold
    BY <1>2, <1>4, <2>1
  <2>2. CASE i # Threshold /\ j # Threshold
    <3>1. first + i - 1 = first + j - 1
      BY <1>2, <1>4, <2>2
    <3> QED
      BY <1>1, <1>3, <3>1
  <2> QED
    BY <2>1, <2>2
<1>8. \A b \in runs : \E i \in 1..Threshold : run[i] = b
  <2> SUFFICES ASSUME NEW b \in runs
               PROVE  \E i \in 1..Threshold : run[i] = b
    OBVIOUS
  <2>1. CASE b = c
    BY <1>1, <2>1
  <2>2. CASE \E k \in first..n : b = h[k].by
    <3>1. PICK k \in first..n : b = h[k].by
      BY <2>2
    <3>2. /\ k - first + 1 \in 1..Threshold /\ k - first + 1 # Threshold
          /\ first + (k - first + 1) - 1 = k
      BY <1>1, <1>3
    <3> QED
      BY <3>1, <3>2
  <2> QED
    BY <1>5, <2>1, <2>2
<1>9. run \in Bijection(1..Threshold, runs)
  <2> HIDE DEF run
  <2>1. run \in Injection(1..Threshold, runs)
    BY <1>6, <1>7 DEF Injection, IsInjective
  <2>2. run \in Surjection(1..Threshold, runs)
    BY <1>6, <1>8 DEF Surjection
  <2> QED
    BY <2>1, <2>2 DEF Bijection
<1>10. Cardinality(runs) = Threshold
  BY <1>1, <1>9, FS_CountingElements DEF ExistsBijection
<1> QED
  BY <1>10 DEF runs, n

(***************************************************************************)
(* A service is called unreachable only when as many runs as the threshold *)
(* says, this one among them, probed that very service and met the same    *)
(* network failure within the window, and nothing else was on file since:  *)
(* the answer of checkReachability to a history that others write to while *)
(* it is read, in an order that is not that of their probes.               *)
(***************************************************************************)
THEOREM CondemnedWithWitnesses == Spec => []UnreachableIsWitnessed
<1>1. ASSUME ReachInductive, NEW c \in Checks, Condemns(c)
      PROVE  LET url == UrlOf[c]
                 why == facet[c].cause
                 alike == {r \in Recorded : Seen(r, url, why)}
             IN /\ why \in NetworkCauses
                /\ \E W \in SUBSET alike :
                     /\ record[c] \in W
                     /\ Cardinality({r.by : r \in W}) = Threshold
                     /\ \A r \in W : record[c].t - r.t <= Threshold * Window[why] * 2
                /\ \A i \in DOMAIN prior[c] :
                     prior[c][i].service_url = url /\ prior[c][i].cause # why =>
                       Cardinality({j \in DOMAIN prior[c] :
                                      /\ prior[c][j].t >= prior[c][i].t
                                      /\ Seen(prior[c][j], url, why)}) >= Threshold - 1
  <2> DEFINE url == UrlOf[c]
             why == facet[c].cause
             alike == {r \in Recorded : Seen(r, url, why)}
             h == prior[c]
             r == record[c]
             n == Len(h)
             first == n + 2 - Threshold
             W == Witnesses(h, r)
  <2>1. /\ RecordBuilt(c) /\ HistoryRead(c) /\ FacetReported(c) /\ ReachTyped
        /\ phase[c] = "reported" /\ facet[c].state = "unreachable"
    BY <1>1, FacetKnown DEF ReachInductive, Condemns
  <2>2. /\ isProbeAttemptRecord(r) /\ r.t \in 0..now /\ r.service_url = url
        /\ r.cause \in UnreachableCause \union {NoCause} /\ r.by = c
        /\ Recording(c) /\ Lines(h) \subseteq Lines(file) /\ History(h, url, c, r.t)
        /\ facet[c] = FacetOf(h, r)
    BY <2>1 DEF RecordBuilt, HistoryRead, FacetReported, Recording, ReachTyped
  <2>3. /\ r.cause \in NetworkCauses /\ why = r.cause
        /\ consensusReached(Append(h, r), r.cause)
    BY <2>1, <2>2 DEF FacetOf, UnreachableCause
  <2>4. r.t \in Int
    BY <2>1, <2>2, ReachabilityAssumption DEF ReachTyped
  <2>5. /\ first \in 1 .. n + 1 /\ n \in Nat /\ DOMAIN h = 1..n /\ Threshold \in Nat \ {0}
        /\ \A k \in first..n :
             h[k].cause = why /\ r.t - h[k].t <= Threshold * Window[why] * 2
        /\ r.t - r.t <= Threshold * Window[why] * 2
    <3>1. n \in Nat /\ DOMAIN h = 1..n /\ Threshold \in Nat \ {0}
      BY <2>2, HistoryLength, HistoryAssumption
    <3>2. /\ why \in NetworkCauses /\ r.t \in Int /\ History(h, url, c, r.t)
          /\ r.cause = why /\ consensusReached(Append(h, r), why)
      BY <2>2, <2>3, <2>4
    <3> HIDE DEF h, url, why, r
    <3>3. ConsensusFrom(h, r, why)
      BY <3>2, ConsensusCounts
    <3> QED
      BY <3>1, <3>3 DEF ConsensusFrom
  <2>6. /\ \A k \in 1..n : isProbeAttemptRecord(h[k]) /\ h[k].service_url = url /\ h[k].t \in Int
        /\ \A j, k \in 1..n : j < k => h[j].t <= h[k].t
    BY <2>2, <2>5 DEF History
  <2>7. Cardinality({w.by : w \in W}) = Threshold
    BY <2>2, <2>5, RunsCounted
  <2>witnesses. W = {r} \union {h[k] : k \in first..n}
    BY DEF Witnesses
  <2> HIDE DEF why, h, r, n, W
  <2>8. \A k \in first..n : k \in 1..n
    BY <2>5
  <2>9. W \subseteq alike
    <3>1. r \in alike
      BY <2>2, <2>3 DEF Recorded, Seen, r
    <3>2. \A k \in first..n : h[k] \in alike
      BY <2>2, <2>5, <2>6, <2>8 DEF Recorded, Seen, Lines
    <3> QED
      BY <2>witnesses, <3>1, <3>2
  <2>10. \E V \in SUBSET alike :
           /\ r \in V /\ Cardinality({w.by : w \in V}) = Threshold
           /\ \A w \in V : r.t - w.t <= Threshold * Window[why] * 2
    <3>1. \A w \in W : r.t - w.t <= Threshold * Window[why] * 2
      BY <2>5, <2>witnesses
    <3>2. r \in W /\ W \in SUBSET alike
      BY <2>9, <2>witnesses
    <3> HIDE DEF alike
    <3> QED
      BY <2>7, <3>1, <3>2
  <2>11. ASSUME NEW i \in DOMAIN h, h[i].cause # why
         PROVE  Cardinality({j \in DOMAIN h : h[j].t >= h[i].t /\ Seen(h[j], url, why)})
                  >= Threshold - 1
    <3> DEFINE since == {j \in DOMAIN h : h[j].t >= h[i].t /\ Seen(h[j], url, why)}
    <3>1. i \in 1..n /\ \A k \in first..n : i < k
      BY <2>5, <2>8, <2>11
    <3>2. first..n \subseteq since
      BY <2>5, <2>6, <2>8, <3>1 DEF Seen
    <3>3. IsFiniteSet(since)
      <4>1. IsFiniteSet(1..n)
        BY <2>5, FS_Interval
      <4>2. since \subseteq 1..n
        BY <2>5
      <4> QED
        BY <4>1, <4>2, FS_Subset
    <3>4. Cardinality(first..n) = Threshold - 1
      <4>1. Cardinality(first..n) = IF first > n THEN 0 ELSE n - first + 1
        BY <2>5, FS_Interval
      <4> QED
        BY <2>5, <4>1
    <3>5. Cardinality(first..n) <= Cardinality(since)
      BY <3>2, <3>3, FS_Subset
    <3>6. Cardinality(since) \in Nat
      BY <3>3, FS_CardinalityType
    <3> HIDE DEF since
    <3> QED
      BY <2>5, <3>4, <3>5, <3>6 DEF since
  <2> QED
    BY <2>3, <2>10, <2>11 DEF why, h, r
<1>2. ReachInductive => UnreachableIsWitnessed
  BY <1>1 DEF UnreachableIsWitnessed
<1> QED
  BY <1>2, ReachInvariant, PTL
============================================================================
