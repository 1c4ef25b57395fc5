---------------------------- MODULE Reachability ----------------------------
(***************************************************************************)
(* checkReachability (src/bazaar/reachability.ts) run by several           *)
(* invocations of bazaar-check that share one history file: a cron job, a  *)
(* CI run, an operator at the prompt, for one service or for two.          *)
(*                                                                         *)
(* A check awaits the answers of its probe; from the history it reads to   *)
(* the line it appends it awaits nothing, but the file is shared with      *)
(* other processes, so ReadHistory and WriteRecord are two steps.  The     *)
(* service is the environment: each probe may get any answer.              *)
(***************************************************************************)
EXTENDS ProbeHistory

CONSTANTS
  Checks,        \* the invocations
  UrlOf,         \* the service each one probes
  EarlierLogs,   \* the files there may be before the first of them
  AnswersGiven,  \* bound: the answers a service gives, a subset of Answers
  Ticks,         \* the time that may pass in one step
  MaxTime,       \* bound
  None           \* no record, no facet

ASSUME ReachabilityAssumption ==
  /\ AnswersGiven \subseteq Answers
  /\ MaxTime \in Nat /\ Ticks \subseteq Nat
  /\ None \notin ReachabilityFacet

\* The earlier runs are over: each left at most one line, none in the future.
ASSUME EarlierLogsAssumption ==
  \A log \in EarlierLogs :
    /\ log \in Seq({log[i] : i \in DOMAIN log})
    /\ \A i \in DOMAIN log : isProbeAttemptRecord(log[i]) =>
         /\ log[i].t \in Int /\ log[i].t <= 0
         /\ log[i].by \notin Checks
         /\ \A j \in DOMAIN log :
              isProbeAttemptRecord(log[j]) /\ log[j].by = log[i].by => i = j

VARIABLES
  now,     \* the clock of the machine
  file,    \* the lines of the history file
  phase,   \* where each check is
  fails,   \* the answers of 5xx its probe has had
  cause,   \* what its probe ended with
  prior,   \* the history it read
  record,  \* the record it built
  facet    \* the facet it reports

check == <<phase, fails, cause, prior, record, facet>>
vars == <<now, file, check>>

\* The check has built its record.
Recording(c) == phase[c] \in {"write", "reported"}

ReachTypeOK ==
  /\ now \in 0..MaxTime
  /\ \A i \in DOMAIN file : isProbeAttemptRecord(file[i]) => file[i].t <= now
  /\ phase \in [Checks -> {"probing", "read", "write", "reported", "failed"}]
  /\ fails \in [Checks -> 0 .. PERSISTENT_5XX_RETRY_COUNT - 1]
  /\ cause \in [Checks -> UnreachableCause \union {NoCause}]
  /\ \A c \in Checks :
       /\ IF Recording(c)
          THEN /\ isProbeAttemptRecord(record[c])
               /\ record[c].t \in 0..now /\ record[c].service_url = UrlOf[c]
          ELSE record[c] = None
       /\ phase[c] = "reported" <=> facet[c] # None
       /\ facet[c] \in ReachabilityFacet \union {None}

Init ==
  /\ now = 0
  /\ file \in EarlierLogs
  /\ phase = [c \in Checks |-> "probing"]
  /\ fails = [c \in Checks |-> 0]
  /\ cause = [c \in Checks |-> NoCause]
  /\ prior = [c \in Checks |-> <<>>]
  /\ record = [c \in Checks |-> None]
  /\ facet = [c \in Checks |-> None]
----------------------------------------------------------------------------
\* One request of the probe is answered, or its timer aborts it.
Probe(c) ==
  /\ phase[c] = "probing"
  /\ \E answer \in AnswersGiven :
       LET outcome == ProbeOutcome(fails[c], answer)
       IN IF outcome = "retry"
          THEN /\ fails' = [fails EXCEPT ![c] = @ + 1]
               /\ UNCHANGED <<phase, cause>>
          ELSE /\ cause' = [cause EXCEPT ![c] = outcome]
               /\ phase' = [phase EXCEPT ![c] = "read"]
               /\ fails' = fails
  /\ UNCHANGED <<now, file, prior, record, facet>>

\* The history is read and the record built; the record's time is taken now.
ReadHistory(c) ==
  /\ phase[c] = "read"
  /\ \E history \in readProbeHistory(file, UrlOf[c]) :
       /\ prior' = [prior EXCEPT ![c] = history]
       /\ record' = [record EXCEPT ![c] =
                       [event |-> "bazaar.probe_attempt", t |-> now,
                        service_url |-> UrlOf[c], attempt_seq |-> nextAttemptSeq(history),
                        cause |-> cause[c], by |-> c]]
  /\ phase' = [phase EXCEPT ![c] = "write"]
  /\ UNCHANGED <<now, file, fails, cause, facet>>

\* A history that is there and cannot be read is not caught: the command fails.
ReadFails(c) ==
  /\ phase[c] = "read"
  /\ phase' = [phase EXCEPT ![c] = "failed"]
  /\ UNCHANGED <<now, file, fails, cause, prior, record, facet>>

\* A write that fails is swallowed.
WriteRecord(c) ==
  /\ phase[c] = "write"
  /\ \/ file' = Append(file, record[c])
     \/ file' = file
  /\ facet' = [facet EXCEPT ![c] = FacetOf(prior[c], record[c])]
  /\ phase' = [phase EXCEPT ![c] = "reported"]
  /\ UNCHANGED <<now, fails, cause, prior, record>>

Tick ==
  /\ \E d \in Ticks : now' = now + d /\ now' <= MaxTime
  /\ UNCHANGED <<file, check>>

Step(c) == Probe(c) \/ ReadHistory(c) \/ ReadFails(c) \/ WriteRecord(c)

Next == Tick \/ \E c \in Checks : Step(c)

Spec == Init /\ [][Next]_vars
----------------------------------------------------------------------------
\* Every record there ever was: of the earlier runs, and of these.
Recorded == {file[i] : i \in DOMAIN file} \union {record[c] : c \in {d \in Checks : Recording(d)}}

Seen(r, url, why) ==
  isProbeAttemptRecord(r) /\ r.service_url = url /\ r.cause = why

\* "service_unreachable" is the verdict of this check.
Condemns(c) == facet[c] # None /\ facet[c].state = "unreachable"

(***************************************************************************)
(* A service is called unreachable only when Threshold runs, this one      *)
(* among them, probed that very service and met the same network failure,  *)
(* all within twice Threshold windows; and when a run that met something   *)
(* else had its line in the file before this one read it, Threshold - 1    *)
(* runs have met the failure since.  The file is shared and read once, its *)
(* lines need not be in order of time, and other services are logged too.  *)
(***************************************************************************)
UnreachableIsWitnessed ==
  \A c \in {d \in Checks : Condemns(d)} :
    LET url == UrlOf[c]
        why == facet[c].cause
        alike == {r \in Recorded : Seen(r, url, why)}
    IN /\ why \in NetworkCauses
       /\ \E W \in SUBSET alike :
            /\ record[c] \in W
            /\ Cardinality({r.by : r \in W}) = Threshold
            /\ \A r \in W : record[c].t - r.t <= Threshold * Window[why] * 2
       /\ \A i \in DOMAIN prior[c] :
            prior[c][i].service_url = url /\ prior[c][i].cause # why =>
              Cardinality({j \in DOMAIN prior[c] :
                             /\ prior[c][j].t >= prior[c][i].t
                             /\ Seen(prior[c][j], url, why)}) >= Threshold - 1
============================================================================
