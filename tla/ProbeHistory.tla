---------------------------- MODULE ProbeHistory ----------------------------
(***************************************************************************)
(* What bazaar-check makes of the answers to a reachability probe and of   *)
(* the probes that earlier runs left in the history file                   *)
(* (src/bazaar/reachability.ts, src/bazaar/probe-history.ts): operators    *)
(* only, used by Reachability and by BazaarCheck.                          *)
(*                                                                         *)
(* An answer is "responsive" (2xx to 4xx), "5xx", or the error that fetch  *)
(* rejected with, named by what classifyFetchError looks at.  Times are    *)
(* whole numbers of one unit, the unit Window is given in.                 *)
(***************************************************************************)
EXTENDS Integers, Sequences, FiniteSets

CONSTANTS
  Window,    \* PER_CAUSE_INTERVAL_MS times --unreachable-interval-multiplier
  Threshold  \* --unreachable-consensus-count

NetworkCauses == {"dns_failure", "tcp_refused", "tls_error", "timeout"}
UnreachableCause == NetworkCauses \union {"persistent_5xx"}
NoCause == "null"

ASSUME HistoryAssumption ==
  /\ Window \in [NetworkCauses -> Nat]
  /\ Threshold \in Nat \ {0}
----------------------------------------------------------------------------
\* One probe.

FetchErrors == {"AbortError", "ENOTFOUND", "ECONNREFUSED", "CERT_HAS_EXPIRED",
                "ECONNRESET in TLS", "ECONNRESET", "UND_ERR_ABORTED"}
Answers == {"responsive", "5xx"} \union FetchErrors

\* The error codes of one class are represented by one of them.
classifyFetchError(err) ==
  CASE err \in {"AbortError", "UND_ERR_ABORTED"}           -> "timeout"
    [] err = "ENOTFOUND"                                   -> "dns_failure"
    [] err = "ECONNREFUSED"                                -> "tcp_refused"
    [] err \in {"CERT_HAS_EXPIRED", "ECONNRESET in TLS"}   -> "tls_error"
    [] OTHER                                               -> NoCause

\* An error of no known shape counts as a timeout.
ErrorCause(err) ==
  IF classifyFetchError(err) = NoCause THEN "timeout" ELSE classifyFetchError(err)

PERSISTENT_5XX_RETRY_COUNT == 3

\* Slip: one request too many.
ProbeOutcomeOneMore(fails, answer) ==
  IF answer \in FetchErrors THEN ErrorCause(answer)
  ELSE IF answer = "responsive" THEN NoCause
  ELSE IF fails < PERSISTENT_5XX_RETRY_COUNT THEN "retry"
  ELSE "persistent_5xx"

\* What one more answer makes of a probe that has had fails answers of 5xx:
\* the cause it ends with, or "retry".
ProbeOutcome(fails, answer) ==
  IF answer \in FetchErrors THEN ErrorCause(answer)
  ELSE IF answer = "responsive" THEN NoCause
  ELSE IF fails + 1 < PERSISTENT_5XX_RETRY_COUNT THEN "retry"
  ELSE "persistent_5xx"
----------------------------------------------------------------------------
\* The history file: its lines are probe records, and anything else that the
\* user's log holds.  The member by is not in the file: it names the run that
\* wrote the line.

isProbeAttemptRecord(line) == line.event = "bazaar.probe_attempt"

\* The lines of the file that are records of one service.
RecordsOf(file, url) ==
  {i \in DOMAIN file : isProbeAttemptRecord(file[i]) /\ file[i].service_url = url}

\* The orders of those lines that go from old to new; the sort is stable, so
\* lines of one time stay as they are in the file, and there is one order.
OldestFirst(file, url) ==
  LET lines == RecordsOf(file, url)
  IN {order \in [1..Cardinality(lines) -> lines] :
        \A j, k \in 1..Cardinality(lines) : j < k =>
          \/ file[order[j]].t < file[order[k]].t
          \/ file[order[j]].t = file[order[k]].t /\ order[j] < order[k]}

\* The records of one service, oldest first: the set has one member.
readProbeHistory(file, url) ==
  {[k \in DOMAIN order |-> file[order[k]]] : order \in OldestFirst(file, url)}

\* One more than the largest number seen.
nextAttemptSeq(history) ==
  IF history = <<>> THEN 1
  ELSE 1 + (CHOOSE n \in {history[i].attempt_seq : i \in DOMAIN history} :
              \A i \in DOMAIN history : history[i].attempt_seq <= n)

\* Slip: one record fewer than the threshold is enough.
ConsensusOneShort(history, cause) ==
  /\ cause # "persistent_5xx"
  /\ Len(history) >= Threshold - 1
  /\ LET recent == SubSeq(history, Len(history) - Threshold + 2, Len(history))
     IN \A i \in DOMAIN recent : recent[i].cause = cause

\* The last Threshold records name the cause, and their span is no more than
\* twice Threshold windows.
consensusReached(history, cause) ==
  /\ cause # "persistent_5xx"
  /\ Len(history) >= Threshold
  /\ LET recent == SubSeq(history, Len(history) - Threshold + 1, Len(history))
     IN /\ \A i \in 1..Threshold : recent[i].cause = cause
        /\ recent[Threshold].t - recent[1].t <= Threshold * Window[cause] * 2

ReachabilityState == {"ok", "unreachable_first_probe", "unreachable"}
ReachabilityFacet == [state : ReachabilityState, cause : UnreachableCause \union {NoCause},
                      probe_count : Nat, consensus_met : BOOLEAN]

\* The facet for the current record, given the history read before it.
FacetOf(prior, current) ==
  LET met == consensusReached(Append(prior, current), current.cause)
  IN IF current.cause = NoCause
     THEN [state |-> "ok", cause |-> NoCause,
           probe_count |-> Len(prior) + 1, consensus_met |-> FALSE]
     ELSE IF current.cause = "persistent_5xx"
     THEN [state |-> "unreachable_first_probe", cause |-> current.cause,
           probe_count |-> 1, consensus_met |-> FALSE]
     ELSE [state |-> IF met THEN "unreachable" ELSE "unreachable_first_probe",
           cause |-> current.cause, probe_count |-> Len(prior) + 1, consensus_met |-> met]
============================================================================
