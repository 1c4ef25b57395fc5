---------------------------- MODULE BazaarCheck -----------------------------
(***************************************************************************)
(* x402trace bazaar-check: the command (src/cli/bazaar-check-command.ts)   *)
(* checks its arguments, then runBazaarCheck (src/bazaar/index.ts) makes   *)
(* one request after another, each under the command's timer, turns every  *)
(* answer into a check's result, and ends with a verdict and an exit code. *)
(*                                                                         *)
(* The service, CDP's discovery and the facilitator are the environment.   *)
(* They may answer a request in any way, at any time or never, change      *)
(* between two requests, and stop in the middle of a body.  The timer that *)
(* withRequestTimeout starts covers the wait for the headers and, when the *)
(* check reads it, for the body.                                           *)
(***************************************************************************)
EXTENDS BazaarVerdict, ProbeHistory

CONSTANTS
  Options,        \* the command lines, and what a caller of the library captured
  Manifests,      \* the manifests a service may serve
  Challenges,     \* the challenges, each with its extensions.bazaar and payTo
  Listings,       \* the lists of resources discovery may hold
  EarlierProbes,  \* what readProbeHistory may find
  Late            \* the time of this run's record

VARIABLES
  opts,       \* the options of this run, NoObject before they are given
  step,       \* the check that is running, "arguments", "report" or "exited"
  request,    \* "none", "sent" or "body": the request in flight
  manifest,   \* what the well-known check found
  challenge,  \* what fetchChallenge returned
  tries,      \* answers the running check's probe has had
  refused,    \* recoveredAfter5xx
  results,    \* the result of each check so far
  verdict,
  exitCode,
  heard       \* history: the last answer of each request that verdicts are judged by

bazaarRun == <<opts, manifest, challenge, results, verdict, exitCode>>
bazaarVars == <<bazaarRun, step, request, tries, refused, heard>>

NotYet == Result("none", "none")
CheckSteps == <<"well-known", "challenge", "indexing", "propagation", "host-pollution",
                "facilitator-fitness", "reachability", "report">>
NextStep(s) == CheckSteps[1 + (CHOOSE i \in 1..7 : CheckSteps[i] = s)]

BazaarInit ==
  /\ opts = NoObject
  /\ step = "arguments"
  /\ request = "none"
  /\ manifest = NoObject
  /\ challenge = [kind |-> "none"]
  /\ tries = 0
  /\ refused = FALSE
  /\ results = [n \in CheckNames |-> NotYet]
  /\ verdict = [kind |-> "none"]
  /\ exitCode = -1
  /\ heard = [n \in CheckNames \ {"propagation", "host-pollution"} |-> [kind |-> "none"]]
----------------------------------------------------------------------------
\* Answers.

Broken == [kind |-> "error"]        \* fetch rejected: the network, or the timer
Garbled == [kind |-> "unparsable"]  \* the body is not what it should be, or was cut off

\* Answers that are known from the headers alone, and answers that need the body.
HeaderAnswers(s) ==
  CASE s \in {"well-known", "challenge"} -> {[kind |-> "status"]}
    [] s \in {"indexing", "propagation", "host-pollution"} -> {[kind |-> "404"], [kind |-> "status"]}
    [] s = "facilitator-fitness" -> {[kind |-> k] : k \in {"2xx", "4xx", "5xx"}}
    [] OTHER -> {[kind |-> k] : k \in {"responsive", "5xx"}}

BodyAnswers(s) ==
  CASE s = "well-known" -> {[kind |-> "manifest", manifest |-> m] : m \in Manifests}
    [] s = "challenge" -> Challenges
    [] s \in {"indexing", "propagation", "host-pollution"} ->
         {[kind |-> "resources", resources |-> l] : l \in Listings} \union {[kind |-> "no list"]}
    [] OTHER -> {}

\* The ways fetch may reject.  Only reachability looks at the reason.
Rejections(s) ==
  IF s = "reachability" THEN {[kind |-> e] : e \in {"ENOTFOUND", "ECONNREFUSED", "ECONNRESET"}}
  ELSE {Broken}
TimedOut(s) == IF s = "reachability" THEN [kind |-> "AbortError"] ELSE Broken

\* Whether the running check makes a request at all.
NeedsRequest(s) ==
  CASE s = "well-known" -> ~opts.endpoint
    [] s \in {"indexing", "host-pollution"} ->
         challenge.kind = "challenge" /\ detectFacilitator(manifest) # "non-cdp"
    [] s = "propagation" ->
         /\ challenge.kind = "challenge"
         /\ manifest # NoObject /\ detectFacilitator(manifest) # "non-cdp"
    [] s = "facilitator-fitness" -> resolveFacilitator(declaredFacilitatorFrom(manifest))
    [] OTHER -> TRUE
----------------------------------------------------------------------------
\* What becomes of an answer.

Hear(answer) ==
  heard' = IF step \in DOMAIN heard THEN [heard EXCEPT ![step] = answer] ELSE heard

Record(newResults, answer) ==
  /\ results' = newResults
  /\ Hear(answer)
  /\ step' = NextStep(step)
  /\ tries' = 0
  /\ refused' = FALSE
  /\ UNCHANGED <<opts, verdict, exitCode>>

ConcludeWellKnown(answer) ==
  /\ step = "well-known"
  /\ manifest' = ManifestOf(answer)
  /\ Record([results EXCEPT !["well-known"] = checkWellKnown(answer)], answer)
  /\ UNCHANGED challenge

ConcludeChallenge(answer) ==
  /\ step = "challenge"
  /\ challenge' = answer
  /\ Record([results EXCEPT
               !["challenge"] = checkChallenge(answer),
               !["self-payment"] = IF answer.kind = "challenge"
                                   THEN checkSelfPayment(answer.payTo, opts.payerHint)
                                   ELSE Result("pass", "skipped")], answer)
  /\ UNCHANGED manifest

ConcludeDiscovery(answer) ==
  /\ step \in {"indexing", "propagation", "host-pollution"}
  /\ LET result == CASE step = "indexing" -> checkIndexing(manifest, answer)
                     [] step = "propagation" -> checkPropagation(manifest, answer)
                     [] OTHER -> checkHostPollution(manifest, answer)
     IN Record([results EXCEPT ![step] = result], answer)
  /\ UNCHANGED <<manifest, challenge>>

\* The probe of the facilitator, and its retries.
ConcludeFitness(answer) ==
  /\ step = "facilitator-fitness"
  /\ LET fitness == FitnessOutcome(tries, refused, answer.kind)
     IN IF fitness = "retry"
        THEN /\ tries' = tries + 1
             /\ refused' = (refused \/ answer.kind = "5xx")
             /\ UNCHANGED <<bazaarRun, step, heard>>
        ELSE /\ Record([results EXCEPT ![step] = checkFacilitatorFitness(fitness)], answer)
             /\ UNCHANGED <<manifest, challenge>>

\* The probe of the service, its retries, and the history.
ConcludeReachability(answer) ==
  /\ step = "reachability"
  /\ LET outcome == ProbeOutcome(tries, answer.kind)
         current == [cause |-> outcome, t |-> Late]
     IN IF outcome = "retry"
        THEN /\ tries' = tries + 1
             /\ UNCHANGED <<bazaarRun, step, refused, heard>>
        ELSE \/ \E prior \in (IF opts.history THEN EarlierProbes ELSE {<<>>}) :
                  LET facet == FacetOf(prior, current)
                         status == IF facet.state = "ok" THEN "pass" ELSE "info"
                  IN /\ Record([results EXCEPT ![step] = Result(status, facet.state)], answer)
                     /\ UNCHANGED <<manifest, challenge>>
             \* readFileSync throws: nothing up to runCli catches it.
             \/ /\ opts.history
                /\ step' = "exited"
                /\ exitCode' = 1
                /\ Hear(answer)
                /\ UNCHANGED <<opts, manifest, challenge, results, verdict, tries, refused>>

Conclude(answer) ==
  \/ ConcludeWellKnown(answer)
  \/ ConcludeChallenge(answer)
  \/ ConcludeDiscovery(answer)
  \/ ConcludeFitness(answer)
  \/ ConcludeReachability(answer)
----------------------------------------------------------------------------
\* The command.

\* The arguments are checked before anything is sent.
CheckArguments ==
  /\ step = "arguments"
  /\ opts' \in Options
  /\ IF opts'.wellFormed
     THEN /\ step' = "well-known"
          /\ exitCode' = exitCode
     ELSE /\ step' = "exited"
          /\ exitCode' = 1
  /\ UNCHANGED <<request, manifest, challenge, tries, refused, results, verdict, heard>>

\* A check without a request: its result follows from what is known.
Skip ==
  /\ step \in CheckNames
  /\ request = "none"
  /\ ~NeedsRequest(step)
  /\ LET result ==
           CASE step = "well-known" -> Result("pass", "skipped")
             [] step = "indexing" /\ challenge.kind # "challenge" -> Result("info", "skipped")
             [] step = "host-pollution" /\ challenge.kind # "challenge" -> Result("pass", "skipped")
             [] step = "facilitator-fitness" -> checkFacilitatorFitness("unknown")
             [] OTHER -> Result("pass", IF detectFacilitator(manifest) = "non-cdp"
                                        THEN "not_applicable_non_cdp" ELSE "unknown")
     IN Record([results EXCEPT ![step] = result], [kind |-> "none"])
  /\ UNCHANGED <<manifest, challenge, request>>

\* withRequestTimeout: the request goes out and its timer starts.
Send ==
  /\ step \in CheckNames
  /\ request = "none"
  /\ NeedsRequest(step)
  /\ request' = "sent"
  /\ UNCHANGED <<bazaarRun, step, tries, refused, heard>>

HeadersArrive ==
  /\ request = "sent"
  /\ \/ /\ \E answer \in HeaderAnswers(step) : Conclude(answer)
        /\ request' = "none"
     \/ /\ BodyAnswers(step) # {}
        /\ request' = "body"
        /\ UNCHANGED <<bazaarRun, step, tries, refused, heard>>

BodyArrives ==
  /\ request = "body"
  /\ \E answer \in BodyAnswers(step) \union {Garbled} : Conclude(answer)
  /\ request' = "none"

RequestFails ==
  /\ request = "sent"
  /\ \E answer \in Rejections(step) : Conclude(answer)
  /\ request' = "none"

\* Slip: the timer is cleared when the headers are there.
TimerOfHeaders ==
  /\ request = "sent"
  /\ Conclude(TimedOut(step))
  /\ request' = "none"

\* The timer aborts the request, or the body that is being read.
TimerFires ==
  /\ request # "none"
  /\ Conclude(IF request = "sent" THEN TimedOut(step) ELSE Garbled)
  /\ request' = "none"

\* The verdict is written out, and its exit code is the command's.
Report ==
  /\ step = "report"
  /\ verdict' = synthesiseVerdict(results, opts.payload, opts.settle)
  /\ exitCode' = verdict'.exitCode
  /\ step' = "exited"
  /\ UNCHANGED <<opts, request, manifest, challenge, tries, refused, results, heard>>

BazaarProcess == CheckArguments \/ Skip \/ Send \/ Report
Network == HeadersArrive \/ BodyArrives \/ RequestFails

BazaarNext == BazaarProcess \/ Network \/ TimerFires
----------------------------------------------------------------------------
BazaarTypeOK ==
  /\ opts \in Options \union {NoObject}
  /\ step \in CheckNames \union {"arguments", "report", "exited"}
  /\ request \in {"none", "sent", "body"}
  /\ manifest \in Manifests \union {NoObject}
  /\ tries \in 0..PROBE_RETRIES
  /\ \A n \in CheckNames : results[n].status \in CheckStatus \union {"none"}
  /\ verdict = [kind |-> "none"] \/ verdict \in BazaarVerdict
  /\ exitCode \in {-1, 0, 1, 2, 3}

Probed(kinds) == heard["reachability"].kind \in kinds
Captured(payload, settle) == payload \notin {NoObject, "no object"} /\ settle # NoObject

OwnFault ==
  \/ /\ ~opts.endpoint
     /\ \/ heard["well-known"].kind # "manifest"
        \/ ManifestIssues(heard["well-known"].manifest) # {}
  \/ heard["challenge"].kind # "challenge"
  \/ heard["challenge"].bazaar = NoObject
  \/ MissingMembers(heard["challenge"].bazaar) # {}
  \/ heard["challenge"].payTo = opts.payerHint

(***************************************************************************)
(* What a verdict tells the operator was so when it was asked.             *)
(*   looks_correct: the manifest (where it was asked for) and the          *)
(*     challenge were complete, the payer is not the payee, discovery      *)
(*     listed the service unless another facilitator is declared, the      *)
(*     service answered its probe, and no probe of a facilitator failed.   *)
(*   implementation_issue: something of the operator's own was wrong, or   *)
(*     was not there to be looked at.                                      *)
(*   upstream_stuck: nothing of the operator's own was wrong, and          *)
(*     discovery answered with 404, or with JSON in which it lists no      *)
(*     resource (an error object or null is that, too); never because it   *)
(*     could not be asked, refused, or sent what is not JSON.  The cause   *)
(*     is "unknown" only when all that it turns on was captured, and the   *)
(*     buyer's payload is blamed only for what was captured.               *)
(*   upstream_issue: nothing of the operator's own was wrong.              *)
(*   service_unreachable: this run's own probe met a network failure; one  *)
(*     failure is enough only for a consensus of one, else the log that    *)
(*     earlier runs wrote was read.                                        *)
(***************************************************************************)
VerdictsEarned ==
  /\ verdict.kind = "looks_correct" =>
       /\ ~OwnFault
       /\ Listed(heard["indexing"]) \/ detectFacilitator(manifest) = "non-cdp"
       /\ heard["facilitator-fitness"].kind \in {"none", "2xx", "4xx"}
       /\ Probed({"responsive"})
  /\ verdict.kind = "implementation_issue" => OwnFault
  /\ verdict.kind = "upstream_stuck" =>
       /\ ~OwnFault
       /\ heard["indexing"].kind \in {"404", "resources", "no list"}
       /\ ~Listed(heard["indexing"])
       /\ verdict.cause = "payload_echo_gap" =>
            opts.payload = "bare string" \/ opts.settle = "2xx, none echoed"
       /\ verdict.cause = "indexer_state_processing" => ~Captured(opts.payload, opts.settle)
       /\ verdict.cause = "unknown" => Captured(opts.payload, opts.settle)
  /\ verdict.kind = "upstream_issue" => ~OwnFault
  /\ verdict.kind = "service_unreachable" =>
       Probed(FetchErrors) /\ (opts.history \/ Threshold = 1)
============================================================================
