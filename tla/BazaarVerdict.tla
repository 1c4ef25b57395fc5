--------------------------- MODULE BazaarVerdict ----------------------------
(***************************************************************************)
(* synthesiseVerdict (src/bazaar/verdict.ts): one verdict and one exit     *)
(* code from the results of the eight checks.                              *)
(***************************************************************************)
EXTENDS BazaarRules

IMPLEMENTATION_CHECKS == {"well-known", "challenge", "self-payment"}
UPSTREAM_CHECKS == {"indexing", "propagation", "facilitator-fitness", "reachability"}
CheckNames == IMPLEMENTATION_CHECKS \union UPSTREAM_CHECKS \union {"host-pollution"}

UpstreamStuckCause ==
  {"payload_echo_gap", "indexer_state_processing", "indexer_state_terminal", "unknown"}

hasProcessingIndexerState(results) == results["indexing"].state = "processing"

\* The reachability facet's state; FacetOf sets consensus_met with it.
reachabilityConsensus(results) == results["reachability"].state = "unreachable"

\* The challenge's extensions, which only a challenge that passed hands on.
challengeExtensionsFrom(results) == results["challenge"].status # "fail"

computeUpstreamStuckCause(results, payload, settle) ==
  LET rule1 == evaluateMissingResourceObject(payload)
      rule2 == evaluateExtensionsNotEchoed(settle, challengeExtensionsFrom(results))
  IN IF "yes" \in {rule1, rule2} THEN "payload_echo_gap"
     ELSE IF "deferred" \in {rule1, rule2} /\ hasProcessingIndexerState(results)
     THEN "indexer_state_processing"
     ELSE "unknown"

BazaarVerdict ==
  [kind : {"looks_correct"}, exitCode : {0}]
  \union [kind : {"implementation_issue"}, exitCode : {2},
          checks : (SUBSET IMPLEMENTATION_CHECKS) \ {{}}]
  \union [kind : {"upstream_issue"}, exitCode : {3}, checks : (SUBSET UPSTREAM_CHECKS) \ {{}}]
  \union [kind : {"upstream_stuck"}, exitCode : {3}, checks : (SUBSET UPSTREAM_CHECKS) \ {{}},
          cause : UpstreamStuckCause]
  \union [kind : {"service_unreachable"}, exitCode : {3}]

ImplementationFails(results) == {n \in IMPLEMENTATION_CHECKS : results[n].status = "fail"}
UpstreamSignals(results) == {n \in UPSTREAM_CHECKS : results[n].status = "info"}

\* The first that applies.
synthesiseVerdict(results, payload, settle) ==
  IF reachabilityConsensus(results)
  THEN [kind |-> "service_unreachable", exitCode |-> 3]
  ELSE IF ImplementationFails(results) # {}
  THEN [kind |-> "implementation_issue", exitCode |-> 2,
        checks |-> ImplementationFails(results)]
  ELSE IF UpstreamSignals(results) # {} /\ hasProcessingIndexerState(results)
  THEN [kind |-> "upstream_stuck", exitCode |-> 3, checks |-> UpstreamSignals(results),
        cause |-> computeUpstreamStuckCause(results, payload, settle)]
  ELSE IF UpstreamSignals(results) # {}
  THEN [kind |-> "upstream_issue", exitCode |-> 3, checks |-> UpstreamSignals(results)]
  ELSE [kind |-> "looks_correct", exitCode |-> 0]
============================================================================
