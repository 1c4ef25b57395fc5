---------------------------- MODULE BazaarRules -----------------------------
(***************************************************************************)
(* The checks of bazaar-check as operators on what was fetched: the        *)
(* well-known manifest, the 402 challenge, discovery listings, the         *)
(* facilitator's answers, captured payloads (src/bazaar/*.ts).  Each check *)
(* returns its status and the state its detail carries; wording is left    *)
(* out.                                                                    *)
(*                                                                         *)
(* extensions.bazaar is a record of two sets: the members it has, and the  *)
(* members of the right type and not blank; it is NoObject when it is not  *)
(* an object.  A manifest carries its facilitator beside it.               *)
(***************************************************************************)
EXTENDS Integers, Sequences, FiniteSets

CONSTANTS
  NoObject,  \* undefined, null, or not an object
  NoText     \* stringFieldOrNull's null: not a string, or blank

CheckStatus == {"pass", "fail", "info"}
Result(status, state) == [status |-> status, state |-> state]
----------------------------------------------------------------------------
\* extensions.bazaar, in the manifest and in the challenge.

BodyMembers == {"info.input", "info.output", "schema"}

detectBazaarVariant(bazaar) ==
  IF bazaar = NoObject THEN "unknown"
  ELSE IF BodyMembers \subseteq bazaar.members THEN "body-discovery"
  ELSE "mcp-discovery"

MissingMembers(bazaar) ==
  CASE detectBazaarVariant(bazaar) = "body-discovery" -> BodyMembers \ bazaar.sound
    [] detectBazaarVariant(bazaar) = "mcp-discovery"  -> {"name", "description"} \ bazaar.sound
    [] OTHER -> {}

\* What is wrong with a manifest.
ManifestIssues(m) ==
  {f \in {"name", "description"} : m[f] = NoText}
  \union (IF m.accepts = "not a list" THEN {"accepts"} ELSE {})
  \union (IF m.declaresBazaar /\ m.bazaar = NoObject THEN {"extensions.bazaar"} ELSE {})
  \union MissingMembers(m.bazaar)

checkWellKnown(answer) ==
  Result(IF answer.kind = "manifest" /\ ManifestIssues(answer.manifest) = {}
         THEN "pass" ELSE "fail", answer.kind)

\* A manifest with issues is still handed to the checks that follow.
ManifestOf(answer) == IF answer.kind = "manifest" THEN answer.manifest ELSE NoObject

checkChallenge(answer) ==
  Result(IF /\ answer.kind = "challenge"
            /\ answer.bazaar # NoObject
            /\ MissingMembers(answer.bazaar) = {}
         THEN "pass" ELSE "fail", answer.kind)

checkSelfPayment(payTo, payerHint) ==
  Result(IF payerHint = payTo THEN "fail" ELSE "pass", "compared")

CdpNames == {"cdp", "coinbase-cdp", "coinbase"}

\* A declaration of CDP's URL is not one of CDP's names.
detectFacilitator(m) ==
  IF m = NoObject THEN "unknown"
  ELSE IF m.bazaar = NoObject \/ m.facilitator = NoText THEN "unknown"
  ELSE IF m.facilitator \in CdpNames THEN "cdp"
  ELSE "non-cdp"
----------------------------------------------------------------------------
\* CDP discovery.  An answer is an error, a status, a body that is not JSON, a
\* list of resources, or JSON whose `resources` is no list ("no list": an error
\* object, null).

Listed(answer) == answer.kind = "resources" /\ answer.resources # <<>>
ListsNothing(answer) ==
  answer.kind \in {"404", "no list"} \/ (answer.kind = "resources" /\ answer.resources = <<>>)

\* Slip: a failed query counts as a listing.
IndexingHopeful(m, answer) ==
  IF detectFacilitator(m) = "non-cdp" THEN Result("pass", "not_applicable_non_cdp")
  ELSE IF ListsNothing(answer) THEN Result("info", "processing")
  ELSE Result("pass", "indexed")

checkIndexing(m, answer) ==
  IF detectFacilitator(m) = "non-cdp" THEN Result("pass", "not_applicable_non_cdp")
  ELSE IF Listed(answer) THEN Result("pass", "indexed")
  ELSE IF ListsNothing(answer) THEN Result("info", "processing")
  ELSE Result("info", "unknown")

DiffedFields == {"name", "description"}

computePropagationStatus(m, resource) ==
  LET diff == {f \in DiffedFields : m[f] # resource[f]}
  IN IF diff = {} THEN "ok"
     ELSE IF diff = DiffedFields /\ \A f \in diff : m[f] # NoText /\ resource[f] = NoText
     THEN "missing"
     ELSE "partial"

\* Only the first resource is looked at.
checkPropagation(m, answer) ==
  IF detectFacilitator(m) = "non-cdp" THEN Result("pass", "not_applicable_non_cdp")
  ELSE IF m = NoObject \/ ~Listed(answer) THEN Result("pass", "unknown")
  ELSE LET status == computePropagationStatus(m, answer.resources[1])
       IN Result(IF status = "ok" THEN "pass" ELSE "info", status)

\* The paths that are listed under more than one host.
findHostPollution(resources) ==
  {resources[i].path : i \in
     {k \in DOMAIN resources : \E j \in DOMAIN resources :
        resources[j].path = resources[k].path /\ resources[j].host # resources[k].host}}

checkHostPollution(m, answer) ==
  IF detectFacilitator(m) = "non-cdp" THEN Result("pass", "not_applicable_non_cdp")
  ELSE IF answer.kind \notin {"resources", "no list"} THEN Result("pass", "unknown")
  ELSE IF answer.kind = "no list" THEN Result("pass", "no_pollution")
  ELSE IF findHostPollution(answer.resources) = {} THEN Result("pass", "no_pollution")
  ELSE Result("info", "polluted")
----------------------------------------------------------------------------
\* The facilitator.

\* The registry matches names and URLs.
Registered == CdpNames \union {"CDP's URL", "payai", "x402.org"}

declaredFacilitatorFrom(m) ==
  IF m = NoObject THEN NoText ELSE IF m.bazaar = NoObject THEN NoText ELSE m.facilitator

resolveFacilitator(declared) == declared \in Registered

PROBE_RETRIES == 3

\* Slip: one request too many.
FitnessOneMore(tries, refused, answer) ==
  IF answer \in {"2xx", "4xx"} THEN "ok"
  ELSE IF tries <= PROBE_RETRIES THEN "retry"
  ELSE "unreachable"

\* One more answer to a probe that has had tries answers already, some of them
\* 5xx when refused holds: its fitness, or "retry".
FitnessOutcome(tries, refused, answer) ==
  IF answer = "4xx" \/ (answer = "2xx" /\ ~refused) THEN "ok"
  ELSE IF answer = "2xx" THEN "degraded"
  ELSE IF tries < PROBE_RETRIES THEN "retry"
  ELSE "unreachable"

\* One rail or many, all get the one probe's fitness.
checkFacilitatorFitness(fitness) ==
  Result(IF fitness = "unreachable" THEN "info" ELSE "pass", fitness)
----------------------------------------------------------------------------
\* What the buyer sent and what the facilitator's settlement said, when they
\* were captured: "yes", "no", or "deferred" when they were not.  A captured
\* payload is no object, or its `resource` is a bare string or not.

evaluateMissingResourceObject(payload) ==
  IF payload \in {NoObject, "no object"} THEN "deferred"
  ELSE IF payload = "bare string" THEN "yes"
  ELSE "no"

evaluateExtensionsNotEchoed(settle, declared) ==
  IF settle = NoObject THEN "deferred"
  ELSE IF settle = "2xx, none echoed" /\ declared THEN "yes"
  ELSE "no"
============================================================================
