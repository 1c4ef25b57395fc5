------------------------------ MODULE Validate ------------------------------
(***************************************************************************)
(* x402trace validate <wallet> <service-url> (src/cli/validate-command.ts) *)
(* and its --diff mode (src/cli/validate-facilitator-diff.ts): read the    *)
(* service's challenge, read the wallet's state from the chain in three    *)
(* concurrent calls, then diagnose, or ask every listed facilitator at     *)
(* once and compare what they say.                                         *)
(*                                                                         *)
(* The service, the RPC node and the facilitators are the environment.     *)
(* The request to the service has no timer.  A call to the node settles    *)
(* (viem's own timeout) and is retried; a facilitator's call, body         *)
(* included, is under a timer of its own.                                  *)
(***************************************************************************)
EXTENDS Decoder, Diagnose

CONSTANTS
  CommandLines,   \* [wellFormed, wallet, rpc, strict, diff]
  Bodies402,      \* the bodies of a 402
  Balances,       \* what the node may answer balanceOf with
  KnownAliases,   \* --diff entries that name a facilitator (aliases and URLs)
  Verifications   \* a facilitator's answers, as FacilitatorInteraction

\* What JSON and the command line can spell.
Amounts == Int \union {NotANumber, Absent}
Terms402 ==
  [scheme : STRING, network : STRING, payTo : STRING, asset : STRING,
   maxAmountRequired : Amounts, amount : Amounts, maxTimeoutSeconds : Int \union {Absent}]
Entries402 == [strings : SUBSET STRING, terms : Terms402]
Payments ==
  [scheme : STRING, network : STRING, from : STRING, to : STRING,
   value : Amounts, validAfter : Int, validBefore : Int]

ASSUME ValidateAssumption ==
  /\ \A line \in CommandLines : line.wallet \in STRING /\ line.diff \in Seq(STRING)
  /\ Bodies402 \subseteq
       {NoBody} \union [version : Nat, accepts : {NoList} \union Seq({NoEntry} \union Entries402)]
  /\ Balances \subseteq Nat
  /\ Absent \notin Int \union BOOLEAN \union {"eoa", "smart-wallet", "unknown"} \union Payments

VARIABLES
  args,       \* the command line, Absent before it is given
  stage,      \* where runValidateCommand is
  required,   \* the requirements, NoTerms before they are parsed
  reads,      \* per chain read: the calls that failed, and what it settled to
  calls,      \* per --diff entry: where its call is, the interaction, its report
  validated   \* the exit code, -1 before

validateVars == <<args, stage, required, reads, calls, validated>>

RETRIES == 3
Reads == {"getUsdcBalance", "isNonceConsumed", "detectWalletKind"}
Unsettled == [failed |-> 0, settled |-> "no", value |-> Absent]
Waiting == [at |-> "headers", said |-> Absent, report |-> "none"]

ValidateInit ==
  /\ args = Absent
  /\ stage = "arguments"
  /\ required = NoTerms
  /\ reads = [r \in Reads |-> Unsettled]
  /\ calls = <<>>
  /\ validated = -1

Exit(code) ==
  /\ stage' = "exited"
  /\ validated' = code
----------------------------------------------------------------------------
\* The command line and the challenge.

GiveArguments ==
  /\ stage = "arguments"
  /\ args' \in CommandLines
  /\ IF args'.wellFormed
     THEN stage' = "fetch" /\ UNCHANGED validated
     ELSE Exit(1)
  /\ UNCHANGED <<required, reads, calls>>

\* The request fails, or is answered with another status.
NoChallenge ==
  /\ stage = "fetch"
  /\ Exit(2)
  /\ UNCHANGED <<args, required, reads, calls>>

\* A mainnet client without an RPC URL cannot be made: nothing in the command
\* catches that, and runCli makes it a usage error.
ChallengeArrives ==
  /\ stage = "fetch"
  /\ \E body \in Bodies402 :
       /\ required' = parseChallengeBody(body)
       /\ IF required' = NoTerms THEN Exit(2)
          ELSE IF args.rpc = "missing" THEN Exit(1)
          ELSE stage' = "chain" /\ UNCHANGED validated
  /\ UNCHANGED <<args, reads, calls>>
----------------------------------------------------------------------------
\* The wallet's state.

Rejected(r) == r.settled = "rejected"

\* Promise.all is over as soon as one read rejects: what the others answer is
\* dropped.
Join(now) ==
  IF \E r \in Reads : Rejected(now[r])
  THEN /\ stage' = "diagnose"
       /\ reads' = [r \in Reads |-> IF Rejected(now[r]) THEN now[r] ELSE Unsettled]
  ELSE /\ reads' = now
       /\ IF \A r \in Reads : now[r].settled = "answered"
          THEN stage' = "diagnose" ELSE UNCHANGED stage

NodeSays(r) ==
  CASE r = "getUsdcBalance"  -> Balances
    [] r = "isNonceConsumed" -> BOOLEAN
    [] OTHER                 -> {"eoa", "smart-wallet"}

Answer(v) == [failed |-> 0, settled |-> "answered", value |-> v]

ReadAnswered(r) ==
  /\ stage = "chain"
  /\ reads[r].settled = "no"
  /\ \E v \in NodeSays(r) : Join([reads EXCEPT ![r] = Answer(v)])
  /\ UNCHANGED <<args, required, calls, validated>>

\* withRetry: three retries after the first call.  detectWalletKind answers
\* "unknown" instead of rejecting.
OneMoreFailure(r, read) ==
  IF read.failed < RETRIES THEN [read EXCEPT !.failed = @ + 1]
  ELSE IF r = "detectWalletKind" THEN Answer("unknown")
  ELSE [read EXCEPT !.settled = "rejected"]

ReadFailsOnce(r) ==
  /\ stage = "chain"
  /\ reads[r].settled = "no"
  /\ Join([reads EXCEPT ![r] = OneMoreFailure(r, reads[r])])
  /\ UNCHANGED <<args, required, calls, validated>>

walletState ==
  IF \E r \in Reads : Rejected(reads[r])
  THEN [usdcBalance |-> Absent, nonceConsumed |-> Absent, walletKind |-> Absent]
  ELSE [usdcBalance   |-> reads["getUsdcBalance"].value,
        nonceConsumed |-> reads["isNonceConsumed"].value,
        walletKind    |-> reads["detectWalletKind"].value]

\* What the wallet would sign now, valid for the time the service allows.
synthesised ==
  [scheme |-> required.scheme, network |-> required.network,
   from |-> args.wallet, to |-> required.payTo, value |-> required.maxAmountRequired,
   validAfter |-> 0,
   validBefore |-> IF required.maxTimeoutSeconds = Absent THEN 300
                   ELSE required.maxTimeoutSeconds]

\* Seconds are counted from the moment of the command; the epoch is long past.
diagCtx(facilitator) ==
  [requirements |-> required, payment |-> synthesised, wallet |-> walletState,
   facilitator |-> facilitator, expectsBazaar |-> FALSE, now |-> 0]
----------------------------------------------------------------------------
\* The single-facilitator report.

ReportDiagnosis ==
  /\ stage = "diagnose"
  /\ args.diff = <<>>
  /\ LET overallStatus == diagnose(diagCtx(Absent))
     IN Exit(IF \/ overallStatus = "would-fail"
                \/ overallStatus = "uncertain" /\ args.strict
             THEN 2 ELSE 0)
  /\ UNCHANGED <<args, required, reads, calls>>
----------------------------------------------------------------------------
\* --diff.  One call per entry of the list, an entry named twice twice.

parseFacilitatorList(entries) ==
  Len(entries) >= 2 /\ \A i \in DOMAIN entries : entries[i] \in KnownAliases

\* The list is looked at only here, after the service and the chain were asked.
AskFacilitators ==
  /\ stage = "diagnose"
  /\ args.diff # <<>>
  /\ IF parseFacilitatorList(args.diff)
     THEN /\ calls' = [i \in DOMAIN args.diff |-> Waiting]
          /\ stage' = "facilitators"
          /\ UNCHANGED validated
     ELSE /\ Exit(1)
          /\ UNCHANGED calls
  /\ UNCHANGED <<args, required, reads>>

\* fetch rejected.
CutOff(message) ==
  [isCdp |-> FALSE, stage |-> "verify", statusCode |-> 0, isValid |-> Absent, success |-> FALSE,
   extensionResponses |-> FALSE, says |-> {message}]

accepted(said) == said.statusCode \in 200..299 /\ said.isValid = TRUE
timedOut(said) == said.statusCode = 0 /\ said.says = {"timeout"}

\* Slip: one facilitator that timed out makes them all.
DiffVerdictOfSome(said) ==
  IF \E i \in DOMAIN said : accepted(said[i]) THEN [kind |-> "any_accepts", exitCode |-> 0]
  ELSE IF \E i \in DOMAIN said : timedOut(said[i]) THEN [kind |-> "all_timeout", exitCode |-> 3]
  ELSE [kind |-> "all_reject", exitCode |-> 2]

synthesiseDiffVerdict(said) ==
  IF \E i \in DOMAIN said : accepted(said[i]) THEN [kind |-> "any_accepts", exitCode |-> 0]
  ELSE IF \A i \in DOMAIN said : timedOut(said[i]) THEN [kind |-> "all_timeout", exitCode |-> 3]
  ELSE [kind |-> "all_reject", exitCode |-> 2]

\* Each call gets a report of its own; the verdict is there when the last is over.
Settle(i, said) ==
  /\ calls' = [calls EXCEPT ![i] =
                 [at |-> "over", said |-> said, report |-> diagnose(diagCtx(said))]]
  /\ IF \A j \in DOMAIN calls : calls'[j].at = "over"
     THEN Exit(synthesiseDiffVerdict([j \in DOMAIN calls |-> calls'[j].said]).exitCode)
     ELSE UNCHANGED <<stage, validated>>
  /\ UNCHANGED <<args, required, reads>>

\* The status is there, the body is read.
StatusArrives(i) ==
  /\ stage = "facilitators"
  /\ calls[i].at = "headers"
  /\ \E said \in Verifications :
       calls' = [calls EXCEPT ![i].at = "body", ![i].said = said]
  /\ UNCHANGED <<args, stage, required, reads, validated>>

BodyRead(i) ==
  /\ stage = "facilitators"
  /\ calls[i].at = "body"
  /\ Settle(i, calls[i].said)

\* A body that breaks off, or that the timer cuts, is an empty one.
BodyLost(i) == Settle(i, [calls[i].said EXCEPT !.isValid = Absent, !.says = {}])

CallFails(i) ==
  /\ stage = "facilitators"
  /\ \/ calls[i].at = "headers" /\ Settle(i, CutOff("network"))
     \/ calls[i].at = "body" /\ BodyLost(i)

CallTimesOut(i) ==
  /\ stage = "facilitators"
  /\ \/ calls[i].at = "headers" /\ Settle(i, CutOff("timeout"))
     \/ calls[i].at = "body" /\ BodyLost(i)
----------------------------------------------------------------------------
ValidateProcess == GiveArguments \/ ReportDiagnosis \/ AskFacilitators
ChainReads == \E r \in Reads : ReadAnswered(r) \/ ReadFailsOnce(r)
CallTimers == \E i \in DOMAIN calls : CallTimesOut(i)
FacilitatorCalls ==
  \E i \in DOMAIN calls : StatusArrives(i) \/ BodyRead(i) \/ CallFails(i)

ValidateNext ==
  \/ ValidateProcess \/ NoChallenge \/ ChallengeArrives
  \/ ChainReads \/ FacilitatorCalls \/ CallTimers
----------------------------------------------------------------------------
Refused == \E r \in Reads : Rejected(reads[r])

(***************************************************************************)
(* The exit code of a pre-flight check says what it may say, whatever fails*)
(* on the way and in whatever order the answers come.                      *)
(*   0 without --diff: a challenge was read that this wallet can satisfy:  *)
(*     not its own payee, an amount that is a number, time left to pay, the*)
(*     standard token on base-sepolia; and either the node said that the   *)
(*     balance suffices, the nonce is unused and the wallet is of a known  *)
(*     kind, or a read was refused and --strict was not given.             *)
(*   0 with --diff: a facilitator called the payment valid, in full,       *)
(*     before its timer.                                                   *)
(*   3: no facilitator answered at all, and no call failed otherwise.      *)
(*   1: no facilitator was asked.                                          *)
(***************************************************************************)
ValidateExitEarned ==
  LET diffMode == calls # <<>>
      said == {calls[i].said : i \in DOMAIN calls}
  IN /\ validated = 0 /\ ~diffMode =>
          /\ required # NoTerms
          /\ required.payTo # args.wallet
          /\ required.maxAmountRequired # NotANumber
          /\ required.maxTimeoutSeconds = Absent \/ required.maxTimeoutSeconds > 0
          /\ required.network = "base-sepolia" => required.asset = "BASE_SEPOLIA_USDC"
          /\ IF Refused THEN ~args.strict
             ELSE /\ reads["getUsdcBalance"].value >= required.maxAmountRequired
                  /\ reads["isNonceConsumed"].value = FALSE
                  /\ reads["detectWalletKind"].value # "unknown"
     /\ validated = 0 /\ diffMode => \E s \in said : s.isValid = TRUE /\ s.statusCode # 0
     /\ validated = 2 /\ diffMode => \E s \in said : ~timedOut(s)
     /\ validated = 3 => diffMode /\ \A s \in said : timedOut(s)
     /\ validated = 1 => ~diffMode
=============================================================================
