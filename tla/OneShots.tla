------------------------------ MODULE OneShots ------------------------------
(***************************************************************************)
(* The programs that ask once, answer and end: runCli (src/cli/index.ts)   *)
(* running bazaar-check or validate, and a caller of the chain client's    *)
(* one-shot lookups.  One of them runs in a behaviour.  (The two commands  *)
(* that only read a log are Replay and Explain, the one that stays is      *)
(* LivePipeline.)                                                          *)
(***************************************************************************)
EXTENDS BazaarCheck, Validate, VerifyTransfer

VARIABLES
  program,  \* "none" until it is chosen
  exit      \* what runCli returns, -1 before

vars == <<bazaarVars, validateVars, lookupVars, program, exit>>

Programs == {"bazaar-check", "validate", "lookup"}

OneShotsTypeOK ==
  /\ BazaarTypeOK
  /\ stage \in {"arguments", "fetch", "chain", "diagnose", "facilitators", "exited"}
  /\ \A r \in Reads :
       /\ reads[r].failed \in 0..RETRIES
       /\ reads[r].settled \in {"no", "answered", "rejected"}
       /\ reads[r].settled = "rejected" => r # "detectWalletKind" /\ reads[r].failed = RETRIES
  /\ \A i \in DOMAIN calls : calls[i].at = "over" <=> calls[i].report # "none"
  /\ validated \in {-1, 0, 1, 2, 3}
  /\ tx \in {"nowhere", "mempool", "block"} /\ block \in 0..head
  /\ reading \in {"idle", "receipt", "block", "transaction", "head", "answered"}
  /\ failed \in 0..LOOKUP_RETRIES
  /\ exit \in {-1, 0, 1, 2, 3}

Init ==
  /\ BazaarInit /\ ValidateInit /\ LookupInit
  /\ program = "none"
  /\ exit = -1
----------------------------------------------------------------------------
\* Flags commander or an option's own parser rejects; --help and --version.
WrongFlags ==
  /\ program = "none" /\ exit = -1
  /\ exit' = 1
  /\ UNCHANGED <<bazaarVars, validateVars, lookupVars, program>>

ShowHelp ==
  /\ program = "none" /\ exit = -1
  /\ exit' = 0
  /\ UNCHANGED <<bazaarVars, validateVars, lookupVars, program>>

Dispatch(p) ==
  /\ program = "none" /\ exit = -1
  /\ program' = p
  /\ UNCHANGED <<bazaarVars, validateVars, lookupVars, exit>>

\* A command's code is runCli's; a command that rejects has been given code 1.
Return ==
  /\ exit = -1
  /\ \/ program = "bazaar-check" /\ step = "exited" /\ exit' = exitCode
     \/ program = "validate" /\ stage = "exited" /\ exit' = validated
  /\ UNCHANGED <<bazaarVars, validateVars, lookupVars, program>>

Bazaar(A) ==
  program = "bazaar-check" /\ A /\ UNCHANGED <<validateVars, lookupVars, program, exit>>
Validating(A) ==
  program = "validate" /\ A /\ UNCHANGED <<bazaarVars, lookupVars, program, exit>>
LookingUp(A) ==
  program = "lookup" /\ A /\ UNCHANGED <<bazaarVars, validateVars, program, exit>>

Next ==
  \/ WrongFlags \/ ShowHelp \/ Return
  \/ \E p \in Programs : Dispatch(p)
  \/ Bazaar(BazaarNext) \/ Validating(ValidateNext) \/ LookingUp(LookupNext)

\* The process runs.
Process ==
  \/ Return
  \/ Bazaar(BazaarProcess) \/ Validating(ValidateProcess) \/ LookingUp(LookupProcess)

\* Its timers fire.
Timers == Bazaar(TimerFires) \/ Validating(CallTimers)

\* A call to the RPC node settles: viem gives each a timeout.
RpcSettles == Validating(ChainReads) \/ LookingUp(NodeAnswers)

\* Services, discovery and facilitators owe nothing.
Spec ==
  /\ Init /\ [][Next]_vars
  /\ WF_vars(Process) /\ WF_vars(Timers) /\ WF_vars(RpcSettles)
----------------------------------------------------------------------------
(***************************************************************************)
(* Every program ends by itself: bazaar-check even when the service,       *)
(* discovery and the facilitator take requests and never answer, or stop   *)
(* in the middle of a body; validate once it has its challenge, even when  *)
(* facilitators do that; a lookup even when every read fails.              *)
(***************************************************************************)
ProgramsEnd ==
  \/ program \in {"bazaar-check", "lookup"}
  \/ program = "validate" /\ stage = "chain"
  ~> exit # -1 \/ answer # NoAnswer
=============================================================================
