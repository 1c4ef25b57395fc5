---------------------------- MODULE OneShotProofs ----------------------------
(***************************************************************************)
(* Theorems about the programs that ask once, answer and end: a lookup for *)
(* any question and receipt and any number of blocks; validate for any     *)
(* command line, challenge, wallet and list of facilitators; bazaar-check  *)
(* for any manifest, challenge, listing, history and facilitator.  Each    *)
(* has an inductive invariant of its own, and none disturbs another's.     *)
(***************************************************************************)
EXTENDS OneShots, TLAPS

\* A lookup.  The parts of LookupEarned.
Succeeded == tx = "block" /\ receipt.status = "success"
Moved == TransfersOf(receipt, question.token)
AsExpected ==
  /\ question.to \in {Unspecified, Moved[1].to}
  /\ question.from \in {Unspecified, Moved[1].from}
  /\ question.amount \in {Unspecified, Moved[1].value}
NoSuccess == tx = "block" /\ (receipt.status # "success" \/ receipt.transfers = <<>>)

----------------------------------------------------------------------------
(***************************************************************************)
(* The lookup's invariant.  The answer is put together from reads that     *)
(* may each have seen another chain; what makes it true is that a read     *)
(* that is awaited remembers what the reads before it have established,    *)
(* and that none of it can become false again.                             *)
(***************************************************************************)
ChainTyped ==
  /\ tx \in {"nowhere", "mempool", "block"}
  /\ head \in Nat /\ block \in Nat /\ block <= head

Established ==
  /\ reading \in {"idle", "receipt", "block", "transaction", "head", "answered"}
  /\ reading \in {"block", "head"} => Succeeded /\ Moved # <<>>
  /\ reading = "head" => AsExpected
  /\ reading = "transaction" => missed \/ NoSuccess
  /\ reading \in {"idle", "receipt"} => missed = FALSE
  /\ failed \in 0..LOOKUP_RETRIES
  /\ reading # "answered" => answer = NoAnswer

AnswerTrue ==
  /\ answer.kind = "confirmed" =>
       /\ Succeeded /\ Moved # <<>> /\ AsExpected
       /\ answer.confirmations \in 0 .. head - block + 1
  /\ answer.kind = "transfer" => Succeeded /\ Moved # <<>>
  /\ answer.kind = "wrong_token" => Succeeded /\ Moved = <<>> /\ receipt.transfers # <<>>
  /\ answer.kind \in {"wrong_recipient", "wrong_amount"} =>
       Succeeded /\ Moved # <<>> /\ ~AsExpected
  /\ answer.kind = "pending" => tx # "nowhere"
  /\ answer.kind = "reverted" => tx = "block" /\ (missed \/ NoSuccess)

LookupInductive == ChainTyped /\ Established /\ AnswerTrue

LEMMA AnswerTrueIsEarned == AnswerTrue => LookupEarned
BY DEF AnswerTrue, LookupEarned, Succeeded, Moved, AsExpected, NoSuccess

LEMMA NothingSaid == answer = NoAnswer => AnswerTrue
BY DEF NoAnswer, AnswerTrue

LEMMA InitLookup == LookupInit => LookupInductive
<1> SUFFICES ASSUME LookupInit PROVE LookupInductive
  OBVIOUS
<1> QED
  BY NothingSaid DEF LookupInit, LookupInductive, ChainTyped, Established, LOOKUP_RETRIES

----------------------------------------------------------------------------
\* The chain moves while the lookup waits: what was so stays so.
LEMMA ChainMovesKeeps ==
  ASSUME LookupInductive, ChainMoves
  PROVE  LookupInductive'
<1>1. /\ ChainTyped' /\ head' \in Nat /\ head' >= head
      /\ tx = "block" => tx' = "block" /\ receipt' = receipt /\ block' = block
      /\ tx # "nowhere" => tx' # "nowhere"
      /\ UNCHANGED <<question, reading, failed, missed, answer>>
  BY DEF LookupInductive, ChainTyped, ChainMoves, Broadcast, NewBlock
<1>2. /\ Succeeded => Succeeded' /\ Moved' = Moved /\ (AsExpected' <=> AsExpected)
                      /\ receipt' = receipt /\ block' = block
      /\ NoSuccess => NoSuccess'
  <2>1. ASSUME tx = "block"
        PROVE  Moved' = Moved /\ (AsExpected' <=> AsExpected)
    <3>1. receipt' = receipt /\ question' = question
      BY <1>1, <2>1
    <3>2. Moved' = Moved
      BY <3>1 DEF Moved
    <3> QED
      BY <3>1, <3>2 DEF AsExpected
  <2> QED
    BY <1>1, <2>1 DEF Succeeded, NoSuccess
<1>3. Established'
  BY <1>1, <1>2 DEF LookupInductive, Established
<1>4. AnswerTrue'
  <2>1. answer.kind = "confirmed" => answer.confirmations \in 0 .. head' - block' + 1
    BY <1>1, <1>2 DEF LookupInductive, AnswerTrue, ChainTyped, Succeeded
  <2> QED
    BY <1>1, <1>2, <2>1 DEF LookupInductive, AnswerTrue, NoSuccess
<1> QED
  BY <1>1, <1>3, <1>4 DEF LookupInductive

----------------------------------------------------------------------------
\* The lookup's own steps leave the chain alone: each establishes what the next
\* read rests on, or gives an answer that follows from what it has.
LEMMA ReadNextKeeps ==
  ASSUME LookupInductive, NEW what, ReadNext(what), UNCHANGED chainState, reading # "answered",
         what \in {"receipt", "block", "transaction", "head"},
         what = "receipt" => missed' = FALSE,
         what \in {"block", "head"} => (Succeeded /\ Moved # <<>>)',
         what = "head" => AsExpected',
         what = "transaction" => (missed \/ NoSuccess)'
  PROVE  LookupInductive'
<1>1. reading' = what /\ answer' = answer /\ answer = NoAnswer
  BY DEF ReadNext, LookupInductive, Established
<1>2. AnswerTrue'
  BY <1>1 DEF AnswerTrue, NoAnswer
<1>3. ChainTyped'
  BY DEF LookupInductive, ChainTyped, chainState
<1>4. Established'
  BY <1>1 DEF Established, ReadNext, LOOKUP_RETRIES
<1> QED
  BY <1>2, <1>3, <1>4 DEF LookupInductive

LEMMA AnsweredKeeps ==
  ASSUME LookupInductive, NEW kind, NEW n, Answered(kind, n), UNCHANGED chainState,
         kind = "confirmed" =>
           (Succeeded /\ Moved # <<>> /\ AsExpected)' /\ n \in 0..head - block + 1,
         kind = "transfer" => (Succeeded /\ Moved # <<>>)',
         kind = "wrong_token" => (Succeeded /\ Moved = <<>> /\ receipt.transfers # <<>>)',
         kind \in {"wrong_recipient", "wrong_amount"} =>
           (Succeeded /\ Moved # <<>> /\ ~AsExpected)',
         kind = "pending" => tx # "nowhere",
         kind = "reverted" => tx = "block" /\ (missed \/ NoSuccess)'
  PROVE  LookupInductive'
<1>1. reading' = "answered" /\ answer' = [kind |-> kind, confirmations |-> n]
  BY DEF Answered
<1>2. answer'.kind = kind /\ answer'.confirmations = n
  BY <1>1
<1>3. tx' = tx /\ head' = head /\ block' = block
  BY DEF chainState
<1>4. AnswerTrue'
  BY <1>2, <1>3 DEF AnswerTrue
<1>5. ChainTyped' /\ Established'
  BY <1>1, <1>3 DEF LookupInductive, ChainTyped, Established, Answered, LOOKUP_RETRIES
<1> QED
  BY <1>4, <1>5 DEF LookupInductive

\* A retry changes nothing but the count.
LEMMA RetryKeeps ==
  ASSUME LookupInductive, failed' = failed + 1, UNCHANGED <<reading, answer, chainState, question>>,
         failed < LOOKUP_RETRIES, missed => missed',
         reading \in {"idle", "receipt"} => missed' = FALSE
  PROVE  LookupInductive'
<1>1. /\ Succeeded' <=> Succeeded
      /\ NoSuccess' <=> NoSuccess
      /\ Moved' = Moved
      /\ AsExpected' <=> AsExpected
  BY DEF chainState, Succeeded, NoSuccess, Moved, AsExpected
<1>2. UNCHANGED <<tx, head, block, receipt>>
  BY DEF chainState
<1>3. ChainTyped'
  BY <1>2 DEF LookupInductive, ChainTyped
<1>4. Established'
  BY <1>1 DEF LookupInductive, Established, LOOKUP_RETRIES
<1>5. AnswerTrue'
  BY <1>1, <1>2 DEF LookupInductive, AnswerTrue
<1> QED
  BY <1>3, <1>4, <1>5 DEF LookupInductive

LEMMA AskKeeps ==
  ASSUME LookupInductive, Ask
  PROVE  LookupInductive'
<1>1. /\ reading = "idle" /\ missed = FALSE /\ missed' = missed
      /\ ReadNext("receipt") /\ UNCHANGED chainState
  BY DEF Ask, LookupInductive, Established
<1> QED
  BY <1>1, ReadNextKeeps

\* Nothing to compare: the answer, or one more read, that NoTransfer leads to.
LEMMA NoTransferKeeps ==
  ASSUME LookupInductive, NoTransfer, UNCHANGED <<chainState, question>>, reading = "receipt",
         (missed \/ NoSuccess)'
  PROVE  LookupInductive'
<1>1. CASE Answered("null", -1)
  BY <1>1, AnsweredKeeps
<1>2. CASE ReadNext("transaction")
  BY <1>2, ReadNextKeeps
<1> QED
  BY <1>1, <1>2 DEF NoTransfer

LEMMA ReceiptReadKeeps ==
  ASSUME LookupInductive, ReceiptRead
  PROVE  LookupInductive'
<1>1. /\ reading = "receipt" /\ tx = "block" /\ UNCHANGED <<chainState, question>>
      /\ missed' = missed /\ receipt' = receipt /\ tx' = tx
  BY DEF ReceiptRead, chainState
<1>2. CASE receipt.status # "success" \/ receipt.transfers = <<>>
  <2>1. NoSuccess'
    BY <1>1, <1>2 DEF NoSuccess
  <2>2. NoTransfer
    BY <1>2 DEF ReceiptRead
  <2> QED
    BY <1>1, <2>1, <2>2, NoTransferKeeps
<1>3. CASE ~(receipt.status # "success" \/ receipt.transfers = <<>>)
  <2>1. Succeeded' /\ Moved' = Moved
    BY <1>1, <1>3 DEF Succeeded, Moved
  <2>2. CASE Moved # <<>>
    <3>1. ReadNext("block")
      BY <1>3, <2>2 DEF ReceiptRead, Moved
    <3> QED
      BY <1>1, <2>1, <2>2, <3>1, ReadNextKeeps
  <2>3. CASE Moved = <<>>
    <3>1. Answered("null", -1) \/ Answered("wrong_token", -1)
      BY <1>3, <2>3 DEF ReceiptRead, Moved
    <3>2. receipt'.transfers # <<>>
      BY <1>1, <1>3
    <3> QED
      BY <1>1, <2>1, <2>3, <3>1, <3>2, AnsweredKeeps
  <2> QED
    BY <2>2, <2>3
<1> QED
  BY <1>2, <1>3

LEMMA ReceiptNotFoundKeeps ==
  ASSUME LookupInductive, ReceiptNotFound
  PROVE  LookupInductive'
<1>1. /\ reading = "receipt" /\ missed = FALSE /\ missed' = (failed = LOOKUP_RETRIES)
      /\ UNCHANGED <<chainState, question>> /\ failed \in 0..LOOKUP_RETRIES
      /\ Retry(NoTransfer)
  BY DEF ReceiptNotFound, LookupInductive, Established
<1>2. CASE failed < LOOKUP_RETRIES
  <2>1. failed' = failed + 1 /\ UNCHANGED <<reading, answer>>
    BY <1>1, <1>2, Zenon DEF Retry
  <2>2. missed' = FALSE
    <3>1. (failed = LOOKUP_RETRIES) = FALSE
      BY <1>1, <1>2 DEF LOOKUP_RETRIES
    <3> QED
      BY <1>1, <3>1, Zenon
  <2> QED
    BY <1>1, <1>2, <2>1, <2>2, RetryKeeps
<1>3. CASE ~(failed < LOOKUP_RETRIES)
  <2>1. NoTransfer
    BY <1>1, <1>3, Zenon DEF Retry
  <2>2. missed'
    <3>1. failed = LOOKUP_RETRIES
      BY <1>1, <1>3 DEF LOOKUP_RETRIES
    <3> QED
      BY <1>1, <3>1, Zenon
  <2> QED
    BY <1>1, <2>1, <2>2, NoTransferKeeps
<1> QED
  BY <1>2, <1>3

\* The transfer is compared with what was asked about.
LEMMA BlockReadKeeps ==
  ASSUME LookupInductive, BlockRead
  PROVE  LookupInductive'
<1> DEFINE transfer == Moved[1]
<1>1. /\ reading = "block" /\ UNCHANGED <<chainState, question, missed>>
      /\ Succeeded /\ Moved # <<>> /\ Compared
  BY DEF BlockRead, LookupInductive, Established
<1>2. Succeeded' /\ Moved' # <<>> /\ Moved' = Moved /\ (AsExpected' <=> AsExpected)
  BY <1>1 DEF chainState, Succeeded, Moved, AsExpected
<1>3. CASE question.asks = "get"
  <2>1. Answered("transfer", -1)
    BY <1>1, <1>3 DEF Compared
  <2> QED
    BY <1>1, <1>2, <2>1, AnsweredKeeps
<1>4. CASE question.asks # "get" /\ AsExpected
  <2>1. ReadNext("head")
    BY <1>1, <1>4 DEF Compared, AsExpected, Moved
  <2> QED
    BY <1>1, <1>2, <1>4, <2>1, ReadNextKeeps
<1>5. CASE question.asks # "get" /\ ~AsExpected
  <2>1. Answered("wrong_recipient", -1) \/ Answered("wrong_amount", -1)
    BY <1>1, <1>5 DEF Compared, AsExpected, Moved
  <2>2. ~AsExpected'
    BY <1>2, <1>5
  <2> QED
    BY <1>1, <1>2, <2>1, <2>2, AnsweredKeeps
<1> QED
  BY <1>3, <1>4, <1>5

LEMMA TransactionKeeps ==
  ASSUME LookupInductive, TransactionRead \/ TransactionNotFound
  PROVE  LookupInductive'
<1>1. /\ reading = "transaction" /\ UNCHANGED <<chainState, question, missed>>
      /\ missed \/ NoSuccess
      /\ failed \in 0..LOOKUP_RETRIES
      /\ tx \in {"nowhere", "mempool", "block"}
  BY DEF TransactionRead, TransactionNotFound, LookupInductive, Established, ChainTyped
<1>2. CASE TransactionRead
  <2>1. PICK view \in Views \ {"nowhere"} :
          Answered(IF view = "mempool" THEN "pending" ELSE "reverted", -1)
    BY <1>2 DEF TransactionRead
  <2>2. CASE view = "mempool"
    <3>1. Answered("pending", -1) /\ tx # "nowhere"
      BY <2>1, <2>2 DEF Views
    <3> QED
      BY <1>1, <3>1, AnsweredKeeps
  <2>3. CASE view # "mempool"
    <3>1. Answered("reverted", -1) /\ tx = "block"
      BY <1>1, <2>1, <2>3 DEF Views
    <3>2. (missed \/ NoSuccess)'
      BY <1>1 DEF NoSuccess, chainState
    <3> QED
      BY <1>1, <3>1, <3>2, AnsweredKeeps
  <2> QED
    BY <2>2, <2>3
<1>3. CASE TransactionNotFound
  <2>1. Retry(Answered("not_found", -1))
    BY <1>3 DEF TransactionNotFound
  <2>2. CASE failed < LOOKUP_RETRIES
    <3>1. failed' = failed + 1 /\ UNCHANGED <<reading, answer>>
      BY <2>1, <2>2, Zenon DEF Retry
    <3> QED
      BY <1>1, <2>2, <3>1, RetryKeeps
  <2>3. CASE ~(failed < LOOKUP_RETRIES)
    <3>1. Answered("not_found", -1)
      BY <2>1, <2>3, Zenon DEF Retry
    <3> QED
      BY <1>1, <3>1, AnsweredKeeps
  <2> QED
    BY <2>2, <2>3
<1> QED
  BY <1>2, <1>3

\* An old head makes the count of confirmations smaller, never larger.
LEMMA HeadReadKeeps ==
  ASSUME LookupInductive, HeadRead
  PROVE  LookupInductive'
<1>1. /\ reading = "head" /\ UNCHANGED <<chainState, question, missed>>
      /\ Succeeded /\ Moved # <<>> /\ AsExpected
      /\ head \in Nat /\ block \in Nat /\ block <= head
  BY DEF HeadRead, LookupInductive, Established, ChainTyped, Succeeded
<1>2. (Succeeded /\ Moved # <<>> /\ AsExpected)'
  BY <1>1 DEF chainState, Succeeded, Moved, AsExpected
<1>3. PICK h \in 0..head : Answered("confirmed", IF h >= block THEN h - block + 1 ELSE 0)
  BY DEF HeadRead
<1>4. (IF h >= block THEN h - block + 1 ELSE 0) \in 0..head - block + 1
  BY <1>1
<1> QED
  BY <1>1, <1>2, <1>3, <1>4, AnsweredKeeps

LEMMA CallFailsKeeps ==
  ASSUME LookupInductive, CallFailsOnce
  PROVE  LookupInductive'
<1>1. /\ UNCHANGED <<chainState, question, missed>> /\ Retry(Answered("throws", -1))
      /\ reading \in {"idle", "receipt"} => missed = FALSE
  BY DEF CallFailsOnce, LookupInductive, Established
<1>2. CASE failed < LOOKUP_RETRIES
  <2>1. failed' = failed + 1 /\ UNCHANGED <<reading, answer>>
    BY <1>1, <1>2, Zenon DEF Retry
  <2> QED
    BY <1>1, <1>2, <2>1, RetryKeeps
<1>3. CASE ~(failed < LOOKUP_RETRIES)
  <2>1. Answered("throws", -1)
    BY <1>1, <1>3, Zenon DEF Retry
  <2> QED
    BY <1>1, <2>1, AnsweredKeeps
<1> QED
  BY <1>2, <1>3

LEMMA LookupStep == LookupInductive /\ [LookupNext]_lookupVars => LookupInductive'
<1> SUFFICES ASSUME LookupInductive, [LookupNext]_lookupVars
             PROVE  LookupInductive'
  OBVIOUS
<1>1. CASE UNCHANGED lookupVars
  BY <1>1 DEF lookupVars, chainState, LookupInductive, ChainTyped, Established, AnswerTrue,
     Succeeded, NoSuccess, Moved, AsExpected
<1>2. CASE LookupNext
  BY <1>2, AskKeeps, ReceiptReadKeeps, ReceiptNotFoundKeeps, BlockReadKeeps, TransactionKeeps,
     HeadReadKeeps, CallFailsKeeps, ChainMovesKeeps
     DEF LookupNext, LookupProcess, NodeAnswers
<1> QED
  BY <1>1, <1>2

----------------------------------------------------------------------------
(***************************************************************************)
(* validate.  What the exit code says is established along the way: the    *)
(* requirements once a challenge was read, the wallet's state once the     *)
(* reads were joined, the interactions once every call is over.            *)
(***************************************************************************)
ReadFits(r, read) ==
  /\ read = [failed |-> read.failed, settled |-> read.settled, value |-> read.value]
  /\ read.settled \in {"no", "answered", "rejected"}
  /\ read.settled = "answered" =>
       read.value \in NodeSays(r) \union (IF r = "detectWalletKind" THEN {"unknown"} ELSE {})
  /\ read.failed \in 0..RETRIES
  /\ read.settled = "rejected" => r # "detectWalletKind" /\ read.failed = RETRIES

ReadsTyped ==
  /\ reads = [r \in Reads |-> reads[r]]
  /\ \A r \in Reads : ReadFits(r, reads[r])

CallsTyped ==
  /\ calls = [i \in DOMAIN calls |-> calls[i]]
  /\ \A i \in DOMAIN calls :
       /\ calls[i] = [at |-> calls[i].at, said |-> calls[i].said, report |-> calls[i].report]
       /\ calls[i].at \in {"headers", "body", "over"}
       /\ calls[i].at = "over" <=> calls[i].report # "none"

ValidateStages ==
  /\ stage \in {"arguments", "fetch", "chain", "diagnose", "facilitators", "exited"}
  /\ validated \in {-1, 0, 1, 2, 3}
  /\ stage # "exited" => validated = -1
  /\ stage \in {"fetch", "chain", "diagnose", "facilitators"} => args \in CommandLines
  /\ stage \in {"chain", "diagnose", "facilitators"} => required \in Terms402 \ {NoTerms}
  /\ stage \in {"arguments", "fetch", "chain", "diagnose"} => calls = <<>>
  /\ stage = "facilitators" => calls # <<>>
  /\ stage = "diagnose" => Refused \/ \A r \in Reads : reads[r].settled = "answered"

ValidateInductive == ReadsTyped /\ CallsTyped /\ ValidateStages /\ ValidateExitEarned

LEMMA InitValidate == ValidateInit => ValidateInductive
<1> SUFFICES ASSUME ValidateInit
             PROVE  ValidateInductive
  OBVIOUS
<1>1. ReadsTyped
  BY DEF ValidateInit, ReadsTyped, ReadFits, Unsettled, RETRIES
<1>2. calls = <<>> /\ DOMAIN calls = {}
  BY DEF ValidateInit
<1>3. CallsTyped
  BY <1>2 DEF CallsTyped
<1>4. ValidateStages /\ ValidateExitEarned
  BY <1>2 DEF ValidateInit, ValidateStages, ValidateExitEarned
<1> QED
  BY <1>1, <1>3, <1>4 DEF ValidateInductive

\* The requirements that are read are terms, or there is no challenge.
LEMMA ParsedTyped ==
  ASSUME NEW body \in Bodies402
  PROVE  parseChallengeBody(body) \in Terms402 \union {NoTerms}
<1>1. SUFFICES ASSUME body # NoBody, body.accepts # NoList, body.accepts # <<>>,
                      body.accepts[1] # NoEntry
               PROVE  Normalised(body.version, body.accepts[1]).terms \in Terms402
  BY DEF parseChallengeBody
<1>2. body.accepts \in Seq({NoEntry} \union Entries402)
  BY <1>1, ValidateAssumption
<1>3. body.accepts[1] \in Entries402
  BY <1>1, <1>2
<1> DEFINE entry == body.accepts[1]
<1>4. entry.terms \in Terms402 /\ entry.terms.amount \in Amounts
  BY <1>3 DEF Entries402, Terms402
<1>5. [entry.terms EXCEPT !.maxAmountRequired = entry.terms.amount] \in Terms402
  BY <1>4 DEF Terms402
<1> QED
  BY <1>4, <1>5 DEF Normalised

----------------------------------------------------------------------------
\* What a diagnosis that does not predict a failure says of the terms and of
\* the wallet.
LEMMA SynthesisedIsPayment ==
  ASSUME args \in CommandLines, required \in Terms402
  PROVE  synthesised \in Payments /\ synthesised # Absent
<1>1. args.wallet \in STRING
  BY ValidateAssumption
<1>2. synthesised \in Payments
  BY <1>1 DEF synthesised, Payments, Terms402
<1> QED
  BY <1>2, ValidateAssumption

LEMMA TermsHold ==
  ASSUME args \in CommandLines, required \in Terms402,
         diagnose(diagCtx(Absent)) # "would-fail"
  PROVE  /\ required.payTo # args.wallet
         /\ required.maxAmountRequired # NotANumber
         /\ required.maxTimeoutSeconds = Absent \/ required.maxTimeoutSeconds > 0
         /\ required.network = "base-sepolia" => required.asset = "BASE_SEPOLIA_USDC"
<1> DEFINE ctx == diagCtx(Absent)
<1>1. \A r \in DOMAIN ALL_RULES(ctx) : ALL_RULES(ctx)[r] # "fail"
  BY DEF diagnose
<1>2. /\ selfPaymentRule(ctx) # "fail" /\ valueSufficientRule(ctx) # "fail"
      /\ validBeforeRule(ctx) # "fail" /\ assetAddressRule(ctx) # "fail"
  BY <1>1 DEF ALL_RULES
<1>3. synthesised # Absent
  BY SynthesisedIsPayment
<1>4. ctx.payment = synthesised /\ ctx.requirements = required /\ ctx.now = 0
  BY DEF diagCtx
<1>5. required.payTo # args.wallet
  BY <1>2, <1>3, <1>4 DEF selfPaymentRule, PassIf, synthesised
<1>6. required.maxAmountRequired # NotANumber
  BY <1>2, <1>3, <1>4 DEF valueSufficientRule, PassIf, synthesised
<1>7. required.maxTimeoutSeconds # Absent => required.maxTimeoutSeconds > 0
  <2>1. required.maxTimeoutSeconds # Absent => required.maxTimeoutSeconds \in Int
    BY DEF Terms402
  <2>2. required.maxTimeoutSeconds # Absent =>
          synthesised.validBefore = required.maxTimeoutSeconds
    BY DEF synthesised
  <2>3. 0 < synthesised.validBefore
    BY <1>2, <1>3, <1>4 DEF validBeforeRule, PassIf
  <2> QED
    BY <2>1, <2>2, <2>3
<1>8. required.network = "base-sepolia" => required.asset = "BASE_SEPOLIA_USDC"
  BY <1>2, <1>4 DEF assetAddressRule, PassIf
<1> QED
  BY <1>5, <1>6, <1>7, <1>8

LEMMA WalletHolds ==
  ASSUME args \in CommandLines, required \in Terms402, ReadsTyped,
         \A r \in Reads : reads[r].settled = "answered",
         diagnose(diagCtx(Absent)) # "would-fail"
  PROVE  /\ reads["getUsdcBalance"].value >= required.maxAmountRequired
         /\ reads["isNonceConsumed"].value = FALSE
         /\ reads["detectWalletKind"].value # "unknown"
<1> DEFINE ctx == diagCtx(Absent)
           balance == reads["getUsdcBalance"].value
           nonce == reads["isNonceConsumed"].value
           kind == reads["detectWalletKind"].value
<1>1. \A r \in DOMAIN ALL_RULES(ctx) : ALL_RULES(ctx)[r] # "fail"
  BY DEF diagnose
<1>2. payerBalanceRule(ctx) # "fail" /\ nonceFreshRule(ctx) # "fail" /\ walletKindRule(ctx) # "fail"
  BY <1>1 DEF ALL_RULES
<1>3. synthesised # Absent /\ required.maxAmountRequired # NotANumber
  BY SynthesisedIsPayment, TermsHold
<1>4. balance \in Nat /\ nonce \in BOOLEAN /\ kind \in {"eoa", "smart-wallet", "unknown"}
  BY ValidateAssumption DEF ReadsTyped, ReadFits, NodeSays, Reads
<1>5. /\ Absent \notin Int /\ Absent \notin BOOLEAN
      /\ Absent \notin {"eoa", "smart-wallet", "unknown"}
  BY ValidateAssumption
<1>6. balance # Absent /\ nonce # Absent /\ kind # Absent
  <2>1. balance # Absent
    BY <1>4, <1>5
  <2>2. nonce # Absent
    BY <1>4, <1>5, Zenon
  <2>3. kind # Absent
    BY <1>4, <1>5, Zenon
  <2> QED
    BY <2>1, <2>2, <2>3
<1>7. walletState = [usdcBalance |-> balance, nonceConsumed |-> nonce, walletKind |-> kind]
  BY DEF walletState, Rejected
<1>8. /\ ctx.payment = synthesised
      /\ ctx.wallet.usdcBalance = balance /\ ctx.wallet.nonceConsumed = nonce
      /\ ctx.wallet.walletKind = kind
  BY <1>7 DEF diagCtx
<1>9. synthesised.value = required.maxAmountRequired
  BY DEF synthesised
<1> HIDE DEF ctx, balance, nonce, kind
<1>10. balance >= required.maxAmountRequired
  BY <1>2, <1>3, <1>6, <1>8, <1>9 DEF payerBalanceRule, PassIf
<1>11. nonce = FALSE
  BY <1>2, <1>3, <1>6, <1>8 DEF nonceFreshRule, PassIf
<1>12. kind # "unknown"
  BY <1>2, <1>6, <1>8 DEF walletKindRule, PassIf
<1> QED
  BY <1>10, <1>11, <1>12 DEF balance, nonce, kind

\* A refused read leaves the critical rules unanswered.
LEMMA RefusedIsUncertain ==
  ASSUME Refused
  PROVE  diagnose(diagCtx(Absent)) \in {"would-fail", "uncertain"}
<1> DEFINE ctx == diagCtx(Absent)
<1>1. ctx.wallet.nonceConsumed = Absent
  BY DEF diagCtx, walletState, Refused
<1>2. nonceFreshRule(ctx) = "skip"
  BY <1>1 DEF nonceFreshRule
<1>3. ALL_RULES(ctx)["nonce_fresh"] = "skip"
  BY <1>2 DEF ALL_RULES
<1> QED
  BY <1>3 DEF diagnose, CRITICAL_RULES

LEMMA DiagnoseSaysSomething ==
  ASSUME NEW ctx
  PROVE  diagnose(ctx) \in {"would-fail", "uncertain", "would-succeed"}
BY DEF diagnose

----------------------------------------------------------------------------
\* Steps of the command.  Before the exit code is given nothing is claimed.
LEMMA NothingClaimed ==
  ASSUME validated = -1
  PROVE  ValidateExitEarned
BY DEF ValidateExitEarned

LEMMA GiveArgumentsStep ==
  ASSUME ValidateInductive, GiveArguments
  PROVE  ValidateInductive'
<1>1. calls = <<>> /\ calls' = <<>> /\ validated = -1 /\ UNCHANGED <<required, reads>>
  BY DEF ValidateInductive, ValidateStages, GiveArguments
<1>2. ReadsTyped' /\ CallsTyped'
  BY <1>1 DEF ValidateInductive, ReadsTyped, CallsTyped
<1>3. ValidateStages'
  BY <1>1 DEF GiveArguments, Exit, ValidateStages
<1>4. ValidateExitEarned'
  BY <1>1 DEF GiveArguments, Exit, ValidateExitEarned
<1> QED
  BY <1>2, <1>3, <1>4 DEF ValidateInductive

LEMMA NoChallengeStep ==
  ASSUME ValidateInductive, NoChallenge
  PROVE  ValidateInductive'
<1>1. calls = <<>> /\ calls' = <<>> /\ UNCHANGED <<required, reads>>
      /\ stage' = "exited" /\ validated' = 2
  BY DEF ValidateInductive, ValidateStages, NoChallenge, Exit
<1>2. ReadsTyped' /\ CallsTyped'
  BY <1>1 DEF ValidateInductive, ReadsTyped, CallsTyped
<1>3. ValidateStages' /\ ValidateExitEarned'
  BY <1>1 DEF ValidateStages, ValidateExitEarned
<1> QED
  BY <1>2, <1>3 DEF ValidateInductive

LEMMA ChallengeArrivesStep ==
  ASSUME ValidateInductive, ChallengeArrives
  PROVE  ValidateInductive'
<1>1. /\ calls = <<>> /\ calls' = <<>> /\ validated = -1 /\ UNCHANGED <<args, reads>>
      /\ args \in CommandLines
  BY DEF ValidateInductive, ValidateStages, ChallengeArrives
<1>2. ReadsTyped' /\ CallsTyped'
  BY <1>1 DEF ValidateInductive, ReadsTyped, CallsTyped
<1>3. required' \in Terms402 \union {NoTerms}
  BY ParsedTyped DEF ChallengeArrives
<1>4. \/ stage' = "exited" /\ validated' \in {1, 2}
      \/ stage' = "chain" /\ validated' = -1 /\ required' # NoTerms
  BY <1>1 DEF ChallengeArrives, Exit
<1>5. ValidateStages'
  BY <1>1, <1>3, <1>4 DEF ValidateStages
<1>6. ValidateExitEarned'
  BY <1>1, <1>4 DEF ValidateExitEarned
<1> QED
  BY <1>2, <1>5, <1>6 DEF ValidateInductive

\* One read has come further, and the reads are joined.
LEMMA JoinStep ==
  ASSUME ValidateInductive, stage = "chain", UNCHANGED <<args, required, calls, validated>>,
         NEW r \in Reads, NEW read, ReadFits(r, read), Join([reads EXCEPT ![r] = read])
  PROVE  ValidateInductive'
<1> DEFINE now == [reads EXCEPT ![r] = read]
<1>1. ReadsTyped /\ CallsTyped /\ ValidateStages
  BY DEF ValidateInductive
<1>2. now = [q \in Reads |-> now[q]] /\ \A q \in Reads : ReadFits(q, now[q])
  BY <1>1 DEF ReadsTyped
<1>3. Join(now)
  OBVIOUS
<1> HIDE DEF now
<1>4. ReadsTyped'
  <2>1. CASE \E q \in Reads : Rejected(now[q])
    <3>1. reads' = [q \in Reads |-> IF Rejected(now[q]) THEN now[q] ELSE Unsettled]
      BY <1>3, <2>1 DEF Join
    <3>2. \A q \in Reads : ReadFits(q, Unsettled)
      BY DEF ReadFits, Unsettled, RETRIES
    <3> QED
      BY <1>2, <3>1, <3>2 DEF ReadsTyped
  <2>2. CASE ~ \E q \in Reads : Rejected(now[q])
    <3>1. reads' = now
      BY <1>3, <2>2 DEF Join
    <3> QED
      BY <1>2, <3>1 DEF ReadsTyped
  <2> QED
    BY <2>1, <2>2
<1>5. \/ stage' = "diagnose" /\ Refused'
      \/ stage' = "diagnose" /\ \A q \in Reads : reads'[q].settled = "answered"
      \/ stage' = "chain"
  <2>1. CASE \E q \in Reads : Rejected(now[q])
    <3>1. /\ stage' = "diagnose"
          /\ reads' = [q \in Reads |-> IF Rejected(now[q]) THEN now[q] ELSE Unsettled]
      BY <1>3, <2>1 DEF Join
    <3>2. PICK q \in Reads : Rejected(now[q])
      BY <2>1
    <3>3. Rejected(reads'[q])
      BY <3>1, <3>2
    <3> QED
      BY <3>1, <3>3 DEF Refused, Rejected
  <2>2. CASE ~ \E q \in Reads : Rejected(now[q])
    BY <1>3, <2>2 DEF Join
  <2> QED
    BY <2>1, <2>2
<1>6. CallsTyped'
  BY <1>1 DEF CallsTyped
<1>7. validated' = -1
  BY <1>1 DEF ValidateStages
<1>8. ValidateStages'
  BY <1>1, <1>5, <1>7 DEF ValidateStages
<1>9. ValidateExitEarned'
  BY <1>7 DEF ValidateExitEarned
<1> QED
  BY <1>4, <1>6, <1>8, <1>9 DEF ValidateInductive

LEMMA ReadAnsweredStep ==
  ASSUME ValidateInductive, NEW r \in Reads, ReadAnswered(r)
  PROVE  ValidateInductive'
<1>1. PICK v \in NodeSays(r) : Join([reads EXCEPT ![r] = Answer(v)])
  BY DEF ReadAnswered
<1>2. ReadFits(r, Answer(v))
  BY DEF ReadFits, Answer, RETRIES
<1> QED
  BY <1>1, <1>2, JoinStep DEF ReadAnswered

LEMMA ReadFailsOnceStep ==
  ASSUME ValidateInductive, NEW r \in Reads, ReadFailsOnce(r)
  PROVE  ValidateInductive'
<1> DEFINE read == reads[r]
           next == OneMoreFailure(r, read)
<1>1. ReadFits(r, read) /\ read.settled = "no"
  BY DEF ValidateInductive, ReadsTyped, ReadFailsOnce
<1>2. Join([reads EXCEPT ![r] = next])
  BY DEF ReadFailsOnce
<1> HIDE DEF read
<1>3. ReadFits(r, next)
  <2>1. CASE read.failed < RETRIES
    <3>1. next = [failed |-> read.failed + 1, settled |-> "no", value |-> read.value]
      BY <1>1, <2>1 DEF ReadFits, OneMoreFailure
    <3>2. read.failed + 1 \in 0..RETRIES
      BY <1>1, <2>1 DEF ReadFits, RETRIES
    <3> QED
      BY <3>1, <3>2 DEF ReadFits
  <2>2. CASE ~(read.failed < RETRIES) /\ r = "detectWalletKind"
    <3>1. next = Answer("unknown")
      BY <2>2 DEF OneMoreFailure
    <3> QED
      BY <2>2, <3>1 DEF ReadFits, Answer, RETRIES
  <2>3. CASE ~(read.failed < RETRIES) /\ r # "detectWalletKind"
    <3>1. next = [failed |-> read.failed, settled |-> "rejected", value |-> read.value]
      BY <1>1, <2>3 DEF ReadFits, OneMoreFailure
    <3>2. read.failed = RETRIES
      BY <1>1, <2>3 DEF ReadFits, RETRIES
    <3> QED
      BY <2>3, <3>1, <3>2 DEF ReadFits, RETRIES
  <2> QED
    BY <2>1, <2>2, <2>3
<1> HIDE DEF next
<1> QED
  BY <1>2, <1>3, JoinStep DEF ReadFailsOnce

----------------------------------------------------------------------------
\* The single report: exit code 0 only for what the diagnosis has established.
LEMMA ReportDiagnosisStep ==
  ASSUME ValidateInductive, ReportDiagnosis
  PROVE  ValidateInductive'
<1>1. /\ stage = "diagnose" /\ stage' = "exited" /\ calls = <<>> /\ calls' = <<>>
      /\ UNCHANGED <<args, required, reads>>
      /\ args \in CommandLines /\ required \in Terms402 /\ required # NoTerms
      /\ ReadsTyped /\ CallsTyped
      /\ Refused \/ \A r \in Reads : reads[r].settled = "answered"
  BY DEF ValidateInductive, ValidateStages, ReportDiagnosis, Exit
<1> DEFINE overall == diagnose(diagCtx(Absent))
<1>2. validated' = IF overall = "would-fail" \/ (overall = "uncertain" /\ args.strict) THEN 2 ELSE 0
  BY DEF ReportDiagnosis, Exit
<1>3. ReadsTyped' /\ CallsTyped'
  BY <1>1 DEF ReadsTyped, CallsTyped
<1>4. validated' \in {0, 2}
  BY <1>2
<1>5. ValidateStages'
  BY <1>1, <1>4 DEF ValidateStages
<1>6. ASSUME validated' = 0
      PROVE  /\ required.payTo # args.wallet
             /\ required.maxAmountRequired # NotANumber
             /\ required.maxTimeoutSeconds = Absent \/ required.maxTimeoutSeconds > 0
             /\ required.network = "base-sepolia" => required.asset = "BASE_SEPOLIA_USDC"
             /\ IF Refused THEN ~args.strict
                ELSE /\ reads["getUsdcBalance"].value >= required.maxAmountRequired
                     /\ reads["isNonceConsumed"].value = FALSE
                     /\ reads["detectWalletKind"].value # "unknown"
  <2>1. overall # "would-fail" /\ ~(overall = "uncertain" /\ args.strict)
    BY <1>2, <1>6
  <2>2. Refused => ~args.strict
    BY <2>1, RefusedIsUncertain
  <2> QED
    BY <1>1, <2>1, <2>2, TermsHold, WalletHolds
<1>7. ValidateExitEarned'
  <2>1. Refused' <=> Refused
    BY <1>1 DEF Refused
  <2>2. ASSUME validated' = 0
        PROVE  IF Refused' THEN ~args'.strict
               ELSE /\ reads'["getUsdcBalance"].value >= required'.maxAmountRequired
                    /\ reads'["isNonceConsumed"].value = FALSE
                    /\ reads'["detectWalletKind"].value # "unknown"
    BY <1>1, <1>6, <2>1, <2>2
  <2>3. ASSUME validated' = 0
        PROVE  /\ required' # NoTerms
               /\ required'.payTo # args'.wallet
               /\ required'.maxAmountRequired # NotANumber
               /\ required'.maxTimeoutSeconds = Absent \/ required'.maxTimeoutSeconds > 0
               /\ required'.network = "base-sepolia" => required'.asset = "BASE_SEPOLIA_USDC"
    BY <1>1, <1>6, <2>3
  <2> QED
    <3>1. calls' = <<>> /\ validated' \in {0, 2}
      BY <1>1, <1>4
    <3>2. CASE validated' = 2
      BY <3>1, <3>2 DEF ValidateExitEarned
    <3>3. CASE validated' = 0
      <4>1. validated' # 1 /\ validated' # 2 /\ validated' # 3
        BY <3>3
      <4> QED
        BY <2>2, <2>3, <3>1, <3>3, <4>1, Zenon DEF ValidateExitEarned
    <3> QED
      BY <3>1, <3>2, <3>3
<1> QED
  BY <1>3, <1>5, <1>7 DEF ValidateInductive

\* The facilitators: a list that is not one ends the command before any is asked.
LEMMA AskFacilitatorsStep ==
  ASSUME ValidateInductive, AskFacilitators
  PROVE  ValidateInductive'
<1>1. /\ stage = "diagnose" /\ calls = <<>> /\ validated = -1
      /\ UNCHANGED <<args, required, reads>>
      /\ args \in CommandLines /\ required \in Terms402 /\ required # NoTerms
      /\ ReadsTyped /\ CallsTyped
  BY DEF ValidateInductive, ValidateStages, AskFacilitators
<1>2. ReadsTyped'
  BY <1>1 DEF ReadsTyped
<1>3. CASE parseFacilitatorList(args.diff)
  <2>1. /\ calls' = [i \in DOMAIN args.diff |-> Waiting]
        /\ stage' = "facilitators" /\ validated' = -1
    BY <1>1, <1>3 DEF AskFacilitators
  <2>2. calls' # <<>>
    <3>1. args.diff \in Seq(STRING) /\ Len(args.diff) >= 2
      BY <1>1, <1>3, ValidateAssumption DEF parseFacilitatorList
    <3>2. 1 \in DOMAIN args.diff
      BY <3>1
    <3>3. 1 \in DOMAIN calls'
      BY <2>1, <3>2
    <3> QED
      BY <3>3
  <2>3. CallsTyped'
    BY <2>1 DEF CallsTyped, Waiting
  <2>4. ValidateStages' /\ ValidateExitEarned'
    BY <1>1, <2>1, <2>2 DEF ValidateStages, ValidateExitEarned
  <2> QED
    BY <1>2, <2>3, <2>4 DEF ValidateInductive
<1>4. CASE ~parseFacilitatorList(args.diff)
  <2>1. calls' = <<>> /\ stage' = "exited" /\ validated' = 1
    BY <1>1, <1>4 DEF AskFacilitators, Exit
  <2>2. CallsTyped'
    BY <1>1, <2>1 DEF CallsTyped
  <2>3. ValidateStages' /\ ValidateExitEarned'
    BY <2>1 DEF ValidateStages, ValidateExitEarned
  <2> QED
    BY <1>2, <2>2, <2>3 DEF ValidateInductive
<1> QED
  BY <1>3, <1>4

LEMMA StatusArrivesStep ==
  ASSUME ValidateInductive, NEW i \in DOMAIN calls, StatusArrives(i)
  PROVE  ValidateInductive'
<1>1. PICK said \in Verifications : calls' = [calls EXCEPT ![i].at = "body", ![i].said = said]
  BY DEF StatusArrives
<1>2. /\ calls[i].at = "headers" /\ stage = "facilitators" /\ validated = -1
      /\ UNCHANGED <<args, stage, required, reads, validated>>
      /\ CallsTyped /\ ReadsTyped /\ ValidateStages
  BY DEF StatusArrives, ValidateInductive, ValidateStages
<1>3. /\ DOMAIN calls' = DOMAIN calls
      /\ calls'[i] = [at |-> "body", said |-> said, report |-> calls[i].report]
      /\ \A j \in DOMAIN calls : j # i => calls'[j] = calls[j]
      /\ calls' = [j \in DOMAIN calls' |-> calls'[j]]
  <2> DEFINE call == calls[i]
             answered == [call EXCEPT !.at = "body"]
             next == [at |-> "body", said |-> said, report |-> call.report]
  <2>1. call = [at |-> call.at, said |-> call.said, report |-> call.report]
    BY <1>2 DEF CallsTyped
  <2>2. calls' = [calls EXCEPT ![i] = [answered EXCEPT !.said = said]]
    BY <1>1
  <2>3. [answered EXCEPT !.said = said] = next
    <3>1. answered = [at |-> "body", said |-> call.said, report |-> call.report]
      BY <2>1
    <3> HIDE DEF answered
    <3> QED
      BY <3>1
  <2>4. calls' = [calls EXCEPT ![i] = next]
    BY <2>2, <2>3
  <2> HIDE DEF next
  <2>5. calls'[i] = next
    BY <2>4
  <2> QED
    BY <2>4, <2>5 DEF next
<1>4. CallsTyped'
  BY <1>2, <1>3 DEF CallsTyped
<1>5. calls' # <<>>
  BY <1>3
<1>6. ReadsTyped' /\ ValidateStages' /\ ValidateExitEarned'
  BY <1>2, <1>5 DEF ReadsTyped, ValidateStages, ValidateExitEarned
<1> QED
  BY <1>4, <1>6 DEF ValidateInductive

\* The last interaction gives the exit code, from all of them.
LEMMA SettleStep ==
  ASSUME ValidateInductive, stage = "facilitators", NEW i \in DOMAIN calls, NEW said,
         Settle(i, said)
  PROVE  ValidateInductive'
<1> DEFINE report == diagnose(diagCtx(said))
           verdicts == [j \in DOMAIN calls |-> calls'[j].said]
<1>1. /\ validated = -1 /\ UNCHANGED <<args, required, reads>>
      /\ CallsTyped /\ ReadsTyped /\ ValidateStages
      /\ report # "none"
  BY DiagnoseSaysSomething DEF Settle, ValidateInductive, ValidateStages
<1>2. calls' = [calls EXCEPT ![i] = [at |-> "over", said |-> said, report |-> report]]
  BY DEF Settle
<1>3. \/ stage' = "facilitators" /\ validated' = -1
      \/ stage' = "exited" /\ validated' = synthesiseDiffVerdict(verdicts).exitCode
  BY <1>1 DEF Settle, Exit
<1> HIDE DEF report
<1>4. DOMAIN calls' = DOMAIN calls /\ CallsTyped'
  BY <1>1, <1>2 DEF CallsTyped
<1>5. calls' # <<>>
  BY <1>4
<1>6. ReadsTyped'
  BY <1>1 DEF ReadsTyped
<1>7. CASE stage' = "facilitators" /\ validated' = -1
  BY <1>1, <1>4, <1>5, <1>6, <1>7 DEF ValidateInductive, ValidateStages, ValidateExitEarned
<1>8. CASE stage' = "exited" /\ validated' = synthesiseDiffVerdict(verdicts).exitCode
  <2> DEFINE code == synthesiseDiffVerdict(verdicts).exitCode
  <2>1. /\ code \in {0, 2, 3}
        /\ code = 0 => \E j \in DOMAIN verdicts : accepted(verdicts[j])
        /\ code = 2 => \E j \in DOMAIN verdicts : ~timedOut(verdicts[j])
        /\ code = 3 => \A j \in DOMAIN verdicts : timedOut(verdicts[j])
    BY DEF synthesiseDiffVerdict
  <2>2. /\ DOMAIN verdicts = DOMAIN calls'
        /\ \A j \in DOMAIN verdicts : verdicts[j] = calls'[j].said
    BY <1>4
  <2> HIDE DEF verdicts, code
  <2>3. validated' = code
    BY <1>8 DEF code
  <2>4. /\ validated' \in {0, 2, 3}
        /\ validated' = 0 => \E j \in DOMAIN calls' : accepted(calls'[j].said)
        /\ validated' = 2 => \E j \in DOMAIN calls' : ~timedOut(calls'[j].said)
        /\ validated' = 3 => \A j \in DOMAIN calls' : timedOut(calls'[j].said)
    BY <2>1, <2>2, <2>3
  <2>5. \A s : accepted(s) => s.isValid = TRUE /\ s.statusCode # 0
    BY DEF accepted
  <2>6. ValidateExitEarned'
    BY <1>5, <2>4, <2>5 DEF ValidateExitEarned
  <2>7. ValidateStages'
    BY <1>8, <2>4 DEF ValidateStages
  <2> QED
    BY <1>4, <1>6, <2>6, <2>7 DEF ValidateInductive
<1> QED
  BY <1>3, <1>7, <1>8

LEMMA CallEndsStep ==
  ASSUME ValidateInductive, NEW i \in DOMAIN calls,
         BodyRead(i) \/ CallFails(i) \/ CallTimesOut(i)
  PROVE  ValidateInductive'
<1>1. stage = "facilitators" /\ \E said : Settle(i, said)
  BY DEF BodyRead, CallFails, CallTimesOut, BodyLost
<1> QED
  BY <1>1, SettleStep

LEMMA ValidateStep == ValidateInductive /\ [ValidateNext]_validateVars => ValidateInductive'
<1> SUFFICES ASSUME ValidateInductive, [ValidateNext]_validateVars
             PROVE  ValidateInductive'
  OBVIOUS
<1>1. CASE UNCHANGED validateVars
  BY <1>1 DEF validateVars, ValidateInductive, ReadsTyped, CallsTyped, ValidateStages, Refused,
     ValidateExitEarned
<1>2. CASE ValidateProcess
  BY <1>2, GiveArgumentsStep, ReportDiagnosisStep, AskFacilitatorsStep DEF ValidateProcess
<1>3. CASE NoChallenge \/ ChallengeArrives
  BY <1>3, NoChallengeStep, ChallengeArrivesStep
<1>4. CASE ChainReads
  BY <1>4, ReadAnsweredStep, ReadFailsOnceStep DEF ChainReads
<1>5. CASE FacilitatorCalls \/ CallTimers
  BY <1>5, StatusArrivesStep, CallEndsStep DEF FacilitatorCalls, CallTimers
<1> QED
  BY <1>1, <1>2, <1>3, <1>4, <1>5 DEF ValidateNext

----------------------------------------------------------------------------
(***************************************************************************)
(* bazaar-check.  The verdict looks at the results only, long after the    *)
(* answers they were made of: what carries it is that each result, from    *)
(* the step after its check on, still says what was heard, and that        *)
(* nothing of that changes while the later checks run.                     *)
(***************************************************************************)
AfterReachability == {"report"}
AfterFitness == {"reachability"} \union AfterReachability
AfterIndexing == {"propagation", "host-pollution", "facilitator-fitness"} \union AfterFitness
AfterChallenge == {"indexing"} \union AfterIndexing
AfterWellKnown == {"challenge"} \union AfterChallenge
Heardables == CheckNames \ {"propagation", "host-pollution"}

BazaarTypes ==
  /\ opts \in Options \union {NoObject}
  /\ step \in CheckNames \union {"arguments", "report", "exited"}
  /\ step # "self-payment"
  /\ request \in {"none", "sent", "body"}
  /\ request # "none" => step \in CheckNames /\ (step = "well-known" => ~opts.endpoint)
  /\ manifest \in Manifests \union {NoObject}
  /\ tries \in 0..PROBE_RETRIES
  /\ results = [n \in CheckNames |-> results[n]]
  /\ \A n \in CheckNames : results[n].status \in CheckStatus \union {"none"}
  /\ heard = [n \in Heardables |-> heard[n]]
  /\ verdict = [kind |-> "none"] \/ verdict \in BazaarVerdict
  /\ step # "exited" => verdict = [kind |-> "none"]
  /\ exitCode \in {-1, 0, 1, 2, 3}

WellKnownSays ==
  step \in AfterWellKnown =>
    \/ opts.endpoint /\ results["well-known"] = Result("pass", "skipped")
    \/ ~opts.endpoint /\ results["well-known"] = checkWellKnown(heard["well-known"])

ChallengeSays ==
  step \in AfterChallenge =>
    /\ challenge = heard["challenge"]
    /\ results["challenge"] = checkChallenge(heard["challenge"])
    /\ results["self-payment"] =
         IF heard["challenge"].kind = "challenge"
         THEN checkSelfPayment(heard["challenge"].payTo, opts.payerHint)
         ELSE Result("pass", "skipped")

IndexingSays ==
  step \in AfterIndexing =>
    \/ results["indexing"] = checkIndexing(manifest, heard["indexing"])
    \/ /\ heard["challenge"].kind # "challenge"
       /\ results["indexing"] = Result("info", "skipped")
    \/ /\ detectFacilitator(manifest) = "non-cdp"
       /\ results["indexing"] = Result("pass", "not_applicable_non_cdp")

FitnessSays ==
  step \in AfterFitness =>
    \/ results["facilitator-fitness"].status = "info"
    \/ /\ results["facilitator-fitness"].status = "pass"
       /\ heard["facilitator-fitness"].kind \in {"none", "2xx", "4xx"}

ReachabilitySays ==
  step \in AfterReachability =>
    \/ results["reachability"] = Result("pass", "ok") /\ Probed({"responsive"})
    \/ results["reachability"] = Result("info", "unreachable_first_probe")
    \/ /\ results["reachability"] = Result("info", "unreachable")
       /\ Probed(FetchErrors)
       /\ opts.history \/ Threshold = 1

BazaarInductive ==
  /\ BazaarTypes
  /\ WellKnownSays /\ ChallengeSays /\ IndexingSays /\ FitnessSays /\ ReachabilitySays
  /\ VerdictsEarned

LEMMA NoVerdictYet ==
  ASSUME verdict = [kind |-> "none"]
  PROVE  VerdictsEarned
<1>1. verdict.kind = "none"
  OBVIOUS
<1> QED
  BY <1>1 DEF VerdictsEarned

LEMMA NoVerdictYetNext ==
  ASSUME verdict' = [kind |-> "none"]
  PROVE  VerdictsEarned'
<1>1. verdict'.kind = "none"
  OBVIOUS
<1> QED
  BY <1>1 DEF VerdictsEarned

LEMMA CheckNamesAreSteps == "exited" \notin CheckNames /\ "report" \notin CheckNames
BY DEF CheckNames, IMPLEMENTATION_CHECKS, UPSTREAM_CHECKS

LEMMA InitBazaar == BazaarInit => BazaarInductive
<1> SUFFICES ASSUME BazaarInit
             PROVE  BazaarInductive
  OBVIOUS
<1>1. BazaarTypes
  BY DEF BazaarInit, BazaarTypes, NotYet, Result, Heardables, PROBE_RETRIES
<1>2. VerdictsEarned
  BY NoVerdictYet DEF BazaarInit
<1> QED
  BY <1>1, <1>2 DEF BazaarInit, BazaarInductive, WellKnownSays, ChallengeSays, IndexingSays,
     FitnessSays, ReachabilitySays, AfterWellKnown, AfterChallenge, AfterIndexing, AfterFitness,
     AfterReachability

LEMMA NextStepIs ==
  /\ NextStep("well-known") = "challenge"
  /\ NextStep("challenge") = "indexing"
  /\ NextStep("indexing") = "propagation"
  /\ NextStep("propagation") = "host-pollution"
  /\ NextStep("host-pollution") = "facilitator-fitness"
  /\ NextStep("facilitator-fitness") = "reachability"
  /\ NextStep("reachability") = "report"
<1>1. /\ CheckSteps[1] = "well-known" /\ CheckSteps[2] = "challenge" /\ CheckSteps[3] = "indexing"
      /\ CheckSteps[4] = "propagation" /\ CheckSteps[5] = "host-pollution"
      /\ CheckSteps[6] = "facilitator-fitness" /\ CheckSteps[7] = "reachability"
      /\ CheckSteps[8] = "report"
  BY DEF CheckSteps
<1>2. \A i \in 1..7 : i \in {1, 2, 3, 4, 5, 6, 7}
  OBVIOUS
<1>3. ASSUME NEW i \in 1..7
      PROVE  NextStep(CheckSteps[i]) = CheckSteps[1 + i]
  <2> DEFINE j == CHOOSE k \in 1..7 : CheckSteps[k] = CheckSteps[i]
  <2>1. j \in 1..7 /\ CheckSteps[j] = CheckSteps[i]
    OBVIOUS
  <2> HIDE DEF j
  <2>2. j = i
    BY <1>1, <1>2, <2>1
  <2> QED
    BY <2>2 DEF NextStep, j
<1> QED
  BY <1>1, <1>3

\* Which steps come after which.
LEMMA StepOrder ==
  ASSUME NEW s \in CheckNames, s # "self-payment"
  PROVE  /\ NextStep(s) \in AfterWellKnown
         /\ NextStep(s) \in AfterChallenge => s = "challenge" \/ s \in AfterChallenge
         /\ NextStep(s) \in AfterIndexing => s = "indexing" \/ s \in AfterIndexing
         /\ NextStep(s) \in AfterFitness => s = "facilitator-fitness" \/ s \in AfterFitness
         /\ NextStep(s) \in AfterReachability => s = "reachability"
         /\ s # "well-known" => s \in AfterWellKnown
         /\ NextStep(s) \notin {"self-payment", "exited"}
         /\ NextStep(s) \in CheckNames \union {"report"}
BY NextStepIs DEF CheckNames, IMPLEMENTATION_CHECKS, UPSTREAM_CHECKS, AfterWellKnown,
   AfterChallenge, AfterIndexing, AfterFitness, AfterReachability

\* A check is over: its result says what was heard, what the earlier ones found
\* is as it was.
LEMMA RecordStep ==
  ASSUME BazaarInductive, step \in CheckNames, step # "challenge",
         NEW result, result.status \in CheckStatus, NEW said,
         Record([results EXCEPT ![step] = result], said),
         manifest' \in Manifests \union {NoObject}, request' = "none",
         step # "well-known" => manifest' = manifest, challenge' = challenge,
         step = "well-known" => WellKnownSays', step = "indexing" => IndexingSays',
         step = "facilitator-fitness" => FitnessSays', step = "reachability" => ReachabilitySays'
  PROVE  BazaarInductive'
<1>1. /\ results' = [results EXCEPT ![step] = result]
      /\ step' = NextStep(step) /\ tries' = 0 /\ UNCHANGED <<opts, verdict, exitCode>>
      /\ heard' = IF step \in DOMAIN heard THEN [heard EXCEPT ![step] = said] ELSE heard
      /\ step # "self-payment" /\ BazaarTypes
  BY DEF Record, Hear, BazaarInductive, BazaarTypes
<1>2. /\ results' = [n \in CheckNames |-> results'[n]]
      /\ results'[step] = result
      /\ \A n \in CheckNames : n # step => results'[n] = results[n]
  BY <1>1 DEF BazaarTypes
<1>3. /\ heard' = [n \in Heardables |-> heard'[n]]
      /\ \A n \in Heardables : n # step => heard'[n] = heard[n]
  BY <1>1 DEF BazaarTypes
<1>4. BazaarTypes'
  <2>1. \A n \in CheckNames : results'[n].status \in CheckStatus \union {"none"}
    BY <1>1, <1>2 DEF BazaarTypes
  <2>2. verdict' = [kind |-> "none"]
    BY <1>1, CheckNamesAreSteps DEF BazaarTypes
  <2> QED
    BY <1>1, <1>2, <1>3, <2>1, <2>2, StepOrder DEF BazaarTypes, PROBE_RETRIES
<1>5. WellKnownSays'
  BY <1>1, <1>2, <1>3, StepOrder DEF BazaarInductive, WellKnownSays, Heardables, CheckNames,
     IMPLEMENTATION_CHECKS
<1>6. ChallengeSays'
  <2>1. SUFFICES ASSUME step \in AfterChallenge
                 PROVE  ChallengeSays'
    BY <1>1, StepOrder DEF ChallengeSays
  <2>2. step # "self-payment" /\ step # "challenge"
    BY <1>1
  <2> QED
    BY <1>1, <1>2, <1>3, <2>1, <2>2 DEF BazaarInductive, ChallengeSays, Heardables, CheckNames,
       IMPLEMENTATION_CHECKS
<1>7. IndexingSays'
  <2>1. SUFFICES ASSUME step \in AfterIndexing
                 PROVE  IndexingSays'
    BY <1>1, StepOrder DEF IndexingSays
  <2>2. step # "indexing" /\ step # "well-known"
    BY <2>1 DEF AfterIndexing, AfterFitness, AfterReachability
  <2> QED
    BY <1>1, <1>2, <1>3, <2>1, <2>2 DEF BazaarInductive, IndexingSays, Heardables, CheckNames,
       IMPLEMENTATION_CHECKS, UPSTREAM_CHECKS
<1>8. FitnessSays'
  <2>1. SUFFICES ASSUME step \in AfterFitness
                 PROVE  FitnessSays'
    BY <1>1, StepOrder DEF FitnessSays
  <2>2. step # "facilitator-fitness"
    BY <2>1 DEF AfterFitness, AfterReachability
  <2> QED
    BY <1>1, <1>2, <1>3, <2>1, <2>2 DEF BazaarInductive, FitnessSays, Heardables, CheckNames,
       UPSTREAM_CHECKS
<1>9. ReachabilitySays'
  BY <1>1, StepOrder DEF ReachabilitySays
<1>10. VerdictsEarned'
  <2>1. verdict' = [kind |-> "none"]
    BY <1>1, CheckNamesAreSteps DEF BazaarTypes
  <2> QED
    BY <2>1, NoVerdictYetNext
<1> QED
  BY <1>4, <1>5, <1>6, <1>7, <1>8, <1>9, <1>10 DEF BazaarInductive

----------------------------------------------------------------------------
\* What each check makes of an answer.  Answers(s) is all that the environment,
\* the timer and fetch can make of the request of check s.
Answers402(s) ==
  HeaderAnswers(s) \union BodyAnswers(s) \union {Garbled} \union Rejections(s) \union {TimedOut(s)}

LEMMA WellKnownConcludes ==
  ASSUME BazaarInductive, NEW said \in Answers402(step), ConcludeWellKnown(said),
         request' = "none", ~opts.endpoint
  PROVE  BazaarInductive'
<1> DEFINE result == checkWellKnown(said)
<1>1. /\ step = "well-known" /\ manifest' = ManifestOf(said) /\ challenge' = challenge
      /\ Record([results EXCEPT ![step] = result], said) /\ step \in CheckNames
  BY DEF ConcludeWellKnown, CheckNames, IMPLEMENTATION_CHECKS
<1>2. result.status \in CheckStatus
  BY DEF checkWellKnown, Result, CheckStatus
<1>3. manifest' \in Manifests \union {NoObject}
  BY <1>1 DEF ManifestOf, Answers402, HeaderAnswers, BodyAnswers, Garbled, Rejections, Broken, TimedOut
<1>4. results'["well-known"] = result /\ heard'["well-known"] = said /\ opts' = opts
  BY <1>1 DEF BazaarInductive, BazaarTypes, Record, Hear, Heardables, CheckNames,
     IMPLEMENTATION_CHECKS
<1>5. WellKnownSays'
  BY <1>4 DEF WellKnownSays
<1> HIDE DEF result
<1> QED
  BY <1>1, <1>2, <1>3, <1>5, RecordStep

\* The challenge gives two results.
LEMMA ChallengeConcludes ==
  ASSUME BazaarInductive, NEW said, ConcludeChallenge(said), request' = "none"
  PROVE  BazaarInductive'
<1> DEFINE result == checkChallenge(said)
           selfPayment == IF said.kind = "challenge" THEN checkSelfPayment(said.payTo, opts.payerHint)
                          ELSE Result("pass", "skipped")
<1>1. /\ step = "challenge" /\ step' = "indexing" /\ challenge' = said /\ manifest' = manifest
      /\ results' = [results EXCEPT !["challenge"] = result, !["self-payment"] = selfPayment]
      /\ heard' = [heard EXCEPT !["challenge"] = said]
      /\ tries' = 0 /\ UNCHANGED <<opts, verdict, exitCode>>
      /\ BazaarTypes
  BY NextStepIs DEF ConcludeChallenge, Record, Hear, BazaarInductive, BazaarTypes, Heardables,
     CheckNames, IMPLEMENTATION_CHECKS
<1>2. result.status \in CheckStatus /\ selfPayment.status \in CheckStatus
  BY DEF checkChallenge, checkSelfPayment, Result, CheckStatus
<1> HIDE DEF result, selfPayment
<1>3. "challenge" \in CheckNames /\ "self-payment" \in CheckNames /\ "challenge" \in Heardables
      /\ "well-known" \in CheckNames /\ "well-known" \in Heardables
  BY DEF CheckNames, IMPLEMENTATION_CHECKS, Heardables
<1>4. /\ results' = [n \in CheckNames |-> results'[n]]
      /\ results'["challenge"] = result /\ results'["self-payment"] = selfPayment
      /\ \A n \in CheckNames \ {"challenge", "self-payment"} : results'[n] = results[n]
      /\ heard' = [n \in Heardables |-> heard'[n]]
      /\ heard'["challenge"] = said /\ heard'["well-known"] = heard["well-known"]
  BY <1>1, <1>3 DEF BazaarTypes
<1>5. BazaarTypes'
  <2>1. \A n \in CheckNames : results'[n].status \in CheckStatus \union {"none"}
    BY <1>1, <1>2, <1>4 DEF BazaarTypes
  <2>2. step' = "indexing" /\ "indexing" \in CheckNames /\ verdict' = [kind |-> "none"]
    BY <1>1 DEF BazaarTypes, CheckNames, UPSTREAM_CHECKS
  <2> QED
    BY <1>1, <1>4, <2>1, <2>2 DEF BazaarTypes, PROBE_RETRIES
<1>6. WellKnownSays'
  BY <1>1, <1>3, <1>4 DEF BazaarInductive, WellKnownSays, AfterWellKnown
<1>7. ChallengeSays'
  BY <1>1, <1>4 DEF ChallengeSays, result, selfPayment
<1>8. IndexingSays' /\ FitnessSays' /\ ReachabilitySays'
  BY <1>1 DEF IndexingSays, FitnessSays, ReachabilitySays, AfterIndexing, AfterFitness,
     AfterReachability
<1>9. VerdictsEarned'
  BY <1>1, NoVerdictYetNext DEF BazaarTypes
<1> QED
  BY <1>5, <1>6, <1>7, <1>8, <1>9 DEF BazaarInductive

LEMMA DiscoveryConcludes ==
  ASSUME BazaarInductive, NEW said, ConcludeDiscovery(said), request' = "none"
  PROVE  BazaarInductive'
<1> DEFINE result == CASE step = "indexing" -> checkIndexing(manifest, said)
                       [] step = "propagation" -> checkPropagation(manifest, said)
                       [] OTHER -> checkHostPollution(manifest, said)
<1>1. /\ step \in {"indexing", "propagation", "host-pollution"}
      /\ manifest' = manifest /\ challenge' = challenge
      /\ Record([results EXCEPT ![step] = result], said)
      /\ step \in CheckNames
      /\ manifest \in Manifests \union {NoObject}
  BY DEF ConcludeDiscovery, CheckNames, UPSTREAM_CHECKS, BazaarInductive, BazaarTypes
<1>2. result.status \in CheckStatus
  BY <1>1 DEF checkIndexing, checkPropagation, checkHostPollution, Result, CheckStatus
<1>3. step = "indexing" => results'["indexing"] = checkIndexing(manifest, said)
  BY <1>1 DEF BazaarInductive, BazaarTypes, Record
<1>4. step = "indexing" => heard'["indexing"] = said
  BY <1>1 DEF BazaarInductive, BazaarTypes, Record, Hear, Heardables
<1>5. step = "indexing" => IndexingSays'
  BY <1>1, <1>3, <1>4 DEF IndexingSays
<1> HIDE DEF result
<1> QED
  BY <1>1, <1>2, <1>5, RecordStep

\* A step that leaves the results, the answers and what they rest on alone.
LEMMA NothingRecorded ==
  ASSUME BazaarInductive, UNCHANGED <<bazaarRun, step, heard>>,
         tries' \in 0..PROBE_RETRIES, request' \in {"none", "sent", "body"},
         request' # "none" => step \in CheckNames /\ (step = "well-known" => ~opts.endpoint)
  PROVE  BazaarInductive'
<1>1. UNCHANGED <<opts, manifest, challenge, results, verdict, exitCode, step, heard>>
  BY DEF bazaarRun
<1>2. BazaarTypes'
  BY <1>1 DEF BazaarInductive, BazaarTypes
<1>3. VerdictsEarned'
  BY <1>1 DEF BazaarInductive, VerdictsEarned, OwnFault, Probed
<1>4. WellKnownSays' /\ ChallengeSays' /\ IndexingSays' /\ FitnessSays' /\ ReachabilitySays'
  BY <1>1 DEF BazaarInductive, WellKnownSays, ChallengeSays, IndexingSays, FitnessSays,
     ReachabilitySays, Probed
<1> QED
  BY <1>2, <1>3, <1>4 DEF BazaarInductive

LEMMA FitnessConcludes ==
  ASSUME BazaarInductive, NEW said, ConcludeFitness(said), request' = "none"
  PROVE  BazaarInductive'
<1> DEFINE fitness == FitnessOutcome(tries, refused, said.kind)
           result == checkFacilitatorFitness(fitness)
<1>1. /\ step = "facilitator-fitness" /\ step \in CheckNames /\ BazaarTypes
  BY DEF ConcludeFitness, CheckNames, UPSTREAM_CHECKS, BazaarInductive
<1>2. CASE fitness = "retry"
  <2>1. UNCHANGED <<bazaarRun, step, heard>> /\ tries' = tries + 1
    BY <1>2 DEF ConcludeFitness
  <2>2. tries \in 0..PROBE_RETRIES /\ tries < PROBE_RETRIES
    BY <1>1, <1>2 DEF BazaarTypes, FitnessOutcome
  <2>3. tries' \in 0..PROBE_RETRIES
    BY <2>1, <2>2 DEF PROBE_RETRIES
  <2> QED
    BY <2>1, <2>3, NothingRecorded
<1>3. CASE fitness # "retry"
  <2>1. /\ Record([results EXCEPT ![step] = result], said)
        /\ manifest' = manifest /\ challenge' = challenge
    BY <1>3 DEF ConcludeFitness
  <2>2. \/ result.status = "info"
        \/ result.status = "pass" /\ said.kind \in {"2xx", "4xx"}
    BY <1>3 DEF checkFacilitatorFitness, Result, FitnessOutcome
  <2>3. result.status \in CheckStatus
    BY <2>2 DEF CheckStatus
  <2>4. results'[step] = result /\ heard'[step] = said
    BY <1>1, <2>1 DEF BazaarTypes, Record, Hear, Heardables
  <2>5. FitnessSays'
    BY <1>1, <2>2, <2>4 DEF FitnessSays
  <2>6. manifest \in Manifests \union {NoObject}
    BY <1>1 DEF BazaarTypes
  <2> HIDE DEF result
  <2> QED
    BY <1>1, <2>1, <2>3, <2>5, <2>6, RecordStep
<1> QED
  BY <1>2, <1>3

\* A probe that found a network failure is a consensus with itself only when one
\* is enough; without a log there is nothing else.
LEMMA FacetSays ==
  ASSUME NEW said, NEW cause, NEW prior, cause = ProbeOutcome(tries, said.kind), cause # "retry",
         opts.history \/ prior = <<>>
  PROVE  LET state == FacetOf(prior, [cause |-> cause, t |-> Late]).state
         IN \/ state = "ok" /\ said.kind = "responsive"
            \/ state = "unreachable_first_probe"
            \/ state = "unreachable" /\ said.kind \in FetchErrors /\ (opts.history \/ Threshold = 1)
<1> DEFINE current == [cause |-> cause, t |-> Late]
           met == consensusReached(Append(prior, current), cause)
           state == FacetOf(prior, current).state
<1>1. current.cause = cause
  OBVIOUS
<1>2. \A err : ErrorCause(err) \notin {NoCause, "persistent_5xx", "retry"}
  BY DEF ErrorCause, classifyFetchError, NoCause
<1>3. cause = NoCause => said.kind = "responsive"
  BY <1>2 DEF ProbeOutcome, NoCause
<1>4. cause \notin {NoCause, "persistent_5xx"} => said.kind \in FetchErrors
  BY DEF ProbeOutcome, NoCause
<1>5. met /\ prior = <<>> => Threshold = 1
  <2>1. ASSUME met, prior = <<>>
        PROVE  Threshold = 1
    <3>1. Append(prior, current) = <<current>>
      BY <2>1
    <3>2. Len(<<current>>) >= Threshold
      BY <2>1, <3>1 DEF consensusReached
    <3> QED
      BY <3>2, HistoryAssumption
  <2> QED
    BY <2>1
<1> HIDE DEF current
<1>6. \/ cause = NoCause /\ state = "ok"
      \/ state = "unreachable_first_probe"
      \/ cause \notin {NoCause, "persistent_5xx"} /\ state = "unreachable" /\ met
  BY <1>1 DEF FacetOf
<1>7. state = "unreachable" /\ met => opts.history \/ Threshold = 1
  BY <1>5
<1> QED
  BY <1>3, <1>4, <1>6, <1>7 DEF current

LEMMA ReachabilityConcludes ==
  ASSUME BazaarInductive, NEW said, ConcludeReachability(said), request' = "none"
  PROVE  BazaarInductive'
<1> DEFINE outcome == ProbeOutcome(tries, said.kind)
           current == [cause |-> outcome, t |-> Late]
<1>1. /\ step = "reachability" /\ step \in CheckNames /\ BazaarTypes
      /\ manifest \in Manifests \union {NoObject}
  BY DEF ConcludeReachability, CheckNames, UPSTREAM_CHECKS, BazaarInductive, BazaarTypes
<1>2. CASE outcome = "retry"
  <2>1. UNCHANGED <<bazaarRun, step, heard>> /\ tries' = tries + 1
    BY <1>2 DEF ConcludeReachability
  <2>2. tries \in 0..PROBE_RETRIES /\ tries + 1 < PERSISTENT_5XX_RETRY_COUNT
    <3>1. \A err : ErrorCause(err) # "retry"
      BY DEF ErrorCause, classifyFetchError, NoCause
    <3> QED
      BY <1>1, <1>2, <3>1 DEF BazaarTypes, ProbeOutcome, NoCause
  <2>3. tries' \in 0..PROBE_RETRIES
    BY <2>1, <2>2 DEF PROBE_RETRIES, PERSISTENT_5XX_RETRY_COUNT
  <2> QED
    BY <2>1, <2>3, NothingRecorded
<1>3. ASSUME outcome # "retry", NEW prior, opts.history \/ prior = <<>>,
             Record([results EXCEPT ![step] =
                       Result(IF FacetOf(prior, current).state = "ok" THEN "pass" ELSE "info",
                              FacetOf(prior, current).state)], said),
             UNCHANGED <<manifest, challenge>>
      PROVE  BazaarInductive'
  <2> DEFINE state == FacetOf(prior, current).state
             result == Result(IF state = "ok" THEN "pass" ELSE "info", state)
  <2>1. \/ state = "ok" /\ said.kind = "responsive"
        \/ state = "unreachable_first_probe"
        \/ state = "unreachable" /\ said.kind \in FetchErrors /\ (opts.history \/ Threshold = 1)
    BY <1>3, FacetSays
  <2> HIDE DEF state
  <2>2. result.status \in CheckStatus
    BY DEF Result, CheckStatus
  <2>3. Record([results EXCEPT ![step] = result], said)
    BY <1>3 DEF state
  <2>4. results'[step] = result /\ heard'[step] = said /\ opts' = opts
    BY <1>1, <2>3 DEF BazaarTypes, Record, Hear, Heardables
  <2>5. ReachabilitySays'
    <3>1. CASE state = "ok" /\ said.kind = "responsive"
      BY <1>1, <2>4, <3>1 DEF ReachabilitySays, Probed
    <3>2. CASE state = "unreachable_first_probe"
      BY <1>1, <2>4, <3>2 DEF ReachabilitySays
    <3>3. CASE state = "unreachable" /\ said.kind \in FetchErrors /\ (opts.history \/ Threshold = 1)
      <4>1. result = Result("info", "unreachable")
        BY <3>3
      <4>2. Probed(FetchErrors)'
        BY <1>1, <2>4, <3>3 DEF Probed
      <4> QED
        BY <1>1, <2>4, <3>3, <4>1, <4>2 DEF ReachabilitySays
    <3> QED
      BY <2>1, <3>1, <3>2, <3>3
  <2> HIDE DEF result
  <2> QED
    BY <1>1, <1>3, <2>2, <2>3, <2>5, RecordStep
<1>4. CASE step' = "exited" /\ exitCode' = 1 /\ Hear(said)
           /\ UNCHANGED <<opts, manifest, challenge, results, verdict, tries, refused>>
  <2>1. heard' = [n \in Heardables |-> heard'[n]]
    BY <1>1, <1>4 DEF BazaarTypes, Hear
  <2>2. verdict' = [kind |-> "none"]
    BY <1>1, <1>4, CheckNamesAreSteps DEF BazaarTypes
  <2>3. BazaarTypes'
    BY <1>1, <1>4, <2>1, <2>2 DEF BazaarTypes
  <2>4. WellKnownSays' /\ ChallengeSays' /\ IndexingSays' /\ FitnessSays' /\ ReachabilitySays'
    BY <1>4 DEF WellKnownSays, ChallengeSays, IndexingSays, FitnessSays, ReachabilitySays,
       AfterWellKnown, AfterChallenge, AfterIndexing, AfterFitness, AfterReachability
  <2> QED
    BY <2>2, <2>3, <2>4, NoVerdictYetNext DEF BazaarInductive
<1>5. \/ outcome = "retry"
      \/ outcome # "retry" /\ \E prior : 
            /\ opts.history \/ prior = <<>>
            /\ Record([results EXCEPT ![step] =
                         Result(IF FacetOf(prior, current).state = "ok" THEN "pass" ELSE "info",
                                FacetOf(prior, current).state)], said)
            /\ UNCHANGED <<manifest, challenge>>
      \/ /\ step' = "exited" /\ exitCode' = 1 /\ Hear(said)
         /\ UNCHANGED <<opts, manifest, challenge, results, verdict, tries, refused>>
  BY DEF ConcludeReachability
<1> QED
  BY <1>2, <1>3, <1>4, <1>5

LEMMA Concludes ==
  ASSUME BazaarInductive, NEW said \in Answers402(step), Conclude(said), request' = "none",
         step = "well-known" => ~opts.endpoint
  PROVE  BazaarInductive'
<1>1. CASE ConcludeWellKnown(said)
  <2>1. ~opts.endpoint
    BY <1>1 DEF ConcludeWellKnown
  <2> QED
    BY <1>1, <2>1, WellKnownConcludes
<1> QED
  BY <1>1, ChallengeConcludes, DiscoveryConcludes, FitnessConcludes, ReachabilityConcludes
     DEF Conclude

----------------------------------------------------------------------------
\* Steps of the command.

LEMMA CheckArgumentsStep ==
  ASSUME BazaarInductive, CheckArguments
  PROVE  BazaarInductive'
<1>1. /\ step = "arguments" /\ step' \in {"well-known", "exited"} /\ opts' \in Options
      /\ UNCHANGED <<request, manifest, challenge, tries, results, verdict, heard>>
      /\ exitCode' \in {exitCode, 1}
      /\ BazaarTypes
  BY DEF CheckArguments, BazaarInductive
<1>2. verdict' = [kind |-> "none"] /\ request' = "none"
  BY <1>1 DEF BazaarTypes, CheckNames, IMPLEMENTATION_CHECKS, UPSTREAM_CHECKS
<1>3. BazaarTypes'
  BY <1>1, <1>2 DEF BazaarTypes, CheckNames, IMPLEMENTATION_CHECKS
<1>4. WellKnownSays' /\ ChallengeSays' /\ IndexingSays' /\ FitnessSays' /\ ReachabilitySays'
  BY <1>1 DEF WellKnownSays, ChallengeSays, IndexingSays, FitnessSays, ReachabilitySays,
     AfterWellKnown, AfterChallenge, AfterIndexing, AfterFitness, AfterReachability
<1> QED
  BY <1>2, <1>3, <1>4, NoVerdictYetNext DEF BazaarInductive

LEMMA SkipStep ==
  ASSUME BazaarInductive, Skip
  PROVE  BazaarInductive'
<1> DEFINE result ==
             CASE step = "well-known" -> Result("pass", "skipped")
               [] step = "indexing" /\ challenge.kind # "challenge" -> Result("info", "skipped")
               [] step = "host-pollution" /\ challenge.kind # "challenge" -> Result("pass", "skipped")
               [] step = "facilitator-fitness" -> checkFacilitatorFitness("unknown")
               [] OTHER -> Result("pass", IF detectFacilitator(manifest) = "non-cdp"
                                          THEN "not_applicable_non_cdp" ELSE "unknown")
           nothing == [kind |-> "none"]
<1>1. /\ step \in CheckNames /\ request' = "none" /\ ~NeedsRequest(step)
      /\ UNCHANGED <<manifest, challenge>>
      /\ Record([results EXCEPT ![step] = result], nothing)
      /\ BazaarTypes /\ manifest' \in Manifests \union {NoObject}
  BY DEF Skip, BazaarInductive, BazaarTypes
<1>2. result.status \in CheckStatus
  BY DEF Result, CheckStatus, checkFacilitatorFitness
<1>3. step \notin {"challenge", "reachability"}
  BY <1>1 DEF NeedsRequest
<1>4. /\ results'[step] = result /\ opts' = opts
      /\ step \in Heardables => heard'[step] = nothing
  BY <1>1 DEF BazaarTypes, Record, Hear
<1>5. step = "well-known" => WellKnownSays'
  <2>1. step = "well-known" => opts.endpoint /\ result = Result("pass", "skipped")
    BY <1>1 DEF NeedsRequest
  <2> QED
    BY <1>4, <2>1 DEF WellKnownSays
<1>6. step = "indexing" => IndexingSays'
  <2>1. SUFFICES ASSUME step = "indexing"
                 PROVE  IndexingSays'
    OBVIOUS
  <2>2. challenge = heard["challenge"] /\ heard'["challenge"] = heard["challenge"]
    BY <1>1, <2>1 DEF BazaarInductive, BazaarTypes, ChallengeSays, AfterChallenge, Record, Hear,
       Heardables, CheckNames, IMPLEMENTATION_CHECKS
  <2>3. CASE challenge.kind # "challenge"
    <3>1. result = Result("info", "skipped")
      BY <2>1, <2>3
    <3> QED
      BY <1>4, <2>1, <2>2, <2>3, <3>1 DEF IndexingSays
  <2>4. CASE challenge.kind = "challenge"
    <3>1. detectFacilitator(manifest) = "non-cdp"
      BY <1>1, <2>1, <2>4 DEF NeedsRequest
    <3>2. result = Result("pass", "not_applicable_non_cdp")
      BY <2>1, <2>4, <3>1
    <3> QED
      BY <1>1, <1>4, <2>1, <3>1, <3>2 DEF IndexingSays
  <2> QED
    BY <2>3, <2>4
<1>7. step = "facilitator-fitness" => FitnessSays'
  <2>1. step = "facilitator-fitness" => result.status = "pass"
    BY DEF checkFacilitatorFitness, Result
  <2>2. step = "facilitator-fitness" => heard'["facilitator-fitness"].kind = "none"
    BY <1>1, <1>4 DEF Heardables
  <2> QED
    BY <1>4, <2>1, <2>2 DEF FitnessSays
<1> HIDE DEF result, nothing
<1> QED
  BY <1>1, <1>2, <1>3, <1>5, <1>6, <1>7, RecordStep

LEMMA SendStep ==
  ASSUME BazaarInductive, Send
  PROVE  BazaarInductive'
<1>1. step \in CheckNames /\ (step = "well-known" => ~opts.endpoint)
  BY DEF Send, NeedsRequest
<1> QED
  BY <1>1, NothingRecorded DEF Send, BazaarInductive, BazaarTypes

LEMMA NetworkStep ==
  ASSUME BazaarInductive, Network \/ TimerFires
  PROVE  BazaarInductive'
<1>1. step \in CheckNames /\ (step = "well-known" => ~opts.endpoint)
  BY DEF Network, HeadersArrive, BodyArrives, RequestFails, TimerFires, BazaarInductive, BazaarTypes
<1>2. \/ request' = "none" /\ \E said \in Answers402(step) : Conclude(said)
      \/ request' = "body" /\ UNCHANGED <<bazaarRun, step, tries, refused, heard>>
  <2>1. CASE HeadersArrive
    BY <2>1 DEF HeadersArrive, Answers402
  <2>2. CASE BodyArrives
    BY <2>2 DEF BodyArrives, Answers402
  <2>3. CASE RequestFails
    BY <2>3 DEF RequestFails, Answers402
  <2>4. CASE TimerFires
    BY <2>4 DEF TimerFires, Answers402
  <2> QED
    BY <2>1, <2>2, <2>3, <2>4 DEF Network
<1>3. tries \in 0..PROBE_RETRIES
  BY DEF BazaarInductive, BazaarTypes
<1> QED
  BY <1>1, <1>2, <1>3, Concludes, NothingRecorded

----------------------------------------------------------------------------
\* The verdict.

\* At the report, the operator's own checks failed if and only if something of
\* the operator's own was wrong.
LEMMA OwnFaultIsFound ==
  ASSUME BazaarInductive, step = "report"
  PROVE  OwnFault <=> ImplementationFails(results) # {}
<1>1. /\ results["well-known"].status # "fail" <=>
           opts.endpoint \/ (heard["well-known"].kind = "manifest"
                             /\ ManifestIssues(heard["well-known"].manifest) = {})
      /\ results["challenge"].status # "fail" <=>
           /\ heard["challenge"].kind = "challenge"
           /\ heard["challenge"].bazaar # NoObject
           /\ MissingMembers(heard["challenge"].bazaar) = {}
      /\ heard["challenge"].kind = "challenge" =>
           (results["self-payment"].status = "fail" <=> opts.payerHint = heard["challenge"].payTo)
      /\ heard["challenge"].kind # "challenge" => results["self-payment"].status # "fail"
  <2>1. WellKnownSays /\ ChallengeSays
    BY DEF BazaarInductive
  <2>2. step \in AfterWellKnown /\ step \in AfterChallenge
    BY DEF AfterWellKnown, AfterChallenge, AfterIndexing, AfterFitness, AfterReachability
  <2> QED
    BY <2>1, <2>2 DEF WellKnownSays, ChallengeSays, checkWellKnown, checkChallenge,
       checkSelfPayment, Result
<1>2. ImplementationFails(results) = {} <=>
        /\ results["well-known"].status # "fail"
        /\ results["challenge"].status # "fail"
        /\ results["self-payment"].status # "fail"
  BY DEF ImplementationFails, IMPLEMENTATION_CHECKS
<1> QED
  BY <1>1, <1>2 DEF OwnFault

LEMMA VerdictIsOne ==
  ASSUME NEW payload, NEW settle
  PROVE  LET v == synthesiseVerdict(results, payload, settle)
         IN v \in BazaarVerdict /\ v.exitCode \in {0, 2, 3}
<1> DEFINE v == synthesiseVerdict(results, payload, settle)
<1>1. /\ ImplementationFails(results) \in SUBSET IMPLEMENTATION_CHECKS
      /\ UpstreamSignals(results) \in SUBSET UPSTREAM_CHECKS
      /\ computeUpstreamStuckCause(results, payload, settle) \in UpstreamStuckCause
  BY DEF ImplementationFails, UpstreamSignals, computeUpstreamStuckCause, UpstreamStuckCause
<1> QED
  BY <1>1 DEF synthesiseVerdict, BazaarVerdict

\* No check upstream gave a signal: discovery lists the service or does not
\* matter, the service answered, and no facilitator failed.
LEMMA NoSignalMeans ==
  ASSUME BazaarInductive, step = "report", UpstreamSignals(results) = {},
         ~reachabilityConsensus(results)
  PROVE  /\ heard["challenge"].kind = "challenge" =>
              Listed(heard["indexing"]) \/ detectFacilitator(manifest) = "non-cdp"
         /\ heard["facilitator-fitness"].kind \in {"none", "2xx", "4xx"}
         /\ Probed({"responsive"})
<1>1. /\ results["indexing"].status # "info"
      /\ results["facilitator-fitness"].status # "info"
      /\ results["reachability"].status # "info"
  BY DEF UpstreamSignals, UPSTREAM_CHECKS
<1>2. step \in AfterIndexing /\ step \in AfterFitness /\ step \in AfterReachability
  BY DEF AfterIndexing, AfterFitness, AfterReachability
<1>3. IndexingSays /\ FitnessSays /\ ReachabilitySays
  BY DEF BazaarInductive
<1>4. Listed(heard["indexing"]) \/ detectFacilitator(manifest) = "non-cdp"
  BY <1>1, <1>2, <1>3 DEF IndexingSays, checkIndexing, Result
<1>5. heard["facilitator-fitness"].kind \in {"none", "2xx", "4xx"}
  BY <1>1, <1>2, <1>3 DEF FitnessSays
<1>6. Probed({"responsive"})
  BY <1>1, <1>2, <1>3 DEF ReachabilitySays, Result
<1> QED
  BY <1>4, <1>5, <1>6

LEMMA ProcessingMeans ==
  ASSUME BazaarInductive, step = "report", hasProcessingIndexerState(results)
  PROVE  heard["indexing"].kind \in {"404", "resources", "no list"} /\ ~Listed(heard["indexing"])
<1>1. step \in AfterIndexing /\ IndexingSays /\ results["indexing"].state = "processing"
  BY DEF BazaarInductive, AfterIndexing, AfterFitness, AfterReachability, hasProcessingIndexerState
<1>2. results["indexing"].state = checkIndexing(manifest, heard["indexing"]).state
  BY <1>1 DEF IndexingSays, Result
<1>3. ~Listed(heard["indexing"]) /\ ListsNothing(heard["indexing"])
  BY <1>1, <1>2 DEF checkIndexing, Result
<1> QED
  BY <1>3 DEF ListsNothing

LEMMA ConsensusMeans ==
  ASSUME BazaarInductive, step = "report", reachabilityConsensus(results)
  PROVE  Probed(FetchErrors) /\ (opts.history \/ Threshold = 1)
<1>1. step \in AfterReachability /\ ReachabilitySays /\ results["reachability"].state = "unreachable"
  BY DEF BazaarInductive, AfterReachability, reachabilityConsensus
<1> QED
  BY <1>1 DEF ReachabilitySays, Result

LEMMA CauseMeans ==
  ASSUME hasProcessingIndexerState(results), NEW payload, NEW settle
  PROVE  LET cause == computeUpstreamStuckCause(results, payload, settle)
         IN /\ cause = "payload_echo_gap" =>
                 payload = "bare string" \/ settle = "2xx, none echoed"
            /\ cause = "indexer_state_processing" => ~Captured(payload, settle)
            /\ cause = "unknown" => Captured(payload, settle)
<1> DEFINE declared == challengeExtensionsFrom(results)
           rule1 == evaluateMissingResourceObject(payload)
           rule2 == evaluateExtensionsNotEchoed(settle, declared)
           cause == computeUpstreamStuckCause(results, payload, settle)
<1>1. /\ rule1 = "yes" => payload = "bare string"
      /\ rule1 = "deferred" <=> payload \in {NoObject, "no object"}
  BY DEF evaluateMissingResourceObject
<1>2. /\ rule2 = "yes" => settle = "2xx, none echoed"
      /\ rule2 = "deferred" <=> settle = NoObject
  BY DEF evaluateExtensionsNotEchoed
<1>3. cause = IF rule1 = "yes" \/ rule2 = "yes" THEN "payload_echo_gap"
              ELSE IF rule1 = "deferred" \/ rule2 = "deferred" THEN "indexer_state_processing"
              ELSE "unknown"
  BY DEF computeUpstreamStuckCause
<1> HIDE DEF rule1, rule2, cause
<1> QED
  BY <1>1, <1>2, <1>3 DEF cause, Captured

LEMMA ReportStep ==
  ASSUME BazaarInductive, Report
  PROVE  BazaarInductive'
<1> DEFINE v == synthesiseVerdict(results, opts.payload, opts.settle)
<1>1. /\ step = "report" /\ step' = "exited" /\ verdict' = v /\ exitCode' = v.exitCode
      /\ UNCHANGED <<opts, request, manifest, challenge, tries, results, heard>>
      /\ BazaarTypes
  BY DEF Report, BazaarInductive
<1>2. v \in BazaarVerdict /\ v.exitCode \in {0, 2, 3}
  BY VerdictIsOne
<1>3. BazaarTypes'
  <2>1. request' = "none"
    BY <1>1, CheckNamesAreSteps DEF BazaarTypes
  <2> HIDE DEF v
  <2> QED
    BY <1>1, <1>2, <2>1 DEF BazaarTypes
<1>4. WellKnownSays' /\ ChallengeSays' /\ IndexingSays' /\ FitnessSays' /\ ReachabilitySays'
  BY <1>1 DEF WellKnownSays, ChallengeSays, IndexingSays, FitnessSays, ReachabilitySays,
     AfterWellKnown, AfterChallenge, AfterIndexing, AfterFitness, AfterReachability
<1>5. ASSUME reachabilityConsensus(results)
      PROVE  VerdictsEarned'
  <2>1. verdict'.kind = "service_unreachable"
    BY <1>1, <1>5 DEF synthesiseVerdict
  <2>2. Probed(FetchErrors)' /\ (opts'.history \/ Threshold = 1)
    BY <1>1, <1>5, ConsensusMeans DEF Probed
  <2> QED
    BY <2>1, <2>2 DEF VerdictsEarned
<1>6. ASSUME ~reachabilityConsensus(results) /\ ImplementationFails(results) # {}
      PROVE  VerdictsEarned'
  <2>1. verdict'.kind = "implementation_issue"
    BY <1>1, <1>6 DEF synthesiseVerdict
  <2>2. OwnFault'
    BY <1>1, <1>6, OwnFaultIsFound DEF OwnFault
  <2> QED
    BY <2>1, <2>2 DEF VerdictsEarned
<1>7. ASSUME ~reachabilityConsensus(results),
             ImplementationFails(results) = {},
             UpstreamSignals(results) # {},
             hasProcessingIndexerState(results)
      PROVE  VerdictsEarned'
  <2>1. /\ verdict'.kind = "upstream_stuck"
        /\ verdict'.cause = computeUpstreamStuckCause(results, opts.payload, opts.settle)
    BY <1>1, <1>7 DEF synthesiseVerdict
  <2>2. ~OwnFault'
    BY <1>1, <1>7, OwnFaultIsFound DEF OwnFault
  <2>3. heard'["indexing"].kind \in {"404", "resources", "no list"} /\ ~Listed(heard'["indexing"])
    BY <1>1, <1>7, ProcessingMeans
  <2>4. /\ verdict'.cause = "payload_echo_gap" =>
             opts'.payload = "bare string" \/ opts'.settle = "2xx, none echoed"
        /\ verdict'.cause = "indexer_state_processing" => ~Captured(opts'.payload, opts'.settle)
        /\ verdict'.cause = "unknown" => Captured(opts'.payload, opts'.settle)
    BY <1>1, <1>7, <2>1, CauseMeans
  <2> QED
    BY <2>1, <2>2, <2>3, <2>4 DEF VerdictsEarned
<1>8. ASSUME ~reachabilityConsensus(results),
             ImplementationFails(results) = {},
             UpstreamSignals(results) # {},
             ~hasProcessingIndexerState(results)
      PROVE  VerdictsEarned'
  <2>1. verdict'.kind = "upstream_issue"
    BY <1>1, <1>8 DEF synthesiseVerdict
  <2>2. ~OwnFault'
    BY <1>1, <1>8, OwnFaultIsFound DEF OwnFault
  <2> QED
    BY <2>1, <2>2 DEF VerdictsEarned
<1>9. ASSUME ~reachabilityConsensus(results),
             ImplementationFails(results) = {},
             UpstreamSignals(results) = {}
      PROVE  VerdictsEarned'
  <2>1. verdict'.kind = "looks_correct"
    BY <1>1, <1>9 DEF synthesiseVerdict
  <2>2. ~OwnFault' /\ ~OwnFault
    BY <1>1, <1>9, OwnFaultIsFound DEF OwnFault
  <2>3. heard["challenge"].kind = "challenge"
    BY <2>2 DEF OwnFault
  <2>4. /\ Listed(heard'["indexing"]) \/ detectFacilitator(manifest') = "non-cdp"
        /\ heard'["facilitator-fitness"].kind \in {"none", "2xx", "4xx"}
        /\ Probed({"responsive"})'
    BY <1>1, <1>9, <2>3, NoSignalMeans DEF Probed
  <2> QED
    BY <2>1, <2>2, <2>4 DEF VerdictsEarned
<1>10. VerdictsEarned'
  BY <1>5, <1>6, <1>7, <1>8, <1>9, Zenon
<1> QED
  BY <1>3, <1>4, <1>10 DEF BazaarInductive

LEMMA BazaarStep == BazaarInductive /\ [BazaarNext]_bazaarVars => BazaarInductive'
<1> SUFFICES ASSUME BazaarInductive, [BazaarNext]_bazaarVars
             PROVE  BazaarInductive'
  OBVIOUS
<1>1. CASE UNCHANGED bazaarVars
  BY <1>1, NothingRecorded DEF bazaarVars, BazaarInductive, BazaarTypes
<1>2. CASE BazaarProcess
  BY <1>2, CheckArgumentsStep, SkipStep, SendStep, ReportStep DEF BazaarProcess
<1>3. CASE Network \/ TimerFires
  BY <1>3, NetworkStep
<1> QED
  BY <1>1, <1>2, <1>3 DEF BazaarNext

----------------------------------------------------------------------------
\* The programs together.

OneShotsInductive ==
  /\ LookupInductive /\ ValidateInductive /\ BazaarInductive
  /\ exit \in {-1, 0, 1, 2, 3}

LEMMA InitOneShots == Init => OneShotsInductive
BY InitLookup, InitValidate, InitBazaar DEF Init, OneShotsInductive

\* A step of one program is no step of the others, nor of their command line.
LEMMA StepOneShots == OneShotsInductive /\ [Next]_vars => OneShotsInductive'
<1> SUFFICES ASSUME OneShotsInductive, [Next]_vars
             PROVE  OneShotsInductive'
  OBVIOUS
<1>1. [LookupNext]_lookupVars /\ [ValidateNext]_validateVars /\ [BazaarNext]_bazaarVars
  BY DEF Next, WrongFlags, ShowHelp, Return, Dispatch, Bazaar, Validating, LookingUp, vars
<1>2. LookupInductive' /\ ValidateInductive' /\ BazaarInductive'
  BY <1>1, LookupStep, ValidateStep, BazaarStep DEF OneShotsInductive
<1>3. exitCode \in {-1, 0, 1, 2, 3} /\ validated \in {-1, 0, 1, 2, 3}
  BY DEF OneShotsInductive, BazaarInductive, BazaarTypes, ValidateInductive, ValidateStages
<1>4. exit' \in {exit, 0, 1, exitCode, validated}
  BY DEF Next, WrongFlags, ShowHelp, Return, Dispatch, Bazaar, Validating, LookingUp, vars
<1> QED
  BY <1>2, <1>3, <1>4 DEF OneShotsInductive

LEMMA OneShotsInvariant == Spec => []OneShotsInductive
BY InitOneShots, StepOneShots, PTL DEF Spec

\* Types of the three programs: a probe never has more answers than its retries
\* allow, a read that is refused was asked RETRIES times more, a facilitator has
\* a report if and only if its call is over.
THEOREM OneShotsTypeCorrect == Spec => []OneShotsTypeOK
<1>1. ValidateInductive =>
        /\ stage \in {"arguments", "fetch", "chain", "diagnose", "facilitators", "exited"}
        /\ \A r \in Reads :
             /\ reads[r].failed \in 0..RETRIES
             /\ reads[r].settled \in {"no", "answered", "rejected"}
             /\ reads[r].settled = "rejected" =>
                  r # "detectWalletKind" /\ reads[r].failed = RETRIES
        /\ \A i \in DOMAIN calls : calls[i].at = "over" <=> calls[i].report # "none"
        /\ validated \in {-1, 0, 1, 2, 3}
  BY DEF ValidateInductive, ReadsTyped, ReadFits, CallsTyped, ValidateStages
<1>2. BazaarInductive => BazaarTypeOK
  BY DEF BazaarInductive, BazaarTypes, BazaarTypeOK
<1>3. LookupInductive =>
        /\ tx \in {"nowhere", "mempool", "block"} /\ block \in 0..head
        /\ reading \in {"idle", "receipt", "block", "transaction", "head", "answered"}
        /\ failed \in 0..LOOKUP_RETRIES
  BY DEF LookupInductive, ChainTyped, Established
<1>4. OneShotsInductive => OneShotsTypeOK
  BY <1>1, <1>2, <1>3 DEF OneShotsInductive, OneShotsTypeOK
<1> QED
  BY <1>4, OneShotsInvariant, PTL

\* What a lookup answers is true of the transaction, although each of its reads
\* may come from another node and the transaction may be mined in between.
THEOREM AnswersAreEarned == Spec => []LookupEarned
<1>1. OneShotsInductive => LookupEarned
  BY AnswerTrueIsEarned DEF OneShotsInductive, LookupInductive
<1> QED
  BY <1>1, OneShotsInvariant, PTL

\* validate: the exit code claims only what the challenge, the node and the
\* facilitators have said, whichever of the reads and calls fails, in whatever
\* order they end.
THEOREM ExitCodesAreEarned == Spec => []ValidateExitEarned
<1>1. OneShotsInductive => ValidateExitEarned
  BY DEF OneShotsInductive, ValidateInductive
<1> QED
  BY <1>1, OneShotsInvariant, PTL

\* bazaar-check: the verdict tells the operator only what was so when it was
\* asked, although it is made of results of checks that ran one after another
\* against services that may change, fail or stop in between.
THEOREM VerdictsAreEarned == Spec => []VerdictsEarned
<1>1. OneShotsInductive => VerdictsEarned
  BY DEF OneShotsInductive, BazaarInductive
<1> QED
  BY <1>1, OneShotsInvariant, PTL
=============================================================================
