--------------------------- MODULE VerifyTransfer ---------------------------
(***************************************************************************)
(* getTransferByTxHash and verifyTransfer of the chain client              *)
(* (src/chain/client.ts), with the retries of src/chain/retry.ts: up to    *)
(* four reads of one transaction, one after the other, while the           *)
(* transaction is broadcast and mined and the head moves.                  *)
(*                                                                         *)
(* The RPC endpoint may answer every call from a node that is behind, or   *)
(* fail it.  A receipt is its status and its Transfer logs.  There are no  *)
(* reorganisations.                                                        *)
(***************************************************************************)
EXTENDS Integers, Sequences

CONSTANTS
  Questions,    \* [asks : {"get", "verify"}, token, to, amount, from]
  Receipts,     \* what mining the transaction may leave
  Unspecified,  \* an expectation that is not given
  MaxHead       \* bound

VARIABLES
  tx,        \* "nowhere", "mempool" or "block"
  receipt,   \* its receipt, once mined
  block,     \* the block it is in
  head,      \* the newest block
  question,  \* what was asked, Unspecified before
  reading,   \* the read that is awaited, "idle" or "answered"
  failed,    \* its calls that failed so far
  missed,    \* history: the receipt was not to be had
  answer     \* the kind of the result, and its confirmations

chainState == <<tx, receipt, block, head>>
lookupVars == <<chainState, question, reading, failed, missed, answer>>

LOOKUP_RETRIES == 3
NoAnswer == [kind |-> "none", confirmations |-> -1]

LookupInit ==
  /\ tx = "nowhere"
  /\ receipt = Unspecified
  /\ block = 0
  /\ head = 0
  /\ question = Unspecified
  /\ reading = "idle"
  /\ failed = 0
  /\ missed = FALSE
  /\ answer = NoAnswer
----------------------------------------------------------------------------
\* The chain.

Broadcast ==
  /\ tx = "nowhere"
  /\ tx' = "mempool"
  /\ UNCHANGED <<receipt, block, head, question, reading, failed, missed, answer>>

NewBlock ==
  /\ head < MaxHead
  /\ head' = head + 1
  /\ \/ UNCHANGED <<tx, receipt, block>>
     \/ /\ tx = "mempool"
        /\ tx' = "block"
        /\ block' = head'
        /\ receipt' \in Receipts
  /\ UNCHANGED <<question, reading, failed, missed, answer>>

\* What a node that may be behind may know of the transaction.
Views ==
  IF tx = "nowhere" THEN {"nowhere"}
  ELSE IF tx = "mempool" THEN {"nowhere", "mempool"}
  ELSE {"nowhere", "mempool", "block"}
----------------------------------------------------------------------------
\* Steps of the lookup.

ReadNext(what) ==
  /\ reading' = what
  /\ failed' = 0
  /\ UNCHANGED answer

Answered(kind, confirmations) ==
  /\ reading' = "answered"
  /\ failed' = 0
  /\ answer' = [kind |-> kind, confirmations |-> confirmations]

\* withRetry: "not found" is retried like any other failure, and what the last
\* call said decides.
Retry(giveUp) ==
  IF failed < LOOKUP_RETRIES
  THEN failed' = failed + 1 /\ UNCHANGED <<reading, answer>>
  ELSE giveUp

Ask ==
  /\ reading = "idle"
  /\ question' \in Questions
  /\ ReadNext("receipt")
  /\ UNCHANGED <<chainState, missed>>

\* buildTransferFromReceipt returned null.
NoTransfer ==
  IF question.asks = "get" THEN Answered("null", -1) ELSE ReadNext("transaction")

TransfersOf(mined, token) == SelectSeq(mined.transfers, LAMBDA t : t.token = token)

\* Slip: a receipt whose status is not success is taken for one without logs
\* of this token.
ReceiptReadAnyStatus ==
  /\ reading = "receipt"
  /\ tx = "block"
  /\ IF TransfersOf(receipt, question.token) # <<>> THEN ReadNext("block") ELSE Answered("wrong_token", -1)
  /\ UNCHANGED <<chainState, question, missed>>

ReceiptRead ==
  /\ reading = "receipt"
  /\ tx = "block"
  /\ IF receipt.status # "success" \/ receipt.transfers = <<>> THEN NoTransfer
     ELSE IF TransfersOf(receipt, question.token) # <<>> THEN ReadNext("block")
     ELSE Answered(IF question.asks = "get" THEN "null" ELSE "wrong_token", -1)
  /\ UNCHANGED <<chainState, question, missed>>

ReceiptNotFound ==
  /\ reading = "receipt"
  /\ missed' = (failed = LOOKUP_RETRIES)
  /\ Retry(NoTransfer)
  /\ UNCHANGED <<chainState, question>>

\* The transfer that is compared is the first one of the token.
Compared ==
  LET transfer == TransfersOf(receipt, question.token)[1]
  IN IF question.asks = "get" THEN Answered("transfer", -1)
     ELSE IF question.to \notin {Unspecified, transfer.to} THEN Answered("wrong_recipient", -1)
     ELSE IF question.amount \notin {Unspecified, transfer.value} THEN Answered("wrong_amount", -1)
     ELSE IF question.from \notin {Unspecified, transfer.from} THEN Answered("wrong_recipient", -1)
     ELSE ReadNext("head")

BlockRead ==
  /\ reading = "block"
  /\ Compared
  /\ UNCHANGED <<chainState, question, missed>>

TransactionRead ==
  /\ reading = "transaction"
  /\ \E view \in Views \ {"nowhere"} :
       Answered(IF view = "mempool" THEN "pending" ELSE "reverted", -1)
  /\ UNCHANGED <<chainState, question, missed>>

TransactionNotFound ==
  /\ reading = "transaction"
  /\ Retry(Answered("not_found", -1))
  /\ UNCHANGED <<chainState, question, missed>>

HeadRead ==
  /\ reading = "head"
  /\ \E h \in 0..head : Answered("confirmed", IF h >= block THEN h - block + 1 ELSE 0)
  /\ UNCHANGED <<chainState, question, missed>>

\* Any other failure: after the retries, the caller's promise rejects.
CallFailsOnce ==
  /\ reading \in {"receipt", "block", "transaction", "head"}
  /\ Retry(Answered("throws", -1))
  /\ UNCHANGED <<chainState, question, missed>>

LookupProcess == Ask
NodeAnswers ==
  \/ ReceiptRead \/ ReceiptNotFound \/ BlockRead \/ TransactionRead
  \/ TransactionNotFound \/ HeadRead \/ CallFailsOnce
ChainMoves == Broadcast \/ NewBlock

LookupNext == LookupProcess \/ NodeAnswers \/ ChainMoves
----------------------------------------------------------------------------
(***************************************************************************)
(* An answer is true of the transaction, although every read may come from *)
(* another node and the transaction may be mined between two of them.      *)
(*   confirmed, transfer: it succeeded and its first transfer of the token *)
(*     is the expected one; no more confirmations than there are.          *)
(*   wrong_...: it succeeded, and what it moved is not what was expected.  *)
(*   pending: it was broadcast.                                            *)
(*   reverted: it is in a block, and reverted or moved nothing, or its     *)
(*     receipt was not to be had when it was asked for.  (The code says    *)
(*     "must be reverted" of all three.)                                   *)
(***************************************************************************)
LookupEarned ==
  LET succeeded == tx = "block" /\ receipt.status = "success"
      moved == TransfersOf(receipt, question.token)
      asExpected == /\ question.to \in {Unspecified, moved[1].to}
                    /\ question.from \in {Unspecified, moved[1].from}
                    /\ question.amount \in {Unspecified, moved[1].value}
  IN /\ answer.kind = "confirmed" =>
          /\ succeeded /\ moved # <<>> /\ asExpected
          /\ answer.confirmations \in 0 .. head - block + 1
     /\ answer.kind = "transfer" => succeeded /\ moved # <<>>
     /\ answer.kind = "wrong_token" => succeeded /\ moved = <<>> /\ receipt.transfers # <<>>
     /\ answer.kind \in {"wrong_recipient", "wrong_amount"} =>
          succeeded /\ moved # <<>> /\ ~asExpected
     /\ answer.kind = "pending" => tx # "nowhere"
     /\ answer.kind = "reverted" =>
          /\ tx = "block"
          /\ missed \/ receipt.status # "success" \/ receipt.transfers = <<>>
=============================================================================
