--------------------------- MODULE TransferMatch ---------------------------
(***************************************************************************)
(* The pure match function of the reconciliation engine                    *)
(* (src/reconciliation/match.ts): does an on-chain USDC transfer           *)
(* correspond to the EIP-3009 authorization a buyer signed?                *)
(*                                                                         *)
(* Hex strings keep their letter case until they are compared, because     *)
(* the X-PAYMENT header carries what the client wrote and the chain client *)
(* carries viem's checksummed form.  The value of an authorization is a    *)
(* text that BigInt() reads; the value of a transfer is a number.          *)
(***************************************************************************)
EXTENDS Integers

CONSTANTS
  Hex,         \* nonces and addresses as written, in any letter case
  Lower,       \* what String.prototype.toLowerCase does to them
  ValueText,   \* the texts an authorization's "value" field may hold
  BigInt,      \* the number BigInt() reads from a text, or NotANumber
  NotANumber,  \* BigInt() throws a SyntaxError
  NoNonce      \* the transfer's tx has no AuthorizationUsed log

ASSUME LowerAssumption ==
  /\ Lower \in [Hex -> Hex]
  /\ \A h \in Hex : Lower[Lower[h]] = Lower[h]
ASSUME BigIntAssumption ==
  /\ BigInt \in [ValueText -> Int \union {NotANumber}]
  /\ NotANumber \notin Int
ASSUME NoNonceAssumption == NoNonce \notin Hex

Authorization == [nonce : Hex, from : Hex, to : Hex, value : ValueText]
ChainTransfer ==
  [nonce : Hex \union {NoNonce}, from : Hex, to : Hex, value : Int]

SameText(a, b) == Lower[a] = Lower[b]

\* The nonce and the payer agree: only then is the transfer about this
\* authorization at all (match.ts, the `no_match` return).
SameAuthorization(auth, transfer) ==
  /\ transfer.nonce # NoNonce
  /\ SameText(transfer.nonce, auth.nonce)
  /\ SameText(auth.from, transfer.from)

\* Slips (faulty variants the checks must catch): letter case is not folded,
\* and the payee is not compared.
MatchKindCaseSensitive(auth, transfer) ==
  IF transfer.nonce # auth.nonce \/ auth.from # transfer.from THEN "no_match"
  ELSE IF BigInt[auth.value] = NotANumber THEN "throws"
  ELSE IF BigInt[auth.value] = transfer.value THEN "exact" ELSE "value_mismatch"
MatchKindAnyPayee(auth, transfer) ==
  CASE ~SameAuthorization(auth, transfer)         -> "no_match"
    [] OTHER ->
         CASE BigInt[auth.value] = NotANumber     -> "throws"
           [] BigInt[auth.value] = transfer.value -> "exact"
           [] OTHER                               -> "value_mismatch"

\* "throws" is the exception BigInt() raises on a value that is not a number;
\* it is reached only when nonce, payer and payee agree.
MatchKind(auth, transfer) ==
  CASE ~SameAuthorization(auth, transfer)   -> "no_match"
    [] /\ SameAuthorization(auth, transfer)
       /\ ~SameText(auth.to, transfer.to)   -> "recipient_mismatch"
    [] OTHER ->
         CASE BigInt[auth.value] = NotANumber     -> "throws"
           [] BigInt[auth.value] = transfer.value -> "exact"
           [] OTHER                               -> "value_mismatch"

MatchKinds ==
  {"no_match", "recipient_mismatch", "value_mismatch", "exact", "throws"}
============================================================================
