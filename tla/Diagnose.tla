------------------------------ MODULE Diagnose ------------------------------
(***************************************************************************)
(* The fifteen rules of the diagnose engine (src/diagnose/rules.ts) and    *)
(* what their results add up to.                                           *)
(*                                                                         *)
(* A context is a record of requirements, payment, wallet, facilitator,    *)
(* expectsBazaar and now; Absent stands for what it lacks.  A number that  *)
(* BigInt() or Number() cannot read is NotANumber.  Addresses are compared *)
(* without letter case: one token is one address, in any spelling.         *)
(***************************************************************************)
EXTENDS Integers

CONSTANTS Absent, NotANumber

PassIf(holds) == IF holds THEN "pass" ELSE "fail"
----------------------------------------------------------------------------
\* The payment against the requirements.

networkMatchRule(ctx) ==
  IF ctx.payment = Absent THEN "skip" ELSE PassIf(ctx.payment.network = ctx.requirements.network)

schemeMatchRule(ctx) ==
  IF ctx.payment = Absent THEN "skip" ELSE PassIf(ctx.payment.scheme = ctx.requirements.scheme)

recipientMatchRule(ctx) ==
  IF ctx.payment = Absent THEN "skip" ELSE PassIf(ctx.payment.to = ctx.requirements.payTo)

valueSufficientRule(ctx) ==
  IF ctx.payment = Absent THEN "skip"
  ELSE IF NotANumber \in {ctx.payment.value, ctx.requirements.maxAmountRequired} THEN "fail"
  ELSE PassIf(ctx.payment.value >= ctx.requirements.maxAmountRequired)

validBeforeRule(ctx) ==
  IF ctx.payment = Absent THEN "skip"
  ELSE IF ctx.payment.validBefore = NotANumber THEN "fail"
  ELSE PassIf(ctx.now < ctx.payment.validBefore)

validAfterRule(ctx) ==
  IF ctx.payment = Absent THEN "skip"
  ELSE IF ctx.payment.validAfter = NotANumber THEN "fail"
  ELSE PassIf(ctx.now >= ctx.payment.validAfter)

selfPaymentRule(ctx) ==
  IF ctx.payment = Absent THEN "skip" ELSE PassIf(ctx.payment.from # ctx.requirements.payTo)

\* The standard token is known for base-sepolia only.
assetAddressRule(ctx) ==
  IF ctx.requirements.network # "base-sepolia" THEN "skip"
  ELSE PassIf(ctx.requirements.asset = "BASE_SEPOLIA_USDC")
----------------------------------------------------------------------------
\* The wallet.

payerBalanceRule(ctx) ==
  IF \/ ctx.payment = Absent
     \/ ctx.wallet.usdcBalance = Absent
     \/ ctx.payment.value = NotANumber
  THEN "skip"
  ELSE PassIf(ctx.wallet.usdcBalance >= ctx.payment.value)

nonceFreshRule(ctx) ==
  IF ctx.payment = Absent \/ ctx.wallet.nonceConsumed = Absent THEN "skip"
  ELSE PassIf(ctx.wallet.nonceConsumed = FALSE)

walletKindRule(ctx) ==
  IF ctx.wallet.walletKind = Absent THEN "skip"
  ELSE PassIf(ctx.wallet.walletKind \in {"eoa", "smart-wallet"})
----------------------------------------------------------------------------
\* The facilitator's answer.

CDP_MIN_AMOUNT_ATOMIC == 1000

cdpMinAmountRule(ctx) ==
  IF ctx.facilitator = Absent THEN "skip"
  ELSE IF ~ctx.facilitator.isCdp \/ ctx.requirements.maxAmountRequired = NotANumber THEN "skip"
  ELSE PassIf(ctx.requirements.maxAmountRequired >= CDP_MIN_AMOUNT_ATOMIC)

facilitatorThrottlingRule(ctx) ==
  IF ctx.facilitator = Absent THEN "skip"
  ELSE PassIf(ctx.facilitator.statusCode \notin {403, 429})

\* Only a settlement that succeeded can lack the header.
extensionResponsesMissingRule(ctx) ==
  IF ~ctx.expectsBazaar \/ ctx.facilitator = Absent THEN "skip"
  ELSE IF \/ ctx.facilitator.stage # "settle"
          \/ ctx.facilitator.statusCode # 200
          \/ ~ctx.facilitator.success
  THEN "skip"
  ELSE PassIf(ctx.facilitator.extensionResponses)

\* The phrase, in the error message or in either reason.
gasEstimationFailureRule(ctx) ==
  IF ctx.facilitator = Absent THEN "skip"
  ELSE PassIf("unable to estimate gas" \notin ctx.facilitator.says)
----------------------------------------------------------------------------
ALL_RULES(ctx) ==
  [network_match               |-> networkMatchRule(ctx),
   scheme_match                |-> schemeMatchRule(ctx),
   recipient_match             |-> recipientMatchRule(ctx),
   value_sufficient            |-> valueSufficientRule(ctx),
   valid_before                |-> validBeforeRule(ctx),
   valid_after                 |-> validAfterRule(ctx),
   payer_balance               |-> payerBalanceRule(ctx),
   nonce_fresh                 |-> nonceFreshRule(ctx),
   wallet_kind                 |-> walletKindRule(ctx),
   asset_address               |-> assetAddressRule(ctx),
   cdp_min_amount              |-> cdpMinAmountRule(ctx),
   self_payment                |-> selfPaymentRule(ctx),
   facilitator_throttling      |-> facilitatorThrottlingRule(ctx),
   extension_responses_missing |-> extensionResponsesMissingRule(ctx),
   gas_estimation_failure      |-> gasEstimationFailureRule(ctx)]

CRITICAL_RULES == {"payer_balance", "nonce_fresh"}

\* A failing rule decides; else a critical rule that was skipped.
diagnose(ctx) ==
  LET results == ALL_RULES(ctx)
  IN IF \E r \in DOMAIN results : results[r] = "fail" THEN "would-fail"
     ELSE IF \E r \in CRITICAL_RULES : results[r] = "skip" THEN "uncertain"
     ELSE "would-succeed"
=============================================================================
