------------------------------ MODULE Decoder -------------------------------
(***************************************************************************)
(* parseChallengeBody (src/decoder/parse.ts): from the body of a 402 to    *)
(* the requirements of its first accepts[] entry.                          *)
(*                                                                         *)
(* A body that is a JSON object is a record of its version and of its      *)
(* accepts: NoList, or a sequence.  An entry is NoEntry (not an object) or *)
(* a record of the members that are strings and of the terms they spell;   *)
(* terms.amount is what the member `amount` says.                          *)
(***************************************************************************)
EXTENDS Sequences, Naturals

CONSTANTS NoBody, NoList, NoEntry, NoTerms

\* Version 2 calls the amount `amount` and names the resource elsewhere.
requiredKeys(version) ==
  {"scheme", "network", "maxAmountRequired", "payTo", "asset"}
    \union (IF version = 2 THEN {} ELSE {"resource"})

Renamed(version, entry) ==
  version = 2 /\ "amount" \in entry.strings /\ "maxAmountRequired" \notin entry.strings

\* The entry after the rename: parseChallengeBody writes into it.
Normalised(version, entry) ==
  IF Renamed(version, entry)
  THEN [strings |-> entry.strings \union {"maxAmountRequired"},
        terms   |-> [entry.terms EXCEPT !.maxAmountRequired = entry.terms.amount]]
  ELSE entry

\* NoTerms when the body is no challenge.  NoBody: no JSON, or no object.
parseChallengeBody(body) ==
  IF body = NoBody THEN NoTerms
  ELSE IF body.accepts = NoList THEN NoTerms
  ELSE IF body.accepts = <<>> THEN NoTerms
  ELSE IF body.accepts[1] = NoEntry THEN NoTerms
  ELSE LET entry == Normalised(body.version, body.accepts[1])
       IN IF requiredKeys(body.version) \subseteq entry.strings THEN entry.terms ELSE NoTerms
=============================================================================
