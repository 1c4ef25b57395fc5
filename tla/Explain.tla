------------------------------ MODULE Explain ------------------------------
(***************************************************************************)
(* x402trace explain <log> (src/cli/explain-command.ts): which exchanges   *)
(* of a log it diagnoses, and its exit code.                               *)
(*                                                                         *)
(* A log is a sequence of lines that are JSON objects; a line is its event,*)
(* the exchange it is about and, for a verdict, the kind.  Lines that are  *)
(* no objects are passed over and are left out.  The diagnosis itself does *)
(* not touch the exit code: what is explained counts, whatever is said.    *)
(***************************************************************************)
LOCAL INSTANCE Integers
LOCAL INSTANCE Sequences
LOCAL INSTANCE FiniteSets

CONSTANT NotAFile  \* a path that is no regular file, or cannot be read

LinesOf(log, event) == {k \in DOMAIN log : log[k].event = event}

challenges(log) == {log[k].id : k \in LinesOf(log, "exchange.challenge")}
decoderErrors(log) == LinesOf(log, "decoder.error")

\* A later verdict on an exchange replaces an earlier one.
reconciledAs(log, id) ==
  LET verdicts == {k \in LinesOf(log, "reconcile.result") : log[k].id = id}
  IN log[CHOOSE k \in verdicts : \A j \in verdicts : j <= k].kind

explainableExchangeIds(log) ==
  {id \in {log[k].id : k \in LinesOf(log, "reconcile.result")} :
     reconciledAs(log, id) # "settled_on_chain"}

\* An exchange whose challenge is not in the log is skipped and not counted.
explained(log) == explainableExchangeIds(log) \intersect challenges(log)

explainExit(log) ==
  IF log = NotAFile THEN 1
  ELSE IF explained(log) # {} \/ decoderErrors(log) # {} THEN 2 ELSE 0
=============================================================================
