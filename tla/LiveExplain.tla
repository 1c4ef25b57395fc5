---------------------------- MODULE LiveExplain -----------------------------
(***************************************************************************)
(* explain, run on the log that `x402trace proxy --reconcile` has written. *)
(* The log holds what the proxy emitted and the engine's verdicts; what    *)
(* the decoder made of an exchange (its challenge, its payment) goes to    *)
(* stdout only.                                                            *)
(***************************************************************************)
EXTENDS LivePipeline, Explain, SequencesExt

\* The lines of the journal; a verdict's line carries its kind.  Their order
\* does not matter: an exchange gets one verdict.
WrittenLog ==
  LET lineOf(l) == [event |-> l.event, id |-> l.id,
                    kind |-> IF l.event = "reconcile.result"
                             THEN results[l.id][1].kind ELSE "none"]
  IN SetToSeq({lineOf(l) : l \in journal})

\* "read a JSONL log produced by `proxy --reconcile`, find every exchange that
\* didn't `settled_on_chain` [...] CI-friendly: exits 2 if any failures, 0 if
\* clean" (README.md, line 131): once the command has ended, explain's 0 means
\* that every verdict in its log is settled_on_chain.
CleanExitMeansSettled ==
  command = "exited" /\ explainExit(WrittenLog) = 0 =>
    explainableExchangeIds(WrittenLog) = {}
=============================================================================
