---------------------------- MODULE ResultStream ---------------------------
(***************************************************************************)
(* The engine's result bus and the one loop that consumes it: results() of *)
(* src/reconciliation/engine.ts is a subscription of its own event bus.    *)
(***************************************************************************)
EXTENDS Engine, ForAwait, FiniteSets

CONSTANT MaxQueue  \* maxQueue of the subscription, 1024

ASSUME MaxQueueAssumption == MaxQueue \in Nat \ {0}

VARIABLE resultLoop  \* the loop over engine.results()

Emission == [id : Ids, result : Result]

\* The results a handler emits in one synchronous stretch, in the order of the
\* Map it walks.
Emitting == {id \in Ids : results'[id] # results[id]}
Older(id) == {other \in Emitting : pending[other].rank < pending[id].rank}
Emissions ==
  [k \in 1..Cardinality(Emitting) |->
     LET id == CHOOSE id \in Emitting : Cardinality(Older(id)) = k - 1
     IN [id |-> id, result |-> results'[id][Len(results'[id])]]]

\* The exchanges that have a result.
Reported == {id \in Ids : results[id] # <<>>}

EmitResults == resultLoop' = OfferAll(resultLoop, Emissions, MaxQueue)
============================================================================
