--------------------------- MODULE ExchangeWatch ---------------------------
(***************************************************************************)
(* What reconciliation promises, with no Map, no halves, no transfers and  *)
(* no timer: a lifecycle per exchange.  An exchange is being joined, then  *)
(* either ignored (it was paid) or watched; a watched one ends with one    *)
(* verdict, and a verdict is final.  At most one exchange is resolved at a *)
(* time, except by giving up, which takes every exchange that has been     *)
(* watched for WatchTimeout, at once, and never a younger one.             *)
(***************************************************************************)
EXTENDS Integers

CONSTANTS Ids, WatchTimeout

Verdict == {"settled_on_chain", "value_mismatch", "recipient_mismatch"}
Status == {"joining", "ignored", "watched", "not_settled"} \union Verdict

VARIABLES status,  \* where each exchange is in its lifecycle
          since,   \* when the watch of an exchange began, 0 before it does
          clock
vars == <<status, since, clock>>

Init ==
  /\ status = [id \in Ids |-> "joining"]
  /\ since = [id \in Ids |-> 0]
  /\ clock = 0

Ignore(id) ==
  /\ status[id] = "joining"
  /\ status' = [status EXCEPT ![id] = "ignored"]
  /\ UNCHANGED <<since, clock>>

Watch(id) ==
  /\ status[id] = "joining"
  /\ status' = [status EXCEPT ![id] = "watched"]
  /\ since' = [since EXCEPT ![id] = clock]
  /\ UNCHANGED clock

Resolve(id, verdict) ==
  /\ status[id] = "watched"
  /\ status' = [status EXCEPT ![id] = verdict]
  /\ UNCHANGED <<since, clock>>

Overdue == {id \in Ids : status[id] = "watched" /\ clock - since[id] >= WatchTimeout}
GiveUp ==
  /\ status' = [id \in Ids |-> IF id \in Overdue THEN "not_settled" ELSE status[id]]
  /\ UNCHANGED <<since, clock>>

TimePasses ==
  /\ clock' = clock + 1
  /\ UNCHANGED <<status, since>>

Next ==
  \/ \E id \in Ids : Ignore(id) \/ Watch(id)
  \/ \E id \in Ids, verdict \in Verdict : Resolve(id, verdict)
  \/ GiveUp
  \/ TimePasses

Spec == Init /\ [][Next]_vars
============================================================================
