--------------------------- MODULE MCReachability ---------------------------
(***************************************************************************)
(* Three checks of one service, over files that hold what earlier runs     *)
(* left: probes of this service or another, and lines that are no probe.   *)
(***************************************************************************)
EXTENDS Reachability, TLC

CONSTANTS c1, c2, c3

Symmetry == Permutations(Checks)

MCUrlOf == [c \in Checks |-> "shop"]

\* In units of five minutes, the windows of the code; a span of 2 * 2 * 1 ends
\* before a late check, of 2 * 2 * 3 does not.
MCWindow == [c \in NetworkCauses |->
               CASE c = "dns_failure" -> 1 [] c = "tls_error" -> 6 [] OTHER -> 3]

Line(url, why, n, who) ==
  [event |-> "bazaar.probe_attempt", t |-> 0, service_url |-> url, attempt_seq |-> n,
   cause |-> why, by |-> who]
Other == [event |-> "other", t |-> 0, service_url |-> "shop", attempt_seq |-> 0,
          cause |-> "dns_failure", by |-> "proxy"]

MCEarlierLogs == {
  <<>>,
  <<Other>>,
  <<Line("shop", "dns_failure", 1, "e1")>>,
  <<Line("shop", "dns_failure", 1, "e1"), Line("shop", NoCause, 2, "e2")>>,
  <<Line("other", "dns_failure", 1, "e1")>>}
============================================================================
