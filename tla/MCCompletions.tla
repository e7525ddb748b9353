--------------------------- MODULE MCCompletions ----------------------------
(* Two concurrent completions on two providers.                             *)
EXTENDS Completions

CONSTANTS p1, p2, r1, r2

(* A fallback and a pinned target, first on the same provider.              *)
MCDecisions ==
  { [source |-> "autopilot",     chosen |-> p1, next |-> p2],
    [source |-> "operator_rule", chosen |-> p1, next |-> NoProvider] }

(* The defaults (no retry, no deadline), and a policy with a retry whose    *)
(* timeouts and backoff do not fit into the deadline.                       *)
MCPolicies ==
  { [ timeoutMs |-> 1, maxRetries |-> 0, backoffBaseMs |-> 1,
      backoffMaxMs |-> 2, requestDeadlineMs |-> 0 ],
    [ timeoutMs |-> 2, maxRetries |-> 1, backoffBaseMs |-> 1,
      backoffMaxMs |-> 2, requestDeadlineMs |-> 2 ] }

(* A success, a retried and tripping failure, and one that is neither; the  *)
(* timers add timeouts.                                                     *)
MCAnswers == {"none", "upstream_5xx", "upstream_4xx"}
=============================================================================
