---------------------------- MODULE ErrorClasses ----------------------------
(***************************************************************************)
(* The normalized outcome classes of a provider attempt and the three sets *)
(* the gateway sorts them into: what trips a circuit, what is retried and  *)
(* what moves a request on to its fallback candidate.  "none" is success.  *)
(***************************************************************************)

(* errorClassSchema, packages/core/src/types/telemetry.ts. *)
ErrorClass ==
  { "none", "timeout", "rate_limit", "upstream_5xx", "upstream_4xx",
    "invalid_request", "context_exceeded", "override_target_missing",
    "provider_unavailable", "terminal_fallback_exhausted" }

(* What one physical provider call can come back with: an adapter answers   *)
(* with one of these, a thrown adapter error becomes provider_unavailable,  *)
(* and the per-attempt timer produces timeout.                              *)
CallOutcome ==
  { "none", "timeout", "rate_limit", "upstream_5xx", "upstream_4xx",
    "invalid_request", "context_exceeded", "provider_unavailable" }

(* Availability failures that count against a provider's circuit.           *)
TRIPPING == { "timeout", "rate_limit", "upstream_5xx", "provider_unavailable" }

(* Transient faults that the same candidate is called again for.            *)
RETRYABLE == { "timeout", "rate_limit", "upstream_5xx" }

(* First-attempt failures after which autopilot tries a second candidate.   *)
FALLBACK_ELIGIBLE == RETRYABLE \union { "provider_unavailable" }
=============================================================================
