-------------------------- MODULE MCCircuitBreaker --------------------------
(* The circuit breaker on two providers and three concurrent callers.       *)
EXTENDS CircuitBreaker

(* The bounds make every path short but possible: a streak of two opens a   *)
(* circuit, so one success can break it, and three callers are enough for a *)
(* call admitted while closed, the probe and a refused third to overlap.    *)
ASSUME FailureThreshold = 2 /\ CooldownMs = 2
=============================================================================
