---------------------------- MODULE TelemetryLog ----------------------------
(***************************************************************************)
(* What the batched telemetry writer promises about the records it was     *)
(* given: they wait in the order they came in, leave from the front of the *)
(* line in batches, and a batch is stored as a whole or lost as a whole.   *)
(* No record is stored twice and none vanishes in between.                 *)
(***************************************************************************)
EXTENDS Naturals, Sequences

CONSTANTS Events

VARIABLES
  pending,  (* records accepted and not yet settled, oldest first            *)
  stored,   (* records in telemetry_events, in the order they were inserted  *)
  lost      (* records of batches whose insert failed                        *)

vars == << pending, stored, lost >>

Members(s) == {s[i] : i \in DOMAIN s}

Init == pending = << >> /\ stored = << >> /\ lost = {}

Accept(e) ==
  /\ e \notin Members(pending) \union Members(stored) \union lost
  /\ pending' = Append(pending, e)
  /\ UNCHANGED << stored, lost >>

(* The first n records are settled together.                                *)
Settle(n) ==
  /\ pending' = SubSeq(pending, n + 1, Len(pending))
  /\ \/ stored' = stored \o SubSeq(pending, 1, n) /\ UNCHANGED lost
     \/ lost' = lost \union Members(SubSeq(pending, 1, n)) /\ UNCHANGED stored

Next ==
  \/ \E e \in Events : Accept(e)
  \/ \E n \in 1 .. Len(pending) : Settle(n)

Spec == Init /\ [][Next]_vars
=============================================================================
