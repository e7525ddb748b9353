------------------------- MODULE CompletionContract -------------------------
(***************************************************************************)
(* What POST /v1/completions promises about one request, whatever happens  *)
(* inside: it is answered once; it is refused without a trace in telemetry *)
(* (and only before anything was executed), or its execution ends in one   *)
(* answer together with exactly one telemetry record that tells the same   *)
(* outcome.                                                                *)
(***************************************************************************)
CONSTANTS Requests

VARIABLES
  phase,     (* phase[r]: "absent", "deciding", "executing" or "answered"   *)
  verdict,   (* verdict[r]: what the client is told, "none" until then      *)
  recorded   (* recorded[r]: the outcomes telemetry was given for r         *)

vars == << phase, verdict, recorded >>

Init ==
  /\ phase = [r \in Requests |-> "absent"]
  /\ verdict = [r \in Requests |-> "none"]
  /\ recorded = [r \in Requests |-> << >>]

Move(r, from, to) ==
  /\ phase[r] = from
  /\ phase' = [phase EXCEPT ![r] = to]

Arrive(r) ==
  /\ Move(r, "absent", "deciding")
  /\ UNCHANGED << verdict, recorded >>

(* Refused: malformed, no eligible model, over budget, or the database      *)
(* failed.  Nothing was executed and nothing is recorded.                   *)
Refuse(r) ==
  /\ Move(r, "absent", "answered") \/ Move(r, "deciding", "answered")
  /\ verdict' = [verdict EXCEPT ![r] = "refused"]
  /\ UNCHANGED recorded

Execute(r) ==
  /\ Move(r, "deciding", "executing")
  /\ UNCHANGED << verdict, recorded >>

(* The execution ends: one answer, one record, one outcome.                 *)
Finish(r) ==
  /\ Move(r, "executing", "answered")
  /\ \E v \in {"completed", "failed"} :
       /\ verdict' = [verdict EXCEPT ![r] = v]
       /\ recorded' = [recorded EXCEPT ![r] = << v >>]

Next == \E r \in Requests : Arrive(r) \/ Refuse(r) \/ Execute(r) \/ Finish(r)

Spec == Init /\ [][Next]_vars
=============================================================================
