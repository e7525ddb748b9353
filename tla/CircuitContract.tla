-------------------------- MODULE CircuitContract ---------------------------
(***************************************************************************)
(* What a provider circuit promises its callers, with no counters and no   *)
(* clock: the state diagram of docs/operations.md.  A closed gate admits   *)
(* anyone, an open gate admits nobody until it turns half-open by letting  *)
(* one call in, and a half-open gate admits nobody else until a call that  *)
(* is in flight on the provider comes back.                                *)
(***************************************************************************)
CONSTANTS Providers, Callers

VARIABLES
  gate,   (* gate[p]: "closed", "open" or "half_open".                      *)
  busy    (* busy[p]: the callers with a call in flight on p.               *)

vars == << gate, busy >>

Init ==
  /\ gate = [p \in Providers |-> "closed"]
  /\ busy = [p \in Providers |-> {}]

Free(c) == \A p \in Providers : c \notin busy[p]

(* A closed circuit lets a caller through and stays closed.                 *)
AdmitClosed(c, p) ==
  /\ Free(c)
  /\ gate[p] = "closed"
  /\ busy' = [busy EXCEPT ![p] = @ \union {c}]
  /\ UNCHANGED gate

(* An open circuit lets exactly one caller through, by turning half-open.   *)
AdmitProbe(c, p) ==
  /\ Free(c)
  /\ gate[p] = "open"
  /\ gate' = [gate EXCEPT ![p] = "half_open"]
  /\ busy' = [busy EXCEPT ![p] = @ \union {c}]

(* The gates a completed call may leave behind.                             *)
After(g) ==
  CASE g = "closed"    -> {"closed", "open"}
    [] g = "half_open" -> {"closed", "open"}
    [] g = "open"      -> {"open"}

(* A call comes back.                                                       *)
Complete(c, p) ==
  /\ c \in busy[p]
  /\ busy' = [busy EXCEPT ![p] = @ \ {c}]
  /\ \E g \in After(gate[p]) : gate' = [gate EXCEPT ![p] = g]

Next ==
  \E c \in Callers, p \in Providers :
    AdmitClosed(c, p) \/ AdmitProbe(c, p) \/ Complete(c, p)

Spec == Init /\ [][Next]_vars
=============================================================================
