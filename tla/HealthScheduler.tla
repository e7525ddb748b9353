--------------------------- MODULE HealthScheduler --------------------------
(***************************************************************************)
(* The health scheduler (persistence/src/health/scheduler.ts): each round  *)
(* probes every adapter and stores what it makes of the outcome in         *)
(* provider_health_state (health/probe.ts), which routing reads.           *)
(*                                                                         *)
(* setInterval starts a round whether or not the last one is over, so      *)
(* rounds overlap, share the failure counts in memory and store in any     *)
(* order.  A store that fails inside the try block is caught like a probe  *)
(* that failed, and counted like one.                                      *)
(*                                                                         *)
(* A process that starts stores every provider as healthy (api/src/        *)
(* index.ts), whatever was known of it before it went down, and counts     *)
(* from 0.                                                                 *)
(***************************************************************************)
EXTENDS Naturals

CONSTANTS
  Adapters,         (* providers with a registered adapter                  *)
  Rounds,           (* rounds that can be under way                         *)
  UnhealthyAfter,   (* unhealthyAfter, 3 by default                         *)
  MaxFaults         (* bound on failing probes and stores, and restarts     *)

ASSUME HealthAssumption == UnhealthyAfter \in Nat \ {0} /\ MaxFaults \in Nat

VARIABLES
  booting,          (* providers the starting process has yet to store      *)
  scheduled,        (* the interval is set                                  *)
  failures,         (* consecutiveFailures[a]                               *)
  health,           (* provider_health_state: health[a]                     *)
  probe,            (* probe[i][a]: round i's probeOne of adapter a         *)
  faults            (* faults so far, a bound                               *)

healthVars == << booting, scheduled, failures, health, probe, faults >>

NoProbe == [stage |-> "idle", healthy |-> FALSE, count |-> 0]

(* storing awaits a store inside the try block, restoring one in the catch. *)
ProbeStage == {"idle", "probing", "storing", "restoring"}

HealthTypeOK ==
  /\ booting \subseteq Adapters /\ scheduled \in BOOLEAN
  /\ booting # {} => ~scheduled /\ \A i \in Rounds, a \in Adapters : probe[i][a] = NoProbe
  /\ failures \in [Adapters -> 0..MaxFaults]
  /\ health \in [Adapters -> [healthy : BOOLEAN, consecutiveFailures : 0..MaxFaults]]
  /\ probe \in [Rounds -> [Adapters ->
       [stage : ProbeStage, healthy : BOOLEAN, count : 0..MaxFaults]]]
  /\ faults \in 0..MaxFaults

(* The process has booted for the first time.                               *)
HealthInit ==
  /\ booting = {} /\ scheduled = FALSE
  /\ failures = [a \in Adapters |-> 0]
  /\ health = [a \in Adapters |-> [healthy |-> TRUE, consecutiveFailures |-> 0]]
  /\ probe = [i \in Rounds |-> [a \in Adapters |-> NoProbe]]
  /\ faults = 0

-----------------------------------------------------------------------------
Fault == faults < MaxFaults /\ faults' = faults + 1

(* The process goes down with its rounds and its counts, and starts anew.   *)
Restart ==
  /\ Fault
  /\ booting' = Adapters /\ scheduled' = FALSE
  /\ failures' = [a \in Adapters |-> 0]
  /\ probe' = [i \in Rounds |-> [a \in Adapters |-> NoProbe]]
  /\ UNCHANGED health

(* main: one upsert after the other; a failing one ends the process, which  *)
(* is to say that it restarts.                                              *)
Boot(a) ==
  /\ a \in booting
  /\ health' = [health EXCEPT ![a] = [healthy |-> TRUE, consecutiveFailures |-> 0]]
  /\ booting' = booting \ {a}
  /\ UNCHANGED << scheduled, failures, probe, faults >>

RoundStarts(i) ==
  /\ \A a \in Adapters : probe[i][a].stage = "idle"
  /\ probe' = [probe EXCEPT ![i] = [a \in Adapters |-> [NoProbe EXCEPT !.stage = "probing"]]]

(* start: the interval and a first round, unless it is set already.         *)
Start(i) ==
  /\ ~scheduled /\ booting = {}
  /\ scheduled' = TRUE
  /\ RoundStarts(i)
  /\ UNCHANGED << booting, failures, health, faults >>

(* The interval fires.                                                      *)
RunOnce(i) ==
  /\ scheduled
  /\ RoundStarts(i)
  /\ UNCHANGED << booting, scheduled, failures, health, faults >>

(* stop: rounds under way go on.                                            *)
Stop ==
  /\ scheduled
  /\ scheduled' = FALSE
  /\ UNCHANGED << booting, failures, health, probe, faults >>

(* Faulty variant: a success leaves the count as it was.                    *)
Succeeded_CountKept(i, a) ==
  /\ probe' = [probe EXCEPT ![i][a] =
       [ stage |-> "storing", healthy |-> failures[a] < UnhealthyAfter,
         count |-> failures[a] ]]
  /\ UNCHANGED failures

Succeeded(i, a) ==
  /\ failures' = [failures EXCEPT ![a] = 0]
  /\ probe' = [probe EXCEPT ![i][a] = [stage |-> "storing", healthy |-> TRUE, count |-> 0]]

(* One failure more; enough of them in a row make the provider unhealthy.   *)
Failed(i, a, stage) ==
  LET next == failures[a] + 1
  IN  /\ failures' = [failures EXCEPT ![a] = next]
      /\ probe' = [probe EXCEPT ![i][a] =
           [stage |-> stage, healthy |-> next < UnhealthyAfter, count |-> next]]

ProbeSucceeds(i, a) ==
  /\ probe[i][a].stage = "probing"
  /\ Succeeded(i, a)
  /\ UNCHANGED << booting, scheduled, health, faults >>

(* The adapter reports itself unhealthy, or probeHealth throws, at the      *)
(* latest when its deadline aborts it.                                      *)
ProbeFails(i, a) ==
  /\ probe[i][a].stage = "probing" /\ Fault
  /\ \E stage \in {"storing", "restoring"} : Failed(i, a, stage)
  /\ UNCHANGED << booting, scheduled, health >>

(* setProviderHealth: the upsert, whatever a later round has stored.        *)
Store(i, a) ==
  /\ probe[i][a].stage \in {"storing", "restoring"}
  /\ health' = [health EXCEPT ![a] =
       [healthy |-> probe[i][a].healthy, consecutiveFailures |-> probe[i][a].count]]
  /\ probe' = [probe EXCEPT ![i][a] = NoProbe]
  /\ UNCHANGED << booting, scheduled, failures, faults >>

(* The upsert fails: in the try block a failure to count and store, in the  *)
(* catch block the end of the probe.                                        *)
StoreFails(i, a) ==
  /\ Fault
  /\ \/ probe[i][a].stage = "storing" /\ Failed(i, a, "restoring")
     \/ /\ probe[i][a].stage = "restoring"
        /\ probe' = [probe EXCEPT ![i][a] = NoProbe]
        /\ UNCHANGED failures
  /\ UNCHANGED << booting, scheduled, health >>

HealthNext ==
  \/ \E i \in Rounds : Start(i) \/ RunOnce(i)
  \/ Stop \/ Restart \/ \E a \in Adapters : Boot(a)
  \/ \E i \in Rounds, a \in Adapters :
       ProbeSucceeds(i, a) \/ ProbeFails(i, a) \/ Store(i, a) \/ StoreFails(i, a)

(* The interval fires and what a probe awaits comes back.                   *)
HealthFairness ==
  /\ \A i \in Rounds : WF_healthVars(RunOnce(i))
  /\ \A i \in Rounds, a \in Adapters :
       WF_healthVars(ProbeSucceeds(i, a) \/ ProbeFails(i, a))
       /\ WF_healthVars(Store(i, a) \/ StoreFails(i, a))

-----------------------------------------------------------------------------
(* While the scheduler runs on, a provider whose probes and stores no longer   *)
(* fail is healthy for routing from some moment on, whatever the overlapping*)
(* rounds of before still store, late and out of order.                     *)
RecoveredProviderReturns ==
  <>[]scheduled => \A a \in Adapters : <>[](health[a].healthy)
=============================================================================
