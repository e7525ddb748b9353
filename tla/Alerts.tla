-------------------------------- MODULE Alerts ------------------------------
(***************************************************************************)
(* The alerts a process exposes on /metrics: the loop that watches how many*)
(* requests reconcile (api/src/plugins/reconciliation-metric.ts over       *)
(* persistence/src/telemetry/query.ts) and the one that watches the budgets*)
(* (api/src/plugins/budget-metric.ts over persistence/src/budgets/         *)
(* metrics.ts), and what the console reads of them                         *)
(* (web/src/lib/api/metrics.ts).                                           *)
(*                                                                         *)
(* A timer starts a tick whether or not the last one has come back from the*)
(* database, so that ticks overlap; the alert lives in memory and a restart*)
(* forgets it.  Ratios are in millionths.                                  *)
(***************************************************************************)
EXTENDS Guardrail

CONSTANTS
  AlertTicks,      (* ticks that may be under way at once, of either loop   *)
  AlertWindow,     (* windowMinutes                                         *)
  AlertRows,       (* windowRows                                            *)
  AlertThreshold,  (* 0.95                                                  *)
  MetricBudgets,   (* budgets that may be configured                        *)
  Unread,          (* a tick that has not read                              *)
  MaxClock, MaxSamples, MaxMetricSpend, MaxBoots   (* bounds                *)

(* A ratio of one.                                                          *)
Whole == 1000000

ASSUME AlertsAssumption ==
  /\ AlertWindow \in Nat /\ AlertRows \in Nat \ {0} /\ AlertThreshold \in 0..Whole
  /\ IsFiniteSet(MetricBudgets) /\ \A b \in MetricBudgets : IsBudget(b)
  /\ MaxClock \in Nat /\ MaxBoots \in Nat /\ MaxMetricSpend \in Nat

VARIABLES
  clock,           (* Date.now()                                            *)
  samples,         (* the reconcilable requests, in the order received      *)
  readings,        (* readings[k]: what tick k read, Unread before          *)
  alert,           (* [active, clearRunStart] of this process               *)
  gauges,          (* [rate, active], as /metrics shows them                *)
  lastBad,         (* history: when a bad reading was last processed        *)
  boots,           (* restarts so far                                       *)
  budgetWorld,     (* [rows, spend]: the budgets, and the spend of each     *)
  listings,        (* listings[k]: the rows budget tick k listed            *)
  budgetGauges     (* [utilization, overLimit], as /metrics shows them      *)

alertVars == << clock, samples, readings, alert, gauges, lastBad, boots >>
budgetLoopVars == << budgetWorld, listings, budgetGauges >>

Never == -1

(* A gauge that was never set shows 0.                                      *)
FreshGauges == [rate |-> 0, active |-> 0]
FreshBudgetGauges == [utilization |-> 0, overLimit |-> 0]

FreshAlert == [active |-> FALSE, clearRunStart |-> Never]

AlertsTypeOK ==
  /\ clock \in 0..MaxClock /\ lastBad \in Never..clock /\ boots \in 0..MaxBoots
  /\ alert.active \in BOOLEAN /\ alert.clearRunStart \in Never..clock
  /\ alert.clearRunStart # Never => alert.active
  /\ gauges.rate \in 0..Whole /\ gauges.active \in 0..1

AlertsInit ==
  /\ clock = 0 /\ samples = << >> /\ boots = 0 /\ lastBad = Never
  /\ readings = [k \in AlertTicks |-> Unread] /\ alert = FreshAlert /\ gauges = FreshGauges

BudgetLoopInit ==
  /\ budgetWorld = [rows |-> {}, spend |-> [b \in MetricBudgets |-> 0]]
  /\ listings = [k \in AlertTicks |-> Unread] /\ budgetGauges = FreshBudgetGauges

-----------------------------------------------------------------------------
(* readReconciliationWindow: the latest rows of the last minutes.           *)
ReadReconciliationWindow ==
  LET recent == {i \in DOMAIN samples : samples[i].at >= clock - AlertWindow}
      latest == {i \in recent : Cardinality({j \in recent : j > i}) < AlertRows}
      count == Cardinality(latest)
      good == Cardinality({i \in latest : samples[i].reconciled})
  IN  [ sampleCount |-> count,
        rate |-> IF count = 0 THEN Whole ELSE (good * Whole) \div count ]

(* A tick is started and its query is executed.                             *)
TickReads(k) ==
  /\ readings[k] = Unread
  /\ readings' = [readings EXCEPT ![k] = ReadReconciliationWindow]
  /\ UNCHANGED << clock, samples, alert, gauges, lastBad, boots >>

AfterBad == [active |-> TRUE, clearRunStart |-> Never]

(* A good reading ends the alert when the good ones fill a window.          *)
AfterGood ==
  LET start == IF alert.clearRunStart = Never THEN clock ELSE alert.clearRunStart
  IN  IF ~alert.active \/ clock - start >= AlertWindow THEN FreshAlert
      ELSE [active |-> TRUE, clearRunStart |-> start]

(* What a reading makes of the alert; one without samples says nothing.     *)
Judged(stats) ==
  IF stats.sampleCount = 0 THEN alert
  ELSE IF stats.rate < AlertThreshold THEN AfterBad ELSE AfterGood

(* The answer of tick k's query arrives.                                    *)
TickJudges(k) ==
  /\ readings[k] # Unread
  /\ LET stats == readings[k]
     IN  /\ alert' = Judged(stats)
         /\ gauges' = [gauges EXCEPT !.rate = stats.rate,
                                     !.active = IF alert'.active THEN 1 ELSE 0]
         /\ lastBad' = IF stats.sampleCount # 0 /\ stats.rate < AlertThreshold
                         THEN clock ELSE lastBad
  /\ readings' = [readings EXCEPT ![k] = Unread]
  /\ UNCHANGED << clock, samples, boots >>

(* An error of the query is swallowed: the gauges stay.                     *)
TickFails(k) ==
  /\ readings[k] # Unread
  /\ readings' = [readings EXCEPT ![k] = Unread]
  /\ UNCHANGED << clock, samples, alert, gauges, lastBad, boots >>

-----------------------------------------------------------------------------
(* computeBudgetMetrics: the enabled ones of the rows listed, over the spend*)
(* recorded now.                                                            *)
ComputeBudgetMetrics(rows) ==
  LET status(b) == BudgetStatus(b, budgetWorld.spend[b])
      enabled == {b \in rows : b.enabled}
  IN  [ maxUtilization |-> Max({0} \union {status(b).utilization : b \in enabled}),
        alertActive |-> \E b \in enabled : status(b).status \in {"at_limit", "over_limit"} ]

(* The list of the budgets, then their spend and the gauges.                *)
BudgetTickLists(k) ==
  /\ listings[k] = Unread
  /\ listings' = [listings EXCEPT ![k] = [rows |-> budgetWorld.rows]]
  /\ UNCHANGED << budgetWorld, budgetGauges >>

BudgetTickSums(k) ==
  /\ listings[k] # Unread
  /\ LET snap == ComputeBudgetMetrics(listings[k].rows)
     IN  budgetGauges' = [ utilization |-> snap.maxUtilization,
                           overLimit |-> IF snap.alertActive THEN 1 ELSE 0 ]
  /\ listings' = [listings EXCEPT ![k] = Unread]
  /\ UNCHANGED budgetWorld

(* Operators write budgets, requests record spend.                          *)
BudgetsChange ==
  /\ \/ \E rows \in SUBSET MetricBudgets : budgetWorld' = [budgetWorld EXCEPT !.rows = rows]
     \/ \E b \in MetricBudgets :
          /\ budgetWorld.spend[b] < MaxMetricSpend
          /\ budgetWorld' = [budgetWorld EXCEPT !.spend[b] = @ + 1]
  /\ UNCHANGED << listings, budgetGauges >>

BudgetLoopNext ==
  \/ \E k \in AlertTicks : BudgetTickLists(k) \/ BudgetTickSums(k)
  \/ BudgetsChange

-----------------------------------------------------------------------------
TimePasses ==
  /\ clock < MaxClock
  /\ clock' = clock + 1
  /\ UNCHANGED << samples, readings, alert, gauges, lastBad, boots >>

(* A request with an actual cost is recorded.                               *)
SampleRecorded ==
  /\ Len(samples) < MaxSamples
  /\ \E reconciled \in BOOLEAN :
       samples' = Append(samples, [at |-> clock, reconciled |-> reconciled])
  /\ UNCHANGED << clock, readings, alert, gauges, lastBad, boots >>

(* The process is restarted: the records remain.                            *)
AlertsRestart ==
  /\ boots < MaxBoots /\ boots' = boots + 1
  /\ readings' = [k \in AlertTicks |-> Unread]
  /\ alert' = FreshAlert /\ gauges' = FreshGauges /\ lastBad' = Never
  /\ UNCHANGED << clock, samples >>

AlertsNext ==
  \/ \E k \in AlertTicks : TickReads(k) \/ TickJudges(k) \/ TickFails(k)
  \/ TimePasses \/ SampleRecorded \/ AlertsRestart

(* getReconciliationMetrics: the console's reading of the two gauges.       *)
ReconciliationMetrics == [rate |-> gauges.rate, alertActive |-> gauges.active = 1]

-----------------------------------------------------------------------------
(* However ticks overlap, the alert that is off had no bad reading within   *)
(* the last window of this process, one that is on had one, and the run of  *)
(* good ones that may end it began after the last bad one.  The console is  *)
(* never shown a bad rate without the alert, except before the first tick of*)
(* a process, when its gauges show 0; and the budgets' alert is on with the *)
(* utilization at its limit at least (reconciliation-metric.ts:11-16,       *)
(* metrics.ts:49, 62-66).                                                   *)
AlertIsJustified ==
  /\ ~alert.active => lastBad = Never \/ clock - lastBad >= AlertWindow
  /\ alert.active => lastBad # Never
  /\ alert.clearRunStart # Never => alert.clearRunStart >= lastBad
  /\ ReconciliationMetrics.rate < AlertThreshold =>
       ReconciliationMetrics.alertActive \/ gauges = FreshGauges
  /\ budgetGauges.overLimit = 1 => budgetGauges.utilization >= Whole
  /\ budgetGauges.utilization > Whole => budgetGauges.overLimit = 1
=============================================================================
