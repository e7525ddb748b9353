------------------------------- MODULE Reports ------------------------------
(***************************************************************************)
(* What the recorded requests add up to: the summary, the timeseries, the  *)
(* cost anomalies and the optimization insights                            *)
(* (persistence/src/telemetry/{summary,timeseries,anomalies}.ts,           *)
(* core/src/insights, api/src/routes/telemetry-*.ts).                      *)
(*                                                                         *)
(* The Cost page asks for all of them at once; each is one SQL statement   *)
(* except the summary, which is three, so records are stored between what  *)
(* one page shows.  Money is in millionths of a dollar, ratios are in      *)
(* millionths, thresholds of the anomalies in percent.  An instant is a    *)
(* number and the least distance of two instants is one.                   *)
(***************************************************************************)
EXTENDS Governance, Guardrail

CONSTANTS
  Observed,         (* Observed[e]: a telemetry record                      *)
  Late,             (* those that may be stored while a report is read      *)
  Queries,          (* the queries asked: [since, until, providerId, now]   *)
  MaxWindow,        (* MAX_WINDOW_MS, 30 days                               *)
  BucketLength,     (* an hour or a day                                     *)
  Lookback,         (* BASELINE_LOOKBACK: 24 hours or 14 days               *)
  AnomalyConfig,    (* minHistory, relThreshold, criticalRelThreshold,      *)
                    (* minAbsoluteUsd                                       *)
  InsightConfig,    (* minSpendUsd, concentrationRatioThreshold,            *)
                    (* pricingComparisonMinDeltaUsd, maxPricingAlternatives,*)
                    (* budgetPressureRatioThreshold                         *)
  Catalog,          (* the models of the catalog, a set                     *)
  PricingTable,     (* the active pricing table                             *)
  ReportBudgets,    (* the budgets that apply to the client that asks       *)
  RecentLimit,      (* RECENT_LIMIT: the records the page lists             *)
  NotRead           (* a statement that has not been executed               *)

(* Ids are numbers whose order is that of the texts they stand for.         *)
IsObservation(r) ==
  /\ r.receivedAt \in Int /\ r.modelId \in Int
  /\ r.inputTokens \in Nat /\ r.outputTokens \in Nat /\ r.costUsd \in Nat
  /\ Given(r.actualCostUsd) => r.actualCostUsd \in Nat

ASSUME ReportsAssumption ==
  /\ MaxWindow \in Nat \ {0} /\ BucketLength \in Nat \ {0} /\ Lookback \in Nat \ {0}
  /\ AnomalyConfig.relThreshold \in Nat \ {0}
  /\ AnomalyConfig.relThreshold <= AnomalyConfig.criticalRelThreshold
  /\ InsightConfig.pricingComparisonMinDeltaUsd \in Nat
  /\ RecentLimit \in Nat \ {0} /\ Late \subseteq DOMAIN Observed
  /\ IsFiniteSet(DOMAIN Observed) /\ DOMAIN Observed \subseteq Int
  /\ \A e \in DOMAIN Observed : IsObservation(Observed[e])
  /\ \A q \in Queries : q.since \in Int /\ q.until \in Int /\ q.now \in Int
  /\ \A e \in PricingTable.entries : IsPrice(e)
  /\ \A b \in ReportBudgets :
       /\ IsBudget(b)
       /\ \A c \in ReportBudgets : c.budgetId = b.budgetId => c = b
  /\ Null \notin BOOLEAN

VARIABLES
  recorded,         (* telemetry_events: the records stored so far          *)
  query,            (* the query asked, NotRead before                      *)
  answer,           (* answer[s]: what statement s returned                 *)
  basis             (* history, basis[s]: the records it was executed over  *)

reportVars == << recorded, query, answer, basis >>

Statements ==
  {"totals", "byProvider", "byModel", "series", "anomalies", "budgets", "events"}

-----------------------------------------------------------------------------
(* The six aggregates, over a set of records.                               *)
Aggregate(S) ==
  LET sum(f(_)) == MapThenSumSet(LAMBDA e : f(Observed[e]), S)
  IN  [ requestCount |-> Cardinality(S),
        inputTokens |-> sum(LAMBDA r : r.inputTokens),
        outputTokens |-> sum(LAMBDA r : r.outputTokens),
        estimatedCostUsd |-> sum(LAMBDA r : r.costUsd),
        actualCostUsd |-> sum(LAMBDA r : IF Given(r.actualCostUsd) THEN r.actualCostUsd ELSE 0),
        pendingActualCostCount |->
          Cardinality({e \in S : ~Given(Observed[e].actualCostUsd)}) ]

(* applyFilters: both ends of the window belong to it.                      *)
Filtered(S, q) ==
  { e \in S : /\ Given(q.providerId) => Observed[e].providerId = q.providerId
              /\ Observed[e].receivedAt \in q.since..q.until }

ModelOf(e) == [providerId |-> Observed[e].providerId, modelId |-> Observed[e].modelId]

ByProvider(S) ==
  [ p \in {Observed[e].providerId : e \in S} |->
      Aggregate({e \in S : Observed[e].providerId = p}) ]

ByModel(S) == [ m \in {ModelOf(e) : e \in S} |-> Aggregate({e \in S : ModelOf(e) = m}) ]

-----------------------------------------------------------------------------
(* date_trunc: the number of an instant's bucket.                           *)
BucketOf(t) == t \div BucketLength

(* The records of [from, until) that a provider filter leaves.              *)
Between(S, from, q) ==
  { e \in S : /\ Given(q.providerId) => Observed[e].providerId = q.providerId
              /\ Observed[e].receivedAt >= from /\ Observed[e].receivedAt < q.until }

(* Contiguous buckets, empty ones included.                                 *)
Bucketed(S, from, q) ==
  [ b \in BucketOf(from)..BucketOf(q.until - 1) |->
      Aggregate({e \in Between(S, from, q) : BucketOf(Observed[e].receivedAt) = b}) ]

Timeseries(S, q) == Bucketed(S, q.since, q)

(* Faulty variant: the frame ends with the current row.                     *)
Frame_WithTarget(series, b) ==
  {d \in DOMAIN series : d \in (b - Lookback)..b /\ series[d].requestCount > 0}

(* The active buckets among those before b: its window frame.               *)
Frame(series, b) ==
  {d \in DOMAIN series : d \in (b - Lookback)..(b - 1) /\ series[d].requestCount > 0}

(* A deviation of estimated over the mean of n buckets that cost sum, as a  *)
(* percentage of that mean at least.                                        *)
Deviates(estimated, sum, n, percent) == (estimated * n - sum) * 100 >= sum * percent

(* detectCostAnomalies: the bucket of "now" is incomplete and not judged,   *)
(* the first one is judged over its whole length.                           *)
Anomalies(S, q) ==
  LET series == Bucketed(S, q.since - Lookback * BucketLength, q)
      count(b) == Cardinality(Frame(series, b))
      sum(b) == MapThenSumSet(LAMBDA d : series[d].estimatedCostUsd, Frame(series, b))
      flagged == { b \in DOMAIN series :
        /\ b >= BucketOf(q.since) /\ b < BucketOf(q.now)
        /\ count(b) >= AnomalyConfig.minHistory /\ count(b) > 0 /\ sum(b) > 0
        /\ series[b].requestCount > 0
        /\ series[b].estimatedCostUsd >= AnomalyConfig.minAbsoluteUsd
        /\ Deviates(series[b].estimatedCostUsd, sum(b), count(b), AnomalyConfig.relThreshold) }
  IN  [ b \in flagged |->
          [ estimatedCostUsd |-> series[b].estimatedCostUsd,
            historicalBucketCount |-> count(b),
            severity |-> IF Deviates(series[b].estimatedCostUsd, sum(b), count(b),
                                     AnomalyConfig.criticalRelThreshold)
                           THEN "critical" ELSE "warning" ] ]

-----------------------------------------------------------------------------
(* The newest records of the window, of equal ones the last in the order of *)
(* their ids: the first page that EventBrowser turns.                       *)
Newer(d, e) ==
  \/ Observed[d].receivedAt > Observed[e].receivedAt
  \/ Observed[d].receivedAt = Observed[e].receivedAt /\ d > e

RecentEvents(S, q) ==
  { e \in Filtered(S, q) :
      Cardinality({d \in Filtered(S, q) : Newer(d, e)}) < RecentLimit }

-----------------------------------------------------------------------------
(* Insights, pure functions of a summary and of the budgets' status.        *)
CostConcentrations(total, byModel) ==
  { [ model |-> m, severity |-> "warning",
      shareRatio |-> (byModel[m].estimatedCostUsd * One + total \div 2) \div total ] :
    m \in {n \in DOMAIN byModel :
             /\ total > 0 /\ byModel[n].estimatedCostUsd >= InsightConfig.minSpendUsd
             /\ (byModel[n].estimatedCostUsd * One + total \div 2) \div total
                  >= InsightConfig.concentrationRatioThreshold} }

(* What a group's tokens cost on a model at the current prices.             *)
Repriced(group, model) ==
  EstimateCostUsd(PricingTable, model, group.inputTokens, group.outputTokens)

CompatibilitySignal(observed, alternative) ==
  IF /\ observed.capabilities \subseteq alternative.capabilities
     /\ alternative.contextWindow >= observed.contextWindow
     /\ TierRank(alternative.qualityTier) >= TierRank(observed.qualityTier)
    THEN "catalog_superset" ELSE "none"

NameOf(m) == [providerId |-> m.providerId, modelId |-> m.modelId]

(* The alternatives that save most, at most maxPricingAlternatives of them. *)
PricingComparisons(byModel) ==
  LET saving(n, alt) == Repriced(byModel[n], n) - Repriced(byModel[n], alt)
      cheaper(n) == { alt \in Catalog :
        /\ NameOf(alt) # n /\ Prices(PricingTable, alt) # {}
        /\ saving(n, alt) >= InsightConfig.pricingComparisonMinDeltaUsd }
      before(n, a, b) ==
        \/ saving(n, a) > saving(n, b)
        \/ /\ saving(n, a) = saving(n, b)
           /\ \/ a.providerId < b.providerId
              \/ a.providerId = b.providerId /\ a.modelId < b.modelId
      offered(n) == { a \in cheaper(n) :
        Cardinality({b \in cheaper(n) : before(n, b, a)}) < InsightConfig.maxPricingAlternatives }
      compared == { n \in DOMAIN byModel :
        byModel[n].estimatedCostUsd >= InsightConfig.minSpendUsd /\ Prices(PricingTable, n) # {} }
      signal(n, alt) ==
        IF \E m \in Catalog : NameOf(m) = n
          THEN CompatibilitySignal(CHOOSE m \in Catalog : NameOf(m) = n, alt) ELSE "none"
  IN  UNION { { [ model |-> n, alternative |-> NameOf(a), severity |-> "info",
                  costDifferenceUsd |-> saving(n, a), compatibilitySignal |-> signal(n, a) ] :
                a \in offered(n) } : n \in compared }

BudgetPressures(statuses) ==
  { [ budgetId |-> b,
      severity |-> IF statuses[b].status = "over_limit" THEN "critical" ELSE "warning" ] :
    b \in { x \in DOMAIN statuses :
              statuses[x].status # "below_limit"
              \/ statuses[x].utilization >= InsightConfig.budgetPressureRatioThreshold } }

(* loadBudgetStatuses, for the route of the insights and for the budgets'.  *)
BudgetStatuses(S, q) ==
  [ id \in {b.budgetId : b \in ReportBudgets} |->
      LET b == CHOOSE x \in ReportBudgets : x.budgetId = id
      IN  BudgetStatus(b, SpendOf(b, {Observed[e] : e \in S}, q.now)) ]

-----------------------------------------------------------------------------
ReportsTypeOK ==
  /\ recorded \subseteq DOMAIN Observed
  /\ query \in Queries \union {NotRead}
  /\ DOMAIN answer = Statements /\ DOMAIN basis = Statements
  /\ \A s \in Statements :
       answer[s] # NotRead => query # NotRead /\ basis[s] \subseteq recorded

ReportsInit ==
  /\ recorded \in SUBSET (DOMAIN Observed \ Late) /\ query = NotRead
  /\ answer = [s \in Statements |-> NotRead]
  /\ basis = [s \in Statements |-> {}]

(* A flush stores a record.                                                 *)
Record(e) ==
  /\ e \notin recorded
  /\ recorded' = recorded \union {e}
  /\ UNCHANGED << query, answer, basis >>

(* The routes: a window that is empty or too long is refused with a 400.    *)
Ask(q) ==
  /\ query = NotRead
  /\ q.since < q.until /\ q.until - q.since <= MaxWindow
  /\ query' = q
  /\ UNCHANGED << recorded, answer, basis >>

Refuse(q) ==
  /\ query = NotRead
  /\ q.since >= q.until \/ q.until - q.since > MaxWindow
  /\ UNCHANGED reportVars

(* What a statement returns that is executed over S.                        *)
Outcome(s, S) ==
  CASE s = "totals" -> Aggregate(Filtered(S, query))
    [] s = "byProvider" -> ByProvider(Filtered(S, query))
    [] s = "byModel" -> ByModel(Filtered(S, query))
    [] s = "series" -> Timeseries(S, query)
    [] s = "anomalies" -> Anomalies(S, query)
    [] s = "budgets" -> BudgetStatuses(S, query)
    [] s = "events" -> RecentEvents(S, query)

(* A statement is executed; those of the summary follow each other.         *)
Execute(s) ==
  /\ query # NotRead /\ answer[s] = NotRead
  /\ s = "byProvider" => answer["totals"] # NotRead
  /\ s = "byModel" => answer["byProvider"] # NotRead
  /\ answer' = [answer EXCEPT ![s] = Outcome(s, recorded)]
  /\ basis' = [basis EXCEPT ![s] = recorded]
  /\ UNCHANGED << recorded, query >>

ReportsNext ==
  \/ \E e \in Late : Record(e)
  \/ \E q \in Queries : Ask(q) \/ Refuse(q)
  \/ \E s \in Statements : Execute(s)

-----------------------------------------------------------------------------
AllRead == \A s \in Statements : answer[s] # NotRead

(* The columns of a summary or of a series, added up.                       *)
Column(groups, field) == MapThenSumSet(LAMBDA g : groups[g][field], DOMAIN groups)

Insights ==
  [ concentrations |-> CostConcentrations(answer["totals"].estimatedCostUsd, answer["byModel"]),
    comparisons |-> PricingComparisons(answer["byModel"]),
    pressures |-> BudgetPressures(answer["budgets"]) ]

(* The parts of one report agree as far as they were read over the same     *)
(* records.  Totals never exceed the sum of the groups, read later.  The    *)
(* series lacks what was received at "until" and nothing else.  An anomaly  *)
(* costs what its bucket in the series does (the first may cost more), and  *)
(* more than each of the buckets before it did on average.  Shares of the   *)
(* spend exceed the whole only if records came in between, a cheaper model  *)
(* is cheaper by what the configuration asks for, and what is over its limit*)
(* is never reported as less (summary.ts, timeseries.ts, anomalies.ts,      *)
(* insights/optimization.ts).                                               *)
ReportsReconcile ==
  AllRead =>
    LET totals == answer["totals"]
        series == answer["series"]
        atUntil == {e \in Filtered(basis["totals"], query) :
                      Observed[e].receivedAt = query.until}
    IN  /\ \A f \in DOMAIN totals :
             /\ totals[f] <= Column(answer["byProvider"], f)
             /\ Column(answer["byProvider"], f) <= Column(answer["byModel"], f)
             /\ basis["byModel"] = basis["totals"] =>
                  totals[f] = Column(answer["byModel"], f)
             /\ basis["series"] = basis["totals"] =>
                  Column(series, f) + Aggregate(atUntil)[f] = totals[f]
        /\ basis["series"] = basis["anomalies"] =>
             \A b \in DOMAIN answer["anomalies"] :
               LET cost(x) == answer["anomalies"][x].estimatedCostUsd
                   spent(d) == { e \in basis["anomalies"] :
                     /\ BucketOf(Observed[e].receivedAt) = d
                     /\ Observed[e].receivedAt >= query.since - Lookback * BucketLength
                     /\ Given(query.providerId) => Observed[e].providerId = query.providerId }
                   past == {d \in (b - Lookback)..(b - 1) : spent(d) # {}}
               IN  /\ b < BucketOf(query.now)
                   /\ IF b = BucketOf(query.since) THEN cost(b) >= series[b].estimatedCostUsd
                      ELSE cost(b) = series[b].estimatedCostUsd
                   /\ answer["anomalies"][b].historicalBucketCount = Cardinality(past)
                   /\ cost(b) * Cardinality(past)
                        > MapThenSumSet(LAMBDA d : Aggregate(spent(d)).estimatedCostUsd, past)
        /\ basis["byModel"] = basis["totals"] =>
             MapThenSumSet(LAMBDA c : c.shareRatio, Insights.concentrations)
               <= One + Cardinality(Insights.concentrations)
        /\ \A c \in Insights.comparisons :
             /\ c.alternative # c.model
             /\ Repriced(answer["byModel"][c.model], c.alternative)
                    + InsightConfig.pricingComparisonMinDeltaUsd
                  <= Repriced(answer["byModel"][c.model], c.model)
        /\ \A b \in ReportBudgets :
             answer["budgets"][b.budgetId].remainingUsd < 0 =>
               [budgetId |-> b.budgetId, severity |-> "critical"] \in Insights.pressures
=============================================================================
