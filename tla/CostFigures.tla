----------------------------- MODULE CostFigures ----------------------------
(***************************************************************************)
(* What the console's Cost page makes of the reports: its figures, tables  *)
(* and chart (web/src/features/cost).                                      *)
(*                                                                         *)
(* Every panel has a source of its own and shows it when it comes, so that *)
(* figures stand beside each other that were read at different moments.    *)
(* DataHooks has how a panel comes by an answer and by an error; here it   *)
(* waits for one or has it.                                                *)
(***************************************************************************)
EXTENDS Reports

CONSTANTS
  XTicks          (* X_TICKS: the labels below the chart, at most           *)

ASSUME CostFiguresAssumption == XTicks \in Nat /\ XTicks >= 2

-----------------------------------------------------------------------------
(* build-event.ts: a request's flag, null while its actual cost is unknown. *)
Reconciled(e) ==
  IF Given(Observed[e].actualCostUsd)
    THEN IsReconciled(Observed[e].costUsd, Observed[e].actualCostUsd) ELSE Null

DeriveReconciliationSummary(events) ==
  LET count(flag) == Cardinality({e \in events : Reconciled(e) = flag})
  IN  [ reconciled |-> count(TRUE), mismatch |-> count(FALSE), pending |-> count(Null),
        total |-> Cardinality(events) ]

(* The display models of the summary: its figures and all tokens.           *)
ToTotals(figures) ==
  [ f \in DOMAIN figures \union {"totalTokens"} |->
      IF f = "totalTokens" THEN figures.inputTokens + figures.outputTokens ELSE figures[f] ]

ToProviderGroups(byProvider) == [p \in DOMAIN byProvider |-> ToTotals(byProvider[p])]

(* The page knows models by their id alone: rows of one model at several    *)
(* providers collapse.                                                      *)
ToModelGroups(byModel) ==
  LET rows(id) == {n \in DOMAIN byModel : n.modelId = id}
  IN  [ id \in {n.modelId : n \in DOMAIN byModel} |->
          ToTotals([ f \in DOMAIN Aggregate({}) |->
                       MapThenSumSet(LAMBDA n : byModel[n][f], rows(id)) ]) ]

(* The rows of a breakdown: by cost, then by name.                          *)
ListedAbove(groups, a, b) ==
  \/ groups[a].estimatedCostUsd > groups[b].estimatedCostUsd
  \/ groups[a].estimatedCostUsd = groups[b].estimatedCostUsd /\ a < b

SortCostGroups(groups) ==
  CHOOSE rows \in [1..Cardinality(DOMAIN groups) -> DOMAIN groups] :
    \A i, j \in DOMAIN rows : i < j => ListedAbove(groups, rows[i], rows[j])

(* A bar's length or height in percent: TrackBar clips it to its track.     *)
Percent(value, max) == IF max > 0 THEN (100 * value) \div max ELSE 0

(* Of values that are not negative, the greatest; of none, 0.               *)
Greatest(values) == CHOOSE m \in values \union {0} : \A v \in values : v <= m

ShareBars(groups) ==
  LET max == Greatest({groups[k].estimatedCostUsd : k \in DOMAIN groups})
  IN  [i \in DOMAIN SortCostGroups(groups) |->
         LET k == SortCostGroups(groups)[i]
         IN  [key |-> k, percent |-> Percent(groups[k].estimatedCostUsd, max)]]

-----------------------------------------------------------------------------
(* The chart.                                                               *)
TrendPoints(series) ==
  [ b \in DOMAIN series |->
      [ figures |-> ToTotals(series[b]),
        hasActual |-> series[b].requestCount - series[b].pendingActualCostCount > 0,
        hasActivity |-> series[b].requestCount > 0 ] ]

TrendMetrics == {"cost", "requests", "tokens"}

(* The scale of the costs fits the estimated and the actual one.            *)
MetricValue(p, metric) ==
  CASE metric = "requests" -> p.figures.requestCount
    [] metric = "tokens" -> p.figures.totalTokens
    [] metric = "cost" -> Greatest({p.figures.estimatedCostUsd, p.figures.actualCostUsd})

MetricMax(points, metric) == Greatest({MetricValue(points[b], metric) : b \in DOMAIN points})

(* What is drawn of a point; an actual cost, where there is one, is a mark. *)
Drawn(points, b, metric) ==
  LET height(value) == Percent(value, MetricMax(points, metric))
      p == points[b].figures
  IN  CASE metric = "requests" -> {height(p.requestCount)}
        [] metric = "tokens" -> {height(p.totalTokens), height(p.inputTokens)}
        [] metric = "cost" ->
             {height(p.estimatedCostUsd)}
               \union (IF points[b].hasActual THEN {height(p.actualCostUsd)} ELSE {})

(* Evenly spaced labels, rounded to whole buckets.                          *)
TickIndices(n) ==
  LET count == IF n < XTicks THEN n ELSE XTicks
  IN  IF n <= 1 THEN {0}
      ELSE { (2 * i * (n - 1) + (count - 1)) \div (2 * (count - 1)) : i \in 0..(count - 1) }

-----------------------------------------------------------------------------
(* A panel with a source: it waits, says that there is nothing, or shows.   *)
Panel(s, isEmpty(_)) ==
  IF answer[s] = NotRead THEN "loading" ELSE IF isEmpty(answer[s]) THEN "empty" ELSE "ready"

BreakdownPanel == Panel("byModel", LAMBDA groups : DOMAIN groups = {})

CostTrendPanel ==
  Panel("series", LAMBDA series : \A b \in DOMAIN series : ~TrendPoints(series)[b].hasActivity)

RecentRequests == Panel("events", LAMBDA events : events = {})

AnomaliesPanel == Panel("anomalies", LAMBDA flagged : DOMAIN flagged = {})

(* Some records were received at the end of the window, which belongs to it *)
(* in the summary and in the list, but not in the series.                   *)
SomeAtUntil(s) == \E e \in Filtered(basis[s], query) : Observed[e].receivedAt = query.until

-----------------------------------------------------------------------------
(* What one Cost page shows fits together, as far as it was read over the   *)
(* same records.  Collapsing the models loses nothing; the first bar is     *)
(* whole and none is longer; every point of the chart lies within          *)
(* its scale, and an actual cost is marked exactly where one came; a panel  *)
(* never says that there was nothing while another shows requests; the flags*)
(* of the requests listed add up, to the summary's pending ones when it     *)
(* lists them all; and the first and the last bucket have a label, as many  *)
(* as fit (cost-model.ts, timeseries-model.ts, CostTrendPanel.tsx,          *)
(* CostView.tsx).                                                           *)
CostPageAgrees ==
  /\ answer["byModel"] # NotRead =>
       LET byModel == answer["byModel"]
           groups == ToModelGroups(byModel)
       IN  /\ \A f \in DOMAIN Aggregate({}) : Column(groups, f) = Column(byModel, f)
           /\ groups # << >> /\ Column(groups, "estimatedCostUsd") > 0 =>
                ShareBars(groups)[1].percent = 100
           /\ \A i \in DOMAIN ShareBars(groups) : ShareBars(groups)[i].percent <= 100
           /\ basis["byProvider"] = basis["byModel"] =>
                Column(ToProviderGroups(answer["byProvider"]), "totalTokens")
                  = Column(groups, "totalTokens")
  /\ answer["series"] # NotRead =>
       LET points == TrendPoints(answer["series"])
           came(b) == { e \in Between(basis["series"], query.since, query) :
                          /\ BucketOf(Observed[e].receivedAt) = b
                          /\ Given(Observed[e].actualCostUsd) }
       IN  \A b \in DOMAIN points :
             /\ points[b].hasActual = (came(b) # {})
             /\ \A metric \in TrendMetrics : Drawn(points, b, metric) \subseteq 0..100
  /\ (/\ "loading" \notin {BreakdownPanel, CostTrendPanel}
      /\ basis["byModel"] = basis["series"] /\ ~SomeAtUntil("byModel")) =>
        BreakdownPanel = CostTrendPanel
  /\ (/\ "loading" \notin {BreakdownPanel, RecentRequests}
      /\ basis["byModel"] = basis["events"]) =>
        BreakdownPanel = RecentRequests
  /\ AnomaliesPanel = "ready" /\ CostTrendPanel = "empty" =>
        \/ basis["anomalies"] # basis["series"]
        \/ DOMAIN answer["anomalies"] = {BucketOf(query.since)}
  /\ answer["events"] # NotRead =>
       LET shown == DeriveReconciliationSummary(answer["events"])
       IN  /\ shown.reconciled + shown.mismatch + shown.pending = shown.total
           /\ shown.total <= RecentLimit
           /\ (/\ answer["totals"] # NotRead /\ basis["totals"] = basis["events"]
               /\ shown.total = answer["totals"].requestCount) =>
                 shown.pending = answer["totals"].pendingActualCostCount
  /\ \A n \in 1..31 :
       /\ {0, n - 1} \subseteq TickIndices(n) /\ TickIndices(n) \subseteq 0..(n - 1)
       /\ Cardinality(TickIndices(n)) = IF n < XTicks THEN n ELSE XTicks
=============================================================================
