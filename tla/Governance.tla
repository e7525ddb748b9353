----------------------------- MODULE Governance -----------------------------
(***************************************************************************)
(* The routing decision of a request: which operator rule, client override *)
(* or autopilot governs it (packages/core/src/overrides), which models are *)
(* eligible and how they score (core/src/evaluation, core/src/routing),    *)
(* what they cost (core/src/cost) and how the API turns the resolution     *)
(* into a decision or an error (api/src/routing/resolve-decision.ts).      *)
(*                                                                         *)
(* Everything here is a pure operator.  Identifiers are numbers: what the  *)
(* code tells apart is whether two are equal and which sorts first.  Money *)
(* is in millionths of a dollar, unit prices in thousandths of that, and   *)
(* the factors of a score in millionths, so that every division the code   *)
(* does in floating point is an integer division here.                     *)
(***************************************************************************)
EXTENDS Integers, Sequences, FiniteSets, TLC

CONSTANT Null     (* the absent value of a nullable field                   *)

Given(x) == x # Null

Larger(a, b) == IF a > b THEN a ELSE b

(* JavaScript's sort is stable: elements that neither precede one another   *)
(* keep their order.  s is a sequence, or what a filter left of one: its    *)
(* elements at the positions they had.                                      *)
Sorted(s, Before(_, _)) ==
  LET ahead(i) == { j \in DOMAIN s :
        Before(s[j], s[i]) \/ (j < i /\ ~Before(s[i], s[j])) }
  IN  [ n \in 1..Cardinality(DOMAIN s) |->
          s[CHOOSE i \in DOMAIN s : Cardinality(ahead(i)) = n - 1] ]

(* A model as an adapter describes it, and the price of one.                *)
IsModel(m) ==
  /\ m.providerId \in Int /\ m.modelId \in Int
  /\ m.p95Ms \in Nat /\ m.reliability \in Nat
  /\ m.qualityTier \in {"low", "standard", "high"}

IsPrice(e) == e.unitIn \in Nat /\ e.unitOut \in Nat

-----------------------------------------------------------------------------
(* The output the estimate assumes.                                         *)
OutputTokens(inputTokens) == Larger(4, inputTokens \div 4)

-----------------------------------------------------------------------------
(* Cost.  A pricing table is [versionId, entries], an entry [providerId,    *)
(* modelId, unitIn, unitOut].                                               *)

Prices(table, model) ==
  { e \in table.entries :
      e.providerId = model.providerId /\ e.modelId = model.modelId }

(* roundToUsd6: half up.                                                    *)
RoundToUsd6(thousandths) == (thousandths + 500) \div 1000

(* estimateCostUsd: throws without an entry; every caller prices a model of *)
(* the catalog, which has one.                                              *)
EstimateCostUsd(table, model, inputTokens, outputTokens) ==
  LET entry == CHOOSE e \in Prices(table, model) : TRUE
  IN  RoundToUsd6(inputTokens * entry.unitIn + outputTokens * entry.unitOut)

(* What a request is estimated to cost on a model.                          *)
RequestCost(request, table, model) ==
  EstimateCostUsd(table, model, request.estimatedInputTokens,
                  OutputTokens(request.estimatedInputTokens))

(* isReconciled: within a tenth of a cent or five per cent of the actual.   *)
IsReconciled(estimated, actual) ==
  LET diff == IF estimated > actual THEN estimated - actual ELSE actual - estimated
  IN  diff <= 1000 \/ 20 * diff <= actual

-----------------------------------------------------------------------------
(* Operator rules.                                                          *)

(* matchesRule: every condition that is given holds.                        *)
MatchesRule(rule, request) ==
  /\ rule.enabled
  /\ Given(rule.clientIds) => request.clientId \in rule.clientIds
  /\ Given(rule.requiredCapabilities) =>
       rule.requiredCapabilities \subseteq request.requiredCapabilities
  /\ Given(rule.minEstimatedTokens) =>
       request.estimatedInputTokens >= rule.minEstimatedTokens
  /\ Given(rule.maxEstimatedTokens) =>
       request.estimatedInputTokens <= rule.maxEstimatedTokens

(* The order of the rules: lowest priority number, then rule id.            *)
Precedes(a, b) ==
  a.priority < b.priority \/ (a.priority = b.priority /\ a.ruleId < b.ruleId)

Resolution(source, shadowed, pin, ruleId) ==
  [ effectiveSource |-> source, shadowedSource |-> shadowed, pin |-> pin,
    matchedRuleId |-> ruleId ]

(* Of the rules that match, the one that is sorted first governs.  Ids are  *)
(* unique, so that it does not depend on the order they were listed in.     *)
Governing(matching) ==
  CHOOSE rule \in matching : \A other \in matching \ {rule} : Precedes(rule, other)

Matching(request, rules) == {rule \in rules : MatchesRule(rule, request)}

(* resolveOverride: operator rule over client override over autopilot.      *)
ResolveOverride(request, rules) ==
  LET matching == Matching(request, rules)
  IN  IF matching # {} THEN
        Resolution("operator_rule",
                   IF Given(request.override) THEN "client_override" ELSE Null,
                   Governing(matching).pin, Governing(matching).ruleId)
      ELSE IF Given(request.override) THEN
        Resolution("client_override", Null, request.override, Null)
      ELSE Resolution("autopilot", Null, Null, Null)

-----------------------------------------------------------------------------
(* Candidates.                                                              *)

TierRank(tier) == CASE tier = "low" -> 0 [] tier = "standard" -> 1 [] tier = "high" -> 2

(* filterCandidates: the first requirement a model fails, Null for none.    *)
ExclusionReason(request, model) ==
  IF ~(request.requiredCapabilities \subseteq model.capabilities) THEN "capability"
  ELSE IF request.estimatedInputTokens > model.contextWindow THEN "context"
  ELSE IF Given(request.maxLatencyMs) /\ model.p95Ms > request.maxLatencyMs THEN "latency"
  ELSE IF Given(request.minQualityTier)
          /\ TierRank(model.qualityTier) < TierRank(request.minQualityTier) THEN "quality"
  ELSE Null

Included(request, model) == ~Given(ExclusionReason(request, model))

One == 1000000

QualityScore(tier) ==
  CASE tier = "low" -> 0 [] tier = "standard" -> 600000 [] tier = "high" -> One

(* scoreCandidate: the factors of a model, and their weighted total in      *)
(* hundredths of a millionth.                                               *)
Breakdown(request, table, model, minCost, maxCost) ==
  LET cost == RequestCost(request, table, model)
  IN  [ cost |-> IF maxCost = minCost THEN One
                 ELSE One - ((cost - minCost) * One) \div (maxCost - minCost),
        latency |-> (200 * One) \div (200 + model.p95Ms),
        quality |-> QualityScore(model.qualityTier),
        reliability |-> model.reliability,
        capability |->
          IF request.requiredCapabilities \subseteq model.capabilities THEN One ELSE 0 ]

ScoreCandidate(request, table, model, minCost, maxCost) ==
  LET factors == Breakdown(request, table, model, minCost, maxCost)
  IN  70 * factors.cost + 10 * factors.latency + 5 * factors.quality
        + 10 * factors.reliability + 5 * factors.capability

(* The order of a ranking: included candidates first, the best total first, *)
(* then provider and model; excluded ones by model.                         *)
RanksBefore(a, b) ==
  LET byName == a.providerId < b.providerId
                \/ (a.providerId = b.providerId /\ a.modelId < b.modelId)
  IN  IF ~a.included /\ ~b.included THEN a.modelId < b.modelId
      ELSE IF a.included # b.included THEN a.included
      ELSE a.total > b.total \/ (a.total = b.total /\ byName)

Failure(code) == [error |-> code, httpStatus |-> 422]

IsDecision(outcome) == "ranking" \in DOMAIN outcome

(* decideRoute: filter, normalise the costs over the candidates that are    *)
(* left, score and rank.  catalog is what buildCatalog left of a sequence   *)
(* of models.                                                               *)
DecideRoute(request, catalog, table) ==
  LET models == {catalog[i] : i \in DOMAIN catalog}
      eligible == {m \in models : Included(request, m)}
      costs == {RequestCost(request, table, m) : m \in eligible}
      minCost == CHOOSE c \in costs : \A d \in costs : c <= d
      maxCost == CHOOSE c \in costs : \A d \in costs : c >= d
      candidate(m) ==
        [ providerId |-> m.providerId, modelId |-> m.modelId,
          included |-> m \in eligible,
          reason |-> ExclusionReason(request, m),
          total |-> IF m \in eligible
                      THEN ScoreCandidate(request, table, m, minCost, maxCost) ELSE 0,
          estimatedCostUsd |-> IF m \in eligible
                      THEN RequestCost(request, table, m) ELSE Null ]
      ranked == Sorted([i \in DOMAIN catalog |-> candidate(catalog[i])], RanksBefore)
  IN  IF eligible = {} THEN
        IF models # {} /\ \A m \in models : ExclusionReason(request, m) = "context"
          THEN Failure("context_exceeded") ELSE Failure("provider_unavailable")
      ELSE [ decisionSource |-> "autopilot", shadowedSource |-> Null,
             ranking |-> ranked,
             chosenProviderId |-> ranked[1].providerId,
             chosenModelId |-> ranked[1].modelId,
             pricingTableVersionId |-> table.versionId,
             estimatedCostUsd |-> ranked[1].estimatedCostUsd ]

-----------------------------------------------------------------------------
(* The API's use of it.  A snapshot is [models, pricingTable].              *)

PinnedBefore(a, b) == a.modelId < b.modelId

(* validatePinAgainstCatalog: the first model by name a pin admits, Null    *)
(* for a target that is not in the catalog.                                 *)
PinTarget(pin, snapshot) ==
  LET models == snapshot.models
      admitted == { i \in DOMAIN models :
        /\ Given(pin.providerId) => models[i].providerId = pin.providerId
        /\ Given(pin.modelId) => models[i].modelId = pin.modelId }
  IN  IF admitted = {} THEN Null
      ELSE Sorted([i \in admitted |-> models[i]], PinnedBefore)[1]

(* buildRoutingDecision: a pin is the whole ranking, the scorer's error     *)
(* messages become codes.                                                   *)
BuildRoutingDecision(request, resolution, snapshot) ==
  LET target == PinTarget(resolution.pin, snapshot)
      cost == RequestCost(request, snapshot.pricingTable, target)
  IN  IF ~Given(resolution.pin)
        THEN DecideRoute(request, snapshot.models, snapshot.pricingTable)
      ELSE IF ~Given(target) THEN Failure("override_target_missing")
      ELSE [ decisionSource |-> resolution.effectiveSource,
             shadowedSource |-> resolution.shadowedSource,
             ranking |-> << [ providerId |-> target.providerId,
                              modelId |-> target.modelId, included |-> TRUE,
                              reason |-> Null, total |-> One,
                              estimatedCostUsd |-> cost ] >>,
             chosenProviderId |-> target.providerId,
             chosenModelId |-> target.modelId,
             pricingTableVersionId |-> snapshot.pricingTable.versionId,
             estimatedCostUsd |-> cost ]

(* resolveRoutingDecision, shared by completions, preview and simulation.   *)
ResolveRoutingDecision(request, rules, snapshot) ==
  BuildRoutingDecision(request, ResolveOverride(request, rules), snapshot)

(* buildCatalog: the registered models that are healthy and have a price.   *)
BuildCatalog(models, table, healthyProviders) ==
  [ i \in { i \in DOMAIN models : /\ models[i].providerId \in healthyProviders
                                  /\ Prices(table, models[i]) # {} } |-> models[i] ]
=============================================================================
