---------------------------- MODULE MCOperations ----------------------------
(***************************************************************************)
(* A small instance of every part of Operations for TLC.                   *)
(***************************************************************************)
EXTENDS Operations

CONSTANTS r1, r2, k1, k2, p1, p2

-----------------------------------------------------------------------------
(* Budgets and rules that are posted and patched.                           *)
MCBudgetRows ==
  { [scope |-> "global", clientId |-> NoOwner, limitUsd |-> 1],
    [scope |-> "client", clientId |-> "acme", limitUsd |-> 1] }

MCBudgetBodies ==
  { [limitUsd |-> 2], [limitUsd |-> 0], [scope |-> "client"], [clientId |-> "acme"],
    [scope |-> "global", clientId |-> NoOwner] }

(* The rule a page has open, what is put into its form, and by whom else.   *)
MCRuleAtFirst == [enabled |-> TRUE, priority |-> 1, clients |-> "none"]

MCFormValues == "priority" :> {2, Invalid} @@ "clients" :> {"none", "acme"}

MCOtherValues == "priority" :> {1, 2}

MCRuleRows == {[priority |-> 1, enabled |-> TRUE]}

MCRuleBodies == {[enabled |-> FALSE], [priority |-> 2]}

-----------------------------------------------------------------------------
(* What requests publish: one that retries and passes, with a candidate     *)
(* excluded; two that fail; one that a budget blocks.                       *)
Stage(type) == [eventType |-> type]

MCPassed ==
  << Stage("request.received"),
     [eventType |-> "governance.completed", source |-> "operator_rule"],
     Stage("budget.evaluated"),
     [eventType |-> "decision.committed", source |-> "operator_rule", candidate |-> "a"],
     [eventType |-> "candidate.evaluated", candidate |-> "a"],
     [eventType |-> "candidate.excluded", candidate |-> "b"],
     [eventType |-> "execution.started", attemptIndex |-> 0],
     [eventType |-> "execution.completed", attemptIndex |-> 0, errorClass |-> "timeout"],
     [eventType |-> "result.completed", errorClass |-> "none"],
     Stage("event.completed") >>

MCShort ==
  << Stage("request.received"),
     [eventType |-> "governance.completed", source |-> "autopilot"],
     [eventType |-> "result.failed", errorClass |-> "timeout"],
     Stage("event.completed") >>

MCBlocked == << Stage("request.received"), Stage("budget.evaluated") >>

MCScripts == { r1 :> MCPassed @@ r2 :> MCBlocked, r1 :> MCShort @@ r2 :> MCShort }

MCOwnerOf == r1 :> r1 @@ r2 :> r2

-----------------------------------------------------------------------------
(* Recorded requests to browse, two of them received at the same instant.   *)
MCRecords ==
  << [at |-> 1, client |-> "a"], [at |-> 1, client |-> "a"], [at |-> 2, client |-> "b"] >>

-----------------------------------------------------------------------------
(* Recorded requests to add up, in four buckets of two instants.            *)
MCObservation(at, p, m, cost, actual) ==
  [ receivedAt |-> at, providerId |-> p, modelId |-> m, clientId |-> "acme",
    inputTokens |-> 100 * cost, outputTokens |-> 10, costUsd |-> cost,
    actualCostUsd |-> actual ]

MCObserved ==
  << MCObservation(0, 1, 1, 2, 2), MCObservation(2, 1, 1, 2, Null),
     MCObservation(4, 2, 2, 9, 2000), MCObservation(5, 1, 1, 1, Null),
     MCObservation(6, 2, 1, 3, Null) >>

MCQuery(since, until, providerId, now) ==
  [since |-> since, until |-> until, providerId |-> providerId, now |-> now]

(* One ends before now, one filters a provider, two are refused.            *)
MCQueries ==
  { MCQuery(4, 6, Null, 6), MCQuery(5, 6, Null, 8), MCQuery(4, 6, 2, 8),
    MCQuery(2, 5, Null, 5), MCQuery(3, 3, Null, 3), MCQuery(0, 9, Null, 9) }

MCAnomalyConfig ==
  [ minHistory |-> 1, relThreshold |-> 50, criticalRelThreshold |-> 300,
    minAbsoluteUsd |-> 2 ]

MCInsightConfig ==
  [ minSpendUsd |-> 2, concentrationRatioThreshold |-> 500000,
    pricingComparisonMinDeltaUsd |-> 1, maxPricingAlternatives |-> 1,
    budgetPressureRatioThreshold |-> 800000 ]

MCEntry(p, m, unitIn, unitOut) ==
  [providerId |-> p, modelId |-> m, unitIn |-> unitIn, unitOut |-> unitOut]

MCCatalogModel(p, m, capabilities) ==
  [ providerId |-> p, modelId |-> m, capabilities |-> capabilities, contextWindow |-> 1000,
    p95Ms |-> 400, qualityTier |-> "standard", reliability |-> 900000 ]

MCCatalog ==
  {MCCatalogModel(1, 1, {}), MCCatalogModel(2, 2, {"json"}), MCCatalogModel(2, 3, {})}

MCPricingTable ==
  [ versionId |-> 1,
    entries |-> {MCEntry(1, 1, 60, 0), MCEntry(2, 2, 20, 0), MCEntry(2, 3, 10, 0)} ]

MCGlobalBudget(action, limit) ==
  [ budgetId |-> 1, scope |-> "global", clientId |-> NoClient, period |-> "daily",
    action |-> action, limitUsd |-> limit, enabled |-> TRUE ]

MCReportBudgets == {MCGlobalBudget("block", 10)}

MCMetricBudgets == {MCGlobalBudget("warn", 2)}

-----------------------------------------------------------------------------
(* An adapter of each kind and a second mock that fails first.              *)
MCKindOf == << "openai", "groq", "anthropic", "gemini", "mock", "mock" >>

MCModelFor == [p \in DOMAIN MCKindOf |-> [providerId |-> p, modelId |-> p]]

MCAdapterPrices ==
  [versionId |-> 1, entries |-> {MCEntry(p, p, 10 * p, 20) : p \in DOMAIN MCKindOf}]

MCFailFirst == 5 :> "none" @@ 6 :> "rate_limit"

MCUsages == {Null, [input |-> 90, output |-> 11]}

-----------------------------------------------------------------------------
(* Requests that are simulated and completed, one with a client override,   *)
(* both too long for the third model; proposals above, at and below the     *)
(* priority of the live rule, and one that is disabled.                     *)
MCRequest(tokens, capabilities, override) ==
  [ clientId |-> "acme", requiredCapabilities |-> capabilities,
    estimatedInputTokens |-> tokens, maxLatencyMs |-> Null, minQualityTier |-> Null,
    override |-> override ]

MCPin(p) == [providerId |-> p, modelId |-> Null]

MCRouted == {MCRequest(100, {}, Null), MCRequest(200, {"json"}, MCPin(2))}

MCProposal(priority, pin, minTokens) ==
  [ priority |-> priority, enabled |-> TRUE, clientIds |-> Null,
    requiredCapabilities |-> Null, minEstimatedTokens |-> minTokens,
    maxEstimatedTokens |-> Null, pin |-> MCPin(pin) ]

MCProposals ==
  { MCProposal(1, 2, Null), MCProposal(2, 2, 200), MCProposal(3, 1, Null),
    [MCProposal(1, 2, Null) EXCEPT !.enabled = FALSE] }

MCRuleSets == {{}, {("ruleId" :> 2) @@ MCProposal(2, 1, Null)}}

MCRoutedModels ==
  << MCCatalogModel(1, 1, {}), MCCatalogModel(2, 2, {"json"}),
     [MCCatalogModel(2, 3, {}) EXCEPT !.contextWindow = 50] >>

MCRoutedEntries ==
  1 :> {MCEntry(1, 1, 10, 0), MCEntry(2, 2, 30, 0), MCEntry(2, 3, 40, 0)}
  @@ 2 :> {MCEntry(1, 1, 30, 0), MCEntry(2, 2, 10, 0), MCEntry(2, 3, 10, 0)}

(* No budget, one that warns, and another that blocks the client.           *)
MCClientBudget ==
  [ budgetId |-> 2, scope |-> "client", clientId |-> "acme", period |-> "rolling_30d",
    action |-> "block", limitUsd |-> 4, enabled |-> TRUE ]

MCBudgetTables ==
  {{}, {MCGlobalBudget("warn", 3)}, {MCGlobalBudget("warn", 3), MCClientBudget}}

(* Spend of a day that is about to end; it stays in the thirty days.        *)
MCRoutedSpend == {[receivedAt |-> 9, clientId |-> "acme", costUsd |-> 1]}

(* What becomes of a recorded request, and when.                            *)
MCEndings ==
  { << "none" >>, << "auth" >>, << "timeout", "none" >>, << "timeout", "rate_limit" >> }

MCTiming(start, end) == [decided |-> start, ended |-> end, total |-> end + 1]

MCTimings == {MCTiming(0, 2), MCTiming(1, 1), MCTiming(50, 59)}

-----------------------------------------------------------------------------
(* Calls of the smoke test: with and without a provider, one that is in no  *)
(* catalog, and calls that are not complete.                                *)
MCCall(usage, retries, provider) ==
  [usage |-> usage, retries |-> retries, provider |-> provider]

MCSmokeArguments ==
  { MCCall("complete", 0, "groq"), MCCall("complete", 1, NoProvider),
    MCCall("complete", 1, "groq"), MCCall("complete", 0, "none such"),
    MCCall("complete", NotANumber, NoProvider), MCCall("complete", -1, NoProvider),
    MCCall("help", 1, NoProvider), MCCall("missing", 1, NoProvider) }

-----------------------------------------------------------------------------
(* The first pricing table is active at the start.                          *)
MCInit == Init /\ world.version = 1

MCSpec == MCInit /\ [][Next]_vars /\ Fairness

(* API keys alone.                                                          *)
MCKeysSpec == MCInit /\ Moves("keys") /\ [][Next]_vars /\ Fairness
=============================================================================
