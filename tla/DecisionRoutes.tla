--------------------------- MODULE DecisionRoutes ---------------------------
(***************************************************************************)
(* The two routes that decide without executing: POST /v1/routing/simulate *)
(* (packages/api/src/routes/routing-simulate.ts), which resolves a request *)
(* with and without a proposed rule, and GET /v1/telemetry/replay/:eventId *)
(* (telemetry-replay.ts), which decides a recorded request again.  Between *)
(* their awaits rules are created, budgets are changed, spend is recorded, *)
(* the clock runs, pricing tables are activated and providers change their *)
(* health.  The routes share only that world: each has a next-state        *)
(* relation of its own.                                                    *)
(***************************************************************************)
EXTENDS Governance, Guardrail

CONSTANTS
  Routed,          (* the requests that are simulated and completed         *)
  Proposals,       (* proposed rules, without an id                         *)
  RuleSets,        (* the live rules at the start                           *)
  FreshIds,        (* ids a created rule may get                            *)
  RoutedModels,    (* sequence of the registered models                     *)
  RoutedEntries,   (* pricing version -> its entries                        *)
  BudgetTables,    (* what the table of budgets may hold                    *)
  RoutedSpend,     (* what other requests may have recorded, as events      *)
  RoutedNow,       (* the time at the start                                 *)
  MaxMoves         (* bound on the changes around the two routes            *)

(* SIMULATION_RULE_ID sorts before every id the store creates.              *)
SimulationRuleId == 0

(* A rule of the operator, as far as the routes of the rules accept it.     *)
IsRoutingRule(rule) ==
  /\ { "priority", "enabled", "clientIds", "requiredCapabilities", "minEstimatedTokens",
       "maxEstimatedTokens", "pin" } \subseteq DOMAIN rule
  /\ rule.priority \in Int /\ Given(rule.pin)

IsStored(rule) == IsRoutingRule(rule) /\ rule.ruleId \in Int /\ rule.ruleId > SimulationRuleId

(* A store's ids are unique.                                                *)
ASSUME DecisionAssumption ==
  /\ MaxMoves \in Nat /\ RoutedNow \in Nat
  /\ \A rules \in RuleSets :
       /\ IsFiniteSet(rules) /\ \A rule \in rules : IsStored(rule)
       /\ \A rule, other \in rules : rule.ruleId = other.ruleId => rule = other
  /\ \A proposal \in Proposals : IsRoutingRule(proposal)
  /\ \A id \in FreshIds : id \in Int /\ id > SimulationRuleId
  /\ \A table \in BudgetTables, b \in UNION BudgetTables :
       /\ IsBudget(b)
       /\ b \in table => \A c \in table : c.budgetId = b.budgetId => c = b

VARIABLES
  world,           (* [rules, version, healthy, budgets, spent, now]        *)
  simulation, event, replay, moves

decisionVars == << world, simulation, event, replay, moves >>

AllHealthy == {RoutedModels[i].providerId : i \in DOMAIN RoutedModels}

(* The two decisions, each of which is judged by the budgets.               *)
Sides == {"current", "proposed"}

(* An evaluateRequestBudgets: the budgets it loaded, the end of its windows,*)
(* the spend it has read so far, by budget id, and its verdict.             *)
NoEvaluation ==
  [step |-> "loading", applicable |-> {}, now |-> 0, spend |-> << >>, decision |-> Null]

NoSimulation ==
  [ stage |-> "idle", request |-> Null, proposal |-> Null, snapshot |-> Null,
    rules |-> {}, current |-> Null, proposed |-> Null,
    budget |-> [side \in Sides |-> NoEvaluation],
    moved |-> FALSE,    (* history: the evaluations could not read the same  *)
    created |-> Null ]  (* history: the rule it became                       *)

NoReplay == [stage |-> "idle", snapshot |-> Null, replayed |-> Null, matches |-> Null]

DecisionTypeOK ==
  /\ world.version \in DOMAIN RoutedEntries /\ world.healthy \subseteq AllHealthy
  /\ world.budgets \in BudgetTables /\ world.spent \subseteq RoutedSpend
  /\ moves \in 0..MaxMoves /\ world.now \in RoutedNow..(RoutedNow + moves)
  /\ simulation.stage \in {"idle", "catalog", "rules", "budgets", "answered", "refused"}
  /\ replay.stage \in {"idle", "reading", "answered", "failed"}
  /\ \A rule \in world.rules, other \in world.rules :
       rule.ruleId = other.ruleId => rule = other

InitialWorlds ==
  [ rules : RuleSets, version : DOMAIN RoutedEntries, healthy : {AllHealthy},
    budgets : BudgetTables, spent : {{}}, now : {RoutedNow} ]

DecisionInit ==
  /\ world \in InitialWorlds
  /\ simulation = NoSimulation /\ event = Null /\ replay = NoReplay /\ moves = 0

CatalogNow ==
  LET table == [versionId |-> world.version, entries |-> RoutedEntries[world.version]]
  IN  [models |-> BuildCatalog(RoutedModels, table, world.healthy), pricingTable |-> table]

-----------------------------------------------------------------------------
(* POST /v1/routing/simulate.                                               *)
Simulate(request, proposal) ==
  /\ simulation.stage = "idle"
  /\ simulation' = [NoSimulation EXCEPT !.stage = "catalog", !.request = request,
                                        !.proposal = proposal]
  /\ UNCHANGED << world, event, replay, moves >>

(* The catalog; a proposed target outside it is a 422.                      *)
SimulationCatalog ==
  /\ simulation.stage = "catalog"
  /\ simulation' = [simulation EXCEPT !.snapshot = CatalogNow,
       !.stage = IF Given(PinTarget(simulation.proposal.pin, CatalogNow))
                   THEN "rules" ELSE "refused"]
  /\ UNCHANGED << world, event, replay, moves >>

(* A rule of what was proposed, under an id.                                *)
Identified(id, proposal) ==
  [n \in DOMAIN proposal \union {"ruleId"} |-> IF n = "ruleId" THEN id ELSE proposal[n]]

ProposedRule == Identified(SimulationRuleId, simulation.proposal)

(* Faulty variant: the proposal is resolved in place of the live rules.     *)
Simulated_Alone(rules) == {ProposedRule}

(* The rules of the proposed case.                                          *)
Simulated(rules) == rules \union {ProposedRule}

(* The live rules; both decisions on the one snapshot.  An error of either  *)
(* is the answer.                                                           *)
SimulationRules ==
  LET s == simulation
      current == ResolveRoutingDecision(s.request, world.rules, s.snapshot)
      proposed == ResolveRoutingDecision(s.request, Simulated(world.rules), s.snapshot)
  IN  /\ s.stage = "rules"
      /\ simulation' = [s EXCEPT !.rules = world.rules, !.current = current,
           !.proposed = proposed,
           !.stage = IF IsDecision(current) /\ IsDecision(proposed)
                       THEN "budgets" ELSE "refused"]
      /\ UNCHANGED << world, event, replay, moves >>

(* Two evaluations side by side.  One that knows the spend of its budgets,  *)
(* or has none, gives its verdict; the later one brings the answer.         *)
Evaluate(side, evaluation) ==
  LET e == evaluation
      verdict == EvaluateBudgets(e.applicable, e.spend, simulation[side].estimatedCostUsd)
      judged == IF \A b \in e.applicable : b.budgetId \in DOMAIN e.spend
                  THEN [e EXCEPT !.step = "judged", !.decision = verdict.decision] ELSE e
      budget == [simulation.budget EXCEPT ![side] = judged]
  IN  /\ simulation' = [simulation EXCEPT !.budget = budget,
           !.stage = IF \A x \in Sides : budget[x].step = "judged" THEN "answered" ELSE @]
      /\ UNCHANGED << world, event, replay, moves >>

At(side, step) ==
  simulation.stage = "budgets" /\ simulation.budget[side].step = step

(* Each loads the budgets of the client for itself ...                      *)
LoadBudgets(side) ==
  LET applicable == Applicable(world.budgets, simulation.request.clientId)
  IN  /\ At(side, "loading")
      /\ Evaluate(side, [NoEvaluation EXCEPT !.step = "loaded", !.applicable = applicable])

(* ... and takes the time, at which all its windows end ...                 *)
StartSpend(side) ==
  /\ At(side, "loaded")
  /\ simulation' = [simulation EXCEPT !.budget[side].step = "reading",
                                      !.budget[side].now = world.now]
  /\ UNCHANGED << world, event, replay, moves >>

(* ... for one query after the other, one for each group of budgets, the    *)
(* global ones first.                                                       *)
ReadSpend(side) ==
  LET e == simulation.budget[side]
      unread == {b \in e.applicable : b.budgetId \notin DOMAIN e.spend}
  IN  /\ At(side, "reading")
      /\ \E b \in unread :
           /\ (\E c \in unread : c.scope = "global") => b.scope = "global"
           /\ LET group == {c \in unread : SpendGroup(c) = SpendGroup(b)}
                  spend == [ id \in DOMAIN e.spend \union {c.budgetId : c \in group} |->
                               IF id \in DOMAIN e.spend THEN e.spend[id]
                               ELSE SpendOf(b, world.spent, e.now) ]
              IN  Evaluate(side, [e EXCEPT !.spend = spend])

(* What the answer says of the proposal.                                    *)
MatchesRequest == MatchesRule(ProposedRule, simulation.request)

ProposedResolution == ResolveOverride(simulation.request, Simulated(simulation.rules))

Effective ==
  /\ ProposedResolution.effectiveSource = "operator_rule"
  /\ ProposedResolution.matchedRuleId = SimulationRuleId

ShadowedByRuleId ==
  IF MatchesRequest /\ ~Effective /\ ProposedResolution.effectiveSource = "operator_rule"
    THEN ProposedResolution.matchedRuleId ELSE Null

ChosenOf(decision) == << decision.chosenProviderId, decision.chosenModelId >>

DecisionChanged == ChosenOf(simulation.current) # ChosenOf(simulation.proposed)

EstimatedCostDelta ==
  simulation.proposed.estimatedCostUsd - simulation.current.estimatedCostUsd

BudgetOutcomeChanged ==
  simulation.budget.current.decision # simulation.budget.proposed.decision

-----------------------------------------------------------------------------
(* GET /v1/telemetry/replay/:eventId.                                       *)

(* A completion that was recorded, with what its provider counted; nothing  *)
(* of its requirements or override is.                                      *)
RecordCompletion(request, counted) ==
  LET outcome == ResolveRoutingDecision(request, world.rules, CatalogNow)
  IN  /\ event = Null /\ IsDecision(outcome)
      /\ event' = [ decision |-> outcome, aggregatedInputTokens |-> counted,
                    clientId |-> request.clientId,
                    catalog |-> CatalogNow, request |-> request ]    (* history *)
      /\ UNCHANGED << world, simulation, replay, moves >>

(* The event, then the catalog.                                             *)
ReplayReads ==
  /\ Given(event) /\ replay.stage = "idle"
  /\ replay' = [NoReplay EXCEPT !.stage = "reading", !.snapshot = CatalogNow]
  /\ UNCHANGED << world, simulation, event, moves >>

(* When the recorded version is not the active one the active table is read *)
(* again, and serves if it has become the recorded one.                     *)
ReplayTable ==
  LET historical == CatalogNow.pricingTable
  IN  IF /\ event.decision.pricingTableVersionId # replay.snapshot.pricingTable.versionId
         /\ historical.versionId = event.decision.pricingTableVersionId
        THEN historical ELSE replay.snapshot.pricingTable

(* The request the replay rebuilds: the counted tokens, no requirements.    *)
Rebuilt ==
  [ clientId |-> event.clientId, requiredCapabilities |-> {}, maxLatencyMs |-> Null,
    minQualityTier |-> Null, override |-> Null,
    estimatedInputTokens |-> event.aggregatedInputTokens ]

(* A governed decision replays as itself; an autopilot's is scored again.   *)
(* The scorer throws for a model the late table has no price for, or when   *)
(* no model is left: there is no decision then, only its message.           *)
ReplayedDecision ==
  LET models == replay.snapshot.models
      priced == \A i \in DOMAIN models : Prices(ReplayTable, models[i]) # {}
  IN  IF event.decision.decisionSource # "autopilot" THEN event.decision
      ELSE IF priced THEN DecideRoute(Rebuilt, models, ReplayTable)
      ELSE Failure("unpriced_model")

ReplayAnswers ==
  /\ replay.stage = "reading"
  /\ LET replayed == ReplayedDecision
     IN  replay' = [replay EXCEPT !.stage = "answered", !.replayed = replayed,
           !.matches = IsDecision(replayed) /\ ChosenOf(replayed) = ChosenOf(event.decision)]
  /\ UNCHANGED << world, simulation, event, moves >>

-----------------------------------------------------------------------------
Move == moves < MaxMoves /\ moves' = moves + 1

(* The proposal becomes a rule, under an id of the store's.                 *)
CreateProposal ==
  /\ Move /\ simulation.stage = "answered" /\ ~Given(simulation.created)
  /\ \E id \in FreshIds \ {rule.ruleId : rule \in world.rules} :
       LET rule == Identified(id, simulation.proposal)
       IN  /\ world' = [world EXCEPT !.rules = @ \union {rule}]
           /\ simulation' = [simulation EXCEPT !.created = rule]
  /\ UNCHANGED << event, replay >>

(* How far an evaluation has come.                                          *)
HasLoaded(e) == e.step # "loading"
HasTime(e) == e.step = "reading" \/ (e.step = "judged" /\ e.applicable # {})

(* A budget is created, patched or deleted, as the store gets to know.      *)
BudgetChanges ==
  /\ Move
  /\ \E table \in BudgetTables \ {world.budgets} :
       /\ LET changed == (table \ world.budgets) \union (world.budgets \ table)
          IN  \A b \in changed, c \in changed : b.budgetId = c.budgetId
       /\ world' = [world EXCEPT !.budgets = table]
  /\ simulation' = [simulation EXCEPT !.moved =
       @ \/ HasLoaded(simulation.budget.current) # HasLoaded(simulation.budget.proposed)]
  /\ UNCHANGED << event, replay >>

(* Another request that was received by now is recorded.                    *)
SpendRecorded ==
  /\ Move
  /\ \E e \in RoutedSpend \ world.spent :
       e.receivedAt <= world.now /\ world' = [world EXCEPT !.spent = @ \union {e}]
  /\ LET reading == /\ simulation.stage = "budgets"
                    /\ \E side \in Sides : DOMAIN simulation.budget[side].spend # {}
     IN  simulation' = [simulation EXCEPT !.moved = @ \/ reading]
  /\ UNCHANGED << event, replay >>

(* Time passes, and with it what was spent leaves its window.               *)
ClockTicks ==
  /\ Move
  /\ world' = [world EXCEPT !.now = @ + 1]
  /\ simulation' = [simulation EXCEPT !.moved =
       @ \/ HasTime(simulation.budget.current) # HasTime(simulation.budget.proposed)]
  /\ UNCHANGED << event, replay >>

PricingSwitches ==
  /\ Move
  /\ \E v \in DOMAIN RoutedEntries : world' = [world EXCEPT !.version = v]
  /\ UNCHANGED << simulation, event, replay >>

ProviderHealth ==
  /\ Move
  /\ \E healthy \in SUBSET AllHealthy : world' = [world EXCEPT !.healthy = healthy]
  /\ UNCHANGED << simulation, event, replay >>

WorldMoves == PricingSwitches \/ ProviderHealth

SimulationNext ==
  \/ \E request \in Routed, proposal \in Proposals : Simulate(request, proposal)
  \/ SimulationCatalog \/ SimulationRules
  \/ \E side \in Sides : LoadBudgets(side) \/ StartSpend(side) \/ ReadSpend(side)
  \/ CreateProposal \/ BudgetChanges \/ SpendRecorded \/ ClockTicks \/ WorldMoves

ReplayNext ==
  \/ \E request \in Routed, counted \in {r.estimatedInputTokens : r \in Routed} :
       RecordCompletion(request, counted)
  \/ ReplayReads \/ ReplayAnswers \/ WorldMoves

-----------------------------------------------------------------------------
(* A simulation tells what the rule would do.  A proposal that is effective *)
(* matches and sends the request to the target of its pin; one that does    *)
(* not match changes nothing; one that matches without effect is shadowed   *)
(* by a live rule that governs the request already.  The budget outcome     *)
(* changes only with the cost, unless the two evaluations could not read    *)
(* the same: a budget was changed between their loads, time passed between  *)
(* the ends of their windows or a request was recorded during their reads.  *)
(* And once the rule exists, on the same rules and catalog, the request is  *)
(* decided as proposed -- except at a tie of priorities, which the simulated*)
(* id wins and a created one may lose.                                      *)
SimulationForetells ==
  simulation.stage = "answered" =>
    LET s == simulation
        shadow == ShadowedByRuleId
    IN  /\ Effective =>
             /\ MatchesRequest
             /\ LET target == PinTarget(s.proposal.pin, s.snapshot)
                IN  ChosenOf(s.proposed) = << target.providerId, target.modelId >>
        /\ MatchesRequest /\ ~Effective =>
             /\ \E rule \in s.rules :
                  rule.ruleId = shadow /\ rule.priority < s.proposal.priority
             /\ ResolveOverride(s.request, s.rules).matchedRuleId = shadow
        /\ ~Effective => s.proposed = s.current
        /\ BudgetOutcomeChanged =>
             s.proposed.estimatedCostUsd # s.current.estimatedCostUsd \/ s.moved
        /\ /\ Given(s.created)
           /\ \A rule \in s.rules : rule.priority # s.proposal.priority
           => ChosenOf(ResolveRoutingDecision(
                s.request, s.rules \union {s.created}, s.snapshot))
                = ChosenOf(s.proposed)

Severity(verdict) ==
  CHOOSE n \in 1..4 : << "no_budget", "allowed", "warned", "blocked" >>[n] = verdict

(* Of two decisions the budgets never judge the dearer one more mildly,     *)
(* unless the two evaluations could not read the same.                      *)
VerdictsFollowCosts ==
  simulation.stage = "answered" /\ ~simulation.moved =>
    \A a, b \in Sides :
      simulation[a].estimatedCostUsd <= simulation[b].estimatedCostUsd =>
        Severity(simulation.budget[a].decision) <= Severity(simulation.budget[b].decision)

(* A replay that finds the catalog and the prices of the recorded decision  *)
(* agrees with it, if the request it rebuilds is the one that was decided:  *)
(* one that required nothing, with the tokens that were counted.            *)
ReplayReproduces ==
  /\ replay.stage = "answered"
  /\ replay.snapshot = event.catalog
  /\ Rebuilt = [event.request EXCEPT !.override = Null]
  => replay.matches
=============================================================================
