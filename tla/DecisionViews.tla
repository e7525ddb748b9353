---------------------------- MODULE DecisionViews ---------------------------
(***************************************************************************)
(* How the console shows a recorded request: who won, by which factors, in *)
(* which order it went and which model ran in the end (web/src/features/   *)
(* decision-graph, routing-explorer/RequestDetailView.tsx).  And what its  *)
(* pages conclude: what was saved (playground), whether a replay drifted   *)
(* (replay) and what a proposed rule would change (preview).               *)
(*                                                                         *)
(* Each of these is worked out by a function of its own, so that two panels*)
(* of one page can tell different stories: the playground compares the     *)
(* costs of the ranking, the replay page trusts "matches" but looks at the *)
(* source itself, the simulation page turns flags and a signed decimal into*)
(* words.  The decisions and answers are those of DecisionRoutes; what     *)
(* became of one is a sequence of error classes, as the fallback executor  *)
(* leaves it.                                                              *)
(***************************************************************************)
EXTENDS DecisionRoutes

CONSTANTS
  Endings,        (* the error classes of the attempts, one or two          *)
  Timings         (* [decided, ended, total]: offsets, in ms                *)

ASSUME DecisionViewsAssumption ==
  \A errors \in Endings :
    /\ Len(errors) \in 1..2
    /\ Len(errors) = 2 => errors[1] # "none"

-----------------------------------------------------------------------------
(* The record.                                                              *)
IncludedOf(ranking) == SelectSeq(ranking, LAMBDA c : c.included)
ExcludedOf(ranking) == SelectSeq(ranking, LAMBDA c : ~c.included)

(* A governed decision has no fallback, and no autopilot's without a second *)
(* candidate.                                                               *)
CanEnd(decision, errors) ==
  \/ Len(errors) = 1
  \/ decision.decisionSource = "autopilot" /\ Len(IncludedOf(decision.ranking)) >= 2

(* The attempts in the order of the ranking; the effective candidate is the *)
(* one that succeeded, or the first one.                                    *)
RecordOf(decision, errors) ==
  LET candidates == IncludedOf(decision.ranking)
      attempt(i) == [ providerId |-> candidates[i].providerId,
                      modelId |-> candidates[i].modelId, errorClass |-> errors[i] ]
      terminal == errors[Len(errors)]
  IN  [ decision |-> decision,
        attempts |-> [i \in DOMAIN errors |-> attempt(i)],
        effective |-> IF terminal = "none" THEN attempt(Len(errors)) ELSE attempt(1),
        terminalErrorClass |->
          IF Len(errors) = 2 /\ terminal # "none" THEN "terminal_fallback_exhausted"
                                                  ELSE terminal ]

IsEffective(record, c) ==
  c.providerId = record.effective.providerId /\ c.modelId = record.effective.modelId

(* A pinned candidate has no total in its breakdown: the panels show 0.     *)
Total(record, c) == IF record.decision.decisionSource = "autopilot" THEN c.total ELSE 0

-----------------------------------------------------------------------------
(* buildCandidateViews: the winner, one other that was included, and all    *)
(* that were excluded.                                                      *)
View(c, kind) == [providerId |-> c.providerId, modelId |-> c.modelId, kind |-> kind]

BuildCandidateViews(record) ==
  LET included == IncludedOf(record.decision.ranking)
      excluded == ExcludedOf(record.decision.ranking)
      ahead(i, j) == \/ Total(record, included[i]) > Total(record, included[j])
                     \/ Total(record, included[i]) = Total(record, included[j]) /\ i < j
      ranked == [i \in DOMAIN included |-> included[SetToSortSeq(DOMAIN included, ahead)[i]]]
      ran == SelectSeq(ranked, LAMBDA c : IsEffective(record, c))
      winner == IF ran # << >> THEN ran[1] ELSE ranked[1]
      others == SelectSeq(ranked, LAMBDA c : c # winner)
  IN  << View(winner, "winner") >>
        \o (IF others # << >> THEN << View(others[1], "runnerUp") >> ELSE << >>)
        \o [i \in DOMAIN excluded |-> View(excluded[i], "excluded")]

(* buildFactorRows: the winner's factors under the page's own weights.      *)
FactorWeights ==
  [cost |-> 70, latency |-> 10, quality |-> 5, reliability |-> 10, capability |-> 5]

BuildFactorRows(record, scores) ==
  [ key \in DOMAIN FactorWeights |->
      FactorWeights[key]
        * (IF record.decision.decisionSource = "autopilot" THEN scores[key] ELSE 0) ]

(* buildTimelineFromEvent: the stages of the first attempt, those before it *)
(* at fixed parts of the time until it started.                             *)
BuildTimelineFromEvent(record, t) ==
  LET row(stage, offset, of) == [stage |-> stage, offsetMs |-> offset, of |-> of]
      part(hundredths) == (hundredths * t.decided + 50) \div 100
      ranking == record.decision.ranking
      included == IncludedOf(ranking)
      excluded == ExcludedOf(ranking)
      attempt == record.attempts[1]
  IN  << row("request", 0, Null), row("governance", part(28), record.decision.decisionSource),
         row("evaluate", part(44), Len(ranking)),
         row("evaluate", part(70), included[1].modelId) >>
      \o (IF Len(included) > 1 THEN << row("evaluate", part(80), included[2].modelId) >>
                               ELSE << >>)
      \o (IF excluded # << >> THEN << row("evaluate", part(90), excluded[1].modelId) >>
                              ELSE << >>)
      \o << row("decide", t.decided, record.effective.modelId),
            row("execute", t.decided + 2, attempt.modelId),
            row("execute", t.ended, attempt.modelId),
            row("result", t.total, record.terminalErrorClass) >>

-----------------------------------------------------------------------------
(* The last successful attempt, or the last one.                            *)
ExecutedAttempt(record) ==
  LET succeeded == SelectSeq(record.attempts, LAMBDA a : a.errorClass = "none")
  IN  IF succeeded # << >> THEN succeeded[Len(succeeded)]
      ELSE record.attempts[Len(record.attempts)]

(* RequestDetailBody: what the router selected and what was executed.       *)
RequestDetail(record) ==
  LET executed == ExecutedAttempt(record).modelId
      selected == record.decision.chosenModelId
  IN  [ selectedModelId |-> selected, executedModelId |-> executed,
        afterFallback |-> Len(record.attempts) > 1 /\ executed # selected,
        ok |-> record.terminalErrorClass = "none",
        connectors |-> [i \in 1..(Len(record.attempts) - 1) |-> record.attempts[i].errorClass] ]

(* DecisionGraphPanel, without a live request: the branches by model, the   *)
(* winner's one and what the router is said to have selected.               *)
DecisionGraph(record) ==
  LET views == BuildCandidateViews(record)
      ordered == SortSeq(views, LAMBDA a, b : a.modelId < b.modelId)
      winners == {i \in DOMAIN ordered : ordered[i].kind = "winner"}
      winnerIdx == CHOOSE i \in winners : \A j \in winners : i <= j
      executed == ExecutedAttempt(record).modelId
  IN  [ branches |-> ordered, winnerIdx |-> winnerIdx,
        rejected |-> DOMAIN ordered \ {winnerIdx},
        executedModelId |-> executed,
        afterFallback |-> Len(record.attempts) > 1 /\ executed # ordered[winnerIdx].modelId,
        ok |-> record.terminalErrorClass = "none" ]

-----------------------------------------------------------------------------
(* The factors the decision recorded for the candidate that won.            *)
RecordedFactors(record) ==
  LET models == event.catalog.models
      eligible == {m \in {models[i] : i \in DOMAIN models} : Included(event.request, m)}
      costs == {RequestCost(event.request, event.catalog.pricingTable, m) : m \in eligible}
      winner == CHOOSE m \in eligible : IsEffective(record, m)
  IN  Breakdown(event.request, event.catalog.pricingTable, winner, Min(costs), Max(costs))

(* Whatever became of a decision, its views agree.  There is one winner, it *)
(* is the candidate that ran if any did, every excluded candidate is there  *)
(* and none twice; the factors shown add up to the total the autopilot      *)
(* ranked it by; the page names one executed model throughout, the effective*)
(* one when the request succeeded; a fallback that succeeded is named after *)
(* its trigger; and the timeline runs from the request to the result, in    *)
(* order as far as the first attempt took the two milliseconds it adds.     *)
RecordIsShown ==
  Given(event) =>
    \A errors \in {e \in Endings : CanEnd(event.decision, e)} :
      LET record == RecordOf(event.decision, errors)
          views == BuildCandidateViews(record)
          detail == RequestDetail(record)
          graph == DecisionGraph(record)
          winner == CHOOSE c \in {event.decision.ranking[i] : i \in DOMAIN event.decision.ranking} :
                      IsEffective(record, c)
          factors == BuildFactorRows(record, RecordedFactors(record))
      IN  /\ {i \in DOMAIN views : views[i].kind = "winner"} = {1}
          /\ IsEffective(record, views[1])
          /\ \A i, j \in DOMAIN views :
               [views[i] EXCEPT !.kind = ""] = [views[j] EXCEPT !.kind = ""] => i = j
          /\ \A i \in DOMAIN ExcludedOf(event.decision.ranking) :
               View(ExcludedOf(event.decision.ranking)[i], "excluded")
                 \in {views[j] : j \in DOMAIN views}
          /\ MapThenSumSet(LAMBDA key : factors[key], DOMAIN factors) = Total(record, winner)
          /\ detail.executedModelId = graph.executedModelId /\ detail.ok = graph.ok
          /\ detail.ok => detail.executedModelId = record.effective.modelId
          /\ (/\ detail.ok /\ Len(errors) = 2
              /\ record.attempts[1].modelId # record.attempts[2].modelId) =>
               detail.afterFallback /\ detail.connectors = << errors[1] >>
          /\ graph.branches[graph.winnerIdx].modelId = record.effective.modelId
          /\ \A t \in Timings :
               LET rows == BuildTimelineFromEvent(record, t)
               IN  /\ rows[1].stage = "request" /\ rows[Len(rows)].stage = "result"
                   /\ t.ended >= t.decided + 2 =>
                        \A i \in 1..(Len(rows) - 1) : rows[i].offsetMs <= rows[i + 1].offsetMs

-----------------------------------------------------------------------------
(* computeSavings: the chosen candidate against the dearest that was viable;*)
(* the ratio in millionths.                                                 *)
ComputeSavings(decision) ==
  LET priced == SelectSeq(decision.ranking,
                          LAMBDA c : c.included /\ Given(c.estimatedCostUsd))
      chosenCost == decision.estimatedCostUsd
      baseline == Max({priced[i].estimatedCostUsd : i \in DOMAIN priced})
      dearest == SelectSeq(priced, LAMBDA c : c.estimatedCostUsd = baseline)
      saved == Max({0, baseline - chosenCost})
  IN  IF Len(priced) < 2
        THEN [ chosenCostUsd |-> chosenCost, baselineCostUsd |-> chosenCost,
               savingsUsd |-> 0, ratio |-> 0, baseline |-> Null, comparable |-> FALSE ]
        ELSE [ chosenCostUsd |-> chosenCost, baselineCostUsd |-> baseline,
               savingsUsd |-> saved,
               ratio |-> IF baseline > 0 THEN (saved * One) \div baseline ELSE 0,
               baseline |-> << dearest[1].providerId, dearest[1].modelId >>,
               comparable |-> TRUE ]

(* The candidates of ResultPanel; the chosen one is the one that answered.  *)
CandidateRows(record) ==
  LET status(c) == IF IsEffective(record, c) THEN "chosen"
                   ELSE IF c.included THEN "viable" ELSE "excluded"
  IN  [ i \in DOMAIN record.decision.ranking |->
          LET c == record.decision.ranking[i]
          IN  [ route |-> << c.providerId, c.modelId >>,
                costUsd |-> c.estimatedCostUsd, status |-> status(c) ] ]

(* deriveReplayComparison and the banner above it.                          *)
DeriveReplayComparison(recorded, replayed, matches) ==
  [ kind |-> IF ~IsDecision(replayed) THEN "error"
             ELSE IF recorded.decisionSource \in {"operator_rule", "client_override"}
                    THEN "passthrough" ELSE "scored",
    drift |-> IsDecision(replayed) /\ ~matches ]

StatusBanner(comparison) ==
  CASE comparison.kind = "error" -> "replay error"
    [] comparison.kind = "passthrough" -> "deterministic passthrough"
    [] comparison.kind = "scored" -> IF comparison.drift THEN "drift" ELSE "match"

(* proposalSummary and presentSimulation.                                   *)
ProposalSummary ==
  IF ~MatchesRequest THEN "does not match"
  ELSE IF Effective THEN "governs"
  ELSE IF Given(ShadowedByRuleId) THEN "is shadowed" ELSE "matches"

(* Faulty variant: no difference counts as a saving.                        *)
DeltaSign_ZeroIsDown(delta) == IF delta <= 0 THEN "down" ELSE "up"

DeltaSign(delta) == IF delta < 0 THEN "down" ELSE IF delta = 0 THEN "none" ELSE "up"

Side(decision, budget) ==
  [ route |-> ChosenOf(decision), source |-> decision.decisionSource,
    costUsd |-> decision.estimatedCostUsd, budgetDecision |-> budget ]

PresentSimulation ==
  LET s == simulation
  IN  [ current |-> Side(s.current, s.budget.current.decision),
        proposed |-> Side(s.proposed, s.budget.proposed.decision),
        decisionChanged |-> DecisionChanged,
        costDelta |-> << DeltaSign(EstimatedCostDelta),
                         Max({EstimatedCostDelta, -EstimatedCostDelta}) >>,
        budgetOutcomeChanged |-> BudgetOutcomeChanged,
        proposalSummary |-> ProposalSummary ]

-----------------------------------------------------------------------------
(* What was saved is a saving on the rows the page lists beside it: the     *)
(* baseline is the dearest that is not excluded, and the savings make up the*)
(* difference.  Nothing is saved only where nothing could be: one row alone *)
(* is viable or all cost the same, since the weight of the cost outweighs   *)
(* all other factors of the dearest.  One row is the chosen one, at the cost*)
(* the savings were worked out from -- unless the request fell back: then   *)
(* another candidate ran than the savings are told of, which is the chosen  *)
(* one of the decision.                                                     *)
SavingsAreReal(record) ==
  LET savings == ComputeSavings(record.decision)
      rows == CandidateRows(record)
      chosen == {i \in DOMAIN rows : rows[i].status = "chosen"}
      usable == {i \in DOMAIN rows : rows[i].status # "excluded"}
  IN  /\ Cardinality(chosen) = 1
      /\ savings.savingsUsd = savings.baselineCostUsd - savings.chosenCostUsd
      /\ savings.ratio \in 0..One
      /\ savings.comparable =>
           /\ \A i \in usable : rows[i].costUsd <= savings.baselineCostUsd
           /\ \E i \in usable :
                /\ rows[i].route = savings.baseline
                /\ rows[i].costUsd = savings.baselineCostUsd
      /\ savings.savingsUsd = 0 => Cardinality({rows[i].costUsd : i \in usable}) = 1
      /\ savings.comparable = (Cardinality(usable) > 1)
      /\ \A i \in chosen :
           rows[i].costUsd # savings.chosenCostUsd =>
             /\ Len(record.attempts) = 2
             /\ rows[i].route # ChosenOf(record.decision)

(* The playground shows a completion that answered.                         *)
PlaygroundIsTrue ==
  Given(event) =>
    \A errors \in {e \in Endings : CanEnd(event.decision, e) /\ e[Len(e)] = "none"} :
      SavingsAreReal(RecordOf(event.decision, errors))

(* The replay page says "match" or "drift" of two routes that are the same  *)
(* or differ, and names an error when there is no second one to show; what  *)
(* it calls a passthrough is the recorded decision itself, and every        *)
(* governed decision replays as one.                                        *)
ReplayPageIsTrue ==
  replay.stage = "answered" =>
    LET comparison == DeriveReplayComparison(event.decision, replay.replayed, replay.matches)
        banner == StatusBanner(comparison)
    IN  /\ (banner = "replay error") = ~IsDecision(replay.replayed)
        /\ IsDecision(replay.replayed) =>
             ((banner = "drift") = (ChosenOf(replay.replayed) # ChosenOf(event.decision)))
        /\ banner = "deterministic passthrough" => replay.replayed = event.decision
        /\ event.decision.decisionSource # "autopilot" => banner = "deterministic passthrough"

(* The simulation page's words fit its two cards.  A rule that is said to   *)
(* govern is the source of the proposed card, and its sentence always tells *)
(* what becomes of a rule that matches; the sign and the amount lead from   *)
(* the one cost to the other; without a change of the route there is none   *)
(* of the cost, and the proposed card differs from the current one only if a*)
(* change is marked.                                                        *)
SimulationPageIsTrue ==
  simulation.stage = "answered" =>
    LET view == PresentSimulation
        signed == CASE view.costDelta[1] = "down" -> -view.costDelta[2]
                    [] view.costDelta[1] = "none" -> 0
                    [] view.costDelta[1] = "up" -> view.costDelta[2]
    IN  /\ view.proposalSummary # "matches"
        /\ view.proposalSummary = "governs" => view.proposed.source = "operator_rule"
        /\ view.proposalSummary = "is shadowed" =>
             view.current.source = "operator_rule" /\ ~view.decisionChanged
        /\ view.current.costUsd + signed = view.proposed.costUsd
        /\ ~view.decisionChanged =>
             view.costDelta[1] = "none" /\ view.current.route = view.proposed.route
        /\ view.current.budgetDecision # view.proposed.budgetDecision
             => view.budgetOutcomeChanged
=============================================================================
