------------------------------ MODULE Guardrail -----------------------------
(***************************************************************************)
(* Budgets: which apply to a request (persistence/src/budgets/store.ts),   *)
(* over which window their spend is summed up (core/src/budgets/window.ts, *)
(* persistence/src/budgets/spend.ts), the verdict of one and of all of     *)
(* them (core/src/budgets/evaluate.ts, aggregate.ts), and the status an    *)
(* operator is shown (core/src/budgets/status.ts).                         *)
(*                                                                         *)
(* Pure operators.  Money is in millionths of a dollar: NUMERIC(20,6) and  *)
(* the exact decimals of the code have no others.  An instant is a number, *)
(* a day DayLength of them.                                                *)
(***************************************************************************)
EXTENDS Integers, Sequences, FiniteSets, FiniteSetsExt, SequencesExt, TLC

CONSTANTS
  NoClient,     (* the client of a global budget                            *)
  DayLength     (* instants in a day                                        *)

Scope == {"global", "client"}
Period == {"daily", "rolling_30d"}
Action == {"block", "warn"}

(* budgetInputSchema: a limit above zero; only a client budget has a client.*)
IsBudget(b) ==
  /\ b.scope \in Scope /\ b.period \in Period /\ b.action \in Action
  /\ b.limitUsd \in Nat /\ b.limitUsd > 0
  /\ (b.scope = "global") = (b.clientId = NoClient)

(* applicable: the enabled global budgets and the client's own.             *)
Applicable(budgets, clientId) ==
  { b \in budgets :
      b.enabled /\ (b.scope = "global" \/ b.clientId = clientId) }

(* budgetWindow: the calendar day, or the last thirty; both end now.        *)
WindowStart(period, now) ==
  IF period = "daily" THEN (now \div DayLength) * DayLength ELSE now - 30 * DayLength

(* sumEstimatedSpend: both ends of the window belong to it.  An event is    *)
(* [receivedAt, clientId, costUsd].                                         *)
SpendOf(budget, events, now) ==
  LET counted == { e \in events :
        /\ e.receivedAt >= WindowStart(budget.period, now) /\ e.receivedAt <= now
        /\ budget.scope = "client" => e.clientId = budget.clientId }
  IN  MapThenSumSet(LAMBDA e : e.costUsd, counted)

(* spendForBudgets: budgets of one window, scope and client share a query.  *)
SpendGroup(budget) == << budget.period, budget.scope, budget.clientId >>

-----------------------------------------------------------------------------
(* evaluateBudget: reaching the limit is over budget.                       *)
EvaluateBudget(budget, spend, cost) ==
  LET projected == spend + cost
  IN  [ budgetId |-> budget.budgetId,
        decision |-> IF projected < budget.limitUsd THEN "allow"
                     ELSE IF budget.action = "block" THEN "block" ELSE "warn",
        projectedSpendUsd |-> projected,
        remainingUsd |-> budget.limitUsd - projected ]

DecisionRank(decision) ==
  CASE decision = "block" -> 0 [] decision = "warn" -> 1 [] decision = "allow" -> 2

(* The order of the evaluations: verdict, least headroom, id.               *)
ListedBefore(a, b) ==
  \/ DecisionRank(a.decision) < DecisionRank(b.decision)
  \/ /\ a.decision = b.decision
     /\ \/ a.remainingUsd < b.remainingUsd
        \/ a.remainingUsd = b.remainingUsd /\ a.budgetId < b.budgetId

Verdict(kinds) ==
  IF kinds = {} THEN "no_budget"
  ELSE IF "block" \in kinds THEN "blocked"
  ELSE IF "warn" \in kinds THEN "warned" ELSE "allowed"

(* evaluateBudgets: any block blocks, else any warning warns; spend maps    *)
(* budget ids to what was recorded in their windows.                        *)
EvaluateBudgets(budgets, spend, cost) ==
  LET evaluated == {EvaluateBudget(b, spend[b.budgetId], cost) : b \in budgets}
  IN  [ decision |-> Verdict({e.decision : e \in evaluated}),
        evaluations |-> SetToSortSeq(evaluated, ListedBefore),
        blockedBudgetIds |-> {e.budgetId : e \in {x \in evaluated : x.decision = "block"}} ]

-----------------------------------------------------------------------------
(* budgetStatus: recorded spend alone; utilisation in millionths.           *)
BudgetStatus(budget, spend) ==
  [ remainingUsd |-> budget.limitUsd - spend,
    utilization |-> (spend * 1000000 + budget.limitUsd \div 2) \div budget.limitUsd,
    status |-> IF spend < budget.limitUsd THEN "below_limit"
               ELSE IF spend = budget.limitUsd THEN "at_limit" ELSE "over_limit" ]
=============================================================================
