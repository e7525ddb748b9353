----------------------------- MODULE MCAdmission ----------------------------
(***************************************************************************)
(* A small instance of Admission for TLC: two clients' requests of 100     *)
(* input tokens, two models of two providers, two pricing tables in which  *)
(* the cheaper model changes, one rule that pins the first, a blocking     *)
(* global budget of the day and a warning one of a client over 30 days,    *)
(* and the turn of a day.                                                  *)
(***************************************************************************)
EXTENDS Admission

CONSTANTS r1, r2, p1, p2, w1

MCRequest(clientId) ==
  [ clientId |-> clientId, requiredCapabilities |-> {}, estimatedInputTokens |-> 100,
    maxLatencyMs |-> Null, minQualityTier |-> Null, override |-> Null ]

MCRequestOf == r1 :> MCRequest("acme") @@ r2 :> MCRequest("zeta")

MCModel(provider, model) ==
  [ providerId |-> provider, modelId |-> model, capabilities |-> {},
    contextWindow |-> 1000, p95Ms |-> 400, qualityTier |-> "standard",
    reliability |-> 900000 ]

MCModels == << MCModel(1, 1), MCModel(2, 2) >>

MCPrice(provider, model, unitIn) ==
  [providerId |-> provider, modelId |-> model, unitIn |-> unitIn, unitOut |-> 0]

(* 100 tokens at 20 (or 60) thousandths: 2 or 6 millionths of a dollar.     *)
MCEntriesOf ==
  1 :> {MCPrice(1, 1, 20), MCPrice(2, 2, 60)}
  @@ 2 :> {MCPrice(1, 1, 60), MCPrice(2, 2, 20)}

MCRule ==
  [ ruleId |-> 1, priority |-> 1, enabled |-> TRUE, clientIds |-> Null,
    requiredCapabilities |-> Null, minEstimatedTokens |-> Null,
    maxEstimatedTokens |-> Null, pin |-> [providerId |-> 1, modelId |-> Null] ]

MCRuleTables == {{}, {MCRule}}

MCBudget(id, scope, clientId, period, action, limit) ==
  [ budgetId |-> id, scope |-> scope, clientId |-> clientId, period |-> period,
    action |-> action, limitUsd |-> limit, enabled |-> TRUE ]

MCBudgetTables ==
  {{}, { MCBudget(1, "global", NoClient, "daily", "block", 6),
         MCBudget(2, "client", "acme", "rolling_30d", "warn", 3) }}

MCCharges == {2, 6}

(* Budgets and the first pricing table are there from the start, the rule   *)
(* is not; the one change creates it, removes the budgets or goes elsewhere.*)
MCInit ==
  Init /\ ruleTable = {} /\ budgetTable # {} /\ activeVersion = 1

MCSymmetry == Permutations({p1, p2})

MCSpec == MCInit /\ [][Next]_vars
=============================================================================
