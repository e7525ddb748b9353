----------------------------- MODULE ConfigRoutes ---------------------------
(***************************************************************************)
(* The operator routes that change one row: POST, PATCH and DELETE of a    *)
(* budget (api/src/routes/budgets.ts) and of a rule (routes/rules.ts) with *)
(* the statements they run (persistence/src/budgets/store.ts,              *)
(* overrides/store.ts).                                                    *)
(*                                                                         *)
(* PATCH of a budget reads the row, merges the body into it, validates the *)
(* merged budget and updates the fields the body has: three steps, between *)
(* which other operators change the row.  What keeps a row coherent then   *)
(* is the table's CHECK (db/migrations/1759400000000_spend_budgets.sql).   *)
(* PATCH of a rule validates the body alone and is one statement.          *)
(***************************************************************************)
EXTENDS Integers

CONSTANTS
  Patchers,       (* patches of the budget that can be under way            *)
  BudgetRows,     (* the budgets POST may ask for                           *)
  BudgetBodies,   (* the bodies PATCH may have: functions from some fields  *)
  RuleRows,       (* the rules POST may ask for                             *)
  RuleBodies,     (* the valid bodies of a rule's PATCH                     *)
  NoRow,          (* the row is not there yet                               *)
  Gone,           (* it has been deleted: ids are not used again            *)
  NoOwner         (* client_id IS NULL                                      *)

ASSUME ConfigAssumption ==
  /\ \A b \in BudgetRows : DOMAIN b = {"scope", "clientId", "limitUsd"}
  /\ \A rule \in RuleRows : DOMAIN rule = {"priority", "enabled"}

VARIABLES
  budgetRow,      (* spend_budgets: the row all of them are about           *)
  patch,          (* patch[w]: a PATCH of it                                *)
  ruleRow,        (* operator_rules: the row                                *)
  asked           (* history: what was last asked and granted of each       *)

configVars == << budgetRow, patch, ruleRow, asked >>

IsThere(row) == row \notin {NoRow, Gone}

NoPatch == [stage |-> "idle", body |-> << >>, current |-> NoRow]

(* budgetInputSchema, and the CHECKs of the table.                          *)
IsCoherent(b) ==
  /\ b.limitUsd > 0
  /\ (b.scope = "global") = (b.clientId = NoOwner)

ConfigTypeOK ==
  /\ \A w \in Patchers :
       /\ patch[w].stage \in {"idle", "read", "valid"}
       /\ patch[w].stage # "idle" => patch[w].body \in BudgetBodies
  /\ IsThere(budgetRow) => DOMAIN budgetRow = {"scope", "clientId", "limitUsd"}
  /\ IsThere(ruleRow) => DOMAIN ruleRow = {"priority", "enabled"}

ConfigInit ==
  /\ budgetRow = NoRow /\ ruleRow = NoRow
  /\ patch = [w \in Patchers |-> NoPatch]
  /\ asked = [budget |-> NoRow, rule |-> NoRow]

(* The fields of body over those of row.                                    *)
Merged(row, body) == [f \in DOMAIN row |-> IF f \in DOMAIN body THEN body[f] ELSE row[f]]

-----------------------------------------------------------------------------
(* POST /v1/budgets: a malformed budget is a 400.                           *)
PostBudget(b) ==
  /\ budgetRow = NoRow /\ IsCoherent(b)
  /\ budgetRow' = b
  /\ asked' = [asked EXCEPT !.budget = b]
  /\ UNCHANGED << patch, ruleRow >>

(* PATCH /v1/budgets/:id: get(id); no row is a 404 ...                      *)
ReadBudgetRow(w, body) ==
  /\ patch[w].stage = "idle" /\ IsThere(budgetRow)
  /\ patch' = [patch EXCEPT ![w] = [stage |-> "read", body |-> body, current |-> budgetRow]]
  /\ UNCHANGED << budgetRow, ruleRow, asked >>

(* ... the merged budget is validated, or is a 400 ...                      *)
ValidateBudget(w) ==
  /\ patch[w].stage = "read"
  /\ patch' = [patch EXCEPT ![w] =
       IF IsCoherent(Merged(patch[w].current, patch[w].body))
         THEN [@ EXCEPT !.stage = "valid"] ELSE NoPatch]
  /\ UNCHANGED << budgetRow, ruleRow, asked >>

(* Faulty variant: the whole merged budget is written.                      *)
Written_Whole(row, w) == Merged(patch[w].current, patch[w].body)

(* The row after the UPDATE: only the fields of the body are set.           *)
Written(row, w) == Merged(row, patch[w].body)

(* ... and the UPDATE finds the row gone, a 404, breaks the CHECK, a 500,   *)
(* or changes what the row is by now.                                       *)
UpdateBudget(w) ==
  /\ patch[w].stage = "valid"
  /\ IF IsThere(budgetRow) /\ IsCoherent(Written(budgetRow, w))
       THEN /\ budgetRow' = Written(budgetRow, w)
            /\ asked' = [asked EXCEPT !.budget = Merged(@, patch[w].body)]
       ELSE UNCHANGED << budgetRow, asked >>
  /\ patch' = [patch EXCEPT ![w] = NoPatch]
  /\ UNCHANGED ruleRow

(* DELETE /v1/budgets/:id; a row that is gone is a 404.                     *)
DeleteBudget ==
  /\ IsThere(budgetRow)
  /\ budgetRow' = Gone
  /\ asked' = [asked EXCEPT !.budget = Gone]
  /\ UNCHANGED << patch, ruleRow >>

-----------------------------------------------------------------------------
(* POST /v1/operator/rules.                                                 *)
PostRule(rule) ==
  /\ ruleRow = NoRow
  /\ ruleRow' = rule
  /\ asked' = [asked EXCEPT !.rule = rule]
  /\ UNCHANGED << budgetRow, patch >>

(* PATCH /v1/operator/rules/:ruleId: one UPDATE of the fields it has.       *)
PatchRule(body) ==
  /\ IsThere(ruleRow)
  /\ ruleRow' = Merged(ruleRow, body)
  /\ asked' = [asked EXCEPT !.rule = Merged(@, body)]
  /\ UNCHANGED << budgetRow, patch >>

(* DELETE /v1/operator/rules/:ruleId.                                       *)
DeleteRule ==
  /\ IsThere(ruleRow)
  /\ ruleRow' = Gone
  /\ asked' = [asked EXCEPT !.rule = Gone]
  /\ UNCHANGED << budgetRow, patch >>

ConfigNext ==
  \/ \E b \in BudgetRows : PostBudget(b)
  \/ \E w \in Patchers, body \in BudgetBodies : ReadBudgetRow(w, body)
  \/ \E w \in Patchers : ValidateBudget(w) \/ UpdateBudget(w)
  \/ DeleteBudget
  \/ \E rule \in RuleRows : PostRule(rule)
  \/ \E body \in RuleBodies : PatchRule(body)
  \/ DeleteRule

-----------------------------------------------------------------------------
(* However patches of one row interleave, with each other and with deletes, *)
(* the row stays coherent (a global budget has no client, a client budget   *)
(* one, the limit is above zero) and has in every field what was last       *)
(* granted for it: no patch undoes another's field.                         *)
RowsAreAsAsked ==
  /\ IsThere(budgetRow) => IsCoherent(budgetRow)
  /\ budgetRow = asked.budget /\ ruleRow = asked.rule
=============================================================================
