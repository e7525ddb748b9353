----------------------------- MODULE Admission ------------------------------
(***************************************************************************)
(* What a request sees of a configuration that changes under it, and what  *)
(* the budget guardrail admits: the reads of POST /v1/completions and of   *)
(* POST /v1/routing/preview, await by await, on replicas that share one    *)
(* database, while operators change rules and budgets, a seed activates    *)
(* another pricing table, providers fail and recover, a day ends and a     *)
(* replica restarts (api/src/wiring.ts, api/src/budgets, persistence/src). *)
(*                                                                         *)
(* The decision and the verdict are the operators of Governance and        *)
(* Guardrail.  Provider execution is one step that costs any of Charges    *)
(* (Completions models it); its record reaches the telemetry table some    *)
(* time later, or never.                                                   *)
(***************************************************************************)
EXTENDS Governance, Guardrail

CONSTANTS
  Requests,       (* the requests that may arrive                           *)
  RequestOf,      (* RequestOf[r]: its normalised content                   *)
  Previews,       (* the requests that may also arrive as previews          *)
  Replicas, Writers, NotLoaded, NoReplica,
  RuleTables,     (* sets of rules the rule table may hold                  *)
  BudgetTables,   (* sets of budgets the budget table may hold              *)
  Models,         (* the models of the registered adapters, a sequence      *)
  Versions,       (* pricing table versions                                 *)
  EntriesOf,      (* EntriesOf[v]: the entries of version v                 *)
  Charges,        (* what an execution may cost                             *)
  FirstInstant, LastInstant,  (* bounds of the clock                        *)
  MaxChanges      (* bound on the changes around the requests               *)

ASSUME AdmissionAssumption ==
  /\ \A t \in BudgetTables : \A b, c \in t :
       IsBudget(b) /\ (b.budgetId = c.budgetId => b = c)
  /\ \A r \in Requests : RequestOf[r].estimatedInputTokens \in Nat
  /\ Len(Models) \in Nat /\ DOMAIN Models = 1..Len(Models)
  /\ \A i \in DOMAIN Models : IsModel(Models[i])
  /\ \A v \in Versions : \A e \in EntriesOf[v] : IsPrice(e)
  /\ FirstInstant \in Nat /\ LastInstant \in Nat /\ FirstInstant <= LastInstant
  /\ MaxChanges \in Nat
  /\ Charges \subseteq Nat

VARIABLES
  ruleTable, ruleCache, ruleLoad, ruleMutation, ruleReasons,
  budgetTable, budgetCache, budgetLoad, budgetMutation, budgetReasons,
  activeVersion,  (* pricing_tables: the one that is_active                 *)
  healthy,        (* provider_health_state: the healthy providers           *)
  now,            (* the clock                                              *)
  buffered,       (* records handed to the telemetry writer                 *)
  events,         (* telemetry_events: records stored                       *)
  req,            (* req[r]: where the handler of r is, and its locals      *)
  changes         (* how much has changed around the requests, a bound      *)

ruleVars == << ruleTable, ruleCache, ruleLoad, ruleMutation, ruleReasons >>
budgetVars == << budgetTable, budgetCache, budgetLoad, budgetMutation, budgetReasons >>
worldVars == << activeVersion, healthy, now, changes >>
telemetryVars == << buffered, events >>
vars == << ruleVars, budgetVars, worldVars, telemetryVars, req >>

Rules == INSTANCE ConfigCache WITH
  Readers <- Requests, Contents <- RuleTables, table <- ruleTable, cache <- ruleCache,
  load <- ruleLoad, mutation <- ruleMutation, reasons <- ruleReasons

Budgets == INSTANCE ConfigCache WITH
  Readers <- Requests, Contents <- BudgetTables, table <- budgetTable,
  cache <- budgetCache, load <- budgetLoad, mutation <- budgetMutation,
  reasons <- budgetReasons

ASSUME CopiesAssumption == Rules!MarkersAreDistinct /\ Budgets!MarkersAreDistinct

Providers == {Models[i].providerId : i \in DOMAIN Models}

(* In which await a handler is.                                             *)
Stage ==
  {"new", "catalog", "rules", "budgets", "spend", "running", "answered"}

Kind == {"completion", "preview"}

Fresh ==
  [ stage |-> "new", kind |-> "completion", replica |-> NoReplica, receivedAt |-> 0,
    version |-> Null, entries |-> Null, healthy |-> Null,   (* the three reads *)
    decision |-> Null,
    budgets |-> {}, evaluatedAt |-> 0, spend |-> << >>,     (* the guardrail   *)
    verdict |-> "none", charge |-> Null,
    active |-> {},    (* history: versions active since it arrived          *)
    known |-> {} ]    (* history: records stored when its evaluation began  *)

Answer(r) == [req[r] EXCEPT !.stage = "answered"]

Init ==
  /\ Rules!CacheInit /\ Budgets!CacheInit
  /\ activeVersion \in Versions
  /\ healthy = Providers
  /\ now = FirstInstant
  /\ buffered = {} /\ events = {}
  /\ req = [r \in Requests |-> Fresh]
  /\ changes = 0

-----------------------------------------------------------------------------
(* Ingress: a completion or a preview; both read the same.                  *)
Arrive(r, p, kind) ==
  /\ req[r].stage = "new" /\ (kind = "preview" => r \in Previews)
  /\ req' = [req EXCEPT ![r].stage = "catalog", ![r].kind = kind, ![r].replica = p,
                        ![r].receivedAt = now, ![r].active = {activeVersion}]
  /\ UNCHANGED << ruleVars, budgetVars, worldVars, telemetryVars >>

(* loadCatalogSnapshot: the active table's version, then its entries ...    *)
ReadActiveVersion(r) ==
  /\ req[r].stage = "catalog" /\ ~Given(req[r].version)
  /\ req' = [req EXCEPT ![r].version = activeVersion]
  /\ UNCHANGED << ruleVars, budgetVars, worldVars, telemetryVars >>

(* Faulty variant: the entries of the table that is active by now.          *)
ReadEntries_OfActive(r) ==
  /\ req[r].stage = "catalog" /\ Given(req[r].version) /\ ~Given(req[r].entries)
  /\ req' = [req EXCEPT ![r].entries = EntriesOf[activeVersion]]
  /\ UNCHANGED << ruleVars, budgetVars, worldVars, telemetryVars >>

(* ... which are those of the version the first statement returned ...      *)
ReadEntries(r) ==
  /\ req[r].stage = "catalog" /\ Given(req[r].version) /\ ~Given(req[r].entries)
  /\ req' = [req EXCEPT ![r].entries = EntriesOf[req[r].version]]
  /\ UNCHANGED << ruleVars, budgetVars, worldVars, telemetryVars >>

(* ... while the healthy providers are read beside both.                    *)
ReadHealthyProviders(r) ==
  /\ req[r].stage = "catalog" /\ ~Given(req[r].healthy)
  /\ req' = [req EXCEPT ![r].healthy = healthy]
  /\ UNCHANGED << ruleVars, budgetVars, worldVars, telemetryVars >>

CatalogIn(r) ==
  req[r].stage = "catalog" /\ Given(req[r].entries) /\ Given(req[r].healthy)

PricingTable(r) == [versionId |-> req[r].version, entries |-> req[r].entries]

Snapshot(r) ==
  [ models |-> BuildCatalog(Models, PricingTable(r), req[r].healthy),
    pricingTable |-> PricingTable(r) ]

-----------------------------------------------------------------------------
(* Governance and routing on the rules the request got: an error is a 422,  *)
(* a decision goes on to the budgets.                                       *)
Decide(r, rules) ==
  LET outcome == ResolveRoutingDecision(RequestOf[r], rules, Snapshot(r))
  IN  req' = [req EXCEPT ![r] =
        IF IsDecision(outcome)
          THEN [@ EXCEPT !.stage = "budgets", !.decision = outcome]
          ELSE Answer(r)]

(* snapshot() of the rules: the copy, or a load.                            *)
TakeRules(r) ==
  LET p == req[r].replica
  IN  /\ CatalogIn(r)
      /\ \/ /\ ruleCache[p] # NotLoaded
            /\ Decide(r, ruleCache[p])
            /\ UNCHANGED ruleVars
         \/ /\ Rules!StartLoad(r, p)
            /\ req' = [req EXCEPT ![r].stage = "rules"]
      /\ UNCHANGED << budgetVars, worldVars, telemetryVars >>

ReadRules(r) ==
  /\ Rules!ReadTable(r)
  /\ UNCHANGED << req, budgetVars, worldVars, telemetryVars >>

RulesLoaded(r) ==
  /\ Rules!StoreLoad(r)
  /\ Decide(r, ruleLoad[r].rows)
  /\ UNCHANGED << budgetVars, worldVars, telemetryVars >>

-----------------------------------------------------------------------------
Spent(r, b) == SpendOf(b, events, req[r].evaluatedAt)

(* Faulty variant: the verdict is on what has been spent, without the       *)
(* request's own estimate.                                                  *)
Judge_SpentOnly(r, spend) ==
  EvaluateBudgets(req[r].budgets, spend, 0).decision

Judge(r, spend) ==
  EvaluateBudgets(req[r].budgets, spend, req[r].decision.estimatedCostUsd).decision

(* Faulty variant: a preview within budget is executed.                     *)
Conclude_PreviewRuns(r, locals, verdict) ==
  req' = [req EXCEPT ![r] =
    [locals EXCEPT !.verdict = verdict,
       !.stage = IF verdict # "blocked" THEN "running" ELSE "answered"]]

(* The verdict is in: a blocked completion is a 429, any other executes; a  *)
(* preview reports it.                                                      *)
Conclude(r, locals, verdict) ==
  req' = [req EXCEPT ![r] =
    [locals EXCEPT !.verdict = verdict,
       !.stage = IF locals.kind = "completion" /\ verdict # "blocked"
                   THEN "running" ELSE "answered"]]

(* evaluateRequestBudgets: with no applicable budget there is nothing to    *)
(* read; else the window ends at this instant.                              *)
ApplyBudgets(r, table) ==
  LET applicable == Applicable(table, RequestOf[r].clientId)
  IN  IF applicable = {}
        THEN Conclude(r, req[r], "no_budget")
        ELSE req' = [req EXCEPT ![r].stage = "spend", ![r].budgets = applicable,
                                ![r].evaluatedAt = now, ![r].known = events]

TakeBudgets(r) ==
  LET p == req[r].replica
  IN  /\ req[r].stage = "budgets"
      /\ budgetLoad[r].replica = NoReplica
      /\ \/ /\ budgetCache[p] # NotLoaded
            /\ ApplyBudgets(r, budgetCache[p])
            /\ UNCHANGED budgetVars
         \/ /\ Budgets!StartLoad(r, p)
            /\ UNCHANGED req
      /\ UNCHANGED << ruleVars, worldVars, telemetryVars >>

ReadBudgets(r) ==
  /\ Budgets!ReadTable(r)
  /\ UNCHANGED << req, ruleVars, worldVars, telemetryVars >>

BudgetsLoaded(r) ==
  /\ Budgets!StoreLoad(r)
  /\ ApplyBudgets(r, budgetLoad[r].rows)
  /\ UNCHANGED << ruleVars, worldVars, telemetryVars >>

(* The budgets whose spend is still to be read: global ones come first.     *)
Unread(r) == {b \in req[r].budgets : b.budgetId \notin DOMAIN req[r].spend}

IsNextToRead(r, b) ==
  /\ b \in Unread(r)
  /\ (\E c \in Unread(r) : c.scope = "global") => b.scope = "global"

(* One aggregate query for each group of budgets, one after the other; the  *)
(* last one brings the verdict.                                             *)
ReadSpend(r) ==
  /\ req[r].stage = "spend"
  /\ \E b \in Unread(r) :
       /\ IsNextToRead(r, b)
       /\ LET group == {c \in req[r].budgets : SpendGroup(c) = SpendGroup(b)}
              read == req[r].spend
              spend == [ id \in {c.budgetId : c \in group} \union DOMAIN read |->
                           IF id \in DOMAIN read THEN read[id] ELSE Spent(r, b) ]
              locals == [req[r] EXCEPT !.spend = spend]
          IN  IF \A c \in req[r].budgets : c.budgetId \in DOMAIN spend
                THEN Conclude(r, locals, Judge(r, spend))
                ELSE req' = [req EXCEPT ![r] = locals]
  /\ UNCHANGED << ruleVars, budgetVars, worldVars, telemetryVars >>

(* A read the handler awaits fails: 500.                                    *)
ReadFails(r) ==
  /\ \/ req[r].stage \in {"catalog", "spend"} /\ UNCHANGED << ruleVars, budgetVars >>
     \/ req[r].stage = "rules" /\ Rules!FailLoad(r) /\ UNCHANGED budgetVars
     \/ req[r].stage = "budgets" /\ Budgets!FailLoad(r) /\ UNCHANGED ruleVars
  /\ req' = [req EXCEPT ![r] = Answer(r)]
  /\ UNCHANGED << worldVars, telemetryVars >>

-----------------------------------------------------------------------------
(* The providers were called, by whatever chain of attempts; the record is  *)
(* handed to the writer and the client gets its answer.                     *)
Execute(r) ==
  /\ req[r].stage = "running"
  /\ \E charge \in Charges :
       /\ req' = [req EXCEPT ![r].stage = "answered", ![r].charge = charge]
       /\ buffered' = buffered \union
            {[ eventId |-> r, receivedAt |-> req[r].receivedAt,
               clientId |-> RequestOf[r].clientId, costUsd |-> charge ]}
  /\ UNCHANGED << ruleVars, budgetVars, worldVars, events >>

(* A replica's writer stores its buffer with one INSERT, or loses it.       *)
OnReplica(p) == {e \in buffered : req[e.eventId].replica = p}

Flush(p) ==
  /\ OnReplica(p) # {}
  /\ buffered' = buffered \ OnReplica(p)
  /\ events' \in {events, events \union OnReplica(p)}
  /\ UNCHANGED << ruleVars, budgetVars, worldVars, req >>

-----------------------------------------------------------------------------
(* What changes around the requests.                                        *)
Change == changes < MaxChanges /\ changes' = changes + 1

(* An operator's create, update or remove of a rule ...                     *)
MutateRules(w, p) ==
  /\ Change
  /\ \E rows \in RuleTables : Rules!Commit(w, p, rows)
  /\ UNCHANGED << req, budgetVars, activeVersion, healthy, now, telemetryVars >>

RuleMutated(w) ==
  /\ Rules!Acknowledge(w) \/ Rules!LoseAnswer(w)
  /\ UNCHANGED << req, budgetVars, worldVars, telemetryVars >>

(* ... and of a budget.                                                     *)
MutateBudgets(w, p) ==
  /\ Change
  /\ \E rows \in BudgetTables : Budgets!Commit(w, p, rows)
  /\ UNCHANGED << req, ruleVars, activeVersion, healthy, now, telemetryVars >>

BudgetMutated(w) ==
  /\ Budgets!Acknowledge(w) \/ Budgets!LoseAnswer(w)
  /\ UNCHANGED << req, ruleVars, worldVars, telemetryVars >>

(* A seed's transaction activates another pricing table.                    *)
ActivatePricing(v) ==
  /\ Change
  /\ activeVersion' = v
  /\ req' = [r \in Requests |->
       IF req[r].stage = "catalog" THEN [req[r] EXCEPT !.active = @ \union {v}]
                                   ELSE req[r]]
  /\ UNCHANGED << ruleVars, budgetVars, healthy, now, telemetryVars >>

(* A probe turns a provider healthy or unhealthy.                           *)
HealthChanges(providers) ==
  /\ Change
  /\ healthy' = providers
  /\ UNCHANGED << req, ruleVars, budgetVars, activeVersion, now, telemetryVars >>

Tick ==
  /\ now < LastInstant
  /\ now' = now + 1
  /\ UNCHANGED << req, ruleVars, budgetVars, activeVersion, healthy, changes,
                  telemetryVars >>

(* A replica restarts: its handlers, copies and buffered records are gone.  *)
Restart(p) ==
  /\ Change
  /\ Rules!Restart(p) /\ Budgets!Restart(p)
  /\ buffered' = buffered \ OnReplica(p)
  /\ req' = [r \in Requests |-> IF req[r].replica = p THEN Answer(r) ELSE req[r]]
  /\ UNCHANGED << activeVersion, healthy, now, events >>

Next ==
  \/ \E r \in Requests, p \in Replicas, kind \in Kind : Arrive(r, p, kind)
  \/ \E r \in Requests :
       \/ ReadActiveVersion(r) \/ ReadEntries(r) \/ ReadHealthyProviders(r)
       \/ TakeRules(r) \/ ReadRules(r) \/ RulesLoaded(r)
       \/ TakeBudgets(r) \/ ReadBudgets(r) \/ BudgetsLoaded(r)
       \/ ReadSpend(r) \/ ReadFails(r) \/ Execute(r)
  \/ \E p \in Replicas : Flush(p) \/ Restart(p)
  \/ \E w \in Writers : RuleMutated(w) \/ BudgetMutated(w)
  \/ \E w \in Writers, p \in Replicas : MutateRules(w, p) \/ MutateBudgets(w, p)
  \/ \E v \in Versions : ActivatePricing(v)
  \/ \E providers \in SUBSET Providers : HealthChanges(providers)
  \/ Tick

Spec == Init /\ [][Next]_vars

-----------------------------------------------------------------------------
(* Type invariant of the requests and of what they read (wiring.ts,         *)
(* completions.ts: the locals of the handler).                              *)
TypeOK ==
  /\ Rules!CacheTypeOK /\ Budgets!CacheTypeOK
  /\ activeVersion \in Versions /\ healthy \subseteq Providers
  /\ now \in FirstInstant..LastInstant /\ changes \in 0..MaxChanges
  /\ \A e \in buffered \union events :
       e.eventId \in Requests /\ e.costUsd \in Charges
       /\ e.receivedAt \in FirstInstant..LastInstant
  /\ buffered \intersect events = {}
  /\ \A r \in Requests :
       /\ req[r].stage \in Stage /\ req[r].kind \in Kind
       /\ req[r].replica = NoReplica <=> req[r].stage = "new"
       /\ req[r].stage \in {"budgets", "spend", "running"} => IsDecision(req[r].decision)
       /\ req[r].stage \in {"spend", "running"} =>
            DOMAIN req[r].spend \subseteq {b.budgetId : b \in req[r].budgets}
       /\ req[r].stage = "running" =>
            req[r].kind = "completion" /\ req[r].verdict # "blocked"

(* An operator's change of a rule or a budget reaches every decision: a     *)
(* replica goes on deciding on old rows only while the mutation's own call  *)
(* has not returned, when a load on its way was overtaken, when the answer  *)
(* was lost, or when another replica took the call.                         *)
ChangesReachDecisions == Rules!StaleHasCause /\ Budgets!StaleHasCause

(* A completion is admitted only with room in every blocking budget that    *)
(* applies to it: what was on record when its evaluation began, in the      *)
(* budget's scope and window, and its own estimate stay below the limit.    *)
(* What is not yet on record is not counted (README: a "soft guardrail").   *)
AdmittedWithinBudget ==
  \A r \in Requests : req[r].stage = "running" =>
    \A b \in req[r].budgets : b.action = "block" =>
      SpendOf(b, req[r].known, req[r].evaluatedAt)
        + req[r].decision.estimatedCostUsd < b.limitUsd

(* A decision is made on one pricing table that was active while it read    *)
(* the catalog, although the version and its entries come from two          *)
(* statements that a seed's transaction may separate.                       *)
PricingPinned ==
  \A r \in Requests : Given(req[r].decision) =>
    LET version == req[r].decision.pricingTableVersionId
        chosen == [ providerId |-> req[r].decision.chosenProviderId,
                    modelId |-> req[r].decision.chosenModelId ]
        table == [versionId |-> version, entries |-> EntriesOf[version]]
    IN  /\ version \in req[r].active
        /\ req[r].decision.estimatedCostUsd = RequestCost(RequestOf[r], table, chosen)
=============================================================================
