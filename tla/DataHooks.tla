------------------------------ MODULE DataHooks -----------------------------
(***************************************************************************)
(* The console's data hooks: effects that fetch from the API whenever what *)
(* they depend on changes, and the two forms that submit a request.        *)
(*                                                                         *)
(* A change aborts the fetches under way and starts new ones.  An abort    *)
(* reaches only a call the server has not answered yet: an answer that has *)
(* arrived is still handed to its continuation, so what keeps the answer   *)
(* of an earlier question off the view is the continuation's own guard:    *)
(* an id compared with the last one given out ("id"), a flag of the        *)
(* effect's closure ("cancelled"), or nothing but the catch looking at the *)
(* signal ("signal").                                                      *)
(***************************************************************************)
EXTENDS Naturals, FiniteSets

CONSTANTS
  MaxChanges,     (* bound on the changes of what an effect depends on      *)
  MaxSubmits,     (* bound on the submissions and resets of a form          *)
  Watched,        (* the views looked at: those of one effect only share    *)
                  (* its id                                                 *)
  Nothing         (* no event is selected; no request is shown              *)

ASSUME HooksAssumption == MaxChanges \in Nat /\ MaxSubmits \in Nat

(* The effects, by what they depend on and the views they fill.             *)
Effect(deps, sources, guard) == [deps |-> deps, sources |-> sources, guard |-> guard]

UseCostData == Effect({"range", "provider", "model", "tick"},
                      {"summary", "events", "metrics", "catalog"}, "id")
UseBudgetStatus == Effect({"tick"}, {"budgets"}, "id")
UseBudgetDecisions == Effect({"range", "tick"}, {"budgetDecisions"}, "id")
UseTimeseries == Effect({"range", "provider", "model", "tick"}, {"timeseries"}, "id")
UseAnomalies == Effect({"range", "provider", "model", "tick"}, {"anomalies"}, "id")
UseInsights == Effect({"range", "provider", "model", "tick"}, {"insights"}, "id")
UseKeys == Effect({"tick"}, {"keys"}, "id")
UseRules == Effect({"tick"}, {"rules"}, "id")
UseRule == Effect({"ruleId", "tick"}, {"rule"}, "cancelled")
UseCatalog == Effect({"tick"}, {"catalog"}, "id")
UseReplay == Effect({"selected", "tick"}, {"replay"}, "id")
UseRoutingEventById == Effect({"eventId", "apiKey"}, {"event"}, "cancelled")
UseTelemetryEvent == Effect({}, {"event"}, "cancelled")
UseOverviewData == Effect({}, {"health", "events", "catalog", "metrics"}, "signal")
UsePlaygroundCatalog == Effect({"apiKey"}, {"catalog"}, "signal")

(* The pages of usePreview and useSimulation have a form and no effect.     *)
FormPage == Effect({}, {}, "form")

CostPage == {UseCostData, UseBudgetStatus, UseBudgetDecisions, UseTimeseries,
             UseAnomalies, UseInsights}
OtherPages == {UseKeys, UseRules, UseRule, UseCatalog, UseReplay, UseRoutingEventById,
               UseTelemetryEvent, UseOverviewData, UsePlaygroundCatalog, FormPage}

VARIABLES
  effect,         (* the effect that is looked at                           *)
  deps,           (* deps[d]: what d is; for "selected" maybe Nothing       *)
  lastId,         (* reqId.current                                          *)
  calls,          (* fetches: [id, source, about, stage, aborted]           *)
  views,          (* views[s]: [status, about]                              *)
  form            (* usePreview, useSimulation: [state, inFlight, lastId,   *)
                  (* calls, steps]                                          *)

hookVars == << effect, deps, lastId, calls, views, form >>

Loading == [status |-> "loading", about |-> Nothing]
Idle == [status |-> "idle", about |-> Nothing]

(* The fetches an effect starts for one question.                           *)
Fetches(id, question) ==
  {[id |-> id, source |-> s, about |-> question, stage |-> "sent", aborted |-> FALSE] :
     s \in effect.sources \cap Watched}

HooksTypeOK ==
  /\ effect \in CostPage \union OtherPages
  /\ DOMAIN deps = effect.deps /\ DOMAIN views = effect.sources \cap Watched
  /\ \A c \in calls :
       /\ c.id \in 1..lastId /\ c.source \in DOMAIN views
       /\ c.stage \in {"sent", "answered", "failed"}
       /\ c.aborted \/ c.id = lastId
  /\ \A s \in DOMAIN views : views[s].status \in {"idle", "loading", "ready", "error"}
  /\ form.state.status \in {"idle", "loading", "ready", "error"}
  /\ form.inFlight \in BOOLEAN /\ form.steps <= MaxSubmits

NoForm == [state |-> Idle, inFlight |-> FALSE, lastId |-> 0, calls |-> {}, steps |-> 0]

(* The page mounts: the effect runs for the first time.                     *)
HooksInit ==
  /\ effect \in CostPage \union OtherPages
  /\ deps = [d \in effect.deps |-> 0]
  /\ lastId = 1
  /\ calls = Fetches(1, deps)
  /\ views = [s \in effect.sources \cap Watched |-> Loading]
  /\ form = NoForm

-----------------------------------------------------------------------------
Cut(c) == [c EXCEPT !.aborted = TRUE, !.stage = IF @ = "sent" THEN "failed" ELSE @]

(* The effect's cleanup and its next run.  Nothing is fetched while no      *)
(* event is selected, and no id is given out then.                          *)
Change(d, value) ==
  /\ value # deps[d] /\ lastId <= MaxChanges
  /\ deps' = [deps EXCEPT ![d] = value]
  /\ IF value = Nothing
       THEN /\ calls' = {Cut(c) : c \in calls}
            /\ views' = [s \in DOMAIN views |-> Idle]
            /\ UNCHANGED lastId
       ELSE /\ lastId' = lastId + 1
            /\ calls' = {Cut(c) : c \in calls} \union Fetches(lastId + 1, deps')
            /\ views' = [s \in DOMAIN views |-> Loading]
  /\ UNCHANGED << effect, form >>

(* The values a dependency may take: a tick counts, a filter has two.       *)
ValuesOf(d) ==
  IF d = "tick" THEN {deps[d] + 1}
  ELSE IF d = "selected" THEN {0, 1, Nothing} ELSE {0, 1}

(* apiRequest: the body has arrived and is parsed, or the call rejects (an  *)
(* error status, a body that is no JSON, a connection that fails).          *)
Settle(c, stage) ==
  /\ c.stage = "sent"
  /\ calls' = (calls \ {c}) \union {[c EXCEPT !.stage = stage]}
  /\ UNCHANGED << effect, deps, lastId, views, form >>

(* Faulty variant: an answer is shown without asking whether it is late.    *)
Shows_Unguarded(c) == c.stage = "answered" \/ ~c.aborted

(* The continuation's guard.                                                *)
Shows(c) ==
  CASE effect.guard = "id" -> c.id = lastId /\ (c.stage = "failed" => ~c.aborted)
    [] effect.guard = "cancelled" -> ~c.aborted
    [] OTHER -> c.stage = "answered" \/ ~c.aborted

(* A failure is shown as one; useTelemetryEvent shows a fixture instead.    *)
Shown(c) ==
  [ status |-> IF c.stage = "answered" \/ effect = UseTelemetryEvent THEN "ready" ELSE "error",
    about |-> c.about ]

(* The continuation of a settled fetch runs.                                *)
Continue(c) ==
  /\ c.stage # "sent"
  /\ calls' = calls \ {c}
  /\ views' = IF Shows(c) THEN [views EXCEPT ![c.source] = Shown(c)] ELSE views
  /\ UNCHANGED << effect, deps, lastId, form >>

-----------------------------------------------------------------------------
Formed(f) == effect = FormPage /\ form.steps < MaxSubmits /\ form' = [f EXCEPT !.steps = @ + 1]

(* submit, run: a second submission waits for the first to end.             *)
Submit ==
  LET id == form.lastId + 1
  IN  /\ ~form.inFlight
      /\ Formed([ form EXCEPT !.inFlight = TRUE, !.lastId = id, !.state = Loading,
                  !.calls = @ \union {id} ])
      /\ UNCHANGED << effect, deps, lastId, calls, views >>

(* reset: the request under way is disowned, not aborted.                   *)
Reset ==
  /\ Formed([form EXCEPT !.inFlight = FALSE, !.lastId = @ + 1, !.state = Idle])
  /\ UNCHANGED << effect, deps, lastId, calls, views >>

Ends(id) == IF id = form.lastId THEN FALSE ELSE form.inFlight

(* The request of an id ends: then or catch, and finally.                   *)
FormAnswered(id, status) ==
  /\ id \in form.calls
  /\ form' = [ form EXCEPT !.calls = @ \ {id}, !.inFlight = Ends(id),
                 !.state = IF id = form.lastId THEN [status |-> status, about |-> id] ELSE @ ]
  /\ UNCHANGED << effect, deps, lastId, calls, views >>

HooksNext ==
  \/ \E d \in effect.deps : \E value \in ValuesOf(d) : Change(d, value)
  \/ \E c \in calls : (\E stage \in {"answered", "failed"} : Settle(c, stage)) \/ Continue(c)
  \/ Submit \/ Reset
  \/ \E id \in form.calls, status \in {"ready", "error"} : FormAnswered(id, status)

-----------------------------------------------------------------------------
(* A view whose continuations have a guard shows the answer to the question *)
(* that is asked, never that of an earlier one which comes late, and is not *)
(* left loading when nothing is under way.  A form that waits has its       *)
(* request under way, one that does not has none of its own, and what it    *)
(* shows is its last request's (useCostData.ts and the other hooks,         *)
(* usePreview.ts, useSimulation.ts).                                        *)
ViewsAnswerTheirQuestion ==
  /\ \A s \in DOMAIN views :
       effect.guard # "signal" /\ Nothing \notin {deps[d] : d \in effect.deps} =>
         /\ views[s].status \in {"ready", "error"} => views[s].about = deps
         /\ views[s].status = "loading" => \E c \in calls : c.source = s /\ c.id = lastId
  /\ form.inFlight = (form.lastId \in form.calls)
  /\ form.state.status = "loading" => form.inFlight
  /\ form.state.status \in {"ready", "error"} => form.state.about = form.lastId
=============================================================================
