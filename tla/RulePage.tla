------------------------------- MODULE RulePage ------------------------------
(***************************************************************************)
(* The console's page of one operator rule: the switch that enables it, the*)
(* editor and the delete dialog, while another operator may change the same*)
(* rule.                                                                   *)
(*                                                                         *)
(* The page's body holds the switch, the editor and the dialog; it is      *)
(* mounted while a rule is shown and forgets them when the page loads.     *)
(***************************************************************************)
EXTENDS Naturals

CONSTANTS
  RuleAtFirst,    (* the rule that is opened: a record of its fields        *)
  FormValues,     (* FormValues[f]: what may be put into field f of the form*)
  Invalid,        (* what is typed into a field and is no value of it       *)
  OtherValues,    (* OtherValues[f]: what another operator may set          *)
  NoRule,         (* it was deleted                                         *)
  MaxCalls,       (* bound on the changes the page sends                    *)
  MaxOthers       (* bound on another operator's changes                    *)

ASSUME RuleAssumption ==
  /\ RuleAtFirst = [f \in DOMAIN RuleAtFirst |-> RuleAtFirst[f]]
  /\ MaxCalls \in Nat /\ MaxOthers \in Nat

VARIABLES
  serverRule,     (* the row, or NoRule                                     *)
  pageRule,       (* useRule's state: [status, rule]                        *)
  ruleLoad,       (* its latest load: [stage, rule]                         *)
  body,           (* [id, mode, toggling, busy, base, form]                 *)
  changes,        (* calls under way: [kind, id, base, payload, intent,     *)
                  (* stage, answer]                                         *)
  askedRule,      (* a history: what was last asked of each field           *)
  trail           (* a history: [sent, others, clobbered, unsure]           *)

rulePageVars == << serverRule, pageRule, ruleLoad, body, changes, askedRule, trail >>

(* A rule for no client (an empty list) and one for any (null) make the     *)
(* same form, and that form makes a rule for any client.                    *)
FormFromRule(rule) == [rule EXCEPT !.clients = IF @ = "any" THEN "none" ELSE @]

BuildPayload(form) == [form EXCEPT !.clients = IF @ = "none" THEN "any" ELSE @]

FreshBody(id) ==
  [ id |-> id, mode |-> "view", toggling |-> FALSE, busy |-> FALSE,
    base |-> RuleAtFirst, form |-> FormFromRule(RuleAtFirst) ]

RulePageTypeOK ==
  /\ serverRule # NoRule => DOMAIN serverRule = DOMAIN RuleAtFirst
  /\ pageRule.status \in {"loading", "ready", "notFound", "error", "left"}
  /\ ruleLoad.stage \in {"idle", "sent", "read"}
  /\ pageRule.status = "loading" => ruleLoad.stage # "idle"
  /\ body.mode \in {"view", "edit", "delete"}
  /\ body.busy => body.mode # "view"
  /\ \A c, d \in changes :
       c.kind # "toggle" /\ d.kind # "toggle" /\ c.id = d.id => c = d
  /\ trail.sent \in 0..MaxCalls /\ trail.others \in 0..MaxOthers

RulePageInit ==
  /\ serverRule = RuleAtFirst /\ askedRule = RuleAtFirst
  /\ pageRule = [status |-> "loading", rule |-> RuleAtFirst]
  /\ ruleLoad = [stage |-> "sent", rule |-> RuleAtFirst]
  /\ body = FreshBody(0) /\ changes = {}
  /\ trail = [sent |-> 0, others |-> 0, clobbered |-> FALSE, unsure |-> FALSE]

-----------------------------------------------------------------------------
(* Every rule is listed and this one looked for.                            *)
RuleRead ==
  /\ ruleLoad.stage = "sent"
  /\ ruleLoad' = [stage |-> "read", rule |-> serverRule]
  /\ trail' = [trail EXCEPT !.unsure = changes # {}]
  /\ UNCHANGED << serverRule, pageRule, body, changes, askedRule >>

(* A body that is mounted already, by a switch's answer, stays.             *)
Show(status, rule) ==
  /\ pageRule' = [status |-> status, rule |-> rule]
  /\ body' = IF status = "ready" /\ pageRule.status # "ready" THEN FreshBody(body.id + 1)
             ELSE body

RuleLoaded ==
  /\ ruleLoad.stage = "read" /\ pageRule.status # "left"
  /\ ruleLoad' = [ruleLoad EXCEPT !.stage = "idle"]
  /\ IF ruleLoad.rule = NoRule THEN Show("notFound", pageRule.rule)
     ELSE Show("ready", ruleLoad.rule)
  /\ UNCHANGED << serverRule, changes, askedRule, trail >>

RuleLoadFails ==
  /\ ruleLoad.stage = "sent" /\ pageRule.status # "left"
  /\ ruleLoad' = [ruleLoad EXCEPT !.stage = "idle"]
  /\ Show("error", pageRule.rule)
  /\ UNCHANGED << serverRule, changes, askedRule, trail >>

-----------------------------------------------------------------------------
Busy == changes # {} \/ ruleLoad.stage # "idle"

In(mode) == pageRule.status = "ready" /\ body.mode = mode

(* A call leaves the page: what is sent, and what the operator asked for.   *)
Send(kind, payload, intent) ==
  /\ trail.sent < MaxCalls
  /\ changes' = changes \union
       {[ kind |-> kind, id |-> body.id, base |-> body.base, payload |-> payload,
          intent |-> intent, stage |-> "sent", answer |-> serverRule ]}
  /\ trail' = [trail EXCEPT !.sent = @ + 1, !.unsure = @ \/ Busy]
  /\ UNCHANGED << serverRule, pageRule, ruleLoad, askedRule >>

(* "Intentionally carries only enabled."                                    *)
EnabledPatch(rule) == [enabled |-> ~rule.enabled]

Toggle ==
  /\ In("view") /\ ~body.toggling
  /\ body' = [body EXCEPT !.toggling = TRUE]
  /\ Send("toggle", EnabledPatch(pageRule.rule), [enabled |-> ~pageRule.rule.enabled])

(* The editor takes the rule as it is shown, once.                          *)
Edit ==
  /\ In("view")
  /\ body' = [body EXCEPT !.mode = "edit", !.base = pageRule.rule,
                          !.form = FormFromRule(pageRule.rule)]
  /\ UNCHANGED << serverRule, pageRule, ruleLoad, changes, askedRule, trail >>

PatchForm(f, value) ==
  /\ In("edit") /\ value # body.form[f]
  /\ body' = [body EXCEPT !.form[f] = value]
  /\ UNCHANGED << serverRule, pageRule, ruleLoad, changes, askedRule, trail >>

ValidateForm(form) == \A f \in DOMAIN form : form[f] # Invalid

(* Every field of the form is sent, also those that were not edited.        *)
Save ==
  LET edited == {f \in DOMAIN body.form : body.form[f] # FormFromRule(body.base)[f]}
      payload == BuildPayload(body.form)
  IN  /\ In("edit") /\ ~body.busy /\ ValidateForm(body.form)
      /\ body' = [body EXCEPT !.busy = TRUE]
      /\ Send("save", payload, [f \in edited |-> payload[f]])

OpenDelete ==
  /\ In("view")
  /\ body' = [body EXCEPT !.mode = "delete"]
  /\ UNCHANGED << serverRule, pageRule, ruleLoad, changes, askedRule, trail >>

Delete ==
  /\ In("delete") /\ ~body.busy
  /\ body' = [body EXCEPT !.busy = TRUE]
  /\ Send("delete", NoRule, NoRule)

(* Cancel is disabled while the editor's or the dialog's call is under way. *)
Cancel ==
  /\ pageRule.status = "ready" /\ body.mode # "view" /\ ~body.busy
  /\ body' = [body EXCEPT !.mode = "view"]
  /\ UNCHANGED << serverRule, pageRule, ruleLoad, changes, askedRule, trail >>

-----------------------------------------------------------------------------
(* The fields that are carried over those of a rule.                        *)
Carried(fields, rule) ==
  [f \in DOMAIN rule |-> IF f \in DOMAIN fields THEN fields[f] ELSE rule[f]]

(* The server runs a change: PATCH writes the fields it carries.            *)
ChangeApplied(c) ==
  /\ c.stage = "sent" /\ serverRule # NoRule
  /\ IF c.kind = "delete"
       THEN /\ serverRule' = NoRule
            /\ UNCHANGED << askedRule, trail >>
       ELSE /\ serverRule' = Carried(c.payload, serverRule)
            /\ askedRule' = Carried(c.intent, askedRule)
            /\ trail' = [trail EXCEPT !.clobbered = @ \/
                 (/\ c.kind = "save"
                  /\ \E f \in DOMAIN c.payload \ DOMAIN c.intent :
                       \/ c.base[f] # serverRule[f]
                       \/ f = "clients" /\ c.base[f] = "none")]
  /\ changes' = (changes \ {c}) \union {[c EXCEPT !.stage = "done", !.answer = serverRule']}
  /\ UNCHANGED << pageRule, ruleLoad, body >>

(* The switch shows the rule of its answer, whatever is shown by then.      *)
ToggleAnswered(c) ==
  /\ c.kind = "toggle" /\ c.stage = "done" /\ pageRule.status # "left"
  /\ changes' = changes \ {c}
  /\ pageRule' = [status |-> "ready", rule |-> c.answer]
  /\ body' = IF pageRule.status # "ready" THEN FreshBody(body.id + 1)
             ELSE [body EXCEPT !.toggling = @ /\ c.id # body.id]
  /\ UNCHANGED << serverRule, ruleLoad, askedRule, trail >>

(* onSaved: the editor closes and the page loads.                           *)
Saved(c) ==
  /\ c.kind = "save" /\ c.stage = "done"
  /\ changes' = changes \ {c}
  /\ pageRule' = [pageRule EXCEPT !.status = "loading"]
  /\ ruleLoad' = [ruleLoad EXCEPT !.stage = "sent"]
  /\ UNCHANGED << serverRule, body, askedRule, trail >>

(* The console goes to the list of rules.                                   *)
Deleted(c) ==
  /\ c.kind = "delete" /\ c.stage = "done"
  /\ changes' = changes \ {c}
  /\ pageRule' = [pageRule EXCEPT !.status = "left"]
  /\ UNCHANGED << serverRule, ruleLoad, body, askedRule, trail >>

(* The call fails: it is refused, the rule is gone, or its answer is lost.  *)
ChangeFails(c) ==
  /\ pageRule.status # "left"
  /\ changes' = changes \ {c}
  /\ body' = IF c.id # body.id THEN body
             ELSE IF c.kind = "toggle" THEN [body EXCEPT !.toggling = FALSE]
             ELSE [body EXCEPT !.busy = FALSE]
  /\ trail' = [trail EXCEPT !.unsure = @ \/ c.stage = "done"]
  /\ UNCHANGED << serverRule, pageRule, ruleLoad, askedRule >>

(* Another operator changes a field, or deletes the rule.                   *)
OtherChange ==
  /\ serverRule # NoRule /\ trail.others < MaxOthers
  /\ \/ \E f \in DOMAIN OtherValues : \E value \in OtherValues[f] :
          /\ value # serverRule[f]
          /\ serverRule' = [serverRule EXCEPT ![f] = value]
          /\ askedRule' = [askedRule EXCEPT ![f] = value]
     \/ serverRule' = NoRule /\ UNCHANGED askedRule
  /\ trail' = [trail EXCEPT !.others = @ + 1, !.unsure = TRUE]
  /\ UNCHANGED << pageRule, ruleLoad, body, changes >>

RulePageNext ==
  \/ RuleRead \/ RuleLoaded \/ RuleLoadFails
  \/ Toggle \/ Edit \/ Save \/ OpenDelete \/ Delete \/ Cancel
  \/ \E f \in DOMAIN FormValues : \E value \in FormValues[f] : PatchForm(f, value)
  \/ \E c \in changes :
       ChangeApplied(c) \/ ToggleAnswered(c) \/ Saved(c) \/ Deleted(c) \/ ChangeFails(c)
  \/ OtherChange

-----------------------------------------------------------------------------
(* A field of the rule is what an operator last asked of it, whichever page *)
(* asked and however old what that page showed was, until an editor, which  *)
(* sends every field, saves over a change it was not shown, or over an      *)
(* empty list of clients (rule-mutations.ts, rule-form.ts, RuleEditor.tsx). *)
RuleIsAsAsked == serverRule # NoRule /\ ~trail.clobbered => serverRule = askedRule

(* When nothing is under way, the page shows the rule as the server last    *)
(* confirmed it, unless another operator changed it since, an answer was    *)
(* lost, or a switch's call crossed the editor's or a load (useRule.ts).     *)
PageShowsConfirmed ==
  (/\ pageRule.status = "ready" /\ ruleLoad.stage = "idle" /\ changes = {}
   /\ ~trail.unsure)
    => pageRule.rule = serverRule
=============================================================================
