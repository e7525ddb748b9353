-------------------------- MODULE OperationsProofs --------------------------
(***************************************************************************)
(* The parts around the request path together.  One part moves in a        *)
(* behaviour and the others rest, so that a step of the whole is a step or *)
(* a stutter of every part, and the invariants of the parts, those that    *)
(* PartsProofs proves and those proved here first, hold of the whole, side *)
(* by side.                                                                *)
(***************************************************************************)
EXTENDS Operations, PartsProofs

-----------------------------------------------------------------------------
(* The rule page.                                                           *)

RuleFields == DOMAIN RuleAtFirst

IsRule(rule) == rule = [f \in RuleFields |-> rule[f]]

(* What a call under way carries: a switch asks for what it sends; an editor*)
(* sends every field and asks for those that were edited, so that another   *)
(* is the one it was shown, but for an empty list of clients.               *)
IsChange(c) ==
  /\ DOMAIN c = {"kind", "id", "base", "payload", "intent", "stage", "answer"}
  /\ c.kind \in {"toggle", "save", "delete"} /\ c.stage \in {"sent", "done"}
  /\ c.id \in Nat
  /\ c.kind = "toggle" => c.payload = c.intent
  /\ c.kind = "save" =>
       /\ DOMAIN c.payload = RuleFields
       /\ \A f \in DOMAIN c.intent : c.intent[f] = c.payload[f]
       /\ \A f \in RuleFields \ DOMAIN c.intent :
            c.payload[f] = c.base[f] \/ (f = "clients" /\ c.base[f] = "none")
  /\ c.kind = "toggle" /\ c.stage = "done" => IsRule(c.answer)

IsBody(b) ==
  /\ DOMAIN b = {"id", "mode", "toggling", "busy", "base", "form"}
  /\ b.id \in Nat /\ b.mode \in {"view", "edit", "delete"} /\ b.busy \in BOOLEAN
  /\ b.busy => b.mode # "view"
  /\ IsRule(b.base) /\ IsRule(b.form)

IsTrail(t) ==
  /\ DOMAIN t = {"sent", "others", "clobbered", "unsure"}
  /\ t.sent \in 0..MaxCalls /\ t.others \in 0..MaxOthers
  /\ t.clobbered \in BOOLEAN /\ t.unsure \in BOOLEAN

PageShapes ==
  /\ serverRule # NoRule => IsRule(serverRule)
  /\ IsRule(askedRule)
  /\ DOMAIN pageRule = {"status", "rule"} /\ IsRule(pageRule.rule)
  /\ pageRule.status \in {"loading", "ready", "notFound", "error", "left"}
  /\ DOMAIN ruleLoad = {"stage", "rule"} /\ ruleLoad.stage \in {"idle", "sent", "read"}
  /\ ruleLoad.rule # NoRule => IsRule(ruleLoad.rule)
  /\ pageRule.status = "loading" => ruleLoad.stage # "idle"
  /\ IsBody(body) /\ IsTrail(trail)

(* The calls are calls, and the editor or the dialog of the body that is    *)
(* shown is busy while its one call is under way.                           *)
CallsInOrder ==
  /\ \A c \in changes : IsChange(c) /\ c.id <= body.id
  /\ \A c \in changes : c.kind # "toggle" /\ c.id = body.id => body.busy
  /\ \A c, d \in changes : c.kind # "toggle" /\ d.kind # "toggle" /\ c.id = d.id => c = d

(* While the page can be sure, one call at most is under way, and no load   *)
(* beside it; what was answered or read is what the server has.             *)
PageIsSure ==
  ~trail.unsure =>
    /\ changes = {} \/ \E c \in changes : changes = {c} /\ ruleLoad.stage = "idle"
    /\ \A c \in changes : c.stage = "done" => c.answer = serverRule
    /\ \A c \in changes : c.stage = "sent" /\ pageRule.status = "ready" => pageRule.rule = serverRule
    /\ ruleLoad.stage = "read" => ruleLoad.rule = serverRule
    /\ pageRule.status = "ready" /\ ruleLoad.stage = "idle" /\ changes = {} => pageRule.rule = serverRule

RulePageInv == PageShapes /\ CallsInOrder /\ PageIsSure /\ RuleIsAsAsked

(* What the editor makes of a rule, and sends of it, is a rule.             *)
LEMMA FormsAreRules ==
  ASSUME NEW rule, IsRule(rule)
  PROVE  IsRule(FormFromRule(rule)) /\ IsRule(BuildPayload(rule))
BY DEF IsRule, FormFromRule, BuildPayload, RuleFields

(* A rule that is mounted anew has a body that is at rest.                  *)
LEMMA FreshBodyIsBody ==
  ASSUME NEW id \in Nat
  PROVE  IsBody(FreshBody(id)) /\ FreshBody(id).id = id
<1>1. IsRule(RuleAtFirst)
  BY RuleAssumption DEF IsRule, RuleFields
<1> QED
  BY <1>1, FormsAreRules DEF IsBody, FreshBody

(* A page that has not been loaded shows nothing that is wrong.             *)
LEMMA RulePageInitHolds == RulePageInit => RulePageInv
<1> SUFFICES ASSUME RulePageInit PROVE RulePageInv
  OBVIOUS
<1>1. IsRule(RuleAtFirst)
  BY RuleAssumption DEF IsRule, RuleFields
<1>2. IsBody(body)
  BY FreshBodyIsBody DEF RulePageInit
<1>3. IsTrail(trail)
  BY RuleAssumption DEF RulePageInit, IsTrail
<1> QED
  BY <1>1, <1>2, <1>3 DEF RulePageInit, RulePageInv, PageShapes, CallsInOrder, PageIsSure,
     RuleIsAsAsked

(* A rule that some fields are written to is a rule.                        *)
LEMMA CarriedIsRule ==
  ASSUME NEW fields, NEW rule, IsRule(rule)
  PROVE  IsRule(Carried(fields, rule))
BY DEF IsRule, Carried

(* The page loads, or its load ends.                                        *)
LEMMA LoadSteps ==
  ASSUME RulePageInv, RuleRead \/ RuleLoaded \/ RuleLoadFails
  PROVE  RulePageInv'
<1>1. CASE RuleRead
  <2>1. IsTrail(trail')
    BY <1>1 DEF RuleRead, IsTrail, RulePageInv, PageShapes
  <2>2. trail'.unsure = (changes # {}) /\ trail'.clobbered = trail.clobbered
    BY <1>1, Zenon DEF RuleRead, IsTrail, RulePageInv, PageShapes
  <2>3. PageShapes'
    BY <1>1, <2>1 DEF RuleRead, RulePageInv, PageShapes
  <2>4. CallsInOrder'
    BY <1>1 DEF RuleRead, RulePageInv, CallsInOrder
  <2>5. PageIsSure'
    BY <1>1, <2>2 DEF RuleRead, PageIsSure
  <2> QED
    BY <1>1, <2>2, <2>3, <2>4, <2>5 DEF RuleRead, RulePageInv, RuleIsAsAsked
<1>2. ASSUME NEW status \in {"ready", "notFound", "error"}, NEW rule, IsRule(rule), Show(status, rule),
             ruleLoad' = [ruleLoad EXCEPT !.stage = "idle"],
             UNCHANGED << serverRule, changes, askedRule, trail >>,
             ruleLoad.stage # "idle",
             status = "ready" => ruleLoad.stage = "read" /\ rule = ruleLoad.rule
      PROVE  RulePageInv'
  <2>1. IsBody(body') /\ (body' = body \/ body'.id = body.id + 1)
    BY <1>2, FreshBodyIsBody DEF Show, RulePageInv, PageShapes, IsBody
  <2>2. PageShapes'
    BY <1>2, <2>1 DEF Show, RulePageInv, PageShapes
  <2>3. CallsInOrder'
    BY <1>2, <2>1 DEF RulePageInv, CallsInOrder, PageShapes, IsBody, IsChange
  <2>4. PageIsSure'
    BY <1>2 DEF Show, RulePageInv, PageIsSure, PageShapes
  <2> QED
    BY <1>2, <2>2, <2>3, <2>4 DEF RulePageInv, RuleIsAsAsked
<1>3. CASE RuleLoaded
  BY <1>2, <1>3 DEF RuleLoaded, RulePageInv, PageShapes
<1>4. CASE RuleLoadFails
  BY <1>2, <1>4 DEF RuleLoadFails, RulePageInv, PageShapes
<1> QED
  BY <1>1, <1>3, <1>4

(* A call that is sent: of its body the only one but for the switch's.      *)
LEMMA SendSteps ==
  ASSUME RulePageInv, NEW kind \in {"toggle", "save", "delete"}, NEW payload, NEW intent,
         Send(kind, payload, intent), pageRule.status = "ready",
         NEW b, body' = b, IsBody(b), b.id = body.id, body.busy => b.busy,
         kind # "toggle" => ~body.busy /\ b.busy,
         kind = "toggle" => payload = intent,
         kind = "save" =>
           /\ DOMAIN payload = RuleFields
           /\ \A f \in DOMAIN intent : intent[f] = payload[f]
           /\ \A f \in RuleFields \ DOMAIN intent :
                payload[f] = body.base[f] \/ (f = "clients" /\ body.base[f] = "none")
  PROVE  RulePageInv'
<1> DEFINE c == [ kind |-> kind, id |-> body.id, base |-> body.base, payload |-> payload,
                  intent |-> intent, stage |-> "sent", answer |-> serverRule ]
<1>1. changes' = changes \union {c}
  BY DEF Send
<1>2. IsChange(c) /\ c.id = body.id /\ c.kind = kind /\ c.stage = "sent"
  BY DEF IsChange, RulePageInv, PageShapes, IsBody
<1> HIDE DEF c
<1>3. IsTrail(trail')
  BY RuleAssumption DEF Send, RulePageInv, PageShapes, IsTrail
<1>4. trail'.unsure = (trail.unsure \/ Busy) /\ trail'.clobbered = trail.clobbered
  BY Zenon DEF Send, RulePageInv, PageShapes, IsTrail
<1>5. PageShapes'
  BY <1>3 DEF Send, RulePageInv, PageShapes
<1>6. CallsInOrder'
  BY <1>1, <1>2 DEF RulePageInv, CallsInOrder, IsBody, PageShapes
<1>7. PageIsSure'
  <2> SUFFICES ASSUME ~trail'.unsure PROVE PageIsSure'
    BY DEF PageIsSure
  <2>1. ~trail.unsure /\ changes = {} /\ ruleLoad.stage = "idle"
    BY <1>4, Zenon DEF Busy
  <2>2. pageRule.rule = serverRule
    BY <2>1 DEF RulePageInv, PageIsSure
  <2>3. changes' = {c}
    BY <1>1, <2>1
  <2> QED
    BY <1>2, <2>1, <2>2, <2>3 DEF Send, PageIsSure
<1> QED
  BY <1>4, <1>5, <1>6, <1>7 DEF Send, RulePageInv, RuleIsAsAsked

(* The operator's steps: the switch, the editor and the dialog.             *)
LEMMA OperatorSteps ==
  ASSUME RulePageInv,
         \/ Toggle \/ Edit \/ Save \/ OpenDelete \/ Delete \/ Cancel
         \/ \E f \in DOMAIN FormValues : \E value \in FormValues[f] : PatchForm(f, value)
  PROVE  RulePageInv'
<1>1. ASSUME NEW b, body' = b, IsBody(b), b.id = body.id, b.busy = body.busy,
             UNCHANGED << serverRule, pageRule, ruleLoad, changes, askedRule, trail >>
      PROVE  RulePageInv'
  <2>1. PageShapes'
    BY <1>1 DEF RulePageInv, PageShapes
  <2>2. CallsInOrder'
    BY <1>1 DEF RulePageInv, CallsInOrder
  <2>3. PageIsSure'
    BY <1>1 DEF RulePageInv, PageIsSure
  <2> QED
    BY <1>1, <2>1, <2>2, <2>3 DEF RulePageInv, RuleIsAsAsked
<1>2. IsBody(body) /\ IsRule(pageRule.rule)
  BY DEF RulePageInv, PageShapes
<1>3. CASE Toggle
  <2> DEFINE b == [body EXCEPT !.toggling = TRUE]
  <2>1. IsBody(b) /\ b.id = body.id /\ b.busy = body.busy
    BY <1>2 DEF IsBody
  <2>2. body' = b /\ pageRule.status = "ready"
    BY <1>3 DEF Toggle, In
  <2> DEFINE patched == EnabledPatch(pageRule.rule)
  <2>3. Send("toggle", patched, patched)
    BY <1>3 DEF Toggle, EnabledPatch
  <2> HIDE DEF b, patched
  <2> QED
    BY <2>1, <2>2, <2>3, SendSteps
<1>4. CASE Edit
  <2> DEFINE b == [body EXCEPT !.mode = "edit", !.base = pageRule.rule,
                               !.form = FormFromRule(pageRule.rule)]
  <2>1. IsRule(FormFromRule(pageRule.rule))
    BY <1>2, FormsAreRules
  <2>2. IsBody(b) /\ b.id = body.id /\ b.busy = body.busy
    BY <1>2, <2>1 DEF IsBody
  <2>3. body' = b /\ UNCHANGED << serverRule, pageRule, ruleLoad, changes, askedRule, trail >>
    BY <1>4 DEF Edit
  <2> HIDE DEF b
  <2> QED
    BY <1>1, <2>2, <2>3
<1>5. CASE Save
  <2> DEFINE b == [body EXCEPT !.busy = TRUE]
             edited == {f \in DOMAIN body.form : body.form[f] # FormFromRule(body.base)[f]}
             payload == BuildPayload(body.form)
             intent == [f \in edited |-> payload[f]]
  <2>1. In("edit") /\ ~body.busy /\ body' = b /\ Send("save", payload, intent)
    BY <1>5 DEF Save
  <2>2. IsBody(b) /\ b.id = body.id /\ b.busy
    BY <1>2, <2>1 DEF IsBody, In
  <2>3. IsRule(body.base) /\ IsRule(body.form)
    BY <1>2 DEF IsBody
  <2>4. DOMAIN payload = RuleFields
    BY <2>3, FormsAreRules DEF IsRule
  <2>5. \A f \in RuleFields \ edited :
          payload[f] = body.base[f] \/ (f = "clients" /\ body.base[f] = "none")
    BY <2>3 DEF IsRule, FormFromRule, BuildPayload
  <2>6. DOMAIN intent = edited /\ \A f \in edited : intent[f] = payload[f]
    OBVIOUS
  <2> HIDE DEF b, edited, payload, intent
  <2> QED
    BY <2>1, <2>2, <2>4, <2>5, <2>6, SendSteps DEF In
<1>6. CASE OpenDelete
  <2> DEFINE b == [body EXCEPT !.mode = "delete"]
  <2>1. IsBody(b) /\ b.id = body.id /\ b.busy = body.busy
    BY <1>2 DEF IsBody
  <2>2. body' = b /\ UNCHANGED << serverRule, pageRule, ruleLoad, changes, askedRule, trail >>
    BY <1>6 DEF OpenDelete
  <2> HIDE DEF b
  <2> QED
    BY <1>1, <2>1, <2>2
<1>7. CASE Delete
  <2> DEFINE b == [body EXCEPT !.busy = TRUE]
  <2>1. In("delete") /\ ~body.busy /\ body' = b /\ Send("delete", NoRule, NoRule)
    BY <1>7 DEF Delete
  <2>2. IsBody(b) /\ b.id = body.id /\ b.busy
    BY <1>2, <2>1 DEF IsBody, In
  <2> HIDE DEF b
  <2> QED
    BY <2>1, <2>2, SendSteps DEF In
<1>8. CASE Cancel
  <2> DEFINE b == [body EXCEPT !.mode = "view"]
  <2>1. IsBody(b) /\ b.id = body.id /\ b.busy = body.busy
    BY <1>2, <1>8 DEF IsBody, Cancel
  <2>2. body' = b /\ UNCHANGED << serverRule, pageRule, ruleLoad, changes, askedRule, trail >>
    BY <1>8 DEF Cancel
  <2> HIDE DEF b
  <2> QED
    BY <1>1, <2>1, <2>2
<1>9. ASSUME NEW f \in DOMAIN FormValues, NEW value \in FormValues[f], PatchForm(f, value)
      PROVE  RulePageInv'
  <2> DEFINE filled == [body.form EXCEPT ![f] = value]
             b == [body EXCEPT !.form = filled]
  <2>1. IsRule(filled)
    BY <1>2 DEF IsBody, IsRule
  <2>2. body' = b /\ UNCHANGED << serverRule, pageRule, ruleLoad, changes, askedRule, trail >>
    BY <1>2, <1>9 DEF PatchForm, IsBody
  <2> HIDE DEF filled
  <2>3. IsBody(b) /\ b.id = body.id /\ b.busy = body.busy
    BY <1>2, <2>1 DEF IsBody
  <2> HIDE DEF b
  <2> QED
    BY <1>1, <2>2, <2>3
<1> QED
  BY <1>3, <1>4, <1>5, <1>6, <1>7, <1>8, <1>9

(* The server runs a change.  What it writes is what was asked for, or else *)
(* the rule has been clobbered.                                             *)
LEMMA ChangeAppliedStep ==
  ASSUME RulePageInv, NEW c \in changes, ChangeApplied(c)
  PROVE  RulePageInv'
<1> DEFINE d == [c EXCEPT !.stage = "done", !.answer = serverRule']
<1>1. IsChange(c) /\ c.id <= body.id
  BY DEF RulePageInv, CallsInOrder
<1>2. IsRule(serverRule) /\ IsRule(askedRule) /\ serverRule # NoRule /\ c.stage = "sent"
  BY DEF ChangeApplied, RulePageInv, PageShapes
<1>3. changes' = (changes \ {c}) \union {d}
  BY DEF ChangeApplied
<1>4. c.kind # "delete" => IsRule(serverRule') /\ IsRule(askedRule')
  BY <1>2, CarriedIsRule DEF ChangeApplied
<1>5. c.kind = "delete" => serverRule' = NoRule /\ askedRule' = askedRule
  BY DEF ChangeApplied
<1>6. IsChange(d) /\ d.id = c.id /\ d.kind = c.kind /\ d.stage = "done" /\ d.answer = serverRule'
  BY <1>1, <1>4 DEF IsChange
<1>7. /\ IsTrail(trail') /\ trail'.unsure = trail.unsure
      /\ trail.clobbered => trail'.clobbered
  BY DEF ChangeApplied, RulePageInv, PageShapes, IsTrail
<1> HIDE DEF d
<1>8. PageShapes'
  BY <1>2, <1>4, <1>5, <1>7 DEF ChangeApplied, RulePageInv, PageShapes
<1>9. CallsInOrder'
  BY <1>1, <1>3, <1>6 DEF ChangeApplied, RulePageInv, CallsInOrder
<1>10. PageIsSure'
  <2> SUFFICES ASSUME ~trail'.unsure PROVE PageIsSure'
    BY DEF PageIsSure
  <2>1. changes = {c} /\ ruleLoad.stage = "idle"
    BY <1>7 DEF RulePageInv, PageIsSure
  <2>2. changes' = {d}
    BY <1>3, <2>1
  <2> QED
    BY <1>6, <2>1, <2>2 DEF ChangeApplied, PageIsSure
<1>11. RuleIsAsAsked'
  <2> SUFFICES ASSUME serverRule' # NoRule, ~trail'.clobbered PROVE serverRule' = askedRule'
    BY DEF RuleIsAsAsked
  <2>1. c.kind # "delete" /\ serverRule = askedRule
    BY <1>2, <1>5, <1>7 DEF RulePageInv, RuleIsAsAsked
  <2>2. /\ serverRule' = Carried(c.payload, serverRule)
        /\ askedRule' = Carried(c.intent, serverRule)
    BY <2>1 DEF ChangeApplied
  <2>3. CASE c.kind = "toggle"
    BY <1>1, <2>2, <2>3 DEF IsChange
  <2>4. CASE c.kind = "save"
    <3>1. \A f \in DOMAIN c.payload \ DOMAIN c.intent :
            c.base[f] = serverRule[f] /\ ~(f = "clients" /\ c.base[f] = "none")
      BY <2>1, <2>4, Zenon DEF ChangeApplied, RulePageInv, PageShapes, IsTrail
    <3>2. \A f \in RuleFields :
            Carried(c.payload, serverRule)[f] = Carried(c.intent, serverRule)[f]
      BY <1>1, <1>2, <2>4, <3>1 DEF IsChange, Carried, IsRule
    <3> QED
      BY <1>2, <2>2, <3>2 DEF Carried, IsRule
  <2> QED
    BY <1>1, <2>1, <2>3, <2>4 DEF IsChange
<1> QED
  BY <1>8, <1>9, <1>10, <1>11 DEF RulePageInv

(* A call is answered or fails.                                             *)
LEMMA AnswerSteps ==
  ASSUME RulePageInv, NEW c \in changes,
         ToggleAnswered(c) \/ Saved(c) \/ Deleted(c) \/ ChangeFails(c)
  PROVE  RulePageInv'
<1>1. changes' = changes \ {c} /\ IsChange(c) /\ c.id <= body.id
  BY DEF ToggleAnswered, Saved, Deleted, ChangeFails, RulePageInv, CallsInOrder
<1>2. IsBody(body) /\ IsTrail(trail) /\ PageShapes
  BY DEF RulePageInv, PageShapes
<1>3. ASSUME IsBody(body'),
             \/ body'.id = body.id + 1
             \/ body'.id = body.id /\ body'.busy = body.busy
             \/ body'.id = body.id /\ c.kind # "toggle" /\ c.id = body.id
      PROVE  CallsInOrder'
  BY <1>1, <1>2, <1>3 DEF RulePageInv, CallsInOrder, IsBody, IsChange
<1>4. CASE ToggleAnswered(c)
  <2>1. IsBody(body') /\ (\/ body'.id = body.id + 1
                          \/ body'.id = body.id /\ body'.busy = body.busy)
    BY <1>2, <1>4, FreshBodyIsBody DEF ToggleAnswered, IsBody
  <2>2. PageShapes'
    BY <1>1, <1>2, <1>4, <2>1 DEF ToggleAnswered, PageShapes, IsChange
  <2>3. PageIsSure'
    BY <1>1, <1>4 DEF ToggleAnswered, RulePageInv, PageIsSure
  <2> QED
    BY <1>3, <1>4, <2>1, <2>2, <2>3 DEF ToggleAnswered, RulePageInv, RuleIsAsAsked
<1>5. CASE Saved(c)
  <2>1. PageShapes'
    BY <1>2, <1>5 DEF Saved, PageShapes
  <2>2. PageIsSure'
    BY <1>1, <1>2, <1>5 DEF Saved, RulePageInv, PageIsSure, PageShapes
  <2>3. CallsInOrder'
    BY <1>2, <1>3, <1>5 DEF Saved
  <2> QED
    BY <1>5, <2>1, <2>2, <2>3 DEF Saved, RulePageInv, RuleIsAsAsked
<1>6. CASE Deleted(c)
  <2>1. PageShapes'
    BY <1>2, <1>6 DEF Deleted, PageShapes
  <2>2. PageIsSure'
    BY <1>1, <1>2, <1>6 DEF Deleted, RulePageInv, PageIsSure, PageShapes
  <2>3. CallsInOrder'
    BY <1>2, <1>3, <1>6 DEF Deleted
  <2> QED
    BY <1>6, <2>1, <2>2, <2>3 DEF Deleted, RulePageInv, RuleIsAsAsked
<1>7. CASE ChangeFails(c)
  <2>1. IsBody(body') /\ (\/ body'.id = body.id /\ body'.busy = body.busy
                          \/ body'.id = body.id /\ c.kind # "toggle" /\ c.id = body.id)
    BY <1>2, <1>7 DEF ChangeFails, IsBody
  <2>2. /\ IsTrail(trail') /\ trail'.unsure = (trail.unsure \/ c.stage = "done")
        /\ trail'.clobbered = trail.clobbered
    BY <1>2, <1>7 DEF ChangeFails, IsTrail
  <2>3. PageShapes'
    BY <1>2, <1>7, <2>1, <2>2 DEF ChangeFails, PageShapes
  <2>4. PageIsSure'
    BY <1>1, <1>7, <2>2 DEF ChangeFails, RulePageInv, PageIsSure, IsChange
  <2> QED
    BY <1>3, <1>7, <2>1, <2>2, <2>3, <2>4 DEF ChangeFails, RulePageInv, RuleIsAsAsked
<1> QED
  BY <1>4, <1>5, <1>6, <1>7

(* Another operator's change is asked for and made in one.                  *)
LEMMA OtherChangeStep ==
  ASSUME RulePageInv, OtherChange
  PROVE  RulePageInv'
<1>1. /\ IsTrail(trail') /\ trail'.unsure = TRUE
      /\ trail'.clobbered = trail.clobbered
  BY RuleAssumption DEF OtherChange, RulePageInv, PageShapes, IsTrail
<1>2. /\ serverRule' # NoRule => IsRule(serverRule')
      /\ IsRule(askedRule')
      /\ RuleIsAsAsked'
  BY <1>1 DEF OtherChange, RulePageInv, PageShapes, IsRule, RuleIsAsAsked
<1>3. PageShapes'
  BY <1>1, <1>2 DEF OtherChange, RulePageInv, PageShapes
<1>4. CallsInOrder'
  BY DEF OtherChange, RulePageInv, CallsInOrder
<1> QED
  BY <1>1, <1>2, <1>3, <1>4 DEF RulePageInv, PageIsSure

(* Every step of the page, and of the others, keeps the invariant.          *)
LEMMA RulePageStep == RulePageInv /\ [RulePageNext]_rulePageVars => RulePageInv'
<1> SUFFICES ASSUME RulePageInv, [RulePageNext]_rulePageVars PROVE RulePageInv'
  OBVIOUS
<1>1. CASE UNCHANGED rulePageVars
  BY <1>1 DEF rulePageVars, RulePageInv, PageShapes, CallsInOrder, PageIsSure, RuleIsAsAsked
<1> QED
  BY <1>1, LoadSteps, OperatorSteps, ChangeAppliedStep, AnswerSteps, OtherChangeStep
     DEF RulePageNext

(* The properties the run checks follow from it.                            *)
LEMMA RulePageHolds == RulePageInv => RuleIsAsAsked /\ PageShowsConfirmed /\ RulePageTypeOK
BY DEF RulePageInv, PageShapes, CallsInOrder, PageIsSure, PageShowsConfirmed, RulePageTypeOK,
   IsRule, IsBody, IsTrail, RuleFields

-----------------------------------------------------------------------------
(* The configuration routes.                                                *)

(* A PATCH is a record of its three fields, with a body once it has begun.  *)
IsPatch(p) ==
  /\ p = [stage |-> p.stage, body |-> p.body, current |-> p.current]
  /\ p.stage \in {"idle", "read", "valid"}
  /\ p.stage # "idle" => p.body \in BudgetBodies

(* The history holds the two rows, and a budget that is there is coherent.  *)
ConfigInv ==
  /\ DOMAIN patch = Patchers /\ \A w \in Patchers : IsPatch(patch[w])
  /\ IsThere(budgetRow) => DOMAIN budgetRow = {"scope", "clientId", "limitUsd"}
  /\ IsThere(ruleRow) => DOMAIN ruleRow = {"priority", "enabled"}
  /\ IsThere(budgetRow) => IsCoherent(budgetRow)
  /\ asked = [budget |-> budgetRow, rule |-> ruleRow]

(* What is merged into a row leaves its fields the ones it has.             *)
LEMMA MergedKeepsFields ==
  ASSUME NEW row, NEW sent
  PROVE  DOMAIN Merged(row, sent) = DOMAIN row
BY DEF Merged

(* It holds of a deployment that begins with neither row.                   *)
LEMMA ConfigInitHolds == ConfigInit => ConfigInv
BY DEF ConfigInit, ConfigInv, IsPatch, NoPatch, IsThere

(* A PATCH that is stepped on remains one.                                  *)
LEMMA PatchesRemain ==
  ASSUME NEW w \in Patchers, NEW p, IsPatch(p), DOMAIN patch = Patchers,
         \A v \in Patchers : IsPatch(patch[v]), patch' = [patch EXCEPT ![w] = p]
  PROVE  DOMAIN patch' = Patchers /\ \A v \in Patchers : IsPatch(patch'[v])
<1>1. \A v \in Patchers : patch'[v] = IF v = w THEN p ELSE patch[v]
  OBVIOUS
<1> QED
  BY <1>1

(* Every step of the routes preserves it: a PATCH writes over the row what  *)
(* it writes over the history, and only where the CHECK admits the result.  *)
LEMMA ConfigStep == ConfigInv /\ [ConfigNext]_configVars => ConfigInv'
<1> SUFFICES ASSUME ConfigInv, [ConfigNext]_configVars PROVE ConfigInv'
  OBVIOUS
<1>1. ASSUME NEW b \in BudgetRows, PostBudget(b) PROVE ConfigInv'
  BY <1>1, ConfigAssumption DEF PostBudget, ConfigInv, IsThere
<1>2. ASSUME NEW w \in Patchers, NEW sent \in BudgetBodies, ReadBudgetRow(w, sent)
      PROVE  ConfigInv'
  <2>1. IsPatch([stage |-> "read", body |-> sent, current |-> budgetRow])
    BY DEF IsPatch
  <2>2. DOMAIN patch' = Patchers /\ \A v \in Patchers : IsPatch(patch'[v])
    BY <1>2, <2>1, PatchesRemain DEF ReadBudgetRow, ConfigInv
  <2> QED
    BY <1>2, <2>2 DEF ReadBudgetRow, ConfigInv
<1>3. ASSUME NEW w \in Patchers, ValidateBudget(w) PROVE ConfigInv'
  <2> DEFINE p == IF IsCoherent(Merged(patch[w].current, patch[w].body))
                    THEN [patch[w] EXCEPT !.stage = "valid"] ELSE NoPatch
  <2>1. IsPatch(p)
    BY <1>3 DEF ValidateBudget, ConfigInv, IsPatch, NoPatch
  <2>2. patch' = [patch EXCEPT ![w] = p]
    BY <1>3 DEF ValidateBudget, ConfigInv
  <2> HIDE DEF p
  <2>3. DOMAIN patch' = Patchers /\ \A v \in Patchers : IsPatch(patch'[v])
    BY <2>1, <2>2, PatchesRemain DEF ConfigInv
  <2> QED
    BY <1>3, <2>3 DEF ValidateBudget, ConfigInv
<1>4. ASSUME NEW w \in Patchers, UpdateBudget(w) PROVE ConfigInv'
  <2>1. IsPatch(NoPatch)
    BY DEF IsPatch, NoPatch
  <2>2. DOMAIN patch' = Patchers /\ \A v \in Patchers : IsPatch(patch'[v])
    BY <1>4, <2>1, PatchesRemain DEF UpdateBudget, ConfigInv
  <2>3. DOMAIN Merged(budgetRow, patch[w].body) = DOMAIN budgetRow
    BY MergedKeepsFields
  <2>4. CASE IsThere(budgetRow) /\ IsCoherent(Written(budgetRow, w))
    <3>1. budgetRow' = Merged(budgetRow, patch[w].body)
      BY <1>4, <2>4 DEF UpdateBudget, Written
    <3>2. asked' = [budget |-> Merged(budgetRow, patch[w].body), rule |-> ruleRow]
      BY <1>4, <2>4 DEF UpdateBudget, ConfigInv
    <3> QED
      BY <1>4, <2>2, <2>3, <2>4, <3>1, <3>2 DEF UpdateBudget, ConfigInv, Written
  <2>5. CASE ~(IsThere(budgetRow) /\ IsCoherent(Written(budgetRow, w)))
    BY <1>4, <2>2, <2>5 DEF UpdateBudget, ConfigInv
  <2> QED
    BY <2>4, <2>5
<1>5. CASE DeleteBudget
  BY <1>5 DEF DeleteBudget, ConfigInv, IsThere
<1>6. ASSUME NEW rule \in RuleRows, PostRule(rule) PROVE ConfigInv'
  BY <1>6, ConfigAssumption DEF PostRule, ConfigInv
<1>7. ASSUME NEW sent \in RuleBodies, PatchRule(sent) PROVE ConfigInv'
  BY <1>7, MergedKeepsFields DEF PatchRule, ConfigInv
<1>8. CASE DeleteRule
  BY <1>8 DEF DeleteRule, ConfigInv, IsThere
<1>9. CASE UNCHANGED configVars
  BY <1>9 DEF configVars, ConfigInv
<1> QED
  BY <1>1, <1>2, <1>3, <1>4, <1>5, <1>6, <1>7, <1>8, <1>9 DEF ConfigNext

(* The invariant says what operators are promised of the two rows.          *)
LEMMA ConfigHolds == ConfigInv => RowsAreAsAsked /\ ConfigTypeOK
BY DEF ConfigInv, RowsAreAsAsked, ConfigTypeOK, IsPatch

-----------------------------------------------------------------------------
(* The command line.                                                        *)

Agree(rows, ids) ==
  \A id \in ids :
    /\ id \in DOMAIN store <=> id \in DOMAIN rows
    /\ id \in DOMAIN store => store[id] = rows[id]

Known == (1..lastRow) \ doubtful

(* A command that runs; once it is answered, done says what the exit code   *)
(* will.                                                                    *)
IsRun(r) ==
  /\ DOMAIN r = {"command", "id", "stage", "status", "body", "rows", "done"}
  /\ r.command \in Commands /\ r.id \in Nat /\ r.stage \in {"sent", "checking", "answered"}
  /\ r.done \in BOOLEAN /\ r.status \in Nat
  /\ r.stage = "checking" => r.command.verb = "health"
  /\ r.stage = "answered" =>
       r.done = (ExitOf(r.command.verb, r.status, r.body) = 0)

(* What the operator will note of an answer that is on its way agrees.      *)
NotedAgrees ==
  LET verb == running.command.verb
  IN  /\ Agree(Noted(verb), IF verb = "list" THEN 1..lastRow ELSE Known)
      /\ DOMAIN Noted(verb) \subseteq 1..lastRow

(* With the answer the ledger will agree, and without it but for the row    *)
(* the command was about.                                                   *)
AnswerIsKept ==
  running.stage = "answered" =>
    /\ running.done => NotedAgrees
    /\ ~running.done \/ running.command.method = "GET" => Agree(ledger, Known)
    /\ Agree(ledger, Known \ {running.id})

CliInv ==
  /\ lastRow \in 0..MaxRows /\ losses \in 0..MaxLosses /\ upheavals \in 0..MaxUpheavals
  /\ DOMAIN store \subseteq 1..lastRow /\ DOMAIN ledger \subseteq 1..lastRow
  /\ doubtful \subseteq 1..lastRow
  /\ condition \in [db : BOOLEAN, pricing : BOOLEAN, token : BOOLEAN]
  /\ exit \in {0, 1, 3, 4}
  /\ ended # NoAnswer => (exit = 0) = ended
  /\ running = AtPrompt \/ IsRun(running)
  /\ running.stage # "answered" => Agree(ledger, Known)
  /\ AnswerIsKept

(* A command that reads changes nothing.                                    *)
LEMMA GetsOnlyTell ==
  ASSUME NEW c \in Commands, c.method = "GET"
  PROVE  c.verb \notin {"create", "complete", "update", "delete", "revoke"}
BY DEF Commands, BudgetCommands, RuleCommands, KeyCommands, TelemetryCommands,
       ProgramCommands, Command

(* Nothing has been run, and nothing is known.                              *)
LEMMA CliInitHolds == CliInit => CliInv
BY CliAssumption DEF CliInit, CliInv, AtPrompt, AnswerIsKept, Agree, Known

(* A step that leaves rows and ledger alone, and what is running unanswered.*)
LEMMA StillUnanswered ==
  ASSUME CliInv, running.stage # "answered", IsRun(running'), running'.stage # "answered",
         UNCHANGED << store, lastRow, condition, ledger, doubtful, exit, ended, losses, upheavals >>
  PROVE  CliInv'
BY DEF CliInv, AnswerIsKept, Agree, Known

(* An answer to a command that changed no row.                              *)
LEMMA AnsweredAsBefore ==
  ASSUME CliInv, running.stage # "answered", IsRun(running'), running'.stage = "answered",
         running'.done =>
           /\ running'.command.verb \notin {"create", "complete", "update", "delete", "revoke"}
           /\ running'.command.verb = "list" => running'.rows = store,
         UNCHANGED << store, lastRow, condition, ledger, doubtful, exit, ended, losses, upheavals >>
  PROVE  CliInv'
<1>1. Agree(ledger, Known) /\ Agree(ledger, Known)'
  BY DEF CliInv, Agree, Known
<1>2. Agree(ledger, Known \ {running.id})'
  BY <1>1 DEF Agree, Known
<1>3. ASSUME running'.done PROVE NotedAgrees'
  <2>1. CASE running'.command.verb = "list"
    <3>1. Noted(running.command.verb)' = store'
      BY <1>3, <2>1 DEF Noted
    <3> QED
      BY <2>1, <3>1 DEF NotedAgrees, Agree, CliInv
  <2>2. CASE running'.command.verb # "list"
    <3>1. Noted(running.command.verb)' = ledger'
      BY <1>3, <2>2 DEF Noted
    <3> QED
      BY <1>1, <2>2, <3>1 DEF NotedAgrees, CliInv
  <2> QED
    BY <2>1, <2>2
<1> QED
  BY <1>1, <1>2, <1>3 DEF CliInv, AnswerIsKept

(* What an action makes of the command that runs.                           *)
LEMMA AnswerWithAnswers ==
  ASSUME IsRun(running), NEW status \in Nat, NEW sent, NEW id \in Nat,
         AnswerWith(status, sent, id),
         status >= 400 \/ running.command.verb \notin {"health", "replay"}
  PROVE  /\ IsRun(running') /\ running'.stage = "answered" /\ running'.id = id
         /\ running'.command = running.command /\ running'.rows = store'
         /\ running'.done = (status < 400)
BY DEF AnswerWith, IsRun, ExitOf

(* A command is sent, or is not.                                            *)
LEMMA SendingSteps ==
  ASSUME CliInv,
         \/ \E command \in Commands : NotSent(command)
         \/ \E command \in Commands, id \in 1..MaxRows : SendRequest(command, id)
  PROVE  CliInv'
<1>1. ASSUME NEW command \in Commands, NotSent(command) PROVE CliInv'
  BY <1>1 DEF NotSent, CliInv, AnswerIsKept, Agree, Known, AtPrompt
<1>2. ASSUME NEW command \in Commands, NEW id \in 1..MaxRows, SendRequest(command, id)
      PROVE  CliInv'
  <2>1. IsRun(running') /\ running'.stage = "sent"
    BY <1>2, CliAssumption DEF SendRequest, IsRun
  <2> QED
    BY <1>2, <2>1, StillUnanswered DEF SendRequest, Around, AtPrompt
<1> QED
  BY <1>1, <1>2

(* What the server answers to a command that changes no row.                *)
LEMMA TellingSteps ==
  ASSUME CliInv, Refused \/ Malformed \/ Tells \/ Replays \/ Probes \/ ChecksPricing
  PROVE  CliInv'
<1>1. UNCHANGED << store, lastRow, condition, ledger, doubtful, exit, ended, losses, upheavals >>
  BY DEF Refused, Malformed, Tells, Replays, Probes, ChecksPricing, Around
<1>0. running.stage \in {"sent", "checking"}
  BY DEF Refused, Malformed, Tells, Replays, Probes, ChecksPricing, Reached, Served
<1>a. IsRun(running) /\ running.stage # "answered"
  BY <1>0 DEF CliInv, AtPrompt
<1>2. CASE Refused
  <2>1. IsRun(running') /\ running'.stage = "answered" /\ ~running'.done
    BY <1>a, <1>2, AnswerWithAnswers DEF Refused, IsRun
  <2> QED
    BY <1>1, <1>a, <2>1, AnsweredAsBefore
<1>3. CASE Malformed
  <2>1. IsRun(running') /\ running'.stage = "answered" /\ ~running'.done
    BY <1>a, <1>3, AnswerWithAnswers DEF Malformed, IsRun
  <2> QED
    BY <1>1, <1>a, <2>1, AnsweredAsBefore
<1>4. CASE Tells
  <2>1. /\ IsRun(running') /\ running'.stage = "answered" /\ running'.rows = store
        /\ running'.command.verb \notin {"create", "complete", "update", "delete", "revoke"}
    BY <1>1, <1>a, <1>4, AnswerWithAnswers DEF Tells, Served, Reached, IsRun
  <2> QED
    BY <1>1, <1>a, <2>1, AnsweredAsBefore
<1>5. CASE Replays
  <2>1. PICK matches \in BOOLEAN :
          running' = [running EXCEPT !.stage = "answered", !.status = 200,
                        !.body = [matches |-> matches], !.done = matches]
    BY <1>5 DEF Replays
  <2> DEFINE sent == [matches |-> matches]
  <2>3. ExitOf("replay", 200, sent) = IF matches THEN 0 ELSE 1
    BY DEF ExitOf
  <2>4. running' = [running EXCEPT !.stage = "answered", !.status = 200, !.body = sent,
                                   !.done = matches]
    BY <2>1
  <2> HIDE DEF sent
  <2>5. running.command.verb = "replay"
    BY <1>5 DEF Replays, Served, Reached
  <2>2. /\ IsRun(running') /\ running'.stage = "answered"
        /\ running'.command.verb = "replay"
    BY <1>a, <2>3, <2>4, <2>5 DEF IsRun
  <2> QED
    BY <1>1, <1>a, <2>2, AnsweredAsBefore
<1>6. CASE Probes
  <2>1. IsRun(running') /\ running'.stage = "checking"
    BY <1>a, <1>6 DEF Probes, Reached, IsRun, CliInv
  <2> QED
    BY <1>1, <1>a, <2>1, StillUnanswered
<1>7. CASE ChecksPricing
  <2> DEFINE allOk == running.done /\ condition.db /\ condition.pricing
  <2>1. /\ IsRun(running') /\ running'.stage = "answered"
        /\ running'.command.verb = "health"
    BY <1>a, <1>7 DEF ChecksPricing, IsRun, ExitOf, CliInv
  <2> QED
    BY <1>1, <1>a, <2>1, AnsweredAsBefore
<1> QED
  BY <1>2, <1>3, <1>4, <1>5, <1>6, <1>7

(* A command that changes rows is carried out: what its answer will tell is *)
(* what the rows become.                                                    *)
LEMMA ChangingSteps ==
  ASSUME CliInv, Creates \/ Changes \/ Deletes
  PROVE  CliInv'
<1>1. /\ UNCHANGED << condition, ledger, doubtful, exit, ended, losses, upheavals >>
      /\ running.stage = "sent" /\ IsRun(running) /\ Agree(ledger, Known)
  BY DEF Creates, Changes, Deletes, Around, Reached, Served, CliInv, AtPrompt
<1>2. ASSUME lastRow' \in 0..MaxRows, lastRow <= lastRow', DOMAIN store' \subseteq 1..lastRow',
             IsRun(running'), running'.stage = "answered",
             running'.command.method # "GET",
             running'.done => NotedAgrees',
             ~running'.done => Agree(ledger, Known)',
             Agree(ledger, Known \ {running.id})'
      PROVE  CliInv'
  BY <1>1, <1>2 DEF CliInv, AnswerIsKept
<1>3. CASE Creates
  <2>1. /\ lastRow' = lastRow + 1 /\ lastRow' \in 1..MaxRows /\ lastRow \in Nat
        /\ store' = WithNew(store, lastRow')
        /\ AnswerWith(201, << >>, lastRow')
        /\ running.command.verb \in {"create", "complete"}
    BY <1>3, CliAssumption DEF Creates, Served, Reached, CliInv
  <2>2. /\ IsRun(running') /\ running'.stage = "answered" /\ running'.id = lastRow'
        /\ running'.command = running.command /\ running'.done = TRUE
    <3>1. lastRow' \in Nat /\ 201 \in Nat /\ running.command.verb \notin {"health", "replay"}
      BY <2>1
    <3>2. AnswerWith(201, << >>, lastRow')
      BY <2>1
    <3>3. IsRun(running)
      BY <1>1
    <3> QED
      BY <3>1, <3>2, <3>3, AnswerWithAnswers DEF IsRun
  <2>3. running.command.method # "GET"
    BY <1>1, <2>1, GetsOnlyTell DEF IsRun
  <2>4. DOMAIN store' = DOMAIN store \union {lastRow'} /\ DOMAIN store' \subseteq 1..lastRow'
    BY <2>1 DEF WithNew, CliInv
  <2>5. /\ Noted(running.command.verb)' = WithNew(ledger, lastRow')
    BY <1>1, <2>1, <2>2 DEF Noted
  <2>6. NotedAgrees'
    BY <1>1, <2>1, <2>2, <2>4, <2>5 DEF NotedAgrees, Agree, Known, WithNew, CliInv
  <2>7. Agree(ledger, Known \ {running.id})'
    BY <1>1, <2>1, <2>2, <2>4 DEF Agree, Known, WithNew, CliInv
  <2> QED
    BY <1>2, <2>1, <2>2, <2>3, <2>4, <2>6, <2>7
<1>4. CASE Changes
  <2>1. /\ lastRow' = lastRow
        /\ store' = [id \in DOMAIN store |-> IF id = running.id THEN "changed" ELSE store[id]]
        /\ AnswerWith(IF running.id \in DOMAIN store THEN 200 ELSE 404, << >>, running.id)
        /\ running.command.verb = "update"
    BY <1>4 DEF Changes, Served, Reached
  <2>2. /\ IsRun(running') /\ running'.stage = "answered" /\ running'.id = running.id
        /\ running'.command = running.command
        /\ running'.done = (running.id \in DOMAIN store)
    BY <1>1, <2>1, AnswerWithAnswers DEF IsRun
  <2>3. running.command.method # "GET"
    BY <1>1, <2>1, GetsOnlyTell DEF IsRun
  <2>4. DOMAIN store' = DOMAIN store
    BY <2>1
  <2>5. running'.done => Noted(running.command.verb)' =
          [id \in DOMAIN ledger |-> IF id = running.id THEN "changed" ELSE ledger[id]]
    BY <1>1, <2>1, <2>2 DEF Noted
  <2>6. running'.done => NotedAgrees'
    BY <1>1, <2>1, <2>2, <2>4, <2>5 DEF NotedAgrees, Agree, Known, CliInv
  <2>7. Agree(ledger, Known \ {running.id})' /\ (~running'.done => Agree(ledger, Known)')
    BY <1>1, <2>1, <2>2, <2>4 DEF Agree, Known, CliInv
  <2> QED
    BY <1>2, <2>1, <2>2, <2>3, <2>4, <2>6, <2>7 DEF CliInv
<1>5. CASE Deletes
  <2>1. /\ lastRow' = lastRow
        /\ store' = [id \in DOMAIN store \ {running.id} |-> store[id]]
        /\ AnswerWith(IF running.id \in DOMAIN store \/ running.command.verb = "revoke"
                        THEN 204 ELSE 404, << >>, running.id)
        /\ running.command.verb \in {"delete", "revoke"}
    BY <1>5 DEF Deletes, Served, Reached
  <2>2. /\ IsRun(running') /\ running'.stage = "answered" /\ running'.id = running.id
        /\ running'.command = running.command
        /\ running'.done \/ running.id \notin DOMAIN store
    <3> DEFINE status == IF running.id \in DOMAIN store \/ running.command.verb = "revoke"
                           THEN 204 ELSE 404
    <3>1. status \in Nat /\ (running.id \in DOMAIN store => status < 400)
      OBVIOUS
    <3>2. AnswerWith(status, << >>, running.id)
      BY <2>1
    <3> HIDE DEF status
    <3>3. running.command.verb \notin {"health", "replay"} /\ running.id \in Nat
      BY <1>1, <2>1 DEF IsRun
    <3>4. IsRun(running)
      BY <1>1
    <3>5. /\ IsRun(running') /\ running'.stage = "answered" /\ running'.id = running.id
          /\ running'.command = running.command /\ running'.done = (status < 400)
      BY <3>1, <3>2, <3>3, <3>4, AnswerWithAnswers
    <3> QED
      BY <3>1, <3>5
  <2>3. running.command.method # "GET"
    BY <1>1, <2>1, GetsOnlyTell DEF IsRun
  <2>4. DOMAIN store' = DOMAIN store \ {running.id}
    BY <2>1
  <2>5. running'.done => Noted(running.command.verb)' =
          [id \in DOMAIN ledger \ {running.id} |-> ledger[id]]
    BY <1>1, <2>1, <2>2 DEF Noted
  <2>6. running'.done => NotedAgrees'
    BY <1>1, <2>1, <2>2, <2>4, <2>5 DEF NotedAgrees, Agree, Known, CliInv
  <2>7. Agree(ledger, Known \ {running.id})' /\ (~running'.done => Agree(ledger, Known)')
    BY <1>1, <2>1, <2>2, <2>4 DEF Agree, Known, CliInv
  <2> QED
    BY <1>2, <2>1, <2>2, <2>3, <2>4, <2>6, <2>7 DEF CliInv
<1> QED
  BY <1>3, <1>4, <1>5

(* The command ends: its exit code is told apart by done, and the ledger    *)
(* takes its answer in.                                                     *)
LEMMA ExitStep ==
  ASSUME CliInv, Exits
  PROVE  CliInv'
<1> DEFINE verb == running.command.verb
<1>1. /\ running.stage = "answered" /\ IsRun(running) /\ AnswerIsKept
      /\ running' = AtPrompt /\ ended' = running.done
      /\ UNCHANGED << store, lastRow, condition, losses, upheavals >>
  BY DEF Exits, CliInv, AtPrompt
<1>2. exit' = ExitOf(verb, running.status, running.body) /\ exit' \in {0, 1, 3, 4}
  BY DEF Exits, ExitOf
<1>3. (exit' = 0) = ended'
  BY <1>1, <1>2 DEF IsRun
<1>4. AtPrompt.stage # "answered"
  BY DEF AtPrompt
<1>5. CASE exit' = 0
  <2>1. /\ ledger' = Noted(verb) /\ doubtful' = IF verb = "list" THEN {} ELSE doubtful
        /\ NotedAgrees
    BY <1>1, <1>3, <1>5 DEF Exits, AnswerIsKept
  <2>2. Agree(ledger, Known)' /\ DOMAIN ledger' \subseteq 1..lastRow'
    BY <1>1, <2>1 DEF NotedAgrees, Agree, Known
  <2> QED
    BY <1>1, <1>2, <1>3, <1>4, <2>1, <2>2 DEF CliInv, AnswerIsKept
<1>6. CASE exit' # 0
  <2>1. ledger' = ledger /\ doubtful' = doubtful /\ Agree(ledger, Known)
    BY <1>1, <1>3, <1>6 DEF Exits, AnswerIsKept, IsRun
  <2>2. Agree(ledger, Known)'
    BY <1>1, <2>1 DEF Agree, Known
  <2> QED
    BY <1>1, <1>2, <1>3, <1>4, <2>1, <2>2 DEF CliInv, AnswerIsKept
<1> QED
  BY <1>5, <1>6

(* The connection breaks: a row of which the answer is lost is doubtful.    *)
LEMMA BreakStep ==
  ASSUME CliInv, ConnectionBreaks
  PROVE  CliInv'
<1>1. /\ exit' = 1 /\ ended' = NoAnswer /\ running' = AtPrompt /\ running'.stage = "none"
      /\ losses' \in 0..MaxLosses /\ IsRun(running)
      /\ UNCHANGED << store, lastRow, condition, ledger, upheavals >>
  BY CliAssumption DEF ConnectionBreaks, CliInv, AtPrompt
<1>2. doubtful' \subseteq 1..lastRow' /\ Agree(ledger, Known)'
  <2>1. CASE running.stage = "answered" /\ running.command.method # "GET"
    <3>1. doubtful' = doubtful \union ({running.id} \intersect 1..lastRow)
      BY <2>1 DEF ConnectionBreaks
    <3>2. Agree(ledger, Known \ {running.id})
      BY <2>1 DEF CliInv, AnswerIsKept
    <3> QED
      BY <1>1, <3>1, <3>2 DEF Agree, Known, CliInv
  <2>2. CASE ~(running.stage = "answered" /\ running.command.method # "GET")
    <3>1. doubtful' = doubtful /\ Agree(ledger, Known)
      BY <2>2 DEF ConnectionBreaks, CliInv, AnswerIsKept
    <3> QED
      BY <1>1, <3>1 DEF Agree, Known, CliInv
  <2> QED
    BY <2>1, <2>2
<1> QED
  BY <1>1, <1>2 DEF CliInv, AnswerIsKept

(* The service becomes unavailable, or available again.                     *)
LEMMA ConditionStep ==
  ASSUME CliInv, ConditionChanges
  PROVE  CliInv'
<1>1. upheavals' \in 0..MaxUpheavals
  BY CliAssumption DEF ConditionChanges, CliInv
<1>2. condition' \in [db : BOOLEAN, pricing : BOOLEAN, token : BOOLEAN]
  BY DEF ConditionChanges, CliInv
<1>3. UNCHANGED << store, lastRow, running, exit, ended, ledger, doubtful, losses >>
  BY DEF ConditionChanges
<1>4. AnswerIsKept'
  BY <1>3, Zenon DEF CliInv, AnswerIsKept, NotedAgrees, Noted, Agree, Known
<1>5. running'.stage # "answered" => Agree(ledger, Known)'
  BY <1>3 DEF CliInv, Agree, Known
<1> QED
  BY <1>1, <1>2, <1>3, <1>4, <1>5 DEF CliInv

(* Every step keeps the invariant.                                          *)
LEMMA CliStep == CliInv /\ [CliNext]_cliVars => CliInv'
<1> SUFFICES ASSUME CliInv, [CliNext]_cliVars PROVE CliInv'
  OBVIOUS
<1>1. CASE UNCHANGED cliVars
  BY <1>1 DEF cliVars, CliInv, AnswerIsKept, NotedAgrees, Noted, Agree, Known
<1> QED
  BY <1>1, SendingSteps, TellingSteps, ChangingSteps, ExitStep, BreakStep, ConditionStep
     DEF CliNext

(* The properties the run checks follow from it.                            *)
LEMMA CliHolds == CliInv => LedgerAgrees /\ CliTypeOK
BY DEF CliInv, LedgerAgrees, CliTypeOK, IsRun, Agree, Known, AtPrompt

-----------------------------------------------------------------------------
(* The keys of applications (ApiKeys).  A replica remembers keys that were *)
(* created, each once and no more of them than its cache holds; a key that  *)
(* was created stays one, so that what is being verified meanwhile stays    *)
(* what it was.                                                             *)

CacheEntries == [key : Keys, left : -1..CacheTtl]

(* What a replica remembers: no more than it may, each key once, and only   *)
(* keys that were created.                                                  *)
IsCache(entries) ==
  /\ entries \in Seq(CacheEntries) /\ Len(entries) <= CacheMax
  /\ \A i, j \in 1..Len(entries) : entries[i].key = entries[j].key => i = j
  /\ \A i \in 1..Len(entries) : keyRow[entries[i].key] # "none"

IsVerification(v) ==
  /\ v.stage \in {"idle", "lookup", "hashing"} /\ v.verdict \in {"none", "accepted", "refused"}
  /\ v.stage # "idle" => v.key \in Keys /\ v.replica \in KeyReplicas
  /\ v.stage = "hashing" => keyRow[v.key] # "none"

IsRevocation(r) ==
  /\ r \in [ key : Keys \union {NoKey}, replica : KeyReplicas \union {NoKeyReplica},
             answered : SUBSET Keys ]
  /\ r.key # NoKey => r.replica \in KeyReplicas
  /\ \A k \in r.answered : keyRow[k] = "revoked"

KeysInv ==
  /\ keyRow \in [Keys -> {"none", "active", "revoked"}]
  /\ DOMAIN verifyCache = KeyReplicas /\ \A p \in KeyReplicas : IsCache(verifyCache[p])
  /\ DOMAIN verification = Verifications
  /\ \A c \in Verifications :
       /\ IsVerification(verification[c])
       /\ verification[c].stage # "idle" =>
            verification[c] \in [stage : {"lookup", "hashing"}, key : Keys, genuine : BOOLEAN,
                                 replica : KeyReplicas, verdict : {"none"}]
  /\ DOMAIN revocation = Revocations /\ \A w \in Revocations : IsRevocation(revocation[w])

(* Nothing is remembered at first.                                          *)
LEMMA KeysInitHolds == KeysInit => KeysInv
  <1> SUFFICES ASSUME KeysInit PROVE KeysInv
    OBVIOUS
  <1>1. IsCache(<< >>)
    BY ApiKeysAssumption DEF IsCache
  <1>2. IsVerification(NoVerification("none")) /\ NoVerification("none").stage = "idle"
    BY DEF IsVerification, NoVerification
  <1>3. IsRevocation(NoRevocation({}))
    BY DEF IsRevocation, NoRevocation
  <1>4. QED
    BY <1>1, <1>2, <1>3 DEF KeysInit, KeysInv

(* Dropping an entry leaves a cache.                                        *)
LEMMA WithoutIsCache ==
  ASSUME NEW entries, IsCache(entries), NEW k \in Keys
  PROVE  IsCache(Without(entries, k))
  <1> DEFINE places == {i \in DOMAIN entries : entries[i].key = k}
             place == CHOOSE i \in places : TRUE
             at(i) == IF i < place THEN i ELSE i + 1
             rest == [i \in 1..(Len(entries) - 1) |-> entries[at(i)]]
  <1>1. CASE places = {}
    BY <1>1 DEF Without
  <1>2. CASE places # {}
    <2>1. place \in places
      BY <1>2
    <2>2. Without(entries, k) = rest
      BY <1>2 DEF Without
    <2>3. entries \in Seq(CacheEntries) /\ DOMAIN entries = 1..Len(entries) /\ Len(entries) \in Nat
      BY DEF IsCache
    <2>4. place \in 1..Len(entries)
      BY <2>1, <2>3
    <2> HIDE DEF place, places
    <2>5. Len(entries) - 1 \in Nat
      BY <2>3, <2>4
    <2>6. \A i \in 1..(Len(entries) - 1) : at(i) \in 1..Len(entries) /\ entries[at(i)] \in CacheEntries
      BY <2>3, <2>4
    <2>7. \A i, j \in 1..(Len(entries) - 1) : at(i) = at(j) => i = j
      BY <2>4
    <2> HIDE DEF at
    <2>8. rest \in Seq(CacheEntries) /\ Len(rest) = Len(entries) - 1
      BY <2>5, <2>6
    <2>9. \A i \in 1..Len(rest) : rest[i] = entries[at(i)] /\ at(i) \in 1..Len(entries)
      BY <2>6, <2>8
    <2> HIDE DEF rest
    <2>10. \A i, j \in 1..Len(rest) : rest[i].key = rest[j].key => i = j
      BY <2>7, <2>8, <2>9 DEF IsCache
    <2>11. \A i \in 1..Len(rest) : keyRow[rest[i].key] # "none"
      BY <2>9 DEF IsCache
    <2>12. Len(rest) <= CacheMax
      BY <2>3, <2>8, ApiKeysAssumption DEF IsCache
    <2>13. IsCache(rest)
      BY <2>8, <2>10, <2>11, <2>12 DEF IsCache
    <2>14. QED
      BY <2>2, <2>13
  <1>3. QED
    BY <1>1, <1>2

(* Remembering a key that was created leaves a cache.                       *)
LEMMA RememberedIsCache ==
  ASSUME NEW entries, IsCache(entries), NEW k \in Keys, keyRow[k] # "none"
  PROVE  IsCache(Remembered(entries, k))
  <1> DEFINE room == IF Len(entries) >= CacheMax THEN Tail(entries) ELSE entries
             fresh == [key |-> k, left |-> CacheTtl]
             renewed == [i \in DOMAIN room |-> IF room[i].key = k THEN fresh ELSE room[i]]
  <1>1. fresh \in CacheEntries /\ fresh.key = k
    BY ApiKeysAssumption DEF CacheEntries
  <1>2. entries \in Seq(CacheEntries) /\ Len(entries) \in Nat /\ CacheMax \in Nat \ {0}
        /\ Len(entries) <= CacheMax
    BY ApiKeysAssumption DEF IsCache
  <1>3. IsCache(room) /\ Len(room) < CacheMax
    <2>1. CASE Len(entries) >= CacheMax
      <3>1. entries # << >> /\ room = Tail(entries)
        BY <1>2, <2>1
      <3>2. /\ Tail(entries) \in Seq(CacheEntries) /\ Len(Tail(entries)) = Len(entries) - 1
            /\ \A i \in 1..Len(Tail(entries)) :
                 Tail(entries)[i] = entries[i + 1] /\ i + 1 \in 1..Len(entries)
        BY <1>2, <3>1
      <3> DEFINE tail == Tail(entries)
      <3> HIDE DEF tail
      <3>3. /\ tail \in Seq(CacheEntries) /\ Len(tail) = Len(entries) - 1
            /\ \A i \in 1..Len(tail) : tail[i] = entries[i + 1] /\ i + 1 \in 1..Len(entries)
        BY <3>2 DEF tail
      <3>4. \A i, j \in 1..Len(tail) : tail[i].key = tail[j].key => i = j
        <4> TAKE i, j \in 1..Len(tail)
        <4>1. entries[i + 1].key = entries[j + 1].key => i + 1 = j + 1
          BY <3>3 DEF IsCache
        <4>2. QED
          BY <3>3, <4>1
      <3>5. \A i \in 1..Len(tail) : keyRow[tail[i].key] # "none"
        BY <3>3 DEF IsCache
      <3>6. IsCache(tail) /\ Len(tail) < CacheMax
        BY <1>2, <3>3, <3>4, <3>5 DEF IsCache
      <3>7. room = tail
        BY <3>1 DEF tail
      <3>8. QED
        BY <3>6, <3>7
    <2>2. CASE ~(Len(entries) >= CacheMax)
      BY <1>2, <2>2
    <2>3. QED
      BY <2>1, <2>2
  <1> HIDE DEF room, fresh
  <1>4. room \in Seq(CacheEntries) /\ DOMAIN room = 1..Len(room) /\ Len(room) \in Nat
    BY <1>3 DEF IsCache
  <1>5. CASE \E i \in DOMAIN room : room[i].key = k
    <2>1. Remembered(entries, k) = renewed
      BY <1>5 DEF Remembered, room, fresh
    <2>2. \A i \in 1..Len(room) : renewed[i] \in CacheEntries /\ renewed[i].key = room[i].key
      BY <1>1, <1>4
    <2>3. DOMAIN renewed = 1..Len(room)
      BY <1>4
    <2> HIDE DEF renewed
    <2>4. renewed \in Seq(CacheEntries) /\ Len(renewed) = Len(room)
      <3>1. renewed = [i \in 1..Len(room) |-> IF room[i].key = k THEN fresh ELSE room[i]]
        BY <1>4 DEF renewed
      <3>2. \A i \in 1..Len(room) : (IF room[i].key = k THEN fresh ELSE room[i]) \in CacheEntries
        BY <1>1, <1>4
      <3>3. QED
        BY <1>4, <3>1, <3>2
    <2>5. QED
      BY <1>3, <2>1, <2>2, <2>4 DEF IsCache
  <1>6. CASE ~(\E i \in DOMAIN room : room[i].key = k)
    <2>1. Remembered(entries, k) = Append(room, fresh)
      BY <1>6 DEF Remembered, room, fresh
    <2> DEFINE more == Append(room, fresh)
    <2>2. /\ more \in Seq(CacheEntries) /\ Len(more) = Len(room) + 1
          /\ more[Len(room) + 1] = fresh
          /\ \A i \in 1..Len(room) : more[i] = room[i]
      BY <1>1, <1>4
    <2> HIDE DEF more
    <2>3. \A i \in 1..Len(more) : i \in 1..Len(room) \/ i = Len(room) + 1
      BY <1>4, <2>2
    <2>4. \A i \in 1..Len(room) : room[i].key # k /\ keyRow[room[i].key] # "none"
      BY <1>3, <1>4, <1>6 DEF IsCache
    <2>5. \A i, j \in 1..Len(more) : more[i].key = more[j].key => i = j
      BY <1>1, <1>3, <2>2, <2>3, <2>4 DEF IsCache
    <2>6. \A i \in 1..Len(more) : keyRow[more[i].key] # "none"
      BY <1>1, <2>2, <2>3, <2>4
    <2>7. Len(more) <= CacheMax
      BY <1>2, <1>3, <1>4, <2>2
    <2>8. QED
      BY <2>1, <2>2, <2>5, <2>6, <2>7 DEF IsCache, more
  <1>7. QED
    BY <1>5, <1>6

(* Only rows that are made, and none taken away, leaves caches and the      *)
(* verifications as they were.                                              *)
LEMMA RowsRemain ==
  ASSUME KeysInv, keyRow' \in [Keys -> {"none", "active", "revoked"}],
         \A k \in Keys : keyRow[k] # "none" => keyRow'[k] # "none",
         UNCHANGED << verifyCache, verification >>
  PROVE  /\ \A p \in KeyReplicas : IsCache(verifyCache[p])'
         /\ \A c \in Verifications : IsVerification(verification[c])'
  <1>1. ASSUME NEW p \in KeyReplicas PROVE IsCache(verifyCache[p])'
    <2>1. IsCache(verifyCache[p]) /\ verifyCache'[p] = verifyCache[p]
      BY DEF KeysInv
    <2>2. \A i \in 1..Len(verifyCache[p]) : verifyCache[p][i].key \in Keys
      <3>1. verifyCache[p] \in Seq(CacheEntries)
        BY <2>1 DEF IsCache
      <3>2. \A i \in 1..Len(verifyCache[p]) : verifyCache[p][i] \in CacheEntries
        BY <3>1
      <3>3. QED
        BY <3>2 DEF CacheEntries
    <2>3. QED
      BY <2>1, <2>2 DEF IsCache, CacheEntries
  <1>2. ASSUME NEW c \in Verifications PROVE IsVerification(verification[c])'
    BY DEF KeysInv, IsVerification
  <1>3. QED
    BY <1>1, <1>2

(* Every step of the keys keeps the invariant.                              *)
LEMMA KeysStep == KeysInv /\ [KeysNext]_keyVars => KeysInv'
  <1> SUFFICES ASSUME KeysInv, [KeysNext]_keyVars PROVE KeysInv'
    OBVIOUS
  <1>0. (\A k \in Keys : keyRow[k] = "revoked" => keyRow'[k] = "revoked") =>
          \A w \in Revocations : /\ \A k \in revocation[w].answered : keyRow'[k] = "revoked"
                                 /\ UNCHANGED revocation => IsRevocation(revocation[w])'
    BY DEF KeysInv, IsRevocation
  <1>1. CASE UNCHANGED keyVars
    <2>1. UNCHANGED << keyRow, verifyCache, verification, revocation >>
      BY <1>1 DEF keyVars
    <2>2. \A w \in Revocations : IsRevocation(revocation[w])'
      BY <1>0, <2>1
    <2>3. QED
      BY <2>1, <2>2, RowsRemain DEF KeysInv
  <1>2. ASSUME NEW k \in Keys, CreateKey(k) PROVE KeysInv'
    <2>1. /\ keyRow' \in [Keys -> {"none", "active", "revoked"}]
          /\ \A l \in Keys : /\ keyRow[l] # "none" => keyRow'[l] # "none"
                             /\ keyRow[l] = "revoked" => keyRow'[l] = "revoked"
          /\ UNCHANGED << verifyCache, verification, revocation >>
      BY <1>2 DEF CreateKey, KeysInv
    <2>2. \A w \in Revocations : IsRevocation(revocation[w])'
      BY <1>0, <2>1
    <2>3. QED
      BY <2>1, <2>2, RowsRemain DEF KeysInv
  <1>3. ASSUME NEW w \in Revocations, NEW p \in KeyReplicas, NEW k \in Keys, Revoke(w, p, k)
        PROVE  KeysInv'
    <2>1. /\ keyRow' = [keyRow EXCEPT ![k] = IF @ = "active" THEN "revoked" ELSE @]
          /\ revocation' = [revocation EXCEPT ![w].key = k, ![w].replica = p]
          /\ UNCHANGED << verifyCache, verification >>
      BY <1>3 DEF Revoke
    <2>2. /\ keyRow' \in [Keys -> {"none", "active", "revoked"}]
          /\ \A l \in Keys : /\ keyRow[l] # "none" => keyRow'[l] # "none"
                             /\ keyRow[l] = "revoked" => keyRow'[l] = "revoked"
      BY <2>1 DEF KeysInv
    <2>3. ASSUME NEW v \in Revocations PROVE IsRevocation(revocation[v])'
      <3>1. /\ IsRevocation(revocation[v])
            /\ \A l \in revocation[v].answered : keyRow'[l] = "revoked"
        BY <1>0, <2>2 DEF KeysInv
      <3>2. \/ revocation'[v] = revocation[v]
            \/ revocation'[v] = [revocation[v] EXCEPT !.key = k, !.replica = p]
        BY <2>1 DEF KeysInv
      <3>3. QED
        BY <3>1, <3>2 DEF IsRevocation
    <2>4. QED
      BY <2>1, <2>2, <2>3, RowsRemain DEF KeysInv
  <1>4. ASSUME NEW w \in Revocations, Revoked(w) \/ RevocationLost(w) PROVE KeysInv'
    <2>1. /\ revocation[w].key # NoKey
          /\ UNCHANGED << keyRow, verification >>
      BY <1>4 DEF Revoked, RevocationLost, Revoking
    <2>2. revocation[w].key \in Keys /\ revocation[w].replica \in KeyReplicas
      BY <2>1 DEF KeysInv, IsRevocation
    <2>3. DOMAIN revocation' = Revocations /\ \A v \in Revocations : IsRevocation(revocation[v])'
      <3>1. PICK keys \in SUBSET Keys :
              /\ revocation' = [revocation EXCEPT ![w] = NoRevocation(keys)]
              /\ \A k \in keys : keyRow[k] = "revoked"
        <4>1. IsRevocation(revocation[w])
          BY DEF KeysInv
        <4> DEFINE keys == revocation[w].answered
                             \union {k \in {revocation[w].key} : keyRow[k] = "revoked"}
        <4>2. keys \in SUBSET Keys /\ \A k \in keys : keyRow[k] = "revoked"
          BY <2>2, <4>1 DEF IsRevocation
        <4>3. CASE Revoked(w)
          BY <4>2, <4>3 DEF Revoked
        <4>4. CASE RevocationLost(w)
          BY <4>1, <4>4 DEF RevocationLost, IsRevocation
        <4>5. QED
          BY <1>4, <4>3, <4>4
      <3>2. IsRevocation(NoRevocation(keys))'
        BY <2>1, <3>1 DEF IsRevocation, NoRevocation
      <3>3. \A v \in Revocations \ {w} : IsRevocation(revocation[v])'
        BY <2>1, <3>1 DEF KeysInv, IsRevocation
      <3>4. QED
        BY <3>1, <3>2, <3>3 DEF KeysInv
    <2>4. DOMAIN verifyCache' = KeyReplicas /\ \A p \in KeyReplicas : IsCache(verifyCache'[p])
      <3>1. CASE RevocationLost(w)
        BY <3>1 DEF RevocationLost, KeysInv
      <3>2. CASE Revoked(w)
        <4>1. verifyCache' = [verifyCache EXCEPT ![revocation[w].replica] =
                                Without(@, revocation[w].key)]
          BY <3>2 DEF Revoked
        <4>2. \A p \in KeyReplicas :
                verifyCache'[p] = verifyCache[p]
                  \/ verifyCache'[p] = Without(verifyCache[p], revocation[w].key)
          BY <4>1 DEF KeysInv
        <4>3. QED
          BY <2>2, <4>1, <4>2, WithoutIsCache DEF KeysInv
      <3>3. QED
        BY <1>4, <3>1, <3>2
    <2>5. QED
      BY <2>1, <2>3, <2>4 DEF KeysInv, IsCache, IsVerification
  <1>5. ASSUME NEW c \in Verifications, NEW p \in KeyReplicas, NEW k \in Keys,
               NEW genuine \in BOOLEAN, Present(c, p, k, genuine)
        PROVE  KeysInv'
    <2>1. UNCHANGED << keyRow, revocation >>
      BY <1>5 DEF Present
    <2>2. /\ DOMAIN verification' = Verifications
          /\ \A d \in Verifications : d # c => verification'[d] = verification[d]
          /\ \/ verification'[c] = NoVerification("accepted")
             \/ verification'[c] = [stage |-> "lookup", key |-> k, genuine |-> genuine,
                                    replica |-> p, verdict |-> "none"]
      BY <1>5 DEF Present, KeysInv
    <2>3. DOMAIN verifyCache' = KeyReplicas /\ \A q \in KeyReplicas : IsCache(verifyCache'[q])
      <3>1. CASE UNCHANGED verifyCache
        BY <3>1 DEF KeysInv
      <3>2. CASE verifyCache' = [verifyCache EXCEPT ![p] = IF genuine THEN Without(@, k) ELSE @]
        <4>1. \A q \in KeyReplicas :
                verifyCache'[q] = verifyCache[q] \/ verifyCache'[q] = Without(verifyCache[q], k)
          BY <3>2 DEF KeysInv
        <4>2. QED
          BY <3>2, <4>1, WithoutIsCache DEF KeysInv
      <3>3. QED
        BY <1>5, <3>1, <3>2 DEF Present, Hit
    <2>4. ASSUME NEW d \in Verifications
          PROVE  /\ IsVerification(verification'[d])
                 /\ verification'[d].stage # "idle" =>
                      verification'[d] \in [stage : {"lookup", "hashing"}, key : Keys,
                        genuine : BOOLEAN, replica : KeyReplicas, verdict : {"none"}]
      BY <2>2 DEF KeysInv, IsVerification, NoVerification
    <2>5. QED
      BY <2>1, <2>2, <2>3, <2>4 DEF KeysInv, IsCache, IsVerification, IsRevocation
  <1>6. ASSUME NEW c \in Verifications, LookUp(c) PROVE KeysInv'
    <2>1. UNCHANGED << keyRow, verifyCache, revocation >> /\ verification[c].stage = "lookup"
      BY <1>6 DEF LookUp
    <2>2. verification[c] \in [stage : {"lookup", "hashing"}, key : Keys, genuine : BOOLEAN,
                                replica : KeyReplicas, verdict : {"none"}]
      BY <2>1 DEF KeysInv
    <2>3. verification' = [verification EXCEPT ![c] =
            IF keyRow[verification[c].key] = "active" THEN [@ EXCEPT !.stage = "hashing"]
                                                      ELSE NoVerification("refused")]
      BY <1>6 DEF LookUp
    <2>4. /\ DOMAIN verification' = Verifications
          /\ \A d \in Verifications : d # c => verification'[d] = verification[d]
      BY <2>3 DEF KeysInv
    <2>5. \/ /\ verification'[c] = [verification[c] EXCEPT !.stage = "hashing"]
             /\ keyRow[verification[c].key] = "active"
          \/ verification'[c] = NoVerification("refused")
      BY <2>3 DEF KeysInv
    <2>6. /\ IsVerification(verification'[c])
          /\ verification'[c].stage # "idle" =>
               verification'[c] \in [stage : {"lookup", "hashing"}, key : Keys,
                 genuine : BOOLEAN, replica : KeyReplicas, verdict : {"none"}]
      <3>1. CASE /\ verification'[c] = [verification[c] EXCEPT !.stage = "hashing"]
                 /\ keyRow[verification[c].key] = "active"
        BY <2>2, <3>1 DEF IsVerification
      <3>2. CASE verification'[c] = NoVerification("refused")
        BY <3>2 DEF IsVerification, NoVerification
      <3>3. QED
        BY <2>5, <3>1, <3>2
    <2>7. QED
      BY <2>1, <2>4, <2>6 DEF KeysInv, IsCache, IsVerification, IsRevocation
  <1>7. ASSUME NEW c \in Verifications, HashVerified(c) PROVE KeysInv'
    <2> DEFINE v == verification[c]
    <2>1. UNCHANGED << keyRow, revocation >> /\ v.stage = "hashing"
      BY <1>7 DEF HashVerified
    <2>2. v.key \in Keys /\ v.replica \in KeyReplicas /\ keyRow[v.key] # "none"
      BY <2>1 DEF KeysInv, IsVerification
    <2>3. verification' = [verification EXCEPT ![c] =
            NoVerification(IF v.genuine THEN "accepted" ELSE "refused")]
      BY <1>7 DEF HashVerified
    <2>4. /\ DOMAIN verification' = Verifications
          /\ \A d \in Verifications : d # c => verification'[d] = verification[d]
          /\ \/ verification'[c] = NoVerification("accepted")
             \/ verification'[c] = NoVerification("refused")
      BY <2>3 DEF KeysInv
    <2>5. DOMAIN verifyCache' = KeyReplicas /\ \A q \in KeyReplicas : IsCache(verifyCache'[q])
      <3>1. CASE verifyCache' = verifyCache
        BY <3>1 DEF KeysInv
      <3>2. CASE verifyCache' = [verifyCache EXCEPT ![v.replica] = Remembered(@, v.key)]
        <4>1. \A q \in KeyReplicas :
                \/ verifyCache'[q] = verifyCache[q]
                \/ verifyCache'[q] = Remembered(verifyCache[q], v.key)
          BY <3>2 DEF KeysInv
        <4>2. QED
          BY <2>2, <3>2, <4>1, RememberedIsCache DEF KeysInv
      <3>3. QED
        BY <1>7, <3>1, <3>2 DEF HashVerified
    <2>6. ASSUME NEW d \in Verifications
          PROVE  /\ IsVerification(verification'[d])
                 /\ verification'[d].stage # "idle" =>
                      verification'[d] \in [stage : {"lookup", "hashing"}, key : Keys,
                        genuine : BOOLEAN, replica : KeyReplicas, verdict : {"none"}]
      BY <2>4 DEF KeysInv, IsVerification, NoVerification
    <2>7. QED
      BY <2>1, <2>4, <2>5, <2>6 DEF KeysInv, IsCache, IsVerification, IsRevocation
  <1>8. CASE EntriesAge
    <2> DEFINE Older(entries) ==
          [i \in DOMAIN entries |-> [entries[i] EXCEPT !.left = IF @ < 0 THEN @ ELSE @ - 1]]
    <2>1. /\ verifyCache' = [p \in KeyReplicas |-> Older(verifyCache[p])]
          /\ UNCHANGED << keyRow, verification, revocation >>
      BY <1>8 DEF EntriesAge
    <2>2. ASSUME NEW entries, IsCache(entries) PROVE IsCache(Older(entries))
      <3>1. entries \in Seq(CacheEntries) /\ DOMAIN entries = 1..Len(entries) /\ Len(entries) \in Nat
        BY <2>2 DEF IsCache
      <3> DEFINE older == Older(entries)
                 aged(i) == [entries[i] EXCEPT !.left = IF @ < 0 THEN @ ELSE @ - 1]
      <3>2. \A i \in 1..Len(entries) : aged(i) \in CacheEntries /\ aged(i).key = entries[i].key
        <4> TAKE i \in 1..Len(entries)
        <4>1. entries[i] \in CacheEntries
          BY <3>1
        <4>2. entries[i].left \in -1..CacheTtl /\ CacheTtl \in Nat
          BY <4>1, ApiKeysAssumption DEF CacheEntries
        <4> DEFINE left == IF entries[i].left < 0 THEN entries[i].left ELSE entries[i].left - 1
        <4>3. left \in -1..CacheTtl
          BY <4>2
        <4>4. aged(i) = [entries[i] EXCEPT !.left = left]
          BY <4>1 DEF CacheEntries
        <4> HIDE DEF left
        <4>5. QED
          BY <4>1, <4>3, <4>4 DEF CacheEntries
      <3>3. older = [i \in 1..Len(entries) |-> aged(i)]
        BY <3>1
      <3> HIDE DEF older, aged
      <3>4. older \in Seq(CacheEntries) /\ Len(older) = Len(entries)
        BY <3>1, <3>2, <3>3
      <3>5. \A i \in 1..Len(older) : older[i].key = entries[i].key
        BY <3>2, <3>3, <3>4
      <3>6. IsCache(older)
        BY <2>2, <3>4, <3>5 DEF IsCache
      <3>7. QED
        BY <3>6 DEF older
    <2> HIDE DEF Older
    <2>3. DOMAIN verifyCache' = KeyReplicas /\ \A q \in KeyReplicas : IsCache(verifyCache'[q])
      BY <2>1, <2>2 DEF KeysInv
    <2>4. QED
      BY <2>1, <2>3 DEF KeysInv, IsCache, IsVerification, IsRevocation
  <1>9. QED
    BY <1>1, <1>2, <1>3, <1>4, <1>5, <1>6, <1>7, <1>8 DEF KeysNext

(* The cache of a replica is bounded, and keeps what was created.           *)
LEMMA KeysHold == KeysInv => KeysTypeOK
  <1> SUFFICES ASSUME KeysInv PROVE KeysTypeOK
    OBVIOUS
  <1>1. ASSUME NEW p \in KeyReplicas
        PROVE  /\ Len(verifyCache[p]) <= CacheMax
               /\ \A i, j \in DOMAIN verifyCache[p] :
                    /\ verifyCache[p][i].key \in Keys /\ verifyCache[p][i].left \in -1..CacheTtl
                    /\ verifyCache[p][i].key = verifyCache[p][j].key => i = j
               /\ \A i \in DOMAIN verifyCache[p] : keyRow[verifyCache[p][i].key] # "none"
    <2>1. IsCache(verifyCache[p])
      BY DEF KeysInv
    <2>2. /\ verifyCache[p] \in Seq(CacheEntries)
          /\ DOMAIN verifyCache[p] = 1..Len(verifyCache[p])
      BY <2>1 DEF IsCache
    <2>3. \A i \in 1..Len(verifyCache[p]) : verifyCache[p][i] \in CacheEntries
      BY <2>2
    <2>4. QED
      BY <2>1, <2>2, <2>3 DEF IsCache, CacheEntries
  <1>2. \A w \in Revocations : /\ revocation[w].key \in Keys \union {NoKey}
                              /\ \A k \in revocation[w].answered : keyRow[k] = "revoked"
    BY DEF KeysInv, IsRevocation
  <1>3. QED
    BY <1>1, <1>2 DEF KeysInv, IsVerification, KeysTypeOK

-----------------------------------------------------------------------------
(* The health scheduler (HealthScheduler).                                  *)

(* The probes of an adapter, and the health that is stored of it, count what*)
(* has gone wrong, of which there is no more than there were faults.        *)
ProbeRecords ==
  [stage : ProbeStage, healthy : BOOLEAN, count : 0..faults]

HealthInv ==
  /\ booting \in SUBSET Adapters /\ scheduled \in BOOLEAN /\ faults \in 0..MaxFaults
  /\ failures \in [Adapters -> 0..faults]
  /\ health \in [Adapters -> [healthy : BOOLEAN, consecutiveFailures : 0..faults]]
  /\ probe \in [Rounds -> [Adapters -> ProbeRecords]]
  /\ booting # {} => ~scheduled /\ \A i \in Rounds, a \in Adapters : probe[i][a] = NoProbe

(* Nothing has failed at first.                                             *)
LEMMA HealthInitHolds == HealthInit => HealthInv
  <1> SUFFICES ASSUME HealthInit PROVE HealthInv
    OBVIOUS
  <1>1. faults = 0 /\ faults \in 0..MaxFaults /\ 0 \in 0..faults
    BY HealthAssumption DEF HealthInit
  <1>2. NoProbe \in ProbeRecords
    BY <1>1 DEF NoProbe, ProbeRecords, ProbeStage
  <1>3. probe \in [Rounds -> [Adapters -> ProbeRecords]]
    BY <1>2 DEF HealthInit
  <1>4. health \in [Adapters -> [healthy : BOOLEAN, consecutiveFailures : 0..faults]]
    <2>1. [healthy |-> TRUE, consecutiveFailures |-> 0] \in
            [healthy : BOOLEAN, consecutiveFailures : 0..faults]
      BY <1>1
    <2>2. QED
      BY <2>1 DEF HealthInit
  <1>5. failures \in [Adapters -> 0..faults] /\ booting = {} /\ scheduled \in BOOLEAN
    BY <1>1 DEF HealthInit
  <1>6. QED
    BY <1>1, <1>3, <1>4, <1>5 DEF HealthInv

(* One probe moves, in a process that has booted.                           *)
LEMMA ProbeMoves ==
  ASSUME HealthInv, NEW i \in Rounds, NEW a \in Adapters, probe[i][a].stage # "idle",
         NEW next, next \in ProbeRecords', faults' \in 0..MaxFaults, faults <= faults',
         probe' = [probe EXCEPT ![i][a] = next], UNCHANGED << booting, scheduled >>,
         failures' \in [Adapters -> 0..faults'],
         health' \in [Adapters -> [healthy : BOOLEAN, consecutiveFailures : 0..faults']]
  PROVE  HealthInv'
  <1>1. booting = {} /\ booting' = {}
    BY DEF HealthInv, NoProbe
  <1>2. probe \in [Rounds -> [Adapters -> ProbeRecords']]
    BY DEF HealthInv, ProbeRecords
  <1>3. probe' \in [Rounds -> [Adapters -> ProbeRecords']]
    BY <1>2
  <1>4. QED
    BY <1>1, <1>3 DEF HealthInv

(* More faults only widen what may be counted.                              *)
LEMMA CountsRemain ==
  ASSUME HealthInv, faults' \in 0..MaxFaults, faults <= faults'
  PROVE  /\ failures \in [Adapters -> 0..faults']
         /\ health \in [Adapters -> [healthy : BOOLEAN, consecutiveFailures : 0..faults']]
  BY DEF HealthInv

(* The count is raised by the fault that is counted.                        *)
LEMMA FailureCounted ==
  ASSUME HealthInv, Fault, NEW i \in Rounds, NEW a \in Adapters, probe[i][a].stage # "idle",
         NEW stage \in {"storing", "restoring"}, Failed(i, a, stage),
         UNCHANGED << booting, scheduled, health >>
  PROVE  HealthInv'
  <1> DEFINE next == failures[a] + 1
  <1>1. faults \in Nat /\ faults' = faults + 1 /\ faults' \in 0..MaxFaults /\ faults <= faults'
    BY HealthAssumption DEF HealthInv, Fault
  <1>2. next \in 0..faults'
    BY <1>1 DEF HealthInv
  <1>3. failures' \in [Adapters -> 0..faults']
    <2>1. failures' = [failures EXCEPT ![a] = next]
      BY DEF Failed
    <2>2. QED
      BY <1>1, <1>2, <2>1, CountsRemain
  <1>4. [stage |-> stage, healthy |-> next < UnhealthyAfter, count |-> next] \in ProbeRecords'
    BY <1>2 DEF ProbeRecords, ProbeStage
  <1>5. probe' = [probe EXCEPT ![i][a] =
                    [stage |-> stage, healthy |-> next < UnhealthyAfter, count |-> next]]
    BY DEF Failed
  <1>6. QED
    BY <1>1, <1>3, <1>4, <1>5, CountsRemain, ProbeMoves

(* Every step of the scheduler keeps the invariant.                         *)
LEMMA HealthStep == HealthInv /\ [HealthNext]_healthVars => HealthInv'
  <1> SUFFICES ASSUME HealthInv, [HealthNext]_healthVars PROVE HealthInv'
    OBVIOUS
  <1>1. CASE UNCHANGED healthVars
    BY <1>1 DEF healthVars, HealthInv, ProbeRecords
  <1>2. faults \in 0..MaxFaults /\ faults <= faults
    BY DEF HealthInv
  <1>3. NoProbe \in ProbeRecords /\ (faults' \in Nat => NoProbe \in ProbeRecords')
    BY <1>2 DEF NoProbe, ProbeRecords, ProbeStage
  <1>4. ASSUME NEW i \in Rounds, Start(i) \/ RunOnce(i) PROVE HealthInv'
    <2>1. [NoProbe EXCEPT !.stage = "probing"] \in ProbeRecords
      BY <1>3 DEF NoProbe, ProbeRecords, ProbeStage
    <2>2. /\ RoundStarts(i) /\ scheduled' \in BOOLEAN
          /\ UNCHANGED << booting, failures, health, faults >>
      BY <1>4 DEF Start, RunOnce, HealthInv
    <2> DEFINE row == [a \in Adapters |-> [NoProbe EXCEPT !.stage = "probing"]]
    <2>3. row \in [Adapters -> ProbeRecords]
      BY <2>1
    <2>4. probe' = [probe EXCEPT ![i] = row]
      BY <2>2 DEF RoundStarts
    <2>5. probe' \in [Rounds -> [Adapters -> ProbeRecords]]
      <3> HIDE DEF row
      <3>1. QED
        BY <2>3, <2>4 DEF HealthInv
    <2>6. booting = {}
      BY <1>4 DEF Start, RunOnce, HealthInv
    <2>7. ProbeRecords' = ProbeRecords
      BY <2>2 DEF ProbeRecords
    <2>8. QED
      BY <2>2, <2>6, <2>7, <2>5 DEF HealthInv
  <1>5. CASE Stop
    BY <1>5 DEF Stop, HealthInv, ProbeRecords
  <1>6. CASE Restart
    <2>1. faults' \in 0..MaxFaults /\ faults <= faults'
      BY <1>6, HealthAssumption DEF Restart, Fault, HealthInv
    <2>2. health' \in [Adapters -> [healthy : BOOLEAN, consecutiveFailures : 0..faults']]
      BY <1>6, <2>1, CountsRemain DEF Restart
    <2>3. /\ probe' = [i \in Rounds |-> [a \in Adapters |-> NoProbe]]
          /\ failures' = [a \in Adapters |-> 0] /\ booting' = Adapters /\ scheduled' = FALSE
      BY <1>6 DEF Restart
    <2>4. NoProbe \in ProbeRecords'
      BY <1>3, <2>1
    <2>5. /\ probe' \in [Rounds -> [Adapters -> ProbeRecords']]
          /\ \A i \in Rounds, a \in Adapters : probe'[i][a] = NoProbe
      BY <2>3, <2>4
    <2>6. failures' \in [Adapters -> 0..faults']
      <3>1. 0 \in 0..faults'
        BY <2>1, HealthAssumption
      <3>2. QED
        BY <2>3, <3>1
    <2>7. booting' \in SUBSET Adapters /\ scheduled' \in BOOLEAN /\ ~scheduled'
      BY <2>3
    <2>8. QED
      BY <2>1, <2>2, <2>5, <2>6, <2>7 DEF HealthInv, NoProbe
  <1>7. ASSUME NEW a \in Adapters, Boot(a) PROVE HealthInv'
    <2>1. [healthy |-> TRUE, consecutiveFailures |-> 0] \in
            [healthy : BOOLEAN, consecutiveFailures : 0..faults]
      BY <1>2
    <2>2. health' \in [Adapters -> [healthy : BOOLEAN, consecutiveFailures : 0..faults]]
      BY <1>7, <2>1 DEF Boot, HealthInv
    <2>3. UNCHANGED << scheduled, failures, probe, faults >> /\ booting # {}
          /\ booting' \in SUBSET Adapters
      BY <1>7 DEF Boot, HealthInv
    <2>4. ProbeRecords' = ProbeRecords
      BY <2>3 DEF ProbeRecords
    <2>5. QED
      BY <2>2, <2>3, <2>4 DEF HealthInv
  <1>8. ASSUME NEW i \in Rounds, NEW a \in Adapters,
               ProbeSucceeds(i, a) \/ ProbeFails(i, a) \/ Store(i, a) \/ StoreFails(i, a)
        PROVE  HealthInv'
    <2>1. CASE ProbeSucceeds(i, a)
      <3>1. [stage |-> "storing", healthy |-> TRUE, count |-> 0] \in ProbeRecords'
        BY <1>2, <2>1 DEF ProbeRecords, ProbeStage, ProbeSucceeds
      <3>2. /\ failures' \in [Adapters -> 0..faults'] /\ faults' = faults
            /\ probe' = [probe EXCEPT ![i][a] =
                           [stage |-> "storing", healthy |-> TRUE, count |-> 0]]
            /\ UNCHANGED << booting, scheduled, health >> /\ probe[i][a].stage # "idle"
        BY <1>2, <2>1 DEF ProbeSucceeds, Succeeded, HealthInv
      <3>3. QED
        BY <1>2, <3>1, <3>2, CountsRemain, ProbeMoves
    <2>2. CASE ProbeFails(i, a)
      BY <2>2, FailureCounted DEF ProbeFails
    <2>3. CASE Store(i, a)
      <3>1. probe[i][a] \in ProbeRecords
        BY DEF HealthInv
      <3>2. /\ health' \in [Adapters -> [healthy : BOOLEAN, consecutiveFailures : 0..faults']]
            /\ faults' = faults
            /\ probe' = [probe EXCEPT ![i][a] = NoProbe] /\ probe[i][a].stage # "idle"
            /\ UNCHANGED << booting, scheduled, failures >>
        BY <1>2, <2>3, <3>1 DEF Store, HealthInv, ProbeRecords
      <3>3. NoProbe \in ProbeRecords'
        BY <1>2, <1>3, <3>2
      <3>4. QED
        BY <1>2, <3>2, <3>3, CountsRemain, ProbeMoves
    <2>4. CASE StoreFails(i, a)
      <3>1. faults' \in 0..MaxFaults /\ faults <= faults'
        BY <2>4, HealthAssumption DEF StoreFails, Fault, HealthInv
      <3>2. CASE probe[i][a].stage = "storing" /\ Failed(i, a, "restoring")
        BY <2>4, <3>2, FailureCounted DEF StoreFails
      <3>3. CASE /\ probe[i][a].stage = "restoring"
                 /\ probe' = [probe EXCEPT ![i][a] = NoProbe] /\ UNCHANGED failures
        <4>1. UNCHANGED << booting, scheduled, health >> /\ probe[i][a].stage # "idle"
          BY <2>4, <3>3 DEF StoreFails
        <4>2. NoProbe \in ProbeRecords'
          BY <1>3, <3>1
        <4>3. QED
          BY <3>1, <3>3, <4>1, <4>2, CountsRemain, ProbeMoves
      <3>4. QED
        BY <2>4, <3>2, <3>3 DEF StoreFails
    <2>5. QED
      BY <1>8, <2>1, <2>2, <2>3, <2>4
  <1>9. QED
    BY <1>1, <1>4, <1>5, <1>6, <1>7, <1>8 DEF HealthNext

(* The counts stay within the faults, and nothing is probed by a process    *)
(* that is booting.                                                         *)
LEMMA HealthHolds == HealthInv => HealthTypeOK
  <1> SUFFICES ASSUME HealthInv PROVE HealthTypeOK
    OBVIOUS
  <1>1. 0..faults \in SUBSET (0..MaxFaults)
    BY HealthAssumption DEF HealthInv
  <1>2. QED
    BY <1>1 DEF HealthInv, HealthTypeOK, ProbeRecords

-----------------------------------------------------------------------------
(* The gauges and their alert (Alerts).                                     *)

(* The share of the good ones among some.                                   *)
LEMMA Share ==
  ASSUME NEW whole \in Nat, NEW good \in Nat, NEW count \in Nat \ {0}, good <= count
  PROVE  (good * whole) \div count \in 0..whole
  <1> DEFINE q == (good * whole) \div count
  <1>1. good * whole \in Nat /\ q \in Nat
    OBVIOUS
  <1>2. q * count <= good * whole
    BY <1>1
  <1> HIDE DEF q
  <1>3. good * whole <= count * whole
    OBVIOUS
  <1>4. q > whole => q * count > whole * count
    BY <1>1
  <1>5. q <= whole
    BY <1>1, <1>2, <1>3, <1>4
  <1>6. QED
    BY <1>1, <1>5 DEF q

(* The utilization of a limit is whole when the spend reaches the limit,    *)
(* and is more than whole only then; rounded, it is never more than the     *)
(* spend and a half.                                                        *)
LEMMA Rounded ==
  ASSUME NEW whole \in Nat, NEW limit \in Nat \ {0}, NEW spend \in Nat, NEW u,
         u = (spend * whole + limit \div 2) \div limit
  PROVE  /\ u \in Nat /\ u <= spend * whole + 1
         /\ spend >= limit => u >= whole
         /\ u > whole => spend >= limit
  <1> DEFINE half == limit \div 2
  <1>1. half \in Nat /\ half < limit
    OBVIOUS
  <1>2. u = (spend * whole + half) \div limit
    OBVIOUS
  <1> HIDE DEF half
  <1>3. PICK paid \in Nat : paid = spend * whole
    OBVIOUS
  <1>4. u \in Nat /\ u * limit <= paid + half /\ paid + half < u * limit + limit
    BY <1>1, <1>2, <1>3
  <1>5. u <= paid + 1
    <2>1. u >= paid + 2 => u * limit >= (paid + 2) * limit
      BY <1>4
    <2>2. (paid + 2) * limit >= paid + 2 * limit
      OBVIOUS
    <2>3. QED
      BY <1>1, <1>4, <2>1, <2>2
  <1>6. ASSUME spend >= limit PROVE u >= whole
    <2>1. paid >= limit * whole
      BY <1>3, <1>6
    <2>2. u < whole => (u + 1) * limit <= whole * limit
      BY <1>4
    <2>3. QED
      BY <1>1, <1>4, <2>1, <2>2
  <1>7. ASSUME u > whole PROVE spend >= limit
    <2>1. u * limit >= (whole + 1) * limit
      BY <1>4, <1>7
    <2>2. spend < limit => (spend + 1) * whole <= limit * whole
      OBVIOUS
    <2>3. QED
      BY <1>1, <1>3, <1>4, <2>1, <2>2
  <1>8. QED
    BY <1>3, <1>4, <1>5, <1>6, <1>7

(* One is a ratio.                                                          *)
LEMMA WholeIsNat == Whole \in Nat
  BY SMT DEF Whole

(* A set of numbers that is not empty and has a bound has a greatest one.   *)
LEMMA GreatestNumber ==
  ASSUME NEW bound \in Nat, NEW T \in SUBSET (0..bound), T # {}
  PROVE  Max(T) \in T /\ \A n \in T : n <= Max(T)
  <1> DEFINE rests == {bound - n : n \in T}
  <1>1. rests \in SUBSET Nat /\ rests # {}
    <2>1. \A n \in T : n \in Nat /\ bound - n \in Nat
      OBVIOUS
    <2>2. QED
      BY <2>1
  <1>2. PICK r \in rests : \A s \in rests : r <= s
    BY <1>1, LeastNumber
  <1>3. PICK n \in T : r = bound - n
    BY <1>2
  <1>4. \A m \in T : m <= n
    <2> TAKE m \in T
    <2>1. bound - n <= bound - m
      BY <1>2, <1>3
    <2>2. QED
      BY <2>1
  <1>5. \E x \in T : \A y \in T : x >= y
    BY <1>4
  <1>6. QED
    BY <1>5 DEF Max

(* What a tick has read of the records.                                     *)
Reading == {r \in [sampleCount : Nat, rate : 0..Whole] : r.sampleCount = 0 => r.rate = Whole}

AlertInv ==
  /\ clock \in 0..MaxClock /\ boots \in 0..MaxBoots
  /\ lastBad \in Int /\ Never <= lastBad /\ lastBad <= clock
  /\ alert \in [active : BOOLEAN, clearRunStart : Int]
  /\ Never <= alert.clearRunStart /\ alert.clearRunStart <= clock
  /\ alert.clearRunStart # Never => alert.active /\ alert.clearRunStart >= lastBad
  /\ ~alert.active => lastBad = Never \/ clock - lastBad >= AlertWindow
  /\ alert.active => lastBad # Never
  /\ gauges \in [rate : 0..Whole, active : 0..1]
  /\ gauges.rate < AlertThreshold => gauges.active = 1 \/ gauges = FreshGauges
  /\ DOMAIN samples = 1..Len(samples) /\ Len(samples) \in Nat
  /\ \A k \in AlertTicks : readings[k] \in Reading \union {Unread}
  /\ DOMAIN readings = AlertTicks

BudgetLoopInv ==
  /\ DOMAIN budgetWorld = {"rows", "spend"}
  /\ budgetWorld.rows \in SUBSET MetricBudgets
  /\ budgetWorld.spend \in [MetricBudgets -> 0..MaxMetricSpend]
  /\ DOMAIN listings = AlertTicks
  /\ \A k \in AlertTicks : listings[k] # Unread => listings[k].rows \in SUBSET MetricBudgets
  /\ budgetGauges \in [utilization : Nat, overLimit : 0..1]
  /\ budgetGauges.overLimit = 1 => budgetGauges.utilization >= Whole
  /\ budgetGauges.utilization > Whole => budgetGauges.overLimit = 1

(* No record is read, and no alert is on, at first.                         *)
LEMMA AlertInitHolds == AlertsInit /\ BudgetLoopInit => AlertInv /\ BudgetLoopInv
  <1> SUFFICES ASSUME AlertsInit, BudgetLoopInit PROVE AlertInv /\ BudgetLoopInv
    OBVIOUS
  <1>1. /\ clock \in 0..MaxClock /\ boots \in 0..MaxBoots /\ clock = 0 /\ lastBad = Never
        /\ Never \in Int /\ Never = -1
    BY AlertsAssumption DEF AlertsInit, Never
  <1>2. /\ alert = FreshAlert /\ FreshAlert \in [active : BOOLEAN, clearRunStart : Int]
        /\ alert.clearRunStart = Never /\ ~alert.active
    BY <1>1 DEF AlertsInit, FreshAlert
  <1>3. gauges = FreshGauges /\ FreshGauges \in [rate : 0..Whole, active : 0..1]
    BY WholeIsNat DEF AlertsInit, FreshGauges
  <1>4. DOMAIN samples = 1..Len(samples) /\ Len(samples) \in Nat
    BY DEF AlertsInit
  <1>5. DOMAIN readings = AlertTicks /\ \A k \in AlertTicks : readings[k] = Unread
    BY DEF AlertsInit
  <1>6. AlertInv
    BY <1>1, <1>2, <1>3, <1>4, <1>5 DEF AlertInv
  <1>7. /\ budgetWorld.rows = {} /\ budgetWorld.spend \in [MetricBudgets -> 0..MaxMetricSpend]
        /\ DOMAIN budgetWorld = {"rows", "spend"}
    BY AlertsAssumption DEF BudgetLoopInit
  <1>8. /\ budgetGauges \in [utilization : Nat, overLimit : 0..1]
        /\ budgetGauges.utilization = 0 /\ budgetGauges.overLimit = 0
    BY DEF BudgetLoopInit, FreshBudgetGauges
  <1>9. DOMAIN listings = AlertTicks /\ \A k \in AlertTicks : listings[k] = Unread
    BY DEF BudgetLoopInit
  <1>10. QED
    BY <1>6, <1>7, <1>8, <1>9, WholeIsNat DEF BudgetLoopInv

(* Of the records that a tick reads no more are good than there are.        *)
LEMMA ReadingIsOne ==
  ASSUME AlertInv
  PROVE  ReadReconciliationWindow \in Reading
  <1> DEFINE recent == {i \in DOMAIN samples : samples[i].at >= clock - AlertWindow}
             latest == {i \in recent : Cardinality({j \in recent : j > i}) < AlertRows}
             goods == {i \in latest : samples[i].reconciled}
             count == Cardinality(latest)
             good == Cardinality(goods)
  <1>1. IsFiniteSet(DOMAIN samples)
    BY FS_Interval DEF AlertInv
  <1>2. latest \in SUBSET (DOMAIN samples) /\ goods \in SUBSET latest
    OBVIOUS
  <1>3. ReadReconciliationWindow =
          [ sampleCount |-> count,
            rate |-> IF count = 0 THEN Whole ELSE (good * Whole) \div count ]
    BY DEF ReadReconciliationWindow
  <1> HIDE DEF latest, goods
  <1>4. count \in Nat /\ good \in Nat /\ good <= count
    BY <1>1, <1>2, FS_Subset, FS_CardinalityType
  <1> HIDE DEF count, good
  <1>5. count # 0 => (good * Whole) \div count \in 0..Whole
    BY <1>4, WholeIsNat, Share
  <1>6. QED
    BY <1>3, <1>4, <1>5, WholeIsNat DEF Reading

(* What a reading makes of the alert.                                       *)
LEMMA AlertJudged ==
  ASSUME AlertInv, NEW k \in AlertTicks, TickJudges(k)
  PROVE  AlertInv'
  <1> DEFINE stats == readings[k]
             bad == stats.sampleCount # 0 /\ stats.rate < AlertThreshold
  <1>1. stats \in Reading
    BY DEF AlertInv, TickJudges
  <1>2. /\ stats.sampleCount \in Nat /\ stats.rate \in 0..Whole
        /\ stats.sampleCount = 0 => stats.rate = Whole
    BY <1>1 DEF Reading
  <1>3. /\ alert' = Judged(stats)
        /\ gauges' = [gauges EXCEPT !.rate = stats.rate,
                                    !.active = IF alert'.active THEN 1 ELSE 0]
        /\ lastBad' = IF bad THEN clock ELSE lastBad
        /\ readings' = [readings EXCEPT ![k] = Unread]
        /\ UNCHANGED << clock, samples, boots >>
    BY DEF TickJudges
  <1> HIDE DEF stats
  <1>4. AlertThreshold \in Nat /\ AlertThreshold <= Whole /\ AlertWindow \in Nat
        /\ Never = -1 /\ Whole \in Nat
    BY AlertsAssumption, WholeIsNat DEF Never
  <1>5. /\ clock \in Nat /\ lastBad \in Int /\ Never <= lastBad /\ lastBad <= clock
        /\ alert \in [active : BOOLEAN, clearRunStart : Int]
        /\ Never <= alert.clearRunStart /\ alert.clearRunStart <= clock
        /\ alert.clearRunStart # Never => alert.active /\ alert.clearRunStart >= lastBad
        /\ ~alert.active => lastBad = Never \/ clock - lastBad >= AlertWindow
        /\ alert.active => lastBad # Never
    BY DEF AlertInv
  <1> DEFINE Fits(a, l) ==
        /\ l \in Int /\ Never <= l /\ l <= clock
        /\ a \in [active : BOOLEAN, clearRunStart : Int]
        /\ Never <= a.clearRunStart /\ a.clearRunStart <= clock
        /\ a.clearRunStart # Never => a.active /\ a.clearRunStart >= l
        /\ ~a.active => l = Never \/ clock - l >= AlertWindow
        /\ a.active => l # Never
  <1>6. Fits(alert', lastBad')
    <2>1. CASE stats.sampleCount = 0
      BY <1>3, <1>5, <2>1 DEF Judged
    <2>2. CASE bad
      <3>1. alert' = [active |-> TRUE, clearRunStart |-> Never] /\ lastBad' = clock
        BY <1>3, <2>2 DEF Judged, AfterBad
      <3>2. QED
        BY <1>4, <1>5, <3>1
    <2>3. CASE stats.sampleCount # 0 /\ ~bad
      <3> DEFINE start == IF alert.clearRunStart = Never THEN clock ELSE alert.clearRunStart
      <3>1. lastBad' = lastBad
            /\ alert' = IF ~alert.active \/ clock - start >= AlertWindow THEN FreshAlert
                        ELSE [active |-> TRUE, clearRunStart |-> start]
        BY <1>3, <2>3 DEF Judged, AfterGood
      <3>2. start \in Int /\ lastBad <= start /\ start <= clock /\ Never <= start
        BY <1>4, <1>5
      <3> HIDE DEF start
      <3>3. CASE ~alert.active \/ clock - start >= AlertWindow
        <4>1. alert' = [active |-> FALSE, clearRunStart |-> Never]
          BY <3>1, <3>3 DEF FreshAlert
        <4>2. lastBad = Never \/ clock - lastBad >= AlertWindow
          BY <1>4, <1>5, <3>2, <3>3
        <4>3. /\ alert' \in [active : BOOLEAN, clearRunStart : Int]
              /\ ~alert'.active /\ alert'.clearRunStart = Never
          BY <1>4, <4>1
        <4>4. QED
          BY <1>4, <1>5, <3>1, <4>2, <4>3
      <3>4. CASE alert.active /\ ~(clock - start >= AlertWindow)
        <4>1. alert' = [active |-> TRUE, clearRunStart |-> start]
          BY <3>1, <3>4
        <4>2. QED
          BY <1>4, <1>5, <3>1, <3>2, <3>4, <4>1
      <3>5. QED
        BY <1>5, <3>3, <3>4
    <2>4. QED
      BY <2>1, <2>2, <2>3
  <1>7. gauges' \in [rate : 0..Whole, active : 0..1] /\ gauges'.rate = stats.rate
        /\ gauges'.active = IF alert'.active THEN 1 ELSE 0
    <2> DEFINE onDisplay == IF alert'.active THEN 1 ELSE 0
    <2>1. onDisplay \in 0..1 /\ gauges' = [gauges EXCEPT !.rate = stats.rate, !.active = onDisplay]
      BY <1>3
    <2>2. gauges \in [rate : 0..Whole, active : 0..1]
      BY DEF AlertInv
    <2> HIDE DEF onDisplay
    <2>3. /\ gauges' \in [rate : 0..Whole, active : 0..1] /\ gauges'.rate = stats.rate
          /\ gauges'.active = onDisplay
      BY <1>2, <2>1, <2>2
    <2>4. QED
      BY <2>3 DEF onDisplay
  <1>8. bad => alert'.active
    BY <1>3 DEF Judged, AfterBad
  <1>9. gauges'.rate < AlertThreshold => gauges'.active = 1
    BY <1>2, <1>4, <1>7, <1>8
  <1>10. DOMAIN readings' = AlertTicks
         /\ \A j \in AlertTicks : readings'[j] \in Reading \union {Unread}
    BY <1>3 DEF AlertInv
  <1> HIDE DEF bad
  <1>11. QED
    BY <1>3, <1>6, <1>7, <1>9, <1>10 DEF AlertInv, Reading

(* Every step of the reconciliation loop keeps its invariant.               *)
LEMMA AlertStep == AlertInv /\ [AlertsNext]_alertVars => AlertInv'
  <1> SUFFICES ASSUME AlertInv, [AlertsNext]_alertVars PROVE AlertInv'
    OBVIOUS
  <1>1. CASE UNCHANGED alertVars
    BY <1>1 DEF alertVars, AlertInv, Reading
  <1>2. ASSUME NEW k \in AlertTicks, TickReads(k) PROVE AlertInv'
    <2>1. /\ readings' = [readings EXCEPT ![k] = ReadReconciliationWindow]
          /\ UNCHANGED << clock, samples, alert, gauges, lastBad, boots >>
      BY <1>2 DEF TickReads
    <2>2. DOMAIN readings' = AlertTicks
          /\ \A j \in AlertTicks : readings'[j] \in Reading \union {Unread}
      BY <2>1, ReadingIsOne DEF AlertInv
    <2>3. QED
      BY <2>1, <2>2 DEF AlertInv, Reading
  <1>3. ASSUME NEW k \in AlertTicks, TickFails(k) PROVE AlertInv'
    <2>1. /\ readings' = [readings EXCEPT ![k] = Unread]
          /\ UNCHANGED << clock, samples, alert, gauges, lastBad, boots >>
      BY <1>3 DEF TickFails
    <2>2. DOMAIN readings' = AlertTicks
          /\ \A j \in AlertTicks : readings'[j] \in Reading \union {Unread}
      BY <2>1 DEF AlertInv
    <2>3. QED
      BY <2>1, <2>2 DEF AlertInv, Reading
  <1>4. CASE TimePasses
    <2>1. /\ clock' = clock + 1 /\ clock' \in 0..MaxClock /\ clock \in Nat
          /\ UNCHANGED << samples, readings, alert, gauges, lastBad, boots >>
      BY <1>4, AlertsAssumption DEF TimePasses, AlertInv
    <2>2. AlertWindow \in Nat
      BY AlertsAssumption
    <2>3. /\ alert' = alert /\ gauges' = gauges /\ lastBad' = lastBad
          /\ readings' = readings /\ samples' = samples /\ boots' = boots
      BY <2>1
    <2>4. /\ lastBad <= clock' /\ alert.clearRunStart <= clock'
          /\ ~alert.active => lastBad = Never \/ clock' - lastBad >= AlertWindow
      BY <2>1, <2>2 DEF AlertInv
    <2>5. QED
      BY <2>1, <2>3, <2>4 DEF AlertInv, Reading
  <1>5. CASE SampleRecorded
    <2>1. PICK r \in BOOLEAN : samples' = Append(samples, [at |-> clock, reconciled |-> r])
      BY <1>5 DEF SampleRecorded
    <2>2. UNCHANGED << clock, readings, alert, gauges, lastBad, boots >>
      BY <1>5 DEF SampleRecorded
    <2>3. DOMAIN samples' = 1..Len(samples') /\ Len(samples') \in Nat
      <3> DEFINE e == [at |-> clock, reconciled |-> r]
                 f == [i \in 1..(Len(samples) + 1) |->
                         IF i = Len(samples) + 1 THEN e ELSE samples[i]]
      <3>1. samples' = f
        BY <2>1
      <3>2. QED
        BY <3>1 DEF AlertInv
    <2>4. QED
      BY <2>2, <2>3 DEF AlertInv, Reading
  <1>6. CASE AlertsRestart
    <2>1. /\ alert' = FreshAlert /\ gauges' = FreshGauges /\ lastBad' = Never
          /\ readings' = [k \in AlertTicks |-> Unread]
          /\ clock' = clock /\ samples' = samples
      BY <1>6 DEF AlertsRestart
    <2>2. boots' \in 0..MaxBoots /\ Never = -1 /\ clock \in Nat
      BY <1>6, AlertsAssumption DEF AlertsRestart, AlertInv, Never
    <2>3. /\ alert' \in [active : BOOLEAN, clearRunStart : Int]
          /\ alert'.clearRunStart = Never /\ ~alert'.active
      BY <2>1, <2>2 DEF FreshAlert
    <2>4. gauges' \in [rate : 0..Whole, active : 0..1] /\ gauges' = FreshGauges
      BY <2>1, WholeIsNat DEF FreshGauges
    <2>5. /\ \A k \in AlertTicks : readings'[k] \in Reading \union {Unread}
          /\ DOMAIN readings' = AlertTicks
      BY <2>1
    <2>6. QED
      BY <2>1, <2>2, <2>3, <2>4, <2>5 DEF AlertInv, Reading
  <1>7. QED
    BY <1>1, <1>2, <1>3, <1>4, <1>5, <1>6, AlertJudged DEF AlertsNext

(* The gauges are of the enabled budgets: the utilization is that of the    *)
(* fullest, and the alert is on when one of them has reached its limit.     *)
LEMMA BudgetMetrics ==
  ASSUME BudgetLoopInv, NEW rows \in SUBSET MetricBudgets
  PROVE  LET snap == ComputeBudgetMetrics(rows)
         IN  /\ snap.maxUtilization \in Nat /\ snap.alertActive \in BOOLEAN
             /\ snap.alertActive => snap.maxUtilization >= Whole
             /\ snap.maxUtilization > Whole => snap.alertActive
  <1> DEFINE enabled == {b \in rows : b.enabled}
             u(b) == BudgetStatus(b, budgetWorld.spend[b]).utilization
             reached(b) == BudgetStatus(b, budgetWorld.spend[b]).status \in
                             {"at_limit", "over_limit"}
             S == {0} \union {u(b) : b \in enabled}
             bound == MaxMetricSpend * Whole + 1
             snap == ComputeBudgetMetrics(rows)
  <1>1. ASSUME NEW b \in enabled
        PROVE  /\ u(b) \in 0..bound
               /\ reached(b) => u(b) >= Whole
               /\ u(b) > Whole => reached(b)
    <2> DEFINE spend == budgetWorld.spend[b]
               limit == b.limitUsd
    <2>1. spend \in Nat /\ spend <= MaxMetricSpend /\ MaxMetricSpend \in Nat
      BY AlertsAssumption DEF BudgetLoopInv
    <2>2. limit \in Nat \ {0}
      BY AlertsAssumption DEF IsBudget
    <2>3. u(b) = (spend * Whole + limit \div 2) \div limit
      BY SMT DEF BudgetStatus, Whole
    <2>4. reached(b) <=> spend >= limit
      <3>1. BudgetStatus(b, spend).status =
              IF spend < limit THEN "below_limit"
              ELSE IF spend = limit THEN "at_limit" ELSE "over_limit"
        BY SMT DEF BudgetStatus
      <3>2. QED
        BY <2>1, <2>2, <3>1
    <2> HIDE DEF u, reached, spend, limit
    <2>5. /\ u(b) \in Nat /\ u(b) <= spend * Whole + 1
          /\ spend >= limit => u(b) >= Whole
          /\ u(b) > Whole => spend >= limit
      BY <2>1, <2>2, <2>3, WholeIsNat, Rounded
    <2>6. spend * Whole <= MaxMetricSpend * Whole /\ MaxMetricSpend * Whole \in Nat
          /\ spend * Whole \in Nat
      BY <2>1, WholeIsNat
    <2>7. QED
      BY <2>4, <2>5, <2>6
  <1>2. /\ snap.maxUtilization = Max(S)
        /\ snap.alertActive = \E b \in enabled : reached(b)
    BY DEF ComputeBudgetMetrics
  <1>3. bound \in Nat
    BY AlertsAssumption, WholeIsNat
  <1> HIDE DEF u, reached, bound, snap, enabled
  <1>4. S \in SUBSET (0..bound) /\ S # {}
    BY <1>1, <1>3
  <1>5. Max(S) \in S /\ \A n \in S : n <= Max(S)
    BY <1>3, <1>4, GreatestNumber
  <1>6. Max(S) \in Nat
    BY <1>4, <1>5
  <1>7. ASSUME snap.alertActive PROVE Max(S) >= Whole
    <2>1. PICK b \in enabled : reached(b)
      BY <1>2, <1>7
    <2>2. u(b) >= Whole /\ u(b) <= Max(S) /\ u(b) \in Nat
      BY <1>1, <1>5, <2>1
    <2>3. QED
      BY <1>6, <2>2, WholeIsNat
  <1>8. ASSUME Max(S) > Whole PROVE snap.alertActive
    <2>1. Max(S) # 0
      BY <1>8, WholeIsNat
    <2>2. PICK b \in enabled : u(b) = Max(S)
      BY <1>5, <2>1
    <2>3. QED
      BY <1>1, <1>2, <1>8, <2>2
  <1>9. QED
    BY <1>2, <1>6, <1>7, <1>8 DEF snap

(* Every step of the budgets' loop keeps its invariant.                     *)
LEMMA BudgetLoopStep == BudgetLoopInv /\ [BudgetLoopNext]_budgetLoopVars => BudgetLoopInv'
  <1> SUFFICES ASSUME BudgetLoopInv, [BudgetLoopNext]_budgetLoopVars PROVE BudgetLoopInv'
    OBVIOUS
  <1>1. CASE UNCHANGED budgetLoopVars
    BY <1>1 DEF budgetLoopVars, BudgetLoopInv
  <1>2. ASSUME NEW k \in AlertTicks, BudgetTickLists(k) PROVE BudgetLoopInv'
    <2>1. /\ listings' = [listings EXCEPT ![k] = [rows |-> budgetWorld.rows]]
          /\ budgetWorld' = budgetWorld /\ budgetGauges' = budgetGauges
      BY <1>2 DEF BudgetTickLists
    <2>2. /\ DOMAIN listings' = AlertTicks
          /\ \A j \in AlertTicks : listings'[j] # Unread =>
               listings'[j].rows \in SUBSET MetricBudgets
      BY <2>1 DEF BudgetLoopInv
    <2>3. QED
      BY <2>1, <2>2 DEF BudgetLoopInv
  <1>3. ASSUME NEW k \in AlertTicks, BudgetTickSums(k) PROVE BudgetLoopInv'
    <2> DEFINE snap == ComputeBudgetMetrics(listings[k].rows)
    <2>1. /\ budgetGauges' = [ utilization |-> snap.maxUtilization,
                               overLimit |-> IF snap.alertActive THEN 1 ELSE 0 ]
          /\ listings' = [listings EXCEPT ![k] = Unread] /\ budgetWorld' = budgetWorld
      BY <1>3 DEF BudgetTickSums
    <2>2. listings[k].rows \in SUBSET MetricBudgets
      BY <1>3 DEF BudgetTickSums, BudgetLoopInv
    <2>3. /\ snap.maxUtilization \in Nat /\ snap.alertActive \in BOOLEAN
          /\ snap.alertActive => snap.maxUtilization >= Whole
          /\ snap.maxUtilization > Whole => snap.alertActive
      BY <2>2, BudgetMetrics
    <2> HIDE DEF snap
    <2>4. /\ budgetGauges' \in [utilization : Nat, overLimit : 0..1]
          /\ budgetGauges'.overLimit = 1 => budgetGauges'.utilization >= Whole
          /\ budgetGauges'.utilization > Whole => budgetGauges'.overLimit = 1
      BY <2>1, <2>3
    <2>5. /\ DOMAIN listings' = AlertTicks
          /\ \A j \in AlertTicks : listings'[j] # Unread =>
               listings'[j].rows \in SUBSET MetricBudgets
      BY <2>1 DEF BudgetLoopInv
    <2>6. QED
      BY <2>1, <2>4, <2>5 DEF BudgetLoopInv
  <1>4. CASE BudgetsChange
    <2>1. listings' = listings /\ budgetGauges' = budgetGauges
      BY <1>4 DEF BudgetsChange
    <2>2. ASSUME NEW rows \in SUBSET MetricBudgets,
                 budgetWorld' = [budgetWorld EXCEPT !.rows = rows]
          PROVE  BudgetLoopInv'
      <3>1. /\ budgetWorld'.rows = rows /\ budgetWorld'.spend = budgetWorld.spend
            /\ DOMAIN budgetWorld' = {"rows", "spend"}
        BY <2>2 DEF BudgetLoopInv
      <3>2. QED
        BY <2>1, <3>1 DEF BudgetLoopInv
    <2>3. ASSUME NEW b \in MetricBudgets, budgetWorld.spend[b] < MaxMetricSpend,
                 budgetWorld' = [budgetWorld EXCEPT !.spend[b] = @ + 1]
          PROVE  BudgetLoopInv'
      <3>1. budgetWorld.spend \in [MetricBudgets -> 0..MaxMetricSpend]
        BY DEF BudgetLoopInv
      <3>2. budgetWorld.spend[b] + 1 \in 0..MaxMetricSpend
        BY <2>3, <3>1, AlertsAssumption
      <3>3. /\ budgetWorld'.rows = budgetWorld.rows
            /\ budgetWorld'.spend = [budgetWorld.spend EXCEPT ![b] = @ + 1]
            /\ DOMAIN budgetWorld' = {"rows", "spend"}
        BY <2>3 DEF BudgetLoopInv
      <3>4. budgetWorld'.spend \in [MetricBudgets -> 0..MaxMetricSpend]
        BY <3>1, <3>2, <3>3
      <3>5. QED
        BY <2>1, <3>3, <3>4 DEF BudgetLoopInv
    <2>4. QED
      BY <1>4, <2>2, <2>3 DEF BudgetsChange
  <1>5. QED
    BY <1>1, <1>2, <1>3, <1>4 DEF BudgetLoopNext

(* An alert is justified by what was read, and the gauges by the alert.     *)
LEMMA AlertsHold == AlertInv /\ BudgetLoopInv => AlertsTypeOK /\ AlertIsJustified
  <1> SUFFICES ASSUME AlertInv, BudgetLoopInv PROVE AlertsTypeOK /\ AlertIsJustified
    OBVIOUS
  <1>1. Never = -1 /\ clock \in Nat
    BY DEF Never, AlertInv
  <1>2. AlertsTypeOK
    BY <1>1 DEF AlertInv, AlertsTypeOK
  <1>3. AlertIsJustified
    BY <1>1 DEF AlertInv, BudgetLoopInv, AlertIsJustified, ReconciliationMetrics
  <1>4. QED
    BY <1>2, <1>3

-----------------------------------------------------------------------------
(* The Cost page: its rows, bars and chart.                                 *)

(* A strict total order of a finite set, and how many come before one.      *)
Orders(R, S) ==
  /\ \A x \in S : << x, x >> \notin R
  /\ \A x, y, z \in S : << x, y >> \in R /\ << y, z >> \in R => << x, z >> \in R
  /\ \A x, y \in S : x # y => << x, y >> \in R \/ << y, x >> \in R

Ahead(S, R, x) == {y \in S : << y, x >> \in R}

(* Who comes later has more ahead of it.                                    *)
LEMMA RanksFollow ==
  ASSUME NEW S, IsFiniteSet(S), NEW R, Orders(R, S)
  PROVE  /\ \A x \in S : /\ Cardinality(Ahead(S, R, x)) \in Nat
                         /\ Cardinality(Ahead(S, R, x)) < Cardinality(S)
         /\ \A x, y \in S : << x, y >> \in R =>
              Cardinality(Ahead(S, R, x)) < Cardinality(Ahead(S, R, y))
         /\ \A x, y \in S : x # y => Cardinality(Ahead(S, R, x)) # Cardinality(Ahead(S, R, y))
  <1>1. \A T \in SUBSET S : IsFiniteSet(T) /\ Cardinality(T) \in Nat
    BY FS_Subset, FS_CardinalityType
  (* A part that lacks an element is smaller.                               *)
  <1>2. ASSUME NEW T \in SUBSET S, NEW U \in SUBSET T, NEW x \in T \ U
        PROVE  Cardinality(U) < Cardinality(T)
    <2>1. /\ T \ {x} \in SUBSET S /\ Cardinality(T) \in Nat /\ Cardinality(T \ {x}) \in Nat
          /\ Cardinality(T \ {x}) = Cardinality(T) - 1
      BY OneLess
    <2>2. U \in SUBSET (T \ {x}) /\ IsFiniteSet(T \ {x}) /\ Cardinality(U) \in Nat
      BY <1>1, <2>1
    <2>3. Cardinality(U) <= Cardinality(T \ {x})
      BY <2>2, FS_Subset
    <2>4. QED
      BY <2>1, <2>2, <2>3
  <1>3. \A x \in S : Ahead(S, R, x) \in SUBSET S /\ x \in S \ Ahead(S, R, x)
    BY Zenon DEF Ahead, Orders
  <1>4. \A x \in S : /\ Cardinality(Ahead(S, R, x)) \in Nat
                     /\ Cardinality(Ahead(S, R, x)) < Cardinality(S)
    <2>1. TAKE x \in S
    <2>2. S \in SUBSET S
      OBVIOUS
    <2>3. QED
      BY <1>1, <1>2, <1>3, <2>2
  <1>5. ASSUME NEW x \in S, NEW y \in S, << x, y >> \in R
        PROVE  Cardinality(Ahead(S, R, x)) < Cardinality(Ahead(S, R, y))
    <2>1. Ahead(S, R, x) \in SUBSET Ahead(S, R, y)
      BY <1>5 DEF Ahead, Orders
    <2>2. x \in Ahead(S, R, y) \ Ahead(S, R, x)
      BY <1>3, <1>5 DEF Ahead
    <2>3. QED
      BY <1>2, <1>3, <2>1, <2>2
  <1>6. ASSUME NEW x \in S, NEW y \in S, x # y
        PROVE  Cardinality(Ahead(S, R, x)) # Cardinality(Ahead(S, R, y))
    <2>1. << x, y >> \in R \/ << y, x >> \in R
      BY <1>6 DEF Orders
    <2>2. QED
      BY <1>4, <1>5, <2>1
  <1>7. QED
    BY <1>4, <1>5, <1>6

(* The elements in their order.                                             *)
LEMMA OrderedRows ==
  ASSUME NEW S, IsFiniteSet(S), NEW R, Orders(R, S)
  PROVE  \E rows \in [1..Cardinality(S) -> S] :
           \A i, j \in 1..Cardinality(S) : i < j => << rows[i], rows[j] >> \in R
  <1> DEFINE n == Cardinality(S)
             rank == [x \in S |-> Cardinality(Ahead(S, R, x)) + 1]
             rows == [i \in 1..n |-> CHOOSE x \in S : rank[x] = i]
  <1>1. n \in Nat /\ IsFiniteSet(1..n) /\ Cardinality(1..n) = n
    <2>1. n \in Nat
      BY FS_CardinalityType
    <2> HIDE DEF n
    <2>2. IsFiniteSet(1..n) /\ Cardinality(1..n) = IF 1 > n THEN 0 ELSE n - 1 + 1
      BY <2>1, FS_Interval
    <2>3. QED
      BY <2>1, <2>2
  <1>2. /\ \A x \in S : rank[x] \in 1..n
        /\ \A x, y \in S : << x, y >> \in R => rank[x] < rank[y]
        /\ \A x, y \in S : x # y => rank[x] # rank[y]
    <2> DEFINE a(x) == Cardinality(Ahead(S, R, x))
    <2>1. /\ \A x \in S : a(x) \in Nat /\ a(x) < n
          /\ \A x, y \in S : << x, y >> \in R => a(x) < a(y)
          /\ \A x, y \in S : x # y => a(x) # a(y)
      BY RanksFollow
    <2>2. \A x \in S : rank[x] = a(x) + 1
      OBVIOUS
    <2> HIDE DEF a, rank, n
    <2>3. QED
      BY <1>1, <2>1, <2>2
  <1>3. rank \in Injection(S, 1..n)
    <2>1. rank \in [S -> 1..n]
      BY <1>2
    <2> HIDE DEF rank, n
    <2>2. DOMAIN rank = S
      BY <2>1
    <2>3. QED
      BY <1>2, <2>1, <2>2 DEF Injection, IsInjective
  <1>4. rank \in Surjection(S, 1..n)
    <2> HIDE DEF rank
    <2>1. Cardinality(S) = Cardinality(1..n)
      BY <1>1
    <2> HIDE DEF n
    <2>2. QED
      BY <1>1, <1>3, <2>1, FS_Injection
  <1> HIDE DEF rank, n
  <1>5. \A i \in 1..n : \E x \in S : rank[x] = i
    BY <1>4 DEF Surjection
  <1>6. \A i \in 1..n : rows[i] \in S /\ rank[rows[i]] = i
    BY <1>5
  <1>7. rows \in [1..n -> S]
    BY <1>6
  <1> HIDE DEF rows
  <1>8. ASSUME NEW i \in 1..n, NEW j \in 1..n, i < j
        PROVE  << rows[i], rows[j] >> \in R
    <2>1. rows[i] \in S /\ rows[j] \in S /\ rank[rows[i]] = i /\ rank[rows[j]] = j
      BY <1>6
    <2>2. i \in Int /\ j \in Int
      BY <1>1
    <2>3. rows[i] # rows[j]
      BY <1>8, <2>1, <2>2
    <2>4. ~(<< rows[j], rows[i] >> \in R)
      BY <1>2, <1>8, <2>1, <2>2
    <2>5. QED
      BY <2>1, <2>3, <2>4 DEF Orders
  <1>9. QED
    BY <1>7, <1>8 DEF n

(* The first of a finite set that is not empty.                             *)
LEMMA FirstIs ==
  ASSUME NEW S, IsFiniteSet(S), S # {}, NEW R, Orders(R, S)
  PROVE  \E x \in S : Ahead(S, R, x) = {}
  <1> DEFINE T == {Cardinality(Ahead(S, R, x)) : x \in S}
  <1>2. \A x \in S : Cardinality(Ahead(S, R, x)) \in Nat
    BY RanksFollow
  <1>3. T \in SUBSET Nat /\ T # {}
    BY <1>2
  <1> HIDE DEF T
  <1>4. PICK n \in T : \A m \in T : n <= m
    BY <1>3, LeastNumber
  <1>5. PICK x \in S : n = Cardinality(Ahead(S, R, x))
    BY <1>4 DEF T
  <1>6. Ahead(S, R, x) = {}
    <2>1. SUFFICES ASSUME NEW y \in Ahead(S, R, x) PROVE FALSE
      OBVIOUS
    <2>2. y \in S /\ << y, x >> \in R
      BY <2>1 DEF Ahead
    <2>3. Cardinality(Ahead(S, R, y)) < Cardinality(Ahead(S, R, x))
      BY <2>2, RanksFollow
    <2>4. Cardinality(Ahead(S, R, y)) \in T
      BY <2>2 DEF T
    <2>5. QED
      BY <1>2, <1>4, <1>5, <2>2, <2>3, <2>4
  <1>7. QED
    BY <1>6

(* Of finitely many numbers there is a greatest.                            *)
LEMMA GreatestIs ==
  ASSUME NEW V \in SUBSET Nat, IsFiniteSet(V)
  PROVE  /\ Greatest(V) \in V \union {0} /\ Greatest(V) \in Nat
         /\ \A v \in V : v <= Greatest(V)
  <1> DEFINE W == V \union {0}
             R == {p \in W \X W : p[1] > p[2]}
  <1>1. IsFiniteSet(W) /\ W # {} /\ W \in SUBSET Nat
    BY FS_AddElement
  <1>2. \A a, b \in W : << a, b >> \in R <=> a > b
    OBVIOUS
  <1> HIDE DEF W, R
  <1>3. Orders(R, W)
    BY <1>1, <1>2 DEF Orders
  <1>4. PICK m \in W : Ahead(W, R, m) = {}
    BY <1>1, <1>3, FirstIs
  <1>5. \A v \in W : v <= m
    <2>1. TAKE v \in W
    <2>2. v \in Nat /\ m \in Nat
      BY <1>1
    <2>3. << v, m >> \notin R
      BY <1>4 DEF Ahead
    <2>4. ~(v > m)
      BY <1>2, <2>3
    <2>5. QED
      BY <2>2, <2>4
  <1>6. Greatest(V) \in W /\ \A v \in V : v <= Greatest(V)
    BY <1>5 DEF Greatest, W
  <1>7. QED
    BY <1>1, <1>6 DEF W

(* A bar is no longer than its track, and whole where it is the longest.    *)
LEMMA PercentIs ==
  ASSUME NEW v \in Nat, NEW max \in Nat, v <= max
  PROVE  Percent(v, max) \in 0..100 /\ (v = max /\ max > 0 => Percent(v, max) = 100)
  <1>1. CASE max > 0
    <2>1. (100 * v) \div max \in Nat /\ (100 * v) \div max <= 100
      BY <1>1
    <2>2. v = max => (100 * v) \div max = 100
      BY <1>1
    <2>3. QED
      BY <1>1, <2>1, <2>2 DEF Percent
  <1>2. CASE ~(max > 0)
    BY <1>2 DEF Percent
  <1>3. QED
    BY <1>1, <1>2

(* Terms of zero come to zero.                                              *)
LEMMA TotalOfNothing ==
  ASSUME NEW S, IsFiniteSet(S), NEW v, \A e \in S : v[e] = 0
  PROVE  SumOver(v, S) = 0
  <1>1. Counts(v, S) /\ \A e \in S : v[e] = v[e] + v[e]
    BY DEF Counts
  <1> DEFINE t == SumOver(v, S)
  <1>2. t \in Nat /\ t = t + t
    BY <1>1, TotalAdds, TotalIs
  <1> HIDE DEF t
  <1>3. t = 0
    BY <1>2
  <1>4. QED
    BY <1>3 DEF t

(* The rows of a breakdown list every group, the most expensive first.      *)
LEMMA RowsAreListed ==
  ASSUME NEW groups, IsFiniteSet(DOMAIN groups), DOMAIN groups \in SUBSET Int,
         \A k \in DOMAIN groups : groups[k].estimatedCostUsd \in Nat
  PROVE  LET K == DOMAIN groups
             rows == SortCostGroups(groups)
         IN  /\ rows \in [1..Cardinality(K) -> K]
             /\ \A i, j \in 1..Cardinality(K) : i < j => ListedAbove(groups, rows[i], rows[j])
             /\ \A k \in K : \E i \in 1..Cardinality(K) : rows[i] = k
  <1> DEFINE K == DOMAIN groups
             n == Cardinality(K)
             R == {p \in K \X K : ListedAbove(groups, p[1], p[2])}
             rows == SortCostGroups(groups)
  <1>1. \A a, b \in K : << a, b >> \in R <=> ListedAbove(groups, a, b)
    OBVIOUS
  <1>2. IsFiniteSet(K) /\ K \in SUBSET Int /\ \A k \in K : groups[k].estimatedCostUsd \in Nat
    OBVIOUS
  <1>3. n \in Nat
    BY FS_CardinalityType
  <1> HIDE DEF R
  <1>4. Orders(R, K)
    <2> HIDE DEF K
    <2>1. \A x \in K : << x, x >> \notin R
      BY <1>1, <1>2 DEF ListedAbove
    <2>2. \A x, y \in K : x # y => << x, y >> \in R \/ << y, x >> \in R
      BY <1>1, <1>2 DEF ListedAbove
    <2>3. \A x, y, z \in K : << x, y >> \in R /\ << y, z >> \in R => << x, z >> \in R
      BY <1>1, <1>2 DEF ListedAbove
    <2>4. QED
      BY <2>1, <2>2, <2>3 DEF Orders
  <1>5. \E r \in [1..n -> K] : \A i, j \in DOMAIN r : i < j => ListedAbove(groups, r[i], r[j])
    <2>1. PICK r \in [1..n -> K] : \A i, j \in 1..n : i < j => << r[i], r[j] >> \in R
      BY <1>2, <1>4, OrderedRows
    <2>2. DOMAIN r = 1..n /\ \A i \in 1..n : r[i] \in K
      OBVIOUS
    <2> HIDE DEF K, n
    <2>3. QED
      BY <1>1, <2>1, <2>2
  <1>6. /\ rows \in [1..n -> K]
        /\ \A i, j \in DOMAIN rows : i < j => ListedAbove(groups, rows[i], rows[j])
    BY <1>5 DEF SortCostGroups
  <1>7. \A i, j \in 1..n : i < j => ListedAbove(groups, rows[i], rows[j])
    BY <1>6
  <1> HIDE DEF rows, n, K
  <1>8. rows \in Injection(1..n, K)
    <2>1. \A x \in K : ~ListedAbove(groups, x, x)
      BY <1>1, <1>4 DEF Orders
    <2>2. \A i, j \in 1..n : i # j => rows[i] # rows[j]
      <3>1. TAKE i, j \in 1..n
      <3>2. HAVE i # j
      <3>3. i < j \/ j < i
        BY <1>3, <3>2
      <3>4. rows[i] \in K /\ rows[j] \in K
        BY <1>6
      <3>5. QED
        BY <1>7, <2>1, <3>3, <3>4
    <2>3. DOMAIN rows = 1..n
      BY <1>6
    <2>4. QED
      BY <1>6, <2>2, <2>3 DEF Injection, IsInjective
  <1>9. rows \in Surjection(1..n, K)
    <2>1. IsFiniteSet(1..n) /\ Cardinality(1..n) = IF 1 > n THEN 0 ELSE n - 1 + 1
      BY <1>3, FS_Interval
    <2>2. Cardinality(1..n) = Cardinality(K)
      BY <1>3, <2>1 DEF n
    <2>3. QED
      BY <1>2, <1>8, <2>2, FS_Injection
  <1>10. \A k \in K : \E i \in 1..n : rows[i] = k
    BY <1>9 DEF Surjection
  <1>11. QED
    BY <1>6, <1>7, <1>10 DEF n, K, rows

(* No bar is longer than its track, and the first is whole.                 *)
LEMMA BarsFit ==
  ASSUME NEW groups, IsFiniteSet(DOMAIN groups), DOMAIN groups \in SUBSET Int,
         \A k \in DOMAIN groups : groups[k].estimatedCostUsd \in Nat
  PROVE  /\ \A i \in DOMAIN ShareBars(groups) : ShareBars(groups)[i].percent <= 100
         /\ Column(groups, "estimatedCostUsd") > 0 => ShareBars(groups)[1].percent = 100
  <1> DEFINE K == DOMAIN groups
             n == Cardinality(K)
             rows == SortCostGroups(groups)
             cost == [k \in K |-> groups[k]["estimatedCostUsd"]]
             V == {groups[k].estimatedCostUsd : k \in K}
             max == Greatest(V)
             bars == ShareBars(groups)
  <1>1. /\ rows \in [1..n -> K]
        /\ \A i, j \in 1..n : i < j => ListedAbove(groups, rows[i], rows[j])
        /\ \A k \in K : \E i \in 1..n : rows[i] = k
    BY RowsAreListed
  <1>2. V \in SUBSET Nat /\ IsFiniteSet(V) /\ n \in Nat
    <2>1. V \in SUBSET Nat
      OBVIOUS
    <2>2. V = {cost[k] : k \in K} /\ IsFiniteSet(K)
      OBVIOUS
    <2> HIDE DEF V, cost
    <2>3. QED
      BY <2>1, <2>2, FiniteImage, FS_CardinalityType
  <1>3. max \in V \union {0} /\ max \in Nat /\ \A v \in V : v <= max
    BY <1>2, GreatestIs
  <1>4. \A k \in K : /\ cost[k] = groups[k].estimatedCostUsd /\ cost[k] \in V
                     /\ cost[k] \in Nat
    OBVIOUS
  <1>5. DOMAIN bars = 1..n /\ \A i \in 1..n : bars[i].percent = Percent(cost[rows[i]], max)
    <2>1. DOMAIN rows = 1..n /\ \A i \in 1..n : rows[i] \in K
      BY <1>1
    <2> HIDE DEF rows, n, max
    <2>2. DOMAIN bars = 1..n
      BY <2>1 DEF ShareBars, rows
    <2>3. \A i \in 1..n :
            bars[i].percent = Percent(groups[rows[i]].estimatedCostUsd, max)
      BY <2>1 DEF ShareBars, rows, max
    <2>4. QED
      BY <1>4, <2>1, <2>2, <2>3
  <1>7. \A i \in DOMAIN bars : bars[i].percent <= 100
    <2>1. TAKE i \in DOMAIN bars
    <2>2. i \in 1..n /\ rows[i] \in K
      BY <1>1, <1>5
    <2>3. /\ cost[rows[i]] \in Nat /\ cost[rows[i]] <= max
          /\ bars[i].percent = Percent(cost[rows[i]], max)
      BY <1>3, <1>4, <1>5, <2>2
    <2> HIDE DEF cost, bars, rows, max
    <2>4. Percent(cost[rows[i]], max) \in 0..100
      BY <1>3, <2>3, PercentIs
    <2>5. QED
      BY <2>3, <2>4
  <1>8. ASSUME Column(groups, "estimatedCostUsd") > 0 PROVE bars[1].percent = 100
    <2>1. Column(groups, "estimatedCostUsd") = SumOver(cost, K)
      BY ColumnIs
    <2> HIDE DEF cost, rows, V, max, bars
    <2>2. PICK k \in K : cost[k] # 0
      <3>1. IsFiniteSet(K)
        OBVIOUS
      <3> HIDE DEF K
      <3>2. QED
        BY <1>8, <2>1, <3>1, TotalOfNothing
    <2>3. PICK i \in 1..n : rows[i] = k
      BY <1>1
    <2>4. 1 \in 1..n /\ rows[1] \in K
      BY <1>1, <1>2, <2>3
    <2>5. \A j \in K : cost[j] <= cost[rows[1]]
      <3>1. TAKE j \in K
      <3>2. PICK a \in 1..n : rows[a] = j
        BY <1>1
      <3>3. CASE a = 1
        BY <1>4, <2>4, <3>2, <3>3
      <3>4. CASE a # 1
        <4>1. 1 < a
          BY <1>2, <3>4
        <4>2. ListedAbove(groups, rows[1], rows[a])
          BY <1>1, <2>4, <4>1
        <4>3. cost[rows[1]] > cost[j] \/ cost[rows[1]] = cost[j]
          BY <1>4, <2>4, <3>2, <4>2 DEF ListedAbove
        <4>4. QED
          BY <1>4, <2>4, <4>3
      <3>5. QED
        BY <3>3, <3>4
    <2>6. cost[rows[1]] = max /\ max > 0 /\ max \in Nat
      <3>1. cost[rows[1]] > 0 /\ cost[rows[1]] <= max
        BY <1>3, <1>4, <2>2, <2>4, <2>5
      <3>2. PICK j \in K : max = cost[j]
        <4>1. max \in V
          BY <1>3, <1>4, <2>4, <3>1
        <4>2. QED
          BY <1>4, <4>1 DEF V
      <3>3. QED
        BY <1>3, <1>4, <2>4, <2>5, <3>1, <3>2
    <2>7. QED
      BY <1>5, <2>4, <2>6, PercentIs
  <1>9. QED
    BY <1>7, <1>8 DEF bars

(* The display model of an aggregate.                                       *)
LEMMA ToTotalsIs ==
  ASSUME NEW x, DOMAIN x = Fields
  PROVE  /\ \A f \in Fields : ToTotals(x)[f] = x[f]
         /\ ToTotals(x).totalTokens = x.inputTokens + x.outputTokens
         /\ DOMAIN ToTotals(x) = Fields \union {"totalTokens"}
  BY DEF ToTotals, Fields

(* The models of one id collapsed into one row.                             *)
LEMMA ModelRowIs ==
  ASSUME NEW G, NEW id \in {n.modelId : n \in DOMAIN G}
  PROVE  /\ \A f \in Fields :
              ToModelGroups(G)[id][f]
                = SumOver([n \in DOMAIN G |-> G[n][f]], {n \in DOMAIN G : n.modelId = id})
         /\ ToModelGroups(G)[id].totalTokens
              = ToModelGroups(G)[id].inputTokens + ToModelGroups(G)[id].outputTokens
  <1> DEFINE rows == {n \in DOMAIN G : n.modelId = id}
             row == [f \in DOMAIN Aggregate({}) |-> MapThenSumSet(LAMBDA n : G[n][f], rows)]
  <1>1. DOMAIN Aggregate({}) = Fields
    BY Zenon DEF Aggregate, Fields
  <1>2. ToModelGroups(G)[id] = ToTotals(row)
    BY DEF ToModelGroups
  <1>3. DOMAIN row = Fields
    BY <1>1
  <1>4. \A f \in Fields : row[f] = SumOver([n \in DOMAIN G |-> G[n][f]], rows)
    <2>1. TAKE f \in Fields
    <2> DEFINE v == [n \in DOMAIN G |-> G[n][f]]
               R(g) == g = [s \in SUBSET rows |-> IF s = {} THEN 0
                              ELSE G[AnElement(s)][f] + g[s \ {AnElement(s)}]]
    <2>2. row[f] = (CHOOSE g : R(g))[rows]
      BY <1>1 DEF MapThenSumSet, MapThenFoldSet, AnElement
    <2>3. \A s \in SUBSET rows : s # {} => v[AnElement(s)] = G[AnElement(s)][f]
      BY DEF AnElement
    <2> HIDE DEF v, rows, row
    <2>4. \A g : R(g) <=> Recurs(v, g, rows)
      BY <2>3 DEF Recurs
    <2> HIDE DEF R
    <2>5. row[f] = SumOver(v, rows)
      BY <2>2, <2>4, Zenon DEF SumOver
    <2>6. QED
      BY <2>5 DEF v
  <1> HIDE DEF row, rows
  <1>5. \A f \in Fields : ToTotals(row)[f] = row[f]
    BY <1>3, ToTotalsIs
  <1>6. ToTotals(row).totalTokens = row.inputTokens + row.outputTokens
    BY <1>3, ToTotalsIs
  <1>7. "inputTokens" \in Fields /\ "outputTokens" \in Fields
    BY DEF Fields
  <1>8. \A f \in Fields : ToModelGroups(G)[id][f] = SumOver([n \in DOMAIN G |-> G[n][f]], rows)
    BY <1>2, <1>4, <1>5
  <1>9. ToModelGroups(G)[id].totalTokens
          = ToModelGroups(G)[id].inputTokens + ToModelGroups(G)[id].outputTokens
    BY <1>2, <1>5, <1>6, <1>7
  <1>10. QED
    BY <1>8, <1>9 DEF rows

(* Groups of records: their figures are numbers.                            *)
AreGroups(G) ==
  /\ IsFiniteSet(DOMAIN G)
  /\ \A k \in DOMAIN G : DOMAIN G[k] = Fields /\ \A f \in Fields : G[k][f] \in Nat

(* The rows of the models hold figures ...                                  *)
LEMMA ByModelGroups ==
  ASSUME NEW S \in SUBSET Stored
  PROVE  AreGroups(ByModel(S)) /\ \A n \in DOMAIN ByModel(S) : n.modelId \in Int
  <1> DEFINE K == {ModelOf(e) : e \in S}
             k == [e \in S |-> ModelOf(e)]
  <1>1. DOMAIN ByModel(S) = K
    BY DEF ByModel
  <1>2. IsFiniteSet(S) /\ K = {k[e] : e \in S}
    BY WeightsCount, FS_Subset
  <1>3. \A n \in K : n.modelId \in Int
    BY ReportsAssumption DEF ModelOf, Stored, IsObservation
  <1>4. \A n \in K : DOMAIN ByModel(S)[n] = Fields /\ \A f \in Fields : ByModel(S)[n][f] \in Nat
    <2>1. TAKE n \in K
    <2> DEFINE B == {e \in S : ModelOf(e) = n}
    <2>2. B \in SUBSET Stored /\ ByModel(S)[n] = Aggregate(B)
      BY DEF ByModel
    <2> HIDE DEF B
    <2>3. QED
      BY <2>2, AggregateIs, TotalsAre
  <1> HIDE DEF K, k
  <1>5. IsFiniteSet(K)
    BY <1>2, FiniteImage
  <1>6. QED
    BY <1>1, <1>3, <1>4, <1>5 DEF AreGroups

(* ... and so do those of the providers ...                                 *)
LEMMA ByProviderGroups ==
  ASSUME NEW S \in SUBSET Stored
  PROVE  AreGroups(ByProvider(S))
  <1> DEFINE K == {Observed[e].providerId : e \in S}
             k == [e \in S |-> Observed[e].providerId]
  <1>1. DOMAIN ByProvider(S) = K
    BY DEF ByProvider
  <1>2. IsFiniteSet(S) /\ K = {k[e] : e \in S}
    BY WeightsCount, FS_Subset
  <1>4. \A n \in K : /\ DOMAIN ByProvider(S)[n] = Fields
                     /\ \A f \in Fields : ByProvider(S)[n][f] \in Nat
    <2>1. TAKE n \in K
    <2> DEFINE B == {e \in S : Observed[e].providerId = n}
    <2>2. B \in SUBSET Stored /\ ByProvider(S)[n] = Aggregate(B)
      BY DEF ByProvider
    <2> HIDE DEF B
    <2>3. QED
      BY <2>2, AggregateIs, TotalsAre
  <1> HIDE DEF K, k
  <1>5. IsFiniteSet(K)
    BY <1>2, FiniteImage
  <1>6. QED
    BY <1>1, <1>4, <1>5 DEF AreGroups

(* All tokens of the rows are the input and the output tokens of the rows.  *)
LEMMA TokensAddUp ==
  ASSUME NEW H, IsFiniteSet(DOMAIN H),
         \A k \in DOMAIN H : /\ H[k].inputTokens \in Nat /\ H[k].outputTokens \in Nat
                             /\ H[k].totalTokens = H[k].inputTokens + H[k].outputTokens
  PROVE  Column(H, "totalTokens") = Column(H, "inputTokens") + Column(H, "outputTokens")
  <1> DEFINE K == DOMAIN H
             u == [g \in K |-> H[g]["totalTokens"]]
             v == [g \in K |-> H[g]["inputTokens"]]
             w == [g \in K |-> H[g]["outputTokens"]]
  <1>1. /\ Column(H, "totalTokens") = SumOver(u, K) /\ Column(H, "inputTokens") = SumOver(v, K)
        /\ Column(H, "outputTokens") = SumOver(w, K)
    BY ColumnIs
  <1>2. Counts(v, K) /\ Counts(w, K) /\ \A e \in K : u[e] = v[e] + w[e]
    BY DEF Counts
  <1>3. IsFiniteSet(K)
    OBVIOUS
  <1> HIDE DEF K, u, v, w
  <1>4. SumOver(u, K) = SumOver(v, K) + SumOver(w, K)
    BY <1>2, <1>3, TotalAdds
  <1>5. QED
    BY <1>1, <1>4

(* Collapsing the models loses nothing.                                     *)
LEMMA ModelRowsAddUp ==
  ASSUME NEW G, AreGroups(G), \A n \in DOMAIN G : n.modelId \in Int
  PROVE  LET H == ToModelGroups(G)
         IN  /\ IsFiniteSet(DOMAIN H) /\ DOMAIN H \in SUBSET Int
             /\ \A id \in DOMAIN H : /\ \A f \in Fields : H[id][f] \in Nat
                                     /\ H[id].totalTokens = H[id].inputTokens + H[id].outputTokens
             /\ \A f \in Fields : Column(H, f) = Column(G, f)
  <1> DEFINE H == ToModelGroups(G)
             K == DOMAIN G
             ids == {n.modelId : n \in K}
             key == [n \in K |-> n.modelId]
  <1>1. DOMAIN H = ids
    BY DEF ToModelGroups
  <1>2. IsFiniteSet(K) /\ ids = {key[n] : n \in K} /\ ids \in SUBSET Int
    BY DEF AreGroups
  <1>3. IsFiniteSet(ids)
    <2> HIDE DEF ids, key, K
    <2>1. QED
      BY <1>2, FiniteImage
  <1>4. \A id \in ids : /\ \A f \in Fields :
                             H[id][f] = SumOver([n \in K |-> G[n][f]], GroupOf(K, key, id))
                        /\ H[id].totalTokens = H[id].inputTokens + H[id].outputTokens
    <2>1. TAKE id \in ids
    <2>2. GroupOf(K, key, id) = {n \in K : n.modelId = id}
      BY DEF GroupOf
    <2>3. /\ \A f \in Fields :
               H[id][f] = SumOver([n \in K |-> G[n][f]], {n \in K : n.modelId = id})
          /\ H[id].totalTokens = H[id].inputTokens + H[id].outputTokens
      BY ModelRowIs
    <2> HIDE DEF H, K, key
    <2>4. QED
      BY <2>2, <2>3
  <1>5. \A n \in K : key[n] \in ids
    OBVIOUS
  <1>6. ASSUME NEW f \in Fields
        PROVE  Column(H, f) = Column(G, f) /\ \A id \in ids : H[id][f] \in Nat
    <2> DEFINE v == [n \in K |-> G[n][f]]
               sums == [id \in DOMAIN H |-> H[id][f]]
    <2>1. Counts(v, K)
      BY DEF Counts, AreGroups
    <2>2. \A id \in ids : sums[id] = SumOver(v, GroupOf(K, key, id)) /\ sums[id] = H[id][f]
      <3> HIDE DEF H
      <3>1. QED
        BY <1>1, <1>4
    <2>3. Column(H, f) = SumOver(sums, ids) /\ Column(G, f) = SumOver(v, K)
      BY <1>1, ColumnIs
    <2> HIDE DEF v, sums, K, ids, key, H
    <2>4. Counts(sums, ids) /\ SumOver(sums, ids) = SumOver(v, K)
      <3>1. /\ IsFiniteSet(K) /\ IsFiniteSet(ids) /\ \A n \in K : key[n] \in ids
            /\ \A id \in ids : sums[id] = SumOver(v, GroupOf(K, key, id))
        BY <1>2, <1>3, <1>5, <2>2
      <3>2. QED
        BY <2>1, <3>1, TotalOfGroups
    <2>5. QED
      BY <2>2, <2>3, <2>4 DEF Counts
  <1> HIDE DEF ids, H
  <1>7. QED
    BY <1>1, <1>2, <1>3, <1>4, <1>6 DEF H

(* Pending ones are not all of them exactly where an actual cost came.      *)
LEMMA ActualCame ==
  ASSUME NEW B \in SUBSET Stored
  PROVE  Aggregate(B).requestCount - Aggregate(B).pendingActualCostCount > 0
           <=> {e \in B : Given(Observed[e].actualCostUsd)} # {}
  <1> DEFINE T == {e \in B : ~Given(Observed[e].actualCostUsd)}
  <1>1. Aggregate(B).requestCount = Cardinality(B)
        /\ Aggregate(B).pendingActualCostCount = Cardinality(T)
    BY Zenon DEF Aggregate
  <1>2. IsFiniteSet(B) /\ T \in SUBSET B
    BY WeightsCount, FS_Subset
  <1>3. T = B <=> {e \in B : Given(Observed[e].actualCostUsd)} = {}
    OBVIOUS
  <1> HIDE DEF T
  <1>4. /\ Cardinality(B) \in Nat /\ Cardinality(T) \in Nat /\ Cardinality(T) <= Cardinality(B)
        /\ Cardinality(B) = Cardinality(T) <=> T = B
    BY <1>2, FS_Subset, FS_CardinalityType
  <1> DEFINE n == Cardinality(B)
             m == Cardinality(T)
  <1>5. n \in Nat /\ m \in Nat /\ m <= n /\ (n = m <=> T = B)
    BY <1>4
  <1> HIDE DEF n, m
  <1>6. n - m > 0 <=> T # B
    BY <1>5
  <1>7. QED
    BY <1>1, <1>3, <1>6 DEF n, m

(* What is drawn of a series of aggregates lies within its scale.           *)
LEMMA DrawnFits ==
  ASSUME NEW series, AreGroups(series), NEW b \in DOMAIN series, NEW metric \in TrendMetrics
  PROVE  Drawn(TrendPoints(series), b, metric) \subseteq 0..100
  <1> DEFINE points == TrendPoints(series)
             K == DOMAIN series
             fig(k) == points[k].figures
  <1>1. DOMAIN points = K /\ IsFiniteSet(K)
    BY DEF TrendPoints, AreGroups
  <1>2. \A k \in K :
          /\ fig(k).requestCount \in Nat /\ fig(k).inputTokens \in Nat
          /\ fig(k).outputTokens \in Nat /\ fig(k).estimatedCostUsd \in Nat
          /\ fig(k).actualCostUsd \in Nat
          /\ fig(k).totalTokens = fig(k).inputTokens + fig(k).outputTokens
    <2>1. TAKE k \in K
    <2>2. DOMAIN series[k] = Fields /\ \A f \in Fields : series[k][f] \in Nat
      BY DEF AreGroups
    <2>3. fig(k) = ToTotals(series[k])
      BY DEF TrendPoints
    <2>4. /\ \A f \in Fields : fig(k)[f] = series[k][f]
          /\ fig(k).totalTokens = series[k].inputTokens + series[k].outputTokens
      BY <2>2, <2>3, ToTotalsIs
    <2>5. /\ "requestCount" \in Fields /\ "inputTokens" \in Fields /\ "outputTokens" \in Fields
          /\ "estimatedCostUsd" \in Fields /\ "actualCostUsd" \in Fields
      BY DEF Fields
    <2> HIDE DEF fig
    <2>6. QED
      BY <2>2, <2>4, <2>5
  <1>3. b \in K
    OBVIOUS
  <1> HIDE DEF points, K, fig
  <1> DEFINE value(k) == MetricValue(points[k], metric)
             max == MetricMax(points, metric)
             pair(k) == {fig(k).estimatedCostUsd, fig(k).actualCostUsd}
  <1>4. \A k \in K : metric = "cost" =>
          /\ value(k) = Greatest(pair(k)) /\ value(k) \in Nat
          /\ fig(k).estimatedCostUsd <= value(k) /\ fig(k).actualCostUsd <= value(k)
    <2>1. TAKE k \in K
    <2>2. HAVE metric = "cost"
    <2>3. value(k) = Greatest(pair(k))
      BY <2>2 DEF MetricValue, fig
    <2>4. pair(k) \in SUBSET Nat /\ IsFiniteSet(pair(k))
      <3>1. IsFiniteSet({fig(k).estimatedCostUsd}) /\ IsFiniteSet({fig(k).actualCostUsd})
        BY FS_Singleton
      <3>2. IsFiniteSet({fig(k).estimatedCostUsd} \union {fig(k).actualCostUsd})
        BY <3>1, FS_AddElement
      <3>3. pair(k) = {fig(k).estimatedCostUsd} \union {fig(k).actualCostUsd}
        OBVIOUS
      <3>4. QED
        BY <1>2, <3>2, <3>3
    <2>5. \A x \in pair(k) : x <= value(k)
      BY <2>3, <2>4, GreatestIs
    <2>6. value(k) \in Nat
      BY <2>3, <2>4, GreatestIs
    <2>7. QED
      BY <2>3, <2>5, <2>6
  <1>5. \A k \in K : /\ value(k) \in Nat
                     /\ metric = "requests" => value(k) = fig(k).requestCount
                     /\ metric = "tokens" => value(k) = fig(k).totalTokens
    <2>1. TAKE k \in K
    <2>2. /\ metric = "requests" => value(k) = fig(k).requestCount
          /\ metric = "tokens" => value(k) = fig(k).totalTokens
      BY DEF MetricValue, fig
    <2> HIDE DEF value
    <2>3. metric \in {"requests", "tokens", "cost"}
      BY DEF TrendMetrics
    <2>4. value(k) \in Nat
      <3>1. fig(k).requestCount \in Nat /\ fig(k).totalTokens \in Nat
        BY <1>2
      <3>2. metric = "cost" => value(k) \in Nat
        BY <1>4
      <3>3. QED
        BY <2>2, <2>3, <3>1, <3>2
    <2>5. QED
      BY <2>2, <2>4
  <1>6. max \in Nat /\ \A k \in K : value(k) <= max
    <2> DEFINE values == [k \in K |-> value(k)]
               V == {values[k] : k \in K}
    <2>1. V = {MetricValue(points[k], metric) : k \in DOMAIN points}
      BY <1>1
    <2>2. max = Greatest(V)
      BY <2>1 DEF MetricMax
    <2>3. V \in SUBSET Nat
      BY <1>5
    <2>4. \A k \in K : value(k) \in V
      OBVIOUS
    <2> HIDE DEF values, value
    <2>5. IsFiniteSet(V)
      BY <1>1, FiniteImage
    <2> HIDE DEF V, max
    <2>6. QED
      BY <2>2, <2>3, <2>4, <2>5, GreatestIs
  <1> HIDE DEF value, max
  <1>7. \A x \in Nat : x <= value(b) => Percent(x, max) \in 0..100
    <2>1. TAKE x \in Nat
    <2>2. HAVE x <= value(b)
    <2>3. x <= max
      BY <1>3, <1>5, <1>6, <2>2
    <2>4. QED
      BY <1>6, <2>3, PercentIs
  <1>8. CASE metric = "requests"
    <2>1. Drawn(points, b, metric) = {Percent(fig(b).requestCount, max)}
      BY <1>8 DEF Drawn, max, fig
    <2>2. QED
      BY <1>2, <1>3, <1>5, <1>7, <1>8, <2>1 DEF points
  <1>9. CASE metric = "tokens"
    <2>1. Drawn(points, b, metric)
            = {Percent(fig(b).totalTokens, max), Percent(fig(b).inputTokens, max)}
      BY <1>9 DEF Drawn, max, fig
    <2>2. /\ fig(b).totalTokens \in Nat /\ fig(b).totalTokens <= value(b)
          /\ fig(b).inputTokens \in Nat /\ fig(b).inputTokens <= value(b)
      BY <1>2, <1>3, <1>5, <1>9
    <2>3. Percent(fig(b).totalTokens, max) \in 0..100 /\ Percent(fig(b).inputTokens, max) \in 0..100
      BY <1>7, <2>2
    <2>4. QED
      BY <2>1, <2>3 DEF points
  <1>10. CASE metric = "cost"
    <2>1. Drawn(points, b, metric) \subseteq
            {Percent(fig(b).estimatedCostUsd, max), Percent(fig(b).actualCostUsd, max)}
      BY <1>10 DEF Drawn, max, fig
    <2>2. /\ Percent(fig(b).estimatedCostUsd, max) \in 0..100
          /\ Percent(fig(b).actualCostUsd, max) \in 0..100
      BY <1>2, <1>3, <1>4, <1>7, <1>10
    <2>3. QED
      BY <2>1, <2>2 DEF points
  <1>11. QED
    BY <1>8, <1>9, <1>10 DEF TrendMetrics

(* ... and of a series, whose buckets are contiguous.                       *)
LEMMA SeriesGroups ==
  ASSUME NEW S \in SUBSET Stored, NEW q \in Queries
  PROVE  /\ AreGroups(Timeseries(S, q))
         /\ DOMAIN Timeseries(S, q) = BucketOf(q.since)..BucketOf(q.until - 1)
         /\ \A b \in DOMAIN Timeseries(S, q) :
              /\ InBucket(S, q.since, q, b) \in SUBSET Stored
              /\ Timeseries(S, q)[b] = Aggregate(InBucket(S, q.since, q, b))
  <1> DEFINE from == q.since
             T == Timeseries(S, q)
  <1>1. from \in Int /\ q.until - 1 \in Int
    BY BackIsBefore
  <1>2. BucketOf(from) \in Int /\ BucketOf(q.until - 1) \in Int
    BY <1>1, BucketsFollow
  <1>3. T = Bucketed(S, from, q)
    BY DEF Timeseries
  <1> HIDE DEF from, T
  <1>4. DOMAIN T = BucketOf(from)..BucketOf(q.until - 1)
    BY <1>1, <1>3, BucketsAddUp
  <1>5. \A b \in DOMAIN T : /\ InBucket(S, from, q, b) \in SUBSET Stored
                            /\ T[b] = Aggregate(InBucket(S, from, q, b))
    BY <1>1, <1>3, <1>4, BucketIs
  <1>6. IsFiniteSet(DOMAIN T)
    BY <1>2, <1>4, FS_Interval
  <1>7. \A b \in DOMAIN T : DOMAIN T[b] = Fields /\ \A f \in Fields : T[b][f] \in Nat
    BY <1>5, AggregateIs, TotalsAre
  <1>8. QED
    BY <1>4, <1>5, <1>6, <1>7 DEF AreGroups, from, T

(* The page of recent requests is part of the window, empty only when that  *)
(* is, and no longer than its limit.                                        *)
LEMMA RecentAre ==
  ASSUME NEW S \in SUBSET Stored, NEW q \in Queries
  PROVE  LET F == Filtered(S, q)
             E == RecentEvents(S, q)
         IN  /\ F \in SUBSET Stored /\ E \in SUBSET F /\ IsFiniteSet(F) /\ IsFiniteSet(E)
             /\ E = {} <=> F = {}
             /\ Cardinality(E) <= RecentLimit
  <1> DEFINE F == Filtered(S, q)
             E == RecentEvents(S, q)
             R == {p \in F \X F : Newer(p[1], p[2])}
             rank == [e \in E |-> Cardinality(Ahead(F, R, e))]
  <1>1. F \in SUBSET Stored /\ IsFiniteSet(F)
    <2>1. F \in SUBSET Stored
      BY FilteredStored
    <2> HIDE DEF F
    <2>2. QED
      BY <2>1, WeightsCount, FS_Subset
  <1>2. \A e \in F : e \in Int /\ Observed[e].receivedAt \in Int
    BY <1>1, ReportsAssumption DEF Stored, IsObservation
  <1>3. \A a, b \in F : << a, b >> \in R <=> Newer(a, b)
    OBVIOUS
  <1> HIDE DEF R
  <1>4. E = {e \in F : Cardinality(Ahead(F, R, e)) < RecentLimit}
    <2>1. \A e \in F : Ahead(F, R, e) = {d \in F : Newer(d, e)}
      BY <1>3 DEF Ahead
    <2>2. E = {e \in F : Cardinality({d \in F : Newer(d, e)}) < RecentLimit}
      BY DEF RecentEvents
    <2> HIDE DEF F
    <2>3. QED
      BY <2>1, <2>2
  <1> HIDE DEF F, E
  <1>5. Orders(R, F)
    <2>1. \A x \in F : << x, x >> \notin R
      BY <1>2, <1>3 DEF Newer
    <2>2. \A x, y, z \in F : << x, y >> \in R /\ << y, z >> \in R => << x, z >> \in R
      BY <1>2, <1>3 DEF Newer
    <2>3. \A x, y \in F : x # y => << x, y >> \in R \/ << y, x >> \in R
      BY <1>2, <1>3 DEF Newer
    <2>4. QED
      BY <2>1, <2>2, <2>3 DEF Orders
  <1>6. RecentLimit \in Nat /\ RecentLimit > 0
    BY ReportsAssumption
  <1>7. F # {} => E # {}
    <2>1. SUFFICES ASSUME F # {} PROVE E # {}
      OBVIOUS
    <2>2. PICK x \in F : Ahead(F, R, x) = {}
      BY <1>1, <1>5, <2>1, FirstIs
    <2>3. Cardinality(Ahead(F, R, x)) = 0
      BY <2>2, FS_EmptySet
    <2>4. QED
      BY <1>4, <1>6, <2>3
  <1>8. E \in SUBSET F /\ IsFiniteSet(E)
    <2>1. E \in SUBSET F
      BY <1>4
    <2>2. QED
      BY <1>1, <2>1, FS_Subset
  <1>9. Cardinality(E) <= RecentLimit
    <2> DEFINE T == 0..(RecentLimit - 1)
    <2>1. \A e \in E : rank[e] \in T
      <3>1. TAKE e \in E
      <3>2. Cardinality(Ahead(F, R, e)) \in Nat /\ Cardinality(Ahead(F, R, e)) < RecentLimit
        BY <1>1, <1>4, <1>5, RanksFollow
      <3>3. QED
        BY <1>6, <3>2
    <2>2. \A d, e \in E : d # e => rank[d] # rank[e]
      BY <1>1, <1>5, <1>8, RanksFollow
    <2>3. rank \in [E -> T] /\ DOMAIN rank = E
      BY <2>1
    <2> HIDE DEF rank
    <2>4. rank \in Injection(E, T)
      BY <2>2, <2>3 DEF Injection, IsInjective
    <2>5. IsFiniteSet(T) /\ Cardinality(T) = RecentLimit
      <3>1. 0 \in Int /\ RecentLimit - 1 \in Int
        BY <1>6
      <3>2. IsFiniteSet(T)
            /\ Cardinality(T) = IF 0 > RecentLimit - 1 THEN 0 ELSE RecentLimit - 1 - 0 + 1
        BY <3>1, FS_Interval
      <3> HIDE DEF T
      <3>3. QED
        BY <1>6, <3>2
    <2> HIDE DEF T
    <2>6. Cardinality(E) <= Cardinality(T)
      BY <2>4, <2>5, FS_Injection
    <2>7. QED
      BY <2>5, <2>6
  <1>10. QED
    BY <1>1, <1>7, <1>8, <1>9 DEF E, F

(* A request's flag is null exactly while its actual cost is unknown.       *)
LEMMA FlagsAre ==
  \A e : /\ Given(Observed[e].actualCostUsd) => Reconciled(e) \in BOOLEAN
         /\ ~Given(Observed[e].actualCostUsd) => Reconciled(e) = Null
         /\ Reconciled(e) = Null <=> ~Given(Observed[e].actualCostUsd)
  <1>1. TAKE e
  <1>2. Null \notin BOOLEAN
    BY ReportsAssumption
  <1>3. IsReconciled(Observed[e].costUsd, Observed[e].actualCostUsd) \in BOOLEAN
    BY DEF IsReconciled
  <1>4. QED
    BY <1>2, <1>3 DEF Reconciled

(* The flags of the requests listed add up.                                 *)
LEMMA FlagsAddUp ==
  ASSUME NEW E, IsFiniteSet(E)
  PROVE  LET flags == DeriveReconciliationSummary(E)
         IN  /\ flags.reconciled + flags.mismatch + flags.pending = flags.total
             /\ flags.total = Cardinality(E)
             /\ flags.pending = Cardinality({e \in E : ~Given(Observed[e].actualCostUsd)})
  <1> DEFINE A == {e \in E : Reconciled(e) = TRUE}
             B == {e \in E : Reconciled(e) = FALSE}
             C == {e \in E : Reconciled(e) = Null}
             flags == DeriveReconciliationSummary(E)
  <1>1. /\ flags.reconciled = Cardinality(A) /\ flags.mismatch = Cardinality(B)
        /\ flags.pending = Cardinality(C) /\ flags.total = Cardinality(E)
    BY DEF DeriveReconciliationSummary
  <1>2. \A e \in E : \/ Reconciled(e) = TRUE \/ Reconciled(e) = FALSE \/ Reconciled(e) = Null
    BY FlagsAre
  <1>3. Null # TRUE /\ Null # FALSE
    BY ReportsAssumption
  <1>4. C = {e \in E : ~Given(Observed[e].actualCostUsd)}
    BY FlagsAre
  <1>5. A \union B \union C = E /\ A \cap B = {} /\ (A \union B) \cap C = {}
    <2>1. A \union B \union C = E
      BY <1>2
    <2>2. A \cap B = {}
      OBVIOUS
    <2>3. (A \union B) \cap C = {}
      BY <1>3
    <2>4. QED
      BY <2>1, <2>2, <2>3
  <1>6. /\ A \in SUBSET E /\ B \in SUBSET E /\ C \in SUBSET E
    OBVIOUS
  <1> HIDE DEF A, B, C, flags
  <1>7. IsFiniteSet(A) /\ IsFiniteSet(B) /\ IsFiniteSet(C)
    BY <1>6, FS_Subset
  <1>8. Cardinality(A) \in Nat /\ Cardinality(B) \in Nat /\ Cardinality(C) \in Nat
    BY <1>7, FS_CardinalityType
  <1>9. IsFiniteSet(A \union B) /\ Cardinality(A \union B) = Cardinality(A) + Cardinality(B)
    <2>1. Cardinality(A \union B) = Cardinality(A) + Cardinality(B) - Cardinality(A \cap B)
          /\ IsFiniteSet(A \union B)
      BY <1>7, FS_Union
    <2>2. Cardinality(A \cap B) = 0
      BY <1>5, FS_EmptySet
    <2>3. QED
      BY <1>8, <2>1, <2>2
  <1>10. Cardinality(E) = Cardinality(A \union B) + Cardinality(C)
    <2>1. Cardinality((A \union B) \union C)
            = Cardinality(A \union B) + Cardinality(C) - Cardinality((A \union B) \cap C)
      BY <1>7, <1>9, FS_Union
    <2>2. Cardinality((A \union B) \cap C) = 0
      BY <1>5, FS_EmptySet
    <2>3. QED
      BY <1>5, <1>8, <1>9, <2>1, <2>2
  <1>11. flags.reconciled + flags.mismatch + flags.pending = flags.total
    BY <1>1, <1>8, <1>9, <1>10
  <1>12. QED
    BY <1>1, <1>4, <1>11 DEF flags

(* Rounded to whole buckets, evenly spaced labels stay apart.               *)
LEMMA TicksApart ==
  ASSUME NEW N \in Nat, NEW C \in Nat, 1 <= C, C <= N
  PROVE  LET t(i) == (2 * i * N + C) \div (2 * C)
         IN  /\ t(0) = 0 /\ t(C) = N
             /\ \A i \in 0..C : t(i) \in 0..N
             /\ \A i, j \in 0..C : i < j => t(i) < t(j)
  <1> DEFINE t(i) == (2 * i * N + C) \div (2 * C)
             top(i) == 2 * i * N + C
  <1>1. \A i \in Nat : top(i) \in Nat
    OBVIOUS
  <1>2. \A a \in Nat : /\ a \div (2 * C) \in Nat
                       /\ (2 * C) * (a \div (2 * C)) <= a
                       /\ a < (2 * C) * (a \div (2 * C)) + 2 * C
    <2> DEFINE m == 2 * C
    <2>1. m \in Nat /\ m > 0
      OBVIOUS
    <2> HIDE DEF m
    <2>2. \A a \in Nat : a \div m \in Nat /\ m * (a \div m) <= a /\ a < m * (a \div m) + m
      BY <2>1
    <2>3. QED
      BY <2>2 DEF m
  <1>3. \A i \in Nat : /\ t(i) \in Nat /\ (2 * C) * t(i) <= top(i)
                       /\ top(i) < (2 * C) * t(i) + 2 * C
    BY <1>1, <1>2
  <1>4. t(0) = 0
    <2>1. top(0) = C
      OBVIOUS
    <2>2. t(0) \in Nat /\ (2 * C) * t(0) <= C
      BY <1>3, <2>1
    <2> HIDE DEF t
    <2>3. ASSUME t(0) >= 1 PROVE FALSE
      <3>1. (2 * C) * t(0) >= 2 * C
        BY <2>2, <2>3
      <3>2. QED
        BY <2>2, <3>1
    <2>4. QED
      BY <2>2, <2>3
  <1>5. t(C) = N
    <2>1. top(C) = (2 * C) * N + C
      OBVIOUS
    <2>2. t(C) \in Nat /\ (2 * C) * t(C) <= (2 * C) * N + C
          /\ (2 * C) * N + C < (2 * C) * t(C) + 2 * C
      BY <1>3, <2>1
    <2> HIDE DEF t
    <2>3. ASSUME t(C) >= N + 1 PROVE FALSE
      <3>1. (2 * C) * t(C) >= (2 * C) * (N + 1)
        BY <2>2, <2>3
      <3>2. (2 * C) * (N + 1) = (2 * C) * N + 2 * C /\ (2 * C) * N \in Nat
        OBVIOUS
      <3>3. QED
        BY <2>2, <3>1, <3>2
    <2>4. ASSUME t(C) + 1 <= N PROVE FALSE
      <3>1. (2 * C) * N >= (2 * C) * (t(C) + 1)
        BY <2>2, <2>4
      <3>2. (2 * C) * (t(C) + 1) = (2 * C) * t(C) + 2 * C /\ (2 * C) * t(C) \in Nat
        BY <2>2
      <3>3. QED
        BY <2>2, <3>1, <3>2
    <2>5. QED
      BY <2>2, <2>3, <2>4
  (* What comes later is at least a label's distance further.               *)
  <1>6. ASSUME NEW i \in Nat, NEW j \in Nat, i < j
        PROVE  t(i) < t(j)
    <2>1. top(j) >= top(i) + 2 * C
      <3>1. 2 * j * N >= 2 * (i + 1) * N
        BY <1>6
      <3>2. 2 * (i + 1) * N = 2 * i * N + 2 * N
        OBVIOUS
      <3>3. QED
        BY <3>1, <3>2
    <2>2. /\ t(i) \in Nat /\ (2 * C) * t(i) <= top(i) /\ t(j) \in Nat
          /\ top(j) < (2 * C) * t(j) + 2 * C /\ top(i) \in Nat /\ top(j) \in Nat
      BY <1>1, <1>3
    <2> HIDE DEF t, top
    <2>3. (2 * C) * t(i) < (2 * C) * t(j)
      BY <2>1, <2>2
    <2>4. ASSUME t(j) <= t(i) PROVE FALSE
      <3>1. (2 * C) * t(j) <= (2 * C) * t(i)
        BY <2>2, <2>4
      <3>2. QED
        BY <2>2, <2>3, <3>1
    <2>5. QED
      BY <2>2, <2>4
  <1> HIDE DEF t, top
  <1>7. \A i \in 0..C : t(i) \in 0..N
    <2>1. TAKE i \in 0..C
    <2>2. i \in Nat /\ C \in Nat /\ (i < C \/ i = C)
      OBVIOUS
    <2>3. t(i) <= N
      BY <1>3, <1>5, <1>6, <2>2
    <2>4. QED
      BY <1>3, <2>2, <2>3
  <1>8. QED
    BY <1>4, <1>5, <1>6, <1>7 DEF t

(* The first and the last bucket have a label, as many as fit.              *)
LEMMA TicksFit ==
  ASSUME NEW n \in Nat, n >= 1
  PROVE  /\ {0, n - 1} \subseteq TickIndices(n) /\ TickIndices(n) \subseteq 0..(n - 1)
         /\ Cardinality(TickIndices(n)) = IF n < XTicks THEN n ELSE XTicks
  <1>1. XTicks \in Nat /\ XTicks >= 2
    BY CostFiguresAssumption
  <1>2. CASE n = 1
    <2>1. TickIndices(n) = {0}
      BY <1>2 DEF TickIndices
    <2>2. Cardinality({0}) = 1
      BY FS_Singleton
    <2>3. QED
      BY <1>1, <1>2, <2>1, <2>2
  <1>3. CASE n # 1
    <2> DEFINE count == IF n < XTicks THEN n ELSE XTicks
               N == n - 1
               C == count - 1
               t == [i \in 0..C |-> (2 * i * N + C) \div (2 * C)]
               T == TickIndices(n)
    <2>1. count \in Nat /\ N \in Nat /\ C \in Nat /\ 1 <= C /\ C <= N
      BY <1>1, <1>3
    <2>2. T = {t[i] : i \in 0..C}
      <3>1. ~(n <= 1)
        BY <1>3
      <3>2. T = {(2 * i * N + C) \div (2 * C) : i \in 0..C}
        BY <3>1, Zenon DEF TickIndices
      <3> HIDE DEF N, C, T
      <3>3. QED
        BY <3>2
    <2>3. 0 \in 0..C /\ C \in 0..C
      BY <2>1
    <2> HIDE DEF N, C
    <2>4. /\ t[0] = 0 /\ t[C] = N /\ \A i \in 0..C : t[i] \in 0..N
          /\ \A i, j \in 0..C : i < j => t[i] < t[j]
      BY <2>1, <2>3, TicksApart
    <2> HIDE DEF t, T
    <2>5. {0, N} \subseteq T /\ T \subseteq 0..N
      BY <2>2, <2>3, <2>4
    <2>6. Cardinality(T) = count
      <3>1. \A i, j \in 0..C : i # j => t[i] # t[j]
        <4>1. TAKE i, j \in 0..C
        <4>2. HAVE i # j
        <4>3. i \in Int /\ j \in Int /\ (i < j \/ j < i) /\ t[i] \in Int /\ t[j] \in Int
          BY <2>1, <2>4, <4>2
        <4>4. QED
          BY <2>4, <4>3
      <3> DEFINE f == [i \in 0..C |-> t[i]]
      <3>2. f \in [0..C -> T] /\ DOMAIN f = 0..C /\ \A i \in 0..C : f[i] = t[i]
        BY <2>2
      <3> HIDE DEF f
      <3>3. f \in Injection(0..C, T) /\ f \in Surjection(0..C, T)
        BY <2>2, <3>1, <3>2 DEF Injection, Surjection, IsInjective
      <3>4. IsFiniteSet(0..C) /\ Cardinality(0..C) = IF 0 > C THEN 0 ELSE C - 0 + 1
        BY <2>1, FS_Interval
      <3>5. Cardinality(T) = Cardinality(0..C)
        BY <3>3, <3>4, FS_Surjection
      <3>6. Cardinality(0..C) = C + 1
        BY <2>1, <3>4
      <3>7. C + 1 = count
        BY <2>1 DEF C
      <3>8. QED
        BY <3>5, <3>6, <3>7
    <2>7. QED
      BY <2>5, <2>6 DEF T, N
  <1>4. QED
    BY <1>2, <1>3

(* A series without activity counts no record.                              *)
LEMMA QuietSeries ==
  ASSUME NEW S \in SUBSET Stored, NEW q \in Queries
  PROVE  (\A b \in DOMAIN Timeseries(S, q) : ~(Timeseries(S, q)[b].requestCount > 0))
           <=> Between(S, q.since, q) = {}
  <1> DEFINE T == Timeseries(S, q)
  <1>1. /\ q.since \in Int /\ q.until \in Int /\ q.until - 1 \in Int
        /\ \A e \in S : Observed[e].receivedAt \in Int
    BY BackIsBefore, ReportsAssumption DEF Stored, IsObservation
  <1>2. \A b \in DOMAIN T : T[b].requestCount > 0 <=> InBucket(S, q.since, q, b) # {}
    BY SeriesGroups, SomeCounted
  <1>3. ASSUME NEW e \in Between(S, q.since, q)
        PROVE  BucketOf(Observed[e].receivedAt) \in DOMAIN T
    <2>1. e \in S /\ Observed[e].receivedAt >= q.since /\ Observed[e].receivedAt < q.until
      BY DEF Between
    <2>2. /\ Observed[e].receivedAt \in Int /\ q.since <= Observed[e].receivedAt
          /\ Observed[e].receivedAt <= q.until - 1
      BY <1>1, <2>1
    <2>3. /\ BucketOf(q.since) <= BucketOf(Observed[e].receivedAt)
          /\ BucketOf(Observed[e].receivedAt) <= BucketOf(q.until - 1)
          /\ BucketOf(Observed[e].receivedAt) \in Int
          /\ BucketOf(q.since) \in Int /\ BucketOf(q.until - 1) \in Int
      BY <1>1, <2>2, BucketsFollow
    <2>4. DOMAIN T = BucketOf(q.since)..BucketOf(q.until - 1)
      BY SeriesGroups
    <2> HIDE DEF T
    <2>5. QED
      BY <2>3, <2>4
  <1> HIDE DEF T
  <1>4. ASSUME Between(S, q.since, q) = {}, NEW b \in DOMAIN T
        PROVE  ~(T[b].requestCount > 0)
    BY <1>2, <1>4 DEF InBucket
  <1>5. ASSUME NEW e \in Between(S, q.since, q)
        PROVE  \E b \in DOMAIN T : T[b].requestCount > 0
    BY <1>2, <1>3, <1>5 DEF InBucket
  <1>6. QED
    BY <1>4, <1>5 DEF T

(* Without a record at "until" the series has what the summary has.         *)
LEMMA NothingAtUntil ==
  ASSUME NEW S \in SUBSET Stored, NEW q \in Queries
  PROVE  /\ Between(S, q.since, q) \subseteq Filtered(S, q)
         /\ (\A e \in Filtered(S, q) : Observed[e].receivedAt # q.until) =>
              Between(S, q.since, q) = Filtered(S, q)
  <1>1. /\ q.since \in Int /\ q.until \in Int
        /\ \A e \in S : Observed[e].receivedAt \in Int
    BY BackIsBefore, ReportsAssumption DEF Stored, IsObservation
  <1>2. QED
    BY <1>1 DEF Between, Filtered

(* A summary has no row exactly where there is no record.                   *)
LEMMA SummaryEmpty ==
  ASSUME NEW S
  PROVE  DOMAIN ByModel(S) = {} <=> S = {}
  BY DEF ByModel

(* What the panels say.                                                     *)
LEMMA PanelsSay ==
  /\ BreakdownPanel = IF answer["byModel"] = NotRead THEN "loading"
                      ELSE IF DOMAIN answer["byModel"] = {} THEN "empty" ELSE "ready"
  /\ CostTrendPanel = IF answer["series"] = NotRead THEN "loading"
                      ELSE IF \A b \in DOMAIN answer["series"] :
                                ~TrendPoints(answer["series"])[b].hasActivity
                             THEN "empty" ELSE "ready"
  /\ RecentRequests = IF answer["events"] = NotRead THEN "loading"
                      ELSE IF answer["events"] = {} THEN "empty" ELSE "ready"
  /\ AnomaliesPanel = IF answer["anomalies"] = NotRead THEN "loading"
                      ELSE IF DOMAIN answer["anomalies"] = {} THEN "empty" ELSE "ready"
  BY Zenon DEF BreakdownPanel, CostTrendPanel, RecentRequests, AnomaliesPanel, Panel

(* What the statements returned that the page has read.                     *)
LEMMA ReadAnswers ==
  ASSUME ReportsInv
  PROVE  /\ answer["totals"] # NotRead =>
              /\ basis["totals"] \in SUBSET Stored
              /\ answer["totals"] = Aggregate(Filtered(basis["totals"], query))
         /\ answer["byProvider"] # NotRead =>
              /\ basis["byProvider"] \in SUBSET Stored
              /\ answer["byProvider"] = ByProvider(Filtered(basis["byProvider"], query))
         /\ answer["byModel"] # NotRead =>
              /\ basis["byModel"] \in SUBSET Stored
              /\ answer["byModel"] = ByModel(Filtered(basis["byModel"], query))
              /\ answer["byProvider"] # NotRead
         /\ answer["series"] # NotRead =>
              /\ basis["series"] \in SUBSET Stored
              /\ answer["series"] = Timeseries(basis["series"], query)
         /\ answer["anomalies"] # NotRead =>
              /\ basis["anomalies"] \in SUBSET Stored
              /\ answer["anomalies"] = Anomalies(basis["anomalies"], query)
         /\ answer["events"] # NotRead =>
              /\ basis["events"] \in SUBSET Stored
              /\ answer["events"] = RecentEvents(basis["events"], query)
         /\ \A s \in Statements :
              answer[s] # NotRead => query \in Queries /\ query.since < query.until
  <1>1. \A s \in Statements : answer[s] # NotRead =>
          /\ query \in Queries /\ query.since < query.until
          /\ basis[s] \in SUBSET Stored /\ answer[s] = Outcome(s, basis[s])
    BY AnswersAre
  <1>2. answer["byModel"] # NotRead => answer["byProvider"] # NotRead
    BY DEF ReportsInv
  <1>3. QED
    BY <1>1, <1>2 DEF Outcome, Statements

(* The breakdown loses nothing, and its bars fit.                           *)
LEMMA BreakdownAgrees ==
  ASSUME ReportsInv, answer["byModel"] # NotRead
  PROVE  LET byModel == answer["byModel"]
             groups == ToModelGroups(byModel)
         IN  /\ \A f \in DOMAIN Aggregate({}) : Column(groups, f) = Column(byModel, f)
             /\ Column(groups, "estimatedCostUsd") > 0 => ShareBars(groups)[1].percent = 100
             /\ \A i \in DOMAIN ShareBars(groups) : ShareBars(groups)[i].percent <= 100
             /\ basis["byProvider"] = basis["byModel"] =>
                  Column(ToProviderGroups(answer["byProvider"]), "totalTokens")
                    = Column(groups, "totalTokens")
  <1> DEFINE G == answer["byModel"]
             H == ToModelGroups(G)
             F == Filtered(basis["byModel"], query)
             P == answer["byProvider"]
             Q == ToProviderGroups(P)
  <1>1. F \in SUBSET Stored /\ G = ByModel(F)
    BY ReadAnswers, FilteredStored
  <1>2. Filtered(basis["byProvider"], query) \in SUBSET Stored
        /\ P = ByProvider(Filtered(basis["byProvider"], query))
    BY ReadAnswers, FilteredStored
  <1>3. AreGroups(G) /\ \A n \in DOMAIN G : n.modelId \in Int
    BY <1>1, ByModelGroups
  <1>4. /\ IsFiniteSet(DOMAIN H) /\ DOMAIN H \in SUBSET Int
        /\ \A id \in DOMAIN H : /\ \A f \in Fields : H[id][f] \in Nat
                                /\ H[id].totalTokens = H[id].inputTokens + H[id].outputTokens
        /\ \A f \in Fields : Column(H, f) = Column(G, f)
    <2> HIDE DEF G
    <2>1. QED
      BY <1>3, ModelRowsAddUp
  <1>5. /\ "inputTokens" \in Fields /\ "outputTokens" \in Fields /\ "estimatedCostUsd" \in Fields
        /\ DOMAIN Aggregate({}) = Fields
    BY Zenon DEF Aggregate, Fields
  <1>6. AreGroups(P)
    BY <1>2, ByProviderGroups
  <1>7. /\ DOMAIN Q = DOMAIN P
        /\ \A p \in DOMAIN P : /\ \A f \in Fields : Q[p][f] = P[p][f] /\ P[p][f] \in Nat
                               /\ Q[p].totalTokens = P[p].inputTokens + P[p].outputTokens
    <2>1. DOMAIN Q = DOMAIN P /\ \A p \in DOMAIN P : Q[p] = ToTotals(P[p])
      BY DEF ToProviderGroups
    <2>2. \A p \in DOMAIN P : DOMAIN P[p] = Fields /\ \A f \in Fields : P[p][f] \in Nat
      BY <1>6 DEF AreGroups
    <2> HIDE DEF Q, P
    <2>3. QED
      BY <2>1, <2>2, ToTotalsIs
  <1> HIDE DEF G, H, F, P, Q
  <1>8. \A id \in DOMAIN H : H[id].estimatedCostUsd \in Nat
    BY <1>4, <1>5
  <1>9. /\ Column(H, "estimatedCostUsd") > 0 => ShareBars(H)[1].percent = 100
        /\ \A i \in DOMAIN ShareBars(H) : ShareBars(H)[i].percent <= 100
    BY <1>4, <1>8, BarsFit
  <1>10. Column(H, "totalTokens") = Column(H, "inputTokens") + Column(H, "outputTokens")
    BY <1>4, <1>5, TokensAddUp
  <1>11. Column(Q, "totalTokens") = Column(Q, "inputTokens") + Column(Q, "outputTokens")
    <2>1. /\ IsFiniteSet(DOMAIN Q)
          /\ \A p \in DOMAIN Q : /\ Q[p].inputTokens \in Nat /\ Q[p].outputTokens \in Nat
                                 /\ Q[p].totalTokens = Q[p].inputTokens + Q[p].outputTokens
      BY <1>5, <1>6, <1>7 DEF AreGroups
    <2>2. QED
      BY <2>1, TokensAddUp
  <1>12. \A f \in Fields : Column(Q, f) = Column(P, f)
    <2>1. TAKE f \in Fields
    <2> DEFINE u == [g \in DOMAIN Q |-> Q[g][f]]
               v == [g \in DOMAIN P |-> P[g][f]]
    <2>2. Column(Q, f) = SumOver(u, DOMAIN Q) /\ Column(P, f) = SumOver(v, DOMAIN P)
      BY ColumnIs
    <2>3. u = v
      BY <1>7
    <2>4. QED
      BY <1>7, <2>2, <2>3
  <1>13. basis["byProvider"] = basis["byModel"] =>
           Column(Q, "totalTokens") = Column(H, "totalTokens")
    <2>1. SUFFICES ASSUME basis["byProvider"] = basis["byModel"]
                   PROVE  Column(Q, "totalTokens") = Column(H, "totalTokens")
      OBVIOUS
    <2>2. P = ByProvider(F)
      BY <1>2, <2>1 DEF F
    <2>3. \A f \in Fields : Column(P, f) = SumOver(Weight(f), F) /\ Column(G, f) = SumOver(Weight(f), F)
      BY <1>1, <2>2, ByProviderAddsUp, ByModelAddsUp
    <2>4. QED
      BY <1>4, <1>5, <1>10, <1>11, <1>12, <2>3
  <1>14. QED
    BY <1>4, <1>5, <1>9, <1>13 DEF G, H, P, Q

(* Every point of the chart lies within its scale.                          *)
LEMMA ChartAgrees ==
  ASSUME ReportsInv, answer["series"] # NotRead
  PROVE  LET points == TrendPoints(answer["series"])
             came(b) == { e \in Between(basis["series"], query.since, query) :
                            /\ BucketOf(Observed[e].receivedAt) = b
                            /\ Given(Observed[e].actualCostUsd) }
         IN  \A b \in DOMAIN points :
               /\ points[b].hasActual = (came(b) # {})
               /\ \A metric \in TrendMetrics : Drawn(points, b, metric) \subseteq 0..100
  <1> DEFINE S == basis["series"]
             T == answer["series"]
             points == TrendPoints(T)
             came(b) == { e \in Between(S, query.since, query) :
                            /\ BucketOf(Observed[e].receivedAt) = b
                            /\ Given(Observed[e].actualCostUsd) }
  <1>1. S \in SUBSET Stored /\ T = Timeseries(S, query)
    BY ReadAnswers
  <1>2. query \in Queries
    BY ReadAnswers DEF Statements
  <1>3. AreGroups(T) /\ \A b \in DOMAIN T : /\ InBucket(S, query.since, query, b) \in SUBSET Stored
                                           /\ T[b] = Aggregate(InBucket(S, query.since, query, b))
    <2> HIDE DEF S, T
    <2>1. QED
      BY <1>1, <1>2, SeriesGroups
  <1>4. DOMAIN points = DOMAIN T
        /\ \A b \in DOMAIN T :
             points[b].hasActual = (T[b].requestCount - T[b].pendingActualCostCount > 0)
    BY DEF TrendPoints
  <1>5. \A b \in DOMAIN T : \A metric \in TrendMetrics : Drawn(points, b, metric) \subseteq 0..100
    <2> HIDE DEF T
    <2>1. QED
      BY <1>3, DrawnFits
  <1>6. \A b \in DOMAIN T : points[b].hasActual = (came(b) # {})
    <2>1. TAKE b \in DOMAIN T
    <2> DEFINE B == InBucket(S, query.since, query, b)
    <2>2. came(b) = {e \in B : Given(Observed[e].actualCostUsd)}
      BY DEF InBucket
    <2> HIDE DEF B, came, T
    <2>3. T[b].requestCount - T[b].pendingActualCostCount > 0 <=> came(b) # {}
      BY <1>3, <2>2, ActualCame DEF B
    <2> HIDE DEF points
    <2>4. QED
      BY <1>4, <2>3
  <1>7. QED
    BY <1>4, <1>5, <1>6

(* No panel says that there was nothing while another shows requests.       *)
LEMMA PanelsAgree ==
  ASSUME ReportsInv
  PROVE  /\ (/\ "loading" \notin {BreakdownPanel, CostTrendPanel}
             /\ basis["byModel"] = basis["series"] /\ ~SomeAtUntil("byModel")) =>
               BreakdownPanel = CostTrendPanel
         /\ (/\ "loading" \notin {BreakdownPanel, RecentRequests}
             /\ basis["byModel"] = basis["events"]) =>
               BreakdownPanel = RecentRequests
         /\ AnomaliesPanel = "ready" /\ CostTrendPanel = "empty" =>
               \/ basis["anomalies"] # basis["series"]
               \/ DOMAIN answer["anomalies"] = {BucketOf(query.since)}
  <1> DEFINE F(s) == Filtered(basis[s], query)
  <1>1. answer["byModel"] # NotRead =>
          (BreakdownPanel = IF F("byModel") = {} THEN "empty" ELSE "ready")
    BY ReadAnswers, PanelsSay, SummaryEmpty
  <1>2. answer["series"] # NotRead =>
          /\ basis["series"] \in SUBSET Stored
          /\ query \in Queries /\ query.since < query.until
          /\ CostTrendPanel = IF Between(basis["series"], query.since, query) = {}
                                THEN "empty" ELSE "ready"
    <2>1. SUFFICES ASSUME answer["series"] # NotRead
                   PROVE  /\ basis["series"] \in SUBSET Stored
                          /\ query \in Queries /\ query.since < query.until
                          /\ CostTrendPanel = IF Between(basis["series"], query.since, query) = {}
                                                THEN "empty" ELSE "ready"
      OBVIOUS
    <2>2. /\ basis["series"] \in SUBSET Stored /\ query \in Queries /\ query.since < query.until
          /\ answer["series"] = Timeseries(basis["series"], query)
      BY <2>1, ReadAnswers DEF Statements
    <2> DEFINE T == answer["series"]
    <2>3. \A b \in DOMAIN T : TrendPoints(T)[b].hasActivity = (T[b].requestCount > 0)
      BY DEF TrendPoints
    <2>4. (\A b \in DOMAIN T : ~(T[b].requestCount > 0))
            <=> Between(basis["series"], query.since, query) = {}
      BY <2>2, QuietSeries
    <2>5. CostTrendPanel = IF \A b \in DOMAIN T : ~TrendPoints(T)[b].hasActivity
                             THEN "empty" ELSE "ready"
      BY <2>1, PanelsSay
    <2> HIDE DEF T
    <2>6. (\A b \in DOMAIN T : ~TrendPoints(T)[b].hasActivity)
            <=> Between(basis["series"], query.since, query) = {}
      BY <2>3, <2>4
    <2>7. QED
      BY <2>2, <2>5, <2>6
  <1>3. answer["events"] # NotRead =>
          (RecentRequests = IF F("events") = {} THEN "empty" ELSE "ready")
    <2>1. SUFFICES ASSUME answer["events"] # NotRead
                   PROVE  RecentRequests = IF F("events") = {} THEN "empty" ELSE "ready"
      OBVIOUS
    <2>2. /\ basis["events"] \in SUBSET Stored /\ query \in Queries
          /\ answer["events"] = RecentEvents(basis["events"], query)
      BY <2>1, ReadAnswers DEF Statements
    <2>3. answer["events"] = {} <=> F("events") = {}
      BY <2>2, RecentAre
    <2>4. QED
      BY <2>1, <2>3, PanelsSay
  <1>4. /\ BreakdownPanel # "loading" => answer["byModel"] # NotRead
        /\ CostTrendPanel # "loading" => answer["series"] # NotRead
        /\ RecentRequests # "loading" => answer["events"] # NotRead
        /\ AnomaliesPanel = "ready" =>
             answer["anomalies"] # NotRead /\ DOMAIN answer["anomalies"] # {}
    BY PanelsSay
  <1>5. ASSUME "loading" \notin {BreakdownPanel, CostTrendPanel},
               basis["byModel"] = basis["series"], ~SomeAtUntil("byModel")
        PROVE  BreakdownPanel = CostTrendPanel
    <2>1. answer["byModel"] # NotRead /\ answer["series"] # NotRead
      BY <1>4, <1>5
    <2>2. basis["series"] \in SUBSET Stored /\ query \in Queries
      BY <1>2, <2>1
    <2>3. Between(basis["series"], query.since, query) = F("byModel")
      <3>1. \A e \in Filtered(basis["series"], query) : Observed[e].receivedAt # query.until
        BY <1>5 DEF SomeAtUntil
      <3>2. Between(basis["series"], query.since, query) = Filtered(basis["series"], query)
        BY <2>2, <3>1, NothingAtUntil
      <3>3. QED
        BY <1>5, <3>2
    <2> HIDE DEF F
    <2>4. QED
      BY <1>1, <1>2, <2>1, <2>3
  <1>6. ASSUME "loading" \notin {BreakdownPanel, RecentRequests}, basis["byModel"] = basis["events"]
        PROVE  BreakdownPanel = RecentRequests
    <2>1. F("byModel") = F("events")
      BY <1>6
    <2> HIDE DEF F
    <2>2. QED
      BY <1>1, <1>3, <1>4, <1>6, <2>1
  <1>7. ASSUME AnomaliesPanel = "ready", CostTrendPanel = "empty",
               basis["anomalies"] = basis["series"]
        PROVE  DOMAIN answer["anomalies"] = {BucketOf(query.since)}
    <2> DEFINE S == basis["series"]
    <2>1. answer["anomalies"] # NotRead /\ DOMAIN answer["anomalies"] # {}
          /\ answer["series"] # NotRead
      BY <1>4, <1>7
    <2>2. S \in SUBSET Stored /\ query \in Queries /\ query.since < query.until
          /\ answer["anomalies"] = Anomalies(S, query)
      BY <1>2, <1>7, <2>1, ReadAnswers
    <2>3. Between(S, query.since, query) = {}
      BY <1>2, <1>7, <2>1
    <2>4. \A b \in DOMAIN Timeseries(S, query) : ~(Timeseries(S, query)[b].requestCount > 0)
      BY <2>2, <2>3, QuietSeries
    <2>5. \A b \in DOMAIN Anomalies(S, query) : b = BucketOf(query.since)
      <3> HIDE DEF S
      <3>1. QED
        BY <2>2, <2>4, AnomaliesStand
    <2>6. QED
      BY <2>1, <2>2, <2>5
  <1>8. QED
    BY <1>5, <1>6, <1>7

(* The requests listed agree with the summary.                              *)
LEMMA EventsAgree ==
  ASSUME ReportsInv, answer["events"] # NotRead
  PROVE  LET flags == DeriveReconciliationSummary(answer["events"])
         IN  /\ flags.reconciled + flags.mismatch + flags.pending = flags.total
             /\ flags.total <= RecentLimit
             /\ (/\ answer["totals"] # NotRead /\ basis["totals"] = basis["events"]
                 /\ flags.total = answer["totals"].requestCount) =>
                   flags.pending = answer["totals"].pendingActualCostCount
  <1> DEFINE E == answer["events"]
             S == basis["events"]
             F == Filtered(S, query)
             flags == DeriveReconciliationSummary(E)
  <1>1. S \in SUBSET Stored /\ query \in Queries /\ E = RecentEvents(S, query)
    BY ReadAnswers DEF Statements
  <1>2. /\ F \in SUBSET Stored /\ E \in SUBSET F /\ IsFiniteSet(F) /\ IsFiniteSet(E)
        /\ Cardinality(E) <= RecentLimit
    BY <1>1, RecentAre
  <1>3. /\ flags.reconciled + flags.mismatch + flags.pending = flags.total
        /\ flags.total = Cardinality(E)
        /\ flags.pending = Cardinality({e \in E : ~Given(Observed[e].actualCostUsd)})
    BY <1>2, FlagsAddUp
  <1>4. ASSUME answer["totals"] # NotRead, basis["totals"] = basis["events"],
               flags.total = answer["totals"].requestCount
        PROVE  flags.pending = answer["totals"].pendingActualCostCount
    <2>1. answer["totals"] = Aggregate(F)
      BY <1>4, ReadAnswers
    <2>2. /\ Aggregate(F).requestCount = Cardinality(F)
          /\ Aggregate(F).pendingActualCostCount
               = Cardinality({e \in F : ~Given(Observed[e].actualCostUsd)})
      BY Zenon DEF Aggregate
    <2> HIDE DEF E, F, flags
    <2>3. Cardinality(F) = Cardinality(E)
      BY <1>3, <1>4, <2>1, <2>2
    <2>4. E = F
      BY <1>2, <2>3, FS_Subset
    <2>5. QED
      BY <1>3, <2>1, <2>2, <2>4
  <1>5. QED
    BY <1>2, <1>3, <1>4

(* The page agrees with itself.                                             *)
LEMMA PageAgrees ==
  ASSUME ReportsInv PROVE CostPageAgrees
  <1>1. \A n \in 1..31 :
          /\ {0, n - 1} \subseteq TickIndices(n) /\ TickIndices(n) \subseteq 0..(n - 1)
          /\ Cardinality(TickIndices(n)) = IF n < XTicks THEN n ELSE XTicks
    <2>1. \A n \in 1..31 : n \in Nat /\ n >= 1
      OBVIOUS
    <2>2. QED
      BY <2>1, TicksFit
  <1>2. answer["byModel"] # NotRead =>
          LET byModel == answer["byModel"]
              groups == ToModelGroups(byModel)
          IN  /\ \A f \in DOMAIN Aggregate({}) : Column(groups, f) = Column(byModel, f)
              /\ groups # << >> /\ Column(groups, "estimatedCostUsd") > 0 =>
                   ShareBars(groups)[1].percent = 100
              /\ \A i \in DOMAIN ShareBars(groups) : ShareBars(groups)[i].percent <= 100
              /\ basis["byProvider"] = basis["byModel"] =>
                   Column(ToProviderGroups(answer["byProvider"]), "totalTokens")
                     = Column(groups, "totalTokens")
    BY BreakdownAgrees
  <1>3. answer["series"] # NotRead =>
          LET points == TrendPoints(answer["series"])
              came(b) == { e \in Between(basis["series"], query.since, query) :
                             /\ BucketOf(Observed[e].receivedAt) = b
                             /\ Given(Observed[e].actualCostUsd) }
          IN  \A b \in DOMAIN points :
                /\ points[b].hasActual = (came(b) # {})
                /\ \A metric \in TrendMetrics : Drawn(points, b, metric) \subseteq 0..100
    BY ChartAgrees
  <1>4. answer["events"] # NotRead =>
          LET flags == DeriveReconciliationSummary(answer["events"])
          IN  /\ flags.reconciled + flags.mismatch + flags.pending = flags.total
              /\ flags.total <= RecentLimit
              /\ (/\ answer["totals"] # NotRead /\ basis["totals"] = basis["events"]
                  /\ flags.total = answer["totals"].requestCount) =>
                    flags.pending = answer["totals"].pendingActualCostCount
    BY EventsAgree
  <1>5. QED
    BY <1>1, <1>2, <1>3, <1>4, PanelsAgree, Zenon DEF CostPageAgrees

-----------------------------------------------------------------------------
(* The adapters of the vendors, and the record that is built of what they   *)
(* answer (Adapters).                                                       *)

(* The class of an answer that is none, on every adapter.                   *)
ClassOf(ans) == ClassifySdkError(ans)

FailedAnswer(ans) == ans.kind \in {"status", "aborted", "broken"}

(* An attempt of provider p that the executor can account for.              *)
Accountable(p, ans, a) ==
  /\ a.providerId = ModelFor[p].providerId /\ a.modelId = ModelFor[p].modelId
  /\ a.errorClass \in ClassesOfAdapters
  /\ a.errorClass = "none" =>
       /\ a.inputTokens \in Nat /\ a.outputTokens \in Nat /\ a.estimatedCostUsd \in Nat
       /\ a.actualCostUsd = a.estimatedCostUsd
       /\ a.estimatedCostUsd =
            EstimateCostUsd(AdapterPrices, ModelFor[p], a.inputTokens, a.outputTokens)
  /\ a.errorClass # "none" =>
       a.inputTokens = Null /\ a.actualCostUsd = Null /\ a.estimatedCostUsd = 0
  /\ FailedAnswer(ans) => a.errorClass = ClassOf(ans)

Armed(p) == IF armedFailure[p] = "none" THEN 0 ELSE 1

AdaptersInv ==
  /\ registry \subseteq Providers
  /\ armedFailure \in [Mocks -> TransientClasses \union {"none"}]
  /\ failsRemaining \in [Mocks -> 0..1]
  /\ \A p \in Mocks : failsRemaining[p] > 0 => FailFirst[p] # "none"
  /\ injected \in [Mocks -> Nat] /\ arms \in Nat
  /\ \A p \in Mocks : injected[p] + Armed(p) <= arms
  /\ \A p \in Mocks : armedFailure[p] # "none" => p \in registry
  /\ DOMAIN execution = AdapterCalls
  /\ \A c \in AdapterCalls :
       /\ DOMAIN execution[c] = {"stage", "provider", "answer", "attempt"}
       /\ execution[c].stage \in {"idle", "running", "done"}
       /\ execution[c].stage = "running" => execution[c].provider \in Providers \ Mocks
       /\ execution[c].stage = "done" =>
            /\ execution[c].provider \in Providers
            /\ Accountable(execution[c].provider, execution[c].answer, execution[c].attempt)

-----------------------------------------------------------------------------
(* Tokens at the prices of a model have a cost.                             *)
LEMMA CostIsNat ==
  ASSUME NEW p \in Providers, NEW input \in Nat, NEW output \in Nat
  PROVE  EstimateCostUsd(AdapterPrices, ModelFor[p], input, output) \in Nat
  <1> DEFINE entry == CHOOSE e \in Prices(AdapterPrices, ModelFor[p]) : TRUE
             total == input * entry.unitIn + output * entry.unitOut
  <1>1. entry \in Prices(AdapterPrices, ModelFor[p])
    BY AdaptersAssumption
  <1>2. entry.unitIn \in Nat /\ entry.unitOut \in Nat
    BY <1>1, AdaptersAssumption DEF Prices, IsPrice
  <1> HIDE DEF entry
  <1>3. total \in Nat
    BY <1>2
  <1>4. EstimateCostUsd(AdapterPrices, ModelFor[p], input, output) = RoundToUsd6(total)
    BY DEF EstimateCostUsd, entry
  <1> HIDE DEF total
  <1>5. RoundToUsd6(total) \in Nat
    BY <1>3, SMT DEF RoundToUsd6
  <1>6. QED
    BY <1>4, <1>5

(* A success is accounted for, for an answer that is no failure.            *)
LEMMA SuccessIsAccountable ==
  ASSUME NEW p \in Providers, NEW input \in Nat, NEW output \in Nat, NEW ans, ~FailedAnswer(ans)
  PROVE  Accountable(p, ans, SucceededAttempt(p, input, output))
  <1> DEFINE price == EstimateCostUsd(AdapterPrices, ModelFor[p], input, output)
             a == SucceededAttempt(p, input, output)
  <1>1. price \in Nat
    BY CostIsNat
  <1>2. a = [ FailedAttempt(p, "none") EXCEPT
                !.inputTokens = input, !.outputTokens = output,
                !.estimatedCostUsd = price, !.actualCostUsd = price ]
    BY DEF SucceededAttempt
  <1> HIDE DEF price, a
  <1>3. /\ a.providerId = ModelFor[p].providerId /\ a.modelId = ModelFor[p].modelId
        /\ a.errorClass = "none" /\ a.inputTokens = input /\ a.outputTokens = output
        /\ a.estimatedCostUsd = price /\ a.actualCostUsd = price
    BY <1>2 DEF FailedAttempt
  <1>4. price = EstimateCostUsd(AdapterPrices, ModelFor[p], input, output)
    BY DEF price
  <1>5. Accountable(p, ans, a)
    BY <1>1, <1>3, <1>4 DEF Accountable, ClassesOfAdapters
  <1>6. QED
    BY <1>5 DEF a

(* A failure is, of the class of its answer.                                *)
LEMMA FailureIsAccountable ==
  ASSUME NEW p \in Providers, NEW class \in ClassesOfAdapters \ {"none"}, NEW ans,
         FailedAnswer(ans) => class = ClassOf(ans)
  PROVE  Accountable(p, ans, FailedAttempt(p, class))
  BY DEF Accountable, FailedAttempt

(* What an adapter makes of its vendor's answer is.                         *)
LEMMA ExecutedIsAccountable ==
  ASSUME NEW p \in Providers \ Mocks, NEW ans \in Answers
  PROVE  Accountable(p, ans, Executed(p, ans))
  <1>1. KindOf[p] \in {"openai", "groq", "anthropic", "gemini"}
    BY AdaptersAssumption DEF Mocks
  <1>2. /\ ans.kind \in {"ok", "status", "aborted", "broken"}
        /\ ans.kind = "ok" => ans.usage \in Usages
    BY DEF Answers, Answer
  <1>3. ClassOf(ans) \in ClassesOfAdapters \ {"none"}
    BY SMT DEF ClassOf, ClassifySdkError, ClassesOfAdapters, ScriptedClasses,
               TransientClasses
  <1>4. CASE ans.kind = "ok"
    <2>1. Executed(p, ans) = Counted(p, ans.usage)
      BY <1>1, <1>4 DEF Executed, OpenAiExecute, GroqExecute, AnthropicExecute, GeminiExecute
    <2>2. ~FailedAnswer(ans)
      BY <1>4 DEF FailedAnswer
    <2>3. ans.usage = Null \/ (ans.usage.input \in Nat /\ ans.usage.output \in Nat)
      BY <1>2, <1>4, AdaptersAssumption
    <2>4. CASE ans.usage = Null
      BY <2>1, <2>2, <2>4, AdaptersAssumption, SuccessIsAccountable DEF Counted
    <2>5. CASE ans.usage # Null
      BY <2>1, <2>2, <2>3, <2>5, SuccessIsAccountable DEF Counted
    <2>6. QED
      BY <2>4, <2>5
  <1>5. CASE ans.kind # "ok"
    <2>1. Executed(p, ans) = FailedAttempt(p, ClassOf(ans))
      <3>1. CASE KindOf[p] = "gemini"
        <4>1. Executed(p, ans) = GeminiExecute(p, ans)
          BY <3>1 DEF Executed
        <4>2. CASE ans.kind = "status"
          <5>1. GeminiExecute(p, ans) = FailedAttempt(p, ClassifyGeminiStatus(ans.status))
            BY <4>2 DEF GeminiExecute
          <5>2. ClassifyGeminiStatus(ans.status) = ClassifySdkError(ans)
            BY <4>2, SMT DEF ClassifyGeminiStatus, ClassifySdkError
          <5>3. QED
            BY <4>1, <5>1, <5>2 DEF ClassOf
        <4>3. CASE ans.kind # "status"
          <5>1. GeminiExecute(p, ans) = FailedAttempt(p, ClassifyGeminiThrow(ans))
            BY <1>5, <4>3 DEF GeminiExecute
          <5>2. ClassifyGeminiThrow(ans) = ClassifySdkError(ans)
            BY <4>3, SMT DEF ClassifyGeminiThrow, ClassifySdkError
          <5>3. QED
            BY <4>1, <5>1, <5>2 DEF ClassOf
        <4>4. QED
          BY <4>2, <4>3
      <3>2. CASE KindOf[p] # "gemini"
        BY <1>1, <1>5, <3>2
        DEF Executed, OpenAiExecute, GroqExecute, AnthropicExecute, ClassOf
      <3>3. QED
        BY <3>1, <3>2
    <2>2. QED
      BY <1>3, <2>1, FailureIsAccountable
  <1>6. QED
    BY <1>4, <1>5

-----------------------------------------------------------------------------
(* Nothing was executed or armed at first.                                  *)
LEMMA AdaptersInitHolds == AdaptersInit => AdaptersInv
  <1> SUFFICES ASSUME AdaptersInit PROVE AdaptersInv
    OBVIOUS
  <1>1. registry \subseteq Providers
    BY DEF AdaptersInit, BootRegistries, Mocks
  <1>2. /\ failsRemaining \in [Mocks -> 0..1]
        /\ \A p \in Mocks : failsRemaining[p] > 0 => FailFirst[p] # "none"
    BY DEF AdaptersInit
  <1>3. /\ armedFailure \in [Mocks -> TransientClasses \union {"none"}]
        /\ injected \in [Mocks -> Nat] /\ arms \in Nat
        /\ \A p \in Mocks : armedFailure[p] = "none" /\ injected[p] + Armed(p) <= arms
    BY DEF AdaptersInit, Armed
  <1>4. /\ DOMAIN execution = AdapterCalls
        /\ \A c \in AdapterCalls :
             /\ DOMAIN execution[c] = {"stage", "provider", "answer", "attempt"}
             /\ execution[c].stage = "idle"
    BY DEF AdaptersInit
  <1>5. QED
    BY <1>1, <1>2, <1>3, <1>4 DEF AdaptersInv

(* One execution moves.                                                     *)
LEMMA ExecutionMoves ==
  ASSUME AdaptersInv, NEW c \in AdapterCalls, NEW next,
         execution' = [execution EXCEPT ![c] = next],
         DOMAIN next = {"stage", "provider", "answer", "attempt"},
         next.stage \in {"running", "done"}, next.provider \in Providers,
         next.stage = "running" => next.provider \notin Mocks,
         next.stage = "done" => Accountable(next.provider, next.answer, next.attempt)
  PROVE  /\ DOMAIN execution' = AdapterCalls
         /\ \A d \in AdapterCalls :
              /\ DOMAIN execution'[d] = {"stage", "provider", "answer", "attempt"}
              /\ execution'[d].stage \in {"idle", "running", "done"}
              /\ execution'[d].stage = "running" => execution'[d].provider \in Providers \ Mocks
              /\ execution'[d].stage = "done" =>
                   /\ execution'[d].provider \in Providers
                   /\ Accountable(execution'[d].provider, execution'[d].answer,
                                  execution'[d].attempt)
  <1>1. /\ DOMAIN execution' = AdapterCalls /\ execution'[c] = next
        /\ \A d \in AdapterCalls : d # c => execution'[d] = execution[d]
    BY DEF AdaptersInv
  <1>2. QED
    BY <1>1 DEF AdaptersInv

(* Every step of the adapters keeps the invariant.                          *)
LEMMA AdaptersStep == AdaptersInv /\ [AdaptersNext]_adapterVars => AdaptersInv'
  <1> SUFFICES ASSUME AdaptersInv, [AdaptersNext]_adapterVars PROVE AdaptersInv'
    OBVIOUS
  <1>1. CASE UNCHANGED adapterVars
    BY <1>1 DEF adapterVars, AdaptersInv, Armed
  <1>2. ASSUME NEW c \in AdapterCalls, NEW p \in Providers, StartExecute(c, p)
        PROVE  AdaptersInv'
    <2>1. /\ p \notin Mocks
          /\ execution' = [execution EXCEPT ![c] = [@ EXCEPT !.stage = "running", !.provider = p]]
          /\ UNCHANGED << registry, armedFailure, failsRemaining, arms, injected >>
      BY <1>2 DEF StartExecute
    <2> DEFINE next == [execution[c] EXCEPT !.stage = "running", !.provider = p]
    <2>2. /\ DOMAIN next = {"stage", "provider", "answer", "attempt"}
          /\ next.stage = "running" /\ next.provider = p
      BY DEF AdaptersInv
    <2>3. execution' = [execution EXCEPT ![c] = next]
      BY <2>1
    <2> HIDE DEF next
    <2>4. QED
      BY <2>1, <2>2, <2>3, ExecutionMoves DEF AdaptersInv, Armed
  <1>3. ASSUME NEW c \in AdapterCalls, NEW ans \in Answers, EndExecute(c, ans)
        PROVE  AdaptersInv'
    <2> DEFINE p == execution[c].provider
    <2>1. /\ p \in Providers \ Mocks
          /\ execution' = [ execution EXCEPT ![c] = [ @ EXCEPT
               !.stage = "done", !.answer = ans, !.attempt = Executed(p, ans) ] ]
          /\ UNCHANGED << registry, armedFailure, failsRemaining, arms, injected >>
      BY <1>3 DEF EndExecute, AdaptersInv
    <2> DEFINE next == [ execution[c] EXCEPT !.stage = "done", !.answer = ans,
                                             !.attempt = Executed(p, ans) ]
    <2>2. /\ DOMAIN next = {"stage", "provider", "answer", "attempt"} /\ next.stage = "done"
          /\ next.provider = p /\ next.answer = ans /\ next.attempt = Executed(p, ans)
      BY DEF AdaptersInv
    <2>3. execution' = [execution EXCEPT ![c] = next]
      BY <2>1
    <2>4. Accountable(p, ans, Executed(p, ans))
      BY <2>1, ExecutedIsAccountable
    <2> HIDE DEF p, next
    <2>5. QED
      BY <2>1, <2>2, <2>3, <2>4, ExecutionMoves DEF AdaptersInv, Armed
  <1>4. ASSUME NEW c \in AdapterCalls, NEW p \in Providers, NEW aborted \in BOOLEAN,
               MockExecute(c, p, aborted)
        PROVE  AdaptersInv'
    <2> DEFINE Answering(ans, attempt) ==
                 [stage |-> "done", provider |-> p, answer |-> ans, attempt |-> attempt]
               Finished(ans, attempt) == execution' = [execution EXCEPT ![c] = Answering(ans, attempt)]
    <2>1. p \in registry /\ p \in Mocks /\ UNCHANGED << registry, arms >>
      BY <1>4 DEF MockExecute
    <2>2. CASE aborted
      <3>1. /\ Finished(Answer("aborted"), FailedAttempt(p, "timeout"))
            /\ UNCHANGED << armedFailure, failsRemaining, injected >>
        BY <1>4, <2>2 DEF MockExecute
      <3>2. Accountable(p, Answer("aborted"), FailedAttempt(p, "timeout"))
        <4>1. ClassOf(Answer("aborted")) = "timeout"
          BY DEF ClassOf, ClassifySdkError, Answer
        <4>2. QED
          BY <4>1, FailureIsAccountable DEF ClassesOfAdapters, ScriptedClasses, TransientClasses
      <3>3. QED
        BY <2>1, <3>1, <3>2, ExecutionMoves DEF AdaptersInv, Armed
    <2>3. ~FailedAnswer(Answer("injected")) /\ ~FailedAnswer(Answer("ok"))
      BY DEF FailedAnswer, Answer
    <2>4. CASE ~aborted /\ armedFailure[p] # "none"
      <3>1. /\ Finished(Answer("injected"), FailedAttempt(p, armedFailure[p]))
            /\ armedFailure' = [armedFailure EXCEPT ![p] = "none"]
            /\ injected' = [injected EXCEPT ![p] = @ + 1]
            /\ UNCHANGED failsRemaining
        BY <1>4, <2>4 DEF MockExecute
      <3>2. armedFailure[p] \in ClassesOfAdapters \ {"none"}
        BY <2>1, <2>4 DEF AdaptersInv, ClassesOfAdapters, ScriptedClasses
      <3>3. Accountable(p, Answer("injected"), FailedAttempt(p, armedFailure[p]))
        BY <2>3, <3>2, FailureIsAccountable
      <3>4. /\ armedFailure' \in [Mocks -> TransientClasses \union {"none"}]
            /\ injected' \in [Mocks -> Nat]
        <4>1. injected[p] + 1 \in Nat
          BY <2>1 DEF AdaptersInv
        <4>2. injected' \in [Mocks -> Nat]
          BY <3>1, <4>1 DEF AdaptersInv
        <4>3. "none" \in TransientClasses \union {"none"}
          OBVIOUS
        <4>4. QED
          BY <3>1, <4>2, <4>3 DEF AdaptersInv
      <3>5. \A q \in Mocks : armedFailure'[q] # "none" => q \in registry
        BY <2>1, <3>1 DEF AdaptersInv
      <3>6. \A q \in Mocks : injected'[q] + Armed(q)' <= arms
        <4> TAKE q \in Mocks
        <4>1. injected[q] + Armed(q) <= arms /\ injected[q] \in Nat /\ arms \in Nat
          BY DEF AdaptersInv
        <4>2. CASE q = p
          <5>1. injected'[q] = injected[q] + 1 /\ Armed(q)' = 0 /\ Armed(q) = 1
            BY <2>1, <2>4, <3>1, <4>2 DEF Armed, AdaptersInv
          <5>2. QED
            BY <4>1, <5>1
        <4>3. CASE q # p
          BY <3>1, <4>1, <4>3 DEF Armed, AdaptersInv
        <4>4. QED
          BY <4>2, <4>3
      <3>7. QED
        BY <2>1, <3>1, <3>3, <3>4, <3>5, <3>6, ExecutionMoves DEF AdaptersInv
    <2>5. CASE ~aborted /\ armedFailure[p] = "none" /\ failsRemaining[p] > 0
      <3>1. /\ Finished(Answer("injected"), FailedAttempt(p, FailFirst[p]))
            /\ failsRemaining' = [failsRemaining EXCEPT ![p] = @ - 1]
            /\ UNCHANGED << armedFailure, injected >>
        BY <1>4, <2>5 DEF MockExecute
      <3>2. FailFirst[p] \in ClassesOfAdapters \ {"none"}
        BY <2>1, <2>5, AdaptersAssumption DEF AdaptersInv
      <3>3. Accountable(p, Answer("injected"), FailedAttempt(p, FailFirst[p]))
        BY <2>3, <3>2, FailureIsAccountable
      <3>4. failsRemaining[p] \in 0..1 /\ failsRemaining[p] - 1 \in 0..1
        BY <2>1, <2>5 DEF AdaptersInv
      <3>5. /\ failsRemaining' \in [Mocks -> 0..1]
            /\ \A q \in Mocks : failsRemaining'[q] > 0 => FailFirst[q] # "none"
        BY <3>1, <3>2, <3>4 DEF AdaptersInv
      <3>6. QED
        BY <2>1, <3>1, <3>3, <3>5, ExecutionMoves DEF AdaptersInv, Armed
    <2>6. CASE ~aborted /\ armedFailure[p] = "none" /\ ~(failsRemaining[p] > 0)
      <3> DEFINE output == DeriveOutputTokens(InputEstimate)
      <3>1. /\ Finished(Answer("ok"), SucceededAttempt(p, InputEstimate, output))
            /\ UNCHANGED << armedFailure, failsRemaining, injected >>
        BY <1>4, <2>6 DEF MockExecute
      <3>2. output \in Nat
        BY AdaptersAssumption, SMT DEF DeriveOutputTokens, OutputTokens, Larger
      <3> HIDE DEF output
      <3>3. Accountable(p, Answer("ok"), SucceededAttempt(p, InputEstimate, output))
        BY <2>3, <3>2, AdaptersAssumption, SuccessIsAccountable
      <3>4. QED
        BY <2>1, <3>1, <3>3, ExecutionMoves DEF AdaptersInv, Armed
    <2>7. QED
      BY <2>2, <2>4, <2>5, <2>6
  <1>5. ASSUME NEW class \in {"timeout", "upstream_5xx"}, ArmFailure(class) PROVE AdaptersInv'
    <2>1. /\ arms' = arms + 1 /\ class \in TransientClasses /\ class # "none"
          /\ armedFailure' = [p \in Mocks |-> IF p \in registry THEN class ELSE armedFailure[p]]
          /\ UNCHANGED << registry, failsRemaining, execution, injected >>
      BY <1>5 DEF ArmFailure
    <2>2. /\ armedFailure' \in [Mocks -> TransientClasses \union {"none"}]
          /\ \A p \in Mocks : armedFailure'[p] # "none" => p \in registry
      BY <2>1 DEF AdaptersInv
    <2>3. \A p \in Mocks : injected'[p] + Armed(p)' <= arms'
      <3> TAKE p \in Mocks
      <3>1. injected[p] + Armed(p) <= arms /\ injected[p] \in Nat /\ arms \in Nat
        BY DEF AdaptersInv
      <3>2. Armed(p) \in 0..1 /\ Armed(p)' \in 0..1
        BY DEF Armed
      <3>3. QED
        BY <2>1, <3>1, <3>2
    <2>4. QED
      BY <2>1, <2>2, <2>3 DEF AdaptersInv
  <1>6. QED
    BY <1>1, <1>2, <1>3, <1>4, <1>5 DEF AdaptersNext

-----------------------------------------------------------------------------
(* The record of a single attempt tells its tokens, costs and class.        *)
LEMMA RecordOfOne ==
  ASSUME NEW a
  PROVE  LET e == BuildTelemetryEvent(<< a >>)
         IN  /\ e.effectiveProviderId = a.providerId /\ e.effectiveModelId = a.modelId
             /\ e.aggregatedInputTokens =
                  IF a.errorClass = "none" THEN a.inputTokens ELSE 0
             /\ e.aggregatedOutputTokens =
                  IF a.errorClass = "none" THEN a.outputTokens ELSE 0
             /\ e.terminalErrorClass = a.errorClass
             /\ e.estimatedCostUsd = a.estimatedCostUsd
             /\ Given(a.actualCostUsd) => e.actualCostUsd = a.actualCostUsd
             /\ ~Given(a.actualCostUsd) => e.actualCostUsd = Null
             /\ e.reconciled = IF Given(e.actualCostUsd)
                                 THEN IsReconciled(e.estimatedCostUsd, e.actualCostUsd)
                                 ELSE Null
  <1> DEFINE chain == << a >>
  <1>1. Len(chain) = 1 /\ chain[1] = a /\ DOMAIN chain = {1} /\ chain[Len(chain)] = a
    OBVIOUS
  <1> HIDE DEF chain
  <1>2. QED
    BY <1>1 DEF BuildTelemetryEvent, chain

(* The record of a failure and of the attempt that it fell back to tells    *)
(* those of both, and credits the model that succeeded.                     *)
LEMMA RecordOfTwo ==
  ASSUME NEW a, NEW b, a.errorClass # "none", ~Given(a.actualCostUsd)
  PROVE  LET e == BuildTelemetryEvent(<< a, b >>)
             ok == b.errorClass = "none"
         IN  /\ ok => e.effectiveProviderId = b.providerId /\ e.effectiveModelId = b.modelId
             /\ e.aggregatedInputTokens = 0 + (IF ok THEN b.inputTokens ELSE 0)
             /\ e.aggregatedOutputTokens = 0 + (IF ok THEN b.outputTokens ELSE 0)
             /\ e.terminalErrorClass =
                  IF ok THEN b.errorClass ELSE "terminal_fallback_exhausted"
             /\ e.estimatedCostUsd = a.estimatedCostUsd + b.estimatedCostUsd
             /\ e.actualCostUsd = Null /\ e.reconciled = Null
  <1> DEFINE chain == << a, b >>
  <1>1. Len(chain) = 2 /\ chain[1] = a /\ chain[2] = b /\ DOMAIN chain = {1, 2}
        /\ chain[Len(chain)] = b
    OBVIOUS
  <1> HIDE DEF chain
  <1>2. ~Given(Null)
    BY DEF Given
  <1>3. QED
    BY <1>1, <1>2 DEF BuildTelemetryEvent, chain

(* A cost reconciles with itself.                                           *)
LEMMA ReconcilesWithItself ==
  ASSUME NEW x \in Nat
  PROVE  IsReconciled(x, x) /\ Given(IsReconciled(x, x)) /\ Given(x)
  <1>1. IsReconciled(x, x)
    BY SMT DEF IsReconciled
  <1>2. IsReconciled(x, x) = TRUE
    BY <1>1, SMT DEF IsReconciled
  <1>3. TRUE \in BOOLEAN
    OBVIOUS
  <1>4. Given(TRUE)
    BY <1>3, AdaptersAssumption, Zenon DEF Given
  <1>5. Given(IsReconciled(x, x))
    BY <1>2, <1>4, Zenon
  <1>6. Given(x)
    BY AdaptersAssumption DEF Given
  <1>7. QED
    BY <1>1, <1>5, <1>6

(* The price of a model is that of its two ids.                             *)
LEMMA PriceOfIds ==
  ASSUME NEW p, NEW model, NEW input, NEW output,
         model.providerId = ModelFor[p].providerId, model.modelId = ModelFor[p].modelId
  PROVE  EstimateCostUsd(AdapterPrices, model, input, output) =
           EstimateCostUsd(AdapterPrices, ModelFor[p], input, output)
  <1>1. Prices(AdapterPrices, model) = Prices(AdapterPrices, ModelFor[p])
    BY DEF Prices
  <1>2. QED
    BY <1>1 DEF EstimateCostUsd

(* What a record has to add up to.                                          *)
RecordAddsUp(attempts, e) ==
  LET ok == e.terminalErrorClass = "none"
      model == [providerId |-> e.effectiveProviderId, modelId |-> e.effectiveModelId]
  IN  /\ ok = (\E i \in DOMAIN attempts : attempts[i].errorClass = "none")
      /\ e.estimatedCostUsd =
           (IF ok THEN EstimateCostUsd(AdapterPrices, model, e.aggregatedInputTokens,
                                       e.aggregatedOutputTokens) ELSE 0)
      /\ ~ok => e.aggregatedInputTokens + e.aggregatedOutputTokens = 0
      /\ Given(e.actualCostUsd) = (ok /\ Len(attempts) = 1)
      /\ Given(e.reconciled) = Given(e.actualCostUsd)
      /\ Given(e.reconciled) => e.reconciled

AddsUp(attempts) == RecordAddsUp(attempts, BuildTelemetryEvent(attempts))

(* A request that failed adds up to nothing.                                *)
LEMMA FailureAddsUp ==
  ASSUME NEW attempts, NEW e, e.terminalErrorClass # "none",
         ~(\E i \in DOMAIN attempts : attempts[i].errorClass = "none"),
         e.estimatedCostUsd = 0, e.aggregatedInputTokens + e.aggregatedOutputTokens = 0,
         ~Given(e.actualCostUsd), ~Given(e.reconciled)
  PROVE  RecordAddsUp(attempts, e)
  BY DEF RecordAddsUp, Given

(* One that succeeded after a failure has no actual cost.                   *)
LEMMA FallbackAddsUp ==
  ASSUME NEW attempts, NEW e, e.terminalErrorClass = "none",
         \E i \in DOMAIN attempts : attempts[i].errorClass = "none",
         NEW model,
         model = [providerId |-> e.effectiveProviderId, modelId |-> e.effectiveModelId],
         e.estimatedCostUsd = EstimateCostUsd(AdapterPrices, model, e.aggregatedInputTokens,
                                              e.aggregatedOutputTokens),
         Len(attempts) # 1, ~Given(e.actualCostUsd), ~Given(e.reconciled)
  PROVE  RecordAddsUp(attempts, e)
  BY DEF RecordAddsUp, Given

(* A single attempt adds up.                                                *)
LEMMA OneAddsUp ==
  ASSUME NEW p \in Providers, NEW ans, NEW a, Accountable(p, ans, a)
  PROVE  AddsUp(<< a >>)
  <1> DEFINE chain == << a >>
             e == BuildTelemetryEvent(chain)
             model == [providerId |-> e.effectiveProviderId, modelId |-> e.effectiveModelId]
  <1>1. /\ e.effectiveProviderId = a.providerId /\ e.effectiveModelId = a.modelId
        /\ e.aggregatedInputTokens = IF a.errorClass = "none" THEN a.inputTokens ELSE 0
        /\ e.aggregatedOutputTokens = IF a.errorClass = "none" THEN a.outputTokens ELSE 0
        /\ e.terminalErrorClass = a.errorClass
        /\ e.estimatedCostUsd = a.estimatedCostUsd
        /\ Given(a.actualCostUsd) => e.actualCostUsd = a.actualCostUsd
        /\ ~Given(a.actualCostUsd) => e.actualCostUsd = Null
        /\ e.reconciled = IF Given(e.actualCostUsd)
                            THEN IsReconciled(e.estimatedCostUsd, e.actualCostUsd) ELSE Null
    BY RecordOfOne
  <1>2. Len(chain) = 1 /\ DOMAIN chain = {1} /\ chain[1] = a
    OBVIOUS
  <1>3. ~Given(Null)
    BY DEF Given
  <1>4. model.providerId = e.effectiveProviderId /\ model.modelId = e.effectiveModelId
    OBVIOUS
  <1> HIDE DEF e, chain, model
  <1>5. CASE a.errorClass = "none"
    <2>1. /\ a.inputTokens \in Nat /\ a.outputTokens \in Nat /\ a.estimatedCostUsd \in Nat
          /\ a.actualCostUsd = a.estimatedCostUsd
          /\ a.estimatedCostUsd =
               EstimateCostUsd(AdapterPrices, ModelFor[p], a.inputTokens, a.outputTokens)
      BY <1>5 DEF Accountable
    <2>2. EstimateCostUsd(AdapterPrices, model, a.inputTokens, a.outputTokens)
            = a.estimatedCostUsd
      BY <1>1, <1>4, <2>1, PriceOfIds DEF Accountable
    <2>3. /\ IsReconciled(a.estimatedCostUsd, a.estimatedCostUsd)
          /\ Given(IsReconciled(a.estimatedCostUsd, a.estimatedCostUsd))
          /\ Given(a.estimatedCostUsd)
      BY <2>1, ReconcilesWithItself
    <2>4. e.actualCostUsd = a.estimatedCostUsd /\ Given(e.actualCostUsd)
      BY <1>1, <2>1, <2>3
    <2>5. e.reconciled = IsReconciled(a.estimatedCostUsd, a.estimatedCostUsd)
      BY <1>1, <2>4
    <2>6. Given(e.reconciled) /\ e.reconciled
      BY <2>3, <2>5
    <2>7. /\ e.terminalErrorClass = "none"
          /\ e.aggregatedInputTokens = a.inputTokens /\ e.aggregatedOutputTokens = a.outputTokens
      BY <1>1, <1>5
    <2>8. \E i \in DOMAIN chain : chain[i].errorClass = "none"
      BY <1>2, <1>5
    <2>9. RecordAddsUp(chain, e)
      BY <1>1, <1>2, <2>2, <2>4, <2>6, <2>7, <2>8 DEF RecordAddsUp, model
    <2>10. QED
      BY <2>9 DEF AddsUp, chain, e
  <1>6. CASE a.errorClass # "none"
    <2>1. a.actualCostUsd = Null /\ a.estimatedCostUsd = 0
      BY <1>6 DEF Accountable
    <2>2. /\ ~Given(e.actualCostUsd) /\ ~Given(e.reconciled) /\ e.estimatedCostUsd = 0
          /\ e.terminalErrorClass # "none"
          /\ e.aggregatedInputTokens = 0 /\ e.aggregatedOutputTokens = 0
      BY <1>1, <1>3, <1>6, <2>1
    <2>3. ~(\E i \in DOMAIN chain : chain[i].errorClass = "none")
      BY <1>2, <1>6
    <2>4. RecordAddsUp(chain, e)
      BY <2>2, <2>3, FailureAddsUp
    <2>5. QED
      BY <2>4 DEF AddsUp, chain, e
  <1>7. QED
    BY <1>5, <1>6

(* So do a failure and the attempt that it fell back to.                    *)
LEMMA TwoAddUp ==
  ASSUME NEW p \in Providers, NEW ans, NEW a, Accountable(p, ans, a), a.errorClass # "none",
         NEW q \in Providers, NEW other, NEW b, Accountable(q, other, b)
  PROVE  AddsUp(<< a, b >>)
  <1> DEFINE chain == << a, b >>
             e == BuildTelemetryEvent(chain)
             model == [providerId |-> e.effectiveProviderId, modelId |-> e.effectiveModelId]
             ok == b.errorClass = "none"
  <1>1. a.actualCostUsd = Null /\ a.estimatedCostUsd = 0 /\ ~Given(a.actualCostUsd)
        /\ ~Given(Null)
    BY DEF Accountable, Given
  <1>2. /\ ok => e.effectiveProviderId = b.providerId /\ e.effectiveModelId = b.modelId
        /\ e.aggregatedInputTokens = 0 + (IF ok THEN b.inputTokens ELSE 0)
        /\ e.aggregatedOutputTokens = 0 + (IF ok THEN b.outputTokens ELSE 0)
        /\ e.terminalErrorClass = IF ok THEN b.errorClass ELSE "terminal_fallback_exhausted"
        /\ e.estimatedCostUsd = a.estimatedCostUsd + b.estimatedCostUsd
        /\ e.actualCostUsd = Null /\ e.reconciled = Null
    BY <1>1, RecordOfTwo
  <1>3. Len(chain) = 2 /\ DOMAIN chain = {1, 2} /\ chain[1] = a /\ chain[2] = b
    OBVIOUS
  <1>4. model.providerId = e.effectiveProviderId /\ model.modelId = e.effectiveModelId
    OBVIOUS
  <1>5. ~Given(e.actualCostUsd) /\ ~Given(e.reconciled)
    BY <1>1, <1>2
  <1> HIDE DEF e, chain, model
  <1>6. CASE b.errorClass = "none"
    <2>1. /\ b.inputTokens \in Nat /\ b.outputTokens \in Nat /\ b.estimatedCostUsd \in Nat
          /\ b.estimatedCostUsd =
               EstimateCostUsd(AdapterPrices, ModelFor[q], b.inputTokens, b.outputTokens)
      BY <1>6 DEF Accountable
    <2>2. EstimateCostUsd(AdapterPrices, model, b.inputTokens, b.outputTokens)
            = b.estimatedCostUsd
      BY <1>2, <1>4, <1>6, <2>1, PriceOfIds DEF Accountable
    <2>3. /\ e.terminalErrorClass = "none" /\ e.estimatedCostUsd = b.estimatedCostUsd
          /\ e.aggregatedInputTokens = b.inputTokens /\ e.aggregatedOutputTokens = b.outputTokens
      BY <1>1, <1>2, <1>6, <2>1
    <2>4. \E i \in DOMAIN chain : chain[i].errorClass = "none"
      BY <1>3, <1>6
    <2>5. RecordAddsUp(chain, e)
      <3>1. e.estimatedCostUsd = EstimateCostUsd(AdapterPrices, model, e.aggregatedInputTokens,
                                                 e.aggregatedOutputTokens)
        BY <2>2, <2>3
      <3>2. Len(chain) # 1
        BY <1>3
      <3>3. model = [providerId |-> e.effectiveProviderId, modelId |-> e.effectiveModelId]
        BY DEF model
      <3>4. QED
        BY <1>5, <2>3, <2>4, <3>1, <3>2, <3>3, FallbackAddsUp
    <2>6. QED
      BY <2>5 DEF AddsUp, chain, e
  <1>7. CASE b.errorClass # "none"
    <2>1. b.estimatedCostUsd = 0
      BY <1>7 DEF Accountable
    <2>2. /\ e.terminalErrorClass # "none" /\ e.estimatedCostUsd = 0
          /\ e.aggregatedInputTokens = 0 /\ e.aggregatedOutputTokens = 0
      BY <1>1, <1>2, <1>7, <2>1
    <2>3. ~(\E i \in DOMAIN chain : chain[i].errorClass = "none")
      BY <1>3, <1>7
    <2>4. RecordAddsUp(chain, e)
      BY <1>5, <2>2, <2>3, FailureAddsUp
    <2>5. QED
      BY <2>4 DEF AddsUp, chain, e
  <1>8. QED
    BY <1>6, <1>7

(* The adapters keep the contract, and what is recorded of them adds up.    *)
LEMMA AdaptersHold == AdaptersInv => AdaptersTypeOK /\ AdaptersKeepContract
  <1> SUFFICES ASSUME AdaptersInv PROVE AdaptersTypeOK /\ AdaptersKeepContract
    OBVIOUS
  <1> DEFINE done == {c \in AdapterCalls : execution[c].stage = "done"}
             attempt(c) == execution[c].attempt
  <1>1. \A c \in done :
          /\ execution[c].provider \in Providers
          /\ Accountable(execution[c].provider, execution[c].answer, attempt(c))
    BY DEF AdaptersInv
  <1>2. AdaptersTypeOK
    <2>1. ASSUME NEW p \in Mocks, armedFailure[p] # "none" PROVE arms > 0
      <3>1. injected[p] \in Nat /\ injected[p] + 1 <= arms /\ arms \in Nat
        BY <2>1 DEF AdaptersInv, Armed
      <3>2. QED
        BY <3>1
    <2>2. QED
      BY <1>1, <2>1 DEF AdaptersInv, AdaptersTypeOK, Accountable
  <1>3. RecordsAddUp
    <2>1. ASSUME NEW attempts \in Chains PROVE AddsUp(attempts)
      <3>1. CASE \E c \in done : attempts = << attempt(c) >>
        <4>1. PICK c \in done : attempts = << attempt(c) >>
          BY <3>1
        <4>2. QED
          BY <1>1, <4>1, OneAddsUp
      <3>2. CASE \E c, d \in done : /\ attempt(c).errorClass \in TransientClasses
                                    /\ attempts = << attempt(c), attempt(d) >>
        <4>1. PICK c \in done, d \in done : /\ attempt(c).errorClass \in TransientClasses
                                            /\ attempts = << attempt(c), attempt(d) >>
          BY <3>2
        <4>2. attempt(c).errorClass # "none"
          BY <4>1 DEF TransientClasses
        <4>3. QED
          BY <1>1, <4>1, <4>2, TwoAddUp
      <3>3. QED
        BY <3>1, <3>2 DEF Chains
    <2>2. QED
      BY <2>1 DEF RecordsAddUp, AddsUp, RecordAddsUp
  <1>4. \A c \in done :
          LET a == execution[c].attempt
          IN  IF a.errorClass = "none"
              THEN /\ a.estimatedCostUsd = a.actualCostUsd
                   /\ a.estimatedCostUsd =
                        EstimateCostUsd(AdapterPrices, ModelFor[execution[c].provider],
                                        a.inputTokens, a.outputTokens)
              ELSE a.inputTokens = Null /\ a.actualCostUsd = Null /\ a.estimatedCostUsd = 0
    BY <1>1 DEF Accountable
  <1>5. \A c, d \in done :
          /\ execution[c].answer = execution[d].answer
          /\ execution[c].answer.kind \in {"status", "aborted", "broken"}
          => execution[c].attempt.errorClass = execution[d].attempt.errorClass
    BY <1>1 DEF Accountable, FailedAnswer
  <1>6. \A p \in Mocks : injected[p] + (IF armedFailure[p] = "none" THEN 0 ELSE 1) <= arms
    BY DEF AdaptersInv, Armed
  <1>7. QED
    BY <1>2, <1>3, <1>4, <1>5, <1>6 DEF AdaptersKeepContract

-----------------------------------------------------------------------------
(* The routes that decide without executing (DecisionViews).                *)

(* Rules as a store keeps them: so many, and no two of one id.              *)
AreStored(rules) ==
  /\ IsFiniteSet(rules) /\ \A rule \in rules : IsStored(rule)
  /\ \A rule \in rules, other \in rules : rule.ruleId = other.ruleId => rule = other

(* The rule that is sorted first: r, if it precedes every other one.        *)
LEMMA GoverningIs ==
  ASSUME NEW rules, NEW r \in rules, r.priority \in Int, r.ruleId \in Int,
         \A rule \in rules : rule.priority \in Int /\ rule.ruleId \in Int,
         \A other \in rules \ {r} : Precedes(r, other)
  PROVE  Governing(rules) = r
  <1>1. \E rule \in rules : \A other \in rules \ {rule} : Precedes(rule, other)
    OBVIOUS
  <1>2. ASSUME NEW rule \in rules, \A other \in rules \ {rule} : Precedes(rule, other),
               rule # r
        PROVE  FALSE
    <2>1. Precedes(rule, r) /\ Precedes(r, rule)
      BY <1>2
    <2>2. QED
      BY <2>1 DEF Precedes
  <1>3. QED
    BY <1>1, <1>2, Zenon DEF Governing

(* There is one among rules of a store that are not none: the one with the  *)
(* fewest before it.                                                        *)
LEMMA GoverningExists ==
  ASSUME NEW rules, AreStored(rules), rules # {}
  PROVE  /\ Governing(rules) \in rules
         /\ \A other \in rules \ {Governing(rules)} : Precedes(Governing(rules), other)
  <1> DEFINE before(x) == {y \in rules : Precedes(y, x)}
  <1>1. \A x \in rules : IsFiniteSet(before(x)) /\ Cardinality(before(x)) \in Nat
    <2>1. \A x \in rules : before(x) \subseteq rules
      OBVIOUS
    <2>2. QED
      BY <2>1, FS_Subset, FS_CardinalityType DEF AreStored
  <1>2. \A x \in rules : x.priority \in Int /\ x.ruleId \in Int
    BY DEF AreStored, IsStored, IsRoutingRule
  <1>3. \A x, y \in rules : x # y => Precedes(x, y) \/ Precedes(y, x)
    BY <1>2 DEF Precedes, AreStored
  <1>4. \A x, y, z \in rules : Precedes(x, y) /\ Precedes(y, z) => Precedes(x, z)
    BY <1>2 DEF Precedes
  <1>5. \A x \in rules : ~Precedes(x, x)
    BY <1>2 DEF Precedes
  <1>6. \A x, y \in rules : Precedes(y, x) =>
          before(y) \subseteq before(x) /\ y \in before(x) /\ y \notin before(y)
    BY <1>4, <1>5
  <1> HIDE DEF before
  <1> DEFINE T == {Cardinality(before(x)) : x \in rules}
  <1>7. T \in SUBSET Nat /\ T # {}
    BY <1>1
  <1> HIDE DEF T
  <1>8. PICK n \in T : \A m \in T : n <= m
    BY <1>7, LeastNumber
  <1>9. PICK x \in rules : n = Cardinality(before(x))
    BY <1>8 DEF T
  <1>10. ASSUME NEW y \in rules, Precedes(y, x)
         PROVE  FALSE
    <2>1. Cardinality(before(y)) < Cardinality(before(x))
      <3>1. before(y) \subseteq before(x) /\ before(y) # before(x)
        BY <1>6, <1>10
      <3>2. QED
        BY <1>1, <3>1, FS_Subset
    <2>2. Cardinality(before(y)) \in T
      BY DEF T
    <2>3. QED
      BY <1>1, <1>8, <1>9, <2>1, <2>2
  <1>11. \A other \in rules \ {x} : Precedes(x, other)
    BY <1>3, <1>10
  <1>12. Governing(rules) = x
    BY <1>2, <1>11, GoverningIs
  <1>13. QED
    BY <1>11, <1>12

(* With another rule, of an id of its own, it is that one or the one before.*)
LEMMA GoverningJoined ==
  ASSUME NEW rules, AreStored(rules), rules # {}, NEW r, r.priority \in Int, r.ruleId \in Int,
         \A rule \in rules : rule.ruleId # r.ruleId
  PROVE  /\ Precedes(r, Governing(rules)) => Governing(rules \union {r}) = r
         /\ ~Precedes(r, Governing(rules)) =>
              /\ Governing(rules \union {r}) = Governing(rules)
              /\ Precedes(Governing(rules), r)
  <1> DEFINE g == Governing(rules)
  <1>1. g \in rules /\ \A other \in rules \ {g} : Precedes(g, other)
    BY GoverningExists
  <1>2. \A x \in rules : x.priority \in Int /\ x.ruleId \in Int
    BY DEF AreStored, IsStored, IsRoutingRule
  <1> HIDE DEF g
  <1>3. CASE Precedes(r, g)
    <2>1. \A other \in (rules \union {r}) \ {r} : Precedes(r, other)
      BY <1>1, <1>2, <1>3 DEF Precedes
    <2>2. Governing(rules \union {r}) = r
      BY <1>2, <2>1, GoverningIs
    <2>3. QED
      BY <1>3, <2>2 DEF g
  <1>4. CASE ~Precedes(r, g)
    <2>1. Precedes(g, r)
      BY <1>1, <1>2, <1>4 DEF Precedes
    <2>2. \A other \in (rules \union {r}) \ {g} : Precedes(g, other)
      BY <1>1, <2>1
    <2>3. Governing(rules \union {r}) = g
      BY <1>1, <1>2, <2>2, GoverningIs
    <2>4. QED
      BY <1>4, <2>1, <2>3 DEF g
  <1>5. QED
    BY <1>3, <1>4

LEMMA GoverningOne ==
  ASSUME NEW r PROVE Governing({r}) = r
  BY Zenon DEF Governing

-----------------------------------------------------------------------------
(* What governs a request.                                                  *)

LEMMA MatchingStored ==
  ASSUME NEW request, NEW rules, AreStored(rules)
  PROVE  AreStored(Matching(request, rules))
  <1>1. Matching(request, rules) \subseteq rules
    BY DEF Matching
  <1>2. QED
    BY <1>1, FS_Subset DEF AreStored

(* A further rule counts only if it matches.                                *)
LEMMA MatchingJoined ==
  ASSUME NEW request, NEW rules, NEW r
  PROVE  Matching(request, rules \union {r}) =
           IF MatchesRule(r, request) THEN Matching(request, rules) \union {r}
                                      ELSE Matching(request, rules)
  BY DEF Matching

LEMMA ResolutionIs ==
  ASSUME NEW request, NEW rules
  PROVE  LET m == Matching(request, rules)
             res == ResolveOverride(request, rules)
         IN  /\ m # {} =>
                  /\ res.effectiveSource = "operator_rule"
                  /\ res.shadowedSource = IF Given(request.override) THEN "client_override" ELSE Null
                  /\ res.pin = Governing(m).pin /\ res.matchedRuleId = Governing(m).ruleId
             /\ m = {} => res.effectiveSource # "operator_rule"
             /\ res.effectiveSource \in {"operator_rule", "client_override", "autopilot"}
             /\ res.effectiveSource = "autopilot" => ~Given(res.pin)
  BY DEF ResolveOverride, Resolution, Given

LEMMA FailureDecidesNothing ==
  ASSUME NEW code PROVE ~IsDecision(Failure(code))
  BY DEF IsDecision, Failure

(* The outcome of a resolution depends on its pin and its sources alone.    *)
LEMMA BuiltAlike ==
  ASSUME NEW request, NEW snapshot, NEW a, NEW b, a.pin = b.pin,
         a.effectiveSource = b.effectiveSource, a.shadowedSource = b.shadowedSource
  PROVE  BuildRoutingDecision(request, a, snapshot) = BuildRoutingDecision(request, b, snapshot)
  BY Zenon DEF BuildRoutingDecision

(* A decision of a pin goes to its target.                                  *)
LEMMA PinnedDecision ==
  ASSUME NEW request, NEW snapshot, NEW res, Given(res.pin),
         IsDecision(BuildRoutingDecision(request, res, snapshot))
  PROVE  LET target == PinTarget(res.pin, snapshot)
             decision == BuildRoutingDecision(request, res, snapshot)
         IN  /\ Given(target)
             /\ ChosenOf(decision) = << target.providerId, target.modelId >>
             /\ decision.decisionSource = res.effectiveSource
  <1> DEFINE target == PinTarget(res.pin, snapshot)
             decision == BuildRoutingDecision(request, res, snapshot)
  <1>1. Given(target)
    <2>1. ~Given(target) => decision = Failure("override_target_missing")
      BY Zenon DEF BuildRoutingDecision
    <2>2. QED
      BY <2>1, FailureDecidesNothing
  <1>2. /\ decision.chosenProviderId = target.providerId
        /\ decision.chosenModelId = target.modelId
        /\ decision.decisionSource = res.effectiveSource
    <2> HIDE DEF target
    <2>1. decision = [ decisionSource |-> res.effectiveSource,
             shadowedSource |-> res.shadowedSource,
             ranking |-> << [ providerId |-> target.providerId,
                              modelId |-> target.modelId, included |-> TRUE,
                              reason |-> Null, total |-> One,
                              estimatedCostUsd |->
                                RequestCost(request, snapshot.pricingTable, target) ] >>,
             chosenProviderId |-> target.providerId,
             chosenModelId |-> target.modelId,
             pricingTableVersionId |-> snapshot.pricingTable.versionId,
             estimatedCostUsd |-> RequestCost(request, snapshot.pricingTable, target) ]
      BY <1>1, Zenon DEF BuildRoutingDecision, target
    <2> HIDE DEF decision
    <2>2. QED
      BY <2>1
  <1>3. QED
    BY <1>1, <1>2, Zenon DEF ChosenOf

(* The autopilot's decision is of an eligible model, at the prices it names.*)
LEMMA AutopilotDecision ==
  ASSUME NEW request, NEW catalog, NEW table, IsDecision(DecideRoute(request, catalog, table))
  PROVE  LET decision == DecideRoute(request, catalog, table)
         IN  /\ \E i \in DOMAIN catalog : Included(request, catalog[i])
             /\ decision.decisionSource = "autopilot"
             /\ decision.pricingTableVersionId = table.versionId
  <1> DEFINE models == {catalog[i] : i \in DOMAIN catalog}
             eligible == {m \in models : Included(request, m)}
             costs == {RequestCost(request, table, m) : m \in eligible}
             minCost == CHOOSE c \in costs : \A d \in costs : c <= d
             maxCost == CHOOSE c \in costs : \A d \in costs : c >= d
             candidate(m) ==
               [ providerId |-> m.providerId, modelId |-> m.modelId,
                 included |-> m \in eligible,
                 reason |-> ExclusionReason(request, m),
                 total |-> IF m \in eligible
                             THEN ScoreCandidate(request, table, m, minCost, maxCost) ELSE 0,
                 estimatedCostUsd |-> IF m \in eligible
                             THEN RequestCost(request, table, m) ELSE Null ]
             ranked == Sorted([i \in DOMAIN catalog |-> candidate(catalog[i])], RanksBefore)
             decision ==
               [ decisionSource |-> "autopilot", shadowedSource |-> Null,
                 ranking |-> ranked,
                 chosenProviderId |-> ranked[1].providerId,
                 chosenModelId |-> ranked[1].modelId,
                 pricingTableVersionId |-> table.versionId,
                 estimatedCostUsd |-> ranked[1].estimatedCostUsd ]
             error == IF models # {} /\ \A m \in models : ExclusionReason(request, m) = "context"
                        THEN Failure("context_exceeded") ELSE Failure("provider_unavailable")
  <1>1. DecideRoute(request, catalog, table) = IF eligible = {} THEN error ELSE decision
    BY DEF DecideRoute
  <1>2. ~IsDecision(error)
    BY FailureDecidesNothing
  <1>3. decision.decisionSource = "autopilot" /\ decision.pricingTableVersionId = table.versionId
    OBVIOUS
  <1> HIDE DEF decision, error
  <1>4. eligible # {} /\ DecideRoute(request, catalog, table) = decision
    BY <1>1, <1>2
  <1>5. \E i \in DOMAIN catalog : Included(request, catalog[i])
    BY <1>4
  <1> HIDE DEF eligible
  <1>6. QED
    BY <1>3, <1>4, <1>5

(* Requests that differ in their override alone are decided alike by it.    *)
LEMMA DecidedAlike ==
  ASSUME NEW q, NEW r, NEW catalog, NEW table,
         q.requiredCapabilities = r.requiredCapabilities,
         q.estimatedInputTokens = r.estimatedInputTokens,
         q.maxLatencyMs = r.maxLatencyMs, q.minQualityTier = r.minQualityTier
  PROVE  DecideRoute(q, catalog, table) = DecideRoute(r, catalog, table)
  <1> DEFINE models == {catalog[i] : i \in DOMAIN catalog}
             eligible(x) == {m \in models : Included(x, m)}
             costs(x) == {RequestCost(x, table, m) : m \in eligible(x)}
             minCost(cs) == CHOOSE c \in cs : \A d \in cs : c <= d
             maxCost(cs) == CHOOSE c \in cs : \A d \in cs : c >= d
             candidate(x, m) ==
               [ providerId |-> m.providerId, modelId |-> m.modelId,
                 included |-> m \in eligible(x),
                 reason |-> ExclusionReason(x, m),
                 total |-> IF m \in eligible(x)
                             THEN ScoreCandidate(x, table, m, minCost(costs(x)), maxCost(costs(x)))
                             ELSE 0,
                 estimatedCostUsd |-> IF m \in eligible(x)
                             THEN RequestCost(x, table, m) ELSE Null ]
             listed(x) == [i \in DOMAIN catalog |-> candidate(x, catalog[i])]
             ranked(s) == Sorted(s, RanksBefore)
             decision(rs) ==
               [ decisionSource |-> "autopilot", shadowedSource |-> Null,
                 ranking |-> rs,
                 chosenProviderId |-> rs[1].providerId,
                 chosenModelId |-> rs[1].modelId,
                 pricingTableVersionId |-> table.versionId,
                 estimatedCostUsd |-> rs[1].estimatedCostUsd ]
             tooLong(x) == models # {} /\ \A m \in models : ExclusionReason(x, m) = "context"
             error(x) == IF tooLong(x)
                        THEN Failure("context_exceeded") ELSE Failure("provider_unavailable")
  <1>1. \A m : ExclusionReason(q, m) = ExclusionReason(r, m)
    BY DEF ExclusionReason
  <1>2. \A m : RequestCost(q, table, m) = RequestCost(r, table, m)
    BY DEF RequestCost
  <1>3. \A m, lo, hi : ScoreCandidate(q, table, m, lo, hi) = ScoreCandidate(r, table, m, lo, hi)
    BY <1>2 DEF ScoreCandidate, Breakdown
  <1>4. eligible(q) = eligible(r)
    BY <1>1 DEF Included
  <1>5. costs(q) = costs(r)
    BY <1>2, <1>4
  <1>6. tooLong(q) = tooLong(r)
    BY <1>1
  <1>7. \A x : DecideRoute(x, catalog, table)
                 = IF eligible(x) = {} THEN error(x) ELSE decision(ranked(listed(x)))
    BY Zenon DEF DecideRoute
  <1>8. error(q) = error(r)
    BY <1>6, Zenon
  <1> HIDE DEF minCost, maxCost, eligible, costs
  <1>9. \A m : candidate(q, m) = candidate(r, m)
    BY <1>1, <1>2, <1>3, <1>4, <1>5
  <1>10. listed(q) = listed(r)
    BY <1>9
  <1> HIDE DEF listed
  <1>11. ranked(listed(q)) = ranked(listed(r))
    BY <1>10
  <1> HIDE DEF ranked, error, decision
  <1>12. QED
    BY <1>4, <1>7, <1>8, <1>11

-----------------------------------------------------------------------------

SimulationFields ==
  { "stage", "request", "proposal", "snapshot", "rules", "current", "proposed",
    "budget", "moved", "created" }

(* Time passes by one of the moves.                                         *)
DecisionShapes ==
  /\ DOMAIN world = {"rules", "version", "healthy", "budgets", "spent", "now"}
  /\ world.version \in DOMAIN RoutedEntries /\ world.healthy \subseteq AllHealthy
  /\ world.budgets \in BudgetTables /\ world.spent \subseteq RoutedSpend
  /\ moves \in 0..MaxMoves /\ world.now \in RoutedNow..(RoutedNow + moves)
  /\ \A rule \in world.rules, other \in world.rules : rule.ruleId = other.ruleId => rule = other
  /\ DOMAIN simulation = SimulationFields
  /\ simulation.stage \in {"idle", "catalog", "rules", "budgets", "answered", "refused"}
  /\ DOMAIN replay = {"stage", "snapshot", "replayed", "matches"}
  /\ replay.stage \in {"idle", "reading", "answered", "failed"}

(* The rules of a store have different ids at first.                        *)
LEMMA ShapesInitHold == DecisionInit => DecisionShapes
  <1> SUFFICES ASSUME DecisionInit PROVE DecisionShapes
    OBVIOUS
  <1>1. /\ world \in [ rules : RuleSets, version : DOMAIN RoutedEntries,
                       healthy : {AllHealthy}, budgets : BudgetTables, spent : {{}},
                       now : {RoutedNow} ]
        /\ moves = 0
    BY DEF DecisionInit, InitialWorlds
  <1>2. simulation = NoSimulation /\ replay = NoReplay
    BY DEF DecisionInit
  <1>3. DOMAIN simulation = SimulationFields /\ simulation.stage = "idle"
    BY <1>2 DEF NoSimulation, SimulationFields
  <1>4. DOMAIN replay = {"stage", "snapshot", "replayed", "matches"} /\ replay.stage = "idle"
    BY <1>2 DEF NoReplay
  <1>5. QED
    BY <1>1, <1>3, <1>4, DecisionAssumption DEF DecisionShapes

(* A created rule has an id that no other rule of the store has.            *)
LEMMA ShapesStep ==
  DecisionShapes /\ [SimulationNext \/ ReplayNext]_decisionVars => DecisionShapes'
  <1> SUFFICES ASSUME DecisionShapes, [SimulationNext \/ ReplayNext]_decisionVars
               PROVE  DecisionShapes'
    OBVIOUS
  <1>1. CASE UNCHANGED decisionVars
    BY <1>1 DEF decisionVars, DecisionShapes
  <1>2. ASSUME NEW request \in Routed, NEW proposal \in Proposals, Simulate(request, proposal)
        PROVE  DecisionShapes'
    <2>1. UNCHANGED << world, event, replay, moves >>
      BY <1>2 DEF Simulate
    <2>2. DOMAIN simulation' = SimulationFields /\ simulation'.stage = "catalog"
      BY <1>2 DEF Simulate, NoSimulation, SimulationFields
    <2>3. QED
      BY <2>1, <2>2 DEF DecisionShapes
  <1>3. CASE SimulationCatalog \/ SimulationRules
    <2>1. UNCHANGED << world, event, replay, moves >>
      BY <1>3 DEF SimulationCatalog, SimulationRules
    <2>2. /\ DOMAIN simulation' = SimulationFields
          /\ simulation'.stage \in {"rules", "budgets", "refused"}
      BY <1>3 DEF SimulationCatalog, SimulationRules, DecisionShapes, SimulationFields
    <2>3. QED
      BY <2>1, <2>2 DEF DecisionShapes
  <1>4. ASSUME NEW side \in Sides, LoadBudgets(side) \/ StartSpend(side) \/ ReadSpend(side)
        PROVE  DecisionShapes'
    <2>1. UNCHANGED << world, event, replay, moves >>
      BY <1>4 DEF LoadBudgets, StartSpend, ReadSpend, Evaluate
    <2>2. /\ DOMAIN simulation' = SimulationFields
          /\ simulation'.stage \in {"answered", simulation.stage}
      <3>1. CASE StartSpend(side)
        BY <3>1 DEF StartSpend, DecisionShapes, SimulationFields
      <3>2. CASE \E evaluation : Evaluate(side, evaluation)
        BY <3>2 DEF Evaluate, DecisionShapes, SimulationFields
      <3>3. QED
        BY <1>4, <3>1, <3>2 DEF LoadBudgets, ReadSpend
    <2>3. QED
      BY <2>1, <2>2 DEF DecisionShapes
  <1>5. CASE CreateProposal
    <2>1. PICK id \in FreshIds \ {rule.ruleId : rule \in world.rules} :
            LET rule == Identified(id, simulation.proposal)
            IN  /\ world' = [world EXCEPT !.rules = @ \union {rule}]
                /\ simulation' = [simulation EXCEPT !.created = rule]
      BY <1>5 DEF CreateProposal
    <2> DEFINE rule == Identified(id, simulation.proposal)
    <2>2. rule.ruleId = id /\ \A other \in world.rules : other.ruleId # id
      BY DEF Identified
    <2> HIDE DEF rule
    <2>3. /\ world' = [world EXCEPT !.rules = @ \union {rule}]
          /\ simulation' = [simulation EXCEPT !.created = rule]
      BY <2>1 DEF rule
    <2>4. /\ moves' = moves + 1 /\ moves' \in 0..MaxMoves
          /\ UNCHANGED << event, replay >>
      BY <1>5, DecisionAssumption DEF CreateProposal, Move, DecisionShapes
    <2>5. /\ DOMAIN world' = {"rules", "version", "healthy", "budgets", "spent", "now"}
          /\ world'.rules = world.rules \union {rule} /\ world'.version = world.version
          /\ world'.healthy = world.healthy /\ world'.budgets = world.budgets
          /\ world'.spent = world.spent /\ world'.now = world.now
      BY <2>3 DEF DecisionShapes
    <2>6. \A a \in world'.rules, b \in world'.rules : a.ruleId = b.ruleId => a = b
      BY <2>2, <2>5 DEF DecisionShapes
    <2>7. DOMAIN simulation' = SimulationFields /\ simulation'.stage = simulation.stage
      BY <2>3 DEF DecisionShapes, SimulationFields
    <2>8. world.now \in RoutedNow..(RoutedNow + moves')
      BY <2>4, DecisionAssumption DEF DecisionShapes
    <2>9. QED
      BY <2>4, <2>5, <2>6, <2>7, <2>8 DEF DecisionShapes
  <1>6. CASE BudgetChanges \/ SpendRecorded \/ ClockTicks
    <2>1. /\ moves' = moves + 1 /\ moves' \in 0..MaxMoves /\ moves \in Nat
          /\ UNCHANGED << event, replay >>
      BY <1>6, DecisionAssumption
      DEF BudgetChanges, SpendRecorded, ClockTicks, Move, DecisionShapes
    <2>2. /\ DOMAIN world' = {"rules", "version", "healthy", "budgets", "spent", "now"}
          /\ world'.rules = world.rules /\ world'.version = world.version
          /\ world'.healthy = world.healthy
          /\ world'.budgets \in BudgetTables /\ world'.spent \subseteq RoutedSpend
          /\ world'.now \in {world.now, world.now + 1}
      BY <1>6 DEF BudgetChanges, SpendRecorded, ClockTicks, DecisionShapes
    <2>3. DOMAIN simulation' = SimulationFields /\ simulation'.stage = simulation.stage
      BY <1>6 DEF BudgetChanges, SpendRecorded, ClockTicks, DecisionShapes, SimulationFields
    <2>4. world'.now \in RoutedNow..(RoutedNow + moves')
      BY <2>1, <2>2, DecisionAssumption DEF DecisionShapes
    <2>5. QED
      BY <2>1, <2>2, <2>3, <2>4 DEF DecisionShapes
  <1>7. CASE WorldMoves
    <2>1. /\ moves' = moves + 1 /\ moves' \in 0..MaxMoves /\ moves \in Nat
          /\ UNCHANGED << simulation, event, replay >>
      BY <1>7, DecisionAssumption
      DEF WorldMoves, PricingSwitches, ProviderHealth, Move, DecisionShapes
    <2>2. /\ DOMAIN world' = {"rules", "version", "healthy", "budgets", "spent", "now"}
          /\ world'.rules = world.rules /\ world'.budgets = world.budgets
          /\ world'.spent = world.spent /\ world'.now = world.now
          /\ world'.version \in DOMAIN RoutedEntries /\ world'.healthy \subseteq AllHealthy
      BY <1>7 DEF WorldMoves, PricingSwitches, ProviderHealth, DecisionShapes
    <2>3. world'.now \in RoutedNow..(RoutedNow + moves')
      BY <2>1, <2>2, DecisionAssumption DEF DecisionShapes
    <2>4. QED
      BY <2>1, <2>2, <2>3 DEF DecisionShapes
  <1>8. ASSUME NEW request \in Routed, NEW counted, RecordCompletion(request, counted)
        PROVE  DecisionShapes'
    BY <1>8 DEF RecordCompletion, DecisionShapes
  <1>9. CASE ReplayReads
    <2>1. UNCHANGED << world, simulation, event, moves >>
      BY <1>9 DEF ReplayReads
    <2>2. /\ DOMAIN replay' = {"stage", "snapshot", "replayed", "matches"}
          /\ replay'.stage = "reading"
      BY <1>9 DEF ReplayReads, NoReplay
    <2>3. QED
      BY <2>1, <2>2 DEF DecisionShapes
  <1>10. CASE ReplayAnswers
    <2>1. UNCHANGED << world, simulation, event, moves >>
      BY <1>10 DEF ReplayAnswers
    <2>2. /\ DOMAIN replay' = {"stage", "snapshot", "replayed", "matches"}
          /\ replay'.stage = "answered"
      BY <1>10 DEF ReplayAnswers, DecisionShapes
    <2>3. QED
      BY <2>1, <2>2 DEF DecisionShapes
  <1>11. QED
    BY <1>1, <1>2, <1>3, <1>4, <1>5, <1>6, <1>7, <1>8, <1>9, <1>10
    DEF SimulationNext, ReplayNext

(* The two decisions are of the rules that were read, with and without the  *)
(* proposal.                                                                *)
SimulationSound ==
  LET s == simulation
  IN  /\ AreStored(world.rules)
      /\ s.stage # "idle" => s.proposal \in Proposals
      /\ s.stage # "answered" => s.created = Null
      /\ s.stage \in {"budgets", "answered"} =>
           /\ s.rules \subseteq world.rules /\ AreStored(s.rules)
           /\ s.current = ResolveRoutingDecision(s.request, s.rules, s.snapshot)
           /\ s.proposed = ResolveRoutingDecision(s.request,
                s.rules \union {Identified(SimulationRuleId, s.proposal)}, s.snapshot)
           /\ IsDecision(s.current) /\ IsDecision(s.proposed)
           /\ Given(s.created) => \E id \in FreshIds :
                /\ s.created = Identified(id, s.proposal)
                /\ \A rule \in s.rules : rule.ruleId # id

(* An evaluation reads the spend of its budgets, and its verdict is theirs. *)
EvaluationSound(e, cost) ==
  /\ DOMAIN e = {"step", "applicable", "now", "spend", "decision"}
  /\ e.step \in {"loading", "loaded", "reading", "judged"}
  /\ \A b \in e.applicable, c \in e.applicable : b.budgetId = c.budgetId => b = c
  /\ e.step \in {"loading", "loaded"} => DOMAIN e.spend = {}
  /\ e.step = "judged" =>
       /\ \A b \in e.applicable : b.budgetId \in DOMAIN e.spend
       /\ e.decision = EvaluateBudgets(e.applicable, e.spend, cost).decision

(* What one has read so far is what the other one has read or will read.    *)
ReadsAlike(e, f) ==
  /\ HasLoaded(e) => e.applicable =
       IF HasLoaded(f) THEN f.applicable
       ELSE Applicable(world.budgets, simulation.request.clientId)
  /\ HasTime(e) => e.now = IF HasTime(f) THEN f.now ELSE world.now

ReadsSpend(e) ==
  \A b \in e.applicable :
    b.budgetId \in DOMAIN e.spend => e.spend[b.budgetId] = SpendOf(b, world.spent, e.now)

(* As long as nothing moved between them the two evaluations read the same, *)
(* and give the same verdict of the same cost.                              *)
EvaluationsSound ==
  LET s == simulation
  IN  /\ s.stage \in {"idle", "catalog", "rules"} => s.budget = NoSimulation.budget
      /\ s.stage = "budgets" =>
           /\ DOMAIN s.budget = Sides
           /\ \A x \in Sides : EvaluationSound(s.budget[x], s[x].estimatedCostUsd)
           /\ ~s.moved => \A x \in Sides :
                /\ ReadsSpend(s.budget[x])
                /\ \A y \in Sides : ReadsAlike(s.budget[x], s.budget[y])
      /\ /\ s.stage = "answered" /\ ~s.moved
         /\ s.proposed.estimatedCostUsd = s.current.estimatedCostUsd
         => s.budget.current.decision = s.budget.proposed.decision

(* A recorded decision is the autopilot's on the catalog it names, whose    *)
(* models are priced, or it is governed.                                    *)
EventSound ==
  Given(event) =>
    /\ IsDecision(event.decision)
    /\ event.decision.decisionSource \in {"operator_rule", "client_override", "autopilot"}
    /\ event.decision.decisionSource = "autopilot" =>
         event.decision = DecideRoute(event.request, event.catalog.models,
                                      event.catalog.pricingTable)
    /\ \A i \in DOMAIN event.catalog.models :
         Prices(event.catalog.pricingTable, event.catalog.models[i]) # {}

ReplaySound ==
  /\ EventSound
  /\ replay.stage \in {"reading", "answered"} => Given(event)
  /\ ReplayReproduces /\ ReplayPageIsTrue

DecisionInv == DecisionShapes /\ SimulationSound /\ EvaluationsSound /\ ReplaySound

LEMMA DecisionInitHolds == DecisionInit => DecisionInv
  <1> SUFFICES ASSUME DecisionInit PROVE DecisionInv
    OBVIOUS
  <1>1. DecisionShapes
    BY ShapesInitHold
  <1>2. simulation = NoSimulation /\ event = Null /\ replay = NoReplay /\ world.rules \in RuleSets
    BY DEF DecisionInit, InitialWorlds
  <1>3. AreStored(world.rules)
    BY <1>2, DecisionAssumption DEF AreStored
  <1>4. /\ simulation.stage = "idle" /\ simulation.created = Null
        /\ simulation.budget = NoSimulation.budget
    BY <1>2 DEF NoSimulation
  <1>5. SimulationSound /\ EvaluationsSound
    BY <1>3, <1>4 DEF SimulationSound, EvaluationsSound
  <1>6. replay.stage = "idle"
    BY <1>2 DEF NoReplay
  <1>7. ReplaySound
    BY <1>2, <1>6 DEF ReplaySound, EventSound, ReplayReproduces, ReplayPageIsTrue, Given
  <1>8. QED
    BY <1>1, <1>5, <1>7 DEF DecisionInv

(* A rule of what was proposed is one a store could keep.                   *)
LEMMA IdentifiedIs ==
  ASSUME NEW proposal, IsRoutingRule(proposal), NEW id
  PROVE  LET rule == Identified(id, proposal)
         IN  /\ rule.ruleId = id /\ rule.priority = proposal.priority /\ rule.pin = proposal.pin
             /\ IsRoutingRule(rule)
             /\ \A request, other : MatchesRule(rule, request)
                  <=> MatchesRule(Identified(other, proposal), request)
  <1> DEFINE named == { "priority", "enabled", "clientIds", "requiredCapabilities",
                        "minEstimatedTokens", "maxEstimatedTokens", "pin" }
  <1>1. named \subseteq DOMAIN proposal
    BY DEF IsRoutingRule
  <1>2. ASSUME NEW other
        PROVE  /\ Identified(other, proposal).ruleId = other
               /\ DOMAIN Identified(other, proposal) = DOMAIN proposal \union {"ruleId"}
               /\ \A n \in named : Identified(other, proposal)[n] = proposal[n]
    BY <1>1 DEF Identified
  <1>3. \A other : /\ Identified(other, proposal).enabled = proposal.enabled
                   /\ Identified(other, proposal).clientIds = proposal.clientIds
                   /\ Identified(other, proposal).priority = proposal.priority
                   /\ Identified(other, proposal).pin = proposal.pin
                   /\ Identified(other, proposal).requiredCapabilities
                        = proposal.requiredCapabilities
                   /\ Identified(other, proposal).minEstimatedTokens
                        = proposal.minEstimatedTokens
                   /\ Identified(other, proposal).maxEstimatedTokens
                        = proposal.maxEstimatedTokens
    BY <1>2
  <1>4. IsRoutingRule(Identified(id, proposal))
    BY <1>1, <1>2, <1>3 DEF IsRoutingRule
  <1>5. \A request, other : MatchesRule(Identified(id, proposal), request)
                  <=> MatchesRule(Identified(other, proposal), request)
    BY <1>3 DEF MatchesRule
  <1>6. QED
    BY <1>2, <1>3, <1>4, <1>5

(* A store takes a rule of an id none has.                                  *)
LEMMA StoredJoined ==
  ASSUME NEW rules, AreStored(rules), NEW r, IsStored(r), \A rule \in rules : rule.ruleId # r.ruleId
  PROVE  AreStored(rules \union {r})
  <1>1. IsFiniteSet(rules \union {r})
    BY FS_AddElement DEF AreStored
  <1>2. QED
    BY <1>1 DEF AreStored

(* Nothing is read at first.                                                *)
LEMMA NothingEvaluated ==
  ASSUME NEW cost
  PROVE  /\ DOMAIN NoSimulation.budget = Sides
         /\ \A x \in Sides : NoSimulation.budget[x] = NoEvaluation
         /\ EvaluationSound(NoEvaluation, cost)
         /\ ~HasLoaded(NoEvaluation) /\ ~HasTime(NoEvaluation)
         /\ NoEvaluation.applicable = {}
  <1>1. NoSimulation.budget = [x \in Sides |-> NoEvaluation]
    BY DEF NoSimulation
  <1>2. EvaluationSound(NoEvaluation, cost)
    BY DEF NoEvaluation, EvaluationSound
  <1>3. ~HasLoaded(NoEvaluation) /\ ~HasTime(NoEvaluation) /\ NoEvaluation.applicable = {}
    BY DEF NoEvaluation, HasLoaded, HasTime
  <1>4. QED
    BY <1>1, <1>2, <1>3

(* What is simulated is started, read and decided.                          *)
LEMMA SimulationDecides ==
  ASSUME DecisionShapes, SimulationSound, EvaluationsSound,
         \/ \E request \in Routed, proposal \in Proposals : Simulate(request, proposal)
         \/ SimulationCatalog
         \/ SimulationRules
  PROVE  SimulationSound' /\ EvaluationsSound'
  <1>1. ASSUME NEW request \in Routed, NEW proposal \in Proposals, Simulate(request, proposal)
        PROVE  SimulationSound' /\ EvaluationsSound'
    <2>1. world' = world
      BY <1>1 DEF Simulate
    <2>2. /\ simulation'.stage = "catalog" /\ simulation'.proposal = proposal
          /\ simulation'.budget = NoSimulation.budget /\ simulation'.created = Null
      BY <1>1 DEF Simulate, NoSimulation
    <2>3. QED
      BY <2>1, <2>2 DEF SimulationSound, EvaluationsSound
  <1>2. CASE SimulationCatalog
    <2>1. world' = world
      BY <1>2 DEF SimulationCatalog
    <2>2. /\ simulation.stage = "catalog" /\ simulation'.stage \in {"rules", "refused"}
          /\ simulation'.proposal = simulation.proposal
          /\ simulation'.budget = simulation.budget
          /\ simulation'.created = simulation.created
      BY <1>2 DEF SimulationCatalog, DecisionShapes, SimulationFields
    <2>3. QED
      BY <2>1, <2>2 DEF SimulationSound, EvaluationsSound
  <1>3. CASE SimulationRules
    <2> DEFINE current == ResolveRoutingDecision(simulation.request, world.rules, simulation.snapshot)
               proposed == ResolveRoutingDecision(simulation.request,
                             world.rules \union {Identified(SimulationRuleId, simulation.proposal)},
                             simulation.snapshot)
    <2>1. world' = world /\ simulation.stage = "rules"
      BY <1>3 DEF SimulationRules
    <2>2. simulation' = [simulation EXCEPT !.rules = world.rules, !.current = current,
                           !.proposed = proposed,
                           !.stage = IF IsDecision(current) /\ IsDecision(proposed)
                                       THEN "budgets" ELSE "refused"]
      BY <1>3 DEF SimulationRules, Simulated, ProposedRule
    <2> HIDE DEF current, proposed
    <2>3. /\ simulation'.stage = "budgets" => IsDecision(current) /\ IsDecision(proposed)
          /\ simulation'.stage \in {"budgets", "refused"}
          /\ simulation'.rules = world.rules
          /\ simulation'.current = current /\ simulation'.proposed = proposed
          /\ simulation'.request = simulation.request
          /\ simulation'.snapshot = simulation.snapshot
          /\ simulation'.proposal = simulation.proposal
          /\ simulation'.budget = simulation.budget
          /\ simulation'.created = simulation.created
      BY <2>2 DEF DecisionShapes, SimulationFields
    <2>4. /\ simulation.budget = NoSimulation.budget
          /\ simulation.created = Null /\ AreStored(world.rules)
          /\ simulation.proposal \in Proposals
      BY <2>1 DEF SimulationSound, EvaluationsSound
    <2>5. SimulationSound'
      BY <2>1, <2>3, <2>4 DEF SimulationSound, current, proposed, Given
    <2>6. EvaluationsSound'
      BY <2>3, <2>4, NothingEvaluated DEF EvaluationsSound, ReadsSpend, ReadsAlike
    <2>7. QED
      BY <2>5, <2>6
  <1>4. QED
    BY <1>1, <1>2, <1>3

(* An evaluation leaves the rest of the simulation as it is.                *)
LEMMA EvaluationApart ==
  ASSUME DecisionShapes, NEW side \in Sides,
         LoadBudgets(side) \/ StartSpend(side) \/ ReadSpend(side)
  PROVE  /\ world' = world /\ simulation.stage = "budgets"
         /\ simulation'.stage \in {"budgets", "answered"}
         /\ simulation'.rules = simulation.rules /\ simulation'.current = simulation.current
         /\ simulation'.proposed = simulation.proposed
         /\ simulation'.request = simulation.request
         /\ simulation'.snapshot = simulation.snapshot
         /\ simulation'.proposal = simulation.proposal
         /\ simulation'.moved = simulation.moved
         /\ simulation'.created = simulation.created
  <1>1. simulation.stage = "budgets"
    BY DEF LoadBudgets, StartSpend, ReadSpend, At
  <1>2. CASE StartSpend(side)
    BY <1>1, <1>2 DEF StartSpend, DecisionShapes, SimulationFields
  <1>3. CASE \E evaluation : Evaluate(side, evaluation)
    BY <1>1, <1>3 DEF Evaluate, DecisionShapes, SimulationFields
  <1>4. QED
    BY <1>2, <1>3 DEF LoadBudgets, ReadSpend

LEMMA SimulationJudges ==
  ASSUME DecisionShapes, SimulationSound, NEW side \in Sides,
         LoadBudgets(side) \/ StartSpend(side) \/ ReadSpend(side)
  PROVE  SimulationSound'
  <1>1. simulation.stage = "budgets"
    BY EvaluationApart
  <1>2. simulation.created = Null /\ simulation.proposal \in Proposals
    BY <1>1 DEF SimulationSound
  <1>3. QED
    BY <1>1, <1>2, EvaluationApart DEF SimulationSound, Given

(* A verdict is of the budgets, what is read of them and the cost.          *)
LEMMA VerdictsAlike ==
  ASSUME NEW applicable, NEW spend, NEW other, NEW cost,
         \A b \in applicable : spend[b.budgetId] = other[b.budgetId]
  PROVE  EvaluateBudgets(applicable, spend, cost).decision
           = EvaluateBudgets(applicable, other, cost).decision
  <1> DEFINE evaluated(t) == {EvaluateBudget(b, t[b.budgetId], cost) : b \in applicable}
  <1>1. evaluated(spend) = evaluated(other)
    OBVIOUS
  <1>2. \A t : EvaluateBudgets(applicable, t, cost).decision
                 = Verdict({e.decision : e \in evaluated(t)})
    BY DEF EvaluateBudgets
  <1> HIDE DEF evaluated
  <1>3. QED
    BY <1>1, <1>2

(* As long as there is no answer the evaluations are sound if each is.      *)
LEMMA EvaluationsStay ==
  ASSUME NEW budget, simulation'.budget = budget, simulation'.stage = "budgets",
         world' = world, simulation'.request = simulation.request,
         simulation'.moved = simulation.moved,
         \A x \in Sides : simulation'[x] = simulation[x],
         DOMAIN budget = Sides,
         \A x \in Sides : EvaluationSound(budget[x], simulation[x].estimatedCostUsd),
         ~simulation.moved => \A x \in Sides :
           /\ ReadsSpend(budget[x])
           /\ \A y \in Sides : ReadsAlike(budget[x], budget[y])
  PROVE  EvaluationsSound'
  <1>1. \A x \in Sides :
          EvaluationSound(simulation'.budget[x], simulation'[x].estimatedCostUsd)
    OBVIOUS
  <1>2. ASSUME ~simulation'.moved, NEW x \in Sides
        PROVE  /\ ReadsSpend(simulation.budget[x])'
               /\ \A y \in Sides : ReadsAlike(simulation.budget[x], simulation.budget[y])'
    <2>1. ReadsSpend(budget[x]) /\ \A y \in Sides : ReadsAlike(budget[x], budget[y])
      BY <1>2
    <2>2. QED
      BY <2>1 DEF ReadsSpend, ReadsAlike
  <1>3. QED
    BY <1>1, <1>2 DEF EvaluationsSound

(* One that knows all it has to know is judged, and two that have read the  *)
(* same are judged alike.                                                   *)
LEMMA EvaluationGiven ==
  ASSUME DecisionShapes, EvaluationsSound, simulation.stage = "budgets",
         NEW side \in Sides, NEW e, Evaluate(side, e),
         EvaluationSound(e, simulation[side].estimatedCostUsd),
         e.step \in {"loaded", "reading"}, e.step = "reading" => e.applicable # {},
         ~simulation.moved =>
           /\ ReadsSpend(e)
           /\ \A y \in Sides \ {side} : /\ ReadsAlike(e, simulation.budget[y])
                                        /\ ReadsAlike(simulation.budget[y], e)
  PROVE  EvaluationsSound'
  <1> DEFINE known == \A b \in e.applicable : b.budgetId \in DOMAIN e.spend
             cost == simulation[side].estimatedCostUsd
             verdict == EvaluateBudgets(e.applicable, e.spend, cost).decision
             j == IF known THEN [e EXCEPT !.step = "judged", !.decision = verdict] ELSE e
             budget == [simulation.budget EXCEPT ![side] = j]
  <1>1. /\ simulation'.budget = budget
        /\ simulation'.stage =
             IF \A x \in Sides : budget[x].step = "judged" THEN "answered" ELSE "budgets"
        /\ simulation'.current = simulation.current
        /\ simulation'.proposed = simulation.proposed
        /\ simulation'.request = simulation.request /\ simulation'.moved = simulation.moved
        /\ world' = world
    BY DEF Evaluate, DecisionShapes, SimulationFields
  <1>2. DOMAIN e = {"step", "applicable", "now", "spend", "decision"}
    BY DEF EvaluationSound
  <1> HIDE DEF verdict
  <1>3. /\ j.applicable = e.applicable /\ j.now = e.now /\ j.spend = e.spend
        /\ DOMAIN j = DOMAIN e
        /\ known => j.step = "judged" /\ j.decision = verdict
        /\ ~known => j = e
    BY <1>2
  <1> HIDE DEF j, known
  <1>4. EvaluationSound(j, cost)
    BY <1>2, <1>3 DEF EvaluationSound, verdict, known
  <1>5. HasLoaded(j) /\ HasLoaded(e) /\ (HasTime(j) <=> HasTime(e))
    BY <1>3 DEF HasLoaded, HasTime, EvaluationSound, known
  <1>6. /\ DOMAIN budget = Sides /\ budget[side] = j
        /\ \A y \in Sides \ {side} : budget[y] = simulation.budget[y]
    BY DEF EvaluationsSound
  <1> HIDE DEF budget
  <1>7. \A x \in Sides : EvaluationSound(budget[x], simulation[x].estimatedCostUsd)
    BY <1>4, <1>6 DEF EvaluationsSound
  <1>8. ASSUME ~simulation.moved
        PROVE  \A x \in Sides : /\ ReadsSpend(budget[x])
                                /\ \A y \in Sides : ReadsAlike(budget[x], budget[y])
    <2>1. ReadsSpend(j) /\ ReadsAlike(j, j)
      BY <1>3, <1>8 DEF ReadsSpend, ReadsAlike
    <2>2. ASSUME NEW y \in Sides \ {side}
          PROVE  ReadsAlike(j, budget[y]) /\ ReadsAlike(budget[y], j)
      BY <1>3, <1>5, <1>6, <1>8, <2>2 DEF ReadsAlike
    <2>3. \A x \in Sides \ {side} :
            /\ ReadsSpend(budget[x])
            /\ \A y \in Sides \ {side} : ReadsAlike(budget[x], budget[y])
      BY <1>6, <1>8 DEF EvaluationsSound
    <2>4. QED
      BY <1>6, <2>1, <2>2, <2>3
  <1>9. \A x \in Sides : simulation'[x] = simulation[x]
    BY <1>1 DEF Sides
  <1>10. CASE simulation'.stage = "budgets"
    BY <1>1, <1>6, <1>7, <1>8, <1>9, <1>10, EvaluationsStay
  <1>11. CASE simulation'.stage = "answered"
    <2>1. \A x \in Sides : budget[x].step = "judged"
      BY <1>1, <1>11
    <2> DEFINE c == budget["current"]
               p == budget["proposed"]
    <2>2. SUFFICES ASSUME ~simulation.moved,
                          simulation.proposed.estimatedCostUsd = simulation.current.estimatedCostUsd
                   PROVE  c.decision = p.decision
      BY <1>1, <1>11 DEF EvaluationsSound
    <2>3. c.step = "judged" /\ p.step = "judged" /\ ReadsAlike(c, p) /\ ReadsSpend(c) /\ ReadsSpend(p)
      BY <1>8, <2>1, <2>2 DEF Sides
    <2>4. /\ EvaluationSound(c, simulation.current.estimatedCostUsd)
          /\ EvaluationSound(p, simulation.current.estimatedCostUsd)
      BY <1>7, <2>2 DEF Sides
    <2> HIDE DEF c, p
    <2>5. /\ c.applicable = p.applicable
          /\ c.applicable # {} => c.now = p.now
      BY <2>3 DEF ReadsAlike, HasLoaded, HasTime
    <2>6. \A b \in c.applicable : c.spend[b.budgetId] = p.spend[b.budgetId]
      BY <2>3, <2>4, <2>5 DEF EvaluationSound, ReadsSpend
    <2>7. QED
      BY <2>3, <2>4, <2>5, <2>6, VerdictsAlike DEF EvaluationSound
  <1>12. QED
    BY <1>1, <1>10, <1>11

LEMMA EvaluationLoads ==
  ASSUME DecisionShapes, EvaluationsSound, NEW side \in Sides, LoadBudgets(side)
  PROVE  EvaluationsSound'
  <1> DEFINE applicable == Applicable(world.budgets, simulation.request.clientId)
             e == [NoEvaluation EXCEPT !.step = "loaded", !.applicable = applicable]
             old == simulation.budget[side]
  <1>1. simulation.stage = "budgets" /\ old.step = "loading" /\ Evaluate(side, e)
    BY DEF LoadBudgets, At
  <1>2. \A b \in applicable, c \in applicable : b.budgetId = c.budgetId => b = c
    <2>1. applicable \subseteq world.budgets /\ world.budgets \in BudgetTables
      BY DEF Applicable, DecisionShapes
    <2>2. QED
      BY <2>1, DecisionAssumption
  <1> HIDE DEF applicable
  <1>3. /\ DOMAIN e = {"step", "applicable", "now", "spend", "decision"}
        /\ e.step = "loaded" /\ e.applicable = applicable /\ DOMAIN e.spend = {}
    BY DEF NoEvaluation
  <1> HIDE DEF e, old
  <1>4. EvaluationSound(e, simulation[side].estimatedCostUsd) /\ ReadsSpend(e)
    BY <1>2, <1>3 DEF EvaluationSound, ReadsSpend
  <1>5. ~HasLoaded(old) /\ ~HasTime(old) /\ HasLoaded(e) /\ ~HasTime(e)
    BY <1>1, <1>3 DEF HasLoaded, HasTime
  <1>6. ASSUME ~simulation.moved, NEW y \in Sides \ {side}
        PROVE  ReadsAlike(e, simulation.budget[y]) /\ ReadsAlike(simulation.budget[y], e)
    <2>1. ReadsAlike(simulation.budget[y], old)
      BY <1>1, <1>6 DEF EvaluationsSound, old
    <2>2. QED
      BY <1>3, <1>5, <2>1 DEF ReadsAlike, applicable
  <1>7. QED
    BY <1>1, <1>3, <1>4, <1>6, EvaluationGiven

LEMMA SpendStarts ==
  ASSUME DecisionShapes, EvaluationsSound, NEW side \in Sides, StartSpend(side)
  PROVE  EvaluationsSound'
  <1> DEFINE old == simulation.budget[side]
             e == [old EXCEPT !.step = "reading", !.now = world.now]
             budget == [simulation.budget EXCEPT ![side] = e]
  <1>1. /\ simulation.stage = "budgets" /\ old.step = "loaded" /\ world' = world
        /\ simulation' = [simulation EXCEPT !.budget[side].step = "reading",
                                            !.budget[side].now = world.now]
    BY DEF StartSpend, At
  <1>2. /\ DOMAIN simulation.budget = Sides
        /\ EvaluationSound(old, simulation[side].estimatedCostUsd)
    BY <1>1 DEF EvaluationsSound
  <1>3. /\ simulation'.budget = budget /\ simulation'.stage = "budgets"
        /\ simulation'.current = simulation.current
        /\ simulation'.proposed = simulation.proposed
        /\ simulation'.request = simulation.request /\ simulation'.moved = simulation.moved
    BY <1>1, <1>2 DEF DecisionShapes, SimulationFields
  <1>4. /\ DOMAIN e = DOMAIN old /\ e.step = "reading" /\ e.now = world.now
        /\ e.applicable = old.applicable /\ e.spend = old.spend
    BY <1>2 DEF EvaluationSound
  <1>5. /\ DOMAIN budget = Sides /\ budget[side] = e
        /\ \A y \in Sides \ {side} : budget[y] = simulation.budget[y]
    BY <1>2
  <1> HIDE DEF old, e, budget
  <1>6. EvaluationSound(e, simulation[side].estimatedCostUsd) /\ ReadsSpend(e)
    BY <1>1, <1>2, <1>4 DEF EvaluationSound, ReadsSpend
  <1>7. HasLoaded(old) /\ ~HasTime(old) /\ HasLoaded(e) /\ HasTime(e)
    BY <1>1, <1>4 DEF HasLoaded, HasTime
  <1>8. ASSUME ~simulation.moved
        PROVE  \A x \in Sides : /\ ReadsSpend(budget[x])
                                /\ \A y \in Sides : ReadsAlike(budget[x], budget[y])
    <2>1. ReadsAlike(e, e)
      BY DEF ReadsAlike
    <2>2. ASSUME NEW y \in Sides \ {side}
          PROVE  ReadsAlike(e, budget[y]) /\ ReadsAlike(budget[y], e)
      <3>1. ReadsAlike(old, budget[y]) /\ ReadsAlike(budget[y], old)
        BY <1>1, <1>5, <1>8 DEF EvaluationsSound, old
      <3>2. QED
        BY <1>4, <1>7, <3>1 DEF ReadsAlike
    <2>3. \A x \in Sides \ {side} :
            /\ ReadsSpend(budget[x])
            /\ \A y \in Sides \ {side} : ReadsAlike(budget[x], budget[y])
      BY <1>1, <1>5, <1>8 DEF EvaluationsSound
    <2>4. QED
      BY <1>5, <1>6, <2>1, <2>2, <2>3
  <1>9. \A x \in Sides : EvaluationSound(budget[x], simulation[x].estimatedCostUsd)
    BY <1>1, <1>5, <1>6 DEF EvaluationsSound
  <1>10. \A x \in Sides : simulation'[x] = simulation[x]
    BY <1>3 DEF Sides
  <1>11. QED
    BY <1>1, <1>3, <1>5, <1>8, <1>9, <1>10, EvaluationsStay

(* Budgets of one group have spent the same.                                *)
LEMMA GroupSpendsAlike ==
  ASSUME NEW b, NEW c, SpendGroup(b) = SpendGroup(c), NEW events, NEW now
  PROVE  SpendOf(b, events, now) = SpendOf(c, events, now)
  <1>1. b.period = c.period /\ b.scope = c.scope /\ b.clientId = c.clientId
    BY DEF SpendGroup
  <1>2. QED
    BY <1>1, Zenon DEF SpendOf

LEMMA SpendRead ==
  ASSUME DecisionShapes, EvaluationsSound, NEW side \in Sides, ReadSpend(side)
  PROVE  EvaluationsSound'
  <1> DEFINE old == simulation.budget[side]
             unread == {b \in old.applicable : b.budgetId \notin DOMAIN old.spend}
             group(b) == {c \in unread : SpendGroup(c) = SpendGroup(b)}
             spend(b) == [ id \in DOMAIN old.spend \union {c.budgetId : c \in group(b)} |->
                             IF id \in DOMAIN old.spend THEN old.spend[id]
                             ELSE SpendOf(b, world.spent, old.now) ]
  <1>1. PICK b \in unread : Evaluate(side, [old EXCEPT !.spend = spend(b)])
    BY DEF ReadSpend
  <1> DEFINE e == [old EXCEPT !.spend = spend(b)]
  <1>2. simulation.stage = "budgets" /\ old.step = "reading" /\ Evaluate(side, e)
    BY <1>1 DEF ReadSpend, At
  <1>3. EvaluationSound(old, simulation[side].estimatedCostUsd)
    BY <1>2 DEF EvaluationsSound
  <1>4. /\ DOMAIN e = DOMAIN old /\ e.step = "reading" /\ e.now = old.now
        /\ e.applicable = old.applicable /\ e.spend = spend(b)
    BY <1>2, <1>3 DEF EvaluationSound
  <1>5. old.applicable # {}
    OBVIOUS
  <1> HIDE DEF old, e
  <1>6. EvaluationSound(e, simulation[side].estimatedCostUsd)
    BY <1>3, <1>4 DEF EvaluationSound
  <1>7. (HasLoaded(e) <=> HasLoaded(old)) /\ (HasTime(e) <=> HasTime(old))
    BY <1>2, <1>4 DEF HasLoaded, HasTime
  <1>8. ASSUME ~simulation.moved
        PROVE  /\ ReadsSpend(e)
               /\ \A y \in Sides \ {side} : /\ ReadsAlike(e, simulation.budget[y])
                                            /\ ReadsAlike(simulation.budget[y], e)
    <2>1. ReadsSpend(old) /\ \A y \in Sides : /\ ReadsAlike(old, simulation.budget[y])
                                              /\ ReadsAlike(simulation.budget[y], old)
      BY <1>2, <1>8 DEF EvaluationsSound, old
    <2>2. \A y \in Sides : /\ ReadsAlike(e, simulation.budget[y])
                           /\ ReadsAlike(simulation.budget[y], e)
      BY <1>4, <1>7, <2>1 DEF ReadsAlike
    <2>3. ASSUME NEW c \in old.applicable, c.budgetId \in DOMAIN spend(b)
          PROVE  spend(b)[c.budgetId] = SpendOf(c, world.spent, old.now)
      <3>1. CASE c.budgetId \in DOMAIN old.spend
        BY <2>1, <2>3, <3>1 DEF ReadsSpend
      <3>2. CASE c.budgetId \notin DOMAIN old.spend
        <4>1. PICK d \in group(b) : d.budgetId = c.budgetId
          BY <2>3, <3>2
        <4>2. d = c /\ SpendGroup(c) = SpendGroup(b)
          BY <1>3, <4>1 DEF EvaluationSound
        <4>3. spend(b)[c.budgetId] = SpendOf(b, world.spent, old.now)
          BY <2>3, <3>2
        <4>4. QED
          BY <4>2, <4>3, GroupSpendsAlike
      <3>3. QED
        BY <3>1, <3>2
    <2> HIDE DEF spend
    <2>4. QED
      BY <1>4, <2>2, <2>3 DEF ReadsSpend
  <1>9. QED
    BY <1>2, <1>4, <1>5, <1>6, <1>8, EvaluationGiven

(* The rule it becomes has an id of its own.                                *)
LEMMA ProposalCreated ==
  ASSUME DecisionShapes, SimulationSound, EvaluationsSound, CreateProposal
  PROVE  SimulationSound' /\ EvaluationsSound'
  <1>1. PICK id \in FreshIds \ {rule.ruleId : rule \in world.rules} :
          LET rule == Identified(id, simulation.proposal)
          IN  /\ world' = [world EXCEPT !.rules = @ \union {rule}]
              /\ simulation' = [simulation EXCEPT !.created = rule]
    BY DEF CreateProposal
  <1> DEFINE rule == Identified(id, simulation.proposal)
  <1>2. simulation.stage = "answered" /\ simulation.proposal \in Proposals
    BY DEF CreateProposal, SimulationSound
  <1>3. IsStored(rule) /\ rule.ruleId = id
    BY <1>2, IdentifiedIs, DecisionAssumption DEF IsStored
  <1>4. \A other \in world.rules : other.ruleId # id
    BY <1>1
  <1>5. world' = [world EXCEPT !.rules = @ \union {rule}]
        /\ simulation' = [simulation EXCEPT !.created = rule]
    BY <1>1
  <1> HIDE DEF rule
  <1>6. AreStored(world.rules \union {rule})
    BY <1>3, <1>4, StoredJoined DEF SimulationSound
  <1>7. world'.rules = world.rules \union {rule}
    BY <1>5 DEF DecisionShapes
  <1>8. /\ simulation'.created = rule
        /\ \A f \in SimulationFields \ {"created"} : simulation'[f] = simulation[f]
    BY <1>5 DEF DecisionShapes, SimulationFields
  <1>9. /\ simulation'.stage = "answered"
        /\ simulation'.rules = simulation.rules /\ simulation'.current = simulation.current
        /\ simulation'.proposed = simulation.proposed
        /\ simulation'.request = simulation.request
        /\ simulation'.snapshot = simulation.snapshot
        /\ simulation'.proposal = simulation.proposal
        /\ simulation'.moved = simulation.moved
        /\ simulation'.budget = simulation.budget
    BY <1>2, <1>8 DEF SimulationFields
  <1>10. simulation.rules \subseteq world.rules
    BY <1>2 DEF SimulationSound
  <1>11. \E i \in FreshIds : /\ rule = Identified(i, simulation.proposal)
                             /\ \A other \in simulation.rules : other.ruleId # i
    BY <1>1, <1>4, <1>10 DEF rule
  <1>12. QED
    BY <1>2, <1>6, <1>7, <1>8, <1>9, <1>10, <1>11 DEF SimulationSound, EvaluationsSound

(* What moves around a simulation leaves its decisions as they are.         *)
LEMMA SimulationStands ==
  ASSUME DecisionShapes, SimulationSound,
         BudgetChanges \/ SpendRecorded \/ ClockTicks \/ WorldMoves
  PROVE  SimulationSound'
  <1>1. world'.rules = world.rules
    BY DEF BudgetChanges, SpendRecorded, ClockTicks, WorldMoves, PricingSwitches,
           ProviderHealth, DecisionShapes
  <1>2. \A f \in SimulationFields \ {"moved"} : simulation'[f] = simulation[f]
    BY DEF BudgetChanges, SpendRecorded, ClockTicks, WorldMoves, PricingSwitches,
           ProviderHealth, DecisionShapes, SimulationFields
  <1>3. /\ simulation'.stage = simulation.stage
        /\ simulation'.rules = simulation.rules /\ simulation'.current = simulation.current
        /\ simulation'.proposed = simulation.proposed
        /\ simulation'.request = simulation.request
        /\ simulation'.snapshot = simulation.snapshot
        /\ simulation'.proposal = simulation.proposal
        /\ simulation'.created = simulation.created
    BY <1>2 DEF SimulationFields
  <1>4. QED
    BY <1>1, <1>3 DEF SimulationSound

(* What moves between two evaluations that it tells apart is noted.         *)
LEMMA EvaluationsStand ==
  ASSUME DecisionShapes, EvaluationsSound,
         BudgetChanges \/ SpendRecorded \/ ClockTicks \/ WorldMoves
  PROVE  EvaluationsSound'
  <1> DEFINE current == simulation.budget.current
             proposed == simulation.budget.proposed
  <1>1. \A f \in SimulationFields \ {"moved"} : simulation'[f] = simulation[f]
    BY DEF BudgetChanges, SpendRecorded, ClockTicks, WorldMoves, PricingSwitches,
           ProviderHealth, DecisionShapes, SimulationFields
  <1>2. /\ simulation'.stage = simulation.stage /\ simulation'.budget = simulation.budget
        /\ simulation'.request = simulation.request
        /\ simulation'.current = simulation.current
        /\ simulation'.proposed = simulation.proposed
    BY <1>1 DEF SimulationFields
  <1>3. \A x \in Sides : simulation'[x] = simulation[x]
    BY <1>2 DEF Sides
  <1>4. ~simulation'.moved => ~simulation.moved
    BY DEF BudgetChanges, SpendRecorded, ClockTicks, WorldMoves, PricingSwitches,
           ProviderHealth, DecisionShapes, SimulationFields
  <1>5. ASSUME simulation.stage = "budgets", ~simulation'.moved,
               NEW x \in Sides, NEW y \in Sides
        PROVE  ReadsSpend(simulation.budget[x])'
                 /\ ReadsAlike(simulation.budget[x], simulation.budget[y])'
    <2> DEFINE e == simulation.budget[x]
               f == simulation.budget[y]
    <2>1. ReadsSpend(e) /\ ReadsAlike(e, f)
      BY <1>4, <1>5 DEF EvaluationsSound
    <2>2. e' = e /\ f' = f
      BY <1>2
    <2>3. x \in {"current", "proposed"} /\ y \in {"current", "proposed"}
      BY DEF Sides
    <2>4. world'.budgets # world.budgets => (HasLoaded(e) <=> HasLoaded(f))
      <3>1. world'.budgets # world.budgets => (HasLoaded(current) <=> HasLoaded(proposed))
        BY <1>5 DEF BudgetChanges, SpendRecorded, ClockTicks, WorldMoves, PricingSwitches,
                    ProviderHealth, DecisionShapes, SimulationFields
      <3>2. QED
        BY <2>3, <3>1
    <2>5. world'.now # world.now => (HasTime(e) <=> HasTime(f))
      <3>1. world'.now # world.now => (HasTime(current) <=> HasTime(proposed))
        BY <1>5 DEF BudgetChanges, SpendRecorded, ClockTicks, WorldMoves, PricingSwitches,
                    ProviderHealth, DecisionShapes, SimulationFields
      <3>2. QED
        BY <2>3, <3>1
    <2>6. world'.spent # world.spent => DOMAIN e.spend = {}
      BY <1>5 DEF BudgetChanges, SpendRecorded, ClockTicks, WorldMoves, PricingSwitches,
                  ProviderHealth, DecisionShapes, SimulationFields
    <2> HIDE DEF e, f
    <2>7. ReadsSpend(e)'
      BY <2>1, <2>2, <2>6 DEF ReadsSpend
    <2>8. ReadsAlike(e, f)'
      BY <1>2, <2>1, <2>2, <2>4, <2>5 DEF ReadsAlike, HasLoaded, HasTime
    <2>9. QED
      BY <2>7, <2>8 DEF e, f
  <1>6. QED
    BY <1>2, <1>3, <1>4, <1>5 DEF EvaluationsSound

-----------------------------------------------------------------------------
(* What is decided now.                                                     *)

LEMMA DecisionHasSource ==
  ASSUME NEW request, NEW rules, NEW snapshot,
         IsDecision(ResolveRoutingDecision(request, rules, snapshot))
  PROVE  LET decision == ResolveRoutingDecision(request, rules, snapshot)
         IN  /\ decision.decisionSource \in {"operator_rule", "client_override", "autopilot"}
             /\ decision.decisionSource = "autopilot" =>
                  decision = DecideRoute(request, snapshot.models, snapshot.pricingTable)
  <1> DEFINE res == ResolveOverride(request, rules)
             decision == ResolveRoutingDecision(request, rules, snapshot)
  <1>1. decision = BuildRoutingDecision(request, res, snapshot)
    BY Zenon DEF ResolveRoutingDecision
  <1>2. /\ res.effectiveSource \in {"operator_rule", "client_override", "autopilot"}
        /\ res.effectiveSource = "autopilot" => ~Given(res.pin)
    BY ResolutionIs, Zenon
  <1> HIDE DEF res, decision
  <1>3. CASE Given(res.pin)
    <2>1. decision.decisionSource = res.effectiveSource
      BY <1>1, <1>3, PinnedDecision DEF decision
    <2>2. QED
      BY <1>2, <1>3, <2>1 DEF decision
  <1>4. CASE ~Given(res.pin)
    <2>1. decision = DecideRoute(request, snapshot.models, snapshot.pricingTable)
      BY <1>1, <1>4, Zenon DEF BuildRoutingDecision
    <2>2. decision.decisionSource = "autopilot"
      BY <2>1, AutopilotDecision DEF decision
    <2>3. QED
      BY <2>1, <2>2 DEF decision
  <1>5. QED
    BY <1>3, <1>4

(* A record of one is sound: its catalog has priced models only.            *)
LEMMA EventRecorded ==
  ASSUME ReplaySound, NEW request, NEW counted, RecordCompletion(request, counted)
  PROVE  ReplaySound'
  <1> DEFINE outcome == ResolveRoutingDecision(request, world.rules, CatalogNow)
  <1>1. /\ event = Null /\ IsDecision(outcome)
        /\ event' = [ decision |-> outcome, aggregatedInputTokens |-> counted,
                      clientId |-> request.clientId,
                      catalog |-> CatalogNow, request |-> request ]
        /\ replay' = replay
    BY DEF RecordCompletion
  <1>2. replay.stage \notin {"reading", "answered"}
    BY <1>1 DEF ReplaySound, Given
  <1>3. /\ outcome.decisionSource \in {"operator_rule", "client_override", "autopilot"}
        /\ outcome.decisionSource = "autopilot" =>
             outcome = DecideRoute(request, CatalogNow.models, CatalogNow.pricingTable)
    BY <1>1, DecisionHasSource
  <1>4. \A i \in DOMAIN CatalogNow.models :
          Prices(CatalogNow.pricingTable, CatalogNow.models[i]) # {}
    BY DEF CatalogNow, BuildCatalog
  <1> HIDE DEF outcome
  <1>5. /\ event'.decision = outcome /\ event'.catalog = CatalogNow /\ event'.request = request
    BY <1>1
  <1>6. EventSound'
    BY <1>1, <1>3, <1>4, <1>5 DEF EventSound
  <1>7. QED
    BY <1>1, <1>2, <1>6 DEF ReplaySound, ReplayReproduces, ReplayPageIsTrue

LEMMA ReplayIsRead ==
  ASSUME ReplaySound, ReplayReads
  PROVE  ReplaySound'
  <1>1. event' = event /\ Given(event) /\ replay'.stage = "reading"
    BY DEF ReplayReads, NoReplay
  <1>2. QED
    BY <1>1 DEF ReplaySound, EventSound, ReplayReproduces, ReplayPageIsTrue

(* On the catalog of the recorded decision, the autopilot decides the same. *)
LEMMA ReplayIsTheSame ==
  ASSUME ReplaySound, replay.stage = "reading",
         replay.snapshot = event.catalog, Rebuilt = [event.request EXCEPT !.override = Null]
  PROVE  ReplayedDecision = event.decision
  <1> DEFINE catalog == event.catalog
  <1>1. /\ IsDecision(event.decision)
        /\ event.decision.decisionSource = "autopilot" =>
             event.decision = DecideRoute(event.request, catalog.models, catalog.pricingTable)
        /\ \A i \in DOMAIN catalog.models : Prices(catalog.pricingTable, catalog.models[i]) # {}
    BY DEF ReplaySound, EventSound
  <1>2. CASE event.decision.decisionSource # "autopilot"
    BY <1>2, Zenon DEF ReplayedDecision
  <1>3. CASE event.decision.decisionSource = "autopilot"
    <2>1. event.decision = DecideRoute(event.request, catalog.models, catalog.pricingTable)
      BY <1>1, <1>3
    <2>2. event.decision.pricingTableVersionId = catalog.pricingTable.versionId
      BY <1>1, <2>1, AutopilotDecision
    <2>3. ReplayTable = catalog.pricingTable
      BY <2>2 DEF ReplayTable
    <2>4. /\ Rebuilt.requiredCapabilities = event.request.requiredCapabilities
          /\ Rebuilt.estimatedInputTokens = event.request.estimatedInputTokens
          /\ Rebuilt.maxLatencyMs = event.request.maxLatencyMs
          /\ Rebuilt.minQualityTier = event.request.minQualityTier
      <3> DEFINE fields == { "clientId", "requiredCapabilities", "maxLatencyMs", "minQualityTier",
                             "override", "estimatedInputTokens" }
      <3>1. DOMAIN Rebuilt = fields
        BY DEF Rebuilt
      <3>2. DOMAIN event.request = fields
        BY <3>1
      <3>3. QED
        BY <3>2
    <2>5. DecideRoute(Rebuilt, catalog.models, catalog.pricingTable)
            = DecideRoute(event.request, catalog.models, catalog.pricingTable)
      <3>1. \A q, r :
              /\ q.requiredCapabilities = r.requiredCapabilities
              /\ q.estimatedInputTokens = r.estimatedInputTokens
              /\ q.maxLatencyMs = r.maxLatencyMs
              /\ q.minQualityTier = r.minQualityTier
              => DecideRoute(q, catalog.models, catalog.pricingTable)
                   = DecideRoute(r, catalog.models, catalog.pricingTable)
        BY DecidedAlike
      <3>2. QED
        BY <2>4, <3>1, Zenon
    <2>6. ReplayedDecision = IF \A i \in DOMAIN replay.snapshot.models :
                                  Prices(ReplayTable, replay.snapshot.models[i]) # {}
                               THEN DecideRoute(Rebuilt, replay.snapshot.models, ReplayTable)
                               ELSE Failure("unpriced_model")
      BY <1>3, Zenon DEF ReplayedDecision
    <2>7. ReplayedDecision = DecideRoute(Rebuilt, catalog.models, catalog.pricingTable)
      BY <1>1, <2>3, <2>6
    <2>8. QED
      BY <2>1, <2>5, <2>7
  <1>4. QED
    BY <1>2, <1>3

LEMMA ReplayIsAnswered ==
  ASSUME DecisionShapes, ReplaySound, ReplayAnswers
  PROVE  ReplaySound'
  <1> DEFINE replayed == ReplayedDecision
  <1>1. /\ event' = event /\ replay.stage = "reading" /\ Given(event)
        /\ replay' = [replay EXCEPT !.stage = "answered", !.replayed = replayed,
             !.matches = IsDecision(replayed) /\ ChosenOf(replayed) = ChosenOf(event.decision)]
    BY DEF ReplayAnswers, ReplaySound
  <1>2. /\ IsDecision(event.decision)
        /\ event.decision.decisionSource \in {"operator_rule", "client_override", "autopilot"}
    BY <1>1 DEF ReplaySound, EventSound
  <1>3. event.decision.decisionSource # "autopilot" => replayed = event.decision
    BY Zenon DEF ReplayedDecision
  <1>4. /\ replay.snapshot = event.catalog
        /\ Rebuilt = [event.request EXCEPT !.override = Null]
        => replayed = event.decision
    BY <1>1, ReplayIsTheSame
  <1> HIDE DEF replayed
  <1>5. /\ replay'.stage = "answered" /\ replay'.replayed = replayed
        /\ replay'.snapshot = replay.snapshot
        /\ replay'.matches = (IsDecision(replayed) /\ ChosenOf(replayed) = ChosenOf(event.decision))
    BY <1>1 DEF DecisionShapes
  <1>6. Rebuilt' = Rebuilt
    BY <1>1 DEF Rebuilt
  <1>7. ReplayReproduces'
    <2>1. SUFFICES ASSUME replay.snapshot = event.catalog,
                          Rebuilt = [event.request EXCEPT !.override = Null]
                   PROVE  replay'.matches
      BY <1>1, <1>5, <1>6 DEF ReplayReproduces
    <2>2. replayed = event.decision
      BY <1>4, <2>1
    <2>3. QED
      BY <1>2, <1>5, <2>2
  <1>8. ReplayPageIsTrue'
    <2> DEFINE comparison == DeriveReplayComparison(event.decision, replayed, replay'.matches)
               banner == StatusBanner(comparison)
    <2>1. comparison.kind = IF ~IsDecision(replayed) THEN "error"
             ELSE IF event.decision.decisionSource \in {"operator_rule", "client_override"}
                    THEN "passthrough" ELSE "scored"
      BY DEF DeriveReplayComparison
    <2>2. comparison.drift = (IsDecision(replayed) /\ ~replay'.matches)
      BY DEF DeriveReplayComparison
    <2> HIDE DEF comparison
    <2>3. /\ comparison.kind = "error" => banner = "replay error"
          /\ comparison.kind = "passthrough" => banner = "deterministic passthrough"
          /\ comparison.kind = "scored" =>
               banner = IF comparison.drift THEN "drift" ELSE "match"
      BY DEF StatusBanner
    <2> HIDE DEF banner
    <2>4. (banner = "replay error") = ~IsDecision(replayed)
      BY <2>1, <2>3
    <2>5. IsDecision(replayed) =>
            ((banner = "drift") = (ChosenOf(replayed) # ChosenOf(event.decision)))
      BY <1>2, <1>3, <1>5, <2>1, <2>2, <2>3
    <2>6. banner = "deterministic passthrough" => replayed = event.decision
      BY <1>2, <1>3, <2>1, <2>3
    <2>7. event.decision.decisionSource # "autopilot" => banner = "deterministic passthrough"
      BY <1>2, <1>3, <2>1, <2>3
    <2>8. QED
      BY <1>1, <1>5, <2>4, <2>5, <2>6, <2>7 DEF ReplayPageIsTrue, comparison, banner
  <1>9. EventSound'
    BY <1>1 DEF ReplaySound, EventSound
  <1>10. QED
    BY <1>1, <1>5, <1>7, <1>8, <1>9 DEF ReplaySound

LEMMA DecisionStep ==
  DecisionInv /\ [SimulationNext \/ ReplayNext]_decisionVars => DecisionInv'
  <1> SUFFICES ASSUME DecisionInv, [SimulationNext \/ ReplayNext]_decisionVars
               PROVE  DecisionInv'
    OBVIOUS
  <1>1. DecisionShapes /\ SimulationSound /\ EvaluationsSound /\ ReplaySound
    BY DEF DecisionInv
  <1>2. DecisionShapes'
    BY <1>1, ShapesStep
  <1>3. UNCHANGED << world, simulation >> => SimulationSound' /\ EvaluationsSound'
    BY <1>1 DEF SimulationSound, EvaluationsSound, ReadsAlike, ReadsSpend
  <1>4. UNCHANGED << event, replay >> => ReplaySound'
    BY <1>1 DEF ReplaySound, EventSound, ReplayReproduces, Rebuilt, ReplayPageIsTrue
  <1>5. CASE UNCHANGED decisionVars
    BY <1>2, <1>3, <1>4, <1>5 DEF decisionVars, DecisionInv
  <1>6. CASE SimulationNext
    <2>1. UNCHANGED << event, replay >>
      <3>1. ASSUME NEW side \in Sides, LoadBudgets(side) \/ StartSpend(side) \/ ReadSpend(side)
            PROVE  UNCHANGED << event, replay >>
        BY <3>1 DEF LoadBudgets, StartSpend, ReadSpend, Evaluate
      <3>2. QED
        BY <1>6, <3>1 DEF SimulationNext, Simulate, SimulationCatalog, SimulationRules,
             CreateProposal, BudgetChanges, SpendRecorded, ClockTicks, WorldMoves,
             PricingSwitches, ProviderHealth
    <2>2. SimulationSound' /\ EvaluationsSound'
      BY <1>1, <1>6, SimulationDecides, SimulationJudges, EvaluationLoads, SpendStarts, SpendRead,
         ProposalCreated, SimulationStands, EvaluationsStand
      DEF SimulationNext
    <2>3. QED
      BY <1>2, <1>4, <2>1, <2>2 DEF DecisionInv
  <1>7. ASSUME NEW request, NEW counted, RecordCompletion(request, counted)
        PROVE  DecisionInv'
    <2>1. UNCHANGED << world, simulation >>
      BY <1>7 DEF RecordCompletion
    <2>2. QED
      BY <1>1, <1>2, <1>3, <1>7, <2>1, EventRecorded DEF DecisionInv
  <1>8. CASE ReplayReads \/ ReplayAnswers
    <2>1. UNCHANGED << world, simulation >>
      BY <1>8 DEF ReplayReads, ReplayAnswers
    <2>2. QED
      BY <1>1, <1>2, <1>3, <1>8, <2>1, ReplayIsRead, ReplayIsAnswered DEF DecisionInv
  <1>9. CASE WorldMoves
    BY <1>6, <1>9 DEF SimulationNext
  <1>10. QED
    BY <1>5, <1>6, <1>7, <1>8, <1>9 DEF ReplayNext

-----------------------------------------------------------------------------
(* What a simulation says of its proposal.                                  *)

(* A proposal that governs, or is behind a rule that governs already.       *)
LEMMA ProposalGoverns ==
  ASSUME NEW request, NEW rules, AreStored(rules), NEW proposal, IsRoutingRule(proposal),
         NEW id \in Int, \A rule \in rules : rule.ruleId # id
  PROVE  LET r == Identified(id, proposal)
             m == Matching(request, rules)
             with == ResolveOverride(request, rules \union {r})
             without == ResolveOverride(request, rules)
         IN  /\ ~MatchesRule(r, request) => with = without
             /\ MatchesRule(r, request) /\ (m = {} \/ Precedes(r, Governing(m))) =>
                  /\ with.effectiveSource = "operator_rule" /\ with.matchedRuleId = id
                  /\ with.pin = proposal.pin
                  /\ with.shadowedSource =
                       IF Given(request.override) THEN "client_override" ELSE Null
             /\ MatchesRule(r, request) /\ m # {} /\ ~Precedes(r, Governing(m)) =>
                  /\ with = without /\ Precedes(Governing(m), r)
  <1> DEFINE r == Identified(id, proposal)
             m == Matching(request, rules)
             joined == Matching(request, rules \union {r})
             with == ResolveOverride(request, rules \union {r})
             without == ResolveOverride(request, rules)
  <1>1. r.ruleId = id /\ r.priority \in Int /\ r.pin = proposal.pin
    BY IdentifiedIs DEF IsRoutingRule
  <1>2. joined = IF MatchesRule(r, request) THEN m \union {r} ELSE m
    BY MatchingJoined
  <1>3. AreStored(m) /\ \A rule \in m : rule.ruleId # id
    BY MatchingStored DEF Matching
  <1>4. /\ joined # {} =>
             /\ with.effectiveSource = "operator_rule"
             /\ with.shadowedSource = IF Given(request.override) THEN "client_override" ELSE Null
             /\ with.pin = Governing(joined).pin /\ with.matchedRuleId = Governing(joined).ruleId
    BY ResolutionIs
  <1>5. /\ joined = m => with = without
        /\ joined # {} /\ m # {} /\ Governing(joined) = Governing(m) => with = without
    BY DEF ResolveOverride
  <1> HIDE DEF r, m, joined, with, without
  <1>6. m # {} => /\ Precedes(r, Governing(m)) => Governing(m \union {r}) = r
                  /\ ~Precedes(r, Governing(m)) =>
                       /\ Governing(m \union {r}) = Governing(m)
                       /\ Precedes(Governing(m), r)
    BY <1>1, <1>3, GoverningJoined
  <1>7. Governing({r}) = r
    BY GoverningOne
  <1>8. ~MatchesRule(r, request) => with = without
    BY <1>2, <1>5
  <1>9. ASSUME MatchesRule(r, request), m = {} \/ Precedes(r, Governing(m))
        PROVE  /\ with.effectiveSource = "operator_rule" /\ with.matchedRuleId = id
               /\ with.pin = proposal.pin
               /\ with.shadowedSource = IF Given(request.override) THEN "client_override" ELSE Null
    <2>1. Governing(m \union {r}) = r
      BY <1>6, <1>7, <1>9
    <2>2. joined = m \union {r}
      BY <1>2, <1>9
    <2>3. QED
      BY <1>1, <1>4, <2>1, <2>2
  <1>10. ASSUME MatchesRule(r, request), m # {}, ~Precedes(r, Governing(m))
         PROVE  with = without /\ Precedes(Governing(m), r)
    BY <1>2, <1>5, <1>6, <1>10
  <1>11. QED
    BY <1>8, <1>9, <1>10 DEF r, m, with, without

LEMMA SimulationHolds == DecisionInv => SimulationForetells
  <1> SUFFICES ASSUME DecisionInv, simulation.stage = "answered" PROVE SimulationForetells
    BY DEF SimulationForetells
  <1> DEFINE s == simulation
             r == ProposedRule
             m == Matching(s.request, s.rules)
             with == ResolveOverride(s.request, s.rules \union {r})
             without == ResolveOverride(s.request, s.rules)
  <1>1. /\ AreStored(s.rules) /\ s.proposal \in Proposals
        /\ s.current = ResolveRoutingDecision(s.request, s.rules, s.snapshot)
        /\ s.proposed = ResolveRoutingDecision(s.request, s.rules \union {r}, s.snapshot)
        /\ IsDecision(s.current) /\ IsDecision(s.proposed)
        /\ Given(s.created) => \E id \in FreshIds :
             /\ s.created = Identified(id, s.proposal)
             /\ \A rule \in s.rules : rule.ruleId # id
        /\ /\ ~s.moved
           /\ s.proposed.estimatedCostUsd = s.current.estimatedCostUsd
           => s.budget.current.decision = s.budget.proposed.decision
    BY DEF DecisionInv, SimulationSound, EvaluationsSound, ProposedRule
  <1>2. IsRoutingRule(s.proposal)
    BY <1>1, DecisionAssumption
  <1>3. /\ SimulationRuleId \in Int /\ \A rule \in s.rules : rule.ruleId # SimulationRuleId
        /\ \A rule \in s.rules : rule.ruleId \in Int /\ rule.ruleId > SimulationRuleId
        /\ \A rule \in s.rules : rule.priority \in Int
    BY <1>1 DEF AreStored, IsStored, IsRoutingRule, SimulationRuleId
  <1>4. /\ s.current = BuildRoutingDecision(s.request, without, s.snapshot)
        /\ s.proposed = BuildRoutingDecision(s.request, with, s.snapshot)
    BY <1>1, Zenon DEF ResolveRoutingDecision
  <1>5. ProposedResolution = with /\ MatchesRequest = MatchesRule(r, s.request)
    BY DEF ProposedResolution, Simulated, MatchesRequest
  <1>6. /\ ~MatchesRule(r, s.request) => with = without
        /\ MatchesRule(r, s.request) /\ (m = {} \/ Precedes(r, Governing(m))) =>
             /\ with.effectiveSource = "operator_rule" /\ with.matchedRuleId = SimulationRuleId
             /\ with.pin = s.proposal.pin
             /\ with.shadowedSource = IF Given(s.request.override) THEN "client_override" ELSE Null
        /\ MatchesRule(r, s.request) /\ m # {} /\ ~Precedes(r, Governing(m)) =>
             with = without /\ Precedes(Governing(m), r)
    BY <1>1, <1>2, <1>3, ProposalGoverns DEF ProposedRule
  <1>7. /\ m # {} => /\ without.effectiveSource = "operator_rule"
                     /\ without.matchedRuleId = Governing(m).ruleId
        /\ m = {} => without.effectiveSource # "operator_rule"
    BY ResolutionIs
  <1>8. m # {} => Governing(m) \in s.rules
    <2>1. AreStored(m) /\ m \subseteq s.rules
      BY <1>1, MatchingStored DEF Matching
    <2>2. QED
      BY <2>1, GoverningExists
  <1>9. r.ruleId = SimulationRuleId /\ r.priority = s.proposal.priority /\ r.priority \in Int
        /\ r.pin = s.proposal.pin
    BY <1>2, IdentifiedIs DEF ProposedRule, IsRoutingRule
  <1> HIDE DEF s, r, m, with, without
  <1>10. Effective = (/\ MatchesRule(r, s.request)
                      /\ m = {} \/ Precedes(r, Governing(m)))
    <2>1. Effective = ( /\ with.effectiveSource = "operator_rule"
                        /\ with.matchedRuleId = SimulationRuleId )
      BY <1>5, Zenon DEF Effective
    <2>2. m # {} => Governing(m).ruleId # SimulationRuleId
      BY <1>3, <1>8
    <2>3. with = without => ~Effective
      BY <1>7, <2>1, <2>2
    <2>4. QED
      BY <1>6, <2>1, <2>3
  <1>11. ~Effective => with = without
    BY <1>6, <1>10
  <1>12. ASSUME Effective
         PROVE  /\ MatchesRequest
                /\ LET target == PinTarget(s.proposal.pin, s.snapshot)
                   IN  ChosenOf(s.proposed) = << target.providerId, target.modelId >>
    <2>1. with.pin = s.proposal.pin /\ MatchesRequest
      BY <1>5, <1>6, <1>10, <1>12
    <2>2. Given(with.pin)
      BY <1>2, <2>1 DEF IsRoutingRule
    <2>3. IsDecision(BuildRoutingDecision(s.request, with, s.snapshot))
      BY <1>1, <1>4
    <2>4. LET target == PinTarget(with.pin, s.snapshot)
          IN  ChosenOf(BuildRoutingDecision(s.request, with, s.snapshot))
                = << target.providerId, target.modelId >>
      BY <2>2, <2>3, PinnedDecision
    <2>5. QED
      BY <1>4, <2>1, <2>4
  <1>13. ASSUME MatchesRequest, ~Effective
         PROVE  /\ \E rule \in s.rules :
                     rule.ruleId = ShadowedByRuleId /\ rule.priority < s.proposal.priority
                /\ without.matchedRuleId = ShadowedByRuleId
    <2>1. m # {} /\ ~Precedes(r, Governing(m)) /\ Precedes(Governing(m), r)
      BY <1>5, <1>6, <1>10, <1>13
    <2>2. with = without /\ with.effectiveSource = "operator_rule"
          /\ with.matchedRuleId = Governing(m).ruleId
      BY <1>7, <1>11, <1>13, <2>1
    <2>3. ShadowedByRuleId = Governing(m).ruleId
      BY <1>5, <1>13, <2>2, Zenon DEF ShadowedByRuleId
    <2>4. Governing(m).priority < s.proposal.priority
      BY <1>3, <1>8, <1>9, <2>1 DEF Precedes
    <2>5. QED
      BY <1>8, <2>1, <2>2, <2>3, <2>4
  <1>14. ~Effective => s.proposed = s.current
    BY <1>4, <1>11
  <1>15. BudgetOutcomeChanged =>
           s.proposed.estimatedCostUsd # s.current.estimatedCostUsd \/ s.moved
    BY <1>1 DEF BudgetOutcomeChanged, s
  <1>16. ASSUME Given(s.created), \A rule \in s.rules : rule.priority # s.proposal.priority
         PROVE  ResolveRoutingDecision(s.request, s.rules \union {s.created}, s.snapshot)
                  = s.proposed
    <2>1. PICK id \in FreshIds : /\ s.created = Identified(id, s.proposal)
                                 /\ \A rule \in s.rules : rule.ruleId # id
      BY <1>1, <1>16
    <2> DEFINE c == s.created
               then == ResolveOverride(s.request, s.rules \union {c})
    <2>2. id \in Int /\ id > SimulationRuleId
      BY DecisionAssumption
    <2>3. /\ c.ruleId = id /\ c.priority = s.proposal.priority
          /\ MatchesRule(c, s.request) <=> MatchesRule(r, s.request)
      BY <1>2, <2>1, IdentifiedIs DEF r, s, ProposedRule
    <2>4. /\ ~MatchesRule(c, s.request) => then = without
          /\ MatchesRule(c, s.request) /\ (m = {} \/ Precedes(c, Governing(m))) =>
               /\ then.effectiveSource = "operator_rule"
               /\ then.pin = s.proposal.pin
               /\ then.shadowedSource =
                    IF Given(s.request.override) THEN "client_override" ELSE Null
          /\ MatchesRule(c, s.request) /\ m # {} /\ ~Precedes(c, Governing(m)) => then = without
      BY <1>1, <1>2, <2>1, <2>2, ProposalGoverns DEF m, without
    <2> HIDE DEF c, then
    <2>5. m # {} => (Precedes(c, Governing(m)) <=> Precedes(r, Governing(m)))
      <3>1. m # {} => Governing(m).priority # s.proposal.priority
        BY <1>8, <1>16
      <3>2. QED
        BY <1>9, <2>3, <3>1 DEF Precedes
    <2>6. then.pin = with.pin /\ then.effectiveSource = with.effectiveSource
          /\ then.shadowedSource = with.shadowedSource
      BY <1>6, <2>3, <2>4, <2>5
    <2>7. BuildRoutingDecision(s.request, then, s.snapshot)
            = BuildRoutingDecision(s.request, with, s.snapshot)
      BY <2>6, BuiltAlike
    <2>8. ResolveRoutingDecision(s.request, s.rules \union {s.created}, s.snapshot)
            = BuildRoutingDecision(s.request, then, s.snapshot)
      BY Zenon DEF ResolveRoutingDecision, then, c
    <2>9. QED
      BY <1>4, <2>7, <2>8
  <1>17. QED
    BY <1>12, <1>13, <1>14, <1>15, <1>16 DEF SimulationForetells, s, without

(* A replay is sound by the invariant itself.                               *)
LEMMA DecisionsForetell ==
  DecisionInv => SimulationForetells /\ ReplayReproduces /\ ReplayPageIsTrue
  BY SimulationHolds DEF DecisionInv, ReplaySound

(* Time is bounded as the moves are, and ids are unique.                    *)
LEMMA DecisionsHold == DecisionInv => DecisionTypeOK
  BY DecisionAssumption DEF DecisionInv, DecisionShapes, DecisionTypeOK

-----------------------------------------------------------------------------
(* The invariants of the parts, side by side.                               *)
PartsInv ==
  /\ part \in Parts
  /\ KeysInv /\ HealthInv /\ ConfigInv /\ RulePageInv /\ KeysPageInv /\ CliInv
  /\ StreamInv /\ HooksInv /\ BrowserInv /\ ReportsInv /\ AlertInv /\ BudgetLoopInv
  /\ AdaptersInv /\ DecisionInv /\ SmokeInv /\ TriggerInv

(* Every part begins in one of its own initial states.                      *)
LEMMA InitHolds == Init => PartsInv
  <1>1. Init =>
          /\ part \in Parts
          /\ KeysInit /\ HealthInit /\ ConfigInit /\ RulePageInit /\ KeysPageInit
          /\ CliInit /\ StreamInit /\ HooksInit /\ BrowserInit /\ ReportsInit
          /\ AlertsInit /\ BudgetLoopInit /\ AdaptersInit /\ DecisionInit
          /\ SmokeInit /\ TriggerInit
    BY DEF Init
  <1>2. QED
    BY <1>1, KeysInitHolds, HealthInitHolds, ConfigInitHolds, RulePageInitHolds,
       KeysPageInitHolds, CliInitHolds, StreamInitHolds, HooksInitHolds,
       BrowserInitHolds, ReportsInitHolds, AlertInitHolds, AdaptersInitHolds,
       DecisionInitHolds, SmokeInitHolds, TriggerInitHolds DEF PartsInv

(* A step of the whole is a step of each of them, or leaves it as it is.     *)
LEMMA PartsApart ==
  [Next]_vars =>
    /\ part' = part
    /\ [KeysNext]_keyVars
    /\ [HealthNext]_healthVars
    /\ [ConfigNext]_configVars
    /\ [RulePageNext]_rulePageVars
    /\ [KeysPageNext]_keysPageVars
    /\ [CliNext]_cliVars
    /\ [StreamNext]_streamVars
    /\ [HooksNext]_hookVars
    /\ [BrowserNext]_browserVars
    /\ [ReportsNext]_reportVars
    /\ [AlertsNext]_alertVars
    /\ [BudgetLoopNext]_budgetLoopVars
    /\ [AdaptersNext]_adapterVars
    /\ [SimulationNext \/ ReplayNext]_decisionVars
    /\ [SmokeNext]_smokeVars
    /\ [TriggerNext]_triggerVars
  <1>1. UNCHANGED vars =>
          /\ part' = part
          /\ [KeysNext]_keyVars
          /\ [HealthNext]_healthVars
          /\ [ConfigNext]_configVars
          /\ [RulePageNext]_rulePageVars
          /\ [KeysPageNext]_keysPageVars
          /\ [CliNext]_cliVars
          /\ [StreamNext]_streamVars
          /\ [HooksNext]_hookVars
          /\ [BrowserNext]_browserVars
          /\ [ReportsNext]_reportVars
          /\ [AlertsNext]_alertVars
          /\ [BudgetLoopNext]_budgetLoopVars
          /\ [AdaptersNext]_adapterVars
          /\ [SimulationNext \/ ReplayNext]_decisionVars
          /\ [SmokeNext]_smokeVars
          /\ [TriggerNext]_triggerVars
    BY DEF vars
  <1>2. Next => part' = part
    BY DEF Next, KeysMove, HealthMove, ConfigMove, RulePageMove, KeysPageMove,
           CliMove, StreamMove, HooksMove, BrowserMove, ReportsMove, AlertsMove,
           BudgetLoopMove, AdaptersMove, SimulationsMove, ReplaysMove, SmokeMove,
           TriggerMove
  <1>3. Next => [KeysNext]_keyVars
    BY DEF Next, KeysMove, HealthMove, ConfigMove, RulePageMove, KeysPageMove,
           CliMove, StreamMove, HooksMove, BrowserMove, ReportsMove, AlertsMove,
           BudgetLoopMove, AdaptersMove, SimulationsMove, ReplaysMove, SmokeMove,
           TriggerMove
  <1>4. Next => [HealthNext]_healthVars
    BY DEF Next, KeysMove, HealthMove, ConfigMove, RulePageMove, KeysPageMove,
           CliMove, StreamMove, HooksMove, BrowserMove, ReportsMove, AlertsMove,
           BudgetLoopMove, AdaptersMove, SimulationsMove, ReplaysMove, SmokeMove,
           TriggerMove
  <1>5. Next => [ConfigNext]_configVars
    BY DEF Next, KeysMove, HealthMove, ConfigMove, RulePageMove, KeysPageMove,
           CliMove, StreamMove, HooksMove, BrowserMove, ReportsMove, AlertsMove,
           BudgetLoopMove, AdaptersMove, SimulationsMove, ReplaysMove, SmokeMove,
           TriggerMove
  <1>6. Next => [RulePageNext]_rulePageVars
    BY DEF Next, KeysMove, HealthMove, ConfigMove, RulePageMove, KeysPageMove,
           CliMove, StreamMove, HooksMove, BrowserMove, ReportsMove, AlertsMove,
           BudgetLoopMove, AdaptersMove, SimulationsMove, ReplaysMove, SmokeMove,
           TriggerMove
  <1>7. Next => [KeysPageNext]_keysPageVars
    BY DEF Next, KeysMove, HealthMove, ConfigMove, RulePageMove, KeysPageMove,
           CliMove, StreamMove, HooksMove, BrowserMove, ReportsMove, AlertsMove,
           BudgetLoopMove, AdaptersMove, SimulationsMove, ReplaysMove, SmokeMove,
           TriggerMove
  <1>8. Next => [CliNext]_cliVars
    BY DEF Next, KeysMove, HealthMove, ConfigMove, RulePageMove, KeysPageMove,
           CliMove, StreamMove, HooksMove, BrowserMove, ReportsMove, AlertsMove,
           BudgetLoopMove, AdaptersMove, SimulationsMove, ReplaysMove, SmokeMove,
           TriggerMove
  <1>9. Next => [StreamNext]_streamVars
    BY DEF Next, KeysMove, HealthMove, ConfigMove, RulePageMove, KeysPageMove,
           CliMove, StreamMove, HooksMove, BrowserMove, ReportsMove, AlertsMove,
           BudgetLoopMove, AdaptersMove, SimulationsMove, ReplaysMove, SmokeMove,
           TriggerMove
  <1>10. Next => [HooksNext]_hookVars
    BY DEF Next, KeysMove, HealthMove, ConfigMove, RulePageMove, KeysPageMove,
           CliMove, StreamMove, HooksMove, BrowserMove, ReportsMove, AlertsMove,
           BudgetLoopMove, AdaptersMove, SimulationsMove, ReplaysMove, SmokeMove,
           TriggerMove
  <1>11. Next => [BrowserNext]_browserVars
    BY DEF Next, KeysMove, HealthMove, ConfigMove, RulePageMove, KeysPageMove,
           CliMove, StreamMove, HooksMove, BrowserMove, ReportsMove, AlertsMove,
           BudgetLoopMove, AdaptersMove, SimulationsMove, ReplaysMove, SmokeMove,
           TriggerMove
  <1>12. Next => [ReportsNext]_reportVars
    BY DEF Next, KeysMove, HealthMove, ConfigMove, RulePageMove, KeysPageMove,
           CliMove, StreamMove, HooksMove, BrowserMove, ReportsMove, AlertsMove,
           BudgetLoopMove, AdaptersMove, SimulationsMove, ReplaysMove, SmokeMove,
           TriggerMove
  <1>13. Next => [AlertsNext]_alertVars
    BY DEF Next, KeysMove, HealthMove, ConfigMove, RulePageMove, KeysPageMove,
           CliMove, StreamMove, HooksMove, BrowserMove, ReportsMove, AlertsMove,
           BudgetLoopMove, AdaptersMove, SimulationsMove, ReplaysMove, SmokeMove,
           TriggerMove
  <1>14. Next => [BudgetLoopNext]_budgetLoopVars
    BY DEF Next, KeysMove, HealthMove, ConfigMove, RulePageMove, KeysPageMove,
           CliMove, StreamMove, HooksMove, BrowserMove, ReportsMove, AlertsMove,
           BudgetLoopMove, AdaptersMove, SimulationsMove, ReplaysMove, SmokeMove,
           TriggerMove
  <1>15. Next => [AdaptersNext]_adapterVars
    BY DEF Next, KeysMove, HealthMove, ConfigMove, RulePageMove, KeysPageMove,
           CliMove, StreamMove, HooksMove, BrowserMove, ReportsMove, AlertsMove,
           BudgetLoopMove, AdaptersMove, SimulationsMove, ReplaysMove, SmokeMove,
           TriggerMove
  <1>16. Next => [SimulationNext \/ ReplayNext]_decisionVars
    BY DEF Next, KeysMove, HealthMove, ConfigMove, RulePageMove, KeysPageMove,
           CliMove, StreamMove, HooksMove, BrowserMove, ReportsMove, AlertsMove,
           BudgetLoopMove, AdaptersMove, SimulationsMove, ReplaysMove, SmokeMove,
           TriggerMove
  <1>17. Next => [SmokeNext]_smokeVars
    BY DEF Next, KeysMove, HealthMove, ConfigMove, RulePageMove, KeysPageMove,
           CliMove, StreamMove, HooksMove, BrowserMove, ReportsMove, AlertsMove,
           BudgetLoopMove, AdaptersMove, SimulationsMove, ReplaysMove, SmokeMove,
           TriggerMove
  <1>18. Next => [TriggerNext]_triggerVars
    BY DEF Next, KeysMove, HealthMove, ConfigMove, RulePageMove, KeysPageMove,
           CliMove, StreamMove, HooksMove, BrowserMove, ReportsMove, AlertsMove,
           BudgetLoopMove, AdaptersMove, SimulationsMove, ReplaysMove, SmokeMove,
           TriggerMove
  <1>19. QED
    BY <1>1, <1>2, <1>3, <1>4, <1>5, <1>6, <1>7, <1>8, <1>9,
       <1>10, <1>11, <1>12, <1>13, <1>14, <1>15, <1>16, <1>17, <1>18

(* The invariants of the parts hold of every behaviour of the whole.         *)
THEOREM OperationsInvariance == Spec => []PartsInv
  <1>1. PartsInv /\ [Next]_vars => PartsInv'
    <2> SUFFICES ASSUME PartsInv, [Next]_vars PROVE PartsInv'
      OBVIOUS
    <2>1. part' \in Parts /\ Parts' = Parts
      BY PartsApart DEF PartsInv, Parts
    <2>2. KeysInv' /\ HealthInv' /\ ConfigInv' /\ RulePageInv' /\ KeysPageInv' /\ CliInv'
      BY PartsApart, KeysStep, HealthStep, ConfigStep, RulePageStep, KeysPageStep, CliStep
      DEF PartsInv
    <2>3. StreamInv' /\ HooksInv' /\ BrowserInv' /\ ReportsInv'
      BY PartsApart, StreamStep, HooksStep, BrowserStep, ReportsStep DEF PartsInv
    <2>4. AlertInv' /\ BudgetLoopInv' /\ AdaptersInv' /\ DecisionInv'
      BY PartsApart, AlertStep, BudgetLoopStep, AdaptersStep, DecisionStep DEF PartsInv
    <2>5. SmokeInv' /\ TriggerInv'
      BY PartsApart, SmokeStep, TriggerStep DEF PartsInv
    <2>6. QED
      BY <2>1, <2>2, <2>3, <2>4, <2>5 DEF PartsInv
  <1>2. QED
    BY <1>1, InitHolds, PTL DEF Spec

(* The state of every part is of its type, whichever part moves: a replica  *)
(* remembers no more keys than its cache may hold, a stored health counts   *)
(* no more failures than there were, no fetch but the latest is left        *)
(* unaborted, an armed failure waits on a registered mock only.             *)
THEOREM OperationsTyped == Spec => []TypeOK
  <1>1. PartsInv => TypeOK
    <2> SUFFICES ASSUME PartsInv PROVE TypeOK
      OBVIOUS
    <2>1. KeysTypeOK /\ HealthTypeOK /\ ConfigTypeOK /\ RulePageTypeOK /\ KeysPageTypeOK
      BY KeysHold, HealthHolds, ConfigHolds, RulePageHolds, KeysPageHolds DEF PartsInv
    <2>2. CliTypeOK /\ StreamTypeOK /\ HooksTypeOK /\ BrowserTypeOK
      BY CliHolds, StreamHolds, HooksHold, BrowserIsTyped DEF PartsInv
    <2>3. ReportsTypeOK /\ AlertsTypeOK /\ AdaptersTypeOK /\ DecisionTypeOK
      BY AlertsHold, AdaptersHold, DecisionsHold DEF PartsInv, ReportsInv
    <2>4. SmokeTypeOK /\ TriggerTypeOK
      BY SmokeHolds, TriggerHolds DEF PartsInv
    <2>5. QED
      BY <2>1, <2>2, <2>3, <2>4 DEF PartsInv, TypeOK
  <1>2. QED
    BY <1>1, OperationsInvariance, PTL

(* A row of a rule or a budget, as the routes                               *)
(* (api/src/http/routes/configuration.ts), the rule page and the command    *)
(* line leave it, is what was asked of them, whoever changes it meanwhile   *)
(* and however their answers come.                                          *)
THEOREM ConfigurationAsAsked == Spec => []ConfigIsAsAsked
  <1>1. PartsInv => ConfigIsAsAsked
    BY ConfigHolds, RulePageHolds, CliHolds DEF PartsInv, ConfigIsAsAsked
  <1>2. QED
    BY <1>1, OperationsInvariance, PTL

(* The live graph shows one request, in the order of its events and none of *)
(* them twice, through lost connections, a bus that forgets and events of   *)
(* other requests (persistence's stream bus, the SSE route and the          *)
(* console's reducer).                                                      *)
THEOREM GraphIsOfOneRequest == Spec => []GraphShowsOneRequest
  <1>1. PartsInv => GraphShowsOneRequest
    BY StreamHolds DEF PartsInv
  <1>2. QED
    BY <1>1, OperationsInvariance, PTL

(* A view answers the question on the screen, the rule page and the keys    *)
(* page show what the server confirmed, a secret is shown to who made its   *)
(* key, an alert stands on a reading that justifies it, and the trigger and *)
(* the smoke test say what happened.                                        *)
THEOREM PagesTell == Spec => []PagesTellWhatIs
  <1>1. PartsInv => PagesTellWhatIs
    BY HooksHold, RulePageHolds, KeysPageHolds, AlertsHold, TriggerHolds, SmokeHolds
    DEF PartsInv, PagesTellWhatIs
  <1>2. QED
    BY <1>1, OperationsInvariance, PTL

(* The pages of a walk through the event browser cover what was there when  *)
(* it began, each record once.                                              *)
THEOREM WalksCover == Spec => []PagesCoverOnce
  <1>1. PartsInv => PagesCoverOnce
    BY BrowserCovers DEF PartsInv
  <1>2. QED
    BY <1>1, OperationsInvariance, PTL

(* Whatever a vendor answers, its adapter's attempt has a class; a success  *)
(* has the cost of its tokens and a failure has neither tokens nor cost; two*)
(* adapters class the same failure alike; no failure is injected that was   *)
(* not armed; and the record that is built of one attempt or two adds up    *)
(* (packages/providers, and the telemetry record builder).                  *)
THEOREM ContractIsKept == Spec => []AdaptersKeepContract
  <1>1. PartsInv => AdaptersKeepContract
    BY AdaptersHold DEF PartsInv
  <1>2. QED
    BY <1>1, OperationsInvariance, PTL

(* What the reports say of the records adds up, statement by statement, as  *)
(* far as they were executed over the same records: the summary, the series,*)
(* the anomalies, the insights and the budgets (core/src/insights,          *)
(* persistence/src/telemetry); and so does what the Cost page makes of them,*)
(* whichever of its panels has come (web/src/features/cost).  For any set of*)
(* records, any query and any prices.                                       *)
THEOREM FiguresFit == Spec => []FiguresAgree
  <1>1. PartsInv => FiguresAgree
    BY FiguresReconcile, PageAgrees DEF PartsInv, FiguresAgree
  <1>2. QED
    BY <1>1, OperationsInvariance, PTL

(* A simulation tells what its rule would do once it is one: which rule     *)
(* governs, where the request goes and what the budgets say, up to a tie of *)
(* priorities and to what moved between the reads of its two evaluations.   *)
(* A replay on the catalog and the prices of a recorded decision, of a      *)
(* request that is rebuilt as it was, is that decision, and its page says   *)
(* so.  For any rules, proposals, models, prices and budgets                *)
(* (api/src/routes/routing-simulate.ts, telemetry-replay.ts).               *)
THEOREM DecisionsAreForetold == Spec => []RoutesForetell
  <1>1. PartsInv => RoutesForetell
    BY DecisionsForetell DEF PartsInv, RoutesForetell
  <1>2. QED
    BY <1>1, OperationsInvariance, PTL
=============================================================================
