------------------------------ MODULE DevTrigger ----------------------------
(***************************************************************************)
(* The development trigger of the console's routing page                   *)
(* (web/src/components/dev/DevRequestTrigger.tsx): three buttons that fire *)
(* a request which is plain, is made to fall back or is governed by a rule,*)
(* over the routes that arm the mocks (api/src/routes/dev-mock.ts) and     *)
(* create rules.                                                           *)
(*                                                                         *)
(* A fire is a few calls in a row, during which the buttons are disabled.  *)
(* The timer that clears the status of one that was sent is not stopped by *)
(* the next one, and enables the buttons while that is under way: "stale"  *)
(* remembers it, since from then on fires overlap.                         *)
(***************************************************************************)
EXTENDS Naturals, FiniteSets

CONSTANTS
  MaxFires,       (* bound on the clicks                                    *)
  MaxMisses,      (* bound on the calls that fail                           *)
  NoScenario

ASSUME TriggerAssumption == MaxFires \in Nat /\ MaxMisses \in Nat

Scenarios == {"normal", "fallback", "operator_rule"}
FireIds == 1..MaxFires
ArmedMocks == {"mock-cheap", "mock-fast"}

VARIABLES
  trigger,        (* [scenario, status]                                     *)
  fires,          (* fires[f] = [scenario, step]; fell: whether its first   *)
                  (* attempt failed                                         *)
  resets,         (* the fires whose timer is set                           *)
  armed,          (* the mocks that are to fail                             *)
  ensured,        (* how many such rules there are                          *)
  stale, misses, unlisted       (* history: lists of the rules that failed  *)

triggerVars == << trigger, fires, resets, armed, ensured, stale, misses, unlisted >>

NoFire == [scenario |-> NoScenario, step |-> "none", fell |-> FALSE]

UnderWay(f) == fires[f].step \in {"arm", "list", "create", "complete"}

TriggerInit ==
  /\ trigger = [scenario |-> NoScenario, status |-> "idle"]
  /\ fires = [f \in FireIds |-> NoFire]
  /\ resets = {} /\ armed = {} /\ ensured = 0
  /\ stale = FALSE /\ misses = 0 /\ unlisted = 0

-----------------------------------------------------------------------------
FirstStep(scenario) ==
  CASE scenario = "fallback" -> "arm"
    [] scenario = "operator_rule" -> "list"
    [] scenario = "normal" -> "complete"

Fire(scenario) ==
  /\ trigger.status # "sending"
  /\ \E f \in FireIds :
       /\ fires[f] = NoFire /\ \A g \in FireIds : g < f => fires[g] # NoFire
       /\ fires' = [fires EXCEPT ![f] = [scenario |-> scenario, step |-> FirstStep(scenario),
                                         fell |-> FALSE]]
  /\ trigger' = [scenario |-> scenario, status |-> "sending"]
  /\ UNCHANGED << resets, armed, ensured, stale, misses, unlisted >>

To(f, step) == fires' = [fires EXCEPT ![f].step = step]

Miss == misses < MaxMisses /\ misses' = misses + 1

(* Every mock of the registry is armed, whichever will be asked.            *)
Arm(f) ==
  /\ fires[f].step = "arm"
  /\ armed' = ArmedMocks /\ To(f, "complete")
  /\ UNCHANGED << trigger, resets, ensured, stale, misses, unlisted >>

(* A list that fails counts as one without the rule.                        *)
ListRules(f) ==
  /\ fires[f].step = "list"
  /\ \/ /\ To(f, IF ensured > 0 THEN "complete" ELSE "create")
        /\ UNCHANGED << misses, unlisted >>
     \/ Miss /\ To(f, "create") /\ unlisted' = unlisted + 1
  /\ UNCHANGED << trigger, resets, armed, ensured, stale >>

CreateRule(f) ==
  /\ fires[f].step = "create"
  /\ ensured' = ensured + 1 /\ To(f, "complete")
  /\ UNCHANGED << trigger, resets, armed, stale, misses, unlisted >>

(* The completion.  With the seeded prices the first two candidates of a    *)
(* plain request are models of mock-cheap, and the rule pins the first one; *)
(* an armed failure strikes once, so that the fallback succeeds and a pinned*)
(* request fails.  An answer without an error sets the timer.               *)
Complete(f) ==
  LET fell == "mock-cheap" \in armed
      ok == ~fell \/ fires[f].scenario # "operator_rule"
  IN  /\ fires[f].step = "complete"
      /\ armed' = armed \ {"mock-cheap"}
      /\ fires' = [fires EXCEPT ![f] = [@ EXCEPT !.step = IF ok THEN "sent" ELSE "error",
                                                 !.fell = fell]]
      /\ trigger' = [trigger EXCEPT !.status = IF ok THEN "sent" ELSE "error"]
      /\ resets' = IF ok THEN resets \union {f} ELSE resets
      /\ UNCHANGED << ensured, stale, misses, unlisted >>

(* A call that fails: refused before it took effect, or its answer lost     *)
(* after it did.                                                            *)
CallFails(f) ==
  /\ UnderWay(f) /\ fires[f].step # "list" /\ Miss
  /\ To(f, "error") /\ trigger' = [trigger EXCEPT !.status = "error"]
  /\ \/ UNCHANGED << armed, ensured >>
     \/ fires[f].step = "arm" /\ armed' = ArmedMocks /\ UNCHANGED ensured
     \/ fires[f].step = "create" /\ ensured' = ensured + 1 /\ UNCHANGED armed
     \/ fires[f].step = "complete" /\ armed' = armed \ {"mock-cheap"} /\ UNCHANGED ensured
  /\ UNCHANGED << resets, stale, unlisted >>

(* The timer, 4.2 s after a request was sent, whatever is under way then.   *)
ResetTrigger(f) ==
  /\ f \in resets /\ resets' = resets \ {f}
  /\ trigger' = [scenario |-> NoScenario, status |-> "idle"]
  /\ stale' = (stale \/ trigger.status # "sent" \/ resets # {f})
  /\ UNCHANGED << fires, armed, ensured, misses, unlisted >>

TriggerNext ==
  \/ \E scenario \in Scenarios : Fire(scenario)
  \/ \E f \in FireIds :
       Arm(f) \/ ListRules(f) \/ CreateRule(f) \/ Complete(f) \/ CallFails(f) \/ ResetTrigger(f)

TriggerTypeOK ==
  /\ trigger.status \in {"idle", "sending", "sent", "error"}
  /\ trigger.scenario \in Scenarios \union {NoScenario}
  /\ resets \subseteq {f \in FireIds : fires[f].step = "sent"}
  /\ armed \subseteq ArmedMocks /\ ensured \in 0..MaxFires

-----------------------------------------------------------------------------
(* Until a timer clears what is not its own, the trigger shows the one fire *)
(* there is: it is "sending" exactly while one is under way, and it says    *)
(* "sent" or "error" of the last one.  Then a request that was sent has done*)
(* what its button says -- a fallback happened for "Fallback" and no other  *)
(* -- as long as no fire left a failure armed behind that it did not use, by*)
(* a call that failed.  The rule is created once, again only after a list of*)
(* the rules failed; and whatever happens, each fallback leaves a failure   *)
(* armed only on the mock that was not asked, unless it ended in an error.  *)
TriggerIsHonest ==
  LET current == {f \in FireIds : UnderWay(f)}
      begun == {f \in FireIds : fires[f] # NoFire}
      last == CHOOSE f \in begun : \A g \in begun : g <= f
  IN  /\ ~stale =>
           /\ Cardinality(current) <= 1
           /\ (trigger.status = "sending") = (current # {})
           /\ trigger.status \in {"sent", "error"} =>
                trigger = [scenario |-> fires[last].scenario, status |-> fires[last].step]
           /\ ensured <= 1 + unlisted
      /\ ~stale /\ misses = 0 =>
           \A f \in begun :
             fires[f].step = "sent" => (fires[f].fell = (fires[f].scenario = "fallback"))
      /\ current = {} /\ "mock-cheap" \in armed =>
           \E f \in begun : fires[f].scenario = "fallback" /\ fires[f].step = "error"
=============================================================================
