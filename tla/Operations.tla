----------------------------- MODULE Operations -----------------------------
(***************************************************************************)
(* The parts around the request path, each with its own state: API keys,   *)
(* the health scheduler, the operator routes, the console's pages for a    *)
(* rule and for the keys, the command line, the live stream, the data hooks*)
(* and the event browser, the reports, the alerts, the provider adapters,  *)
(* the routes that decide without executing, the smoke test of a deployment*)
(* and the development trigger.                                            *)
(*                                                                         *)
(* What they take from each other (a catalog, recorded events, spend) is   *)
(* an input of the part that reads it, and no part writes a variable of    *)
(* another.  Interleaving them would add no behaviour to any, so that one  *)
(* part moves in a behaviour here and the others rest where they began.    *)
(***************************************************************************)
EXTENDS ApiKeys, HealthScheduler, ConfigRoutes, RulePage, KeysPage, CommandLine,
        LiveStream, DataHooks, EventBrowser, CostFigures, Alerts, Adapters, DecisionViews,
        SmokeTest, DevTrigger

VARIABLE part     (* the part that moves                                    *)

Parts ==
  {"keys", "health", "config", "rulePage", "keysPage", "cli", "stream",
   "hooks", "browser", "reports", "alerts", "budgetLoop", "adapters",
   "simulations", "replays", "smoke", "trigger"}

vars == << part, keyVars, healthVars, configVars, rulePageVars, keysPageVars,
           cliVars, streamVars, hookVars, browserVars, reportVars, alertVars,
           budgetLoopVars, adapterVars, decisionVars, smokeVars, triggerVars >>

(* A part that rests rests in one of its initial states.                    *)
Moves(p) == part = p

Init ==
  /\ part \in Parts
  /\ KeysInit /\ HealthInit /\ ConfigInit /\ RulePageInit /\ KeysPageInit /\ CliInit
  /\ AlertsInit /\ BudgetLoopInit
  /\ StreamInit
  /\ Moves("stream") \/ << script, filter >> = << CHOOSE s \in Scripts : TRUE, None >>
  /\ HooksInit
  /\ Moves("hooks") \/ effect = FormPage
  /\ BrowserInit
  /\ Moves("browser") \/ stored = {}
  /\ ReportsInit
  /\ Moves("reports") \/ recorded = {}
  /\ AdaptersInit
  /\ Moves("adapters") \/ registry = Mocks
  /\ DecisionInit
  /\ Moves("simulations") \/ Moves("replays") \/ world = CHOOSE w \in InitialWorlds : TRUE
  /\ SmokeInit
  /\ Moves("smoke") \/ smoke.arguments = CHOOSE a \in SmokeArguments : TRUE
  /\ Moves("smoke") \/ (service.partition /\ ~service.rule)
  /\ TriggerInit

KeysMove ==
  /\ Moves("keys") /\ KeysNext
  /\ UNCHANGED << part, healthVars, configVars, rulePageVars, keysPageVars,
                  cliVars, streamVars, hookVars, browserVars, reportVars,
                  alertVars, budgetLoopVars, adapterVars, decisionVars,
                  smokeVars, triggerVars >>

HealthMove ==
  /\ Moves("health") /\ HealthNext
  /\ UNCHANGED << part, keyVars, configVars, rulePageVars, keysPageVars,
                  cliVars, streamVars, hookVars, browserVars, reportVars,
                  alertVars, budgetLoopVars, adapterVars, decisionVars,
                  smokeVars, triggerVars >>

ConfigMove ==
  /\ Moves("config") /\ ConfigNext
  /\ UNCHANGED << part, keyVars, healthVars, rulePageVars, keysPageVars,
                  cliVars, streamVars, hookVars, browserVars, reportVars,
                  alertVars, budgetLoopVars, adapterVars, decisionVars,
                  smokeVars, triggerVars >>

RulePageMove ==
  /\ Moves("rulePage") /\ RulePageNext
  /\ UNCHANGED << part, keyVars, healthVars, configVars, keysPageVars,
                  cliVars, streamVars, hookVars, browserVars, reportVars,
                  alertVars, budgetLoopVars, adapterVars, decisionVars,
                  smokeVars, triggerVars >>

KeysPageMove ==
  /\ Moves("keysPage") /\ KeysPageNext
  /\ UNCHANGED << part, keyVars, healthVars, configVars, rulePageVars,
                  cliVars, streamVars, hookVars, browserVars, reportVars,
                  alertVars, budgetLoopVars, adapterVars, decisionVars,
                  smokeVars, triggerVars >>

CliMove ==
  /\ Moves("cli") /\ CliNext
  /\ UNCHANGED << part, keyVars, healthVars, configVars, rulePageVars,
                  keysPageVars, streamVars, hookVars, browserVars, reportVars,
                  alertVars, budgetLoopVars, adapterVars, decisionVars,
                  smokeVars, triggerVars >>

StreamMove ==
  /\ Moves("stream") /\ StreamNext
  /\ UNCHANGED << part, keyVars, healthVars, configVars, rulePageVars,
                  keysPageVars, cliVars, hookVars, browserVars, reportVars,
                  alertVars, budgetLoopVars, adapterVars, decisionVars,
                  smokeVars, triggerVars >>

HooksMove ==
  /\ Moves("hooks") /\ HooksNext
  /\ UNCHANGED << part, keyVars, healthVars, configVars, rulePageVars,
                  keysPageVars, cliVars, streamVars, browserVars, reportVars,
                  alertVars, budgetLoopVars, adapterVars, decisionVars,
                  smokeVars, triggerVars >>

BrowserMove ==
  /\ Moves("browser") /\ BrowserNext
  /\ UNCHANGED << part, keyVars, healthVars, configVars, rulePageVars,
                  keysPageVars, cliVars, streamVars, hookVars, reportVars,
                  alertVars, budgetLoopVars, adapterVars, decisionVars,
                  smokeVars, triggerVars >>

ReportsMove ==
  /\ Moves("reports") /\ ReportsNext
  /\ UNCHANGED << part, keyVars, healthVars, configVars, rulePageVars,
                  keysPageVars, cliVars, streamVars, hookVars, browserVars,
                  alertVars, budgetLoopVars, adapterVars, decisionVars,
                  smokeVars, triggerVars >>

AlertsMove ==
  /\ Moves("alerts") /\ AlertsNext
  /\ UNCHANGED << part, keyVars, healthVars, configVars, rulePageVars,
                  keysPageVars, cliVars, streamVars, hookVars, browserVars,
                  reportVars, budgetLoopVars, adapterVars, decisionVars,
                  smokeVars, triggerVars >>

BudgetLoopMove ==
  /\ Moves("budgetLoop") /\ BudgetLoopNext
  /\ UNCHANGED << part, keyVars, healthVars, configVars, rulePageVars,
                  keysPageVars, cliVars, streamVars, hookVars, browserVars,
                  reportVars, alertVars, adapterVars, decisionVars,
                  smokeVars, triggerVars >>

AdaptersMove ==
  /\ Moves("adapters") /\ AdaptersNext
  /\ UNCHANGED << part, keyVars, healthVars, configVars, rulePageVars,
                  keysPageVars, cliVars, streamVars, hookVars, browserVars,
                  reportVars, alertVars, budgetLoopVars, decisionVars,
                  smokeVars, triggerVars >>

SimulationsMove ==
  /\ Moves("simulations") /\ SimulationNext
  /\ UNCHANGED << part, keyVars, healthVars, configVars, rulePageVars,
                  keysPageVars, cliVars, streamVars, hookVars, browserVars,
                  reportVars, alertVars, budgetLoopVars, adapterVars,
                  smokeVars, triggerVars >>

ReplaysMove ==
  /\ Moves("replays") /\ ReplayNext
  /\ UNCHANGED << part, keyVars, healthVars, configVars, rulePageVars,
                  keysPageVars, cliVars, streamVars, hookVars, browserVars,
                  reportVars, alertVars, budgetLoopVars, adapterVars,
                  smokeVars, triggerVars >>

SmokeMove ==
  /\ Moves("smoke") /\ SmokeNext
  /\ UNCHANGED << part, keyVars, healthVars, configVars, rulePageVars,
                  keysPageVars, cliVars, streamVars, hookVars, browserVars,
                  reportVars, alertVars, budgetLoopVars, adapterVars,
                  decisionVars, triggerVars >>

TriggerMove ==
  /\ Moves("trigger") /\ TriggerNext
  /\ UNCHANGED << part, keyVars, healthVars, configVars, rulePageVars,
                  keysPageVars, cliVars, streamVars, hookVars, browserVars,
                  reportVars, alertVars, budgetLoopVars, adapterVars,
                  decisionVars, smokeVars >>

Next ==
  \/ KeysMove \/ HealthMove \/ ConfigMove \/ RulePageMove \/ KeysPageMove \/ CliMove
  \/ StreamMove \/ HooksMove \/ BrowserMove \/ ReportsMove \/ AlertsMove \/ BudgetLoopMove
  \/ AdaptersMove \/ SimulationsMove \/ ReplaysMove \/ SmokeMove \/ TriggerMove

(* Nothing that has to happen is enabled in a part that rests, so that the  *)
(* fairness of one part asks nothing of a behaviour of another.             *)
Fairness == KeysFairness /\ HealthFairness /\ StreamFairness

Spec == Init /\ [][Next]_vars /\ Fairness

-----------------------------------------------------------------------------
(* Every part's state is well-typed: in particular no replica remembers more*)
(* keys than its cache may hold, no fetch but the latest is left unaborted, *)
(* a page that is loading has a call under way, an armed failure waits on a *)
(* registered mock only, and no run of good readings is counted while there *)
(* is no alert to end.                                                      *)
TypeOK ==
  /\ part \in Parts
  /\ KeysTypeOK /\ HealthTypeOK /\ ConfigTypeOK /\ RulePageTypeOK /\ KeysPageTypeOK
  /\ CliTypeOK /\ StreamTypeOK /\ HooksTypeOK /\ BrowserTypeOK /\ ReportsTypeOK
  /\ AlertsTypeOK /\ AdaptersTypeOK /\ DecisionTypeOK
  /\ SmokeTypeOK /\ TriggerTypeOK

(* What operators ask of the configuration is what it becomes, whether they *)
(* ask by the routes, by the rule page's switch and editor, or by the       *)
(* command line: RowsAreAsAsked, RuleIsAsAsked and LedgerAgrees say how.    *)
ConfigIsAsAsked ==
  /\ Moves("config") => RowsAreAsAsked
  /\ Moves("rulePage") => RuleIsAsAsked
  /\ Moves("cli") => LedgerAgrees

(* What an operator is shown is the case, not what an answer that came late *)
(* says: ViewsAnswerTheirQuestion of the data hooks, PageShowsConfirmed of  *)
(* the rule page, KeyListIsCurrent and SecretsAreHandedOver of the keys     *)
(* page, AlertIsJustified of the gauges, TriggerIsHonest of the development *)
(* trigger, SmokeVerdictHolds of the smoke test's exit.                     *)
PagesTellWhatIs ==
  /\ Moves("hooks") => ViewsAnswerTheirQuestion
  /\ Moves("rulePage") => PageShowsConfirmed
  /\ Moves("keysPage") => KeyListIsCurrent /\ SecretsAreHandedOver
  /\ Moves("alerts") \/ Moves("budgetLoop") => AlertIsJustified
  /\ Moves("trigger") => TriggerIsHonest
  /\ Moves("smoke") => SmokeVerdictHolds

(* Figures that are worked out in different places of the same records      *)
(* agree: ReportsReconcile of the API's reports and CostPageAgrees of the   *)
(* page that shows them.                                                    *)
FiguresAgree ==
  Moves("reports") => ReportsReconcile /\ CostPageAgrees

(* A decision without an execution is what one with it would be: a          *)
(* simulation's (SimulationForetells) and a replay's (ReplayReproduces), of *)
(* which the replay page says what is the case (ReplayPageIsTrue).          *)
RoutesForetell ==
  /\ Moves("simulations") => SimulationForetells
  /\ Moves("replays") => ReplayReproduces /\ ReplayPageIsTrue

(* A decision is the same wherever it is told: by the budgets that judge it *)
(* (VerdictsFollowCosts), by the simulation's page (SimulationPageIsTrue),  *)
(* by the panels that show its record (RecordIsShown) and by what the       *)
(* playground says was saved (PlaygroundIsTrue).                            *)
DecisionsAgree ==
  /\ Moves("simulations") => SimulationPageIsTrue /\ VerdictsFollowCosts
  /\ Moves("replays") => RecordIsShown /\ PlaygroundIsTrue
=============================================================================
