----------------------------- MODULE GraphReducer ---------------------------
(***************************************************************************)
(* The reducer of the console's live graph                                 *)
(* (web/src/features/live-graph/graph-reducer.ts): it folds the stage      *)
(* events of the stream into what the decision graph shows.                *)
(*                                                                         *)
(* Pure operators.  An event is [seq, eventType, eventId] with, by type,   *)
(* source, candidate, attemptIndex and errorClass.  Texts, scores, offsets *)
(* and token counts are left out; a timeline entry keeps the event it is   *)
(* for in their place.                                                     *)
(***************************************************************************)
EXTENDS Integers, Sequences

CONSTANT None       (* null                                                 *)

IdleStages ==
  [ request |-> "idle", governance |-> "idle", evaluate |-> "idle",
    decide |-> "idle", execute |-> "idle", result |-> "idle" ]

IdleEdges ==
  [ requestToGovernance |-> "idle", governanceToCandidates |-> "idle",
    candidatesToDecision |-> "idle", decisionToExecute |-> "idle",
    executeToResult |-> "idle", clientToEngine |-> "idle",
    engineToPolicies |-> "idle", engineToCatalog |-> "idle",
    engineToCandidates |-> "idle", candidatesToExecution |-> "idle",
    executionToResult |-> "idle" ]

IdleNodes ==
  [ client |-> "idle", engine |-> "idle", policies |-> "idle", catalog |-> "idle",
    candidates |-> "idle", execution |-> "idle", result |-> "idle" ]

InitialGraphState ==
  [ flow |-> "idle", currentStage |-> "request", eventId |-> None,
    stages |-> IdleStages, edges |-> IdleEdges, nodes |-> IdleNodes,
    candidates |-> << >>, winner |-> None, decisionSource |-> None,
    attempts |-> << >>, timeline |-> << >>, hasFallback |-> FALSE,
    terminalErrorClass |-> None, fullEvent |-> None, lastSeq |-> -1 ]

(* push: an entry of the timeline.                                          *)
Pushed(state, event, stage, outcome) ==
  [state EXCEPT !.timeline = Append(@, [of |-> event, stage |-> stage, state |-> outcome])]

(* A new request takes the graph over.                                      *)
ApplyRequestReceived(state, event) ==
  Pushed([ InitialGraphState EXCEPT
             !.lastSeq = event.seq, !.eventId = event.eventId, !.flow = "receiving",
             !.stages = [@ EXCEPT !.request = "active"],
             !.edges = [@ EXCEPT !.requestToGovernance = "active", !.clientToEngine = "active"],
             !.nodes = [@ EXCEPT !.client = "active"] ],
         event, "request", "active")

ApplyGovernanceCompleted(state, event) ==
  LET isOperatorRule == event.source = "operator_rule"
  IN  Pushed([ state EXCEPT
                 !.flow = "governance", !.currentStage = "governance",
                 !.decisionSource = event.source,
                 !.stages = [@ EXCEPT !.request = "completed", !.governance = "active"],
                 !.edges = [@ EXCEPT
                              !.requestToGovernance = "completed",
                              !.governanceToCandidates = "active",
                              !.clientToEngine = "completed",
                              !.engineToPolicies = IF isOperatorRule THEN "active" ELSE "idle",
                              !.engineToCatalog = IF isOperatorRule THEN "idle" ELSE "active"],
                 !.nodes = [@ EXCEPT
                              !.client = "completed", !.engine = "active",
                              !.policies = IF isOperatorRule THEN "active" ELSE "idle",
                              !.catalog = IF isOperatorRule THEN "bypassed" ELSE "active"] ],
             event, "governance", "completed")

(* The first candidate of the ranking is shown as the winner.               *)
ApplyCandidateEvaluated(state, event) ==
  LET rank == Len(state.candidates) + 1
      view == [ rank |-> rank, candidate |-> event.candidate,
                kind |-> IF rank = 1 THEN "winner" ELSE "runnerUp" ]
  IN  Pushed([ state EXCEPT
                 !.flow = "evaluating", !.currentStage = "evaluate",
                 !.stages = [@ EXCEPT !.governance = "completed", !.evaluate = "active"],
                 !.edges = [@ EXCEPT !.governanceToCandidates = "completed",
                                     !.engineToCandidates = "active"],
                 !.nodes = [@ EXCEPT
                              !.catalog = IF @ = "bypassed" THEN @ ELSE "completed",
                              !.candidates = "active"],
                 !.candidates = Append(@, view) ],
             event, "evaluate", "completed")

ApplyCandidateExcluded(state, event) ==
  LET view == [ rank |-> Len(state.candidates) + 1, candidate |-> event.candidate,
                kind |-> "excluded" ]
  IN  Pushed([ state EXCEPT
                 !.flow = "evaluating", !.stages = [@ EXCEPT !.evaluate = "active"],
                 !.nodes = [@ EXCEPT !.candidates = "active"],
                 !.candidates = Append(@, view) ],
             event, "evaluate", "completed")

ApplyDecisionCommitted(state, event) ==
  Pushed([ state EXCEPT
             !.flow = "deciding", !.currentStage = "decide",
             !.decisionSource = event.source, !.winner = event.candidate,
             !.stages = [@ EXCEPT !.evaluate = "completed", !.decide = "completed"],
             !.edges = [@ EXCEPT !.governanceToCandidates = "completed",
                                 !.candidatesToDecision = "completed",
                                 !.decisionToExecute = "active",
                                 !.engineToCandidates = "completed"],
             !.nodes = [@ EXCEPT !.candidates = "completed", !.engine = "completed"] ],
         event, "decide", "completed")

(* Any attempt but the first is a fallback.                                 *)
ApplyExecutionStarted(state, event) ==
  LET fallback == event.attemptIndex > 0
  IN  Pushed([ state EXCEPT
                 !.flow = "executing", !.currentStage = "execute",
                 !.hasFallback = @ \/ fallback,
                 !.stages = [@ EXCEPT !.decide = "completed", !.execute = "active"],
                 !.edges = [@ EXCEPT
                              !.decisionToExecute = "completed",
                              !.candidatesToExecution = IF fallback THEN "fallback" ELSE "active"],
                 !.nodes = [@ EXCEPT !.execution = IF fallback THEN "error" ELSE "active"] ],
             event, "execute", "active")

ApplyExecutionCompleted(state, event) ==
  LET failed == event.errorClass # "none"
  IN  Pushed([ state EXCEPT
                 !.attempts = Append(@, [ attemptIndex |-> event.attemptIndex,
                                          errorClass |-> event.errorClass ]),
                 !.nodes = [@ EXCEPT !.execution = IF failed THEN "error" ELSE "active"] ],
             event, "execute", IF failed THEN "failed" ELSE "completed")

ApplyResultCompleted(state, event) ==
  Pushed([ state EXCEPT
             !.flow = "success", !.currentStage = "result",
             !.stages = [@ EXCEPT !.execute = "completed", !.result = "completed"],
             !.edges = [@ EXCEPT !.executeToResult = "completed",
                                 !.candidatesToExecution = "completed",
                                 !.executionToResult = "completed"],
             !.nodes = [@ EXCEPT !.execution = "completed", !.result = "completed"],
             !.terminalErrorClass = event.errorClass ],
         event, "result", "completed")

ApplyResultFailed(state, event) ==
  Pushed([ state EXCEPT
             !.flow = "failed", !.currentStage = "result",
             !.stages = [@ EXCEPT !.execute = "completed", !.result = "failed"],
             !.edges = [@ EXCEPT !.executeToResult = "failed", !.executionToResult = "failed"],
             !.nodes = [@ EXCEPT !.execution = "error", !.result = "error"],
             !.terminalErrorClass = event.errorClass ],
         event, "result", "failed")

Applied(next, event) ==
  CASE event.eventType = "governance.completed" -> ApplyGovernanceCompleted(next, event)
    [] event.eventType = "candidate.evaluated" -> ApplyCandidateEvaluated(next, event)
    [] event.eventType = "candidate.excluded" -> ApplyCandidateExcluded(next, event)
    [] event.eventType = "decision.committed" -> ApplyDecisionCommitted(next, event)
    [] event.eventType = "execution.started" -> ApplyExecutionStarted(next, event)
    [] event.eventType = "execution.completed" -> ApplyExecutionCompleted(next, event)
    [] event.eventType = "result.completed" -> ApplyResultCompleted(next, event)
    [] event.eventType = "result.failed" -> ApplyResultFailed(next, event)
    [] event.eventType = "event.completed" -> [next EXCEPT !.fullEvent = event.eventId]

(* The events that say nothing to the graph.                                *)
Ignored == {"stream.hello", "stream.heartbeat", "budget.evaluated"}

(* Faulty variant: an event of any request is applied.                      *)
Concerns_Any(state, event) == state.eventId # None

(* The event is about the request the graph shows.                          *)
Concerns(state, event) == state.eventId = event.eventId

(* reduce: hello and heartbeat change nothing, nor does an event whose      *)
(* sequence number is not above the last one that was applied.              *)
Reduce(state, event) ==
  IF event.eventType \in Ignored \/ event.seq <= state.lastSeq THEN state
  ELSE IF event.eventType = "request.received" THEN ApplyRequestReceived(state, event)
  ELSE IF Concerns(state, event) THEN Applied([state EXCEPT !.lastSeq = event.seq], event)
  ELSE state
=============================================================================
