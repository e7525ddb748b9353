----------------------------- MODULE LiveStream -----------------------------
(***************************************************************************)
(* The live stream from end to end: the bus of a server process            *)
(* (api/src/plugins/stream-bus.ts), the SSE route that mirrors it to a     *)
(* subscriber (api/src/routes/telemetry-stream.ts), the console's          *)
(* connection with its retries (web/src/lib/sse/connect-stream.ts), the    *)
(* paced queue in front of the graph (web/src/hooks/useLiveEventStream.ts) *)
(* and the reducer (GraphReducer).                                         *)
(*                                                                         *)
(* Requests publish their stages one by one and interleave; a request may  *)
(* stop announcing itself at any stage (refused, blocked).  The connection *)
(* breaks and comes back, events published in between are lost, and the    *)
(* server may restart, which starts its sequence numbers again.            *)
(***************************************************************************)
EXTENDS GraphReducer, FiniteSets

CONSTANTS
  Streamed,       (* the requests                                           *)
  Scripts,        (* what the requests publish: functions to event sequences *)
  OwnerOf,        (* OwnerOf[r]: the client of request r                    *)
  Filters,        (* the ?clientId= filters of the view; None for all       *)
  MaxQueue,       (* bound on the events waiting in the view                *)
  MaxBreaks       (* bound on breaks, filter changes and restarts           *)

(* The stages that the timeline has an entry for.                           *)
Timed == {"request.received", "governance.completed", "candidate.evaluated",
          "candidate.excluded", "decision.committed", "execution.started",
          "execution.completed", "result.completed", "result.failed"}

Terminal == {"result.completed", "result.failed"}

(* What a request publishes begins with request.received, and has one       *)
(* result at most (completions.ts).                                         *)
IsScript(stages) ==
  /\ Len(stages) \in Nat /\ DOMAIN stages = 1..Len(stages)
  /\ \A n \in DOMAIN stages :
       /\ "eventType" \in DOMAIN stages[n]
       /\ stages[n].eventType \in Timed \union {"budget.evaluated", "event.completed"}
       /\ (stages[n].eventType = "request.received") = (n = 1)
       /\ \A m \in DOMAIN stages :
            stages[m].eventType \in Terminal /\ stages[n].eventType \in Terminal => m = n

ASSUME StreamAssumption ==
  /\ None \notin Streamed
  /\ \A s \in Scripts : \A r \in Streamed : IsScript(s[r])
  /\ MaxQueue \in Nat /\ MaxBreaks \in Nat

VARIABLES
  script,         (* script[r]: what request r publishes                    *)
  published,      (* published[r]: how much of it has been                  *)
  gone,           (* the requests whose server process is gone              *)
  busSeq,         (* seq of the bus                                         *)
  connection,     (* openTelemetryStream: phase, state shown, attempts > 0  *)
  filter,         (* the client the view asked for                          *)
  wire,           (* events written to the connection, not yet read         *)
  queue,          (* the paced queue of the hook                            *)
  pacing,         (* idle; flushing without a timer; held: a timer is set   *)
  graph,          (* LiveGraphState                                         *)
  breaks          (* breaks so far, a bound                                 *)

serverVars == << script, published, gone, busSeq >>
viewVars == << queue, pacing, graph >>
linkVars == << connection, filter, wire, breaks >>
streamVars == << serverVars, linkVars, viewVars >>

Connecting(retry) ==
  [phase |-> "fetching", shown |-> IF retry THEN "reconnecting" ELSE "connecting",
   retry |-> retry]

StreamTypeOK ==
  /\ script \in Scripts /\ \A r \in Streamed : published[r] \in 0..Len(script[r])
  /\ gone \subseteq Streamed /\ busSeq \in Nat
  /\ connection.phase \in {"fetching", "live", "waiting"}
  /\ connection.shown \in {"connecting", "live", "reconnecting", "disconnected", "error"}
  /\ connection.phase # "live" => wire = << >>
  /\ filter \in Filters /\ breaks \in 0..MaxBreaks
  /\ Len(queue) <= MaxQueue
  /\ pacing \in {"idle", "flushing", "held"} /\ (queue # << >> => pacing # "idle")
  /\ graph.lastSeq \in Nat \union {-1}

StreamInit ==
  /\ script \in Scripts
  /\ published = [r \in Streamed |-> 0]
  /\ gone = {} /\ busSeq = 0
  /\ connection = Connecting(FALSE) /\ filter \in Filters
  /\ wire = << >> /\ queue = << >> /\ pacing = "idle"
  /\ graph = InitialGraphState
  /\ breaks = 0

-----------------------------------------------------------------------------
(* A stage as it is published: with its number, its request and its place.  *)
Numbered(stage, seq, r, index) ==
  [ f \in DOMAIN stage \union {"seq", "eventId", "index"} |->
      CASE f = "seq" -> seq [] f = "eventId" -> r [] f = "index" -> index
        [] OTHER -> stage[f] ]

(* publish: the next number, and every subscriber whose filter admits the   *)
(* event gets it.  A request publishes the next stage it reaches.           *)
PublishStage(r) ==
  LET event == Numbered(script[r][published[r] + 1], busSeq + 1, r, published[r] + 1)
  IN  /\ published[r] < Len(script[r])
      /\ r \notin gone /\ Len(queue) < MaxQueue /\ wire = << >>
      /\ published' = [published EXCEPT ![r] = @ + 1]
      /\ busSeq' = busSeq + 1
      /\ wire' = IF connection.phase = "live" /\ filter \in {None, OwnerOf[r]}
                   THEN << event >> ELSE wire
      /\ UNCHANGED << script, gone, connection, filter, breaks, viewVars >>

(* connectOnce: the request is answered with a stream; the subscription     *)
(* begins, with a hello that changes nothing in the view ...                *)
Open ==
  /\ connection.phase = "fetching"
  /\ connection' = [phase |-> "live", shown |-> "live", retry |-> FALSE]
  /\ graph' = Reduce(graph, [eventType |-> "stream.hello", seq |-> 0, eventId |-> None])
  /\ UNCHANGED << serverVars, filter, wire, breaks, queue, pacing >>

Break == breaks < MaxBreaks /\ breaks' = breaks + 1

(* What is shown of a connection that ended: by the server, or by an error. *)
Ended(shown) == [phase |-> "waiting", shown |-> shown, retry |-> TRUE]

(* ... or it fails, or the stream ends: what was on its way is lost, and a  *)
(* reconnection is scheduled.                                               *)
Disconnect ==
  /\ connection.phase \in {"fetching", "live"} /\ Break
  /\ \/ connection' = Ended("error")
     \/ connection.phase = "live" /\ connection' = Ended("disconnected")
  /\ wire' = << >>
  /\ UNCHANGED << serverVars, filter, viewVars >>

(* The timer of the backoff fires.                                          *)
Reconnect ==
  /\ connection.phase = "waiting"
  /\ connection' = Connecting(TRUE)
  /\ UNCHANGED << serverVars, filter, wire, breaks, viewVars >>

(* The effect runs again for another filter: close() and a new stream with  *)
(* an empty queue; the graph stays.                                         *)
Resubscribe(f) ==
  /\ f # filter /\ Break
  /\ filter' = f
  /\ connection' = Connecting(FALSE)
  /\ wire' = << >> /\ queue' = << >> /\ pacing' = "idle"
  /\ UNCHANGED << serverVars, graph >>

(* The server restarts: its requests are gone, its bus counts from zero.    *)
ServerRestarts ==
  /\ Break
  /\ gone' = gone \union {r \in Streamed : published[r] > 0}
  /\ busSeq' = 0
  /\ connection' = IF connection.phase = "live" THEN Ended("disconnected") ELSE connection
  /\ wire' = << >>
  /\ UNCHANGED << script, published, filter, viewVars >>

-----------------------------------------------------------------------------
(* Faulty variant: the pump stays marked as running when the queue is empty.*)
Step_StaysFlushing(events) ==
  /\ graph' = Reduce(graph, Head(events))
  /\ queue' = Tail(events)
  /\ pacing' = IF Tail(events) = << >> THEN "flushing" ELSE "held"

(* step: the first event goes to the graph; a timer is set for the rest.    *)
Step(events) ==
  /\ graph' = Reduce(graph, Head(events))
  /\ queue' = Tail(events)
  /\ pacing' = IF Tail(events) = << >> THEN "idle" ELSE "held"

(* onEvent: the event joins the queue; an idle pump takes it at once.       *)
Deliver ==
  /\ wire # << >>
  /\ wire' = << >>
  /\ IF pacing = "idle" THEN Step(Append(queue, Head(wire)))
     ELSE queue' = Append(queue, Head(wire)) /\ UNCHANGED << pacing, graph >>
  /\ UNCHANGED << serverVars, connection, filter, breaks >>

(* The pause between two stages is over.                                    *)
PauseOver ==
  /\ pacing = "held" /\ queue # << >>
  /\ Step(queue)
  /\ UNCHANGED << serverVars, linkVars >>

StreamNext ==
  \/ \E r \in Streamed : PublishStage(r)
  \/ Open \/ Disconnect \/ Reconnect
  \/ \E f \in Filters : Resubscribe(f)
  \/ ServerRestarts
  \/ Deliver \/ PauseOver

(* Timers fire and the connection delivers what it holds.                   *)
StreamFairness ==
  /\ WF_streamVars(Deliver)
  /\ WF_streamVars(PauseOver)
  /\ WF_streamVars(Reconnect)

-----------------------------------------------------------------------------
(* The events of the script of r that the timeline has an entry for.        *)
StagesOf(r) == Cardinality({n \in 1..Len(script[r]) : script[r][n].eventType \in Timed})

(* Requests interleave on the stream, and what the graph shows is always    *)
(* the story of one request: its entries are all of that request, in the    *)
(* order they were published, from its first one on; an attempt, a          *)
(* candidate or a terminal state shown has its entry.  While the connection *)
(* has not broken the story has no gap: once the request has published all  *)
(* and the view has caught up, every stage is there                         *)
(* (graph-reducer.ts reduce, useLiveEventStream.ts pump).                   *)
GraphShowsOneRequest ==
  LET timeline == graph.timeline
      count(kinds) == Cardinality({n \in 1..Len(timeline) : timeline[n].of.eventType \in kinds})
  IN  /\ \A n \in 1..Len(timeline) :
           /\ timeline[n].of.eventId = graph.eventId
           /\ n > 1 => timeline[n - 1].of.index < timeline[n].of.index
      /\ graph.eventId # None => timeline[1].of.eventType = "request.received"
      /\ Len(graph.candidates) = count({"candidate.evaluated", "candidate.excluded"})
      /\ Len(graph.attempts) = count({"execution.completed"})
      /\ graph.flow \in {"success", "failed"} => count(Terminal) = 1
      /\ ( /\ breaks = 0 /\ graph.eventId # None /\ wire = << >> /\ queue = << >>
           /\ published[graph.eventId] = Len(script[graph.eventId]) )
           => Len(timeline) = StagesOf(graph.eventId)

(* Whatever reaches the view is shown in the end: again and again the view  *)
(* has caught up, because the pump always comes back for the events that    *)
(* wait behind a paced one (useLiveEventStream.ts pump).                    *)
StreamIsShown == []<>(queue = << >>)
=============================================================================
