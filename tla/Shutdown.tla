------------------------------ MODULE Shutdown ------------------------------
(***************************************************************************)
(* The signal handler of packages/api/src/index.ts, run concurrently with  *)
(* the requests, live-stream subscribers and telemetry writer of the       *)
(* process: close the writer, then the HTTP server, then the database      *)
(* pool, then exit.                                                        *)
(*                                                                         *)
(* app.close() stops listening and waits for every open connection that is *)
(* not idle; destroying the pool waits for the query in flight.  Both are  *)
(* libraries, modelled by that.                                            *)
(***************************************************************************)
EXTENDS TelemetryWriter

CONSTANTS
  Streams,      (* clients of GET /v1/telemetry/events/stream               *)
  InsertsFail   (* whether the database may fail an INSERT                  *)

ASSUME ShutdownAssumption == InsertsFail \in BOOLEAN

VARIABLES
  stage,    (* "up", then what the signal handler awaits, then the end       *)
  request,  (* request[e]: the completion whose record is e                  *)
  open      (* the stream clients that are connected                         *)

vars == << writerVars, stage, request, open >>

Stage == {"up", "writer", "http", "database", "exited", "crashed"}

Dead == {"exited", "crashed"}

Listening == stage \in {"up", "writer"}

ShutdownInit ==
  /\ Init
  /\ stage = "up" /\ open = {}
  /\ request = [e \in Events |-> "absent"]

-----------------------------------------------------------------------------
Arrive(e) ==
  /\ Listening /\ request[e] = "absent"
  /\ request' = [request EXCEPT ![e] = "executing"]
  /\ UNCHANGED << writerVars, stage, open >>

(* Faulty variant: a record is accepted after close().                      *)
HandOver_EvenClosed(e) ==
  \/ ~closed /\ Write(e)
  \/ /\ closed
     /\ buffer' = Append(buffer, e) /\ timer' = TRUE
     /\ UNCHANGED << batch, owner, waiters, closed, closing, stored, lost >>

(* telemetryWriter.write(...).catch(log): a closed writer throws.           *)
HandOver(e) == Write(e) \/ (closed /\ UNCHANGED writerVars)

(* The completion route hands its record over and answers the client; it    *)
(* does not wait for the write.                                             *)
Answer(e) ==
  /\ stage \notin Dead /\ request[e] = "executing"
  /\ HandOver(e)
  /\ request' = [request EXCEPT ![e] = "answered"]
  /\ UNCHANGED << stage, open >>

Subscribe(s) ==
  /\ Listening /\ s \notin open
  /\ open' = open \union {s}
  /\ UNCHANGED << writerVars, stage, request >>

(* Only the client ends its stream: the heartbeat keeps it alive.           *)
Unsubscribe(s) ==
  /\ stage \notin Dead /\ s \in open
  /\ open' = open \ {s}
  /\ UNCHANGED << writerVars, stage, request >>

WriterStep ==
  /\ stage \notin Dead
  /\ TimerFires \/ InsertSucceeds \/ (InsertsFail /\ InsertFails)
  /\ UNCHANGED << stage, request, open >>

-----------------------------------------------------------------------------
(* SIGINT or SIGTERM; a second signal of the other kind is left out.        *)
Signal ==
  /\ stage = "up" /\ stage' = "writer"
  /\ Close
  /\ UNCHANGED << request, open >>

Await(from, to, condition) ==
  /\ stage = from /\ condition
  /\ stage' = to
  /\ UNCHANGED << writerVars, request, open >>

WriterClosed == Await("writer", "http", closing = "resolved")

(* The handler's promise rejects unhandled, which ends the process.         *)
CloseRejected == Await("writer", "crashed", closing = "rejected")

HttpClosed ==
  Await("http", "database",
        open = {} /\ \A e \in Events : request[e] # "executing")

DatabaseClosed == Await("database", "exited", owner = "none")

ShutdownNext ==
  \/ \E e \in Events : Arrive(e) \/ Answer(e)
  \/ \E s \in Streams : Subscribe(s) \/ Unsubscribe(s)
  \/ WriterStep
  \/ Signal \/ WriterClosed \/ CloseRejected \/ HttpClosed \/ DatabaseClosed

ShutdownSpec == ShutdownInit /\ [][ShutdownNext]_vars

(* The process gets on with what it has started: requests are answered (see *)
(* Completions), timers fire, INSERTs settle, promises are awaited.  Nobody *)
(* has to signal, and no stream client has to leave.                        *)
Fairness ==
  /\ \A e \in Events : WF_vars(Answer(e))
  /\ WF_vars(WriterStep)
  /\ WF_vars(WriterClosed \/ CloseRejected \/ HttpClosed \/ DatabaseClosed)

FairSpec == ShutdownSpec /\ Fairness

-----------------------------------------------------------------------------
(* Properties.                                                              *)

(* The state is well-typed and the writer is as TypeOK says.                *)
ShutdownTypeOK ==
  /\ TypeOK
  /\ stage \in Stage /\ open \subseteq Streams
  /\ request \in [Events -> {"absent", "executing", "answered"}]

(* A regular exit abandons nothing the writer accepted, although close()    *)
(* may resolve while an INSERT started by another caller is in flight       *)
(* (write.ts 31-35, index.ts 88-91).                                        *)
ExitAbandonsNothing == stage = "exited" => buffer = << >> /\ batch = << >>

(* As long as no INSERT fails, every record the writer accepted reaches the *)
(* database, whatever it overlaps with: other flushes, or the shutdown.     *)
Drains ==
  \A e \in Events : e \in Members(buffer) ~> (e \in Members(stored) \/ lost # {})

(* The shutdown comes to an end unless stream clients keep it waiting.      *)
ShutdownEnds ==
  \/ stage = "writer" ~> stage \in Dead
  \/ []<>(open # {})

(* docs/operations.md:177: on a signal the API "flushes the batched         *)
(* telemetry writer, then closes the HTTP server and database pool and      *)
(* exits 0".                                                                *)
ShutsDownGracefully == stage = "writer" ~> stage = "exited"

(* specs/001-llm-routing-mvp/spec.md:176, SC-001: all requests handled      *)
(* produce a telemetry record.  Here: when the process has exited and the   *)
(* database never failed, every answered request is recorded.               *)
EveryAnswerRecorded ==
  stage = "exited" /\ lost = {} =>
    \A e \in Events : request[e] = "answered" => e \in Members(stored)
=============================================================================
