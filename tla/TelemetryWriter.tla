-------------------------- MODULE TelemetryWriter ---------------------------
(***************************************************************************)
(* createTelemetryWriter (packages/persistence/src/telemetry/write.ts): a  *)
(* buffer, a flush timer and at most one INSERT in flight, driven by       *)
(* write() calls, the timer and close().                                   *)
(*                                                                         *)
(* A flushNow() that finds an INSERT in flight waits for it.  When the     *)
(* INSERT settles, its owner and all waiters resume in the order they came *)
(* in, in one run of the microtask queue, hence in one step: the first one *)
(* takes whatever is buffered, the others find the buffer empty.           *)
(***************************************************************************)
EXTENDS Naturals, Sequences

CONSTANTS
  Events,    (* redacted telemetry records                                   *)
  BatchSize  (* TelemetryWriterOptions.batchSize                             *)

ASSUME WriterAssumption == BatchSize \in Nat \ {0}

VARIABLES
  buffer,   (* records waiting for the next INSERT, oldest first             *)
  timer,    (* whether the flush timer is armed                              *)
  batch,    (* rows of the INSERT in flight                                  *)
  owner,    (* whose flushNow() started it, "none" when none is in flight    *)
  waiters,  (* the flushNow() calls awaiting it, in order                    *)
  closed,   (* close() was called                                            *)
  closing,  (* the promise close() returned                                  *)
  stored,   (* rows of telemetry_events, in insertion order                  *)
  lost      (* records of batches whose INSERT failed                        *)

writerVars ==
  << buffer, timer, batch, owner, waiters, closed, closing, stored, lost >>

Caller == {"write", "timer", "close"}

Members(s) == {s[i] : i \in DOMAIN s}

(* The promise of close(), given the calls a step resumes and their fate.   *)
Resumed(callers, fate) == IF "close" \in callers THEN fate ELSE closing

Init ==
  /\ buffer = << >> /\ timer = FALSE
  /\ batch = << >> /\ owner = "none" /\ waiters = << >>
  /\ closed = FALSE /\ closing = "none"
  /\ stored = << >> /\ lost = {}

-----------------------------------------------------------------------------
(* flushNow().                                                              *)

(* Faulty variant: the buffer is not swapped out.                           *)
Insert_BufferKept(caller, rows) ==
  /\ batch' = rows /\ owner' = caller
  /\ buffer' = rows /\ timer' = FALSE

(* All that is buffered goes into one INSERT.                               *)
Insert(caller, rows) ==
  /\ batch' = rows /\ owner' = caller
  /\ buffer' = << >> /\ timer' = FALSE

(* Called with rows buffered and the timer armed or not.                    *)
FlushNow(caller, rows, armed) ==
  \/ /\ owner # "none"
     /\ waiters' = Append(waiters, caller)
     /\ closing' = Resumed({caller}, "pending")
     /\ buffer' = rows /\ timer' = armed
     /\ UNCHANGED << batch, owner >>
  \/ /\ owner = "none" /\ rows = << >>
     /\ closing' = Resumed({caller}, "resolved")
     /\ buffer' = rows /\ timer' = armed
     /\ UNCHANGED << batch, owner, waiters >>
  \/ /\ owner = "none" /\ rows # << >>
     /\ Insert(caller, rows)
     /\ closing' = Resumed({caller}, "pending")
     /\ UNCHANGED waiters

-----------------------------------------------------------------------------
Accepted == Members(buffer) \union Members(batch) \union Members(stored) \union lost

(* Faulty variant: no timer while an INSERT is in flight, as if its end     *)
(* would flush again.                                                       *)
Write_LeftToInFlight(e) ==
  LET rows == Append(buffer, e)
  IN  /\ ~closed
      /\ \/ /\ Len(rows) >= BatchSize
            /\ FlushNow("write", rows, timer)
         \/ /\ Len(rows) < BatchSize
            /\ buffer' = rows /\ timer' = (timer \/ owner = "none")
            /\ UNCHANGED << batch, owner, waiters, closing >>
      /\ UNCHANGED << closed, stored, lost >>

(* write(): a full buffer is flushed at once, any other within the timer.   *)
Write(e) ==
  LET rows == Append(buffer, e)
  IN  /\ ~closed
      /\ \/ /\ Len(rows) >= BatchSize
            /\ FlushNow("write", rows, timer)
         \/ /\ Len(rows) < BatchSize
            /\ buffer' = rows /\ timer' = TRUE
            /\ UNCHANGED << batch, owner, waiters, closing >>
      /\ UNCHANGED << closed, stored, lost >>

TimerFires ==
  /\ timer
  /\ FlushNow("timer", buffer, FALSE)
  /\ UNCHANGED << closed, stored, lost >>

(* Faulty variant: close() only stops the timer.                            *)
Close_NoFlush ==
  /\ ~closed /\ closed' = TRUE
  /\ timer' = FALSE /\ closing' = "resolved"
  /\ UNCHANGED << buffer, batch, owner, waiters, stored, lost >>

(* close(), called once, at shutdown.                                       *)
Close ==
  /\ ~closed /\ closed' = TRUE
  /\ FlushNow("close", buffer, FALSE)
  /\ UNCHANGED << stored, lost >>

(* Faulty variant: the calls that waited for the INSERT never return.       *)
InsertSucceeds_WaitersForgotten ==
  /\ owner # "none"
  /\ stored' = stored \o batch
  /\ batch' = << >> /\ owner' = "none" /\ waiters' = << >>
  /\ closing' = Resumed({owner}, "resolved")
  /\ UNCHANGED << buffer, timer, closed, lost >>

(* The INSERT is committed: its owner is done, the first waiter flushes     *)
(* what has come in meanwhile, the others have nothing left to do.          *)
InsertSucceeds ==
  /\ owner # "none"
  /\ stored' = stored \o batch
  /\ \/ /\ waiters # << >> /\ buffer # << >>
        /\ Insert(Head(waiters), buffer)
        /\ closing' = Resumed({owner} \union Members(Tail(waiters)), "resolved")
     \/ /\ waiters = << >> \/ buffer = << >>
        /\ batch' = << >> /\ owner' = "none"
        /\ closing' = Resumed({owner} \union Members(waiters), "resolved")
        /\ UNCHANGED << buffer, timer >>
  /\ waiters' = << >>
  /\ UNCHANGED << closed, lost >>

(* Faulty variant: the calls that waited for the INSERT go on waiting.      *)
InsertFails_WaitersKept ==
  /\ owner # "none"
  /\ lost' = lost \union Members(batch)
  /\ batch' = << >> /\ owner' = "none"
  /\ closing' = Resumed({owner}, "rejected")
  /\ UNCHANGED << buffer, timer, waiters, closed, stored >>

(* The INSERT fails: its rows are dropped, and owner and waiters reject     *)
(* without flushing.                                                        *)
InsertFails ==
  /\ owner # "none"
  /\ lost' = lost \union Members(batch)
  /\ batch' = << >> /\ owner' = "none" /\ waiters' = << >>
  /\ closing' = Resumed({owner} \union Members(waiters), "rejected")
  /\ UNCHANGED << buffer, timer, closed, stored >>

(* The writer in any environment that hands it no record twice.             *)
Next ==
  \/ \E e \in Events : e \notin Accepted /\ Write(e)
  \/ TimerFires \/ Close \/ InsertSucceeds \/ InsertFails

Spec == Init /\ [][Next]_writerVars

-----------------------------------------------------------------------------
(* Properties.                                                              *)

(* The state is well-typed; an INSERT has rows, and calls wait only for an  *)
(* INSERT in flight (write.ts 32-37, 66-68).                                *)
TypeOK ==
  /\ buffer \in Seq(Events) /\ batch \in Seq(Events) /\ stored \in Seq(Events)
  /\ timer \in BOOLEAN /\ closed \in BOOLEAN
  /\ owner \in Caller \union {"none"} /\ waiters \in Seq(Caller)
  /\ closing \in {"none", "pending", "resolved", "rejected"}
  /\ lost \subseteq Events
  /\ owner = "none" <=> batch = << >>
  /\ owner = "none" => waiters = << >>

(* The writer is a first-in first-out line of records, whatever the         *)
(* interleaving of its callers with the INSERT in flight.                   *)
Log == INSTANCE TelemetryLog WITH pending <- batch \o buffer

ImplementsLog == Log!Spec

(* Once close() has settled well, nothing accepted waits in the buffer: it  *)
(* is in the database or in the INSERT in flight (write.ts 96-103).         *)
ClosedIsFlushed == closing = "resolved" => buffer = << >>

(* write.ts:8, "Max ms to buffer before flushing": as long as no INSERT has *)
(* failed, buffered records have a flush coming to them: the timer is armed *)
(* or a flushNow() waits for its turn.  After a failure they need not: a    *)
(* timer's flushNow() that waited for the failed INSERT rejects without     *)
(* flushing and nothing arms the timer again before the next write.         *)
FlushIsDue ==
  buffer # << >> /\ ~closed /\ lost = {} => timer \/ waiters # << >>
=============================================================================
