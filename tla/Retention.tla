----------------------------- MODULE Retention ------------------------------
(***************************************************************************)
(* The telemetry retention job (packages/persistence/src/telemetry/        *)
(* retention.ts and rollup.ts): runs that overlap, because there are       *)
(* several replicas or because one run outlasts the interval, on one       *)
(* database.  Every SQL statement is one step and commits by itself.       *)
(*                                                                         *)
(* An event stands for its row and a daily rollup for the multiset of      *)
(* events its sums were taken over; the (provider, model) part of the key  *)
(* is the same for all events here.                                        *)
(***************************************************************************)
EXTENDS Naturals, FiniteSets

CONSTANTS
  Jobs,        (* runs of the job that may overlap                           *)
  Events,      (* telemetry events                                           *)
  DayLength,   (* clock ticks in a calendar day                              *)
  Fidelity,    (* fullFidelityDays, in ticks                                 *)
  RollupKept,  (* rollupRetentionDays, in ticks                              *)
  MaxNow       (* bound of the clock                                         *)

ASSUME RetentionAssumption ==
  /\ DayLength \in Nat \ {0} /\ Fidelity \in Nat \ {0}
  /\ RollupKept \in Nat /\ RollupKept >= Fidelity
  /\ MaxNow \in Nat

(* received_at of an event that has not come in.                           *)
NotYet == MaxNow + 1

VARIABLES
  now,
  received,  (* received[e]: received_at of event e, or NotYet               *)
  events,    (* rows of telemetry_events                                     *)
  rollups,   (* rollups[d][e]: how often the row of day d counts event e     *)
  lock,      (* whose session holds the advisory lock, or "free"             *)
  job,       (* job[j]: where the run j is, and its locals                   *)
  summed     (* history: events some rollup row was written from             *)

vars == << now, received, events, rollups, lock, job, summed >>

Days == 0 .. MaxNow \div DayLength

DayOf(time) == time \div DayLength

(* The rollup day of event e.                                               *)
Day(e) == DayOf(received[e])

Stage ==
  {"idle", "acquire", "select", "upsert", "release", "delete", "prune"}

Locals ==
  [ stage : Stage,
    cutoff : Nat,            (* events received before it are expired        *)
    prune : Nat,             (* rollups of days before it are expired        *)
    rows : SUBSET Events,    (* what the aggregation selected                *)
    todo : SUBSET Days,      (* days whose rollup is still to be written     *)
    locked : BOOLEAN,        (* the lock was acquired                        *)
    failed : BOOLEAN ]       (* a statement failed: release, then give up    *)

Resting ==
  [ stage |-> "idle", cutoff |-> 0, prune |-> 0, rows |-> {}, todo |-> {},
    locked |-> FALSE, failed |-> FALSE ]

NoRow == [e \in Events |-> 0]

Init ==
  /\ now = 0 /\ received = [e \in Events |-> NotYet]
  /\ events = {} /\ rollups = [d \in Days |-> NoRow]
  /\ lock = "free" /\ job = [j \in Jobs |-> Resting]
  /\ summed = {}

-----------------------------------------------------------------------------
(* The world around the job.                                                *)

(* A record is stored well within its fidelity window, so that its          *)
(* received_at counts as the time it is stored.                             *)
Store(e) ==
  /\ received[e] = NotYet
  /\ received' = [received EXCEPT ![e] = now]
  /\ events' = events \union {e}
  /\ UNCHANGED << now, rollups, lock, job, summed >>

Tick ==
  /\ now < MaxNow /\ now' = now + 1
  /\ UNCHANGED << received, events, rollups, lock, job, summed >>

-----------------------------------------------------------------------------
(* runOnce(), statement by statement.                                       *)

Before(a, b) == IF a < b THEN 0 ELSE a - b

Expired(cutoff) == {e \in events : received[e] < cutoff}

(* Faulty variant: the cutoff is rounded up to the end of its day.          *)
Cutoff_DayEnd == (DayOf(Before(now, Fidelity)) + 1) * DayLength

Cutoff == Before(now, Fidelity)

Start(j) ==
  /\ job[j].stage = "idle"
  /\ job' = [job EXCEPT ![j] =
               [Resting EXCEPT !.stage = "acquire", !.cutoff = Cutoff,
                               !.prune = DayOf(Before(now, RollupKept))]]
  /\ UNCHANGED << now, received, events, rollups, lock, summed >>

(* Faulty variant: the result of pg_try_advisory_lock is not looked at.     *)
Acquire_ResultIgnored(j) ==
  /\ job[j].stage = "acquire"
  /\ job' = [job EXCEPT ![j].stage = "select", ![j].locked = lock \in {"free", j}]
  /\ lock' = IF lock = "free" THEN j ELSE lock
  /\ UNCHANGED << now, received, events, rollups, summed >>

(* pg_try_advisory_lock.  A session that still holds the lock gets it       *)
(* again, but the pool may hand the run another session.                    *)
Acquire(j) ==
  /\ job[j].stage = "acquire"
  /\ \/ /\ lock \in {"free", j}
        /\ lock' = j
        /\ job' = [job EXCEPT ![j].stage = "select", ![j].locked = TRUE]
     \/ /\ lock # "free"
        /\ job' = [job EXCEPT ![j].stage = "delete"]
        /\ UNCHANGED lock
  /\ UNCHANGED << now, received, events, rollups, summed >>

Select(j) ==
  LET rows == Expired(job[j].cutoff)
  IN  /\ job[j].stage = "select"
      /\ job' = [job EXCEPT
                   ![j].stage = IF rows = {} THEN "release" ELSE "upsert",
                   ![j].rows = rows, ![j].todo = {Day(e) : e \in rows}]
      /\ UNCHANGED << now, received, events, rollups, lock, summed >>

RowsOf(j, d) == {e \in job[j].rows : Day(e) = d}

(* Faulty variant: the conflicting row is added to, not replaced.           *)
Upserted_Added(j, d) ==
  [e \in Events |-> rollups[d][e] + (IF e \in RowsOf(j, d) THEN 1 ELSE 0)]

(* INSERT ... ON CONFLICT DO UPDATE SET every column.                       *)
Upserted(j, d) == [e \in Events |-> IF e \in RowsOf(j, d) THEN 1 ELSE 0]

Upsert(j, d) ==
  /\ job[j].stage = "upsert" /\ d \in job[j].todo
  /\ rollups' = [rollups EXCEPT ![d] = Upserted(j, d)]
  /\ summed' = summed \union RowsOf(j, d)
  /\ job' = [job EXCEPT
               ![j].todo = @ \ {d},
               ![j].stage = IF job[j].todo = {d} THEN "release" ELSE "upsert"]
  /\ UNCHANGED << now, received, events, lock >>

(* pg_advisory_unlock, in whatever session the pool picks: in another than  *)
(* the one that holds the lock it is a no-op.                               *)
Release(j) ==
  /\ job[j].stage = "release"
  /\ lock' \in (IF lock = j THEN {"free", j} ELSE {lock})
  /\ job' = [job EXCEPT ![j] = IF job[j].failed THEN Resting
                                ELSE [@ EXCEPT !.stage = "delete", !.rows = {}]]
  /\ UNCHANGED << now, received, events, rollups, summed >>

(* Faulty variant: the cutoff is taken again for the deletion.              *)
DeleteEvents_NewCutoff(j) ==
  /\ job[j].stage = "delete"
  /\ events' = events \ Expired(Cutoff)
  /\ job' = [job EXCEPT ![j].stage = "prune"]
  /\ UNCHANGED << now, received, rollups, lock, summed >>

DeleteEvents(j) ==
  /\ job[j].stage = "delete"
  /\ events' = events \ Expired(job[j].cutoff)
  /\ job' = [job EXCEPT ![j].stage = "prune"]
  /\ UNCHANGED << now, received, rollups, lock, summed >>

DeleteRollups(j) ==
  /\ job[j].stage = "prune"
  /\ rollups' = [d \in Days |-> IF d < job[j].prune THEN NoRow ELSE rollups[d]]
  /\ job' = [job EXCEPT ![j] = Resting]
  /\ UNCHANGED << now, received, events, lock, summed >>

(* A statement fails: the run gives up, after releasing the lock if it is   *)
(* in the section that holds it.                                            *)
Fail(j) ==
  /\ job[j].stage # "idle"
  /\ job' = [job EXCEPT ![j] =
               IF job[j].stage \in {"select", "upsert"}
                 THEN [@ EXCEPT !.stage = "release", !.failed = TRUE] ELSE Resting]
  /\ UNCHANGED << now, received, events, rollups, lock, summed >>

(* The session that holds the lock ends: the pool closes it for being idle, *)
(* while its job uses other sessions or long after the job is over.         *)
SessionEnds ==
  /\ lock # "free" /\ lock' = "free"
  /\ UNCHANGED << now, received, events, rollups, job, summed >>

(* The process of job j dies, its sessions with it.                         *)
Crash(j) ==
  /\ job[j].stage # "idle"
  /\ job' = [job EXCEPT ![j] = Resting]
  /\ lock' = IF lock = j THEN "free" ELSE lock
  /\ UNCHANGED << now, received, events, rollups, summed >>

Next ==
  \/ \E e \in Events : Store(e)
  \/ Tick
  \/ \E j \in Jobs :
       \/ Start(j) \/ Acquire(j) \/ Select(j) \/ Release(j)
       \/ \E d \in Days : Upsert(j, d)
       \/ DeleteEvents(j) \/ DeleteRollups(j) \/ Fail(j) \/ Crash(j)
  \/ SessionEnds

Spec == Init /\ [][Next]_vars

-----------------------------------------------------------------------------
(* Properties.                                                              *)

Stored == {e \in Events : received[e] # NotYet}

(* The state is well-typed, and only a run that got the lock aggregates     *)
(* (rollup.ts 31-32).                                                       *)
TypeOK ==
  /\ now \in 0 .. MaxNow
  /\ received \in [Events -> (0 .. MaxNow) \union {NotYet}]
  /\ events \subseteq Stored /\ summed \subseteq Stored
  /\ rollups \in [Days -> [Events -> Nat]]
  /\ lock \in Jobs \union {"free"}
  /\ job \in [Jobs -> Locals]
  /\ \A j \in Jobs : job[j].stage \in {"select", "upsert"} => job[j].locked

(* No event is counted twice, and none in the wrong day, however runs       *)
(* overlap, fail, crash and repeat each other's work (rollup.ts 150-166).   *)
NeverOvercounted ==
  \A d \in Days, e \in Events :
    rollups[d][e] > 0 => rollups[d][e] = 1 /\ e \in Stored /\ Day(e) = d

(* A record is kept in full for the whole fidelity window (retention.ts     *)
(* 40-41, rollup.ts 176-182).                                               *)
KeptInFull ==
  \A e \in Stored : e \notin events => received[e] + Fidelity < now

(* A run that got the lock deletes only what has been summed up before,     *)
(* although events go on expiring between its statements (retention.ts      *)
(* 40-46).                                                                  *)
LockedRunSumsFirst ==
  [][ \A j \in Jobs :
        job[j].stage = "delete" /\ job'[j].stage = "prune" /\ job[j].locked =>
          events \ events' \subseteq summed ]_vars

(* docs/operations.md:500, "Rollups outlive the underlying events", and     *)
(* contracts/telemetry.md:105-107, requestCount is the number of all events *)
(* of the day: a rollup that counts a deleted event goes on counting it     *)
(* until it expires itself.                                                 *)
RollupsOutliveEvents ==
  [][ \A d \in Days : \A e \in Events \ events :
        rollups[d][e] > 0 /\ rollups'[d][e] = 0 =>
          d < DayOf(Before(now, RollupKept)) ]_vars

(* docs/operations.md:175: retention runs "under a Postgres advisory lock,  *)
(* so multiple replicas coexist safely".  Here: whatever is deleted has     *)
(* been aggregated at some time before.                                     *)
SummedBeforeDeleted == Stored \ events \subseteq summed
=============================================================================
