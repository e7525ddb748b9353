--------------------------- MODULE RetentionProofs --------------------------
(***************************************************************************)
(* What overlapping retention runs keep right, for any number of runs,     *)
(* every set of events and all lengths of days and retention periods.      *)
(***************************************************************************)
EXTENDS Retention, TLAPS

(* ------------------------------ Arithmetic ------------------------------- *)

(* Every time has a calendar day.                                           *)
LEMMA DayOfNat ==
  ASSUME NEW t \in Nat
  PROVE  DayOf(t) \in Nat
  BY RetentionAssumption, Z3 DEF DayOf

(* Every time up to the bound has one of the days that are modelled.        *)
LEMMA DayOfBounded ==
  ASSUME NEW t \in 0 .. MaxNow
  PROVE  DayOf(t) \in Days
  BY RetentionAssumption, Z3 DEF DayOf, Days

(* ------------------------------ Invariant -------------------------------- *)

(* What a run relies on between its statements: its cutoff lies a fidelity  *)
(* window back, and as long as it aggregates, all that has expired is summed *)
(* up or among the days still to be written; after that all of it is summed *)
(* up.                                                                      *)
Relies(l) ==
  /\ l.stage # "idle" => l.cutoff = 0 \/ l.cutoff + Fidelity <= now
  /\ l.stage = "acquire" => ~l.locked
  /\ l.rows \subseteq Stored
  /\ l.stage = "upsert" =>
       /\ Expired(l.cutoff) \subseteq l.rows
       /\ \A e \in l.rows : e \in summed \/ Day(e) \in l.todo
  /\ l.stage = "release" /\ ~l.failed => Expired(l.cutoff) \subseteq summed
  /\ l.stage = "delete" /\ l.locked => Expired(l.cutoff) \subseteq summed

JobInv(j) == Relies(job[j])

IInv == TypeOK /\ NeverOvercounted /\ KeptInFull /\ \A j \in Jobs : JobInv(j)

(* The database only moves on: time passes, what is summed stays so, an     *)
(* event keeps its received_at, and a new one is younger than any cutoff.   *)
MovesOn ==
  /\ now <= now' /\ summed \subseteq summed'
  /\ \A e \in Stored : received'[e] = received[e]
  /\ \A e \in events' : e \in events \/ received'[e] = now

(* A period before some time: the start of time, or the whole period        *)
(* earlier.                                                                 *)
LEMMA BeforeType ==
  ASSUME NEW a \in Nat, NEW b \in Nat
  PROVE  Before(a, b) \in Nat /\ (Before(a, b) = 0 \/ Before(a, b) + b <= a)
  BY DEF Before

(* A run that does not take the step keeps what it relies on.               *)
LEMMA JobKeeps ==
  ASSUME IInv, TypeOK', MovesOn, NEW j \in Jobs, job'[j] = job[j]
  PROVE  JobInv(j)'
  <1>1. /\ TypeOK /\ JobInv(j) /\ job[j] \in Locals
        /\ now \in Nat /\ now' \in Nat /\ job[j].cutoff \in Nat
    BY RetentionAssumption DEF IInv, TypeOK, Locals
  <1>2. ASSUME NEW e \in Stored
        PROVE  e \in Stored' /\ Day(e)' = Day(e)
    BY <1>2 DEF MovesOn, Stored, Day, NotYet
  <1>3. ASSUME job[j].stage # "idle", NEW e \in Expired(job[j].cutoff)'
        PROVE  e \in Expired(job[j].cutoff)
    <2>1. e \in events' /\ received'[e] < job[j].cutoff
      BY <1>3 DEF Expired
    <2>2. job[j].cutoff <= now
      BY <1>1, <1>3, RetentionAssumption DEF JobInv, Relies
    <2>3. e \in events
      BY <1>1, <2>1, <2>2 DEF MovesOn
    <2>4. received'[e] = received[e]
      BY <1>1, <2>3 DEF MovesOn, TypeOK
    <2>5. QED
      BY <2>1, <2>3, <2>4 DEF Expired
  <1>4. job[j].stage # "idle" => job[j].cutoff = 0 \/ job[j].cutoff + Fidelity <= now'
    BY <1>1, RetentionAssumption DEF JobInv, Relies, MovesOn
  <1>5. job[j].rows \subseteq Stored'
    BY <1>1, <1>2 DEF JobInv, Relies
  <1>6. ASSUME job[j].stage = "upsert"
        PROVE  /\ Expired(job[j].cutoff)' \subseteq job[j].rows
               /\ \A e \in job[j].rows : e \in summed' \/ Day(e)' \in job[j].todo
    <2>1. job[j].rows \subseteq Stored
      BY <1>1 DEF JobInv, Relies
    <2>2. QED
      BY <1>1, <1>2, <1>3, <1>6, <2>1 DEF JobInv, Relies, MovesOn
  <1>7. ASSUME \/ job[j].stage = "release" /\ ~job[j].failed
               \/ job[j].stage = "delete" /\ job[j].locked
        PROVE  Expired(job[j].cutoff)' \subseteq summed'
    BY <1>1, <1>3, <1>7 DEF JobInv, Relies, MovesOn
  <1>8. job[j].stage = "acquire" => ~job[j].locked
    BY <1>1 DEF JobInv, Relies
  <1>9. QED
    BY <1>4, <1>5, <1>6, <1>7, <1>8 DEF JobInv, Relies, Expired

(* Steps that change neither events nor rollups keep what is said of them.  *)
LEMMA CountsKept ==
  ASSUME IInv, TypeOK', MovesOn, rollups' = rollups,
         \A e \in Stored' : e \notin Stored => e \in events',
         events \subseteq events'
  PROVE  NeverOvercounted' /\ KeptInFull'
  <1>1. /\ TypeOK /\ NeverOvercounted /\ KeptInFull
        /\ now \in Nat /\ now' \in Nat /\ Fidelity \in Nat
    BY RetentionAssumption DEF IInv, TypeOK
  <1>2. ASSUME NEW e \in Stored
        PROVE  /\ e \in Stored' /\ Day(e)' = Day(e)
               /\ received'[e] = received[e] /\ received[e] \in Nat
    BY <1>1, RetentionAssumption DEF MovesOn, Stored, Day, NotYet, TypeOK
  <1>3. NeverOvercounted'
    BY <1>1, <1>2 DEF NeverOvercounted, Days
  <1>4. ASSUME NEW e \in Stored', e \notin events'
        PROVE  received'[e] + Fidelity < now'
    <2>1. e \in Stored /\ e \notin events
      BY <1>4
    <2>2. received[e] + Fidelity < now
      BY <1>1, <2>1 DEF KeptInFull
    <2>3. QED
      BY <1>1, <1>2, <2>1, <2>2 DEF MovesOn
  <1>5. QED
    BY <1>3, <1>4 DEF KeptInFull

(* A run that has not started relies on nothing.                            *)
LEMMA RestingRelies ==
  ASSUME TypeOK
  PROVE  Resting \in Locals /\ Relies(Resting)
  BY DEF Resting, Locals, Stage, Relies

(* A statement that changes no table: it is enough to look at the run that  *)
(* executes it.                                                             *)
LEMMA JobStep ==
  ASSUME IInv, NEW j \in Jobs, NEW l \in Locals,
         job' = [job EXCEPT ![j] = l], lock' \in Jobs \union {"free"},
         UNCHANGED << now, received, events, rollups, summed >>,
         l.stage \in {"select", "upsert"} => l.locked, Relies(l)
  PROVE  IInv'
  <1>1. TypeOK /\ now \in Nat
    BY RetentionAssumption DEF IInv, TypeOK
  <1>2. TypeOK'
    BY <1>1 DEF TypeOK, Stored
  <1>3. MovesOn
    BY <1>1 DEF MovesOn
  <1>4. NeverOvercounted' /\ KeptInFull'
    BY <1>2, <1>3, CountsKept DEF Stored
  <1>5. ASSUME NEW k \in Jobs
        PROVE  JobInv(k)'
    <2>1. CASE k = j
      <3>1. job'[k] = l
        BY <1>1, <2>1 DEF TypeOK
      <3>2. QED
        BY <3>1 DEF JobInv, Relies, Expired, Stored, Day
    <2>2. CASE k # j
      BY <1>1, <1>2, <1>3, <2>2, JobKeeps DEF TypeOK
    <2>3. QED
      BY <2>1, <2>2
  <1>6. QED
    BY <1>2, <1>4, <1>5 DEF IInv

(* A run fixes its cutoff a fidelity window back (retention.ts 36-39).      *)
LEMMA StartSound ==
  ASSUME IInv, NEW j \in Jobs, Start(j)
  PROVE  IInv'
  <1> DEFINE l == [Resting EXCEPT !.stage = "acquire", !.cutoff = Cutoff,
                                  !.prune = DayOf(Before(now, RollupKept))]
  <1>1. TypeOK /\ now \in Nat /\ Fidelity \in Nat /\ RollupKept \in Nat
    BY RetentionAssumption DEF IInv, TypeOK
  <1>2. /\ Cutoff \in Nat /\ (Cutoff = 0 \/ Cutoff + Fidelity <= now)
        /\ DayOf(Before(now, RollupKept)) \in Nat
    BY <1>1, BeforeType, DayOfNat DEF Cutoff
  <1>3. /\ l \in Locals /\ l.stage = "acquire" /\ l.cutoff = Cutoff
        /\ l.rows = {} /\ ~l.locked
    BY <1>2 DEF Resting, Locals, Stage
  <1>4. Relies(l)
    BY <1>2, <1>3 DEF Relies
  <1>5. QED
    BY <1>1, <1>3, <1>4, JobStep DEF Start, TypeOK

(* A run aggregates only if it gets the lock (rollup.ts 31-32).             *)
LEMMA AcquireSound ==
  ASSUME IInv, NEW j \in Jobs, Acquire(j)
  PROVE  IInv'
  <1>1. TypeOK /\ job[j] \in Locals /\ Relies(job[j]) /\ job[j].stage = "acquire"
    BY DEF IInv, TypeOK, JobInv, Acquire
  <1>2. CASE lock' = j /\ job' = [job EXCEPT ![j].stage = "select", ![j].locked = TRUE]
    <2> DEFINE l == [job[j] EXCEPT !.stage = "select", !.locked = TRUE]
    <2>1. /\ l \in Locals /\ l.stage = "select" /\ l.locked
          /\ l.cutoff = job[j].cutoff /\ l.rows = job[j].rows
      BY <1>1 DEF Locals, Stage
    <2>2. Relies(l)
      BY <1>1, <2>1 DEF Relies
    <2>3. job' = [job EXCEPT ![j] = l]
      BY <1>2
    <2>4. QED
      BY <1>2, <2>1, <2>2, <2>3, JobStep DEF Acquire
  <1>3. CASE job' = [job EXCEPT ![j].stage = "delete"] /\ lock # "free" /\ lock' = lock
    <2> DEFINE l == [job[j] EXCEPT !.stage = "delete"]
    <2>1. /\ l \in Locals /\ l.stage = "delete" /\ ~l.locked
          /\ l.cutoff = job[j].cutoff /\ l.rows = job[j].rows
      BY <1>1 DEF Locals, Stage, Relies
    <2>2. Relies(l)
      BY <1>1, <2>1 DEF Relies
    <2>3. job' = [job EXCEPT ![j] = l]
      BY <1>3
    <2>4. lock' \in Jobs \union {"free"}
      BY <1>1, <1>3 DEF TypeOK
    <2>5. QED
      BY <2>1, <2>2, <2>3, <2>4, JobStep DEF Acquire
  <1>4. QED
    BY <1>2, <1>3 DEF Acquire

(* What the aggregation selects is all that has expired, and the days to be *)
(* written cover it.                                                        *)
LEMMA SelectSound ==
  ASSUME IInv, NEW j \in Jobs, Select(j)
  PROVE  IInv'
  <1> DEFINE rows == Expired(job[j].cutoff)
             l == [job[j] EXCEPT
                     !.stage = IF rows = {} THEN "release" ELSE "upsert",
                     !.rows = rows, !.todo = {Day(e) : e \in rows}]
  <1>1. /\ TypeOK /\ job[j] \in Locals /\ Relies(job[j])
        /\ job[j].stage = "select" /\ job[j].locked
    BY DEF IInv, TypeOK, JobInv, Select
  <1>2. rows \subseteq Stored /\ rows \subseteq Events
    BY <1>1 DEF Expired, TypeOK, Stored
  <1>3. {Day(e) : e \in rows} \subseteq Days
    <2>1. ASSUME NEW e \in rows
          PROVE  Day(e) \in Days
      <3>1. received[e] \in 0 .. MaxNow
        BY <1>1, <1>2 DEF TypeOK, Stored
      <3>2. QED
        BY <3>1, DayOfBounded DEF Day
    <2>2. QED
      BY <2>1
  <1>4. /\ l \in Locals /\ l.cutoff = job[j].cutoff /\ l.locked
        /\ l.rows = rows /\ l.todo = {Day(e) : e \in rows}
        /\ l.stage = IF rows = {} THEN "release" ELSE "upsert"
    BY <1>1, <1>2, <1>3 DEF Locals, Stage
  <1>5. Relies(l)
    BY <1>1, <1>2, <1>4 DEF Relies
  <1>6. job' = [job EXCEPT ![j] = l]
    BY DEF Select
  <1>7. lock' \in Jobs \union {"free"}
    BY <1>1 DEF Select, TypeOK
  <1>8. QED
    BY <1>4, <1>5, <1>6, <1>7, JobStep DEF Select

(* Letting go of the lock keeps what has been summed up.                    *)
LEMMA ReleaseSound ==
  ASSUME IInv, NEW j \in Jobs, Release(j)
  PROVE  IInv'
  <1> DEFINE done == [job[j] EXCEPT !.stage = "delete", !.rows = {}]
             l == IF job[j].failed THEN Resting ELSE done
  <1>1. TypeOK /\ job[j] \in Locals /\ Relies(job[j]) /\ job[j].stage = "release"
    BY DEF IInv, TypeOK, JobInv, Release
  <1>2. l \in Locals /\ l.stage \in {"idle", "delete"} /\ Relies(l)
    <2>1. CASE job[j].failed
      BY <1>1, <2>1, RestingRelies DEF Resting
    <2>2. CASE ~job[j].failed
      <3>1. /\ done \in Locals /\ done.stage = "delete" /\ done.rows = {}
            /\ done.cutoff = job[j].cutoff
        BY <1>1 DEF Locals, Stage
      <3>2. Relies(done)
        BY <1>1, <2>2, <3>1 DEF Relies
      <3>3. QED
        BY <2>2, <3>1, <3>2
    <2>3. QED
      BY <2>1, <2>2
  <1>3. job' = [job EXCEPT ![j] = l]
    BY DEF Release
  <1>4. lock' \in Jobs \union {"free"}
    BY <1>1 DEF Release, TypeOK
  <1>5. UNCHANGED << now, received, events, rollups, summed >>
    BY DEF Release
  <1>6. l.stage \notin {"select", "upsert"}
    BY <1>2
  <1> HIDE DEF l
  <1>7. QED
    BY <1>2, <1>3, <1>4, <1>5, <1>6, JobStep

(* A run that fails while aggregating never gets to its deletions.          *)
LEMMA FailSound ==
  ASSUME IInv, NEW j \in Jobs, Fail(j)
  PROVE  IInv'
  <1> DEFINE failing == [job[j] EXCEPT !.stage = "release", !.failed = TRUE]
             l == IF job[j].stage \in {"select", "upsert"} THEN failing ELSE Resting
  <1>1. TypeOK /\ job[j] \in Locals /\ Relies(job[j])
    BY DEF IInv, TypeOK, JobInv
  <1>2. l \in Locals /\ l.stage \notin {"select", "upsert"} /\ Relies(l)
    <2>1. CASE job[j].stage \in {"select", "upsert"}
      <3>1. /\ failing \in Locals /\ failing.stage = "release" /\ failing.failed
            /\ failing.cutoff = job[j].cutoff /\ failing.rows = job[j].rows
        BY <1>1 DEF Locals, Stage
      <3>2. Relies(failing)
        BY <1>1, <2>1, <3>1 DEF Relies
      <3>3. QED
        BY <2>1, <3>1, <3>2
    <2>2. CASE job[j].stage \notin {"select", "upsert"}
      BY <1>1, <2>2, RestingRelies DEF Resting
    <2>3. QED
      BY <2>1, <2>2
  <1>3. job' = [job EXCEPT ![j] = l]
    BY DEF Fail
  <1>4. lock' \in Jobs \union {"free"}
    BY <1>1 DEF Fail, TypeOK
  <1>5. UNCHANGED << now, received, events, rollups, summed >>
    BY DEF Fail
  <1> HIDE DEF l
  <1>6. QED
    BY <1>2, <1>3, <1>4, <1>5, JobStep

(* Neither does one whose process dies.                                     *)
LEMMA CrashSound ==
  ASSUME IInv, NEW j \in Jobs, Crash(j)
  PROVE  IInv'
  <1>1. TypeOK
    BY DEF IInv
  <1>2. Resting \in Locals /\ Relies(Resting) /\ Resting.stage = "idle"
    BY <1>1, RestingRelies DEF Resting
  <1>3. lock' \in Jobs \union {"free"}
    BY <1>1 DEF Crash, TypeOK
  <1>4. QED
    BY <1>2, <1>3, JobStep DEF Crash

(* A new record has not expired for any run under way.                      *)
LEMMA StoreSound ==
  ASSUME IInv, NEW e \in Events, Store(e)
  PROVE  IInv'
  <1>1. /\ TypeOK /\ now \in 0 .. MaxNow /\ MaxNow \in Nat /\ received[e] = NotYet
        /\ received' = [received EXCEPT ![e] = now]
        /\ events' = events \union {e}
        /\ UNCHANGED << now, rollups, lock, job, summed >>
    BY RetentionAssumption DEF IInv, TypeOK, Store
  <1>2. Stored' = Stored \union {e} /\ e \notin Stored
    BY <1>1 DEF Stored, NotYet, TypeOK
  <1>3. TypeOK'
    BY <1>1, <1>2 DEF TypeOK, NotYet
  <1>4. MovesOn
    BY <1>1, <1>2 DEF MovesOn, TypeOK
  <1>5. NeverOvercounted' /\ KeptInFull'
    BY <1>1, <1>2, <1>3, <1>4, CountsKept
  <1>6. \A j \in Jobs : JobInv(j)'
    BY <1>1, <1>3, <1>4, JobKeeps
  <1>7. QED
    BY <1>3, <1>5, <1>6 DEF IInv

(* Time passes or the session with the lock ends.                           *)
LEMMA OutsideSound ==
  ASSUME IInv, Tick \/ SessionEnds
  PROVE  IInv'
  <1>1. /\ TypeOK /\ MaxNow \in Nat
        /\ now' \in 0 .. MaxNow /\ now <= now' /\ lock' \in Jobs \union {"free"}
        /\ UNCHANGED << received, events, rollups, job, summed >>
    BY RetentionAssumption DEF IInv, TypeOK, Tick, SessionEnds
  <1>2. TypeOK'
    BY <1>1 DEF TypeOK, Stored
  <1>3. MovesOn
    BY <1>1 DEF MovesOn
  <1>4. NeverOvercounted' /\ KeptInFull'
    BY <1>1, <1>2, <1>3, CountsKept DEF Stored
  <1>5. \A j \in Jobs : JobInv(j)'
    BY <1>1, <1>2, <1>3, JobKeeps
  <1>6. QED
    BY <1>2, <1>4, <1>5 DEF IInv

(* The row of a day counts each selected event of the day once, and what it *)
(* counted before is replaced.                                              *)
LEMMA UpsertSound ==
  ASSUME IInv, NEW j \in Jobs, NEW d \in Days, Upsert(j, d)
  PROVE  IInv'
  <1> DEFINE l == [job[j] EXCEPT
                     !.todo = @ \ {d},
                     !.stage = IF job[j].todo = {d} THEN "release" ELSE "upsert"]
  <1>1. /\ TypeOK /\ NeverOvercounted /\ KeptInFull
        /\ job[j] \in Locals /\ Relies(job[j]) /\ job[j].stage = "upsert"
        /\ job[j].locked /\ now \in Nat
    BY DEF IInv, TypeOK, JobInv, Upsert
  <1>2. /\ UNCHANGED << now, received, events, lock >>
        /\ summed' = summed \union RowsOf(j, d)
        /\ rollups' = [rollups EXCEPT ![d] = Upserted(j, d)]
        /\ job' = [job EXCEPT ![j] = l]
    BY DEF Upsert
  <1>3. RowsOf(j, d) \subseteq Stored /\ job[j].rows \subseteq Stored
    BY <1>1 DEF Relies, RowsOf
  <1>4. /\ l \in Locals /\ l.rows = job[j].rows /\ l.todo = job[j].todo \ {d}
        /\ l.cutoff = job[j].cutoff /\ l.locked
        /\ l.stage = IF job[j].todo = {d} THEN "release" ELSE "upsert"
    BY <1>1 DEF Locals, Stage
  <1>5. Upserted(j, d) \in [Events -> Nat]
    BY DEF Upserted
  <1>6. TypeOK'
    <2>1. job' \in [Jobs -> Locals]
      BY <1>1, <1>2, <1>4 DEF TypeOK
    <2>2. \A k \in Jobs : job'[k].stage \in {"select", "upsert"} => job'[k].locked
      BY <1>1, <1>2, <1>4 DEF TypeOK
    <2>3. rollups' \in [Days -> [Events -> Nat]] /\ summed' \subseteq Stored
      BY <1>1, <1>2, <1>3, <1>5 DEF TypeOK
    <2>4. QED
      BY <1>1, <1>2, <2>1, <2>2, <2>3 DEF TypeOK, Stored
  <1>7. NeverOvercounted'
    <2>1. ASSUME NEW x \in Days, NEW e \in Events, rollups'[x][e] > 0
          PROVE  rollups'[x][e] = 1 /\ e \in Stored /\ Day(e) = x
      <3>1. CASE x = d
        <4>1. rollups'[x][e] = IF e \in RowsOf(j, d) THEN 1 ELSE 0
          BY <1>1, <1>2, <3>1 DEF TypeOK, Upserted
        <4>2. e \in RowsOf(j, d)
          BY <2>1, <4>1
        <4>3. QED
          BY <1>3, <3>1, <4>1, <4>2 DEF RowsOf
      <3>2. CASE x # d
        BY <1>1, <1>2, <2>1, <3>2 DEF TypeOK, NeverOvercounted
      <3>3. QED
        BY <3>1, <3>2
    <2>2. QED
      BY <1>2, <2>1 DEF NeverOvercounted, Stored, Day, Days
  <1>8. KeptInFull'
    BY <1>1, <1>2 DEF KeptInFull, Stored
  <1>9. MovesOn
    BY <1>1, <1>2 DEF MovesOn
  <1>10. ASSUME NEW k \in Jobs
         PROVE  JobInv(k)'
    <2>1. CASE k = j
      <3>1. job'[k] = l
        BY <1>1, <1>2, <2>1 DEF TypeOK
      <3>2. \A e \in job[j].rows :
              e \in summed \union RowsOf(j, d) \/ Day(e) \in job[j].todo \ {d}
        BY <1>1 DEF Relies, RowsOf
      <3>3. Expired(job[j].cutoff) \subseteq job[j].rows
        BY <1>1 DEF Relies
      <3>4. job[j].todo = {d} => Expired(job[j].cutoff) \subseteq summed'
        BY <1>2, <3>2, <3>3
      <3>5. l.stage # "idle" => l.cutoff = 0 \/ l.cutoff + Fidelity <= now
        BY <1>1, <1>4 DEF Relies
      <3> HIDE DEF l
      <3>6. QED
        BY <1>2, <1>3, <1>4, <3>1, <3>2, <3>3, <3>4, <3>5
           DEF JobInv, Relies, Expired, Stored, Day
    <2>2. CASE k # j
      BY <1>1, <1>2, <1>6, <1>9, <2>2, JobKeeps DEF TypeOK
    <2>3. QED
      BY <2>1, <2>2
  <1>11. QED
    BY <1>6, <1>7, <1>8, <1>10 DEF IInv

(* Events are deleted that are older than the cutoff, hence older than the  *)
(* fidelity window.                                                         *)
LEMMA DeleteEventsSound ==
  ASSUME IInv, NEW j \in Jobs, DeleteEvents(j)
  PROVE  IInv'
  <1> DEFINE l == [job[j] EXCEPT !.stage = "prune"]
  <1>1. /\ TypeOK /\ NeverOvercounted /\ KeptInFull
        /\ job[j] \in Locals /\ Relies(job[j]) /\ job[j].stage = "delete"
        /\ now \in Nat /\ Fidelity \in Nat /\ Fidelity > 0
    BY RetentionAssumption DEF IInv, TypeOK, JobInv, DeleteEvents
  <1>2. /\ UNCHANGED << now, received, rollups, lock, summed >>
        /\ events' = events \ Expired(job[j].cutoff)
        /\ job' = [job EXCEPT ![j] = l]
    BY DEF DeleteEvents
  <1>3. /\ l \in Locals /\ l.stage = "prune" /\ l.rows = job[j].rows
        /\ l.cutoff = job[j].cutoff
    BY <1>1 DEF Locals, Stage
  <1>4. TypeOK'
    <2>1. job' \in [Jobs -> Locals]
      BY <1>1, <1>2, <1>3 DEF TypeOK
    <2>2. \A k \in Jobs : job'[k].stage \in {"select", "upsert"} => job'[k].locked
      BY <1>1, <1>2, <1>3 DEF TypeOK
    <2>3. QED
      BY <1>1, <1>2, <2>1, <2>2 DEF TypeOK, Stored
  <1>5. NeverOvercounted'
    BY <1>1, <1>2 DEF NeverOvercounted, Stored, Day, Days
  <1>6. KeptInFull'
    <2>1. ASSUME NEW e \in Expired(job[j].cutoff)
          PROVE  received[e] + Fidelity < now
      <3>1. received[e] \in Nat /\ received[e] < job[j].cutoff
        BY <1>1, <2>1, RetentionAssumption DEF Expired, TypeOK, Stored, NotYet
      <3>2. job[j].cutoff \in Nat /\ job[j].cutoff + Fidelity <= now
        BY <1>1, <3>1 DEF Relies, Locals
      <3>3. QED
        BY <1>1, <3>1, <3>2
    <2>2. QED
      BY <1>1, <1>2, <2>1 DEF KeptInFull, Stored
  <1>7. MovesOn
    BY <1>1, <1>2 DEF MovesOn
  <1>8. ASSUME NEW k \in Jobs
        PROVE  JobInv(k)'
    <2>1. CASE k = j
      <3>1. job'[k] = l
        BY <1>1, <1>2, <2>1 DEF TypeOK
      <3> HIDE DEF l
      <3>2. QED
        BY <1>1, <1>2, <1>3, <3>1 DEF JobInv, Relies, Expired, Stored, Day
    <2>2. CASE k # j
      BY <1>1, <1>2, <1>4, <1>7, <2>2, JobKeeps DEF TypeOK
    <2>3. QED
      BY <2>1, <2>2
  <1>9. QED
    BY <1>4, <1>5, <1>6, <1>8 DEF IInv

(* Deleting rollups counts nothing in addition.                             *)
LEMMA DeleteRollupsSound ==
  ASSUME IInv, NEW j \in Jobs, DeleteRollups(j)
  PROVE  IInv'
  <1>1. /\ TypeOK /\ NeverOvercounted /\ KeptInFull /\ now \in Nat
        /\ Resting \in Locals /\ Relies(Resting) /\ Resting.stage = "idle"
    BY RestingRelies DEF IInv, TypeOK, Resting
  <1>2. /\ UNCHANGED << now, received, events, lock, summed >>
        /\ rollups' = [d \in Days |-> IF d < job[j].prune THEN NoRow ELSE rollups[d]]
        /\ job' = [job EXCEPT ![j] = Resting]
    BY DEF DeleteRollups
  <1>3. NoRow \in [Events -> Nat] /\ \A e \in Events : NoRow[e] = 0
    BY DEF NoRow
  <1>4. TypeOK'
    <2>1. rollups' \in [Days -> [Events -> Nat]]
      BY <1>1, <1>2, <1>3 DEF TypeOK
    <2>2. /\ job' \in [Jobs -> Locals]
          /\ \A k \in Jobs : job'[k].stage \in {"select", "upsert"} => job'[k].locked
      BY <1>1, <1>2 DEF TypeOK
    <2>3. QED
      BY <1>1, <1>2, <2>1, <2>2 DEF TypeOK, Stored
  <1>5. NeverOvercounted'
    <2>1. ASSUME NEW d \in Days, NEW e \in Events, rollups'[d][e] > 0
          PROVE  rollups'[d][e] = rollups[d][e]
      BY <1>2, <1>3, <2>1
    <2>2. QED
      BY <1>1, <1>2, <2>1 DEF NeverOvercounted, Stored, Day, Days
  <1>6. KeptInFull'
    BY <1>1, <1>2 DEF KeptInFull, Stored
  <1>7. MovesOn
    BY <1>1, <1>2 DEF MovesOn
  <1>8. ASSUME NEW k \in Jobs
        PROVE  JobInv(k)'
    <2>1. CASE k = j
      <3>1. job'[k] = Resting
        BY <1>1, <1>2, <2>1 DEF TypeOK
      <3>2. QED
        BY <3>1 DEF JobInv, Relies, Resting
    <2>2. CASE k # j
      BY <1>1, <1>2, <1>4, <1>7, <2>2, JobKeeps DEF TypeOK
    <2>3. QED
      BY <2>1, <2>2
  <1>9. QED
    BY <1>4, <1>5, <1>6, <1>8 DEF IInv

(* Steps of others change nothing here.                                     *)
LEMMA StutterSound ==
  ASSUME IInv, UNCHANGED vars
  PROVE  IInv'
  BY DEF IInv, vars, TypeOK, NeverOvercounted, KeptInFull, JobInv, Relies, Expired,
         Stored, Day, Days, NotYet, Locals

(* The invariant holds in an empty database.                                *)
LEMMA InitSound == Init => IInv
  <1> SUFFICES ASSUME Init
               PROVE  IInv
    OBVIOUS
  <1>1. /\ \A e \in Events : received[e] = NotYet
        /\ Stored = {} /\ NoRow \in [Events -> Nat]
    BY DEF Init, Stored, NoRow
  <1>2. Resting \in Locals /\ Resting.stage = "idle" /\ Resting.rows = {}
    BY DEF Resting, Locals, Stage
  <1>3. TypeOK
    BY <1>1, <1>2, RetentionAssumption DEF Init, TypeOK
  <1>4. NeverOvercounted
    BY DEF Init, NeverOvercounted, NoRow
  <1>5. KeptInFull
    BY <1>1 DEF KeptInFull
  <1>6. \A j \in Jobs : JobInv(j)
    BY <1>2, <1>3, RestingRelies DEF Init, JobInv
  <1>7. QED
    BY <1>3, <1>4, <1>5, <1>6 DEF IInv

(* Every step keeps it.                                                     *)
LEMMA StepSound == IInv /\ [Next]_vars => IInv'
  <1> SUFFICES ASSUME IInv, [Next]_vars
               PROVE  IInv'
    OBVIOUS
  <1>1. CASE \E e \in Events : Store(e)
    BY <1>1, StoreSound
  <1>2. CASE Tick \/ SessionEnds
    BY <1>2, OutsideSound
  <1>3. ASSUME NEW j \in Jobs, Start(j) \/ Acquire(j) \/ Select(j) \/ Release(j)
        PROVE  IInv'
    BY <1>3, StartSound, AcquireSound, SelectSound, ReleaseSound
  <1>4. ASSUME NEW j \in Jobs, NEW d \in Days, Upsert(j, d)
        PROVE  IInv'
    BY <1>4, UpsertSound
  <1>5. ASSUME NEW j \in Jobs, DeleteEvents(j) \/ DeleteRollups(j)
        PROVE  IInv'
    BY <1>5, DeleteEventsSound, DeleteRollupsSound
  <1>6. ASSUME NEW j \in Jobs, Fail(j) \/ Crash(j)
        PROVE  IInv'
    BY <1>6, FailSound, CrashSound
  <1>7. CASE UNCHANGED vars
    BY <1>7, StutterSound
  <1>8. QED
    BY <1>1, <1>2, <1>3, <1>4, <1>5, <1>6, <1>7 DEF Next

(* The inductive invariant holds throughout.                                *)
THEOREM Invariance == Spec => []IInv
  BY InitSound, StepSound, PTL DEF Spec

(* ------------------------------ Theorems --------------------------------- *)

(* The job's state is well-typed, and only a run that got the advisory lock *)
(* aggregates (rollup.ts 31-32).                                            *)
THEOREM RetentionTypeCorrect == Spec => []TypeOK
  <1>1. IInv => TypeOK
    BY DEF IInv
  <1>2. QED
    BY <1>1, Invariance, PTL

(* However many runs overlap, fail and crash, no rollup counts an event     *)
(* twice or in the wrong day (rollup.ts 150-166).                           *)
THEOREM CountedOnce == Spec => []NeverOvercounted
  <1>1. IInv => NeverOvercounted
    BY DEF IInv
  <1>2. QED
    BY <1>1, Invariance, PTL

(* No run deletes an event within its fidelity window (retention.ts 40-41,  *)
(* rollup.ts 176-182).                                                      *)
THEOREM FullFidelity == Spec => []KeptInFull
  <1>1. IInv => KeptInFull
    BY DEF IInv
  <1>2. QED
    BY <1>1, Invariance, PTL

(* A run that got the lock deletes only events that have been summed up     *)
(* (retention.ts 40-46).                                                    *)
THEOREM SumsFirst == Spec => LockedRunSumsFirst
  <1>1. ASSUME IInv, [Next]_vars, NEW j \in Jobs,
               job[j].stage = "delete", job'[j].stage = "prune", job[j].locked
        PROVE  events \ events' \subseteq summed
    <2>1. TypeOK /\ Relies(job[j])
      BY <1>1 DEF IInv, JobInv
    <2>2. DeleteEvents(j) \/ events \subseteq events'
      <3>1. ASSUME NEW k \in Jobs, DeleteEvents(k), k # j
            PROVE  FALSE
        BY <1>1, <2>1, <3>1 DEF DeleteEvents, TypeOK
      <3>2. QED
        BY <1>1, <3>1 DEF Next, vars, Store, Tick, SessionEnds, Start, Acquire, Select,
                          Upsert, Release, DeleteRollups, Fail, Crash
    <2>3. CASE DeleteEvents(j)
      BY <1>1, <2>1, <2>3 DEF DeleteEvents, Relies
    <2>4. QED
      BY <2>2, <2>3
  <1>2. IInv /\ [Next]_vars =>
          [ \A j \in Jobs :
              job[j].stage = "delete" /\ job'[j].stage = "prune" /\ job[j].locked =>
                events \ events' \subseteq summed ]_vars
    BY <1>1
  <1>3. QED
    BY <1>2, Invariance, PTL DEF Spec, LockedRunSumsFirst
=============================================================================
