------------------------- MODULE CompletionsProofs --------------------------
(***************************************************************************)
(* The completion route's invariants, and that it uses the circuit breaker *)
(* as the breaker is specified and keeps the per-request contract, for any *)
(* number of concurrent requests, any providers, decisions and policies.   *)
(***************************************************************************)
EXTENDS Completions, FiniteSetTheorems, SequenceTheorems, TLAPS

(* The breaker's own lemmas, for the breaker this route uses.               *)
Proved == INSTANCE CircuitBreakerProofs WITH
  Callers <- Requests, calls <- [r \in Requests |-> CallOf(r)]

(* ------------------------- Inductive invariant --------------------------- *)

Undecided == {"new", "catalog", "rules"}
Planned == {"budgets", "audit"}
Executing == InFlight \union {"settled"}

EventType ==
  { "request.received", "governance.completed", "budget.evaluated",
    "decision.committed", "execution.started", "execution.completed",
    "result.completed", "result.failed", "event.completed" }

EventLog == Seq(EventType)

Record ==
  [ decisionSource : DecisionSource, effectiveProviderId : Providers,
    attempts : Seq(Attempt), terminalErrorClass : ErrorClass ]

StateTyped ==
  /\ policy \in Policies /\ enabled \in BOOLEAN
  /\ entries \in [Providers -> Breaker!Entry]
  /\ req \in [Requests -> Locals]
  /\ chain \in [Requests -> Seq(Attempt)]
  /\ stream \in [Requests -> EventLog]
  /\ telemetry \in [Requests -> Seq(Record)]
  /\ status \in [Requests -> {0, 200, 400, 422, 429, 500, 502}]
  /\ deadlineExhausted \in Nat

(* Every entry's count, slot and state agree: without it recordOutcome      *)
(* could count past the threshold.                                          *)
EntriesCoherent == \A p \in Providers : Proved!Coherent(entries[p])

(* What the handler's locals say at each stage: a decision once there is    *)
(* one, a provider while it is called, and never a retry too many.          *)
LocalsSound(r) ==
  /\ req[r].retry <= policy.maxRetries
  /\ req[r].stage \in Planned \union Executing => req[r].decision \in Decisions
  /\ req[r].stage \in InFlight => req[r].provider \in Providers
  /\ req[r].stage = "backoff" => req[r].retry < policy.maxRetries

(* No timer outlasts the deadline, and the deadline gate halts.             *)
DeadlineSound(r) ==
  /\ policy.requestDeadlineMs > 0 /\ req[r].stage \in InFlight =>
       req[r].timer <= req[r].remaining
  /\ req[r].deadlineHit => req[r].halted

(* A second candidate is only tried after a first failure of autopilot that *)
(* called for it.                                                           *)
SecondIsFallback(r) ==
  chain[r][1].errorClass \in FALLBACK_ELIGIBLE /\ req[r].decision.source = "autopilot"

ChainSound(r) ==
  LET l == Len(chain[r])
  IN  /\ req[r].stage \in Undecided \union Planned => l = 0
      /\ req[r].stage \in InFlight => l = 0 \/ (l = 1 /\ SecondIsFallback(r))
      /\ req[r].stage = "settled" => l = 1 \/ (l = 2 /\ SecondIsFallback(r))
      /\ req[r].stage = "answered" =>
           l <= 2 /\ (l = 2 => chain[r][1].errorClass \in FALLBACK_ELIGIBLE)

(* The record's own share in AnswersAgree.                                  *)
RecordAgrees(r) ==
  LET record == telemetry[r][1]
  IN  /\ status[r] = 200 <=> record.terminalErrorClass = "none"
      /\ \E i \in DOMAIN record.attempts :
           /\ record.attempts[i].provider = record.effectiveProviderId
           /\ IF status[r] = 200 THEN record.attempts[i].errorClass = "none" ELSE i = 1

(* Until it is answered a request has no status and no record; a refusal    *)
(* leaves none either.                                                      *)
AnswerSound(r) ==
  /\ req[r].stage = "answered" <=> status[r] # 0
  /\ IF status[r] \in {200, 502} THEN Len(telemetry[r]) = 1 /\ RecordAgrees(r)
                                 ELSE telemetry[r] = << >>

StreamSound(r) ==
  /\ Count("execution.completed", r) = Ran(r)
  /\ Count("execution.started", r)
       = Ran(r) + (IF req[r].stage \in InFlight THEN 1 ELSE 0)
  /\ Count("result.completed", r) = (IF status[r] = 200 THEN 1 ELSE 0)
  /\ Count("result.failed", r) = (IF status[r] = 502 THEN 1 ELSE 0)

Sound(r) ==
  LocalsSound(r) /\ DeadlineSound(r) /\ ChainSound(r) /\ AnswerSound(r) /\ StreamSound(r)

IInv ==
  StateTyped /\ EntriesCoherent /\ (\A r \in Requests : Sound(r)) /\ DeadlineCountIsSound

(* ------------------------------ Operators -------------------------------- *)

LEMMA BreakerAssumed == Proved!BreakerAssumption
  BY CompletionsAssumption DEF Proved!BreakerAssumption

(* The route's breaker and the one the lemmas are about are the same.       *)
LEMMA SameBreaker ==
  /\ Breaker!Entry = Proved!Entry
  /\ Breaker!FreshEntry = Proved!FreshEntry
  /\ \A e : Breaker!Acquired(e) = Proved!Acquired(e)
  /\ \A e : Breaker!Aged(e) = Proved!Aged(e)
  /\ \A e, err : Breaker!Recorded(e, err) = Proved!Recorded(e, err)
  BY DEF Breaker!Entry, Breaker!CircuitState, Breaker!FreshEntry, Breaker!Acquired,
         Breaker!Probes, Breaker!Aged, Breaker!Recorded, Breaker!ProbeResolved,
         Breaker!StreakCounted, Breaker!Opened, Breaker!TRIPPING,
         Proved!Entry, Proved!CircuitState, Proved!FreshEntry, Proved!Acquired,
         Proved!Probes, Proved!Aged, Proved!Recorded, Proved!ProbeResolved,
         Proved!StreakCounted, Proved!Opened, Proved!TRIPPING

(* What an acquire, an outcome and the clock make of an entry keeps it well *)
(* formed and coherent.                                                     *)
LEMMA EntryKept ==
  ASSUME NEW e \in Breaker!Entry, Proved!Coherent(e)
  PROVE  /\ Breaker!Acquired(e) \in Breaker!Entry /\ Proved!Coherent(Breaker!Acquired(e))
         /\ Breaker!Aged(e) \in Breaker!Entry /\ Proved!Coherent(Breaker!Aged(e))
         /\ \A err : /\ Breaker!Recorded(e, err) \in Breaker!Entry
                     /\ Proved!Coherent(Breaker!Recorded(e, err))
  <1>1. e \in Proved!Entry
    BY SameBreaker
  <1>2. e.state = "closed" => e.consecutiveFailures # FailureThreshold
    BY DEF Proved!Coherent
  <1>3. /\ Proved!Acquired(e) \in Proved!Entry /\ Proved!Coherent(Proved!Acquired(e))
        /\ Proved!Aged(e) \in Proved!Entry /\ Proved!Coherent(Proved!Aged(e))
    BY <1>1, BreakerAssumed, Proved!AcquiredType, Proved!AcquiredCoherent,
       Proved!AgedType, Proved!AgedCoherent
  <1>4. ASSUME NEW err
        PROVE  /\ Proved!Recorded(e, err) \in Proved!Entry
               /\ Proved!Coherent(Proved!Recorded(e, err))
    BY <1>1, <1>2, BreakerAssumed, Proved!RecordedType, Proved!RecordedCoherent
  <1>5. QED
    BY <1>3, <1>4, SameBreaker

(* Sequences of at most two elements of a set.                              *)
LEMMA ShortSequences ==
  ASSUME NEW S, NEW a \in S, NEW b \in S
  PROVE  << >> \in Seq(S) /\ << a >> \in Seq(S) /\ << a, b >> \in Seq(S)
  <1>1. << >> \in Seq(S)
    OBVIOUS
  <1>2. << a >> \in Seq(S)
    <2>1. << a >> = Append(<< >>, a)
      OBVIOUS
    <2>2. QED
      BY <1>1, <2>1
  <1>3. << a, b >> \in Seq(S)
    <2>1. << a, b >> = Append(<< a >>, b)
      OBVIOUS
    <2>2. QED
      BY <1>2, <2>1
  <1>4. QED
    BY <1>1, <1>2, <1>3

(* Where the elements of T stand in a sequence, and how their number grows  *)
(* with one more element.                                                   *)
Places(s, T) == {i \in DOMAIN s : s[i] \in T}

(* The places of a kind in a sequence are finitely many.                    *)
LEMMA PlacesFinite ==
  ASSUME NEW S, NEW s \in Seq(S), NEW T
  PROVE  IsFiniteSet(Places(s, T)) /\ Cardinality(Places(s, T)) \in Nat
  <1>1. IsFiniteSet(1 .. Len(s))
    BY FS_Interval
  <1>2. Places(s, T) \subseteq 1 .. Len(s)
    BY DEF Places
  <1>3. QED
    BY <1>1, <1>2, FS_Subset, FS_CardinalityType

(* An element appended adds one place, if it is of the kind.                *)
LEMMA PlacesGrow ==
  ASSUME NEW S, NEW s \in Seq(S), NEW e \in S, NEW T
  PROVE  Cardinality(Places(Append(s, e), T))
           = Cardinality(Places(s, T)) + (IF e \in T THEN 1 ELSE 0)
  <1>1. IsFiniteSet(Places(s, T)) /\ Cardinality(Places(s, T)) \in Nat
    BY PlacesFinite
  <1>2. CASE e \in T
    <2>1. /\ Places(Append(s, e), T) = Places(s, T) \union {Len(s) + 1}
          /\ Len(s) + 1 \notin Places(s, T)
      BY <1>2 DEF Places
    <2>2. QED
      BY <1>1, <1>2, <2>1, FS_AddElement
  <1>3. CASE e \notin T
    <2>1. Places(Append(s, e), T) = Places(s, T)
      BY <1>3 DEF Places
    <2>2. QED
      BY <1>1, <1>3, <2>1
  <1>4. QED
    BY <1>2, <1>3

(* The empty sequence has no places.                                        *)
LEMMA PlacesOfNone == \A T : Cardinality(Places(<< >>, T)) = 0
  BY FS_EmptySet DEF Places

(* What publishing some events, none of them twice, adds to the count of one. *)
LEMMA PublishedOnce ==
  ASSUME NEW s \in EventLog, NEW t \in EventLog, NEW kind,
         \A i, j \in DOMAIN t : t[i] = t[j] => i = j
  PROVE  Cardinality(Places(s \o t, {kind}))
           = Cardinality(Places(s, {kind})) + (IF \E i \in DOMAIN t : t[i] = kind THEN 1 ELSE 0)
  <1>1. IsFiniteSet(Places(s, {kind})) /\ Cardinality(Places(s, {kind})) \in Nat
    BY PlacesFinite DEF EventLog
  <1>2. CASE \E i \in DOMAIN t : t[i] = kind
    <2>1. PICK i \in DOMAIN t : t[i] = kind
      BY <1>2
    <2>2. /\ Places(s \o t, {kind}) = Places(s, {kind}) \union {Len(s) + i}
          /\ Len(s) + i \notin Places(s, {kind})
      BY <2>1 DEF Places, EventLog
    <2>3. QED
      BY <1>1, <1>2, <2>2, FS_AddElement
  <1>3. CASE ~ \E i \in DOMAIN t : t[i] = kind
    <2>1. Places(s \o t, {kind}) = Places(s, {kind})
      BY <1>3 DEF Places, EventLog
    <2>2. QED
      BY <1>1, <1>3, <2>1
  <1>4. QED
    BY <1>2, <1>3

(* What the invariants count are places in the stream and the chain.        *)
LEMMA CountIsPlaces ==
  /\ \A kind, r : Count(kind, r) = Cardinality(Places(stream[r], {kind}))
  /\ \A r \in Requests : StateTyped =>
       Ran(r) = Cardinality(Places(chain[r], {a \in Attempt : a.ran}))
  <1>1. ASSUME NEW kind, NEW r
        PROVE  Count(kind, r) = Cardinality(Places(stream[r], {kind}))
    <2>1. Places(stream[r], {kind}) = {i \in DOMAIN stream[r] : stream[r][i] = kind}
      BY DEF Places
    <2>2. QED
      BY <2>1 DEF Count
  <1>2. ASSUME NEW r \in Requests, StateTyped
        PROVE  Ran(r) = Cardinality(Places(chain[r], {a \in Attempt : a.ran}))
    <2>1. chain[r] \in Seq(Attempt)
      BY <1>2 DEF StateTyped
    <2>2. Places(chain[r], {a \in Attempt : a.ran})
            = {i \in DOMAIN chain[r] : chain[r][i].ran}
      BY <2>1 DEF Places
    <2>3. QED
      BY <2>2 DEF Ran
  <1>3. QED
    BY <1>1, <1>2

(* ------------------------------- Framing --------------------------------- *)

(* A step of r leaves every other request alone.                            *)
OnlyOf(r) ==
  /\ policy' = policy /\ enabled' = enabled
  /\ \A q \in Requests \ {r} :
       /\ req'[q] = req[q] /\ chain'[q] = chain[q] /\ stream'[q] = stream[q]
       /\ telemetry'[q] = telemetry[q] /\ status'[q] = status[q]

(* A request whose handler, chain, stream and record stay as they were is   *)
(* as sound as before.                                                      *)
LEMMA SoundFramed ==
  ASSUME NEW q \in Requests, Sound(q), policy' = policy,
         req'[q] = req[q], chain'[q] = chain[q], stream'[q] = stream[q],
         telemetry'[q] = telemetry[q], status'[q] = status[q]
  PROVE  Sound(q)'
  BY DEF Sound, LocalsSound, DeadlineSound, ChainSound, SecondIsFallback, AnswerSound,
         RecordAgrees, StreamSound, Count, Ran

Halted == {r \in Requests : req[r].stage = "answered" /\ req[r].halted}

(* When more requests have ended at their deadline and the counter stays,   *)
(* it still counts no more than them.                                       *)
LEMMA HaltedGrows ==
  ASSUME Halted \subseteq Halted', deadlineExhausted' = deadlineExhausted,
         StateTyped, DeadlineCountIsSound
  PROVE  DeadlineCountIsSound'
  <1>1. IsFiniteSet(Halted') /\ IsFiniteSet(Halted)
    BY CompletionsAssumption, FS_Subset DEF Halted
  <1>2. /\ Cardinality(Halted) <= Cardinality(Halted')
        /\ Cardinality(Halted) \in Nat /\ Cardinality(Halted') \in Nat
    BY <1>1, FS_Subset, FS_CardinalityType
  <1>3. QED
    BY <1>2 DEF DeadlineCountIsSound, Halted, StateTyped

(* What is left to show of a step of one request.                           *)
LEMMA StepOfOne ==
  ASSUME IInv, NEW r \in Requests, OnlyOf(r), StateTyped', EntriesCoherent', Sound(r)',
         req[r].stage # "answered", deadlineExhausted' = deadlineExhausted
  PROVE  IInv'
  <1>1. ASSUME NEW q \in Requests PROVE Sound(q)'
    BY SoundFramed DEF OnlyOf, IInv
  <1>2. Halted \subseteq Halted'
    BY DEF Halted, OnlyOf
  <1>3. DeadlineCountIsSound'
    BY <1>2, HaltedGrows DEF IInv
  <1>4. QED
    BY <1>1, <1>3 DEF IInv
(* -------------------------------- Steps ---------------------------------- *)

(* The events that Sound counts.                                            *)
Counted == {"execution.started", "execution.completed", "result.completed", "result.failed"}

(* The lists of events that tell none of them.                              *)
Quiet == { << >>, << "request.received" >>, << "governance.completed" >>,
           << "budget.evaluated" >>, << "decision.committed" >>,
           << "budget.evaluated", "decision.committed" >> }

(* Publishing events to the stream of one request leaves the others alone.  *)
LEMMA PublishedTyped ==
  ASSUME StateTyped, NEW r \in Requests, NEW types \in EventLog, Publish(r, types)
  PROVE  /\ stream' \in [Requests -> EventLog]
         /\ stream'[r] = stream[r] \o types
         /\ \A q \in Requests \ {r} : stream'[q] = stream[q]
  <1>1. stream[r] \in EventLog /\ stream' = [stream EXCEPT ![r] = @ \o types]
    BY DEF StateTyped, Publish
  <1>2. stream[r] \o types \in EventLog
    BY <1>1 DEF EventLog
  <1>3. QED
    BY <1>1, <1>2 DEF StateTyped

(* One event of a kind more, if it is among those published.                *)
LEMMA PublishCounts ==
  ASSUME StateTyped, NEW r \in Requests, NEW types \in EventLog, Publish(r, types),
         \A i, j \in DOMAIN types : types[i] = types[j] => i = j,
         NEW kind
  PROVE  /\ Count(kind, r) \in Nat
         /\ Count(kind, r)' = Count(kind, r) + (IF \E i \in DOMAIN types : types[i] = kind
                                                  THEN 1 ELSE 0)
  <1>1. stream'[r] = stream[r] \o types /\ stream[r] \in EventLog
    BY PublishedTyped DEF StateTyped
  <1>2. Count(kind, r)' = Cardinality(Places(stream'[r], {kind}))
    <2>1. Places(stream'[r], {kind}) = {i \in DOMAIN stream'[r] : stream'[r][i] = kind}
      BY DEF Places
    <2>2. QED
      BY <2>1 DEF Count
  <1>3. Count(kind, r) = Cardinality(Places(stream[r], {kind}))
    BY CountIsPlaces
  <1>4. Cardinality(Places(stream[r], {kind})) \in Nat
    BY <1>1, PlacesFinite DEF EventLog
  <1>5. Cardinality(Places(stream[r] \o types, {kind}))
          = Cardinality(Places(stream[r], {kind})) + (IF \E i \in DOMAIN types : types[i] = kind
                                                        THEN 1 ELSE 0)
    BY <1>1, PublishedOnce
  <1>6. QED
    BY <1>1, <1>2, <1>3, <1>4, <1>5

(* The quiet events are typed, come once each and are none of the counted.  *)
LEMMA QuietTyped ==
  ASSUME NEW types \in Quiet
  PROVE  /\ types \in EventLog
         /\ \A i, j \in DOMAIN types : types[i] = types[j] => i = j
         /\ \A kind \in Counted : ~ \E i \in DOMAIN types : types[i] = kind
  <1>1. types \in EventLog
    BY ShortSequences DEF Quiet, EventLog, EventType
  <1>2. \A i, j \in DOMAIN types : types[i] = types[j] => i = j
    BY DEF Quiet
  <1>3. \A kind \in Counted : ~ \E i \in DOMAIN types : types[i] = kind
    BY DEF Quiet, Counted
  <1>4. QED
    BY <1>1, <1>2, <1>3

(* Publishing quiet events changes none of the counts.                      *)
LEMMA QuietCounts ==
  ASSUME StateTyped, NEW r \in Requests, NEW types \in Quiet, Publish(r, types),
         NEW kind \in Counted
  PROVE  Count(kind, r)' = Count(kind, r)
  <1>1. /\ Count(kind, r) \in Nat
        /\ Count(kind, r)' = Count(kind, r) + (IF \E i \in DOMAIN types : types[i] = kind
                                                 THEN 1 ELSE 0)
    BY QuietTyped, PublishCounts
  <1>2. QED
    BY <1>1, QuietTyped

(* A handler that has returned keeps nothing but its halt.                  *)
LEMMA ReturnedTyped ==
  ASSUME NEW r, req[r] \in Locals
  PROVE  /\ Returned(r) \in Locals /\ Returned(r).stage = "answered" /\ Returned(r).retry = 0
         /\ ~Returned(r).deadlineHit /\ Returned(r).halted = req[r].halted
  <1>1. Fresh \in Locals
    BY DEF Fresh, Locals, Stage, CallOutcome
  <1>2. req[r].halted \in BOOLEAN
    BY DEF Locals
  <1>3. QED
    BY <1>1, <1>2 DEF Returned, Fresh, Locals, Stage

(* A request that leaves without an execution.                              *)
LEMMA RefusePreserves ==
  ASSUME IInv, NEW r \in Requests, req[r].stage \in Undecided \union Planned,
         NEW code \in {400, 422, 429, 500}, NEW types \in Quiet,
         Refuse(r, code, types), UNCHANGED << policy, enabled >>
  PROVE  IInv'
  <1>1. StateTyped /\ EntriesCoherent /\ Sound(r) /\ req[r] \in Locals
    BY DEF IInv, StateTyped
  <1>2. /\ req' = [req EXCEPT ![r] = Returned(r)]
        /\ status' = [status EXCEPT ![r] = code]
        /\ Publish(r, types)
        /\ UNCHANGED << policy, enabled, entries, chain, telemetry, deadlineExhausted >>
    BY DEF Refuse
  <1>3. /\ Returned(r) \in Locals /\ Returned(r).stage = "answered" /\ Returned(r).retry = 0
        /\ ~Returned(r).deadlineHit
    BY <1>1, ReturnedTyped
  <1>4. /\ \A kind \in Counted : Count(kind, r)' = Count(kind, r)
        /\ stream' \in [Requests -> EventLog]
        /\ \A q \in Requests \ {r} : stream'[q] = stream[q]
    BY <1>1, <1>2, QuietCounts, QuietTyped, PublishedTyped
  <1>5. StateTyped'
    <2>1. status' \in [Requests -> {0, 200, 400, 422, 429, 500, 502}]
      BY <1>1, <1>2 DEF StateTyped
    <2>2. req' \in [Requests -> Locals]
      BY <1>1, <1>2, <1>3 DEF StateTyped
    <2>3. QED
      BY <1>1, <1>2, <1>4, <2>1, <2>2 DEF StateTyped
  <1>6. /\ req'[r] = Returned(r) /\ status'[r] = code
        /\ chain'[r] = chain[r] /\ telemetry'[r] = telemetry[r]
    BY <1>1, <1>2 DEF StateTyped
  <1>7. status[r] = 0 /\ chain[r] = << >> /\ telemetry[r] = << >>
    BY <1>1 DEF Sound, AnswerSound, ChainSound, StateTyped, Undecided, Planned
  <1>8. Sound(r)'
    <2>1. LocalsSound(r)' /\ DeadlineSound(r)' /\ ChainSound(r)' /\ AnswerSound(r)'
      BY <1>1, <1>3, <1>6, <1>7, CompletionsAssumption
         DEF StateTyped, LocalsSound, DeadlineSound, ChainSound, AnswerSound, InFlight,
             Undecided, Planned, Executing, Policy
    <2>2. StreamSound(r)'
      BY <1>1, <1>2, <1>3, <1>4, <1>6, <1>7
         DEF Sound, StreamSound, InFlight, Undecided, Planned, Counted, Ran
    <2>3. QED
      BY <2>1, <2>2 DEF Sound
  <1>9. OnlyOf(r)
    BY <1>1, <1>2, <1>4 DEF OnlyOf, StateTyped, Publish
  <1>10. QED
    BY <1>1, <1>2, <1>5, <1>8, <1>9, StepOfOne DEF EntriesCoherent, Undecided, Planned
(* The timer of a call that starts is no longer than what is left.          *)
LEMMA DialledTyped ==
  ASSUME StateTyped, NEW l \in Locals
  PROVE  /\ Dialled(l) \in Locals /\ Dialled(l).stage = "calling"
         /\ Dialled(l).decision = l.decision /\ Dialled(l).provider = l.provider
         /\ Dialled(l).retry = l.retry /\ Dialled(l).remaining = l.remaining
         /\ Dialled(l).deadlineHit = l.deadlineHit /\ Dialled(l).halted = l.halted
         /\ Dialled(l).probe = l.probe
         /\ policy.requestDeadlineMs > 0 /\ ~Expired(l.remaining) =>
              Dialled(l).timer <= l.remaining
  <1>1. policy \in Policy /\ l.remaining \in Nat
    BY CompletionsAssumption DEF StateTyped, Locals
  <1>2. /\ EffectiveTimeout(l.remaining) \in Nat
        /\ policy.requestDeadlineMs > 0 /\ l.remaining # 0 =>
             EffectiveTimeout(l.remaining) <= l.remaining
    BY <1>1 DEF EffectiveTimeout, Capped, Lesser, Policy
  <1>3. QED
    BY <1>1, <1>2 DEF Dialled, Locals, Stage, CallOutcome, Expired

(* An attempt more in the chain.                                            *)
LEMMA ChainGrows ==
  ASSUME StateTyped, NEW r \in Requests, NEW a \in Attempt,
         chain' = [chain EXCEPT ![r] = Append(@, a)]
  PROVE  /\ chain' \in [Requests -> Seq(Attempt)]
         /\ chain'[r] = Append(chain[r], a)
         /\ \A q \in Requests \ {r} : chain'[q] = chain[q]
         /\ Len(chain'[r]) = Len(chain[r]) + 1 /\ Len(chain[r]) \in Nat
         /\ chain'[r][Len(chain'[r])] = a
         /\ Len(chain[r]) > 0 => chain'[r][1] = chain[r][1]
         /\ Ran(r) \in Nat
         /\ Ran(r)' = Ran(r) + (IF a.ran THEN 1 ELSE 0)
  <1> DEFINE T == {b \in Attempt : b.ran}
  <1>1. chain[r] \in Seq(Attempt)
    BY DEF StateTyped
  <1>2. /\ chain'[r] = Append(chain[r], a)
        /\ \A q \in Requests \ {r} : chain'[q] = chain[q]
        /\ chain' \in [Requests -> Seq(Attempt)]
    BY <1>1 DEF StateTyped
  <1>3. Ran(r)' = Cardinality(Places(chain'[r], T))
    <2>1. Places(chain'[r], T) = {i \in DOMAIN chain'[r] : chain'[r][i].ran}
      BY <1>1, <1>2 DEF Places
    <2>2. QED
      BY <2>1 DEF Ran
  <1>4. Ran(r) = Cardinality(Places(chain[r], T)) /\ Ran(r) \in Nat
    BY <1>1, CountIsPlaces, PlacesFinite
  <1>5. Cardinality(Places(Append(chain[r], a), T))
          = Cardinality(Places(chain[r], T)) + (IF a \in T THEN 1 ELSE 0)
    BY <1>1, PlacesGrow
  <1>6. a \in T <=> a.ran
    OBVIOUS
  <1>7. /\ Len(chain'[r]) = Len(chain[r]) + 1 /\ Len(chain[r]) \in Nat
        /\ chain'[r][Len(chain'[r])] = a
        /\ Len(chain[r]) > 0 => chain'[r][1] = chain[r][1]
    BY <1>1, <1>2
  <1>8. QED
    BY <1>2, <1>3, <1>4, <1>5, <1>6, <1>7

(* What the handler has to know when it turns to a candidate.               *)
MayTry(r, p, locals, before) ==
  /\ p \in Providers /\ locals \in Locals
  /\ before \in {<< >>, << "decision.committed" >>, << "budget.evaluated", "decision.committed" >>}
  /\ req[r].stage \in Planned \union {"settled"}
  /\ locals.decision = req[r].decision /\ locals.retry <= policy.maxRetries
  /\ locals.deadlineHit => locals.halted
  /\ chain[r] = << >> \/ (Len(chain[r]) = 1 /\ SecondIsFallback(r))

(* A candidate is skipped: an attempt that did not run, and no event.       *)
LEMMA SkipPreserves ==
  ASSUME IInv, NEW r \in Requests, NEW p, NEW locals, NEW before, MayTry(r, p, locals, before),
         NEW hit \in BOOLEAN,
         req' = [req EXCEPT ![r] = [locals EXCEPT !.stage = "settled",
                                      !.deadlineHit = @ \/ hit, !.halted = @ \/ hit]],
         Skipped(r, p), Publish(r, before),
         UNCHANGED << policy, enabled, entries, telemetry, status, deadlineExhausted >>
  PROVE  IInv'
  <1> DEFINE a == [provider |-> p, errorClass |-> "provider_unavailable", ran |-> FALSE]
             l == [locals EXCEPT !.stage = "settled", !.deadlineHit = @ \/ hit,
                                 !.halted = @ \/ hit]
  <1>1. StateTyped /\ Sound(r) /\ p \in Providers /\ locals \in Locals /\ before \in Quiet
    BY DEF IInv, MayTry, Quiet
  <1>2. a \in Attempt /\ ~a.ran /\ a.errorClass = "provider_unavailable"
    BY <1>1 DEF Attempt, CallOutcome
  <1>3. /\ l \in Locals /\ l.stage = "settled" /\ l.decision = req[r].decision
        /\ l.retry <= policy.maxRetries /\ (l.deadlineHit => l.halted)
    BY <1>1 DEF Locals, Stage, MayTry
  <1>4. /\ req' \in [Requests -> Locals] /\ req'[r] = l
        /\ \A q \in Requests \ {r} : req'[q] = req[q]
    BY <1>1, <1>3 DEF StateTyped
  <1>5. /\ \A kind \in Counted : Count(kind, r)' = Count(kind, r)
        /\ stream' \in [Requests -> EventLog]
        /\ \A q \in Requests \ {r} : stream'[q] = stream[q]
    BY <1>1, QuietCounts, QuietTyped, PublishedTyped
  <1>6. chain' = [chain EXCEPT ![r] = Append(@, a)]
    BY DEF Skipped
  <1> HIDE DEF a, l
  <1>7. /\ chain' \in [Requests -> Seq(Attempt)]
        /\ \A q \in Requests \ {r} : chain'[q] = chain[q]
        /\ Len(chain'[r]) = Len(chain[r]) + 1 /\ Len(chain[r]) \in Nat
        /\ Len(chain[r]) > 0 => chain'[r][1] = chain[r][1]
        /\ Ran(r)' = Ran(r)
    <2>1. Ran(r) \in Nat /\ Ran(r)' = Ran(r) + (IF a.ran THEN 1 ELSE 0)
      BY <1>1, <1>2, <1>6, ChainGrows
    <2>2. Ran(r)' = Ran(r)
      BY <1>2, <2>1
    <2>3. /\ chain' \in [Requests -> Seq(Attempt)]
          /\ \A q \in Requests \ {r} : chain'[q] = chain[q]
          /\ Len(chain'[r]) = Len(chain[r]) + 1 /\ Len(chain[r]) \in Nat
          /\ Len(chain[r]) > 0 => chain'[r][1] = chain[r][1]
      BY <1>1, <1>2, <1>6, ChainGrows
    <2>4. QED
      BY <2>2, <2>3
  <1>8. StateTyped'
    BY <1>1, <1>4, <1>5, <1>7 DEF StateTyped
  <1>9. status'[r] = status[r] /\ telemetry'[r] = telemetry[r] /\ policy' = policy
    OBVIOUS
  <1>10. req[r].stage \notin InFlight /\ req[r].stage # "answered"
    BY DEF MayTry, InFlight, Planned
  <1>11. LocalsSound(r)' /\ DeadlineSound(r)' /\ AnswerSound(r)'
    BY <1>1, <1>3, <1>4, <1>9, <1>10
       DEF Sound, LocalsSound, DeadlineSound, AnswerSound, RecordAgrees, InFlight, MayTry,
           Executing, Planned
  <1>12. ChainSound(r)'
    <2>1. req'[r].stage = "settled" /\ req'[r].decision = req[r].decision
      BY <1>3, <1>4
    <2>2. Len(chain'[r]) = 1 \/ (Len(chain'[r]) = 2 /\ SecondIsFallback(r)')
      <3>1. CASE chain[r] = << >>
        BY <1>7, <3>1
      <3>2. CASE Len(chain[r]) = 1 /\ SecondIsFallback(r)
        BY <1>7, <2>1, <3>2 DEF SecondIsFallback
      <3>3. QED
        BY <3>1, <3>2 DEF MayTry
    <2>3. QED
      BY <2>1, <2>2 DEF ChainSound, InFlight, Undecided, Planned
  <1>13. StreamSound(r)'
    BY <1>1, <1>3, <1>4, <1>5, <1>7, <1>9, <1>10 DEF Sound, StreamSound, InFlight, Counted
  <1>14. Sound(r)' /\ OnlyOf(r) /\ EntriesCoherent'
    BY <1>4, <1>5, <1>7, <1>11, <1>12, <1>13 DEF Sound, OnlyOf, IInv, EntriesCoherent
  <1>15. QED
    BY <1>8, <1>10, <1>14, StepOfOne

(* An execution is announced once, after events that Sound does not count.  *)
LEMMA StartAnnounced ==
  ASSUME NEW before \in Quiet, NEW types, types = before \o << "execution.started" >>
  PROVE  /\ types \in EventLog
         /\ \A i, j \in DOMAIN types : types[i] = types[j] => i = j
         /\ \E i \in DOMAIN types : types[i] = "execution.started"
         /\ \A kind \in Counted \ {"execution.started"} :
              ~ \E i \in DOMAIN types : types[i] = kind
  <1> DEFINE start == << "execution.started" >>
  <1>1. /\ before \in EventLog
        /\ \A i, j \in DOMAIN before : before[i] = before[j] => i = j
        /\ \A kind \in Counted : ~ \E i \in DOMAIN before : before[i] = kind
    BY QuietTyped
  <1>2. start \in EventLog /\ Len(start) = 1 /\ start[1] = "execution.started"
    BY ShortSequences DEF EventLog, EventType
  <1>3. types = before \o start
    OBVIOUS
  <1> HIDE DEF start
  <1>4. /\ types \in EventLog /\ Len(types) = Len(before) + 1 /\ Len(before) \in Nat
        /\ \A i \in 1 .. Len(before) : types[i] = before[i]
        /\ types[Len(before) + 1] = "execution.started"
        /\ DOMAIN types = 1 .. Len(before) + 1 /\ DOMAIN before = 1 .. Len(before)
    BY <1>1, <1>2, <1>3 DEF EventLog
  <1>5. \A i \in 1 .. Len(before) : before[i] # "execution.started"
    BY <1>1, <1>4 DEF Counted
  <1>6. \A i, j \in DOMAIN types : types[i] = types[j] => i = j
    BY <1>1, <1>4, <1>5
  <1>7. \E i \in DOMAIN types : types[i] = "execution.started"
    BY <1>4
  <1>8. ASSUME NEW kind \in Counted \ {"execution.started"}, NEW i \in DOMAIN types,
               types[i] = kind
        PROVE  FALSE
    BY <1>1, <1>4, <1>8
  <1>9. QED
    BY <1>4, <1>6, <1>7, <1>8

(* A candidate is really called: no attempt yet, one execution announced.   *)
LEMMA DialPreserves ==
  ASSUME IInv, NEW r \in Requests, NEW p, NEW locals, NEW before, MayTry(r, p, locals, before),
         NEW probe \in BOOLEAN, ~Expired(locals.remaining),
         entries' = IF enabled THEN [entries EXCEPT ![p] = Breaker!Acquired(@)] ELSE entries,
         req' = [req EXCEPT ![r] =
                   Dialled([locals EXCEPT !.provider = p, !.retry = 0, !.probe = probe])],
         Publish(r, before \o << "execution.started" >>),
         UNCHANGED << policy, enabled, chain, telemetry, status, deadlineExhausted >>
  PROVE  IInv'
  <1> DEFINE m == [locals EXCEPT !.provider = p, !.retry = 0, !.probe = probe]
             types == before \o << "execution.started" >>
  <1>1. StateTyped /\ EntriesCoherent /\ Sound(r) /\ p \in Providers /\ locals \in Locals
    BY DEF IInv, MayTry
  <1>2. /\ m \in Locals /\ m.provider = p /\ m.retry = 0 /\ m.decision = req[r].decision
        /\ m.remaining = locals.remaining /\ (m.deadlineHit => m.halted)
    BY <1>1 DEF Locals, MayTry
  <1>3. req' = [req EXCEPT ![r] = Dialled(m)]
    OBVIOUS
  <1>4. /\ types \in EventLog /\ \A i, j \in DOMAIN types : types[i] = types[j] => i = j
        /\ \E i \in DOMAIN types : types[i] = "execution.started"
        /\ \A kind \in Counted \ {"execution.started"} :
             ~ \E i \in DOMAIN types : types[i] = kind
    <2>1. before \in Quiet
      BY DEF MayTry, Quiet
    <2>2. QED
      BY <2>1, StartAnnounced
  <1>5. Publish(r, types)
    OBVIOUS
  <1> HIDE DEF m, types
  <1>6. /\ stream' \in [Requests -> EventLog]
        /\ \A q \in Requests \ {r} : stream'[q] = stream[q]
    BY <1>1, <1>4, <1>5, PublishedTyped
  <1>7. /\ Count("execution.started", r)' = Count("execution.started", r) + 1
        /\ \A kind \in Counted \ {"execution.started"} : Count(kind, r)' = Count(kind, r)
    <2>1. ASSUME NEW kind \in Counted
          PROVE  /\ Count(kind, r) \in Nat
                 /\ Count(kind, r)' = Count(kind, r)
                                        + (IF \E i \in DOMAIN types : types[i] = kind THEN 1 ELSE 0)
      BY <1>1, <1>4, <1>5, PublishCounts
    <2>2. "execution.started" \in Counted
      BY DEF Counted
    <2>3. QED
      BY <1>4, <2>1, <2>2
  <1>8. /\ Dialled(m) \in Locals /\ Dialled(m).stage = "calling"
        /\ Dialled(m).decision = req[r].decision /\ Dialled(m).provider = p
        /\ Dialled(m).retry = 0 /\ (Dialled(m).deadlineHit => Dialled(m).halted)
        /\ Dialled(m).remaining = locals.remaining
        /\ policy.requestDeadlineMs > 0 => Dialled(m).timer <= Dialled(m).remaining
    BY <1>1, <1>2, DialledTyped
  <1>9. /\ req' \in [Requests -> Locals] /\ req'[r] = Dialled(m)
        /\ \A q \in Requests \ {r} : req'[q] = req[q]
    BY <1>1, <1>3, <1>8 DEF StateTyped
  <1>10. /\ entries' \in [Providers -> Breaker!Entry]
         /\ EntriesCoherent'
    <2>1. entries[p] \in Breaker!Entry /\ Proved!Coherent(entries[p])
      BY <1>1 DEF StateTyped, EntriesCoherent
    <2>2. Breaker!Acquired(entries[p]) \in Breaker!Entry
          /\ Proved!Coherent(Breaker!Acquired(entries[p]))
      BY <2>1, EntryKept
    <2>3. QED
      BY <1>1, <2>2 DEF StateTyped, EntriesCoherent
  <1>11. StateTyped'
    BY <1>1, <1>6, <1>9, <1>10 DEF StateTyped
  <1>12. /\ status'[r] = status[r] /\ telemetry'[r] = telemetry[r] /\ chain'[r] = chain[r]
         /\ policy' = policy
    OBVIOUS
  <1>13. req[r].stage \notin InFlight /\ req[r].stage # "answered" /\ policy \in Policy
    BY <1>1, CompletionsAssumption DEF MayTry, InFlight, Planned, StateTyped
  <1>14. LocalsSound(r)' /\ DeadlineSound(r)' /\ AnswerSound(r)'
    BY <1>1, <1>8, <1>9, <1>12, <1>13
       DEF Sound, LocalsSound, DeadlineSound, AnswerSound, RecordAgrees, InFlight, MayTry,
           Executing, Planned, Policy
  <1>15. ChainSound(r)'
    BY <1>8, <1>9, <1>12
       DEF MayTry, ChainSound, SecondIsFallback, InFlight, Undecided, Planned
  <1>16. StreamSound(r)'
    <2>1. Ran(r)' = Ran(r)
      BY <1>12 DEF Ran
    <2>2. Count("execution.started", r) = Ran(r) + 0 /\ StreamSound(r)
      BY <1>1, <1>13 DEF Sound, StreamSound
    <2>3. Ran(r) \in Nat
      <3>1. chain[r] \in Seq(Attempt)
        BY <1>1 DEF StateTyped
      <3>2. QED
        BY <1>1, <3>1, CountIsPlaces, PlacesFinite
    <2>4. req'[r].stage \in InFlight
      BY <1>8, <1>9 DEF InFlight
    <2>5. QED
      BY <1>7, <1>12, <2>1, <2>2, <2>3, <2>4 DEF StreamSound, Counted
  <1>17. Sound(r)' /\ OnlyOf(r)
    BY <1>6, <1>9, <1>14, <1>15, <1>16 DEF Sound, OnlyOf
  <1>18. QED
    BY <1>10, <1>11, <1>13, <1>17, StepOfOne

(* Whichever way a candidate is tried.                                      *)
LEMMA TryPreserves ==
  ASSUME IInv, NEW r \in Requests, NEW p, NEW locals, NEW before, MayTry(r, p, locals, before),
         TryCandidate(r, p, locals, before),
         UNCHANGED << policy, enabled, telemetry, status, deadlineExhausted >>
  PROVE  IInv'
  <1>1. locals \in Locals
    BY DEF MayTry
  <1>2. CASE /\ req' = [req EXCEPT ![r] = [locals EXCEPT !.stage = "settled",
                                             !.deadlineHit = TRUE, !.halted = TRUE]]
             /\ Skipped(r, p) /\ Publish(r, before) /\ UNCHANGED entries
    <2>1. [locals EXCEPT !.stage = "settled", !.deadlineHit = TRUE, !.halted = TRUE]
            = [locals EXCEPT !.stage = "settled", !.deadlineHit = @ \/ TRUE,
                             !.halted = @ \/ TRUE]
      BY <1>1 DEF Locals
    <2>2. QED
      BY <1>2, <2>1, SkipPreserves
  <1>3. CASE /\ req' = [req EXCEPT ![r] = [locals EXCEPT !.stage = "settled"]]
             /\ Skipped(r, p) /\ Publish(r, before) /\ UNCHANGED entries
    <2>1. [locals EXCEPT !.stage = "settled"]
            = [locals EXCEPT !.stage = "settled", !.deadlineHit = @ \/ FALSE,
                             !.halted = @ \/ FALSE]
      BY <1>1 DEF Locals
    <2>2. QED
      BY <1>3, <2>1, SkipPreserves
  <1>4. CASE /\ ~Expired(locals.remaining)
             /\ entries' = IF enabled
                             THEN [entries EXCEPT ![p] = Breaker!Acquired(@)] ELSE entries
             /\ req' = [req EXCEPT ![r] =
                          Dialled([locals EXCEPT !.provider = p, !.retry = 0,
                                     !.probe = enabled /\ Breaker!Probes(entries[p])])]
             /\ Publish(r, before \o << "execution.started" >>)
             /\ UNCHANGED chain
    <2> DEFINE probe == enabled /\ Breaker!Probes(entries[p])
    <2>1. probe \in BOOLEAN
      OBVIOUS
    <2> HIDE DEF probe
    <2>2. req' = [req EXCEPT ![r] =
                    Dialled([locals EXCEPT !.provider = p, !.retry = 0, !.probe = probe])]
      BY <1>4 DEF probe
    <2>3. QED
      BY <1>4, <2>1, <2>2, DialPreserves
  <1>5. QED
    BY <1>2, <1>3, <1>4 DEF TryCandidate

(* The one outcome of a candidate that was called.                          *)
LEMMA SettlePreserves ==
  ASSUME IInv, NEW r \in Requests, req[r].stage \in InFlight, NEW err \in CallOutcome,
         NEW halted \in BOOLEAN, Settle(r, err, halted),
         UNCHANGED << policy, enabled, telemetry, status, deadlineExhausted >>
  PROVE  IInv'
  <1> DEFINE p == req[r].provider
             a == [provider |-> p, errorClass |-> err, ran |-> TRUE]
             l == Returns(r, halted)
             types == << "execution.completed" >>
  <1>1. StateTyped /\ EntriesCoherent /\ Sound(r) /\ req[r] \in Locals /\ p \in Providers
    BY DEF IInv, StateTyped, Sound, LocalsSound
  <1>2. /\ entries' = IF enabled
                        THEN [entries EXCEPT ![p] = Breaker!Recorded(@, err)] ELSE entries
        /\ req' = [req EXCEPT ![r] = l]
        /\ chain' = [chain EXCEPT ![r] = Append(@, a)]
        /\ Publish(r, types)
    BY DEF Settle
  <1>3. a \in Attempt /\ a.ran
    BY <1>1 DEF Attempt
  <1>4. /\ l \in Locals /\ l.stage = "settled" /\ l.decision = req[r].decision
        /\ l.retry = 0 /\ (l.deadlineHit => l.halted)
    BY <1>1 DEF Returns, Locals, Stage, CallOutcome, Sound, DeadlineSound
  <1>5. /\ types \in EventLog /\ \A i, j \in DOMAIN types : types[i] = types[j] => i = j
        /\ \E i \in DOMAIN types : types[i] = "execution.completed"
        /\ \A kind \in Counted \ {"execution.completed"} :
             ~ \E i \in DOMAIN types : types[i] = kind
    BY ShortSequences DEF EventLog, EventType
  <1> HIDE DEF a, l, types
  <1>6. /\ stream' \in [Requests -> EventLog]
        /\ \A q \in Requests \ {r} : stream'[q] = stream[q]
    BY <1>1, <1>2, <1>5, PublishedTyped
  <1>7. /\ Count("execution.completed", r)' = Count("execution.completed", r) + 1
        /\ \A kind \in Counted \ {"execution.completed"} : Count(kind, r)' = Count(kind, r)
    <2>1. ASSUME NEW kind \in Counted
          PROVE  /\ Count(kind, r) \in Nat
                 /\ Count(kind, r)' = Count(kind, r)
                                        + (IF \E i \in DOMAIN types : types[i] = kind THEN 1 ELSE 0)
      BY <1>1, <1>2, <1>5, PublishCounts
    <2>2. "execution.completed" \in Counted
      BY DEF Counted
    <2>3. QED
      BY <1>5, <2>1, <2>2
  <1>8. /\ chain' \in [Requests -> Seq(Attempt)]
        /\ \A q \in Requests \ {r} : chain'[q] = chain[q]
        /\ Len(chain'[r]) = Len(chain[r]) + 1 /\ Len(chain[r]) \in Nat
        /\ Len(chain[r]) > 0 => chain'[r][1] = chain[r][1]
    BY <1>1, <1>2, <1>3, ChainGrows
  <1>9. Ran(r) \in Nat /\ Ran(r)' = Ran(r) + 1
    <2>1. Ran(r) \in Nat /\ Ran(r)' = Ran(r) + (IF a.ran THEN 1 ELSE 0)
      BY <1>1, <1>2, <1>3, ChainGrows
    <2>2. QED
      BY <1>3, <2>1
  <1>10. /\ req' \in [Requests -> Locals] /\ req'[r] = l
         /\ \A q \in Requests \ {r} : req'[q] = req[q]
    BY <1>1, <1>2, <1>4 DEF StateTyped
  <1>11. entries' \in [Providers -> Breaker!Entry] /\ EntriesCoherent'
    <2>1. entries[p] \in Breaker!Entry /\ Proved!Coherent(entries[p])
      BY <1>1 DEF StateTyped, EntriesCoherent
    <2>2. Breaker!Recorded(entries[p], err) \in Breaker!Entry
          /\ Proved!Coherent(Breaker!Recorded(entries[p], err))
      BY <2>1, EntryKept
    <2> HIDE DEF p
    <2>3. QED
      BY <1>1, <1>2, <2>2 DEF StateTyped, EntriesCoherent
  <1>12. StateTyped'
    BY <1>1, <1>6, <1>8, <1>10, <1>11 DEF StateTyped
  <1>13. status'[r] = status[r] /\ telemetry'[r] = telemetry[r] /\ policy' = policy
    OBVIOUS
  <1>14. req[r].stage # "answered" /\ req[r].decision \in Decisions
    BY <1>1 DEF InFlight, Sound, LocalsSound, Executing
  <1>15. LocalsSound(r)' /\ DeadlineSound(r)' /\ AnswerSound(r)'
    BY <1>1, <1>4, <1>10, <1>13, <1>14, CompletionsAssumption
       DEF Sound, LocalsSound, DeadlineSound, AnswerSound, RecordAgrees, InFlight, StateTyped,
           Policy
  <1>16. ChainSound(r)'
    <2>1. Len(chain[r]) = 0 \/ (Len(chain[r]) = 1 /\ SecondIsFallback(r))
      BY <1>1 DEF Sound, ChainSound
    <2>2. Len(chain'[r]) = 1 \/ (Len(chain'[r]) = 2 /\ SecondIsFallback(r)')
      <3>1. req'[r].decision = req[r].decision
        BY <1>4, <1>10
      <3>2. CASE Len(chain[r]) = 0
        BY <1>8, <3>2
      <3>3. CASE Len(chain[r]) = 1 /\ SecondIsFallback(r)
        BY <1>8, <3>1, <3>3 DEF SecondIsFallback
      <3>4. QED
        BY <2>1, <3>2, <3>3
    <2>3. QED
      BY <1>4, <1>10, <2>2 DEF ChainSound, InFlight, Undecided, Planned
  <1>17. StreamSound(r)'
    <2>1. req'[r].stage \notin InFlight
      BY <1>4, <1>10 DEF InFlight
    <2>2. Count("execution.started", r) = Ran(r) + 1 /\ StreamSound(r)
      BY <1>1 DEF Sound, StreamSound
    <2>3. QED
      BY <1>7, <1>9, <1>13, <2>1, <2>2 DEF StreamSound, Counted
  <1>18. Sound(r)' /\ OnlyOf(r)
    BY <1>6, <1>8, <1>10, <1>15, <1>16, <1>17 DEF Sound, OnlyOf
  <1>19. QED
    BY <1>11, <1>12, <1>14, <1>18, StepOfOne

(* A step of r that only moves its locals on, towards a decision or through *)
(* its retries, and publishes nothing that Sound counts.                    *)
LEMMA AdvancePreserves ==
  ASSUME IInv, NEW r \in Requests, NEW l \in Locals, NEW types \in Quiet,
         req' = [req EXCEPT ![r] = l], Publish(r, types),
         req[r].stage # "answered", l.stage # "answered",
         l.retry <= policy.maxRetries, l.stage = "backoff" => l.retry < policy.maxRetries,
         l.deadlineHit => l.halted,
         \/ /\ req[r].stage \in Undecided \union Planned
            /\ l.stage \in Undecided \union Planned
            /\ l.stage \in Planned => l.decision \in Decisions
         \/ /\ req[r].stage \in InFlight /\ l.stage \in InFlight
            /\ l.decision = req[r].decision /\ l.provider = req[r].provider
            /\ policy.requestDeadlineMs > 0 => l.timer <= l.remaining,
         UNCHANGED << policy, enabled, entries, chain, telemetry, status, deadlineExhausted >>
  PROVE  IInv'
  <1>1. StateTyped /\ EntriesCoherent /\ Sound(r)
    BY DEF IInv
  <1>2. /\ req' \in [Requests -> Locals] /\ req'[r] = l
        /\ \A q \in Requests \ {r} : req'[q] = req[q]
    BY <1>1 DEF StateTyped
  <1>3. /\ \A kind \in Counted : Count(kind, r)' = Count(kind, r)
        /\ stream' \in [Requests -> EventLog]
        /\ \A q \in Requests \ {r} : stream'[q] = stream[q]
    BY <1>1, QuietCounts, QuietTyped, PublishedTyped
  <1>4. StateTyped'
    BY <1>1, <1>2, <1>3 DEF StateTyped
  <1>5. LocalsSound(r)' /\ DeadlineSound(r)'
    BY <1>1, <1>2 DEF Sound, LocalsSound, DeadlineSound, InFlight, Undecided, Planned, Executing
  <1>6. ChainSound(r)'
    BY <1>1, <1>2 DEF Sound, ChainSound, SecondIsFallback, InFlight, Undecided, Planned
  <1>7. AnswerSound(r)'
    BY <1>1, <1>2 DEF Sound, AnswerSound, RecordAgrees
  <1>8. StreamSound(r)'
    <2>1. Ran(r)' = Ran(r)
      BY DEF Ran
    <2>2. req[r].stage \in InFlight <=> req'[r].stage \in InFlight
      BY <1>2 DEF InFlight, Undecided, Planned
    <2>3. QED
      BY <1>1, <1>3, <2>1, <2>2 DEF Sound, StreamSound, Counted
  <1>9. Sound(r)' /\ OnlyOf(r) /\ EntriesCoherent'
    BY <1>1, <1>2, <1>3, <1>5, <1>6, <1>7, <1>8 DEF Sound, OnlyOf, EntriesCoherent
  <1>10. QED
    BY <1>4, <1>9, StepOfOne

(* The wait before a retry is a whole number of clock ticks.                *)
LEMMA BackoffTyped ==
  ASSUME StateTyped, NEW retry \in Nat, retry <= policy.maxRetries
  PROVE  BackoffDelay(retry) \in Nat
  <1>1. policy \in Policies /\ policy \in Policy
    BY CompletionsAssumption DEF StateTyped
  <1>2. retry \in 0 .. policy.maxRetries
    BY <1>1 DEF Policy
  <1>3. 2 ^ retry \in Nat
    BY <1>1, <1>2, PowersAssumption
  <1> DEFINE factor == 2 ^ retry
  <1>4. factor \in Nat
    BY <1>3
  <1> HIDE DEF factor
  <1>5. policy.backoffBaseMs * factor \in Nat /\ policy.backoffMaxMs \in Nat
    BY <1>1, <1>4 DEF Policy
  <1>6. Lesser(policy.backoffBaseMs * factor, policy.backoffMaxMs) \in Nat
    BY <1>5 DEF Lesser
  <1>7. QED
    BY <1>6 DEF BackoffDelay, factor

(* Nothing new to say on the live stream.                                   *)
LEMMA SilentPublishesNone ==
  ASSUME StateTyped, NEW r \in Requests, UNCHANGED stream
  PROVE  Publish(r, << >>)
  <1>1. stream[r] \in Seq(EventType) /\ stream \in [Requests -> EventLog]
    BY DEF StateTyped, EventLog
  <1>2. stream[r] \o << >> = stream[r]
    BY <1>1
  <1>3. QED
    BY <1>1, <1>2 DEF Publish

(* A physical call ends: a backoff or the candidate's outcome.              *)
LEMMA CallEndsPreserves ==
  ASSUME IInv, NEW r \in Requests, req[r].stage = "calling", NEW err \in CallOutcome,
         CallEnds(r, err),
         UNCHANGED << policy, enabled, telemetry, status, deadlineExhausted >>
  PROVE  IInv'
  <1>1. StateTyped /\ Sound(r) /\ req[r] \in Locals /\ policy \in Policy
    BY CompletionsAssumption DEF IInv, StateTyped
  <1>2. CASE /\ RetriesLeft(r, err) /\ Backoff(r, err)
             /\ UNCHANGED << entries, chain, stream >>
    <2> DEFINE timer == Capped(BackoffDelay(req[r].retry), req[r].remaining)
               l == [req[r] EXCEPT !.stage = "backoff", !.last = err, !.timer = timer]
    <2>1. req' = [req EXCEPT ![r] = l]
      <3>1. req' = [req EXCEPT ![r].stage = "backoff", ![r].last = err, ![r].timer = timer]
        BY <1>2 DEF Backoff
      <3>2. req \in [Requests -> Locals]
        BY <1>1 DEF StateTyped
      <3> HIDE DEF timer
      <3>3. req'[r] = l
        BY <3>1, <3>2
      <3>4. DOMAIN req' = Requests /\ \A q \in Requests \ {r} : req'[q] = req[q]
        BY <3>1, <3>2
      <3>5. QED
        BY <3>1, <3>2, <3>3, <3>4
    <2>2. req[r].retry \in Nat /\ req[r].retry < policy.maxRetries /\ req[r].remaining \in Nat
      BY <1>1, <1>2 DEF RetriesLeft, Locals
    <2>3. BackoffDelay(req[r].retry) \in Nat
      BY <1>1, <2>2, BackoffTyped DEF Policy
    <2>4. timer \in Nat /\ (policy.requestDeadlineMs > 0 => timer <= req[r].remaining)
      BY <1>1, <2>2, <2>3 DEF Capped, Lesser, Policy
    <2> HIDE DEF timer
    <2>5. /\ l \in Locals /\ l.stage = "backoff" /\ l.retry = req[r].retry /\ l.timer = timer
          /\ l.remaining = req[r].remaining /\ l.decision = req[r].decision
          /\ l.provider = req[r].provider /\ (l.deadlineHit => l.halted)
      BY <1>1, <2>4 DEF Locals, Stage, Sound, DeadlineSound
    <2> HIDE DEF l
    <2>6. Publish(r, << >>) /\ << >> \in Quiet
      BY <1>1, <1>2, SilentPublishesNone DEF Quiet
    <2>7. /\ l.stage # "answered" /\ l.retry <= policy.maxRetries /\ l.retry < policy.maxRetries
          /\ req[r].stage \in InFlight /\ l.stage \in InFlight
          /\ policy.requestDeadlineMs > 0 => l.timer <= l.remaining
      BY <1>1, <2>2, <2>4, <2>5 DEF InFlight, Sound, LocalsSound
    <2>8. QED
      BY <1>2, <2>1, <2>5, <2>6, <2>7, AdvancePreserves
  <1>3. CASE Settle(r, err, RetriesLeft(r, err))
    <2>1. RetriesLeft(r, err) \in BOOLEAN
      BY DEF RetriesLeft
    <2>2. req[r].stage \in InFlight
      BY DEF InFlight
    <2>3. QED
      BY <1>3, <2>1, <2>2, SettlePreserves
  <1>4. QED
    BY <1>2, <1>3 DEF CallEnds

(* The sleep is over: once more, or the outcome.                            *)
LEMMA BackoffOverPreserves ==
  ASSUME IInv, NEW r \in Requests, BackoffOver(r)
  PROVE  IInv'
  <1>1. /\ StateTyped /\ Sound(r) /\ req[r] \in Locals /\ policy \in Policy
        /\ req \in [Requests -> Locals] /\ req[r].stage = "backoff"
        /\ UNCHANGED << policy, enabled, telemetry, status, deadlineExhausted >>
    BY CompletionsAssumption DEF IInv, StateTyped, BackoffOver
  <1>2. CASE Settle(r, req[r].last, TRUE)
    BY <1>1, <1>2, SettlePreserves DEF Locals, InFlight
  <1>3. CASE ~Expired(req[r].remaining) /\ Redial(r)
    <2> DEFINE m == [req[r] EXCEPT !.retry = @ + 1]
               l == Dialled(m)
    <2>1. req' = [req EXCEPT ![r] = l]
      BY <1>3 DEF Redial
    <2>2. UNCHANGED << entries, chain, stream >>
      BY <1>3 DEF Redial
    <2>3. req[r].retry \in Nat /\ req[r].retry < policy.maxRetries
      BY <1>1 DEF Sound, LocalsSound, Locals
    <2>4. /\ m \in Locals /\ m.retry = req[r].retry + 1 /\ m.decision = req[r].decision
          /\ m.provider = req[r].provider /\ m.remaining = req[r].remaining
          /\ (m.deadlineHit => m.halted)
      BY <1>1, <2>3 DEF Locals, Sound, DeadlineSound
    <2> HIDE DEF m
    <2>5. /\ l \in Locals /\ l.stage = "calling" /\ l.decision = req[r].decision
          /\ l.provider = req[r].provider /\ l.retry = req[r].retry + 1
          /\ l.remaining = req[r].remaining /\ (l.deadlineHit => l.halted)
          /\ policy.requestDeadlineMs > 0 => l.timer <= l.remaining
      BY <1>1, <1>3, <2>4, DialledTyped
    <2> HIDE DEF l
    <2>6. Publish(r, << >>) /\ << >> \in Quiet
      BY <1>1, <2>2, SilentPublishesNone DEF Quiet
    <2>7. /\ l.stage # "answered" /\ l.stage # "backoff" /\ l.retry <= policy.maxRetries
          /\ req[r].stage \in InFlight /\ l.stage \in InFlight
      BY <1>1, <2>3, <2>5 DEF InFlight, Policy
    <2>8. QED
      BY <1>1, <2>1, <2>2, <2>5, <2>6, <2>7, AdvancePreserves
  <1>4. QED
    BY <1>2, <1>3 DEF BackoffOver

(* The request arrives: refused or on its way.                              *)
LEMMA ReceivePreserves ==
  ASSUME IInv, NEW r \in Requests, Receive(r)
  PROVE  IInv'
  <1>1. /\ StateTyped /\ Sound(r) /\ req[r] \in Locals /\ req \in [Requests -> Locals]
        /\ req[r].stage = "new" /\ UNCHANGED << policy, enabled >>
    BY DEF IInv, StateTyped, Receive
  <1>2. CASE Refuse(r, 400, << >>)
    <2>1. << >> \in Quiet /\ req[r].stage \in Undecided \union Planned
      BY <1>1 DEF Quiet, Undecided
    <2>2. QED
      BY <1>1, <1>2, <2>1, RefusePreserves
  <1>3. CASE /\ req' = [req EXCEPT ![r].stage = "catalog"]
             /\ Publish(r, << "request.received" >>)
             /\ UNCHANGED << entries, chain, telemetry, status, deadlineExhausted >>
    <2> DEFINE l == [req[r] EXCEPT !.stage = "catalog"]
    <2>1. req' = [req EXCEPT ![r] = l]
      BY <1>3
    <2>2. /\ l \in Locals /\ l.stage = "catalog" /\ l.retry = req[r].retry
          /\ (l.deadlineHit => l.halted)
      BY <1>1 DEF Locals, Stage, Sound, DeadlineSound
    <2> HIDE DEF l
    <2>3. /\ l.retry <= policy.maxRetries /\ l.stage \in Undecided \union Planned
          /\ req[r].stage \in Undecided \union Planned /\ l.stage \notin Planned
          /\ << "request.received" >> \in Quiet
      BY <1>1, <2>2 DEF Sound, LocalsSound, Undecided, Planned, Quiet
    <2>4. QED
      BY <1>1, <1>3, <2>1, <2>2, <2>3, AdvancePreserves
  <1>4. QED
    BY <1>2, <1>3 DEF Receive

(* The catalog read is answered.                                            *)
LEMMA CatalogLoadedPreserves ==
  ASSUME IInv, NEW r \in Requests, CatalogLoaded(r)
  PROVE  IInv'
  <1>1. /\ StateTyped /\ Sound(r) /\ req[r] \in Locals /\ req \in [Requests -> Locals]
        /\ req[r].stage = "catalog" /\ req' = [req EXCEPT ![r].stage = "rules"]
        /\ UNCHANGED << policy, enabled, entries, chain, stream, telemetry, status,
                        deadlineExhausted >>
    BY DEF IInv, StateTyped, CatalogLoaded
  <1> DEFINE l == [req[r] EXCEPT !.stage = "rules"]
  <1>2. req' = [req EXCEPT ![r] = l]
    BY <1>1
  <1>3. /\ l \in Locals /\ l.stage = "rules" /\ l.retry = req[r].retry
        /\ (l.deadlineHit => l.halted)
    BY <1>1 DEF Locals, Stage, Sound, DeadlineSound
  <1> HIDE DEF l
  <1>4. /\ l.retry <= policy.maxRetries /\ l.stage \in Undecided \union Planned
        /\ req[r].stage \in Undecided \union Planned /\ l.stage \notin Planned
        /\ << >> \in Quiet
    BY <1>1, <1>3 DEF Sound, LocalsSound, Undecided, Planned, Quiet
  <1>5. QED
    BY <1>1, <1>2, <1>3, <1>4, SilentPublishesNone, AdvancePreserves

(* Governance and routing: no candidate, or a decision.                     *)
LEMMA RulesLoadedPreserves ==
  ASSUME IInv, NEW r \in Requests, RulesLoaded(r)
  PROVE  IInv'
  <1>1. /\ StateTyped /\ Sound(r) /\ req[r] \in Locals /\ req \in [Requests -> Locals]
        /\ req[r].stage = "rules" /\ UNCHANGED << policy, enabled >>
        /\ << "governance.completed" >> \in Quiet
        /\ req[r].stage \in Undecided \union Planned
    BY DEF IInv, StateTyped, RulesLoaded, Quiet, Undecided
  <1>2. CASE Refuse(r, 422, << "governance.completed" >>)
    BY <1>1, <1>2, RefusePreserves
  <1>3. CASE /\ \E d \in Decisions :
                  req' = [req EXCEPT ![r].stage = "budgets", ![r].decision = d]
             /\ Publish(r, << "governance.completed" >>)
             /\ UNCHANGED << entries, chain, telemetry, status, deadlineExhausted >>
    <2>1. PICK d \in Decisions : req' = [req EXCEPT ![r].stage = "budgets", ![r].decision = d]
      BY <1>3
    <2> DEFINE l == [req[r] EXCEPT !.stage = "budgets", !.decision = d]
    <2>2. req' = [req EXCEPT ![r] = l]
      BY <1>1, <2>1
    <2>3. /\ l \in Locals /\ l.stage = "budgets" /\ l.retry = req[r].retry /\ l.decision = d
          /\ (l.deadlineHit => l.halted)
      BY <1>1 DEF Locals, Stage, Sound, DeadlineSound
    <2> HIDE DEF l
    <2>4. l.retry <= policy.maxRetries /\ l.stage \in Undecided \union Planned
      BY <1>1, <2>3 DEF Sound, LocalsSound, Planned
    <2>5. QED
      BY <1>1, <1>3, <2>2, <2>3, <2>4, AdvancePreserves
  <1>4. QED
    BY <1>2, <1>3 DEF RulesLoaded

(* A failing read refuses the request.                                      *)
LEMMA ReadFailsPreserves ==
  ASSUME IInv, NEW r \in Requests, ReadFails(r)
  PROVE  IInv'
  <1>1. << >> \in Quiet /\ req[r].stage \in Undecided \union Planned
    BY DEF ReadFails, Quiet, Undecided, Planned
  <1>2. Refuse(r, 500, << >>) /\ UNCHANGED << policy, enabled >>
    BY DEF ReadFails
  <1>3. QED
    BY <1>1, <1>2, RefusePreserves

(* The decision is announced, after the budget verdict if there is one.     *)
LEMMA DecisionAnnounced ==
  ASSUME NEW before \in {<< >>, << "budget.evaluated" >>}
  PROVE  before \o << "decision.committed" >>
           \in {<< "decision.committed" >>, << "budget.evaluated", "decision.committed" >>}
  <1> DEFINE budget == << "budget.evaluated" >>
             decided == << "decision.committed" >>
             both == << "budget.evaluated", "decision.committed" >>
  <1>1. budget \in EventLog /\ decided \in EventLog /\ both \in EventLog
    BY ShortSequences DEF EventLog, EventType
  <1>2. << >> \o decided = decided
    BY <1>1, ConcatEmptySeq DEF EventLog
  <1>3. budget \o decided = both
    <2>1. /\ Len(budget) = 1 /\ Len(decided) = 1 /\ Len(both) = 2
          /\ budget[1] = "budget.evaluated" /\ decided[1] = "decision.committed"
          /\ both[1] = "budget.evaluated" /\ both[2] = "decision.committed"
      OBVIOUS
    <2> HIDE DEF budget, decided, both
    <2>2. /\ budget \o decided \in EventLog /\ Len(budget \o decided) = 2
          /\ (budget \o decided)[1] = budget[1] /\ (budget \o decided)[2] = decided[1]
      BY <1>1, <2>1, ConcatProperties DEF EventLog
    <2>3. \A i \in 1 .. Len(both) : both[i] = (budget \o decided)[i]
      BY <2>1, <2>2
    <2>4. QED
      BY <1>1, <2>1, <2>2, <2>3, SeqEqual DEF EventLog
  <1>4. QED
    BY <1>2, <1>3

(* Provider execution starts under a deadline of its own.                   *)
LEMMA ExecutePreserves ==
  ASSUME IInv, NEW r \in Requests, req[r].stage \in Planned,
         NEW before \in {<< >>, << "budget.evaluated" >>}, Execute(r, before),
         UNCHANGED << policy, enabled >>
  PROVE  IInv'
  <1> DEFINE l == [req[r] EXCEPT !.verdict = "none", !.remaining = policy.requestDeadlineMs]
             p == req[r].decision.chosen
             types == before \o << "decision.committed" >>
  <1>1. StateTyped /\ Sound(r) /\ req[r] \in Locals /\ policy \in Policy
    BY CompletionsAssumption DEF IInv, StateTyped
  <1>2. req[r].decision \in Decision
    BY <1>1, CompletionsAssumption DEF Sound, LocalsSound
  <1>3. p \in Providers
    BY <1>2 DEF Decision
  <1>4. /\ l \in Locals /\ l.decision = req[r].decision /\ l.retry = req[r].retry
        /\ (l.deadlineHit => l.halted)
    BY <1>1 DEF Locals, Policy, Sound, DeadlineSound
  <1>5. types \in {<< "decision.committed" >>, << "budget.evaluated", "decision.committed" >>}
    BY DecisionAnnounced
  <1>6. chain[r] = << >>
    BY <1>1 DEF Sound, ChainSound, StateTyped
  <1>7. TryCandidate(r, p, l, types) /\ UNCHANGED << telemetry, status, deadlineExhausted >>
    BY DEF Execute
  <1> HIDE DEF l, p, types
  <1>8. MayTry(r, p, l, types)
    BY <1>1, <1>3, <1>4, <1>5, <1>6 DEF MayTry, Sound, LocalsSound
  <1>9. QED
    BY <1>7, <1>8, TryPreserves

(* The budget verdict is in: execute, or audit it first.                    *)
LEMMA BudgetsEvaluatedPreserves ==
  ASSUME IInv, NEW r \in Requests, BudgetsEvaluated(r)
  PROVE  IInv'
  <1>1. /\ StateTyped /\ Sound(r) /\ req[r] \in Locals /\ req \in [Requests -> Locals]
        /\ req[r].stage = "budgets" /\ UNCHANGED << policy, enabled >>
    BY DEF IInv, StateTyped, BudgetsEvaluated
  <1>2. CASE Execute(r, << >>)
    BY <1>1, <1>2, ExecutePreserves DEF Planned
  <1>3. CASE /\ \E v \in {"warned", "blocked"} :
                  req' = [req EXCEPT ![r].stage = "audit", ![r].verdict = v]
             /\ UNCHANGED << entries, chain, stream, telemetry, status, deadlineExhausted >>
    <2>1. PICK v \in {"warned", "blocked"} :
            req' = [req EXCEPT ![r].stage = "audit", ![r].verdict = v]
      BY <1>3
    <2> DEFINE l == [req[r] EXCEPT !.stage = "audit", !.verdict = v]
    <2>2. req' = [req EXCEPT ![r] = l]
      BY <1>1, <2>1
    <2>3. /\ l \in Locals /\ l.stage = "audit" /\ l.retry = req[r].retry
          /\ l.decision = req[r].decision /\ (l.deadlineHit => l.halted)
      BY <1>1 DEF Locals, Stage, Sound, DeadlineSound
    <2> HIDE DEF l
    <2>4. /\ l.retry <= policy.maxRetries /\ l.stage \in Undecided \union Planned
          /\ req[r].stage \in Undecided \union Planned /\ l.decision \in Decisions
          /\ << >> \in Quiet
      BY <1>1, <2>3 DEF Sound, LocalsSound, Planned, Quiet
    <2>5. QED
      BY <1>1, <1>3, <2>2, <2>3, <2>4, SilentPublishesNone, AdvancePreserves
  <1>4. QED
    BY <1>2, <1>3 DEF BudgetsEvaluated

(* The verdict is audited and applied.                                      *)
LEMMA AuditedPreserves ==
  ASSUME IInv, NEW r \in Requests, Audited(r)
  PROVE  IInv'
  <1>1. req[r].stage \in Planned /\ UNCHANGED << policy, enabled >>
        /\ << "budget.evaluated" >> \in Quiet
    BY DEF Audited, Planned, Quiet
  <1>2. CASE Refuse(r, 429, << "budget.evaluated" >>)
    BY <1>1, <1>2, RefusePreserves
  <1>3. CASE Execute(r, << "budget.evaluated" >>)
    BY <1>1, <1>3, ExecutePreserves
  <1>4. QED
    BY <1>2, <1>3 DEF Audited

(* A call that comes back, in time or not.                                  *)
LEMMA CallsPreserve ==
  ASSUME IInv, NEW r \in Requests, ProviderAnswers(r) \/ CallTimesOut(r)
  PROVE  IInv'
  <1>1. CASE ProviderAnswers(r)
    <2>1. PICK err \in Answers : CallEnds(r, err)
      BY <1>1 DEF ProviderAnswers
    <2>2. err \in CallOutcome /\ req[r].stage = "calling"
          /\ UNCHANGED << policy, enabled, telemetry, status, deadlineExhausted >>
      BY <1>1, CompletionsAssumption DEF ProviderAnswers
    <2>3. QED
      BY <2>1, <2>2, CallEndsPreserves
  <1>2. CASE CallTimesOut(r)
    <2>1. "timeout" \in CallOutcome
      BY DEF CallOutcome
    <2>2. QED
      BY <1>2, <2>1, CallEndsPreserves DEF CallTimesOut
  <1>3. QED
    BY <1>1, <1>2

(* A second candidate is tried only after a failure that calls for it.      *)
LEMMA TryFallbackPreserves ==
  ASSUME IInv, NEW r \in Requests, TryFallback(r)
  PROVE  IInv'
  <1>1. StateTyped /\ Sound(r) /\ req[r] \in Locals /\ FallsBack(r)
        /\ req[r].stage = "settled"
        /\ UNCHANGED << policy, enabled, telemetry, status, deadlineExhausted >>
    BY DEF IInv, StateTyped, TryFallback
  <1>2. req[r].decision \in Decision
    BY <1>1, CompletionsAssumption DEF Sound, LocalsSound, Executing
  <1>3. req[r].decision.next \in Providers
    BY <1>1, <1>2 DEF Decision, FallsBack
  <1>4. Len(chain[r]) = 1 /\ SecondIsFallback(r)
    BY <1>1 DEF FallsBack, LastError, SecondIsFallback
  <1>5. MayTry(r, req[r].decision.next, req[r], << >>)
    BY <1>1, <1>3, <1>4 DEF MayTry, Sound, LocalsSound, DeadlineSound
  <1>6. TryCandidate(r, req[r].decision.next, req[r], << >>)
    BY DEF TryFallback
  <1>7. QED
    BY <1>1, <1>5, <1>6, TryPreserves

(* The record of a chain that is not empty: the provider it credits is one  *)
(* of the chain, the one that succeeded if any did.                         *)
LEMMA RecordBuilt ==
  ASSUME StateTyped, NEW r \in Requests, req[r].decision \in Decisions,
         Len(chain[r]) \in {1, 2}
  PROVE  /\ TelemetryEvent(r) \in Record
         /\ TelemetryEvent(r).terminalErrorClass = "none" <=> LastError(r) = "none"
         /\ \E i \in DOMAIN TelemetryEvent(r).attempts :
              /\ TelemetryEvent(r).attempts[i].provider = TelemetryEvent(r).effectiveProviderId
              /\ IF LastError(r) = "none" THEN TelemetryEvent(r).attempts[i].errorClass = "none"
                                          ELSE i = 1
  <1>1. /\ chain[r] \in Seq(Attempt) /\ DOMAIN chain[r] = 1 .. Len(chain[r])
        /\ 1 \in DOMAIN chain[r] /\ Len(chain[r]) \in DOMAIN chain[r]
    <2>1. chain[r] \in Seq(Attempt)
      BY DEF StateTyped
    <2>2. DOMAIN chain[r] = 1 .. Len(chain[r])
      BY <2>1, LenProperties
    <2>3. 1 \in 1 .. Len(chain[r]) /\ Len(chain[r]) \in 1 .. Len(chain[r])
      <3>1. \A n \in {1, 2} : 1 \in 1 .. n /\ n \in 1 .. n
        OBVIOUS
      <3>2. QED
        BY <3>1
    <2>4. QED
      BY <2>1, <2>2, <2>3
  <1>2. \A i \in DOMAIN chain[r] : chain[r][i] \in Attempt
    BY <1>1
  <1>3. req[r].decision.source \in DecisionSource
    BY CompletionsAssumption DEF Decision
  <1>4. LastError(r) \in CallOutcome
    BY <1>1, <1>2 DEF LastError, Attempt
  <1>5. Terminal(r) \in ErrorClass /\ (Terminal(r) = "none" <=> LastError(r) = "none")
    BY <1>4 DEF Terminal, ErrorClass, CallOutcome
  <1>6. PICK i \in DOMAIN chain[r] :
          /\ Effective(r) = chain[r][i]
          /\ IF LastError(r) = "none" THEN chain[r][i].errorClass = "none" ELSE i = 1
    <2>1. CASE LastError(r) = "none"
      BY <1>1, <2>1 DEF Effective, LastError
    <2>2. CASE LastError(r) # "none"
      BY <1>1, <2>2 DEF Effective
    <2>3. QED
      BY <2>1, <2>2
  <1>7. Effective(r).provider \in Providers
    BY <1>2, <1>6 DEF Attempt
  <1>8. /\ TelemetryEvent(r).attempts = chain[r]
        /\ TelemetryEvent(r).terminalErrorClass = Terminal(r)
        /\ TelemetryEvent(r).effectiveProviderId = Effective(r).provider
    BY DEF TelemetryEvent
  <1>9. TelemetryEvent(r) \in Record
    BY <1>1, <1>3, <1>5, <1>7 DEF TelemetryEvent, Record
  <1>10. QED
    BY <1>5, <1>6, <1>8, <1>9

(* The two events that end a request tell how it ended.                     *)
LEMMA EndAnnounced ==
  ASSUME NEW last \in {"result.completed", "result.failed"},
         NEW types, types = << last, "event.completed" >>
  PROVE  /\ types \in EventLog
         /\ \A i, j \in DOMAIN types : types[i] = types[j] => i = j
         /\ \E i \in DOMAIN types : types[i] = last
         /\ \A kind \in Counted \ {last} : ~ \E i \in DOMAIN types : types[i] = kind
  <1>1. types \in EventLog
    BY ShortSequences DEF EventLog, EventType
  <1>2. QED
    BY <1>1 DEF Counted

(* The request is answered, and its record says what the client was told.   *)
LEMMA ConcludePreserves ==
  ASSUME IInv, NEW r \in Requests, Conclude(r)
  PROVE  IInv'
  <1> DEFINE record == TelemetryEvent(r)
  <1>1. /\ StateTyped /\ EntriesCoherent /\ Sound(r) /\ req[r] \in Locals
        /\ req[r].stage = "settled"
    BY DEF IInv, StateTyped, Conclude
  <1>0. PICK code \in {200, 502}, last \in {"result.completed", "result.failed"} :
          /\ status' = [status EXCEPT ![r] = code]
          /\ Publish(r, << last, "event.completed" >>)
          /\ code = 200 <=> LastError(r) = "none"
          /\ code = 200 <=> last = "result.completed"
    BY DEF Conclude
  <1> DEFINE types == << last, "event.completed" >>
  <1>2. /\ req' = [req EXCEPT ![r] = Returned(r)]
        /\ telemetry' = [telemetry EXCEPT ![r] = Append(@, record)]
        /\ status' = [status EXCEPT ![r] = code]
        /\ Publish(r, types)
        /\ deadlineExhausted' = deadlineExhausted + (IF req[r].deadlineHit THEN 1 ELSE 0)
        /\ UNCHANGED << policy, enabled, entries, chain >>
    BY <1>0 DEF Conclude
  <1>3. /\ Returned(r) \in Locals /\ Returned(r).stage = "answered" /\ Returned(r).retry = 0
        /\ ~Returned(r).deadlineHit /\ Returned(r).halted = req[r].halted
    BY <1>1, ReturnedTyped
  <1>4. req[r].decision \in Decisions /\ Len(chain[r]) \in {1, 2}
    BY <1>1 DEF Sound, LocalsSound, ChainSound, Executing
  <1>5. /\ record \in Record
        /\ record.terminalErrorClass = "none" <=> LastError(r) = "none"
        /\ \E i \in DOMAIN record.attempts :
             /\ record.attempts[i].provider = record.effectiveProviderId
             /\ IF LastError(r) = "none" THEN record.attempts[i].errorClass = "none" ELSE i = 1
    BY <1>1, <1>4, RecordBuilt
  <1>6. /\ status[r] = 0 /\ telemetry[r] = << >>
        /\ telemetry \in [Requests -> Seq(Record)] /\ chain[r] \in Seq(Attempt)
        /\ req \in [Requests -> Locals]
        /\ status \in [Requests -> {0, 200, 400, 422, 429, 500, 502}]
    BY <1>1 DEF Sound, AnswerSound, StateTyped
  <1>7. last \in {"result.completed", "result.failed"}
    BY <1>0
  <1>8. (code = 200 /\ last = "result.completed") \/ (code = 502 /\ last = "result.failed")
    BY <1>0
  <1>9. code = 200 <=> LastError(r) = "none"
    BY <1>0
  <1> HIDE DEF record
  <1>10. /\ types \in EventLog /\ \A i, j \in DOMAIN types : types[i] = types[j] => i = j
         /\ \E i \in DOMAIN types : types[i] = last
         /\ \A kind \in Counted \ {last} : ~ \E i \in DOMAIN types : types[i] = kind
    BY <1>7, EndAnnounced
  <1> HIDE DEF types
  <1>11. /\ stream' \in [Requests -> EventLog]
         /\ \A q \in Requests \ {r} : stream'[q] = stream[q]
    BY <1>1, <1>2, <1>10, PublishedTyped
  <1>12. /\ Count(last, r)' = Count(last, r) + 1
         /\ \A kind \in Counted \ {last} : Count(kind, r)' = Count(kind, r)
    <2>1. ASSUME NEW kind \in Counted
          PROVE  /\ Count(kind, r) \in Nat
                 /\ Count(kind, r)' = Count(kind, r)
                                        + (IF \E i \in DOMAIN types : types[i] = kind THEN 1 ELSE 0)
      BY <1>1, <1>2, <1>10, PublishCounts
    <2>2. last \in Counted
      BY <1>7 DEF Counted
    <2>3. QED
      BY <1>10, <2>1, <2>2
  <1>13. /\ req' \in [Requests -> Locals] /\ req'[r] = Returned(r)
         /\ \A q \in Requests \ {r} : req'[q] = req[q]
    BY <1>2, <1>3, <1>6
  <1>14. /\ telemetry' \in [Requests -> Seq(Record)]
         /\ Len(telemetry'[r]) = 1 /\ telemetry'[r][1] = record
         /\ \A q \in Requests \ {r} : telemetry'[q] = telemetry[q]
    <2>1. /\ Append(<< >>, record) \in Seq(Record)
          /\ Len(Append(<< >>, record)) = 1 /\ Append(<< >>, record)[1] = record
      BY <1>5
    <2>2. telemetry'[r] = Append(<< >>, record)
      BY <1>2, <1>6
    <2>3. QED
      BY <1>2, <1>6, <2>1, <2>2
  <1>15. /\ status' \in [Requests -> {0, 200, 400, 422, 429, 500, 502}] /\ status'[r] = code
         /\ \A q \in Requests \ {r} : status'[q] = status[q]
    BY <1>2, <1>6, <1>8
  <1>16. StateTyped'
    BY <1>1, <1>2, <1>11, <1>13, <1>14, <1>15 DEF StateTyped
  <1>17. LocalsSound(r)' /\ DeadlineSound(r)'
    BY <1>1, <1>2, <1>3, <1>13, CompletionsAssumption
       DEF StateTyped, LocalsSound, DeadlineSound, InFlight, Planned, Executing, Policy
  <1>18. ChainSound(r)'
    <2>1. Len(chain[r]) = 1 \/ (Len(chain[r]) = 2 /\ SecondIsFallback(r))
      BY <1>1 DEF Sound, ChainSound
    <2>2. req'[r].stage = "answered" /\ chain' = chain
      BY <1>2, <1>3, <1>13
    <2>3. Len(chain'[r]) <= 2
          /\ (Len(chain'[r]) = 2 => chain'[r][1].errorClass \in FALLBACK_ELIGIBLE)
      <3>1. CASE Len(chain[r]) = 1
        BY <2>2, <3>1
      <3>2. CASE Len(chain[r]) = 2 /\ SecondIsFallback(r)
        BY <2>2, <3>2 DEF SecondIsFallback
      <3>3. QED
        BY <2>1, <3>1, <3>2
    <2>4. QED
      BY <2>2, <2>3 DEF ChainSound, InFlight, Undecided, Planned
  <1>19. AnswerSound(r)'
    BY <1>3, <1>5, <1>8, <1>9, <1>13, <1>14, <1>15 DEF AnswerSound, RecordAgrees
  <1>20. StreamSound(r)'
    <2>1. Ran(r)' = Ran(r)
      BY <1>2 DEF Ran
    <2>2. req[r].stage \notin InFlight /\ req'[r].stage \notin InFlight
      BY <1>1, <1>3, <1>13 DEF InFlight
    <2>3. StreamSound(r)
      BY <1>1 DEF Sound
    <2>4. CASE code = 200 /\ last = "result.completed"
      BY <1>6, <1>12, <1>15, <2>1, <2>2, <2>3, <2>4 DEF StreamSound, Counted
    <2>5. CASE code = 502 /\ last = "result.failed"
      BY <1>6, <1>12, <1>15, <2>1, <2>2, <2>3, <2>5 DEF StreamSound, Counted
    <2>6. QED
      BY <1>8, <2>4, <2>5
  <1>21. Sound(r)'
    BY <1>17, <1>18, <1>19, <1>20 DEF Sound
  <1>22. ASSUME NEW q \in Requests PROVE Sound(q)'
    <2>1. CASE q = r
      BY <1>21, <2>1
    <2>2. CASE q # r
      BY <1>2, <1>11, <1>13, <1>14, <1>15, <2>2, SoundFramed DEF IInv
    <2>3. QED
      BY <2>1, <2>2
  <1>23. DeadlineCountIsSound'
    <2>1. /\ Halted' = IF req[r].halted THEN Halted \union {r} ELSE Halted
          /\ r \notin Halted
      BY <1>1, <1>3, <1>13 DEF Halted
    <2>2. IsFiniteSet(Halted) /\ Cardinality(Halted) \in Nat
      BY CompletionsAssumption, FS_Subset, FS_CardinalityType DEF Halted
    <2>3. Cardinality(Halted') = Cardinality(Halted) + (IF req[r].halted THEN 1 ELSE 0)
      <3>1. Cardinality(Halted \union {r}) = Cardinality(Halted) + 1
        BY <2>1, <2>2, FS_AddElement
      <3>2. QED
        BY <2>1, <2>2, <3>1
    <2>4. req[r].deadlineHit => req[r].halted
      BY <1>1 DEF Sound, DeadlineSound
    <2>5. deadlineExhausted <= Cardinality(Halted) /\ deadlineExhausted \in Nat
      BY <1>1 DEF IInv, DeadlineCountIsSound, Halted, StateTyped
    <2>6. deadlineExhausted' <= Cardinality(Halted')
      BY <1>2, <2>2, <2>3, <2>4, <2>5
    <2>7. QED
      BY <2>6 DEF DeadlineCountIsSound, Halted
  <1>24. EntriesCoherent'
    BY <1>1, <1>2 DEF EntriesCoherent
  <1>25. QED
    BY <1>16, <1>22, <1>23, <1>24 DEF IInv

(* The clock takes from every timer alike, so none outgrows its deadline.   *)
LEMMA TickPreserves ==
  ASSUME IInv, Tick
  PROVE  IInv'
  <1>1. /\ StateTyped /\ EntriesCoherent /\ req \in [Requests -> Locals] /\ policy \in Policy
        /\ req' = [r \in Requests |-> [req[r] EXCEPT !.timer = Left(@), !.remaining = Left(@)]]
        /\ entries' = [p \in Providers |-> Breaker!Aged(entries[p])]
        /\ UNCHANGED << policy, enabled, chain, stream, telemetry, status, deadlineExhausted >>
    BY CompletionsAssumption DEF IInv, StateTyped, Tick
  <1>2. \A n \in Nat : Left(n) \in Nat
    BY DEF Left
  <1>3. \A n, m \in Nat : n <= m => Left(n) <= Left(m)
    BY DEF Left
  <1>4. ASSUME NEW r \in Requests
        PROVE  /\ req'[r] \in Locals
               /\ req'[r].timer = Left(req[r].timer)
               /\ req'[r].remaining = Left(req[r].remaining)
               /\ req'[r].stage = req[r].stage /\ req'[r].decision = req[r].decision
               /\ req'[r].provider = req[r].provider /\ req'[r].retry = req[r].retry
               /\ req'[r].deadlineHit = req[r].deadlineHit /\ req'[r].halted = req[r].halted
               /\ req[r].timer \in Nat /\ req[r].remaining \in Nat
    <2>1. req[r] \in Locals /\ req[r].timer \in Nat /\ req[r].remaining \in Nat
      BY <1>1 DEF Locals
    <2>2. req'[r] = [req[r] EXCEPT !.timer = Left(req[r].timer),
                                   !.remaining = Left(req[r].remaining)]
      BY <1>1
    <2>3. Left(req[r].timer) \in Nat /\ Left(req[r].remaining) \in Nat
      BY <1>2, <2>1
    <2>4. QED
      BY <2>1, <2>2, <2>3 DEF Locals
  <1>5. entries' \in [Providers -> Breaker!Entry] /\ EntriesCoherent'
    <2>1. ASSUME NEW p \in Providers
          PROVE  /\ Breaker!Aged(entries[p]) \in Breaker!Entry
                 /\ Proved!Coherent(Breaker!Aged(entries[p]))
      <3>1. entries[p] \in Breaker!Entry
        BY DEF IInv, StateTyped
      <3>2. Proved!Coherent(entries[p])
        BY DEF IInv, EntriesCoherent
      <3>3. QED
        BY <3>1, <3>2, EntryKept
    <2>2. QED
      BY <1>1, <2>1 DEF EntriesCoherent
  <1>6. StateTyped'
    <2>1. req' \in [Requests -> Locals]
      BY <1>1, <1>4
    <2>2. QED
      BY <1>1, <1>5, <2>1 DEF StateTyped
  <1>7. ASSUME NEW r \in Requests
        PROVE  Sound(r)'
    <2>1. Sound(r)
      BY DEF IInv
    <2>2. LocalsSound(r)'
      BY <1>1, <1>4, <2>1 DEF Sound, LocalsSound
    <2>3. DeadlineSound(r)'
      <3>1. req[r].deadlineHit => req[r].halted
        BY <2>1 DEF Sound, DeadlineSound
      <3>2. policy.requestDeadlineMs > 0 /\ req[r].stage \in InFlight =>
              req[r].timer <= req[r].remaining
        BY <2>1 DEF Sound, DeadlineSound
      <3>3. policy'.requestDeadlineMs > 0 /\ req'[r].stage \in InFlight =>
              req'[r].timer <= req'[r].remaining
        <4>1. policy' = policy
          BY <1>1
        <4>2. req[r].timer <= req[r].remaining =>
                Left(req[r].timer) <= Left(req[r].remaining)
          BY <1>3, <1>4
        <4>3. QED
          BY <1>4, <3>2, <4>1, <4>2
      <3>4. QED
        BY <1>4, <3>1, <3>3 DEF DeadlineSound
    <2>4. ChainSound(r)'
      BY <1>1, <1>4, <2>1 DEF Sound, ChainSound, SecondIsFallback
    <2>5. AnswerSound(r)'
      <3>1. /\ status'[r] = status[r] /\ telemetry'[r] = telemetry[r]
            /\ req'[r].stage = req[r].stage
        BY <1>1, <1>4
      <3>2. QED
        BY <2>1, <3>1 DEF Sound, AnswerSound, RecordAgrees
    <2>6. StreamSound(r)'
      <3>1. /\ stream' = stream /\ chain' = chain /\ status'[r] = status[r]
            /\ req'[r].stage = req[r].stage
        BY <1>1, <1>4
      <3>2. QED
        BY <2>1, <3>1 DEF Sound, StreamSound, Count, Ran
    <2>7. QED
      BY <2>2, <2>3, <2>4, <2>5, <2>6 DEF Sound
  <1>8. DeadlineCountIsSound'
    <2>1. Halted \subseteq Halted'
      BY <1>4 DEF Halted
    <2>2. QED
      BY <1>1, <2>1, HaltedGrows DEF IInv
  <1>9. QED
    BY <1>5, <1>6, <1>7, <1>8 DEF IInv

(* Nothing happens.                                                         *)
LEMMA StutterPreserves ==
  ASSUME IInv, UNCHANGED vars
  PROVE  IInv'
  <1>1. ASSUME NEW r \in Requests PROVE Sound(r)'
    BY SoundFramed DEF vars, IInv
  <1>2. StateTyped' /\ EntriesCoherent'
    BY DEF vars, IInv, StateTyped, EntriesCoherent
  <1>3. DeadlineCountIsSound'
    BY DEF vars, IInv, DeadlineCountIsSound
  <1>4. QED
    BY <1>1, <1>2, <1>3 DEF IInv

(* Before the first request nothing has been told or counted.               *)
LEMMA InitIInv == Init => IInv
  <1> SUFFICES ASSUME Init PROVE IInv
    OBVIOUS
  <1>1. /\ policy \in Policies /\ policy \in Policy /\ enabled \in BOOLEAN
        /\ entries = [p \in Providers |-> Breaker!FreshEntry]
        /\ req = [r \in Requests |-> Fresh]
        /\ chain = [r \in Requests |-> << >>] /\ stream = [r \in Requests |-> << >>]
        /\ telemetry = [r \in Requests |-> << >>] /\ status = [r \in Requests |-> 0]
        /\ deadlineExhausted = 0
    BY CompletionsAssumption DEF Init
  <1>2. Fresh \in Locals /\ Fresh.stage = "new" /\ Fresh.retry = 0 /\ ~Fresh.deadlineHit
    BY DEF Fresh, Locals, Stage, CallOutcome
  <1>3. Breaker!FreshEntry \in Breaker!Entry /\ Proved!Coherent(Breaker!FreshEntry)
    <2>1. Proved!FreshEntry \in Proved!Entry
      BY BreakerAssumed, Proved!FreshEntryType
    <2>2. Proved!Coherent(Proved!FreshEntry)
      BY BreakerAssumed DEF Proved!Coherent, Proved!FreshEntry, Proved!BreakerAssumption
    <2>3. QED
      BY <2>1, <2>2, SameBreaker
  <1>4. \A S : << >> \in Seq(S)
    OBVIOUS
  <1>5. StateTyped /\ EntriesCoherent
    <2>1. req \in [Requests -> Locals]
      BY <1>1, <1>2
    <2>2. entries \in [Providers -> Breaker!Entry] /\ EntriesCoherent
      BY <1>1, <1>3 DEF EntriesCoherent
    <2>3. /\ chain \in [Requests -> Seq(Attempt)] /\ stream \in [Requests -> EventLog]
          /\ telemetry \in [Requests -> Seq(Record)]
          /\ status \in [Requests -> {0, 200, 400, 422, 429, 500, 502}]
      BY <1>1, <1>4 DEF EventLog
    <2>4. QED
      BY <1>1, <2>1, <2>2, <2>3 DEF StateTyped
  <1>6. ASSUME NEW r \in Requests
        PROVE  Sound(r)
    <2>1. /\ req[r] = Fresh /\ chain[r] = << >> /\ stream[r] = << >> /\ telemetry[r] = << >>
          /\ status[r] = 0
      BY <1>1
    <2>2. Ran(r) = 0 /\ \A kind : Count(kind, r) = 0
      BY <1>5, <2>1, CountIsPlaces, PlacesOfNone
    <2>3. LocalsSound(r) /\ DeadlineSound(r) /\ ChainSound(r) /\ AnswerSound(r)
      BY <1>1, <1>2, <2>1
         DEF LocalsSound, DeadlineSound, ChainSound, AnswerSound, InFlight, Undecided,
             Planned, Executing, Policy
    <2>4. StreamSound(r)
      BY <1>2, <2>1, <2>2 DEF StreamSound, InFlight
    <2>5. QED
      BY <2>3, <2>4 DEF Sound
  <1>7. DeadlineCountIsSound
    <2>1. IsFiniteSet(Halted)
      BY CompletionsAssumption, FS_Subset DEF Halted
    <2>2. Cardinality(Halted) \in Nat
      BY <2>1, FS_CardinalityType
    <2>3. QED
      BY <1>1, <2>2 DEF DeadlineCountIsSound, Halted
  <1>8. QED
    BY <1>5, <1>6, <1>7 DEF IInv

(* -------------------------------- Results -------------------------------- *)

(* Every step of the route keeps the invariant.                             *)
LEMMA NextPreserves == IInv /\ [Next]_vars => IInv'
  <1> SUFFICES ASSUME IInv, [Next]_vars PROVE IInv'
    OBVIOUS
  <1>1. CASE Tick
    BY <1>1, TickPreserves
  <1>2. CASE UNCHANGED vars
    BY <1>2, StutterPreserves
  <1>3. ASSUME NEW r \in Requests,
               Receive(r) \/ ReadFails(r) \/ ProviderAnswers(r) \/ Continue(r)
        PROVE  IInv'
    BY <1>3, ReceivePreserves, ReadFailsPreserves, CallsPreserve, CatalogLoadedPreserves,
       RulesLoadedPreserves, BudgetsEvaluatedPreserves, AuditedPreserves,
       BackoffOverPreserves, TryFallbackPreserves, ConcludePreserves DEF Continue
  <1>4. QED
    BY <1>1, <1>2, <1>3 DEF Next

(* The invariant holds in every reachable state.                            *)
THEOREM Invariant == Spec => []IInv
  <1>1. QED
    BY InitIInv, NextPreserves, PTL DEF Spec

(* What the handler keeps of a request is well formed, no candidate is      *)
(* retried more often than configured and no deadline is counted twice.     *)
THEOREM TypeCorrect == Spec => []TypeOK
  <1>1. IInv => TypeOK
    <2> SUFFICES ASSUME IInv PROVE TypeOK
      OBVIOUS
    <2>1. StateTyped /\ \A r \in Requests : LocalsSound(r)
      BY DEF IInv, Sound
    <2>2. deadlineExhausted \in 0 .. Cardinality(Requests)
      <3>1. Halted \subseteq Requests /\ IsFiniteSet(Halted)
        BY CompletionsAssumption, FS_Subset DEF Halted
      <3>2. /\ Cardinality(Halted) <= Cardinality(Requests)
            /\ Cardinality(Halted) \in Nat /\ Cardinality(Requests) \in Nat
        BY <3>1, CompletionsAssumption, FS_Subset, FS_CardinalityType
      <3>3. deadlineExhausted <= Cardinality(Halted) /\ deadlineExhausted \in Nat
        BY <2>1 DEF IInv, DeadlineCountIsSound, Halted, StateTyped
      <3>4. QED
        BY <3>2, <3>3
    <2>3. QED
      BY <2>1, <2>2 DEF TypeOK, StateTyped, LocalsSound
  <1>2. QED
    BY Invariant, <1>1, PTL

(* The record builder is never handed a chain it refuses (build-event.ts    *)
(* 36-51).                                                                  *)
THEOREM ChainNeverRefused == Spec => []ChainIsBuildable
  <1>1. IInv => ChainIsBuildable
    <2> SUFFICES ASSUME IInv, NEW r \in Requests
                 PROVE  /\ Len(chain[r]) <= 2
                        /\ Len(chain[r]) = 2 =>
                             /\ chain[r][1].errorClass \in FALLBACK_ELIGIBLE
                             /\ req[r].stage # "answered" =>
                                  req[r].decision.source = "autopilot"
                        /\ req[r].stage = "settled" => chain[r] # << >>
      BY DEF ChainIsBuildable
    <2>1. ChainSound(r) /\ req[r].stage \in Stage /\ Len(chain[r]) \in Nat
      BY DEF IInv, Sound, StateTyped, Locals
    <2>2. req[r].stage \in Undecided \union Planned \union InFlight \union {"settled", "answered"}
      BY <2>1 DEF Stage, Undecided, Planned, InFlight
    <2>3. \/ Len(chain[r]) = 0 /\ req[r].stage # "settled"
          \/ Len(chain[r]) = 1
          \/ Len(chain[r]) = 2 /\ SecondIsFallback(r)
          \/ /\ req[r].stage = "answered" /\ Len(chain[r]) <= 2
             /\ Len(chain[r]) = 2 => chain[r][1].errorClass \in FALLBACK_ELIGIBLE
      BY <2>1, <2>2 DEF ChainSound, Undecided, Planned, InFlight
    <2>4. Len(chain[r]) <= 2
      <3>1. \A n \in {0, 1, 2} : n <= 2
        OBVIOUS
      <3>2. Len(chain[r]) \in {0, 1, 2} \/ Len(chain[r]) <= 2
        BY <2>3
      <3>3. QED
        BY <3>1, <3>2
    <2>5. Len(chain[r]) = 2 =>
            /\ chain[r][1].errorClass \in FALLBACK_ELIGIBLE
            /\ req[r].stage # "answered" => req[r].decision.source = "autopilot"
      <3>1. CASE Len(chain[r]) = 2 /\ SecondIsFallback(r)
        BY <3>1 DEF SecondIsFallback
      <3>2. QED
        BY <2>3, <3>1
    <2>6. req[r].stage = "settled" => chain[r] # << >>
      BY <2>3
    <2>7. QED
      BY <2>4, <2>5, <2>6
  <1>2. QED
    BY Invariant, <1>1, PTL

(* Every candidate really called is announced started and completed once,   *)
(* and a skipped one never (completions.ts 258-392); the client, the live   *)
(* stream and the record are told the same outcome, and the provider        *)
(* credited with a success is one that succeeded (build-event.ts 53-68).    *)
THEOREM EveryoneIsToldTheSame == Spec => []ToldTheSame
  <1>1. IInv => ChainMatchesStream
    BY DEF IInv, Sound, StreamSound, ChainMatchesStream
  <1>2. IInv => AnswersAgree
    <2> SUFFICES ASSUME IInv, NEW r \in Requests, telemetry[r] # << >>
                 PROVE  LET record == telemetry[r][1]
                        IN  /\ status[r] = 200 <=> record.terminalErrorClass = "none"
                            /\ status[r] = 200 <=> Count("result.completed", r) = 1
                            /\ status[r] = 502 <=> Count("result.failed", r) = 1
                            /\ \E i \in DOMAIN record.attempts :
                                 /\ record.attempts[i].provider = record.effectiveProviderId
                                 /\ IF status[r] = 200
                                      THEN record.attempts[i].errorClass = "none" ELSE i = 1
      BY DEF AnswersAgree
    <2>1. RecordAgrees(r) /\ StreamSound(r)
      BY DEF IInv, Sound, AnswerSound
    <2>2. QED
      BY <2>1 DEF RecordAgrees, StreamSound
  <1>3. IInv => ToldTheSame
    BY <1>1, <1>2 DEF ToldTheSame
  <1>4. QED
    BY Invariant, <1>3, PTL

(* Whatever call or backoff runs, its timer fires no later than the         *)
(* deadline, and a deadline is counted only where it halted an execution    *)
(* (provider-attempt.ts 37-43, 98-101, 128).                                *)
THEOREM DeadlineKept == Spec => []DeadlineIsKept
  <1>1. IInv => DeadlineIsKept
    BY DEF IInv, Sound, DeadlineSound, DeadlineIsKept, DeadlineBoundsCalls
  <1>2. QED
    BY Invariant, <1>1, PTL

(* --------------------- The breaker, as the route uses it ------------------ *)

calls == [r \in Requests |-> CallOf(r)]

(* The breaker's calls after a step of one request.                         *)
LEMMA CallsOfStep ==
  ASSUME NEW r \in Requests, NEW call,
         \A q \in Requests \ {r} : req'[q] = req[q], CallOf(r)' = call
  PROVE  calls' = [calls EXCEPT ![r] = call]
  <1>1. \A q \in Requests \ {r} : CallOf(q)' = CallOf(q)
    BY DEF CallOf
  <1>2. QED
    BY <1>1 DEF calls

(* Who has no call in flight is idle, who has one is not.                   *)
LEMMA CallOfStage ==
  ASSUME IInv, NEW r \in Requests
  PROVE  /\ req[r].stage \notin InFlight => CallOf(r) = Breaker!Idle
         /\ req[r].stage \in InFlight =>
              /\ CallOf(r) = [provider |-> req[r].provider, probe |-> req[r].probe]
              /\ CallOf(r) # Breaker!Idle /\ CallOf(r).provider = req[r].provider
  <1>1. req[r].probe \in BOOLEAN /\ (req[r].stage \in InFlight => req[r].provider \in Providers)
    BY DEF IInv, StateTyped, Locals, Sound, LocalsSound
  <1>2. CASE req[r].stage \notin InFlight
    BY <1>2 DEF CallOf, Breaker!Idle
  <1>3. CASE req[r].stage \in InFlight
    <2>1. CallOf(r) = [provider |-> req[r].provider, probe |-> req[r].probe]
      BY <1>1, <1>3 DEF CallOf
    <2>2. req[r].provider # NoProvider
      BY <1>1, <1>3, CompletionsAssumption
    <2>3. QED
      BY <1>3, <2>1, <2>2 DEF Breaker!Idle
  <1>4. QED
    BY <1>2, <1>3

(* Steps the breaker does not notice: no call begins or ends.               *)
LEMMA BreakerUnmoved ==
  ASSUME NEW r \in Requests, \A q \in Requests \ {r} : req'[q] = req[q],
         CallOf(r)' = CallOf(r), UNCHANGED << enabled, entries >>
  PROVE  UNCHANGED Breaker!vars
  <1>1. \A q \in Requests : CallOf(q)' = CallOf(q)
    BY DEF CallOf
  <1>2. calls' = calls
    BY <1>1 DEF calls
  <1>3. QED
    BY <1>2 DEF Breaker!vars, calls

(* One of the breaker's own steps.                                          *)
BreakerStep == Breaker!Next \/ UNCHANGED Breaker!vars

(* A step of a request that has no call in flight, before or after, leaves  *)
(* the breaker and its calls as they were.                                  *)
LEMMA OutsideUnmoved ==
  ASSUME IInv, IInv', NEW r \in Requests, \A q \in Requests \ {r} : req'[q] = req[q],
         req[r].stage \notin InFlight, req'[r].stage \notin InFlight,
         UNCHANGED << enabled, entries >>
  PROVE  BreakerStep
  <1>1. CallOf(r) = Breaker!Idle
    BY CallOfStage
  <1>2. CallOf(r)' = Breaker!Idle
    BY DEF CallOf, Breaker!Idle
  <1>3. QED
    BY <1>1, <1>2, BreakerUnmoved DEF BreakerStep

(* A candidate that is tried asks the breaker first and is skipped when     *)
(* refused.                                                                 *)
LEMMA TryIsAcquire ==
  ASSUME IInv, IInv', NEW r \in Requests, NEW p \in Providers, NEW locals \in Locals,
         NEW before, req[r].stage \notin InFlight,
         TryCandidate(r, p, locals, before), UNCHANGED << policy, enabled >>
  PROVE  BreakerStep
  <1>1. req \in [Requests -> Locals] /\ req' \in [Requests -> Locals] /\ StateTyped
    BY DEF IInv, StateTyped
  <1>2. CASE req' = [req EXCEPT ![r] = [locals EXCEPT !.stage = "settled",
                                          !.deadlineHit = TRUE, !.halted = TRUE]]
             /\ UNCHANGED entries
    <2>1. req'[r].stage = "settled" /\ \A q \in Requests \ {r} : req'[q] = req[q]
      BY <1>1, <1>2 DEF Locals
    <2>2. QED
      BY <1>2, <2>1, OutsideUnmoved DEF InFlight
  <1>3. CASE req' = [req EXCEPT ![r] = [locals EXCEPT !.stage = "settled"]]
             /\ UNCHANGED entries
    <2>1. req'[r].stage = "settled" /\ \A q \in Requests \ {r} : req'[q] = req[q]
      BY <1>1, <1>3 DEF Locals
    <2>2. QED
      BY <1>3, <2>1, OutsideUnmoved DEF InFlight
  <1>4. CASE /\ enabled => Breaker!Allows(entries[p])
             /\ entries' = IF enabled
                             THEN [entries EXCEPT ![p] = Breaker!Acquired(@)] ELSE entries
             /\ req' = [req EXCEPT ![r] =
                          Dialled([locals EXCEPT !.provider = p, !.retry = 0,
                                     !.probe = enabled /\ Breaker!Probes(entries[p])])]
    <2>1. PICK probe \in BOOLEAN : probe = (enabled /\ Breaker!Probes(entries[p]))
      OBVIOUS
    <2> DEFINE m == [locals EXCEPT !.provider = p, !.retry = 0, !.probe = probe]
    <2>2. m \in Locals /\ m.provider = p /\ m.probe = probe
      BY DEF Locals
    <2>3. req' = [req EXCEPT ![r] = Dialled(m)]
      BY <1>4, <2>1
    <2> HIDE DEF m
    <2>4. Dialled(m).stage = "calling" /\ Dialled(m).provider = p /\ Dialled(m).probe = probe
      BY <1>1, <2>2, DialledTyped
    <2>5. /\ req'[r].stage = "calling" /\ req'[r].provider = p /\ req'[r].probe = probe
          /\ \A q \in Requests \ {r} : req'[q] = req[q]
      BY <1>1, <2>3, <2>4
    <2>6. CallOf(r)' = [provider |-> p, probe |-> probe]
      BY <2>5 DEF CallOf, InFlight
    <2>7. calls' = [calls EXCEPT ![r] = [provider |-> p, probe |-> probe]]
      BY <2>5, <2>6, CallsOfStep
    <2>8. calls[r] = Breaker!Idle
      BY CallOfStage DEF calls
    <2>9. Breaker!TryAcquire(r, p)
      BY <1>4, <2>1, <2>7, <2>8 DEF Breaker!TryAcquire, calls
    <2>10. QED
      BY <2>9 DEF BreakerStep, Breaker!Next
  <1>5. QED
    BY <1>2, <1>3, <1>4 DEF TryCandidate

(* A candidate's one outcome is the breaker's outcome of its call.          *)
LEMMA SettleIsOutcome ==
  ASSUME IInv, NEW r \in Requests, req[r].stage \in InFlight, NEW err \in CallOutcome,
         NEW halted, Settle(r, err, halted), UNCHANGED enabled
  PROVE  BreakerStep
  <1>1. req \in [Requests -> Locals]
    BY DEF IInv, StateTyped
  <1>2. req' = [req EXCEPT ![r] = Returns(r, halted)]
    BY DEF Settle
  <1>3. /\ req'[r].stage = "settled"
        /\ \A q \in Requests \ {r} : req'[q] = req[q]
    BY <1>1, <1>2 DEF Returns, Locals
  <1>4. CallOf(r)' = Breaker!Idle
    BY <1>3 DEF CallOf, InFlight, Breaker!Idle
  <1>5. calls' = [calls EXCEPT ![r] = Breaker!Idle]
    BY <1>3, <1>4, CallsOfStep
  <1>6. calls[r] # Breaker!Idle /\ calls[r].provider = req[r].provider
    BY CallOfStage DEF calls
  <1>7. entries' = IF enabled
                     THEN [entries EXCEPT ![calls[r].provider] = Breaker!Recorded(@, err)]
                     ELSE entries
    BY <1>6 DEF Settle
  <1>8. Breaker!RecordOutcome(r, err)
    BY <1>5, <1>6, <1>7 DEF Breaker!RecordOutcome, calls
  <1>9. QED
    BY <1>8 DEF BreakerStep, Breaker!Next, CallOutcome, Breaker!CallOutcome

(* A retry is part of the same call.                                        *)
LEMMA RetryUnnoticed ==
  ASSUME IInv, NEW r \in Requests, req[r].stage \in InFlight, req'[r].stage \in InFlight,
         \A q \in Requests \ {r} : req'[q] = req[q],
         req'[r].provider = req[r].provider, req'[r].probe = req[r].probe,
         UNCHANGED << enabled, entries >>
  PROVE  BreakerStep
  <1>1. CallOf(r)' = CallOf(r)
    BY DEF CallOf
  <1>2. QED
    BY <1>1, BreakerUnmoved DEF BreakerStep

(* A call's end is a retry or its outcome.                                  *)
LEMMA CallEndsIsOutcome ==
  ASSUME IInv, NEW r \in Requests, req[r].stage = "calling", NEW err \in CallOutcome,
         CallEnds(r, err), UNCHANGED << policy, enabled >>
  PROVE  BreakerStep
  <1>1. req \in [Requests -> Locals] /\ req[r].stage \in InFlight
    BY DEF IInv, StateTyped, InFlight
  <1>2. CASE Backoff(r, err) /\ UNCHANGED entries
    <2> DEFINE timer == Capped(BackoffDelay(req[r].retry), req[r].remaining)
    <2>1. req' = [req EXCEPT ![r].stage = "backoff", ![r].last = err, ![r].timer = timer]
      BY <1>2 DEF Backoff
    <2> HIDE DEF timer
    <2>2. /\ req'[r].stage = "backoff" /\ req'[r].provider = req[r].provider
          /\ req'[r].probe = req[r].probe
          /\ \A q \in Requests \ {r} : req'[q] = req[q]
      BY <1>1, <2>1 DEF Locals
    <2>3. QED
      BY <1>1, <1>2, <2>2, RetryUnnoticed DEF InFlight
  <1>3. CASE Settle(r, err, RetriesLeft(r, err))
    BY <1>1, <1>3, SettleIsOutcome
  <1>4. QED
    BY <1>2, <1>3 DEF CallEnds

(* Steps that only move a request between awaits without a call.            *)
LEMMA QuietlyBreaker ==
  ASSUME IInv, IInv', NEW r \in Requests, NEW l \in Locals, req' = [req EXCEPT ![r] = l],
         req[r].stage \notin InFlight, l.stage \notin InFlight, UNCHANGED << enabled, entries >>
  PROVE  BreakerStep
  <1>1. req'[r] = l /\ \A q \in Requests \ {r} : req'[q] = req[q]
    BY DEF IInv, StateTyped
  <1>2. QED
    BY <1>1, OutsideUnmoved

(* A refusal makes no call.                                                 *)
LEMMA RefuseUnnoticed ==
  ASSUME IInv, IInv', NEW r \in Requests, req[r].stage \notin InFlight, NEW code, NEW types,
         Refuse(r, code, types), UNCHANGED enabled
  PROVE  BreakerStep
  <1>1. /\ req' = [req EXCEPT ![r] = Returned(r)] /\ UNCHANGED entries
        /\ req[r] \in Locals
    BY DEF Refuse, IInv, StateTyped
  <1>2. Returned(r) \in Locals /\ Returned(r).stage = "answered"
    BY <1>1, ReturnedTyped
  <1>3. QED
    BY <1>1, <1>2, QuietlyBreaker DEF InFlight

(* An execution begins with the chosen candidate.                           *)
LEMMA ExecuteIsAcquire ==
  ASSUME IInv, IInv', NEW r \in Requests, req[r].stage \in Planned, NEW before,
         Execute(r, before), UNCHANGED << policy, enabled >>
  PROVE  BreakerStep
  <1> DEFINE l == [req[r] EXCEPT !.verdict = "none", !.remaining = policy.requestDeadlineMs]
  <1>1. /\ req[r] \in Locals /\ policy \in Policy /\ req[r].decision \in Decision
        /\ req[r].stage \notin InFlight
    BY CompletionsAssumption
       DEF IInv, StateTyped, Sound, LocalsSound, Planned, InFlight
  <1>2. l \in Locals
    BY <1>1 DEF Locals, Policy
  <1>3. req[r].decision.chosen \in Providers
    BY <1>1 DEF Decision
  <1>4. TryCandidate(r, req[r].decision.chosen, l, before \o << "decision.committed" >>)
    BY DEF Execute
  <1> HIDE DEF l
  <1>5. QED
    BY <1>1, <1>2, <1>3, <1>4, TryIsAcquire

(* Every step of a request is a step of the breaker or none.                *)
LEMMA RequestKeepsBreaker ==
  ASSUME IInv, IInv', NEW r \in Requests,
         Receive(r) \/ ReadFails(r) \/ ProviderAnswers(r) \/ Continue(r)
  PROVE  BreakerStep
  <1>1. req \in [Requests -> Locals] /\ req[r] \in Locals
    BY DEF IInv, StateTyped
  <1>2. CASE Receive(r)
    <2>1. req[r].stage \notin InFlight
      BY <1>2 DEF Receive, InFlight
    <2>2. CASE Refuse(r, 400, << >>)
      BY <1>2, <2>1, <2>2, RefuseUnnoticed DEF Receive
    <2>3. CASE req' = [req EXCEPT ![r].stage = "catalog"] /\ UNCHANGED entries
      <3>1. req'[r].stage = "catalog" /\ \A q \in Requests \ {r} : req'[q] = req[q]
        BY <1>1, <2>3 DEF Locals
      <3>2. QED
        BY <1>2, <2>1, <2>3, <3>1, OutsideUnmoved DEF Receive, InFlight
    <2>4. QED
      BY <1>2, <2>2, <2>3 DEF Receive
  <1>3. CASE CatalogLoaded(r)
    <2>1. /\ req' = [req EXCEPT ![r].stage = "rules"] /\ UNCHANGED << enabled, entries >>
          /\ req[r].stage = "catalog"
      BY <1>3 DEF CatalogLoaded
    <2>2. req'[r].stage = "rules" /\ \A q \in Requests \ {r} : req'[q] = req[q]
      BY <1>1, <2>1 DEF Locals
    <2>3. QED
      BY <2>1, <2>2, OutsideUnmoved DEF InFlight
  <1>4. CASE RulesLoaded(r)
    <2>1. req[r].stage \notin InFlight /\ UNCHANGED enabled
      BY <1>4 DEF RulesLoaded, InFlight
    <2>2. CASE Refuse(r, 422, << "governance.completed" >>)
      BY <2>1, <2>2, RefuseUnnoticed
    <2>3. CASE /\ \E d \in Decisions :
                    req' = [req EXCEPT ![r].stage = "budgets", ![r].decision = d]
               /\ UNCHANGED entries
      <3>1. PICK d \in Decisions : req' = [req EXCEPT ![r].stage = "budgets", ![r].decision = d]
        BY <2>3
      <3>2. req'[r].stage = "budgets" /\ \A q \in Requests \ {r} : req'[q] = req[q]
        BY <1>1, <3>1 DEF Locals
      <3>3. QED
        BY <2>1, <2>3, <3>2, OutsideUnmoved DEF InFlight
    <2>4. QED
      BY <1>4, <2>2, <2>3 DEF RulesLoaded
  <1>5. CASE ReadFails(r)
    BY <1>5, RefuseUnnoticed DEF ReadFails, InFlight
  <1>6. CASE BudgetsEvaluated(r)
    <2>1. req[r].stage = "budgets" /\ UNCHANGED << policy, enabled >>
      BY <1>6 DEF BudgetsEvaluated
    <2>2. CASE Execute(r, << >>)
      BY <2>1, <2>2, ExecuteIsAcquire DEF Planned
    <2>3. CASE /\ \E v \in {"warned", "blocked"} :
                    req' = [req EXCEPT ![r].stage = "audit", ![r].verdict = v]
               /\ UNCHANGED entries
      <3>1. PICK v \in {"warned", "blocked"} :
              req' = [req EXCEPT ![r].stage = "audit", ![r].verdict = v]
        BY <2>3
      <3>2. req'[r].stage = "audit" /\ \A q \in Requests \ {r} : req'[q] = req[q]
        BY <1>1, <3>1 DEF Locals
      <3>3. QED
        BY <2>1, <2>3, <3>2, OutsideUnmoved DEF InFlight
    <2>4. QED
      BY <1>6, <2>2, <2>3 DEF BudgetsEvaluated
  <1>7. CASE Audited(r)
    <2>1. req[r].stage \in Planned /\ req[r].stage \notin InFlight
          /\ UNCHANGED << policy, enabled >>
      BY <1>7 DEF Audited, Planned, InFlight
    <2>2. Refuse(r, 429, << "budget.evaluated" >>) \/ Execute(r, << "budget.evaluated" >>)
      BY <1>7 DEF Audited
    <2>3. QED
      BY <2>1, <2>2, RefuseUnnoticed, ExecuteIsAcquire
  <1>8. CASE ProviderAnswers(r)
    <2>1. PICK err \in Answers : CallEnds(r, err)
      BY <1>8 DEF ProviderAnswers
    <2>2. err \in CallOutcome /\ req[r].stage = "calling" /\ UNCHANGED << policy, enabled >>
      BY <1>8, CompletionsAssumption DEF ProviderAnswers
    <2>3. QED
      BY <2>1, <2>2, CallEndsIsOutcome
  <1>9. CASE CallTimesOut(r)
    BY <1>9, CallEndsIsOutcome DEF CallTimesOut, CallOutcome
  <1>10. CASE BackoffOver(r)
    <2>1. /\ req[r].stage \in InFlight /\ req[r].last \in CallOutcome
          /\ UNCHANGED << policy, enabled >>
      BY <1>1, <1>10 DEF BackoffOver, InFlight, Locals
    <2>2. CASE Settle(r, req[r].last, TRUE)
      BY <2>1, <2>2, SettleIsOutcome
    <2>3. CASE Redial(r)
      <3> DEFINE m == [req[r] EXCEPT !.retry = @ + 1]
      <3>1. m \in Locals /\ m.provider = req[r].provider /\ m.probe = req[r].probe
        BY <1>1 DEF Locals
      <3>2. req' = [req EXCEPT ![r] = Dialled(m)] /\ UNCHANGED entries
        BY <2>3 DEF Redial
      <3> HIDE DEF m
      <3>3. /\ Dialled(m).stage = "calling" /\ Dialled(m).provider = req[r].provider
            /\ Dialled(m).probe = req[r].probe
        BY <3>1, DialledTyped DEF IInv
      <3>4. /\ req'[r].stage \in InFlight /\ req'[r].provider = req[r].provider
            /\ req'[r].probe = req[r].probe
            /\ \A q \in Requests \ {r} : req'[q] = req[q]
        BY <1>1, <3>2, <3>3 DEF InFlight
      <3>5. QED
        BY <2>1, <3>2, <3>4, RetryUnnoticed
    <2>4. QED
      BY <1>10, <2>2, <2>3 DEF BackoffOver
  <1>11. CASE TryFallback(r)
    <2>1. /\ req[r].stage = "settled" /\ FallsBack(r)
          /\ TryCandidate(r, req[r].decision.next, req[r], << >>)
          /\ UNCHANGED << policy, enabled >>
      BY <1>11 DEF TryFallback
    <2>2. req[r].decision \in Decision
      BY <2>1, CompletionsAssumption DEF IInv, Sound, LocalsSound, Executing
    <2>3. req[r].decision.next \in Providers
      BY <2>1, <2>2 DEF Decision, FallsBack
    <2>4. QED
      BY <1>1, <2>1, <2>3, TryIsAcquire DEF InFlight
  <1>12. CASE Conclude(r)
    <2>1. /\ req[r].stage = "settled" /\ req' = [req EXCEPT ![r] = Returned(r)]
          /\ UNCHANGED << enabled, entries >>
      BY <1>12 DEF Conclude
    <2>2. Returned(r) \in Locals /\ Returned(r).stage = "answered"
      BY <1>1, ReturnedTyped
    <2>3. QED
      BY <2>1, <2>2, QuietlyBreaker DEF InFlight
  <1>13. QED
    BY <1>2, <1>3, <1>4, <1>5, <1>6, <1>7, <1>8, <1>9, <1>10, <1>11, <1>12 DEF Continue

(* The route's clock is the breaker's.                                      *)
LEMMA TickKeepsBreaker ==
  ASSUME IInv, Tick
  PROVE  Breaker!Tick
  <1>1. /\ req \in [Requests -> Locals]
        /\ req' = [r \in Requests |-> [req[r] EXCEPT !.timer = Left(@), !.remaining = Left(@)]]
        /\ entries' = [p \in Providers |-> Breaker!Aged(entries[p])]
        /\ UNCHANGED enabled
    BY DEF IInv, StateTyped, Tick
  <1>2. \A r \in Requests : CallOf(r)' = CallOf(r)
    BY <1>1 DEF CallOf, Locals
  <1>3. calls' = calls
    BY <1>2 DEF calls
  <1>4. QED
    BY <1>1, <1>3 DEF Breaker!Tick, calls

(* The route asks the breaker before every logical call, reports its        *)
(* outcome exactly once, after all its retries, and touches it in no other  *)
(* way: it is a caller the breaker's own theorems hold for                  *)
(* (completions.ts 284-366).                                                *)
THEOREM UsesBreakerAsSpecified == Spec => ImplementsBreaker
  <1>1. Init => Breaker!Init
    <2> SUFFICES ASSUME Init PROVE Breaker!Init
      OBVIOUS
    <2>1. \A r \in Requests : CallOf(r) = Breaker!Idle
      BY DEF Init, CallOf, Fresh, InFlight, Breaker!Idle
    <2>2. QED
      BY <2>1 DEF Init, Breaker!Init
  <1>2. IInv /\ IInv' /\ [Next]_vars => [Breaker!Next]_(Breaker!vars)
    <2> SUFFICES ASSUME IInv, IInv', [Next]_vars PROVE BreakerStep
      BY DEF BreakerStep
    <2>1. CASE Tick
      BY <2>1, TickKeepsBreaker DEF BreakerStep, Breaker!Next
    <2>2. CASE UNCHANGED vars
      <3>1. calls' = calls
        BY <2>2 DEF vars, calls, CallOf
      <3>2. QED
        BY <2>2, <3>1 DEF vars, BreakerStep, Breaker!vars, calls
    <2>3. CASE \E r \in Requests :
                 Receive(r) \/ ReadFails(r) \/ ProviderAnswers(r) \/ Continue(r)
      BY <2>3, RequestKeepsBreaker
    <2>4. QED
      BY <2>1, <2>2, <2>3 DEF Next
  <1>3. QED
    BY Invariant, <1>1, <1>2, PTL DEF Spec, ImplementsBreaker, Breaker!Spec

(* ------------------------ The per-request contract ------------------------ *)

phase == [r \in Requests |-> Phase(r)]
verdict == [r \in Requests |-> Verdict(r)]
Recorded(r) == [i \in DOMAIN telemetry[r] |-> Outcome(telemetry[r][i])]
recorded == [r \in Requests |-> Recorded(r)]

(* The contract's view of the other requests does not move with r.          *)
LEMMA ViewsOfStep ==
  ASSUME NEW r \in Requests, NEW p, NEW v, NEW o,
         \A q \in Requests \ {r} :
           req'[q] = req[q] /\ status'[q] = status[q] /\ telemetry'[q] = telemetry[q],
         Phase(r)' = p, Verdict(r)' = v, Recorded(r)' = o
  PROVE  /\ phase' = [phase EXCEPT ![r] = p]
         /\ verdict' = [verdict EXCEPT ![r] = v]
         /\ recorded' = [recorded EXCEPT ![r] = o]
  <1>1. \A q \in Requests \ {r} :
          Phase(q)' = Phase(q) /\ Verdict(q)' = Verdict(q) /\ Recorded(q)' = Recorded(q)
    BY DEF Phase, Verdict, Recorded, InFlight
  <1>2. QED
    BY <1>1 DEF phase, verdict, recorded

(* A step of the contract, in the route's terms.                            *)
ContractStep == Contract!Next \/ UNCHANGED Contract!vars

(* A step of r that changes its phase at most, by a move the contract knows. *)
LEMMA PhaseMoves ==
  ASSUME NEW r \in Requests,
         \A q \in Requests \ {r} : req'[q] = req[q],
         UNCHANGED << status, telemetry >>,
         \/ Phase(r)' = Phase(r)
         \/ Phase(r) = "absent" /\ Phase(r)' = "deciding"
         \/ Phase(r) = "deciding" /\ Phase(r)' = "executing"
  PROVE  ContractStep
  <1>1. PICK p : p = Phase(r)'
    OBVIOUS
  <1>2. /\ Verdict(r)' = Verdict(r) /\ Recorded(r)' = Recorded(r)
        /\ \A q \in Requests : Verdict(q)' = Verdict(q) /\ Recorded(q)' = Recorded(q)
    BY DEF Verdict, Recorded
  <1>3. \A q \in Requests \ {r} : Phase(q)' = Phase(q)
    BY DEF Phase, InFlight
  <1>4. verdict' = verdict /\ recorded' = recorded
    BY <1>2 DEF verdict, recorded
  <1>5. phase' = [phase EXCEPT ![r] = p] /\ phase[r] = Phase(r)
    BY <1>1, <1>3 DEF phase
  <1>6. CASE Phase(r)' = Phase(r)
    <2>1. phase' = phase
      BY <1>3, <1>6 DEF phase
    <2>2. QED
      BY <1>4, <2>1 DEF ContractStep, Contract!vars, phase, verdict, recorded, Recorded
  <1>7. CASE Phase(r) = "absent" /\ Phase(r)' = "deciding"
    <2>1. Contract!Arrive(r)
      BY <1>1, <1>4, <1>5, <1>7
         DEF Contract!Arrive, Contract!Move, phase, verdict, recorded, Recorded
    <2>2. QED
      BY <2>1 DEF ContractStep, Contract!Next
  <1>8. CASE Phase(r) = "deciding" /\ Phase(r)' = "executing"
    <2>1. Contract!Execute(r)
      BY <1>1, <1>4, <1>5, <1>8
         DEF Contract!Execute, Contract!Move, phase, verdict, recorded, Recorded
    <2>2. QED
      BY <2>1 DEF ContractStep, Contract!Next
  <1>9. QED
    BY <1>6, <1>7, <1>8

(* A refusal is the contract's, and leaves no record.                       *)
LEMMA RefuseIsRefusal ==
  ASSUME IInv, NEW r \in Requests, req[r].stage \in Undecided \union Planned,
         NEW code \in {400, 422, 429, 500}, NEW types, Refuse(r, code, types)
  PROVE  ContractStep
  <1>1. /\ req' = [req EXCEPT ![r] = Returned(r)] /\ status' = [status EXCEPT ![r] = code]
        /\ UNCHANGED telemetry /\ req \in [Requests -> Locals] /\ req[r] \in Locals
        /\ status \in [Requests -> {0, 200, 400, 422, 429, 500, 502}]
    BY DEF Refuse, IInv, StateTyped
  <1>2. /\ req'[r].stage = "answered" /\ status'[r] = code
        /\ \A q \in Requests \ {r} : req'[q] = req[q] /\ status'[q] = status[q]
    BY <1>1, ReturnedTyped
  <1>3. Phase(r)' = "answered" /\ Verdict(r)' = "refused"
    BY <1>2 DEF Phase, Verdict, InFlight
  <1>4. Phase(r) \in {"absent", "deciding"}
    <2>1. req[r].stage = "new" \/ req[r].stage \in {"catalog", "rules", "budgets", "audit"}
      BY DEF Undecided, Planned
    <2>2. CASE req[r].stage = "new"
      BY <2>2 DEF Phase, InFlight
    <2>3. CASE req[r].stage \in {"catalog", "rules", "budgets", "audit"}
      BY <2>3 DEF Phase, InFlight
    <2>4. QED
      BY <2>1, <2>2, <2>3
  <1>5. \A q \in Requests : Recorded(q)' = Recorded(q)
    BY <1>1 DEF Recorded
  <1>6. recorded' = recorded
    BY <1>5 DEF recorded
  <1>7. Recorded(r)' = Recorded(r) /\ recorded[r] = Recorded(r)
    BY <1>5 DEF recorded
  <1>8. /\ phase' = [phase EXCEPT ![r] = "answered"] /\ phase[r] = Phase(r)
        /\ verdict' = [verdict EXCEPT ![r] = "refused"]
    <2>1. PICK o : o = Recorded(r)'
      OBVIOUS
    <2>2. \A q \in Requests \ {r} : telemetry'[q] = telemetry[q]
      BY <1>1
    <2>3. phase[r] = Phase(r)
      BY DEF phase
    <2>4. QED
      BY <1>2, <1>3, <2>1, <2>2, <2>3, ViewsOfStep
  <1>9. Contract!Refuse(r)
    BY <1>4, <1>6, <1>8
       DEF Contract!Refuse, Contract!Move, phase, verdict, recorded, Recorded
  <1>10. QED
    BY <1>9 DEF ContractStep, Contract!Next

(* The end of an execution gives one answer and one record, of one outcome. *)
LEMMA ConcludeIsFinish ==
  ASSUME IInv, IInv', NEW r \in Requests, Conclude(r)
  PROVE  ContractStep
  <1>1. /\ req[r].stage = "settled" /\ req[r] \in Locals /\ req \in [Requests -> Locals]
        /\ req' = [req EXCEPT ![r] = Returned(r)]
        /\ telemetry' = [telemetry EXCEPT ![r] = Append(@, TelemetryEvent(r))]
        /\ telemetry \in [Requests -> Seq(Record)]
        /\ status \in [Requests -> {0, 200, 400, 422, 429, 500, 502}]
    BY DEF Conclude, IInv, StateTyped
  <1>2. PICK code \in {200, 502} : status' = [status EXCEPT ![r] = code]
    BY DEF Conclude
  <1>3. PICK v \in {"completed", "failed"} : v = IF code = 200 THEN "completed" ELSE "failed"
    OBVIOUS
  <1>4. /\ req'[r].stage = "answered" /\ status'[r] = code
        /\ \A q \in Requests \ {r} :
             req'[q] = req[q] /\ status'[q] = status[q] /\ telemetry'[q] = telemetry[q]
    BY <1>1, <1>2, ReturnedTyped
  <1>5. Phase(r)' = "answered" /\ Phase(r) = "executing" /\ Verdict(r)' = v
    BY <1>1, <1>3, <1>4 DEF Phase, Verdict, InFlight
  <1>6. Recorded(r)' = << v >>
    <2>1. /\ Len(telemetry'[r]) = 1 /\ RecordAgrees(r)' /\ telemetry'[r] \in Seq(Record)
      BY <1>4 DEF IInv, Sound, AnswerSound, StateTyped
    <2>2. Outcome(telemetry'[r][1]) = v
      BY <1>3, <1>4, <2>1 DEF RecordAgrees, Outcome
    <2>3. DOMAIN telemetry'[r] = {1}
      BY <2>1
    <2>4. Recorded(r)' = [i \in {1} |-> v]
      BY <2>2, <2>3 DEF Recorded
    <2>5. << v >> = [i \in {1} |-> v]
      OBVIOUS
    <2>6. QED
      BY <2>4, <2>5
  <1>7. /\ phase' = [phase EXCEPT ![r] = "answered"] /\ phase[r] = "executing"
        /\ verdict' = [verdict EXCEPT ![r] = v]
        /\ recorded' = [recorded EXCEPT ![r] = << v >>]
    <2>1. phase[r] = "executing"
      BY <1>5 DEF phase
    <2>2. QED
      BY <1>4, <1>5, <1>6, <2>1, ViewsOfStep
  <1>8. Contract!Finish(r)
    BY <1>7 DEF Contract!Finish, Contract!Move, phase, verdict, recorded, Recorded
  <1>9. QED
    BY <1>8 DEF ContractStep, Contract!Next

(* The phase of each stage.                                                 *)
LEMMA Phases ==
  ASSUME NEW r
  PROVE  /\ req[r].stage = "new" => Phase(r) = "absent"
         /\ req[r].stage \in {"catalog", "rules", "budgets", "audit"} => Phase(r) = "deciding"
         /\ req[r].stage \in {"calling", "backoff", "settled"} => Phase(r) = "executing"
  BY DEF Phase, InFlight

(* The same after a step.                                                   *)
LEMMA PhasesAfter ==
  ASSUME NEW r
  PROVE  /\ req'[r].stage \in {"catalog", "rules", "budgets", "audit"} => Phase(r)' = "deciding"
         /\ req'[r].stage \in {"calling", "backoff", "settled"} => Phase(r)' = "executing"
  BY DEF Phase, InFlight

(* Whichever way a candidate is tried, the request is executing.            *)
LEMMA TryMoves ==
  ASSUME IInv, NEW r \in Requests, NEW p, NEW locals, NEW before, MayTry(r, p, locals, before),
         TryCandidate(r, p, locals, before), UNCHANGED << status, telemetry >>
  PROVE  ContractStep
  <1>1. req \in [Requests -> Locals] /\ locals \in Locals /\ p \in Providers /\ StateTyped
        /\ req[r].stage \in {"budgets", "audit", "settled"}
    BY DEF IInv, StateTyped, MayTry, Planned
  <1>2. /\ req'[r].stage \in {"calling", "settled"}
        /\ \A q \in Requests \ {r} : req'[q] = req[q]
    <2>1. CASE req' = [req EXCEPT ![r] = [locals EXCEPT !.stage = "settled",
                                            !.deadlineHit = TRUE, !.halted = TRUE]]
      BY <1>1, <2>1 DEF Locals
    <2>2. CASE req' = [req EXCEPT ![r] = [locals EXCEPT !.stage = "settled"]]
      BY <1>1, <2>2 DEF Locals
    <2>3. CASE req' = [req EXCEPT ![r] =
                         Dialled([locals EXCEPT !.provider = p, !.retry = 0,
                                    !.probe = enabled /\ Breaker!Probes(entries[p])])]
      <3>1. PICK probe \in BOOLEAN : probe = (enabled /\ Breaker!Probes(entries[p]))
        OBVIOUS
      <3> DEFINE m == [locals EXCEPT !.provider = p, !.retry = 0, !.probe = probe]
      <3>2. m \in Locals
        BY <1>1 DEF Locals
      <3>3. req' = [req EXCEPT ![r] = Dialled(m)]
        BY <2>3, <3>1
      <3> HIDE DEF m
      <3>4. Dialled(m).stage = "calling"
        BY <1>1, <3>2, DialledTyped
      <3>5. QED
        BY <1>1, <3>3, <3>4
    <2>4. QED
      BY <2>1, <2>2, <2>3 DEF TryCandidate
  <1>3. Phase(r)' = "executing" /\ Phase(r) \in {"deciding", "executing"}
    BY <1>1, <1>2, Phases, PhasesAfter
  <1>4. QED
    BY <1>2, <1>3, PhaseMoves

(* A call that ends leaves the request executing.                           *)
LEMMA CallEndsStays ==
  ASSUME IInv, NEW r \in Requests, req[r].stage \in InFlight,
         NEW err, NEW halted, Backoff(r, err) \/ Settle(r, err, halted) \/ Redial(r),
         UNCHANGED << status, telemetry >>
  PROVE  ContractStep
  <1>1. req \in [Requests -> Locals] /\ req[r].stage \in {"calling", "backoff"}
    BY DEF IInv, StateTyped, InFlight
  <1>2. /\ req'[r].stage \in {"calling", "backoff", "settled"}
        /\ \A q \in Requests \ {r} : req'[q] = req[q]
    <2>1. CASE Backoff(r, err)
      <3> DEFINE timer == Capped(BackoffDelay(req[r].retry), req[r].remaining)
      <3>1. req' = [req EXCEPT ![r].stage = "backoff", ![r].last = err, ![r].timer = timer]
        BY <2>1 DEF Backoff
      <3> HIDE DEF timer
      <3>2. QED
        BY <1>1, <3>1 DEF Locals
    <2>2. CASE Settle(r, err, halted)
      <3>1. req' = [req EXCEPT ![r] = Returns(r, halted)]
        BY <2>2 DEF Settle
      <3>2. QED
        BY <1>1, <3>1 DEF Returns, Locals
    <2>3. CASE Redial(r)
      <3>1. req' = [req EXCEPT ![r] = Dialled([req[r] EXCEPT !.retry = @ + 1])]
        BY <2>3 DEF Redial
      <3>2. QED
        BY <1>1, <3>1 DEF Dialled, Locals
    <2>4. QED
      BY <2>1, <2>2, <2>3
  <1>3. Phase(r)' = "executing" /\ Phase(r) = "executing"
    BY <1>1, <1>2, Phases, PhasesAfter
  <1>4. QED
    BY <1>2, <1>3, PhaseMoves

(* An execution begins: the contract's own step.                            *)
LEMMA ExecuteMoves ==
  ASSUME IInv, NEW r \in Requests, req[r].stage \in Planned,
         NEW before \in {<< >>, << "budget.evaluated" >>}, Execute(r, before)
  PROVE  ContractStep
  <1> DEFINE l == [req[r] EXCEPT !.verdict = "none", !.remaining = policy.requestDeadlineMs]
             p == req[r].decision.chosen
             types == before \o << "decision.committed" >>
  <1>1. StateTyped /\ Sound(r) /\ req[r] \in Locals /\ policy \in Policy
    BY CompletionsAssumption DEF IInv, StateTyped
  <1>2. p \in Providers
    <2>1. req[r].decision \in Decision
      BY <1>1, CompletionsAssumption DEF Sound, LocalsSound
    <2>2. QED
      BY <2>1 DEF Decision
  <1>3. /\ l \in Locals /\ l.decision = req[r].decision /\ l.retry = req[r].retry
        /\ (l.deadlineHit => l.halted)
    BY <1>1 DEF Locals, Policy, Sound, DeadlineSound
  <1>4. types \in {<< "decision.committed" >>, << "budget.evaluated", "decision.committed" >>}
    BY DecisionAnnounced
  <1>5. chain[r] = << >>
    BY <1>1 DEF Sound, ChainSound, StateTyped
  <1>6. TryCandidate(r, p, l, types) /\ UNCHANGED << telemetry, status >>
    BY DEF Execute
  <1> HIDE DEF l, p, types
  <1>7. MayTry(r, p, l, types)
    BY <1>1, <1>2, <1>3, <1>4, <1>5 DEF MayTry, Sound, LocalsSound
  <1>8. QED
    BY <1>6, <1>7, TryMoves

(* Every step of a request is a step of the contract or none.               *)
LEMMA RequestKeepsContract ==
  ASSUME IInv, IInv', NEW r \in Requests,
         Receive(r) \/ ReadFails(r) \/ ProviderAnswers(r) \/ Continue(r)
  PROVE  ContractStep
  <1>1. /\ req \in [Requests -> Locals] /\ req[r] \in Locals /\ Sound(r)
    BY DEF IInv, StateTyped
  <1>2. CASE Receive(r)
    <2>1. req[r].stage = "new"
      BY <1>2 DEF Receive
    <2>2. CASE Refuse(r, 400, << >>)
      BY <2>1, <2>2, RefuseIsRefusal DEF Undecided
    <2>3. CASE req' = [req EXCEPT ![r].stage = "catalog"] /\ UNCHANGED << status, telemetry >>
      <3>1. req'[r].stage = "catalog" /\ \A q \in Requests \ {r} : req'[q] = req[q]
        BY <1>1, <2>3 DEF Locals
      <3>2. Phase(r) = "absent" /\ Phase(r)' = "deciding"
        BY <2>1, <3>1, Phases, PhasesAfter
      <3>3. QED
        BY <2>3, <3>1, <3>2, PhaseMoves
    <2>4. QED
      BY <1>2, <2>2, <2>3 DEF Receive
  <1>3. CASE CatalogLoaded(r)
    <2>1. /\ req' = [req EXCEPT ![r].stage = "rules"] /\ UNCHANGED << status, telemetry >>
          /\ req[r].stage = "catalog"
      BY <1>3 DEF CatalogLoaded
    <2>2. req'[r].stage = "rules" /\ \A q \in Requests \ {r} : req'[q] = req[q]
      BY <1>1, <2>1 DEF Locals
    <2>3. Phase(r) = "deciding" /\ Phase(r)' = "deciding"
      BY <2>1, <2>2, Phases, PhasesAfter
    <2>4. QED
      BY <2>1, <2>2, <2>3, PhaseMoves
  <1>4. CASE RulesLoaded(r)
    <2>1. req[r].stage = "rules"
      BY <1>4 DEF RulesLoaded
    <2>2. CASE Refuse(r, 422, << "governance.completed" >>)
      BY <2>1, <2>2, RefuseIsRefusal DEF Undecided
    <2>3. CASE /\ \E d \in Decisions :
                    req' = [req EXCEPT ![r].stage = "budgets", ![r].decision = d]
               /\ UNCHANGED << status, telemetry >>
      <3>1. PICK d \in Decisions : req' = [req EXCEPT ![r].stage = "budgets", ![r].decision = d]
        BY <2>3
      <3>2. req'[r].stage = "budgets" /\ \A q \in Requests \ {r} : req'[q] = req[q]
        BY <1>1, <3>1 DEF Locals
      <3>3. Phase(r) = "deciding" /\ Phase(r)' = "deciding"
        BY <2>1, <3>2, Phases, PhasesAfter
      <3>4. QED
        BY <2>3, <3>2, <3>3, PhaseMoves
    <2>4. QED
      BY <1>4, <2>2, <2>3 DEF RulesLoaded
  <1>5. CASE ReadFails(r)
    BY <1>5, RefuseIsRefusal DEF ReadFails, Undecided, Planned
  <1>6. CASE BudgetsEvaluated(r)
    <2>1. req[r].stage = "budgets"
      BY <1>6 DEF BudgetsEvaluated
    <2>2. CASE Execute(r, << >>)
      BY <2>1, <2>2, ExecuteMoves DEF Planned
    <2>3. CASE /\ \E v \in {"warned", "blocked"} :
                    req' = [req EXCEPT ![r].stage = "audit", ![r].verdict = v]
               /\ UNCHANGED << status, telemetry >>
      <3>1. PICK v \in {"warned", "blocked"} :
              req' = [req EXCEPT ![r].stage = "audit", ![r].verdict = v]
        BY <2>3
      <3>2. req'[r].stage = "audit" /\ \A q \in Requests \ {r} : req'[q] = req[q]
        BY <1>1, <3>1 DEF Locals
      <3>3. Phase(r) = "deciding" /\ Phase(r)' = "deciding"
        BY <2>1, <3>2, Phases, PhasesAfter
      <3>4. QED
        BY <2>3, <3>2, <3>3, PhaseMoves
    <2>4. QED
      BY <1>6, <2>2, <2>3 DEF BudgetsEvaluated
  <1>7. CASE Audited(r)
    <2>1. req[r].stage \in Planned
      BY <1>7 DEF Audited, Planned
    <2>2. Refuse(r, 429, << "budget.evaluated" >>) \/ Execute(r, << "budget.evaluated" >>)
      BY <1>7 DEF Audited
    <2>3. QED
      BY <2>1, <2>2, RefuseIsRefusal, ExecuteMoves
  <1>8. CASE ProviderAnswers(r) \/ CallTimesOut(r)
    <2>1. PICK err : CallEnds(r, err)
      BY <1>8 DEF ProviderAnswers, CallTimesOut
    <2>2. req[r].stage \in InFlight /\ UNCHANGED << status, telemetry >>
      BY <1>8 DEF ProviderAnswers, CallTimesOut, InFlight
    <2>3. QED
      BY <2>1, <2>2, CallEndsStays DEF CallEnds
  <1>9. CASE BackoffOver(r)
    <2>1. req[r].stage \in InFlight /\ UNCHANGED << status, telemetry >>
      BY <1>9 DEF BackoffOver, InFlight
    <2>2. Settle(r, req[r].last, TRUE) \/ Redial(r)
      BY <1>9 DEF BackoffOver
    <2>3. QED
      BY <2>1, <2>2, CallEndsStays
  <1>10. CASE TryFallback(r)
    <2>1. /\ FallsBack(r) /\ req[r].stage = "settled" /\ UNCHANGED << status, telemetry >>
          /\ TryCandidate(r, req[r].decision.next, req[r], << >>)
      BY <1>10 DEF TryFallback
    <2>2. req[r].decision.next \in Providers
      <3>1. req[r].decision \in Decision
        BY <1>1, <2>1, CompletionsAssumption DEF Sound, LocalsSound, Executing
      <3>2. QED
        BY <2>1, <3>1 DEF Decision, FallsBack
    <2>3. Len(chain[r]) = 1 /\ SecondIsFallback(r)
      BY <2>1 DEF FallsBack, LastError, SecondIsFallback
    <2>4. MayTry(r, req[r].decision.next, req[r], << >>)
      BY <1>1, <2>1, <2>2, <2>3 DEF MayTry, Sound, LocalsSound, DeadlineSound
    <2>5. QED
      BY <2>1, <2>4, TryMoves
  <1>11. CASE Conclude(r)
    BY <1>11, ConcludeIsFinish
  <1>12. QED
    BY <1>2, <1>3, <1>4, <1>5, <1>6, <1>7, <1>8, <1>9, <1>10, <1>11 DEF Continue

(* A request is answered once; refused without a trace in telemetry and     *)
(* before anything was executed, or executed with one answer and exactly    *)
(* one record that tells the same outcome.                                  *)
THEOREM KeepsContract == Spec => ImplementsContract
  <1>1. Init => Contract!Init
    <2> SUFFICES ASSUME Init PROVE Contract!Init
      OBVIOUS
    <2>1. ASSUME NEW r \in Requests
          PROVE  Phase(r) = "absent" /\ Verdict(r) = "none" /\ Recorded(r) = << >>
      <3>1. req[r].stage = "new" /\ status[r] = 0 /\ telemetry[r] = << >>
        BY DEF Init, Fresh
      <3>2. QED
        BY <3>1, Phases DEF Verdict, Recorded
    <2>2. QED
      BY <2>1 DEF Contract!Init, Recorded
  <1>2. IInv /\ IInv' /\ [Next]_vars => [Contract!Next]_(Contract!vars)
    <2> SUFFICES ASSUME IInv, IInv', [Next]_vars PROVE ContractStep
      BY DEF ContractStep
    <2>1. CASE Tick
      <3>1. ASSUME NEW r \in Requests PROVE req'[r].stage = req[r].stage
        <4>1. req[r] \in Locals
          BY DEF IInv, StateTyped
        <4>2. req'[r] = [req[r] EXCEPT !.timer = Left(@), !.remaining = Left(@)]
          BY <2>1 DEF Tick
        <4>3. QED
          BY <4>1, <4>2 DEF Locals
      <3>2. UNCHANGED << status, telemetry >>
        BY <2>1 DEF Tick
      <3>3. \A r \in Requests : Phase(r)' = Phase(r)
        BY <3>1 DEF Phase, InFlight
      <3>4. phase' = phase /\ verdict' = verdict /\ recorded' = recorded
        BY <3>2, <3>3 DEF phase, verdict, Verdict, recorded, Recorded
      <3>5. QED
        BY <3>4 DEF ContractStep, Contract!vars, phase, verdict, recorded, Recorded
    <2>2. CASE UNCHANGED vars
      <3>1. phase' = phase /\ verdict' = verdict /\ recorded' = recorded
        BY <2>2 DEF vars, phase, Phase, InFlight, verdict, Verdict, recorded, Recorded
      <3>2. QED
        BY <3>1 DEF ContractStep, Contract!vars, phase, verdict, recorded, Recorded
    <2>3. CASE \E r \in Requests :
                 Receive(r) \/ ReadFails(r) \/ ProviderAnswers(r) \/ Continue(r)
      BY <2>3, RequestKeepsContract
    <2>4. QED
      BY <2>1, <2>2, <2>3 DEF Next
  <1>3. QED
    BY Invariant, <1>1, <1>2, PTL DEF Spec, ImplementsContract, Contract!Spec
=============================================================================
