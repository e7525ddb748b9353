---------------------------- MODULE Completions -----------------------------
(***************************************************************************)
(* POST /v1/completions (packages/api/src/routes/completions.ts) with the  *)
(* fallback executor it calls (core/src/routing/execute-with-fallback.ts), *)
(* the per-candidate timeout/retry loop (api/src/routing/                  *)
(* provider-attempt.ts), the circuit breaker all requests share and the    *)
(* telemetry record it hands over (core/src/telemetry/build-event.ts).     *)
(*                                                                         *)
(* The handler runs on one event loop, so the code between two awaits is   *)
(* one step and the requests interleave at the awaits: the catalog, rule   *)
(* and budget reads, the audit insert, each provider call, each backoff    *)
(* sleep, and the hand-over from one attempt to the fallback executor.     *)
(*                                                                         *)
(* Routing and budget arithmetic are inputs here: a request's decision is  *)
(* any member of Decisions and its budget verdict any of the four the      *)
(* evaluator returns.  Instants are kept as the time left until them.      *)
(***************************************************************************)
EXTENDS Naturals, Sequences, FiniteSets, ErrorClasses

CONSTANTS
  Requests,          (* the requests that may arrive                        *)
  Providers,         (* providers with an adapter in the registry           *)
  NoProvider,        (* "no such provider"                                  *)
  Decisions,         (* routing decisions a request may get                 *)
  NoDecision,        (* the decision of a request that has none yet         *)
  Policies,          (* provider-attempt policies the process may boot with *)
  Answers,           (* what an adapter may answer with                     *)
  FailureThreshold,  (* circuit breaker configuration                       *)
  CooldownMs

(* policyFromConfig: the bounds config.ts puts on the policy.               *)
Policy ==
  [ timeoutMs : Nat \ {0}, maxRetries : Nat, backoffBaseMs : Nat,
    backoffMaxMs : Nat, requestDeadlineMs : Nat ]

DecisionSource == {"autopilot", "client_override", "operator_rule"}

(* A routing decision: who made it, the chosen candidate's provider and the *)
(* provider of the first other included candidate of the ranking, if any.   *)
Decision ==
  [ source : DecisionSource, chosen : Providers,
    next : Providers \union {NoProvider} ]

ASSUME CompletionsAssumption ==
  /\ NoProvider \notin Providers
  /\ Decisions \subseteq Decision /\ NoDecision \notin Decisions
  (* a pinned target is the only candidate of its decision                  *)
  /\ \A d \in Decisions : d.source # "autopilot" => d.next = NoProvider
  /\ Policies \subseteq Policy
  /\ Answers \subseteq CallOutcome
  /\ IsFiniteSet(Requests)
  (* config.ts: both are positive integers                                  *)
  /\ FailureThreshold \in Nat \ {0} /\ CooldownMs \in Nat \ {0}

(* A fact of arithmetic that no prover of the installed ones knows of ^.    *)
ASSUME PowersAssumption ==
  \A p \in Policies : \A n \in 0 .. p.maxRetries : 2 ^ n \in Nat

VARIABLES
  policy,     (* the provider-attempt policy, read once at boot              *)
  enabled,    (* circuit breaker: on or off                                  *)
  entries,    (* circuit breaker: its entry for every provider               *)
  req,        (* req[r]: where request r's handler is, and its locals        *)
  chain,      (* chain[r]: the attempts of r so far, at most two             *)
  stream,     (* stream[r]: the event types published for r, in order        *)
  telemetry,  (* telemetry[r]: the records handed to the telemetry writer    *)
  status,     (* status[r]: the HTTP status r was answered with, 0 before    *)
  deadlineExhausted  (* lca_request_deadline_exhausted_total                 *)

vars == << policy, enabled, entries, req, chain, stream, telemetry, status,
           deadlineExhausted >>

(* In which await a request's handler is.                                   *)
Stage ==
  { "new", "catalog", "rules", "budgets", "audit", "calling", "backoff",
    "settled", "answered" }

InFlight == {"calling", "backoff"}

Locals ==
  [ stage : Stage,
    decision : Decisions \union {NoDecision},
    verdict : {"none", "warned", "blocked"},   (* budget verdict in audit    *)
    provider : Providers \union {NoProvider},  (* candidate being executed   *)
    probe : BOOLEAN,          (* whether it holds the breaker's probe slot   *)
    retry : Nat,              (* retries of this candidate so far            *)
    last : CallOutcome,       (* what its last physical call came back with  *)
    timer : Nat,              (* time left of the call's timeout or backoff  *)
    remaining : Nat,          (* time left until logicalDeadlineAt           *)
    deadlineHit : BOOLEAN,    (* the deadline gate skipped a candidate       *)
    halted : BOOLEAN ]        (* history: the deadline stopped an execution  *)

Fresh ==
  [ stage |-> "new", decision |-> NoDecision, verdict |-> "none",
    provider |-> NoProvider, probe |-> FALSE, retry |-> 0, last |-> "none",
    timer |-> 0, remaining |-> 0, deadlineHit |-> FALSE, halted |-> FALSE ]

(* The handler returned or threw: its locals are gone.                      *)
Returned(r) == [Fresh EXCEPT !.stage = "answered", !.halted = req[r].halted]

(* The breaker as this route uses it: a caller's call is in flight from     *)
(* tryAcquire to recordOutcome, retries and backoffs included.              *)
CallOf(r) ==
  [ provider |-> IF req[r].stage \in InFlight THEN req[r].provider ELSE NoProvider,
    probe |-> req[r].stage \in InFlight /\ req[r].probe ]

Breaker == INSTANCE CircuitBreaker WITH
  Callers <- Requests, calls <- [r \in Requests |-> CallOf(r)]

-----------------------------------------------------------------------------
(* The stream bus: what a step publishes for r.                             *)
Publish(r, types) == stream' = [stream EXCEPT ![r] = @ \o types]

(* An answer that leaves no trace but the HTTP status.                      *)
Refuse(r, code, types) ==
  /\ req' = [req EXCEPT ![r] = Returned(r)]
  /\ status' = [status EXCEPT ![r] = code]
  /\ Publish(r, types)
  /\ UNCHANGED << entries, chain, telemetry, deadlineExhausted >>

-----------------------------------------------------------------------------
(* Timeouts, retries and the deadline (provider-attempt.ts).                *)

Expired(remaining) == policy.requestDeadlineMs > 0 /\ remaining = 0

Lesser(a, b) == IF a < b THEN a ELSE b

Capped(delay, remaining) ==
  IF policy.requestDeadlineMs = 0 THEN delay ELSE Lesser(delay, remaining)

(* Faulty variant: the timeout is not capped to what is left of the budget. *)
EffectiveTimeout_Uncapped(remaining) == policy.timeoutMs

(* effectiveTimeout: at least 1.                                            *)
EffectiveTimeout(remaining) ==
  LET capped == Capped(policy.timeoutMs, remaining)
  IN  IF capped < 1 THEN 1 ELSE capped

(* backoffDelayMs: bounded exponential backoff.                             *)
BackoffDelay(retry) == Lesser(policy.backoffBaseMs * 2 ^ retry, policy.backoffMaxMs)

(* Faulty variant: one retry more than configured.                          *)
RetriesLeft_OneMore(r, err) == err \in RETRYABLE /\ req[r].retry <= policy.maxRetries

RetriesLeft(r, err) == err \in RETRYABLE /\ req[r].retry < policy.maxRetries

(* A physical call starts, under its own timer.                             *)
Dialled(locals) ==
  [locals EXCEPT !.stage = "calling", !.last = "none",
                 !.timer = EffectiveTimeout(locals.remaining)]

-----------------------------------------------------------------------------
(* One candidate (the execute callback of the route).                       *)

Attempt == [provider : Providers, errorClass : CallOutcome, ran : BOOLEAN]

(* A skipped candidate: a provider_unavailable attempt with no call, no     *)
(* stream event and no circuit outcome.                                     *)
Skipped(r, p) ==
  chain' = [chain EXCEPT ![r] =
             Append(@, [provider |-> p, errorClass |-> "provider_unavailable",
                        ran |-> FALSE])]

(* The deadline gate, then the circuit gate, then the first physical call.  *)
(* locals is what the handler knows by now, before what the step has        *)
(* published so far.                                                        *)
TryCandidate(r, p, locals, before) ==
  \/ /\ Expired(locals.remaining)
     /\ req' = [req EXCEPT ![r] = [locals EXCEPT !.stage = "settled",
                                      !.deadlineHit = TRUE, !.halted = TRUE]]
     /\ Skipped(r, p)
     /\ Publish(r, before)
     /\ UNCHANGED entries
  \/ /\ ~Expired(locals.remaining)
     /\ enabled /\ ~Breaker!Allows(entries[p])
     /\ req' = [req EXCEPT ![r] = [locals EXCEPT !.stage = "settled"]]
     /\ Skipped(r, p)
     /\ Publish(r, before)
     /\ UNCHANGED entries
  \/ /\ ~Expired(locals.remaining)
     /\ enabled => Breaker!Allows(entries[p])
     /\ entries' = IF enabled
                     THEN [entries EXCEPT ![p] = Breaker!Acquired(@)] ELSE entries
     /\ req' = [req EXCEPT ![r] =
                  Dialled([locals EXCEPT !.provider = p, !.retry = 0,
                             !.probe = enabled /\ Breaker!Probes(entries[p])])]
     /\ Publish(r, before \o << "execution.started" >>)
     /\ UNCHANGED chain

(* Back in the executor, between the candidates.                            *)
Returns(r, halted) ==
  [req[r] EXCEPT !.stage = "settled", !.provider = NoProvider, !.probe = FALSE,
                 !.retry = 0, !.last = "none", !.timer = 0, !.halted = @ \/ halted]

(* Faulty variant: the breaker does not hear of an execution the deadline   *)
(* cut short.                                                               *)
Settle_OutcomeDropped(r, err, halted) ==
  LET p == req[r].provider
  IN  /\ entries' = IF enabled /\ ~halted
                      THEN [entries EXCEPT ![p] = Breaker!Recorded(@, err)] ELSE entries
      /\ req' = [req EXCEPT ![r] = Returns(r, halted)]
      /\ chain' = [chain EXCEPT ![r] =
                     Append(@, [provider |-> p, errorClass |-> err, ran |-> TRUE])]
      /\ Publish(r, << "execution.completed" >>)

(* The candidate's single logical outcome: the breaker hears of it, the     *)
(* stream and the chain get it.                                             *)
Settle(r, err, halted) ==
  LET p == req[r].provider
  IN  /\ entries' = IF enabled
                      THEN [entries EXCEPT ![p] = Breaker!Recorded(@, err)] ELSE entries
      /\ req' = [req EXCEPT ![r] = Returns(r, halted)]
      /\ chain' = [chain EXCEPT ![r] =
                     Append(@, [provider |-> p, errorClass |-> err, ran |-> TRUE])]
      /\ Publish(r, << "execution.completed" >>)

Backoff(r, err) ==
  req' = [req EXCEPT ![r].stage = "backoff", ![r].last = err,
                     ![r].timer = Capped(BackoffDelay(req[r].retry), req[r].remaining)]

(* Faulty variant: every failed physical call is a circuit outcome.         *)
CallEnds_EveryCallCounts(r, err) ==
  \/ /\ RetriesLeft(r, err) /\ ~Expired(req[r].remaining)
     /\ Backoff(r, err)
     /\ entries' = IF enabled
                     THEN [entries EXCEPT ![req[r].provider] = Breaker!Recorded(@, err)]
                     ELSE entries
     /\ UNCHANGED << chain, stream >>
  \/ /\ RetriesLeft(r, err) => Expired(req[r].remaining)
     /\ Settle(r, err, RetriesLeft(r, err))

(* A physical call ends: retry it after a backoff while the policy and the  *)
(* deadline allow, or settle.                                               *)
CallEnds(r, err) ==
  \/ /\ RetriesLeft(r, err) /\ ~Expired(req[r].remaining)
     /\ Backoff(r, err)
     /\ UNCHANGED << entries, chain, stream >>
  \/ /\ RetriesLeft(r, err) => Expired(req[r].remaining)
     /\ Settle(r, err, RetriesLeft(r, err))

-----------------------------------------------------------------------------
(* The handler, await by await.                                             *)

Receive(r) ==
  /\ req[r].stage = "new"
  /\ \/ Refuse(r, 400, << >>)
     \/ /\ req' = [req EXCEPT ![r].stage = "catalog"]
        /\ Publish(r, << "request.received" >>)
        /\ UNCHANGED << entries, chain, telemetry, status, deadlineExhausted >>
  /\ UNCHANGED << policy, enabled >>

CatalogLoaded(r) ==
  /\ req[r].stage = "catalog"
  /\ req' = [req EXCEPT ![r].stage = "rules"]
  /\ UNCHANGED << policy, enabled, entries, chain, stream, telemetry, status,
                  deadlineExhausted >>

(* Governance and routing; a missing pin target or an empty candidate set   *)
(* is a 422 after governance.completed was published.                       *)
RulesLoaded(r) ==
  /\ req[r].stage = "rules"
  /\ \/ Refuse(r, 422, << "governance.completed" >>)
     \/ /\ \E d \in Decisions :
             req' = [req EXCEPT ![r].stage = "budgets", ![r].decision = d]
        /\ Publish(r, << "governance.completed" >>)
        /\ UNCHANGED << entries, chain, telemetry, status, deadlineExhausted >>
  /\ UNCHANGED << policy, enabled >>

(* A database read the handler awaits rejects: 500, no telemetry.           *)
ReadFails(r) ==
  /\ req[r].stage \in {"catalog", "rules", "budgets"}
  /\ Refuse(r, 500, << >>)
  /\ UNCHANGED << policy, enabled >>

(* The decision is committed (its candidate.* events are part of it here)   *)
(* and provider execution starts: the deadline runs from this instant.      *)
Execute(r, before) ==
  /\ TryCandidate(r, req[r].decision.chosen,
                  [req[r] EXCEPT !.verdict = "none",
                                 !.remaining = policy.requestDeadlineMs],
                  before \o << "decision.committed" >>)
  /\ UNCHANGED << telemetry, status, deadlineExhausted >>

(* The budget verdict is in: none and allowed go ahead, an applied one is   *)
(* audited first.                                                           *)
BudgetsEvaluated(r) ==
  /\ req[r].stage = "budgets"
  /\ \/ Execute(r, << >>)
     \/ /\ \E v \in {"warned", "blocked"} :
             req' = [req EXCEPT ![r].stage = "audit", ![r].verdict = v]
        /\ UNCHANGED << entries, chain, stream, telemetry, status, deadlineExhausted >>
  /\ UNCHANGED << policy, enabled >>

(* The audit insert settled, successfully or not: the verdict is applied    *)
(* either way.                                                              *)
Audited(r) ==
  /\ req[r].stage = "audit"
  /\ \/ req[r].verdict = "blocked" /\ Refuse(r, 429, << "budget.evaluated" >>)
     \/ req[r].verdict = "warned" /\ Execute(r, << "budget.evaluated" >>)
  /\ UNCHANGED << policy, enabled >>

(* The adapter answers before its timer, or the timer wins the race.        *)
ProviderAnswers(r) ==
  /\ req[r].stage = "calling"
  /\ \E err \in Answers : CallEnds(r, err)
  /\ UNCHANGED << policy, enabled, telemetry, status, deadlineExhausted >>

(* Faulty variant: only the first physical call runs under a timer.         *)
CallTimesOut_FirstOnly(r) ==
  /\ req[r].stage = "calling" /\ req[r].timer = 0 /\ req[r].retry = 0
  /\ CallEnds(r, "timeout")
  /\ UNCHANGED << policy, enabled, telemetry, status, deadlineExhausted >>

CallTimesOut(r) ==
  /\ req[r].stage = "calling" /\ req[r].timer = 0
  /\ CallEnds(r, "timeout")
  /\ UNCHANGED << policy, enabled, telemetry, status, deadlineExhausted >>

(* Faulty variant: every retry announces itself as an execution.            *)
Redial_Announced(r) ==
  /\ req' = [req EXCEPT ![r] = Dialled([req[r] EXCEPT !.retry = @ + 1])]
  /\ Publish(r, << "execution.started" >>)
  /\ UNCHANGED << entries, chain >>

Redial(r) ==
  /\ req' = [req EXCEPT ![r] = Dialled([req[r] EXCEPT !.retry = @ + 1])]
  /\ UNCHANGED << entries, chain, stream >>

(* The sleep is over: the deadline is looked at once more.                  *)
BackoffOver(r) ==
  /\ req[r].stage = "backoff" /\ req[r].timer = 0
  /\ \/ Expired(req[r].remaining) /\ Settle(r, req[r].last, TRUE)
     \/ ~Expired(req[r].remaining) /\ Redial(r)
  /\ UNCHANGED << policy, enabled, telemetry, status, deadlineExhausted >>

-----------------------------------------------------------------------------
(* The fallback executor (execute-with-fallback.ts).                        *)

LastError(r) == chain[r][Len(chain[r])].errorClass

(* Faulty variant: any first failure, or none, moves on to the next one.    *)
FallsBack_AnyError(r) ==
  /\ Len(chain[r]) = 1
  /\ req[r].decision.source = "autopilot"
  /\ req[r].decision.next # NoProvider

FallsBack(r) ==
  /\ Len(chain[r]) = 1
  /\ req[r].decision.source = "autopilot"
  /\ LastError(r) \in FALLBACK_ELIGIBLE
  /\ req[r].decision.next # NoProvider

TryFallback(r) ==
  /\ req[r].stage = "settled" /\ FallsBack(r)
  /\ TryCandidate(r, req[r].decision.next, req[r], << >>)
  /\ UNCHANGED << policy, enabled, telemetry, status, deadlineExhausted >>

(* Faulty variant: the chain is summed up by its first attempt.             *)
Terminal_First(r) == chain[r][1].errorClass

(* terminalErrorClass, as executeWithFallback and buildTelemetryEvent both  *)
(* compute it.                                                              *)
Terminal(r) ==
  IF Len(chain[r]) = 2 /\ LastError(r) # "none"
    THEN "terminal_fallback_exhausted" ELSE LastError(r)

(* Faulty variant: the record credits the chosen provider, whoever answered. *)
Effective_Chosen(r) == chain[r][1]

Effective(r) == IF LastError(r) = "none" THEN chain[r][Len(chain[r])] ELSE chain[r][1]

TelemetryEvent(r) ==
  [ decisionSource |-> req[r].decision.source,
    effectiveProviderId |-> Effective(r).provider,
    attempts |-> chain[r],
    terminalErrorClass |-> Terminal(r) ]

(* The request ends: the record goes to the writer, the two final events    *)
(* are published, the client is answered.  buildTelemetryEvent's own throw, *)
(* on a chain it considers impossible, is left to ChainIsBuildable.         *)
Conclude(r) ==
  /\ req[r].stage = "settled" /\ ~FallsBack(r)
  /\ req' = [req EXCEPT ![r] = Returned(r)]
  /\ telemetry' = [telemetry EXCEPT ![r] = Append(@, TelemetryEvent(r))]
  /\ \/ /\ LastError(r) = "none"
        /\ status' = [status EXCEPT ![r] = 200]
        /\ Publish(r, << "result.completed", "event.completed" >>)
     \/ /\ LastError(r) # "none"
        /\ status' = [status EXCEPT ![r] = 502]
        /\ Publish(r, << "result.failed", "event.completed" >>)
  /\ deadlineExhausted' = deadlineExhausted + (IF req[r].deadlineHit THEN 1 ELSE 0)
  /\ UNCHANGED << policy, enabled, entries, chain >>

-----------------------------------------------------------------------------
Init ==
  /\ policy \in Policies
  /\ enabled \in BOOLEAN
  /\ entries = [p \in Providers |-> Breaker!FreshEntry]
  /\ req = [r \in Requests |-> Fresh]
  /\ chain = [r \in Requests |-> << >>]
  /\ stream = [r \in Requests |-> << >>]
  /\ telemetry = [r \in Requests |-> << >>]
  /\ status = [r \in Requests |-> 0]
  /\ deadlineExhausted = 0

(* The clock advances.  A timer that is due may fire late: the clock does   *)
(* not wait for it.                                                         *)
Left(time) == IF time = 0 THEN 0 ELSE time - 1

Tick ==
  /\ req' = [r \in Requests |-> [req[r] EXCEPT !.timer = Left(@), !.remaining = Left(@)]]
  /\ entries' = [p \in Providers |-> Breaker!Aged(entries[p])]
  /\ UNCHANGED << policy, enabled, chain, stream, telemetry, status, deadlineExhausted >>

(* What the handler does by itself once it is called: its reads are         *)
(* answered and its timers fire.                                            *)
Continue(r) ==
  \/ CatalogLoaded(r) \/ RulesLoaded(r) \/ BudgetsEvaluated(r) \/ Audited(r)
  \/ CallTimesOut(r) \/ BackoffOver(r) \/ TryFallback(r) \/ Conclude(r)

Next ==
  \/ \E r \in Requests :
       Receive(r) \/ ReadFails(r) \/ ProviderAnswers(r) \/ Continue(r)
  \/ Tick

Spec == Init /\ [][Next]_vars

(* The event loop gets to every settled promise and due timer, the database *)
(* answers, the clock advances.  No provider is assumed ever to answer.     *)
Fairness == WF_vars(Tick) /\ \A r \in Requests : WF_vars(Continue(r))

FairSpec == Spec /\ Fairness

-----------------------------------------------------------------------------
(* Properties.                                                              *)

(* The state is well-typed and no candidate is retried more often than      *)
(* configured (provider-attempt.ts 124).                                    *)
TypeOK ==
  /\ policy \in Policies /\ enabled \in BOOLEAN
  /\ entries \in [Providers -> Breaker!Entry]
  /\ req \in [Requests -> Locals]
  /\ \A r \in Requests : req[r].retry <= policy.maxRetries
  /\ chain \in [Requests -> Seq(Attempt)]
  /\ status \in [Requests -> {0, 200, 400, 422, 429, 500, 502}]
  /\ deadlineExhausted \in 0 .. Cardinality(Requests)

Count(type, r) == Cardinality({i \in DOMAIN stream[r] : stream[r][i] = type})

Ran(r) == Cardinality({i \in DOMAIN chain[r] : chain[r][i].ran})

(* The live stream and the attempts chain tell the same story: every        *)
(* candidate that was really called is started and completed once, however  *)
(* often it was retried, and a skipped one leaves no execution event        *)
(* (completions.ts 258-392).                                                *)
ChainMatchesStream ==
  \A r \in Requests :
    /\ Count("execution.completed", r) = Ran(r)
    /\ Count("execution.started", r)
         = Ran(r) + (IF req[r].stage \in InFlight THEN 1 ELSE 0)

(* buildTelemetryEvent never throws on what executeWithFallback returns: it *)
(* refuses a chain of more than two attempts and a second attempt after a   *)
(* first one that called for no fallback (build-event.ts 36-51).  A throw   *)
(* there would lose the record of a request that was executed and paid for. *)
ChainIsBuildable ==
  \A r \in Requests :
    /\ Len(chain[r]) <= 2
    /\ Len(chain[r]) = 2 =>
         /\ chain[r][1].errorClass \in FALLBACK_ELIGIBLE
         /\ req[r].stage # "answered" => req[r].decision.source = "autopilot"
    /\ req[r].stage = "settled" => chain[r] # << >>

(* Total provider execution is bounded by the deadline: whatever call or    *)
(* backoff is running, its timer fires no later than the deadline           *)
(* (provider-attempt.ts 37-43, 98-101, 128).                                *)
DeadlineBoundsCalls ==
  \A r \in Requests :
    policy.requestDeadlineMs > 0 /\ req[r].stage \in InFlight =>
      req[r].timer <= req[r].remaining

(* The client, the stream and telemetry are told the same: the answer is    *)
(* 200 exactly when the record's terminal class is none, and then the       *)
(* provider the record credits is one that succeeded; a failure credits     *)
(* the provider that was chosen (build-event.ts 53-68).                     *)
AnswersAgree ==
  \A r \in Requests : telemetry[r] # << >> =>
    LET record == telemetry[r][1]
    IN  /\ status[r] = 200 <=> record.terminalErrorClass = "none"
        /\ status[r] = 200 <=> Count("result.completed", r) = 1
        /\ status[r] = 502 <=> Count("result.failed", r) = 1
        /\ \E i \in DOMAIN record.attempts :
             /\ record.attempts[i].provider = record.effectiveProviderId
             /\ IF status[r] = 200 THEN record.attempts[i].errorClass = "none" ELSE i = 1

(* Whoever tells of a request tells the same of it: the stream and the      *)
(* attempts chain candidate by candidate (ChainMatchesStream), and answer,  *)
(* stream and record how it ended (AnswersAgree).                           *)
ToldTheSame == ChainMatchesStream /\ AnswersAgree

(* The route uses the breaker as the breaker expects: every call it lets    *)
(* through is reported once and only once, after all its retries, on every  *)
(* way out of the attempt (completions.ts 284-366).                         *)
ImplementsBreaker == Breaker!Spec

(* The route keeps the per-request contract.                                *)
Phase(r) ==
  CASE req[r].stage = "new" -> "absent"
    [] req[r].stage \in {"catalog", "rules", "budgets", "audit"} -> "deciding"
    [] req[r].stage \in InFlight \union {"settled"} -> "executing"
    [] req[r].stage = "answered" -> "answered"

Verdict(r) ==
  CASE status[r] = 0 -> "none"
    [] status[r] = 200 -> "completed"
    [] status[r] = 502 -> "failed"
    [] OTHER -> "refused"

Outcome(record) ==
  IF record.terminalErrorClass = "none" THEN "completed" ELSE "failed"

Contract == INSTANCE CompletionContract WITH
  phase <- [r \in Requests |-> Phase(r)],
  verdict <- [r \in Requests |-> Verdict(r)],
  recorded <- [r \in Requests |->
                [i \in DOMAIN telemetry[r] |-> Outcome(telemetry[r][i])]]

ImplementsContract == Contract!Spec

(* Every request that arrives is answered, even if no provider ever is.     *)
Answered ==
  \A r \in Requests : req[r].stage # "new" ~> req[r].stage = "answered"

(* A probe slot that a request took is given back, so the provider is not   *)
(* locked out, whatever deadline, retry or timeout cut the probe short.     *)
SlotComesBack ==
  \A p \in Providers :
    entries[p].state = "half_open" ~> entries[p].state # "half_open"

(* lca_request_deadline_exhausted_total counts a request once, and only if  *)
(* its deadline really halted provider execution.  It does not count every  *)
(* halt, as docs/operations.md:88 has it: one inside the retry loop of the  *)
(* last candidate goes unnoticed (provider-attempt.ts 127 and 131,          *)
(* completions.ts 396).                                                     *)
DeadlineCountIsSound ==
  deadlineExhausted <=
    Cardinality({r \in Requests : req[r].stage = "answered" /\ req[r].halted})

(* The deadline bounds the execution and is counted only when it did.       *)
DeadlineIsKept == DeadlineBoundsCalls /\ DeadlineCountIsSound
=============================================================================
