------------------------------ MODULE Adapters ------------------------------
(***************************************************************************)
(* The provider adapters (packages/providers/src): the registry, what each *)
(* adapter makes of its vendor's answer, and the mock adapter with the     *)
(* failure that the development route arms                                 *)
(* (api/src/routes/dev-mock.ts).  The vendors are outside the code: they   *)
(* answer with or without a count of tokens, with an error status, or the  *)
(* call rejects, because it was aborted or otherwise.  What telemetry is   *)
(* told of a request is added up over such attempts                        *)
(* (core/src/telemetry/build-event.ts).                                    *)
(***************************************************************************)
EXTENDS Governance

CONSTANTS
  KindOf,         (* KindOf[p]: openai, groq, anthropic, gemini or mock     *)
  ModelFor,       (* ModelFor[p]: the model that is asked for               *)
  AdapterPrices,  (* the pricing table an attempt is given                  *)
  FailFirst,      (* failFirstWith of a mock adapter, or "none"             *)
  AdapterCalls,   (* executions looked at                                   *)
  Statuses,       (* error statuses a vendor answers with                   *)
  Usages,         (* token counts it reports, Null for none                 *)
  InputEstimate,  (* estimatedInputTokens of the request                    *)
  MaxArms         (* bound on the arm-failure requests                      *)

Providers == DOMAIN KindOf
Mocks == {p \in Providers : KindOf[p] = "mock"}

TransientClasses == {"timeout", "rate_limit", "upstream_5xx", "provider_unavailable"}

(* isValidErrorClass: what LCA_MOCK_FAIL_FIRST may have a mock fail with.   *)
ScriptedClasses ==
  TransientClasses \union
    { "upstream_4xx", "invalid_request", "context_exceeded", "override_target_missing",
      "terminal_fallback_exhausted" }

ClassesOfAdapters == ScriptedClasses \union {"none"}

(* Every model that is asked for has a price, and a count of tokens is one. *)
ASSUME AdaptersAssumption ==
  /\ Null \notin Int /\ Null \notin BOOLEAN
  /\ \A p \in Providers : KindOf[p] \in {"openai", "groq", "anthropic", "gemini", "mock"}
  /\ \A p \in Providers : Prices(AdapterPrices, ModelFor[p]) # {}
  /\ \A e \in AdapterPrices.entries : IsPrice(e)
  /\ \A p \in Mocks : FailFirst[p] \in ClassesOfAdapters
  /\ \A u \in Usages : u = Null \/ (u.input \in Nat /\ u.output \in Nat)
  /\ InputEstimate \in Nat /\ MaxArms \in Nat

VARIABLES
  registry,         (* byId: the adapters registered                        *)
  armedFailure,     (* armedFailure[p] of a mock                            *)
  failsRemaining,   (* failsRemaining[p] of a mock                          *)
  execution,        (* execution[c]: [stage, provider, answer, attempt]     *)
  arms, injected    (* history: failures armed, and those that came of it   *)

adapterVars == << registry, armedFailure, failsRemaining, execution, arms, injected >>

-----------------------------------------------------------------------------
Answer(kind) == [kind |-> kind, status |-> Null, usage |-> Null]

(* What a vendor call comes to.                                             *)
Answers ==
  {[Answer("ok") EXCEPT !.usage = u] : u \in Usages}
  \union {[Answer("status") EXCEPT !.status = s] : s \in Statuses}
  \union {Answer("aborted"), Answer("broken")}

(* A failed execution has used and cost nothing.                            *)
FailedAttempt(p, class) ==
  [ providerId |-> ModelFor[p].providerId, modelId |-> ModelFor[p].modelId,
    errorClass |-> class, inputTokens |-> Null, outputTokens |-> Null,
    estimatedCostUsd |-> 0, actualCostUsd |-> Null,
    pricingTableVersionId |-> AdapterPrices.versionId ]

(* A success costs what its tokens do at the prices of the request.         *)
SucceededAttempt(p, input, output) ==
  LET price == EstimateCostUsd(AdapterPrices, ModelFor[p], input, output)
  IN  [ FailedAttempt(p, "none") EXCEPT
          !.inputTokens = input, !.outputTokens = output,
          !.estimatedCostUsd = price, !.actualCostUsd = price ]

(* Missing counts: the request's estimate, and no output.                   *)
Counted(p, usage) ==
  IF usage = Null THEN SucceededAttempt(p, InputEstimate, 0)
  ELSE SucceededAttempt(p, usage.input, usage.output)

(* classify{OpenAi,Groq,Anthropic}Error: what the SDK throws.               *)
ClassifySdkError(answer) ==
  IF answer.kind = "aborted" THEN "timeout"
  ELSE IF answer.kind # "status" THEN "provider_unavailable"
  ELSE IF answer.status = 429 THEN "rate_limit"
  ELSE IF answer.status >= 500 THEN "upstream_5xx"
  ELSE IF answer.status >= 400 THEN "upstream_4xx"
  ELSE "provider_unavailable"

(* Faulty variant: a rate limit is one of the 4xx statuses.                 *)
ClassifyGeminiStatus_RateLimitLast(status) ==
  IF status >= 500 THEN "upstream_5xx"
  ELSE IF status >= 400 THEN "upstream_4xx"
  ELSE "provider_unavailable"

(* classifyGeminiStatus: fetch resolves whatever the status is.             *)
ClassifyGeminiStatus(status) ==
  IF status = 429 THEN "rate_limit"
  ELSE IF status >= 500 THEN "upstream_5xx"
  ELSE IF status >= 400 THEN "upstream_4xx"
  ELSE "provider_unavailable"

ClassifyGeminiThrow(answer) ==
  IF answer.kind = "aborted" THEN "timeout" ELSE "provider_unavailable"

OpenAiExecute(p, answer) ==
  IF answer.kind = "ok" THEN Counted(p, answer.usage)
  ELSE FailedAttempt(p, ClassifySdkError(answer))

GroqExecute(p, answer) ==
  IF answer.kind = "ok" THEN Counted(p, answer.usage)
  ELSE FailedAttempt(p, ClassifySdkError(answer))

AnthropicExecute(p, answer) ==
  IF answer.kind = "ok" THEN Counted(p, answer.usage)
  ELSE FailedAttempt(p, ClassifySdkError(answer))

GeminiExecute(p, answer) ==
  IF answer.kind = "ok" THEN Counted(p, answer.usage)
  ELSE IF answer.kind = "status" THEN FailedAttempt(p, ClassifyGeminiStatus(answer.status))
  ELSE FailedAttempt(p, ClassifyGeminiThrow(answer))

Executed(p, answer) ==
  CASE KindOf[p] = "openai" -> OpenAiExecute(p, answer)
    [] KindOf[p] = "groq" -> GroqExecute(p, answer)
    [] KindOf[p] = "anthropic" -> AnthropicExecute(p, answer)
    [] KindOf[p] = "gemini" -> GeminiExecute(p, answer)

(* deriveOutputTokens of the mock.                                          *)
DeriveOutputTokens(input) == LET n == OutputTokens(input) IN IF n > 128 THEN 128 ELSE n

-----------------------------------------------------------------------------
AdaptersTypeOK ==
  /\ registry \subseteq Providers
  /\ \A p \in Mocks : /\ armedFailure[p] \in TransientClasses \union {"none"}
                      /\ failsRemaining[p] \in 0..1
                      /\ armedFailure[p] # "none" => p \in registry /\ arms > 0
  /\ \A c \in AdapterCalls :
       /\ execution[c].stage \in {"idle", "running", "done"}
       /\ execution[c].stage = "done" => execution[c].attempt.errorClass \in ClassesOfAdapters

(* Boot registers the mocks, and each vendor whose key is configured; no    *)
(* two adapters have one name, register would throw.                        *)
BootRegistries == {Mocks \union S : S \in SUBSET (Providers \ Mocks)}

AdaptersInit ==
  /\ registry \in BootRegistries
  /\ armedFailure = [p \in Mocks |-> "none"]
  /\ failsRemaining = [p \in Mocks |-> IF FailFirst[p] = "none" THEN 0 ELSE 1]
  /\ execution = [c \in AdapterCalls |->
       [stage |-> "idle", provider |-> Null, answer |-> Answer("none"), attempt |-> Null]]
  /\ arms = 0 /\ injected = [p \in Mocks |-> 0]

(* An execution on a vendor's adapter is under way.                         *)
StartExecute(c, p) ==
  /\ p \in registry \ Mocks /\ execution[c].stage = "idle"
  /\ execution' = [execution EXCEPT ![c] = [@ EXCEPT !.stage = "running", !.provider = p]]
  /\ UNCHANGED << registry, armedFailure, failsRemaining, arms, injected >>

(* The vendor answers, and the adapter makes an attempt of it.              *)
EndExecute(c, answer) ==
  /\ execution[c].stage = "running"
  /\ execution' = [ execution EXCEPT ![c] = [ @ EXCEPT
       !.stage = "done", !.answer = answer, !.attempt = Executed(execution[c].provider, answer) ] ]
  /\ UNCHANGED << registry, armedFailure, failsRemaining, arms, injected >>

(* The mock, in one step: an aborted signal first, then the armed failure,  *)
(* then the first one it was created with.                                  *)
MockExecute(c, p, aborted) ==
  LET done(answer, attempt) ==
        execution' = [ execution EXCEPT ![c] =
          [stage |-> "done", provider |-> p, answer |-> answer, attempt |-> attempt] ]
      fails(class) == done(Answer("injected"), FailedAttempt(p, class))
  IN  /\ p \in registry \cap Mocks /\ execution[c].stage = "idle"
      /\ IF aborted
           THEN /\ done(Answer("aborted"), FailedAttempt(p, "timeout"))
                /\ UNCHANGED << armedFailure, failsRemaining, injected >>
         ELSE IF armedFailure[p] # "none"
           THEN /\ fails(armedFailure[p])
                /\ armedFailure' = [armedFailure EXCEPT ![p] = "none"]
                /\ injected' = [injected EXCEPT ![p] = @ + 1]
                /\ UNCHANGED failsRemaining
         ELSE IF failsRemaining[p] > 0
           THEN /\ fails(FailFirst[p])
                /\ failsRemaining' = [failsRemaining EXCEPT ![p] = @ - 1]
                /\ UNCHANGED << armedFailure, injected >>
         ELSE /\ done( Answer("ok"),
                       SucceededAttempt(p, InputEstimate, DeriveOutputTokens(InputEstimate)) )
              /\ UNCHANGED << armedFailure, failsRemaining, injected >>
      /\ UNCHANGED << registry, arms >>

(* POST /v1/dev/mock/arm-failure: every registered mock, a transient class. *)
ArmFailure(class) ==
  /\ arms < MaxArms /\ class \in TransientClasses
  /\ arms' = arms + 1
  /\ armedFailure' = [p \in Mocks |-> IF p \in registry THEN class ELSE armedFailure[p]]
  /\ UNCHANGED << registry, failsRemaining, execution, injected >>

AdaptersNext ==
  \/ \E c \in AdapterCalls, p \in Providers :
       StartExecute(c, p) \/ \E aborted \in BOOLEAN : MockExecute(c, p, aborted)
  \/ \E c \in AdapterCalls, answer \in Answers : EndExecute(c, answer)
  \/ \E class \in {"timeout", "upstream_5xx"} : ArmFailure(class)

-----------------------------------------------------------------------------
(* buildTelemetryEvent of one attempt, or of a fallback and the attempt     *)
(* before, and it takes no more: tokens of what succeeded, costs of all, the*)
(* actual cost only if every attempt has one.                               *)
BuildTelemetryEvent(attempts) ==
  LET terminal == attempts[Len(attempts)]
      sum(Of(_)) ==
        IF Len(attempts) = 1 THEN Of(attempts[1]) ELSE Of(attempts[1]) + Of(attempts[2])
      ofSuccess(a, tokens) == IF a.errorClass = "none" THEN tokens ELSE 0
      estimated == sum(LAMBDA a : a.estimatedCostUsd)
      actual == IF \A i \in DOMAIN attempts : Given(attempts[i].actualCostUsd)
                  THEN sum(LAMBDA a : a.actualCostUsd) ELSE Null
      effective == IF terminal.errorClass = "none" THEN terminal ELSE attempts[1]
  IN  [ effectiveProviderId |-> effective.providerId,
        effectiveModelId |-> effective.modelId,
        aggregatedInputTokens |-> sum(LAMBDA a : ofSuccess(a, a.inputTokens)),
        aggregatedOutputTokens |-> sum(LAMBDA a : ofSuccess(a, a.outputTokens)),
        terminalErrorClass |->
          IF Len(attempts) = 2 /\ terminal.errorClass # "none"
            THEN "terminal_fallback_exhausted" ELSE terminal.errorClass,
        estimatedCostUsd |-> estimated, actualCostUsd |-> actual,
        reconciled |-> IF Given(actual) THEN IsReconciled(estimated, actual) ELSE Null ]

(* What may be in a request's chain: one attempt that is done, or two of    *)
(* them, the first one a failure that calls for a fallback.                 *)
Chains ==
  LET done == {c \in AdapterCalls : execution[c].stage = "done"}
      attempt(c) == execution[c].attempt
  IN  {<< attempt(c) >> : c \in done}
      \union {<< attempt(c), attempt(d) >> :
               c \in {b \in done : attempt(b).errorClass \in TransientClasses}, d \in done}

(* A record adds up: whatever attempts led to it, and whether or not the    *)
(* vendor counted tokens, its cost is that of its tokens at the prices of   *)
(* the model it credits, and a request that failed is recorded with neither.*)
(* Every adapter takes its own estimate for the actual cost, so that no     *)
(* record is ever found not to reconcile; after a fallback, even one that   *)
(* succeeded, the actual cost stays unknown (build-event.ts 70-104).        *)
RecordsAddUp ==
  \A attempts \in Chains :
    LET e == BuildTelemetryEvent(attempts)
        ok == e.terminalErrorClass = "none"
        model == [providerId |-> e.effectiveProviderId, modelId |-> e.effectiveModelId]
    IN  /\ ok = (\E i \in DOMAIN attempts : attempts[i].errorClass = "none")
        /\ e.estimatedCostUsd =
             (IF ok THEN EstimateCostUsd(AdapterPrices, model, e.aggregatedInputTokens,
                                         e.aggregatedOutputTokens) ELSE 0)
        /\ ~ok => e.aggregatedInputTokens + e.aggregatedOutputTokens = 0
        /\ Given(e.actualCostUsd) = (ok /\ Len(attempts) = 1)
        /\ Given(e.reconciled) = Given(e.actualCostUsd)
        /\ Given(e.reconciled) => e.reconciled

(* Whatever its provider, an attempt is one the executor can account for:   *)
(* a success has tokens and costs what they do, a failure has neither; the  *)
(* same status or abort is the same class on every adapter; and an armed    *)
(* failure strikes once per mock at most, not a later request again         *)
(* (providers/src/*/adapter.ts, dev-mock.ts).  The records made of such     *)
(* attempts add up.                                                         *)
AdaptersKeepContract ==
  LET done == {c \in AdapterCalls : execution[c].stage = "done"}
  IN  /\ \A c \in done :
           LET a == execution[c].attempt
           IN  IF a.errorClass = "none"
               THEN /\ a.estimatedCostUsd = a.actualCostUsd
                    /\ a.estimatedCostUsd =
                         EstimateCostUsd(AdapterPrices, ModelFor[execution[c].provider],
                                         a.inputTokens, a.outputTokens)
               ELSE a.inputTokens = Null /\ a.actualCostUsd = Null /\ a.estimatedCostUsd = 0
      /\ \A c, d \in done :
           /\ execution[c].answer = execution[d].answer
           /\ execution[c].answer.kind \in {"status", "aborted", "broken"}
           => execution[c].attempt.errorClass = execution[d].attempt.errorClass
      /\ \A p \in Mocks : injected[p] + (IF armedFailure[p] = "none" THEN 0 ELSE 1) <= arms
      /\ RecordsAddUp
=============================================================================
