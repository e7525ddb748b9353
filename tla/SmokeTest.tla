------------------------------ MODULE SmokeTest -----------------------------
(***************************************************************************)
(* The deployment smoke test (scripts/smoke-deployment.mjs) and as much of *)
(* the deployment as its verdict is about: what was executed for it and    *)
(* whether a record of that was stored.                                    *)
(*                                                                         *)
(* The script sends its checks one after the other and repeats a request   *)
(* whose answer is transient: none at all, 502, 503 or 504.  The completion*)
(* it sends has an id of its own and is repeated as well, whether or not it*)
(* was executed; the writer stores records later, into a partition by      *)
(* month, or loses them.                                                   *)
(***************************************************************************)
EXTENDS Integers, Sequences, FiniteSets

CONSTANTS
  SmokeArguments, (* [usage, retries, provider]: how the script is called   *)
  SmokeCatalog,   (* the providers in the deployment's catalog              *)
  MaxPolls,       (* bound on the polls until the time is over              *)
  MaxGlitches,    (* bound on the answers that go wrong, and restarts       *)
  NotANumber, NoProvider

ASSUME SmokeAssumption ==
  /\ MaxPolls \in Nat \ {0} /\ MaxGlitches \in Nat
  /\ NotANumber \notin Int
  /\ \A a \in SmokeArguments :
       /\ a.usage \in {"complete", "missing", "help"}
       /\ a.retries \in Int \union {NotANumber}

VARIABLES
  smoke,          (* [arguments, stage, check, attempt, polls, catalog,     *)
                  (* failed, exit]                                          *)
  service,        (* [partition, rule, buffered, stored, dropped, paid]:    *)
                  (* whether the month has a partition, whether a rule      *)
                  (* governs every request; the records of the smoke        *)
                  (* completion, and how many completions were paid for     *)
  glitches,       (* history: how often the deployment went wrong, and how  *)
  unanswered      (* often it executed the completion and did not answer 200*)

smokeVars == << smoke, service, glitches, unanswered >>

-----------------------------------------------------------------------------
SmokeChecks ==
  << "overview", "cost", "health", "unauthenticated", "keys", "catalog", "completion",
     "replay", "summary", "providers", "metrics" >>

(* The checks of a call; the provider's one only where it is asked for.     *)
ChecksOf(arguments) ==
  IF arguments.provider = NoProvider THEN SmokeChecks ELSE Append(SmokeChecks, "paid")

CheckOf(s) == ChecksOf(s.arguments)[s.check]

SmokeInit ==
  /\ \E arguments \in SmokeArguments :
       smoke = [ arguments |-> arguments, stage |-> "starting", check |-> 1, attempt |-> 0,
                 polls |-> 0, catalog |-> {}, failed |-> {}, exit |-> -1 ]
  /\ \E partition, rule \in BOOLEAN :
       service = [ partition |-> partition, rule |-> rule, buffered |-> 0, stored |-> 0,
                   dropped |-> 0, paid |-> 0 ]
  /\ glitches = 0 /\ unanswered = 0

Exited(s, code) == [s EXCEPT !.stage = "exited", !.exit = code]

(* An unknown argument shows the help, as --help does.  A number of retries *)
(* that is none lets no request be sent: the first check has no answer to   *)
(* look at, and main() rejects.                                             *)
SmokeStart ==
  /\ smoke.stage = "starting"
  /\ smoke' = CASE smoke.arguments.usage = "help" -> Exited(smoke, 0)
                [] smoke.arguments.usage = "missing" -> Exited(smoke, 2)
                [] smoke.arguments.usage = "complete" ->
                     IF smoke.arguments.retries = NotANumber \/ smoke.arguments.retries < 0
                       THEN Exited(smoke, 1) ELSE [smoke EXCEPT !.stage = "requesting"]
  /\ UNCHANGED << service, glitches, unanswered >>

(* record: on to the next check, or to the result.                          *)
Recorded(s, ok) ==
  LET failed == IF ok THEN s.failed ELSE s.failed \union {CheckOf(s)}
      next == [s EXCEPT !.failed = failed, !.check = @ + 1, !.attempt = 0]
  IN  IF s.check = Len(ChecksOf(s.arguments))
        THEN Exited([s EXCEPT !.failed = failed], IF failed = {} THEN 0 ELSE 1)
      ELSE IF CheckOf(next) = "replay" THEN [next EXCEPT !.stage = "polling"]
      ELSE [next EXCEPT !.stage = "requesting"]

(* requestWithRetry.                                                        *)
Answered(s, answer) ==
  IF answer = "transient" /\ s.attempt < s.arguments.retries
    THEN [s EXCEPT !.attempt = @ + 1] ELSE Recorded(s, answer = "as expected")

Glitch == glitches < MaxGlitches /\ glitches' = glitches + 1

(* A request of a check that executes nothing.                              *)
SmokeAsks ==
  /\ smoke.stage = "requesting" /\ CheckOf(smoke) \notin {"completion", "paid"}
  /\ \/ /\ smoke' = Answered(IF CheckOf(smoke) = "catalog"
                               THEN [smoke EXCEPT !.catalog = SmokeCatalog] ELSE smoke,
                             "as expected")
        /\ UNCHANGED glitches
     \/ Glitch /\ \E answer \in {"transient", "wrong"} : smoke' = Answered(smoke, answer)
  /\ UNCHANGED << service, unanswered >>

(* A requested provider without a model in the catalog that was read is not *)
(* asked.                                                                   *)
SmokeOmits ==
  /\ smoke.stage = "requesting" /\ CheckOf(smoke) = "paid"
  /\ smoke.arguments.provider \notin smoke.catalog
  /\ smoke' = Recorded(smoke, FALSE)
  /\ UNCHANGED << service, glitches, unanswered >>

(* The rule governs the pinned completion too, on a provider that is paid.  *)
Executes(s) ==
  LET paid == CheckOf(smoke) = "paid"
  IN  [s EXCEPT !.paid = IF paid \/ s.rule THEN @ + 1 ELSE @,
                !.buffered = IF paid THEN @ ELSE @ + 1]

(* A completion: it is executed and answered; or executed, with its answer  *)
(* lost or a 502 for an attempt that failed; or it is not executed at all.  *)
SmokeCompletes ==
  /\ smoke.stage = "requesting" /\ CheckOf(smoke) \in {"completion", "paid"}
  /\ CheckOf(smoke) = "paid" => smoke.arguments.provider \in smoke.catalog
  /\ \/ /\ smoke' = Answered(smoke, IF service.rule THEN "wrong" ELSE "as expected")
        /\ service' = Executes(service)
        /\ UNCHANGED << glitches, unanswered >>
     \/ /\ Glitch /\ smoke' = Answered(smoke, "transient") /\ service' = Executes(service)
        /\ unanswered' = unanswered + 1
     \/ /\ Glitch /\ \E answer \in {"transient", "wrong"} : smoke' = Answered(smoke, answer)
        /\ UNCHANGED << service, unanswered >>

(* The poll for the record.  404 and no answer go on, anything else does    *)
(* not: a 503 that every other check repeats ends this one.                 *)
SmokePolls ==
  /\ smoke.stage = "polling" /\ smoke.polls < MaxPolls
  /\ \/ /\ smoke' = IF service.stored > 0 THEN Recorded(smoke, TRUE)
                    ELSE [smoke EXCEPT !.polls = @ + 1]
        /\ UNCHANGED glitches
     \/ /\ Glitch
        /\ \/ smoke' = [smoke EXCEPT !.polls = @ + 1]
           \/ smoke' = Recorded(smoke, FALSE)
  /\ UNCHANGED << service, unanswered >>

(* The time is over: not before the first poll.                             *)
SmokeGivesUp ==
  /\ smoke.stage = "polling" /\ smoke.polls > 0
  /\ smoke' = Recorded(smoke, FALSE)
  /\ UNCHANGED << service, glitches, unanswered >>

(* The writer's INSERT, all of the batch or none of it.                     *)
ServiceFlushes ==
  /\ service.buffered > 0
  /\ service' = IF service.partition
                  THEN [service EXCEPT !.stored = @ + service.buffered, !.buffered = 0]
                  ELSE [service EXCEPT !.dropped = @ + service.buffered, !.buffered = 0]
  /\ UNCHANGED << smoke, glitches, unanswered >>

(* The process crashes: its buffer is gone.                                 *)
ServiceCrashes ==
  /\ Glitch /\ service.buffered > 0
  /\ service' = [service EXCEPT !.dropped = @ + service.buffered, !.buffered = 0]
  /\ UNCHANGED << smoke, unanswered >>

SmokeNext ==
  \/ SmokeStart \/ SmokeAsks \/ SmokeOmits \/ SmokeCompletes \/ SmokePolls \/ SmokeGivesUp
  \/ ServiceFlushes \/ ServiceCrashes

SmokeTypeOK ==
  /\ smoke.stage \in {"starting", "requesting", "polling", "exited"}
  /\ smoke.check \in 1..Len(ChecksOf(smoke.arguments)) /\ smoke.exit \in -1..2
  /\ smoke.attempt = 0 \/ smoke.attempt \in 0..smoke.arguments.retries
  /\ glitches \in 0..MaxGlitches

-----------------------------------------------------------------------------
(* The verdict can be relied on.  0 is the exit of a run whose every check  *)
(* passed, whose completion was stored, in a month that has a partition, and*)
(* whose requested provider answered -- or of one that only showed its help,*)
(* which an argument it does not know makes of any run.  1, where nothing   *)
(* went wrong and the retries are a number, means a rule that overrides its *)
(* pin, a provider without a model or a record not stored in time.  And     *)
(* the script executes no more than its retries allow, several times only   *)
(* when an execution was not answered, and pays for nothing that was not    *)
(* requested, except where such a rule does; a completion that is said to   *)
(* have failed while its record was found has been executed all the same.   *)
SmokeVerdictHolds ==
  LET s == smoke
      executed == service.buffered + service.stored + service.dropped
      requested == s.arguments.provider # NoProvider
  IN  /\ s.exit = 0 /\ s.arguments.usage = "complete" =>
           /\ s.failed = {} /\ service.stored > 0 /\ service.partition /\ ~service.rule
           /\ requested => service.paid > 0
      /\ s.exit = 1 /\ glitches = 0 /\ s.arguments.retries \in Nat =>
           /\ s.failed # {} /\ s.failed \subseteq {"replay", "completion", "paid"}
           /\ "completion" \in s.failed => service.rule
           /\ "paid" \in s.failed =>
                service.rule \/ s.arguments.provider \notin SmokeCatalog
      /\ s.exit = 2 => executed + service.paid = 0
      /\ executed > 0 => executed <= s.arguments.retries + 1
      /\ executed > 1 => unanswered > 0
      /\ service.paid > 0 => requested \/ service.rule
      /\ service.paid > 1 => unanswered > 0 \/ service.rule
      /\ "completion" \in s.failed /\ s.check > 8 /\ "replay" \notin s.failed =>
           unanswered > 0 \/ service.rule
=============================================================================
