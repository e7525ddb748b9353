--------------------------- MODULE CircuitBreaker ---------------------------
(***************************************************************************)
(* The process-local provider circuit breaker of                           *)
(* packages/api/src/routing/circuit-breaker.ts and the concurrent callers  *)
(* that use it: every caller asks tryAcquire before it calls a provider    *)
(* and reports the outcome with recordOutcome when the call comes back.    *)
(* Both methods are synchronous, so each is one step; any number of other  *)
(* callers' steps and clock ticks may fall between the two.                *)
(*                                                                         *)
(* The code stores openedAt and only ever compares now() - openedAt with   *)
(* cooldownMs.  The model stores that difference, sinceOpened, saturated   *)
(* at CooldownMs, so that time is unbounded while the state space is not.  *)
(***************************************************************************)
EXTENDS Naturals, ErrorClasses

CONSTANTS
  Providers,         (* provider ids                                        *)
  Callers,           (* requests that may have a provider call in flight    *)
  NoProvider,        (* the provider of a caller with no call in flight     *)
  FailureThreshold,  (* LCA_CIRCUIT_FAILURE_THRESHOLD                       *)
  CooldownMs         (* LCA_CIRCUIT_COOLDOWN_MS, in clock ticks             *)

ASSUME BreakerAssumption ==
  /\ FailureThreshold \in Nat \ {0}
  /\ CooldownMs \in Nat \ {0}
  /\ NoProvider \notin Providers

VARIABLES
  enabled,  (* config.enabled, read once at boot                            *)
  entries,  (* entries[p]: the breaker's Entry for provider p               *)
  calls     (* calls[c]: the call caller c has in flight, or Idle           *)

vars == << enabled, entries, calls >>

CircuitState == {"closed", "open", "half_open"}

Entry ==
  [ state : CircuitState,
    consecutiveFailures : 0 .. FailureThreshold,
    sinceOpened : 0 .. CooldownMs,
    probeInFlight : BOOLEAN ]

Idle == [provider |-> NoProvider, probe |-> FALSE]

(* The call's provider, and whether tryAcquire granted it the probe slot.   *)
Call == [provider : Providers, probe : BOOLEAN] \union {Idle}

(* entry(): what getState and the first call for a provider see.            *)
FreshEntry ==
  [ state |-> "closed", consecutiveFailures |-> 0,
    sinceOpened |-> CooldownMs, probeInFlight |-> FALSE ]

-----------------------------------------------------------------------------
(* tryAcquire as a pure function of an entry.                               *)

(* Faulty variant: a half-open circuit hands out its slot again.            *)
Probes_SlotIgnored(e) ==
  \/ e.state = "open" /\ e.sinceOpened >= CooldownMs
  \/ e.state = "half_open"

(* True when this acquire takes the single HALF_OPEN probe slot.            *)
Probes(e) ==
  \/ e.state = "open" /\ e.sinceOpened >= CooldownMs
  \/ e.state = "half_open" /\ ~e.probeInFlight

Allows(e) == e.state = "closed" \/ Probes(e)

Acquired(e) ==
  IF Probes(e) THEN [e EXCEPT !.state = "half_open", !.probeInFlight = TRUE] ELSE e

-----------------------------------------------------------------------------
(* recordOutcome as a pure function of an entry and an error class.         *)

Opened(e) == [e EXCEPT !.state = "open", !.sinceOpened = 0]

(* Faulty variant: an outcome that is no availability failure leaves the    *)
(* slot taken.                                                              *)
ProbeResolved_SlotLeaks(e, err) ==
  IF err \in TRIPPING THEN Opened([e EXCEPT !.probeInFlight = FALSE]) ELSE e

(* Faulty variant: a recovered circuit keeps its old failure count.         *)
ProbeResolved_CountKept(e, err) ==
  LET released == [e EXCEPT !.probeInFlight = FALSE]
  IN  IF err \in TRIPPING
        THEN Opened(released)
        ELSE [released EXCEPT !.state = "closed"]

(* Faulty variant: the slot is not released when the circuit reopens.       *)
ProbeResolved_SlotKept(e, err) ==
  IF err \in TRIPPING
    THEN Opened(e)
    ELSE [e EXCEPT !.state = "closed", !.consecutiveFailures = 0,
                   !.probeInFlight = FALSE]

(* A probe slot is released; an availability failure reopens the circuit    *)
(* and restarts the cooldown, anything else closes it.                      *)
ProbeResolved(e, err) ==
  LET released == [e EXCEPT !.probeInFlight = FALSE]
  IN  IF err \in TRIPPING
        THEN Opened(released)
        ELSE [released EXCEPT !.state = "closed", !.consecutiveFailures = 0]

(* Faulty variant: the circuit opens one failure late.                      *)
StreakCounted_OneLate(e, err) ==
  LET counted == [e EXCEPT !.consecutiveFailures = @ + 1]
  IN  CASE err \notin TRIPPING -> [e EXCEPT !.consecutiveFailures = 0]
        [] err \in TRIPPING /\ counted.consecutiveFailures > FailureThreshold
             -> Opened(counted)
        [] OTHER -> counted

(* A closed circuit counts the failure and opens at the threshold; any      *)
(* other outcome ends the streak.                                           *)
StreakCounted(e, err) ==
  LET counted == [e EXCEPT !.consecutiveFailures = @ + 1]
  IN  CASE err \notin TRIPPING -> [e EXCEPT !.consecutiveFailures = 0]
        [] err \in TRIPPING /\ counted.consecutiveFailures >= FailureThreshold
             -> Opened(counted)
        [] OTHER -> counted

(* An open circuit ignores what comes back.                                 *)
Recorded(e, err) ==
  CASE e.state = "half_open" -> ProbeResolved(e, err)
    [] e.state = "closed"    -> StreakCounted(e, err)
    [] e.state = "open"      -> e

-----------------------------------------------------------------------------
Init ==
  /\ enabled \in BOOLEAN
  /\ entries = [p \in Providers |-> FreshEntry]
  /\ calls = [c \in Callers |-> Idle]

(* A caller asks for p and is let through.  A refused caller changes        *)
(* nothing here: it moves on to its fallback candidate.  With the breaker   *)
(* disabled everyone passes and no entry is touched.                        *)
TryAcquire(c, p) ==
  /\ calls[c] = Idle
  /\ enabled => Allows(entries[p])
  /\ entries' = IF enabled THEN [entries EXCEPT ![p] = Acquired(@)] ELSE entries
  /\ calls' = [calls EXCEPT ![c] =
                 [provider |-> p, probe |-> enabled /\ Probes(entries[p])]]
  /\ UNCHANGED enabled

(* The caller's logical attempt on its provider ends with err.              *)
RecordOutcome(c, err) ==
  /\ calls[c] # Idle
  /\ entries' = IF enabled
                  THEN [entries EXCEPT ![calls[c].provider] = Recorded(@, err)]
                  ELSE entries
  /\ calls' = [calls EXCEPT ![c] = Idle]
  /\ UNCHANGED enabled

(* The clock advances: every open circuit is one tick closer to its probe.  *)
Aged(e) ==
  IF e.state = "open" /\ e.sinceOpened < CooldownMs
    THEN [e EXCEPT !.sinceOpened = @ + 1] ELSE e

Tick ==
  /\ entries' = [p \in Providers |-> Aged(entries[p])]
  /\ UNCHANGED << enabled, calls >>

Next ==
  \/ \E c \in Callers, p \in Providers : TryAcquire(c, p)
  \/ \E c \in Callers, err \in CallOutcome : RecordOutcome(c, err)
  \/ Tick

Spec == Init /\ [][Next]_vars

(* Time passes; every call comes back, because each one runs under its own  *)
(* timer; and traffic goes on: a provider that would admit a request again  *)
(* and again is asked.  The last is an assumption about the clients.        *)
Fairness ==
  /\ WF_vars(Tick)
  /\ \A c \in Callers : WF_vars(\E err \in CallOutcome : RecordOutcome(c, err))
  /\ \A p \in Providers : SF_vars(\E c \in Callers : TryAcquire(c, p))

FairSpec == Spec /\ Fairness

-----------------------------------------------------------------------------
(* Properties.                                                              *)

TypeOK ==
  /\ enabled \in BOOLEAN
  /\ entries \in [Providers -> Entry]
  /\ calls \in [Callers -> Call]

(* The probe slot is never leaked: a circuit is half-open exactly while its *)
(* slot is taken, and then a call that was granted the slot is still in     *)
(* flight, so some recordOutcome will release it (circuit-breaker.ts        *)
(* 97-108, 117-128).                                                        *)
SlotHeld ==
  \A p \in Providers :
    /\ entries[p].state = "half_open" <=> entries[p].probeInFlight
    /\ entries[p].state = "half_open" =>
         \E c \in Callers : calls[c] = [provider |-> p, probe |-> TRUE]

(* A circuit is tripped exactly while it carries a full count: a closed one *)
(* is always short of the threshold, however often it has been reopened,    *)
(* probed and closed before (circuit-breaker.ts 121-141).                   *)
FullCountIffTripped ==
  \A p \in Providers :
    entries[p].consecutiveFailures = FailureThreshold
      <=> entries[p].state # "closed"

(* The breaker implements the state diagram it documents.                   *)
CallersOn(p) == {c \in Callers : calls[c].provider = p}

Contract == INSTANCE CircuitContract WITH
  gate <- [p \in Providers |-> entries[p].state],
  busy <- [p \in Providers |-> CallersOn(p)]

ImplementsContract == Contract!Spec

(* No provider is shut out for good: as long as requests keep asking for    *)
(* it, it is called again and again, whatever its calls come back with.     *)
KeepsServing ==
  \A p \in Providers : []<>(CallersOn(p) # {})

(* docs/operations.md:99, and the comments at circuit-breaker.ts 120 and    *)
(* 124: what moves a circuit out of HALF_OPEN is its probe.                 *)
HalfOpenDecidedByProbe ==
  [][ \A p \in Providers :
        entries[p].state = "half_open" /\ entries'[p].state # "half_open" =>
          \E c \in CallersOn(p) : calls[c].probe /\ calls'[c] = Idle ]_vars
=============================================================================
