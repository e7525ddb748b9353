------------------------ MODULE CircuitBreakerProofs ------------------------
(***************************************************************************)
(* The breaker's invariants and its refinement of the documented state     *)
(* diagram, for every set of providers and callers and every threshold and *)
(* cooldown.                                                               *)
(***************************************************************************)
EXTENDS CircuitBreaker, TLAPS

(* ------------------------------ Operators -------------------------------- *)

(* A provider's first entry is well formed (circuit-breaker.ts 74-81).      *)
LEMMA FreshEntryType == FreshEntry \in Entry
  BY BreakerAssumption DEF FreshEntry, Entry, CircuitState

(* tryAcquire keeps an entry well formed.                                   *)
LEMMA AcquiredType ==
  ASSUME NEW e \in Entry
  PROVE  Acquired(e) \in Entry
  BY DEF Acquired, Probes, Entry, CircuitState

(* A failure can only be counted past the threshold by a closed entry that  *)
(* already carries a full count: recordOutcome keeps every other one well   *)
(* formed.                                                                  *)
LEMMA RecordedType ==
  ASSUME NEW e \in Entry, NEW err,
         e.state = "closed" => e.consecutiveFailures # FailureThreshold
  PROVE  Recorded(e, err) \in Entry
  <1>0. 0 \in 0 .. CooldownMs /\ 0 \in 0 .. FailureThreshold
    BY BreakerAssumption
  <1>1. ASSUME NEW f \in Entry
        PROVE  /\ Opened(f) \in Entry
               /\ [f EXCEPT !.consecutiveFailures = 0] \in Entry
               /\ [f EXCEPT !.state = "closed", !.consecutiveFailures = 0] \in Entry
    BY <1>0 DEF Opened, Entry, CircuitState
  <1>2. CASE e.state = "half_open"
    <2> DEFINE released == [e EXCEPT !.probeInFlight = FALSE]
    <2>1. released \in Entry
      BY DEF Entry
    <2>2. ProbeResolved(e, err) \in Entry
      BY <1>1, <2>1 DEF ProbeResolved
    <2>3. QED
      BY <1>2, <2>2 DEF Recorded
  <1>3. CASE e.state = "closed"
    <2> DEFINE counted == [e EXCEPT !.consecutiveFailures = @ + 1]
    <2>1. counted \in Entry
      BY <1>3, BreakerAssumption DEF Entry
    <2>2. StreakCounted(e, err) \in Entry
      BY <1>1, <2>1 DEF StreakCounted
    <2>3. QED
      BY <1>3, <2>2 DEF Recorded
  <1>4. CASE e.state = "open"
    BY <1>4 DEF Recorded
  <1>5. QED
    BY <1>2, <1>3, <1>4 DEF Entry, CircuitState

(* The passing of time keeps an entry well formed.                          *)
LEMMA AgedType ==
  ASSUME NEW e \in Entry
  PROVE  Aged(e) \in Entry
  BY BreakerAssumption DEF Aged, Entry, CircuitState

(* ------------------------------ Invariant -------------------------------- *)

(* An entry whose count, slot and state agree.                              *)
Coherent(e) ==
  /\ e.state = "half_open" <=> e.probeInFlight
  /\ e.consecutiveFailures = FailureThreshold <=> e.state # "closed"

(* The inductive invariant: well-formed, coherent entries, a call that      *)
(* holds the slot behind every half-open circuit, and no circuit that ever  *)
(* left "closed" when the breaker is disabled.                              *)
IInv ==
  /\ TypeOK
  /\ enabled \/ \A p \in Providers : entries[p].state = "closed"
  /\ \A p \in Providers : Coherent(entries[p])
  /\ \A p \in Providers : entries[p].state = "half_open" =>
       \E c \in Callers : calls[c] = [provider |-> p, probe |-> TRUE]

(* tryAcquire keeps count, slot and state of an entry in agreement.         *)
LEMMA AcquiredCoherent ==
  ASSUME NEW e \in Entry, Coherent(e)
  PROVE  Coherent(Acquired(e))
  BY DEF Coherent, Acquired, Probes, Entry, CircuitState

(* So does recordOutcome, in the states in which it is called.              *)
LEMMA RecordedCoherent ==
  ASSUME NEW e \in Entry, NEW err, Coherent(e)
  PROVE  Coherent(Recorded(e, err)) /\ Recorded(e, err).state # "half_open"
  <1> USE BreakerAssumption DEF Coherent, Entry, CircuitState
  <1>1. CASE e.state = "half_open"
    BY <1>1 DEF Recorded, ProbeResolved, Opened
  <1>2. CASE e.state = "closed"
    BY <1>2 DEF Recorded, StreakCounted, Opened
  <1>3. CASE e.state = "open"
    BY <1>3 DEF Recorded
  <1>4. QED
    BY <1>1, <1>2, <1>3

(* And so does the passing of time.                                         *)
LEMMA AgedCoherent ==
  ASSUME NEW e \in Entry, Coherent(e)
  PROVE  Coherent(Aged(e)) /\ Aged(e).state = e.state
  BY DEF Coherent, Aged, Entry, CircuitState

(* All circuits start closed with no call in flight.                        *)
LEMMA InitIInv == Init => IInv
  <1> SUFFICES ASSUME Init PROVE IInv
    OBVIOUS
  <1>1. TypeOK
    BY FreshEntryType DEF Init, TypeOK, Idle, Call
  <1>2. \A p \in Providers : entries[p] = FreshEntry
    BY DEF Init
  <1>3. Coherent(FreshEntry) /\ FreshEntry.state = "closed"
    BY BreakerAssumption DEF Coherent, FreshEntry
  <1>4. QED
    BY <1>1, <1>2, <1>3 DEF IInv

(* tryAcquire keeps the invariant: a granted probe slot has a call that     *)
(* holds it.                                                                *)
LEMMA AcquirePreserves ==
  ASSUME IInv, NEW c \in Callers, NEW p \in Providers, TryAcquire(c, p)
  PROVE  IInv'
  <1> DEFINE call == [provider |-> p, probe |-> enabled /\ Probes(entries[p])]
  <1>1. entries \in [Providers -> Entry] /\ calls \in [Callers -> Call]
    BY DEF IInv, TypeOK
  <1>2. /\ calls' = [calls EXCEPT ![c] = call]
        /\ enabled' = enabled /\ enabled \in BOOLEAN
    BY DEF TryAcquire, IInv, TypeOK
  <1>3. entries[p] \in Entry /\ Coherent(entries[p])
    BY <1>1 DEF IInv
  <1>4. CASE enabled
    <2>1. entries' = [entries EXCEPT ![p] = Acquired(entries[p])]
      BY <1>4 DEF TryAcquire
    <2>2. TypeOK'
      <3>1. call \in Call
        BY <1>4 DEF Call, Probes
      <3>2. QED
        BY <1>1, <1>2, <1>3, <2>1, <3>1, AcquiredType DEF TypeOK
    <2>3. ASSUME NEW q \in Providers
          PROVE  Coherent(entries'[q])
      <3>1. CASE q = p
        BY <1>1, <1>3, <2>1, <3>1, AcquiredCoherent
      <3>2. CASE q # p
        BY <1>1, <2>1, <3>2 DEF IInv
      <3>3. QED
        BY <3>1, <3>2
    <2>4. ASSUME NEW q \in Providers, entries'[q].state = "half_open"
          PROVE  \E d \in Callers : calls'[d] = [provider |-> q, probe |-> TRUE]
      <3>1. CASE entries[q].state = "half_open"
        <4>1. PICK d \in Callers : calls[d] = [provider |-> q, probe |-> TRUE]
          BY <3>1 DEF IInv
        <4>2. d # c
          BY <4>1 DEF TryAcquire, Idle
        <4>3. QED
          BY <1>1, <1>2, <4>1, <4>2
      <3>2. CASE entries[q].state # "half_open"
        <4>1. q = p /\ Acquired(entries[p]).state = "half_open"
          BY <1>1, <2>1, <2>4, <3>2
        <4>2. Probes(entries[p])
          BY <3>2, <4>1 DEF Acquired
        <4>3. calls'[c] = [provider |-> q, probe |-> TRUE]
          BY <1>1, <1>2, <1>4, <4>1, <4>2
        <4>4. QED
          BY <4>3
      <3>3. QED
        BY <3>1, <3>2
    <2>5. (\A q \in Providers : Coherent(entries[q]))'
      BY <2>3 DEF Coherent
    <2>6. QED
      BY <1>2, <1>4, <2>2, <2>4, <2>5 DEF IInv
  <1>5. CASE ~enabled
    <2>1. entries' = entries
      BY <1>5 DEF TryAcquire
    <2>2. call \in Call /\ TypeOK'
      BY <1>1, <1>2, <1>5, <2>1 DEF TypeOK, Call
    <2>3. ASSUME NEW q \in Providers, entries[q].state = "half_open"
          PROVE  \E d \in Callers : calls'[d] = [provider |-> q, probe |-> TRUE]
      <3>1. PICK d \in Callers : calls[d] = [provider |-> q, probe |-> TRUE]
        BY <2>3 DEF IInv
      <3>2. d # c
        BY <3>1 DEF TryAcquire, Idle
      <3>3. QED
        BY <1>1, <1>2, <3>1, <3>2
    <2>4. \A q \in Providers : entries[q].state = "closed"
      BY <1>5 DEF IInv
    <2>5. QED
      BY <2>1, <2>2, <2>3, <2>4 DEF IInv, Coherent
  <1>6. QED
    BY <1>2, <1>4, <1>5

(* recordOutcome keeps it: a call that leaves takes its slot with it.       *)
LEMMA RecordPreserves ==
  ASSUME IInv, NEW c \in Callers, NEW err \in CallOutcome, RecordOutcome(c, err)
  PROVE  IInv'
  <1> DEFINE p == calls[c].provider
  <1>1. /\ entries \in [Providers -> Entry]
        /\ calls \in [Callers -> Call]
        /\ enabled \in BOOLEAN /\ enabled' = enabled
        /\ calls' = [calls EXCEPT ![c] = Idle]
    BY DEF IInv, TypeOK, RecordOutcome
  <1>2. Idle \in Call
    BY DEF Idle, Call
  <1>3. CASE enabled
    <2>1. entries' = [entries EXCEPT ![p] = Recorded(entries[p], err)]
      BY <1>3 DEF RecordOutcome
    <2>2. ASSUME NEW q \in Providers
          PROVE  /\ entries'[q] \in Entry
                 /\ Coherent(entries'[q])
                 /\ entries'[q].state = "half_open" => q # p /\ entries'[q] = entries[q]
      <3>1. entries[q] \in Entry /\ Coherent(entries[q])
        BY <1>1 DEF IInv
      <3>2. CASE q = p
        <4>1. entries'[q] = Recorded(entries[q], err)
          BY <1>1, <2>1, <3>2
        <4>2. Recorded(entries[q], err) \in Entry
          BY <3>1, RecordedType DEF Coherent
        <4>3. QED
          BY <3>1, <4>1, <4>2, RecordedCoherent
      <3>3. CASE q # p
        BY <1>1, <2>1, <3>1, <3>3
      <3>4. QED
        BY <3>2, <3>3
    <2>3. TypeOK'
      BY <1>1, <1>2, <2>1, <2>2 DEF TypeOK
    <2>4. ASSUME NEW q \in Providers, entries'[q].state = "half_open"
          PROVE  \E d \in Callers : calls'[d] = [provider |-> q, probe |-> TRUE]
      <3>1. q # p /\ entries[q].state = "half_open"
        BY <2>2, <2>4
      <3>2. PICK d \in Callers : calls[d] = [provider |-> q, probe |-> TRUE]
        BY <3>1 DEF IInv
      <3>3. d # c
        BY <3>1, <3>2
      <3>4. QED
        BY <1>1, <3>2, <3>3
    <2>5. (\A q \in Providers : Coherent(entries[q]))'
      BY <2>2 DEF Coherent
    <2>6. QED
      BY <1>1, <1>3, <2>3, <2>4, <2>5 DEF IInv
  <1>4. CASE ~enabled
    <2>1. entries' = entries
      BY <1>4 DEF RecordOutcome
    <2>2. TypeOK'
      BY <1>1, <1>2, <2>1 DEF TypeOK
    <2>3. \A q \in Providers : entries[q].state = "closed"
      BY <1>4 DEF IInv
    <2>4. QED
      BY <2>1, <2>2, <2>3 DEF IInv, Coherent
  <1>5. QED
    BY <1>1, <1>3, <1>4

(* The clock keeps it.                                                      *)
LEMMA TickPreserves ==
  ASSUME IInv, Tick
  PROVE  IInv'
  <1>1. entries \in [Providers -> Entry]
    BY DEF IInv, TypeOK
  <1>2. /\ entries' = [p \in Providers |-> Aged(entries[p])]
        /\ calls' = calls /\ enabled' = enabled
    BY DEF Tick
  <1>3. ASSUME NEW p \in Providers
        PROVE  /\ entries'[p] \in Entry
               /\ Coherent(entries'[p])
               /\ entries'[p].state = entries[p].state
    BY <1>1, <1>2, AgedType, AgedCoherent DEF IInv
  <1>4. TypeOK'
    BY <1>2, <1>3 DEF IInv, TypeOK
  <1>5. (\A p \in Providers : Coherent(entries[p]))'
    BY <1>3 DEF Coherent
  <1>6. QED
    BY <1>2, <1>3, <1>4, <1>5 DEF IInv

(* Every step keeps it.                                                     *)
LEMMA NextPreserves == IInv /\ [Next]_vars => IInv'
  <1> SUFFICES ASSUME IInv, [Next]_vars PROVE IInv'
    OBVIOUS
  <1>1. ASSUME NEW c \in Callers, NEW p \in Providers, TryAcquire(c, p)
        PROVE  IInv'
    BY <1>1, AcquirePreserves
  <1>2. ASSUME NEW c \in Callers, NEW err \in CallOutcome, RecordOutcome(c, err)
        PROVE  IInv'
    BY <1>2, RecordPreserves
  <1>3. CASE Tick
    BY <1>3, TickPreserves
  <1>4. CASE UNCHANGED vars
    BY <1>4 DEF vars, IInv, TypeOK, Coherent
  <1>5. QED
    BY <1>1, <1>2, <1>3, <1>4 DEF Next

(* The inductive invariant holds throughout.                                *)
THEOREM Invariance == Spec => []IInv
  BY InitIInv, NextPreserves, PTL DEF Spec

(* ------------------------------ Theorems --------------------------------- *)

(* Every entry and every call is well formed in every reachable state.      *)
THEOREM TypeCorrect == Spec => []TypeOK
  <1>1. IInv => TypeOK
    BY DEF IInv
  <1>2. QED
    BY <1>1, Invariance, PTL

(* The probe slot of a half-open circuit is always held by a call that is   *)
(* still in flight, for any number of concurrent callers.                   *)
THEOREM ProbeSlotNeverLeaks == Spec => []SlotHeld
  <1>1. IInv => SlotHeld
    BY DEF IInv, SlotHeld, Coherent
  <1>2. QED
    BY <1>1, Invariance, PTL

(* A circuit carries a full failure count exactly while it is tripped.      *)
THEOREM CountMatchesState == Spec => []FullCountIffTripped
  <1>1. IInv => FullCountIffTripped
    BY DEF IInv, FullCountIffTripped, Coherent
  <1>2. QED
    BY <1>1, Invariance, PTL

(* recordOutcome leaves a closed or half-open circuit closed or open, and   *)
(* an open one open.                                                        *)
LEMMA RecordedGate ==
  ASSUME NEW e \in Entry, NEW err
  PROVE  Recorded(e, err).state \in Contract!After(e.state)
  <1> USE DEF Entry, CircuitState, Contract!After
  <1>1. CASE e.state = "half_open"
    BY <1>1 DEF Recorded, ProbeResolved, Opened
  <1>2. CASE e.state = "closed"
    BY <1>2 DEF Recorded, StreakCounted, Opened
  <1>3. CASE e.state = "open"
    BY <1>3 DEF Recorded
  <1>4. QED
    BY <1>1, <1>2, <1>3

(* Every step of the breaker is a step of the state diagram it documents.   *)
LEMMA StepImplementsContract ==
  IInv /\ [Next]_vars => [Contract!Next]_(Contract!vars)
  <1> SUFFICES ASSUME IInv, [Next]_vars PROVE [Contract!Next]_(Contract!vars)
    OBVIOUS
  <1> DEFINE gate == [p \in Providers |-> entries[p].state]
             busy == [p \in Providers |-> CallersOn(p)]
  <1>1. entries \in [Providers -> Entry] /\ calls \in [Callers -> Call]
    BY DEF IInv, TypeOK
  <1>2. Idle.provider = NoProvider /\ NoProvider \notin Providers
    BY BreakerAssumption DEF Idle
  <1>3. ASSUME NEW c \in Callers, NEW p \in Providers, TryAcquire(c, p)
        PROVE  Contract!Next
    <2>1. calls[c] = Idle /\ Contract!Free(c)
      BY <1>2, <1>3 DEF TryAcquire, Contract!Free, CallersOn
    <2>2. busy' = [busy EXCEPT ![p] = @ \union {c}]
      BY <1>1, <1>2, <1>3, <2>1 DEF TryAcquire, CallersOn
    <2>3. CASE entries[p].state = "closed"
      <3>1. entries' = entries
        BY <1>1, <1>3, <2>3 DEF TryAcquire, Acquired, Probes
      <3>2. Contract!AdmitClosed(c, p)
        BY <2>1, <2>2, <2>3, <3>1 DEF Contract!AdmitClosed
      <3>3. QED
        BY <3>2 DEF Contract!Next
    <2>4. CASE entries[p].state # "closed"
      <3>1. enabled /\ Probes(entries[p])
        BY <1>3, <2>4 DEF TryAcquire, Allows, IInv
      <3>2. entries[p].state = "open"
        BY <3>1 DEF Probes, IInv, Coherent
      <3>3. gate' = [gate EXCEPT ![p] = "half_open"]
        <4>1. entries' = [entries EXCEPT ![p] = Acquired(entries[p])]
          BY <1>3, <3>1 DEF TryAcquire
        <4>2. Acquired(entries[p]).state = "half_open"
          BY <1>1, <3>1 DEF Acquired, Entry
        <4>3. QED
          BY <1>1, <4>1, <4>2
      <3>4. Contract!AdmitProbe(c, p)
        BY <2>1, <2>2, <3>2, <3>3 DEF Contract!AdmitProbe
      <3>5. QED
        BY <3>4 DEF Contract!Next
    <2>5. QED
      BY <2>3, <2>4
  <1>4. ASSUME NEW c \in Callers, NEW err \in CallOutcome, RecordOutcome(c, err)
        PROVE  Contract!Next
    <2>1. PICK p \in Providers : p = calls[c].provider
      BY <1>1, <1>4 DEF RecordOutcome, Call
    <2>2. busy' = [busy EXCEPT ![p] = @ \ {c}] /\ c \in busy[p]
      BY <1>1, <1>2, <1>4, <2>1 DEF RecordOutcome, CallersOn
    <2>3. PICK g \in Contract!After(entries[p].state) :
            gate' = [gate EXCEPT ![p] = g]
      <3>1. CASE enabled
        <4>1. entries' = [entries EXCEPT ![p] = Recorded(entries[p], err)]
          BY <1>4, <2>1, <3>1 DEF RecordOutcome
        <4>2. gate' = [gate EXCEPT ![p] = Recorded(entries[p], err).state]
          BY <1>1, <2>1, <4>1
        <4>3. entries[p] \in Entry
          BY <1>1, <2>1
        <4>4. Recorded(entries[p], err).state \in Contract!After(entries[p].state)
          BY <4>3, RecordedGate
        <4>5. QED
          BY <4>2, <4>4
      <3>2. CASE ~enabled
        <4>1. gate' = [gate EXCEPT ![p] = "closed"]
          BY <1>1, <1>4, <2>1, <3>2 DEF RecordOutcome, IInv
        <4>2. "closed" \in Contract!After(entries[p].state)
          BY <2>1, <3>2 DEF IInv, Contract!After
        <4>3. QED
          BY <4>1, <4>2
      <3>3. QED
        BY <3>1, <3>2
    <2>4. Contract!Complete(c, p)
      BY <2>1, <2>2, <2>3 DEF Contract!Complete
    <2>5. QED
      BY <2>1, <2>4 DEF Contract!Next
  <1>5. CASE Tick
    <2>1. gate' = gate
      BY <1>1, <1>5, AgedCoherent DEF Tick, IInv
    <2>2. busy' = busy
      BY <1>5 DEF Tick, CallersOn
    <2>3. QED
      BY <2>1, <2>2 DEF Contract!vars
  <1>6. CASE UNCHANGED vars
    BY <1>6 DEF vars, Contract!vars, CallersOn
  <1>7. QED
    BY <1>3, <1>4, <1>5, <1>6 DEF Next

(* Whatever calls overlap, the circuits only move as the documented state   *)
(* diagram of docs/operations.md says.                                      *)
THEOREM Refinement == Spec => ImplementsContract
  <1>1. Init => Contract!Init
    BY BreakerAssumption DEF Init, Contract!Init, FreshEntry, CallersOn, Idle
  <1>2. QED
    BY <1>1, StepImplementsContract, Invariance, PTL
       DEF Spec, ImplementsContract, Contract!Spec
=============================================================================
