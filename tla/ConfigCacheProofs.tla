------------------------- MODULE ConfigCacheProofs --------------------------
(***************************************************************************)
(* What the copies of a configuration table may be, for every set of       *)
(* replicas, readers, writers and contents.  The facts are stated of one   *)
(* step, so that a module that embeds the cache in a larger system can use *)
(* them.                                                                   *)
(***************************************************************************)
EXTENDS ConfigCache, TLAPS

NamedReasons == {"overtaken", "lost", "foreign"}

(* Rows that a SELECT brought and that are no longer those of the table     *)
(* have missed a mutation: without it StaleHasCause is not inductive, since *)
(* such rows become the copy when the await resumes.                        *)
LoadsKnow ==
  \A r \in Readers : load[r].rows \notin {NotLoaded, table} => load[r].missed # {}

CacheIInv == CacheTypeOK /\ LoadsKnow /\ StaleHasCause

(* At first nothing is loaded, and nothing stale.                           *)
LEMMA CacheInitIInv ==
  ASSUME CacheInit
  PROVE  CacheIInv
  BY DEF CacheInit, CacheIInv, CacheTypeOK, LoadsKnow, StaleHasCause, NoLoad

(* A load that has read nothing misses nothing.                             *)
LEMMA StartLoadPreserves ==
  ASSUME CacheIInv, NEW r \in Readers, NEW p \in Replicas, StartLoad(r, p)
  PROVE  CacheIInv'
  BY DEF CacheIInv, CacheTypeOK, LoadsKnow, StaleHasCause, StartLoad, Pending

(* Rows that were read this instant are the rows of the table.              *)
LEMMA ReadTablePreserves ==
  ASSUME CacheIInv, NEW r \in Readers, ReadTable(r)
  PROVE  CacheIInv'
  BY DEF CacheIInv, CacheTypeOK, LoadsKnow, StaleHasCause, ReadTable, Pending

(* Rows that become the copy bring along what was committed since they were *)
(* read; a local mutation among it has overtaken the load, or is still to   *)
(* drop the copy.                                                           *)
LEMMA StoreLoadPreserves ==
  ASSUME CacheIInv, NEW r \in Readers, StoreLoad(r)
  PROVE  CacheIInv'
  <1> DEFINE p == load[r].replica
             kept == IF "local" \in load[r].missed
                       THEN (load[r].missed \ {"local"}) \union {"overtaken"}
                       ELSE load[r].missed
  <1>1. /\ load[r] \in [ replica : Replicas \union {NoReplica},
                         rows : Contents \union {NotLoaded}, missed : SUBSET Reason ]
        /\ p \in Replicas \/ p = NoReplica
        /\ kept \in SUBSET Reason
    BY DEF CacheIInv, CacheTypeOK, Reason
  <1>2. /\ p # NoReplica /\ load[r].rows # NotLoaded
        /\ cache' = [cache EXCEPT ![p] = load[r].rows]
        /\ reasons' = [reasons EXCEPT ![p] = kept]
        /\ load' = [load EXCEPT ![r] = NoLoad]
        /\ table' = table /\ mutation' = mutation
    BY DEF StoreLoad
  <1>3. CacheTypeOK'
    BY <1>1, <1>2 DEF CacheIInv, CacheTypeOK, NoLoad
  <1>4. LoadsKnow'
    BY <1>2 DEF CacheIInv, CacheTypeOK, LoadsKnow, NoLoad
  <1>5. load[r].rows # table => kept \intersect NamedReasons # {}
    BY <1>1, <1>2 DEF CacheIInv, LoadsKnow, Reason, NamedReasons
  <1>6. StaleHasCause'
    BY <1>1, <1>2, <1>5 DEF CacheIInv, CacheTypeOK, StaleHasCause, Pending, NamedReasons
  <1>7. QED
    BY <1>3, <1>4, <1>6 DEF CacheIInv

(* A failed load leaves the copy as it was.                                 *)
LEMMA FailLoadPreserves ==
  ASSUME CacheIInv, NEW r \in Readers, FailLoad(r)
  PROVE  CacheIInv'
  BY DEF CacheIInv, CacheTypeOK, LoadsKnow, StaleHasCause, FailLoad, Pending, NoLoad

(* A commit makes every other copy and every load on its way stale, and is  *)
(* itself the named cause: pending on its own replica, foreign on the       *)
(* others.                                                                  *)
LEMMA CommitPreserves ==
  ASSUME CacheIInv, NEW w \in Writers, NEW p \in Replicas, NEW rows \in Contents,
         Commit(w, p, rows)
  PROVE  CacheIInv'
  <1>1. /\ mutation[w] = NoReplica /\ table' = rows /\ cache' = cache
        /\ mutation' = [mutation EXCEPT ![w] = p]
        /\ \A r \in Readers : load'[r] =
             IF load[r].rows = NotLoaded THEN load[r]
             ELSE [load[r] EXCEPT !.missed = @ \union {MissedBy(load[r].replica, p)}]
        /\ \A q \in Replicas : reasons'[q] =
             IF cache[q] = NotLoaded THEN reasons[q]
             ELSE reasons[q] \union {MissedBy(q, p)}
    BY DEF Commit
  <1>2. \A q : MissedBy(q, p) \in Reason
    BY DEF MissedBy, Reason
  <1>3. CacheTypeOK'
    BY <1>2 DEF CacheIInv, CacheTypeOK, Commit
  <1>4. ASSUME NEW r \in Readers, load'[r].rows # NotLoaded
        PROVE  load'[r].missed # {}
    <2> DEFINE m == MissedBy(load[r].replica, p)
    <2>1. load[r] \in [ replica : Replicas \union {NoReplica},
                        rows : Contents \union {NotLoaded}, missed : SUBSET Reason ]
      BY DEF CacheIInv, CacheTypeOK
    <2>2. load[r].rows # NotLoaded
      BY <1>1, <1>4
    <2>3. load'[r] = [load[r] EXCEPT !.missed = @ \union {m}]
      BY <1>1, <2>2
    <2>4. m \in load'[r].missed
      BY <2>1, <2>3
    <2>5. QED
      BY <2>4
  <1>5. LoadsKnow'
    BY <1>4 DEF LoadsKnow
  <1>6. ASSUME NEW q \in Replicas, cache'[q] \notin {NotLoaded, table'}
        PROVE  Pending(q)' # {} \/ reasons'[q] \intersect NamedReasons # {}
    <2>1. CASE q = p
      BY <1>1, <2>1 DEF CacheIInv, CacheTypeOK, Pending
    <2>2. CASE q # p
      BY <1>1, <1>6, <2>2 DEF MissedBy, NamedReasons
    <2>3. QED
      BY <2>1, <2>2
  <1>7. StaleHasCause'
    BY <1>6 DEF StaleHasCause, NamedReasons
  <1>8. QED
    BY <1>3, <1>5, <1>7 DEF CacheIInv

(* A mutation that returns drops the copy of its replica.                   *)
LEMMA AcknowledgePreserves ==
  ASSUME CacheIInv, NEW w \in Writers, Acknowledge(w)
  PROVE  CacheIInv'
  BY DEF CacheIInv, CacheTypeOK, LoadsKnow, StaleHasCause, Acknowledge, Pending

(* A mutation whose answer is lost is itself the cause of what stays stale. *)
LEMMA LoseAnswerPreserves ==
  ASSUME CacheIInv, NEW w \in Writers, LoseAnswer(w)
  PROVE  CacheIInv'
  <1> DEFINE p == mutation[w]
  <1>1. /\ p # NoReplica /\ p \in Replicas
        /\ mutation' = [mutation EXCEPT ![w] = NoReplica]
        /\ reasons' = [reasons EXCEPT ![p] =
                         IF cache[p] = NotLoaded THEN @ ELSE @ \union {"lost"}]
        /\ \A r \in Readers : load'[r] =
             IF load[r].replica = p /\ "local" \in load[r].missed
               THEN [load[r] EXCEPT !.missed = @ \union {"lost"}] ELSE load[r]
        /\ table' = table /\ cache' = cache
    BY DEF LoseAnswer, CacheIInv, CacheTypeOK
  <1>2. CacheTypeOK'
    <2>1. "lost" \in Reason
      BY DEF Reason
    <2>2. QED
      BY <1>1, <2>1 DEF CacheIInv, CacheTypeOK, LoseAnswer
  <1>3. LoadsKnow'
    BY <1>1 DEF CacheIInv, CacheTypeOK, LoadsKnow
  <1>4. ASSUME NEW q \in Replicas, cache'[q] \notin {NotLoaded, table'}
        PROVE  Pending(q)' # {} \/ reasons'[q] \intersect NamedReasons # {}
    <2>1. CASE q = p
      BY <1>1, <1>4, <2>1 DEF CacheIInv, CacheTypeOK, NamedReasons
    <2>2. CASE q # p
      BY <1>1, <1>4, <2>2 DEF CacheIInv, CacheTypeOK, StaleHasCause, Pending, NamedReasons
    <2>3. QED
      BY <2>1, <2>2
  <1>5. StaleHasCause'
    BY <1>4 DEF StaleHasCause, NamedReasons
  <1>6. QED
    BY <1>2, <1>3, <1>5 DEF CacheIInv

(* A restarted replica has no copy.                                         *)
LEMMA RestartPreserves ==
  ASSUME CacheIInv, NEW p \in Replicas, Restart(p)
  PROVE  CacheIInv'
  BY DEF CacheIInv, CacheTypeOK, LoadsKnow, StaleHasCause, Restart, Pending, NoLoad

(* Every step of the caches, and every step that leaves them alone, keeps   *)
(* the invariant.                                                           *)
LEMMA CacheStepPreserves ==
  ASSUME CacheIInv, [CacheNext]_cacheVars
  PROVE  CacheIInv'
  <1>1. CASE CacheNext
    BY <1>1, StartLoadPreserves, ReadTablePreserves, StoreLoadPreserves, FailLoadPreserves,
       CommitPreserves, AcknowledgePreserves, LoseAnswerPreserves, RestartPreserves
       DEF CacheNext
  <1>2. CASE UNCHANGED cacheVars
    BY <1>2 DEF cacheVars, CacheIInv, CacheTypeOK, LoadsKnow, StaleHasCause, Pending
  <1>3. QED
    BY <1>1, <1>2

(* The cache by itself: a copy that differs from the table has a named cause*)
(* (overrides/store.ts, budgets/store.ts: snapshot, create, update, remove).*)
THEOREM CopiesAreExplained == CacheSpec => [](CacheTypeOK /\ StaleHasCause)
  <1>1. CacheInit => CacheIInv
    BY CacheInitIInv
  <1>2. CacheIInv /\ [CacheNext]_cacheVars => CacheIInv'
    BY CacheStepPreserves
  <1>3. CacheIInv => CacheTypeOK /\ StaleHasCause
    BY DEF CacheIInv
  <1>4. QED
    BY <1>1, <1>2, <1>3, PTL DEF CacheSpec
=============================================================================
