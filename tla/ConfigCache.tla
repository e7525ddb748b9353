---------------------------- MODULE ConfigCache -----------------------------
(***************************************************************************)
(* A configuration table of PostgreSQL that every replica of the API keeps *)
(* a copy of: createOperatorRuleStore (persistence/src/overrides/store.ts) *)
(* and createBudgetStore (persistence/src/budgets/store.ts), which handle  *)
(* their `cache` alike.                                                    *)
(*                                                                         *)
(* snapshot() returns the copy, or awaits a SELECT and stores its rows.    *)
(* create, update and remove await their statement and then drop the copy. *)
(* The statement and the code after the await are two steps, and other     *)
(* calls of the same replica run in between; a call of another replica     *)
(* shares only the table.  There is no expiry.                             *)
(***************************************************************************)
EXTENDS Naturals

CONSTANTS
  Replicas,     (* processes that share the database                        *)
  Readers,      (* calls of snapshot() that can be under way                *)
  Writers,      (* mutations that can be under way                          *)
  Contents,     (* what the table may hold                                  *)
  NotLoaded,    (* cache = null                                             *)
  NoReplica

(* What a module that instantiates this one assumes of them.                *)
MarkersAreDistinct == NotLoaded \notin Contents /\ NoReplica \notin Replicas

VARIABLES
  table,        (* the rows in PostgreSQL                                   *)
  cache,        (* cache[p]: the copy of replica p                          *)
  load,         (* load[r]: snapshot() of reader r                          *)
  mutation,     (* mutation[w]: the replica writer w's mutation runs on     *)
  reasons       (* history: reasons[p], why p's copy may lack a mutation    *)

cacheVars == << table, cache, load, mutation, reasons >>

(* A load: on no replica before it is called; its rows are NotLoaded until  *)
(* the SELECT has run.  missed (history) is what was committed since then.  *)
NoLoad == [replica |-> NoReplica, rows |-> NotLoaded, missed |-> {}]

(* Why a copy may lack a committed mutation: it ran on another replica; on  *)
(* this one, and its await has not resumed; it resumed while the SELECT     *)
(* that filled the copy was on its way; its await failed after the commit.  *)
Reason == {"foreign", "local", "overtaken", "lost"}

CacheTypeOK ==
  /\ table \in Contents
  /\ cache \in [Replicas -> Contents \union {NotLoaded}]
  /\ load \in [Readers -> [ replica : Replicas \union {NoReplica},
                            rows : Contents \union {NotLoaded},
                            missed : SUBSET Reason ]]
  /\ mutation \in [Writers -> Replicas \union {NoReplica}]
  /\ reasons \in [Replicas -> SUBSET Reason]

CacheInit ==
  /\ table \in Contents
  /\ cache = [p \in Replicas |-> NotLoaded]
  /\ load = [r \in Readers |-> NoLoad]
  /\ mutation = [w \in Writers |-> NoReplica]
  /\ reasons = [p \in Replicas |-> {}]

-----------------------------------------------------------------------------
(* snapshot() finds no copy and sends the SELECT.                           *)
StartLoad(r, p) ==
  /\ load[r].replica = NoReplica /\ cache[p] = NotLoaded
  /\ load' = [load EXCEPT ![r].replica = p]
  /\ UNCHANGED << table, cache, mutation, reasons >>

(* loadAll: PostgreSQL runs the SELECT.                                     *)
ReadTable(r) ==
  /\ load[r].replica # NoReplica /\ load[r].rows = NotLoaded
  /\ load' = [load EXCEPT ![r].rows = table]
  /\ UNCHANGED << table, cache, mutation, reasons >>

(* The await resumes: the rows become the copy, whatever happened meanwhile.*)
StoreLoad(r) ==
  LET p == load[r].replica
  IN  /\ p # NoReplica /\ load[r].rows # NotLoaded
      /\ cache' = [cache EXCEPT ![p] = load[r].rows]
      /\ reasons' = [reasons EXCEPT ![p] =
           IF "local" \in load[r].missed
             THEN (load[r].missed \ {"local"}) \union {"overtaken"}
             ELSE load[r].missed]
      /\ load' = [load EXCEPT ![r] = NoLoad]
      /\ UNCHANGED << table, mutation >>

(* The SELECT fails: snapshot() throws and the copy stays as it was.        *)
FailLoad(r) ==
  /\ load[r].replica # NoReplica
  /\ load' = [load EXCEPT ![r] = NoLoad]
  /\ UNCHANGED << table, cache, mutation, reasons >>

-----------------------------------------------------------------------------
(* What a replica's copies and loads miss by a mutation committed on p.     *)
MissedBy(q, p) == IF q = p THEN "local" ELSE "foreign"

(* A mutation's statement commits; the rows it leaves are any others.       *)
Commit(w, p, rows) ==
  /\ mutation[w] = NoReplica
  /\ table' = rows
  /\ mutation' = [mutation EXCEPT ![w] = p]
  /\ load' = [r \in Readers |->
       IF load[r].rows = NotLoaded THEN load[r]
       ELSE [load[r] EXCEPT !.missed = @ \union {MissedBy(load[r].replica, p)}]]
  /\ reasons' = [q \in Replicas |->
       IF cache[q] = NotLoaded THEN reasons[q]
       ELSE reasons[q] \union {MissedBy(q, p)}]
  /\ UNCHANGED cache

(* Faulty variant: an update that found no row, or changed nothing, returns *)
(* before it drops the copy, and the caller cannot tell which.              *)
Acknowledge_CopyKept(w) ==
  LET p == mutation[w]
  IN  /\ p # NoReplica
      /\ mutation' = [mutation EXCEPT ![w] = NoReplica]
      /\ UNCHANGED << table, cache, load, reasons >>

(* The await resumes: `cache = null`, and the caller gets its answer.       *)
Acknowledge(w) ==
  LET p == mutation[w]
  IN  /\ p # NoReplica
      /\ cache' = [cache EXCEPT ![p] = NotLoaded]
      /\ reasons' = [reasons EXCEPT ![p] = {}]
      /\ mutation' = [mutation EXCEPT ![w] = NoReplica]
      /\ UNCHANGED << table, load >>

(* The statement committed but its await rejects (a lost connection): the   *)
(* copy is not dropped.                                                     *)
LoseAnswer(w) ==
  LET p == mutation[w]
  IN  /\ p # NoReplica
      /\ mutation' = [mutation EXCEPT ![w] = NoReplica]
      /\ reasons' = [reasons EXCEPT ![p] =
                       IF cache[p] = NotLoaded THEN @ ELSE @ \union {"lost"}]
      /\ load' = [r \in Readers |->
           IF load[r].replica = p /\ "local" \in load[r].missed
             THEN [load[r] EXCEPT !.missed = @ \union {"lost"}] ELSE load[r]]
      /\ UNCHANGED << table, cache >>

(* A replica restarts: its calls are gone, its copy is empty.               *)
Restart(p) ==
  /\ cache' = [cache EXCEPT ![p] = NotLoaded]
  /\ reasons' = [reasons EXCEPT ![p] = {}]
  /\ load' = [r \in Readers |-> IF load[r].replica = p THEN NoLoad ELSE load[r]]
  /\ mutation' = [w \in Writers |-> IF mutation[w] = p THEN NoReplica ELSE mutation[w]]
  /\ UNCHANGED table

CacheNext ==
  \/ \E r \in Readers, p \in Replicas : StartLoad(r, p)
  \/ \E r \in Readers : ReadTable(r) \/ StoreLoad(r) \/ FailLoad(r)
  \/ \E w \in Writers, p \in Replicas, rows \in Contents : Commit(w, p, rows)
  \/ \E w \in Writers : Acknowledge(w) \/ LoseAnswer(w)
  \/ \E p \in Replicas : Restart(p)

CacheSpec == CacheInit /\ [][CacheNext]_cacheVars

-----------------------------------------------------------------------------
(* The mutations on p that have committed and whose await is not over.      *)
Pending(p) == {w \in Writers : mutation[w] = p}

(* A replica's copy differs from the table only for one of four reasons: a  *)
(* mutation has committed here and its invalidation is still to come, one   *)
(* was acknowledged while the SELECT behind the copy was on its way, one's  *)
(* answer was lost, or one ran on another replica (operations.md: "Rule     *)
(* creation invalidates the in-memory cache used by the request path").     *)
StaleHasCause ==
  \A p \in Replicas :
    cache[p] \notin {NotLoaded, table} =>
      Pending(p) # {} \/ reasons[p] \intersect {"overtaken", "lost", "foreign"} # {}
=============================================================================
