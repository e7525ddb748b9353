------------------------------- MODULE ApiKeys ------------------------------
(***************************************************************************)
(* API keys (persistence/src/auth/keys.ts, api/src/plugins/auth.ts and     *)
(* api/src/routes/keys.ts): a bearer token is verified against its row by  *)
(* a slow hash, outside the event loop, and the outcome is remembered by   *)
(* the replica for a while.                                                *)
(*                                                                         *)
(* Verification awaits twice, the row and the hash; a revocation awaits    *)
(* its UPDATE and then drops what the replica it runs on remembers.  The   *)
(* genuine secret of a key is its only token that is ever remembered, so   *)
(* the cache is a sequence of [key, left] in insertion order, left being   *)
(* what its minute has left (below zero: expired).                         *)
(***************************************************************************)
EXTENDS Integers, Sequences

CONSTANTS
  Keys,           (* key ids                                                *)
  KeyReplicas,    (* processes of the API                                   *)
  Verifications,  (* verifications that can be under way                    *)
  Revocations,    (* revocations that can be under way                      *)
  CacheTtl,       (* VERIFY_CACHE_TTL_MS, in clock ticks                    *)
  CacheMax,       (* VERIFY_CACHE_MAX                                       *)
  NoKey, NoKeyReplica

ASSUME ApiKeysAssumption ==
  CacheTtl \in Nat /\ CacheMax \in Nat \ {0} /\ NoKey \notin Keys

VARIABLES
  keyRow,         (* api_keys: keyRow[k]                                    *)
  verifyCache,    (* verifyCache[p]: what replica p remembers               *)
  verification,   (* verification[c]: a call of verifyApiKey                *)
  revocation      (* revocation[w]: a call of revokeApiKey that committed,  *)
                  (* with the keys whose revocation was answered (history)  *)

keyVars == << keyRow, verifyCache, verification, revocation >>

(* Between calls a verification keeps the verdict of the last one.          *)
NoVerification(verdict) ==
  [ stage |-> "idle", key |-> NoKey, genuine |-> FALSE, replica |-> NoKeyReplica,
    verdict |-> verdict ]

NoRevocation(answered) ==
  [key |-> NoKey, replica |-> NoKeyReplica, answered |-> answered]

(* Whether a call of revokeApiKey is under way.                             *)
Revoking(w) == revocation[w].key # NoKey

KeysTypeOK ==
  /\ keyRow \in [Keys -> {"none", "active", "revoked"}]
  /\ \A p \in KeyReplicas :
       /\ Len(verifyCache[p]) <= CacheMax
       /\ \A i, j \in DOMAIN verifyCache[p] :
            /\ verifyCache[p][i].key \in Keys /\ verifyCache[p][i].left \in -1..CacheTtl
            /\ verifyCache[p][i].key = verifyCache[p][j].key => i = j
       /\ \A i \in DOMAIN verifyCache[p] : keyRow[verifyCache[p][i].key] # "none"
  /\ \A c \in Verifications :
       /\ verification[c].stage \in {"idle", "lookup", "hashing"}
       /\ verification[c].verdict \in {"none", "accepted", "refused"}
  /\ \A w \in Revocations :
       /\ revocation[w].key \in Keys \union {NoKey}
       /\ \A k \in revocation[w].answered : keyRow[k] = "revoked"

KeysInit ==
  /\ keyRow = [k \in Keys |-> "none"]
  /\ verifyCache = [p \in KeyReplicas |-> << >>]
  /\ verification = [c \in Verifications |-> NoVerification("none")]
  /\ revocation = [w \in Revocations |-> NoRevocation({})]

-----------------------------------------------------------------------------
(* POST /v1/keys: createApiKey hashes the new secret and inserts the row.   *)
CreateKey(k) ==
  /\ keyRow[k] = "none"
  /\ keyRow' = [keyRow EXCEPT ![k] = "active"]
  /\ UNCHANGED << verifyCache, verification, revocation >>

(* The entries without that of key k, the others in their order.            *)
Without(entries, k) ==
  LET places == {i \in DOMAIN entries : entries[i].key = k}
      place == CHOOSE i \in places : TRUE
  IN  IF places = {} THEN entries
      ELSE [i \in 1..(Len(entries) - 1) |-> entries[IF i < place THEN i ELSE i + 1]]

(* verifyCacheGet: an entry is good up to and at its last instant.          *)
Accepts(p, k) ==
  \E i \in DOMAIN verifyCache[p] : verifyCache[p][i].key = k /\ verifyCache[p][i].left >= 0

(* Faulty variant: a hit starts the minute again.                           *)
Hit_Renews(p, k) ==
  verifyCache' = [verifyCache EXCEPT ![p] =
    [i \in DOMAIN @ |-> IF @[i].key = k THEN [@[i] EXCEPT !.left = CacheTtl] ELSE @[i]]]

Hit(p, k) == UNCHANGED verifyCache

(* The onRequest hook calls verifyApiKey: a remembered token is accepted at *)
(* once, an expired entry is dropped, any other token is looked up.         *)
Present(c, p, k, genuine) ==
  /\ verification[c].stage = "idle"
  /\ \/ /\ genuine /\ Accepts(p, k)
        /\ verification' = [verification EXCEPT ![c] = NoVerification("accepted")]
        /\ Hit(p, k)
     \/ /\ ~(genuine /\ Accepts(p, k))
        /\ verification' = [verification EXCEPT ![c] =
             [ stage |-> "lookup", key |-> k, genuine |-> genuine, replica |-> p,
               verdict |-> "none" ]]
        /\ verifyCache' = [verifyCache EXCEPT ![p] = IF genuine THEN Without(@, k) ELSE @]
  /\ UNCHANGED << keyRow, revocation >>

(* The SELECT: no row, or a revoked one, is a 401.                          *)
LookUp(c) ==
  /\ verification[c].stage = "lookup"
  /\ verification' = [verification EXCEPT ![c] =
       IF keyRow[verification[c].key] = "active" THEN [@ EXCEPT !.stage = "hashing"]
                                                 ELSE NoVerification("refused")]
  /\ UNCHANGED << keyRow, verifyCache, revocation >>

(* Faulty variant: an entry is added to a full cache.                       *)
Remembered_Unbounded(entries, k) ==
  Append(Without(entries, k), [key |-> k, left |-> CacheTtl])

(* verifyCachePut: a full cache forgets its oldest entry, even to renew one;*)
(* a key that stays keeps its place.                                        *)
Remembered(entries, k) ==
  LET room == IF Len(entries) >= CacheMax THEN Tail(entries) ELSE entries
      fresh == [key |-> k, left |-> CacheTtl]
  IN  IF \E i \in DOMAIN room : room[i].key = k
        THEN [i \in DOMAIN room |-> IF room[i].key = k THEN fresh ELSE room[i]]
        ELSE Append(room, fresh)

(* The hash is verified: the row that was read may be revoked by now.       *)
HashVerified(c) ==
  LET v == verification[c]
  IN  /\ v.stage = "hashing"
      /\ verification' = [verification EXCEPT ![c] =
           NoVerification(IF v.genuine THEN "accepted" ELSE "refused")]
      /\ verifyCache' = IF v.genuine
           THEN [verifyCache EXCEPT ![v.replica] = Remembered(@, v.key)] ELSE verifyCache
      /\ UNCHANGED << keyRow, revocation >>

-----------------------------------------------------------------------------
(* DELETE /v1/keys/:keyId: the UPDATE of revokeApiKey commits ...           *)
Revoke(w, p, k) ==
  /\ ~Revoking(w)
  /\ keyRow' = [keyRow EXCEPT ![k] = IF @ = "active" THEN "revoked" ELSE @]
  /\ revocation' = [revocation EXCEPT ![w].key = k, ![w].replica = p]
  /\ UNCHANGED << verifyCache, verification >>

(* ... its await resumes, and invalidateVerifyCache drops the key here: the *)
(* answer is a 204, whether or not there was such a key ...                 *)
Revoked(w) ==
  LET r == revocation[w]
  IN  /\ Revoking(w)
      /\ verifyCache' = [verifyCache EXCEPT ![r.replica] = Without(@, r.key)]
      /\ revocation' = [revocation EXCEPT ![w] =
           NoRevocation(r.answered \union {k \in {r.key} : keyRow[k] = "revoked"})]
      /\ UNCHANGED << keyRow, verification >>

(* ... or rejects after the commit, and nothing is dropped.                 *)
RevocationLost(w) ==
  /\ Revoking(w)
  /\ revocation' = [revocation EXCEPT ![w] = NoRevocation(@.answered)]
  /\ UNCHANGED << keyRow, verifyCache, verification >>

(* Time passes for every remembered token.                                  *)
EntriesAge ==
  /\ verifyCache' = [p \in KeyReplicas |->
       [i \in DOMAIN verifyCache[p] |->
         [verifyCache[p][i] EXCEPT !.left = IF @ < 0 THEN @ ELSE @ - 1]]]
  /\ UNCHANGED << keyRow, verification, revocation >>

KeysNext ==
  \/ \E k \in Keys : CreateKey(k)
  \/ \E c \in Verifications, p \in KeyReplicas, k \in Keys, genuine \in BOOLEAN :
       Present(c, p, k, genuine)
  \/ \E c \in Verifications : LookUp(c) \/ HashVerified(c)
  \/ \E w \in Revocations, p \in KeyReplicas, k \in Keys : Revoke(w, p, k)
  \/ \E w \in Revocations : Revoked(w) \/ RevocationLost(w)
  \/ EntriesAge

(* The clock runs and what a verification awaits comes back.                *)
KeysFairness ==
  /\ WF_keyVars(EntriesAge)
  /\ \A c \in Verifications : WF_keyVars(LookUp(c) \/ HashVerified(c))

-----------------------------------------------------------------------------
(* A revocation, once made for good, takes effect: from some moment on no   *)
(* replica accepts the revoked key from memory, although the invalidation   *)
(* reaches one replica only, may be lost, and a verification that had read  *)
(* the row before can put the key back behind it.                           *)
RevocationTakesEffect ==
  \A k \in Keys : <>[](keyRow[k] = "revoked") =>
                    <>[](\A p \in KeyReplicas : ~Accepts(p, k))

(* The promise of the operations guide (docs/operations.md:482), that a     *)
(* revocation is effective on the next request: once it was answered, no    *)
(* request with the key is accepted from memory.                            *)
RevocationIsImmediate ==
  \A w \in Revocations : \A k \in revocation[w].answered :
    \A p \in KeyReplicas : ~Accepts(p, k)
=============================================================================
