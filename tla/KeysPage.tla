------------------------------- MODULE KeysPage ------------------------------
(***************************************************************************)
(* The console's page of API keys: its list, the dialog that creates a key *)
(* and shows its secret once, and the dialog that revokes one.             *)
(*                                                                         *)
(* A dialog that is cancelled while its call is under way does not stop    *)
(* the call, and what the page does with the answer does not ask whether   *)
(* the dialog is still there.                                              *)
(***************************************************************************)
EXTENDS Naturals, FiniteSets

CONSTANTS
  PageKeys,       (* the keys that may be created                           *)
  ListedFirst,    (* the keys there are when the page mounts                *)
  NoPageKey,
  MaxDialogs      (* bound on the dialogs opened                            *)

ASSUME KeysPageAssumption == NoPageKey \notin PageKeys /\ MaxDialogs \in Nat

VARIABLES
  serverKeys,     (* serverKeys[k] \in {"none", "active", "revoked"}        *)
  keyList,        (* [status, rows]: what the page lists                    *)
  listing,        (* the latest list call: [stage, rows]                    *)
  createDialog,   (* [open, busy, secret, ack, id]; id tells dialogs apart  *)
  creations,      (* calls under way: [key, id, stage]                      *)
  revokeDialog,   (* [target, busy, id]                                     *)
  revocations,    (* calls under way: [key, id, stage]                      *)
  dialogs,        (* dialogs opened so far                                  *)
  seen            (* a history: [keys, overtaken, uncertain]                *)

keysPageVars == << serverKeys, keyList, listing, createDialog, creations, revokeDialog,
                   revocations, dialogs, seen >>

NoListing == [stage |-> "idle", rows |-> serverKeys]
Closed == [open |-> FALSE, busy |-> FALSE, secret |-> NoPageKey, ack |-> FALSE, id |-> 0]
NoTarget == [target |-> NoPageKey, busy |-> FALSE, id |-> 0]

KeysPageTypeOK ==
  /\ serverKeys \in [PageKeys -> {"none", "active", "revoked"}]
  /\ keyList.status \in {"loading", "ready", "error"}
  /\ listing.stage \in {"idle", "sent", "read"}
  /\ (keyList.status = "loading") = (listing.stage # "idle")
  /\ createDialog.secret \in PageKeys \union {NoPageKey}
  /\ revokeDialog.target \in PageKeys \union {NoPageKey}
  /\ dialogs \in 0..MaxDialogs

KeysPageInit ==
  /\ serverKeys = [k \in PageKeys |-> IF k \in ListedFirst THEN "active" ELSE "none"]
  /\ keyList = [status |-> "loading", rows |-> serverKeys]
  /\ listing = [stage |-> "sent", rows |-> serverKeys]
  /\ createDialog = Closed /\ creations = {}
  /\ revokeDialog = NoTarget /\ revocations = {}
  /\ dialogs = 0
  /\ seen = [keys |-> ListedFirst, overtaken |-> FALSE, uncertain |-> FALSE]

-----------------------------------------------------------------------------
(* The list.  refresh supersedes a call under way: DataHooks has what keeps *)
(* the answer of that one off the page.                                     *)
Refreshed ==
  /\ keyList' = [keyList EXCEPT !.status = "loading"]
  /\ listing' = [stage |-> "sent", rows |-> serverKeys]

ListRead ==
  /\ listing.stage = "sent"
  /\ listing' = [stage |-> "read", rows |-> serverKeys]
  /\ UNCHANGED << serverKeys, keyList, createDialog, creations, revokeDialog, revocations,
                  dialogs, seen >>

ListAnswered(ok) ==
  /\ listing.stage = IF ok THEN "read" ELSE "sent"
  /\ keyList' = IF ok THEN [status |-> "ready", rows |-> listing.rows]
                ELSE [keyList EXCEPT !.status = "error"]
  /\ listing' = [listing EXCEPT !.stage = "idle"]
  /\ UNCHANGED << serverKeys, createDialog, creations, revokeDialog, revocations,
                  dialogs, seen >>

Retry ==
  /\ keyList.status = "error" /\ ~createDialog.open /\ revokeDialog.target = NoPageKey
  /\ Refreshed
  /\ UNCHANGED << serverKeys, createDialog, creations, revokeDialog, revocations,
                  dialogs, seen >>

-----------------------------------------------------------------------------
(* A modal dialog covers the page: neither opens over the other.            *)
NothingOpen == ~createDialog.open /\ revokeDialog.target = NoPageKey

OpenDialog == NothingOpen /\ dialogs < MaxDialogs /\ dialogs' = dialogs + 1

(* A secret that has come in the meantime is shown at once.                 *)
NewKey ==
  /\ OpenDialog
  /\ createDialog' = [createDialog EXCEPT !.open = TRUE, !.busy = FALSE, !.ack = FALSE,
                                          !.id = dialogs']
  /\ UNCHANGED << serverKeys, keyList, listing, creations, revokeDialog, revocations, seen >>

FormShown == createDialog.open /\ createDialog.secret = NoPageKey
SecretShown == createDialog.open /\ createDialog.secret # NoPageKey

SubmitKey ==
  /\ FormShown /\ ~createDialog.busy
  /\ \E k \in PageKeys :
       /\ serverKeys[k] = "none" /\ k \notin {c.key : c \in creations}
       /\ creations' = creations \union {[key |-> k, id |-> createDialog.id, stage |-> "sent"]}
  /\ createDialog' = [createDialog EXCEPT !.busy = TRUE]
  /\ seen' = [seen EXCEPT !.overtaken = @ \/ creations # {}]
  /\ UNCHANGED << serverKeys, keyList, listing, revokeDialog, revocations, dialogs >>

(* Cancel, the close button, Escape or a click beside the dialog: also      *)
(* while the call is under way.                                             *)
CancelCreate ==
  /\ FormShown
  /\ createDialog' = [createDialog EXCEPT !.open = FALSE]
  /\ UNCHANGED << serverKeys, keyList, listing, creations, revokeDialog, revocations,
                  dialogs, seen >>

ServerCreates(c) ==
  /\ c.stage = "sent"
  /\ serverKeys' = [serverKeys EXCEPT ![c.key] = "active"]
  /\ creations' = (creations \ {c}) \union {[c EXCEPT !.stage = "done"]}
  /\ UNCHANGED << keyList, listing, createDialog, revokeDialog, revocations, dialogs, seen >>

(* The answer's secret is kept, whether or not the dialog is open.          *)
Created(c) ==
  /\ c.stage = "done"
  /\ createDialog' = [createDialog EXCEPT !.secret = c.key]
  /\ creations' = creations \ {c}
  /\ UNCHANGED << serverKeys, keyList, listing, revokeDialog, revocations, dialogs, seen >>

(* The call fails: before the server ran it, or its answer is lost.         *)
CreateFailed(c) ==
  /\ creations' = creations \ {c}
  /\ createDialog' = [createDialog EXCEPT !.busy = @ /\ c.id # createDialog.id]
  /\ seen' = [seen EXCEPT !.uncertain = @ \/ c.stage = "done",
                          !.keys = IF c.stage = "done" THEN @ \union {c.key} ELSE @]
  /\ UNCHANGED << serverKeys, keyList, listing, revokeDialog, revocations, dialogs >>

(* "I have copied the secret": the box can be ticked and cleared again.     *)
Acknowledge ==
  /\ SecretShown
  /\ createDialog' = [createDialog EXCEPT !.ack = ~@]
  /\ UNCHANGED << serverKeys, keyList, listing, creations, revokeDialog, revocations,
                  dialogs, seen >>

(* The panel has no close button, and Escape does not close it.             *)
MayClose == SecretShown /\ createDialog.ack

Done ==
  /\ MayClose
  /\ seen' = IF createDialog.ack THEN [seen EXCEPT !.keys = @ \union {createDialog.secret}]
             ELSE seen
  /\ createDialog' = [createDialog EXCEPT !.open = FALSE, !.secret = NoPageKey]
  /\ Refreshed
  /\ UNCHANGED << serverKeys, creations, revokeDialog, revocations, dialogs >>

-----------------------------------------------------------------------------
(* Only a key that is listed as active has the button.                      *)
ChooseRevoke(k) ==
  /\ OpenDialog /\ keyList.status = "ready" /\ keyList.rows[k] = "active"
  /\ revokeDialog' = [target |-> k, busy |-> FALSE, id |-> dialogs']
  /\ UNCHANGED << serverKeys, keyList, listing, createDialog, creations, revocations, seen >>

ConfirmRevoke ==
  /\ revokeDialog.target # NoPageKey /\ ~revokeDialog.busy
  /\ revokeDialog' = [revokeDialog EXCEPT !.busy = TRUE]
  /\ revocations' = revocations \union
       {[key |-> revokeDialog.target, id |-> revokeDialog.id, stage |-> "sent"]}
  /\ UNCHANGED << serverKeys, keyList, listing, createDialog, creations, dialogs, seen >>

CancelRevoke ==
  /\ revokeDialog.target # NoPageKey
  /\ revokeDialog' = NoTarget
  /\ UNCHANGED << serverKeys, keyList, listing, createDialog, creations, revocations,
                  dialogs, seen >>

ServerRevokes(c) ==
  /\ c.stage = "sent"
  /\ serverKeys' = [serverKeys EXCEPT ![c.key] = "revoked"]
  /\ revocations' = (revocations \ {c}) \union {[c EXCEPT !.stage = "done"]}
  /\ UNCHANGED << keyList, listing, createDialog, creations, revokeDialog, dialogs, seen >>

(* The dialog that is open closes, also one for another key.                *)
RevokeAnswered(c) ==
  /\ c.stage = "done"
  /\ revocations' = revocations \ {c}
  /\ revokeDialog' = NoTarget
  /\ Refreshed
  /\ UNCHANGED << serverKeys, createDialog, creations, dialogs, seen >>

RevokeFailed(c) ==
  /\ revocations' = revocations \ {c}
  /\ revokeDialog' = [revokeDialog EXCEPT !.busy = @ /\ c.id # revokeDialog.id]
  /\ seen' = [seen EXCEPT !.uncertain = @ \/ c.stage = "done"]
  /\ UNCHANGED << serverKeys, keyList, listing, createDialog, creations, dialogs >>

KeysPageNext ==
  \/ ListRead \/ Retry \/ \E ok \in BOOLEAN : ListAnswered(ok)
  \/ NewKey \/ SubmitKey \/ CancelCreate \/ Acknowledge \/ Done
  \/ \E c \in creations : ServerCreates(c) \/ Created(c) \/ CreateFailed(c)
  \/ \E k \in PageKeys : ChooseRevoke(k)
  \/ ConfirmRevoke \/ CancelRevoke
  \/ \E c \in revocations : ServerRevokes(c) \/ RevokeAnswered(c) \/ RevokeFailed(c)

-----------------------------------------------------------------------------
(* No key becomes active without its secret: it is still to be answered, is *)
(* kept for the dialog, or was copied, unless the call's answer was lost or *)
(* a second key was asked for before the first one came (KeysView.tsx).     *)
SecretsAreHandedOver ==
  seen.overtaken \/
    \A k \in PageKeys :
      serverKeys[k] # "none" =>
        \/ k \in seen.keys \/ k = createDialog.secret
        \/ k \in {c.key : c \in creations}

(* When no call is under way and no secret waits, a list that is shown is   *)
(* the server's: every change the page made, whatever dialogs were cancelled*)
(* meanwhile, was listed again (KeysView.tsx, useKeys.ts).                  *)
KeyListIsCurrent ==
  (/\ keyList.status = "ready" /\ ~seen.uncertain
   /\ creations = {} /\ revocations = {} /\ createDialog.secret = NoPageKey)
    => keyList.rows = serverKeys
=============================================================================
