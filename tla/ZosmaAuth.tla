------------------------------ MODULE ZosmaAuth ------------------------------
(***************************************************************************)
(* The sign-in to the Zosma router (apps/web/lib/zosma-auth and the routes *)
(* under apps/web/app/api/auth/zosma): two files that all requests share,  *)
(* the pending transaction of a browser's sign-in and the provider's entry *)
(* of models.json, read before and written after the answers of two        *)
(* servers.                                                                *)
(*                                                                         *)
(* A request runs without a break from one answer of a server to its next  *)
(* request: the awaits of a save (reload, getAvailable) are of promises    *)
(* that are settled in the same turn (productionDeps), so a save is Quiet  *)
(* for the others.  Its steps are told apart because each write may fail   *)
(* and the server may stop between them.                                   *)
(***************************************************************************)


CONSTANTS
  Request, \* requests under way at one time (bound)
  Key,     \* router keys
  Model,   \* models a catalog may hold
  Blank,   \* those whose id is blank
  State,   \* states of sign-ins (bound: how many are in use at once)
  None

ASSUME ZosmaAuthAssumption == /\ None \notin Key \cup State \cup Request
                              /\ Blank \subseteq Model

VARIABLES
  pending, \* state of the transaction on disk; an expired one is as none
  entry,   \* the provider's entry in models.json: its key and its models
  request, \* what a request awaits, or how it ended
  save,    \* the save that is under way
  cookies, \* keys that a browser holds a session cookie for
  gone,    \* (ghost) keys that were disconnected while no request held them, and not got since
  kept     \* (ghost) the entry that the last request to succeed left

vars == <<pending, entry, request, save, cookies, gone, kept>>

Provider == [key : Key, models : SUBSET (Model \ Blank)]

NoProvider == [key |-> None, models |-> {}]

Entry == Provider \cup {NoProvider}

NoSave == [by |-> None, step |-> "none", prior |-> NoProvider, models |-> {}]

Ended == {"none", "ok", "error"}

RequestType ==
  [phase : Ended \cup {"authorize", "token", "catalog", "revoke"},
   op : {"none", "start", "complete", "refresh", "paste", "disconnect"},
   key : Key \cup {None}]

TypeOK ==
  /\ pending \in State \cup {None}
  /\ entry \in Entry
  /\ request \in [Request -> RequestType]
  /\ save \in [by : Request, step : {"verify", "restore"}, prior : Entry, models : SUBSET Model]
              \cup {NoSave}
  /\ cookies \in SUBSET Key
  /\ gone \in SUBSET Key
  /\ kept \in Entry

Idle == [phase |-> "none", op |-> "none", key |-> None]

Init ==
  /\ pending = None /\ entry = NoProvider /\ cookies = {} /\ gone = {}
  /\ save = NoSave /\ kept = NoProvider
  /\ request = [r \in Request |-> Idle]

Configured == entry # NoProvider

Quiet == save = NoSave

\* Keys that a request under way got or read, and may write.
Held == {request[r].key : r \in {x \in Request : request[x].phase = "catalog"}}

Begins(r, op, phase, key) ==
  /\ request[r].phase \in Ended
  /\ request' = [request EXCEPT ![r] = [phase |-> phase, op |-> op, key |-> key]]

Ends(r, outcome) == request' = [request EXCEPT ![r] = [Idle EXCEPT !.phase = outcome]]

\* What a failure does to the transaction: a refusal forgets it, a lost answer does not.
Forgets(refused) == pending' = IF refused THEN None ELSE pending

(***************************************************************************)
(* Signing in by the browser.                                              *)
(***************************************************************************)

\* startZosmaAuth(): the transaction is on disk before the server is asked.
Start(r, state) ==
  /\ state # pending
  /\ Begins(r, "start", "authorize", None)
  /\ pending' = state
  /\ UNCHANGED <<entry, save, cookies, gone, kept>>

\* The browser is sent to the server, or nothing has started.
StartAnswered(r) ==
  /\ request[r].phase = "authorize"
  /\ \/ Ends(r, "ok") /\ UNCHANGED pending
     \/ \E refused \in BOOLEAN : Ends(r, "error") /\ Forgets(refused)
  /\ UNCHANGED <<entry, save, cookies, gone, kept>>

\* completeZosmaAuth(): a browser comes back with a state.
Complete(r, state) ==
  /\ pending # None
  /\ \/ pending = state /\ Begins(r, "complete", "token", None) /\ UNCHANGED pending
     \/ pending # state /\ request[r].phase \in Ended /\ Ends(r, "error") /\ pending' = None
  /\ UNCHANGED <<entry, save, cookies, gone, kept>>

\* The code is exchanged for a key, whose catalog is asked for.
TokenAnswered(r) ==
  /\ request[r].phase = "token"
  /\ \/ \E key \in Key : /\ request' = [request EXCEPT ![r].phase = "catalog", ![r].key = key]
                         /\ gone' = gone \ {key}
        /\ UNCHANGED pending
     \/ \E refused \in BOOLEAN : Ends(r, "error") /\ Forgets(refused) /\ UNCHANGED gone
  /\ UNCHANGED <<entry, save, cookies, kept>>

(***************************************************************************)
(* The other requests.                                                     *)
(***************************************************************************)

\* refreshZosmaModels(): the key is read before the catalog is asked for.
Refresh(r) ==
  /\ Configured
  /\ Begins(r, "refresh", "catalog", entry.key)
  /\ UNCHANGED <<pending, entry, save, cookies, gone, kept>>

\* authenticateWithKey()
Paste(r, key) ==
  /\ Begins(r, "paste", "catalog", key)
  /\ gone' = gone \ {key}
  /\ UNCHANGED <<pending, entry, save, cookies, kept>>

\* disconnectZosmaAuth(): the server is asked to revoke the key that is there.
Disconnect(r) ==
  /\ Configured
  /\ Begins(r, "disconnect", "revoke", entry.key)
  /\ UNCHANGED <<pending, entry, save, cookies, gone, kept>>

\* Mutant: without the server's consent the entry stays.
DisconnectAnswered_Asks(r) ==
  /\ request[r].phase = "revoke"
  /\ Ends(r, "ok")
  /\ entry' \in {entry, NoProvider} /\ kept' = entry'
  /\ gone' = IF Configured /\ entry.key \notin Held THEN gone \cup {entry.key} ELSE gone
  /\ UNCHANGED <<pending, save, cookies>>

\* Whatever it answers, the entry that is there now is removed, unless the file
\* cannot be written.
DisconnectAnswered(r) ==
  /\ request[r].phase = "revoke"
  /\ \/ /\ Ends(r, "ok")
        /\ entry' = NoProvider /\ kept' = NoProvider
        /\ gone' = IF Configured /\ entry.key \notin Held THEN gone \cup {entry.key} ELSE gone
     \/ Ends(r, "error") /\ UNCHANGED <<entry, kept, gone>>
  /\ UNCHANGED <<pending, save, cookies>>

\* cancelZosmaAuth(), or ten minutes have passed.
Cancel ==
  /\ pending # None
  /\ pending' = None
  /\ UNCHANGED <<entry, request, save, cookies, gone, kept>>

(***************************************************************************)
(* The answer with the catalog, and the save.                              *)
(***************************************************************************)

\* Mutant: a pasted key's catalog replaces what is there.
Catalog_Replaces(r, rows) == rows

\* A pasted key sees a part of the models: what is there now is kept.
Catalog(r, rows) ==
  IF request[r].op = "paste" THEN rows \cup entry.models ELSE rows

\* upsertProvider(), with the key that r got before it asked for the catalog:
\* models whose id is blank are not written (writeModelsConfig()).
Upserted(r, models) == [key |-> request[r].key, models |-> models \ Blank]

Saving(r, step, prior, models) ==
  save' = [by |-> r, step |-> step, prior |-> prior, models |-> models]

\* Mutant: the snapshot is taken after the write.
Write_SnapshotLate(r) ==
  /\ request[r].phase = "catalog"
  /\ \E rows \in SUBSET Model \ {{}} :
       LET models == Catalog(r, rows)
       IN  \/ entry' = Upserted(r, models) /\ Saving(r, "verify", entry', models)
           \/ UNCHANGED entry /\ Saving(r, "restore", entry, models)
  /\ UNCHANGED <<pending, request, cookies, gone, kept>>

\* The catalog is there: a snapshot is taken of the entry and the models are
\* written, or the file cannot be written.
Write(r) ==
  /\ request[r].phase = "catalog"
  /\ \E rows \in SUBSET Model \ {{}} :
       LET models == Catalog(r, rows)
       IN  \/ entry' = Upserted(r, models) /\ Saving(r, "verify", entry, models)
           \/ UNCHANGED entry /\ Saving(r, "restore", entry, models)
  /\ UNCHANGED <<pending, request, cookies, gone, kept>>

\* The file is read again.  With all the models there the request has succeeded;
\* else the snapshot has to be brought back.
Verify ==
  /\ save.step = "verify"
  /\ \/ /\ save.models \subseteq entry.models
        /\ Ends(save.by, "ok") /\ save' = NoSave /\ kept' = entry
        /\ pending' = IF request[save.by].op = "complete" THEN None ELSE pending
        /\ cookies' = IF request[save.by].op = "refresh" THEN cookies
                                                        ELSE cookies \cup {request[save.by].key}
     \/ /\ ~(save.models \subseteq entry.models)
        /\ save' = [save EXCEPT !.step = "restore"]
        /\ UNCHANGED <<pending, request, cookies, kept>>
  /\ UNCHANGED <<entry, gone>>

\* restoreProvider(), which may fail as well: what is in the file then stays.
\* The request ends with an error, and the transaction stays.
Restore ==
  /\ save.step = "restore"
  /\ \/ entry' = save.prior /\ UNCHANGED kept
     \/ UNCHANGED entry /\ kept' = entry
  /\ Ends(save.by, "error") /\ save' = NoSave
  /\ UNCHANGED <<pending, cookies, gone>>

\* There is no catalog: it is refused or empty, or the answer is lost.
CatalogFails(r) ==
  /\ request[r].phase = "catalog"
  /\ Ends(r, "error")
  /\ \E refused \in BOOLEAN : Forgets(refused /\ request[r].op = "complete")
  /\ UNCHANGED <<entry, save, cookies, gone, kept>>

\* The server stops: files and cookies stay, also what a save has written.
Restart ==
  /\ request' = [r \in Request |-> Idle]
  /\ save' = NoSave /\ kept' = entry
  /\ UNCHANGED <<pending, entry, cookies, gone>>

-----------------------------------------------------------------------------

Handler(r) ==
  \/ StartAnswered(r) \/ TokenAnswered(r) \/ Refresh(r) \/ Disconnect(r)
  \/ DisconnectAnswered(r) \/ Write(r) \/ CatalogFails(r)
  \/ \E state \in State : Start(r, state) \/ Complete(r, state)
  \/ \E key \in Key : Paste(r, key)

Next ==
  \/ Quiet /\ (Cancel \/ \E r \in Request : Handler(r))
  \/ Verify \/ Restore
  \/ Restart

Spec == Init /\ [][Next]_vars

(***************************************************************************)
(* Properties.                                                             *)
(***************************************************************************)

\* A key that was disconnected opens nothing any more: no cookie of it is valid (session.ts:7-8),
\* until somebody signs in with it again, whatever was answered to others in between.  A request
\* that had read the key before may write it back, so keys that one holds are exempt.
DisconnectIsFinal == \A key \in cookies \cap gone : entry.key # key

\* Pasting a key never deletes models (index.ts:503-506): nothing that was saved while its catalog
\* was on its way is missing when the paste is done, has failed and is rolled back or not, or is
\* cut short.
PasteKeepsModels ==
  [][\A r \in Request : request[r].op = "paste" =>
       LET before == IF save.by = r THEN save.prior ELSE entry
       IN  r \in {save.by, save'.by} => before.models \subseteq entry'.models]_vars

\* Between saves the file holds what the last request to succeed left there: one that ends with an
\* error leaves no trace of its write, and takes nothing away that others saved while it waited
\* (index.ts:243-269).  Not so when the rollback fails too, or the server stops within a save:
\* what is in the file then counts as kept.
ErrorLeavesNoTrace == Quiet => entry = kept
=============================================================================
