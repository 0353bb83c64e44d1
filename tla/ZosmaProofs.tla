----------------------------- MODULE ZosmaProofs -----------------------------
(***************************************************************************)
(* Theorems about the sign-in to the router, for any numbers of requests,  *)
(* keys, models and states.                                                *)
(*                                                                         *)
(* A disconnected key opens nothing because it is nowhere any more: not in *)
(* the entry, not with a request that could write it there, and not in the *)
(* snapshot of a save.  An error leaves no trace because that snapshot is  *)
(* what the last request to succeed left, whoever that was.                *)
(***************************************************************************)
EXTENDS ZosmaAuth, TLAPS

\* Who awaits a catalog has a key.
KeyInHand == \A r \in Request : request[r].phase = "catalog" => request[r].key \in Key

NowhereLeft ==
  /\ entry.key \notin gone
  /\ save.prior.key \notin gone
  /\ \A r \in Request : request[r].phase = "catalog" => request[r].key \notin gone

\* The save under way is that of a request with a catalog, and can go back.
Saves(rq, sv, en, kp) ==
  /\ sv = NoSave => en = kp
  /\ sv # NoSave => /\ rq[sv.by].phase = "catalog" /\ sv.prior = kp
                    /\ rq[sv.by].op = "paste" => sv.prior.models \subseteq en.models

SaveFits == Saves(request, save, entry, kept)

Inv == TypeOK /\ KeyInHand /\ NowhereLeft /\ SaveFits

LEMMA NoSaveFacts ==
  /\ NoSave.by = None /\ NoSave.step = "none" /\ NoSave.prior = NoProvider
  /\ NoProvider.key = None /\ NoProvider.models = {} /\ NoProvider \in Entry
BY DEF NoSave, NoProvider, Entry

(* How a request begins and ends.                                          *)
LEMMA BeginFacts ==
  ASSUME TypeOK, NEW r \in Request,
         NEW op \in {"start", "complete", "refresh", "paste", "disconnect"},
         NEW phase \in {"authorize", "token", "catalog", "revoke"}, NEW key \in Key \cup {None},
         Begins(r, op, phase, key)
  PROVE  /\ request' \in [Request -> RequestType]
         /\ request'[r].phase = phase /\ request'[r].key = key
         /\ request[r].phase \in Ended
         /\ \A x \in Request \ {r} : request'[x] = request[x]
BY DEF Begins, TypeOK, RequestType

LEMMA EndFacts ==
  ASSUME TypeOK, NEW r \in Request, NEW outcome \in {"ok", "error"}, Ends(r, outcome)
  PROVE  /\ request' \in [Request -> RequestType]
         /\ request'[r].phase = outcome
         /\ \A x \in Request \ {r} : request'[x] = request[x]
BY DEF Ends, Idle, TypeOK, RequestType, Ended

LEMMA ForgetFacts ==
  ASSUME TypeOK, NEW refused, Forgets(refused)
  PROVE  pending' \in State \cup {None}
BY DEF Forgets, TypeOK

(* An entry that is written has the key of the request.                    *)
LEMMA UpsertedFacts ==
  ASSUME Inv, NEW r \in Request, request[r].phase = "catalog",
         NEW rows \in SUBSET Model \ {{}}
  PROVE  /\ Catalog(r, rows) \in SUBSET Model
         /\ Upserted(r, Catalog(r, rows)) \in Provider
         /\ Upserted(r, Catalog(r, rows)).key = request[r].key
         /\ request[r].op = "paste" =>
              entry.models \subseteq Upserted(r, Catalog(r, rows)).models
<1>1. entry.models \in SUBSET (Model \ Blank)
  BY DEF Inv, TypeOK, Entry, Provider, NoProvider
<1>2. Catalog(r, rows) \in SUBSET Model
  BY <1>1 DEF Catalog
<1>3. request[r].op = "paste" => entry.models \subseteq Catalog(r, rows) \ Blank
  BY <1>1 DEF Catalog
<1> QED BY <1>2, <1>3 DEF Upserted, Provider, Inv, KeyInHand

(* One lemma per handler.                                                  *)

\* A request goes on, between saves, and the entry stays as it was kept.
LEMMA StepKeeps ==
  ASSUME Inv, Quiet, request' \in [Request -> RequestType], pending' \in State \cup {None},
         gone' \in SUBSET Key, UNCHANGED <<entry, save, cookies, kept>>, gone' \subseteq gone,
         \A x \in Request : request'[x].phase = "catalog" =>
           request'[x].key \in Key /\ request'[x].key \notin gone'
  PROVE  Inv'
BY DEF Inv, TypeOK, KeyInHand, NowhereLeft, SaveFits, Saves, Quiet

\* A request ends, and with it its save if it had one.
LEMMA EndedKeeps ==
  ASSUME Inv, NEW r \in Request, NEW outcome \in {"ok", "error"}, Ends(r, outcome),
         pending' \in State \cup {None}, cookies' \in SUBSET Key, gone' \in SUBSET Key,
         entry' \in Entry, entry' = kept', save' = NoSave, entry'.key \notin gone',
         \A x \in Request : request[x].phase = "catalog" => request[x].key \notin gone'
  PROVE  Inv'
<1>1. /\ request' \in [Request -> RequestType] /\ request'[r].phase \in {"ok", "error"}
      /\ \A x \in Request \ {r} : request'[x] = request[x]
  BY EndFacts DEF Inv
<1>2. None \notin gone'
  BY ZosmaAuthAssumption
<1> QED
  BY <1>1, <1>2, NoSaveFacts DEF Inv, TypeOK, KeyInHand, NowhereLeft, SaveFits, Saves

LEMMA StartKeeps ==
  ASSUME Inv, Quiet, NEW r \in Request, NEW state \in State, Start(r, state)
  PROVE  Inv'
<1>1. Begins(r, "start", "authorize", None)
  BY DEF Start
<1>2. /\ request' \in [Request -> RequestType] /\ request'[r].phase = "authorize"
      /\ \A x \in Request \ {r} : request'[x] = request[x]
  BY <1>1, BeginFacts DEF Inv
<1> QED BY <1>2, StepKeeps DEF Start, Inv, TypeOK, KeyInHand, NowhereLeft

LEMMA AnsweredKeeps ==
  ASSUME Inv, Quiet, NEW r \in Request, StartAnswered(r) \/ CatalogFails(r)
  PROVE  Inv'
<1>1. /\ Ends(r, "ok") \/ Ends(r, "error")
      /\ pending' \in State \cup {None}
      /\ UNCHANGED <<entry, save, cookies, gone, kept>>
  BY DEF StartAnswered, CatalogFails, Forgets, Inv, TypeOK
<1> QED BY <1>1, EndedKeeps DEF Inv, TypeOK, NowhereLeft, SaveFits, Saves, Quiet

LEMMA CompleteKeeps ==
  ASSUME Inv, Quiet, NEW r \in Request, NEW state \in State, Complete(r, state)
  PROVE  Inv'
<1>1. CASE Begins(r, "complete", "token", None) /\ UNCHANGED pending
  <2>1. /\ request' \in [Request -> RequestType] /\ request'[r].phase = "token"
        /\ \A x \in Request \ {r} : request'[x] = request[x]
    BY <1>1, BeginFacts DEF Inv
  <2> QED BY <1>1, <2>1, StepKeeps DEF Complete, Inv, TypeOK, KeyInHand, NowhereLeft
<1>2. CASE Ends(r, "error") /\ pending' = None
  BY <1>2, EndedKeeps DEF Complete, Inv, TypeOK, NowhereLeft, SaveFits, Saves, Quiet
<1> QED BY <1>1, <1>2 DEF Complete

LEMMA TokenAnsweredKeeps ==
  ASSUME Inv, Quiet, NEW r \in Request, TokenAnswered(r)
  PROVE  Inv'
<1>1. ASSUME NEW key \in Key, gone' = gone \ {key},
             UNCHANGED <<pending, entry, save, cookies, kept>>,
             request' = [request EXCEPT ![r].phase = "catalog", ![r].key = key]
      PROVE  Inv'
  <2>1. /\ request' \in [Request -> RequestType] /\ request'[r].key = key
        /\ \A x \in Request \ {r} : request'[x] = request[x]
    BY <1>1 DEF Inv, TypeOK, RequestType
  <2> QED BY <1>1, <2>1, StepKeeps DEF Inv, TypeOK, KeyInHand, NowhereLeft
<1>2. CASE /\ \E refused \in BOOLEAN : Ends(r, "error") /\ Forgets(refused)
           /\ UNCHANGED <<entry, save, cookies, gone, kept>>
  BY <1>2, EndedKeeps, ForgetFacts DEF Inv, TypeOK, NowhereLeft, SaveFits, Saves, Quiet
<1> QED BY <1>1, <1>2 DEF TokenAnswered

LEMMA RefreshKeeps ==
  ASSUME Inv, Quiet, NEW r \in Request, Refresh(r) \/ Disconnect(r)
  PROVE  Inv'
<1>1. entry.key \in Key
  BY DEF Refresh, Disconnect, Configured, Inv, TypeOK, Entry, Provider
<1>2. \/ Begins(r, "refresh", "catalog", entry.key)
      \/ Begins(r, "disconnect", "revoke", entry.key)
  BY DEF Refresh, Disconnect
<1>3. /\ request' \in [Request -> RequestType] /\ request'[r].key = entry.key
      /\ \A x \in Request \ {r} : request'[x] = request[x]
  BY <1>1, <1>2, BeginFacts DEF Inv
<1>4. UNCHANGED <<pending, entry, save, cookies, gone, kept>>
  BY DEF Refresh, Disconnect
<1> QED BY <1>1, <1>3, <1>4, StepKeeps DEF Inv, TypeOK, KeyInHand, NowhereLeft

LEMMA PasteKeeps ==
  ASSUME Inv, Quiet, NEW r \in Request, NEW key \in Key, Paste(r, key)
  PROVE  Inv'
<1>1. Begins(r, "paste", "catalog", key)
  BY DEF Paste
<1>2. /\ request' \in [Request -> RequestType] /\ request'[r].key = key
      /\ \A x \in Request \ {r} : request'[x] = request[x]
  BY <1>1, BeginFacts DEF Inv
<1>3. gone' = gone \ {key} /\ UNCHANGED <<pending, entry, save, cookies, kept>>
  BY DEF Paste
<1> QED BY <1>2, <1>3, StepKeeps DEF Inv, TypeOK, KeyInHand, NowhereLeft

LEMMA DisconnectAnsweredKeeps ==
  ASSUME Inv, Quiet, NEW r \in Request, DisconnectAnswered(r)
  PROVE  Inv'
<1>1. UNCHANGED <<pending, save, cookies>>
  BY DEF DisconnectAnswered
<1>2. CASE Ends(r, "error") /\ UNCHANGED <<entry, kept, gone>>
  BY <1>1, <1>2, EndedKeeps DEF Inv, TypeOK, NowhereLeft, SaveFits, Saves, Quiet
<1>3. CASE /\ Ends(r, "ok") /\ entry' = NoProvider /\ kept' = NoProvider
           /\ gone' = IF Configured /\ entry.key \notin Held THEN gone \cup {entry.key} ELSE gone
  <2>1. Configured => entry.key \in Key
    BY DEF Configured, Inv, TypeOK, Entry, Provider
  <2>2. gone' \in SUBSET Key
    BY <1>3, <2>1 DEF Inv, TypeOK
  <2>3. ASSUME NEW x \in Request, request[x].phase = "catalog"
        PROVE  request[x].key \notin gone'
    <3>1. request[x].key \in Held
      BY <2>3 DEF Held
    <3> QED BY <1>3, <2>3, <3>1 DEF Inv, NowhereLeft
  <2>4. entry'.key \notin gone'
    BY <1>3, <2>2, NoSaveFacts, ZosmaAuthAssumption
  <2> QED BY <1>1, <1>3, <2>2, <2>3, <2>4, NoSaveFacts, EndedKeeps DEF Inv, TypeOK, Quiet
<1> QED BY <1>2, <1>3 DEF DisconnectAnswered

(* The steps of a save.                                                    *)
LEMMA WriteKeeps ==
  ASSUME Inv, Quiet, NEW r \in Request, Write(r)
  PROVE  Inv'
<1>1. PICK rows \in SUBSET Model \ {{}} :
        \/ /\ entry' = Upserted(r, Catalog(r, rows))
           /\ Saving(r, "verify", entry, Catalog(r, rows))
        \/ /\ UNCHANGED entry
           /\ Saving(r, "restore", entry, Catalog(r, rows))
  BY DEF Write
<1>2. request[r].phase = "catalog" /\ UNCHANGED <<pending, request, cookies, gone, kept>>
  BY DEF Write
<1>3. /\ entry' \in Entry /\ entry'.key \notin gone
      /\ request[r].op = "paste" => entry.models \subseteq entry'.models
  BY <1>1, <1>2, UpsertedFacts DEF Inv, TypeOK, NowhereLeft, Entry
<1>4. /\ save' \in [by : Request, step : {"verify", "restore"}, prior : Entry,
                    models : SUBSET Model]
      /\ save'.by = r /\ save'.prior = entry /\ entry = kept
  BY <1>1, <1>2, UpsertedFacts DEF Saving, Inv, TypeOK, SaveFits, Saves, Quiet
<1>5. save' # NoSave
  BY <1>4, NoSaveFacts, ZosmaAuthAssumption
<1> QED BY <1>2, <1>3, <1>4, <1>5 DEF Inv, TypeOK, KeyInHand, NowhereLeft, SaveFits, Saves

\* Who saves, and what it goes back to.
LEMMA SaveFacts ==
  ASSUME Inv, save.step \in {"verify", "restore"}
  PROVE  /\ save \in [by : Request, step : {"verify", "restore"}, prior : Entry,
                      models : SUBSET Model]
         /\ save.by \in Request /\ save # NoSave
         /\ request[save.by].phase = "catalog" /\ save.prior = kept /\ save.prior.key \notin gone
BY NoSaveFacts DEF Inv, TypeOK, SaveFits, Saves, NowhereLeft

LEMMA VerifyKeeps ==
  ASSUME Inv, Verify
  PROVE  Inv'
<1>1. UNCHANGED <<entry, gone>> /\ save.step = "verify"
  BY DEF Verify
<1>2. CASE /\ Ends(save.by, "ok") /\ save' = NoSave /\ kept' = entry
           /\ pending' = IF request[save.by].op = "complete" THEN None ELSE pending
           /\ cookies' = IF request[save.by].op = "refresh" THEN cookies
                                                   ELSE cookies \cup {request[save.by].key}
  <2>1. save.by \in Request /\ request[save.by].key \in Key
    BY <1>1, SaveFacts DEF Inv, KeyInHand
  <2>2. pending' \in State \cup {None} /\ cookies' \in SUBSET Key
    BY <1>2, <2>1 DEF Inv, TypeOK
  <2> QED BY <1>1, <1>2, <2>1, <2>2, EndedKeeps DEF Inv, TypeOK, NowhereLeft
<1>3. CASE /\ save' = [save EXCEPT !.step = "restore"]
           /\ UNCHANGED <<pending, request, cookies, kept>>
  <2>1. /\ save' \in [by : Request, step : {"verify", "restore"}, prior : Entry,
                      models : SUBSET Model]
        /\ save'.by = save.by /\ save'.prior = save.prior
    BY <1>1, <1>3, SaveFacts
  <2>2. save' # NoSave
    BY <2>1, <1>1, SaveFacts, NoSaveFacts, ZosmaAuthAssumption
  <2> QED
    BY <1>1, <1>3, <2>1, <2>2, SaveFacts
    DEF Inv, TypeOK, KeyInHand, NowhereLeft, SaveFits, Saves
<1> QED BY <1>2, <1>3 DEF Verify

LEMMA RestoreKeeps ==
  ASSUME Inv, Restore
  PROVE  Inv'
<1>1. /\ save.step = "restore" /\ Ends(save.by, "error") /\ save' = NoSave
      /\ UNCHANGED <<pending, cookies, gone>>
      /\ \/ entry' = save.prior /\ UNCHANGED kept
         \/ UNCHANGED entry /\ kept' = entry
  BY DEF Restore
<1>2. entry' \in Entry /\ entry' = kept' /\ entry'.key \notin gone'
  BY <1>1, SaveFacts DEF Inv, TypeOK, NowhereLeft
<1> QED BY <1>1, <1>2, SaveFacts, EndedKeeps DEF Inv, TypeOK, NowhereLeft

LEMMA RestartKeeps ==
  ASSUME Inv, Restart
  PROVE  Inv'
<1>1. /\ request' = [r \in Request |-> Idle] /\ UNCHANGED <<pending, entry, cookies, gone>>
      /\ save' = NoSave /\ kept' = entry
  BY DEF Restart
<1>2. Idle \in RequestType /\ Idle.phase = "none"
  BY DEF Idle, RequestType, Ended
<1>3. request' \in [Request -> RequestType] /\ \A r \in Request : request'[r].phase = "none"
  BY <1>1, <1>2
<1>4. None \notin gone
  BY ZosmaAuthAssumption DEF Inv, TypeOK
<1> QED
  BY <1>1, <1>3, <1>4, NoSaveFacts DEF Inv, TypeOK, KeyInHand, NowhereLeft, SaveFits, Saves

LEMMA HandlerKeeps ==
  ASSUME Inv, Quiet, NEW r \in Request, Handler(r)
  PROVE  Inv'
<1>1. CASE \/ StartAnswered(r) \/ TokenAnswered(r) \/ Refresh(r) \/ Disconnect(r)
           \/ DisconnectAnswered(r) \/ Write(r) \/ CatalogFails(r)
  BY <1>1, AnsweredKeeps, TokenAnsweredKeeps, RefreshKeeps, DisconnectAnsweredKeeps, WriteKeeps
<1>2. ASSUME NEW state \in State, Start(r, state) \/ Complete(r, state)
      PROVE  Inv'
  BY <1>2, StartKeeps, CompleteKeeps
<1>3. ASSUME NEW key \in Key, Paste(r, key)
      PROVE  Inv'
  BY <1>3, PasteKeeps
<1> QED BY <1>1, <1>2, <1>3, Zenon DEF Handler

LEMMA InvHolds == Spec => []Inv
<1>1. Init => Inv
  <2> SUFFICES ASSUME Init
               PROVE  Inv
    OBVIOUS
  <2>1. request = [r \in Request |-> Idle]
    BY DEF Init
  <2>2. Idle \in RequestType /\ Idle.phase = "none"
    BY DEF Idle, RequestType, Ended
  <2>3. request \in [Request -> RequestType] /\ \A r \in Request : request[r].phase = "none"
    BY <2>1, <2>2
  <2>4. /\ pending = None /\ entry = NoProvider /\ cookies = {} /\ gone = {}
        /\ save = NoSave /\ kept = NoProvider
    BY DEF Init
  <2>5. TypeOK
    BY <2>3, <2>4, NoSaveFacts DEF TypeOK
  <2> QED
    BY <2>3, <2>4, <2>5, NoSaveFacts DEF Inv, KeyInHand, NowhereLeft, SaveFits, Saves
<1>2. Inv /\ [Next]_vars => Inv'
  <2> SUFFICES ASSUME Inv, [Next]_vars
               PROVE  Inv'
    OBVIOUS
  <2>1. CASE Quiet /\ Cancel
    BY <2>1, StepKeeps DEF Cancel, Inv, TypeOK, KeyInHand, NowhereLeft
  <2>2. ASSUME Quiet, NEW r \in Request, Handler(r)
        PROVE  Inv'
    BY <2>2, HandlerKeeps
  <2>3. CASE Verify \/ Restore \/ Restart
    BY <2>3, VerifyKeeps, RestoreKeeps, RestartKeeps
  <2>4. CASE UNCHANGED vars
    BY <2>4 DEF vars, Inv, TypeOK, KeyInHand, NowhereLeft, SaveFits, Saves
  <2> QED BY <2>1, <2>2, <2>3, <2>4, Zenon DEF Next
<1> QED BY <1>1, <1>2, PTL DEF Spec

(* A paste's save begins with Write, and ends with what it found.          *)
LEMMA PasteFacts ==
  ASSUME Inv, Next, NEW r \in Request, request[r].op = "paste", r \in {save.by, save'.by}
  PROVE  (IF save.by = r THEN save.prior ELSE entry).models \subseteq entry'.models
<1>1. CASE save.by = r
  <2>1. save # NoSave /\ save.prior.models \subseteq entry.models
    BY <1>1, NoSaveFacts, ZosmaAuthAssumption DEF Inv, SaveFits, Saves
  <2>2. Verify \/ Restore \/ Restart
    BY <2>1 DEF Next, Quiet
  <2>3. UNCHANGED entry \/ entry' = save.prior
    BY <2>2 DEF Verify, Restore, Restart
  <2> QED BY <1>1, <2>1, <2>3
<1>2. CASE save.by # r
  <2>1. save'.by = r /\ save' # NoSave /\ save'.by # save.by
    BY <1>2, NoSaveFacts, ZosmaAuthAssumption
  <2>2. ~Restore /\ ~Restart /\ ~Cancel
    BY <2>1 DEF Restore, Restart, Cancel
  <2>3. ~Verify
    <3> SUFFICES ASSUME Verify
                 PROVE  FALSE
      OBVIOUS
    <3>1. save # NoSave
      BY NoSaveFacts DEF Verify
    <3>2. save \in [by : Request, step : {"verify", "restore"}, prior : Entry, models : SUBSET Model]
      BY <3>1 DEF Inv, TypeOK
    <3>3. save'.by = save.by
      BY <2>1, <3>2 DEF Verify
    <3> QED BY <2>1, <3>3
  <2>4. PICK x \in Request : Handler(x)
    BY <2>2, <2>3 DEF Next
  <2>5. Write(x)
    BY <2>1, <2>4
    DEF Handler, StartAnswered, TokenAnswered, Refresh, Disconnect, DisconnectAnswered,
        CatalogFails, Start, Complete, Paste
  <2>6. x = r /\ request[r].phase = "catalog"
    BY <2>1, <2>5 DEF Write, Saving
  <2> QED BY <1>2, <2>5, <2>6, UpsertedFacts DEF Write
<1> QED BY <1>1, <1>2

-----------------------------------------------------------------------------
(* The theorems.                                                           *)

\* The entry is none or a key with models, and a request carries a key or none
\* (models-json.ts:20-27).
THEOREM TypeCorrect == Spec => []TypeOK
<1>1. Inv => TypeOK
  BY DEF Inv
<1> QED BY <1>1, InvHolds, PTL

\* No cookie of a disconnected key is valid, unless a request that had read the key was under way
\* or somebody has got the key since (session.ts:7-8).
THEOREM DisconnectStands == Spec => []DisconnectIsFinal
<1>1. Inv => DisconnectIsFinal
  BY DEF Inv, NowhereLeft, DisconnectIsFinal
<1> QED BY <1>1, InvHolds, PTL

\* Pasting a key deletes no model that was there when its save began, whatever other requests saved
\* meanwhile and wherever the save ends (index.ts:503-506).
THEOREM PastesKeep == Spec => PasteKeepsModels
<1>1. Inv /\ [Next]_vars =>
        [\A r \in Request : request[r].op = "paste" =>
           LET before == IF save.by = r THEN save.prior ELSE entry
           IN  r \in {save.by, save'.by} => before.models \subseteq entry'.models]_vars
  BY PasteFacts
<1> QED BY <1>1, InvHolds, PTL DEF Spec, PasteKeepsModels

\* Between saves the file holds what the last request to succeed left there, whatever failed since
\* and was rolled back (index.ts:243-269).
THEOREM ErrorsLeaveNoTrace == Spec => []ErrorLeavesNoTrace
<1>1. Inv => ErrorLeavesNoTrace
  BY DEF Inv, SaveFits, Saves, Quiet, ErrorLeavesNoTrace
<1> QED BY <1>1, InvHolds, PTL

=============================================================================
