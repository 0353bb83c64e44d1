----------------------------- MODULE PiSessions -----------------------------
(***************************************************************************)
(* The daemon's Pi sessions (apps/daemon/src/pi/adapter.ts): the table of  *)
(* live sessions, the session warmed up at boot, and the calls that open   *)
(* and close sessions, with the index of SessionStore.                     *)
(*                                                                         *)
(* A call is a JSON-RPC request of the web tier or of the shutdown.  Its   *)
(* handler runs without interruption from one I/O completion to the next:  *)
(* an action is such a stretch, with the promises it settles.  The session *)
(* object that call j creates is named j, and so is the id of a new one.   *)
(* A call is made once; what it does is decided when it is made.           *)
(***************************************************************************)
EXTENDS SessionStore

CONSTANTS
  Requests,  \* calls of start(), resume() and close()
  Warm,      \* the warm-up call at boot
  NoCall,    \* no session object
  NoId       \* no session id

ASSUME PiAssumption == /\ Calls = Requests \cup {Warm} /\ Warm \notin Requests
                       /\ Calls \subseteq Ids /\ Calls \cap Recorded = {}
                       /\ NoCall \notin Calls /\ NoId \notin Ids

VARIABLES
  op,        \* what each call is
  phase,     \* where it is
  about,     \* the session id each call is about, or has been given
  session,   \* session objects: not made, open or closed
  table,     \* sessions: the object listed under an id
  prewarmed, \* prewarm holds the warmed-up session
  disposed,  \* closed
  raced      \* ghost: ids opened or closed while being opened or closed

piVars == <<op, phase, about, session, table, prewarmed, disposed, raced>>
vars == <<storeVars, piVars>>

Settled == {"returned", "failed"}
Phases == {"none", "waiting", "lookup", "factory", "adding", "removing"} \cup Settled
WarmInFlight == phase[Warm] \in {"factory", "adding"}
Waiting == {j \in Requests : phase[j] = "waiting"}
Listed == {i \in Ids : table[i] # NoCall}

TypeOK ==
  /\ StoreTypeOK
  /\ op \in [Calls -> {"none", "warm", "start", "resume", "close"}]
  /\ phase \in [Calls -> Phases]
  /\ about \in [Calls -> Ids \cup {NoId}]
  /\ \A j \in Calls :
       phase[j] \in {"lookup", "factory", "adding", "removing"} => about[j] \in Ids
  /\ session \in [Calls -> {"none", "open", "closed"}]
  /\ table \in [Ids -> Calls \cup {NoCall}]
  /\ prewarmed \in BOOLEAN /\ disposed \in BOOLEAN
  /\ raced \in SUBSET Ids

Init ==
  /\ StoreInit
  /\ op = [j \in Calls |-> "none"]
  /\ phase = [j \in Calls |-> "none"]
  /\ about = [j \in Calls |-> NoId]
  /\ session = [j \in Calls |-> "none"]
  /\ table = [i \in Ids |-> NoCall]
  /\ prewarmed = FALSE /\ disposed = FALSE
  /\ raced = {}

(***************************************************************************)
(* Opening.                                                                *)
(***************************************************************************)

\* Request j is made.
Make(j, kind) ==
  /\ op[j] = "none"
  /\ op' = [op EXCEPT ![j] = kind]

\* Calls that a session of id i is being opened or closed by.
Opening(i) == {j \in Calls : about[j] = i /\ phase[j] = "factory"}
Closing(i) == {j \in Calls : about[j] = i /\ phase[j] = "removing"}

\* Mutant: no look at the sessions that are listed.
Spawn_NoCheck(j, i) ==
  /\ about' = [about EXCEPT ![j] = i]
  /\ phase' = [phase EXCEPT ![j] = "factory"]
  /\ raced' = IF Opening(i) \cup Closing(i) = {} THEN raced ELSE raced \cup {i}
  /\ UNCHANGED <<storeVars, session, table, prewarmed, disposed>>

\* spawn() up to the factory: a listed session is handed out at once.
Spawn(j, i) ==
  /\ about' = [about EXCEPT ![j] = i]
  /\ \/ i \in Listed
        /\ phase' = [phase EXCEPT ![j] = "returned"]
        /\ UNCHANGED raced
     \/ i \notin Listed
        /\ phase' = [phase EXCEPT ![j] = "factory"]
        /\ raced' = IF Opening(i) \cup Closing(i) = {} THEN raced ELSE raced \cup {i}
  /\ UNCHANGED <<storeVars, session, table, prewarmed, disposed>>

\* warmSession(), at boot.
WarmUp ==
  /\ Make(Warm, "warm") /\ ~disposed
  /\ Spawn(Warm, Warm)

\* start(), with a model or thinking level of its own, or in another workspace.
StartOwn(j) ==
  /\ Make(j, "start")
  /\ Spawn(j, j)

\* Mutant: the warm session stays in prewarm.
StartDefault_Keeps(j) ==
  /\ Make(j, "start") /\ prewarmed
  /\ about' = [about EXCEPT ![j] = Warm]
  /\ phase' = [phase EXCEPT ![j] = "returned"]
  /\ UNCHANGED <<storeVars, session, table, prewarmed, disposed, raced>>

\* Mutant: a warm-up in flight is taken for done.
StartDefault_NoWait(j) ==
  /\ Make(j, "start") /\ WarmInFlight
  /\ about' = [about EXCEPT ![j] = Warm]
  /\ phase' = [phase EXCEPT ![j] = "returned"]
  /\ UNCHANGED <<storeVars, session, table, prewarmed, disposed, raced>>

\* start() with the default options: the warm session, if there is one.
StartDefault(j) ==
  /\ Make(j, "start")
  /\ \/ /\ WarmInFlight
        /\ phase' = [phase EXCEPT ![j] = "waiting"]
        /\ UNCHANGED <<storeVars, about, session, table, prewarmed, disposed, raced>>
     \/ /\ ~WarmInFlight /\ prewarmed
        /\ prewarmed' = FALSE
        /\ about' = [about EXCEPT ![j] = Warm]
        /\ phase' = [phase EXCEPT ![j] = "returned"]
        /\ UNCHANGED <<storeVars, session, table, disposed, raced>>
     \/ /\ ~WarmInFlight /\ ~prewarmed
        /\ Spawn(j, j)

\* Sessions with a file to resume: recorded ones, and those opened since.
Persisted == Recorded \cup {i \in Calls : op[i] \in {"start", "warm"} /\ session[i] # "none"}

\* resume() of a file the web tier found in its session list.
ResumeFile(j, i) ==
  /\ Make(j, "resume") /\ i \in Persisted
  /\ Spawn(j, i)

\* resume() by id: the index is read first.
ResumeRecord(j, i) ==
  /\ Make(j, "resume")
  /\ phase' = [phase EXCEPT ![j] = "lookup"]
  /\ about' = [about EXCEPT ![j] = i]
  /\ UNCHANGED <<storeVars, session, table, prewarmed, disposed, raced>>

RecordRead(j) ==
  /\ phase[j] = "lookup" /\ UNCHANGED op
  /\ \/ about[j] \in Load /\ Spawn(j, about[j])
     \/ /\ about[j] \notin Load
        /\ phase' = [phase EXCEPT ![j] = "failed"]
        /\ UNCHANGED <<storeVars, about, session, table, prewarmed, disposed, raced>>

\* The factory is done: the session is listed, and then added to the index.
FactoryDone(j) ==
  /\ phase[j] = "factory"
  /\ session' = [session EXCEPT ![j] = "open"]
  /\ table' = [table EXCEPT ![about[j]] = j]
  /\ phase' = [phase EXCEPT ![j] = "adding"]
  /\ Submit({j}, expected \cup {about[j]})
  /\ UNCHANGED <<op, about, prewarmed, disposed, raced>>

\* Mutant: the promise that the starts wait for is dropped, not rejected.
WarmUpFails_Alone == [phase EXCEPT ![Warm] = "failed"]

\* What the starts that wait for the warm-up make of its failure: they fail.
WarmUpFails == [j \in Calls |-> IF j \in Waiting \cup {Warm} THEN "failed" ELSE phase[j]]

FactoryFails(j) ==
  /\ phase[j] = "factory"
  /\ phase' = IF j = Warm THEN WarmUpFails ELSE [phase EXCEPT ![j] = "failed"]
  /\ UNCHANGED <<op, storeVars, about, session, table, prewarmed, disposed, raced>>

\* The warm-up is done: one of the starts that wait takes the session, and the
\* others open one each.
WarmUpDone ==
  \/ /\ Waiting = {}
     /\ prewarmed' = TRUE
     /\ phase' = [phase EXCEPT ![Warm] = "returned"]
     /\ UNCHANGED about
  \/ \E w \in Waiting :
       /\ phase' = [j \in Calls |-> CASE j \in {w, Warm} -> "returned"
                                      [] j \in Waiting \ {w} -> "factory"
                                      [] OTHER -> phase[j]]
       /\ about' = [j \in Calls |-> CASE j = w -> Warm
                                      [] j \in Waiting \ {w} -> j
                                      [] OTHER -> about[j]]
       /\ UNCHANGED prewarmed

\* add() is over.
FinishAdd(j) ==
  /\ phase[j] = "adding"
  /\ Rename(j)
  /\ \/ j = Warm /\ WarmUpDone
     \/ /\ j # Warm
        /\ phase' = [phase EXCEPT ![j] = "returned"]
        /\ UNCHANGED <<about, prewarmed>>
  /\ UNCHANGED <<op, session, table, disposed, raced>>

\* add() has failed; the session stays open and listed.
FailAdd(j) ==
  /\ phase[j] = "adding"
  /\ WriteFails(j) \/ RenameFails(j)
  /\ phase' = IF j = Warm THEN WarmUpFails ELSE [phase EXCEPT ![j] = "failed"]
  /\ UNCHANGED <<op, about, session, table, prewarmed, disposed, raced>>

(***************************************************************************)
(* Closing.                                                                *)
(***************************************************************************)

\* The calls in `made' close the session listed under the id each is about.
CloseAll(made, id) ==
  /\ phase' = [j \in Calls |-> IF j \in made THEN "removing" ELSE phase[j]]
  /\ about' = [j \in Calls |-> IF j \in made THEN id[j] ELSE about[j]]
  /\ session' = [j \in Calls |-> IF \E k \in made : table[id[k]] = j THEN "closed"
                                 ELSE session[j]]
  /\ table' = [i \in Ids |-> IF \E k \in made : id[k] = i THEN NoCall ELSE table[i]]
  /\ raced' = raced \cup {i \in Ids : Opening(i) # {} /\ \E k \in made : id[k] = i}
  /\ Submit(made, expected \ {id[k] : k \in made})
  /\ UNCHANGED prewarmed

\* close() of a listed session, up to the index; any other id is an error.
Close(j, i) ==
  /\ Make(j, "close")
  /\ \/ /\ i \in Listed
        /\ CloseAll({j}, [k \in {j} |-> i])
        /\ UNCHANGED disposed
     \/ /\ i \notin Listed
        /\ phase' = [phase EXCEPT ![j] = "failed"]
        /\ UNCHANGED <<storeVars, about, session, table, prewarmed, disposed, raced>>

\* dispose(), at shutdown: every listed session is closed at once.
Dispose ==
  /\ ~disposed
  /\ disposed' = TRUE
  /\ \E made \in SUBSET {j \in Requests : op[j] = "none"} :
       \E id \in [made -> Listed] :
         /\ \A i \in Listed : \E j \in made : id[j] = i
         /\ \A j, k \in made : id[j] = id[k] => j = k
         /\ op' = [j \in Calls |-> IF j \in made THEN "close" ELSE op[j]]
         /\ CloseAll(made, id)

\* remove() is over; whatever is listed under the id by now is taken off.
FinishRemove(j) ==
  /\ phase[j] = "removing"
  /\ Rename(j)
  /\ phase' = [phase EXCEPT ![j] = "returned"]
  /\ table' = [table EXCEPT ![about[j]] = NoCall]
  /\ UNCHANGED <<op, about, session, prewarmed, disposed, raced>>

FailRemove(j) ==
  /\ phase[j] = "removing"
  /\ WriteFails(j) \/ RenameFails(j)
  /\ phase' = [phase EXCEPT ![j] = "failed"]
  /\ UNCHANGED <<op, about, session, table, prewarmed, disposed, raced>>

(***************************************************************************)
(* The steps of a rewrite that no call waits for.                          *)
(***************************************************************************)

ReadIndex(j) ==
  /\ Read(j, IF phase[j] = "adding" THEN Load \cup {about[j]} ELSE Load \ {about[j]})
  /\ UNCHANGED piVars

OpenTemp(j) == Open(j) /\ UNCHANGED piVars
WriteTemp(j) == Write(j) /\ UNCHANGED piVars

Finish(j) == \/ FactoryDone(j) \/ FactoryFails(j) \/ RecordRead(j)
             \/ ReadIndex(j) \/ OpenTemp(j) \/ WriteTemp(j)
             \/ FinishAdd(j) \/ FailAdd(j) \/ FinishRemove(j) \/ FailRemove(j)

Next == \/ WarmUp \/ Dispose
        \/ \E j \in Requests : StartOwn(j) \/ StartDefault(j)
        \/ \E j \in Requests, i \in Ids : ResumeFile(j, i) \/ ResumeRecord(j, i) \/ Close(j, i)
        \/ \E j \in Calls : Finish(j)

Spec == Init /\ [][Next]_vars

\* File operations end, and the SDK's factory returns or throws.
FairSpec == Spec /\ \A j \in Calls : WF_vars(Finish(j))

(***************************************************************************)
(* What the sessions promise.                                              *)
(***************************************************************************)

\* A session belongs to one chat: no two calls of start() are given the same
\* one, also when they wait for the warm-up together (adapter.ts:204).
OneChatPerSession ==
  \A j, k \in Requests : /\ op[j] = "start" /\ phase[j] = "returned"
                         /\ op[k] = "start" /\ phase[k] = "returned"
                         /\ about[j] = about[k]
                        => j = k

\* An id that was handed out is the id of a live session, as long as nobody
\* closed it: the prompt that follows does not meet an unknown session, whoever
\* else opened the session in the meantime (adapter.ts:243, 285).
HandleIsLive ==
  \A j \in Requests :
    op[j] \in {"start", "resume"} /\ phase[j] = "returned" =>
      about[j] \in Listed \/ \E k \in Requests : op[k] = "close" /\ about[k] = about[j]

\* An open session is listed, so that close() and dispose() reach it; ids that
\* two calls opened at once, or opened while closing, are not promised this
\* (adapter.ts:249, 257 and 417).
OpenIsListed ==
  \A j \in Calls : session[j] = "open" /\ about[j] \notin raced => table[about[j]] = j

\* Every call returns or fails, the ones that wait for the warm-up too.
EveryCallReturns ==
  \A j \in Calls : op[j] # "none" ~> phase[j] \in Settled
=============================================================================
