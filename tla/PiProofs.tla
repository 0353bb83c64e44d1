------------------------------ MODULE PiProofs ------------------------------
(***************************************************************************)
(* Proofs about PiSessions, for any number of calls and recorded sessions: *)
(* its type invariant, that a session belongs to one chat, that the id a   *)
(* call is given is live, that an open session is listed, that the index   *)
(* is exact while rewrites come one after the other, and that no call      *)
(* waits for something that is over.                                       *)
(***************************************************************************)
EXTENDS PiSessions, FiniteSetTheorems, TLAPS

-----------------------------------------------------------------------------
(* Type correctness.                                                       *)

\* The steps of a rewrite keep the types of the index.
LEMMA StoreTypes ==
  ASSUME StoreTypeOK
  PROVE  /\ Load \subseteq Ids
         /\ UNCHANGED storeVars => StoreTypeOK'
         /\ \A made \in SUBSET Calls, ids \in SUBSET Ids : Submit(made, ids) => StoreTypeOK'
         /\ \A j \in Calls :
              /\ \A ids \in SUBSET Ids : Read(j, ids) => StoreTypeOK'
              /\ Open(j) => StoreTypeOK'
              /\ Write(j) => StoreTypeOK'
              /\ WriteFails(j) => StoreTypeOK'
              /\ Rename(j) => StoreTypeOK'
              /\ RenameFails(j) => StoreTypeOK'
<1> USE DEF StoreTypeOK, Idle, Empty, Torn, Whole, Inodes
<1>1. Load \subseteq Ids
  BY DEF Load
<1>2. UNCHANGED storeVars => StoreTypeOK'
  BY DEF storeVars
<1>3. ASSUME NEW made \in SUBSET Calls, NEW ids \in SUBSET Ids, Submit(made, ids)
      PROVE  StoreTypeOK'
  BY <1>3 DEF Submit
<1>4. ASSUME NEW j \in Calls, NEW ids \in SUBSET Ids, Read(j, ids) PROVE StoreTypeOK'
  BY <1>4 DEF Read
<1>5. ASSUME NEW j \in Calls, Open(j) PROVE StoreTypeOK'
  <2>1. PICK i \in Inodes : i = IF temp = NoFile THEN j ELSE temp
    OBVIOUS
  <2>2. PICK r : r = [rewrite[j] EXCEPT !.step = "write", !.file = i]
    OBVIOUS
  <2>3. /\ rewrite[j] \in [step : {"none", "read", "open", "write", "rename", "over"},
                           records : SUBSET Ids, file : Inodes \cup {NoFile}]
        /\ r \in [step : {"none", "read", "open", "write", "rename", "over"},
                  records : SUBSET Ids, file : Inodes \cup {NoFile}]
    BY <2>2
  <2>4. /\ temp' = i /\ content' = [content EXCEPT ![i] = Empty]
        /\ rewrite' = [rewrite EXCEPT ![j] = r]
    BY <1>5, <2>1, <2>2 DEF Open
  <2>5. temp' \in Inodes \cup {NoFile} /\ rewrite' \in [Calls ->
           [step : {"none", "read", "open", "write", "rename", "over"},
            records : SUBSET Ids, file : Inodes \cup {NoFile}]]
    BY <2>3, <2>4
  <2>6. content' \in [Inodes -> [text : {"whole", "empty", "torn"}, records : SUBSET Ids]]
    BY <2>4
  <2> QED
    BY <1>5, <2>5, <2>6 DEF Open
<1>6. ASSUME NEW j \in Calls, Write(j) PROVE StoreTypeOK'
  BY <1>6 DEF Write
<1>7. ASSUME NEW j \in Calls, WriteFails(j) PROVE StoreTypeOK'
  BY <1>1, <1>7 DEF WriteFails
<1>8. ASSUME NEW j \in Calls, Rename(j) PROVE StoreTypeOK'
  BY <1>8 DEF Rename
<1>9. ASSUME NEW j \in Calls, RenameFails(j) PROVE StoreTypeOK'
  BY <1>9 DEF RenameFails
<1> QED
  BY <1>1, <1>2, <1>3, <1>4, <1>5, <1>6, <1>7, <1>8, <1>9

\* The first part of opening a session keeps the types.
LEMMA SpawnTypes ==
  ASSUME TypeOK, NEW j \in Calls, NEW i \in Ids, Spawn(j, i),
         op' \in [Calls -> {"none", "warm", "start", "resume", "close"}]
  PROVE  TypeOK'
<1>1. StoreTypeOK'
  BY StoreTypes DEF TypeOK, Spawn
<1> QED
  BY <1>1 DEF TypeOK, Spawn, Phases, Settled

LEMMA NextTypes ==
  ASSUME TypeOK, [Next]_vars
  PROVE  TypeOK'
<1> USE PiAssumption
<1>1. CASE WarmUp
  BY <1>1, SpawnTypes DEF WarmUp, Make, TypeOK
<1>2. ASSUME NEW j \in Requests, StartOwn(j) PROVE TypeOK'
  BY <1>2, SpawnTypes DEF StartOwn, Make, TypeOK
<1>3. ASSUME NEW j \in Requests, StartDefault(j) PROVE TypeOK'
  <2>1. op' \in [Calls -> {"none", "warm", "start", "resume", "close"}]
    BY <1>3 DEF StartDefault, Make, TypeOK
  <2>2. CASE Spawn(j, j)
    BY <2>1, <2>2, SpawnTypes
  <2>3. CASE ~Spawn(j, j)
    <3>1. StoreTypeOK'
      BY <1>3, <2>3, StoreTypes DEF StartDefault, TypeOK
    <3>2. CASE WarmInFlight
      BY <1>3, <2>1, <2>3, <3>1, <3>2 DEF StartDefault, Make, TypeOK, Phases, Settled
    <3>3. CASE ~WarmInFlight
      <4>1. /\ prewarmed' = FALSE /\ about' = [about EXCEPT ![j] = Warm]
            /\ phase' = [phase EXCEPT ![j] = "returned"]
            /\ UNCHANGED <<session, table, disposed, raced>>
        BY <1>3, <2>3, <3>3 DEF StartDefault
      <4> QED
        BY <2>1, <3>1, <4>1 DEF TypeOK, Phases, Settled
    <3> QED
      BY <3>2, <3>3
  <2> QED
    BY <2>2, <2>3
<1>4. ASSUME NEW j \in Requests, NEW i \in Ids, ResumeFile(j, i) PROVE TypeOK'
  BY <1>4, SpawnTypes DEF ResumeFile, Make, TypeOK
<1>5. ASSUME NEW j \in Requests, NEW i \in Ids, ResumeRecord(j, i) PROVE TypeOK'
  <2>1. StoreTypeOK'
    BY <1>5, StoreTypes DEF ResumeRecord, TypeOK
  <2> QED
    BY <1>5, <2>1 DEF ResumeRecord, Make, TypeOK, Phases, Settled
<1>6. ASSUME NEW made \in SUBSET Calls, NEW id \in [made -> Ids], CloseAll(made, id),
             op' \in [Calls -> {"none", "warm", "start", "resume", "close"}],
             disposed' \in BOOLEAN
      PROVE  TypeOK'
  <2>1. expected \ {id[k] : k \in made} \in SUBSET Ids
    BY DEF TypeOK, StoreTypeOK
  <2>2. StoreTypeOK'
    BY <1>6, <2>1, StoreTypes DEF CloseAll, TypeOK
  <2>3. /\ phase' \in [Calls -> Phases] /\ about' \in [Calls -> Ids \cup {NoId}]
        /\ \A j \in Calls : phase'[j] \in {"lookup", "factory", "adding", "removing"}
                              => about'[j] \in Ids
    BY <1>6 DEF CloseAll, TypeOK, Phases
  <2>4. /\ session' \in [Calls -> {"none", "open", "closed"}]
        /\ table' \in [Ids -> Calls \cup {NoCall}]
        /\ prewarmed' \in BOOLEAN /\ raced' \in SUBSET Ids
    BY <1>6 DEF CloseAll, TypeOK
  <2> QED
    BY <1>6, <2>2, <2>3, <2>4 DEF TypeOK
<1>7. ASSUME NEW j \in Requests, NEW i \in Ids, Close(j, i) PROVE TypeOK'
  <2>1. op' \in [Calls -> {"none", "warm", "start", "resume", "close"}]
    BY <1>7 DEF Close, Make, TypeOK
  <2>2. CASE i \in Listed
    <3>1. [k \in {j} |-> i] \in [{j} -> Ids] /\ {j} \in SUBSET Calls
      OBVIOUS
    <3>2. CloseAll({j}, [k \in {j} |-> i]) /\ disposed' \in BOOLEAN
      BY <1>7, <2>2 DEF Close, TypeOK
    <3> QED
      BY <1>6, <2>1, <3>1, <3>2
  <2>3. CASE i \notin Listed
    <3>1. StoreTypeOK'
      BY <1>7, <2>3, StoreTypes DEF Close, TypeOK
    <3> QED
      BY <1>7, <2>1, <2>3, <3>1 DEF Close, TypeOK, Phases, Settled
  <2> QED
    BY <2>2, <2>3
<1>8. CASE Dispose
  <2>0. PICK made \in SUBSET {j \in Requests : op[j] = "none"} :
          \E id \in [made -> Listed] :
            /\ op' = [j \in Calls |-> IF j \in made THEN "close" ELSE op[j]]
            /\ CloseAll(made, id)
    BY <1>8 DEF Dispose
  <2>1. PICK id \in [made -> Listed] :
          /\ op' = [j \in Calls |-> IF j \in made THEN "close" ELSE op[j]]
          /\ CloseAll(made, id)
    BY <2>0
  <2>2. made \in SUBSET Calls /\ id \in [made -> Ids]
    BY <2>1 DEF Listed
  <2>3. op' \in [Calls -> {"none", "warm", "start", "resume", "close"}]
    BY <2>1 DEF TypeOK
  <2> QED
    BY <1>6, <1>8, <2>1, <2>2, <2>3 DEF Dispose
<1>9. ASSUME NEW j \in Calls, FactoryDone(j) PROVE TypeOK'
  <2>1. {j} \in SUBSET Calls /\ expected \cup {about[j]} \in SUBSET Ids
    BY <1>9 DEF TypeOK, StoreTypeOK, FactoryDone
  <2>2. StoreTypeOK'
    BY <1>9, <2>1, StoreTypes DEF FactoryDone, TypeOK
  <2> QED
    BY <1>9, <2>1, <2>2 DEF FactoryDone, TypeOK, Phases, Settled
<1>10. WarmUpFails \in [Calls -> Phases]
  BY DEF TypeOK, WarmUpFails, Phases, Settled
<1>11. ASSUME NEW j \in Calls, FactoryFails(j) PROVE TypeOK'
  <2>1. StoreTypeOK'
    BY <1>11, StoreTypes DEF FactoryFails, TypeOK
  <2> QED
    BY <1>11, <2>1 DEF FactoryFails, WarmUpFails, TypeOK, Phases, Settled
<1>12. ASSUME NEW j \in Calls, RecordRead(j) PROVE TypeOK'
  <2>1. CASE Spawn(j, about[j])
    <3>1. PICK i \in Ids : i = about[j]
      BY <1>12 DEF RecordRead, TypeOK
    <3> QED
      BY <1>12, <2>1, <3>1, SpawnTypes DEF RecordRead, TypeOK
  <2>2. CASE ~Spawn(j, about[j])
    <3>1. StoreTypeOK'
      BY <1>12, <2>2, StoreTypes DEF RecordRead, TypeOK
    <3> QED
      BY <1>12, <2>2, <3>1 DEF RecordRead, TypeOK, Phases, Settled
  <2> QED
    BY <2>1, <2>2
<1>13. ASSUME NEW j \in Calls, ReadIndex(j) \/ OpenTemp(j) \/ WriteTemp(j) PROVE TypeOK'
  <2>1. CASE ReadIndex(j)
    <3>1. PICK ids : ids = IF phase[j] = "adding" THEN Load \cup {about[j]} ELSE Load \ {about[j]}
      OBVIOUS
    <3>2. ids \in SUBSET Ids
      BY <3>1, StoreTypes DEF TypeOK
    <3> QED
      BY <2>1, <3>1, <3>2, StoreTypes DEF ReadIndex, TypeOK, piVars
  <2>2. CASE OpenTemp(j) \/ WriteTemp(j)
    BY <2>2, StoreTypes DEF OpenTemp, WriteTemp, TypeOK, piVars
  <2> QED
    BY <1>13, <2>1, <2>2
<1>14. ASSUME NEW j \in Calls, FinishAdd(j) PROVE TypeOK'
  <2>1. StoreTypeOK'
    BY <1>14, StoreTypes DEF FinishAdd, TypeOK
  <2>2. /\ phase' \in [Calls -> Phases] /\ about' \in [Calls -> Ids \cup {NoId}]
        /\ prewarmed' \in BOOLEAN
        /\ \A k \in Calls : phase'[k] \in {"lookup", "factory", "adding", "removing"}
                              => about'[k] \in Ids
    <3>1. CASE j # Warm
      BY <1>14, <3>1 DEF FinishAdd, TypeOK, Phases, Settled
    <3>2. CASE j = Warm /\ Waiting = {}
      BY <1>14, <3>2 DEF FinishAdd, WarmUpDone, TypeOK, Phases, Settled
    <3>3. CASE j = Warm /\ Waiting # {}
      <4>1. PICK w \in Waiting :
              /\ phase' = [k \in Calls |-> CASE k \in {w, Warm} -> "returned"
                                             [] k \in Waiting \ {w} -> "factory"
                                             [] OTHER -> phase[k]]
              /\ about' = [k \in Calls |-> CASE k = w -> Warm
                                             [] k \in Waiting \ {w} -> k
                                             [] OTHER -> about[k]]
              /\ UNCHANGED prewarmed
        BY <1>14, <3>3 DEF FinishAdd, WarmUpDone
      <4>2. w # Warm /\ Warm \notin Waiting
        BY DEF Waiting
      <4> QED
        BY <4>1, <4>2 DEF TypeOK, Phases, Settled
    <3> QED
      BY <3>1, <3>2, <3>3
  <2> QED
    BY <1>14, <2>1, <2>2 DEF FinishAdd, TypeOK
<1>15. ASSUME NEW j \in Calls, FailAdd(j) PROVE TypeOK'
  <2>1. StoreTypeOK'
    BY <1>15, StoreTypes DEF FailAdd, TypeOK
  <2> QED
    BY <1>15, <2>1 DEF FailAdd, WarmUpFails, TypeOK, Phases, Settled
<1>16. ASSUME NEW j \in Calls, FinishRemove(j) PROVE TypeOK'
  <2>1. StoreTypeOK'
    BY <1>16, StoreTypes DEF FinishRemove, TypeOK
  <2> QED
    BY <1>16, <2>1 DEF FinishRemove, TypeOK, Phases, Settled
<1>17. ASSUME NEW j \in Calls, FailRemove(j) PROVE TypeOK'
  <2>1. StoreTypeOK'
    BY <1>17, StoreTypes DEF FailRemove, TypeOK
  <2> QED
    BY <1>17, <2>1 DEF FailRemove, TypeOK, Phases, Settled
<1>18. CASE UNCHANGED vars
  <2>1. StoreTypeOK'
    BY <1>18, StoreTypes DEF vars, TypeOK
  <2> QED
    BY <1>18, <2>1 DEF vars, piVars, TypeOK
<1> QED
  BY <1>1, <1>2, <1>3, <1>4, <1>5, <1>7, <1>8, <1>9, <1>11, <1>12, <1>13, <1>14, <1>15,
     <1>16, <1>17, <1>18, Zenon DEF Next, Finish

LEMMA InitTypes == Init => TypeOK
<1> SUFFICES ASSUME Init PROVE TypeOK
  OBVIOUS
<1>1. StoreTypeOK
  <2>1. Idle \in [step : {"none", "read", "open", "write", "rename", "over"},
                  records : SUBSET Ids, file : Inodes \cup {NoFile}]
    BY DEF Idle
  <2>2. PICK idle : idle = Idle
    OBVIOUS
  <2>3. rewrite \in [Calls -> [step : {"none", "read", "open", "write", "rename", "over"},
                              records : SUBSET Ids, file : Inodes \cup {NoFile}]]
    BY <2>1, <2>2 DEF Init, StoreInit
  <2>4. content \in [Inodes -> [text : {"whole", "empty", "torn"}, records : SUBSET Ids]]
    BY StoreAssumption DEF Init, StoreInit, Empty, Whole
  <2> QED
    BY <2>3, <2>4, StoreAssumption DEF Init, StoreInit, StoreTypeOK, Inodes
<1>2. /\ phase \in [Calls -> Phases] /\ \A j \in Calls : phase[j] = "none"
      /\ about \in [Calls -> Ids \cup {NoId}]
      /\ op \in [Calls -> {"none", "warm", "start", "resume", "close"}]
      /\ session \in [Calls -> {"none", "open", "closed"}]
      /\ table \in [Ids -> Calls \cup {NoCall}]
  BY DEF Init, Phases
<1> QED
  BY <1>1, <1>2, StoreAssumption, PiAssumption DEF Init, TypeOK

\* Every variable keeps its type, and a call that is under way has a session id.
THEOREM TypeCorrect == Spec => []TypeOK
BY InitTypes, NextTypes, PTL DEF Spec

-----------------------------------------------------------------------------
(* The inductive invariant.                                                *)

\* The index, its temporary file and the rewrites under way name persisted
\* sessions only.
RecordsArePersisted ==
  /\ \A i \in Inodes : content[i].records \subseteq Persisted
  /\ \A j \in Calls : rewrite[j].records \subseteq Persisted

\* What a call has of its session in each phase.
CallsInOrder ==
  \A j \in Calls :
    /\ op[j] = "none" => phase[j] = "none" /\ about[j] = NoId /\ session[j] = "none"
    /\ phase[j] = "none" => op[j] = "none"
    /\ phase[j] = "waiting" => op[j] = "start" /\ about[j] = NoId /\ session[j] = "none"
    /\ phase[j] = "lookup" => op[j] = "resume" /\ session[j] = "none" /\ about[j] \in Ids
    /\ phase[j] = "factory" => /\ session[j] = "none"
                               /\ op[j] \in {"warm", "start", "resume"}
                               /\ \/ about[j] \in Persisted
                                  \/ about[j] = j /\ op[j] # "resume"
    /\ phase[j] = "adding" => session[j] # "none" /\ op[j] \in {"warm", "start", "resume"}
    /\ phase[j] = "removing" => op[j] = "close" /\ about[j] \in Persisted
    /\ session[j] # "none" => about[j] \in Persisted

\* The table lists open sessions, each under its own id.
ListedIsOpen ==
  \A i \in Ids : table[i] # NoCall => session[table[i]] = "open" /\ about[table[i]] = i

\* While nothing raced for its id, a session that is being opened is opened by
\* one call, and none is listed or being closed; nor is one listed that is
\* being closed.
OneAtATime ==
  \A j \in Calls : about[j] \notin raced =>
    /\ phase[j] \in {"factory", "removing"} => table[about[j]] = NoCall
    /\ phase[j] = "factory" =>
         \A k \in Calls \ {j} :
           about[k] = about[j] => phase[k] \notin {"factory", "removing"}

\* The warm session is given away once, after the warm-up.
WarmIsGivenOnce ==
  /\ op[Warm] \in {"none", "warm"}
  /\ prewarmed => phase[Warm] = "returned"
  /\ \A j \in Requests :
       op[j] = "start" =>
         /\ phase[j] \notin {"waiting", "failed"} => about[j] \in {j, Warm}
         /\ about[j] = Warm => phase[Warm] = "returned" /\ ~prewarmed
  /\ \A j, k \in Requests : /\ op[j] = "start" /\ about[j] = Warm
                            /\ op[k] = "start" /\ about[k] = Warm
                           => j = k

SessionInv == CallsInOrder /\ ListedIsOpen /\ OneAtATime /\ OpenIsListed

\* What the calls have done is not undone.
Grows == /\ \A j \in Calls : op[j] # "none" => op'[j] = op[j]
         /\ \A j \in Calls : session[j] # "none" => session'[j] # "none"

LEMMA NothingIsUndone ==
  ASSUME TypeOK, [Next]_vars
  PROVE  Grows
<1> USE PiAssumption DEF TypeOK, Grows
<1>1. CASE WarmUp
  BY <1>1 DEF WarmUp, Make, Spawn
<1>2. ASSUME NEW j \in Requests, StartOwn(j) \/ StartDefault(j) PROVE Grows
  BY <1>2 DEF StartOwn, StartDefault, Make, Spawn
<1>3. ASSUME NEW j \in Requests, NEW i \in Ids, ResumeFile(j, i) \/ ResumeRecord(j, i)
      PROVE  Grows
  BY <1>3 DEF ResumeFile, ResumeRecord, Make, Spawn
<1>4. ASSUME NEW j \in Requests, NEW i \in Ids, Close(j, i) PROVE Grows
  BY <1>4 DEF Close, Make, CloseAll
<1>5. CASE Dispose
  <2>1. PICK made \in SUBSET {j \in Requests : op[j] = "none"} :
          \E id \in [made -> Listed] :
            /\ op' = [j \in Calls |-> IF j \in made THEN "close" ELSE op[j]]
            /\ CloseAll(made, id)
    BY <1>5 DEF Dispose
  <2> QED
    BY <2>1 DEF CloseAll
<1>6. ASSUME NEW j \in Calls, Finish(j) PROVE Grows
  <2>1. CASE FactoryDone(j) \/ FactoryFails(j) \/ RecordRead(j)
    BY <2>1 DEF FactoryDone, FactoryFails, RecordRead, Spawn
  <2>2. CASE ReadIndex(j) \/ OpenTemp(j) \/ WriteTemp(j)
    BY <2>2 DEF ReadIndex, OpenTemp, WriteTemp, piVars
  <2>3. CASE FinishAdd(j) \/ FailAdd(j) \/ FinishRemove(j) \/ FailRemove(j)
    BY <2>3 DEF FinishAdd, FailAdd, FinishRemove, FailRemove
  <2> QED
    BY <1>6, <2>1, <2>2, <2>3 DEF Finish
<1>7. CASE UNCHANGED vars
  BY <1>7 DEF vars, piVars
<1> QED
  BY <1>1, <1>2, <1>3, <1>4, <1>5, <1>6, <1>7, Zenon DEF Next

LEMMA PersistedGrows ==
  ASSUME Grows
  PROVE  Persisted \subseteq Persisted'
BY DEF Grows, Persisted

-----------------------------------------------------------------------------
(* The index names persisted sessions only.                                *)

Holds(ids) == /\ \A i \in Inodes : content[i].records \subseteq ids
              /\ \A j \in Calls : rewrite[j].records \subseteq ids

LEMMA StoreHolds ==
  ASSUME StoreTypeOK, NEW P, Holds(P)
  PROVE  /\ Load \subseteq P
         /\ UNCHANGED storeVars => Holds(P)'
         /\ \A made, ids : Submit(made, ids) => Holds(P)'
         /\ \A j \in Calls :
              /\ \A ids \in SUBSET P : Read(j, ids) => Holds(P)'
              /\ Open(j) => Holds(P)'
              /\ Write(j) => Holds(P)'
              /\ WriteFails(j) => Holds(P)'
              /\ Rename(j) => Holds(P)'
              /\ RenameFails(j) => Holds(P)'
<1> USE DEF Holds
<1>0. /\ content \in [Inodes -> [text : {"whole", "empty", "torn"}, records : SUBSET Ids]]
      /\ rewrite \in [Calls -> [step : {"none", "read", "open", "write", "rename", "over"},
                                records : SUBSET Ids, file : Inodes \cup {NoFile}]]
      /\ Idle.records = {} /\ Empty.records = {} /\ Torn.records = {}
      /\ \A ids : Whole(ids).records = ids
      /\ target \in Inodes
  BY DEF StoreTypeOK, Idle, Empty, Torn, Whole
<1>1. Load \subseteq P
  BY <1>0 DEF Load
<1>2. UNCHANGED storeVars => Holds(P)'
  BY DEF storeVars
<1>3. ASSUME NEW made, NEW ids, Submit(made, ids) PROVE Holds(P)'
  BY <1>0, <1>3 DEF Submit, Idle
<1>4. ASSUME NEW j \in Calls, NEW ids \in SUBSET P, Read(j, ids) PROVE Holds(P)'
  BY <1>0, <1>4 DEF Read, Idle
<1>5. ASSUME NEW j \in Calls, Open(j) PROVE Holds(P)'
  <2>1. PICK e, i, r : /\ e = Empty
                       /\ i = IF temp = NoFile THEN j ELSE temp
                       /\ r = [rewrite[j] EXCEPT !.step = "write", !.file = i]
    OBVIOUS
  <2>2. e.records = {} /\ r.records = rewrite[j].records
    BY <1>0, <2>1
  <2>3. content' = [content EXCEPT ![i] = e] /\ rewrite' = [rewrite EXCEPT ![j] = r]
    BY <1>5, <2>1 DEF Open
  <2> QED
    BY <1>0, <2>2, <2>3
<1>6. ASSUME NEW j \in Calls, Write(j) PROVE Holds(P)'
  <2>1. PICK i, r : content' = [content EXCEPT ![i] = r] /\ r.records \subseteq P
    <3>1. PICK i, whole, torn : /\ i = rewrite[j].file /\ torn = Torn
                                /\ whole = Whole(rewrite[j].records)
      OBVIOUS
    <3>2. whole.records \subseteq P /\ torn.records \subseteq P
      BY <1>0, <3>1
    <3>3. content' = [content EXCEPT ![i] = whole] \/ content' = [content EXCEPT ![i] = torn]
      BY <1>6, <3>1 DEF Write
    <3> QED
      BY <3>2, <3>3
  <2>2. PICK e : e.records = {} /\ rewrite' = [rewrite EXCEPT ![j] = e]
    BY <1>6 DEF Write, Idle
  <2> QED
    BY <1>0, <2>1, <2>2
<1>7. ASSUME NEW j \in Calls, WriteFails(j) PROVE Holds(P)'
  <2>1. PICK i, r : content' = [content EXCEPT ![i] = r] /\ r.records \subseteq P
    BY <1>0, <1>7 DEF WriteFails
  <2> QED
    BY <1>0, <1>7, <2>1 DEF WriteFails, Idle
<1>8. ASSUME NEW j \in Calls, Rename(j) PROVE Holds(P)'
  BY <1>0, <1>8 DEF Rename, Idle, Empty
<1>9. ASSUME NEW j \in Calls, RenameFails(j) PROVE Holds(P)'
  BY <1>0, <1>9 DEF RenameFails, Idle
<1> QED
  BY <1>1, <1>2, <1>3, <1>4, <1>5, <1>6, <1>7, <1>8, <1>9

LEMMA NextRecords ==
  ASSUME TypeOK, CallsInOrder, RecordsArePersisted, [Next]_vars
  PROVE  RecordsArePersisted'
<1>1. PICK P : P = Persisted'
  OBVIOUS
<1>2. Persisted \subseteq P
  BY <1>1, NothingIsUndone, PersistedGrows
<1>3. Holds(P) /\ StoreTypeOK
  BY <1>2 DEF RecordsArePersisted, Holds, TypeOK
<1>4. Holds(P)'
  <2>1. \/ UNCHANGED storeVars
        \/ \E made, ids : Submit(made, ids)
        \/ \E j \in Calls : \/ \E ids \in SUBSET P : Read(j, ids)
                            \/ Open(j) \/ Write(j) \/ WriteFails(j)
                            \/ Rename(j) \/ RenameFails(j)
    <3>1. CASE WarmUp
      BY <3>1 DEF WarmUp, Spawn
    <3>2. ASSUME NEW j \in Requests, StartOwn(j) \/ StartDefault(j) PROVE UNCHANGED storeVars
      BY <3>2 DEF StartOwn, StartDefault, Spawn
    <3>3. ASSUME NEW j \in Requests, NEW i \in Ids, ResumeFile(j, i) \/ ResumeRecord(j, i)
          PROVE  UNCHANGED storeVars
      BY <3>3 DEF ResumeFile, ResumeRecord, Spawn
    <3>4. ASSUME NEW j \in Requests, NEW i \in Ids, Close(j, i)
          PROVE  UNCHANGED storeVars \/ \E made, ids : Submit(made, ids)
      BY <3>4 DEF Close, CloseAll
    <3>5. CASE Dispose
      BY <3>5 DEF Dispose, CloseAll
    <3>6. ASSUME NEW j \in Calls, ReadIndex(j)
          PROVE  \E ids \in SUBSET P : Read(j, ids)
      <4>1. Load \subseteq P
        BY <1>3, StoreHolds
      <4>2. phase[j] = "adding" => about[j] \in P
        BY <1>2 DEF CallsInOrder
      <4> QED
        BY <3>6, <4>1, <4>2 DEF ReadIndex
    <3>7. ASSUME NEW j \in Calls, FactoryDone(j) \/ FactoryFails(j) \/ RecordRead(j)
          PROVE  UNCHANGED storeVars \/ \E made, ids : Submit(made, ids)
      BY <3>7 DEF FactoryDone, FactoryFails, RecordRead, Spawn
    <3>8. ASSUME NEW j \in Calls, FinishAdd(j) \/ FinishRemove(j)
          PROVE  Rename(j)
      BY <3>8 DEF FinishAdd, FinishRemove
    <3>9. ASSUME NEW j \in Calls, FailAdd(j) \/ FailRemove(j)
          PROVE  WriteFails(j) \/ RenameFails(j)
      BY <3>9 DEF FailAdd, FailRemove
    <3>10. ASSUME NEW j \in Calls, OpenTemp(j) \/ WriteTemp(j)
           PROVE  Open(j) \/ Write(j)
      BY <3>10 DEF OpenTemp, WriteTemp
    <3>11. CASE UNCHANGED vars
      BY <3>11 DEF vars
    <3> QED
      BY <3>1, <3>2, <3>3, <3>4, <3>5, <3>6, <3>7, <3>8, <3>9, <3>10, <3>11, Zenon
      DEF Next, Finish
  <2> QED
    BY <1>3, <2>1, StoreHolds
<1> QED
  BY <1>1, <1>4 DEF Holds, RecordsArePersisted

-----------------------------------------------------------------------------
(* Open sessions are listed.                                               *)

Opens == {"warm", "start", "resume"}

\* Calls that are made, and calls that settle, leave the sessions alone.
LEMMA QuietKeepsSessions ==
  ASSUME TypeOK, SessionInv, Grows, UNCHANGED <<session, table, raced>>,
         \A j \in Calls :
           \/ op'[j] = op[j] /\ about'[j] = about[j] /\ phase'[j] = phase[j]
           \/ op'[j] = op[j] /\ about'[j] = about[j] /\ op[j] # "none"
                /\ phase'[j] \in Settled
           \/ /\ session[j] = "none" /\ op'[j] # "none"
              /\ \/ phase'[j] \in Settled
                 \/ phase'[j] = "waiting" /\ op'[j] = "start" /\ about'[j] = NoId
                 \/ phase'[j] = "lookup" /\ op'[j] = "resume" /\ about'[j] \in Ids
  PROVE  SessionInv'
<1> USE DEF SessionInv, Settled
<1>1. Persisted \subseteq Persisted'
  BY PersistedGrows
<1>2. CallsInOrder'
  BY <1>1 DEF CallsInOrder
<1>3. ListedIsOpen'
  BY PiAssumption DEF TypeOK, ListedIsOpen
<1>4. OneAtATime'
  <2>1. \A j \in Calls : phase'[j] \in {"factory", "removing"} =>
                           phase'[j] = phase[j] /\ about'[j] = about[j]
    OBVIOUS
  <2> QED
    BY <2>1 DEF OneAtATime
<1>5. OpenIsListed'
  BY DEF OpenIsListed
<1> QED
  BY <1>2, <1>3, <1>4, <1>5

\* The part of opening that ends in the factory.
LEMMA SpawnKeepsSessions ==
  ASSUME TypeOK, SessionInv, Grows, NEW j \in Calls, NEW i \in Ids, Spawn(j, i),
         session[j] = "none", op'[j] \in Opens,
         \A k \in Calls \ {j} : op'[k] = op[k],
         i \in Persisted \/ (i = j /\ op'[j] # "resume")
  PROVE  SessionInv'
<1>1. CASE i \in Listed
  <2>1. /\ phase' = [phase EXCEPT ![j] = "returned"] /\ about' = [about EXCEPT ![j] = i]
        /\ UNCHANGED <<session, table, raced>>
    BY <1>1 DEF Spawn
  <2>2. \A k \in Calls \ {j} : /\ op'[k] = op[k] /\ about'[k] = about[k]
                               /\ phase'[k] = phase[k]
    BY <2>1 DEF TypeOK
  <2>3. op'[j] # "none" /\ phase'[j] \in Settled
    BY <2>1 DEF TypeOK, Opens, Settled
  <2> QED
    BY <2>1, <2>2, <2>3, QuietKeepsSessions
<1>2. CASE i \notin Listed
  <2>1. /\ phase' = [phase EXCEPT ![j] = "factory"] /\ about' = [about EXCEPT ![j] = i]
        /\ UNCHANGED <<session, table>> /\ raced \subseteq raced'
        /\ table[i] = NoCall
        /\ i \in raced' \/ Opening(i) \cup Closing(i) = {}
    BY <1>2 DEF Spawn, Listed
  <2>2. i \in raced' \/ \A k \in Calls : about[k] = i =>
                           phase[k] \notin {"factory", "removing"}
    BY <2>1 DEF Opening, Closing
  <2>3. Persisted \subseteq Persisted'
    BY PersistedGrows
  <2>4. /\ phase'[j] = "factory" /\ about'[j] = i
        /\ \A k \in Calls \ {j} : phase'[k] = phase[k] /\ about'[k] = about[k]
    BY <2>1 DEF TypeOK
  <2>5. CallsInOrder'
    BY <2>1, <2>3, <2>4 DEF SessionInv, CallsInOrder, Opens
  <2>6. ListedIsOpen'
    <3>1. \A h \in Ids : table[h] # NoCall => table[h] # j
      BY DEF SessionInv, ListedIsOpen
    <3> QED
      BY <2>1, <2>4, <3>1 DEF SessionInv, ListedIsOpen, TypeOK
  <2>7. OneAtATime'
    <3>1. ASSUME NEW k \in Calls, about'[k] \notin raced'
          PROVE  /\ phase'[k] \in {"factory", "removing"} => table'[about'[k]] = NoCall
                 /\ phase'[k] = "factory" =>
                      \A h \in Calls \ {k} :
                        about'[h] = about'[k] => phase'[h] \notin {"factory", "removing"}
      BY <2>1, <2>2, <2>4, <3>1 DEF SessionInv, OneAtATime
    <3> QED
      BY <3>1 DEF OneAtATime
  <2>8. OpenIsListed'
    BY <2>1, <2>4 DEF SessionInv, OpenIsListed
  <2> QED
    BY <2>5, <2>6, <2>7, <2>8 DEF SessionInv
<1> QED
  BY <1>1, <1>2

LEMMA FactoryDoneKeepsSessions ==
  ASSUME TypeOK, SessionInv, Grows, NEW j \in Calls, FactoryDone(j)
  PROVE  SessionInv'
<1>1. /\ phase[j] = "factory" /\ phase' = [phase EXCEPT ![j] = "adding"]
      /\ session' = [session EXCEPT ![j] = "open"] /\ table' = [table EXCEPT ![about[j]] = j]
      /\ UNCHANGED <<op, about, raced>>
  BY DEF FactoryDone
<1>2. Persisted \subseteq Persisted'
  BY PersistedGrows
<1>3. session[j] = "none" /\ op[j] \in Opens /\ about[j] \in Ids
  BY <1>1 DEF SessionInv, CallsInOrder, Opens, TypeOK
<1>4. about[j] \in Persisted'
  <2>1. CASE about[j] \in Persisted
    BY <1>2, <2>1
  <2>2. CASE about[j] = j /\ op[j] # "resume"
    BY <1>1, <1>3, <2>2 DEF Persisted, TypeOK, Opens
  <2> QED
    BY <1>1, <2>1, <2>2 DEF SessionInv, CallsInOrder
<1>5. CallsInOrder'
  BY <1>1, <1>2, <1>3, <1>4 DEF SessionInv, CallsInOrder, TypeOK, Opens
<1>6. ListedIsOpen'
  BY <1>1, <1>3, PiAssumption DEF SessionInv, ListedIsOpen, TypeOK
<1>7. OneAtATime'
  <2>1. ASSUME NEW k \in Calls, about[k] \notin raced, phase'[k] \in {"factory", "removing"}
        PROVE  table'[about[k]] = NoCall
    <3>1. k # j /\ phase[k] = phase'[k] /\ about[k] \in Ids
      BY <1>1, <2>1 DEF TypeOK
    <3>2. about[k] # about[j]
      BY <1>1, <2>1, <3>1 DEF SessionInv, OneAtATime
    <3> QED
      BY <1>1, <2>1, <3>1, <3>2 DEF SessionInv, OneAtATime, TypeOK
  <2>2. ASSUME NEW k \in Calls, about[k] \notin raced, phase'[k] = "factory",
               NEW h \in Calls \ {k}, about[h] = about[k]
        PROVE  phase'[h] \notin {"factory", "removing"}
    BY <1>1, <2>2 DEF SessionInv, OneAtATime, TypeOK
  <2> QED
    BY <1>1, <2>1, <2>2 DEF OneAtATime
<1>8. OpenIsListed'
  <2>1. ASSUME NEW k \in Calls, session'[k] = "open", about[k] \notin raced
        PROVE  table'[about[k]] = k
    <3>1. CASE k = j
      BY <1>1, <1>3, <3>1 DEF TypeOK
    <3>2. CASE k # j
      <4>1. table[about[k]] = k
        BY <1>1, <2>1, <3>2 DEF SessionInv, OpenIsListed, TypeOK
      <4>2. about[k] # about[j]
        BY <1>1, <2>1, <4>1, PiAssumption DEF SessionInv, OneAtATime
      <4> QED
        BY <1>1, <4>1, <4>2 DEF TypeOK
    <3> QED
      BY <3>1, <3>2
  <2> QED
    BY <1>1, <2>1 DEF OpenIsListed
<1> QED
  BY <1>5, <1>6, <1>7, <1>8 DEF SessionInv

\* The end of the warm-up, for the starts that wait.
LEMMA WarmUpKeepsSessions ==
  ASSUME TypeOK, SessionInv, Grows, UNCHANGED <<op, session, table, raced>>,
         op[Warm] # "none", NEW w \in Waiting,
         phase' = [j \in Calls |-> CASE j \in {w, Warm} -> "returned"
                                     [] j \in Waiting \ {w} -> "factory"
                                     [] OTHER -> phase[j]],
         about' = [j \in Calls |-> CASE j = w -> Warm
                                     [] j \in Waiting \ {w} -> j
                                     [] OTHER -> about[j]]
  PROVE  SessionInv'
<1> USE PiAssumption
<1>1. w \in Requests /\ w # Warm /\ Waiting \subseteq Requests /\ Warm \notin Waiting
  BY DEF Waiting
<1>2. /\ phase'[w] = "returned" /\ phase'[Warm] = "returned"
      /\ about'[w] = Warm /\ about'[Warm] = about[Warm]
      /\ \A j \in Waiting \ {w} : phase'[j] = "factory" /\ about'[j] = j
      /\ \A j \in Calls \ (Waiting \cup {Warm}) : phase'[j] = phase[j] /\ about'[j] = about[j]
  BY <1>1
<1>3. \A j \in Waiting : op[j] = "start" /\ session[j] = "none" /\ about[j] = NoId
  BY <1>1 DEF SessionInv, CallsInOrder, Waiting
<1>4. Persisted' = Persisted
  BY DEF Persisted
<1>5. \A j \in Waiting : j \notin Persisted /\ j \in Ids
  BY <1>1, <1>3 DEF Persisted
<1>6. CallsInOrder'
  BY <1>1, <1>2, <1>3, <1>4 DEF SessionInv, CallsInOrder
<1>7. ListedIsOpen'
  <2>1. \A i \in Ids : table[i] # NoCall => table[i] \in Calls /\ table[i] \notin Waiting
    BY <1>3 DEF SessionInv, ListedIsOpen, TypeOK
  <2> QED
    BY <1>2, <2>1 DEF SessionInv, ListedIsOpen
<1>8. OneAtATime'
  <2>1. ASSUME NEW j \in Calls, about'[j] \notin raced
        PROVE  /\ phase'[j] \in {"factory", "removing"} => table[about'[j]] = NoCall
               /\ phase'[j] = "factory" =>
                    \A k \in Calls \ {j} :
                      about'[k] = about'[j] => phase'[k] \notin {"factory", "removing"}
    <3>1. CASE j \in Waiting \ {w}
      <4>1. table[j] = NoCall
        <5>1. table[j] # NoCall => about[table[j]] = j /\ session[table[j]] = "open"
                                     /\ table[j] \in Calls
          BY <1>5, <3>1 DEF SessionInv, ListedIsOpen, TypeOK
        <5> QED
          BY <1>5, <3>1, <5>1 DEF SessionInv, CallsInOrder
      <4>2. ASSUME NEW k \in Calls \ {j}, about'[k] = j
            PROVE  phase'[k] \notin {"factory", "removing"}
        <5>1. CASE k \in Waiting
          BY <1>2, <4>2, <5>1
        <5>2. CASE k = Warm
          BY <1>2, <5>2
        <5>3. CASE k \notin Waiting \cup {Warm}
          <6>1. about[k] = j /\ about[k] \notin Persisted /\ phase'[k] = phase[k]
            BY <1>2, <1>5, <3>1, <4>2, <5>3
          <6> QED
            BY <4>2, <6>1 DEF SessionInv, CallsInOrder
        <5> QED
          BY <5>1, <5>2, <5>3
      <4> QED
        BY <1>2, <3>1, <4>1, <4>2
    <3>2. CASE j \in {w, Warm}
      BY <1>2, <3>2
    <3>3. CASE j \notin Waiting \cup {Warm}
      <4>1. phase'[j] = phase[j] /\ about'[j] = about[j]
        BY <1>2, <3>3
      <4>2. ASSUME phase[j] = "factory", NEW k \in Calls \ {j}, about'[k] = about[j]
            PROVE  phase'[k] \notin {"factory", "removing"}
        <5>1. CASE k \in Waiting \ {w}
          <6>1. about[j] = k /\ k \notin Persisted /\ j # k
            BY <1>2, <1>5, <4>2, <5>1
          <6> QED
            BY <4>2, <6>1 DEF SessionInv, CallsInOrder
        <5>2. CASE k \in {w, Warm}
          BY <1>2, <5>2
        <5>3. CASE k \notin Waiting \cup {Warm}
          BY <1>2, <2>1, <4>1, <4>2, <5>3 DEF SessionInv, OneAtATime
        <5> QED
          BY <5>1, <5>2, <5>3
      <4>3. phase[j] \in {"factory", "removing"} => table[about[j]] = NoCall
        BY <2>1, <4>1 DEF SessionInv, OneAtATime
      <4> QED
        BY <4>1, <4>2, <4>3
    <3> QED
      BY <3>1, <3>2, <3>3
  <2> QED
    BY <2>1 DEF OneAtATime
<1>9. OpenIsListed'
  BY <1>1, <1>2, <1>3 DEF SessionInv, OpenIsListed
<1> QED
  BY <1>6, <1>7, <1>8, <1>9 DEF SessionInv

\* close() and dispose(), up to the index.
LEMMA CloseKeepsSessions ==
  ASSUME TypeOK, SessionInv, Grows, NEW made \in SUBSET Calls, NEW id \in [made -> Listed],
         CloseAll(made, id), \A j \in made : op[j] = "none" /\ op'[j] = "close",
         \A j \in Calls \ made : op'[j] = op[j]
  PROVE  SessionInv'
<1> DEFINE Closed(j) == \E k \in made : table[id[k]] = j
           Taken(i) == \E k \in made : id[k] = i
<1>1. /\ \A j \in made : phase'[j] = "removing" /\ about'[j] = id[j] /\ session[j] = "none"
      /\ \A j \in Calls \ made : phase'[j] = phase[j] /\ about'[j] = about[j]
  BY DEF CloseAll, SessionInv, CallsInOrder
<1>2. /\ \A j \in Calls : session'[j] = IF Closed(j) THEN "closed" ELSE session[j]
      /\ \A i \in Ids : table'[i] = IF Taken(i) THEN NoCall ELSE table[i]
  BY DEF CloseAll
<1>3. \A k \in made : id[k] \in Ids /\ table[id[k]] \in Calls /\ about[table[id[k]]] = id[k]
                        /\ session[table[id[k]]] = "open"
  BY DEF Listed, SessionInv, ListedIsOpen, TypeOK
<1>4. \A j \in Calls : Closed(j) => j \notin made /\ session[j] = "open"
  BY <1>1, <1>3
<1>5. Persisted \subseteq Persisted'
  BY PersistedGrows
<1>6. CallsInOrder'
  <2>1. ASSUME NEW j \in made
        PROVE  about'[j] \in Persisted' /\ session'[j] = "none"
    BY <1>1, <1>2, <1>3, <1>4, <1>5 DEF SessionInv, CallsInOrder
  <2>2. ASSUME NEW j \in Calls \ made
        PROVE  session'[j] = "none" <=> session[j] = "none"
    BY <1>2, <1>4
  <2> QED
    BY <1>1, <1>5, <2>1, <2>2 DEF SessionInv, CallsInOrder
<1>7. ListedIsOpen'
  <2>1. ASSUME NEW i \in Ids, table'[i] # NoCall
        PROVE  session'[table'[i]] = "open" /\ about'[table'[i]] = i
    <3>1. ~Taken(i) /\ table'[i] = table[i]
      BY <1>2, <2>1
    <3>2. table[i] \in Calls /\ session[table[i]] = "open" /\ about[table[i]] = i
      BY <2>1, <3>1 DEF SessionInv, ListedIsOpen, TypeOK
    <3>3. ~Closed(table[i]) /\ table[i] \notin made
      BY <1>1, <1>3, <3>1, <3>2
    <3> QED
      BY <1>1, <1>2, <3>1, <3>2, <3>3
  <2> QED
    BY <2>1 DEF ListedIsOpen
<1>8. /\ raced \subseteq raced'
      /\ \A i \in Ids : Taken(i) /\ i \notin raced' => Opening(i) = {}
  BY DEF CloseAll
<1>9. OneAtATime'
  <2>1. ASSUME NEW j \in Calls, about'[j] \notin raced', phase'[j] \in {"factory", "removing"}
        PROVE  table'[about'[j]] = NoCall
    <3>1. CASE j \in made
      BY <1>1, <1>2, <1>3, <3>1
    <3>2. CASE j \notin made
      <4>1. table[about[j]] = NoCall /\ about[j] \in Ids
        BY <1>1, <1>8, <2>1, <3>2 DEF SessionInv, OneAtATime, TypeOK
      <4> QED
        BY <1>1, <1>2, <3>2, <4>1
    <3> QED
      BY <3>1, <3>2
  <2>2. ASSUME NEW j \in Calls, about'[j] \notin raced', phase'[j] = "factory",
               NEW k \in Calls \ {j}, about'[k] = about'[j]
        PROVE  phase'[k] \notin {"factory", "removing"}
    <3>1. j \notin made /\ phase[j] = "factory" /\ about[j] = about'[j]
      BY <1>1, <2>2
    <3>2. k \notin made
      <4>1. Opening(about[j]) # {} /\ about[j] \in Ids
        BY <3>1 DEF Opening, TypeOK
      <4>2. ~Taken(about[j])
        BY <1>8, <2>2, <3>1, <4>1
      <4> QED
        BY <1>1, <2>2, <3>1, <4>2
    <3> QED
      BY <1>1, <1>8, <2>2, <3>1, <3>2 DEF SessionInv, OneAtATime
  <2> QED
    BY <2>1, <2>2 DEF OneAtATime
<1>10. OpenIsListed'
  <2>1. ASSUME NEW j \in Calls, session'[j] = "open", about'[j] \notin raced'
        PROVE  table'[about'[j]] = j
    <3>1. ~Closed(j) /\ session[j] = "open" /\ j \notin made
      BY <1>1, <1>2, <2>1
    <3>2. table[about[j]] = j /\ about'[j] = about[j]
      BY <1>1, <1>8, <2>1, <3>1 DEF SessionInv, OpenIsListed
    <3>3. about[j] \in Ids
      BY <3>1, PiAssumption, StoreAssumption DEF SessionInv, CallsInOrder, Persisted
    <3>4. ~Taken(about[j])
      BY <3>1, <3>2
    <3> QED
      BY <1>2, <3>2, <3>3, <3>4
  <2> QED
    BY <2>1 DEF OpenIsListed
<1> QED
  BY <1>6, <1>7, <1>9, <1>10 DEF SessionInv

LEMMA FinishRemoveKeepsSessions ==
  ASSUME TypeOK, SessionInv, Grows, NEW j \in Calls, FinishRemove(j)
  PROVE  SessionInv'
<1>1. /\ phase[j] = "removing" /\ phase' = [phase EXCEPT ![j] = "returned"]
      /\ table' = [table EXCEPT ![about[j]] = NoCall] /\ about[j] \in Ids
      /\ UNCHANGED <<op, about, session, raced>>
  BY DEF FinishRemove, TypeOK
<1>2. Persisted' = Persisted
  BY <1>1 DEF Persisted
<1>3. CallsInOrder'
  BY <1>1, <1>2 DEF SessionInv, CallsInOrder, TypeOK
<1>4. ListedIsOpen'
  BY <1>1 DEF SessionInv, ListedIsOpen, TypeOK
<1>5. OneAtATime'
  BY <1>1 DEF SessionInv, OneAtATime, TypeOK
<1>6. OpenIsListed'
  <2>1. ASSUME NEW k \in Calls, session[k] = "open", about[k] \notin raced
        PROVE  about[k] # about[j]
    BY <1>1, <2>1, PiAssumption DEF SessionInv, OneAtATime, OpenIsListed
  <2> QED
    BY <1>1, <2>1 DEF SessionInv, OpenIsListed, TypeOK
<1> QED
  BY <1>3, <1>4, <1>5, <1>6 DEF SessionInv

LEMMA NextSessions ==
  ASSUME TypeOK, RecordsArePersisted, SessionInv, [Next]_vars, op[Warm] \in {"none", "warm"}
  PROVE  SessionInv'
<1> USE PiAssumption
<1>0. Grows
  BY NothingIsUndone
<1>1. CASE WarmUp
  BY <1>0, <1>1, SpawnKeepsSessions
  DEF WarmUp, Make, TypeOK, Opens, SessionInv, CallsInOrder
<1>2. ASSUME NEW j \in Requests, Make(j, "start"), Spawn(j, j) PROVE SessionInv'
  BY <1>0, <1>2, SpawnKeepsSessions DEF Make, TypeOK, Opens, SessionInv, CallsInOrder
<1>3. ASSUME NEW j \in Requests, StartDefault(j), ~Spawn(j, j) PROVE SessionInv'
  <2>1. /\ UNCHANGED <<session, table, raced>>
        /\ session[j] = "none" /\ op'[j] = "start" /\ about[j] = NoId
        /\ \/ phase' = [phase EXCEPT ![j] = "waiting"] /\ about' = about
           \/ phase' = [phase EXCEPT ![j] = "returned"] /\ about' = [about EXCEPT ![j] = Warm]
        /\ \A k \in Calls \ {j} : op'[k] = op[k]
    BY <1>3 DEF StartDefault, Make, TypeOK, SessionInv, CallsInOrder
  <2>2. \A k \in Calls \ {j} : about'[k] = about[k] /\ phase'[k] = phase[k]
    BY <2>1 DEF TypeOK
  <2>3. CASE phase' = [phase EXCEPT ![j] = "waiting"] /\ about' = about
    <3>1. phase'[j] = "waiting" /\ about'[j] = NoId
      BY <2>1, <2>3 DEF TypeOK
    <3> QED
      BY <1>0, <2>1, <2>2, <3>1, QuietKeepsSessions
  <2>4. CASE phase' = [phase EXCEPT ![j] = "returned"]
    <3>1. phase'[j] \in Settled
      BY <2>4 DEF TypeOK, Settled
    <3> QED
      BY <1>0, <2>1, <2>2, <3>1, QuietKeepsSessions
  <2> QED
    BY <2>1, <2>3, <2>4
<1>4. ASSUME NEW j \in Requests, NEW i \in Ids, ResumeFile(j, i) PROVE SessionInv'
  BY <1>0, <1>4, SpawnKeepsSessions
  DEF ResumeFile, Make, TypeOK, Opens, SessionInv, CallsInOrder
<1>5. ASSUME NEW j \in Requests, NEW i \in Ids, ResumeRecord(j, i) PROVE SessionInv'
  <2>1. /\ UNCHANGED <<session, table, raced>>
        /\ session[j] = "none" /\ op'[j] = "resume" /\ phase'[j] = "lookup" /\ about'[j] = i
        /\ \A k \in Calls \ {j} : op'[k] = op[k] /\ about'[k] = about[k] /\ phase'[k] = phase[k]
    BY <1>5 DEF ResumeRecord, Make, TypeOK, SessionInv, CallsInOrder
  <2> QED
    BY <1>0, <2>1, QuietKeepsSessions
<1>6. ASSUME NEW j \in Requests, NEW i \in Ids, Close(j, i) PROVE SessionInv'
  <2>1. CASE i \in Listed
    <3>1. PICK id : id = [k \in {j} |-> i]
      OBVIOUS
    <3>2. id \in [{j} -> Listed] /\ CloseAll({j}, id)
      BY <1>6, <2>1, <3>1 DEF Close
    <3>3. op[j] = "none" /\ op'[j] = "close" /\ \A k \in Calls \ {j} : op'[k] = op[k]
      BY <1>6 DEF Close, Make, TypeOK
    <3> QED
      BY <1>0, <3>2, <3>3, CloseKeepsSessions
  <2>2. CASE i \notin Listed
    <3>1. /\ UNCHANGED <<about, session, table, raced>>
          /\ session[j] = "none" /\ op'[j] = "close" /\ phase'[j] \in Settled
          /\ \A k \in Calls \ {j} : op'[k] = op[k] /\ phase'[k] = phase[k]
      BY <1>6, <2>2 DEF Close, Make, TypeOK, SessionInv, CallsInOrder, Settled
    <3> QED
      BY <1>0, <3>1, QuietKeepsSessions
  <2> QED
    BY <2>1, <2>2
<1>7. CASE Dispose
  <2>1. PICK made \in SUBSET {j \in Requests : op[j] = "none"} :
          \E id \in [made -> Listed] :
            /\ op' = [j \in Calls |-> IF j \in made THEN "close" ELSE op[j]]
            /\ CloseAll(made, id)
    BY <1>7 DEF Dispose
  <2>2. PICK id \in [made -> Listed] : CloseAll(made, id)
    BY <2>1
  <2> QED
    BY <1>0, <2>1, <2>2, CloseKeepsSessions
<1>8. ASSUME NEW j \in Calls, RecordRead(j) PROVE SessionInv'
  <2>1. PICK i \in Ids : i = about[j]
    BY <1>8 DEF RecordRead, TypeOK
  <2>2. op'[j] = "resume" /\ session[j] = "none" /\ UNCHANGED op /\ op[j] = "resume"
    BY <1>8 DEF RecordRead, SessionInv, CallsInOrder
  <2>3. CASE Spawn(j, i) /\ i \in Load
    <3>1. i \in Persisted
      BY <2>3 DEF Load, RecordsArePersisted, TypeOK, StoreTypeOK
    <3>2. op'[j] \in Opens /\ \A k \in Calls \ {j} : op'[k] = op[k]
      BY <2>2 DEF Opens
    <3> QED
      BY <1>0, <2>2, <2>3, <3>1, <3>2, SpawnKeepsSessions
  <2>4. CASE ~(Spawn(j, i) /\ i \in Load)
    <3>1. /\ UNCHANGED <<about, session, table, raced>>
          /\ phase' = [phase EXCEPT ![j] = "failed"]
      BY <1>8, <2>1, <2>4 DEF RecordRead
    <3>2. phase'[j] \in Settled /\ \A k \in Calls \ {j} : phase'[k] = phase[k]
      BY <3>1 DEF TypeOK, Settled
    <3> QED
      BY <1>0, <2>2, <3>1, <3>2, QuietKeepsSessions
  <2> QED
    BY <2>3, <2>4
<1>9. ASSUME NEW j \in Calls, FactoryDone(j) PROVE SessionInv'
  BY <1>0, <1>9, FactoryDoneKeepsSessions
<1>10. ASSUME NEW j \in Calls, FactoryFails(j) \/ FailAdd(j) \/ FailRemove(j) PROVE SessionInv'
  <2>1. /\ UNCHANGED <<op, about, session, table, raced>>
        /\ phase[j] \in {"factory", "adding", "removing"}
        /\ \/ phase' = [phase EXCEPT ![j] = "failed"]
           \/ phase' = WarmUpFails /\ j = Warm
    <3>1. CASE FactoryFails(j)
      BY <3>1 DEF FactoryFails
    <3>2. CASE FailAdd(j)
      BY <3>2 DEF FailAdd
    <3>3. CASE FailRemove(j)
      BY <3>3 DEF FailRemove
    <3> QED
      BY <1>10, <3>1, <3>2, <3>3
  <2>2. \A k \in Calls : phase'[k] = phase[k] \/ (phase'[k] = "failed" /\ phase[k] # "none")
    <3>1. CASE phase' = [phase EXCEPT ![j] = "failed"]
      BY <2>1, <3>1 DEF TypeOK
    <3>2. CASE phase' = WarmUpFails /\ j = Warm
      BY <2>1, <3>2 DEF WarmUpFails, Waiting
    <3> QED
      BY <2>1, <3>1, <3>2
  <2>3. \A k \in Calls : phase[k] # "none" => op[k] # "none"
    BY DEF SessionInv, CallsInOrder
  <2> QED
    BY <1>0, <2>1, <2>2, <2>3, QuietKeepsSessions DEF Settled
<1>11. ASSUME NEW j \in Calls, ReadIndex(j) \/ OpenTemp(j) \/ WriteTemp(j) PROVE SessionInv'
  BY <1>0, <1>11, QuietKeepsSessions DEF ReadIndex, OpenTemp, WriteTemp, piVars
<1>12. ASSUME NEW j \in Calls, FinishAdd(j) PROVE SessionInv'
  <2>1. /\ UNCHANGED <<op, session, table, raced>> /\ phase[j] = "adding" /\ op[j] # "none"
    BY <1>12 DEF FinishAdd, SessionInv, CallsInOrder
  <2>2. CASE UNCHANGED about /\ phase' = [phase EXCEPT ![j] = "returned"]
    <3>1. phase'[j] \in Settled /\ \A k \in Calls \ {j} : phase'[k] = phase[k]
      BY <2>2 DEF TypeOK, Settled
    <3> QED
      BY <1>0, <2>1, <2>2, <3>1, QuietKeepsSessions
  <2>3. CASE ~(UNCHANGED about /\ phase' = [phase EXCEPT ![j] = "returned"])
    <3>1. j = Warm
      BY <1>12, <2>3 DEF FinishAdd
    <3>2. PICK w \in Waiting :
            /\ phase' = [k \in Calls |-> CASE k \in {w, Warm} -> "returned"
                                           [] k \in Waiting \ {w} -> "factory"
                                           [] OTHER -> phase[k]]
            /\ about' = [k \in Calls |-> CASE k = w -> Warm
                                           [] k \in Waiting \ {w} -> k
                                           [] OTHER -> about[k]]
      BY <1>12, <2>3, <3>1 DEF FinishAdd, WarmUpDone
    <3> QED
      BY <1>0, <2>1, <3>1, <3>2, WarmUpKeepsSessions
  <2> QED
    BY <2>2, <2>3
<1>13. ASSUME NEW j \in Calls, FinishRemove(j) PROVE SessionInv'
  BY <1>0, <1>13, FinishRemoveKeepsSessions
<1>14. CASE UNCHANGED vars
  BY <1>0, <1>14, QuietKeepsSessions DEF vars, piVars
<1>15. ASSUME NEW j \in Requests, StartOwn(j) PROVE SessionInv'
  BY <1>2, <1>15 DEF StartOwn
<1>16. ASSUME NEW j \in Requests, StartDefault(j) PROVE SessionInv'
  BY <1>2, <1>3, <1>16 DEF StartDefault
<1> QED
  BY <1>1, <1>4, <1>5, <1>6, <1>7, <1>8, <1>9, <1>10, <1>11, <1>12, <1>13, <1>14, <1>15,
     <1>16, Zenon DEF Next, Finish

-----------------------------------------------------------------------------
(* A session belongs to one chat.                                          *)

\* Steps that do not give the warm session away.
LEMMA NobodyGetsWarm ==
  ASSUME WarmIsGivenOnce, UNCHANGED prewarmed, op'[Warm] \in {"none", "warm"},
         phase[Warm] = "returned" => phase'[Warm] = "returned",
         \A j \in Requests : op'[j] = "start" =>
           \/ about'[j] = j
           \/ about'[j] # Warm /\ phase'[j] \in {"waiting", "failed"}
           \/ /\ op[j] = "start" /\ about'[j] = about[j]
              /\ phase'[j] \notin {"waiting", "failed"} =>
                   phase[j] \notin {"waiting", "failed"}
  PROVE  WarmIsGivenOnce'
<1>1. \A j \in Requests : op'[j] = "start" /\ about'[j] = Warm =>
                            op[j] = "start" /\ about[j] = Warm
  BY PiAssumption
<1> QED
  BY <1>1 DEF WarmIsGivenOnce

LEMMA NextWarm ==
  ASSUME TypeOK, CallsInOrder, WarmIsGivenOnce, [Next]_vars
  PROVE  WarmIsGivenOnce'
<1> USE PiAssumption
<1>1. CASE WarmUp
  <2>1. phase[Warm] = "none" /\ UNCHANGED prewarmed /\ op'[Warm] = "warm"
    BY <1>1 DEF WarmUp, Make, Spawn, CallsInOrder, TypeOK
  <2>2. \A j \in Requests : op'[j] = op[j] /\ about'[j] = about[j] /\ phase'[j] = phase[j]
    BY <1>1 DEF WarmUp, Make, Spawn, TypeOK
  <2> QED
    BY <2>1, <2>2, NobodyGetsWarm
<1>2. ASSUME NEW j \in Requests, Make(j, "start"), Spawn(j, j) PROVE WarmIsGivenOnce'
  <2>1. /\ about'[j] = j /\ UNCHANGED prewarmed /\ op'[Warm] = op[Warm]
        /\ \A k \in Calls \ {j} : op'[k] = op[k] /\ about'[k] = about[k] /\ phase'[k] = phase[k]
    BY <1>2 DEF Make, Spawn, TypeOK
  <2> QED
    BY <2>1, NobodyGetsWarm DEF WarmIsGivenOnce
<1>3. ASSUME NEW j \in Requests, StartDefault(j), ~Spawn(j, j) PROVE WarmIsGivenOnce'
  <2>1. /\ about[j] = NoId /\ op'[j] = "start" /\ j # Warm
        /\ \A k \in Calls \ {j} : op'[k] = op[k]
    BY <1>3 DEF StartDefault, Make, TypeOK, CallsInOrder
  <2>2. CASE WarmInFlight
    <3>1. /\ phase'[j] = "waiting" /\ UNCHANGED <<about, prewarmed>>
          /\ \A k \in Calls \ {j} : phase'[k] = phase[k]
      BY <1>3, <2>2 DEF StartDefault, TypeOK
    <3> QED
      BY <2>1, <3>1, NobodyGetsWarm DEF WarmIsGivenOnce
  <2>3. CASE ~WarmInFlight
    <3>1. /\ prewarmed /\ ~prewarmed' /\ about'[j] = Warm /\ phase'[j] = "returned"
          /\ \A k \in Calls \ {j} : phase'[k] = phase[k] /\ about'[k] = about[k]
      BY <1>3, <2>3 DEF StartDefault, TypeOK
    <3>2. \A k \in Requests : op[k] = "start" => about[k] # Warm
      BY <3>1 DEF WarmIsGivenOnce
    <3> QED
      BY <2>1, <3>1, <3>2 DEF WarmIsGivenOnce
  <2> QED
    BY <2>2, <2>3
<1>4. ASSUME NEW j \in Requests, NEW i \in Ids,
             ResumeFile(j, i) \/ ResumeRecord(j, i) \/ Close(j, i)
      PROVE  WarmIsGivenOnce'
  <2>1. /\ op'[j] \in {"resume", "close"} /\ UNCHANGED prewarmed
        /\ \A k \in Calls \ {j} : op'[k] = op[k] /\ about'[k] = about[k] /\ phase'[k] = phase[k]
    BY <1>4 DEF ResumeFile, ResumeRecord, Close, CloseAll, Make, Spawn, TypeOK
  <2> QED
    BY <2>1, NobodyGetsWarm DEF WarmIsGivenOnce
<1>5. CASE Dispose
  <2>1. PICK made \in SUBSET {j \in Requests : op[j] = "none"} :
          \E id \in [made -> Listed] :
            /\ op' = [j \in Calls |-> IF j \in made THEN "close" ELSE op[j]]
            /\ CloseAll(made, id)
    BY <1>5 DEF Dispose
  <2>2. /\ UNCHANGED prewarmed /\ \A k \in made : op'[k] = "close"
        /\ \A k \in Calls \ made : op'[k] = op[k] /\ about'[k] = about[k] /\ phase'[k] = phase[k]
    BY <2>1 DEF CloseAll
  <2> QED
    BY <2>1, <2>2, NobodyGetsWarm DEF WarmIsGivenOnce
<1>6. ASSUME NEW j \in Calls, RecordRead(j) PROVE WarmIsGivenOnce'
  <2>1. /\ op[j] = "resume" /\ UNCHANGED <<op, prewarmed>> /\ j # Warm
        /\ \A k \in Calls \ {j} : about'[k] = about[k] /\ phase'[k] = phase[k]
    BY <1>6 DEF RecordRead, Spawn, TypeOK, CallsInOrder, WarmIsGivenOnce
  <2> QED
    BY <2>1, NobodyGetsWarm DEF WarmIsGivenOnce
<1>7. ASSUME NEW j \in Calls,
             \/ FactoryDone(j) \/ FactoryFails(j) \/ FailAdd(j)
             \/ FinishRemove(j) \/ FailRemove(j)
      PROVE  WarmIsGivenOnce'
  <2>1. /\ UNCHANGED <<op, about, prewarmed>> /\ phase[j] \in {"factory", "adding", "removing"}
        /\ \/ \E p : phase' = [phase EXCEPT ![j] = p]
           \/ phase' = WarmUpFails /\ j = Warm
    BY <1>7 DEF FactoryDone, FactoryFails, FailAdd, FinishRemove, FailRemove
  <2>2. \A k \in Calls : \/ phase'[k] = phase[k] \/ phase'[k] = "failed"
                         \/ k = j
    BY <2>1 DEF WarmUpFails, TypeOK
  <2>3. phase[Warm] = "returned" => phase'[Warm] = "returned"
    <3>1. CASE j = Warm
      BY <2>1, <3>1
    <3>2. CASE j # Warm
      BY <2>1, <3>2 DEF TypeOK
    <3> QED
      BY <3>1, <3>2
  <2> QED
    BY <2>1, <2>2, <2>3, NobodyGetsWarm DEF WarmIsGivenOnce
<1>8. ASSUME NEW j \in Calls, ReadIndex(j) \/ OpenTemp(j) \/ WriteTemp(j)
      PROVE  WarmIsGivenOnce'
  BY <1>8, NobodyGetsWarm DEF ReadIndex, OpenTemp, WriteTemp, piVars, WarmIsGivenOnce
<1>9. ASSUME NEW j \in Calls, FinishAdd(j) PROVE WarmIsGivenOnce'
  <2>0. UNCHANGED op /\ phase[j] = "adding"
    BY <1>9 DEF FinishAdd
  <2>1. CASE j # Warm
    <3>1. /\ UNCHANGED <<about, prewarmed>>
          /\ \A k \in Calls \ {j} : phase'[k] = phase[k]
      BY <1>9, <2>1 DEF FinishAdd, TypeOK
    <3> QED
      BY <2>0, <2>1, <3>1, NobodyGetsWarm DEF WarmIsGivenOnce
  <2>2. CASE j = Warm
    <3>1. ~prewarmed /\ \A k \in Requests : op[k] = "start" => about[k] # Warm
      BY <2>0, <2>2 DEF WarmIsGivenOnce
    <3>2. CASE Waiting = {}
      <4>1. /\ UNCHANGED about /\ prewarmed' /\ phase'[Warm] = "returned"
            /\ \A k \in Requests : phase'[k] = phase[k]
        BY <1>9, <2>2, <3>2 DEF FinishAdd, WarmUpDone, TypeOK
      <4> QED
        BY <2>0, <3>1, <4>1 DEF WarmIsGivenOnce
    <3>3. CASE Waiting # {}
      <4>1. PICK w \in Waiting :
              /\ phase' = [k \in Calls |-> CASE k \in {w, Warm} -> "returned"
                                             [] k \in Waiting \ {w} -> "factory"
                                             [] OTHER -> phase[k]]
              /\ about' = [k \in Calls |-> CASE k = w -> Warm
                                             [] k \in Waiting \ {w} -> k
                                             [] OTHER -> about[k]]
              /\ UNCHANGED prewarmed
        BY <1>9, <2>2, <3>3 DEF FinishAdd, WarmUpDone
      <4>2. /\ w \in Requests /\ phase'[Warm] = "returned" /\ about'[w] = Warm
            /\ \A k \in Waiting \ {w} : about'[k] = k
            /\ \A k \in Requests \ Waiting : phase'[k] = phase[k] /\ about'[k] = about[k]
        BY <4>1 DEF Waiting
      <4>3. \A k \in Requests : op[k] = "start" /\ about'[k] = Warm => k = w
        BY <3>1, <4>2
      <4> QED
        BY <2>0, <3>1, <4>1, <4>2, <4>3 DEF WarmIsGivenOnce, Waiting
    <3> QED
      BY <3>2, <3>3
  <2> QED
    BY <2>1, <2>2
<1>10. CASE UNCHANGED vars
  BY <1>10 DEF vars, piVars, WarmIsGivenOnce
<1>11. ASSUME NEW j \in Requests, StartOwn(j) PROVE WarmIsGivenOnce'
  BY <1>2, <1>11 DEF StartOwn
<1>12. ASSUME NEW j \in Requests, StartDefault(j) PROVE WarmIsGivenOnce'
  BY <1>2, <1>3, <1>12 DEF StartDefault
<1> QED
  BY <1>1, <1>4, <1>5, <1>6, <1>7, <1>8, <1>9, <1>10, <1>11, <1>12, Zenon DEF Next, Finish

-----------------------------------------------------------------------------
(* Handles are live.                                                       *)

\* Id i is listed, or somebody closed it.
Live(i) == i \in Listed \/ \E k \in Requests : op[k] = "close" /\ about[k] = i

HandlesAreLive ==
  /\ \A j \in Calls : /\ op[j] \in Opens /\ phase[j] \in {"adding", "returned"}
                      => about[j] \in Ids /\ Live(about[j])
  /\ op[Warm] = "warm" => about[Warm] = Warm
  /\ prewarmed => Live(Warm)

\* A session is taken off the list by a call that closes it.
LEMMA LiveStays ==
  ASSUME TypeOK, CallsInOrder, op[Warm] \in {"none", "warm"}, [Next]_vars,
         NEW i \in Ids, Live(i)
  PROVE  Live(i)'
<1> USE PiAssumption
<1>0. Grows
  BY NothingIsUndone
<1>1. ASSUME NEW k \in Requests, op[k] = "close"
      PROVE  op'[k] = "close" /\ about'[k] = about[k]
  <2>1. op'[k] = "close" /\ op[k] # "none"
    BY <1>0, <1>1 DEF Grows
  <2>2. phase[k] \notin {"waiting", "lookup", "factory"}
    BY <1>1 DEF CallsInOrder
  <2>3. CASE WarmUp \/ UNCHANGED vars
    <3>1. CASE WarmUp
      BY <2>1, <3>1 DEF WarmUp, Make, Spawn, TypeOK
    <3>2. CASE UNCHANGED vars
      BY <2>1, <3>2 DEF vars, piVars
    <3> QED
      BY <2>3, <3>1, <3>2
  <2>10. CASE Dispose
    <3>1. PICK made \in SUBSET {j \in Requests : op[j] = "none"} :
            \E id \in [made -> Listed] : CloseAll(made, id)
      BY <2>10 DEF Dispose
    <3>2. k \notin made
      BY <2>1
    <3> QED
      BY <2>1, <3>1, <3>2 DEF CloseAll
  <2>4. ASSUME NEW j \in Requests, StartOwn(j) \/ StartDefault(j) PROVE about'[k] = about[k]
    BY <1>1, <2>4 DEF StartOwn, StartDefault, Make, Spawn, TypeOK
  <2>5. ASSUME NEW j \in Requests, NEW h \in Ids,
               ResumeFile(j, h) \/ ResumeRecord(j, h) \/ Close(j, h)
        PROVE  about'[k] = about[k]
    BY <1>1, <2>5 DEF ResumeFile, ResumeRecord, Close, CloseAll, Make, Spawn, TypeOK
  <2>6. ASSUME NEW j \in Calls, RecordRead(j) PROVE about'[k] = about[k]
    BY <2>2, <2>6 DEF RecordRead, Spawn, TypeOK
  <2>7. ASSUME NEW j \in Calls,
               \/ FactoryDone(j) \/ FactoryFails(j) \/ FailAdd(j) \/ FinishRemove(j)
               \/ FailRemove(j) \/ ReadIndex(j) \/ OpenTemp(j) \/ WriteTemp(j)
        PROVE  about'[k] = about[k]
    BY <2>7 DEF FactoryDone, FactoryFails, FailAdd, FinishRemove, FailRemove, ReadIndex,
                OpenTemp, WriteTemp, piVars
  <2>8. ASSUME NEW j \in Calls, FinishAdd(j) PROVE about'[k] = about[k]
    <3>1. k \notin Waiting
      BY <2>2 DEF Waiting
    <3> QED
      BY <2>8, <3>1 DEF FinishAdd, WarmUpDone, TypeOK
  <2>9. about'[k] = about[k]
    BY <2>3, <2>4, <2>5, <2>6, <2>7, <2>8, <2>10, Zenon DEF Next, Finish
  <2> QED
    BY <2>1, <2>9
<1>2. ASSUME i \in Listed, i \notin Listed'
      PROVE  \E k \in Requests : op'[k] = "close" /\ about'[k] = i
  <2>0. table[i] # NoCall /\ table'[i] = NoCall
    BY <1>2 DEF Listed
  <2>1. CASE WarmUp \/ UNCHANGED vars
    BY <2>0, <2>1 DEF WarmUp, Spawn, vars, piVars
  <2>2. ASSUME NEW j \in Requests, StartOwn(j) \/ StartDefault(j) PROVE FALSE
    BY <2>0, <2>2 DEF StartOwn, StartDefault, Spawn
  <2>3. ASSUME NEW j \in Requests, NEW h \in Ids, ResumeFile(j, h) \/ ResumeRecord(j, h)
        PROVE  FALSE
    BY <2>0, <2>3 DEF ResumeFile, ResumeRecord, Spawn
  <2>4. ASSUME NEW j \in Requests, NEW h \in Ids, Close(j, h)
        PROVE  op'[j] = "close" /\ about'[j] = i
    <3>1. CloseAll({j}, [k \in {j} |-> h])
      BY <2>0, <2>4 DEF Close
    <3> QED
      BY <2>0, <2>4, <3>1 DEF Close, CloseAll, Make, TypeOK
  <2>5. CASE Dispose
    <3>1. PICK made \in SUBSET {j \in Requests : op[j] = "none"} :
            \E id \in [made -> Listed] :
              /\ op' = [j \in Calls |-> IF j \in made THEN "close" ELSE op[j]]
              /\ CloseAll(made, id)
      BY <2>5 DEF Dispose
    <3>2. PICK id : CloseAll(made, id)
      BY <3>1
    <3>3. PICK k \in made : id[k] = i
      BY <2>0, <3>2 DEF CloseAll
    <3> QED
      BY <3>1, <3>2, <3>3 DEF CloseAll
  <2>6. ASSUME NEW j \in Calls, FinishRemove(j)
        PROVE  j \in Requests /\ op'[j] = "close" /\ about'[j] = i
    <3>1. about[j] = i
      BY <2>0, <2>6 DEF FinishRemove, TypeOK
    <3>2. op[j] = "close" /\ UNCHANGED <<op, about>>
      BY <2>6 DEF FinishRemove, CallsInOrder
    <3> QED
      BY <3>1, <3>2
  <2>7. ASSUME NEW j \in Calls, FactoryDone(j) PROVE FALSE
    BY <2>0, <2>7 DEF FactoryDone, TypeOK
  <2>8. ASSUME NEW j \in Calls,
               \/ FactoryFails(j) \/ FailAdd(j) \/ FailRemove(j) \/ ReadIndex(j)
               \/ OpenTemp(j) \/ WriteTemp(j) \/ FinishAdd(j) \/ RecordRead(j)
        PROVE  FALSE
    BY <2>0, <2>8 DEF FactoryFails, FailAdd, FailRemove, ReadIndex, OpenTemp, WriteTemp,
                      FinishAdd, RecordRead, Spawn, piVars
  <2> QED
    BY <2>1, <2>2, <2>3, <2>4, <2>5, <2>6, <2>7, <2>8, Zenon DEF Next, Finish
<1> QED
  BY <1>1, <1>2 DEF Live, Listed

\* What a call is given by spawn().
LEMMA SpawnGives ==
  ASSUME TypeOK, NEW j \in Calls, NEW i \in Ids, Spawn(j, i)
  PROVE  /\ about'[j] = i /\ phase'[j] \in {"returned", "factory"}
         /\ phase'[j] = "returned" => i \in Listed'
         /\ \A k \in Calls \ {j} : about'[k] = about[k] /\ phase'[k] = phase[k]
         /\ UNCHANGED <<session, table, prewarmed>>
BY DEF Spawn, TypeOK, Listed

\* Call j holds a session id.
Holding(j) == op[j] \in Opens /\ phase[j] \in {"adding", "returned"}

\* A call that comes to hold an id holds a live one.
LEMMA NextHolding ==
  ASSUME TypeOK, SessionInv, WarmIsGivenOnce, HandlesAreLive, [Next]_vars,
         NEW k \in Calls, Holding(k)', ~(Holding(k) /\ about'[k] = about[k])
  PROVE  about'[k] \in Ids /\ Live(about[k])'
<1> USE PiAssumption
<1>0. op'[k] \in Opens /\ phase'[k] \in {"adding", "returned"} /\ op'[k] # "close"
  BY DEF Holding, Opens
<1>1. ASSUME NEW j \in Calls, NEW i \in Ids, Spawn(j, i),
             \A h \in Calls \ {j} : op'[h] = op[h]
      PROVE  about'[k] \in Ids /\ Live(about[k])'
  BY <1>0, <1>1, SpawnGives DEF Holding, Live
<1>2. ASSUME NEW i \in Ids, Live(i) PROVE Live(i)'
  BY <1>2, LiveStays DEF SessionInv, WarmIsGivenOnce
<1>3. CASE WarmUp
  BY <1>1, <1>3 DEF WarmUp, Make, TypeOK
<1>4. ASSUME NEW j \in Requests, StartOwn(j) PROVE about'[k] \in Ids /\ Live(about[k])'
  BY <1>1, <1>4 DEF StartOwn, Make, TypeOK
<1>5. ASSUME NEW j \in Requests, StartDefault(j)
      PROVE  about'[k] \in Ids /\ Live(about[k])'
  <2>1. \A h \in Calls \ {j} : op'[h] = op[h]
    BY <1>5 DEF StartDefault, Make, TypeOK
  <2>2. CASE Spawn(j, j)
    BY <1>1, <2>1, <2>2
  <2>3. CASE ~Spawn(j, j)
    <3>1. \A h \in Calls \ {j} : about'[h] = about[h] /\ phase'[h] = phase[h]
      BY <1>5, <2>3 DEF StartDefault, TypeOK
    <3>2. k = j
      BY <1>0, <2>1, <3>1 DEF Holding
    <3>3. about'[j] = Warm /\ prewarmed
      BY <1>0, <1>5, <2>3, <3>2 DEF StartDefault, TypeOK
    <3> QED
      BY <1>2, <3>2, <3>3 DEF HandlesAreLive
  <2> QED
    BY <2>2, <2>3
<1>6. ASSUME NEW j \in Requests, NEW i \in Ids, ResumeFile(j, i)
      PROVE  about'[k] \in Ids /\ Live(about[k])'
  BY <1>1, <1>6 DEF ResumeFile, Make, TypeOK
<1>7. ASSUME NEW j \in Requests, NEW i \in Ids, ResumeRecord(j, i) \/ Close(j, i) PROVE FALSE
  <2>1. \A h \in Calls \ {j} : op'[h] = op[h] /\ about'[h] = about[h] /\ phase'[h] = phase[h]
    BY <1>7 DEF ResumeRecord, Close, CloseAll, Make, TypeOK
  <2>2. op'[j] = "close" \/ phase'[j] = "lookup"
    BY <1>7 DEF ResumeRecord, Close, Make, TypeOK
  <2> QED
    BY <1>0, <2>1, <2>2 DEF Holding
<1>8. ASSUME Dispose PROVE FALSE
  <2>1. PICK made \in SUBSET {j \in Requests : op[j] = "none"} :
          \E id \in [made -> Listed] :
            /\ op' = [j \in Calls |-> IF j \in made THEN "close" ELSE op[j]]
            /\ CloseAll(made, id)
    BY <1>8 DEF Dispose
  <2>2. k \notin made
    BY <1>0, <2>1
  <2> QED
    BY <1>0, <2>1, <2>2 DEF CloseAll, Holding
<1>9. ASSUME NEW j \in Calls, RecordRead(j) PROVE about'[k] \in Ids /\ Live(about[k])'
  <2>1. PICK i \in Ids : i = about[j]
    BY <1>9 DEF RecordRead, TypeOK
  <2>2. CASE Spawn(j, i)
    BY <1>1, <1>9, <2>2 DEF RecordRead
  <2>3. CASE ~Spawn(j, i)
    <3>1. UNCHANGED <<op, about>> /\ phase' = [phase EXCEPT ![j] = "failed"]
      BY <1>9, <2>1, <2>3 DEF RecordRead
    <3> QED
      BY <1>0, <3>1 DEF Holding, TypeOK
  <2> QED
    BY <2>2, <2>3
<1>10. ASSUME NEW j \in Calls, FactoryDone(j) PROVE about'[k] \in Ids /\ Live(about[k])'
  <2>1. /\ UNCHANGED <<op, about>> /\ about[j] \in Ids /\ table'[about[j]] = j
        /\ \A h \in Calls \ {j} : phase'[h] = phase[h]
    BY <1>10 DEF FactoryDone, TypeOK
  <2>2. k = j
    BY <1>0, <2>1 DEF Holding
  <2> QED
    BY <2>1, <2>2, StoreAssumption DEF Live, Listed
<1>11. ASSUME NEW j \in Calls,
              \/ FactoryFails(j) \/ FailAdd(j) \/ FinishRemove(j) \/ FailRemove(j)
       PROVE  FALSE
  <2>1. /\ UNCHANGED <<op, about>>
        /\ \/ phase' = [phase EXCEPT ![j] = "failed"]
           \/ phase' = WarmUpFails
           \/ phase' = [phase EXCEPT ![j] = "returned"] /\ op[j] = "close"
    BY <1>11 DEF FactoryFails, FailAdd, FinishRemove, FailRemove, SessionInv, CallsInOrder
  <2>2. phase'[k] = phase[k] \/ phase'[k] = "failed" \/ op'[k] = "close"
    <3>1. CASE phase' = WarmUpFails
      BY <3>1 DEF WarmUpFails
    <3>2. CASE phase' # WarmUpFails
      BY <2>1, <3>2 DEF TypeOK
    <3> QED
      BY <3>1, <3>2
  <2> QED
    BY <1>0, <2>1, <2>2 DEF Holding
<1>12. ASSUME NEW j \in Calls, ReadIndex(j) \/ OpenTemp(j) \/ WriteTemp(j) PROVE FALSE
  BY <1>0, <1>12 DEF ReadIndex, OpenTemp, WriteTemp, piVars, Holding
<1>13. ASSUME NEW j \in Calls, FinishAdd(j) PROVE about'[k] \in Ids /\ Live(about[k])'
  <2>1. UNCHANGED op /\ phase[j] = "adding" /\ op[j] \in Opens
    BY <1>13 DEF FinishAdd, SessionInv, CallsInOrder, Opens
  <2>2. CASE UNCHANGED about
    <3>1. k \notin Waiting \/ phase'[k] = "factory" \/ phase'[k] = phase[k]
      BY <1>13, <2>1, <2>2 DEF FinishAdd, WarmUpDone, Waiting, SessionInv, CallsInOrder, TypeOK
    <3> QED
      BY <1>0, <1>13, <2>1, <2>2, <3>1 DEF FinishAdd, WarmUpDone, Holding, TypeOK
  <2>3. CASE ~UNCHANGED about
    <3>1. j = Warm
      BY <1>13, <2>3 DEF FinishAdd
    <3>2. PICK w \in Waiting :
            /\ phase' = [h \in Calls |-> CASE h \in {w, Warm} -> "returned"
                                           [] h \in Waiting \ {w} -> "factory"
                                           [] OTHER -> phase[h]]
            /\ about' = [h \in Calls |-> CASE h = w -> Warm
                                           [] h \in Waiting \ {w} -> h
                                           [] OTHER -> about[h]]
      BY <1>13, <2>3, <3>1 DEF FinishAdd, WarmUpDone
    <3>3. Live(Warm)
      BY <2>1, <3>1 DEF HandlesAreLive, WarmIsGivenOnce, Opens
    <3>4. k = w \/ (about'[k] = about[k] /\ (phase'[k] = phase[k] \/ k = Warm))
      BY <1>0, <3>2 DEF Waiting
    <3>5. k = w
      BY <1>0, <2>1, <3>1, <3>4 DEF Holding
    <3>6. about'[k] = Warm
      BY <3>2, <3>5
    <3> QED
      BY <1>2, <3>3, <3>6
  <2> QED
    BY <2>2, <2>3
<1>14. ASSUME UNCHANGED vars PROVE FALSE
  BY <1>0, <1>14 DEF vars, piVars, Holding
<1> QED
  BY <1>3, <1>4, <1>5, <1>6, <1>7, <1>8, <1>9, <1>10, <1>11, <1>12, <1>13, <1>14, Zenon
  DEF Next, Finish

\* The warm-up keeps its id, and a session that becomes the warm one is live.
LEMMA NextWarmId ==
  ASSUME TypeOK, SessionInv, WarmIsGivenOnce, HandlesAreLive, [Next]_vars
  PROVE  /\ op'[Warm] = "warm" => about'[Warm] = Warm
         /\ prewarmed' /\ ~prewarmed => Live(Warm)
<1> USE PiAssumption
<1>1. CASE WarmUp
  BY <1>1 DEF WarmUp, Make, Spawn, TypeOK
<1>2. ASSUME NEW j \in Requests, StartOwn(j) \/ StartDefault(j)
      PROVE  op'[Warm] = op[Warm] /\ about'[Warm] = about[Warm] /\ (prewarmed' => prewarmed)
  BY <1>2 DEF StartOwn, StartDefault, Make, Spawn, TypeOK
<1>3. ASSUME NEW j \in Requests, NEW i \in Ids,
             ResumeFile(j, i) \/ ResumeRecord(j, i) \/ Close(j, i)
      PROVE  op'[Warm] = op[Warm] /\ about'[Warm] = about[Warm] /\ (prewarmed' => prewarmed)
  BY <1>3 DEF ResumeFile, ResumeRecord, Close, CloseAll, Make, Spawn, TypeOK
<1>4. ASSUME Dispose
      PROVE  op'[Warm] = op[Warm] /\ about'[Warm] = about[Warm] /\ (prewarmed' => prewarmed)
  <2>1. PICK made \in SUBSET {j \in Requests : op[j] = "none"} :
          \E id \in [made -> Listed] :
            /\ op' = [j \in Calls |-> IF j \in made THEN "close" ELSE op[j]]
            /\ CloseAll(made, id)
    BY <1>4 DEF Dispose
  <2> QED
    BY <2>1 DEF CloseAll
<1>5. ASSUME NEW j \in Calls, RecordRead(j)
      PROVE  op'[Warm] = op[Warm] /\ about'[Warm] = about[Warm] /\ (prewarmed' => prewarmed)
  <2>1. j # Warm
    BY <1>5 DEF RecordRead, SessionInv, CallsInOrder, WarmIsGivenOnce
  <2> QED
    BY <1>5, <2>1 DEF RecordRead, Spawn, TypeOK
<1>6. ASSUME NEW j \in Calls,
             \/ FactoryDone(j) \/ FactoryFails(j) \/ FailAdd(j) \/ FinishRemove(j)
             \/ FailRemove(j) \/ ReadIndex(j) \/ OpenTemp(j) \/ WriteTemp(j)
      PROVE  op'[Warm] = op[Warm] /\ about'[Warm] = about[Warm] /\ (prewarmed' => prewarmed)
  BY <1>6 DEF FactoryDone, FactoryFails, FailAdd, FinishRemove, FailRemove, ReadIndex,
              OpenTemp, WriteTemp, piVars
<1>7. ASSUME NEW j \in Calls, FinishAdd(j)
      PROVE  /\ op'[Warm] = op[Warm] /\ about'[Warm] = about[Warm]
             /\ prewarmed' /\ ~prewarmed => Live(Warm)
  <2>1. op'[Warm] = op[Warm] /\ about'[Warm] = about[Warm]
    <3>1. CASE UNCHANGED about
      BY <1>7, <3>1 DEF FinishAdd
    <3>2. CASE ~UNCHANGED about
      <4>1. PICK w \in Waiting :
              about' = [h \in Calls |-> CASE h = w -> Warm
                                          [] h \in Waiting \ {w} -> h
                                          [] OTHER -> about[h]]
        BY <1>7, <3>2 DEF FinishAdd, WarmUpDone
      <4> QED
        BY <1>7, <4>1 DEF FinishAdd, Waiting
    <3> QED
      BY <3>1, <3>2
  <2>2. ASSUME prewarmed', ~prewarmed PROVE Live(Warm)
    <3>1. j = Warm /\ phase[j] = "adding"
      BY <1>7, <2>2 DEF FinishAdd
    <3>2. op[Warm] \in Opens /\ op[Warm] = "warm"
      BY <3>1 DEF WarmIsGivenOnce, SessionInv, CallsInOrder, Opens
    <3> QED
      BY <3>1, <3>2 DEF HandlesAreLive
  <2> QED
    BY <2>1, <2>2
<1>8. CASE UNCHANGED vars
  BY <1>8 DEF vars, piVars, HandlesAreLive
<1>9. ASSUME op'[Warm] = op[Warm], about'[Warm] = about[Warm], prewarmed' => prewarmed
      PROVE  /\ op'[Warm] = "warm" => about'[Warm] = Warm
             /\ prewarmed' /\ ~prewarmed => Live(Warm)
  BY <1>9 DEF HandlesAreLive
<1> QED
  BY <1>1, <1>2, <1>3, <1>4, <1>5, <1>6, <1>7, <1>8, <1>9 DEF Next, Finish, HandlesAreLive

LEMMA NextHandles ==
  ASSUME TypeOK, SessionInv, WarmIsGivenOnce, HandlesAreLive, [Next]_vars
  PROVE  HandlesAreLive'
<1>1. ASSUME NEW i \in Ids, Live(i) PROVE Live(i)'
  BY <1>1, LiveStays DEF SessionInv, WarmIsGivenOnce
<1>2. ASSUME NEW j \in Calls, Holding(j)' PROVE about'[j] \in Ids /\ Live(about[j])'
  <2>1. CASE Holding(j) /\ about'[j] = about[j]
    <3>1. about[j] \in Ids /\ Live(about[j])
      BY <2>1 DEF HandlesAreLive, Holding
    <3>2. PICK i \in Ids : i = about[j]
      BY <3>1
    <3>3. Live(i)'
      BY <1>1, <3>1, <3>2
    <3> QED
      BY <2>1, <3>2, <3>3
  <2>2. CASE ~(Holding(j) /\ about'[j] = about[j])
    BY <1>2, <2>2, NextHolding
  <2> QED
    BY <2>1, <2>2
<1>3. op'[Warm] = "warm" => about'[Warm] = Warm
  BY NextWarmId
<1>4. prewarmed' => Live(Warm)'
  BY <1>1, NextWarmId, PiAssumption DEF HandlesAreLive
<1> QED
  BY <1>2, <1>3, <1>4 DEF HandlesAreLive, Holding

-----------------------------------------------------------------------------
(* The theorems.                                                           *)

Inv == TypeOK /\ RecordsArePersisted /\ SessionInv /\ WarmIsGivenOnce /\ HandlesAreLive

LEMMA InvHolds == Spec => []Inv
<1>1. Init => Inv
  <2> SUFFICES ASSUME Init PROVE Inv
    OBVIOUS
  <2>1. TypeOK
    BY InitTypes
  <2>2. /\ \A j \in Calls : /\ op[j] = "none" /\ phase[j] = "none" /\ about[j] = NoId
                            /\ session[j] = "none"
        /\ \A i \in Ids : table[i] = NoCall
        /\ ~prewarmed
    BY DEF Init
  <2>3. RecordsArePersisted
    BY DEF Init, StoreInit, Idle, Empty, Whole, RecordsArePersisted, Persisted
  <2>4. SessionInv
    BY <2>2 DEF SessionInv, CallsInOrder, ListedIsOpen, OneAtATime, OpenIsListed
  <2>5. WarmIsGivenOnce /\ HandlesAreLive
    BY <2>2, PiAssumption DEF WarmIsGivenOnce, HandlesAreLive, Opens
  <2> QED
    BY <2>1, <2>3, <2>4, <2>5 DEF Inv
<1>2. Inv /\ [Next]_vars => Inv'
  <2> SUFFICES ASSUME Inv, [Next]_vars PROVE Inv'
    OBVIOUS
  <2>1. TypeOK'
    BY NextTypes DEF Inv
  <2>2. RecordsArePersisted'
    BY NextRecords DEF Inv, SessionInv
  <2>3. SessionInv'
    BY NextSessions DEF Inv, WarmIsGivenOnce
  <2>4. WarmIsGivenOnce'
    BY NextWarm DEF Inv, SessionInv
  <2>5. HandlesAreLive'
    BY NextHandles DEF Inv
  <2> QED
    BY <2>1, <2>2, <2>3, <2>4, <2>5 DEF Inv
<1> QED
  BY <1>1, <1>2, PTL DEF Spec

\* No two calls of start() are given the same session, however many of them
\* wait for the warm-up (adapter.ts:204).
THEOREM OneChat == Spec => []OneChatPerSession
<1>1. Inv => OneChatPerSession
  BY PiAssumption DEF Inv, WarmIsGivenOnce, OneChatPerSession
<1> QED
  BY <1>1, InvHolds, PTL

\* The session whose id a start or a resume returned stays live until a call
\* closes it (adapter.ts:243).
THEOREM HandlesLive == Spec => []HandleIsLive
<1>1. Inv => HandleIsLive
  BY PiAssumption DEF Inv, HandlesAreLive, Live, Opens, HandleIsLive
<1> QED
  BY <1>1, InvHolds, PTL

\* An open session is listed under its id, unless two calls met while it was
\* being opened or closed (adapter.ts:257).
THEOREM OpenListed == Spec => []OpenIsListed
<1>1. Inv => OpenIsListed
  BY DEF Inv, SessionInv
<1> QED
  BY <1>1, InvHolds, PTL

-----------------------------------------------------------------------------
(* The index.                                                              *)

Early == {"none", "waiting", "lookup", "factory"}
Busy == {"adding", "removing"}

\* A call rewrites the index while it adds or removes, and once.
RewritesOfCalls ==
  \A j \in Calls : /\ j \in UnderWay <=> phase[j] \in Busy
                   /\ phase[j] \in Early => rewrite[j].step = "none"

\* The temporary file is not the index, and a call's file is new when it makes it.
FilesAreNew ==
  /\ temp # target
  /\ \A j \in Calls : rewrite[j].step \in {"none", "read", "open"} => target # j /\ temp # j

\* What a rewrite that is alone has, at each step, of what it is to leave.
SerialRewrites ==
  ~overlapped =>
    /\ content[target].text = "whole"
    /\ \A j, k \in UnderWay : j = k
    /\ UnderWay = {} => Load = expected
    /\ \A j \in UnderWay :
         /\ rewrite[j].step = "read" =>
              expected = IF phase[j] = "adding" THEN Load \cup {about[j]} ELSE Load \ {about[j]}
         /\ rewrite[j].step \in {"open", "write"} => rewrite[j].records = expected
         /\ rewrite[j].step = "write" =>
              rewrite[j].file = temp /\ temp # NoFile /\ content[temp] = Empty
         /\ rewrite[j].step = "rename" => temp # NoFile /\ content[temp] = Whole(expected)

IndexInv == RewritesOfCalls /\ FilesAreNew /\ SerialRewrites

\* What a step that rewrites for the calls in made leaves of the others.
Others(made) ==
  \A k \in Calls \ made :
    /\ phase[k] \in Busy => phase'[k] = phase[k] /\ about'[k] = about[k]
    /\ phase[k] \notin Busy => phase'[k] \notin Busy
    /\ phase'[k] \in Early => phase[k] \in Early

(* A set of one member at most has no two.                                 *)
LEMMA OneMember ==
  ASSUME NEW S, IsFiniteSet(S), ~(Cardinality(S) > 1), NEW x \in S, NEW y \in S
  PROVE  x = y
<1> SUFFICES ASSUME x # y PROVE FALSE
  OBVIOUS
<1>1. IsFiniteSet({x}) /\ Cardinality({x}) = 1
  BY FS_Singleton
<1>2. Cardinality({x} \cup {y}) = 2
  <2>1. y \notin {x}
    OBVIOUS
  <2>2. Cardinality({x} \cup {y}) = IF y \in {x} THEN Cardinality({x}) ELSE Cardinality({x}) + 1
    BY <1>1, FS_AddElement, Zenon
  <2> QED
    BY <1>1, <2>1, <2>2
<1>3. Cardinality({x} \cup {y}) <= Cardinality(S)
  BY FS_Subset
<1>4. Cardinality(S) \in Nat
  BY FS_CardinalityType
<1> QED
  BY <1>2, <1>3, <1>4

(* Steps that leave the index alone.                                       *)
LEMMA QuietKeepsIndex ==
  ASSUME IndexInv, UNCHANGED storeVars, Others({})
  PROVE  IndexInv'
<1>1. UnderWay' = UnderWay /\ Load' = Load
  BY DEF UnderWay, Load, storeVars
<1>2. \A j \in UnderWay : phase'[j] = phase[j] /\ about'[j] = about[j]
  BY DEF IndexInv, RewritesOfCalls, Others, UnderWay
<1>3. RewritesOfCalls'
  BY <1>1, <1>2 DEF IndexInv, RewritesOfCalls, Others, storeVars
<1>4. FilesAreNew'
  BY DEF IndexInv, FilesAreNew, storeVars
<1>5. SerialRewrites'
  BY <1>1, <1>2 DEF IndexInv, SerialRewrites, storeVars
<1> QED
  BY <1>3, <1>4, <1>5 DEF IndexInv

(* The calls in made begin their rewrites.                                 *)
LEMMA SubmitKeepsIndex ==
  ASSUME IsFiniteSet(Calls), TypeOK, IndexInv,
         NEW made \in SUBSET Calls, NEW ids, Submit(made, ids), Others(made),
         \A j \in made : phase[j] \in Early /\ phase'[j] \in Busy,
         made = {} => ids = expected,
         \A j \in made : made = {j} =>
           ids = IF phase'[j] = "adding" THEN expected \cup {about'[j]}
                 ELSE expected \ {about'[j]}
  PROVE  IndexInv'
<1>1. /\ \A j \in made : rewrite[j].step = "none" /\ rewrite'[j] = [Idle EXCEPT !.step = "read"]
      /\ \A j \in Calls \ made : rewrite'[j] = rewrite[j]
  BY DEF Submit, IndexInv, RewritesOfCalls
<1>2. \A j \in made : rewrite'[j].step = "read" /\ j \notin UnderWay
  BY <1>1 DEF Idle, UnderWay
<1>3. UnderWay' = UnderWay \cup made
  BY <1>1, <1>2 DEF UnderWay
<1>4. UNCHANGED <<target, temp, content>> /\ Load' = Load
  BY DEF Submit, Load
<1>5. RewritesOfCalls'
  <2>1. ASSUME NEW j \in made
        PROVE  j \in UnderWay' /\ phase'[j] \in Busy /\ phase'[j] \notin Early
    BY <2>1, <1>3 DEF Busy, Early
  <2>2. ASSUME NEW j \in Calls \ made
        PROVE  /\ j \in UnderWay' <=> phase'[j] \in Busy
               /\ phase'[j] \in Early => rewrite'[j].step = "none"
    BY <1>1, <1>3, <2>2 DEF IndexInv, RewritesOfCalls, Others
  <2> QED
    BY <2>1, <2>2 DEF RewritesOfCalls
<1>6. FilesAreNew'
  BY <1>1, <1>2, <1>4 DEF IndexInv, FilesAreNew
<1>7. ASSUME ~overlapped' PROVE SerialRewrites'
  <2>1. ~overlapped /\ ~(Cardinality(UnderWay \cup made) > 1) /\ expected' = ids
    BY <1>7 DEF Submit
  <2>2. IsFiniteSet(UnderWay \cup made)
    BY FS_Subset DEF UnderWay
  <2>3. \A j, k \in UnderWay' : j = k
    BY <1>3, <2>1, <2>2, OneMember
  <2>4. CASE made = {}
    <3>1. ids = expected /\ UnderWay' = UnderWay /\ rewrite' = rewrite
      BY <1>1, <1>3, <2>4 DEF Submit, TypeOK, StoreTypeOK
    <3>2. \A j \in UnderWay : phase'[j] = phase[j] /\ about'[j] = about[j]
      BY <2>4 DEF IndexInv, RewritesOfCalls, Others, UnderWay
    <3> QED
      BY <1>4, <2>1, <2>3, <3>1, <3>2 DEF IndexInv, SerialRewrites
  <2>5. ASSUME NEW j \in made PROVE SerialRewrites'
    <3>1. UnderWay = {} /\ made = {j} /\ UnderWay' = {j}
      BY <1>2, <1>3, <2>3, <2>5
    <3>2. Load = expected /\ content[target].text = "whole"
      BY <2>1, <3>1 DEF IndexInv, SerialRewrites
    <3> QED
      BY <1>2, <1>4, <2>1, <3>1, <3>2 DEF SerialRewrites
  <2> QED
    BY <2>4, <2>5
<1> QED
  BY <1>5, <1>6, <1>7 DEF IndexInv, SerialRewrites

(* The steps of a rewrite between its call and its end.                    *)
LEMMA RewriteKeepsIndex ==
  ASSUME TypeOK, IndexInv, NEW j \in Calls, ReadIndex(j) \/ OpenTemp(j) \/ WriteTemp(j)
  PROVE  IndexInv'
<1> USE DEF TypeOK, StoreTypeOK, Inodes
<1>1. UNCHANGED piVars /\ UNCHANGED <<target, expected, overlapped>>
  BY DEF ReadIndex, Read, OpenTemp, Open, WriteTemp, Write
<1>2. j \in UnderWay
  BY DEF ReadIndex, Read, OpenTemp, Open, WriteTemp, Write, UnderWay
<1>3. \A k \in Calls \ {j} : rewrite'[k] = rewrite[k]
  BY DEF ReadIndex, Read, OpenTemp, Open, WriteTemp, Write
<1>4. rewrite'[j].step \in {"open", "write", "rename"}
  <2>1. CASE OpenTemp(j)
    <3>1. PICK r : r = [rewrite[j] EXCEPT !.step = "write",
                                          !.file = IF temp = NoFile THEN j ELSE temp]
      OBVIOUS
    <3>2. rewrite' = [rewrite EXCEPT ![j] = r]
      BY <2>1, <3>1 DEF OpenTemp, Open
    <3>3. r.step = "write"
      BY <3>1
    <3> QED
      BY <3>2, <3>3
  <2>2. CASE ReadIndex(j)
    BY <2>2 DEF ReadIndex, Read, Idle, Load
  <2>3. CASE WriteTemp(j)
    BY <2>3 DEF WriteTemp, Write, Idle
  <2> QED
    BY <2>1, <2>2, <2>3
<1>5. UnderWay' = UnderWay
  BY <1>2, <1>3, <1>4 DEF UnderWay
<1>6. RewritesOfCalls'
  BY <1>1, <1>2, <1>3, <1>5 DEF IndexInv, RewritesOfCalls, piVars, Busy, Early
<1>7. CASE ReadIndex(j)
  <2>1. /\ rewrite[j].step = "read" /\ rewrite'[j].step = "open"
        /\ rewrite'[j].records = IF phase[j] = "adding" THEN Load \cup {about[j]}
                                 ELSE Load \ {about[j]}
        /\ UNCHANGED <<temp, content>> /\ Load' = Load
    BY <1>7 DEF ReadIndex, Read, Idle, Load
  <2>2. FilesAreNew'
    BY <1>1, <1>3, <2>1 DEF IndexInv, FilesAreNew
  <2>3. SerialRewrites'
    BY <1>1, <1>2, <1>3, <1>5, <2>1 DEF IndexInv, SerialRewrites, piVars
  <2> QED
    BY <1>6, <2>2, <2>3 DEF IndexInv
<1>8. CASE OpenTemp(j)
  <2> DEFINE i == IF temp = NoFile THEN j ELSE temp
  <2>1. /\ rewrite[j].step = "open" /\ rewrite'[j].step = "write"
        /\ rewrite'[j].records = rewrite[j].records /\ rewrite'[j].file = i
        /\ temp' = i /\ content' = [content EXCEPT ![i] = Empty]
    BY <1>8 DEF OpenTemp, Open
  <2>2. i # target /\ i \in Inodes /\ i # NoFile
    BY <2>1, StoreAssumption DEF IndexInv, FilesAreNew
  <2>3. content'[target] = content[target] /\ content'[i] = Empty /\ Load' = Load
    BY <1>1, <2>1, <2>2 DEF Load
  <2>4. FilesAreNew'
    <3>1. temp' # target'
      BY <1>1, <2>1, <2>2
    <3>2. ASSUME NEW k \in Calls, rewrite'[k].step \in {"none", "read", "open"}
          PROVE  target' # k /\ temp' # k
      <4>1. k # j /\ rewrite'[k] = rewrite[k]
        BY <1>3, <2>1, <3>2
      <4> QED
        BY <1>1, <2>1, <3>2, <4>1 DEF IndexInv, FilesAreNew
    <3> QED
      BY <3>1, <3>2 DEF FilesAreNew
  <2>5. SerialRewrites'
    <3> HIDE DEF i
    <3> QED
      BY <1>1, <1>2, <1>3, <1>5, <2>1, <2>2, <2>3 DEF IndexInv, SerialRewrites, piVars
  <2> QED
    BY <1>6, <2>4, <2>5 DEF IndexInv
<1>9. CASE WriteTemp(j)
  <2>1. /\ rewrite[j].step = "write" /\ rewrite'[j].step = "rename"
        /\ UNCHANGED <<temp, target, expected, overlapped>>
    BY <1>9 DEF WriteTemp, Write, Idle
  <2>2. FilesAreNew'
    BY <1>3, <2>1 DEF IndexInv, FilesAreNew
  <2>3. ASSUME ~overlapped PROVE SerialRewrites'
    <3>1. /\ rewrite[j].file = temp /\ temp # NoFile /\ content[temp] = Empty
          /\ rewrite[j].records = expected /\ temp # target
      BY <1>2, <2>1, <2>3 DEF IndexInv, SerialRewrites, FilesAreNew
    <3>2. content' = [content EXCEPT ![temp] = Whole(expected)]
      BY <1>9, <3>1 DEF WriteTemp, Write
    <3>3. content'[target] = content[target] /\ content'[temp] = Whole(expected) /\ Load' = Load
      BY <2>1, <3>1, <3>2 DEF Load
    <3> QED
      BY <1>1, <1>2, <1>3, <1>5, <2>1, <2>3, <3>1, <3>3 DEF IndexInv, SerialRewrites, piVars
  <2> QED
    BY <1>6, <2>1, <2>2, <2>3 DEF IndexInv, SerialRewrites
<1> QED
  BY <1>7, <1>8, <1>9

(* The end of a rewrite.                                                   *)
LEMMA EndKeepsIndex ==
  ASSUME TypeOK, IndexInv, NEW j \in Calls, Rename(j) \/ WriteFails(j) \/ RenameFails(j),
         phase[j] \in Busy, phase'[j] \in Settled, Others({j})
  PROVE  IndexInv'
<1> USE DEF TypeOK, StoreTypeOK, Inodes
<1>1. j \in UnderWay /\ UNCHANGED overlapped
  BY DEF Rename, WriteFails, RenameFails, UnderWay
<1>2. rewrite'[j].step = "over" /\ \A k \in Calls \ {j} : rewrite'[k] = rewrite[k]
  BY DEF Rename, WriteFails, RenameFails, Idle
<1>3. UnderWay' = UnderWay \ {j}
  BY <1>2 DEF UnderWay
<1>4. RewritesOfCalls'
  BY <1>2, <1>3 DEF IndexInv, RewritesOfCalls, Others, Busy, Early, Settled
<1>5. FilesAreNew'
  BY <1>2, StoreAssumption DEF Rename, WriteFails, RenameFails, IndexInv, FilesAreNew
<1>6. ASSUME ~overlapped PROVE SerialRewrites'
  <2>1. UnderWay' = {}
    BY <1>1, <1>3, <1>6 DEF IndexInv, SerialRewrites
  <2>2. content'[target'].text = "whole" /\ Load' = expected'
    <3>1. CASE Rename(j)
      <4>1. content[temp] = Whole(expected) /\ temp # target /\ temp # NoFile
        BY <1>1, <1>6, <3>1 DEF IndexInv, SerialRewrites, FilesAreNew, Rename
      <4>2. content'[target'] = Whole(expected)
        BY <3>1, <4>1 DEF Rename
      <4> QED
        BY <3>1, <4>2 DEF Rename, Load, Whole
    <3>2. CASE WriteFails(j)
      <4>1. rewrite[j].file # target /\ content[target].text = "whole"
        BY <1>1, <1>6, <3>2 DEF IndexInv, SerialRewrites, FilesAreNew, WriteFails
      <4>2. content'[target'] = content[target]
        BY <3>2, <4>1 DEF WriteFails
      <4> QED
        BY <1>6, <3>2, <4>1, <4>2 DEF WriteFails, Load
    <3>3. CASE RenameFails(j)
      BY <1>1, <1>6, <3>3 DEF IndexInv, SerialRewrites, RenameFails
    <3> QED
      BY <3>1, <3>2, <3>3
  <2> QED
    BY <2>1, <2>2 DEF SerialRewrites
<1> QED
  BY <1>1, <1>4, <1>5, <1>6 DEF IndexInv, SerialRewrites

(* Opening a session, up to the factory, is not a matter of the index.     *)
LEMMA SpawnKeepsIndex ==
  ASSUME TypeOK, IndexInv, NEW j \in Calls, NEW i \in Ids, Spawn(j, i), phase[j] \in Early
  PROVE  IndexInv'
<1>1. /\ UNCHANGED storeVars /\ phase'[j] \notin Busy
      /\ \A k \in Calls \ {j} : phase'[k] = phase[k] /\ about'[k] = about[k]
  BY DEF Spawn, TypeOK, Busy
<1>2. Others({})
  BY <1>1 DEF Others, Early, Busy
<1> QED
  BY <1>1, <1>2, QuietKeepsIndex

LEMMA CloseKeepsIndex ==
  ASSUME IsFiniteSet(Calls), TypeOK, CallsInOrder, IndexInv,
         NEW made \in SUBSET {j \in Calls : op[j] = "none"}, NEW id \in [made -> Ids],
         CloseAll(made, id)
  PROVE  IndexInv'
<1>1. /\ \A j \in made : phase[j] = "none" /\ phase'[j] = "removing" /\ about'[j] = id[j]
      /\ \A j \in Calls \ made : phase'[j] = phase[j] /\ about'[j] = about[j]
  BY DEF CloseAll, CallsInOrder
<1>2. Others(made)
  BY <1>1 DEF Others
<1>3. Submit(made, expected \ {id[k] : k \in made})
  BY DEF CloseAll
<1>4. ASSUME NEW j \in made, made = {j}
      PROVE  expected \ {id[k] : k \in made} = expected \ {about'[j]}
  BY <1>1, <1>4
<1>5. made = {} => expected \ {id[k] : k \in made} = expected
  OBVIOUS
<1>6. \A j \in made : phase[j] \in Early /\ phase'[j] \in Busy /\ phase'[j] # "adding"
  BY <1>1 DEF Early, Busy
<1> HIDE DEF IndexInv
<1> QED
  BY <1>2, <1>3, <1>4, <1>5, <1>6, SubmitKeepsIndex

(* What happens to the starts that wait for the warm-up.                   *)
LEMMA WarmUpOthers ==
  ASSUME TypeOK, phase[Warm] \in Busy, phase' = WarmUpFails \/ WarmUpDone,
         UNCHANGED about \/ WarmUpDone
  PROVE  phase'[Warm] \in Settled /\ Others({Warm})
<1> USE PiAssumption DEF TypeOK, Waiting, Settled, Others, Early, Busy
<1>1. CASE phase' = WarmUpFails /\ UNCHANGED about
  BY <1>1 DEF WarmUpFails
<1>2. CASE WarmUpDone
  BY <1>2 DEF WarmUpDone
<1> QED
  BY <1>1, <1>2

LEMMA NextIndex ==
  ASSUME IsFiniteSet(Calls), TypeOK, CallsInOrder, IndexInv, [Next]_vars
  PROVE  IndexInv'
<1> USE PiAssumption
<1>1. CASE WarmUp
  BY <1>1, SpawnKeepsIndex DEF WarmUp, Make, CallsInOrder, Early
<1>2. ASSUME NEW j \in Requests, NEW i \in Ids, op[j] = "none", Spawn(j, i)
      PROVE  IndexInv'
  BY <1>2, SpawnKeepsIndex DEF CallsInOrder, Early
<1>3. ASSUME NEW j \in Requests, StartDefault(j), ~Spawn(j, j)
      PROVE  IndexInv'
  <2>1. /\ UNCHANGED storeVars /\ op[j] = "none"
        /\ \/ phase' = [phase EXCEPT ![j] = "waiting"] /\ about' = about
           \/ phase' = [phase EXCEPT ![j] = "returned"] /\ about' = [about EXCEPT ![j] = Warm]
    BY <1>3 DEF StartDefault, Make
  <2>2. Others({})
    BY <2>1 DEF TypeOK, CallsInOrder, Others, Early, Busy
  <2> QED
    BY <2>1, <2>2, QuietKeepsIndex
<1>4. ASSUME NEW j \in Requests, NEW i \in Ids, ResumeRecord(j, i)
      PROVE  IndexInv'
  <2>1. /\ UNCHANGED storeVars /\ op[j] = "none"
        /\ phase' = [phase EXCEPT ![j] = "lookup"] /\ about' = [about EXCEPT ![j] = i]
    BY <1>4 DEF ResumeRecord, Make
  <2>2. Others({})
    BY <2>1 DEF TypeOK, CallsInOrder, Others, Early, Busy
  <2> QED
    BY <2>1, <2>2, QuietKeepsIndex
<1>5. ASSUME NEW j \in Calls, RecordRead(j)
      PROVE  IndexInv'
  <2>1. phase[j] = "lookup" /\ about[j] \in Ids
    BY <1>5 DEF RecordRead, TypeOK
  <2>2. CASE Spawn(j, about[j])
    BY <2>1, <2>2, SpawnKeepsIndex DEF Early
  <2>3. CASE ~Spawn(j, about[j])
    <3>1. /\ UNCHANGED storeVars
          /\ phase' = [phase EXCEPT ![j] = "failed"] /\ about' = about
      BY <1>5, <2>3 DEF RecordRead
    <3>2. Others({})
      BY <2>1, <3>1 DEF TypeOK, Others, Early, Busy
    <3> QED
      BY <3>1, <3>2, QuietKeepsIndex
  <2> QED
    BY <2>2, <2>3
<1>6. ASSUME NEW j \in Calls, FactoryDone(j)
      PROVE  IndexInv'
  <2>1. /\ phase[j] = "factory" /\ phase'[j] = "adding" /\ about' = about
        /\ \A k \in Calls \ {j} : phase'[k] = phase[k]
        /\ Submit({j}, expected \cup {about[j]})
    BY <1>6 DEF FactoryDone, TypeOK
  <2>2. Others({j})
    BY <2>1 DEF Others
  <2>3. phase[j] \in Early /\ phase'[j] \in Busy
    BY <2>1 DEF Early, Busy
  <2>4. {j} \in SUBSET Calls
    OBVIOUS
  <2> QED
    BY <2>1, <2>2, <2>3, <2>4, SubmitKeepsIndex
<1>7. ASSUME NEW j \in Calls, FactoryFails(j)
      PROVE  IndexInv'
  <2>1. phase[j] = "factory" /\ UNCHANGED storeVars /\ about' = about
    BY <1>7 DEF FactoryFails
  <2>2. \A k \in Calls : phase'[k] = phase[k] \/ (phase'[k] = "failed" /\ phase[k] \in Early)
    BY <1>7, <2>1 DEF FactoryFails, WarmUpFails, Waiting, TypeOK, Early
  <2>3. Others({})
    BY <2>1, <2>2 DEF Others, Early, Busy
  <2> QED
    BY <2>1, <2>3, QuietKeepsIndex
<1>8. ASSUME NEW j \in Requests, NEW i \in Ids, Close(j, i)
      PROVE  IndexInv'
  <2>1. op[j] = "none"
    BY <1>8 DEF Close, Make
  <2>2. CASE CloseAll({j}, [k \in {j} |-> i])
    <3>1. {j} \in SUBSET {k \in Calls : op[k] = "none"} /\ [k \in {j} |-> i] \in [{j} -> Ids]
      BY <2>1
    <3> QED
      BY <2>2, <3>1, CloseKeepsIndex
  <2>3. CASE ~CloseAll({j}, [k \in {j} |-> i])
    <3>1. /\ UNCHANGED storeVars
          /\ phase' = [phase EXCEPT ![j] = "failed"] /\ about' = about
      BY <1>8, <2>3 DEF Close
    <3>2. Others({})
      BY <2>1, <3>1 DEF TypeOK, CallsInOrder, Others, Early, Busy
    <3> QED
      BY <3>1, <3>2, QuietKeepsIndex
  <2> QED
    BY <2>2, <2>3
<1>9. CASE Dispose
  <2>0. PICK made \in SUBSET {j \in Requests : op[j] = "none"} :
          \E id \in [made -> Listed] : CloseAll(made, id)
    BY <1>9 DEF Dispose
  <2>1. PICK id \in [made -> Listed] : CloseAll(made, id)
    BY <2>0
  <2>2. made \in SUBSET {j \in Calls : op[j] = "none"} /\ id \in [made -> Ids]
    BY DEF Listed
  <2> QED
    BY <2>1, <2>2, CloseKeepsIndex
<1>10. ASSUME NEW j \in Calls, FinishAdd(j) \/ FailAdd(j) \/ FinishRemove(j) \/ FailRemove(j)
       PROVE  IndexInv'
  <2>1. phase[j] \in Busy /\ (Rename(j) \/ WriteFails(j) \/ RenameFails(j))
    BY <1>10 DEF FinishAdd, FailAdd, FinishRemove, FailRemove, Busy
  <2>2. phase'[j] \in Settled /\ Others({j})
    <3>1. CASE j = Warm /\ (FinishAdd(j) \/ FailAdd(j))
      BY <2>1, <3>1, WarmUpOthers DEF FinishAdd, FailAdd
    <3>2. CASE ~(j = Warm /\ (FinishAdd(j) \/ FailAdd(j)))
      <4>1. /\ about' = about
            /\ \/ phase' = [phase EXCEPT ![j] = "returned"]
               \/ phase' = [phase EXCEPT ![j] = "failed"]
        BY <1>10, <3>2 DEF FinishAdd, FailAdd, FinishRemove, FailRemove
      <4> QED
        BY <4>1 DEF TypeOK, Settled, Others
    <3> QED
      BY <3>1, <3>2
  <2> QED
    BY <2>1, <2>2, EndKeepsIndex
<1>11. ASSUME NEW j \in Calls, ReadIndex(j) \/ OpenTemp(j) \/ WriteTemp(j)
       PROVE  IndexInv'
  BY <1>11, RewriteKeepsIndex
<1>12. CASE UNCHANGED vars
  <2>1. Others({}) /\ UNCHANGED storeVars
    BY <1>12 DEF vars, piVars, Others
  <2> QED
    BY <2>1, QuietKeepsIndex
<1>13. ASSUME NEW j \in Requests, StartOwn(j) \/ (StartDefault(j) /\ Spawn(j, j))
       PROVE  IndexInv'
  BY <1>2, <1>13 DEF StartOwn, StartDefault, Make
<1>14. ASSUME NEW j \in Requests, NEW i \in Ids, ResumeFile(j, i)
       PROVE  IndexInv'
  BY <1>2, <1>14 DEF ResumeFile, Make
<1>15. ASSUME NEW j \in Requests, StartOwn(j) \/ StartDefault(j)
       PROVE  IndexInv'
  BY <1>3, <1>13, <1>15
<1>16. ASSUME NEW j \in Calls, Finish(j)
       PROVE  IndexInv'
  BY <1>5, <1>6, <1>7, <1>10, <1>11, <1>16, Zenon DEF Finish
<1> QED
  BY <1>1, <1>4, <1>8, <1>9, <1>12, <1>14, <1>15, <1>16, Zenon DEF Next

LEMMA IndexHolds == ASSUME IsFiniteSet(Calls) PROVE Spec => []IndexInv
<1>1. Init => IndexInv
  <2> SUFFICES ASSUME Init PROVE IndexInv
    OBVIOUS
  <2>1. UnderWay = {} /\ \A j \in Calls : phase[j] = "none" /\ rewrite[j].step = "none"
    BY DEF Init, StoreInit, Idle, UnderWay
  <2>2. RewritesOfCalls /\ FilesAreNew
    BY <2>1, StoreAssumption
    DEF Init, StoreInit, RewritesOfCalls, FilesAreNew, Busy, Inodes
  <2>3. content[target] = Whole(Recorded) /\ expected = Recorded
    BY DEF Init, StoreInit, Inodes
  <2>4. SerialRewrites
    BY <2>1, <2>3 DEF SerialRewrites, Load, Whole
  <2> QED
    BY <2>2, <2>4 DEF IndexInv
<1>2. Inv /\ IndexInv /\ [Next]_vars => IndexInv'
  BY NextIndex DEF Inv, SessionInv
<1> QED
  BY <1>1, <1>2, InvHolds, PTL DEF Spec

\* While rewrites come one after the other, the index is whole at every moment
\* and holds what the finished calls left, whichever of them fail half way
\* (packages/protocol/src/store.ts:117-140).
THEOREM SerialExact == ASSUME IsFiniteSet(Calls) PROVE Spec => []SerialIndexIsExact
<1>1. IndexInv => SerialIndexIsExact
  BY DEF IndexInv, SerialRewrites, SerialIndexIsExact
<1> QED
  BY <1>1, IndexHolds, PTL

-----------------------------------------------------------------------------
(* No call is left behind.                                                 *)

WaitersHaveAWarmUp == Waiting # {} => WarmInFlight

\* A call that is not over has a step of its own to come: a start waits only
\* while the warm-up is under way, and a call that adds or removes is the one
\* that rewrites the index.
NoCallIsStuck ==
  \A j \in Calls :
    /\ phase[j] = "none" => op[j] = "none"
    /\ phase[j] = "waiting" => WarmInFlight
    /\ phase[j] \in Busy => j \in UnderWay

\* Nobody begins to wait but for a warm-up that is under way, and the warm-up
\* goes on.
LEMMA WarmUpGoesOn ==
  ASSUME TypeOK, WaitersHaveAWarmUp,
         \A j \in Requests : phase'[j] = "waiting" => phase[j] = "waiting" \/ WarmInFlight,
         phase[Warm] \in {"factory", "adding"} => phase'[Warm] \in {"factory", "adding"}
  PROVE  WaitersHaveAWarmUp'
BY DEF WaitersHaveAWarmUp, Waiting, WarmInFlight

LEMMA NextWaiters ==
  ASSUME TypeOK, CallsInOrder, WaitersHaveAWarmUp, [Next]_vars
  PROVE  WaitersHaveAWarmUp'
<1> USE PiAssumption
\* One call goes from one phase to another.
<1>1. ASSUME NEW j \in Calls, \A k \in Calls \ {j} : phase'[k] = phase[k],
             phase'[j] = "waiting" => WarmInFlight,
             j = Warm /\ phase[Warm] \in {"factory", "adding"} => phase'[Warm] = "adding"
      PROVE  WaitersHaveAWarmUp'
  BY <1>1, WarmUpGoesOn
<1>2. ASSUME NEW j \in Calls, NEW i \in Ids, Spawn(j, i), phase[j] \in {"none", "lookup"}
      PROVE  WaitersHaveAWarmUp'
  BY <1>1, <1>2 DEF Spawn, TypeOK
<1>3. CASE WarmUp
  BY <1>2, <1>3 DEF WarmUp, Make, CallsInOrder
<1>4. ASSUME NEW j \in Requests, StartOwn(j) PROVE WaitersHaveAWarmUp'
  BY <1>2, <1>4 DEF StartOwn, Make, CallsInOrder
<1>5. ASSUME NEW j \in Requests, StartDefault(j) PROVE WaitersHaveAWarmUp'
  <2>1. op[j] = "none" /\ phase[j] = "none" /\ j # Warm
    BY <1>5 DEF StartDefault, Make, CallsInOrder
  <2>2. CASE Spawn(j, j)
    BY <1>2, <2>1, <2>2
  <2>3. CASE WarmInFlight /\ phase' = [phase EXCEPT ![j] = "waiting"]
    BY <1>1, <2>1, <2>3 DEF TypeOK
  <2>4. CASE phase' = [phase EXCEPT ![j] = "returned"]
    BY <1>1, <2>1, <2>4 DEF TypeOK
  <2> QED
    BY <1>5, <2>2, <2>3, <2>4 DEF StartDefault
<1>6. ASSUME NEW j \in Requests, NEW i \in Ids, ResumeFile(j, i) PROVE WaitersHaveAWarmUp'
  BY <1>2, <1>6 DEF ResumeFile, Make, CallsInOrder
<1>7. ASSUME NEW j \in Requests, NEW i \in Ids, ResumeRecord(j, i) PROVE WaitersHaveAWarmUp'
  BY <1>1, <1>7 DEF ResumeRecord, TypeOK
<1>8. ASSUME NEW j \in Calls, RecordRead(j) PROVE WaitersHaveAWarmUp'
  <2>1. phase[j] = "lookup" /\ about[j] \in Ids
    BY <1>8 DEF RecordRead, TypeOK
  <2>2. CASE Spawn(j, about[j])
    BY <1>2, <2>1, <2>2
  <2>3. CASE phase' = [phase EXCEPT ![j] = "failed"]
    BY <1>1, <2>1, <2>3 DEF TypeOK
  <2> QED
    BY <1>8, <2>2, <2>3 DEF RecordRead
<1>9. ASSUME NEW j \in Calls, FactoryDone(j) PROVE WaitersHaveAWarmUp'
  BY <1>1, <1>9 DEF FactoryDone, TypeOK
\* The end of the warm-up resumes everyone who waits for it.
<1>10. ASSUME phase' = WarmUpFails \/ WarmUpDone PROVE WaitersHaveAWarmUp'
  <2>1. \A j \in Requests : phase'[j] # "waiting"
    BY <1>10 DEF WarmUpFails, WarmUpDone, Waiting, TypeOK
  <2> QED
    BY <2>1 DEF WaitersHaveAWarmUp, Waiting
<1>11. ASSUME NEW j \in Calls, FactoryFails(j) \/ FinishAdd(j) \/ FailAdd(j)
       PROVE  WaitersHaveAWarmUp'
  <2>1. CASE j = Warm
    BY <1>10, <1>11, <2>1 DEF FactoryFails, FinishAdd, FailAdd
  <2>2. CASE j # Warm
    <3>1. \/ phase' = [phase EXCEPT ![j] = "failed"]
          \/ phase' = [phase EXCEPT ![j] = "returned"]
      BY <1>11, <2>2 DEF FactoryFails, FinishAdd, FailAdd
    <3> QED
      BY <1>1, <2>2, <3>1 DEF TypeOK
  <2> QED
    BY <2>1, <2>2
<1>12. ASSUME NEW j \in Calls, FinishRemove(j) \/ FailRemove(j) PROVE WaitersHaveAWarmUp'
  <2>1. phase[j] = "removing"
        /\ (phase' = [phase EXCEPT ![j] = "failed"] \/ phase' = [phase EXCEPT ![j] = "returned"])
    BY <1>12 DEF FinishRemove, FailRemove
  <2> QED
    BY <1>1, <2>1 DEF TypeOK
<1>13. ASSUME NEW made \in SUBSET Requests, NEW id, CloseAll(made, id)
       PROVE  WaitersHaveAWarmUp'
  <2>1. /\ \A j \in made : phase'[j] = "removing"
        /\ \A j \in Calls \ made : phase'[j] = phase[j]
    BY <1>13 DEF CloseAll
  <2> QED
    BY <2>1, WarmUpGoesOn
<1>14. ASSUME NEW j \in Requests, NEW i \in Ids, Close(j, i) PROVE WaitersHaveAWarmUp'
  <2>1. CASE CloseAll({j}, [k \in {j} |-> i])
    BY <1>13, <2>1
  <2>2. CASE phase' = [phase EXCEPT ![j] = "failed"]
    BY <1>1, <2>2 DEF TypeOK
  <2> QED
    BY <1>14, <2>1, <2>2 DEF Close
<1>15. CASE Dispose
  <2>1. PICK made \in SUBSET Requests : \E id \in [made -> Listed] : CloseAll(made, id)
    BY <1>15 DEF Dispose
  <2> QED
    BY <1>13, <2>1
<1>16. ASSUME UNCHANGED phase PROVE WaitersHaveAWarmUp'
  BY <1>16 DEF WaitersHaveAWarmUp, Waiting, WarmInFlight
<1>17. ASSUME NEW j \in Calls, Finish(j) PROVE WaitersHaveAWarmUp'
  <2>1. ReadIndex(j) \/ OpenTemp(j) \/ WriteTemp(j) => UNCHANGED phase
    BY DEF ReadIndex, OpenTemp, WriteTemp, piVars
  <2> QED
    BY <1>8, <1>9, <1>11, <1>12, <1>16, <1>17, <2>1, Zenon DEF Finish
<1>18. UNCHANGED vars => UNCHANGED phase
  BY DEF vars, piVars
<1> QED
  BY <1>3, <1>4, <1>5, <1>6, <1>7, <1>14, <1>15, <1>16, <1>17, <1>18, Zenon DEF Next

\* No start is left waiting for a warm-up that is over, whether it succeeded,
\* its factory threw or its add() failed (apps/daemon/src/pi/adapter.ts:204),
\* and no call waits for a rewrite of the index that nobody makes.
THEOREM NobodyIsStuck == ASSUME IsFiniteSet(Calls) PROVE Spec => []NoCallIsStuck
<1>1. Init => WaitersHaveAWarmUp
  BY PiAssumption DEF Init, WaitersHaveAWarmUp, Waiting
<1>2. Inv /\ WaitersHaveAWarmUp /\ [Next]_vars => WaitersHaveAWarmUp'
  BY NextWaiters DEF Inv, SessionInv
<1>3. Inv /\ IndexInv /\ WaitersHaveAWarmUp => NoCallIsStuck
  <2> SUFFICES ASSUME Inv, IndexInv, WaitersHaveAWarmUp, NEW j \in Calls
               PROVE  /\ phase[j] = "none" => op[j] = "none"
                      /\ phase[j] = "waiting" => WarmInFlight
                      /\ phase[j] \in Busy => j \in UnderWay
    BY DEF NoCallIsStuck
  <2>1. phase[j] = "waiting" => j \in Waiting
    BY PiAssumption DEF Inv, SessionInv, CallsInOrder, WarmIsGivenOnce, Waiting
  <2> QED
    BY <2>1 DEF Inv, SessionInv, CallsInOrder, IndexInv, RewritesOfCalls, WaitersHaveAWarmUp
<1> QED
  BY <1>1, <1>2, <1>3, IndexHolds, InvHolds, PTL DEF Spec
=============================================================================
