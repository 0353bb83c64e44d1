---------------------------- MODULE TurnsProofs -----------------------------
(***************************************************************************)
(* Theorems about the turns of one session, for any number of calls.       *)
(***************************************************************************)
EXTENDS PiTurns, FiniteSetTheorems, TLAPS

Listener == [kind : {"sink", "stop"}, of : Call]

-----------------------------------------------------------------------------
(* Type correctness.                                                       *)

(* A listener has the type of a listener.                                  *)
LEMMA ListenerTypes ==
  \A c \in Call : /\ Sink(c) \in Listener /\ Sink(c).kind = "sink" /\ Sink(c).of = c
                  /\ Stop(c) \in Listener /\ Stop(c).kind = "stop" /\ Stop(c).of = c
BY DEF Sink, Stop, Listener

(* Listeners are added behind those that are there.                        *)
LEMMA ListenTypes ==
  ASSUME TypeOK, NEW c \in Call, NEW added \in Seq(Listener), Listen(c, added)
  PROVE  /\ listeners' \in Seq(Listener)
         /\ Len(listeners') = Len(listeners) + Len(added)
         /\ \A i \in 1..Len(listeners) : listeners'[i] = listeners[i]
         /\ \A i \in 1..Len(added) : listeners'[Len(listeners) + i] = added[i]
         /\ on \subseteq 1..Len(listeners)
         /\ on' = on \cup (Len(listeners) + 1)..Len(listeners')
         /\ on' \in SUBSET DOMAIN listeners'
         /\ behind' \in SUBSET Call
<1>1. listeners \in Seq(Listener) /\ on \subseteq 1..Len(listeners)
  BY DEF TypeOK, Listener
<1>2. listeners' = listeners \o added
  BY DEF Listen
<1>3. /\ listeners' \in Seq(Listener)
      /\ Len(listeners') = Len(listeners) + Len(added)
      /\ \A i \in 1..Len(listeners) : listeners'[i] = listeners[i]
      /\ \A i \in 1..Len(added) : listeners'[Len(listeners) + i] = added[i]
  BY <1>1, <1>2
<1>4. on' = on \cup (Len(listeners) + 1)..Len(listeners')
  BY DEF Listen
<1>5. on' \in SUBSET DOMAIN listeners'
  <2>1. Len(listeners) \in Nat /\ Len(added) \in Nat /\ DOMAIN listeners' = 1..Len(listeners')
    BY <1>1, <1>3
  <2>2. ASSUME NEW i \in on' PROVE i \in 1..Len(listeners')
    BY <1>1, <1>3, <1>4, <2>1, <2>2
  <2> QED BY <2>1, <2>2
<1>6. behind' \in SUBSET Call
  BY DEF Listen, TypeOK
<1> QED BY <1>1, <1>3, <1>4, <1>5, <1>6

(* emit() keeps the types.                                                 *)
LEMMA EmitTypes ==
  ASSUME TypeOK, NEW e \in Events, NEW p \in [Call -> Phases], Emit(e, p)
  PROVE  /\ phase' \in [Call -> Phases]
         /\ state' \in Statuses \cup {"errored", "closed"}
         /\ ended' \in SUBSET Call
         /\ on' \in SUBSET DOMAIN listeners
<1>1. Ending(e) \in SUBSET Call /\ Hearing(e, "sink") \in SUBSET Call
  BY DEF Ending, Hearing
<1>2. phase' \in [Call -> Phases]
  BY DEF Emit, Phases
<1>3. state' \in Statuses \cup {"errored", "closed"}
  BY DEF Emit, TypeOK, Statuses
<1>4. ended' \in SUBSET Call
  BY <1>1 DEF Emit, TypeOK
<1>5. on' \in SUBSET DOMAIN listeners
  BY DEF Emit, TypeOK
<1> QED BY <1>2, <1>3, <1>4, <1>5

(* Every step keeps the types.                                             *)
LEMMA TypeStep == ASSUME TypeOK, [Next]_vars PROVE TypeOK'
<1>1. CASE Close
  BY <1>1 DEF TypeOK, Close, array, agent, ghosts
<1>2. ASSUME NEW status \in Statuses, Update(status) PROVE TypeOK'
  BY <1>2 DEF TypeOK, Update, array, agent
<1>3. ASSUME NEW e \in Events, Native(e) PROVE TypeOK'
  BY <1>3 DEF TypeOK, Native, Subscribed, array, ghosts
<1>4. ASSUME NEW c \in Call, Push(c) PROVE TypeOK'
  <2>1. /\ phase' \in [Call -> Phases]
        /\ state' \in Statuses \cup {"errored", "closed"}
        /\ ended' \in SUBSET Call
        /\ on' \in SUBSET DOMAIN listeners
    BY <1>4, EmitTypes DEF Push, TypeOK
  <2>2. due' \in SUBSET Call /\ event' \in Events /\ lastEnd' \in SUBSET Call
    BY <1>4 DEF Push, TypeOK, Events
  <2> QED BY <1>4, <2>1, <2>2 DEF TypeOK, Push, ghosts
<1>5. ASSUME NEW c \in Call, RunEnds(c) PROVE TypeOK'
  <2> DEFINE p == [phase EXCEPT ![c] = "ran"]
  <2>1. p \in [Call -> Phases]
    BY DEF TypeOK, Phases
  <2>2. CASE c \in lastEnd
    BY <1>5, <2>1, <2>2 DEF TypeOK, RunEnds, agent, ghosts
  <2>3. CASE c \notin lastEnd
    <3>1. Emit("end_turn", p)
      BY <1>5, <2>3 DEF RunEnds
    <3>2. /\ phase' \in [Call -> Phases]
          /\ state' \in Statuses \cup {"errored", "closed"}
          /\ ended' \in SUBSET Call
          /\ on' \in SUBSET DOMAIN listeners
      BY <2>1, <3>1, EmitTypes DEF Events
    <3> QED BY <1>5, <3>2 DEF TypeOK, RunEnds, agent, ghosts
  <2> QED BY <2>2, <2>3
<1>6. ASSUME NEW c \in Call, RunFails(c) \/ Returned(c) \/ Aborted(c) \/ AbortFails(c)
      PROVE  TypeOK'
  BY <1>6 DEF TypeOK, RunFails, Returned, Aborted, AbortFails, Phases, Statuses, array, agent, ghosts
<1>7. ASSUME NEW c \in Call, Watch(c) PROVE TypeOK'
  <2>1. <<Sink(c), Stop(c)>> \in Seq(Listener)
    BY ListenerTypes
  <2>2. Listen(c, <<Sink(c), Stop(c)>>)
    BY <1>7 DEF Watch
  <2>3. /\ listeners' \in Seq(Listener) /\ on' \in SUBSET DOMAIN listeners'
        /\ behind' \in SUBSET Call
    BY <2>1, <2>2, ListenTypes
  <2> QED BY <1>7, <2>3 DEF TypeOK, Watch, Make, Phases, agent, Listener
<1>8. ASSUME NEW c \in Call, Leave(c) PROVE TypeOK'
  BY <1>8 DEF TypeOK, Leave, Phases, agent, ghosts
<1>9. ASSUME NEW c \in Call, Cancel(c) PROVE TypeOK'
  BY <1>9 DEF TypeOK, Cancel, Make, Phases, array, agent, ghosts
<1>10. ASSUME NEW c \in Call, NEW k \in {"turn", "stream"}, Prompt(c, k) \/ PromptRefused(c, k)
       PROVE  TypeOK'
  <2> DEFINE added == IF k = "stream" THEN <<Sink(c)>> ELSE <<>>
  <2>1. added \in Seq(Listener)
    BY ListenerTypes
  <2>2. Listen(c, added)
    BY <1>10 DEF Prompt, PromptRefused
  <2>3. /\ listeners' \in Seq(Listener) /\ on' \in SUBSET DOMAIN listeners'
        /\ behind' \in SUBSET Call
    BY <2>1, <2>2, ListenTypes
  <2>4. Make(c, k, "running") \/ Make(c, k, "failed")
    BY <1>10 DEF Prompt, PromptRefused
  <2>5. kind' \in [Call -> {"none", "turn", "stream", "watch", "cancel"}] /\ phase' \in [Call -> Phases]
    BY <2>4 DEF Make, TypeOK, Phases
  <2>6. seen' \in [Call -> SUBSET Call]
    BY <1>10 DEF Prompt, PromptRefused, TypeOK, Watching
  <2> QED BY <1>10, <2>3, <2>5, <2>6 DEF TypeOK, Prompt, PromptRefused, Statuses, agent, Listener
<1>11. CASE UNCHANGED vars
  BY <1>11 DEF TypeOK, vars, array, agent, ghosts
<1> QED
  <2>1. ASSUME NEW c \in Call,
               \/ Push(c) \/ RunEnds(c) \/ RunFails(c) \/ Returned(c)
               \/ Watch(c) \/ Leave(c) \/ Cancel(c) \/ Aborted(c) \/ AbortFails(c)
               \/ \E k \in {"turn", "stream"} : Prompt(c, k) \/ PromptRefused(c, k)
        PROVE  TypeOK'
    BY <2>1, <1>4, <1>5, <1>6, <1>7, <1>8, <1>9, <1>10, Zenon
  <2> QED BY <1>1, <1>2, <1>3, <1>11, <2>1, Zenon DEF Next

(* The state of a session's turns is well typed (adapter.ts:285-424,       *)
(* session.ts:79-90).                                                      *)
THEOREM TypeCorrect == Spec => []TypeOK
<1>1. ASSUME Init PROVE TypeOK
  <2>1. kind \in [Call -> {"none", "turn", "stream", "watch", "cancel"}] /\ phase \in [Call -> Phases]
    BY <1>1 DEF Init, Phases
  <2>2. seen \in [Call -> SUBSET Call]
    BY <1>1 DEF Init
  <2>3. listeners \in Seq(Listener) /\ on \in SUBSET DOMAIN listeners
    BY <1>1 DEF Init
  <2> QED BY <1>1, <2>1, <2>2, <2>3 DEF Init, TypeOK, Statuses, Events, Listener
<1>2. TypeOK /\ [Next]_vars => TypeOK'
  BY TypeStep
<1> QED BY <1>1, <1>2, PTL DEF Spec

-----------------------------------------------------------------------------
(* Who listens.                                                            *)

\* A call that is not made has left no trace.
Unmade ==
  \A c \in Call : kind[c] = "none" =>
    phase[c] = "none" /\ c \notin lastEnd /\ \A d \in Call : c \notin seen[d]

\* The stop of a watch is there while the watch waits, directly behind its sink.
StopsFollowSinks ==
  \A i \in on : IsStop(i) =>
    /\ i - 1 \in on /\ listeners[i - 1] = Sink(listeners[i].of)
    /\ phase[listeners[i].of] = "watching"

WatchesHaveStops == \A c \in Watching : \E i \in on : listeners[i] = Stop(c)

\* Only runs under way are given events.
DueRuns == due \subseteq Subscribed

\* No watch that a run found is left once that run has been given an end, or has ended well.
SeenAreOver ==
  \A c \in Call : phase[c] = "ran" \/ (phase[c] = "running" /\ c \in lastEnd) =>
    \A w \in seen[c] : phase[w] # "watching"

WatchInv == Unmade /\ StopsFollowSinks /\ WatchesHaveStops /\ DueRuns /\ SeenAreOver

(* A listener that is on is a listener of a call.                          *)
LEMMA OnTypes ==
  ASSUME TypeOK
  PROVE  \A i \in on : i \in Nat \ {0} /\ listeners[i] \in Listener /\ listeners[i].of \in Call
<1>1. listeners \in Seq(Listener)
  BY DEF TypeOK, Listener
<1>2. ASSUME NEW i \in on PROVE i \in 1..Len(listeners)
  BY DEF TypeOK
<1>3. ASSUME NEW i \in on PROVE listeners[i] \in Listener
  BY <1>1, <1>2
<1> QED BY <1>1, <1>2, <1>3 DEF Listener

(* Nothing that stops stands directly in front of a stop: each is visited. *)
LEMMA StopsAreVisited ==
  ASSUME TypeOK, StopsFollowSinks, NEW e \in Events, NEW i \in on, IsStop(i)
  PROVE  i \in Visited(e)
<1>1. i \in Nat /\ i - 1 \in on /\ i - 1 < i
  <2>1. i \in Nat
    BY OnTypes
  <2> QED BY <2>1 DEF StopsFollowSinks
<1>2. ~IsStop(i - 1)
  <2>1. listeners[i].of \in Call /\ listeners[i - 1] = Sink(listeners[i].of)
    BY OnTypes DEF StopsFollowSinks
  <2> QED BY <2>1, ListenerTypes DEF IsStop
<1>3. StopsBefore(i) = {}
  <2>1. ASSUME NEW j \in StopsBefore(i) PROVE FALSE
    <3>1. j \in on /\ j < i /\ \A k \in on : j <= k /\ k < i => IsStop(k)
      BY <2>1 DEF StopsBefore
    <3>2. j \in Nat /\ j <= i - 1
      BY <1>1, <3>1 DEF TypeOK
    <3> QED BY <1>1, <1>2, <3>1, <3>2
  <2> QED BY <2>1
<1>4. Cardinality(StopsBefore(i)) % 2 = 0
  BY <1>3, FS_EmptySet
<1> QED BY <1>4 DEF Visited

(* An end ends every watch, another event none.                            *)
LEMMA EndsAll ==
  ASSUME TypeOK, StopsFollowSinks, WatchesHaveStops, NEW e \in Events
  PROVE  Ending(e) = IF e = "other" THEN {} ELSE Watching
<1>1. CASE e = "other"
  BY <1>1 DEF Ending
<1>2. CASE e # "other"
  <2>1. ASSUME NEW c \in Ending(e) PROVE c \in Watching
    <3>1. PICK i \in Visited(e) : listeners[i] = Stop(c)
      BY <1>2, <2>1 DEF Ending, Hearing, Stop
    <3>2. c \in Call /\ i \in on
      BY <1>2, <2>1, <3>1 DEF Ending, Hearing, Visited
    <3>3. IsStop(i) /\ listeners[i].of = c
      BY <3>1, <3>2, ListenerTypes DEF IsStop
    <3> QED BY <3>2, <3>3 DEF StopsFollowSinks, Watching
  <2>2. ASSUME NEW c \in Watching PROVE c \in Ending(e)
    <3>1. PICK i \in on : listeners[i] = Stop(c)
      BY DEF WatchesHaveStops
    <3>2. c \in Call
      BY DEF Watching
    <3>3. IsStop(i)
      BY <3>1, <3>2, ListenerTypes DEF IsStop
    <3>4. i \in Visited(e)
      BY <3>3, StopsAreVisited
    <3> QED BY <1>2, <3>1, <3>2, <3>4 DEF Ending, Hearing, Stop
  <2> QED BY <1>2, <2>1, <2>2
<1> QED BY <1>1, <1>2

(* What emit() does: nothing, or every watch is over and its stop is gone. *)
LEMMA EmitEnds ==
  ASSUME TypeOK, StopsFollowSinks, WatchesHaveStops, NEW e \in Events,
         NEW p \in [Call -> Phases], Emit(e, p)
  PROVE  /\ \A c \in Call : phase'[c] = IF e # "other" /\ c \in Watching THEN "over" ELSE p[c]
         /\ e = "other" => on' = on /\ ended' = ended /\ state' = state
         /\ e # "other" => on' = {i \in on : ~IsStop(i)}
         /\ state' = state \/ state' = "idle"
         /\ ended \subseteq ended'
<1>1. Ending(e) = IF e = "other" THEN {} ELSE Watching
  BY EndsAll
<1>2. \A c \in Call : phase'[c] = IF e # "other" /\ c \in Watching THEN "over" ELSE p[c]
  BY <1>1 DEF Emit
<1>3. e = "other" => on' = on /\ ended' = ended /\ state' = state
  BY <1>1 DEF Emit
<1>4. e # "other" => on' = {i \in on : ~IsStop(i)}
  <2>1. ASSUME e # "other", NEW i \in on, IsStop(i) PROVE listeners[i].of \in Ending(e)
    <3>1. listeners[i].of \in Call
      BY OnTypes
    <3> QED BY <1>1, <2>1, <3>1 DEF StopsFollowSinks, Watching
  <2> QED BY <2>1 DEF Emit
<1>5. (state' = state \/ state' = "idle") /\ ended \subseteq ended'
  BY DEF Emit
<1> QED BY <1>2, <1>3, <1>4, <1>5

(* Steps that leave the listeners alone, and no call watching or running   *)
(* that was not.                                                           *)
LEMMA WatchFrame ==
  ASSUME TypeOK, WatchInv, array' = array, seen' = seen,
         \A c \in lastEnd' : c \in lastEnd,
         due' \subseteq Subscribed',
         \A c \in Call : phase'[c] = "watching" <=> phase[c] = "watching",
         \A c \in Call : phase'[c] = "running" => phase[c] = "running",
         \A c \in Call : phase'[c] = "ran" =>
           phase[c] = "ran" \/ (phase[c] = "running" /\ c \in lastEnd),
         \A c \in Call : kind'[c] = "none" => kind[c] = "none" /\ phase'[c] = phase[c]
  PROVE  WatchInv'
<1>1. listeners' = listeners /\ on' = on
  BY DEF array
<1>2. Unmade'
  BY DEF WatchInv, Unmade
<1>3. StopsFollowSinks'
  <2>1. \A i \in on : listeners[i].of \in Call
    BY OnTypes
  <2> QED BY <1>1, <2>1 DEF WatchInv, StopsFollowSinks, IsStop
<1>4. WatchesHaveStops'
  BY <1>1 DEF WatchInv, WatchesHaveStops, Watching
<1>5. SeenAreOver'
  BY DEF WatchInv, SeenAreOver, TypeOK
<1> QED BY <1>2, <1>3, <1>4, <1>5 DEF WatchInv, DueRuns

(* push() gives every watch that is left the end it waits for.             *)
LEMMA PushWatch == ASSUME TypeOK, WatchInv, NEW c \in Call, Push(c) PROVE WatchInv'
<1>1. /\ c \in due /\ due' = due \ {c} /\ Emit(event, phase)
      /\ lastEnd' = (IF event = "other" THEN lastEnd \ {c} ELSE lastEnd \cup {c})
      /\ listeners' = listeners /\ kind' = kind /\ seen' = seen
  BY DEF Push, ghosts
<1>2. event \in Events /\ phase \in [Call -> Phases] /\ phase[c] = "running"
  BY <1>1 DEF TypeOK, WatchInv, DueRuns, Subscribed
<1>3. \A d \in Call : phase'[d] = IF event # "other" /\ d \in Watching THEN "over" ELSE phase[d]
  BY <1>1, <1>2, EmitEnds, Zenon DEF WatchInv
<1>4. CASE event = "other"
  <2>1. on' = on /\ phase' = phase
    BY <1>1, <1>2, <1>4, EmitEnds DEF WatchInv, Emit, Ending
  <2> QED BY <1>1, <1>4, <2>1, WatchFrame DEF array, WatchInv, DueRuns, Subscribed
<1>5. CASE event # "other"
  <2>1. on' = {i \in on : ~IsStop(i)}
    BY <1>1, <1>2, <1>5, EmitEnds, Zenon DEF WatchInv
  <2>2. \A d \in Call : phase'[d] # "watching"
    BY <1>3, <1>5 DEF Watching
  <2>3. Unmade'
    BY <1>1, <1>2, <1>3 DEF WatchInv, Unmade, Watching
  <2>4. StopsFollowSinks' /\ WatchesHaveStops'
    BY <1>1, <2>1, <2>2 DEF StopsFollowSinks, WatchesHaveStops, IsStop, Watching
  <2>5. DueRuns'
    BY <1>1, <1>3 DEF WatchInv, DueRuns, Subscribed, Watching
  <2>6. SeenAreOver'
    BY <1>1, <2>2 DEF SeenAreOver, TypeOK
  <2> QED BY <2>3, <2>4, <2>5, <2>6 DEF WatchInv
<1> QED BY <1>4, <1>5

(* A run that ends well has given an end before, or gives one now.         *)
LEMMA RunEndsWatch == ASSUME TypeOK, WatchInv, NEW c \in Call, RunEnds(c) PROVE WatchInv'
<1> DEFINE p == [phase EXCEPT ![c] = "ran"]
<1>1. /\ due = {} /\ due' = {} /\ phase[c] = "running" /\ lastEnd' = lastEnd
      /\ listeners' = listeners /\ kind' = kind /\ seen' = seen
  BY DEF RunEnds, agent, ghosts
<1>2. p \in [Call -> Phases] /\ phase \in [Call -> Phases]
  BY DEF TypeOK, Phases
<1>3. CASE c \in lastEnd
  <2>1. phase' = p /\ on' = on
    BY <1>3 DEF RunEnds
  <2> QED BY <1>1, <1>2, <1>3, <2>1, WatchFrame DEF array, WatchInv, Unmade
<1>4. CASE c \notin lastEnd
  <2>1. Emit("end_turn", p)
    BY <1>4 DEF RunEnds
  <2>2. /\ \A d \in Call : phase'[d] = IF d \in Watching THEN "over" ELSE p[d]
        /\ on' = {i \in on : ~IsStop(i)}
    BY <1>2, <2>1, EmitEnds DEF WatchInv, Events
  <2>3. \A d \in Call : phase'[d] # "watching"
    BY <1>2, <2>2 DEF Watching
  <2>4. Unmade'
    BY <1>1, <1>2, <2>2 DEF WatchInv, Unmade, Watching
  <2>5. StopsFollowSinks' /\ WatchesHaveStops'
    BY <1>1, <2>2, <2>3 DEF StopsFollowSinks, WatchesHaveStops, IsStop, Watching
  <2>6. DueRuns'
    BY <1>1 DEF DueRuns
  <2>7. SeenAreOver'
    BY <1>1, <2>3 DEF SeenAreOver, TypeOK
  <2> QED BY <2>4, <2>5, <2>6, <2>7 DEF WatchInv
<1> QED BY <1>3, <1>4

(* A prompt finds the watches that are there, and adds no stop.            *)
LEMMA PromptWatch ==
  ASSUME TypeOK, WatchInv, NEW c \in Call, NEW k \in {"turn", "stream"},
         Prompt(c, k) \/ PromptRefused(c, k)
  PROVE  WatchInv'
<1> DEFINE added == IF k = "stream" THEN <<Sink(c)>> ELSE <<>>
<1>1. added \in Seq(Listener) /\ Listen(c, added)
  BY ListenerTypes DEF Prompt, PromptRefused
<1>2. /\ due = {} /\ due' = {} /\ kind[c] = "none" /\ kind' = [kind EXCEPT ![c] = k]
      /\ lastEnd' = lastEnd
      /\ \/ phase' = [phase EXCEPT ![c] = "running"] /\ seen' = [seen EXCEPT ![c] = Watching]
         \/ phase' = [phase EXCEPT ![c] = "failed"] /\ seen' = seen
  BY DEF Prompt, PromptRefused, Make, agent
<1>3. phase[c] = "none" /\ c \notin lastEnd /\ c \notin Watching
  BY <1>2 DEF WatchInv, Unmade, Watching
<1>4. Unmade'
  BY <1>2, <1>3 DEF WatchInv, Unmade, TypeOK, Watching
<1>5. /\ \A i \in on : i \in on' /\ listeners'[i] = listeners[i]
      /\ \A i \in on' : i \in on \/ listeners'[i] = Sink(c)
  <2>1. Len(added) <= 1 /\ (Len(added) = 1 => added[1] = Sink(c)) /\ Len(added) \in Nat
    OBVIOUS
  <2>2. Len(listeners) \in Nat
    BY DEF TypeOK
  <2>3. /\ Len(listeners') = Len(listeners) + Len(added)
        /\ \A i \in 1..Len(listeners) : listeners'[i] = listeners[i]
        /\ \A i \in 1..Len(added) : listeners'[Len(listeners) + i] = added[i]
        /\ on \subseteq 1..Len(listeners)
        /\ on' = on \cup (Len(listeners) + 1)..Len(listeners')
    BY <1>1, ListenTypes, Zenon
  <2>4. ASSUME NEW i \in on', i \notin on PROVE listeners'[i] = Sink(c)
    <3>1. i \in (Len(listeners) + 1)..(Len(listeners) + Len(added))
      BY <2>3, <2>4
    <3>2. Len(added) = 1 /\ i = Len(listeners) + 1
      BY <2>1, <2>2, <3>1
    <3>3. 1 \in 1..Len(added)
      BY <3>2
    <3> QED BY <2>1, <2>3, <3>2, <3>3
  <2>5. ASSUME NEW i \in on PROVE i \in on' /\ listeners'[i] = listeners[i]
    BY <2>3, <2>5
  <2> QED BY <2>4, <2>5
<1>6. StopsFollowSinks'
  <2>1. ASSUME NEW i \in on', listeners'[i].kind = "stop"
        PROVE  /\ i - 1 \in on' /\ listeners'[i - 1] = Sink(listeners'[i].of)
               /\ phase'[listeners'[i].of] = "watching"
    <3>1. i \in on /\ IsStop(i) /\ listeners'[i] = listeners[i] /\ listeners[i].of \in Call
      BY <1>5, <2>1, ListenerTypes, OnTypes DEF IsStop
    <3>2. i - 1 \in on /\ phase[listeners[i].of] = "watching" /\ listeners[i].of # c
      BY <1>3, <3>1 DEF WatchInv, StopsFollowSinks
    <3> QED BY <1>2, <1>5, <3>1, <3>2 DEF WatchInv, StopsFollowSinks, TypeOK
  <2> QED BY <2>1 DEF StopsFollowSinks, IsStop
<1>7. WatchesHaveStops'
  <2>1. ASSUME NEW w \in Call, phase'[w] = "watching"
        PROVE  \E i \in on' : listeners'[i] = Stop(w)
    <3>1. w \in Watching
      BY <1>2, <2>1 DEF Watching, TypeOK
    <3> QED BY <1>5, <3>1 DEF WatchInv, WatchesHaveStops
  <2> QED BY <2>1 DEF WatchesHaveStops, Watching
<1>8. SeenAreOver'
  BY <1>2, <1>3 DEF WatchInv, SeenAreOver, TypeOK
<1> QED BY <1>2, <1>4, <1>6, <1>7, <1>8 DEF WatchInv, DueRuns

(* A watch puts its stop behind its sink.                                  *)
LEMMA WatchWatch == ASSUME TypeOK, WatchInv, NEW c \in Call, Watch(c) PROVE WatchInv'
<1> DEFINE added == <<Sink(c), Stop(c)>>
<1> DEFINE n == Len(listeners)
<1>1. added \in Seq(Listener) /\ Listen(c, added) /\ Len(added) = 2
      /\ added[1] = Sink(c) /\ added[2] = Stop(c)
  BY ListenerTypes DEF Watch
<1>2. /\ due = {} /\ due' = {} /\ kind[c] = "none" /\ kind' = [kind EXCEPT ![c] = "watch"]
      /\ lastEnd' = lastEnd /\ phase' = [phase EXCEPT ![c] = "watching"] /\ seen' = seen
  BY DEF Watch, Make, agent
<1>3. phase[c] = "none" /\ c \notin lastEnd /\ \A d \in Call : c \notin seen[d]
  BY <1>2 DEF WatchInv, Unmade
<1>4. Unmade'
  BY <1>2, <1>3 DEF WatchInv, Unmade, TypeOK
<1>5. n \in Nat
  BY DEF TypeOK
<1>6. /\ \A i \in on : i \in on' /\ listeners'[i] = listeners[i]
      /\ \A i \in on' : i \in on \/ i = n + 1 \/ i = n + 2
      /\ n + 1 \in on' /\ n + 2 \in on'
      /\ listeners'[n + 1] = Sink(c) /\ listeners'[n + 2] = Stop(c)
  <2>1. /\ Len(listeners') = n + 2
        /\ \A i \in 1..n : listeners'[i] = listeners[i]
        /\ \A i \in 1..2 : listeners'[n + i] = added[i]
        /\ on \subseteq 1..n
        /\ on' = on \cup (n + 1)..Len(listeners')
    <3> HIDE DEF added, n
    <3>1. /\ Len(listeners') = n + Len(added)
          /\ \A i \in 1..n : listeners'[i] = listeners[i]
          /\ \A i \in 1..Len(added) : listeners'[n + i] = added[i]
          /\ on \subseteq 1..n
          /\ on' = on \cup (n + 1)..Len(listeners')
      BY <1>1, ListenTypes, Zenon DEF n
    <3> QED BY <1>1, <3>1
  <2>2. listeners'[n + 1] = Sink(c) /\ listeners'[n + 2] = Stop(c)
    BY <1>1, <2>1
  <2> HIDE DEF n, added
  <2>3. /\ \A i \in on' : i \in on \/ i = n + 1 \/ i = n + 2
        /\ n + 1 \in on' /\ n + 2 \in on'
    BY <1>5, <2>1
  <2>4. \A i \in on : i \in on' /\ listeners'[i] = listeners[i]
    BY <2>1
  <2> QED BY <2>2, <2>3, <2>4
<1>7. StopsFollowSinks'
  <2>1. ASSUME NEW i \in on', listeners'[i].kind = "stop"
        PROVE  /\ i - 1 \in on' /\ listeners'[i - 1] = Sink(listeners'[i].of)
               /\ phase'[listeners'[i].of] = "watching"
    <3>1. CASE i \in on
      <4>1. IsStop(i) /\ listeners'[i] = listeners[i] /\ listeners[i].of \in Call
        BY <1>6, <2>1, <3>1, OnTypes DEF IsStop
      <4>2. i - 1 \in on /\ phase[listeners[i].of] = "watching"
            /\ listeners[i - 1] = Sink(listeners[i].of)
        BY <3>1, <4>1 DEF WatchInv, StopsFollowSinks
      <4> QED BY <1>2, <1>6, <4>1, <4>2 DEF TypeOK
    <3>2. CASE i = n + 1
      BY <1>6, <2>1, <3>2, ListenerTypes
    <3>3. CASE i = n + 2
      BY <1>2, <1>5, <1>6, <3>3, ListenerTypes DEF TypeOK
    <3> QED BY <1>6, <3>1, <3>2, <3>3
  <2> QED BY <2>1 DEF StopsFollowSinks, IsStop
<1>8. WatchesHaveStops'
  <2>1. ASSUME NEW w \in Call, phase'[w] = "watching"
        PROVE  \E i \in on' : listeners'[i] = Stop(w)
    <3>1. w \in Watching \/ w = c
      BY <1>2, <2>1 DEF Watching, TypeOK
    <3> QED BY <1>6, <3>1 DEF WatchInv, WatchesHaveStops
  <2> QED BY <2>1 DEF WatchesHaveStops, Watching
<1>9. SeenAreOver'
  BY <1>2, <1>3 DEF WatchInv, SeenAreOver, TypeOK
<1> QED BY <1>2, <1>4, <1>7, <1>8, <1>9 DEF WatchInv, DueRuns

(* Who leaves takes only a sink of its own away.                           *)
LEMMA LeaveWatch == ASSUME TypeOK, WatchInv, NEW c \in Call, Leave(c) PROVE WatchInv'
<1>1. /\ due = {} /\ due' = {} /\ phase[c] = "over" /\ phase' = [phase EXCEPT ![c] = "done"]
      /\ on' = {i \in on : listeners[i] # Sink(c)} /\ listeners' = listeners /\ kind' = kind
      /\ lastEnd' = lastEnd /\ seen' = seen
  BY DEF Leave, agent, ghosts
<1>2. Unmade'
  BY <1>1 DEF WatchInv, Unmade, TypeOK
<1>3. StopsFollowSinks'
  <2>1. ASSUME NEW i \in on', IsStop(i)
        PROVE  /\ i - 1 \in on' /\ listeners[i - 1] = Sink(listeners[i].of)
               /\ phase'[listeners[i].of] = "watching"
    <3>1. i \in on /\ listeners[i].of \in Call
      BY <1>1, OnTypes
    <3>2. /\ i - 1 \in on /\ listeners[i - 1] = Sink(listeners[i].of)
          /\ phase[listeners[i].of] = "watching"
      BY <2>1, <3>1 DEF WatchInv, StopsFollowSinks
    <3>3. listeners[i].of # c
      BY <1>1, <3>2
    <3>4. Sink(listeners[i].of) # Sink(c)
      BY <3>1, <3>3, ListenerTypes
    <3> QED BY <1>1, <3>1, <3>2, <3>3, <3>4 DEF TypeOK
  <2> QED BY <1>1, <2>1 DEF StopsFollowSinks, IsStop
<1>4. WatchesHaveStops'
  <2>1. ASSUME NEW w \in Call, phase'[w] = "watching"
        PROVE  \E i \in on' : listeners'[i] = Stop(w)
    <3>1. w \in Watching
      BY <1>1, <2>1 DEF Watching, TypeOK
    <3>2. PICK i \in on : listeners[i] = Stop(w)
      BY <3>1 DEF WatchInv, WatchesHaveStops
    <3>3. Stop(w) # Sink(c)
      BY ListenerTypes
    <3> QED BY <1>1, <3>2, <3>3
  <2> QED BY <2>1 DEF WatchesHaveStops, Watching
<1>5. SeenAreOver'
  BY <1>1 DEF WatchInv, SeenAreOver, TypeOK
<1> QED BY <1>1, <1>2, <1>3, <1>4, <1>5 DEF WatchInv, DueRuns

LEMMA WatchStep == ASSUME TypeOK, WatchInv, [Next]_vars PROVE WatchInv'
<1>1. CASE Close
  BY <1>1, WatchFrame DEF Close, agent, ghosts, WatchInv, DueRuns, Subscribed
<1>2. ASSUME NEW status \in Statuses, Update(status) PROVE WatchInv'
  BY <1>2, WatchFrame DEF Update, agent, WatchInv, DueRuns, Subscribed
<1>3. ASSUME NEW e \in Events, Native(e) PROVE WatchInv'
  BY <1>3, WatchFrame DEF Native, ghosts, Subscribed
<1>4. ASSUME NEW c \in Call, RunFails(c) \/ Returned(c) \/ Aborted(c) \/ AbortFails(c)
      PROVE  WatchInv'
  <2>1. due' = {} /\ array' = array /\ seen' = seen /\ lastEnd' = lastEnd /\ kind' = kind
    BY <1>4 DEF RunFails, Returned, Aborted, AbortFails, agent, ghosts
  <2>2. /\ phase[c] \in {"running", "ran", "failed", "aborting"}
        /\ \/ phase' = [phase EXCEPT ![c] = "failed"]
           \/ phase' = [phase EXCEPT ![c] = "done"]
           \/ phase' = [phase EXCEPT ![c] = "over"]
    BY <1>4 DEF RunFails, Returned, Aborted, AbortFails
  <2>3. kind[c] # "none"
    BY <2>2 DEF WatchInv, Unmade
  <2> QED BY <2>1, <2>2, <2>3, WatchFrame DEF TypeOK
<1>5. ASSUME NEW c \in Call, Cancel(c) PROVE WatchInv'
  <2>1. due' = {} /\ array' = array /\ seen' = seen /\ lastEnd' = lastEnd
        /\ kind' = [kind EXCEPT ![c] = "cancel"] /\ phase' = [phase EXCEPT ![c] = "aborting"]
        /\ kind[c] = "none"
    BY <1>5 DEF Cancel, Make, agent, ghosts
  <2>2. phase[c] = "none"
    BY <2>1 DEF WatchInv, Unmade
  <2> QED BY <2>1, <2>2, WatchFrame DEF TypeOK
<1>6. CASE UNCHANGED vars
  BY <1>6, WatchFrame DEF vars, agent, ghosts, WatchInv, DueRuns, Subscribed
<1> QED
  <2>1. ASSUME NEW c \in Call,
               \/ Push(c) \/ RunEnds(c) \/ RunFails(c) \/ Returned(c)
               \/ Watch(c) \/ Leave(c) \/ Cancel(c) \/ Aborted(c) \/ AbortFails(c)
               \/ \E k \in {"turn", "stream"} : Prompt(c, k) \/ PromptRefused(c, k)
        PROVE  WatchInv'
    BY <2>1, <1>4, <1>5, PushWatch, RunEndsWatch, PromptWatch, WatchWatch, LeaveWatch, Zenon
  <2> QED BY <1>1, <1>2, <1>3, <1>6, <2>1, Zenon DEF Next

LEMMA WatchAlways == Spec => [](TypeOK /\ WatchInv)
<1>1. Init => WatchInv
  BY DEF Init, WatchInv, Unmade, StopsFollowSinks, WatchesHaveStops, DueRuns, SeenAreOver, Watching
<1>2. TypeOK /\ WatchInv /\ [Next]_vars => WatchInv'
  BY WatchStep
<1> QED BY <1>1, <1>2, TypeCorrect, PTL DEF Spec

(* When a run ends well, no watch that was open before it is still waiting *)
(* (adapter.ts:373-374, 394-410).                                          *)
THEOREM TurnsEndWatches == Spec => []TurnEndsWatches
<1>1. WatchInv => TurnEndsWatches
  BY DEF WatchInv, SeenAreOver, TurnEndsWatches
<1> QED BY <1>1, WatchAlways, PTL

-----------------------------------------------------------------------------
(* The running claim.                                                      *)

\* What claims that a prompt is running has one under way.
ClaimInv ==
  /\ promptRunning => Subscribed # {}
  /\ open /\ state = "running" /\ ~given => UnderWay # {}

(* What an emit leaves of the claim.                                       *)
LEMMA EmitClaim ==
  ASSUME TypeOK, WatchInv, NEW e \in Events, NEW p \in [Call -> Phases], Emit(e, p),
         \A c \in Watching : p[c] = "watching"
  PROVE  /\ state' = state \/ state' = "idle"
         /\ \A c \in Call : phase'[c] = p[c] \/ (p[c] = "watching" /\ phase'[c] = "over")
<1>1. \A c \in Call : phase'[c] = IF e # "other" /\ c \in Watching THEN "over" ELSE p[c]
  BY EmitEnds, Zenon DEF WatchInv
<1>2. state' = state \/ state' = "idle"
  BY EmitEnds, Zenon DEF WatchInv
<1> QED BY <1>1, <1>2

LEMMA ClaimStep ==
  ASSUME TypeOK, WatchInv, ClaimInv, [Next]_vars
  PROVE  ClaimInv'
<1>1. CASE Close
  BY <1>1 DEF ClaimInv, Close, Subscribed
<1>2. ASSUME NEW status \in Statuses, Update(status) PROVE ClaimInv'
  BY <1>2 DEF ClaimInv, Update, Subscribed
<1>3. ASSUME NEW e \in Events, Native(e) PROVE ClaimInv'
  BY <1>3 DEF ClaimInv, Native, Subscribed, UnderWay, ghosts
<1>4. ASSUME NEW c \in Call, Push(c) PROVE ClaimInv'
  <2>1. Emit(event, phase) /\ event \in Events /\ phase \in [Call -> Phases]
    BY <1>4 DEF Push, TypeOK
  <2>2. /\ state' = state \/ state' = "idle"
        /\ \A d \in Call : phase'[d] = phase[d] \/ (phase[d] = "watching" /\ phase'[d] = "over")
    BY <2>1, EmitClaim DEF Watching
  <2>3. open' = open /\ promptRunning' = promptRunning /\ given' = given
    BY <1>4 DEF Push, ghosts
  <2> QED BY <2>2, <2>3 DEF ClaimInv, Subscribed, UnderWay
<1>5. ASSUME NEW c \in Call, RunEnds(c) PROVE ClaimInv'
  <2> DEFINE p == [phase EXCEPT ![c] = "ran"]
  <2>1. p \in [Call -> Phases] /\ p[c] = "ran" /\ \A d \in Watching : p[d] = "watching"
    BY <1>5 DEF TypeOK, Phases, RunEnds, Watching
  <2>2. phase'[c] = "ran"
    <3>1. CASE c \in lastEnd
      BY <1>5, <3>1 DEF RunEnds, TypeOK
    <3>2. CASE c \notin lastEnd
      <4>1. Emit("end_turn", p)
        BY <1>5, <3>2 DEF RunEnds
      <4> QED BY <2>1, <4>1, EmitClaim DEF Events
    <3> QED BY <3>1, <3>2
  <2> QED BY <1>5, <2>2 DEF RunEnds, ClaimInv, UnderWay
<1>6. ASSUME NEW c \in Call, RunFails(c) PROVE ClaimInv'
  BY <1>6 DEF RunFails, ClaimInv, UnderWay, TypeOK
<1>7. ASSUME NEW c \in Call, Returned(c) PROVE ClaimInv'
  <2>1. state' # "running"
    BY <1>7 DEF Returned
  <2>2. promptRunning' = promptRunning
        /\ \A d \in Call : phase[d] = "running" => phase'[d] = "running"
    BY <1>7 DEF Returned, TypeOK
  <2> QED BY <2>1, <2>2 DEF ClaimInv, Subscribed
<1>8. ASSUME NEW c \in Call, Watch(c) \/ Leave(c) \/ Cancel(c) \/ AbortFails(c)
      PROVE  ClaimInv'
  <2>1. phase[c] \notin {"running", "ran", "failed"}
    BY <1>8 DEF Watch, Leave, Cancel, AbortFails, Make, WatchInv, Unmade
  <2>2. \A d \in Call \ {c} : phase'[d] = phase[d]
    BY <1>8 DEF Watch, Leave, Cancel, AbortFails, Make, TypeOK
  <2>3. UNCHANGED <<open, state, given, promptRunning>>
    BY <1>8 DEF Watch, Leave, Cancel, AbortFails, ghosts
  <2> QED BY <2>1, <2>2, <2>3 DEF ClaimInv, Subscribed, UnderWay
<1>9. ASSUME NEW c \in Call, Aborted(c) PROVE ClaimInv'
  BY <1>9 DEF Aborted, ClaimInv, Subscribed, TypeOK
<1>10. ASSUME NEW c \in Call, NEW k \in {"turn", "stream"}, Prompt(c, k) PROVE ClaimInv'
  <2>1. phase'[c] = "running"
    BY <1>10 DEF Prompt, Make, TypeOK
  <2> QED BY <2>1 DEF ClaimInv, Subscribed, UnderWay
<1>11. ASSUME NEW c \in Call, NEW k \in {"turn", "stream"}, PromptRefused(c, k) PROVE ClaimInv'
  <2>1. phase[c] = "none" /\ phase' = [phase EXCEPT ![c] = "failed"]
        /\ promptRunning' = promptRunning
    BY <1>11 DEF PromptRefused, Make, WatchInv, Unmade
  <2> QED BY <2>1 DEF ClaimInv, Subscribed, UnderWay, TypeOK
<1>12. CASE UNCHANGED vars
  BY <1>12 DEF vars, ghosts, ClaimInv, Subscribed, UnderWay
<1> QED
  <2>1. ASSUME NEW c \in Call,
               \/ Push(c) \/ RunEnds(c) \/ RunFails(c) \/ Returned(c)
               \/ Watch(c) \/ Leave(c) \/ Cancel(c) \/ Aborted(c) \/ AbortFails(c)
               \/ \E k \in {"turn", "stream"} : Prompt(c, k) \/ PromptRefused(c, k)
        PROVE  ClaimInv'
    BY <2>1, <1>4, <1>5, <1>6, <1>7, <1>8, <1>9, <1>10, <1>11, Zenon
  <2> QED BY <1>1, <1>2, <1>3, <1>12, <2>1, Zenon DEF Next

(* Once no prompt is under way, an open session is neither listed as       *)
(* running, unless a client set it so or it is new, nor marked as running  *)
(* a prompt (adapter.ts:296-298, session.ts:294-297).                      *)
THEOREM TurnsReleaseTheClaim == Spec => []ClaimIsReleased
<1>1. Init => ClaimInv
  BY DEF Init, ClaimInv
<1>2. TypeOK /\ WatchInv /\ ClaimInv /\ [Next]_vars => ClaimInv'
  BY ClaimStep
<1>3. ClaimInv => ClaimIsReleased
  BY DEF ClaimInv, ClaimIsReleased, Subscribed, UnderWay
<1> QED BY <1>1, <1>2, <1>3, WatchAlways, PTL DEF Spec

-----------------------------------------------------------------------------
(* Who hears the end.                                                      *)

\* The sink of c is on, and no stop is in front of it.
Front(c) == \E i \in on : listeners[i] = Sink(c) /\ \A j \in on : j < i => ~IsStop(j)

\* What a call is, by how far it is.
Kinds ==
  \A c \in Call : /\ phase[c] \in {"running", "ran", "failed"} => kind[c] \in {"turn", "stream"}
                  /\ phase[c] = "watching" => kind[c] = "watch"
                  /\ phase[c] = "aborting" => kind[c] = "cancel"

FrontSinks ==
  \A c \in Call \ behind :
    phase[c] = "watching" \/ (kind[c] = "stream" /\ phase[c] = "running") => Front(c)

LastHeard ==
  \A c \in Call \ behind : kind[c] = "stream" /\ phase[c] = "running" /\ c \in lastEnd => c \in ended

HearInv == Kinds /\ FrontSinks /\ LastHeard /\ FirstInLineHearsEnd

(* A sink with no stop in front of it is visited.                          *)
LEMMA FrontHears ==
  ASSUME TypeOK, NEW e \in Events, NEW c \in Call, Front(c)
  PROVE  c \in Hearing(e, "sink")
<1>1. PICK i \in on : listeners[i] = Sink(c) /\ \A j \in on : j < i => ~IsStop(j)
  BY DEF Front
<1>2. StopsBefore(i) = {}
  <2>1. ASSUME NEW j \in StopsBefore(i) PROVE FALSE
    <3>1. j \in on /\ j < i /\ \A k \in on : j <= k /\ k < i => IsStop(k)
      BY <2>1 DEF StopsBefore
    <3>2. j \in Nat
      BY <3>1, OnTypes
    <3> QED BY <1>1, <3>1, <3>2
  <2> QED BY <2>1
<1>3. Cardinality(StopsBefore(i)) % 2 = 0
  BY <1>2, FS_EmptySet
<1> QED BY <1>1, <1>3 DEF Visited, Hearing, Sink

(* Steps that leave the listeners and what was heard alone.                *)
LEMMA HearFrame ==
  ASSUME TypeOK, HearInv, array' = array, behind' = behind, ended' = ended,
         \A c \in lastEnd' : c \in lastEnd,
         \A c \in Call :
           \/ /\ kind'[c] = kind[c]
              /\ \/ phase'[c] = phase[c]
                 \/ phase[c] = "running" /\ phase'[c] = "failed"
                 \/ /\ phase[c] \in {"ran", "failed"}
                    /\ phase'[c] = IF kind[c] = "stream" THEN "over" ELSE "done"
                 \/ phase[c] = "aborting" /\ phase'[c] = "done"
           \/ kind'[c] = "cancel" /\ phase'[c] = "aborting"
  PROVE  HearInv'
<1>1. \A c \in Call : Front(c)' <=> Front(c)
  BY DEF Front, array, IsStop
<1>2. Kinds'
  BY DEF HearInv, Kinds
<1>3. FrontSinks'
  BY <1>1 DEF HearInv, FrontSinks
<1>4. LastHeard'
  BY DEF HearInv, LastHeard
<1>5. FirstInLineHearsEnd'
  BY DEF HearInv, FirstInLineHearsEnd, Answered, Kinds
<1> QED BY <1>2, <1>3, <1>4, <1>5 DEF HearInv

(* After an end: whatever is heard, no stop is left.                       *)
LEMMA EndFronts ==
  ASSUME TypeOK, WatchInv, NEW e \in Events, e # "other", NEW p \in [Call -> Phases], Emit(e, p),
         UNCHANGED <<listeners, kind, behind>>, NEW c \in Call, Front(c)
  PROVE  Front(c)' /\ c \in ended'
<1>1. on' = {i \in on : ~IsStop(i)}
  BY EmitEnds, Zenon DEF WatchInv
<1>2. PICK i \in on : listeners[i] = Sink(c) /\ \A j \in on : j < i => ~IsStop(j)
  BY DEF Front
<1>3. i \in on'
  BY <1>1, <1>2, ListenerTypes DEF IsStop
<1>4. Front(c)'
  BY <1>1, <1>2, <1>3 DEF Front, IsStop
<1>5. c \in ended'
  BY FrontHears DEF Emit
<1> QED BY <1>4, <1>5

LEMMA PushHears ==
  ASSUME TypeOK, WatchInv, HearInv, NEW c \in Call, Push(c)
  PROVE  HearInv'
<1>1. /\ c \in due /\ Emit(event, phase) /\ event \in Events /\ phase \in [Call -> Phases]
      /\ lastEnd' = (IF event = "other" THEN lastEnd \ {c} ELSE lastEnd \cup {c})
      /\ listeners' = listeners /\ kind' = kind /\ behind' = behind
  BY DEF Push, ghosts, TypeOK
<1>2. /\ \A d \in Call : phase'[d] = IF event # "other" /\ d \in Watching THEN "over" ELSE phase[d]
      /\ event = "other" => on' = on /\ ended' = ended
      /\ ended \subseteq ended'
  BY <1>1, EmitEnds, Zenon DEF WatchInv
<1>3. CASE event = "other"
  BY <1>1, <1>2, <1>3, HearFrame DEF array
<1>4. CASE event # "other"
  <2>1. \A d \in Call : Front(d) => Front(d)' /\ d \in ended'
    BY <1>1, <1>4, EndFronts
  <2>2. Kinds'
    BY <1>1, <1>2 DEF HearInv, Kinds
  <2>3. FrontSinks'
    BY <1>1, <1>2, <1>4, <2>1 DEF HearInv, FrontSinks, Watching
  <2>4. LastHeard'
    BY <1>1, <1>2, <1>4, <2>1 DEF HearInv, FrontSinks, LastHeard, Watching
  <2>5. FirstInLineHearsEnd'
    BY <1>1, <1>2, <1>4, <2>1 DEF HearInv, FrontSinks, Kinds, FirstInLineHearsEnd, Answered, Watching
  <2> QED BY <2>2, <2>3, <2>4, <2>5 DEF HearInv
<1> QED BY <1>3, <1>4

LEMMA RunEndsHears ==
  ASSUME TypeOK, WatchInv, HearInv, NEW c \in Call, RunEnds(c)
  PROVE  HearInv'
<1> DEFINE p == [phase EXCEPT ![c] = "ran"]
<1>1. /\ phase[c] = "running" /\ lastEnd' = lastEnd
      /\ listeners' = listeners /\ kind' = kind /\ behind' = behind
  BY DEF RunEnds, ghosts
<1>2. p \in [Call -> Phases] /\ p[c] = "ran" /\ \A d \in Call \ {c} : p[d] = phase[d]
  BY DEF TypeOK, Phases
<1>3. CASE c \in lastEnd
  <2>1. phase' = p /\ on' = on /\ ended' = ended
    BY <1>3 DEF RunEnds
  <2>2. \A d \in Call : Front(d)' <=> Front(d)
    BY <1>1, <2>1 DEF Front, IsStop
  <2>3. Kinds' /\ FrontSinks' /\ LastHeard'
    BY <1>1, <1>2, <2>1, <2>2 DEF HearInv, Kinds, FrontSinks, LastHeard
  <2>4. FirstInLineHearsEnd'
    BY <1>1, <1>2, <1>3, <2>1 DEF HearInv, LastHeard, FirstInLineHearsEnd, Answered
  <2> QED BY <2>3, <2>4 DEF HearInv
<1>4. CASE c \notin lastEnd
  <2>1. Emit("end_turn", p)
    BY <1>4 DEF RunEnds
  <2>2. /\ \A d \in Call : phase'[d] = IF d \in Watching THEN "over" ELSE p[d]
        /\ ended \subseteq ended'
    BY <1>2, <2>1, EmitEnds DEF WatchInv, Events
  <2>3. \A d \in Call : Front(d) => Front(d)' /\ d \in ended'
    BY <1>1, <1>2, <2>1, EndFronts DEF Events
  <2>4. phase'[c] = "ran" /\ \A d \in Call \ {c} :
           phase'[d] = IF phase[d] = "watching" THEN "over" ELSE phase[d]
    BY <1>1, <1>2, <2>2 DEF Watching
  <2>5. Kinds'
    BY <1>1, <2>4 DEF HearInv, Kinds
  <2>6. FrontSinks'
    BY <1>1, <2>3, <2>4 DEF HearInv, FrontSinks
  <2>7. LastHeard'
    BY <1>1, <2>2, <2>4 DEF HearInv, LastHeard
  <2>8. FirstInLineHearsEnd'
    BY <1>1, <2>2, <2>3, <2>4 DEF HearInv, FrontSinks, Kinds, FirstInLineHearsEnd, Answered
  <2> QED BY <2>5, <2>6, <2>7, <2>8 DEF HearInv
<1> QED BY <1>3, <1>4

(* Who begins to listen is behind all others, and first if none watches.   *)
LEMMA ListenFronts ==
  ASSUME TypeOK, WatchInv, NEW c \in Call, NEW added \in Seq(Listener), Listen(c, added)
  PROVE  /\ \A d \in Call : Front(d) => Front(d)'
         /\ added # <<>> /\ added[1] = Sink(c) /\ c \notin behind' => Front(c)'
         /\ behind' = behind \/ behind' = behind \cup {c}
<1> DEFINE n == Len(listeners)
<1>1. /\ \A i \in 1..n : listeners'[i] = listeners[i]
      /\ \A i \in 1..Len(added) : listeners'[n + i] = added[i]
      /\ on \subseteq 1..n /\ Len(listeners') = n + Len(added)
      /\ on' = on \cup (n + 1)..Len(listeners')
  BY ListenTypes
<1>2. n \in Nat /\ Len(added) \in Nat
  BY DEF TypeOK
<1> HIDE DEF n
<1>3. \A i \in on : i \in on' /\ listeners'[i] = listeners[i] /\ i <= n
  BY <1>1, <1>2
<1>4. \A i \in on' : i \notin on => i \in Nat /\ i > n
  BY <1>1, <1>2
<1>5. ASSUME NEW d \in Call, Front(d) PROVE Front(d)'
  <2>1. PICK i \in on : listeners[i] = Sink(d) /\ \A j \in on : j < i => ~IsStop(j)
    BY <1>5 DEF Front
  <2>2. i \in Nat /\ i <= n
    BY <1>3, OnTypes
  <2>3. ASSUME NEW j \in on', j < i PROVE listeners'[j].kind # "stop"
    <3>1. j \in on
      BY <1>2, <1>4, <2>2, <2>3
    <3> QED BY <1>3, <2>1, <2>3, <3>1 DEF IsStop
  <2> QED BY <1>3, <2>1, <2>3 DEF Front, IsStop
<1>6. ASSUME added # <<>>, added[1] = Sink(c), c \notin behind' PROVE Front(c)'
  <2>1. Watching = {}
    BY <1>6 DEF Listen
  <2>2. \A j \in on : ~IsStop(j)
    BY <2>1, OnTypes DEF WatchInv, StopsFollowSinks, Watching
  <2>3. 1 \in 1..Len(added)
    BY <1>6
  <2>4. n + 1 \in on' /\ listeners'[n + 1] = Sink(c)
    BY <1>1, <1>2, <1>6, <2>3
  <2>5. ASSUME NEW j \in on', j < n + 1 PROVE listeners'[j].kind # "stop"
    <3>1. j \in on
      BY <1>2, <1>4, <2>5
    <3> QED BY <1>3, <2>2, <3>1 DEF IsStop
  <2> QED BY <2>4, <2>5 DEF Front, IsStop
<1>7. behind' = behind \/ behind' = behind \cup {c}
  BY DEF Listen
<1> QED BY <1>5, <1>6, <1>7

LEMMA PromptHears ==
  ASSUME TypeOK, WatchInv, HearInv, NEW c \in Call, NEW k \in {"turn", "stream"},
         Prompt(c, k) \/ PromptRefused(c, k)
  PROVE  HearInv'
<1> DEFINE added == IF k = "stream" THEN <<Sink(c)>> ELSE <<>>
<1>1. added \in Seq(Listener) /\ Listen(c, added)
      /\ (k = "stream" => added # <<>> /\ added[1] = Sink(c))
  BY ListenerTypes DEF Prompt, PromptRefused
<1>2. /\ kind[c] = "none" /\ kind' = [kind EXCEPT ![c] = k] /\ lastEnd' = lastEnd /\ ended' = ended
      /\ \/ phase' = [phase EXCEPT ![c] = "running"]
         \/ phase' = [phase EXCEPT ![c] = "failed"]
  BY DEF Prompt, PromptRefused, Make
<1>3. c \notin lastEnd
  BY <1>2 DEF WatchInv, Unmade
<1>4. /\ \A d \in Call : Front(d) => Front(d)'
      /\ k = "stream" /\ c \notin behind' => Front(c)'
      /\ behind' = behind \/ behind' = behind \cup {c}
  <2> HIDE DEF added
  <2> QED BY <1>1, ListenFronts
<1>5. /\ kind'[c] = k /\ phase'[c] \in {"running", "failed"}
      /\ \A d \in Call \ {c} : kind'[d] = kind[d] /\ phase'[d] = phase[d]
                              /\ (d \in behind' <=> d \in behind)
  BY <1>2, <1>4 DEF TypeOK
<1>6. Kinds'
  BY <1>5 DEF HearInv, Kinds
<1>7. FrontSinks'
  BY <1>4, <1>5 DEF HearInv, FrontSinks
<1>8. LastHeard'
  BY <1>2, <1>3, <1>5 DEF HearInv, LastHeard
<1>9. FirstInLineHearsEnd'
  BY <1>2, <1>5 DEF HearInv, FirstInLineHearsEnd, Answered
<1> QED BY <1>6, <1>7, <1>8, <1>9 DEF HearInv

LEMMA WatchHears ==
  ASSUME TypeOK, WatchInv, HearInv, NEW c \in Call, Watch(c)
  PROVE  HearInv'
<1> DEFINE added == <<Sink(c), Stop(c)>>
<1>1. added \in Seq(Listener) /\ Listen(c, added) /\ added # <<>> /\ added[1] = Sink(c)
  BY ListenerTypes DEF Watch
<1>2. /\ kind[c] = "none" /\ kind' = [kind EXCEPT ![c] = "watch"] /\ lastEnd' = lastEnd
      /\ ended' = ended /\ phase' = [phase EXCEPT ![c] = "watching"]
  BY DEF Watch, Make
<1>3. /\ \A d \in Call : Front(d) => Front(d)'
      /\ c \notin behind' => Front(c)'
      /\ behind' = behind \/ behind' = behind \cup {c}
  <2> HIDE DEF added
  <2> QED BY <1>1, ListenFronts
<1>4. /\ kind'[c] = "watch" /\ phase'[c] = "watching"
      /\ \A d \in Call \ {c} : kind'[d] = kind[d] /\ phase'[d] = phase[d]
                              /\ (d \in behind' <=> d \in behind)
  BY <1>2, <1>3 DEF TypeOK
<1>5. Kinds'
  BY <1>4 DEF HearInv, Kinds
<1>6. FrontSinks'
  BY <1>3, <1>4 DEF HearInv, FrontSinks
<1>7. LastHeard' /\ FirstInLineHearsEnd'
  BY <1>2, <1>4 DEF HearInv, LastHeard, FirstInLineHearsEnd, Answered
<1> QED BY <1>5, <1>6, <1>7 DEF HearInv

LEMMA LeaveHears ==
  ASSUME TypeOK, WatchInv, HearInv, NEW c \in Call, Leave(c)
  PROVE  HearInv'
<1>1. /\ phase[c] = "over" /\ phase' = [phase EXCEPT ![c] = "done"]
      /\ on' = {i \in on : listeners[i] # Sink(c)} /\ listeners' = listeners /\ kind' = kind
      /\ lastEnd' = lastEnd /\ ended' = ended /\ behind' = behind
  BY DEF Leave, ghosts
<1>2. phase'[c] = "done" /\ \A d \in Call \ {c} : phase'[d] = phase[d]
  BY <1>1 DEF TypeOK
<1>3. ASSUME NEW d \in Call \ {c}, Front(d) PROVE Front(d)'
  <2>1. Sink(d) # Sink(c)
    BY ListenerTypes
  <2> QED BY <1>1, <1>3, <2>1 DEF Front, IsStop
<1>4. Kinds'
  BY <1>1, <1>2 DEF HearInv, Kinds
<1>5. FrontSinks'
  BY <1>1, <1>2, <1>3 DEF HearInv, FrontSinks
<1>6. LastHeard'
  BY <1>1, <1>2 DEF HearInv, LastHeard
<1>7. FirstInLineHearsEnd'
  BY <1>1, <1>2 DEF HearInv, FirstInLineHearsEnd, Answered
<1> QED BY <1>4, <1>5, <1>6, <1>7 DEF HearInv

LEMMA HearStep == ASSUME TypeOK, WatchInv, HearInv, [Next]_vars PROVE HearInv'
<1>1. CASE Close
  BY <1>1, HearFrame DEF Close, ghosts
<1>2. ASSUME NEW status \in Statuses, Update(status) PROVE HearInv'
  BY <1>2, HearFrame DEF Update
<1>3. ASSUME NEW e \in Events, Native(e) PROVE HearInv'
  BY <1>3, HearFrame DEF Native, ghosts
<1>4. ASSUME NEW c \in Call, RunFails(c) \/ Returned(c) \/ Aborted(c) \/ AbortFails(c) \/ Cancel(c)
      PROVE  HearInv'
  <2>1. array' = array /\ behind' = behind /\ lastEnd' = lastEnd /\ ended' = ended
    BY <1>4 DEF RunFails, Returned, Aborted, AbortFails, Cancel, ghosts
  <2>2. \A d \in Call \ {c} : kind'[d] = kind[d] /\ phase'[d] = phase[d]
    BY <1>4 DEF RunFails, Returned, Aborted, AbortFails, Cancel, Make, TypeOK
  <2>3. \/ /\ kind'[c] = kind[c]
           /\ \/ phase[c] = "running" /\ phase'[c] = "failed"
              \/ /\ phase[c] \in {"ran", "failed"}
                 /\ phase'[c] = IF kind[c] = "stream" THEN "over" ELSE "done"
              \/ phase[c] = "aborting" /\ phase'[c] = "done"
        \/ kind'[c] = "cancel" /\ phase'[c] = "aborting"
    BY <1>4 DEF RunFails, Returned, Aborted, AbortFails, Cancel, Make, TypeOK
  <2> QED BY <2>1, <2>2, <2>3, HearFrame
<1>5. CASE UNCHANGED vars
  BY <1>5, HearFrame DEF vars, ghosts
<1> QED
  <2>1. ASSUME NEW c \in Call,
               \/ Push(c) \/ RunEnds(c) \/ RunFails(c) \/ Returned(c)
               \/ Watch(c) \/ Leave(c) \/ Cancel(c) \/ Aborted(c) \/ AbortFails(c)
               \/ \E k \in {"turn", "stream"} : Prompt(c, k) \/ PromptRefused(c, k)
        PROVE  HearInv'
    BY <2>1, <1>4, PushHears, RunEndsHears, PromptHears, WatchHears, LeaveHears, Zenon
  <2> QED BY <1>1, <1>2, <1>3, <1>5, <2>1, Zenon DEF Next

(* A stream whose turn has ended well, and a watch that has ended, were    *)
(* given the end if no watch was open when they began to listen            *)
(* (session.ts:159-175, adapter.ts:391-410).                               *)
THEOREM FirstHearsTheEnd == Spec => []FirstInLineHearsEnd
<1>1. Init => HearInv
  BY DEF Init, HearInv, Kinds, FrontSinks, LastHeard, FirstInLineHearsEnd, Answered
<1>2. TypeOK /\ WatchInv /\ HearInv /\ [Next]_vars => HearInv'
  BY HearStep
<1>3. HearInv => FirstInLineHearsEnd
  BY DEF HearInv
<1> QED BY <1>1, <1>2, <1>3, WatchAlways, PTL DEF Spec

=============================================================================
