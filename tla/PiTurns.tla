------------------------------ MODULE PiTurns ------------------------------
(***************************************************************************)
(* The turns of one open session: prompt(), streamTurn(), cancel(),        *)
(* update() and close() of apps/daemon/src/pi/adapter.ts over run() and    *)
(* the listeners of its session (session.ts).  The agent below,            *)
(* the Pi SDK, is external: it may emit any event while a run is           *)
(* subscribed, and settle the promise of a prompt, a steer or a follow-up  *)
(* whenever it likes.                                                      *)
(*                                                                         *)
(* An action is what runs between two awaits.  One event of the agent is   *)
(* given to every subscribed run in turn, and each passes it to all        *)
(* listeners, before anything else runs: meanwhile "due" is not empty.     *)
(***************************************************************************)
EXTENDS Naturals, Sequences, FiniteSets

CONSTANT Call \* calls that clients make; each is made once (bound)

VARIABLES
  open,          \* the session is in the adapter's table
  state,         \* entry.state
  given,         \* (ghost) the state was set by the opening or by update(), not by a turn
  promptRunning, \* session.promptRunning
  kind,          \* what a call is: a prompt, a stream with a turn, a watch, a cancel
  phase,         \* how far a call is
  listeners,     \* all listeners so far, in order: a call's sink, or the stop of a watch
  on,            \* positions of those that session.listeners still holds
  due,           \* runs that the current event has yet to be given to
  event,         \* that event
  lastEnd,       \* runs whose latest event is an end
  ended,         \* calls whose sink was given an end
  seen,          \* (ghost) the watches that were open when a run began
  behind         \* (ghost) calls that began to listen while a watch was open

array == <<listeners, on>>
agent == <<due, event>>
ghosts == <<given, seen, behind>>
vars == <<open, state, promptRunning, kind, phase, array, agent, lastEnd, ended, ghosts>>

\* A message, tool, thinking, status or error event; agent_end; agent_settled.
Events == {"other", "end_turn", "settled"}
Statuses == {"running", "paused", "idle", "resumed"}
Phases == {"none", "running", "ran", "failed", "watching", "aborting", "over", "done"}

Sink(c) == [kind |-> "sink", of |-> c]
Stop(c) == [kind |-> "stop", of |-> c]

TypeOK ==
  /\ open \in BOOLEAN /\ given \in BOOLEAN /\ promptRunning \in BOOLEAN
  /\ state \in Statuses \cup {"errored", "closed"}
  /\ kind \in [Call -> {"none", "turn", "stream", "watch", "cancel"}]
  /\ phase \in [Call -> Phases]
  /\ listeners \in Seq([kind : {"sink", "stop"}, of : Call])
  /\ on \in SUBSET DOMAIN listeners
  /\ due \in SUBSET Call /\ event \in Events
  /\ lastEnd \in SUBSET Call /\ ended \in SUBSET Call
  /\ seen \in [Call -> SUBSET Call] /\ behind \in SUBSET Call

\* spawn() lists a session as running.
Init ==
  /\ open = TRUE /\ state = "running" /\ given = TRUE /\ promptRunning = FALSE
  /\ kind = [c \in Call |-> "none"] /\ phase = [c \in Call |-> "none"]
  /\ listeners = <<>> /\ on = {} /\ due = {} /\ event = "other"
  /\ lastEnd = {} /\ ended = {}
  /\ seen = [c \in Call |-> {}] /\ behind = {}

Watching == {c \in Call : phase[c] = "watching"}
Subscribed == {c \in Call : phase[c] = "running"}

(***************************************************************************)
(* One event is passed to all listeners.                                   *)
(***************************************************************************)

IsStop(i) == listeners[i].kind = "stop"

\* The stops directly in front of the listener at i.
StopsBefore(i) == {j \in on : j < i /\ \A k \in on : j <= k /\ k < i => IsStop(k)}

\* Listeners that the loop visits: a stop takes itself out of the array it walks over, so the
\* listener behind a stop that was called is passed over.
Visited(e) == {i \in on : e = "other" \/ Cardinality(StopsBefore(i)) % 2 = 0}

Hearing(e, what) == {c \in Call : \E i \in Visited(e) : listeners[i] = [kind |-> what, of |-> c]}

\* Watches that the event ends.
Ending(e) == IF e = "other" THEN {} ELSE Hearing(e, "stop")

\* emit(), in a step that leaves the calls in the phases p otherwise.  A watch that ends on
\* another end than "settled" hands its sink a settled one.
Emit(e, p) ==
  /\ phase' = [c \in Call |-> IF c \in Ending(e) THEN "over" ELSE p[c]]
  /\ state' = IF Ending(e) # {} /\ state = "running" THEN "idle" ELSE state
  /\ ended' = IF e = "other" THEN ended
              ELSE ended \cup Hearing(e, "sink") \cup (IF e = "settled" THEN {} ELSE Ending(e))
  /\ on' = {i \in on : ~(IsStop(i) /\ listeners[i].of \in Ending(e))}

\* The agent emits an event.
Native(e) ==
  /\ due = {} /\ Subscribed # {}
  /\ due' = Subscribed
  /\ event' = e
  /\ UNCHANGED <<open, state, promptRunning, kind, phase, array, lastEnd, ended, ghosts>>

\* push(): a run records the event and passes it on.
Push(c) ==
  /\ c \in due
  /\ due' = due \ {c}
  /\ event' = IF due' = {} THEN "other" ELSE event
  /\ lastEnd' = IF event = "other" THEN lastEnd \ {c} ELSE lastEnd \cup {c}
  /\ Emit(event, phase)
  /\ UNCHANGED <<open, promptRunning, kind, listeners, ghosts>>

(***************************************************************************)
(* Turns.                                                                  *)
(***************************************************************************)

\* A call is made: it finds the session in the adapter's table.
Make(c, k, p) ==
  /\ due = {} /\ open /\ kind[c] = "none"
  /\ kind' = [kind EXCEPT ![c] = k]
  /\ phase' = [phase EXCEPT ![c] = p]

\* Mutant: listeners are added in front.
Listen_InFront(c, added) ==
  /\ listeners' = added \o listeners
  /\ on' = (1..Len(added)) \cup {i + Len(added) : i \in on}
  /\ behind' = IF added # <<>> /\ Watching # {} THEN behind \cup {c} ELSE behind

\* onEvent()
Listen(c, added) ==
  /\ listeners' = listeners \o added
  /\ on' = on \cup (Len(listeners) + 1)..Len(listeners')
  /\ behind' = IF added # <<>> /\ Watching # {} THEN behind \cup {c} ELSE behind

\* prompt(), and streamTurn() with a turn, as far as the agent's prompt().
Prompt(c, k) ==
  /\ Make(c, k, "running")
  /\ Listen(c, IF k = "stream" THEN <<Sink(c)>> ELSE <<>>)
  /\ state' = "running" /\ given' = FALSE
  /\ promptRunning' = TRUE
  /\ seen' = [seen EXCEPT ![c] = Watching]
  /\ UNCHANGED <<open, agent, lastEnd, ended>>

\* The same with attachments that run() refuses.
PromptRefused(c, k) ==
  /\ Make(c, k, "failed")
  /\ Listen(c, IF k = "stream" THEN <<Sink(c)>> ELSE <<>>)
  /\ state' = "running" /\ given' = FALSE
  /\ UNCHANGED <<open, promptRunning, agent, lastEnd, ended, seen>>

\* The agent's promise resolves: run() adds an end if its latest event is none.
RunEnds(c) ==
  /\ due = {} /\ phase[c] = "running"
  /\ promptRunning' = FALSE
  /\ IF c \in lastEnd
     THEN phase' = [phase EXCEPT ![c] = "ran"] /\ UNCHANGED <<state, ended, on>>
     ELSE Emit("end_turn", [phase EXCEPT ![c] = "ran"])
  /\ UNCHANGED <<open, kind, listeners, agent, lastEnd, ghosts>>

\* The agent's promise rejects.
RunFails(c) ==
  /\ due = {} /\ phase[c] = "running"
  /\ promptRunning' = FALSE
  /\ phase' = [phase EXCEPT ![c] = "failed"]
  /\ UNCHANGED <<open, state, kind, array, agent, lastEnd, ended, ghosts>>

\* Mutant: a turn that ends leaves the state alone.
Returned_KeepsClaim(c) ==
  /\ due = {} /\ phase[c] \in {"ran", "failed"}
  /\ state' = IF phase[c] = "failed" THEN "errored" ELSE state
  /\ phase' = [phase EXCEPT ![c] = IF kind[c] = "stream" THEN "over" ELSE "done"]
  /\ UNCHANGED <<open, promptRunning, kind, array, agent, lastEnd, ended, ghosts>>

\* prompt() after run().
Returned(c) ==
  /\ due = {} /\ phase[c] \in {"ran", "failed"}
  /\ state' = CASE phase[c] = "failed" -> "errored"
                [] phase[c] = "ran" /\ state = "running" -> "idle"
                [] OTHER -> state
  /\ phase' = [phase EXCEPT ![c] = IF kind[c] = "stream" THEN "over" ELSE "done"]
  /\ UNCHANGED <<open, promptRunning, kind, array, agent, lastEnd, ended, ghosts>>

\* Mutant: a watch has one listener, which sinks events and stops.
Watch_OneListener(c) ==
  /\ Make(c, "watch", "watching")
  /\ Listen(c, <<Stop(c)>>)
  /\ UNCHANGED <<open, state, given, promptRunning, agent, lastEnd, ended, seen>>

\* streamTurn() without a turn: a watch.
Watch(c) ==
  /\ Make(c, "watch", "watching")
  /\ Listen(c, <<Sink(c), Stop(c)>>)
  /\ UNCHANGED <<open, state, given, promptRunning, agent, lastEnd, ended, seen>>

\* The end of streamTurn(): its sink stops listening.
Leave(c) ==
  /\ due = {} /\ phase[c] = "over"
  /\ phase' = [phase EXCEPT ![c] = "done"]
  /\ on' = {i \in on : listeners[i] # Sink(c)}
  /\ UNCHANGED <<open, state, promptRunning, kind, listeners, agent, lastEnd, ended, ghosts>>

(***************************************************************************)
(* Cancel, update, close.                                                  *)
(***************************************************************************)

\* cancel(), as far as the agent's abort().
Cancel(c) ==
  /\ Make(c, "cancel", "aborting")
  /\ UNCHANGED <<open, state, promptRunning, array, agent, lastEnd, ended, ghosts>>

\* cancel() after abort(), whatever has begun since.
Aborted(c) ==
  /\ due = {} /\ phase[c] = "aborting"
  /\ phase' = [phase EXCEPT ![c] = "done"]
  /\ state' = "idle"
  /\ UNCHANGED <<open, promptRunning, kind, array, agent, lastEnd, ended, ghosts>>

\* abort() throws.
AbortFails(c) ==
  /\ due = {} /\ phase[c] = "aborting"
  /\ phase' = [phase EXCEPT ![c] = "done"]
  /\ UNCHANGED <<open, state, promptRunning, kind, array, agent, lastEnd, ended, ghosts>>

\* update() with a status.
Update(status) ==
  /\ due = {} /\ open
  /\ state' = status
  /\ given' = TRUE
  /\ UNCHANGED <<open, promptRunning, kind, phase, array, agent, lastEnd, ended, seen, behind>>

\* close(), as far as the index; the calls under way keep the session.
Close ==
  /\ due = {} /\ open
  /\ open' = FALSE
  /\ state' = "closed"
  /\ UNCHANGED <<promptRunning, kind, phase, array, agent, lastEnd, ended, ghosts>>

-----------------------------------------------------------------------------

Next ==
  \/ Close
  \/ \E status \in Statuses : Update(status)
  \/ \E e \in Events : Native(e)
  \/ \E c \in Call :
       \/ Push(c) \/ RunEnds(c) \/ RunFails(c) \/ Returned(c)
       \/ Watch(c) \/ Leave(c) \/ Cancel(c) \/ Aborted(c) \/ AbortFails(c)
       \/ \E k \in {"turn", "stream"} : Prompt(c, k) \/ PromptRefused(c, k)

Spec == Init /\ [][Next]_vars

(***************************************************************************)
(* Properties.                                                             *)
(***************************************************************************)

\* Calls of prompt() under way: run() is, or its result is on the way to its caller.
UnderWay == {c \in Call : phase[c] \in {"running", "ran", "failed"}}

\* A finished turn releases the "running" claim (adapter.ts:296-298): once no prompt is under way,
\* an open session is neither listed as running (unless a client has set it so, or it has had no
\* turn yet) nor marked as running a prompt, whatever steers, cancels and watches did meanwhile.
ClaimIsReleased ==
  open /\ UnderWay = {} => ~promptRunning /\ (given \/ state # "running")

\* A watch holds until the current or next turn ends (adapter.ts:373-374): when a run ends well, no
\* watch that was open before it began is still waiting, though the loop over the listeners passes
\* one over for each watch that it ends.
TurnEndsWatches ==
  \A c \in Call : phase[c] = "ran" => \A w \in seen[c] : phase[w] # "watching"

\* Streams whose turn has ended well, and watches that have ended.
Answered == {c \in Call : \/ kind[c] = "stream" /\ phase[c] = "ran"
                          \/ kind[c] = "watch" /\ phase[c] \in {"over", "done"}}

\* "Resolves once the turn's terminal event has been sunk" (pi/rpc.ts:211-212): it holds for a call
\* that began to listen while no watch was open, whatever listens behind it.
FirstInLineHearsEnd == \A c \in Answered : c \notin behind => c \in ended

\* The same for every stream and watch.
TerminalEventSunk == Answered \subseteq ended

=============================================================================
