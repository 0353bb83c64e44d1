---------------------------- MODULE ConnectorRpc ----------------------------
(***************************************************************************)
(* The daemon's outbound connector (apps/daemon/src/outbound/connector.ts) *)
(* as its owner sees it: start(), stop() and request(), with the sockets,  *)
(* timers and heartbeat behind them.  What it does with commands that the  *)
(* control plane pushes is in FleetChannel.                                *)
(*                                                                         *)
(* The connector has one event loop: an action is one event it handles, or *)
(* one call it is given.  A socket that is closed, and that no timer and   *)
(* no request refers to, stands for the next one that dial() makes.        *)
(***************************************************************************)
EXTENDS Naturals

CONSTANTS
  Sock,     \* sockets (bound: how many can exist at once)
  Req,      \* calls of request()
  None,     \* no socket, no timer
  MaxStarts \* calls of start() (bound)

ASSUME ConnectorAssumption == None \notin Sock /\ MaxStarts \in Nat

VARIABLES
  ws,        \* this.ws
  sock,      \* the sockets' readyState
  heard,     \* sockets that have the connector's listeners
  live,      \* sockets whose other end still answers
  starts,    \* calls of start() so far
  stopped,   \* this.stopped
  revoked,   \* this.revoked
  heartbeat, \* heartbeatTimer is set
  quiet,     \* lastPongAt is more than two heartbeats ago
  reconnect, \* reconnectTimer: a timer has the name of the socket it follows
  armed,     \* reconnect timers that will fire
  pending,   \* keys of the map of pending requests
  timer,     \* requests whose timeout is set
  via,       \* the socket a request was sent on
  wire,      \* where a request is: its send callback is due, or the plane has it
  outcome    \* what became of the promise that request() returned

link == <<ws, sock, heard, live>>
mode == <<starts, stopped, revoked>>
pulse == <<heartbeat, quiet>>
timers == <<reconnect, armed>>
calls == <<pending, timer, via, wire, outcome>>
vars == <<link, mode, pulse, timers, calls>>

Outcomes == {"reply", "timeout", "disconnected", "wire_error"}

TypeOK ==
  /\ ws \in Sock \cup {None}
  /\ sock \in [Sock -> {"connecting", "open", "closing", "closed"}]
  /\ heard \in SUBSET Sock /\ live \in SUBSET Sock
  /\ starts \in Nat /\ stopped \in BOOLEAN /\ revoked \in BOOLEAN
  /\ heartbeat \in BOOLEAN /\ quiet \in BOOLEAN
  /\ reconnect \in Sock \cup {None} /\ armed \in SUBSET Sock
  /\ pending \in SUBSET Req /\ timer \in SUBSET Req
  /\ via \in [Req -> Sock \cup {None}]
  /\ wire \in [Req -> {"none", "sending", "sent"}]
  /\ outcome \in [Req -> {"none", "open"} \cup Outcomes]

Init ==
  /\ ws = None /\ heard = {} /\ live = {}
  /\ sock = [s \in Sock |-> "closed"]
  /\ starts = 0 /\ stopped = FALSE /\ revoked = FALSE
  /\ heartbeat = FALSE /\ quiet = FALSE
  /\ reconnect = None /\ armed = {}
  /\ pending = {} /\ timer = {}
  /\ via = [r \in Req |-> None]
  /\ wire = [r \in Req |-> "none"]
  /\ outcome = [r \in Req |-> "none"]

(***************************************************************************)
(* Settling requests.                                                      *)
(***************************************************************************)

\* A promise keeps its first outcome.
Settle(R, result) ==
  outcome' = [r \in Req |-> IF r \in R /\ outcome[r] = "open" THEN result ELSE outcome[r]]

\* Mutant: the promises are forgotten.
FailPending_Forgets ==
  /\ timer' = timer \ pending
  /\ pending' = {}
  /\ UNCHANGED outcome

\* failPending()
FailPending ==
  /\ timer' = timer \ pending
  /\ Settle(pending, "disconnected")
  /\ pending' = {}

\* Requests that a socket will carry no further.
Dropped(s) == [r \in Req |-> IF via[r] = s /\ wire[r] = "sent" THEN "none" ELSE wire[r]]

(***************************************************************************)
(* Dialling.                                                               *)
(***************************************************************************)

Unused == {s \in Sock : /\ sock[s] = "closed" /\ s \notin armed /\ s # reconnect'
                        /\ \A r \in Req : via[r] = s => wire[r] = "none"}

\* Mutant: the connector does not note the socket it has made.
Dial_NotNoted ==
  IF stopped' \/ revoked
  THEN UNCHANGED link
  ELSE \E s \in Unused :
         /\ sock' = [sock EXCEPT ![s] = "connecting"]
         /\ heard' = heard \cup {s}
         /\ live' = live \cup {s}
         /\ UNCHANGED ws

\* dial().  Its "dialing" flag is set and cleared without an await: it stops nothing.
Dial ==
  IF stopped' \/ revoked
  THEN UNCHANGED link
  ELSE \E s \in Unused :
         /\ ws' = s
         /\ sock' = [sock EXCEPT ![s] = "connecting"]
         /\ heard' = heard \cup {s}
         /\ live' = live \cup {s}

\* start()
Start ==
  /\ starts < MaxStarts
  /\ starts' = starts + 1
  /\ stopped' = FALSE
  /\ UNCHANGED <<revoked, pulse, timers, calls>>
  /\ Dial

\* The reconnect timer t fires.
ReconnectFires(t) ==
  /\ t \in armed
  /\ armed' = armed \ {t}
  /\ reconnect' = None
  /\ UNCHANGED <<mode, pulse, calls>>
  /\ Dial

\* The "open" event: the heartbeat starts and the hello is sent.
Opened(s) ==
  /\ sock[s] = "connecting" /\ s \in heard
  /\ sock' = [sock EXCEPT ![s] = "open"]
  /\ heartbeat' = TRUE
  /\ quiet' = FALSE
  /\ UNCHANGED <<ws, heard, live, mode, timers, calls>>

(***************************************************************************)
(* Losing a socket.                                                        *)
(***************************************************************************)

\* The network between stops carrying anything; neither end is told.
LinkDies(s) ==
  /\ sock[s] = "open" /\ s \in live
  /\ live' = live \ {s}
  /\ UNCHANGED <<ws, sock, heard, mode, pulse, timers, calls>>

\* The other end closes the socket, or the network reports that it broke.
SocketBreaks(s) ==
  /\ sock[s] = "open"
  /\ sock' = [sock EXCEPT ![s] = "closing"]
  /\ UNCHANGED <<ws, heard, live, mode, pulse, timers, calls>>

\* Two heartbeats pass without a pong.
Silence ==
  /\ ~quiet
  /\ quiet' = TRUE
  /\ UNCHANGED <<link, mode, heartbeat, timers, calls>>

\* A pong on any socket that is listened to.
Pong(s) ==
  /\ sock[s] = "open" /\ s \in live \cap heard
  /\ quiet' = FALSE
  /\ UNCHANGED <<link, mode, heartbeat, timers, calls>>

\* Mutant: the pong's age is not looked at.
HeartbeatTick_PingsOnly ==
  /\ heartbeat /\ ws # None /\ sock[ws] = "open" /\ quiet
  /\ UNCHANGED vars

\* The heartbeat finds that no pong has come (a tick that only pings changes nothing).
HeartbeatTick ==
  /\ heartbeat /\ ws # None /\ sock[ws] = "open" /\ quiet
  /\ sock' = [sock EXCEPT ![ws] = "closing"]
  /\ UNCHANGED <<ws, heard, live, mode, pulse, timers, calls>>

\* Mutant: only a socket that was open is dialled again.
Redials_OpenOnly(s, code) == code # "revoked" /\ ~stopped /\ sock[s] = "closing"

\* Mutant: stop() is not looked at.
Redials_Always(s, code) == code # "revoked"

\* Whether the end of a socket is followed by another dial.
Redials(s, code) == code # "revoked" /\ ~stopped

\* The timers set after scheduleReconnect(): one it had set before is not cleared.
Rearmed(s) == armed \cup {s}

\* The "close" event, with scheduleReconnect().
CloseEvent(s, code) ==
  /\ sock[s] \in {"connecting", "closing"} /\ s \in heard
  /\ code = "revoked" => sock[s] = "closing"
  /\ sock' = [sock EXCEPT ![s] = "closed"]
  /\ heard' = heard \ {s} /\ live' = live \ {s}
  /\ heartbeat' = FALSE
  /\ FailPending
  /\ wire' = Dropped(s)
  /\ revoked' = (revoked \/ code = "revoked")
  /\ IF Redials(s, code)
     THEN reconnect' = s /\ armed' = Rearmed(s)
     ELSE UNCHANGED timers
  /\ UNCHANGED <<ws, starts, stopped, quiet, via>>

\* A socket without listeners closes: nobody is told.
ClosesUnheard(s) ==
  /\ sock[s] = "closing" /\ s \notin heard
  /\ sock' = [sock EXCEPT ![s] = "closed"]
  /\ live' = live \ {s}
  /\ wire' = Dropped(s)
  /\ UNCHANGED <<ws, heard, mode, pulse, timers, pending, timer, via, outcome>>

\* stop(): a socket that is already closing keeps its listeners.
Stop ==
  /\ stopped' = TRUE
  /\ armed' = armed \ {reconnect}
  /\ heartbeat' = FALSE
  /\ FailPending
  /\ ws' = None
  /\ IF ws # None /\ sock[ws] \in {"connecting", "open"}
     THEN heard' = heard \ {ws} /\ sock' = [sock EXCEPT ![ws] = "closing"]
     ELSE UNCHANGED <<heard, sock>>
  /\ UNCHANGED <<live, starts, revoked, quiet, reconnect, via, wire>>

(***************************************************************************)
(* Requests.                                                               *)
(***************************************************************************)

\* request(): refused without an open socket, else sent on it with a timer.
Request(r) ==
  /\ outcome[r] = "none"
  /\ IF ws # None /\ sock[ws] = "open"
     THEN /\ outcome' = [outcome EXCEPT ![r] = "open"]
          /\ timer' = timer \cup {r}
          /\ pending' = pending \cup {r}
          /\ via' = [via EXCEPT ![r] = ws]
          /\ wire' = [wire EXCEPT ![r] = "sending"]
     ELSE /\ outcome' = [outcome EXCEPT ![r] = "disconnected"]
          /\ UNCHANGED <<pending, timer, via, wire>>
  /\ UNCHANGED <<link, mode, pulse, timers>>

\* Mutant: the promise is rejected and the entry kept.
Finish_KeepsEntry(r, result) ==
  /\ timer' = timer \ {r}
  /\ UNCHANGED pending
  /\ Settle({r}, result)
  /\ UNCHANGED via

\* r leaves the map and its timer is cleared; the promise is settled.
Finish(r, result) ==
  /\ timer' = timer \ {r}
  /\ pending' = pending \ {r}
  /\ Settle({r}, result)
  /\ UNCHANGED via

\* The send callback of r: its frame has left, or could not be written.
Sent(r) ==
  /\ wire[r] = "sending"
  /\ wire' = [wire EXCEPT ![r] = IF sock[via[r]] = "open" /\ via[r] \in live
                                 THEN "sent" ELSE "none"]
  /\ UNCHANGED <<link, mode, pulse, timers, pending, timer, via, outcome>>

SendFails(r) ==
  /\ wire[r] = "sending"
  /\ wire' = [wire EXCEPT ![r] = "none"]
  /\ Finish(r, "wire_error")
  /\ UNCHANGED <<link, mode, pulse, timers>>

\* The plane's response arrives: it counts while the request is in the map.
Response(r) ==
  /\ wire[r] = "sent" /\ via[r] \in heard /\ sock[via[r]] = "open"
  /\ wire' = [wire EXCEPT ![r] = "none"]
  /\ IF r \in pending
     THEN Finish(r, "reply")
     ELSE UNCHANGED <<pending, timer, via, outcome>>
  /\ UNCHANGED <<link, mode, pulse, timers>>

\* The timer of r fires.
RequestTimeout(r) ==
  /\ r \in timer
  /\ Finish(r, "timeout")
  /\ UNCHANGED <<link, mode, pulse, timers, wire>>

-----------------------------------------------------------------------------

Next ==
  \/ Start \/ Stop \/ Silence \/ HeartbeatTick
  \/ \E s \in Sock : \/ ReconnectFires(s) \/ Opened(s) \/ LinkDies(s) \/ SocketBreaks(s)
                     \/ Pong(s) \/ ClosesUnheard(s)
                     \/ \E code \in {"revoked", "other"} : CloseEvent(s, code)
  \/ \E r \in Req : \/ Request(r) \/ Sent(r) \/ SendFails(r) \/ Response(r)
                    \/ RequestTimeout(r)

Spec == Init /\ [][Next]_vars

(***************************************************************************)
(* Timers fire.  A socket that is closing closes in the end: ws forces it. *)
(***************************************************************************)
Fairness ==
  /\ WF_vars(Silence) /\ WF_vars(HeartbeatTick)
  /\ \A s \in Sock : /\ WF_vars(\E code \in {"revoked", "other"} : CloseEvent(s, code))
                     /\ WF_vars(ReconnectFires(s))
  /\ \A r \in Req : WF_vars(RequestTimeout(r))

FairSpec == Spec /\ Fairness

(***************************************************************************)
(* Safety.                                                                 *)
(***************************************************************************)

\* A request that is not settled is in the map with its timer, and a request in the map is not
\* settled; its socket is still up, or its close will be noticed (connector.ts:123-137, 164-170):
\* neither a timer nor an entry outlives the promise, and no promise outlives its socket.
PendingIsOwned ==
  /\ pending = timer
  /\ \A r \in Req : r \in pending <=> outcome[r] = "open"
  /\ \A r \in pending : via[r] \in heard /\ sock[via[r]] \in {"open", "closing"}

\* While it is started, and not revoked, the connector has a socket whose end it will notice or a
\* reconnect timer (connector.ts:206-226), however often it was stopped and started: it never
\* sits without either.
NeverGivesUp ==
  starts > 0 /\ ~stopped /\ ~revoked =>
    armed # {} \/ \E s \in heard : sock[s] # "closed"

\* A connector that was started once keeps one open socket, the one it sends on, and watches it
\* with its heartbeat (connector.ts:176-193, 241-253).
OneWatchedSocket ==
  starts <= 1 => \A s \in Sock : sock[s] = "open" => ws = s /\ heartbeat

\* A connector that was started once and stopped has no timer and no heartbeat left, and none of
\* its sockets stays up (connector.ts:150-162): nothing dials, pings or runs commands any more.
StopIsFinal ==
  starts <= 1 /\ stopped =>
    armed = {} /\ ~heartbeat /\ \A s \in Sock : sock[s] \in {"closing", "closed"}

(***************************************************************************)
(* Liveness.                                                               *)
(***************************************************************************)

\* request() never hangs (connector.ts:114): its promise is settled in the end.
EveryRequestSettles ==
  \A r \in Req : outcome[r] = "open" ~> outcome[r] # "open"

\* A missed pong tears the connection down (connector.ts:10): a socket whose other end is gone
\* does not stay open, in a connector that was started once.
HalfOpenIsDropped ==
  \A s \in Sock : (sock[s] = "open" /\ s \notin live /\ starts <= 1)
                    ~> (sock[s] # "open" \/ starts > 1)

=============================================================================
