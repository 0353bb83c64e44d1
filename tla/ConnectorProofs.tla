-------------------------- MODULE ConnectorProofs --------------------------
(***************************************************************************)
(* Theorems about the outbound connector, for any number of sockets,       *)
(* requests and starts.                                                    *)
(***************************************************************************)
EXTENDS ConnectorRpc, TLAPS

-----------------------------------------------------------------------------
(* Type correctness.                                                       *)

(* dial() leaves a type-correct connector type-correct.                    *)
LEMMA DialTypes ==
  ASSUME TypeOK, Dial
  PROVE  /\ ws' \in Sock \cup {None}
         /\ sock' \in [Sock -> {"connecting", "open", "closing", "closed"}]
         /\ heard' \in SUBSET Sock /\ live' \in SUBSET Sock
<1>1. CASE UNCHANGED link
  BY <1>1 DEF TypeOK, link
<1>2. ASSUME NEW s \in Unused,
             ws' = s /\ sock' = [sock EXCEPT ![s] = "connecting"]
             /\ heard' = heard \cup {s} /\ live' = live \cup {s}
      PROVE  /\ ws' \in Sock \cup {None}
             /\ sock' \in [Sock -> {"connecting", "open", "closing", "closed"}]
             /\ heard' \in SUBSET Sock /\ live' \in SUBSET Sock
  <2>1. s \in Sock
    BY DEF Unused
  <2> QED BY <1>2, <2>1 DEF TypeOK
<1> QED BY <1>1, <1>2, Zenon DEF Dial

(* Every step of a type-correct connector leads to a type-correct one.     *)
LEMMA TypeStep == ASSUME TypeOK, [Next]_vars PROVE TypeOK'
<1>1. CASE Start
  <2>1. starts' \in Nat
    BY <1>1 DEF TypeOK, Start
  <2>2. Dial /\ stopped' = FALSE /\ UNCHANGED <<revoked, pulse, timers, calls>>
    BY <1>1 DEF Start
  <2> QED BY <2>1, <2>2, DialTypes DEF TypeOK, pulse, timers, calls
<1>2. CASE Stop
  BY <1>2 DEF TypeOK, Stop, FailPending, Settle, Outcomes
<1>3. CASE Silence \/ HeartbeatTick
  BY <1>3 DEF TypeOK, Silence, HeartbeatTick, link, mode, pulse, timers, calls
<1>4. ASSUME NEW s \in Sock, ReconnectFires(s) PROVE TypeOK'
  BY <1>4, DialTypes DEF TypeOK, ReconnectFires, mode, pulse, calls
<1>5. ASSUME NEW s \in Sock,
             Opened(s) \/ LinkDies(s) \/ SocketBreaks(s) \/ Pong(s) \/ ClosesUnheard(s)
      PROVE  TypeOK'
  BY <1>5 DEF TypeOK, Opened, LinkDies, SocketBreaks, Pong, ClosesUnheard, Dropped,
              link, mode, pulse, timers, calls
<1>6. ASSUME NEW s \in Sock, NEW code \in {"revoked", "other"}, CloseEvent(s, code)
      PROVE  TypeOK'
  BY <1>6 DEF TypeOK, CloseEvent, FailPending, Settle, Dropped, Redials, Rearmed, Outcomes, timers
<1>7. ASSUME NEW r \in Req, Request(r) PROVE TypeOK'
  BY <1>7 DEF TypeOK, Request, Outcomes, link, mode, pulse, timers
<1>8. ASSUME NEW r \in Req, Sent(r) PROVE TypeOK'
  BY <1>8 DEF TypeOK, Sent, link, mode, pulse, timers
<1>9. ASSUME NEW r \in Req, SendFails(r) \/ Response(r) \/ RequestTimeout(r) PROVE TypeOK'
  BY <1>9 DEF TypeOK, SendFails, Response, RequestTimeout, Finish, Settle, Outcomes,
              link, mode, pulse, timers
<1>10. CASE UNCHANGED vars
  BY <1>10 DEF TypeOK, vars, link, mode, pulse, timers, calls
<1> QED
  <2>1. CASE \E s \in Sock : \/ ReconnectFires(s) \/ Opened(s) \/ LinkDies(s) \/ SocketBreaks(s)
                             \/ Pong(s) \/ ClosesUnheard(s)
                             \/ \E code \in {"revoked", "other"} : CloseEvent(s, code)
    BY <2>1, <1>4, <1>5, <1>6, Zenon
  <2>2. CASE \E r \in Req : \/ Request(r) \/ Sent(r) \/ SendFails(r) \/ Response(r)
                            \/ RequestTimeout(r)
    BY <2>2, <1>7, <1>8, <1>9, Zenon
  <2> QED BY <1>1, <1>2, <1>3, <1>10, <2>1, <2>2, Zenon DEF Next

(* The connector's variables keep their types (connector.ts:50-91).        *)
THEOREM TypeCorrect == Spec => []TypeOK
<1>1. ASSUME Init PROVE TypeOK
  <2>1. /\ via \in [Req -> Sock \cup {None}]
        /\ wire \in [Req -> {"none", "sending", "sent"}]
        /\ outcome \in [Req -> {"none", "open"} \cup Outcomes]
    BY <1>1 DEF Init
  <2>2. sock \in [Sock -> {"connecting", "open", "closing", "closed"}]
    BY <1>1 DEF Init
  <2> QED BY <1>1, <2>1, <2>2 DEF Init, TypeOK
<1>2. TypeOK /\ [Next]_vars => TypeOK'
  BY TypeStep
<1> QED BY <1>1, <1>2, PTL DEF Spec

-----------------------------------------------------------------------------
(* Sockets that are listened to.                                           *)

\* A socket with listeners is not closed, and the connector's own socket has its listeners until
\* it closes.
Listening ==
  /\ \A s \in heard : sock[s] # "closed"
  /\ ws # None /\ sock[ws] # "closed" => ws \in heard

(* What dial() does: nothing, or it takes a closed socket.                 *)
LEMMA DialCases ==
  ASSUME Dial
  PROVE  \/ (stopped' \/ revoked) /\ ws' = ws /\ sock' = sock /\ heard' = heard /\ live' = live
         \/ /\ ~stopped' /\ ~revoked
            /\ \E s \in Sock : /\ sock[s] = "closed" /\ s \notin armed
                               /\ ws' = s /\ sock' = [sock EXCEPT ![s] = "connecting"]
                               /\ heard' = heard \cup {s}
BY DEF Dial, Unused, link

(* dial() listens to the socket that it makes.                             *)
LEMMA DialListens == ASSUME TypeOK, Listening, Dial PROVE Listening'
<1>1. CASE ws' = ws /\ sock' = sock /\ heard' = heard
  BY <1>1 DEF Listening
<1>2. ASSUME NEW s \in Sock,
             ws' = s, sock' = [sock EXCEPT ![s] = "connecting"], heard' = heard \cup {s}
      PROVE  Listening'
  BY <1>2 DEF Listening, TypeOK
<1> QED BY <1>1, <1>2, DialCases

(* Listeners are taken off a socket only with its end, or with ws itself.  *)
LEMMA ListeningStep == ASSUME TypeOK, Listening, [Next]_vars PROVE Listening'
<1> USE ConnectorAssumption
<1>1. CASE Start
  BY <1>1, DialListens, Zenon DEF Start
<1>2. CASE Stop
  BY <1>2 DEF Listening, TypeOK, Stop
<1>3. CASE Silence \/ HeartbeatTick
  BY <1>3 DEF Listening, TypeOK, Silence, HeartbeatTick, link
<1>4. ASSUME NEW s \in Sock, ReconnectFires(s) PROVE Listening'
  BY <1>4, DialListens, Zenon DEF ReconnectFires
<1>5. ASSUME NEW s \in Sock,
             Opened(s) \/ LinkDies(s) \/ SocketBreaks(s) \/ Pong(s)
      PROVE  Listening'
  BY <1>5 DEF Listening, TypeOK, Opened, LinkDies, SocketBreaks, Pong, link
<1>6. ASSUME NEW s \in Sock, ClosesUnheard(s) PROVE Listening'
  BY <1>6 DEF Listening, TypeOK, ClosesUnheard
<1>7. ASSUME NEW s \in Sock, NEW code \in {"revoked", "other"}, CloseEvent(s, code)
      PROVE  Listening'
  BY <1>7 DEF Listening, TypeOK, CloseEvent
<1>8. ASSUME NEW r \in Req,
             Request(r) \/ Sent(r) \/ SendFails(r) \/ Response(r) \/ RequestTimeout(r)
      PROVE  Listening'
  BY <1>8 DEF Listening, Request, Sent, SendFails, Response, RequestTimeout, link
<1>9. CASE UNCHANGED vars
  BY <1>9 DEF Listening, vars, link
<1> QED
  <2>1. CASE \E s \in Sock : \/ ReconnectFires(s) \/ Opened(s) \/ LinkDies(s) \/ SocketBreaks(s)
                             \/ Pong(s) \/ ClosesUnheard(s)
                             \/ \E code \in {"revoked", "other"} : CloseEvent(s, code)
    BY <2>1, <1>4, <1>5, <1>6, <1>7, Zenon
  <2>2. CASE \E r \in Req : \/ Request(r) \/ Sent(r) \/ SendFails(r) \/ Response(r)
                            \/ RequestTimeout(r)
    BY <2>2, <1>8, Zenon
  <2> QED BY <1>1, <1>2, <1>3, <1>9, <2>1, <2>2, Zenon DEF Next

LEMMA ListeningAlways == Spec => [](TypeOK /\ Listening)
<1>1. Init => Listening
  BY DEF Init, Listening
<1>2. TypeOK /\ Listening /\ [Next]_vars => Listening'
  BY ListeningStep
<1> QED BY <1>1, <1>2, TypeCorrect, PTL DEF Spec

-----------------------------------------------------------------------------
(* The connector never gives up.                                           *)

(* dial() makes a socket unless the connector is stopped or revoked.       *)
LEMMA DialHeard ==
  ASSUME TypeOK, Listening, Dial, ~stopped', ~revoked
  PROVE  \E s \in heard' : sock'[s] # "closed"
<1>1. PICK s \in Sock : heard' = heard \cup {s}
  BY DialCases
<1>2. Listening' /\ s \in heard'
  BY <1>1, DialListens
<1> QED BY <1>2 DEF Listening

LEMMA NeverGivesUpStep ==
  ASSUME TypeOK, Listening, NeverGivesUp, [Next]_vars
  PROVE  NeverGivesUp'
<1> USE ConnectorAssumption
<1>1. CASE Start
  BY <1>1, DialHeard DEF Start, NeverGivesUp
<1>2. CASE Stop
  BY <1>2 DEF Stop, NeverGivesUp
<1>3. CASE Silence \/ HeartbeatTick
  BY <1>3 DEF NeverGivesUp, Listening, TypeOK, Silence, HeartbeatTick, link, mode, timers
<1>4. ASSUME NEW s \in Sock, ReconnectFires(s) PROVE NeverGivesUp'
  BY <1>4, DialHeard DEF ReconnectFires, NeverGivesUp, mode
<1>5. ASSUME NEW s \in Sock,
             Opened(s) \/ LinkDies(s) \/ SocketBreaks(s) \/ Pong(s)
      PROVE  NeverGivesUp'
  BY <1>5 DEF NeverGivesUp, Listening, TypeOK, Opened, LinkDies, SocketBreaks, Pong,
              link, mode, timers
<1>6. ASSUME NEW s \in Sock, ClosesUnheard(s) PROVE NeverGivesUp'
  BY <1>6 DEF NeverGivesUp, Listening, TypeOK, ClosesUnheard, mode, timers
<1>7. ASSUME NEW s \in Sock, NEW code \in {"revoked", "other"}, CloseEvent(s, code)
      PROVE  NeverGivesUp'
  BY <1>7 DEF NeverGivesUp, TypeOK, CloseEvent, Redials, Rearmed
<1>8. ASSUME NEW r \in Req,
             Request(r) \/ Sent(r) \/ SendFails(r) \/ Response(r) \/ RequestTimeout(r)
      PROVE  NeverGivesUp'
  BY <1>8 DEF NeverGivesUp, Request, Sent, SendFails, Response, RequestTimeout, link, mode, timers
<1>9. CASE UNCHANGED vars
  BY <1>9 DEF NeverGivesUp, vars, link, mode, timers
<1> QED
  <2>1. CASE \E s \in Sock : \/ ReconnectFires(s) \/ Opened(s) \/ LinkDies(s) \/ SocketBreaks(s)
                             \/ Pong(s) \/ ClosesUnheard(s)
                             \/ \E code \in {"revoked", "other"} : CloseEvent(s, code)
    BY <2>1, <1>4, <1>5, <1>6, <1>7, Zenon
  <2>2. CASE \E r \in Req : \/ Request(r) \/ Sent(r) \/ SendFails(r) \/ Response(r)
                            \/ RequestTimeout(r)
    BY <2>2, <1>8, Zenon
  <2> QED BY <1>1, <1>2, <1>3, <1>9, <2>1, <2>2, Zenon DEF Next

(* A connector that is started and not revoked has a socket whose end it   *)
(* will notice or a timer to dial (connector.ts:206-226).                  *)
THEOREM AlwaysDialling == Spec => []NeverGivesUp
<1>1. Init => NeverGivesUp
  BY DEF Init, NeverGivesUp
<1>2. TypeOK /\ Listening /\ NeverGivesUp /\ [Next]_vars => NeverGivesUp'
  BY NeverGivesUpStep
<1> QED BY <1>1, <1>2, ListeningAlways, PTL DEF Spec

-----------------------------------------------------------------------------
(* Requests.                                                               *)

(* A dial takes a closed socket: no request in the map is on it.           *)
LEMMA DialKeepsOwned ==
  ASSUME TypeOK, PendingIsOwned, Dial, UNCHANGED calls
  PROVE  PendingIsOwned'
<1>1. pending' = pending /\ timer' = timer /\ outcome' = outcome /\ via' = via
  BY DEF calls
<1>2. \A x \in Sock : x \in heard => x \in heard'
  BY DialCases
<1>3. \A x \in Sock : sock[x] # "closed" => sock'[x] = sock[x]
  BY DialCases DEF TypeOK
<1>4. \A r \in pending : via[r] \in Sock
  BY DEF TypeOK, PendingIsOwned
<1>5. \A r \in pending : sock[via[r]] # "closed" /\ sock[via[r]] \in {"open", "closing"}
  BY DEF PendingIsOwned
<1>6. \A r \in pending : via'[r] \in heard' /\ sock'[via'[r]] \in {"open", "closing"}
  BY <1>1, <1>2, <1>3, <1>4, <1>5 DEF PendingIsOwned
<1> QED BY <1>1, <1>6 DEF PendingIsOwned

(* failPending() settles all that is in the map, and empties it.           *)
LEMMA FailPendingOwned == ASSUME TypeOK, PendingIsOwned, FailPending PROVE PendingIsOwned'
<1>1. pending' = {} /\ timer' = {}
  BY DEF FailPending, PendingIsOwned
<1>2. \A r \in Req : outcome'[r] # "open"
  BY DEF FailPending, Settle, PendingIsOwned, TypeOK
<1> QED BY <1>1, <1>2 DEF PendingIsOwned

(* A request that ends leaves the map, the timers and the open promises.   *)
LEMMA FinishOwned ==
  ASSUME TypeOK, PendingIsOwned, NEW r \in Req, NEW result \in Outcomes, Finish(r, result),
         UNCHANGED link
  PROVE  PendingIsOwned'
<1>1. pending' = pending \ {r} /\ timer' = timer \ {r} /\ via' = via
      /\ sock' = sock /\ heard' = heard
  BY DEF Finish, link
<1>2. \A q \in Req : outcome'[q] = IF q = r /\ outcome[q] = "open" THEN result ELSE outcome[q]
  BY DEF Finish, Settle
<1>3. result # "open"
  BY DEF Outcomes
<1> QED BY <1>1, <1>2, <1>3 DEF PendingIsOwned

LEMMA PendingStep ==
  ASSUME TypeOK, Listening, PendingIsOwned, [Next]_vars
  PROVE  PendingIsOwned'
<1> USE ConnectorAssumption
<1>1. CASE Start
  BY <1>1, DialKeepsOwned, Zenon DEF Start
<1>2. CASE Stop
  BY <1>2, FailPendingOwned, Zenon DEF Stop
<1>3. CASE Silence
  BY <1>3 DEF PendingIsOwned, Silence, link, calls
<1>4. CASE HeartbeatTick
  BY <1>4 DEF PendingIsOwned, TypeOK, HeartbeatTick, calls
<1>5. ASSUME NEW s \in Sock, ReconnectFires(s) PROVE PendingIsOwned'
  BY <1>5, DialKeepsOwned, Zenon DEF ReconnectFires
<1>6. ASSUME NEW s \in Sock, Opened(s) \/ LinkDies(s) \/ SocketBreaks(s) \/ Pong(s)
      PROVE  PendingIsOwned'
  BY <1>6 DEF PendingIsOwned, TypeOK, Opened, LinkDies, SocketBreaks, Pong, link, calls
<1>7. ASSUME NEW s \in Sock, ClosesUnheard(s) PROVE PendingIsOwned'
  BY <1>7 DEF PendingIsOwned, TypeOK, ClosesUnheard
<1>8. ASSUME NEW s \in Sock, NEW code \in {"revoked", "other"}, CloseEvent(s, code)
      PROVE  PendingIsOwned'
  BY <1>8, FailPendingOwned, Zenon DEF CloseEvent
<1>9. ASSUME NEW r \in Req, Request(r) PROVE PendingIsOwned'
  <2>1. CASE ws # None /\ sock[ws] = "open"
    BY <1>9, <2>1 DEF Request, PendingIsOwned, Listening, TypeOK, link
  <2>2. CASE ~(ws # None /\ sock[ws] = "open")
    BY <1>9, <2>2 DEF Request, PendingIsOwned, TypeOK, link
  <2> QED BY <2>1, <2>2
<1>10. ASSUME NEW r \in Req, Sent(r) PROVE PendingIsOwned'
  BY <1>10 DEF PendingIsOwned, Sent, link
<1>11. ASSUME NEW r \in Req, SendFails(r) PROVE PendingIsOwned'
  BY <1>11, FinishOwned DEF SendFails, Outcomes
<1>12. ASSUME NEW r \in Req, Response(r) PROVE PendingIsOwned'
  <2>1. CASE r \in pending
    BY <1>12, <2>1, FinishOwned DEF Response, Outcomes
  <2>2. CASE r \notin pending
    BY <1>12, <2>2 DEF PendingIsOwned, Response, link
  <2> QED BY <2>1, <2>2
<1>13. ASSUME NEW r \in Req, RequestTimeout(r) PROVE PendingIsOwned'
  BY <1>13, FinishOwned DEF RequestTimeout, Outcomes
<1>14. CASE UNCHANGED vars
  BY <1>14 DEF PendingIsOwned, vars, link, calls
<1> QED
  <2>1. CASE \E s \in Sock : \/ ReconnectFires(s) \/ Opened(s) \/ LinkDies(s) \/ SocketBreaks(s)
                             \/ Pong(s) \/ ClosesUnheard(s)
                             \/ \E code \in {"revoked", "other"} : CloseEvent(s, code)
    BY <2>1, <1>5, <1>6, <1>7, <1>8, Zenon
  <2>2. CASE \E r \in Req : \/ Request(r) \/ Sent(r) \/ SendFails(r) \/ Response(r)
                            \/ RequestTimeout(r)
    BY <2>2, <1>9, <1>10, <1>11, <1>12, <1>13, Zenon
  <2> QED BY <1>1, <1>2, <1>3, <1>4, <1>14, <2>1, <2>2, Zenon DEF Next

(* A request is in the map, with its timer, exactly until its promise is   *)
(* settled, and its socket is up or its close will be noticed              *)
(* (connector.ts:123-137, 164-170).                                        *)
THEOREM RequestsAreOwned == Spec => []PendingIsOwned
<1>1. Init => PendingIsOwned
  BY DEF Init, PendingIsOwned
<1>2. TypeOK /\ Listening /\ PendingIsOwned /\ [Next]_vars => PendingIsOwned'
  BY PendingStep
<1> QED BY <1>1, <1>2, ListeningAlways, PTL DEF Spec

-----------------------------------------------------------------------------
(* A connector that is started once.                                       *)

\* Before it is started it has nothing.
Unstarted ==
  starts = 0 => /\ heard = {} /\ armed = {} /\ ~heartbeat
                /\ \A s \in Sock : sock[s] = "closed"

\* While it runs, what is not closed is its own socket, watched once it is open; a timer to dial
\* is the one it can clear, and is set only while nothing is up.
Started ==
  starts = 1 /\ ~stopped =>
    /\ \A s \in Sock : sock[s] # "closed" => s = ws
    /\ \A s \in Sock : sock[s] = "open" => heartbeat
    /\ armed \subseteq {reconnect}
    /\ armed # {} => \A s \in Sock : sock[s] = "closed"

StartedOnce == Unstarted /\ Started /\ StopIsFinal

(* A dial while nothing is up.                                             *)
LEMMA DialAlone ==
  ASSUME TypeOK, Dial, ~stopped', \A s \in Sock : sock[s] = "closed"
  PROVE  /\ \A s \in Sock : sock'[s] # "closed" => s = ws'
         /\ \A s \in Sock : sock'[s] # "open"
BY DialCases DEF TypeOK

LEMMA StartedOnceStep ==
  ASSUME TypeOK, Listening, StartedOnce, [Next]_vars
  PROVE  StartedOnce'
<1> USE ConnectorAssumption DEF StartedOnce
<1>1. CASE Start
  <2>1. starts' = starts + 1 /\ starts' # 0 /\ ~stopped' /\ armed' = armed
    BY <1>1 DEF Start, TypeOK, timers
  <2>2. CASE starts = 0
    BY <1>1, <2>1, <2>2, DialAlone DEF Start, Unstarted, Started, StopIsFinal, TypeOK
  <2>3. CASE starts # 0
    BY <2>1, <2>3 DEF Unstarted, Started, StopIsFinal, TypeOK
  <2> QED BY <2>2, <2>3
<1>2. CASE Stop
  <2>1. Unstarted'
    BY <1>2 DEF Stop, Unstarted, TypeOK
  <2>2. StopIsFinal'
    <3>1. CASE starts = 0
      BY <1>2, <3>1 DEF Stop, Unstarted, StopIsFinal, TypeOK
    <3>2. CASE starts = 1 /\ ~stopped
      BY <1>2, <3>2 DEF Stop, Started, StopIsFinal, TypeOK
    <3>3. CASE starts = 1 /\ stopped
      BY <1>2, <3>3 DEF Stop, StopIsFinal, TypeOK
    <3> QED BY <1>2, <3>1, <3>2, <3>3 DEF Stop, StopIsFinal, TypeOK
  <2> QED BY <1>2, <2>1, <2>2 DEF Stop, Started
<1>3. CASE Silence \/ HeartbeatTick
  BY <1>3 DEF Unstarted, Started, StopIsFinal, TypeOK, Silence, HeartbeatTick, link, mode, pulse,
              timers
<1>4. ASSUME NEW t \in Sock, ReconnectFires(t) PROVE StartedOnce'
  <2>1. starts' = starts /\ stopped' = stopped /\ armed' = armed \ {t} /\ t \in armed
        /\ heartbeat' = heartbeat
    BY <1>4 DEF ReconnectFires, mode, pulse
  <2>2. Unstarted' /\ StopIsFinal'
    BY <2>1 DEF Unstarted, StopIsFinal, TypeOK
  <2>3. ASSUME starts = 1, ~stopped PROVE Started'
    <3>1. armed' = {} /\ \A s \in Sock : sock[s] = "closed"
      BY <2>1, <2>3 DEF Started
    <3> QED BY <1>4, <2>1, <2>3, <3>1, DialAlone DEF Started, ReconnectFires
  <2> QED BY <2>1, <2>2, <2>3 DEF Started
<1>5. ASSUME NEW s \in Sock, Opened(s) \/ LinkDies(s) \/ SocketBreaks(s) \/ Pong(s)
      PROVE  StartedOnce'
  BY <1>5 DEF Unstarted, Started, StopIsFinal, TypeOK, Opened, LinkDies, SocketBreaks, Pong,
              link, mode, pulse, timers
<1>6. ASSUME NEW s \in Sock, ClosesUnheard(s) PROVE StartedOnce'
  BY <1>6 DEF Unstarted, Started, StopIsFinal, TypeOK, ClosesUnheard, mode, pulse, timers
<1>7. ASSUME NEW s \in Sock, NEW code \in {"revoked", "other"}, CloseEvent(s, code)
      PROVE  StartedOnce'
  <2>1. starts' = starts /\ stopped' = stopped /\ ~heartbeat' /\ sock[s] # "closed"
        /\ sock' = [sock EXCEPT ![s] = "closed"] /\ heard' = heard \ {s} /\ ws' = ws
    BY <1>7 DEF CloseEvent
  <2>2. \/ ~stopped /\ reconnect' = s /\ armed' = armed \cup {s}
        \/ armed' = armed /\ reconnect' = reconnect
    BY <1>7 DEF CloseEvent, Redials, Rearmed, timers
  <2>3. Unstarted' /\ StopIsFinal'
    BY <2>1, <2>2 DEF Unstarted, StopIsFinal, TypeOK
  <2>4. ASSUME starts = 1, ~stopped PROVE Started'
    <3>1. armed = {} /\ \A x \in Sock : sock'[x] = "closed"
      BY <2>1, <2>4 DEF Started, TypeOK
    <3> QED BY <2>1, <2>2, <2>4, <3>1 DEF Started
  <2> QED BY <2>1, <2>3, <2>4 DEF Started
<1>8. ASSUME NEW r \in Req,
             Request(r) \/ Sent(r) \/ SendFails(r) \/ Response(r) \/ RequestTimeout(r)
      PROVE  StartedOnce'
  BY <1>8 DEF Unstarted, Started, StopIsFinal, Request, Sent, SendFails, Response,
              RequestTimeout, link, mode, pulse, timers
<1>9. CASE UNCHANGED vars
  BY <1>9 DEF Unstarted, Started, StopIsFinal, vars, link, mode, pulse, timers
<1> QED
  <2>1. CASE \E s \in Sock : \/ ReconnectFires(s) \/ Opened(s) \/ LinkDies(s) \/ SocketBreaks(s)
                             \/ Pong(s) \/ ClosesUnheard(s)
                             \/ \E code \in {"revoked", "other"} : CloseEvent(s, code)
    BY <2>1, <1>4, <1>5, <1>6, <1>7, Zenon
  <2>2. CASE \E r \in Req : \/ Request(r) \/ Sent(r) \/ SendFails(r) \/ Response(r)
                            \/ RequestTimeout(r)
    BY <2>2, <1>8, Zenon
  <2> QED BY <1>1, <1>2, <1>3, <1>9, <2>1, <2>2, Zenon DEF Next

LEMMA StartedOnceAlways == Spec => [](TypeOK /\ StartedOnce)
<1>1. Init => StartedOnce
  BY DEF Init, StartedOnce, Unstarted, Started, StopIsFinal
<1>2. TypeOK /\ Listening /\ StartedOnce /\ [Next]_vars => StartedOnce'
  BY StartedOnceStep
<1> QED BY <1>1, <1>2, ListeningAlways, PTL DEF Spec

(* A connector that was started once has one open socket, the one it sends *)
(* on, and its heartbeat watches it (connector.ts:176-193, 241-253).       *)
THEOREM OneSocketIsWatched == Spec => []OneWatchedSocket
<1>1. TypeOK /\ StartedOnce => OneWatchedSocket
  <2>1. ASSUME TypeOK, StartedOnce, starts <= 1, NEW s \in Sock, sock[s] = "open"
        PROVE  ws = s /\ heartbeat
    <3>1. starts = 1 /\ ~stopped
      BY <2>1 DEF TypeOK, StartedOnce, Unstarted, StopIsFinal
    <3> QED BY <2>1, <3>1 DEF StartedOnce, Started
  <2> QED BY <2>1 DEF OneWatchedSocket
<1> QED BY <1>1, StartedOnceAlways, PTL

(* stop() ends a connector that was started once: no timer, no heartbeat,  *)
(* and no socket that stays up (connector.ts:150-162).                     *)
THEOREM StoppedStaysStopped == Spec => []StopIsFinal
BY StartedOnceAlways, PTL DEF StartedOnce

=============================================================================
