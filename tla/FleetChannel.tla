---------------------------- MODULE FleetChannel ----------------------------
(***************************************************************************)
(* Delivery of fleet commands: the control plane                           *)
(* (apps/control-plane/src/server.ts) over its command store, the daemons' *)
(* outbound connectors (apps/daemon/src/outbound/connector.ts), and the    *)
(* WebSockets between them, which may break at any moment on either side.  *)
(*                                                                         *)
(* Atomicity.  Both programs are single-threaded event loops.  On the      *)
(* plane every `await' is on a store method with a synchronous body, so a  *)
(* handler and its continuations finish before the next socket or HTTP     *)
(* event.  One exception is kept: a socket read may carry several frames,  *)
(* and the `ws' library hands them over in one go, so frames that arrived  *)
(* with a hello are handled before the hello's replay (`Coalesce').  On    *)
(* the daemon a command handler is really asynchronous: it starts when the *)
(* command arrives and finishes at any later time.                         *)
(***************************************************************************)
EXTENDS CommandStore

CONSTANTS
  Conns,           \* WebSockets; one is used again once both ends are closed
  Dialer,          \* Dialer[k]: the machine whose daemon opens k
  NoConn,
  Coalesce,        \* whether frames may be read together with a hello
  CountLives,      \* whether `lives' is kept: only the command ledger reads it
  MaxFaults,       \* bound: broken sockets, daemon and plane restarts
  MaxRevocations   \* bound: revocations by the operator

ASSUME ConnAssumption ==
  /\ Dialer \in [Conns -> Machines]
  /\ NoConn \notin Conns
  /\ Coalesce \in BOOLEAN /\ CountLives \in BOOLEAN
  /\ MaxFaults \in Nat
  /\ MaxRevocations \in Nat

VARIABLES
  \* control plane
  connections,  \* connections[m]: the socket registered for m, or NoConn
  mirror,       \* registryMirror: the machines GET /machines lists
  pEnd,         \* pEnd[k]: readyState of the plane's end of k
  registered,   \* sockets whose hello was accepted (c.machineId is set)
  turn,         \* the socket whose hello still owes its replay, or NoConn
  cursor,       \* 0: replay not begun; i: next position of the log to look at
  \* daemons
  dEnd,         \* dEnd[k]: readyState of the daemon's end of k
  running,      \* <<c, n>>: the n-th run of command c's handler has not finished
  halted,       \* machines whose connector saw close code 4003 (this.revoked)
  \* network
  up, down,     \* frames in flight to the plane and to the daemon
  unconfirmed,  \* sockets the plane wrote to when nobody was there any more
  \* history and bounds
  runs,         \* runs[c]: how often the handler of c was started
  delivered,    \* delivered[k]: commands written to k since it was opened
  byOperator,   \* commands acked over the REST route
  lives,        \* how often the plane was started again
  faults, revocations

planeVars == <<connections, mirror, pEnd, registered, turn, cursor>>
daemonVars == <<dEnd, running, halted>>
netVars == <<up, down, unconfirmed>>
auxVars == <<runs, delivered, byOperator, faults, lives, revocations>>
vars == <<storeVars, planeVars, daemonVars, netVars, auxVars>>

\* Close codes 4003 and 4004 (packages/protocol/src/control-plane.ts).
MachineRevoked == "revoked"
DuplicateMachine == "duplicate"

Hello == [type |-> "hello"]
Command(c) == [type |-> "command", cmd |-> c]
Close(code) == [type |-> "close", code |-> code]
Response(c, n) == [type |-> "response", cmd |-> c, run |-> n]
AckFrame(c) == [type |-> "ack", cmd |-> c]

UpFrame ==
  {Hello} \cup [type : {"response"}, cmd : Commands, run : Nat]
          \cup [type : {"ack"}, cmd : Commands]
DownFrame ==
  [type : {"command"}, cmd : Commands]
    \cup [type : {"close"}, code : {MachineRevoked, DuplicateMachine}]

Socket(m) == {k \in Conns : Dialer[k] = m}
\* Mutant: the connector reports a watermark it has not reached.
Watermark_Ahead == 1

\* Watermark a daemon reports in its hello: the field is never assigned.
Watermark == 0

TypeOK ==
  /\ StoreTypeOK
  /\ connections \in [Machines -> Conns \cup {NoConn}]
  /\ mirror \in SUBSET Machines
  /\ pEnd \in [Conns -> {"open", "closing", "closed"}]
  /\ registered \in SUBSET Conns
  /\ turn \in Conns \cup {NoConn}
  /\ cursor \in Nat
  /\ dEnd \in [Conns -> {"open", "closed"}]
  /\ running \in SUBSET (Commands \X Nat)
  /\ halted \in SUBSET Machines
  /\ up \in [Conns -> Seq(UpFrame)]
  /\ down \in [Conns -> Seq(DownFrame)]
  /\ runs \in [Commands -> Nat]
  /\ delivered \in [Conns -> SUBSET Commands]
  /\ unconfirmed \in SUBSET Conns
  /\ byOperator \in SUBSET Commands
  /\ lives \in Nat
  /\ faults \in Nat
  /\ revocations \in Nat

Init ==
  /\ StoreInit
  /\ connections = [m \in Machines |-> NoConn]
  /\ mirror = {}
  /\ pEnd = [k \in Conns |-> "closed"]
  /\ registered = {}
  /\ turn = NoConn
  /\ cursor = 0
  /\ dEnd = [k \in Conns |-> "closed"]
  /\ running = {}
  /\ halted = {}
  /\ up = [k \in Conns |-> <<>>]
  /\ down = [k \in Conns |-> <<>>]
  /\ runs = [c \in Commands |-> 0]
  /\ delivered = [k \in Conns |-> {}]
  /\ unconfirmed = {}
  /\ byOperator = {}
  /\ lives = 0
  /\ faults = 0
  /\ revocations = 0

-----------------------------------------------------------------------------
(* The plane's side of a socket.                                           *)

\* Mutant: the frame is written without looking at the socket's state.
SendCommand_AnyState(k, c) ==
  /\ IF pEnd[k] # "closed" /\ dEnd[k] = "open"
     THEN /\ down' = [down EXCEPT ![k] = Append(@, Command(c))]
          /\ delivered' = [delivered EXCEPT ![k] = @ \cup {c}]
     ELSE UNCHANGED <<down, delivered>>
  /\ unconfirmed' = unconfirmed
                      \cup {j \in {k} : pEnd[j] # "closed" /\ dEnd[j] = "closed"}

\* A frame is written only while the socket is OPEN; it reaches the daemon only
\* if the other end is still there, and is never confirmed if it is not.
SendCommand(k, c) ==
  /\ IF pEnd[k] = "open" /\ dEnd[k] = "open"
     THEN /\ down' = [down EXCEPT ![k] = Append(@, Command(c))]
          /\ delivered' = [delivered EXCEPT ![k] = @ \cup {c}]
     ELSE UNCHANGED <<down, delivered>>
  /\ unconfirmed' = unconfirmed
                      \cup {j \in {k} : pEnd[j] = "open" /\ dEnd[j] = "closed"}

\* ws.close(code): the close frame follows what was already written.
CloseSocket(k, code) ==
  IF pEnd[k] = "open"
  THEN /\ pEnd' = [pEnd EXCEPT ![k] = "closing"]
       /\ down' = IF dEnd[k] = "open"
                  THEN [down EXCEPT ![k] = Append(@, Close(code))] ELSE down
  ELSE UNCHANGED <<pEnd, down>>

\* Mutant: a close event drops whatever registration the machine has.
PlaneCloseEvent_AnySocket(k) ==
  /\ pEnd' = [pEnd EXCEPT ![k] = "closed"]
  /\ up' = [up EXCEPT ![k] = <<>>]
  /\ unconfirmed' = unconfirmed \ {k}
  /\ registered' = registered \ {k}
  /\ connections' = [connections EXCEPT ![Dialer[k]] = NoConn]

\* The 'close' event: the registration goes only if it is still this socket's.
PlaneCloseEvent(k) ==
  /\ pEnd' = [pEnd EXCEPT ![k] = "closed"]
  /\ up' = [up EXCEPT ![k] = <<>>]
  /\ unconfirmed' = unconfirmed \ {k}
  /\ registered' = registered \ {k}
  /\ connections' = [m \in Machines |->
                       IF m = Dialer[k] /\ connections[m] = k
                       THEN NoConn ELSE connections[m]]

-----------------------------------------------------------------------------
(* Frames arriving at the plane.                                           *)

\* The next frame of k is handled: not while another socket's hello is being
\* served, and beside k's own replay only if it was read together with it.
NextFrame(k, type) ==
  /\ pEnd[k] # "closed"
  /\ up[k] # <<>>
  /\ Head(up[k]).type = type
  /\ turn = NoConn \/ (Coalesce /\ turn = k /\ cursor = 0)
  /\ up' = [up EXCEPT ![k] = Tail(@)]

LiveElsewhere(k) ==
  LET other == connections[Dialer[k]]
  IN  other # NoConn /\ other # k /\ pEnd[other] = "open"

RefuseHello(k) ==
  /\ NextFrame(k, "hello")
  /\ \/ /\ Dialer[k] \in revoked
        /\ CloseSocket(k, MachineRevoked)
     \/ /\ Dialer[k] \notin revoked
        /\ LiveElsewhere(k)
        /\ CloseSocket(k, DuplicateMachine)
  /\ UNCHANGED <<storeVars, connections, mirror, registered, turn, cursor,
                 daemonVars, unconfirmed, auxVars>>

AcceptHello(k) ==
  /\ NextFrame(k, "hello")
  /\ Dialer[k] \notin revoked
  /\ ~LiveElsewhere(k)
  /\ registered' = registered \cup {k}
  /\ connections' = [connections EXCEPT ![Dialer[k]] = k]
  /\ Register(Dialer[k])
  /\ mirror' = mirror \cup {Dialer[k]}
  /\ turn' = k
  /\ cursor' = 0
  /\ UNCHANGED <<pEnd, daemonVars, down, unconfirmed, auxVars>>

\* Mutant: nothing is replayed.
BeginReplay_Nothing(k) ==
  /\ turn = k /\ cursor = 0
  /\ ReadCommands(Dialer[k])
  /\ cursor' = Len(log[Dialer[k]]) + 1
  /\ UNCHANGED <<connections, mirror, pEnd, registered, turn, daemonVars,
                 netVars, auxVars>>

\* replay(): load the pending list, then look at the commands one by one.
BeginReplay(k) ==
  /\ turn = k /\ cursor = 0
  /\ ReadCommands(Dialer[k])
  /\ cursor' = 1
  /\ UNCHANGED <<connections, mirror, pEnd, registered, turn, daemonVars,
                 netVars, auxVars>>

EndReplay(k) ==
  /\ turn = k /\ cursor > Len(log[Dialer[k]])
  /\ turn' = NoConn
  /\ cursor' = 0
  /\ UNCHANGED <<storeVars, connections, mirror, pEnd, registered, daemonVars,
                 netVars, auxVars>>

\* A pending command above the watermark is sent again unless a reply for it is
\* stored; looking for the reply may load other machines' journals.
ReplayNext(k) ==
  /\ turn = k /\ cursor \in 1..Len(log[Dialer[k]])
  /\ cursor' = cursor + 1
  /\ LET c == log[Dialer[k]][cursor]
     IN  IF c \in acked \/ cursor <= Watermark
         THEN UNCHANGED <<storeVars, down, unconfirmed, delivered>>
         ELSE /\ ReadReply(c)
              /\ IF replies'[c] # NoReply
                 THEN UNCHANGED <<down, unconfirmed, delivered>>
                 ELSE SendCommand(k, c)
  /\ UNCHANGED <<connections, mirror, pEnd, registered, turn, daemonVars, up,
                 runs, byOperator, faults, lives, revocations>>

ReceiveResponse(k) ==
  /\ NextFrame(k, "response")
  /\ RecordReply(Head(up[k]).cmd, Head(up[k]).run)
  /\ UNCHANGED <<planeVars, daemonVars, down, unconfirmed, auxVars>>

ReceiveAck(k) ==
  /\ NextFrame(k, "ack")
  /\ Ack(Head(up[k]).cmd)
  /\ UNCHANGED <<planeVars, daemonVars, down, unconfirmed, auxVars>>

-----------------------------------------------------------------------------
(* REST routes of the plane.                                               *)

\* Mutant: a push is not kept out of a replay under way.
Push_DuringReplay(c) ==
  /\ AppendCommand(c)
  /\ IF connections[Target[c]] # NoConn
     THEN SendCommand(connections[Target[c]], c)
     ELSE UNCHANGED <<down, unconfirmed, delivered>>
  /\ UNCHANGED <<planeVars, daemonVars, up, runs, byOperator, faults,
                 lives, revocations>>

Push(c) ==
  /\ turn = NoConn
  /\ AppendCommand(c)
  /\ IF connections[Target[c]] # NoConn
     THEN SendCommand(connections[Target[c]], c)
     ELSE UNCHANGED <<down, unconfirmed, delivered>>
  /\ UNCHANGED <<planeVars, daemonVars, up, runs, byOperator, faults,
                 lives, revocations>>

OperatorAck(c) ==
  /\ turn = NoConn
  /\ InLog(c)
  /\ Ack(c)
  /\ byOperator' = byOperator \cup {c}
  /\ UNCHANGED <<planeVars, daemonVars, netVars, runs, delivered, faults,
                 lives, revocations>>

\* GET of a command reads the command list first, then the reply.
OperatorRead(c) ==
  /\ turn = NoConn
  /\ LET read == {Target[c]}
         more == IF InLog(c) THEN LoadForReply(c, RepliesAfterLoad(read)) ELSE {}
     IN  LoadMachines(read \cup more)
  /\ UNCHANGED <<log, ackFile, replyFile, records, revoked, planeVars,
                 daemonVars, netVars, auxVars>>

\* Mutant: only a connected machine is taken out of the mirror.
OperatorRevoke_KeepsOffline(m) ==
  /\ turn = NoConn
  /\ m \in mirror \cup revoked \/ connections[m] # NoConn
  /\ revocations < MaxRevocations
  /\ Revoke(m)
  /\ IF connections[m] # NoConn
     THEN /\ mirror' = mirror \ {m}
          /\ CloseSocket(connections[m], MachineRevoked)
     ELSE UNCHANGED <<mirror, pEnd, down>>
  /\ revocations' = revocations + 1
  /\ UNCHANGED <<connections, registered, turn, cursor, daemonVars, up,
                 unconfirmed, runs, delivered, byOperator, faults, lives>>

OperatorRevoke(m) ==
  /\ turn = NoConn
  /\ m \in mirror \cup revoked \/ connections[m] # NoConn
  /\ revocations < MaxRevocations
  /\ Revoke(m)
  /\ mirror' = mirror \ {m}
  /\ IF connections[m] # NoConn
     THEN CloseSocket(connections[m], MachineRevoked)
     ELSE UNCHANGED <<pEnd, down>>
  /\ revocations' = revocations + 1
  /\ UNCHANGED <<connections, registered, turn, cursor, daemonVars, up,
                 unconfirmed, runs, delivered, byOperator, faults, lives>>

OperatorReadmit(m) ==
  /\ turn = NoConn
  /\ m \in revoked
  /\ ClearRevocation(m)
  /\ UNCHANGED <<planeVars, daemonVars, netVars, auxVars>>

-----------------------------------------------------------------------------
(* The daemon's connector.                                                 *)

\* dial(): one socket at a time, never again after a revocation; the first
\* frame on the new socket is the hello.
Dial(k) ==
  /\ Dialer[k] \notin halted
  /\ \A j \in Socket(Dialer[k]) : dEnd[j] = "closed"
  /\ pEnd[k] = "closed"
  /\ pEnd' = [pEnd EXCEPT ![k] = "open"]
  /\ dEnd' = [dEnd EXCEPT ![k] = "open"]
  /\ up' = [up EXCEPT ![k] = <<Hello>>]
  /\ UNCHANGED <<storeVars, connections, mirror, registered, turn, cursor,
                 running, halted, down, unconfirmed, auxVars>>

DaemonCloseEvent(k) ==
  /\ dEnd' = [dEnd EXCEPT ![k] = "closed"]
  /\ down' = [down EXCEPT ![k] = <<>>]
  /\ delivered' = [delivered EXCEPT ![k] = {}]

\* A pushed command starts its handler; message processing does not wait for it.
ReceiveCommand(k) ==
  /\ dEnd[k] = "open" /\ down[k] # <<>>
  /\ Head(down[k]).type = "command"
  /\ LET c == Head(down[k]).cmd
     IN  /\ runs' = [runs EXCEPT ![c] = @ + 1]
         /\ running' = running \cup {<<c, runs[c] + 1>>}
  /\ down' = [down EXCEPT ![k] = Tail(@)]
  /\ UNCHANGED <<storeVars, planeVars, dEnd, halted, up, unconfirmed, delivered,
                 byOperator, faults, lives, revocations>>

\* Mutant: the connector dials again after a revocation.
ReceiveClose_Redials(k) ==
  /\ dEnd[k] = "open" /\ down[k] # <<>>
  /\ Head(down[k]).type = "close"
  /\ DaemonCloseEvent(k)
  /\ UNCHANGED <<storeVars, planeVars, running, halted, up, unconfirmed, runs,
                 byOperator, faults, lives, revocations>>

ReceiveClose(k) ==
  /\ dEnd[k] = "open" /\ down[k] # <<>>
  /\ Head(down[k]).type = "close"
  /\ halted' = IF Head(down[k]).code = MachineRevoked
               THEN halted \cup {Dialer[k]} ELSE halted
  /\ DaemonCloseEvent(k)
  /\ UNCHANGED <<storeVars, planeVars, running, up, unconfirmed, runs, byOperator,
                 faults, lives, revocations>>

\* Mutant: the ack goes out before the response.
FinishCommand_AckFirst(c, n) ==
  /\ <<c, n>> \in running
  /\ running' = running \ {<<c, n>>}
  /\ up' = [k \in Conns |->
              IF Dialer[k] = Target[c] /\ dEnd[k] = "open" /\ pEnd[k] # "closed"
              THEN Append(Append(up[k], AckFrame(c)), Response(c, n))
              ELSE up[k]]
  /\ UNCHANGED <<storeVars, planeVars, dEnd, halted, down, unconfirmed, auxVars>>

\* The handler of a command finishes: the response, then the ack, go out on the
\* socket that is open now (not necessarily the one the command came on); with
\* no open socket both are dropped.
FinishCommand(c, n) ==
  /\ <<c, n>> \in running
  /\ running' = running \ {<<c, n>>}
  /\ up' = [k \in Conns |->
              IF Dialer[k] = Target[c] /\ dEnd[k] = "open" /\ pEnd[k] # "closed"
              THEN Append(Append(up[k], Response(c, n)), AckFrame(c))
              ELSE up[k]]
  /\ UNCHANGED <<storeVars, planeVars, dEnd, halted, down, unconfirmed, auxVars>>

-----------------------------------------------------------------------------
(* Faults.                                                                 *)

\* The daemon's end breaks first; some of what it had sent may still arrive.
DaemonLosesSocket(k) ==
  /\ dEnd[k] = "open"
  /\ faults < MaxFaults
  /\ \E n \in 0..Len(up[k]) : up' = [up EXCEPT ![k] = SubSeq(@, 1, n)]
  /\ DaemonCloseEvent(k)
  /\ faults' = faults + 1
  /\ UNCHANGED <<storeVars, planeVars, running, halted, unconfirmed, runs,
                 byOperator, lives, revocations>>

\* The plane's end breaks first; the daemon may still read what was sent to it.
PlaneLosesSocket(k) ==
  /\ turn = NoConn
  /\ pEnd[k] # "closed" /\ dEnd[k] = "open"
  /\ faults < MaxFaults
  /\ PlaneCloseEvent(k)
  /\ faults' = faults + 1
  /\ UNCHANGED <<storeVars, mirror, turn, cursor, daemonVars, down, runs,
                 delivered, byOperator, lives, revocations>>

\* The other end learns of it: what was sent before has been read or is lost.
PlaneNoticesClose(k) ==
  /\ turn = NoConn
  /\ pEnd[k] # "closed" /\ dEnd[k] = "closed" /\ up[k] = <<>>
  /\ PlaneCloseEvent(k)
  /\ UNCHANGED <<storeVars, mirror, turn, cursor, daemonVars, down, auxVars>>

DaemonNoticesClose(k) ==
  /\ dEnd[k] = "open" /\ pEnd[k] = "closed"
  /\ DaemonCloseEvent(k)
  /\ UNCHANGED <<storeVars, planeVars, running, halted, up, unconfirmed, runs,
                 byOperator, faults, lives, revocations>>

\* The daemon process stops and is started again: its handlers die with it.
RestartDaemon(m) ==
  /\ faults < MaxFaults
  /\ dEnd' = [k \in Conns |-> IF Dialer[k] = m THEN "closed" ELSE dEnd[k]]
  /\ down' = [k \in Conns |-> IF Dialer[k] = m THEN <<>> ELSE down[k]]
  /\ delivered' = [k \in Conns |-> IF Dialer[k] = m THEN {} ELSE delivered[k]]
  /\ running' = {r \in running : Target[r[1]] # m}
  /\ halted' = halted \ {m}
  /\ faults' = faults + 1
  /\ UNCHANGED <<storeVars, planeVars, up, unconfirmed, runs, byOperator,
                 lives, revocations>>

\* The plane stops and is started again on the same store directory.
RestartPlane ==
  /\ faults < MaxFaults
  /\ Reopen
  /\ connections' = [m \in Machines |-> NoConn]
  /\ mirror' = Registry
  /\ pEnd' = [k \in Conns |-> "closed"]
  /\ registered' = {}
  /\ turn' = NoConn
  /\ cursor' = 0
  /\ up' = [k \in Conns |-> <<>>]
  /\ unconfirmed' = {}
  /\ lives' = IF CountLives THEN lives + 1 ELSE lives
  /\ faults' = faults + 1
  /\ UNCHANGED <<daemonVars, down, runs, delivered, byOperator, revocations>>

-----------------------------------------------------------------------------
PlaneStep(k) ==
  \/ RefuseHello(k) \/ AcceptHello(k)
  \/ BeginReplay(k) \/ ReplayNext(k) \/ EndReplay(k)
  \/ ReceiveResponse(k) \/ ReceiveAck(k)

DaemonStep(k) == ReceiveCommand(k) \/ ReceiveClose(k)

Finish == \E r \in running : FinishCommand(r[1], r[2])

Operator ==
  \/ \E c \in Commands : Push(c) \/ OperatorAck(c) \/ OperatorRead(c)
  \/ \E m \in Machines : OperatorRevoke(m) \/ OperatorReadmit(m)

Fault ==
  \/ \E k \in Conns : DaemonLosesSocket(k) \/ PlaneLosesSocket(k)
  \/ \E m \in Machines : RestartDaemon(m)
  \/ RestartPlane

Next ==
  \/ \E k \in Conns : \/ PlaneStep(k) \/ DaemonStep(k) \/ Dial(k)
                      \/ PlaneNoticesClose(k) \/ DaemonNoticesClose(k)
  \/ Finish
  \/ Operator
  \/ Fault

Spec == Init /\ [][Next]_vars

\* The plane keeps no timer on an idle socket (no ping, no keepalive), so it
\* learns that the daemon's end is gone only if it closes the socket itself (ws
\* gives up waiting for the other end) or has written to it since (TCP gives up
\* retransmitting).  A socket that is nobody's registration is not looked at by
\* anything, and only its name is given back.
WillNotice(k) ==
  pEnd[k] = "closing" \/ k \in unconfirmed \/ connections[Dialer[k]] # k

\* What the event loops, the network and the daemons' timers owe: frames that
\* arrived are handled, handlers finish, a broken socket is noticed by the
\* daemon (heartbeat) and, where it can tell, by the plane, and the reconnect
\* timer dials again.  Operators and faults owe nothing.
Fairness ==
  /\ \A k \in Conns : /\ WF_vars(PlaneStep(k))
                      /\ WF_vars(DaemonStep(k))
                      /\ WF_vars(WillNotice(k) /\ PlaneNoticesClose(k))
                      /\ WF_vars(DaemonNoticesClose(k))
  /\ \A m \in Machines : WF_vars(\E k \in Socket(m) : Dial(k))
  /\ \A c \in Commands : WF_vars(\E r \in running : r[1] = c /\ FinishCommand(c, r[2]))

FairSpec == Spec /\ Fairness

-----------------------------------------------------------------------------
(* GET /machines: the mirror and, over it, whatever has a connection.      *)

Listed == mirror \cup {m \in Machines : connections[m] # NoConn}

\* m is not in the mirror, and its connection is on the way out.
HungUp(m) ==
  /\ m \notin mirror
  /\ connections[m] # NoConn
  /\ pEnd[connections[m]] = "closing"

-----------------------------------------------------------------------------
(* What a step writes to a socket.                                         *)

Writes(k, c) ==
  /\ Len(down'[k]) = Len(down[k]) + 1
  /\ down'[k][Len(down'[k])] = Command(c)

-----------------------------------------------------------------------------
(* Properties.                                                             *)

\* On every socket the ack of a command travels behind its response, or the
\* plane already holds a reply: handling an ack can never settle a command
\* whose result the plane has not seen (FinishCommand's send order, and
\* nothing overtakes on a socket that breaks and is replaced).
AckFollowsReply ==
  \A k \in Conns : \A i \in 1..Len(up[k]) :
    up[k][i].type = "ack" =>
      \/ replies[up[k][i].cmd] # NoReply
      \/ \E j \in 1..(i - 1) : /\ up[k][j].type = "response"
                              /\ up[k][j].cmd = up[k][i].cmd

\* A socket whose hello was accepted and that is still open is the one pushes
\* go to: a machine never has a second live registration, and no live
\* registration is orphaned by another socket's close event.
OneLiveSocket ==
  \A k \in registered : pEnd[k] = "open" => connections[Dialer[k]] = k

\* No command is written in vain: not twice to one socket, by the push that
\* appends it and the replay of a hello, and not again after a reconnect once the
\* store holds its reply, in memory or in the journal, even when its ack was lost.
NeverResent ==
  [][\A k \in Conns, c \in Commands :
       Writes(k, c) => /\ c \notin delivered[k]
                       /\ replies[c] = NoReply /\ replyFile[c] = NoReply]_vars

\* A revoked machine gets no command: not by a push that races the revocation,
\* a replay under way, or a socket that was open when the tombstone was written.
RevokedGetsNothing ==
  [][\A k \in Conns, c \in Commands : Writes(k, c) => Dialer[k] \notin revoked]_vars

\* A machine that GET /machines lists is registered and not revoked, whoever of
\* the hellos, the operators and the restarts touched the mirror or the
\* connections last.  The one exception is a revoked machine the plane has hung
\* up on and whose close event is still to come: it is listed, as not connected.
\* So what is shown as connected is never revoked.  (The converse fails: a
\* re-admitted machine is not listed before it dials.)
ListedIsRegistered == \A m \in Listed : m \in Registry \/ HungUp(m)

\* Handlers of one machine's commands are first started in the order the
\* commands were pushed, across reconnects and replays; only a command the
\* operator acked away may be passed over.
StartsInOrder ==
  \A m \in Machines : \A i, j \in 1..Len(log[m]) :
    i < j /\ runs[log[m][j]] > 0 =>
      runs[log[m][i]] > 0 \/ log[m][i] \in byOperator

\* A machine's channel is at rest on k: k is accepted and open at both ends, its
\* hello is served, and nothing is in flight or being handled.
AtRest(k) ==
  /\ k \in registered /\ pEnd[k] = "open" /\ dEnd[k] = "open" /\ turn # k
  /\ up[k] = <<>> /\ down[k] = <<>>
  /\ \A r \in running : Target[r[1]] # Dialer[k]

\* Where a channel is at rest no command was left behind: each one pushed so far,
\* also on a socket that was dying or before a restart of either side, has a
\* reply the plane can read or is acked.  Nothing has to wait for one more
\* reconnect.
NothingStranded ==
  \A k \in Conns : AtRest(k) =>
    \A i \in 1..Len(log[Dialer[k]]) :
      LET c == log[Dialer[k]][i] IN c \in acked \/ replies[c] # NoReply

\* At least once, but not more often than the faults make necessary: a handler is
\* started again only when a socket broke or a process was restarted since, at
\* most once for each.  A replay beside a push, a refused hello, a revocation and
\* the machine's return after it never repeat a command.
RerunsArePaid == \A c \in Commands : runs[c] <= 1 + faults

Settled == acked \cup ackFile
Answered == {c \in Commands : replies[c] # NoReply \/ replyFile[c] # NoReply}

\* The plane holds a registration whose daemon is gone and has no way to tell.
HalfOpen(m) ==
  LET k == connections[m]
  IN  k # NoConn /\ pEnd[k] = "open" /\ dEnd[k] = "closed" /\ k \notin unconfirmed

\* Once faults stop, every pushed command is eventually answered or acked, for
\* good, unless its machine is kept out by a revocation or by a registration
\* that the plane cannot tell is dead: a push on a dying socket, a replay cut
\* short, a refused hello or a lost answer never strands it.  (It need not be
\* acked: a lost ack leaves an answered command pending for ever.)
EventuallyAnswered ==
  \A c \in Commands :
    InLog(c) ~> [](\/ c \in Answered \cup Settled
                   \/ Target[c] \in revoked \cup halted
                   \/ HalfOpen(Target[c]))
=============================================================================
