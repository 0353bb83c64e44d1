---------------------------- MODULE FleetProofs -----------------------------
(***************************************************************************)
(* Theorems about the fleet channel, for any sets of machines, sockets and *)
(* commands and any bounds: its types, which socket the plane holds for a  *)
(* machine and what may be written to it, and the life of a command up to  *)
(* the refinement of the command ledger.                                   *)
(*                                                                         *)
(* The inductive invariant `Registrations' relates the three places the    *)
(* plane keeps a socket in (connections, registered, turn) to the state of *)
(* the socket and to the tombstones.  `History' relates what is in flight  *)
(* and what is stored to the log and to the runs that produced it.         *)
(* `OnceInv' says that a replay goes through a log without repetitions on  *)
(* a socket nothing was written to.  `OrderInv' says that a socket which   *)
(* is served accounts for every command of its machine, and that what it   *)
(* carries is in the order of the log.  `SocketInv' and `AllPaid' weigh    *)
(* the starts of a command against the faults.                             *)
(***************************************************************************)
EXTENDS FleetLedger, SequenceTheorems, TLAPS

-----------------------------------------------------------------------------
(* Type correctness.                                                       *)

\* Frames: what is built is a frame, and what is read off a channel is one.
LEMMA FrameTypes ==
  /\ Hello \in UpFrame
  /\ \A c \in Commands, n \in Nat : Response(c, n) \in UpFrame
  /\ \A c \in Commands : AckFrame(c) \in UpFrame
  /\ \A c \in Commands : Command(c) \in DownFrame
  /\ \A code \in {MachineRevoked, DuplicateMachine} : Close(code) \in DownFrame
BY DEF Hello, UpFrame, DownFrame, Response, AckFrame, Command, Close

LEMMA UpFrameFields ==
  ASSUME NEW f \in UpFrame
  PROVE  /\ f.type \in {"hello", "response", "ack"}
         /\ f.type = "response" => f.cmd \in Commands /\ f.run \in Nat
         /\ f.type = "ack" => f.cmd \in Commands
BY DEF UpFrame, Hello

LEMMA DownFrameFields ==
  ASSUME NEW f \in DownFrame
  PROVE  /\ f.type = "command" => f.cmd \in Commands
         /\ f.type = "close" => f.code \in {MachineRevoked, DuplicateMachine}
BY DEF DownFrame

\* The first frame of a non-empty channel is a frame.
LEMMA HeadIsFrame ==
  ASSUME NEW S, NEW s \in Seq(S), s # <<>>
  PROVE  Head(s) \in S /\ Tail(s) \in Seq(S)
BY HeadTailProperties

\* The store's operations keep its types.
LEMMA StoreTypes ==
  ASSUME TypeOK
  PROVE  /\ \A ms \in SUBSET Machines : LoadMachines(ms) =>
              loaded' \in SUBSET Machines /\ acked' \in SUBSET Commands
                /\ replies' \in [Commands -> Nat]
         /\ \A c \in Commands : AppendCommand(c) => StoreTypeOK'
         /\ \A c \in Commands : Ack(c) => StoreTypeOK'
         /\ \A c \in Commands, n \in Nat : RecordReply(c, n) => StoreTypeOK'
         /\ \A m \in Machines : ReadCommands(m) => StoreTypeOK'
         /\ \A c \in Commands : ReadReply(c) => StoreTypeOK'
         /\ \A m \in Machines : Register(m) => StoreTypeOK'
         /\ \A m \in Machines : Revoke(m) => StoreTypeOK'
         /\ \A m \in Machines : ClearRevocation(m) => StoreTypeOK'
         /\ Reopen => StoreTypeOK'
         /\ UNCHANGED storeVars => StoreTypeOK'
<1> USE DEF TypeOK, StoreTypeOK
<1>1. ASSUME NEW ms \in SUBSET Machines, LoadMachines(ms)
      PROVE  loaded' \in SUBSET Machines /\ acked' \in SUBSET Commands
               /\ replies' \in [Commands -> Nat]
  BY <1>1 DEF LoadMachines, AckedAfterLoad, RepliesAfterLoad
<1>2. ASSUME NEW c \in Commands, AppendCommand(c) PROVE StoreTypeOK'
  <2>1. Target[c] \in Machines
    BY TargetAssumption
  <2>2. log' \in [Machines -> Seq(Commands)]
    BY <1>2, <2>1, AppendProperties DEF AppendCommand
  <2> QED
    BY <1>1, <1>2, <2>1, <2>2 DEF AppendCommand
<1>3. ASSUME NEW c \in Commands, Ack(c) PROVE StoreTypeOK'
  BY <1>3 DEF Ack
<1>4. ASSUME NEW c \in Commands, NEW n \in Nat, RecordReply(c, n) PROVE StoreTypeOK'
  BY <1>4 DEF RecordReply
<1>5. ASSUME NEW m \in Machines, ReadCommands(m) PROVE StoreTypeOK'
  BY <1>1, <1>5 DEF ReadCommands
<1>6. ASSUME NEW c \in Commands, ReadReply(c) PROVE StoreTypeOK'
  <2>1. LoadForReply(c, replies) \in SUBSET Machines
    BY TargetAssumption DEF LoadForReply, MachinesWithReplies
  <2> QED
    BY <1>1, <1>6, <2>1 DEF ReadReply
<1>7. ASSUME NEW m \in Machines, Register(m) \/ Revoke(m) \/ ClearRevocation(m)
      PROVE  StoreTypeOK'
  BY <1>7 DEF Register, Revoke, ClearRevocation
<1>8. Reopen => StoreTypeOK'
  BY DEF Reopen, NoReply
<1>9. UNCHANGED storeVars => StoreTypeOK'
  BY DEF storeVars
<1> QED
  BY <1>1, <1>2, <1>3, <1>4, <1>5, <1>6, <1>7, <1>8, <1>9

\* The helpers on sockets keep the plane's types.
LEMMA SocketTypes ==
  ASSUME TypeOK, NEW k \in Conns
  PROVE  /\ \A c \in Commands : SendCommand(k, c) =>
              /\ down' \in [Conns -> Seq(DownFrame)]
              /\ delivered' \in [Conns -> SUBSET Commands]
              /\ unconfirmed' \in SUBSET Conns
         /\ \A code \in {MachineRevoked, DuplicateMachine} : CloseSocket(k, code) =>
              pEnd' \in [Conns -> {"open", "closing", "closed"}] /\ down' \in [Conns -> Seq(DownFrame)]
         /\ PlaneCloseEvent(k) =>
              /\ pEnd' \in [Conns -> {"open", "closing", "closed"}]
              /\ up' \in [Conns -> Seq(UpFrame)]
              /\ registered' \in SUBSET Conns
              /\ connections' \in [Machines -> Conns \cup {NoConn}]
              /\ unconfirmed' \in SUBSET Conns
         /\ DaemonCloseEvent(k) =>
              /\ dEnd' \in [Conns -> {"open", "closed"}]
              /\ down' \in [Conns -> Seq(DownFrame)]
              /\ delivered' \in [Conns -> SUBSET Commands]
         /\ \A t : NextFrame(k, t) =>
              /\ up' \in [Conns -> Seq(UpFrame)]
              /\ Head(up[k]) \in UpFrame
<1>1. ASSUME NEW c \in Commands, SendCommand(k, c)
      PROVE  /\ down' \in [Conns -> Seq(DownFrame)]
             /\ delivered' \in [Conns -> SUBSET Commands]
             /\ unconfirmed' \in SUBSET Conns
  <2>1. Append(down[k], Command(c)) \in Seq(DownFrame)
    BY FrameTypes, AppendProperties DEF TypeOK
  <2>2. CASE pEnd[k] = "open" /\ dEnd[k] = "open"
    <3>1. /\ down' = [down EXCEPT ![k] = Append(@, Command(c))]
          /\ delivered' = [delivered EXCEPT ![k] = @ \cup {c}]
      BY <1>1, <2>2 DEF SendCommand
    <3>2. unconfirmed' \in SUBSET Conns
      BY <1>1 DEF TypeOK, SendCommand
    <3> QED
      BY <2>1, <3>1, <3>2 DEF TypeOK
  <2>3. CASE ~(pEnd[k] = "open" /\ dEnd[k] = "open")
    BY <1>1, <2>3 DEF TypeOK, SendCommand
  <2> QED
    BY <2>2, <2>3
<1>2. ASSUME NEW code \in {MachineRevoked, DuplicateMachine}, CloseSocket(k, code)
      PROVE  pEnd' \in [Conns -> {"open", "closing", "closed"}] /\ down' \in [Conns -> Seq(DownFrame)]
  <2>1. Append(down[k], Close(code)) \in Seq(DownFrame)
    BY FrameTypes, AppendProperties DEF TypeOK
  <2>2. CASE pEnd[k] = "open"
    BY <1>2, <2>1, <2>2 DEF TypeOK, CloseSocket
  <2>3. CASE pEnd[k] # "open"
    BY <1>2, <2>3 DEF TypeOK, CloseSocket
  <2> QED
    BY <2>2, <2>3
<1>3. ASSUME PlaneCloseEvent(k)
      PROVE  /\ pEnd' \in [Conns -> {"open", "closing", "closed"}]
             /\ up' \in [Conns -> Seq(UpFrame)]
             /\ registered' \in SUBSET Conns
             /\ connections' \in [Machines -> Conns \cup {NoConn}]
             /\ unconfirmed' \in SUBSET Conns
  BY <1>3 DEF TypeOK, PlaneCloseEvent
<1>4. ASSUME DaemonCloseEvent(k)
      PROVE  /\ dEnd' \in [Conns -> {"open", "closed"}]
             /\ down' \in [Conns -> Seq(DownFrame)]
             /\ delivered' \in [Conns -> SUBSET Commands]
  BY <1>4 DEF TypeOK, DaemonCloseEvent
<1>5. ASSUME NEW t, NextFrame(k, t)
      PROVE  up' \in [Conns -> Seq(UpFrame)] /\ Head(up[k]) \in UpFrame
  BY <1>5, HeadIsFrame DEF TypeOK, NextFrame
<1> QED
  BY <1>1, <1>2, <1>3, <1>4, <1>5

LEMMA TypeStep == TypeOK /\ [Next]_vars => TypeOK'
<1> SUFFICES ASSUME TypeOK, [Next]_vars PROVE TypeOK'
  OBVIOUS
<1> USE ConnAssumption, TargetAssumption
<1> USE DEF TypeOK, planeVars, daemonVars, netVars, auxVars
<1>1. ASSUME NEW k \in Conns, RefuseHello(k) PROVE TypeOK'
  BY <1>1, StoreTypes, SocketTypes DEF RefuseHello
<1>2. ASSUME NEW k \in Conns, AcceptHello(k) PROVE TypeOK'
  BY <1>2, StoreTypes, SocketTypes DEF AcceptHello
<1>3. ASSUME NEW k \in Conns, BeginReplay(k) PROVE TypeOK'
  BY <1>3, StoreTypes DEF BeginReplay
<1>4. ASSUME NEW k \in Conns, EndReplay(k) PROVE TypeOK'
  BY <1>4, StoreTypes DEF EndReplay
<1>5. ASSUME NEW k \in Conns, ReplayNext(k) PROVE TypeOK'
  <2> DEFINE c == log[Dialer[k]][cursor]
  <2>1. c \in Commands
    BY <1>5, ElementOfSeq DEF ReplayNext, StoreTypeOK
  <2>2. StoreTypeOK'
    BY <1>5, <2>1, StoreTypes DEF ReplayNext
  <2>3. /\ down' \in [Conns -> Seq(DownFrame)]
        /\ delivered' \in [Conns -> SUBSET Commands]
        /\ unconfirmed' \in SUBSET Conns
    BY <1>5, <2>1, SocketTypes DEF ReplayNext
  <2> QED
    BY <1>5, <2>2, <2>3 DEF ReplayNext
<1>6. ASSUME NEW k \in Conns, ReceiveResponse(k) PROVE TypeOK'
  <2>1. Head(up[k]) \in UpFrame /\ Head(up[k]).type = "response" /\ up' \in [Conns -> Seq(UpFrame)]
    BY <1>6, SocketTypes DEF ReceiveResponse, NextFrame
  <2>2. StoreTypeOK'
    BY <1>6, <2>1, UpFrameFields, StoreTypes DEF ReceiveResponse
  <2> QED
    BY <1>6, <2>1, <2>2 DEF ReceiveResponse
<1>7. ASSUME NEW k \in Conns, ReceiveAck(k) PROVE TypeOK'
  <2>1. Head(up[k]) \in UpFrame /\ Head(up[k]).type = "ack" /\ up' \in [Conns -> Seq(UpFrame)]
    BY <1>7, SocketTypes DEF ReceiveAck, NextFrame
  <2>2. StoreTypeOK'
    BY <1>7, <2>1, UpFrameFields, StoreTypes DEF ReceiveAck
  <2> QED
    BY <1>7, <2>1, <2>2 DEF ReceiveAck
<1>8. ASSUME NEW c \in Commands, Push(c) PROVE TypeOK'
  <2>1. /\ down' \in [Conns -> Seq(DownFrame)]
        /\ delivered' \in [Conns -> SUBSET Commands]
        /\ unconfirmed' \in SUBSET Conns
    BY <1>8, SocketTypes DEF Push
  <2> QED
    BY <1>8, <2>1, StoreTypes DEF Push
<1>9. ASSUME NEW c \in Commands, OperatorAck(c) PROVE TypeOK'
  BY <1>9, StoreTypes DEF OperatorAck
<1>10. ASSUME NEW c \in Commands, OperatorRead(c) PROVE TypeOK'
  <2> DEFINE more == IF InLog(c) THEN LoadForReply(c, RepliesAfterLoad({Target[c]})) ELSE {}
  <2>1. {Target[c]} \cup more \in SUBSET Machines
    BY DEF LoadForReply, MachinesWithReplies
  <2>2. LoadMachines({Target[c]} \cup more)
    BY <1>10 DEF OperatorRead
  <2>3. StoreTypeOK'
    BY <1>10, <2>1, <2>2, StoreTypes DEF OperatorRead, StoreTypeOK
  <2> QED
    BY <1>10, <2>3 DEF OperatorRead
<1>11. ASSUME NEW m \in Machines, OperatorRevoke(m) PROVE TypeOK'
  <2>1. pEnd' \in [Conns -> {"open", "closing", "closed"}] /\ down' \in [Conns -> Seq(DownFrame)]
    <3>1. CASE connections[m] = NoConn
      BY <1>11, <3>1 DEF OperatorRevoke
    <3>2. CASE connections[m] # NoConn
      BY <1>11, <3>2, SocketTypes DEF OperatorRevoke
    <3> QED
      BY <3>1, <3>2
  <2>2. StoreTypeOK'
    BY <1>11, StoreTypes DEF OperatorRevoke
  <2> QED
    BY <1>11, <2>1, <2>2 DEF OperatorRevoke
<1>12. ASSUME NEW m \in Machines, OperatorReadmit(m) PROVE TypeOK'
  BY <1>12, StoreTypes DEF OperatorReadmit
<1>13. ASSUME NEW k \in Conns, Dial(k) PROVE TypeOK'
  BY <1>13, StoreTypes, FrameTypes DEF Dial
<1>14. ASSUME NEW k \in Conns, ReceiveCommand(k) PROVE TypeOK'
  <2>1. Head(down[k]) \in DownFrame /\ Tail(down[k]) \in Seq(DownFrame)
    BY <1>14, HeadIsFrame DEF ReceiveCommand
  <2>2. Head(down[k]).cmd \in Commands
    BY <1>14, <2>1, DownFrameFields DEF ReceiveCommand
  <2> QED
    BY <1>14, <2>1, <2>2, StoreTypes DEF ReceiveCommand
<1>15. ASSUME NEW k \in Conns, ReceiveClose(k) PROVE TypeOK'
  <2>1. DaemonCloseEvent(k) /\ halted' \in SUBSET Machines
    BY <1>15 DEF ReceiveClose
  <2>2. /\ dEnd' \in [Conns -> {"open", "closed"}]
        /\ down' \in [Conns -> Seq(DownFrame)]
        /\ delivered' \in [Conns -> SUBSET Commands]
    BY <2>1, SocketTypes
  <2> QED
    BY <1>15, <2>1, <2>2, StoreTypes DEF ReceiveClose
<1>16. ASSUME NEW c, NEW n, <<c, n>> \in running, FinishCommand(c, n) PROVE TypeOK'
  <2>1. c \in Commands /\ n \in Nat
    BY <1>16
  <2>2. up' \in [Conns -> Seq(UpFrame)]
    BY <1>16, <2>1, FrameTypes, AppendProperties DEF FinishCommand
  <2> QED
    BY <1>16, <2>2, StoreTypes DEF FinishCommand
<1>17. ASSUME NEW k \in Conns, DaemonLosesSocket(k) PROVE TypeOK'
  <2>1. up' \in [Conns -> Seq(UpFrame)]
    <3>1. PICK n \in 0..Len(up[k]) : up' = [up EXCEPT ![k] = SubSeq(@, 1, n)]
      BY <1>17 DEF DaemonLosesSocket
    <3>2. SubSeq(up[k], 1, n) \in Seq(UpFrame)
      BY <3>1, SubSeqProperties
    <3> QED
      BY <3>1, <3>2
  <2>2. faults' \in Nat /\ UNCHANGED <<storeVars, planeVars, running, halted, unconfirmed, runs,
                                        byOperator, lives, revocations>>
    BY <1>17 DEF DaemonLosesSocket
  <2>3. DaemonCloseEvent(k)
    BY <1>17 DEF DaemonLosesSocket
  <2> QED
    BY <2>1, <2>2, <2>3, StoreTypes, SocketTypes
<1>18. ASSUME NEW k \in Conns, PlaneLosesSocket(k) PROVE TypeOK'
  BY <1>18, StoreTypes, SocketTypes DEF PlaneLosesSocket
<1>19. ASSUME NEW k \in Conns, PlaneNoticesClose(k) PROVE TypeOK'
  BY <1>19, StoreTypes, SocketTypes DEF PlaneNoticesClose
<1>20. ASSUME NEW k \in Conns, DaemonNoticesClose(k) PROVE TypeOK'
  BY <1>20, StoreTypes, SocketTypes DEF DaemonNoticesClose
<1>21. ASSUME NEW m \in Machines, RestartDaemon(m) PROVE TypeOK'
  BY <1>21, StoreTypes DEF RestartDaemon
<1>22. ASSUME RestartPlane PROVE TypeOK'
  <2>1. lives' \in Nat /\ faults' \in Nat
    BY <1>22 DEF RestartPlane
  <2>2. StoreTypeOK' /\ mirror' \in SUBSET Machines
    BY <1>22, StoreTypes DEF RestartPlane, Registry, StoreTypeOK
  <2>3. up' \in [Conns -> Seq(UpFrame)]
    BY <1>22 DEF RestartPlane
  <2> QED
    BY <1>22, <2>1, <2>2, <2>3 DEF RestartPlane
<1>23. ASSUME UNCHANGED vars PROVE TypeOK'
  BY <1>23, StoreTypes DEF vars
<1>24. ASSUME Finish PROVE TypeOK'
  <2>1. PICK r \in running : FinishCommand(r[1], r[2])
    BY <1>24 DEF Finish
  <2>2. r = <<r[1], r[2]>>
    OBVIOUS
  <2> QED
    BY <2>1, <2>2, <1>16
<1>25. ASSUME Operator PROVE TypeOK'
  BY <1>25, <1>8, <1>9, <1>10, <1>11, <1>12, Zenon DEF Operator
<1>26. ASSUME Fault PROVE TypeOK'
  BY <1>26, <1>17, <1>18, <1>21, <1>22, Zenon DEF Fault
<1>27. ASSUME NEW k \in Conns, PlaneStep(k) PROVE TypeOK'
  BY <1>27, <1>1, <1>2, <1>3, <1>4, <1>5, <1>6, <1>7, Zenon DEF PlaneStep
<1>28. ASSUME NEW k \in Conns, DaemonStep(k) PROVE TypeOK'
  BY <1>28, <1>14, <1>15, Zenon DEF DaemonStep
<1> QED
  BY <1>13, <1>19, <1>20, <1>23, <1>24, <1>25, <1>26, <1>27, <1>28, Zenon DEF Next

\* Every reachable state is well typed: frames carry what their kind says, a
\* registration is a socket, journals hold known commands.
THEOREM TypeCorrect == Spec => []TypeOK
<1>1. Init => TypeOK
  BY ConnAssumption DEF Init, StoreInit, TypeOK, StoreTypeOK, NoReply
<1>2. TypeOK /\ [Next]_vars => TypeOK'
  BY TypeStep
<1> QED
  BY <1>1, <1>2, PTL DEF Spec

-----------------------------------------------------------------------------
(* Registrations.                                                          *)

\* A registration is a socket of that machine that has not closed; a registered
\* open socket is the machine's registration; a revoked machine has none open;
\* the hello being served is of a registered socket.
Registrations ==
  /\ \A m \in Machines : connections[m] # NoConn =>
       /\ connections[m] \in registered
       /\ Dialer[connections[m]] = m
  /\ \A k \in registered : pEnd[k] # "closed"
  /\ OneLiveSocket
  /\ \A k \in registered : Dialer[k] \in revoked => pEnd[k] # "open"
  /\ turn # NoConn => turn \in registered

-----------------------------------------------------------------------------
(* Registrations.                                                          *)

regVars == <<connections, registered, pEnd, turn, revoked>>

\* Closing a socket only ever takes it out of "open".
LEMMA CloseSocketEffect ==
  ASSUME TypeOK, NEW k \in Conns, NEW code, CloseSocket(k, code)
  PROVE  /\ pEnd'[k] # "open"
         /\ pEnd[k] # "closed" => pEnd'[k] # "closed"
         /\ \A j \in Conns \ {k} : pEnd'[j] = pEnd[j]
<1>1. CASE pEnd[k] = "open"
  BY <1>1 DEF CloseSocket, TypeOK
<1>2. CASE pEnd[k] # "open"
  BY <1>2 DEF CloseSocket, TypeOK
<1> QED
  BY <1>1, <1>2

LEMMA RegistrationsStep ==
  TypeOK /\ Registrations /\ [Next]_vars => Registrations'
<1> SUFFICES ASSUME TypeOK, Registrations, [Next]_vars PROVE Registrations'
  OBVIOUS
<1> USE ConnAssumption
<1>1. ASSUME UNCHANGED regVars PROVE Registrations'
  BY <1>1 DEF Registrations, OneLiveSocket, regVars
<1>2. ASSUME NEW k \in Conns, RefuseHello(k) PROVE Registrations'
  <2>1. PICK code : CloseSocket(k, code)
    BY <1>2 DEF RefuseHello
  <2>2. pEnd[k] # "closed"
    BY <1>2 DEF RefuseHello, NextFrame
  <2>3. UNCHANGED <<connections, registered, turn, revoked>>
    BY <1>2 DEF RefuseHello, storeVars
  <2> QED
    BY <2>1, <2>2, <2>3, CloseSocketEffect DEF Registrations, OneLiveSocket, TypeOK
<1>3. ASSUME NEW k \in Conns, AcceptHello(k) PROVE Registrations'
  <2>1. /\ pEnd[k] # "closed" /\ Dialer[k] \notin revoked /\ ~LiveElsewhere(k)
        /\ registered' = registered \cup {k}
        /\ connections' = [connections EXCEPT ![Dialer[k]] = k]
        /\ turn' = k
        /\ UNCHANGED <<pEnd, revoked>>
    BY <1>3 DEF AcceptHello, NextFrame, Register
  <2>2. ASSUME NEW j \in registered', pEnd'[j] = "open" PROVE connections'[Dialer[j]] = j
    <3>1. CASE Dialer[j] # Dialer[k]
      BY <2>1, <2>2, <3>1 DEF Registrations, OneLiveSocket, TypeOK
    <3>2. CASE Dialer[j] = Dialer[k]
      BY <2>1, <2>2, <3>2 DEF Registrations, OneLiveSocket, TypeOK, LiveElsewhere
    <3> QED
      BY <3>1, <3>2
  <2> QED
    BY <2>1, <2>2 DEF Registrations, OneLiveSocket, TypeOK
<1>4. ASSUME NEW k \in Conns, EndReplay(k) PROVE Registrations'
  BY <1>4 DEF EndReplay, Registrations, OneLiveSocket, storeVars
<1>5. ASSUME NEW m \in Machines, OperatorRevoke(m) PROVE Registrations'
  <2>1. /\ revoked' = revoked \cup {m}
        /\ UNCHANGED <<connections, registered, turn>>
    BY <1>5 DEF OperatorRevoke, Revoke
  <2>2. CASE connections[m] = NoConn
    BY <1>5, <2>1, <2>2 DEF OperatorRevoke, Registrations, OneLiveSocket, TypeOK
  <2>3. CASE connections[m] # NoConn
    <3>1. connections[m] \in Conns /\ CloseSocket(connections[m], MachineRevoked)
      BY <1>5, <2>3 DEF OperatorRevoke, TypeOK
    <3>2. PICK k \in Conns : k = connections[m]
      BY <3>1
    <3>3. /\ pEnd'[k] # "open"
          /\ pEnd[k] # "closed" => pEnd'[k] # "closed"
          /\ \A j \in Conns \ {k} : pEnd'[j] = pEnd[j]
      BY <3>1, <3>2, CloseSocketEffect
    <3>4. /\ k \in registered /\ Dialer[k] = m
          /\ \A j \in registered : Dialer[j] = m /\ pEnd[j] = "open" => j = k
      BY <2>3, <3>2 DEF Registrations, OneLiveSocket, TypeOK
    <3>5. \A j \in registered' : pEnd'[j] # "closed"
      BY <2>1, <3>3, <3>4 DEF Registrations, TypeOK
    <3>6. OneLiveSocket'
      BY <2>1, <3>3 DEF Registrations, OneLiveSocket, TypeOK
    <3>7. \A j \in registered' : Dialer[j] \in revoked' => pEnd'[j] # "open"
      BY <2>1, <3>3, <3>4 DEF Registrations, TypeOK
    <3> QED
      BY <2>1, <3>5, <3>6, <3>7 DEF Registrations
  <2> QED
    BY <2>2, <2>3
<1>6. ASSUME NEW m \in Machines, OperatorReadmit(m) PROVE Registrations'
  BY <1>6 DEF OperatorReadmit, ClearRevocation, planeVars, Registrations, OneLiveSocket
<1>7. ASSUME NEW k \in Conns, Dial(k) PROVE Registrations'
  <2>1. /\ pEnd[k] = "closed" /\ pEnd' = [pEnd EXCEPT ![k] = "open"]
        /\ UNCHANGED <<connections, registered, turn, revoked>>
    BY <1>7 DEF Dial, storeVars
  <2> QED
    BY <2>1 DEF Registrations, OneLiveSocket, TypeOK
<1>8. ASSUME NEW k \in Conns, PlaneLosesSocket(k) \/ PlaneNoticesClose(k)
      PROVE  Registrations'
  <2>1. /\ turn = NoConn /\ PlaneCloseEvent(k)
        /\ UNCHANGED <<turn, revoked>>
    BY <1>8 DEF PlaneLosesSocket, PlaneNoticesClose, storeVars
  <2> QED
    BY <2>1 DEF PlaneCloseEvent, Registrations, OneLiveSocket, TypeOK
<1>9. ASSUME RestartPlane PROVE Registrations'
  BY <1>9 DEF RestartPlane, Registrations, OneLiveSocket
<1>10. ASSUME NEW k \in Conns, PlaneStep(k) PROVE Registrations'
  <2>1. ASSUME BeginReplay(k) \/ ReplayNext(k) PROVE UNCHANGED regVars
    BY <2>1 DEF BeginReplay, ReplayNext, ReadCommands, ReadReply, storeVars, regVars
  <2>2. ASSUME ReceiveResponse(k) \/ ReceiveAck(k) PROVE UNCHANGED regVars
    BY <2>2 DEF ReceiveResponse, ReceiveAck, RecordReply, Ack, planeVars, regVars
  <2> QED
    BY <1>1, <1>2, <1>3, <1>4, <1>10, <2>1, <2>2, Zenon DEF PlaneStep
<1>11. ASSUME NEW k \in Conns, DaemonStep(k) \/ DaemonNoticesClose(k)
       PROVE UNCHANGED regVars
  BY <1>11 DEF DaemonStep, ReceiveCommand, ReceiveClose, DaemonNoticesClose,
               planeVars, storeVars, regVars
<1>12. ASSUME Finish PROVE UNCHANGED regVars
  BY <1>12 DEF Finish, FinishCommand, planeVars, storeVars, regVars
<1>13. ASSUME Operator PROVE Registrations'
  <2>1. ASSUME NEW c \in Commands, Push(c) \/ OperatorAck(c) \/ OperatorRead(c)
        PROVE  UNCHANGED regVars
    BY <2>1 DEF Push, OperatorAck, OperatorRead, AppendCommand, Ack, planeVars, regVars
  <2> QED
    BY <1>1, <1>5, <1>6, <1>13, <2>1, Zenon DEF Operator
<1>14. ASSUME Fault PROVE Registrations'
  <2>1. ASSUME NEW k \in Conns, DaemonLosesSocket(k) PROVE UNCHANGED regVars
    BY <2>1 DEF DaemonLosesSocket, planeVars, storeVars, regVars
  <2>2. ASSUME NEW m \in Machines, RestartDaemon(m) PROVE UNCHANGED regVars
    BY <2>2 DEF RestartDaemon, planeVars, storeVars, regVars
  <2> QED
    BY <1>1, <1>8, <1>9, <1>14, <2>1, <2>2, Zenon DEF Fault
<1>15. ASSUME UNCHANGED vars PROVE UNCHANGED regVars
  BY <1>15 DEF vars, storeVars, planeVars, regVars
<1> QED
  BY <1>1, <1>7, <1>8, <1>10, <1>11, <1>12, <1>13, <1>14, <1>15, Zenon DEF Next

\* The registrations are consistent in every reachable state.
LEMMA RegistrationsInvariant == Spec => [](TypeOK /\ Registrations)
<1>1. Init => TypeOK /\ Registrations
  BY ConnAssumption
  DEF Init, StoreInit, TypeOK, StoreTypeOK, NoReply, Registrations, OneLiveSocket
<1>2. TypeOK /\ Registrations /\ [Next]_vars => (TypeOK /\ Registrations)'
  BY TypeStep, RegistrationsStep
<1> QED
  BY <1>1, <1>2, PTL DEF Spec

\* A socket whose hello was accepted and that is open is the one pushes go to,
\* whichever sockets break, in whatever order their close events arrive.
THEOREM LiveSocketIsRegistered == Spec => []OneLiveSocket
<1>1. Registrations => OneLiveSocket
  BY DEF Registrations
<1> QED
  BY <1>1, RegistrationsInvariant, PTL
-----------------------------------------------------------------------------
(* Who writes a command to a socket.                                       *)

\* A channel that stays as it is, shrinks or is emptied has no new frame.
LEMMA NoWrite ==
  ASSUME TypeOK, NEW k \in Conns, NEW c,
         \/ down'[k] = down[k]
         \/ down'[k] = <<>>
         \/ down[k] # <<>> /\ down'[k] = Tail(down[k])
  PROVE  ~Writes(k, c)
<1>1. Len(down[k]) \in Nat /\ down[k] \in Seq(DownFrame)
  BY LenProperties DEF TypeOK
<1>2. down'[k] = down[k] => ~Writes(k, c)
  BY <1>1 DEF Writes
<1>3. down'[k] = <<>> => ~Writes(k, c)
  BY <1>1, EmptySeq DEF Writes
<1>4. down[k] # <<>> /\ down'[k] = Tail(down[k]) => ~Writes(k, c)
  BY <1>1, HeadTailProperties DEF Writes
<1> QED
  BY <1>2, <1>3, <1>4

LEMMA CloseSocketWritesNothing ==
  ASSUME TypeOK, NEW j \in Conns, NEW k \in Conns, NEW c, NEW code, CloseSocket(j, code)
  PROVE  ~Writes(k, c)
<1>1. CASE pEnd[j] = "open" /\ dEnd[j] = "open" /\ j = k
  <2>1. down'[k] = Append(down[k], Close(code))
    BY <1>1 DEF CloseSocket, TypeOK
  <2>2. Len(down[k]) \in Nat /\ Len(down'[k]) = Len(down[k]) + 1
        /\ down'[k][Len(down[k]) + 1] = Close(code)
    BY <2>1, AppendProperties DEF TypeOK
  <2>3. Close(code).type # Command(c).type
    BY DEF Close, Command
  <2> QED
    BY <2>2, <2>3 DEF Writes
<1>2. CASE ~(pEnd[j] = "open" /\ dEnd[j] = "open" /\ j = k)
  <2>1. down'[k] = down[k]
    BY <1>2 DEF CloseSocket, TypeOK
  <2> QED
    BY <2>1, NoWrite
<1> QED
  BY <1>1, <1>2

LEMMA SendCommandWrites ==
  ASSUME TypeOK, NEW j \in Conns, NEW d, NEW k \in Conns, NEW c,
         SendCommand(j, d), Writes(k, c)
  PROVE  j = k /\ d = c /\ pEnd[k] = "open"
<1>1. CASE pEnd[j] = "open" /\ dEnd[j] = "open" /\ j = k
  <2>1. down'[k] = Append(down[k], Command(d))
    BY <1>1 DEF SendCommand, TypeOK
  <2>2. Len(down[k]) \in Nat /\ Len(down'[k]) = Len(down[k]) + 1
        /\ down'[k][Len(down[k]) + 1] = Command(d)
    BY <2>1, AppendProperties DEF TypeOK
  <2>3. Command(c).cmd = c /\ Command(d).cmd = d
    BY DEF Command
  <2> QED
    BY <1>1, <2>2, <2>3 DEF Writes
<1>2. CASE ~(pEnd[j] = "open" /\ dEnd[j] = "open" /\ j = k)
  <2>1. down'[k] = down[k]
    BY <1>2 DEF SendCommand, TypeOK
  <2> QED
    BY <2>1, NoWrite
<1> QED
  BY <1>1, <1>2

\* Only a push and a replay write commands, each to an open socket, and a replay
\* only when the lookup found no reply.
LEMMA WhoWrites ==
  ASSUME TypeOK, [Next]_vars, NEW k \in Conns, NEW c \in Commands, Writes(k, c)
  PROVE  /\ pEnd[k] = "open"
         /\ \/ Push(c) /\ connections[Target[c]] = k
            \/ /\ ReplayNext(k) /\ c = log[Dialer[k]][cursor]
               /\ ReadReply(c) /\ replies'[c] = NoReply
<1> DEFINE Goal == /\ pEnd[k] = "open"
                   /\ \/ Push(c) /\ connections[Target[c]] = k
                      \/ /\ ReplayNext(k) /\ c = log[Dialer[k]][cursor]
                         /\ ReadReply(c) /\ replies'[c] = NoReply
<1>1. ASSUME UNCHANGED down PROVE FALSE
  BY <1>1, NoWrite
<1>2. ASSUME NEW j \in Conns, PlaneStep(j) PROVE Goal
  <2>1. ASSUME AcceptHello(j) \/ BeginReplay(j) \/ EndReplay(j)
                 \/ ReceiveResponse(j) \/ ReceiveAck(j)
        PROVE  UNCHANGED down
    BY <2>1 DEF AcceptHello, BeginReplay, EndReplay, ReceiveResponse, ReceiveAck, netVars
  <2>2. ASSUME RefuseHello(j) PROVE FALSE
    BY <2>2, CloseSocketWritesNothing DEF RefuseHello
  <2>3. ASSUME ReplayNext(j) PROVE Goal
    <3> DEFINE d == log[Dialer[j]][cursor]
    <3>1. ReadReply(d) /\ replies'[d] = NoReply /\ SendCommand(j, d)
      BY <1>1, <2>3 DEF ReplayNext
    <3>2. j = k /\ d = c /\ pEnd[k] = "open"
      BY <3>1, SendCommandWrites
    <3> QED
      BY <2>3, <3>1, <3>2
  <2> QED
    BY <1>1, <1>2, <2>1, <2>2, <2>3, Zenon DEF PlaneStep
<1>3. ASSUME NEW j \in Conns, DaemonStep(j) \/ DaemonNoticesClose(j) PROVE FALSE
  <2>1. CASE ReceiveCommand(j)
    BY <2>1, NoWrite DEF ReceiveCommand, TypeOK
  <2>2. CASE ReceiveClose(j) \/ DaemonNoticesClose(j)
    BY <2>2, NoWrite DEF ReceiveClose, DaemonNoticesClose, DaemonCloseEvent, TypeOK
  <2> QED
    BY <1>3, <2>1, <2>2 DEF DaemonStep
<1>4. ASSUME NEW j \in Conns, Dial(j) \/ PlaneNoticesClose(j) PROVE UNCHANGED down
  BY <1>4 DEF Dial, PlaneNoticesClose
<1>5. ASSUME Finish PROVE UNCHANGED down
  BY <1>5 DEF Finish, FinishCommand
<1>6. ASSUME NEW d \in Commands, Push(d) PROVE Goal
  <2>1. connections[Target[d]] # NoConn /\ SendCommand(connections[Target[d]], d)
    BY <1>1, <1>6 DEF Push
  <2>2. connections[Target[d]] \in Conns
    BY <2>1, TargetAssumption DEF TypeOK
  <2>3. connections[Target[d]] = k /\ d = c /\ pEnd[k] = "open"
    BY <2>1, <2>2, SendCommandWrites
  <2> QED
    BY <1>6, <2>3
<1>7. ASSUME NEW m \in Machines, OperatorRevoke(m) PROVE FALSE
  <2>1. CASE connections[m] = NoConn
    BY <1>1, <1>7, <2>1 DEF OperatorRevoke
  <2>2. CASE connections[m] # NoConn
    BY <1>7, <2>2, CloseSocketWritesNothing DEF OperatorRevoke, TypeOK
  <2> QED
    BY <2>1, <2>2
<1>8. ASSUME Operator PROVE Goal
  <2>1. ASSUME NEW d \in Commands, OperatorAck(d) \/ OperatorRead(d) PROVE UNCHANGED down
    BY <2>1 DEF OperatorAck, OperatorRead, netVars
  <2>2. ASSUME NEW m \in Machines, OperatorReadmit(m) PROVE UNCHANGED down
    BY <2>2 DEF OperatorReadmit, netVars
  <2> QED
    BY <1>1, <1>6, <1>7, <1>8, <2>1, <2>2, Zenon DEF Operator
<1>9. ASSUME Fault PROVE FALSE
  <2>1. ASSUME NEW j \in Conns, DaemonLosesSocket(j) PROVE FALSE
    BY <2>1, NoWrite DEF DaemonLosesSocket, DaemonCloseEvent, TypeOK
  <2>2. ASSUME NEW j \in Conns, PlaneLosesSocket(j) PROVE UNCHANGED down
    BY <2>2 DEF PlaneLosesSocket
  <2>3. ASSUME NEW m \in Machines, RestartDaemon(m) PROVE FALSE
    BY <2>3, NoWrite DEF RestartDaemon
  <2>4. ASSUME RestartPlane PROVE UNCHANGED down
    BY <2>4 DEF RestartPlane
  <2> QED
    BY <1>1, <1>9, <2>1, <2>2, <2>3, <2>4, Zenon DEF Fault
<1>10. ASSUME UNCHANGED vars PROVE UNCHANGED down
  BY <1>10 DEF vars, netVars
<1> QED
  BY <1>1, <1>2, <1>3, <1>4, <1>5, <1>8, <1>9, <1>10, Zenon DEF Next

\* A revoked machine gets no command, whether a push or a replay races the
\* revocation and however many sockets it has.
THEOREM RevokedMachineGetsNothing == Spec => RevokedGetsNothing
<1>1. ASSUME TypeOK, Registrations, [Next]_vars,
             NEW k \in Conns, NEW c \in Commands, Writes(k, c)
      PROVE  Dialer[k] \notin revoked
  <2>1. CASE connections[Target[c]] = k
    BY <1>1, <2>1, WhoWrites, TargetAssumption, ConnAssumption DEF Registrations
  <2>2. CASE ReplayNext(k)
    BY <1>1, <2>2, WhoWrites, ConnAssumption DEF Registrations, ReplayNext
  <2> QED
    BY <1>1, <2>1, <2>2, WhoWrites
<1>2. TypeOK /\ Registrations /\ [Next]_vars
        => [\A k \in Conns, c \in Commands : Writes(k, c) => Dialer[k] \notin revoked]_vars
  BY <1>1
<1> QED
  BY <1>2, RegistrationsInvariant, PTL DEF Spec, RevokedGetsNothing
-----------------------------------------------------------------------------
(* What GET /machines lists.                                               *)

\* The mirror holds registered machines only, and what has a connection has a
\* record (it may be revoked by now).
MirrorInv ==
  /\ mirror \subseteq Registry
  /\ \A m \in Machines : connections[m] # NoConn => m \in records

\* Steps that leave the registry and its mirror alone and connect nothing.
ListsNoMore ==
  /\ UNCHANGED <<mirror, records, revoked>>
  /\ \A m \in Machines : connections'[m] \in {connections[m], NoConn}

LEMMA QuietLists ==
  ASSUME TypeOK
  PROVE  /\ \A k \in Conns :
              (\/ RefuseHello(k) \/ BeginReplay(k) \/ ReplayNext(k) \/ EndReplay(k)
               \/ ReceiveResponse(k) \/ ReceiveAck(k) \/ DaemonStep(k) \/ Dial(k)
               \/ PlaneNoticesClose(k) \/ DaemonNoticesClose(k)
               \/ DaemonLosesSocket(k) \/ PlaneLosesSocket(k))
              => ListsNoMore
         /\ \A c \in Commands :
              Push(c) \/ OperatorAck(c) \/ OperatorRead(c) => ListsNoMore
         /\ \A m \in Machines : RestartDaemon(m) => ListsNoMore
         /\ Finish => ListsNoMore
<1>1. ASSUME NEW k \in Conns,
             RefuseHello(k) \/ BeginReplay(k) \/ ReplayNext(k) \/ EndReplay(k)
      PROVE  ListsNoMore
  BY <1>1 DEF RefuseHello, BeginReplay, ReplayNext, EndReplay, ReadCommands,
              ReadReply, storeVars, ListsNoMore
<1>2. ASSUME NEW k \in Conns, ReceiveResponse(k) \/ ReceiveAck(k)
      PROVE  ListsNoMore
  BY <1>2 DEF ReceiveResponse, ReceiveAck, RecordReply, Ack, planeVars, ListsNoMore
<1>3. ASSUME NEW k \in Conns, DaemonStep(k) \/ Dial(k) \/ DaemonNoticesClose(k)
      PROVE  ListsNoMore
  BY <1>3 DEF DaemonStep, ReceiveCommand, ReceiveClose, Dial, DaemonNoticesClose,
              planeVars, storeVars, ListsNoMore
<1>4. ASSUME NEW k \in Conns,
             PlaneNoticesClose(k) \/ DaemonLosesSocket(k) \/ PlaneLosesSocket(k)
      PROVE  ListsNoMore
  BY <1>4 DEF PlaneNoticesClose, DaemonLosesSocket, PlaneLosesSocket,
              PlaneCloseEvent, planeVars, storeVars, ListsNoMore
<1>5. ASSUME NEW c \in Commands, Push(c) \/ OperatorAck(c) \/ OperatorRead(c)
      PROVE  ListsNoMore
  BY <1>5 DEF Push, OperatorAck, OperatorRead, AppendCommand, Ack, planeVars,
              ListsNoMore
<1>6. ASSUME NEW m \in Machines, RestartDaemon(m) PROVE ListsNoMore
  BY <1>6 DEF RestartDaemon, planeVars, storeVars, ListsNoMore
<1>7. ASSUME Finish PROVE ListsNoMore
  BY <1>7 DEF Finish, FinishCommand, planeVars, storeVars, ListsNoMore
<1> QED
  BY <1>1, <1>2, <1>3, <1>4, <1>5, <1>6, <1>7

LEMMA MirrorStep == TypeOK /\ MirrorInv /\ [Next]_vars => MirrorInv'
<1> SUFFICES ASSUME TypeOK, MirrorInv, [Next]_vars PROVE MirrorInv'
  OBVIOUS
<1>1. ASSUME ListsNoMore PROVE MirrorInv'
  BY <1>1 DEF MirrorInv, Registry, ListsNoMore
<1>2. ASSUME NEW k \in Conns, AcceptHello(k) PROVE MirrorInv'
  <2>1. /\ records' = records \cup {Dialer[k]} /\ revoked' = revoked
        /\ Dialer[k] \notin revoked /\ mirror' = mirror \cup {Dialer[k]}
        /\ connections' = [connections EXCEPT ![Dialer[k]] = k]
    BY <1>2 DEF AcceptHello, Register
  <2> QED
    BY <2>1 DEF MirrorInv, Registry, TypeOK
<1>3. ASSUME NEW m \in Machines, OperatorRevoke(m) PROVE MirrorInv'
  BY <1>3 DEF OperatorRevoke, Revoke, MirrorInv, Registry
<1>4. ASSUME NEW m \in Machines, OperatorReadmit(m) PROVE MirrorInv'
  BY <1>4 DEF OperatorReadmit, ClearRevocation, planeVars, MirrorInv, Registry
<1>5. ASSUME RestartPlane PROVE MirrorInv'
  BY <1>5 DEF RestartPlane, Reopen, MirrorInv, Registry
<1>6. ASSUME UNCHANGED vars PROVE ListsNoMore
  BY <1>6 DEF vars, storeVars, planeVars, ListsNoMore
<1> QED
  BY <1>1, <1>2, <1>3, <1>4, <1>5, <1>6, QuietLists, Zenon
  DEF Next, PlaneStep, Operator, Fault

\* A machine that GET /machines lists, from the mirror or from a connection, is
\* registered and not revoked, whatever hellos, revocations, re-admissions and
\* restarts came before; or it is revoked and the plane waits for the close event
\* of the socket it hung up on.
THEOREM ListedMachinesAreRegistered == Spec => []ListedIsRegistered
<1>1. Init => MirrorInv
  BY DEF Init, MirrorInv
<1>2. ASSUME TypeOK, Registrations, MirrorInv PROVE ListedIsRegistered
  <2>1. SUFFICES ASSUME NEW m \in Machines, m \notin mirror, connections[m] # NoConn,
                        pEnd[connections[m]] # "closing"
                 PROVE  m \in Registry
    BY <1>2 DEF MirrorInv, ListedIsRegistered, Listed, HungUp, Registry
  <2>2. /\ connections[m] \in registered /\ Dialer[connections[m]] = m
        /\ connections[m] \in Conns
    BY <1>2, <2>1 DEF Registrations, TypeOK
  <2>3. pEnd[connections[m]] = "open"
    BY <1>2, <2>1, <2>2 DEF Registrations, TypeOK
  <2> QED
    BY <1>2, <2>1, <2>2, <2>3 DEF Registrations, MirrorInv, Registry
<1> QED
  BY <1>1, <1>2, MirrorStep, RegistrationsInvariant, PTL DEF Spec

-----------------------------------------------------------------------------
(* The life of a command: which reply, ack or repetition of it can exist.  *)


\* Commands sit in the log of their machine.
LogInPlace ==
  \A m \in Machines : \A i \in 1..Len(log[m]) : Target[log[m][i]] = m

\* Only a submitted command is in flight, and only a submitted one has run.
FlightIsSubmitted ==
  \A k \in Conns : \A i \in 1..Len(down[k]) :
    down[k][i].type = "command" => InLog(down[k][i].cmd)

RunIsSubmitted == \A c \in Commands : runs[c] > 0 => InLog(c)

\* A reply, wherever it is, comes from a run that took place.
RunningIsReal == \A r \in running : r[2] > 0 /\ runs[r[1]] > 0

ResponseIsReal ==
  \A k \in Conns : \A i \in 1..Len(up[k]) :
    up[k][i].type = "response" => up[k][i].run > 0 /\ runs[up[k][i].cmd] > 0

ReplyIsReal ==
  \A c \in Commands : replies[c] # NoReply \/ replyFile[c] # NoReply => runs[c] > 0

\* In memory a loaded machine has every reply its journal has.
LoadedHasReplies ==
  \A c \in Commands :
    Target[c] \in loaded /\ replyFile[c] # NoReply => replies[c] # NoReply

History ==
  /\ LogInPlace /\ FlightIsSubmitted /\ RunIsSubmitted
  /\ RunningIsReal /\ ResponseIsReal /\ ReplyIsReal
  /\ LoadedHasReplies
  /\ AckFollowsReply

-----------------------------------------------------------------------------
(* Steps that add nothing to a channel.                                    *)

\* A channel to the plane keeps a prefix, loses a hello or an ack, or starts anew.
UpShrinks ==
  \A k \in Conns :
    \/ up'[k] = up[k] \/ up'[k] = <<>> \/ up'[k] = <<Hello>>
    \/ \E n \in 0..Len(up[k]) : up'[k] = SubSeq(up[k], 1, n)
    \/ up[k] # <<>> /\ Head(up[k]).type # "response" /\ up'[k] = Tail(up[k])

\* A channel to a daemon loses frames or gets a close frame.
DownShrinks ==
  \A k \in Conns :
    \/ down'[k] = down[k] \/ down'[k] = <<>>
    \/ down[k] # <<>> /\ down'[k] = Tail(down[k])
    \/ \E code \in {MachineRevoked, DuplicateMachine} : down'[k] = Append(down[k], Close(code))

\* Nothing that was stored, submitted or run is forgotten.
Keeps ==
  /\ \A c \in Commands : InLog(c) => InLog(c)'
  /\ \A c \in Commands : runs[c] > 0 => runs'[c] > 0
  /\ \A c \in Commands : replies[c] # NoReply => replies'[c] # NoReply

LEMMA UpShrinksKeeps ==
  ASSUME TypeOK, TypeOK', AckFollowsReply, ResponseIsReal, UpShrinks, Keeps
  PROVE  AckFollowsReply' /\ ResponseIsReal'
<1>1. ASSUME NEW k \in Conns
      PROVE  /\ \A i \in 1..Len(up'[k]) : up'[k][i].type = "ack" =>
                  \/ replies'[up'[k][i].cmd] # NoReply
                  \/ \E j \in 1..(i - 1) : /\ up'[k][j].type = "response"
                                          /\ up'[k][j].cmd = up'[k][i].cmd
             /\ \A i \in 1..Len(up'[k]) : up'[k][i].type = "response" =>
                  up'[k][i].run > 0 /\ runs'[up'[k][i].cmd] > 0
  <2>0. up[k] \in Seq(UpFrame) /\ Len(up[k]) \in Nat
    BY LenProperties DEF TypeOK
  <2>1. ASSUME NEW i \in 1..Len(up[k]), NEW f, f = up[k][i]
        PROVE  /\ f.type = "ack" => f.cmd \in Commands
               /\ f.type = "response" => f.cmd \in Commands
    BY <2>0, <2>1, ElementOfSeq, UpFrameFields
  <2>2. CASE \E n \in 0..Len(up[k]) : up'[k] = SubSeq(up[k], 1, n)
    <3>1. PICK n \in 0..Len(up[k]) : up'[k] = SubSeq(up[k], 1, n)
      BY <2>2
    <3>2. Len(up'[k]) = n /\ \A i \in 1..n : up'[k][i] = up[k][i]
      BY <2>0, <3>1, SubSeqProperties, ElementOfSeq
    <3>3. ASSUME NEW i \in 1..n, up[k][i].type = "response"
          PROVE  up[k][i].run > 0 /\ runs'[up[k][i].cmd] > 0
      <4>1. i \in 1..Len(up[k]) /\ up[k][i].cmd \in Commands
        BY <2>0, <2>1, <3>3
      <4> QED
        BY <3>3, <4>1 DEF ResponseIsReal, Keeps
    <3>4. ASSUME NEW i \in 1..n, up[k][i].type = "ack", replies'[up[k][i].cmd] = NoReply
          PROVE  \E j \in 1..(i - 1) : up[k][j].type = "response" /\ up[k][j].cmd = up[k][i].cmd
      <4>1. i \in 1..Len(up[k]) /\ up[k][i].cmd \in Commands
        BY <2>0, <2>1, <3>4
      <4>2. replies[up[k][i].cmd] = NoReply
        BY <3>4, <4>1 DEF Keeps
      <4> QED
        BY <3>4, <4>1, <4>2 DEF AckFollowsReply
    <3>5. ASSUME NEW i \in 1..Len(up'[k]), up'[k][i].type = "response"
          PROVE  up'[k][i].run > 0 /\ runs'[up'[k][i].cmd] > 0
      <4>1. i \in 1..n /\ up'[k][i] = up[k][i]
        BY <3>2
      <4> QED
        BY <3>3, <3>5, <4>1
    <3>6. ASSUME NEW i \in 1..Len(up'[k]), up'[k][i].type = "ack",
                 replies'[up'[k][i].cmd] = NoReply
          PROVE  \E j \in 1..(i - 1) : /\ up'[k][j].type = "response"
                                       /\ up'[k][j].cmd = up'[k][i].cmd
      <4>1. i \in 1..n /\ up'[k][i] = up[k][i]
        BY <3>2
      <4>2. PICK j \in 1..(i - 1) : up[k][j].type = "response" /\ up[k][j].cmd = up[k][i].cmd
        BY <3>4, <3>6, <4>1
      <4>3. j \in 1..n
        BY <3>1, <4>1, <4>2
      <4>4. up'[k][j] = up[k][j]
        BY <3>2, <4>3
      <4> QED
        BY <4>1, <4>2, <4>4
    <3> QED
      BY <3>5, <3>6
  <2>3. CASE up'[k] = <<Hello>>
    BY <2>3 DEF Hello
  <2>4. CASE up[k] # <<>> /\ Head(up[k]).type # "response" /\ up'[k] = Tail(up[k])
    <3>1. /\ Len(up'[k]) = Len(up[k]) - 1
          /\ \A i \in 1..Len(up'[k]) : up'[k][i] = up[k][i + 1]
      BY <2>0, <2>4, HeadTailProperties
    <3>2. up[k][1].type # "response"
      BY <2>0, <2>4
    <3>3. ASSUME NEW i \in 1..Len(up'[k]), up'[k][i].type = "ack",
                 replies'[up'[k][i].cmd] = NoReply
          PROVE  \E j \in 1..(i - 1) : /\ up'[k][j].type = "response"
                                      /\ up'[k][j].cmd = up'[k][i].cmd
      <4>1. i + 1 \in 1..Len(up[k]) /\ up[k][i + 1] = up'[k][i]
        BY <2>0, <3>1
      <4>2. PICK j \in 1..i : up[k][j].type = "response" /\ up[k][j].cmd = up[k][i + 1].cmd
        BY <2>0, <2>1, <3>3, <4>1 DEF AckFollowsReply, Keeps
      <4>3. j # 1
        BY <3>2, <4>2
      <4>4. j - 1 \in 1..(i - 1) /\ up'[k][j - 1] = up[k][j]
        BY <2>0, <3>1, <4>2, <4>3
      <4> QED
        BY <4>1, <4>2, <4>4
    <3>4. ASSUME NEW i \in 1..Len(up'[k]), up'[k][i].type = "response"
          PROVE  up'[k][i].run > 0 /\ runs'[up'[k][i].cmd] > 0
      <4>1. i + 1 \in 1..Len(up[k]) /\ up[k][i + 1] = up'[k][i]
        BY <2>0, <3>1
      <4> QED
        BY <2>1, <3>4, <4>1 DEF ResponseIsReal, Keeps
    <3> QED
      BY <3>3, <3>4
  <2>5. CASE up'[k] = up[k]
    BY <2>1, <2>5 DEF AckFollowsReply, ResponseIsReal, Keeps
  <2>6. CASE up'[k] = <<>>
    BY <2>6
  <2> QED
    BY <2>2, <2>3, <2>4, <2>5, <2>6 DEF UpShrinks
<1> QED
  BY <1>1 DEF AckFollowsReply, ResponseIsReal

LEMMA DownShrinksKeeps ==
  ASSUME TypeOK, TypeOK', FlightIsSubmitted, DownShrinks, Keeps
  PROVE  FlightIsSubmitted'
<1> DEFINE LoggedNext(c) == \E n \in 1..Len(log'[Target[c]]) : log'[Target[c]][n] = c
<1>1. SUFFICES ASSUME NEW k \in Conns, NEW i \in 1..Len(down'[k]), down'[k][i].type = "command"
               PROVE  LoggedNext(down'[k][i].cmd)
  BY DEF FlightIsSubmitted, InLog
<1>2. down[k] \in Seq(DownFrame) /\ Len(down[k]) \in Nat
  BY LenProperties DEF TypeOK
<1>3. SUFFICES \E j \in 1..Len(down[k]) : down[k][j] = down'[k][i]
  <2>1. PICK j \in 1..Len(down[k]) : down[k][j] = down'[k][i]
    BY <1>3
  <2>2. down'[k][i].cmd \in Commands
    BY <1>1, <1>2, <2>1, ElementOfSeq, DownFrameFields
  <2>3. InLog(down'[k][i].cmd)
    BY <1>1, <2>1 DEF FlightIsSubmitted
  <2>4. \A c \in Commands : InLog(c) => LoggedNext(c)
    BY DEF Keeps, InLog
  <2> QED
    BY <2>2, <2>3, <2>4
<1>4. CASE down'[k] = down[k] \/ down'[k] = <<>>
  BY <1>4
<1>5. CASE down[k] # <<>> /\ down'[k] = Tail(down[k])
  BY <1>2, <1>5, HeadTailProperties
<1>6. CASE \E code \in {MachineRevoked, DuplicateMachine} : down'[k] = Append(down[k], Close(code))
  <2>1. PICK code \in {MachineRevoked, DuplicateMachine} : down'[k] = Append(down[k], Close(code))
    BY <1>6
  <2>2. /\ Len(down'[k]) = Len(down[k]) + 1
        /\ \A j \in 1..Len(down[k]) : down'[k][j] = down[k][j]
        /\ down'[k][Len(down[k]) + 1] = Close(code)
    BY <1>2, <2>1, FrameTypes, AppendProperties
  <2>3. Close(code).type # "command"
    BY DEF Close
  <2> QED
    BY <1>1, <1>2, <2>2, <2>3
<1> QED
  BY <1>4, <1>5, <1>6 DEF DownShrinks
-----------------------------------------------------------------------------
(* The steps that change the history of no command.                        *)

Quiet ==
  /\ UNCHANGED <<log, runs, replyFile>>
  /\ running' \subseteq running
  /\ UNCHANGED <<loaded, replies>> \/ \E ms \in SUBSET Machines : LoadMachines(ms)
  /\ UpShrinks /\ DownShrinks

LEMMA LoadKeepsReplies ==
  ASSUME TypeOK, LoadedHasReplies, UNCHANGED replyFile,
         UNCHANGED <<loaded, replies>> \/ \E ms \in SUBSET Machines : LoadMachines(ms)
  PROVE  /\ LoadedHasReplies'
         /\ \A c \in Commands : /\ replies[c] # NoReply => replies'[c] # NoReply
                                /\ replies'[c] # NoReply => \/ replies[c] # NoReply
                                                            \/ replyFile[c] # NoReply
<1>1. CASE UNCHANGED <<loaded, replies>>
  BY <1>1 DEF LoadedHasReplies
<1>2. ASSUME NEW ms \in SUBSET Machines, LoadMachines(ms)
      PROVE  /\ LoadedHasReplies'
             /\ \A c \in Commands : /\ replies[c] # NoReply => replies'[c] # NoReply
                                    /\ replies'[c] # NoReply => \/ replies[c] # NoReply
                                                                \/ replyFile[c] # NoReply
  BY <1>2 DEF LoadMachines, RepliesAfterLoad, LoadedHasReplies
<1> QED
  BY <1>1, <1>2

LEMMA QuietStep ==
  ASSUME TypeOK, TypeOK', History, Quiet
  PROVE  History'
<1> USE DEF History
<1>1. LoadedHasReplies' /\ Keeps /\ ReplyIsReal'
  BY LoadKeepsReplies DEF Quiet, Keeps, InLog, ReplyIsReal
<1>2. AckFollowsReply' /\ ResponseIsReal'
  BY <1>1, UpShrinksKeeps DEF Quiet
<1>3. FlightIsSubmitted'
  BY <1>1, DownShrinksKeeps DEF Quiet
<1>4. LogInPlace' /\ RunIsSubmitted' /\ RunningIsReal'
  BY DEF Quiet, LogInPlace, RunIsSubmitted, RunningIsReal, InLog
<1> QED
  BY <1>1, <1>2, <1>3, <1>4

LEMMA QuietActions ==
  ASSUME TypeOK
  PROVE  /\ \A k \in Conns : (RefuseHello(k) \/ AcceptHello(k) \/ BeginReplay(k)
              \/ EndReplay(k) \/ ReceiveAck(k) \/ ReceiveClose(k)
              \/ Dial(k) \/ PlaneNoticesClose(k) \/ DaemonNoticesClose(k)
              \/ DaemonLosesSocket(k) \/ PlaneLosesSocket(k)) => Quiet
         /\ \A c \in Commands : OperatorAck(c) \/ OperatorRead(c) => Quiet
         /\ \A m \in Machines : OperatorRevoke(m) \/ OperatorReadmit(m)
                                  \/ RestartDaemon(m) => Quiet
         /\ UNCHANGED vars => Quiet
<1> USE ConnAssumption, TargetAssumption
<1> USE DEF storeVars, planeVars, daemonVars, netVars, auxVars
<1>1. ASSUME NEW k \in Conns, NEW code \in {MachineRevoked, DuplicateMachine}, CloseSocket(k, code)
      PROVE  DownShrinks
  BY <1>1 DEF CloseSocket, DownShrinks, TypeOK
<1>2. ASSUME NEW k \in Conns, DaemonCloseEvent(k) PROVE DownShrinks
  BY <1>2 DEF DaemonCloseEvent, DownShrinks, TypeOK
<1>3. ASSUME NEW k \in Conns, PlaneCloseEvent(k) PROVE UpShrinks
  BY <1>3 DEF PlaneCloseEvent, UpShrinks, TypeOK
<1>4. ASSUME NEW k \in Conns, NEW type, NextFrame(k, type), type # "response" PROVE UpShrinks
  BY <1>4 DEF NextFrame, UpShrinks, TypeOK
<1>5. UNCHANGED up => UpShrinks
  BY DEF UpShrinks
<1>6. UNCHANGED down => DownShrinks
  BY DEF DownShrinks
<1>7. ASSUME NEW k \in Conns, RefuseHello(k) PROVE Quiet
  BY <1>7, <1>1, <1>4 DEF RefuseHello, Quiet
<1>8. ASSUME NEW k \in Conns, AcceptHello(k) PROVE Quiet
  BY <1>8, <1>4, <1>6 DEF AcceptHello, Register, Quiet
<1>9. ASSUME NEW k \in Conns, BeginReplay(k) PROVE Quiet
  BY <1>9, <1>5, <1>6 DEF BeginReplay, ReadCommands, Quiet, TypeOK
<1>10. ASSUME NEW k \in Conns, EndReplay(k) PROVE Quiet
  BY <1>10, <1>5, <1>6 DEF EndReplay, Quiet
<1>11. ASSUME NEW k \in Conns, ReceiveAck(k) PROVE Quiet
  BY <1>11, <1>4, <1>6 DEF ReceiveAck, Ack, Quiet
<1>12. ASSUME NEW k \in Conns, ReceiveClose(k) \/ DaemonNoticesClose(k) PROVE Quiet
  BY <1>12, <1>2, <1>5 DEF ReceiveClose, DaemonNoticesClose, Quiet
<1>13. ASSUME NEW k \in Conns, Dial(k) PROVE Quiet
  BY <1>13, <1>6 DEF Dial, UpShrinks, Quiet, TypeOK
<1>14. ASSUME NEW k \in Conns, PlaneNoticesClose(k) \/ PlaneLosesSocket(k) PROVE Quiet
  BY <1>14, <1>3, <1>6 DEF PlaneNoticesClose, PlaneLosesSocket, Quiet
<1>15. ASSUME NEW k \in Conns, DaemonLosesSocket(k) PROVE Quiet
  <2>1. UpShrinks
    BY <1>15 DEF DaemonLosesSocket, UpShrinks, TypeOK
  <2> QED
    BY <1>15, <1>2, <2>1 DEF DaemonLosesSocket, Quiet
<1>16. ASSUME NEW c \in Commands, OperatorAck(c) PROVE Quiet
  BY <1>16, <1>5, <1>6 DEF OperatorAck, Ack, Quiet
<1>17. ASSUME NEW c \in Commands, OperatorRead(c) PROVE Quiet
  <2>1. PICK ms : LoadMachines(ms) /\ ms \in SUBSET Machines
    <3> DEFINE more == IF InLog(c) THEN LoadForReply(c, RepliesAfterLoad({Target[c]})) ELSE {}
    <3>1. LoadMachines({Target[c]} \cup more)
      BY <1>17 DEF OperatorRead
    <3>2. {Target[c]} \cup more \in SUBSET Machines
      BY DEF LoadForReply, MachinesWithReplies
    <3> QED
      BY <3>1, <3>2
  <2> QED
    BY <1>17, <1>5, <1>6, <2>1 DEF OperatorRead, Quiet
<1>18. ASSUME NEW m \in Machines, OperatorRevoke(m) PROVE Quiet
  <2>1. DownShrinks
    BY <1>18, <1>1, <1>6 DEF OperatorRevoke, TypeOK
  <2> QED
    BY <1>18, <1>5, <2>1 DEF OperatorRevoke, Revoke, Quiet
<1>19. ASSUME NEW m \in Machines, OperatorReadmit(m) PROVE Quiet
  BY <1>19, <1>5, <1>6 DEF OperatorReadmit, ClearRevocation, Quiet
<1>20. ASSUME NEW m \in Machines, RestartDaemon(m) PROVE Quiet
  <2>1. DownShrinks
    BY <1>20 DEF RestartDaemon, DownShrinks
  <2> QED
    BY <1>20, <1>5, <2>1 DEF RestartDaemon, Quiet
<1>21. UNCHANGED vars => Quiet
  BY <1>5, <1>6 DEF vars, Quiet
<1> QED
  BY <1>7, <1>8, <1>9, <1>10, <1>11, <1>12, <1>13, <1>14, <1>15, <1>16, <1>17,
     <1>18, <1>19, <1>20, <1>21
-----------------------------------------------------------------------------
(* The steps that do.                                                      *)

\* A submitted command stays submitted, and the new one is submitted too.
LEMMA PushSubmits ==
  ASSUME TypeOK, LogInPlace, NEW c \in Commands, AppendCommand(c)
  PROVE  /\ LogInPlace'
         /\ \A d \in Commands : InLog(d)' <=> InLog(d) \/ d = c
<1> DEFINE m == Target[c]
<1>1. m \in Machines /\ log[m] \in Seq(Commands) /\ Len(log[m]) \in Nat
  BY TargetAssumption, LenProperties DEF TypeOK, StoreTypeOK
<1>2. /\ log'[m] = Append(log[m], c)
      /\ \A n \in Machines \ {m} : log'[n] = log[n]
  BY <1>1 DEF AppendCommand, TypeOK, StoreTypeOK
<1>3. /\ Len(log'[m]) = Len(log[m]) + 1
      /\ \A i \in 1..Len(log[m]) : log'[m][i] = log[m][i]
      /\ log'[m][Len(log[m]) + 1] = c
  BY <1>1, <1>2, AppendProperties
<1>4. LogInPlace'
  <2>1. ASSUME NEW n \in Machines, NEW i \in 1..Len(log'[n]) PROVE Target[log'[n][i]] = n
    <3>1. CASE n = m
      <4>1. i = Len(log[m]) + 1 => log'[m][i] = c
        BY <1>3
      <4>2. i \in 1..Len(log[m]) => log'[m][i] = log[m][i] /\ Target[log[m][i]] = m
        BY <1>1, <1>3 DEF LogInPlace
      <4>3. i = Len(log[m]) + 1 \/ i \in 1..Len(log[m])
        BY <1>1, <1>3, <3>1
      <4> QED
        BY <3>1, <4>1, <4>2, <4>3
    <3>2. CASE n # m
      BY <1>2, <3>2 DEF LogInPlace
    <3> QED
      BY <3>1, <3>2
  <2> QED
    BY <2>1 DEF LogInPlace
<1>5. ASSUME NEW d \in Commands PROVE InLog(d)' <=> InLog(d) \/ d = c
  <2>1. CASE Target[d] = m
    <3>1. InLog(d) => InLog(d)'
      BY <1>1, <1>3, <2>1 DEF InLog
    <3>2. d = c => InLog(d)'
      BY <1>1, <1>3, <2>1 DEF InLog
    <3>3. InLog(d)' => InLog(d) \/ d = c
      BY <1>1, <1>3, <2>1 DEF InLog
    <3> QED
      BY <3>1, <3>2, <3>3
  <2>2. CASE Target[d] # m
    BY <1>2, <2>2, TargetAssumption DEF InLog
  <2> QED
    BY <2>1, <2>2
<1> QED
  BY <1>4, <1>5

\* A submitted command written to a socket is a submitted command in flight.
LEMMA SendSubmitted ==
  ASSUME TypeOK, FlightIsSubmitted, Keeps, NEW j \in Conns, NEW d \in Commands,
         SendCommand(j, d) \/ UNCHANGED down, InLog(d)'
  PROVE  FlightIsSubmitted'
<1> DEFINE LoggedNext(c) == \E n \in 1..Len(log'[Target[c]]) : log'[Target[c]][n] = c
<1>1. SUFFICES ASSUME NEW k \in Conns, NEW i \in 1..Len(down'[k]), down'[k][i].type = "command"
               PROVE  LoggedNext(down'[k][i].cmd)
  BY DEF FlightIsSubmitted, InLog
<1>2. down[k] \in Seq(DownFrame) /\ Len(down[k]) \in Nat
  BY LenProperties DEF TypeOK
<1>3. LoggedNext(d) /\ \A c \in Commands : InLog(c) => LoggedNext(c)
  BY DEF Keeps, InLog
<1>4. ASSUME i \in 1..Len(down[k]), down'[k][i] = down[k][i] PROVE LoggedNext(down'[k][i].cmd)
  BY <1>1, <1>2, <1>3, <1>4, ElementOfSeq, DownFrameFields DEF FlightIsSubmitted
<1>5. CASE down'[k] = down[k]
  BY <1>4, <1>5
<1>6. CASE down'[k] = Append(down[k], Command(d))
  <2>1. /\ Len(down'[k]) = Len(down[k]) + 1
        /\ \A n \in 1..Len(down[k]) : down'[k][n] = down[k][n]
        /\ down'[k][Len(down[k]) + 1] = Command(d)
    BY <1>2, <1>6, FrameTypes, AppendProperties
  <2>2. CASE i = Len(down[k]) + 1
    BY <1>3, <2>1, <2>2 DEF Command
  <2>3. CASE i # Len(down[k]) + 1
    BY <1>2, <1>4, <2>1, <2>3
  <2> QED
    BY <2>2, <2>3
<1> QED
  BY <1>5, <1>6 DEF SendCommand, TypeOK

LEMMA PushHistory ==
  ASSUME TypeOK, TypeOK', History, NEW c \in Commands, Push(c)
  PROVE  History'
<1> USE DEF History
<1>1. AppendCommand(c) /\ UNCHANGED <<planeVars, daemonVars, up, runs>>
  BY DEF Push
<1>2. UNCHANGED <<up, runs, running, replyFile>> /\ LoadMachines({Target[c]})
      /\ {Target[c]} \in SUBSET Machines
  BY <1>1, TargetAssumption DEF AppendCommand, daemonVars
<1>3. LogInPlace' /\ Keeps /\ InLog(c)' /\ LoadedHasReplies' /\ ReplyIsReal'
  BY <1>1, <1>2, PushSubmits, LoadKeepsReplies DEF Keeps, ReplyIsReal
<1>4. AckFollowsReply' /\ ResponseIsReal'
  BY <1>2, <1>3, UpShrinksKeeps DEF UpShrinks
<1>5. FlightIsSubmitted'
  <2>1. CASE connections[Target[c]] = NoConn
    BY <1>3, <2>1, DownShrinksKeeps DEF Push, DownShrinks
  <2>2. CASE connections[Target[c]] # NoConn
    BY <1>3, <2>2, SendSubmitted, TargetAssumption DEF Push, TypeOK
  <2> QED
    BY <2>1, <2>2
<1>6. RunIsSubmitted' /\ RunningIsReal'
  BY <1>2, <1>3 DEF RunIsSubmitted, RunningIsReal, Keeps
<1> QED
  BY <1>3, <1>4, <1>5, <1>6

LEMMA ReplayHistory ==
  ASSUME TypeOK, TypeOK', History, NEW k \in Conns, ReplayNext(k)
  PROVE  History'
<1> USE DEF History
<1>1. PICK c \in Commands : c = log[Dialer[k]][cursor] /\ Target[c] = Dialer[k] /\ InLog(c)
  BY ElementOfSeq, ConnAssumption DEF ReplayNext, LogInPlace, InLog, TypeOK, StoreTypeOK
<1>2. LoadForReply(c, replies) \in SUBSET Machines
  BY TargetAssumption DEF LoadForReply, MachinesWithReplies
<1>3. /\ UNCHANGED <<log, up, runs, running, replyFile>>
      /\ UNCHANGED <<loaded, replies>> \/ \E ms \in SUBSET Machines : LoadMachines(ms)
      /\ SendCommand(k, c) \/ UNCHANGED down
  BY <1>1, <1>2 DEF ReplayNext, ReadReply, storeVars, daemonVars
<1>4. LoadedHasReplies' /\ Keeps /\ ReplyIsReal' /\ InLog(c)'
  BY <1>1, <1>3, LoadKeepsReplies DEF Keeps, ReplyIsReal, InLog
<1>5. AckFollowsReply' /\ ResponseIsReal'
  BY <1>3, <1>4, UpShrinksKeeps DEF UpShrinks
<1>6. FlightIsSubmitted'
  BY <1>1, <1>3, <1>4, SendSubmitted
<1>7. LogInPlace' /\ RunIsSubmitted' /\ RunningIsReal'
  BY <1>3 DEF LogInPlace, RunIsSubmitted, RunningIsReal, InLog
<1> QED
  BY <1>4, <1>5, <1>6, <1>7

\* Steps that touch neither the log, the runs nor a channel to a daemon.
LEMMA LogUntouched ==
  ASSUME History, UNCHANGED <<log, runs, down>>, running' \subseteq running
  PROVE  LogInPlace' /\ FlightIsSubmitted' /\ RunIsSubmitted' /\ RunningIsReal'
<1> USE DEF History
<1>1. LogInPlace' /\ RunIsSubmitted'
  BY DEF LogInPlace, RunIsSubmitted, InLog
<1>2. FlightIsSubmitted'
  BY DEF FlightIsSubmitted, InLog
<1>3. RunningIsReal'
  BY DEF RunningIsReal
<1> QED
  BY <1>1, <1>2, <1>3

LEMMA ResponseHistory ==
  ASSUME TypeOK, TypeOK', History, NEW k \in Conns, ReceiveResponse(k)
  PROVE  History'
<1> USE DEF History
<1> DEFINE f == Head(up[k])
<1>1. PICK c \in Commands, n \in Nat : /\ c = f.cmd /\ n = f.run /\ n > 0 /\ runs[c] > 0
                                       /\ RecordReply(c, n)
  <2>1. up[k] # <<>> /\ up[k] \in Seq(UpFrame) /\ f.type = "response"
    BY DEF ReceiveResponse, NextFrame, TypeOK
  <2>2. f \in UpFrame /\ 1 \in 1..Len(up[k]) /\ f = up[k][1]
    BY <2>1, HeadIsFrame, LenProperties, EmptySeq
  <2>3. f.cmd \in Commands /\ f.run \in Nat /\ f.run > 0 /\ runs[f.cmd] > 0
    BY <2>1, <2>2, UpFrameFields DEF ResponseIsReal
  <2> QED
    BY <2>3 DEF ReceiveResponse
<1>2. /\ UNCHANGED <<log, down, runs, running, loaded>>
      /\ up[k] # <<>> /\ f.type = "response"
      /\ up' = [up EXCEPT ![k] = Tail(@)]
      /\ replies' = [replies EXCEPT ![c] = n]
      /\ replyFile' = replyFile \/ replyFile' = [replyFile EXCEPT ![c] = n]
      /\ Target[c] \in loaded => replyFile' = [replyFile EXCEPT ![c] = n]
  BY <1>1 DEF ReceiveResponse, NextFrame, RecordReply, daemonVars, auxVars
<1>3. LoadedHasReplies' /\ ReplyIsReal' /\ Keeps
  <2>1. /\ replies'[c] = n /\ replyFile'[c] \in {n, replyFile[c]}
        /\ \A d \in Commands \ {c} : replies'[d] = replies[d] /\ replyFile'[d] = replyFile[d]
    BY <1>2 DEF TypeOK, StoreTypeOK
  <2>2. n # NoReply
    BY <1>1 DEF NoReply
  <2>3. LoadedHasReplies'
    BY <1>2, <2>1, <2>2 DEF LoadedHasReplies
  <2>4. ReplyIsReal'
    BY <1>1, <1>2, <2>1 DEF ReplyIsReal
  <2>5. Keeps
    BY <1>2, <2>1, <2>2 DEF Keeps, InLog
  <2> QED
    BY <2>3, <2>4, <2>5
<1>4. LogInPlace' /\ FlightIsSubmitted' /\ RunIsSubmitted' /\ RunningIsReal'
  BY <1>2, LogUntouched
<1>5. /\ Len(up'[k]) = Len(up[k]) - 1 /\ Len(up[k]) \in Nat /\ f = up[k][1]
      /\ \A i \in 1..Len(up'[k]) : up'[k][i] = up[k][i + 1]
      /\ \A j \in Conns \ {k} : up'[j] = up[j]
  BY <1>2, HeadTailProperties, LenProperties DEF TypeOK
<1>6. ASSUME NEW j \in Conns, NEW i \in 1..Len(up'[j])
      PROVE  /\ up'[j][i].type = "response" => up'[j][i].run > 0 /\ runs'[up'[j][i].cmd] > 0
             /\ up'[j][i].type = "ack" =>
                  \/ replies'[up'[j][i].cmd] # NoReply
                  \/ \E h \in 1..(i - 1) : /\ up'[j][h].type = "response"
                                          /\ up'[j][h].cmd = up'[j][i].cmd
  <2>1. up'[j][i].type = "ack" => up'[j][i].cmd \in Commands
    BY ElementOfSeq, UpFrameFields DEF TypeOK
  <2>2. CASE j # k
    BY <1>2, <1>3, <1>5, <2>1, <2>2 DEF ResponseIsReal, AckFollowsReply, Keeps
  <2>3. CASE j = k
    <3>1. i + 1 \in 1..Len(up[k]) /\ up'[k][i] = up[k][i + 1]
      BY <1>5, <2>3
    <3>2. ASSUME up'[k][i].type = "ack", replies'[up'[k][i].cmd] = NoReply
          PROVE  \E h \in 1..(i - 1) : /\ up'[k][h].type = "response"
                                      /\ up'[k][h].cmd = up'[k][i].cmd
      <4>1. up'[k][i].cmd # c /\ replies[up'[k][i].cmd] = NoReply
        BY <1>1, <1>2, <1>3, <2>1, <2>3, <3>2 DEF Keeps, NoReply, TypeOK, StoreTypeOK
      <4>2. PICK h \in 1..i : up[k][h].type = "response" /\ up[k][h].cmd = up[k][i + 1].cmd
        <5>1. up[k][i + 1].type = "ack" /\ replies[up[k][i + 1].cmd] = NoReply
          BY <3>1, <3>2, <4>1
        <5>2. \E h \in 1..((i + 1) - 1) : /\ up[k][h].type = "response"
                                         /\ up[k][h].cmd = up[k][i + 1].cmd
          BY <3>1, <5>1 DEF AckFollowsReply
        <5>3. (i + 1) - 1 = i
          OBVIOUS
        <5> QED
          BY <5>2, <5>3
      <4>3. h # 1
        BY <1>1, <1>5, <3>1, <4>1, <4>2
      <4>4. h - 1 \in 1..(i - 1) /\ up'[k][h - 1] = up[k][h]
        BY <1>5, <2>3, <4>2, <4>3
      <4> QED
        BY <3>1, <4>2, <4>4
    <3> QED
      BY <1>2, <2>3, <3>1, <3>2 DEF ResponseIsReal
  <2> QED
    BY <2>2, <2>3
<1> QED
  BY <1>3, <1>4, <1>6 DEF ResponseIsReal, AckFollowsReply

LEMMA FinishHistory ==
  ASSUME TypeOK, TypeOK', History, NEW c, NEW n, <<c, n>> \in running, FinishCommand(c, n)
  PROVE  History'
<1> USE DEF History
<1>1. c \in Commands /\ n \in Nat /\ n > 0 /\ runs[c] > 0
  BY DEF TypeOK, RunningIsReal
<1>2. /\ UNCHANGED <<log, down, runs, loaded, replies, replyFile>>
      /\ running' \subseteq running
  BY DEF FinishCommand, storeVars, auxVars
<1>3. LogInPlace' /\ FlightIsSubmitted' /\ RunIsSubmitted' /\ RunningIsReal'
        /\ LoadedHasReplies' /\ ReplyIsReal'
  BY <1>2, LogUntouched DEF LoadedHasReplies, ReplyIsReal
<1>4. ASSUME NEW j \in Conns, NEW i \in 1..Len(up'[j])
      PROVE  /\ up'[j][i].type = "response" => up'[j][i].run > 0 /\ runs'[up'[j][i].cmd] > 0
             /\ up'[j][i].type = "ack" =>
                  \/ replies'[up'[j][i].cmd] # NoReply
                  \/ \E h \in 1..(i - 1) : /\ up'[j][h].type = "response"
                                          /\ up'[j][h].cmd = up'[j][i].cmd
  <2>1. CASE up'[j] = up[j]
    BY <1>2, <2>1 DEF ResponseIsReal, AckFollowsReply
  <2>2. CASE up'[j] = Append(Append(up[j], Response(c, n)), AckFrame(c))
    <3>1. /\ Len(up[j]) \in Nat /\ Len(up'[j]) = Len(up[j]) + 2
          /\ \A h \in 1..Len(up[j]) : up'[j][h] = up[j][h]
          /\ up'[j][Len(up[j]) + 1] = Response(c, n)
          /\ up'[j][Len(up[j]) + 2] = AckFrame(c)
      <4>1. up[j] \in Seq(UpFrame) /\ Response(c, n) \in UpFrame /\ AckFrame(c) \in UpFrame
        BY <1>1, FrameTypes DEF TypeOK
      <4>2. /\ Append(up[j], Response(c, n)) \in Seq(UpFrame) /\ Len(up[j]) \in Nat
            /\ Len(Append(up[j], Response(c, n))) = Len(up[j]) + 1
            /\ \A h \in 1..Len(up[j]) : Append(up[j], Response(c, n))[h] = up[j][h]
            /\ Append(up[j], Response(c, n))[Len(up[j]) + 1] = Response(c, n)
        BY <4>1, AppendProperties, LenProperties
      <4>3. /\ Len(up'[j]) = Len(Append(up[j], Response(c, n))) + 1
            /\ \A h \in 1..(Len(up[j]) + 1) : up'[j][h] = Append(up[j], Response(c, n))[h]
            /\ up'[j][Len(up[j]) + 2] = AckFrame(c)
        <5>1. PICK s \in Seq(UpFrame) : s = Append(up[j], Response(c, n))
          BY <4>2
        <5>2. up'[j] = Append(s, AckFrame(c)) /\ Len(s) = Len(up[j]) + 1
          BY <2>2, <4>2, <5>1
        <5>3. /\ Len(Append(s, AckFrame(c))) = Len(s) + 1
              /\ \A h \in 1..Len(s) : Append(s, AckFrame(c))[h] = s[h]
              /\ Append(s, AckFrame(c))[Len(s) + 1] = AckFrame(c)
          BY <4>1, AppendProperties
        <5> QED
          BY <4>2, <5>1, <5>2, <5>3
      <4>4. Len(up'[j]) = Len(up[j]) + 2
        BY <4>2, <4>3
      <4>5. ASSUME NEW h \in 1..Len(up[j])
            PROVE  up'[j][h] = up[j][h]
        <5>1. h \in 1..(Len(up[j]) + 1)
          BY <4>2
        <5> QED
          BY <4>2, <4>3, <5>1
      <4>6. up'[j][Len(up[j]) + 1] = Response(c, n)
        <5>1. Len(up[j]) + 1 \in 1..(Len(up[j]) + 1)
          BY <4>2
        <5> QED
          BY <4>2, <4>3, <5>1
      <4> QED
        BY <4>2, <4>3, <4>4, <4>5, <4>6
    <3>2. CASE i \in 1..Len(up[j])
      <4>1. up'[j][i] = up[j][i]
        BY <3>1, <3>2
      <4>0. ASSUME NEW h \in 1..(i - 1) PROVE up'[j][h] = up[j][h]
        <5>1. h \in 1..Len(up[j])
          BY <3>1, <3>2
        <5> QED
          BY <3>1, <5>1
      <4>2. up[j][i].type = "response" => up[j][i].run > 0 /\ runs[up[j][i].cmd] > 0
        BY <3>2 DEF ResponseIsReal
      <4>3. up[j][i].type = "ack" =>
              \/ replies[up[j][i].cmd] # NoReply
              \/ \E h \in 1..(i - 1) : /\ up[j][h].type = "response"
                                      /\ up[j][h].cmd = up[j][i].cmd
        BY <3>2 DEF AckFollowsReply
      <4> QED
        BY <1>2, <4>0, <4>1, <4>2, <4>3
    <3>3. CASE i = Len(up[j]) + 1
      <4>1. /\ up'[j][i].type = "response" /\ up'[j][i].cmd = c /\ up'[j][i].run = n
        BY <3>1, <3>3 DEF Response
      <4> QED
        BY <1>1, <1>2, <4>1
    <3>4. CASE i = Len(up[j]) + 2
      <4>1. up'[j][i].type = "ack" /\ up'[j][i].cmd = c
        BY <3>1, <3>4 DEF AckFrame
      <4>2. /\ Len(up[j]) + 1 \in 1..(i - 1)
            /\ up'[j][Len(up[j]) + 1].type = "response" /\ up'[j][Len(up[j]) + 1].cmd = c
        BY <3>1, <3>4 DEF Response
      <4> QED
        BY <4>1, <4>2
    <3>5. i \in 1..Len(up[j]) \/ i = Len(up[j]) + 1 \/ i = Len(up[j]) + 2
      <4>1. i \in 1..(Len(up[j]) + 2) /\ Len(up[j]) \in Nat
        BY <3>1
      <4> QED
        BY <4>1
    <3> QED
      BY <3>2, <3>3, <3>4, <3>5
  <2> QED
    BY <2>1, <2>2 DEF FinishCommand
<1> QED
  BY <1>3, <1>4 DEF ResponseIsReal, AckFollowsReply

LEMMA CommandHistory ==
  ASSUME TypeOK, TypeOK', History, NEW k \in Conns, ReceiveCommand(k)
  PROVE  History'
<1> USE DEF History
<1> DEFINE f == Head(down[k])
<1>1. PICK c \in Commands : c = f.cmd /\ InLog(c)
  <2>1. down[k] # <<>> /\ down[k] \in Seq(DownFrame) /\ f.type = "command"
    BY DEF ReceiveCommand, TypeOK
  <2>2. f \in DownFrame /\ 1 \in 1..Len(down[k]) /\ f = down[k][1]
    BY <2>1, HeadIsFrame, LenProperties, EmptySeq
  <2> QED
    BY <2>1, <2>2, DownFrameFields DEF FlightIsSubmitted
<1>2. /\ UNCHANGED <<log, up, loaded, replies, replyFile>>
      /\ runs' = [runs EXCEPT ![c] = @ + 1]
      /\ running' = running \cup {<<c, runs[c] + 1>>}
      /\ down[k] # <<>> /\ down' = [down EXCEPT ![k] = Tail(@)]
  BY <1>1 DEF ReceiveCommand, storeVars
<1>3. Keeps
  BY <1>2 DEF Keeps, InLog, TypeOK
<1>4. RunIsSubmitted'
  BY <1>1, <1>2 DEF RunIsSubmitted, InLog, TypeOK
<1>5. RunningIsReal'
  BY <1>1, <1>2 DEF RunningIsReal, TypeOK
<1>6. FlightIsSubmitted'
  BY <1>2, <1>3, DownShrinksKeeps DEF DownShrinks, TypeOK
<1>7. AckFollowsReply' /\ ResponseIsReal'
  BY <1>2, <1>3, UpShrinksKeeps DEF UpShrinks
<1>8. LogInPlace' /\ LoadedHasReplies'
  BY <1>2 DEF LogInPlace, LoadedHasReplies
<1>9. ReplyIsReal'
  BY <1>2, <1>3 DEF ReplyIsReal, Keeps
<1> QED
  BY <1>4, <1>5, <1>6, <1>7, <1>8, <1>9

LEMMA RestartHistory ==
  ASSUME TypeOK, TypeOK', History, RestartPlane
  PROVE  History'
<1> USE DEF History
<1>1. /\ UNCHANGED <<log, runs, running, down, replyFile>>
      /\ up' = [k \in Conns |-> <<>>]
      /\ loaded' = {} /\ replies' = [c \in Commands |-> NoReply]
  BY DEF RestartPlane, Reopen, daemonVars
<1>2. LogInPlace' /\ FlightIsSubmitted' /\ RunIsSubmitted' /\ RunningIsReal'
  BY <1>1, LogUntouched
<1>3. ResponseIsReal' /\ AckFollowsReply'
  BY <1>1 DEF ResponseIsReal, AckFollowsReply
<1>4. ReplyIsReal' /\ LoadedHasReplies'
  BY <1>1 DEF ReplyIsReal, LoadedHasReplies
<1> QED
  BY <1>2, <1>3, <1>4

LEMMA HistoryStep == TypeOK /\ TypeOK' /\ History /\ [Next]_vars => History'
<1> SUFFICES ASSUME TypeOK, TypeOK', History, [Next]_vars PROVE History'
  OBVIOUS
<1>1. Quiet => History'
  BY QuietStep
<1>2. ASSUME NEW k \in Conns, PlaneStep(k) PROVE History'
  BY <1>1, <1>2, QuietActions, ReplayHistory, ResponseHistory DEF PlaneStep
<1>3. ASSUME NEW k \in Conns, DaemonStep(k) PROVE History'
  BY <1>1, <1>3, QuietActions, CommandHistory DEF DaemonStep
<1>4. ASSUME Finish PROVE History'
  <2>1. PICK r \in running : FinishCommand(r[1], r[2])
    BY <1>4 DEF Finish
  <2>2. r = <<r[1], r[2]>>
    BY DEF TypeOK
  <2> QED
    BY <2>1, <2>2, FinishHistory
<1>5. ASSUME Operator PROVE History'
  BY <1>1, <1>5, QuietActions, PushHistory DEF Operator
<1>6. ASSUME Fault PROVE History'
  BY <1>1, <1>6, QuietActions, RestartHistory DEF Fault
<1>7. ASSUME NEW k \in Conns, Dial(k) \/ PlaneNoticesClose(k) \/ DaemonNoticesClose(k)
      PROVE  History'
  BY <1>1, <1>7, QuietActions
<1>8. ASSUME UNCHANGED vars PROVE History'
  BY <1>1, <1>8, QuietActions
<1> QED
  BY <1>2, <1>3, <1>4, <1>5, <1>6, <1>7, <1>8, Zenon DEF Next

LEMMA HistoryInvariant == Spec => [](TypeOK /\ History)
<1>1. Init => TypeOK /\ History
  BY ConnAssumption
  DEF Init, StoreInit, TypeOK, StoreTypeOK, NoReply, History, LogInPlace, FlightIsSubmitted,
      RunIsSubmitted, RunningIsReal, ResponseIsReal, ReplyIsReal, LoadedHasReplies,
      AckFollowsReply, InLog
<1>2. TypeOK /\ History /\ [Next]_vars => (TypeOK /\ History)'
  BY TypeStep, HistoryStep
<1> QED
  BY <1>1, <1>2, PTL DEF Spec

\* The plane never handles an ack before it holds the command's reply.
THEOREM AckNeverOvertakesReply == Spec => []AckFollowsReply
<1>1. History => AckFollowsReply
  BY DEF History
<1> QED
  BY <1>1, HistoryInvariant, PTL

\* No command with a stored reply is sent again, also when the reply is still
\* only in a journal that was not read since the last restart.
LEMMA WritesUnanswered ==
  ASSUME TypeOK, History, [Next]_vars, NEW k \in Conns, NEW c \in Commands, Writes(k, c)
  PROVE  replies[c] = NoReply /\ replyFile[c] = NoReply
<1>1. CASE Push(c)
  BY <1>1 DEF Push, AppendCommand, History, ReplyIsReal, RunIsSubmitted
<1>2. CASE ReadReply(c) /\ replies'[c] = NoReply
  <2>1. replies[c] = NoReply
    BY <1>2 DEF ReadReply, LoadMachines, RepliesAfterLoad
  <2>2. ASSUME replyFile[c] # NoReply PROVE FALSE
    <3>1. Target[c] \in LoadForReply(c, replies)
      BY <2>1, <2>2 DEF LoadForReply, MachinesWithReplies
    <3>2. Target[c] \notin loaded
      BY <2>1, <2>2 DEF History, LoadedHasReplies
    <3> QED
      BY <1>2, <2>2, <3>1, <3>2 DEF ReadReply, LoadMachines, RepliesAfterLoad
  <2> QED
    BY <2>1, <2>2
<1> QED
  BY <1>1, <1>2, WhoWrites

-----------------------------------------------------------------------------
(* The refinement.                                                         *)

\* Steps that load journals at most hold more of the queue, and no more than that.
LoadsAtMost ==
  /\ UNCHANGED <<log, runs, replyFile, ackFile, byOperator, lives>>
  /\ \/ UNCHANGED <<loaded, acked, replies>>
     \/ \E ms \in SUBSET Machines : LoadMachines(ms)

\* Where a machine's journals have been read, memory has their acks.
AcksAreRead == \A c \in ackFile : Target[c] \in loaded => c \in acked

LEMMA LoadsHold ==
  ASSUME TypeOK, History, LoadsAtMost
  PROVE  Ledger!LedgerNext \/ UNCHANGED Ledger!ledgerVars
<1>1. Submitted' = Submitted /\ Started' = Started
  BY DEF LoadsAtMost, Submitted, Started, InLog
<1>2. Answered' = Answered
  BY LoadKeepsReplies DEF LoadsAtMost, Answered, History
<1>3. Settled' = Settled
  BY DEF LoadsAtMost, LoadMachines, AckedAfterLoad, Settled
<1>4. Held \subseteq Held' /\ AnswersOnDisk' = AnswersOnDisk /\ ackFile' = ackFile
  BY DEF LoadsAtMost, LoadMachines, Held, AnswersOnDisk
<1> QED
  BY <1>1, <1>2, <1>3, <1>4 DEF Ledger!LedgerNext, Ledger!Hold, LoadsAtMost

LEMMA LoadingActions ==
  ASSUME TypeOK
  PROVE  /\ \A k \in Conns : (RefuseHello(k) \/ AcceptHello(k) \/ BeginReplay(k)
              \/ EndReplay(k) \/ ReplayNext(k) \/ ReceiveClose(k)
              \/ Dial(k) \/ PlaneNoticesClose(k) \/ DaemonNoticesClose(k)
              \/ DaemonLosesSocket(k) \/ PlaneLosesSocket(k)) => LoadsAtMost
         /\ \A c \in Commands : OperatorRead(c) => LoadsAtMost
         /\ \A m \in Machines : (OperatorRevoke(m) \/ OperatorReadmit(m)
                                  \/ RestartDaemon(m)) => LoadsAtMost
         /\ \A c, n : FinishCommand(c, n) => LoadsAtMost
         /\ UNCHANGED vars => LoadsAtMost
<1> USE ConnAssumption, TargetAssumption
<1> USE DEF storeVars, planeVars, daemonVars, netVars, auxVars
<1>1. ASSUME NEW k \in Conns, RefuseHello(k) \/ AcceptHello(k) \/ EndReplay(k)
      PROVE  LoadsAtMost
  BY <1>1 DEF RefuseHello, AcceptHello, EndReplay, Register, LoadsAtMost
<1>2. ASSUME NEW k \in Conns, BeginReplay(k) PROVE LoadsAtMost
  BY <1>2 DEF BeginReplay, ReadCommands, LoadsAtMost
<1>3. ASSUME NEW k \in Conns, ReplayNext(k) PROVE LoadsAtMost
  <2>1. CASE UNCHANGED storeVars
    BY <1>3, <2>1 DEF ReplayNext, LoadsAtMost
  <2>2. CASE ReadReply(log[Dialer[k]][cursor])
    <3>1. LoadForReply(log[Dialer[k]][cursor], replies) \in SUBSET Machines
      BY DEF LoadForReply, MachinesWithReplies
    <3> QED
      BY <1>3, <2>2, <3>1 DEF ReplayNext, ReadReply, LoadsAtMost
  <2> QED
    BY <1>3, <2>1, <2>2 DEF ReplayNext
<1>4. ASSUME NEW k \in Conns, ReceiveClose(k) \/ Dial(k) \/ PlaneNoticesClose(k)
               \/ DaemonNoticesClose(k) \/ DaemonLosesSocket(k) \/ PlaneLosesSocket(k)
      PROVE  LoadsAtMost
  BY <1>4 DEF ReceiveClose, Dial, PlaneNoticesClose, DaemonNoticesClose,
              DaemonLosesSocket, PlaneLosesSocket, LoadsAtMost
<1>5. ASSUME NEW c \in Commands, OperatorRead(c) PROVE LoadsAtMost
  <2> DEFINE more == IF InLog(c) THEN LoadForReply(c, RepliesAfterLoad({Target[c]})) ELSE {}
  <2>1. LoadMachines({Target[c]} \cup more)
    BY <1>5 DEF OperatorRead
  <2>2. {Target[c]} \cup more \in SUBSET Machines
    BY DEF LoadForReply, MachinesWithReplies
  <2> QED
    BY <1>5, <2>1, <2>2 DEF OperatorRead, LoadsAtMost
<1>6. ASSUME NEW m \in Machines, OperatorRevoke(m) \/ OperatorReadmit(m) \/ RestartDaemon(m)
      PROVE  LoadsAtMost
  BY <1>6 DEF OperatorRevoke, OperatorReadmit, RestartDaemon, Revoke, ClearRevocation, LoadsAtMost
<1>7. ASSUME NEW c, NEW n, FinishCommand(c, n) PROVE LoadsAtMost
  BY <1>7 DEF FinishCommand, LoadsAtMost
<1>8. UNCHANGED vars => LoadsAtMost
  BY DEF vars, LoadsAtMost
<1> QED
  BY <1>1, <1>2, <1>3, <1>4, <1>5, <1>6, <1>7, <1>8

LEMMA AcksAreReadStep ==
  TypeOK /\ AcksAreRead /\ [Next]_vars => AcksAreRead'
<1> SUFFICES ASSUME TypeOK, AcksAreRead, [Next]_vars PROVE AcksAreRead'
  OBVIOUS
<1>1. LoadsAtMost => AcksAreRead'
  BY DEF LoadsAtMost, LoadMachines, AckedAfterLoad, AcksAreRead, TypeOK, StoreTypeOK
<1>2. ASSUME NEW k \in Conns, ReceiveResponse(k) PROVE AcksAreRead'
  BY <1>2 DEF ReceiveResponse, RecordReply, AcksAreRead
<1>3. ASSUME NEW k \in Conns, ReceiveAck(k) PROVE AcksAreRead'
  BY <1>3 DEF ReceiveAck, Ack, AcksAreRead
<1>4. ASSUME NEW c \in Commands, OperatorAck(c) PROVE AcksAreRead'
  BY <1>4 DEF OperatorAck, Ack, AcksAreRead
<1>5. ASSUME NEW c \in Commands, Push(c) PROVE AcksAreRead'
  BY <1>5 DEF Push, AppendCommand, LoadMachines, AckedAfterLoad, AcksAreRead
<1>6. ASSUME NEW k \in Conns, ReceiveCommand(k) PROVE AcksAreRead'
  BY <1>6 DEF ReceiveCommand, storeVars, AcksAreRead
<1>7. ASSUME RestartPlane PROVE AcksAreRead'
  BY <1>7 DEF RestartPlane, Reopen, AcksAreRead
<1> QED
  BY <1>1, <1>2, <1>3, <1>4, <1>5, <1>6, <1>7, LoadingActions
  DEF Next, PlaneStep, DaemonStep, Finish, Operator, Fault

\* Every step of the channel is a step of the ledger or leaves it as it is.
LEMMA LedgerStep ==
  CountLives /\ TypeOK /\ History /\ AcksAreRead /\ [Next]_vars
    => [Ledger!LedgerNext]_Ledger!ledgerVars
<1> SUFFICES ASSUME CountLives, TypeOK, History, AcksAreRead, [Next]_vars
             PROVE  Ledger!LedgerNext \/ UNCHANGED Ledger!ledgerVars
  BY DEF Ledger!ledgerVars
<1> DEFINE Step == Ledger!LedgerNext \/ UNCHANGED Ledger!ledgerVars
<1>1. ASSUME RestartPlane PROVE Step
  <2>1. /\ UNCHANGED <<log, runs, ackFile, replyFile, byOperator>> /\ lives' = lives + 1
        /\ acked' = {} /\ replies' = [c \in Commands |-> NoReply] /\ loaded' = {}
    BY <1>1 DEF RestartPlane, Reopen
  <2>2. UNCHANGED <<Submitted, Started, AnswersOnDisk>>
    BY <2>1 DEF AnswersOnDisk, Submitted, Started, InLog
  <2>3. Answered' = AnswersOnDisk /\ Settled' = ackFile /\ Held' = {}
    BY <2>1 DEF Answered, AnswersOnDisk, Settled, Held
  <2> QED
    BY <1>1, <2>1, <2>2, <2>3 DEF Ledger!LedgerNext, Ledger!Restart
<1>2. LoadsAtMost => Step
  BY LoadsHold
<1>3. ASSUME NEW k \in Conns, ReceiveResponse(k) PROVE Step
  <2>1. PICK c \in Commands, n \in Nat : /\ c = Head(up[k]).cmd /\ runs[c] > 0 /\ n > 0
                                         /\ RecordReply(c, n)
    <3>1. up[k] # <<>> /\ up[k] \in Seq(UpFrame) /\ Head(up[k]).type = "response"
      BY <1>3 DEF ReceiveResponse, NextFrame, TypeOK
    <3>2. Head(up[k]) \in UpFrame /\ 1 \in 1..Len(up[k]) /\ Head(up[k]) = up[k][1]
      BY <3>1, HeadIsFrame, LenProperties, EmptySeq
    <3>3. Head(up[k]).run > 0 /\ runs[Head(up[k]).cmd] > 0
      BY <3>1, <3>2 DEF History, ResponseIsReal
    <3> QED
      BY <1>3, <3>1, <3>2, <3>3, UpFrameFields DEF ReceiveResponse
  <2>2. /\ UNCHANGED <<log, runs, acked, ackFile, byOperator, loaded, lives>>
        /\ replies'[c] = n
        /\ replyFile'[c] = IF Target[c] \in loaded THEN n ELSE replyFile[c]
        /\ \A d \in Commands \ {c} : replies'[d] = replies[d] /\ replyFile'[d] = replyFile[d]
    BY <1>3, <2>1 DEF ReceiveResponse, RecordReply, auxVars, TypeOK, StoreTypeOK
  <2>3. Answered' = Answered \cup {c}
    BY <2>1, <2>2 DEF Answered, NoReply
  <2>4. AnswersOnDisk' = AnswersOnDisk \cup ({c} \cap Held)
    BY <2>1, <2>2 DEF AnswersOnDisk, Held, NoReply
  <2>5. UNCHANGED <<Submitted, Started, Settled, Held>> /\ c \in Started
    BY <2>1, <2>2 DEF Submitted, Started, Settled, Held, InLog
  <2> QED
    BY <2>2, <2>3, <2>4, <2>5 DEF Ledger!LedgerNext, Ledger!Answer
<1>4. ASSUME NEW c \in Commands, Ack(c), UNCHANGED <<runs, lives>>
      PROVE  Ledger!Settled(c)
  <2>1. Settled' = Settled \cup {c} /\ UNCHANGED <<Submitted, Started, Answered>>
    BY <1>4 DEF Ack, Settled, Submitted, Started, Answered, InLog
  <2>2. ackFile' = ackFile \cup ({c} \cap (Held \ Settled))
    BY <1>4 DEF Ack, Settled, Held, AcksAreRead
  <2>3. UNCHANGED <<Held, AnswersOnDisk>>
    BY <1>4 DEF Ack, Held, AnswersOnDisk
  <2> QED
    BY <1>4, <2>1, <2>2, <2>3 DEF Ledger!Settled
<1>5. ASSUME NEW k \in Conns, ReceiveAck(k) PROVE Step
  <2>1. up[k] # <<>> /\ up[k] \in Seq(UpFrame) /\ Head(up[k]).type = "ack"
    BY <1>5 DEF ReceiveAck, NextFrame, TypeOK
  <2>2. Head(up[k]) \in UpFrame /\ 1 \in 1..Len(up[k]) /\ Head(up[k]) = up[k][1]
    BY <2>1, HeadIsFrame, LenProperties, EmptySeq
  <2>3. PICK c \in Commands : /\ c = Head(up[k]).cmd /\ Ack(c)
                              /\ UNCHANGED <<runs, byOperator, lives>>
                              /\ replies[c] # NoReply
    BY <1>5, <2>1, <2>2, UpFrameFields DEF ReceiveAck, auxVars, History, AckFollowsReply
  <2>4. c \in Answered
    BY <2>3 DEF Answered
  <2> QED
    BY <1>4, <2>3, <2>4 DEF Ledger!LedgerNext, Ledger!Settle
<1>6. ASSUME NEW c \in Commands, OperatorAck(c) PROVE Step
  <2>1. /\ Ack(c) /\ UNCHANGED <<runs, lives>> /\ c \in Submitted
        /\ byOperator' = byOperator \cup {c}
    BY <1>6 DEF OperatorAck, Submitted
  <2> QED
    BY <1>4, <2>1 DEF Ledger!LedgerNext, Ledger!SettleByOperator
<1>7. ASSUME NEW c \in Commands, Push(c) PROVE Step
  <2>1. /\ AppendCommand(c) /\ UNCHANGED <<runs, replyFile, ackFile, byOperator, lives>>
        /\ LoadMachines({Target[c]}) /\ {Target[c]} \in SUBSET Machines /\ ~InLog(c)
    BY <1>7, TargetAssumption DEF Push, AppendCommand
  <2>2. Submitted' = Submitted \cup {c} /\ c \notin Submitted
    BY <2>1, PushSubmits DEF Submitted, History
  <2>3. Answered' = Answered
    BY <2>1, LoadKeepsReplies DEF Answered, History
  <2>4. Settled' = Settled
    BY <2>1 DEF LoadMachines, AckedAfterLoad, Settled
  <2>5. Started' = Started /\ AnswersOnDisk' = AnswersOnDisk
    BY <2>1 DEF Started, AnswersOnDisk
  <2>6. Held \cup {c} \subseteq Held'
    BY <2>1 DEF LoadMachines, Held
  <2> QED
    BY <2>1, <2>2, <2>3, <2>4, <2>5, <2>6 DEF Ledger!LedgerNext, Ledger!Submit
<1>8. ASSUME NEW k \in Conns, ReceiveCommand(k) PROVE Step
  <2>1. down[k] # <<>> /\ down[k] \in Seq(DownFrame) /\ Head(down[k]).type = "command"
    BY <1>8 DEF ReceiveCommand, TypeOK
  <2>2. Head(down[k]) \in DownFrame /\ 1 \in 1..Len(down[k]) /\ Head(down[k]) = down[k][1]
    BY <2>1, HeadIsFrame, LenProperties, EmptySeq
  <2>3. PICK c \in Commands : /\ c = Head(down[k]).cmd /\ InLog(c)
                              /\ runs' = [runs EXCEPT ![c] = @ + 1]
    BY <1>8, <2>1, <2>2, DownFrameFields DEF ReceiveCommand, History, FlightIsSubmitted
  <2>4. Started' = Started \cup {c} /\ c \in Submitted
    BY <2>3 DEF Started, Submitted, TypeOK
  <2>5. /\ UNCHANGED <<Submitted, Answered, Settled, byOperator, lives>>
        /\ UNCHANGED <<Held, AnswersOnDisk, ackFile>>
    BY <1>8 DEF ReceiveCommand, storeVars, Submitted, Answered, Settled, InLog, Held,
                AnswersOnDisk
  <2> QED
    BY <2>4, <2>5 DEF Ledger!LedgerNext, Ledger!Start
<1>9. ASSUME NEW k \in Conns, PlaneStep(k) PROVE Step
  BY <1>2, <1>3, <1>5, <1>9, LoadingActions DEF PlaneStep
<1>10. ASSUME NEW k \in Conns, DaemonStep(k) \/ Dial(k) \/ PlaneNoticesClose(k)
                \/ DaemonNoticesClose(k)
       PROVE  Step
  BY <1>2, <1>8, <1>10, LoadingActions DEF DaemonStep
<1>11. ASSUME Finish PROVE Step
  BY <1>2, <1>11, LoadingActions DEF Finish
<1>12. ASSUME Operator PROVE Step
  BY <1>2, <1>6, <1>7, <1>12, LoadingActions DEF Operator
<1>13. ASSUME Fault PROVE Step
  BY <1>1, <1>2, <1>13, LoadingActions DEF Fault
<1>14. ASSUME UNCHANGED vars PROVE Step
  BY <1>2, <1>14, LoadingActions
<1> QED
  BY <1>9, <1>10, <1>11, <1>12, <1>13, <1>14, Zenon DEF Next

\* The fleet channel, with all its sockets, journals, reconnects and restarts,
\* is an at-least-once queue: a command is answered only after a run, settled
\* only when answered or by the operator; what is answered or settled while its
\* queue is held outlives every restart, and nothing is forgotten between them.
\* That last part needs the lives of the plane to be counted.
THEOREM ChannelImplementsLedger ==
  ASSUME CountLives PROVE Spec => ImplementsLedger
<1>1. ASSUME Init PROVE Ledger!LedgerInit
  <2>1. Submitted = {}
    BY <1>1, TargetAssumption DEF Init, StoreInit, Submitted, InLog
  <2>2. Started = {} /\ Answered = {} /\ Settled = {} /\ byOperator = {}
    BY <1>1 DEF Init, StoreInit, NoReply, Started, Answered, Settled
  <2>3. Held = {} /\ AnswersOnDisk = {} /\ ackFile = {} /\ lives = 0
    BY <1>1 DEF Init, StoreInit, NoReply, Held, AnswersOnDisk
  <2> QED
    BY <2>1, <2>2, <2>3 DEF Ledger!LedgerInit
<1>2. Init => AcksAreRead
  BY DEF Init, StoreInit, AcksAreRead
<1>3. Spec => []AcksAreRead
  BY <1>2, HistoryInvariant, AcksAreReadStep, PTL DEF Spec
<1>4. TypeOK /\ History /\ AcksAreRead /\ [Next]_vars => [Ledger!LedgerNext]_Ledger!ledgerVars
  BY LedgerStep
<1> QED
  BY <1>1, <1>3, <1>4, HistoryInvariant, PTL DEF Spec, ImplementsLedger, Ledger!LedgerSpec
-----------------------------------------------------------------------------
(* No command twice on one socket.                                         *)

\* A command has one place in the log.
LogDistinct ==
  \A m \in Machines : \A i, j \in 1..Len(log[m]) : log[m][i] = log[m][j] => i = j

\* What was written to a socket since it was opened are commands of the log.
DeliveredInLog == \A k \in Conns : \A c \in delivered[k] : InLog(c)

\* A hello is the first frame of a socket, and nothing is written before it.
HelloFirst ==
  \A k \in Conns : \A p \in 1..Len(up[k]) : up[k][p].type = "hello" =>
    p = 1 /\ k \notin registered /\ delivered[k] = {}

ClosedIsEmpty == \A k \in Conns : dEnd[k] = "closed" => delivered[k] = {}

\* What a replay has still to look at was not written to its socket.
ReplayAhead ==
  turn # NoConn =>
    \A i \in 1..Len(log[Dialer[turn]]) :
      cursor <= i => log[Dialer[turn]][i] \notin delivered[turn]

OnceInv == LogDistinct /\ DeliveredInLog /\ HelloFirst /\ ClosedIsEmpty /\ ReplayAhead

\* Every hello in s was one in r, at its place.
NoNewHello(s, r) ==
  \A p \in 1..Len(s) : s[p].type = "hello" => p \in 1..Len(r) /\ r[p].type = "hello"

\* Steps that submit nothing, write no command and accept no hello.
WritesNothing ==
  /\ UNCHANGED log
  /\ registered' \subseteq registered
  /\ \A k \in Conns : \/ delivered'[k] = {}
                      \/ delivered'[k] = delivered[k] /\ dEnd'[k] = dEnd[k]
  /\ \A k \in Conns : NoNewHello(up'[k], up[k])
  /\ turn' = NoConn \/ (turn' = turn /\ cursor <= cursor')

LEMMA WritesNothingKeeps ==
  ASSUME TypeOK, TypeOK', OnceInv, WritesNothing
  PROVE  OnceInv'
<1> USE DEF OnceInv, WritesNothing
<1>1. LogDistinct'
  BY DEF LogDistinct
<1>2. DeliveredInLog'
  BY DEF DeliveredInLog, InLog
<1>3. HelloFirst'
  BY DEF HelloFirst, NoNewHello
<1>4. ClosedIsEmpty'
  BY DEF ClosedIsEmpty
<1>5. ReplayAhead'
  <2>1. ASSUME turn' # NoConn, NEW i \in 1..Len(log[Dialer[turn]]), cursor' <= i
        PROVE  log[Dialer[turn]][i] \notin delivered'[turn]
    <3>1. turn \in Conns /\ turn' = turn /\ turn # NoConn
      BY <2>1 DEF TypeOK
    <3>2. cursor <= i
      BY <2>1, <3>1 DEF TypeOK
    <3>3. log[Dialer[turn]][i] \notin delivered[turn]
      BY <2>1, <3>1, <3>2 DEF ReplayAhead
    <3> QED
      BY <3>1, <3>3
  <2>2. turn' # NoConn => turn' = turn /\ log' = log
    OBVIOUS
  <2> QED
    BY <2>1, <2>2 DEF ReplayAhead
<1> QED
  BY <1>1, <1>2, <1>3, <1>4, <1>5

\* What arrives at the plane, breaks off or is answered brings no hello.
LEMMA HelloOnlyByDial ==
  ASSUME TypeOK, HelloFirst
  PROVE  /\ \A k \in Conns : \A t : NextFrame(k, t) =>
              /\ \A j \in Conns : NoNewHello(up'[j], up[j])
              /\ \A p \in 1..Len(up'[k]) : up'[k][p].type # "hello"
         /\ \A k \in Conns : PlaneCloseEvent(k) => \A j \in Conns : NoNewHello(up'[j], up[j])
         /\ \A k \in Conns, n \in Nat : n <= Len(up[k]) =>
              NoNewHello(SubSeq(up[k], 1, n), up[k])
         /\ \A k \in Conns, c \in Commands, n \in Nat :
              NoNewHello(Append(Append(up[k], Response(c, n)), AckFrame(c)), up[k])
         /\ \A k \in Conns : NoNewHello(up[k], up[k]) /\ NoNewHello(<<>>, up[k])
<1>1. ASSUME NEW k \in Conns PROVE up[k] \in Seq(UpFrame) /\ Len(up[k]) \in Nat
  BY LenProperties DEF TypeOK
<1>2. ASSUME NEW k \in Conns PROVE NoNewHello(up[k], up[k]) /\ NoNewHello(<<>>, up[k])
  BY DEF NoNewHello
<1>3. ASSUME NEW k \in Conns, NEW t, NextFrame(k, t)
      PROVE  /\ \A j \in Conns : NoNewHello(up'[j], up[j])
             /\ \A p \in 1..Len(up'[k]) : up'[k][p].type # "hello"
  <2>1. /\ up[k] # <<>> /\ up'[k] = Tail(up[k])
        /\ \A j \in Conns \ {k} : up'[j] = up[j]
    BY <1>3 DEF NextFrame, TypeOK
  <2>2. /\ Len(up'[k]) = Len(up[k]) - 1
        /\ \A p \in 1..Len(up'[k]) : up'[k][p] = up[k][p + 1]
    BY <1>1, <2>1, HeadTailProperties
  <2>3. ASSUME NEW p \in 1..Len(up'[k]) PROVE up'[k][p].type # "hello"
    <3>1. p + 1 \in 1..Len(up[k]) /\ p + 1 # 1
      BY <1>1, <2>2
    <3> QED
      BY <2>2, <3>1 DEF HelloFirst
  <2> QED
    BY <1>2, <2>1, <2>3 DEF NoNewHello
<1>4. ASSUME NEW k \in Conns, PlaneCloseEvent(k)
      PROVE  \A j \in Conns : NoNewHello(up'[j], up[j])
  BY <1>2, <1>4 DEF PlaneCloseEvent, TypeOK
<1>5. ASSUME NEW k \in Conns, NEW n \in Nat, n <= Len(up[k])
      PROVE  NoNewHello(SubSeq(up[k], 1, n), up[k])
  <2>1. PICK s : s = SubSeq(up[k], 1, n)
    OBVIOUS
  <2>2. Len(s) = n /\ \A p \in 1..n : s[p] = up[k][p]
    BY <1>1, <1>5, <2>1, SubSeqProperties
  <2> QED
    BY <1>1, <1>5, <2>1, <2>2 DEF NoNewHello
<1>6. ASSUME NEW k \in Conns, NEW c \in Commands, NEW n \in Nat
      PROVE  NoNewHello(Append(Append(up[k], Response(c, n)), AckFrame(c)), up[k])
  <2>1. PICK s \in Seq(UpFrame) : s = Append(up[k], Response(c, n))
    BY <1>1, FrameTypes, AppendProperties
  <2>2. /\ Len(s) = Len(up[k]) + 1
        /\ \A p \in 1..Len(up[k]) : s[p] = up[k][p]
        /\ s[Len(up[k]) + 1] = Response(c, n)
    BY <1>1, <2>1, FrameTypes, AppendProperties
  <2>3. PICK r : r = Append(s, AckFrame(c))
    OBVIOUS
  <2>4. /\ Len(r) = Len(s) + 1
        /\ \A p \in 1..Len(s) : r[p] = s[p]
        /\ r[Len(s) + 1] = AckFrame(c)
    BY <2>1, <2>3, FrameTypes, AppendProperties
  <2>5. Response(c, n).type # "hello" /\ AckFrame(c).type # "hello"
    BY DEF Response, AckFrame
  <2>6. ASSUME NEW p \in 1..Len(r), r[p].type = "hello"
        PROVE  p \in 1..Len(up[k]) /\ up[k][p].type = "hello"
    <3>1. p # Len(s) + 1 /\ p \in 1..Len(s)
      BY <1>1, <2>2, <2>4, <2>5, <2>6
    <3>2. p # Len(up[k]) + 1 /\ p \in 1..Len(up[k])
      BY <1>1, <2>2, <2>4, <2>5, <2>6, <3>1
    <3> QED
      BY <2>2, <2>4, <2>6, <3>1, <3>2
  <2> QED
    BY <2>1, <2>3, <2>6 DEF NoNewHello
<1> QED
  BY <1>2, <1>3, <1>4, <1>5, <1>6

LEMMA WritesNothingActions ==
  ASSUME TypeOK, HelloFirst
  PROVE  /\ \A k \in Conns : (RefuseHello(k) \/ BeginReplay(k) \/ EndReplay(k)
              \/ ReceiveResponse(k) \/ ReceiveAck(k) \/ DaemonStep(k)
              \/ PlaneNoticesClose(k) \/ DaemonNoticesClose(k)
              \/ DaemonLosesSocket(k) \/ PlaneLosesSocket(k)) => WritesNothing
         /\ \A c \in Commands : OperatorAck(c) \/ OperatorRead(c) => WritesNothing
         /\ \A m \in Machines : (OperatorRevoke(m) \/ OperatorReadmit(m)
                                  \/ RestartDaemon(m)) => WritesNothing
         /\ Finish \/ RestartPlane \/ UNCHANGED vars => WritesNothing
<1> USE HelloOnlyByDial
<1> USE DEF storeVars, planeVars, daemonVars, netVars, auxVars
<1>1. ASSUME NEW k \in Conns, RefuseHello(k) PROVE WritesNothing
  BY <1>1 DEF RefuseHello, WritesNothing, TypeOK
<1>2. ASSUME NEW k \in Conns, BeginReplay(k) PROVE WritesNothing
  BY <1>2 DEF BeginReplay, ReadCommands, WritesNothing, TypeOK
<1>3. ASSUME NEW k \in Conns, EndReplay(k) PROVE WritesNothing
  BY <1>3 DEF EndReplay, WritesNothing, TypeOK
<1>4. ASSUME NEW k \in Conns, ReceiveResponse(k) PROVE WritesNothing
  BY <1>4 DEF ReceiveResponse, RecordReply, WritesNothing, TypeOK
<1>5. ASSUME NEW k \in Conns, ReceiveAck(k) PROVE WritesNothing
  BY <1>5 DEF ReceiveAck, Ack, WritesNothing, TypeOK
<1>6. ASSUME NEW k \in Conns, DaemonCloseEvent(k)
      PROVE  \A j \in Conns : \/ delivered'[j] = {}
                              \/ delivered'[j] = delivered[j] /\ dEnd'[j] = dEnd[j]
  BY <1>6 DEF DaemonCloseEvent, TypeOK
<1>7. ASSUME NEW k \in Conns, DaemonStep(k) \/ DaemonNoticesClose(k) PROVE WritesNothing
  <2>1. CASE ReceiveCommand(k)
    BY <2>1 DEF ReceiveCommand, WritesNothing, TypeOK
  <2>2. CASE ReceiveClose(k) \/ DaemonNoticesClose(k)
    BY <1>6, <2>2 DEF ReceiveClose, DaemonNoticesClose, WritesNothing, TypeOK
  <2> QED
    BY <1>7, <2>1, <2>2 DEF DaemonStep
<1>8. ASSUME NEW k \in Conns, PlaneNoticesClose(k) \/ PlaneLosesSocket(k) PROVE WritesNothing
  <2>1. registered' \subseteq registered
    BY <1>8 DEF PlaneNoticesClose, PlaneLosesSocket, PlaneCloseEvent
  <2> QED
    BY <1>8, <2>1 DEF PlaneNoticesClose, PlaneLosesSocket, WritesNothing, TypeOK
<1>9. ASSUME NEW k \in Conns, DaemonLosesSocket(k) PROVE WritesNothing
  <2>1. PICK n \in 0..Len(up[k]) : up' = [up EXCEPT ![k] = SubSeq(@, 1, n)]
    BY <1>9 DEF DaemonLosesSocket
  <2>2. n \in Nat /\ n <= Len(up[k])
    BY <2>1, LenProperties DEF TypeOK
  <2>3. \A j \in Conns : NoNewHello(up'[j], up[j])
    BY <2>1, <2>2 DEF TypeOK
  <2> QED
    BY <1>6, <1>9, <2>3 DEF DaemonLosesSocket, WritesNothing, TypeOK
<1>10. ASSUME NEW c \in Commands, OperatorAck(c) \/ OperatorRead(c) PROVE WritesNothing
  BY <1>10 DEF OperatorAck, OperatorRead, Ack, WritesNothing, TypeOK
<1>11. ASSUME NEW m \in Machines, OperatorRevoke(m) \/ OperatorReadmit(m) PROVE WritesNothing
  BY <1>11 DEF OperatorRevoke, OperatorReadmit, Revoke, ClearRevocation, WritesNothing, TypeOK
<1>12. ASSUME NEW m \in Machines, RestartDaemon(m) PROVE WritesNothing
  BY <1>12 DEF RestartDaemon, WritesNothing, TypeOK
<1>13. ASSUME RestartPlane PROVE WritesNothing
  BY <1>13 DEF RestartPlane, Reopen, WritesNothing, TypeOK
<1>14. ASSUME Finish PROVE WritesNothing
  <2>1. PICK r \in running : FinishCommand(r[1], r[2])
    BY <1>14 DEF Finish
  <2>2. r[1] \in Commands /\ r[2] \in Nat
    BY DEF TypeOK
  <2>3. \A j \in Conns : NoNewHello(up'[j], up[j])
    BY <2>1, <2>2 DEF FinishCommand
  <2> QED
    BY <2>1, <2>3 DEF FinishCommand, WritesNothing, TypeOK
<1>15. UNCHANGED vars => WritesNothing
  BY DEF vars, WritesNothing, TypeOK
<1> QED
  BY <1>1, <1>2, <1>3, <1>4, <1>5, <1>7, <1>8, <1>9, <1>10, <1>11, <1>12, <1>13,
     <1>14, <1>15

\* A command is written to an open socket, and only there.
LEMMA SendsOnlyThere ==
  ASSUME TypeOK, NEW k \in Conns, NEW c \in Commands, SendCommand(k, c)
  PROVE  /\ \A j \in Conns \ {k} : delivered'[j] = delivered[j] /\ down'[j] = down[j]
         /\ \/ UNCHANGED <<delivered, down>> /\ ~(pEnd[k] = "open" /\ dEnd[k] = "open")
            \/ /\ pEnd[k] = "open" /\ dEnd[k] = "open"
               /\ delivered'[k] = delivered[k] \cup {c}
               /\ down'[k] = Append(down[k], Command(c))
<1>1. CASE pEnd[k] = "open" /\ dEnd[k] = "open"
  <2>1. /\ down' = [down EXCEPT ![k] = Append(@, Command(c))]
        /\ delivered' = [delivered EXCEPT ![k] = @ \cup {c}]
    BY <1>1 DEF SendCommand
  <2> QED
    BY <1>1, <2>1 DEF TypeOK
<1>2. CASE ~(pEnd[k] = "open" /\ dEnd[k] = "open")
  BY <1>2 DEF SendCommand
<1> QED
  BY <1>1, <1>2

LEMMA AcceptOnce ==
  ASSUME TypeOK, TypeOK', OnceInv, NEW k \in Conns, AcceptHello(k)
  PROVE  OnceInv'
<1> USE DEF OnceInv
<1>1. /\ UNCHANGED <<log, delivered, dEnd>> /\ NextFrame(k, "hello")
      /\ registered' = registered \cup {k} /\ turn' = k /\ cursor' = 0
  BY DEF AcceptHello, Register, daemonVars, auxVars
<1>2. up[k] # <<>> /\ Len(up[k]) \in Nat /\ up[k][1].type = "hello" /\ 1 \in 1..Len(up[k])
  BY <1>1, EmptySeq, LenProperties DEF NextFrame, TypeOK
<1>3. delivered[k] = {}
  BY <1>2 DEF HelloFirst
<1>4. HelloFirst'
  <2>1. \A j \in Conns : NoNewHello(up'[j], up[j])
    BY <1>1, HelloOnlyByDial
  <2>2. \A p \in 1..Len(up'[k]) : up'[k][p].type # "hello"
    BY <1>1, HelloOnlyByDial
  <2> QED
    BY <1>1, <2>1, <2>2 DEF HelloFirst, NoNewHello
<1>5. LogDistinct' /\ DeliveredInLog' /\ ClosedIsEmpty'
  BY <1>1 DEF LogDistinct, DeliveredInLog, ClosedIsEmpty, InLog
<1>6. ReplayAhead'
  BY <1>1, <1>3 DEF ReplayAhead
<1> QED
  BY <1>4, <1>5, <1>6

LEMMA DialOnce ==
  ASSUME TypeOK, TypeOK', OnceInv, Registrations, NEW k \in Conns, Dial(k)
  PROVE  OnceInv'
<1> USE DEF OnceInv
<1>1. /\ UNCHANGED <<log, delivered, registered, turn, cursor>>
      /\ dEnd[k] = "closed" /\ pEnd[k] = "closed"
      /\ dEnd' = [dEnd EXCEPT ![k] = "open"] /\ up' = [up EXCEPT ![k] = <<Hello>>]
  BY DEF Dial, storeVars, auxVars, Socket
<1>2. k \notin registered /\ delivered[k] = {}
  BY <1>1 DEF Registrations, ClosedIsEmpty
<1>3. HelloFirst'
  BY <1>1, <1>2 DEF HelloFirst, TypeOK
<1>4. LogDistinct' /\ DeliveredInLog' /\ ReplayAhead'
  BY <1>1 DEF LogDistinct, DeliveredInLog, ReplayAhead, InLog
<1>5. ClosedIsEmpty'
  BY <1>1 DEF ClosedIsEmpty, TypeOK
<1> QED
  BY <1>3, <1>4, <1>5

LEMMA ReplayOnce ==
  ASSUME TypeOK, TypeOK', History, OnceInv, Registrations, NEW k \in Conns, ReplayNext(k)
  PROVE  OnceInv'
<1> USE DEF OnceInv
<1> DEFINE m == Dialer[k]
           c == log[m][cursor]
<1>1. /\ turn = k /\ cursor \in 1..Len(log[m]) /\ cursor' = cursor + 1
      /\ UNCHANGED <<log, registered, turn, dEnd, up>>
      /\ SendCommand(k, c) \/ UNCHANGED delivered
  BY DEF ReplayNext, ReadReply, storeVars, daemonVars
<1>2. m \in Machines /\ log[m] \in Seq(Commands) /\ Len(log[m]) \in Nat
      /\ k \in registered /\ c \in Commands /\ InLog(c)
  <2>1. m \in Machines /\ log[m] \in Seq(Commands) /\ Len(log[m]) \in Nat
    BY ConnAssumption, LenProperties DEF TypeOK, StoreTypeOK
  <2>2. c \in Commands /\ Target[c] = m
    BY <1>1, <2>1, ElementOfSeq DEF History, LogInPlace
  <2> QED
    BY <1>1, <2>1, <2>2, ConnAssumption DEF Registrations, InLog
<1>3. /\ \A j \in Conns \ {k} : delivered'[j] = delivered[j]
      /\ \/ delivered'[k] = delivered[k]
         \/ dEnd[k] = "open" /\ delivered'[k] = delivered[k] \cup {c}
  BY <1>1, <1>2, SendsOnlyThere
<1>4. LogDistinct'
  BY <1>1 DEF LogDistinct
<1>5. DeliveredInLog'
  BY <1>1, <1>2, <1>3 DEF DeliveredInLog, InLog
<1>6. HelloFirst'
  BY <1>1, <1>2, <1>3 DEF HelloFirst
<1>7. ClosedIsEmpty'
  BY <1>1, <1>3 DEF ClosedIsEmpty
<1>8. ReplayAhead'
  <2>1. ASSUME NEW i \in 1..Len(log[m]), cursor + 1 <= i PROVE log[m][i] \notin delivered'[k]
    <3>1. cursor <= i /\ i # cursor
      BY <1>1, <1>2, <2>1
    <3>2. log[m][i] \notin delivered[k]
      BY <1>1, <3>1, ConnAssumption DEF ReplayAhead
    <3>3. log[m][i] # c
      BY <1>1, <1>2, <3>1 DEF LogDistinct
    <3> QED
      BY <1>3, <3>2, <3>3
  <2> QED
    BY <1>1, <2>1 DEF ReplayAhead
<1> QED
  BY <1>4, <1>5, <1>6, <1>7, <1>8

LEMMA PushOnce ==
  ASSUME TypeOK, TypeOK', History, OnceInv, Registrations, NEW c \in Commands, Push(c)
  PROVE  OnceInv'
<1> USE DEF OnceInv
<1> DEFINE m == Target[c]
<1>1. /\ AppendCommand(c) /\ turn = NoConn /\ UNCHANGED <<registered, turn, dEnd, up>>
      /\ ~InLog(c)
      /\ \/ UNCHANGED delivered
         \/ connections[m] # NoConn /\ SendCommand(connections[m], c)
  BY DEF Push, AppendCommand, planeVars, daemonVars
<1>2. m \in Machines /\ log[m] \in Seq(Commands) /\ Len(log[m]) \in Nat
  BY TargetAssumption, LenProperties DEF TypeOK, StoreTypeOK
<1>3. /\ Len(log'[m]) = Len(log[m]) + 1
      /\ \A i \in 1..Len(log[m]) : log'[m][i] = log[m][i]
      /\ log'[m][Len(log[m]) + 1] = c
      /\ \A n \in Machines \ {m} : log'[n] = log[n]
  BY <1>1, <1>2, AppendProperties DEF AppendCommand, TypeOK, StoreTypeOK
<1>4. LogDistinct'
  <2>1. ASSUME NEW n \in Machines, NEW i \in 1..Len(log'[n]), NEW j \in 1..Len(log'[n]),
               log'[n][i] = log'[n][j]
        PROVE  i = j
    <3>1. CASE n # m
      BY <1>3, <2>1, <3>1 DEF LogDistinct
    <3>2. CASE n = m
      <4>1. \A h \in 1..Len(log[m]) : log[m][h] # c
        BY <1>1 DEF InLog
      <4>2. i \in 1..Len(log[m]) \/ i = Len(log[m]) + 1
        BY <1>2, <1>3, <3>2
      <4>3. j \in 1..Len(log[m]) \/ j = Len(log[m]) + 1
        BY <1>2, <1>3, <3>2
      <4>4. \A h, g \in 1..Len(log[m]) : log[m][h] = log[m][g] => h = g
        BY <1>2 DEF LogDistinct
      <4>5. log'[m][i] = log'[m][j]
        BY <2>1, <3>2
      <4>6. CASE i \in 1..Len(log[m]) /\ j \in 1..Len(log[m])
        BY <1>3, <4>4, <4>5, <4>6
      <4>7. CASE i \in 1..Len(log[m]) /\ j = Len(log[m]) + 1
        BY <1>3, <4>1, <4>5, <4>7
      <4>8. CASE i = Len(log[m]) + 1 /\ j \in 1..Len(log[m])
        BY <1>3, <4>1, <4>5, <4>8
      <4> QED
        BY <4>2, <4>3, <4>6, <4>7, <4>8
    <3> QED
      BY <3>1, <3>2
  <2> QED
    BY <2>1 DEF LogDistinct
<1>5. \A k \in Conns : \/ delivered'[k] = delivered[k]
                       \/ /\ k \in registered /\ dEnd[k] = "open"
                          /\ delivered'[k] = delivered[k] \cup {c}
  <2>1. ASSUME connections[m] # NoConn, SendCommand(connections[m], c)
        PROVE  connections[m] \in Conns /\ connections[m] \in registered
    BY <1>2, <2>1 DEF Registrations, TypeOK
  <2> QED
    BY <1>1, <2>1, SendsOnlyThere
<1>6. DeliveredInLog'
  <2>1. \A d \in Commands : InLog(d)' <=> InLog(d) \/ d = c
    BY <1>1, PushSubmits DEF History
  <2>2. \A k \in Conns : delivered'[k] \subseteq Commands
    BY DEF TypeOK
  <2>3. ASSUME NEW k \in Conns, NEW d \in delivered'[k] PROVE InLog(d)'
    BY <1>5, <2>1, <2>2 DEF DeliveredInLog
  <2> QED
    BY <2>3 DEF DeliveredInLog
<1>7. HelloFirst'
  BY <1>1, <1>5 DEF HelloFirst
<1>8. ClosedIsEmpty'
  BY <1>1, <1>5 DEF ClosedIsEmpty
<1>9. ReplayAhead'
  BY <1>1 DEF ReplayAhead
<1> QED
  BY <1>4, <1>6, <1>7, <1>8, <1>9

LEMMA OnceStep ==
  TypeOK /\ TypeOK' /\ History /\ Registrations /\ OnceInv /\ [Next]_vars => OnceInv'
<1> SUFFICES ASSUME TypeOK, TypeOK', History, Registrations, OnceInv, [Next]_vars
             PROVE  OnceInv'
  OBVIOUS
<1>1. HelloFirst
  BY DEF OnceInv
<1>2. WritesNothing => OnceInv'
  BY WritesNothingKeeps
<1>3. ASSUME NEW k \in Conns, PlaneStep(k) PROVE OnceInv'
  BY <1>1, <1>2, <1>3, WritesNothingActions, AcceptOnce, ReplayOnce DEF PlaneStep
<1>4. ASSUME NEW k \in Conns, DaemonStep(k) \/ PlaneNoticesClose(k) \/ DaemonNoticesClose(k)
      PROVE  OnceInv'
  BY <1>1, <1>2, <1>4, WritesNothingActions
<1>5. ASSUME Operator PROVE OnceInv'
  BY <1>1, <1>2, <1>5, WritesNothingActions, PushOnce DEF Operator
<1>6. ASSUME Fault PROVE OnceInv'
  BY <1>1, <1>2, <1>6, WritesNothingActions DEF Fault
<1>7. Finish \/ UNCHANGED vars => OnceInv'
  BY <1>1, <1>2, WritesNothingActions
<1> QED
  BY <1>3, <1>4, <1>5, <1>6, <1>7, DialOnce, Zenon DEF Next

\* All that was proved of the channel so far, as one invariant.
ChannelInv == TypeOK /\ Registrations /\ History /\ OnceInv

LEMMA ChannelStep == ChannelInv /\ [Next]_vars => ChannelInv'
BY TypeStep, RegistrationsStep, HistoryStep, OnceStep DEF ChannelInv

LEMMA ChannelInvariant == Spec => []ChannelInv
<1>1. Init => OnceInv
  BY ConnAssumption
  DEF Init, StoreInit, OnceInv, LogDistinct, DeliveredInLog, HelloFirst, ClosedIsEmpty,
      ReplayAhead
<1>2. TypeOK /\ History /\ Registrations /\ OnceInv /\ [Next]_vars => OnceInv'
  BY TypeStep, OnceStep
<1> QED
  BY <1>1, <1>2, RegistrationsInvariant, HistoryInvariant, PTL DEF Spec, ChannelInv

LEMMA WritesOnce ==
  ASSUME ChannelInv, [Next]_vars, NEW k \in Conns, NEW c \in Commands, Writes(k, c)
  PROVE  c \notin delivered[k] /\ Target[c] = Dialer[k]
<1>1. CASE Push(c) /\ connections[Target[c]] = k
  BY <1>1, TargetAssumption, ConnAssumption
  DEF Push, AppendCommand, ChannelInv, OnceInv, DeliveredInLog, Registrations
<1>2. CASE ReplayNext(k) /\ c = log[Dialer[k]][cursor]
  <2>1. turn = k /\ turn # NoConn /\ cursor \in 1..Len(log[Dialer[k]]) /\ cursor <= cursor
    BY <1>2, ConnAssumption DEF ReplayNext, ChannelInv, TypeOK
  <2> QED
    BY <1>2, <2>1, ConnAssumption DEF ChannelInv, OnceInv, ReplayAhead, History, LogInPlace
<1> QED
  BY <1>1, <1>2, WhoWrites DEF ChannelInv

\* A command is written to a socket once at most, however pushes, hellos and
\* replays follow each other: the replay starts on a socket nothing was written
\* to (apps/control-plane/src/server.ts:165-168), and goes through a log without
\* repetitions.  And no socket gets a command that has a reply.
THEOREM WrittenOnce == Spec => NeverResent
<1>1. ASSUME ChannelInv, [Next]_vars, NEW k \in Conns, NEW c \in Commands, Writes(k, c)
      PROVE  c \notin delivered[k] /\ replies[c] = NoReply /\ replyFile[c] = NoReply
  BY <1>1, WritesOnce, WritesUnanswered DEF ChannelInv
<1>2. ChannelInv /\ [Next]_vars
        => [\A k \in Conns, c \in Commands :
              Writes(k, c) => /\ c \notin delivered[k]
                              /\ replies[c] = NoReply /\ replyFile[c] = NoReply]_vars
  BY <1>1
<1> QED
  BY <1>2, ChannelInvariant, PTL DEF Spec, NeverResent

-----------------------------------------------------------------------------
(* No command left behind, and none started before an earlier one.         *)

Carries(f, c) == f.type = "command" /\ f.cmd = c
Answers(f, c) == f.type = "response" /\ f.cmd = c

Sent(k, c) == \E p \in 1..Len(down[k]) : Carries(down[k][p], c)
IsRunning(c) == \E n \in Nat : <<c, n>> \in running
Replying(k, c) == \E p \in 1..Len(up[k]) : Answers(up[k][p], c)

\* Where a command can be once socket k has served it.
Handled(k, c) ==
  \/ c \in acked \/ replies[c] # NoReply
  \/ Sent(k, c) \/ IsRunning(c) \/ Replying(k, c)

Serving(k) == k \in registered /\ pEnd[k] = "open" /\ dEnd[k] = "open"

\* Every command of a machine that is served was handled or is still to be
\* looked at by the replay.
Accounted(k, i) == (turn = k /\ cursor <= i) \/ Handled(k, log[Dialer[k]][i])
AllAccounted ==
  \A k \in Conns : Serving(k) => \A i \in 1..Len(log[Dialer[k]]) : Accounted(k, i)

\* A command is acked after a run, or by the operator.
Passed(c) == runs[c] > 0 \/ c \in byOperator
AckIsReal == \A c \in acked \cup ackFile : Passed(c)

\* In front of a command on its way are all those pushed before it and not
\* started yet.
Behind(k, p, c) == Passed(c) \/ \E q \in 1..(p - 1) : Carries(down[k][q], c)
SentInOrder ==
  \A k \in Conns, m \in Machines :
    \A p \in 1..Len(down[k]) : \A i, j \in 1..Len(log[m]) :
      i < j /\ Carries(down[k][p], log[m][j]) => Behind(k, p, log[m][i])

OrderInv == AckIsReal /\ AllAccounted /\ SentInOrder /\ StartsInOrder

(* The memory of the plane grows, but for a restart.                       *)

LEMMA AckIsRealStep ==
  ASSUME TypeOK, History, AckIsReal, [Next]_vars
  PROVE  /\ AckIsReal'
         /\ RestartPlane \/ (acked \subseteq acked'
                              /\ \A c \in Commands : replies[c] # NoReply => replies'[c] # NoReply)
         /\ \A c \in Commands : Passed(c) => Passed(c)'
<1> DEFINE Grows == /\ acked \subseteq acked'
                    /\ \A c \in Commands : replies[c] # NoReply => replies'[c] # NoReply
           Kept == \A c \in Commands : Passed(c) => Passed(c)'
           Goal == AckIsReal' /\ (RestartPlane \/ Grows) /\ Kept
<1>1. ASSUME LoadsAtMost PROVE Goal
  <2>1. Grows
    BY <1>1, LoadKeepsReplies DEF LoadsAtMost, LoadMachines, AckedAfterLoad, History
  <2>2. acked' \cup ackFile' \subseteq acked \cup ackFile
    BY <1>1 DEF LoadsAtMost, LoadMachines, AckedAfterLoad
  <2>3. Kept /\ \A c : Passed(c)' <=> Passed(c)
    BY <1>1 DEF LoadsAtMost, Passed
  <2> QED
    BY <2>1, <2>2, <2>3 DEF AckIsReal
<1>2. ASSUME NEW k \in Conns, ReceiveResponse(k) PROVE Goal
  <2>1. PICK n \in Nat : RecordReply(Head(up[k]).cmd, n) /\ n > 0
    <3>1. up[k] # <<>> /\ up[k] \in Seq(UpFrame) /\ Head(up[k]).type = "response"
      BY <1>2 DEF ReceiveResponse, NextFrame, TypeOK
    <3>2. Head(up[k]) \in UpFrame /\ 1 \in 1..Len(up[k]) /\ Head(up[k]) = up[k][1]
      BY <3>1, HeadIsFrame, LenProperties, EmptySeq
    <3>3. Head(up[k]).run > 0 /\ Head(up[k]).run \in Nat
      BY <3>1, <3>2, UpFrameFields DEF History, ResponseIsReal
    <3> QED
      BY <1>2, <3>3 DEF ReceiveResponse
  <2>2. UNCHANGED <<acked, ackFile, runs, byOperator>>
    BY <1>2, <2>1 DEF ReceiveResponse, RecordReply, auxVars
  <2>3. Grows
    BY <2>1, <2>2 DEF RecordReply, NoReply, TypeOK, StoreTypeOK
  <2> QED
    BY <2>2, <2>3 DEF AckIsReal, Passed
<1>3. ASSUME NEW c \in Commands, Ack(c), UNCHANGED runs, byOperator \subseteq byOperator',
             Passed(c)'
      PROVE  Goal
  BY <1>3 DEF Ack, AckIsReal, Passed
<1>4. ASSUME NEW k \in Conns, ReceiveAck(k) PROVE Goal
  <2>1. up[k] # <<>> /\ up[k] \in Seq(UpFrame) /\ Head(up[k]).type = "ack"
    BY <1>4 DEF ReceiveAck, NextFrame, TypeOK
  <2>2. Head(up[k]) \in UpFrame /\ 1 \in 1..Len(up[k]) /\ Head(up[k]) = up[k][1]
    BY <2>1, HeadIsFrame, LenProperties, EmptySeq
  <2>3. PICK c \in Commands : /\ c = Head(up[k]).cmd /\ Ack(c)
                              /\ UNCHANGED <<runs, byOperator>>
                              /\ replies[c] # NoReply
    BY <1>4, <2>1, <2>2, UpFrameFields DEF ReceiveAck, auxVars, History, AckFollowsReply
  <2>4. Passed(c)'
    BY <2>3 DEF Passed, History, ReplyIsReal
  <2> QED
    BY <1>3, <2>3, <2>4
<1>5. ASSUME NEW c \in Commands, OperatorAck(c) PROVE Goal
  BY <1>3, <1>5 DEF OperatorAck, Passed
<1>6. ASSUME NEW c \in Commands, Push(c) PROVE Goal
  <2>1. /\ UNCHANGED <<runs, replyFile, ackFile, byOperator>>
        /\ LoadMachines({Target[c]}) /\ {Target[c]} \in SUBSET Machines
    BY <1>6, TargetAssumption DEF Push, AppendCommand
  <2>2. Grows
    BY <2>1, LoadKeepsReplies DEF LoadMachines, AckedAfterLoad, History
  <2> QED
    BY <2>1, <2>2 DEF LoadMachines, AckedAfterLoad, AckIsReal, Passed
<1>7. ASSUME NEW k \in Conns, ReceiveCommand(k) PROVE Goal
  <2>1. /\ UNCHANGED <<acked, ackFile, replies, byOperator>>
        /\ \A c \in Commands : runs[c] > 0 => runs'[c] > 0
    BY <1>7 DEF ReceiveCommand, storeVars, TypeOK
  <2> QED
    BY <2>1 DEF AckIsReal, Passed, TypeOK, StoreTypeOK
<1>8. ASSUME RestartPlane PROVE Goal
  BY <1>8 DEF RestartPlane, Reopen, AckIsReal, Passed
<1>9. ASSUME NEW k \in Conns, PlaneStep(k) PROVE Goal
  BY <1>1, <1>2, <1>4, <1>9, LoadingActions DEF PlaneStep
<1>10. ASSUME NEW k \in Conns, DaemonStep(k) \/ Dial(k) \/ PlaneNoticesClose(k)
                \/ DaemonNoticesClose(k)
       PROVE  Goal
  BY <1>1, <1>7, <1>10, LoadingActions DEF DaemonStep
<1>11. ASSUME Finish PROVE Goal
  BY <1>1, <1>11, LoadingActions DEF Finish
<1>12. ASSUME Operator PROVE Goal
  BY <1>1, <1>5, <1>6, <1>12, LoadingActions DEF Operator
<1>13. ASSUME Fault PROVE Goal
  BY <1>1, <1>8, <1>13, LoadingActions DEF Fault
<1>14. ASSUME UNCHANGED vars PROVE Goal
  BY <1>1, <1>14, LoadingActions
<1>15. Goal
  BY <1>9, <1>10, <1>11, <1>12, <1>13, <1>14, Zenon DEF Next
<1> QED
  BY <1>15

(* What a step may do to a socket.                                         *)

DownEffect(k) ==
  \/ down'[k] = down[k]
  \/ down'[k] = <<>> /\ dEnd'[k] = "closed"
  \/ pEnd'[k] # "open" /\ \E code : down'[k] = Append(down[k], Close(code))
  \/ ReceiveCommand(k)
  \/ \E c \in Commands :
       /\ pEnd[k] = "open" /\ dEnd[k] = "open" /\ down'[k] = Append(down[k], Command(c))
       /\ \/ Push(c) /\ connections[Target[c]] = k
          \/ ReplayNext(k) /\ c = log[Dialer[k]][cursor]

UpEffect(k) ==
  \/ up'[k] = up[k]
  \/ ~Serving(k)'
  \/ up[k] # <<>> /\ Head(up[k]).type # "response" /\ up'[k] = Tail(up[k])
  \/ ReceiveResponse(k)
  \/ Finish

ServeEffect(k) == Serving(k)' => Serving(k) \/ AcceptHello(k)

Effect == \A k \in Conns : DownEffect(k) /\ UpEffect(k) /\ ServeEffect(k)

LEMMA SocketEffects ==
  ASSUME TypeOK, Registrations
  PROVE  /\ \A k \in Conns : \A code : CloseSocket(k, code) =>
              /\ \A j \in Conns \ {k} : down'[j] = down[j] /\ pEnd'[j] = pEnd[j]
              /\ pEnd'[k] # "open"
              /\ down'[k] = down[k] \/ down'[k] = Append(down[k], Close(code))
         /\ \A k \in Conns : \A t : NextFrame(k, t) =>
              /\ up[k] # <<>> /\ Head(up[k]).type = t /\ up'[k] = Tail(up[k])
              /\ \A j \in Conns \ {k} : up'[j] = up[j]
         /\ \A k \in Conns : PlaneCloseEvent(k) =>
              /\ k \notin registered' /\ registered' \subseteq registered
              /\ \A j \in Conns \ {k} : up'[j] = up[j] /\ pEnd'[j] = pEnd[j]
         /\ \A k \in Conns : DaemonCloseEvent(k) =>
              /\ dEnd'[k] = "closed" /\ down'[k] = <<>>
              /\ \A j \in Conns \ {k} : down'[j] = down[j] /\ dEnd'[j] = dEnd[j]
<1>1. ASSUME NEW k \in Conns, NEW code, CloseSocket(k, code)
      PROVE  /\ \A j \in Conns \ {k} : down'[j] = down[j] /\ pEnd'[j] = pEnd[j]
             /\ pEnd'[k] # "open"
             /\ down'[k] = down[k] \/ down'[k] = Append(down[k], Close(code))
  <2>1. CASE pEnd[k] = "open" /\ dEnd[k] = "open"
    BY <1>1, <2>1 DEF CloseSocket, TypeOK
  <2>2. CASE pEnd[k] = "open" /\ dEnd[k] # "open"
    BY <1>1, <2>2 DEF CloseSocket, TypeOK
  <2>3. CASE pEnd[k] # "open"
    BY <1>1, <2>3 DEF CloseSocket, TypeOK
  <2> QED
    BY <2>1, <2>2, <2>3
<1>2. ASSUME NEW k \in Conns, NEW t, NextFrame(k, t)
      PROVE  /\ up[k] # <<>> /\ Head(up[k]).type = t /\ up'[k] = Tail(up[k])
             /\ \A j \in Conns \ {k} : up'[j] = up[j]
  BY <1>2 DEF NextFrame, TypeOK
<1>3. ASSUME NEW k \in Conns, PlaneCloseEvent(k)
      PROVE  /\ k \notin registered' /\ registered' \subseteq registered
             /\ \A j \in Conns \ {k} : up'[j] = up[j] /\ pEnd'[j] = pEnd[j]
  BY <1>3 DEF PlaneCloseEvent, TypeOK
<1>4. ASSUME NEW k \in Conns, DaemonCloseEvent(k)
      PROVE  /\ dEnd'[k] = "closed" /\ down'[k] = <<>>
             /\ \A j \in Conns \ {k} : down'[j] = down[j] /\ dEnd'[j] = dEnd[j]
  BY <1>4 DEF DaemonCloseEvent, TypeOK
<1> QED
  BY <1>1, <1>2, <1>3, <1>4

LEMMA StepEffects ==
  ASSUME TypeOK, Registrations, [Next]_vars
  PROVE  Effect
<1> USE SocketEffects
<1> USE DEF storeVars, planeVars, daemonVars, netVars, auxVars
<1> DEFINE Calm(j) == /\ down'[j] = down[j] \/ DownEffect(j)
                      /\ up'[j] = up[j] \/ UpEffect(j)
                      /\ Serving(j)' => Serving(j) \/ AcceptHello(j)
<1>1. (\A j \in Conns : Calm(j)) => Effect
  BY DEF Effect, DownEffect, UpEffect, ServeEffect
<1>2. ASSUME UNCHANGED <<up, down, pEnd, dEnd, registered>> PROVE Effect
  BY <1>1, <1>2 DEF Serving
<1>3. ASSUME NEW k \in Conns, RefuseHello(k) PROVE Effect
  <2>1. PICK code : CloseSocket(k, code)
    BY <1>3 DEF RefuseHello
  <2>2. NextFrame(k, "hello") /\ UNCHANGED <<dEnd, registered>>
    BY <1>3 DEF RefuseHello
  <2>3. ASSUME NEW j \in Conns PROVE Calm(j)
    <3>1. CASE j = k
      BY <2>1, <2>2, <3>1 DEF DownEffect, UpEffect, Serving
    <3>2. CASE j # k
      BY <2>1, <2>2, <3>2 DEF Serving
    <3> QED
      BY <3>1, <3>2
  <2> QED
    BY <1>1, <2>3
<1>4. ASSUME NEW k \in Conns, AcceptHello(k) PROVE Effect
  <2>1. /\ NextFrame(k, "hello") /\ UNCHANGED <<pEnd, dEnd, down>>
        /\ registered' = registered \cup {k}
    BY <1>4 DEF AcceptHello
  <2>2. ASSUME NEW j \in Conns PROVE Calm(j)
    <3>1. CASE j = k
      BY <1>4, <2>1, <3>1 DEF UpEffect
    <3>2. CASE j # k
      BY <2>1, <3>2 DEF Serving
    <3> QED
      BY <3>1, <3>2
  <2> QED
    BY <1>1, <2>2
<1>5. ASSUME NEW k \in Conns, BeginReplay(k) \/ EndReplay(k) PROVE Effect
  BY <1>2, <1>5 DEF BeginReplay, EndReplay
<1>6. ASSUME NEW k \in Conns, ReplayNext(k) PROVE Effect
  <2>1. UNCHANGED <<up, pEnd, dEnd, registered>>
    BY <1>6 DEF ReplayNext
  <2>2. log[Dialer[k]][cursor] \in Commands
    BY <1>6, ConnAssumption, ElementOfSeq DEF ReplayNext, TypeOK, StoreTypeOK
  <2>3. UNCHANGED down \/ SendCommand(k, log[Dialer[k]][cursor])
    BY <1>6 DEF ReplayNext
  <2>4. ASSUME NEW j \in Conns PROVE Calm(j)
    BY <1>6, <2>1, <2>2, <2>3, SendsOnlyThere DEF DownEffect, Serving
  <2> QED
    BY <1>1, <2>4
<1>7. ASSUME NEW k \in Conns, ReceiveResponse(k) \/ ReceiveAck(k) PROVE Effect
  <2>1. NextFrame(k, "response") \/ NextFrame(k, "ack")
    BY <1>7 DEF ReceiveResponse, ReceiveAck
  <2>2. UNCHANGED <<down, pEnd, dEnd, registered>>
    BY <1>7 DEF ReceiveResponse, ReceiveAck
  <2>3. ReceiveResponse(k) \/ NextFrame(k, "ack")
    BY <1>7 DEF ReceiveAck
  <2>4. ASSUME NEW j \in Conns PROVE Calm(j)
    BY <2>1, <2>2, <2>3 DEF UpEffect, Serving
  <2> QED
    BY <1>1, <2>4
<1>8. ASSUME NEW k \in Conns, ReceiveCommand(k) PROVE Effect
  <2>1. /\ UNCHANGED <<up, pEnd, dEnd, registered>>
        /\ \A j \in Conns \ {k} : down'[j] = down[j]
    BY <1>8 DEF ReceiveCommand, TypeOK
  <2> QED
    BY <1>1, <1>8, <2>1 DEF DownEffect, Serving
<1>9. ASSUME NEW k \in Conns, DaemonCloseEvent(k), UNCHANGED <<pEnd, registered>>,
             \A j \in Conns \ {k} : up'[j] = up[j]
      PROVE  Effect
  <2>1. ASSUME NEW j \in Conns PROVE Calm(j)
    BY <1>9 DEF DownEffect, UpEffect, Serving
  <2> QED
    BY <1>1, <2>1
<1>10. ASSUME NEW k \in Conns, ReceiveClose(k) \/ DaemonNoticesClose(k) PROVE Effect
  BY <1>9, <1>10 DEF ReceiveClose, DaemonNoticesClose
<1>11. ASSUME NEW k \in Conns, DaemonLosesSocket(k) PROVE Effect
  BY <1>9, <1>11 DEF DaemonLosesSocket, TypeOK
<1>12. ASSUME NEW k \in Conns, PlaneLosesSocket(k) \/ PlaneNoticesClose(k) PROVE Effect
  <2>1. PlaneCloseEvent(k) /\ UNCHANGED <<down, dEnd>>
    BY <1>12 DEF PlaneLosesSocket, PlaneNoticesClose
  <2>2. ASSUME NEW j \in Conns PROVE Calm(j)
    BY <2>1 DEF UpEffect, Serving
  <2> QED
    BY <1>1, <2>2
<1>13. ASSUME NEW k \in Conns, Dial(k) PROVE Effect
  <2>1. /\ k \notin registered' /\ UNCHANGED <<down, registered>>
        /\ \A j \in Conns \ {k} : up'[j] = up[j] /\ pEnd'[j] = pEnd[j] /\ dEnd'[j] = dEnd[j]
    BY <1>13 DEF Dial, Registrations, TypeOK
  <2>2. ASSUME NEW j \in Conns PROVE Calm(j)
    BY <2>1 DEF UpEffect, Serving
  <2> QED
    BY <1>1, <2>2
<1>14. ASSUME NEW c \in Commands, Push(c) PROVE Effect
  <2>1. UNCHANGED <<up, pEnd, dEnd, registered>>
    BY <1>14 DEF Push
  <2>2. UNCHANGED down \/ (/\ connections[Target[c]] \in Conns
                           /\ SendCommand(connections[Target[c]], c))
    BY <1>14, TargetAssumption DEF Push, TypeOK
  <2>3. ASSUME NEW j \in Conns PROVE Calm(j)
    BY <1>14, <2>1, <2>2, SendsOnlyThere DEF DownEffect, Serving
  <2> QED
    BY <1>1, <2>3
<1>15. ASSUME NEW c \in Commands, OperatorAck(c) \/ OperatorRead(c) PROVE Effect
  BY <1>2, <1>15 DEF OperatorAck, OperatorRead
<1>16. ASSUME NEW m \in Machines, OperatorRevoke(m) PROVE Effect
  <2>1. UNCHANGED <<up, dEnd, registered>>
    BY <1>16 DEF OperatorRevoke
  <2>2. CASE connections[m] = NoConn
    BY <1>2, <1>16, <2>1, <2>2 DEF OperatorRevoke
  <2>3. CASE connections[m] # NoConn
    <3>1. connections[m] \in Conns /\ CloseSocket(connections[m], MachineRevoked)
      BY <1>16, <2>3 DEF OperatorRevoke, TypeOK
    <3>2. ASSUME NEW j \in Conns PROVE Calm(j)
      BY <2>1, <3>1 DEF DownEffect, Serving
    <3> QED
      BY <1>1, <3>2
  <2> QED
    BY <2>2, <2>3
<1>17. ASSUME NEW m \in Machines, OperatorReadmit(m) PROVE Effect
  BY <1>2, <1>17 DEF OperatorReadmit
<1>18. ASSUME Finish PROVE Effect
  <2>1. UNCHANGED <<down, pEnd, dEnd, registered>>
    BY <1>18 DEF Finish, FinishCommand
  <2> QED
    BY <1>1, <1>18, <2>1 DEF UpEffect, Serving
<1>19. ASSUME NEW m \in Machines, RestartDaemon(m) PROVE Effect
  <2>1. /\ UNCHANGED <<up, pEnd, registered>>
        /\ \A j \in Conns : \/ down'[j] = down[j] /\ dEnd'[j] = dEnd[j]
                            \/ down'[j] = <<>> /\ dEnd'[j] = "closed"
    BY <1>19 DEF RestartDaemon
  <2> QED
    BY <1>1, <2>1 DEF DownEffect, Serving
<1>20. ASSUME RestartPlane PROVE Effect
  <2>1. UNCHANGED down /\ registered' = {}
    BY <1>20 DEF RestartPlane
  <2> QED
    BY <1>1, <2>1 DEF UpEffect, Serving
<1>21. ASSUME UNCHANGED vars PROVE Effect
  BY <1>2, <1>21 DEF vars
<1>22. ASSUME NEW k \in Conns, PlaneStep(k) PROVE Effect
  BY <1>3, <1>4, <1>5, <1>6, <1>7, <1>22, Zenon DEF PlaneStep
<1>23. ASSUME Operator PROVE Effect
  BY <1>14, <1>15, <1>16, <1>17, <1>23, Zenon DEF Operator
<1>24. ASSUME Fault PROVE Effect
  BY <1>11, <1>12, <1>19, <1>20, <1>24, Zenon DEF Fault
<1>25. ASSUME NEW k \in Conns, DaemonStep(k) PROVE Effect
  BY <1>8, <1>10, <1>25, Zenon DEF DaemonStep
<1> QED
  BY <1>10, <1>12, <1>13, <1>18, <1>21, <1>22, <1>23, <1>24, <1>25, Zenon DEF Next

\* Which steps touch what all sockets share.
LEMMA SharedEffects ==
  ASSUME TypeOK, [Next]_vars
  PROVE  /\ UNCHANGED log \/ \E c \in Commands : Push(c)
         /\ UNCHANGED runs \/ \E k \in Conns : ReceiveCommand(k)
         /\ running \subseteq running' \/ Finish \/ \E m \in Machines : RestartDaemon(m)
         /\ \/ UNCHANGED <<turn, cursor>> \/ RestartPlane
            \/ \E k \in Conns : AcceptHello(k) \/ BeginReplay(k) \/ ReplayNext(k) \/ EndReplay(k)
<1> DEFINE Goal ==
  /\ UNCHANGED log \/ \E c \in Commands : Push(c)
  /\ UNCHANGED runs \/ \E k \in Conns : ReceiveCommand(k)
  /\ running \subseteq running' \/ Finish \/ \E m \in Machines : RestartDaemon(m)
  /\ \/ UNCHANGED <<turn, cursor>> \/ RestartPlane
     \/ \E k \in Conns : AcceptHello(k) \/ BeginReplay(k) \/ ReplayNext(k) \/ EndReplay(k)
<1> USE DEF storeVars, planeVars, daemonVars, netVars, auxVars
<1>1. ASSUME NEW k \in Conns, RefuseHello(k) PROVE Goal
  BY <1>1 DEF RefuseHello
<1>2. ASSUME NEW k \in Conns, AcceptHello(k) PROVE Goal
  BY <1>2 DEF AcceptHello, Register
<1>3. ASSUME NEW k \in Conns, BeginReplay(k) \/ EndReplay(k) PROVE Goal
  BY <1>3 DEF BeginReplay, EndReplay, ReadCommands
<1>4. ASSUME NEW k \in Conns, ReplayNext(k) PROVE Goal
  BY <1>4 DEF ReplayNext, ReadReply
<1>5. ASSUME NEW k \in Conns, ReceiveResponse(k) \/ ReceiveAck(k) PROVE Goal
  BY <1>5 DEF ReceiveResponse, ReceiveAck, RecordReply, Ack
<1>6. ASSUME NEW k \in Conns, DaemonStep(k) \/ DaemonNoticesClose(k) PROVE Goal
  BY <1>6 DEF DaemonStep, ReceiveCommand, ReceiveClose, DaemonNoticesClose
<1>7. ASSUME NEW k \in Conns, Dial(k) \/ PlaneNoticesClose(k) \/ PlaneLosesSocket(k)
                \/ DaemonLosesSocket(k)
      PROVE  Goal
  BY <1>7 DEF Dial, PlaneNoticesClose, PlaneLosesSocket, DaemonLosesSocket
<1>8. ASSUME NEW c \in Commands, Push(c) \/ OperatorAck(c) \/ OperatorRead(c) PROVE Goal
  BY <1>8 DEF Push, OperatorAck, OperatorRead, Ack
<1>9. ASSUME NEW m \in Machines, OperatorRevoke(m) \/ OperatorReadmit(m) PROVE Goal
  BY <1>9 DEF OperatorRevoke, OperatorReadmit, Revoke, ClearRevocation
<1>10. ASSUME NEW m \in Machines, RestartDaemon(m) PROVE Goal
  BY <1>10 DEF RestartDaemon
<1>11. ASSUME RestartPlane PROVE Goal
  BY <1>11 DEF RestartPlane, Reopen
<1>12. ASSUME Finish PROVE Goal
  BY <1>12 DEF Finish, FinishCommand
<1>13. UNCHANGED vars => Goal
  BY DEF vars
<1>14. ASSUME NEW k \in Conns, PlaneStep(k) PROVE Goal
  BY <1>1, <1>2, <1>3, <1>4, <1>5, <1>14, Zenon DEF PlaneStep
<1>15. ASSUME Operator PROVE Goal
  BY <1>8, <1>9, <1>15, Zenon DEF Operator
<1>16. ASSUME Fault PROVE Goal
  BY <1>7, <1>10, <1>11, <1>16, Zenon DEF Fault
<1>17. Goal
  BY <1>6, <1>7, <1>12, <1>13, <1>14, <1>15, <1>16, Zenon DEF Next
<1> QED
  BY <1>17

\* A command that is handled on a socket stays so as long as the socket serves.
LEMMA HandledStays ==
  ASSUME TypeOK, TypeOK', Registrations, History, AckIsReal, [Next]_vars,
         NEW k \in Conns, Serving(k), Serving(k)',
         NEW c \in Commands, Target[c] = Dialer[k], Handled(k, c)
  PROVE  Handled(k, c)'
<1>1. DownEffect(k) /\ UpEffect(k)
  BY StepEffects DEF Effect
<1>2. ~RestartPlane
  BY DEF RestartPlane, Serving
<1>3. CASE c \in acked \/ replies[c] # NoReply
  BY <1>2, <1>3, AckIsRealStep DEF Handled
<1>4. ASSUME Sent(k, c) PROVE Handled(k, c)'
  <2>0. /\ down[k] \in Seq(DownFrame) /\ Len(down[k]) \in Nat /\ dEnd'[k] = "open"
        /\ pEnd'[k] = "open"
    BY LenProperties DEF TypeOK, Serving
  <2>1. PICK p \in 1..Len(down[k]) : Carries(down[k][p], c)
    BY <1>4 DEF Sent
  <2>2. CASE down'[k] = down[k]
    BY <2>1, <2>2 DEF Handled, Sent
  <2>3. ASSUME NEW d \in Commands, down'[k] = Append(down[k], Command(d))
        PROVE  Handled(k, c)'
    <3>1. Len(down'[k]) = Len(down[k]) + 1 /\ down'[k][p] = down[k][p]
      BY <2>0, <2>1, <2>3, FrameTypes, AppendProperties
    <3> QED
      BY <2>0, <2>1, <3>1 DEF Handled, Sent
  <2>4. CASE ReceiveCommand(k)
    <3>1. /\ down[k] # <<>> /\ down'[k] = Tail(down[k])
          /\ <<Head(down[k]).cmd, runs[Head(down[k]).cmd] + 1>> \in running'
      BY <2>4 DEF ReceiveCommand, TypeOK
    <3>2. CASE p = 1
      <4>1. Head(down[k]).cmd = c /\ runs[c] + 1 \in Nat
        BY <2>0, <2>1, <3>1, <3>2 DEF Carries, TypeOK
      <4> QED
        BY <3>1, <4>1 DEF Handled, IsRunning
    <3>3. CASE p # 1
      <4>1. /\ Len(down'[k]) = Len(down[k]) - 1
            /\ \A q \in 1..Len(down'[k]) : down'[k][q] = down[k][q + 1]
        BY <2>0, <3>1, HeadTailProperties
      <4>2. p - 1 \in 1..Len(down'[k]) /\ down'[k][p - 1] = down[k][p]
        BY <2>0, <2>1, <3>3, <4>1
      <4> QED
        BY <2>1, <4>2 DEF Handled, Sent
    <3> QED
      BY <3>2, <3>3
  <2> QED
    BY <1>1, <2>0, <2>2, <2>3, <2>4 DEF DownEffect
<1>5. \A r \in running : /\ r[1] \in Commands /\ r[2] \in Nat
                         /\ Response(r[1], r[2]) \in UpFrame /\ AckFrame(r[1]) \in UpFrame
  BY FrameTypes DEF TypeOK
<1>6. up[k] \in Seq(UpFrame) /\ Len(up[k]) \in Nat
  BY LenProperties DEF TypeOK
<1>7. ASSUME NEW r \in running, FinishCommand(r[1], r[2])
      PROVE  /\ \A p \in 1..Len(up[k]) : p \in 1..Len(up'[k]) /\ up'[k][p] = up[k][p]
             /\ r[1] = c => Replying(k, c)'
  <2>1. up'[k] = up[k] \/ up'[k] = Append(Append(up[k], Response(r[1], r[2])), AckFrame(r[1]))
    BY <1>7 DEF FinishCommand
  <2>2. r[1] = c => up'[k] = Append(Append(up[k], Response(r[1], r[2])), AckFrame(r[1]))
    BY <1>7 DEF FinishCommand, Serving
  <2>3. PICK s \in Seq(UpFrame) : s = Append(up[k], Response(r[1], r[2]))
    BY <1>5, <1>6, AppendProperties
  <2>4. /\ Len(s) = Len(up[k]) + 1 /\ s[Len(up[k]) + 1] = Response(r[1], r[2])
        /\ \A p \in 1..Len(up[k]) : s[p] = up[k][p]
    BY <1>5, <1>6, <2>3, AppendProperties
  <2>5. CASE up'[k] = Append(s, AckFrame(r[1]))
    <3>1. /\ Len(up'[k]) = Len(s) + 1
          /\ \A p \in 1..Len(s) : up'[k][p] = s[p]
      BY <1>5, <2>3, <2>5, AppendProperties
    <3>2. ASSUME NEW p \in 1..Len(up[k]) PROVE p \in 1..Len(up'[k]) /\ up'[k][p] = up[k][p]
      <4>1. p \in 1..Len(s) /\ p \in 1..Len(up'[k])
        BY <1>6, <2>4, <3>1
      <4> QED
        BY <2>4, <3>1, <4>1
    <3>3. /\ Len(s) \in 1..Len(up'[k])
          /\ up'[k][Len(s)] = Response(r[1], r[2])
      <4>1. Len(s) \in 1..Len(s) /\ Len(s) \in 1..Len(up'[k])
        BY <1>6, <2>4, <3>1
      <4> QED
        BY <2>4, <3>1, <4>1
    <3>4. r[1] = c => Replying(k, c)'
      BY <3>3 DEF Replying, Answers, Response
    <3> QED
      BY <3>2, <3>4
  <2> QED
    BY <2>1, <2>2, <2>3, <2>5
<1>8. ASSUME Replying(k, c) PROVE Handled(k, c)'
  <2>1. PICK p \in 1..Len(up[k]) : Answers(up[k][p], c)
    BY <1>8 DEF Replying
  <2>2. CASE up'[k] = up[k]
    BY <2>1, <2>2 DEF Handled, Replying
  <2>3. ASSUME up[k] # <<>>, up'[k] = Tail(up[k]), p # 1 PROVE Handled(k, c)'
    <3>1. /\ Len(up'[k]) = Len(up[k]) - 1
          /\ \A q \in 1..Len(up'[k]) : up'[k][q] = up[k][q + 1]
      BY <1>6, <2>3, HeadTailProperties
    <3>2. p - 1 \in 1..Len(up'[k]) /\ up'[k][p - 1] = up[k][p]
      BY <1>6, <2>1, <2>3, <3>1
    <3> QED
      BY <2>1, <3>2 DEF Handled, Replying
  <2>4. CASE up[k] # <<>> /\ Head(up[k]).type # "response" /\ up'[k] = Tail(up[k])
    BY <1>6, <2>1, <2>3, <2>4 DEF Answers
  <2>5. CASE ReceiveResponse(k)
    <3>1. up[k] # <<>> /\ up'[k] = Tail(up[k]) /\ Head(up[k]) = up[k][1]
          /\ Head(up[k]).type = "response" /\ 1 \in 1..Len(up[k])
      BY <1>6, <2>5, EmptySeq DEF ReceiveResponse, NextFrame, TypeOK
    <3>2. CASE p = 1
      <4>1. up[k][1].run > 0 /\ up[k][1].cmd = c
        BY <2>1, <3>1, <3>2 DEF Answers, History, ResponseIsReal
      <4>2. up[k][1].run \in Nat
        BY <3>1, <1>6, ElementOfSeq, UpFrameFields
      <4>3. replies' = [replies EXCEPT ![c] = up[k][1].run]
        BY <2>5, <3>1, <4>1 DEF ReceiveResponse, RecordReply
      <4>4. replies'[c] # NoReply
        BY <4>1, <4>2, <4>3 DEF NoReply, TypeOK, StoreTypeOK
      <4> QED
        BY <4>4 DEF Handled
    <3> QED
      BY <2>3, <3>1, <3>2
  <2>6. CASE Finish
    BY <1>7, <2>1, <2>6 DEF Finish, Handled, Replying
  <2> QED
    BY <1>1, <2>2, <2>4, <2>5, <2>6 DEF UpEffect
<1>9. ASSUME IsRunning(c) PROVE Handled(k, c)'
  <2>1. PICK n \in Nat : <<c, n>> \in running
    BY <1>9 DEF IsRunning
  <2>2. CASE running \subseteq running'
    BY <2>1, <2>2 DEF Handled, IsRunning
  <2>3. ASSUME NEW m \in Machines, RestartDaemon(m) PROVE Handled(k, c)'
    <3>1. Target[c] # m
      BY <2>3 DEF RestartDaemon, Serving
    <3> QED
      BY <2>1, <2>3, <3>1 DEF RestartDaemon, Handled, IsRunning
  <2>4. ASSUME NEW r \in running, FinishCommand(r[1], r[2]) PROVE Handled(k, c)'
    <3>1. running' = running \ {<<r[1], r[2]>>}
      BY <2>4 DEF FinishCommand
    <3>2. r[1] = c \/ <<c, n>> \in running'
      BY <2>1, <3>1
    <3> QED
      BY <1>7, <2>4, <3>2 DEF Handled, IsRunning
  <2> QED
    BY <2>2, <2>3, <2>4, SharedEffects DEF Finish
<1> QED
  BY <1>3, <1>4, <1>8, <1>9 DEF Handled

\* What a serving socket sends is then handled on it.
LEMMA WrittenIsHandled ==
  ASSUME TypeOK, NEW k \in Conns, NEW c \in Commands,
         SendCommand(k, c), pEnd[k] = "open", dEnd[k] = "open"
  PROVE  Handled(k, c)'
<1>1. down'[k] = Append(down[k], Command(c))
  BY SendsOnlyThere
<1>2. /\ Len(down[k]) \in Nat /\ Len(down'[k]) = Len(down[k]) + 1
      /\ down'[k][Len(down[k]) + 1] = Command(c)
  BY <1>1, FrameTypes, AppendProperties, LenProperties DEF TypeOK
<1> QED
  BY <1>2 DEF Handled, Sent, Carries, Command

LEMMA AccountedStep ==
  ASSUME ChannelInv, TypeOK', AckIsReal, AllAccounted, [Next]_vars
  PROVE  AllAccounted'
<1> USE DEF ChannelInv
<1>1. SUFFICES ASSUME NEW k \in Conns, Serving(k)', NEW i \in 1..Len(log'[Dialer[k]])
               PROVE  Accounted(k, i)'
  BY DEF AllAccounted
<1> DEFINE m == Dialer[k]
<1>0. /\ turn' = k /\ cursor' <= i => Accounted(k, i)'
      /\ \A d : log'[m][i] = d /\ Handled(k, d)' => Accounted(k, i)'
  BY DEF Accounted, Handled, Sent, IsRunning, Replying, Carries, Answers
<1>2. m \in Machines /\ log[m] \in Seq(Commands) /\ Len(log[m]) \in Nat
  BY ConnAssumption, LenProperties DEF TypeOK, StoreTypeOK
<1>3. CASE AcceptHello(k)
  BY <1>0, <1>1, <1>2, <1>3 DEF AcceptHello
<1>4. CASE ~AcceptHello(k)
  <2>1. Serving(k)
    BY <1>1, <1>4, StepEffects DEF Effect, ServeEffect
  <2>2. ASSUME i \in 1..Len(log[m]), log'[m][i] = log[m][i]
        PROVE  Accounted(k, i)'
    <3> DEFINE c == log[m][i]
    <3>1. c \in Commands /\ Target[c] = m
      BY <1>2, <2>2, ElementOfSeq DEF History, LogInPlace
    <3>3. PICK d \in Commands : d = c
      BY <3>1
    <3>4. Handled(k, d) => Handled(k, d)'
      BY <1>1, <2>1, <3>1, <3>3, HandledStays
    <3>5. SUFFICES ASSUME turn = k, cursor <= i
                   PROVE  (turn' = k /\ cursor' <= i) \/ Handled(k, d)'
      <4>1. Accounted(k, i)
        BY <2>1, <2>2 DEF AllAccounted
      <4> QED
        BY <1>0, <2>2, <3>3, <3>4, <4>1 DEF Accounted
    <3>6. CASE UNCHANGED <<turn, cursor>>
      BY <3>5, <3>6
    <3>7. CASE RestartPlane
      BY <1>1, <3>7 DEF RestartPlane, Serving
    <3>8. ASSUME NEW j \in Conns, AcceptHello(j) PROVE FALSE
      BY <1>4, <3>5, <3>8, ConnAssumption DEF AcceptHello, NextFrame
    <3>9. ASSUME NEW j \in Conns, BeginReplay(j) PROVE turn' = k /\ cursor' <= i
      BY <2>2, <3>5, <3>9 DEF BeginReplay
    <3>10. ASSUME NEW j \in Conns, EndReplay(j) PROVE FALSE
      BY <1>2, <2>2, <3>5, <3>10 DEF EndReplay, TypeOK
    <3>11. ASSUME NEW j \in Conns, ReplayNext(j)
           PROVE  (turn' = k /\ cursor' <= i) \/ Handled(k, d)'
      <4>1. j = k /\ turn' = turn /\ cursor' = cursor + 1 /\ cursor \in Nat
        BY <3>5, <3>11 DEF ReplayNext, TypeOK
      <4>2. CASE i = cursor
        <5>0. ~(cursor <= Watermark)
          BY <3>11, <4>1 DEF ReplayNext, Watermark
        <5>1. \/ c \in acked /\ UNCHANGED acked
              \/ replies'[c] # NoReply
              \/ SendCommand(k, c)
          BY <3>11, <4>1, <4>2, <5>0 DEF ReplayNext, storeVars
        <5> QED
          BY <2>1, <3>1, <3>3, <5>1, WrittenIsHandled DEF Handled, Serving
      <4>3. CASE i # cursor
        BY <1>2, <2>2, <3>5, <4>1, <4>3
      <4> QED
        BY <4>2, <4>3
    <3> QED
      BY <3>6, <3>7, <3>8, <3>9, <3>10, <3>11, SharedEffects
  <2>3. CASE UNCHANGED log
    BY <1>1, <2>2, <2>3
  <2>4. ASSUME NEW c \in Commands, Push(c)
        PROVE  Accounted(k, i)'
    <3>1. log' = [log EXCEPT ![Target[c]] = Append(@, c)] /\ Target[c] \in Machines
      BY <2>4, TargetAssumption DEF Push, AppendCommand
    <3>2. CASE Target[c] # m
      BY <1>1, <1>2, <2>2, <3>1, <3>2 DEF TypeOK, StoreTypeOK
    <3>3. CASE Target[c] = m
      <4>1. /\ Len(log'[m]) = Len(log[m]) + 1
            /\ \A h \in 1..Len(log[m]) : log'[m][h] = log[m][h]
            /\ log'[m][Len(log[m]) + 1] = c
        <5>1. log'[m] = Append(log[m], c)
          BY <1>2, <3>1, <3>3 DEF TypeOK, StoreTypeOK
        <5> QED
          BY <1>2, <5>1, AppendProperties
      <4>2. CASE i \in 1..Len(log[m])
        <5>1. log'[m][i] = log[m][i]
          BY <4>1, <4>2
        <5> QED
          BY <2>2, <4>2, <5>1
      <4>3. CASE i = Len(log[m]) + 1
        <5>1. connections[m] = k /\ k # NoConn
          BY <2>1, ConnAssumption DEF Serving, Registrations, OneLiveSocket
        <5>2. SendCommand(k, c)
          BY <2>4, <3>3, <5>1 DEF Push
        <5>3. Handled(k, c)'
          BY <2>1, <5>2, WrittenIsHandled DEF Serving
        <5> QED
          BY <1>0, <4>1, <4>3, <5>3
      <4> QED
        BY <1>1, <1>2, <4>1, <4>2, <4>3
    <3> QED
      BY <3>2, <3>3
  <2> QED
    BY <2>3, <2>4, SharedEffects
<1> QED
  BY <1>3, <1>4

\* A command that is handled on a socket was started, acked, or is on its way.
LEMMA HandledPassed ==
  ASSUME TypeOK, History, AckIsReal, NEW k \in Conns, NEW c \in Commands, Handled(k, c)
  PROVE  Passed(c) \/ Sent(k, c)
<1>1. CASE c \in acked \/ replies[c] # NoReply
  BY <1>1 DEF AckIsReal, History, ReplyIsReal, Passed
<1>2. CASE IsRunning(c)
  BY <1>2 DEF IsRunning, History, RunningIsReal, Passed
<1>3. CASE Replying(k, c)
  BY <1>3 DEF Replying, Answers, History, ResponseIsReal, Passed
<1> QED
  BY <1>1, <1>2, <1>3 DEF Handled

\* A log keeps its entries, and its next one is a new command.
LEMMA LogEffects ==
  ASSUME TypeOK, LogInPlace, [Next]_vars, NEW m \in Machines
  PROVE  /\ log[m] \in Seq(Commands) /\ Len(log[m]) \in Nat
         /\ \A j \in 1..Len(log'[m]) :
              \/ /\ j \in 1..Len(log[m]) /\ log'[m][j] = log[m][j]
                 /\ log[m][j] \in Commands /\ InLog(log[m][j])
              \/ \E d \in Commands : /\ j = Len(log[m]) + 1 /\ log'[m][j] = d
                                     /\ Push(d) /\ ~InLog(d) /\ Target[d] = m
<1>1. log[m] \in Seq(Commands) /\ Len(log[m]) \in Nat
  BY LenProperties DEF TypeOK, StoreTypeOK
<1>2. ASSUME NEW j \in 1..Len(log[m]) PROVE log[m][j] \in Commands /\ InLog(log[m][j])
  <2>1. log[m][j] \in Commands /\ Target[log[m][j]] = m
    BY <1>1, ElementOfSeq DEF LogInPlace
  <2> QED
    BY <2>1 DEF InLog
<1>3. CASE UNCHANGED log
  BY <1>1, <1>2, <1>3
<1>4. ASSUME NEW d \in Commands, Push(d), NEW j \in 1..Len(log'[m])
      PROVE  \/ j \in 1..Len(log[m]) /\ log'[m][j] = log[m][j]
             \/ /\ j = Len(log[m]) + 1 /\ log'[m][j] = d /\ ~InLog(d) /\ Target[d] = m
  <2>1. log' = [log EXCEPT ![Target[d]] = Append(@, d)] /\ ~InLog(d)
    BY <1>4 DEF Push, AppendCommand
  <2>2. CASE Target[d] # m
    <3>1. log'[m] = log[m]
      BY <2>1, <2>2 DEF TypeOK, StoreTypeOK
    <3> QED
      BY <1>4, <3>1
  <2>3. CASE Target[d] = m
    <3>1. log'[m] = Append(log[m], d)
      BY <2>1, <2>3 DEF TypeOK, StoreTypeOK
    <3>2. /\ Len(log'[m]) = Len(log[m]) + 1
          /\ \A h \in 1..Len(log[m]) : log'[m][h] = log[m][h]
          /\ log'[m][Len(log[m]) + 1] = d
      BY <1>1, <3>1, AppendProperties
    <3>3. j \in 1..Len(log[m]) \/ j = Len(log[m]) + 1
      BY <1>1, <1>4, <3>2
    <3> QED
      BY <2>1, <2>3, <3>2, <3>3
  <2> QED
    BY <2>2, <2>3
<1>5. ASSUME NEW j \in 1..Len(log'[m])
      PROVE  \/ /\ j \in 1..Len(log[m]) /\ log'[m][j] = log[m][j]
                /\ log[m][j] \in Commands /\ InLog(log[m][j])
             \/ \E d \in Commands : /\ j = Len(log[m]) + 1 /\ log'[m][j] = d
                                    /\ Push(d) /\ ~InLog(d) /\ Target[d] = m
  BY <1>2, <1>3, <1>4, SharedEffects
<1> QED
  BY <1>1, <1>5

\* What is written to a socket goes behind all that was pushed before it.
LEMMA WrittenBehind ==
  ASSUME ChannelInv, AckIsReal, AllAccounted, [Next]_vars,
         NEW k \in Conns, NEW b \in Commands, pEnd[k] = "open", dEnd[k] = "open",
         \/ Push(b) /\ connections[Target[b]] = k
         \/ ReplayNext(k) /\ b = log[Dialer[k]][cursor],
         NEW m \in Machines, NEW i \in 1..Len(log[m]), NEW j \in 1..Len(log'[m]),
         i < j, log'[m][j] = b
  PROVE  Passed(log[m][i]) \/ Sent(k, log[m][i])
<1> USE DEF ChannelInv
<1>1. log[m] \in Seq(Commands) /\ Len(log[m]) \in Nat /\ log[m][i] \in Commands
  BY LogEffects, ElementOfSeq DEF History
<1>2. m = Dialer[k] /\ k \in registered /\ ~(turn = k /\ cursor <= i)
  <2>1. CASE Push(b) /\ connections[Target[b]] = k
    <3>1. ~InLog(b) /\ turn = NoConn
      BY <2>1 DEF Push, AppendCommand
    <3>2. Target[b] = m
      BY <3>1, LogEffects DEF History
    <3> QED
      BY <2>1, <3>1, <3>2, ConnAssumption DEF Registrations
  <2>2. CASE ReplayNext(k) /\ b = log[Dialer[k]][cursor]
    <3>1. turn = k /\ k \in registered /\ cursor \in 1..Len(log[Dialer[k]]) /\ log' = log
      BY <2>2, ConnAssumption DEF ReplayNext, ReadReply, storeVars, Registrations
    <3>2. m = Dialer[k]
      BY <2>2, <3>1, ConnAssumption DEF History, LogInPlace
    <3>3. j = cursor
      BY <2>2, <3>1, <3>2 DEF OnceInv, LogDistinct
    <3> QED
      BY <1>1, <3>1, <3>2, <3>3 DEF TypeOK
  <2> QED
    BY <2>1, <2>2
<1>3. Handled(k, log[m][i])
  BY <1>2 DEF AllAccounted, Serving, Accounted
<1> QED
  BY <1>1, <1>3, HandledPassed

LEMMA SentInOrderStep ==
  ASSUME ChannelInv, TypeOK', AckIsReal, AllAccounted, SentInOrder, [Next]_vars
  PROVE  SentInOrder'
<1> USE DEF ChannelInv
<1>1. SUFFICES ASSUME NEW k \in Conns, NEW m \in Machines, NEW p \in 1..Len(down'[k]),
                      NEW i \in 1..Len(log'[m]), NEW j \in 1..Len(log'[m]), i < j
               PROVE  (Carries(down[k][p], log[m][j]) => Behind(k, p, log[m][i]))'
  BY DEF SentInOrder
<1>2. i \in 1..Len(log[m]) /\ log'[m][i] = log[m][i] /\ log[m][i] \in Commands
  BY <1>1, LogEffects DEF History
<1>3. PICK a, b : a \in Commands /\ a = log[m][i] /\ b = log'[m][j]
  BY <1>2
<1>4. SUFFICES ASSUME Carries(down'[k][p], b)
               PROVE  Passed(a)' \/ \E q \in 1..(p - 1) : Carries(down'[k][q], a)
  BY <1>2, <1>3 DEF Behind, Passed, Carries
<1>5. Passed(a) => Passed(a)'
  BY <1>3, AckIsRealStep
<1>6. down[k] \in Seq(DownFrame) /\ Len(down[k]) \in Nat
  BY LenProperties DEF TypeOK
<1>7. \A q \in 1..Len(down[k]) : Carries(down[k][q], b) => Behind(k, q, a)
  <2>1. ASSUME NEW q \in 1..Len(down[k]), Carries(down[k][q], b) PROVE InLog(b)
    BY <2>1 DEF Carries, History, FlightIsSubmitted
  <2>2. CASE j \in 1..Len(log[m]) /\ log'[m][j] = log[m][j]
    BY <1>1, <1>2, <1>3, <2>2 DEF SentInOrder
  <2>3. CASE ~InLog(b)
    BY <2>1, <2>3
  <2> QED
    BY <1>3, <2>2, <2>3, LogEffects DEF History
<1>8. ASSUME p \in 1..Len(down[k]), \A q \in 1..Len(down[k]) : down'[k][q] = down[k][q]
      PROVE  Passed(a)' \/ \E q \in 1..(p - 1) : Carries(down'[k][q], a)
  <2>1. Behind(k, p, a)
    BY <1>4, <1>7, <1>8
  <2>2. \A q \in 1..(p - 1) : q \in 1..Len(down[k])
    BY <1>6, <1>8
  <2> QED
    BY <1>5, <1>8, <2>1, <2>2 DEF Behind
<1>9. CASE down'[k] = down[k]
  BY <1>1, <1>8, <1>9
<1>10. CASE down'[k] = <<>>
  BY <1>1, <1>10, EmptySeq
<1>11. ASSUME NEW f, down'[k] = Append(down[k], f)
       PROVE  /\ Len(down'[k]) = Len(down[k]) + 1 /\ down'[k][Len(down[k]) + 1] = f
              /\ \A q \in 1..Len(down[k]) : down'[k][q] = down[k][q]
  BY <1>6, <1>11
<1>12. ASSUME NEW f, down'[k] = Append(down[k], f), p \notin 1..Len(down[k])
       PROVE  p = Len(down[k]) + 1 /\ Carries(f, b)
  BY <1>1, <1>4, <1>6, <1>11, <1>12
<1>13. ASSUME NEW code, down'[k] = Append(down[k], Close(code))
       PROVE  Passed(a)' \/ \E q \in 1..(p - 1) : Carries(down'[k][q], a)
  <2>1. ~Carries(Close(code), b)
    BY DEF Carries, Close
  <2> QED
    BY <1>8, <1>11, <1>12, <1>13, <2>1
<1>14. CASE ReceiveCommand(k)
  <2>1. /\ down[k] # <<>> /\ down'[k] = Tail(down[k])
        /\ Head(down[k]).type = "command"
        /\ runs' = [runs EXCEPT ![Head(down[k]).cmd] = @ + 1]
    BY <1>14 DEF ReceiveCommand, TypeOK
  <2>2. /\ Len(down'[k]) = Len(down[k]) - 1 /\ Head(down[k]) = down[k][1]
        /\ \A q \in 1..Len(down'[k]) : down'[k][q] = down[k][q + 1]
    BY <1>6, <2>1, HeadTailProperties
  <2>3. p + 1 \in 1..Len(down[k]) /\ Carries(down[k][p + 1], b)
    BY <1>1, <1>4, <1>6, <2>2
  <2>4. CASE Passed(a)
    BY <1>5, <2>4
  <2>5. ASSUME NEW q \in 1..p, Carries(down[k][q], a)
        PROVE  Passed(a)' \/ \E r \in 1..(p - 1) : Carries(down'[k][r], a)
    <3>1. CASE q = 1
      BY <2>1, <2>2, <2>5, <3>1 DEF Carries, Passed, TypeOK
    <3>2. CASE q # 1
      <4>1. q - 1 \in 1..(p - 1) /\ q - 1 \in 1..Len(down'[k]) /\ (q - 1) + 1 = q
        BY <1>1, <1>6, <2>2, <3>2
      <4> QED
        BY <2>2, <2>5, <4>1
    <3> QED
      BY <3>1, <3>2
  <2>6. (p + 1) - 1 = p
    BY <1>1
  <2> QED
    BY <1>7, <2>3, <2>4, <2>5, <2>6 DEF Behind
<1>15. ASSUME NEW d \in Commands, pEnd[k] = "open", dEnd[k] = "open",
              down'[k] = Append(down[k], Command(d)),
              \/ Push(d) /\ connections[Target[d]] = k
              \/ ReplayNext(k) /\ d = log[Dialer[k]][cursor]
       PROVE  Passed(a)' \/ \E q \in 1..(p - 1) : Carries(down'[k][q], a)
  <2>1. CASE p \in 1..Len(down[k])
    BY <1>8, <1>11, <1>15, <2>1
  <2>2. CASE p \notin 1..Len(down[k])
    <3>1. p - 1 = Len(down[k]) /\ b = d
      BY <1>6, <1>12, <1>15, <2>2 DEF Carries, Command
    <3>2. Passed(a) \/ Sent(k, a)
      BY <1>1, <1>2, <1>3, <1>15, <3>1, WrittenBehind
    <3> QED
      BY <1>5, <1>11, <1>15, <3>1, <3>2 DEF Sent
  <2> QED
    BY <2>1, <2>2
<1>16. DownEffect(k)
  BY StepEffects DEF Effect
<1> QED
  BY <1>9, <1>10, <1>13, <1>14, <1>15, <1>16 DEF DownEffect

LEMMA StartsInOrderStep ==
  ASSUME ChannelInv, AckIsReal, SentInOrder, StartsInOrder, [Next]_vars
  PROVE  StartsInOrder'
<1> USE DEF ChannelInv
<1>1. SUFFICES ASSUME NEW m \in Machines, NEW i \in 1..Len(log'[m]),
                      NEW j \in 1..Len(log'[m]), i < j, runs'[log'[m][j]] > 0
               PROVE  runs'[log'[m][i]] > 0 \/ log'[m][i] \in byOperator'
  BY DEF StartsInOrder
<1>2. i \in 1..Len(log[m]) /\ log'[m][i] = log[m][i] /\ log[m][i] \in Commands
  BY <1>1, LogEffects DEF History
<1>3. PICK a, b : a \in Commands /\ a = log[m][i] /\ b = log'[m][j]
  BY <1>2
<1>4. SUFFICES Passed(a)
  <2>1. Passed(a)'
    BY <1>3, <1>4, AckIsRealStep
  <2> QED
    BY <1>2, <1>3, <2>1 DEF Passed
<1>5. \/ j \in 1..Len(log[m]) /\ log'[m][j] = log[m][j] /\ b \in Commands
      \/ b \in Commands /\ Push(b) /\ ~InLog(b)
  BY <1>3, LogEffects DEF History
<1>6. CASE runs[b] > 0
  BY <1>1, <1>2, <1>3, <1>5, <1>6 DEF StartsInOrder, Passed, History, RunIsSubmitted
<1>7. ASSUME NEW k \in Conns, ReceiveCommand(k), ~(runs[b] > 0) PROVE Passed(a)
  <2>1. /\ down[k] # <<>> /\ Head(down[k]).type = "command" /\ UNCHANGED log
        /\ runs' = [runs EXCEPT ![Head(down[k]).cmd] = @ + 1]
    BY <1>7 DEF ReceiveCommand, storeVars
  <2>2. /\ 1 \in 1..Len(down[k]) /\ Head(down[k]) = down[k][1]
    BY <2>1, LenProperties, EmptySeq DEF TypeOK
  <2>3. Head(down[k]).cmd = b
    BY <1>1, <1>3, <1>5, <1>7, <2>1 DEF TypeOK
  <2>4. Behind(k, 1, a)
    BY <1>1, <1>2, <1>3, <2>1, <2>2, <2>3 DEF SentInOrder, Carries
  <2> QED
    BY <2>4 DEF Behind
<1> QED
  BY <1>1, <1>3, <1>6, <1>7, SharedEffects

LEMMA OrderInvariant == Spec => [](ChannelInv /\ OrderInv)
<1>1. Init => OrderInv
  BY ConnAssumption, TargetAssumption
  DEF Init, StoreInit, OrderInv, AckIsReal, AllAccounted, Serving, SentInOrder, StartsInOrder
<1>2. ChannelInv /\ OrderInv /\ [Next]_vars => ChannelInv' /\ OrderInv'
  <2>1. ASSUME ChannelInv, OrderInv, [Next]_vars PROVE ChannelInv' /\ TypeOK'
    BY <2>1, ChannelStep DEF ChannelInv
  <2>2. ASSUME ChannelInv, OrderInv, [Next]_vars PROVE OrderInv'
    BY <2>1, <2>2, AckIsRealStep, AccountedStep, SentInOrderStep, StartsInOrderStep
    DEF OrderInv, ChannelInv
  <2> QED
    BY <2>1, <2>2
<1> QED
  BY <1>1, <1>2, ChannelInvariant, PTL DEF Spec

\* The handlers of a machine's commands are first started in the order of the
\* pushes, whatever the sockets, the restarts and the replays did in between
\* (apps/control-plane/src/server.ts:157-163, :240-251;
\* apps/daemon/src/outbound/connector.ts:232-246): only a command the operator
\* acked can be passed over.
THEOREM StartedInOrder == Spec => []StartsInOrder
<1>1. OrderInv => StartsInOrder
  BY DEF OrderInv
<1> QED
  BY <1>1, OrderInvariant, PTL

\* At rest, a channel left no command behind: what a push lost on a dying socket
\* the replay of the next hello sent again, and what was sent was answered.
THEOREM NothingIsStranded == Spec => []NothingStranded
<1>1. ASSUME ChannelInv, OrderInv, NEW k \in Conns, AtRest(k),
             NEW i \in 1..Len(log[Dialer[k]])
      PROVE  log[Dialer[k]][i] \in acked \/ replies[log[Dialer[k]][i]] # NoReply
  <2> DEFINE c == log[Dialer[k]][i]
  <2>1. Target[c] = Dialer[k]
    BY <1>1, ConnAssumption DEF ChannelInv, History, LogInPlace
  <2>2. Handled(k, c)
    BY <1>1 DEF OrderInv, AllAccounted, Accounted, Serving, AtRest
  <2>3. ~Sent(k, c) /\ ~Replying(k, c)
    BY <1>1, EmptySeq DEF Sent, Replying, AtRest
  <2>4. ~IsRunning(c)
    BY <1>1, <2>1 DEF IsRunning, AtRest
  <2> QED
    BY <2>2, <2>3, <2>4 DEF Handled
<1>2. ChannelInv /\ OrderInv => NothingStranded
  BY <1>1 DEF NothingStranded
<1> QED
  BY <1>2, OrderInvariant, PTL
-----------------------------------------------------------------------------
(* A command is started again only at the cost of a fault.                 *)

\* What is in flight on a socket was written to it since it was opened, once, and
\* is for its machine; a socket refused as a duplicate was never written to.
Sound(k) ==
  /\ dEnd[k] = "closed" => down[k] = <<>>
  /\ \A c \in Commands, p, q \in 1..Len(down[k]) :
       Carries(down[k][p], c) => /\ c \in delivered[k]
                                 /\ Carries(down[k][q], c) => p = q
  /\ \A c \in delivered[k] : Target[c] = Dialer[k]
  /\ \A p \in 1..Len(down[k]) :
       down[k][p] = Close(DuplicateMachine) => delivered[k] = {} /\ pEnd[k] # "open"

\* A daemon has one socket at a time, and none once it is halted.
OneDial ==
  \A j, k \in Conns :
    Dialer[j] = Dialer[k] /\ dEnd[j] = "open" /\ dEnd[k] = "open" => j = k
HaltedIsShut == \A k \in Conns : Dialer[k] \in halted => dEnd[k] = "closed"

SocketInv == OneDial /\ HaltedIsShut /\ \A k \in Conns : Sound(k)

\* A start that is on its way; and the one start no fault has to pay for, which
\* counts while its socket holds at the plane, or the machine is halted.
Owed(c) == \E k \in Conns : Sent(k, c)
Credit(c) == Target[c] \in halted \/ \E k \in Conns : c \in delivered[k] /\ pEnd[k] # "closed"
Paid(c) ==
  /\ runs[c] <= 1 + faults
  /\ Owed(c) \/ ~Credit(c) => runs[c] <= faults
  /\ Owed(c) /\ ~Credit(c) => runs[c] + 1 <= faults
AllPaid == \A c \in Commands : Paid(c)

(* What a step does to a socket, seen from both ends.                      *)

Holds(k) ==
  /\ down'[k] = down[k] /\ delivered'[k] = delivered[k] /\ dEnd'[k] = dEnd[k]
  /\ pEnd'[k] = "open" => pEnd[k] = "open"
Shuts(k) == dEnd'[k] = "closed" /\ down'[k] = <<>> /\ delivered'[k] = {}
Refuses(k) ==
  /\ dEnd[k] = "open" /\ dEnd'[k] = "open" /\ delivered'[k] = delivered[k] /\ pEnd'[k] # "open"
  /\ \E code : /\ down'[k] = Append(down[k], Close(code))
               /\ code = DuplicateMachine => delivered[k] = {}
Opens(k) ==
  /\ Dial(k) /\ dEnd[k] = "closed"
  /\ down'[k] = down[k] /\ delivered'[k] = delivered[k]
Takes(k) ==
  /\ ReceiveCommand(k) /\ down[k] # <<>> /\ down'[k] = Tail(down[k])
  /\ dEnd'[k] = dEnd[k] /\ pEnd'[k] = pEnd[k] /\ delivered'[k] = delivered[k]
Gets(k, c) ==
  /\ dEnd[k] = "open" /\ pEnd[k] = "open" /\ dEnd'[k] = "open" /\ pEnd'[k] = "open"
  /\ down'[k] = Append(down[k], Command(c)) /\ delivered'[k] = delivered[k] \cup {c}
  /\ c \notin delivered[k] /\ Target[c] = Dialer[k]

Deals(k) ==
  \/ Holds(k) \/ Shuts(k) \/ Refuses(k) \/ Opens(k) \/ Takes(k)
  \/ \E c \in Commands : Gets(k, c)

LEMMA SoundStep ==
  ASSUME TypeOK, NEW k \in Conns, Sound(k), ClosedIsEmpty, Deals(k)
  PROVE  /\ Sound(k)'
         /\ \A c \in Commands : Sent(k, c)' => Sent(k, c) \/ Gets(k, c)
<1>1. down[k] \in Seq(DownFrame) /\ Len(down[k]) \in Nat /\ dEnd[k] \in {"open", "closed"}
  BY LenProperties DEF TypeOK
<1>2. CASE Holds(k)
  BY <1>2 DEF Holds, Sound, Sent
<1>3. CASE Shuts(k)
  BY <1>3, EmptySeq DEF Shuts, Sound, Sent
<1>4. CASE Opens(k)
  <2>1. down'[k] = <<>> /\ delivered'[k] = {}
    BY <1>4 DEF Opens, Sound, ClosedIsEmpty
  <2> QED
    BY <2>1, EmptySeq DEF Sound, Sent
<1>5. ASSUME NEW f, down'[k] = Append(down[k], f)
      PROVE  /\ Len(down'[k]) = Len(down[k]) + 1
             /\ \A p \in 1..Len(down'[k]) :
                  \/ p \in 1..Len(down[k]) /\ down'[k][p] = down[k][p]
                  \/ p = Len(down[k]) + 1 /\ down'[k][p] = f
  BY <1>1, <1>5
<1>6. CASE Refuses(k)
  <2>1. PICK code : /\ down'[k] = Append(down[k], Close(code))
                    /\ code = DuplicateMachine => delivered[k] = {}
    BY <1>6 DEF Refuses
  <2>2. \A c : ~Carries(Close(code), c)
    BY DEF Carries, Close
  <2>3. Close(code) = Close(DuplicateMachine) => code = DuplicateMachine
    BY DEF Close
  <2> QED
    BY <1>5, <1>6, <2>1, <2>2, <2>3 DEF Refuses, Sound, Sent
<1>7. CASE Takes(k)
  <2>1. /\ Len(down'[k]) = Len(down[k]) - 1
        /\ \A p \in 1..Len(down'[k]) : down'[k][p] = down[k][p + 1]
    BY <1>1, <1>7, HeadTailProperties DEF Takes
  <2>2. \A p \in 1..Len(down'[k]) : p + 1 \in 1..Len(down[k])
    BY <1>1, <2>1
  <2>3. down[k] # <<>> /\ dEnd'[k] = dEnd[k] /\ pEnd'[k] = pEnd[k] /\ delivered'[k] = delivered[k]
    BY <1>7 DEF Takes
  <2> QED
    BY <2>1, <2>2, <2>3 DEF Sound, Sent
<1>8. ASSUME NEW d \in Commands, Gets(k, d)
      PROVE  /\ Sound(k)'
             /\ \A c \in Commands : Sent(k, c)' => Sent(k, c) \/ Gets(k, c)
  <2>1. down'[k] = Append(down[k], Command(d)) /\ delivered'[k] = delivered[k] \cup {d}
    BY <1>8 DEF Gets
  <2>2. \A p \in 1..Len(down[k]) : ~Carries(down[k][p], d)
    BY <1>8 DEF Gets, Sound
  <2>3. /\ \A c : Carries(Command(d), c) <=> c = d
        /\ Command(d) # Close(DuplicateMachine)
    BY DEF Carries, Command, Close
  <2>4. pEnd[k] = "open" /\ dEnd'[k] = "open" /\ Target[d] = Dialer[k]
    BY <1>8 DEF Gets
  <2>5. \A p \in 1..Len(down[k]) : down[k][p] # Close(DuplicateMachine)
    BY <2>4 DEF Sound
  <2>6. ASSUME NEW c \in Commands, NEW p \in 1..Len(down'[k]), Carries(down'[k][p], c)
        PROVE  /\ c \in delivered'[k]
               /\ c = d \/ Sent(k, c)
               /\ \A q \in 1..Len(down'[k]) : Carries(down'[k][q], c) => p = q
    BY <1>5, <2>1, <2>2, <2>3, <2>6 DEF Sound, Sent
  <2>7. Sound(k)'
    BY <1>5, <2>1, <2>3, <2>4, <2>5, <2>6 DEF Sound
  <2> QED
    BY <1>8, <2>6, <2>7 DEF Sent
<1> QED
  BY <1>2, <1>3, <1>4, <1>6, <1>7, <1>8 DEF Deals

\* What stops a daemon, what starts a handler, and which steps are faults.
LEMMA HaltEffects ==
  ASSUME TypeOK, [Next]_vars
  PROVE  /\ \/ halted' = halted
            \/ \E j \in Conns : /\ ReceiveClose(j) /\ halted \subseteq halted'
                                /\ halted' \subseteq halted \cup {Dialer[j]}
            \/ halted' \subseteq halted /\ \E m \in Machines : RestartDaemon(m)
         /\ UNCHANGED faults \/ Fault
<1> DEFINE Goal ==
  /\ \/ halted' = halted
     \/ \E j \in Conns : /\ ReceiveClose(j) /\ halted \subseteq halted'
                         /\ halted' \subseteq halted \cup {Dialer[j]}
     \/ halted' \subseteq halted /\ \E m \in Machines : RestartDaemon(m)
  /\ UNCHANGED faults \/ Fault
<1> USE DEF storeVars, planeVars, daemonVars, netVars, auxVars
<1>1. ASSUME NEW k \in Conns, PlaneStep(k) PROVE Goal
  BY <1>1
  DEF PlaneStep, RefuseHello, AcceptHello, BeginReplay, EndReplay, ReplayNext,
      ReceiveResponse, ReceiveAck
<1>2. ASSUME NEW k \in Conns, DaemonStep(k) \/ Dial(k) \/ PlaneNoticesClose(k)
                \/ DaemonNoticesClose(k)
      PROVE  Goal
  BY <1>2
  DEF DaemonStep, ReceiveCommand, ReceiveClose, Dial, PlaneNoticesClose, DaemonNoticesClose
<1>3. ASSUME Finish PROVE Goal
  BY <1>3 DEF Finish, FinishCommand
<1>4. ASSUME Operator PROVE Goal
  BY <1>4
  DEF Operator, Push, OperatorAck, OperatorRead, OperatorRevoke, OperatorReadmit
<1>5. ASSUME Fault PROVE Goal
  <2>1. ASSUME NEW m \in Machines, RestartDaemon(m) PROVE halted' \subseteq halted
    BY <2>1 DEF RestartDaemon
  <2> QED
    BY <1>5, <2>1 DEF Fault, DaemonLosesSocket, PlaneLosesSocket, RestartPlane
<1>6. UNCHANGED vars => Goal
  BY DEF vars
<1>7. Goal
  BY <1>1, <1>2, <1>3, <1>4, <1>5, <1>6 DEF Next
<1> QED
  BY <1>7

LEMMA EverySocketDeals ==
  ASSUME ChannelInv, [Next]_vars
  PROVE  \A k \in Conns : Deals(k)
<1> USE SocketEffects
<1> USE DEF ChannelInv, storeVars, planeVars, daemonVars, netVars, auxVars
<1> DEFINE Goal == \A k \in Conns : Deals(k)
<1>1. ASSUME UNCHANGED <<down, delivered, dEnd>>,
             \A k \in Conns : pEnd'[k] = "open" => pEnd[k] = "open"
      PROVE  Goal
  BY <1>1 DEF Deals, Holds
<1>2. ASSUME NEW k \in Conns, NEW c \in Commands, SendCommand(k, c), UNCHANGED <<pEnd, dEnd>>
      PROVE  Goal
  <2>1. ASSUME pEnd[k] = "open", dEnd[k] = "open" PROVE Gets(k, c)
    <3>1. down'[k] = Append(down[k], Command(c)) /\ delivered'[k] = delivered[k] \cup {c}
      BY <1>2, <2>1, SendsOnlyThere
    <3>2. Writes(k, c)
      BY <3>1, FrameTypes, AppendProperties, LenProperties DEF Writes, TypeOK
    <3>3. c \notin delivered[k] /\ Target[c] = Dialer[k]
      BY <3>2, WritesOnce
    <3> QED
      BY <1>2, <2>1, <3>1, <3>3 DEF Gets
  <2> QED
    BY <1>2, <2>1, SendsOnlyThere DEF Deals, Holds
<1>3. ASSUME NEW k \in Conns, NEW code, CloseSocket(k, code), UNCHANGED <<delivered, dEnd>>,
             code = DuplicateMachine => delivered[k] = {}
      PROVE  Goal
  <2>1. down'[k] = down[k] \/ (dEnd[k] = "open" /\ down'[k] = Append(down[k], Close(code)))
    BY <1>3 DEF CloseSocket, TypeOK
  <2>2. pEnd'[k] # "open" /\ \A j \in Conns \ {k} : down'[j] = down[j] /\ pEnd'[j] = pEnd[j]
    BY <1>3
  <2> QED
    BY <1>3, <2>1, <2>2 DEF Deals, Holds, Refuses
<1>4. ASSUME NEW k \in Conns, DaemonCloseEvent(k), UNCHANGED pEnd PROVE Goal
  BY <1>4 DEF DaemonCloseEvent, Deals, Holds, Shuts, TypeOK
<1>5. ASSUME NEW k \in Conns, RefuseHello(k) PROVE Goal
  <2>1. delivered[k] = {}
    <3>1. up[k] # <<>> /\ Head(up[k]).type = "hello"
      BY <1>5 DEF RefuseHello
    <3>2. 1 \in 1..Len(up[k]) /\ Head(up[k]) = up[k][1]
      BY <3>1, EmptySeq, LenProperties DEF TypeOK
    <3> QED
      BY <3>1, <3>2 DEF OnceInv, HelloFirst
  <2> QED
    BY <1>3, <1>5, <2>1 DEF RefuseHello
<1>6. ASSUME NEW k \in Conns, AcceptHello(k) \/ BeginReplay(k) \/ EndReplay(k)
                               \/ ReceiveResponse(k) \/ ReceiveAck(k)
      PROVE  Goal
  BY <1>1, <1>6 DEF AcceptHello, BeginReplay, EndReplay, ReceiveResponse, ReceiveAck
<1>7. ASSUME NEW k \in Conns, ReplayNext(k) PROVE Goal
  <2>1. log[Dialer[k]][cursor] \in Commands
    BY <1>7, ConnAssumption, ElementOfSeq DEF ReplayNext, TypeOK, StoreTypeOK
  <2>2. UNCHANGED <<pEnd, dEnd>>
    BY <1>7 DEF ReplayNext
  <2>3. UNCHANGED <<down, delivered>> \/ SendCommand(k, log[Dialer[k]][cursor])
    BY <1>7 DEF ReplayNext
  <2> QED
    BY <1>1, <1>2, <2>1, <2>2, <2>3
<1>8. ASSUME NEW k \in Conns, ReceiveCommand(k) PROVE Goal
  <2>1. /\ UNCHANGED <<delivered, dEnd, pEnd>> /\ down[k] # <<>>
        /\ down' = [down EXCEPT ![k] = Tail(@)]
    BY <1>8 DEF ReceiveCommand
  <2>2. down'[k] = Tail(down[k]) /\ \A j \in Conns \ {k} : down'[j] = down[j]
    BY <2>1 DEF TypeOK
  <2> QED
    BY <1>8, <2>1, <2>2 DEF Deals, Holds, Takes
<1>9. ASSUME NEW k \in Conns, ReceiveClose(k) \/ DaemonNoticesClose(k) \/ DaemonLosesSocket(k)
      PROVE  Goal
  BY <1>4, <1>9 DEF ReceiveClose, DaemonNoticesClose, DaemonLosesSocket
<1>10. ASSUME NEW k \in Conns, PlaneNoticesClose(k) \/ PlaneLosesSocket(k) PROVE Goal
  <2>1. PlaneCloseEvent(k) /\ UNCHANGED <<down, delivered, dEnd>>
    BY <1>10 DEF PlaneNoticesClose, PlaneLosesSocket
  <2>2. pEnd' = [pEnd EXCEPT ![k] = "closed"]
    BY <2>1 DEF PlaneCloseEvent
  <2> QED
    BY <1>1, <2>1, <2>2 DEF TypeOK
<1>11. ASSUME NEW k \in Conns, Dial(k) PROVE Goal
  <2>1. /\ UNCHANGED <<delivered, down>> /\ dEnd[k] = "closed"
        /\ \A j \in Conns \ {k} : dEnd'[j] = dEnd[j] /\ pEnd'[j] = pEnd[j]
    BY <1>11 DEF Dial, Socket, TypeOK
  <2> QED
    BY <1>11, <2>1 DEF Deals, Holds, Opens
<1>12. ASSUME NEW c \in Commands, Push(c) PROVE Goal
  <2>1. UNCHANGED <<pEnd, dEnd>>
    BY <1>12 DEF Push
  <2>2. \/ UNCHANGED <<down, delivered>>
        \/ connections[Target[c]] \in Conns /\ SendCommand(connections[Target[c]], c)
    BY <1>12, TargetAssumption DEF Push, TypeOK
  <2> QED
    BY <1>1, <1>2, <2>1, <2>2
<1>13. ASSUME NEW c \in Commands, OperatorAck(c) \/ OperatorRead(c) PROVE Goal
  BY <1>1, <1>13 DEF OperatorAck, OperatorRead
<1>14. ASSUME NEW m \in Machines, OperatorRevoke(m) PROVE Goal
  <2>1. UNCHANGED <<delivered, dEnd>> /\ MachineRevoked # DuplicateMachine
    BY <1>14 DEF OperatorRevoke, MachineRevoked, DuplicateMachine
  <2>2. \/ UNCHANGED <<down, pEnd>>
        \/ connections[m] \in Conns /\ CloseSocket(connections[m], MachineRevoked)
    BY <1>14 DEF OperatorRevoke, TypeOK
  <2> QED
    BY <1>1, <1>3, <2>1, <2>2
<1>15. ASSUME NEW m \in Machines, OperatorReadmit(m) PROVE Goal
  BY <1>1, <1>15 DEF OperatorReadmit
<1>16. ASSUME NEW m \in Machines, RestartDaemon(m) PROVE Goal
  BY <1>16 DEF RestartDaemon, Deals, Holds, Shuts, TypeOK
<1>17. ASSUME RestartPlane PROVE Goal
  BY <1>1, <1>17 DEF RestartPlane
<1>18. ASSUME Finish PROVE Goal
  BY <1>1, <1>18 DEF Finish, FinishCommand
<1>19. ASSUME UNCHANGED vars PROVE Goal
  BY <1>1, <1>19 DEF vars
<1>20. ASSUME NEW k \in Conns, PlaneStep(k) \/ DaemonStep(k) PROVE Goal
  BY <1>5, <1>6, <1>7, <1>8, <1>9, <1>20, Zenon DEF PlaneStep, DaemonStep
<1>21. ASSUME Operator PROVE Goal
  BY <1>12, <1>13, <1>14, <1>15, <1>21, Zenon DEF Operator
<1>22. ASSUME Fault PROVE Goal
  BY <1>9, <1>10, <1>16, <1>17, <1>22, Zenon DEF Fault
<1>23. Goal
  BY <1>9, <1>10, <1>11, <1>18, <1>19, <1>20, <1>21, <1>22, Zenon DEF Next
<1> QED
  BY <1>23

LEMMA SocketInvStep == ChannelInv /\ SocketInv /\ [Next]_vars => SocketInv'
<1> SUFFICES ASSUME ChannelInv, SocketInv, [Next]_vars PROVE SocketInv'
  OBVIOUS
<1> USE DEF ChannelInv, SocketInv
<1>1. \A k \in Conns : Deals(k)
  BY EverySocketDeals
<1>2. \A k \in Conns : Sound(k)'
  BY <1>1, SoundStep DEF OnceInv
<1>3. ASSUME NEW k \in Conns, dEnd'[k] = "open", dEnd[k] # "open"
      PROVE  Opens(k)
  <2>1. ~Holds(k) /\ ~Shuts(k) /\ ~Refuses(k) /\ ~Takes(k) /\ \A c : ~Gets(k, c)
    BY <1>3 DEF Holds, Shuts, Refuses, Takes, Gets
  <2> QED
    BY <1>1, <2>1 DEF Deals
<1>4. ASSUME NEW k \in Conns, Dial(k)
      PROVE  /\ Dialer[k] \notin halted /\ halted' = halted
             /\ \A j \in Conns \ {k} : Dialer[j] = Dialer[k] => dEnd'[j] = "closed"
  BY <1>4 DEF Dial, Socket, TypeOK
<1>5. OneDial'
  <2>1. ASSUME NEW j \in Conns, NEW k \in Conns, Dialer[j] = Dialer[k],
               dEnd'[j] = "open", dEnd'[k] = "open", j # k
        PROVE  FALSE
    <3>1. ~Dial(j) /\ ~Dial(k)
      BY <1>4, <2>1
    <3>2. dEnd[j] = "open" /\ dEnd[k] = "open"
      BY <1>3, <2>1, <3>1 DEF Opens
    <3> QED
      BY <2>1, <3>2 DEF OneDial
  <2> QED
    BY <2>1 DEF OneDial
<1>6. HaltedIsShut'
  <2>1. ASSUME NEW k \in Conns, Dialer[k] \in halted', dEnd'[k] # "closed" PROVE FALSE
    <3>1. dEnd'[k] = "open" /\ dEnd[k] \in {"open", "closed"}
      BY <1>1, <2>1 DEF Deals, Holds, Shuts, Refuses, Opens, Takes, Gets, Dial, TypeOK
    <3>2. CASE dEnd[k] = "closed"
      BY <1>3, <1>4, <2>1, <3>1, <3>2 DEF Opens
    <3>3. CASE dEnd[k] = "open"
      <4>1. Dialer[k] \notin halted
        BY <3>3 DEF HaltedIsShut
      <4>2. PICK j \in Conns : ReceiveClose(j) /\ halted' \subseteq halted \cup {Dialer[j]}
        BY <2>1, <4>1, HaltEffects
      <4>3. dEnd[j] = "open" /\ dEnd'[j] = "closed" /\ Dialer[k] = Dialer[j]
        BY <2>1, <4>1, <4>2 DEF ReceiveClose, DaemonCloseEvent, TypeOK
      <4> QED
        BY <3>1, <3>3, <4>3 DEF OneDial
    <3> QED
      BY <3>1, <3>2, <3>3
  <2> QED
    BY <2>1 DEF HaltedIsShut
<1> QED
  BY <1>2, <1>5, <1>6

\* Without a fault only a close frame costs a daemon what was written to it.
LEMMA WithoutFault ==
  ASSUME TypeOK, [Next]_vars
  PROVE  Fault \/ \A k \in Conns :
           /\ pEnd'[k] = "closed" => pEnd[k] = "closed" \/ dEnd[k] = "closed"
           /\ delivered[k] \subseteq delivered'[k] \/ ReceiveClose(k) \/ pEnd[k] = "closed"
<1> USE DEF storeVars, planeVars, daemonVars, netVars, auxVars
<1> DEFINE Calm(j) ==
             /\ pEnd'[j] = "closed" => pEnd[j] = "closed" \/ dEnd[j] = "closed"
             /\ delivered[j] \subseteq delivered'[j] \/ ReceiveClose(j) \/ pEnd[j] = "closed"
           Goal == \A j \in Conns : Calm(j)
<1>1. ASSUME UNCHANGED <<pEnd, delivered>> PROVE Goal
  BY <1>1
<1>2. ASSUME NEW k \in Conns, NEW c \in Commands, SendCommand(k, c), UNCHANGED pEnd PROVE Goal
  BY <1>2, SendsOnlyThere
<1>3. ASSUME NEW k \in Conns, NEW code, CloseSocket(k, code), UNCHANGED delivered PROVE Goal
  BY <1>3 DEF CloseSocket, TypeOK
<1>4. ASSUME NEW k \in Conns, PlaneStep(k) PROVE Goal
  <2>1. CASE RefuseHello(k)
    BY <1>3, <2>1 DEF RefuseHello
  <2>2. CASE ReplayNext(k)
    <3>1. log[Dialer[k]][cursor] \in Commands
      BY <2>2, ConnAssumption, ElementOfSeq DEF ReplayNext, TypeOK, StoreTypeOK
    <3>2. UNCHANGED pEnd /\ (UNCHANGED delivered \/ SendCommand(k, log[Dialer[k]][cursor]))
      BY <2>2 DEF ReplayNext
    <3> QED
      BY <1>1, <1>2, <3>1, <3>2
  <2>3. CASE AcceptHello(k) \/ BeginReplay(k) \/ EndReplay(k) \/ ReceiveResponse(k)
               \/ ReceiveAck(k)
    BY <1>1, <2>3 DEF AcceptHello, BeginReplay, EndReplay, ReceiveResponse, ReceiveAck
  <2> QED
    BY <1>4, <2>1, <2>2, <2>3, Zenon DEF PlaneStep
<1>5. ASSUME NEW k \in Conns, DaemonStep(k) \/ DaemonNoticesClose(k) PROVE Goal
  <2>1. CASE ReceiveCommand(k)
    BY <1>1, <2>1 DEF ReceiveCommand
  <2>2. CASE ReceiveClose(k) \/ DaemonNoticesClose(k)
    <3>1. UNCHANGED pEnd /\ (ReceiveClose(k) \/ pEnd[k] = "closed")
      BY <2>2 DEF ReceiveClose, DaemonNoticesClose
    <3>2. \A j \in Conns \ {k} : delivered'[j] = delivered[j]
      BY <2>2 DEF ReceiveClose, DaemonNoticesClose, DaemonCloseEvent, TypeOK
    <3> QED
      BY <3>1, <3>2
  <2> QED
    BY <1>5, <2>1, <2>2 DEF DaemonStep
<1>6. ASSUME NEW k \in Conns, Dial(k) \/ PlaneNoticesClose(k) PROVE Goal
  BY <1>6 DEF Dial, PlaneNoticesClose, PlaneCloseEvent, TypeOK
<1>7. ASSUME Finish PROVE Goal
  BY <1>1, <1>7 DEF Finish, FinishCommand
<1>8. ASSUME NEW c \in Commands, Push(c) PROVE Goal
  <2>1. /\ UNCHANGED pEnd
        /\ \/ UNCHANGED delivered
           \/ connections[Target[c]] \in Conns /\ SendCommand(connections[Target[c]], c)
    BY <1>8, TargetAssumption DEF Push, TypeOK
  <2> QED
    BY <1>1, <1>2, <2>1
<1>9. ASSUME NEW m \in Machines, OperatorRevoke(m) PROVE Goal
  <2>1. /\ UNCHANGED delivered
        /\ \/ UNCHANGED pEnd
           \/ connections[m] \in Conns /\ CloseSocket(connections[m], MachineRevoked)
    BY <1>9 DEF OperatorRevoke, TypeOK
  <2> QED
    BY <1>1, <1>3, <2>1
<1>10. ASSUME Operator PROVE Goal
  <2>1. ASSUME NEW c \in Commands, OperatorAck(c) \/ OperatorRead(c) PROVE Goal
    BY <1>1, <2>1 DEF OperatorAck, OperatorRead
  <2>2. ASSUME NEW m \in Machines, OperatorReadmit(m) PROVE Goal
    BY <1>1, <2>2 DEF OperatorReadmit
  <2> QED
    BY <1>8, <1>9, <1>10, <2>1, <2>2, Zenon DEF Operator
<1>11. UNCHANGED vars => Goal
  BY <1>1 DEF vars
<1>12. Fault \/ Goal
  BY <1>4, <1>5, <1>6, <1>7, <1>10, <1>11, Zenon DEF Next
<1> QED
  BY <1>12

LEMMA CreditStays ==
  ASSUME ChannelInv, SocketInv, [Next]_vars, ~Fault, NEW c \in Commands, Credit(c)
  PROVE  Credit(c)'
<1> USE DEF ChannelInv, SocketInv
<1>1. halted \subseteq halted'
  <2>1. \A m \in Machines : ~RestartDaemon(m)
    BY DEF Fault
  <2> QED
    BY <2>1, HaltEffects
<1>2. CASE Target[c] \in halted
  BY <1>1, <1>2 DEF Credit
<1>3. ASSUME NEW k \in Conns, c \in delivered[k], pEnd[k] # "closed" PROVE Credit(c)'
  <2>1. dEnd[k] = "open" /\ Target[c] = Dialer[k]
    BY <1>3 DEF OnceInv, ClosedIsEmpty, Sound, TypeOK
  <2>2. pEnd'[k] # "closed" /\ (c \in delivered'[k] \/ ReceiveClose(k))
    BY <1>3, <2>1, WithoutFault
  <2>3. CASE ReceiveClose(k)
    <3>1. down[k] # <<>> /\ down[k] \in Seq(DownFrame) /\ Head(down[k]).type = "close"
      BY <2>3 DEF ReceiveClose, TypeOK
    <3>2. Head(down[k]) \in DownFrame /\ Head(down[k]) = down[k][1] /\ 1 \in 1..Len(down[k])
      BY <3>1, HeadIsFrame, LenProperties, EmptySeq
    <3>3. Head(down[k]).code # DuplicateMachine
      <4>1. Head(down[k]).code = DuplicateMachine => Head(down[k]) = Close(DuplicateMachine)
        BY <3>1, <3>2 DEF DownFrame, Close
      <4> QED
        BY <1>3, <3>2, <4>1 DEF Sound
    <3>4. Head(down[k]).code = MachineRevoked
      BY <3>1, <3>2, <3>3, DownFrameFields
    <3> QED
      BY <2>1, <2>3, <3>4 DEF ReceiveClose, Credit
  <2> QED
    BY <2>2, <2>3 DEF Credit
<1> QED
  BY <1>2, <1>3 DEF Credit

LEMMA PaidStep == ChannelInv /\ SocketInv /\ AllPaid /\ [Next]_vars => AllPaid'
<1> SUFFICES ASSUME ChannelInv, SocketInv, AllPaid, [Next]_vars, NEW c \in Commands
             PROVE  Paid(c)'
  BY DEF AllPaid
<1> USE DEF ChannelInv, SocketInv
<1>1. runs[c] \in Nat /\ faults \in Nat /\ Paid(c)
  BY DEF TypeOK, AllPaid
<1>2. Owed(c)' => Owed(c) \/ \E k \in Conns : Gets(k, c)
  BY EverySocketDeals, SoundStep DEF OnceInv, Owed
<1>3. ASSUME NEW k \in Conns, Gets(k, c) PROVE Paid(c)'
  <2>1. UNCHANGED <<runs, faults>>
    <3>1. Writes(k, c)
      BY <1>3, FrameTypes, AppendProperties, LenProperties DEF Gets, Writes, TypeOK
    <3> QED
      BY <3>1, WhoWrites DEF Push, ReplayNext
  <2>2. ~Credit(c)
    <3>1. Target[c] \notin halted
      BY <1>3 DEF Gets, HaltedIsShut
    <3>2. ASSUME NEW j \in Conns, c \in delivered[j] PROVE FALSE
      <4>1. dEnd[j] = "open" /\ Dialer[j] = Dialer[k]
        BY <1>3, <3>2 DEF OnceInv, ClosedIsEmpty, Sound, Gets, TypeOK
      <4> QED
        BY <1>3, <3>2, <4>1 DEF OneDial, Gets
    <3> QED
      BY <3>1, <3>2 DEF Credit
  <2>3. Credit(c)'
    BY <1>3 DEF Gets, Credit
  <2> QED
    BY <1>1, <2>1, <2>2, <2>3 DEF Paid
<1>4. CASE Fault /\ ~\E k \in Conns : Gets(k, c)
  <2>1. faults' = faults + 1 /\ runs' = runs
    BY <1>4 DEF Fault, DaemonLosesSocket, PlaneLosesSocket, RestartDaemon, RestartPlane
  <2> QED
    BY <1>1, <1>2, <1>4, <2>1 DEF Paid
<1>5. CASE ~Fault /\ ~\E k \in Conns : Gets(k, c)
  <2>1. faults' = faults /\ (Credit(c) => Credit(c)') /\ (Owed(c)' => Owed(c))
    BY <1>2, <1>5, HaltEffects, CreditStays
  <2>2. CASE runs'[c] = runs[c]
    BY <1>1, <2>1, <2>2 DEF Paid
  <2>3. ASSUME NEW k \in Conns, ReceiveCommand(k), runs'[c] # runs[c] PROVE Paid(c)'
    <3>1. /\ down[k] # <<>> /\ dEnd[k] = "open" /\ Head(down[k]).type = "command"
          /\ runs' = [runs EXCEPT ![Head(down[k]).cmd] = @ + 1]
          /\ down' = [down EXCEPT ![k] = Tail(@)]
      BY <2>3 DEF ReceiveCommand
    <3>2. Head(down[k]).cmd = c /\ runs'[c] = runs[c] + 1
      BY <2>3, <3>1 DEF TypeOK
    <3>3. down[k] \in Seq(DownFrame) /\ Len(down[k]) \in Nat /\ Head(down[k]) = down[k][1]
      BY <3>1, LenProperties DEF TypeOK
    <3>4. Carries(down[k][1], c) /\ 1 \in 1..Len(down[k])
      BY <3>1, <3>2, <3>3, EmptySeq DEF Carries
    <3>5. Owed(c) /\ c \in delivered[k]
      BY <3>4 DEF Owed, Sent, Sound
    <3>6. ~Sent(k, c)'
      <4>1. /\ down'[k] = Tail(down[k]) /\ Len(Tail(down[k])) = Len(down[k]) - 1
            /\ \A p \in 1..Len(Tail(down[k])) : Tail(down[k])[p] = down[k][p + 1]
        BY <3>1, <3>3, HeadTailProperties DEF TypeOK
      <4>2. ASSUME NEW p \in 1..Len(down'[k]) PROVE ~Carries(down'[k][p], c)
        <5>1. p + 1 \in 1..Len(down[k]) /\ p + 1 # 1 /\ down'[k][p] = down[k][p + 1]
          BY <3>3, <4>1
        <5> QED
          BY <3>4, <5>1 DEF Sound
      <4> QED
        BY <4>2 DEF Sent
    <3>7. ASSUME NEW j \in Conns, j # k, Sent(j, c)' PROVE FALSE
      <4>1. Sent(j, c)
        BY <3>1, <3>7 DEF Sent, TypeOK
      <4>2. c \in delivered[j]
        BY <4>1 DEF Sent, Sound
      <4>3. dEnd[j] = "open" /\ Dialer[j] = Dialer[k]
        BY <3>5, <4>2 DEF OnceInv, ClosedIsEmpty, Sound, TypeOK
      <4> QED
        BY <3>1, <3>7, <4>3 DEF OneDial
    <3>8. ~Owed(c)'
      BY <3>6, <3>7 DEF Owed
    <3> QED
      BY <1>1, <2>1, <3>2, <3>5, <3>8 DEF Paid
  <2> QED
    BY <2>2, <2>3, SharedEffects
<1> QED
  BY <1>3, <1>4, <1>5

LEMMA PaidInvariant == Spec => [](ChannelInv /\ SocketInv /\ AllPaid)
<1>1. Init => SocketInv /\ AllPaid
  BY EmptySeq
  DEF Init, SocketInv, OneDial, HaltedIsShut, Sound, AllPaid, Paid, Owed, Sent
<1>2. ChannelInv /\ SocketInv /\ AllPaid /\ [Next]_vars => SocketInv' /\ AllPaid'
  BY SocketInvStep, PaidStep
<1> QED
  BY <1>1, <1>2, ChannelInvariant, PTL DEF Spec

\* A command's handler runs a second time only because something broke, and
\* each broken socket or restart costs one more start at most.
THEOREM EveryRerunIsPaid == Spec => []RerunsArePaid
<1>1. AllPaid => RerunsArePaid
  BY DEF AllPaid, Paid, RerunsArePaid
<1> QED
  BY <1>1, PaidInvariant, PTL
=============================================================================
