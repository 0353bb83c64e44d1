---------------------------- MODULE CommandStore ----------------------------
(***************************************************************************)
(* The control plane's durable command log                                 *)
(* (apps/control-plane/src/store.ts).                                      *)
(*                                                                         *)
(* Per machine the store keeps three append-only journals on disk: the     *)
(* commands (here `log'), the acks (`ackFile') and the replies             *)
(* (`replyFile').  In memory it keeps `acked', `replies' and the set of    *)
(* machines whose journals have been read (`loaded'); a machine is loaded  *)
(* lazily, by the first operation that needs its command list.  The        *)
(* in-memory command list of a loaded machine always equals its journal,   *)
(* so `log' stands for both.  The registry (`records') and the revocation  *)
(* tombstones (`revoked') are read when the store is created and every     *)
(* change is written through, so one variable stands for both copies.      *)
(*                                                                         *)
(* Every method is `async' over a synchronous body: each is one action.    *)
(***************************************************************************)
EXTENDS Integers, Sequences, FiniteSets

CONSTANTS
  Machines,   \* machine ids
  Commands,   \* correlation ids, each a fresh UUID: one per pushed command
  Target      \* Target[c]: the machine command c is addressed to

ASSUME TargetAssumption == Target \in [Commands -> Machines]

VARIABLES
  log,        \* log[m]: the commands of m; a command's seq is its position
  ackFile,    \* commands with a line in their machine's .acks journal
  replyFile,  \* last reply journalled per command (NoReply when none)
  loaded,     \* machines whose journals are in memory
  acked,      \* the in-memory ack set
  replies,    \* the in-memory reply map (NoReply when absent)
  records,    \* machines with a registry record
  revoked     \* tombstoned machines

storeVars == <<log, ackFile, replyFile, loaded, acked, replies, records, revoked>>

\* A reply is identified by the run of the handler that produced it (1, 2, ...).
NoReply == 0

InLog(c) == \E i \in 1..Len(log[Target[c]]) : log[Target[c]][i] = c

StoreTypeOK ==
  /\ log \in [Machines -> Seq(Commands)]
  /\ ackFile \in SUBSET Commands
  /\ replyFile \in [Commands -> Nat]
  /\ loaded \in SUBSET Machines
  /\ acked \in SUBSET Commands
  /\ replies \in [Commands -> Nat]
  /\ records \in SUBSET Machines
  /\ revoked \in SUBSET Machines

StoreInit ==
  /\ log = [m \in Machines |-> <<>>]
  /\ ackFile = {}
  /\ replyFile = [c \in Commands |-> NoReply]
  /\ loaded = {}
  /\ acked = {}
  /\ replies = [c \in Commands |-> NoReply]
  /\ records = {}
  /\ revoked = {}

-----------------------------------------------------------------------------
(* Reading journals: what memory holds once the machines ms are loaded.    *)

AckedAfterLoad(ms) ==
  acked \cup {c \in ackFile : Target[c] \in ms \ loaded}

RepliesAfterLoad(ms) ==
  [c \in Commands |->
     IF Target[c] \in ms \ loaded /\ replyFile[c] # NoReply
     THEN replyFile[c] ELSE replies[c]]

LoadMachines(ms) ==
  /\ loaded' = loaded \cup ms
  /\ acked' = AckedAfterLoad(ms)
  /\ replies' = RepliesAfterLoad(ms)

\* Looking up an absent reply loads every machine that has a reply journal.
MachinesWithReplies == {Target[c] : c \in {x \in Commands : replyFile[x] # NoReply}}

LoadForReply(c, known) ==
  IF known[c] = NoReply THEN MachinesWithReplies ELSE {}

-----------------------------------------------------------------------------
(* The operations.                                                         *)

AppendCommand(c) ==
  /\ ~InLog(c)
  /\ log' = [log EXCEPT ![Target[c]] = Append(@, c)]
  /\ LoadMachines({Target[c]})
  /\ UNCHANGED <<ackFile, replyFile, records, revoked>>

\* Mutant: the ack is put in memory before it is looked for there.
Ack_MarksFirst(c) ==
  /\ acked' = acked \cup {c}
  /\ ackFile' = IF c \notin acked' /\ Target[c] \in loaded
                THEN ackFile \cup {c} ELSE ackFile
  /\ UNCHANGED <<log, replyFile, loaded, replies, records, revoked>>

\* The journal is written only when the command is found in a loaded list; an
\* ack already in memory returns before it gets there.
Ack(c) ==
  /\ acked' = acked \cup {c}
  /\ ackFile' = IF c \notin acked /\ Target[c] \in loaded
                THEN ackFile \cup {c} ELSE ackFile
  /\ UNCHANGED <<log, replyFile, loaded, replies, records, revoked>>

RecordReply(c, n) ==
  /\ replies' = [replies EXCEPT ![c] = n]
  /\ replyFile' = IF Target[c] \in loaded
                  THEN [replyFile EXCEPT ![c] = n] ELSE replyFile
  /\ UNCHANGED <<log, ackFile, loaded, acked, records, revoked>>

\* command() or pending(): only the lazy load changes state.
ReadCommands(m) ==
  /\ LoadMachines({m})
  /\ UNCHANGED <<log, ackFile, replyFile, records, revoked>>

ReadReply(c) ==
  /\ LoadMachines(LoadForReply(c, replies))
  /\ UNCHANGED <<log, ackFile, replyFile, records, revoked>>

Register(m) ==
  /\ records' = records \cup {m}
  /\ UNCHANGED <<log, ackFile, replyFile, loaded, acked, replies, revoked>>

Revoke(m) ==
  /\ revoked' = revoked \cup {m}
  /\ UNCHANGED <<log, ackFile, replyFile, loaded, acked, replies, records>>

ClearRevocation(m) ==
  /\ revoked' = revoked \ {m}
  /\ UNCHANGED <<log, ackFile, replyFile, loaded, acked, replies, records>>

\* A new process opens the same directory: memory is empty, journals remain.
Reopen ==
  /\ loaded' = {}
  /\ acked' = {}
  /\ replies' = [c \in Commands |-> NoReply]
  /\ UNCHANGED <<log, ackFile, replyFile, records, revoked>>

-----------------------------------------------------------------------------
\* registry(): the machines with a record and no tombstone.
Registry == records \ revoked
=============================================================================
