----------------------------- MODULE FleetLedger ----------------------------
(***************************************************************************)
(* The fleet channel implements the command ledger.  The channel counts    *)
(* the lives of the plane (`lives`), so that what is forgotten can be told *)
(* to be forgotten at a restart of the plane and at no other moment.       *)
(***************************************************************************)
EXTENDS FleetChannel

Submitted == {c \in Commands : InLog(c)}
Started == {c \in Commands : runs[c] > 0}
Held == {c \in Commands : Target[c] \in loaded}
AnswersOnDisk == {c \in Commands : replyFile[c] # NoReply}

Ledger == INSTANCE CommandLedger
            WITH submitted <- Submitted, started <- Started,
                 answered <- Answered, settled <- Settled,
                 held <- Held, answersKept <- AnswersOnDisk, acksKept <- ackFile,
                 waived <- byOperator

\* Whatever sockets break and whenever either side restarts, what an observer
\* sees of a command is a behaviour of the ledger: it is answered only after a
\* real run and settled only after an answer or by the operator; while its queue
\* is held both are kept; and what was not kept is forgotten when the plane is
\* started again, at no other moment, and nothing else is.
ImplementsLedger == Ledger!LedgerSpec
=============================================================================
