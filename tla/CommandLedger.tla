--------------------------- MODULE CommandLedger ----------------------------
(***************************************************************************)
(* What the fleet channel promises about a command, with sockets, frames   *)
(* and reconnects taken away: at-least-once execution of a durable queue.  *)
(*                                                                         *)
(* A command is submitted once and stays submitted.  Only a submitted      *)
(* command is run; it is answered only after a run, and settled only when  *)
(* answered or when the operator says so.  The plane lives several lives.  *)
(* In each it comes to hold more and more of the queue, a submission at    *)
(* the latest makes it hold the command.  An answer or an ack of a command *)
(* it holds is kept; one of a command it does not hold yet is only         *)
(* remembered, and is forgotten, with nothing else, when the life ends.    *)
(***************************************************************************)
EXTENDS Naturals

CONSTANT Commands

VARIABLES
  submitted,    \* commands accepted for delivery
  started,      \* commands whose handler ran at least once
  answered,     \* commands a reply can be read for
  settled,      \* commands that will not be delivered again
  waived,       \* commands the operator settled, answered or not
  held,         \* commands whose queue the plane has read in this life
  answersKept,  \* commands whose answer outlives the plane
  acksKept,     \* commands whose ack outlives the plane
  lives         \* how often the plane was started again

ledgerVars ==
  <<submitted, started, answered, settled, waived, held, answersKept, acksKept, lives>>

LedgerInit ==
  /\ submitted = {}
  /\ started = {}
  /\ answered = {}
  /\ settled = {}
  /\ waived = {}
  /\ held = {}
  /\ answersKept = {}
  /\ acksKept = {}
  /\ lives = 0

Submit(c) ==
  /\ c \notin submitted
  /\ submitted' = submitted \cup {c}
  /\ held \cup {c} \subseteq held'
  /\ UNCHANGED <<started, answered, settled, waived, answersKept, acksKept, lives>>

\* The plane reads more of the queue.
Hold ==
  /\ held \subseteq held'
  /\ UNCHANGED <<submitted, started, answered, settled, waived, answersKept,
                 acksKept, lives>>

Start(c) ==
  /\ c \in submitted
  /\ started' = started \cup {c}
  /\ UNCHANGED <<submitted, answered, settled, waived, held, answersKept, acksKept,
                 lives>>

Answer(c) ==
  /\ c \in started
  /\ answered' = answered \cup {c}
  /\ answersKept' = answersKept \cup ({c} \cap held)
  /\ UNCHANGED <<submitted, started, settled, waived, held, acksKept, lives>>

\* Only the ack that settles a command is kept: one that was remembered before
\* the queue was read is not written down later.
Settled(c) ==
  /\ settled' = settled \cup {c}
  /\ acksKept' = acksKept \cup ({c} \cap (held \ settled))
  /\ UNCHANGED <<submitted, started, answered, held, answersKept, lives>>

Settle(c) ==
  /\ c \in answered
  /\ Settled(c)
  /\ UNCHANGED waived

SettleByOperator(c) ==
  /\ c \in submitted
  /\ Settled(c)
  /\ waived' = waived \cup {c}

Restart ==
  /\ lives' = lives + 1
  /\ answered' = answersKept
  /\ settled' = acksKept
  /\ held' = {}
  /\ UNCHANGED <<submitted, started, waived, answersKept, acksKept>>

LedgerNext ==
  \/ \E c \in Commands : \/ Submit(c) \/ Start(c) \/ Answer(c)
                         \/ Settle(c) \/ SettleByOperator(c)
  \/ Hold
  \/ Restart

LedgerSpec == LedgerInit /\ [][LedgerNext]_ledgerVars
=============================================================================
