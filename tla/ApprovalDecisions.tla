------------------------- MODULE ApprovalDecisions --------------------------
(***************************************************************************)
(* What the approval broker promises about an ask, with timers, UI asks,    *)
(* sessions and the ways to reach them taken away.                          *)
(*                                                                          *)
(* An ask is decided once.  It is allowed only if somebody allowed it.      *)
(* Whoever asked is told once: that the ask is pending, or what an ask of   *)
(* its id was decided with.  Two undecided asks have different ids.         *)
(***************************************************************************)
EXTENDS Naturals, Sequences

CONSTANTS Ids, MaxAsks, Allows, Refusals

VARIABLES
    asks,     \* the ids of the asks, in the order they were made
    said,     \* the verdicts people gave, per ask
    decided,  \* the decisions, in the order they were made
    told      \* ask -> what its maker was told

decisionVars == <<asks, said, decided, told>>

Verdict(n, v) == [ask |-> n, verdict |-> v]
Undecided == {n \in DOMAIN asks : \A i \in DOMAIN decided : decided[i].ask # n}

(* What the maker of an ask with id c may be told.                         *)
Tellable(record, c) ==
    {"pending"} \cup
    {record[i].verdict : i \in {j \in DOMAIN record : asks[record[j].ask] = c}}

DecisionsInit ==
    /\ asks = <<>>
    /\ said = {}
    /\ decided = <<>>
    /\ told = [n \in 1 .. MaxAsks |-> "waiting"]

(* An ask is made; if nobody can be asked its maker is told at once.       *)
Ask(c) ==
    LET n == Len(asks) + 1 IN
    /\ n <= MaxAsks
    /\ \A m \in Undecided : asks[m] # c
    /\ asks' = Append(asks, c)
    /\ \E t \in {"waiting"} \cup Tellable(decided, c) : told' = [told EXCEPT ![n] = t]
    /\ UNCHANGED <<said, decided>>

Say(n, v) ==
    /\ said' = said \cup {Verdict(n, v)}
    /\ UNCHANGED <<asks, decided, told>>

(* The decision; it may be what somebody says at this moment, and its      *)
(* maker may be told it at once.                                           *)
Decide(n, v) ==
    /\ n \in Undecided
    /\ said' \in {said, said \cup {Verdict(n, v)}}
    /\ v \in Allows => \E w \in Allows : Verdict(n, w) \in said'
    /\ decided' = Append(decided, Verdict(n, v))
    /\ told' \in {told, [told EXCEPT ![n] = v]}
    /\ told' # told => told[n] = "waiting"
    /\ UNCHANGED asks

Tell(n, t) ==
    /\ told[n] = "waiting"
    /\ t \in Tellable(decided, asks[n])
    /\ told' = [told EXCEPT ![n] = t]
    /\ UNCHANGED <<asks, said, decided>>

DecisionsNext ==
    \/ \E c \in Ids : Ask(c)
    \/ \E n \in DOMAIN asks, v \in Allows \cup Refusals :
          Say(n, v) \/ Decide(n, v)
    \/ \E n \in DOMAIN asks, t \in {"pending"} \cup Allows \cup Refusals : Tell(n, t)

DecisionsSpec == DecisionsInit /\ [][DecisionsNext]_decisionVars
=============================================================================
