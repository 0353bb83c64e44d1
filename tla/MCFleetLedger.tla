---------------------------- MODULE MCFleetLedger ---------------------------
(***************************************************************************)
(* The refinement on one machine, two sockets and one command, with a      *)
(* revocation.                                                             *)
(***************************************************************************)
EXTENDS FleetLedger

CONSTANTS m1, k1, k2, c1

OneMachine == {m1}
TwoSockets == {k1, k2}
OneCommand == {c1}
DialedByM1 == [k \in {k1, k2} |-> m1]
ToM1 == [c \in {c1} |-> m1]
=============================================================================
