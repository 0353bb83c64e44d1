--------------------------- MODULE MCFleetChannel ---------------------------
(***************************************************************************)
(* One machine, two sockets (the old one may still be open on one side     *)
(* while the next is dialled) and two commands.                            *)
(***************************************************************************)
EXTENDS FleetChannel, TLC

CONSTANTS m1, k1, k2, c1, c2

OneMachine == {m1}
TwoSockets == {k1, k2}
TwoCommands == {c1, c2}
OneCommand == {c1}
DialedByM1 == [k \in {k1, k2} |-> m1]
ToM1 == [c \in {c1, c2} |-> m1]
OneToM1 == [c \in {c1} |-> m1]

SafetySymmetry == Permutations({k1, k2}) \cup Permutations({c1, c2})
=============================================================================
