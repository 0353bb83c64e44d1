----------------------------- MODULE MCPiTurns ------------------------------
(* Instances of PiTurns for TLC: the calls are alike.                      *)
EXTENDS PiTurns, TLC

CallSymmetry == Permutations(Call)
=============================================================================
