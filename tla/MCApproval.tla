----------------------------- MODULE MCApproval -----------------------------
(* Instances of the approval broker for TLC.                               *)
EXTENDS ApprovalBroker, TLC

CONSTANTS c1, c2, s1, s2, r1, r2

OneId == c1 :> s1
OneSession == c1 :> s1 @@ c2 :> s1
TwoSessions == c1 :> s1 @@ c2 :> s2
=============================================================================
