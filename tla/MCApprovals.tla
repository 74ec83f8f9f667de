---------------------------- MODULE MCApprovals ----------------------------
(* The approval task as a whole, for TLC: four eyes of a group of two.     *)
EXTENDS Approvals, TLC

CONSTANTS u1, u2

MCUsers    == {u1, u2}
MCEligible == {<<1, u1>>, <<1, u2>>}
=============================================================================
