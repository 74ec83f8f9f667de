---------------------------- MODULE MCStrategies ----------------------------
(* The approval strategies, for TLC: three people and, for the strategy    *)
(* with a user task per entry, three groups that share some of them.       *)
EXTENDS ApprovalStrategies, TLC

CONSTANTS u1, u2, u3

MCUsers    == {u1, u2, u3}
MCEligible == {<<1, u1>>, <<2, u2>>, <<2, u3>>, <<3, u3>>}
OnePerson  == {<<1, u1>>}
=============================================================================
