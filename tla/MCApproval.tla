----------------------------- MODULE MCApproval -----------------------------
(* The approval operator, for TLC.  The constants are switches and the     *)
(* bound on restarts; each .cfg gives them the values of one situation.    *)
EXTENDS ApprovalOperator
=============================================================================
