---------------------------- MODULE ApprovalGate ----------------------------
(***************************************************************************)
(* What a pipeline is promised by its approval step, with no operator, no  *)
(* Kubernetes object and no process engine in sight.  Approvers give       *)
(* decisions; the step may be stopped (its timeout expires, or its         *)
(* pipeline run is cancelled); and the pipeline learns one outcome, once:  *)
(*                                                                         *)
(*   proceeded   only after an approver said "true"                        *)
(*   skipped     only after an approver said "false"                       *)
(*   failed      only after the step was stopped                           *)
(*   deleted     its pipeline run was deleted before an outcome            *)
(***************************************************************************)

CONSTANT Decisions    \* what an approver can say

VARIABLES
  outcome,            \* what the pipeline has learnt
  said,               \* the decisions approvers have given
  stopped             \* the timeout has expired or a cancel was requested

vars == <<outcome, said, stopped>>

Outcomes == {"waiting", "proceeded", "skipped", "failed", "deleted"}

TypeOK ==
  /\ outcome \in Outcomes
  /\ said \subseteq Decisions
  /\ stopped \in BOOLEAN

Init ==
  /\ outcome = "waiting"
  /\ said = {}
  /\ stopped = FALSE

Say(d) ==
  /\ said' = said \cup {d}
  /\ UNCHANGED <<outcome, stopped>>

Stop ==
  /\ stopped' = TRUE
  /\ UNCHANGED <<outcome, said>>

Learn(o) ==
  /\ outcome = "waiting"
  /\ \/ o = "proceeded" /\ "true" \in said
     \/ o = "skipped"   /\ "false" \in said
     \/ o = "failed"    /\ stopped
     \/ o = "deleted"
  /\ outcome' = o
  /\ UNCHANGED <<said, stopped>>

Next ==
  \/ \E d \in Decisions : Say(d)
  \/ Stop
  \/ \E o \in Outcomes : Learn(o)

Spec == Init /\ [][Next]_vars

=============================================================================
