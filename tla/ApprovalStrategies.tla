------------------------- MODULE ApprovalStrategies -------------------------
(***************************************************************************)
(* How the approvers' answers make one decision: the strategies of an      *)
(* ApprovalTask, that is the called processes Single Approval, Multi       *)
(* Approval (one user task for each approver or group, in parallel) and    *)
(* Four Eyes Approval (two user tasks, one after the other).  This is what *)
(* module ApprovalOperator takes in one step, Decide.                      *)
(*                                                                         *)
(* A seat is a user task the strategy opens.  Completing one is a request: *)
(* the responses label on the API server is updated in the middle of it,   *)
(* the process instance is saved at its end.  The engine handles the       *)
(* requests to one instance one at a time.                                 *)
(***************************************************************************)
EXTENDS Naturals, FiniteSets

CONSTANTS
  Strategy,      \* spec.strategy; "null" for a name that is not a strategy
  GroupApproval, \* isGroupApproval: spec.groups is set, and goes before spec.approvers
  NEntries,      \* the length of spec.groups or, if that is empty, of spec.approvers,
                 \* which may be empty too (not with MULTI: what the engine makes of
                 \* a multi-instance sub-process without instances is not known here)
  Users,         \* people who can answer
  Nobody,        \* not a user
  Eligible,      \* pairs of an entry and a user whom it names
  Durable,       \* process instances are on a persistent volume
  MaxCrashes     \* bound: how often the operator's container restarts

ASSUME StrategyAssumption ==
  /\ Strategy \in {"SINGLE", "MULTI", "FOUR_EYES", "null"}
  /\ GroupApproval \in BOOLEAN
  /\ NEntries \in Nat
  /\ (GroupApproval \/ Strategy = "MULTI") => NEntries > 0
  /\ Nobody \notin Users
  /\ Eligible \subseteq (1..NEntries) \X Users
  /\ Durable \in BOOLEAN
  /\ MaxCrashes \in Nat

VARIABLES
  phase,         \* of the strategy's process instance
  open,          \* the seats whose user task is open
  answers, by,   \* what each seat answered, and who answered
  req,           \* the request at hand: where it is, and what it says
  responses,     \* the number in the task's responses label
  results,       \* the strategy's output
  said,          \* history: who has said what
  crashes        \* history: restarts so far

vars == <<phase, open, answers, by, req, responses, results, said, crashes>>

-----------------------------------------------------------------------------
(* The gateway "determine strategy" takes the first flow whose condition   *)
(* holds: an unset strategy is single, though it passes for four eyes too. *)
isSingleApprovalStrategy   == Strategy \in {"null", "SINGLE"}
isMultiApprovalStrategy    == Strategy = "MULTI"
isFourEyesApprovalStrategy == Strategy \in {"null", "FOUR_EYES"}

Route ==
  IF isSingleApprovalStrategy THEN "single"
  ELSE IF isMultiApprovalStrategy THEN "multi"
  ELSE "fourEyes"

Seats ==
  CASE Route = "single"   -> {1}
    [] Route = "multi"    -> 1..NEntries
    [] Route = "fourEyes" -> {1, 2}

FirstOpen == IF Route = "fourEyes" THEN {1} ELSE Seats

Named(u) == \E e \in 1..NEntries : <<e, u>> \in Eligible

(* Whom a user task is assigned to: that entry, or all of them.  The tasks *)
(* of four eyes are assigned to groups only (groupsAsString; they have no  *)
(* potential owner), and a task without an assignment is open to everyone. *)
Assigned(u, s) ==
  CASE Route = "multi"    -> <<s, u>> \in Eligible
    [] Route = "single"   -> NEntries > 0 => Named(u)
    [] Route = "fourEyes" -> GroupApproval => Named(u)

NoExclusionMutant(u, s) ==       \* a mutant of MayAnswer: no ExcludedUsers
  Assigned(u, s)

(* The second step of four eyes excludes the first approver.               *)
MayAnswer(u, s) ==
  /\ Assigned(u, s)
  /\ Route = "fourEyes" /\ s = 2 => u # by[1]

DecisionTagMutant(ans) ==        \* a mutant of AllMatch: decisionTag's words
  IF \A s \in Seats : ans[s] # "false" THEN "approved" ELSE "rejected"

(* calculateOutcome: nobody among those who answered said no.              *)
AllMatch(ans) == IF \A s \in Seats : ans[s] # "false" THEN "true" ELSE "false"

AllAnsweredMutant(ans) ==        \* a mutant of Ended: no isAlreadyRejected
  \A s \in Seats : ans[s] # "none"

(* multi: isAlreadyRejected, or every instance of the sub-process ended;   *)
(* four eyes: the first step not approved, or the second step done.        *)
Ended(ans) ==
  \/ \E s \in Seats : ans[s] = "false"
  \/ \A s \in Seats : ans[s] # "none"

EveryNameMutant(ans, who, d) ==  \* a mutant of Names: without looking at the decision
  {who[s] : s \in {t \in Seats : ans[t] # "none"}}

Names(ans, who, d) == {who[s] : s \in {t \in Seats : ans[t] = d}}

NoReq     == [pc |-> "idle", seat |-> 1, user |-> Nobody, decision |-> "none"]
NoResults == [decision |-> "none", approvedBy |-> {}, rejectedBy |-> {}]

TypeOK ==
  /\ phase \in {"asking", "decided", "interrupted"}
  /\ open \subseteq Seats
  /\ answers \in [Seats -> {"none", "true", "false"}]
  /\ by \in [Seats -> Users \cup {Nobody}]
  /\ req \in [pc : {"idle", "responses", "save"}, seat : Seats,
              user : Users \cup {Nobody}, decision : {"none", "true", "false"}]
  /\ responses \in Nat
  /\ results \in [decision : {"none", "true", "false"},
                  approvedBy : SUBSET Users, rejectedBy : SUBSET Users]
  /\ said \subseteq Users \X {"true", "false"}
  /\ crashes \in 0..MaxCrashes

Init ==
  /\ phase = "asking"
  /\ open = FirstOpen
  /\ answers = [s \in Seats |-> "none"]
  /\ by = [s \in Seats |-> Nobody]
  /\ req = NoReq
  /\ responses = 0
  /\ results = NoResults
  /\ said = {}
  /\ crashes = 0

-----------------------------------------------------------------------------
(* An approver completes a user task.  The responses label comes next,     *)
(* except after an approved first step of four eyes.                       *)
Complete(u, s, d) ==
  /\ req.pc = "idle" /\ s \in open /\ MayAnswer(u, s)
  /\ req' = [pc |-> IF Route = "fourEyes" /\ s = 1 /\ d = "true" THEN "save" ELSE "responses",
             seat |-> s, user |-> u, decision |-> d]
  /\ said' = said \cup {<<u, d>>}
  /\ UNCHANGED <<phase, open, answers, by, responses, results, crashes>>

ZeroFirstMutant ==               \* a mutant: no label made by createApprovalTask
  /\ req.pc = "responses"
  /\ responses' = IF responses = 0 /\ \A s \in Seats : answers[s] = "none"
                    THEN 0 ELSE responses + 1
  /\ req' = [req EXCEPT !.pc = "save"]
  /\ UNCHANGED <<phase, open, answers, by, results, said, crashes>>

(* updateApprovalTaskResponses: one more than the label says.              *)
UpdateApprovalTaskResponses ==
  /\ req.pc = "responses"
  /\ responses' = responses + 1
  /\ req' = [req EXCEPT !.pc = "save"]
  /\ UNCHANGED <<phase, open, answers, by, results, said, crashes>>

NoSecondStepMutant ==            \* a mutant of Save: four eyes opens no second task
  /\ req.pc = "save"
  /\ req' = NoReq
  /\ answers' = [answers EXCEPT ![req.seat] = req.decision]
  /\ by' = [by EXCEPT ![req.seat] = req.user]
  /\ open' = open \ {req.seat}
  /\ UNCHANGED <<phase, results, responses, said, crashes>>

(* The end of the request: the answer is part of the saved instance, and   *)
(* the strategy either ends, closing what is still open, or goes on.       *)
Save ==
  /\ req.pc = "save"
  /\ req' = NoReq
  /\ answers' = [answers EXCEPT ![req.seat] = req.decision]
  /\ by' = [by EXCEPT ![req.seat] = req.user]
  /\ IF Ended(answers')
       THEN /\ phase' = "decided"
            /\ open' = {}
            /\ results' = [decision |-> IF Route = "multi" THEN AllMatch(answers')
                                                           ELSE req.decision,
                           approvedBy |-> Names(answers', by', "true"),
                           rejectedBy |-> Names(answers', by', "false")]
       ELSE /\ open' = IF Route = "fourEyes" THEN {2} ELSE open \ {req.seat}
            /\ UNCHANGED <<phase, results>>
  /\ UNCHANGED <<responses, said, crashes>>

(* The ApprovalTask is deleted while approvers are asked.                  *)
Interrupt ==
  /\ phase = "asking" /\ req.pc = "idle"
  /\ phase' = "interrupted"
  /\ open' = {}
  /\ UNCHANGED <<answers, by, req, responses, results, said, crashes>>

(* A restart.  A request in progress is lost; a saved instance comes back  *)
(* from a volume, and is otherwise started again for the same ApprovalTask *)
(* as long as that has no results.                                         *)
Crash ==
  /\ crashes < MaxCrashes
  /\ crashes' = crashes + 1
  /\ req' = NoReq
  /\ IF phase = "asking" /\ ~Durable
       THEN /\ open' = FirstOpen
            /\ answers' = [s \in Seats |-> "none"]
            /\ by' = [s \in Seats |-> Nobody]
       ELSE UNCHANGED <<open, answers, by>>
  /\ UNCHANGED <<phase, responses, results, said>>

Answer(s) == \E u \in Users, d \in {"true", "false"} : Complete(u, s, d)

Next ==
  \/ \E s \in Seats : Answer(s)
  \/ UpdateApprovalTaskResponses
  \/ Save
  \/ Interrupt
  \/ Crash

(* The engine goes on with a request it has begun; and whoever is asked    *)
(* answers in the end.                                                     *)
Fairness ==
  /\ WF_vars(UpdateApprovalTaskResponses)
  /\ WF_vars(Save)
  /\ \A s \in Seats : SF_vars(Answer(s))

Spec == Init /\ [][Next]_vars
FairSpec == Spec /\ Fairness
-----------------------------------------------------------------------------
(* Properties.                                                             *)

(* All strategies are one unanimous vote, with a seat for each answer that *)
(* the strategy needs: calculateOutcome, isAlreadyRejected and the four    *)
(* eyes gateway neither approve too early nor reject too late.             *)
Vote == INSTANCE Unanimity
          WITH yes <- {s \in Seats : answers[s] = "true"},
               no <- {s \in Seats : answers[s] = "false"},
               outcome <- IF phase = "interrupted" THEN "interrupted" ELSE results.decision
VoteSpec == Vote!Spec

(* Four eyes: what is approved was approved by two people, and they are    *)
(* the two that the result names, whatever a restart made them do again.   *)
TwoPairsOfEyes ==
  Route = "fourEyes" /\ results.decision = "true" =>
    \E u, v \in Users : /\ u # v /\ results.approvedBy = {u, v}
                        /\ {<<u, "true">>, <<v, "true">>} \subseteq said

(* The result names only people who said what it says of them; an approval *)
(* names nobody who rejected, and a decision always names somebody.        *)
NamesSaidSo ==
  /\ \A u \in results.approvedBy : <<u, "true">> \in said
  /\ \A u \in results.rejectedBy : <<u, "false">> \in said
  /\ results.decision = "true" => results.approvedBy # {} /\ results.rejectedBy = {}
  /\ results.decision = "false" => results.rejectedBy # {}

(* Who decides is somebody whom the task's approvers or groups name.       *)
AssigneesDecide ==
  \A u \in results.approvedBy \cup results.rejectedBy : Named(u)

(* An unknown strategy falls back to single: the first answer is the last. *)
FirstAnswerDecides ==
  Strategy \in {"null", "SINGLE"} /\ phase = "asking" => \A s \in Seats : answers[s] = "none"

(* No restart makes the label of a multi approval smaller than the number  *)
(* of answers that the strategy remembers.                                 *)
NoAnswerUncounted ==
  Route = "multi" /\ req.pc # "responses" =>
    responses >= Cardinality({s \in Seats : answers[s] # "none"})

(* When whoever is asked answers, the strategy ends.                       *)
EventuallyDecided == <>(phase # "asking")
=============================================================================
