----------------------------- MODULE Approvals -----------------------------
(***************************************************************************)
(* The approval task as a whole: ApprovalOperator, whose one step Decide   *)
(* is made up here of the requests of ApprovalStrategies.  Basic Approval  *)
(* Task calls the process of the strategy when it asks the approvers; the  *)
(* request that ends the strategy goes on to store the decision, and all   *)
(* of it is saved at the end.  The two share the container, its restarts   *)
(* and its volume.                                                         *)
(***************************************************************************)
EXTENDS ApprovalOperator, FiniteSets

CONSTANTS
  Strategy, GroupApproval, NEntries,   \* the ApprovalTask's spec,
  Users, Nobody, Eligible              \* as in ApprovalStrategies

ASSUME EntriesAssumption ==
  /\ Strategy \in {"SINGLE", "MULTI", "FOUR_EYES", "null"}
  /\ GroupApproval \in BOOLEAN
  /\ NEntries \in Nat
  /\ (GroupApproval \/ Strategy = "MULTI") => NEntries > 0
  /\ Nobody \notin Users
  /\ Eligible \subseteq (1..NEntries) \X Users

VARIABLES
  phase, open, answers, by, req, responses, results,   \* as in ApprovalStrategies
  heard,         \* history: who has said what
  saved          \* the strategy's instance as its last request left it

Str == INSTANCE ApprovalStrategies WITH said <- heard

strategy == <<phase, open, answers, by, req, results>>

systemVars == <<vars, strategy, responses, heard, saved>>

Instances == [open : SUBSET Str!Seats, answers : [Str!Seats -> {"none", "true", "false"}],
              by : [Str!Seats -> Users \cup {Nobody}]]

NewInstance == [open |-> Str!FirstOpen, answers |-> [s \in Str!Seats |-> "none"],
                by |-> [s \in Str!Seats |-> Nobody]]

SystemTypeOK == TypeOK /\ Str!TypeOK /\ saved \in Instances

SystemInit == Init /\ Str!Init /\ saved = NewInstance

-----------------------------------------------------------------------------
(* The strategy's instance is the one that was saved.                      *)
Restore(i) ==
  /\ phase' = "asking"
  /\ open' = i.open /\ answers' = i.answers /\ by' = i.by
  /\ req' = Str!NoReq
  /\ results' = Str!NoResults
  /\ saved' = i

(* Basic Approval Task starts, and calls the strategy.                     *)
Ask ==
  /\ InitializeApprovalTask
  /\ Restore(NewInstance)
  /\ UNCHANGED <<responses, heard>>

(* A step of the operator that the strategy has no part in.                *)
Beside(A) == A /\ UNCHANGED <<strategy, responses, heard, saved>>

(* A form is completed while the approvers are asked.                      *)
AnswerAsked(s) == asg.pc = "asking" /\ Str!Answer(s) /\ UNCHANGED <<vars, saved>>

(* The label is part of the ApprovalTask; when that is gone nothing is     *)
(* counted.                                                                *)
CountResponse ==
  /\ IF task.phase # "absent" THEN Str!UpdateApprovalTaskResponses
     ELSE /\ req.pc = "responses"
          /\ req' = [req EXCEPT !.pc = "save"]
          /\ UNCHANGED <<phase, open, answers, by, responses, results, heard>>
  /\ UNCHANGED <<vars, saved>>

(* The end of a request that leaves the strategy waiting.                  *)
SaveAnswer ==
  /\ Str!Save /\ phase' = "asking"
  /\ saved' = [open |-> open', answers |-> answers', by |-> by']
  /\ UNCHANGED vars

(* The end of the strategy: its process returns the decision to Basic      *)
(* Approval Task, which stores it before anything is saved.                *)
ReturnDecision ==
  /\ Str!Save /\ phase' = "decided"
  /\ Decide(results'.decision)
  /\ UNCHANGED saved

(* The ApprovalTask goes, and with it its label and whoever is asked; the  *)
(* request at hand comes first.                                            *)
DeleteTask ==
  /\ DeleteApprovalTask
  /\ responses' = 0
  /\ IF asg.pc = "asking"
       THEN /\ req.pc = "idle"
            /\ phase' = "interrupted"
            /\ open' = {}
            /\ UNCHANGED <<answers, by, req, results>>
       ELSE UNCHANGED strategy
  /\ UNCHANGED <<heard, saved>>

LeftAsItWasMutant ==             \* a mutant of Restart: the instance is not restored
  /\ Crash
  /\ req' = Str!NoReq
  /\ UNCHANGED <<phase, open, answers, by, results, saved, responses, heard>>

(* A restart.  The request at hand is lost, up to the saved instance or,   *)
(* without a volume, with it.  A decision whose storing was part of the    *)
(* request is asked for again.                                             *)
Restart ==
  /\ Crash
  /\ IF ~Durable THEN Restore(NewInstance)
     ELSE IF asg.pc \in {"asking", "store", "label", "read", "patch"} THEN Restore(saved)
     ELSE UNCHANGED <<strategy, saved>>
  /\ UNCHANGED <<responses, heard>>

Storing == \/ UpdateApprovalTaskStatusCompleted \/ LabelDecision
           \/ ReadRun \/ UpdateRunResultsCompleted

AskedAssignment == Ask \/ Beside(Storing) \/ DeleteTask

Request == CountResponse \/ SaveAnswer \/ ReturnDecision

SystemNext ==
  \/ Beside(Reconciler \/ Timer)
  \/ AskedAssignment
  \/ \E s \in Str!Seats : AnswerAsked(s)
  \/ Request
  \/ Beside(Owner)
  \/ Restart

(* The operator's threads and Tekton's controller keep running, a request  *)
(* that has begun goes on, and whoever is asked answers in the end.        *)
SystemFairness ==
  /\ WF_systemVars(Beside(Reconciler))
  /\ WF_systemVars(Beside(Timer))
  /\ WF_systemVars(AskedAssignment)
  /\ WF_systemVars(Beside(Observe))
  /\ WF_systemVars(Request)
  /\ \A s \in Str!Seats : SF_systemVars(AnswerAsked(s))

SystemSpec == SystemInit /\ [][SystemNext]_systemVars
FairSystemSpec == SystemSpec /\ SystemFairness
-----------------------------------------------------------------------------
(* Properties.                                                             *)

(* The operator's one step Decide, and the assumption that it is taken     *)
(* when the approvers keep being asked, is what the strategies do: any     *)
(* number of requests that restarts, a deletion and other threads come     *)
(* between, in the end one decision, stored in the same request.           *)
OperatorSpec == AnsweredSpec

(* What a four-eyes strategy approves was approved by two people, the two  *)
(* that its result names, also when a restart took the instance back to    *)
(* what was saved of it.                                                   *)
TwoPairsOfEyes == Str!TwoPairsOfEyes

(* From the form to the pipeline: tasks behind a four-eyes approval run    *)
(* only after two people have said so, and are skipped only after somebody *)
(* has said no, whatever threads, deletions and restarts come between.     *)
OutcomeNeedsEyes ==
  /\ pipeline = "proceeded" /\ Str!Route = "fourEyes" =>
       \E u, v \in Users : u # v /\ {<<u, "true">>, <<v, "true">>} \subseteq heard
  /\ pipeline = "skipped" => \E u \in Users : <<u, "false">> \in heard

(* The approvers or groups of the ApprovalTask name somebody for each user *)
(* task, and for the second step of four eyes more than one.               *)
Staffed ==
  /\ \A s \in Str!Seats : \E u \in Users : Str!Assigned(u, s)
  /\ Str!Route = "fourEyes" =>
       \E u, v \in Users : u # v /\ Str!Assigned(u, 2) /\ Str!Assigned(v, 2)

(* A pipeline never waits for nobody: when the operator has come to rest   *)
(* some user task is open that somebody may complete, whatever was         *)
(* answered, saved and restored before; or a restart has lost what would   *)
(* have ended the run.                                                     *)
WaitsForSomebody ==
  Staffed /\ ~Busy /\ pipeline = "waiting" =>
    Stalled \/ \E s \in open, u \in Users : Str!MayAnswer(u, s)

(* When whoever is asked answers, the pipeline goes on, in spite of        *)
(* restarts, cancels and deletions: unless a restart has lost what would   *)
(* have ended the run, which on a volume takes a timeout, or a cancel and  *)
(* two restarts.                                                           *)
PipelineGoesOn == <>(pipeline # "waiting" \/ Stalled)
=============================================================================
