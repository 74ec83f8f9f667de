-------------------------- MODULE ApprovalOperator --------------------------
(***************************************************************************)
(* The Tekton approval task: one CustomRun that references an ApprovalTask,*)
(* from its creation by a pipeline run to its deletion.                    *)
(*                                                                         *)
(* Two BPMN processes run in the operator, one instance of each for the    *)
(* CustomRun: RunController (bpmn2 of the same name, here ctl, rec, tmr)   *)
(* mirrors the CustomRun as an ApprovalTask and reports its end; Basic     *)
(* Approval Task (here asg) asks the approvers and stores their decision.  *)
(* They share nothing but the two objects on the Kubernetes API server,    *)
(* which they read and write one call at a time, on different threads: the *)
(* reconciler (rec), the timer job (tmr) and the approver's request (asg). *)
(*                                                                         *)
(* Every server call that another thread can interleave with is a step of  *)
(* its own.  How the approvers' answers make one decision is the subject   *)
(* of module ApprovalStrategies; here the decision is one step, Decide.    *)
(***************************************************************************)
EXTENDS Naturals

CONSTANTS
  HasTimer,      \* the CustomRun carries a timeout
  MayCancel,     \* its pipeline run may be cancelled
  MayDelete,     \* its pipeline run may be deleted
  Durable,       \* process instances and jobs are on a persistent volume
  MaxCrashes     \* bound: how often the operator's container restarts

ASSUME ConstantsAssumption ==
  /\ HasTimer \in BOOLEAN
  /\ MayCancel \in BOOLEAN
  /\ MayDelete \in BOOLEAN
  /\ Durable \in BOOLEAN
  /\ MaxCrashes \in Nat

VARIABLES
  run,           \* the CustomRun on the API server
  task,          \* the ApprovalTask on the API server
  runEvt,        \* the operator has an event of the CustomRun to handle
  ctl,           \* the RunController instance: its "wait for completion"
  resource,      \* its process variable: the copy of the run at hand
  skipResourceUpdate,  \* its process variable: nothing to propagate
  disk,          \* that instance as it was last saved on the volume
  rec,           \* where the reconciler is in handling an event of the run
  tmr,           \* the timer branch of RunController, with the copy it read
  asg,           \* the Basic Approval Task instance, with the copy it read
  pipeline,      \* what the pipeline run has learnt of the CustomRun
  said,          \* history: the decisions approvers have given
  fired,         \* history: the timeout has expired on an undecided task
  crashes        \* history: restarts so far

instance == <<ctl, resource, skipResourceUpdate, disk>>

vars == <<run, task, runEvt, ctl, resource, skipResourceUpdate, disk, rec, tmr, asg,
          pipeline, said, fired, crashes>>

Decisions == {"true", "false"}
Results   == Decisions \cup {"none"}
Conds     == {"none", "Unknown", "True", "False"}
Status    == [cond : Conds, results : Results]
Phases    == {"absent", "live", "deleting"}
SpecStatus == {"none", "RunCancelled"}

NoStatus == [cond |-> "none", results |-> "none"]
NoTask   == [phase |-> "absent", results |-> "none", label |-> "none"]
NoCopy   == [spec |-> "none", status |-> NoStatus]
NotSaved == [ctl |-> "none", resource |-> NoCopy, skipResourceUpdate |-> TRUE]
NoTmr    == [pc |-> "off", status |-> NoStatus]
NoAsg    == [pc |-> "none", decision |-> "none", status |-> NoStatus]

TypeOK ==
  /\ run \in [phase : Phases, spec : SpecStatus, status : Status]
  /\ task \in [phase : Phases, results : Results,
               label : {"none", "pending", "approved", "rejected"}]
  /\ runEvt \in BOOLEAN
  /\ ctl \in {"none", "waiting", "marked", "completed"}
  /\ resource \in [spec : SpecStatus, status : Status]
  /\ skipResourceUpdate \in BOOLEAN
  /\ disk \in [ctl : {"none", "waiting", "completed"},
               resource : [spec : SpecStatus, status : Status],
               skipResourceUpdate : BOOLEAN]
  /\ rec \in {"idle", "start", "update", "propagate"}
  /\ tmr \in [pc : {"off", "armed", "delete", "read", "patch"}, status : Status]
  /\ asg \in [pc : {"none", "asking", "store", "label", "read", "patch", "done"},
              decision : Results, status : Status]
  /\ pipeline \in {"waiting", "proceeded", "skipped", "failed", "deleted"}
  /\ said \subseteq Decisions
  /\ fired \in BOOLEAN
  /\ crashes \in 0..MaxCrashes

Init ==
  /\ run = [phase |-> "live", spec |-> "none", status |-> NoStatus]
  /\ task = NoTask
  /\ runEvt = TRUE
  /\ ctl = "none"
  /\ resource = NoCopy
  /\ skipResourceUpdate = TRUE
  /\ disk = NotSaved
  /\ rec = "idle"
  /\ tmr = NoTmr
  /\ asg = NoAsg
  /\ pipeline = "waiting"
  /\ said = {}
  /\ fired = FALSE
  /\ crashes = 0

-----------------------------------------------------------------------------
(* The functions the processes' filters and conditions are written with.   *)

isCompleted(status) == status.cond \in {"True", "False"}
hasResults(status)  == status.results # "none"

WithCond(status, c)    == [cond |-> c, results |-> status.results]
WithResults(status, r) == [cond |-> status.cond, results |-> r]

(* A write to the CustomRun on the server, which the operator will see.    *)
(* fabric8's patchStatus sends the difference between the server's object  *)
(* and the copy it is given: the copy's whole status wins.                 *)
PatchStatus(status) ==
  /\ run' = [run EXCEPT !.status = status]
  /\ runEvt' = IF status = run.status THEN runEvt ELSE TRUE

(* The RunController instance is gone, with its variables and its file.    *)
NoInstance ==
  /\ ctl' = "none"
  /\ resource' = NoCopy
  /\ skipResourceUpdate' = TRUE
  /\ disk' = NotSaved

(* The reconciler's request is at its end: the process is at a wait state. *)
AtWaitState ==
  rec \in {"start", "propagate"} /\ ~(ctl = "waiting" /\ hasResults(resource.status))

(* What the end of a request saves.                                        *)
AtHand == [ctl |-> IF ctl = "marked" THEN "completed" ELSE ctl,
           resource |-> resource, skipResourceUpdate |-> skipResourceUpdate]

(* r.delete(): the operator's finalizer keeps the object until its own     *)
(* clean-up has run.                                                       *)
Deleted(t) == IF t.phase = "live" THEN [t EXCEPT !.phase = "deleting"] ELSE t

-----------------------------------------------------------------------------
(* Mutants: what a slip in the code below would make of it.  No action     *)
(* uses them; each breaks a property (PROJECT.json names the pairs).       *)

FailedStatusMutant ==            \* updateRunStatusFailed's "Failed" condition
  /\ rec # "idle" /\ ctl = "waiting" /\ hasResults(resource.status)
  /\ ctl' = "marked"
  /\ skipResourceUpdate' = FALSE
  /\ resource' = [resource EXCEPT !.status = WithCond(@, "Failed")]
  /\ PatchStatus(WithCond(resource.status, "Failed"))
  /\ UNCHANGED <<disk, task, rec, tmr, asg, pipeline, said, fired, crashes>>

UnconditionalCompletionMutant == \* no hasResults(resource) to wait for
  /\ rec # "idle" /\ ctl = "waiting"
  /\ ctl' = "marked"
  /\ skipResourceUpdate' = FALSE
  /\ resource' = [resource EXCEPT !.status = WithCond(@, "True")]
  /\ PatchStatus(WithCond(resource.status, "True"))
  /\ UNCHANGED <<disk, task, rec, tmr, asg, pipeline, said, fired, crashes>>

AnyUpdateCancelsMutant ==        \* spec.status not compared to RunCancelled
  /\ rec = "update"
  /\ rec' = "propagate"
  /\ resource' = [resource EXCEPT !.status = WithCond(@, "False")]
  /\ skipResourceUpdate' = IF task.phase = "absent" THEN skipResourceUpdate ELSE FALSE
  /\ task' = Deleted(task)
  /\ UNCHANGED <<run, runEvt, ctl, disk, tmr, asg, pipeline, said, fired, crashes>>

UnfilteredStartMutant ==         \* no !hasResults(eventData) on the message
  /\ asg.pc \in {"none", "done"} /\ task.phase = "live"
  /\ asg' = [NoAsg EXCEPT !.pc = "asking"]
  /\ UNCHANGED <<run, task, runEvt, instance, rec, tmr, pipeline, said, fired, crashes>>

AlwaysApprovedMutant ==          \* the decision's value not stored
  /\ asg.pc = "store"
  /\ IF task.phase = "absent"
       THEN asg' = [asg EXCEPT !.pc = "done"] /\ UNCHANGED task
       ELSE /\ task' = [task EXCEPT !.results = "true"]
            /\ asg' = [asg EXCEPT !.pc = "label"]
  /\ UNCHANGED <<run, runEvt, instance, rec, tmr, pipeline, said, fired, crashes>>

UnpatchedTimeoutMutant ==        \* onTimeout without rr.patchStatus(instance)
  /\ tmr.pc = "read"
  /\ tmr' = NoTmr
  /\ UNCHANGED <<run, task, runEvt, instance, rec, asg, pipeline, said, fired, crashes>>

UndeletedTimeoutMutant ==        \* onTimeout without r.delete()
  /\ tmr.pc = "delete"
  /\ tmr' = [tmr EXCEPT !.pc = "read"]
  /\ UNCHANGED <<run, task, runEvt, instance, rec, asg, pipeline, said, fired, crashes>>

ForgottenDeleteMutant ==         \* onDelete without r.delete()
  /\ rec = "idle" /\ run.phase = "deleting"
  /\ run' = [run EXCEPT !.phase = "absent"]
  /\ runEvt' = FALSE
  /\ NoInstance
  /\ tmr' = IF tmr.pc = "armed" THEN NoTmr ELSE tmr
  /\ UNCHANGED <<task, rec, asg, pipeline, said, fired, crashes>>

ImpatientMutant ==               \* no "wait for completion" before the end
  /\ rec \in {"start", "propagate"}
  /\ rec' = "idle"
  /\ IF skipResourceUpdate \/ runEvt
       THEN UNCHANGED <<run, runEvt>>
       ELSE PatchStatus(resource.status)
  /\ ctl' = AtHand.ctl
  /\ disk' = IF Durable THEN AtHand ELSE NotSaved
  /\ UNCHANGED <<task, resource, skipResourceUpdate, tmr, asg, pipeline, said, fired, crashes>>

ForgottenResultsMutant ==        \* status.setResults(results) left out
  /\ asg.pc = "read"
  /\ asg' = IF run.phase = "absent"
              THEN [asg EXCEPT !.pc = "done"]
              ELSE [asg EXCEPT !.pc = "patch", !.status = run.status]
  /\ UNCHANGED <<run, task, runEvt, instance, rec, tmr, pipeline, said, fired, crashes>>

-----------------------------------------------------------------------------
(* RunController on the reconciler's thread.                               *)

(* No instance yet: start one, if the run is not completed.  An existing   *)
(* ApprovalTask is left alone, and then nothing will be propagated.        *)
CreateApprovalTask ==
  /\ rec = "idle" /\ runEvt /\ ctl = "none"
  /\ run.phase = "live" /\ ~isCompleted(run.status)
  /\ runEvt' = FALSE
  /\ rec' = "start"
  /\ ctl' = "waiting"
  /\ tmr' = [NoTmr EXCEPT !.pc = IF HasTimer THEN "armed" ELSE "off"]
  /\ IF task.phase = "absent"
       THEN /\ task' = [phase |-> "live", results |-> "none", label |-> "pending"]
            /\ resource' = [spec |-> run.spec, status |-> WithCond(run.status, "Unknown")]
            /\ skipResourceUpdate' = FALSE
       ELSE /\ resource' = [spec |-> run.spec, status |-> run.status]
            /\ skipResourceUpdate' = TRUE
            /\ UNCHANGED task
  /\ UNCHANGED <<run, disk, asg, pipeline, said, fired, crashes>>

(* An event of a completed run that no instance waits for is dropped.      *)
DropEvent ==
  /\ rec = "idle" /\ runEvt /\ ctl = "none"
  /\ run.phase = "live" /\ isCompleted(run.status)
  /\ runEvt' = FALSE
  /\ UNCHANGED <<run, task, instance, rec, tmr, asg, pipeline, said, fired, crashes>>

(* "on update": the event becomes the process variable "resource".  The    *)
(* message has no filter: a completed run is updated like any other.       *)
ReceiveUpdate ==
  /\ rec = "idle" /\ runEvt /\ ctl # "none" /\ run.phase = "live"
  /\ runEvt' = FALSE
  /\ rec' = "update"
  /\ resource' = [spec |-> run.spec, status |-> run.status]
  /\ UNCHANGED <<run, task, ctl, skipResourceUpdate, disk, tmr, asg, pipeline, said, fired,
                 crashes>>

(* onUpdate: a cancelled run is reported False and its task deleted; when  *)
(* there is no task any more the old skipResourceUpdate is returned.       *)
OnUpdate ==
  /\ rec = "update"
  /\ rec' = "propagate"
  /\ IF resource.spec = "RunCancelled"
       THEN /\ resource' = [resource EXCEPT !.status = WithCond(@, "False")]
            /\ skipResourceUpdate' = IF task.phase = "absent" THEN skipResourceUpdate ELSE FALSE
            /\ task' = Deleted(task)
       ELSE UNCHANGED <<resource, skipResourceUpdate, task>>
  /\ UNCHANGED <<run, runEvt, ctl, disk, tmr, asg, pipeline, said, fired, crashes>>

(* The conditional event "wait for completion" and "Mark as completed": as *)
(* soon as the resource of the event at hand has results, before or after  *)
(* onUpdate.  The patch is made from the process variable.                 *)
UpdateRunStatusCompleted ==
  /\ rec # "idle" /\ ctl = "waiting" /\ hasResults(resource.status)
  /\ ctl' = "marked"
  /\ skipResourceUpdate' = FALSE
  /\ resource' = [resource EXCEPT !.status = WithCond(@, "True")]
  /\ PatchStatus(WithCond(resource.status, "True"))
  /\ UNCHANGED <<disk, task, rec, tmr, asg, pipeline, said, fired, crashes>>

(* The end of the reconciliation: the instance is saved, and unless        *)
(* skipResourceUpdate is set the framework replaces the status on the      *)
(* server by the one of the process variable.  The API server refuses a    *)
(* replacement made from an old version; the event of the newer version is *)
(* then still to be handled.  A restart may come in between (Crash).       *)
Propagate ==
  /\ AtWaitState
  /\ rec' = "idle"
  /\ IF skipResourceUpdate \/ runEvt
       THEN UNCHANGED <<run, runEvt>>
       ELSE PatchStatus(resource.status)
  /\ ctl' = AtHand.ctl
  /\ disk' = IF Durable THEN AtHand ELSE NotSaved
  /\ UNCHANGED <<task, resource, skipResourceUpdate, tmr, asg, pipeline, said, fired, crashes>>

(* "on delete" interrupts the instance: onDelete deletes the task.  With   *)
(* no instance nothing listens, and the run just goes.                     *)
OnDelete ==
  /\ rec = "idle" /\ run.phase = "deleting"
  /\ run' = [run EXCEPT !.phase = "absent"]
  /\ runEvt' = FALSE
  /\ task' = IF ctl = "none" THEN task ELSE Deleted(task)
  /\ NoInstance
  /\ tmr' = IF tmr.pc = "armed" THEN NoTmr ELSE tmr
  /\ UNCHANGED <<rec, asg, pipeline, said, fired, crashes>>

-----------------------------------------------------------------------------
(* RunController on the timer's thread: onTimeout, one server call a step. *)

Expire ==
  /\ tmr.pc = "armed"
  /\ IF task.phase # "absent" /\ task.results = "none"
       THEN tmr' = [tmr EXCEPT !.pc = "delete"] /\ fired' = TRUE
       ELSE tmr' = NoTmr /\ UNCHANGED fired
  /\ UNCHANGED <<run, task, runEvt, instance, rec, asg, pipeline, said, crashes>>

TimeoutDelete ==
  /\ tmr.pc = "delete"
  /\ task' = Deleted(task)
  /\ tmr' = [tmr EXCEPT !.pc = "read"]
  /\ UNCHANGED <<run, runEvt, instance, rec, asg, pipeline, said, fired, crashes>>

TimeoutRead ==
  /\ tmr.pc = "read"
  /\ tmr' = IF run.phase = "absent" THEN NoTmr
            ELSE [pc |-> "patch", status |-> WithCond(run.status, "False")]
  /\ UNCHANGED <<run, task, runEvt, instance, rec, asg, pipeline, said, fired, crashes>>

(* The job's end, which saves what it changed.                             *)
TimeoutPatch ==
  /\ tmr.pc = "patch"
  /\ tmr' = NoTmr
  /\ IF run.phase = "absent"
       THEN UNCHANGED <<run, runEvt, resource, disk>>
       ELSE /\ PatchStatus(tmr.status)
            /\ resource' = IF ctl = "none" THEN resource
                           ELSE [resource EXCEPT !.status = tmr.status]
            /\ disk' = IF disk.ctl = "none" THEN disk
                       ELSE [disk EXCEPT !.resource.status = tmr.status]
  /\ UNCHANGED <<task, ctl, skipResourceUpdate, rec, asg, pipeline, said, fired, crashes>>

-----------------------------------------------------------------------------
(* Basic Approval Task.                                                    *)

(* An ApprovalTask without results and without an instance gets one, and   *)
(* the approvers are asked.                                                *)
InitializeApprovalTask ==
  /\ asg.pc = "none" /\ task.phase = "live" /\ task.results = "none"
  /\ asg' = [NoAsg EXCEPT !.pc = "asking"]
  /\ UNCHANGED <<run, task, runEvt, instance, rec, tmr, pipeline, said, fired, crashes>>

(* The approval strategy ends with a decision.                             *)
Decide(d) ==
  /\ asg.pc = "asking"
  /\ asg' = [asg EXCEPT !.pc = "store", !.decision = d]
  /\ said' = said \cup {d}
  /\ UNCHANGED <<run, task, runEvt, instance, rec, tmr, pipeline, fired, crashes>>

(* updateApprovalTaskStatusCompleted: the status first, the label with a   *)
(* second call.  Either fails when the task is gone, which ends the        *)
(* instance before it comes to the run.                                    *)
UpdateApprovalTaskStatusCompleted ==
  /\ asg.pc = "store"
  /\ IF task.phase = "absent"
       THEN asg' = [asg EXCEPT !.pc = "done"] /\ UNCHANGED task
       ELSE /\ task' = [task EXCEPT !.results = asg.decision]
            /\ asg' = [asg EXCEPT !.pc = "label"]
  /\ UNCHANGED <<run, runEvt, instance, rec, tmr, pipeline, said, fired, crashes>>

LabelDecision ==
  /\ asg.pc = "label"
  /\ IF task.phase = "absent"
       THEN asg' = [asg EXCEPT !.pc = "done"] /\ UNCHANGED task
       ELSE /\ task' = [task EXCEPT !.label =
                          IF asg.decision = "true" THEN "approved" ELSE "rejected"]
            /\ asg' = [asg EXCEPT !.pc = "read"]
  /\ UNCHANGED <<run, runEvt, instance, rec, tmr, pipeline, said, fired, crashes>>

(* updateRunResultsCompleted: read the run, set its results, patch it.     *)
ReadRun ==
  /\ asg.pc = "read"
  /\ asg' = IF run.phase = "absent"
              THEN [asg EXCEPT !.pc = "done"]
              ELSE [asg EXCEPT !.pc = "patch",
                      !.status = WithResults(run.status, asg.decision)]
  /\ UNCHANGED <<run, task, runEvt, instance, rec, tmr, pipeline, said, fired, crashes>>

UpdateRunResultsCompleted ==
  /\ asg.pc = "patch"
  /\ asg' = [asg EXCEPT !.pc = "done"]
  /\ IF run.phase = "absent" THEN UNCHANGED <<run, runEvt>> ELSE PatchStatus(asg.status)
  /\ UNCHANGED <<task, instance, rec, tmr, pipeline, said, fired, crashes>>

(* "On delete" interrupts an instance that waits for the approvers; one    *)
(* whose decision is being stored runs on.                                 *)
DeleteApprovalTask ==
  /\ task.phase = "deleting"
  /\ task' = NoTask
  /\ asg' = IF asg.pc \in {"asking", "done"} THEN NoAsg ELSE asg
  /\ UNCHANGED <<run, runEvt, instance, rec, tmr, pipeline, said, fired, crashes>>

-----------------------------------------------------------------------------
(* The pipeline run, its owner, and the container.                         *)

NoWhenMutant(status) ==          \* a mutant of Outcome: no when expression
  IF status.cond = "True" THEN "proceeded" ELSE "failed"

(* Tekton takes the first final condition it sees.  The tasks behind the   *)
(* approval run when its result "decision" is "true".                      *)
Outcome(status) ==
  CASE status.cond = "True" /\ status.results = "true"  -> "proceeded"
    [] status.cond = "True" /\ status.results = "false" -> "skipped"
    [] OTHER                                            -> "failed"

Observe ==
  /\ pipeline = "waiting" /\ run.phase = "live" /\ isCompleted(run.status)
  /\ pipeline' = Outcome(run.status)
  /\ UNCHANGED <<run, task, runEvt, instance, rec, tmr, asg, said, fired, crashes>>

RequestCancel ==
  /\ MayCancel /\ pipeline = "waiting" /\ run.phase = "live" /\ run.spec = "none"
  /\ run' = [run EXCEPT !.spec = "RunCancelled"]
  /\ runEvt' = TRUE
  /\ UNCHANGED <<task, instance, rec, tmr, asg, pipeline, said, fired, crashes>>

RequestDelete ==
  /\ MayDelete /\ run.phase = "live"
  /\ run' = [run EXCEPT !.phase = "deleting"]
  /\ pipeline' = IF pipeline = "waiting" THEN "deleted" ELSE pipeline
  /\ UNCHANGED <<task, runEvt, instance, rec, tmr, asg, said, fired, crashes>>

(* A RunController instance is what it was when it was saved, and so is    *)
(* its timer job, as long as that is not done.                             *)
ComesBack(i) ==
  /\ ctl' = i.ctl
  /\ resource' = i.resource
  /\ skipResourceUpdate' = i.skipResourceUpdate
  /\ disk' = i
  /\ tmr' = IF tmr.pc = "off" \/ i.ctl = "none" THEN NoTmr
            ELSE [NoTmr EXCEPT !.pc = "armed"]

(* A restart.  Instances under /tmp are lost; those on a volume come back  *)
(* as the last request saved them, at a wait state: that may be the one at *)
(* hand, when the container stops after it was saved and before the status *)
(* is replaced.  Every object is listed anew.                              *)
Crash ==
  /\ crashes < MaxCrashes
  /\ crashes' = crashes + 1
  /\ rec' = "idle"
  /\ runEvt' = (run.phase # "absent")
  /\ IF Durable
       THEN /\ ComesBack(disk) \/ (AtWaitState /\ ComesBack(AtHand))
            /\ asg' = IF asg.pc \in {"store", "label", "read", "patch"}
                        THEN [NoAsg EXCEPT !.pc = "asking"] ELSE asg
       ELSE /\ NoInstance
            /\ tmr' = NoTmr
            /\ asg' = NoAsg
  /\ UNCHANGED <<run, task, pipeline, said, fired>>

-----------------------------------------------------------------------------

Reconciler ==
  \/ CreateApprovalTask \/ DropEvent \/ ReceiveUpdate \/ OnUpdate
  \/ UpdateRunStatusCompleted \/ Propagate \/ OnDelete

Timer == Expire \/ TimeoutDelete \/ TimeoutRead \/ TimeoutPatch

Assignment ==
  \/ InitializeApprovalTask
  \/ UpdateApprovalTaskStatusCompleted \/ LabelDecision
  \/ ReadRun \/ UpdateRunResultsCompleted
  \/ DeleteApprovalTask

Approver == \E d \in Decisions : Decide(d)

Owner == Observe \/ RequestCancel \/ RequestDelete

Next == Reconciler \/ Timer \/ Assignment \/ Approver \/ Owner \/ Crash

(* The operator's threads, the timer job and Tekton's controller keep      *)
(* running; nobody has to answer, cancel, delete or crash.                 *)
Fairness ==
  /\ WF_vars(Reconciler)
  /\ WF_vars(Timer)
  /\ WF_vars(Assignment)
  /\ WF_vars(Observe)

SafetySpec == Init /\ [][Next]_vars

Spec == SafetySpec /\ Fairness

(* With approvers who do answer when they keep being asked.                *)
AnsweredSpec == Spec /\ WF_vars(Approver)
-----------------------------------------------------------------------------
(* Properties.                                                             *)

(* Whatever the threads overwrite, a pipeline is never shown a completed   *)
(* approval without the results its "when" expressions read: in            *)
(* updateRunResultsCompleted, onTimeout and updateRunStatusCompleted a     *)
(* patched copy with condition True carries the results too.               *)
TrueHasResults == run.status.cond = "True" => hasResults(run.status)

(* The operator keeps the promise of ApprovalGate: the pipeline proceeds   *)
(* only on an approval, is skipped only on a rejection, and fails only     *)
(* when the timeout expired or a cancel was requested.                     *)
Gate == INSTANCE ApprovalGate
          WITH outcome <- pipeline, stopped <- (fired \/ run.spec = "RunCancelled")
GateSpec == Gate!Spec

(* While the operator does not restart, approvers are asked once: an       *)
(* instance that ended is not started again on the same ApprovalTask, and  *)
(* no second ApprovalTask is made for the run.                             *)
AskedOnce ==
  crashes = 0 => \A d \in said : /\ said = {d}
                                 /\ task.results \in {d, "none"}
                                 /\ run.status.results \in {d, "none"}

(* Unless the timeout expired or a cancel was requested, a completed run   *)
(* stays as it was reported, to the results: no stale copy brings back an  *)
(* older status, even when the operator restarts and handles the run again.*)
CompletedIsFinal ==
  [][~fired /\ run.spec # "RunCancelled" /\ isCompleted(run.status)
       => run'.status = run.status]_run

(* A timeout or a cancel may take a decision away from the run, but a run  *)
(* that the pipeline saw completed agrees with the ApprovalTask that the   *)
(* approvers see, as long as that is there.                                *)
OutcomeMatchesTask ==
  /\ pipeline = "proceeded" /\ task.phase # "absent" => task.results = "true"
  /\ pipeline = "skipped" /\ task.phase # "absent" => task.results = "false"

(* The pipeline learns an outcome: because the approvers answer, or        *)
(* because the timeout makes one.                                          *)
EventuallyOutcome == <>(pipeline # "waiting")

(* Deleting the run takes its ApprovalTask along.                          *)
DeletedIsCleanedUp == (run.phase = "absent") ~> (task.phase = "absent")

(* A run that ended, by a timeout or a cancel too, does not leave the      *)
(* approvers with a request that nobody waits for: their task is decided,  *)
(* or deleted and its instance interrupted.                                *)
EndedIsNotAsked == isCompleted(run.status) ~> asg.pc # "asking"

(* The same for a run that was completed, the case the README's clean-up   *)
(* advice is about.                                                        *)
CompletedIsCleanedUp ==
  (run.phase = "absent" /\ isCompleted(run.status)) ~> (task.phase = "absent")

(* What keeps the operator or Tekton going, whatever people do: an event   *)
(* or a deletion to handle, a timer job, a decision to store, approvers to *)
(* ask, a completed run to observe.                                        *)
Busy ==
  \/ rec # "idle" \/ run.phase = "deleting"
  \/ runEvt /\ run.phase = "live"
  \/ tmr.pc # "off"
  \/ asg.pc \in {"store", "label", "read", "patch"}
  \/ asg.pc = "none" /\ task.phase = "live" /\ task.results = "none"
  \/ task.phase = "deleting"
  \/ pipeline = "waiting" /\ run.phase = "live" /\ isCompleted(run.status)

(* A restart may have lost what would complete the run: the timer job that *)
(* had deleted the task; the instance that had deleted it for a cancel, or *)
(* on a volume, when an earlier restart had made it take the task for      *)
(* somebody else's, what that instance knew of the deletion; and without a *)
(* volume, the instance that had stored a decision.                        *)
Stalled ==
  /\ crashes > 0
  /\ \/ fired
     \/ run.spec = "RunCancelled" /\ (~Durable \/ crashes > 1)
     \/ ~Durable /\ task.results # "none"

(* When everything has come to rest, it is for a reason: a pipeline waits  *)
(* only for approvers who are being asked, and nobody is asked for a run   *)
(* that ended, or has an ApprovalTask left of one that is gone.  On a      *)
(* volume no restart makes a pipeline wait for nobody, unless the timeout  *)
(* had expired or the run is cancelled, and then it takes two restarts.    *)
RestIsDone ==
  ~Busy =>
    /\ pipeline = "waiting" => asg.pc = "asking" \/ Stalled
    /\ isCompleted(run.status) /\ asg.pc = "asking" => crashes > 0
    /\ run.phase = "absent" /\ task.phase # "absent" => crashes > 0

(* onTimeout: "only delete it when there where no decision taken".         *)
TimeoutSparesDecision ==
  [][TimeoutDelete => task.results = "none"]_vars

=============================================================================
