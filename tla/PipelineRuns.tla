---------------------------- MODULE PipelineRuns ----------------------------
(***************************************************************************)
(* The PipelineRuns of one project: of the dev branch, of the test branch, *)
(* which wait for an approval, and those that build for production.        *)
(* Tekton schedules the tasks of a run along runAfter; when one fails,     *)
(* nothing more is started, what runs may end, and then finally removes    *)
(* the sources.                                                            *)
(*                                                                         *)
(* All runs check out on one volume, each in a directory named after its   *)
(* revision: runs of one revision share it.                                *)
(*                                                                         *)
(* The approval gives what module ApprovalGate promises; update-gitops is  *)
(* module GitOps and here just succeeds or not.  Each run has a build id   *)
(* of its own, so image and deployed are kept by run.  Tasks that leave    *)
(* nothing in this state behind are one step each; notify-pipeline-start,  *)
(* which waits for nothing and can fail the run as any of them, is left    *)
(* out.                                                                    *)
(***************************************************************************)
CONSTANTS
  Runs,          \* PipelineRuns
  Revisions,     \* git revisions of the project
  Events         \* the webhook calls a run may come from, [stage, rev]

Stages == {"dev", "test", "prd"}

ASSUME EventsAssumption == Events \in [Runs -> SUBSET [stage : Stages, rev : Revisions]]

VARIABLES
  event,         \* what triggers a run
  phase,         \* of a run
  task,          \* the state of each of its tasks
  dir,           \* what the volume has in the directory of a revision
  read,          \* what a run's build has found there so far
  image,         \* what is in the image that a run has pushed
  decision,      \* what the approver of a run has said
  deployed       \* a run's build id has been pushed to the gitops repository

vars == <<event, phase, task, dir, read, image, decision, deployed>>

Contents  == {"none", "partial", "sources"}
Ended     == {"succeeded", "failed", "abandoned"}
Silent    == {"generate-id", "source-scan", "image-scan", "create-redmine-issue"}
TaskNames == Silent \cup {"clone-sources", "build-image", "approval-task", "update-gitops"}

Stage(r) == event[r].stage

(* The tasks of the run's pipeline.                                        *)
Tasks(r) ==
  {"generate-id", "clone-sources", "build-image", "image-scan"} \cup
  CASE Stage(r) = "dev"  -> {"source-scan", "update-gitops"}
    [] Stage(r) = "test" -> {"approval-task", "update-gitops"}
    [] Stage(r) = "prd"  -> {"create-redmine-issue"}

AfterCloneMutant(r, t) ==     \* a mutant of RunAfter: approved beside the build
  CASE t = "generate-id"                        -> {}
    [] t = "clone-sources"                      -> {"generate-id"}
    [] t = "update-gitops" /\ Stage(r) = "test" -> {"approval-task"}
    [] t \in {"image-scan", "update-gitops", "create-redmine-issue"} -> {"build-image"}
    [] OTHER                                    -> {"clone-sources"}

RunAfter(r, t) ==
  CASE t = "generate-id"                        -> {}
    [] t = "clone-sources"                      -> {"generate-id"}
    [] t \in {"source-scan", "build-image"}     -> {"clone-sources"}
    [] t = "update-gitops" /\ Stage(r) = "test" -> {"approval-task"}
    [] OTHER                                    -> {"build-image"}

NoWhenMutant(r, t) == TRUE    \* a mutant of When: no when expression

OtherWordMutant(r, t) ==      \* a mutant of When: values that no decision has
  t = "update-gitops" /\ Stage(r) = "test" => decision[r] = "approved"

(* The when expression of update-gitops in the test pipeline.              *)
When(r, t) == t = "update-gitops" /\ Stage(r) = "test" => decision[r] = "true"

TypeOK ==
  /\ event \in [Runs -> [stage : Stages, rev : Revisions]]
  /\ phase \in [Runs -> {"idle", "tasks", "finally"} \cup Ended]
  /\ task \in [Runs -> [TaskNames -> {"pending", "running", "ok", "failed", "skipped"}]]
  /\ dir \in [Revisions -> Contents]
  /\ read \in [Runs -> Contents]
  /\ image \in [Runs -> Contents]
  /\ decision \in [Runs -> {"none", "true", "false"}]
  /\ deployed \in [Runs -> BOOLEAN]

Init ==
  /\ event \in {e \in [Runs -> [stage : Stages, rev : Revisions]] :
                 \A r \in Runs : e[r] \in Events[r]}
  /\ phase = [r \in Runs |-> "idle"]
  /\ task = [r \in Runs |-> [t \in TaskNames |-> "pending"]]
  /\ dir = [v \in Revisions |-> "none"]
  /\ read = [r \in Runs |-> "none"]
  /\ image = [r \in Runs |-> "none"]
  /\ decision = [r \in Runs |-> "none"]
  /\ deployed = [r \in Runs |-> FALSE]

-----------------------------------------------------------------------------
(* Scheduling, and the volume.                                             *)

Failed(r) == \E t \in Tasks(r) : task[r][t] = "failed"

Ready(r, t) ==
  /\ phase[r] = "tasks" /\ t \in Tasks(r)
  /\ ~Failed(r) /\ task[r][t] = "pending"
  /\ \A u \in RunAfter(r, t) : task[r][u] = "ok"

Running(r, t) == phase[r] = "tasks" /\ task[r][t] = "running"

Becomes(r, t, s) == task' = [task EXCEPT ![r][t] = s]

AllEndedMutant(r) ==          \* a mutant of Over: tasks behind a failed one waited for
  \A t \in Tasks(r) : task[r][t] \notin {"pending", "running"}

(* Nothing runs, and nothing more will be started.                         *)
Over(r) ==
  /\ \A t \in Tasks(r) : task[r][t] # "running"
  /\ Failed(r) \/ \A t \in Tasks(r) : task[r][t] \in {"ok", "skipped"}

OneDirMutant(r) ==            \* a mutant of Dir: one directory per project
  CHOOSE v \in Revisions : TRUE

(* clone-to-directory.                                                     *)
Dir(r) == event[r].rev

(* Files are removed from d: a build under way there misses them.          *)
Remove(d, rest) ==
  /\ dir' = [dir EXCEPT ![d] = rest]
  /\ read' = [r \in Runs |-> IF task[r]["build-image"] = "running" /\ Dir(r) = d
                               THEN "partial" ELSE read[r]]

-----------------------------------------------------------------------------
(* A push to dev or a merge creates the run.                               *)
Trigger(r) ==
  /\ phase[r] = "idle"
  /\ phase' = [phase EXCEPT ![r] = "tasks"]
  /\ UNCHANGED <<event, task, dir, read, image, decision, deployed>>

(* git-clone: cleandir, and then git-init.                                 *)
CleanDir(r) ==
  /\ Ready(r, "clone-sources")
  /\ Becomes(r, "clone-sources", "running")
  /\ Remove(Dir(r), IF dir[Dir(r)] = "none" THEN "none" ELSE "partial")
  /\ UNCHANGED <<event, phase, image, decision, deployed>>

GitInit(r) ==
  /\ Running(r, "clone-sources")
  /\ Becomes(r, "clone-sources", "ok")
  /\ dir' = [dir EXCEPT ![Dir(r)] = "sources"]
  /\ UNCHANGED <<event, phase, read, image, decision, deployed>>

(* jib-maven compiles, packages and pushes what it finds in the directory. *)
StartBuild(r) ==
  /\ Ready(r, "build-image")
  /\ Becomes(r, "build-image", "running")
  /\ read' = [read EXCEPT ![r] = IF dir[Dir(r)] = "sources" THEN "sources" ELSE "partial"]
  /\ UNCHANGED <<event, phase, dir, image, decision, deployed>>

BuildAndPush(r) ==
  /\ Running(r, "build-image")
  /\ Becomes(r, "build-image", "ok")
  /\ image' = [image EXCEPT ![r] = read[r]]
  /\ UNCHANGED <<event, phase, dir, read, decision, deployed>>

(* A task that leaves nothing behind succeeds.                             *)
Succeed(r, t) ==
  /\ t \in Silent /\ Ready(r, t)
  /\ Becomes(r, t, "ok")
  /\ UNCHANGED <<event, phase, dir, read, image, decision, deployed>>

(* The approval is asked for, and update-gitops is started or skipped.     *)
Start(r, t) ==
  /\ t \in {"approval-task", "update-gitops"} /\ Ready(r, t) /\ When(r, t)
  /\ Becomes(r, t, "running")
  /\ UNCHANGED <<event, phase, dir, read, image, decision, deployed>>

Skip(r, t) ==
  /\ Ready(r, t) /\ ~When(r, t)
  /\ Becomes(r, t, "skipped")
  /\ UNCHANGED <<event, phase, dir, read, image, decision, deployed>>

StatusAnswerMutant(r, d) ==   \* a mutant of Answer: the condition's status, not the result
  /\ Running(r, "approval-task")
  /\ Becomes(r, "approval-task", "ok")
  /\ decision' = [decision EXCEPT ![r] = "True"]
  /\ UNCHANGED <<event, phase, dir, read, image, deployed>>

(* The approver's decision is the result of approval-task.                 *)
Answer(r, d) ==
  /\ Running(r, "approval-task")
  /\ Becomes(r, "approval-task", "ok")
  /\ decision' = [decision EXCEPT ![r] = d]
  /\ UNCHANGED <<event, phase, dir, read, image, deployed>>

UpdateGitops(r) ==
  /\ Running(r, "update-gitops")
  /\ Becomes(r, "update-gitops", "ok")
  /\ deployed' = [deployed EXCEPT ![r] = TRUE]
  /\ UNCHANGED <<event, phase, dir, read, image, decision>>

(* Tasks ts are broken off: the push of the image, or of the commit, may   *)
(* have been done.                                                         *)
BrokenOff(r, ts) ==
  /\ image' \in {image} \cup {[image EXCEPT ![r] = read[r]] : t \in ts \cap {"build-image"}}
  /\ deployed' \in {deployed} \cup
                   {[deployed EXCEPT ![r] = TRUE] : t \in ts \cap {"update-gitops"}}

(* A task fails.  The approval does not: it is given no timeout.           *)
Fail(r, t) ==
  /\ t # "approval-task"
  /\ Running(r, t) \/ (t \in Silent /\ Ready(r, t))
  /\ Becomes(r, t, "failed")
  /\ BrokenOff(r, {t})
  /\ UNCHANGED <<event, phase, dir, read, decision>>

(* finally is reached, whatever has failed.                                *)
Finally(r) ==
  /\ phase[r] = "tasks" /\ Over(r)
  /\ phase' = [phase EXCEPT ![r] = "finally"]
  /\ UNCHANGED <<event, task, dir, read, image, decision, deployed>>

CleanOnSuccessMutant(r) ==    \* a mutant of CleanWorkspace: the last task, not in finally
  /\ phase[r] = "finally"
  /\ IF Failed(r) THEN UNCHANGED <<dir, read>> ELSE Remove(Dir(r), "none")
  /\ \E p \in {"succeeded", "failed"} :
       /\ p = "succeeded" => ~Failed(r)
       /\ phase' = [phase EXCEPT ![r] = p]
  /\ UNCHANGED <<event, task, image, decision, deployed>>

(* clean-workspace, and report-result beside it, whose failure fails the   *)
(* run.                                                                    *)
CleanWorkspace(r) ==
  /\ phase[r] = "finally"
  /\ Remove(Dir(r), "none")
  /\ \E p \in {"succeeded", "failed"} :
       /\ p = "succeeded" => ~Failed(r)
       /\ phase' = [phase EXCEPT ![r] = p]
  /\ UNCHANGED <<event, task, image, decision, deployed>>

(* The run is cancelled, its time is up or clean-workspace fails: what     *)
(* runs is broken off, and the sources stay.                               *)
Abandon(r) ==
  /\ phase[r] \in {"tasks", "finally"}
  /\ phase' = [phase EXCEPT ![r] = "abandoned"]
  /\ task' = [task EXCEPT ![r] =
                [t \in TaskNames |-> IF task[r][t] = "running" THEN "failed" ELSE task[r][t]]]
  /\ BrokenOff(r, {t \in TaskNames : task[r][t] = "running"})
  /\ UNCHANGED <<event, dir, read, decision>>

Progress(r) ==
  \/ CleanDir(r) \/ GitInit(r) \/ StartBuild(r) \/ BuildAndPush(r)
  \/ \E t \in TaskNames : Succeed(r, t) \/ Start(r, t) \/ Skip(r, t)
  \/ UpdateGitops(r) \/ Finally(r) \/ CleanWorkspace(r)

Decide(r) == \E d \in {"true", "false"} : Answer(r, d)

Next ==
  \E r \in Runs :
    \/ Trigger(r) \/ Progress(r) \/ Decide(r) \/ Abandon(r)
    \/ \E t \in TaskNames : Fail(r, t)

(* Tekton schedules, what it starts ends, and approvers answer; nobody has *)
(* to push, nothing has to fail or to be cancelled.                        *)
Fairness == \A r \in Runs : WF_vars(Progress(r) \/ Decide(r))

Spec == Init /\ [][Next]_vars /\ Fairness
-----------------------------------------------------------------------------
(* Properties.                                                             *)

(* On test only what its approver has approved is deployed, whatever fails *)
(* and whenever the run is cancelled (the when expression of               *)
(* update-gitops and its runAfter).                                        *)
DeployedIsApproved ==
  \A r \in Runs : Stage(r) = "test" /\ deployed[r] => decision[r] = "true"

(* An approver is asked about, and the gitops repository gets, a build id  *)
(* only when its image is in the registry (runAfter of approval-task and   *)
(* update-gitops).                                                         *)
DeployedIsBuilt ==
  \A r \in Runs : deployed[r] \/ task[r]["approval-task"] # "pending" => image[r] # "none"

(* Another run has used the directory of r.                                *)
Shared(r) == \E s \in Runs \ {r} : phase[s] # "idle" /\ event[s].rev = event[r].rev

(* Runs that overlap do not touch each other's sources unless they are of  *)
(* one revision (clone-to-directory): only then can an image lack files.   *)
WholeUnlessShared == \A r \in Runs : image[r] = "partial" => Shared(r)

(* A green run of dev or test has deployed, unless its approver said no;   *)
(* and then it has not.                                                    *)
SuccessIsDeployed ==
  \A r \in Runs : phase[r] = "succeeded" /\ Stage(r) # "prd" =>
    deployed[r] # (decision[r] = "false")

(* The volume does not fill up: what it holds belongs to a run in progress *)
(* or to one that was broken off before clean-workspace; a run with a      *)
(* failed task leaves nothing (finally).                                   *)
VolumeHasOwners ==
  \A v \in Revisions : dir[v] # "none" =>
    \E r \in Runs : event[r].rev = v /\ phase[r] \in {"tasks", "finally", "abandoned"}

(* Whichever tasks fail, and whatever the other runs do, a run comes to    *)
(* its end.                                                                *)
RunsEnd == \A r \in Runs : phase[r] = "tasks" ~> phase[r] \in Ended
=============================================================================
