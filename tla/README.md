# A TLA+ model of h-devops

h-devops is the delivery platform of a group of Java services: Helm charts and
infrastructure code for a Kubernetes cluster, Tekton pipelines that build and
deploy the services, and a Tekton custom task that makes a pipeline wait for
people to approve.  Most of the repository is configuration of third-party
products.  The logic that is its own, and that can go wrong between two calls,
is in three places, and this project models them:

* `charts/tekton-hro/automatiko-approval-task-0.9.0`: the approval task
  operator, Java functions called from BPMN processes;
* `pipeline/`: triggers, pipelines, tasks and Argo CD applications, for services
  on the cluster and for frontends on virtual machines;
* `charts/velero-hro/sample`: the shell script that rotates backups.

All paths below are relative to `src/`.

## 1. Inventory

### 1.1 Approval task operator

| part | state | operations |
|---|---|---|
| RunController (`RunController.bpmn2`, `ApprovalTaskResourceOperations` 30-205, 383-427) | one process instance per CustomRun: `resource`, `skipResourceUpdate`, a timer job | createApprovalTask, onUpdate, onDelete, onTimeout, updateRunStatusCompleted |
| Basic Approval Task (`Basic Approval Task.bpmn2`) | one process instance per ApprovalTask | ask, updateApprovalTaskStatusCompleted, updateRunResultsCompleted, delete |
| strategies (`Single Approval`, `Multi Approval`, `Multi Approval Groups`, `Four Eyes Approval`, `ApprovalFunctions`) | user tasks, answers, the label `responses` | complete a user task, calculateOutcome, isAlreadyRejected, updateApprovalTaskResponses |
| status listener (`UpdateApprovalTaskStatusEventListener`), forms, authentication | - | show the user tasks, authenticate |

RunController and Basic Approval Task share nothing but two objects on the API
server, the CustomRun and the ApprovalTask, which they read and write with
separate calls from three threads (reconciler, timer, the approver's request).
A status patch replaces the whole status by the caller's copy.  Process
instances are files: under `/tmp` by default (`application.properties` 9-13),
on a volume with `kubernetes-basic-pv.yml`.

Hard: a decision, a timeout, a cancel, a deletion and a restart of the
container can each fall between any two calls of the others.  Correct means: the
pipeline proceeds only on an approval, is skipped only on a rejection, fails
only when stopped, learns an outcome at all, and leaves nothing behind; an
approval is unanimous, its names are those who gave it, four eyes are two
people.

### 1.2 Delivery pipelines

| part | state | operations |
|---|---|---|
| event listeners (`el-*.yml`) | - | a push to dev, a merge to test or main, an approved issue, a chat message each create a PipelineRun |
| pipelines (`pl-*.yml`) | a PipelineRun: its tasks, their results | dev: build, scan, deploy; test: build, scan, approval, deploy; prd: build and an issue, and deploy on its own |
| source workspace (`t-git-clone`, `t-jib-maven`, `t-clean-workspace`) | a directory per git revision on the project's volume | clone, build, remove |
| `t-update-gitops` | a clone in an empty volume; the gitops repository, shared by all projects | clone a branch, set newTag, commit, push |
| Argo CD applications (`hro-argo-apps-*.yaml`) | what runs in a cluster | follow one branch each |
| notification tasks, `tools/tkn-prunner.yml` | - | chat, log; delete old runs |

Pipelines of other projects are copies with other parameters.  Hard: runs of all
projects push to the same branches at any time, tasks of a run fail in
parallel, runs of one revision share a directory.  Correct means: a
deployment changes its own app's tag and nothing else, dr runs only what main
ran, a green run is deployed, in test only what was approved is deployed.

### 1.3 Frontends on virtual machines

| part | state | operations |
|---|---|---|
| prd build (`pl-*-podman-build.yml`, `t-build-id`, `t-buildah`, `t-redmine-issue`) | the registry, an issue | generate an id, push an image, write an issue that names it |
| triggers (`el-*-podman.yml`) | - | an approved issue, a chat message: the build id is a word of their text |
| prd deployment (`pl-*-podman-deploy.yml`, `t-vm-deploy`) | a container on each of two machines | remove it, run the new image, one machine after the other |

Hard: the service is removed before its successor is pulled; runs are not kept
apart, remote commands outlive their tasks, webhooks come twice or not at all.
Correct means: what is served was built and asked for, a green deployment
repairs what an earlier one left, one machine at a time is out of service.

### 1.4 Backup rotation

`velero-hro/sample/backup-namespaces.sh`, a weekly job: counts a namespace's
backups, reads how many to keep from a label, requests the deletion of the
oldest and the creation of one more.  Hard: no failing call stops the script,
deletions are carried out later, jobs may overlap.  Correct means: the newest
backups survive, enough of them, and in the end as many as the label says.

### 1.5 The rest

`check-table.sh` (HBase) and `rolling_upgrade.sh`
(Elasticsearch) are third-party polling scripts.  Helm charts, Ansible, Packer,
Docker files, installation notes, secrets and volume claims are declarative.
`automatiko-approval-task-0.7.0` is an older copy of 0.9.0.  `PROJECT.json`
lists every component with its status and, under `hazards`, what is hard to
test, at its line, with the properties that would catch it.

## 2. Plan

| step | modules | state |
|---|---|---|
| 1 | `ApprovalGate` (abstract), `ApprovalOperator`, `MCApproval`, `ApprovalProofs`, `RestProofs` | done |
| 2 | `Unanimity` (abstract), `ApprovalStrategies`, `MCStrategies`, `StrategiesProofs` | done |
| 3 | `Deployments` (abstract), `GitOps`, `MCGitOps`, `GitOpsProofs` | done |
| 4 | `PipelineRuns`, `MCPipelines`, `PipelineProofs` | done |
| 5 | `VmDeploy`, `FrontendDelivery` (composes it with build, issue and triggers), `MCFrontend`, `FrontendProofs` | done |
| 6 | `BackupRotation`, `MCBackup`, `BackupProofs` | done |
| 7 | `Approvals` (composes `ApprovalOperator` and `ApprovalStrategies`), `MCApprovals`, `ApprovalsProofs` | done |
| 8 | composition of `PipelineRuns` with `GitOps` and `ApprovalGate` | not done |

Step 8: its parts already take about a minute each, and their product is beyond
what can be checked exhaustively.  The path from a build over an approval to what
runs is shown end to end in `FrontendDelivery`; for the services on the
cluster it is split at `UpdateGitops` and at `Answer`, each of which stands for
a component with a module and a refinement of its own.

## 3. Modules

### 3.1 ApprovalOperator, an implementation of ApprovalGate

One CustomRun from creation to deletion.  `run` and `task` are the two objects on
the server (phase, `spec.status`, condition and results; results and label).
`ctl`, `resource` and `skipResourceUpdate` are the RunController instance with
its process variables, `disk` what was last saved of it, `tmr` its timer job, `asg` the Basic Approval Task
instance; `rec` is where the reconciler is in an event.  `tmr.status` and
`asg.status` are the copies of the run that these threads hold between reading
and patching it: every server call that another thread can come between is an
action of its own, and everything the code does up to the next call is in it.

| actions | code |
|---|---|
| CreateApprovalTask, DropEvent, ReceiveUpdate, OnUpdate, UpdateRunStatusCompleted, Propagate, OnDelete | RunController on the reconciler's thread |
| Expire, TimeoutDelete, TimeoutRead, TimeoutPatch | onTimeout |
| InitializeApprovalTask, Decide, UpdateApprovalTaskStatusCompleted, LabelDecision, ReadRun, UpdateRunResultsCompleted, DeleteApprovalTask | Basic Approval Task |
| Observe | Tekton sees the run's condition and goes on with the pipeline |
| RequestCancel, RequestDelete (`Owner`) | the pipeline run is cancelled, or deleted, also by `tools/tkn-prunner.yml` |
| Crash | restart of the container; `Durable` says whether instances are on a volume: then RunController is what it was when last saved |

An instance is saved at the end of a request (`Propagate`, `TimeoutPatch`), and the
status on the server is replaced after that: a restart loses what the request
at hand has changed, or only the replacement (`AtHand`).  The calls that it has
made on the server stay made.

`ApprovalGate` is what the pipeline is promised, without objects and threads;
`GateSpec` says that the operator implements it.

`Busy` names what keeps the operator or Tekton going, whatever people do;
`RestIsDone` says that when nothing does, there is a reason: a pipeline that waits
has approvers who are being asked, unless the run is `Stalled`.  `Stalled` is what
a restart can lose: the timer's job after it deleted the task; without a volume
also the instance that had deleted the task for a cancel (finding it still
there, with its finalizer, the new instance creates none and waits), or the one
that had stored a decision (finding 2).  On a volume the cancel takes two restarts:
after the first the instance, of which nothing was saved, finds the ApprovalTask it
made itself and saves that there is nothing to propagate; the second comes after a
cancel deleted the task and before that request is saved, and brings this back.

### 3.2 ApprovalStrategies, an implementation of Unanimity

What `Decide` above takes in one step.  A seat is a user task of the strategy:
one (single), one for each approver or group (multi), two in turn (four eyes).
`Route` is the gateway that picks the strategy.  Completing a user task is a
request (`req`): the label on the server changes in its middle, the instance is
saved at its end (`Save`), and a crash in between loses it.  `answers` and `by`
are the collected results; without a volume a restart empties them (but not
the label), as long as the ApprovalTask has no results.

`Unanimity` is a vote that the first "no" rejects and that every seat has to
approve; `VoteSpec` says that all strategies implement it.

### 3.3 Approvals, an implementation of ApprovalOperator

The approval task as a whole: `ApprovalOperator` and `ApprovalStrategies` side by
side, where the operator's one step `Decide` is made of the strategy's requests.

| action | code |
|---|---|
| Ask | Basic Approval Task starts and calls the strategy's process |
| AnswerAsked, CountResponse, SaveAnswer | a form is completed, the label written, the instance saved |
| ReturnDecision | the request that ends the strategy: it returns the decision to Basic Approval Task, which goes on to store it |
| DeleteTask | the ApprovalTask goes, with its label and whoever is asked; a request at hand comes first |
| Restart | the strategy comes back as last saved (`saved`), or not at all; a decision whose storing was part of the lost request is asked for again |
| Beside(A) | a step A of the operator in which the strategy has no part |

`OperatorSpec` is the refinement: the composition implements `AnsweredSpec`, the
operator's specification with the assumption that whoever is asked answers.  So
that assumption of 3.1 is not taken on trust: it follows from every user
completing his own task (strong fairness per seat).

`WaitsForSomebody` is `RestIsDone` down to the people: at rest, some user task is
open that somebody may complete, if the task is `Staffed` at all.  A four-eyes group
of one member is not: nobody may take its second step (a hazard).

### 3.4 GitOps, an implementation of Deployments

`log[b]` is a branch on the git server, one manifest (a tag for each app) per
commit; `base` and `tree` are the clone in a task's workspace; `done` counts
the branches a run has pushed to; `live` is what Argo CD applied.  GitCheckout,
UpdateYaml and CommitPush are the three steps of `t-update-gitops.yml`; a run of
the prd pipeline goes through them twice, for main and for dr.  Sync is Argo CD's:
by itself for dev, test and main (`Automated`), by hand for dr, whose Applications
have no sync policy.  A push whose
parent is not the branch's head is refused and the run is over (no task has
retries).  PushUnconfirmed is a push that arrives although the task fails,
TaskFails any other failure.  A run's tag stands for tag and rollout strategy,
which one `sed` each writes into the same file.

`Deployments` has one step, which writes one app's tag on one branch; `BoardSpec`
says that clone, edit and push together are that step, whatever other runs do
meanwhile.

### 3.5 PipelineRuns

The PipelineRuns of one project.  `task[r]` are the tasks of a run, `Tasks` and
`RunAfter` its pipeline (dev, test, or the prd build), `When` the condition of
`update-gitops` in test.  `Ready`, `Over` and `Failed` are Tekton's scheduling: a
task starts when those it runs after have succeeded and none has failed;
`finally` starts when nothing runs and nothing more will be started.  `dir` is
the project's volume, one directory per revision; `read` is whether a build has
found all sources there so far: CleanDir of another clone and CleanWorkspace of
another run take files away from a build under way.  `image`, `decision`,
`deployed` are what a run has pushed, been told and deployed.

| actions | code |
|---|---|
| Trigger | `el-*.yml`: a PipelineRun is created |
| CleanDir, GitInit | `t-git-clone`: cleandir, git-init |
| StartBuild, BuildAndPush | `t-jib-maven` |
| Succeed | generate-id, the scans, the issue: one step, nothing is left behind |
| Start, Skip, Answer | approval-task, the when expression |
| UpdateGitops | `t-update-gitops` (in detail: GitOps) |
| Fail, BrokenOff | a task fails, perhaps after its push |
| Finally, CleanWorkspace | `finally` |
| Abandon | cancelled, out of time, deleted by the pruner, clean-workspace failed |

### 3.6 VmDeploy and FrontendDelivery

VmDeploy: `task[r][m]` is where run r is on machine m, `container` and `up` what is
there.  A remote call returns the status of its last command, which is
what `Returns` gives the task.

| actions | code |
|---|---|
| Trigger | the PipelineRun is created with a build id |
| Prepare | `podman rm -f` and login |
| RunContainer, RunContainerFails | `podman run -d`, which does nothing if the name is taken, or fails, and then `podman image prune` |
| BreakOff | connection, pod or run lost; the command of either call may go on alone (`orphan`; after the first the machine's task is "removing") |
| Reboot | a machine restarts; the container has no restart policy |

FrontendDelivery adds what leads there: GenerateId, BuildImage, CreateIssue,
EndBuild of the build run (`stage`, `id`, `registry`), and Approve, Comment and
Message, each an event of issue tracker or chat that may trigger a deployment
(`issue`, `cause`).  Deploy is VmDeploy's step, restricted to images that the
registry has.

`last`, `disturbed`, `rebooted` and `taken` are history; `taken` says of a machine
which run took its container away and has put none in its place, unless a `podman run`
failed there, or the machine restarted.  GreenRepairs leaves out runs that were
not alone, whose podman run failed unseen, or during which a machine restarted.
ServiceStays leaves out no run, but machines: those that restarted, and those where a
podman run failed unseen.  With a missing image that is both machines, one after the
other, and the run is green: in these cases the code does not do what the properties
say, and no document says that it should (hazards).  Runs before and after
such a run are not left out: a green deployment has to repair what it left.

### 3.7 BackupRotation

One namespace; the script treats them one after the other.  A backup is a
number, its place in time (names end in a date).  `names` is what `velero backup
get` lists, `requested` the deletions Velero has been asked for, `num_backup`,
`num_delete`, `todo` the script's variables of a job.

| actions | code |
|---|---|
| Count, ReadLabel, List | the three calls that read, each of which may fail: then 0, 0, or no lines |
| Delete, DeleteAll | the loop over `velero delete backup` |
| Create | `velero backup create` |
| Killed | the job's pod is lost |
| Remove | Velero carries out a deletion |

`stuck`, `misread`, `fault` and `moved` are history.  EnoughKept leaves out two
cases, both hazards: the label could not be read (0 are kept), and a
deletion was completed between a job's count and its list (one more is deleted
than was counted).

## 4. Runs

| run | expects | shows | states |
|---|---|---|---|
| approval_races | pass | timeout, cancel, deletion, two restarts without a volume and decision, interleaved call by call: `GateSpec`, `TrueHasResults`, `AskedOnce`; a completed run is changed only by the timeout or a cancel (`CompletedIsFinal`); the operator rests only when its work is done (`RestIsDone`) | 438,374 |
| approval_live | pass | with a timeout and no restart: an outcome is always learnt, nobody stays asked, a deleted run leaves no ApprovalTask, the outcome agrees with the task | 33,562 |
| approval_timeout_race | violation | finding 1 | - |
| approval_restart | violation | finding 2 | - |
| approval_orphan | violation | finding 3 | - |
| vote_multi | pass | three groups that share members, two restarts: unanimous, ends, honest names, no answer missing in the label | 16,415 |
| vote_four_eyes_approvers | violation | finding 4 | - |
| approvals_four_eyes | pass | operator and four eyes together, on a volume, with two restarts and a cancel: `OperatorSpec`, and the pipeline goes on, and only on the word of two people, and while it waits, somebody can answer (`WaitsForSomebody`) | 263,098 |
| gitops_pushes | pass | three prd runs race on main and dr, two of one app, one of them with the tag that is already there: one tag a push, dr behind main, green is published, the clusters with automated sync follow | 89,898 |
| pipeline_runs | pass | two runs on one volume: dev and test or test twice of one revision, or test beside a prd build; tasks fail and runs are cancelled at any point: only what was built and approved is deployed, only a shared directory harms a build, nothing is left on the volume, every run ends | 103,117 |
| frontend_delivery | pass | two builds, whose ids may collide, two deployments, two machines; calls fail or are broken off, machines restart, webhooks repeat: what is served was built and wanted, a green deployment repairs, deployments take one machine at a time out of service (podman runs that fail unseen and restarts aside) | 791,667 |
| backup_rotation | pass | three jobs, overlapping, every call may fail, deletions pending: the newest survive, enough stay, quiet jobs settle at the label | 3,771,340 |

No run checks the type invariants of BackupRotation, FrontendDelivery and Approvals:
they are proved (`RotationTypes`, `DeliveryTypesKept`, `SystemTypes`).

### Bounds, and why they are enough

* One CustomRun: runs share no state in the operator (an instance is keyed by
  the object's name), so more of them add no behaviour.
* `MaxCrashes` 2, without a volume in `approval_races` and with one in
  `approvals_four_eyes`: one restart falls between any two calls; two make the
  operator take up what a restart left and lose it again.  `approval_restart` and
  `approval_orphan` need one.  In `approval_live`
  it is 0, because a timer with a restart does not give liveness: the second
  run of the job finds the task deleted and returns (a hazard; no document
  promises otherwise).  The proofs need no bound.
* Three approvers, three entries (multi), overlapping: a majority is not
  unanimity, and one person may hold two seats.  In the composition one entry
  and two people for four eyes: both must answer, and nobody else could.
  It has no timer, and its run is not deleted: what these do to the operator is in
  approval_races and approval_live, and the composition's theorems cover it.
* Three runs and two apps: two that touch the same app and one that does not.
  dev and test runs write one branch and are a part of what a prd run does;
  the theorems cover them.
* Two runs, two revisions: what a run can do to another is through a directory,
  which one other run shows; `MCEvents` has the same directory shared by two
  kinds of run, by two of one kind, and not shared.
* Two builds, two deployments, two machines, two images: one deployment after or
  beside a disturbed one, the right and a wrong image, two equal ids.
* Three jobs, up to three backups before them, two to keep (`MaxBackups`, `Keep`):
  more than, as many as, and fewer than the label says, and a third job that
  comes to what two overlapping ones have left.
* There are no other state constraints.  MCFrontend and MCBackup use symmetry, of
  runs, builds, images and of jobs: no definition tells the elements of these
  sets apart, and the two runs check invariants only.
* `CHECK_DEADLOCK FALSE` everywhere: an approval, a vote, a set of deliveries and
  of jobs come to an end, and then nothing is left to do.

### Fairness

* ApprovalOperator: weak fairness of the reconciler, the timer, the instance's
  own steps and Tekton's observation: threads of one container and a
  controller that keep running, which wait for nothing once enabled.  Nobody has
  to cancel, delete, crash or answer.  `AnsweredSpec` adds that an approver who
  is asked answers; approval_restart uses it, and Approvals implements it.
* ApprovalStrategies, Approvals: the engine ends a request it began; who is asked
  answers.  Strong fairness per seat, because requests to one instance are
  handled one at a time and disable each other for a moment.
* GitOps: weak fairness of a run's steps and of Argo CD's sync per app, for the
  branches whose Applications are synchronised automatically (`automated: {}` in
  those of dev, test and prd; a polling controller).  Nobody has to synchronise dr:
  `ClustersFollow` says nothing of it.  Runs need not be triggered, and a task may
  fail at any point.
* PipelineRuns: weak fairness of a run's progress and of its approver (a run
  that nobody answers ends by the default timeout, which is Abandon).  Runs need
  not be triggered, tasks need not fail.
* FrontendDelivery and BackupRotation state none: a remote command or a
  backup server may hang, and nothing there waits for it.  Their properties
  are safety.

### Findings

1. `onTimeout` says it deletes the ApprovalTask "only ... when there where no
   decision taken" (`ApprovalTaskResourceOperations.java:142`), but checks and
   deletes in two calls: a decision stored in between is deleted with it.
2. A restart without a volume, after the decision is on the ApprovalTask and
   before it is on the CustomRun, leaves the pipeline waiting for ever: the
   filter `!hasResults` keeps the task from being taken up.  The README (line
   459) says of the default persistence that "it can easily recover all running
   instances".
3. A restart without a volume after completion leaves no instance to delete the
   ApprovalTask with its run; the README (653) says all resources "will be
   automatically cleaned".
4. Four eyes assigns its user tasks to groups only: with approvers and no groups
   they are assigned to nobody, and anybody may complete them; the README (113)
   says "that task should be assigned to" the approvers.

## 5. Proofs

TLAPS checks the theorems for every value of the constants.  Every safety property
of a passing run is one of them.  None assumes fairness: those about the operator
are of `SafetySpec`, those about the composition of `SystemSpec`.

**ApprovalProofs** (any setting of the switches, any number of restarts).
`TypeOK` is inductive, and is proved in three parts, values, flags and the saved
instance.
`TrueHasResults` is not inductive: a status is written from copies that were
taken long before.  `AllSourced` says of all of them at once (server, process
variable, timer's copy, request's copy; `SavedSourced` of the saved one) that results come from an approver, True
has results, and False was caused by a timeout or a cancel; since every write
is a copy with one field changed, this is inductive (`StatusesAreSourced`), and
`TrueHasResults` and `GateRefinement` follow.  `AskedOnceHolds` needs
`OneQuestion` besides: as long as the container has not restarted, an instance
that ended left its results on the task or on the run, so that neither filter
starts another.
`OutcomeIsOnTask`: while nothing restarts, the decision is on the ApprovalTask
before any copy of it is on its way to the run (`TaskFirst`).  `CompletedStays`:
without timeout and cancel (`Calm`) the ApprovalTask stays as long as the run,
nobody stores a second decision, and whoever writes a completed run holds its very
status (`Kept`).

**RestProofs** (as ApprovalProofs, which it extends).  `RestHasReason`: `RestIsDone`
holds; with `RestIsRest`, that no step of reconciler, timer, instance or Tekton is
possible unless `Busy`.  The two are the safety half of
`EventuallyOutcome` and `DeletedIsCleanedUp`: nothing is forgotten; that the work
ends is for TLC.  The invariant has three parts.  `Mirror`: the process variable
is as good as the run itself, unless an event is still to come, and a run that is
not completed has an instance or an event that makes one.  `Sound`: unless
`Stalled`, whatever was done has somebody who still owes the next step of it: a
decision on the task whoever carries it to the run, a deleted task whoever
ends its run.  `Fresh`: before the first restart nobody is asked for a run that
ended and no task outlives its run.  Once `Stalled` a live run stays so, which is
why `Sound` may be given up there and is not needed again.  What a restart brings
back is a matter of what was saved: `OnDisk` compares it with the instance,
`SavedUnanswered` with who still owes a step, and `Reports` says that until the first
restart the instance made its task itself and reports what becomes of it, in memory
and on the volume.  `VolumeSuffices`: on a volume and without a timer, a pipeline at rest
waits only for approvers, unless its run is cancelled and there were two restarts.

**StrategiesProofs** (any strategy, any number of entries and people, any number
of restarts).  `Bookkeeping` ties the open seats to the answers and the
request at hand to an open seat, `Outcome` the results to the answers.  From
them `NamesAreHonest`, `FourEyesNeedsTwo`, `SingleAsksOnce`, and the refinement
`VoteRefinement`.  `EveryAnswerCounted` counts seats: the label is at least the
number of answers an instance remembers, and one more when a request has counted an
answer that is not saved yet (`Counted`); a restart takes back answers, never the
label.  `LabelIsExact`: on a volume it is ahead of them by at most one per restart, the answer
of the interrupted request; without a restart it is exact.  `NamedDecide`: whoever
answered was assigned the seat he answered for (`Placed`), so the ApprovalTask names
him, if it has groups, or has approvers and is not four eyes.  Four eyes with
approvers is finding 4; a task with neither is open to everybody.

**ApprovalsProofs** (any strategy, any number of people and restarts, with or
without volume, timer, cancel and deletion).  Approvals EXTENDS ApprovalOperator,
so that the lemmas of ApprovalProofs hold of its variables as they stand;
`SystemInv` says that operator, strategy and the saved instance fit together:
who is asked is asked by both (`Asking`), what was saved are answers that people
gave (`SavedOK`), a decision on its way through the operator's copies was
earned in the strategy (`Earned`), and so was what the pipeline learnt
(`Learnt`).  `SystemImplementsOperator` is the safety half of `OperatorSpec`; through it
all that is proved of the operator holds of the composition (`OperatorPromises`).
`PipelineWaitsForSomebody` joins `RestHasReason` with what is known of open seats
(`StillOpen`, `OpenSeats`): as long as the vote is undecided a seat is open, and of
a four-eyes group of two or more there is one member who has not taken the
first step, which a restart may have taken back.  `OnVolumeSomebodyDecides`: on a
volume and without a timer the only exception is a cancelled run after two restarts.

**GitOpsProofs** (any number of runs, apps and tags).  The argument: a clone is
a commit of its branch, with one tag changed after update-yaml (`Clones`),
commits are only appended, and a push goes through only when the clone's parent
is still the head; hence what is pushed is the head with one tag changed
(`Pushed`), which is the one step of `Deployments` (`BoardRefinement`).  What a
run pushed stays in the history (`Written`), so a run that comes to dr finds its
tag in main (`DrBehindMain`), and a branch that moved has an author other than
the run it refuses, since a run writes each branch of its plan once (`Authors`,
`RefusedByAnother`).  What a cluster runs is of a commit of its branch, which a run of
the right kind wrote (`Sources`): an app runs a tag that some delivery of that very
app brought, or the one it began with (`ClustersRunOwnTags`), and dr only tags
that main has had (`DrRunsMain`).

**PipelineProofs** (any number of runs and revisions, any events).  A task that
was started comes after those it runs after (`Ordered`), hence by then its run
has read and pushed (`Built`), been told (`Decided`) and deployed (`Pushed`) what
it had to.  `Private` says that a run alone in its directory has whole sources
there; it needs `Finished` (what is cleaned up is over), because it is the run's
own clean-up that must not hit its own build.  From `Inv` follow `OnlyApproved`,
`OnlyBuilt`, `OnlySharedIsPartial`, `GreenIsDeployed` and `NothingIsLeft`.
`RunIsNeverStuck`: a run that is not over always has a step that Tekton, a task or
its approver can take, because the first task in `RunAfter`'s order that is not done
is ready, running or skipped.  `RunsGoForward`: every step takes a task or a run further
and none back, so a run's steps are bounded.  The two are all of `RunsEnd` but the
fairness.
`ApprovedIsWhatIsDeployed`: an image is pushed once per run, a decision stays, and a run
that ended keeps its end and what it deployed, whatever other runs do; so what is
deployed is what the approver was asked about.

**FrontendProofs** (any number of builds, runs, images and machines).  A run that
goes machine by machine (`OneByOne`); one that is alone leaves each machine it is
done with serving its image (`Alone`); who took a container away and has not
replaced it is at that machine, or failed there (`Taken`), and that is at most one
machine a run.  `DInv` relates text to
registry: an issue exists only after its build's push (`Written`), what a run
deploys was named by its cause (`Caused`), what a machine holds was wanted, and if it
runs, built (`Held`).

**BackupProofs** (any number of jobs, of backups and to keep).  What is gone,
together with what a job has still to delete, is a beginning of the list
(`Ordered`), whoever else deletes meanwhile.  What a job counted and computed still
fits the list as long as none goes from it (`Fits`), so that all jobs' deletions
together leave enough (`Enough`): they are beginnings of one list, and the longest
of them is one job's own.  From these follow `NewestSurvive` and `EnoughKept`.
`RotationSettles` needs the number and not a bound on it: as long as jobs do not
overlap and no call fails (`OneJob`), what a job lists is all there is
(`UpToDate`), so what it leaves and creates is as many as the label says, or as there
were (`Counts`).  Together (`Steady`) this is inductive for as long as things stay
`Quiet`.

The assumptions are those next to the constants (`ConstantsAssumption`,
`StrategyAssumption`, `EntriesAssumption`, `GitOpsAssumption`, `VmAssumption`,
`DeliveryAssumption`, `RotationAssumption`; PipelineProofs uses none): types, at
least one approver or group for MULTI, at least one group for a group approval, and
`Nobody` and `None` are not members of the sets they are added to.

**Only model-checked**: liveness (`EventuallyOutcome`, `EndedIsNotAsked`,
`DeletedIsCleanedUp`, `EventuallyDecided`, `ClustersFollow`, `RunsEnd`,
`PipelineGoesOn`, and the fairness half of `OperatorSpec`), because fairness and
ENABLED are out of the prover's reach.  For the operator, the composition and the
pipelines the half of it that is safety is proved, as said above: there is always
somebody who has the next step.

## 6. What is taken from code outside the repository

* fabric8 `patchStatus` sends the difference to the server's object: the
  caller's whole status wins.  The framework's own status update after a
  reconciliation is guarded by the resource version; on a conflict the event
  of the newer version is still to come.
* A finalizer keeps a deleted object until the operator's clean-up.  Events of
  one object coalesce.
* A conditional event is evaluated when its variable is set and when it is
  activated; requests to one process instance are handled one at a time; an
  exclusive gateway takes the first flow whose condition holds; a
  multi-instance sub-process adds its result before the completion condition.
* A user task without an assignment is open to everybody, an excluded user is
  refused before that is looked at.
* An instance is saved as a whole at the end of a request, when it has come to a
  wait state, and before the framework's own status update.  A restart brings it
  back from a volume as it was last saved; without a volume there is none.
* Tekton takes the first final condition of a custom run; after a failed task it
  starts none, lets the running ones end and then runs `finally`; a task has no
  retries unless it says so; a cancelled or timed-out run does not run `finally`.
* A git server refuses a push that does not continue the branch.  Only
  pipelines push to the gitops repository.
* Argo CD compares for as long as it runs, and applies an Application whose sync
  policy is automated; others are applied when somebody asks for it.
* The ssh plugin returns the status of the last remote command (no
  `script.stop`).  `podman rm` removes a container or does not; `podman run -d`
  without a restart policy does not survive a restart of the machine, and
  refuses a name that is taken.
* Velero lists backups by name, which is by date; it deletes later than asked; a
  name that is taken (two jobs in one second) makes the creation fail.  Backups
  that expire by themselves are left out.
* `tkn` decides which PipelineRuns it deletes: any, at any time.

## 7. What is not modelled

* The composition of step 8 above: in GitOps, a run that gets to its deployment is
  an event, and in PipelineRuns `UpdateGitops` is one step.
* The triggers' filters, but for the issue status of the frontends; the build
  ids of the services (taken as unique).
* notify-pipeline-start, which runs beside all tasks and fails a run as a failing
  scan does: as one more task it makes the run several times as large and shows
  nothing else.
* The strategy "single" has no run of its own: the theorems `SingleAsksOnce`,
  `VoteRefinement` and `SystemImplementsOperator` cover it.
* The four-eyes label `responses` counts both steps as one, at the end; it is
  modelled, but only people read it and no property is about it.
* MULTI with neither approvers nor groups: it asks nobody and approves (a hazard,
  `ApprovalFunctions.java:203`); `StrategyAssumption` leaves it out, because what
  the engine does there is outside the repository.  The other strategies are open to
  everybody then, and are modelled.
* A timer's job that runs again after a restart and finds nothing to do (a hazard):
  ApprovalOperator has it, and the liveness properties leave it out.
* Two deliveries of one app in the wrong order: GitOps has them, and no
  document promises an order, so no property asks for one.
* The deployment of frontends by rsync, a copy without state of its own; the
  other event listeners and pipelines, which are copies with other parameters.
* `automatiko-approval-task-0.7.0`, an older copy of what is modelled.
* Chat, issue tracker, scanners, log files, forms, authentication, and the
  declarative rest.
* The repository's JavaScript files (jQuery, jQuery UI, serializejson, Bootstrap, in
  two copies) are vendored libraries of the approval forms; no line of them is
  modelled.  What is modelled is Java, BPMN, YAML and shell.

## 8. Running the checks

    tlc -workers 2 -config MCGitOps_pushes.cfg MCGitOps
    tlapm GitOpsProofs.tla

Definitions whose names end in `Mutant` are used by no action.  Each is what a
slip in the definition below it would make of it, and breaks the property that
`PROJECT.json` names with it.
