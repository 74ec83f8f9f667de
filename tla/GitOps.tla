------------------------------ MODULE GitOps ------------------------------
(***************************************************************************)
(* How a build gets to a cluster: the pipelines' task update-gitops clones *)
(* a branch of the gitops repository, writes the new tag into the app's    *)
(* kustomization, commits and pushes; Argo CD applies what the branch      *)
(* says.  Every pipeline of every project does this on the same repository *)
(* and nothing orders them: the server refuses a push that is not on top   *)
(* of the branch, and the pipelines do not try again.                      *)
(* update-gitops itself does not wait for Argo CD, nor ask it to sync.     *)
(*                                                                         *)
(* One PipelineRun writes one branch (dev, test), or main and then dr.     *)
(***************************************************************************)
EXTENDS Naturals, Sequences

CONSTANTS
  Runs,       \* PipelineRuns that deploy
  Apps, Tags, \* apps, and the image tags (build ids) deployed
  Stage,      \* for each run its build-stage: "dev", "test" or "prd"
  App, Tag,   \* for each run its project-name and its build-id (and strategy)
  Tag0        \* the tag in every manifest before these runs

ASSUME GitOpsAssumption ==
  /\ Stage \in [Runs -> {"dev", "test", "prd"}]
  /\ App \in [Runs -> Apps]
  /\ Tag \in [Runs -> Tags]
  /\ Tag0 \in Tags

Branches == {"dev", "test", "main", "dr"}

VARIABLES
  log,        \* each branch on the server: its manifests, one per commit
  pc,         \* where a run is
  done,       \* how many branches hold a commit of the run
  base, tree, \* the clone in a task's workspace: its parent commit, its files
  live        \* what Argo CD applied to each branch's cluster

vars == <<log, pc, done, base, tree, live>>

Manifest == [Apps -> Tags]
Tip(b)   == log[b][Len(log[b])]

DrFirstMutant ==              \* a mutant of Plan: the two tasks of prd swapped
  [r \in Runs |-> IF Stage[r] = "prd" THEN <<"dr", "main">> ELSE <<Stage[r]>>]

(* gitops-revision of the run's tasks, in the order of runAfter.           *)
Plan == [r \in Runs |-> IF Stage[r] = "prd" THEN <<"main", "dr">> ELSE <<Stage[r]>>]

Branch(r) == Plan[r][done[r] + 1]

TypeOK ==
  /\ log \in [Branches -> Seq(Manifest)]
  /\ \A b \in Branches : Len(log[b]) > 0
  /\ pc \in [Runs -> {"idle", "checkout", "yaml", "push",
                     "succeeded", "rejected", "failed"}]
  /\ done \in [Runs -> 0..2]
  /\ base \in [Runs -> Nat]
  /\ tree \in [Runs -> Manifest]
  /\ live \in [Branches -> Manifest]

Manifest0 == [a \in Apps |-> Tag0]

Init ==
  /\ log = [b \in Branches |-> <<Manifest0>>]
  /\ pc = [r \in Runs |-> "idle"]
  /\ done = [r \in Runs |-> 0]
  /\ base = [r \in Runs |-> 0]
  /\ tree = [r \in Runs |-> Manifest0]
  /\ live = [b \in Branches |-> Manifest0]

-----------------------------------------------------------------------------
(* An event listener creates the PipelineRun, which gets to its (first)    *)
(* update-gitops: built, or approved, as its pipeline says.                *)
Trigger(r) ==
  /\ pc[r] = "idle"
  /\ pc' = [pc EXCEPT ![r] = "checkout"]
  /\ UNCHANGED <<log, done, base, tree, live>>

(* git-checkout: an empty workspace, and a clone of the branch.            *)
GitCheckout(r) ==
  /\ pc[r] = "checkout"
  /\ base' = [base EXCEPT ![r] = Len(log[Branch(r)])]
  /\ tree' = [tree EXCEPT ![r] = Tip(Branch(r))]
  /\ pc' = [pc EXCEPT ![r] = "yaml"]
  /\ UNCHANGED <<log, done, live>>

NoTagMutant(r) ==             \* a mutant of UpdateYaml: a parameter that is not there
  /\ pc[r] = "yaml"
  /\ tree' = [tree EXCEPT ![r][App[r]] = ""]
  /\ pc' = [pc EXCEPT ![r] = "push"]
  /\ UNCHANGED <<log, done, base, live>>

(* update-yaml: newTag and the strategy's base, in the kustomization under *)
(* gitops-path.                                                            *)
UpdateYaml(r) ==
  /\ pc[r] = "yaml"
  /\ tree' = [tree EXCEPT ![r][App[r]] = Tag[r]]
  /\ pc' = [pc EXCEPT ![r] = "push"]
  /\ UNCHANGED <<log, done, base, live>>

(* The commit reaches the server.                                          *)
Publish(r) ==
  /\ log' = [log EXCEPT ![Branch(r)] = Append(@, tree[r])]
  /\ done' = [done EXCEPT ![r] = @ + 1]

AfterPush(r) == IF done[r] + 1 = Len(Plan[r]) THEN "succeeded" ELSE "checkout"

ForcePushMutant(r) ==         \* a mutant of CommitPush: git push -f
  /\ pc[r] = "push"
  /\ Publish(r)
  /\ pc' = [pc EXCEPT ![r] = AfterPush(r)]
  /\ UNCHANGED <<base, tree, live>>

IgnoredPushMutant(r) ==       \* a mutant of CommitPush: git push ... || true
  /\ pc[r] = "push"
  /\ IF base[r] = Len(log[Branch(r)]) THEN Publish(r) ELSE UNCHANGED <<log, done>>
  /\ pc' = [pc EXCEPT ![r] = IF done'[r] = Len(Plan[r]) \/ done'[r] = done[r]
                               THEN "succeeded" ELSE "checkout"]
  /\ UNCHANGED <<base, tree, live>>

NoEmptyCommitMutant(r) ==     \* a mutant of CommitPush: without --allow-empty
  /\ pc[r] = "push"
  /\ IF base[r] = Len(log[Branch(r)]) /\ tree[r] # Tip(Branch(r))
       THEN /\ Publish(r)
            /\ pc' = [pc EXCEPT ![r] = AfterPush(r)]
       ELSE /\ pc' = [pc EXCEPT ![r] = "rejected"]
            /\ UNCHANGED <<log, done>>
  /\ UNCHANGED <<base, tree, live>>

(* commit-push-changes-gitops: a commit, changed or not, and its push.  A  *)
(* branch that has moved on refuses it; the task fails, and the run.       *)
CommitPush(r) ==
  /\ pc[r] = "push"
  /\ IF base[r] = Len(log[Branch(r)])
       THEN /\ Publish(r)
            /\ pc' = [pc EXCEPT ![r] = AfterPush(r)]
       ELSE /\ pc' = [pc EXCEPT ![r] = "rejected"]
            /\ UNCHANGED <<log, done>>
  /\ UNCHANGED <<base, tree, live>>

(* The push reached the server, but its answer or the pod did not return.  *)
PushUnconfirmed(r) ==
  /\ pc[r] = "push" /\ base[r] = Len(log[Branch(r)])
  /\ Publish(r)
  /\ pc' = [pc EXCEPT ![r] = "failed"]
  /\ UNCHANGED <<base, tree, live>>

(* A step or its pod fails; no task of these pipelines has retries.        *)
TaskFails(r) ==
  /\ pc[r] \in {"checkout", "yaml", "push"}
  /\ pc' = [pc EXCEPT ![r] = "failed"]
  /\ UNCHANGED <<log, done, base, tree, live>>

(* The branches whose Applications have an automated syncPolicy: the       *)
(* Applications of dr have none.                                           *)
Automated == {"dev", "test", "main"}

PrdFromDrMutant(b, a) ==      \* a mutant of Sync: targetRevision dr in the prd app
  /\ live' = [live EXCEPT ![b][a] = IF b = "main" THEN Tip("dr")[a] ELSE Tip(b)[a]]
  /\ live' # live
  /\ UNCHANGED <<log, pc, done, base, tree>>

(* Argo CD applies the branch an app follows to the branch's cluster: by   *)
(* itself where the sync is automated, and on dr when somebody asks for it.*)
Sync(b, a) ==
  /\ live[b][a] # Tip(b)[a]
  /\ live' = [live EXCEPT ![b][a] = Tip(b)[a]]
  /\ UNCHANGED <<log, pc, done, base, tree>>

Step(r) == GitCheckout(r) \/ UpdateYaml(r) \/ CommitPush(r)

Next ==
  \/ \E r \in Runs : Trigger(r) \/ Step(r) \/ PushUnconfirmed(r) \/ TaskFails(r)
  \/ \E b \in Branches, a \in Apps : Sync(b, a)

(* The steps of a task that runs are executed, and Argo CD keeps polling   *)
(* for the apps it synchronises by itself.  Nobody has to synchronise dr.  *)
Fairness ==
  /\ \A r \in Runs : WF_vars(Step(r))
  /\ \A b \in Automated, a \in Apps : WF_vars(Sync(b, a))

Spec == Init /\ [][Next]_vars /\ Fairness
-----------------------------------------------------------------------------
(* Properties.                                                             *)

(* Clone, edit and push, as a whole, are one atomic write of one app's     *)
(* tag, in the order of the plan: no run undoes another one's commit, or   *)
(* carries anything from the state it read into the state it writes.       *)
Board == INSTANCE Deployments
           WITH board <- [b \in Branches |-> Tip(b)]
BoardSpec == Board!Spec

(* The dr branch only ever ran what main had run before.                   *)
DrFollowsMain ==
  \A i \in DOMAIN log["dr"], a \in Apps :
    \E j \in DOMAIN log["main"] : log["main"][j][a] = log["dr"][i][a]

(* A run that succeeded has a commit with its tag on all its branches.     *)
SuccessIsPublished ==
  \A r \in Runs : pc[r] = "succeeded" =>
    \A k \in DOMAIN Plan[r] :
      \E i \in DOMAIN log[Plan[r][k]] : log[Plan[r][k]][i][App[r]] = Tag[r]

(* A push is refused only because another run was faster, never for the    *)
(* commit itself: of several concurrent runs one gets through.             *)
RejectedByAnother ==
  \A r \in Runs : pc[r] = "rejected" =>
    \E s \in Runs \ {r} : \E k \in 1..done[s] : Plan[s][k] = Branch(r)

(* In the end each cluster of dev, test and prd runs what its branch says. *)
(* dr is left out: it stays as it is until somebody synchronises it.       *)
ClustersFollow ==
  \A b \in Automated, a \in Apps : <>[](live[b][a] = Tip(b)[a])
=============================================================================
