--------------------------- MODULE PipelineProofs ---------------------------
(***************************************************************************)
(* Theorems about PipelineRuns, for any number of runs and revisions: the  *)
(* invariant Inv, and what follows from it.                                *)
(***************************************************************************)
EXTENDS PipelineRuns, Naturals, TLAPS

(* The types, values and flags apart.                                      *)
Values ==
  /\ event \in [Runs -> [stage : Stages, rev : Revisions]]
  /\ phase \in [Runs -> {"idle", "tasks", "finally"} \cup Ended]
  /\ task \in [Runs -> [TaskNames -> {"pending", "running", "ok", "failed", "skipped"}]]
  /\ dir \in [Revisions -> Contents]
  /\ read \in [Runs -> Contents]
  /\ image \in [Runs -> Contents]
  /\ decision \in [Runs -> {"none", "true", "false"}]

Flags == deployed \in [Runs -> BOOLEAN]

(* A task that was started comes after those it runs after.                *)
Ordered ==
  \A r \in Runs :
    /\ task[r]["build-image"] # "pending" => task[r]["clone-sources"] = "ok"
    /\ task[r]["approval-task"] # "pending" =>
         Stage(r) = "test" /\ task[r]["build-image"] = "ok"
    /\ task[r]["update-gitops"] # "pending" =>
         /\ task[r]["build-image"] = "ok"
         /\ Stage(r) = "test" => task[r]["approval-task"] = "ok"

(* What a build has read, and pushed.                                      *)
Built ==
  \A r \in Runs :
    /\ task[r]["build-image"] # "pending" => read[r] # "none"
    /\ task[r]["build-image"] = "ok" => image[r] # "none"

(* What the approver said, and what was made of it.                        *)
Decided ==
  \A r \in Runs :
    /\ decision[r] # "none" <=> task[r]["approval-task"] = "ok"
    /\ Stage(r) = "test" /\ task[r]["update-gitops"] \in {"running", "ok", "failed"} =>
         decision[r] = "true"
    /\ task[r]["update-gitops"] = "skipped" => decision[r] = "false"

Pushed ==
  \A r \in Runs :
    /\ deployed[r] => task[r]["update-gitops"] \in {"ok", "failed"}
    /\ task[r]["update-gitops"] = "ok" => deployed[r]

(* Only a shared directory can lack files that a build needs.              *)
Private ==
  \A r \in Runs : ~Shared(r) =>
    /\ phase[r] = "tasks" /\ task[r]["clone-sources"] = "ok" => dir[Dir(r)] = "sources"
    /\ read[r] # "partial" /\ image[r] # "partial"

(* A run that is being cleaned up is over.                                 *)
Finished ==
  \A r \in Runs :
    /\ phase[r] = "idle" => \A t \in TaskNames : task[r][t] = "pending"
    /\ phase[r] \in {"finally", "succeeded", "failed"} => Over(r)
    /\ phase[r] = "succeeded" => ~Failed(r)

Inv == /\ Values /\ Flags /\ Ordered /\ Built /\ Decided /\ Pushed
       /\ Private /\ Finished /\ VolumeHasOwners

-----------------------------------------------------------------------------
(* Steps, run by run.                                                      *)

LEMMA Names ==
  ASSUME NEW r \in Runs, Values
  PROVE  /\ Tasks(r) \subseteq TaskNames
         /\ Stage(r) \in Stages
         /\ {"clone-sources", "build-image"} \subseteq Tasks(r)
         /\ "approval-task" \in Tasks(r) => Stage(r) = "test"
         /\ "update-gitops" \in Tasks(r) <=> Stage(r) # "prd"
<1>1. Stage(r) \in Stages  BY DEF Values, Stage
<1> QED  BY <1>1, SMT DEF Tasks, TaskNames, Silent, Stages

LEMMA OneTask ==
  ASSUME NEW r \in Runs, NEW t \in TaskNames, NEW s, Values, Becomes(r, t, s)
  PROVE  \A q \in Runs, u \in TaskNames :
           task'[q][u] = IF q = r /\ u = t THEN s ELSE task[q][u]
BY DEF Becomes, Values

LEMMA Broken ==
  ASSUME NEW r \in Runs, NEW ts, Values, Flags, BrokenOff(r, ts)
  PROVE  /\ image' \in [Runs -> Contents]
         /\ deployed' \in [Runs -> BOOLEAN]
         /\ \A q \in Runs : image'[q] # image[q] =>
              q = r /\ "build-image" \in ts /\ image'[q] = read[q]
         /\ \A q \in Runs : deployed[q] => deployed'[q]
         /\ \A q \in Runs :
              deployed'[q] => deployed[q] \/ (q = r /\ "update-gitops" \in ts)
<1>1. \/ image' = image
      \/ "build-image" \in ts /\ image' = [image EXCEPT ![r] = read[r]]
  BY DEF BrokenOff
<1>2. \/ deployed' = deployed
      \/ "update-gitops" \in ts /\ deployed' = [deployed EXCEPT ![r] = TRUE]
  BY DEF BrokenOff
<1>3. image \in [Runs -> Contents] /\ read \in [Runs -> Contents]  BY DEF Values
<1>4. deployed \in [Runs -> BOOLEAN]  BY DEF Flags
<1>5. /\ image' \in [Runs -> Contents]
      /\ \A q \in Runs : image'[q] # image[q] =>
           q = r /\ "build-image" \in ts /\ image'[q] = read[q]
  BY <1>1, <1>3
<1>6. /\ deployed' \in [Runs -> BOOLEAN]
      /\ \A q \in Runs : deployed[q] => deployed'[q]
      /\ \A q \in Runs :
           deployed'[q] => deployed[q] \/ (q = r /\ "update-gitops" \in ts)
  <2>1. CASE deployed' = deployed  BY <2>1, <1>4
  <2>2. CASE "update-gitops" \in ts /\ deployed' = [deployed EXCEPT ![r] = TRUE]
    BY <2>2, <1>4
  <2> QED  BY <2>1, <2>2, <1>2
<1> QED  BY <1>5, <1>6

LEMMA AbandonTasks ==
  ASSUME NEW r \in Runs, Values, Abandon(r)
  PROVE  \A q \in Runs, u \in TaskNames :
           task'[q][u] = IF q = r /\ task[q][u] = "running" THEN "failed" ELSE task[q][u]
BY DEF Abandon, Values

LEMMA TypeStep ==
  ASSUME Values, Flags, [Next]_vars
  PROVE  Values' /\ Flags'
<1>1. CASE UNCHANGED vars  BY <1>1 DEF vars, Values, Flags
<1>2. ASSUME NEW r \in Runs, Trigger(r) PROVE Values' /\ Flags'
  BY <1>2 DEF Trigger, Values, Flags, Ended
<1>3. ASSUME NEW r \in Runs, CleanDir(r) PROVE Values' /\ Flags'
  BY <1>3 DEF CleanDir, Becomes, Remove, Values, Flags, Contents, Ended, TaskNames, Dir
<1>4. ASSUME NEW r \in Runs, GitInit(r) PROVE Values' /\ Flags'
  BY <1>4 DEF GitInit, Becomes, Values, Flags, Contents, TaskNames, Dir
<1>5. ASSUME NEW r \in Runs, StartBuild(r) PROVE Values' /\ Flags'
  BY <1>5 DEF StartBuild, Becomes, Values, Flags, Contents, TaskNames, Dir
<1>6. ASSUME NEW r \in Runs, BuildAndPush(r) PROVE Values' /\ Flags'
  BY <1>6 DEF BuildAndPush, Becomes, Values, Flags, Contents, TaskNames
<1>7. ASSUME NEW r \in Runs, NEW t \in TaskNames, Succeed(r, t) \/ Start(r, t) \/ Skip(r, t)
      PROVE Values' /\ Flags'
  <2>1. CASE Succeed(r, t)  BY <2>1 DEF Succeed, Becomes, Values, Flags
  <2>2. CASE Start(r, t)    BY <2>2 DEF Start, Becomes, Values, Flags
  <2>3. CASE Skip(r, t)     BY <2>3 DEF Skip, Becomes, Values, Flags
  <2> QED  BY <1>7, <2>1, <2>2, <2>3
<1>8. ASSUME NEW r \in Runs, UpdateGitops(r) PROVE Values' /\ Flags'
  BY <1>8 DEF UpdateGitops, Becomes, Values, Flags, TaskNames
<1>9. ASSUME NEW r \in Runs, Finally(r) PROVE Values' /\ Flags'
  BY <1>9 DEF Finally, Values, Flags, Ended
<1>10. ASSUME NEW r \in Runs, CleanWorkspace(r) PROVE Values' /\ Flags'
  BY <1>10 DEF CleanWorkspace, Remove, Values, Flags, Contents, Ended, Dir
<1>11. ASSUME NEW r \in Runs, NEW d \in {"true", "false"}, Answer(r, d) PROVE Values' /\ Flags'
  BY <1>11 DEF Answer, Becomes, Values, Flags, TaskNames
<1>12. ASSUME NEW r \in Runs, Abandon(r) PROVE Values' /\ Flags'
  <2>1. image' \in [Runs -> Contents] /\ deployed' \in [Runs -> BOOLEAN]
    BY <1>12, Broken DEF Abandon
  <2> QED  BY <1>12, <2>1 DEF Abandon, Values, Flags, Ended
<1>13. ASSUME NEW r \in Runs, NEW t \in TaskNames, Fail(r, t) PROVE Values' /\ Flags'
  <2>1. image' \in [Runs -> Contents] /\ deployed' \in [Runs -> BOOLEAN]
    BY <1>13, Broken DEF Fail
  <2> QED  BY <1>13, <2>1 DEF Fail, Becomes, Values, Flags
<1> QED
  BY <1>1, <1>2, <1>3, <1>4, <1>5, <1>6, <1>7, <1>8, <1>9, <1>10, <1>11, <1>12, <1>13
  DEF Next, Progress, Decide

-----------------------------------------------------------------------------
(* What a step does to the tasks.                                          *)

(* Task t of run r, which was ready or running, is s now.                  *)
Moves(r, t, s) ==
  /\ phase[r] = "tasks" /\ UNCHANGED <<phase, event>>
  /\ Becomes(r, t, s)
  /\ Ready(r, t) \/ (Running(r, t) /\ s # "running")

LEMMA Moving ==
  ASSUME Values, NEW r \in Runs, NEW t \in TaskNames,
         CleanDir(r) \/ GitInit(r) \/ StartBuild(r) \/ BuildAndPush(r) \/ UpdateGitops(r)
         \/ Succeed(r, t) \/ Start(r, t) \/ Skip(r, t) \/ Fail(r, t) \/ Decide(r)
  PROVE  \E u \in TaskNames, s \in {"running", "ok", "failed", "skipped"} :
           Moves(r, u, s)
<1>1. {"clone-sources", "build-image", "approval-task", "update-gitops"} \subseteq TaskNames
  BY DEF TaskNames
<1> USE DEF Moves
<1>2. CASE CleanDir(r)  BY <1>1, <1>2 DEF CleanDir, Ready
<1>3. CASE GitInit(r)  BY <1>1, <1>3 DEF GitInit, Running
<1>4. CASE StartBuild(r)  BY <1>1, <1>4 DEF StartBuild, Ready
<1>5. CASE BuildAndPush(r)  BY <1>1, <1>5 DEF BuildAndPush, Running
<1>6. CASE UpdateGitops(r)  BY <1>1, <1>6 DEF UpdateGitops, Running
<1>7. CASE Succeed(r, t)  BY <1>7 DEF Succeed, Ready
<1>8. CASE Start(r, t)  BY <1>8 DEF Start, Ready
<1>9. CASE Skip(r, t)  BY <1>9 DEF Skip, Ready
<1>10. CASE Fail(r, t)  BY <1>10 DEF Fail, Ready, Running
<1>11. CASE Decide(r)  BY <1>1, <1>11 DEF Decide, Answer, Running
<1> QED  BY <1>2, <1>3, <1>4, <1>5, <1>6, <1>7, <1>8, <1>9, <1>10, <1>11

LEMMA TaskStep ==
  ASSUME Values, [Next]_vars
  PROVE  /\ event' = event
         /\ \/ task' = task
            \/ \E r \in Runs : Abandon(r)
            \/ \E r \in Runs, u \in TaskNames, s \in {"running", "ok", "failed", "skipped"} :
                 Moves(r, u, s)
<1>1. CASE UNCHANGED vars  BY <1>1 DEF vars
<1>2. ASSUME NEW r \in Runs, Trigger(r) \/ Finally(r) \/ CleanWorkspace(r)
      PROVE event' = event /\ task' = task
  BY <1>2 DEF Trigger, Finally, CleanWorkspace
<1>3. ASSUME NEW r \in Runs, Abandon(r) PROVE event' = event
  BY <1>3 DEF Abandon
<1>4. ASSUME NEW r \in Runs, NEW t \in TaskNames,
             CleanDir(r) \/ GitInit(r) \/ StartBuild(r) \/ BuildAndPush(r) \/ UpdateGitops(r)
             \/ Succeed(r, t) \/ Start(r, t) \/ Skip(r, t) \/ Fail(r, t) \/ Decide(r)
      PROVE /\ event' = event
            /\ \E u \in TaskNames, s \in {"running", "ok", "failed", "skipped"} : Moves(r, u, s)
  BY <1>4, Moving DEF Moves
<1>5. "update-gitops" \in TaskNames  BY DEF TaskNames
<1> QED  BY <1>1, <1>2, <1>3, <1>4, <1>5 DEF Next, Progress

LEMMA After ==
  ASSUME NEW r \in Runs, Values
  PROVE  /\ RunAfter(r, "build-image") = {"clone-sources"}
         /\ RunAfter(r, "approval-task") = {"build-image"}
         /\ Stage(r) = "test" => RunAfter(r, "update-gitops") = {"approval-task"}
         /\ Stage(r) # "test" => RunAfter(r, "update-gitops") = {"build-image"}
BY DEF RunAfter

LEMMA OrderedStep ==
  ASSUME Values, Ordered, [Next]_vars
  PROVE  Ordered'
<1>0. /\ event' = event
      /\ \A r \in Runs : Stage(r)' = Stage(r)
      /\ {"clone-sources", "build-image", "approval-task", "update-gitops"} \subseteq TaskNames
  BY TaskStep DEF Stage, TaskNames
<1>1. CASE task' = task  BY <1>0, <1>1 DEF Ordered
<1>2. ASSUME NEW r \in Runs, Abandon(r) PROVE Ordered'
  BY <1>0, <1>2, AbandonTasks DEF Ordered
<1>3. ASSUME NEW r \in Runs, NEW u \in TaskNames,
             NEW s \in {"running", "ok", "failed", "skipped"}, Moves(r, u, s)
      PROVE Ordered'
  <2>1. \A q \in Runs, t \in TaskNames :
          task'[q][t] = IF q = r /\ t = u THEN s ELSE task[q][t]
    BY <1>3, OneTask DEF Moves
  <2>2. /\ task[r][u] \in {"pending", "running"}
        /\ task[r][u] = "pending" =>
             u \in Tasks(r) /\ \A t \in RunAfter(r, u) : task[r][t] = "ok"
    BY <1>3 DEF Moves, Ready, Running
  <2>3. task'[r]["build-image"] # "pending" => task'[r]["clone-sources"] = "ok"
    BY <1>0, <2>1, <2>2, After DEF Ordered
  <2>4. task'[r]["approval-task"] # "pending" =>
          Stage(r) = "test" /\ task'[r]["build-image"] = "ok"
    BY <1>0, <2>1, <2>2, After, Names DEF Ordered
  <2>5. task'[r]["update-gitops"] # "pending" =>
          /\ task'[r]["build-image"] = "ok"
          /\ Stage(r) = "test" => task'[r]["approval-task"] = "ok"
    BY <1>0, <2>1, <2>2, After DEF Ordered
  <2>6. \A q \in Runs \ {r}, t \in TaskNames : task'[q][t] = task[q][t]  BY <2>1
  <2> QED  BY <1>0, <2>3, <2>4, <2>5, <2>6 DEF Ordered
<1> QED  BY <1>1, <1>2, <1>3, TaskStep

-----------------------------------------------------------------------------
(* Builds.                                                                 *)

LEMMA Steps ==
  ASSUME [Next]_vars
  PROVE  \/ UNCHANGED vars
         \/ \E r \in Runs :
              \/ Trigger(r) \/ CleanDir(r) \/ GitInit(r) \/ StartBuild(r) \/ BuildAndPush(r)
              \/ UpdateGitops(r) \/ Finally(r) \/ CleanWorkspace(r) \/ Abandon(r)
              \/ \E d \in {"true", "false"} : Answer(r, d)
              \/ \E t \in TaskNames : Succeed(r, t) \/ Start(r, t) \/ Skip(r, t) \/ Fail(r, t)
BY DEF Next, Progress, Decide

(* What leaves the task build-image, what it reads and its image alone.    *)
LEMMA BuildApart ==
  ASSUME Values, NEW r \in Runs,
         \/ Trigger(r) \/ GitInit(r) \/ UpdateGitops(r) \/ Finally(r)
         \/ \E d \in {"true", "false"} : Answer(r, d)
         \/ \E t \in TaskNames : Succeed(r, t) \/ Start(r, t) \/ Skip(r, t)
  PROVE  /\ UNCHANGED <<read, image>>
         /\ \A q \in Runs : task'[q]["build-image"] = task[q]["build-image"]
<1>0. /\ "build-image" \in TaskNames /\ "build-image" \notin Silent
      /\ {"clone-sources", "approval-task", "update-gitops"} \subseteq TaskNames
  BY DEF TaskNames, Silent
<1>1. CASE Trigger(r) \/ Finally(r)  BY <1>1 DEF Trigger, Finally
<1>2. CASE GitInit(r)  BY <1>0, <1>2, OneTask DEF GitInit
<1>3. CASE UpdateGitops(r)  BY <1>0, <1>3, OneTask DEF UpdateGitops
<1>4. ASSUME NEW d \in {"true", "false"}, Answer(r, d)
      PROVE /\ UNCHANGED <<read, image>>
            /\ \A q \in Runs : task'[q]["build-image"] = task[q]["build-image"]
  BY <1>0, <1>4, OneTask DEF Answer
<1>5. ASSUME NEW t \in TaskNames, Succeed(r, t) \/ Start(r, t) \/ Skip(r, t)
      PROVE /\ UNCHANGED <<read, image>>
            /\ \A q \in Runs : task'[q]["build-image"] = task[q]["build-image"]
  <2>1. t # "build-image"  BY <1>0, <1>5 DEF Succeed, Start, Skip, When
  <2>2. UNCHANGED <<read, image>> /\ \E s : Becomes(r, t, s)
    BY <1>5 DEF Succeed, Start, Skip
  <2> QED  BY <1>0, <2>1, <2>2, OneTask
<1> QED  BY <1>1, <1>2, <1>3, <1>4, <1>5

LEMMA BuiltStep ==
  ASSUME Values, Flags, Ordered, Built, [Next]_vars
  PROVE  Built'
<1>0. {"clone-sources", "build-image"} \subseteq TaskNames /\ "build-image" \notin Silent
  BY DEF TaskNames, Silent
<1>1. CASE UNCHANGED vars  BY <1>1 DEF vars, Built
<1>2. ASSUME NEW r \in Runs,
             \/ Trigger(r) \/ GitInit(r) \/ UpdateGitops(r) \/ Finally(r)
             \/ \E d \in {"true", "false"} : Answer(r, d)
             \/ \E t \in TaskNames : Succeed(r, t) \/ Start(r, t) \/ Skip(r, t)
      PROVE Built'
  BY <1>2, BuildApart DEF Built
<1>3. ASSUME NEW r \in Runs, CleanDir(r) PROVE Built'
  BY <1>0, <1>3, OneTask DEF CleanDir, Remove, Built
<1>4. ASSUME NEW r \in Runs, StartBuild(r) PROVE Built'
  <2>1. \A q \in Runs : task'[q]["build-image"] =
                          IF q = r THEN "running" ELSE task[q]["build-image"]
    BY <1>0, <1>4, OneTask DEF StartBuild
  <2>2. /\ \A q \in Runs \ {r} : read'[q] = read[q]
        /\ read'[r] # "none" /\ image' = image
    BY <1>4 DEF StartBuild, Values
  <2> QED  BY <2>1, <2>2 DEF Built
<1>5. ASSUME NEW r \in Runs, BuildAndPush(r) PROVE Built'
  <2>1. \A q \in Runs : task'[q]["build-image"] =
                          IF q = r THEN "ok" ELSE task[q]["build-image"]
    BY <1>0, <1>5, OneTask DEF BuildAndPush
  <2>2. /\ \A q \in Runs : image'[q] = IF q = r THEN read[r] ELSE image[q]
        /\ read' = read /\ task[r]["build-image"] = "running"
    BY <1>5 DEF BuildAndPush, Running, Values
  <2> QED  BY <2>1, <2>2 DEF Built
<1>6. ASSUME NEW r \in Runs, CleanWorkspace(r) PROVE Built'
  BY <1>6 DEF CleanWorkspace, Remove, Built
<1>7. ASSUME NEW r \in Runs, Abandon(r) PROVE Built'
  <2>1. \A q \in Runs : image'[q] # image[q] =>
          task[q]["build-image"] = "running" /\ image'[q] = read[q]
    BY <1>7, Broken DEF Abandon
  <2>2. \A q \in Runs : \/ task'[q]["build-image"] = task[q]["build-image"]
                        \/ /\ task[q]["build-image"] = "running"
                           /\ task'[q]["build-image"] = "failed"
    BY <1>0, <1>7, AbandonTasks
  <2> QED  BY <1>7, <2>1, <2>2 DEF Abandon, Built
<1>8. ASSUME NEW r \in Runs, NEW t \in TaskNames, Fail(r, t) PROVE Built'
  <2>1. t = "build-image" => task[r]["build-image"] = "running"
    BY <1>0, <1>8 DEF Fail, Running
  <2>2. \A q \in Runs : image'[q] # image[q] =>
          task[q]["build-image"] = "running" /\ image'[q] = read[q]
    BY <1>8, <2>1, Broken DEF Fail
  <2>3. \A q \in Runs : \/ task'[q]["build-image"] = task[q]["build-image"]
                        \/ /\ task[q]["build-image"] = "running"
                           /\ task'[q]["build-image"] = "failed"
    BY <1>0, <1>8, <2>1, OneTask DEF Fail
  <2> QED  BY <1>8, <2>2, <2>3 DEF Fail, Built
<1> QED  BY <1>1, <1>2, <1>3, <1>4, <1>5, <1>6, <1>7, <1>8, Steps

-----------------------------------------------------------------------------
(* Decisions, and what is deployed.                                        *)

(* What leaves approval-task, update-gitops and what they write alone.     *)
LEMMA DeployApart ==
  ASSUME Values, NEW r \in Runs,
         \/ Trigger(r) \/ CleanDir(r) \/ GitInit(r) \/ StartBuild(r) \/ BuildAndPush(r)
         \/ Finally(r) \/ CleanWorkspace(r)
         \/ \E t \in TaskNames : Succeed(r, t)
  PROVE  /\ UNCHANGED <<event, decision, deployed>>
         /\ \A q \in Runs : /\ task'[q]["approval-task"] = task[q]["approval-task"]
                            /\ task'[q]["update-gitops"] = task[q]["update-gitops"]
<1>0. /\ {"clone-sources", "build-image", "approval-task", "update-gitops"} \subseteq TaskNames
      /\ "approval-task" \notin Silent /\ "update-gitops" \notin Silent
  BY DEF TaskNames, Silent
<1>1. CASE Trigger(r) \/ Finally(r) \/ CleanWorkspace(r)
  BY <1>1 DEF Trigger, Finally, CleanWorkspace
<1>2. CASE CleanDir(r) \/ GitInit(r)
  <2>1. UNCHANGED <<event, decision, deployed>> /\ \E s : Becomes(r, "clone-sources", s)
    BY <1>2 DEF CleanDir, GitInit
  <2> QED  BY <1>0, <2>1, OneTask
<1>3. CASE StartBuild(r) \/ BuildAndPush(r)
  <2>1. UNCHANGED <<event, decision, deployed>> /\ \E s : Becomes(r, "build-image", s)
    BY <1>3 DEF StartBuild, BuildAndPush
  <2> QED  BY <1>0, <2>1, OneTask
<1>4. ASSUME NEW t \in TaskNames, Succeed(r, t)
      PROVE /\ UNCHANGED <<event, decision, deployed>>
            /\ \A q \in Runs : /\ task'[q]["approval-task"] = task[q]["approval-task"]
                               /\ task'[q]["update-gitops"] = task[q]["update-gitops"]
  BY <1>0, <1>4, OneTask DEF Succeed
<1> QED  BY <1>1, <1>2, <1>3, <1>4

LEMMA DecidedStep ==
  ASSUME Values, Flags, Ordered, Decided, [Next]_vars
  PROVE  Decided'
<1>0. /\ {"approval-task", "update-gitops"} \subseteq TaskNames
      /\ "approval-task" \notin Silent /\ "update-gitops" \notin Silent
      /\ event' = event /\ \A r \in Runs : Stage(r)' = Stage(r)
  BY TaskStep DEF TaskNames, Silent, Stage
<1>1. CASE UNCHANGED vars  BY <1>0, <1>1 DEF vars, Decided
<1>2. ASSUME NEW r \in Runs,
             \/ Trigger(r) \/ CleanDir(r) \/ GitInit(r) \/ StartBuild(r) \/ BuildAndPush(r)
             \/ Finally(r) \/ CleanWorkspace(r)
             \/ \E t \in TaskNames : Succeed(r, t)
      PROVE Decided'
  BY <1>0, <1>2, DeployApart DEF Decided
<1>3. ASSUME NEW r \in Runs, NEW d \in {"true", "false"}, Answer(r, d) PROVE Decided'
  <2>1. \A q \in Runs : /\ task'[q]["approval-task"] =
                              IF q = r THEN "ok" ELSE task[q]["approval-task"]
                        /\ task'[q]["update-gitops"] = task[q]["update-gitops"]
    BY <1>0, <1>3, OneTask DEF Answer
  <2>2. \A q \in Runs : decision'[q] = IF q = r THEN d ELSE decision[q]
    BY <1>3 DEF Answer, Values
  <2>3. task[r]["approval-task"] = "running" /\ Stage(r) = "test"
        /\ task[r]["update-gitops"] = "pending"
    BY <1>0, <1>3 DEF Answer, Running, Ordered, Values
  <2> QED  BY <1>0, <2>1, <2>2, <2>3 DEF Decided
<1>4. ASSUME NEW r \in Runs, NEW t \in TaskNames, Start(r, t) PROVE Decided'
  <2>1. \A q \in Runs, u \in TaskNames :
          task'[q][u] = IF q = r /\ u = t THEN "running" ELSE task[q][u]
    BY <1>4, OneTask DEF Start
  <2>2. /\ task[r][t] = "pending" /\ decision' = decision
        /\ t = "update-gitops" /\ Stage(r) = "test" => decision[r] = "true"
    BY <1>4 DEF Start, Ready, When
  <2> QED  BY <1>0, <2>1, <2>2 DEF Decided
<1>5. ASSUME NEW r \in Runs, NEW t \in TaskNames, Skip(r, t) PROVE Decided'
  <2>1. t = "update-gitops" /\ Stage(r) = "test" /\ decision[r] # "true"
    BY <1>5 DEF Skip, When
  <2>2. task[r]["approval-task"] = "ok"
    BY <1>5, <2>1, After DEF Skip, Ready
  <2>3. decision[r] = "false"  BY <2>1, <2>2 DEF Decided, Values
  <2>4. \A q \in Runs, u \in TaskNames :
          task'[q][u] = IF q = r /\ u = t THEN "skipped" ELSE task[q][u]
    BY <1>5, OneTask DEF Skip
  <2>5. decision' = decision  BY <1>5 DEF Skip
  <2> QED  BY <1>0, <2>1, <2>3, <2>4, <2>5 DEF Decided
<1>6. ASSUME NEW r \in Runs, UpdateGitops(r) PROVE Decided'
  <2>1. \A q \in Runs, u \in TaskNames :
          task'[q][u] = IF q = r /\ u = "update-gitops" THEN "ok" ELSE task[q][u]
    BY <1>0, <1>6, OneTask DEF UpdateGitops
  <2>2. task[r]["update-gitops"] = "running" /\ decision' = decision
    BY <1>6 DEF UpdateGitops, Running
  <2> QED  BY <1>0, <2>1, <2>2 DEF Decided
<1>7. ASSUME NEW r \in Runs, Abandon(r) PROVE Decided'
  <2>1. decision' = decision  BY <1>7 DEF Abandon
  <2> QED  BY <1>0, <1>7, <2>1, AbandonTasks DEF Decided
<1>8. ASSUME NEW r \in Runs, NEW t \in TaskNames, Fail(r, t) PROVE Decided'
  <2>1. /\ t # "approval-task" /\ decision' = decision
        /\ t = "update-gitops" => task[r][t] = "running"
    BY <1>0, <1>8 DEF Fail, Running
  <2>2. \A q \in Runs, u \in TaskNames :
          task'[q][u] = IF q = r /\ u = t THEN "failed" ELSE task[q][u]
    BY <1>8, OneTask DEF Fail
  <2> QED  BY <1>0, <2>1, <2>2 DEF Decided
<1> QED  BY <1>1, <1>2, <1>3, <1>4, <1>5, <1>6, <1>7, <1>8, Steps

LEMMA PushedStep ==
  ASSUME Values, Flags, Pushed, [Next]_vars
  PROVE  Pushed'
<1>0. /\ {"approval-task", "update-gitops"} \subseteq TaskNames
      /\ "approval-task" \notin Silent /\ "update-gitops" \notin Silent
  BY DEF TaskNames, Silent
<1>1. CASE UNCHANGED vars  BY <1>1 DEF vars, Pushed
<1>2. ASSUME NEW r \in Runs,
             \/ Trigger(r) \/ CleanDir(r) \/ GitInit(r) \/ StartBuild(r) \/ BuildAndPush(r)
             \/ Finally(r) \/ CleanWorkspace(r)
             \/ \E t \in TaskNames : Succeed(r, t)
      PROVE Pushed'
  BY <1>2, DeployApart DEF Pushed
<1>3. ASSUME NEW r \in Runs, NEW d \in {"true", "false"}, Answer(r, d) PROVE Pushed'
  <2>1. deployed' = deployed  BY <1>3 DEF Answer
  <2>2. \A q \in Runs : task'[q]["update-gitops"] = task[q]["update-gitops"]
    BY <1>0, <1>3, OneTask DEF Answer
  <2> QED  BY <2>1, <2>2 DEF Pushed
<1>4. ASSUME NEW r \in Runs, NEW t \in TaskNames, Start(r, t) \/ Skip(r, t) PROVE Pushed'
  <2>1. task[r][t] = "pending" /\ deployed' = deployed
    BY <1>4 DEF Start, Skip, Ready
  <2>2. \E s \in {"running", "skipped"} : Becomes(r, t, s)
    BY <1>4 DEF Start, Skip
  <2>3. \A q \in Runs : \/ task'[q]["update-gitops"] = task[q]["update-gitops"]
                        \/ /\ task[q]["update-gitops"] = "pending"
                           /\ task'[q]["update-gitops"] \in {"running", "skipped"}
    BY <1>0, <2>1, <2>2, OneTask
  <2> QED  BY <2>1, <2>3 DEF Pushed
<1>5. ASSUME NEW r \in Runs, UpdateGitops(r) PROVE Pushed'
  <2>1. \A q \in Runs : task'[q]["update-gitops"] =
                         IF q = r THEN "ok" ELSE task[q]["update-gitops"]
    BY <1>0, <1>5, OneTask DEF UpdateGitops
  <2>2. deployed'[r] /\ \A q \in Runs \ {r} : deployed'[q] = deployed[q]
    BY <1>5 DEF UpdateGitops, Flags
  <2> QED  BY <2>1, <2>2 DEF Pushed
<1>6. ASSUME NEW r \in Runs, Abandon(r) PROVE Pushed'
  <2>1. \A q \in Runs : /\ deployed[q] => deployed'[q]
                        /\ deployed'[q] => \/ deployed[q]
                                           \/ q = r /\ task[q]["update-gitops"] = "running"
    BY <1>6, Broken DEF Abandon
  <2>2. ASSUME NEW q \in Runs
        PROVE  /\ task'[q]["update-gitops"] = "ok" <=> task[q]["update-gitops"] = "ok"
               /\ task[q]["update-gitops"] = "failed" => task'[q]["update-gitops"] = "failed"
               /\ q = r /\ task[q]["update-gitops"] = "running" =>
                    task'[q]["update-gitops"] = "failed"
    BY <1>0, <1>6, AbandonTasks
  <2> QED  BY <2>1, <2>2 DEF Pushed
<1>7. ASSUME NEW r \in Runs, NEW t \in TaskNames, Fail(r, t) PROVE Pushed'
  <2>1. \A q \in Runs : /\ deployed[q] => deployed'[q]
                        /\ deployed'[q] => deployed[q] \/ (q = r /\ "update-gitops" = t)
    BY <1>7, Broken DEF Fail
  <2>2. t = "update-gitops" => task[r][t] = "running"
    BY <1>0, <1>7 DEF Fail, Running
  <2>3. \A q \in Runs, u \in TaskNames :
          task'[q][u] = IF q = r /\ u = t THEN "failed" ELSE task[q][u]
    BY <1>7, OneTask DEF Fail
  <2>4. ASSUME NEW q \in Runs
        PROVE  /\ task'[q]["update-gitops"] = "ok" => task[q]["update-gitops"] = "ok"
               /\ task[q]["update-gitops"] \in {"ok", "failed"} =>
                    task'[q]["update-gitops"] \in {"ok", "failed"}
               /\ q = r /\ t = "update-gitops" => task'[q]["update-gitops"] = "failed"
    BY <1>0, <2>2, <2>3
  <2> QED  BY <2>1, <2>4 DEF Pushed
<1> QED  BY <1>1, <1>2, <1>3, <1>4, <1>5, <1>6, <1>7, Steps

-----------------------------------------------------------------------------
(* The end of a run.                                                       *)

LEMMA Cases ==
  ASSUME Values, [Next]_vars
  PROVE  \/ UNCHANGED vars
         \/ \E r \in Runs : Trigger(r) \/ Finally(r) \/ CleanWorkspace(r) \/ Abandon(r)
         \/ \E r \in Runs, u \in TaskNames, s \in {"running", "ok", "failed", "skipped"} :
              Moves(r, u, s)
<1>1. ASSUME NEW r \in Runs, NEW t \in TaskNames,
             CleanDir(r) \/ GitInit(r) \/ StartBuild(r) \/ BuildAndPush(r) \/ UpdateGitops(r)
             \/ Succeed(r, t) \/ Start(r, t) \/ Skip(r, t) \/ Fail(r, t) \/ Decide(r)
      PROVE \E u \in TaskNames, s \in {"running", "ok", "failed", "skipped"} : Moves(r, u, s)
  BY <1>1, Moving
<1>2. "update-gitops" \in TaskNames  BY DEF TaskNames
<1> QED  BY <1>1, <1>2 DEF Next, Progress

LEMMA SameEnd ==
  ASSUME Values, event' = event, NEW r \in Runs,
         \A u \in TaskNames : task'[r][u] = task[r][u]
  PROVE  (Over(r)' <=> Over(r)) /\ (Failed(r)' <=> Failed(r))
<1>1. Tasks(r)' = Tasks(r) /\ Tasks(r) \subseteq TaskNames  BY Names DEF Tasks, Stage
<1> QED  BY <1>1 DEF Over, Failed

LEMMA FinishedStep ==
  ASSUME Values, Finished, [Next]_vars
  PROVE  Finished'
<1>0. event' = event  BY TaskStep
<1>1. CASE UNCHANGED vars
  <2>1. phase' = phase /\ task' = task  BY <1>1 DEF vars
  <2> QED  BY <1>0, <2>1, SameEnd DEF Finished
<1>2. ASSUME NEW r \in Runs, Trigger(r) \/ Finally(r) \/ CleanWorkspace(r) PROVE Finished'
  <2>1. task' = task  BY <1>2 DEF Trigger, Finally, CleanWorkspace
  <2>2. \A q \in Runs : (Over(q)' <=> Over(q)) /\ (Failed(q)' <=> Failed(q))
    BY <1>0, <2>1, SameEnd
  <2>3. \A q \in Runs \ {r} : phase'[q] = phase[q]
    BY <1>2 DEF Trigger, Finally, CleanWorkspace, Values
  <2>4. \/ phase'[r] = "tasks"
        \/ phase'[r] = "finally" /\ Over(r)
        \/ /\ phase[r] = "finally" /\ phase'[r] \in {"succeeded", "failed"}
           /\ phase'[r] = "succeeded" => ~Failed(r)
    BY <1>2 DEF Trigger, Finally, CleanWorkspace, Values
  <2> QED  BY <2>1, <2>2, <2>3, <2>4 DEF Finished
<1>3. ASSUME NEW r \in Runs, Abandon(r) PROVE Finished'
  <2>1. \A q \in Runs \ {r} : /\ phase'[q] = phase[q]
                              /\ \A u \in TaskNames : task'[q][u] = task[q][u]
    BY <1>3, AbandonTasks DEF Abandon, Values
  <2>2. phase'[r] = "abandoned"  BY <1>3 DEF Abandon, Values
  <2>3. \A q \in Runs \ {r} : (Over(q)' <=> Over(q)) /\ (Failed(q)' <=> Failed(q))
    BY <1>0, <2>1, SameEnd
  <2> QED  BY <2>1, <2>2, <2>3 DEF Finished
<1>4. ASSUME NEW r \in Runs, NEW u \in TaskNames,
             NEW s \in {"running", "ok", "failed", "skipped"}, Moves(r, u, s)
      PROVE Finished'
  <2>1. phase' = phase /\ phase[r] = "tasks"  BY <1>4 DEF Moves
  <2>2. \A q \in Runs \ {r}, t \in TaskNames : task'[q][t] = task[q][t]
    BY <1>4, OneTask DEF Moves
  <2>3. \A q \in Runs \ {r} : (Over(q)' <=> Over(q)) /\ (Failed(q)' <=> Failed(q))
    BY <1>0, <2>2, SameEnd
  <2> QED  BY <2>1, <2>2, <2>3 DEF Finished
<1> QED  BY <1>1, <1>2, <1>3, <1>4, Cases

-----------------------------------------------------------------------------
(* The volume.                                                             *)

LEMMA OwnersStep ==
  ASSUME Values, VolumeHasOwners, [Next]_vars
  PROVE  VolumeHasOwners'
<1>0. event' = event /\ event \in [Runs -> [stage : Stages, rev : Revisions]]
  BY TaskStep DEF Values
<1>1. ASSUME dir' = dir,
             \A q \in Runs : phase[q] \in {"tasks", "finally", "abandoned"} =>
               phase'[q] \in {"tasks", "finally", "abandoned"}
      PROVE VolumeHasOwners'
  BY <1>0, <1>1 DEF VolumeHasOwners
<1>2. CASE UNCHANGED vars  BY <1>1, <1>2 DEF vars
<1>3. ASSUME NEW r \in Runs, Trigger(r) \/ Finally(r) PROVE VolumeHasOwners'
  BY <1>1, <1>3 DEF Trigger, Finally, Values
<1>4. ASSUME NEW r \in Runs, Abandon(r) PROVE VolumeHasOwners'
  BY <1>1, <1>4 DEF Abandon, Values
<1>5. ASSUME NEW r \in Runs, CleanWorkspace(r) PROVE VolumeHasOwners'
  <2>1. \A q \in Runs \ {r} : phase'[q] = phase[q]
    BY <1>5 DEF CleanWorkspace, Values
  <2>2. \A v \in Revisions : dir'[v] = IF v = event[r].rev THEN "none" ELSE dir[v]
    BY <1>5 DEF CleanWorkspace, Remove, Dir, Values
  <2> QED  BY <1>0, <2>1, <2>2 DEF VolumeHasOwners
<1>6. ASSUME NEW r \in Runs, CleanDir(r) \/ GitInit(r) PROVE VolumeHasOwners'
  <2>1. phase' = phase /\ phase[r] = "tasks"
    BY <1>6 DEF CleanDir, GitInit, Ready, Running
  <2>2. \A v \in Revisions : v # event[r].rev => dir'[v] = dir[v]
    BY <1>6 DEF CleanDir, GitInit, Remove, Dir, Values
  <2> QED  BY <1>0, <2>1, <2>2 DEF VolumeHasOwners
<1>7. ASSUME NEW r \in Runs, StartBuild(r) \/ BuildAndPush(r) \/ UpdateGitops(r)
      PROVE VolumeHasOwners'
  BY <1>1, <1>7 DEF StartBuild, BuildAndPush, UpdateGitops
<1>8. ASSUME NEW r \in Runs, NEW d \in {"true", "false"}, Answer(r, d) PROVE VolumeHasOwners'
  BY <1>1, <1>8 DEF Answer
<1>9. ASSUME NEW r \in Runs, NEW t \in TaskNames,
             Succeed(r, t) \/ Start(r, t) \/ Skip(r, t) \/ Fail(r, t)
      PROVE VolumeHasOwners'
  BY <1>1, <1>9 DEF Succeed, Start, Skip, Fail
<1> QED  BY <1>2, <1>3, <1>4, <1>5, <1>6, <1>7, <1>8, <1>9, Steps

(* A step of one run.                                                      *)
Acts(r) ==
  \/ Trigger(r) \/ CleanDir(r) \/ GitInit(r) \/ StartBuild(r) \/ BuildAndPush(r)
  \/ UpdateGitops(r) \/ Finally(r) \/ CleanWorkspace(r) \/ Abandon(r)
  \/ \E d \in {"true", "false"} : Answer(r, d)
  \/ \E t \in TaskNames : Succeed(r, t) \/ Start(r, t) \/ Skip(r, t) \/ Fail(r, t)

LEMMA PhaseStep ==
  ASSUME Values, NEW r \in Runs, Acts(r)
  PROVE  /\ \A q \in Runs \ {r} : phase'[q] = phase[q]
         /\ phase'[r] # "idle"
<1>1. CASE Trigger(r) \/ Finally(r) \/ CleanWorkspace(r) \/ Abandon(r)
  BY <1>1 DEF Trigger, Finally, CleanWorkspace, Abandon, Values
<1>2. CASE \/ CleanDir(r) \/ GitInit(r) \/ StartBuild(r) \/ BuildAndPush(r) \/ UpdateGitops(r)
           \/ Decide(r)
           \/ \E t \in TaskNames : Succeed(r, t) \/ Start(r, t) \/ Skip(r, t) \/ Fail(r, t)
  <2>1. "update-gitops" \in TaskNames  BY DEF TaskNames
  <2>2. phase' = phase /\ phase[r] = "tasks"
    BY <1>2, <2>1, Moving DEF Moves
  <2> QED  BY <2>2
<1> QED  BY <1>1, <1>2 DEF Acts, Decide

(* Another run's step does not touch a directory that is not shared.       *)
LEMMA OthersApart ==
  ASSUME Values, Flags, NEW r \in Runs, Acts(r), event' = event,
         NEW q \in Runs \ {r}, event[q].rev # event[r].rev
  PROVE  /\ dir'[Dir(q)] = dir[Dir(q)] /\ read'[q] = read[q] /\ image'[q] = image[q]
         /\ task'[q]["clone-sources"] = task[q]["clone-sources"]
<1>0. /\ {"clone-sources", "build-image", "approval-task", "update-gitops"} \subseteq TaskNames
      /\ Dir(q) # Dir(r) /\ Dir(q) \in Revisions /\ Dir(r) \in Revisions
  BY DEF TaskNames, Dir, Values
<1>1. \A s : \A u \in TaskNames : Becomes(r, u, s) => task'[q] = task[q]
  BY DEF Becomes, Values
<1>2. CASE Trigger(r) \/ Finally(r)  BY <1>2 DEF Trigger, Finally
<1>3. CASE CleanDir(r)  BY <1>0, <1>1, <1>3 DEF CleanDir, Remove, Values
<1>4. CASE GitInit(r)  BY <1>0, <1>1, <1>4 DEF GitInit, Values
<1>5. CASE StartBuild(r)  BY <1>0, <1>1, <1>5 DEF StartBuild, Values
<1>6. CASE BuildAndPush(r)  BY <1>0, <1>1, <1>6 DEF BuildAndPush, Values
<1>7. CASE UpdateGitops(r)  BY <1>0, <1>1, <1>7 DEF UpdateGitops
<1>8. CASE CleanWorkspace(r)  BY <1>0, <1>8 DEF CleanWorkspace, Remove, Values
<1>9. CASE Abandon(r)
  <2>1. image'[q] = image[q]  BY <1>9, Broken DEF Abandon
  <2> QED  BY <1>9, <2>1 DEF Abandon, Values
<1>10. CASE \E d \in {"true", "false"} : Answer(r, d)  BY <1>0, <1>1, <1>10 DEF Answer
<1>11. CASE \E t \in TaskNames : Succeed(r, t) \/ Start(r, t) \/ Skip(r, t)
  BY <1>1, <1>11 DEF Succeed, Start, Skip
<1>12. ASSUME NEW t \in TaskNames, Fail(r, t)
       PROVE /\ dir'[Dir(q)] = dir[Dir(q)] /\ read'[q] = read[q] /\ image'[q] = image[q]
             /\ task'[q]["clone-sources"] = task[q]["clone-sources"]
  <2>1. image'[q] = image[q]  BY <1>12, Broken DEF Fail
  <2> QED  BY <1>1, <1>12, <2>1 DEF Fail
<1> QED  BY <1>2, <1>3, <1>4, <1>5, <1>6, <1>7, <1>8, <1>9, <1>10, <1>11, <1>12 DEF Acts

(* A run's own step, when it is alone in its directory.                    *)
Whole(r) ==
  /\ phase[r] = "tasks" /\ task[r]["clone-sources"] = "ok" => dir[Dir(r)] = "sources"
  /\ read[r] # "partial" /\ image[r] # "partial"

LEMMA OwnStep ==
  ASSUME Values, Flags, Ordered, Finished, NEW r \in Runs, Acts(r), event' = event, Whole(r)
  PROVE  Whole(r)'
<1>0. /\ {"clone-sources", "build-image", "approval-task", "update-gitops"} \subseteq TaskNames
      /\ {"clone-sources", "build-image", "approval-task", "update-gitops"} \cap Silent = {}
      /\ Dir(r) \in Revisions /\ Dir(r)' = Dir(r)
  BY DEF TaskNames, Silent, Dir, Values
<1>1. CASE Trigger(r)
  <2>1. task[r]["clone-sources"] = "pending"  BY <1>0, <1>1 DEF Trigger, Finished
  <2> QED  BY <1>1, <2>1 DEF Trigger, Whole
<1>2. CASE CleanDir(r)
  <2>1. task[r]["build-image"] # "running"  BY <1>2 DEF CleanDir, Ready, Ordered
  <2>2. task'[r]["clone-sources"] = "running"  BY <1>0, <1>2, OneTask DEF CleanDir
  <2> QED  BY <1>2, <2>1, <2>2 DEF CleanDir, Remove, Whole
<1>3. CASE GitInit(r)
  <2>1. dir'[Dir(r)] = "sources"  BY <1>0, <1>3 DEF GitInit, Values
  <2> QED  BY <1>0, <1>3, <2>1 DEF GitInit, Whole
<1>4. CASE StartBuild(r)
  <2>1. phase[r] = "tasks" /\ task[r]["clone-sources"] = "ok"
    BY <1>4, After DEF StartBuild, Ready
  <2>2. read'[r] = "sources"  BY <1>4, <2>1 DEF StartBuild, Whole, Values
  <2> QED  BY <1>0, <1>4, <2>1, <2>2 DEF StartBuild, Whole
<1>5. CASE BuildAndPush(r)
  <2>1. image'[r] = read[r]  BY <1>5 DEF BuildAndPush, Values
  <2>2. task'[r]["clone-sources"] = task[r]["clone-sources"]
    BY <1>0, <1>5, OneTask DEF BuildAndPush
  <2> QED  BY <1>0, <1>5, <2>1, <2>2 DEF BuildAndPush, Whole
<1>6. CASE UpdateGitops(r)
  <2>1. task'[r]["clone-sources"] = task[r]["clone-sources"]
    BY <1>0, <1>6, OneTask DEF UpdateGitops
  <2> QED  BY <1>0, <1>6, <2>1 DEF UpdateGitops, Whole
<1>7. CASE Finally(r)
  <2>1. phase'[r] = "finally"  BY <1>7 DEF Finally, Values
  <2> QED  BY <1>7, <2>1 DEF Finally, Whole
<1>8. CASE CleanWorkspace(r)
  <2>1. phase'[r] # "tasks"  BY <1>8 DEF CleanWorkspace, Values
  <2>2. task[r]["build-image"] # "running"
    BY <1>8, Names DEF CleanWorkspace, Finished, Over
  <2> QED  BY <1>8, <2>1, <2>2 DEF CleanWorkspace, Remove, Whole
<1>9. CASE Abandon(r)
  <2>1. phase'[r] # "tasks" /\ read' = read  BY <1>9 DEF Abandon, Values
  <2>2. image'[r] \in {image[r], read[r]}  BY <1>9, Broken DEF Abandon
  <2> QED  BY <2>1, <2>2 DEF Whole
<1>10. ASSUME NEW d \in {"true", "false"}, Answer(r, d) PROVE Whole(r)'
  <2>1. task'[r]["clone-sources"] = task[r]["clone-sources"]
    BY <1>0, <1>10, OneTask DEF Answer
  <2> QED  BY <1>0, <1>10, <2>1 DEF Answer, Whole
<1>11. ASSUME NEW t \in TaskNames, Succeed(r, t) \/ Start(r, t) \/ Skip(r, t)
       PROVE Whole(r)'
  <2>1. t # "clone-sources" /\ (\E s : Becomes(r, t, s)) /\ UNCHANGED <<phase, dir, read, image>>
    BY <1>0, <1>11 DEF Succeed, Start, Skip, When
  <2>2. task'[r]["clone-sources"] = task[r]["clone-sources"]  BY <1>0, <2>1, OneTask
  <2> QED  BY <1>0, <2>1, <2>2 DEF Whole
<1>12. ASSUME NEW t \in TaskNames, Fail(r, t) PROVE Whole(r)'
  <2>1. task'[r]["clone-sources"] = "ok" => task[r]["clone-sources"] = "ok"
    BY <1>0, <1>12, OneTask DEF Fail
  <2>2. image'[r] \in {image[r], read[r]}  BY <1>12, Broken DEF Fail
  <2> QED  BY <1>0, <1>12, <2>1, <2>2 DEF Fail, Whole
<1> QED
  BY <1>1, <1>2, <1>3, <1>4, <1>5, <1>6, <1>7, <1>8, <1>9, <1>10, <1>11, <1>12 DEF Acts

LEMMA PrivateStep ==
  ASSUME Values, Flags, Ordered, Finished, Private, [Next]_vars
  PROVE  Private'
<1>0. event' = event  BY TaskStep
<1>1. CASE UNCHANGED vars
  BY <1>1 DEF vars, Private, Shared, Dir
<1>2. ASSUME NEW r \in Runs, Acts(r) PROVE Private'
  <2> SUFFICES ASSUME NEW q \in Runs, ~Shared(q)' PROVE Whole(q)'
    BY DEF Private, Whole
  <2>1. \A p \in Runs : phase[p] # "idle" => phase'[p] # "idle"
    BY <1>2, PhaseStep
  <2>2. ~Shared(q)  BY <1>0, <2>1 DEF Shared
  <2>3. Whole(q)  BY <2>2 DEF Private, Whole
  <2>4. CASE q = r  BY <1>0, <1>2, <2>3, <2>4, OwnStep
  <2>5. CASE q # r
    <3>1. event[q].rev # event[r].rev
      BY <1>0, <1>2, <2>5, PhaseStep DEF Shared
    <3>2. /\ dir'[Dir(q)] = dir[Dir(q)] /\ read'[q] = read[q] /\ image'[q] = image[q]
          /\ task'[q]["clone-sources"] = task[q]["clone-sources"]
      BY <1>0, <1>2, <2>5, <3>1, OthersApart
    <3>3. phase'[q] = phase[q] /\ Dir(q)' = Dir(q)
      BY <1>0, <1>2, <2>5, PhaseStep DEF Dir
    <3> QED  BY <2>3, <3>2, <3>3 DEF Whole
  <2> QED  BY <2>4, <2>5
<1> QED  BY <1>1, <1>2, Steps DEF Acts

-----------------------------------------------------------------------------
(* Theorems.                                                               *)

(* The invariant: what a started task comes after, what was read, pushed   *)
(* and decided by then, and what a run's directory holds.                  *)
THEOREM PipelineInvariant == Spec => []Inv
<1>1. Init => Inv
  <2> SUFFICES ASSUME Init PROVE Inv  OBVIOUS
  <2>1. Values
    <3>1. event \in [Runs -> [stage : Stages, rev : Revisions]]  BY DEF Init
    <3> QED  BY <3>1 DEF Init, Values, Contents
  <2>2. Flags  BY DEF Init, Flags
  <2>3. \A r \in Runs, t \in TaskNames : task[r][t] = "pending"  BY DEF Init
  <2>4. {"clone-sources", "build-image", "approval-task", "update-gitops"} \subseteq TaskNames
    BY DEF TaskNames
  <2>5. Ordered /\ Built /\ Decided
    BY <2>3, <2>4 DEF Init, Ordered, Built, Decided
  <2>6. Pushed
    <3>1. \A r \in Runs : ~deployed[r]  BY DEF Init
    <3> QED  BY <2>3, <2>4, <3>1 DEF Pushed
  <2>7. Private  BY DEF Init, Private
  <2>8. Finished  BY <2>3 DEF Init, Finished
  <2>9. VolumeHasOwners  BY DEF Init, VolumeHasOwners
  <2> QED  BY <2>1, <2>2, <2>5, <2>6, <2>7, <2>8, <2>9 DEF Inv
<1>2. Inv /\ [Next]_vars => Inv'
  BY TypeStep, OrderedStep, BuiltStep, DecidedStep, PushedStep, PrivateStep, FinishedStep,
     OwnersStep DEF Inv
<1> QED  BY <1>1, <1>2, PTL DEF Spec

(* The variables keep their types.                                         *)
THEOREM PipelineTypes == Spec => []TypeOK
<1>1. Inv => TypeOK  BY DEF Inv, Values, Flags, TypeOK
<1> QED  BY <1>1, PipelineInvariant, PTL

(* On test only what its approver has approved is deployed (the when       *)
(* expression and runAfter of update-gitops).                              *)
THEOREM OnlyApproved == Spec => []DeployedIsApproved
<1>1. Inv => DeployedIsApproved
  <2> SUFFICES ASSUME Inv, NEW r \in Runs, Stage(r) = "test", deployed[r]
               PROVE  decision[r] = "true"
    BY DEF DeployedIsApproved
  <2>1. task[r]["update-gitops"] \in {"ok", "failed"}  BY DEF Inv, Pushed
  <2> QED  BY <2>1 DEF Inv, Decided
<1> QED  BY <1>1, PipelineInvariant, PTL

(* What is asked about, or deployed, has an image in the registry.         *)
THEOREM OnlyBuilt == Spec => []DeployedIsBuilt
<1>1. Inv => DeployedIsBuilt
  <2> SUFFICES ASSUME Inv, NEW r \in Runs, deployed[r] \/ task[r]["approval-task"] # "pending"
               PROVE  image[r] # "none"
    BY DEF DeployedIsBuilt
  <2>1. deployed[r] => task[r]["update-gitops"] # "pending"  BY DEF Inv, Pushed
  <2>2. task[r]["build-image"] = "ok"  BY <2>1 DEF Inv, Ordered
  <2> QED  BY <2>2 DEF Inv, Built
<1> QED  BY <1>1, PipelineInvariant, PTL

(* Only a run of the same revision can take a build's sources away.        *)
THEOREM OnlySharedIsPartial == Spec => []WholeUnlessShared
<1>1. Inv => WholeUnlessShared  BY DEF Inv, Private, WholeUnlessShared
<1> QED  BY <1>1, PipelineInvariant, PTL

(* A green run of dev or test has deployed, or its approver said no and it *)
(* has not.                                                                *)
THEOREM GreenIsDeployed == Spec => []SuccessIsDeployed
<1>1. Inv => SuccessIsDeployed
  <2> SUFFICES ASSUME Inv, NEW r \in Runs, phase[r] = "succeeded", Stage(r) # "prd"
               PROVE  deployed[r] # (decision[r] = "false")
    BY DEF SuccessIsDeployed
  <2>1. "update-gitops" \in Tasks(r)  BY Names DEF Inv
  <2>2. Over(r) /\ ~Failed(r)  BY DEF Inv, Finished
  <2>3. task[r]["update-gitops"] \in {"ok", "skipped"}  BY <2>1, <2>2 DEF Over
  <2>4. CASE task[r]["update-gitops"] = "ok"
    <3>1. decision[r] # "false"
      <4>1. CASE Stage(r) = "test"  BY <2>4, <4>1 DEF Inv, Decided
      <4>2. CASE Stage(r) # "test"
        <5>1. task[r]["approval-task"] = "pending"  BY <4>2 DEF Inv, Ordered
        <5> QED  BY <5>1 DEF Inv, Decided
      <4> QED  BY <4>1, <4>2
    <3>2. deployed[r]  BY <2>4 DEF Inv, Pushed
    <3>3. deployed[r] = TRUE  BY <3>2 DEF Inv, Flags
    <3> QED  BY <3>1, <3>3
  <2>5. CASE task[r]["update-gitops"] = "skipped"
    <3>1. decision[r] = "false"  BY <2>5 DEF Inv, Decided
    <3>2. ~deployed[r]  BY <2>5 DEF Inv, Pushed
    <3>3. deployed[r] = FALSE  BY <3>2 DEF Inv, Flags
    <3> QED  BY <3>1, <3>3
  <2> QED  BY <2>3, <2>4, <2>5
<1> QED  BY <1>1, PipelineInvariant, PTL

(* A run that came to its end, with failed tasks or not, leaves nothing on *)
(* the volume.                                                             *)
THEOREM NothingIsLeft == Spec => []VolumeHasOwners
<1>1. Inv => VolumeHasOwners  BY DEF Inv
<1> QED  BY <1>1, PipelineInvariant, PTL
-----------------------------------------------------------------------------
(* A run is not stuck.                                                     *)

(* Only the last task of a test run is ever skipped.                       *)
LastSkipped ==
  \A r \in Runs, t \in TaskNames :
    task[r][t] = "skipped" => t = "update-gitops" /\ Stage(r) = "test"

LEMMA SkippedStep ==
  ASSUME Values, LastSkipped, [Next]_vars
  PROVE  LastSkipped'
<1>0. /\ event' = event
      /\ {"clone-sources", "build-image", "approval-task", "update-gitops"} \subseteq TaskNames
  BY TaskStep DEF TaskNames
<1>1. ASSUME NEW r \in Runs, NEW t \in TaskNames, NEW s, Becomes(r, t, s),
             s = "skipped" => t = "update-gitops" /\ Stage(r) = "test"
      PROVE  LastSkipped'
  BY <1>0, <1>1, OneTask DEF LastSkipped, Stage
<1>2. CASE UNCHANGED vars  BY <1>2 DEF vars, LastSkipped, Stage
<1>3. ASSUME NEW r \in Runs, Trigger(r) \/ Finally(r) \/ CleanWorkspace(r) PROVE LastSkipped'
  BY <1>3 DEF Trigger, Finally, CleanWorkspace, LastSkipped, Stage
<1>4. ASSUME NEW r \in Runs, Abandon(r) PROVE LastSkipped'
  BY <1>0, <1>4, AbandonTasks DEF LastSkipped, Stage
<1>5. ASSUME NEW r \in Runs,
             \/ CleanDir(r) \/ GitInit(r) \/ StartBuild(r) \/ BuildAndPush(r) \/ UpdateGitops(r)
             \/ \E d \in {"true", "false"} : Answer(r, d)
      PROVE  LastSkipped'
  BY <1>0, <1>1, <1>5 DEF CleanDir, GitInit, StartBuild, BuildAndPush, UpdateGitops, Answer
<1>6. ASSUME NEW r \in Runs, NEW t \in TaskNames,
             Succeed(r, t) \/ Start(r, t) \/ Skip(r, t) \/ Fail(r, t)
      PROVE  LastSkipped'
  BY <1>1, <1>6 DEF Succeed, Start, Skip, Fail, When
<1> QED  BY <1>2, <1>3, <1>4, <1>5, <1>6, Steps

(* The first task without an end, in the order of runAfter, can go on.     *)
LEMMA SomethingToDo ==
  ASSUME Values, LastSkipped, NEW r \in Runs, phase[r] = "tasks", ~Over(r)
  PROVE  \E t \in Tasks(r) : Running(r, t) \/ Ready(r, t)
<1> SUFFICES ASSUME \A t \in Tasks(r) : ~Running(r, t) /\ ~Ready(r, t)  PROVE FALSE
  OBVIOUS
<1>1. \A t \in Tasks(r) : task[r][t] # "running"  BY DEF Running
<1>2. ~Failed(r) /\ \E t \in Tasks(r) : task[r][t] \notin {"ok", "skipped"}
  BY <1>1 DEF Over
<1>3. \A t \in Tasks(r) : task[r][t] \in {"ok", "skipped", "pending"}
  BY <1>1, <1>2, Names DEF Values, Failed
<1>4. \A t \in Tasks(r) : (\A u \in RunAfter(r, t) : task[r][u] = "ok") => task[r][t] # "pending"
  BY <1>2 DEF Ready
<1>5. \A t \in Tasks(r) : t # "update-gitops" => task[r][t] \in {"ok", "pending"}
  BY <1>3, Names DEF LastSkipped
<1>6. {"generate-id", "clone-sources", "build-image"} \subseteq Tasks(r)  BY DEF Tasks
<1>7. task[r]["generate-id"] = "ok"  BY <1>4, <1>5, <1>6 DEF RunAfter
<1>8. task[r]["clone-sources"] = "ok"  BY <1>4, <1>5, <1>6, <1>7 DEF RunAfter
<1>9. task[r]["build-image"] = "ok"  BY <1>4, <1>5, <1>6, <1>8 DEF RunAfter
<1>10. "approval-task" \in Tasks(r) => task[r]["approval-task"] = "ok"
  BY <1>4, <1>5, <1>9 DEF RunAfter
<1>11. Stage(r) = "test" => "approval-task" \in Tasks(r)  BY DEF Tasks
<1>12. \A t \in Tasks(r) : \A u \in RunAfter(r, t) : task[r][u] = "ok"
  BY <1>7, <1>8, <1>9, <1>10, <1>11 DEF RunAfter
<1> QED  BY <1>2, <1>3, <1>4, <1>12

(* A run always has something to do until its tasks are over: whatever     *)
(* failed, was skipped or is done by the other runs, no task waits for one *)
(* that will not end.                                                      *)
NeverStuck ==
  \A r \in Runs : phase[r] = "tasks" =>
    Over(r) \/ \E t \in Tasks(r) : Running(r, t) \/ Ready(r, t)

THEOREM RunIsNeverStuck == Spec => []NeverStuck
<1>1. Init => LastSkipped  BY DEF Init, LastSkipped
<1>2. Inv /\ LastSkipped => NeverStuck  BY SomethingToDo DEF Inv, NeverStuck
<1>3. Inv /\ LastSkipped /\ [Next]_vars => LastSkipped'  BY SkippedStep DEF Inv
<1> QED  BY <1>1, <1>2, <1>3, PipelineInvariant, PTL DEF Spec

(* How far a task and a run are.                                           *)
TaskRank(s) == CASE s = "pending" -> 0 [] s = "running" -> 1 [] OTHER -> 2

PhaseRank(p) == CASE p = "idle" -> 0 [] p = "tasks" -> 1 [] p = "finally" -> 2 [] OTHER -> 3

(* Nothing goes back, and something goes on.                               *)
GoesOn ==
  /\ \A r \in Runs : PhaseRank(phase[r]) <= PhaseRank(phase'[r])
  /\ \A r \in Runs, t \in TaskNames : TaskRank(task[r][t]) <= TaskRank(task'[r][t])
  /\ \/ \E r \in Runs : PhaseRank(phase[r]) < PhaseRank(phase'[r])
     \/ \E r \in Runs, t \in TaskNames : TaskRank(task[r][t]) < TaskRank(task'[r][t])

(* Every step takes a task or a run further and none back: no task is      *)
(* repeated, whatever fails, so that a run has at most two steps for each  *)
(* of its tasks and three of its own, and what keeps going ends.           *)
EveryStepCounts == [][GoesOn]_vars

THEOREM RunsGoForward == Spec => EveryStepCounts
<1> USE DEF TaskRank, PhaseRank
<1>1. ASSUME NEW r \in Runs, Values, Trigger(r) \/ Finally(r) \/ CleanWorkspace(r)
      PROVE  GoesOn
  <2>1. /\ task' = task
        /\ PhaseRank(phase[r]) < PhaseRank(phase'[r])
        /\ \A q \in Runs : q # r => phase'[q] = phase[q]
    BY <1>1 DEF Trigger, Finally, CleanWorkspace, Values
  <2> QED  BY <2>1 DEF GoesOn
<1>2. ASSUME NEW r \in Runs, Values, Abandon(r)
      PROVE  GoesOn
  <2>1. /\ PhaseRank(phase[r]) < PhaseRank(phase'[r])
        /\ \A q \in Runs : q # r => phase'[q] = phase[q]
    BY <1>2 DEF Abandon, Values
  <2>2. \A q \in Runs, u \in TaskNames : TaskRank(task[q][u]) <= TaskRank(task'[q][u])
    BY <1>2, AbandonTasks
  <2> QED  BY <2>1, <2>2 DEF GoesOn
<1>3. ASSUME NEW r \in Runs, NEW t \in TaskNames,
             NEW s \in {"running", "ok", "failed", "skipped"}, Values, Moves(r, t, s)
      PROVE  GoesOn
  <2>1. /\ phase' = phase
        /\ \A q \in Runs, u \in TaskNames :
             task'[q][u] = IF q = r /\ u = t THEN s ELSE task[q][u]
    BY <1>3, OneTask DEF Moves
  <2>2. TaskRank(task[r][t]) < TaskRank(task'[r][t])
    BY <1>3, <2>1 DEF Moves, Ready, Running
  <2>3. \A q \in Runs, u \in TaskNames : TaskRank(task[q][u]) <= TaskRank(task'[q][u])
    BY <2>1, <2>2
  <2> QED  BY <2>1, <2>2, <2>3 DEF GoesOn
<1>4. Values /\ [Next]_vars => [GoesOn]_vars
  BY <1>1, <1>2, <1>3, Cases
<1>5. Inv => Values  BY DEF Inv
<1> QED  BY <1>4, <1>5, PipelineInvariant, PTL DEF Spec, EveryStepCounts

-----------------------------------------------------------------------------
(* What is decided, pushed or ended stays.                                 *)

(* An image is pushed by the end of its build.                             *)
PushedOnce == \A r \in Runs : image[r] # "none" => task[r]["build-image"] \in {"ok", "failed"}

(* A step of one run leaves what the others have.                          *)
LEMMA OthersStay ==
  ASSUME Values, Flags, NEW r \in Runs, Acts(r), NEW q \in Runs \ {r}
  PROVE  /\ task'[q] = task[q] /\ image'[q] = image[q]
         /\ decision'[q] = decision[q] /\ deployed'[q] = deployed[q]
<1>0. {"clone-sources", "build-image", "approval-task", "update-gitops"} \subseteq TaskNames
  BY DEF TaskNames
<1>1. \A s : \A u \in TaskNames : Becomes(r, u, s) => task'[q] = task[q]
  BY DEF Becomes, Values
<1>2. CASE Trigger(r) \/ Finally(r) \/ CleanWorkspace(r)
  BY <1>2 DEF Trigger, Finally, CleanWorkspace
<1>3. CASE CleanDir(r) \/ GitInit(r) \/ StartBuild(r)
  BY <1>0, <1>1, <1>3 DEF CleanDir, GitInit, StartBuild
<1>4. CASE BuildAndPush(r)  BY <1>0, <1>1, <1>4 DEF BuildAndPush, Values
<1>5. CASE UpdateGitops(r)  BY <1>0, <1>1, <1>5 DEF UpdateGitops, Flags
<1>6. CASE \E d \in {"true", "false"} : Answer(r, d)
  BY <1>0, <1>1, <1>6 DEF Answer, Values
<1>7. CASE \E t \in TaskNames : Succeed(r, t) \/ Start(r, t) \/ Skip(r, t)
  BY <1>1, <1>7 DEF Succeed, Start, Skip
<1>8. ASSUME NEW ts, BrokenOff(r, ts)
      PROVE  image'[q] = image[q] /\ deployed'[q] = deployed[q]
  <2>1. image'[q] = image[q]  BY <1>8, Broken
  <2>2. deployed' = deployed \/ deployed' = [deployed EXCEPT ![r] = TRUE]
    BY <1>8 DEF BrokenOff
  <2> QED  BY <2>1, <2>2 DEF Flags
<1>9. CASE Abandon(r)  BY <1>8, <1>9 DEF Abandon, Values
<1>10. CASE \E t \in TaskNames : Fail(r, t)  BY <1>1, <1>8, <1>10 DEF Fail
<1> QED  BY <1>2, <1>3, <1>4, <1>5, <1>6, <1>7, <1>9, <1>10 DEF Acts

(* A run's own step takes nothing back.                                    *)
LEMMA OwnStays ==
  ASSUME Values, Flags, Decided, PushedOnce, NEW r \in Runs, Acts(r)
  PROVE  /\ phase[r] \in {"idle", "tasks", "finally"}
         /\ image[r] # "none" => image'[r] = image[r]
         /\ decision[r] # "none" => decision'[r] = decision[r]
         /\ deployed[r] => deployed'[r]
         /\ image'[r] # "none" => task'[r]["build-image"] \in {"ok", "failed"}
<1>0. /\ {"clone-sources", "build-image", "approval-task", "update-gitops"} \subseteq TaskNames
      /\ "build-image" \notin Silent
  BY DEF TaskNames, Silent
<1> USE DEF PushedOnce
<1>1. CASE Trigger(r) \/ Finally(r) \/ CleanWorkspace(r)
  BY <1>1 DEF Trigger, Finally, CleanWorkspace
<1>2. CASE CleanDir(r) \/ GitInit(r)
  BY <1>0, <1>2, OneTask DEF CleanDir, GitInit, Ready, Running
<1>3. CASE StartBuild(r)
  BY <1>0, <1>3, OneTask DEF StartBuild, Ready
<1>4. CASE BuildAndPush(r)
  BY <1>0, <1>4, OneTask DEF BuildAndPush, Running
<1>5. CASE UpdateGitops(r)
  <2>1. deployed'[r]  BY <1>5 DEF UpdateGitops, Flags
  <2> QED  BY <1>0, <1>5, <2>1, OneTask DEF UpdateGitops, Running
<1>6. CASE \E d \in {"true", "false"} : Answer(r, d)
  BY <1>0, <1>6, OneTask DEF Answer, Running, Decided
<1>7. ASSUME NEW t \in TaskNames, Succeed(r, t) \/ Start(r, t) \/ Skip(r, t)
      PROVE  /\ phase[r] = "tasks" /\ UNCHANGED <<image, decision, deployed>>
             /\ task'[r]["build-image"] = task[r]["build-image"]
  BY <1>7, BuildApart DEF Succeed, Start, Skip, Ready
<1>8. ASSUME NEW t \in TaskNames, Fail(r, t)
      PROVE  /\ phase[r] = "tasks" /\ decision' = decision
             /\ image[r] # "none" => image'[r] = image[r]
             /\ deployed[r] => deployed'[r]
             /\ image'[r] # "none" => task'[r]["build-image"] \in {"ok", "failed"}
  <2>1. phase[r] = "tasks" /\ decision' = decision /\ BrokenOff(r, {t}) /\ Becomes(r, t, "failed")
    BY <1>8 DEF Fail, Ready, Running
  <2>2. t = "build-image" => task[r]["build-image"] = "running"
    BY <1>0, <1>8 DEF Fail, Running
  <2>3. /\ image'[r] # image[r] => t = "build-image"
        /\ deployed[r] => deployed'[r]
    BY <2>1, Broken
  <2> QED  BY <1>0, <2>1, <2>2, <2>3, OneTask
<1>9. CASE Abandon(r)
  <2>1. /\ phase[r] \in {"tasks", "finally"} /\ decision' = decision
        /\ BrokenOff(r, {t \in TaskNames : task[r][t] = "running"})
    BY <1>9 DEF Abandon
  <2>2. /\ image'[r] # image[r] => task[r]["build-image"] = "running"
        /\ deployed[r] => deployed'[r]
    BY <2>1, Broken
  <2> QED  BY <1>0, <1>9, <2>1, <2>2, AbandonTasks
<1> QED  BY <1>1, <1>2, <1>3, <1>4, <1>5, <1>6, <1>7, <1>8, <1>9 DEF Acts

(* What an approver was asked about is what is deployed: an image that was *)
(* pushed is not pushed again, a decision and a deployment stay, and a run *)
(* that has ended keeps its end and all of these.                          *)
NothingTakenBack ==
  [][\A r \in Runs :
       /\ image[r] # "none" => image'[r] = image[r]
       /\ decision[r] # "none" => decision'[r] = decision[r]
       /\ deployed[r] => deployed'[r]
       /\ phase[r] \in Ended => /\ phase'[r] = phase[r] /\ task'[r] = task[r]
                                /\ deployed'[r] = deployed[r]]_vars

THEOREM ApprovedIsWhatIsDeployed == Spec => NothingTakenBack
<1> DEFINE Kept(r) ==
      /\ image[r] # "none" => image'[r] = image[r]
      /\ decision[r] # "none" => decision'[r] = decision[r]
      /\ deployed[r] => deployed'[r]
      /\ phase[r] \in Ended => /\ phase'[r] = phase[r] /\ task'[r] = task[r]
                               /\ deployed'[r] = deployed[r]
<1>1. ASSUME Inv, PushedOnce, Next PROVE (\A r \in Runs : Kept(r)) /\ PushedOnce'
  <2>1. CASE UNCHANGED vars  BY <1>1, <2>1 DEF vars, PushedOnce
  <2>2. ASSUME NEW r \in Runs, Acts(r) PROVE (\A q \in Runs : Kept(q)) /\ PushedOnce'
    <3>1. Kept(r) /\ (image'[r] # "none" => task'[r]["build-image"] \in {"ok", "failed"})
      BY <1>1, <2>2, OwnStays DEF Inv, Ended
    <3>2. \A q \in Runs \ {r} : Kept(q)
      BY <1>1, <2>2, OthersStay, PhaseStep DEF Inv
    <3>3. PushedOnce'
      BY <1>1, <2>2, <3>1, OthersStay DEF Inv, PushedOnce
    <3> QED  BY <3>1, <3>2, <3>3
  <2> QED  BY <1>1, <2>1, <2>2, Steps DEF Acts
<1>2. Inv /\ PushedOnce /\ [Next]_vars => PushedOnce'
  BY <1>1 DEF vars, PushedOnce
<1>3. Init => PushedOnce  BY DEF Init, PushedOnce
<1>4. Inv /\ PushedOnce /\ [Next]_vars => [\A r \in Runs : Kept(r)]_vars
  BY <1>1
<1> QED  BY <1>2, <1>3, <1>4, PipelineInvariant, PTL DEF Spec, NothingTakenBack
=============================================================================
