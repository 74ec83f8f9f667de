------------------------------ MODULE RestProofs ------------------------------
(***************************************************************************)
(* Why the operator comes to rest only when its work is done, for every    *)
(* value of the constants and any number of restarts: whatever a thread    *)
(* still owes the run can be told from the state.                          *)
(***************************************************************************)
EXTENDS ApprovalProofs

Alive == run.phase = "live"

(* The approvers are asked, or their decision is being stored.             *)
Working == asg.pc \in {"asking", "store", "label", "read", "patch"}

(* What holds in any case.  The instance's copy of the run is as good as   *)
(* the run itself, unless there is an event to handle; and a run that is   *)
(* not completed has an instance, or an event that makes one.              *)
Mirror ==
  /\ pipeline = "waiting" => Alive
  /\ rec # "idle" => ctl # "none"
  /\ ctl = "marked" => rec # "idle"
  /\ run.phase = "absent" => ctl = "none"
  /\ Alive /\ ctl = "none" /\ ~isCompleted(run.status) => runEvt
  /\ ctl # "none" /\ ~runEvt =>
       /\ resource.status.results = run.status.results
       /\ isCompleted(run.status) => isCompleted(resource.status)
  /\ rec = "idle" /\ ctl = "waiting" /\ ~runEvt => ~hasResults(resource.status)
  /\ tmr.pc = "patch" => tmr.status.cond = "False"
  /\ asg.pc = "patch" => hasResults(asg.status)
  /\ Alive /\ ~fired /\ run.spec = "none" => task.phase # "deleting"
  /\ task.phase = "absent" => task.results = "none"

(* What is on the volume was in memory: there is no instance saved that    *)
(* has ended, and none unsaved but in its first request.                   *)
OnDisk ==
  /\ disk.ctl # "none" => Durable /\ ctl # "none"
  /\ disk.ctl = "none" => ~hasResults(disk.resource.status)
  /\ disk.ctl = "completed" => ctl = "completed"
  /\ Durable /\ ctl # "none" /\ disk.ctl = "none" => rec = "start"

(* Until the first restart the instance has made its task itself, and      *)
(* reports what becomes of it.                                             *)
Reports ==
  crashes = 0 => /\ ctl # "none" => ~skipResourceUpdate
                 /\ disk.ctl # "none" => ~disk.skipResourceUpdate

-----------------------------------------------------------------------------
(* What the actions with more than one outcome do.                         *)

(* A new instance, with the ApprovalTask that is there or a new one.       *)
LEMMA CreateDoes ==
  ASSUME ValuesOK, CreateApprovalTask
  PROVE  /\ UNCHANGED <<run, asg, pipeline, said, fired, crashes>>
         /\ rec = "idle" /\ runEvt /\ ctl = "none" /\ Alive /\ ~isCompleted(run.status)
         /\ rec' = "start" /\ ctl' = "waiting" /\ ~runEvt'
         /\ tmr'.pc \in {"armed", "off"} /\ ~hasResults(tmr'.status)
         /\ resource'.spec = run.spec
         /\ resource'.status.results = run.status.results /\ ~isCompleted(resource'.status)
         /\ disk' = disk /\ (task.phase = "absent" => ~skipResourceUpdate')
         /\ \/ task.phase = "absent" /\ task'.phase = "live" /\ task'.results = "none"
            \/ task.phase # "absent" /\ task' = task
<1> USE StatusWith DEF CreateApprovalTask, ValuesOK, Conds, Alive, isCompleted, hasResults
<1>1. tmr'.pc \in {"armed", "off"} /\ tmr'.status = NoStatus
  BY DEF NoTmr
<1>2. task.phase = "absent" => task'.phase = "live" /\ task'.results = "none"
  OBVIOUS
<1>3. task.phase = "absent" => ~skipResourceUpdate'
  OBVIOUS
<1>4. QED
  BY <1>1, <1>2, <1>3 DEF NoStatus

(* A cancelled run loses its task and gets its end, in the copy.           *)
LEMMA OnUpdateDoes ==
  ASSUME ValuesOK, OnUpdate
  PROVE  /\ UNCHANGED <<run, runEvt, ctl, tmr, asg, pipeline, said, fired, crashes>>
         /\ rec = "update" /\ rec' = "propagate"
         /\ resource'.status.results = resource.status.results
         /\ isCompleted(resource.status) => isCompleted(resource'.status)
         /\ resource.spec = "RunCancelled" => isCompleted(resource'.status)
         /\ resource'.spec = resource.spec
         /\ \/ resource.spec # "RunCancelled" /\ UNCHANGED <<resource, task, skipResourceUpdate>>
            \/ /\ resource.spec = "RunCancelled" /\ task' = task /\ task.phase = "absent"
               /\ UNCHANGED skipResourceUpdate
            \/ /\ resource.spec = "RunCancelled" /\ task.phase # "absent"
               /\ task'.phase = "deleting" /\ task'.results = task.results
               /\ ~skipResourceUpdate'
<1> USE DEF ValuesOK, isCompleted
<1>1. /\ UNCHANGED <<run, runEvt, ctl, tmr, asg, pipeline, said, fired, crashes>>
      /\ rec = "update" /\ rec' = "propagate"
  BY DEF OnUpdate
<1>2. CASE resource.spec # "RunCancelled"
  BY <1>1, <1>2 DEF OnUpdate
<1>3. CASE resource.spec = "RunCancelled"
  <2>1. resource' = [resource EXCEPT !.status = WithCond(resource.status, "False")]
    BY <1>3 DEF OnUpdate
  <2>2. resource'.status = WithCond(resource.status, "False") /\ resource'.spec = resource.spec
    BY <2>1
  <2>3. resource'.status.results = resource.status.results /\ isCompleted(resource'.status)
    BY <2>2 DEF WithCond
  <2>4. task' = Deleted(task)
        /\ skipResourceUpdate' = IF task.phase = "absent" THEN skipResourceUpdate ELSE FALSE
    BY <1>3 DEF OnUpdate
  <2>5. CASE task.phase = "absent"
    BY <1>1, <1>3, <2>2, <2>3, <2>4, <2>5 DEF Deleted
  <2>6. CASE task.phase # "absent"
    <3>1. task'.phase = "deleting" /\ task'.results = task.results
      BY <2>4, <2>6 DEF Deleted, Phases
    <3>2. QED
      BY <1>1, <1>3, <2>2, <2>3, <2>4, <2>6, <3>1
  <2>7. QED
    BY <2>5, <2>6
<1>4. QED
  BY <1>2, <1>3

(* The end of the run is written to the server and to the copy.            *)
LEMMA ReportDoes ==
  ASSUME ValuesOK, UpdateRunStatusCompleted
  PROVE  /\ UNCHANGED <<task, rec, tmr, asg, pipeline, said, fired, crashes>>
         /\ ctl = "waiting" /\ ctl' = "marked" /\ rec # "idle" /\ hasResults(resource.status)
         /\ ~skipResourceUpdate' /\ (runEvt => runEvt')
         /\ run'.phase = run.phase /\ run'.spec = run.spec /\ resource'.spec = resource.spec
         /\ run'.status = resource'.status /\ isCompleted(run'.status)
         /\ run'.status.results = resource.status.results
  BY StatusWith DEF UpdateRunStatusCompleted, PatchStatus, ValuesOK, Conds, isCompleted

(* The copy is written back, if nothing has happened to the run since.     *)
LEMMA PropagateDoes ==
  ASSUME ValuesOK, Propagate
  PROVE  /\ UNCHANGED <<task, resource, skipResourceUpdate, tmr, asg, pipeline, said, fired,
                        crashes>>
         /\ rec \in {"start", "propagate"} /\ rec' = "idle"
         /\ ~(ctl = "waiting" /\ hasResults(resource.status))
         /\ ctl' = IF ctl = "marked" THEN "completed" ELSE ctl
         /\ \/ (skipResourceUpdate \/ runEvt) /\ run' = run /\ runEvt' = runEvt
            \/ /\ ~skipResourceUpdate /\ ~runEvt
               /\ run' = [run EXCEPT !.status = resource.status]
  BY DEF Propagate, PatchStatus, AtWaitState, AtHand

(* The timer job takes a copy of the run and gives it its end.             *)
LEMMA TimeoutReadDoes ==
  ASSUME ValuesOK, TimeoutRead
  PROVE  /\ UNCHANGED <<run, task, runEvt, ctl, resource, skipResourceUpdate, rec, asg, pipeline,
                        said, fired, crashes>>
         /\ tmr.pc = "read"
         /\ \/ run.phase = "absent" /\ tmr'.pc = "off" /\ ~hasResults(tmr'.status)
            \/ /\ run.phase # "absent" /\ tmr'.pc = "patch"
               /\ tmr'.status.cond = "False" /\ tmr'.status.results = run.status.results
  BY StatusWith
     DEF TimeoutRead, instance, ValuesOK, NoTmr, NoStatus, Conds, hasResults

(* It writes that copy to the server and to the process variable.          *)
LEMMA TimeoutPatchDoes ==
  ASSUME ValuesOK, TimeoutPatch
  PROVE  /\ UNCHANGED <<task, ctl, skipResourceUpdate, rec, asg, pipeline, said, fired, crashes>>
         /\ tmr.pc = "patch" /\ tmr'.pc = "off" /\ ~hasResults(tmr'.status)
         /\ \/ run.phase = "absent" /\ UNCHANGED <<run, runEvt, resource>>
            \/ /\ run.phase # "absent"
               /\ run' = [run EXCEPT !.status = tmr.status]
               /\ (tmr.status = run.status \/ runEvt') /\ (runEvt => runEvt')
               /\ resource' = IF ctl = "none" THEN resource
                              ELSE [resource EXCEPT !.status = tmr.status]
<1>1. /\ UNCHANGED <<task, ctl, skipResourceUpdate, rec, asg, pipeline, said, fired, crashes>>
      /\ tmr.pc = "patch" /\ tmr'.pc = "off" /\ ~hasResults(tmr'.status)
  BY DEF TimeoutPatch, NoTmr, NoStatus, hasResults
<1>2. QED
  BY <1>1 DEF TimeoutPatch, PatchStatus

(* A copy of the run is given the results.                                 *)
LEMMA ReadRunDoes ==
  ASSUME ValuesOK, AllSourced, ReadRun
  PROVE  /\ UNCHANGED <<run, task, runEvt, ctl, resource, skipResourceUpdate, rec, tmr, pipeline,
                        said, fired, crashes>>
         /\ asg.pc = "read"
         /\ \/ run.phase = "absent" /\ asg'.pc = "done"
            \/ run.phase # "absent" /\ asg'.pc = "patch" /\ hasResults(asg'.status)
<1> USE DEF ReadRun, ValuesOK, hasResults
<1>1. WithResults(run.status, asg.decision).results = asg.decision /\ asg.decision # "none"
  BY DEF AllSourced, WithResults, Decisions
<1>2. asg'.pc = "patch" => asg'.status = WithResults(run.status, asg.decision)
  OBVIOUS
<1>3. QED
  BY <1>1, <1>2 DEF instance

(* That copy is written to the server.                                     *)
LEMMA CopyResultsDoes ==
  ASSUME ValuesOK, UpdateRunResultsCompleted
  PROVE  /\ UNCHANGED <<task, ctl, resource, skipResourceUpdate, rec, tmr, pipeline, said, fired,
                        crashes>>
         /\ asg.pc = "patch" /\ asg'.pc = "done"
         /\ \/ run.phase = "absent" /\ UNCHANGED <<run, runEvt>>
            \/ /\ run.phase # "absent"
               /\ run' = [run EXCEPT !.status = asg.status]
               /\ (asg.status = run.status \/ runEvt') /\ (runEvt => runEvt')
  BY DEF UpdateRunResultsCompleted, PatchStatus, ValuesOK, instance

(* A restart: an instance that comes back, or none.                        *)
LEMMA CrashDoes ==
  ASSUME ValuesOK, FlagsOK, Crash
  PROVE  /\ UNCHANGED <<run, task, pipeline, said, fired>>
         /\ rec' = "idle" /\ (run.phase # "absent" => runEvt') /\ crashes' = crashes + 1
         /\ tmr'.status = NoStatus /\ tmr'.pc \in {"off", "armed"}
         /\ tmr.pc = "off" \/ ctl' = "none" => tmr'.pc = "off"
         /\ ctl' = disk'.ctl /\ resource' = disk'.resource
         /\ \/ ~Durable /\ ctl' = "none" /\ resource' = NoCopy
            \/ /\ Durable /\ disk' = disk /\ ctl' = disk.ctl /\ resource' = disk.resource
               /\ skipResourceUpdate' = disk.skipResourceUpdate
            \/ /\ Durable /\ AtWaitState /\ resource' = resource
               /\ ctl' = IF ctl = "marked" THEN "completed" ELSE ctl
               /\ skipResourceUpdate' = skipResourceUpdate
         /\ asg'.pc = IF ~Durable THEN "none"
                      ELSE IF asg.pc \in {"store", "label", "read", "patch"} THEN "asking"
                           ELSE asg.pc
<1>1. /\ UNCHANGED <<run, task, pipeline, said, fired>>
      /\ rec' = "idle" /\ (run.phase # "absent" => runEvt') /\ crashes' = crashes + 1
  BY DEF Crash
<1>2. asg'.pc = IF ~Durable THEN "none"
                ELSE IF asg.pc \in {"store", "label", "read", "patch"} THEN "asking"
                     ELSE asg.pc
  BY DEF Crash, NoAsg
<1>3. /\ ctl' = disk'.ctl /\ resource' = disk'.resource
      /\ tmr'.status = NoStatus /\ tmr'.pc \in {"off", "armed"}
  BY CrashRestores
<1>4. tmr.pc = "off" \/ ctl' = "none" => tmr'.pc = "off"
  BY DEF Crash, ComesBack, NoTmr
<1>5. \/ ~Durable /\ disk' = NotSaved
      \/ Durable /\ disk' = disk
      \/ Durable /\ AtWaitState /\ disk' = AtHand
  BY CrashRestores
<1>6. skipResourceUpdate' = disk'.skipResourceUpdate
  BY CrashRestores
<1>7. CASE ~Durable /\ disk' = NotSaved
  BY <1>1, <1>2, <1>3, <1>4, <1>7 DEF NotSaved
<1>8. CASE Durable /\ disk' = disk
  <2>1. ctl' = disk.ctl /\ resource' = disk.resource
    BY <1>3, <1>8
  <2>2. skipResourceUpdate' = disk.skipResourceUpdate
    BY <1>6, <1>8, Zenon
  <2>3. QED
    BY <1>1, <1>2, <1>3, <1>4, <1>8, <2>1, <2>2, Zenon
<1>9. CASE Durable /\ AtWaitState /\ disk' = AtHand
  <2>1. ctl' = (IF ctl = "marked" THEN "completed" ELSE ctl) /\ resource' = resource
    BY <1>3, <1>9 DEF AtHand
  <2>2. AtHand.skipResourceUpdate = skipResourceUpdate
    BY Zenon DEF AtHand
  <2>3. skipResourceUpdate' = skipResourceUpdate
    BY <1>6, <1>9, <2>2, Zenon
  <2>4. QED
    BY <1>1, <1>2, <1>3, <1>4, <1>9, <2>1, <2>3, Zenon
<1>10. QED
  BY <1>5, <1>7, <1>8, <1>9, Zenon

-----------------------------------------------------------------------------
(* Every step keeps Mirror.                                                *)
LEMMA MirrorStep ==
  ValuesOK /\ FlagsOK /\ DiskOK /\ AllSourced /\ Mirror /\ OnDisk /\ [Next]_vars => Mirror'
<1> SUFFICES ASSUME ValuesOK, FlagsOK, DiskOK, AllSourced, Mirror, OnDisk, [Next]_vars
             PROVE  Mirror'
  OBVIOUS
<1> USE InitialValues, DeletedTask
        DEF ValuesOK, FlagsOK, AllSourced, Sourced, Mirror, Alive, isCompleted, hasResults
<1>1. CASE CreateApprovalTask
  BY <1>1, CreateDoes
<1>2. CASE DropEvent
  BY <1>2 DEF DropEvent, instance
<1>3. CASE ReceiveUpdate
  BY <1>3 DEF ReceiveUpdate, instance
<1>4. CASE OnUpdate
  BY <1>4, OnUpdateDoes
<1>5. CASE UpdateRunStatusCompleted
  BY <1>5, ReportDoes
<1>6. CASE Propagate
  BY <1>6, PropagateDoes
<1>7. CASE OnDelete
  BY <1>7 DEF OnDelete, instance, NoInstance, NoCopy, NoStatus, Deleted, NoTmr
<1>8. CASE Expire
  BY <1>8 DEF Expire, instance, NoTmr, NoStatus
<1>9. CASE TimeoutDelete
  BY <1>9 DEF TimeoutDelete, instance, Deleted
<1>10. CASE TimeoutRead
  BY <1>10, TimeoutReadDoes
<1>11. CASE TimeoutPatch
  <2>3. CASE run.phase = "absent" /\ UNCHANGED <<run, runEvt, resource>>
    BY <1>11, <2>3, TimeoutPatchDoes
  <2>4. CASE run' = [run EXCEPT !.status = tmr.status] /\ run.phase # "absent"
    <3>1. CASE tmr.status = run.status
      BY <1>11, <2>4, <3>1, TimeoutPatchDoes
    <3>2. CASE tmr.status # run.status
      BY <1>11, <2>4, <3>2, TimeoutPatchDoes
    <3>3. QED
      BY <3>1, <3>2
  <2>5. QED
    BY <1>11, <2>3, <2>4, TimeoutPatchDoes
<1>12. CASE InitializeApprovalTask
  BY <1>12 DEF InitializeApprovalTask, instance, NoAsg, NoStatus
<1>13. CASE Approver
  BY <1>13 DEF Approver, instance, Decide
<1>14. CASE UpdateApprovalTaskStatusCompleted
  BY <1>14 DEF UpdateApprovalTaskStatusCompleted, instance
<1>15. CASE LabelDecision
  BY <1>15 DEF LabelDecision, instance
<1>16. CASE ReadRun
  BY <1>16, ReadRunDoes
<1>17. CASE UpdateRunResultsCompleted
  <2>3. CASE run.phase = "absent" /\ UNCHANGED <<run, runEvt>>
    BY <1>17, <2>3, CopyResultsDoes
  <2>4. CASE run' = [run EXCEPT !.status = asg.status] /\ run.phase # "absent"
    <3>1. CASE asg.status = run.status
      BY <1>17, <2>4, <3>1, CopyResultsDoes
    <3>2. CASE asg.status # run.status
      BY <1>17, <2>4, <3>2, CopyResultsDoes
    <3>3. QED
      BY <3>1, <3>2
  <2>5. QED
    BY <1>17, <2>3, <2>4, CopyResultsDoes
<1>18. CASE DeleteApprovalTask
  BY <1>18 DEF DeleteApprovalTask, instance, NoTask, NoAsg, NoStatus
<1>19. CASE Observe
  BY <1>19 DEF Observe, instance
<1>20. CASE RequestCancel
  BY <1>20 DEF RequestCancel, instance
<1>21. CASE RequestDelete
  BY <1>21 DEF RequestDelete, instance
<1>22. CASE Crash
  <2>1. /\ UNCHANGED <<run, task, pipeline, said, fired>> /\ rec' = "idle" /\ tmr'.pc # "patch"
        /\ run.phase # "absent" => runEvt'
    BY <1>22, CrashDoes
  <2>2. ctl' # "marked" /\ (ctl' # "none" => ctl # "none")
    BY <1>22, CrashDoes DEF OnDisk, DiskOK, SavedInstances
  <2>3. asg'.pc # "patch"
    BY <1>22, CrashDoes
  <2>4. QED
    BY <2>1, <2>2, <2>3
<1>23. CASE UNCHANGED vars
  BY <1>23 DEF vars, instance
<1>24. QED
  BY <1>1, <1>2, <1>3, <1>4, <1>5, <1>6, <1>7, <1>8, <1>9, <1>10,
     <1>11, <1>12, <1>13, <1>14, <1>15, <1>16, <1>17, <1>18, <1>19,
     <1>20, <1>21, <1>22, <1>23
     DEF Next, Reconciler, Timer, Assignment, Owner
(* And OnDisk.                                                             *)
LEMMA OnDiskStep ==
  ASSUME ValuesOK, FlagsOK, DiskOK, Mirror, OnDisk, [Next]_vars
  PROVE  OnDisk'
<1> USE DEF ValuesOK, FlagsOK, DiskOK, SavedInstances, Mirror, OnDisk, AtWaitState
<1>1. CASE Propagate
  <2>1. /\ rec \in {"start", "propagate"} /\ ctl' = AtHand.ctl /\ AtHand.resource = resource
        /\ disk' = (IF Durable THEN AtHand ELSE NotSaved) /\ resource' = resource
    BY <1>1 DEF Propagate, AtHand
  <2>2. AtHand.ctl # "none"
    BY <2>1 DEF AtHand
  <2>3. NotSaved.ctl = "none" /\ ~hasResults(NotSaved.resource.status)
    BY DEF NotSaved, NoCopy, NoStatus, hasResults
  <2>4. QED
    BY <2>1, <2>2, <2>3
<1>2. CASE OnDelete
  BY <1>2 DEF OnDelete, NoInstance, NotSaved, NoCopy, NoStatus, hasResults
<1>3. CASE TimeoutPatch
  <2>1. \/ disk' = disk
        \/ disk.ctl # "none" /\ disk' = [disk EXCEPT !.resource.status = tmr.status]
    BY <1>3 DEF TimeoutPatch
  <2>2. disk'.ctl = disk.ctl /\ (disk.ctl = "none" => disk' = disk)
    BY <2>1
  <2>3. UNCHANGED <<ctl, rec>>
    BY <1>3 DEF TimeoutPatch
  <2>4. QED
    BY <2>2, <2>3
<1>4. CASE Crash
  <2>1. ctl' = disk'.ctl /\ rec' = "idle"
    BY <1>4, CrashDoes
  <2>2. disk' \in {disk, NotSaved, AtHand} /\ (Durable \/ disk' = NotSaved)
    BY <1>4, CrashRestores
  <2>3. NotSaved.ctl = "none" /\ ~hasResults(NotSaved.resource.status)
    BY DEF NotSaved, NoCopy, NoStatus, hasResults
  <2>4. disk' = AtHand =>
          (AtWaitState /\ AtHand.ctl # "none") \/ disk' = disk \/ disk' = NotSaved
    BY <1>4, CrashRestores DEF AtHand
  <2>5. disk'.ctl = "none" => ~hasResults(disk'.resource.status)
    BY <2>2, <2>3, <2>4
  <2>6. QED
    BY <2>1, <2>2, <2>3, <2>5
<1>5. CASE UNCHANGED disk /\ ctl' = ctl /\ (rec = "start" => rec' = "start")
  BY <1>5
<1>6. CASE CreateApprovalTask
  BY <1>6, CreateDoes
<1>7. CASE UpdateRunStatusCompleted
  BY <1>7 DEF UpdateRunStatusCompleted
<1>8. QED
  BY <1>1, <1>2, <1>3, <1>4, <1>5, <1>6, <1>7
     DEF Next, vars, instance, Reconciler, Timer, Assignment, Approver, Owner, DropEvent,
         ReceiveUpdate, OnUpdate, Expire, TimeoutDelete, TimeoutRead, InitializeApprovalTask,
         Decide, UpdateApprovalTaskStatusCompleted, LabelDecision, ReadRun,
         UpdateRunResultsCompleted, DeleteApprovalTask, Observe, RequestCancel, RequestDelete
-----------------------------------------------------------------------------
(* What holds while the run is there and nothing is lost.                  *)

(* Without an instance there is no timer job, and no task that is half     *)
(* gone, or gone after it was there.                                       *)
Unmade ==
  ctl = "none" =>
    /\ tmr.pc = "off" /\ task.phase # "deleting"
    /\ task.phase = "absent" => asg.pc = "none" /\ run.status = NoStatus

Reported == ctl \in {"marked", "completed"} => isCompleted(run.status)

(* Nobody has an answer before it is on the ApprovalTask.                  *)
Unanswered ==
  Working \/ (asg.pc = "none" /\ task.phase = "live") =>
    /\ ~hasResults(run.status) /\ ~hasResults(resource.status) /\ ~hasResults(tmr.status)
    /\ ctl \notin {"marked", "completed"}

Recorded ==
  task.phase = "live" =>
    /\ asg.pc = "none" => task.results = "none"
    /\ asg.pc \in {"label", "read", "patch", "done"} => task.results # "none"
    /\ asg.pc = "done" => hasResults(run.status) \/ isCompleted(run.status)

(* The task goes by the timeout or a cancel only.                          *)
Untouched ==
  ~fired => /\ rec = "start" => task.phase = "live"
            /\ run.spec = "none" /\ ctl # "none" => task.phase = "live"

(* Whoever deleted the task still owes the run its end, unless the         *)
(* approvers' decision arrived: the timer job, or the reconciler.          *)
Owed ==
  ctl # "none" /\ task.phase # "live" /\ ~isCompleted(run.status) =>
    \/ tmr.pc \in {"read", "patch"}
    \/ hasResults(run.status)
    \/ /\ run.spec = "RunCancelled" /\ ~skipResourceUpdate
       /\ \/ runEvt
          \/ rec = "update" /\ resource.spec = "RunCancelled"
          \/ rec = "propagate" /\ isCompleted(resource.status)

Sound == Unmade /\ Reported /\ Unanswered /\ Recorded /\ Untouched /\ Owed

(* Nor has the saved instance an answer before it is on the ApprovalTask.  *)
SavedUnanswered ==
  Working \/ (asg.pc = "none" /\ task.phase = "live") => ~hasResults(disk.resource.status)

(* What is lost stays lost, and a run that is going does not come back.    *)
LEMMA StallStays ==
  ASSUME ValuesOK, FlagsOK, AllSourced, Mirror, [Next]_vars, Alive', ~Stalled'
  PROVE  Alive /\ ~Stalled
<1> USE InitialValues, DeletedTask
        DEF ValuesOK, FlagsOK, Mirror, Alive, Stalled
<1>1. CASE CreateApprovalTask
  BY <1>1, CreateDoes
<1>2. CASE DropEvent
  BY <1>2 DEF DropEvent, instance
<1>3. CASE ReceiveUpdate
  BY <1>3 DEF ReceiveUpdate, instance
<1>4. CASE OnUpdate
  BY <1>4, OnUpdateDoes
<1>5. CASE UpdateRunStatusCompleted
  BY <1>5, ReportDoes
<1>6. CASE Propagate
  BY <1>6, PropagateDoes
<1>7. CASE OnDelete
  BY <1>7 DEF OnDelete, instance, NoInstance, NoCopy, NoStatus, Deleted, NoTmr
<1>8. CASE Expire
  BY <1>8 DEF Expire, instance, NoTmr, NoStatus
<1>9. CASE TimeoutDelete
  BY <1>9 DEF TimeoutDelete, instance, Deleted
<1>10. CASE TimeoutRead
  BY <1>10, TimeoutReadDoes
<1>11. CASE TimeoutPatch
  BY <1>11, TimeoutPatchDoes
<1>12. CASE InitializeApprovalTask
  BY <1>12 DEF InitializeApprovalTask, instance, NoAsg, NoStatus
<1>13. CASE Approver
  BY <1>13 DEF Approver, instance, Decide
<1>14. CASE UpdateApprovalTaskStatusCompleted
  <2>1. task' = task \/ task'.results # "none"
    BY <1>14 DEF UpdateApprovalTaskStatusCompleted, AllSourced, Decisions
  <2>2. UNCHANGED <<run, fired, crashes>>
    BY <1>14 DEF UpdateApprovalTaskStatusCompleted
  <2>3. QED
    BY <2>1, <2>2
<1>15. CASE LabelDecision
  BY <1>15 DEF LabelDecision, instance
<1>16. CASE ReadRun
  BY <1>16, ReadRunDoes
<1>17. CASE UpdateRunResultsCompleted
  BY <1>17, CopyResultsDoes
<1>18. CASE DeleteApprovalTask
  <2>1. task.phase = "deleting" /\ UNCHANGED <<run, crashes>> /\ fired' = fired
    BY <1>18 DEF DeleteApprovalTask
  <2>2. fired \/ run.spec = "RunCancelled"
    BY <2>1 DEF SpecStatus
  <2>3. fired => ~(crashes > 0)
    BY <2>1
  <2>4. run.spec = "RunCancelled" => ~(crashes > 0) \/ (Durable /\ ~(crashes > 1))
    BY <2>1
  <2>5. QED
    BY <2>1, <2>2, <2>3, <2>4
<1>19. CASE Observe
  BY <1>19 DEF Observe, instance
<1>20. CASE RequestCancel
  BY <1>20 DEF RequestCancel, instance
<1>21. CASE RequestDelete
  BY <1>21 DEF RequestDelete, instance
<1>22. CASE Crash
  BY <1>22, CrashDoes
<1>23. CASE UNCHANGED vars
  BY <1>23 DEF vars, instance
<1>24. QED
  BY <1>1, <1>2, <1>3, <1>4, <1>5, <1>6, <1>7, <1>8, <1>9, <1>10,
     <1>11, <1>12, <1>13, <1>14, <1>15, <1>16, <1>17, <1>18, <1>19,
     <1>20, <1>21, <1>22, <1>23
     DEF Next, Reconciler, Timer, Assignment, Owner

(* Restarts that lose nothing.                                             *)
LEMMA CrashSpares ==
  ASSUME ValuesOK, FlagsOK, Crash, ~Stalled'
  PROVE  /\ ~fired /\ fired' = fired /\ crashes' > 0
         /\ ~Durable => run.spec = "none" /\ task.results = "none"
         /\ run.spec = "RunCancelled" => crashes = 0
<1>1. UNCHANGED <<run, task>>
  BY CrashDoes
<1>2. fired' = fired
  BY CrashDoes
<1>3. crashes' > 0 /\ (crashes' > 1 \/ crashes = 0)
  <2>1. crashes \in Nat
    BY ConstantsAssumption DEF ValuesOK
  <2>2. crashes' = crashes + 1
    BY CrashDoes
  <2>3. QED
    BY <2>1, <2>2
<1>4. /\ ~fired' /\ (Durable \/ (run'.spec # "RunCancelled" /\ task'.results = "none"))
      /\ run'.spec = "RunCancelled" => ~(crashes' > 1)
  BY <1>3 DEF Stalled
<1>5. run.spec \in SpecStatus
  BY DEF ValuesOK
<1>6. QED
  BY <1>1, <1>2, <1>3, <1>4, <1>5 DEF SpecStatus

(* Every step keeps it, while nothing is lost.                             *)
LEMMA SoundStep ==
  ASSUME ValuesOK, FlagsOK, DiskOK, AllSourced, Mirror, OnDisk, Reports, Alive, ~Stalled,
         Sound, SavedUnanswered, [Next]_vars, Alive', ~Stalled'
  PROVE  Sound'
<1> USE InitialValues, DeletedTask
        DEF ValuesOK, FlagsOK, AllSourced, Sourced, Mirror, Sound, Unmade, Reported, Unanswered,
            Recorded, Untouched, Owed, Working, Alive, Stalled, isCompleted, hasResults
<1>1. CASE CreateApprovalTask
  BY <1>1, CreateDoes DEF Phases, NoStatus
<1>2. CASE DropEvent
  BY <1>2 DEF DropEvent, instance
<1>3. CASE ReceiveUpdate
  BY <1>3 DEF ReceiveUpdate, instance
<1>4. CASE OnUpdate
  BY <1>4, OnUpdateDoes
<1>5. CASE UpdateRunStatusCompleted
  BY <1>5, ReportDoes
<1>6. CASE Propagate
  BY <1>6, PropagateDoes
<1>7. CASE OnDelete
  BY <1>7 DEF OnDelete, instance, NoInstance, NoCopy, NoStatus, Deleted, NoTmr
<1>8. CASE Expire
  BY <1>8 DEF Expire, instance, NoTmr, NoStatus
<1>9. CASE TimeoutDelete
  BY <1>9 DEF TimeoutDelete, instance, Deleted
<1>10. CASE TimeoutRead
  BY <1>10, TimeoutReadDoes
<1>11. CASE TimeoutPatch
  BY <1>11, TimeoutPatchDoes
<1>12. CASE InitializeApprovalTask
  BY <1>12 DEF InitializeApprovalTask, instance, NoAsg, NoStatus
<1>13. CASE Approver
  BY <1>13 DEF Approver, instance, Decide
<1>14. CASE UpdateApprovalTaskStatusCompleted
  BY <1>14 DEF UpdateApprovalTaskStatusCompleted, instance, Decisions
<1>15. CASE LabelDecision
  BY <1>15 DEF LabelDecision, instance
<1>16. CASE ReadRun
  BY <1>16, ReadRunDoes
<1>17. CASE UpdateRunResultsCompleted
  BY <1>17, CopyResultsDoes
<1>18. CASE DeleteApprovalTask
  BY <1>18 DEF DeleteApprovalTask, instance, NoTask, NoAsg, NoStatus
<1>19. CASE Observe
  BY <1>19 DEF Observe, instance
<1>20. CASE RequestCancel
  BY <1>20 DEF RequestCancel, instance
<1>21. CASE RequestDelete
  BY <1>21 DEF RequestDelete, instance
<1>22. CASE Crash
  <2>1. /\ ~fired /\ fired' = fired /\ crashes' > 0
        /\ run.spec = "RunCancelled" => crashes = 0
    BY <1>22, CrashSpares
  <2>2. tmr.pc \notin {"read", "patch"}
    BY <2>1
  <2>3. CASE ~Durable
    <3>1. run.spec = "none" /\ task.results = "none"
      BY <1>22, <2>3, CrashSpares
    <3>2. QED
      BY <1>22, <2>1, <2>2, <2>3, <3>1, CrashDoes DEF NoCopy, NoStatus, Phases
  <2>4. CASE /\ Durable /\ ctl' = disk.ctl /\ resource' = disk.resource
             /\ skipResourceUpdate' = disk.skipResourceUpdate
    <3>1. /\ UNCHANGED <<run, task>> /\ rec' = "idle" /\ runEvt'
          /\ ~hasResults(tmr'.status) /\ (ctl' = "none" => tmr'.pc = "off")
          /\ asg'.pc = IF asg.pc \in {"store", "label", "read", "patch"} THEN "asking"
                       ELSE asg.pc
      BY <1>22, <2>4, CrashDoes DEF NoStatus
    <3>2. ctl' = "none" => ctl = "none" \/ rec = "start"
      BY <2>4 DEF OnDisk
    <3>3. Unmade'
      BY <2>1, <3>1, <3>2
    <3>4. Reported' /\ Unanswered'
      <4>1. disk.ctl = "completed" => ctl = "completed"
        BY DEF OnDisk
      <4>2. ctl' # "marked" /\ (ctl' = "completed" => ctl = "completed")
        BY <2>4, <4>1 DEF DiskOK, SavedInstances
      <4>3. Reported'
        BY <3>1, <4>2
      <4>4. (Working \/ (asg.pc = "none" /\ task.phase = "live"))'
              => Working \/ (asg.pc = "none" /\ task.phase = "live")
        BY <3>1
      <4>5. Unanswered'
        BY <2>4, <3>1, <4>2, <4>4 DEF SavedUnanswered
      <4>6. QED
        BY <4>3, <4>5
    <3>5. Recorded' /\ Untouched'
      BY <2>1, <2>4, <3>1 DEF OnDisk
    <3>6. ASSUME ctl' # "none", task.phase # "live" PROVE Owed'
      <4>1. run.spec = "RunCancelled"
        BY <2>1, <2>4, <3>6 DEF OnDisk, SpecStatus
      <4>2. ~skipResourceUpdate'
        BY <2>1, <2>4, <3>6, <4>1 DEF Reports
      <4>3. QED
        BY <3>1, <4>1, <4>2
    <3>7. QED
      BY <3>1, <3>3, <3>4, <3>5, <3>6
  <2>5. CASE /\ Durable /\ AtWaitState /\ resource' = resource
             /\ ctl' = IF ctl = "marked" THEN "completed" ELSE ctl
             /\ skipResourceUpdate' = skipResourceUpdate
    <3>1. /\ UNCHANGED <<run, task>> /\ rec' = "idle" /\ runEvt'
          /\ ~hasResults(tmr'.status) /\ (ctl' = "none" => tmr'.pc = "off")
          /\ asg'.pc = IF asg.pc \in {"store", "label", "read", "patch"} THEN "asking"
                       ELSE asg.pc
      BY <1>22, <2>5, CrashDoes DEF NoStatus
    <3>2. QED
      BY <2>1, <2>2, <2>5, <3>1
  <2>6. QED
    BY <1>22, <2>3, <2>4, <2>5, CrashDoes
<1>23. CASE UNCHANGED vars
  BY <1>23 DEF vars, instance
<1>24. QED
  BY <1>1, <1>2, <1>3, <1>4, <1>5, <1>6, <1>7, <1>8, <1>9, <1>10,
     <1>11, <1>12, <1>13, <1>14, <1>15, <1>16, <1>17, <1>18, <1>19,
     <1>20, <1>21, <1>22, <1>23
     DEF Next, Reconciler, Timer, Assignment, Owner
(* The same of the saved instance.                                         *)
LEMMA SavedUnansweredStep ==
  ASSUME ValuesOK, FlagsOK, DiskOK, AllSourced, Mirror, OnDisk, Alive, ~Stalled, Sound,
         SavedUnanswered, [Next]_vars, Alive', ~Stalled'
  PROVE  SavedUnanswered'
<1> DEFINE Due == Working \/ (asg.pc = "none" /\ task.phase = "live")
<1>1. Due' => Due \/ (disk.ctl = "none" /\ rec = "idle") \/ (Crash /\ ~Durable)
  <2> USE DEF ValuesOK, Working
  <2>1. CASE UNCHANGED <<task, asg>>
    BY <2>1
  <2>2. CASE CreateApprovalTask
    BY <2>2 DEF CreateApprovalTask, OnDisk
  <2>3. CASE OnUpdate \/ OnDelete \/ TimeoutDelete
    BY <2>3 DEF OnUpdate, OnDelete, TimeoutDelete, Deleted
  <2>4. CASE InitializeApprovalTask
    BY <2>4 DEF InitializeApprovalTask, NoAsg
  <2>5. CASE Approver
    BY <2>5 DEF Approver, Decide
  <2>6. CASE UpdateApprovalTaskStatusCompleted \/ LabelDecision
    BY <2>6 DEF UpdateApprovalTaskStatusCompleted, LabelDecision
  <2>7. CASE ReadRun \/ UpdateRunResultsCompleted
    BY <2>7 DEF ReadRun, UpdateRunResultsCompleted
  <2>8. CASE DeleteApprovalTask
    BY <2>8 DEF DeleteApprovalTask, NoTask, NoAsg
  <2>9. CASE Crash
    BY <2>9, CrashDoes
  <2>10. QED
    BY <2>1, <2>2, <2>3, <2>4, <2>5, <2>6, <2>7, <2>8, <2>9
       DEF Next, vars, Reconciler, Timer, Assignment, Owner, DropEvent, ReceiveUpdate,
           UpdateRunStatusCompleted, Propagate, Expire, TimeoutRead, TimeoutPatch, Observe,
           RequestCancel, RequestDelete
<1>2. CASE disk' = NotSaved
  BY <1>2 DEF NotSaved, NoCopy, NoStatus, hasResults, SavedUnanswered
<1>3. CASE disk' = disk /\ disk # NotSaved
  <2>1. ~(Crash /\ ~Durable)
    BY <1>3, CrashRestores
  <2>2. QED
    BY <1>1, <1>3, <2>1 DEF SavedUnanswered, OnDisk
<1>4. CASE AtWaitState /\ disk' = AtHand
  <2>1. disk'.resource = resource
    BY <1>4 DEF AtHand
  <2>2. rec # "idle"
    BY <1>4 DEF AtWaitState
  <2>3. Due => ~hasResults(resource.status)
    BY DEF Sound, Unanswered
  <2>4. CASE Crash /\ ~Durable
    <3>1. disk' = NotSaved
      BY <2>4, CrashRestores
    <3>2. QED
      BY <1>2, <3>1
  <2>5. CASE ~(Crash /\ ~Durable)
    BY <1>1, <2>1, <2>2, <2>3, <2>5 DEF SavedUnanswered
  <2>6. QED
    BY <2>4, <2>5
<1>5. CASE TimeoutPatch /\ disk' = [disk EXCEPT !.resource.status = tmr.status]
  <2>1. disk'.resource.status = tmr.status /\ (Due' => Due)
    BY <1>5 DEF TimeoutPatch, DiskOK, SavedInstances, Working
  <2>2. QED
    BY <2>1 DEF Sound, Unanswered, SavedUnanswered
<1>6. QED
  BY <1>2, <1>3, <1>4, <1>5, DiskMoves
-----------------------------------------------------------------------------
(* What holds while nothing restarts: there is one ApprovalTask, and a run *)
(* has no end while the approvers are being asked.                         *)
Fresh ==
  crashes = 0 =>
    /\ Alive /\ ctl = "none" => task.phase = "absent" /\ asg.pc = "none"
    /\ ctl = "none" => task.phase # "live"
    /\ asg.pc = "asking" => task.phase # "absent"
    /\ asg.pc \in {"none", "asking"} /\ task.phase = "live" =>
         /\ ~isCompleted(run.status) /\ ~isCompleted(resource.status)
         /\ ~hasResults(run.status) /\ ~hasResults(resource.status)
         /\ tmr.pc \in {"off", "armed", "delete"}

(* Every step keeps Fresh.                                                 *)
LEMMA FreshStep ==
  ASSUME ValuesOK, FlagsOK, AllSourced, Mirror, Alive => Stalled \/ Sound, Fresh, [Next]_vars
  PROVE  Fresh'
<1> SUFFICES ASSUME crashes' = 0 PROVE Fresh'
  BY DEF Fresh
<1> USE InitialValues, DeletedTask
        DEF ValuesOK, FlagsOK, Mirror, Sound, Unmade, Fresh, Alive, Stalled, isCompleted, hasResults
<1>1. CASE CreateApprovalTask
  BY <1>1, CreateDoes DEF Phases, NoStatus
<1>2. CASE DropEvent
  BY <1>2 DEF DropEvent, instance
<1>3. CASE ReceiveUpdate
  BY <1>3 DEF ReceiveUpdate, instance
<1>4. CASE OnUpdate
  BY <1>4, OnUpdateDoes
<1>5. CASE UpdateRunStatusCompleted
  BY <1>5, ReportDoes
<1>6. CASE Propagate
  BY <1>6, PropagateDoes
<1>7. CASE OnDelete
  BY <1>7 DEF OnDelete, instance, NoInstance, NoCopy, NoStatus, Deleted, NoTmr
<1>8. CASE Expire
  BY <1>8 DEF Expire, instance, NoTmr, NoStatus
<1>9. CASE TimeoutDelete
  BY <1>9 DEF TimeoutDelete, instance, Deleted
<1>10. CASE TimeoutRead
  BY <1>10, TimeoutReadDoes
<1>11. CASE TimeoutPatch
  BY <1>11, TimeoutPatchDoes
<1>12. CASE InitializeApprovalTask
  BY <1>12 DEF InitializeApprovalTask, instance, NoAsg, NoStatus
<1>13. CASE Approver
  BY <1>13 DEF Approver, instance, Decide
<1>14. CASE UpdateApprovalTaskStatusCompleted
  BY <1>14 DEF UpdateApprovalTaskStatusCompleted, instance
<1>15. CASE LabelDecision
  BY <1>15 DEF LabelDecision, instance
<1>16. CASE ReadRun
  BY <1>16, ReadRunDoes
<1>17. CASE UpdateRunResultsCompleted
  BY <1>17, CopyResultsDoes
<1>18. CASE DeleteApprovalTask
  BY <1>18 DEF DeleteApprovalTask, instance, NoTask, NoAsg, NoStatus
<1>19. CASE Observe
  BY <1>19 DEF Observe, instance
<1>20. CASE RequestCancel
  BY <1>20 DEF RequestCancel, instance
<1>21. CASE RequestDelete
  BY <1>21 DEF RequestDelete, instance
<1>22. CASE Crash
  BY <1>22, CrashDoes
<1>23. CASE UNCHANGED vars
  BY <1>23 DEF vars, instance
<1>24. QED
  BY <1>1, <1>2, <1>3, <1>4, <1>5, <1>6, <1>7, <1>8, <1>9, <1>10,
     <1>11, <1>12, <1>13, <1>14, <1>15, <1>16, <1>17, <1>18, <1>19,
     <1>20, <1>21, <1>22, <1>23
     DEF Next, Reconciler, Timer, Assignment, Owner

(* Every step keeps Reports: the first instance finds no task.             *)
LEMMA ReportsStep ==
  ASSUME ValuesOK, FlagsOK, DiskOK, Mirror, Fresh, Reports, [Next]_vars
  PROVE  Reports'
<1> SUFFICES ASSUME crashes' = 0 PROVE Reports'
  BY DEF Reports
<1>1. crashes = 0 /\ ~Crash
  <2>1. crashes \in Nat
    BY ConstantsAssumption DEF ValuesOK
  <2>2. crashes' = crashes \/ (Crash /\ crashes' = crashes + 1)
    BY DEF Next, vars, Reconciler, Timer, Assignment, Approver, Owner, CreateApprovalTask,
         DropEvent, ReceiveUpdate, OnUpdate, UpdateRunStatusCompleted, Propagate, OnDelete,
         Expire, TimeoutDelete, TimeoutRead, TimeoutPatch, InitializeApprovalTask, Decide,
         UpdateApprovalTaskStatusCompleted, LabelDecision, ReadRun, UpdateRunResultsCompleted,
         DeleteApprovalTask, Observe, RequestCancel, RequestDelete, Crash
  <2>3. QED
    BY <2>1, <2>2 DEF Crash
<1>2. ctl' # "none" => ~skipResourceUpdate'
  <2> USE <1>1 DEF Reports
  <2>1. CASE CreateApprovalTask
    <3>1. task.phase = "absent"
      BY <2>1, CreateDoes DEF Fresh
    <3>2. QED
      BY <2>1, <3>1, CreateDoes
  <2>2. CASE OnUpdate
    BY <2>2 DEF OnUpdate
  <2>3. CASE UpdateRunStatusCompleted
    BY <2>3, ReportDoes
  <2>4. CASE Propagate
    <3>1. ctl' # "none" => ctl # "none"
      BY <2>4 DEF Propagate, AtHand
    <3>2. skipResourceUpdate' = skipResourceUpdate
      BY <2>4, Zenon DEF Propagate
    <3>3. QED
      BY <3>1, <3>2, Zenon
  <2>5. CASE OnDelete
    BY <2>5 DEF OnDelete, NoInstance
  <2>6. CASE UNCHANGED <<ctl, skipResourceUpdate>>
    BY <2>6
  <2>7. QED
    BY <2>1, <2>2, <2>3, <2>4, <2>5, <2>6
       DEF Next, vars, instance, Reconciler, Timer, Assignment, Approver, Owner, DropEvent,
           ReceiveUpdate, Expire, TimeoutDelete, TimeoutRead, TimeoutPatch,
           InitializeApprovalTask, Decide, UpdateApprovalTaskStatusCompleted, LabelDecision,
           ReadRun, UpdateRunResultsCompleted, DeleteApprovalTask, Observe, RequestCancel,
           RequestDelete
<1>3. disk'.ctl # "none" => ~disk'.skipResourceUpdate
  <2>1. CASE disk' = disk
    BY <1>1, <2>1, Zenon DEF Reports
  <2>2. CASE disk' = NotSaved
    BY <2>2 DEF NotSaved
  <2>3. CASE AtWaitState /\ disk' = AtHand
    <3>1. ctl # "none"
      BY <2>3 DEF AtWaitState, Mirror
    <3>2. ~skipResourceUpdate /\ AtHand.skipResourceUpdate = skipResourceUpdate
      BY <1>1, <3>1, Zenon DEF Reports, AtHand
    <3>3. QED
      BY <2>3, <3>2, Zenon
  <2>4. CASE disk.ctl # "none" /\ disk' = [disk EXCEPT !.resource.status = tmr.status]
    <3>1. disk'.skipResourceUpdate = disk.skipResourceUpdate
      BY <2>4, Zenon DEF DiskOK, SavedInstances
    <3>2. QED
      BY <1>1, <2>4, <3>1, Zenon DEF Reports
  <2>5. QED
    BY <2>1, <2>2, <2>3, <2>4, DiskMoves
<1>4. QED
  BY <1>2, <1>3 DEF Reports

-----------------------------------------------------------------------------
(* The inductive invariant.                                                *)
RestInv ==
  /\ Mirror /\ OnDisk /\ Fresh /\ Reports
  /\ Alive => Stalled \/ (Sound /\ SavedUnanswered)

(* It holds in the beginning.                                              *)
LEMMA RestInit == Init => RestInv
  BY DEF Init, RestInv, Mirror, Sound, Unmade, Reported, Unanswered, Recorded, Untouched, Owed,
         Fresh, OnDisk, Reports, SavedUnanswered, Alive, Working, isCompleted, hasResults,
         NotSaved, NoTask, NoCopy, NoTmr, NoAsg, NoStatus

(* And for ever.                                                           *)
LEMMA RestInvariant ==
  SafetySpec => [](ValuesOK /\ FlagsOK /\ DiskOK /\ AllSourced /\ SavedSourced /\ RestInv)
<1>1. ValuesOK /\ FlagsOK /\ DiskOK /\ AllSourced /\ RestInv /\ [Next]_vars => RestInv'
  <2> SUFFICES ASSUME ValuesOK, FlagsOK, DiskOK, AllSourced, RestInv, [Next]_vars
               PROVE  RestInv'
    OBVIOUS
  <2>1. Mirror' /\ OnDisk'
    BY MirrorStep, OnDiskStep DEF RestInv
  <2>2. ASSUME Alive', ~Stalled' PROVE Sound' /\ SavedUnanswered'
    BY <2>2, StallStays, SoundStep, SavedUnansweredStep DEF RestInv
  <2>3. Fresh' /\ Reports'
    BY FreshStep, ReportsStep DEF RestInv
  <2>4. QED
    BY <2>1, <2>2, <2>3 DEF RestInv
<1>2. QED
  BY <1>1, RestInit, StatusesAreSourced, PTL DEF SafetySpec

(* At rest neither thread, nor the timer, nor Tekton's observation has a   *)
(* step to take: Busy leaves out nothing that keeps the system going.      *)
THEOREM RestIsRest == TypeOK /\ ~Busy => ~(Reconciler \/ Timer \/ Assignment \/ Observe)
<1> SUFFICES ASSUME ValuesOK, FlagsOK, ~Busy, Reconciler \/ Timer \/ Assignment \/ Observe
             PROVE  FALSE
  BY TypeParts
<1> USE DEF ValuesOK, FlagsOK, Busy
<1>1. CASE Reconciler
  BY <1>1 DEF Reconciler, CreateApprovalTask, DropEvent, ReceiveUpdate, OnUpdate,
              UpdateRunStatusCompleted, Propagate, AtWaitState, OnDelete
<1>2. CASE Timer
  BY <1>2 DEF Timer, Expire, TimeoutDelete, TimeoutRead, TimeoutPatch
<1>3. CASE Assignment
  BY <1>3 DEF Assignment, InitializeApprovalTask, UpdateApprovalTaskStatusCompleted,
              LabelDecision, ReadRun, UpdateRunResultsCompleted, DeleteApprovalTask
<1>4. CASE Observe
  BY <1>4 DEF Observe
<1>5. QED
  BY <1>1, <1>2, <1>3, <1>4

(* When the system has come to rest the pipeline has its outcome or the    *)
(* approvers are being asked, nobody is asked for a run that ended, and no *)
(* ApprovalTask is left of a run that is gone; a restart makes a pipeline  *)
(* wait for nobody only without a volume, after the timeout expired, or    *)
(* when a cancelled run has seen two.                                      *)
THEOREM RestHasReason == SafetySpec => []RestIsDone
<1>1. ASSUME ValuesOK, FlagsOK, AllSourced, RestInv PROVE RestIsDone
  <2> SUFFICES ASSUME ~Busy
               PROVE  /\ pipeline = "waiting" => asg.pc = "asking" \/ Stalled
                      /\ isCompleted(run.status) /\ asg.pc = "asking" => crashes > 0
                      /\ run.phase = "absent" /\ task.phase # "absent" => crashes > 0
    BY DEF RestIsDone
  <2> USE <1>1 DEF RestInv, ValuesOK, Phases
  <2>1. crashes = 0 \/ crashes > 0
    BY ConstantsAssumption
  <2>2. /\ rec = "idle" /\ tmr.pc = "off" /\ asg.pc \in {"none", "asking", "done"}
        /\ task.phase # "deleting" /\ run.phase # "deleting"
    BY DEF Busy
  <2>3. ASSUME pipeline = "waiting", asg.pc # "asking", ~Stalled PROVE FALSE
    <3>1. Alive /\ Sound /\ ~isCompleted(run.status) /\ ~runEvt
      BY <2>3 DEF Busy, Mirror, Alive
    <3>2. ctl = "waiting"
      BY <2>2, <3>1 DEF Mirror, Sound, Reported
    <3>3. ~hasResults(run.status)
      BY <2>2, <3>1, <3>2 DEF Mirror, hasResults
    <3>4. CASE task.phase = "live"
      BY <2>2, <2>3, <3>1, <3>3, <3>4 DEF Busy, Sound, Recorded
    <3>5. CASE task.phase # "live"
      BY <2>2, <3>1, <3>2, <3>3, <3>5 DEF Sound, Owed
    <3>6. QED
      BY <3>4, <3>5
  <2>4. ASSUME isCompleted(run.status), asg.pc = "asking", crashes = 0 PROVE FALSE
    BY <2>2, <2>4 DEF Fresh
  <2>5. ASSUME run.phase = "absent", task.phase # "absent", crashes = 0 PROVE FALSE
    BY <2>2, <2>5 DEF Mirror, Fresh
  <2>6. QED
    BY <2>1, <2>3, <2>4, <2>5
<1>2. QED
  BY <1>1, RestInvariant, PTL

(* A volume is enough, but for a cancel between two restarts: on one, a    *)
(* run without a timeout leaves the pipeline waiting for nobody only when  *)
(* it is cancelled and the operator has restarted more than once.          *)
THEOREM VolumeSuffices ==
  ASSUME Durable, ~HasTimer
  PROVE  SafetySpec => [](~Busy /\ pipeline = "waiting" =>
                            asg.pc = "asking" \/ (run.spec = "RunCancelled" /\ crashes > 1))
<1> DEFINE Untimed == tmr.pc = "off" /\ ~fired
<1>1. Init => Untimed
  BY DEF Init, NoTmr
<1>2. ValuesOK /\ Untimed /\ [Next]_vars => Untimed'
  <2> SUFFICES ASSUME ValuesOK, Untimed, [Next]_vars PROVE Untimed'
    OBVIOUS
  <2>1. CASE UNCHANGED <<tmr, fired>>
    BY <2>1
  <2>2. CASE CreateApprovalTask
    <3>1. tmr' = [NoTmr EXCEPT !.pc = IF HasTimer THEN "armed" ELSE "off"] /\ fired' = fired
      BY <2>2 DEF CreateApprovalTask
    <3>2. QED
      BY <3>1 DEF NoTmr
  <2>3. CASE OnDelete
    BY <2>3 DEF OnDelete
  <2>4. CASE Timer
    BY <2>4 DEF Timer, Expire, TimeoutDelete, TimeoutRead, TimeoutPatch
  <2>5. CASE Crash
    BY <2>5 DEF Crash, ComesBack, NoTmr
  <2>6. QED
    BY <2>1, <2>2, <2>3, <2>4, <2>5
       DEF Next, vars, Reconciler, Assignment, Approver, Owner, DropEvent, ReceiveUpdate,
           OnUpdate, UpdateRunStatusCompleted, Propagate, InitializeApprovalTask, Decide,
           UpdateApprovalTaskStatusCompleted, LabelDecision, ReadRun,
           UpdateRunResultsCompleted, DeleteApprovalTask, Observe, RequestCancel, RequestDelete
<1>3. Untimed /\ RestIsDone =>
        (~Busy /\ pipeline = "waiting" =>
           asg.pc = "asking" \/ (run.spec = "RunCancelled" /\ crashes > 1))
  BY DEF RestIsDone, Stalled
<1>4. QED
  BY <1>1, <1>2, <1>3, RestHasReason, RestInvariant, PTL DEF SafetySpec

=============================================================================
