--------------------------- MODULE ApprovalProofs ---------------------------
(***************************************************************************)
(* Theorems about ApprovalOperator, for every value of its constants: with *)
(* and without a timer, a cancel, a deletion and a volume, and with any    *)
(* number of restarts.                                                     *)
(***************************************************************************)
EXTENDS ApprovalOperator, TLAPS

(* Every status, on the server or in one of the copies the threads carry,  *)
(* has its results from an approver, is "True" only with results, and is   *)
(* "False" only when the timeout expired or a cancel was requested.        *)
Sourced(status) ==
  /\ status.results \in said \cup {"none"}
  /\ status.cond = "True" => status.results # "none"
  /\ status.cond = "False" => fired \/ run.spec = "RunCancelled"

(* The same of all copies at once, with what the writers rely on: the      *)
(* decision being stored was given, a cancel seen was requested, and the   *)
(* timer goes beyond its check only after it expired.                      *)
AllSourced ==
  /\ Sourced(run.status) /\ Sourced(resource.status)
  /\ Sourced(tmr.status) /\ Sourced(asg.status)
  /\ asg.pc \in {"store", "label", "read", "patch"} => asg.decision \in said
  /\ resource.spec = "RunCancelled" => run.spec = "RunCancelled"
  /\ tmr.pc \in {"delete", "read", "patch"} => fired

(* And of the copy that is saved with the instance.                        *)
SavedSourced ==
  /\ Sourced(disk.resource.status)
  /\ disk.resource.spec = "RunCancelled" => run.spec = "RunCancelled"

-----------------------------------------------------------------------------
(* TypeOK in three parts, of the flags, of what is saved, and of           *)
(* everything else: the provers take Boolean values and records best apart.*)
ValuesOK ==
  /\ run \in [phase : Phases, spec : SpecStatus, status : Status]
  /\ task \in [phase : Phases, results : Results,
               label : {"none", "pending", "approved", "rejected"}]
  /\ ctl \in {"none", "waiting", "marked", "completed"}
  /\ resource \in [spec : SpecStatus, status : Status]
  /\ rec \in {"idle", "start", "update", "propagate"}
  /\ tmr \in [pc : {"off", "armed", "delete", "read", "patch"}, status : Status]
  /\ asg \in [pc : {"none", "asking", "store", "label", "read", "patch", "done"},
              decision : Results, status : Status]
  /\ pipeline \in {"waiting", "proceeded", "skipped", "failed", "deleted"}
  /\ said \subseteq Decisions
  /\ crashes \in 0..MaxCrashes

FlagsOK ==
  runEvt \in BOOLEAN /\ skipResourceUpdate \in BOOLEAN /\ fired \in BOOLEAN

SavedInstances == [ctl : {"none", "waiting", "completed"},
                   resource : [spec : SpecStatus, status : Status],
                   skipResourceUpdate : BOOLEAN]

DiskOK == disk \in SavedInstances

(* The three parts are TypeOK.                                             *)
LEMMA TypeParts == TypeOK <=> ValuesOK /\ FlagsOK /\ DiskOK
  BY DEF TypeOK, ValuesOK, FlagsOK, DiskOK, SavedInstances

-----------------------------------------------------------------------------
(* A status with another condition or other results is a status again, and *)
(* keeps the field that was not set.                                       *)
LEMMA StatusWith ==
  ASSUME NEW s \in Status, NEW c \in Conds, NEW r \in Results
  PROVE  /\ WithCond(s, c) \in Status
         /\ WithCond(s, c).cond = c /\ WithCond(s, c).results = s.results
         /\ WithResults(s, r) \in Status
         /\ WithResults(s, r).cond = s.cond /\ WithResults(s, r).results = r
  BY DEF Status, WithCond, WithResults

(* The initial copies are well typed.                                      *)
LEMMA InitialValues ==
  /\ NoStatus \in Status
  /\ NoCopy \in [spec : SpecStatus, status : Status]
  /\ NoTask \in [phase : Phases, results : Results,
                 label : {"none", "pending", "approved", "rejected"}]
  BY DEF NoStatus, NoCopy, NoTask, Status, Conds, Results, Decisions, Phases, SpecStatus

(* What is saved of no instance, and what is saved of one.                 *)
LEMMA SavedValues ==
  /\ NotSaved \in SavedInstances
  /\ ValuesOK /\ FlagsOK => AtHand \in SavedInstances
<1>1. NotSaved \in SavedInstances
  BY InitialValues DEF NotSaved, SavedInstances
<1>2. ASSUME ValuesOK, FlagsOK PROVE AtHand \in SavedInstances
  <2>1. (IF ctl = "marked" THEN "completed" ELSE ctl) \in {"none", "waiting", "completed"}
    BY <1>2 DEF ValuesOK
  <2>2. resource \in [spec : SpecStatus, status : Status]
    BY <1>2 DEF ValuesOK
  <2>3. skipResourceUpdate \in BOOLEAN
    BY <1>2 DEF FlagsOK
  <2>4. QED
    BY <2>1, <2>2, <2>3 DEF AtHand, SavedInstances
<1>3. QED
  BY <1>1, <1>2

(* A restart brings the instance back as the volume has it: as it was, or  *)
(* as the request at hand has just left it; without a volume there is none.*)
LEMMA CrashRestores ==
  ASSUME Crash
  PROVE  /\ ctl' = disk'.ctl /\ resource' = disk'.resource
         /\ skipResourceUpdate' = disk'.skipResourceUpdate
         /\ \/ ~Durable /\ disk' = NotSaved
            \/ Durable /\ disk' = disk
            \/ Durable /\ AtWaitState /\ disk' = AtHand
         /\ tmr'.status = NoStatus /\ tmr'.pc \in {"off", "armed"}
<1>1. CASE ~Durable
  <2>1. NoInstance /\ tmr' = NoTmr
    BY <1>1 DEF Crash
  <2>2. QED
    BY <1>1, <2>1 DEF NoInstance, NotSaved, NoTmr
<1>2. CASE Durable
  <2>1. ComesBack(disk) \/ (AtWaitState /\ ComesBack(AtHand))
    BY <1>2 DEF Crash
  <2>2. QED
    BY <1>2, <2>1 DEF ComesBack, NoTmr
<1>3. QED
  BY <1>1, <1>2

(* What changes of it: an instance is saved as it is at a wait state, the  *)
(* timer job saves its change, or nothing is left.                         *)
LEMMA DiskMoves ==
  ASSUME [Next]_vars
  PROVE  \/ disk' = disk
         \/ disk' = NotSaved
         \/ AtWaitState /\ disk' = AtHand
         \/ /\ TimeoutPatch /\ disk.ctl # "none"
            /\ disk' = [disk EXCEPT !.resource.status = tmr.status]
<1>1. CASE Propagate
  BY <1>1 DEF Propagate
<1>2. CASE OnDelete
  BY <1>2 DEF OnDelete, NoInstance
<1>3. CASE TimeoutPatch
  BY <1>3 DEF TimeoutPatch
<1>4. CASE Crash
  BY <1>4, CrashRestores
<1>5. CASE UNCHANGED disk
  BY <1>5
<1>6. QED
  BY <1>1, <1>2, <1>3, <1>4, <1>5
     DEF Next, vars, instance, Reconciler, Timer, Assignment, Approver, Owner,
         CreateApprovalTask, DropEvent, ReceiveUpdate, OnUpdate, UpdateRunStatusCompleted,
         Expire, TimeoutDelete, TimeoutRead, InitializeApprovalTask, Decide,
         UpdateApprovalTaskStatusCompleted, LabelDecision, ReadRun, UpdateRunResultsCompleted,
         DeleteApprovalTask, Observe, RequestCancel, RequestDelete

(* It stays typed.                                                         *)
LEMMA DiskStep == ValuesOK /\ FlagsOK /\ DiskOK /\ [Next]_vars => DiskOK'
<1> SUFFICES ASSUME ValuesOK, FlagsOK, DiskOK, [Next]_vars PROVE DiskOK'
  OBVIOUS
<1>1. CASE disk' = disk
  BY <1>1 DEF DiskOK
<1>2. CASE disk' = NotSaved \/ disk' = AtHand
  BY <1>2, SavedValues DEF DiskOK
<1>3. CASE disk' = [disk EXCEPT !.resource.status = tmr.status]
  <2>1. tmr.status \in Status
    BY DEF ValuesOK
  <2>2. QED
    BY <1>3, <2>1 DEF DiskOK, SavedInstances
<1>4. QED
  BY <1>1, <1>2, <1>3, DiskMoves

(* Deleting an ApprovalTask changes its phase only.                        *)
LEMMA DeletedTask ==
  ASSUME NEW t \in [phase : Phases, results : Results,
                    label : {"none", "pending", "approved", "rejected"}]
  PROVE  /\ Deleted(t) \in [phase : Phases, results : Results,
                            label : {"none", "pending", "approved", "rejected"}]
         /\ Deleted(t).results = t.results
  BY DEF Deleted, Phases

(* Every step keeps the objects, the instances and the positions typed.    *)
LEMMA ValuesStep == ValuesOK /\ FlagsOK /\ DiskOK /\ [Next]_vars => ValuesOK'
<1> SUFFICES ASSUME ValuesOK, FlagsOK, DiskOK, [Next]_vars PROVE ValuesOK'
  OBVIOUS
<1>1. CASE CreateApprovalTask
  BY <1>1, InitialValues, StatusWith DEF CreateApprovalTask, ValuesOK, NoTmr, Conds, Results, Phases
<1>2. CASE DropEvent
  BY <1>2 DEF DropEvent, ValuesOK, instance
<1>3. CASE ReceiveUpdate
  BY <1>3 DEF ReceiveUpdate, ValuesOK
<1>4. CASE OnUpdate
  <2>1. resource' = IF resource.spec = "RunCancelled"
                      THEN [resource EXCEPT !.status = WithCond(@, "False")]
                      ELSE resource
    BY <1>4 DEF OnUpdate
  <2>2. resource' \in [spec : SpecStatus, status : Status]
    BY <2>1, StatusWith DEF ValuesOK, Conds
  <2>3. task' \in [phase : Phases, results : Results,
                   label : {"none", "pending", "approved", "rejected"}]
    BY <1>4, DeletedTask DEF OnUpdate, ValuesOK
  <2>4. QED
    BY <1>4, <2>2, <2>3 DEF OnUpdate, ValuesOK
<1>5. CASE UpdateRunStatusCompleted
  BY <1>5, StatusWith DEF UpdateRunStatusCompleted, ValuesOK, PatchStatus, Conds
<1>6. CASE Propagate
  <2>1. run' \in [phase : Phases, spec : SpecStatus, status : Status]
    <3>1. CASE UNCHANGED <<run, runEvt>>
      BY <3>1 DEF ValuesOK
    <3>2. CASE PatchStatus(resource.status)
      BY <3>2 DEF PatchStatus, ValuesOK
    <3>3. QED
      BY <1>6, <3>1, <3>2 DEF Propagate
  <2>2. ctl' \in {"none", "waiting", "marked", "completed"}
    BY <1>6 DEF Propagate, ValuesOK, AtHand
  <2>3. QED
    BY <1>6, <2>1, <2>2 DEF Propagate, ValuesOK
<1>7. CASE OnDelete
  BY <1>7, InitialValues, DeletedTask DEF OnDelete, ValuesOK, NoInstance, NoTmr, Phases
<1>8. CASE Expire
  BY <1>8, InitialValues DEF Expire, ValuesOK, NoTmr, instance
<1>9. CASE TimeoutDelete
  BY <1>9, DeletedTask DEF TimeoutDelete, ValuesOK, instance
<1>10. CASE TimeoutRead
  BY <1>10, InitialValues, StatusWith DEF TimeoutRead, ValuesOK, NoTmr, Conds, instance
<1>11. CASE TimeoutPatch
  <2>1. run' \in [phase : Phases, spec : SpecStatus, status : Status]
    BY <1>11 DEF TimeoutPatch, PatchStatus, ValuesOK
  <2>2. tmr' \in [pc : {"off", "armed", "delete", "read", "patch"}, status : Status]
    BY <1>11, InitialValues DEF TimeoutPatch, NoTmr, ValuesOK
  <2>3. resource' \in [spec : SpecStatus, status : Status]
    BY <1>11 DEF TimeoutPatch, ValuesOK
  <2>4. QED
    BY <1>11, <2>1, <2>2, <2>3 DEF TimeoutPatch, ValuesOK
<1>12. CASE InitializeApprovalTask
  BY <1>12, InitialValues DEF InitializeApprovalTask, ValuesOK, NoAsg, Results, instance
<1>13. CASE Approver
  BY <1>13 DEF Approver, ValuesOK, Decide, Results, instance
<1>14. CASE UpdateApprovalTaskStatusCompleted
  BY <1>14 DEF UpdateApprovalTaskStatusCompleted, ValuesOK, instance
<1>15. CASE LabelDecision
  BY <1>15 DEF LabelDecision, ValuesOK, instance
<1>16. CASE ReadRun
  <2>1. WithResults(run.status, asg.decision) \in Status
    BY StatusWith DEF ValuesOK, Conds
  <2>2. asg' \in [pc : {"none", "asking", "store", "label", "read", "patch", "done"},
                  decision : Results, status : Status]
    BY <1>16, <2>1 DEF ReadRun, ValuesOK
  <2>3. QED
    BY <1>16, <2>2 DEF ReadRun, ValuesOK, instance
<1>17. CASE UpdateRunResultsCompleted
  <2>1. run' \in [phase : Phases, spec : SpecStatus, status : Status]
    BY <1>17 DEF UpdateRunResultsCompleted, PatchStatus, ValuesOK
  <2>2. QED
    BY <1>17, <2>1 DEF UpdateRunResultsCompleted, ValuesOK, instance
<1>18. CASE DeleteApprovalTask
  BY <1>18, InitialValues DEF DeleteApprovalTask, ValuesOK, NoAsg, Results, instance
<1>19. CASE Observe
  BY <1>19 DEF Observe, ValuesOK, Outcome, instance
<1>20. CASE RequestCancel
  BY <1>20 DEF RequestCancel, ValuesOK, SpecStatus, instance
<1>21. CASE RequestDelete
  BY <1>21 DEF RequestDelete, ValuesOK, Phases, instance
<1>22. CASE Crash
  <2>1. disk' \in SavedInstances
    BY DiskStep DEF DiskOK
  <2>2. /\ ctl' \in {"none", "waiting", "marked", "completed"}
        /\ resource' \in [spec : SpecStatus, status : Status]
    BY <1>22, <2>1, CrashRestores DEF SavedInstances
  <2>3. tmr' \in [pc : {"off", "armed", "delete", "read", "patch"}, status : Status]
    BY <1>22, InitialValues DEF Crash, ComesBack, NoTmr
  <2>4. asg' \in [pc : {"none", "asking", "store", "label", "read", "patch", "done"},
                  decision : Results, status : Status]
    BY <1>22, InitialValues DEF Crash, NoAsg, Results, ValuesOK
  <2>5. crashes' \in 0..MaxCrashes
    BY <1>22, ConstantsAssumption DEF Crash, ValuesOK
  <2>6. rec' = "idle" /\ UNCHANGED <<run, task, pipeline, said>>
    BY <1>22 DEF Crash
  <2>7. QED
    BY <2>2, <2>3, <2>4, <2>5, <2>6 DEF ValuesOK
<1>23. CASE UNCHANGED vars
  BY <1>23 DEF vars, ValuesOK
<1>24. QED
  BY <1>1, <1>2, <1>3, <1>4, <1>5, <1>6, <1>7, <1>8, <1>9, <1>10,
     <1>11, <1>12, <1>13, <1>14, <1>15, <1>16, <1>17, <1>18, <1>19,
     <1>20, <1>21, <1>22, <1>23
     DEF Next, Reconciler, Timer, Assignment, Owner

(* Every step keeps the flags Boolean.                                     *)
LEMMA FlagsStep == FlagsOK /\ DiskOK /\ [Next]_vars => FlagsOK'
<1> SUFFICES ASSUME FlagsOK, DiskOK, [Next]_vars PROVE FlagsOK'
  OBVIOUS
<1>1. CASE CreateApprovalTask
  BY <1>1 DEF CreateApprovalTask, FlagsOK
<1>2. CASE DropEvent
  BY <1>2 DEF DropEvent, FlagsOK, instance
<1>3. CASE ReceiveUpdate
  BY <1>3 DEF ReceiveUpdate, FlagsOK
<1>4. CASE OnUpdate
  BY <1>4 DEF OnUpdate, FlagsOK
<1>5. CASE UpdateRunStatusCompleted
  BY <1>5 DEF UpdateRunStatusCompleted, FlagsOK, PatchStatus
<1>6. CASE Propagate
  BY <1>6 DEF Propagate, FlagsOK, PatchStatus
<1>7. CASE OnDelete
  BY <1>7 DEF OnDelete, FlagsOK, NoInstance
<1>8. CASE Expire
  BY <1>8 DEF Expire, FlagsOK, instance
<1>9. CASE TimeoutDelete
  BY <1>9 DEF TimeoutDelete, FlagsOK, instance
<1>10. CASE TimeoutRead
  BY <1>10 DEF TimeoutRead, FlagsOK, instance
<1>11. CASE TimeoutPatch
  BY <1>11 DEF TimeoutPatch, FlagsOK, PatchStatus
<1>12. CASE InitializeApprovalTask
  BY <1>12 DEF InitializeApprovalTask, FlagsOK, instance
<1>13. CASE Approver
  BY <1>13 DEF Approver, FlagsOK, Decide, instance
<1>14. CASE UpdateApprovalTaskStatusCompleted
  BY <1>14 DEF UpdateApprovalTaskStatusCompleted, FlagsOK, instance
<1>15. CASE LabelDecision
  BY <1>15 DEF LabelDecision, FlagsOK, instance
<1>16. CASE ReadRun
  BY <1>16 DEF ReadRun, FlagsOK, instance
<1>17. CASE UpdateRunResultsCompleted
  BY <1>17 DEF UpdateRunResultsCompleted, FlagsOK, PatchStatus, instance
<1>18. CASE DeleteApprovalTask
  BY <1>18 DEF DeleteApprovalTask, FlagsOK, instance
<1>19. CASE Observe
  BY <1>19 DEF Observe, FlagsOK, instance
<1>20. CASE RequestCancel
  BY <1>20 DEF RequestCancel, FlagsOK, instance
<1>21. CASE RequestDelete
  BY <1>21 DEF RequestDelete, FlagsOK, instance
<1>22. CASE Crash
  <2>1. AtHand.skipResourceUpdate \in BOOLEAN
    BY DEF AtHand, FlagsOK
  <2>2. disk'.skipResourceUpdate \in BOOLEAN
    <3>1. disk.skipResourceUpdate \in BOOLEAN
      BY DEF DiskOK, SavedInstances
    <3>2. NotSaved.skipResourceUpdate \in BOOLEAN
      BY DEF NotSaved
    <3>3. disk' = disk \/ disk' = NotSaved \/ disk' = AtHand
      BY <1>22, CrashRestores
    <3>4. QED
      BY <2>1, <3>1, <3>2, <3>3
  <2>3. skipResourceUpdate' \in BOOLEAN
    BY <1>22, <2>2, CrashRestores
  <2>4. QED
    BY <1>22, <2>3 DEF Crash, FlagsOK
<1>23. CASE UNCHANGED vars
  BY <1>23 DEF vars, FlagsOK
<1>24. QED
  BY <1>1, <1>2, <1>3, <1>4, <1>5, <1>6, <1>7, <1>8, <1>9, <1>10,
     <1>11, <1>12, <1>13, <1>14, <1>15, <1>16, <1>17, <1>18, <1>19,
     <1>20, <1>21, <1>22, <1>23
     DEF Next, Reconciler, Timer, Assignment, Owner

(* Every variable keeps its type: the state of the operator, its objects   *)
(* and its pipeline run.                                                   *)
THEOREM TypeCorrect == SafetySpec => []TypeOK
<1>1. Init => ValuesOK
  BY ConstantsAssumption, InitialValues
     DEF Init, ValuesOK, NoTmr, NoAsg, Results, Decisions, Phases, SpecStatus
<1>2. Init => FlagsOK
  BY DEF Init, FlagsOK
<1>3. Init => DiskOK
  BY SavedValues DEF Init, DiskOK
<1>4. QED
  BY <1>1, <1>2, <1>3, ValuesStep, FlagsStep, DiskStep, TypeParts, PTL DEF SafetySpec

-----------------------------------------------------------------------------
(* No copy of a status says what nobody said: it holds in the beginning.   *)
LEMMA SourcedInit == Init => AllSourced /\ SavedSourced
  BY DEF Init, AllSourced, SavedSourced, Sourced, NoStatus, NoCopy, NotSaved, NoTmr, NoAsg

(* And every call that writes a status, or takes a copy, keeps it.         *)
LEMMA SourcedStep == ValuesOK /\ AllSourced /\ SavedSourced /\ [Next]_vars => AllSourced'
<1> SUFFICES ASSUME ValuesOK, AllSourced, SavedSourced, [Next]_vars PROVE AllSourced'
  OBVIOUS
<1> USE StatusWith, InitialValues DEF ValuesOK, AllSourced, Sourced, Conds
<1>1. CASE CreateApprovalTask
  <2>1. /\ resource'.spec = run.spec
        /\ resource'.status \in {run.status, WithCond(run.status, "Unknown")}
    BY <1>1 DEF CreateApprovalTask
  <2>2. Sourced(WithCond(run.status, "Unknown"))
    OBVIOUS
  <2>3. tmr'.status = NoStatus /\ tmr'.pc \in {"armed", "off"}
    BY <1>1 DEF CreateApprovalTask, NoTmr
  <2>4. UNCHANGED <<run, asg, said, fired>>
    BY <1>1 DEF CreateApprovalTask
  <2>5. QED
    BY <2>1, <2>2, <2>3, <2>4 DEF NoStatus
<1>2. CASE DropEvent
  BY <1>2 DEF DropEvent, instance
<1>3. CASE ReceiveUpdate
  BY <1>3 DEF ReceiveUpdate
<1>4. CASE OnUpdate
  <2>1. UNCHANGED <<run, tmr, asg, said, fired>>
    BY <1>4 DEF OnUpdate
  <2>2. CASE resource.spec = "RunCancelled"
    <3>1. resource' = [resource EXCEPT !.status = WithCond(@, "False")]
      BY <1>4, <2>2 DEF OnUpdate
    <3>2. QED
      BY <2>1, <2>2, <3>1
  <2>3. CASE resource.spec # "RunCancelled"
    <3>1. resource' = resource
      BY <1>4, <2>3 DEF OnUpdate
    <3>2. QED
      BY <2>1, <3>1
  <2>4. QED
    BY <2>2, <2>3
<1>5. CASE UpdateRunStatusCompleted
  BY <1>5 DEF UpdateRunStatusCompleted, PatchStatus, hasResults
<1>6. CASE Propagate
  <2>1. UNCHANGED <<resource, tmr, asg, said, fired>>
    BY <1>6 DEF Propagate
  <2>2. run' = run \/ run' = [run EXCEPT !.status = resource.status]
    BY <1>6 DEF Propagate, PatchStatus
  <2>3. QED
    BY <2>1, <2>2
<1>7. CASE OnDelete
  BY <1>7 DEF OnDelete, NoInstance, NoCopy, NoStatus, NoTmr
<1>8. CASE Expire
  BY <1>8 DEF Expire, NoTmr, NoStatus, instance
<1>9. CASE TimeoutDelete
  BY <1>9 DEF TimeoutDelete, instance
<1>10. CASE TimeoutRead
  BY <1>10 DEF TimeoutRead, NoTmr, NoStatus, instance
<1>11. CASE TimeoutPatch
  <2>1. UNCHANGED <<asg, said, fired>> /\ tmr' = NoTmr
    BY <1>11 DEF TimeoutPatch
  <2>2. run' = run \/ run' = [run EXCEPT !.status = tmr.status]
    BY <1>11 DEF TimeoutPatch, PatchStatus
  <2>3. resource' = resource \/ resource' = [resource EXCEPT !.status = tmr.status]
    BY <1>11 DEF TimeoutPatch
  <2>4. QED
    BY <2>1, <2>2, <2>3 DEF NoTmr, NoStatus
<1>12. CASE InitializeApprovalTask
  BY <1>12 DEF InitializeApprovalTask, NoAsg, NoStatus, instance
<1>13. CASE Approver
  BY <1>13 DEF Approver, Decide, instance
<1>14. CASE UpdateApprovalTaskStatusCompleted
  BY <1>14 DEF UpdateApprovalTaskStatusCompleted, instance
<1>15. CASE LabelDecision
  BY <1>15 DEF LabelDecision, instance
<1>16. CASE ReadRun
  <2>1. UNCHANGED <<run, resource, tmr, said, fired>>
    BY <1>16 DEF ReadRun, instance
  <2>2. /\ asg'.decision = asg.decision
        /\ asg'.status \in {asg.status, WithResults(run.status, asg.decision)}
    BY <1>16 DEF ReadRun
  <2>3. asg.decision \in said
    BY <1>16 DEF ReadRun
  <2>4. Sourced(WithResults(run.status, asg.decision))
    BY <2>3 DEF Results, Decisions
  <2>5. QED
    BY <2>1, <2>2, <2>3, <2>4
<1>17. CASE UpdateRunResultsCompleted
  <2>1. UNCHANGED <<resource, tmr, said, fired>>
    BY <1>17 DEF UpdateRunResultsCompleted, instance
  <2>2. asg' = [asg EXCEPT !.pc = "done"]
    BY <1>17 DEF UpdateRunResultsCompleted
  <2>3. run' = run \/ run' = [run EXCEPT !.status = asg.status]
    BY <1>17 DEF UpdateRunResultsCompleted, PatchStatus
  <2>4. QED
    BY <2>1, <2>2, <2>3
<1>18. CASE DeleteApprovalTask
  BY <1>18 DEF DeleteApprovalTask, NoAsg, NoStatus, instance
<1>19. CASE Observe
  BY <1>19 DEF Observe, instance
<1>20. CASE RequestCancel
  BY <1>20 DEF RequestCancel, instance
<1>21. CASE RequestDelete
  BY <1>21 DEF RequestDelete, instance
<1>22. CASE Crash
  <2>1. UNCHANGED <<run, said, fired>>
    BY <1>22 DEF Crash
  <2>2. resource' \in {NoCopy, disk.resource, resource}
    BY <1>22, CrashRestores DEF NotSaved, AtHand
  <2>3. tmr'.status = NoStatus /\ tmr'.pc \in {"off", "armed"}
    BY <1>22, CrashRestores
  <2>4. asg'.pc \in {"none", "asking", "done"} /\ asg'.status \in {asg.status, NoStatus}
    BY <1>22 DEF Crash, NoAsg
  <2>5. Sourced(resource.status)' /\ (resource'.spec = "RunCancelled" => run'.spec = "RunCancelled")
    BY <2>1, <2>2 DEF SavedSourced, NoCopy, NoStatus
  <2>6. QED
    BY <2>1, <2>3, <2>4, <2>5 DEF NoStatus
<1>23. CASE UNCHANGED vars
  BY <1>23 DEF vars
<1>24. QED
  BY <1>1, <1>2, <1>3, <1>4, <1>5, <1>6, <1>7, <1>8, <1>9, <1>10,
     <1>11, <1>12, <1>13, <1>14, <1>15, <1>16, <1>17, <1>18, <1>19,
     <1>20, <1>21, <1>22, <1>23
     DEF Next, Reconciler, Timer, Assignment, Owner

(* What approvers said, an expired timeout and a cancel stay.              *)
LEMMA CausesStay ==
  ASSUME ValuesOK, FlagsOK, [Next]_vars
  PROVE  /\ said \subseteq said' /\ (fired => fired')
         /\ run.spec = "RunCancelled" => run'.spec = "RunCancelled"
<1> USE DEF ValuesOK, FlagsOK
<1>1. CASE UNCHANGED <<run, said, fired>>
  BY <1>1
<1>2. CASE Approver
  BY <1>2 DEF Approver, Decide
<1>3. CASE Expire
  BY <1>3 DEF Expire
<1>4. CASE \/ UpdateRunStatusCompleted \/ Propagate \/ OnDelete
           \/ TimeoutPatch \/ UpdateRunResultsCompleted
  <2>1. UNCHANGED <<said, fired>> /\ run'.spec = run.spec
    BY <1>4 DEF UpdateRunStatusCompleted, Propagate, OnDelete, TimeoutPatch,
         UpdateRunResultsCompleted, PatchStatus
  <2>2. QED
    BY <2>1
<1>5. CASE RequestCancel \/ RequestDelete
  BY <1>5 DEF RequestCancel, RequestDelete
<1>6. QED
  BY <1>1, <1>2, <1>3, <1>4, <1>5
     DEF Next, vars, Reconciler, Timer, Assignment, Owner, CreateApprovalTask, DropEvent,
         ReceiveUpdate, OnUpdate, TimeoutDelete, TimeoutRead, InitializeApprovalTask,
         UpdateApprovalTaskStatusCompleted, LabelDecision, ReadRun, DeleteApprovalTask,
         Observe, Crash

(* What is saved is a copy from memory.                                    *)
LEMMA SavedStep ==
  ValuesOK /\ FlagsOK /\ DiskOK /\ AllSourced /\ SavedSourced /\ [Next]_vars => SavedSourced'
<1> SUFFICES ASSUME ValuesOK, FlagsOK, DiskOK, AllSourced, SavedSourced, [Next]_vars
             PROVE  SavedSourced'
  OBVIOUS
<1>1. CASE disk'.resource \in {disk.resource, NoCopy, resource}
  <2>1. Sourced(disk'.resource.status) /\
          (disk'.resource.spec = "RunCancelled" => run.spec = "RunCancelled")
    BY <1>1 DEF SavedSourced, AllSourced, Sourced, NoCopy, NoStatus
  <2>2. QED
    BY <2>1, CausesStay DEF SavedSourced, Sourced
<1>2. CASE disk' = [disk EXCEPT !.resource.status = tmr.status]
  <2>1. disk'.resource.status = tmr.status /\ disk'.resource.spec = disk.resource.spec
    BY <1>2 DEF DiskOK, SavedInstances
  <2>2. QED
    BY <2>1, CausesStay DEF SavedSourced, AllSourced, Sourced
<1>3. QED
  BY <1>1, <1>2, DiskMoves DEF NotSaved, AtHand

(* No status anywhere, on the server or in a thread's hands, has results   *)
(* no approver gave or an end nobody caused: createApprovalTask, onUpdate, *)
(* onTimeout and the four update functions pass on only what they found.   *)
THEOREM StatusesAreSourced ==
  SafetySpec => [](ValuesOK /\ FlagsOK /\ DiskOK /\ AllSourced /\ SavedSourced)
<1>1. TypeOK => ValuesOK /\ FlagsOK /\ DiskOK
  BY TypeParts
<1>2. QED
  BY <1>1, TypeCorrect, SourcedInit, SourcedStep, SavedStep, PTL DEF SafetySpec

(* A pipeline is never shown a completed approval without results, though  *)
(* updateRunResultsCompleted, updateRunStatusCompleted and onTimeout write *)
(* whole copies of the status over each other.                             *)
THEOREM CompletedHasResults == SafetySpec => []TrueHasResults
<1>1. ValuesOK /\ AllSourced => TrueHasResults
  BY DEF AllSourced, Sourced, TrueHasResults, hasResults
<1>2. QED
  BY <1>1, StatusesAreSourced, PTL

-----------------------------------------------------------------------------
(* A final status a pipeline can see was caused: the outcome it makes of   *)
(* the status is one that ApprovalGate lets it learn.                      *)
LEMMA OutcomeIsEarned ==
  ASSUME ValuesOK, AllSourced, isCompleted(run.status)
  PROVE  \/ Outcome(run.status) = "proceeded" /\ "true" \in said
         \/ Outcome(run.status) = "skipped" /\ "false" \in said
         \/ Outcome(run.status) = "failed" /\ (fired \/ run.spec = "RunCancelled")
<1>1. run.status.results \in said \cup {"none"} /\ said \subseteq {"true", "false"}
  BY DEF ValuesOK, AllSourced, Sourced, Decisions
<1>2. CASE run.status.cond = "True"
  <2>1. run.status.results \in said
    BY <1>1, <1>2 DEF AllSourced, Sourced
  <2>2. QED
    BY <1>1, <1>2, <2>1 DEF Outcome
<1>3. CASE run.status.cond = "False"
  BY <1>3 DEF AllSourced, Sourced, Outcome
<1>4. QED
  BY <1>2, <1>3 DEF isCompleted

(* A step of the operator, of Tekton or of the cluster is a step of the    *)
(* approval gate, or one that the gate does not see.                       *)
LEMMA GateStep ==
  ValuesOK /\ FlagsOK /\ AllSourced /\ [Next]_vars => [Gate!Next]_(Gate!vars)
<1> SUFFICES ASSUME ValuesOK, FlagsOK, AllSourced, [Next]_vars
             PROVE  [Gate!Next]_(Gate!vars)
  OBVIOUS
<1>1. CASE Approver
  BY <1>1 DEF Approver, Decide, Gate!Next, Gate!Say
<1>2. CASE Expire \/ RequestCancel
  <2>1. CASE Expire /\ fired' = TRUE
    BY <1>2, <2>1 DEF Expire, Gate!Next, Gate!Stop
  <2>2. CASE RequestCancel
    BY <1>2, <2>2 DEF RequestCancel, ValuesOK, Gate!Next, Gate!Stop
  <2>3. CASE Expire /\ fired' = fired
    BY <1>2, <2>3 DEF Expire, Gate!vars
  <2>4. QED
    BY <1>2, <2>1, <2>2, <2>3 DEF Expire
<1>3. CASE Observe
  <2>1. Gate!Learn(pipeline')
    BY <1>3, OutcomeIsEarned DEF Observe, Gate!Learn
  <2>2. pipeline' \in Gate!Outcomes
    BY <1>3 DEF Observe, Outcome, Gate!Outcomes
  <2>3. QED
    BY <2>1, <2>2 DEF Gate!Next
<1>4. CASE RequestDelete
  <2>1. CASE pipeline = "waiting"
    BY <1>4, <2>1 DEF RequestDelete, ValuesOK, Gate!Next, Gate!Learn, Gate!Outcomes
  <2>2. CASE pipeline # "waiting"
    BY <1>4, <2>2 DEF RequestDelete, ValuesOK, Gate!vars
  <2>3. QED
    BY <2>1, <2>2
<1>5. CASE \/ CreateApprovalTask \/ DropEvent \/ ReceiveUpdate
           \/ OnUpdate \/ TimeoutDelete \/ TimeoutRead
           \/ InitializeApprovalTask \/ UpdateApprovalTaskStatusCompleted \/ LabelDecision
           \/ ReadRun \/ DeleteApprovalTask \/ Crash
  <2>1. UNCHANGED <<pipeline, said, fired, run>>
    BY <1>5 DEF CreateApprovalTask, DropEvent, ReceiveUpdate, OnUpdate,
         TimeoutDelete, TimeoutRead, InitializeApprovalTask,
         UpdateApprovalTaskStatusCompleted, LabelDecision, ReadRun,
         DeleteApprovalTask, Crash
  <2>2. QED
    BY <2>1 DEF Gate!vars
<1>6. CASE \/ UpdateRunStatusCompleted \/ Propagate \/ OnDelete
           \/ TimeoutPatch \/ UpdateRunResultsCompleted
  <2>1. UNCHANGED <<pipeline, said, fired>> /\ run'.spec = run.spec
    BY <1>6 DEF UpdateRunStatusCompleted, Propagate, OnDelete, TimeoutPatch,
         UpdateRunResultsCompleted,
         PatchStatus, ValuesOK
  <2>2. QED
    BY <2>1 DEF Gate!vars
<1>7. CASE UNCHANGED vars
  BY <1>7 DEF vars, Gate!vars
<1>8. QED
  BY <1>1, <1>2, <1>3, <1>4, <1>5, <1>6, <1>7
     DEF Next, Reconciler, Timer, Assignment, Owner

(* The operator implements the approval gate: whatever its threads do to   *)
(* each other, and however often it restarts, a pipeline proceeds only on  *)
(* an approval, is skipped only on a rejection, and fails only after a     *)
(* timeout or a cancel; and it never learns two outcomes.                  *)
THEOREM GateRefinement == SafetySpec => GateSpec
<1>1. Init => Gate!Init
  BY DEF Init, Gate!Init
<1>2. QED
  BY <1>1, GateStep, StatusesAreSourced, PTL
     DEF SafetySpec, GateSpec, Gate!Spec

-----------------------------------------------------------------------------
(* Why approvers are asked once.  The results on the ApprovalTask are a    *)
(* decision; and while nothing restarted, a run without a RunController    *)
(* instance is a new one, of which nothing has been made yet, and an       *)
(* approver is asked, or about to be, only when nobody has answered.       *)
OneQuestion ==
  /\ task.results \in said \cup {"none"}
  /\ crashes = 0 =>
       /\ ctl = "none" /\ run.phase = "live" => task = NoTask /\ asg = NoAsg /\ said = {}
       /\ asg.pc = "asking" => said = {}
       /\ asg.pc = "none" /\ task.phase = "live" => said = {}
       /\ \A d \in said : said = {d}

(* Every step keeps OneQuestion: the filters see to it.                    *)
LEMMA OneQuestionStep ==
  ValuesOK /\ AllSourced /\ OneQuestion /\ [Next]_vars => OneQuestion'
<1> SUFFICES ASSUME ValuesOK, AllSourced, OneQuestion, [Next]_vars
             PROVE  OneQuestion'
  OBVIOUS
<1> USE InitialValues, DeletedTask DEF ValuesOK, OneQuestion
<1>1. CASE CreateApprovalTask
  BY <1>1 DEF CreateApprovalTask, NoTask
<1>2. CASE DropEvent
  BY <1>2 DEF DropEvent, instance
<1>3. CASE ReceiveUpdate
  BY <1>3 DEF ReceiveUpdate
<1>4. CASE OnUpdate
  <2>1. task' \in {task, Deleted(task)} /\ UNCHANGED <<run, ctl, asg, said, crashes>>
    BY <1>4 DEF OnUpdate
  <2>2. /\ task'.results = task.results
        /\ task = NoTask => task' = NoTask
        /\ task'.phase = "live" => task.phase = "live"
    BY <2>1 DEF Deleted, NoTask
  <2>3. QED
    BY <2>1, <2>2
<1>5. CASE UpdateRunStatusCompleted
  BY <1>5 DEF UpdateRunStatusCompleted, PatchStatus
<1>6. CASE Propagate
  BY <1>6 DEF Propagate, PatchStatus, AtHand
<1>7. CASE OnDelete
  BY <1>7 DEF OnDelete, NoInstance, Deleted
<1>8. CASE Expire
  BY <1>8 DEF Expire, instance
<1>9. CASE TimeoutDelete
  <2>1. task' = Deleted(task) /\ UNCHANGED <<run, ctl, asg, said, crashes>>
    BY <1>9 DEF TimeoutDelete, instance
  <2>2. /\ task'.results = task.results
        /\ task = NoTask => task' = NoTask
        /\ task'.phase = "live" => task.phase = "live"
    BY <2>1 DEF Deleted, NoTask
  <2>3. QED
    BY <2>1, <2>2
<1>10. CASE TimeoutRead
  BY <1>10 DEF TimeoutRead, instance
<1>11. CASE TimeoutPatch
  BY <1>11 DEF TimeoutPatch, PatchStatus
<1>12. CASE InitializeApprovalTask
  BY <1>12 DEF InitializeApprovalTask, NoAsg, instance, NoTask
<1>13. CASE Approver
  BY <1>13 DEF Approver, Decide, instance, NoAsg
<1>14. CASE UpdateApprovalTaskStatusCompleted
  BY <1>14 DEF UpdateApprovalTaskStatusCompleted, AllSourced, NoAsg, instance
<1>15. CASE LabelDecision
  BY <1>15 DEF LabelDecision, NoAsg, instance
<1>16. CASE ReadRun
  BY <1>16 DEF ReadRun, NoAsg, instance
<1>17. CASE UpdateRunResultsCompleted
  <2>1. UNCHANGED <<task, ctl, said, crashes>> /\ asg.pc = "patch" /\ asg'.pc = "done"
    BY <1>17 DEF UpdateRunResultsCompleted, instance
  <2>2. run'.phase = run.phase
    BY <1>17 DEF UpdateRunResultsCompleted, PatchStatus
  <2>3. QED
    BY <2>1, <2>2 DEF NoAsg
<1>18. CASE DeleteApprovalTask
  BY <1>18 DEF DeleteApprovalTask, NoAsg, NoTask, instance
<1>19. CASE Observe
  BY <1>19 DEF Observe, instance
<1>20. CASE RequestCancel
  BY <1>20 DEF RequestCancel, instance
<1>21. CASE RequestDelete
  BY <1>21 DEF RequestDelete, instance
<1>22. CASE Crash
  BY <1>22 DEF Crash
<1>23. CASE UNCHANGED vars
  BY <1>23 DEF vars
<1>24. QED
  BY <1>1, <1>2, <1>3, <1>4, <1>5, <1>6, <1>7, <1>8, <1>9, <1>10,
     <1>11, <1>12, <1>13, <1>14, <1>15, <1>16, <1>17, <1>18, <1>19,
     <1>20, <1>21, <1>22, <1>23
     DEF Next, Reconciler, Timer, Assignment, Owner

(* Without a restart approvers are asked once: neither the filters of the  *)
(* "createOrUpdate" messages nor createApprovalTask start a second request *)
(* for the run, and the two statuses hold the one decision.                *)
THEOREM AskedOnceHolds == SafetySpec => []AskedOnce
<1>1. Init => OneQuestion
  BY DEF Init, OneQuestion, NoTask, NoAsg
<1>2. ValuesOK /\ AllSourced /\ OneQuestion => AskedOnce
  BY DEF AllSourced, Sourced, OneQuestion, AskedOnce
<1>3. QED
  BY <1>1, <1>2, OneQuestionStep, StatusesAreSourced, PTL DEF SafetySpec

-----------------------------------------------------------------------------
(* Why a pipeline and the ApprovalTask agree while nothing restarts: a     *)
(* decision is on the task before any copy of the run's status has it, and *)
(* with it the pipeline.                                                   *)
TaskFirst ==
  crashes = 0 =>
    /\ said # {} /\ task.phase # "absent" => asg.pc = "store" \/ task.results # "none"
    /\ asg.pc = "store" =>
         /\ run.status.results = "none" /\ resource.status.results = "none"
         /\ tmr.status.results = "none" /\ asg.status.results = "none"
         /\ pipeline \notin {"proceeded", "skipped"}
    /\ pipeline = "proceeded" => "true" \in said
    /\ pipeline = "skipped" => "false" \in said

(* Every step keeps TaskFirst.                                             *)
LEMMA TaskFirstStep ==
  ValuesOK /\ AllSourced /\ OneQuestion /\ TaskFirst /\ [Next]_vars => TaskFirst'
<1> SUFFICES ASSUME ValuesOK, AllSourced, OneQuestion, TaskFirst, [Next]_vars
             PROVE  TaskFirst'
  OBVIOUS
<1> USE StatusWith, InitialValues, DeletedTask
        DEF ValuesOK, AllSourced, Sourced, OneQuestion, TaskFirst
<1>1. CASE CreateApprovalTask
  BY <1>1 DEF CreateApprovalTask, instance, NoTask
<1>2. CASE DropEvent
  BY <1>2 DEF DropEvent, instance
<1>3. CASE ReceiveUpdate
  BY <1>3 DEF ReceiveUpdate, instance
<1>4. CASE OnUpdate
  <2>1. UNCHANGED <<run, tmr, asg, pipeline, said, crashes>>
    BY <1>4 DEF OnUpdate
  <2>2. resource'.status.results = resource.status.results
    <3>1. \/ resource' = resource
          \/ resource' = [resource EXCEPT !.status = WithCond(@, "False")]
      BY <1>4 DEF OnUpdate
    <3>2. QED
      BY <3>1 DEF Conds
  <2>3. task' \in {task, Deleted(task)}
    BY <1>4 DEF OnUpdate
  <2>4. task'.results = task.results /\ (task.phase = "absent" => task'.phase = "absent")
    BY <2>3 DEF Deleted
  <2>5. QED
    BY <2>1, <2>2, <2>4
<1>5. CASE UpdateRunStatusCompleted
  <2>1. UNCHANGED <<task, tmr, asg, pipeline, said, crashes>>
    BY <1>5 DEF UpdateRunStatusCompleted
  <2>2. /\ run'.status.results = resource.status.results
        /\ resource'.status.results = resource.status.results
    BY <1>5 DEF UpdateRunStatusCompleted, PatchStatus, Conds
  <2>3. QED
    BY <2>1, <2>2
<1>6. CASE Propagate
  BY <1>6 DEF Propagate, instance, PatchStatus
<1>7. CASE OnDelete
  BY <1>7 DEF OnDelete, instance, NoInstance, NoCopy, NoStatus, Deleted, NoTmr
<1>8. CASE Expire
  BY <1>8 DEF Expire, instance, NoTmr, NoStatus
<1>9. CASE TimeoutDelete
  BY <1>9 DEF TimeoutDelete, instance, Deleted
<1>10. CASE TimeoutRead
  <2>1. UNCHANGED <<run, task, resource, asg, pipeline, said, crashes>>
    BY <1>10 DEF TimeoutRead, instance
  <2>2. tmr'.status.results \in {"none", run.status.results}
    BY <1>10 DEF TimeoutRead, NoTmr, NoStatus, Conds
  <2>3. QED
    BY <2>1, <2>2
<1>11. CASE TimeoutPatch
  <2>1. UNCHANGED <<task, asg, pipeline, said, crashes>> /\ tmr'.status.results = "none"
    BY <1>11 DEF TimeoutPatch, NoTmr, NoStatus
  <2>2. run' = run \/ run' = [run EXCEPT !.status = tmr.status]
    BY <1>11 DEF TimeoutPatch, PatchStatus
  <2>3. resource'.status \in {resource.status, tmr.status}
    BY <1>11 DEF TimeoutPatch
  <2>4. QED
    BY <2>1, <2>2, <2>3
<1>12. CASE InitializeApprovalTask
  BY <1>12 DEF InitializeApprovalTask, instance, NoAsg, NoStatus
<1>13. CASE Approver
  BY <1>13 DEF Approver, instance, Decide
<1>14. CASE UpdateApprovalTaskStatusCompleted
  <2>1. /\ asg.pc = "store" /\ asg.decision \in said /\ "none" \notin said
        /\ UNCHANGED <<run, resource, tmr, pipeline, said, crashes>>
    BY <1>14 DEF UpdateApprovalTaskStatusCompleted, instance, Decisions
  <2>2. task'.phase = "absent" \/ task'.results = asg.decision
    BY <1>14 DEF UpdateApprovalTaskStatusCompleted
  <2>3. asg'.pc \in {"done", "label"} /\ asg'.status = asg.status
    BY <1>14 DEF UpdateApprovalTaskStatusCompleted
  <2>4. QED
    BY <2>1, <2>2, <2>3
<1>15. CASE LabelDecision
  BY <1>15 DEF LabelDecision, instance
<1>16. CASE ReadRun
  BY <1>16 DEF ReadRun, instance
<1>17. CASE UpdateRunResultsCompleted
  BY <1>17 DEF UpdateRunResultsCompleted, instance, PatchStatus
<1>18. CASE DeleteApprovalTask
  BY <1>18 DEF DeleteApprovalTask, instance, NoTask, NoAsg, NoStatus
<1>19. CASE Observe
  <2>1. UNCHANGED <<run, task, resource, tmr, asg, said, crashes>>
    BY <1>19 DEF Observe, instance
  <2>2. /\ pipeline' = "proceeded" => "true" \in said /\ run.status.results = "true"
        /\ pipeline' = "skipped" => "false" \in said /\ run.status.results = "false"
    BY <1>19, OutcomeIsEarned DEF Observe, Outcome
  <2>3. QED
    BY <2>1, <2>2
<1>20. CASE RequestCancel
  BY <1>20 DEF RequestCancel, instance
<1>21. CASE RequestDelete
  BY <1>21 DEF RequestDelete, instance
<1>22. CASE Crash
  BY <1>22 DEF Crash, instance, NoInstance, NoCopy, NoTmr, NoAsg, NoStatus
<1>23. CASE UNCHANGED vars
  BY <1>23 DEF vars, instance
<1>24. QED
  BY <1>1, <1>2, <1>3, <1>4, <1>5, <1>6, <1>7, <1>8, <1>9, <1>10,
     <1>11, <1>12, <1>13, <1>14, <1>15, <1>16, <1>17, <1>18, <1>19,
     <1>20, <1>21, <1>22, <1>23
     DEF Next, Reconciler, Timer, Assignment, Owner

(* While nothing restarts, what the pipeline made of the run is what the   *)
(* approvers see on their ApprovalTask: updateApprovalTaskStatusCompleted  *)
(* comes first, and no second task is made.                                *)
THEOREM OutcomeIsOnTask == SafetySpec => [](crashes = 0 => OutcomeMatchesTask)
<1>1. Init => OneQuestion /\ TaskFirst
  BY DEF Init, OneQuestion, TaskFirst, NoTask, NoAsg
<1>2. ValuesOK /\ AllSourced /\ OneQuestion /\ TaskFirst => (crashes = 0 => OutcomeMatchesTask)
  BY DEF ValuesOK, Decisions, OneQuestion, TaskFirst, OutcomeMatchesTask
<1>3. QED
  BY <1>1, <1>2, OneQuestionStep, TaskFirstStep, StatusesAreSourced, PTL DEF SafetySpec

-----------------------------------------------------------------------------
(* Why nobody brings back an older status of a completed run: without a    *)
(* timeout and a cancel the ApprovalTask stays as long as the run; once    *)
(* the run has a decision, nobody is asked and nobody stores; and whoever  *)
(* writes a completed run holds its very status.                           *)
Calm == ~fired /\ run.spec # "RunCancelled"

TaskStays ==
  /\ run.phase = "live" => task.phase = "live"
  /\ task.phase = "live" => task.results # "none"

Kept ==
  /\ run.phase = "live" => task.phase # "deleting"
  /\ run.phase = "live" /\ task.phase = "absent" => asg.pc = "none"
  /\ asg.pc \in {"label", "read", "patch"} => TaskStays
  /\ run.status.results # "none" \/ resource.status.results # "none" =>
       asg.pc \in {"none", "done"} /\ TaskStays
  /\ isCompleted(run.status) /\ rec # "idle" => resource.status = run.status
  /\ asg.pc = "patch" => ~isCompleted(asg.status)

(* That decision may come from the volume.                                 *)
KeptSaved ==
  disk.resource.status.results # "none" => asg.pc \in {"none", "done"} /\ TaskStays

(* A timeout that expired and a cancel that was requested stay so.         *)
LEMMA CalmBefore ==
  ASSUME ValuesOK, FlagsOK, [Next]_vars, Calm'
  PROVE  Calm
<1> USE DEF ValuesOK, FlagsOK, Calm
<1>1. CASE CreateApprovalTask
  BY <1>1 DEF CreateApprovalTask, instance, NoTask
<1>2. CASE DropEvent
  BY <1>2 DEF DropEvent, instance
<1>3. CASE ReceiveUpdate
  BY <1>3 DEF ReceiveUpdate, instance
<1>4. CASE OnUpdate
  BY <1>4 DEF OnUpdate, instance, Deleted
<1>5. CASE UpdateRunStatusCompleted
  BY <1>5 DEF UpdateRunStatusCompleted, instance, PatchStatus
<1>6. CASE Propagate
  BY <1>6 DEF Propagate, instance, PatchStatus
<1>7. CASE OnDelete
  BY <1>7 DEF OnDelete, instance, NoInstance, NoCopy, NoStatus, Deleted, NoTmr
<1>8. CASE Expire
  BY <1>8 DEF Expire, instance, NoTmr, NoStatus
<1>9. CASE TimeoutDelete
  BY <1>9 DEF TimeoutDelete, instance, Deleted
<1>10. CASE TimeoutRead
  BY <1>10 DEF TimeoutRead, instance, NoTmr, NoStatus
<1>11. CASE TimeoutPatch
  BY <1>11 DEF TimeoutPatch, instance, PatchStatus, NoTmr, NoStatus
<1>12. CASE InitializeApprovalTask
  BY <1>12 DEF InitializeApprovalTask, instance, NoAsg, NoStatus
<1>13. CASE Approver
  BY <1>13 DEF Approver, instance, Decide
<1>14. CASE UpdateApprovalTaskStatusCompleted
  BY <1>14 DEF UpdateApprovalTaskStatusCompleted, instance
<1>15. CASE LabelDecision
  BY <1>15 DEF LabelDecision, instance
<1>16. CASE ReadRun
  BY <1>16 DEF ReadRun, instance
<1>17. CASE UpdateRunResultsCompleted
  BY <1>17 DEF UpdateRunResultsCompleted, instance, PatchStatus
<1>18. CASE DeleteApprovalTask
  BY <1>18 DEF DeleteApprovalTask, instance, NoTask, NoAsg, NoStatus
<1>19. CASE Observe
  BY <1>19 DEF Observe, instance
<1>20. CASE RequestCancel
  BY <1>20 DEF RequestCancel, instance
<1>21. CASE RequestDelete
  BY <1>21 DEF RequestDelete, instance
<1>22. CASE Crash
  BY <1>22 DEF Crash, instance, NoInstance, NoCopy, NoTmr, NoAsg, NoStatus
<1>23. CASE UNCHANGED vars
  BY <1>23 DEF vars, instance
<1>24. QED
  BY <1>1, <1>2, <1>3, <1>4, <1>5, <1>6, <1>7, <1>8, <1>9, <1>10,
     <1>11, <1>12, <1>13, <1>14, <1>15, <1>16, <1>17, <1>18, <1>19,
     <1>20, <1>21, <1>22, <1>23
     DEF Next, Reconciler, Timer, Assignment, Owner

(* Every step keeps Kept, as long as there is no timeout and no cancel.    *)
LEMMA KeptStep ==
  ASSUME ValuesOK, AllSourced, Calm, Kept, KeptSaved, [Next]_vars, Calm'
  PROVE  Kept'
<1> USE StatusWith, InitialValues, DeletedTask
        DEF ValuesOK, AllSourced, Sourced, Calm, Kept, TaskStays, isCompleted
<1>1. CASE CreateApprovalTask
  <2>1. /\ UNCHANGED <<run, asg, said>> /\ run.phase = "live" /\ ~isCompleted(run.status)
        /\ resource'.status.results = run.status.results
    BY <1>1 DEF CreateApprovalTask, Conds
  <2>2. CASE task.phase = "absent"
    <3>1. task'.phase = "live" /\ asg.pc = "none" /\ run.status.results = "none"
      BY <1>1, <2>1, <2>2 DEF CreateApprovalTask
    <3>2. QED
      BY <2>1, <3>1
  <2>3. CASE task.phase # "absent"
    <3>1. task' = task
      BY <1>1, <2>3 DEF CreateApprovalTask
    <3>2. QED
      BY <2>1, <3>1
  <2>4. QED
    BY <2>2, <2>3
<1>2. CASE DropEvent
  BY <1>2 DEF DropEvent, instance
<1>3. CASE ReceiveUpdate
  BY <1>3 DEF ReceiveUpdate, instance
<1>4. CASE OnUpdate
  BY <1>4 DEF OnUpdate, instance, Deleted
<1>5. CASE UpdateRunStatusCompleted
  <2>1. UNCHANGED <<task, asg, rec>> /\ run'.phase = run.phase
    BY <1>5 DEF UpdateRunStatusCompleted, PatchStatus
  <2>2. /\ resource'.status = run'.status
        /\ run'.status.results = resource.status.results
    BY <1>5 DEF UpdateRunStatusCompleted, PatchStatus, Conds
  <2>3. QED
    BY <2>1, <2>2
<1>6. CASE Propagate
  <2>1. UNCHANGED <<task, asg, resource>> /\ rec' = "idle"
    BY <1>6 DEF Propagate
  <2>2. run' = run \/ run' = [run EXCEPT !.status = resource.status]
    BY <1>6 DEF Propagate, PatchStatus
  <2>3. QED
    BY <2>1, <2>2
<1>7. CASE OnDelete
  BY <1>7 DEF OnDelete, instance, NoInstance, NoCopy, NoStatus, Deleted, NoTmr
<1>8. CASE Expire
  BY <1>8 DEF Expire, instance, NoTmr, NoStatus
<1>9. CASE TimeoutDelete
  BY <1>9 DEF TimeoutDelete, instance, Deleted
<1>10. CASE TimeoutRead
  BY <1>10 DEF TimeoutRead, instance, NoTmr, NoStatus
<1>11. CASE TimeoutPatch
  BY <1>11 DEF TimeoutPatch, instance, PatchStatus, NoTmr, NoStatus
<1>12. CASE InitializeApprovalTask
  BY <1>12 DEF InitializeApprovalTask, instance, NoAsg, NoStatus
<1>13. CASE Approver
  BY <1>13 DEF Approver, instance, Decide
<1>14. CASE UpdateApprovalTaskStatusCompleted
  <2>1. /\ asg.pc = "store" /\ asg.decision # "none"
        /\ UNCHANGED <<run, resource, rec>>
    BY <1>14 DEF UpdateApprovalTaskStatusCompleted, instance, Decisions
  <2>2. CASE task.phase = "absent"
    BY <1>14, <2>1, <2>2 DEF UpdateApprovalTaskStatusCompleted
  <2>3. CASE task.phase # "absent"
    <3>1. /\ task'.phase = task.phase /\ task'.results = asg.decision
          /\ asg'.pc = "label"
      BY <1>14, <2>3 DEF UpdateApprovalTaskStatusCompleted
    <3>2. QED
      BY <2>1, <2>3, <3>1 DEF Phases
  <2>4. QED
    BY <2>2, <2>3
<1>15. CASE LabelDecision
  BY <1>15 DEF LabelDecision, instance
<1>16. CASE ReadRun
  <2>1. asg.pc = "read" /\ UNCHANGED <<run, task, resource, rec>>
    BY <1>16 DEF ReadRun, instance
  <2>2. run.status.results = "none" /\ ~isCompleted(run.status)
    BY <2>1
  <2>3. \/ asg'.pc = "done"
        \/ asg'.pc = "patch" /\ asg'.status = WithResults(run.status, asg.decision)
    BY <1>16 DEF ReadRun
  <2>4. WithResults(run.status, asg.decision).cond = run.status.cond
    BY DEF WithResults
  <2>5. QED
    BY <2>1, <2>2, <2>3, <2>4 DEF Phases
<1>17. CASE UpdateRunResultsCompleted
  <2>1. /\ asg.pc = "patch" /\ asg'.pc = "done" /\ UNCHANGED <<task, resource, rec>>
    BY <1>17 DEF UpdateRunResultsCompleted, instance
  <2>2. run' = run \/ run' = [run EXCEPT !.status = asg.status]
    BY <1>17 DEF UpdateRunResultsCompleted, PatchStatus
  <2>3. TaskStays /\ ~isCompleted(run.status) /\ ~isCompleted(asg.status)
    BY <2>1
  <2>4. TaskStays' /\ ~isCompleted(run'.status)
    BY <2>1, <2>2, <2>3
  <2>5. QED
    BY <2>1, <2>4
<1>18. CASE DeleteApprovalTask
  BY <1>18 DEF DeleteApprovalTask, instance, NoTask, NoAsg, NoStatus
<1>19. CASE Observe
  BY <1>19 DEF Observe, instance
<1>20. CASE RequestCancel
  BY <1>20 DEF RequestCancel, instance
<1>21. CASE RequestDelete
  BY <1>21 DEF RequestDelete, instance
<1>22. CASE Crash
  <2>1. UNCHANGED <<run, task>> /\ rec' = "idle"
    BY <1>22 DEF Crash
  <2>2. resource' \in {NoCopy, disk.resource, resource}
    BY <1>22, CrashRestores DEF NotSaved, AtHand
  <2>3. /\ asg'.pc \in {"none", "asking", "done"} /\ (asg.pc = "none" => asg'.pc = "none")
        /\ asg.pc = "done" => asg'.pc \in {"none", "done"}
    BY <1>22 DEF Crash, NoAsg
  <2>4. resource'.status.results # "none" => asg.pc \in {"none", "done"} /\ TaskStays
    BY <2>2 DEF KeptSaved, NoCopy, NoStatus
  <2>5. TaskStays <=> TaskStays'
    BY <2>1
  <2>6. QED
    BY <2>1, <2>3, <2>4, <2>5
<1>23. CASE UNCHANGED vars
  BY <1>23 DEF vars, instance
<1>24. QED
  BY <1>1, <1>2, <1>3, <1>4, <1>5, <1>6, <1>7, <1>8, <1>9, <1>10,
     <1>11, <1>12, <1>13, <1>14, <1>15, <1>16, <1>17, <1>18, <1>19,
     <1>20, <1>21, <1>22, <1>23
     DEF Next, Reconciler, Timer, Assignment, Owner

(* And KeptSaved: what is saved had been in memory, and a decision that is *)
(* in memory has left nobody who asks or stores.                           *)
LEMMA KeptSavedStep ==
  ASSUME ValuesOK, DiskOK, AllSourced, Calm, Kept, KeptSaved, [Next]_vars, Calm'
  PROVE  KeptSaved'
<1>1. ~TimeoutPatch
  BY DEF TimeoutPatch, AllSourced, Calm
<1>2. disk'.resource \in {disk.resource, NoCopy, resource}
  BY <1>1, DiskMoves DEF NotSaved, AtHand
<1>3. SUFFICES ASSUME disk'.resource.status.results # "none"
               PROVE  asg'.pc \in {"none", "done"} /\ TaskStays'
  BY DEF KeptSaved
<1>4. asg.pc \in {"none", "done"} /\ TaskStays
  BY <1>2, <1>3 DEF Kept, KeptSaved, NoCopy, NoStatus
<1>5. asg'.pc \in {"none", "done"} /\ TaskStays'
  <2> USE <1>4, InitialValues, DeletedTask
          DEF ValuesOK, AllSourced, Sourced, Calm, Kept, TaskStays
  <2>1. CASE UNCHANGED <<run, task, asg>>
    BY <2>1
  <2>2. CASE CreateApprovalTask
    BY <2>2 DEF CreateApprovalTask
  <2>3. CASE OnUpdate
    BY <2>3 DEF OnUpdate, Deleted
  <2>4. CASE \/ UpdateRunStatusCompleted \/ Propagate \/ TimeoutPatch
             \/ UpdateRunResultsCompleted
    BY <2>4 DEF UpdateRunStatusCompleted, Propagate, TimeoutPatch, UpdateRunResultsCompleted,
         PatchStatus
  <2>5. CASE OnDelete
    BY <2>5 DEF OnDelete, Deleted
  <2>6. CASE Timer
    BY <2>6 DEF Timer, Expire, TimeoutDelete, TimeoutRead, TimeoutPatch, PatchStatus
  <2>7. CASE Approver
    BY <2>7 DEF Approver, Decide
  <2>8. CASE \/ InitializeApprovalTask \/ UpdateApprovalTaskStatusCompleted \/ LabelDecision
             \/ ReadRun
    BY <2>8 DEF InitializeApprovalTask, UpdateApprovalTaskStatusCompleted, LabelDecision, ReadRun
  <2>9. CASE DeleteApprovalTask
    BY <2>9 DEF DeleteApprovalTask, NoTask, NoAsg
  <2>10. CASE RequestCancel \/ RequestDelete
    BY <2>10 DEF RequestCancel, RequestDelete
  <2>11. CASE Crash
    BY <2>11 DEF Crash, NoAsg
  <2>12. QED
    BY <2>1, <2>2, <2>3, <2>4, <2>5, <2>6, <2>7, <2>8, <2>9, <2>10, <2>11
       DEF Next, vars, Reconciler, Assignment, Owner, DropEvent, ReceiveUpdate, Observe
<1>6. QED
  BY <1>5

(* A write to a completed run writes what is there.                        *)
LEMMA FinalStep ==
  ASSUME ValuesOK, AllSourced, Calm, Kept, isCompleted(run.status), [Next]_vars
  PROVE  run'.status = run.status
<1> USE StatusWith DEF ValuesOK, AllSourced, Sourced, Calm, Kept, isCompleted
<1>1. CASE CreateApprovalTask
  BY <1>1 DEF CreateApprovalTask, instance, NoTask
<1>2. CASE DropEvent
  BY <1>2 DEF DropEvent, instance
<1>3. CASE ReceiveUpdate
  BY <1>3 DEF ReceiveUpdate, instance
<1>4. CASE OnUpdate
  BY <1>4 DEF OnUpdate, instance, Deleted
<1>5. CASE UpdateRunStatusCompleted
  <2>1. resource.status = run.status /\ run.status.cond = "True"
    BY <1>5 DEF UpdateRunStatusCompleted
  <2>2. run'.status = WithCond(resource.status, "True")
    BY <1>5 DEF UpdateRunStatusCompleted, PatchStatus
  <2>3. QED
    BY <2>1, <2>2 DEF WithCond, Status
<1>6. CASE Propagate
  <2>1. resource.status = run.status
    BY <1>6 DEF Propagate, AtWaitState
  <2>2. run' = run \/ run' = [run EXCEPT !.status = resource.status]
    BY <1>6 DEF Propagate, PatchStatus
  <2>3. QED
    BY <2>1, <2>2
<1>7. CASE OnDelete
  BY <1>7 DEF OnDelete, instance, NoInstance, NoCopy, NoStatus, Deleted, NoTmr
<1>8. CASE Expire
  BY <1>8 DEF Expire, instance, NoTmr, NoStatus
<1>9. CASE TimeoutDelete
  BY <1>9 DEF TimeoutDelete, instance, Deleted
<1>10. CASE TimeoutRead
  BY <1>10 DEF TimeoutRead, instance, NoTmr, NoStatus
<1>11. CASE TimeoutPatch
  BY <1>11 DEF TimeoutPatch, instance, PatchStatus, NoTmr, NoStatus
<1>12. CASE InitializeApprovalTask
  BY <1>12 DEF InitializeApprovalTask, instance, NoAsg, NoStatus
<1>13. CASE Approver
  BY <1>13 DEF Approver, instance, Decide
<1>14. CASE UpdateApprovalTaskStatusCompleted
  BY <1>14 DEF UpdateApprovalTaskStatusCompleted, instance
<1>15. CASE LabelDecision
  BY <1>15 DEF LabelDecision, instance
<1>16. CASE ReadRun
  BY <1>16 DEF ReadRun, instance
<1>17. CASE UpdateRunResultsCompleted
  BY <1>17 DEF UpdateRunResultsCompleted, instance, PatchStatus
<1>18. CASE DeleteApprovalTask
  BY <1>18 DEF DeleteApprovalTask, instance, NoTask, NoAsg, NoStatus
<1>19. CASE Observe
  BY <1>19 DEF Observe, instance
<1>20. CASE RequestCancel
  BY <1>20 DEF RequestCancel, instance
<1>21. CASE RequestDelete
  BY <1>21 DEF RequestDelete, instance
<1>22. CASE Crash
  BY <1>22 DEF Crash, instance, NoInstance, NoCopy, NoTmr, NoAsg, NoStatus
<1>23. CASE UNCHANGED vars
  BY <1>23 DEF vars, instance
<1>24. QED
  BY <1>1, <1>2, <1>3, <1>4, <1>5, <1>6, <1>7, <1>8, <1>9, <1>10,
     <1>11, <1>12, <1>13, <1>14, <1>15, <1>16, <1>17, <1>18, <1>19,
     <1>20, <1>21, <1>22, <1>23
     DEF Next, Reconciler, Timer, Assignment, Owner

(* Without a timeout and a cancel, a completed run stays as it was, to the *)
(* results, for any number of restarts: no thread holds an older copy that *)
(* it will still write.                                                    *)
THEOREM CompletedStays == SafetySpec => CompletedIsFinal
<1> DEFINE Final == /\ ~fired /\ run.spec # "RunCancelled" /\ isCompleted(run.status)
                      => run'.status = run.status
<1>1. Init => (Calm => Kept /\ KeptSaved)
  BY DEF Init, Kept, KeptSaved, NoTask, NoAsg, NoCopy, NotSaved, NoStatus, isCompleted
<1>2. ValuesOK /\ FlagsOK /\ DiskOK /\ AllSourced /\ (Calm => Kept /\ KeptSaved) /\ [Next]_vars
        => (Calm => Kept /\ KeptSaved)'
  BY CalmBefore, KeptStep, KeptSavedStep
<1>3. ValuesOK /\ AllSourced /\ (Calm => Kept /\ KeptSaved) /\ [Next]_vars => [Final]_run
  BY FinalStep DEF Calm
<1>4. QED
  BY <1>1, <1>2, <1>3, StatusesAreSourced, PTL DEF SafetySpec, CompletedIsFinal
=============================================================================
