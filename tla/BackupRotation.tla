--------------------------- MODULE BackupRotation ---------------------------
(***************************************************************************)
(* The weekly job that rotates the Velero backups of a namespace: it       *)
(* counts them, reads how many to keep from a label of the namespace,      *)
(* lists them, requests the deletion of the oldest, and then the creation  *)
(* of one more.  Namespaces are handled one after the other and share      *)
(* nothing; the model has one.                                             *)
(*                                                                         *)
(* Count and list are two calls, deletions are carried out later by        *)
(* Velero, jobs may overlap (concurrencyPolicy: Allow), a failing job is   *)
(* run again, and the script goes on after any failing call.               *)
(*                                                                         *)
(* A backup is its place in time: names end in a date, and are listed in   *)
(* their order.                                                            *)
(***************************************************************************)
EXTENDS Integers, FiniteSets

CONSTANTS
  Jobs,        \* runs of the script, the second attempts included
  Keep,        \* the label velero.backup.keep
  MaxBackups   \* bound: on the backups there are before the jobs

ASSUME RotationAssumption ==
  /\ Keep \in Nat
  /\ MaxBackups \in Nat

VARIABLES
  names,       \* the backups that velero backup get lists
  requested,   \* those whose deletion has been requested, also when gone
  now,         \* the next backup
  pc,          \* where a job is
  num_backup,  \* its count
  num_delete,  \* how many it is to delete
  todo,        \* the backups it has still to delete
  stuck,       \* history: backups whose deletion could not be requested
  misread,     \* history: a job could not read the label
  fault,       \* history: a call failed, a pod was lost, or jobs overlapped
  moved        \* history: a backup went between a job's count and its list

vars == <<names, requested, now, pc, num_backup, num_delete, todo, stuck, misread,
          fault, moved>>

Phases == {"idle", "label", "list", "delete", "create", "done"}

TypeOK ==
  /\ now \in Nat
  /\ names \subseteq 0..now - 1
  /\ requested \subseteq 0..now - 1
  /\ pc \in [Jobs -> Phases]
  /\ num_backup \in [Jobs -> Nat]
  /\ num_delete \in [Jobs -> Int]
  /\ todo \in [Jobs -> SUBSET (0..now - 1)]
  /\ stuck \subseteq 0..now - 1
  /\ misread \in BOOLEAN
  /\ fault \in BOOLEAN
  /\ moved \in BOOLEAN

Init ==
  /\ now \in 0..MaxBackups
  /\ names = 0..now - 1
  /\ requested = {}
  /\ pc = [j \in Jobs |-> "idle"]
  /\ num_backup = [j \in Jobs |-> 0]
  /\ num_delete = [j \in Jobs |-> 0]
  /\ todo = [j \in Jobs |-> {}]
  /\ stuck = {}
  /\ misread = FALSE
  /\ fault = FALSE
  /\ moved = FALSE

-----------------------------------------------------------------------------

(* The backups that stay.                                                  *)
Kept == names \ requested

Older(b) == {a \in names : a < b}

NewestMutant(k) ==           \* a mutant of Oldest: the list has the newest first
  {b \in names : Cardinality({a \in names : a > b}) < k}

(* The first k lines of the list, none unless k >= 0.                      *)
Oldest(k) == {b \in names : Cardinality(Older(b)) < k}

KeepOneMoreMutant(n, keep) == \* a mutant of Surplus: no room for the new backup
  n - keep

DeleteOneMoreMutant(n, keep) ==
  n - keep + 2

(* How many to delete, so that with the new one there are keep.            *)
Surplus(n, keep) == n - keep + 1

Active(j) == pc[j] \notin {"idle", "done"}

(* num_backup: 0 when the call fails.                                      *)
Count(j) ==
  /\ pc[j] = "idle"
  /\ \E n \in {Cardinality(names), 0} :
       /\ num_backup' = [num_backup EXCEPT ![j] = n]
       /\ fault' = (fault \/ n # Cardinality(names) \/ \E i \in Jobs : Active(i))
  /\ pc' = [pc EXCEPT ![j] = "label"]
  /\ UNCHANGED <<names, requested, now, num_delete, todo, stuck, misread, moved>>

(* num_keep_backup: empty, which counts as 0, when the call fails.         *)
ReadLabel(j) ==
  /\ pc[j] = "label"
  /\ \E keep \in {Keep, 0} :
       /\ num_delete' = [num_delete EXCEPT ![j] = Surplus(num_backup[j], keep)]
       /\ misread' = (misread \/ keep # Keep)
       /\ fault' = (fault \/ keep # Keep)
  /\ pc' = [pc EXCEPT ![j] = "list"]
  /\ UNCHANGED <<names, requested, now, num_backup, todo, stuck, moved>>

(* The names of those to delete: none when the call fails.                 *)
List(j) ==
  /\ pc[j] = "list"
  /\ \E failed \in BOOLEAN :
       /\ todo' = [todo EXCEPT ![j] = IF failed THEN {} ELSE Oldest(num_delete[j])]
       /\ fault' = (fault \/ failed)
  /\ pc' = [pc EXCEPT ![j] = "delete"]
  /\ UNCHANGED <<names, requested, now, num_backup, num_delete, stuck, misread, moved>>

(* velero delete backup, the oldest first: a request, or a failing call.   *)
Delete(j, b) ==
  /\ pc[j] = "delete"
  /\ b \in todo[j] /\ \A a \in todo[j] : b <= a
  /\ todo' = [todo EXCEPT ![j] = @ \ {b}]
  /\ \/ requested' = requested \cup {b} /\ UNCHANGED <<stuck, fault>>
     \/ stuck' = stuck \cup {b} /\ fault' = TRUE /\ UNCHANGED requested
  /\ UNCHANGED <<names, now, pc, num_backup, num_delete, misread, moved>>

DeleteAll(j) ==
  /\ pc[j] = "delete" /\ todo[j] = {}
  /\ pc' = [pc EXCEPT ![j] = "create"]
  /\ UNCHANGED <<names, requested, now, num_backup, num_delete, todo, stuck, misread, fault,
                 moved>>

(* velero backup create, which may fail.                                   *)
Create(j) ==
  /\ pc[j] = "create"
  /\ \/ names' = names \cup {now} /\ now' = now + 1 /\ UNCHANGED fault
     \/ UNCHANGED <<names, now>> /\ fault' = TRUE
  /\ pc' = [pc EXCEPT ![j] = "done"]
  /\ UNCHANGED <<requested, num_backup, num_delete, todo, stuck, misread, moved>>

(* The job's pod is lost.                                                  *)
Killed(j) ==
  /\ Active(j)
  /\ pc' = [pc EXCEPT ![j] = "done"]
  /\ todo' = [todo EXCEPT ![j] = {}]
  /\ fault' = TRUE
  /\ UNCHANGED <<names, requested, now, num_backup, num_delete, stuck, misread, moved>>

(* Velero carries out a deletion.                                          *)
Remove(b) ==
  /\ b \in requested
  /\ names' = names \ {b}
  /\ moved' = (moved \/ \E j \in Jobs : pc[j] \in {"label", "list"})
  /\ UNCHANGED <<requested, now, pc, num_backup, num_delete, todo, stuck, misread, fault>>

Next ==
  \/ \E j \in Jobs :
       \/ Count(j) \/ ReadLabel(j) \/ List(j) \/ DeleteAll(j) \/ Create(j) \/ Killed(j)
       \/ \E b \in todo[j] : Delete(j, b)
  \/ \E b \in names : Remove(b)

Spec == Init /\ [][Next]_vars
-----------------------------------------------------------------------------
(* Properties.                                                             *)

(* Whatever jobs overlap, fail and are run again, and however they misread *)
(* the label: what is deleted is older than what stays, but for a backup   *)
(* whose own deletion failed (head of the list, in its order).             *)
NewestSurvive ==
  \A a \in Kept, b \in requested : b < a \/ a \in stuck

(* At least keep - 1 backups stay, or as many as there were, also while    *)
(* jobs overlap and are broken off or run again while their deletions are  *)
(* still being carried out.  Two things are needed: the label was read,    *)
(* and no deletion was completed between a job's count and its list, which *)
(* are two calls (lines 6 and 14).                                         *)
EnoughKept ==
  ~misread /\ ~moved =>
    Cardinality(Kept) >= Keep - 1 \/ requested = {}

(* When nothing goes wrong, each job leaves as many backups as the label   *)
(* says, or all there ever were, and at least the one it makes; deletions  *)
(* that the job before has left behind are not counted twice.              *)
SettlesAtKeep ==
  /\ ~fault /\ ~moved
  /\ \E j \in Jobs : pc[j] = "done"
  /\ \A j \in Jobs : ~Active(j)
  => Cardinality(Kept) = IF now < Keep THEN now ELSE IF Keep = 0 THEN 1 ELSE Keep
=============================================================================
