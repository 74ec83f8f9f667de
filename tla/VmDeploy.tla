------------------------------ MODULE VmDeploy ------------------------------
(***************************************************************************)
(* How a frontend gets to the machines it runs on: the deploy pipelines    *)
(* run task vm-deploy once for each machine, one after the other.  The     *)
(* task makes two calls over ssh: prepare removes the container, run       *)
(* starts one of the new image.  In between nothing serves there.          *)
(*                                                                         *)
(* The remote scripts do not stop at a failing command: what a call        *)
(* returns is the status of the last one.  So a failing podman login fails *)
(* the task, but a failing podman run does not, because podman image prune *)
(* comes after it.                                                         *)
(*                                                                         *)
(* Nothing keeps two runs apart, and a broken-off task leaves its remote   *)
(* command behind.                                                         *)
(***************************************************************************)
EXTENDS Naturals

CONSTANTS
  Runs,          \* PipelineRuns of the deploy pipeline
  NMachines,     \* its machines: remote-ip, remote-ip-2
  Images,        \* images (build ids) that a run may be asked to deploy
  Image0,        \* what the machines run before
  None           \* neither an image nor a run

ASSUME VmAssumption ==
  /\ NMachines \in Nat
  /\ None \notin Images \cup {Image0}
  /\ None \notin Runs

Machines == 1..NMachines

VARIABLES
  goal,          \* the image that a run is to deploy, once it is triggered
  task,          \* where a run is on each machine
  container,     \* the image of a machine's container, if it has one
  up,            \* that container runs
  last,          \* history: the run that was triggered last
  disturbed,     \* history: runs that were not alone, or whose podman run failed
  taken          \* history: the run that took a machine's container away, if that
                 \* is why it does not serve (not podman run, not a restart)

vars == <<goal, task, container, up, last, disturbed, taken>>

TypeOK ==
  /\ goal \in [Runs -> Images \cup {None}]
  /\ task \in [Runs -> [Machines ->
                {"pending", "removing", "prepared", "orphan", "ok", "failed"}]]
  /\ container \in [Machines -> Images \cup {Image0, None}]
  /\ up \in [Machines -> BOOLEAN]
  /\ last \in Runs \cup {None}
  /\ disturbed \subseteq Runs
  /\ taken \in [Machines -> Runs \cup {None}]

Init ==
  /\ goal = [r \in Runs |-> None]
  /\ task = [r \in Runs |-> [m \in Machines |-> "pending"]]
  /\ container = [m \in Machines |-> Image0]
  /\ up = [m \in Machines |-> TRUE]
  /\ last = None
  /\ disturbed = {}
  /\ taken = [m \in Machines |-> None]

-----------------------------------------------------------------------------

Triggered == {r \in Runs : goal[r] # None}

(* A remote command that goes on without its task: the first, the second.  *)
Orphaned(r, m) == task[r][m] \in {"removing", "orphan"}

Failed(r)    == \E m \in Machines : Orphaned(r, m) \/ task[r][m] = "failed"
Succeeded(r) == r \in Triggered /\ \A m \in Machines : task[r][m] = "ok"
Ended(r)     == Failed(r) \/ Succeeded(r)

(* A run, or the remote command that it left, may still do something.      *)
Busy(r) ==
  /\ r \in Triggered
  /\ ~Ended(r) \/ \E m \in Machines : Orphaned(r, m)

TogetherMutant(r, m) ==       \* a mutant of After: vm-deploy-2 without runAfter
  TRUE

(* runAfter: the machines one after the other.                             *)
After(r, m) == \A n \in Machines : n < m => task[r][n] = "ok"

Ready(r, m) ==
  /\ r \in Triggered /\ ~Failed(r)
  /\ task[r][m] = "pending" /\ After(r, m)

Becomes(r, m, s) == task' = [task EXCEPT ![r][m] = s]

-----------------------------------------------------------------------------
(* A PipelineRun of the deploy pipeline is created for image i.            *)
Trigger(r, i) ==
  /\ goal[r] = None
  /\ goal' = [goal EXCEPT ![r] = i]
  /\ last' = r
  /\ disturbed' = disturbed \cup
       IF \E s \in Runs : Busy(s) THEN {r} \cup {s \in Runs : Busy(s)} ELSE {}
  /\ UNCHANGED <<task, container, up, taken>>

NoRemoveMutant(r, m) ==       \* a mutant of Prepare: no podman rm -f
  /\ Ready(r, m)
  /\ Becomes(r, m, "prepared")
  /\ UNCHANGED <<goal, container, up, last, disturbed, taken>>

(* prepare: podman rm -f and podman login, which may fail; or what is left *)
(* of this call when its task is gone.                                     *)
Prepare(r, m) ==
  /\ \/ Ready(r, m) /\ \E s \in {"prepared", "failed"} : Becomes(r, m, s)
     \/ task[r][m] = "removing" /\ Becomes(r, m, "failed")
  /\ container' = [container EXCEPT ![m] = None]
  /\ up' = [up EXCEPT ![m] = FALSE]
  /\ taken' = [taken EXCEPT ![m] = r]
  /\ UNCHANGED <<goal, last, disturbed>>

(* The remote command of the second call ends.  The task, if it is still   *)
(* there, gets the status of podman image prune, which may fail, too.      *)
Returns(r, m) ==
  \/ task[r][m] = "prepared" /\ \E s \in {"ok", "failed"} : Becomes(r, m, s)
  \/ task[r][m] = "orphan" /\ Becomes(r, m, "failed")

(* run: podman run does nothing if there is a container of that name.      *)
RunContainer(r, m) ==
  /\ Returns(r, m)
  /\ IF container[m] = None
       THEN /\ container' = [container EXCEPT ![m] = goal[r]]
            /\ up' = [up EXCEPT ![m] = TRUE]
            /\ taken' = [taken EXCEPT ![m] = None]
       ELSE UNCHANGED <<container, up, taken>>
  /\ UNCHANGED <<goal, last, disturbed>>

(* The same when podman run fails: the image cannot be pulled, or the      *)
(* container is created but cannot start.                                  *)
RunContainerFails(r, m) ==
  /\ Returns(r, m)
  /\ \/ UNCHANGED container
     \/ container[m] = None /\ container' = [container EXCEPT ![m] = goal[r]]
  /\ disturbed' = disturbed \cup {r}
  /\ taken' = [taken EXCEPT ![m] = None]
  /\ UNCHANGED <<goal, up, last>>

(* The ssh connection or the pod is lost, or the run is cancelled or out   *)
(* of time, while a call is under way: the remote command has not begun,   *)
(* or goes on without its task.                                            *)
BreakOff(r, m) ==
  /\ \/ Ready(r, m) /\ \E s \in {"failed", "removing"} : Becomes(r, m, s)
     \/ task[r][m] = "prepared" /\ \E s \in {"failed", "orphan"} : Becomes(r, m, s)
  /\ UNCHANGED <<goal, container, up, last, disturbed, taken>>

(* A machine is restarted: podman run -d has no restart policy.            *)
Reboot(m) ==
  /\ up[m]
  /\ up' = [up EXCEPT ![m] = FALSE]
  /\ taken' = [taken EXCEPT ![m] = None]
  /\ disturbed' = disturbed \cup Triggered
  /\ UNCHANGED <<goal, task, container, last>>

Step(r) ==
  \E m \in Machines :
    Prepare(r, m) \/ RunContainer(r, m) \/ RunContainerFails(r, m) \/ BreakOff(r, m)

Next ==
  \/ \E r \in Runs : \E i \in Images : Trigger(r, i)
  \/ \E r \in Runs : Step(r)
  \/ \E m \in Machines : Reboot(m)

Spec == Init /\ [][Next]_vars
-----------------------------------------------------------------------------
(* Properties.                                                             *)

(* Whatever an earlier deployment left behind on the machines (a missing   *)
(* container, one that does not run, different images), a green run that   *)
(* was alone and whose podman run did not fail repairs: both machines      *)
(* serve its image (prepare removes what is there, run starts anew).       *)
GreenRepairs ==
  last # None /\ last \notin disturbed /\ Succeeded(last) =>
    \A m \in Machines : container[m] = goal[last] /\ up[m]

(* A deployment takes one machine out of service at a time (runAfter of    *)
(* vm-deploy-2): of two machines that do not serve no run has taken away   *)
(* both containers, also when runs overlap, fail, or leave a command       *)
(* behind.  A machine that does not serve for another reason does not      *)
(* count: nothing in the code notices that it was restarted, or that       *)
(* podman run failed, and then the run goes on to the next machine.        *)
ServiceStays ==
  \A m, n \in Machines : m # n /\ ~up[m] /\ ~up[n] =>
    taken[m] = None \/ taken[m] # taken[n]
=============================================================================
