--------------------------- MODULE FrontendProofs ---------------------------
(***************************************************************************)
(* Theorems about FrontendDelivery, for any number of builds, images, runs *)
(* and machines.  Inv is about the machines, steps of [Next]_vars; Named   *)
(* about what the text between build and deployment names.                 *)
(***************************************************************************)
EXTENDS FrontendDelivery, TLAPS

Results == {"pending", "removing", "prepared", "orphan", "ok", "failed"}

(* The types, values and flags apart.                                      *)
Values ==
  /\ goal \in [Runs -> Images \cup {None}]
  /\ task \in [Runs -> [Machines -> Results]]
  /\ container \in [Machines -> Images \cup {Image0, None}]
  /\ last \in Runs \cup {None}
  /\ disturbed \subseteq Runs
  /\ taken \in [Machines -> Runs \cup {None}]

Flags == up \in [Machines -> BOOLEAN]

(* The machines of a run come one after the other, none before the run is  *)
(* triggered.                                                              *)
OneByOne ==
  /\ Triggered # {} => last # None
  /\ \A r \in Runs, m \in Machines :
       task[r][m] # "pending" => r \in Triggered /\ After(r, m)

(* A last run that is alone: what each task of it has left.                *)
Alone ==
  last # None /\ last \notin disturbed =>
    /\ last \in Triggered
    /\ \A r \in Runs \ {last} : ~Busy(r)
    /\ \A m \in Machines : task[last][m] = "prepared" => container[m] = None
    /\ \A m \in Machines : task[last][m] = "ok" => container[m] = goal[last] /\ up[m]

(* A run that took away a container that is not replaced is at work on the *)
(* machine, or failed there.                                               *)
Taken ==
  \A m \in Machines : ~up[m] /\ taken[m] # None =>
    container[m] = None /\ task[taken[m]][m] \in {"prepared", "orphan", "failed"}

Inv == Values /\ Flags /\ OneByOne /\ Alone /\ Taken

-----------------------------------------------------------------------------
(* Steps, task by task.                                                    *)

LEMMA OneTask ==
  ASSUME NEW r \in Runs, NEW m \in Machines, NEW s, Values, Becomes(r, m, s)
  PROVE  \A q \in Runs, n \in Machines :
           task'[q][n] = IF q = r /\ n = m THEN s ELSE task[q][n]
BY DEF Becomes, Values

(* A step moves one task of one run on.                                    *)
Moves(r, m, s) ==
  /\ Becomes(r, m, s) /\ s \in {"removing", "prepared", "orphan", "ok", "failed"}
  /\ UNCHANGED <<goal, last>>
  /\ \/ Ready(r, m) /\ s \in {"removing", "prepared", "failed"}
     \/ task[r][m] = "prepared" /\ s \notin {"removing", "prepared"}
     \/ Orphaned(r, m) /\ s = "failed"

LEMMA Moving ==
  ASSUME NEW r \in Runs, NEW m \in Machines, Values,
         Prepare(r, m) \/ RunContainer(r, m) \/ RunContainerFails(r, m) \/ BreakOff(r, m)
  PROVE  \E s \in Results : Moves(r, m, s)
<1> USE DEF Moves, Results, Orphaned
<1>1. CASE Prepare(r, m)  BY <1>1 DEF Prepare, Ready
<1>2. CASE RunContainer(r, m)  BY <1>2 DEF RunContainer, Returns
<1>3. CASE RunContainerFails(r, m)  BY <1>3 DEF RunContainerFails, Returns
<1>4. CASE BreakOff(r, m)  BY <1>4 DEF BreakOff, Ready
<1> QED  BY <1>1, <1>2, <1>3, <1>4

LEMMA Steps ==
  ASSUME Values, [Next]_vars
  PROVE  \/ UNCHANGED vars
         \/ \E r \in Runs, i \in Images : Trigger(r, i)
         \/ \E m \in Machines : Reboot(m)
         \/ \E r \in Runs, m \in Machines :
              /\ \/ Prepare(r, m) \/ RunContainer(r, m) \/ RunContainerFails(r, m)
                 \/ BreakOff(r, m)
              /\ \E s \in Results : Moves(r, m, s)
BY Moving DEF Next, Step

LEMMA TypeStep ==
  ASSUME Values, Flags, [Next]_vars
  PROVE  Values' /\ Flags'
<1>1. CASE UNCHANGED vars  BY <1>1 DEF vars, Values, Flags
<1>2. ASSUME NEW r \in Runs, NEW i \in Images, Trigger(r, i) PROVE Values' /\ Flags'
  <2>1. disturbed' \subseteq Runs  BY <1>2 DEF Trigger, Values
  <2> QED  BY <1>2, <2>1 DEF Trigger, Values, Flags
<1>3. ASSUME NEW m \in Machines, Reboot(m) PROVE Values' /\ Flags'
  BY <1>3 DEF Reboot, Values, Flags, Triggered
<1>4. ASSUME NEW r \in Runs, NEW m \in Machines, NEW s \in Results, Moves(r, m, s),
             Prepare(r, m) \/ RunContainer(r, m) \/ RunContainerFails(r, m) \/ BreakOff(r, m)
      PROVE Values' /\ Flags'
  <2>1. goal' = goal /\ last' = last
        /\ task' \in [Runs -> [Machines -> Results]]
    BY <1>4 DEF Moves, Becomes, Values
  <2>2. /\ container' \in [Machines -> Images \cup {Image0, None}]
        /\ up' \in [Machines -> BOOLEAN]
        /\ disturbed' \subseteq Runs
        /\ taken' \in [Machines -> Runs \cup {None}]
    <3>1. CASE Prepare(r, m)  BY <3>1 DEF Prepare, Values, Flags
    <3>2. CASE RunContainer(r, m)  BY <3>2 DEF RunContainer, Values, Flags
    <3>3. CASE RunContainerFails(r, m)  BY <3>3 DEF RunContainerFails, Values, Flags
    <3>4. CASE BreakOff(r, m)  BY <3>4 DEF BreakOff, Values, Flags
    <3> QED  BY <1>4, <3>1, <3>2, <3>3, <3>4
  <2> QED  BY <2>1, <2>2 DEF Values, Flags
<1> QED  BY <1>1, <1>2, <1>3, <1>4, Steps

LEMMA Order == ASSUME NEW m \in Machines, NEW n \in Machines, m # n PROVE m < n \/ n < m
BY VmAssumption DEF Machines

LEMMA Irreflexive == ASSUME NEW m \in Machines PROVE ~(m < m)
BY VmAssumption DEF Machines

LEMMA OneByOneStep ==
  ASSUME Values, OneByOne, [Next]_vars
  PROVE  OneByOne'
<1>1. CASE UNCHANGED vars  BY <1>1 DEF vars, OneByOne, Triggered, After
<1>2. ASSUME NEW r \in Runs, NEW i \in Images, Trigger(r, i) PROVE OneByOne'
  <2>1. /\ task' = task /\ last' # None
        /\ \A q \in Runs : goal[q] # None => goal'[q] = goal[q]
    BY <1>2, VmAssumption DEF Trigger, Values
  <2> QED  BY <2>1 DEF OneByOne, Triggered, After
<1>3. ASSUME NEW m \in Machines, Reboot(m) PROVE OneByOne'
  BY <1>3 DEF Reboot, OneByOne, Triggered, After
<1>4. ASSUME NEW r \in Runs, NEW m \in Machines, NEW s \in Results, Moves(r, m, s)
      PROVE OneByOne'
  <2>1. \A q \in Runs, n \in Machines :
          task'[q][n] = IF q = r /\ n = m THEN s ELSE task[q][n]
    BY <1>4, OneTask DEF Moves
  <2>2. goal' = goal /\ last' = last /\ task[r][m] # "ok" /\ (task[r][m] = "pending" => Ready(r, m))
    BY <1>4 DEF Moves, Ready, Orphaned
  <2>3. \A q \in Runs, n \in Machines : task[q][n] = "ok" => task'[q][n] = "ok"
    BY <2>1, <2>2
  <2>4. \A q \in Runs, n \in Machines : task'[q][n] # "pending" =>
          q \in Triggered /\ After(q, n)
    BY <2>1, <2>2 DEF OneByOne, Ready
  <2> QED  BY <2>2, <2>3, <2>4 DEF OneByOne, Triggered, After
<1> QED  BY <1>1, <1>2, <1>3, <1>4, Steps

(* A run with a prepared task has not failed, nor ended; of two tasks that *)
(* are begun, one is done.                                                 *)
LEMMA Position ==
  ASSUME Values, OneByOne, NEW r \in Runs
  PROVE  /\ \A m, n \in Machines : m # n /\ task[r][m] # "pending" /\ task[r][n] # "pending" =>
              task[r][m] = "ok" \/ task[r][n] = "ok"
         /\ \A m \in Machines : task[r][m] = "prepared" => ~Failed(r) /\ Busy(r)
         /\ \A m \in Machines : Orphaned(r, m) => Busy(r)
         /\ \A m \in Machines : Ready(r, m) => Busy(r)
<1>1. \A m, n \in Machines : m # n /\ task[r][m] # "pending" /\ task[r][n] # "pending" =>
        task[r][m] = "ok" \/ task[r][n] = "ok"
  BY Order DEF OneByOne, After
<1>2. \A m \in Machines : task[r][m] = "prepared" => ~Failed(r)
  BY <1>1 DEF Failed, Orphaned
<1>3. \A m \in Machines : task[r][m] = "prepared" => Busy(r)
  BY <1>2 DEF Busy, Ended, Succeeded, OneByOne
<1>4. \A m \in Machines : Orphaned(r, m) => Busy(r)
  BY DEF Busy, OneByOne, Orphaned
<1>5. \A m \in Machines : Ready(r, m) => Busy(r)
  BY DEF Busy, Ended, Succeeded, Ready
<1> QED  BY <1>1, <1>2, <1>3, <1>4, <1>5

-----------------------------------------------------------------------------
LEMMA AloneTrigger ==
  ASSUME Inv, NEW r \in Runs, NEW i \in Images, Trigger(r, i)
  PROVE  Alone'
<1> SUFFICES ASSUME (last # None /\ last \notin disturbed)'
             PROVE  /\ last' \in Triggered'
                    /\ \A q \in Runs \ {last'} : ~Busy(q)'
                    /\ \A m \in Machines : task'[last'][m] \notin {"prepared", "ok"}
  BY DEF Alone
<1>1. /\ last' = r /\ task' = task
      /\ goal[r] = None /\ goal' = [goal EXCEPT ![r] = i] /\ i # None
      /\ ~\E s \in Runs : Busy(s)
  BY VmAssumption DEF Trigger
<1>2. \A m \in Machines : task[r][m] = "pending"
  BY <1>1 DEF Inv, OneByOne, Triggered
<1>3. \A q \in Runs \ {r} : goal'[q] = goal[q]  BY <1>1 DEF Inv, Values
<1>4. \A q \in Runs \ {r} : Busy(q)' <=> Busy(q)
  BY <1>1, <1>3 DEF Busy, Ended, Failed, Orphaned, Succeeded, Triggered
<1>5. goal'[r] = i  BY <1>1 DEF Inv, Values
<1> QED  BY <1>1, <1>2, <1>4, <1>5 DEF Triggered

LEMMA AloneMoves ==
  ASSUME Inv, NEW r \in Runs, NEW m \in Machines, NEW s \in Results, Moves(r, m, s),
         Prepare(r, m) \/ RunContainer(r, m) \/ RunContainerFails(r, m) \/ BreakOff(r, m)
  PROVE  Alone'
<1> SUFFICES ASSUME last' # None, last' \notin disturbed'
             PROVE  /\ last' \in Triggered'
                    /\ \A q \in Runs \ {last'} : ~Busy(q)'
                    /\ \A n \in Machines : task'[last'][n] = "prepared" => container'[n] = None
                    /\ \A n \in Machines : task'[last'][n] = "ok" =>
                         container'[n] = goal'[last'] /\ up'[n]
  BY DEF Alone
<1>1. goal' = goal /\ last' = last  BY DEF Moves
<1>2. disturbed \subseteq disturbed'
  BY DEF Prepare, RunContainer, RunContainerFails, BreakOff
<1>3. last # None /\ last \notin disturbed  BY <1>1, <1>2
<1>4. /\ last \in Triggered
      /\ \A q \in Runs \ {last} : ~Busy(q)
      /\ \A n \in Machines : task[last][n] = "prepared" => container[n] = None
      /\ \A n \in Machines : task[last][n] = "ok" => container[n] = goal[last] /\ up[n]
  BY <1>3 DEF Inv, Alone
<1>5. r = last
  BY <1>4, Position DEF Inv, Moves
<1>6. ~RunContainerFails(r, m)  BY <1>1, <1>5 DEF RunContainerFails
<1>7. \A q \in Runs, n \in Machines :
        task'[q][n] = IF q = r /\ n = m THEN s ELSE task[q][n]
  BY OneTask DEF Inv, Moves
<1>8. \A q \in Runs \ {last} : ~Busy(q)'
  BY <1>1, <1>4, <1>5, <1>7 DEF Busy, Ended, Failed, Orphaned, Succeeded, Triggered
<1>9. /\ \A n \in Machines \ {m} : container'[n] = container[n] /\ (up'[n] <=> up[n])
      /\ s = "prepared" => container'[m] = None
      /\ s = "ok" => container'[m] = goal[last] /\ up'[m]
  <2>0. container \in [Machines -> Images \cup {Image0, None}] /\ up \in [Machines -> BOOLEAN]
    BY DEF Inv, Values, Flags
  <2>1. CASE Prepare(r, m)
    <3>1. s # "ok"
      <4>1. task'[r][m] = s  BY <1>7
      <4>2. \E t \in {"prepared", "failed"} : Becomes(r, m, t)
        BY <2>1 DEF Prepare
      <4>3. task'[r][m] \in {"prepared", "failed"}  BY <4>2, OneTask DEF Inv
      <4> QED  BY <4>1, <4>3
    <3> QED  BY <2>0, <2>1, <3>1 DEF Prepare
  <2>2. CASE RunContainer(r, m)
    <3>1. s # "prepared"
      BY <2>2 DEF RunContainer, Returns, Moves, Ready
    <3>2. s = "ok" => task[r][m] = "prepared"
      BY DEF Moves
    <3>3. s = "ok" => container[m] = None  BY <1>4, <1>5, <3>2
    <3>4. container[m] = None => container' = [container EXCEPT ![m] = goal[r]]
                                 /\ up' = [up EXCEPT ![m] = TRUE]
      BY <2>2 DEF RunContainer
    <3>5. container[m] # None => UNCHANGED <<container, up>>
      BY <2>2 DEF RunContainer
    <3> QED  BY <1>5, <2>0, <3>1, <3>3, <3>4, <3>5
  <2>3. CASE BreakOff(r, m)
    <3>1. s \in {"failed", "orphan", "removing"}
      <4>1. task'[r][m] = s  BY <1>7
      <4>2. \E t \in {"failed", "orphan", "removing"} : Becomes(r, m, t)
        BY <2>3 DEF BreakOff
      <4>3. task'[r][m] \in {"failed", "orphan", "removing"}  BY <4>2, OneTask DEF Inv
      <4> QED  BY <4>1, <4>3
    <3> QED  BY <2>3, <3>1 DEF BreakOff
  <2> QED  BY <1>6, <2>1, <2>2, <2>3
<1> QED  BY <1>1, <1>4, <1>5, <1>7, <1>8, <1>9 DEF Triggered

LEMMA AloneStep ==
  ASSUME Inv, [Next]_vars
  PROVE  Alone'
<1>1. CASE UNCHANGED vars
  BY <1>1 DEF vars, Inv, Alone, Triggered, Busy, Ended, Failed, Orphaned, Succeeded
<1>2. ASSUME NEW m \in Machines, Reboot(m) PROVE Alone'
  BY <1>2 DEF Reboot, Inv, Alone, Triggered
<1> QED  BY <1>1, <1>2, AloneTrigger, AloneMoves, Steps DEF Inv

LEMMA TakenStep ==
  ASSUME Inv, [Next]_vars
  PROVE  Taken'
<1> SUFFICES ASSUME NEW n \in Machines, ~up'[n], taken'[n] # None
             PROVE  /\ container'[n] = None
                    /\ task'[taken'[n]][n] \in {"prepared", "orphan", "failed"}
  BY DEF Taken
<1>0. /\ ~up[n] /\ taken[n] # None =>
           container[n] = None /\ task[taken[n]][n] \in {"prepared", "orphan", "failed"}
      /\ taken[n] # None => taken[n] \in Runs
  BY DEF Inv, Taken, Values
<1>1. CASE UNCHANGED <<task, container, up, taken>>  BY <1>0, <1>1
<1>2. ASSUME NEW m \in Machines, Reboot(m)
      PROVE  n # m /\ UNCHANGED <<task, container>> /\ up'[n] = up[n] /\ taken'[n] = taken[n]
  BY <1>2 DEF Reboot, Inv, Values, Flags
<1>3. ASSUME NEW r \in Runs, NEW m \in Machines, NEW s \in Results, Moves(r, m, s),
             Prepare(r, m) \/ RunContainer(r, m) \/ RunContainerFails(r, m) \/ BreakOff(r, m)
      PROVE  /\ container'[n] = None
             /\ task'[taken'[n]][n] \in {"prepared", "orphan", "failed"}
  <2>1. \A q \in Runs, k \in Machines :
          task'[q][k] = IF q = r /\ k = m THEN s ELSE task[q][k]
    BY <1>3, OneTask DEF Inv, Moves
  <2>2. CASE n # m
    <3>1. container'[n] = container[n] /\ taken'[n] = taken[n]
      BY <1>3, <2>2 DEF Prepare, RunContainer, RunContainerFails, BreakOff, Inv, Values
    <3>2. up'[n] <=> up[n]
      BY <1>3, <2>2 DEF Prepare, RunContainer, RunContainerFails, BreakOff, Inv, Flags
    <3> QED  BY <1>0, <2>1, <2>2, <3>1, <3>2
  <2>3. CASE n = m /\ Prepare(r, m)
    <3>1. container'[n] = None /\ taken'[n] = r  BY <2>3 DEF Prepare, Inv, Values
    <3>2. task'[r][m] \in {"prepared", "failed"}
      BY <2>3, OneTask DEF Prepare, Inv
    <3> QED  BY <2>3, <3>1, <3>2
  <2>4. CASE n = m /\ RunContainer(r, m)
    <3>1. container[m] # None
      BY <2>4 DEF RunContainer, Inv, Flags
    <3>2. UNCHANGED <<container, up, taken>>  BY <2>4, <3>1 DEF RunContainer
    <3> QED  BY <1>0, <2>4, <3>1, <3>2
  <2>5. CASE n = m /\ RunContainerFails(r, m)
    BY <2>5 DEF RunContainerFails, Inv, Values
  <2>6. CASE n = m /\ BreakOff(r, m)
    <3>1. UNCHANGED <<container, up, taken>>  BY <2>6 DEF BreakOff
    <3>2. container[n] = None /\ task[taken[n]][n] \in {"prepared", "orphan", "failed"}
      BY <1>0, <3>1
    <3>3. CASE taken[n] = r
      <4>1. task[r][m] # "pending"  BY <2>6, <3>2, <3>3
      <4>2. \E t \in {"failed", "orphan"} : Becomes(r, m, t)
        BY <2>6, <4>1 DEF BreakOff, Ready
      <4>3. task'[r][m] \in {"failed", "orphan"}  BY <4>2, OneTask DEF Inv
      <4> QED  BY <2>6, <3>1, <3>2, <3>3, <4>3
    <3>4. CASE taken[n] # r
      BY <1>0, <2>1, <3>1, <3>2, <3>4
    <3> QED  BY <3>3, <3>4
  <2> QED  BY <1>3, <2>2, <2>3, <2>4, <2>5, <2>6
<1>4. ASSUME NEW r \in Runs, NEW i \in Images, Trigger(r, i)
      PROVE  UNCHANGED <<task, container, up, taken>>
  BY <1>4 DEF Trigger
<1> QED  BY <1>0, <1>1, <1>2, <1>3, <1>4, Steps DEF Inv, vars

LEMMA InvStep ==
  ASSUME Inv, [Next]_vars
  PROVE  Inv'
<1>1. Values' /\ Flags'  BY TypeStep DEF Inv
<1>2. OneByOne'  BY OneByOneStep DEF Inv
<1> QED  BY <1>1, <1>2, AloneStep, TakenStep DEF Inv

LEMMA InvInit == Init => Inv
<1> SUFFICES ASSUME Init PROVE Inv  OBVIOUS
<1>1. Values /\ Flags  BY DEF Init, Values, Flags, Results
<1>2. OneByOne  BY DEF Init, OneByOne, Triggered
<1>3. Alone  BY DEF Init, Alone
<1>4. Taken  BY DEF Init, Taken
<1> QED  BY <1>1, <1>2, <1>3, <1>4 DEF Inv

LEMMA InvGreen ==
  ASSUME Inv
  PROVE  GreenRepairs
BY DEF Inv, Alone, GreenRepairs, Succeeded

LEMMA InvService ==
  ASSUME Inv
  PROVE  ServiceStays
<1> SUFFICES ASSUME NEW m \in Machines, NEW n \in Machines,
                    m # n, ~up[m], ~up[n], taken[m] # None, taken[m] = taken[n]
             PROVE  FALSE
  BY DEF ServiceStays
<1>1. taken[m] \in Runs  BY DEF Inv, Values
<1>2. {task[taken[m]][m], task[taken[m]][n]} \subseteq {"prepared", "orphan", "failed"}
  BY DEF Inv, Taken
<1> QED  BY <1>1, <1>2, Position DEF Inv

-----------------------------------------------------------------------------
(* From build to deployment.                                               *)

(* What is under a build's id.                                             *)
Pushed(b) ==
  /\ registry[id[b]] # None
  /\ registry[id[b]] = b \/ Collides(b)

Approved(b) == issue[b] = "Deploy-Approved"

DeliveryTypes ==
  /\ id \in [Builds -> Images \cup {None}]
  /\ stage \in [Builds -> {"idle", "clone", "built", "ended"}]
  /\ registry \in [Images -> Builds \cup {None}]
  /\ issue \in [Builds -> {"none", "New", "Deploy-Approved"}]
  /\ cause \in [Runs -> Builds \cup {"chat", None}]

(* An issue is written after the push.                                     *)
Written ==
  \A b \in Builds :
    /\ stage[b] = "idle" <=> id[b] = None
    /\ stage[b] = "built" => Pushed(b)
    /\ issue[b] # "none" => id[b] # None /\ Pushed(b)

(* What a run was triggered by.                                            *)
Caused ==
  \A r \in Runs :
    /\ goal[r] # None => cause[r] # None
    /\ cause[r] \in Builds => Approved(cause[r]) /\ goal[r] = id[cause[r]]

(* Somebody asked for image i.                                             *)
Wanted(i) ==
  \/ \E r \in Runs : cause[r] = "chat" /\ goal[r] = i
  \/ \E b \in Builds : id[b] = i /\ Approved(b) /\ \E r \in Runs : cause[r] = b

(* What the machines hold.                                                 *)
Held ==
  \A m \in Machines :
    /\ up[m] => container[m] # None
    /\ container[m] \notin {None, Image0} => Wanted(container[m])
    /\ up[m] /\ container[m] # Image0 => registry[container[m]] # None

DInv == Inv /\ DeliveryTypes /\ Written /\ Caused /\ Held
-----------------------------------------------------------------------------
LEMMA MachineStep ==
  ASSUME DeliveryTypes, Written, [DeliveryNext]_allVars
  PROVE  [Next]_vars
<1>1. ASSUME NEW b \in Builds, Approve(b) \/ Comment(b) PROVE [Next]_vars
  <2>1. id[b] \in Images  BY <1>1 DEF Approve, Comment, Written, DeliveryTypes
  <2>2. UNCHANGED vars \/ \E r \in Runs : Trigger(r, id[b])
    BY <1>1 DEF Approve, Comment, Webhook
  <2> QED  BY <2>1, <2>2 DEF Next
<1>2. ASSUME NEW b \in Builds, GenerateId(b) \/ BuildImage(b) \/ CreateIssue(b) \/ EndBuild(b)
      PROVE UNCHANGED vars
  BY <1>2 DEF GenerateId, BuildImage, CreateIssue, EndBuild
<1>3. ASSUME NEW r \in Runs, Message(r) PROVE [Next]_vars
  BY <1>3 DEF Message, Next
<1>4. ASSUME NEW r \in Runs, Deploy(r) PROVE [Next]_vars
  BY <1>4 DEF Deploy, Next, Step
<1> QED  BY <1>1, <1>2, <1>3, <1>4 DEF DeliveryNext, allVars, Next

LEMMA DeliveryTypesStep ==
  ASSUME DeliveryTypes, [DeliveryNext]_allVars
  PROVE  DeliveryTypes'
<1>1. CASE UNCHANGED allVars  BY <1>1 DEF allVars, deliveryVars, DeliveryTypes
<1>2. ASSUME NEW b \in Builds, GenerateId(b) PROVE DeliveryTypes'
  BY <1>2 DEF GenerateId, DeliveryTypes
<1>3. ASSUME NEW b \in Builds, BuildImage(b) PROVE DeliveryTypes'
  BY <1>3 DEF BuildImage, DeliveryTypes
<1>4. ASSUME NEW b \in Builds, CreateIssue(b) \/ EndBuild(b) PROVE DeliveryTypes'
  BY <1>4 DEF CreateIssue, EndBuild, DeliveryTypes
<1>5. ASSUME NEW b \in Builds, Approve(b) \/ Comment(b) PROVE DeliveryTypes'
  <2>1. cause' = cause \/ \E r \in Runs : cause' = [cause EXCEPT ![r] = b]
    BY <1>5 DEF Approve, Comment, Webhook
  <2>2. cause' \in [Runs -> Builds \cup {"chat", None}]
    BY <2>1 DEF DeliveryTypes
  <2> QED  BY <1>5, <2>2 DEF Approve, Comment, DeliveryTypes
<1>6. ASSUME NEW r \in Runs, Message(r) PROVE DeliveryTypes'
  BY <1>6 DEF Message, DeliveryTypes
<1>7. ASSUME UNCHANGED deliveryVars PROVE DeliveryTypes'
  BY <1>7 DEF deliveryVars, DeliveryTypes
<1> QED
  BY <1>1, <1>2, <1>3, <1>4, <1>5, <1>6, <1>7 DEF DeliveryNext, Deploy

(* An image stays under its id, unless a build with the same id replaces   *)
(* it.                                                                     *)
LEMMA PushedStays ==
  ASSUME DeliveryTypes, Written, [DeliveryNext]_allVars,
         NEW b \in Builds, id[b] # None, Pushed(b)
  PROVE  id'[b] = id[b] /\ Pushed(b)'
<1>0. None \notin Images /\ None \notin Builds  BY VmAssumption, DeliveryAssumption
<1>1. ASSUME NEW c \in Builds, GenerateId(c) PROVE id'[b] = id[b] /\ Pushed(b)'
  <2>1. id[c] = None /\ registry' = registry  BY <1>1 DEF GenerateId, Written
  <2>2. \A a \in Builds \ {c} : id'[a] = id[a]
    BY <1>1 DEF GenerateId, DeliveryTypes
  <2>3. Collides(b) => Collides(b)'  BY <2>1, <2>2 DEF Collides
  <2> QED  BY <2>1, <2>2, <2>3 DEF Pushed
<1>2. ASSUME NEW c \in Builds, BuildImage(c) PROVE id'[b] = id[b] /\ Pushed(b)'
  <2>1. id' = id /\ stage[c] = "clone" /\ registry' = [registry EXCEPT ![id[c]] = c]
    BY <1>2 DEF BuildImage
  <2>2. CASE id[c] = id[b]
    <3>1. registry'[id[b]] = c  BY <2>1, <2>2, <1>0 DEF DeliveryTypes
    <3>2. c = b \/ Collides(b)'  BY <2>1, <2>2 DEF Collides
    <3> QED  BY <1>0, <2>1, <3>1, <3>2 DEF Pushed
  <2>3. CASE id[c] # id[b]
    BY <2>1, <2>3 DEF Pushed, Collides, DeliveryTypes
  <2> QED  BY <2>2, <2>3
<1>3. CASE UNCHANGED <<id, registry>>  BY <1>3 DEF Pushed, Collides
<1>4. \/ UNCHANGED <<id, registry>>
      \/ \E c \in Builds : GenerateId(c) \/ BuildImage(c)
  BY DEF DeliveryNext, allVars, deliveryVars, CreateIssue, EndBuild, Approve, Comment,
         Message, Deploy
<1> QED  BY <1>1, <1>2, <1>3, <1>4

LEMMA WrittenStep ==
  ASSUME DeliveryTypes, Written, [DeliveryNext]_allVars
  PROVE  Written'
<1>0. None \notin Images /\ None \notin Builds  BY VmAssumption, DeliveryAssumption
<1>s. \A b \in Builds : id[b] # None /\ Pushed(b) => id'[b] = id[b] /\ Pushed(b)'
  BY PushedStays
<1>1. ASSUME NEW b \in Builds, GenerateId(b) PROVE Written'
  <2>1. \A c \in Builds \ {b} : id'[c] = id[c] /\ stage'[c] = stage[c] /\ issue'[c] = issue[c]
    BY <1>1 DEF GenerateId, DeliveryTypes
  <2>2. id'[b] # None /\ stage'[b] = "clone" /\ issue'[b] = "none"
    BY <1>0, <1>1 DEF GenerateId, DeliveryTypes, Written
  <2> QED  BY <1>s, <2>1, <2>2 DEF Written
<1>2. ASSUME NEW b \in Builds, BuildImage(b) PROVE Written'
  <2>1. \A c \in Builds \ {b} : stage'[c] = stage[c]
    BY <1>2 DEF BuildImage, DeliveryTypes
  <2>2. id' = id /\ issue' = issue /\ stage[b] = "clone" /\ stage'[b] = "built"
    BY <1>2 DEF BuildImage, DeliveryTypes
  <2>3. Pushed(b)'
    <3>1. id[b] \in Images  BY <2>2 DEF Written, DeliveryTypes
    <3>2. registry'[id[b]] = b  BY <1>2, <3>1 DEF BuildImage, DeliveryTypes
    <3> QED  BY <1>0, <2>2, <3>2 DEF Pushed
  <2> QED  BY <1>s, <2>1, <2>2, <2>3 DEF Written
<1>3. ASSUME NEW b \in Builds, CreateIssue(b) PROVE Written'
  <2>1. stage[b] = "built" /\ UNCHANGED <<id, stage, registry>>
    BY <1>3 DEF CreateIssue
  <2>2. \A c \in Builds : issue'[c] # "none" => issue[c] # "none" \/ c = b
    BY <1>3 DEF CreateIssue, DeliveryTypes
  <2> QED  BY <1>s, <2>1, <2>2 DEF Written
<1>4. ASSUME NEW b \in Builds, EndBuild(b) PROVE Written'
  <2>1. \A c \in Builds : stage'[c] = stage[c] \/ (c = b /\ stage'[c] = "ended")
    BY <1>4 DEF EndBuild, DeliveryTypes
  <2>2. id' = id /\ issue' = issue /\ stage[b] # "idle"
    BY <1>4 DEF EndBuild
  <2> QED  BY <1>s, <2>1, <2>2 DEF Written
<1>5. ASSUME NEW b \in Builds, Approve(b) \/ Comment(b) PROVE Written'
  <2>1. \A c \in Builds : issue'[c] # "none" => issue[c] # "none"
    BY <1>5 DEF Approve, Comment, DeliveryTypes
  <2>2. UNCHANGED <<id, stage, registry>>  BY <1>5 DEF Approve, Comment
  <2> QED  BY <1>s, <2>1, <2>2 DEF Written
<1>6. CASE UNCHANGED <<id, stage, registry, issue>>
  <2>1. \A b \in Builds : Pushed(b) => Pushed(b)'  BY <1>6 DEF Pushed, Collides
  <2> QED  BY <1>6, <2>1 DEF Written
<1>7. \/ UNCHANGED <<id, stage, registry, issue>>
      \/ \E b \in Builds : GenerateId(b) \/ BuildImage(b) \/ CreateIssue(b) \/ EndBuild(b)
                         \/ Approve(b) \/ Comment(b)
  BY DEF DeliveryNext, allVars, deliveryVars, Message, Deploy
<1> QED  BY <1>1, <1>2, <1>3, <1>4, <1>5, <1>6, <1>7

(* The cause of a new run, and what it is to deploy.                       *)
LEMMA CausedStep ==
  ASSUME Values, DeliveryTypes, Written, Caused, [DeliveryNext]_allVars
  PROVE  Caused'
<1>0. None \notin Images /\ None \notin Builds /\ "chat" \notin Builds \cup {None}
  BY VmAssumption, DeliveryAssumption
<1>1. \A b \in Builds : id[b] # None => id'[b] = id[b]
  <2>1. \/ id' = id
        \/ \E c \in Builds : id[c] = None /\ \E i : id' = [id EXCEPT ![c] = i]
    BY DEF DeliveryNext, allVars, deliveryVars, GenerateId, BuildImage, CreateIssue, EndBuild,
           Approve, Comment, Message, Deploy, Written
  <2> QED  BY <2>1 DEF DeliveryTypes
<1>2. \A b \in Builds : Approved(b) => Approved(b)' /\ id[b] # None
  <2>1. \/ issue' = issue
        \/ \E c \in Builds : issue[c] # "Deploy-Approved" /\ \E s : issue' = [issue EXCEPT ![c] = s]
    BY DEF DeliveryNext, allVars, deliveryVars, GenerateId, BuildImage, CreateIssue, EndBuild,
           Approve, Comment, Message, Deploy
  <2> QED  BY <2>1 DEF DeliveryTypes, Approved, Written
<1>3. CASE UNCHANGED <<goal, cause>>  BY <1>1, <1>2, <1>3 DEF Caused
<1>4. ASSUME NEW r \in Runs, NEW i, NEW c,
             goal' = [goal EXCEPT ![r] = i], cause' = [cause EXCEPT ![r] = c],
             c \in Builds => Approved(c)' /\ id[c] # None /\ i = id[c],
             c \in Builds \cup {"chat"}
      PROVE Caused'
  <2>1. c # None
    BY <1>0, <1>4 DEF DeliveryTypes
  <2>2. \A q \in Runs \ {r} : goal'[q] = goal[q] /\ cause'[q] = cause[q]
    BY <1>4 DEF Values, DeliveryTypes
  <2>3. goal'[r] = i /\ cause'[r] = c  BY <1>4 DEF Values, DeliveryTypes
  <2> QED  BY <1>1, <1>2, <1>4, <2>1, <2>2, <2>3 DEF Caused
<1>5. ASSUME NEW b \in Builds, Approve(b) \/ Comment(b) PROVE Caused'
  <2>1. id[b] # None /\ Approved(b)'
    BY <1>5 DEF Approve, Comment, Written, Approved, DeliveryTypes
  <2>2. \/ UNCHANGED <<goal, cause>>
        \/ \E r \in Runs : /\ goal' = [goal EXCEPT ![r] = id[b]]
                           /\ cause' = [cause EXCEPT ![r] = b]
    BY <1>5 DEF Approve, Comment, Webhook, Trigger, vars
  <2> QED  BY <1>3, <1>4, <2>1, <2>2
<1>6. ASSUME NEW r \in Runs, Message(r) PROVE Caused'
  <2>1. \E i : goal' = [goal EXCEPT ![r] = i] /\ cause' = [cause EXCEPT ![r] = "chat"]
    BY <1>6 DEF Message, Trigger
  <2> QED  BY <1>0, <1>4, <2>1
<1>7. \/ UNCHANGED <<goal, cause>>
      \/ \E b \in Builds : Approve(b) \/ Comment(b)
      \/ \E r \in Runs : Message(r)
  BY DEF DeliveryNext, allVars, vars, deliveryVars, GenerateId, BuildImage, CreateIssue,
         EndBuild, Deploy, Prepare, RunContainer, RunContainerFails, BreakOff, Reboot
<1> QED  BY <1>3, <1>5, <1>6, <1>7
(* Who asked for an image is never forgotten.                              *)
LEMMA WantedStays ==
  ASSUME Values, DeliveryTypes, Written, Caused, [DeliveryNext]_allVars,
         NEW i, i # None, Wanted(i)
  PROVE  Wanted(i)'
<1>0. None \notin Images /\ None \notin Builds /\ "chat" \notin Builds \cup {None}
  BY VmAssumption, DeliveryAssumption
<1>1. \A r \in Runs : goal[r] # None => goal'[r] = goal[r] /\ cause'[r] = cause[r]
  <2>1. \/ UNCHANGED <<goal, cause>>
        \/ \E r \in Runs : \E j, c : /\ goal[r] = None
                               /\ goal' = [goal EXCEPT ![r] = j]
                               /\ cause' = [cause EXCEPT ![r] = c]
    <3>1. ASSUME NEW b \in Builds, Approve(b) \/ Comment(b)
          PROVE \/ UNCHANGED <<goal, cause>>
                \/ \E r \in Runs : \E j, c : /\ goal[r] = None
                                       /\ goal' = [goal EXCEPT ![r] = j]
                                       /\ cause' = [cause EXCEPT ![r] = c]
      BY <3>1 DEF Approve, Comment, Webhook, Trigger, vars
    <3>2. ASSUME NEW r \in Runs, Message(r)
          PROVE \E j, c : /\ goal[r] = None
                          /\ goal' = [goal EXCEPT ![r] = j]
                          /\ cause' = [cause EXCEPT ![r] = c]
      BY <3>2 DEF Message, Trigger
    <3>3. \/ UNCHANGED <<goal, cause>>
          \/ \E b \in Builds : Approve(b) \/ Comment(b)
          \/ \E r \in Runs : Message(r)
      BY DEF DeliveryNext, allVars, vars, deliveryVars, GenerateId, BuildImage, CreateIssue,
             EndBuild, Deploy, Prepare, RunContainer, RunContainerFails, BreakOff, Reboot
    <3> QED  BY <3>1, <3>2, <3>3
  <2> QED  BY <2>1 DEF Values, DeliveryTypes
<1>2. Caused'  BY CausedStep
<1>3. \A r \in Runs : goal[r] # None /\ cause[r] = "chat" =>
        goal'[r] = goal[r] /\ cause'[r] = "chat"
  BY <1>1
<1>4. \A r \in Runs : cause[r] \in Builds =>
        /\ goal[r] # None /\ cause'[r] = cause[r]
        /\ id'[cause[r]] = id[cause[r]] /\ Approved(cause[r])'
  <2>1. \A b \in Builds : Approved(b) => id[b] # None  BY DEF Approved, Written
  <2>2. \A r \in Runs : cause[r] \in Builds => goal[r] # None /\ goal[r] = id[cause[r]]
    BY <2>1 DEF Caused
  <2> QED  BY <1>1, <1>2, <2>2 DEF Caused
<1> QED  BY <1>3, <1>4 DEF Wanted

(* What a run deploys is wanted.                                           *)
LEMMA GoalWanted ==
  ASSUME Values, DeliveryTypes, Caused, NEW r \in Runs, goal[r] # None
  PROVE  Wanted(goal[r])
BY DEF Caused, Wanted, DeliveryTypes

LEMMA RegistryStays ==
  ASSUME DeliveryTypes, [DeliveryNext]_allVars, NEW i \in Images, registry[i] # None
  PROVE  registry'[i] # None
<1>1. registry' = registry \/ \E b \in Builds : registry' = [registry EXCEPT ![id[b]] = b]
  BY DEF DeliveryNext, allVars, deliveryVars, GenerateId, BuildImage, CreateIssue, EndBuild,
         Approve, Comment, Message, Deploy
<1> QED  BY <1>1, DeliveryAssumption DEF DeliveryTypes

(* What a step does to one machine.                                        *)
LEMMA MachineOf ==
  ASSUME Inv, Held, [DeliveryNext]_allVars, NEW n \in Machines
  PROVE  \/ container'[n] = container[n] /\ (up'[n] => up[n])
         \/ container'[n] = None /\ ~up'[n]
         \/ \E r \in Runs : /\ goal[r] # None /\ container'[n] = goal[r]
                            /\ up'[n] => registry[goal[r]] # None
<1>1. ASSUME NEW r \in Runs, NEW m \in Machines, Prepare(r, m)
      PROVE \/ container'[n] = container[n] /\ (up'[n] => up[n])
            \/ container'[n] = None /\ ~up'[n]
  BY <1>1 DEF Prepare, Inv, Values, Flags
<1>2. ASSUME NEW r \in Runs, NEW m \in Machines,
             RunContainer(r, m) /\ (registry[goal[r]] # None \/ container[m] # None)
      PROVE \/ container'[n] = container[n] /\ (up'[n] => up[n])
            \/ /\ goal[r] # None /\ container'[n] = goal[r]
               /\ up'[n] => registry[goal[r]] # None
  <2>1. goal[r] # None
    BY <1>2 DEF RunContainer, Returns, Inv, OneByOne, Triggered
  <2>2. CASE container[m] = None
    BY <1>2, <2>1, <2>2 DEF RunContainer, Inv, Values, Flags
  <2>3. CASE container[m] # None
    BY <1>2, <2>3 DEF RunContainer
  <2> QED  BY <2>2, <2>3
<1>3. ASSUME NEW r \in Runs, NEW m \in Machines, RunContainerFails(r, m)
      PROVE \/ container'[n] = container[n] /\ (up'[n] => up[n])
            \/ goal[r] # None /\ container'[n] = goal[r] /\ ~up'[n]
  <2>1. goal[r] # None
    BY <1>3 DEF RunContainerFails, Returns, Inv, OneByOne, Triggered
  <2>2. /\ up' = up
        /\ \/ container' = container
           \/ container[m] = None /\ container' = [container EXCEPT ![m] = goal[r]]
    BY <1>3 DEF RunContainerFails
  <2>3. container[m] = None => ~up[m]  BY DEF Held
  <2> QED  BY <2>1, <2>2, <2>3 DEF Inv, Values
<1>4. ASSUME NEW m \in Machines, Reboot(m)
      PROVE container'[n] = container[n] /\ (up'[n] => up[n])
  BY <1>4 DEF Reboot, Inv, Flags
<1>5. CASE UNCHANGED <<container, up>>  BY <1>5
<1>6. \/ UNCHANGED <<container, up>>
      \/ \E m \in Machines : Reboot(m)
      \/ \E r \in Runs, m \in Machines :
           \/ Prepare(r, m) \/ RunContainerFails(r, m)
           \/ RunContainer(r, m) /\ (registry[goal[r]] # None \/ container[m] # None)
  <2>1. ASSUME NEW b \in Builds, Approve(b) \/ Comment(b) PROVE UNCHANGED <<container, up>>
    BY <2>1 DEF Approve, Comment, Webhook, Trigger, vars
  <2> QED
    BY <2>1 DEF DeliveryNext, allVars, vars, GenerateId, BuildImage, CreateIssue, EndBuild,
                Message, Trigger, Deploy, BreakOff
<1> QED  BY <1>1, <1>2, <1>3, <1>4, <1>5, <1>6

LEMMA HeldStep ==
  ASSUME DInv, [DeliveryNext]_allVars
  PROVE  Held'
<1>0. None \notin Images  BY VmAssumption
<1> SUFFICES ASSUME NEW n \in Machines
             PROVE  /\ up'[n] => container'[n] # None
                    /\ \A i : i = container'[n] /\ i \notin {None, Image0} => Wanted(i)'
                    /\ up'[n] /\ container'[n] # Image0 => registry'[container'[n]] # None
  BY DEF Held
<1>1. CASE container'[n] = container[n] /\ (up'[n] => up[n])
  <2>1. /\ up[n] => container[n] # None
        /\ container[n] \notin {None, Image0} => Wanted(container[n])
        /\ up[n] /\ container[n] # Image0 => registry[container[n]] # None
    BY DEF DInv, Held
  <2>2. container[n] \notin {None, Image0} => container[n] \in Images
    BY DEF DInv, Inv, Values
  <2>3. ASSUME NEW i, i = container[n], i \notin {None, Image0} PROVE Wanted(i)'
    BY <2>1, <2>3, WantedStays DEF DInv, Inv
  <2>4. up[n] /\ container[n] # Image0 => registry'[container[n]] # None
    BY <2>1, <2>2, RegistryStays DEF DInv
  <2> QED  BY <1>1, <2>1, <2>3, <2>4
<1>2. CASE container'[n] = None /\ ~up'[n]  BY <1>2
<1>3. ASSUME NEW r \in Runs, goal[r] # None, container'[n] = goal[r],
             up'[n] => registry[goal[r]] # None
      PROVE /\ up'[n] => container'[n] # None
            /\ \A i : i = container'[n] /\ i \notin {None, Image0} => Wanted(i)'
            /\ up'[n] /\ container'[n] # Image0 => registry'[container'[n]] # None
  <2>1. goal[r] \in Images  BY <1>3 DEF DInv, Inv, Values
  <2>2. Wanted(goal[r])  BY <1>3, GoalWanted DEF DInv, Inv
  <2>3. ASSUME NEW i, i = goal[r] PROVE Wanted(i)'
    BY <1>3, <2>2, <2>3, WantedStays DEF DInv, Inv
  <2>4. up'[n] => registry'[goal[r]] # None  BY <1>3, <2>1, RegistryStays DEF DInv
  <2> QED  BY <1>3, <2>3, <2>4
<1>4. Inv /\ Held  BY DEF DInv
<1>5. \/ container'[n] = container[n] /\ (up'[n] => up[n])
      \/ container'[n] = None /\ ~up'[n]
      \/ \E r \in Runs : /\ goal[r] # None /\ container'[n] = goal[r]
                         /\ up'[n] => registry[goal[r]] # None
  BY <1>4, MachineOf
<1>6. CASE \E r \in Runs : /\ goal[r] # None /\ container'[n] = goal[r]
                           /\ up'[n] => registry[goal[r]] # None
  <2>1. PICK r \in Runs : /\ goal[r] # None /\ container'[n] = goal[r]
                          /\ up'[n] => registry[goal[r]] # None
    BY <1>6
  <2> QED  BY <1>3, <2>1
<1> QED  BY <1>1, <1>2, <1>5, <1>6

-----------------------------------------------------------------------------
LEMMA DeliveryInvariant == DeliverySpec => []DInv
<1>1. DeliveryInit => DInv
  <2> SUFFICES ASSUME DeliveryInit PROVE DInv  OBVIOUS
  <2>1. Inv  BY InvInit DEF DeliveryInit
  <2>2. DeliveryTypes  BY DEF DeliveryInit, DeliveryTypes
  <2>3. Written  BY DEF DeliveryInit, Written
  <2>4. Caused  BY DeliveryAssumption DEF DeliveryInit, Init, Caused
  <2>5. Held  BY VmAssumption DEF DeliveryInit, Init, Held
  <2> QED  BY <2>1, <2>2, <2>3, <2>4, <2>5 DEF DInv
<1>2. DInv /\ [DeliveryNext]_allVars => DInv'
  <2> SUFFICES ASSUME DInv, [DeliveryNext]_allVars PROVE DInv'  OBVIOUS
  <2>1. [Next]_vars  BY MachineStep DEF DInv
  <2>2. Inv'  BY <2>1, InvStep DEF DInv
  <2>3. DeliveryTypes' /\ Written'  BY DeliveryTypesStep, WrittenStep DEF DInv
  <2>4. Caused'  BY CausedStep DEF DInv, Inv
  <2>5. Held'  BY HeldStep
  <2> QED  BY <2>2, <2>3, <2>4, <2>5 DEF DInv
<1> QED  BY <1>1, <1>2, PTL DEF DeliverySpec

(* Every variable of FrontendDelivery keeps its type.                      *)
THEOREM DeliveryTypesKept == DeliverySpec => []DeliveryTypeOK
<1>1. DInv => DeliveryTypeOK
  BY DEF DInv, Inv, Values, Flags, Results, DeliveryTypes, DeliveryTypeOK, TypeOK
<1> QED  BY <1>1, DeliveryInvariant, PTL

(* A green deployment that was alone leaves all machines serving its image *)
(* (t-vm-deploy: rm -f before run).                                        *)
THEOREM GreenRepairsMachines == DeliverySpec => []GreenRepairs
<1>1. DInv => GreenRepairs  BY InvGreen DEF DInv
<1> QED  BY <1>1, DeliveryInvariant, PTL

(* A deployment that is alone takes one machine out of service at a time   *)
(* (vm-deploy-2 runs after vm-deploy).                                     *)
THEOREM ServiceStaysUp == DeliverySpec => []ServiceStays
<1>1. DInv => ServiceStays  BY InvService DEF DInv
<1> QED  BY <1>1, DeliveryInvariant, PTL

(* What an approved issue deploys has been pushed by its build             *)
(* (create-redmine-issue runs after build-image).                          *)
THEOREM ApprovedImagesAreBuilt == DeliverySpec => []ApprovedIsBuilt
<1>1. DInv => ApprovedIsBuilt
  BY DEF DInv, Caused, Written, Approved, Pushed, ApprovedIsBuilt
<1> QED  BY <1>1, DeliveryInvariant, PTL

(* What a machine serves was built, and approved or named in the channel   *)
(* (the filters of prd-redmine-trigger).                                   *)
THEOREM ServedImagesAreWanted == DeliverySpec => []ServedIsWanted
<1>1. DInv => ServedIsWanted
  BY DEF DInv, Held, Wanted, Approved, ServedIsWanted
<1> QED  BY <1>1, DeliveryInvariant, PTL
=============================================================================
