-------------------------- MODULE FrontendDelivery --------------------------
(***************************************************************************)
(* From a merge to main to the production machines of a frontend: a build  *)
(* run makes a build id, pushes the image under it and writes an approval  *)
(* issue that names it; the webhook of an approved issue, or a message in  *)
(* the project's chat channel, creates the run of VmDeploy.                *)
(*                                                                         *)
(* Between build and deployment there is only text: the build id is a word *)
(* of the issue's description or of the message.                           *)
(***************************************************************************)
EXTENDS VmDeploy

CONSTANT Builds      \* PipelineRuns of the build pipeline

VARIABLES
  id,                \* the build id of a build
  stage,             \* how far a build is
  registry,          \* for each build id the build whose image is under it
  issue,             \* the status of a build's issue (closing it ends its events)
  cause              \* what triggered a deployment: a build's issue, or chat

deliveryVars == <<id, stage, registry, issue, cause>>
allVars == <<vars, deliveryVars>>

ASSUME DeliveryAssumption ==
  /\ None \notin Builds
  /\ "chat" \notin Builds \cup {None}

DeliveryTypeOK ==
  /\ TypeOK
  /\ id \in [Builds -> Images \cup {None}]
  /\ stage \in [Builds -> {"idle", "clone", "built", "ended"}]
  /\ registry \in [Images -> Builds \cup {None}]
  /\ issue \in [Builds -> {"none", "New", "Deploy-Approved"}]
  /\ cause \in [Runs -> Builds \cup {"chat", None}]

DeliveryInit ==
  /\ Init
  /\ id = [b \in Builds |-> None]
  /\ stage = [b \in Builds |-> "idle"]
  /\ registry = [i \in Images |-> None]
  /\ issue = [b \in Builds |-> "none"]
  /\ cause = [r \in Runs |-> None]

-----------------------------------------------------------------------------
(* The build run.                                                          *)

(* generate-id: the second, and eight digits of a hash of $RANDOM: any id, *)
(* perhaps one that another build has.                                     *)
GenerateId(b) ==
  /\ stage[b] = "idle"
  /\ \E i \in Images : id' = [id EXCEPT ![b] = i]
  /\ stage' = [stage EXCEPT ![b] = "clone"]
  /\ UNCHANGED <<vars, registry, issue, cause>>

(* build-image: the push replaces what is under the same tag.              *)
BuildImage(b) ==
  /\ stage[b] = "clone"
  /\ registry' = [registry EXCEPT ![id[b]] = b]
  /\ stage' = [stage EXCEPT ![b] = "built"]
  /\ UNCHANGED <<vars, id, issue, cause>>

BesideBuildMutant(b) ==    \* a mutant of CreateIssue: runAfter clone-sources
  /\ stage[b] \in {"clone", "built"} /\ issue[b] = "none"
  /\ issue' = [issue EXCEPT ![b] = "New"]
  /\ UNCHANGED <<vars, id, stage, registry, cause>>

(* create-redmine-issue, after build-image.                                *)
CreateIssue(b) ==
  /\ stage[b] = "built" /\ issue[b] = "none"
  /\ issue' = [issue EXCEPT ![b] = "New"]
  /\ UNCHANGED <<vars, id, stage, registry, cause>>

(* The run ends: after its tasks, or because one of them fails.            *)
EndBuild(b) ==
  /\ stage[b] \in {"clone", "built"}
  /\ stage' = [stage EXCEPT ![b] = "ended"]
  /\ UNCHANGED <<vars, id, registry, issue, cause>>

-----------------------------------------------------------------------------
(* Issue, chat, and the deployment they trigger.                           *)

(* The webhook of an issue that is (still) approved: the description names *)
(* the build id.  It may also get lost.                                    *)
Webhook(b) ==
  \/ UNCHANGED <<vars, cause>>
  \/ \E r \in Runs : /\ Trigger(r, id[b])
                     /\ cause' = [cause EXCEPT ![r] = b]

Approve(b) ==
  /\ issue[b] = "New"
  /\ issue' = [issue EXCEPT ![b] = "Deploy-Approved"]
  /\ Webhook(b)
  /\ UNCHANGED <<id, stage, registry>>

AnyStatusMutant(b) ==      \* a mutant of Comment: no filter on the issue's status
  /\ issue[b] # "none"
  /\ Webhook(b)
  /\ UNCHANGED <<id, stage, registry, issue>>

(* Any later change of an approved issue is one more event that the filter *)
(* lets through.                                                           *)
Comment(b) ==
  /\ issue[b] = "Deploy-Approved"
  /\ Webhook(b)
  /\ UNCHANGED <<id, stage, registry, issue>>

(* A message in the channel: any word.                                     *)
Message(r) ==
  /\ \E i \in Images : Trigger(r, i)
  /\ cause' = [cause EXCEPT ![r] = "chat"]
  /\ UNCHANGED <<id, stage, registry, issue>>

(* The steps of the deployment; podman run cannot succeed with an image    *)
(* that is not in the registry.                                            *)
Deploy(r) ==
  /\ \E m \in Machines :
       \/ Prepare(r, m) \/ RunContainerFails(r, m) \/ BreakOff(r, m)
       \/ RunContainer(r, m) /\ (registry[goal[r]] # None \/ container[m] # None)
  /\ UNCHANGED deliveryVars

DeliveryNext ==
  \/ \E b \in Builds :
       \/ GenerateId(b) \/ BuildImage(b) \/ CreateIssue(b) \/ EndBuild(b)
       \/ Approve(b) \/ Comment(b)
  \/ \E r \in Runs : Message(r) \/ Deploy(r)
  \/ \E m \in Machines : Reboot(m) /\ UNCHANGED deliveryVars

DeliverySpec == DeliveryInit /\ [][DeliveryNext]_allVars
-----------------------------------------------------------------------------
(* Properties.                                                             *)

(* The build id of another build.                                          *)
Collides(b) == \E c \in Builds \ {b} : id[c] = id[b]

(* A deployment that an issue triggered, also a repeated one, is of the    *)
(* image that the issue's build has pushed: it is in the registry, and is  *)
(* still that build's unless another build got the same id (runAfter of    *)
(* create-redmine-issue; t-build-id).                                      *)
ApprovedIsBuilt ==
  \A r \in Runs, b \in Builds : cause[r] = b =>
    /\ goal[r] = id[b]
    /\ registry[goal[r]] # None
    /\ registry[goal[r]] = b \/ Collides(b)

(* What production serves has been built, and somebody asked for it: an    *)
(* issue that names it has been approved, or a message in the channel      *)
(* named it.  This holds across repeated webhooks, runs beside one another *)
(* and commands whose task is gone (filters of prd-redmine-trigger).       *)
ServedIsWanted ==
  \A m \in Machines : up[m] /\ container[m] # Image0 =>
    /\ registry[container[m]] # None
    /\ \/ \E r \in Runs : cause[r] = "chat" /\ goal[r] = container[m]
       \/ \E b \in Builds : /\ id[b] = container[m]
                            /\ issue[b] = "Deploy-Approved"
                            /\ \E r \in Runs : cause[r] = b
=============================================================================
