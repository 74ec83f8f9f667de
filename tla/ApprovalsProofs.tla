--------------------------- MODULE ApprovalsProofs ---------------------------
(***************************************************************************)
(* Theorems about the approval task as a whole, for every strategy, any    *)
(* number of entries and people, every setting of the operator's switches  *)
(* and any number of restarts.  What the operator does beside the strategy *)
(* is taken from the lemmas of ApprovalProofs.                             *)
(***************************************************************************)
EXTENDS Approvals, RestProofs

Answers == {"none", "true", "false"}

(* Which seats there are.                                                  *)
LEMMA SeatsOf ==
  /\ Str!Route \in {"single", "multi", "fourEyes"}
  /\ 1 \in Str!Seats
  /\ Str!Route = "single" => Str!Seats = {1}
  /\ Str!Route = "fourEyes" => Str!Seats = {1, 2}
  /\ Str!FirstOpen \subseteq Str!Seats
  /\ Str!Route = "fourEyes" => Str!FirstOpen = {1}
<1>1. Str!Route \in {"single", "multi", "fourEyes"}
  BY DEF Str!Route
<1>2. CASE Str!Route = "single"
  BY <1>2 DEF Str!Seats, Str!FirstOpen
<1>3. CASE Str!Route = "multi"
  <2>1. Strategy = "MULTI"
    BY <1>3 DEF Str!Route, Str!isMultiApprovalStrategy
  <2>2. 1 \in 1..NEntries
    BY <2>1, EntriesAssumption
  <2>3. QED
    BY <1>3, <2>2 DEF Str!Seats, Str!FirstOpen
<1>4. CASE Str!Route = "fourEyes"
  BY <1>4 DEF Str!Seats, Str!FirstOpen
<1>5. QED
  BY <1>1, <1>2, <1>3, <1>4

(* The seats open while the answers are these: those that have none, but   *)
(* four eyes opens its second seat only after the first.                   *)
StillOpen(a) ==
  IF Str!Route = "fourEyes" THEN IF a[1] = "none" THEN {1} ELSE {2}
  ELSE {s \in Str!Seats : a[s] = "none"}

(* What an undecided instance holds, in memory or on the volume: who has   *)
(* not answered can still do so, an answer was given, and four eyes goes   *)
(* on to its second seat after an approval.                                *)
Undecided(o, a, b) ==
  /\ o = StillOpen(a)
  /\ \A s \in Str!Seats : a[s] # "none" => b[s] \in Users /\ <<b[s], a[s]>> \in heard
  /\ ~Str!Ended(a)
  /\ Str!Route = "fourEyes" /\ a[1] = "none" => a[2] = "none"

(* An open seat has no answer, and the second of four eyes comes after an  *)
(* approval.                                                               *)
LEMMA OpenSeats ==
  ASSUME NEW o, NEW a \in [Str!Seats -> Answers], NEW b, Undecided(o, a, b)
  PROVE  /\ o \subseteq Str!Seats /\ \A s \in o : a[s] = "none"
         /\ Str!Route = "fourEyes" /\ 2 \in o => a[1] = "true"
<1>1. CASE Str!Route = "fourEyes"
  BY <1>1, SeatsOf DEF Undecided, StillOpen, Str!Ended, Answers
<1>2. CASE Str!Route # "fourEyes"
  BY <1>2 DEF Undecided, StillOpen
<1>3. QED
  BY <1>1, <1>2

(* A request is about an open seat; its user said what it carries, and is  *)
(* not who completed the first step of four eyes.                          *)
RequestOK ==
  req.pc # "idle" => /\ phase = "asking" /\ req.seat \in open
                     /\ req.user \in Users /\ req.decision \in {"true", "false"}
                     /\ <<req.user, req.decision>> \in heard
                     /\ Str!Route = "fourEyes" /\ req.seat = 2 => req.user # by[1]

(* What a result is made of.                                               *)
Decided ==
  phase = "decided" =>
    /\ results.decision = "true" /\ Str!Route = "fourEyes" =>
         /\ by[1] \in Users /\ by[2] \in Users /\ by[1] # by[2]
         /\ {<<by[1], "true">>, <<by[2], "true">>} \subseteq heard
         /\ results.approvedBy = {by[1], by[2]}
    /\ results.decision = "false" => \E u \in Users : <<u, "false">> \in heard
    /\ results.decision \in {"true", "false"}

StrategyOK ==
  /\ Str!TypeOK
  /\ phase = "asking" => Undecided(open, answers, by)
  /\ phase # "asking" => open = {}
  /\ phase # "decided" => results = Str!NoResults
  /\ RequestOK
  /\ Decided

SavedOK == saved \in Instances /\ Undecided(saved.open, saved.answers, saved.by)

(* A decision of the strategy has the people it needs behind it.           *)
Earned ==
  /\ "true" \in said /\ Str!Route = "fourEyes" =>
       \E u, v \in Users : u # v /\ {<<u, "true">>, <<v, "true">>} \subseteq heard
  /\ "false" \in said => \E u \in Users : <<u, "false">> \in heard

(* An outcome of the pipeline is a decision of the strategy.               *)
Learnt ==
  /\ pipeline = "proceeded" => "true" \in said
  /\ pipeline = "skipped" => "false" \in said

OperatorOK == ValuesOK /\ FlagsOK /\ DiskOK /\ AllSourced /\ SavedSourced

(* Approvers are asked by an instance that has not decided.                *)
Asking == asg.pc = "asking" => phase = "asking"

SystemInv == OperatorOK /\ StrategyOK /\ SavedOK /\ Asking /\ Earned /\ Learnt

-----------------------------------------------------------------------------
(* A new instance is undecided.                                            *)
LEMMA NewUndecided ==
  /\ NewInstance \in Instances
  /\ Undecided(NewInstance.open, NewInstance.answers, NewInstance.by)
<1>1. NewInstance.open = StillOpen(NewInstance.answers)
  BY SeatsOf DEF NewInstance, StillOpen, Str!FirstOpen
<1>2. QED
  BY <1>1, SeatsOf DEF NewInstance, Instances, Undecided, Str!Ended

(* An instance that is restored, new or as it was saved, is in order.      *)
LEMMA Restored ==
  ASSUME NEW i \in Instances, Undecided(i.open, i.answers, i.by), Restore(i),
         Str!TypeOK, responses' = responses, heard' = heard, crashes' \in 0..MaxCrashes
  PROVE  StrategyOK' /\ SavedOK'
<1>1. /\ phase' = "asking" /\ open' = i.open /\ answers' = i.answers /\ by' = i.by
      /\ req' = Str!NoReq /\ results' = Str!NoResults /\ saved' = i
  BY DEF Restore
<1>2. Str!TypeOK'
  BY <1>1, SeatsOf DEF Str!TypeOK, Instances, Str!NoReq, Str!NoResults
<1>3. Undecided(open, answers, by)' /\ Undecided(saved.open, saved.answers, saved.by)'
  BY <1>1 DEF Undecided
<1>4. QED
  BY <1>1, <1>2, <1>3 DEF StrategyOK, SavedOK, RequestOK, Decided, Str!NoReq

-----------------------------------------------------------------------------
(* Saving an answer adds the request's answer to those of the instance,    *)
(* none of which is a rejection.                                           *)
LEMMA OneMoreAnswer ==
  ASSUME StrategyOK, Str!Save
  PROVE  /\ req.seat \in Str!Seats /\ req.seat \in open /\ answers[req.seat] = "none"
         /\ req.user \in Users /\ req.decision \in {"true", "false"}
         /\ <<req.user, req.decision>> \in heard
         /\ answers' \in [Str!Seats -> Answers]
         /\ by' \in [Str!Seats -> Users \cup {Nobody}]
         /\ \A t \in Str!Seats : answers'[t] = IF t = req.seat THEN req.decision ELSE answers[t]
         /\ \A t \in Str!Seats : by'[t] = IF t = req.seat THEN req.user ELSE by[t]
         /\ \A t \in Str!Seats : answers[t] # "false"
         /\ Str!AllMatch(answers') = req.decision
         /\ phase = "asking" /\ results = Str!NoResults
<1>1. /\ req.seat \in Str!Seats /\ req.seat \in open /\ phase = "asking"
      /\ req.user \in Users /\ req.decision \in {"true", "false"}
      /\ <<req.user, req.decision>> \in heard
      /\ results = Str!NoResults
  BY DEF StrategyOK, Str!TypeOK, RequestOK, Str!Save
<1>2. Undecided(open, answers, by)
  BY <1>1 DEF StrategyOK
<1>3. answers[req.seat] = "none" /\ \A t \in Str!Seats : answers[t] # "false"
  BY <1>1, <1>2, OpenSeats DEF StrategyOK, Str!TypeOK, Answers, Undecided, Str!Ended
<1>4. /\ answers \in [Str!Seats -> Answers] /\ by \in [Str!Seats -> Users \cup {Nobody}]
      /\ answers' = [answers EXCEPT ![req.seat] = req.decision]
      /\ by' = [by EXCEPT ![req.seat] = req.user]
  BY DEF StrategyOK, Str!TypeOK, Str!Save, Answers
<1>5. /\ answers' \in [Str!Seats -> Answers]
      /\ by' \in [Str!Seats -> Users \cup {Nobody}]
      /\ \A t \in Str!Seats : answers'[t] = IF t = req.seat THEN req.decision ELSE answers[t]
      /\ \A t \in Str!Seats : by'[t] = IF t = req.seat THEN req.user ELSE by[t]
  BY <1>1, <1>4 DEF Answers
<1>6. Str!AllMatch(answers') = req.decision
  BY <1>1, <1>3, <1>5 DEF Str!AllMatch
<1>7. QED
  BY <1>1, <1>3, <1>5, <1>6

(* The end of a request keeps the instance in order: it goes on undecided, *)
(* or ends with a decision that has its people.                            *)
LEMMA SaveStep ==
  ASSUME StrategyOK, Str!Save
  PROVE  /\ StrategyOK'
         /\ phase' = "asking" => Undecided(open, answers, by)'
         /\ phase' = "decided" => results'.decision \in {"true", "false"}
<1> USE OneMoreAnswer
<1>1. req' = Str!NoReq /\ UNCHANGED <<responses, heard, crashes>>
  BY DEF Str!Save
<1>2. \A s \in Str!Seats : answers'[s] # "none" =>
        by'[s] \in Users' /\ <<by'[s], answers'[s]>> \in heard'
  BY <1>1 DEF StrategyOK, Undecided
<1>3. Str!Route = "fourEyes" =>
        /\ answers'[1] # "none"
        /\ req.seat = 1 => answers'[2] = "none"
        /\ req.seat = 2 => answers'[1] = "true" /\ by'[1] # by'[2]
  <2>1. answers \in [Str!Seats -> Answers] /\ Undecided(open, answers, by)
    BY DEF StrategyOK, Str!TypeOK, Answers
  <2>2. Str!Route = "fourEyes" /\ req.seat = 2 => answers[1] = "true" /\ req.user # by[1]
    BY <2>1, OpenSeats DEF StrategyOK, RequestOK, Str!Save
  <2>3. Str!Route = "fourEyes" /\ req.seat = 1 => answers[2] = "none"
    BY <2>1 DEF Undecided
  <2>4. QED
    BY <2>2, <2>3, SeatsOf
<1>4. CASE Str!Ended(answers')
  <2>1. /\ phase' = "decided" /\ open' = {}
        /\ results' = [decision |-> req.decision,
                       approvedBy |-> Str!Names(answers', by', "true"),
                       rejectedBy |-> Str!Names(answers', by', "false")]
    BY <1>4 DEF Str!Save
  <2>2. \A d \in {"true", "false"} : Str!Names(answers', by', d) \subseteq Users
    BY <1>2 DEF Str!Names
  <2>3. Str!TypeOK'
    BY <1>1, <2>1, <2>2, SeatsOf DEF StrategyOK, Str!TypeOK, Str!NoReq, Answers
  <2>4. req.decision = "false" => \E u \in Users : <<u, "false">> \in heard'
    BY <1>1
  <2>5. ASSUME req.decision = "true", Str!Route = "fourEyes"
        PROVE  /\ by'[1] \in Users /\ by'[2] \in Users /\ by'[1] # by'[2]
               /\ {<<by'[1], "true">>, <<by'[2], "true">>} \subseteq heard'
               /\ results'.approvedBy = {by'[1], by'[2]}
    <3>1. Str!Seats = {1, 2}
      BY <2>5, SeatsOf
    <3>2. answers'[1] = "true" /\ answers'[2] = "true" /\ req.seat = 2
      BY <1>3, <1>4, <2>5, <3>1 DEF Str!Ended
    <3>3. Str!Names(answers', by', "true") = {by'[1], by'[2]}
      BY <3>1, <3>2 DEF Str!Names
    <3>4. QED
      BY <1>2, <1>3, <2>1, <2>5, <3>1, <3>2, <3>3
  <2>6. Decided'
    BY <2>1, <2>4, <2>5 DEF Decided
  <2>7. QED
    BY <1>1, <2>1, <2>3, <2>6 DEF StrategyOK, RequestOK, Str!NoReq
<1>5. CASE ~Str!Ended(answers')
  <2>1. /\ phase' = "asking" /\ results' = Str!NoResults
        /\ open' = IF Str!Route = "fourEyes" THEN {2} ELSE open \ {req.seat}
    BY <1>5 DEF Str!Save
  <2>2. Str!Route = "fourEyes" => answers'[1] = "true" /\ answers'[2] = "none"
    BY <1>3, <1>5, SeatsOf DEF Str!Ended, Answers
  <2>3. open' = StillOpen(answers') /\ open' \subseteq Str!Seats
    <3>1. open = StillOpen(answers)
      BY DEF StrategyOK, Undecided
    <3>2. CASE Str!Route = "fourEyes"
      BY <2>1, <2>2, <3>2, SeatsOf DEF StillOpen
    <3>3. CASE Str!Route # "fourEyes"
      BY <2>1, <3>1, <3>3 DEF StillOpen
    <3>4. QED
      BY <3>2, <3>3
  <2>4. Str!TypeOK'
    BY <1>1, <2>1, <2>3, SeatsOf DEF StrategyOK, Str!TypeOK, Str!NoReq, Str!NoResults, Answers
  <2>5. Undecided(open, answers, by)'
    BY <1>2, <1>5, <2>2, <2>3 DEF Undecided
  <2>6. QED
    BY <1>1, <2>1, <2>4, <2>5 DEF StrategyOK, RequestOK, Decided, Str!NoReq
<1>6. QED
  BY <1>4, <1>5

(* A form that is completed, and the counting of it, keep the instance.    *)
LEMMA AnswerStep ==
  ASSUME StrategyOK, NEW s \in Str!Seats, Str!Answer(s)
  PROVE  StrategyOK' /\ heard \subseteq heard'
<1>1. PICK u \in Users, d \in {"true", "false"} : Str!Complete(u, s, d)
  BY DEF Str!Answer
<1>2. Str!TypeOK' /\ heard \subseteq heard'
  BY <1>1 DEF Str!Complete, StrategyOK, Str!TypeOK
<1>3. s \in open /\ phase = "asking" /\ UNCHANGED <<phase, open, answers, by, results>>
  BY <1>1 DEF Str!Complete, StrategyOK
<1>4. Undecided(open, answers, by)'
  BY <1>2, <1>3 DEF StrategyOK, Undecided
<1>5. RequestOK'
  BY <1>1, <1>3 DEF Str!Complete, Str!MayAnswer, RequestOK
<1>6. QED
  BY <1>2, <1>3, <1>4, <1>5 DEF StrategyOK, Decided

LEMMA CountStep ==
  ASSUME StrategyOK, CountResponse
  PROVE  StrategyOK'
<1>1. /\ req.pc = "responses" /\ req' = [req EXCEPT !.pc = "save"]
      /\ responses' \in {responses, responses + 1}
      /\ UNCHANGED <<phase, open, answers, by, results, heard, crashes>>
  BY DEF CountResponse, Str!UpdateApprovalTaskResponses, vars
<1>2. Str!TypeOK'
  BY <1>1 DEF StrategyOK, Str!TypeOK
<1>3. RequestOK'
  BY <1>1 DEF StrategyOK, Str!TypeOK, RequestOK
<1>4. phase' = "asking" => Undecided(open, answers, by)'
  BY <1>1 DEF StrategyOK, Undecided
<1>5. QED
  BY <1>1, <1>2, <1>3, <1>4 DEF StrategyOK, Decided

(* What leaves the strategy alone leaves it in order.                      *)
LEMMA StrategyStays ==
  ASSUME StrategyOK, SavedOK, UNCHANGED <<strategy, heard, saved>>,
         responses' \in Nat, crashes' \in 0..MaxCrashes
  PROVE  StrategyOK' /\ SavedOK'
<1>1. /\ phase' = phase /\ open' = open /\ answers' = answers /\ by' = by
      /\ req' = req /\ results' = results /\ heard' = heard /\ saved' = saved
  BY DEF strategy
<1>2. Str!TypeOK'
  BY <1>1 DEF StrategyOK, Str!TypeOK
<1>3. /\ phase = "asking" => Undecided(open, answers, by)'
      /\ Undecided(saved.open, saved.answers, saved.by)'
  BY <1>1 DEF StrategyOK, SavedOK, Undecided
<1>4. RequestOK' /\ Decided'
  BY <1>1 DEF StrategyOK, RequestOK, Decided
<1>5. QED
  BY <1>1, <1>2, <1>3, <1>4 DEF StrategyOK, SavedOK

(* Deleting the ApprovalTask interrupts an undecided instance.             *)
LEMMA DeleteStep ==
  ASSUME StrategyOK, SavedOK, Asking, DeleteTask, crashes' \in 0..MaxCrashes
  PROVE  StrategyOK' /\ SavedOK'
<1>1. responses' = 0 /\ heard' = heard /\ saved' = saved
  BY DEF DeleteTask
<1>2. CASE UNCHANGED strategy
  BY <1>1, <1>2, StrategyStays
<1>3. CASE /\ asg.pc = "asking" /\ req.pc = "idle"
           /\ phase' = "interrupted" /\ open' = {}
           /\ UNCHANGED <<answers, by, req, results>>
  <2>1. results' = Str!NoResults
    BY <1>3 DEF StrategyOK, Asking
  <2>2. Str!TypeOK'
    BY <1>1, <1>3 DEF StrategyOK, Str!TypeOK
  <2>3. Undecided(saved.open, saved.answers, saved.by)'
    BY <1>1 DEF SavedOK, Undecided
  <2>4. QED
    BY <1>1, <1>3, <2>1, <2>2, <2>3 DEF StrategyOK, SavedOK, RequestOK, Decided
<1>4. QED
  BY <1>2, <1>3 DEF DeleteTask

-----------------------------------------------------------------------------
(* The operator's other threads, its pipeline and the storing of a         *)
(* decision neither decide nor ask.                                        *)
LEMMA NobodyDecides ==
  ASSUME ValuesOK, Reconciler \/ Timer \/ Owner \/ Storing
  PROVE  said' = said /\ (asg'.pc = "asking" => asg.pc = "asking")
<1>1. CASE Reconciler
  BY <1>1 DEF Reconciler, CreateApprovalTask, DropEvent, ReceiveUpdate, OnUpdate,
       UpdateRunStatusCompleted, Propagate, OnDelete
<1>2. CASE Timer
  BY <1>2 DEF Timer, Expire, TimeoutDelete, TimeoutRead, TimeoutPatch
<1>3. CASE Owner
  BY <1>3 DEF Owner, Observe, RequestCancel, RequestDelete
<1>4. CASE Storing
  <2>1. CASE UpdateApprovalTaskStatusCompleted
    BY <2>1 DEF UpdateApprovalTaskStatusCompleted, ValuesOK
  <2>2. CASE LabelDecision
    BY <2>2 DEF LabelDecision, ValuesOK
  <2>3. CASE ReadRun
    BY <2>3 DEF ReadRun, ValuesOK
  <2>4. CASE UpdateRunResultsCompleted
    BY <2>4 DEF UpdateRunResultsCompleted, ValuesOK
  <2>5. QED
    BY <1>4, <2>1, <2>2, <2>3, <2>4 DEF Storing
<1>5. QED
  BY <1>1, <1>2, <1>3, <1>4

(* Every step of the whole is a step of the operator, or one that it does  *)
(* not see: the requests that do not end the strategy.                     *)
LEMMA OperatorStep ==
  ASSUME StrategyOK, [SystemNext]_systemVars
  PROVE  [Next]_vars
<1>1. CASE Beside(Reconciler \/ Timer) \/ Beside(Owner)
  BY <1>1 DEF Beside, Next
<1>2. CASE AskedAssignment
  BY <1>2 DEF AskedAssignment, Ask, Beside, Storing, DeleteTask, Next, Assignment
<1>3. CASE \/ \E s \in Str!Seats : AnswerAsked(s)
           \/ CountResponse \/ SaveAnswer
  BY <1>3 DEF AnswerAsked, CountResponse, SaveAnswer
<1>4. CASE ReturnDecision
  <2>1. Decide(results'.decision)
    BY <1>4 DEF ReturnDecision
  <2>2. results'.decision \in Decisions
    BY <1>4, SaveStep DEF ReturnDecision, Decisions
  <2>3. QED
    BY <2>1, <2>2 DEF Next, Approver
<1>5. CASE Restart
  BY <1>5 DEF Restart, Next
<1>6. CASE UNCHANGED systemVars
  BY <1>6 DEF systemVars
<1>7. QED
  BY <1>1, <1>2, <1>3, <1>4, <1>5, <1>6 DEF SystemNext, Request

(* What the pipeline learns is a decision that was made.                   *)
LEMMA LearntStep ==
  ASSUME OperatorOK, Learnt, [Next]_vars
  PROVE  Learnt'
<1>1. [Gate!Next]_(Gate!vars)
  BY GateStep DEF OperatorOK
<1>2. CASE \E d \in Decisions : Gate!Say(d)
  BY <1>2 DEF Gate!Say, Learnt
<1>3. CASE Gate!Stop
  BY <1>3 DEF Gate!Stop, Learnt
<1>4. CASE \E o \in Gate!Outcomes : Gate!Learn(o)
  BY <1>4 DEF Gate!Learn, Learnt
<1>5. CASE UNCHANGED Gate!vars
  BY <1>5 DEF Gate!vars, Learnt
<1>6. QED
  BY <1>1, <1>2, <1>3, <1>4, <1>5 DEF Gate!Next

(* The people behind a decision are there when it is made, and are not     *)
(* taken back.                                                             *)
LEMMA EarnedStays ==
  ASSUME Earned, said' = said, heard \subseteq heard'
  PROVE  Earned'
  BY DEF Earned

LEMMA EarnedStep ==
  ASSUME StrategyOK, Earned, ReturnDecision
  PROVE  Earned'
<1>1. /\ said' = said \cup {results'.decision} /\ heard' = heard /\ phase' = "decided"
  BY DEF ReturnDecision, Decide, Str!Save
<1>2. Decided'
  BY SaveStep DEF ReturnDecision, StrategyOK
<1>3. results'.decision = "true" /\ Str!Route = "fourEyes" =>
        \E u, v \in Users : u # v /\ {<<u, "true">>, <<v, "true">>} \subseteq heard'
  BY <1>1, <1>2 DEF Decided
<1>4. results'.decision = "false" => \E u \in Users : <<u, "false">> \in heard'
  BY <1>1, <1>2 DEF Decided
<1>5. QED
  BY <1>1, <1>3, <1>4 DEF Earned

-----------------------------------------------------------------------------
(* The invariant of the whole.                                             *)
LEMMA SystemInvInit == SystemInit => SystemInv
<1> SUFFICES ASSUME SystemInit PROVE SystemInv
  OBVIOUS
<1>1. OperatorOK
  <2>1. ValuesOK
    BY ConstantsAssumption, InitialValues
       DEF SystemInit, Init, ValuesOK, NoTmr, NoAsg, Results, Decisions, Phases, SpecStatus
  <2>2. FlagsOK
    BY DEF SystemInit, Init, FlagsOK
  <2>3. DiskOK
    BY SavedValues DEF SystemInit, Init, DiskOK
  <2>4. QED
    BY <2>1, <2>2, <2>3, SourcedInit DEF SystemInit, OperatorOK
<1>2. /\ phase = "asking" /\ open = Str!FirstOpen /\ answers = NewInstance.answers
      /\ by = NewInstance.by /\ req = Str!NoReq /\ responses = 0
      /\ results = Str!NoResults /\ heard = {} /\ saved = NewInstance
  BY DEF SystemInit, Str!Init, NewInstance
<1>3. Str!TypeOK
  BY <1>1, <1>2, SeatsOf
     DEF OperatorOK, ValuesOK, Str!TypeOK, NewInstance, Str!NoReq, Str!NoResults
<1>4. StrategyOK /\ SavedOK
  BY <1>2, <1>3, NewUndecided
     DEF StrategyOK, SavedOK, RequestOK, Decided, Str!NoReq, NewInstance
<1>5. Asking /\ Earned /\ Learnt
  BY <1>2 DEF SystemInit, Init, NoAsg, Asking, Earned, Learnt
<1>6. QED
  BY <1>1, <1>4, <1>5 DEF SystemInv

LEMMA SystemInvStep ==
  ASSUME SystemInv, [SystemNext]_systemVars
  PROVE  SystemInv'
<1>1. /\ OperatorOK /\ StrategyOK /\ SavedOK /\ Asking /\ Earned /\ Learnt
      /\ responses \in Nat /\ Str!TypeOK
  BY DEF SystemInv, StrategyOK, Str!TypeOK
<1>2. [Next]_vars
  BY <1>1, OperatorStep
<1>3. OperatorOK' /\ Learnt'
  BY <1>1, <1>2, ValuesStep, FlagsStep, DiskStep, SourcedStep, SavedStep, LearntStep
     DEF OperatorOK
<1>4. crashes' \in 0..MaxCrashes
  BY <1>3 DEF OperatorOK, ValuesOK
<1>5. SUFFICES StrategyOK' /\ SavedOK' /\ Asking' /\ Earned'
  BY <1>3 DEF SystemInv
<1>6. ASSUME \/ Beside(Reconciler \/ Timer) \/ Beside(Owner) \/ Beside(Storing)
      PROVE  StrategyOK' /\ SavedOK' /\ Asking' /\ Earned'
  <2>1. /\ UNCHANGED <<strategy, responses, heard, saved>>
        /\ Reconciler \/ Timer \/ Owner \/ Storing
    BY <1>6 DEF Beside
  <2>2. StrategyOK' /\ SavedOK'
    BY <1>1, <1>4, <2>1, StrategyStays
  <2>3. Asking' /\ Earned'
    BY <1>1, <2>1, NobodyDecides, EarnedStays DEF OperatorOK, Asking, strategy
  <2>4. QED
    BY <2>2, <2>3
<1>7. CASE Ask
  <2>1. Restore(NewInstance) /\ responses' = responses /\ heard' = heard /\ said' = said
    BY <1>7 DEF Ask, InitializeApprovalTask
  <2>2. StrategyOK' /\ SavedOK'
    BY <1>1, <1>4, <2>1, NewUndecided, Restored
  <2>3. Asking' /\ Earned'
    BY <1>1, <2>1, EarnedStays DEF Restore, Asking
  <2>4. QED
    BY <2>2, <2>3
<1>8. CASE DeleteTask
  <2>1. StrategyOK' /\ SavedOK'
    BY <1>1, <1>4, <1>8, DeleteStep
  <2>2. asg'.pc # "asking" /\ said' = said /\ heard' = heard
    BY <1>8 DEF DeleteTask, DeleteApprovalTask, NoAsg
  <2>3. Asking' /\ Earned'
    BY <1>1, <2>2, EarnedStays DEF Asking
  <2>4. QED
    BY <2>1, <2>3
<1>9. ASSUME NEW s \in Str!Seats, AnswerAsked(s)
      PROVE  StrategyOK' /\ SavedOK' /\ Asking' /\ Earned'
  <2>1. StrategyOK' /\ heard \subseteq heard'
    BY <1>1, <1>9, AnswerStep DEF AnswerAsked
  <2>2. UNCHANGED <<vars, saved, phase>>
    BY <1>9 DEF AnswerAsked, Str!Answer, Str!Complete
  <2>3. SavedOK'
    BY <1>1, <2>1, <2>2 DEF SavedOK, Undecided
  <2>4. Asking' /\ Earned'
    BY <1>1, <2>1, <2>2, EarnedStays DEF vars, Asking
  <2>5. QED
    BY <2>1, <2>3, <2>4
<1>10. CASE CountResponse
  <2>1. StrategyOK'
    BY <1>1, <1>10, CountStep
  <2>2. UNCHANGED <<vars, saved, phase, heard>>
    BY <1>10 DEF CountResponse, Str!UpdateApprovalTaskResponses
  <2>3. SavedOK' /\ Asking' /\ Earned'
    BY <1>1, <2>2, EarnedStays DEF vars, Asking, SavedOK, Undecided
  <2>4. QED
    BY <2>1, <2>3
<1>11. CASE SaveAnswer
  <2>1. StrategyOK' /\ phase' = "asking" /\ Undecided(open, answers, by)'
    BY <1>1, <1>11, SaveStep DEF SaveAnswer
  <2>2. /\ saved' = [open |-> open', answers |-> answers', by |-> by']
        /\ UNCHANGED <<vars, heard>>
    BY <1>11 DEF SaveAnswer, Str!Save
  <2>3. saved' \in Instances
    BY <2>1, <2>2 DEF StrategyOK, Str!TypeOK, Instances
  <2>4. Undecided(saved.open, saved.answers, saved.by)'
    BY <2>1, <2>2 DEF Undecided
  <2>5. Asking' /\ Earned'
    BY <1>1, <2>1, <2>2, EarnedStays DEF vars, Asking
  <2>6. QED
    BY <2>1, <2>3, <2>4, <2>5 DEF SavedOK
<1>12. CASE ReturnDecision
  <2>1. StrategyOK' /\ Earned'
    BY <1>1, <1>12, SaveStep, EarnedStep DEF ReturnDecision
  <2>2. saved' = saved /\ heard' = heard
    BY <1>12 DEF ReturnDecision, Str!Save
  <2>3. SavedOK'
    BY <1>1, <2>2 DEF SavedOK, Undecided
  <2>4. asg'.pc # "asking"
    BY <1>1, <1>12 DEF ReturnDecision, Decide, OperatorOK, ValuesOK
  <2>5. QED
    BY <2>1, <2>3, <2>4 DEF Asking
<1>13. CASE Restart
  <2>1. responses' = responses /\ heard' = heard /\ said' = said
    BY <1>13 DEF Restart, Crash
  <2>2. CASE Restore(NewInstance)
    BY <1>1, <1>4, <2>1, <2>2, NewUndecided, Restored, EarnedStays DEF Restore, Asking
  <2>3. CASE Restore(saved)
    BY <1>1, <1>4, <2>1, <2>3, Restored, EarnedStays DEF Restore, Asking, SavedOK
  <2>4. CASE /\ Durable /\ asg.pc \notin {"asking", "store", "label", "read", "patch"}
             /\ UNCHANGED <<strategy, saved>>
    <3>1. StrategyOK' /\ SavedOK'
      BY <1>1, <1>4, <2>1, <2>4, StrategyStays
    <3>2. asg' = asg
      BY <1>13, <2>4 DEF Restart, Crash
    <3>3. QED
      BY <1>1, <2>1, <2>4, <3>1, <3>2, EarnedStays DEF Asking
  <2>5. QED
    BY <1>13, <2>2, <2>3, <2>4 DEF Restart
<1>14. CASE UNCHANGED systemVars
  <2>1. UNCHANGED <<vars, strategy, responses, heard, saved>>
    BY <1>14 DEF systemVars
  <2>2. StrategyOK' /\ SavedOK'
    BY <1>1, <1>4, <2>1, StrategyStays
  <2>3. Asking' /\ Earned'
    BY <1>1, <2>1, EarnedStays DEF vars, strategy, Asking
  <2>4. QED
    BY <2>2, <2>3
<1>15. QED
  BY <1>6, <1>7, <1>8, <1>9, <1>10, <1>11, <1>12, <1>13, <1>14
     DEF SystemNext, AskedAssignment, Request

(* The operator, the strategy's instance in memory and the one on the      *)
(* volume fit together, whatever is restored and whoever is interrupted.   *)
THEOREM SystemInvariant == SystemSpec => []SystemInv
  BY SystemInvInit, SystemInvStep, PTL DEF SystemSpec

(* Every variable of the whole keeps its type.                             *)
THEOREM SystemTypes == SystemSpec => []SystemTypeOK
<1>1. SystemInv => SystemTypeOK
  BY TypeParts DEF SystemInv, OperatorOK, StrategyOK, SavedOK, SystemTypeOK
<1>2. QED
  BY <1>1, SystemInvariant, PTL

(* The whole implements the operator: what ApprovalOperator takes in one   *)
(* step is what the strategies come to, and everything that is shown of    *)
(* the operator's safety holds of the whole.                               *)
THEOREM SystemImplementsOperator == SystemSpec => SafetySpec
<1>1. SystemInv /\ [SystemNext]_systemVars => [Next]_vars
  BY OperatorStep DEF SystemInv
<1>2. SystemInit => Init
  BY DEF SystemInit
<1>3. QED
  BY <1>1, <1>2, SystemInvariant, PTL DEF SystemSpec, SafetySpec

(* What the operator's model promises, with a decision of the strategies   *)
(* in place of a step: outcomes are earned, a completed run has results, a *)
(* completed run stays so, approvers are asked once, the outcome is the    *)
(* decision on the ApprovalTask, and rest has its reason.                  *)
THEOREM OperatorPromises ==
  SystemSpec => /\ GateSpec /\ CompletedIsFinal
                /\ []TrueHasResults /\ []AskedOnce /\ []RestIsDone
                /\ [](crashes = 0 => OutcomeMatchesTask)
  BY SystemImplementsOperator, GateRefinement, CompletedStays, CompletedHasResults,
     AskedOnceHolds, RestHasReason, OutcomeIsOnTask, PTL

-----------------------------------------------------------------------------
(* Who may answer while an instance is undecided: at least one of those    *)
(* whom an open seat is assigned to, as nobody is the first approver of    *)
(* two different people.                                                   *)
LEMMA SomebodyLeft ==
  ASSUME Staffed, StrategyOK, phase = "asking"
  PROVE  \E s \in open, u \in Users : Str!MayAnswer(u, s)
<1>1. Undecided(open, answers, by) /\ answers \in [Str!Seats -> Answers]
  BY DEF StrategyOK, Str!TypeOK, Answers
<1>2. CASE Str!Route # "fourEyes"
  <2>1. PICK s \in Str!Seats : answers[s] = "none"
    BY <1>1 DEF Undecided, Str!Ended
  <2>2. s \in open /\ \E u \in Users : Str!Assigned(u, s)
    BY <1>1, <1>2, <2>1 DEF Undecided, StillOpen, Staffed
  <2>3. QED
    BY <1>2, <2>2 DEF Str!MayAnswer
<1>3. CASE Str!Route = "fourEyes" /\ 1 \in open
  <2>1. PICK u \in Users : Str!Assigned(u, 1)
    BY SeatsOf DEF Staffed
  <2>2. Str!MayAnswer(u, 1)
    BY <2>1 DEF Str!MayAnswer
  <2>3. QED
    BY <1>3, <2>2
<1>4. CASE Str!Route = "fourEyes" /\ 1 \notin open
  <2>1. 2 \in open
    BY <1>1, <1>4 DEF Undecided, StillOpen
  <2>2. PICK u, v \in Users : u # v /\ Str!Assigned(u, 2) /\ Str!Assigned(v, 2)
    BY <1>4 DEF Staffed
  <2>3. \E w \in {u, v} : w # by[1] /\ Str!Assigned(w, 2)
    BY <2>2
  <2>4. QED
    BY <2>1, <2>2, <2>3 DEF Str!MayAnswer
<1>5. QED
  BY <1>2, <1>3, <1>4

(* With approvers enough for the strategy a pipeline that waits waits for  *)
(* somebody: a user task is open that somebody may complete, for every     *)
(* strategy and any number of restarts.                                    *)
THEOREM PipelineWaitsForSomebody == SystemSpec => []WaitsForSomebody
<1>1. SystemInv /\ RestIsDone => WaitsForSomebody
  BY SomebodyLeft DEF SystemInv, Asking, RestIsDone, WaitsForSomebody
<1>2. QED
  BY <1>1, SystemInvariant, OperatorPromises, PTL

(* On a volume and without a timeout no restart makes a pipeline wait for  *)
(* nobody, but the second one of an operator whose run is cancelled.       *)
THEOREM OnVolumeSomebodyDecides ==
  ASSUME Durable, ~HasTimer, Staffed
  PROVE  SystemSpec => [](~Busy /\ pipeline = "waiting" =>
                            \/ \E s \in open, u \in Users : Str!MayAnswer(u, s)
                            \/ run.spec = "RunCancelled" /\ crashes > 1)
<1>1. SystemInv /\ (~Busy /\ pipeline = "waiting" =>
                      asg.pc = "asking" \/ (run.spec = "RunCancelled" /\ crashes > 1)) =>
        (~Busy /\ pipeline = "waiting" =>
           \/ \E s \in open, u \in Users : Str!MayAnswer(u, s)
           \/ run.spec = "RunCancelled" /\ crashes > 1)
  BY SomebodyLeft DEF SystemInv, Asking
<1>2. QED
  BY <1>1, SystemInvariant, SystemImplementsOperator, VolumeSuffices, PTL

(* What a four-eyes strategy approves was approved by two people, also     *)
(* when a restart took the instance back to the first step.                *)
THEOREM TwoPeopleApprove == SystemSpec => []TwoPairsOfEyes
<1>1. SystemInv => TwoPairsOfEyes
  BY DEF SystemInv, StrategyOK, Decided, TwoPairsOfEyes, Str!TwoPairsOfEyes, Str!NoResults
<1>2. QED
  BY <1>1, SystemInvariant, PTL

(* From the form to the pipeline: tasks behind a four-eyes approval run    *)
(* only on the word of two people, and are skipped only on somebody's, for *)
(* every interleaving of the threads, every restart and every deletion.    *)
THEOREM PipelineNeedsEyes == SystemSpec => []OutcomeNeedsEyes
<1>1. SystemInv => OutcomeNeedsEyes
  BY DEF SystemInv, Earned, Learnt, OutcomeNeedsEyes
<1>2. QED
  BY <1>1, SystemInvariant, PTL
=============================================================================
