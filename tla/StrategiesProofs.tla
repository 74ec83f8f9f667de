-------------------------- MODULE StrategiesProofs --------------------------
(***************************************************************************)
(* Theorems about ApprovalStrategies, for every strategy, any number of    *)
(* entries and people, with and without a volume, and for any number of    *)
(* restarts.                                                               *)
(***************************************************************************)
EXTENDS ApprovalStrategies, FiniteSetTheorems, TLAPS

(* Which seats there are.                                                  *)
LEMMA SeatsOf ==
  /\ Route \in {"single", "multi", "fourEyes"}
  /\ 1 \in Seats
  /\ Route = "single" => Seats = {1}
  /\ Route = "fourEyes" => Seats = {1, 2}
  /\ FirstOpen \subseteq Seats
  /\ Route # "fourEyes" => FirstOpen = Seats
  /\ Route = "fourEyes" => FirstOpen = {1}
<1>1. Route \in {"single", "multi", "fourEyes"}
  BY DEF Route
<1>2. CASE Route = "single"
  BY <1>2 DEF Seats, FirstOpen
<1>3. CASE Route = "multi"
  <2>1. Strategy = "MULTI"
    BY <1>3 DEF Route, isMultiApprovalStrategy
  <2>2. 1 \in 1..NEntries
    BY <2>1, StrategyAssumption
  <2>3. QED
    BY <1>3, <2>2 DEF Seats, FirstOpen
<1>4. CASE Route = "fourEyes"
  BY <1>4 DEF Seats, FirstOpen
<1>5. QED
  BY <1>1, <1>2, <1>3, <1>4

(* What the instance and the request know of each other.  An open seat has *)
(* no answer; a request is about an open seat, and its user said what it   *)
(* carries; four eyes opens its seats in turn, the second for another user.*)
Bookkeeping ==
  /\ \A s \in open : answers[s] = "none"
  /\ phase # "asking" => open = {} /\ req.pc = "idle"
  /\ phase = "asking" => ~Ended(answers)
  /\ req.pc # "idle" => /\ req.seat \in open /\ req.user \in Users
                        /\ req.decision \in {"true", "false"}
                        /\ <<req.user, req.decision>> \in said
  /\ \A s \in Seats : answers[s] # "none" =>
       by[s] \in Users /\ <<by[s], answers[s]>> \in said
  /\ Route = "fourEyes" =>
       /\ open \subseteq {1} \/ answers[1] = "true"
       /\ answers[1] = "none" => answers[2] = "none"
       /\ req.pc # "idle" /\ req.seat = 2 => req.user # by[1]
       /\ answers[2] # "none" => by[1] # by[2]

(* What the results are made of.                                           *)
Outcome ==
  /\ phase # "decided" => results = NoResults
  /\ phase = "decided" =>
       /\ Ended(answers)
       /\ results.decision = AllMatch(answers)
       /\ results.approvedBy = Names(answers, by, "true")
       /\ results.rejectedBy = Names(answers, by, "false")

Inv == TypeOK /\ Bookkeeping /\ Outcome

-----------------------------------------------------------------------------
(* The invariant holds when the strategy starts, and of a strategy that is *)
(* started again.                                                          *)
LEMMA FreshStart ==
  ASSUME NEW ans, ans = [s \in Seats |-> "none"]
  PROVE  /\ ~Ended(ans)
         /\ \A s \in FirstOpen : ans[s] = "none"
  BY SeatsOf DEF Ended

LEMMA InvInit == Init => Inv
<1> SUFFICES ASSUME Init PROVE Inv
  OBVIOUS
<1>1. TypeOK
  BY SeatsOf, StrategyAssumption DEF Init, TypeOK, NoReq, NoResults
<1>2. Bookkeeping
  BY SeatsOf, FreshStart DEF Init, Bookkeeping, NoReq
<1>3. Outcome
  BY DEF Init, Outcome
<1>4. QED
  BY <1>1, <1>2, <1>3 DEF Inv

(* Saving an answer: the arithmetic of one more seat.  With the answer     *)
(* "true" the vote ends only when all said "true"; the decision that the   *)
(* strategy computes is then the one calculateOutcome would compute.       *)
LEMMA OneMoreSeat ==
  ASSUME Inv, Save
  PROVE  /\ req.seat \in Seats /\ answers[req.seat] = "none"
         /\ req.decision \in {"true", "false"}
         /\ \A t \in Seats : answers'[t] = IF t = req.seat THEN req.decision ELSE answers[t]
         /\ \A t \in Seats : by'[t] = IF t = req.seat THEN req.user ELSE by[t]
         /\ \A t \in Seats : answers[t] # "false"
         /\ AllMatch(answers') = req.decision
         /\ phase = "asking" /\ results = NoResults
<1>1. /\ req.seat \in Seats /\ answers[req.seat] = "none" /\ phase = "asking"
      /\ req.decision \in {"true", "false"} /\ results = NoResults
  BY DEF Inv, TypeOK, Bookkeeping, Outcome, Save
<1>2. \A t \in Seats : answers'[t] = IF t = req.seat THEN req.decision ELSE answers[t]
  BY DEF Save, Inv, TypeOK
<1>3. \A t \in Seats : by'[t] = IF t = req.seat THEN req.user ELSE by[t]
  BY DEF Save, Inv, TypeOK
<1>4. \A t \in Seats : answers[t] # "false"
  BY <1>1 DEF Inv, Bookkeeping, Ended
<1>5. AllMatch(answers') = req.decision
  BY <1>1, <1>2, <1>4 DEF AllMatch
<1>6. QED
  BY <1>1, <1>2, <1>3, <1>4, <1>5

LEMMA InvSave ==
  ASSUME Inv, Save
  PROVE  Inv'
<1> USE OneMoreSeat
<1>1. answers' \in [Seats -> {"none", "true", "false"}] /\ by' \in [Seats -> Users \cup {Nobody}]
  BY DEF Save, Inv, TypeOK, Bookkeeping
<1>2. \A s \in Seats : answers'[s] # "none" =>
        by'[s] \in Users /\ <<by'[s], answers'[s]>> \in said'
  BY DEF Save, Inv, Bookkeeping
<1>3. \A d \in {"true", "false"} : Names(answers', by', d) \subseteq Users
  BY <1>2 DEF Names
<1>4. req' = NoReq /\ UNCHANGED <<responses, said, crashes>>
  BY DEF Save
<1>5. Route = "fourEyes" =>
        /\ answers'[1] # "none"
        /\ req.seat = 1 => answers'[2] = "none"
        /\ req.seat = 2 => answers'[1] = "true"
        /\ answers'[2] # "none" => by'[1] # by'[2]
  BY SeatsOf DEF Save, Inv, TypeOK, Bookkeeping
<1>6. CASE Ended(answers')
  <2>1. /\ phase' = "decided" /\ open' = {}
        /\ results' = [decision |-> req.decision,
                       approvedBy |-> Names(answers', by', "true"),
                       rejectedBy |-> Names(answers', by', "false")]
    BY <1>6 DEF Save
  <2>2. TypeOK'
    BY <1>1, <1>3, <1>4, <2>1, SeatsOf DEF Inv, TypeOK, NoReq
  <2>3. Bookkeeping'
    BY <1>2, <1>4, <1>5, <2>1 DEF Bookkeeping, NoReq
  <2>4. Outcome'
    BY <1>6, <2>1 DEF Outcome
  <2>5. QED
    BY <2>2, <2>3, <2>4 DEF Inv
<1>7. CASE ~Ended(answers')
  <2>1. /\ phase' = "asking" /\ results' = NoResults
        /\ open' = IF Route = "fourEyes" THEN {2} ELSE open \ {req.seat}
    BY <1>7 DEF Save
  <2>2. Route = "fourEyes" => answers'[1] = "true" /\ answers'[2] = "none"
    BY <1>1, <1>5, <1>7, SeatsOf DEF Ended
  <2>3. open' \subseteq Seats /\ \A s \in open' : answers'[s] = "none"
    BY <2>1, <2>2, SeatsOf DEF Inv, TypeOK, Bookkeeping
  <2>4. TypeOK'
    BY <1>1, <1>4, <2>1, <2>3, SeatsOf DEF Inv, TypeOK, NoReq, NoResults
  <2>5. Bookkeeping'
    BY <1>2, <1>4, <1>5, <1>7, <2>1, <2>2, <2>3 DEF Bookkeeping, NoReq
  <2>6. Outcome'
    BY <2>1 DEF Outcome
  <2>7. QED
    BY <2>4, <2>5, <2>6 DEF Inv
<1>8. QED
  BY <1>6, <1>7

LEMMA InvStep == Inv /\ [Next]_vars => Inv'
<1> SUFFICES ASSUME Inv, [Next]_vars PROVE Inv'
  OBVIOUS
<1>1. ASSUME NEW s \in Seats, NEW u \in Users, NEW d \in {"true", "false"}, Complete(u, s, d)
      PROVE  Inv'
  <2>1. TypeOK'
    BY <1>1 DEF Complete, Inv, TypeOK
  <2>2. Bookkeeping'
    BY <1>1 DEF Complete, MayAnswer, Inv, Bookkeeping
  <2>3. Outcome'
    BY <1>1 DEF Complete, Inv, Outcome
  <2>4. QED
    BY <2>1, <2>2, <2>3 DEF Inv
<1>2. CASE UpdateApprovalTaskResponses
  <2>1. TypeOK'
    BY <1>2 DEF UpdateApprovalTaskResponses, Inv, TypeOK
  <2>2. Bookkeeping'
    BY <1>2 DEF UpdateApprovalTaskResponses, Inv, TypeOK, Bookkeeping
  <2>3. Outcome'
    BY <1>2 DEF UpdateApprovalTaskResponses, Inv, Outcome
  <2>4. QED
    BY <2>1, <2>2, <2>3 DEF Inv
<1>3. CASE Save
  BY <1>3, InvSave
<1>4. CASE Interrupt
  BY <1>4 DEF Interrupt, Inv, TypeOK, Bookkeeping, Outcome
<1>5. CASE Crash
  <2>1. req' = NoReq /\ UNCHANGED <<phase, responses, results, said>>
    BY <1>5 DEF Crash
  <2>2. TypeOK'
    BY <1>5, SeatsOf, StrategyAssumption DEF Crash, Inv, TypeOK, NoReq
  <2>3. CASE UNCHANGED <<open, answers, by>>
    <3>1. Bookkeeping'
      BY <2>1, <2>3 DEF Inv, Bookkeeping, NoReq
    <3>2. Outcome'
      BY <2>1, <2>3 DEF Inv, Outcome
    <3>3. QED
      BY <2>2, <3>1, <3>2 DEF Inv
  <2>4. CASE /\ phase = "asking" /\ open' = FirstOpen
             /\ answers' = [s \in Seats |-> "none"]
    <3>1. Bookkeeping'
      BY <2>1, <2>4, SeatsOf, FreshStart DEF Inv, Bookkeeping, NoReq
    <3>2. Outcome'
      BY <2>1, <2>4 DEF Inv, Outcome
    <3>3. QED
      BY <2>2, <3>1, <3>2 DEF Inv
  <2>5. QED
    BY <1>5, <2>3, <2>4 DEF Crash
<1>6. CASE UNCHANGED vars
  BY <1>6 DEF vars, Inv, TypeOK, Bookkeeping, Outcome
<1>7. QED
  BY <1>1, <1>2, <1>3, <1>4, <1>5, <1>6 DEF Next, Answer

(* The invariant of the strategies.                                        *)
THEOREM StrategyInvariant == Spec => []Inv
  BY InvInit, InvStep, PTL DEF Spec
-----------------------------------------------------------------------------
(* Every person the result names said what it says of them; an approval    *)
(* names nobody who rejected, and a decision names somebody: single, multi *)
(* and four eyes compute approvedBy and rejectedBy from the same answers   *)
(* as the decision.                                                        *)
THEOREM NamesAreHonest == Spec => []NamesSaidSo
<1>1. Inv => NamesSaidSo
  <2> SUFFICES ASSUME Inv PROVE NamesSaidSo
    OBVIOUS
  <2>1. CASE phase # "decided"
    BY <2>1 DEF Inv, Outcome, NoResults, NamesSaidSo
  <2>2. CASE phase = "decided"
    <3>1. /\ results.approvedBy = Names(answers, by, "true")
          /\ results.rejectedBy = Names(answers, by, "false")
          /\ results.decision = AllMatch(answers) /\ Ended(answers)
      BY <2>2 DEF Inv, Outcome
    <3>2. \A s \in Seats : answers[s] # "none" => <<by[s], answers[s]>> \in said
      BY DEF Inv, Bookkeeping
    <3>3. \A u \in results.approvedBy : <<u, "true">> \in said
      BY <3>1, <3>2 DEF Names
    <3>4. \A u \in results.rejectedBy : <<u, "false">> \in said
      BY <3>1, <3>2 DEF Names
    <3>5. results.decision = "true" => results.approvedBy # {} /\ results.rejectedBy = {}
      <4>1. SUFFICES ASSUME results.decision = "true"
                     PROVE  results.approvedBy # {} /\ results.rejectedBy = {}
        OBVIOUS
      <4>2. \A s \in Seats : answers[s] = "true"
        BY <3>1, <4>1 DEF AllMatch, Ended, Inv, TypeOK
      <4>3. QED
        BY <3>1, <4>2, SeatsOf DEF Names
    <3>6. results.decision = "false" => results.rejectedBy # {}
      BY <3>1 DEF AllMatch, Names
    <3>7. QED
      BY <3>3, <3>4, <3>5, <3>6 DEF NamesSaidSo
  <2>3. QED
    BY <2>1, <2>2
<1>2. QED
  BY <1>1, StrategyInvariant, PTL

(* A four eyes approval was given by two people, the two it names: the     *)
(* ExcludedUsers of the second user task come from the same instance as    *)
(* the answer of the first, whatever a restart lost.                       *)
THEOREM FourEyesNeedsTwo == Spec => []TwoPairsOfEyes
<1>1. Inv => TwoPairsOfEyes
  <2> SUFFICES ASSUME Inv, Route = "fourEyes", results.decision = "true"
               PROVE  \E u, v \in Users : /\ u # v /\ results.approvedBy = {u, v}
                                          /\ {<<u, "true">>, <<v, "true">>} \subseteq said
    BY DEF TwoPairsOfEyes
  <2>1. phase = "decided"
    BY DEF Inv, Outcome, NoResults
  <2>2. answers[1] = "true" /\ answers[2] = "true"
    BY <2>1, SeatsOf DEF Inv, Outcome, AllMatch, Ended, TypeOK
  <2>3. /\ by[1] \in Users /\ by[2] \in Users /\ by[1] # by[2]
        /\ {<<by[1], "true">>, <<by[2], "true">>} \subseteq said
    BY <2>2, SeatsOf DEF Inv, Bookkeeping
  <2>4. results.approvedBy = {by[1], by[2]}
    BY <2>1, <2>2, SeatsOf DEF Inv, Outcome, Names
  <2>5. QED
    BY <2>3, <2>4
<1>2. QED
  BY <1>1, StrategyInvariant, PTL

(* While single, or an unknown strategy, asks, nothing has been answered.  *)
THEOREM SingleAsksOnce == Spec => []FirstAnswerDecides
<1>1. Inv => FirstAnswerDecides
  <2> SUFFICES ASSUME Inv, Strategy \in {"null", "SINGLE"}, phase = "asking"
               PROVE  \A s \in Seats : answers[s] = "none"
    BY DEF FirstAnswerDecides
  <2>1. Seats = {1}
    BY SeatsOf DEF Route, isSingleApprovalStrategy
  <2>2. QED
    BY <2>1 DEF Inv, Bookkeeping, Ended
<1>2. QED
  BY <1>1, StrategyInvariant, PTL

(* Who answers a seat is one of those whom its user task is assigned to.   *)
Placed ==
  /\ req.pc # "idle" => Assigned(req.user, req.seat)
  /\ \A s \in Seats : answers[s] # "none" => Assigned(by[s], s)

LEMMA PlacedStep == Inv /\ Placed /\ [Next]_vars => Placed'
<1> SUFFICES ASSUME Inv, Placed, [Next]_vars PROVE Placed'
  OBVIOUS
<1>1. CASE \E s \in Seats : Answer(s)
  BY <1>1 DEF Answer, Complete, MayAnswer, Placed
<1>2. CASE UpdateApprovalTaskResponses
  BY <1>2 DEF UpdateApprovalTaskResponses, Placed, Inv, TypeOK
<1>3. CASE Save
  <2>1. Assigned(req.user, req.seat) /\ req'.pc = "idle"
    BY <1>3 DEF Save, Placed, NoReq
  <2>2. \A s \in Seats : answers'[s] # "none" => Assigned(by'[s], s)
    BY <1>3, <2>1, OneMoreSeat DEF Placed
  <2>3. QED
    BY <2>1, <2>2 DEF Placed
<1>4. CASE Interrupt
  BY <1>4 DEF Interrupt, Placed
<1>5. CASE Crash
  BY <1>5 DEF Crash, Placed, NoReq
<1>6. CASE UNCHANGED vars
  BY <1>6 DEF vars, Placed
<1>7. QED
  BY <1>1, <1>2, <1>3, <1>4, <1>5, <1>6 DEF Next

(* Whoever decides was named by the ApprovalTask, when that names groups,  *)
(* or approvers for another strategy than four eyes: where four eyes has   *)
(* approvers for groups, or single has neither, anybody decides.           *)
THEOREM NamedDecide ==
  ASSUME GroupApproval \/ (Route # "fourEyes" /\ NEntries > 0)
  PROVE  Spec => []AssigneesDecide
<1>1. Init => Placed
  BY DEF Init, Placed, NoReq
<1>2. ASSUME Inv, Placed PROVE AssigneesDecide
  <2>1. \A u, s : Assigned(u, s) /\ s \in Seats => Named(u)
    BY SeatsOf, StrategyAssumption DEF Assigned, Seats, Named
  <2>2. ASSUME NEW u \in results.approvedBy \cup results.rejectedBy
        PROVE  \E s \in Seats : answers[s] # "none" /\ u = by[s]
    BY <1>2 DEF Inv, Outcome, NoResults, Names
  <2>3. QED
    BY <1>2, <2>1, <2>2 DEF Placed, AssigneesDecide
<1>3. QED
  BY <1>1, <1>2, PlacedStep, StrategyInvariant, PTL DEF Spec

(* Every variable of a strategy keeps its type.                            *)
THEOREM StrategyTypes == Spec => []TypeOK
  BY StrategyInvariant, PTL DEF Inv

-----------------------------------------------------------------------------
(* The label counts what the instance remembers, and, once it was written, *)
(* the answer of the request at hand.                                      *)
Answered == {s \in Seats : answers[s] # "none"}

Counted ==
  Route = "multi" =>
    /\ responses >= Cardinality(Answered)
    /\ req.pc = "save" => responses >= Cardinality(Answered) + 1

(* A multi approval has finitely many seats.                               *)
LEMMA AnsweredFinite ==
  ASSUME Route = "multi"
  PROVE  IsFiniteSet(Answered) /\ Cardinality(Answered) \in Nat
<1>1. IsFiniteSet(Seats)
  BY StrategyAssumption, FS_Interval DEF Seats
<1>2. Answered \subseteq Seats
  BY DEF Answered
<1>3. QED
  BY <1>1, <1>2, FS_Subset, FS_CardinalityType

(* Every step keeps Counted: an answer is counted before it is saved, and  *)
(* a restart takes back answers, never the label.                          *)
LEMMA CountedStep == Inv /\ Counted /\ [Next]_vars => Counted'
<1> SUFFICES ASSUME Inv, Counted, [Next]_vars, Route = "multi"
             PROVE  Counted'
  BY DEF Counted
<1>1. /\ IsFiniteSet(Answered) /\ Cardinality(Answered) \in Nat /\ responses \in Nat
      /\ responses >= Cardinality(Answered)
  BY AnsweredFinite DEF Counted, Inv, TypeOK
<1>2. CASE \E s \in Seats : Answer(s)
  <2>1. responses' = responses /\ answers' = answers /\ req'.pc = "responses"
    BY <1>2 DEF Answer, Complete
  <2>2. QED
    BY <1>1, <2>1 DEF Counted, Answered
<1>3. CASE UpdateApprovalTaskResponses
  <2>1. responses' = responses + 1 /\ answers' = answers
    BY <1>3 DEF UpdateApprovalTaskResponses
  <2>2. QED
    BY <1>1, <2>1 DEF Counted, Answered
<1>4. CASE Save
  <2>1. responses' = responses /\ req.pc = "save" /\ req'.pc = "idle"
    BY <1>4 DEF Save, NoReq
  <2>2. Answered' = Answered \cup {req.seat} /\ req.seat \notin Answered
    BY <1>4, OneMoreSeat DEF Answered
  <2>3. Cardinality(Answered') = Cardinality(Answered) + 1
    BY <1>1, <2>2, FS_AddElement
  <2>4. QED
    BY <2>1, <2>3 DEF Counted
<1>5. CASE Interrupt
  <2>1. UNCHANGED <<responses, answers, req>>
    BY <1>5 DEF Interrupt
  <2>2. QED
    BY <2>1 DEF Counted, Answered
<1>6. CASE Crash
  <2>1. responses' = responses /\ req'.pc = "idle"
    BY <1>6 DEF Crash, NoReq
  <2>2. Answered' = Answered \/ Answered' = {}
    BY <1>6 DEF Crash, Answered
  <2>3. responses >= Cardinality(Answered')
    BY <1>1, <2>2, FS_EmptySet
  <2>4. QED
    BY <2>1, <2>3 DEF Counted
<1>7. CASE UNCHANGED vars
  BY <1>7 DEF vars, Counted, Answered
<1>8. QED
  BY <1>2, <1>3, <1>4, <1>5, <1>6, <1>7 DEF Next

(* The responses label of a multi approval is never smaller than the       *)
(* number of answers the strategy remembers, for any number of entries and *)
(* of restarts: the label is written in the middle of a request, the       *)
(* answer saved at its end.                                                *)
THEOREM EveryAnswerCounted == Spec => []NoAnswerUncounted
<1>1. Init => Counted
  <2>1. Init => Answered = {} /\ responses = 0 /\ req.pc = "idle"
    BY DEF Init, Answered, NoReq
  <2>2. QED
    BY <2>1, FS_EmptySet DEF Counted
<1>2. Counted => NoAnswerUncounted
  BY DEF Counted, Answered, NoAnswerUncounted
<1>3. QED
  BY <1>1, <1>2, CountedStep, StrategyInvariant, PTL DEF Spec

(* Nor is the label far ahead: on a volume a restart adds at most one, the *)
(* answer of the request it interrupts.                                    *)
Exact ==
  Route = "multi" /\ (Durable \/ crashes = 0) =>
    responses <= Cardinality(Answered) + crashes + (IF req.pc = "save" THEN 1 ELSE 0)

LEMMA ExactStep == Inv /\ Exact /\ [Next]_vars => Exact'
<1> SUFFICES ASSUME Inv, Exact, [Next]_vars, Route = "multi", Durable \/ crashes' = 0
             PROVE  responses' <= Cardinality(Answered') + crashes'
                                    + (IF req'.pc = "save" THEN 1 ELSE 0)
  BY DEF Exact
<1>1. /\ IsFiniteSet(Answered) /\ Cardinality(Answered) \in Nat
      /\ responses \in Nat /\ crashes \in Nat
  BY AnsweredFinite DEF Inv, TypeOK
<1>2. Durable \/ crashes = 0 =>
        responses <= Cardinality(Answered) + crashes + (IF req.pc = "save" THEN 1 ELSE 0)
  BY DEF Exact
<1>3. CASE \E s \in Seats : Answer(s)
  <2>1. UNCHANGED <<responses, answers, crashes>> /\ req.pc = "idle" /\ req'.pc = "responses"
    BY <1>3 DEF Answer, Complete
  <2>2. Answered' = Answered
    BY <2>1 DEF Answered
  <2>3. QED
    BY <1>1, <1>2, <2>1, <2>2
<1>4. CASE UpdateApprovalTaskResponses
  <2>1. /\ responses' = responses + 1 /\ UNCHANGED <<answers, crashes>>
        /\ req.pc = "responses" /\ req'.pc = "save"
    BY <1>4 DEF UpdateApprovalTaskResponses, Inv, TypeOK
  <2>2. Answered' = Answered
    BY <2>1 DEF Answered
  <2>3. QED
    BY <1>1, <1>2, <2>1, <2>2
<1>5. CASE Save
  <2>1. UNCHANGED <<responses, crashes>> /\ req.pc = "save" /\ req'.pc = "idle"
    BY <1>5 DEF Save, NoReq
  <2>2. Answered' = Answered \cup {req.seat} /\ req.seat \notin Answered
    BY <1>5, OneMoreSeat DEF Answered
  <2>3. Cardinality(Answered') = Cardinality(Answered) + 1
    BY <1>1, <2>2, FS_AddElement
  <2>4. QED
    BY <1>1, <1>2, <2>1, <2>3
<1>6. CASE Interrupt
  <2>1. UNCHANGED <<responses, answers, req, crashes>>
    BY <1>6 DEF Interrupt
  <2>2. Answered' = Answered
    BY <2>1 DEF Answered
  <2>3. QED
    BY <1>2, <2>1, <2>2
<1>7. CASE Crash
  <2>1. responses' = responses /\ crashes' = crashes + 1 /\ req'.pc = "idle"
    BY <1>7 DEF Crash, NoReq
  <2>2. Durable
    BY <1>1, <2>1
  <2>3. Answered' = Answered
    BY <1>7, <2>2 DEF Crash, Answered
  <2>4. QED
    BY <1>1, <1>2, <2>1, <2>2, <2>3
<1>8. CASE UNCHANGED vars
  <2>1. UNCHANGED <<responses, crashes, req>> /\ Answered' = Answered
    BY <1>8 DEF vars, Answered
  <2>2. QED
    BY <1>2, <2>1
<1>9. QED
  BY <1>3, <1>4, <1>5, <1>6, <1>7, <1>8 DEF Next

(* What the label says between two requests.                               *)
LabelBounds ==
  Route = "multi" /\ req.pc = "idle" /\ (Durable \/ crashes = 0) =>
    /\ responses >= Cardinality(Answered)
    /\ responses <= Cardinality(Answered) + crashes

(* Between two requests the responses label of a multi approval is exactly *)
(* the number of answers, as long as nothing restarted, and on a volume    *)
(* ahead of it by at most one for each restart.                            *)
THEOREM LabelIsExact == Spec => []LabelBounds
<1>1. Init => Counted /\ Exact
  <2>1. Init => Answered = {} /\ responses = 0 /\ crashes = 0 /\ req.pc = "idle"
    BY DEF Init, Answered, NoReq
  <2>2. QED
    BY <2>1, FS_EmptySet DEF Counted, Exact
<1>2. ASSUME Inv, Counted, Exact PROVE LabelBounds
  <2>1. Route = "multi" => Cardinality(Answered) \in Nat /\ crashes \in Nat
    BY <1>2, AnsweredFinite DEF Inv, TypeOK
  <2>2. QED
    BY <1>2, <2>1 DEF Counted, Exact, LabelBounds
<1>3. QED
  BY <1>1, <1>2, CountedStep, ExactStep, StrategyInvariant, PTL DEF Spec

-----------------------------------------------------------------------------
(* The end of a request is one seat's answer, for the vote.                *)
LEMMA SaveVotes ==
  ASSUME Inv, Save
  PROVE  Vote!Next
<1> USE OneMoreSeat
<1> DEFINE Yes == {s \in Seats : answers[s] = "true"}
           No  == {s \in Seats : answers[s] = "false"}
<1>0. PICK seat \in Seats : seat = req.seat
  OBVIOUS
<1>1. answers' \in [Seats -> {"none", "true", "false"}]
  BY DEF Save, Inv, TypeOK
<1>2. No = {} /\ req.seat \notin Yes
  OBVIOUS
<1>3. CASE req.decision = "true"
  <2>1. Yes' = Yes \cup {req.seat} /\ No' = No
    BY <1>3
  <2>2. Ended(answers') <=> Yes' = Seats
    BY <1>1, <1>3, <2>1 DEF Ended
  <2>3. /\ phase' # "interrupted" /\ phase # "interrupted"
        /\ results.decision = "none"
        /\ results'.decision = IF Yes' = Seats THEN "true" ELSE "none"
    BY <1>3, <2>2 DEF Save, NoResults
  <2>4. Vote!Approve(seat)
    BY <1>0, <1>2, <2>1, <2>3 DEF Vote!Approve
  <2>5. QED
    BY <2>4 DEF Vote!Next
<1>4. CASE req.decision = "false"
  <2>1. Yes' = Yes /\ No' = No \cup {req.seat}
    BY <1>4
  <2>2. Ended(answers')
    BY <1>4 DEF Ended
  <2>3. /\ phase' # "interrupted" /\ phase # "interrupted"
        /\ results.decision = "none" /\ results'.decision = "false"
    BY <1>4, <2>2 DEF Save, NoResults
  <2>4. Vote!Reject(seat)
    BY <1>0, <1>2, <2>1, <2>3 DEF Vote!Reject
  <2>5. QED
    BY <2>4 DEF Vote!Next
<1>5. QED
  BY <1>3, <1>4

(* Every step of a strategy is a step of the vote, or one it does not see. *)
LEMMA VoteStep == Inv /\ [Next]_vars => [Vote!Next]_(Vote!vars)
<1> SUFFICES ASSUME Inv, [Next]_vars PROVE [Vote!Next]_(Vote!vars)
  OBVIOUS
<1>1. CASE (\E s \in Seats : Answer(s)) \/ UpdateApprovalTaskResponses
  BY <1>1 DEF Answer, Complete, UpdateApprovalTaskResponses, Vote!vars
<1>2. CASE Save
  BY <1>2, SaveVotes
<1>3. CASE Interrupt
  <2>1. phase = "asking" /\ phase' = "interrupted" /\ results.decision = "none"
    BY <1>3 DEF Interrupt, Inv, Outcome, NoResults
  <2>2. UNCHANGED answers
    BY <1>3 DEF Interrupt
  <2>3. QED
    BY <2>1, <2>2 DEF Vote!Next, Vote!Interrupt
<1>4. CASE Crash
  <2>1. CASE UNCHANGED answers
    BY <1>4, <2>1 DEF Crash, Vote!vars
  <2>2. CASE phase = "asking" /\ answers' = [s \in Seats |-> "none"]
    <3>1. results.decision = "none" /\ UNCHANGED <<phase, results>>
      BY <1>4, <2>2 DEF Crash, Inv, Outcome, NoResults
    <3>2. QED
      BY <2>2, <3>1 DEF Vote!Next, Vote!Forget
  <2>3. QED
    BY <1>4, <2>1, <2>2 DEF Crash
<1>5. CASE UNCHANGED vars
  BY <1>5 DEF vars, Vote!vars
<1>6. QED
  BY <1>1, <1>2, <1>3, <1>4, <1>5 DEF Next

(* All strategies implement one unanimous vote.                            *)
THEOREM VoteRefinement == Spec => VoteSpec
<1>1. Init => Vote!Init
  BY DEF Init, NoResults, Vote!Init
<1>2. QED
  BY <1>1, VoteStep, StrategyInvariant, PTL DEF Spec, VoteSpec, Vote!Spec
=============================================================================
