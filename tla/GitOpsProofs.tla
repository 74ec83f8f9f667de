---------------------------- MODULE GitOpsProofs ----------------------------
(***************************************************************************)
(* Proofs about module GitOps, for every number of runs, apps and tags.    *)
(* The argument: a clone in a workspace is a commit of its branch, edited  *)
(* in one place (Clones), commits are only ever appended, and a push goes  *)
(* through only when that commit is still the tip; hence what is pushed is *)
(* the tip with one tag changed.                                           *)
(***************************************************************************)
EXTENDS GitOps, TLAPS

(* How far a run is in its plan.                                           *)
Progress ==
  \A r \in Runs :
    /\ done[r] \in 0..Len(Plan[r])
    /\ pc[r] \notin {"succeeded", "failed"} => done[r] < Len(Plan[r])
    /\ pc[r] = "succeeded" => done[r] = Len(Plan[r])

(* A clone is the commit it was made from, before and after update-yaml.   *)
Clones ==
  \A r \in Runs :
    /\ pc[r] \in {"yaml", "push"} => base[r] \in 1..Len(log[Branch(r)])
    /\ pc[r] = "yaml" => tree[r] = log[Branch(r)][base[r]]
    /\ pc[r] = "push" => tree[r] = [log[Branch(r)][base[r]] EXCEPT ![App[r]] = Tag[r]]

(* What a run has written is in the history of the branch.                 *)
Written ==
  \A r \in Runs : \A k \in 1..done[r] :
    \E i \in 1..Len(log[Plan[r][k]]) : log[Plan[r][k]][i][App[r]] = Tag[r]

(* Each commit but the first is some run's.                                *)
Authors ==
  \A b \in Branches : Len(log[b]) > 1 =>
    \E s \in Runs : \E k \in 1..done[s] : Plan[s][k] = b

Inv ==
  /\ TypeOK
  /\ Progress
  /\ Clones
  /\ Written
  /\ Authors
  /\ DrFollowsMain
  /\ RejectedByAnother

-----------------------------------------------------------------------------
LEMMA Plans ==
  ASSUME NEW r \in Runs
  PROVE  /\ Len(Plan[r]) \in {1, 2}
         /\ \A k \in 1..Len(Plan[r]) : Plan[r][k] \in Branches
         /\ \A j, k \in 1..Len(Plan[r]) : Plan[r][j] = Plan[r][k] => j = k
         /\ \A k \in 1..Len(Plan[r]) : Plan[r][k] = "dr" => k = 2 /\ Plan[r][1] = "main"
<1>1. CASE Stage[r] = "prd"
  <2>1. Plan[r] = <<"main", "dr">>
    BY <1>1 DEF Plan
  <2>2. QED
    BY <2>1 DEF Branches
<1>2. CASE Stage[r] # "prd"
  <2>1. Plan[r] = <<Stage[r]>> /\ Stage[r] \in {"dev", "test"}
    BY <1>2, GitOpsAssumption DEF Plan
  <2>2. QED
    BY <2>1 DEF Branches
<1>3. QED
  BY <1>1, <1>2

LEMMA Appended ==
  ASSUME NEW S, NEW s \in Seq(S), NEW e \in S
  PROVE  /\ Append(s, e) \in Seq(S)
         /\ Len(Append(s, e)) = Len(s) + 1
         /\ Append(s, e)[Len(s) + 1] = e
         /\ \A i \in 1..Len(s) : Append(s, e)[i] = s[i]
  OBVIOUS

(* The branch that a run works on.                                         *)
LEMMA BranchOf ==
  ASSUME TypeOK, Progress, NEW r \in Runs, pc[r] \notin {"succeeded", "failed"}
  PROVE  /\ Branch(r) \in Branches
         /\ done[r] + 1 \in 1..Len(Plan[r])
         /\ Branch(r) = Plan[r][done[r] + 1]
<1>1. done[r] + 1 \in 1..Len(Plan[r])
  BY Plans DEF TypeOK, Progress
<1>2. QED
  BY <1>1, Plans DEF Branch

(* What a push does to the history, when it goes through.                  *)
LEMMA Pushed ==
  ASSUME TypeOK, Progress, Clones, NEW r \in Runs, pc[r] = "push",
         base[r] = Len(log[Branch(r)]), Publish(r)
  PROVE  /\ tree[r] = [Tip(Branch(r)) EXCEPT ![App[r]] = Tag[r]]
         /\ log'[Branch(r)] = Append(log[Branch(r)], tree[r])
         /\ \A b \in Branches : b # Branch(r) => log'[b] = log[b]
         /\ log' \in [Branches -> Seq(Manifest)]
         /\ \A b \in Branches : /\ Len(log'[b]) >= Len(log[b])
                                /\ \A i \in 1..Len(log[b]) : log'[b][i] = log[b][i]
         /\ done'[r] = done[r] + 1
         /\ \A s \in Runs : s # r => done'[s] = done[s]
         /\ done' \in [Runs -> 0..2]
<1>1. Branch(r) \in Branches /\ done[r] + 1 \in 1..2 /\ tree[r] \in Manifest
  <2>1. Branch(r) \in Branches /\ done[r] + 1 \in 1..Len(Plan[r])
    BY BranchOf
  <2>2. Len(Plan[r]) \in {1, 2}
    BY Plans
  <2>3. done[r] \in 0..2 /\ tree[r] \in Manifest
    BY DEF TypeOK
  <2>4. done[r] + 1 \in 1..2
    <3>1. CASE Len(Plan[r]) = 1
      BY <2>1, <2>3, <3>1
    <3>2. CASE Len(Plan[r]) = 2
      BY <2>1, <2>3, <3>2
    <3>3. QED
      BY <2>2, <3>1, <3>2
  <2>5. QED
    BY <2>1, <2>3, <2>4
<1>2. tree[r] = [Tip(Branch(r)) EXCEPT ![App[r]] = Tag[r]]
  BY DEF Clones, Tip
<1>3. log[Branch(r)] \in Seq(Manifest)
  BY <1>1 DEF TypeOK
<1>4. log' = [log EXCEPT ![Branch(r)] = Append(log[Branch(r)], tree[r])]
  BY <1>1 DEF Publish, TypeOK
<1>5. /\ log'[Branch(r)] = Append(log[Branch(r)], tree[r])
      /\ \A b \in Branches : b # Branch(r) => log'[b] = log[b]
      /\ log' \in [Branches -> Seq(Manifest)]
  BY <1>1, <1>3, <1>4, Appended DEF TypeOK
<1>6. \A b \in Branches : /\ Len(log'[b]) >= Len(log[b])
                          /\ \A i \in 1..Len(log[b]) : log'[b][i] = log[b][i]
  <2> SUFFICES ASSUME NEW b \in Branches
               PROVE  /\ Len(log'[b]) >= Len(log[b])
                      /\ \A i \in 1..Len(log[b]) : log'[b][i] = log[b][i]
    OBVIOUS
  <2>1. log[b] \in Seq(Manifest)
    BY DEF TypeOK
  <2>2. CASE b = Branch(r)
    BY <1>1, <1>3, <1>5, <2>2, Appended
  <2>3. CASE b # Branch(r)
    BY <1>5, <2>1, <2>3
  <2>4. QED
    BY <2>2, <2>3
<1>7. done' = [done EXCEPT ![r] = done[r] + 1]
  BY DEF Publish
<1>8. QED
  BY <1>1, <1>2, <1>5, <1>6, <1>7 DEF TypeOK

-----------------------------------------------------------------------------
(* The inductive invariant.                                                *)
LEMMA InvInit == Init => Inv
<1> SUFFICES ASSUME Init PROVE Inv
  OBVIOUS
<1>1. Manifest0 \in Manifest
  BY GitOpsAssumption DEF Manifest0, Manifest
<1>2. \A b \in Branches : log[b] = <<Manifest0>> /\ Len(log[b]) = 1
  BY DEF Init
<1>3. TypeOK
  <2>1. log \in [Branches -> Seq(Manifest)]
    BY <1>1 DEF Init
  <2>2. QED
    BY <1>1, <1>2, <2>1 DEF Init, TypeOK
<1>4. Progress
  <2> SUFFICES ASSUME NEW r \in Runs
               PROVE  /\ done[r] \in 0..Len(Plan[r])
                      /\ done[r] < Len(Plan[r])
                      /\ pc[r] # "succeeded"
    BY DEF Progress
  <2>1. Len(Plan[r]) \in {1, 2}
    BY Plans
  <2>2. done[r] = 0 /\ pc[r] = "idle"
    BY DEF Init
  <2>3. Len(Plan[r]) \in Nat /\ Len(Plan[r]) > 0
    BY <2>1
  <2>4. QED
    BY <2>2, <2>3
<1>5. Clones /\ Written /\ Authors /\ RejectedByAnother
  BY <1>2 DEF Init, Clones, Written, Authors, RejectedByAnother
<1>6. DrFollowsMain
  BY <1>2 DEF DrFollowsMain, Branches
<1>7. QED
  BY <1>3, <1>4, <1>5, <1>6 DEF Inv

(* A step that leaves the server alone.                                    *)
LEMMA QuietStep ==
  ASSUME Inv, UNCHANGED <<log, done>>, NEW r \in Runs,
         NEW x \in {"checkout", "yaml", "push", "rejected", "failed"},
         pc[r] \notin {"succeeded", "failed"}, pc' = [pc EXCEPT ![r] = x],
         \A s \in Runs \ {r} : base'[s] = base[s] /\ tree'[s] = tree[s],
         base' \in [Runs -> Nat], tree' \in [Runs -> Manifest],
         live' \in [Branches -> Manifest],
         x \in {"yaml", "push"} => base'[r] \in 1..Len(log[Branch(r)]),
         x = "yaml" => tree'[r] = log[Branch(r)][base'[r]],
         x = "push" => tree'[r] = [log[Branch(r)][base'[r]] EXCEPT ![App[r]] = Tag[r]],
         x = "rejected" => Len(log[Branch(r)]) > 1
  PROVE  Inv'
<1>1. TypeOK'
  BY DEF Inv, TypeOK
<1>2. \A s \in Runs : pc'[s] = IF s = r THEN x ELSE pc[s]
  BY DEF Inv, TypeOK
<1>3. \A s \in Runs : Branch(s)' = Branch(s)
  BY DEF Branch
<1>4. Progress'
  BY <1>2 DEF Inv, Progress
<1>5. Clones'
  <2> SUFFICES ASSUME NEW s \in Runs
               PROVE /\ pc'[s] \in {"yaml", "push"} => base'[s] \in 1..Len(log[Branch(s)])
                     /\ pc'[s] = "yaml" => tree'[s] = log[Branch(s)][base'[s]]
                     /\ pc'[s] = "push" =>
                          tree'[s] = [log[Branch(s)][base'[s]] EXCEPT ![App[s]] = Tag[s]]
    BY <1>3 DEF Clones
  <2>1. CASE s = r
    BY <1>2, <2>1
  <2>2. CASE s # r
    <3>1. pc'[s] = pc[s] /\ base'[s] = base[s] /\ tree'[s] = tree[s]
      BY <1>2, <2>2
    <3>2. /\ pc[s] \in {"yaml", "push"} => base[s] \in 1..Len(log[Branch(s)])
          /\ pc[s] = "yaml" => tree[s] = log[Branch(s)][base[s]]
          /\ pc[s] = "push" => tree[s] = [log[Branch(s)][base[s]] EXCEPT ![App[s]] = Tag[s]]
      BY DEF Inv, Clones
    <3>3. QED
      BY <3>1, <3>2
  <2>3. QED
    BY <2>1, <2>2
<1>6. Written' /\ Authors' /\ DrFollowsMain'
  <2>1. log' = log /\ done' = done
    OBVIOUS
  <2>2. Written'
    <3> SUFFICES ASSUME NEW s \in Runs, NEW k \in 1..done'[s]
                 PROVE  \E i \in 1..Len(log'[Plan[s][k]]) :
                          log'[Plan[s][k]][i][App[s]] = Tag[s]
      BY DEF Written
    <3>1. k \in 1..done[s]
      BY <2>1
    <3>2. QED
      BY <2>1, <3>1 DEF Inv, Written
  <2>3. Authors'
    BY <2>1 DEF Inv, Authors
  <2>4. DrFollowsMain'
    BY <2>1 DEF Inv, DrFollowsMain
  <2>5. QED
    BY <2>2, <2>3, <2>4
<1>7. RejectedByAnother'
  <2> SUFFICES ASSUME NEW s \in Runs, pc'[s] = "rejected"
               PROVE  \E t \in Runs \ {s} : \E k \in 1..done[t] : Plan[t][k] = Branch(s)
    BY <1>3 DEF RejectedByAnother
  <2>1. CASE s # r
    BY <1>2, <2>1 DEF Inv, RejectedByAnother
  <2>2. CASE s = r
    <3>1. Branch(r) \in Branches /\ Branch(r) = Plan[r][done[r] + 1]
          /\ done[r] + 1 \in 1..Len(Plan[r])
      BY BranchOf DEF Inv
    <3>2. PICK t \in Runs : \E k \in 1..done[t] : Plan[t][k] = Branch(r)
      BY <1>2, <2>2, <3>1 DEF Inv, Authors
    <3>3. t # r
      <4> SUFFICES ASSUME NEW k \in 1..done[r], Plan[r][k] = Plan[r][done[r] + 1]
                   PROVE  FALSE
        BY <3>1, <3>2
      <4>0. Len(Plan[r]) \in {1, 2}
        BY Plans
      <4>1. done[r] \in 0..2
        BY DEF Inv, TypeOK
      <4>3. k \in 1..Len(Plan[r]) /\ k # done[r] + 1
        BY <3>1, <4>0, <4>1
      <4>2. QED
        BY <3>1, <4>3, Plans
    <3>4. QED
      BY <2>2, <3>2, <3>3
  <2>3. QED
    BY <2>1, <2>2
<1>8. QED
  BY <1>1, <1>4, <1>5, <1>6, <1>7 DEF Inv

(* A step that neither a run nor the server takes.                         *)
LEMMA SyncStep ==
  ASSUME Inv, UNCHANGED <<log, pc, done, base, tree>>, live' \in [Branches -> Manifest]
  PROVE  Inv'
<1>1. log' = log /\ pc' = pc /\ done' = done /\ base' = base /\ tree' = tree
  OBVIOUS
<1>2. TypeOK'
  BY <1>1 DEF Inv, TypeOK
<1>3. \A r \in Runs : Branch(r)' = Branch(r)
  BY <1>1 DEF Branch
<1>4. Progress'
  BY <1>1 DEF Inv, Progress
<1>5. Clones'
  BY <1>1, <1>3 DEF Inv, Clones
<1>6. Written'
  <2> SUFFICES ASSUME NEW s \in Runs, NEW k \in 1..done'[s]
               PROVE  \E i \in 1..Len(log'[Plan[s][k]]) :
                        log'[Plan[s][k]][i][App[s]] = Tag[s]
    BY DEF Written
  <2>1. k \in 1..done[s]
    BY <1>1
  <2>2. QED
    BY <1>1, <2>1 DEF Inv, Written
<1>7. Authors'
  BY <1>1 DEF Inv, Authors
<1>8. DrFollowsMain'
  BY <1>1 DEF Inv, DrFollowsMain
<1>9. RejectedByAnother'
  BY <1>1, <1>3 DEF Inv, RejectedByAnother
<1>10. QED
  BY <1>2, <1>4, <1>5, <1>6, <1>7, <1>8, <1>9 DEF Inv

(* A push that goes through.                                               *)
LEMMA PushStep ==
  ASSUME Inv, NEW r \in Runs, pc[r] = "push", base[r] = Len(log[Branch(r)]),
         Publish(r), UNCHANGED <<base, tree, live>>,
         NEW x \in {"succeeded", "checkout", "failed"}, pc' = [pc EXCEPT ![r] = x],
         x = "succeeded" => done[r] + 1 = Len(Plan[r]),
         x = "checkout" => done[r] + 1 # Len(Plan[r])
  PROVE  Inv'
<1>1. /\ tree[r] = [Tip(Branch(r)) EXCEPT ![App[r]] = Tag[r]]
      /\ log'[Branch(r)] = Append(log[Branch(r)], tree[r])
      /\ \A b \in Branches : b # Branch(r) => log'[b] = log[b]
      /\ log' \in [Branches -> Seq(Manifest)]
      /\ \A b \in Branches : /\ Len(log'[b]) >= Len(log[b])
                             /\ \A i \in 1..Len(log[b]) : log'[b][i] = log[b][i]
      /\ done'[r] = done[r] + 1
      /\ \A s \in Runs : s # r => done'[s] = done[s]
      /\ done' \in [Runs -> 0..2]
  BY Pushed DEF Inv
<1>2. /\ Branch(r) \in Branches
      /\ done[r] + 1 \in 1..Len(Plan[r])
      /\ Branch(r) = Plan[r][done[r] + 1]
  BY BranchOf DEF Inv
<1>3. \A s \in Runs : pc'[s] = IF s = r THEN x ELSE pc[s]
  BY DEF Inv, TypeOK
<1>4. \A s \in Runs : s # r => Branch(s)' = Branch(s)
  BY <1>1 DEF Branch
<1>5. \A b \in Branches : log[b] \in Seq(Manifest) /\ Len(log[b]) \in Nat /\ Len(log[b]) > 0
  BY DEF Inv, TypeOK
<1>6. \A b \in Branches : log'[b] \in Seq(Manifest) /\ Len(log'[b]) \in Nat
                            /\ Len(log'[b]) > 0 /\ Len(log'[b]) >= Len(log[b])
  BY <1>1, <1>5
<1>7. \A s \in Runs : done[s] \in Nat /\ done'[s] \in Nat /\ done'[s] >= done[s]
  <2> SUFFICES ASSUME NEW s \in Runs
               PROVE  done[s] \in Nat /\ done'[s] \in Nat /\ done'[s] >= done[s]
    OBVIOUS
  <2>1. done[s] \in 0..2
    BY DEF Inv, TypeOK
  <2>2. done'[s] = IF s = r THEN done[s] + 1 ELSE done[s]
    BY <1>1
  <2>3. QED
    BY <2>1, <2>2
<1>8. \A s \in Runs : done[s] \in 0..Len(Plan[s]) /\ Len(Plan[s]) \in Nat
  BY Plans DEF Inv, Progress
<1>9. \A b \in Branches : \A i \in 1..Len(log[b]) :
        i \in 1..Len(log'[b]) /\ log'[b][i] = log[b][i]
  <2> SUFFICES ASSUME NEW b \in Branches, NEW i \in 1..Len(log[b])
               PROVE  i \in 1..Len(log'[b]) /\ log'[b][i] = log[b][i]
    OBVIOUS
  <2>1. Len(log[b]) \in Nat /\ Len(log'[b]) \in Nat /\ Len(log'[b]) >= Len(log[b])
    BY <1>5, <1>6
  <2>2. log'[b][i] = log[b][i]
    BY <1>1
  <2>3. i \in 1..Len(log'[b])
    BY <2>1
  <2>4. QED
    BY <2>2, <2>3
<1>10. Tip(Branch(r)) \in Manifest /\ tree[r][App[r]] = Tag[r]
       /\ \A a \in Apps : a # App[r] => tree[r][a] = Tip(Branch(r))[a]
  <2>1. Tip(Branch(r)) \in Manifest
    BY <1>2, <1>5 DEF Tip
  <2>2. App[r] \in Apps
    BY GitOpsAssumption
  <2>3. QED
    BY <1>1, <2>1, <2>2 DEF Manifest
<1>11. LET n == Len(log[Branch(r)]) + 1
       IN  n \in 1..Len(log'[Branch(r)]) /\ log'[Branch(r)][n] = tree[r]
  <2>1. log[Branch(r)] \in Seq(Manifest) /\ tree[r] \in Manifest
    BY <1>2, <1>5 DEF Inv, TypeOK
  <2>2. QED
    BY <1>1, <2>1, Appended
<1>12. TypeOK'
  <2>1. \A b \in Branches : Len(log'[b]) > 0
    BY <1>6
  <2>2. pc' \in [Runs -> {"idle", "checkout", "yaml", "push",
                          "succeeded", "rejected", "failed"}]
    BY DEF Inv, TypeOK
  <2>3. QED
    BY <1>1, <2>1, <2>2 DEF Inv, TypeOK
<1>13. Progress'
  <2> SUFFICES ASSUME NEW s \in Runs
               PROVE  /\ done'[s] \in 0..Len(Plan[s])
                      /\ pc'[s] \notin {"succeeded", "failed"} => done'[s] < Len(Plan[s])
                      /\ pc'[s] = "succeeded" => done'[s] = Len(Plan[s])
    BY DEF Progress
  <2>1. CASE s = r
    <3>1. done'[r] = done[r] + 1 /\ pc'[r] = x
      BY <1>1, <1>3
    <3>2. done[r] \in 0..Len(Plan[r]) /\ Len(Plan[r]) \in Nat /\ done[r] < Len(Plan[r])
      BY <1>8 DEF Inv, Progress
    <3>3. QED
      BY <2>1, <3>1, <3>2
  <2>2. CASE s # r
    <3>1. pc'[s] = pc[s] /\ done'[s] = done[s]
      BY <1>1, <1>3, <2>2
    <3>2. QED
      BY <3>1 DEF Inv, Progress
  <2>3. QED
    BY <2>1, <2>2
<1>14. Clones'
  <2> SUFFICES ASSUME NEW s \in Runs, pc'[s] \in {"yaml", "push"}
               PROVE  /\ base'[s] \in 1..Len(log'[Branch(s)'])
                      /\ pc'[s] = "yaml" => tree'[s] = log'[Branch(s)'][base'[s]]
                      /\ pc'[s] = "push" =>
                           tree'[s] = [log'[Branch(s)'][base'[s]] EXCEPT ![App[s]] = Tag[s]]
    BY DEF Clones
  <2>1. s # r /\ pc'[s] = pc[s]
    BY <1>3
  <2>2. Branch(s)' = Branch(s) /\ Branch(s) \in Branches
    BY <1>4, <2>1, BranchOf DEF Inv
  <2>3. base'[s] = base[s] /\ tree'[s] = tree[s]
    OBVIOUS
  <2>4. base[s] \in 1..Len(log[Branch(s)])
    BY <2>1 DEF Inv, Clones
  <2>5. base[s] \in 1..Len(log'[Branch(s)]) /\ log'[Branch(s)][base[s]] = log[Branch(s)][base[s]]
    BY <1>1, <1>5, <1>6, <2>2, <2>4
  <2>6. /\ pc[s] = "yaml" => tree[s] = log[Branch(s)][base[s]]
        /\ pc[s] = "push" => tree[s] = [log[Branch(s)][base[s]] EXCEPT ![App[s]] = Tag[s]]
    BY DEF Inv, Clones
  <2>7. QED
    BY <2>1, <2>2, <2>3, <2>5, <2>6
<1>15. Written'
  <2> SUFFICES ASSUME NEW s \in Runs, NEW k \in 1..done'[s]
               PROVE  \E i \in 1..Len(log'[Plan[s][k]]) :
                        log'[Plan[s][k]][i][App[s]] = Tag[s]
    BY DEF Written
  <2>1. CASE k \in 1..done[s]
    <3>1. PICK i \in 1..Len(log[Plan[s][k]]) : log[Plan[s][k]][i][App[s]] = Tag[s]
      BY <2>1 DEF Inv, Written
    <3>2. k \in 1..Len(Plan[s])
      BY <1>7, <1>8, <2>1
    <3>3. Plan[s][k] \in Branches
      <4>1. \A m \in 1..Len(Plan[s]) : Plan[s][m] \in Branches
        BY Plans
      <4>2. QED
        BY <3>2, <4>1
    <3>4. i \in 1..Len(log'[Plan[s][k]]) /\ log'[Plan[s][k]][i] = log[Plan[s][k]][i]
      BY <1>9, <3>3
    <3>5. QED
      BY <3>1, <3>4
  <2>2. CASE k \notin 1..done[s]
    <3>1. s = r /\ k = done[r] + 1
      BY <1>1, <1>7, <2>2
    <3>2. Plan[s][k] = Branch(r) /\ App[s] = App[r] /\ Tag[s] = Tag[r]
      BY <1>2, <3>1
    <3>3. \E i \in 1..Len(log'[Branch(r)]) : log'[Branch(r)][i][App[r]] = Tag[r]
      BY <1>10, <1>11
    <3>4. QED
      BY <3>2, <3>3
  <2>3. QED
    BY <2>1, <2>2
<1>16. Authors'
  <2> SUFFICES ASSUME NEW b \in Branches, Len(log'[b]) > 1
               PROVE  \E s \in Runs : \E k \in 1..done'[s] : Plan[s][k] = b
    BY DEF Authors
  <2>1. CASE b = Branch(r)
    <3>1. done[r] + 1 \in 1..done'[r]
      BY <1>1, <1>7
    <3>2. QED
      BY <1>2, <2>1, <3>1
  <2>2. CASE b # Branch(r)
    <3>1. PICK s \in Runs : \E k \in 1..done[s] : Plan[s][k] = b
      BY <1>1, <2>2 DEF Inv, Authors
    <3>2. \A k \in 1..done[s] : k \in 1..done'[s]
      BY <1>7
    <3>3. QED
      BY <3>1, <3>2
  <2>3. QED
    BY <2>1, <2>2
<1>17. DrFollowsMain'
  <2>1. "dr" \in Branches /\ "main" \in Branches
    BY DEF Branches
  <2>2. \A b \in {"dr", "main"} : DOMAIN log[b] = 1..Len(log[b])
                                    /\ DOMAIN log'[b] = 1..Len(log'[b])
    BY <1>5, <1>6, <2>1
  <2>3. \A j \in 1..Len(log["main"]) : j \in 1..Len(log'["main"])
                                         /\ log'["main"][j] = log["main"][j]
    BY <1>1, <1>5, <1>6, <2>1
  <2>4. \A i \in 1..Len(log["dr"]), a \in Apps :
          \E j \in 1..Len(log'["main"]) : log'["main"][j][a] = log["dr"][i][a]
    <3> SUFFICES ASSUME NEW i \in 1..Len(log["dr"]), NEW a \in Apps
                 PROVE  \E j \in 1..Len(log'["main"]) : log'["main"][j][a] = log["dr"][i][a]
      OBVIOUS
    <3>1. PICK j \in 1..Len(log["main"]) : log["main"][j][a] = log["dr"][i][a]
      BY <2>2 DEF Inv, DrFollowsMain
    <3>2. QED
      BY <2>3, <3>1
  <2> SUFFICES ASSUME NEW i \in 1..Len(log'["dr"]), NEW a \in Apps
               PROVE  \E j \in 1..Len(log'["main"]) : log'["main"][j][a] = log'["dr"][i][a]
    BY <2>2 DEF DrFollowsMain
  <2>5. CASE i \in 1..Len(log["dr"])
    <3>1. log'["dr"][i] = log["dr"][i]
      BY <1>1, <2>1, <2>5
    <3>2. QED
      BY <2>4, <2>5, <3>1
  <2>6. CASE i \notin 1..Len(log["dr"])
    <3>1. Branch(r) = "dr"
      BY <1>1, <2>1, <2>6
    <3>2. i = Len(log["dr"]) + 1
      <4>1. Len(log'["dr"]) = Len(log["dr"]) + 1
        <5>1. log["dr"] \in Seq(Manifest) /\ tree[r] \in Manifest
          BY <1>5, <2>1 DEF Inv, TypeOK
        <5>2. QED
          BY <1>1, <3>1, <5>1, Appended
      <4>2. QED
        BY <1>5, <2>1, <2>6, <4>1
    <3>3. log'["dr"][i] = tree[r]
      BY <1>11, <3>1, <3>2
    <3>4. CASE a = App[r]
      <4>1. done[r] = 1 /\ Plan[r][1] = "main"
        <5>1. done[r] + 1 = 2 /\ Plan[r][1] = "main"
          BY <1>2, <3>1, Plans
        <5>2. done[r] \in 0..2
          BY DEF Inv, TypeOK
        <5>3. QED
          BY <5>1, <5>2
      <4>2. PICK j \in 1..Len(log["main"]) : log["main"][j][App[r]] = Tag[r]
        <5>1. 1 \in 1..done[r] /\ Written
          BY <4>1 DEF Inv
        <5>2. \E m \in 1..Len(log[Plan[r][1]]) : log[Plan[r][1]][m][App[r]] = Tag[r]
          BY <5>1 DEF Written
        <5>3. QED
          BY <4>1, <5>2
      <4>3. QED
        BY <1>10, <2>3, <3>3, <3>4, <4>2
    <3>5. CASE a # App[r]
      <4>1. log'["dr"][i][a] = log["dr"][Len(log["dr"])][a]
        BY <1>10, <3>1, <3>3, <3>5 DEF Tip
      <4>2. Len(log["dr"]) \in 1..Len(log["dr"])
        BY <1>5, <2>1
      <4>3. QED
        BY <2>4, <4>1, <4>2
    <3>6. QED
      BY <3>4, <3>5
  <2>7. QED
    BY <2>5, <2>6
<1>18. RejectedByAnother'
  <2> SUFFICES ASSUME NEW s \in Runs, pc'[s] = "rejected"
               PROVE  \E t \in Runs \ {s} : \E k \in 1..done'[t] : Plan[t][k] = Branch(s)'
    BY DEF RejectedByAnother
  <2>1. s # r /\ pc[s] = "rejected"
    BY <1>3
  <2>2. PICK t \in Runs \ {s} : \E k \in 1..done[t] : Plan[t][k] = Branch(s)
    BY <2>1 DEF Inv, RejectedByAnother
  <2>3. \A k \in 1..done[t] : k \in 1..done'[t]
    BY <1>7
  <2>4. Branch(s)' = Branch(s)
    BY <1>4, <2>1
  <2>5. QED
    BY <2>2, <2>3, <2>4
<1>19. QED
  BY <1>12, <1>13, <1>14, <1>15, <1>16, <1>17, <1>18 DEF Inv


(* Every step keeps the invariant: one step of the proof per action.       *)
LEMMA InvNext == Inv /\ [Next]_vars => Inv'
<1> SUFFICES ASSUME Inv, [Next]_vars PROVE Inv'
  OBVIOUS
<1>0. TypeOK /\ Progress /\ Clones
  BY DEF Inv
<1>1. CASE UNCHANGED vars
  <2>1. UNCHANGED <<log, pc, done, base, tree, live>>
    BY <1>1 DEF vars
  <2>2. live' \in [Branches -> Manifest]
    BY <1>0, <2>1 DEF TypeOK
  <2>3. QED
    BY <2>1, <2>2, SyncStep
<1>2. ASSUME NEW r \in Runs, Trigger(r) PROVE Inv'
  <2>1. pc[r] = "idle" /\ pc' = [pc EXCEPT ![r] = "checkout"]
        /\ UNCHANGED <<log, done, base, tree, live>>
    BY <1>2 DEF Trigger
  <2>2. base' \in [Runs -> Nat] /\ tree' \in [Runs -> Manifest]
        /\ live' \in [Branches -> Manifest]
    BY <1>0, <2>1 DEF TypeOK
  <2>3. QED
    BY <2>1, <2>2, QuietStep
<1>3. ASSUME NEW r \in Runs, GitCheckout(r) PROVE Inv'
  <2>1. pc[r] = "checkout" /\ pc' = [pc EXCEPT ![r] = "yaml"]
        /\ base' = [base EXCEPT ![r] = Len(log[Branch(r)])]
        /\ tree' = [tree EXCEPT ![r] = Tip(Branch(r))]
        /\ UNCHANGED <<log, done, live>>
    BY <1>3 DEF GitCheckout
  <2>2. Branch(r) \in Branches
    BY <1>0, <2>1, BranchOf
  <2>3. log[Branch(r)] \in Seq(Manifest) /\ Len(log[Branch(r)]) > 0
    BY <1>0, <2>2 DEF TypeOK
  <2>4. Tip(Branch(r)) \in Manifest /\ Len(log[Branch(r)]) \in 1..Len(log[Branch(r)])
    BY <2>3 DEF Tip
  <2>5. base' \in [Runs -> Nat] /\ tree' \in [Runs -> Manifest]
        /\ live' \in [Branches -> Manifest]
    BY <1>0, <2>1, <2>4 DEF TypeOK
  <2>6. base'[r] = Len(log[Branch(r)]) /\ tree'[r] = log[Branch(r)][Len(log[Branch(r)])]
    BY <1>0, <2>1 DEF TypeOK, Tip
  <2>7. \A s \in Runs \ {r} : base'[s] = base[s] /\ tree'[s] = tree[s]
    BY <1>0, <2>1 DEF TypeOK
  <2>8. QED
    BY <2>1, <2>4, <2>5, <2>6, <2>7, QuietStep
<1>4. ASSUME NEW r \in Runs, UpdateYaml(r) PROVE Inv'
  <2>1. pc[r] = "yaml" /\ pc' = [pc EXCEPT ![r] = "push"]
        /\ tree' = [tree EXCEPT ![r][App[r]] = Tag[r]]
        /\ UNCHANGED <<log, done, base, live>>
    BY <1>4 DEF UpdateYaml
  <2>2. base[r] \in 1..Len(log[Branch(r)]) /\ tree[r] = log[Branch(r)][base[r]]
    BY <1>0, <2>1 DEF Clones
  <2>3. tree' = [tree EXCEPT ![r] = [tree[r] EXCEPT ![App[r]] = Tag[r]]]
    BY <2>1
  <2>4. [tree[r] EXCEPT ![App[r]] = Tag[r]] \in Manifest
    <3>1. tree[r] \in [Apps -> Tags] /\ Tag[r] \in Tags
      BY <1>0, GitOpsAssumption DEF TypeOK, Manifest
    <3>2. QED
      BY <3>1 DEF Manifest
  <2>5. base' \in [Runs -> Nat] /\ tree' \in [Runs -> Manifest]
        /\ live' \in [Branches -> Manifest]
    BY <1>0, <2>1, <2>3, <2>4 DEF TypeOK
  <2>6. base'[r] = base[r] /\ tree'[r] = [log[Branch(r)][base[r]] EXCEPT ![App[r]] = Tag[r]]
    BY <1>0, <2>1, <2>2, <2>3 DEF TypeOK
  <2>7. \A s \in Runs \ {r} : base'[s] = base[s] /\ tree'[s] = tree[s]
    BY <1>0, <2>1, <2>3 DEF TypeOK
  <2>8. QED
    BY <2>1, <2>2, <2>5, <2>6, <2>7, QuietStep
<1>5. ASSUME NEW r \in Runs, CommitPush(r) PROVE Inv'
  <2>1. CASE base[r] = Len(log[Branch(r)])
    <3>1. pc[r] = "push" /\ Publish(r) /\ UNCHANGED <<base, tree, live>>
          /\ pc' = [pc EXCEPT ![r] = AfterPush(r)]
      BY <1>5, <2>1 DEF CommitPush
    <3>2. CASE done[r] + 1 = Len(Plan[r])
      <4>1. pc' = [pc EXCEPT ![r] = "succeeded"]
        BY <3>1, <3>2 DEF AfterPush
      <4>2. QED
        BY <2>1, <3>1, <3>2, <4>1, PushStep
    <3>3. CASE done[r] + 1 # Len(Plan[r])
      <4>1. pc' = [pc EXCEPT ![r] = "checkout"]
        BY <3>1, <3>3 DEF AfterPush
      <4>2. QED
        BY <2>1, <3>1, <3>3, <4>1, PushStep
    <3>4. QED
      BY <3>2, <3>3
  <2>2. CASE base[r] # Len(log[Branch(r)])
    <3>1. pc[r] = "push" /\ UNCHANGED <<log, done, base, tree, live>>
          /\ pc' = [pc EXCEPT ![r] = "rejected"]
      BY <1>5, <2>2 DEF CommitPush
    <3>2. Branch(r) \in Branches
      BY <1>0, <3>1, BranchOf
    <3>3. base[r] \in 1..Len(log[Branch(r)])
      BY <1>0, <3>1 DEF Clones
    <3>4. Len(log[Branch(r)]) \in Nat
      BY <1>0, <3>2 DEF TypeOK
    <3>5. Len(log[Branch(r)]) > 1
      BY <2>2, <3>3, <3>4
    <3>6. base' \in [Runs -> Nat] /\ tree' \in [Runs -> Manifest]
          /\ live' \in [Branches -> Manifest]
      BY <1>0, <3>1 DEF TypeOK
    <3>7. QED
      BY <3>1, <3>5, <3>6, QuietStep
  <2>3. QED
    BY <2>1, <2>2
<1>6. ASSUME NEW r \in Runs, PushUnconfirmed(r) PROVE Inv'
  <2>1. pc[r] = "push" /\ base[r] = Len(log[Branch(r)]) /\ Publish(r)
        /\ UNCHANGED <<base, tree, live>> /\ pc' = [pc EXCEPT ![r] = "failed"]
    BY <1>6 DEF PushUnconfirmed
  <2>2. QED
    BY <2>1, PushStep
<1>7. ASSUME NEW r \in Runs, TaskFails(r) PROVE Inv'
  <2>1. pc[r] \in {"checkout", "yaml", "push"} /\ pc' = [pc EXCEPT ![r] = "failed"]
        /\ UNCHANGED <<log, done, base, tree, live>>
    BY <1>7 DEF TaskFails
  <2>2. base' \in [Runs -> Nat] /\ tree' \in [Runs -> Manifest]
        /\ live' \in [Branches -> Manifest]
    BY <1>0, <2>1 DEF TypeOK
  <2>3. QED
    BY <2>1, <2>2, QuietStep
<1>8. ASSUME NEW b \in Branches, NEW a \in Apps, Sync(b, a) PROVE Inv'
  <2>1. live' = [live EXCEPT ![b] = [live[b] EXCEPT ![a] = Tip(b)[a]]]
        /\ UNCHANGED <<log, pc, done, base, tree>>
    BY <1>8 DEF Sync
  <2>2. live' \in [Branches -> Manifest]
    <3>1. log[b] \in Seq(Manifest) /\ Len(log[b]) > 0 /\ live[b] \in Manifest
      BY <1>0 DEF TypeOK
    <3>2. Tip(b) \in [Apps -> Tags] /\ live[b] \in [Apps -> Tags]
      BY <3>1 DEF Tip, Manifest
    <3>3. [live[b] EXCEPT ![a] = Tip(b)[a]] \in Manifest
      BY <3>2 DEF Manifest
    <3>4. QED
      BY <1>0, <2>1, <3>3 DEF TypeOK
  <2>3. QED
    BY <2>1, <2>2, SyncStep
<1>9. QED
  BY <1>1, <1>2, <1>3, <1>4, <1>5, <1>6, <1>7, <1>8 DEF Next, Step

(* Every behaviour satisfies the inductive invariant.                      *)
THEOREM GitOpsInvariant == Spec => []Inv
<1>1. QED
  BY InvInit, InvNext, PTL DEF Spec

(* The types of the variables.                                             *)
THEOREM GitOpsTypes == Spec => []TypeOK
<1>1. Inv => TypeOK
  BY DEF Inv
<1>2. QED
  BY <1>1, GitOpsInvariant, PTL

(* What the dr branch says of an app, main has said before: update-gitops- *)
(* dr runs after update-gitops, and no push carries old files along.       *)
THEOREM DrBehindMain == Spec => []DrFollowsMain
<1>1. Inv => DrFollowsMain
  BY DEF Inv
<1>2. QED
  BY <1>1, GitOpsInvariant, PTL

(* A run whose tasks all succeeded has left its tag on all its branches.   *)
THEOREM SuccessPublished == Spec => []SuccessIsPublished
<1>1. Inv => SuccessIsPublished
  <2> SUFFICES ASSUME Inv, NEW r \in Runs, pc[r] = "succeeded", NEW k \in DOMAIN Plan[r]
               PROVE  \E i \in DOMAIN log[Plan[r][k]] : log[Plan[r][k]][i][App[r]] = Tag[r]
    BY DEF SuccessIsPublished
  <2>1. DOMAIN Plan[r] = 1..Len(Plan[r])
    <3>1. CASE Stage[r] = "prd"
      <4>1. Plan[r] = <<"main", "dr">>
        BY <3>1 DEF Plan
      <4>2. QED
        BY <4>1
    <3>2. CASE Stage[r] # "prd"
      <4>1. Plan[r] = <<Stage[r]>>
        BY <3>2 DEF Plan
      <4>2. QED
        BY <4>1
    <3>3. QED
      BY <3>1, <3>2
  <2>2. k \in 1..done[r] /\ k \in 1..Len(Plan[r])
    <3>1. done[r] = Len(Plan[r])
      BY DEF Inv, Progress
    <3>2. QED
      BY <2>1, <3>1
  <2>3. PICK i \in 1..Len(log[Plan[r][k]]) : log[Plan[r][k]][i][App[r]] = Tag[r]
    BY <2>2 DEF Inv, Written
  <2>4. Plan[r][k] \in Branches
    <3>1. \A m \in 1..Len(Plan[r]) : Plan[r][m] \in Branches
      BY Plans
    <3>2. QED
      BY <2>2, <3>1
  <2>5. DOMAIN log[Plan[r][k]] = 1..Len(log[Plan[r][k]])
    BY <2>4 DEF Inv, TypeOK
  <2>6. QED
    BY <2>3, <2>5
<1>2. QED
  BY <1>1, GitOpsInvariant, PTL

(* A push is refused only when another run has pushed to the branch.       *)
THEOREM RefusedByAnother == Spec => []RejectedByAnother
<1>1. Inv => RejectedByAnother
  BY DEF Inv
<1>2. QED
  BY <1>1, GitOpsInvariant, PTL

-----------------------------------------------------------------------------
(* Refinement: a push that goes through is one write on the board.         *)
LEMMA PublishIsWrite ==
  ASSUME Inv, NEW r \in Runs, pc[r] = "push", base[r] = Len(log[Branch(r)]), Publish(r)
  PROVE  Board!Publish(r)
<1>1. /\ tree[r] = [Tip(Branch(r)) EXCEPT ![App[r]] = Tag[r]]
      /\ log'[Branch(r)] = Append(log[Branch(r)], tree[r])
      /\ \A b \in Branches : b # Branch(r) => log'[b] = log[b]
  BY Pushed DEF Inv
<1>2. /\ Branch(r) \in Branches
      /\ done[r] + 1 \in 1..Len(Plan[r])
      /\ Branch(r) = Plan[r][done[r] + 1]
  BY BranchOf DEF Inv
<1>3. done[r] < Len(Plan[r])
  BY DEF Inv, Progress
<1>4. \A b \in Branches : Tip(b)' = IF b = Branch(r) THEN tree[r] ELSE Tip(b)
  <2> SUFFICES ASSUME NEW b \in Branches
               PROVE  log'[b][Len(log'[b])] = IF b = Branch(r) THEN tree[r] ELSE Tip(b)
    BY DEF Tip
  <2>1. log[Branch(r)] \in Seq(Manifest) /\ tree[r] \in Manifest
    BY <1>2 DEF Inv, TypeOK
  <2>2. log'[Branch(r)][Len(log'[Branch(r)])] = tree[r]
    BY <1>1, <2>1, Appended
  <2>3. QED
    BY <1>1, <2>2 DEF Tip
<1>5. [b \in Branches |-> Tip(b)]' =
        [[b \in Branches |-> Tip(b)]
           EXCEPT ![Branch(r)] = [Tip(Branch(r)) EXCEPT ![App[r]] = Tag[r]]]
  <2>1. [b \in Branches |-> Tip(b)]' = [b \in Branches |-> Tip(b)']
    OBVIOUS
  <2>2. [b \in Branches |-> Tip(b)'] =
          [b \in Branches |-> IF b = Branch(r) THEN tree[r] ELSE Tip(b)]
    BY <1>4
  <2>3. QED
    BY <1>1, <1>2, <2>1, <2>2
<1>6. done' = [done EXCEPT ![r] = done[r] + 1]
  BY DEF Publish
<1>7. QED
  BY <1>2, <1>3, <1>5, <1>6 DEF Board!Publish

(* Clone, edit and push make one atomic write of one app's tag, whatever   *)
(* other runs do meanwhile: GitOps implements Deployments.                 *)
THEOREM BoardRefinement == Spec => BoardSpec
<1>1. Init => Board!Init
  BY DEF Init, Board!Init
<1>2. Inv /\ [Next]_vars => [Board!Next]_Board!vars
  <2> SUFFICES ASSUME Inv, [Next]_vars PROVE [Board!Next]_Board!vars
    OBVIOUS
  <2>1. ASSUME NEW r \in Runs, pc[r] = "push", base[r] = Len(log[Branch(r)]), Publish(r)
        PROVE  [Board!Next]_Board!vars
    BY <2>1, PublishIsWrite DEF Board!Next
  <2>2. ASSUME UNCHANGED <<log, done>>
        PROVE  [Board!Next]_Board!vars
    BY <2>2 DEF Board!vars, Tip
  <2>3. ASSUME NEW r \in Runs, CommitPush(r)
        PROVE  [Board!Next]_Board!vars
    <3>1. CASE base[r] = Len(log[Branch(r)])
      BY <2>1, <2>3, <3>1 DEF CommitPush
    <3>2. CASE base[r] # Len(log[Branch(r)])
      BY <2>2, <2>3, <3>2 DEF CommitPush
    <3>3. QED
      BY <3>1, <3>2
  <2>4. ASSUME NEW r \in Runs, PushUnconfirmed(r)
        PROVE  [Board!Next]_Board!vars
    BY <2>1, <2>4 DEF PushUnconfirmed
  <2>5. ASSUME NEW r \in Runs,
               Trigger(r) \/ GitCheckout(r) \/ UpdateYaml(r) \/ TaskFails(r)
        PROVE  [Board!Next]_Board!vars
    BY <2>2, <2>5 DEF Trigger, GitCheckout, UpdateYaml, TaskFails
  <2>6. ASSUME NEW b \in Branches, NEW a \in Apps, Sync(b, a)
        PROVE  [Board!Next]_Board!vars
    BY <2>2, <2>6 DEF Sync
  <2>7. CASE UNCHANGED vars
    BY <2>2, <2>7 DEF vars
  <2>8. QED
    BY <2>3, <2>4, <2>5, <2>6, <2>7 DEF Next, Step
<1>3. QED
  BY <1>1, <1>2, GitOpsInvariant, PTL DEF Spec, BoardSpec, Board!Spec

-----------------------------------------------------------------------------
(* Where what the clusters run comes from.                                 *)

(* The three kinds of steps: a push, what neither the server's branches    *)
(* nor the clusters see, and a synchronisation.                            *)
LEMMA Kinds ==
  ASSUME Inv, [Next]_vars
  PROVE  \/ \E r \in Runs : /\ pc[r] = "push" /\ base[r] = Len(log[Branch(r)])
                            /\ Publish(r) /\ live' = live
         \/ UNCHANGED <<log, done, live>>
         \/ \E b \in Branches : \E a \in Apps : Sync(b, a)
<1>1. ASSUME NEW r \in Runs, CommitPush(r)
      PROVE  \/ /\ pc[r] = "push" /\ base[r] = Len(log[Branch(r)])
                /\ Publish(r) /\ live' = live
             \/ UNCHANGED <<log, done, live>>
  BY <1>1 DEF CommitPush
<1>2. ASSUME NEW r \in Runs, PushUnconfirmed(r)
      PROVE  /\ pc[r] = "push" /\ base[r] = Len(log[Branch(r)])
             /\ Publish(r) /\ live' = live
  BY <1>2 DEF PushUnconfirmed
<1>3. ASSUME NEW r \in Runs, Trigger(r) \/ GitCheckout(r) \/ UpdateYaml(r) \/ TaskFails(r)
      PROVE  UNCHANGED <<log, done, live>>
  BY <1>3 DEF Trigger, GitCheckout, UpdateYaml, TaskFails
<1>4. CASE UNCHANGED vars
  BY <1>4 DEF vars
<1>5. QED
  BY <1>1, <1>2, <1>3, <1>4 DEF Next, Step

(* Tag t of app a on branch b is the one before all runs, or was written   *)
(* there by a run of that app, when runs have written d commits.           *)
Source(d, b, a, t) ==
  t = Tag0 \/ \E r \in Runs : /\ App[r] = a /\ Tag[r] = t
                              /\ \E k \in 1..d[r] : Plan[r][k] = b

(* Each tag in the history of a branch has its source, and a cluster runs  *)
(* what its branch has said at some time.                                  *)
Sources ==
  /\ \A b \in Branches : \A i \in 1..Len(log[b]), a \in Apps : Source(done, b, a, log[b][i][a])
  /\ \A b \in Branches, a \in Apps : \E i \in 1..Len(log[b]) : live[b][a] = log[b][i][a]

LEMMA SourcesInit == Init => Sources
<1> SUFFICES ASSUME Init PROVE Sources
  OBVIOUS
<1>1. \A b \in Branches : log[b] = <<Manifest0>> /\ live[b] = Manifest0
  BY DEF Init
<1>2. \A b \in Branches : Len(log[b]) = 1 /\ log[b][1] = Manifest0
  BY <1>1
<1>3. \A a \in Apps : Manifest0[a] = Tag0
  BY DEF Manifest0
<1>4. QED
  BY <1>1, <1>2, <1>3 DEF Sources, Source

LEMMA SourcesStep ==
  ASSUME Inv, Sources, [Next]_vars
  PROVE  Sources'
<1>0. \A b \in Branches : log[b] \in Seq(Manifest) /\ Len(log[b]) \in Nat /\ Len(log[b]) > 0
  BY DEF Inv, TypeOK
<1>1. ASSUME NEW r \in Runs, pc[r] = "push", base[r] = Len(log[Branch(r)]), Publish(r),
             live' = live
      PROVE  Sources'
  <2>1. /\ tree[r] = [Tip(Branch(r)) EXCEPT ![App[r]] = Tag[r]]
        /\ log'[Branch(r)] = Append(log[Branch(r)], tree[r])
        /\ \A b \in Branches : b # Branch(r) => log'[b] = log[b]
        /\ \A b \in Branches : /\ Len(log'[b]) >= Len(log[b])
                               /\ \A i \in 1..Len(log[b]) : log'[b][i] = log[b][i]
        /\ done'[r] = done[r] + 1
        /\ \A s \in Runs : s # r => done'[s] = done[s]
        /\ log' \in [Branches -> Seq(Manifest)]
    BY <1>1, Pushed DEF Inv
  <2>2. /\ Branch(r) \in Branches /\ done[r] + 1 \in 1..Len(Plan[r])
        /\ Branch(r) = Plan[r][done[r] + 1]
    BY <1>1, BranchOf DEF Inv
  <2>3. \A s \in Runs : done[s] \in Nat /\ (done'[s] = done[s] \/ done'[s] = done[s] + 1)
    BY <2>1 DEF Inv, TypeOK
  <2>4. \A b \in Branches, a \in Apps : \A t :
          Source(done, b, a, t) => Source(done', b, a, t)
    BY <2>3 DEF Source
  <2>5. Source(done', Branch(r), App[r], Tag[r])
    <3>1. done[r] + 1 \in 1..done'[r]
      BY <2>1, <2>3
    <3>2. QED
      BY <2>2, <3>1 DEF Source
  <2>6. \A b \in Branches : Len(log'[b]) \in Nat
    BY <2>1
  <2>7. ASSUME NEW b \in Branches, NEW i \in 1..Len(log'[b]), NEW a \in Apps
        PROVE  Source(done', b, a, log'[b][i][a])
    <3>1. CASE i \in 1..Len(log[b])
      <4>1. log'[b][i] = log[b][i] /\ Source(done, b, a, log[b][i][a])
        BY <2>1, <3>1 DEF Sources
      <4>2. QED
        BY <2>4, <4>1
    <3>2. CASE i \notin 1..Len(log[b])
      <4>1. b = Branch(r) /\ i = Len(log[b]) + 1
        <5>1. b = Branch(r)
          BY <2>1, <2>7, <3>2
        <5>2. tree[r] \in Manifest
          BY DEF Inv, TypeOK
        <5>3. Len(log'[b]) = Len(log[b]) + 1
          BY <1>0, <2>1, <5>1, <5>2, Appended
        <5>4. QED
          BY <1>0, <2>7, <3>2, <5>1, <5>3
      <4>2. log'[b][i] = tree[r]
        <5>1. tree[r] \in Manifest
          BY DEF Inv, TypeOK
        <5>2. QED
          BY <1>0, <2>1, <4>1, <5>1, Appended
      <4>3. Tip(b) \in Manifest /\ Len(log[b]) \in 1..Len(log[b])
        BY <1>0 DEF Tip
      <4>4. tree[r][a] = IF a = App[r] THEN Tag[r] ELSE Tip(b)[a]
        BY <2>1, <4>1, <4>3, GitOpsAssumption DEF Manifest
      <4>5. Source(done, b, a, Tip(b)[a])
        BY <4>3 DEF Sources, Tip
      <4>6. CASE a = App[r]
        BY <2>5, <4>1, <4>2, <4>4, <4>6
      <4>7. CASE a # App[r]
        <5>1. log'[b][i][a] = Tip(b)[a]
          BY <4>2, <4>4, <4>7
        <5>2. QED
          BY <2>4, <4>5, <5>1
      <4>8. QED
        BY <4>6, <4>7
    <3>3. QED
      BY <3>1, <3>2
  <2>8. ASSUME NEW b \in Branches, NEW a \in Apps
        PROVE  \E i \in 1..Len(log'[b]) : live'[b][a] = log'[b][i][a]
    <3>1. PICK i \in 1..Len(log[b]) : live[b][a] = log[b][i][a]
      BY DEF Sources
    <3>2. i \in 1..Len(log'[b]) /\ log'[b][i] = log[b][i]
      BY <1>0, <2>1, <2>6
    <3>3. QED
      BY <1>1, <3>1, <3>2
  <2>9. QED
    BY <2>7, <2>8 DEF Sources
<1>2. CASE UNCHANGED <<log, done, live>>
  BY <1>2 DEF Sources, Source
<1>3. ASSUME NEW b \in Branches, NEW a \in Apps, Sync(b, a) PROVE Sources'
  <2>1. log' = log /\ done' = done /\ live' = [live EXCEPT ![b][a] = Tip(b)[a]]
    BY <1>3 DEF Sync
  <2>2. live \in [Branches -> Manifest]
    BY DEF Inv, TypeOK
  <2>3. \A c \in Branches, d \in Apps :
          live'[c][d] = IF c = b /\ d = a THEN Tip(b)[a] ELSE live[c][d]
    BY <2>1, <2>2 DEF Manifest
  <2>4. Len(log[b]) \in 1..Len(log[b])
    BY <1>0
  <2>5. \A c \in Branches, d \in Apps : \E i \in 1..Len(log[c]) : live'[c][d] = log[c][i][d]
    BY <2>3, <2>4 DEF Sources, Tip
  <2>6. \A c \in Branches : \A i \in 1..Len(log'[c]), d \in Apps :
          Source(done', c, d, log'[c][i][d])
    BY <2>1 DEF Sources
  <2>7. QED
    BY <2>1, <2>5, <2>6 DEF Sources
<1>4. QED
  BY <1>1, <1>2, <1>3, Kinds

(* Whatever pushes race, are refused or go unconfirmed, and however late   *)
(* Argo CD comes: a cluster runs of each app the tag it had before all     *)
(* runs, or the tag of a run of that app and of that cluster's stage.      *)
OwnTagsOnly ==
  \A b \in Branches, a \in Apps :
    \/ live[b][a] = Tag0
    \/ \E r \in Runs : /\ App[r] = a /\ Tag[r] = live[b][a]
                       /\ Stage[r] = (IF b \in {"main", "dr"} THEN "prd" ELSE b)

THEOREM ClustersRunOwnTags == Spec => []OwnTagsOnly
<1>1. ASSUME NEW r \in Runs, NEW k \in 1..Len(Plan[r])
      PROVE  Stage[r] = IF Plan[r][k] \in {"main", "dr"} THEN "prd" ELSE Plan[r][k]
  <2>1. CASE Stage[r] = "prd"
    <3>1. Plan[r] = <<"main", "dr">> /\ k \in {1, 2}
      BY <2>1 DEF Plan
    <3>2. QED
      BY <2>1, <3>1
  <2>2. CASE Stage[r] # "prd"
    <3>1. Plan[r] = <<Stage[r]>> /\ k = 1 /\ Stage[r] \in {"dev", "test"}
      BY <2>2, GitOpsAssumption DEF Plan
    <3>2. QED
      BY <3>1
  <2>3. QED
    BY <2>1, <2>2
<1>2. ASSUME Inv, Sources PROVE OwnTagsOnly
  <2> SUFFICES ASSUME NEW b \in Branches, NEW a \in Apps, live[b][a] # Tag0
               PROVE  \E r \in Runs : /\ App[r] = a /\ Tag[r] = live[b][a]
                                      /\ Stage[r] = (IF b \in {"main", "dr"} THEN "prd" ELSE b)
    BY DEF OwnTagsOnly
  <2>1. Source(done, b, a, live[b][a])
    BY <1>2 DEF Sources
  <2>2. PICK r \in Runs : /\ App[r] = a /\ Tag[r] = live[b][a]
                          /\ \E k \in 1..done[r] : Plan[r][k] = b
    BY <2>1 DEF Source
  <2>3. PICK k \in 1..done[r] : Plan[r][k] = b
    BY <2>2
  <2>4. k \in 1..Len(Plan[r])
    <3>1. done[r] \in 0..Len(Plan[r]) /\ Len(Plan[r]) \in {1, 2}
      BY <1>2, Plans DEF Inv, Progress
    <3>2. QED
      BY <2>3, <3>1
  <2>5. QED
    BY <1>1, <2>2, <2>3, <2>4
<1>3. Inv /\ Sources /\ [Next]_vars => Sources'
  BY SourcesStep
<1>4. QED
  BY <1>2, <1>3, SourcesInit, GitOpsInvariant, PTL DEF Spec

(* What the disaster recovery cluster runs of an app, main has said at     *)
(* some time, also between a push and Argo CD's next look at it.           *)
DrRunsWhatMainHad ==
  \A a \in Apps : \E j \in DOMAIN log["main"] : log["main"][j][a] = live["dr"][a]

THEOREM DrRunsMain == Spec => []DrRunsWhatMainHad
<1>1. ASSUME Inv, Sources PROVE DrRunsWhatMainHad
  <2> SUFFICES ASSUME NEW a \in Apps
               PROVE  \E j \in DOMAIN log["main"] : log["main"][j][a] = live["dr"][a]
    BY DEF DrRunsWhatMainHad
  <2>1. PICK i \in 1..Len(log["dr"]) : live["dr"][a] = log["dr"][i][a]
    BY <1>1 DEF Sources, Branches
  <2>2. i \in DOMAIN log["dr"]
    BY <1>1, <2>1 DEF Inv, TypeOK, Branches
  <2>3. QED
    BY <1>1, <2>1, <2>2 DEF Inv, DrFollowsMain
<1>2. Inv /\ Sources /\ [Next]_vars => Sources'
  BY SourcesStep
<1>3. QED
  BY <1>1, <1>2, SourcesInit, GitOpsInvariant, PTL DEF Spec

=============================================================================
