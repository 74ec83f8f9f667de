---------------------------- MODULE Deployments ----------------------------
(***************************************************************************)
(* What deliveries promise about the gitops repository.  Each branch says, *)
(* for every app, which image tag its cluster runs.  A delivery writes the *)
(* tag of its own app on the branches of its plan, one after the other,    *)
(* each in one step; it touches nothing else, and may stop anywhere.       *)
(***************************************************************************)
EXTENDS Naturals, Sequences

CONSTANTS
  Runs,       \* deliveries
  App, Tag,   \* functions of a run: its app and the tag that it deploys
  Plan        \* a function of a run: the branches it writes, in order

VARIABLES
  board,      \* for each branch the tag of each app
  done        \* for each delivery how many branches it has written

vars == <<board, done>>

Publish(r) ==
  /\ done[r] < Len(Plan[r])
  /\ board' = [board EXCEPT ![Plan[r][done[r] + 1]][App[r]] = Tag[r]]
  /\ done' = [done EXCEPT ![r] = @ + 1]

Init == done = [r \in Runs |-> 0]

Next == \E r \in Runs : Publish(r)

Spec == Init /\ [][Next]_vars

=============================================================================
