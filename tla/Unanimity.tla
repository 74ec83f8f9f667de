----------------------------- MODULE Unanimity -----------------------------
(***************************************************************************)
(* What every approval strategy promises, whichever way it asks: there is  *)
(* a set of seats; each is answered at most once; the first "false"        *)
(* rejects, at once; and the approval is given when, and only when, every  *)
(* seat has said "true".  A vote that has not ended may be interrupted, or *)
(* be forgotten and start again.                                           *)
(***************************************************************************)

CONSTANT Seats       \* the answers that an approval needs

VARIABLES
  yes, no,           \* the seats that have answered
  outcome            \* "none", "true", "false" or "interrupted"

vars == <<yes, no, outcome>>

Init ==
  /\ yes = {}
  /\ no = {}
  /\ outcome = "none"

Approve(s) ==
  /\ outcome = "none" /\ s \notin yes \cup no
  /\ yes' = yes \cup {s}
  /\ outcome' = IF yes' = Seats THEN "true" ELSE "none"
  /\ UNCHANGED no

Reject(s) ==
  /\ outcome = "none" /\ s \notin yes \cup no
  /\ no' = no \cup {s}
  /\ outcome' = "false"
  /\ UNCHANGED yes

Interrupt ==
  /\ outcome = "none"
  /\ outcome' = "interrupted"
  /\ UNCHANGED <<yes, no>>

Forget ==
  /\ outcome = "none"
  /\ yes' = {}
  /\ no' = {}
  /\ UNCHANGED outcome

Next ==
  \/ \E s \in Seats : Approve(s) \/ Reject(s)
  \/ Interrupt
  \/ Forget

Spec == Init /\ [][Next]_vars

=============================================================================
