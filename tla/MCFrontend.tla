----------------------------- MODULE MCFrontend -----------------------------
(* Instances of FrontendDelivery for TLC.                                  *)
EXTENDS FrontendDelivery, TLC

CONSTANTS r1, r2, b1, b2, i1, i2, old

MCRuns   == {r1, r2}
MCBuilds == {b1, b2}
MCImages == {i1, i2}

(* Two images: the right one and a wrong one.  No definition tells the     *)
(* images, the builds or the runs apart.                                   *)
MCSymmetry ==
  Permutations(MCImages) \cup Permutations(MCBuilds) \cup Permutations(MCRuns)
=============================================================================
