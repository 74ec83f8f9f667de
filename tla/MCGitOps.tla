------------------------------ MODULE MCGitOps ------------------------------
(* The gitops repository, for TLC: three deliveries to production, two of  *)
(* the same app (one of them puts back the tag that is already there) and  *)
(* one of another app.                                                     *)
EXTENDS GitOps

CONSTANTS r1, r2, r3, com, ccm, t0, t1, t2

MCRuns  == {r1, r2, r3}
MCApps  == {com, ccm}
MCTags  == {t0, t1, t2}
MCStage == [r \in MCRuns |-> "prd"]
MCApp   == [r \in MCRuns |-> IF r = r3 THEN ccm ELSE com]
MCTag   == [r \in MCRuns |-> IF r = r2 THEN t0 ELSE IF r = r1 THEN t1 ELSE t2]
=============================================================================
