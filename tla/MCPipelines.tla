----------------------------- MODULE MCPipelines -----------------------------
EXTENDS PipelineRuns, TLC

CONSTANTS r1, r2, v1, v2

MCRuns == {r1, r2}
MCRevisions == {v1, v2}

(* Two runs of one revision: a push to dev and a fast-forward merge to     *)
(* test, or a webhook that comes twice; or a merge to main of another      *)
(* revision beside the test run.                                           *)
MCEvents ==
  (r1 :> {[stage |-> "dev", rev |-> v1], [stage |-> "test", rev |-> v1],
          [stage |-> "prd", rev |-> v2]}) @@
  (r2 :> {[stage |-> "test", rev |-> v1]})
=============================================================================
