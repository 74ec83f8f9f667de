------------------------------ MODULE MCBackup ------------------------------
(* An instance of BackupRotation for TLC.                                  *)
EXTENDS BackupRotation, TLC

CONSTANTS j1, j2, j3

MCJobs == {j1, j2, j3}

(* No definition tells the jobs apart.                                     *)
MCSymmetry == Permutations(MCJobs)
=============================================================================
