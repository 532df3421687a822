-------------------------- MODULE MCTwoPhaseCommit --------------------------
(* Three slaves, of which one may answer too late; two die at most. *)
EXTENDS TwoPhaseCommit, TLC

CONSTANTS s1, s2, s3

MCSlaves == {s1, s2, s3}
MCSlow == {s3}
=============================================================================
