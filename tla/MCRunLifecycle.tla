---------------------------- MODULE MCRunLifecycle ----------------------------
(* Model values for the model-checking runs of RunLifecycle. *)
EXTENDS RunLifecycle

CONSTANTS r1, r2, c1

OneRun == {r1}
TwoRuns == {r1, r2}
OneContent == {c1}
==============================================================================
