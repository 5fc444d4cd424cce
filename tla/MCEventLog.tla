------------------------------ MODULE MCEventLog ------------------------------
(* Model values and symmetry for the model-checking runs of EventLog. *)
EXTENDS EventLog, TLC

CONSTANTS r1, r2, w1, w2, w3

TwoRuns == {r1, r2}
OneRun == {r1}
TwoWriters == {w1, w2}
ThreeWriters == {w1, w2, w3}
==============================================================================
