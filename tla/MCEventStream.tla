---------------------------- MODULE MCEventStream ----------------------------
(* Model values for the model-checking runs of EventStream. *)
EXTENDS EventStream

CONSTANTS c1, c2

OneClient == {c1}
TwoClients == {c1, c2}
==============================================================================
