---------------------------- MODULE MCMemoryStore ----------------------------
(* Model values for the model-checking run of MemoryStore. *)
EXTENDS MemoryStore

CONSTANTS q1, q2, i1, i2, p1, c1

TwoRequests == {q1, q2}
TwoIds == {i1, i2}
TypesInUse == {"semantic", "project"}
OneProject == {p1}
OneContent == {c1}
==============================================================================
