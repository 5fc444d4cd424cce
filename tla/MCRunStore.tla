------------------------------ MODULE MCRunStore ------------------------------
(* The script of the model-checking runs. *)
EXTENDS RunStore

ThreeEvents == <<"run.started", "message.delta", "run.completed">>
===============================================================================
