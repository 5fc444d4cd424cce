--------------------------- MODULE MCSkillRegistry ---------------------------
(* Model values and the definition sets of the model-checking run. *)
EXTENDS SkillRegistry, TLC

CONSTANTS a1, a2, techQa, extra, run1, on, off

TwoInstances == {a1, a2}
Order == <<techQa, extra>>
Required == {techQa}
TwoVersions == {1, 2}
TwoContents == {on, off}
OnlyOn == {on}
OneRun == {run1}

Definitions == [version : TwoVersions, content : TwoContents]
Set(v, others) == [s \in {techQa} \cup DOMAIN others |->
                     IF s = techQa THEN [version |-> v, content |-> on] ELSE others[s]]

(* Version 1 of the default skill without extra and with every definition of   *)
(* it, version 2 of both, and a set that does not validate.                    *)
Sets ==
  {Set(1, << >>), Set(2, << >>), Set(2, extra :> [version |-> 2, content |-> on])}
    \cup {Set(1, extra :> d) : d \in Definitions}
    \cup {techQa :> [version |-> 2, content |-> off]}
==============================================================================
