---------------------------- MODULE AppendOnlyLog ----------------------------
(***************************************************************************)
(* What the runtime_events table promises its readers, without any of the  *)
(* transactions that keep the promise: each run owns one sequence of       *)
(* events, an event enters at the end, and nothing that is in the sequence *)
(* ever moves, changes or disappears.                                      *)
(***************************************************************************)
EXTENDS Sequences

CONSTANTS Runs,     \* the agent runs
          Entries   \* what distinguishes one appended event from another

VARIABLE log        \* log[r]: the events of run r, oldest first

Init == log = [r \in Runs |-> << >>]

Append1(r, e) == log' = [log EXCEPT ![r] = Append(@, e)]

Next == \E r \in Runs, e \in Entries : Append1(r, e)

Spec == Init /\ [][Next]_log
==============================================================================
