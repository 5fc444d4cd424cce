------------------------------ MODULE EventFeed ------------------------------
(***************************************************************************)
(* What the event endpoint promises a client of one run, without sessions, *)
(* conditions, connections or reconnects: the run's log grows at its end,  *)
(* and each client is handed the events of that log one by one, from the   *)
(* first, in order, never twice and never one the log does not hold.       *)
(***************************************************************************)
EXTENDS Naturals, Sequences

CONSTANTS Clients,   \* subscribers of the run's events
          Kinds      \* event types

VARIABLES log,       \* event types in sequence order
          got        \* got[c]: the sequence numbers client c was handed

Init == log = << >> /\ got = [c \in Clients |-> << >>]

Publish(k) == log' = Append(log, k) /\ UNCHANGED got

Deliver(c) ==
  /\ Len(got[c]) < Len(log)
  /\ got' = [got EXCEPT ![c] = Append(@, Len(@) + 1)]
  /\ UNCHANGED log

Next == (\E k \in Kinds : Publish(k)) \/ (\E c \in Clients : Deliver(c))

Spec == Init /\ [][Next]_<<log, got>>
==============================================================================
