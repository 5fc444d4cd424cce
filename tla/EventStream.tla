------------------------------ MODULE EventStream ------------------------------
(***************************************************************************)
(* The delivery of one run's events: the publisher that persists an event  *)
(* and then notifies AgentRunEventBroker, the generator behind             *)
(* GET /api/agent/runs/{run_id}/events, and clients that lose the          *)
(* connection and come back with Last-Event-ID.                            *)
(*                                                                         *)
(* The log is the append-only sequence that EventLog is proved to          *)
(* implement, so persisting is one step here.  The steps of a stream are   *)
(* the stretches between its awaits: the query, each yield, the entry into *)
(* Condition.wait, and the return from it by notification or by timeout.   *)
(* A notification sent between a query that found nothing and the wait is  *)
(* lost, as it is in the code.                                             *)
(***************************************************************************)
EXTENDS Naturals, Sequences, FiniteSets

CONSTANTS Clients,      \* clients of the event endpoint
          MaxEvents,    \* bound: events of the run
          MaxDrops,     \* bound: connections lost on the network
          MaxRestarts   \* bound: restarts of the server process

ASSUME EventStreamAssumption ==
  MaxEvents \in Nat /\ MaxDrops \in Nat /\ MaxRestarts \in Nat

VARIABLES log,        \* event types of the run, in sequence order
          publisher,  \* "ready", "persisted" (committed, not notified) or "stopped"
          pc,         \* pc[c]: where the generator serving client c stands
          cursor,     \* cursor[c]: its current_sequence
          batch,      \* batch[c]: fetched events it has not yielded yet
          net,        \* net[c]: events sent to c and not received
          got,        \* got[c]: sequence numbers c received, over all connections
          listening,  \* listening[c]: c has not closed its EventSource
          drops, restarts

vars == <<log, publisher, pc, cursor, batch, net, got, listening, drops, restarts>>

client == <<got, listening>>
faults == <<drops, restarts>>

Kinds == {"progress", "run.completed", "run.failed"}
TerminalEventTypes == {"run.completed", "run.failed"}
Terminal(n) == log[n] \in TerminalEventTypes

(* "none": no connection; "closed": the generator returned. *)
StreamStates == {"none", "query", "yield", "check", "waiting", "closed"}
Streaming(c) == pc[c] \in {"query", "yield", "check", "waiting"}

Init ==
  /\ log = << >>
  /\ publisher = "ready"
  /\ pc = [c \in Clients |-> "none"]
  /\ cursor = [c \in Clients |-> 0]
  /\ batch = [c \in Clients |-> {}]
  /\ net = [c \in Clients |-> << >>]
  /\ got = [c \in Clients |-> << >>]
  /\ listening = [c \in Clients |-> TRUE]
  /\ drops = 0 /\ restarts = 0

------------------------------------------------------------------------------
(* The publisher.  Nothing follows a terminal event, except the run.failed of  *)
(* a runner whose publication of run.completed raised after its commit.        *)
MayFollow(k) ==
  \A n \in 1 .. Len(log) :
    Terminal(n) => n = Len(log) /\ log[n] = "run.completed" /\ k = "run.failed"

Persist(k) ==
  /\ publisher = "ready"
  /\ Len(log) < MaxEvents
  /\ MayFollow(k)
  /\ log' = Append(log, k)
  /\ publisher' = "persisted"
  /\ UNCHANGED <<pc, cursor, batch, net, client, faults>>

(* Broker.notify: notify_all on the run's Condition. *)
Notify ==
  /\ publisher = "persisted"
  /\ publisher' = "ready"
  /\ pc' = [c \in Clients |-> IF pc[c] = "waiting" THEN "query" ELSE pc[c]]
  /\ UNCHANGED <<log, cursor, batch, net, client, faults>>

(* append raises after its commit, notify raises and is swallowed, or the run  *)
(* executes in another process whose broker has no waiter of ours.             *)
SkipNotify ==
  /\ publisher = "persisted"
  /\ publisher' = "ready"
  /\ UNCHANGED <<log, pc, cursor, batch, net, client, faults>>

------------------------------------------------------------------------------
(* Mutant of LastEventSequence: the header is ignored. *)
LastEventSequenceIgnored(c) == 0

(* GET .../events: a browser repeats the id of the last event it received, and *)
(* the handler turns it back into that event's sequence.                       *)
LastEventSequence(c) == IF got[c] = << >> THEN 0 ELSE got[c][Len(got[c])]

Connect(c) ==
  /\ pc[c] = "none" /\ listening[c]
  /\ pc' = [pc EXCEPT ![c] = "query"]
  /\ cursor' = [cursor EXCEPT ![c] = LastEventSequence(c)]
  /\ UNCHANGED <<log, publisher, batch, net, client, faults>>

(* Mutant of EventsAfter: the cursor names the first event not to be sent yet. *)
EventsFrom(n) == {m \in 1 .. Len(log) + 1 : m > n}

(* list_after_sequence(run_id, current_sequence). *)
EventsAfter(n) == {m \in 1 .. Len(log) : m > n}

Query(c) ==
  /\ pc[c] = "query"
  /\ batch' = [batch EXCEPT ![c] = EventsAfter(cursor[c])]
  /\ pc' = [pc EXCEPT ![c] = IF EventsAfter(cursor[c]) = {} THEN "check" ELSE "yield"]
  /\ UNCHANGED <<log, publisher, cursor, net, client, faults>>

(* Mutant of NextInBatch: ORDER BY sequence DESC. *)
LastInBatch(c) == CHOOSE n \in batch[c] : \A m \in batch[c] : n >= m

(* ORDER BY sequence: the next event yielded is the smallest one left. *)
NextInBatch(c) == CHOOSE n \in batch[c] : \A m \in batch[c] : n <= m

(* Mutant of Yield: a terminal event does not end the response. *)
YieldOnly(c) ==
  /\ pc[c] = "yield"
  /\ LET n == NextInBatch(c)
     IN  /\ net' = [net EXCEPT ![c] = Append(@, n)]
         /\ cursor' = [cursor EXCEPT ![c] = n]
         /\ batch' = [batch EXCEPT ![c] = @ \ {n}]
         /\ pc' = [pc EXCEPT ![c] = IF batch[c] = {n} THEN "query" ELSE "yield"]
  /\ UNCHANGED <<log, publisher, client, faults>>

(* One iteration of "for event in events": yield, advance the cursor, and end  *)
(* the response after a terminal event.                                        *)
Yield(c) ==
  /\ pc[c] = "yield"
  /\ LET n == NextInBatch(c)
     IN  /\ net' = [net EXCEPT ![c] = Append(@, n)]
         /\ cursor' = [cursor EXCEPT ![c] = n]
         /\ batch' = [batch EXCEPT ![c] = IF Terminal(n) THEN {} ELSE @ \ {n}]
         /\ pc' = [pc EXCEPT ![c] = IF Terminal(n) THEN "closed"
                                    ELSE IF batch[c] = {n} THEN "query"
                                    ELSE "yield"]
  /\ UNCHANGED <<log, publisher, client, faults>>

(* wait_for_notification: the waiter joins the Condition. *)
EnterWait(c) ==
  /\ pc[c] = "check"
  /\ pc' = [pc EXCEPT ![c] = "waiting"]
  /\ UNCHANGED <<log, publisher, cursor, batch, net, client, faults>>

(* Mutant of HeartbeatTimeout: after the heartbeat it waits again, no query. *)
HeartbeatOnly(c) == pc[c] = "waiting" /\ UNCHANGED vars

(* wait_for times out: heartbeat comment, then the next query. *)
HeartbeatTimeout(c) ==
  /\ pc[c] = "waiting"
  /\ pc' = [pc EXCEPT ![c] = "query"]
  /\ UNCHANGED <<log, publisher, cursor, batch, net, client, faults>>

------------------------------------------------------------------------------
Disconnected(c) ==
  /\ pc' = [pc EXCEPT ![c] = "none"]
  /\ net' = [net EXCEPT ![c] = << >>]
  /\ batch' = [batch EXCEPT ![c] = {}]

(* The client receives one event.  One that acts on a terminal event closes    *)
(* its EventSource at once; a client that cannot use the event keeps it open.  *)
Receive(c, closes) ==
  /\ net[c] # << >> /\ listening[c]
  /\ closes => Terminal(Head(net[c]))
  /\ got' = [got EXCEPT ![c] = Append(@, Head(net[c]))]
  /\ listening' = [listening EXCEPT ![c] = ~ closes]
  /\ IF closes
       THEN Disconnected(c)
       ELSE net' = [net EXCEPT ![c] = Tail(@)] /\ UNCHANGED <<pc, batch>>
  /\ UNCHANGED <<log, publisher, cursor, faults>>

(* The response has ended; a native EventSource that is still open reconnects. *)
EndOfResponse(c) ==
  /\ pc[c] = "closed" /\ net[c] = << >>
  /\ Disconnected(c)
  /\ UNCHANGED <<log, publisher, cursor, client, faults>>

(* The user leaves the page. *)
Leave(c) ==
  /\ listening[c]
  /\ listening' = [listening EXCEPT ![c] = FALSE]
  /\ Disconnected(c)
  /\ UNCHANGED <<log, publisher, cursor, got, faults>>

(* The connection breaks; what was in flight is lost. *)
Drop(c) ==
  /\ drops < MaxDrops
  /\ pc[c] # "none"
  /\ Disconnected(c)
  /\ drops' = drops + 1
  /\ UNCHANGED <<log, publisher, cursor, client, restarts>>

(* The process dies with its streams, its Conditions and its runner task; the  *)
(* table survives and the run is not resumed.                                  *)
Restart ==
  /\ restarts < MaxRestarts
  /\ publisher' = "stopped"
  /\ pc' = [c \in Clients |-> "none"]
  /\ net' = [c \in Clients |-> << >>]
  /\ batch' = [c \in Clients |-> {}]
  /\ restarts' = restarts + 1
  /\ UNCHANGED <<log, cursor, client, drops>>

(* The generator's own steps, from one await to the next. *)
Generator(c) == Query(c) \/ Yield(c) \/ EnterWait(c) \/ HeartbeatTimeout(c)

Next ==
  \/ \E k \in Kinds : Persist(k)
  \/ Notify
  \/ SkipNotify
  \/ \E c \in Clients :
       \/ Connect(c)
       \/ Generator(c)
       \/ \E closes \in BOOLEAN : Receive(c, closes)
       \/ EndOfResponse(c)
       \/ Leave(c)
       \/ Drop(c)
  \/ Restart

Spec == Init /\ [][Next]_vars

(* The event loop runs every ready task, the heartbeat timer fires, the        *)
(* network delivers or breaks, and an open EventSource reconnects.  Nothing is *)
(* assumed of the publisher: it may stop anywhere and never notify.            *)
Fairness ==
  \A c \in Clients :
    /\ WF_vars(Generator(c))
    /\ WF_vars(\E closes \in BOOLEAN : Receive(c, closes))
    /\ WF_vars(Connect(c))
    /\ WF_vars(EndOfResponse(c))

FairSpec == Spec /\ Fairness

------------------------------------------------------------------------------
TypeOK ==
  /\ log \in Seq(Kinds)
  /\ publisher \in {"ready", "persisted", "stopped"}
  /\ pc \in [Clients -> StreamStates]
  /\ cursor \in [Clients -> Nat]
  /\ batch \in [Clients -> SUBSET (1 .. Len(log))]
  /\ net \in [Clients -> Seq(Nat)]
  /\ got \in [Clients -> Seq(Nat)]
  /\ listening \in [Clients -> BOOLEAN]
  /\ drops \in 0 .. MaxDrops /\ restarts \in 0 .. MaxRestarts

(* A client sees event 1, 2, 3, ... and nothing else: no gap, no repetition    *)
(* and no reordering, across lost connections, restarts and Last-Event-ID.     *)
DeliveredInOrder ==
  \A c \in Clients : /\ Len(got[c]) <= Len(log)
                     /\ \A i \in DOMAIN got[c] : got[c][i] = i

(* A persisted event reaches every client that stays, whether or not the       *)
(* broker was notified of it and whoever was not yet waiting when it was.      *)
EventuallyDelivered ==
  \A c \in Clients, n \in 1 .. MaxEvents :
    (n <= Len(log) /\ \A m \in 1 .. n - 1 : ~ Terminal(m))
      ~> (Len(got[c]) >= n \/ ~ listening[c])

(* A stream that has a terminal event ahead of it ends. *)
StreamsEnd ==
  \A c \in Clients :
    (Streaming(c) /\ \E n \in 1 .. Len(log) : n > cursor[c] /\ Terminal(n))
      ~> ~ Streaming(c)

(* The endpoint hands out the log in order: the abstract feed. *)
Feed == INSTANCE EventFeed

ImplementsFeed == Feed!Spec

(* The design document: a client that connects after the run has ended is      *)
(* served up to the terminal event and then disconnected.  The code does not   *)
(* do that for a client that already has the terminal event.                   *)
EndedRunsCloseStreams ==
  \A c \in Clients :
    (Streaming(c) /\ \E n \in 1 .. Len(log) : Terminal(n)) ~> ~ Streaming(c)
==============================================================================
