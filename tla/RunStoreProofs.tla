---------------------------- MODULE RunStoreProofs ----------------------------
(***************************************************************************)
(* Proofs about RunStore for every script, any number of submissions and   *)
(* connections and every order of their callbacks.                         *)
(*                                                                         *)
(* The store tells runs apart by comparing tokens and connection ids, and  *)
(* by what it resets when.  StoreInv says what that achieves: an awaited   *)
(* create request has nothing on the screen but its placeholder            *)
(* (WaitingOK), no run means no live connection (NoRunOK), the run that is *)
(* followed is the one of the last token (RunOK), the timeline holds its   *)
(* events in increasing order (EventsOK), at most one connection is live   *)
(* and it stands behind all events of the timeline (LiveOK).  LiveOK is    *)
(* what keeps an event from being taken for a duplicate and the pending    *)
(* message from being completed twice.                                     *)
(***************************************************************************)
EXTENDS RunStore, SequenceTheorems, TLAPS

(* The message that is shown while its run has said nothing. *)
Placeholder == [pending |-> TRUE, content |-> << >>]

(* Where a stream is in its run. *)
StreamOK(c) ==
  \/ c.last = "run.failed"
  \/ c.last = "run.completed" /\ c.at = Len(Script)
  \/ c.last \notin TerminalEventTypes /\ c.at < Len(Script)

StreamsOK == \A n \in DOMAIN connections : StreamOK(connections[n])

(* While the create request of the current submission is open. *)
WaitingOK ==
  requestToken \in requests =>
    createdRun = NoRun /\ messages[requestToken] = Placeholder /\ ~ Streaming

NoRunOK ==
  createdRun = NoRun =>
    /\ events = << >> /\ lastSequence = 0 /\ accumulatedDelta = << >>
    /\ \A n \in DOMAIN connections : ~ Live(n)

RunOK == createdRun # NoRun => createdRun = requestToken /\ pendingMessage = createdRun

EventsOK ==
  /\ \A k \in DOMAIN events : events[k].run = createdRun /\ events[k].sequence <= lastSequence
  /\ \A k, l \in DOMAIN events : k < l => events[k].sequence < events[l].sequence
  /\ \A k \in DOMAIN accumulatedDelta : accumulatedDelta[k].run = createdRun

(* The one connection that may be open has handed over all the timeline has, and *)
(* perhaps events that could not be parsed.                                      *)
LiveOK ==
  /\ \A n \in DOMAIN connections : Live(n) =>
       /\ Newest(n) /\ Streaming /\ connections[n].run = createdRun
       /\ lastSequence <= connections[n].at
       /\ messages[createdRun] # NoMessage => messages[createdRun].pending
  /\ Streaming => \E n \in DOMAIN connections : Live(n)

LaterOK == \A t \in Tokens : t > requestToken => messages[t] = NoMessage

StoreInv ==
  /\ TypeOK /\ StreamsOK /\ WaitingOK /\ NoRunOK /\ RunOK /\ EventsOK /\ LiveOK /\ LaterOK
  /\ AnswerInItsMessage /\ PendingOnlyWhileBusy

------------------------------------------------------------------------------
(* The operators on sequences of connections and events. *)
LEMMA ConnectionUpdate ==
  ASSUME NEW c \in Connection, NEW state
  PROVE  [c EXCEPT !.state = state] = [run |-> c.run, state |-> state, at |-> c.at, last |-> c.last]
BY DEF Connection

LEMMA SameLength ==
  ASSUME NEW S, NEW s \in Seq(S), NEW f \in [DOMAIN s -> S]
  PROVE  f \in Seq(S) /\ Len(f) = Len(s) /\ DOMAIN f = DOMAIN s
<1>1. Len(s) \in Nat /\ DOMAIN s = 1 .. Len(s)
  BY LenProperties
<1>2. f \in [1 .. Len(s) -> S]
  BY <1>1
<1>3. f \in Seq(S)
  BY <1>1, <1>2, SeqDef
<1>4. Len(f) \in Nat /\ DOMAIN f = 1 .. Len(f)
  BY <1>3, LenProperties
<1>5. 1 .. Len(f) = 1 .. Len(s)
  BY <1>1, <1>2, <1>4
<1>6. Len(f) = Len(s)
  BY <1>1, <1>4, <1>5
<1> QED
  BY <1>1, <1>3, <1>4, <1>6

LEMMA ClosedEffect ==
  ASSUME NEW old \in Seq(Connection)
  PROVE  /\ Closed(old) \in Seq(Connection) /\ Len(Closed(old)) = Len(old)
         /\ DOMAIN Closed(old) = DOMAIN old
         /\ \A n \in DOMAIN old :
              Closed(old)[n] = [run |-> old[n].run, state |-> "closed",
                                at |-> old[n].at, last |-> old[n].last]
<1>1. \A n \in DOMAIN old : old[n] \in Connection
  BY ElementOfSeq, LenProperties
<1>2. \A n \in DOMAIN old :
        [old[n] EXCEPT !.state = "closed"]
          = [run |-> old[n].run, state |-> "closed", at |-> old[n].at, last |-> old[n].last]
  BY <1>1, ConnectionUpdate, Zenon
<1>3. \A n \in DOMAIN old :
        [run |-> old[n].run, state |-> "closed", at |-> old[n].at, last |-> old[n].last] \in Connection
  BY <1>1 DEF Connection
<1>4. Closed(old) = [n \in DOMAIN old |-> [run |-> old[n].run, state |-> "closed",
                                           at |-> old[n].at, last |-> old[n].last]]
  BY <1>2, Zenon DEF Closed
<1>5. Closed(old) \in [DOMAIN old -> Connection]
  BY <1>3, <1>4
<1> QED
  BY <1>4, <1>5, SameLength

LEMMA RangeAppend ==
  ASSUME NEW S, NEW s \in Seq(S), NEW e \in S
  PROVE  /\ Append(s, e) \in Seq(S)
         /\ \A x \in Range(Append(s, e)) : x \in Range(s) \/ x = e
         /\ \A k \in DOMAIN Append(s, e) :
              \/ k \in DOMAIN s /\ Append(s, e)[k] = s[k]
              \/ k = Len(s) + 1 /\ Append(s, e)[k] = e
BY AppendProperties, LenProperties DEF Range

(* What replacing one connection leaves. *)
LEMMA OneConnection ==
  ASSUME NEW old \in Seq(Connection), NEW n \in DOMAIN old, NEW c \in Connection,
         NEW new, new = [old EXCEPT ![n] = c]
  PROVE  /\ new \in Seq(Connection) /\ Len(new) = Len(old) /\ DOMAIN new = DOMAIN old
         /\ \A k \in DOMAIN old : new[k] = IF k = n THEN c ELSE old[k]
<1>1. new \in [DOMAIN old -> Connection]
  BY ElementOfSeq, LenProperties
<1> QED
  BY <1>1, SameLength

LEMMA ConnectionType ==
  ASSUME StoreInv, NEW n \in DOMAIN connections
  PROVE  /\ connections[n] \in Connection /\ n \in 1 .. Len(connections) /\ Len(connections) \in Nat
         /\ connections[n].run \in Tokens
         /\ connections[n].state \in {"connecting", "open", "closed"}
         /\ connections[n].at \in 0 .. Len(Script) + 1
         /\ connections[n].last \in {"none", "lost"} \cup Range(Script) \cup TerminalEventTypes
<1>1. connections \in Seq(Connection)
  BY DEF StoreInv, TypeOK
<1>2. connections[n] \in Connection /\ n \in 1 .. Len(connections) /\ Len(connections) \in Nat
  BY <1>1, ElementOfSeq, LenProperties
<1> QED
  BY <1>2 DEF Connection

LEMMA SetStateEffect ==
  ASSUME StoreInv, NEW n \in DOMAIN connections, NEW state \in {"connecting", "open", "closed"},
         SetState(n, state)
  PROVE  /\ connections' \in Seq(Connection) /\ Len(connections') = Len(connections)
         /\ DOMAIN connections' = DOMAIN connections
         /\ \A k \in DOMAIN connections :
              connections'[k] = IF k = n THEN [run |-> connections[n].run, state |-> state,
                                               at |-> connections[n].at, last |-> connections[n].last]
                                         ELSE connections[k]
<1> DEFINE c == [run |-> connections[n].run, state |-> state,
                 at |-> connections[n].at, last |-> connections[n].last]
<1>1. connections' = [connections EXCEPT ![n] = [connections[n] EXCEPT !.state = state]]
  BY Zenon DEF SetState
<1>2. [connections[n] EXCEPT !.state = state] = c
  BY ConnectionType, ConnectionUpdate, Zenon
<1>3. connections' = [connections EXCEPT ![n] = c]
  BY <1>1, <1>2, Zenon
<1>4. c \in Connection
  BY ConnectionType DEF Connection
<1>5. connections \in Seq(Connection)
  BY DEF StoreInv, TypeOK
<1> HIDE DEF c
<1>6. /\ connections' \in Seq(Connection) /\ Len(connections') = Len(connections)
      /\ DOMAIN connections' = DOMAIN connections
      /\ \A k \in DOMAIN connections : connections'[k] = IF k = n THEN c ELSE connections[k]
  BY <1>3, <1>4, <1>5, OneConnection
<1> QED
  BY <1>6 DEF c

(* What is known of a connection that is not closed. *)
LEMMA LiveFacts ==
  ASSUME StoreInv, NEW n \in DOMAIN connections, Live(n)
  PROVE  /\ n = Len(connections) /\ Streaming
         /\ connections[n].run = createdRun /\ lastSequence <= connections[n].at
         /\ messages[createdRun] # NoMessage => messages[createdRun].pending
         /\ createdRun # NoRun /\ createdRun \in Tokens /\ createdRun = requestToken
         /\ pendingMessage = createdRun
         /\ requestToken \notin requests /\ isSubmitting = FALSE
<1>1. createdRun # NoRun
  BY DEF StoreInv, NoRunOK
<1>2. requestToken \notin requests
  BY <1>1 DEF StoreInv, WaitingOK
<1> QED
  BY <1>1, <1>2 DEF StoreInv, LiveOK, Newest, RunOK, TypeOK

------------------------------------------------------------------------------
(* The connection. *)

LEMMA StoreInvInit == Init => StoreInv
<1> SUFFICES ASSUME Init PROVE StoreInv
  OBVIOUS
<1>1. TypeOK
  <2>1. events \in Seq(Event) /\ accumulatedDelta \in Seq(Event) /\ connections \in Seq(Connection)
    BY DEF Init
  <2>2. /\ 0 \in 0 .. MaxTokens /\ 0 \in 0 .. MaxDrops /\ 0 \in 0 .. MaxLeaves
        /\ 0 \in 0 .. Len(Script) + 1
    BY RunStoreAssumption, LenProperties
  <2>3. isSubmitting \in BOOLEAN /\ (isSubmitting <=> requestToken \in requests) /\ onPage \in BOOLEAN
    BY DEF Init
  <2> QED
    BY <2>1, <2>2, <2>3 DEF Init, TypeOK, Statuses
<1>2. StreamsOK /\ WaitingOK /\ NoRunOK /\ RunOK /\ EventsOK /\ LiveOK /\ LaterOK
  BY DEF Init, StreamsOK, WaitingOK, NoRunOK, RunOK, EventsOK, LiveOK, LaterOK, Streaming
<1>3. AnswerInItsMessage /\ PendingOnlyWhileBusy
  BY DEF Init, AnswerInItsMessage, PendingOnlyWhileBusy
<1> QED
  BY <1>1, <1>2, <1>3 DEF StoreInv

(* The connection stays the live one: it opens, breaks, loses its run, or hands  *)
(* over what is ignored.                                                         *)
LEMMA StoreInvLive ==
  ASSUME StoreInv, NEW n \in DOMAIN connections, Live(n),
         NEW c \in Connection, StreamOK(c), c.run = connections[n].run,
         c.state # "closed", connections[n].at <= c.at,
         connections' = [connections EXCEPT ![n] = c],
         status' \in Statuses, Streaming', errorMessage' \subseteq Tokens,
         drops' \in 0 .. MaxDrops,
         UNCHANGED <<requestToken, isSubmitting, answer, timeline, run, inFlight,
                     onPage, cut, leaves>>
  PROVE  StoreInv'
<1>1. /\ connections' \in Seq(Connection) /\ Len(connections') = Len(connections)
      /\ DOMAIN connections' = DOMAIN connections
      /\ \A k \in DOMAIN connections : connections'[k] = IF k = n THEN c ELSE connections[k]
  BY OneConnection DEF StoreInv, TypeOK
<1>2. /\ createdRun # NoRun /\ requestToken \notin requests /\ Streaming
      /\ n = Len(connections) /\ lastSequence <= connections[n].at
  BY LiveFacts
<1>3. TypeOK'
  BY <1>1 DEF StoreInv, TypeOK, answer, timeline, run, inFlight
<1>4. StreamsOK'
  BY <1>1 DEF StoreInv, StreamsOK
<1>5. WaitingOK' /\ NoRunOK' /\ RunOK' /\ EventsOK' /\ LaterOK' /\ AnswerInItsMessage'
  BY <1>2 DEF StoreInv, WaitingOK, NoRunOK, RunOK, EventsOK, LaterOK, AnswerInItsMessage,
              answer, timeline, run, inFlight
<1>6. LiveOK'
  <2>1. \A k \in DOMAIN connections : Live(k)' => Live(k) /\ connections'[k].run = connections[k].run
                                                  /\ (k # n => connections'[k].at = connections[k].at)
    BY <1>1 DEF Live
  <2>2. Live(n)'
    BY <1>1 DEF Live
  <2>3. lastSequence <= connections'[n].at
    <3>1. Len(Script) \in Nat
      BY RunStoreAssumption, LenProperties
    <3>2. connections[n].at \in Nat
      BY <3>1, ConnectionType
    <3>3. c.at \in Nat
      BY <3>1 DEF Connection
    <3>4. lastSequence \in Nat
      BY <3>1 DEF StoreInv, TypeOK
    <3>5. lastSequence <= c.at
      BY <1>2, <3>2, <3>3, <3>4
    <3> QED
      BY <1>1, <3>5
  <2>4. UNCHANGED <<messages, lastSequence, createdRun>>
    BY DEF answer, timeline, run
  <2>5. \A k \in DOMAIN connections' : Live(k)' =>
          /\ k = Len(connections') /\ connections'[k].run = createdRun
          /\ lastSequence <= connections'[k].at
          /\ messages[createdRun] # NoMessage => messages[createdRun].pending
    BY <1>1, <1>2, <2>1, <2>3 DEF StoreInv, LiveOK, Newest
  <2> QED
    BY <1>1, <2>2, <2>4, <2>5 DEF LiveOK, Newest
<1>7. PendingOnlyWhileBusy'
  BY <1>2 DEF StoreInv, PendingOnlyWhileBusy, isBusy, answer
<1> QED
  BY <1>3, <1>4, <1>5, <1>6, <1>7 DEF StoreInv

LEMMA StoreInvOpen ==
  ASSUME StoreInv, NEW n \in DOMAIN connections, Open(n) \/ Drop(n)
  PROVE  StoreInv'
<1> DEFINE c(state) == [run |-> connections[n].run, state |-> state,
                        at |-> connections[n].at, last |-> connections[n].last]
<1>1. Live(n)
  BY DEF Open, Drop, Live
<1>2. Newest(n)
  BY <1>1 DEF StoreInv, LiveOK
<1>3. connections[n] \in Connection /\ connections[n].at \in Nat /\ StreamOK(connections[n])
  BY ConnectionType, RunStoreAssumption, LenProperties DEF StoreInv, StreamsOK
<1>4. ASSUME NEW state \in {"connecting", "open"}, SetState(n, state)
      PROVE  /\ c(state) \in Connection /\ StreamOK(c(state)) /\ c(state).run = connections[n].run
             /\ c(state).state # "closed" /\ connections[n].at <= c(state).at
             /\ connections' = [connections EXCEPT ![n] = c(state)]
  <2>1. connections' = [connections EXCEPT ![n] = [connections[n] EXCEPT !.state = state]]
    BY <1>4, Zenon DEF SetState
  <2>2. [connections[n] EXCEPT !.state = state] = c(state)
    BY <1>3, ConnectionUpdate, Zenon
  <2>3. connections' = [connections EXCEPT ![n] = c(state)]
    BY <2>1, <2>2, Zenon
  <2> QED
    BY <1>3, <2>3 DEF Connection, StreamOK
<1> HIDE DEF c
<1>5. errorMessage \subseteq Tokens /\ drops \in 0 .. MaxDrops
  BY DEF StoreInv, TypeOK
<1>6. CASE Open(n)
  <2>1. SetState(n, "open") /\ status' = "open" /\ drops' = drops /\ errorMessage' = errorMessage
        /\ UNCHANGED <<requestToken, isSubmitting, answer, timeline, run, inFlight,
                       onPage, cut, leaves>>
    BY <1>2, <1>6 DEF Open, SetStatus, bounds
  <2>2. status' \in Statuses /\ Streaming'
    BY <2>1 DEF Statuses, Streaming
  <2> QED
    BY <1>1, <1>4, <1>5, <2>1, <2>2, StoreInvLive
<1>7. CASE Drop(n)
  <2>1. SetState(n, "connecting") /\ status' = "reconnecting" /\ errorMessage' = errorMessage
        /\ UNCHANGED <<requestToken, isSubmitting, answer, timeline, run, inFlight,
                       onPage, cut, leaves>>
    BY <1>2, <1>7 DEF Drop, SetStatus
  <2>2. status' \in Statuses /\ Streaming'
    BY <2>1 DEF Statuses, Streaming
  <2>3. drops' \in 0 .. MaxDrops
    BY <1>5, <1>7, RunStoreAssumption DEF Drop
  <2> QED
    BY <1>1, <1>4, <1>5, <2>1, <2>2, <2>3, StoreInvLive
<1> QED
  BY <1>6, <1>7

(* The run dies behind the connection; nothing of the store changes.           *)
LEMMA StoreInvLose ==
  ASSUME StoreInv, NEW n \in DOMAIN connections, LoseRun(n)
  PROVE  StoreInv'
<1> DEFINE c == [run |-> connections[n].run, state |-> connections[n].state,
                 at |-> connections[n].at, last |-> "lost"]
<1>1. /\ Live(n) /\ ~ Over(connections[n])
      /\ UNCHANGED <<requestToken, isSubmitting, answer, timeline, run, errorMessage, status,
                     inFlight, onPage, cut, bounds>>
  BY DEF LoseRun
<1>2. /\ connections[n] \in Connection /\ connections[n].at \in Nat
      /\ StreamOK(connections[n])
  BY ConnectionType, RunStoreAssumption, LenProperties DEF StoreInv, StreamsOK
<1>3. connections' = [connections EXCEPT ![n] = [connections[n] EXCEPT !.last = "lost"]]
  BY Zenon DEF LoseRun
<1>4. [connections[n] EXCEPT !.last = "lost"] = c
  BY <1>2 DEF Connection
<1>5. connections' = [connections EXCEPT ![n] = c]
  BY <1>3, <1>4, Zenon
<1>6. /\ c \in Connection /\ c.run = connections[n].run /\ c.state # "closed"
      /\ connections[n].at <= c.at
  BY <1>1, <1>2 DEF Connection, Live
<1>7. StreamOK(c)
  BY <1>1, <1>2 DEF StreamOK, Over, TerminalEventTypes
<1>8. status' \in Statuses /\ Streaming' /\ errorMessage' \subseteq Tokens /\ drops' \in 0 .. MaxDrops
  BY <1>1, LiveFacts DEF StoreInv, TypeOK, Streaming, bounds
<1> HIDE DEF c
<1> QED
  BY <1>1, <1>5, <1>6, <1>7, <1>8, StoreInvLive DEF bounds

LEMMA StoreInvRefuse ==
  ASSUME StoreInv, NEW n \in DOMAIN connections, Refuse(n)
  PROVE  StoreInv'
<1>1. Live(n)
  BY DEF Refuse, Live
<1>2. /\ createdRun # NoRun /\ requestToken \notin requests /\ n = Len(connections)
      /\ connections[n].run = createdRun /\ createdRun \in Tokens /\ createdRun = requestToken
      /\ isSubmitting = FALSE
  BY <1>1, LiveFacts
<1>3. /\ connections' \in Seq(Connection) /\ Len(connections') = Len(connections)
      /\ DOMAIN connections' = DOMAIN connections
      /\ \A k \in DOMAIN connections :
           connections'[k] = IF k = n THEN [run |-> connections[n].run, state |-> "closed",
                                            at |-> connections[n].at, last |-> connections[n].last]
                                      ELSE connections[k]
  BY SetStateEffect DEF Refuse
<1>4. /\ status' = "closed" /\ cut' = cut \cup {createdRun}
      /\ UNCHANGED <<requestToken, isSubmitting, answer, timeline, run, errorMessage, inFlight,
                     onPage, bounds>>
  BY <1>2 DEF Refuse, SetStatus, Newest
<1>5. TypeOK'
  BY <1>2, <1>3, <1>4 DEF StoreInv, TypeOK, Statuses, answer, timeline, run, inFlight, bounds
<1>6. StreamsOK'
  BY <1>3 DEF StoreInv, StreamsOK, StreamOK
<1>7. WaitingOK' /\ NoRunOK' /\ RunOK' /\ EventsOK' /\ LaterOK' /\ AnswerInItsMessage'
  BY <1>2, <1>4 DEF StoreInv, WaitingOK, NoRunOK, RunOK, EventsOK, LaterOK, AnswerInItsMessage,
                    answer, timeline, run, inFlight
<1>8. LiveOK'
  <2>1. \A k \in DOMAIN connections : ~ Live(k)'
    BY <1>2, <1>3 DEF Live, StoreInv, LiveOK, Newest
  <2> QED
    BY <1>3, <1>4, <2>1 DEF LiveOK, Streaming
<1>9. PendingOnlyWhileBusy'
  BY <1>2, <1>4 DEF StoreInv, PendingOnlyWhileBusy, isBusy, answer
<1> QED
  BY <1>5, <1>6, <1>7, <1>8, <1>9 DEF StoreInv

(* close(): whatever was live is closed and its run is cut off. *)
LEMMA CloseEffect ==
  ASSUME StoreInv, Close
  PROVE  /\ connections' \in Seq(Connection) /\ StreamsOK'
         /\ \A n \in DOMAIN connections' : ~ Live(n)'
         /\ cut' \subseteq Tokens /\ cut \subseteq cut'
         /\ Streaming => requestToken \in cut'
<1>1. connections \in Seq(Connection) /\ connections' = Closed(connections)
  BY DEF Close, StoreInv, TypeOK
<1>2. /\ connections' \in Seq(Connection) /\ DOMAIN connections' = DOMAIN connections
      /\ \A n \in DOMAIN connections :
           connections'[n] = [run |-> connections[n].run, state |-> "closed",
                              at |-> connections[n].at, last |-> connections[n].last]
  BY <1>1, ClosedEffect
<1>3. StreamsOK'
  BY <1>2 DEF StoreInv, StreamsOK, StreamOK
<1>4. cut' \subseteq Tokens /\ cut \subseteq cut'
  BY ConnectionType DEF Close, CutOff, StoreInv, TypeOK
<1>5. ASSUME Streaming
      PROVE  requestToken \in cut'
  <2>1. PICK n \in DOMAIN connections : Live(n)
    BY <1>5 DEF StoreInv, LiveOK
  <2>2. connections[n].run = requestToken
    BY <2>1, LiveFacts
  <2> QED
    BY <2>1, <2>2 DEF Close, CutOff, Live
<1> QED
  BY <1>2, <1>3, <1>4, <1>5 DEF Live

LEMMA StoreInvLeave ==
  ASSUME StoreInv, Leave
  PROVE  StoreInv'
<1>1. /\ connections' \in Seq(Connection) /\ StreamsOK'
      /\ \A n \in DOMAIN connections' : ~ Live(n)'
      /\ cut' \subseteq Tokens /\ cut \subseteq cut'
      /\ Streaming => requestToken \in cut'
  BY CloseEffect DEF Leave, CloseSSE
<1>2. /\ status' = "idle" /\ ~ Streaming'
      /\ UNCHANGED <<requestToken, isSubmitting, answer, timeline, run, errorMessage, inFlight, drops>>
  BY DEF Leave, CloseSSE, Streaming
<1>3. TypeOK'
  <2>1. leaves < MaxLeaves /\ leaves' = leaves + 1 /\ leaves \in 0 .. MaxLeaves
    BY DEF Leave, StoreInv, TypeOK
  <2>2. leaves' \in 0 .. MaxLeaves
    BY <2>1, RunStoreAssumption
  <2>3. onPage' \in BOOLEAN
    BY DEF Leave
  <2> QED
    BY <1>1, <1>2, <2>2, <2>3 DEF StoreInv, TypeOK, Statuses, answer, timeline, run, inFlight
<1>4. WaitingOK' /\ NoRunOK' /\ RunOK' /\ EventsOK' /\ LaterOK' /\ AnswerInItsMessage'
  BY <1>1, <1>2 DEF StoreInv, WaitingOK, NoRunOK, RunOK, EventsOK, LaterOK, AnswerInItsMessage,
                    answer, timeline, run, inFlight
<1>5. LiveOK'
  BY <1>1, <1>2 DEF LiveOK
<1>6. PendingOnlyWhileBusy'
  BY <1>1, <1>2 DEF StoreInv, PendingOnlyWhileBusy, isBusy, answer
<1> QED
  BY <1>1, <1>3, <1>4, <1>5, <1>6 DEF StoreInv

(* Enter, and the answers that change no message: everything the invariant     *)
(* speaks of stays, but for the requests of older submissions.                 *)
LEMMA StoreInvQuiet ==
  ASSUME StoreInv, TypeOK', UNCHANGED <<requestToken, isSubmitting, answer, timeline, createdRun,
                                        connection, cut>>,
         requestToken \in requests' => requestToken \in requests
  PROVE  StoreInv'
<1>1. StreamsOK' /\ WaitingOK' /\ NoRunOK' /\ RunOK' /\ EventsOK' /\ LiveOK' /\ LaterOK'
  BY DEF StoreInv, StreamsOK, StreamOK, WaitingOK, NoRunOK, RunOK, EventsOK, LiveOK, LaterOK, Live,
         Newest, Streaming, answer, timeline, connection, Placeholder
<1>2. AnswerInItsMessage' /\ PendingOnlyWhileBusy'
  BY DEF StoreInv, AnswerInItsMessage, PendingOnlyWhileBusy, isBusy, Streaming, answer, connection
<1> QED
  BY <1>1, <1>2 DEF StoreInv

LEMMA StoreInvAnswers ==
  ASSUME StoreInv, NEW t \in Tokens,
         RefreshAnswered(t) \/ RefreshFails(t) \/ CreateOvertaken(t)
  PROVE  StoreInv'
<1>1. CASE RefreshAnswered(t)
  <2>1. TypeOK'
    BY <1>1 DEF RefreshAnswered, StoreInv, TypeOK, RunStatuses, answer, timeline, connection, bounds
  <2> QED
    BY <1>1, <2>1, StoreInvQuiet DEF RefreshAnswered
<1>2. CASE RefreshFails(t)
  <2>1. TypeOK'
    BY <1>2 DEF RefreshFails, StoreInv, TypeOK, answer, timeline, run, connection, bounds
  <2> QED
    BY <1>2, <2>1, StoreInvQuiet DEF RefreshFails, run
<1>3. CASE CreateOvertaken(t)
  <2>1. TypeOK'
    BY <1>3 DEF CreateOvertaken, Current, StoreInv, TypeOK, answer, timeline, run, connection, bounds
  <2> QED
    BY <1>3, <2>1, StoreInvQuiet DEF CreateOvertaken, Current, run
<1> QED
  BY <1>1, <1>2, <1>3

------------------------------------------------------------------------------
(* Submissions and their answers. *)

LEMMA StoreInvSubmit ==
  ASSUME StoreInv, Submit
  PROVE  StoreInv'
<1>1. /\ connections' \in Seq(Connection) /\ StreamsOK'
      /\ \A n \in DOMAIN connections' : ~ Live(n)'
      /\ cut' \subseteq Tokens /\ cut \subseteq cut'
  BY CloseEffect DEF Submit, CloseSSE
<1> DEFINE new == requestToken + 1
<1>2. new \in Tokens /\ requestToken \in Nat /\ new \in 0 .. MaxTokens
  BY RunStoreAssumption DEF Submit, StoreInv, TypeOK, Tokens
<1>3. /\ requestToken' = new /\ status' = "idle" /\ ~ Streaming' /\ isSubmitting' = TRUE
      /\ events' = << >> /\ lastSequence' = 0 /\ accumulatedDelta' = << >>
      /\ createdRun' = NoRun /\ currentRun' = NoRun /\ errorMessage' = {}
      /\ messages' = [messages EXCEPT ![new] = Placeholder]
      /\ pendingMessage' = new /\ requests' = requests \cup {new}
      /\ UNCHANGED <<snapshots, onPage, bounds>> /\ ~ isBusy
  BY DEF Submit, CloseSSE, ClearTimeline, Streaming, Placeholder
<1> HIDE DEF new
<1>4. /\ messages'[new] = Placeholder
      /\ \A t \in Tokens \ {new} : messages'[t] = messages[t]
  BY <1>2, <1>3 DEF StoreInv, TypeOK
<1>5. TypeOK'
  <2>1. Placeholder \in Message
    BY DEF Placeholder, Message
  <2>2. messages' \in [Tokens -> Message \cup {NoMessage}]
    BY <1>3, <2>1 DEF StoreInv, TypeOK
  <2>3. requests' \subseteq 1 .. new /\ snapshots' \subseteq 1 .. new /\ pendingMessage' \in 0 .. new
    BY <1>2, <1>3 DEF StoreInv, TypeOK, new
  <2>4. isSubmitting' \in BOOLEAN /\ (isSubmitting <=> requestToken \in requests)'
    BY <1>3
  <2>5. << >> \in Seq(Event) /\ 0 \in 0 .. Len(Script) + 1
    BY RunStoreAssumption, LenProperties
  <2>6. /\ onPage' \in BOOLEAN /\ drops' \in 0 .. MaxDrops /\ leaves' \in 0 .. MaxLeaves
    BY <1>3 DEF bounds, StoreInv, TypeOK
  <2> QED
    BY <1>1, <1>2, <1>3, <2>2, <2>3, <2>4, <2>5, <2>6 DEF TypeOK, Statuses
<1>6. WaitingOK' /\ NoRunOK' /\ RunOK' /\ EventsOK' /\ LiveOK'
  BY <1>1, <1>3, <1>4 DEF WaitingOK, NoRunOK, RunOK, EventsOK, LiveOK, Placeholder
<1>7. LaterOK'
  <2> SUFFICES ASSUME NEW t \in Tokens, t > new PROVE messages'[t] = NoMessage
    BY <1>3 DEF LaterOK
  <2>1. t > requestToken /\ t # new
    BY <1>2 DEF new, Tokens
  <2> QED
    BY <1>4, <2>1 DEF StoreInv, LaterOK
<1>8. AnswerInItsMessage'
  <2> SUFFICES ASSUME NEW t \in Tokens, messages'[t] # NoMessage,
                      NEW e \in Range(messages'[t].content)
               PROVE  e.run = t
    BY DEF AnswerInItsMessage
  <2>1. CASE t = new
    BY <1>4, <2>1 DEF Placeholder, Range
  <2>2. CASE t # new
    BY <1>4, <2>2 DEF StoreInv, AnswerInItsMessage
  <2> QED
    BY <2>1, <2>2
<1>9. PendingOnlyWhileBusy'
  <2> SUFFICES ASSUME NEW t \in Tokens, messages'[t] # NoMessage, messages'[t].pending
               PROVE  (isBusy' /\ t = requestToken') \/ t \in cut'
    BY DEF PendingOnlyWhileBusy
  <2>1. CASE t = new
    BY <1>3, <2>1 DEF isBusy
  <2>2. CASE t # new
    BY <1>1, <1>3, <1>4, <2>2 DEF StoreInv, PendingOnlyWhileBusy
  <2> QED
    BY <2>1, <2>2
<1> QED
  BY <1>1, <1>5, <1>6, <1>7, <1>8, <1>9 DEF StoreInv

LEMMA StoreInvReset ==
  ASSUME StoreInv, Reset
  PROVE  StoreInv'
<1>1. /\ connections' \in Seq(Connection) /\ StreamsOK'
      /\ \A n \in DOMAIN connections' : ~ Live(n)'
      /\ cut' \subseteq Tokens
  BY CloseEffect DEF Reset, CloseSSE
<1> DEFINE new == requestToken + 1
<1>2. new \in 0 .. MaxTokens /\ requestToken \in Nat
  BY RunStoreAssumption DEF Reset, StoreInv, TypeOK
<1>3. /\ requestToken' = new /\ status' = "idle" /\ ~ Streaming' /\ isSubmitting' = FALSE
      /\ events' = << >> /\ lastSequence' = 0 /\ accumulatedDelta' = << >>
      /\ createdRun' = NoRun /\ currentRun' = NoRun /\ errorMessage' = {}
      /\ messages' = [t \in Tokens |-> NoMessage]
      /\ pendingMessage' = 0
      /\ UNCHANGED <<inFlight, onPage, bounds>>
  BY DEF Reset, CloseSSE, ClearTimeline, Streaming
<1>4. new \notin requests /\ requests \subseteq 1 .. new /\ snapshots \subseteq 1 .. new
  BY <1>2 DEF StoreInv, TypeOK
<1> HIDE DEF new
<1>5. TypeOK'
  <2>1. isSubmitting' \in BOOLEAN /\ (isSubmitting <=> requestToken \in requests)'
    BY <1>3, <1>4 DEF inFlight
  <2>2. << >> \in Seq(Event) /\ 0 \in 0 .. Len(Script) + 1 /\ 0 \in 0 .. new
    BY <1>2, RunStoreAssumption, LenProperties
  <2>3. /\ onPage' \in BOOLEAN /\ drops' \in 0 .. MaxDrops /\ leaves' \in 0 .. MaxLeaves
        /\ requests' = requests /\ snapshots' = snapshots
    BY <1>3 DEF bounds, inFlight, StoreInv, TypeOK
  <2> QED
    BY <1>1, <1>2, <1>3, <1>4, <2>1, <2>2, <2>3 DEF TypeOK, Statuses
<1>6. WaitingOK' /\ NoRunOK' /\ RunOK' /\ EventsOK' /\ LiveOK' /\ LaterOK'
  BY <1>1, <1>3, <1>4 DEF WaitingOK, NoRunOK, RunOK, EventsOK, LiveOK, LaterOK, inFlight
<1>7. AnswerInItsMessage' /\ PendingOnlyWhileBusy'
  BY <1>3 DEF AnswerInItsMessage, PendingOnlyWhileBusy
<1> QED
  BY <1>1, <1>5, <1>6, <1>7 DEF StoreInv

(* What the answer to the current submission finds. *)
LEMMA WaitingFacts ==
  ASSUME StoreInv, NEW t \in requests, Current(t)
  PROVE  /\ t = requestToken /\ t \in Tokens /\ createdRun = NoRun /\ messages[t] = Placeholder
         /\ ~ Streaming /\ isSubmitting = TRUE
         /\ events = << >> /\ lastSequence = 0 /\ accumulatedDelta = << >>
         /\ \A n \in DOMAIN connections : ~ Live(n)
BY RunStoreAssumption DEF StoreInv, WaitingOK, NoRunOK, Current, TypeOK, Tokens

LEMMA StoreInvCreateFails ==
  ASSUME StoreInv, NEW t \in Tokens, CreateFails(t)
  PROVE  StoreInv'
<1> DEFINE failed == [pending |-> FALSE, content |-> << >>]
<1>1. /\ t \in requests /\ Current(t)
      /\ requests' = requests \ {t} /\ errorMessage' = {t} /\ isSubmitting' = FALSE
      /\ messages' = [messages EXCEPT ![t] = failed]
      /\ UNCHANGED <<requestToken, pendingMessage, accumulatedDelta, timeline, run, connection,
                     snapshots, onPage, cut, bounds>>
  BY DEF CreateFails
<1>2. /\ t = requestToken /\ createdRun = NoRun /\ ~ Streaming
      /\ \A n \in DOMAIN connections : ~ Live(n)
      /\ NoRunOK /\ EventsOK
  BY <1>1, WaitingFacts DEF StoreInv
<1>3. failed \in Message /\ failed.pending = FALSE /\ failed.content = << >>
  BY DEF Message
<1> HIDE DEF failed
<1>4. messages'[t] = failed /\ \A k \in Tokens \ {t} : messages'[k] = messages[k]
  BY <1>1 DEF StoreInv, TypeOK
<1>5. TypeOK'
  <2>1. isSubmitting' \in BOOLEAN /\ (isSubmitting <=> requestToken \in requests)'
    BY <1>1, <1>2
  <2>2. messages' \in [Tokens -> Message \cup {NoMessage}]
    BY <1>1, <1>3 DEF StoreInv, TypeOK
  <2>3. UNCHANGED <<connections, status, events, lastSequence, createdRun, currentRun, onPage, drops, leaves>>
    BY <1>1 DEF connection, timeline, run, bounds
  <2> QED
    BY <1>1, <2>1, <2>2, <2>3 DEF StoreInv, TypeOK
<1>6. StreamsOK' /\ WaitingOK' /\ NoRunOK' /\ RunOK' /\ EventsOK' /\ LiveOK'
  BY <1>1, <1>2 DEF StoreInv, StreamsOK, StreamOK, WaitingOK, NoRunOK, RunOK, EventsOK, LiveOK, Live,
                    Streaming, connection, timeline, run
<1>7. LaterOK'
  BY <1>1, <1>2, <1>4 DEF StoreInv, LaterOK, Tokens, TypeOK
<1>8. AnswerInItsMessage'
  <2> SUFFICES ASSUME NEW k \in Tokens, messages'[k] # NoMessage,
                      NEW e \in Range(messages'[k].content)
               PROVE  e.run = k
    BY DEF AnswerInItsMessage
  <2>1. CASE k = t
    BY <1>3, <1>4, <2>1 DEF Range
  <2>2. CASE k # t
    BY <1>4, <2>2 DEF StoreInv, AnswerInItsMessage
  <2> QED
    BY <2>1, <2>2
<1>9. PendingOnlyWhileBusy'
  <2> SUFFICES ASSUME NEW k \in Tokens, messages'[k] # NoMessage, messages'[k].pending
               PROVE  k \in cut
    BY <1>1 DEF PendingOnlyWhileBusy
  <2>1. k # t
    BY <1>3, <1>4
  <2> QED
    BY <1>2, <1>4, <2>1 DEF StoreInv, PendingOnlyWhileBusy
<1> QED
  BY <1>5, <1>6, <1>7, <1>8, <1>9 DEF StoreInv

LEMMA StoreInvCreateAnswered ==
  ASSUME StoreInv, NEW t \in Tokens, CreateAnswered(t)
  PROVE  StoreInv'
<1> DEFINE c == [run |-> t, state |-> "connecting", at |-> 0, last |-> "none"]
           old == Closed(connections)
<1>1. /\ t \in requests /\ Current(t)
      /\ requests' = requests \ {t} /\ createdRun' = t /\ isSubmitting' = FALSE
      /\ currentRun' = [run |-> t, status |-> "queued"]
      /\ pendingMessage' = t /\ accumulatedDelta' = << >>
      /\ connections' = Append(old, c) /\ cut' = cut \cup CutOff(connections)
      /\ status' = "connecting"
      /\ UNCHANGED <<requestToken, messages, timeline, errorMessage, snapshots, onPage, bounds>>
  BY DEF CreateAnswered, Connected, Connect
<1>2. /\ t = requestToken /\ messages[t] = Placeholder
      /\ events = << >> /\ lastSequence = 0 /\ t # NoRun
      /\ ~ Streaming
  <2>1. t # NoRun
    BY RunStoreAssumption DEF Tokens
  <2>2. /\ t = requestToken /\ messages[t] = Placeholder
        /\ events = << >> /\ lastSequence = 0 /\ ~ Streaming
    BY <1>1, WaitingFacts, Zenon
  <2> QED
    BY <2>1, <2>2
<1>3. /\ old \in Seq(Connection) /\ Len(old) = Len(connections)
      /\ DOMAIN old = DOMAIN connections
      /\ \A n \in DOMAIN connections :
           old[n] = [run |-> connections[n].run, state |-> "closed",
                     at |-> connections[n].at, last |-> connections[n].last]
  BY ClosedEffect DEF StoreInv, TypeOK
<1>4. Len(Script) \in Nat /\ 0 < Len(Script)
  BY RunStoreAssumption, LenProperties
<1>5. c \in Connection /\ StreamOK(c)
  BY <1>4 DEF Connection, StreamOK, TerminalEventTypes
<1>6. c.run = t /\ c.state = "connecting" /\ c.at = 0
  OBVIOUS
<1> HIDE DEF c, old
<1>7. /\ connections' \in Seq(Connection)
      /\ \A k \in DOMAIN connections' :
           \/ k \in DOMAIN connections /\ connections'[k] = old[k]
           \/ k = Len(connections) + 1 /\ connections'[k] = c
  BY <1>1, <1>3, <1>5, RangeAppend
<1>8. /\ Len(connections') = Len(connections) + 1
      /\ Len(connections') \in DOMAIN connections' /\ connections'[Len(connections')] = c
  BY <1>1, <1>3, <1>5, AppendProperties, LenProperties
<1>9. cut' \subseteq Tokens /\ cut \subseteq cut'
  BY <1>1, ConnectionType DEF CutOff, StoreInv, TypeOK
<1>10. TypeOK'
  <2>1. isSubmitting' \in BOOLEAN /\ (isSubmitting <=> requestToken \in requests)'
    BY <1>1, <1>2
  <2>2. currentRun' \in [run : Tokens, status : RunStatuses] /\ accumulatedDelta' \in Seq(Event)
    BY <1>1 DEF RunStatuses
  <2>3. UNCHANGED <<events, lastSequence, onPage, drops, leaves>>
    BY <1>1 DEF timeline, bounds
  <2>4. pendingMessage' \in 0 .. requestToken' /\ status' \in Statuses
    BY <1>1, <1>2 DEF Tokens, Statuses, StoreInv, TypeOK
  <2> QED
    BY <1>1, <1>7, <1>9, <2>1, <2>2, <2>3, <2>4 DEF StoreInv, TypeOK
<1>11. StreamsOK'
  BY <1>3, <1>5, <1>7 DEF StoreInv, StreamsOK, StreamOK
<1>12. WaitingOK' /\ NoRunOK' /\ RunOK' /\ EventsOK' /\ LaterOK' /\ AnswerInItsMessage'
  BY <1>1, <1>2 DEF StoreInv, WaitingOK, NoRunOK, RunOK, EventsOK, LaterOK, AnswerInItsMessage, timeline
<1>13. \A k \in DOMAIN connections' : Live(k)' => k = Len(connections') /\ connections'[k] = c
  BY <1>3, <1>7, <1>8 DEF Live
<1>14. LiveOK'
  <2>1. Live(Len(connections))' /\ Streaming'
    BY <1>1, <1>6, <1>8 DEF Live, Streaming
  <2>2. \E n \in DOMAIN connections' : Live(n)'
    BY <1>6, <1>8 DEF Live
  <2>3. messages'[createdRun'].pending
    BY <1>1, <1>2 DEF Placeholder
  <2> QED
    BY <1>1, <1>2, <1>6, <1>13, <2>1, <2>2, <2>3 DEF LiveOK, Newest, timeline
<1>15. PendingOnlyWhileBusy'
  BY <1>1, <1>2, <1>9 DEF StoreInv, PendingOnlyWhileBusy, isBusy, Streaming
<1> QED
  BY <1>10, <1>11, <1>12, <1>14, <1>15 DEF StoreInv

------------------------------------------------------------------------------
(* Events. *)

(* The script ends with run.completed and is not terminal before.              *)
LEMMA ScriptFacts ==
  /\ Len(Script) \in Nat
  /\ \A i \in 1 .. Len(Script) :
       /\ Script[i] \in Range(Script)
       /\ i = Len(Script) => Script[i] = "run.completed"
       /\ i < Len(Script) => Script[i] \in {"run.started", "message.delta"}
<1>1. Len(Script) \in Nat /\ DOMAIN Script = 1 .. Len(Script)
  BY RunStoreAssumption, LenProperties
<1>2. \A i \in 1 .. Len(Script) : Script[i] \in Range(Script)
  BY <1>1 DEF Range
<1>3. Script[Len(Script)] = "run.completed"
  BY RunStoreAssumption DEF Last
<1>4. \A i \in 1 .. Len(Script) : i < Len(Script) => Script[i] \in {"run.started", "message.delta"}
  BY <1>1, RunStoreAssumption
<1> QED
  BY <1>1, <1>2, <1>3, <1>4

(* A stream within its run stays within it.                                    *)
LEMMA FollowEffect ==
  ASSUME NEW c \in Connection, StreamOK(c), NEW type \in MayFollow(c),
         NEW state \in {"connecting", "open", "closed"}
  PROVE  /\ type \in Range(Script) \cup TerminalEventTypes
         /\ type \in {"run.started", "message.delta", "run.completed", "run.failed"}
         /\ c.at + 1 \in 1 .. Len(Script) + 1
         /\ [run |-> c.run, state |-> state, at |-> c.at + 1, last |-> type] \in Connection
         /\ StreamOK([run |-> c.run, state |-> state, at |-> c.at + 1, last |-> type])
<1> DEFINE new == [run |-> c.run, state |-> state, at |-> c.at + 1, last |-> type]
<1>1. /\ c.run \in Tokens /\ c.at \in 0 .. Len(Script) + 1
      /\ Len(Script) \in Nat
  BY ScriptFacts DEF Connection
<1>2. c.last \notin {"run.failed", "lost"}
  BY DEF MayFollow
<1>3. CASE type = "run.failed"
  <2>1. c.at <= Len(Script)
    BY <1>1, <1>2 DEF StreamOK
  <2> QED
    BY <1>1, <1>3, <2>1 DEF StreamOK, Connection, TerminalEventTypes
<1>4. CASE type # "run.failed"
  <2>1. c.last \notin TerminalEventTypes
    BY <1>2, <1>4 DEF MayFollow, TerminalEventTypes
  <2>2. type = Script[c.at + 1]
    BY <1>4, <2>1 DEF MayFollow, TerminalEventTypes
  <2>3. c.at < Len(Script)
    BY <2>1 DEF StreamOK, TerminalEventTypes
  <2>4. c.at + 1 \in 1 .. Len(Script)
    BY <1>1, <2>3
  <2>5. /\ type \in Range(Script)
        /\ c.at + 1 = Len(Script) => type = "run.completed"
        /\ c.at + 1 < Len(Script) => type \in {"run.started", "message.delta"}
    BY <2>2, <2>4, ScriptFacts
  <2>6. c.at + 1 = Len(Script) \/ c.at + 1 < Len(Script)
    BY <1>1, <2>4
  <2>7. new \in Connection
    BY <1>1, <2>4, <2>5 DEF Connection
  <2>8. StreamOK(new)
    BY <2>5, <2>6 DEF StreamOK, TerminalEventTypes
  <2> QED
    BY <1>1, <2>4, <2>5, <2>6, <2>7, <2>8
<1> QED
  BY <1>3, <1>4

(* What replacing the message of the created run leaves.                       *)
LEMMA ReplaceEffect ==
  ASSUME StoreInv, createdRun \in Tokens, pendingMessage = createdRun,
         NEW content \in Message, Replace(content)
  PROVE  /\ messages' \in [Tokens -> Message \cup {NoMessage}]
         /\ \A t \in Tokens : t # createdRun => messages'[t] = messages[t]
         /\ messages[createdRun] = NoMessage => messages'[createdRun] = NoMessage
         /\ messages[createdRun] # NoMessage => messages'[createdRun] = content
<1>1. messages \in [Tokens -> Message \cup {NoMessage}] /\ createdRun # 0
  BY DEF StoreInv, TypeOK, Tokens
<1>2. messages' = IF messages[createdRun] # NoMessage
                    THEN [messages EXCEPT ![createdRun] = content] ELSE messages
  BY <1>1 DEF Replace
<1> QED
  BY <1>1, <1>2

LEMMA RunStatusType ==
  ASSUME StoreInv, NEW new \in RunStatuses, SetRunStatus(new)
  PROVE  currentRun' \in [run : Tokens, status : RunStatuses] \cup {NoRun}
BY DEF StoreInv, TypeOK, SetRunStatus

(* An event of the created run, once the timeline has it.                      *)
LEMMA DispatchEffect ==
  ASSUME StoreInv, createdRun \in Tokens, pendingMessage = createdRun, createdRun = requestToken,
         messages[createdRun] # NoMessage => messages[createdRun].pending = TRUE,
         NEW e \in Event, e.run = createdRun, Dispatch(e)
  PROVE  /\ messages' \in [Tokens -> Message \cup {NoMessage}]
         /\ \A t \in Tokens : t # createdRun => messages'[t] = messages[t]
         /\ messages[createdRun] = NoMessage => messages'[createdRun] = NoMessage
         /\ messages'[createdRun] # NoMessage =>
              /\ messages'[createdRun].pending = (e.type \notin TerminalEventTypes)
              /\ \A x \in Range(messages'[createdRun].content) : x.run = createdRun
         /\ accumulatedDelta' \in Seq(Event)
         /\ \A k \in DOMAIN accumulatedDelta' : accumulatedDelta'[k].run = createdRun
         /\ pendingMessage' = pendingMessage
         /\ currentRun' \in [run : Tokens, status : RunStatuses] \cup {NoRun}
         /\ errorMessage' \subseteq Tokens /\ snapshots' \subseteq 1 .. requestToken
<1>1. /\ messages \in [Tokens -> Message \cup {NoMessage}] /\ accumulatedDelta \in Seq(Event)
      /\ currentRun \in [run : Tokens, status : RunStatuses] \cup {NoRun}
      /\ errorMessage \subseteq Tokens /\ snapshots \subseteq 1 .. requestToken
      /\ \A k \in DOMAIN accumulatedDelta : accumulatedDelta[k].run = createdRun
      /\ createdRun # 0 /\ createdRun \in 1 .. requestToken
  BY DEF StoreInv, TypeOK, EventsOK, Tokens
<1>2. messages[createdRun] # NoMessage =>
        \A x \in Range(messages[createdRun].content) : x.run = createdRun
  BY DEF StoreInv, AnswerInItsMessage
<1> DEFINE final == [pending |-> FALSE, content |-> <<e>>]
<1>3. final \in Message /\ final.pending = FALSE /\ \A x \in Range(final.content) : x.run = createdRun
  BY DEF Message, Range
<1> HIDE DEF final
<1>4. ASSUME Complete(e), e.type \in TerminalEventTypes
      PROVE  /\ messages' \in [Tokens -> Message \cup {NoMessage}]
             /\ \A t \in Tokens : t # createdRun => messages'[t] = messages[t]
             /\ messages[createdRun] = NoMessage => messages'[createdRun] = NoMessage
             /\ messages'[createdRun] # NoMessage =>
                  /\ messages'[createdRun].pending = (e.type \notin TerminalEventTypes)
                  /\ \A x \in Range(messages'[createdRun].content) : x.run = createdRun
  <2>1. Replace(final)
    BY <1>4 DEF Complete, final
  <2>2. /\ messages' \in [Tokens -> Message \cup {NoMessage}]
        /\ \A t \in Tokens : t # createdRun => messages'[t] = messages[t]
        /\ messages[createdRun] = NoMessage => messages'[createdRun] = NoMessage
        /\ messages[createdRun] # NoMessage => messages'[createdRun] = final
    BY <1>3, <2>1, ReplaceEffect
  <2> QED
    BY <1>3, <1>4, <2>2
<1>5. CASE e.type = "run.started"
  <2>1. SetRunStatus("running") /\ UNCHANGED <<answer, errorMessage, snapshots>>
    BY <1>5 DEF Dispatch
  <2>2. currentRun' \in [run : Tokens, status : RunStatuses] \cup {NoRun}
    BY <2>1, RunStatusType DEF RunStatuses
  <2> QED
    BY <1>1, <1>2, <1>5, <2>1, <2>2 DEF answer, TerminalEventTypes
<1>6. CASE e.type = "run.completed"
  <2>1. /\ Complete(e) /\ SetRunStatus("succeeded") /\ snapshots' = snapshots \cup {createdRun}
        /\ UNCHANGED <<pendingMessage, accumulatedDelta, errorMessage>>
    BY <1>6 DEF Dispatch
  <2>2. currentRun' \in [run : Tokens, status : RunStatuses] \cup {NoRun}
    BY <2>1, RunStatusType DEF RunStatuses
  <2>3. e.type \in TerminalEventTypes
    BY <1>6 DEF TerminalEventTypes
  <2> QED
    BY <1>1, <1>4, <2>1, <2>2, <2>3
<1>7. CASE e.type = "run.failed"
  <2>1. /\ Complete(e) /\ SetRunStatus("failed") /\ errorMessage' = {e.run}
        /\ UNCHANGED <<pendingMessage, accumulatedDelta, snapshots>>
    BY <1>7 DEF Dispatch
  <2>2. currentRun' \in [run : Tokens, status : RunStatuses] \cup {NoRun}
    BY <2>1, RunStatusType DEF RunStatuses
  <2>3. e.type \in TerminalEventTypes
    BY <1>7 DEF TerminalEventTypes
  <2> QED
    BY <1>1, <1>4, <2>1, <2>2, <2>3
<1>8. CASE e.type = "message.delta"
  <2> DEFINE said == [pending |-> messages[createdRun] # NoMessage /\ messages[createdRun].pending,
                      content |-> accumulatedDelta']
  <2>1. /\ accumulatedDelta' = Append(accumulatedDelta, e) /\ Replace(said)
        /\ UNCHANGED <<pendingMessage, currentRun, errorMessage, snapshots>>
    BY <1>1, <1>8 DEF Dispatch
  <2>2. /\ accumulatedDelta' \in Seq(Event)
        /\ \A k \in DOMAIN accumulatedDelta' : accumulatedDelta'[k].run = createdRun
    BY <1>1, <2>1, RangeAppend
  <2>3. (messages[createdRun] # NoMessage /\ messages[createdRun].pending) \in BOOLEAN
    OBVIOUS
  <2>4. said \in Message /\ said.content = accumulatedDelta'
    BY <2>2, <2>3 DEF Message
  <2>5. messages[createdRun] # NoMessage => said.pending = TRUE
    OBVIOUS
  <2> HIDE DEF said
  <2>6. /\ messages' \in [Tokens -> Message \cup {NoMessage}]
        /\ \A t \in Tokens : t # createdRun => messages'[t] = messages[t]
        /\ messages[createdRun] = NoMessage => messages'[createdRun] = NoMessage
        /\ messages[createdRun] # NoMessage => messages'[createdRun] = said
    BY <2>1, <2>4, ReplaceEffect
  <2>7. \A x \in Range(said.content) : x.run = createdRun
    BY <2>2, <2>4 DEF Range
  <2>8. (e.type \notin TerminalEventTypes) = TRUE
    BY <1>8 DEF TerminalEventTypes
  <2>9. messages'[createdRun] # NoMessage =>
          /\ messages'[createdRun].pending = (e.type \notin TerminalEventTypes)
          /\ \A x \in Range(messages'[createdRun].content) : x.run = createdRun
    BY <2>5, <2>6, <2>7, <2>8
  <2> QED
    BY <1>1, <2>1, <2>2, <2>6, <2>9
<1> QED
  BY <1>5, <1>6, <1>7, <1>8 DEF Dispatch

(* The listener of a connection whose events are delivered: the connection is  *)
(* the live one, so the event is behind all of the timeline and is shown.      *)
LEMMA ReceiveEffect ==
  ASSUME StoreInv, NEW n \in DOMAIN connections, Receive(n)
  PROVE  \E type \in MayFollow(connections[n]) :
           LET e == [run |-> createdRun, sequence |-> connections[n].at + 1, type |-> type] IN
             /\ e \in Event
             /\ events' = Append(events, e) /\ lastSequence' = e.sequence /\ Dispatch(e)
             /\ IF type \in TerminalEventTypes
                  THEN connections' = Closed(Got(n, type)) /\ status' = "closed"
                  ELSE connections' = Got(n, type) /\ UNCHANGED status
<1>1. n = Len(connections) /\ connections[n].run = createdRun /\ lastSequence <= connections[n].at
      /\ createdRun \in Tokens
  BY LiveFacts DEF Live, Receive
<1>2. connections[n] \in Connection /\ StreamOK(connections[n])
  BY ConnectionType DEF StoreInv, StreamsOK
<1>3. PICK type \in MayFollow(connections[n]) :
        LET e == [run |-> connections[n].run, sequence |-> connections[n].at + 1, type |-> type] IN
        /\ IF Newest(n) THEN HandleEvent(e)
           ELSE UNCHANGED <<answer, timeline, currentRun, errorMessage, snapshots>>
        /\ IF Newest(n) /\ type \in TerminalEventTypes
             THEN connections' = Closed(Got(n, type)) /\ status' = "closed"
             ELSE connections' = Got(n, type) /\ UNCHANGED status
  BY Zenon DEF Receive
<1> DEFINE e == [run |-> createdRun, sequence |-> connections[n].at + 1, type |-> type]
<1>4. /\ HandleEvent(e)
      /\ IF type \in TerminalEventTypes
           THEN connections' = Closed(Got(n, type)) /\ status' = "closed"
           ELSE connections' = Got(n, type) /\ UNCHANGED status
  BY <1>1, <1>3, Zenon DEF Newest
<1>5. e \in Event /\ e.sequence = connections[n].at + 1
  BY <1>1, <1>2, FollowEffect DEF Event
<1>6. lastSequence \in Nat /\ connections[n].at \in Nat /\ lastSequence < e.sequence
  BY <1>1, <1>5, ConnectionType, ScriptFacts DEF StoreInv, TypeOK
<1>7. e \notin Range(events)
  <2>1. \A k \in DOMAIN events : events[k].sequence <= lastSequence
    BY DEF StoreInv, EventsOK
  <2>2. \A k \in DOMAIN events : events[k] \in Event
    BY ElementOfSeq, LenProperties DEF StoreInv, TypeOK
  <2>3. \A k \in DOMAIN events : events[k].sequence \in Nat
    BY <2>2, ScriptFacts DEF Event
  <2> QED
    BY <1>5, <1>6, <2>1, <2>3 DEF Range
<1>8. ~ (e.sequence <= lastSequence)
  BY <1>5, <1>6
<1>9. events' = Append(events, e) /\ lastSequence' = e.sequence /\ Dispatch(e)
  BY <1>4, <1>5, <1>7, <1>8, Zenon DEF HandleEvent
<1> QED
  BY <1>4, <1>5, <1>9, Zenon

LEMMA GotEffect ==
  ASSUME StoreInv, NEW n \in DOMAIN connections, NEW type \in MayFollow(connections[n])
  PROVE  LET c == [run |-> connections[n].run, state |-> connections[n].state,
                   at |-> connections[n].at + 1, last |-> type] IN
         /\ Got(n, type) \in Seq(Connection) /\ Len(Got(n, type)) = Len(connections)
         /\ DOMAIN Got(n, type) = DOMAIN connections /\ c \in Connection /\ StreamOK(c)
         /\ \A k \in DOMAIN connections : Got(n, type)[k] = IF k = n THEN c ELSE connections[k]
<1> DEFINE c == [run |-> connections[n].run, state |-> connections[n].state,
                 at |-> connections[n].at + 1, last |-> type]
<1>1. connections[n] \in Connection /\ StreamOK(connections[n])
      /\ connections[n].state \in {"connecting", "open", "closed"}
  BY ConnectionType DEF StoreInv, StreamsOK
<1>2. c \in Connection /\ StreamOK(c)
  BY <1>1, FollowEffect
<1>3. Got(n, type) = [connections EXCEPT ![n] = c]
  BY Zenon DEF Got
<1>4. connections \in Seq(Connection)
  BY DEF StoreInv, TypeOK
<1> HIDE DEF c
<1>5. /\ Got(n, type) \in Seq(Connection) /\ Len(Got(n, type)) = Len(connections)
      /\ DOMAIN Got(n, type) = DOMAIN connections
      /\ \A k \in DOMAIN connections : Got(n, type)[k] = IF k = n THEN c ELSE connections[k]
  BY <1>2, <1>3, <1>4, OneConnection
<1> QED
  BY <1>2, <1>5 DEF c

LEMMA StoreInvReceive ==
  ASSUME StoreInv, NEW n \in DOMAIN connections, Receive(n)
  PROVE  StoreInv'
<1>1. PICK type \in MayFollow(connections[n]) :
        LET e == [run |-> createdRun, sequence |-> connections[n].at + 1, type |-> type] IN
          /\ e \in Event
          /\ events' = Append(events, e) /\ lastSequence' = e.sequence /\ Dispatch(e)
          /\ IF type \in TerminalEventTypes
               THEN connections' = Closed(Got(n, type)) /\ status' = "closed"
               ELSE connections' = Got(n, type) /\ UNCHANGED status
  BY ReceiveEffect, Zenon
<1> DEFINE e == [run |-> createdRun, sequence |-> connections[n].at + 1, type |-> type]
           c == [run |-> connections[n].run, state |-> connections[n].state,
                 at |-> connections[n].at + 1, last |-> type]
           ended == type \in TerminalEventTypes
<1>2. /\ e \in Event /\ e.run = createdRun /\ e.sequence = connections[n].at + 1 /\ e.type = type
      /\ events' = Append(events, e) /\ lastSequence' = e.sequence /\ Dispatch(e)
  BY <1>1
<1>3. /\ ended => connections' = Closed(Got(n, type)) /\ status' = "closed"
      /\ ~ ended => connections' = Got(n, type) /\ UNCHANGED status
  BY <1>1
<1>4. /\ n = Len(connections) /\ Streaming
      /\ connections[n].run = createdRun /\ lastSequence <= connections[n].at
      /\ createdRun # NoRun /\ createdRun \in Tokens /\ createdRun = requestToken
      /\ pendingMessage = createdRun
      /\ requestToken \notin requests
  BY LiveFacts DEF Live, Receive
<1>5. messages[createdRun] # NoMessage => messages[createdRun].pending = TRUE
  <2>1. messages[createdRun] # NoMessage => messages[createdRun].pending
    BY LiveFacts DEF Live, Receive
  <2>2. messages[createdRun] # NoMessage => messages[createdRun].pending \in BOOLEAN
    BY <1>4 DEF StoreInv, TypeOK, Message
  <2> QED
    BY <2>1, <2>2
<1>6. UNCHANGED <<requestToken, isSubmitting, createdRun, requests, onPage, cut, bounds>>
  BY DEF Receive
<1> HIDE DEF e
<1>7. /\ messages' \in [Tokens -> Message \cup {NoMessage}]
      /\ \A t \in Tokens : t # createdRun => messages'[t] = messages[t]
      /\ messages[createdRun] = NoMessage => messages'[createdRun] = NoMessage
      /\ messages'[createdRun] # NoMessage =>
           /\ messages'[createdRun].pending = (type \notin TerminalEventTypes)
           /\ \A x \in Range(messages'[createdRun].content) : x.run = createdRun
      /\ accumulatedDelta' \in Seq(Event)
      /\ \A k \in DOMAIN accumulatedDelta' : accumulatedDelta'[k].run = createdRun
      /\ pendingMessage' = pendingMessage
      /\ currentRun' \in [run : Tokens, status : RunStatuses] \cup {NoRun}
      /\ errorMessage' \subseteq Tokens /\ snapshots' \subseteq 1 .. requestToken
  BY <1>2, <1>4, <1>5, DispatchEffect
<1>8. /\ Got(n, type) \in Seq(Connection) /\ Len(Got(n, type)) = Len(connections)
      /\ DOMAIN Got(n, type) = DOMAIN connections /\ StreamOK(c)
      /\ \A k \in DOMAIN connections : Got(n, type)[k] = IF k = n THEN c ELSE connections[k]
  BY GotEffect
<1>9. c.run = createdRun /\ c.at = e.sequence /\ c.state = "open"
  BY <1>2, <1>4 DEF Receive
<1>10. \A k \in DOMAIN connections : k # n => connections[k].state = "closed"
  BY <1>4 DEF StoreInv, LiveOK, Live, Newest
<1> HIDE DEF c
<1>11. /\ connections' \in Seq(Connection) /\ Len(connections') = Len(connections)
       /\ DOMAIN connections' = DOMAIN connections
       /\ StreamsOK'
       /\ \A k \in DOMAIN connections' : Live(k)' => ~ ended /\ k = n
       /\ ~ ended => connections'[n] = c
  <2>1. CASE ended
    <3>1. /\ connections' \in Seq(Connection) /\ Len(connections') = Len(connections)
          /\ DOMAIN connections' = DOMAIN connections
          /\ \A k \in DOMAIN connections :
               connections'[k] = [run |-> Got(n, type)[k].run, state |-> "closed",
                                  at |-> Got(n, type)[k].at, last |-> Got(n, type)[k].last]
      BY <1>3, <1>8, <2>1, ClosedEffect
    <3>2. \A k \in DOMAIN connections : StreamOK(Got(n, type)[k])
      BY <1>8 DEF StoreInv, StreamsOK
    <3>3. StreamsOK'
      BY <3>1, <3>2 DEF StreamsOK, StreamOK
    <3> QED
      BY <2>1, <3>1, <3>3 DEF Live
  <2>2. CASE ~ ended
    <3>1. connections' = Got(n, type)
      BY <1>3, <2>2
    <3>2. StreamsOK'
      BY <1>8, <3>1 DEF StoreInv, StreamsOK
    <3> QED
      BY <1>8, <1>10, <2>2, <3>1, <3>2 DEF Live
  <2> QED
    BY <2>1, <2>2
<1>12. /\ lastSequence \in Nat /\ e.sequence \in Nat /\ lastSequence < e.sequence /\ events \in Seq(Event)
       /\ \A k \in DOMAIN events : events[k].sequence \in Nat
  <2>1. lastSequence \in Nat /\ events \in Seq(Event)
    BY ScriptFacts DEF StoreInv, TypeOK
  <2>2. \A x \in Event : x.sequence \in Nat
    BY ScriptFacts DEF Event
  <2>3. \A k \in DOMAIN events : events[k] \in Event
    BY <2>1, ElementOfSeq, LenProperties
  <2>4. e.sequence \in Nat /\ lastSequence < e.sequence
    BY <1>2, <1>4, <2>1, ConnectionType
  <2> QED
    BY <2>1, <2>2, <2>3, <2>4
<1>13. /\ events' \in Seq(Event)
       /\ \A k \in DOMAIN events' :
            \/ k \in DOMAIN events /\ events'[k] = events[k]
            \/ k = Len(events) + 1 /\ events'[k] = e
  BY <1>2, <1>12, RangeAppend
<1>14. TypeOK'
  <2>1. lastSequence' \in 0 .. Len(Script) + 1
    BY <1>2, ScriptFacts DEF Event
  <2>2. status' \in Statuses
    BY <1>3 DEF Statuses, StoreInv, TypeOK
  <2>3. /\ isSubmitting' \in BOOLEAN /\ (isSubmitting <=> requestToken \in requests)'
        /\ onPage' \in BOOLEAN
    BY <1>6 DEF StoreInv, TypeOK
  <2> QED
    BY <1>6, <1>7, <1>11, <1>13, <2>1, <2>2, <2>3 DEF StoreInv, TypeOK, bounds
<1>15. WaitingOK' /\ NoRunOK' /\ RunOK'
  BY <1>4, <1>6, <1>7 DEF WaitingOK, NoRunOK, RunOK
<1>16. EventsOK'
  <2>1. \A k \in DOMAIN events' : events'[k].run = createdRun /\ events'[k].sequence <= e.sequence
    <3> TAKE k \in DOMAIN events'
    <3>1. CASE k \in DOMAIN events /\ events'[k] = events[k]
      <4>1. events[k].run = createdRun /\ events[k].sequence <= lastSequence
        BY <3>1 DEF StoreInv, EventsOK
      <4> QED
        BY <1>12, <3>1, <4>1
    <3>2. CASE events'[k] = e
      BY <1>2, <1>12, <3>2
    <3> QED
      BY <1>13, <3>1, <3>2
  <2>2. \A k, l \in DOMAIN events' : k < l => events'[k].sequence < events'[l].sequence
    <3> SUFFICES ASSUME NEW k \in DOMAIN events', NEW l \in DOMAIN events', k < l
                 PROVE  events'[k].sequence < events'[l].sequence
      OBVIOUS
    <3>1. DOMAIN events = 1 .. Len(events) /\ Len(events) \in Nat
      BY <1>12, LenProperties
    <3>2. k \in DOMAIN events /\ events'[k] = events[k]
      BY <1>13, <3>1
    <3>3. CASE l \in DOMAIN events /\ events'[l] = events[l]
      BY <3>2, <3>3 DEF StoreInv, EventsOK
    <3>4. CASE events'[l] = e
      <4>1. events[k].sequence <= lastSequence
        BY <3>2 DEF StoreInv, EventsOK
      <4> QED
        BY <1>2, <1>12, <3>2, <3>4, <4>1
    <3> QED
      BY <1>13, <3>3, <3>4
  <2> QED
    BY <1>2, <1>6, <1>7, <2>1, <2>2 DEF EventsOK
<1>17. LiveOK'
  <2>1. CASE ended
    <3>1. ~ Streaming'
      BY <1>3, <2>1 DEF Streaming
    <3> QED
      BY <1>11, <2>1, <3>1 DEF LiveOK
  <2>2. CASE ~ ended
    <3>1. Streaming' /\ n \in DOMAIN connections' /\ Live(n)'
      BY <1>3, <1>4, <1>9, <1>11, <2>2 DEF Streaming, Live
    <3>2. messages'[createdRun] # NoMessage => messages'[createdRun].pending = TRUE
      BY <1>7, <2>2
    <3> QED
      BY <1>2, <1>4, <1>6, <1>9, <1>11, <1>12, <2>2, <3>1, <3>2 DEF LiveOK, Newest
  <2> QED
    BY <2>1, <2>2
<1>18. LaterOK'
  BY <1>4, <1>6, <1>7, RunStoreAssumption DEF StoreInv, LaterOK, Tokens
<1>19. AnswerInItsMessage'
  BY <1>7 DEF StoreInv, AnswerInItsMessage
<1>20. PendingOnlyWhileBusy'
  <2> SUFFICES ASSUME NEW t \in Tokens, messages'[t] # NoMessage, messages'[t].pending
               PROVE  (isBusy' /\ t = requestToken') \/ t \in cut'
    BY DEF PendingOnlyWhileBusy
  <2>1. CASE t # createdRun
    BY <1>4, <1>6, <1>7, <2>1 DEF StoreInv, PendingOnlyWhileBusy
  <2>2. CASE t = createdRun
    <3>1. ~ ended
      BY <1>7, <2>2
    <3>2. Streaming'
      BY <1>3, <1>4, <3>1 DEF Streaming
    <3> QED
      BY <1>4, <1>6, <2>2, <3>2 DEF isBusy
  <2> QED
    BY <2>1, <2>2
<1> QED
  BY <1>11, <1>14, <1>15, <1>16, <1>17, <1>18, <1>19, <1>20 DEF StoreInv

(* The catch of the listener: the connection is further, the timeline is not.   *)
LEMMA StoreInvIgnore ==
  ASSUME StoreInv, NEW n \in DOMAIN connections, Ignore(n)
  PROVE  StoreInv'
<1>1. /\ Live(n) /\ connections[n].state = "open" /\ errorMessage' = {connections[n].run}
      /\ UNCHANGED <<requestToken, isSubmitting, answer, timeline, run, status, inFlight,
                     onPage, cut, bounds>>
  BY DEF Ignore, Live
<1>2. PICK type \in MayFollow(connections[n]) : connections' = Got(n, type)
  BY Zenon DEF Ignore
<1> DEFINE c == [run |-> connections[n].run, state |-> connections[n].state,
                 at |-> connections[n].at + 1, last |-> type]
<1>3. c \in Connection /\ StreamOK(c)
  BY GotEffect
<1>4. connections' = [connections EXCEPT ![n] = c]
  BY <1>2, Zenon DEF Got
<1>5. connections[n].at \in Nat /\ connections[n].run \in Tokens
  BY ConnectionType, ScriptFacts
<1>6. c.run = connections[n].run /\ c.state # "closed" /\ connections[n].at <= c.at
  BY <1>1, <1>5
<1>7. status' \in Statuses /\ Streaming' /\ errorMessage' \subseteq Tokens /\ drops' \in 0 .. MaxDrops
  BY <1>1, <1>5, LiveFacts DEF StoreInv, TypeOK, Streaming, bounds
<1> HIDE DEF c
<1> QED
  BY <1>1, <1>3, <1>4, <1>6, <1>7, StoreInvLive DEF bounds

------------------------------------------------------------------------------
(* The steps together. *)

LEMMA StoreInvNext == StoreInv /\ [Next]_vars => StoreInv'
<1> SUFFICES ASSUME StoreInv, [Next]_vars PROVE StoreInv'
  OBVIOUS
<1>1. CASE Submit
  BY <1>1, StoreInvSubmit
<1>2. CASE Reset
  BY <1>2, StoreInvReset
<1>3. CASE Leave
  BY <1>3, StoreInvLeave
<1>4. CASE Enter
  <2>1. TypeOK'
    BY <1>4 DEF Enter, StoreInv, TypeOK, answer, timeline, run, connection, inFlight, bounds
  <2> QED
    BY <1>4, <2>1, StoreInvQuiet DEF Enter, run, inFlight
<1>5. ASSUME NEW t \in Tokens, Answer(t) \/ RefreshAnswered(t) \/ RefreshFails(t)
      PROVE  StoreInv'
  BY <1>5, StoreInvCreateAnswered, StoreInvCreateFails, StoreInvAnswers DEF Answer
<1>6. ASSUME NEW n \in DOMAIN connections, Stream(n) \/ Drop(n) \/ LoseRun(n)
      PROVE  StoreInv'
  BY <1>6, StoreInvOpen, StoreInvLose, StoreInvRefuse, StoreInvReceive, StoreInvIgnore DEF Stream
<1>7. CASE UNCHANGED vars
  <2>1. TypeOK'
    BY <1>7 DEF vars, StoreInv, TypeOK, answer, timeline, run, connection, inFlight, bounds
  <2> QED
    BY <1>7, <2>1, StoreInvQuiet DEF vars, run, inFlight
<1> QED
  BY <1>1, <1>2, <1>3, <1>4, <1>5, <1>6, <1>7 DEF Next

(* The invariant of the store: one connection at most is not closed, it is the *)
(* newest one, streams the run of the last submission and is behind all events *)
(* of the timeline; what is pending belongs to it, or to a request without an  *)
(* answer, or was cut off.                                                     *)
THEOREM StoreInvariant == Spec => []StoreInv
<1> QED
  BY StoreInvInit, StoreInvNext, PTL DEF Spec

(* Every variable of the store and of its event source has its type.           *)
THEOREM TypeCorrect == Spec => []TypeOK
<1>1. StoreInv => TypeOK
  BY DEF StoreInv
<1> QED
  BY <1>1, StoreInvariant, PTL

(* However many runs have been submitted, dropped, reset or left, the timeline *)
(* of handleEvent holds events of the created run only, in their order, and    *)
(* only the newest EventSource can still deliver, the events of that run.      *)
THEOREM TimelineIsOneRun == Spec => []TimelineOfCreatedRun
<1>1. StoreInv => TimelineOfCreatedRun
  BY DEF StoreInv, EventsOK, LiveOK, TimelineOfCreatedRun
<1> QED
  BY <1>1, StoreInvariant, PTL

(* completeAssistantMessage and the delta handler never write the text of a    *)
(* run into the message of another submission.                                 *)
THEOREM AnswersStayApart == Spec => []AnswerInItsMessage
<1>1. StoreInv => AnswerInItsMessage
  BY DEF StoreInv
<1> QED
  BY <1>1, StoreInvariant, PTL

(* A message is left pending only by a stream that close(), or a refusal of    *)
(* the server, ended early.                                                    *)
THEOREM PendingIsAttended == Spec => []PendingOnlyWhileBusy
<1>1. StoreInv => PendingOnlyWhileBusy
  BY DEF StoreInv
<1> QED
  BY <1>1, StoreInvariant, PTL

(* What one step may do to a completed message.                                *)
Stays(t) ==
  messages[t] # NoMessage /\ ~ messages[t].pending /\ messages'[t] # NoMessage
    => messages'[t] = messages[t]

LEMMA CompletedStays ==
  ASSUME StoreInv, Next, NEW t \in Tokens
  PROVE  Stays(t)
<1>1. CASE Submit
  <2>1. requestToken + 1 \in Tokens /\ requestToken + 1 > requestToken
    BY <1>1, RunStoreAssumption DEF Submit, StoreInv, TypeOK, Tokens
  <2>2. messages[requestToken + 1] = NoMessage
    BY <2>1 DEF StoreInv, LaterOK
  <2>3. messages' = [messages EXCEPT ![requestToken + 1] = [pending |-> TRUE, content |-> << >>]]
    BY <1>1 DEF Submit
  <2> QED
    BY <2>2, <2>3 DEF StoreInv, TypeOK, Stays
<1>2. CASE Reset
  BY <1>2 DEF Reset, Stays
<1>3. CASE Leave \/ Enter
  BY <1>3 DEF Leave, Enter, answer, Stays
<1>4. ASSUME NEW k \in Tokens, RefreshAnswered(k) \/ RefreshFails(k) \/ CreateOvertaken(k) \/ CreateAnswered(k)
      PROVE  Stays(t)
  BY <1>4 DEF RefreshAnswered, RefreshFails, CreateOvertaken, CreateAnswered, Connected, answer, Stays
<1>5. ASSUME NEW k \in Tokens, CreateFails(k)
      PROVE  Stays(t)
  <2>1. k \in requests /\ Current(k)
    BY <1>5 DEF CreateFails
  <2>2. messages[k] = Placeholder
    BY <2>1, WaitingFacts, Zenon
  <2>3. messages[k].pending
    BY <2>2 DEF Placeholder
  <2>4. t # k => messages'[t] = messages[t]
    BY <1>5 DEF CreateFails, StoreInv, TypeOK
  <2> QED
    BY <2>3, <2>4 DEF Stays
<1>6. ASSUME NEW n \in DOMAIN connections, Open(n) \/ Drop(n) \/ Refuse(n) \/ Ignore(n) \/ LoseRun(n)
      PROVE  Stays(t)
  BY <1>6 DEF Open, Drop, Refuse, Ignore, LoseRun, answer, Stays
<1>7. ASSUME NEW n \in DOMAIN connections, Receive(n)
      PROVE  Stays(t)
  <2>1. /\ createdRun \in Tokens /\ createdRun = requestToken /\ pendingMessage = createdRun
        /\ messages[createdRun] # NoMessage => messages[createdRun].pending
    BY <1>7, LiveFacts DEF Live, Receive
  <2>2. messages[createdRun] # NoMessage => messages[createdRun].pending = TRUE
    BY <2>1 DEF StoreInv, TypeOK, Message
  <2>3. PICK e \in Event : e.run = createdRun /\ Dispatch(e)
    <3>1. PICK type \in MayFollow(connections[n]) :
            LET e == [run |-> createdRun, sequence |-> connections[n].at + 1, type |-> type] IN
              /\ e \in Event
              /\ events' = Append(events, e) /\ lastSequence' = e.sequence /\ Dispatch(e)
              /\ IF type \in TerminalEventTypes
                   THEN connections' = Closed(Got(n, type)) /\ status' = "closed"
                   ELSE connections' = Got(n, type) /\ UNCHANGED status
      BY <1>7, ReceiveEffect, Zenon
    <3> QED
      BY <3>1
  <2>4. t # createdRun => messages'[t] = messages[t]
    BY <2>1, <2>2, <2>3, DispatchEffect
  <2> QED
    BY <2>1, <2>4 DEF Stays
<1> QED
  BY <1>1, <1>2, <1>3, <1>4, <1>5, <1>6, <1>7 DEF Next, Answer, Stream

(* No late answer, redelivered event or new submission rewrites an assistant   *)
(* message that was completed; only reset removes it.                          *)
THEOREM CompletedMessagesAreFinal == Spec => CompletedMessagesStay
<1>1. ASSUME StoreInv, [Next]_vars
      PROVE  [\A t \in Tokens : Stays(t)]_vars
  BY <1>1, CompletedStays
<1>2. (\A t \in Tokens : Stays(t)) =>
        \A t \in Tokens :
          /\ messages[t] # NoMessage /\ ~ messages[t].pending
          /\ messages'[t] # NoMessage
          => messages'[t] = messages[t]
  BY DEF Stays
<1> QED
  BY <1>1, <1>2, StoreInvariant, PTL DEF Spec, CompletedMessagesStay
==============================================================================
