------------------------------- MODULE RunStore -------------------------------
(***************************************************************************)
(* The front end's run store with its AgentEventSource: submissions,       *)
(* create requests and final snapshots whose answers arrive late, events   *)
(* of a stream that breaks and is resumed by the browser, a page that is   *)
(* left and entered again, and reset.  Each action is one callback: the    *)
(* code between two awaits runs undisturbed.                               *)
(*                                                                         *)
(* The run that submission t creates is called t, as is the assistant      *)
(* message that is added for it.  A message's content is the sequence of   *)
(* events it was made from: none (the placeholder, or the error text of    *)
(* a failed request), deltas, or one terminal event.  Text, skills, nodes  *)
(* and memory lists are left out.                                          *)
(*                                                                         *)
(* No runner publishes run.cancelled; it is left out.                      *)
(*                                                                         *)
(* The server hands a connection the events of its run once and in order   *)
(* (EventStream), as far as they go: the task of a run may die without a   *)
(* terminal event (RunLifecycle).  The browser drops what a closed         *)
(* EventSource receives.                                                   *)
(***************************************************************************)
EXTENDS Naturals, Sequences, SequencesExt

CONSTANTS Script,      \* event types of a run that does not fail
          NoRun,       \* null
          NoMessage,
          MaxTokens,   \* bound: submissions and resets
          MaxDrops,    \* bound: connections that break
          MaxLeaves    \* bound: times the page is left

TerminalEventTypes == {"run.completed", "run.failed"}

ASSUME RunStoreAssumption ==
  /\ Script \in Seq(STRING) /\ Script # << >> /\ Last(Script) = "run.completed"
  /\ \A i \in 1 .. Len(Script) - 1 : Script[i] \in {"run.started", "message.delta"}
  /\ MaxTokens \in Nat /\ MaxDrops \in Nat /\ MaxLeaves \in Nat
  /\ NoRun \notin Nat

VARIABLES requestToken,
          isSubmitting,
          messages,      \* messages[t]: the assistant message of submission t
          pendingMessage,\* pendingAssistantMessageId: a submission, 0 for null
          accumulatedDelta,
          events, lastSequence,
          createdRun, currentRun,
          errorMessage,  \* the runs it tells of
          status,        \* connectionStatus
          connections,   \* EventSources in the order they were created
          requests,      \* submissions whose create request has no answer
          snapshots,     \* runs whose getAgentRun has no answer
          onPage,        \* ChatPage is mounted
          cut,           \* history: submissions whose stream was closed early
          drops, leaves

answer == <<messages, pendingMessage, accumulatedDelta>>
timeline == <<events, lastSequence>>
run == <<createdRun, currentRun>>
connection == <<status, connections>>
inFlight == <<requests, snapshots>>
bounds == <<drops, leaves>>
vars == <<requestToken, isSubmitting, answer, timeline, run, errorMessage, connection,
          inFlight, onPage, cut, bounds>>

Tokens == 1 .. MaxTokens
Event == [run : Tokens, sequence : 1 .. Len(Script) + 1, type : Range(Script) \cup TerminalEventTypes]
Statuses == {"idle", "connecting", "open", "reconnecting", "closed"}
RunStatuses == {"queued", "running", "succeeded", "failed"}

Init ==
  /\ requestToken = 0 /\ isSubmitting = FALSE
  /\ messages = [t \in Tokens |-> NoMessage]
  /\ pendingMessage = 0 /\ accumulatedDelta = << >>
  /\ events = << >> /\ lastSequence = 0
  /\ createdRun = NoRun /\ currentRun = NoRun /\ errorMessage = {}
  /\ status = "idle" /\ connections = << >>
  /\ requests = {} /\ snapshots = {}
  /\ onPage = TRUE /\ cut = {} /\ drops = 0 /\ leaves = 0

Streaming == status \in {"connecting", "open", "reconnecting"}

isBusy == isSubmitting \/ Streaming

------------------------------------------------------------------------------
(* AgentEventSource. *)

Newest(n) == n = Len(connections)
Live(n) == connections[n].state # "closed"

(* Mutant of Closed: the EventSource is forgotten, not closed. *)
Forgotten(old) == old

(* source.close() *)
Closed(old) == [n \in DOMAIN old |-> [old[n] EXCEPT !.state = "closed"]]

(* The history: runs whose stream is closed before its terminal event. *)
CutOff(old) == {old[n].run : n \in {k \in DOMAIN old : old[k].state # "closed"}}

(* close(): this.source, which is the newest connection or null. *)
Close ==
  /\ connections' = Closed(connections)
  /\ cut' = cut \cup CutOff(connections)

(* close() in connect(), then a new EventSource, under a new connectionId. *)
Connect(r) ==
  /\ connections' = Append(Closed(connections), [run |-> r, state |-> "connecting", at |-> 0, last |-> "none"])
  /\ cut' = cut \cup CutOff(connections)
  /\ status' = "connecting"

(* closeSSE() of the store. *)
CloseSSE == Close /\ status' = "idle"

SetState(n, state) == connections' = [connections EXCEPT ![n].state = state]

(* A callback of an older connection returns without effect on the store. *)
SetStatus(n, new) == status' = IF Newest(n) THEN new ELSE status

Open(n) ==
  /\ connections[n].state = "connecting"
  /\ SetState(n, "open")
  /\ SetStatus(n, "open")
  /\ UNCHANGED <<requestToken, isSubmitting, answer, timeline, run, errorMessage, inFlight,
                 onPage, cut, bounds>>

(* onerror: the browser will connect again. *)
Drop(n) ==
  /\ drops < MaxDrops
  /\ drops' = drops + 1
  /\ Live(n)
  /\ SetState(n, "connecting")
  /\ SetStatus(n, "reconnecting")
  /\ UNCHANGED <<requestToken, isSubmitting, answer, timeline, run, errorMessage, inFlight,
                 onPage, cut, leaves>>

(* Mutant of Refuse: onerror looks for readyState CONNECTING only. *)
RefuseUnnoticed(n) ==
  /\ connections[n].state = "connecting"
  /\ SetState(n, "closed")
  /\ cut' = cut \cup {connections[n].run}
  /\ UNCHANGED <<requestToken, isSubmitting, answer, timeline, run, errorMessage, status,
                 inFlight, onPage, bounds>>

(* onerror: the server's answer is no event stream and the browser gives up. *)
Refuse(n) ==
  /\ connections[n].state = "connecting"
  /\ SetState(n, "closed")
  /\ SetStatus(n, "closed")
  /\ cut' = cut \cup {connections[n].run}
  /\ UNCHANGED <<requestToken, isSubmitting, answer, timeline, run, errorMessage, inFlight,
                 onPage, bounds>>

------------------------------------------------------------------------------
(* handleEvent. *)

(* The run of a connection has ended as far as its events show; or its task is   *)
(* gone ("lost") and will never say so.                                          *)
Over(c) == c.last \in TerminalEventTypes \cup {"lost"}

(* What the runner may have published next (RunLifecycle): the script, a failure *)
(* at any point, and a failure after a completion whose publication raised.      *)
MayFollow(c) ==
  CASE c.last \in {"run.failed", "lost"} -> {}
    [] c.last = "run.completed" -> {"run.failed"}
    [] OTHER -> {Script[c.at + 1], "run.failed"}

(* External: the run's task dies in its except block or with its process, and    *)
(* the connection gets heartbeats from here on.                                  *)
LoseRun(n) ==
  /\ Live(n)
  /\ ~ Over(connections[n])
  /\ connections' = [connections EXCEPT ![n].last = "lost"]
  /\ UNCHANGED <<requestToken, isSubmitting, answer, timeline, run, errorMessage, status,
                 inFlight, onPage, cut, bounds>>

Replace(content) ==
  messages' =
    IF pendingMessage # 0 /\ messages[pendingMessage] # NoMessage
      THEN [messages EXCEPT ![pendingMessage] = content] ELSE messages

(* completeAssistantMessage *)
Complete(e) == Replace([pending |-> FALSE, content |-> <<e>>])

(* A currentRun of null stays null. *)
SetRunStatus(new) ==
  currentRun' = IF currentRun = NoRun THEN NoRun ELSE [currentRun EXCEPT !.status = new]

Dispatch(e) ==
  \/ /\ e.type = "run.started"
     /\ SetRunStatus("running")
     /\ UNCHANGED <<answer, errorMessage, snapshots>>
  \/ /\ e.type = "message.delta"
     /\ IF pendingMessage = 0 THEN UNCHANGED answer
        ELSE /\ accumulatedDelta' = Append(accumulatedDelta, e)
             /\ Replace([pending |-> messages[pendingMessage] # NoMessage /\ messages[pendingMessage].pending,
                         content |-> accumulatedDelta'])
             /\ UNCHANGED pendingMessage
     /\ UNCHANGED <<currentRun, errorMessage, snapshots>>
  \/ /\ e.type = "run.completed"
     /\ Complete(e)
     /\ SetRunStatus("succeeded")
     /\ snapshots' = snapshots \cup {createdRun}
     /\ UNCHANGED <<pendingMessage, accumulatedDelta, errorMessage>>
  \/ /\ e.type = "run.failed"
     /\ errorMessage' = {e.run}
     /\ Complete(e)
     /\ SetRunStatus("failed")
     /\ UNCHANGED <<pendingMessage, accumulatedDelta, snapshots>>

HandleEvent(e) ==
  IF e \in Range(events) \/ e.sequence <= lastSequence
    THEN UNCHANGED <<answer, timeline, currentRun, errorMessage, snapshots>>
    ELSE /\ events' = Append(events, e)
         /\ lastSequence' = e.sequence
         /\ Dispatch(e)

Got(n, type) ==
  [connections EXCEPT ![n] = [run |-> @.run, state |-> @.state, at |-> @.at + 1, last |-> type]]

(* Mutant of Receive: a terminal event does not close the connection. *)
ReceiveOnly(n) ==
  /\ connections[n].state = "open"
  /\ Newest(n)
  /\ \E type \in MayFollow(connections[n]) :
       /\ HandleEvent([run |-> connections[n].run, sequence |-> connections[n].at + 1, type |-> type])
       /\ connections' = Got(n, type)
  /\ UNCHANGED <<requestToken, isSubmitting, createdRun, status, requests, onPage, cut, bounds>>

(* The listener of an event type: try.  After a terminal event it calls close().*)
Receive(n) ==
  /\ connections[n].state = "open"
  /\ \E type \in MayFollow(connections[n]) :
       LET e == [run |-> connections[n].run, sequence |-> connections[n].at + 1, type |-> type] IN
       /\ IF Newest(n) THEN HandleEvent(e)
          ELSE UNCHANGED <<answer, timeline, currentRun, errorMessage, snapshots>>
       /\ IF Newest(n) /\ type \in TerminalEventTypes
            THEN connections' = Closed(Got(n, type)) /\ status' = "closed"
            ELSE connections' = Got(n, type) /\ UNCHANGED status
  /\ UNCHANGED <<requestToken, isSubmitting, createdRun, requests, onPage, cut, bounds>>

(* The listener: catch.  The event is ignored, whatever its type: nothing is   *)
(* closed, and the browser will not ask for it again.  onError sets the text.  *)
Ignore(n) ==
  /\ connections[n].state = "open"
  /\ Newest(n)
  /\ \E type \in MayFollow(connections[n]) : connections' = Got(n, type)
  /\ errorMessage' = {connections[n].run}
  /\ UNCHANGED <<requestToken, isSubmitting, answer, timeline, run, status, inFlight,
                 onPage, cut, bounds>>

(* refreshRunSnapshot: the answer of getAgentRun replaces currentRun. *)
RefreshAnswered(r) ==
  /\ r \in snapshots
  /\ snapshots' = snapshots \ {r}
  /\ \E new \in {"succeeded", "failed"} : currentRun' = [run |-> r, status |-> new]
  /\ UNCHANGED <<requestToken, isSubmitting, answer, timeline, createdRun, errorMessage,
                 connection, requests, onPage, cut, bounds>>

(* It fails: a notice is added to errorMessage. *)
RefreshFails(r) ==
  /\ r \in snapshots
  /\ snapshots' = snapshots \ {r}
  /\ errorMessage' = errorMessage \cup {r}
  /\ UNCHANGED <<requestToken, isSubmitting, answer, timeline, run, connection, requests,
                 onPage, cut, bounds>>

------------------------------------------------------------------------------
(* submitMessage. *)

(* Mutant of ClearTimeline: the sequence of the last run is kept. *)
ClearEventsOnly == events' = << >> /\ UNCHANGED lastSequence

ClearTimeline == events' = << >> /\ lastSequence' = 0

(* The synchronous part, up to the request.  The page disables its input while *)
(* the store is busy; the store checks again.                                  *)
Submit ==
  /\ onPage
  /\ ~ isBusy
  /\ requestToken < MaxTokens
  /\ requestToken' = requestToken + 1
  /\ CloseSSE
  /\ ClearTimeline
  /\ accumulatedDelta' = << >>
  /\ createdRun' = NoRun /\ currentRun' = NoRun /\ errorMessage' = {}
  /\ isSubmitting' = TRUE
  /\ messages' = [messages EXCEPT ![requestToken'] = [pending |-> TRUE, content |-> << >>]]
  /\ pendingMessage' = requestToken'
  /\ requests' = requests \cup {requestToken'}
  /\ UNCHANGED <<snapshots, onPage, bounds>>

Current(t) == t = requestToken

Connected(t) ==
  /\ t \in requests
  /\ requests' = requests \ {t}
  /\ createdRun' = t
  /\ currentRun' = [run |-> t, status |-> "queued"]
  /\ isSubmitting' = FALSE
  /\ pendingMessage' = t /\ accumulatedDelta' = << >>
  /\ Connect(t)
  /\ UNCHANGED <<requestToken, messages, timeline, errorMessage, snapshots, onPage, bounds>>

(* Mutant of CreateAnswered: the token is not compared. *)
CreateAnsweredLate(t) == Connected(t)

CreateAnswered(t) == Current(t) /\ Connected(t)

CreateFails(t) ==
  /\ t \in requests
  /\ Current(t)
  /\ requests' = requests \ {t}
  /\ errorMessage' = {t}
  /\ messages' = [messages EXCEPT ![t] = [pending |-> FALSE, content |-> << >>]]
  /\ isSubmitting' = FALSE
  /\ UNCHANGED <<requestToken, pendingMessage, accumulatedDelta, timeline, run, connection,
                 snapshots, onPage, cut, bounds>>

(* An answer, or an error, that another token has overtaken. *)
CreateOvertaken(t) ==
  /\ t \in requests
  /\ ~ Current(t)
  /\ requests' = requests \ {t}
  /\ UNCHANGED <<requestToken, isSubmitting, answer, timeline, run, errorMessage, connection,
                 snapshots, onPage, cut, bounds>>

Reset ==
  /\ requestToken < MaxTokens
  /\ CloseSSE
  /\ requestToken' = requestToken + 1
  /\ messages' = [t \in Tokens |-> NoMessage]
  /\ createdRun' = NoRun /\ currentRun' = NoRun /\ errorMessage' = {}
  /\ isSubmitting' = FALSE
  /\ ClearTimeline
  /\ accumulatedDelta' = << >> /\ pendingMessage' = 0
  /\ UNCHANGED <<inFlight, onPage, bounds>>

(* ChatPage: onBeforeUnmount, and mounting it again. *)
Leave ==
  /\ onPage
  /\ leaves < MaxLeaves
  /\ leaves' = leaves + 1
  /\ onPage' = FALSE
  /\ CloseSSE
  /\ UNCHANGED <<requestToken, isSubmitting, answer, timeline, run, errorMessage, inFlight, drops>>

Enter ==
  /\ ~ onPage
  /\ onPage' = TRUE
  /\ UNCHANGED <<requestToken, isSubmitting, answer, timeline, run, errorMessage, connection,
                 inFlight, cut, bounds>>

Answer(t) == CreateAnswered(t) \/ CreateFails(t) \/ CreateOvertaken(t)
Stream(n) == Open(n) \/ Refuse(n) \/ Receive(n) \/ Ignore(n)

Next ==
  \/ Submit \/ Reset \/ Leave \/ Enter
  \/ \E t \in Tokens : Answer(t) \/ RefreshAnswered(t) \/ RefreshFails(t)
  \/ \E n \in DOMAIN connections : Stream(n) \/ Drop(n) \/ LoseRun(n)

Spec == Init /\ [][Next]_vars

(* Every request is answered or fails, and a connection opens or is refused    *)
(* and hands over the next event of a run that is not over, to be parsed or    *)
(* not.  Nothing is assumed of a run that is over: neither that it is not lost,*)
(* nor that a failure follows its completion.                                  *)
FairSpec ==
  /\ Spec
  /\ \A t \in Tokens : WF_vars(Answer(t))
  /\ \A n \in Tokens : WF_vars(n \in DOMAIN connections /\ ~ Over(connections[n]) /\ Stream(n))

------------------------------------------------------------------------------
Message == [pending : BOOLEAN, content : Seq(Event)]
Connection == [run : Tokens, state : {"connecting", "open", "closed"}, at : 0 .. Len(Script) + 1,
               last : {"none", "lost"} \cup Range(Script) \cup TerminalEventTypes]

TypeOK ==
  /\ requestToken \in 0 .. MaxTokens
  /\ messages \in [Tokens -> Message \cup {NoMessage}]
  /\ pendingMessage \in 0 .. requestToken
  /\ events \in Seq(Event) /\ lastSequence \in 0 .. Len(Script) + 1
  /\ accumulatedDelta \in Seq(Event)
  /\ createdRun \in Tokens \cup {NoRun}
  /\ currentRun \in [run : Tokens, status : RunStatuses] \cup {NoRun}
  /\ errorMessage \subseteq Tokens
  /\ status \in Statuses /\ connections \in Seq(Connection)
  /\ requests \subseteq 1 .. requestToken /\ snapshots \subseteq 1 .. requestToken
  /\ onPage \in BOOLEAN /\ cut \subseteq Tokens
  /\ drops \in 0 .. MaxDrops /\ leaves \in 0 .. MaxLeaves
  /\ isSubmitting \in BOOLEAN /\ (isSubmitting <=> requestToken \in requests)

(* The timeline shows events of the created run only, in the order of their    *)
(* sequences, and the one connection that may be open streams that run.        *)
TimelineOfCreatedRun ==
  /\ \A k \in DOMAIN events : events[k].run = createdRun
  /\ \A k, l \in DOMAIN events : k < l => events[k].sequence < events[l].sequence
  /\ \A n \in DOMAIN connections : Live(n) =>
       Newest(n) /\ Streaming /\ connections[n].run = createdRun

(* An assistant message is made of events of the run that its own submission   *)
(* created, however many runs the store has followed since.                    *)
AnswerInItsMessage ==
  \A t \in Tokens : messages[t] # NoMessage =>
    \A e \in Range(messages[t].content) : e.run = t

(* A message that was completed is not touched again, except by reset.         *)
CompletedMessagesStay ==
  [][\A t \in Tokens :
       /\ messages[t] # NoMessage /\ ~ messages[t].pending
       /\ messages'[t] # NoMessage
       => messages'[t] = messages[t]]_vars

(* A message is pending only while the store is busy with it, unless its       *)
(* stream was closed before its end: no answer is received and not shown.      *)
PendingOnlyWhileBusy ==
  \A t \in Tokens :
    messages[t] # NoMessage /\ messages[t].pending => (isBusy /\ t = requestToken) \/ t \in cut

(* A connection that waits for nothing: its run was lost, or it ended with an  *)
(* event that could not be parsed (after a parsed one it is closed).           *)
AwaitsNothing == \E n \in DOMAIN connections : Live(n) /\ Over(connections[n])

(* The store does not stay busy and the input can be used again, whatever is   *)
(* dropped, refused, late or left.  Excepted are the two situations of         *)
(* AwaitsNothing, where the code does stay busy until the page is left.        *)
BusyEnds == isBusy ~> ~ isBusy \/ AwaitsNothing

------------------------------------------------------------------------------
(* What the documents say (refuted): an old run does not show through a new    *)
(* one.  The answer of a snapshot is not checked against the token.            *)
OldRunsDoNotShow ==
  /\ currentRun # NoRun => currentRun.run = createdRun
  /\ errorMessage # {} => errorMessage = {requestToken}
===============================================================================
