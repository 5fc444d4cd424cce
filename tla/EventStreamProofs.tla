-------------------------- MODULE EventStreamProofs --------------------------
(***************************************************************************)
(* Proofs about EventStream for every set of clients and every bound.      *)
(*                                                                         *)
(* DeliveredInOrder speaks of what a client received; the next event it    *)
(* receives was decided earlier, when it was fetched, and the event after  *)
(* a reconnect is decided by Last-Event-ID.  StreamInv therefore says      *)
(* where every event on its way is: what is in flight continues what was   *)
(* received, the cursor of a live stream stands right behind it, and what  *)
(* the stream still has to yield continues the cursor.                     *)
(***************************************************************************)
EXTENDS EventStream, TLAPS

ReceivedInOrder(c) ==
  /\ \A i \in 1 .. Len(got[c]) : got[c][i] = i
  /\ Len(got[c]) + Len(net[c]) <= Len(log)

FlightContinues(c) == \A i \in 1 .. Len(net[c]) : net[c][i] = Len(got[c]) + i

CursorBehind(c) == Streaming(c) => cursor[c] = Len(got[c]) + Len(net[c])

BatchContinues(c) ==
  pc[c] = "yield" =>
    \E k \in 1 .. Len(log) : cursor[c] < k /\ batch[c] = cursor[c] + 1 .. k

NothingWithoutConnection(c) == pc[c] = "none" => net[c] = << >>

LocalInv(c) ==
  /\ ReceivedInOrder(c)
  /\ FlightContinues(c)
  /\ CursorBehind(c)
  /\ BatchContinues(c)
  /\ NothingWithoutConnection(c)

StreamInv == TypeOK /\ \A c \in Clients : LocalInv(c)

------------------------------------------------------------------------------
(* The log only grows at its end. *)
LEMMA PersistGrows ==
  ASSUME TypeOK, NEW k \in Kinds, Persist(k)
  PROVE  log' \in Seq(Kinds) /\ Len(log') = Len(log) + 1
BY DEF TypeOK, Persist

(* The smallest event left in a batch is the one behind the cursor. *)
LEMMA NextIsBehindCursor ==
  ASSUME NEW c \in Clients, NEW k \in Nat, cursor[c] \in Nat, cursor[c] < k,
         batch[c] = cursor[c] + 1 .. k
  PROVE  NextInBatch(c) = cursor[c] + 1
<1>1. cursor[c] + 1 \in batch[c] /\ \A m \in batch[c] : cursor[c] + 1 <= m
  OBVIOUS
<1>2. \A n \in batch[c] : (\A m \in batch[c] : n <= m) => n = cursor[c] + 1
  BY <1>1
<1> QED
  BY <1>1, <1>2 DEF NextInBatch

LEMMA StreamInvInit == Init => StreamInv
<1> SUFFICES ASSUME Init
             PROVE  StreamInv
  OBVIOUS
<1>1. TypeOK
  BY EventStreamAssumption DEF Init, TypeOK, StreamStates
<1>2. ASSUME NEW c \in Clients
      PROVE  LocalInv(c)
  BY DEF Init, LocalInv, ReceivedInOrder, FlightContinues, CursorBehind,
         BatchContinues, NothingWithoutConnection, Streaming
<1> QED
  BY <1>1, <1>2 DEF StreamInv

------------------------------------------------------------------------------
(* A lost or closed connection takes what is in flight with it. *)
LEMMA DisconnectedInv ==
  ASSUME StreamInv, NEW c \in Clients, Disconnected(c), UNCHANGED <<log, got, cursor>>
  PROVE  /\ pc' \in [Clients -> StreamStates]
         /\ net' \in [Clients -> Seq(Nat)]
         /\ batch' \in [Clients -> SUBSET (1 .. Len(log'))]
         /\ \A d \in Clients : LocalInv(d)'
<1> USE DEF StreamInv, LocalInv, TypeOK, Disconnected, StreamStates
<1>1. /\ pc' \in [Clients -> StreamStates]
      /\ net' \in [Clients -> Seq(Nat)]
      /\ batch' \in [Clients -> SUBSET (1 .. Len(log'))]
  OBVIOUS
<1>2. ASSUME NEW d \in Clients
      PROVE  LocalInv(d)'
  <2>1. CASE d = c
    BY <2>1 DEF LocalInv, ReceivedInOrder, FlightContinues, CursorBehind,
                BatchContinues, NothingWithoutConnection, Streaming
  <2>2. CASE d # c
    BY <2>2 DEF LocalInv, ReceivedInOrder, FlightContinues, CursorBehind,
                BatchContinues, NothingWithoutConnection, Streaming
  <2> QED
    BY <2>1, <2>2
<1> QED
  BY <1>1, <1>2

(* Appending to the log disturbs nobody: cursors and batches stay in range. *)
LEMMA PersistInv ==
  ASSUME StreamInv, NEW k \in Kinds, Persist(k)
  PROVE  StreamInv'
<1>1. log' \in Seq(Kinds) /\ Len(log') = Len(log) + 1 /\ Len(log) \in Nat
  BY PersistGrows DEF StreamInv, TypeOK
<1>2. TypeOK'
  BY <1>1 DEF StreamInv, TypeOK, Persist, client, faults
<1>3. ASSUME NEW c \in Clients
      PROVE  LocalInv(c)'
  <2>1. LocalInv(c)
    BY DEF StreamInv, LocalInv
  <2>2. /\ pc' = pc /\ cursor' = cursor /\ batch' = batch /\ net' = net /\ got' = got
        /\ Len(got[c]) \in Nat /\ Len(net[c]) \in Nat
    BY DEF Persist, client, StreamInv, TypeOK
  <2>3. ReceivedInOrder(c)'
    <3>1. \A i \in 1 .. Len(got'[c]) : got'[c][i] = i
      BY <2>1, <2>2 DEF LocalInv, ReceivedInOrder
    <3>2. Len(got'[c]) + Len(net'[c]) <= Len(log')
      <4>1. /\ Len(got[c]) + Len(net[c]) <= Len(log)
            /\ Len(got[c]) \in Nat /\ Len(net[c]) \in Nat
        BY <2>1, <2>2 DEF LocalInv, ReceivedInOrder
      <4>2. Len(log') = Len(log) + 1 /\ Len(log) \in Nat
        BY <1>1
      <4>3. Len(got'[c]) = Len(got[c]) /\ Len(net'[c]) = Len(net[c])
        BY <2>2
      <4>4. \A a, b, l \in Nat : a + b <= l => a + b <= l + 1
        OBVIOUS
      <4>5. Len(got[c]) + Len(net[c]) <= Len(log) + 1
        BY <4>1, <4>2, <4>4
      <4> QED
        BY <4>2, <4>3, <4>5
    <3> QED
      BY <3>1, <3>2 DEF ReceivedInOrder
  <2>4. FlightContinues(c)' /\ CursorBehind(c)' /\ NothingWithoutConnection(c)'
    BY <2>1, <2>2 DEF LocalInv, FlightContinues, CursorBehind, NothingWithoutConnection, Streaming
  <2>5. BatchContinues(c)'
    <3> SUFFICES ASSUME pc[c] = "yield"
                 PROVE  \E j \in 1 .. Len(log') : cursor[c] < j /\ batch[c] = cursor[c] + 1 .. j
      BY <2>2 DEF BatchContinues
    <3>1. PICK j \in 1 .. Len(log) : cursor[c] < j /\ batch[c] = cursor[c] + 1 .. j
      BY <2>1 DEF LocalInv, BatchContinues
    <3> QED
      BY <1>1, <3>1
  <2> QED
    BY <2>3, <2>4, <2>5 DEF LocalInv
<1> QED
  BY <1>2, <1>3 DEF StreamInv

(* A new connection starts right behind the last event its client received. *)
LEMMA ConnectInv ==
  ASSUME StreamInv, NEW c \in Clients, Connect(c)
  PROVE  StreamInv'
<1> USE DEF StreamInv, LocalInv, TypeOK, Connect, client, faults, StreamStates
<1>1. LastEventSequence(c) = Len(got[c])
  <2>1. got[c] \in Seq(Nat) /\ ReceivedInOrder(c)
    OBVIOUS
  <2>2. CASE got[c] = << >>
    BY <2>2 DEF LastEventSequence
  <2>3. CASE got[c] # << >>
    <3>1. Len(got[c]) \in 1 .. Len(got[c])
      BY <2>1, <2>3
    <3> QED
      BY <2>1, <2>3, <3>1 DEF LastEventSequence, ReceivedInOrder
  <2> QED
    BY <2>2, <2>3
<1>2. TypeOK'
  BY <1>1
<1>3. ASSUME NEW d \in Clients
      PROVE  LocalInv(d)'
  <2>1. CASE d = c
    BY <1>1, <2>1 DEF LocalInv, ReceivedInOrder, FlightContinues, CursorBehind,
                      BatchContinues, NothingWithoutConnection, Streaming
  <2>2. CASE d # c
    BY <2>2 DEF LocalInv, ReceivedInOrder, FlightContinues, CursorBehind,
                BatchContinues, NothingWithoutConnection, Streaming
  <2> QED
    BY <2>1, <2>2
<1> QED
  BY <1>2, <1>3 DEF LocalInv

(* The query fetches exactly the events that follow the cursor. *)
LEMMA QueryInv ==
  ASSUME StreamInv, NEW c \in Clients, Query(c)
  PROVE  StreamInv'
<1> USE DEF StreamInv, LocalInv, TypeOK, Query, client, faults, StreamStates
<1>1. /\ cursor[c] \in Nat /\ Len(log) \in Nat /\ cursor[c] <= Len(log)
      /\ EventsAfter(cursor[c]) = cursor[c] + 1 .. Len(log)
  BY DEF EventsAfter, CursorBehind, Streaming, ReceivedInOrder
<1>2. TypeOK'
  BY <1>1
<1>3. ASSUME NEW d \in Clients
      PROVE  LocalInv(d)'
  <2>1. CASE d = c
    <3>1. ReceivedInOrder(c)' /\ FlightContinues(c)' /\ NothingWithoutConnection(c)'
      BY DEF ReceivedInOrder, FlightContinues, NothingWithoutConnection
    <3>2. CursorBehind(c)'
      BY DEF CursorBehind, Streaming
    <3>3. BatchContinues(c)'
      <4> SUFFICES ASSUME pc'[c] = "yield"
                   PROVE  \E k \in 1 .. Len(log) : cursor[c] < k /\ batch'[c] = cursor[c] + 1 .. k
        BY DEF BatchContinues
      <4>1. batch'[c] = cursor[c] + 1 .. Len(log) /\ batch'[c] # {}
        BY <1>1
      <4> WITNESS Len(log) \in 1 .. Len(log)
      <4> QED
        BY <1>1, <4>1
    <3> QED
      BY <2>1, <3>1, <3>2, <3>3 DEF LocalInv
  <2>2. CASE d # c
    BY <2>2 DEF LocalInv, ReceivedInOrder, FlightContinues, CursorBehind,
                BatchContinues, NothingWithoutConnection, Streaming
  <2> QED
    BY <2>1, <2>2
<1> QED
  BY <1>2, <1>3 DEF LocalInv

(* The yielded event continues what is in flight. *)
LEMMA YieldInv ==
  ASSUME StreamInv, NEW c \in Clients, Yield(c)
  PROVE  StreamInv'
<1> USE DEF StreamInv, LocalInv, TypeOK, client, faults
<1>1. PICK k \in 1 .. Len(log) : cursor[c] < k /\ batch[c] = cursor[c] + 1 .. k
  BY DEF BatchContinues, Yield
<1> DEFINE n == cursor[c] + 1
<1>2. NextInBatch(c) = n /\ n \in 1 .. Len(log) /\ cursor[c] \in Nat /\ Len(log) \in Nat
  BY <1>1, NextIsBehindCursor
<1>3. /\ net' = [net EXCEPT ![c] = Append(@, n)]
      /\ cursor' = [cursor EXCEPT ![c] = n]
      /\ batch' = [batch EXCEPT ![c] = IF Terminal(n) THEN {} ELSE @ \ {n}]
      /\ pc' = [pc EXCEPT ![c] = IF Terminal(n) THEN "closed"
                                 ELSE IF batch[c] = {n} THEN "query" ELSE "yield"]
      /\ log' = log /\ got' = got /\ listening' = listening /\ publisher' = publisher
      /\ drops' = drops /\ restarts' = restarts /\ pc[c] = "yield"
  BY <1>2 DEF Yield
<1>4. /\ cursor[c] = Len(got[c]) + Len(net[c]) /\ Len(got[c]) \in Nat /\ Len(net[c]) \in Nat
      /\ net'[c] = Append(net[c], n) /\ Len(net'[c]) = Len(net[c]) + 1
  BY <1>3 DEF CursorBehind, Streaming
<1>5. TypeOK'
  BY <1>2, <1>3 DEF StreamStates
<1>6. ASSUME NEW d \in Clients
      PROVE  LocalInv(d)'
  <2>1. CASE d = c
    <3>1. ReceivedInOrder(c)' /\ NothingWithoutConnection(c)'
      BY <1>2, <1>3, <1>4 DEF ReceivedInOrder, NothingWithoutConnection
    <3>2. FlightContinues(c)'
      <4> SUFFICES ASSUME NEW i \in 1 .. Len(net'[c])
                   PROVE  net'[c][i] = Len(got[c]) + i
        BY <1>3 DEF FlightContinues
      <4>1. CASE i = Len(net[c]) + 1
        BY <1>4, <4>1
      <4>2. CASE i # Len(net[c]) + 1
        BY <1>4, <4>2 DEF FlightContinues
      <4> QED
        BY <4>1, <4>2
    <3>3. CursorBehind(c)'
      BY <1>3, <1>4 DEF CursorBehind, Streaming
    <3>4. BatchContinues(c)'
      <4> SUFFICES ASSUME pc'[c] = "yield"
                   PROVE  \E j \in 1 .. Len(log) : n < j /\ batch'[c] = n + 1 .. j
        BY <1>3 DEF BatchContinues
      <4>1. batch'[c] = batch[c] \ {n} /\ batch[c] # {n}
        BY <1>3
      <4>2. n < k /\ batch'[c] = n + 1 .. k
        BY <1>1, <1>2, <4>1
      <4> QED
        BY <4>2
    <3> QED
      BY <2>1, <3>1, <3>2, <3>3, <3>4 DEF LocalInv
  <2>2. CASE d # c
    <3>1. LocalInv(d)
      BY DEF LocalInv
    <3>2. /\ pc'[d] = pc[d] /\ cursor'[d] = cursor[d] /\ batch'[d] = batch[d]
          /\ net'[d] = net[d] /\ got' = got /\ log' = log
      BY <1>3, <2>2
    <3> QED
      BY <3>1, <3>2 DEF LocalInv, ReceivedInOrder, FlightContinues, CursorBehind,
           BatchContinues, NothingWithoutConnection, Streaming
  <2> QED
    BY <2>1, <2>2
<1> QED
  BY <1>5, <1>6 DEF LocalInv

(* What is received was next in flight. *)
LEMMA ReceiveInv ==
  ASSUME StreamInv, NEW c \in Clients, NEW closes \in BOOLEAN, Receive(c, closes)
  PROVE  /\ StreamInv'
         /\ Head(net[c]) = Len(got[c]) + 1
         /\ Len(got[c]) < Len(log)
<1> USE DEF StreamInv, LocalInv, TypeOK, faults
<1>1. /\ got[c] \in Seq(Nat) /\ net[c] \in Seq(Nat) /\ net[c] # << >>
      /\ Len(got[c]) \in Nat /\ Len(net[c]) \in Nat /\ Len(net[c]) > 0 /\ Len(log) \in Nat
      /\ Len(got[c]) + Len(net[c]) <= Len(log)
      /\ pc[c] # "none"
  BY DEF Receive, ReceivedInOrder, NothingWithoutConnection
<1>2. Head(net[c]) = Len(got[c]) + 1
  <2>1. Head(net[c]) = net[c][1]
    BY <1>1
  <2> QED
    BY <1>1, <2>1 DEF FlightContinues
<1>3. /\ got' = [got EXCEPT ![c] = Append(@, Len(got[c]) + 1)]
      /\ log' = log /\ cursor' = cursor /\ publisher' = publisher
      /\ drops' = drops /\ restarts' = restarts
      /\ listening' = [listening EXCEPT ![c] = ~ closes]
  BY <1>2 DEF Receive
<1>4. /\ got'[c] = Append(got[c], Len(got[c]) + 1) /\ Len(got'[c]) = Len(got[c]) + 1
      /\ got' \in [Clients -> Seq(Nat)]
  BY <1>1, <1>3
<1>5. \A i \in 1 .. Len(got'[c]) : got'[c][i] = i
  <2> TAKE i \in 1 .. Len(got'[c])
  <2>1. CASE i = Len(got[c]) + 1
    BY <1>1, <1>4, <2>1
  <2>2. CASE i # Len(got[c]) + 1
    BY <1>1, <1>4, <2>2 DEF ReceivedInOrder
  <2> QED
    BY <2>1, <2>2
<1>6. /\ pc' \in [Clients -> StreamStates] /\ batch' \in [Clients -> SUBSET (1 .. Len(log))]
      /\ net' \in [Clients -> Seq(Nat)]
      /\ \A d \in Clients \ {c} : pc'[d] = pc[d] /\ batch'[d] = batch[d] /\ net'[d] = net[d]
      /\ \/ pc'[c] = "none" /\ net'[c] = << >>
         \/ pc'[c] = pc[c] /\ batch'[c] = batch[c] /\ net'[c] = Tail(net[c])
  <2>1. CASE closes
    <3>1. Disconnected(c)
      BY <2>1 DEF Receive
    <3> QED
      BY <3>1 DEF Disconnected, StreamStates
  <2>2. CASE ~ closes
    <3>1. net' = [net EXCEPT ![c] = Tail(@)] /\ pc' = pc /\ batch' = batch
      BY <2>2 DEF Receive
    <3> QED
      BY <1>1, <3>1
  <2> QED
    BY <2>1, <2>2
<1>7. TypeOK'
  BY <1>3, <1>4, <1>6
<1>8. LocalInv(c)'
  <2>1. CASE pc'[c] = "none" /\ net'[c] = << >>
    <3>1. ReceivedInOrder(c)'
      BY <1>1, <1>3, <1>4, <1>5, <2>1 DEF ReceivedInOrder
    <3>2. /\ FlightContinues(c)' /\ CursorBehind(c)' /\ BatchContinues(c)'
          /\ NothingWithoutConnection(c)'
      BY <2>1 DEF FlightContinues, CursorBehind, BatchContinues,
                  NothingWithoutConnection, Streaming
    <3> QED
      BY <3>1, <3>2
  <2>2. CASE pc'[c] = pc[c] /\ batch'[c] = batch[c] /\ net'[c] = Tail(net[c])
    <3>1. Len(net'[c]) = Len(net[c]) - 1 /\ \A i \in 1 .. Len(net[c]) - 1 : net'[c][i] = net[c][i + 1]
      BY <1>1, <2>2
    <3>2. ReceivedInOrder(c)'
      <4>1. Len(got'[c]) + Len(net'[c]) = Len(got[c]) + Len(net[c])
        BY <1>1, <1>4, <3>1
      <4> QED
        BY <1>1, <1>3, <1>5, <4>1 DEF ReceivedInOrder
    <3>3. FlightContinues(c)'
      <4> SUFFICES ASSUME NEW i \in 1 .. Len(net'[c])
                   PROVE  net'[c][i] = Len(got'[c]) + i
        BY DEF FlightContinues
      <4>1. net'[c][i] = net[c][i + 1] /\ i + 1 \in 1 .. Len(net[c])
        BY <1>1, <3>1
      <4> QED
        BY <1>1, <1>4, <4>1 DEF FlightContinues
    <3>4. CursorBehind(c)'
      BY <1>1, <1>3, <1>4, <2>2, <3>1 DEF CursorBehind, Streaming
    <3>5. BatchContinues(c)' /\ NothingWithoutConnection(c)'
      BY <1>1, <1>3, <2>2 DEF BatchContinues, NothingWithoutConnection
    <3> QED
      BY <3>2, <3>3, <3>4, <3>5
  <2> QED
    BY <1>6, <2>1, <2>2
<1>9. ASSUME NEW d \in Clients \ {c}
      PROVE  LocalInv(d)'
  <2>1. /\ pc'[d] = pc[d] /\ batch'[d] = batch[d] /\ net'[d] = net[d] /\ got'[d] = got[d]
        /\ cursor'[d] = cursor[d] /\ log' = log
    BY <1>3, <1>6
  <2> QED
    BY <2>1 DEF ReceivedInOrder, FlightContinues, CursorBehind, BatchContinues,
                NothingWithoutConnection, Streaming
<1>10. StreamInv'
  BY <1>7, <1>8, <1>9
<1> QED
  BY <1>1, <1>2, <1>10

(* Losing every connection at once. *)
LEMMA RestartInv ==
  ASSUME StreamInv, Restart
  PROVE  StreamInv'
<1> USE DEF StreamInv, LocalInv, TypeOK, Restart, client, StreamStates
<1>1. TypeOK'
  BY EventStreamAssumption
<1>2. ASSUME NEW c \in Clients
      PROVE  LocalInv(c)'
  BY DEF ReceivedInOrder, FlightContinues, CursorBehind, BatchContinues,
         NothingWithoutConnection, Streaming
<1> QED
  BY <1>1, <1>2

(* Steps that only move a stream between query and wait. *)
LEMMA WaitInv ==
  ASSUME StreamInv, UNCHANGED <<log, cursor, batch, net, client, faults>>,
         publisher' \in {"ready", "persisted", "stopped"},
         pc' \in [Clients -> StreamStates],
         \A c \in Clients : \/ pc'[c] = pc[c]
                            \/ Streaming(c) /\ pc'[c] \in {"query", "waiting"}
  PROVE  StreamInv'
<1> USE DEF StreamInv, LocalInv, TypeOK, client, faults
<1>1. TypeOK'
  OBVIOUS
<1>2. ASSUME NEW c \in Clients
      PROVE  LocalInv(c)'
  BY DEF ReceivedInOrder, FlightContinues, CursorBehind, BatchContinues,
         NothingWithoutConnection, Streaming
<1> QED
  BY <1>1, <1>2

LEMMA StreamInvNext == StreamInv /\ [Next]_vars => StreamInv'
<1> SUFFICES ASSUME StreamInv, [Next]_vars
             PROVE  StreamInv'
  OBVIOUS
<1>1. ASSUME NEW k \in Kinds, Persist(k)
      PROVE  StreamInv'
  BY <1>1, PersistInv
<1>2. CASE Notify
  <2>1. pc' \in [Clients -> StreamStates]
    BY <1>2 DEF Notify, StreamInv, TypeOK, StreamStates
  <2>2. \A c \in Clients : \/ pc'[c] = pc[c]
                           \/ Streaming(c) /\ pc'[c] \in {"query", "waiting"}
    BY <1>2 DEF Notify, StreamInv, TypeOK, Streaming
  <2> QED
    BY <1>2, <2>1, <2>2, WaitInv DEF Notify
<1>3. CASE SkipNotify
  BY <1>3, WaitInv DEF SkipNotify, StreamInv, TypeOK
<1>4. ASSUME NEW c \in Clients, Connect(c)
      PROVE  StreamInv'
  BY <1>4, ConnectInv
<1>5. ASSUME NEW c \in Clients, Query(c)
      PROVE  StreamInv'
  BY <1>5, QueryInv
<1>6. ASSUME NEW c \in Clients, Yield(c)
      PROVE  StreamInv'
  BY <1>6, YieldInv
<1>7. ASSUME NEW c \in Clients, EnterWait(c) \/ HeartbeatTimeout(c)
      PROVE  StreamInv'
  <2>1. pc' \in [Clients -> StreamStates]
    BY <1>7 DEF EnterWait, HeartbeatTimeout, StreamInv, TypeOK, StreamStates
  <2>2. \A d \in Clients : \/ pc'[d] = pc[d]
                           \/ Streaming(d) /\ pc'[d] \in {"query", "waiting"}
    BY <1>7 DEF EnterWait, HeartbeatTimeout, StreamInv, TypeOK, Streaming
  <2>3. publisher' \in {"ready", "persisted", "stopped"}
    BY <1>7 DEF EnterWait, HeartbeatTimeout, StreamInv, TypeOK
  <2> QED
    BY <1>7, <2>1, <2>2, <2>3, WaitInv DEF EnterWait, HeartbeatTimeout
<1>8. ASSUME NEW c \in Clients, NEW closes \in BOOLEAN, Receive(c, closes)
      PROVE  StreamInv'
  BY <1>8, ReceiveInv
<1>9. ASSUME NEW c \in Clients, EndOfResponse(c) \/ Leave(c) \/ Drop(c)
      PROVE  StreamInv'
  <2>1. Disconnected(c) /\ UNCHANGED <<log, got, cursor>>
    BY <1>9 DEF EndOfResponse, Leave, Drop, client
  <2>2. /\ publisher' \in {"ready", "persisted", "stopped"} /\ listening' \in [Clients -> BOOLEAN]
        /\ drops' \in 0 .. MaxDrops /\ restarts' \in 0 .. MaxRestarts
    <3>1. CASE EndOfResponse(c)
      BY <3>1 DEF EndOfResponse, client, faults, StreamInv, TypeOK
    <3>2. CASE Leave(c)
      BY <3>2 DEF Leave, faults, StreamInv, TypeOK
    <3>3. CASE Drop(c)
      BY <3>3, EventStreamAssumption DEF Drop, client, StreamInv, TypeOK
    <3> QED
      BY <1>9, <3>1, <3>2, <3>3
  <2> QED
    BY <2>1, <2>2, DisconnectedInv DEF StreamInv, TypeOK
<1>10. CASE Restart
  BY <1>10, RestartInv
<1>11. CASE UNCHANGED vars
  BY <1>11 DEF vars, client, faults, StreamInv, LocalInv, TypeOK, ReceivedInOrder,
               FlightContinues, CursorBehind, BatchContinues, NothingWithoutConnection, Streaming
<1> QED
  BY <1>1, <1>2, <1>3, <1>4, <1>5, <1>6, <1>7, <1>8, <1>9, <1>10, <1>11 DEF Next, Generator

(* StreamInv is an invariant of the delivery. *)
THEOREM StreamInvariant == Spec => []StreamInv
BY StreamInvInit, StreamInvNext, PTL DEF Spec

(* The variables keep their types; in particular a stream never holds an       *)
(* event the log does not.                                                     *)
THEOREM TypeCorrect == Spec => []TypeOK
<1>1. StreamInv => TypeOK
  BY DEF StreamInv
<1> QED
  BY <1>1, StreamInvariant, PTL

(* Exactly-once, in-order delivery over any number of connections: what a      *)
(* client has received is 1, 2, ..., n for some n not beyond the log.          *)
THEOREM InOrderDelivery == Spec => []DeliveredInOrder
<1>1. StreamInv => DeliveredInOrder
  <2> SUFFICES ASSUME StreamInv, NEW c \in Clients
               PROVE  /\ Len(got[c]) <= Len(log)
                      /\ \A i \in DOMAIN got[c] : got[c][i] = i
    BY DEF DeliveredInOrder
  <2>1. /\ got[c] \in Seq(Nat) /\ Len(got[c]) \in Nat /\ Len(net[c]) \in Nat /\ Len(log) \in Nat
        /\ DOMAIN got[c] = 1 .. Len(got[c])
    BY DEF StreamInv, TypeOK
  <2>2. ReceivedInOrder(c)
    BY DEF StreamInv, LocalInv
  <2>3. Len(got[c]) + Len(net[c]) <= Len(log) /\ \A i \in 1 .. Len(got[c]) : got[c][i] = i
    BY <2>2 DEF ReceivedInOrder
  <2>4. \A a, b, l \in Nat : a + b <= l => a <= l
    OBVIOUS
  <2>5. Len(got[c]) <= Len(log)
    BY <2>1, <2>3, <2>4
  <2> QED
    BY <2>1, <2>3, <2>5
<1> QED
  BY <1>1, StreamInvariant, PTL

(* The endpoint implements the abstract feed: every step publishes at the end  *)
(* of the log, hands one client its next event, or is invisible.               *)
THEOREM FeedRefinement == Spec => ImplementsFeed
<1>1. Init => Feed!Init
  BY DEF Init, Feed!Init
<1>2. StreamInv /\ [Next]_vars => [Feed!Next]_<<log, got>>
  <2> SUFFICES ASSUME StreamInv, [Next]_vars
               PROVE  [Feed!Next]_<<log, got>>
    OBVIOUS
  <2>1. ASSUME NEW k \in Kinds, Persist(k)
        PROVE  Feed!Next
    BY <2>1 DEF Persist, client, Feed!Next, Feed!Publish
  <2>2. ASSUME NEW c \in Clients, NEW closes \in BOOLEAN, Receive(c, closes)
        PROVE  Feed!Next
    <3>1. Head(net[c]) = Len(got[c]) + 1 /\ Len(got[c]) < Len(log)
      BY <2>2, ReceiveInv
    <3>2. Feed!Deliver(c)
      BY <2>2, <3>1 DEF Receive, Feed!Deliver
    <3> QED
      BY <3>2 DEF Feed!Next
  <2>3. ASSUME \/ Notify \/ SkipNotify \/ Restart
               \/ \E c \in Clients : \/ Connect(c) \/ Generator(c) \/ EndOfResponse(c)
                                     \/ Leave(c) \/ Drop(c)
        PROVE  UNCHANGED <<log, got>>
    BY <2>3 DEF Notify, SkipNotify, Restart, Connect, Generator, Query, Yield, EnterWait,
                HeartbeatTimeout, EndOfResponse, Leave, Drop, client
  <2>4. CASE UNCHANGED vars
    BY <2>4 DEF vars
  <2> QED
    BY <2>1, <2>2, <2>3, <2>4 DEF Next
<1> QED
  BY <1>1, <1>2, StreamInvariant, PTL DEF Spec, ImplementsFeed, Feed!Spec
==============================================================================
