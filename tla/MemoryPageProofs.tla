--------------------------- MODULE MemoryPageProofs ---------------------------
(***************************************************************************)
(* Proofs about MemoryPage for every set of memories, every page size and  *)
(* any number of requests in flight.                                       *)
(*                                                                         *)
(* UnchangedListedOnce is not inductive: it does not say what an answer    *)
(* that is still on its way will add.  PageInv cuts the listing at its     *)
(* cursors: the list on the screen covers the rows up to its cursor, an    *)
(* answer in flight those between the cursor it was asked with and the one *)
(* it brings, each row once (Covers); and a page that continues the        *)
(* present listing was asked with its cursor.  That rows are ordered by    *)
(* (updated_at, id) without ties, and that an answer is the LIMIT first of *)
(* what follows the cursor, is all the argument needs of the query.        *)
(***************************************************************************)
EXTENDS MemoryPage, FiniteSetTheorems, SequenceTheorems, TLAPS

(* The row of m in a table, and how often a list shows m. *)
At(st, m) == [memory |-> m, stamp |-> st[m]]
Once(s, m) == \E k \in DOMAIN s : s[k] = m /\ \A l \in DOMAIN s : s[l] = m => l = k
Never(s, m) == \A k \in DOMAIN s : s[k] # m

(* The row of m is behind the cursor "from" and not behind the cursor "to". *)
Between(row, from, to) == After(row, from) /\ (to = NoRow \/ ~ After(row, to))

(* A list shows each row between two cursors once and no other, as far as the  *)
(* rows outside ch are concerned.                                              *)
Covers(st, s, from, to, ch) ==
  \A m \in Memories \ ch : st[m] # 0 =>
    IF Between(At(st, m), from, to) THEN Once(s, m) ELSE Never(s, m)

AllChangesCount == Counted = {"write", "retrieval"}

LoadOK(call, st) ==
  /\ call.cursor = NoRow
  /\ call.answer # NoAnswer /\ AllChangesCount =>
       Covers(st, call.answer.items, NoRow, call.answer.next, call.changed)

(* A page of the present listing continues it, whenever it was queried. *)
MoreOK(call, st, cursor, ch, mix) ==
  ~ call.stale =>
    /\ cursor # NoRow
    /\ call.answer = NoAnswer => call.cursor = cursor
    /\ call.answer # NoAnswer =>
         /\ call.answer.next # NoRow => After(call.answer.next, cursor)
         /\ ~ mix /\ AllChangesCount => Covers(st, call.answer.items, cursor, call.answer.next, ch)

CallOK(call, st, cursor, ch, mix) ==
  /\ call.answer # NoAnswer /\ call.answer.next # NoRow => call.answer.items # << >>
  /\ call.kind = "load" => LoadOK(call, st)
  /\ call.kind = "more" => MoreOK(call, st, cursor, ch, mix)

More(c) == calls[c] # NoCall /\ calls[c].kind = "more"

PageInv ==
  /\ TypeOK
  /\ nextCursor # NoRow => items # << >>
  /\ items # << >> /\ ~ mixed /\ AllChangesCount => Covers(stamp, items, NoRow, nextCursor, changed)
  /\ \A c \in Calls : calls[c] # NoCall => CallOK(calls[c], stamp, nextCursor, changed, mixed)
  /\ \A c, d \in Calls : More(c) /\ More(d) => c = d

------------------------------------------------------------------------------
(* The order of the rows and of the cursors. *)

LEMMA RowFields ==
  ASSUME NEW a \in Row
  PROVE  a.memory \in Nat /\ a.memory \in Memories /\ a.stamp \in Nat \ {0} /\ a.stamp \in Stamps /\ a # NoRow
BY MemoryPageAssumption, NothingAssumption DEF Row

LEMMA BeforeIsAfter ==
  ASSUME NEW a \in Row, NEW b \in Row
  PROVE  /\ Before(a, b) => After(b, a) /\ ~ After(a, b)
         /\ ~ Before(a, a) /\ ~ After(a, a)
BY RowFields DEF Before, After

LEMMA AfterIsTransitive ==
  ASSUME NEW a \in Row, NEW b \in Row, NEW c \in Row \cup {NoRow}, After(a, b), After(b, c)
  PROVE  After(a, c)
<1>1. CASE c = NoRow
  BY <1>1 DEF After
<1>2. CASE c # NoRow
  <2>1. c \in Row
    BY <1>2
  <2> QED
    BY <2>1, RowFields DEF After
<1> QED
  BY <1>1, <1>2

LEMMA AtIsRow ==
  ASSUME NEW st \in [Memories -> Stamps \cup {0}], NEW m \in Memories, st[m] # 0
  PROVE  At(st, m) \in Row
BY DEF At, Row

LEMMA RowsAt ==
  ASSUME TypeOK
  PROVE  /\ Rows \subseteq Row
         /\ \A row \in Rows : row.memory \in Memories /\ row = At(stamp, row.memory)
         /\ \A m \in Memories : stamp[m] # 0 => At(stamp, m) \in Rows /\ At(stamp, m) \in Row
BY DEF TypeOK, Rows, Active, Row, At

------------------------------------------------------------------------------
(* One answer of list_owned. *)

LEMMA PageFacts ==
  ASSUME NEW rows, rows \subseteq Row, NEW shown \in Pages(rows)
  PROVE  /\ shown \in Seq(rows) /\ Len(shown) \in 0 .. PageSize /\ DOMAIN shown = 1 .. Len(shown)
         /\ \A k, l \in DOMAIN shown : k < l => Before(shown[k], shown[l])
         /\ \A row \in rows \ Range(shown) : /\ Len(shown) = PageSize
                                             /\ \A k \in DOMAIN shown : Before(shown[k], row)
<1>1. PICK n \in 0 .. PageSize : shown \in [1 .. n -> rows]
  BY DEF Pages
<1>2. n \in Nat
  BY <1>1, MemoryPageAssumption
<1>3. shown \in Seq(rows)
  BY <1>1, <1>2, SeqDef
<1>4. Len(shown) = n
  BY <1>1, <1>2, <1>3, LenProperties
<1> QED
  BY <1>1, <1>3, <1>4 DEF Pages

LEMMA ListCovers ==
  ASSUME TypeOK, NEW cursor \in Row \cup {NoRow}, NEW a \in List(cursor)
  PROVE  /\ a \in Answer
         /\ a.next # NoRow => a.items # << >> /\ After(a.next, cursor)
         /\ \A ch : Covers(stamp, a.items, cursor, a.next, ch)
<1> DEFINE rows == {row \in Rows : After(row, cursor)}
<1>1. PICK shown \in Pages(rows) :
        a = [items |-> [k \in DOMAIN shown |-> shown[k].memory],
             next |-> IF Range(shown) = rows THEN NoRow ELSE Last(shown)]
  BY DEF List
<1> DEFINE n == Len(shown)
<1>2. rows \subseteq Row /\ rows \subseteq Rows /\ \A row \in rows : After(row, cursor)
  BY RowsAt
<1>3. \A m \in Memories : stamp[m] # 0 /\ After(At(stamp, m), cursor) => At(stamp, m) \in rows
  BY RowsAt
<1> HIDE DEF rows
<1>4. /\ shown \in Seq(rows) /\ n \in 0 .. PageSize /\ DOMAIN shown = 1 .. n
      /\ \A k, l \in DOMAIN shown : k < l => Before(shown[k], shown[l])
      /\ \A row \in rows \ Range(shown) : /\ n = PageSize
                                          /\ \A k \in DOMAIN shown : Before(shown[k], row)
  BY <1>2, PageFacts
<1>5. n \in Nat /\ \A k \in 1 .. n : shown[k] \in rows /\ shown[k] \in Row
  BY <1>2, <1>4, ElementOfSeq, LenProperties
<1>6. DOMAIN a.items = 1 .. n /\ \A k \in 1 .. n : a.items[k] = shown[k].memory
  BY <1>1, <1>4
<1>7. Range(shown) \subseteq rows
  BY <1>4, <1>5 DEF Range
<1>8. ASSUME Range(shown) # rows
      PROVE  n = PageSize /\ n \in 1 .. n /\ a.next = shown[n]
  <2>1. PICK row \in rows : row \notin Range(shown)
    BY <1>7, <1>8
  <2>2. n = PageSize
    BY <1>4, <2>1
  <2>3. n \in 1 .. n
    BY <2>2, MemoryPageAssumption
  <2>4. a.next = shown[n]
    BY <1>1, <1>8 DEF Last
  <2> QED
    BY <2>2, <2>3, <2>4
<1>9. Range(shown) = rows => a.next = NoRow
  BY <1>1
<1>10. a \in Answer
  <2>1. a.items \in [1 .. n -> Memories]
    <3>1. a.items = [k \in DOMAIN shown |-> shown[k].memory]
      BY <1>1
    <3>2. \A k \in 1 .. n : shown[k].memory \in Memories
      BY <1>5, RowFields
    <3> QED
      BY <1>4, <3>1, <3>2
  <2>2. a.items \in Seq(Memories)
    BY <1>5, <2>1, SeqDef
  <2>3. a.next \in Row \cup {NoRow}
    BY <1>5, <1>8, <1>9
  <2>4. a = [items |-> a.items, next |-> a.next]
    BY <1>1
  <2> QED
    BY <2>2, <2>3, <2>4 DEF Answer
<1>11. a.next # NoRow => a.items # << >> /\ After(a.next, cursor)
  <2> SUFFICES ASSUME a.next # NoRow
               PROVE  a.items # << >> /\ After(a.next, cursor)
    OBVIOUS
  <2>1. n \in 1 .. n /\ a.next = shown[n]
    BY <1>8, <1>9
  <2>2. n \in DOMAIN a.items
    BY <1>6, <2>1
  <2>3. DOMAIN << >> = {}
    OBVIOUS
  <2> QED
    BY <1>2, <1>5, <2>1, <2>2, <2>3
<1>12. ASSUME NEW m \in Memories, stamp[m] # 0
       PROVE  IF Between(At(stamp, m), cursor, a.next) THEN Once(a.items, m) ELSE Never(a.items, m)
  <2> DEFINE row == At(stamp, m)
  <2>1. row \in Row /\ row.memory = m
    BY <1>12, RowsAt DEF At
  <2>2. \A k \in 1 .. n : a.items[k] = m => shown[k] = row
    BY <1>2, <1>5, <1>6, RowsAt
  <2> HIDE DEF row
  <2>3. CASE row \in Range(shown)
    <3>1. PICK k \in 1 .. n : shown[k] = row
      BY <1>4, <2>3 DEF Range
    <3>2. \A l \in 1 .. n : shown[l] = row => l = k
      <4>1. ~ Before(row, row)
        BY <2>1, BeforeIsAfter
      <4>2. \A l \in 1 .. n : shown[l] = row => ~ (l < k) /\ ~ (k < l)
        BY <1>4, <3>1, <4>1
      <4> QED
        BY <1>5, <4>2
    <3>3. Once(a.items, m)
      BY <1>6, <2>1, <2>2, <3>1, <3>2 DEF Once
    <3>4. After(row, cursor)
      BY <1>2, <1>5, <3>1
    <3>5. a.next = NoRow \/ ~ After(row, a.next)
      <4>1. CASE a.next = NoRow
        BY <4>1
      <4>2. CASE a.next # NoRow
        <5>1. n \in 1 .. n /\ a.next = shown[n]
          BY <1>8, <1>9, <4>2
        <5>2. CASE k = n
          BY <2>1, <3>1, <5>1, <5>2, BeforeIsAfter
        <5>3. CASE k # n
          <6>1. k < n
            BY <1>5, <5>3
          <6>2. Before(row, a.next) /\ a.next \in Row
            BY <1>4, <1>5, <3>1, <5>1, <6>1
          <6> QED
            BY <2>1, <6>2, BeforeIsAfter
        <5> QED
          BY <5>2, <5>3
      <4> QED
        BY <4>1, <4>2
    <3> QED
      BY <3>3, <3>4, <3>5 DEF Between, row
  <2>4. CASE row \notin Range(shown)
    <3>1. Never(a.items, m)
      BY <1>4, <1>6, <2>2, <2>4 DEF Never, Range
    <3>2. ~ Between(row, cursor, a.next)
      <4> SUFFICES ASSUME After(row, cursor)
                   PROVE  a.next # NoRow /\ After(row, a.next)
        BY DEF Between
      <4>1. row \in rows
        BY <1>3, <1>12 DEF row
      <4>2. n \in 1 .. n /\ a.next = shown[n] /\ Before(shown[n], row)
        BY <1>4, <1>8, <2>4, <4>1
      <4>3. a.next \in Row
        BY <1>5, <4>2
      <4> QED
        BY <2>1, <4>2, <4>3, BeforeIsAfter, RowFields
    <3> QED
      BY <3>1, <3>2 DEF row
  <2> QED
    BY <2>3, <2>4
<1> QED
  BY <1>10, <1>11, <1>12 DEF Covers

------------------------------------------------------------------------------
(* Lists under changes of the table, and lists put together. *)

(* Rows that change are no longer spoken of. *)
LEMMA CoversLater ==
  ASSUME NEW st, NEW st2, NEW s, NEW from, NEW to, NEW ch, NEW ch2,
         Covers(st, s, from, to, ch), ch \subseteq ch2,
         \A m \in Memories \ ch2 : st2[m] = st[m]
  PROVE  Covers(st2, s, from, to, ch2)
<1> SUFFICES ASSUME NEW m \in Memories \ ch2, st2[m] # 0
             PROVE  IF Between(At(st2, m), from, to) THEN Once(s, m) ELSE Never(s, m)
  BY DEF Covers
<1>1. At(st2, m) = At(st, m) /\ m \in Memories \ ch /\ st[m] # 0
  BY DEF At
<1> QED
  BY <1>1 DEF Covers

LEMMA OnceOfConcat ==
  ASSUME NEW s \in Seq(Memories), NEW t \in Seq(Memories), NEW m
  PROVE  /\ Once(s, m) /\ Never(t, m) => Once(s \o t, m)
         /\ Never(s, m) /\ Once(t, m) => Once(s \o t, m)
         /\ Never(s, m) /\ Never(t, m) => Never(s \o t, m)
<1> DEFINE u == s \o t
           n == Len(s)
<1>1. /\ n \in Nat /\ Len(t) \in Nat /\ DOMAIN s = 1 .. n /\ DOMAIN t = 1 .. Len(t)
      /\ DOMAIN u = 1 .. n + Len(t)
      /\ \A k \in 1 .. n : u[k] = s[k]
      /\ \A k \in 1 .. Len(t) : u[n + k] = t[k]
  BY LenProperties, ConcatProperties
<1>2. \A k \in DOMAIN u : \/ k \in 1 .. n
                          \/ k - n \in 1 .. Len(t) /\ u[k] = t[k - n]
  <2> TAKE k \in DOMAIN u
  <2>1. CASE k <= n
    BY <1>1, <2>1
  <2>2. CASE ~ (k <= n)
    <3>1. k - n \in 1 .. Len(t) /\ k = n + (k - n)
      BY <1>1, <2>2
    <3> QED
      BY <1>1, <3>1
  <2> QED
    BY <2>1, <2>2
<1> HIDE DEF u, n
<1>3. ASSUME Once(s, m), Never(t, m)
      PROVE  Once(u, m)
  <2>1. PICK k \in 1 .. n : s[k] = m /\ \A l \in 1 .. n : s[l] = m => l = k
    BY <1>1, <1>3 DEF Once
  <2>2. k \in DOMAIN u /\ u[k] = m
    BY <1>1, <2>1
  <2>3. \A l \in DOMAIN u : u[l] = m => l = k
    BY <1>1, <1>2, <1>3, <2>1 DEF Never
  <2> QED
    BY <2>2, <2>3 DEF Once
<1>4. ASSUME Never(s, m), Once(t, m)
      PROVE  Once(u, m)
  <2>1. PICK k \in 1 .. Len(t) : t[k] = m /\ \A l \in 1 .. Len(t) : t[l] = m => l = k
    BY <1>1, <1>4 DEF Once
  <2>2. n + k \in DOMAIN u /\ u[n + k] = m
    BY <1>1, <2>1
  <2>3. ASSUME NEW l \in DOMAIN u, u[l] = m
        PROVE  l = n + k
    <3>1. l \notin 1 .. n
      BY <1>1, <1>4, <2>3 DEF Never
    <3>2. l - n = k
      BY <1>2, <2>1, <2>3, <3>1
    <3> QED
      BY <1>1, <3>2
  <2> QED
    BY <2>2, <2>3 DEF Once
<1>5. ASSUME Never(s, m), Never(t, m)
      PROVE  Never(u, m)
  BY <1>1, <1>2, <1>5 DEF Never
<1> QED
  BY <1>3, <1>4, <1>5 DEF u

(* A page that starts where the list ends continues it. *)
LEMMA CoversConcat ==
  ASSUME NEW st \in [Memories -> Stamps \cup {0}], NEW s \in Seq(Memories), NEW t \in Seq(Memories),
         NEW cursor \in Row, NEW next \in Row \cup {NoRow}, NEW ch,
         Covers(st, s, NoRow, cursor, ch), Covers(st, t, cursor, next, ch),
         next # NoRow => After(next, cursor)
  PROVE  Covers(st, s \o t, NoRow, next, ch)
<1> SUFFICES ASSUME NEW m \in Memories \ ch, st[m] # 0
             PROVE  IF Between(At(st, m), NoRow, next) THEN Once(s \o t, m) ELSE Never(s \o t, m)
  BY DEF Covers
<1> DEFINE row == At(st, m)
<1>1. row \in Row
  BY AtIsRow
<1>2. /\ IF Between(row, NoRow, cursor) THEN Once(s, m) ELSE Never(s, m)
      /\ IF Between(row, cursor, next) THEN Once(t, m) ELSE Never(t, m)
  BY DEF Covers
<1> HIDE DEF row
<1>3. cursor # NoRow /\ After(row, NoRow)
  BY RowFields DEF After
<1>4. CASE After(row, cursor)
  <2>1. Never(s, m)
    BY <1>2, <1>3, <1>4 DEF Between
  <2>2. IF Between(row, NoRow, next) THEN Once(t, m) ELSE Never(t, m)
    BY <1>2, <1>3, <1>4 DEF Between
  <2> QED
    BY <2>1, <2>2, OnceOfConcat DEF row
<1>5. CASE ~ After(row, cursor)
  <2>1. Once(s, m) /\ Never(t, m)
    BY <1>2, <1>3, <1>5 DEF Between
  <2>2. next = NoRow \/ ~ After(row, next)
    <3>1. CASE next # NoRow
      <4>1. next \in Row
        BY <3>1
      <4> QED
        BY <1>1, <1>5, <3>1, <4>1, AfterIsTransitive
    <3> QED
      BY <3>1
  <2>3. Between(row, NoRow, next)
    BY <1>3, <2>2 DEF Between
  <2> QED
    BY <2>1, <2>3, OnceOfConcat DEF row
<1> QED
  BY <1>4, <1>5

------------------------------------------------------------------------------
(* Calls. *)

LEMMA CallFields ==
  ASSUME NEW call \in Call
  PROVE  /\ call.kind \in {"load", "more"} /\ call.cursor \in Row \cup {NoRow}
         /\ call.answer \in Answer \cup {NoAnswer} /\ call.changed \subseteq Memories
         /\ call.stale \in BOOLEAN /\ call # NoCall
BY NothingAssumption DEF Call

LEMMA CallUpdate ==
  ASSUME NEW call \in Call, NEW ch, NEW st
  PROVE  /\ [call EXCEPT !.changed = ch]
              = [kind |-> call.kind, cursor |-> call.cursor, answer |-> call.answer,
                 changed |-> ch, stale |-> call.stale]
         /\ [call EXCEPT !.stale = st]
              = [kind |-> call.kind, cursor |-> call.cursor, answer |-> call.answer,
                 changed |-> call.changed, stale |-> st]
BY DEF Call

(* A new request has no answer. *)
LEMMA NewCallFacts ==
  ASSUME NEW kind \in {"load", "more"}, NEW cursor \in Row \cup {NoRow}
  PROVE  /\ NewCall(kind, cursor) \in Call /\ NewCall(kind, cursor) # NoCall
         /\ NewCall(kind, cursor).kind = kind /\ NewCall(kind, cursor).cursor = cursor
         /\ NewCall(kind, cursor).answer = NoAnswer
<1>1. NewCall(kind, cursor) \in Call
  BY DEF NewCall, Call
<1> QED
  BY <1>1, NothingAssumption DEF NewCall

LEMMA CallType ==
  ASSUME PageInv, NEW c \in Calls, calls[c] # NoCall
  PROVE  calls[c] \in Call /\ CallOK(calls[c], stamp, nextCursor, changed, mixed)
BY DEF PageInv, TypeOK

(* The answer of a query, for the listing of its call. *)
LEMMA AnsweredOK ==
  ASSUME TypeOK, NEW call \in Call, call.answer = NoAnswer, NEW a \in List(call.cursor),
         NEW new, new = [kind |-> call.kind, cursor |-> NoRow, answer |-> a,
                         changed |-> call.changed, stale |-> call.stale],
         NEW cursor, NEW ch, NEW mix, CallOK(call, stamp, cursor, ch, mix)
  PROVE  new \in Call /\ CallOK(new, stamp, cursor, ch, mix)
<1>1. /\ a \in Answer
      /\ a.next # NoRow => a.items # << >> /\ After(a.next, call.cursor)
      /\ \A x : Covers(stamp, a.items, call.cursor, a.next, x)
  BY CallFields, ListCovers
<1>2. /\ new.kind = call.kind /\ new.cursor = NoRow /\ new.answer = a
      /\ new.changed = call.changed /\ new.stale = call.stale
  OBVIOUS
<1>3. new \in Call
  BY <1>1, CallFields DEF Call
<1>4. call.kind = "load" => LoadOK(new, stamp)
  BY <1>1, <1>2 DEF CallOK, LoadOK
<1>5. call.kind = "more" => MoreOK(new, stamp, cursor, ch, mix)
  BY <1>1, <1>2, NothingAssumption DEF CallOK, MoreOK
<1> QED
  BY <1>1, <1>2, <1>3, <1>4, <1>5 DEF CallOK

------------------------------------------------------------------------------
(* The steps. *)

LEMMA PageInvInit == Init => PageInv
<1> SUFFICES ASSUME Init PROVE PageInv
  OBVIOUS
<1>1. PICK c \in Calls : calls = [[d \in Calls |-> NoCall] EXCEPT ![c] = NewCall("load", NoRow)]
  BY DEF Init
<1> DEFINE new == NewCall("load", NoRow)
<1>2. new \in Call /\ new # NoCall /\ new.kind = "load" /\ new.cursor = NoRow /\ new.answer = NoAnswer
  BY NewCallFacts
<1> HIDE DEF new
<1>3. \A d \in Calls : calls[d] = IF d = c THEN new ELSE NoCall
  BY <1>1 DEF new
<1>4. TypeOK
  <2>1. calls \in [Calls -> Call \cup {NoCall}]
    BY <1>1, <1>2 DEF new
  <2>2. loadingMore = FALSE /\ ~ \E d \in Calls : calls[d] # NoCall /\ calls[d].kind = "more"
    BY <1>2, <1>3 DEF Init
  <2>3. loadingMore \in BOOLEAN
        /\ (loadingMore <=> \E d \in Calls : calls[d] # NoCall /\ calls[d].kind = "more")
    BY <2>2, Zenon
  <2>4. /\ stamp \in [Memories -> Stamps \cup {0}]
        /\ items \in Seq(Memories) /\ nextCursor \in Row \cup {NoRow}
        /\ changed \subseteq Memories /\ mixed \in BOOLEAN
    <3>1. /\ stamp \in [Memories -> Stamps \cup {0}] /\ items = << >> /\ nextCursor = NoRow
          /\ changed = {} /\ mixed = FALSE
      BY Zenon DEF Init
    <3>2. items \in Seq(Memories)
      BY <3>1, EmptySeq
    <3>3. changed \subseteq Memories
      BY <3>1
    <3>4. mixed \in BOOLEAN
      BY <3>1
    <3> QED
      BY <3>1, <3>2, <3>3, <3>4
  <2> QED
    BY <2>1, <2>3, <2>4, Zenon DEF TypeOK
<1>5. \A d \in Calls : calls[d] # NoCall => CallOK(calls[d], stamp, nextCursor, changed, mixed)
  BY <1>2, <1>3 DEF CallOK, LoadOK
<1>6. \A d \in Calls : ~ More(d)
  BY <1>2, <1>3 DEF More
<1> QED
  BY <1>4, <1>5, <1>6 DEF PageInv, Init

(* Write and Touch: the rows that change are recorded where they matter. *)
LEMMA PageInvChange ==
  ASSUME PageInv, NEW S, S \subseteq Memories, NEW by \in {"write", "retrieval"}, Record(by, S),
         stamp' \in [Memories -> Stamps \cup {0}], \A m \in Memories \ S : stamp'[m] = stamp[m],
         UNCHANGED page
  PROVE  PageInv'
<1>1. UNCHANGED <<items, nextCursor, loadingMore, mixed>>
  BY DEF page
<1>2. CASE by \notin Counted
  <2>1. UNCHANGED <<changed, calls>> /\ ~ AllChangesCount
    BY <1>2 DEF Record, AllChangesCount
  <2>2. TypeOK'
    BY <1>1, <2>1 DEF PageInv, TypeOK
  <2>3. \A c \in Calls : calls'[c] # NoCall => CallOK(calls'[c], stamp', nextCursor', changed', mixed')
    BY <1>1, <2>1 DEF PageInv, CallOK, LoadOK, MoreOK
  <2> QED
    BY <1>1, <2>1, <2>2, <2>3 DEF PageInv, More, AllChangesCount
<1>3. CASE by \in Counted
  <2>1. /\ changed' = IF mixed THEN {} ELSE changed \cup S
        /\ calls' = [c \in Calls |-> IF Answered(c, "load") THEN [calls[c] EXCEPT !.changed = @ \cup S]
                                     ELSE calls[c]]
    BY <1>3, Zenon DEF Record
  <2>2. ASSUME NEW c \in Calls
        PROVE  /\ calls[c] = NoCall => calls'[c] = NoCall
               /\ calls[c] # NoCall =>
                    /\ calls'[c] \in Call /\ calls'[c] # NoCall /\ calls'[c].kind = calls[c].kind
                    /\ CallOK(calls'[c], stamp', nextCursor, changed', mixed)
    <3>1. CASE calls[c] = NoCall
      BY <2>1, <3>1 DEF Answered
    <3>2. CASE Answered(c, "load")
      <4> DEFINE new == [kind |-> calls[c].kind, cursor |-> calls[c].cursor, answer |-> calls[c].answer,
                         changed |-> calls[c].changed \cup S, stale |-> calls[c].stale]
      <4>1. calls[c] \in Call /\ calls[c].kind = "load" /\ LoadOK(calls[c], stamp)
            /\ CallOK(calls[c], stamp, nextCursor, changed, mixed) /\ calls[c].answer # NoAnswer
        BY <3>2, CallType DEF Answered, CallOK
      <4>2. calls'[c] = [calls[c] EXCEPT !.changed = calls[c].changed \cup S]
        BY <2>1, <3>2, Zenon
      <4>3. calls'[c] = new
        BY <4>1, <4>2, CallUpdate, Zenon
      <4>4. new \in Call /\ new # NoCall
        BY <4>1, CallFields, NothingAssumption DEF Call
      <4>5. AllChangesCount =>
              Covers(stamp', calls[c].answer.items, NoRow, calls[c].answer.next, calls[c].changed \cup S)
        <5>1. AllChangesCount =>
                Covers(stamp, calls[c].answer.items, NoRow, calls[c].answer.next, calls[c].changed)
          BY <4>1 DEF LoadOK
        <5> QED
          BY <5>1, CoversLater
      <4>6. CallOK(new, stamp', nextCursor, changed', mixed)
        BY <4>1, <4>5 DEF CallOK, LoadOK
      <4> QED
        BY <3>2, <4>1, <4>3, <4>4, <4>6 DEF Answered
    <3>3. CASE calls[c] # NoCall /\ ~ Answered(c, "load")
      <4>1. calls'[c] = calls[c]
        BY <2>1, <3>3
      <4>2. calls[c] \in Call /\ CallOK(calls[c], stamp, nextCursor, changed, mixed)
        BY <3>3, CallType
      <4>3. calls[c].kind = "load" => LoadOK(calls[c], stamp')
        BY <3>3, <4>2 DEF CallOK, LoadOK, Answered
      <4>4. ASSUME calls[c].kind = "more"
            PROVE  MoreOK(calls[c], stamp', nextCursor, changed', mixed)
        <5>1. MoreOK(calls[c], stamp, nextCursor, changed, mixed)
          BY <4>2, <4>4 DEF CallOK
        <5>2. ASSUME ~ mixed, Covers(stamp, calls[c].answer.items, nextCursor, calls[c].answer.next, changed)
              PROVE  Covers(stamp', calls[c].answer.items, nextCursor, calls[c].answer.next, changed')
          <6>1. changed' = changed \cup S
            BY <2>1, <5>2
          <6> QED
            BY <5>2, <6>1, CoversLater
        <5> QED
          BY <5>1, <5>2 DEF MoreOK
      <4> QED
        BY <3>3, <4>1, <4>2, <4>3, <4>4 DEF CallOK
    <3> QED
      BY <3>1, <3>2, <3>3
  <2>3. TypeOK'
    <3>1. calls' \in [Calls -> Call \cup {NoCall}]
      <4>1. \A c \in Calls : calls'[c] \in Call \cup {NoCall}
        BY <2>2
      <4>2. calls' = [c \in Calls |-> calls'[c]]
        BY <2>1
      <4> QED
        BY <4>1, <4>2
    <3>2. changed' \subseteq Memories
      BY <2>1 DEF PageInv, TypeOK
    <3>3. (\E c \in Calls : calls[c] # NoCall /\ calls[c].kind = "more")
            <=> \E c \in Calls : calls'[c] # NoCall /\ calls'[c].kind = "more"
      BY <2>2
    <3> QED
      BY <1>1, <3>1, <3>2, <3>3 DEF PageInv, TypeOK
  <2>4. items # << >> /\ ~ mixed /\ AllChangesCount => Covers(stamp', items, NoRow, nextCursor, changed')
    <3> SUFFICES ASSUME items # << >>, ~ mixed, AllChangesCount
                 PROVE  Covers(stamp', items, NoRow, nextCursor, changed')
      OBVIOUS
    <3>1. changed' = changed \cup S /\ Covers(stamp, items, NoRow, nextCursor, changed)
      BY <2>1 DEF PageInv
    <3> QED
      BY <3>1, CoversLater
  <2>5. \A c, d \in Calls : More(c)' /\ More(d)' => c = d
    BY <2>2 DEF PageInv, More
  <2> QED
    BY <1>1, <2>2, <2>3, <2>4, <2>5 DEF PageInv, AllChangesCount
<1> QED
  BY <1>2, <1>3

LEMMA PageInvWrite ==
  ASSUME PageInv, NEW m \in Memories, Write(m)
  PROVE  PageInv'
<1>1. stamp' \in [Memories -> Stamps \cup {0}] /\ \A k \in Memories \ {m} : stamp'[k] = stamp[k]
  BY DEF Write, PageInv, TypeOK
<1> QED
  BY <1>1, PageInvChange DEF Write

LEMMA PageInvTouch ==
  ASSUME PageInv, NEW S \in SUBSET Memories, Touch(S)
  PROVE  PageInv'
<1>1. stamp' \in [Memories -> Stamps \cup {0}] /\ \A k \in Memories \ S : stamp'[k] = stamp[k]
  BY DEF Touch, PageInv, TypeOK
<1> QED
  BY <1>1, PageInvChange DEF Touch

(* What the requests in flight keep when one of them is replaced. *)
LEMMA OneCall ==
  ASSUME NEW c \in Calls, NEW new \in Call \cup {NoCall}, calls \in [Calls -> Call \cup {NoCall}],
         calls' = [calls EXCEPT ![c] = new]
  PROVE  /\ calls' \in [Calls -> Call \cup {NoCall}]
         /\ calls'[c] = new /\ \A d \in Calls \ {c} : calls'[d] = calls[d]
OBVIOUS

LEMMA PageInvLoadMore ==
  ASSUME PageInv, LoadMore
  PROVE  PageInv'
<1> DEFINE new == NewCall("more", nextCursor)
<1>1. PICK c \in Calls : calls[c] = NoCall /\ calls' = [calls EXCEPT ![c] = new]
  BY DEF LoadMore, Send
<1>2. /\ nextCursor # NoRow /\ loadingMore' = TRUE
      /\ UNCHANGED <<stamp, items, nextCursor, changed, mixed>>
  BY DEF LoadMore
<1>3. \A d \in Calls : ~ More(d)
  BY DEF LoadMore, PageInv, TypeOK, More
<1>4. nextCursor \in Row \cup {NoRow} /\ calls \in [Calls -> Call \cup {NoCall}]
  BY DEF PageInv, TypeOK
<1>5. new \in Call /\ new # NoCall /\ new.kind = "more" /\ new.cursor = nextCursor /\ new.answer = NoAnswer
  BY <1>4, NewCallFacts
<1> HIDE DEF new
<1>6. /\ calls' \in [Calls -> Call \cup {NoCall}]
      /\ calls'[c] = new /\ \A d \in Calls \ {c} : calls'[d] = calls[d]
  BY <1>1, <1>4, <1>5, OneCall
<1>7. More(c)' /\ \A d \in Calls : More(d)' => d = c
  BY <1>3, <1>5, <1>6 DEF More
<1>8. TypeOK'
  <2>1. loadingMore' \in BOOLEAN
        /\ (loadingMore' <=> \E d \in Calls : calls'[d] # NoCall /\ calls'[d].kind = "more")
    BY <1>2, <1>7, Zenon DEF More
  <2> QED
    BY <1>2, <1>6, <2>1 DEF PageInv, TypeOK
<1>9. CallOK(new, stamp, nextCursor, changed, mixed)
  BY <1>2, <1>5 DEF CallOK, MoreOK
<1>10. \A d \in Calls : calls'[d] # NoCall => CallOK(calls'[d], stamp', nextCursor', changed', mixed')
  BY <1>2, <1>6, <1>9 DEF PageInv
<1> QED
  BY <1>2, <1>7, <1>8, <1>10 DEF PageInv

LEMMA PageInvReload ==
  ASSUME PageInv, Reload
  PROVE  PageInv'
<1> DEFINE new == NewCall("load", NoRow)
<1>1. PICK c \in Calls : calls[c] = NoCall /\ calls' = [calls EXCEPT ![c] = new]
  BY DEF Reload, Send
<1>2. UNCHANGED <<stamp, items, nextCursor, loadingMore, changed, mixed>>
  BY DEF Reload, page
<1>3. new \in Call /\ new # NoCall /\ new.kind = "load" /\ new.cursor = NoRow /\ new.answer = NoAnswer
  BY NewCallFacts
<1> HIDE DEF new
<1>4. /\ calls' \in [Calls -> Call \cup {NoCall}]
      /\ calls'[c] = new /\ \A d \in Calls \ {c} : calls'[d] = calls[d]
  BY <1>1, <1>3, OneCall DEF PageInv, TypeOK
<1>5. \A d \in Calls : More(d)' <=> More(d)
  BY <1>1, <1>3, <1>4 DEF More
<1>6. TypeOK'
  BY <1>2, <1>4, <1>5 DEF PageInv, TypeOK, More
<1>7. CallOK(new, stamp, nextCursor, changed, mixed)
  BY <1>3 DEF CallOK, LoadOK
<1>8. \A d \in Calls : calls'[d] # NoCall => CallOK(calls'[d], stamp', nextCursor', changed', mixed')
  BY <1>2, <1>4, <1>7 DEF PageInv
<1> QED
  BY <1>2, <1>5, <1>6, <1>8 DEF PageInv

LEMMA PageInvQuery ==
  ASSUME PageInv, NEW c \in Calls, Query(c)
  PROVE  PageInv'
<1>1. calls[c] \in Call /\ CallOK(calls[c], stamp, nextCursor, changed, mixed)
      /\ calls[c] # NoCall /\ calls[c].answer = NoAnswer
  BY CallType DEF Query
<1>2. PICK a \in List(calls[c].cursor) :
        calls' = [calls EXCEPT ![c] = [kind |-> calls[c].kind, cursor |-> NoRow, answer |-> a,
                                       changed |-> calls[c].changed, stale |-> calls[c].stale]]
  BY Zenon DEF Query
<1> DEFINE new == [kind |-> calls[c].kind, cursor |-> NoRow, answer |-> a,
                   changed |-> calls[c].changed, stale |-> calls[c].stale]
<1>3. UNCHANGED <<stamp, items, nextCursor, loadingMore, changed, mixed>>
  BY DEF Query, page
<1>4. new.kind = calls[c].kind /\ calls' = [calls EXCEPT ![c] = new]
  BY <1>2
<1>5. TypeOK
  BY DEF PageInv
<1>6. new \in Call /\ CallOK(new, stamp, nextCursor, changed, mixed)
  BY <1>1, <1>5, AnsweredOK
<1>7. new # NoCall
  BY <1>6, CallFields
<1> HIDE DEF new
<1>8. /\ calls' \in [Calls -> Call \cup {NoCall}]
      /\ calls'[c] = new /\ \A d \in Calls \ {c} : calls'[d] = calls[d]
  BY <1>4, <1>6, OneCall DEF PageInv, TypeOK
<1>9. \A d \in Calls : More(d)' <=> More(d)
  BY <1>1, <1>4, <1>7, <1>8 DEF More
<1>10. TypeOK'
  BY <1>3, <1>8, <1>9 DEF PageInv, TypeOK, More
<1>11. \A d \in Calls : calls'[d] # NoCall => CallOK(calls'[d], stamp', nextCursor', changed', mixed')
  BY <1>3, <1>6, <1>8 DEF PageInv
<1> QED
  BY <1>3, <1>9, <1>10, <1>11 DEF PageInv

LEMMA PageInvFails ==
  ASSUME PageInv, NEW c \in Calls, CallFails(c)
  PROVE  PageInv'
<1>1. /\ calls[c] # NoCall /\ calls' = [calls EXCEPT ![c] = NoCall]
      /\ loadingMore' = (loadingMore /\ calls[c].kind # "more")
      /\ UNCHANGED <<stamp, items, nextCursor, changed, mixed>>
  BY DEF CallFails
<1>2. /\ calls' \in [Calls -> Call \cup {NoCall}]
      /\ calls'[c] = NoCall /\ \A d \in Calls \ {c} : calls'[d] = calls[d]
  BY <1>1, OneCall DEF PageInv, TypeOK
<1>3. \A d \in Calls : More(d)' <=> More(d) /\ d # c
  BY <1>2 DEF More
<1>4. loadingMore' \in BOOLEAN /\ (loadingMore' <=> \E d \in Calls : More(d)')
  <2>1. (\E d \in Calls : More(d)') <=> (\E d \in Calls : More(d)) /\ ~ More(c)
    <3>1. \A d \in Calls : More(d) /\ More(c) => d = c
      BY DEF PageInv
    <3> QED
      BY <1>3, <3>1
  <2>2. loadingMore <=> \E d \in Calls : More(d)
    BY Zenon DEF PageInv, TypeOK, More
  <2>3. loadingMore' = (loadingMore /\ ~ More(c))
    BY <1>1, Zenon DEF More
  <2> QED
    BY <2>1, <2>2, <2>3, Zenon
<1>5. TypeOK'
  BY <1>1, <1>2, <1>4 DEF PageInv, TypeOK, More
<1>6. \A d \in Calls : calls'[d] # NoCall => CallOK(calls'[d], stamp', nextCursor', changed', mixed')
  BY <1>1, <1>2 DEF PageInv
<1> QED
  BY <1>1, <1>3, <1>5, <1>6 DEF PageInv

(* load(): the listing begins again, and pages asked for before are stale.     *)
LEMMA PageInvLoaded ==
  ASSUME PageInv, NEW c \in Calls, Loaded(c)
  PROVE  PageInv'
<1>1. /\ calls[c] \in Call /\ calls[c].kind = "load" /\ calls[c].answer # NoAnswer
      /\ CallOK(calls[c], stamp, nextCursor, changed, mixed)
  BY CallType DEF Loaded, Answered
<1>2. calls[c].answer \in Answer /\ calls[c].changed \subseteq Memories /\ LoadOK(calls[c], stamp)
  BY <1>1, CallFields DEF CallOK
<1>3. /\ items' = calls[c].answer.items /\ nextCursor' = calls[c].answer.next
      /\ changed' = calls[c].changed /\ mixed' = FALSE
      /\ UNCHANGED <<stamp, loadingMore>>
  BY DEF Loaded
<1>4. calls' = [d \in Calls |-> IF d = c \/ calls[d] = NoCall THEN NoCall
                                ELSE [calls[d] EXCEPT !.stale = (calls[d].kind = "more")]]
  BY Zenon DEF Loaded
<1>5. ASSUME NEW d \in Calls
      PROVE  \/ /\ calls'[d] = NoCall
                /\ d = c \/ calls[d] = NoCall
             \/ /\ d # c /\ calls[d] # NoCall /\ calls'[d] # NoCall
                /\ calls'[d] \in Call /\ calls'[d].kind = calls[d].kind
                /\ CallOK(calls'[d], stamp, nextCursor', changed', mixed')
  <2>1. CASE d = c \/ calls[d] = NoCall
    BY <1>4, <2>1
  <2>2. CASE d # c /\ calls[d] # NoCall
    <3> DEFINE new == [kind |-> calls[d].kind, cursor |-> calls[d].cursor, answer |-> calls[d].answer,
                       changed |-> calls[d].changed, stale |-> (calls[d].kind = "more")]
    <3>1. calls[d] \in Call /\ CallOK(calls[d], stamp, nextCursor, changed, mixed)
      BY <2>2, CallType
    <3>2. calls'[d] = [calls[d] EXCEPT !.stale = (calls[d].kind = "more")]
      BY <1>4, <2>2, Zenon
    <3>3. calls'[d] = new
      BY <3>1, <3>2, CallUpdate, Zenon
    <3>4. (calls[d].kind = "more") \in BOOLEAN
      OBVIOUS
    <3>5. new \in Call
      BY <3>1, <3>4, CallFields DEF Call
    <3>6. new.kind = "more" => new.stale = TRUE
      OBVIOUS
    <3>7. /\ new.kind = calls[d].kind /\ new.cursor = calls[d].cursor
          /\ new.answer = calls[d].answer /\ new.changed = calls[d].changed
      OBVIOUS
    <3> HIDE DEF new
    <3>8. CallOK(new, stamp, nextCursor', changed', mixed')
      BY <3>1, <3>6, <3>7 DEF CallOK, LoadOK, MoreOK
    <3> QED
      BY <2>2, <3>3, <3>5, <3>7, <3>8, CallFields
  <2> QED
    BY <2>1, <2>2
<1>6. \A d \in Calls : More(d)' <=> More(d)
  BY <1>1, <1>5 DEF More
<1>7. TypeOK'
  <2>1. calls' \in [Calls -> Call \cup {NoCall}]
    <3>1. \A d \in Calls : calls'[d] \in Call \cup {NoCall}
      BY <1>5
    <3>2. calls' = [d \in Calls |-> calls'[d]]
      BY <1>4
    <3> QED
      BY <3>1, <3>2
  <2>2. items' \in Seq(Memories) /\ nextCursor' \in Row \cup {NoRow}
    BY <1>2, <1>3 DEF Answer
  <2>3. changed' \subseteq Memories /\ mixed' \in BOOLEAN
    BY <1>2, <1>3
  <2> QED
    BY <1>3, <1>6, <2>1, <2>2, <2>3 DEF PageInv, TypeOK, More
<1>8. nextCursor' # NoRow => items' # << >>
  BY <1>1, <1>3 DEF CallOK
<1>9. AllChangesCount => Covers(stamp, items', NoRow, nextCursor', changed')
  BY <1>1, <1>2, <1>3 DEF LoadOK
<1> QED
  BY <1>3, <1>5, <1>6, <1>7, <1>8, <1>9 DEF PageInv, AllChangesCount

(* loadMore(): a page of this listing continues it, any other mixes it.        *)
LEMMA PageInvLoadedMore ==
  ASSUME PageInv, NEW c \in Calls, LoadedMore(c)
  PROVE  PageInv'
<1>1. /\ calls[c] \in Call /\ calls[c] # NoCall /\ calls[c].kind = "more" /\ calls[c].answer # NoAnswer
      /\ CallOK(calls[c], stamp, nextCursor, changed, mixed) /\ More(c)
  BY CallType DEF LoadedMore, Answered, More
<1> DEFINE a == calls[c].answer
<1>2. a \in Answer /\ MoreOK(calls[c], stamp, nextCursor, changed, mixed) /\ calls[c].stale \in BOOLEAN
  BY <1>1, CallFields DEF CallOK
<1>3. a.items \in Seq(Memories) /\ a.next \in Row \cup {NoRow}
  BY <1>2 DEF Answer
<1>4. /\ items' = items \o a.items /\ nextCursor' = a.next
      /\ calls' = [calls EXCEPT ![c] = NoCall]
      /\ UNCHANGED stamp
  BY DEF LoadedMore
<1>5. mixed' = (mixed \/ calls[c].stale) /\ changed' = IF mixed' THEN {} ELSE changed
  BY Zenon DEF LoadedMore, Mix
<1>6. mixed' \in BOOLEAN
  BY <1>2, <1>5, Zenon DEF PageInv, TypeOK
<1>7. /\ calls' \in [Calls -> Call \cup {NoCall}]
      /\ calls'[c] = NoCall /\ \A d \in Calls \ {c} : calls'[d] = calls[d]
  BY <1>4, OneCall DEF PageInv, TypeOK
<1>8. \A d \in Calls : ~ More(d)'
  BY <1>1, <1>7 DEF PageInv, More
<1>9. items \in Seq(Memories) /\ stamp \in [Memories -> Stamps \cup {0}]
      /\ nextCursor \in Row \cup {NoRow} /\ changed \subseteq Memories
  BY DEF PageInv, TypeOK
<1>10. TypeOK'
  <2>1. items' \in Seq(Memories)
    BY <1>3, <1>4, <1>9, ConcatProperties
  <2>2. changed' \subseteq Memories
    BY <1>5, <1>9
  <2>3. loadingMore' \in BOOLEAN /\ (loadingMore' <=> \E d \in Calls : More(d)')
    <3>1. loadingMore' = FALSE
      BY DEF LoadedMore
    <3> QED
      BY <1>8, <3>1
  <2> QED
    BY <1>3, <1>4, <1>6, <1>7, <1>9, <2>1, <2>2, <2>3 DEF TypeOK, More
<1>11. nextCursor' # NoRow => items' # << >>
  <2> SUFFICES ASSUME a.next # NoRow
               PROVE  items' # << >>
    BY <1>4
  <2>1. a.items # << >>
    BY <1>1 DEF CallOK
  <2>2. Len(items') = Len(items) + Len(a.items) /\ Len(items) \in Nat
    BY <1>3, <1>4, <1>9, ConcatProperties, LenProperties
  <2>3. Len(a.items) \in Nat /\ Len(a.items) # 0
    BY <1>3, <2>1, EmptySeq, LenProperties
  <2> QED
    BY <2>2, <2>3
<1>12. ASSUME ~ mixed', AllChangesCount
       PROVE  Covers(stamp, items', NoRow, nextCursor', changed')
  <2>1. ~ mixed /\ ~ calls[c].stale
    BY <1>5, <1>12, Zenon
  <2>2. changed' = changed
    BY <1>5, <1>12
  <2>3. /\ nextCursor # NoRow
        /\ a.next # NoRow => After(a.next, nextCursor)
        /\ Covers(stamp, a.items, nextCursor, a.next, changed)
    BY <1>1, <1>2, <1>12, <2>1 DEF MoreOK
  <2>4. Covers(stamp, items, NoRow, nextCursor, changed) /\ nextCursor \in Row
    BY <1>9, <1>12, <2>1, <2>3 DEF PageInv
  <2> QED
    BY <1>3, <1>4, <1>9, <2>2, <2>3, <2>4, CoversConcat
<1>13. ASSUME NEW d \in Calls, calls'[d] # NoCall
       PROVE  CallOK(calls'[d], stamp, nextCursor', changed', mixed')
  <2>1. d # c /\ calls'[d] = calls[d] /\ CallOK(calls[d], stamp, nextCursor, changed, mixed)
    BY <1>7, <1>13 DEF PageInv
  <2>2. calls[d].kind # "more"
    BY <1>8, <1>13, <2>1 DEF More
  <2> QED
    BY <2>1, <2>2 DEF CallOK
<1> QED
  BY <1>4, <1>8, <1>10, <1>11, <1>12, <1>13 DEF PageInv, AllChangesCount

LEMMA PageInvNext == PageInv /\ [Next]_vars => PageInv'
<1> SUFFICES ASSUME PageInv, [Next]_vars PROVE PageInv'
  OBVIOUS
<1>1. ASSUME NEW m \in Memories, Write(m)
      PROVE  PageInv'
  BY <1>1, PageInvWrite
<1>2. ASSUME NEW S \in SUBSET Memories, Touch(S)
      PROVE  PageInv'
  BY <1>2, PageInvTouch
<1>3. CASE LoadMore \/ Reload
  BY <1>3, PageInvLoadMore, PageInvReload
<1>4. ASSUME NEW c \in Calls, Query(c) \/ Loaded(c) \/ LoadedMore(c) \/ CallFails(c)
      PROVE  PageInv'
  BY <1>4, PageInvQuery, PageInvLoaded, PageInvLoadedMore, PageInvFails
<1>5. CASE UNCHANGED vars
  <2>1. UNCHANGED <<stamp, items, nextCursor, loadingMore, calls, changed, mixed>>
    BY <1>5 DEF vars
  <2>2. TypeOK'
    BY <2>1 DEF PageInv, TypeOK
  <2>3. \A c \in Calls : calls'[c] # NoCall => CallOK(calls'[c], stamp', nextCursor', changed', mixed')
    BY <2>1 DEF PageInv
  <2> QED
    BY <2>1, <2>2, <2>3 DEF PageInv, More, AllChangesCount
<1> QED
  BY <1>1, <1>2, <1>3, <1>4, <1>5 DEF Next

------------------------------------------------------------------------------
(* The page shows each unchanged row between the head of its list and its      *)
(* cursor once; a load that is answered holds such a list, and a "load more"   *)
(* of the present listing holds one that starts at the cursor.                 *)
THEOREM PageInvariant == Spec => []PageInv
<1> QED
  BY PageInvInit, PageInvNext, PTL DEF Spec

(* The page and its requests have their types, and loadingMore tells exactly   *)
(* of one "load more" in flight: the finally block always resets it.           *)
THEOREM TypeCorrect == Spec => []TypeOK
<1>1. PageInv => TypeOK
  BY DEF PageInv
<1> QED
  BY <1>1, PageInvariant, PTL

(* The number of places at which a list shows m. *)
LEMMA PlacesOf ==
  ASSUME TypeOK, NEW m
  PROVE  /\ Once(items, m) => Cardinality(Places(m)) = 1
         /\ Never(items, m) => Cardinality(Places(m)) = 0
<1>1. ASSUME Once(items, m)
      PROVE  Cardinality(Places(m)) = 1
  <2>1. PICK k : Places(m) = {k}
    BY <1>1 DEF Once, Places
  <2> QED
    BY <2>1, FS_Singleton
<1>2. ASSUME Never(items, m)
      PROVE  Cardinality(Places(m)) = 0
  <2>1. Places(m) = {}
    BY <1>2 DEF Never, Places
  <2> QED
    BY <2>1, FS_EmptySet
<1> QED
  BY <1>1, <1>2

(* Paging over list_owned's cursor, with the rows of the listing being edited, *)
(* created, deleted and touched between and during the queries: a row that did *)
(* not change is shown exactly once when the pages have passed its place.      *)
THEOREM UnchangedRowsAreListedOnce == Spec => []UnchangedListedOnce
<1>1. PageInv => UnchangedListedOnce
  <2> SUFFICES ASSUME PageInv, AllChangesCount, items # << >>, ~ mixed, NEW m \in Active \ changed
               PROVE  Cardinality(Places(m)) = IF Passed(m) THEN 1 ELSE 0
    BY DEF UnchangedListedOnce, ListedOnce, AllChangesCount
  <2>1. Covers(stamp, items, NoRow, nextCursor, changed) /\ TypeOK
    BY DEF PageInv
  <2>2. m \in Memories \ changed /\ stamp[m] # 0
    BY DEF Active
  <2>3. IF Between(At(stamp, m), NoRow, nextCursor) THEN Once(items, m) ELSE Never(items, m)
    BY <2>1, <2>2 DEF Covers
  <2>4. Between(At(stamp, m), NoRow, nextCursor) <=> Passed(m)
    BY DEF Between, Passed, MemoryRow, At, After
  <2> QED
    BY <2>1, <2>3, <2>4, PlacesOf
<1> QED
  BY <1>1, PageInvariant, PTL
==============================================================================
