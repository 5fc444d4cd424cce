------------------------------ MODULE MemoryPage ------------------------------
(***************************************************************************)
(* The memory page over the cursor-paged list of memories: reloads (on     *)
(* mount, after a save, after a removal) and "load more" with answers that *)
(* arrive late and out of order, while the page itself, other clients and  *)
(* runs create, edit, delete and retrieve memories.                        *)
(*                                                                         *)
(* A row is its memory_id and its updated_at.  Time stamps are not ordered *)
(* like the commits: the repository takes some from the Python clock       *)
(* before the statement and PostgreSQL's now() is the start of the         *)
(* transaction, the same one for all the rows it changes.  Whether a write *)
(* is accepted is decided in MemoryStore; the editor's form and the        *)
(* filters, which the page does not use, are left out.                     *)
(***************************************************************************)
EXTENDS Naturals, Sequences, FiniteSets, SequencesExt

CONSTANTS Memories,   \* ids of memories, numbers for their order
          Stamps,     \* updated_at
          PageSize,   \* limit
          Calls,      \* bound: requests of the page that are in flight together
          Counted,    \* what counts as a change of a row: writes, retrievals
          NoRow, NoCall, NoAnswer

ASSUME MemoryPageAssumption ==
  /\ Memories \subseteq Nat /\ Stamps \subseteq Nat \ {0}
  /\ PageSize \in Nat \ {0}
  /\ Counted \subseteq {"write", "retrieval"}

VARIABLES stamp,      \* stamp[m]: updated_at of the active row of m, 0 when there is none
          items,      \* the memories shown
          nextCursor,
          loadingMore,
          calls,      \* calls[c]: a request of the page, NoCall before and after
          changed,    \* history: memories changed since the first page was queried
          mixed       \* history: a page of another listing was appended

vars == <<stamp, items, nextCursor, loadingMore, calls, changed, mixed>>
page == <<items, nextCursor, loadingMore, mixed>>

Row == [memory : Memories, stamp : Stamps]
Answer == [items : Seq(Memories), next : Row \cup {NoRow}]
Call == [kind : {"load", "more"}, cursor : Row \cup {NoRow}, answer : Answer \cup {NoAnswer},
         changed : SUBSET Memories, stale : BOOLEAN]

ASSUME NothingAssumption == NoRow \notin Row /\ NoAnswer \notin Answer /\ NoCall \notin Call

NewCall(kind, cursor) ==
  [kind |-> kind, cursor |-> cursor, answer |-> NoAnswer, changed |-> {}, stale |-> FALSE]

(* onMounted(load) *)
Init ==
  /\ stamp \in [Memories -> Stamps \cup {0}]
  /\ items = << >> /\ nextCursor = NoRow /\ loadingMore = FALSE
  /\ \E c \in Calls : calls = [[d \in Calls |-> NoCall] EXCEPT ![c] = NewCall("load", NoRow)]
  /\ changed = {} /\ mixed = FALSE

------------------------------------------------------------------------------
(* list_owned.  A memory that expires leaves the list like a deleted one.       *)

Active == {m \in Memories : stamp[m] # 0}
Rows == {[memory |-> m, stamp |-> stamp[m]] : m \in Active}

(* ORDER BY updated_at DESC, memory_id ASC. *)
Before(a, b) == a.stamp > b.stamp \/ (a.stamp = b.stamp /\ a.memory < b.memory)

(* Mutant of After: the cursor is compared by its time only. *)
AfterByTime(row, cursor) == cursor = NoRow \/ row.stamp < cursor.stamp

(* The WHERE condition of a cursor. *)
After(row, cursor) ==
  \/ cursor = NoRow
  \/ row.stamp < cursor.stamp
  \/ row.stamp = cursor.stamp /\ row.memory > cursor.memory

(* The first rows in that order, as many as the page holds.                    *)
Pages(rows) ==
  {shown \in UNION {[1 .. n -> rows] : n \in 0 .. PageSize} :
     /\ \A k, l \in DOMAIN shown : k < l => Before(shown[k], shown[l])
     /\ \A row \in rows \ Range(shown) : /\ Len(shown) = PageSize
                                        /\ \A k \in DOMAIN shown : Before(shown[k], row)}

(* LIMIT limit + 1: the extra row tells that there is a next page, whose       *)
(* cursor is the last row shown.                                               *)
List(cursor) ==
  LET rows == {row \in Rows : After(row, cursor)}
  IN  {[items |-> [k \in DOMAIN shown |-> shown[k].memory],
        next |-> IF Range(shown) = rows THEN NoRow ELSE Last(shown)] : shown \in Pages(rows)}

------------------------------------------------------------------------------
(* Changes of the table, by anyone. *)

Answered(c, kind) == calls[c] # NoCall /\ calls[c].kind = kind /\ calls[c].answer # NoAnswer

(* The history of changes after the first page was queried; a mixed listing    *)
(* keeps none.                                                                 *)
Record(by, S) ==
  IF by \notin Counted THEN UNCHANGED <<changed, calls>> ELSE
  /\ changed' = (IF mixed THEN {} ELSE changed \cup S)
  /\ calls' = [c \in Calls |-> IF Answered(c, "load") THEN [calls[c] EXCEPT !.changed = @ \cup S]
                               ELSE calls[c]]

(* A memory is created or edited (a new stamp), or deleted. *)
Write(m) ==
  /\ \E new \in Stamps \cup (IF m \in Active THEN {0} ELSE {}) : stamp' = [stamp EXCEPT ![m] = new]
  /\ Record("write", {m})
  /\ UNCHANGED page

(* touch_access_batch of a run's retrieval: the column's onupdate sets         *)
(* updated_at of every row that it counts.                                     *)
Touch(S) ==
  /\ S # {} /\ S \subseteq Active
  /\ \E new \in Stamps : stamp' = [m \in Memories |-> IF m \in S THEN new ELSE stamp[m]]
  /\ Record("retrieval", S)
  /\ UNCHANGED page

------------------------------------------------------------------------------
(* The page. *)

Send(kind, cursor) ==
  \E c \in Calls :
    /\ calls[c] = NoCall
    /\ calls' = [calls EXCEPT ![c] = NewCall(kind, cursor)]

(* loadMore(), up to its await. *)
LoadMore ==
  /\ nextCursor # NoRow
  /\ ~ loadingMore
  /\ loadingMore' = TRUE
  /\ Send("more", nextCursor)
  /\ UNCHANGED <<stamp, items, nextCursor, changed, mixed>>

(* A save or a removal of the page was accepted (its change of the table is a  *)
(* Write before): it calls load().                                             *)
Reload ==
  /\ Send("load", NoRow)
  /\ UNCHANGED <<stamp, page, changed>>

(* The server executes a query. *)
Query(c) ==
  /\ calls[c] # NoCall /\ calls[c].answer = NoAnswer
  /\ \E answer \in List(calls[c].cursor) :
       calls' = [calls EXCEPT ![c] = [kind |-> @.kind, cursor |-> NoRow, answer |-> answer,
                                      changed |-> @.changed, stale |-> @.stale]]
  /\ UNCHANGED <<stamp, page, changed>>

(* load(), after its await; the history learns which pages are now of another  *)
(* listing.                                                                    *)
Loaded(c) ==
  /\ Answered(c, "load")
  /\ items' = calls[c].answer.items
  /\ nextCursor' = calls[c].answer.next
  /\ changed' = calls[c].changed
  /\ mixed' = FALSE
  /\ calls' = [d \in Calls |-> IF d = c \/ calls[d] = NoCall THEN NoCall
                               ELSE [calls[d] EXCEPT !.stale = (calls[d].kind = "more")]]
  /\ UNCHANGED <<stamp, loadingMore>>

Mix(stale) ==
  /\ mixed' = (mixed \/ stale)
  /\ changed' = IF mixed' THEN {} ELSE changed

(* loadMore(), after its await. *)
LoadedMore(c) ==
  /\ Answered(c, "more")
  /\ items' = items \o calls[c].answer.items
  /\ nextCursor' = calls[c].answer.next
  /\ loadingMore' = FALSE
  /\ Mix(calls[c].stale)
  /\ calls' = [calls EXCEPT ![c] = NoCall]
  /\ UNCHANGED stamp

(* Mutant of CallFails: loadingMore is not reset in a finally block. *)
CallFailsLoading(c) ==
  /\ calls[c] # NoCall
  /\ calls' = [calls EXCEPT ![c] = NoCall]
  /\ UNCHANGED <<stamp, page, changed>>

(* A request fails: a message is shown. *)
CallFails(c) ==
  /\ calls[c] # NoCall
  /\ calls' = [calls EXCEPT ![c] = NoCall]
  /\ loadingMore' = (loadingMore /\ calls[c].kind # "more")
  /\ UNCHANGED <<stamp, items, nextCursor, changed, mixed>>

Next ==
  \/ \E m \in Memories : Write(m)
  \/ \E S \in SUBSET Memories : Touch(S)
  \/ LoadMore \/ Reload
  \/ \E c \in Calls : Query(c) \/ Loaded(c) \/ LoadedMore(c) \/ CallFails(c)

Spec == Init /\ [][Next]_vars

------------------------------------------------------------------------------
TypeOK ==
  /\ stamp \in [Memories -> Stamps \cup {0}]
  /\ items \in Seq(Memories) /\ nextCursor \in Row \cup {NoRow}
  /\ changed \subseteq Memories /\ mixed \in BOOLEAN
  /\ calls \in [Calls -> Call \cup {NoCall}]
  /\ loadingMore \in BOOLEAN
  /\ loadingMore <=> \E c \in Calls : calls[c] # NoCall /\ calls[c].kind = "more"

Places(m) == {k \in DOMAIN items : items[k] = m}
MemoryRow(m) == [memory |-> m, stamp |-> stamp[m]]

(* The rows that the pages loaded so far have passed.                          *)
Passed(m) == nextCursor = NoRow \/ ~ After(MemoryRow(m), nextCursor)

ListedOnce ==
  items # << >> /\ ~ mixed =>
    \A m \in Active \ changed : Cardinality(Places(m)) = IF Passed(m) THEN 1 ELSE 0

(* A row that nobody changed is shown exactly once as soon as the pages have   *)
(* passed its place, whatever the rows around it did between two pages (a      *)
(* reload that overtakes "load more" excepted).                                *)
UnchangedListedOnce == Counted = {"write", "retrieval"} => ListedOnce

(* What the design says (refuted): paging is stable, and a retrieval changes   *)
(* only the counters of a row, so that it counts as unchanged.  The code moves *)
(* the row to another page, and the listing may miss it.                       *)
PagingIsStable == Counted = {"write"} => ListedOnce
===============================================================================
