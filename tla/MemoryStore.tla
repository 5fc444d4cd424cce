------------------------------ MODULE MemoryStore ------------------------------
(***************************************************************************)
(* Writers of agent_memories: the requests of the memory API (create,      *)
(* optimistic update, soft delete), the consolidation of a run and the     *)
(* access counters of a retrieval.  Each is one READ COMMITTED transaction *)
(* of PostgreSQL, executed one SQL statement at a time, so transactions    *)
(* overlap between any two statements.                                     *)
(*                                                                         *)
(* An UPDATE locks its row and waits for a transaction that has changed it;*)
(* it then evaluates its WHERE clause on the committed row.  A new key of  *)
(* the partial unique index waits for a transaction that holds the same    *)
(* key in an uncommitted row, and is refused when the key is taken.        *)
(* PostgreSQL aborts a transaction of a cycle of waiters.                  *)
(*                                                                         *)
(* All memories belong to one user: every query names the user, and the    *)
(* unique index begins with it.  A memory is its identity (what the        *)
(* content hash covers), version and deletion; the columns that are        *)
(* overwritten without a condition are left out.                           *)
(***************************************************************************)
EXTENDS Naturals, Sequences, FiniteSets

CONSTANTS Requests,    \* transactions that may be open at the same time
          Ids,         \* bound: memories that are ever created
          Types,       \* memory types in use; "project" is restricted to a scope
          Projects, Contents,
          NoProject,   \* project_id IS NULL
          Unset,       \* a field that a PATCH body leaves out
          NoRow,       \* the memory does not exist
          NoRequest,   \* no transaction has changed the row
          MaxVersion   \* bound: versions of a memory

ASSUME MemoryStoreAssumption ==
  /\ NoProject \notin Projects
  /\ Unset \notin Types \cup Projects \cup {NoProject, "user", "project"} \cup Contents
  /\ NoRequest \notin Requests
  /\ IsFiniteSet(Ids)
  /\ MaxVersion \in Nat \ {0}

VARIABLES rows,    \* rows[i]: the committed row of memory i
          draft,   \* draft[i]: the row as the transaction that changed it leaves it
          owner,   \* owner[i]: the transaction whose change of i is not committed
          pc,      \* pc[q]: the next statement of transaction q
          req,     \* req[q]: operation and arguments of q
          raced    \* history: writers whose content was stored since they looked for it

vars == <<rows, draft, owner, pc, req, raced>>
table == <<rows, draft, owner>>

Scopes == {"user", "project"}
Identities ==
  [type : Types, scope : Scopes, project : Projects \cup {NoProject}, content : Contents]

(* MemoryFields.validate_scope, and the same three tests in MemoryManager.update. *)
ScopeMatches(ident) ==
  /\ ident.scope = "user" => ident.project = NoProject
  /\ ident.scope = "project" => ident.project # NoProject
  /\ ident.type = "project" => ident.scope = "project"

(* The CHECK constraints of the table on the same columns. *)
CheckConstraints(ident) ==
  /\ \/ ident.scope = "user" /\ ident.project = NoProject
     \/ ident.scope = "project" /\ ident.project # NoProject
  /\ ident.type # "project" \/ ident.scope = "project"

Row == [ident : Identities, version : 1 .. MaxVersion, deleted : BOOLEAN]

ASSUME NoRowAssumption == NoRow \notin Ids \cup Identities \cup Row

Active(row) == row # NoRow /\ ~ row.deleted
Says(row, ident) == Active(row) /\ row.ident = ident

(* A PATCH body: the identity fields that are given. *)
Patches ==
  [type : Types \cup {Unset}, scope : Scopes \cup {Unset},
   project : Projects \cup {NoProject, Unset}, content : Contents \cup {Unset}]

(* The merged identity fields of MemoryManager.update. *)
Merge(current, patch) ==
  [f \in DOMAIN current |-> IF patch[f] = Unset THEN current[f] ELSE patch[f]]

Ops == {"create", "consolidate", "update", "delete", "touch"}

(* "insert", "lock", "index" and "touch" may wait for another transaction. *)
Statements == {"idle", "find", "insert", "read", "lock", "index", "reread", "touch", "commit"}

NoArguments == [op |-> "none", id |-> NoRow, version |-> 0, target |-> NoRow, order |-> << >>]
ToCreate(op, ident) == [op |-> op, id |-> NoRow, version |-> 0, target |-> ident, order |-> << >>]
ToWrite(op, i, v) == [op |-> op, id |-> i, version |-> v, target |-> NoRow, order |-> << >>]
ToTouch(order) == [op |-> "touch", id |-> NoRow, version |-> 0, target |-> NoRow, order |-> order]

Init ==
  /\ rows = [i \in Ids |-> NoRow]
  /\ draft = rows
  /\ owner = [i \in Ids |-> NoRequest]
  /\ pc = [q \in Requests |-> "idle"]
  /\ req = [q \in Requests |-> NoArguments]
  /\ raced = {}

Goto(q, statement) == pc' = [pc EXCEPT ![q] = statement]

------------------------------------------------------------------------------
(* The end of a transaction. *)

(* The request is answered, or the run goes on, with nothing written. *)
Finish(q) ==
  /\ Goto(q, "idle")
  /\ req' = [req EXCEPT ![q] = NoArguments]
  /\ raced' = raced \ {q}

Release(q) == owner' = [i \in Ids |-> IF owner[i] = q THEN NoRequest ELSE owner[i]]

(* Writers of ident that have looked for it and not found it. *)
Seeking(ident) ==
  {p \in Requests : pc[p] \in {"insert", "lock", "index"} /\ req[p].target = ident}

Stored(q) == {i \in Ids : owner[i] = q /\ Active(draft[i]) /\ ~ Says(rows[i], draft[i].ident)}

(* session.commit(), by the manager or, for a run, by the runner. *)
Commit(q) ==
  /\ pc[q] = "commit"
  /\ rows' = [i \in Ids |-> IF owner[i] = q THEN draft[i] ELSE rows[i]]
  /\ Release(q)
  /\ Goto(q, "idle")
  /\ req' = [req EXCEPT ![q] = NoArguments]
  /\ raced' = (raced \cup UNION {Seeking(draft[i].ident) : i \in Stored(q)}) \ {q}
  /\ UNCHANGED draft

(* Mutant of RollBack: the locks of the transaction stay. *)
RollBackKeepsLocks(q) == Finish(q) /\ UNCHANGED table

RollBack(q) ==
  /\ draft' = [i \in Ids |-> IF owner[i] = q THEN rows[i] ELSE draft[i]]
  /\ Release(q)
  /\ Finish(q)
  /\ UNCHANGED rows

(* Any database operation may raise: 500, or a failed run. *)
Abort(q) ==
  /\ pc[q] # "idle"
  /\ RollBack(q)

------------------------------------------------------------------------------
(* create_manual and create_consolidated. *)

Receive(q, arguments, statement) ==
  /\ pc[q] = "idle"
  /\ req' = [req EXCEPT ![q] = arguments]
  /\ Goto(q, statement)
  /\ UNCHANGED <<table, raced>>

Creating == {p \in Requests : req[p].op \in {"create", "consolidate"}}

(* A validated payload, from the API or from the extractor.  A new memory_id is *)
(* never short: no more creations are open than identifiers are left.          *)
Create(q) ==
  /\ Cardinality({i \in Ids : rows[i] = NoRow}) > Cardinality(Creating)
  /\ \E op \in {"create", "consolidate"}, ident \in Identities :
       /\ ScopeMatches(ident)
       /\ Receive(q, ToCreate(op, ident), "find")

(* Mutant of Duplicates: project_id is compared with =, which no NULL satisfies. *)
DuplicatesByEquality(q) ==
  {i \in Ids \ {req[q].id} : Says(rows[i], req[q].target) /\ rows[i].ident.project # NoProject}

(* Mutant of Duplicates: only creations look for duplicates. *)
DuplicatesOfCreations(q) ==
  {i \in Ids : req[q].op # "update" /\ Says(rows[i], req[q].target)}

(* find_active_duplicate over the committed rows. *)
Duplicates(q) == {i \in Ids \ {req[q].id} : Says(rows[i], req[q].target)}

(* A duplicate ends the request: 409, or reuse of the row by a consolidation. *)
FindDuplicate(q) ==
  /\ pc[q] = "find"
  /\ \/ /\ Duplicates(q) # {}
        /\ Finish(q)
     \/ /\ Duplicates(q) = {}
        /\ Goto(q, IF req[q].op = "update" THEN "lock" ELSE "insert")
        /\ UNCHANGED <<req, raced>>
  /\ UNCHANGED table

(* Other rows that hold the key q is about to add, in the committed table or   *)
(* in what their transaction makes of them.                                    *)
Holders(q) ==
  {i \in Ids : /\ owner[i] # q
               /\ Says(rows[i], req[q].target) \/ Says(draft[i], req[q].target)}
UncommittedHolders(q) == {i \in Holders(q) : owner[i] # NoRequest}

Fresh(i) == rows[i] = NoRow /\ owner[i] = NoRequest

(* Mutant of Insert: there is no unique index. *)
InsertUnchecked(q) ==
  /\ pc[q] = "insert"
  /\ \E i \in Ids :
       /\ Fresh(i)
       /\ draft' = [draft EXCEPT ![i] = [ident |-> req[q].target, version |-> 1, deleted |-> FALSE]]
       /\ owner' = [owner EXCEPT ![i] = q]
  /\ Goto(q, "commit")
  /\ UNCHANGED <<rows, req, raced>>

(* MemoryRepository.create: the INSERT, once nobody else holds the key. *)
Insert(q) ==
  /\ pc[q] = "insert"
  /\ Holders(q) = {}
  /\ \E i \in Ids :
       /\ Fresh(i)
       /\ draft' = [draft EXCEPT ![i] = [ident |-> req[q].target, version |-> 1, deleted |-> FALSE]]
       /\ owner' = [owner EXCEPT ![i] = q]
  /\ Goto(q, "commit")
  /\ UNCHANGED <<rows, req, raced>>

------------------------------------------------------------------------------
(* update and delete. *)

(* The client sends a version it was shown. *)
Write(q) ==
  \E op \in {"update", "delete"}, i \in Ids :
    /\ rows[i] # NoRow
    /\ \E v \in 1 .. rows[i].version :
         /\ v < MaxVersion
         /\ Receive(q, ToWrite(op, i, v), "read")

(* What the merged fields have to satisfy; a ValueError is answered 422. *)
Accepted(ident) == ScopeMatches(ident)

(* Mutant of Matches: only the memory_id is compared. *)
MatchesAnyVersion(q) == Active(rows[req[q].id])

(* memory_id, version and deleted_at of the WHERE clause. *)
Matches(q) ==
  /\ Active(rows[req[q].id])
  /\ rows[req[q].id].version = req[q].version

(* MemoryManager.get and what precedes the next statement; 404, 409 and 422.   *)
Read(q) ==
  /\ pc[q] = "read"
  /\ \/ /\ ~ Matches(q)
        /\ Finish(q)
     \/ /\ Matches(q)
        /\ req[q].op = "delete"
        /\ Goto(q, "lock")
        /\ UNCHANGED <<req, raced>>
     \/ /\ Matches(q)
        /\ req[q].op = "update"
        /\ \E patch \in Patches :
             LET merged == Merge(rows[req[q].id].ident, patch) IN
             \/ /\ ~ Accepted(merged)
                /\ Finish(q)
             \/ /\ Accepted(merged)
                /\ req' = [req EXCEPT ![q].target = merged]
                /\ Goto(q, "find")
                /\ UNCHANGED raced
  /\ UNCHANGED table

(* Mutant of Lock: a soft delete keeps the version. *)
LockDeletingInPlace(q) ==
  /\ pc[q] = "lock"
  /\ owner[req[q].id] = NoRequest
  /\ \/ /\ ~ Matches(q)
        /\ Goto(q, "reread")
        /\ UNCHANGED <<draft, owner>>
     \/ /\ Matches(q)
        /\ owner' = [owner EXCEPT ![req[q].id] = q]
        /\ draft' = IF req[q].op = "delete"
                      THEN [draft EXCEPT ![req[q].id].deleted = TRUE]
                      ELSE [draft EXCEPT ![req[q].id].version = @ + 1]
        /\ Goto(q, IF req[q].op = "delete" THEN "commit" ELSE "index")
  /\ UNCHANGED <<rows, req, raced>>

(* The UPDATE has its row; the WHERE clause is evaluated on the committed row. *)
Lock(q) ==
  /\ pc[q] = "lock"
  /\ owner[req[q].id] = NoRequest
  /\ \/ /\ ~ Matches(q)
        /\ Goto(q, "reread")
        /\ UNCHANGED <<draft, owner>>
     \/ /\ Matches(q)
        /\ owner' = [owner EXCEPT ![req[q].id] = q]
        /\ draft' = [draft EXCEPT ![req[q].id] =
                       [ident |-> @.ident, version |-> @.version + 1,
                        deleted |-> req[q].op = "delete"]]
        /\ Goto(q, IF req[q].op = "delete" THEN "commit" ELSE "index")
  /\ UNCHANGED <<rows, req, raced>>

(* The new row version enters the unique index. *)
Index(q) ==
  /\ pc[q] = "index"
  /\ Holders(q) = {}
  /\ draft' = [draft EXCEPT ![req[q].id].ident = req[q].target]
  /\ Goto(q, "commit")
  /\ UNCHANGED <<rows, owner, req, raced>>

(* IntegrityError: a committed row has the key, or the row breaks a CHECK.     *)
Violates(q) ==
  /\ pc[q] \in {"insert", "index"}
  /\ \/ UncommittedHolders(q) = {} /\ Holders(q) # {}
     \/ ~ CheckConstraints(req[q].target)

Refuse(q) ==
  /\ Violates(q)
  /\ RollBack(q)

(* No row was updated: 404 or 409 after another look. *)
Reread(q) ==
  /\ pc[q] = "reread"
  /\ RollBack(q)

------------------------------------------------------------------------------
(* The retrieval of a run: touch_access_batch. *)

(* The memories found, in the order in which the UPDATE will scan them. *)
Search(q) ==
  \E found \in SUBSET {i \in Ids : Active(rows[i])} :
    /\ found # {}
    /\ \E order \in [1 .. Cardinality(found) -> found] :
         /\ \A i \in found : \E n \in DOMAIN order : order[n] = i
         /\ Receive(q, ToTouch(order), "touch")

Touch(q) ==
  /\ pc[q] = "touch"
  /\ LET i == Head(req[q].order) IN
       /\ owner[i] = NoRequest
       /\ owner' = IF Active(rows[i]) THEN [owner EXCEPT ![i] = q] ELSE owner
  /\ req' = [req EXCEPT ![q].order = Tail(@)]
  /\ Goto(q, IF Len(req[q].order) = 1 THEN "commit" ELSE "touch")
  /\ UNCHANGED <<rows, draft, raced>>

------------------------------------------------------------------------------
(* Waiting. *)

(* The rows whose transaction q waits for. *)
Awaited(q) ==
  CASE pc[q] = "lock"  -> {req[q].id}
    [] pc[q] = "touch" -> {Head(req[q].order)}
    [] pc[q] \in {"insert", "index"} -> UncommittedHolders(q)
    [] OTHER -> {}

WaitsFor(q, p) == p # q /\ \E i \in Awaited(q) : owner[i] = p

(* Nobody in S can go on before another of S ends. *)
Stuck(S) == S # {} /\ \A q \in S : \E p \in S : WaitsFor(q, p)

Cycle(S) == Stuck(S) /\ \A T \in SUBSET S : Stuck(T) => T = S

(* PostgreSQL's deadlock detector. *)
DeadlockVictim(q) ==
  /\ \E S \in SUBSET Requests : q \in S /\ Cycle(S)
  /\ RollBack(q)

------------------------------------------------------------------------------
Statement(q) ==
  FindDuplicate(q) \/ Read(q) \/ Reread(q) \/ Commit(q)

Waiting(q) == Insert(q) \/ Lock(q) \/ Index(q) \/ Refuse(q) \/ Touch(q)

Begin(q) == Create(q) \/ Write(q) \/ Search(q)

Next ==
  \E q \in Requests :
    Begin(q) \/ Statement(q) \/ Waiting(q) \/ Abort(q) \/ DeadlockVictim(q)

Spec == Init /\ [][Next]_vars

(* A statement is answered; a lock that is free again and again is granted;    *)
(* the deadlock detector runs.                                                 *)
Fairness ==
  \A q \in Requests :
    /\ WF_vars(Statement(q))
    /\ SF_vars(Waiting(q))
    /\ WF_vars(DeadlockVictim(q))

FairSpec == Spec /\ Fairness

------------------------------------------------------------------------------
Arguments ==
  [op : Ops \cup {"none"}, id : Ids \cup {NoRow}, version : 0 .. MaxVersion,
   target : Identities \cup {NoRow}, order : Seq(Ids)]

TypeOK ==
  /\ rows \in [Ids -> Row \cup {NoRow}]
  /\ draft \in [Ids -> Row \cup {NoRow}]
  /\ owner \in [Ids -> Requests \cup {NoRequest}]
  /\ pc \in [Requests -> Statements]
  /\ req \in [Requests -> Arguments]
  /\ raced \subseteq Requests
  /\ \A i \in Ids : owner[i] = NoRequest => draft[i] = rows[i]

(* No two active memories of a user say the same thing, whatever transactions  *)
(* overlapped: two creates, a create and an update that moves a memory, a       *)
(* delete that makes room.                                                     *)
OneActivePerIdentity ==
  \A i, j \in Ids :
    Active(rows[i]) /\ Active(rows[j]) /\ rows[i].ident = rows[j].ident => i = j

(* A commit that changes an existing memory is that of a client which named    *)
(* the version it overwrites; it leaves exactly the next version.  Access      *)
(* counting and commits of other memories change nothing a client can lose.    *)
NoLostUpdate ==
  [][\A i \in Ids :
       rows[i] # NoRow /\ rows'[i] # rows[i] =>
         \E q \in Requests :
           /\ pc[q] = "commit" /\ pc'[q] = "idle"
           /\ req[q].id = i /\ req[q].version = rows[i].version
           /\ rows'[i].version = rows[i].version + 1]_vars

(* The database refuses a write that passed the manager's tests only because   *)
(* another transaction stored the same content after the test: an IntegrityError*)
(* (and a 500) is always the outcome of a race, never of one client alone.     *)
RefusedOnlyByRace == \A q \in Requests : Violates(q) => q \in raced

(* The requests of the memory API and consolidations never wait in a cycle     *)
(* among themselves, although an update holds its row while it waits for a key:*)
(* every deadlock includes a retrieval, which locks several rows.              *)
OnlyRetrievalsDeadlock ==
  \A S \in SUBSET Requests : Stuck(S) => \E q \in S : req[q].op = "touch"

(* Every request ends: no transaction waits for ever for a row or a key.       *)
RequestsEnd == \A q \in Requests : pc[q] # "idle" ~> pc[q] = "idle"

(* The table is a set of compare-and-set registers without duplicates.         *)
Register == INSTANCE MemoryRegister WITH store <- rows
ImplementsRegister == Register!Spec
==============================================================================
