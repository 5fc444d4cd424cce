-------------------------- MODULE MemoryStoreProofs --------------------------
(***************************************************************************)
(* Proofs about MemoryStore for every set of transactions, memories and    *)
(* contents.                                                               *)
(*                                                                         *)
(* None of the properties is inductive.  What they rest on is TableInv:    *)
(* what each transaction may have made of each row it owns (OwnerOK), and  *)
(* that an update or delete past its UPDATE owns its row (HoldsRow), so    *)
(* that the version it has compared is still there when it commits.  On    *)
(* top of TableInv,                                                        *)
(*   KeysExclusive: no two memories hold the same key, a memory holding    *)
(*     both the old and the new key while its transaction is open;         *)
(*   RacedInv: a writer whose content got into the table after its search  *)
(*     is in raced;                                                        *)
(*   NotBehind, NoCycle: an update never comes to wait for one that had    *)
(*     read its row before the search of the first.                        *)
(***************************************************************************)
EXTENDS MemoryStore, FiniteSetTheorems, TLAPS

Creation == {"create", "consolidate"}
Writing == {"update", "delete"}

(* Which statement a request of each kind can be at, and with which arguments. *)
RequestOK(q) ==
  /\ pc[q] = "idle" => req[q] = NoArguments
  /\ pc[q] = "find" => req[q].op \in Creation \cup {"update"}
  /\ pc[q] = "insert" => req[q].op \in Creation
  /\ pc[q] \in {"read", "lock", "reread"} => req[q].op \in Writing
  /\ pc[q] = "index" => req[q].op = "update"
  /\ pc[q] = "touch" => req[q].op = "touch" /\ req[q].order # << >>
  /\ pc[q] = "commit" => req[q].op # "none"

ArgumentsOK(q) ==
  /\ req[q].op \in Creation => req[q].id = NoRow
  /\ req[q].op \in Writing =>
       req[q].id \in Ids /\ req[q].version \in 1 .. MaxVersion - 1 /\ rows[req[q].id] # NoRow
  /\ \/ req[q].op \in Creation
     \/ req[q].op = "update" /\ pc[q] \in {"find", "lock", "index", "commit"}
     => req[q].target \in Identities /\ ScopeMatches(req[q].target)

(* What a transaction has made of a row it owns. *)
Created(i, q) ==
  /\ req[q].op \in Creation /\ pc[q] = "commit"
  /\ rows[i] = NoRow
  /\ draft[i] = [ident |-> req[q].target, version |-> 1, deleted |-> FALSE]
  /\ \A j \in Ids : owner[j] = q => j = i

Updated(i, q) ==
  /\ req[q].op = "update" /\ pc[q] \in {"index", "commit"}
  /\ req[q].id = i /\ Matches(q)
  /\ draft[i] = [ident |-> IF pc[q] = "commit" THEN req[q].target ELSE rows[i].ident,
                 version |-> rows[i].version + 1, deleted |-> FALSE]

Deleted(i, q) ==
  /\ req[q].op = "delete" /\ pc[q] = "commit"
  /\ req[q].id = i /\ Matches(q)
  /\ draft[i] = [ident |-> rows[i].ident, version |-> rows[i].version + 1, deleted |-> TRUE]

Touched(i, q) ==
  /\ req[q].op = "touch" /\ pc[q] \in {"touch", "commit"}
  /\ Active(rows[i]) /\ draft[i] = rows[i]

OwnerOK(i, q) == Created(i, q) \/ Updated(i, q) \/ Deleted(i, q) \/ Touched(i, q)

(* An update or delete past its UPDATE statement holds its row. *)
HoldsRow(q) ==
  pc[q] = "index" \/ (pc[q] = "commit" /\ req[q].op \in Writing) => owner[req[q].id] = q

TableInv ==
  /\ TypeOK
  /\ \A q \in Requests : RequestOK(q) /\ ArgumentsOK(q) /\ HoldsRow(q)
  /\ \A i \in Ids, q \in Requests : owner[i] = q => OwnerOK(i, q)

------------------------------------------------------------------------------
(* The tests of the manager imply the CHECK constraints of the table. *)
LEMMA ValidKeepsChecks ==
  ASSUME NEW ident \in Identities, ScopeMatches(ident)
  PROVE  CheckConstraints(ident)
BY DEF Identities, Scopes, ScopeMatches, CheckConstraints

(* Merging a patch into an identity gives an identity. *)
LEMMA MergeType ==
  ASSUME NEW current \in Identities, NEW patch \in Patches
  PROVE  Merge(current, patch) \in Identities
BY DEF Identities, Patches, Merge

(* The arguments that requests start with are well typed. *)
LEMMA ArgumentsType ==
  /\ NoArguments \in Arguments
  /\ \A op \in Ops, ident \in Identities : ToCreate(op, ident) \in Arguments
  /\ \A op \in Ops, i \in Ids, v \in 0 .. MaxVersion : ToWrite(op, i, v) \in Arguments
  /\ \A order \in Seq(Ids) : ToTouch(order) \in Arguments
BY MemoryStoreAssumption DEF NoArguments, ToCreate, ToWrite, ToTouch, Arguments, Ops

LEMMA TableInvInit == Init => TableInv
<1> SUFFICES ASSUME Init PROVE TableInv
  OBVIOUS
<1>1. TypeOK
  BY ArgumentsType DEF Init, TypeOK, Statements
<1>2. \A q \in Requests : RequestOK(q) /\ ArgumentsOK(q) /\ HoldsRow(q)
  BY DEF Init, RequestOK, ArgumentsOK, HoldsRow, NoArguments, Creation, Writing
<1>3. \A i \in Ids, q \in Requests : owner[i] # q
  BY MemoryStoreAssumption DEF Init
<1> QED
  BY <1>1, <1>2, <1>3 DEF TableInv

(* The other transactions do not notice what q does to its own rows.           *)
LEMMA TableInvOwn ==
  ASSUME TableInv, NEW q \in Requests, TypeOK', rows' = rows,
         \A p \in Requests \ {q} : pc'[p] = pc[p] /\ req'[p] = req[p],
         \A i \in Ids : owner[i] \in Requests \ {q} =>
           owner'[i] = owner[i] /\ draft'[i] = draft[i],
         \A i \in Ids : owner'[i] \in Requests \ {q} => owner'[i] = owner[i],
         RequestOK(q)', ArgumentsOK(q)', HoldsRow(q)',
         \A i \in Ids : owner'[i] = q => OwnerOK(i, q)'
  PROVE  TableInv'
<1>1. ASSUME NEW p \in Requests \ {q}
      PROVE  RequestOK(p)' /\ ArgumentsOK(p)' /\ HoldsRow(p)'
  <2>1. RequestOK(p) /\ ArgumentsOK(p) /\ HoldsRow(p)
    BY DEF TableInv
  <2>2. pc[p] = "index" => req[p].id \in Ids
    BY <2>1 DEF RequestOK, ArgumentsOK, Writing
  <2> QED
    BY <2>1, <2>2 DEF RequestOK, ArgumentsOK, HoldsRow
<1>2. ASSUME NEW i \in Ids, NEW p \in Requests \ {q}, owner'[i] = p
      PROVE  OwnerOK(i, p)'
  <2>1. owner[i] = p /\ draft'[i] = draft[i] /\ OwnerOK(i, p)
    BY <1>2 DEF TableInv
  <2> QED
    BY <2>1 DEF OwnerOK, Created, Updated, Deleted, Touched, Matches
<1> QED
  BY <1>1, <1>2 DEF TableInv

(* A step of q that leaves the table alone. *)
LEMMA TableInvLocal ==
  ASSUME TableInv, NEW q \in Requests, UNCHANGED table,
         NEW statement \in Statements, NEW arguments \in Arguments,
         pc' = [pc EXCEPT ![q] = statement], req' = [req EXCEPT ![q] = arguments],
         raced' \subseteq Requests,
         RequestOK(q)', ArgumentsOK(q)', HoldsRow(q)',
         \A i \in Ids : owner[i] = q => OwnerOK(i, q)'
  PROVE  TableInv'
<1>1. TypeOK'
  BY DEF TableInv, TypeOK, table
<1>2. \A p \in Requests \ {q} : pc'[p] = pc[p] /\ req'[p] = req[p]
  BY DEF TableInv, TypeOK
<1> QED
  BY <1>1, <1>2, TableInvOwn DEF table

LEMMA TableInvBegin ==
  ASSUME TableInv, NEW q \in Requests, Begin(q)
  PROVE  TableInv'
<1>1. /\ pc[q] = "idle" /\ UNCHANGED <<table, raced>>
      /\ \A i \in Ids : owner[i] # q
  <2>1. pc[q] = "idle" /\ UNCHANGED <<table, raced>>
    BY DEF Begin, Create, Write, Search, Receive
  <2> QED
    BY <2>1 DEF TableInv, OwnerOK, Created, Updated, Deleted, Touched
<1>2. raced' \subseteq Requests
  BY <1>1 DEF TableInv, TypeOK
<1> USE DEF Receive, Goto, Statements, Ops, Creation, Writing, RequestOK, ArgumentsOK, HoldsRow
<1>3. CASE Create(q)
  <2>1. PICK op \in Creation, ident \in Identities :
          ScopeMatches(ident) /\ Receive(q, ToCreate(op, ident), "find")
    BY <1>3 DEF Create
  <2>2. ToCreate(op, ident) \in Arguments
    BY ArgumentsType
  <2>3. RequestOK(q)' /\ ArgumentsOK(q)' /\ HoldsRow(q)'
    BY <2>1 DEF TableInv, TypeOK, ToCreate
  <2> QED
    BY <1>1, <1>2, <2>1, <2>2, <2>3, TableInvLocal
<1>4. CASE Write(q)
  <2>1. PICK op \in Writing, i \in Ids :
          /\ rows[i] # NoRow
          /\ \E v \in 1 .. rows[i].version :
               v < MaxVersion /\ Receive(q, ToWrite(op, i, v), "read")
    BY <1>4 DEF Write
  <2>2. PICK v \in 1 .. rows[i].version : v < MaxVersion /\ Receive(q, ToWrite(op, i, v), "read")
    BY <2>1
  <2>3. v \in 1 .. MaxVersion - 1
    <3>1. rows[i].version \in 1 .. MaxVersion
      BY <2>1 DEF TableInv, TypeOK, Row
    <3> QED
      BY <2>2, <3>1, MemoryStoreAssumption
  <2>4. ToWrite(op, i, v) \in Arguments
    BY <2>3, ArgumentsType, MemoryStoreAssumption
  <2>5. RequestOK(q)' /\ ArgumentsOK(q)' /\ HoldsRow(q)'
    BY <1>1, <2>1, <2>2, <2>3 DEF TableInv, TypeOK, ToWrite, table
  <2> QED
    BY <1>1, <1>2, <2>2, <2>4, <2>5, TableInvLocal
<1>5. CASE Search(q)
  <2>1. PICK found \in SUBSET {i \in Ids : Active(rows[i])} :
          /\ found # {}
          /\ \E order \in [1 .. Cardinality(found) -> found] :
               /\ \A i \in found : \E n \in DOMAIN order : order[n] = i
               /\ Receive(q, ToTouch(order), "touch")
    BY <1>5 DEF Search
  <2>2. PICK order \in [1 .. Cardinality(found) -> found] :
          /\ \A i \in found : \E n \in DOMAIN order : order[n] = i
          /\ Receive(q, ToTouch(order), "touch")
    BY <2>1
  <2>3. order \in Seq(Ids) /\ order # << >>
    <3>1. found \subseteq Ids
      OBVIOUS
    <3>2. IsFiniteSet(found)
      BY <3>1, FS_Subset, MemoryStoreAssumption
    <3>3. Cardinality(found) \in Nat
      BY <3>2, FS_CardinalityType
    <3>4. DOMAIN order # {}
      BY <2>1, <2>2
    <3> QED
      BY <3>1, <3>3, <3>4
  <2>4. ToTouch(order) \in Arguments
    BY <2>3, ArgumentsType
  <2>5. RequestOK(q)' /\ ArgumentsOK(q)' /\ HoldsRow(q)'
    BY <2>2, <2>3 DEF TableInv, TypeOK, ToTouch
  <2> QED
    BY <1>1, <1>2, <2>2, <2>4, <2>5, TableInvLocal
<1> QED
  BY <1>3, <1>4, <1>5 DEF Begin

(* The rows a transaction owns are those it has changed, and it has changed    *)
(* none before its first writing statement.                                    *)
LEMMA OwnsNothing ==
  ASSUME TableInv, NEW q \in Requests, pc[q] \notin {"index", "touch", "commit"}
  PROVE  \A i \in Ids : owner[i] # q
BY DEF TableInv, OwnerOK, Created, Updated, Deleted, Touched

LEMMA TableInvFinish ==
  ASSUME TableInv, NEW q \in Requests, Finish(q), UNCHANGED table,
         \A i \in Ids : owner[i] # q
  PROVE  TableInv'
<1>1. NoArguments \in Arguments /\ "idle" \in Statements
  BY ArgumentsType DEF Statements
<1>2. raced' \subseteq Requests
  BY DEF Finish, TableInv, TypeOK
<1>3. RequestOK(q)' /\ ArgumentsOK(q)' /\ HoldsRow(q)'
  BY DEF Finish, Goto, TableInv, TypeOK, RequestOK, ArgumentsOK, HoldsRow, NoArguments,
         Creation, Writing
<1> QED
  BY <1>1, <1>2, <1>3, TableInvLocal DEF Finish, Goto

LEMMA TableInvFindDuplicate ==
  ASSUME TableInv, NEW q \in Requests, FindDuplicate(q)
  PROVE  TableInv'
<1>1. \A i \in Ids : owner[i] # q
  BY OwnsNothing DEF FindDuplicate
<1>2. CASE Finish(q)
  BY <1>1, <1>2, TableInvFinish DEF FindDuplicate
<1>3. CASE Goto(q, IF req[q].op = "update" THEN "lock" ELSE "insert") /\ UNCHANGED <<req, raced>>
  <2> DEFINE statement == IF req[q].op = "update" THEN "lock" ELSE "insert"
  <2>1. statement \in Statements /\ req[q] \in Arguments
    BY DEF Statements, TableInv, TypeOK
  <2>2. req' = [req EXCEPT ![q] = req[q]] /\ pc' = [pc EXCEPT ![q] = statement]
    BY <1>3 DEF Goto, TableInv, TypeOK
  <2>3. RequestOK(q)' /\ ArgumentsOK(q)' /\ HoldsRow(q)'
    BY <1>3 DEF FindDuplicate, Goto, TableInv, TypeOK, RequestOK, ArgumentsOK, HoldsRow,
                Creation, Writing, table
  <2>4. UNCHANGED table /\ raced' \subseteq Requests
    BY <1>3 DEF FindDuplicate, TableInv, TypeOK
  <2> QED
    BY <1>1, <2>1, <2>2, <2>3, <2>4, TableInvLocal
<1> QED
  BY <1>2, <1>3 DEF FindDuplicate

LEMMA TableInvRead ==
  ASSUME TableInv, NEW q \in Requests, Read(q)
  PROVE  TableInv'
<1>1. (\A i \in Ids : owner[i] # q) /\ UNCHANGED table /\ pc[q] = "read"
  BY OwnsNothing DEF Read
<1>2. CASE Finish(q)
  BY <1>1, <1>2, TableInvFinish
<1>3. CASE req[q].op = "delete" /\ Goto(q, "lock") /\ UNCHANGED <<req, raced>>
  <2>1. "lock" \in Statements /\ req[q] \in Arguments
    BY DEF Statements, TableInv, TypeOK
  <2>2. req' = [req EXCEPT ![q] = req[q]] /\ pc' = [pc EXCEPT ![q] = "lock"]
    BY <1>3 DEF Goto, TableInv, TypeOK
  <2>3. RequestOK(q)' /\ ArgumentsOK(q)' /\ HoldsRow(q)'
    BY <1>1, <1>3 DEF Goto, TableInv, TypeOK, RequestOK, ArgumentsOK, HoldsRow,
                      Creation, Writing, table
  <2>4. raced' \subseteq Requests
    BY <1>3 DEF TableInv, TypeOK
  <2> QED
    BY <1>1, <2>1, <2>2, <2>3, <2>4, TableInvLocal
<1>4. CASE /\ Matches(q) /\ req[q].op = "update"
           /\ \E patch \in Patches :
                LET merged == Merge(rows[req[q].id].ident, patch) IN
                /\ Accepted(merged)
                /\ req' = [req EXCEPT ![q].target = merged]
                /\ Goto(q, "find")
                /\ UNCHANGED raced
  <2>1. PICK patch \in Patches :
          /\ Accepted(Merge(rows[req[q].id].ident, patch))
          /\ req' = [req EXCEPT ![q].target = Merge(rows[req[q].id].ident, patch)]
          /\ Goto(q, "find")
          /\ UNCHANGED raced
    BY <1>4
  <2> DEFINE merged == Merge(rows[req[q].id].ident, patch)
             arguments == [req[q] EXCEPT !.target = merged]
  <2>2. rows[req[q].id].ident \in Identities
    BY <1>4 DEF TableInv, TypeOK, Matches, Active, ArgumentsOK, Writing, Row
  <2>3. merged \in Identities
    BY <2>2, MergeType
  <2>4. arguments \in Arguments /\ "find" \in Statements /\ arguments.target = merged
        /\ arguments.op = req[q].op /\ arguments.id = req[q].id /\ arguments.version = req[q].version
    <3>1. req[q] \in Arguments
      BY DEF TableInv, TypeOK
    <3> HIDE DEF merged
    <3> QED
      BY <2>3, <3>1 DEF Arguments, Statements
  <2>5. req' = [req EXCEPT ![q] = arguments] /\ pc' = [pc EXCEPT ![q] = "find"]
    BY <2>1 DEF Goto
  <2>6. ScopeMatches(merged)
    BY <2>1 DEF Accepted
  <2> HIDE DEF merged, arguments
  <2>7. /\ req'[q] = arguments /\ pc'[q] = "find"
        /\ req[q].op = "update" /\ ArgumentsOK(q) /\ rows' = rows
    BY <1>1, <1>4, <2>5 DEF TableInv, TypeOK, table
  <2>8. RequestOK(q)' /\ ArgumentsOK(q)' /\ HoldsRow(q)'
    BY <2>3, <2>4, <2>6, <2>7 DEF RequestOK, ArgumentsOK, HoldsRow, Creation, Writing
  <2>9. raced' \subseteq Requests
    BY <2>1 DEF TableInv, TypeOK
  <2> QED
    BY <1>1, <2>4, <2>5, <2>8, <2>9, TableInvLocal
<1> QED
  BY <1>2, <1>3, <1>4 DEF Read

LEMMA TableInvRollBack ==
  ASSUME TableInv, NEW q \in Requests, RollBack(q)
  PROVE  TableInv'
<1>1. TypeOK'
  BY ArgumentsType, MemoryStoreAssumption
     DEF RollBack, Release, Finish, Goto, TableInv, TypeOK, Statements
<1>2. \A i \in Ids : owner'[i] # q
  BY MemoryStoreAssumption DEF RollBack, Release, TableInv, TypeOK
<1>3. RequestOK(q)' /\ ArgumentsOK(q)' /\ HoldsRow(q)'
  BY DEF RollBack, Finish, Goto, TableInv, TypeOK, RequestOK, ArgumentsOK, HoldsRow,
         NoArguments, Creation, Writing
<1>4. /\ \A p \in Requests \ {q} : pc'[p] = pc[p] /\ req'[p] = req[p]
      /\ \A i \in Ids : owner[i] \in Requests \ {q} =>
           owner'[i] = owner[i] /\ draft'[i] = draft[i]
      /\ \A i \in Ids : owner'[i] \in Requests \ {q} => owner'[i] = owner[i]
  BY MemoryStoreAssumption DEF RollBack, Release, Finish, Goto, TableInv, TypeOK
<1> QED
  BY <1>1, <1>2, <1>3, <1>4, TableInvOwn DEF RollBack

LEMMA TableInvInsert ==
  ASSUME TableInv, NEW q \in Requests, Insert(q)
  PROVE  TableInv'
<1> DEFINE new == [ident |-> req[q].target, version |-> 1, deleted |-> FALSE]
<1>1. PICK i \in Ids :
        /\ Fresh(i)
        /\ draft' = [draft EXCEPT ![i] = new]
        /\ owner' = [owner EXCEPT ![i] = q]
  BY DEF Insert
<1>2. /\ pc[q] = "insert" /\ pc' = [pc EXCEPT ![q] = "commit"]
      /\ UNCHANGED <<rows, req, raced>>
  BY DEF Insert, Goto
<1>3. req[q].op \in Creation /\ ArgumentsOK(q) /\ req[q].target \in Identities
  BY <1>2 DEF TableInv, RequestOK, ArgumentsOK
<1>4. \A j \in Ids : owner[j] # q
  BY <1>2, OwnsNothing
<1>5. new \in Row
  BY <1>3, MemoryStoreAssumption DEF Row
<1>6. TypeOK'
  BY <1>1, <1>2, <1>5, MemoryStoreAssumption DEF TableInv, TypeOK, Statements
<1>7. RequestOK(q)' /\ ArgumentsOK(q)' /\ HoldsRow(q)'
  BY <1>2, <1>3 DEF TableInv, TypeOK, RequestOK, ArgumentsOK, HoldsRow, Creation, Writing
<1>8. \A j \in Ids : owner'[j] = q => OwnerOK(j, q)'
  BY <1>1, <1>2, <1>3, <1>4 DEF TableInv, TypeOK, OwnerOK, Created, Fresh
<1>9. /\ \A p \in Requests \ {q} : pc'[p] = pc[p] /\ req'[p] = req[p]
      /\ \A j \in Ids : owner[j] \in Requests \ {q} =>
           owner'[j] = owner[j] /\ draft'[j] = draft[j]
      /\ \A j \in Ids : owner'[j] \in Requests \ {q} => owner'[j] = owner[j]
  BY <1>1, <1>2, MemoryStoreAssumption DEF Fresh, TableInv, TypeOK
<1> QED
  BY <1>2, <1>6, <1>7, <1>8, <1>9, TableInvOwn

(* A matching row leaves room for one more version. *)
LEMMA MatchedRow ==
  ASSUME TableInv, NEW q \in Requests, req[q].op \in Writing, Matches(q)
  PROVE  /\ req[q].id \in Ids /\ rows[req[q].id] \in Row
         /\ rows[req[q].id].version + 1 \in 1 .. MaxVersion
         /\ rows[req[q].id].deleted = FALSE
<1>1. req[q].id \in Ids /\ req[q].version \in 1 .. MaxVersion - 1
  BY DEF TableInv, ArgumentsOK
<1>2. rows[req[q].id] \in Row
  BY <1>1 DEF Matches, Active, TableInv, TypeOK
<1> QED
  BY <1>1, <1>2, MemoryStoreAssumption DEF Matches, Active, Row

LEMMA TableInvLock ==
  ASSUME TableInv, NEW q \in Requests, Lock(q)
  PROVE  TableInv'
<1> DEFINE i == req[q].id
<1>1. /\ pc[q] = "lock" /\ req[q].op \in Writing /\ i \in Ids /\ owner[i] = NoRequest
      /\ draft[i] = rows[i] /\ UNCHANGED <<rows, req, raced>>
      /\ req[q] \in Arguments /\ ArgumentsOK(q)
  BY DEF Lock, TableInv, RequestOK, ArgumentsOK, TypeOK
<1>2. \A j \in Ids : owner[j] # q
  BY <1>1, OwnsNothing
<1>3. CASE ~ Matches(q)
  <2>1. pc' = [pc EXCEPT ![q] = "reread"] /\ UNCHANGED table /\ req' = [req EXCEPT ![q] = req[q]]
    BY <1>1, <1>3 DEF Lock, Goto, table, TableInv, TypeOK
  <2>2. RequestOK(q)' /\ ArgumentsOK(q)' /\ HoldsRow(q)'
    BY <1>1, <2>1 DEF TableInv, TypeOK, RequestOK, ArgumentsOK, HoldsRow, Creation, Writing
  <2>3. "reread" \in Statements /\ raced' \subseteq Requests
    BY <1>1 DEF Statements, TableInv, TypeOK
  <2> QED
    BY <1>1, <1>2, <2>1, <2>2, <2>3, TableInvLocal
<1>4. CASE Matches(q)
  <2> DEFINE new == [ident |-> rows[i].ident, version |-> rows[i].version + 1,
                     deleted |-> req[q].op = "delete"]
             statement == IF req[q].op = "delete" THEN "commit" ELSE "index"
  <2>1. /\ draft' = [draft EXCEPT ![i] = new] /\ owner' = [owner EXCEPT ![i] = q]
        /\ pc' = [pc EXCEPT ![q] = statement]
    BY <1>1, <1>4 DEF Lock, Goto
  <2>2. new \in Row
    BY <1>1, <1>4, MatchedRow DEF Row
  <2>3. TypeOK'
    BY <1>1, <2>1, <2>2, MemoryStoreAssumption DEF TableInv, TypeOK, Statements
  <2>4. RequestOK(q)' /\ ArgumentsOK(q)' /\ HoldsRow(q)'
    BY <1>1, <2>1 DEF TableInv, TypeOK, RequestOK, ArgumentsOK, HoldsRow, Creation, Writing
  <2>5. pc'[q] = statement /\ draft'[i] = new /\ Matches(q)' /\ req'[q] = req[q] /\ rows' = rows
    BY <1>1, <1>4, <2>1 DEF TableInv, TypeOK, Matches
  <2>6. ASSUME NEW j \in Ids, owner'[j] = q
        PROVE  OwnerOK(j, q)'
    <3>1. j = i
      BY <1>2, <2>1, <2>6 DEF TableInv, TypeOK
    <3> QED
      BY <1>1, <2>5, <3>1 DEF OwnerOK, Updated, Deleted, Writing
  <2>7. /\ \A p \in Requests \ {q} : pc'[p] = pc[p] /\ req'[p] = req[p]
        /\ \A j \in Ids : owner[j] \in Requests \ {q} =>
             owner'[j] = owner[j] /\ draft'[j] = draft[j]
        /\ \A j \in Ids : owner'[j] \in Requests \ {q} => owner'[j] = owner[j]
    BY <1>1, <2>1, MemoryStoreAssumption DEF TableInv, TypeOK
  <2> QED
    BY <1>1, <2>3, <2>4, <2>6, <2>7, TableInvOwn
<1> QED
  BY <1>3, <1>4

(* The rows a transaction owns exist from its commit on. *)
LEMMA OwnedDraft ==
  ASSUME TableInv, NEW i \in Ids, NEW q \in Requests, owner[i] = q
  PROVE  draft[i] \in Row
<1>1. OwnerOK(i, q) /\ draft[i] \in Row \cup {NoRow} /\ rows[i] \in Row \cup {NoRow}
  BY DEF TableInv, TypeOK
<1>2. CASE Touched(i, q)
  BY <1>1, <1>2 DEF Touched, Active
<1>3. CASE Created(i, q)
  BY <1>3, MemoryStoreAssumption DEF Created, Row, TableInv, ArgumentsOK
<1>4. CASE Updated(i, q) \/ Deleted(i, q)
  <2>1. req[q].op \in Writing /\ Matches(q) /\ i = req[q].id
    BY <1>4 DEF Updated, Deleted, Writing
  <2>2. rows[i] \in Row /\ rows[i].version + 1 \in 1 .. MaxVersion
    BY <2>1, MatchedRow
  <2>3. Updated(i, q) => req[q].target \in Identities
    BY DEF Updated, TableInv, ArgumentsOK
  <2>4. rows[i].ident \in Identities
    BY <2>2 DEF Row
  <2>5. CASE Updated(i, q)
    BY <2>2, <2>3, <2>4, <2>5 DEF Updated, Row
  <2>6. CASE Deleted(i, q)
    BY <2>2, <2>4, <2>6 DEF Deleted, Row
  <2> QED
    BY <1>4, <2>5, <2>6
<1> QED
  BY <1>1, <1>2, <1>3, <1>4 DEF OwnerOK

(* Replacing the identity of a row. *)
LEMMA IndexedRow ==
  ASSUME NEW row \in Row, NEW ident
  PROVE  [row EXCEPT !.ident = ident]
           = [ident |-> ident, version |-> row.version, deleted |-> row.deleted]
BY DEF Row

LEMMA TableInvIndex ==
  ASSUME TableInv, NEW q \in Requests, Index(q)
  PROVE  TableInv'
<1> DEFINE i == req[q].id
           new == [ident |-> req[q].target, version |-> rows[i].version + 1, deleted |-> FALSE]
<1>1. /\ pc[q] = "index" /\ req[q].op = "update" /\ i \in Ids /\ owner[i] = q
      /\ pc' = [pc EXCEPT ![q] = "commit"] /\ UNCHANGED <<rows, owner, req, raced>>
      /\ ArgumentsOK(q) /\ req[q].target \in Identities
  BY DEF Index, Goto, TableInv, RequestOK, ArgumentsOK, HoldsRow, Writing
<1>2. \A j \in Ids : owner[j] = q => j = i
  BY <1>1 DEF TableInv, OwnerOK, Created, Updated, Deleted, Touched, Creation
<1>3. /\ Matches(q)
      /\ draft[i] = [ident |-> rows[i].ident, version |-> rows[i].version + 1, deleted |-> FALSE]
  BY <1>1 DEF TableInv, OwnerOK, Created, Updated, Deleted, Touched, Creation
<1>4. draft' = [draft EXCEPT ![i] = new]
  <2>1. draft[i] \in Row
    BY <1>1, OwnedDraft
  <2>2. [draft[i] EXCEPT !.ident = req[q].target] = new
    <3>1. [draft[i] EXCEPT !.ident = req[q].target]
            = [ident |-> req[q].target, version |-> draft[i].version, deleted |-> draft[i].deleted]
      BY <2>1, IndexedRow, Zenon
    <3>2. draft[i].version = rows[i].version + 1 /\ draft[i].deleted = FALSE
      BY <1>3
    <3> QED
      BY <3>1, <3>2, Zenon
  <2>3. draft' = [draft EXCEPT ![i] = [draft[i] EXCEPT !.ident = req[q].target]]
    BY Zenon DEF Index
  <2> QED
    BY <2>2, <2>3, Zenon
<1>5. new \in Row
  BY <1>1, <1>3, MatchedRow DEF Row, Writing
<1>6. TypeOK'
  BY <1>1, <1>4, <1>5, MemoryStoreAssumption DEF TableInv, TypeOK, Statements
<1>7. RequestOK(q)' /\ ArgumentsOK(q)' /\ HoldsRow(q)'
  BY <1>1 DEF TableInv, TypeOK, RequestOK, ArgumentsOK, HoldsRow, Creation, Writing
<1>8. /\ pc'[q] = "commit" /\ draft'[i] = new /\ Matches(q)' /\ req'[q] = req[q] /\ rows' = rows
  BY <1>1, <1>3, <1>4 DEF TableInv, TypeOK, Matches
<1>9. \A j \in Ids : owner'[j] = q => OwnerOK(j, q)'
  BY <1>1, <1>2, <1>8 DEF OwnerOK, Updated
<1>10. /\ \A p \in Requests \ {q} : pc'[p] = pc[p] /\ req'[p] = req[p]
       /\ \A j \in Ids : owner[j] \in Requests \ {q} => draft'[j] = draft[j]
  BY <1>1, <1>4 DEF TableInv, TypeOK
<1> QED
  BY <1>1, <1>6, <1>7, <1>9, <1>10, TableInvOwn

(* A retrieval that has more than one row left to touch stays non-empty. *)
LEMMA RestOfOrder ==
  ASSUME NEW order \in Seq(Ids), order # << >>
  PROVE  /\ Head(order) \in Ids /\ Tail(order) \in Seq(Ids)
         /\ Len(order) # 1 => Tail(order) # << >>
<1>1. /\ Head(order) \in Ids /\ Tail(order) \in Seq(Ids)
      /\ Len(Tail(order)) = Len(order) - 1 /\ Len(order) \in Nat
  OBVIOUS
<1> QED
  BY <1>1

LEMMA TableInvTouch ==
  ASSUME TableInv, NEW q \in Requests, Touch(q)
  PROVE  TableInv'
<1> DEFINE i == Head(req[q].order)
           rest == Tail(req[q].order)
           statement == IF Len(req[q].order) = 1 THEN "commit" ELSE "touch"
           arguments == [req[q] EXCEPT !.order = rest]
<1>1. /\ pc[q] = "touch" /\ req[q].op = "touch" /\ req[q].order \in Seq(Ids) \ {<< >>}
      /\ req[q] \in Arguments
  BY DEF Touch, TableInv, RequestOK, TypeOK, Arguments
<1>2. /\ i \in Ids /\ rest \in Seq(Ids)
      /\ Len(req[q].order) # 1 => rest # << >>
  BY <1>1, RestOfOrder
<1>3. /\ owner[i] = NoRequest /\ draft[i] = rows[i]
      /\ owner' = IF Active(rows[i]) THEN [owner EXCEPT ![i] = q] ELSE owner
      /\ req' = [req EXCEPT ![q] = arguments]
      /\ pc' = [pc EXCEPT ![q] = statement]
      /\ UNCHANGED <<rows, draft, raced>>
  BY <1>2 DEF Touch, Goto, TableInv, TypeOK
<1>4. arguments \in Arguments /\ arguments.op = "touch" /\ arguments.order = rest
  BY <1>1, <1>2 DEF Arguments
<1> HIDE DEF i, rest, arguments
<1>5. TypeOK'
  BY <1>2, <1>3, <1>4, MemoryStoreAssumption DEF TableInv, TypeOK, Statements
<1>6. req'[q] = arguments /\ pc'[q] = statement
  BY <1>3 DEF TableInv, TypeOK
<1>7. RequestOK(q)' /\ ArgumentsOK(q)' /\ HoldsRow(q)'
  BY <1>2, <1>4, <1>6 DEF RequestOK, ArgumentsOK, HoldsRow, Creation, Writing
<1>8. ASSUME NEW j \in Ids, owner'[j] = q
      PROVE  OwnerOK(j, q)'
  <2>1. Active(rows[j]) /\ draft[j] = rows[j]
    BY <1>1, <1>3, <1>8
       DEF TableInv, TypeOK, OwnerOK, Created, Updated, Deleted, Touched, Creation
  <2> QED
    BY <1>3, <1>4, <1>6, <2>1 DEF OwnerOK, Touched
<1>9. /\ \A p \in Requests \ {q} : pc'[p] = pc[p] /\ req'[p] = req[p]
      /\ \A j \in Ids : owner[j] \in Requests \ {q} => owner'[j] = owner[j]
      /\ \A j \in Ids : owner'[j] \in Requests \ {q} => owner'[j] = owner[j]
  BY <1>3, MemoryStoreAssumption DEF TableInv, TypeOK
<1> QED
  BY <1>3, <1>5, <1>7, <1>8, <1>9, TableInvOwn

LEMMA TableInvCommit ==
  ASSUME TableInv, NEW q \in Requests, Commit(q)
  PROVE  TableInv'
<1>1. /\ rows' = [i \in Ids |-> IF owner[i] = q THEN draft[i] ELSE rows[i]]
      /\ owner' = [i \in Ids |-> IF owner[i] = q THEN NoRequest ELSE owner[i]]
      /\ pc' = [pc EXCEPT ![q] = "idle"] /\ req' = [req EXCEPT ![q] = NoArguments]
      /\ draft' = draft /\ raced' \subseteq Requests
  BY DEF Commit, Release, Goto, Seeking, TableInv, TypeOK
<1>2. TypeOK'
  BY <1>1, ArgumentsType, MemoryStoreAssumption DEF TableInv, TypeOK, Statements
<1>3. \A i \in Ids : rows[i] # NoRow => rows'[i] # NoRow
  BY <1>1, OwnedDraft, NoRowAssumption
<1>4. ASSUME NEW p \in Requests
      PROVE  RequestOK(p)' /\ ArgumentsOK(p)' /\ HoldsRow(p)'
  <2>1. CASE p = q
    BY <1>1, <2>1 DEF TableInv, TypeOK, RequestOK, ArgumentsOK, HoldsRow, NoArguments,
                      Creation, Writing
  <2>2. CASE p # q
    <3>1. pc'[p] = pc[p] /\ req'[p] = req[p]
      BY <1>1, <2>2 DEF TableInv, TypeOK
    <3>2. RequestOK(p) /\ ArgumentsOK(p) /\ HoldsRow(p)
      BY DEF TableInv
    <3>3. HoldsRow(p)'
      BY <1>1, <2>2, <3>1, <3>2 DEF RequestOK, ArgumentsOK, HoldsRow, Writing
    <3> QED
      BY <1>3, <3>1, <3>2, <3>3 DEF RequestOK, ArgumentsOK
  <2> QED
    BY <2>1, <2>2
<1>5. ASSUME NEW i \in Ids, NEW p \in Requests, owner'[i] = p
      PROVE  OwnerOK(i, p)'
  <2>1. p # q /\ owner[i] = p /\ rows'[i] = rows[i]
    BY <1>1, <1>5, MemoryStoreAssumption
  <2>2. pc'[p] = pc[p] /\ req'[p] = req[p] /\ OwnerOK(i, p)
    BY <1>1, <2>1 DEF TableInv, TypeOK
  <2>3. \A j \in Ids : owner'[j] = p => owner[j] = p
    BY <1>1, MemoryStoreAssumption
  <2> QED
    BY <1>1, <2>1, <2>2, <2>3 DEF OwnerOK, Created, Updated, Deleted, Touched, Matches
<1> QED
  BY <1>2, <1>4, <1>5 DEF TableInv

LEMMA TableInvNext == TableInv /\ [Next]_vars => TableInv'
<1> SUFFICES ASSUME TableInv, [Next]_vars
             PROVE  TableInv'
  OBVIOUS
<1>1. CASE UNCHANGED vars
  BY <1>1 DEF vars, TableInv, TypeOK, RequestOK, ArgumentsOK, HoldsRow,
              OwnerOK, Created, Updated, Deleted, Touched, Matches
<1>2. ASSUME NEW q \in Requests, Begin(q)
      PROVE  TableInv'
  BY <1>2, TableInvBegin
<1>3. ASSUME NEW q \in Requests, Statement(q)
      PROVE  TableInv'
  BY <1>3, TableInvFindDuplicate, TableInvRead, TableInvRollBack, TableInvCommit
     DEF Statement, Reread
<1>4. ASSUME NEW q \in Requests, Waiting(q)
      PROVE  TableInv'
  BY <1>4, TableInvInsert, TableInvLock, TableInvIndex, TableInvRollBack, TableInvTouch
     DEF Waiting, Refuse
<1>5. ASSUME NEW q \in Requests, Abort(q) \/ DeadlockVictim(q)
      PROVE  TableInv'
  BY <1>5, TableInvRollBack DEF Abort, DeadlockVictim
<1> QED
  BY <1>1, <1>2, <1>3, <1>4, <1>5 DEF Next

(* TableInv is an invariant of the transactions on agent_memories: only the    *)
(* owner of a row has changed it, and to what its request asks for.            *)
THEOREM TableInvariant == Spec => []TableInv
BY TableInvInit, TableInvNext, PTL DEF Spec

(* The columns, locks and requests keep their types, and a row that no open    *)
(* transaction has changed is the committed one.                               *)
THEOREM TypeCorrect == Spec => []TypeOK
<1>1. TableInv => TypeOK
  BY DEF TableInv
<1> QED
  BY <1>1, TableInvariant, PTL

------------------------------------------------------------------------------
(* The unique index. *)

(* Memory i holds a key in the committed table or in what its transaction      *)
(* makes of it: an update that moves a memory holds two until it ends.         *)
HoldsKey(i, ident) == Says(rows[i], ident) \/ Says(draft[i], ident)

KeysExclusive ==
  \A i, j \in Ids, ident \in Identities : HoldsKey(i, ident) /\ HoldsKey(j, ident) => i = j

(* Adding a key that no other memory holds keeps the keys exclusive. *)
LEMMA KeysExclusiveStep ==
  ASSUME KeysExclusive, NEW i \in Ids, NEW new,
         \A j \in Ids, ident \in Identities : HoldsKey(j, ident)' =>
           HoldsKey(j, ident) \/ (j = i /\ ident = new),
         \A j \in Ids \ {i} : ~ HoldsKey(j, new)
  PROVE  KeysExclusive'
BY DEF KeysExclusive

LEMMA FewerKeys ==
  ASSUME KeysExclusive,
         \A i \in Ids, ident \in Identities : HoldsKey(i, ident)' => HoldsKey(i, ident)
  PROVE  KeysExclusive'
BY DEF KeysExclusive

LEMMA KeysExclusiveNext == TableInv /\ KeysExclusive /\ [Next]_vars => KeysExclusive'
<1> SUFFICES ASSUME TableInv, KeysExclusive, [Next]_vars
             PROVE  KeysExclusive'
  OBVIOUS
<1>1. CASE UNCHANGED <<rows, draft>>
  BY <1>1, FewerKeys DEF HoldsKey
<1>2. ASSUME NEW q \in Requests, RollBack(q)
      PROVE  KeysExclusive'
  BY <1>2, FewerKeys DEF RollBack, HoldsKey
<1>3. ASSUME NEW q \in Requests, Commit(q)
      PROVE  KeysExclusive'
  BY <1>3, FewerKeys DEF Commit, HoldsKey
<1>4. ASSUME NEW q \in Requests, Lock(q)
      PROVE  KeysExclusive'
  <2>1. CASE ~ Matches(q)
    BY <1>1, <1>4, <2>1 DEF Lock
  <2>2. CASE Matches(q)
    <3> DEFINE i == req[q].id
    <3>1. i \in Ids /\ owner[i] = NoRequest /\ Active(rows[i])
      BY <1>4, <2>2 DEF Lock, TableInv, RequestOK, ArgumentsOK, Matches
    <3>2. draft \in [Ids -> Row \cup {NoRow}] /\ draft[i] = rows[i]
      BY <3>1 DEF TableInv, TypeOK
    <3>3. rows' = rows /\ draft' = [draft EXCEPT ![i] =
            [ident |-> @.ident, version |-> @.version + 1, deleted |-> req[q].op = "delete"]]
      BY <1>4, <2>2 DEF Lock
    <3>4. /\ \A j \in Ids \ {i} : draft'[j] = draft[j]
          /\ draft'[i].ident = rows[i].ident
      BY <3>2, <3>3
    <3>5. \A j \in Ids, ident \in Identities : HoldsKey(j, ident)' => HoldsKey(j, ident)
      BY <3>1, <3>3, <3>4 DEF HoldsKey, Says
    <3> QED
      BY <3>5, FewerKeys
  <2> QED
    BY <2>1, <2>2
<1>5. ASSUME NEW q \in Requests, Insert(q)
      PROVE  KeysExclusive'
  <2>1. PICK i \in Ids :
          draft' = [draft EXCEPT ![i] =
                      [ident |-> req[q].target, version |-> 1, deleted |-> FALSE]]
    BY <1>5 DEF Insert
  <2>2. rows' = rows /\ Holders(q) = {} /\ \A j \in Ids : owner[j] # q
    BY <1>5, OwnsNothing DEF Insert
  <2>3. \A j \in Ids : ~ HoldsKey(j, req[q].target)
    BY <2>2 DEF Holders, HoldsKey
  <2>4. /\ \A j \in Ids \ {i} : draft'[j] = draft[j]
        /\ draft'[i].ident = req[q].target
    BY <2>1 DEF TableInv, TypeOK
  <2>5. \A j \in Ids, ident \in Identities : HoldsKey(j, ident)' =>
           HoldsKey(j, ident) \/ (j = i /\ ident = req[q].target)
    BY <2>2, <2>4 DEF HoldsKey, Says
  <2> QED
    BY <2>3, <2>5, KeysExclusiveStep
<1>6. ASSUME NEW q \in Requests, Index(q)
      PROVE  KeysExclusive'
  <2> DEFINE i == req[q].id
  <2>1. i \in Ids /\ rows' = rows /\ Holders(q) = {}
    BY <1>6 DEF Index, TableInv, RequestOK, ArgumentsOK, Writing
  <2>2. \A j \in Ids : owner[j] = q => j = i
    BY <1>6 DEF Index, TableInv, RequestOK, OwnerOK, Created, Updated, Deleted, Touched, Creation
  <2>3. \A j \in Ids \ {i} : ~ HoldsKey(j, req[q].target)
    BY <2>1, <2>2 DEF Holders, HoldsKey
  <2>4. draft' = [draft EXCEPT ![i] = [draft[i] EXCEPT !.ident = req[q].target]]
    BY <1>6, Zenon DEF Index
  <2>5. draft \in [Ids -> Row \cup {NoRow}] /\ draft[i] \in Row
    <3>1. owner[i] = q
      BY <1>6 DEF Index, TableInv, HoldsRow
    <3> QED
      BY <2>1, <3>1, OwnedDraft DEF TableInv, TypeOK
  <2>6. /\ \A j \in Ids \ {i} : draft'[j] = draft[j]
        /\ draft'[i].ident = req[q].target
    BY <2>1, <2>4, <2>5, IndexedRow
  <2>7. \A j \in Ids, ident \in Identities : HoldsKey(j, ident)' =>
           HoldsKey(j, ident) \/ (j = i /\ ident = req[q].target)
    BY <2>1, <2>6 DEF HoldsKey, Says
  <2> QED
    BY <2>1, <2>3, <2>7, KeysExclusiveStep
<1>7. ASSUME NEW q \in Requests,
             Begin(q) \/ FindDuplicate(q) \/ Read(q) \/ Touch(q)
      PROVE  UNCHANGED <<rows, draft>>
  BY <1>7 DEF Begin, Create, Write, Search, Receive, FindDuplicate, Read, Touch, table
<1> QED
  BY <1>1, <1>2, <1>3, <1>4, <1>5, <1>6, <1>7
     DEF Next, Statement, Waiting, Refuse, Reread, Abort, DeadlockVictim, vars

(* No interleaving of transactions leaves two active memories with the same    *)
(* content, type, scope and project: the partial unique index holds a key from *)
(* the moment its row is written to the end of the transaction.                *)
THEOREM UniqueActiveMemories == Spec => []OneActivePerIdentity
<1>1. Init => KeysExclusive
  BY DEF Init, KeysExclusive, HoldsKey, Says, Active
<1>2. TableInv /\ KeysExclusive => OneActivePerIdentity
  <2> SUFFICES ASSUME TableInv, KeysExclusive, NEW i \in Ids, NEW j \in Ids,
                      Active(rows[i]), Active(rows[j]), rows[i].ident = rows[j].ident
               PROVE  i = j
    BY DEF OneActivePerIdentity
  <2>1. rows[i].ident \in Identities
    BY DEF TableInv, TypeOK, Active, Row
  <2> QED
    BY <2>1 DEF KeysExclusive, HoldsKey, Says
<1> QED
  BY <1>1, <1>2, KeysExclusiveNext, TableInvariant, PTL DEF Spec

------------------------------------------------------------------------------
(* A transaction of the API owns at most its own row when it commits. *)
LEMMA CommitChanges ==
  ASSUME TableInv, NEW q \in Requests, Commit(q), NEW i \in Ids, rows'[i] # rows[i]
  PROVE  owner[i] = q /\ rows'[i] = draft[i]
         /\ (Created(i, q) \/ Updated(i, q) \/ Deleted(i, q))
<1>1. owner[i] = q /\ rows'[i] = draft[i]
  BY DEF Commit
<1> QED
  BY <1>1 DEF TableInv, OwnerOK, Touched

(* Nothing but a commit changes the committed table. *)
LEMMA OnlyCommits ==
  ASSUME TableInv, [Next]_vars, rows' # rows
  PROVE  \E q \in Requests : Commit(q)
BY DEF Next, Begin, Create, Write, Search, Receive, Statement, FindDuplicate, Read, Reread,
       Waiting, Insert, Lock, Index, Refuse, Touch, Abort, DeadlockVictim, RollBack, table, vars

(* A memory is only overwritten by a client that named the version it          *)
(* replaces, and its version grows by one: MemoryRepository's optimistic       *)
(* UPDATE loses no write, whatever overlaps with it.                           *)
THEOREM WritesAreCompareAndSet == Spec => NoLostUpdate
<1> DEFINE A(i) ==
      rows[i] # NoRow /\ rows'[i] # rows[i] =>
         \E q \in Requests :
           /\ pc[q] = "commit" /\ pc'[q] = "idle"
           /\ req[q].id = i /\ req[q].version = rows[i].version
           /\ rows'[i].version = rows[i].version + 1
<1>1. TableInv /\ [Next]_vars => \A i \in Ids : A(i)
  <2> SUFFICES ASSUME TableInv, [Next]_vars, NEW i \in Ids, rows[i] # NoRow, rows'[i] # rows[i]
               PROVE  \E q \in Requests :
                        /\ pc[q] = "commit" /\ pc'[q] = "idle"
                        /\ req[q].id = i /\ req[q].version = rows[i].version
                        /\ rows'[i].version = rows[i].version + 1
    OBVIOUS
  <2>1. PICK q \in Requests : Commit(q)
    BY OnlyCommits
  <2>2. pc[q] = "commit" /\ pc'[q] = "idle"
    BY <2>1 DEF Commit, Goto, TableInv, TypeOK
  <2>3. rows'[i] = draft[i] /\ (Updated(i, q) \/ Deleted(i, q))
    BY <2>1, CommitChanges DEF Created
  <2>4. req[q].id = i /\ req[q].version = rows[i].version
    BY <2>3 DEF Updated, Deleted, Matches
  <2>5. rows'[i].version = rows[i].version + 1
    BY <2>3 DEF Updated, Deleted
  <2> QED
    BY <2>2, <2>4, <2>5
<1>2. (\A i \in Ids : A(i)) => [\A i \in Ids : A(i)]_vars
  OBVIOUS
<1> QED
  BY <1>1, <1>2, TableInvariant, PTL DEF Spec, NoLostUpdate

------------------------------------------------------------------------------
(* The abstract register. *)

(* A commit changes at most one memory. *)
LEMMA CommitOwner ==
  ASSUME TableInv, NEW q \in Requests, Commit(q), NEW i \in Ids, rows'[i] # rows[i]
  PROVE  rows' = [rows EXCEPT ![i] = draft[i]]
<1>1. owner[i] = q /\ (Created(i, q) \/ Updated(i, q) \/ Deleted(i, q))
  BY CommitChanges
<1>2. ASSUME NEW j \in Ids, j # i
      PROVE  rows'[j] = rows[j]
  <2>1. CASE owner[j] = q
    BY <1>1, <1>2, <2>1
       DEF TableInv, OwnerOK, Created, Updated, Deleted, Touched, Creation
  <2>2. CASE owner[j] # q
    BY <2>2 DEF Commit
  <2> QED
    BY <2>1, <2>2
<1> QED
  BY <1>1, <1>2 DEF Commit, TableInv, TypeOK

LEMMA CommitIsRegisterStep ==
  ASSUME TableInv, KeysExclusive, NEW q \in Requests, Commit(q),
         NEW i \in Ids, rows'[i] # rows[i]
  PROVE  Register!Next
<1>1. rows' = [rows EXCEPT ![i] = draft[i]] /\ owner[i] = q
  BY CommitOwner, CommitChanges
<1>2. draft[i] \in Row
  BY <1>1, OwnedDraft
<1>3. Active(draft[i]) => Register!Free(i, draft[i].ident)
  <2> SUFFICES ASSUME Active(draft[i]), NEW j \in Ids \ {i}, Active(rows[j])
               PROVE  rows[j].ident # draft[i].ident
    BY DEF Register!Free, Register!Present, Active
  <2>1. draft[i].ident \in Identities
    BY <1>2 DEF Row
  <2> QED
    BY <2>1 DEF KeysExclusive, HoldsKey, Says
<1>4. CASE Created(i, q)
  <2>1. Active(draft[i]) /\ draft[i].ident = req[q].target
    <3>1. draft[i].deleted = FALSE /\ draft[i].ident = req[q].target
      BY <1>4 DEF Created
    <3> QED
      BY <1>2, <3>1, NoRowAssumption DEF Active
  <2>2. req[q].target \in Identities
    BY <1>2, <2>1 DEF Row
  <2>3. Register!Add(i, req[q].target)
    BY <1>1, <1>3, <1>4, <2>1 DEF Created, Register!Add
  <2> QED
    BY <2>2, <2>3 DEF Register!Next
<1>5. CASE Updated(i, q)
  <2>1. pc[q] = "commit" /\ Active(rows[i])
    BY <1>5 DEF Commit, Updated, Matches
  <2>2. draft[i] = [ident |-> req[q].target, version |-> rows[i].version + 1, deleted |-> FALSE]
    BY <1>5, <2>1 DEF Updated
  <2>3. Active(draft[i]) /\ draft[i].ident = req[q].target
    <3>1. draft[i].deleted = FALSE /\ draft[i].ident = req[q].target
      BY <2>2
    <3> QED
      BY <1>2, <3>1, NoRowAssumption DEF Active
  <2>4. req[q].target \in Identities
    BY <1>2, <2>3 DEF Row
  <2>5. Register!Change(i, req[q].target)
    BY <1>1, <1>3, <2>1, <2>2, <2>3 DEF Register!Change, Register!Present, Active
  <2> QED
    BY <2>4, <2>5 DEF Register!Next
<1>6. CASE Deleted(i, q)
  <2>1. Register!Remove(i)
    BY <1>1, <1>6 DEF Deleted, Matches, Active, Register!Remove, Register!Present
  <2> QED
    BY <2>1 DEF Register!Next
<1> QED
  BY <1>4, <1>5, <1>6, CommitChanges

(* The table of memories implements compare-and-set registers with exclusive   *)
(* keys: each commit adds, changes or removes one memory, or changes none.     *)
THEOREM RegisterRefinement == Spec => ImplementsRegister
<1>1. Init => Register!Init
  BY DEF Init, Register!Init
<1>2. TableInv /\ KeysExclusive /\ [Next]_vars => [Register!Next]_rows
  <2> SUFFICES ASSUME TableInv, KeysExclusive, [Next]_vars, rows' # rows
               PROVE  Register!Next
    OBVIOUS
  <2>1. PICK q \in Requests : Commit(q)
    BY OnlyCommits
  <2>2. \E i \in Ids : rows'[i] # rows[i]
    BY <2>1 DEF Commit, TableInv, TypeOK
  <2> QED
    BY <2>1, <2>2, CommitIsRegisterStep
<1>3. Init => KeysExclusive
  BY DEF Init, KeysExclusive, HoldsKey, Says, Active
<1> QED
  BY <1>1, <1>2, <1>3, KeysExclusiveNext, TableInvariant, PTL
     DEF Spec, ImplementsRegister, Register!Spec

------------------------------------------------------------------------------
(* Refused writes. *)

(* A writer past its search whose content is in the table by now has been      *)
(* overtaken by the commit that stored it.                                     *)
RacedInv ==
  \A q \in Requests, i \in Ids :
    /\ pc[q] \in {"insert", "lock", "index"}
    /\ req[q].op # "delete"
    /\ i # req[q].id
    /\ Says(rows[i], req[q].target)
    => q \in raced

LEMMA RacedInvNext == TableInv /\ RacedInv /\ [Next]_vars => RacedInv'
<1> SUFFICES ASSUME TableInv, RacedInv, [Next]_vars,
                    NEW q \in Requests, NEW i \in Ids,
                    pc'[q] \in {"insert", "lock", "index"}, req'[q].op # "delete",
                    i # req'[q].id, Says(rows'[i], req'[q].target)
             PROVE  q \in raced'
  BY DEF RacedInv
<1>1. CASE UNCHANGED vars
  BY <1>1 DEF vars, RacedInv
<1>2. ASSUME NEW p \in Requests, p # q, Commit(p)
      PROVE  q \in raced'
  <2>1. pc'[q] = pc[q] /\ req'[q] = req[q]
    BY <1>2 DEF Commit, Goto, TableInv, TypeOK
  <2>2. CASE Says(rows[i], req[q].target)
    BY <1>2, <2>1, <2>2 DEF Commit, RacedInv
  <2>3. CASE ~ Says(rows[i], req[q].target)
    <3>1. owner[i] = p /\ rows'[i] = draft[i]
      BY <1>2, <2>1, <2>3, CommitChanges
    <3>2. draft[i].ident = req[q].target /\ i \in Stored(p)
      BY <2>1, <2>3, <3>1 DEF Stored, Says
    <3>3. q \in Seeking(draft[i].ident)
      BY <2>1, <3>2 DEF Seeking
    <3> QED
      BY <1>2, <3>2, <3>3 DEF Commit
  <2> QED
    BY <2>2, <2>3
<1>3. ASSUME NEW p \in Requests, p # q, ~ Commit(p),
             Begin(p) \/ Statement(p) \/ Waiting(p) \/ Abort(p) \/ DeadlockVictim(p)
      PROVE  q \in raced'
  <2>1. rows' = rows
    BY <1>3 DEF Begin, Create, Write, Search, Receive, Statement, FindDuplicate, Read, Reread,
                Waiting, Insert, Lock, Index, Refuse, Touch, Abort, DeadlockVictim, RollBack, table
  <2>2. pc'[q] = pc[q] /\ req'[q] = req[q]
    BY <1>3 DEF Begin, Create, Write, Search, Receive, Statement, FindDuplicate, Read, Reread,
                Waiting, Insert, Lock, Index, Refuse, Touch, Abort, DeadlockVictim, RollBack,
                Finish, Goto, TableInv, TypeOK
  <2>3. q \in raced => q \in raced'
    BY <1>3 DEF Begin, Create, Write, Search, Receive, Statement, FindDuplicate, Read, Reread,
                Waiting, Insert, Lock, Index, Refuse, Touch, Abort, DeadlockVictim, RollBack, Finish
  <2> QED
    BY <2>1, <2>2, <2>3 DEF RacedInv
<1>4. CASE FindDuplicate(q)
  <2>1. Duplicates(q) = {} /\ rows' = rows /\ req' = req
    BY <1>4 DEF FindDuplicate, Finish, Goto, table, TableInv, TypeOK
  <2> QED
    BY <2>1 DEF Duplicates
<1>5. CASE Read(q)
  BY <1>5 DEF Read, Finish, Goto, TableInv, TypeOK
<1>6. CASE Lock(q)
  BY <1>6 DEF Lock, Goto, TableInv, TypeOK, RacedInv
<1>7. CASE Begin(q) \/ Commit(q) \/ Insert(q) \/ Index(q) \/ Touch(q) \/ RollBack(q)
  BY <1>7 DEF Begin, Create, Write, Search, Receive, Commit, Insert, Index, Touch, RollBack,
              Finish, Goto, TableInv, TypeOK
<1> QED
  BY <1>1, <1>2, <1>3, <1>4, <1>5, <1>6, <1>7
     DEF Next, Statement, Waiting, Refuse, Reread, Abort, DeadlockVictim

(* The database refuses a write only after a race: no IntegrityError (and no   *)
(* 500) is the outcome of one client alone, since find_active_duplicate and    *)
(* the validated scope rule out every other violation.                         *)
THEOREM RefusalNeedsRace == Spec => []RefusedOnlyByRace
<1>1. Init => RacedInv
  BY DEF Init, RacedInv
<1>2. TableInv /\ RacedInv => RefusedOnlyByRace
  <2> SUFFICES ASSUME TableInv, RacedInv, NEW q \in Requests, Violates(q)
               PROVE  q \in raced
    BY DEF RefusedOnlyByRace
  <2>1. \/ pc[q] = "insert" /\ req[q].op \in Creation
        \/ pc[q] = "index" /\ req[q].op = "update"
    BY DEF Violates, TableInv, RequestOK
  <2>2. req[q].target \in Identities /\ CheckConstraints(req[q].target)
    <3>1. req[q].target \in Identities /\ ScopeMatches(req[q].target)
      BY <2>1 DEF TableInv, ArgumentsOK
    <3> QED
      BY <3>1, ValidKeepsChecks
  <2>3. PICK i \in Ids : /\ owner[i] = NoRequest /\ owner[i] # q
                         /\ Says(rows[i], req[q].target) \/ Says(draft[i], req[q].target)
    BY <2>2 DEF Violates, UncommittedHolders, Holders
  <2>4. Says(rows[i], req[q].target)
    BY <2>3 DEF TableInv, TypeOK
  <2>5. i # req[q].id
    BY <2>1, <2>3, NoRowAssumption DEF TableInv, RequestOK, ArgumentsOK, HoldsRow, Creation
  <2> QED
    BY <2>1, <2>4, <2>5 DEF RacedInv, Creation
<1> QED
  BY <1>1, <1>2, RacedInvNext, TableInvariant, PTL DEF Spec

------------------------------------------------------------------------------
(* Deadlocks. *)

(* The update q, past its search, may come to wait for the key of the row that *)
(* the update p is about to change: p read the row with the content q wants,   *)
(* and the row has not changed since.                                          *)
MayAwait(q, p) ==
  /\ pc[q] \in {"lock", "index"} /\ req[q].op = "update"
  /\ pc[p] \in {"find", "lock", "index"} /\ req[p].op = "update"
  /\ Matches(p)
  /\ req[p].id # req[q].id /\ rows[req[p].id].ident = req[q].target

(* Whoever searched last in a set awaits nobody in it: the rows the others had *)
(* read by then would have been duplicates.                                    *)
NoCycle ==
  \A S \in SUBSET Requests : S # {} => \E q \in S : \A p \in S : ~ MayAwait(q, p)

(* A row never falls behind the version an open update has found in it.        *)
NotBehind ==
  \A q \in Requests : pc[q] \in {"find", "lock", "index"} /\ req[q].op = "update" =>
    rows[req[q].id].version >= req[q].version

LEMMA NotBehindNext == TableInv /\ NotBehind /\ [Next]_vars => NotBehind'
<1> SUFFICES ASSUME TableInv, NotBehind, [Next]_vars, NEW q \in Requests,
                    pc'[q] \in {"find", "lock", "index"}, req'[q].op = "update"
             PROVE  rows'[req'[q].id].version >= req'[q].version
  BY DEF NotBehind
<1>1. CASE UNCHANGED vars
  BY <1>1 DEF vars, NotBehind
<1>2. ASSUME NEW p \in Requests, p # q,
             Begin(p) \/ Statement(p) \/ Waiting(p) \/ Abort(p) \/ DeadlockVictim(p)
      PROVE  rows'[req'[q].id].version >= req'[q].version
  <2> DEFINE i == req[q].id
  <2>1. pc'[q] = pc[q] /\ req'[q] = req[q]
    BY <1>2 DEF Begin, Create, Write, Search, Receive, Statement, FindDuplicate, Read, Reread,
                Commit, Waiting, Insert, Lock, Index, Refuse, Touch, Abort, DeadlockVictim,
                RollBack, Finish, Goto, TableInv, TypeOK
  <2>2. /\ i \in Ids /\ rows[i] \in Row /\ rows[i].version >= req[q].version
        /\ rows[i].version \in Nat /\ req[q].version \in Nat
    BY <2>1, MemoryStoreAssumption DEF NotBehind, TableInv, ArgumentsOK, TypeOK, Row, Writing
  <2>3. CASE rows'[i] = rows[i]
    BY <2>1, <2>2, <2>3
  <2>4. CASE rows'[i] # rows[i]
    <3>1. PICK u \in Requests : Commit(u)
      BY <2>4, OnlyCommits
    <3>2. Updated(i, u) \/ Deleted(i, u)
      BY <2>2, <2>4, <3>1, CommitChanges, NoRowAssumption DEF Created
    <3>3. rows'[i].version = rows[i].version + 1
      <4>1. rows'[i] = draft[i]
        BY <2>2, <2>4, <3>1, CommitChanges
      <4> QED
        BY <3>2, <4>1 DEF Updated, Deleted
    <3> QED
      BY <2>1, <2>2, <3>3
  <2> QED
    BY <2>3, <2>4
<1>3. CASE Read(q)
  <2>1. Matches(q) /\ rows' = rows /\ req'[q].id = req[q].id /\ req'[q].version = req[q].version
    BY <1>3 DEF Read, Finish, Goto, table, TableInv, TypeOK, NoArguments, Arguments
  <2>2. req[q].version \in Nat
    BY MemoryStoreAssumption DEF TableInv, TypeOK, Arguments
  <2> QED
    BY <2>1, <2>2 DEF Matches
<1>4. CASE FindDuplicate(q) \/ Lock(q)
  BY <1>4 DEF FindDuplicate, Lock, Finish, Goto, table, TableInv, TypeOK, NoArguments, NotBehind
<1>5. CASE Begin(q) \/ Commit(q) \/ Insert(q) \/ Index(q) \/ Touch(q) \/ RollBack(q)
  BY <1>5 DEF Begin, Create, Write, Search, Receive, Commit, Insert, Index, Touch, RollBack,
              Finish, Goto, TableInv, TypeOK, ToCreate, ToWrite, ToTouch, NoArguments
<1> QED
  BY <1>1, <1>2, <1>3, <1>4, <1>5
     DEF Next, Statement, Waiting, Refuse, Reread, Abort, DeadlockVictim

(* A step that leaves r nobody to wait for cannot close a cycle. *)
LEMMA NoCycleStep ==
  ASSUME NoCycle, NEW r \in Requests,
         \A p \in Requests : ~ MayAwait(r, p)',
         \A q, p \in Requests \ {r} : MayAwait(q, p)' => MayAwait(q, p)
  PROVE  NoCycle'
<1> SUFFICES ASSUME NEW S \in SUBSET Requests, S # {}
             PROVE  \E q \in S : \A p \in S : ~ MayAwait(q, p)'
  BY DEF NoCycle
<1>1. CASE r \in S
  BY <1>1
<1>2. CASE r \notin S
  <2>1. PICK q \in S : \A p \in S : ~ MayAwait(q, p)
    BY DEF NoCycle
  <2> QED
    BY <1>2, <2>1
<1> QED
  BY <1>1, <1>2

(* A step of r gives the others no new reason to wait for one another. *)
LEMMA OthersAwait ==
  ASSUME TableInv, NotBehind, [Next]_vars, NEW r \in Requests,
         NEW q \in Requests, NEW p \in Requests \ {r},
         pc'[p] = pc[p], req'[p] = req[p],
         pc'[q] \in {"lock", "index"} => pc[q] \in {"lock", "index"},
         req'[q] = req[q], MayAwait(q, p)'
  PROVE  MayAwait(q, p)
<1> DEFINE i == req[p].id
<1>1. /\ i \in Ids /\ rows[i] \in Row /\ rows[i].version >= req[p].version
      /\ rows[i].version \in Nat /\ req[p].version \in Nat
  BY MemoryStoreAssumption DEF MayAwait, NotBehind, TableInv, ArgumentsOK, TypeOK, Row, Writing
<1>2. rows'[i].version = req[p].version
  BY DEF MayAwait, Matches
<1>3. rows'[i] = rows[i]
  <2> SUFFICES ASSUME rows'[i] # rows[i]
               PROVE  FALSE
    OBVIOUS
  <2>1. PICK u \in Requests : Commit(u)
    BY OnlyCommits
  <2>2. rows'[i] = draft[i] /\ (Updated(i, u) \/ Deleted(i, u))
    BY <1>1, <2>1, CommitChanges, NoRowAssumption DEF Created
  <2>3. rows'[i].version = rows[i].version + 1
    BY <2>2 DEF Updated, Deleted
  <2> QED
    BY <1>1, <1>2, <2>3
<1> QED
  BY <1>3 DEF MayAwait, Matches

LEMMA NoCycleNext == TableInv /\ NotBehind /\ NoCycle /\ [Next]_vars => NoCycle'
<1> SUFFICES ASSUME TableInv, NotBehind, NoCycle, [Next]_vars
             PROVE  NoCycle'
  OBVIOUS
<1>1. CASE UNCHANGED vars
  BY <1>1 DEF vars, NoCycle, MayAwait, Matches
<1>2. ASSUME NEW r \in Requests,
             Begin(r) \/ Statement(r) \/ Waiting(r) \/ Abort(r) \/ DeadlockVictim(r)
      PROVE  NoCycle'
  <2>1. \A q \in Requests \ {r} : pc'[q] = pc[q] /\ req'[q] = req[q]
    BY <1>2 DEF Begin, Create, Write, Search, Receive, Statement, FindDuplicate, Read, Reread,
                Commit, Waiting, Insert, Lock, Index, Refuse, Touch, Abort, DeadlockVictim,
                RollBack, Finish, Goto, TableInv, TypeOK
  <2>2. \A q, p \in Requests \ {r} : MayAwait(q, p)' => MayAwait(q, p)
    BY <2>1, OthersAwait
  <2>3. CASE FindDuplicate(r)
    <3>1. ASSUME NEW p \in Requests, MayAwait(r, p)'
          PROVE  FALSE
      <4>1. pc'[r] \in {"lock", "index"} /\ p # r
        BY <3>1 DEF MayAwait
      <4>2. Duplicates(r) = {} /\ rows' = rows /\ req' = req
        BY <2>3, <4>1 DEF FindDuplicate, Finish, Goto, table, TableInv, TypeOK
      <4>3. /\ Active(rows[req[p].id]) /\ rows[req[p].id].ident = req[r].target
            /\ req[p].id # req[r].id /\ req[p].op = "update"
        BY <3>1, <4>2 DEF MayAwait, Matches
      <4>4. req[p].id \in Ids
        BY <4>3 DEF TableInv, ArgumentsOK, Writing
      <4> QED
        BY <4>2, <4>3, <4>4 DEF Duplicates, Says
    <3> QED
      BY <2>2, <3>1, NoCycleStep
  <2>4. CASE Lock(r)
    <3>1. /\ pc[r] = "lock" /\ req' = req
          /\ pc'[r] \in {"find", "lock", "index"} => pc'[r] = "index"
      BY <2>4 DEF Lock, Goto, TableInv, TypeOK
    <3>2. \A p \in Requests : MayAwait(r, p)' => MayAwait(r, p)
      BY <2>1, <3>1, OthersAwait DEF MayAwait
    <3>3. \A q \in Requests : MayAwait(q, r)' => MayAwait(q, r)
      BY <2>1, <2>4, <3>1 DEF MayAwait, Matches, Lock
    <3> QED
      BY <2>2, <3>2, <3>3 DEF NoCycle
  <2>5. CASE ~ FindDuplicate(r) /\ ~ Lock(r)
    <3>1. ~ (pc'[r] \in {"lock", "index"} /\ req'[r].op = "update")
      BY <1>2, <2>5
         DEF Begin, Create, Write, Search, Receive, Statement, Read, Reread, Commit, Waiting,
             Insert, Index, Refuse, Touch, Abort, DeadlockVictim, RollBack, Finish, Goto,
             TableInv, TypeOK
    <3> QED
      BY <2>2, <3>1, NoCycleStep DEF MayAwait
  <2> QED
    BY <2>3, <2>4, <2>5
<1> QED
  BY <1>1, <1>2 DEF Next

(* Of the writers only an update at the index holds a row while it waits. *)
LEMMA OnlyUpdatesAwaited ==
  ASSUME TableInv, NEW q \in Requests, NEW p \in Requests, req[q].op # "touch",
         req[p].op # "touch", WaitsFor(q, p), pc[p] # "commit"
  PROVE  /\ pc[p] = "index"
         /\ pc[q] = "index" => MayAwait(q, p)
<1>1. PICK i \in Awaited(q) : owner[i] = p /\ p # q
  BY DEF WaitsFor
<1>2. i \in Ids
  <2>1. CASE pc[q] = "lock"
    BY <2>1, <1>1 DEF Awaited, TableInv, RequestOK, ArgumentsOK
  <2>2. CASE pc[q] \in {"insert", "index"}
    BY <2>2, <1>1 DEF Awaited, UncommittedHolders, Holders
  <2>3. CASE pc[q] \notin {"lock", "insert", "index"}
    BY <2>3, <1>1 DEF Awaited, TableInv, RequestOK
  <2> QED
    BY <2>1, <2>2, <2>3
<1>3. OwnerOK(i, p)
  BY <1>1, <1>2 DEF TableInv
<1>4. Updated(i, p) /\ pc[p] = "index"
  BY <1>3 DEF OwnerOK, Created, Updated, Deleted, Touched
<1>5. ASSUME pc[q] = "index"
      PROVE  MayAwait(q, p)
  <2>1. req[q].op = "update" /\ owner[req[q].id] = q
    BY <1>5 DEF TableInv, RequestOK, HoldsRow
  <2>2. Says(rows[i], req[q].target) \/ Says(draft[i], req[q].target)
    BY <1>1, <1>5 DEF Awaited, UncommittedHolders, Holders
  <2>3. draft[i].ident = rows[i].ident
    BY <1>4 DEF Updated
  <2> QED
    BY <1>1, <1>4, <1>5, <2>1, <2>2, <2>3 DEF MayAwait, Updated, Says
<1> QED
  BY <1>4, <1>5

(* Creations, updates and deletes never deadlock among themselves: an update   *)
(* that waits for a key waits for one that searched after it, so a cycle of    *)
(* waiters always includes the access counting of a retrieval, the only        *)
(* transaction that locks several rows.                                        *)
THEOREM WritersDoNotDeadlock == Spec => []OnlyRetrievalsDeadlock
<1>1. Init => NotBehind /\ NoCycle
  BY DEF Init, NotBehind, NoCycle, MayAwait
<1>2. TableInv /\ NoCycle => OnlyRetrievalsDeadlock
  <2> SUFFICES ASSUME TableInv, NoCycle, NEW S \in SUBSET Requests, Stuck(S),
                      \A q \in S : req[q].op # "touch"
               PROVE  FALSE
    BY DEF OnlyRetrievalsDeadlock
  <2> DEFINE T == {q \in S : pc[q] = "index"}
  <2>1. ASSUME NEW q \in S, pc[q] = "commit"
        PROVE  FALSE
    BY <2>1 DEF Stuck, WaitsFor, Awaited
  <2>2. ASSUME NEW q \in S
        PROVE  \E p \in T : WaitsFor(q, p) /\ (q \in T => MayAwait(q, p))
    <3>1. PICK p \in S : WaitsFor(q, p)
      BY DEF Stuck
    <3> QED
      BY <2>1, <3>1, OnlyUpdatesAwaited
  <2>3. T \in SUBSET Requests /\ T # {}
    BY <2>2 DEF Stuck
  <2>4. PICK q \in T : \A p \in T : ~ MayAwait(q, p)
    BY <2>3 DEF NoCycle
  <2> QED
    BY <2>2, <2>4
<1> QED
  BY <1>1, <1>2, NotBehindNext, NoCycleNext, TableInvariant, PTL DEF Spec
==============================================================================
