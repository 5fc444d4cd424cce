------------------------- MODULE SkillRegistryProofs -------------------------
(***************************************************************************)
(* Proofs about SkillRegistry for every set of instances, skills, versions *)
(* and files.                                                              *)
(*                                                                         *)
(* None of the properties is inductive.  Four invariants carry them, each  *)
(* one resting on the first:                                               *)
(*   StartInv: a loop works on what it has left, the rows it has loaded    *)
(*     exist, and it owns only rows it has dealt with;                     *)
(*   AddedInv: a version that is not committed was inserted once, by one   *)
(*     instance, and is not published; so that no commit overwrites one;   *)
(*   VersionsInv, DefaultsInv: the versions and defaults of the skills a   *)
(*     loop is over with are there with the wanted contents;               *)
(*   AloneInv: what a start-up that meets no other has loaded is current.  *)
(*                                                                         *)
(* A step of an instance is followed through its own statements; for the   *)
(* others it is enough that it writes no row they own (OthersRows) and     *)
(* takes no version away (ContentStays).                                   *)
(***************************************************************************)
EXTENDS SkillRegistry, WellFoundedInduction, TLAPS

(* The statements of the loop over the definitions, of the work after it, and  *)
(* those at which the row of the current skill has been read or written.       *)
Upserting == {"select", "insert_skill", "update_skill", "refresh", "version",
              "insert_version", "default"}
Ending == {"list", "disable", "commit"}
Loaded == {"refresh", "version", "insert_version", "default"}

(* The part of the loop over the definitions that is over. *)
Done(i, s) == pc[i] \in Upserting => s \notin sync[i].left

LoopOK(i) ==
  /\ pc[i] # "down" => sync[i].set \in DefinitionSets /\ Valid(sync[i].set)
  /\ pc[i] \in Upserting => sync[i].left # {} /\ sync[i].left \subseteq DOMAIN sync[i].set
  /\ pc[i] = "disable" => sync[i].left # {} /\ sync[i].left \cap DOMAIN sync[i].set = {}
  /\ pc[i] \in Upserting \cup {"disable"} => sync[i].turn \in sync[i].left
  /\ pc[i] \in {"list", "commit", "up"} => sync[i].left = {}

(* A row that an instance has met is there to stay. *)
RowsOK(i) ==
  /\ pc[i] \in Loaded \cup {"update_skill"} => Row(i, Skill(i)) # NoSkill
  /\ pc[i] \in Upserting \cup Ending =>
       \A s \in DOMAIN sync[i].set : Done(i, s) => Row(i, s) # NoSkill
  /\ pc[i] = "disable" => \A s \in sync[i].left : Row(i, s) # NoSkill
  /\ pc[i] = "up" => \A s \in DOMAIN sync[i].set : skills[s] # NoSkill

(* The rows an instance owns are those it has dealt with. *)
OwnerOK(i, s) ==
  /\ Syncing(i) /\ draft[s] # NoSkill
  /\ Done(i, s) \/ (s = Skill(i) /\ pc[i] \in Loaded)

StartInv ==
  /\ TypeOK
  /\ \A i \in Instances : LoopOK(i) /\ RowsOK(i)
  /\ \A i \in Instances, s \in Skills : owner[s] = i => OwnerOK(i, s)

------------------------------------------------------------------------------
(* The natural numbers are well ordered. *)
LEMMA LeastNatural ==
  ASSUME NEW S \in SUBSET Nat, S # {}
  PROVE  \E n \in S : \A m \in S : n <= m
<1> DEFINE R == {p \in Nat \X Nat : p[1] < p[2]}
<1>1. IsWellFoundedOn(R, Nat)
  BY NatLessThanWellFounded DEF OpToRel
<1> HIDE DEF R
<1>2. PICK n \in S : \A m \in S : ~ (<<m, n>> \in R)
  BY <1>1, WFMin
<1>3. ASSUME NEW m \in S
      PROVE  n <= m
  <2>1. ~ (m < n)
    BY <1>2 DEF R
  <2> QED
    BY <2>1
<1> QED
  BY <1>3

(* The first of some skills is one of them. *)
LEMMA FirstIsLeft ==
  ASSUME NEW left \in SUBSET Skills, left # {}
  PROVE  First(left) \in left
<1> DEFINE S == {n \in DOMAIN SkillOrder : SkillOrder[n] \in left}
<1>1. DOMAIN SkillOrder \subseteq Nat
  BY SkillRegistryAssumption
<1>2. S \in SUBSET Nat /\ S # {}
  BY <1>1 DEF Skills
<1>3. PICK n \in S : \A m \in S : n <= m
  BY <1>2, LeastNatural
<1>4. \E k \in DOMAIN SkillOrder :
         /\ SkillOrder[k] \in left
         /\ \A m \in DOMAIN SkillOrder : SkillOrder[m] \in left => k <= m
  BY <1>3
<1> QED
  BY <1>4 DEF First

(* A loop that is not over is at one of the skills it has left.                *)
LEMMA TurnIsLeft ==
  ASSUME NEW left \in SUBSET Skills
  PROVE  /\ TurnByFile(left) \in Skills \cup {NoSkill}
         /\ left # {} => TurnByFile(left) \in left
         /\ \A turn \in TurnsByName(left) :
              turn \in Skills \cup {NoSkill} /\ (left # {} => turn \in left)
BY FirstIsLeft DEF TurnByFile, TurnsByName

(* Updating one field of the records of the module. *)
LEMMA SyncUpdate ==
  ASSUME NEW r \in Sync, NEW x
  PROVE  /\ [r EXCEPT !.changed = x]
              = [set |-> r.set, left |-> r.left, turn |-> r.turn, changed |-> x, seen |-> r.seen]
         /\ [r EXCEPT !.seen = x]
              = [set |-> r.set, left |-> r.left, turn |-> r.turn, changed |-> r.changed, seen |-> x]
BY DEF Sync

LEMMA RowUpdate ==
  ASSUME NEW r \in SkillRow, NEW x
  PROVE  /\ [r EXCEPT !.default = x] = [meta |-> r.meta, enabled |-> r.enabled, default |-> x]
         /\ [r EXCEPT !.enabled = x] = [meta |-> r.meta, enabled |-> x, default |-> r.default]
BY DEF SkillRow

LEMMA BindingUpdate ==
  ASSUME NEW r \in Binding, NEW x
  PROVE  [r EXCEPT !.content = x] = [skill |-> r.skill, version |-> r.version, content |-> x]
BY DEF Binding

LEMMA SyncType ==
  ASSUME StartInv, NEW i \in Instances
  PROVE  /\ sync[i] \in Sync
         /\ sync[i].set \in DefinitionSets \cup {NoSet}
         /\ sync[i].left \in SUBSET Skills
         /\ sync[i].turn \in Skills \cup {NoSkill}
         /\ sync[i].changed \in SUBSET Columns
         /\ sync[i].seen \in Versions \cup {NoVersion}
         /\ sync[i] = [set |-> sync[i].set, left |-> sync[i].left, turn |-> sync[i].turn,
                       changed |-> sync[i].changed, seen |-> sync[i].seen]
BY DEF StartInv, TypeOK, Sync

(* The current skill and its definition. *)
LEMMA SkillType ==
  ASSUME StartInv, NEW i \in Instances, pc[i] \in Upserting \cup {"disable"}
  PROVE  /\ Skill(i) \in sync[i].left /\ Skill(i) \in Skills
         /\ pc[i] \in Upserting =>
              /\ Skill(i) \in DOMAIN sync[i].set
              /\ Definition(i).version \in Versions /\ Definition(i).content \in Contents
<1>1. sync[i].left \in SUBSET Skills /\ LoopOK(i)
  BY SyncType DEF StartInv
<1>2. Skill(i) \in sync[i].left
  BY <1>1 DEF LoopOK, Skill
<1>3. ASSUME pc[i] \in Upserting
      PROVE  /\ Skill(i) \in DOMAIN sync[i].set
             /\ Definition(i) \in [version : Versions, content : Contents]
  BY <1>1, <1>2, <1>3, SkillRegistryAssumption DEF LoopOK, Definition, Upserting
<1> QED
  BY <1>1, <1>2, <1>3

LEMMA RowType ==
  ASSUME StartInv, NEW i \in Instances, NEW s \in Skills, Row(i, s) # NoSkill
  PROVE  /\ Row(i, s) \in SkillRow
         /\ Row(i, s).meta \in Contents /\ Row(i, s).enabled \in BOOLEAN
         /\ Row(i, s).default \in Versions \cup {NoVersion}
BY DEF StartInv, TypeOK, Row, SkillRow

LEMMA ContentType ==
  ASSUME StartInv, NEW i \in Instances, NEW s \in Skills, NEW v \in Versions
  PROVE  Content(i, s, v) \in Contents \cup {NoContent}
<1>1. added[i] \subseteq Version /\ versions[s][v] \in Contents \cup {NoContent}
  BY DEF StartInv, TypeOK
<1>2. \A new \in added[i] : new.content \in Contents
  BY <1>1 DEF Version
<1> QED
  BY <1>1, <1>2 DEF Content

LEMMA StartInvInit == Init => StartInv
<1> SUFFICES ASSUME Init PROVE StartInv
  OBVIOUS
<1>1. NoSync \in Sync
  BY DEF NoSync, Sync
<1>2. TypeOK
  BY <1>1, SkillRegistryAssumption DEF Init, TypeOK, Statements
<1>3. \A i \in Instances : LoopOK(i) /\ RowsOK(i)
  BY DEF Init, LoopOK, RowsOK, Upserting, Ending, Loaded
<1>4. \A i \in Instances, s \in Skills : owner[s] # i
  BY SkillRegistryAssumption DEF Init
<1> QED
  BY <1>2, <1>3, <1>4 DEF StartInv

(* The other start-ups do not notice what i does to its own rows. *)
LEMMA StartInvOwn ==
  ASSUME StartInv, NEW i \in Instances, TypeOK',
         \A j \in Instances \ {i} : pc'[j] = pc[j] /\ sync'[j] = sync[j],
         \A s \in Skills : owner[s] \in Instances \ {i} =>
           owner'[s] = owner[s] /\ draft'[s] = draft[s],
         \A s \in Skills : owner'[s] \in Instances \ {i} => owner'[s] = owner[s],
         \A s \in Skills : skills[s] # NoSkill => skills'[s] # NoSkill,
         LoopOK(i)', RowsOK(i)',
         \A s \in Skills : owner'[s] = i => OwnerOK(i, s)'
  PROVE  StartInv'
<1>1. ASSUME NEW j \in Instances \ {i}
      PROVE  LoopOK(j)' /\ RowsOK(j)'
  <2>1. LoopOK(j) /\ RowsOK(j) /\ pc'[j] = pc[j] /\ sync'[j] = sync[j]
    BY DEF StartInv
  <2>2. \A s \in Skills : Row(j, s) # NoSkill => Row(j, s)' # NoSkill
    BY DEF Row, StartInv, TypeOK
  <2>3. LoopOK(j)'
    BY <2>1 DEF LoopOK
  <2>4. pc[j] \in Upserting \cup {"disable"} => Skill(j) \in Skills
    BY SkillType
  <2>5. Skill(j)' = Skill(j)
    BY <2>1 DEF Skill
  <2>6. pc[j] # "down" => DOMAIN sync[j].set \subseteq Skills
    BY <2>1, SkillRegistryAssumption DEF LoopOK
  <2>7. sync[j].left \subseteq Skills
    BY SyncType
  <2>8. RowsOK(j)'
    BY <2>1, <2>2, <2>4, <2>5, <2>6, <2>7 DEF RowsOK, Done, Loaded, Upserting, Ending
  <2> QED
    BY <2>3, <2>8
<1>2. ASSUME NEW s \in Skills, NEW j \in Instances \ {i}, owner'[s] = j
      PROVE  OwnerOK(j, s)'
  <2>1. owner[s] = j /\ draft'[s] = draft[s] /\ OwnerOK(j, s)
    BY <1>2 DEF StartInv
  <2> QED
    BY <2>1 DEF OwnerOK, Done, Skill, Syncing
<1> QED
  BY <1>1, <1>2 DEF StartInv

(* A step of i that leaves the rows alone. *)
LEMMA StartInvLocal ==
  ASSUME StartInv, NEW i \in Instances, UNCHANGED <<rows, versions, binding, lastSet>>,
         NEW statement \in Statements, NEW local \in Sync,
         pc' = [pc EXCEPT ![i] = statement], sync' = [sync EXCEPT ![i] = local],
         added' \in [Instances -> SUBSET Version], overlapping' \subseteq Instances,
         starts' \in 0 .. MaxStarts,
         LoopOK(i)', RowsOK(i)', \A s \in Skills : owner[s] = i => OwnerOK(i, s)'
  PROVE  StartInv'
<1>1. TypeOK'
  BY DEF StartInv, TypeOK, rows
<1>2. \A j \in Instances \ {i} : pc'[j] = pc[j] /\ sync'[j] = sync[j]
  BY DEF StartInv, TypeOK
<1> QED
  BY <1>1, <1>2, StartInvOwn DEF rows

LEMMA RowAfterWrite ==
  ASSUME StartInv, NEW i \in Instances, NEW s \in Skills, NEW row, WriteRow(i, s, row)
  PROVE  /\ \A t \in Skills : Row(i, t)' = IF t = s THEN row ELSE Row(i, t)
         /\ \A t \in Skills : (owner'[t] = i) = (t = s \/ owner[t] = i)
         /\ draft'[s] = row /\ \A t \in Skills \ {s} : draft'[t] = draft[t]
         /\ \A t \in Skills \ {s} : owner'[t] = owner[t]
BY DEF WriteRow, Row, StartInv, TypeOK

(* A step of i that writes a row it may write. *)
LEMMA StartInvWrite ==
  ASSUME StartInv, NEW i \in Instances, NEW s \in Skills, NEW row \in SkillRow,
         Free(i, s), WriteRow(i, s, row),
         UNCHANGED <<versions, added, binding, history>>,
         NEW statement \in Statements, NEW local \in Sync,
         pc' = [pc EXCEPT ![i] = statement], sync' = [sync EXCEPT ![i] = local],
         LoopOK(i)', RowsOK(i)', \A t \in Skills : owner'[t] = i => OwnerOK(i, t)'
  PROVE  StartInv'
<1>1. TypeOK'
  BY SkillRegistryAssumption DEF StartInv, TypeOK, WriteRow, history
<1>2. \A j \in Instances \ {i} : pc'[j] = pc[j] /\ sync'[j] = sync[j]
  BY DEF StartInv, TypeOK
<1>3. /\ \A t \in Skills : owner[t] \in Instances \ {i} =>
           owner'[t] = owner[t] /\ draft'[t] = draft[t]
      /\ \A t \in Skills : owner'[t] \in Instances \ {i} => owner'[t] = owner[t]
  BY SkillRegistryAssumption DEF Free, WriteRow, StartInv, TypeOK
<1> QED
  BY <1>1, <1>2, <1>3, StartInvOwn DEF WriteRow

LEMMA OwnsNothing ==
  ASSUME StartInv, NEW i \in Instances, ~ Syncing(i)
  PROVE  \A s \in Skills : owner[s] # i
BY DEF StartInv, OwnerOK

LEMMA StartInvStart ==
  ASSUME StartInv, NEW i \in Instances, Start(i)
  PROVE  StartInv'
<1>1. PICK set \in DefinitionSets :
        /\ Valid(set)
        /\ sync' = [sync EXCEPT ![i] = [set |-> set, left |-> DOMAIN set,
                                        turn |-> TurnByFile(DOMAIN set),
                                        changed |-> {}, seen |-> NoVersion]]
  BY DEF Start
<1> DEFINE local == [set |-> set, left |-> DOMAIN set, turn |-> TurnByFile(DOMAIN set),
                     changed |-> {}, seen |-> NoVersion]
<1>2. local \in Sync /\ DOMAIN set # {} /\ TurnByFile(DOMAIN set) \in DOMAIN set
  BY <1>1, TurnIsLeft, SkillRegistryAssumption DEF Sync, Valid
<1>3. /\ pc' = [pc EXCEPT ![i] = "select"] /\ "select" \in Statements
      /\ UNCHANGED <<rows, versions, added, binding, lastSet>>
      /\ ~ Syncing(i)
  BY DEF Start, Goto, Statements, Syncing
<1>4. /\ added' \in [Instances -> SUBSET Version] /\ overlapping' \subseteq Instances
      /\ starts' \in 0 .. MaxStarts
  BY SkillRegistryAssumption DEF Start, Meet, StartInv, TypeOK
<1>5. pc'[i] = "select" /\ sync'[i].set = set /\ sync'[i].left = DOMAIN set
      /\ sync'[i].turn = TurnByFile(DOMAIN set)
  BY <1>1, <1>3 DEF StartInv, TypeOK
<1>6. LoopOK(i)' /\ RowsOK(i)'
  BY <1>1, <1>2, <1>5 DEF LoopOK, RowsOK, Done, Upserting, Ending, Loaded
<1>7. \A s \in Skills : owner[s] # i
  BY <1>3, OwnsNothing
<1> QED
  BY <1>1, <1>2, <1>3, <1>4, <1>6, <1>7, StartInvLocal

LEMMA StartInvFail ==
  ASSUME StartInv, NEW i \in Instances, Fail(i)
  PROVE  StartInv'
<1>1. NoSync \in Sync
  BY DEF NoSync, Sync
<1>2. TypeOK'
  BY <1>1, SkillRegistryAssumption DEF Fail, Goto, StartInv, TypeOK, Statements, history
<1>3. \A s \in Skills : owner'[s] # i
  BY SkillRegistryAssumption DEF Fail, StartInv, TypeOK
<1>4. pc'[i] = "down" /\ sync'[i] = NoSync
  BY DEF Fail, Goto, StartInv, TypeOK
<1>5. LoopOK(i)' /\ RowsOK(i)'
  BY <1>4 DEF LoopOK, RowsOK, Upserting, Ending, Loaded
<1>6. /\ \A j \in Instances \ {i} : pc'[j] = pc[j] /\ sync'[j] = sync[j]
      /\ \A s \in Skills : owner[s] \in Instances \ {i} =>
           owner'[s] = owner[s] /\ draft'[s] = draft[s]
      /\ \A s \in Skills : owner'[s] \in Instances \ {i} => owner'[s] = owner[s]
      /\ skills' = skills
  BY SkillRegistryAssumption DEF Fail, Goto, StartInv, TypeOK
<1> QED
  BY <1>2, <1>3, <1>5, <1>6, StartInvOwn

LEMMA StartInvStop ==
  ASSUME StartInv, NEW i \in Instances, Stop(i)
  PROVE  StartInv'
<1>1. NoSync \in Sync /\ "down" \in Statements
  BY DEF NoSync, Sync, Statements
<1>2. /\ pc' = [pc EXCEPT ![i] = "down"] /\ sync' = [sync EXCEPT ![i] = NoSync]
      /\ UNCHANGED <<rows, versions, added, binding, history>>
  BY DEF Stop, Goto
<1>3. /\ added' \in [Instances -> SUBSET Version] /\ overlapping' \subseteq Instances
      /\ starts' \in 0 .. MaxStarts
  BY <1>2 DEF StartInv, TypeOK, history
<1>4. pc'[i] = "down"
  BY <1>2 DEF StartInv, TypeOK
<1>5. LoopOK(i)' /\ RowsOK(i)'
  BY <1>4 DEF LoopOK, RowsOK, Upserting, Ending, Loaded
<1>6. \A s \in Skills : owner[s] # i
  BY OwnsNothing DEF Stop, Syncing
<1> QED
  BY <1>1, <1>2, <1>3, <1>5, <1>6, StartInvLocal DEF history

(* SelectSkill, RefreshSkill, SelectVersion and InsertVersion stay with the    *)
(* current skill and write no row.                                             *)
LEMMA StartInvStay ==
  ASSUME StartInv, NEW i \in Instances, UNCHANGED <<rows, versions, binding, history>>,
         pc[i] \in Upserting, NEW statement \in Upserting, NEW local \in Sync,
         local.set = sync[i].set, local.left = sync[i].left, local.turn = sync[i].turn,
         pc' = [pc EXCEPT ![i] = statement], sync' = [sync EXCEPT ![i] = local],
         added' \in [Instances -> SUBSET Version],
         statement \in Loaded \cup {"update_skill"} => Row(i, Skill(i)) # NoSkill,
         pc[i] \in Loaded => statement \in Loaded
  PROVE  StartInv'
<1>1. statement \in Statements
  BY DEF Upserting, Statements
<1>2. pc'[i] = statement /\ sync'[i] = local /\ Skill(i)' = Skill(i)
  BY DEF StartInv, TypeOK, Skill
<1>3. \A s \in Skills : Row(i, s)' = Row(i, s)
  BY DEF Row, rows
<1>4. LoopOK(i) /\ RowsOK(i) /\ Skill(i) \in Skills
  BY SkillType DEF StartInv
<1>5. LoopOK(i)'
  BY <1>2, <1>4 DEF LoopOK, Upserting
<1>6. DOMAIN sync[i].set \subseteq Skills
  BY <1>4, SkillRegistryAssumption DEF LoopOK, Upserting
<1>7. RowsOK(i)'
  BY <1>2, <1>3, <1>4, <1>6 DEF RowsOK, Done, Upserting, Loaded, Ending
<1>8. ASSUME NEW s \in Skills, owner[s] = i
      PROVE  OwnerOK(i, s)'
  <2>1. OwnerOK(i, s)
    BY <1>8 DEF StartInv
  <2> QED
    BY <1>2, <2>1 DEF OwnerOK, Done, Syncing, rows, Upserting, Loaded
<1>9. overlapping' \subseteq Instances /\ starts' \in 0 .. MaxStarts
  BY DEF StartInv, TypeOK, history
<1> QED
  BY <1>1, <1>5, <1>7, <1>8, <1>9, StartInvLocal DEF history

(* What the statements that change one field of a record leave. *)
LEMMA SelectSkillEffect ==
  ASSUME StartInv, NEW i \in Instances, SelectSkill(i), Row(i, Skill(i)) # NoSkill
  PROVE  sync' = [sync EXCEPT ![i] =
           [set |-> sync[i].set, left |-> sync[i].left, turn |-> sync[i].turn,
            changed |-> Changed(Row(i, Skill(i)), Definition(i).content),
            seen |-> sync[i].seen]]
<1> DEFINE changed == Changed(Row(i, Skill(i)), Definition(i).content)
<1>1. sync' = [sync EXCEPT ![i] = [sync[i] EXCEPT !.changed = changed]]
  BY Zenon DEF SelectSkill
<1>2. [sync[i] EXCEPT !.changed = changed]
        = [set |-> sync[i].set, left |-> sync[i].left, turn |-> sync[i].turn, changed |-> changed, seen |-> sync[i].seen]
  BY SyncType, SyncUpdate, Zenon
<1> QED
  BY <1>1, <1>2, Zenon

LEMMA UpdateSkillEffect ==
  ASSUME StartInv, NEW i \in Instances, UpdateSkill(i)
  PROVE  sync' = [sync EXCEPT ![i] =
           [set |-> sync[i].set, left |-> sync[i].left, turn |-> sync[i].turn, changed |-> {}, seen |-> sync[i].seen]]
<1>1. sync' = [sync EXCEPT ![i] = [sync[i] EXCEPT !.changed = {}]]
  BY Zenon DEF UpdateSkill
<1>2. [sync[i] EXCEPT !.changed = {}]
        = [set |-> sync[i].set, left |-> sync[i].left, turn |-> sync[i].turn, changed |-> {}, seen |-> sync[i].seen]
  BY SyncType, SyncUpdate, Zenon
<1> QED
  BY <1>1, <1>2, Zenon

LEMMA RefreshSkillEffect ==
  ASSUME StartInv, NEW i \in Instances, RefreshSkill(i)
  PROVE  sync' = [sync EXCEPT ![i] =
           [set |-> sync[i].set, left |-> sync[i].left, turn |-> sync[i].turn, changed |-> sync[i].changed,
            seen |-> Row(i, Skill(i)).default]]
<1> DEFINE seen == Row(i, Skill(i)).default
<1>1. sync' = [sync EXCEPT ![i] = [sync[i] EXCEPT !.seen = seen]]
  BY Zenon DEF RefreshSkill
<1>2. [sync[i] EXCEPT !.seen = seen]
        = [set |-> sync[i].set, left |-> sync[i].left, turn |-> sync[i].turn, changed |-> sync[i].changed, seen |-> seen]
  BY SyncType, SyncUpdate, Zenon
<1> QED
  BY <1>1, <1>2, Zenon

LEMMA SetDefaultEffect ==
  ASSUME StartInv, NEW i \in Instances, SetDefault(i)
  PROVE  \/ sync[i].seen = Definition(i).version /\ UNCHANGED rows
         \/ /\ sync[i].seen # Definition(i).version
            /\ Free(i, Skill(i))
            /\ WriteRow(i, Skill(i), [meta |-> Row(i, Skill(i)).meta,
                                      enabled |-> Row(i, Skill(i)).enabled,
                                      default |-> Definition(i).version])
<1> DEFINE old == Row(i, Skill(i))
           row == [meta |-> old.meta, enabled |-> old.enabled, default |-> Definition(i).version]
<1>1. CASE sync[i].seen = Definition(i).version /\ UNCHANGED rows
  BY <1>1
<1>2. CASE ~ (sync[i].seen = Definition(i).version /\ UNCHANGED rows)
  <2>1. /\ sync[i].seen # Definition(i).version
        /\ Free(i, Skill(i))
        /\ WriteRow(i, Skill(i), [old EXCEPT !.default = Definition(i).version])
    BY <1>2, Zenon DEF SetDefault
  <2>2. pc[i] = "default" /\ pc[i] \in Upserting /\ pc[i] \in Loaded
    BY DEF SetDefault, Upserting, Loaded
  <2>3. old # NoSkill /\ Skill(i) \in Skills
    BY <2>2, SkillType DEF StartInv, RowsOK
  <2>4. old \in SkillRow
    BY <2>3, RowType
  <2>5. [old EXCEPT !.default = Definition(i).version] = row
    BY <2>4, RowUpdate, Zenon
  <2> QED
    BY <2>1, <2>5, Zenon
<1> QED
  BY <1>1, <1>2

LEMMA ListSkillsEffect ==
  ASSUME StartInv, NEW i \in Instances, ListSkills(i)
  PROVE  LET removed == {s \in Skills : Removed(i, s)} IN
         \E turn \in TurnsByName(removed) :
           sync' = [sync EXCEPT ![i] =
             [set |-> sync[i].set, left |-> removed, turn |-> turn,
              changed |-> sync[i].changed, seen |-> sync[i].seen]]
BY Zenon DEF ListSkills

LEMMA DisableSkillEffect ==
  ASSUME StartInv, NEW i \in Instances, DisableSkill(i)
  PROVE  /\ \E turn \in TurnsByName(sync[i].left \ {Skill(i)}) :
              sync' = [sync EXCEPT ![i] =
                [set |-> sync[i].set, left |-> sync[i].left \ {Skill(i)}, turn |-> turn,
                 changed |-> sync[i].changed, seen |-> sync[i].seen]]
         /\ WriteRow(i, Skill(i), [meta |-> Row(i, Skill(i)).meta, enabled |-> FALSE,
                                   default |-> Row(i, Skill(i)).default])
<1> DEFINE s == Skill(i)
           old == Row(i, s)
<1>1. \E turn \in TurnsByName(sync[i].left \ {s}) :
        sync' = [sync EXCEPT ![i] =
          [set |-> sync[i].set, left |-> sync[i].left \ {s}, turn |-> turn,
           changed |-> sync[i].changed, seen |-> sync[i].seen]]
  BY Zenon DEF DisableSkill
<1>3. WriteRow(i, s, [old EXCEPT !.enabled = FALSE])
  BY Zenon DEF DisableSkill
<1>4. pc[i] = "disable" /\ RowsOK(i)
  BY DEF DisableSkill, StartInv
<1>5. old # NoSkill /\ s \in Skills
  BY <1>4, SkillType DEF RowsOK
<1>6. old \in SkillRow
  BY <1>5, RowType
<1>7. [old EXCEPT !.enabled = FALSE]
        = [meta |-> old.meta, enabled |-> FALSE, default |-> old.default]
  BY <1>6, RowUpdate, Zenon
<1>9. WriteRow(i, s, [meta |-> old.meta, enabled |-> FALSE, default |-> old.default])
  BY <1>3, <1>7, Zenon
<1> QED
  BY <1>1, <1>9, Zenon

LEMMA StartInvSelectSkill ==
  ASSUME StartInv, NEW i \in Instances, SelectSkill(i)
  PROVE  StartInv'
<1>1. /\ pc[i] = "select" /\ pc[i] \in Upserting /\ pc[i] \notin Loaded
      /\ UNCHANGED <<rows, versions, added, binding, history>>
      /\ added' \in [Instances -> SUBSET Version]
  BY DEF SelectSkill, Upserting, Loaded, StartInv, TypeOK
<1>2. CASE Row(i, Skill(i)) = NoSkill
  <2>1. pc' = [pc EXCEPT ![i] = "insert_skill"] /\ sync' = [sync EXCEPT ![i] = sync[i]]
    BY <1>2 DEF SelectSkill, Goto, StartInv, TypeOK
  <2>2. "insert_skill" \in Upserting /\ "insert_skill" \notin Loaded \cup {"update_skill"}
    BY DEF Upserting, Loaded
  <2> QED
    BY <1>1, <2>1, <2>2, SyncType, StartInvStay
<1>3. CASE Row(i, Skill(i)) # NoSkill
  <2> DEFINE changed == Changed(Row(i, Skill(i)), Definition(i).content)
             statement == IF changed = {} THEN "refresh" ELSE "update_skill"
             local == [set |-> sync[i].set, left |-> sync[i].left, turn |-> sync[i].turn,
                       changed |-> changed, seen |-> sync[i].seen]
  <2>1. pc' = [pc EXCEPT ![i] = statement]
    BY <1>3 DEF SelectSkill, Goto
  <2>4. sync' = [sync EXCEPT ![i] = local]
    BY <1>3, SelectSkillEffect, Zenon
  <2>5. changed \in SUBSET Columns
    BY DEF Changed, Columns
  <2> HIDE DEF changed
  <2>6. local \in Sync /\ local.set = sync[i].set /\ local.left = sync[i].left /\ local.turn = sync[i].turn
    BY <2>5, SyncType DEF Sync
  <2>7. statement \in Upserting
    BY DEF Upserting
  <2> QED
    BY <1>1, <1>3, <2>1, <2>4, <2>6, <2>7, StartInvStay
<1> QED
  BY <1>2, <1>3

LEMMA StartInvRefreshSkill ==
  ASSUME StartInv, NEW i \in Instances, RefreshSkill(i)
  PROVE  StartInv'
<1> DEFINE seen == Row(i, Skill(i)).default
           local == [set |-> sync[i].set, left |-> sync[i].left, turn |-> sync[i].turn,
                     changed |-> sync[i].changed, seen |-> seen]
<1>1. /\ pc[i] = "refresh" /\ pc[i] \in Upserting /\ pc' = [pc EXCEPT ![i] = "version"]
      /\ UNCHANGED <<rows, versions, added, binding, history>>
      /\ added' \in [Instances -> SUBSET Version] /\ "version" \in Upserting \cap Loaded
  BY DEF RefreshSkill, Upserting, Loaded, StartInv, TypeOK, Goto
<1>2. Row(i, Skill(i)) # NoSkill /\ Skill(i) \in Skills
  BY <1>1, SkillType DEF StartInv, RowsOK, Loaded
<1>5. sync' = [sync EXCEPT ![i] = local]
  BY RefreshSkillEffect, Zenon
<1>6. seen \in Versions \cup {NoVersion}
  BY <1>2, RowType
<1> HIDE DEF seen
<1>7. local \in Sync /\ local.set = sync[i].set /\ local.left = sync[i].left /\ local.turn = sync[i].turn
  BY <1>6, SyncType DEF Sync
<1> QED
  BY <1>1, <1>2, <1>5, <1>7, StartInvStay

LEMMA StartInvVersion ==
  ASSUME StartInv, NEW i \in Instances, SelectVersion(i) \/ InsertVersion(i)
  PROVE  StartInv'
<1>1. PICK statement \in {"insert_version", "default"} : pc' = [pc EXCEPT ![i] = statement]
  BY DEF SelectVersion, InsertVersion, Goto
<1>2. /\ pc[i] \in {"version", "insert_version"} /\ pc[i] \in Upserting
      /\ sync' = [sync EXCEPT ![i] = sync[i]]
      /\ UNCHANGED <<rows, versions, binding, history>>
  BY DEF SelectVersion, InsertVersion, Upserting, StartInv, TypeOK
<1>3. added' \in [Instances -> SUBSET Version]
  <2>1. Skill(i) \in Skills /\ Definition(i).version \in Versions /\ Definition(i).content \in Contents
    BY <1>2, SkillType
  <2>2. NewVersion(i) \in Version
    BY <2>1 DEF NewVersion, Version
  <2> QED
    BY <2>2 DEF SelectVersion, InsertVersion, StartInv, TypeOK
<1>4. /\ Row(i, Skill(i)) # NoSkill /\ statement \in Upserting \cap Loaded
  BY <1>2 DEF StartInv, RowsOK, Loaded, Upserting
<1> QED
  BY <1>1, <1>2, <1>3, <1>4, SyncType, StartInvStay

(* InsertSkill and UpdateSkill write the row of the current skill. *)
LEMMA StartInvMetadata ==
  ASSUME StartInv, NEW i \in Instances, NEW row \in SkillRow, NEW local \in Sync,
         pc[i] \in {"insert_skill", "update_skill"}, Free(i, Skill(i)),
         WriteRow(i, Skill(i), row),
         pc' = [pc EXCEPT ![i] = "refresh"], sync' = [sync EXCEPT ![i] = local],
         local.set = sync[i].set, local.left = sync[i].left, local.turn = sync[i].turn,
         UNCHANGED <<versions, added, binding, history>>
  PROVE  StartInv'
<1> DEFINE s == Skill(i)
<1>1. /\ pc[i] \in Upserting /\ "refresh" \in Upserting \cap Loaded
      /\ "refresh" \in Statements /\ pc[i] \notin Loaded
  BY DEF Upserting, Loaded, Statements
<1>2. s \in Skills /\ s \in sync[i].left /\ LoopOK(i) /\ RowsOK(i) /\ DOMAIN sync[i].set \subseteq Skills
  BY <1>1, SkillType, SkillRegistryAssumption DEF StartInv, LoopOK, Upserting
<1>3. pc'[i] = "refresh" /\ sync'[i] = local /\ Skill(i)' = s /\ local.turn = s
  BY DEF StartInv, TypeOK, Skill
<1> HIDE DEF s
<1>4. /\ \A t \in Skills : Row(i, t)' = IF t = s THEN row ELSE Row(i, t)
      /\ \A t \in Skills : (owner'[t] = i) = (t = s \/ owner[t] = i)
      /\ draft'[s] = row /\ \A t \in Skills \ {s} : draft'[t] = draft[t]
  BY <1>2, RowAfterWrite DEF s
<1>5. LoopOK(i)'
  BY <1>1, <1>2, <1>3 DEF LoopOK, Upserting
<1>6. row # NoSkill
  BY NoSkillAssumption
<1>7. RowsOK(i)'
  BY <1>1, <1>2, <1>3, <1>4, <1>6 DEF RowsOK, Done, Upserting, Loaded, Ending
<1>8. ASSUME NEW t \in Skills, owner'[t] = i
      PROVE  OwnerOK(i, t)'
  <2>1. CASE t = s
    BY <1>1, <1>3, <1>4, <1>6, <2>1 DEF OwnerOK, Syncing, Upserting
  <2>2. CASE t # s
    <3>1. OwnerOK(i, t)
      BY <1>4, <1>8, <2>2 DEF StartInv
    <3> QED
      BY <1>1, <1>3, <1>4, <2>2, <3>1 DEF OwnerOK, Done, Syncing, Upserting, s
  <2> QED
    BY <2>1, <2>2
<1> QED
  BY <1>1, <1>2, <1>3, <1>5, <1>7, <1>8, StartInvWrite DEF s

LEMMA StartInvInsertSkill ==
  ASSUME StartInv, NEW i \in Instances, InsertSkill(i)
  PROVE  StartInv'
<1> DEFINE row == [meta |-> Definition(i).content, enabled |-> Enabled(Definition(i).content),
                   default |-> NoVersion]
<1>1. pc[i] = "insert_skill" /\ pc[i] \in Upserting
  BY DEF InsertSkill, Upserting
<1>2. Definition(i).content \in Contents
  BY <1>1, SkillType
<1>3. row \in SkillRow
  BY <1>2 DEF SkillRow, Enabled
<1>4. sync' = [sync EXCEPT ![i] = sync[i]]
  BY DEF InsertSkill, StartInv, TypeOK
<1> QED
  BY <1>1, <1>3, <1>4, SyncType, StartInvMetadata DEF InsertSkill, Goto

LEMMA StartInvUpdateSkill ==
  ASSUME StartInv, NEW i \in Instances, UpdateSkill(i)
  PROVE  StartInv'
<1> DEFINE old == Row(i, Skill(i))
           new == Definition(i).content
           row == [meta |-> IF "meta" \in sync[i].changed THEN new ELSE old.meta,
                   enabled |-> IF "enabled" \in sync[i].changed THEN Enabled(new) ELSE old.enabled,
                   default |-> old.default]
           local == [set |-> sync[i].set, left |-> sync[i].left, turn |-> sync[i].turn,
                     changed |-> {}, seen |-> sync[i].seen]
<1>1. pc[i] = "update_skill" /\ pc[i] \in Upserting
  BY DEF UpdateSkill, Upserting
<1>2. new \in Contents /\ Skill(i) \in Skills
  BY <1>1, SkillType
<1>3. old # NoSkill
  BY <1>1 DEF StartInv, RowsOK
<1>4. old.meta \in Contents /\ old.enabled \in BOOLEAN /\ old.default \in Versions \cup {NoVersion}
  BY <1>2, <1>3, RowType
<1>5. WriteRow(i, Skill(i), row)
  BY DEF UpdateSkill
<1>6. sync' = [sync EXCEPT ![i] = local]
  BY UpdateSkillEffect, Zenon
<1>7. local \in Sync /\ local.set = sync[i].set /\ local.left = sync[i].left /\ local.turn = sync[i].turn
  BY SyncType DEF Sync
<1>8. row \in SkillRow
  <2> HIDE DEF new, old
  <2>1. Enabled(new) \in BOOLEAN
    BY DEF Enabled
  <2> QED
    BY <1>2, <1>4, <2>1 DEF SkillRow
<1>9. Free(i, Skill(i)) /\ pc' = [pc EXCEPT ![i] = "refresh"] /\ UNCHANGED <<versions, added, binding, history>>
  BY DEF UpdateSkill, Goto
<1> HIDE DEF row, local
<1> QED
  BY <1>1, <1>5, <1>6, <1>7, <1>8, <1>9, StartInvMetadata

(* SetDefault goes on with the next skill. *)
LEMMA StartInvAdvance ==
  ASSUME StartInv, NEW i \in Instances, pc[i] = "default", NextSkill(i),
         \A t \in Skills : Row(i, t) # NoSkill => Row(i, t)' # NoSkill,
         \A t \in Skills : owner'[t] = i =>
           draft'[t] # NoSkill /\ (t = Skill(i) \/ owner[t] = i)
  PROVE  \E statement \in Statements, local \in Sync :
           /\ pc' = [pc EXCEPT ![i] = statement] /\ sync' = [sync EXCEPT ![i] = local]
           /\ LoopOK(i)' /\ RowsOK(i)'
           /\ \A t \in Skills : owner'[t] = i => OwnerOK(i, t)'
<1> DEFINE s == Skill(i)
           statement == IF sync[i].left = {s} THEN "list" ELSE "select"
           left == sync[i].left \ {s}
           local == [set |-> sync[i].set, left |-> left, turn |-> TurnByFile(left),
                     changed |-> sync[i].changed, seen |-> NoVersion]
<1>1. pc' = [pc EXCEPT ![i] = statement] /\ sync' = [sync EXCEPT ![i] = local]
  BY DEF NextSkill, Goto
<1>2. /\ pc[i] \in Upserting /\ pc[i] \in Loaded /\ statement \in Statements
      /\ statement \in {"list", "select"}
  BY DEF Upserting, Loaded, Statements
<1>3. s \in sync[i].left /\ s \in Skills /\ LoopOK(i) /\ RowsOK(i) /\ DOMAIN sync[i].set \subseteq Skills
  BY <1>2, SkillType, SkillRegistryAssumption DEF StartInv, LoopOK, Upserting
<1>4. local \in Sync /\ (left # {} => TurnByFile(left) \in left)
  BY SyncType, TurnIsLeft DEF Sync
<1>5. /\ pc'[i] = statement /\ sync'[i].set = sync[i].set
      /\ sync'[i].left = left /\ sync'[i].turn = TurnByFile(left)
  BY <1>1 DEF StartInv, TypeOK
<1>6. Row(i, s) # NoSkill
  BY <1>2, <1>3 DEF RowsOK
<1>7. LoopOK(i)'
  BY <1>2, <1>3, <1>4, <1>5 DEF LoopOK, Upserting
<1>8. \A t \in DOMAIN sync[i].set : Done(i, t)' => Row(i, t)' # NoSkill
  <2> SUFFICES ASSUME NEW t \in DOMAIN sync[i].set, Done(i, t)' PROVE Row(i, t)' # NoSkill
    OBVIOUS
  <2>1. t \notin sync[i].left \ {s}
    BY <1>3, <1>5 DEF Done, Upserting
  <2>2. Row(i, t) # NoSkill
    BY <1>2, <1>3, <1>6, <2>1 DEF RowsOK, Done
  <2> QED
    BY <1>3, <2>2
<1>9. RowsOK(i)'
  BY <1>2, <1>5, <1>8 DEF RowsOK, Loaded
<1>10. ASSUME NEW t \in Skills, owner'[t] = i
       PROVE  OwnerOK(i, t)'
  <2>1. t = s \/ OwnerOK(i, t)
    BY <1>10 DEF StartInv
  <2>2. t \notin sync[i].left \ {s}
    BY <1>2, <2>1 DEF OwnerOK, Done
  <2> QED
    BY <1>2, <1>5, <1>10, <2>2 DEF OwnerOK, Done, Syncing
<1> HIDE DEF statement, local
<1> QED
  BY <1>1, <1>2, <1>4, <1>7, <1>9, <1>10

LEMMA StartInvSetDefault ==
  ASSUME StartInv, NEW i \in Instances, SetDefault(i)
  PROVE  StartInv'
<1>1. /\ pc[i] = "default" /\ NextSkill(i) /\ UNCHANGED <<versions, added, binding, history>>
      /\ pc[i] \in Upserting
  BY DEF SetDefault, Upserting
<1>2. CASE UNCHANGED rows
  <2>1. \A t \in Skills : Row(i, t)' = Row(i, t)
    BY <1>2 DEF Row, rows
  <2>2. \A t \in Skills : owner'[t] = i => draft'[t] # NoSkill /\ owner[t] = i
    BY <1>2 DEF rows, StartInv, OwnerOK
  <2>3. PICK statement \in Statements, local \in Sync :
          /\ pc' = [pc EXCEPT ![i] = statement] /\ sync' = [sync EXCEPT ![i] = local]
          /\ LoopOK(i)' /\ RowsOK(i)'
          /\ \A t \in Skills : owner'[t] = i => OwnerOK(i, t)'
    BY <1>1, <2>1, <2>2, StartInvAdvance
  <2>4. /\ added' \in [Instances -> SUBSET Version] /\ overlapping' \subseteq Instances
        /\ starts' \in 0 .. MaxStarts /\ owner' = owner
    BY <1>1, <1>2 DEF StartInv, TypeOK, history, rows
  <2> QED
    BY <1>1, <1>2, <2>3, <2>4, StartInvLocal DEF history
<1>3. CASE ~ UNCHANGED rows
  <2> DEFINE s == Skill(i)
             old == Row(i, s)
             row == [meta |-> old.meta, enabled |-> old.enabled, default |-> Definition(i).version]
  <2>1. s \in Skills /\ Definition(i).version \in Versions
    BY <1>1, SkillType
  <2>2. old # NoSkill
    BY <1>1 DEF StartInv, RowsOK, Loaded
  <2>3. old \in SkillRow /\ old.meta \in Contents /\ old.enabled \in BOOLEAN
    BY <2>1, <2>2, RowType
  <2>6. Free(i, s) /\ WriteRow(i, s, row)
    BY <1>3, SetDefaultEffect
  <2>7. row \in SkillRow
    BY <2>1, <2>3 DEF SkillRow
  <2> HIDE DEF row, old, s
  <2>8. row # NoSkill
    BY <2>7, NoSkillAssumption
  <2>9. /\ \A t \in Skills : Row(i, t)' = IF t = s THEN row ELSE Row(i, t)
        /\ \A t \in Skills : (owner'[t] = i) = (t = s \/ owner[t] = i)
        /\ draft'[s] = row /\ \A t \in Skills \ {s} : draft'[t] = draft[t]
    BY <2>1, <2>6, RowAfterWrite
  <2>10. \A t \in Skills : Row(i, t) # NoSkill => Row(i, t)' # NoSkill
    BY <2>8, <2>9
  <2>11. \A t \in Skills : owner'[t] = i => draft'[t] # NoSkill /\ (t = Skill(i) \/ owner[t] = i)
    BY <2>8, <2>9 DEF s, StartInv, OwnerOK
  <2>12. PICK statement \in Statements, local \in Sync :
           /\ pc' = [pc EXCEPT ![i] = statement] /\ sync' = [sync EXCEPT ![i] = local]
           /\ LoopOK(i)' /\ RowsOK(i)'
           /\ \A t \in Skills : owner'[t] = i => OwnerOK(i, t)'
    BY <1>1, <2>10, <2>11, StartInvAdvance
  <2> QED
    BY <1>1, <2>1, <2>6, <2>7, <2>12, StartInvWrite
<1> QED
  BY <1>2, <1>3

(* ListSkills and DisableSkill: the skills without a file. *)
LEMMA StartInvListSkills ==
  ASSUME StartInv, NEW i \in Instances, ListSkills(i)
  PROVE  StartInv'
<1> DEFINE removed == {s \in Skills : Removed(i, s)}
           statement == IF removed = {} THEN "commit" ELSE "disable"
<1>1. pc[i] = "list" /\ pc' = [pc EXCEPT ![i] = statement] /\ UNCHANGED <<rows, versions, added, binding, history>>
  BY DEF ListSkills, Goto
<1>4. PICK turn \in TurnsByName(removed) :
        sync' = [sync EXCEPT ![i] =
          [set |-> sync[i].set, left |-> removed, turn |-> turn,
           changed |-> sync[i].changed, seen |-> sync[i].seen]]
  BY ListSkillsEffect, Zenon
<1> DEFINE local == [set |-> sync[i].set, left |-> removed, turn |-> turn,
                     changed |-> sync[i].changed, seen |-> sync[i].seen]
<1>5. removed \subseteq Skills /\ \A s \in removed : Row(i, s) # NoSkill /\ s \notin DOMAIN sync[i].set
  BY DEF Removed
<1> HIDE DEF removed
<1>6. local \in Sync /\ statement \in Statements /\ (removed # {} => turn \in removed)
  BY <1>4, <1>5, SyncType, TurnIsLeft DEF Sync, Statements
<1>7. /\ pc'[i] = statement /\ sync'[i].set = sync[i].set /\ sync'[i].left = removed
      /\ sync'[i].turn = turn
  BY <1>1, <1>4 DEF StartInv, TypeOK
<1>8. LoopOK(i) /\ RowsOK(i)
  BY DEF StartInv
<1>9. LoopOK(i)'
  BY <1>1, <1>5, <1>6, <1>7, <1>8 DEF LoopOK, Upserting
<1>10. \A s \in Skills : Row(i, s)' = Row(i, s)
  BY <1>1 DEF Row, rows
<1>11. DOMAIN sync[i].set \subseteq Skills
  BY <1>1, <1>8, SkillRegistryAssumption DEF LoopOK
<1>12. RowsOK(i)'
  BY <1>1, <1>5, <1>7, <1>8, <1>10, <1>11 DEF RowsOK, Done, Upserting, Loaded, Ending
<1>13. ASSUME NEW s \in Skills, owner[s] = i
       PROVE  OwnerOK(i, s)'
  <2>1. OwnerOK(i, s)
    BY <1>13 DEF StartInv
  <2> QED
    BY <1>1, <1>7, <2>1 DEF OwnerOK, Done, Syncing, rows, Upserting
<1>14. /\ added' \in [Instances -> SUBSET Version] /\ overlapping' \subseteq Instances
       /\ starts' \in 0 .. MaxStarts
  BY <1>1 DEF StartInv, TypeOK, history
<1> QED
  BY <1>1, <1>4, <1>6, <1>9, <1>12, <1>13, <1>14, StartInvLocal DEF history

LEMMA StartInvDisableSkill ==
  ASSUME StartInv, NEW i \in Instances, DisableSkill(i)
  PROVE  StartInv'
<1> DEFINE s == Skill(i)
           old == Row(i, s)
           row == [meta |-> old.meta, enabled |-> FALSE, default |-> old.default]
           statement == IF sync[i].left = {s} THEN "commit" ELSE "disable"
<1>1. /\ pc[i] = "disable" /\ Free(i, s) /\ pc' = [pc EXCEPT ![i] = statement]
      /\ UNCHANGED <<versions, added, binding, history>>
      /\ statement \in {"commit", "disable"} /\ statement \in Statements
  BY DEF DisableSkill, Goto, Statements
<1>2. /\ s \in Skills /\ s \in sync[i].left /\ LoopOK(i) /\ RowsOK(i)
      /\ DOMAIN sync[i].set \subseteq Skills /\ sync[i].left \subseteq Skills
  BY <1>1, SkillType, SyncType, SkillRegistryAssumption DEF StartInv, LoopOK
<1>3. old # NoSkill
  BY <1>1, <1>2 DEF RowsOK
<1>4. old \in SkillRow /\ old.meta \in Contents /\ old.default \in Versions \cup {NoVersion}
  BY <1>2, <1>3, RowType
<1>5. WriteRow(i, s, row)
  BY DisableSkillEffect, Zenon
<1>6. PICK turn \in TurnsByName(sync[i].left \ {s}) :
        sync' = [sync EXCEPT ![i] =
          [set |-> sync[i].set, left |-> sync[i].left \ {s}, turn |-> turn,
           changed |-> sync[i].changed, seen |-> sync[i].seen]]
  BY DisableSkillEffect, Zenon
<1> DEFINE local == [set |-> sync[i].set, left |-> sync[i].left \ {s}, turn |-> turn,
                     changed |-> sync[i].changed, seen |-> sync[i].seen]
<1>7. row \in SkillRow
  BY <1>4 DEF SkillRow
<1>8. row # NoSkill
  BY <1>7, NoSkillAssumption
<1>9. local \in Sync /\ (sync[i].left # {s} => turn \in sync[i].left \ {s})
  <2> DEFINE left == sync[i].left \ {s}
  <2>1. left \in SUBSET Skills /\ (sync[i].left # {s} => left # {})
    BY <1>2
  <2>2. turn \in Skills \cup {NoSkill} /\ (left # {} => turn \in left)
    BY <1>6, <2>1, TurnIsLeft
  <2> QED
    BY <2>1, <2>2, SyncType DEF Sync
<1>10. /\ pc'[i] = statement /\ sync'[i].set = sync[i].set
       /\ sync'[i].left = sync[i].left \ {s} /\ sync'[i].turn = turn
  BY <1>1, <1>6 DEF StartInv, TypeOK
<1> HIDE DEF s, old, row
<1>11. /\ \A t \in Skills : Row(i, t)' = IF t = s THEN row ELSE Row(i, t)
       /\ \A t \in Skills : (owner'[t] = i) = (t = s \/ owner[t] = i)
       /\ draft'[s] = row /\ \A t \in Skills \ {s} : draft'[t] = draft[t]
  BY <1>2, <1>5, RowAfterWrite
<1>12. LoopOK(i)'
  BY <1>1, <1>2, <1>9, <1>10 DEF LoopOK, Upserting
<1>13. \A t \in Skills : Row(i, t) # NoSkill => Row(i, t)' # NoSkill
  BY <1>8, <1>11
<1>14. RowsOK(i)'
  BY <1>1, <1>2, <1>10, <1>13 DEF RowsOK, Done, Upserting, Loaded, Ending
<1>15. ASSUME NEW t \in Skills, owner'[t] = i
       PROVE  OwnerOK(i, t)'
  <2>1. draft'[t] # NoSkill
    BY <1>8, <1>11, <1>15 DEF StartInv, OwnerOK
  <2> QED
    BY <1>1, <1>10, <2>1 DEF OwnerOK, Done, Syncing, Upserting
<1> HIDE DEF local, statement
<1> QED
  BY <1>1, <1>2, <1>5, <1>6, <1>7, <1>9, <1>12, <1>14, <1>15, StartInvWrite DEF local

(* What a commit writes. *)
LEMMA CommitEffect ==
  ASSUME StartInv, NEW i \in Instances, Commit(i)
  PROVE  /\ \A s \in Skills : skills'[s] = Row(i, s)
         /\ \A s \in Skills : owner'[s] = IF owner[s] = i THEN NoInstance ELSE owner[s]
         /\ \A s \in Skills, v \in Versions : versions'[s][v] = Content(i, s, v)
         /\ \A j \in Instances : added'[j] = IF j = i THEN {} ELSE added[j]
         /\ \A j \in Instances : pc'[j] = IF j = i THEN "up" ELSE pc[j]
         /\ pc[i] = "commit" /\ UNCHANGED <<draft, sync, binding, overlapping, starts>>
BY DEF Commit, Publish, Goto, StartInv, TypeOK

LEMMA StartInvCommit ==
  ASSUME StartInv, NEW i \in Instances, Commit(i)
  PROVE  StartInv'
<1>1. /\ \A s \in Skills : skills'[s] = Row(i, s)
      /\ \A s \in Skills : owner'[s] = IF owner[s] = i THEN NoInstance ELSE owner[s]
      /\ \A j \in Instances : pc'[j] = IF j = i THEN "up" ELSE pc[j]
      /\ pc[i] = "commit" /\ UNCHANGED <<draft, sync, binding, overlapping, starts>>
  BY CommitEffect
<1>2. LoopOK(i) /\ RowsOK(i) /\ DOMAIN sync[i].set \subseteq Skills
  BY <1>1, SkillRegistryAssumption DEF StartInv, LoopOK
<1>3. \A s \in Skills : Row(i, s) \in SkillRow \cup {NoSkill}
  BY DEF Row, StartInv, TypeOK
<1>4. TypeOK'
  <2>1. skills' \in [Skills -> SkillRow \cup {NoSkill}] /\ draft' \in [Skills -> SkillRow \cup {NoSkill}]
    BY <1>1, <1>3 DEF Commit, StartInv, TypeOK
  <2>2. owner' \in [Skills -> Instances \cup {NoInstance}]
    BY DEF Commit, StartInv, TypeOK
  <2>3. versions' \in [Skills -> [Versions -> Contents \cup {NoContent}]]
    BY ContentType DEF Commit, Publish
  <2>4. /\ added' \in [Instances -> SUBSET Version] /\ pc' \in [Instances -> Statements]
        /\ lastSet' \in DefinitionSets \cup {NoSet}
    BY <1>2 DEF Commit, Goto, Statements, StartInv, TypeOK, LoopOK
  <2>5. \A s \in Skills : owner'[s] = NoInstance => draft'[s] = skills'[s]
    BY <1>1, SkillRegistryAssumption DEF Row, StartInv, TypeOK
  <2>6. UNCHANGED <<sync, binding, overlapping, starts>>
    BY <1>1
  <2> QED
    BY <2>1, <2>2, <2>3, <2>4, <2>5, <2>6 DEF StartInv, TypeOK
<1>5. LoopOK(i)'
  BY <1>1, <1>2 DEF LoopOK, Upserting
<1>6. \A s \in DOMAIN sync[i].set : skills'[s] # NoSkill
  BY <1>1, <1>2 DEF RowsOK, Done, Ending, Upserting
<1>7. RowsOK(i)'
  BY <1>1, <1>6 DEF RowsOK, Upserting, Ending, Loaded
<1>8. \A s \in Skills : skills[s] # NoSkill => skills'[s] # NoSkill
  BY <1>1 DEF Row, StartInv, OwnerOK
<1>9. /\ \A j \in Instances \ {i} : pc'[j] = pc[j] /\ sync'[j] = sync[j]
      /\ \A s \in Skills : owner[s] \in Instances \ {i} =>
           owner'[s] = owner[s] /\ draft'[s] = draft[s]
      /\ \A s \in Skills : owner'[s] \in Instances \ {i} => owner'[s] = owner[s]
      /\ \A s \in Skills : owner'[s] # i
  BY <1>1, SkillRegistryAssumption DEF StartInv, TypeOK
<1> QED
  BY <1>4, <1>5, <1>7, <1>8, <1>9, StartInvOwn

(* Only the bindings change. *)
LEMMA StartInvBindings ==
  ASSUME StartInv, UNCHANGED <<rows, versions, added, pc, sync, history>>,
         binding' \in [Runs -> Binding \cup {NoSkill}]
  PROVE  StartInv'
<1>1. TypeOK'
  BY DEF StartInv, TypeOK, rows, history
<1>2. \A i \in Instances : LoopOK(i)' /\ RowsOK(i)'
  BY DEF StartInv, LoopOK, RowsOK, Done, Row, Skill, rows
<1>3. \A i \in Instances, s \in Skills : owner'[s] = i => OwnerOK(i, s)'
  BY DEF StartInv, OwnerOK, Syncing, Done, Skill, rows
<1> QED
  BY <1>1, <1>2, <1>3 DEF StartInv

LEMMA StartInvSelectForRun ==
  ASSUME StartInv, NEW r \in Runs, SelectForRun(r)
  PROVE  StartInv'
<1>1. PICK s \in Skills : Selectable(s) /\ binding' = [binding EXCEPT ![r] = Unbound(s)]
  BY DEF SelectForRun
<1>2. Unbound(s) \in Binding
  BY <1>1 DEF Selectable, Unbound, Binding, StartInv, TypeOK, SkillRow
<1>3. binding' \in [Runs -> Binding \cup {NoSkill}]
  BY <1>1, <1>2 DEF StartInv, TypeOK
<1> QED
  BY <1>3, StartInvBindings DEF SelectForRun

(* What BindRun stores. *)
LEMMA BindRunEffect ==
  ASSUME StartInv, NEW r \in Runs, BindRun(r)
  PROVE  /\ binding[r] \in Binding
         /\ binding' = [binding EXCEPT ![r] =
              [skill |-> binding[r].skill, version |-> binding[r].version,
               content |-> versions[binding[r].skill][binding[r].version]]]
<1> DEFINE content == versions[binding[r].skill][binding[r].version]
<1>1. binding[r] \in Binding
  BY DEF BindRun, StartInv, TypeOK
<1>2. binding' = [binding EXCEPT ![r] = [binding[r] EXCEPT !.content = content]]
  BY Zenon DEF BindRun
<1>3. [binding[r] EXCEPT !.content = content]
        = [skill |-> binding[r].skill, version |-> binding[r].version, content |-> content]
  BY <1>1, BindingUpdate, Zenon
<1> QED
  BY <1>1, <1>2, <1>3, Zenon

LEMMA StartInvBindRun ==
  ASSUME StartInv, NEW r \in Runs, BindRun(r)
  PROVE  StartInv'
<1>1. binding[r].skill \in Skills /\ binding[r].version \in Versions
  BY BindRunEffect DEF Binding
<1>2. versions[binding[r].skill][binding[r].version] \in Contents \cup {NoContent}
  BY <1>1 DEF StartInv, TypeOK
<1>3. [skill |-> binding[r].skill, version |-> binding[r].version,
       content |-> versions[binding[r].skill][binding[r].version]] \in Binding
  BY <1>1, <1>2 DEF Binding
<1>4. binding' \in [Runs -> Binding \cup {NoSkill}]
  BY <1>3, BindRunEffect DEF StartInv, TypeOK
<1> QED
  BY <1>4, StartInvBindings DEF BindRun

LEMMA StartInvNext ==
  ASSUME StartInv, [Next]_vars
  PROVE  StartInv'
<1>1. ASSUME NEW i \in Instances, Start(i) \/ Stop(i)
      PROVE  StartInv'
  BY <1>1, StartInvStart, StartInvStop
<1>2. ASSUME NEW i \in Instances, Fail(i) \/ DeadlockVictim(i)
      PROVE  StartInv'
  BY <1>2, StartInvFail DEF DeadlockVictim
<1>3. ASSUME NEW i \in Instances, Statement(i)
      PROVE  StartInv'
  <2>1. CASE SelectSkill(i) \/ InsertSkill(i) \/ UpdateSkill(i) \/ RefreshSkill(i)
    BY <2>1, StartInvSelectSkill, StartInvInsertSkill, StartInvUpdateSkill, StartInvRefreshSkill
  <2>2. CASE SkillExists(i) \/ Tampered(i) \/ VersionExists(i)
    BY <2>2, StartInvFail DEF SkillExists, Tampered, VersionExists
  <2>3. CASE SelectVersion(i) \/ InsertVersion(i) \/ SetDefault(i)
    BY <2>3, StartInvVersion, StartInvSetDefault
  <2>4. CASE ListSkills(i) \/ DisableSkill(i) \/ Commit(i)
    BY <2>4, StartInvListSkills, StartInvDisableSkill, StartInvCommit
  <2> QED
    BY <1>3, <2>1, <2>2, <2>3, <2>4 DEF Statement
<1>4. ASSUME NEW r \in Runs, SelectForRun(r) \/ BindRun(r)
      PROVE  StartInv'
  BY <1>4, StartInvSelectForRun, StartInvBindRun
<1>5. CASE UNCHANGED vars
  BY <1>5, StartInvBindings DEF vars, rows, history, StartInv, TypeOK
<1> QED
  BY <1>1, <1>2, <1>3, <1>4, <1>5 DEF Next

(* Through all overlapping start-ups, an instance works on the skills its loop *)
(* has left, its loaded rows exist, and it owns only rows it has dealt with.   *)
THEOREM StartInvariant == Spec => []StartInv
<1>1. Init => StartInv
  BY StartInvInit
<1>2. StartInv /\ [Next]_vars => StartInv'
  BY StartInvNext
<1> QED
  BY <1>1, <1>2, PTL DEF Spec

(* Every variable keeps its type, and a row nobody has changed has no draft.   *)
THEOREM TypeCorrect == Spec => []TypeOK
<1>1. StartInv => TypeOK
  BY DEF StartInv
<1> QED
  BY <1>1, StartInvariant, PTL

------------------------------------------------------------------------------
(* Instance i has inserted version v of s and not committed it. *)
HasAdded(i, s, v) == \E new \in added[i] : new.skill = s /\ new.version = v

(* An uncommitted version is not a published one, is inserted once, by one     *)
(* instance, and only while that instance starts.                              *)
AddedOK(i) ==
  /\ added[i] # {} => Syncing(i)
  /\ \A x \in added[i] : versions[x.skill][x.version] = NoContent
  /\ pc[i] = "insert_version" => ~ HasAdded(i, Skill(i), Definition(i).version)

AddedOnce ==
  \A i, j \in Instances : \A x \in added[i], y \in added[j] :
    x.skill = y.skill /\ x.version = y.version => i = j /\ x = y

AddedInv ==
  /\ StartInv
  /\ \A i \in Instances : AddedOK(i)
  /\ AddedOnce

(* What a SELECT of a version returns. *)
LEMMA ContentCases ==
  ASSUME StartInv, AddedOnce, NEW i \in Instances, NEW s \in Skills, NEW v \in Versions
  PROVE  /\ ~ HasAdded(i, s, v) => Content(i, s, v) = versions[s][v]
         /\ HasAdded(i, s, v) => Content(i, s, v) # NoContent
         /\ \A x \in added[i] : x.skill = s /\ x.version = v => Content(i, s, v) = x.content
<1>1. ~ HasAdded(i, s, v) => Content(i, s, v) = versions[s][v]
  BY DEF HasAdded, Content
<1>2. ASSUME NEW x \in added[i], x.skill = s, x.version = v
      PROVE  Content(i, s, v) = x.content /\ Content(i, s, v) # NoContent
  <2> DEFINE y == CHOOSE new \in added[i] : new.skill = s /\ new.version = v
  <2>1. y \in added[i] /\ y.skill = s /\ y.version = v
    BY <1>2
  <2>2. y = x
    BY <1>2, <2>1 DEF AddedOnce
  <2>3. Content(i, s, v) = y.content
    BY <1>2 DEF Content
  <2>4. x.content \in Contents
    BY DEF StartInv, TypeOK, Version
  <2> QED
    BY <2>2, <2>3, <2>4, SkillRegistryAssumption
<1> QED
  BY <1>1, <1>2 DEF HasAdded

LEMMA AddedInvInit == Init => AddedInv
<1> SUFFICES ASSUME Init PROVE AddedInv
  OBVIOUS
<1>1. StartInv
  BY StartInvInit
<1>2. \A i \in Instances : AddedOK(i)
  BY DEF Init, AddedOK
<1>3. AddedOnce
  BY DEF Init, AddedOnce
<1> QED
  BY <1>1, <1>2, <1>3 DEF AddedInv

(* A step that inserts and publishes nothing. *)
LEMMA AddedInvFrame ==
  ASSUME AddedInv, StartInv', UNCHANGED versions,
         \A j \in Instances : added'[j] \in {added[j], {}},
         \A j \in Instances : added'[j] # {} => Syncing(j)',
         \A j \in Instances : pc'[j] = "insert_version" =>
           ~ HasAdded(j, Skill(j), Definition(j).version)'
  PROVE  AddedInv'
<1>1. \A i \in Instances : AddedOK(i)'
  BY DEF AddedInv, AddedOK
<1>2. AddedOnce'
  BY DEF AddedInv, AddedOnce
<1> QED
  BY <1>1, <1>2 DEF AddedInv

(* A step of i that leaves the versions alone and does not reach the INSERT.   *)
LEMMA AddedInvQuiet ==
  ASSUME AddedInv, StartInv', UNCHANGED <<versions, added>>, NEW i \in Instances,
         NEW statement, pc' = [pc EXCEPT ![i] = statement], statement # "insert_version",
         \A j \in Instances \ {i} : sync'[j] = sync[j],
         added[i] # {} => statement \notin {"down", "up"}
  PROVE  AddedInv'
<1>1. pc'[i] = statement /\ \A j \in Instances \ {i} : pc'[j] = pc[j]
  BY DEF AddedInv, StartInv, TypeOK
<1>2. \A j \in Instances : added'[j] # {} => Syncing(j)'
  BY <1>1 DEF AddedInv, AddedOK, Syncing
<1>3. ASSUME NEW j \in Instances, pc'[j] = "insert_version"
      PROVE  ~ HasAdded(j, Skill(j), Definition(j).version)'
  <2>1. pc[j] = "insert_version" /\ sync'[j] = sync[j]
    BY <1>1, <1>3
  <2>2. Skill(j)' = Skill(j) /\ Definition(j)' = Definition(j)
    BY <2>1 DEF Skill, Definition
  <2> QED
    BY <2>1, <2>2 DEF AddedInv, AddedOK, HasAdded
<1> QED
  BY <1>2, <1>3, AddedInvFrame

LEMMA AddedInvFail ==
  ASSUME AddedInv, StartInv', NEW i \in Instances, Fail(i)
  PROVE  AddedInv'
<1>1. /\ \A j \in Instances : pc'[j] = IF j = i THEN "down" ELSE pc[j]
      /\ \A j \in Instances : added'[j] = IF j = i THEN {} ELSE added[j]
      /\ \A j \in Instances \ {i} : sync'[j] = sync[j]
      /\ UNCHANGED versions
  BY DEF Fail, Goto, AddedInv, StartInv, TypeOK
<1>2. \A j \in Instances : added'[j] # {} => Syncing(j)'
  BY <1>1 DEF AddedInv, AddedOK, Syncing
<1>3. ASSUME NEW j \in Instances, pc'[j] = "insert_version"
      PROVE  ~ HasAdded(j, Skill(j), Definition(j).version)'
  <2>1. j # i /\ pc[j] = "insert_version" /\ sync'[j] = sync[j] /\ added'[j] = added[j]
    BY <1>1, <1>3
  <2>2. Skill(j)' = Skill(j) /\ Definition(j)' = Definition(j)
    BY <2>1 DEF Skill, Definition
  <2> QED
    BY <2>1, <2>2 DEF AddedInv, AddedOK, HasAdded
<1>4. \A j \in Instances : added'[j] \in {added[j], {}}
  BY <1>1
<1> QED
  BY <1>1, <1>2, <1>3, <1>4, AddedInvFrame

LEMMA AddedInvSelectVersion ==
  ASSUME AddedInv, StartInv', NEW i \in Instances, SelectVersion(i)
  PROVE  AddedInv'
<1>1. /\ pc[i] = "version" /\ UNCHANGED <<rows, versions, added, sync, binding, history>>
      /\ pc[i] \in Upserting /\ StartInv /\ AddedOnce
  BY DEF SelectVersion, Upserting, AddedInv
<1>2. CASE Content(i, Skill(i), Definition(i).version) = NoContent
  <2>1. ~ HasAdded(i, Skill(i), Definition(i).version)
    BY <1>1, <1>2, SkillType, ContentCases
  <2>2. \A j \in Instances \ {i} : pc'[j] = pc[j]
    BY <1>1 DEF SelectVersion, Goto, StartInv, TypeOK
  <2>3. pc'[i] \notin {"up", "down"}
    BY <1>1 DEF SelectVersion, Goto, StartInv, TypeOK
  <2>4. \A j \in Instances : added'[j] # {} => Syncing(j)'
    BY <1>1, <2>2, <2>3 DEF AddedInv, AddedOK, Syncing
  <2>5. ASSUME NEW j \in Instances, pc'[j] = "insert_version"
        PROVE  ~ HasAdded(j, Skill(j), Definition(j).version)'
    BY <1>1, <2>1, <2>2, <2>5 DEF AddedInv, AddedOK, HasAdded, Skill, Definition
  <2> QED
    BY <1>1, <2>4, <2>5, AddedInvFrame
<1>3. CASE Content(i, Skill(i), Definition(i).version) # NoContent
  <2>1. pc' = [pc EXCEPT ![i] = "default"]
    BY <1>3 DEF SelectVersion, Goto
  <2> QED
    BY <1>1, <2>1, AddedInvQuiet
<1> QED
  BY <1>2, <1>3

LEMMA AddedInvInsertVersion ==
  ASSUME AddedInv, StartInv', NEW i \in Instances, InsertVersion(i)
  PROVE  AddedInv'
<1> DEFINE x == NewVersion(i)
<1>1. /\ pc[i] = "insert_version" /\ ~ InsertedByOther(i)
      /\ versions[Skill(i)][Definition(i).version] = NoContent
      /\ UNCHANGED <<rows, versions, sync, binding, history>>
      /\ ~ HasAdded(i, Skill(i), Definition(i).version)
  BY DEF InsertVersion, AddedInv, AddedOK
<1>2. /\ \A j \in Instances : pc'[j] = IF j = i THEN "default" ELSE pc[j]
      /\ \A j \in Instances : added'[j] = IF j = i THEN added[i] \cup {x} ELSE added[j]
  BY DEF InsertVersion, Goto, AddedInv, StartInv, TypeOK
<1>3. x.skill = Skill(i) /\ x.version = Definition(i).version
  BY DEF NewVersion
<1>4. ASSUME NEW j \in Instances, NEW y \in added[j]
      PROVE  ~ (y.skill = x.skill /\ y.version = x.version)
  BY <1>1, <1>3 DEF InsertedByOther, HasAdded
<1> HIDE DEF x
<1>5. AddedOnce'
  <2> SUFFICES ASSUME NEW j \in Instances, NEW k \in Instances,
                      NEW y \in added'[j], NEW z \in added'[k],
                      y.skill = z.skill, y.version = z.version
               PROVE  j = k /\ y = z
    BY DEF AddedOnce
  <2>1. (y \in added[j] \/ (j = i /\ y = x)) /\ (z \in added[k] \/ (k = i /\ z = x))
    BY <1>2
  <2>2. CASE y \in added[j] /\ z \in added[k]
    BY <2>2 DEF AddedInv, AddedOnce
  <2> QED
    BY <1>4, <2>1, <2>2
<1>6. ASSUME NEW j \in Instances
      PROVE  AddedOK(j)'
  <2>1. added'[j] # {} => Syncing(j)'
    BY <1>1, <1>2 DEF AddedInv, AddedOK, Syncing
  <2>2. \A y \in added'[j] : versions'[y.skill][y.version] = NoContent
    BY <1>1, <1>2, <1>3 DEF AddedInv, AddedOK
  <2>3. pc'[j] = "insert_version" => ~ HasAdded(j, Skill(j), Definition(j).version)'
    BY <1>1, <1>2 DEF AddedInv, AddedOK, HasAdded, Skill, Definition
  <2> QED
    BY <2>1, <2>2, <2>3 DEF AddedOK
<1> QED
  BY <1>5, <1>6 DEF AddedInv

LEMMA AddedInvCommit ==
  ASSUME AddedInv, StartInv', NEW i \in Instances, Commit(i)
  PROVE  AddedInv'
<1>0. StartInv /\ AddedOnce
  BY DEF AddedInv
<1>1. /\ \A s \in Skills, v \in Versions : versions'[s][v] = Content(i, s, v)
      /\ \A j \in Instances : added'[j] = IF j = i THEN {} ELSE added[j]
      /\ \A j \in Instances : pc'[j] = IF j = i THEN "up" ELSE pc[j]
      /\ UNCHANGED sync
  BY <1>0, CommitEffect
<1>2. ASSUME NEW j \in Instances
      PROVE  AddedOK(j)'
  <2>1. added'[j] # {} => Syncing(j)'
    BY <1>1 DEF AddedInv, AddedOK, Syncing
  <2>2. ASSUME NEW y \in added'[j]
        PROVE  versions'[y.skill][y.version] = NoContent
    <3>1. j # i /\ y \in added[j] /\ y.skill \in Skills /\ y.version \in Versions
      BY <1>0, <1>1, <2>2 DEF StartInv, TypeOK, Version
    <3>2. ~ HasAdded(i, y.skill, y.version)
      BY <1>0, <3>1 DEF AddedOnce, HasAdded
    <3>3. versions[y.skill][y.version] = NoContent
      BY <3>1 DEF AddedInv, AddedOK
    <3> QED
      BY <1>0, <1>1, <3>1, <3>2, <3>3, ContentCases
  <2>3. pc'[j] = "insert_version" => ~ HasAdded(j, Skill(j), Definition(j).version)'
    BY <1>1 DEF AddedInv, AddedOK, HasAdded, Skill, Definition
  <2> QED
    BY <2>1, <2>2, <2>3 DEF AddedOK
<1>3. AddedOnce'
  BY <1>0, <1>1 DEF AddedOnce
<1> QED
  BY <1>2, <1>3 DEF AddedInv

LEMMA AddedInvNext ==
  ASSUME AddedInv, [Next]_vars
  PROVE  AddedInv'
<1>1. StartInv /\ StartInv'
  BY StartInvNext DEF AddedInv
<1>2. ASSUME NEW i \in Instances, Start(i)
      PROVE  AddedInv'
  <2>1. /\ pc' = [pc EXCEPT ![i] = "select"] /\ UNCHANGED <<versions, added>>
        /\ \A j \in Instances \ {i} : sync'[j] = sync[j]
    BY <1>1, <1>2 DEF Start, Goto, StartInv, TypeOK
  <2> QED
    BY <1>1, <2>1, AddedInvQuiet
<1>3. ASSUME NEW i \in Instances, Stop(i)
      PROVE  AddedInv'
  <2>1. /\ pc' = [pc EXCEPT ![i] = "down"] /\ UNCHANGED <<versions, added>>
        /\ \A j \in Instances \ {i} : sync'[j] = sync[j]
    BY <1>1, <1>3 DEF Stop, Goto, StartInv, TypeOK
  <2>2. added[i] = {}
    BY <1>3 DEF Stop, AddedInv, AddedOK, Syncing
  <2> QED
    BY <1>1, <2>1, <2>2, AddedInvQuiet
<1>4. ASSUME NEW i \in Instances, Fail(i) \/ DeadlockVictim(i)
      PROVE  AddedInv'
  BY <1>1, <1>4, AddedInvFail DEF DeadlockVictim
<1>5. ASSUME NEW i \in Instances, SkillExists(i) \/ Tampered(i) \/ VersionExists(i)
      PROVE  AddedInv'
  BY <1>1, <1>5, AddedInvFail DEF SkillExists, Tampered, VersionExists
<1>6. ASSUME NEW i \in Instances, SelectVersion(i) \/ InsertVersion(i) \/ Commit(i)
      PROVE  AddedInv'
  BY <1>1, <1>6, AddedInvSelectVersion, AddedInvInsertVersion, AddedInvCommit
<1>7. ASSUME NEW i \in Instances, SelectSkill(i) \/ InsertSkill(i) \/ UpdateSkill(i)
      PROVE  AddedInv'
  <2>1. UNCHANGED <<versions, added>> /\ \A j \in Instances \ {i} : sync'[j] = sync[j]
    BY <1>1, <1>7 DEF SelectSkill, InsertSkill, UpdateSkill, StartInv, TypeOK
  <2>2. PICK statement \in {"insert_skill", "refresh", "update_skill"} :
          pc' = [pc EXCEPT ![i] = statement]
    BY <1>7 DEF SelectSkill, InsertSkill, UpdateSkill, Goto
  <2> QED
    BY <1>1, <2>1, <2>2, AddedInvQuiet
<1>8. ASSUME NEW i \in Instances,
             RefreshSkill(i) \/ SetDefault(i) \/ ListSkills(i) \/ DisableSkill(i)
      PROVE  AddedInv'
  <2>1. UNCHANGED <<versions, added>> /\ \A j \in Instances \ {i} : sync'[j] = sync[j]
    BY <1>1, <1>8 DEF RefreshSkill, SetDefault, NextSkill, ListSkills, DisableSkill, StartInv, TypeOK
  <2>2. PICK statement \in {"version", "list", "select", "commit", "disable"} :
          pc' = [pc EXCEPT ![i] = statement]
    BY <1>8 DEF RefreshSkill, SetDefault, NextSkill, ListSkills, DisableSkill, Goto
  <2> QED
    BY <1>1, <2>1, <2>2, AddedInvQuiet
<1>9. ASSUME UNCHANGED <<versions, added, pc, sync>>
      PROVE  AddedInv'
  BY <1>1, <1>9 DEF AddedInv, AddedOK, AddedOnce, HasAdded, Syncing, Skill, Definition
<1>10. ASSUME NEW r \in Runs, SelectForRun(r) \/ BindRun(r)
       PROVE  AddedInv'
  BY <1>9, <1>10 DEF SelectForRun, BindRun
<1>11. CASE UNCHANGED vars
  BY <1>9, <1>11 DEF vars
<1> QED
  BY <1>2, <1>3, <1>4, <1>5, <1>6, <1>7, <1>8, <1>10, <1>11 DEF Next, Statement

LEMMA VersionsStay ==
  ASSUME AddedInv, [Next]_vars, NEW s \in Skills, NEW v \in Versions,
         versions[s][v] # NoContent
  PROVE  versions'[s][v] = versions[s][v]
<1>1. ASSUME NEW i \in Instances, Commit(i)
      PROVE  versions'[s][v] = versions[s][v]
  <2>1. StartInv /\ AddedOnce
    BY DEF AddedInv
  <2>2. ~ HasAdded(i, s, v)
    BY DEF AddedInv, AddedOK, HasAdded
  <2> QED
    BY <1>1, <2>1, <2>2, CommitEffect, ContentCases
<1>2. CASE UNCHANGED versions
  BY <1>2
<1>3. (\E i \in Instances : Commit(i)) \/ UNCHANGED versions
  BY DEF Next, Statement, Start, SelectSkill, InsertSkill, SkillExists, UpdateSkill,
         RefreshSkill, SelectVersion, Tampered, InsertVersion, VersionExists, SetDefault,
         ListSkills, DisableSkill, Fail, DeadlockVictim, Stop, SelectForRun, BindRun, vars
<1> QED
  BY <1>1, <1>2, <1>3

(* create_immutable inserts a version once in one transaction: an uncommitted  *)
(* version has one inserter and one content, and no committed row has its key. *)
THEOREM AddedInvariant == Spec => []AddedInv
<1>1. Init => AddedInv
  BY AddedInvInit
<1>2. AddedInv /\ [Next]_vars => AddedInv'
  BY AddedInvNext
<1> QED
  BY <1>1, <1>2, PTL DEF Spec

(* create_immutable and the hash comparison: whatever files other instances    *)
(* start with at the same time, a published version keeps its content.         *)
THEOREM VersionsAreImmutable == Spec => PublishedNeverChanges
<1>1. AddedInv /\ [Next]_vars =>
        [\A s \in Skills, v \in Versions :
           versions[s][v] # NoContent => versions'[s][v] = versions[s][v]]_vars
  BY VersionsStay
<1> QED
  BY <1>1, AddedInvariant, PTL DEF Spec, PublishedNeverChanges

(* select_skill and create_binding: the snapshot of a run is for ever the      *)
(* published content of the version it is bound to.                            *)
THEOREM BindingsAreCurrent == Spec => []BindingsKeepTheirVersion
<1>1. Init => BindingsKeepTheirVersion
  BY DEF Init, BindingsKeepTheirVersion
<1>2. ASSUME AddedInv, AddedInv', BindingsKeepTheirVersion, [Next]_vars
      PROVE  BindingsKeepTheirVersion'
  <2> SUFFICES ASSUME NEW r \in Runs, binding'[r] # NoSkill, binding'[r].content # NoContent
               PROVE  versions'[binding'[r].skill][binding'[r].version] = binding'[r].content
    BY DEF BindingsKeepTheirVersion
  <2>1. StartInv /\ StartInv'
    BY <1>2 DEF AddedInv
  <2>2. CASE binding'[r] = binding[r]
    <3>1. binding[r] \in Binding
      BY <2>1, <2>2 DEF StartInv, TypeOK
    <3>2. binding[r].content \in Contents
      BY <2>2, <3>1 DEF Binding
    <3>3. /\ binding[r].skill \in Skills /\ binding[r].version \in Versions
          /\ versions[binding[r].skill][binding[r].version] = binding[r].content
      BY <1>2, <2>2, <3>1 DEF BindingsKeepTheirVersion, Binding
    <3> QED
      BY <1>2, <2>2, <3>3, VersionsStay
  <2>3. ASSUME NEW q \in Runs, SelectForRun(q), binding'[r] # binding[r]
        PROVE  FALSE
    <3>1. PICK s \in Skills : binding' = [binding EXCEPT ![q] = Unbound(s)]
      BY <2>3 DEF SelectForRun
    <3> QED
      BY <2>1, <2>3, <3>1 DEF Unbound, StartInv, TypeOK
  <2>4. ASSUME NEW q \in Runs, BindRun(q), binding'[r] # binding[r]
        PROVE  versions'[binding'[r].skill][binding'[r].version] = binding'[r].content
    <3>1. binding' = [binding EXCEPT ![q] =
              [skill |-> binding[q].skill, version |-> binding[q].version,
               content |-> versions[binding[q].skill][binding[q].version]]]
      BY <2>1, <2>4, BindRunEffect
    <3>2. q = r /\ binding'[r] = [skill |-> binding[r].skill, version |-> binding[r].version,
               content |-> versions[binding[r].skill][binding[r].version]]
      BY <2>1, <2>4, <3>1 DEF StartInv, TypeOK
    <3> QED
      BY <2>4, <3>2 DEF BindRun
  <2>5. (\E q \in Runs : SelectForRun(q) \/ BindRun(q)) \/ UNCHANGED binding
    BY <1>2 DEF Next, Statement, Start, SelectSkill, InsertSkill, SkillExists, UpdateSkill,
         RefreshSkill, SelectVersion, Tampered, InsertVersion, VersionExists, SetDefault,
         ListSkills, DisableSkill, Commit, Fail, DeadlockVictim, Stop, vars
  <2> QED
    BY <2>2, <2>3, <2>4, <2>5
<1> QED
  BY <1>1, <1>2, AddedInvariant, PTL DEF Spec

------------------------------------------------------------------------------
(* The steps that leave an instance where its set is, and those that end it.   *)
Staying(i) ==
  SelectSkill(i) \/ InsertSkill(i) \/ UpdateSkill(i) \/ RefreshSkill(i)
    \/ SelectVersion(i) \/ InsertVersion(i)
Failing(i) ==
  Fail(i) \/ DeadlockVictim(i) \/ SkillExists(i) \/ Tampered(i) \/ VersionExists(i)
StepOf(i) == Start(i) \/ Statement(i) \/ Fail(i) \/ DeadlockVictim(i) \/ Stop(i)

LEMMA FailingFails ==
  ASSUME NEW i \in Instances, Failing(i)
  PROVE  Fail(i)
BY DEF Failing, DeadlockVictim, SkillExists, Tampered, VersionExists

LEMMA OthersStay ==
  ASSUME StartInv, NEW i \in Instances, StepOf(i), NEW j \in Instances \ {i}
  PROVE  pc'[j] = pc[j] /\ sync'[j] = sync[j] /\ added'[j] = added[j]
<1>1. CASE Start(i) \/ Stop(i) \/ Failing(i)
  <2>1. CASE Failing(i)
    BY <2>1, FailingFails DEF Fail, Goto, StartInv, TypeOK
  <2>2. CASE Start(i) \/ Stop(i)
    BY <2>2 DEF Start, Stop, Goto, StartInv, TypeOK
  <2> QED
    BY <1>1, <2>1, <2>2
<1>2. CASE Staying(i)
  BY <1>2 DEF Staying, SelectSkill, InsertSkill, UpdateSkill, RefreshSkill, SelectVersion,
              InsertVersion, Goto, StartInv, TypeOK
<1>3. CASE SetDefault(i) \/ ListSkills(i) \/ DisableSkill(i) \/ Commit(i)
  BY <1>3 DEF SetDefault, NextSkill, ListSkills, DisableSkill, Commit, Goto, StartInv, TypeOK
<1> QED
  BY <1>1, <1>2, <1>3 DEF StepOf, Statement, Staying, Failing

LEMMA StayingEffect ==
  ASSUME StartInv, NEW i \in Instances, Staying(i)
  PROVE  /\ pc[i] \in Upserting /\ pc'[i] \in Upserting
         /\ pc'[i] = "default" => SelectVersion(i) \/ InsertVersion(i)
         /\ sync'[i].set = sync[i].set /\ sync'[i].left = sync[i].left
         /\ Skill(i)' = Skill(i) /\ Definition(i)' = Definition(i)
<1>1. /\ pc[i] \in Upserting /\ pc'[i] \in Upserting
      /\ pc'[i] = "default" => SelectVersion(i) \/ InsertVersion(i)
  BY DEF Staying, SelectSkill, InsertSkill, UpdateSkill, RefreshSkill, SelectVersion,
         InsertVersion, Goto, Upserting, StartInv, TypeOK
<1>2. sync'[i].set = sync[i].set /\ sync'[i].left = sync[i].left /\ sync'[i].turn = sync[i].turn
  <2>1. CASE SelectSkill(i)
    <3>1. CASE Row(i, Skill(i)) = NoSkill
      BY <2>1, <3>1 DEF SelectSkill
    <3>2. CASE Row(i, Skill(i)) # NoSkill
      BY <2>1, <3>2, SelectSkillEffect DEF StartInv, TypeOK
    <3> QED
      BY <3>1, <3>2
  <2>2. CASE UpdateSkill(i)
    BY <2>2, UpdateSkillEffect DEF StartInv, TypeOK
  <2>3. CASE RefreshSkill(i)
    BY <2>3, RefreshSkillEffect DEF StartInv, TypeOK
  <2>4. CASE InsertSkill(i) \/ SelectVersion(i) \/ InsertVersion(i)
    BY <2>4 DEF InsertSkill, SelectVersion, InsertVersion
  <2> QED
    BY <2>1, <2>2, <2>3, <2>4 DEF Staying
<1> QED
  BY <1>1, <1>2 DEF Skill, Definition

LEMMA SetDefaultLoop ==
  ASSUME StartInv, NEW i \in Instances, SetDefault(i)
  PROVE  /\ pc[i] = "default" /\ pc'[i] \in {"select", "list"}
         /\ sync'[i].set = sync[i].set /\ sync'[i].left = sync[i].left \ {Skill(i)}
BY DEF SetDefault, NextSkill, Goto, StartInv, TypeOK

LEMMA EndingEffect ==
  ASSUME StartInv, NEW i \in Instances, ListSkills(i) \/ DisableSkill(i)
  PROVE  /\ pc[i] \in Ending /\ pc'[i] \in {"disable", "commit"}
         /\ sync'[i].set = sync[i].set
<1>1. pc[i] \in Ending /\ pc'[i] \in {"disable", "commit"}
  BY DEF ListSkills, DisableSkill, Goto, Ending, StartInv, TypeOK
<1>2. CASE ListSkills(i)
  <2> DEFINE removed == {s \in Skills : Removed(i, s)}
  <2>1. PICK turn \in TurnsByName(removed) :
          sync' = [sync EXCEPT ![i] =
            [set |-> sync[i].set, left |-> removed, turn |-> turn,
             changed |-> sync[i].changed, seen |-> sync[i].seen]]
    BY <1>2, ListSkillsEffect, Zenon
  <2> QED
    BY <1>1, <2>1 DEF StartInv, TypeOK
<1>3. CASE DisableSkill(i)
  <2>1. PICK turn \in TurnsByName(sync[i].left \ {Skill(i)}) :
          sync' = [sync EXCEPT ![i] =
            [set |-> sync[i].set, left |-> sync[i].left \ {Skill(i)}, turn |-> turn,
             changed |-> sync[i].changed, seen |-> sync[i].seen]]
    BY <1>3, DisableSkillEffect, Zenon
  <2> QED
    BY <1>1, <2>1 DEF StartInv, TypeOK
<1> QED
  BY <1>2, <1>3

(* The instance goes on, and the loop is over for the current skill at most.   *)
LEMMA LoopEffect ==
  ASSUME StartInv, NEW i \in Instances,
         Staying(i) \/ SetDefault(i) \/ ListSkills(i) \/ DisableSkill(i)
  PROVE  /\ pc[i] \in Upserting \cup Ending /\ pc'[i] \in Upserting \cup Ending
         /\ sync'[i].set = sync[i].set
         /\ \A s \in Skills : Done(i, s)' => Done(i, s) \/ (s = Skill(i) /\ pc[i] = "default")
<1>1. CASE Staying(i)
  BY <1>1, StayingEffect DEF Done
<1>2. CASE SetDefault(i)
  <2>1. pc[i] \in Upserting /\ pc'[i] \in Upserting \cup Ending
    BY <1>2, SetDefaultLoop DEF Upserting, Ending
  <2>2. CASE pc'[i] = "select"
    BY <1>2, <2>1, <2>2, SetDefaultLoop DEF Done, Upserting
  <2>3. CASE pc'[i] = "list"
    <3>1. StartInv'
      BY <1>2, StartInvSetDefault
    <3>2. sync'[i].left = {}
      BY <2>3, <3>1 DEF StartInv, LoopOK
    <3> QED
      BY <1>2, <2>1, <3>2, SetDefaultLoop DEF Done
  <2> QED
    BY <1>2, <2>2, <2>3, SetDefaultLoop
<1>3. CASE ListSkills(i) \/ DisableSkill(i)
  BY <1>3, EndingEffect DEF Done, Upserting, Ending
<1> QED
  BY <1>1, <1>2, <1>3

------------------------------------------------------------------------------
(* The versions of the definitions that a loop is over with are there with     *)
(* their contents, inserted by the instance itself or published by another.    *)
VersionsOK(i) ==
  /\ pc[i] \in Upserting \cup Ending =>
       \A s \in DOMAIN sync[i].set : Done(i, s) =>
         Content(i, s, sync[i].set[s].version) = sync[i].set[s].content
  /\ pc[i] = "default" => Content(i, Skill(i), Definition(i).version) = Definition(i).content
  /\ pc[i] = "up" =>
       \A s \in DOMAIN sync[i].set :
         versions[s][sync[i].set[s].version] = sync[i].set[s].content

VersionsInv == AddedInv /\ \A i \in Instances : VersionsOK(i)

(* A version that i has read is still there for it. *)
LEMMA ContentStays ==
  ASSUME AddedInv, AddedInv', [Next]_vars, NEW i \in Instances, added[i] \subseteq added'[i],
         NEW s \in Skills, NEW v \in Versions, Content(i, s, v) # NoContent
  PROVE  Content(i, s, v)' = Content(i, s, v)
<1>1. StartInv /\ AddedOnce /\ StartInv' /\ AddedOnce'
  BY DEF AddedInv
<1>2. CASE HasAdded(i, s, v)
  <2>1. PICK x \in added[i] : x.skill = s /\ x.version = v
    BY <1>2 DEF HasAdded
  <2>2. Content(i, s, v) = x.content
    BY <1>1, <2>1, ContentCases
  <2>3. \A new \in added'[i] : new.skill = s /\ new.version = v => new = x
    BY <1>1, <2>1 DEF AddedOnce
  <2>4. Content(i, s, v)' = x.content
    BY <2>1, <2>3 DEF Content
  <2> QED
    BY <2>2, <2>4
<1>3. CASE ~ HasAdded(i, s, v)
  <2>1. Content(i, s, v) = versions[s][v]
    BY <1>1, <1>3, ContentCases
  <2>2. versions'[s][v] = versions[s][v]
    BY <2>1, VersionsStay
  <2>3. ~ \E new \in added'[i] : new.skill = s /\ new.version = v
    BY <2>1, <2>2 DEF AddedInv, AddedOK
  <2>4. Content(i, s, v)' = versions'[s][v]
    BY <2>3 DEF Content
  <2> QED
    BY <2>1, <2>2, <2>4
<1> QED
  BY <1>2, <1>3

(* The definitions of a set. *)
LEMMA SetType ==
  ASSUME StartInv, NEW i \in Instances, pc[i] # "down", NEW s \in DOMAIN sync[i].set
  PROVE  /\ s \in Skills /\ sync[i].set[s].version \in Versions
         /\ sync[i].set[s].content \in Contents /\ sync[i].set[s].content # NoContent
<1>1. sync[i].set \in DefinitionSets
  BY DEF StartInv, LoopOK
<1>2. s \in Skills /\ sync[i].set[s] \in [version : Versions, content : Contents]
  BY <1>1, SkillRegistryAssumption
<1> QED
  BY <1>2, SkillRegistryAssumption

LEMMA VersionsOther ==
  ASSUME VersionsInv, AddedInv', [Next]_vars, NEW j \in Instances,
         pc'[j] = pc[j], sync'[j] = sync[j], added'[j] = added[j]
  PROVE  VersionsOK(j)'
<1>1. StartInv /\ AddedInv /\ VersionsOK(j)
  BY DEF VersionsInv, AddedInv
<1>2. ASSUME pc[j] \in Upserting \cup Ending, NEW s \in DOMAIN sync[j].set, Done(j, s)'
      PROVE  Content(j, s, sync[j].set[s].version)' = sync[j].set[s].content
  <2>1. Done(j, s) /\ pc[j] # "down"
    BY <1>2 DEF Done, Upserting, Ending
  <2>2. Content(j, s, sync[j].set[s].version) = sync[j].set[s].content
    BY <1>1, <1>2, <2>1 DEF VersionsOK
  <2>3. Content(j, s, sync[j].set[s].version)' = Content(j, s, sync[j].set[s].version)
    BY <1>1, <2>1, <2>2, SetType, ContentStays
  <2> QED
    BY <2>2, <2>3
<1>3. ASSUME pc[j] = "default"
      PROVE  (Content(j, Skill(j), Definition(j).version) = Definition(j).content)'
  <2>1. /\ Skill(j) \in Skills /\ Definition(j).version \in Versions
        /\ Definition(j).content # NoContent
    BY <1>1, <1>3, SkillType, SkillRegistryAssumption DEF Upserting
  <2>2. Content(j, Skill(j), Definition(j).version) = Definition(j).content
    BY <1>1, <1>3 DEF VersionsOK
  <2>3. Skill(j)' = Skill(j) /\ Definition(j)' = Definition(j)
    BY DEF Skill, Definition
  <2>4. PICK s \in Skills, v \in Versions : s = Skill(j) /\ v = Definition(j).version
    BY <2>1
  <2>5. Content(j, s, v) = Definition(j).content
    BY <2>2, <2>4
  <2>6. Content(j, s, v)' = Content(j, s, v)
    BY <1>1, <2>1, <2>5, ContentStays
  <2> QED
    BY <2>3, <2>4, <2>5, <2>6 DEF Content
<1>4. ASSUME pc[j] = "up", NEW s \in DOMAIN sync[j].set
      PROVE  versions'[s][sync[j].set[s].version] = sync[j].set[s].content
  <2>1. versions[s][sync[j].set[s].version] = sync[j].set[s].content
    BY <1>1, <1>4 DEF VersionsOK
  <2> QED
    BY <1>1, <1>4, <2>1, SetType, VersionsStay
<1> QED
  BY <1>2, <1>3, <1>4 DEF VersionsOK

LEMMA InsertedContent ==
  ASSUME AddedInv, AddedInv', NEW i \in Instances, InsertVersion(i)
  PROVE  Content(i, Skill(i), Definition(i).version)' = Definition(i).content
<1> DEFINE x == NewVersion(i)
<1>1. x.skill = Skill(i) /\ x.version = Definition(i).version /\ x.content = Definition(i).content
  BY DEF NewVersion
<1>2. x \in added'[i] /\ Skill(i)' = Skill(i) /\ Definition(i)' = Definition(i)
  BY DEF InsertVersion, AddedInv, StartInv, TypeOK, Skill, Definition
<1>3. \A new \in added'[i] : new.skill = x.skill /\ new.version = x.version => new = x
  BY <1>2 DEF AddedInv, AddedOnce
<1> HIDE DEF x
<1> QED
  BY <1>1, <1>2, <1>3 DEF Content

LEMMA VersionsGoOn ==
  ASSUME VersionsInv, AddedInv', [Next]_vars, NEW i \in Instances,
         Staying(i) \/ SetDefault(i) \/ ListSkills(i) \/ DisableSkill(i)
  PROVE  VersionsOK(i)'
<1>1. StartInv /\ AddedInv /\ VersionsOK(i)
  BY DEF VersionsInv, AddedInv
<1>2. /\ pc[i] \in Upserting \cup Ending /\ pc'[i] \in Upserting \cup Ending
      /\ sync'[i].set = sync[i].set
      /\ \A s \in Skills : Done(i, s)' => Done(i, s) \/ (s = Skill(i) /\ pc[i] = "default")
  BY <1>1, LoopEffect
<1>3. added[i] \subseteq added'[i]
  BY <1>1 DEF Staying, SelectSkill, InsertSkill, UpdateSkill, RefreshSkill, SelectVersion,
              InsertVersion, SetDefault, ListSkills, DisableSkill, StartInv, TypeOK
<1>4. ASSUME NEW s \in DOMAIN sync[i].set, Done(i, s)'
      PROVE  Content(i, s, sync[i].set[s].version)' = sync[i].set[s].content
  <2>1. pc[i] # "down"
    BY <1>2 DEF Upserting, Ending
  <2>2. /\ s \in Skills /\ sync[i].set[s].version \in Versions
        /\ sync[i].set[s].content # NoContent
    BY <1>1, <2>1, SetType
  <2>3. Content(i, s, sync[i].set[s].version) = sync[i].set[s].content
    <3>1. CASE Done(i, s)
      BY <1>1, <1>2, <3>1 DEF VersionsOK
    <3>2. CASE s = Skill(i) /\ pc[i] = "default"
      <4>1. Content(i, Skill(i), Definition(i).version) = Definition(i).content
        BY <1>1, <3>2 DEF VersionsOK
      <4>2. Definition(i) = sync[i].set[s]
        BY <3>2 DEF Definition
      <4> QED
        BY <3>2, <4>1, <4>2
    <3> QED
      BY <1>2, <1>4, <2>2, <3>1, <3>2
  <2>4. PICK v \in Versions : v = sync[i].set[s].version
    BY <2>2
  <2>5. Content(i, s, v)' = Content(i, s, v)
    BY <1>1, <1>3, <2>2, <2>3, <2>4, ContentStays
  <2> QED
    BY <1>2, <2>3, <2>4, <2>5 DEF Content
<1>5. ASSUME pc'[i] = "default"
      PROVE  (Content(i, Skill(i), Definition(i).version) = Definition(i).content)'
  <2>1. SelectVersion(i) \/ InsertVersion(i)
    <3>1. Staying(i)
      BY <1>1, <1>5, SetDefaultLoop, EndingEffect
    <3> QED
      BY <1>1, <1>5, <3>1, StayingEffect
  <2>2. CASE SelectVersion(i)
    <3>1. Content(i, Skill(i), Definition(i).version) = Definition(i).content
      BY <1>1, <1>5, <2>2 DEF SelectVersion, Goto, StartInv, TypeOK
    <3> QED
      BY <2>2, <3>1 DEF SelectVersion, Content, Skill, Definition
  <2>3. CASE InsertVersion(i)
    <3>1. Content(i, Skill(i), Definition(i).version)' = Definition(i).content
      BY <1>1, <2>3, InsertedContent
    <3> QED
      BY <2>3, <3>1 DEF InsertVersion, Skill, Definition
  <2> QED
    BY <2>1, <2>2, <2>3
<1>6. pc'[i] # "up"
  BY <1>2 DEF Upserting, Ending
<1> QED
  BY <1>2, <1>4, <1>5, <1>6 DEF VersionsOK

LEMMA VersionsOwn ==
  ASSUME VersionsInv, AddedInv', [Next]_vars, NEW i \in Instances, StepOf(i)
  PROVE  VersionsOK(i)'
<1>1. StartInv /\ AddedInv /\ VersionsOK(i)
  BY DEF VersionsInv, AddedInv
<1>2. CASE Start(i)
  <2>1. pc'[i] = "select" /\ sync'[i].left = DOMAIN sync'[i].set
    BY <1>1, <1>2 DEF Start, Goto, StartInv, TypeOK
  <2> QED
    BY <2>1 DEF VersionsOK, Done, Upserting
<1>3. CASE Stop(i) \/ Failing(i)
  <2>1. pc'[i] = "down"
    BY <1>1, <1>3, FailingFails DEF Fail, Stop, Goto, StartInv, TypeOK
  <2> QED
    BY <2>1 DEF VersionsOK, Upserting, Ending
<1>4. CASE Commit(i)
  <2>1. /\ \A s \in Skills, v \in Versions : versions'[s][v] = Content(i, s, v)
        /\ pc[i] = "commit" /\ pc'[i] = "up" /\ sync' = sync
    BY <1>1, <1>4, CommitEffect
  <2>2. \A s \in DOMAIN sync[i].set :
          versions'[s][sync[i].set[s].version] = sync[i].set[s].content
    BY <1>1, <2>1, SetType DEF VersionsOK, Done, Upserting, Ending
  <2> QED
    BY <2>1, <2>2 DEF VersionsOK, Upserting, Ending
<1>5. CASE Staying(i) \/ SetDefault(i) \/ ListSkills(i) \/ DisableSkill(i)
  BY <1>5, VersionsGoOn
<1> QED
  BY <1>2, <1>3, <1>4, <1>5 DEF StepOf, Statement, Staying, Failing

(* Every step is one of an instance or leaves the instances alone. *)
LEMMA StepCases ==
  ASSUME [Next]_vars
  PROVE  \/ \E i \in Instances : StepOf(i)
         \/ UNCHANGED <<rows, versions, added, pc, sync, history>>
BY DEF Next, StepOf, SelectForRun, BindRun, vars, rows, history

LEMMA VersionsInvNext ==
  ASSUME VersionsInv, [Next]_vars
  PROVE  VersionsInv'
<1>1. AddedInv /\ StartInv /\ AddedInv'
  BY AddedInvNext DEF VersionsInv, AddedInv
<1>2. ASSUME NEW i \in Instances, StepOf(i), NEW j \in Instances
      PROVE  VersionsOK(j)'
  BY <1>1, <1>2, OthersStay, VersionsOther, VersionsOwn
<1>3. ASSUME UNCHANGED <<rows, versions, added, pc, sync, history>>, NEW j \in Instances
      PROVE  VersionsOK(j)'
  BY <1>1, <1>3, VersionsOther
<1> QED
  BY <1>1, <1>2, <1>3, StepCases DEF VersionsInv

(* sync_skill_definitions leaves behind it, skill by skill, the version that   *)
(* the definition names, with the definition's content.                        *)
THEOREM VersionsInvariant == Spec => []VersionsInv
<1>1. Init => VersionsInv
  <2> SUFFICES ASSUME Init PROVE VersionsInv
    OBVIOUS
  <2>1. \A i \in Instances : pc[i] = "down"
    BY DEF Init
  <2> QED
    BY <2>1, AddedInvInit DEF VersionsInv, VersionsOK, Upserting, Ending
<1>2. VersionsInv /\ [Next]_vars => VersionsInv'
  BY VersionsInvNext
<1> QED
  BY <1>1, <1>2, PTL DEF Spec

(* mark_ready after the commit: a ready instance finds every definition it was *)
(* deployed with under its version number, whoever published it.               *)
THEOREM ReadyInstancesArePublished == Spec => []ReadyMeansPublished
<1>1. VersionsInv => ReadyMeansPublished
  BY DEF VersionsInv, VersionsOK, ReadyMeansPublished
<1> QED
  BY <1>1, VersionsInvariant, PTL

------------------------------------------------------------------------------
(* Between the INSERT of a new skill and the commit its row has no default;    *)
(* the other instances never see it then.  set_default_version is skipped when *)
(* the loaded default is the wanted one, so that what i has seen must still be *)
(* what its own row says.                                                      *)
HasDefault(i, s, row) == row.default # NoVersion /\ Content(i, s, row.default) # NoContent

DefaultsOK(i) ==
  /\ \A s \in Skills : owner[s] = i /\ Done(i, s) => HasDefault(i, s, draft[s])
  /\ pc[i] \in {"version", "insert_version", "default"} /\ owner[Skill(i)] = i =>
       sync[i].seen = draft[Skill(i)].default

CommittedOK ==
  \A s \in Skills : skills[s] # NoSkill =>
    skills[s].default # NoVersion /\ versions[s][skills[s].default] # NoContent

DefaultEnabled(row) == row # NoSkill => row.enabled

DefaultsInv ==
  /\ VersionsInv
  /\ \A i \in Instances : DefaultsOK(i)
  /\ CommittedOK
  /\ DefaultEnabled(skills[DefaultSkill]) /\ DefaultEnabled(draft[DefaultSkill])

(* What a statement writes is the row of the current skill. *)
Writes(i) == Free(i, Skill(i)) /\ \E row : WriteRow(i, Skill(i), row)

LEMMA StatementRows ==
  ASSUME StartInv, NEW i \in Instances,
         Staying(i) \/ SetDefault(i) \/ ListSkills(i) \/ DisableSkill(i)
  PROVE  UNCHANGED rows \/ Writes(i)
<1>1. CASE UpdateSkill(i)
  BY <1>1, Zenon DEF UpdateSkill, Writes
<1>2. CASE SetDefault(i)
  BY <1>2, Zenon, SetDefaultEffect DEF Writes
<1>3. CASE DisableSkill(i)
  BY <1>3, Zenon DEF DisableSkill, Writes
<1>4. CASE InsertSkill(i)
  BY <1>4, Zenon DEF InsertSkill, Writes
<1>5. CASE SelectSkill(i) \/ RefreshSkill(i) \/ SelectVersion(i) \/ InsertVersion(i) \/ ListSkills(i)
  BY <1>5 DEF SelectSkill, RefreshSkill, SelectVersion, InsertVersion, ListSkills
<1> QED
  BY <1>1, <1>2, <1>3, <1>4, <1>5 DEF Staying

LEMMA WritesEffect ==
  ASSUME StartInv, NEW i \in Instances, Skill(i) \in Skills, UNCHANGED rows \/ Writes(i)
  PROVE  /\ \A s \in Skills \ {Skill(i)} : owner'[s] = owner[s] /\ draft'[s] = draft[s]
         /\ owner'[Skill(i)] \in {owner[Skill(i)], i}
         /\ owner[Skill(i)] \notin {i, NoInstance} => UNCHANGED rows
         /\ skills' = skills
BY DEF Writes, WriteRow, Free, rows, StartInv, TypeOK

LEMMA OthersRows ==
  ASSUME StartInv, NEW i \in Instances, StepOf(i), NEW s \in Skills,
         owner'[s] \in Instances \ {i}
  PROVE  owner[s] = owner'[s] /\ draft'[s] = draft[s]
<1>1. CASE Start(i) \/ Stop(i)
  BY <1>1 DEF Start, Stop, rows
<1>2. CASE Failing(i)
  BY <1>2, FailingFails, SkillRegistryAssumption DEF Fail, StartInv, TypeOK
<1>3. CASE Commit(i)
  BY <1>3, CommitEffect, SkillRegistryAssumption
<1>4. CASE Staying(i) \/ SetDefault(i) \/ ListSkills(i) \/ DisableSkill(i)
  <2>1. UNCHANGED rows \/ Writes(i)
    BY <1>4, StatementRows
  <2>2. CASE UNCHANGED rows
    BY <2>2 DEF rows
  <2>3. CASE Writes(i)
    BY <2>3, SkillRegistryAssumption DEF Writes, WriteRow, Free, StartInv, TypeOK
  <2> QED
    BY <2>1, <2>2, <2>3
<1> QED
  BY <1>1, <1>2, <1>3, <1>4 DEF StepOf, Statement, Staying, Failing

LEMMA SkillsChangeByCommit ==
  ASSUME StartInv, NEW i \in Instances, StepOf(i)
  PROVE  Commit(i) \/ skills' = skills
<1>1. CASE Start(i) \/ Stop(i) \/ Failing(i)
  BY <1>1, FailingFails DEF Start, Stop, Fail, rows
<1>2. CASE Staying(i) \/ SetDefault(i) \/ ListSkills(i) \/ DisableSkill(i)
  BY <1>2, StatementRows DEF rows, Writes, WriteRow
<1> QED
  BY <1>1, <1>2 DEF StepOf, Statement, Staying, Failing

(* A row that i has not touched keeps a default that i can read. *)
LEMMA HasDefaultStays ==
  ASSUME DefaultsInv, AddedInv', [Next]_vars, NEW i \in Instances, added[i] \subseteq added'[i],
         NEW s \in Skills, draft'[s] = draft[s], draft[s] # NoSkill, HasDefault(i, s, draft[s])
  PROVE  HasDefault(i, s, draft[s])'
<1>1. StartInv /\ AddedInv
  BY DEF DefaultsInv, VersionsInv, AddedInv
<1>2. draft[s].default \in Versions
  BY <1>1 DEF HasDefault, StartInv, TypeOK, SkillRow
<1>3. PICK v \in Versions : v = draft[s].default
  BY <1>2
<1>4. Content(i, s, v)' = Content(i, s, v)
  BY <1>1, <1>3, ContentStays DEF HasDefault
<1> QED
  BY <1>3, <1>4 DEF HasDefault, Content

(* The step of another instance, or of a run. *)
LEMMA DefaultsOther ==
  ASSUME DefaultsInv, AddedInv', [Next]_vars, NEW j \in Instances,
         pc'[j] = pc[j], sync'[j] = sync[j], added'[j] = added[j],
         \A s \in Skills : owner'[s] = j => owner[s] = j /\ draft'[s] = draft[s]
  PROVE  DefaultsOK(j)'
<1>1. StartInv /\ AddedInv /\ DefaultsOK(j)
  BY DEF DefaultsInv, VersionsInv, AddedInv
<1>2. ASSUME NEW s \in Skills, owner'[s] = j, Done(j, s)'
      PROVE  HasDefault(j, s, draft[s])'
  <2>1. owner[s] = j /\ draft'[s] = draft[s] /\ Done(j, s)
    BY <1>2 DEF Done
  <2>2. HasDefault(j, s, draft[s]) /\ draft[s] # NoSkill
    BY <1>1, <2>1 DEF DefaultsOK, StartInv, OwnerOK
  <2> QED
    BY <2>1, <2>2, HasDefaultStays
<1>3. ASSUME pc[j] \in {"version", "insert_version", "default"}, owner'[Skill(j)] = j
      PROVE  sync[j].seen = draft'[Skill(j)].default
  <2>1. Skill(j) \in Skills
    BY <1>1, <1>3, SkillType DEF Upserting
  <2> QED
    BY <1>1, <1>3, <2>1 DEF DefaultsOK
<1>4. Skill(j)' = Skill(j)
  BY DEF Skill
<1> QED
  BY <1>2, <1>3, <1>4 DEF DefaultsOK

LEMMA DefaultsStaying ==
  ASSUME DefaultsInv, AddedInv', [Next]_vars, NEW i \in Instances, Staying(i)
  PROVE  DefaultsOK(i)'
<1>1. StartInv /\ AddedInv /\ DefaultsOK(i)
  BY DEF DefaultsInv, VersionsInv, AddedInv
<1>2. /\ pc[i] \in Upserting /\ pc'[i] \in Upserting
      /\ sync'[i].set = sync[i].set /\ sync'[i].left = sync[i].left /\ Skill(i)' = Skill(i)
  BY <1>1, StayingEffect
<1>3. Skill(i) \in Skills /\ Skill(i) \in sync[i].left
  BY <1>1, <1>2, SkillType
<1>4. UNCHANGED rows \/ Writes(i)
  BY <1>1, StatementRows
<1>5. /\ \A s \in Skills \ {Skill(i)} : owner'[s] = owner[s] /\ draft'[s] = draft[s]
  BY <1>1, <1>3, <1>4, WritesEffect
<1>6. added[i] \subseteq added'[i]
  BY <1>1 DEF Staying, SelectSkill, InsertSkill, UpdateSkill, RefreshSkill, SelectVersion,
              InsertVersion, StartInv, TypeOK
<1>7. ASSUME NEW s \in Skills, owner'[s] = i, Done(i, s)'
      PROVE  HasDefault(i, s, draft[s])'
  <2>1. Done(i, s) /\ s # Skill(i)
    BY <1>2, <1>3, <1>7 DEF Done
  <2>2. HasDefault(i, s, draft[s]) /\ draft[s] # NoSkill
    BY <1>1, <1>5, <1>7, <2>1 DEF DefaultsOK, StartInv, OwnerOK
  <2> QED
    BY <1>5, <1>6, <2>1, <2>2, HasDefaultStays
<1>8. ASSUME pc'[i] \in {"version", "insert_version", "default"}, owner'[Skill(i)] = i
      PROVE  sync'[i].seen = draft'[Skill(i)].default
  <2>1. RefreshSkill(i) \/ SelectVersion(i) \/ InsertVersion(i)
    BY <1>1, <1>8 DEF Staying, SelectSkill, InsertSkill, UpdateSkill, Goto, StartInv, TypeOK
  <2>2. CASE RefreshSkill(i)
    <3>1. sync'[i].seen = Row(i, Skill(i)).default
      BY <1>1, <2>2, RefreshSkillEffect DEF StartInv, TypeOK
    <3>2. UNCHANGED rows
      BY <2>2 DEF RefreshSkill
    <3> QED
      BY <1>8, <3>1, <3>2 DEF Row, rows
  <2>3. CASE SelectVersion(i) \/ InsertVersion(i)
    <3>1. UNCHANGED <<rows, sync>> /\ pc[i] \in {"version", "insert_version"}
      BY <2>3 DEF SelectVersion, InsertVersion
    <3> QED
      BY <1>1, <1>8, <3>1 DEF DefaultsOK, rows
  <2> QED
    BY <2>1, <2>2, <2>3
<1> QED
  BY <1>2, <1>7, <1>8 DEF DefaultsOK

LEMMA DefaultsSetDefault ==
  ASSUME DefaultsInv, AddedInv', [Next]_vars, NEW i \in Instances, SetDefault(i)
  PROVE  DefaultsOK(i)'
<1>1. StartInv /\ AddedInv /\ DefaultsOK(i) /\ VersionsOK(i) /\ StartInv'
  BY DEF DefaultsInv, VersionsInv, AddedInv
<1>2. pc[i] = "default" /\ pc[i] \in Upserting /\ pc'[i] \in {"select", "list"} /\ UNCHANGED <<added, versions>>
  BY <1>1, SetDefaultLoop DEF SetDefault, Upserting
<1>3. /\ Skill(i) \in Skills /\ Definition(i).version \in Versions
      /\ Definition(i).content # NoContent
  BY <1>1, <1>2, SkillType, SkillRegistryAssumption
<1>4. Content(i, Skill(i), Definition(i).version) # NoContent
  BY <1>1, <1>2, <1>3 DEF VersionsOK
<1>5. UNCHANGED rows \/ Writes(i)
  BY <1>1, StatementRows
<1>6. \A s \in Skills \ {Skill(i)} : owner'[s] = owner[s] /\ draft'[s] = draft[s]
  BY <1>1, <1>3, <1>5, WritesEffect
<1>7. ASSUME owner'[Skill(i)] = i
      PROVE  draft'[Skill(i)].default = Definition(i).version
  <2>1. CASE sync[i].seen = Definition(i).version /\ UNCHANGED rows
    BY <1>1, <1>2, <1>7, <2>1 DEF DefaultsOK, rows
  <2>2. CASE WriteRow(i, Skill(i), [meta |-> Row(i, Skill(i)).meta,
                                    enabled |-> Row(i, Skill(i)).enabled,
                                    default |-> Definition(i).version])
    BY <1>1, <1>3, <2>2 DEF WriteRow, StartInv, TypeOK
  <2> QED
    BY <1>1, <2>1, <2>2, SetDefaultEffect
<1>8. ASSUME NEW s \in Skills, owner'[s] = i, Done(i, s)'
      PROVE  HasDefault(i, s, draft[s])'
  <2>1. CASE s = Skill(i)
    <3>1. PICK k \in Skills, v \in Versions : k = Skill(i) /\ v = Definition(i).version
      BY <1>3
    <3>2. Content(i, k, v)' = Content(i, k, v) /\ Content(i, k, v) # NoContent
      BY <1>2, <1>4, <3>1 DEF Content
    <3>3. v # NoVersion
      BY SkillRegistryAssumption
    <3> QED
      BY <1>7, <1>8, <2>1, <3>1, <3>2, <3>3 DEF HasDefault, Content
  <2>2. CASE s # Skill(i)
    <3>1. owner[s] = i /\ draft'[s] = draft[s]
      BY <1>6, <1>8, <2>2
    <3>2. OwnerOK(i, s)
      BY <1>1, <3>1 DEF StartInv
    <3>3. Done(i, s) /\ draft[s] # NoSkill
      BY <2>2, <3>2 DEF OwnerOK
    <3> QED
      BY <1>1, <1>2, <3>1, <3>3, HasDefaultStays DEF DefaultsOK
  <2> QED
    BY <2>1, <2>2
<1> QED
  BY <1>2, <1>8 DEF DefaultsOK

LEMMA DefaultsEnding ==
  ASSUME DefaultsInv, AddedInv', [Next]_vars, NEW i \in Instances, ListSkills(i) \/ DisableSkill(i)
  PROVE  DefaultsOK(i)'
<1>1. StartInv /\ AddedInv /\ DefaultsOK(i) /\ CommittedOK /\ AddedOnce
  BY DEF DefaultsInv, VersionsInv, AddedInv
<1>2. pc[i] \in Ending /\ pc'[i] \in {"disable", "commit"} /\ UNCHANGED <<added, versions>>
  BY <1>1, EndingEffect DEF ListSkills, DisableSkill
<1>3. \A s \in Skills : Done(i, s)
  BY <1>2 DEF Done, Ending, Upserting
<1>4. ASSUME NEW s \in Skills, owner[s] = i, draft'[s] = draft[s]
      PROVE  HasDefault(i, s, draft[s])'
  <2>1. OwnerOK(i, s)
    BY <1>1, <1>4 DEF StartInv
  <2> QED
    BY <1>1, <1>2, <1>3, <1>4, <2>1, HasDefaultStays DEF DefaultsOK, OwnerOK
<1>5. CASE ListSkills(i)
  BY <1>2, <1>4, <1>5 DEF DefaultsOK, ListSkills, rows
<1>6. CASE DisableSkill(i)
  <2>1. pc[i] = "disable"
    BY <1>6 DEF DisableSkill
  <2>2. Skill(i) \in Skills /\ Skill(i) \in sync[i].left
    BY <1>1, <2>1, SkillType
  <2> DEFINE old == Row(i, Skill(i))
             row == [meta |-> old.meta, enabled |-> FALSE, default |-> old.default]
  <2>3. old # NoSkill
    BY <1>1, <2>1, <2>2 DEF StartInv, RowsOK
  <2>4. old.default \in Versions \cup {NoVersion}
    BY <1>1, <2>2, <2>3, RowType
  <2>5. HasDefault(i, Skill(i), old)
    <3>1. CASE owner[Skill(i)] = i
      BY <1>1, <1>3, <2>2, <3>1 DEF Row, DefaultsOK
    <3>2. CASE owner[Skill(i)] # i
      <4>1. old.default # NoVersion /\ versions[Skill(i)][old.default] # NoContent
        BY <1>1, <2>2, <2>3, <3>2 DEF Row, CommittedOK
      <4>2. old.default \in Versions
        BY <2>4, <4>1
      <4> HIDE DEF old
      <4> QED
        BY <1>1, <2>2, <4>1, <4>2, ContentCases DEF HasDefault
    <3> QED
      BY <3>1, <3>2
  <2>6. WriteRow(i, Skill(i), row)
    BY <1>1, <1>6, DisableSkillEffect, Zenon
  <2>7. /\ draft'[Skill(i)] = row /\ \A t \in Skills \ {Skill(i)} : draft'[t] = draft[t]
        /\ \A t \in Skills \ {Skill(i)} : owner'[t] = owner[t]
    <3> HIDE DEF row
    <3> QED
      BY <1>1, <2>2, <2>6, RowAfterWrite
  <2>8. ASSUME NEW s \in Skills, owner'[s] = i
        PROVE  HasDefault(i, s, draft[s])'
    <3>1. CASE s = Skill(i)
      <4>1. draft'[s].default = old.default
        BY <2>7, <3>1
      <4>2. PICK v \in Versions : v = old.default
        BY <2>4, <2>5 DEF HasDefault
      <4>3. Content(i, s, v)' = Content(i, s, v) /\ Content(i, s, v) # NoContent /\ v # NoVersion
        BY <1>2, <2>5, <3>1, <4>2 DEF HasDefault, Content
      <4> QED
        BY <4>1, <4>2, <4>3 DEF HasDefault, Content
    <3>2. CASE s # Skill(i)
      BY <1>4, <2>7, <2>8, <3>2
    <3> QED
      BY <3>1, <3>2
  <2> QED
    BY <1>2, <2>8 DEF DefaultsOK
<1> QED
  BY <1>5, <1>6

(* The default skill is enabled in the set of every instance. *)
LEMMA DefaultDefinition ==
  ASSUME StartInv, NEW i \in Instances, pc[i] # "down"
  PROVE  DefaultSkill \in DOMAIN sync[i].set /\ Enabled(sync[i].set[DefaultSkill].content)
BY SkillRegistryAssumption DEF StartInv, LoopOK, Valid

LEMMA DefaultStaysEnabled ==
  ASSUME DefaultsInv, NEW i \in Instances, StepOf(i)
  PROVE  DefaultEnabled(draft[DefaultSkill])'
<1>1. /\ StartInv /\ DefaultSkill \in Skills
      /\ DefaultEnabled(skills[DefaultSkill]) /\ DefaultEnabled(draft[DefaultSkill])
  BY SkillRegistryAssumption DEF DefaultsInv, VersionsInv, AddedInv
<1>2. DefaultEnabled(Row(i, DefaultSkill))
  BY <1>1 DEF Row
<1>3. CASE draft'[DefaultSkill] \in {draft[DefaultSkill], skills[DefaultSkill]}
  BY <1>1, <1>3 DEF DefaultEnabled
<1>4. CASE InsertSkill(i)
  <2> DEFINE row == [meta |-> Definition(i).content, enabled |-> Enabled(Definition(i).content),
                     default |-> NoVersion]
  <2>1. pc[i] # "down" /\ Skill(i) \in Skills
    BY <1>1, <1>4, SkillType DEF InsertSkill, Upserting
  <2>2. /\ draft'[Skill(i)] = row
        /\ \A t \in Skills \ {Skill(i)} : draft'[t] = draft[t]
    BY <1>1, <1>4, <2>1 DEF InsertSkill, WriteRow, StartInv, TypeOK
  <2>3. Skill(i) = DefaultSkill => Enabled(Definition(i).content)
    BY <1>1, <2>1, DefaultDefinition DEF Definition
  <2> QED
    BY <1>1, <2>2, <2>3 DEF DefaultEnabled
<1>5. CASE UpdateSkill(i)
  <2> DEFINE old == Row(i, Skill(i))
             new == Definition(i).content
             row == [meta |-> IF "meta" \in sync[i].changed THEN new ELSE old.meta,
                     enabled |-> IF "enabled" \in sync[i].changed THEN Enabled(new) ELSE old.enabled,
                     default |-> old.default]
  <2>1. pc[i] # "down" /\ Skill(i) \in Skills /\ old # NoSkill
    BY <1>1, <1>5, SkillType DEF UpdateSkill, Upserting, StartInv, RowsOK
  <2>2. WriteRow(i, Skill(i), row)
    BY <1>5 DEF UpdateSkill
  <2>3. Skill(i) = DefaultSkill => Enabled(new) /\ old.enabled
    BY <1>1, <1>2, <2>1, DefaultDefinition DEF Definition, DefaultEnabled
  <2>4. Skill(i) = DefaultSkill => row.enabled
    BY <2>3
  <2> HIDE DEF row
  <2>5. /\ draft'[Skill(i)] = row
        /\ \A t \in Skills \ {Skill(i)} : draft'[t] = draft[t]
    BY <1>1, <2>1, <2>2 DEF WriteRow, StartInv, TypeOK
  <2> QED
    BY <1>1, <2>4, <2>5 DEF DefaultEnabled
<1>6. CASE SetDefault(i)
  <2> DEFINE old == Row(i, Skill(i))
             row == [meta |-> old.meta, enabled |-> old.enabled, default |-> Definition(i).version]
  <2>1. pc[i] = "default" /\ Skill(i) \in Skills /\ old # NoSkill
    BY <1>1, <1>6, SkillType DEF SetDefault, Upserting, StartInv, RowsOK, Loaded
  <2>2. Skill(i) = DefaultSkill => row.enabled
    BY <1>2, <2>1 DEF DefaultEnabled
  <2>3. UNCHANGED rows \/ WriteRow(i, Skill(i), row)
    BY <1>1, <1>6, SetDefaultEffect
  <2> HIDE DEF row
  <2>4. CASE WriteRow(i, Skill(i), row)
    <3>1. /\ draft'[Skill(i)] = row
          /\ \A t \in Skills \ {Skill(i)} : draft'[t] = draft[t]
      BY <1>1, <2>1, <2>4 DEF WriteRow, StartInv, TypeOK
    <3> QED
      BY <1>1, <2>2, <3>1 DEF DefaultEnabled
  <2> QED
    BY <1>3, <2>3, <2>4 DEF rows
<1>7. CASE DisableSkill(i)
  <2>1. pc[i] = "disable" /\ Skill(i) \in sync[i].left /\ Skill(i) \in Skills
    BY <1>1, <1>7, SkillType DEF DisableSkill
  <2>2. Skill(i) # DefaultSkill
    BY <1>1, <2>1, DefaultDefinition DEF StartInv, LoopOK
  <2>3. UNCHANGED rows \/ Writes(i)
    BY <1>1, <1>7, StatementRows
  <2> QED
    BY <1>1, <1>3, <2>1, <2>2, <2>3, WritesEffect
<1>8. CASE \/ SelectSkill(i) \/ RefreshSkill(i) \/ SelectVersion(i) \/ InsertVersion(i)
           \/ ListSkills(i) \/ Commit(i) \/ Start(i) \/ Stop(i)
  BY <1>3, <1>8 DEF SelectSkill, RefreshSkill, SelectVersion, InsertVersion, ListSkills,
                    Commit, Start, Stop, rows
<1>9. CASE Failing(i)
  BY <1>1, <1>3, <1>9, FailingFails DEF Fail
<1> QED
  BY <1>4, <1>5, <1>6, <1>7, <1>8, <1>9 DEF StepOf, Statement, Failing

LEMMA CommittedStays ==
  ASSUME DefaultsInv, [Next]_vars, NEW i \in Instances, StepOf(i)
  PROVE  CommittedOK' /\ DefaultEnabled(skills[DefaultSkill])'
<1>1. /\ StartInv /\ AddedInv /\ CommittedOK /\ DefaultsOK(i) /\ DefaultSkill \in Skills
      /\ DefaultEnabled(skills[DefaultSkill]) /\ DefaultEnabled(draft[DefaultSkill])
  BY SkillRegistryAssumption DEF DefaultsInv, VersionsInv, AddedInv
<1>2. \A s \in Skills : skills[s] # NoSkill =>
        /\ skills[s].default \in Versions /\ skills[s].default # NoVersion
        /\ versions'[s][skills[s].default] # NoContent
  <2> SUFFICES ASSUME NEW s \in Skills, skills[s] # NoSkill
               PROVE  /\ skills[s].default \in Versions /\ skills[s].default # NoVersion
                      /\ versions'[s][skills[s].default] # NoContent
    OBVIOUS
  <2>1. skills[s].default # NoVersion /\ versions[s][skills[s].default] # NoContent
    BY <1>1 DEF CommittedOK
  <2>2. skills[s].default \in Versions
    BY <1>1, <2>1 DEF StartInv, TypeOK, SkillRow
  <2> QED
    BY <1>1, <2>1, <2>2, VersionsStay
<1>3. CASE skills' = skills
  BY <1>1, <1>2, <1>3 DEF CommittedOK, DefaultEnabled
<1>4. CASE Commit(i)
  <2>1. /\ \A s \in Skills : skills'[s] = Row(i, s)
        /\ \A s \in Skills, v \in Versions : versions'[s][v] = Content(i, s, v)
        /\ pc[i] = "commit"
    BY <1>1, <1>4, CommitEffect
  <2>2. ASSUME NEW s \in Skills, owner[s] = i
        PROVE  draft[s].default # NoVersion /\ versions'[s][draft[s].default] # NoContent
    <3>1. Done(i, s) /\ draft[s] # NoSkill
      BY <1>1, <2>1, <2>2 DEF Done, Upserting, StartInv, OwnerOK
    <3>2. HasDefault(i, s, draft[s])
      BY <1>1, <2>2, <3>1 DEF DefaultsOK
    <3>3. draft[s].default \in Versions
      BY <1>1, <3>1, <3>2 DEF HasDefault, StartInv, TypeOK, SkillRow
    <3> QED
      BY <2>1, <3>2, <3>3 DEF HasDefault
  <2>3. CommittedOK'
    BY <1>2, <2>1, <2>2 DEF CommittedOK, Row
  <2>4. DefaultEnabled(skills[DefaultSkill])'
    BY <1>1, <2>1 DEF DefaultEnabled, Row
  <2> QED
    BY <2>3, <2>4
<1> QED
  BY <1>1, <1>3, <1>4, SkillsChangeByCommit

LEMMA DefaultsOwn ==
  ASSUME DefaultsInv, AddedInv', [Next]_vars, NEW i \in Instances, StepOf(i)
  PROVE  DefaultsOK(i)'
<1>1. StartInv
  BY DEF DefaultsInv, VersionsInv, AddedInv
<1>2. CASE Start(i)
  <2>1. owner' = owner /\ \A s \in Skills : owner[s] # i
    BY <1>1, <1>2, OwnsNothing DEF Start, rows, Syncing
  <2>2. pc'[i] = "select"
    BY <1>1, <1>2 DEF Start, Goto, StartInv, TypeOK
  <2> QED
    BY <2>1, <2>2 DEF DefaultsOK
<1>3. CASE Stop(i)
  <2>1. owner' = owner /\ \A s \in Skills : owner[s] # i
    BY <1>1, <1>3, OwnsNothing DEF Stop, rows, Syncing
  <2>2. pc'[i] = "down"
    BY <1>1, <1>3 DEF Stop, Goto, StartInv, TypeOK
  <2> QED
    BY <2>1, <2>2 DEF DefaultsOK
<1>4. CASE Failing(i)
  <2>1. /\ \A s \in Skills : owner'[s] # i
        /\ pc'[i] = "down"
    BY <1>1, <1>4, FailingFails, SkillRegistryAssumption DEF Fail, Goto, StartInv, TypeOK
  <2> QED
    BY <2>1 DEF DefaultsOK
<1>5. CASE Commit(i)
  <2>1. /\ \A s \in Skills : owner'[s] # i
        /\ pc'[i] = "up"
    BY <1>1, <1>5, CommitEffect, SkillRegistryAssumption
  <2> QED
    BY <2>1 DEF DefaultsOK
<1>6. CASE Staying(i) \/ SetDefault(i) \/ ListSkills(i) \/ DisableSkill(i)
  BY <1>6, DefaultsStaying, DefaultsSetDefault, DefaultsEnding
<1> QED
  BY <1>2, <1>3, <1>4, <1>5, <1>6 DEF StepOf, Statement, Staying, Failing

LEMMA DefaultsInvNext ==
  ASSUME DefaultsInv, [Next]_vars
  PROVE  DefaultsInv'
<1>1. /\ VersionsInv /\ AddedInv /\ StartInv /\ VersionsInv' /\ AddedInv'
  BY VersionsInvNext DEF DefaultsInv, VersionsInv, AddedInv
<1>2. ASSUME NEW i \in Instances, StepOf(i)
      PROVE  DefaultsInv'
  <2>1. ASSUME NEW j \in Instances \ {i}
        PROVE  DefaultsOK(j)'
    BY <1>1, <1>2, OthersStay, OthersRows, DefaultsOther
  <2>2. DefaultsOK(i)'
    BY <1>1, <1>2, DefaultsOwn
  <2>3. CommittedOK' /\ DefaultEnabled(skills[DefaultSkill])' /\ DefaultEnabled(draft[DefaultSkill])'
    BY <1>2, DefaultStaysEnabled, CommittedStays
  <2> QED
    BY <1>1, <2>1, <2>2, <2>3 DEF DefaultsInv
<1>3. CASE UNCHANGED <<rows, versions, added, pc, sync, history>>
  <2>1. \A j \in Instances : DefaultsOK(j)'
    BY <1>1, <1>3, DefaultsOther DEF rows
  <2>2. CommittedOK' /\ DefaultEnabled(skills[DefaultSkill])' /\ DefaultEnabled(draft[DefaultSkill])'
    BY <1>3 DEF DefaultsInv, CommittedOK, DefaultEnabled, rows
  <2> QED
    BY <1>1, <2>1, <2>2 DEF DefaultsInv
<1> QED
  BY <1>2, <1>3, StepCases

(* What set_default_version and disable_skill leave: the default version of    *)
(* every committed skill is published, a transaction has set the default of    *)
(* each row it is over with, and nobody disables the default skill.            *)
THEOREM DefaultsInvariant == Spec => []DefaultsInv
<1>1. Init => DefaultsInv
  <2> SUFFICES ASSUME Init PROVE DefaultsInv
    OBVIOUS
  <2>1. VersionsInv
    BY AddedInvInit DEF Init, VersionsInv, VersionsOK, Upserting, Ending
  <2>2. /\ \A s \in Skills : skills[s] = NoSkill /\ draft[s] = NoSkill
        /\ \A i \in Instances : \A s \in Skills : owner[s] # i
        /\ \A i \in Instances : pc[i] = "down"
    BY SkillRegistryAssumption DEF Init
  <2> QED
    BY <2>1, <2>2, SkillRegistryAssumption DEF DefaultsInv, DefaultsOK, CommittedOK, DefaultEnabled
<1>2. DefaultsInv /\ [Next]_vars => DefaultsInv'
  BY DefaultsInvNext
<1> QED
  BY <1>1, <1>2, PTL DEF Spec

(* select_skill without a skill_id: from the first ready instance on, the      *)
(* default skill is enabled and its default version is there, while other      *)
(* instances start, fail or stop.                                              *)
THEOREM DefaultIsResolvable == Spec => []DefaultSkillResolves
<1>1. ASSUME DefaultsInv, NEW i \in Instances, pc[i] = "up"
      PROVE  /\ Selectable(DefaultSkill)
             /\ versions[DefaultSkill][skills[DefaultSkill].default] # NoContent
  <2>1. StartInv /\ DefaultSkill \in Skills
    BY <1>1, SkillRegistryAssumption DEF DefaultsInv, VersionsInv, AddedInv
  <2>2. DefaultSkill \in DOMAIN sync[i].set
    BY <1>1, <2>1, DefaultDefinition
  <2>3. skills[DefaultSkill] # NoSkill
    BY <1>1, <2>1, <2>2 DEF StartInv, RowsOK
  <2> QED
    BY <1>1, <2>1, <2>3 DEF DefaultsInv, CommittedOK, DefaultEnabled, Selectable
<1>2. DefaultsInv => DefaultSkillResolves
  BY <1>1 DEF DefaultSkillResolves
<1> QED
  BY <1>2, DefaultsInvariant, PTL

------------------------------------------------------------------------------
(* A start-up that meets no other: what it has loaded stays current, so that   *)
(* the columns and the default it does not write are those it wants.           *)
Published(set, s) ==
  [meta |-> set[s].content, enabled |-> Enabled(set[s].content), default |-> set[s].version]

Alone(i) == Syncing(i) /\ i \notin overlapping

AloneOK(i) ==
  /\ \A j \in Instances \ {i} : ~ Syncing(j)
  /\ \A s \in DOMAIN sync[i].set : Done(i, s) => Row(i, s) = Published(sync[i].set, s)
  /\ pc[i] = "update_skill" =>
       sync[i].changed = Changed(Row(i, Skill(i)), Definition(i).content)
  /\ pc[i] \in Loaded =>
       /\ Row(i, Skill(i)).meta = Definition(i).content
       /\ Row(i, Skill(i)).enabled = Enabled(Definition(i).content)
  /\ pc[i] \in Loaded \ {"refresh"} => sync[i].seen = Row(i, Skill(i)).default
  /\ pc[i] \in {"disable", "commit"} =>
       \A s \in Skills \ DOMAIN sync[i].set :
         Row(i, s) # NoSkill /\ Row(i, s).enabled => s \in sync[i].left

AloneInv == StartInv /\ \A i \in Instances : Alone(i) => AloneOK(i)

LEMMA AloneStart ==
  ASSUME AloneInv, NEW i \in Instances, Start(i), NEW j \in Instances, Alone(j)'
  PROVE  AloneOK(j)'
<1>1. /\ StartInv /\ pc'[i] = "select" /\ sync'[i].left = DOMAIN sync'[i].set
      /\ \A k \in Instances \ {i} : pc'[k] = pc[k] /\ sync'[k] = sync[k]
      /\ Meet(i)
  BY DEF Start, Goto, AloneInv, StartInv, TypeOK
<1>2. CASE j = i
  <2>1. {k \in Instances \ {i} : Syncing(k)} = {}
    BY <1>1, <1>2 DEF Meet, Alone
  <2>2. \A k \in Instances \ {i} : ~ Syncing(k)'
    BY <1>1, <2>1 DEF Syncing
  <2> QED
    BY <1>1, <1>2, <2>2 DEF AloneOK, Done, Upserting, Loaded
<1>3. CASE j # i
  <2>1. j \in {k \in Instances \ {i} : Syncing(k)}
    BY <1>1, <1>3 DEF Alone, Syncing
  <2>2. j \in overlapping'
    BY <1>1, <2>1 DEF Meet
  <2> QED
    BY <2>2 DEF Alone
<1> QED
  BY <1>2, <1>3

(* An instance that meets no other sees no step of another one but its end.    *)
LEMMA AloneOther ==
  ASSUME AloneInv, NEW i \in Instances, StepOf(i), ~ Start(i),
         NEW j \in Instances \ {i}, Alone(j)'
  PROVE  AloneOK(j)'
<1>1. StartInv /\ pc'[j] = pc[j] /\ sync'[j] = sync[j]
  BY OthersStay DEF AloneInv
<1>2. overlapping' = overlapping
  BY DEF StepOf, Statement, SelectSkill, InsertSkill, SkillExists, UpdateSkill, RefreshSkill,
         SelectVersion, Tampered, InsertVersion, VersionExists, SetDefault, ListSkills,
         DisableSkill, Commit, Fail, DeadlockVictim, Stop, history
<1>3. Alone(j) /\ AloneOK(j)
  BY <1>1, <1>2 DEF Alone, Syncing, AloneInv
<1>4. ~ Syncing(i)
  BY <1>3 DEF AloneOK
<1>5. Stop(i)
  BY <1>4, FailingFails DEF StepOf, Statement, SelectSkill, InsertSkill, SkillExists, UpdateSkill,
     RefreshSkill, SelectVersion, Tampered, InsertVersion, VersionExists, SetDefault, ListSkills,
     DisableSkill, Commit, Fail, DeadlockVictim, Syncing
<1>6. UNCHANGED rows /\ pc'[i] = "down"
  BY <1>1, <1>5 DEF Stop, Goto, StartInv, TypeOK
<1>7. \A k \in Instances \ {j} : ~ Syncing(k)'
  BY <1>1, <1>3, <1>5, <1>6, OthersStay DEF AloneOK, Syncing, StepOf
<1>8. Skill(j)' = Skill(j) /\ Definition(j)' = Definition(j) /\ \A s \in Skills : Row(j, s)' = Row(j, s)
  BY <1>1, <1>6 DEF Skill, Definition, Row, rows
<1>9. pc[j] # "down" /\ DOMAIN sync[j].set \subseteq Skills
  BY <1>1, <1>3, SetType DEF Alone, Syncing
<1>10. pc[j] \in Upserting => Skill(j) \in Skills
  BY <1>1, SkillType
<1>11. "update_skill" \in Upserting /\ Loaded \subseteq Upserting
  BY DEF Upserting, Loaded
<1> QED
  BY <1>1, <1>3, <1>7, <1>8, <1>9, <1>10, <1>11 DEF AloneOK, Done

(* The statements for the current skill: its row is brought to the wanted      *)
(* columns.                                                                    *)
LEMMA AloneUpsert ==
  ASSUME StartInv, NEW i \in Instances, AloneOK(i), SelectSkill(i) \/ InsertSkill(i) \/ UpdateSkill(i)
  PROVE  /\ pc'[i] \in {"insert_skill", "update_skill", "refresh"}
         /\ pc'[i] = "update_skill" =>
              sync'[i].changed = Changed(Row(i, Skill(i))', Definition(i).content)
         /\ pc'[i] = "refresh" =>
              /\ Row(i, Skill(i))'.meta = Definition(i).content
              /\ Row(i, Skill(i))'.enabled = Enabled(Definition(i).content)
<1>1. pc'[i] \in {"insert_skill", "update_skill", "refresh"}
  BY DEF SelectSkill, InsertSkill, UpdateSkill, Goto, StartInv, TypeOK
<1>2. Staying(i) /\ pc[i] \in Upserting /\ Skill(i)' = Skill(i) /\ Skill(i) \in Skills
  BY StayingEffect, SkillType DEF Staying
<1>3. CASE SelectSkill(i)
  <2>1. Row(i, Skill(i))' = Row(i, Skill(i))
    BY <1>2, <1>3 DEF SelectSkill, Row, rows
  <2>2. CASE Row(i, Skill(i)) = NoSkill
    BY <1>3, <2>2 DEF SelectSkill, Goto, StartInv, TypeOK
  <2>3. CASE Row(i, Skill(i)) # NoSkill
    <3> DEFINE changed == Changed(Row(i, Skill(i)), Definition(i).content)
    <3>1. sync'[i].changed = changed
      BY <1>3, <2>3, SelectSkillEffect DEF StartInv, TypeOK
    <3>2. pc'[i] = IF changed = {} THEN "refresh" ELSE "update_skill"
      BY <1>3, <2>3 DEF SelectSkill, Goto, StartInv, TypeOK
    <3>3. changed = {} => /\ Row(i, Skill(i)).meta = Definition(i).content
                          /\ Row(i, Skill(i)).enabled = Enabled(Definition(i).content)
      BY DEF Changed
    <3> HIDE DEF changed
    <3> QED
      BY <2>1, <3>1, <3>2, <3>3 DEF changed
  <2> QED
    BY <2>2, <2>3
<1>4. CASE InsertSkill(i)
  <2> DEFINE row == [meta |-> Definition(i).content, enabled |-> Enabled(Definition(i).content),
                     default |-> NoVersion]
  <2>1. WriteRow(i, Skill(i), row) /\ pc'[i] = "refresh"
    BY <1>4 DEF InsertSkill, Goto, StartInv, TypeOK
  <2>2. row.meta = Definition(i).content /\ row.enabled = Enabled(Definition(i).content)
    OBVIOUS
  <2> HIDE DEF row
  <2>3. Row(i, Skill(i))' = row
    BY <1>2, <2>1 DEF WriteRow, Row, StartInv, TypeOK
  <2> QED
    BY <1>1, <2>1, <2>2, <2>3
<1>5. CASE UpdateSkill(i)
  <2> DEFINE old == Row(i, Skill(i))
             new == Definition(i).content
             row == [meta |-> IF "meta" \in sync[i].changed THEN new ELSE old.meta,
                     enabled |-> IF "enabled" \in sync[i].changed THEN Enabled(new) ELSE old.enabled,
                     default |-> old.default]
  <2>1. WriteRow(i, Skill(i), row) /\ pc'[i] = "refresh" /\ pc[i] = "update_skill"
    BY <1>5 DEF UpdateSkill, Goto, StartInv, TypeOK
  <2>2. sync[i].changed = Changed(old, new)
    BY <2>1 DEF AloneOK
  <2>3. row.meta = new /\ row.enabled = Enabled(new)
    BY <2>2 DEF Changed
  <2> HIDE DEF row
  <2>4. Row(i, Skill(i))' = row
    BY <1>2, <2>1 DEF WriteRow, Row, StartInv, TypeOK
  <2> QED
    BY <1>1, <2>1, <2>3, <2>4
<1> QED
  BY <1>3, <1>4, <1>5

(* What is common to the statements of i: the other instances stay ended, and  *)
(* the rows that the loop is over with are not written.                        *)
LEMMA AloneStays ==
  ASSUME AloneInv, NEW i \in Instances,
         Staying(i) \/ SetDefault(i) \/ ListSkills(i) \/ DisableSkill(i), Alone(i)'
  PROVE  /\ StartInv /\ AloneOK(i) /\ \A j \in Instances \ {i} : ~ Syncing(j)'
         /\ pc[i] # "down" /\ DOMAIN sync[i].set \subseteq Skills
         /\ \A s \in Skills \ {Skill(i)} : Row(i, s)' = Row(i, s)
<1>1. StartInv /\ overlapping' = overlapping
  BY DEF AloneInv, Staying, SelectSkill, InsertSkill, UpdateSkill, RefreshSkill, SelectVersion,
         InsertVersion, SetDefault, ListSkills, DisableSkill, history
<1>2. pc[i] \in Upserting \cup Ending
  BY <1>1, LoopEffect
<1>3. AloneOK(i)
  BY <1>1, <1>2 DEF AloneInv, Alone, Syncing, Upserting, Ending
<1>4. \A j \in Instances \ {i} : ~ Syncing(j)'
  BY <1>1, <1>3, OthersStay DEF AloneOK, Syncing, StepOf, Statement, Staying
<1>5. pc[i] # "down" /\ DOMAIN sync[i].set \subseteq Skills
  BY <1>1, <1>2, SetType DEF Upserting, Ending
<1>6. UNCHANGED rows \/ Writes(i)
  BY <1>1, StatementRows
<1>7. \A s \in Skills \ {Skill(i)} : Row(i, s)' = Row(i, s)
  <2>1. CASE UNCHANGED rows
    BY <2>1 DEF Row, rows
  <2>2. CASE Writes(i)
    BY <1>1, <2>2 DEF Writes, WriteRow, Row, StartInv, TypeOK
  <2> QED
    BY <1>6, <2>1, <2>2
<1> QED
  BY <1>1, <1>3, <1>4, <1>5, <1>7

LEMMA AloneStaying ==
  ASSUME AloneInv, NEW i \in Instances, Staying(i), Alone(i)'
  PROVE  AloneOK(i)'
<1>1. /\ StartInv /\ AloneOK(i) /\ \A j \in Instances \ {i} : ~ Syncing(j)'
      /\ DOMAIN sync[i].set \subseteq Skills
      /\ \A s \in Skills \ {Skill(i)} : Row(i, s)' = Row(i, s)
  BY AloneStays
<1>2. /\ pc[i] \in Upserting /\ pc'[i] \in Upserting
      /\ sync'[i].set = sync[i].set /\ sync'[i].left = sync[i].left
      /\ Skill(i)' = Skill(i) /\ Definition(i)' = Definition(i)
  BY <1>1, StayingEffect
<1>3. Skill(i) \in sync[i].left
  BY <1>1, <1>2, SkillType
<1>4. \A s \in DOMAIN sync[i].set : Done(i, s)' => Row(i, s)' = Published(sync[i].set, s)
  BY <1>1, <1>2, <1>3 DEF Done, AloneOK
<1>5. pc'[i] \notin {"disable", "commit"}
  BY <1>2 DEF Upserting
<1>6. CASE SelectSkill(i) \/ InsertSkill(i) \/ UpdateSkill(i)
  <2>1. /\ pc'[i] \in {"insert_skill", "update_skill", "refresh"}
        /\ pc'[i] = "update_skill" =>
             sync'[i].changed = Changed(Row(i, Skill(i))', Definition(i).content)
        /\ pc'[i] = "refresh" =>
             /\ Row(i, Skill(i))'.meta = Definition(i).content
             /\ Row(i, Skill(i))'.enabled = Enabled(Definition(i).content)
    BY <1>1, <1>6, AloneUpsert
  <2> QED
    BY <1>1, <1>2, <1>4, <1>5, <2>1 DEF AloneOK, Loaded, Published, Changed, Enabled
<1>7. CASE RefreshSkill(i) \/ SelectVersion(i) \/ InsertVersion(i)
  <2>1. /\ UNCHANGED rows /\ pc[i] \in Loaded
        /\ pc'[i] \in Loaded \ {"refresh"}
    BY <1>1, <1>7 DEF RefreshSkill, SelectVersion, InsertVersion, Loaded, Goto, StartInv, TypeOK
  <2>2. Row(i, Skill(i))' = Row(i, Skill(i))
    BY <1>2, <2>1 DEF Row, rows
  <2>3. sync'[i].seen = Row(i, Skill(i)).default
    <3>1. CASE RefreshSkill(i)
      BY <1>1, <3>1, RefreshSkillEffect DEF StartInv, TypeOK
    <3>2. CASE SelectVersion(i) \/ InsertVersion(i)
      BY <1>1, <3>2 DEF SelectVersion, InsertVersion, AloneOK, Loaded
    <3> QED
      BY <1>7, <3>1, <3>2
  <2>4. pc'[i] # "update_skill"
    BY <2>1 DEF Loaded
  <2>5. /\ Row(i, Skill(i)).meta = Definition(i).content
        /\ Row(i, Skill(i)).enabled = Enabled(Definition(i).content)
    BY <1>1, <2>1 DEF AloneOK
  <2> QED
    BY <1>1, <1>2, <1>4, <1>5, <2>1, <2>2, <2>3, <2>4, <2>5 DEF AloneOK, Published, Enabled
<1> QED
  BY <1>6, <1>7 DEF Staying

LEMMA AloneSetDefault ==
  ASSUME AloneInv, NEW i \in Instances, SetDefault(i), Alone(i)'
  PROVE  AloneOK(i)'
<1>1. /\ StartInv /\ AloneOK(i) /\ \A j \in Instances \ {i} : ~ Syncing(j)'
      /\ pc[i] # "down" /\ DOMAIN sync[i].set \subseteq Skills
      /\ \A s \in Skills \ {Skill(i)} : Row(i, s)' = Row(i, s)
  BY AloneStays
<1>2. /\ pc[i] = "default" /\ pc'[i] \in {"select", "list"}
      /\ sync'[i].set = sync[i].set
  BY <1>1, SetDefaultLoop
<1>3. /\ pc[i] \in Upserting /\ pc[i] \in Loaded \ {"refresh"}
      /\ pc'[i] \notin Loaded \cup {"update_skill", "disable", "commit"}
  BY <1>2 DEF Upserting, Loaded
<1>4. Skill(i) \in Skills /\ Row(i, Skill(i)) # NoSkill
  BY <1>1, <1>3, SkillType DEF StartInv, RowsOK
<1> DEFINE old == Row(i, Skill(i))
           row == [meta |-> old.meta, enabled |-> old.enabled, default |-> Definition(i).version]
<1>5. old = [meta |-> old.meta, enabled |-> old.enabled, default |-> old.default]
  <2>1. old \in SkillRow
    BY <1>1, <1>4, RowType
  <2> HIDE DEF old
  <2> QED
    BY <2>1 DEF SkillRow
<1>6. /\ old.meta = Definition(i).content /\ old.enabled = Enabled(Definition(i).content)
      /\ sync[i].seen = old.default
  BY <1>1, <1>3 DEF AloneOK
<1>7. row = Published(sync[i].set, Skill(i))
  BY <1>6 DEF Published, Definition
<1>8. PICK k \in Skills : k = Skill(i)
  BY <1>4
<1>9. Row(i, k)' = row
  <2>1. CASE sync[i].seen = Definition(i).version /\ UNCHANGED rows
    <3>1. Row(i, k)' = Row(i, k)
      BY <2>1 DEF Row, rows
    <3> QED
      BY <1>5, <1>6, <1>8, <2>1, <3>1
  <2>2. CASE WriteRow(i, Skill(i), row)
    <3> HIDE DEF row
    <3>1. \A t \in Skills : Row(i, t)' = IF t = Skill(i) THEN row ELSE Row(i, t)
      BY <1>1, <1>4, <2>2, RowAfterWrite
    <3> QED
      BY <1>8, <3>1
  <2> QED
    BY <1>1, <2>1, <2>2, SetDefaultEffect
<1>10. \A s \in DOMAIN sync[i].set : Done(i, s)' => Row(i, s)' = Published(sync[i].set, s)
  <2> SUFFICES ASSUME NEW s \in DOMAIN sync[i].set, Done(i, s)'
               PROVE  Row(i, s)' = Published(sync[i].set, s)
    OBVIOUS
  <2>1. CASE s = k
    BY <1>7, <1>8, <1>9, <2>1
  <2>2. CASE s # k
    <3>1. Done(i, s) /\ s \in Skills
      BY <1>1, <1>8, <2>2, LoopEffect
    <3> QED
      BY <1>1, <1>8, <2>2, <3>1 DEF AloneOK
  <2> QED
    BY <2>1, <2>2
<1> QED
  BY <1>1, <1>2, <1>3, <1>10 DEF AloneOK, Published, Enabled

LEMMA AloneEnding ==
  ASSUME AloneInv, NEW i \in Instances, ListSkills(i) \/ DisableSkill(i), Alone(i)'
  PROVE  AloneOK(i)'
<1>1. /\ StartInv /\ AloneOK(i) /\ \A j \in Instances \ {i} : ~ Syncing(j)'
      /\ DOMAIN sync[i].set \subseteq Skills
      /\ \A s \in Skills \ {Skill(i)} : Row(i, s)' = Row(i, s)
  BY AloneStays
<1>2. pc[i] \in Ending /\ pc'[i] \in {"disable", "commit"} /\ sync'[i].set = sync[i].set
  BY <1>1, EndingEffect
<1>3. \A s \in DOMAIN sync[i].set : Row(i, s) = Published(sync[i].set, s)
  BY <1>1, <1>2 DEF AloneOK, Done, Ending, Upserting
<1>4. CASE ListSkills(i)
  <2>1. \A s \in Skills : Row(i, s)' = Row(i, s)
    BY <1>4 DEF ListSkills, Row, rows
  <2>2. sync'[i].left = {s \in Skills : Removed(i, s)}
    <3> DEFINE removed == {s \in Skills : Removed(i, s)}
    <3>1. PICK turn \in TurnsByName(removed) :
            sync' = [sync EXCEPT ![i] =
              [set |-> sync[i].set, left |-> removed, turn |-> turn,
               changed |-> sync[i].changed, seen |-> sync[i].seen]]
      BY <1>1, <1>4, ListSkillsEffect, Zenon
    <3> HIDE DEF removed
    <3>2. sync'[i].left = removed
      BY <1>1, <3>1 DEF StartInv, TypeOK
    <3> QED
      BY <3>2 DEF removed
  <2>3. \A s \in Skills \ DOMAIN sync[i].set :
          Row(i, s) # NoSkill /\ Row(i, s).enabled => s \in sync'[i].left
    BY <2>2 DEF Removed
  <2>4. \A s \in DOMAIN sync[i].set : Row(i, s)' = Published(sync[i].set, s)
    BY <1>1, <1>3, <2>1
  <2> QED
    BY <1>1, <1>2, <2>1, <2>3, <2>4 DEF AloneOK, Loaded, Published, Enabled
<1>5. CASE DisableSkill(i)
  <2>1. pc[i] = "disable" /\ Skill(i) \in sync[i].left /\ Skill(i) \in Skills
    BY <1>1, <1>5, SkillType DEF DisableSkill
  <2>2. Skill(i) \notin DOMAIN sync[i].set
    BY <1>1, <2>1 DEF StartInv, LoopOK
  <2> DEFINE row == [meta |-> Row(i, Skill(i)).meta, enabled |-> FALSE,
                     default |-> Row(i, Skill(i)).default]
  <2>3. ~ row.enabled
    OBVIOUS
  <2>4. WriteRow(i, Skill(i), row)
    BY <1>1, <1>5, DisableSkillEffect, Zenon
  <2>5. PICK turn \in TurnsByName(sync[i].left \ {Skill(i)}) :
          sync' = [sync EXCEPT ![i] =
            [set |-> sync[i].set, left |-> sync[i].left \ {Skill(i)}, turn |-> turn,
             changed |-> sync[i].changed, seen |-> sync[i].seen]]
    BY <1>1, <1>5, DisableSkillEffect, Zenon
  <2>6. sync'[i].left = sync[i].left \ {Skill(i)}
    BY <1>1, <2>5 DEF StartInv, TypeOK
  <2> HIDE DEF row
  <2>7. \A t \in Skills : Row(i, t)' = IF t = Skill(i) THEN row ELSE Row(i, t)
    BY <1>1, <2>1, <2>4, RowAfterWrite
  <2>8. \A s \in Skills \ DOMAIN sync[i].set :
          Row(i, s)' # NoSkill /\ Row(i, s)'.enabled => s \in sync'[i].left
    BY <1>1, <2>1, <2>3, <2>6, <2>7 DEF AloneOK
  <2>9. \A s \in DOMAIN sync[i].set : Row(i, s)' = Published(sync[i].set, s)
    BY <1>1, <1>3, <2>2, <2>7
  <2> QED
    BY <1>1, <1>2, <2>8, <2>9 DEF AloneOK, Loaded, Published, Enabled
<1> QED
  BY <1>4, <1>5

LEMMA AloneInvNext ==
  ASSUME AloneInv, [Next]_vars
  PROVE  AloneInv'
<1>1. StartInv /\ StartInv'
  BY StartInvNext DEF AloneInv
<1>2. ASSUME NEW i \in Instances, StepOf(i), NEW j \in Instances, Alone(j)'
      PROVE  AloneOK(j)'
  <2>1. CASE Start(i)
    BY <1>2, <2>1, AloneStart
  <2>2. CASE ~ Start(i) /\ j # i
    BY <1>2, <2>2, AloneOther
  <2>3. CASE ~ Start(i) /\ j = i
    <3>1. CASE Stop(i) \/ Failing(i) \/ Commit(i)
      <4>1. pc'[i] \in {"down", "up"}
        BY <1>1, <3>1, FailingFails, CommitEffect DEF Stop, Fail, Goto, StartInv, TypeOK
      <4> QED
        BY <1>2, <2>3, <4>1 DEF Alone, Syncing
    <3>2. CASE Staying(i) \/ SetDefault(i) \/ ListSkills(i) \/ DisableSkill(i)
      BY <1>2, <2>3, <3>2, AloneStaying, AloneSetDefault, AloneEnding
    <3> QED
      BY <1>2, <2>3, <3>1, <3>2 DEF StepOf, Statement, Staying, Failing
  <2> QED
    BY <2>1, <2>2, <2>3
<1>3. ASSUME UNCHANGED <<rows, versions, added, pc, sync, history>>,
             NEW j \in Instances, Alone(j)'
      PROVE  AloneOK(j)'
  <2>1. AloneOK(j)
    BY <1>3 DEF AloneInv, Alone, Syncing, history
  <2> QED
    BY <1>3, <2>1 DEF AloneOK, Syncing, Done, Row, Skill, Definition, rows, Published, Changed, Enabled
<1> QED
  BY <1>1, <1>2, <1>3, StepCases DEF AloneInv

(* What a start-up that met no other commits. *)
LEMMA AloneCommit ==
  ASSUME AloneInv, NEW i \in Instances, Commit(i)
  PROVE  LastSetIsPublished'
<1>1. /\ StartInv /\ \A s \in Skills : skills'[s] = Row(i, s)
      /\ pc[i] = "commit" /\ lastSet' = IF i \in overlapping THEN NoSet ELSE sync[i].set
  BY CommitEffect DEF AloneInv, Commit
<1>2. CASE i \in overlapping
  BY <1>1, <1>2 DEF LastSetIsPublished
<1>3. CASE i \notin overlapping
  <2>1. AloneOK(i)
    BY <1>1, <1>3 DEF AloneInv, Alone, Syncing
  <2>2. sync[i].left = {}
    BY <1>1 DEF StartInv, LoopOK
  <2>3. \A s \in DOMAIN sync[i].set : Row(i, s) = Published(sync[i].set, s)
    BY <1>1, <2>1 DEF AloneOK, Done, Upserting
  <2>4. \A s \in Skills \ DOMAIN sync[i].set : Row(i, s) # NoSkill => ~ Row(i, s).enabled
    BY <1>1, <2>1, <2>2 DEF AloneOK
  <2> QED
    BY <1>1, <1>3, <2>3, <2>4 DEF LastSetIsPublished, Published
<1> QED
  BY <1>2, <1>3

(* As long as a start-up meets no other one, the rows it has read are the rows *)
(* of the table, and those it has dealt with say what its definitions say.     *)
THEOREM AloneInvariant == Spec => []AloneInv
<1>1. Init => AloneInv
  BY StartInvInit DEF Init, AloneInv, Alone, Syncing
<1>2. AloneInv /\ [Next]_vars => AloneInv'
  BY AloneInvNext
<1> QED
  BY <1>1, <1>2, PTL DEF Spec

(* sync_skill_definitions: after a start-up that met no other the registry is  *)
(* its set of files and nothing else, whatever was published before, although  *)
(* only the columns that differ from the loaded ones are written.              *)
THEOREM LastStartupWins == Spec => []LastSetIsPublished
<1>1. Init => LastSetIsPublished
  BY DEF Init, LastSetIsPublished
<1>2. ASSUME AloneInv, LastSetIsPublished, [Next]_vars
      PROVE  LastSetIsPublished'
  <2>1. ASSUME NEW i \in Instances, StepOf(i), ~ Commit(i)
        PROVE  skills' = skills /\ lastSet' = lastSet
    <3>1. skills' = skills
      BY <1>2, <2>1, SkillsChangeByCommit DEF AloneInv
    <3>2. lastSet' = lastSet
      BY <2>1 DEF StepOf, Statement, Start, SelectSkill, InsertSkill, SkillExists, UpdateSkill,
         RefreshSkill, SelectVersion, Tampered, InsertVersion, VersionExists, SetDefault,
         ListSkills, DisableSkill, Fail, DeadlockVictim, Stop, history
    <3> QED
      BY <3>1, <3>2
  <2>2. CASE UNCHANGED <<skills, lastSet>>
    BY <1>2, <2>2 DEF LastSetIsPublished
  <2>3. CASE UNCHANGED <<rows, versions, added, pc, sync, history>>
    BY <2>2, <2>3 DEF rows, history
  <2> QED
    BY <1>2, <2>1, <2>2, <2>3, AloneCommit, StepCases
<1> QED
  BY <1>1, <1>2, AloneInvariant, PTL DEF Spec
==============================================================================
