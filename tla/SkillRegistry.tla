----------------------------- MODULE SkillRegistry -----------------------------
(***************************************************************************)
(* The skill registry: instances of the service that start with a set of   *)
(* YAML definitions, synchronise it with agent_skills and                  *)
(* agent_skill_versions in one transaction, and then bind runs to the      *)
(* current versions.                                                       *)
(*                                                                         *)
(* sync_skill_definitions runs one SQL statement at a time under READ      *)
(* COMMITTED, so the start-ups of several instances overlap.  The ORM      *)
(* writes only the columns that differ from what the session has loaded:   *)
(* a value that another instance changes after it was loaded is not        *)
(* written again.  An UPDATE waits for a transaction that has changed the  *)
(* row, an INSERT for one that has inserted the same key.                  *)
(*                                                                         *)
(* A definition is a version and a content; the content (and its hash)     *)
(* covers everything in the file, including name, description and enabled. *)
(***************************************************************************)
EXTENDS Naturals, Sequences, FiniteSets

CONSTANTS Instances,        \* processes of the service
          SkillOrder,       \* the skills, ordered as their files are
          RequiredSkills,   \* REQUIRED_SKILL_IDS
          DefaultSkill,     \* REQUIRED_DEFAULT_SKILL_ID
          Versions, Contents,
          EnabledContents,  \* contents that say enabled: true
          DefinitionSets,   \* sets of files an instance may be deployed with
          Runs,             \* bound: runs that are created
          NoSkill, NoVersion, NoContent, NoInstance, NoSet,
          MaxStarts         \* bound: start-ups

Skills == {SkillOrder[n] : n \in DOMAIN SkillOrder}

ASSUME SkillRegistryAssumption ==
  /\ SkillOrder \in Seq(Skills)
  /\ \A m, n \in DOMAIN SkillOrder : SkillOrder[m] = SkillOrder[n] => m = n
  /\ DefaultSkill \in RequiredSkills /\ RequiredSkills \subseteq Skills
  /\ EnabledContents \subseteq Contents
  /\ \A set \in DefinitionSets :
       /\ DOMAIN set \subseteq Skills
       /\ \A s \in DOMAIN set : set[s] \in [version : Versions, content : Contents]
  /\ NoSkill \notin Skills /\ NoVersion \notin Versions /\ NoContent \notin Contents
  /\ NoInstance \notin Instances /\ NoSet \notin DefinitionSets
  /\ MaxStarts \in Nat

VARIABLES skills,      \* skills[s]: the committed row of agent_skills, or NoSkill
          draft,       \* draft[s]: the row as the transaction that changed it leaves it
          owner,       \* owner[s]: the instance whose change of the row is not committed
          versions,    \* versions[s][v]: content of the committed version, or NoContent
          added,       \* added[i]: versions i has inserted and not committed
          pc,          \* pc[i]: the next statement of instance i
          sync,        \* sync[i]: local state of its sync_skill_definitions
          binding,     \* binding[r]: the binding of run r to a skill version
          overlapping, \* history: instances whose open start-up met another one
          lastSet,     \* history: the set published last, if its start-up met no other
          starts

vars == <<skills, draft, owner, versions, added, pc, sync, binding, overlapping, lastSet, starts>>
rows == <<skills, draft, owner>>
history == <<overlapping, lastSet, starts>>

Enabled(content) == content \in EnabledContents

SkillRow == [meta : Contents, enabled : BOOLEAN, default : Versions \cup {NoVersion}]
Version == [skill : Skills, version : Versions, content : Contents]
Binding == [skill : Skills, version : Versions, content : Contents \cup {NoContent}]

ASSUME NoSkillAssumption == NoSkill \notin SkillRow \cup Binding

(* Mutant of Valid: the default skill need not be enabled. *)
ValidUnlessDisabled(set) == RequiredSkills \subseteq DOMAIN set

(* validate_skill_definition_set: the required skills are there and the default*)
(* skill is enabled.  Its is_default flag is its name here, so that exactly one*)
(* definition has it.                                                          *)
Valid(set) ==
  /\ RequiredSkills \subseteq DOMAIN set
  /\ Enabled(set[DefaultSkill].content)

Statements == {"down", "select", "insert_skill", "update_skill", "refresh", "version",
               "insert_version", "default", "list", "disable", "commit", "up"}
Syncing(i) == pc[i] \notin {"down", "up"}

(* "left": skills the present loop still has to do; "turn": the one of them it *)
(* is at; "changed": columns the session holds a new value of; "seen":         *)
(* default_version_id as it was loaded.                                        *)
NoSync == [set |-> NoSet, left |-> {}, turn |-> NoSkill, changed |-> {}, seen |-> NoVersion]
Columns == {"meta", "enabled"}

(* The loop over the definitions follows the order of their files.             *)
First(left) ==
  SkillOrder[CHOOSE n \in DOMAIN SkillOrder :
               /\ SkillOrder[n] \in left
               /\ \A m \in DOMAIN SkillOrder : SkillOrder[m] \in left => n <= m]

TurnByFile(left) == IF left = {} THEN NoSkill ELSE First(left)

(* The loop over list() follows the names of the rows, which contents cover:   *)
(* any of the skills may be next.                                              *)
TurnsByName(left) == IF left = {} THEN {NoSkill} ELSE left

Skill(i) == sync[i].turn
Definition(i) == sync[i].set[Skill(i)]

Init ==
  /\ skills = [s \in Skills |-> NoSkill]
  /\ draft = skills
  /\ owner = [s \in Skills |-> NoInstance]
  /\ versions = [s \in Skills |-> [v \in Versions |-> NoContent]]
  /\ added = [i \in Instances |-> {}]
  /\ pc = [i \in Instances |-> "down"]
  /\ sync = [i \in Instances |-> NoSync]
  /\ binding = [r \in Runs |-> NoSkill]
  /\ overlapping = {}
  /\ lastSet = NoSet
  /\ starts = 0

Goto(i, statement) == pc' = [pc EXCEPT ![i] = statement]

(* What a SELECT of i returns: its own uncommitted rows and all committed ones.*)
Row(i, s) == IF owner[s] = i THEN draft[s] ELSE skills[s]
Content(i, s, v) ==
  IF \E new \in added[i] : new.skill = s /\ new.version = v
    THEN (CHOOSE new \in added[i] : new.skill = s /\ new.version = v).content
    ELSE versions[s][v]

Free(i, s) == owner[s] \in {i, NoInstance}

(* An UPDATE or INSERT of i on the row of s. *)
WriteRow(i, s, row) ==
  /\ draft' = [draft EXCEPT ![s] = row]
  /\ owner' = [owner EXCEPT ![s] = i]
  /\ UNCHANGED skills

------------------------------------------------------------------------------
(* Start-up: the files are loaded and validated, a transaction begins. *)

(* The history: two open start-ups have met. *)
Meet(i) ==
  LET others == {j \in Instances \ {i} : Syncing(j)} IN
  overlapping' = IF others = {} THEN overlapping \ {i} ELSE overlapping \cup others \cup {i}

(* lifespan up to sync_skill_definitions.  A set that does not validate raises *)
(* before the database is touched.                                             *)
Start(i) ==
  /\ pc[i] = "down"
  /\ starts < MaxStarts
  /\ starts' = starts + 1
  /\ \E set \in DefinitionSets :
       /\ Valid(set)
       /\ sync' = [sync EXCEPT ![i] = [set |-> set, left |-> DOMAIN set,
                                       turn |-> TurnByFile(DOMAIN set),
                                       changed |-> {}, seen |-> NoVersion]]
  /\ Goto(i, "select")
  /\ Meet(i)
  /\ UNCHANGED <<rows, versions, added, binding, lastSet>>

(* Mutants of Fail: the rows are not rolled back; they stay locked.            *)
FailWithoutUndo(i) ==
  /\ Syncing(i)
  /\ owner' = [s \in Skills |-> IF owner[s] = i THEN NoInstance ELSE owner[s]]
  /\ added' = [added EXCEPT ![i] = {}]
  /\ Goto(i, "down")
  /\ sync' = [sync EXCEPT ![i] = NoSync]
  /\ UNCHANGED <<skills, draft, versions, binding, history>>

FailKeepsLocks(i) ==
  /\ Syncing(i)
  /\ added' = [added EXCEPT ![i] = {}]
  /\ Goto(i, "down")
  /\ sync' = [sync EXCEPT ![i] = NoSync]
  /\ UNCHANGED <<rows, versions, binding, history>>

(* An exception rolls the transaction back and ends the process.               *)
Fail(i) ==
  /\ Syncing(i)
  /\ draft' = [s \in Skills |-> IF owner[s] = i THEN skills[s] ELSE draft[s]]
  /\ owner' = [s \in Skills |-> IF owner[s] = i THEN NoInstance ELSE owner[s]]
  /\ added' = [added EXCEPT ![i] = {}]
  /\ Goto(i, "down")
  /\ sync' = [sync EXCEPT ![i] = NoSync]
  /\ UNCHANGED <<skills, versions, binding, history>>

(* A ready instance ends: it is stopped or dies. *)
Stop(i) ==
  /\ pc[i] = "up"
  /\ Goto(i, "down")
  /\ sync' = [sync EXCEPT ![i] = NoSync]
  /\ UNCHANGED <<rows, versions, added, binding, history>>

------------------------------------------------------------------------------
(* upsert_metadata. *)

(* The columns of a loaded row that a definition changes. *)
Changed(row, content) ==
  (IF row.meta # content THEN {"meta"} ELSE {})
    \cup (IF row.enabled # Enabled(content) THEN {"enabled"} ELSE {})

SelectSkill(i) ==
  /\ pc[i] = "select"
  /\ LET row == Row(i, Skill(i)) IN
       \/ /\ row = NoSkill
          /\ Goto(i, "insert_skill")
          /\ UNCHANGED sync
       \/ /\ row # NoSkill
          /\ LET changed == Changed(row, Definition(i).content) IN
               /\ sync' = [sync EXCEPT ![i].changed = changed]
               /\ Goto(i, IF changed = {} THEN "refresh" ELSE "update_skill")
  /\ UNCHANGED <<rows, versions, added, binding, history>>

(* The unique skill_id: the INSERT waits for another one, and is refused when  *)
(* the row is there by now.                                                    *)
InsertSkill(i) ==
  /\ pc[i] = "insert_skill"
  /\ Free(i, Skill(i)) /\ skills[Skill(i)] = NoSkill
  /\ WriteRow(i, Skill(i), [meta |-> Definition(i).content,
                            enabled |-> Enabled(Definition(i).content),
                            default |-> NoVersion])
  /\ Goto(i, "refresh")
  /\ UNCHANGED <<versions, added, sync, binding, history>>

SkillExists(i) ==
  /\ pc[i] = "insert_skill"
  /\ Free(i, Skill(i)) /\ skills[Skill(i)] # NoSkill
  /\ Fail(i)

UpdateSkill(i) ==
  /\ pc[i] = "update_skill"
  /\ Free(i, Skill(i))
  /\ LET row == Row(i, Skill(i))
         new == Definition(i).content
     IN WriteRow(i, Skill(i),
          [meta |-> IF "meta" \in sync[i].changed THEN new ELSE row.meta,
           enabled |-> IF "enabled" \in sync[i].changed THEN Enabled(new) ELSE row.enabled,
           default |-> row.default])
  /\ sync' = [sync EXCEPT ![i].changed = {}]
  /\ Goto(i, "refresh")
  /\ UNCHANGED <<versions, added, binding, history>>

RefreshSkill(i) ==
  /\ pc[i] = "refresh"
  /\ sync' = [sync EXCEPT ![i].seen = Row(i, Skill(i)).default]
  /\ Goto(i, "version")
  /\ UNCHANGED <<rows, versions, added, binding, history>>

------------------------------------------------------------------------------
(* The version and the default. *)

(* Mutant of SelectVersion: a version that is there is reused unseen.          *)
ReuseVersion(i) ==
  /\ pc[i] = "version"
  /\ Goto(i, IF Content(i, Skill(i), Definition(i).version) = NoContent
               THEN "insert_version" ELSE "default")
  /\ UNCHANGED <<rows, versions, added, sync, binding, history>>

(* get_by_skill_and_version and the comparison of the hashes. *)
SelectVersion(i) ==
  /\ pc[i] = "version"
  /\ LET content == Content(i, Skill(i), Definition(i).version) IN
       \/ /\ content = NoContent
          /\ Goto(i, "insert_version")
       \/ /\ content = Definition(i).content
          /\ Goto(i, "default")
  /\ UNCHANGED <<rows, versions, added, sync, binding, history>>

(* SkillSyncError: the published version has another hash. *)
Tampered(i) ==
  /\ pc[i] = "version"
  /\ Content(i, Skill(i), Definition(i).version) \notin {NoContent, Definition(i).content}
  /\ Fail(i)

InsertedByOther(i) ==
  \E j \in Instances \ {i} : \E new \in added[j] :
    new.skill = Skill(i) /\ new.version = Definition(i).version

NewVersion(i) ==
  [skill |-> Skill(i), version |-> Definition(i).version, content |-> Definition(i).content]

(* Mutant of InsertVersion: (agent_skill_id, version) is not unique. *)
InsertVersionUnchecked(i) ==
  /\ pc[i] = "insert_version"
  /\ added' = [added EXCEPT ![i] = @ \cup {NewVersion(i)}]
  /\ Goto(i, "default")
  /\ UNCHANGED <<rows, versions, sync, binding, history>>

(* create_immutable, under the unique (agent_skill_id, version). *)
InsertVersion(i) ==
  /\ pc[i] = "insert_version"
  /\ ~ InsertedByOther(i)
  /\ versions[Skill(i)][Definition(i).version] = NoContent
  /\ added' = [added EXCEPT ![i] = @ \cup {NewVersion(i)}]
  /\ Goto(i, "default")
  /\ UNCHANGED <<rows, versions, sync, binding, history>>

VersionExists(i) ==
  /\ pc[i] = "insert_version"
  /\ ~ InsertedByOther(i)
  /\ versions[Skill(i)][Definition(i).version] # NoContent
  /\ Fail(i)

NextSkill(i) ==
  /\ LET left == sync[i].left \ {Skill(i)} IN
       sync' = [sync EXCEPT ![i] = [set |-> @.set, left |-> left, turn |-> TurnByFile(left),
                                    changed |-> @.changed, seen |-> NoVersion]]
  /\ Goto(i, IF sync[i].left = {Skill(i)} THEN "list" ELSE "select")

(* Mutant of SetDefault: an existing version leaves the default alone.         *)
SetDefaultOfNew(i) ==
  /\ pc[i] = "default"
  /\ \/ /\ NewVersion(i) \notin added[i]
        /\ UNCHANGED rows
     \/ /\ NewVersion(i) \in added[i]
        /\ Free(i, Skill(i))
        /\ WriteRow(i, Skill(i), [Row(i, Skill(i)) EXCEPT !.default = Definition(i).version])
  /\ NextSkill(i)
  /\ UNCHANGED <<versions, added, binding, history>>

(* set_default_version: no UPDATE when the loaded row has this default. *)
SetDefault(i) ==
  /\ pc[i] = "default"
  /\ \/ /\ sync[i].seen = Definition(i).version
        /\ UNCHANGED rows
     \/ /\ sync[i].seen # Definition(i).version
        /\ Free(i, Skill(i))
        /\ WriteRow(i, Skill(i), [Row(i, Skill(i)) EXCEPT !.default = Definition(i).version])
  /\ NextSkill(i)
  /\ UNCHANGED <<versions, added, binding, history>>

------------------------------------------------------------------------------
(* Skills without a file, and the commit. *)

Removed(i, s) ==
  /\ s \notin DOMAIN sync[i].set
  /\ Row(i, s) # NoSkill
  /\ Row(i, s).enabled

(* Only enabled skills are listed. *)
ListSkills(i) ==
  /\ pc[i] = "list"
  /\ LET removed == {s \in Skills : Removed(i, s)} IN
       /\ \E turn \in TurnsByName(removed) :
            sync' = [sync EXCEPT ![i] = [set |-> @.set, left |-> removed, turn |-> turn,
                                         changed |-> @.changed, seen |-> @.seen]]
       /\ Goto(i, IF removed = {} THEN "commit" ELSE "disable")
  /\ UNCHANGED <<rows, versions, added, binding, history>>

DisableSkill(i) ==
  /\ pc[i] = "disable"
  /\ Free(i, Skill(i))
  /\ WriteRow(i, Skill(i), [Row(i, Skill(i)) EXCEPT !.enabled = FALSE])
  /\ LET left == sync[i].left \ {Skill(i)} IN
       \E turn \in TurnsByName(left) :
         sync' = [sync EXCEPT ![i] = [set |-> @.set, left |-> left, turn |-> turn,
                                      changed |-> @.changed, seen |-> @.seen]]
  /\ Goto(i, IF sync[i].left = {Skill(i)} THEN "commit" ELSE "disable")
  /\ UNCHANGED <<versions, added, binding, history>>

(* The rows of i become the committed versions. *)
Publish(i) ==
  versions' = [s \in Skills |-> [v \in Versions |-> Content(i, s, v)]]

(* session.commit() and mark_ready. *)
Commit(i) ==
  /\ pc[i] = "commit"
  /\ skills' = [s \in Skills |-> Row(i, s)]
  /\ owner' = [s \in Skills |-> IF owner[s] = i THEN NoInstance ELSE owner[s]]
  /\ Publish(i)
  /\ added' = [added EXCEPT ![i] = {}]
  /\ Goto(i, "up")
  /\ lastSet' = IF i \in overlapping THEN NoSet ELSE sync[i].set
  /\ UNCHANGED <<draft, sync, binding, overlapping, starts>>

------------------------------------------------------------------------------
(* create_agent_run on a ready instance. *)

Selectable(s) == skills[s] # NoSkill /\ skills[s].enabled /\ skills[s].default # NoVersion

Unbound(s) == [skill |-> s, version |-> skills[s].default, content |-> NoContent]

(* select_skill reads the skill: the requested one or the default. *)
SelectForRun(r) ==
  /\ binding[r] = NoSkill
  /\ \E i \in Instances : pc[i] = "up"
  /\ \E s \in Skills :
       /\ Selectable(s)
       /\ binding' = [binding EXCEPT ![r] = Unbound(s)]
  /\ UNCHANGED <<rows, versions, added, pc, sync, history>>

(* It reads the version and create_binding stores a copy of its snapshot.      *)
BindRun(r) ==
  /\ binding[r] # NoSkill
  /\ binding[r].content = NoContent
  /\ versions[binding[r].skill][binding[r].version] # NoContent
  /\ binding' = [binding EXCEPT ![r].content = versions[binding[r].skill][binding[r].version]]
  /\ UNCHANGED <<rows, versions, added, pc, sync, history>>

------------------------------------------------------------------------------
(* Waiting, as in MemoryStore. *)

WaitsFor(i, j) ==
  /\ j # i
  /\ \/ /\ \/ pc[i] \in {"insert_skill", "update_skill", "disable"}
           \/ pc[i] = "default" /\ sync[i].seen # Definition(i).version
        /\ owner[Skill(i)] = j
     \/ /\ pc[i] = "insert_version"
        /\ \E new \in added[j] : new.skill = Skill(i) /\ new.version = Definition(i).version

Stuck(S) == S # {} /\ \A i \in S : \E j \in S : WaitsFor(i, j)
Cycle(S) == Stuck(S) /\ \A T \in SUBSET S : Stuck(T) => T = S

DeadlockVictim(i) ==
  /\ \E S \in SUBSET Instances : i \in S /\ Cycle(S)
  /\ Fail(i)

Statement(i) ==
  \/ SelectSkill(i) \/ InsertSkill(i) \/ SkillExists(i) \/ UpdateSkill(i) \/ RefreshSkill(i)
  \/ SelectVersion(i) \/ Tampered(i) \/ InsertVersion(i) \/ VersionExists(i) \/ SetDefault(i)
  \/ ListSkills(i) \/ DisableSkill(i) \/ Commit(i)

Next ==
  \/ \E i \in Instances :
       Start(i) \/ Statement(i) \/ Fail(i) \/ DeadlockVictim(i) \/ Stop(i)
  \/ \E r \in Runs : SelectForRun(r) \/ BindRun(r)

Spec == Init /\ [][Next]_vars

(* Statements are answered and the deadlock detector runs.                     *)
Fairness == \A i \in Instances : WF_vars(Statement(i)) /\ WF_vars(DeadlockVictim(i))

FairSpec == Spec /\ Fairness

------------------------------------------------------------------------------
Sync == [set : DefinitionSets \cup {NoSet}, left : SUBSET Skills, turn : Skills \cup {NoSkill},
         changed : SUBSET Columns, seen : Versions \cup {NoVersion}]

TypeOK ==
  /\ skills \in [Skills -> SkillRow \cup {NoSkill}]
  /\ draft \in [Skills -> SkillRow \cup {NoSkill}]
  /\ owner \in [Skills -> Instances \cup {NoInstance}]
  /\ versions \in [Skills -> [Versions -> Contents \cup {NoContent}]]
  /\ added \in [Instances -> SUBSET Version]
  /\ pc \in [Instances -> Statements]
  /\ sync \in [Instances -> Sync]
  /\ binding \in [Runs -> Binding \cup {NoSkill}]
  /\ overlapping \subseteq Instances
  /\ lastSet \in DefinitionSets \cup {NoSet}
  /\ starts \in 0 .. MaxStarts
  /\ \A s \in Skills : owner[s] = NoInstance => draft[s] = skills[s]

(* A published version keeps its content for ever, although instances with     *)
(* other files under the same version number start at the same time.           *)
PublishedNeverChanges ==
  [][\A s \in Skills, v \in Versions :
       versions[s][v] # NoContent => versions'[s][v] = versions[s][v]]_vars

(* A ready instance finds exactly the definitions it was deployed with, under  *)
(* their version numbers, whoever published them.                              *)
ReadyMeansPublished ==
  \A i \in Instances : pc[i] = "up" =>
    \A s \in DOMAIN sync[i].set :
      versions[s][sync[i].set[s].version] = sync[i].set[s].content

(* Once an instance has been ready the default skill can be resolved, also     *)
(* while others start: a request without a skill_id is never answered 503.     *)
DefaultSkillResolves ==
  (\E i \in Instances : pc[i] = "up") =>
    /\ Selectable(DefaultSkill)
    /\ versions[DefaultSkill][skills[DefaultSkill].default] # NoContent

(* A run's snapshot is the published content of the version it is bound to,    *)
(* whatever was published since: its memory policy can be looked up again.     *)
BindingsKeepTheirVersion ==
  \A r \in Runs : binding[r] # NoSkill =>
    \/ binding[r].content = NoContent
    \/ versions[binding[r].skill][binding[r].version] = binding[r].content

(* A start-up that met no other publishes its set and nothing else: its        *)
(* versions are the defaults with their metadata, every other skill is         *)
(* disabled.                                                                   *)
LastSetIsPublished ==
  lastSet # NoSet =>
    \A s \in Skills : skills[s] # NoSkill =>
      IF s \in DOMAIN lastSet
        THEN skills[s] = [meta |-> lastSet[s].content,
                          enabled |-> Enabled(lastSet[s].content),
                          default |-> lastSet[s].version]
        ELSE ~ skills[s].enabled

(* Every start-up ends, in a ready instance or a failed process.               *)
StartupsEnd == \A i \in Instances : Syncing(i) ~> ~ Syncing(i)
==============================================================================
