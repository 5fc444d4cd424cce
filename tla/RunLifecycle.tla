----------------------------- MODULE RunLifecycle -----------------------------
(***************************************************************************)
(* The life of an agent run: POST /api/agent/runs commits the run with its *)
(* skill binding and starts a task; MockAgentRunner.run walks through a    *)
(* fixed script, alternating commits of the run's row with commits of its  *)
(* events; an exception anywhere sends it to the except block, which marks *)
(* the run failed and publishes run.failed.                                *)
(*                                                                         *)
(* Every database operation may fail, and one that commits may fail after  *)
(* its commit took effect (the acknowledgement is lost, or the refresh     *)
(* that follows it raises).  The process may die between any two steps;    *)
(* the tables survive, the tasks do not, and nothing resumes them.  Runs   *)
(* share the long-term memory table, whose partial unique index refuses a  *)
(* second active memory of the same content.                               *)
(*                                                                         *)
(* An append is one step here (EventLog has its statements); what readers  *)
(* see of the log is in EventStream.                                       *)
(***************************************************************************)
EXTENDS Naturals, Sequences, FiniteSets

CONSTANTS Runs,        \* runs that clients create
          Contents,    \* identities (content hashes) a run may extract from its input
          NoContent,   \* the input yields no memory command
          MaxFaults,   \* bound: database operations that fail
          MaxCrashes   \* bound: deaths of the server process

ASSUME RunLifecycleAssumption ==
  NoContent \notin Contents /\ MaxFaults \in Nat /\ MaxCrashes \in Nat

VARIABLES pc,          \* pc[r]: where the creating request or the task of r stands
          step,        \* step[r]: the step of Steps its task executes next
          policy,      \* policy[r]: the memory_policy of r's definition_snapshot
          extract,     \* extract[r]: what the extractor finds in r's input
          row,         \* row[r]: status and filled columns of r in agent_runs
          log,         \* log[r]: r's runtime_events in sequence order
          memories,    \* active rows of agent_memories
          duplicate,   \* duplicate[r]: find_active_duplicate found the content
          faults, crashes

vars == <<pc, step, policy, extract, row, log, memories, duplicate, faults, crashes>>
input == <<policy, extract>>
tables == <<row, log, memories>>

(* A memory policy is the set of what it permits; write requires read. *)
Policies == {{}, {"read"}, {"read", "write"}}

------------------------------------------------------------------------------
(* The script of run(): one record per awaited operation, in program order.    *)
(* "needs" is the part of the memory policy that guards it, "status" the       *)
(* status an update sets or an event carries.                                  *)
Step(op, what, status, needs) ==
  [op |-> op, what |-> what, status |-> status, needs |-> needs]

Steps == <<
  Step("load",      "get_by_run_id",              "queued",    "always"),
  Step("publish",   "skill.matched",              "queued",    "always"),
  Step("update",    "row",                        "running",   "always"),
  Step("publish",   "run.started",                "running",   "always"),
  Step("publish",   "memory.retrieval.started",   "running",   "read"),
  Step("retrieve",  "touch_access",               "running",   "read"),
  Step("publish",   "memory.retrieval.completed", "running",   "read"),
  Step("publish",   "node.started",               "running",   "always"),
  Step("publish",   "message.delta",              "running",   "always"),
  Step("publish",   "message.delta",              "running",   "always"),
  Step("publish",   "node.completed",             "running",   "always"),
  Step("publish",   "memory.write.started",       "running",   "write"),
  Step("find",      "find_active_duplicate",      "running",   "write"),
  Step("insert",    "agent_memories",             "running",   "write"),
  Step("publish",   "memory.write.completed",     "running",   "write"),
  Step("update",    "row",                        "succeeded", "always"),
  Step("publish",   "run.completed",              "succeeded", "always") >>

LastStep == Len(Steps)

Needed(r, i) == Steps[i].needs \in policy[r] \cup {"always"}

(* The next operation the policy lets the task execute. *)
NextStep(r, j) ==
  /\ j \in step[r] + 1 .. LastStep
  /\ Needed(r, j)
  /\ \A k \in step[r] + 1 .. j - 1 : ~ Needed(r, k)

Columns == {"current_node", "final_output", "error_message", "total_tokens"}
Statuses == {"absent", "queued", "running", "succeeded", "failed"}
EventTypes == {Steps[i].what : i \in {j \in 1 .. LastStep : Steps[j].op = "publish"}}
                \cup {"run.failed"}
Event == [type : EventTypes, status : Statuses]
TerminalEventTypes == {"run.completed", "run.failed"}

Init ==
  /\ pc = [r \in Runs |-> "absent"]
  /\ step = [r \in Runs |-> 1]
  /\ policy = [r \in Runs |-> {}]
  /\ extract = [r \in Runs |-> NoContent]
  /\ row = [r \in Runs |-> [status |-> "absent", filled |-> {}]]
  /\ log = [r \in Runs |-> << >>]
  /\ memories = {}
  /\ duplicate = [r \in Runs |-> FALSE]
  /\ faults = 0 /\ crashes = 0

------------------------------------------------------------------------------
(* The repositories. *)

(* Mutant of UpdateState: a column that is not given keeps its value. *)
UpdateGivenOnly(r, status, given) ==
  row' = [row EXCEPT ![r] = [status |-> status, filled |-> given \cup @.filled]]

(* AgentRunRepository.update_state: status, node, output and error are all     *)
(* assigned, so a column that is not given is cleared; the token count is only *)
(* assigned when it is given.                                                  *)
UpdateState(r, status, given) ==
  row' = [row EXCEPT ![r] =
            [status |-> status,
             filled |-> given \cup (@.filled \cap {"total_tokens"})]]

(* RuntimeEventRepository.append. *)
AppendEvent(r, type, status) ==
  log' = [log EXCEPT ![r] = Append(@, [type |-> type, status |-> status])]

SomeMemory(content) == \E m \in memories : m.content = content

(* Mutant of Inserts: no early return when the extractor found nothing. *)
InsertsAlways(r) == ~ duplicate[r]

(* The INSERT and the commit of the batch; nothing when the extractor found    *)
(* nothing or the content is already remembered.                               *)
Inserts(r) == extract[r] # NoContent /\ ~ duplicate[r]

Given(status) ==
  IF status = "running" THEN {"current_node"} ELSE {"final_output", "total_tokens"}

(* What the current step of r does to the database when it commits. *)
Publish(r) ==
  /\ Steps[step[r]].op = "publish"
  /\ AppendEvent(r, Steps[step[r]].what, Steps[step[r]].status)
  /\ UNCHANGED <<row, memories, duplicate>>

Update(r) ==
  /\ Steps[step[r]].op = "update"
  /\ UpdateState(r, Steps[step[r]].status, Given(Steps[step[r]].status))
  /\ UNCHANGED <<log, memories, duplicate>>

FindDuplicate(r) ==
  /\ Steps[step[r]].op = "find"
  /\ duplicate' = [duplicate EXCEPT ![r] = SomeMemory(extract[r])]
  /\ UNCHANGED tables

(* Mutant of InsertMemory: the table has no unique index. *)
InsertMemoryUnchecked(r) ==
  /\ Steps[step[r]].op = "insert"
  /\ IF Inserts(r)
       THEN memories' = memories \cup {[content |-> extract[r], source |-> r]}
       ELSE UNCHANGED memories
  /\ UNCHANGED <<row, log, duplicate>>

InsertMemory(r) ==
  /\ Steps[step[r]].op = "insert"
  /\ IF Inserts(r)
       THEN /\ ~ SomeMemory(extract[r])
            /\ memories' = memories \cup {[content |-> extract[r], source |-> r]}
       ELSE UNCHANGED memories
  /\ UNCHANGED <<row, log, duplicate>>

(* Reads, and the access counters of retrieved memories, which are not modelled. *)
ReadOnly(r) ==
  /\ Steps[step[r]].op \in {"load", "retrieve"}
  /\ UNCHANGED <<tables, duplicate>>

Effect(r) ==
  \/ Publish(r)
  \/ Update(r)
  \/ FindDuplicate(r)
  \/ InsertMemory(r)
  \/ ReadOnly(r)

------------------------------------------------------------------------------
(* The request handler. *)

(* create_agent_run commits the run together with its binding. *)
CreateRun(r) ==
  /\ pc[r] = "absent"
  /\ pc' = [pc EXCEPT ![r] = "committed"]
  /\ \E p \in Policies, c \in Contents \cup {NoContent} :
       /\ policy' = [policy EXCEPT ![r] = p]
       /\ extract' = [extract EXCEPT ![r] = c]
  /\ row' = [row EXCEPT ![r].status = "queued"]
  /\ UNCHANGED <<step, log, memories, duplicate, faults, crashes>>

(* mock_agent_runner.start. *)
StartRunner(r) ==
  /\ pc[r] = "committed"
  /\ pc' = [pc EXCEPT ![r] = "step"]
  /\ UNCHANGED <<step, input, tables, duplicate, faults, crashes>>

(* session.refresh(run) raises after the commit: the client gets a 500 and no  *)
(* task is started for the queued run.                                         *)
StartFails(r) ==
  /\ pc[r] = "committed"
  /\ faults < MaxFaults
  /\ faults' = faults + 1
  /\ pc' = [pc EXCEPT ![r] = "orphan"]
  /\ UNCHANGED <<step, input, tables, duplicate, crashes>>

------------------------------------------------------------------------------
(* The task: the try block. *)

Advance(r) ==
  \/ /\ step[r] = LastStep
     /\ pc' = [pc EXCEPT ![r] = "done"]
     /\ UNCHANGED step
  \/ \E j \in 1 .. LastStep :
       /\ NextStep(r, j)
       /\ step' = [step EXCEPT ![r] = j]
       /\ UNCHANGED pc

Complete(r) ==
  /\ pc[r] = "step"
  /\ Effect(r)
  /\ Advance(r)
  /\ UNCHANGED <<input, faults, crashes>>

(* Mutant of Interrupt: a failed operation is retried. *)
RetryStep(r) == UNCHANGED <<pc, step>>

(* The exception leaves the try block. *)
Interrupt(r) ==
  /\ pc' = [pc EXCEPT ![r] = "handle_update"]
  /\ UNCHANGED step

(* The operation raises and its transaction is rolled back. *)
Raise(r) ==
  /\ pc[r] = "step"
  /\ faults < MaxFaults
  /\ faults' = faults + 1
  /\ Interrupt(r)
  /\ UNCHANGED <<input, tables, duplicate, crashes>>

(* The operation raises although its commit took effect. *)
RaiseAfterCommit(r) ==
  /\ pc[r] = "step"
  /\ Steps[step[r]].op \in {"publish", "update", "insert"}
  /\ faults < MaxFaults
  /\ faults' = faults + 1
  /\ Effect(r)
  /\ Interrupt(r)
  /\ UNCHANGED <<input, crashes>>

(* IntegrityError: another transaction committed the content between this      *)
(* task's duplicate check and its insert.                                      *)
InsertRefused(r) ==
  /\ pc[r] = "step"
  /\ Steps[step[r]].op = "insert"
  /\ Inserts(r) /\ SomeMemory(extract[r])
  /\ Interrupt(r)
  /\ UNCHANGED <<input, tables, duplicate, faults, crashes>>

------------------------------------------------------------------------------
(* The task: the except block, in a session of its own. *)

(* Mutants: the handler only publishes, or only updates. *)
HandleUpdateSkipped(r) ==
  /\ pc[r] = "handle_update"
  /\ pc' = [pc EXCEPT ![r] = "handle_publish"]
  /\ UNCHANGED <<step, input, tables, duplicate, faults, crashes>>

HandlePublishSkipped(r) ==
  /\ pc[r] = "handle_publish"
  /\ pc' = [pc EXCEPT ![r] = "done"]
  /\ UNCHANGED <<step, input, tables, duplicate, faults, crashes>>

(* update_state(failed). *)
HandleUpdate(r) ==
  /\ pc[r] = "handle_update"
  /\ UpdateState(r, "failed", {"error_message"})
  /\ pc' = [pc EXCEPT ![r] = "handle_publish"]
  /\ UNCHANGED <<step, input, log, memories, duplicate, faults, crashes>>

(* _publish_event(run.failed). *)
HandlePublish(r) ==
  /\ pc[r] = "handle_publish"
  /\ AppendEvent(r, "run.failed", "failed")
  /\ pc' = [pc EXCEPT ![r] = "done"]
  /\ UNCHANGED <<step, input, row, memories, duplicate, faults, crashes>>

(* A second exception leaves the except block and ends the task; the commit it *)
(* interrupted may have taken effect.                                          *)
HandleFails(r) ==
  /\ pc[r] \in {"handle_update", "handle_publish"}
  /\ faults < MaxFaults
  /\ faults' = faults + 1
  /\ pc' = [pc EXCEPT ![r] = "dead"]
  /\ \/ UNCHANGED <<row, log>>
     \/ pc[r] = "handle_update" /\ UpdateState(r, "failed", {"error_message"}) /\ UNCHANGED log
     \/ pc[r] = "handle_publish" /\ AppendEvent(r, "run.failed", "failed") /\ UNCHANGED row
  /\ UNCHANGED <<step, input, memories, duplicate, crashes>>

------------------------------------------------------------------------------
(* The process dies or is stopped.  A cancelled task does not enter the except *)
(* block, which catches Exception only, and start-up resumes no run.           *)
InMemory == {"committed", "step", "handle_update", "handle_publish"}

Crash ==
  /\ crashes < MaxCrashes
  /\ crashes' = crashes + 1
  /\ pc' = [r \in Runs |-> IF pc[r] \in InMemory THEN "lost" ELSE pc[r]]
  /\ UNCHANGED <<step, input, tables, duplicate, faults>>

Task(r) == StartRunner(r) \/ Complete(r) \/ InsertRefused(r) \/ HandleUpdate(r) \/ HandlePublish(r)

Next ==
  \/ \E r \in Runs :
       \/ CreateRun(r)
       \/ StartFails(r)
       \/ Task(r)
       \/ Raise(r)
       \/ RaiseAfterCommit(r)
       \/ HandleFails(r)
  \/ Crash

Spec == Init /\ [][Next]_vars

(* The event loop keeps running every task that is ready. *)
FairSpec == Spec /\ \A r \in Runs : WF_vars(Task(r))

------------------------------------------------------------------------------
TypeOK ==
  /\ pc \in [Runs -> InMemory \cup {"absent", "orphan", "done", "dead", "lost"}]
  /\ step \in [Runs -> 1 .. LastStep]
  /\ policy \in [Runs -> SUBSET {"read", "write"}]
  /\ extract \in [Runs -> Contents \cup {NoContent}]
  /\ row \in [Runs -> [status : Statuses, filled : SUBSET Columns]]
  /\ log \in [Runs -> Seq(Event)]
  /\ memories \subseteq [content : Contents, source : Runs]
  /\ duplicate \in [Runs -> BOOLEAN]
  /\ faults \in Nat /\ crashes \in Nat

Has(r, type) == \E i \in DOMAIN log[r] : log[r][i].type = type
Ended(r) == \E i \in DOMAIN log[r] : log[r][i].type \in TerminalEventTypes

(* The steps that publish an event of r when nothing fails, under its memory   *)
(* policy, and the place of such an event among them.                          *)
Scripted(r, i) == Steps[i].op = "publish" /\ Needed(r, i)
Place(r, i) == Cardinality({j \in 1 .. i : Scripted(r, j)})

(* Whatever failed wherever, a log is a beginning of the sequence that         *)
(* MockAgentRunner.run publishes for the run's policy when nothing fails (the  *)
(* API test lists it), possibly closed by one run.failed: skill.matched is     *)
(* always first, nothing is skipped, repeated or reordered.  It is not the     *)
(* sequence of the P6 design (README, section 6).                              *)
EventsFollowScript ==
  \A r \in Runs :
    LET n == Len(log[r])
        m == IF Has(r, "run.failed") THEN n - 1 ELSE n
    IN  /\ m <= Place(r, LastStep)
        /\ \A i \in 1 .. LastStep : Scripted(r, i) /\ Place(r, i) <= m =>
             log[r][Place(r, i)].type = Steps[i].what
        /\ m < n => log[r][n].type = "run.failed"

(* An event carries the status that agent_runs holds for its run when the      *)
(* event is committed, although row and event are two commits.  The row may    *)
(* change afterwards, from succeeded to failed too (TerminalStatusIsFinal).    *)
EventStatusIsCurrent ==
  [][\A r \in Runs : log'[r] # log[r] => log'[r][Len(log'[r])].status = row[r].status]_vars

(* A task that ends by itself leaves a log closed by a terminal event that     *)
(* agrees with the row.                                                        *)
FinishedRunsAgree ==
  \A r \in Runs : pc[r] = "done" =>
    /\ log[r] # << >>
    /\ log[r][Len(log[r])].type \in TerminalEventTypes
    /\ log[r][Len(log[r])].status = row[r].status

(* final_output belongs to succeeded runs, error_message to failed ones, and a *)
(* run that is over has no current node, also when success turned to failure.  *)
RowConsistent ==
  \A r \in Runs :
    /\ "final_output" \in row[r].filled <=> row[r].status = "succeeded"
    /\ "error_message" \in row[r].filled <=> row[r].status = "failed"
    /\ "current_node" \in row[r].filled <=> row[r].status = "running"

(* Consolidation: at most one memory per run, only where the policy permits    *)
(* writing and the stream announced it, and never two of the same content.     *)
MemoriesConsolidated ==
  /\ \A m, n \in memories : m.content = n.content \/ m.source = n.source => m = n
  /\ \A m \in memories : "write" \in policy[m.source] /\ Has(m.source, "memory.write.started")

(* A task that runs to one of its ends reaches a terminal event, unless its    *)
(* own error handling failed or the process died.                              *)
StartedRunsEnd ==
  \A r \in Runs : pc[r] = "step" ~> Ended(r) \/ pc[r] \in {"dead", "lost"}

------------------------------------------------------------------------------
(* What a comment says and the code does not do. *)

(* queued -> running -> succeeded / failed: the end states are final. *)
TerminalStatusIsFinal ==
  [][\A r \in Runs : row[r].status \in {"succeeded", "failed"} =>
       row'[r].status = row[r].status]_vars
==============================================================================
