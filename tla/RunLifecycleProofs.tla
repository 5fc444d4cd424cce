-------------------------- MODULE RunLifecycleProofs --------------------------
(***************************************************************************)
(* Proofs about RunLifecycle for every set of runs and contents and any    *)
(* number of faults and crashes.                                           *)
(*                                                                         *)
(* Row and event of one transition are committed separately, so what the   *)
(* events say of the row holds only because of the order in which run()    *)
(* performs them.  RunInv ties the row's status to the position of the     *)
(* task: to the step it executes next, or to its place in the except       *)
(* block.  MemoryInv adds what a task has announced and may own at its     *)
(* step, and ScriptInv that its log is the part of the script before it.   *)
(***************************************************************************)
EXTENDS RunLifecycle, FiniteSetTheorems, SequenceTheorems, TLAPS

(* The status agent_runs holds when the task is about to execute step i. *)
StatusBefore(i) ==
  IF i <= 3 THEN "queued" ELSE IF i <= 16 THEN "running" ELSE "succeeded"

StatusFollowsTask(r) ==
  /\ pc[r] = "absent" => row[r].status = "absent" /\ step[r] = 1
  /\ pc[r] = "committed" => row[r].status = "queued" /\ step[r] = 1
  /\ pc[r] = "step" => row[r].status = StatusBefore(step[r])
  /\ pc[r] = "handle_publish" => row[r].status = "failed"

Finished(r) ==
  pc[r] = "done" =>
    /\ log[r] # << >>
    /\ log[r][Len(log[r])].type \in TerminalEventTypes
    /\ log[r][Len(log[r])].status = row[r].status

RowIsConsistent(r) ==
  /\ "final_output" \in row[r].filled <=> row[r].status = "succeeded"
  /\ "error_message" \in row[r].filled <=> row[r].status = "failed"
  /\ "current_node" \in row[r].filled <=> row[r].status = "running"

RunInv ==
  \A r \in Runs : StatusFollowsTask(r) /\ Finished(r) /\ RowIsConsistent(r)

(* A run that may write is between its announcement and its insert, and the    *)
(* only memory it can own is the one it inserts at step 14.                    *)
Consolidating(r) ==
  /\ pc[r] = "step" => Needed(r, step[r])
  /\ pc[r] = "step" /\ step[r] \in 13 .. 15 => Has(r, "memory.write.started")
  /\ \A m \in memories : m.source = r => /\ pc[r] \notin {"absent", "committed"}
                                         /\ pc[r] = "step" => step[r] > 14

MemoryInv ==
  /\ MemoriesConsolidated
  /\ \A r \in Runs : Consolidating(r)

------------------------------------------------------------------------------
(* The script, step by step: an event carries the status that precedes it, an  *)
(* update produces the status that follows it, nothing else is between.        *)
StepFacts(i) ==
  /\ Steps[i].op = "publish" => Steps[i].status = StatusBefore(i)
  /\ Steps[i].op = "update" => /\ i \in {3, 16}
                               /\ Steps[i].status = StatusBefore(i + 1)
                               /\ Steps[i].status \in {"running", "succeeded"}
  /\ i \in {3, 16} => Steps[i].op = "update" /\ Steps[i].needs = "always"
  /\ i = 17 => /\ Steps[i].op = "publish" /\ Steps[i].needs = "always"
               /\ Steps[i].what = "run.completed"
  /\ Steps[i].op \in {"insert", "find"} => Steps[i].needs = "write"
  /\ Steps[i].op = "insert" => i = 14
  /\ i = 12 => Steps[i].op = "publish" /\ Steps[i].what = "memory.write.started"
  /\ Steps[i].needs = "write" <=> i \in 12 .. 15
  /\ i = 1 => Steps[i].needs = "always"
  /\ Steps[i].status \in Statuses

LEMMA ScriptFacts ==
  /\ LastStep = 17
  /\ \A i \in 1 .. 17 : StepFacts(i)
<1>1. LastStep = 17
  BY DEF LastStep, Steps, Step
<1>2. ASSUME NEW i \in 1 .. 17
      PROVE  StepFacts(i)
  BY DEF StepFacts, Steps, Step, StatusBefore, Statuses
<1> QED
  BY <1>1, <1>2

LEMMA LastOfAppend ==
  ASSUME NEW S, NEW s \in Seq(S), NEW e \in S
  PROVE  Append(s, e) # << >> /\ Append(s, e)[Len(Append(s, e))] = e
OBVIOUS

LEMMA AppendKeeps ==
  ASSUME NEW S, NEW s \in Seq(S), NEW e \in S, NEW i \in DOMAIN s
  PROVE  i \in DOMAIN Append(s, e) /\ Append(s, e)[i] = s[i]
OBVIOUS

LEMMA EventTypeFacts ==
  ASSUME NEW i \in 1 .. 17, Steps[i].op = "publish"
  PROVE  Steps[i].what \in EventTypes
BY ScriptFacts DEF EventTypes

------------------------------------------------------------------------------
(* Typing. *)

(* What a step of the script writes has the declared types, whether the task   *)
(* goes on afterwards or an exception follows.                                 *)
LEMMA EffectType ==
  ASSUME TypeOK, NEW r \in Runs, Effect(r)
  PROVE  /\ row' \in [Runs -> [status : Statuses, filled : SUBSET Columns]]
         /\ log' \in [Runs -> Seq(Event)]
         /\ memories' \subseteq [content : Contents, source : Runs]
         /\ duplicate' \in [Runs -> BOOLEAN]
<1>0. step[r] \in 1 .. 17 /\ StepFacts(step[r])
  BY ScriptFacts DEF TypeOK
<1>1. CASE Publish(r)
  <2>1. Steps[step[r]].what \in EventTypes /\ Steps[step[r]].status \in Statuses
    BY <1>0, <1>1, EventTypeFacts DEF Publish, StepFacts
  <2>2. [type |-> Steps[step[r]].what, status |-> Steps[step[r]].status] \in Event
    BY <2>1 DEF Event
  <2>3. log' \in [Runs -> Seq(Event)]
    BY <1>1, <2>2 DEF Publish, AppendEvent, TypeOK
  <2> QED
    BY <1>1, <2>3 DEF Publish, TypeOK
<1>2. CASE Update(r)
  <2>1. Steps[step[r]].status \in Statuses
    BY <1>0 DEF StepFacts
  <2>2. Given(Steps[step[r]].status) \subseteq Columns
    BY DEF Given, Columns
  <2>3. row' \in [Runs -> [status : Statuses, filled : SUBSET Columns]]
    BY <1>2, <2>1, <2>2 DEF Update, UpdateState, TypeOK
  <2> QED
    BY <1>2, <2>3 DEF Update, TypeOK
<1>3. CASE FindDuplicate(r)
  BY <1>3 DEF FindDuplicate, SomeMemory, tables, TypeOK
<1>4. CASE InsertMemory(r)
  BY <1>4 DEF InsertMemory, Inserts, TypeOK
<1>5. CASE ReadOnly(r)
  BY <1>5 DEF ReadOnly, tables, TypeOK
<1> QED
  BY <1>1, <1>2, <1>3, <1>4, <1>5 DEF Effect

LEMMA TypeInit == Init => TypeOK
BY ScriptFacts DEF Init, TypeOK, InMemory, Statuses, Columns

LEMMA TypeNext == TypeOK /\ [Next]_vars => TypeOK'
<1> SUFFICES ASSUME TypeOK, [Next]_vars
             PROVE  TypeOK'
  OBVIOUS
<1> USE DEF input, tables
<1>1. ASSUME NEW r \in Runs, CreateRun(r)
      PROVE  TypeOK'
  <2>1. row' \in [Runs -> [status : Statuses, filled : SUBSET Columns]]
    <3>1. row[r] \in [status : Statuses, filled : SUBSET Columns]
      BY DEF TypeOK
    <3>2. [row[r] EXCEPT !.status = "queued"] \in [status : Statuses, filled : SUBSET Columns]
      BY <3>1 DEF Statuses
    <3>3. row' = [row EXCEPT ![r] = [row[r] EXCEPT !.status = "queued"]]
      BY <1>1 DEF CreateRun, TypeOK
    <3> QED
      BY <3>2, <3>3 DEF TypeOK
  <2>2. policy' \in [Runs -> SUBSET {"read", "write"}] /\ extract' \in [Runs -> Contents \cup {NoContent}]
    BY <1>1 DEF CreateRun, TypeOK, Policies
  <2> QED
    BY <1>1, <2>1, <2>2 DEF CreateRun, TypeOK, InMemory
<1>2. ASSUME NEW r \in Runs, StartFails(r)
      PROVE  TypeOK'
  BY <1>2 DEF StartFails, TypeOK
<1>3. ASSUME NEW r \in Runs, StartRunner(r)
      PROVE  TypeOK'
  BY <1>3 DEF StartRunner, TypeOK, InMemory
<1>4. ASSUME NEW r \in Runs, Complete(r)
      PROVE  TypeOK'
  <2>1. /\ step' \in [Runs -> 1 .. LastStep]
        /\ pc' \in [Runs -> InMemory \cup {"absent", "orphan", "done", "dead", "lost"}]
    BY <1>4 DEF Complete, Advance, TypeOK
  <2> QED
    BY <1>4, <2>1, EffectType DEF Complete, TypeOK
<1>5. ASSUME NEW r \in Runs, InsertRefused(r)
      PROVE  TypeOK'
  BY <1>5 DEF InsertRefused, Interrupt, TypeOK, InMemory
<1>6. ASSUME NEW r \in Runs, HandleUpdate(r)
      PROVE  TypeOK'
  BY <1>6 DEF HandleUpdate, UpdateState, TypeOK, InMemory, Statuses, Columns
<1>7. ASSUME NEW r \in Runs, HandlePublish(r)
      PROVE  TypeOK'
  <2>1. [type |-> "run.failed", status |-> "failed"] \in Event
    BY DEF Event, EventTypes, Statuses
  <2> QED
    BY <1>7, <2>1 DEF HandlePublish, AppendEvent, TypeOK, InMemory
<1>8. ASSUME NEW r \in Runs, Raise(r)
      PROVE  TypeOK'
  BY <1>8 DEF Raise, Interrupt, TypeOK, InMemory
<1>9. ASSUME NEW r \in Runs, RaiseAfterCommit(r)
      PROVE  TypeOK'
  <2>1. pc' \in [Runs -> InMemory \cup {"absent", "orphan", "done", "dead", "lost"}]
    BY <1>9 DEF RaiseAfterCommit, Interrupt, TypeOK, InMemory
  <2> QED
    BY <1>9, <2>1, EffectType DEF RaiseAfterCommit, Interrupt, TypeOK
<1>10. ASSUME NEW r \in Runs, HandleFails(r)
       PROVE  TypeOK'
  <2>1. [type |-> "run.failed", status |-> "failed"] \in Event
    BY DEF Event, EventTypes, Statuses
  <2>2. row' \in [Runs -> [status : Statuses, filled : SUBSET Columns]]
    <3>1. CASE UNCHANGED row
      BY <3>1 DEF TypeOK
    <3>2. CASE UpdateState(r, "failed", {"error_message"})
      BY <3>2 DEF UpdateState, TypeOK, Statuses, Columns
    <3> QED
      BY <1>10, <3>1, <3>2 DEF HandleFails
  <2>3. log' \in [Runs -> Seq(Event)]
    <3>1. CASE UNCHANGED log
      BY <3>1 DEF TypeOK
    <3>2. CASE AppendEvent(r, "run.failed", "failed")
      BY <2>1, <3>2 DEF AppendEvent, TypeOK
    <3> QED
      BY <1>10, <3>1, <3>2 DEF HandleFails
  <2>4. /\ pc' = [pc EXCEPT ![r] = "dead"] /\ faults' = faults + 1
        /\ UNCHANGED <<step, input, memories, duplicate, crashes>>
    BY <1>10 DEF HandleFails
  <2> QED
    BY <2>2, <2>3, <2>4 DEF TypeOK
<1>11. CASE Crash
  BY <1>11 DEF Crash, TypeOK, InMemory
<1>12. CASE UNCHANGED vars
  BY <1>12 DEF vars, TypeOK
<1> QED
  BY <1>1, <1>2, <1>3, <1>4, <1>5, <1>6, <1>7, <1>8, <1>9, <1>10, <1>11, <1>12
     DEF Next, Task

(* Every variable keeps its type: in particular only steps of the script are   *)
(* ever executed and only known event types and columns are ever written.      *)
THEOREM TypeCorrect == Spec => []TypeOK
BY TypeInit, TypeNext, PTL DEF Spec

------------------------------------------------------------------------------
(* Status. *)

(* Publishing leaves the row alone and carries its status; only the two        *)
(* updates of the script move the status, to what the next step expects.       *)
LEMMA EffectStatus ==
  ASSUME TypeOK, RunInv, NEW r \in Runs, pc[r] = "step", Effect(r)
  PROVE  /\ \A q \in Runs \ {r} : row'[q] = row[q] /\ log'[q] = log[q]
         /\ row'[r].status = StatusBefore(step[r] + 1)
         /\ RowIsConsistent(r)'
         /\ step[r] = 17 => /\ log'[r] # << >>
                            /\ log'[r][Len(log'[r])].type \in TerminalEventTypes
                            /\ log'[r][Len(log'[r])].status = row'[r].status
<1>0. /\ step[r] \in 1 .. 17 /\ StepFacts(step[r])
      /\ row[r].status = StatusBefore(step[r]) /\ RowIsConsistent(r)
  BY ScriptFacts DEF TypeOK, RunInv, StatusFollowsTask
<1>1. CASE Publish(r)
  <2>1. row' = row /\ step[r] \notin {3, 16}
    BY <1>0, <1>1 DEF Publish, StepFacts
  <2>2. StatusBefore(step[r] + 1) = StatusBefore(step[r])
    BY <1>0, <2>1 DEF StatusBefore
  <2>3. /\ log'[r] = Append(log[r], [type |-> Steps[step[r]].what, status |-> Steps[step[r]].status])
        /\ \A q \in Runs \ {r} : log'[q] = log[q]
    BY <1>1 DEF Publish, AppendEvent, TypeOK
  <2>4. /\ log'[r] # << >>
        /\ log'[r][Len(log'[r])] = [type |-> Steps[step[r]].what, status |-> Steps[step[r]].status]
    <3>1. [type |-> Steps[step[r]].what, status |-> Steps[step[r]].status] \in Event
      BY <1>0, <1>1, EventTypeFacts DEF Publish, StepFacts, Event
    <3>2. log[r] \in Seq(Event)
      BY DEF TypeOK
    <3> QED
      BY <2>3, <3>1, <3>2, LastOfAppend
  <2>5. step[r] = 17 => /\ log'[r][Len(log'[r])].type \in TerminalEventTypes
                        /\ log'[r][Len(log'[r])].status = row'[r].status
    BY <1>0, <1>1, <2>1, <2>4 DEF StepFacts, Publish, TerminalEventTypes
  <2>6. RowIsConsistent(r)'
    BY <1>0, <2>1 DEF RowIsConsistent
  <2> QED
    BY <1>0, <2>1, <2>2, <2>3, <2>4, <2>5, <2>6
<1>2. CASE Update(r)
  <2>1. /\ step[r] \in {3, 16}
        /\ Steps[step[r]].status = StatusBefore(step[r] + 1)
        /\ Steps[step[r]].status \in {"running", "succeeded"}
    BY <1>0, <1>2 DEF Update, StepFacts
  <2>2. /\ row'[r] = [status |-> Steps[step[r]].status,
                      filled |-> Given(Steps[step[r]].status) \cup (row[r].filled \cap {"total_tokens"})]
        /\ \A q \in Runs \ {r} : row'[q] = row[q]
        /\ log' = log
    BY <1>2 DEF Update, UpdateState, TypeOK
  <2>3. RowIsConsistent(r)'
    BY <2>1, <2>2 DEF RowIsConsistent, Given
  <2> QED
    BY <2>1, <2>2, <2>3
<1>3. CASE FindDuplicate(r) \/ InsertMemory(r) \/ ReadOnly(r)
  <2>1. row' = row /\ log' = log /\ step[r] \notin {3, 16, 17}
    <3>1. row' = row /\ log' = log
      BY <1>3 DEF FindDuplicate, InsertMemory, ReadOnly, tables
    <3>2. Steps[step[r]].op \notin {"publish", "update"}
      <4>1. CASE FindDuplicate(r)
        BY <4>1 DEF FindDuplicate
      <4>2. CASE InsertMemory(r)
        BY <4>2 DEF InsertMemory
      <4>3. CASE ReadOnly(r)
        BY <4>3 DEF ReadOnly
      <4> QED
        BY <1>3, <4>1, <4>2, <4>3
    <3> QED
      BY <1>0, <3>1, <3>2 DEF StepFacts
  <2>2. StatusBefore(step[r] + 1) = StatusBefore(step[r])
    BY <1>0, <2>1 DEF StatusBefore
  <2> QED
    BY <1>0, <2>1, <2>2 DEF RowIsConsistent
<1> QED
  BY <1>1, <1>2, <1>3 DEF Effect

(* The steps a memory policy skips lie between the two updates. *)
LEMMA SkippingKeepsStatus ==
  ASSUME TypeOK, NEW r \in Runs, NEW j \in 1 .. LastStep, NextStep(r, j)
  PROVE  StatusBefore(j) = StatusBefore(step[r] + 1)
<1>1. Needed(r, 3) /\ Needed(r, 16) /\ step[r] \in 1 .. 17 /\ j \in step[r] + 1 .. 17
  BY ScriptFacts DEF StepFacts, Needed, NextStep, TypeOK
<1>2. \A k \in {3, 16} : ~ (step[r] + 1 <= k /\ k <= j - 1)
  BY <1>1 DEF NextStep
<1> QED
  BY <1>1, <1>2 DEF StatusBefore

LEMMA RunInvInit == Init => RunInv
BY DEF Init, RunInv, StatusFollowsTask, Finished, RowIsConsistent

(* What one run's step leaves alone about the others. *)
LEMMA OthersKeepInv ==
  ASSUME RunInv, NEW q \in Runs,
         pc'[q] = pc[q], step'[q] = step[q], row'[q] = row[q], log'[q] = log[q]
  PROVE  StatusFollowsTask(q)' /\ Finished(q)' /\ RowIsConsistent(q)'
BY DEF RunInv, StatusFollowsTask, Finished, RowIsConsistent

LEMMA RunInvNext == TypeOK /\ RunInv /\ [Next]_vars => RunInv'
<1> SUFFICES ASSUME TypeOK, RunInv, [Next]_vars
             PROVE  RunInv'
  OBVIOUS
<1> USE DEF input, tables
<1>1. ASSUME NEW r \in Runs, CreateRun(r)
      PROVE  RunInv'
  <2>1. /\ pc' = [pc EXCEPT ![r] = "committed"] /\ pc[r] = "absent"
        /\ row' = [row EXCEPT ![r] = [row[r] EXCEPT !.status = "queued"]]
        /\ UNCHANGED <<step, log>>
    BY <1>1 DEF CreateRun, TypeOK
  <2>2. row[r] = [status |-> "absent", filled |-> row[r].filled] /\ RowIsConsistent(r) /\ step[r] = 1
    BY <2>1 DEF RunInv, StatusFollowsTask, TypeOK
  <2>3. row'[r] = [status |-> "queued", filled |-> row[r].filled] /\ pc'[r] = "committed"
    BY <2>1, <2>2 DEF TypeOK
  <2>4. StatusFollowsTask(r)' /\ Finished(r)' /\ RowIsConsistent(r)'
    BY <2>1, <2>2, <2>3 DEF StatusFollowsTask, Finished, RowIsConsistent
  <2>5. ASSUME NEW q \in Runs \ {r}
        PROVE  StatusFollowsTask(q)' /\ Finished(q)' /\ RowIsConsistent(q)'
    BY <2>1, OthersKeepInv DEF TypeOK
  <2> QED
    BY <2>4, <2>5 DEF RunInv
<1>2. ASSUME NEW r \in Runs, StartFails(r) \/ StartRunner(r) \/ Raise(r) \/ InsertRefused(r)
      PROVE  RunInv'
  <2>1. /\ UNCHANGED <<step, row, log>>
        /\ \A q \in Runs \ {r} : pc'[q] = pc[q]
        /\ \/ pc[r] = "committed" /\ pc'[r] \in {"orphan", "step"}
           \/ pc'[r] = "handle_update"
    BY <1>2 DEF StartFails, StartRunner, Raise, InsertRefused, Interrupt, TypeOK
  <2>2. StatusFollowsTask(r)' /\ Finished(r)' /\ RowIsConsistent(r)'
    BY <2>1 DEF RunInv, StatusFollowsTask, StatusBefore, Finished, RowIsConsistent
  <2>3. ASSUME NEW q \in Runs \ {r}
        PROVE  StatusFollowsTask(q)' /\ Finished(q)' /\ RowIsConsistent(q)'
    BY <2>1, OthersKeepInv
  <2> QED
    BY <2>2, <2>3 DEF RunInv
<1>3. ASSUME NEW r \in Runs, Complete(r)
      PROVE  RunInv'
  <2>1. pc[r] = "step" /\ Effect(r) /\ Advance(r)
    BY <1>3 DEF Complete
  <2>2. StatusFollowsTask(r)' /\ Finished(r)'
    <3>1. CASE step[r] = LastStep /\ pc' = [pc EXCEPT ![r] = "done"]
      BY <2>1, <3>1, EffectStatus, ScriptFacts DEF StatusFollowsTask, Finished, TypeOK
    <3>2. ASSUME NEW j \in 1 .. LastStep, NextStep(r, j),
                 step' = [step EXCEPT ![r] = j], UNCHANGED pc
          PROVE  StatusFollowsTask(r)' /\ Finished(r)'
      BY <2>1, <3>2, EffectStatus, SkippingKeepsStatus DEF StatusFollowsTask, Finished, TypeOK
    <3> QED
      BY <2>1, <3>1, <3>2 DEF Advance
  <2>3. ASSUME NEW q \in Runs \ {r}
        PROVE  StatusFollowsTask(q)' /\ Finished(q)' /\ RowIsConsistent(q)'
    <3>1. pc'[q] = pc[q] /\ step'[q] = step[q]
      BY <2>1 DEF Advance, TypeOK
    <3> QED
      BY <2>1, <3>1, EffectStatus, OthersKeepInv
  <2> QED
    BY <2>1, <2>2, <2>3, EffectStatus DEF RunInv
<1>4. ASSUME NEW r \in Runs, RaiseAfterCommit(r)
      PROVE  RunInv'
  <2>1. pc[r] = "step" /\ Effect(r) /\ pc' = [pc EXCEPT ![r] = "handle_update"] /\ UNCHANGED step
    BY <1>4 DEF RaiseAfterCommit, Interrupt
  <2>2. StatusFollowsTask(r)' /\ Finished(r)'
    BY <2>1 DEF StatusFollowsTask, Finished, TypeOK
  <2>3. ASSUME NEW q \in Runs \ {r}
        PROVE  StatusFollowsTask(q)' /\ Finished(q)' /\ RowIsConsistent(q)'
    BY <2>1, EffectStatus, OthersKeepInv DEF TypeOK
  <2> QED
    BY <2>1, <2>2, <2>3, EffectStatus DEF RunInv
<1>5. ASSUME NEW r \in Runs, HandleUpdate(r) \/ HandlePublish(r) \/ HandleFails(r)
      PROVE  RunInv'
  <2>1. /\ pc[r] \in {"handle_update", "handle_publish"} /\ UNCHANGED step
        /\ \A q \in Runs \ {r} : pc'[q] = pc[q]
        /\ pc'[r] = "handle_publish" => HandleUpdate(r)
        /\ pc'[r] = "done" => HandlePublish(r)
        /\ pc'[r] \in {"handle_publish", "done", "dead"}
    BY <1>5 DEF HandleUpdate, HandlePublish, HandleFails, TypeOK
  <2>2. row' = row \/ UpdateState(r, "failed", {"error_message"})
    BY <1>5 DEF HandleUpdate, HandlePublish, HandleFails
  <2>3. log' = log \/ AppendEvent(r, "run.failed", "failed")
    BY <1>5 DEF HandleUpdate, HandlePublish, HandleFails
  <2>4. /\ \A q \in Runs \ {r} : row'[q] = row[q] /\ log'[q] = log[q]
        /\ RowIsConsistent(r)'
    <3>1. \A q \in Runs \ {r} : row'[q] = row[q]
      BY <2>2 DEF UpdateState, TypeOK
    <3>2. \A q \in Runs \ {r} : log'[q] = log[q]
      BY <2>3 DEF AppendEvent, TypeOK
    <3>3. CASE row' = row
      BY <3>3, <3>1, <3>2 DEF RunInv, RowIsConsistent
    <3>4. CASE UpdateState(r, "failed", {"error_message"})
      BY <3>4, <3>1, <3>2 DEF UpdateState, RowIsConsistent, TypeOK
    <3> QED
      BY <2>2, <3>3, <3>4
  <2>5. StatusFollowsTask(r)'
    <3>1. HandleUpdate(r) => row'[r].status = "failed"
      BY DEF HandleUpdate, UpdateState, TypeOK
    <3> QED
      BY <2>1, <3>1 DEF StatusFollowsTask
  <2>6. Finished(r)'
    <3>1. CASE HandlePublish(r)
      <4>1. /\ log'[r] = Append(log[r], [type |-> "run.failed", status |-> "failed"])
            /\ row'[r].status = "failed"
        BY <3>1 DEF HandlePublish, AppendEvent, TypeOK, RunInv, StatusFollowsTask
      <4>2. /\ log'[r] # << >>
            /\ log'[r][Len(log'[r])] = [type |-> "run.failed", status |-> "failed"]
        BY <4>1 DEF TypeOK
      <4> QED
        BY <4>1, <4>2 DEF Finished, TerminalEventTypes
    <3>2. CASE pc'[r] # "done"
      BY <3>2 DEF Finished
    <3> QED
      BY <2>1, <3>1, <3>2
  <2>7. ASSUME NEW q \in Runs \ {r}
        PROVE  StatusFollowsTask(q)' /\ Finished(q)' /\ RowIsConsistent(q)'
    BY <2>1, <2>4, OthersKeepInv
  <2> QED
    BY <2>4, <2>5, <2>6, <2>7 DEF RunInv
<1>6. CASE Crash
  BY <1>6 DEF Crash, RunInv, StatusFollowsTask, Finished, RowIsConsistent, TypeOK, InMemory
<1>7. CASE UNCHANGED vars
  BY <1>7 DEF vars, RunInv, StatusFollowsTask, Finished, RowIsConsistent
<1> QED
  BY <1>1, <1>2, <1>3, <1>4, <1>5, <1>6, <1>7 DEF Next, Task

THEOREM RunInvariant == Spec => [](TypeOK /\ RunInv)
BY TypeInit, TypeNext, RunInvInit, RunInvNext, PTL DEF Spec

(* A task that ended by itself has closed its log with a terminal event that   *)
(* carries the status the row holds.                                           *)
THEOREM FinishedRunsAreClosed == Spec => []FinishedRunsAgree
<1>1. RunInv => FinishedRunsAgree
  BY DEF RunInv, Finished, FinishedRunsAgree
<1> QED
  BY <1>1, RunInvariant, PTL

(* The filled columns of a run's row always fit its status, whichever updates  *)
(* were committed before an exception.                                         *)
THEOREM RowsAreConsistent == Spec => []RowConsistent
<1>1. RunInv => RowConsistent
  BY DEF RunInv, RowIsConsistent, RowConsistent
<1> QED
  BY <1>1, RunInvariant, PTL

(* An event is only ever appended while the row holds the status it carries.   *)
THEOREM EventsCarryTheStatus == Spec => EventStatusIsCurrent
<1> DEFINE Current == \A r \in Runs :
             log'[r] # log[r] => log'[r][Len(log'[r])].status = row[r].status
<1>1. TypeOK /\ RunInv /\ [Next]_vars => [Current]_vars
  <2> SUFFICES ASSUME TypeOK, RunInv, Next, NEW q \in Runs, log'[q] # log[q]
               PROVE  log'[q][Len(log'[q])].status = row[q].status
    BY DEF Current
  <2> USE DEF input, tables
  <2>1. [type |-> "run.failed", status |-> "failed"] \in Event
    BY DEF Event, EventTypes, Statuses
  <2>2. ASSUME NEW r \in Runs, pc[r] = "step", Effect(r)
        PROVE  log'[q][Len(log'[q])].status = row[q].status
    <3>1. q = r /\ Publish(r)
      <4>1. q = r
        BY <2>2, EffectStatus
      <4>2. ~ (Update(r) \/ FindDuplicate(r) \/ InsertMemory(r) \/ ReadOnly(r))
        BY DEF Update, FindDuplicate, InsertMemory, ReadOnly
      <4> QED
        BY <2>2, <4>1, <4>2 DEF Effect
    <3>2. step[r] \in 1 .. 17 /\ StepFacts(step[r]) /\ row[r].status = StatusBefore(step[r])
      BY <2>2, ScriptFacts DEF TypeOK, RunInv, StatusFollowsTask
    <3>3. [type |-> Steps[step[r]].what, status |-> Steps[step[r]].status] \in Event
      BY <3>1, <3>2, EventTypeFacts DEF Publish, StepFacts, Event
    <3>4. log'[q][Len(log'[q])] = [type |-> Steps[step[r]].what, status |-> Steps[step[r]].status]
      BY <3>1, <3>3, LastOfAppend DEF Publish, AppendEvent, TypeOK
    <3> QED
      BY <3>1, <3>2, <3>4 DEF Publish, StepFacts
  <2>3. ASSUME NEW r \in Runs, pc[r] = "handle_publish", AppendEvent(r, "run.failed", "failed")
        PROVE  log'[q][Len(log'[q])].status = row[q].status
    <3>1. q = r /\ log'[q] = Append(log[q], [type |-> "run.failed", status |-> "failed"])
      BY <2>3 DEF AppendEvent, TypeOK
    <3>2. log'[q][Len(log'[q])] = [type |-> "run.failed", status |-> "failed"]
      BY <2>1, <3>1, LastOfAppend DEF TypeOK
    <3> QED
      BY <2>3, <3>1, <3>2 DEF RunInv, StatusFollowsTask
  <2>4. \E r \in Runs : \/ pc[r] = "step" /\ Effect(r)
                        \/ pc[r] = "handle_publish" /\ AppendEvent(r, "run.failed", "failed")
    <3>1. ~ Crash
      BY DEF Crash
    <3>2. PICK r \in Runs : \/ CreateRun(r) \/ StartFails(r) \/ Task(r)
                            \/ Raise(r) \/ RaiseAfterCommit(r) \/ HandleFails(r)
      BY <3>1 DEF Next
    <3>3. ~ (CreateRun(r) \/ StartFails(r) \/ StartRunner(r) \/ Raise(r)
             \/ InsertRefused(r) \/ HandleUpdate(r))
      <4>1. ~ CreateRun(r) /\ ~ StartFails(r)
        BY DEF CreateRun, StartFails
      <4>2. ~ StartRunner(r) /\ ~ Raise(r)
        BY DEF StartRunner, Raise
      <4>3. ~ InsertRefused(r) /\ ~ HandleUpdate(r)
        BY DEF InsertRefused, HandleUpdate
      <4> QED
        BY <4>1, <4>2, <4>3
    <3>4. CASE Complete(r) \/ RaiseAfterCommit(r)
      <4>1. pc[r] = "step" /\ Effect(r)
        BY <3>4 DEF Complete, RaiseAfterCommit
      <4> QED
        BY <4>1
    <3>5. CASE HandlePublish(r)
      BY <3>5 DEF HandlePublish
    <3>6. CASE HandleFails(r)
      <4>1. pc[r] = "handle_publish" /\ AppendEvent(r, "run.failed", "failed")
        BY <3>6 DEF HandleFails
      <4> QED
        BY <4>1
    <3> QED
      BY <3>2, <3>3, <3>4, <3>5, <3>6 DEF Task
  <2> QED
    BY <2>2, <2>3, <2>4
<1> HIDE DEF Current
<1>2. Spec => [][Current]_vars
  BY <1>1, RunInvariant, PTL DEF Spec
<1> QED
  BY <1>2 DEF Current, EventStatusIsCurrent

------------------------------------------------------------------------------
(* Consolidation. *)

LEMMA MemoryInvInit == Init => MemoryInv
<1> SUFFICES ASSUME Init
             PROVE  MemoryInv
  OBVIOUS
<1>1. memories = {} /\ \A r \in Runs : pc[r] = "absent"
  BY DEF Init
<1> QED
  BY <1>1 DEF MemoryInv, MemoriesConsolidated, Consolidating

(* An event that was appended stays: a step adds one event at the end. *)
LEMMA HasIsStable ==
  ASSUME TypeOK, NEW r \in Runs, NEW q \in Runs, NEW type, Has(q, type),
         NEW t \in EventTypes, NEW s \in Statuses, log' = log \/ AppendEvent(r, t, s)
  PROVE  Has(q, type)'
<1>1. CASE log' = log
  BY <1>1 DEF Has
<1>2. CASE AppendEvent(r, t, s)
  <2>1. [type |-> t, status |-> s] \in Event
    BY DEF Event
  <2>2. log'[q] = log[q] \/ log'[q] = Append(log[q], [type |-> t, status |-> s])
    BY <1>2 DEF AppendEvent, TypeOK
  <2>3. \A i \in DOMAIN log[q] : i \in DOMAIN log'[q] /\ log'[q][i] = log[q][i]
    <3>1. log[q] \in Seq(Event)
      BY DEF TypeOK
    <3> QED
      BY <2>1, <2>2, <3>1, AppendKeeps
  <2> QED
    BY <2>3 DEF Has
<1> QED
  BY <1>1, <1>2

LEMMA EffectKeepsHas ==
  ASSUME TypeOK, NEW r \in Runs, NEW q \in Runs, NEW type, Has(q, type), Effect(r)
  PROVE  Has(q, type)'
<1>1. step[r] \in 1 .. 17 /\ StepFacts(step[r])
  BY ScriptFacts DEF TypeOK
<1>2. CASE Publish(r)
  <2>1. Steps[step[r]].what \in EventTypes /\ Steps[step[r]].status \in Statuses
    BY <1>1, <1>2, EventTypeFacts DEF Publish, StepFacts
  <2> QED
    BY <1>2, <2>1, HasIsStable DEF Publish
<1>3. CASE Update(r) \/ FindDuplicate(r) \/ InsertMemory(r) \/ ReadOnly(r)
  <2>1. log' = log
    BY <1>3 DEF Update, FindDuplicate, InsertMemory, ReadOnly, tables
  <2> QED
    BY <2>1 DEF Has
<1> QED
  BY <1>2, <1>3 DEF Effect

(* The memories a step of the script leaves behind: the same ones, or, at step *)
(* 14 and nowhere else, one more that is r's first and the content's only one. *)
LEMMA EffectOnMemories ==
  ASSUME TypeOK, MemoryInv, NEW r \in Runs, pc[r] = "step", Effect(r),
         UNCHANGED policy
  PROVE  /\ MemoriesConsolidated'
         /\ memories' = memories \/
              (step[r] = 14 /\ \E c \in Contents : memories' = memories \cup {[content |-> c, source |-> r]})
<1>1. step[r] \in 1 .. 17 /\ StepFacts(step[r]) /\ Consolidating(r)
  BY ScriptFacts DEF TypeOK, MemoryInv
<1>2. ASSUME NEW m \in memories
      PROVE  Has(m.source, "memory.write.started")'
  BY EffectKeepsHas DEF TypeOK, MemoryInv, MemoriesConsolidated
<1>3. CASE memories' = memories
  BY <1>2, <1>3 DEF MemoryInv, MemoriesConsolidated
<1>4. CASE InsertMemory(r) /\ Inserts(r)
  <2>1. /\ ~ SomeMemory(extract[r]) /\ step[r] = 14
        /\ memories' = memories \cup {[content |-> extract[r], source |-> r]}
    BY <1>1, <1>4 DEF InsertMemory, StepFacts
  <2>2. extract[r] \in Contents
    BY <1>4 DEF Inserts, TypeOK
  <2>3. \A m \in memories : m.source # r /\ m.content # extract[r]
    BY <1>1, <2>1 DEF Consolidating, SomeMemory
  <2>4. "write" \in policy[r]
    BY <1>1, <2>1 DEF Consolidating, Needed, StepFacts
  <2>5. Has(r, "memory.write.started")'
    BY <1>1, <2>1, EffectKeepsHas DEF Consolidating
  <2>6. \A m, n \in memories' : m.content = n.content \/ m.source = n.source => m = n
    BY <2>1, <2>3 DEF MemoryInv, MemoriesConsolidated
  <2>7. \A m \in memories' :
          "write" \in policy'[m.source] /\ Has(m.source, "memory.write.started")'
    BY <1>2, <2>1, <2>4, <2>5 DEF MemoryInv, MemoriesConsolidated
  <2> QED
    BY <2>1, <2>2, <2>6, <2>7 DEF MemoriesConsolidated
<1> QED
  BY <1>3, <1>4 DEF Effect, Publish, Update, FindDuplicate, InsertMemory, ReadOnly, tables

(* Whoever is about to execute a step may execute it, and steps 13 to 15 are   *)
(* entered from the announcement only.                                         *)
LEMMA NextStepConsolidates ==
  ASSUME TypeOK, MemoryInv, NEW r \in Runs, pc[r] = "step", Effect(r), UNCHANGED policy,
         NEW j \in 1 .. LastStep, NextStep(r, j)
  PROVE  /\ Needed(r, j)'
         /\ j \in 13 .. 15 => Has(r, "memory.write.started")'
         /\ j > step[r]
<1>1. /\ step[r] \in 1 .. 17 /\ j \in step[r] + 1 .. 17 /\ Needed(r, j)
      /\ StepFacts(step[r]) /\ StepFacts(12) /\ StepFacts(j)
  BY ScriptFacts DEF TypeOK, NextStep
<1>2. Needed(r, j)'
  BY <1>1 DEF Needed
<1>3. ASSUME j \in 13 .. 15
      PROVE  Has(r, "memory.write.started")'
  <2>1. Needed(r, 12)
    BY <1>1, <1>3 DEF Needed, StepFacts
  <2>2. step[r] >= 12
    <3>1. ~ (12 \in step[r] + 1 .. j - 1)
      BY <2>1 DEF NextStep
    <3> QED
      BY <1>1, <1>3, <3>1
  <2>3. CASE step[r] = 12
    <3>1. Publish(r) /\ Steps[step[r]].what = "memory.write.started"
      BY <1>1, <2>3 DEF StepFacts, Effect, Update, FindDuplicate, InsertMemory, ReadOnly
    <3>2. Steps[step[r]].what \in EventTypes /\ Steps[step[r]].status \in Statuses
      BY <1>1, <3>1, EventTypeFacts DEF Publish, StepFacts
    <3> DEFINE e == [type |-> Steps[step[r]].what, status |-> Steps[step[r]].status]
    <3>3. e \in Event /\ log[r] \in Seq(Event) /\ log'[r] = Append(log[r], e)
      BY <3>1, <3>2 DEF Publish, AppendEvent, Event, TypeOK
    <3>4. Len(log'[r]) \in DOMAIN log'[r] /\ log'[r][Len(log'[r])] = e
      BY <3>3, LastOfAppend
    <3> QED
      BY <3>1, <3>4 DEF Has
  <2>4. CASE step[r] > 12
    <3>1. Has(r, "memory.write.started")
      BY <1>1, <1>3, <2>4 DEF MemoryInv, Consolidating
    <3> QED
      BY <3>1, EffectKeepsHas
  <2> QED
    BY <1>1, <2>2, <2>3, <2>4
<1> QED
  BY <1>1, <1>2, <1>3

LEMMA MemoryInvNext == TypeOK /\ RunInv /\ MemoryInv /\ [Next]_vars => MemoryInv'
<1> SUFFICES ASSUME TypeOK, RunInv, MemoryInv, [Next]_vars
             PROVE  MemoryInv'
  OBVIOUS
<1> USE DEF input, tables
<1>1. ASSUME NEW r \in Runs, CreateRun(r)
      PROVE  MemoryInv'
  <2>1. /\ pc[r] = "absent" /\ pc' = [pc EXCEPT ![r] = "committed"]
        /\ \A q \in Runs \ {r} : policy'[q] = policy[q]
        /\ UNCHANGED <<step, log, memories>>
    BY <1>1 DEF CreateRun, TypeOK
  <2>2. \A m \in memories : m.source \in Runs \ {r}
    BY <2>1 DEF MemoryInv, Consolidating, TypeOK
  <2>3. MemoriesConsolidated'
    BY <2>1, <2>2 DEF MemoryInv, MemoriesConsolidated, Has
  <2>4. Consolidating(r)'
    BY <2>1, <2>2 DEF Consolidating, TypeOK
  <2>5. ASSUME NEW q \in Runs \ {r}
        PROVE  Consolidating(q)'
    BY <2>1 DEF MemoryInv, Consolidating, Needed, Has, TypeOK
  <2> QED
    BY <2>3, <2>4, <2>5 DEF MemoryInv
<1>2. ASSUME NEW r \in Runs, StartFails(r) \/ Raise(r) \/ InsertRefused(r) \/ StartRunner(r)
      PROVE  MemoryInv'
  <2>1. /\ UNCHANGED <<step, policy, log, memories>>
        /\ \A q \in Runs \ {r} : pc'[q] = pc[q]
        /\ \/ pc'[r] \in {"orphan", "handle_update"}
           \/ pc[r] = "committed" /\ pc'[r] = "step"
    BY <1>2 DEF StartFails, StartRunner, Raise, InsertRefused, Interrupt, TypeOK
  <2>2. MemoriesConsolidated'
    BY <2>1 DEF MemoryInv, MemoriesConsolidated, Has
  <2>3. Consolidating(r)'
    <3>1. CASE pc'[r] \in {"orphan", "handle_update"}
      BY <2>1, <3>1 DEF MemoryInv, Consolidating
    <3>2. CASE pc[r] = "committed" /\ pc'[r] = "step"
      <4>1. step'[r] = 1 /\ Needed(r, 1)'
        BY <2>1, <3>2, ScriptFacts DEF RunInv, StatusFollowsTask, StepFacts, Needed
      <4>2. \A m \in memories' : m.source # r
        BY <2>1, <3>2 DEF MemoryInv, Consolidating
      <4> QED
        BY <4>1, <4>2 DEF Consolidating
    <3> QED
      BY <2>1, <3>1, <3>2
  <2>4. ASSUME NEW q \in Runs \ {r}
        PROVE  Consolidating(q)'
    BY <2>1 DEF MemoryInv, Consolidating, Needed, Has
  <2> QED
    BY <2>2, <2>3, <2>4 DEF MemoryInv
<1>3. ASSUME NEW r \in Runs, Complete(r) \/ RaiseAfterCommit(r)
      PROVE  MemoryInv'
  <2>1. /\ pc[r] = "step" /\ Effect(r) /\ UNCHANGED policy
        /\ \A q \in Runs \ {r} : pc'[q] = pc[q] /\ step'[q] = step[q]
    BY <1>3 DEF Complete, RaiseAfterCommit, Interrupt, Advance, TypeOK
  <2>2. \/ pc'[r] \in {"done", "handle_update"}
        \/ pc'[r] = "step" /\ \E j \in 1 .. LastStep : NextStep(r, j) /\ step'[r] = j
    BY <1>3, <2>1 DEF Complete, RaiseAfterCommit, Interrupt, Advance, TypeOK
  <2>3. \A m \in memories' : m \in memories \/ (m.source = r /\ step[r] = 14)
    BY <2>1, EffectOnMemories
  <2>4. Consolidating(r)'
    <3>1. CASE pc'[r] \in {"done", "handle_update"}
      BY <3>1 DEF Consolidating
    <3>2. ASSUME pc'[r] = "step", NEW j \in 1 .. LastStep, NextStep(r, j), step'[r] = j
          PROVE  Consolidating(r)'
      <4>1. /\ Needed(r, j)'
            /\ j \in 13 .. 15 => Has(r, "memory.write.started")'
            /\ j > step[r]
        BY <2>1, <3>2, NextStepConsolidates
      <4>2. j \in 1 .. 17 /\ step[r] \in 1 .. 17
        BY ScriptFacts DEF TypeOK
      <4>3. \A m \in memories' : m.source = r => j > 14
        BY <2>1, <2>3, <4>1, <4>2 DEF MemoryInv, Consolidating
      <4> QED
        BY <3>2, <4>1, <4>3 DEF Consolidating, Needed
    <3> QED
      BY <2>2, <3>1, <3>2
  <2>5. ASSUME NEW q \in Runs \ {r}
        PROVE  Consolidating(q)'
    <3>1. Consolidating(q)
      BY DEF MemoryInv
    <3>2. \A m \in memories' : m.source = q => m \in memories
      BY <2>3
    <3>3. Has(q, "memory.write.started") => Has(q, "memory.write.started")'
      BY <2>1, EffectKeepsHas
    <3> QED
      BY <2>1, <3>1, <3>2, <3>3 DEF Consolidating, Needed
  <2> QED
    BY <2>1, <2>4, <2>5, EffectOnMemories DEF MemoryInv
<1>4. ASSUME NEW r \in Runs, HandleUpdate(r) \/ HandlePublish(r) \/ HandleFails(r)
      PROVE  MemoryInv'
  <2>1. /\ UNCHANGED <<step, policy, memories>>
        /\ \A q \in Runs \ {r} : pc'[q] = pc[q]
        /\ pc[r] \in {"handle_update", "handle_publish"}
        /\ pc'[r] \in {"handle_publish", "done", "dead"}
    BY <1>4 DEF HandleUpdate, HandlePublish, HandleFails, TypeOK
  <2>2. log' = log \/ AppendEvent(r, "run.failed", "failed")
    BY <1>4 DEF HandleUpdate, HandlePublish, HandleFails
  <2>3. ASSUME NEW q \in Runs, Has(q, "memory.write.started")
        PROVE  Has(q, "memory.write.started")'
    <3>1. "run.failed" \in EventTypes /\ "failed" \in Statuses
      BY DEF EventTypes, Statuses
    <3> QED
      BY <2>2, <2>3, <3>1, HasIsStable
  <2>4. MemoriesConsolidated'
    BY <2>1, <2>3 DEF MemoryInv, MemoriesConsolidated, TypeOK
  <2>5. Consolidating(r)'
    BY <2>1 DEF MemoryInv, Consolidating
  <2>6. ASSUME NEW q \in Runs \ {r}
        PROVE  Consolidating(q)'
    BY <2>1, <2>3 DEF MemoryInv, Consolidating, Needed
  <2> QED
    BY <2>4, <2>5, <2>6 DEF MemoryInv
<1>5. CASE Crash
  <2>1. /\ UNCHANGED <<step, policy, log, memories>>
        /\ \A q \in Runs : pc'[q] = pc[q] \/ pc'[q] = "lost"
    BY <1>5 DEF Crash
  <2> QED
    BY <2>1 DEF MemoryInv, MemoriesConsolidated, Consolidating, Needed, Has
<1>6. CASE UNCHANGED vars
  BY <1>6 DEF vars, MemoryInv, MemoriesConsolidated, Consolidating, Needed, Has
<1> QED
  BY <1>1, <1>2, <1>3, <1>4, <1>5, <1>6 DEF Next, Task

LEMMA MemoryInvariant == Spec => []MemoryInv
<1>1. TypeOK /\ RunInv /\ MemoryInv /\ [Next]_vars => MemoryInv'
  BY MemoryInvNext
<1> QED
  BY <1>1, MemoryInvInit, RunInvariant, PTL DEF Spec

(* Whatever runs overlap, fail or die: no two active memories have the same    *)
(* content, no run owns two, and a memory is only there if its run's policy    *)
(* permits writing and its stream announced the write.                         *)
THEOREM MemoriesStayConsolidated == Spec => []MemoriesConsolidated
<1>1. MemoryInv => MemoriesConsolidated
  BY DEF MemoryInv
<1> QED
  BY <1>1, MemoryInvariant, PTL

------------------------------------------------------------------------------
(* The order of the events. *)

(* The first m events are those of the script. *)
Follows(r, m) ==
  /\ m <= Place(r, LastStep)
  /\ \A i \in 1 .. LastStep : Scripted(r, i) /\ Place(r, i) <= m =>
       log[r][Place(r, i)].type = Steps[i].what

(* A task has published what precedes its step, and a failure is published     *)
(* last.                                                                       *)
LogOK(r) ==
  /\ pc[r] \in {"absent", "committed", "orphan"} => log[r] = << >>
  /\ pc[r] \in {"absent", "committed", "orphan", "step", "handle_update", "handle_publish"} =>
       ~ Has(r, "run.failed") /\ Follows(r, Len(log[r]))
  /\ pc[r] = "step" => Len(log[r]) = Place(r, step[r] - 1)
  /\ Follows(r, IF Has(r, "run.failed") THEN Len(log[r]) - 1 ELSE Len(log[r]))
  /\ Has(r, "run.failed") => log[r][Len(log[r])].type = "run.failed"

ScriptInv == \A r \in Runs : LogOK(r)

(* The place of a step counts the scripted steps up to it. *)
LEMMA PlaceFacts ==
  ASSUME NEW r, NEW i \in 1 .. 17
  PROVE  /\ Place(r, i) \in Nat /\ Place(r, i - 1) \in Nat
         /\ Place(r, i) = IF Scripted(r, i) THEN Place(r, i - 1) + 1 ELSE Place(r, i - 1)
<1> DEFINE S == {j \in 1 .. i - 1 : Scripted(r, j)}
           T == {j \in 1 .. i : Scripted(r, j)}
<1>1. IsFiniteSet(S) /\ Cardinality(S) \in Nat
  <2>1. IsFiniteSet(1 .. i - 1)
    BY FS_Interval
  <2> QED
    BY <2>1, FS_Subset, FS_CardinalityType
<1>2. i \notin S
  OBVIOUS
<1>3. CASE Scripted(r, i)
  <2>1. T = S \cup {i}
    BY <1>3
  <2>2. Cardinality(T) = Cardinality(S) + 1
    BY <1>1, <1>2, <2>1, FS_AddElement
  <2> QED
    BY <1>1, <1>3, <2>2 DEF Place
<1>4. CASE ~ Scripted(r, i)
  <2>1. T = S
    BY <1>4
  <2> QED
    BY <1>1, <1>4, <2>1 DEF Place
<1> QED
  BY <1>3, <1>4

LEMMA PlaceMonotone ==
  ASSUME NEW r, NEW i \in 0 .. 17, NEW k \in i .. 17
  PROVE  Place(r, i) <= Place(r, k)
<1>1. {j \in 1 .. i : Scripted(r, j)} \subseteq {j \in 1 .. k : Scripted(r, j)}
  OBVIOUS
<1>2. IsFiniteSet(1 .. k)
  BY FS_Interval
<1>3. IsFiniteSet({j \in 1 .. k : Scripted(r, j)})
  BY <1>2, FS_Subset
<1> QED
  BY <1>1, <1>3, FS_Subset DEF Place

(* Steps that publish nothing have no place. *)
LEMMA PlaceFlat ==
  ASSUME NEW r, NEW i \in 0 .. 17, NEW k \in i .. 17,
         \A j \in i + 1 .. k : ~ Scripted(r, j)
  PROVE  Place(r, i) = Place(r, k)
<1>1. {j \in 1 .. i : Scripted(r, j)} = {j \in 1 .. k : Scripted(r, j)}
  OBVIOUS
<1> QED
  BY <1>1 DEF Place

LEMMA NothingFailsInScript == \A i \in 1 .. 17 : Steps[i].what # "run.failed"
BY DEF Steps, Step

(* A log that nobody writes follows the script as before. *)
LEMMA SameLog ==
  ASSUME NEW r \in Runs, LogOK(r), log'[r] = log[r], policy'[r] = policy[r],
         step'[r] = step[r],
         \/ pc'[r] = pc[r]
         \/ pc[r] = "absent" /\ pc'[r] = "committed"
         \/ pc[r] = "committed" /\ pc'[r] \in {"orphan", "lost"}
         \/ pc[r] \in {"step", "handle_update"} /\ pc'[r] \in {"handle_update", "handle_publish"}
         \/ pc'[r] \in {"done", "dead", "lost"}
  PROVE  LogOK(r)'
<1>1. \A i : Scripted(r, i)' <=> Scripted(r, i)
  BY DEF Scripted, Needed
<1>2. \A i : Place(r, i)' = Place(r, i)
  BY DEF Place, Scripted, Needed
<1>3. Has(r, "run.failed")' <=> Has(r, "run.failed")
  BY DEF Has
<1> QED
  BY <1>1, <1>2, <1>3 DEF LogOK, Follows

(* What the current step of r leaves in the logs. *)
LEMMA EffectOnLog ==
  ASSUME TypeOK, NEW r \in Runs, Effect(r)
  PROVE  /\ \A q \in Runs \ {r} : log'[q] = log[q]
         /\ IF Steps[step[r]].op = "publish"
              THEN \E e \in Event : /\ e.type = Steps[step[r]].what
                                    /\ log'[r] = Append(log[r], e)
              ELSE log'[r] = log[r]
<1>1. step[r] \in 1 .. 17 /\ StepFacts(step[r])
  BY ScriptFacts DEF TypeOK
<1>2. CASE Publish(r)
  <2>1. Steps[step[r]].what \in EventTypes /\ Steps[step[r]].status \in Statuses
    BY <1>1, <1>2, EventTypeFacts DEF Publish, StepFacts
  <2> DEFINE e == [type |-> Steps[step[r]].what, status |-> Steps[step[r]].status]
  <2>2. e \in Event /\ e.type = Steps[step[r]].what
    BY <2>1 DEF Event
  <2>3. log'[r] = Append(log[r], e) /\ \A q \in Runs \ {r} : log'[q] = log[q]
    BY <1>2 DEF Publish, AppendEvent, TypeOK
  <2> QED
    BY <1>2, <2>2, <2>3 DEF Publish
<1>3. CASE Update(r) \/ FindDuplicate(r) \/ InsertMemory(r) \/ ReadOnly(r)
  BY <1>3 DEF Update, FindDuplicate, InsertMemory, ReadOnly, tables
<1> QED
  BY <1>2, <1>3 DEF Effect

(* The step publishes the event whose turn it is, or none. *)
LEMMA EffectFollows ==
  ASSUME TypeOK, MemoryInv, NEW r \in Runs, LogOK(r), pc[r] = "step", Effect(r), UNCHANGED policy
  PROVE  /\ ~ Has(r, "run.failed")'
         /\ Len(log'[r]) = Place(r, step[r])
         /\ Follows(r, Len(log[r]))'
<1> DEFINE s == step[r]
           n == Len(log[r])
<1>1. s \in 1 .. 17 /\ LastStep = 17 /\ log[r] \in Seq(Event) /\ n \in Nat
  BY ScriptFacts, LenProperties DEF TypeOK
<1>2. Needed(r, s) /\ ~ Has(r, "run.failed") /\ Follows(r, n) /\ n = Place(r, s - 1)
  BY DEF MemoryInv, Consolidating, LogOK
<1>3. \A i : Scripted(r, i)' <=> Scripted(r, i)
  BY DEF Scripted, Needed
<1>4. \A i : Place(r, i)' = Place(r, i)
  BY DEF Place, Scripted, Needed
<1>5. CASE Steps[s].op # "publish"
  <2>1. log'[r] = log[r] /\ ~ Scripted(r, s)
    BY <1>5, EffectOnLog DEF Scripted
  <2>2. Place(r, s) = n
    BY <1>1, <1>2, <2>1, PlaceFacts
  <2> QED
    BY <1>2, <1>3, <1>4, <2>1, <2>2 DEF Has, Follows
<1>6. CASE Steps[s].op = "publish"
  <2>1. PICK e \in Event : e.type = Steps[s].what /\ log'[r] = Append(log[r], e)
    BY <1>6, EffectOnLog
  <2>2. Scripted(r, s)
    BY <1>2, <1>6 DEF Scripted
  <2>3. Place(r, s) = n + 1
    BY <1>1, <1>2, <2>2, PlaceFacts
  <2>4. /\ Len(log'[r]) = n + 1 /\ DOMAIN log'[r] = 1 .. n + 1 /\ DOMAIN log[r] = 1 .. n
        /\ log'[r][n + 1] = e /\ \A k \in 1 .. n : log'[r][k] = log[r][k]
    BY <1>1, <2>1, AppendProperties, LenProperties
  <2>5. ~ Has(r, "run.failed")'
    <3>1. e.type # "run.failed"
      BY <1>1, <2>1, NothingFailsInScript
    <3>2. \A k \in 1 .. n : log[r][k].type # "run.failed"
      BY <1>2, <2>4 DEF Has
    <3> QED
      BY <1>1, <2>4, <3>1, <3>2 DEF Has
  <2>6. n + 1 <= Place(r, LastStep)
    BY <1>1, <2>3, PlaceMonotone
  <2>7. ASSUME NEW i \in 1 .. 17, Scripted(r, i), Place(r, i) <= n + 1
        PROVE  log'[r][Place(r, i)].type = Steps[i].what
    <3>1. Place(r, i) = Place(r, i - 1) + 1 /\ Place(r, i) \in Nat /\ Place(r, i - 1) \in Nat
      BY <2>7, PlaceFacts
    <3>2. CASE i < s
      <4>0. i \in 0 .. 17 /\ s - 1 \in i .. 17
        BY <1>1, <3>2
      <4>1. Place(r, i) <= n
        BY <1>2, <4>0, PlaceMonotone
      <4>2. Place(r, i) \in 1 .. n
        BY <1>1, <3>1, <4>1
      <4>3. log[r][Place(r, i)].type = Steps[i].what
        BY <1>1, <1>2, <2>7, <4>1 DEF Follows
      <4> QED
        BY <2>4, <4>2, <4>3
    <3>3. CASE i = s
      BY <2>1, <2>3, <2>4, <3>3
    <3>4. CASE i > s
      <4>0. s \in 0 .. 17 /\ i - 1 \in s .. 17
        BY <1>1, <3>4
      <4>1. Place(r, s) <= Place(r, i - 1)
        BY <4>0, PlaceMonotone
      <4> QED
        BY <1>1, <2>3, <2>7, <3>1, <4>1
    <3> QED
      BY <1>1, <3>2, <3>3, <3>4
  <2> QED
    BY <1>1, <1>3, <1>4, <2>3, <2>4, <2>5, <2>6, <2>7 DEF Follows
<1> QED
  BY <1>5, <1>6

LEMMA ScriptInvInit == Init => ScriptInv
<1> SUFFICES ASSUME Init, NEW r \in Runs
             PROVE  LogOK(r)
  BY DEF ScriptInv
<1>1. log[r] = << >> /\ pc[r] = "absent" /\ ~ Has(r, "run.failed")
  BY DEF Init, Has
<1>2. Follows(r, 0)
  <2>1. 17 \in 1 .. 17 /\ LastStep = 17
    BY ScriptFacts
  <2>2. 0 <= Place(r, LastStep)
    BY <2>1, PlaceFacts
  <2>3. ASSUME NEW i \in 1 .. 17, Scripted(r, i)
        PROVE  ~ (Place(r, i) <= 0)
    BY <2>3, PlaceFacts
  <2> QED
    BY <2>1, <2>2, <2>3 DEF Follows
<1> QED
  BY <1>1, <1>2 DEF LogOK

(* The places under any memory policy. *)
LEMMA PlacesArePositive ==
  ASSUME NEW P, NEW i \in 1 .. 17
  PROVE  LET S == {j \in 1 .. i : Steps[j].op = "publish" /\ Steps[j].needs \in P \cup {"always"}} IN
         Cardinality(S) \in Nat /\ (i \in S => Cardinality(S) # 0)
<1> DEFINE S == {j \in 1 .. i : Steps[j].op = "publish" /\ Steps[j].needs \in P \cup {"always"}}
<1>1. IsFiniteSet(1 .. i)
  BY FS_Interval
<1>2. IsFiniteSet(S)
  BY <1>1, FS_Subset
<1> HIDE DEF S
<1>3. Cardinality(S) \in Nat /\ (Cardinality(S) = 0 <=> S = {})
  BY <1>2, FS_EmptySet, FS_CardinalityType
<1>4. i \in S => Cardinality(S) # 0
  BY <1>3
<1> QED
  BY <1>3, <1>4 DEF S

(* A policy is fixed while the log is empty. *)
LEMMA EmptyFollows ==
  ASSUME NEW r \in Runs, log'[r] = << >>
  PROVE  ~ Has(r, "run.failed")' /\ Len(log'[r]) = 0 /\ Follows(r, 0)'
<1>1. ~ Has(r, "run.failed")'
  BY DEF Has
<1>2. LastStep = 17
  BY ScriptFacts
<1>3. ASSUME NEW i \in 1 .. 17
      PROVE  /\ Place(r, i)' \in Nat
             /\ Scripted(r, i)' => Place(r, i)' # 0
  <2> DEFINE P == policy'[r]
             S == {j \in 1 .. i : Steps[j].op = "publish" /\ Steps[j].needs \in P \cup {"always"}}
  <2>1. Place(r, i)' = Cardinality(S) /\ (Scripted(r, i)' => i \in S)
    BY DEF Place, Scripted, Needed
  <2>2. Cardinality(S) \in Nat /\ (i \in S => Cardinality(S) # 0)
    BY PlacesArePositive
  <2> QED
    BY <2>1, <2>2
<1>4. Follows(r, 0)'
  <2>1. 0 <= Place(r, LastStep)'
    BY <1>2, <1>3
  <2>2. ASSUME NEW i \in 1 .. LastStep, Scripted(r, i)'
        PROVE  ~ (Place(r, i)' <= 0)
    <3>1. Place(r, i)' \in Nat /\ Place(r, i)' # 0
      BY <1>2, <1>3, <2>2
    <3> QED
      BY <3>1
  <2> QED
    BY <2>1, <2>2 DEF Follows
<1> QED
  BY <1>1, <1>4

(* run.failed is published last. *)
LEMMA FailureFollows ==
  ASSUME TypeOK, NEW r \in Runs, LogOK(r), pc[r] = "handle_publish", pc'[r] \in {"done", "dead"},
         AppendEvent(r, "run.failed", "failed"), UNCHANGED policy
  PROVE  LogOK(r)'
<1> DEFINE e == [type |-> "run.failed", status |-> "failed"]
<1>0. PICK n \in Nat : n = Len(log[r])
  BY LenProperties DEF TypeOK
<1>1. log[r] \in Seq(Event) /\ e \in Event /\ e.type = "run.failed"
  BY LenProperties DEF TypeOK, Event, EventTypes, Statuses
<1>2. log'[r] = Append(log[r], e)
  BY DEF AppendEvent, TypeOK
<1> HIDE DEF e
<1>3. /\ Len(log'[r]) = n + 1 /\ DOMAIN log'[r] = 1 .. n + 1
      /\ log'[r][n + 1] = e /\ \A k \in 1 .. n : log'[r][k] = log[r][k]
  BY <1>0, <1>1, <1>2, AppendProperties, LenProperties
<1>4. Has(r, "run.failed")'
  BY <1>1, <1>3 DEF Has
<1>5. Follows(r, n)
  BY <1>0 DEF LogOK
<1>6. Follows(r, n)'
  <2>1. \A i : (Scripted(r, i)' <=> Scripted(r, i)) /\ Place(r, i)' = Place(r, i)
    BY DEF Place, Scripted, Needed
  <2>2. LastStep = 17
    BY ScriptFacts
  <2>3. ASSUME NEW i \in 1 .. 17, Scripted(r, i), Place(r, i) <= n
        PROVE  log'[r][Place(r, i)].type = Steps[i].what
    <3>0. Place(r, i) = Place(r, i - 1) + 1 /\ Place(r, i) \in Nat /\ Place(r, i - 1) \in Nat
      BY <2>3, PlaceFacts
    <3>1. Place(r, i) \in 1 .. n
      BY <2>3, <3>0
    <3>2. log[r][Place(r, i)].type = Steps[i].what
      BY <1>5, <2>2, <2>3 DEF Follows
    <3> QED
      BY <1>3, <3>1, <3>2
  <2>4. n <= Place(r, LastStep)
    BY <1>5 DEF Follows
  <2> QED
    BY <2>1, <2>2, <2>3, <2>4 DEF Follows
<1> QED
  BY <1>1, <1>3, <1>4, <1>6 DEF LogOK

(* A task that has executed its step goes on with the next one of the script.  *)
LEMMA StepFollows ==
  ASSUME TypeOK, MemoryInv, NEW r \in Runs, LogOK(r), pc[r] = "step", Effect(r), UNCHANGED policy,
         \/ pc'[r] \in {"done", "handle_update"}
         \/ pc'[r] = "step" /\ \E j \in 1 .. LastStep : NextStep(r, j) /\ step'[r] = j
  PROVE  LogOK(r)'
<1>1. /\ ~ Has(r, "run.failed")'
      /\ Len(log'[r]) = Place(r, step[r])
      /\ Follows(r, Len(log[r]))'
  BY EffectFollows
<1>2. CASE pc'[r] \in {"done", "handle_update"}
  BY <1>1, <1>2 DEF LogOK
<1>3. ASSUME pc'[r] = "step", NEW j \in 1 .. LastStep, NextStep(r, j), step'[r] = j
      PROVE  LogOK(r)'
  <2>1. step[r] \in 0 .. 17 /\ j - 1 \in step[r] .. 17
    BY <1>3, ScriptFacts DEF NextStep, TypeOK
  <2>2. \A k \in step[r] + 1 .. j - 1 : ~ Scripted(r, k)
    BY <1>3 DEF NextStep, Scripted
  <2>3. Place(r, step[r]) = Place(r, j - 1)
    BY <2>1, <2>2, PlaceFlat
  <2>4. \A i : Place(r, i)' = Place(r, i)
    BY DEF Place, Scripted, Needed
  <2>5. Len(log'[r]) = Place(r, step[r] - 1)'
    BY <1>1, <1>3, <2>3, <2>4 DEF Place, Scripted, Needed
  <2> QED
    BY <1>1, <1>3, <2>5 DEF LogOK
<1> QED
  BY <1>2, <1>3

LEMMA ScriptInvNext == TypeOK /\ RunInv /\ MemoryInv /\ ScriptInv /\ [Next]_vars => ScriptInv'
<1> SUFFICES ASSUME TypeOK, RunInv, MemoryInv, ScriptInv, [Next]_vars, NEW q \in Runs
             PROVE  LogOK(q)'
  BY DEF ScriptInv
<1> USE DEF input, tables
<1>0. LogOK(q)
  BY DEF ScriptInv
<1>1. ASSUME NEW r \in Runs, CreateRun(r)
      PROVE  LogOK(q)'
  <2>1. /\ pc[r] = "absent" /\ pc' = [pc EXCEPT ![r] = "committed"]
        /\ \A k \in Runs \ {r} : policy'[k] = policy[k]
        /\ UNCHANGED <<step, log>>
    BY <1>1 DEF CreateRun, TypeOK
  <2>2. CASE q = r
    <3>1. log'[q] = << >> /\ pc'[q] = "committed"
      BY <1>0, <2>1, <2>2 DEF LogOK, TypeOK
    <3>2. ~ Has(q, "run.failed")' /\ Len(log'[q]) = 0 /\ Follows(q, 0)'
      BY <3>1, EmptyFollows
    <3> QED
      BY <3>1, <3>2 DEF LogOK
  <2>3. CASE q # r
    <3>1. pc'[q] = pc[q] /\ log'[q] = log[q] /\ policy'[q] = policy[q] /\ step'[q] = step[q]
      BY <2>1, <2>3 DEF TypeOK
    <3> QED
      BY <1>0, <3>1, SameLog
  <2> QED
    BY <2>2, <2>3
<1>2. ASSUME NEW r \in Runs, StartRunner(r)
      PROVE  LogOK(q)'
  <2>1. /\ pc[r] = "committed" /\ pc' = [pc EXCEPT ![r] = "step"]
        /\ UNCHANGED <<step, policy, log>>
    BY <1>2 DEF StartRunner
  <2>2. CASE q = r
    <3>1. log'[q] = << >> /\ step'[q] = 1 /\ pc'[q] = "step"
      BY <1>0, <2>1, <2>2 DEF LogOK, RunInv, StatusFollowsTask, TypeOK
    <3>2. ~ Has(q, "run.failed")' /\ Len(log'[q]) = 0 /\ Follows(q, 0)'
      BY <3>1, EmptyFollows
    <3>3. Place(q, step[q] - 1)' = 0
      <4>1. {j \in 1 .. step[q] - 1 : Scripted(q, j)}' = {}
        BY <3>1
      <4> QED
        BY <4>1, FS_EmptySet DEF Place
    <3> QED
      BY <3>1, <3>2, <3>3 DEF LogOK
  <2>3. CASE q # r
    <3>1. pc'[q] = pc[q] /\ log'[q] = log[q] /\ policy'[q] = policy[q] /\ step'[q] = step[q]
      BY <2>1, <2>3 DEF TypeOK
    <3> QED
      BY <1>0, <3>1, SameLog
  <2> QED
    BY <2>2, <2>3
<1>3. ASSUME NEW r \in Runs, StartFails(r) \/ Raise(r) \/ InsertRefused(r) \/ HandleUpdate(r)
      PROVE  LogOK(q)'
  <2>1. /\ UNCHANGED <<step, policy, log>>
        /\ \A k \in Runs \ {r} : pc'[k] = pc[k]
        /\ \/ pc[r] = "committed" /\ pc'[r] = "orphan"
           \/ pc[r] \in {"step", "handle_update"} /\ pc'[r] \in {"handle_update", "handle_publish"}
    BY <1>3 DEF StartFails, Raise, InsertRefused, Interrupt, HandleUpdate, TypeOK
  <2>2. CASE q = r
    BY <1>0, <2>1, <2>2, SameLog
  <2>3. CASE q # r
    BY <1>0, <2>1, <2>3, SameLog
  <2> QED
    BY <2>2, <2>3
<1>4. ASSUME NEW r \in Runs, Complete(r) \/ RaiseAfterCommit(r)
      PROVE  LogOK(q)'
  <2>1. /\ pc[r] = "step" /\ Effect(r) /\ UNCHANGED policy
        /\ \A k \in Runs \ {r} : pc'[k] = pc[k] /\ step'[k] = step[k]
    BY <1>4 DEF Complete, RaiseAfterCommit, Interrupt, Advance, TypeOK
  <2>2. \/ pc'[r] \in {"done", "handle_update"}
        \/ pc'[r] = "step" /\ \E j \in 1 .. LastStep : NextStep(r, j) /\ step'[r] = j
    BY <1>4, <2>1 DEF Complete, RaiseAfterCommit, Interrupt, Advance, TypeOK
  <2>3. CASE q = r
    BY <1>0, <2>1, <2>2, <2>3, StepFollows
  <2>4. CASE q # r
    <3>1. log'[q] = log[q]
      BY <2>1, <2>4, EffectOnLog
    <3> QED
      BY <1>0, <2>1, <2>4, <3>1, SameLog
  <2> QED
    BY <2>3, <2>4
<1>5. ASSUME NEW r \in Runs, HandlePublish(r) \/ HandleFails(r)
      PROVE  LogOK(q)'
  <2>1. /\ UNCHANGED <<step, policy>>
        /\ \A k \in Runs \ {r} : pc'[k] = pc[k]
        /\ pc'[r] \in {"done", "dead"}
        /\ \/ UNCHANGED log
           \/ pc[r] = "handle_publish" /\ AppendEvent(r, "run.failed", "failed")
    BY <1>5 DEF HandlePublish, HandleFails, TypeOK
  <2>2. \A k \in Runs \ {r} : log'[k] = log[k]
    BY <2>1 DEF AppendEvent, TypeOK
  <2>3. CASE q = r /\ UNCHANGED log
    BY <1>0, <2>1, <2>3, SameLog
  <2>4. CASE q = r /\ pc[r] = "handle_publish" /\ AppendEvent(r, "run.failed", "failed")
    BY <1>0, <2>1, <2>4, FailureFollows
  <2>5. CASE q # r
    BY <1>0, <2>1, <2>2, <2>5, SameLog
  <2> QED
    BY <2>1, <2>3, <2>4, <2>5
<1>6. CASE Crash \/ UNCHANGED vars
  <2>1. /\ UNCHANGED <<step, policy, log>>
        /\ pc'[q] = pc[q] \/ pc'[q] = "lost"
    BY <1>6 DEF Crash, vars
  <2> QED
    BY <1>0, <2>1, SameLog
<1> QED
  BY <1>1, <1>2, <1>3, <1>4, <1>5, <1>6 DEF Next, Task

(* Wherever operations fail, commits are lost or the process dies: what run()  *)
(* has published is a beginning of the sequence for the run's memory policy,   *)
(* and run.failed, if the except block reached it, closes it once.             *)
THEOREM LogsFollowTheScript == Spec => []EventsFollowScript
<1>1. TypeOK /\ ScriptInv => EventsFollowScript
  <2> SUFFICES ASSUME TypeOK, ScriptInv, NEW r \in Runs
               PROVE  LET n == Len(log[r])
                          m == IF Has(r, "run.failed") THEN n - 1 ELSE n
                      IN  /\ Follows(r, m)
                          /\ m < n => log[r][n].type = "run.failed"
    BY DEF EventsFollowScript, Follows
  <2>1. Len(log[r]) \in Nat
    BY LenProperties DEF TypeOK
  <2> QED
    BY <2>1 DEF ScriptInv, LogOK
<1>2. TypeOK /\ RunInv /\ MemoryInv /\ ScriptInv /\ [Next]_vars => ScriptInv'
  BY ScriptInvNext
<1> QED
  BY <1>1, <1>2, ScriptInvInit, RunInvariant, MemoryInvariant, PTL DEF Spec

------------------------------------------------------------------------------
(* What readers of the log rely on: EventLog is proved to implement an         *)
(* append-only log, and EventStream assumes one that its publisher extends     *)
(* as the runner does.                                                         *)
RunnerLog == INSTANCE AppendOnlyLog WITH Entries <- Event

(* Nothing follows a terminal event, except the run.failed of a task whose     *)
(* publication of run.completed raised (MayFollow of EventStream).             *)
MayFollow(r, type) ==
  \A i \in DOMAIN log[r] : log[r][i].type \in TerminalEventTypes =>
    i = Len(log[r]) /\ log[r][i].type = "run.completed" /\ type = "run.failed"

(* A completed run is past the script, and its log is closed.                  *)
ClosedOK(r) ==
  /\ Has(r, "run.completed") => pc[r] \notin {"absent", "committed", "orphan", "step"}
  /\ \A i \in DOMAIN log[r] : log[r][i].type \in TerminalEventTypes =>
       \/ i = Len(log[r])
       \/ /\ i = Len(log[r]) - 1
          /\ log[r][i].type = "run.completed" /\ log[r][i + 1].type = "run.failed"

ClosedInv == \A r \in Runs : ClosedOK(r)

(* A task adds an event to its log in two places, and goes on with its script  *)
(* only after the first and only before the last event.                        *)
PublishesStep(r, e) ==
  /\ pc[r] = "step" /\ Steps[step[r]].op = "publish" /\ e.type = Steps[step[r]].what
  /\ pc'[r] = "step" => step[r] # LastStep

PublishesFailure(r, e) ==
  pc[r] = "handle_publish" /\ e.type = "run.failed" /\ pc'[r] # "step"

LEMMA LogStep ==
  ASSUME TypeOK, [Next]_vars
  PROVE  \/ log' = log
         \/ \E r \in Runs, e \in Event : /\ PublishesStep(r, e) \/ PublishesFailure(r, e)
                                         /\ log' = [log EXCEPT ![r] = Append(@, e)]
                                         /\ pc'[r] \in {"step", "handle_update", "done", "dead"}
                                         /\ \A q \in Runs \ {r} : pc'[q] = pc[q]
<1> USE DEF input, tables
<1>1. ASSUME NEW r \in Runs, Complete(r) \/ RaiseAfterCommit(r), log' # log
      PROVE  \E e \in Event : /\ PublishesStep(r, e)
                              /\ log' = [log EXCEPT ![r] = Append(@, e)]
                              /\ pc'[r] \in {"step", "handle_update", "done", "dead"}
                              /\ \A q \in Runs \ {r} : pc'[q] = pc[q]
  <2>1. pc[r] = "step" /\ Effect(r) /\ step[r] \in 1 .. 17 /\ LastStep = 17
    BY <1>1, ScriptFacts DEF Complete, RaiseAfterCommit, TypeOK
  <2>2. Publish(r)
    <3>1. ~ (Update(r) \/ FindDuplicate(r) \/ InsertMemory(r) \/ ReadOnly(r))
      BY <1>1 DEF Update, FindDuplicate, InsertMemory, ReadOnly
    <3> QED
      BY <2>1, <3>1 DEF Effect
  <2> DEFINE e == [type |-> Steps[step[r]].what, status |-> Steps[step[r]].status]
  <2>3. Steps[step[r]].what \in EventTypes /\ Steps[step[r]].status \in Statuses
    BY <2>1, <2>2, ScriptFacts, EventTypeFacts DEF Publish, StepFacts
  <2>4. e \in Event /\ log' = [log EXCEPT ![r] = Append(@, e)]
    BY <2>2, <2>3 DEF Publish, AppendEvent, Event
  <2>5. /\ pc'[r] \in {"step", "handle_update", "done"}
        /\ pc'[r] = "step" => step[r] # LastStep
        /\ \A q \in Runs \ {r} : pc'[q] = pc[q]
    BY <1>1, <2>1 DEF Complete, RaiseAfterCommit, Interrupt, Advance, NextStep, TypeOK
  <2>6. PublishesStep(r, e)
    BY <2>1, <2>2, <2>5 DEF PublishesStep, Publish
  <2> QED
    BY <2>4, <2>5, <2>6
<1>2. ASSUME NEW r \in Runs, HandlePublish(r) \/ HandleFails(r), log' # log
      PROVE  \E e \in Event : /\ PublishesFailure(r, e)
                              /\ log' = [log EXCEPT ![r] = Append(@, e)]
                              /\ pc'[r] \in {"step", "handle_update", "done", "dead"}
                              /\ \A q \in Runs \ {r} : pc'[q] = pc[q]
  <2> DEFINE e == [type |-> "run.failed", status |-> "failed"]
  <2>1. e \in Event
    BY DEF Event, EventTypes, Statuses
  <2>2. /\ pc[r] = "handle_publish" /\ log' = [log EXCEPT ![r] = Append(@, e)]
        /\ pc'[r] \in {"done", "dead"}
        /\ \A q \in Runs \ {r} : pc'[q] = pc[q]
    BY <1>2 DEF HandlePublish, HandleFails, AppendEvent, TypeOK
  <2> QED
    BY <2>1, <2>2 DEF PublishesFailure
<1>3. ASSUME NEW r \in Runs,
             \/ CreateRun(r) \/ StartFails(r) \/ StartRunner(r) \/ InsertRefused(r)
             \/ Raise(r) \/ HandleUpdate(r)
      PROVE  log' = log
  BY <1>3 DEF CreateRun, StartFails, StartRunner, InsertRefused, Raise, HandleUpdate
<1>4. CASE Crash \/ UNCHANGED vars
  BY <1>4 DEF Crash, vars
<1> QED
  BY <1>1, <1>2, <1>3, <1>4 DEF Next, Task

LEMMA OnlyTheLastStepEnds ==
  \A i \in 1 .. 17 : Steps[i].what \in TerminalEventTypes => i = 17 /\ Steps[i].what = "run.completed"
BY DEF Steps, Step, TerminalEventTypes

(* When a task publishes, its log is open, or closed by a run.completed.       *)
LEMMA PublishesInTurn ==
  ASSUME TypeOK, ScriptInv, ClosedInv, NEW r \in Runs, NEW e \in Event,
         PublishesStep(r, e) \/ PublishesFailure(r, e)
  PROVE  MayFollow(r, e.type)
<1> SUFFICES ASSUME NEW i \in DOMAIN log[r], log[r][i].type \in TerminalEventTypes
             PROVE  i = Len(log[r]) /\ log[r][i].type = "run.completed" /\ e.type = "run.failed"
  BY DEF MayFollow
<1>1. ~ Has(r, "run.failed")
  BY DEF ScriptInv, LogOK, PublishesStep, PublishesFailure
<1>2. log[r][i].type = "run.completed"
  BY <1>1 DEF Has, TerminalEventTypes
<1>3. PublishesFailure(r, e)
  BY <1>2 DEF ClosedInv, ClosedOK, Has, PublishesStep
<1>4. i = Len(log[r])
  <2>1. DOMAIN log[r] = 1 .. Len(log[r]) /\ Len(log[r]) \in Nat
    BY LenProperties DEF TypeOK
  <2>2. i = Len(log[r]) - 1 => i + 1 \in DOMAIN log[r]
    BY <2>1
  <2> QED
    BY <1>1, <2>2 DEF ClosedInv, ClosedOK, Has
<1> QED
  BY <1>2, <1>3, <1>4 DEF PublishesFailure

LEMMA ClosedInvInit == Init => ClosedInv
BY DEF Init, ClosedInv, ClosedOK, Has

LEMMA ClosedInvNext == TypeOK /\ ScriptInv /\ ClosedInv /\ [Next]_vars => ClosedInv'
<1> SUFFICES ASSUME TypeOK, ScriptInv, ClosedInv, [Next]_vars, NEW q \in Runs
             PROVE  ClosedOK(q)'
  BY DEF ClosedInv
<1>0. ClosedOK(q)
  BY DEF ClosedInv
<1>1. ASSUME log'[q] = log[q],
             pc'[q] \in {"absent", "committed", "orphan", "step"} =>
               pc[q] \in {"absent", "committed", "orphan", "step"}
      PROVE  ClosedOK(q)'
  BY <1>0, <1>1 DEF ClosedOK, Has
<1>2. CASE log' = log
  <2>1. pc'[q] \in {"absent", "committed", "orphan", "step"} =>
          pc[q] \in {"absent", "committed", "orphan", "step"}
    BY DEF Next, Task, CreateRun, StartFails, StartRunner, Complete, Advance, Raise, Interrupt,
           RaiseAfterCommit, InsertRefused, HandleUpdate, HandlePublish, HandleFails, Crash,
           vars, TypeOK, InMemory
  <2> QED
    BY <1>1, <1>2, <2>1
<1>3. ASSUME NEW r \in Runs, NEW e \in Event, PublishesStep(r, e) \/ PublishesFailure(r, e),
             log' = [log EXCEPT ![r] = Append(@, e)],
             pc'[r] \in {"step", "handle_update", "done", "dead"},
             \A k \in Runs \ {r} : pc'[k] = pc[k]
      PROVE  ClosedOK(q)'
  <2>1. CASE q # r
    BY <1>1, <1>3, <2>1 DEF TypeOK
  <2>2. CASE q = r
    <3>1. PICK n \in Nat : n = Len(log[r])
      BY LenProperties DEF TypeOK
    <3>2. /\ Len(log'[r]) = n + 1 /\ DOMAIN log'[r] = 1 .. n + 1 /\ DOMAIN log[r] = 1 .. n
          /\ log'[r][n + 1] = e /\ \A k \in 1 .. n : log'[r][k] = log[r][k]
      <4>1. log[r] \in Seq(Event) /\ log'[r] = Append(log[r], e)
        BY <1>3 DEF TypeOK
      <4> QED
        BY <3>1, <4>1, AppendProperties, LenProperties
    <3>3. MayFollow(r, e.type)
      BY <1>3, PublishesInTurn
    <3>4. ASSUME NEW i \in 1 .. n + 1, log'[r][i].type \in TerminalEventTypes
          PROVE  \/ i = n + 1
                 \/ /\ i = n
                    /\ log'[r][i].type = "run.completed" /\ log'[r][i + 1].type = "run.failed"
      BY <3>1, <3>2, <3>3, <3>4 DEF MayFollow
    <3>5. ASSUME Has(r, "run.completed")', pc'[r] = "step"
          PROVE  FALSE
      <4>1. PublishesStep(r, e) /\ step[r] \in 1 .. 17 /\ step[r] # 17
        BY <1>3, <3>5, ScriptFacts DEF PublishesStep, PublishesFailure, TypeOK
      <4>2. e.type # "run.completed"
        BY <4>1, OnlyTheLastStepEnds DEF PublishesStep, TerminalEventTypes
      <4>3. Has(r, "run.completed")
        BY <3>2, <3>5, <4>2 DEF Has
      <4> QED
        BY <4>1, <4>3 DEF ClosedInv, ClosedOK, PublishesStep
    <3> QED
      BY <1>3, <2>2, <3>2, <3>4, <3>5 DEF ClosedOK
  <2> QED
    BY <2>1, <2>2
<1> QED
  BY <1>2, <1>3, LogStep

(* run() and its except block publish, retry nothing and publish nothing after *)
(* the end: what a run adds to its log is what EventStream and RunStore let    *)
(* follow.                                                                     *)
THEOREM NothingFollowsTheEnd ==
  Spec => [][\A r \in Runs : log'[r] # log[r] =>
               \E e \in Event : log'[r] = Append(log[r], e) /\ MayFollow(r, e.type)]_vars
<1> DEFINE Follow == \A r \in Runs : log'[r] # log[r] =>
             \E e \in Event : log'[r] = Append(log[r], e) /\ MayFollow(r, e.type)
<1>1. TypeOK /\ ScriptInv /\ ClosedInv /\ [Next]_vars => [Follow]_vars
  <2> SUFFICES ASSUME TypeOK, ScriptInv, ClosedInv, [Next]_vars, NEW q \in Runs, log'[q] # log[q]
               PROVE  \E e \in Event : log'[q] = Append(log[q], e) /\ MayFollow(q, e.type)
    OBVIOUS
  <2>1. PICK r \in Runs, e \in Event : /\ PublishesStep(r, e) \/ PublishesFailure(r, e)
                                       /\ log' = [log EXCEPT ![r] = Append(@, e)]
    BY LogStep
  <2>2. q = r /\ log'[q] = Append(log[q], e)
    BY <2>1 DEF TypeOK
  <2> QED
    BY <2>1, <2>2, PublishesInTurn
<1>2. TypeOK /\ RunInv /\ MemoryInv /\ ScriptInv /\ [Next]_vars => ScriptInv'
  BY ScriptInvNext
<1> QED
  BY <1>1, <1>2, ScriptInvInit, ClosedInvInit, ClosedInvNext, RunInvariant, MemoryInvariant, PTL
     DEF Spec

(* The events of overlapping, failing and dying runs form the append-only log  *)
(* that the table of runtime_events is proved to be (EventLogProofs).          *)
THEOREM RunnerAppends == Spec => RunnerLog!Spec
<1>1. Init => RunnerLog!Init
  BY DEF Init, RunnerLog!Init
<1>2. TypeOK /\ [Next]_vars => [RunnerLog!Next]_log
  <2> SUFFICES ASSUME TypeOK, [Next]_vars, log' # log
               PROVE  RunnerLog!Next
    OBVIOUS
  <2>1. PICK r \in Runs, e \in Event : log' = [log EXCEPT ![r] = Append(@, e)]
    BY LogStep
  <2>2. RunnerLog!Append1(r, e)
    BY <2>1 DEF RunnerLog!Append1
  <2> QED
    BY <2>2 DEF RunnerLog!Next
<1> QED
  BY <1>1, <1>2, RunInvariant, PTL DEF Spec, RunnerLog!Spec
==============================================================================
