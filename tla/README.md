# Paris Agent: a TLA+ verification project

Paris Agent is an agent workbench: a FastAPI back end that runs agent tasks in
the background, records what they do in PostgreSQL and streams it to a Vue
front end with server-sent events. This directory models the parts of it whose
correctness depends on the order in which things happen, checks the models with
TLC and proves the main results with TLAPS. File and line references are to the
source tree of the repository (`backend/app/...`, `frontend/src/...`).

- [1. The system](#1-the-system)
- [2. Modules](#2-modules)
- [3. Runs](#3-runs)
- [4. Fairness](#4-fairness)
- [5. Proofs](#5-proofs)
- [6. Disagreements between the code and its documents](#6-disagreements-between-the-code-and-its-documents)
- [7. What is not modelled, and the plan](#7-what-is-not-modelled-and-the-plan)
- [8. Running everything](#8-running-everything)

## 1. The system

| Component | State | Operations | Talks to |
|---|---|---|---|
| Run creation (`api/routes_agent.py`) | rows of `agent_runs`, `agent_skill_runs` | `POST /runs` commits run and binding, starts a task; `GET /runs/{id}` reads | selection, runner |
| Mock runner (`agent/mock_runner.py`) | one asyncio task per run | `start`, `run`: a script of commits to the row and to the event log, and an except block | repositories, broker, memory |
| Runtime events (`db/repositories/runtime_events.py`) | `runtime_events`, unique on (run, sequence) | `append` (lock, max, insert, commit), `list_after_sequence`, `get_by_event_id` | PostgreSQL, SQLite in tests |
| Event broker (`agent/events.py`) | a `Condition` per run, in memory | `notify`, `wait_for_notification` | runner, SSE endpoint |
| SSE endpoint (`api/routes_agent.py`) | cursor of each stream | replay, wait, heartbeat, end on a terminal event, `Last-Event-ID` | events, broker, browser |
| Browser event source (`api/agentEvents.ts`) | an `EventSource`, a connection id | connect, reconnect (by the browser), close on a terminal event | SSE endpoint, store |
| Front-end run store (`stores/agentRun.ts`) | current run, events seen, last sequence, pending message | submit, handle event, snapshot refresh, close, reset | API, event source |
| Memory (`memory/manager.py`, `db/repositories/memories.py`) | `agent_memories`, unique on active content, version column | manual and consolidated create, optimistic update, soft delete, paging, access counters | API, runner |
| Memory retrieval (`memory/retriever.py`) | none | candidates, score, sort, cut | memory repository |
| Skill registry (`skills/*`) | `agent_skills`, `agent_skill_versions`, a ready flag | start-up synchronisation, selection, listing | run creation |
| Sessions and pool (`db/session.py`) | pooled connections | check-out per request, task and stream | everything |
| Memory page (`pages/MemoryPage.vue`) | list, cursor, editor | load, load more, save, remove | memory API |

What is hard about it:

- a transition of a run is two commits (the row, then the event), and every one
  of them may fail before or after it took effect; the process may die between;
- appends of overlapping transactions must number events without a gap, because
  readers page with `sequence > cursor`;
- a notification and the wait for it are not atomic with the query before it,
  and the broker does not reach other processes;
- connections break with events in flight, and the browser resumes them;
- check-then-insert on memories races between clients and runs, and transactions
  that lock several rows can wait in a cycle;
- instances of the service that start at the same time publish definitions into
  the same tables, each in one long transaction;
- rows move in the sort order of a listing while it is paged;
- the store and the pages of the front end mix answers of several requests.

`PROJECT.json` lists these hazards at their lines, with the property that would
catch each one, and the components with what is modelled of them.

What makes each component correct:

- *events*: sequences 1..n per run, append only, no writer left waiting;
- *stream*: every client that stays is handed the whole log, once, in order, and
  its stream ends with the run;
- *run*: row, log and memories agree whatever failed; a started run ends;
- *memory*: one active row per identity (type, scope, project, content); no update
  is lost; every request ends; paging shows each row that did not change exactly once;
- *skills*: a run is bound to a published version that never changes; a ready
  instance finds what it was deployed with; the default skill is always there;
- *run store*: events, timeline and answers belong to the run and the message they
  were made for; the input becomes free again.

## 2. Modules

### EventLog, AppendOnlyLog: `RuntimeEventRepository.append`

`EventLog` executes `append` and the `_publish_event` around it one SQL statement
at a time. A *writer* is one transaction; its `pc` names the next statement:

| Action | Code |
|---|---|
| `Begin(w, r)` | the call of `append` (`MaxEvents` bounds the log) |
| `SelectRun(w)` | `SELECT ... FOR UPDATE` on `agent_runs`; no lock when `RowLock` is FALSE (SQLite) |
| `SelectMax(w)` | `coalesce(max(sequence), 0) + 1` over committed rows |
| `Insert(w)` / `UniqueViolation(w)` | the flush; waits while another transaction holds the same key uncommitted |
| `Commit(w)` | `session.commit()`, releases the lock |
| `RollBack(w)` | any other failure: the session closes |
| `Notify(w)` / `RefreshFails(w)` | `broker.notify`, or `refresh` raises after the commit |

`rows[r]` is a function from sequence to writer, not a sequence: that it is one is
a property (`Gapless`). `AppendOnlyLog` is the abstract specification, with one
action: an entry is appended to one run's log. `EventLog` implements it with
`log <- rows, Entries <- Writers`.

### EventStream, EventFeed: broker, SSE endpoint, reconnecting clients

`EventStream` follows one run. `log` holds the event types by sequence; that
persisting is one step is what `EventLog` is proved to allow. A generator's
`pc` stands at its awaits:

| Action | Code |
|---|---|
| `Persist(k)`, `Notify`, `SkipNotify` | `_publish_event`; a notification may be missing (refresh fails, notify raises, the run executes in another process) |
| `Connect(c)` | request validation, `Last-Event-ID` to sequence |
| `Query(c)` | `list_after_sequence` |
| `Yield(c)` | one iteration of the `for`, with the `break` on a terminal event |
| `EnterWait(c)` | joining the `Condition`; between `Query` and this a notification is lost |
| `HeartbeatTimeout(c)` | `wait_for` times out |
| `Receive(c, closes)` | the browser gets an event; `closes` is the `close()` after a terminal event, which does not happen when the event cannot be parsed |
| `EndOfResponse(c)`, `Drop(c)`, `Leave(c)`, `Restart` | end of the response, broken connection, user leaves, process dies |

`got[c]` is what client `c` received over all its connections and
`listening[c]` whether it still wants more. `MayFollow` says which events a runner
can still publish: nothing after a terminal event, except `run.failed` after a
`run.completed` whose publication raised. The 400 and 404 answers of the endpoint
change no state and are left out. `EventFeed` is the abstract promise: the log
grows, and each client is handed its next element.

### RunLifecycle: run creation, runner, except block, consolidation

The `Steps` table is the script of `MockAgentRunner.run`: one record per awaited
operation, with the part of the memory policy that guards it. `Complete(r)`
executes the current step (`Publish`, `Update`, `FindDuplicate`, `InsertMemory`,
`ReadOnly`) and moves to the next step that the policy permits. Failures are
actions of their own: `Raise` (the transaction rolled back), `RaiseAfterCommit`
(the commit took effect, the acknowledgement or the `refresh` after it failed),
`InsertRefused` (the unique index), `HandleFails` (inside the except block),
`StartFails` (`refresh` in the request handler) and `Crash`. All runs share
`memories`, the active rows of `agent_memories`.

Abstractions: a content is a model value and the extractor's result an input, as
is the memory policy of the bound skill version; a row keeps its status and the
set of columns that are filled; payloads, costs and delays are left out.
`Scripted` and `Place` say which steps publish under a run's policy and where in
its log such an event belongs. Every
run has a binding, because `create_agent_run` commits both together;
`AgentRunRepository.create` without a binding is only called by tests. Memories
are not deleted or edited here (that is `MemoryStore`). All runs belong to one
user, as the code takes the user from its settings.

### MemoryStore, MemoryRegister: the writers of `agent_memories`

`MemoryStore` executes the memory API (`create_manual`, `update`, `delete`), the
consolidation of a run and the access counters of a retrieval as overlapping READ
COMMITTED transactions, one SQL statement at a time. `rows` is the committed
table, `draft` the rows as an open transaction leaves them, `owner` whose they are.

| Action | Code |
|---|---|
| `Create(q)`, `Write(q)`, `Search(q)` | a request, or a step of a run, begins |
| `FindDuplicate(q)` | `find_active_duplicate`; a duplicate ends the request |
| `Insert(q)` | the INSERT, which waits for a holder of its key in another transaction |
| `Read(q)` | `get`, the version test, merging the PATCH body, the scope tests |
| `Lock(q)` | the UPDATE has its row: the `WHERE` is evaluated on the committed one |
| `Index(q)` | the new row version enters the partial unique index |
| `Reread(q)` | no row matched: 404 or 409 |
| `Refuse(q)` | IntegrityError of the unique index or a CHECK |
| `Touch(q)` | `touch_access_batch` locks its next row |
| `Commit(q)`, `Abort(q)`, `DeadlockVictim(q)` | the ends of a transaction |

A memory is its identity (what the content hash covers), version and deletion;
tags, scores and dates are overwritten without a condition and left out.
`raced` is a history variable: the writers whose content another transaction
stored after they had looked for it. `MemoryRegister` is the abstract
specification: a set of compare-and-set registers without duplicates.

### SkillRegistry: start-ups, published versions, bindings

Instances start with one of `DefinitionSets`, validate it and run
`sync_skill_definitions` statement by statement; `pc` names the next one. `skills`,
`draft` and `owner` are as above, `added` holds the versions an open transaction
has inserted.

| Action | Code |
|---|---|
| `Start(i)`, `Fail(i)`, `Stop(i)` | `lifespan`; any exception rolls back and ends the process |
| `SelectSkill(i)`, `InsertSkill(i)`, `SkillExists(i)`, `UpdateSkill(i)`, `RefreshSkill(i)` | `upsert_metadata`; only columns that differ from the loaded row are written |
| `SelectVersion(i)`, `Tampered(i)` | the published version and the comparison of hashes |
| `InsertVersion(i)`, `VersionExists(i)` | `create_immutable` under the unique key |
| `SetDefault(i)` | `set_default_version`, no UPDATE when the loaded row has it |
| `ListSkills(i)`, `DisableSkill(i)` | enabled skills without a file |
| `Commit(i)` | the commit and `mark_ready` |
| `SelectForRun(r)`, `BindRun(r)` | `select_skill` and `create_binding` of a run |
| `DeadlockVictim(i)` | PostgreSQL aborts one of a cycle of start-ups |

A definition is a version and a content; the content stands for the hash, which
covers the whole file. `sync[i].left` is the set of skills the present loop has
left and `sync[i].turn` the one it is at: the first in the order of the files in the
loop over the definitions (`TurnByFile`), any of them in the loop that disables
skills (`TurnsByName`), which goes by the names of the rows, as `list()` orders them.
History: `overlapping` and `lastSet` tell whether the last publication met another
start-up.

### RunStore: `stores/agentRun.ts` with `AgentEventSource`

Each action is one callback; what the code does between two awaits is one step.
The run of submission *t* is called *t*, and so is its assistant message;
`connections` are the `EventSource` objects in the order of their creation.

| Action | Code |
|---|---|
| `Submit` | `submitMessage` up to its await |
| `CreateAnswered(t)`, `CreateFails(t)`, `CreateOvertaken(t)` | after the await, with the comparison of the token |
| `Open(n)`, `Drop(n)`, `Refuse(n)` | `onopen`, `onerror` |
| `Receive(n)` | an event listener, its `try`: `handleEvent`, and `close()` after a terminal event |
| `Ignore(n)` | its `catch`: an event that cannot be parsed, terminal or not, sets the error text and changes nothing else |
| `LoseRun(n)` | external: the task of the streamed run dies, and only heartbeats follow |
| `RefreshAnswered(r)`, `RefreshFails(r)` | `refreshRunSnapshot` after its await |
| `Reset`, `Leave`, `Enter` | `reset()`, `ChatPage` unmounted and mounted |

What a connection may hand over is what `EventStream` proves and `RunLifecycle`
publishes: events once and in order, as far as the run gets (`LoseRun`), possibly a
second terminal one. Any of them may turn out not to be parsable; that `handleEvent`
itself throws on an event that was parsed is left out.
`reset()` has no caller in the pages; the store exports it, so it is an action.

### MemoryPage: the cursor-paged list

The page's `load` and `loadMore` with answers out of order, over a table whose
rows get new time stamps (`Write`, `Touch`) at any moment. Time stamps are chosen
freely: the code takes them from two clocks before the commit. `List` is the
query: cursor condition (`After`), order (`Before`), `LIMIT limit + 1`; `Pages`
states the order and the limit as conditions on the answer, of which ids that are
unique leave one. `changed` and `mixed` are
history variables: the rows that changed since the first page, and whether pages
of two listings were put together.

### Mutants

Operators whose comment begins with *Mutant* are plausible bugs in the
definition that follows them: a forgotten lock, a missing `break`, `DESC` for
`ASC`. They are not part of any specification. `PROJECT.json` pairs each checked
property with a mutant that violates it.

## 3. Runs

| Run | Instance | Checks |
|---|---|---|
| `log_postgresql` | 2 runs, 2 writers, 2 events per run, row lock | `TypeOK`, `SequencesNeverCollide`, `AnnouncedIsCommitted`, `AppendsEnd` |
| `log_sqlite` | 1 run, 3 writers, 4 events, no row lock | `Gapless`, `ImplementsLog` |
| `stream` | 2 clients, 3 events, 2 drops, 1 restart | `TypeOK`, `DeliveredInOrder`, `ImplementsFeed`, `EventuallyDelivered`, `StreamsEnd` |
| `run` | 2 runs, 1 content, 2 faults, 1 crash | `TypeOK`, `EventsFollowScript`, `FinishedRunsAgree`, `RowConsistent`, `MemoriesConsolidated`, `EventStatusIsCurrent`, `StartedRunsEnd` |
| `memory_store` | 2 open transactions, 2 memories, 3 identities, 2 versions | `TypeOK`, `OneActivePerIdentity`, `RefusedOnlyByRace`, `OnlyRetrievalsDeadlock`, `NoLostUpdate`, `ImplementsRegister`, `RequestsEnd` |
| `skill_registry` | 2 instances, 3 start-ups, 8 sets of 2 skills, 1 run | `TypeOK`, `ReadyMeansPublished`, `DefaultSkillResolves`, `BindingsKeepTheirVersion`, `LastSetIsPublished`, `PublishedNeverChanges`, `StartupsEnd` |
| `run_store` | 3 submissions or resets, 3 events per run, 2 drops, 2 leaves | `TypeOK`, `TimelineOfCreatedRun`, `AnswerInItsMessage`, `PendingOnlyWhileBusy`, `CompletedMessagesStay`, `BusyEnds` |
| `memory_page` | 3 memories, pages of 1, 2 time stamps, 2 requests | `TypeOK`, `UnchangedListedOnce` |

Why the bounds are enough. *Log*: a wrong number needs two transactions that
overlap and a third that builds on the result; with the row lock the second run
shows that the lock is per run. Four events let a writer come back after it was
refused. *Stream*: three events give a batch of one, a batch of several, a
progress event before a terminal one and a second terminal event; one drop and
one restart resume a stream at each of its positions; clients do not interact,
and two show it. *Lifecycle*: two runs are what the memory race needs; two faults
reach a failure inside the error handling of a failure; one crash may hit any
step. A run's steps are not bounded: the script is finite. *Memories*: each race
here is between two transactions, and any number of them follow each other; two
memories give a retrieval two rows to lock and an update a key to wait for; with
one content, an identity is moved by its type and its scope. *Skills*: a third
start-up meets what two overlapping ones left, or overlaps the second; the sets
contain every definition of a skill that may be missing, two versions of the
default one and a set that does not validate. *Run store*: an answer can be two
tokens late, and the answers of two runs cross. *Page*: pages of one put a cursor
between any two rows, and two stamps let a row move to either side or tie.

All passing runs but `memory_page` have `CHECK_DEADLOCK FALSE` because the modelled
systems stop: a log reaches `MaxEvents`, clients leave, runs end, nobody sends a
request. Anyone may always write the table of `memory_page`.

Four properties are stated only to be refuted (section 6) and have runs with the
smallest bounds that show the behaviour: `stream_ended`, `run_final`,
`store_snapshot`, `page_stable`.

## 4. Fairness

- `EventLog`: weak fairness of the statements a server simply answers; strong
  fairness of the two that wait, for the row lock and for the unique index, because
  PostgreSQL queues waiters and a lock that is free again and again is granted.
  Nothing is assumed of failures.
- `EventStream`: weak fairness of the generator (the event loop runs ready tasks and
  the heartbeat timer fires), of reception, of reconnection and of the end of a
  response. Nothing is assumed of the publisher: it may stop anywhere and never
  notify, so delivery rests on the timeout alone, as it does in the code.
- `RunLifecycle`: weak fairness of each task's next operation. A fault may happen
  instead; faults and crashes are never forced.
- `MemoryStore`: weak fairness of the statements the database answers and of its
  deadlock detector, strong fairness of the statements that wait for a row or a key.
- `SkillRegistry`: weak fairness of the next statement of a start-up and of the
  deadlock detector. That suffices although statements wait: an instance ends after
  finitely many statements, and start-ups are finite.
- `RunStore`: a request is answered or fails (the client has a timeout), and a
  connection opens or is refused and hands over the next event, parsed or not, of a
  run that is not over. Nothing is assumed of a run that is over or lost, and a run
  may be lost at any moment (`RunLifecycle`'s `dead` and `lost`). So `BusyEnds` has
  two exceptions, which `AwaitsNothing` names and the code really has: the streamed
  run was lost, or its terminal event could not be parsed, and the connection stays
  open with heartbeats until the page is left. Broken connections are bounded by
  `MaxDrops`.
- `MemoryPage` has safety properties only.

## 5. Proofs

Each proof module extends the module it is about and holds for every value of
the constants, under the module's named assumptions: distinguished values (`NoRow`,
`NoVersion`, ...) are not members of the sets they mark the absence from, bounds are
natural numbers, and what the module's comments say of its parameters (a script
ends with `run.completed`, a page holds at least one row, definitions are written
over the declared skills). TLC evaluates each assumption in the runs.

Every invariant that a passing run checks is stated by a theorem, and so are the
action properties and the three refinements:

| Module | Theorems | Inductive invariant |
|---|---|---|
| `EventLog` | `TypeCorrect`, `NoGaps`, `NoCollisions`, `OnlyCommittedAnnounced`, `LogRefinement` | `LogInv`, `LockInv` |
| `EventStream` | `TypeCorrect`, `InOrderDelivery`, `FeedRefinement` | `StreamInv` |
| `RunLifecycle` | `TypeCorrect`, `FinishedRunsAreClosed`, `RowsAreConsistent`, `EventsCarryTheStatus`, `MemoriesStayConsolidated`, `LogsFollowTheScript`, `NothingFollowsTheEnd`, `RunnerAppends` | `RunInv`, `MemoryInv`, `ScriptInv`, `ClosedInv` |
| `MemoryStore` | `TypeCorrect`, `UniqueActiveMemories`, `WritesAreCompareAndSet`, `RefusalNeedsRace`, `WritersDoNotDeadlock`, `RegisterRefinement` | `TableInv`, `KeysExclusive`, `RacedInv`, `NotBehind`, `NoCycle` |
| `SkillRegistry` | `TypeCorrect`, `VersionsAreImmutable`, `BindingsAreCurrent`, `ReadyInstancesArePublished`, `DefaultIsResolvable`, `LastStartupWins` | `StartInv`, `AddedInv`, `VersionsInv`, `DefaultsInv`, `AloneInv` |
| `RunStore` | `TypeCorrect`, `TimelineIsOneRun`, `AnswersStayApart`, `PendingIsAttended`, `CompletedMessagesAreFinal` | `StoreInv` |
| `MemoryPage` | `TypeCorrect`, `UnchangedRowsAreListedOnce` | `PageInv` |

**EventLogProofs.** `LogInv` strengthens `Gapless`, which is not inductive: an
insert computed from an old maximum could leave a gap. It adds that the number a
writer computed lies in 1..Len + 1 of its log until it is inserted
(`ComputedInRange`), that it equals Len + 1 once the row is flushed
(`FlushedIsNext`), and that a log has at most one flushed, uncommitted row
(`OneFlushed`): that is why the commit of another writer cannot falsify
`FlushedIsNext`. `NoGaps`, `TypeCorrect` and `LogRefinement` follow, for both
dialects. `NoCollisions` assumes `RowLock` and adds `LockInv`: a writer between its
select and its commit owns its run's lock, and its number is still Len + 1 when it
inserts. `OnlyCommittedAnnounced` rests on the place of `notify` behind the commit.

**EventStreamProofs.** `StreamInv` says, per client, that what it received is
1..n (`ReceivedInOrder`), that what is in flight continues it (`FlightContinues`),
that the cursor of a generator is the number of events received or in flight
(`CursorBehind`), that the batch it yields begins right after the cursor
(`BatchContinues`), and that nothing is in flight without a connection.
`InOrderDelivery` and `FeedRefinement` (reception is `Deliver`, persisting is
`Publish`, all else stutters) follow.

**RunLifecycleProofs.** `ScriptFacts` reads off the script what the argument needs:
an event carries the status that precedes it, only steps 3 and 16 update the row,
and only steps 12 to 15 need the write permission. `RunInv` ties the row's status
to the position of the task, the closing event to the end of the task and the
filled columns to the status; `EventsCarryTheStatus`, `FinishedRunsAreClosed` and
`RowsAreConsistent` follow. `MemoryInv` adds that a task at steps 13 to 15 has
announced its write and that a run owns a memory only behind step 14, which gives
`MemoriesStayConsolidated`. `ScriptInv` ties the length of a log to the number of
publishing steps before the task's step, and its content to the script; the memory
policy decides which steps those are, so `Place` counts them (`LogsFollowTheScript`).

Two theorems join the modules. `RunnerAppends`: the runs implement `AppendOnlyLog`,
the specification that `EventLog` is proved to implement. `NothingFollowsTheEnd`: a
task adds one event at a time, and none after a terminal one except `run.failed`
after `run.completed`; this is `MayFollow` of `EventStream` and, with
`LogsFollowTheScript`, of `RunStore`. `ClosedInv` carries it: a completed run is past
its script.

**MemoryStoreProofs.** `TableInv` says what each transaction may have made of each
row it owns, and that an update or delete past its UPDATE owns its row. So the version
it compared is still there when it commits (`WritesAreCompareAndSet`).
`KeysExclusive` counts the keys of the partial unique index, where a memory holds its
old and its new one while its transaction is open; `UniqueActiveMemories` and
`RegisterRefinement` follow. `RacedInv` remembers whose content was stored after its
search (`RefusalNeedsRace`). For `WritersDoNotDeadlock`: of the writers only an
update at the index holds a row while it waits, so a cycle of them would be one of
updates that wait for each other's keys. `NoCycle` excludes it: the one that searched
last would have found the content of the row it waits for, which cannot have changed
since it was read (`NotBehind`). A retrieval locks several rows, and can deadlock.

**SkillRegistryProofs.** `StartInv` says what a loop works on, which rows exist for it
and which it owns; the other invariants rest on it. `AddedInv`: an uncommitted version
has one inserter and no committed row has its key, so a commit overwrites nothing
(`VersionsAreImmutable`, `BindingsAreCurrent`). `VersionsInv`: the skills a loop is over
with have their version with the wanted content, for this instance while it is open and
for everyone after its commit (`ReadyInstancesArePublished`). `DefaultsInv`: the default
version of every committed row is published and nobody disables the default skill
(`DefaultIsResolvable`), although a transaction may leave a default alone because its
stale copy of the row already had it. `AloneInv`: without an overlap no copy is stale
(`LastStartupWins`).

**RunStoreProofs.** `StoreInv` relates token, run, timeline and connections: while a create
request is awaited there is no run and only the placeholder; the run that is followed
is the one of the last token; at most one connection is live, it is the newest, it is
the run's and stands behind all events of the timeline (events that could not be parsed
are missing from it). So an event that passes the comparison of connection ids is a new
event of the current run, and the pending message is its own.

**MemoryPageProofs.** `UnchangedListedOnce` says nothing of answers on their way.
`PageInv` cuts the listing at its cursors: the list on the screen covers, each once, the
unchanged rows up to its cursor, and an answer in flight those between the cursor it was
asked with and the one it brings. Joining the two needs only that rows are ordered
without ties and that an answer is the first of what follows the cursor.

Left to TLC alone: the liveness properties (`AppendsEnd`, `EventuallyDelivered`,
`StreamsEnd`, `StartedRunsEnd`, `RequestsEnd`, `StartupsEnd`, `BusyEnds`), because
liveness under fairness and ENABLED are out of the prover's reach. The refutations of
section 6 are TLC counterexamples. That the proved facts about the modules hold of the
code rests on the modules being faithful to it.

## 6. Disagreements between the code and its documents

| Run | What the code does | What is said of it |
|---|---|---|
| `stream_ended` | a client whose `Last-Event-ID` is the terminal event gets heartbeats for ever | P4 design, line 250: replay to the terminal event, then close |
| `run_final` | a failing `run.completed` turns succeeded into failed | `agent_run.py:166`: queued, running, then an end state |
| `store_snapshot` | the answer of the old run's snapshot request replaces the run submitted since | P4 design, lines 376 and 480: an old run cannot overwrite the new one; P3 plan, line 163: the GET of a run ignores an outdated token |
| `page_stable` | a retrieval sets `updated_at` through the column's `onupdate`, so rows nobody edited pass the cursor and the listing misses them | P6 design, line 434: the cursor guarantees stable pages; lines 551-552: a retrieval updates two counters |

One disagreement has no run, because the property that touches it holds of the code:
`EventsFollowScript` checks the sequence that `MockAgentRunner.run` publishes and
`tests/test_agent_runs_api.py:134-144` lists. The P6 design documents another one for
the memory policies (19.1, lines 625-635, and 19.2, lines 685-698): retrieval before
`run.started`, the write before `node.started`, and the names `memory.retrieved` and
`memory.written`. The code publishes `run.started` before the retrieval, writes after
`node.completed`, and calls the events `memory.retrieval.completed` and
`memory.write.completed`. That the property passes says nothing for the design.

What else the models show, without a document against it or as the price of a
known limit: an exception inside the except block ends the task unreported
(`HandleFails`, state `dead`); a run whose task was lost stays queued and a crash
between the two commits leaves `run.completed` out (`Crash`, state `lost`); the loser
of two concurrent writes of one content gets an IntegrityError, a 500 or a failed
run, in place of the 409 or the reuse (`Refuse`, `InsertRefused`); leaving the page
while the create request is in flight opens a connection off the page (`Connected`);
a reload that overtakes "load more" mixes two listings (`mixed`).

## 7. What is not modelled, and the plan

Not modelled, because it is pure or stateless: parsing YAML, request validation
beyond the scope rule, the listings of skills, routing and rendering, migrations,
health checks. Not modelled, because of its data: the floating-point score of a
memory and the order it gives; the search around it (filter, LIMIT, tag filter,
sort) is a pure query with no promise to check it against. Not modelled, because it
is a limit of a library: the connection pool and streams that occupy it. The memory
editor's form and dialog are left out of `MemoryPage`: they never reach the list.

What could follow:

1. `RunSystem`: `RunLifecycle` and `EventStream` composed, so that a stream ends
   with its run end to end. Today two theorems are the link (`RunnerAppends`,
   `NothingFollowsTheEnd`, section 5): they carry over safety, not the liveness of the
   whole.
2. `ConnectionPool`: streams against requests and tasks for a bounded pool.
3. Theorems about the abstract specifications themselves (`MemoryRegister`,
   `EventFeed`), so that their promises are read off them and not only off the
   detailed modules.

## 8. Running everything

    tlc -workers 2 -config RunLifecycle.cfg MCRunLifecycle.tla
    tlapm RunLifecycleProofs.tla

`PROJECT.json` gives module and configuration of each run. The largest, `memory_page`
(3.5 million states), `run` and `skill_registry`, take about two minutes each; the
proofs take from seconds to a few minutes each.
