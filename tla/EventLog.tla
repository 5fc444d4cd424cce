------------------------------- MODULE EventLog -------------------------------
(***************************************************************************)
(* RuntimeEventRepository.append and MockAgentRunner._publish_event, one   *)
(* SQL statement at a time.  A writer is one database transaction that     *)
(* appends one event to the log of one run: it locks the run's row in      *)
(* agent_runs, reads the largest committed sequence, inserts its event     *)
(* with the next sequence, commits, and then tells the in-process broker.  *)
(* Any statement may fail, which rolls the transaction back; the refresh   *)
(* after the commit may fail too, and then the event stays in the table    *)
(* but the broker is never told.                                           *)
(*                                                                         *)
(* The production dialect takes the row lock, the SQLite dialect of the    *)
(* tests does not; there only the unique constraint on (run_id, sequence)  *)
(* stands between two concurrent writers.                                  *)
(***************************************************************************)
EXTENDS Integers, Sequences, FiniteSets

CONSTANTS Runs,        \* run_id of the agent runs
          Writers,     \* transactions that append events
          NoWriter,    \* no transaction holds the row lock
          RowLock,     \* TRUE for PostgreSQL (FOR UPDATE), FALSE for SQLite
          MaxEvents    \* bound: events per run

ASSUME EventLogAssumption ==
  /\ NoWriter \notin Writers
  /\ RowLock \in BOOLEAN
  /\ MaxEvents \in Nat

VARIABLES rows,        \* rows[r]: committed events of r, a function from sequence to writer
          lock,        \* lock[r]: the writer that holds r's row lock
          pc,          \* pc[w]: the statement writer w executes next
          target,      \* target[w]: the run w appends to
          sequence,    \* sequence[w]: next_sequence as computed by w
          announced    \* announced[r]: sequences whose writer called Broker.notify

vars == <<rows, lock, pc, target, sequence, announced>>

Statements == {"idle", "select_run", "select_max", "insert", "commit", "notify"}

(* Statements a writer executes inside its transaction. *)
InTransaction == {"select_run", "select_max", "insert", "commit"}

Appending(r) == {w \in Writers : pc[w] \in InTransaction /\ target[w] = r}

(* Mutants of LastSequence: numbering that starts at 0, and at 2. *)
LastSequenceFromMinusOne(r) ==
  CHOOSE n \in DOMAIN rows[r] \cup {-1} : \A m \in DOMAIN rows[r] : m <= n

LastSequenceFromOne(r) ==
  CHOOSE n \in DOMAIN rows[r] \cup {1} : \A m \in DOMAIN rows[r] : m <= n

(* coalesce(max(sequence), 0) over the committed events of r. *)
LastSequence(r) ==
  CHOOSE n \in DOMAIN rows[r] \cup {0} : \A m \in DOMAIN rows[r] : m <= n

(* Some transaction has inserted (r, n) and not committed yet. *)
Uncommitted(r, n) ==
  \E v \in Writers : pc[v] = "commit" /\ target[v] = r /\ sequence[v] = n

Init ==
  /\ rows = [r \in Runs |-> << >>]
  /\ lock = [r \in Runs |-> NoWriter]
  /\ pc = [w \in Writers |-> "idle"]
  /\ target \in [Writers -> Runs]
  /\ sequence = [w \in Writers |-> 0]
  /\ announced = [r \in Runs |-> {}]

------------------------------------------------------------------------------
(* append(run_id, ...) is called; MaxEvents bounds the log. *)
Begin(w, r) ==
  /\ pc[w] = "idle"
  /\ Cardinality(DOMAIN rows[r]) + Cardinality(Appending(r)) < MaxEvents
  /\ pc' = [pc EXCEPT ![w] = "select_run"]
  /\ target' = [target EXCEPT ![w] = r]
  /\ UNCHANGED <<rows, lock, sequence, announced>>

(* Mutant of SelectRun: FOR UPDATE is forgotten. *)
SelectRunUnlocked(w) ==
  /\ pc[w] = "select_run"
  /\ pc' = [pc EXCEPT ![w] = "select_max"]
  /\ UNCHANGED <<rows, lock, target, sequence, announced>>

(* SELECT ... FROM agent_runs, with FOR UPDATE unless the dialect is SQLite. *)
SelectRun(w) ==
  /\ pc[w] = "select_run"
  /\ IF RowLock
       THEN /\ lock[target[w]] = NoWriter
            /\ lock' = [lock EXCEPT ![target[w]] = w]
       ELSE UNCHANGED lock
  /\ pc' = [pc EXCEPT ![w] = "select_max"]
  /\ UNCHANGED <<rows, target, sequence, announced>>

(* SELECT coalesce(max(sequence), 0): READ COMMITTED, so committed rows only. *)
SelectMax(w) ==
  /\ pc[w] = "select_max"
  /\ sequence' = [sequence EXCEPT ![w] = LastSequence(target[w]) + 1]
  /\ pc' = [pc EXCEPT ![w] = "insert"]
  /\ UNCHANGED <<rows, lock, target, announced>>

(* Mutants of Insert: the broker is told before the commit; the table has no    *)
(* unique constraint.                                                          *)
InsertAnnounces(w) ==
  /\ pc[w] = "insert"
  /\ sequence[w] \notin DOMAIN rows[target[w]]
  /\ ~ Uncommitted(target[w], sequence[w])
  /\ pc' = [pc EXCEPT ![w] = "commit"]
  /\ announced' = [announced EXCEPT ![target[w]] = @ \cup {sequence[w]}]
  /\ UNCHANGED <<rows, lock, target, sequence>>

InsertUnchecked(w) ==
  /\ pc[w] = "insert"
  /\ pc' = [pc EXCEPT ![w] = "commit"]
  /\ UNCHANGED <<rows, lock, target, sequence, announced>>

(* The flush of session.commit() sends the INSERT.  The unique index makes it *)
(* wait for an uncommitted transaction that holds the same key.               *)
Insert(w) ==
  /\ pc[w] = "insert"
  /\ sequence[w] \notin DOMAIN rows[target[w]]
  /\ ~ Uncommitted(target[w], sequence[w])
  /\ pc' = [pc EXCEPT ![w] = "commit"]
  /\ UNCHANGED <<rows, lock, target, sequence, announced>>

(* The end of a transaction, by commit or rollback, releases its row lock. *)
ReleaseLock(w) ==
  lock' = [r \in Runs |-> IF lock[r] = w THEN NoWriter ELSE lock[r]]

Commit(w) ==
  /\ pc[w] = "commit"
  /\ rows' = [rows EXCEPT ![target[w]] =
                [n \in DOMAIN @ \cup {sequence[w]} |->
                   IF n = sequence[w] THEN w ELSE @[n]]]
  /\ ReleaseLock(w)
  /\ pc' = [pc EXCEPT ![w] = "notify"]
  /\ UNCHANGED <<target, sequence, announced>>

(* IntegrityError: the key is committed already. *)
UniqueViolation(w) ==
  /\ pc[w] = "insert"
  /\ sequence[w] \in DOMAIN rows[target[w]]
  /\ ReleaseLock(w)
  /\ pc' = [pc EXCEPT ![w] = "idle"]
  /\ UNCHANGED <<rows, target, sequence, announced>>

(* Mutant of RollBack: the failed transaction is left open with its lock. *)
RollBackKeepsLock(w) ==
  /\ pc[w] \in InTransaction
  /\ pc' = [pc EXCEPT ![w] = "idle"]
  /\ UNCHANGED <<rows, lock, target, sequence, announced>>

(* Any other failure inside the transaction: the session is closed and the *)
(* server rolls back.                                                      *)
RollBack(w) ==
  /\ pc[w] \in InTransaction
  /\ ReleaseLock(w)
  /\ pc' = [pc EXCEPT ![w] = "idle"]
  /\ UNCHANGED <<rows, target, sequence, announced>>

(* append returned: _publish_event tells the broker. *)
Notify(w) ==
  /\ pc[w] = "notify"
  /\ announced' = [announced EXCEPT ![target[w]] = @ \cup {sequence[w]}]
  /\ pc' = [pc EXCEPT ![w] = "idle"]
  /\ UNCHANGED <<rows, lock, target, sequence>>

(* session.refresh(event) raises after the commit: nobody is told. *)
RefreshFails(w) ==
  /\ pc[w] = "notify"
  /\ pc' = [pc EXCEPT ![w] = "idle"]
  /\ UNCHANGED <<rows, lock, target, sequence, announced>>

Next ==
  \E w \in Writers :
    \/ \E r \in Runs : Begin(w, r)
    \/ SelectRun(w)
    \/ SelectMax(w)
    \/ Insert(w)
    \/ Commit(w)
    \/ UniqueViolation(w)
    \/ RollBack(w)
    \/ Notify(w)
    \/ RefreshFails(w)

Spec == Init /\ [][Next]_vars

(* The server answers every statement; lock and index waits are queued, so a   *)
(* waiter that is offered its turn again and again gets it (strong fairness).  *)
Fairness ==
  \A w \in Writers :
    /\ SF_vars(SelectRun(w))
    /\ WF_vars(SelectMax(w))
    /\ SF_vars(Insert(w))
    /\ WF_vars(UniqueViolation(w))
    /\ WF_vars(Commit(w))
    /\ WF_vars(Notify(w))

FairSpec == Spec /\ Fairness

------------------------------------------------------------------------------
TypeOK ==
  /\ DOMAIN rows = Runs
  /\ \A r \in Runs : /\ DOMAIN rows[r] \subseteq Nat \ {0}
                     /\ \A n \in DOMAIN rows[r] : rows[r][n] \in Writers
  /\ lock \in [Runs -> Writers \cup {NoWriter}]
  /\ pc \in [Writers -> Statements]
  /\ target \in [Writers -> Runs]
  /\ sequence \in [Writers -> Nat]
  /\ announced \in [Runs -> SUBSET Nat]

(* The committed sequences of a run are 1, 2, ..., n whatever transactions     *)
(* overlapped or rolled back: a reader that asks for sequence > cursor and     *)
(* advances the cursor to the last answer never steps over an event that       *)
(* commits later.                                                              *)
Gapless ==
  \A r \in Runs : \A n \in DOMAIN rows[r] : n >= 1 /\ 1 .. n \subseteq DOMAIN rows[r]

(* Under the row lock the unique constraint never has to refuse an append:     *)
(* the number a writer computed is still free when it inserts.                 *)
SequencesNeverCollide ==
  \A w \in Writers : pc[w] = "insert" => sequence[w] \notin DOMAIN rows[target[w]]

(* The broker is only told of events a reader can already query; a failed      *)
(* commit announces nothing.                                                   *)
AnnouncedIsCommitted == \A r \in Runs : announced[r] \subseteq DOMAIN rows[r]

(* Every append ends, by success or by an exception: no failure path leaves    *)
(* the row lock behind for the writers queued on it.                           *)
AppendsEnd == \A w \in Writers : pc[w] \in InTransaction ~> pc[w] \notin InTransaction

(* The table implements the append-only log: a step either leaves every log    *)
(* alone or adds one event at the end of one run's log.                        *)
Log == INSTANCE AppendOnlyLog WITH Entries <- Writers, log <- rows

ImplementsLog == Log!Spec
==============================================================================
