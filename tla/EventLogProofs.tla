---------------------------- MODULE EventLogProofs ----------------------------
(***************************************************************************)
(* Proofs about EventLog for every set of runs and writers.                *)
(*                                                                         *)
(* Gapless is not inductive: that Commit extends a log by exactly one      *)
(* entry depends on what the committing transaction knew when it read the  *)
(* maximum.  LogInv adds that: a computed sequence is at most one beyond   *)
(* the end, a flushed one is exactly one beyond it, and two transactions   *)
(* never hold flushed rows of the same run.                                *)
(***************************************************************************)
EXTENDS EventLog, TLAPS

ComputedInRange ==
  \A w \in Writers : pc[w] = "insert" =>
    sequence[w] \in 1 .. Len(rows[target[w]]) + 1

FlushedIsNext ==
  \A w \in Writers : pc[w] = "commit" =>
    sequence[w] = Len(rows[target[w]]) + 1

OneFlushed ==
  \A v, w \in Writers :
    pc[v] = "commit" /\ pc[w] = "commit" /\ target[v] = target[w] => v = w

LogInv ==
  /\ TypeOK
  /\ rows \in [Runs -> Seq(Writers)]
  /\ ComputedInRange
  /\ FlushedIsNext
  /\ OneFlushed

(* Under FOR UPDATE a writer between its SELECT and its COMMIT owns the row    *)
(* lock of its run, so nothing is committed there behind its back.             *)
LockInv ==
  /\ \A w \in Writers : pc[w] \in {"select_max", "insert", "commit"} => lock[target[w]] = w
  /\ \A w \in Writers : pc[w] = "insert" => sequence[w] = Len(rows[target[w]]) + 1

------------------------------------------------------------------------------
(* The largest sequence of a gap-free log is its length. *)
LEMMA LastSequenceIsLen ==
  ASSUME NEW r \in Runs, rows[r] \in Seq(Writers)
  PROVE  LastSequence(r) = Len(rows[r])
<1>1. DOMAIN rows[r] = 1 .. Len(rows[r]) /\ Len(rows[r]) \in Nat
  OBVIOUS
<1>2. Len(rows[r]) \in DOMAIN rows[r] \cup {0}
  BY <1>1
<1>3. \A m \in DOMAIN rows[r] : m <= Len(rows[r])
  BY <1>1
<1>4. \A n \in DOMAIN rows[r] \cup {0} :
        (\A m \in DOMAIN rows[r] : m <= n) => n = Len(rows[r])
  <2> TAKE n \in DOMAIN rows[r] \cup {0}
  <2> HAVE \A m \in DOMAIN rows[r] : m <= n
  <2>1. n \in Nat /\ n <= Len(rows[r])
    BY <1>1
  <2>2. Len(rows[r]) <= n
    <3>1. CASE Len(rows[r]) = 0
      BY <2>1, <3>1
    <3>2. CASE Len(rows[r]) # 0
      BY <1>1, <3>2
    <3> QED
      BY <3>1, <3>2
  <2> QED
    BY <1>1, <2>1, <2>2
<1> QED
  BY <1>2, <1>3, <1>4 DEF LastSequence

(* Committing the next sequence is appending to the log. *)
LEMMA CommitAppends ==
  ASSUME LogInv, NEW w \in Writers, Commit(w)
  PROVE  rows' = [rows EXCEPT ![target[w]] = Append(@, w)]
<1> DEFINE r == target[w]
           s == rows[r]
           t == [n \in DOMAIN s \cup {sequence[w]} |-> IF n = sequence[w] THEN w ELSE s[n]]
<1>1. /\ r \in Runs /\ s \in Seq(Writers) /\ Len(s) \in Nat
      /\ sequence[w] = Len(s) + 1
  BY DEF LogInv, TypeOK, FlushedIsNext, Commit
<1>2. DOMAIN s \cup {sequence[w]} = 1 .. Len(s) + 1
  BY <1>1
<1>3. t = [n \in 1 .. Len(s) + 1 |-> IF n = Len(s) + 1 THEN w ELSE s[n]]
  BY <1>1, <1>2
<1>4. Append(s, w) = [n \in 1 .. Len(s) + 1 |-> IF n = Len(s) + 1 THEN w ELSE s[n]]
  BY <1>1
<1>5. rows' = [rows EXCEPT ![r] = t]
  BY DEF Commit
<1> QED
  BY <1>3, <1>4, <1>5

(* TypeOK holds of the initial state and so does the rest of LogInv. *)
LEMMA LogInvInit == Init => LogInv
BY DEF Init, LogInv, TypeOK, ComputedInRange, FlushedIsNext, OneFlushed, Statements

(* Ending a transaction without a commit changes no log. *)
LEMMA LogInvRelease ==
  ASSUME LogInv, NEW w \in Writers, ReleaseLock(w), UNCHANGED <<rows, target, sequence, announced>>,
         pc' = [pc EXCEPT ![w] = "idle"]
  PROVE  LogInv'
BY DEF LogInv, TypeOK, ComputedInRange, FlushedIsNext, OneFlushed, Statements, ReleaseLock

LEMMA LogInvCommit ==
  ASSUME LogInv, NEW w \in Writers, Commit(w)
  PROVE  LogInv'
<1> DEFINE r == target[w]
<1>1. rows' = [rows EXCEPT ![r] = Append(@, w)]
  BY CommitAppends
<1>2. /\ r \in Runs /\ rows[r] \in Seq(Writers) /\ rows \in [Runs -> Seq(Writers)]
  BY DEF LogInv, TypeOK
<1>3. /\ rows' \in [Runs -> Seq(Writers)]
      /\ Len(rows'[r]) = Len(rows[r]) + 1
      /\ \A q \in Runs : q # r => rows'[q] = rows[q]
  BY <1>1, <1>2
<1>4. /\ pc' = [pc EXCEPT ![w] = "notify"]
      /\ target' = target /\ sequence' = sequence /\ announced' = announced
      /\ pc[w] = "commit"
  BY DEF Commit
<1>5. TypeOK'
  <2>1. \A q \in Runs : rows'[q] \in Seq(Writers)
    BY <1>3
  <2>2. \A q \in Runs : /\ DOMAIN rows'[q] \subseteq Nat \ {0}
                        /\ \A n \in DOMAIN rows'[q] : rows'[q][n] \in Writers
    BY <2>1
  <2>3. lock' \in [Runs -> Writers \cup {NoWriter}]
    BY DEF Commit, ReleaseLock, LogInv, TypeOK
  <2> QED
    BY <1>3, <1>4, <2>2, <2>3 DEF LogInv, TypeOK, Statements
<1>6. ComputedInRange'
  <2> SUFFICES ASSUME NEW v \in Writers, pc'[v] = "insert"
               PROVE  sequence[v] \in 1 .. Len(rows'[target[v]]) + 1
    BY <1>4 DEF ComputedInRange
  <2>1. pc[v] = "insert" /\ target[v] \in Runs
    BY <1>4 DEF LogInv, TypeOK
  <2>2. /\ sequence[v] \in 1 .. Len(rows[target[v]]) + 1
        /\ Len(rows[target[v]]) \in Nat
    BY <1>2, <2>1 DEF LogInv, ComputedInRange
  <2>3. CASE target[v] = r
    BY <1>2, <1>3, <2>2, <2>3
  <2>4. CASE target[v] # r
    BY <1>3, <2>1, <2>2, <2>4
  <2> QED
    BY <2>3, <2>4
<1>7. FlushedIsNext'
  BY <1>2, <1>3, <1>4 DEF LogInv, FlushedIsNext, OneFlushed, TypeOK
<1>8. OneFlushed'
  BY <1>4 DEF LogInv, OneFlushed, TypeOK
<1> QED
  BY <1>3, <1>5, <1>6, <1>7, <1>8 DEF LogInv

LEMMA LogInvNext == LogInv /\ [Next]_vars => LogInv'
<1> SUFFICES ASSUME LogInv, [Next]_vars
             PROVE  LogInv'
  OBVIOUS
<1> USE DEF LogInv, TypeOK, ComputedInRange, FlushedIsNext, OneFlushed, Statements
<1>1. CASE UNCHANGED vars
  BY <1>1 DEF vars
<1>2. ASSUME NEW w \in Writers, NEW r \in Runs, Begin(w, r)
      PROVE  LogInv'
  BY <1>2 DEF Begin
<1>3. ASSUME NEW w \in Writers, SelectRun(w)
      PROVE  LogInv'
  BY <1>3 DEF SelectRun
<1>4. ASSUME NEW w \in Writers, SelectMax(w)
      PROVE  LogInv'
  <2>1. LastSequence(target[w]) = Len(rows[target[w]])
    BY LastSequenceIsLen
  <2> QED
    BY <1>4, <2>1 DEF SelectMax
<1>5. ASSUME NEW w \in Writers, Insert(w)
      PROVE  LogInv'
  <2>1. /\ sequence[w] = Len(rows[target[w]]) + 1
        /\ \A v \in Writers : pc[v] = "commit" => target[v] # target[w]
    <3>1. DOMAIN rows[target[w]] = 1 .. Len(rows[target[w]])
      OBVIOUS
    <3> QED
      BY <1>5, <3>1 DEF Insert, Uncommitted
  <2> QED
    BY <1>5, <2>1 DEF Insert
<1>6. ASSUME NEW w \in Writers, Commit(w)
      PROVE  LogInv'
  BY <1>6, LogInvCommit
<1>7. ASSUME NEW w \in Writers, UniqueViolation(w)
      PROVE  LogInv'
  BY <1>7, LogInvRelease DEF UniqueViolation
<1>8. ASSUME NEW w \in Writers, RollBack(w)
      PROVE  LogInv'
  BY <1>8, LogInvRelease DEF RollBack
<1>9. ASSUME NEW w \in Writers, Notify(w)
      PROVE  LogInv'
  <2>1. announced' \in [Runs -> SUBSET Nat]
    BY <1>9 DEF Notify
  <2> QED
    BY <1>9, <2>1 DEF Notify
<1>10. ASSUME NEW w \in Writers, RefreshFails(w)
       PROVE  LogInv'
  BY <1>10 DEF RefreshFails
<1> HIDE DEF LogInv
<1> QED
  BY <1>1, <1>2, <1>3, <1>4, <1>5, <1>6, <1>7, <1>8, <1>9, <1>10 DEF Next

(* LogInv is an invariant of the append protocol on either dialect. *)
THEOREM LogInvariant == Spec => []LogInv
BY LogInvInit, LogInvNext, PTL DEF Spec

(* The variables keep their types: sequences are positive naturals, as the     *)
(* table's CHECK constraint demands, and events come from writers.             *)
THEOREM TypeCorrect == Spec => []TypeOK
<1>1. LogInv => TypeOK
  BY DEF LogInv
<1> QED
  BY <1>1, LogInvariant, PTL

(* The committed sequences of every run are gap-free, with or without the row  *)
(* lock: the unique constraint alone suffices.                                 *)
THEOREM NoGaps == Spec => []Gapless
<1>1. LogInv => Gapless
  BY DEF LogInv, Gapless
<1> QED
  BY <1>1, LogInvariant, PTL

(* Every step of the protocol is a step of the append-only log: a commit adds  *)
(* its writer's event at the end of one log, all else leaves the logs alone.   *)
THEOREM LogRefinement == Spec => ImplementsLog
<1>1. Init => Log!Init
  BY DEF Init, Log!Init
<1>2. LogInv /\ [Next]_vars => [Log!Next]_rows
  <2> SUFFICES ASSUME LogInv, [Next]_vars
               PROVE  [Log!Next]_rows
    OBVIOUS
  <2>1. ASSUME NEW w \in Writers, Commit(w)
        PROVE  Log!Next
    <3>1. target[w] \in Runs
      BY DEF LogInv, TypeOK
    <3>2. Log!Append1(target[w], w)
      BY <2>1, CommitAppends DEF Log!Append1
    <3> QED
      BY <3>1, <3>2 DEF Log!Next
  <2>2. ASSUME NEW w \in Writers, ~ Commit(w),
               \/ \E r \in Runs : Begin(w, r)
               \/ SelectRun(w) \/ SelectMax(w) \/ Insert(w) \/ UniqueViolation(w)
               \/ RollBack(w) \/ Notify(w) \/ RefreshFails(w)
        PROVE  UNCHANGED rows
    BY <2>2 DEF Begin, SelectRun, SelectMax, Insert, UniqueViolation, RollBack,
                Notify, RefreshFails
  <2>3. CASE UNCHANGED vars
    BY <2>3 DEF vars
  <2> QED
    BY <2>1, <2>2, <2>3 DEF Next
<1> QED
  BY <1>1, <1>2, LogInvariant, PTL DEF Spec, ImplementsLog, Log!Spec

------------------------------------------------------------------------------
LEMMA LockInvNext == RowLock /\ LogInv /\ LockInv /\ [Next]_vars => LockInv'
<1> SUFFICES ASSUME RowLock, LogInv, LockInv, [Next]_vars
             PROVE  LockInv'
  OBVIOUS
<1> USE EventLogAssumption DEF LogInv, TypeOK, LockInv, Statements
<1>1. CASE UNCHANGED vars
  BY <1>1 DEF vars
<1>2. ASSUME NEW w \in Writers, NEW r \in Runs, Begin(w, r)
      PROVE  LockInv'
  BY <1>2 DEF Begin
<1>3. ASSUME NEW w \in Writers, SelectRun(w)
      PROVE  LockInv'
  BY <1>3 DEF SelectRun
<1>4. ASSUME NEW w \in Writers, SelectMax(w)
      PROVE  LockInv'
  <2>1. LastSequence(target[w]) = Len(rows[target[w]])
    BY LastSequenceIsLen
  <2> QED
    BY <1>4, <2>1 DEF SelectMax
<1>5. ASSUME NEW w \in Writers, Insert(w)
      PROVE  LockInv'
  BY <1>5 DEF Insert
<1>6. ASSUME NEW w \in Writers, Commit(w)
      PROVE  LockInv'
  <2>1. /\ rows' = [rows EXCEPT ![target[w]] = Append(@, w)]
        /\ lock[target[w]] = w
        /\ pc' = [pc EXCEPT ![w] = "notify"] /\ target' = target /\ sequence' = sequence
    BY <1>6, CommitAppends DEF Commit
  <2>2. ASSUME NEW v \in Writers, pc'[v] \in {"select_max", "insert", "commit"}
        PROVE  /\ v # w /\ target[v] # target[w]
               /\ lock'[target[v]] = v /\ rows'[target[v]] = rows[target[v]]
    BY <1>6, <2>1, <2>2 DEF Commit, ReleaseLock
  <2> QED
    BY <2>1, <2>2
<1>7. ASSUME NEW w \in Writers, UniqueViolation(w) \/ RollBack(w)
      PROVE  LockInv'
  <2>1. /\ ReleaseLock(w) /\ pc' = [pc EXCEPT ![w] = "idle"]
        /\ rows' = rows /\ target' = target /\ sequence' = sequence
    BY <1>7 DEF UniqueViolation, RollBack
  <2>2. ASSUME NEW v \in Writers, pc'[v] \in {"select_max", "insert", "commit"}
        PROVE  v # w /\ pc[v] = pc'[v] /\ lock'[target[v]] = v
    BY <2>1, <2>2 DEF ReleaseLock
  <2> QED
    BY <2>1, <2>2
<1>8. ASSUME NEW w \in Writers, Notify(w) \/ RefreshFails(w)
      PROVE  LockInv'
  BY <1>8 DEF Notify, RefreshFails
<1> HIDE DEF LogInv, LockInv
<1> QED
  BY <1>1, <1>2, <1>3, <1>4, <1>5, <1>6, <1>7, <1>8 DEF Next

(* With SELECT ... FOR UPDATE no append is ever refused for a duplicate        *)
(* sequence, however many transactions append to the same run.                 *)
THEOREM NoCollisions == RowLock /\ Spec => []SequencesNeverCollide
<1>1. Init => LockInv
  BY DEF Init, LockInv
<1>2. LogInv /\ LockInv => SequencesNeverCollide
  <2> SUFFICES ASSUME LogInv, LockInv, NEW w \in Writers, pc[w] = "insert"
               PROVE  sequence[w] \notin DOMAIN rows[target[w]]
    BY DEF SequencesNeverCollide
  <2>1. rows[target[w]] \in Seq(Writers)
    BY DEF LogInv, TypeOK
  <2>2. sequence[w] = Len(rows[target[w]]) + 1
    BY DEF LockInv
  <2> QED
    BY <2>1, <2>2
<1>3. ASSUME RowLock
      PROVE  Spec => []SequencesNeverCollide
  <2>1. LogInv /\ LockInv /\ [Next]_vars => LockInv'
    BY <1>3, LockInvNext
  <2> QED
    BY <1>1, <1>2, <2>1, LogInvariant, PTL DEF Spec
<1> QED
  BY <1>3

------------------------------------------------------------------------------
(* A writer on its way to the broker has committed the event it will announce, *)
(* and no event ever leaves a log: what was announced can be queried for good. *)
NotifiedInv ==
  /\ \A w \in Writers : pc[w] = "notify" => sequence[w] \in DOMAIN rows[target[w]]
  /\ AnnouncedIsCommitted

LEMMA NotifiedInvNext == LogInv /\ NotifiedInv /\ [Next]_vars => NotifiedInv'
<1> SUFFICES ASSUME LogInv, NotifiedInv, [Next]_vars
             PROVE  NotifiedInv'
  OBVIOUS
<1> USE DEF LogInv, TypeOK, NotifiedInv, AnnouncedIsCommitted
<1>1. CASE UNCHANGED vars
  BY <1>1 DEF vars
<1>2. ASSUME NEW w \in Writers, NEW r \in Runs, Begin(w, r)
      PROVE  NotifiedInv'
  BY <1>2 DEF Begin
<1>3. ASSUME NEW w \in Writers, SelectRun(w) \/ SelectMax(w) \/ Insert(w)
      PROVE  NotifiedInv'
  BY <1>3 DEF SelectRun, SelectMax, Insert
<1>4. ASSUME NEW w \in Writers, Commit(w)
      PROVE  NotifiedInv'
  <2>1. /\ rows'[target[w]] = [n \in DOMAIN rows[target[w]] \cup {sequence[w]} |->
                                 IF n = sequence[w] THEN w ELSE rows[target[w]][n]]
        /\ \A r \in Runs \ {target[w]} : rows'[r] = rows[r]
    BY <1>4 DEF Commit
  <2>2. /\ \A r \in Runs : DOMAIN rows[r] \subseteq DOMAIN rows'[r]
        /\ sequence[w] \in DOMAIN rows'[target[w]]
    BY <2>1
  <2> QED
    BY <1>4, <2>2 DEF Commit
<1>5. ASSUME NEW w \in Writers, UniqueViolation(w) \/ RollBack(w) \/ RefreshFails(w)
      PROVE  NotifiedInv'
  BY <1>5 DEF UniqueViolation, RollBack, RefreshFails
<1>6. ASSUME NEW w \in Writers, Notify(w)
      PROVE  NotifiedInv'
  BY <1>6 DEF Notify
<1> HIDE DEF LogInv, NotifiedInv
<1> QED
  BY <1>1, <1>2, <1>3, <1>4, <1>5, <1>6 DEF Next

(* The broker is only told of events that a reader can query: Notify comes     *)
(* after Commit, and the events of an aborted append are never announced.      *)
THEOREM OnlyCommittedAnnounced == Spec => []AnnouncedIsCommitted
<1>1. Init => NotifiedInv
  BY DEF Init, NotifiedInv, AnnouncedIsCommitted
<1>2. NotifiedInv => AnnouncedIsCommitted
  BY DEF NotifiedInv
<1> QED
  BY <1>1, <1>2, NotifiedInvNext, LogInvariant, PTL DEF Spec
==============================================================================
