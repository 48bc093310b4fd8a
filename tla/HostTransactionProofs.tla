------------------------- MODULE HostTransactionProofs -------------------------
(***************************************************************************)
(* Safety of HostTransaction for every number of components, handlers,     *)
(* transaction ids, configurations, faults and crashes.                    *)
(*                                                                         *)
(* The argument is the one the code relies on.  Only the holder of the     *)
(* mutation lock has a task, so whatever a task has read stays true until  *)
(* its own next step; in particular a gate found open is still open when   *)
(* the operation is journaled, and each step finds the journal entry in    *)
(* the state its predecessor left it in.                                   *)
(***************************************************************************)
EXTENDS HostTransaction, FiniteSets, WellFoundedInduction, TLAPS

\* Steps that work on the journal entry task[a].row.
RowSteps ==
    {"validate", "mark_validated", "mark_applying", "install", "activate",
     "mark_verifying", "verify", "commit", "roll_back", "restore_file",
     "restore_service", "restore_verify", "mark_rolling_back", "mark_rolled_back",
     "mark_failed", "mark_interrupted"}

\* The state of that entry, where the step determines it.
StateAtStep(step, state) ==
    /\ step \in {"validate", "mark_validated"} => state = "PREPARED"
    /\ step = "mark_applying" => state = "VALIDATED"
    /\ step \in {"install", "activate", "mark_verifying"} => state = "APPLYING"
    /\ step \in {"verify", "commit"} => state = "VERIFYING"
    /\ step = "mark_rolling_back" => state = "COMMITTED"
    /\ step \in {"restore_file", "restore_service", "restore_verify", "mark_rolled_back"}
           => state = "ROLLING_BACK"

\* The steps that resolve an operation, those recovery starts with included.
ResolvingSteps ==
    {"roll_back", "restore_file", "restore_service", "restore_verify", "mark_rolled_back",
     "mark_failed", "mark_interrupted"}

\* A task works on an entry whose snapshot can be opened, and on one with any other
\* damage only to resolve it.
DamageAtStep(step, e) ==
    /\ e.damage # "unreadable"
    /\ e.damage # "none" => step \in ResolvingSteps /\ e.state \notin FinishedStates

\* What the holder of the lock may rely on, given the journal and the requests.
TaskOK(t, j, rs) ==
    /\ t.kind # "none"
    /\ t.kind = "apply" => t.request \in rs
    /\ t.queue \subseteq UnfinishedRows(j)
    /\ t.step \in RowSteps =>
           /\ t.row \in DOMAIN j
           /\ t.row \notin t.queue
           /\ DamageAtStep(t.step, j[t.row])
           /\ StateAtStep(t.step, j[t.row].state)
    /\ t.step \in {"roll_back", "mark_failed", "mark_interrupted"} => t.from \notin FinishedStates
    /\ t.step \in {"begin", "mark_rolling_back"} => UnfinishedRows(j) = {}

\* Mutual exclusion: only the holder of the lock has a task.
HolderOK ==
    \A a \in Actors : IF lock = a THEN TaskOK(task[a], journal, requests) ELSE task[a] = IdleTask

\* A daemon that does not run is not ready and holds no lock.
DownOK == phase = "down" => tracker = "none" /\ lock = Nobody

RequestsAreUnique == \A r1, r2 \in requests : r1.id = r2.id => r1 = r2

RowsWereRequested ==
    \A row \in DOMAIN journal : \E r \in requests :
        r.id = journal[row].id /\ r.component = journal[row].component

JournalOK ==
    /\ AtMostOneUnfinished
    /\ RequestRunsOnce
    /\ NoStaleApply
    /\ RequestsAreUnique
    /\ RowsWereRequested

IInv == TypeOK /\ HolderOK /\ DownOK /\ JournalOK /\ DamagedJournalKeepsGateClosed

-------------------------------------------------------------------------------
(* The journal operators.                                                  *)

\* TransitionOperation touches one entry, and of it only the state and the
\* detail; it does nothing when the stored state is not the expected one.
LEMMA TransitionedEntry ==
    ASSUME NEW j \in Seq(Entries), NEW row \in DOMAIN j,
           NEW from \in TransactionStates, NEW to \in TransactionStates,
           NEW detail \in Details
    PROVE  LET k == Transitioned(j, row, from, to, detail)
           IN  /\ k \in Seq(Entries)
               /\ DOMAIN k = DOMAIN j /\ Len(k) = Len(j)
               /\ \A r \in DOMAIN j :
                      /\ k[r].id = j[r].id /\ k[r].component = j[r].component
                      /\ k[r].snapshot = j[r].snapshot /\ k[r].candidate = j[r].candidate
                      /\ k[r].damage = j[r].damage
               /\ \A r \in DOMAIN j \ {row} : k[r] = j[r]
               /\ TransitionApplies(j, row, from, to) => k[row].state = to
               /\ ~TransitionApplies(j, row, from, to) => k = j
<1> DEFINE k == Transitioned(j, row, from, to, detail)
<1>1. CASE ~TransitionApplies(j, row, from, to)
  BY <1>1 DEF Transitioned
<1>2. CASE TransitionApplies(j, row, from, to)
  <2> DEFINE e == [j[row] EXCEPT !.state = to, !.detail = detail]
  <2>1. k = [j EXCEPT ![row] = e]
    BY <1>2 DEF Transitioned
  <2>2. j[row] \in Entries
    OBVIOUS
  <2>20. e \in Entries
    BY <2>2 DEF Entries
  <2>3. /\ e.id = j[row].id /\ e.component = j[row].component
        /\ e.snapshot = j[row].snapshot /\ e.candidate = j[row].candidate
        /\ e.damage = j[row].damage /\ e.state = to
    BY <2>2 DEF Entries
  <2> HIDE DEF e
  <2>4. k \in Seq(Entries) /\ DOMAIN k = DOMAIN j /\ Len(k) = Len(j)
    BY <2>1, <2>20
  <2>5. \A r \in DOMAIN j : k[r] = IF r = row THEN e ELSE j[r]
    BY <2>1
  <2> QED
    BY <2>3, <2>4, <2>5, <1>2
<1> QED
  BY <1>1, <1>2

\* Only a creation and the operator's rollback of a commit add an unfinished
\* operation.
LEMMA TransitionKeepsFinished ==
    ASSUME NEW j \in Seq(Entries), NEW row \in DOMAIN j,
           NEW from \in TransactionStates \ FinishedStates, NEW to \in TransactionStates,
           NEW detail \in Details
    PROVE  UnfinishedRows(Transitioned(j, row, from, to, detail)) \subseteq UnfinishedRows(j)
<1> DEFINE k == Transitioned(j, row, from, to, detail)
<1>1. /\ DOMAIN k = DOMAIN j
      /\ \A r \in DOMAIN j \ {row} : k[r] = j[r]
      /\ ~TransitionApplies(j, row, from, to) => k = j
  BY TransitionedEntry
<1> HIDE DEF k
<1>2. CASE ~TransitionApplies(j, row, from, to)
  BY <1>1, <1>2 DEF k
<1>3. CASE TransitionApplies(j, row, from, to)
  <2>1. row \in UnfinishedRows(j)
    BY <1>3 DEF TransitionApplies, UnfinishedRows
  <2>2. \A r \in UnfinishedRows(k) : r \in UnfinishedRows(j)
    BY <1>1, <2>1 DEF UnfinishedRows
  <2> QED
    BY <2>2 DEF k
<1> QED
  BY <1>2, <1>3

-------------------------------------------------------------------------------
(* The steps of the holder of the lock.                                    *)

\* Continuing with task t preserves mutual exclusion.
LEMMA HolderContinues ==
    ASSUME IInv, NEW a \in Actors, lock = a, lock' = lock,
           NEW t \in Tasks, task' = [task EXCEPT ![a] = t],
           TaskOK(t, journal', requests')
    PROVE  HolderOK' /\ task' \in [Actors -> Tasks]
<1>1. task \in [Actors -> Tasks]
  BY DEF IInv, TypeOK
<1>2. \A b \in Actors : task'[b] = IF b = a THEN t ELSE task[b]
  BY <1>1
<1>3. \A b \in Actors : b # a => task[b] = IdleTask
  BY DEF IInv, HolderOK
<1> QED
  BY <1>1, <1>2, <1>3 DEF HolderOK

\* The task of an actor that does nothing is a task.
LEMMA IdleTaskType == IdleTask \in Tasks
  BY DEF IdleTask, Tasks, Steps, TransactionStates

\* Ending the task and releasing the lock preserves it too.
LEMMA HolderReleases ==
    ASSUME IInv, NEW a \in Actors, lock = a, Release(a)
    PROVE  HolderOK' /\ task' \in [Actors -> Tasks] /\ lock' = Nobody
<1>1. task \in [Actors -> Tasks]
  BY DEF IInv, TypeOK
<1>2. task' = [task EXCEPT ![a] = IdleTask] /\ lock' = Nobody
  BY DEF Release
<1>3. \A b \in Actors : task'[b] = IdleTask
  BY <1>1, <1>2 DEF IInv, HolderOK
<1>4. Nobody \notin Actors
  BY ConstantsAssumption
<1> QED
  BY <1>1, <1>2, <1>3, <1>4, IdleTaskType DEF HolderOK

\* The steps at which a task may continue: those of a row need the row.
LEMMA GotoMoves ==
    ASSUME IInv, NEW a \in Actors, NEW step \in Steps, Goto(a, step)
    PROVE  /\ lock' = lock
           /\ task' = [task EXCEPT ![a] = [task[a] EXCEPT !.step = step]]
           /\ [task[a] EXCEPT !.step = step] \in Tasks
<1>1. task[a] \in Tasks
  BY DEF IInv, TypeOK
<1> QED
  BY <1>1 DEF Goto, Tasks

\* An error continues at a step of the task, with the state it leaves, or returns.
LEMMA ProceedFromMoves ==
    ASSUME IInv, NEW a \in Actors, NEW step \in Steps, NEW from \in TransactionStates,
           step # "fail", ProceedFrom(a, step, from)
    PROVE  /\ lock' = lock
           /\ \E t \in Tasks :
                  /\ task' = [task EXCEPT ![a] = t]
                  /\ t.kind = task[a].kind /\ t.request = task[a].request
                  /\ t.row = task[a].row /\ t.queue = task[a].queue
                  /\ t.step = step /\ t.from = from
<1> DEFINE t == [task[a] EXCEPT !.step = step, !.from = from]
<1>1. task[a] \in Tasks /\ task \in [Actors -> Tasks]
  BY DEF IInv, TypeOK
<1>2. t \in Tasks
  BY <1>1 DEF Tasks
<1>3. /\ t.kind = task[a].kind /\ t.request = task[a].request
      /\ t.row = task[a].row /\ t.queue = task[a].queue
      /\ t.step = step /\ t.from = from
  BY <1>1 DEF Tasks
<1>4. lock' = lock /\ task' = [task EXCEPT ![a] = t]
  BY <1>1 DEF ProceedFrom
<1> HIDE DEF t
<1> QED
  BY <1>2, <1>3, <1>4

\* What the return of an executor does to the task and to the lock.
LEMMA ReturnMoves ==
    ASSUME IInv, NEW a \in Actors, NEW ok \in BOOLEAN, Return(a, ok)
    PROVE  \/ Release(a)
           \/ /\ lock' = lock
              /\ \E t \in Tasks :
                     /\ task' = [task EXCEPT ![a] = t]
                     /\ t.kind = "recovery" /\ t.queue = task[a].queue
                     /\ t.step = "next_operation"
<1>1. CASE task[a].kind # "recovery"
  BY <1>1 DEF Return
<1>2. CASE task[a].kind = "recovery"
  <2> DEFINE t == [task[a] EXCEPT !.step = "next_operation", !.erred = @ \/ ~ok]
  <2>1. task[a] \in Tasks /\ task \in [Actors -> Tasks]
    BY DEF IInv, TypeOK
  <2>2. lock' = lock /\ task' = [task EXCEPT ![a] = t]
    BY <1>2, <2>1 DEF Return
  <2>3. t \in Tasks
    BY <2>1 DEF Tasks, Steps
  <2>4. t.kind = "recovery" /\ t.queue = task[a].queue /\ t.step = "next_operation"
    BY <1>2, <2>1 DEF Tasks
  <2> HIDE DEF t
  <2> QED
    BY <2>2, <2>3, <2>4
<1> QED
  BY <1>1, <1>2

\* The part of IInv that speaks of no task is about the journal, the requests,
\* the phase and the tracker only.
LEMMA JournalUnchanged ==
    ASSUME IInv, UNCHANGED <<journal, requests>>
    PROVE  JournalOK'
  BY DEF IInv, JournalOK, AtMostOneUnfinished, RequestRunsOnce, NoStaleApply,
         OnlyReviewedStateIsReplaced, RequestsAreUnique, RowsWereRequested

\* Types of what a step may write to the host and the history variables.
HostTypes ==
    /\ file \in [Components -> Files]
    /\ proc \in [Components -> Processes]
    /\ desired \in [Components -> Files]
    /\ faults \in 0..MaxFaults
    /\ crashes \in 0..MaxCrashes
    /\ unrestored \subseteq Components

\* A step that leaves the journal alone.
LEMMA QuietStep ==
    ASSUME IInv, NEW a \in Actors, lock = a,
           UNCHANGED <<phase, tracker, journal, requests>>, HostTypes',
           \/ Release(a)
           \/ /\ lock' = lock
              /\ \E t \in Tasks : /\ task' = [task EXCEPT ![a] = t]
                                  /\ TaskOK(t, journal, requests)
    PROVE  IInv'
<1>1. HolderOK' /\ task' \in [Actors -> Tasks] /\ lock' \in {lock, Nobody}
  <2>1. CASE Release(a)
    BY <2>1, HolderReleases
  <2>2. CASE lock' = lock /\ \E t \in Tasks : /\ task' = [task EXCEPT ![a] = t]
                                             /\ TaskOK(t, journal, requests)
    BY <2>2, HolderContinues
  <2> QED
    BY <2>1, <2>2
<1>2. JournalOK'
  BY JournalUnchanged
<1>3. TypeOK'
  BY <1>1 DEF TypeOK, HostTypes, IInv
<1>4. DownOK'
  BY <1>1 DEF DownOK, IInv
<1>5. DamagedJournalKeepsGateClosed'
  BY DEF DamagedJournalKeepsGateClosed, IInv
<1> QED
  BY <1>1, <1>2, <1>3, <1>4, <1>5 DEF IInv

\* The next step of a task that keeps its row, request and queue.
LEMMA QuietGoto ==
    ASSUME IInv, NEW a \in Actors, lock = a,
           UNCHANGED <<phase, tracker, journal, requests>>, HostTypes',
           task[a].step \in RowSteps,
           NEW step \in Steps \ {"begin", "mark_rolling_back", "roll_back", "mark_failed",
                                 "mark_interrupted"},
           StateAtStep(step, journal[task[a].row].state),
           task[a].step \in ResolvingSteps => step \in ResolvingSteps,
           Goto(a, step)
    PROVE  IInv'
<1> DEFINE t == [task[a] EXCEPT !.step = step]
<1>1. lock' = lock /\ task' = [task EXCEPT ![a] = t] /\ t \in Tasks
  BY GotoMoves
<1>2. TaskOK(task[a], journal, requests) /\ task[a] \in Tasks
  BY DEF IInv, HolderOK, TypeOK
<1>3. /\ t.kind = task[a].kind /\ t.request = task[a].request /\ t.queue = task[a].queue
      /\ t.row = task[a].row /\ t.step = step
  BY <1>2 DEF Tasks
<1>4. DamageAtStep(step, journal[task[a].row])
  BY <1>2 DEF TaskOK, DamageAtStep
<1>5. TaskOK(t, journal, requests)
  BY <1>2, <1>3, <1>4 DEF TaskOK
<1> QED
  BY <1>1, <1>5, QuietStep

\* A failure that continues with the rollback or with FAILED.
LEMMA QuietFailure ==
    ASSUME IInv, NEW a \in Actors, lock = a,
           UNCHANGED <<phase, tracker, journal, requests>>, HostTypes',
           task[a].step \in RowSteps,
           NEW step \in {"roll_back", "mark_failed"},
           NEW from \in TransactionStates \ FinishedStates,
           ProceedFrom(a, step, from)
    PROVE  IInv'
<1>1. step \in Steps /\ step # "fail" /\ from \in TransactionStates
  BY DEF Steps
<1>2. PICK t \in Tasks :
          /\ task' = [task EXCEPT ![a] = t]
          /\ t.kind = task[a].kind /\ t.request = task[a].request
          /\ t.row = task[a].row /\ t.queue = task[a].queue
          /\ t.step = step /\ t.from = from
  BY <1>1, ProceedFromMoves
<1>3. lock' = lock
  BY <1>1, ProceedFromMoves
<1>4. TaskOK(task[a], journal, requests)
  BY DEF IInv, HolderOK
<1>5. DamageAtStep(step, journal[task[a].row])
  BY <1>4 DEF TaskOK, DamageAtStep, ResolvingSteps
<1>6. TaskOK(t, journal, requests)
  BY <1>2, <1>4, <1>5 DEF TaskOK, StateAtStep
<1> QED
  BY <1>2, <1>3, <1>6, QuietStep

\* An executor returns without touching the journal.
LEMMA QuietReturn ==
    ASSUME IInv, NEW a \in Actors, lock = a,
           UNCHANGED <<phase, tracker, journal, requests>>, HostTypes',
           NEW ok \in BOOLEAN, Return(a, ok)
    PROVE  IInv'
<1>1. CASE Release(a)
  BY <1>1, QuietStep
<1>2. CASE ~Release(a)
  <2>1. PICK t \in Tasks : /\ lock' = lock
                           /\ task' = [task EXCEPT ![a] = t]
                           /\ t.kind = "recovery" /\ t.queue = task[a].queue
                           /\ t.step = "next_operation"
    BY <1>2, ReturnMoves
  <2>2. TaskOK(task[a], journal, requests)
    BY DEF IInv, HolderOK
  <2>3. TaskOK(t, journal, requests)
    BY <2>1, <2>2 DEF TaskOK, RowSteps
  <2> QED
    BY <2>1, <2>3, QuietStep
<1> QED
  BY <1>1, <1>2

-------------------------------------------------------------------------------
(* A journal transition.                                                   *)

\* Whether it succeeds, conflicts or reports an error, the journal afterwards is
\* the old one or the one the statement writes.
LEMMA TransitionWrites ==
    ASSUME NEW a, NEW from, NEW to, NEW detail, NEW onSuccess, NEW onError,
           Transition(a, from, to, detail, onSuccess, onError)
    PROVE  /\ journal' \in {journal, Transitioned(journal, task[a].row, from, to, detail)}
           /\ faults' = faults \/ (faults < MaxFaults /\ faults' = faults + 1)
           /\ \/ /\ TransitionApplies(journal, task[a].row, from, to)
                 /\ journal' = Transitioned(journal, task[a].row, from, to, detail)
                 /\ Proceed(a, onSuccess)
              \/ ProceedFrom(a, onError, from)
  BY DEF Transition, Fault

\* A transition allowed by the table keeps every journal part of IInv.
LEMMA TransitionKeepsJournal ==
    ASSUME IInv, NEW a \in Actors, lock = a, task[a].step \in RowSteps,
           NEW from \in TransactionStates, NEW to \in TransactionStates,
           NEW detail \in Details,
           from \notin FinishedStates \/ UnfinishedRows(journal) = {},
           journal' \in {journal, Transitioned(journal, task[a].row, from, to, detail)},
           UNCHANGED <<requests, tracker>>
    PROVE  /\ journal' \in Seq(Entries)
           /\ JournalOK'
           /\ DamagedJournalKeepsGateClosed'
           /\ DOMAIN journal' = DOMAIN journal
           /\ task[a].row \in DOMAIN journal
           /\ journal'[task[a].row].damage = journal[task[a].row].damage
           /\ task[a].queue \subseteq UnfinishedRows(journal')
<1> DEFINE row == task[a].row
           k == Transitioned(journal, row, from, to, detail)
<1>1. /\ TaskOK(task[a], journal, requests) /\ journal \in Seq(Entries)
      /\ JournalOK /\ DamagedJournalKeepsGateClosed
  BY DEF IInv, HolderOK, TypeOK
<1>2. /\ row \in DOMAIN journal /\ row \notin task[a].queue
      /\ DamageAtStep(task[a].step, journal[row])
      /\ task[a].queue \subseteq UnfinishedRows(journal)
  BY <1>1 DEF TaskOK
<1>3. /\ journal' \in Seq(Entries) /\ DOMAIN journal' = DOMAIN journal
      /\ \A r \in DOMAIN journal :
             /\ journal'[r].id = journal[r].id /\ journal'[r].component = journal[r].component
             /\ journal'[r].snapshot = journal[r].snapshot
             /\ journal'[r].candidate = journal[r].candidate
             /\ journal'[r].damage = journal[r].damage
      /\ \A r \in DOMAIN journal \ {row} : journal'[r] = journal[r]
  <2>1. CASE journal' = journal
    BY <1>1, <2>1
  <2>2. CASE journal' = k
    <3> HIDE DEF row
    <3> QED
      BY <1>1, <1>2, <2>2, TransitionedEntry
  <2> QED
    BY <2>1, <2>2
<1>4. from \notin FinishedStates => UnfinishedRows(journal') \subseteq UnfinishedRows(journal)
  BY <1>1, <1>2, TransitionKeepsFinished
<1> HIDE DEF row, k
<1>5. AtMostOneUnfinished'
  <2>1. CASE from \notin FinishedStates
    BY <1>1, <1>4, <2>1 DEF JournalOK, AtMostOneUnfinished
  <2>2. CASE UnfinishedRows(journal) = {}
    <3>1. UnfinishedRows(journal') \subseteq {row}
      BY <1>3, <2>2 DEF UnfinishedRows
    <3> QED
      BY <3>1 DEF AtMostOneUnfinished
  <2> QED
    BY <2>1, <2>2
<1>6. RequestRunsOnce' /\ RequestsAreUnique' /\ RowsWereRequested'
  BY <1>1, <1>3 DEF JournalOK, RequestRunsOnce, RequestsAreUnique, RowsWereRequested
<1>7. NoStaleApply'
  BY <1>1, <1>3 DEF JournalOK, NoStaleApply, OnlyReviewedStateIsReplaced
<1>8. DamagedJournalKeepsGateClosed'
  BY <1>1, <1>2, <1>3 DEF DamagedJournalKeepsGateClosed, DamageAtStep
<1>9. task[a].queue \subseteq UnfinishedRows(journal')
  BY <1>2, <1>3 DEF UnfinishedRows
<1> QED
  BY <1>2, <1>3, <1>5, <1>6, <1>7, <1>8, <1>9 DEF JournalOK, row

\* Every use of TransitionOperation by the holder of the lock preserves IInv,
\* provided the next steps suit the states it leaves.
LEMMA TransitionStep ==
    ASSUME IInv, NEW a \in Actors, lock = a, task[a].step \in RowSteps,
           NEW from \in TransactionStates, NEW to \in TransactionStates,
           NEW detail \in Details,
           from \notin FinishedStates \/ UnfinishedRows(journal) = {},
           NEW onSuccess \in {"succeed", "fail"} \cup Steps,
           onSuccess \notin {"begin", "mark_rolling_back", "roll_back", "mark_failed",
                             "mark_interrupted"},
           StateAtStep(onSuccess, to),
           NEW onError \in {"fail", "roll_back", "mark_failed"},
           onError = "fail" \/ from \notin FinishedStates,
           \/ task[a].step \notin ResolvingSteps
           \/ /\ onError = "fail"
              /\ \/ onSuccess \in {"succeed", "fail"}
                 \/ onSuccess \in ResolvingSteps /\ to \notin FinishedStates,
           Transition(a, from, to, detail, onSuccess, onError),
           UNCHANGED <<phase, tracker, file, proc, desired, requests, crashes>>,
           unrestored' \subseteq Components
    PROVE  IInv'
<1>1. /\ journal' \in {journal, Transitioned(journal, task[a].row, from, to, detail)}
      /\ faults' = faults \/ (faults < MaxFaults /\ faults' = faults + 1)
      /\ \/ /\ TransitionApplies(journal, task[a].row, from, to)
            /\ journal' = Transitioned(journal, task[a].row, from, to, detail)
            /\ Proceed(a, onSuccess)
         \/ ProceedFrom(a, onError, from)
  BY TransitionWrites
<1>2. /\ journal' \in Seq(Entries) /\ JournalOK' /\ DamagedJournalKeepsGateClosed'
      /\ DOMAIN journal' = DOMAIN journal /\ task[a].row \in DOMAIN journal
      /\ journal'[task[a].row].damage = journal[task[a].row].damage
      /\ task[a].queue \subseteq UnfinishedRows(journal')
  BY <1>1, TransitionKeepsJournal
<1>3. TaskOK(task[a], journal, requests) /\ task[a] \in Tasks
  BY DEF IInv, HolderOK, TypeOK
<1>4. HolderOK' /\ task' \in [Actors -> Tasks] /\ lock' \in {lock, Nobody}
  <2>1. ASSUME NEW ok \in BOOLEAN, Return(a, ok)
        PROVE  HolderOK' /\ task' \in [Actors -> Tasks] /\ lock' \in {lock, Nobody}
    <3>1. CASE Release(a)
      BY <3>1, HolderReleases
    <3>2. CASE ~Release(a)
      <4>1. PICK t \in Tasks : /\ lock' = lock
                               /\ task' = [task EXCEPT ![a] = t]
                               /\ t.kind = "recovery" /\ t.queue = task[a].queue
                               /\ t.step = "next_operation"
        BY <2>1, <3>2, ReturnMoves
      <4>2. TaskOK(t, journal', requests')
        BY <1>2, <1>3, <4>1 DEF TaskOK, RowSteps
      <4> QED
        BY <4>1, <4>2, HolderContinues
    <3> QED
      BY <3>1, <3>2
  <2>2. CASE /\ TransitionApplies(journal, task[a].row, from, to)
             /\ journal' = Transitioned(journal, task[a].row, from, to, detail)
             /\ Proceed(a, onSuccess)
    <3>1. CASE onSuccess \in {"succeed", "fail"}
      BY <2>1, <2>2, <3>1 DEF Proceed
    <3>2. CASE onSuccess \notin {"succeed", "fail"}
      <4> DEFINE t == [task[a] EXCEPT !.step = onSuccess]
      <4>1. onSuccess \in Steps /\ Goto(a, onSuccess)
        BY <2>2, <3>2 DEF Proceed
      <4>2. lock' = lock /\ task' = [task EXCEPT ![a] = t] /\ t \in Tasks
        BY <4>1, GotoMoves
      <4>3. /\ t.kind = task[a].kind /\ t.request = task[a].request
            /\ t.queue = task[a].queue /\ t.row = task[a].row /\ t.step = onSuccess
        BY <1>3 DEF Tasks
      <4>4. journal'[task[a].row].state = to
        <5>1. journal \in Seq(Entries)
          BY DEF IInv, TypeOK
        <5> QED
          BY <1>2, <2>2, <5>1, TransitionedEntry
      <4> HIDE DEF t
      <4>5. task[a].step \in RowSteps => DamageAtStep(task[a].step, journal[task[a].row])
        BY <1>3 DEF TaskOK
      <4>6. DamageAtStep(onSuccess, journal'[task[a].row])
        BY <1>2, <3>2, <4>4, <4>5 DEF DamageAtStep
      <4>7. TaskOK(t, journal', requests')
        BY <1>2, <1>3, <4>3, <4>4, <4>6 DEF TaskOK
      <4> QED
        BY <4>2, <4>7, HolderContinues
    <3> QED
      BY <3>1, <3>2
  <2>3. CASE ProceedFrom(a, onError, from)
    <3>1. CASE onError = "fail"
      BY <2>1, <2>3, <3>1 DEF ProceedFrom
    <3>2. CASE onError # "fail"
      <4>1. onError \in Steps
        BY <3>2 DEF Steps
      <4>2. lock' = lock
        BY <2>3, <3>2, <4>1, ProceedFromMoves
      <4>3. PICK t \in Tasks :
                /\ task' = [task EXCEPT ![a] = t]
                /\ t.kind = task[a].kind /\ t.request = task[a].request
                /\ t.row = task[a].row /\ t.queue = task[a].queue
                /\ t.step = onError /\ t.from = from
        BY <2>3, <3>2, <4>1, ProceedFromMoves
      <4>4. DamageAtStep(task[a].step, journal[task[a].row]) /\ task[a].step \notin ResolvingSteps
        BY <1>3, <3>2 DEF TaskOK
      <4>5. DamageAtStep(onError, journal'[task[a].row])
        BY <1>2, <4>4 DEF DamageAtStep
      <4>6. TaskOK(t, journal', requests')
        BY <1>2, <1>3, <3>2, <4>3, <4>5 DEF TaskOK, StateAtStep
      <4> QED
        BY <4>2, <4>3, <4>6, HolderContinues
    <3> QED
      BY <3>1, <3>2
  <2> QED
    BY <1>1, <2>2, <2>3
<1>5. TypeOK'
  <2>1. faults' \in 0..MaxFaults
    BY <1>1, ConstantsAssumption DEF IInv, TypeOK
  <2> QED
    BY <1>2, <1>4, <2>1 DEF IInv, TypeOK
<1>6. DownOK'
  BY <1>4 DEF IInv, DownOK
<1> QED
  BY <1>2, <1>4, <1>5, <1>6 DEF IInv

-------------------------------------------------------------------------------
(* Facts shared by the actions.                                            *)

\* Whoever has a next step holds the lock, in a daemon that runs.
LEMMA WorkerHoldsLock ==
    ASSUME IInv, NEW a \in Actors, task[a].step # "idle"
    PROVE  /\ lock = a /\ TaskOK(task[a], journal, requests) /\ task[a] \in Tasks
           /\ phase # "down"
<1>1. lock = a
  BY DEF IInv, HolderOK, IdleTask
<1>2. Nobody \notin Actors
  BY ConstantsAssumption
<1> QED
  BY <1>1, <1>2 DEF IInv, HolderOK, TypeOK, DownOK

\* The types of the variables that no part of IInv but TypeOK speaks of.
LEMMA HostIsTyped ==
    ASSUME IInv PROVE HostTypes
  BY DEF IInv, TypeOK, HostTypes

\* A fault keeps the fault counter within its bound.
LEMMA FaultIsTyped ==
    ASSUME IInv, Fault PROVE faults' \in 0..MaxFaults
  BY ConstantsAssumption DEF IInv, TypeOK, Fault

\* The entry a row step works on.
LEMMA EntryIsTyped ==
    ASSUME IInv, NEW a \in Actors, task[a].step \in RowSteps
    PROVE  /\ lock = a
           /\ Entry(a) \in Entries /\ Component(a) \in Components
           /\ Entry(a).snapshot \in Files /\ Entry(a).candidate \in Files
           /\ StateAtStep(task[a].step, journal[task[a].row].state)
           /\ task[a].row \in DOMAIN journal /\ task[a].from \in TransactionStates
           /\ DamageAtStep(task[a].step, journal[task[a].row])
<1>1. lock = a /\ TaskOK(task[a], journal, requests) /\ task[a] \in Tasks
  BY WorkerHoldsLock DEF RowSteps
<1>2. journal \in Seq(Entries)
  BY DEF IInv, TypeOK
<1>3. task[a].row \in DOMAIN journal
  BY <1>1 DEF TaskOK
<1>4. journal[task[a].row] \in Entries
  BY <1>2, <1>3
<1> QED
  BY <1>1, <1>3, <1>4 DEF TaskOK, Entry, Component, Entries, Tasks

\* What a command leaves is a process; both continuations are steps of the task.
LEMMA CommandLeaves ==
    ASSUME IInv, NEW c \in Components, NEW content \in Files,
           NEW left \in {ServiceAfter(content)} \cup HAProxyLeftovers(c, content)
                            \cup SystemdLeftovers(c, content)
    PROVE  [proc EXCEPT ![c] = left] \in [Components -> Processes]
<1>1. proc \in [Components -> Processes] /\ proc[c] \in Processes
  BY DEF IInv, TypeOK
<1>2. ServiceAfter(content) \in Processes /\ Stopped \in Processes
  BY DEF ServiceAfter, Processes, Files
<1>3. left \in Processes
  BY <1>1, <1>2 DEF HAProxyLeftovers, SystemdLeftovers
<1> QED
  BY <1>1, <1>3

\* A failing restore returns or continues with FAILED.
LEMMA RestoreErrorStep ==
    ASSUME IInv, NEW a \in Actors, lock = a, task[a].step \in RowSteps, RestoreError(a),
           UNCHANGED <<phase, tracker, journal, requests>>,
           file' \in [Components -> Files], proc' \in [Components -> Processes],
           UNCHANGED <<desired, crashes>>, faults' \in 0..MaxFaults
    PROVE  IInv'
<1>1. Component(a) \in Components
  BY EntryIsTyped
<1>2. unrestored' \subseteq Components
  BY <1>1 DEF RestoreError, IInv, TypeOK
<1>3. HostTypes'
  BY <1>2 DEF HostTypes, IInv, TypeOK
<1>4. CASE task[a].kind = "rollback"
  BY <1>3, <1>4, QuietReturn DEF RestoreError
<1>5. CASE task[a].kind # "rollback"
  <2>1. "ROLLING_BACK" \in TransactionStates \ FinishedStates
    BY DEF TransactionStates, FinishedStates
  <2> QED
    BY <1>3, <1>5, <2>1, QuietFailure DEF RestoreError
<1> QED
  BY <1>4, <1>5

-------------------------------------------------------------------------------
(* The actions, in the order of the module.                                *)

\* The gate lets a task begin only with no unfinished operation.
LEMMA GateStep ==
    ASSUME IInv, NEW a \in Actors, Gate(a) PROVE IInv'
<1>1. lock = a /\ TaskOK(task[a], journal, requests) /\ task[a] \in Tasks
  BY WorkerHoldsLock DEF Gate
<1>2. HostTypes'
  BY HostIsTyped DEF HostTypes, Gate, host, client
<1>3. UNCHANGED <<phase, tracker, journal, requests>>
  BY DEF Gate, process, client
<1>4. CASE GateIsOpen
  <2> DEFINE t == [task[a] EXCEPT !.step = "begin"]
  <2>1. lock' = lock /\ task' = [task EXCEPT ![a] = t] /\ t \in Tasks
    BY <1>4, GotoMoves DEF Gate, Steps
  <2>2. t.kind = task[a].kind /\ t.request = task[a].request /\ t.queue = task[a].queue
        /\ t.step = "begin"
    BY <1>1 DEF Tasks
  <2> HIDE DEF t
  <2>3. TaskOK(t, journal, requests)
    BY <1>1, <1>4, <2>2 DEF TaskOK, RowSteps, GateIsOpen
  <2> QED
    BY <1>1, <1>2, <1>3, <2>1, <2>3, QuietStep
<1>5. CASE ~GateIsOpen
  BY <1>1, <1>2, <1>3, <1>5, QuietStep DEF Gate
<1> QED
  BY <1>4, <1>5

\* Native validation moves the task and nothing else.
LEMMA ValidateCandidateStep ==
    ASSUME IInv, NEW a \in Actors, ValidateCandidate(a) PROVE IInv'
<1>1. task[a].step = "validate" /\ task[a].step \in RowSteps
  BY DEF ValidateCandidate, RowSteps
<1>2. lock = a /\ journal[task[a].row].state = "PREPARED"
  BY <1>1, EntryIsTyped DEF StateAtStep
<1>3. UNCHANGED <<phase, tracker, journal, requests>> /\ HostTypes'
  BY HostIsTyped DEF ValidateCandidate, process, host, client, HostTypes
<1>4. CASE Goto(a, "mark_validated")
  <2>1. "mark_validated" \in Steps \ {"begin", "mark_rolling_back", "roll_back",
                                      "mark_failed", "mark_interrupted"}
    BY DEF Steps
  <2>2. StateAtStep("mark_validated", journal[task[a].row].state)
    BY <1>2 DEF StateAtStep
  <2> QED
    BY <1>1, <1>2, <1>3, <1>4, <2>1, <2>2, QuietGoto DEF ResolvingSteps
<1>5. CASE ProceedFrom(a, "mark_failed", "PREPARED")
  <2>1. "PREPARED" \in TransactionStates \ FinishedStates
    BY DEF TransactionStates, FinishedStates
  <2> QED
    BY <1>1, <1>2, <1>3, <1>5, <2>1, QuietFailure
<1> QED
  BY <1>4, <1>5 DEF ValidateCandidate

\* PREPARED -> VALIDATED.
LEMMA MarkValidatedStep ==
    ASSUME IInv, NEW a \in Actors, MarkValidated(a) PROVE IInv'
<1>1. task[a].step = "mark_validated" /\ task[a].step \in RowSteps
  BY DEF MarkValidated, RowSteps
<1>2. lock = a
  BY <1>1, EntryIsTyped
<1>3. /\ "PREPARED" \in TransactionStates \ FinishedStates /\ "VALIDATED" \in TransactionStates
      /\ "none" \in Details
      /\ StateAtStep("mark_applying", "VALIDATED")
      /\ "mark_applying" \in {"succeed", "fail"} \cup Steps
  BY DEF TransactionStates, FinishedStates, Details, StateAtStep, Steps
<1>4. UNCHANGED <<phase, tracker, file, proc, desired, requests, crashes>>
      /\ unrestored' \subseteq Components
  BY DEF MarkValidated, process, host, client, IInv, TypeOK
<1> QED
  BY <1>1, <1>2, <1>3, <1>4, TransitionStep
     DEF MarkValidated, ResolvingSteps, FinishedStates

\* VALIDATED -> APPLYING, or giving up before anything is replaced.
LEMMA MarkApplyingStep ==
    ASSUME IInv, NEW a \in Actors, MarkApplying(a) PROVE IInv'
<1>1. task[a].step = "mark_applying" /\ task[a].step \in RowSteps
  BY DEF MarkApplying, RowSteps
<1>2. lock = a
  BY <1>1, EntryIsTyped
<1>3. /\ "VALIDATED" \in TransactionStates \ FinishedStates /\ "APPLYING" \in TransactionStates
      /\ "none" \in Details
      /\ StateAtStep("install", "APPLYING")
      /\ "install" \in {"succeed", "fail"} \cup Steps
  BY DEF TransactionStates, FinishedStates, Details, StateAtStep, Steps
<1>4. UNCHANGED <<phase, tracker, file, proc, desired, requests, crashes>>
      /\ unrestored' \subseteq Components
  BY DEF MarkApplying, process, host, client, IInv, TypeOK
<1>5. CASE Transition(a, "VALIDATED", "APPLYING", "none", "install", "mark_failed")
  BY <1>1, <1>2, <1>3, <1>4, <1>5, TransitionStep DEF ResolvingSteps
<1>6. CASE Fault /\ ProceedFrom(a, "mark_failed", "VALIDATED") /\ UNCHANGED journal
  <2>1. HostTypes'
    BY <1>4, <1>6, HostIsTyped, FaultIsTyped DEF HostTypes
  <2> QED
    BY <1>1, <1>2, <1>3, <1>4, <1>6, <2>1, QuietFailure
<1> QED
  BY <1>5, <1>6 DEF MarkApplying

\* Replacing the owned file.
LEMMA InstallStep ==
    ASSUME IInv, NEW a \in Actors, Install(a) PROVE IInv'
<1>1. task[a].step = "install" /\ task[a].step \in RowSteps
  BY DEF Install, RowSteps
<1>2. /\ lock = a /\ Component(a) \in Components /\ Entry(a).candidate \in Files
      /\ journal[task[a].row].state = "APPLYING"
  BY <1>1, EntryIsTyped DEF StateAtStep
<1>3. UNCHANGED <<phase, tracker, journal, requests, proc, desired, crashes, unrestored>>
  BY DEF Install, process, client
<1>4. file' \in [Components -> Files]
  BY <1>2 DEF Install, IInv, TypeOK
<1>5. CASE UNCHANGED faults /\ Goto(a, "activate")
  <2>1. HostTypes'
    BY <1>3, <1>4, <1>5, HostIsTyped DEF HostTypes
  <2>2. /\ "activate" \in Steps \ {"begin", "mark_rolling_back", "roll_back",
                                   "mark_failed", "mark_interrupted"}
        /\ StateAtStep("activate", journal[task[a].row].state)
    BY <1>2 DEF Steps, StateAtStep
  <2> QED
    BY <1>1, <1>2, <1>3, <1>5, <2>1, <2>2, QuietGoto DEF ResolvingSteps
<1>6. CASE Fault /\ ProceedFrom(a, "roll_back", "APPLYING")
  <2>1. HostTypes'
    BY <1>3, <1>4, <1>6, HostIsTyped, FaultIsTyped DEF HostTypes
  <2>2. "APPLYING" \in TransactionStates \ FinishedStates
    BY DEF TransactionStates, FinishedStates
  <2> QED
    BY <1>1, <1>2, <1>3, <1>6, <2>1, <2>2, QuietFailure
<1> QED
  BY <1>5, <1>6 DEF Install

\* Restarting or stopping the service.
LEMMA ActivateStep ==
    ASSUME IInv, NEW a \in Actors, Activate(a) PROVE IInv'
<1>1. task[a].step = "activate" /\ task[a].step \in RowSteps
  BY DEF Activate, RowSteps
<1>2. /\ lock = a /\ Component(a) \in Components /\ Entry(a).candidate \in Files
      /\ journal[task[a].row].state = "APPLYING"
  BY <1>1, EntryIsTyped DEF StateAtStep
<1>3. UNCHANGED <<phase, tracker, journal, requests, file, desired, crashes, unrestored>>
  BY DEF Activate, process, client, CommandService
<1>4. proc' \in [Components -> Processes]
  BY <1>2, CommandLeaves DEF Activate, CommandService
<1>5. CASE UNCHANGED faults /\ Goto(a, "mark_verifying")
  <2>1. HostTypes'
    BY <1>3, <1>4, <1>5, HostIsTyped DEF HostTypes
  <2>2. /\ "mark_verifying" \in Steps \ {"begin", "mark_rolling_back", "roll_back",
                                         "mark_failed", "mark_interrupted"}
        /\ StateAtStep("mark_verifying", journal[task[a].row].state)
    BY <1>2 DEF Steps, StateAtStep
  <2> QED
    BY <1>1, <1>2, <1>3, <1>5, <2>1, <2>2, QuietGoto DEF ResolvingSteps
<1>6. CASE Fault /\ ProceedFrom(a, "roll_back", "APPLYING")
  <2>1. HostTypes'
    BY <1>3, <1>4, <1>6, HostIsTyped, FaultIsTyped DEF HostTypes
  <2>2. "APPLYING" \in TransactionStates \ FinishedStates
    BY DEF TransactionStates, FinishedStates
  <2> QED
    BY <1>1, <1>2, <1>3, <1>6, <2>1, <2>2, QuietFailure
<1> QED
  BY <1>5, <1>6 DEF Activate, CommandService

\* APPLYING -> VERIFYING.
LEMMA MarkVerifyingStep ==
    ASSUME IInv, NEW a \in Actors, MarkVerifying(a) PROVE IInv'
<1>1. task[a].step = "mark_verifying" /\ task[a].step \in RowSteps
  BY DEF MarkVerifying, RowSteps
<1>2. lock = a
  BY <1>1, EntryIsTyped
<1>3. /\ "APPLYING" \in TransactionStates \ FinishedStates /\ "VERIFYING" \in TransactionStates
      /\ "none" \in Details
      /\ StateAtStep("verify", "VERIFYING")
      /\ "verify" \in {"succeed", "fail"} \cup Steps
  BY DEF TransactionStates, FinishedStates, Details, StateAtStep, Steps
<1>4. UNCHANGED <<phase, tracker, file, proc, desired, requests, crashes>>
      /\ unrestored' \subseteq Components
  BY DEF MarkVerifying, process, host, client, IInv, TypeOK
<1> QED
  BY <1>1, <1>2, <1>3, <1>4, TransitionStep
     DEF MarkVerifying, ResolvingSteps, FinishedStates

\* Checking the new service.
LEMMA VerifyStep ==
    ASSUME IInv, NEW a \in Actors, Verify(a) PROVE IInv'
<1>1. task[a].step = "verify" /\ task[a].step \in RowSteps
  BY DEF Verify, RowSteps
<1>2. lock = a /\ journal[task[a].row].state = "VERIFYING"
  BY <1>1, EntryIsTyped DEF StateAtStep
<1>3. UNCHANGED <<phase, tracker, journal, requests, file, proc, desired, crashes, unrestored>>
  BY DEF Verify, process, client, host
<1>4. faults' \in 0..MaxFaults
  BY FaultIsTyped DEF Verify, IInv, TypeOK
<1>5. HostTypes'
  BY <1>3, <1>4, HostIsTyped DEF HostTypes
<1>6. CASE Goto(a, "commit")
  <2>1. /\ "commit" \in Steps \ {"begin", "mark_rolling_back", "roll_back",
                                 "mark_failed", "mark_interrupted"}
        /\ StateAtStep("commit", journal[task[a].row].state)
    BY <1>2 DEF Steps, StateAtStep
  <2> QED
    BY <1>1, <1>2, <1>3, <1>5, <1>6, <2>1, QuietGoto DEF ResolvingSteps
<1>7. CASE ProceedFrom(a, "roll_back", "VERIFYING")
  <2>1. "VERIFYING" \in TransactionStates \ FinishedStates
    BY DEF TransactionStates, FinishedStates
  <2> QED
    BY <1>1, <1>2, <1>3, <1>5, <1>7, <2>1, QuietFailure
<1> QED
  BY <1>6, <1>7 DEF Verify

\* VERIFYING -> COMMITTED.
LEMMA CommitStep ==
    ASSUME IInv, NEW a \in Actors, Commit(a) PROVE IInv'
<1>1. task[a].step = "commit" /\ task[a].step \in RowSteps
  BY DEF Commit, RowSteps
<1>2. lock = a
  BY <1>1, EntryIsTyped
<1>3. /\ "VERIFYING" \in TransactionStates \ FinishedStates /\ "COMMITTED" \in TransactionStates
      /\ "none" \in Details
      /\ StateAtStep("succeed", "COMMITTED")
      /\ "succeed" \in {"succeed", "fail"} \cup Steps
  BY DEF TransactionStates, FinishedStates, Details, StateAtStep, Steps
<1>4. UNCHANGED <<phase, tracker, file, proc, desired, requests, crashes>>
      /\ unrestored' \subseteq Components
  BY DEF Commit, process, host, client, IInv, TypeOK, Settle
<1> QED
  BY <1>1, <1>2, <1>3, <1>4, TransitionStep
     DEF Commit, ResolvingSteps, FinishedStates

\* Any unfinished state -> FAILED.
LEMMA MarkFailedStep ==
    ASSUME IInv, NEW a \in Actors, MarkFailed(a) PROVE IInv'
<1>1. task[a].step = "mark_failed" /\ task[a].step \in RowSteps
  BY DEF MarkFailed, RowSteps
<1>2. lock = a /\ TaskOK(task[a], journal, requests) /\ task[a].from \in TransactionStates
  BY <1>1, EntryIsTyped, WorkerHoldsLock
<1>3. task[a].from \notin FinishedStates
  BY <1>1, <1>2 DEF TaskOK
<1>4. /\ "FAILED" \in TransactionStates
      /\ {"rollback_failed", "not_applied"} \subseteq Details
      /\ StateAtStep("fail", "FAILED")
      /\ "fail" \in {"succeed", "fail"} \cup Steps
  BY DEF TransactionStates, Details, StateAtStep, Steps
<1>5. UNCHANGED <<phase, tracker, file, proc, desired, requests, crashes>>
      /\ unrestored' \subseteq Components
  BY DEF MarkFailed, process, host, client, IInv, TypeOK
<1> QED
  BY <1>1, <1>2, <1>3, <1>4, <1>5, TransitionStep
     DEF MarkFailed, ResolvingSteps, FinishedStates

\* APPLYING or VERIFYING -> ROLLING_BACK.
LEMMA RollBackStep ==
    ASSUME IInv, NEW a \in Actors, RollBack(a) PROVE IInv'
<1>1. task[a].step = "roll_back" /\ task[a].step \in RowSteps
  BY DEF RollBack, RowSteps
<1>2. lock = a /\ TaskOK(task[a], journal, requests) /\ task[a].from \in TransactionStates
  BY <1>1, EntryIsTyped, WorkerHoldsLock
<1>3. task[a].from \notin FinishedStates
  BY <1>1, <1>2 DEF TaskOK
<1>4. /\ "ROLLING_BACK" \in TransactionStates
      /\ {"interrupted"} \subseteq Details
      /\ StateAtStep("restore_file", "ROLLING_BACK")
      /\ "restore_file" \in {"succeed", "fail"} \cup Steps
  BY DEF TransactionStates, Details, StateAtStep, Steps
<1>5. UNCHANGED <<phase, tracker, file, proc, desired, requests, crashes>>
      /\ unrestored' \subseteq Components
  BY DEF RollBack, process, host, client, IInv, TypeOK
<1> QED
  BY <1>1, <1>2, <1>3, <1>4, <1>5, TransitionStep
     DEF RollBack, ResolvingSteps, FinishedStates

\* Restoring the owned file from the snapshot.
LEMMA RestoreFileStep ==
    ASSUME IInv, NEW a \in Actors, RestoreFile(a) PROVE IInv'
<1>1. task[a].step = "restore_file" /\ task[a].step \in RowSteps
  BY DEF RestoreFile, RowSteps
<1>2. /\ lock = a /\ Component(a) \in Components /\ Entry(a).snapshot \in Files
      /\ journal[task[a].row].state = "ROLLING_BACK"
  BY <1>1, EntryIsTyped DEF StateAtStep
<1>3. UNCHANGED <<phase, tracker, journal, requests, proc, desired, crashes>>
  BY DEF RestoreFile, process, client
<1>4. file' \in [Components -> Files] /\ proc' \in [Components -> Processes]
  BY <1>2, <1>3 DEF RestoreFile, IInv, TypeOK
<1>5. CASE Goto(a, "restore_service") /\ UNCHANGED <<faults, unrestored>>
  <2>1. HostTypes'
    BY <1>3, <1>4, <1>5, HostIsTyped DEF HostTypes
  <2>2. /\ "restore_service" \in Steps \ {"begin", "mark_rolling_back", "roll_back",
                                          "mark_failed", "mark_interrupted"}
        /\ StateAtStep("restore_service", journal[task[a].row].state)
    BY <1>2 DEF Steps, StateAtStep
  <2> QED
    BY <1>1, <1>2, <1>3, <1>5, <2>1, <2>2, QuietGoto DEF ResolvingSteps
<1>6. CASE Fault /\ RestoreError(a)
  BY <1>1, <1>2, <1>3, <1>4, <1>6, FaultIsTyped, RestoreErrorStep
<1> QED
  BY <1>5, <1>6 DEF RestoreFile

\* Restoring the service.
LEMMA RestoreServiceStep ==
    ASSUME IInv, NEW a \in Actors, RestoreService(a) PROVE IInv'
<1>1. task[a].step = "restore_service" /\ task[a].step \in RowSteps
  BY DEF RestoreService, RowSteps
<1>2. /\ lock = a /\ Component(a) \in Components /\ Entry(a).snapshot \in Files
      /\ journal[task[a].row].state = "ROLLING_BACK"
  BY <1>1, EntryIsTyped DEF StateAtStep
<1>3. UNCHANGED <<phase, tracker, journal, requests, file, desired, crashes>>
  BY DEF RestoreService, process, client
<1>4. proc' \in [Components -> Processes] /\ file' \in [Components -> Files]
  <2>1. CASE StalePID(a) /\ UNCHANGED proc
    BY <1>3, <2>1 DEF IInv, TypeOK
  <2>2. CASE CommandService(a, Component(a), Entry(a).snapshot, AfterRestoredService(a),
                            RestoreError(a))
    BY <1>2, <1>3, <2>2, CommandLeaves DEF CommandService, IInv, TypeOK
  <2> QED
    BY <2>1, <2>2 DEF RestoreService
<1>5. CASE Goto(a, AfterRestoredService(a)) /\ UNCHANGED <<faults, unrestored>>
  <2>1. HostTypes'
    BY <1>3, <1>4, <1>5, HostIsTyped DEF HostTypes
  <2>2. /\ AfterRestoredService(a) \in Steps \ {"begin", "mark_rolling_back", "roll_back",
                                                "mark_failed", "mark_interrupted"}
        /\ StateAtStep(AfterRestoredService(a), journal[task[a].row].state)
    BY <1>2 DEF Steps, StateAtStep, AfterRestoredService
  <2> QED
    BY <1>1, <1>2, <1>3, <1>5, <2>1, <2>2, QuietGoto DEF ResolvingSteps, AfterRestoredService
<1>6. CASE RestoreError(a) /\ (Fault \/ UNCHANGED faults)
  <2>1. faults' \in 0..MaxFaults
    BY <1>6, FaultIsTyped DEF IInv, TypeOK
  <2> QED
    BY <1>1, <1>2, <1>3, <1>4, <1>6, <2>1, RestoreErrorStep
<1> QED
  BY <1>5, <1>6 DEF RestoreService, CommandService

\* Checking the restored service.
LEMMA RestoreVerifyStep ==
    ASSUME IInv, NEW a \in Actors, RestoreVerify(a) PROVE IInv'
<1>1. task[a].step = "restore_verify" /\ task[a].step \in RowSteps
  BY DEF RestoreVerify, RowSteps
<1>2. lock = a /\ journal[task[a].row].state = "ROLLING_BACK"
  BY <1>1, EntryIsTyped DEF StateAtStep
<1>3. UNCHANGED <<phase, tracker, journal, requests, file, proc, desired, crashes>>
  BY DEF RestoreVerify, process, client, host
<1>4. file' \in [Components -> Files] /\ proc' \in [Components -> Processes]
  BY <1>3 DEF IInv, TypeOK
<1>5. CASE Goto(a, "mark_rolled_back") /\ UNCHANGED <<faults, unrestored>>
  <2>1. HostTypes'
    BY <1>3, <1>4, <1>5, HostIsTyped DEF HostTypes
  <2>2. /\ "mark_rolled_back" \in Steps \ {"begin", "mark_rolling_back", "roll_back",
                                           "mark_failed", "mark_interrupted"}
        /\ StateAtStep("mark_rolled_back", journal[task[a].row].state)
    BY <1>2 DEF Steps, StateAtStep
  <2> QED
    BY <1>1, <1>2, <1>3, <1>5, <2>1, <2>2, QuietGoto DEF ResolvingSteps
<1>6. CASE RestoreError(a) /\ (Fault \/ UNCHANGED faults)
  <2>1. faults' \in 0..MaxFaults
    BY <1>6, FaultIsTyped DEF IInv, TypeOK
  <2> QED
    BY <1>1, <1>2, <1>3, <1>4, <1>6, <2>1, RestoreErrorStep
<1> QED
  BY <1>5, <1>6 DEF RestoreVerify

\* ROLLING_BACK -> ROLLED_BACK.
LEMMA MarkRolledBackStep ==
    ASSUME IInv, NEW a \in Actors, MarkRolledBack(a) PROVE IInv'
<1>1. task[a].step = "mark_rolled_back" /\ task[a].step \in RowSteps
  BY DEF MarkRolledBack, RowSteps
<1>2. lock = a
  BY <1>1, EntryIsTyped
<1>3. /\ "ROLLING_BACK" \in TransactionStates \ FinishedStates
      /\ "ROLLED_BACK" \in TransactionStates
      /\ {"operator_requested", "interrupted"} \subseteq Details
      /\ StateAtStep("succeed", "ROLLED_BACK")
  BY DEF TransactionStates, FinishedStates, Details, StateAtStep
<1>4. UNCHANGED <<phase, tracker, file, proc, desired, requests, crashes>>
      /\ unrestored' \subseteq Components
  BY DEF MarkRolledBack, process, host, client, IInv, TypeOK, Settle
<1> QED
  BY <1>1, <1>2, <1>3, <1>4, TransitionStep
     DEF MarkRolledBack, ResolvingSteps, FinishedStates

\* Choosing the commit to roll back.
LEMMA BeginRollbackStep ==
    ASSUME IInv, NEW a \in Actors, BeginRollback(a) PROVE IInv'
<1>1. task[a].kind = "rollback" /\ task[a].step = "begin"
  BY DEF BeginRollback
<1>2. lock = a /\ TaskOK(task[a], journal, requests) /\ task[a] \in Tasks
  BY <1>1, WorkerHoldsLock
<1>3. UNCHANGED <<phase, tracker, journal, requests, file, proc, desired, crashes, unrestored>>
  BY DEF BeginRollback, process, client, host
<1>4. HostTypes'
  BY <1>3, HostIsTyped, FaultIsTyped DEF BeginRollback, HostTypes
<1>5. CASE Release(a)
  BY <1>2, <1>3, <1>4, <1>5, QuietStep
<1>6. ASSUME NEW row \in DOMAIN journal,
             IsLatestCommitted(journal, row), MayRollBack(row),
             task' = [task EXCEPT ![a].step = "mark_rolling_back", ![a].row = row],
             UNCHANGED lock
      PROVE  IInv'
  <2> DEFINE t == [task[a] EXCEPT !.step = "mark_rolling_back", !.row = row]
  <2>1. task \in [Actors -> Tasks] /\ journal \in Seq(Entries)
    BY DEF IInv, TypeOK
  <2>2. task' = [task EXCEPT ![a] = t]
    BY <1>6, <2>1
  <2>3. row \in Nat
    BY <2>1
  <2>4. t \in Tasks
    BY <1>2, <2>3 DEF Tasks, Steps
  <2>5. t.kind = "rollback" /\ t.queue = task[a].queue /\ t.row = row
        /\ t.step = "mark_rolling_back"
    BY <1>1, <1>2 DEF Tasks
  <2> HIDE DEF t
  <2>6. journal[row].damage = "none" /\ journal[row].state = "COMMITTED"
    BY <1>6 DEF IsLatestCommitted, MayRollBack
  <2>7. UnfinishedRows(journal) = {}
    BY <1>1, <1>2 DEF TaskOK
  <2>8. TaskOK(t, journal, requests)
    BY <1>2, <2>5, <2>6, <2>7 DEF TaskOK, StateAtStep, DamageAtStep
  <2> QED
    BY <1>2, <1>3, <1>4, <1>6, <2>2, <2>4, <2>8, QuietStep
<1> QED
  BY <1>5, <1>6 DEF BeginRollback

\* COMMITTED -> ROLLING_BACK, the only transition that unfinishes an operation.
LEMMA MarkRollingBackStep ==
    ASSUME IInv, NEW a \in Actors, MarkRollingBack(a) PROVE IInv'
<1>1. task[a].step = "mark_rolling_back" /\ task[a].step \in RowSteps
  BY DEF MarkRollingBack, RowSteps
<1>2. lock = a /\ TaskOK(task[a], journal, requests)
  BY <1>1, WorkerHoldsLock
<1>3. UnfinishedRows(journal) = {}
  BY <1>1, <1>2 DEF TaskOK
<1>4. /\ "COMMITTED" \in TransactionStates /\ "ROLLING_BACK" \in TransactionStates
      /\ "operator_requested" \in Details
      /\ StateAtStep("restore_file", "ROLLING_BACK")
      /\ "restore_file" \in {"succeed", "fail"} \cup Steps
  BY DEF TransactionStates, Details, StateAtStep, Steps
<1>5. UNCHANGED <<phase, tracker, file, proc, desired, requests, crashes>>
      /\ unrestored' \subseteq Components
  BY DEF MarkRollingBack, process, host, client, IInv, TypeOK
<1> QED
  BY <1>1, <1>2, <1>3, <1>4, <1>5, TransitionStep
     DEF MarkRollingBack, ResolvingSteps, FinishedStates

\* PREPARED or VALIDATED -> FAILED under recovery.
LEMMA MarkInterruptedStep ==
    ASSUME IInv, NEW a \in Actors, MarkInterrupted(a) PROVE IInv'
<1>1. task[a].step = "mark_interrupted" /\ task[a].step \in RowSteps
  BY DEF MarkInterrupted, RowSteps
<1>2. lock = a /\ TaskOK(task[a], journal, requests) /\ task[a].from \in TransactionStates
  BY <1>1, EntryIsTyped, WorkerHoldsLock
<1>3. task[a].from \notin FinishedStates
  BY <1>1, <1>2 DEF TaskOK
<1>4. /\ "FAILED" \in TransactionStates
      /\ {"not_applied"} \subseteq Details
      /\ StateAtStep("succeed", "FAILED")
      /\ "succeed" \in {"succeed", "fail"} \cup Steps
  BY DEF TransactionStates, Details, StateAtStep, Steps
<1>5. UNCHANGED <<phase, tracker, file, proc, desired, requests, crashes>>
      /\ unrestored' \subseteq Components
  BY DEF MarkInterrupted, process, host, client, IInv, TypeOK
<1> QED
  BY <1>1, <1>2, <1>3, <1>4, <1>5, TransitionStep
     DEF MarkInterrupted, ResolvingSteps, FinishedStates

-------------------------------------------------------------------------------
(* The creation of an operation.                                           *)

\* A reviewed request that passes the checks of BeginApply may be journaled: the
\* gate is still open, the id is new, and the review is the current state.
LEMMA CreationKeepsJournal ==
    ASSUME IInv, NEW r \in requests,
           UnfinishedRows(journal) = {}, PlanIsCurrent(r), IdIsFree(journal, r.id),
           journal' = Created(journal, r.id, r.component, file[r.component], r.candidate),
           UNCHANGED <<requests, tracker>>
    PROVE  /\ journal' \in Seq(Entries)
           /\ JournalOK' /\ DamagedJournalKeepsGateClosed'
           /\ Len(journal') \in DOMAIN journal' /\ Len(journal') \in Nat
           /\ journal'[Len(journal')].damage = "none"
           /\ journal'[Len(journal')].state = "PREPARED"
<1> DEFINE n == Len(journal) + 1
           e == [id |-> r.id, component |-> r.component, state |-> "PREPARED",
                 snapshot |-> file[r.component], candidate |-> r.candidate,
                 detail |-> "none", damage |-> "none"]
<1>1. /\ r \in Requests /\ journal \in Seq(Entries) /\ file \in [Components -> Files]
      /\ JournalOK /\ DamagedJournalKeepsGateClosed
  BY DEF IInv, TypeOK
<1>2. e \in Entries
  BY <1>1 DEF Requests, Entries, TransactionStates, Details, Damages
<1>3. /\ e.id = r.id /\ e.component = r.component /\ e.snapshot = file[r.component]
      /\ e.candidate = r.candidate /\ e.damage = "none" /\ e.state = "PREPARED"
  OBVIOUS
<1>4. journal' = Append(journal, e)
  BY DEF Created
<1> HIDE DEF e
<1>5. /\ journal' \in Seq(Entries) /\ Len(journal') = n /\ n \in Nat
      /\ n \in DOMAIN journal' /\ n \notin DOMAIN journal
      /\ DOMAIN journal' = DOMAIN journal \cup {n}
      /\ journal'[n] = e
      /\ \A row \in DOMAIN journal : journal'[row] = journal[row]
  BY <1>1, <1>2, <1>4
<1> HIDE DEF n
<1>6. AtMostOneUnfinished'
  <2>1. UnfinishedRows(journal') \subseteq {n}
    BY <1>5 DEF UnfinishedRows
  <2> QED
    BY <2>1 DEF AtMostOneUnfinished
<1>7. RequestRunsOnce'
  BY <1>1, <1>3, <1>5 DEF JournalOK, RequestRunsOnce, IdIsFree
<1>8. RequestsAreUnique' /\ RowsWereRequested'
  BY <1>1, <1>3, <1>5 DEF JournalOK, RequestsAreUnique, RowsWereRequested
<1>9. NoStaleApply'
  <2> SUFFICES ASSUME NEW c \in Components, Adapter[c] # "haproxy",
                      NEW row \in DOMAIN journal', NEW q \in requests',
                      journal'[row].id = q.id, q.component = c
               PROVE  journal'[row].snapshot = q.base /\ journal'[row].candidate = q.candidate
    BY DEF NoStaleApply, OnlyReviewedStateIsReplaced
  <2>1. CASE row \in DOMAIN journal
    BY <1>1, <1>5, <2>1 DEF JournalOK, NoStaleApply, OnlyReviewedStateIsReplaced
  <2>2. CASE row = n
    <3>1. q = r
      BY <1>1, <1>3, <1>5, <2>2 DEF JournalOK, RequestsAreUnique
    <3> QED
      BY <1>3, <1>5, <2>2, <3>1 DEF PlanIsCurrent
  <2> QED
    BY <1>5, <2>1, <2>2
<1>10. DamagedJournalKeepsGateClosed'
  BY <1>1, <1>3, <1>5 DEF DamagedJournalKeepsGateClosed
<1> QED
  BY <1>3, <1>5, <1>6, <1>7, <1>8, <1>9, <1>10 DEF JournalOK

\* Inspection and creation of the journal entry.
LEMMA BeginApplyStep ==
    ASSUME IInv, NEW a \in Actors, BeginApply(a) PROVE IInv'
<1> DEFINE r == task[a].request
           created == Created(journal, r.id, r.component, file[r.component], r.candidate)
<1>1. task[a].kind = "apply" /\ task[a].step = "begin"
  BY DEF BeginApply
<1>2. lock = a /\ TaskOK(task[a], journal, requests) /\ task[a] \in Tasks
  BY <1>1, WorkerHoldsLock
<1>3. r \in requests /\ UnfinishedRows(journal) = {}
  BY <1>1, <1>2 DEF TaskOK
<1>4. UNCHANGED <<phase, tracker, requests, file, proc, desired, crashes, unrestored>>
  BY DEF BeginApply, process, client, host
<1>5. HostTypes'
  <2>1. faults' \in 0..MaxFaults
    BY FaultIsTyped DEF BeginApply, IInv, TypeOK
  <2> QED
    BY <1>4, <2>1, HostIsTyped DEF HostTypes
<1>6. CASE journal' = journal /\ Release(a)
  BY <1>2, <1>4, <1>5, <1>6, QuietStep
<1>7. CASE PlanIsCurrent(r) /\ IdIsFree(journal, r.id) /\ journal' = created
  <2>1. /\ journal' \in Seq(Entries)
        /\ JournalOK' /\ DamagedJournalKeepsGateClosed'
        /\ Len(journal') \in DOMAIN journal' /\ Len(journal') \in Nat
        /\ journal'[Len(journal')].damage = "none"
        /\ journal'[Len(journal')].state = "PREPARED"
    <3> HIDE DEF r
    <3> QED
      BY <1>3, <1>4, <1>7, CreationKeepsJournal
  <2>2. HolderOK' /\ task' \in [Actors -> Tasks] /\ lock' \in {lock, Nobody}
    <3>1. CASE Release(a)
      BY <1>2, <3>1, HolderReleases
    <3>2. CASE /\ task' = [task EXCEPT ![a].step = "validate", ![a].row = Len(created)]
               /\ UNCHANGED lock
      <4> DEFINE t == [task[a] EXCEPT !.step = "validate", !.row = Len(journal')]
      <4>1. task' = [task EXCEPT ![a] = t]
        BY <1>7, <3>2 DEF IInv, TypeOK
      <4>2. t \in Tasks
        BY <1>2, <2>1 DEF Tasks, Steps
      <4>3. /\ t.kind = "apply" /\ t.request = r /\ t.queue = task[a].queue
            /\ t.row = Len(journal') /\ t.step = "validate"
        BY <1>1, <1>2 DEF Tasks
      <4> HIDE DEF t, r
      <4>4. t.queue = {}
        BY <1>2, <1>3, <4>3 DEF TaskOK
      <4>5. TaskOK(t, journal', requests')
        BY <1>3, <1>4, <2>1, <4>3, <4>4 DEF TaskOK, StateAtStep, DamageAtStep
      <4> QED
        BY <1>2, <3>2, <4>1, <4>2, <4>5, HolderContinues
    <3> QED
      BY <1>7, <3>1, <3>2 DEF BeginApply
  <2>3. TypeOK'
    BY <1>4, <1>5, <2>1, <2>2 DEF HostTypes, TypeOK, IInv
  <2>4. DownOK'
    BY <1>4, <2>2 DEF DownOK, IInv
  <2> QED
    BY <2>1, <2>2, <2>3, <2>4 DEF IInv
<1> QED
  BY <1>6, <1>7 DEF BeginApply

-------------------------------------------------------------------------------
(* Recovery.                                                               *)

\* The coordinator ends with success only when no operation is unfinished.
LEMMA EndRecoveryStep ==
    ASSUME IInv, NEW a \in Actors, lock = a, NEW outcome \in {"succeeded", "failed"},
           EndRecovery(a, outcome), HostTypes',
           UNCHANGED <<journal, requests>>,
           outcome = "succeeded" => UnfinishedRows(journal) = {}
    PROVE  IInv'
<1>1. tracker' = outcome /\ phase' = "serving" /\ Release(a)
  BY DEF EndRecovery
<1>2. HolderOK' /\ task' \in [Actors -> Tasks] /\ lock' = Nobody
  BY <1>1, HolderReleases
<1>3. JournalOK'
  BY JournalUnchanged
<1>4. TypeOK'
  BY <1>1, <1>2 DEF IInv, TypeOK, HostTypes
<1>5. DownOK'
  BY <1>1 DEF DownOK
<1>6. DamagedJournalKeepsGateClosed'
  BY <1>1 DEF DamagedJournalKeepsGateClosed, UnfinishedRows
<1> QED
  BY <1>2, <1>3, <1>4, <1>5, <1>6 DEF IInv

\* Recovery reads the unfinished operations of the next component.
LEMMA RecoverComponentStep ==
    ASSUME IInv, NEW a \in Actors, RecoverComponent(a) PROVE IInv'
<1>1. task[a].step = "component" /\ UNCHANGED <<journal, requests, file, proc, desired,
                                               crashes, unrestored>>
  BY DEF RecoverComponent, host, client
<1>2. lock = a /\ TaskOK(task[a], journal, requests) /\ task[a] \in Tasks
  BY <1>1, WorkerHoldsLock
<1>3. HostTypes'
  <2>1. faults' \in 0..MaxFaults
    BY FaultIsTyped DEF RecoverComponent, IInv, TypeOK
  <2> QED
    BY <1>1, <2>1, HostIsTyped DEF HostTypes
<1>4. CASE EndRecovery(a, "failed")
  BY <1>1, <1>2, <1>3, <1>4, EndRecoveryStep
<1>5. CASE ~EndRecovery(a, "failed")
  <2> DEFINE queue == {row \in UnfinishedRows(journal) :
                           journal[row].component = RecoveryOrder[task[a].position]}
             t == [task[a] EXCEPT !.step = "next_operation", !.erred = FALSE, !.queue = queue]
  <2>1. task \in [Actors -> Tasks] /\ journal \in Seq(Entries)
    BY DEF IInv, TypeOK
  <2>2. task' = [task EXCEPT ![a] = t] /\ lock' = lock /\ UNCHANGED <<phase, tracker>>
    BY <1>5, <2>1 DEF RecoverComponent, process
  <2>3. queue \subseteq UnfinishedRows(journal) /\ queue \subseteq Nat
    BY <2>1 DEF UnfinishedRows
  <2> HIDE DEF queue
  <2>4. t \in Tasks
    BY <1>2, <2>3 DEF Tasks, Steps
  <2>5. /\ t.kind = task[a].kind /\ t.request = task[a].request /\ t.queue = queue
        /\ t.step = "next_operation"
    BY <1>2 DEF Tasks
  <2> HIDE DEF t
  <2>6. TaskOK(t, journal, requests)
    BY <1>2, <2>3, <2>5 DEF TaskOK, RowSteps
  <2> QED
    BY <1>1, <1>2, <1>3, <2>2, <2>4, <2>6, QuietStep
<1> QED
  BY <1>4, <1>5

\* Recovery takes up the next operation, or reports a damaged one.
LEMMA NextOperationStep ==
    ASSUME IInv, NEW a \in Actors, NextOperation(a) PROVE IInv'
<1> DEFINE rows == task[a].queue
           row == CHOOSE r \in rows : \A other \in rows : r <= other
<1>1. task[a].step = "next_operation" /\ rows # {}
  BY DEF NextOperation
<1>2. lock = a /\ TaskOK(task[a], journal, requests) /\ task[a] \in Tasks
  BY <1>1, WorkerHoldsLock
<1>3. UNCHANGED <<phase, tracker, journal, requests, file, proc, desired, faults, crashes,
                  unrestored, lock>>
  BY DEF NextOperation, process, host, client
<1>4. HostTypes'
  BY <1>3, HostIsTyped DEF HostTypes
<1>5. row \in rows
  <2>1. rows \subseteq Nat
    BY <1>2 DEF Tasks
  <2>2. \E r \in rows : \A other \in rows : r <= other
    BY <1>1, <1>2, <2>1 DEF IInv, JournalOK, AtMostOneUnfinished, TaskOK
  <2> QED
    BY <2>2
<1>6. row \in DOMAIN journal /\ row \in Nat /\ journal \in Seq(Entries)
      /\ journal[row].state \in TransactionStates \ FinishedStates
  <2>1. journal \in Seq(Entries)
    BY DEF IInv, TypeOK
  <2>2. row \in DOMAIN journal /\ journal[row].state \notin FinishedStates
    BY <1>2, <1>5 DEF TaskOK, UnfinishedRows
  <2>3. journal[row] \in Entries
    BY <2>1, <2>2
  <2> QED
    BY <2>1, <2>2, <2>3 DEF Entries
<1>7. task \in [Actors -> Tasks]
  BY DEF IInv, TypeOK
<1>8. CASE journal[row].damage # "unreadable"
  <2> DEFINE state == journal[row].state
             t == [task[a] EXCEPT !.queue = rows \ {row}, !.row = row, !.from = state,
                                  !.step = RecoveryStep(state)]
  <2>1. task' = [task EXCEPT ![a] = t]
    BY <1>7, <1>8 DEF NextOperation
  <2>2. /\ state \in TransactionStates
        /\ RecoveryStep(state) \in {"mark_interrupted", "roll_back", "restore_file"}
        /\ RecoveryStep(state) = "restore_file" => state = "ROLLING_BACK"
    BY <1>6 DEF RecoveryStep, TransactionStates, FinishedStates
  <2> HIDE DEF row, state
  <2>3. t \in Tasks
    BY <1>2, <1>6, <2>2 DEF Tasks, Steps
  <2>4. /\ t.kind = task[a].kind /\ t.request = task[a].request /\ t.queue = rows \ {row}
        /\ t.row = row /\ t.from = state /\ t.step = RecoveryStep(state)
    BY <1>2 DEF Tasks
  <2> HIDE DEF t
  <2>5. StateAtStep(t.step, state)
    BY <2>2, <2>4 DEF StateAtStep
  <2>6. DamageAtStep(t.step, journal[row])
    BY <1>6, <1>8, <2>2, <2>4 DEF DamageAtStep, ResolvingSteps
  <2>7. TaskOK(t, journal, requests)
    BY <1>2, <1>6, <2>2, <2>4, <2>5, <2>6 DEF TaskOK, state
  <2> QED
    BY <1>2, <1>3, <1>4, <2>1, <2>3, <2>7, QuietStep
<1>9. CASE journal[row].damage = "unreadable"
  <2> DEFINE t == [task[a] EXCEPT !.queue = rows \ {row}, !.erred = TRUE]
  <2>1. task' = [task EXCEPT ![a] = t]
    BY <1>7, <1>9 DEF NextOperation
  <2> HIDE DEF row
  <2>2. t \in Tasks
    BY <1>2 DEF Tasks
  <2>3. /\ t.kind = task[a].kind /\ t.request = task[a].request /\ t.queue = rows \ {row}
        /\ t.step = "next_operation"
    BY <1>1, <1>2 DEF Tasks
  <2> HIDE DEF t
  <2>4. TaskOK(t, journal, requests)
    BY <1>2, <2>3 DEF TaskOK, RowSteps
  <2> QED
    BY <1>2, <1>3, <1>4, <2>1, <2>2, <2>4, QuietStep
<1> QED
  BY <1>8, <1>9

\* The coordinator goes on, or stops at the first error.
LEMMA NextComponentStep ==
    ASSUME IInv, NEW a \in Actors, NextComponent(a) PROVE IInv'
<1>1. task[a].step = "next_operation" /\ task[a].queue = {}
      /\ UNCHANGED <<journal, requests, file, proc, desired, faults, crashes, unrestored>>
  BY DEF NextComponent, host, client
<1>2. lock = a /\ TaskOK(task[a], journal, requests) /\ task[a] \in Tasks
      /\ task \in [Actors -> Tasks]
  BY <1>1, WorkerHoldsLock DEF IInv, TypeOK
<1>3. HostTypes'
  BY <1>1, HostIsTyped DEF HostTypes
<1>4. CASE EndRecovery(a, "failed")
  BY <1>1, <1>2, <1>3, <1>4, EndRecoveryStep
<1>5. CASE /\ task' = [task EXCEPT ![a].position = @ + 1, ![a].step = "component"]
           /\ UNCHANGED <<process, lock>>
  <2> DEFINE t == [task[a] EXCEPT !.position = task[a].position + 1, !.step = "component"]
  <2>1. task' = [task EXCEPT ![a] = t]
    BY <1>2, <1>5
  <2>2. lock' = lock /\ UNCHANGED <<phase, tracker>>
    BY <1>5 DEF process
  <2>3. task[a].position + 1 \in Nat
    BY <1>2 DEF Tasks
  <2>4. t \in Tasks
    BY <1>2, <2>3 DEF Tasks, Steps
  <2>5. /\ t.kind = task[a].kind /\ t.request = task[a].request /\ t.queue = task[a].queue
        /\ t.step = "component"
    BY <1>2 DEF Tasks
  <2> HIDE DEF t
  <2>6. TaskOK(t, journal, requests)
    BY <1>2, <2>5 DEF TaskOK, RowSteps
  <2> QED
    BY <1>1, <1>2, <1>3, <2>1, <2>2, <2>4, <2>6, QuietStep
<1>6. CASE Goto(a, "journal_check") /\ UNCHANGED process
  <2> DEFINE t == [task[a] EXCEPT !.step = "journal_check"]
  <2>1. lock' = lock /\ task' = [task EXCEPT ![a] = t] /\ t \in Tasks
        /\ UNCHANGED <<phase, tracker>>
    BY <1>6, GotoMoves DEF Steps, process
  <2>2. /\ t.kind = task[a].kind /\ t.request = task[a].request /\ t.queue = task[a].queue
        /\ t.step = "journal_check"
    BY <1>2 DEF Tasks
  <2> HIDE DEF t
  <2>3. TaskOK(t, journal, requests)
    BY <1>2, <2>2 DEF TaskOK, RowSteps
  <2> QED
    BY <1>1, <1>2, <1>3, <2>1, <2>3, QuietStep
<1> QED
  BY <1>4, <1>5, <1>6 DEF NextComponent

\* The last journal check decides the outcome of the recovery run.
LEMMA JournalCheckStep ==
    ASSUME IInv, NEW a \in Actors, JournalCheck(a) PROVE IInv'
<1>1. task[a].step = "journal_check"
      /\ UNCHANGED <<journal, requests, file, proc, desired, crashes, unrestored>>
  BY DEF JournalCheck, host, client
<1>2. lock = a
  BY <1>1, WorkerHoldsLock
<1>3. HostTypes'
  <2>1. faults' \in 0..MaxFaults
    BY FaultIsTyped DEF JournalCheck, IInv, TypeOK
  <2> QED
    BY <1>1, <2>1, HostIsTyped DEF HostTypes
<1>4. CASE EndRecovery(a, "failed")
  BY <1>1, <1>2, <1>3, <1>4, EndRecoveryStep
<1>5. CASE EndRecovery(a, "succeeded") /\ UnfinishedRows(journal) = {}
  BY <1>1, <1>2, <1>3, <1>5, EndRecoveryStep
<1> QED
  BY <1>4, <1>5 DEF JournalCheck

-------------------------------------------------------------------------------
(* Taking the lock.                                                        *)

\* Taking a free lock starts a task that has no row yet.
LEMMA TakeLockStep ==
    ASSUME IInv, NEW a \in Actors,
           NEW kind \in {"apply", "rollback", "recovery"}, NEW step \in {"gate", "component"},
           NEW request \in Requests \cup {NoRequest},
           kind = "apply" => request \in requests,
           TakeLock(a, kind, step, request),
           UNCHANGED <<tracker, journal, requests>>, HostTypes',
           phase' \in {"startup", "serving"},
           phase' # phase => tracker = "none"
    PROVE  IInv'
<1> DEFINE t == [IdleTask EXCEPT !.kind = kind, !.step = step, !.request = request]
<1>1. lock = Nobody /\ lock' = a /\ task' = [task EXCEPT ![a] = t]
  BY DEF TakeLock
<1>2. Nobody \notin Actors /\ task \in [Actors -> Tasks]
  BY ConstantsAssumption DEF IInv, TypeOK
<1>3. \A b \in Actors : task[b] = IdleTask
  BY <1>1, <1>2 DEF IInv, HolderOK
<1>4. t \in Tasks
  BY IdleTaskType DEF Tasks, Steps
<1>5. t.kind = kind /\ t.step = step /\ t.request = request /\ t.queue = {}
  BY DEF IdleTask
<1> HIDE DEF t
<1>6. TaskOK(t, journal, requests)
  BY <1>5 DEF TaskOK, RowSteps
<1>7. \A b \in Actors : task'[b] = IF b = a THEN t ELSE IdleTask
  BY <1>1, <1>2, <1>3
<1>8. HolderOK' /\ task' \in [Actors -> Tasks]
  BY <1>1, <1>2, <1>4, <1>6, <1>7 DEF HolderOK
<1>9. JournalOK' /\ DamagedJournalKeepsGateClosed'
  BY JournalUnchanged DEF DamagedJournalKeepsGateClosed, IInv
<1>10. TypeOK' /\ DownOK'
  BY <1>1, <1>8 DEF IInv, TypeOK, HostTypes, DownOK
<1> QED
  BY <1>8, <1>9, <1>10 DEF IInv

\* The three requests a handler accepts.
LEMMA ReceiveStep ==
    ASSUME IInv, NEW h \in Handlers, Receive(h) PROVE IInv'
<1>1. h \in Actors
  BY DEF Actors
<1>2. /\ UNCHANGED <<phase, tracker, journal, requests>> /\ phase = "serving"
      /\ HostTypes'
  BY HostIsTyped DEF Receive, ReceiveApply, ReceiveRollback, ReceiveRecovery,
                     process, host, client, HostTypes
<1>3. ASSUME NEW request \in requests, ReceiveApply(h, request)
      PROVE  IInv'
  <2>1. request \in Requests
    BY DEF IInv, TypeOK
  <2> QED
    BY <1>1, <1>2, <1>3, <2>1, TakeLockStep DEF ReceiveApply
<1>4. CASE ReceiveRollback(h)
  BY <1>1, <1>2, <1>4, TakeLockStep DEF ReceiveRollback
<1>5. CASE ReceiveRecovery(h)
  BY <1>1, <1>2, <1>5, TakeLockStep DEF ReceiveRecovery
<1> QED
  BY <1>3, <1>4, <1>5 DEF Receive

\* The daemon starts and takes the lock for its startup recovery.
LEMMA StartStep ==
    ASSUME IInv, Start PROVE IInv'
<1>1. /\ UNCHANGED <<tracker, journal, requests>> /\ phase' = "startup" /\ tracker = "none"
      /\ HostTypes'
  BY HostIsTyped DEF Start, host, client, HostTypes, IInv, DownOK
<1>2. Main \in Actors
  BY DEF Actors
<1> QED
  BY <1>1, <1>2, TakeLockStep DEF Start

-------------------------------------------------------------------------------
(* Clients, crashes and the host.                                          *)

\* A step that concerns neither the lock nor the journal.
LEMMA OutsideStep ==
    ASSUME IInv, UNCHANGED <<phase, tracker, lock, task, journal, requests>>, HostTypes'
    PROVE  IInv'
<1>1. JournalOK' /\ DamagedJournalKeepsGateClosed'
  BY JournalUnchanged DEF DamagedJournalKeepsGateClosed, IInv
<1>2. TypeOK' /\ HolderOK' /\ DownOK'
  BY DEF IInv, TypeOK, HostTypes, HolderOK, DownOK
<1> QED
  BY <1>1, <1>2 DEF IInv

\* Editing the database touches neither the lock nor the journal.
LEMMA EditDesiredStep ==
    ASSUME IInv, NEW c \in Components, NEW content \in Files, EditDesired(c, content)
    PROVE  IInv'
<1>1. HostTypes'
  BY HostIsTyped DEF EditDesired, HostTypes, host
<1> QED
  BY <1>1, OutsideStep DEF EditDesired, process

\* A new review has a new id, so that journaled reviews stay unique.
LEMMA ReviewStep ==
    ASSUME IInv, NEW id \in Ids, NEW c \in Components, Review(id, c)
    PROVE  IInv'
<1> DEFINE r == [id |-> id, component |-> c, base |-> file[c], candidate |-> desired[c]]
<1>1. /\ requests' = requests \cup {r} /\ \A q \in requests : q.id # id
      /\ UNCHANGED <<phase, tracker, lock, task, journal, file, proc, desired, faults,
                     crashes, unrestored>>
  BY DEF Review, process, host
<1>2. r \in Requests /\ r.id = id
  BY DEF IInv, TypeOK, Requests
<1> HIDE DEF r
<1>3. TypeOK' /\ DownOK' /\ DamagedJournalKeepsGateClosed'
  BY <1>1, <1>2 DEF IInv, TypeOK, DownOK, DamagedJournalKeepsGateClosed
<1>4. HolderOK'
  BY <1>1 DEF IInv, HolderOK, TaskOK
<1>5. AtMostOneUnfinished' /\ RequestRunsOnce'
  BY <1>1 DEF IInv, JournalOK, AtMostOneUnfinished, RequestRunsOnce
<1>6. RequestsAreUnique' /\ RowsWereRequested'
  BY <1>1, <1>2 DEF IInv, JournalOK, RequestsAreUnique, RowsWereRequested
<1>7. NoStaleApply'
  <2>1. \A row \in DOMAIN journal : journal[row].id # id
    BY <1>1 DEF IInv, JournalOK, RowsWereRequested
  <2> QED
    BY <1>1, <1>2, <2>1 DEF IInv, JournalOK, NoStaleApply, OnlyReviewedStateIsReplaced
<1> QED
  BY <1>3, <1>4, <1>5, <1>6, <1>7 DEF IInv, JournalOK

\* A crash frees the lock, ends every task and keeps the journal.
LEMMA CrashStep ==
    ASSUME IInv, Crash PROVE IInv'
<1>1. /\ phase' = "down" /\ tracker' = "none" /\ lock' = Nobody
      /\ task' = [a \in Actors |-> IdleTask]
      /\ crashes < MaxCrashes /\ crashes' = crashes + 1
      /\ UNCHANGED <<journal, requests, file, proc, desired, faults, unrestored>>
  BY DEF Crash, host, client
<1>2. JournalOK' /\ DamagedJournalKeepsGateClosed' /\ DownOK'
  BY <1>1, JournalUnchanged DEF DamagedJournalKeepsGateClosed, DownOK
<1>3. HolderOK'
  BY <1>1, ConstantsAssumption DEF HolderOK
<1>4. crashes' \in 0..MaxCrashes
  BY <1>1, ConstantsAssumption DEF IInv, TypeOK
<1>5. TypeOK'
  BY <1>1, <1>4, IdleTaskType DEF IInv, TypeOK
<1> QED
  BY <1>2, <1>3, <1>5 DEF IInv

\* Damage changes of one entry the damage and perhaps the snapshot: the latter only
\* where an HAProxy restore may still use it.
LEMMA TamperedEntry ==
    ASSUME journal \in Seq(Entries), NEW row \in DOMAIN journal, Tamper(row)
    PROVE  /\ journal' \in Seq(Entries) /\ DOMAIN journal' = DOMAIN journal
           /\ \A r \in DOMAIN journal \ {row} : journal'[r] = journal[r]
           /\ journal'[row].id = journal[row].id
           /\ journal'[row].component = journal[row].component
           /\ journal'[row].state = journal[row].state
           /\ journal'[row].candidate = journal[row].candidate
           /\ journal'[row].detail = journal[row].detail
           /\ journal[row].damage = "none"
           /\ \/ /\ journal'[row].snapshot = journal[row].snapshot
                 /\ journal'[row].damage \in {"candidate", "unreadable"}
              \/ /\ journal'[row].damage = "legacy"
                 /\ Adapter[journal[row].component] = "haproxy"
                 /\ journal[row].state \in {"APPLYING", "VERIFYING", "ROLLING_BACK"}
<1> DEFINE Spoiled == \E damage \in {"candidate", "unreadable"} :
                          journal' = [journal EXCEPT ![row].damage = damage]
           Misread == \E content \in Files : journal' =
                          [journal EXCEPT ![row].damage = "legacy", ![row].snapshot = content]
<1>0. /\ journal[row].damage = "none"
      /\ \/ Spoiled
         \/ /\ Adapter[journal[row].component] = "haproxy"
            /\ journal[row].state \in {"APPLYING", "VERIFYING", "ROLLING_BACK"}
            /\ Misread
  BY Zenon DEF Tamper
<1> HIDE DEF Spoiled, Misread
<1>1. journal[row] \in Entries /\ journal[row].damage = "none"
  BY <1>0
<1>2. CASE Spoiled
  <2>1. PICK damage \in {"candidate", "unreadable"} :
            journal' = [journal EXCEPT ![row].damage = damage]
    BY <1>2 DEF Spoiled
  <2> DEFINE e == [journal[row] EXCEPT !.damage = damage]
  <2>2. journal' = [journal EXCEPT ![row] = e]
    BY <2>1
  <2>3. /\ e \in Entries /\ e.id = journal[row].id /\ e.component = journal[row].component
        /\ e.state = journal[row].state /\ e.snapshot = journal[row].snapshot
        /\ e.candidate = journal[row].candidate /\ e.detail = journal[row].detail
        /\ e.damage = damage
    BY <1>1 DEF Entries, Damages
  <2> HIDE DEF e
  <2> QED
    BY <1>1, <2>2, <2>3
<1>3. CASE /\ Adapter[journal[row].component] = "haproxy"
           /\ journal[row].state \in {"APPLYING", "VERIFYING", "ROLLING_BACK"}
           /\ Misread
  <2>1. PICK content \in Files :
            journal' = [journal EXCEPT ![row].damage = "legacy", ![row].snapshot = content]
    BY <1>3 DEF Misread
  <2> DEFINE e == [journal[row] EXCEPT !.damage = "legacy", !.snapshot = content]
  <2>2. journal' = [journal EXCEPT ![row] = e]
    BY <2>1
  <2>3. /\ e \in Entries /\ e.id = journal[row].id /\ e.component = journal[row].component
        /\ e.state = journal[row].state /\ e.candidate = journal[row].candidate
        /\ e.detail = journal[row].detail /\ e.damage = "legacy"
    BY <1>1 DEF Entries, Damages
  <2> HIDE DEF e
  <2> QED
    BY <1>1, <1>3, <2>2, <2>3
<1> QED
  BY <1>0, <1>2, <1>3

\* Damage to a stored entry, while the daemon is down.
LEMMA TamperStep ==
    ASSUME IInv, NEW row \in DOMAIN journal, Tamper(row) PROVE IInv'
<1>1. /\ phase = "down" /\ Fault
      /\ UNCHANGED <<phase, tracker, lock, task, requests, file, proc, desired, crashes,
                     unrestored>>
  BY DEF Tamper, process, host, client
<1>2. journal \in Seq(Entries)
  BY DEF IInv, TypeOK
<1>3. /\ journal' \in Seq(Entries) /\ DOMAIN journal' = DOMAIN journal
      /\ \A r \in DOMAIN journal \ {row} : journal'[r] = journal[r]
  BY <1>2, TamperedEntry
<1>4. /\ journal'[row].id = journal[row].id
      /\ journal'[row].component = journal[row].component
      /\ journal'[row].state = journal[row].state
      /\ journal'[row].candidate = journal[row].candidate
      /\ \/ journal'[row].snapshot = journal[row].snapshot
         \/ Adapter[journal[row].component] = "haproxy"
  BY <1>2, TamperedEntry
<1>6. UnfinishedRows(journal') = UnfinishedRows(journal)
  BY <1>3, <1>4 DEF UnfinishedRows
<1>7. JournalOK'
  <2>1. AtMostOneUnfinished'
    BY <1>6 DEF IInv, JournalOK, AtMostOneUnfinished
  <2>2. RequestRunsOnce' /\ RequestsAreUnique' /\ RowsWereRequested'
    BY <1>1, <1>3, <1>4
       DEF IInv, JournalOK, RequestRunsOnce, RequestsAreUnique, RowsWereRequested
  <2>3. NoStaleApply'
    <3> SUFFICES ASSUME NEW c \in Components, Adapter[c] # "haproxy",
                        NEW r \in DOMAIN journal, NEW q \in requests,
                        journal'[r].id = q.id, q.component = c
                 PROVE  journal'[r].snapshot = q.base /\ journal'[r].candidate = q.candidate
      BY <1>1, <1>3 DEF NoStaleApply, OnlyReviewedStateIsReplaced
    <3>1. journal[r].id = q.id
      BY <1>3, <1>4
    <3>2. journal[r].snapshot = q.base /\ journal[r].candidate = q.candidate
      BY <3>1 DEF IInv, JournalOK, NoStaleApply, OnlyReviewedStateIsReplaced
    <3>3. journal[r].component = c
      BY <3>1 DEF IInv, JournalOK, RequestsAreUnique, RowsWereRequested
    <3> QED
      BY <1>3, <1>4, <3>2, <3>3
  <2> QED
    BY <2>1, <2>2, <2>3 DEF JournalOK
<1>8. tracker' = "none" /\ lock' = Nobody
  BY <1>1 DEF IInv, DownOK
<1>9. DamagedJournalKeepsGateClosed' /\ DownOK'
  BY <1>8 DEF DamagedJournalKeepsGateClosed, DownOK
<1>10. HolderOK'
  BY <1>1, <1>8, ConstantsAssumption DEF IInv, HolderOK
<1>11. TypeOK'
  BY <1>1, <1>3, FaultIsTyped DEF IInv, TypeOK
<1> QED
  BY <1>7, <1>9, <1>10, <1>11 DEF IInv

\* The steps of the host and of systemd.
LEMMA EnvironmentStep ==
    ASSUME IInv, Environment PROVE IInv'
<1>1. CASE Crash
  BY <1>1, CrashStep
<1>2. CASE Reboot
  <2>1. HostTypes'
    BY <1>2 DEF Reboot, IInv, TypeOK, HostTypes, client, ServiceAfter, Files, Processes
  <2> QED
    BY <1>2, <2>1, OutsideStep DEF Reboot, process, client
<1>3. ASSUME NEW c \in Components, ServiceDies(c)
      PROVE  IInv'
  <2>1. HostTypes'
    BY <1>3, FaultIsTyped DEF ServiceDies, IInv, TypeOK, HostTypes, client, Processes
  <2> QED
    BY <1>3, <2>1, OutsideStep DEF ServiceDies, process, client
<1>4. ASSUME NEW c \in Components, SystemdRestarts(c)
      PROVE  IInv'
  <2>1. HostTypes'
    BY <1>4 DEF SystemdRestarts, IInv, TypeOK, HostTypes, client, Files, Processes
  <2> QED
    BY <1>4, <2>1, OutsideStep DEF SystemdRestarts, process, client
<1>5. ASSUME NEW row \in DOMAIN journal, Tamper(row)
      PROVE  IInv'
  BY <1>5, TamperStep
<1> QED
  BY <1>1, <1>2, <1>3, <1>4, <1>5 DEF Environment

-------------------------------------------------------------------------------
(* The invariant.                                                          *)

\* The invariant holds of a fresh installation.
LEMMA InitIsSafe == Init => IInv
<1> SUFFICES ASSUME Init PROVE IInv
  OBVIOUS
<1>1. TypeOK
  <2>1. faults \in 0..MaxFaults /\ crashes \in 0..MaxCrashes
    BY ConstantsAssumption DEF Init
  <2>2. journal \in Seq(Entries)
    BY DEF Init
  <2> QED
    BY <2>1, <2>2, IdleTaskType DEF Init, TypeOK, Files, Processes
<1>2. HolderOK /\ DownOK
  BY ConstantsAssumption DEF Init, HolderOK, DownOK
<1>3. JournalOK /\ DamagedJournalKeepsGateClosed
  BY DEF Init, JournalOK, AtMostOneUnfinished, UnfinishedRows, RequestRunsOnce, NoStaleApply,
         OnlyReviewedStateIsReplaced, RequestsAreUnique, RowsWereRequested,
         DamagedJournalKeepsGateClosed
<1> QED
  BY <1>1, <1>2, <1>3 DEF IInv

\* Every step of a task preserves the invariant.
LEMMA WorkStep ==
    ASSUME IInv, NEW a \in Actors, Work(a) PROVE IInv'
  BY GateStep, BeginApplyStep, ValidateCandidateStep, MarkValidatedStep, MarkApplyingStep,
     InstallStep, ActivateStep, MarkVerifyingStep, VerifyStep, CommitStep, MarkFailedStep,
     RollBackStep, RestoreFileStep, RestoreServiceStep, RestoreVerifyStep,
     MarkRolledBackStep, BeginRollbackStep, MarkRollingBackStep, RecoverComponentStep,
     NextOperationStep, MarkInterruptedStep, NextComponentStep, JournalCheckStep
     DEF Work

\* Every step of the system preserves the invariant: it is inductive.
LEMMA NextIsSafe == IInv /\ [Next]_vars => IInv'
<1> SUFFICES ASSUME IInv, [Next]_vars PROVE IInv'
  OBVIOUS
<1>1. CASE Next
  BY <1>1, StartStep, WorkStep, ReceiveStep, EditDesiredStep, ReviewStep, EnvironmentStep
     DEF Next
<1>2. CASE UNCHANGED vars
  <2>1. HostTypes'
    BY <1>2, HostIsTyped DEF vars, HostTypes
  <2> QED
    BY <1>2, <2>1, OutsideStep DEF vars
<1> QED
  BY <1>1, <1>2

\* The inductive invariant holds in every reachable state: the lock excludes
\* concurrent tasks, and each task finds the journal as its last step left it.
THEOREM InvariantHolds == Spec => []IInv
<1>1. Init => IInv
  BY InitIsSafe
<1>2. IInv /\ [Next]_vars => IInv'
  BY NextIsSafe
<1> QED
  BY <1>1, <1>2, PTL DEF Spec

-------------------------------------------------------------------------------
(* The theorems.                                                           *)

\* Every variable keeps its type, whatever fails.
THEOREM TypeCorrectness == Spec => []TypeOK
<1>1. IInv => TypeOK
  BY DEF IInv
<1> QED
  BY <1>1, InvariantHolds, PTL

\* The lock and the gate of the daemon's mutate closure serialize the operations
\* of all components and handlers: at most one is unfinished in the journal.
THEOREM OperationsAreSerialized == Spec => []AtMostOneUnfinished
<1>1. IInv => AtMostOneUnfinished
  BY DEF IInv, JournalOK
<1> QED
  BY <1>1, InvariantHolds, PTL

\* A delivered-again apply request never runs a second time.
THEOREM RequestsRunAtMostOnce == Spec => []RequestRunsOnce
<1>1. IInv => RequestRunsOnce
  BY DEF IInv, JournalOK
<1> QED
  BY <1>1, InvariantHolds, PTL

\* sing-box and the relay replace and install only what was reviewed under the
\* transaction id, however late the request arrives.
THEOREM OnlyReviewedChangesAreApplied == Spec => []NoStaleApply
<1>1. IInv => NoStaleApply
  BY DEF IInv, JournalOK
<1> QED
  BY <1>1, InvariantHolds, PTL

\* The daemon is not ready while an operation with a damaged document is unfinished.
THEOREM DamageIsNotIgnored == Spec => []DamagedJournalKeepsGateClosed
<1>1. IInv => DamagedJournalKeepsGateClosed
  BY DEF IInv
<1> QED
  BY <1>1, InvariantHolds, PTL

\* Where the journal is written: by a transition of the holder's entry, by the
\* creation of an entry, or by damage while the daemon is down.
LEMMA JournalWriters ==
    ASSUME IInv, Next
    PROVE  \/ journal' = journal
           \/ \E a \in Actors :
                  /\ task[a].step \in RowSteps
                  /\ \E from, to \in TransactionStates, detail \in Details :
                         journal' \in {journal,
                                       Transitioned(journal, task[a].row, from, to, detail)}
           \/ \E r \in requests :
                  journal' = Created(journal, r.id, r.component, file[r.component], r.candidate)
           \/ \E row \in DOMAIN journal : Tamper(row)
<1> DEFINE Written(a) ==
        \E from, to \in TransactionStates, detail \in Details :
            journal' \in {journal, Transitioned(journal, task[a].row, from, to, detail)}
<1>1. ASSUME NEW a \in Actors, BeginApply(a)
      PROVE  \/ journal' = journal
             \/ \E r \in requests :
                    journal' = Created(journal, r.id, r.component, file[r.component], r.candidate)
  <2>1. task[a].request \in requests
    BY <1>1, WorkerHoldsLock DEF BeginApply, TaskOK
  <2> QED
    BY <1>1, <2>1 DEF BeginApply
<1>2. ASSUME NEW a \in Actors, task[a].step \in RowSteps,
             NEW from \in TransactionStates, NEW to \in TransactionStates,
             NEW detail \in Details, NEW onSuccess, NEW onError,
             Transition(a, from, to, detail, onSuccess, onError)
      PROVE  Written(a)
  BY <1>2, TransitionWrites
<1>3. ASSUME NEW a \in Actors,
             \/ MarkValidated(a) \/ MarkApplying(a) \/ MarkVerifying(a) \/ Commit(a)
             \/ MarkRolledBack(a) \/ MarkRollingBack(a)
      PROVE  journal' = journal \/ (task[a].step \in RowSteps /\ Written(a))
  <2>1. task[a].step \in RowSteps
    BY <1>3 DEF MarkValidated, MarkApplying, MarkVerifying, Commit, MarkRolledBack,
                MarkRollingBack, RowSteps
  <2>2. /\ {"PREPARED", "VALIDATED", "APPLYING", "VERIFYING", "COMMITTED", "ROLLING_BACK",
            "ROLLED_BACK"} \subseteq TransactionStates
        /\ {"none", "operator_requested", "interrupted"} \subseteq Details
    BY DEF TransactionStates, Details
  <2> HIDE DEF Written
  <2> QED
    BY <1>2, <1>3, <2>1, <2>2 DEF MarkValidated, MarkApplying, MarkVerifying, Commit,
                                  MarkRolledBack, MarkRollingBack
<1>4. ASSUME NEW a \in Actors, MarkFailed(a) \/ RollBack(a) \/ MarkInterrupted(a)
      PROVE  task[a].step \in RowSteps /\ Written(a)
  <2>1. task[a].step \in RowSteps
    BY <1>4 DEF MarkFailed, RollBack, MarkInterrupted, RowSteps
  <2>2. task[a].from \in TransactionStates
    BY <2>1, EntryIsTyped
  <2>3. /\ {"FAILED", "ROLLING_BACK"} \subseteq TransactionStates
        /\ {"rollback_failed", "not_applied", "interrupted"} \subseteq Details
    BY DEF TransactionStates, Details
  <2> HIDE DEF Written
  <2> QED
    BY <1>2, <1>4, <2>1, <2>2, <2>3 DEF MarkFailed, RollBack, MarkInterrupted
<1>5. ASSUME NEW a \in Actors,
             \/ Gate(a) \/ ValidateCandidate(a) \/ Install(a) \/ Activate(a) \/ Verify(a)
             \/ RestoreFile(a) \/ RestoreService(a) \/ RestoreVerify(a) \/ BeginRollback(a)
             \/ RecoverComponent(a) \/ NextOperation(a) \/ NextComponent(a) \/ JournalCheck(a)
      PROVE  journal' = journal
  BY <1>5 DEF Gate, ValidateCandidate, Install, Activate, Verify, RestoreFile,
              RestoreService, RestoreVerify, BeginRollback, RecoverComponent, NextOperation,
              NextComponent, JournalCheck
<1>6. ASSUME NEW a \in Actors, Work(a)
      PROVE  \/ journal' = journal
             \/ task[a].step \in RowSteps /\ Written(a)
             \/ \E r \in requests :
                    journal' = Created(journal, r.id, r.component, file[r.component], r.candidate)
  <2> HIDE DEF Written
  <2> QED
    BY <1>1, <1>3, <1>4, <1>5, <1>6 DEF Work
<1>7. CASE Environment
  BY <1>7 DEF Environment, Crash, Reboot, ServiceDies, SystemdRestarts
<1>8. ASSUME \/ Start
             \/ \E h \in Handlers : Receive(h)
             \/ \E c \in Components, content \in Files : EditDesired(c, content)
             \/ \E c \in Components, id \in Ids : Review(id, c)
      PROVE  journal' = journal
  BY <1>8 DEF Start, Receive, ReceiveApply, ReceiveRollback, ReceiveRecovery, EditDesired,
              Review
<1> QED
  BY <1>6, <1>7, <1>8 DEF Next

\* No step of the daemon touches an operation whose snapshot cannot be opened, nor a
\* finished operation with a damaged document.
THEOREM DamagedOperationsAreFrozen == Spec => DamagedOperationIsFrozen
<1> DEFINE Frozen == \A row \in DOMAIN journal :
               \/ journal[row].damage = "unreadable"
               \/ journal[row].damage # "none" /\ journal[row].state \in FinishedStates
               => journal'[row] = journal[row]
<1>1. IInv /\ [Next]_vars => Frozen
  <2> SUFFICES ASSUME IInv, [Next]_vars, NEW row \in DOMAIN journal,
                      \/ journal[row].damage = "unreadable"
                      \/ journal[row].damage # "none" /\ journal[row].state \in FinishedStates
               PROVE  journal'[row] = journal[row]
    OBVIOUS
  <2>1. journal \in Seq(Entries)
    BY DEF IInv, TypeOK
  <2>2. CASE journal' = journal
    BY <2>2
  <2>3. ASSUME NEW a \in Actors, task[a].step \in RowSteps,
               NEW from \in TransactionStates, NEW to \in TransactionStates,
               NEW detail \in Details,
               journal' \in {journal, Transitioned(journal, task[a].row, from, to, detail)}
        PROVE  journal'[row] = journal[row]
    <3>1. DamageAtStep(task[a].step, journal[task[a].row]) /\ task[a].row \in DOMAIN journal
      BY <2>3, EntryIsTyped
    <3>2. row # task[a].row
      BY <3>1 DEF DamageAtStep
    <3> QED
      BY <2>1, <2>3, <3>1, <3>2, TransitionedEntry
  <2>4. ASSUME NEW r \in requests,
               journal' = Created(journal, r.id, r.component, file[r.component], r.candidate)
        PROVE  journal'[row] = journal[row]
    BY <2>1, <2>4 DEF Created
  <2>5. ASSUME NEW other \in DOMAIN journal, Tamper(other)
        PROVE  journal'[row] = journal[row]
    <3>1. journal[other].damage = "none" /\ \A r \in DOMAIN journal \ {other} : journal'[r] = journal[r]
      BY <2>1, <2>5, TamperedEntry
    <3> QED
      BY <3>1
  <2>6. CASE Next
    BY <2>2, <2>3, <2>4, <2>5, <2>6, JournalWriters
  <2> QED
    BY <2>2, <2>6 DEF vars
<1> QED
  BY <1>1, InvariantHolds, PTL DEF Spec, DamagedOperationIsFrozen

\* Every change of an owned file is covered by a durable journal entry of that
\* component which is applying or rolling back.
THEOREM MutationsAreJournaled == Spec => JournaledBeforeMutation
<1> DEFINE Journaled == \A c \in Components : file[c]' # file[c] =>
               \E row \in UnfinishedRows(journal) :
                   /\ journal[row].component = c
                   /\ journal[row].state \in {"APPLYING", "ROLLING_BACK"}
<1>1. IInv /\ [Next]_vars => Journaled
  <2> SUFFICES ASSUME IInv, [Next]_vars, NEW c \in Components, file[c]' # file[c]
               PROVE  \E row \in UnfinishedRows(journal) :
                          /\ journal[row].component = c
                          /\ journal[row].state \in {"APPLYING", "ROLLING_BACK"}
    OBVIOUS
  <2>1. \E a \in Actors : Install(a) \/ RestoreFile(a)
    <3>1. ASSUME NEW a \in Actors, Work(a), ~Install(a), ~RestoreFile(a)
          PROVE  UNCHANGED file
      BY <3>1 DEF Work, Gate, BeginApply, ValidateCandidate, MarkValidated, MarkApplying,
                  Activate, MarkVerifying, Verify, Commit, MarkFailed, RollBack,
                  RestoreService, RestoreVerify, MarkRolledBack, BeginRollback,
                  MarkRollingBack, RecoverComponent, NextOperation, MarkInterrupted,
                  NextComponent, JournalCheck, host
    <3>2. ASSUME \/ Start \/ Environment
                 \/ \E h \in Handlers : Receive(h)
                 \/ \E d \in Components, content \in Files : EditDesired(d, content)
                 \/ \E d \in Components, id \in Ids : Review(id, d)
          PROVE  UNCHANGED file
      BY <3>2 DEF Start, Environment, Crash, Reboot, ServiceDies, SystemdRestarts, Tamper,
                  Receive, ReceiveApply, ReceiveRollback, ReceiveRecovery, EditDesired,
                  Review, host
    <3> QED
      BY <3>1, <3>2 DEF Next, vars
  <2>2. PICK a \in Actors : Install(a) \/ RestoreFile(a)
    BY <2>1
  <2>3. /\ task[a].step \in {"install", "restore_file"} /\ task[a].step \in RowSteps
        /\ Component(a) = c
    BY <2>2 DEF Install, RestoreFile, RowSteps, IInv, TypeOK
  <2>4. /\ task[a].row \in DOMAIN journal
        /\ journal[task[a].row].state \in {"APPLYING", "ROLLING_BACK"}
    BY <2>3, EntryIsTyped DEF StateAtStep
  <2>5. task[a].row \in UnfinishedRows(journal)
    BY <2>4 DEF UnfinishedRows, FinishedStates
  <2> QED
    BY <2>3, <2>4, <2>5 DEF Component, Entry
<1> QED
  BY <1>1, InvariantHolds, PTL DEF Spec, JournaledBeforeMutation

-------------------------------------------------------------------------------
(***************************************************************************)
(* The host keeps to its journal: whatever crashes, fails or is retried, a *)
(* component without an operation in flight is as its newest commit left   *)
(* it, and the whole daemon implements AtomicConfiguration.                *)
(*                                                                         *)
(* Two facts about the reachable states carry the argument.  RecordOK says *)
(* that the snapshot of every commit and of the operation in flight is     *)
(* what the journal promised before that operation, so that a restore      *)
(* returns to a promise.  HolderProgressOK says what the step a task has   *)
(* reached tells about the file and the service.                           *)
(***************************************************************************)

\* Operations of journal j that decide what the host of component c should hold.
Deciding(j, c) ==
    {row \in DOMAIN j :
        /\ j[row].component = c
        /\ \/ j[row].state = "COMMITTED"
           \/ j[row].detail = "rollback_failed"
           \/ j[row].damage = "legacy"}

\* The newest of rows is no commit: a restore that gave up, or an operation whose
\* snapshot now reads as a document of the legacy format.
Lost(j, rows) ==
    \E newest \in rows :
        j[newest].state # "COMMITTED" /\ \A other \in rows : other <= newest

\* What the newest of rows, a commit, has put in force; nothing without any.
Expects(j, rows, content) ==
    \/ rows = {} /\ content = Absent
    \/ \E newest \in rows :
           /\ j[newest].state = "COMMITTED" /\ content = j[newest].candidate
           /\ \A other \in rows : other <= newest

Stands(j, rows, content) == Lost(j, rows) \/ Expects(j, rows, content)

\* Files f and processes p of component c are as a configuration demands.
Runs(f, p, c, content) == f[c] = content /\ p[c] \in {Stopped, content}

Settled(j, f, p, c) ==
    Lost(j, Deciding(j, c)) \/ (Expects(j, Deciding(j, c), f[c]) /\ Runs(f, p, c, f[c]))

Flying(j, c) == \E row \in UnfinishedRows(j) : j[row].component = c

SettledOK(j, f, p) == \A c \in Components : Flying(j, c) \/ Settled(j, f, p, c)

ForwardStates == {"PREPARED", "VALIDATED", "APPLYING", "VERIFYING"}

\* An unfinished operation is the last to have begun, or one that is undone after
\* every later one has failed, and its snapshot is what was in force before it.
UnfinishedOK(j, f, p) ==
    \A row \in UnfinishedRows(j) :
        /\ Stands(j, Deciding(j, j[row].component), j[row].snapshot)
        /\ j[row].state \in {"PREPARED", "VALIDATED"} =>
               f[j[row].component] = j[row].snapshot /\ Settled(j, f, p, j[row].component)
        /\ j[row].state \in ForwardStates => row = Len(j)
        /\ \A other \in DOMAIN j : j[other].state = "COMMITTED" => other < row

\* The snapshot of a committed operation is what was in force before it.
CommittedOK(j) ==
    \A row \in DOMAIN j :
        j[row].state = "COMMITTED" =>
            Stands(j, {r \in Deciding(j, j[row].component) : r < row}, j[row].snapshot)

DetailOK(j) ==
    \A row \in DOMAIN j :
        /\ j[row].detail = "rollback_failed" => j[row].state = "FAILED"
        /\ j[row].damage = "legacy" =>
               j[row].state \in {"APPLYING", "VERIFYING", "ROLLING_BACK", "ROLLED_BACK", "FAILED"}

RowsAreReviewed(j, rs) ==
    \A row \in DOMAIN j : \E r \in rs :
        r.component = j[row].component /\ r.candidate = j[row].candidate

AtMostOne(j) == \A first, second \in UnfinishedRows(j) : first = second

RecordOK(j, f, p, rs) ==
    /\ SettledOK(j, f, p) /\ UnfinishedOK(j, f, p) /\ CommittedOK(j) /\ DetailOK(j)
    /\ RowsAreReviewed(j, rs) /\ AtMostOne(j)

\* What task t may rely on in journal j, files f and processes p.
ProgressOK(t, j, f, p) ==
    LET c == j[t.row].component
    IN  /\ t.step = "roll_back" => t.from \in {"APPLYING", "VERIFYING"}
        /\ t.step = "mark_failed" => t.from \in {"PREPARED", "VALIDATED", "ROLLING_BACK"}
        /\ t.step = "mark_interrupted" => t.from \in {"PREPARED", "VALIDATED"}
        /\ t.step = "activate" => f[c] = j[t.row].candidate
        /\ t.step \in {"mark_verifying", "verify", "commit"} => Runs(f, p, c, j[t.row].candidate)
        /\ t.step = "restore_service" => f[c] = j[t.row].snapshot
        /\ t.step \in {"restore_verify", "mark_rolled_back"} => Runs(f, p, c, j[t.row].snapshot)
        /\ t.step = "mark_rolling_back" => f[c] = j[t.row].candidate /\ IsLatestCommitted(j, t.row)

HolderProgressOK == \A a \in Actors : lock = a => ProgressOK(task[a], journal, file, proc)

HInv == IInv /\ RecordOK(journal, file, proc, requests) /\ HolderProgressOK

-------------------------------------------------------------------------------
(* What one step of the system does to journal, host and requests, from a  *)
(* journal j to a journal k, with files f and processes p before it.       *)

\* Documents of an entry may be damaged, as long as no restore is misled by it.
SameRecord(j, k) ==
    /\ DOMAIN k = DOMAIN j
    /\ \A row \in DOMAIN j :
           /\ k[row].component = j[row].component /\ k[row].state = j[row].state
           /\ k[row].detail = j[row].detail /\ k[row].snapshot = j[row].snapshot
           /\ k[row].candidate = j[row].candidate
           /\ k[row].damage = "legacy" <=> j[row].damage = "legacy"

\* One entry moves to another state and keeps everything else.
Writes(j, k, row, to, detail) ==
    /\ DOMAIN k = DOMAIN j /\ row \in DOMAIN j
    /\ k[row].state = to /\ k[row].detail = detail
    /\ k[row].component = j[row].component /\ k[row].snapshot = j[row].snapshot
    /\ k[row].candidate = j[row].candidate /\ k[row].damage = j[row].damage
    /\ \A r \in DOMAIN j \ {row} : k[r] = j[r]

\* The same of an entry whose snapshot still is the one it was created with.
Moves(j, k, row, to, detail) ==
    Writes(j, k, row, to, detail) /\ j[row].damage # "legacy"

\* The operation goes on, or turns to its rollback.
Advances(j, k, row) ==
    \E to \in TransactionStates, detail \in {"none", "interrupted"} :
        /\ Moves(j, k, row, to, detail)
        /\ <<j[row].state, to>> \in
               {<<"PREPARED", "VALIDATED">>, <<"VALIDATED", "APPLYING">>,
                <<"APPLYING", "VERIFYING">>, <<"APPLYING", "ROLLING_BACK">>,
                <<"VERIFYING", "ROLLING_BACK">>}

\* The operation ends before it has touched the host.
EndsUnapplied(j, k, row) ==
    /\ Moves(j, k, row, "FAILED", "not_applied") /\ j[row].state \in {"PREPARED", "VALIDATED"}

Commits(j, k, f, p, row) ==
    /\ Moves(j, k, row, "COMMITTED", "none") /\ j[row].state = "VERIFYING"
    /\ Runs(f, p, j[row].component, j[row].candidate)

Reverts(j, k, f, p, row) ==
    /\ \E detail \in {"operator_requested", "interrupted"} : Moves(j, k, row, "ROLLED_BACK", detail)
    /\ j[row].state = "ROLLING_BACK"
    /\ Runs(f, p, j[row].component, j[row].snapshot)

\* The outcome of the operation is open from now on: its restore gives up, or its
\* snapshot has become another that still decodes.
Strays(j, k, row) ==
    /\ DOMAIN k = DOMAIN j /\ row \in UnfinishedRows(j)
    /\ k[row].component = j[row].component /\ k[row].candidate = j[row].candidate
    /\ \A r \in DOMAIN j \ {row} : k[r] = j[r]
    /\ j[row].state \in {"APPLYING", "VERIFYING", "ROLLING_BACK"}
    /\ k[row].state \in {j[row].state, "ROLLING_BACK", "ROLLED_BACK", "FAILED"}
    /\ k[row].detail = "rollback_failed" \/ k[row].damage = "legacy"
    /\ k[row].detail = "rollback_failed" => k[row].state = "FAILED"
    /\ j[row].damage = "legacy" => k[row].damage = "legacy"

Reopens(j, k, f, row) ==
    /\ Moves(j, k, row, "ROLLING_BACK", "operator_requested") /\ IsLatestCommitted(j, row)
    /\ UnfinishedRows(j) = {}
    /\ f[j[row].component] = j[row].candidate

Begins(j, k, f, r) ==
    /\ UnfinishedRows(j) = {}
    /\ k = Created(j, r.id, r.component, f[r.component], r.candidate)

\* The journal moves and the host does not.
JournalMoves(j, k, f, p, rs) ==
    \/ \E r \in rs : Begins(j, k, f, r)
    \/ \E row \in DOMAIN j :
           \/ Advances(j, k, row) \/ EndsUnapplied(j, k, row) \/ Commits(j, k, f, p, row)
           \/ Reverts(j, k, f, p, row) \/ Strays(j, k, row) \/ Reopens(j, k, f, row)

\* The operation of row replaces its file or commands its service.
Works(j, f, p, f1, p1, row) ==
    /\ row \in UnfinishedRows(j) /\ j[row].state \in {"APPLYING", "ROLLING_BACK"}
    /\ \A c \in Components \ {j[row].component} : f1[c] = f[c] /\ p1[c] = p[c]

\* Services stop, or start again on the file they have.
ServicesMove(f, p, p1) == \A c \in Components : p1[c] \in {p[c], Stopped, f[c]}

Effect ==
    \/ SameRecord(journal, journal') /\ ServicesMove(file, proc, proc') /\ file' = file
    \/ journal' = journal /\ \E row \in DOMAIN journal : Works(journal, file, proc, file', proc', row)
    \/ JournalMoves(journal, journal', file, proc, requests) /\ UNCHANGED <<file, proc>>

-------------------------------------------------------------------------------
(* RecordOK is preserved by every effect.                                  *)

\* The decisions of an unchanged record are unchanged.
LEMMA SameRecordKeepsAll ==
    ASSUME NEW j, NEW k, SameRecord(j, k)
    PROVE  /\ UnfinishedRows(k) = UnfinishedRows(j)
           /\ \A c : Deciding(k, c) = Deciding(j, c) /\ (Flying(k, c) <=> Flying(j, c))
           /\ \A rows : rows \subseteq DOMAIN j =>
                  /\ Lost(k, rows) <=> Lost(j, rows)
                  /\ \A content : Expects(k, rows, content) <=> Expects(j, rows, content)
                  /\ \A content : Stands(k, rows, content) <=> Stands(j, rows, content)
<1>1. UnfinishedRows(k) = UnfinishedRows(j)
  BY DEF SameRecord, UnfinishedRows
<1>2. ASSUME NEW c PROVE Deciding(k, c) = Deciding(j, c) /\ (Flying(k, c) <=> Flying(j, c))
  <2>1. Deciding(k, c) = Deciding(j, c)
    BY DEF SameRecord, Deciding
  <2>2. Flying(k, c) <=> Flying(j, c)
    BY <1>1 DEF SameRecord, Flying, UnfinishedRows
  <2> QED
    BY <2>1, <2>2
<1>3. ASSUME NEW rows, rows \subseteq DOMAIN j
      PROVE  /\ Lost(k, rows) <=> Lost(j, rows)
             /\ \A content : Expects(k, rows, content) <=> Expects(j, rows, content)
  <2>1. Lost(k, rows) <=> Lost(j, rows)
    BY <1>3 DEF SameRecord, Lost
  <2>2. ASSUME NEW content PROVE Expects(k, rows, content) <=> Expects(j, rows, content)
    BY <1>3 DEF SameRecord, Expects
  <2> QED
    BY <2>1, <2>2
<1> QED
  BY <1>1, <1>2, <1>3 DEF Stands

\* Restarts, damage and reviews take nothing back.
LEMMA ServicesKeepRecord ==
    ASSUME NEW j \in Seq(Entries), NEW k \in Seq(Entries), NEW f, NEW p, NEW p1, NEW rs, NEW rs1,
           SameRecord(j, k), ServicesMove(f, p, p1), rs \subseteq rs1, RecordOK(j, f, p, rs)
    PROVE  RecordOK(k, f, p1, rs1)
<1>1. /\ UnfinishedRows(k) = UnfinishedRows(j) /\ Len(k) = Len(j) /\ DOMAIN k = DOMAIN j
      /\ \A c : Deciding(k, c) = Deciding(j, c) /\ (Flying(k, c) <=> Flying(j, c))
  BY SameRecordKeepsAll DEF SameRecord
<1>2. ASSUME NEW rows \in SUBSET DOMAIN j
      PROVE  /\ Lost(k, rows) <=> Lost(j, rows)
             /\ \A content : Expects(k, rows, content) <=> Expects(j, rows, content)
             /\ \A content : Stands(k, rows, content) <=> Stands(j, rows, content)
  BY SameRecordKeepsAll
<1>3. \A c : Deciding(j, c) \in SUBSET DOMAIN j
  BY DEF Deciding
<1>4. \A row \in DOMAIN j : j[row].component \in Components
  <2>1. \A row \in DOMAIN j : j[row] \in Entries
    OBVIOUS
  <2> QED
    BY <2>1 DEF Entries
<1>5. ASSUME NEW c \in Components, Settled(j, f, p, c) PROVE Settled(k, f, p1, c)
  BY <1>1, <1>2, <1>3, <1>5 DEF Settled, Runs, ServicesMove
<1>6. SettledOK(k, f, p1)
  BY <1>1, <1>5 DEF RecordOK, SettledOK
<1>7. UnfinishedOK(k, f, p1)
  <2> SUFFICES ASSUME NEW row \in UnfinishedRows(k)
               PROVE  /\ Stands(k, Deciding(k, k[row].component), k[row].snapshot)
                      /\ k[row].state \in {"PREPARED", "VALIDATED"} =>
                             /\ f[k[row].component] = k[row].snapshot
                             /\ Settled(k, f, p1, k[row].component)
                      /\ k[row].state \in ForwardStates => row = Len(k)
                      /\ \A other \in DOMAIN k : k[other].state = "COMMITTED" => other < row
    BY DEF UnfinishedOK
  <2> DEFINE c == j[row].component
  <2>1. row \in DOMAIN j /\ row \in UnfinishedRows(j)
    BY <1>1 DEF UnfinishedRows
  <2>2. /\ k[row].component = c /\ k[row].state = j[row].state /\ k[row].snapshot = j[row].snapshot
        /\ c \in Components
    BY <1>4, <2>1 DEF SameRecord
  <2>3. /\ Stands(j, Deciding(j, c), j[row].snapshot)
        /\ j[row].state \in {"PREPARED", "VALIDATED"} => f[c] = j[row].snapshot /\ Settled(j, f, p, c)
        /\ j[row].state \in ForwardStates => row = Len(j)
        /\ \A other \in DOMAIN j : j[other].state = "COMMITTED" => other < row
    BY <2>1 DEF RecordOK, UnfinishedOK
  <2> HIDE DEF c
  <2>4. Stands(k, Deciding(k, c), j[row].snapshot)
    BY <1>1, <1>2, <1>3, <2>3
  <2>5. \A other \in DOMAIN k : k[other].state = "COMMITTED" => other < row
    BY <1>1, <2>3 DEF SameRecord
  <2> QED
    BY <1>1, <1>5, <2>2, <2>3, <2>4, <2>5
<1>8. CommittedOK(k)
  <2> SUFFICES ASSUME NEW row \in DOMAIN k, k[row].state = "COMMITTED"
               PROVE  Stands(k, {r \in Deciding(k, k[row].component) : r < row}, k[row].snapshot)
    BY DEF CommittedOK
  <2> DEFINE rows == {r \in Deciding(j, j[row].component) : r < row}
  <2>1. rows \in SUBSET DOMAIN j
    BY <1>3
  <2>2. {r \in Deciding(k, k[row].component) : r < row} = rows
    BY <1>1 DEF SameRecord
  <2>3. Stands(j, rows, j[row].snapshot)
    BY <1>1 DEF RecordOK, CommittedOK, SameRecord
  <2> HIDE DEF rows
  <2> QED
    BY <1>1, <1>2, <2>1, <2>2, <2>3 DEF SameRecord
<1>9. DetailOK(k) /\ RowsAreReviewed(k, rs1) /\ AtMostOne(k)
  BY <1>1 DEF RecordOK, DetailOK, RowsAreReviewed, AtMostOne, SameRecord
<1> QED
  BY <1>6, <1>7, <1>8, <1>9 DEF RecordOK

\* Work of the operation in flight on its own component.
LEMMA WorkKeepsRecord ==
    ASSUME NEW j \in Seq(Entries), NEW f, NEW p, NEW f1, NEW p1, NEW rs, NEW row,
           Works(j, f, p, f1, p1, row), RecordOK(j, f, p, rs)
    PROVE  RecordOK(j, f1, p1, rs)
<1>1. /\ row \in UnfinishedRows(j) /\ j[row].state \in {"APPLYING", "ROLLING_BACK"}
      /\ \A other \in UnfinishedRows(j) : other = row
  BY DEF Works, RecordOK, AtMostOne
<1>2. SettledOK(j, f1, p1)
  <2> SUFFICES ASSUME NEW c \in Components, ~Flying(j, c) PROVE Settled(j, f1, p1, c)
    BY DEF SettledOK
  <2>1. f1[c] = f[c] /\ p1[c] = p[c]
    BY <1>1 DEF Flying, Works
  <2> QED
    BY <2>1 DEF RecordOK, SettledOK, Settled, Runs
<1>3. UnfinishedOK(j, f1, p1)
  BY <1>1 DEF RecordOK, UnfinishedOK
<1> QED
  BY <1>2, <1>3 DEF RecordOK

\* What the other rows decide does not depend on the entry that moves.
LEMMA OtherRowsStand ==
    ASSUME NEW j, NEW k, NEW row, NEW to, NEW detail, Moves(j, k, row, to, detail),
           NEW rows, rows \subseteq DOMAIN j \ {row}
    PROVE  /\ Lost(k, rows) <=> Lost(j, rows)
           /\ \A content : Expects(k, rows, content) <=> Expects(j, rows, content)
           /\ \A content : Stands(k, rows, content) <=> Stands(j, rows, content)
<1>1. Lost(k, rows) <=> Lost(j, rows)
  BY DEF Moves, Writes, Lost
<1>2. \A content : Expects(k, rows, content) <=> Expects(j, rows, content)
  BY DEF Moves, Writes, Expects
<1> QED
  BY <1>1, <1>2 DEF Stands

\* The decisions before and after the move of an entry.
LEMMA MovedDecisions ==
    ASSUME NEW j \in Seq(Entries), NEW k, NEW row, NEW to, NEW detail,
           Moves(j, k, row, to, detail)
    PROVE  /\ \A c : \A r \in DOMAIN j \ {row} : r \in Deciding(k, c) <=> r \in Deciding(j, c)
           /\ \A c : c # j[row].component => Deciding(k, c) = Deciding(j, c)
           /\ \A c : c # j[row].component => row \notin Deciding(j, c)
           /\ \A c : Deciding(j, c) \subseteq DOMAIN j /\ Deciding(k, c) \subseteq DOMAIN j
           /\ row \in Deciding(k, j[row].component) <=>
                  to = "COMMITTED" \/ detail = "rollback_failed"
           /\ DOMAIN j \subseteq Nat /\ row \in DOMAIN j
           /\ \A r \in DOMAIN j : j[r].component \in Components
           /\ \A r \in DOMAIN j \ {row} : r \in UnfinishedRows(k) <=> r \in UnfinishedRows(j)
           /\ row \in UnfinishedRows(k) <=> to \notin FinishedStates
           /\ UnfinishedRows(k) \subseteq DOMAIN j
<1>1. \A c : \A r \in DOMAIN j \ {row} : r \in Deciding(k, c) <=> r \in Deciding(j, c)
  BY DEF Moves, Writes, Deciding
<1>2. /\ \A c : c # j[row].component => row \notin Deciding(j, c) /\ row \notin Deciding(k, c)
      /\ \A c : Deciding(j, c) \subseteq DOMAIN j /\ Deciding(k, c) \subseteq DOMAIN j
  BY DEF Moves, Writes, Deciding
<1>3. ASSUME NEW c, c # j[row].component PROVE Deciding(k, c) = Deciding(j, c)
  <2>1. \A r \in DOMAIN j : r \in Deciding(k, c) <=> r \in Deciding(j, c)
    BY <1>1, <1>2, <1>3
  <2> QED
    BY <1>2, <2>1
<1>4. row \in Deciding(k, j[row].component) <=> to = "COMMITTED" \/ detail = "rollback_failed"
  BY DEF Moves, Writes, Deciding
<1>5. DOMAIN j \subseteq Nat /\ row \in DOMAIN j /\ \A r \in DOMAIN j : j[r].component \in Components
  <2>1. \A r \in DOMAIN j : j[r] \in Entries
    OBVIOUS
  <2> QED
    BY <2>1 DEF Moves, Writes, Entries
<1>6. /\ \A r \in DOMAIN j \ {row} : r \in UnfinishedRows(k) <=> r \in UnfinishedRows(j)
      /\ row \in UnfinishedRows(k) <=> to \notin FinishedStates
      /\ UnfinishedRows(k) \subseteq DOMAIN j
  BY DEF Moves, Writes, UnfinishedRows
<1> QED
  BY <1>1, <1>2, <1>3, <1>4, <1>5, <1>6

\* An unfinished operation of another component does not exist while row is
\* unfinished, so that every other component is settled.
LEMMA OthersAreSettled ==
    ASSUME NEW j \in Seq(Entries), NEW k, NEW f, NEW p, NEW rs, NEW row, NEW to, NEW detail,
           Moves(j, k, row, to, detail), RecordOK(j, f, p, rs),
           row \in UnfinishedRows(j) \/ UnfinishedRows(j) = {}
    PROVE  \A c \in Components : c # j[row].component => Settled(k, f, p, c)
<1> SUFFICES ASSUME NEW c \in Components, c # j[row].component PROVE Settled(k, f, p, c)
  OBVIOUS
<1>1. ~Flying(j, c)
  BY DEF RecordOK, AtMostOne, Flying
<1>2. Settled(j, f, p, c)
  BY <1>1 DEF RecordOK, SettledOK
<1>3. Deciding(k, c) = Deciding(j, c) /\ Deciding(j, c) \subseteq DOMAIN j \ {row}
  BY MovedDecisions
<1> QED
  BY <1>2, <1>3, OtherRowsStand DEF Settled

\* The entries that no move touches keep what CommittedOK says of them, as long
\* as the decisions below them are the same.
LEMMA CommitsBelowStand ==
    ASSUME NEW j \in Seq(Entries), NEW k, NEW row, NEW to, NEW detail,
           Moves(j, k, row, to, detail), CommittedOK(j),
           NEW r \in DOMAIN j \ {row}, j[r].state = "COMMITTED", r < row
    PROVE  Stands(k, {x \in Deciding(k, k[r].component) : x < r}, k[r].snapshot)
<1> DEFINE rows == {x \in Deciding(j, j[r].component) : x < r}
<1>1. k[r] = j[r] /\ r \in Nat /\ row \in Nat
  BY DEF Moves, Writes
<1>2. rows \subseteq DOMAIN j \ {row}
  BY <1>1, MovedDecisions
<1>3. {x \in Deciding(k, k[r].component) : x < r} = rows
  <2>1. \A x \in DOMAIN j : x < r => (x \in Deciding(k, k[r].component) <=> x \in Deciding(j, j[r].component))
    BY <1>1, MovedDecisions
  <2>2. Deciding(k, k[r].component) \subseteq DOMAIN j /\ Deciding(j, j[r].component) \subseteq DOMAIN j
    BY <1>1, MovedDecisions
  <2> QED
    BY <2>1, <2>2
<1>4. Stands(j, rows, j[r].snapshot)
  BY DEF CommittedOK
<1> HIDE DEF rows
<1>5. Stands(k, rows, j[r].snapshot)
  BY <1>2, <1>4, OtherRowsStand
<1> QED
  BY <1>1, <1>3, <1>5

\* The conjuncts that no decision enters.
LEMMA MovedDetails ==
    ASSUME NEW j \in Seq(Entries), NEW k, NEW f, NEW p, NEW rs, NEW row, NEW to, NEW detail,
           Moves(j, k, row, to, detail), RecordOK(j, f, p, rs),
           detail = "rollback_failed" => to = "FAILED",
           row \in UnfinishedRows(j) \/ UnfinishedRows(j) = {}
    PROVE  DetailOK(k) /\ RowsAreReviewed(k, rs) /\ AtMostOne(k)
<1>1. DetailOK(k) /\ RowsAreReviewed(k, rs)
  BY DEF RecordOK, DetailOK, RowsAreReviewed, Moves, Writes
<1>2. AtMostOne(k)
  BY MovedDecisions DEF RecordOK, AtMostOne
<1> QED
  BY <1>1, <1>2

\* A move that decides nothing: no commit, no restore that gave up.
LEMMA UndecidedMove ==
    ASSUME NEW j \in Seq(Entries), NEW k, NEW f, NEW p, NEW rs, NEW row, NEW to, NEW detail,
           Moves(j, k, row, to, detail), RecordOK(j, f, p, rs),
           j[row].state \notin FinishedStates, to # "COMMITTED", detail # "rollback_failed"
    PROVE  /\ \A c : Deciding(k, c) = Deciding(j, c) /\ row \notin Deciding(j, c)
           /\ \A c : Settled(k, f, p, c) <=> Settled(j, f, p, c)
           /\ \A c, content : Stands(k, Deciding(k, c), content) <=> Stands(j, Deciding(j, c), content)
           /\ CommittedOK(k)
           /\ \A other \in DOMAIN j : j[other].state = "COMMITTED" => other < row
           /\ \A other \in DOMAIN j : k[other].state = "COMMITTED" => j[other].state = "COMMITTED"
<1>1. row \in UnfinishedRows(j) /\ DOMAIN k = DOMAIN j
  BY DEF UnfinishedRows, Moves, Writes
<1>2. \A other \in DOMAIN j : j[other].state = "COMMITTED" => other < row
  BY <1>1 DEF RecordOK, UnfinishedOK
<1>3. \A other \in DOMAIN j : k[other].state = "COMMITTED" => j[other].state = "COMMITTED" /\ other # row
  BY DEF Moves, Writes
<1>4. \A c : row \notin Deciding(j, c) /\ row \notin Deciding(k, c)
  BY DEF RecordOK, DetailOK, Deciding, FinishedStates, Moves, Writes
<1>5. ASSUME NEW c PROVE Deciding(k, c) = Deciding(j, c)
  <2>1. /\ \A r \in DOMAIN j \ {row} : r \in Deciding(k, c) <=> r \in Deciding(j, c)
        /\ Deciding(j, c) \subseteq DOMAIN j /\ Deciding(k, c) \subseteq DOMAIN j
    BY MovedDecisions
  <2> QED
    BY <1>4, <2>1
<1>6. \A c : Deciding(j, c) \subseteq DOMAIN j \ {row}
  BY <1>4, MovedDecisions
<1>7. ASSUME NEW c
      PROVE  /\ Settled(k, f, p, c) <=> Settled(j, f, p, c)
             /\ \A content : Stands(k, Deciding(k, c), content) <=> Stands(j, Deciding(j, c), content)
  BY <1>5, <1>6, OtherRowsStand DEF Settled
<1>8. CommittedOK(k)
  <2> SUFFICES ASSUME NEW r \in DOMAIN k, k[r].state = "COMMITTED"
               PROVE  Stands(k, {x \in Deciding(k, k[r].component) : x < r}, k[r].snapshot)
    BY DEF CommittedOK
  <2>1. r \in DOMAIN j \ {row} /\ j[r].state = "COMMITTED" /\ r < row
    BY <1>1, <1>2, <1>3
  <2> QED
    BY <2>1, CommitsBelowStand DEF RecordOK
<1> QED
  BY <1>2, <1>3, <1>4, <1>5, <1>7, <1>8

\* The operation goes on, or turns to its rollback.
LEMMA AdvanceKeepsRecord ==
    ASSUME NEW j \in Seq(Entries), NEW k \in Seq(Entries), NEW f, NEW p, NEW rs, NEW row,
           Advances(j, k, row), RecordOK(j, f, p, rs)
    PROVE  RecordOK(k, f, p, rs)
<1>1. PICK to \in TransactionStates, detail \in {"none", "interrupted"} :
          /\ Moves(j, k, row, to, detail)
          /\ <<j[row].state, to>> \in
                 {<<"PREPARED", "VALIDATED">>, <<"VALIDATED", "APPLYING">>,
                  <<"APPLYING", "VERIFYING">>, <<"APPLYING", "ROLLING_BACK">>,
                  <<"VERIFYING", "ROLLING_BACK">>}
  BY DEF Advances
<1>2. /\ j[row].state \notin FinishedStates /\ to \notin FinishedStates /\ to # "COMMITTED"
      /\ detail # "rollback_failed"
      /\ j[row].state \in ForwardStates
      /\ to \in {"PREPARED", "VALIDATED"} => j[row].state \in {"PREPARED", "VALIDATED"}
  BY <1>1 DEF FinishedStates, ForwardStates
<1>3. row \in UnfinishedRows(j) /\ DOMAIN k = DOMAIN j /\ Len(k) = Len(j)
  BY <1>1, <1>2 DEF UnfinishedRows, Moves, Writes
<1>4. /\ \A c : Deciding(k, c) = Deciding(j, c)
      /\ \A c : Settled(k, f, p, c) <=> Settled(j, f, p, c)
      /\ \A c, content : Stands(k, Deciding(k, c), content) <=> Stands(j, Deciding(j, c), content)
      /\ CommittedOK(k)
      /\ \A other \in DOMAIN j : k[other].state = "COMMITTED" => other < row
  BY <1>1, <1>2, UndecidedMove
<1>5. SettledOK(k, f, p)
  <2> SUFFICES ASSUME NEW c \in Components PROVE Flying(k, c) \/ Settled(k, f, p, c)
    BY DEF SettledOK
  <2>1. CASE c = j[row].component
    <3>1. row \in UnfinishedRows(k) /\ k[row].component = c
      BY <1>1, <1>2, <2>1, MovedDecisions DEF Moves, Writes
    <3> QED
      BY <3>1 DEF Flying
  <2>2. CASE c # j[row].component
    BY <1>1, <1>3, <2>2, OthersAreSettled
  <2> QED
    BY <2>1, <2>2
<1>6. DetailOK(k) /\ RowsAreReviewed(k, rs) /\ AtMostOne(k)
  BY <1>1, <1>2, <1>3, MovedDetails
<1>7. UnfinishedOK(k, f, p)
  <2>1. \A r \in UnfinishedRows(k) : r = row
    BY <1>1, <1>3, MovedDecisions DEF RecordOK, AtMostOne
  <2>2. k[row].component = j[row].component /\ k[row].snapshot = j[row].snapshot /\ k[row].state = to
    BY <1>1 DEF Moves, Writes
  <2>3. /\ Stands(j, Deciding(j, j[row].component), j[row].snapshot)
        /\ j[row].state \in {"PREPARED", "VALIDATED"} =>
               f[j[row].component] = j[row].snapshot /\ Settled(j, f, p, j[row].component)
        /\ row = Len(j)
    BY <1>2, <1>3 DEF RecordOK, UnfinishedOK
  <2> QED
    BY <1>2, <1>3, <1>4, <2>1, <2>2, <2>3 DEF UnfinishedOK
<1> QED
  BY <1>4, <1>5, <1>6, <1>7 DEF RecordOK

\* What remains to be shown of a move after which nothing is unfinished.
LEMMA EndedMove ==
    ASSUME NEW j \in Seq(Entries), NEW k, NEW f, NEW p, NEW rs, NEW row, NEW to, NEW detail,
           Moves(j, k, row, to, detail), RecordOK(j, f, p, rs),
           j[row].state \notin FinishedStates, to \in FinishedStates,
           detail = "rollback_failed" => to = "FAILED",
           CommittedOK(k), Settled(k, f, p, j[row].component)
    PROVE  RecordOK(k, f, p, rs)
<1>1. row \in UnfinishedRows(j)
  BY DEF UnfinishedRows, Moves, Writes
<1>2. UnfinishedRows(k) = {}
  BY <1>1, MovedDecisions DEF RecordOK, AtMostOne
<1>3. SettledOK(k, f, p)
  BY <1>1, OthersAreSettled DEF SettledOK
<1>4. UnfinishedOK(k, f, p)
  BY <1>2 DEF UnfinishedOK
<1>5. DetailOK(k) /\ RowsAreReviewed(k, rs) /\ AtMostOne(k)
  BY <1>1, MovedDetails
<1> QED
  BY <1>3, <1>4, <1>5 DEF RecordOK

\* A refused or interrupted operation that has touched nothing.
LEMMA UnappliedKeepsRecord ==
    ASSUME NEW j \in Seq(Entries), NEW k, NEW f, NEW p, NEW rs, NEW row,
           EndsUnapplied(j, k, row), RecordOK(j, f, p, rs)
    PROVE  RecordOK(k, f, p, rs)
<1>1. /\ Moves(j, k, row, "FAILED", "not_applied") /\ j[row].state \in {"PREPARED", "VALIDATED"}
      /\ j[row].state \notin FinishedStates /\ "FAILED" \in FinishedStates
  BY DEF EndsUnapplied, FinishedStates
<1>2. row \in UnfinishedRows(j)
  BY <1>1 DEF UnfinishedRows, Moves, Writes
<1>3. CommittedOK(k) /\ \A c : Settled(k, f, p, c) <=> Settled(j, f, p, c)
  BY <1>1, UndecidedMove
<1>4. Settled(j, f, p, j[row].component)
  BY <1>1, <1>2 DEF RecordOK, UnfinishedOK
<1> QED
  BY <1>1, <1>3, <1>4, EndedMove

\* A restore that is complete returns to what the journal promises.
LEMMA RevertKeepsRecord ==
    ASSUME NEW j \in Seq(Entries), NEW k, NEW f, NEW p, NEW rs, NEW row,
           Reverts(j, k, f, p, row), RecordOK(j, f, p, rs)
    PROVE  RecordOK(k, f, p, rs)
<1>1. PICK detail \in {"operator_requested", "interrupted"} : Moves(j, k, row, "ROLLED_BACK", detail)
  BY DEF Reverts
<1>2. /\ j[row].state \notin FinishedStates /\ "ROLLED_BACK" \in FinishedStates
      /\ Runs(f, p, j[row].component, j[row].snapshot)
  BY DEF Reverts, FinishedStates
<1>3. row \in UnfinishedRows(j)
  BY <1>1, <1>2 DEF UnfinishedRows, Moves, Writes
<1>4. /\ CommittedOK(k)
      /\ \A c : Settled(k, f, p, c) <=> Settled(j, f, p, c)
  BY <1>1, <1>2, UndecidedMove
<1>5. Stands(j, Deciding(j, j[row].component), j[row].snapshot)
  BY <1>3 DEF RecordOK, UnfinishedOK
<1>6. Settled(j, f, p, j[row].component)
  BY <1>2, <1>5 DEF Settled, Stands, Runs
<1> QED
  BY <1>1, <1>2, <1>4, <1>6, EndedMove

\* A commit is the newest decision, and the host runs it.
LEMMA CommitKeepsRecord ==
    ASSUME NEW j \in Seq(Entries), NEW k, NEW f, NEW p, NEW rs, NEW row,
           Commits(j, k, f, p, row), RecordOK(j, f, p, rs)
    PROVE  RecordOK(k, f, p, rs)
<1> DEFINE c == j[row].component
           below == {x \in Deciding(k, c) : x < row}
<1>1. /\ Moves(j, k, row, "COMMITTED", "none") /\ j[row].state = "VERIFYING"
      /\ j[row].state \notin FinishedStates /\ "COMMITTED" \in FinishedStates
      /\ Runs(f, p, c, j[row].candidate)
  BY DEF Commits, FinishedStates
<1>2. row \in UnfinishedRows(j)
  BY <1>1 DEF UnfinishedRows, Moves, Writes
<1>3. /\ row = Len(j) /\ Stands(j, Deciding(j, c), j[row].snapshot)
      /\ \A other \in DOMAIN j : j[other].state = "COMMITTED" => other < row
  BY <1>1, <1>2 DEF RecordOK, UnfinishedOK, ForwardStates
<1>4. /\ \A r \in DOMAIN j \ {row} : r \in Deciding(k, c) <=> r \in Deciding(j, c)
      /\ row \in Deciding(k, c) /\ Deciding(k, c) \subseteq DOMAIN j
      /\ Deciding(j, c) \subseteq DOMAIN j
      /\ DOMAIN j \subseteq Nat /\ row \in DOMAIN j
  BY <1>1, MovedDecisions
<1>5. row \notin Deciding(j, c)
  BY <1>1 DEF RecordOK, DetailOK, Deciding, Moves
<1>6. \A r \in DOMAIN j : r <= row
  BY <1>3
<1>7. k[row].state = "COMMITTED" /\ k[row].candidate = j[row].candidate /\ k[row].component = c
      /\ k[row].snapshot = j[row].snapshot
  BY <1>1 DEF Moves, Writes
<1>8. Settled(k, f, p, c)
  <2>1. Expects(k, Deciding(k, c), j[row].candidate)
    BY <1>4, <1>6, <1>7 DEF Expects
  <2> QED
    BY <1>1, <2>1 DEF Settled, Runs
<1>9. CommittedOK(k)
  <2> SUFFICES ASSUME NEW r \in DOMAIN k, k[r].state = "COMMITTED"
               PROVE  Stands(k, {x \in Deciding(k, k[r].component) : x < r}, k[r].snapshot)
    BY DEF CommittedOK
  <2>1. CASE r = row
    <3>1. below = Deciding(j, c)
      BY <1>4, <1>5, <1>6
    <3>2. Deciding(j, c) \subseteq DOMAIN j \ {row}
      BY <1>4, <1>5
    <3>3. Stands(k, Deciding(j, c), j[row].snapshot)
      BY <1>1, <1>3, <3>2, OtherRowsStand
    <3> QED
      BY <1>7, <2>1, <3>1, <3>3
  <2>2. CASE r # row
    <3>1. r \in DOMAIN j \ {row} /\ j[r].state = "COMMITTED" /\ r < row
      BY <1>1, <1>3, <2>2 DEF Moves, Writes
    <3> QED
      BY <1>1, <3>1, CommitsBelowStand DEF RecordOK
  <2> QED
    BY <2>1, <2>2
<1> QED
  BY <1>1, <1>8, <1>9, EndedMove

\* An operation whose outcome is open suspends the promise of its component only.
LEMMA StrayingKeepsRecord ==
    ASSUME NEW j \in Seq(Entries), NEW k \in Seq(Entries), NEW f, NEW p, NEW rs, NEW row,
           Strays(j, k, row), RecordOK(j, f, p, rs)
    PROVE  RecordOK(k, f, p, rs)
<1> DEFINE c == j[row].component
<1>1. /\ DOMAIN k = DOMAIN j /\ Len(k) = Len(j) /\ DOMAIN j \subseteq Nat
      /\ row \in UnfinishedRows(j) /\ row \in DOMAIN j
      /\ k[row].component = c /\ k[row].candidate = j[row].candidate
      /\ \A r \in DOMAIN j \ {row} : k[r] = j[r]
      /\ k[row].state \in {"APPLYING", "VERIFYING", "ROLLING_BACK", "ROLLED_BACK", "FAILED"}
      /\ k[row].detail = "rollback_failed" => k[row].state = "FAILED"
  BY DEF Strays, UnfinishedRows
<1>2. /\ Stands(j, Deciding(j, c), j[row].snapshot)
      /\ \A other \in DOMAIN j : j[other].state = "COMMITTED" => other < row
      /\ \A other \in UnfinishedRows(j) : other = row
      /\ k[row].state \in ForwardStates => row = Len(k)
  <2>1. k[row].state \in ForwardStates => j[row].state \in ForwardStates
    BY DEF Strays, ForwardStates
  <2> QED
    BY <1>1, <2>1 DEF RecordOK, UnfinishedOK, AtMostOne
<1>3. /\ \A d : \A r \in DOMAIN j \ {row} : r \in Deciding(k, d) <=> r \in Deciding(j, d)
      /\ \A d : Deciding(k, d) \subseteq DOMAIN j /\ Deciding(j, d) \subseteq DOMAIN j
      /\ \A d : d # c => row \notin Deciding(k, d) /\ row \notin Deciding(j, d)
      /\ row \in Deciding(k, c)
  BY <1>1 DEF Strays, Deciding
<1>4. UnfinishedRows(k) \subseteq {row}
  BY <1>1, <1>2 DEF UnfinishedRows
<1> HIDE DEF c
<1>5. ASSUME NEW rows, rows \subseteq DOMAIN j \ {row}
      PROVE  /\ Lost(k, rows) <=> Lost(j, rows)
             /\ \A content : Expects(k, rows, content) <=> Expects(j, rows, content)
             /\ \A content : Stands(k, rows, content) <=> Stands(j, rows, content)
  <2>1. Lost(k, rows) <=> Lost(j, rows)
    BY <1>1, <1>5 DEF Lost
  <2>2. \A content : Expects(k, rows, content) <=> Expects(j, rows, content)
    BY <1>1, <1>5 DEF Expects
  <2> QED
    BY <2>1, <2>2 DEF Stands
<1>6. Lost(k, Deciding(k, c))
  <2>1. CASE \A r \in Deciding(j, c) : r <= row
    <3>1. \A r \in Deciding(k, c) : r <= row
      BY <1>1, <1>3, <2>1
    <3> QED
      BY <1>1, <1>3, <3>1 DEF Lost
  <2>2. CASE \E r \in Deciding(j, c) : ~(r <= row)
    <3>1. PICK newest \in Deciding(j, c) : \A other \in Deciding(j, c) : other <= newest
      BY <1>2, <2>2 DEF Stands, Lost, Expects
    <3>2. row < newest /\ newest \in DOMAIN j \ {row} /\ newest \in Nat /\ row \in Nat
      BY <1>1, <1>3, <2>2, <3>1
    <3>3. j[newest].state # "COMMITTED"
      BY <1>2, <3>2
    <3>4. newest \in Deciding(k, c) /\ \A other \in Deciding(k, c) : other <= newest
      BY <1>3, <3>1, <3>2
    <3> QED
      BY <1>1, <3>2, <3>3, <3>4 DEF Lost
  <2> QED
    BY <2>1, <2>2
<1>7. SettledOK(k, f, p)
  <2> SUFFICES ASSUME NEW d \in Components PROVE Settled(k, f, p, d)
    BY DEF SettledOK
  <2>1. CASE d = c
    BY <1>6, <2>1 DEF Settled
  <2>2. CASE d # c
    <3>1. ~Flying(j, d)
      BY <1>2, <2>2 DEF Flying, c
    <3>2. Settled(j, f, p, d)
      BY <3>1 DEF RecordOK, SettledOK
    <3>3. Deciding(k, d) = Deciding(j, d) /\ Deciding(j, d) \subseteq DOMAIN j \ {row}
      <4>1. \A r \in DOMAIN j : r \in Deciding(k, d) <=> r \in Deciding(j, d)
        BY <1>3, <2>2
      <4> QED
        BY <1>3, <2>2, <4>1
    <3>4. /\ Lost(k, Deciding(k, d)) <=> Lost(j, Deciding(j, d))
          /\ Expects(k, Deciding(k, d), f[d]) <=> Expects(j, Deciding(j, d), f[d])
      BY <1>5, <3>3
    <3> QED
      BY <3>2, <3>4 DEF Settled
  <2> QED
    BY <2>1, <2>2
<1>8. UnfinishedOK(k, f, p)
  <2>1. Stands(k, Deciding(k, c), k[row].snapshot)
    BY <1>6 DEF Stands
  <2>2. \A other \in DOMAIN k : k[other].state = "COMMITTED" => other < row
    BY <1>1, <1>2
  <2>3. k[row].state \notin {"PREPARED", "VALIDATED"}
    BY <1>1
  <2> QED
    BY <1>1, <1>2, <1>4, <2>1, <2>2, <2>3 DEF UnfinishedOK
<1>9. CommittedOK(k)
  <2> SUFFICES ASSUME NEW r \in DOMAIN k, k[r].state = "COMMITTED"
               PROVE  Stands(k, {x \in Deciding(k, k[r].component) : x < r}, k[r].snapshot)
    BY DEF CommittedOK
  <2> DEFINE rows == {x \in Deciding(j, j[r].component) : x < r}
  <2>1. r \in DOMAIN j \ {row} /\ k[r] = j[r] /\ r < row /\ r \in Nat /\ row \in Nat
    BY <1>1, <1>2
  <2>2. rows \subseteq DOMAIN j \ {row}
    BY <1>3, <2>1
  <2>3. {x \in Deciding(k, k[r].component) : x < r} = rows
    BY <1>1, <1>3, <2>1
  <2>4. Stands(j, rows, j[r].snapshot)
    BY <2>1 DEF RecordOK, CommittedOK
  <2> HIDE DEF rows
  <2> QED
    BY <1>5, <2>1, <2>2, <2>3, <2>4
<1>10. DetailOK(k) /\ RowsAreReviewed(k, rs) /\ AtMostOne(k)
  <2>1. DetailOK(k)
    BY <1>1 DEF RecordOK, DetailOK
  <2>2. RowsAreReviewed(k, rs)
    BY <1>1 DEF RecordOK, RowsAreReviewed, c
  <2> QED
    BY <1>4, <2>1, <2>2 DEF AtMostOne
<1> QED
  BY <1>7, <1>8, <1>9, <1>10 DEF RecordOK

\* The rollback of the newest commit restores what was in force before it, or
\* what a later restore that gave up has left open.
LEMMA ReopeningKeepsRecord ==
    ASSUME NEW j \in Seq(Entries), NEW k \in Seq(Entries), NEW f, NEW p, NEW rs, NEW row,
           Reopens(j, k, f, row), RecordOK(j, f, p, rs)
    PROVE  RecordOK(k, f, p, rs)
<1> DEFINE c == j[row].component
           others == Deciding(k, c)
<1>1. /\ Moves(j, k, row, "ROLLING_BACK", "operator_requested") /\ j[row].state = "COMMITTED"
      /\ "ROLLING_BACK" \notin FinishedStates /\ UnfinishedRows(j) = {}
      /\ \A other \in DOMAIN j : j[other].state = "COMMITTED" => other <= row
  BY DEF Reopens, IsLatestCommitted, FinishedStates
<1>2. /\ \A r \in DOMAIN j \ {row} : r \in others <=> r \in Deciding(j, c)
      /\ row \notin others /\ others \subseteq DOMAIN j /\ Deciding(j, c) \subseteq DOMAIN j
      /\ DOMAIN j \subseteq Nat /\ row \in DOMAIN j
      /\ \A r \in DOMAIN j : j[r].component \in Components
  BY <1>1, MovedDecisions
<1>3. row \in Deciding(j, c)
  BY <1>1, <1>2 DEF Deciding
<1>4. UnfinishedRows(k) = {row}
  BY <1>1, MovedDecisions
<1>5. /\ \A r \in DOMAIN j \ {row} : k[r] = j[r]
      /\ k[row].component = c /\ k[row].snapshot = j[row].snapshot
      /\ k[row].state = "ROLLING_BACK" /\ DOMAIN k = DOMAIN j
  BY <1>1 DEF Moves, Writes
<1> HIDE DEF others
<1>6. Stands(k, others, j[row].snapshot)
  <2>1. others \subseteq DOMAIN j \ {row}
    BY <1>2
  <2>2. c \in Components /\ ~Flying(j, c)
    BY <1>1, <1>2 DEF Flying
  <2>3. PICK newest \in Deciding(j, c) : \A other \in Deciding(j, c) : other <= newest
    <3>1. Settled(j, f, p, c)
      BY <2>2 DEF RecordOK, SettledOK
    <3> QED
      BY <3>1, <1>3 DEF Settled, Lost, Expects
  <2>4. CASE newest # row
    <3>1. newest \in others /\ j[newest].state # "COMMITTED" /\ k[newest] = j[newest]
      BY <1>1, <1>2, <1>3, <1>5, <2>3, <2>4
    <3>2. \A other \in others : other <= newest
      BY <1>2, <2>1, <2>3
    <3> QED
      BY <3>1, <3>2 DEF Stands, Lost
  <2>5. CASE newest = row
    <3>1. others = {r \in Deciding(j, c) : r < row}
      BY <1>2, <2>1, <2>3, <2>5
    <3>2. Stands(j, others, j[row].snapshot)
      BY <1>1, <1>2, <3>1 DEF RecordOK, CommittedOK
    <3> QED
      BY <1>1, <2>1, <3>2, OtherRowsStand
  <2> QED
    BY <2>4, <2>5
<1>7. UnfinishedOK(k, f, p)
  <2>1. \A other \in DOMAIN k : k[other].state = "COMMITTED" => other < row
    BY <1>1, <1>2, <1>5
  <2>2. k[row].state \notin {"PREPARED", "VALIDATED"} /\ k[row].state \notin ForwardStates
    BY <1>5 DEF ForwardStates
  <2>3. Stands(k, Deciding(k, k[row].component), k[row].snapshot)
    BY <1>5, <1>6 DEF others
  <2> QED
    BY <1>4, <2>1, <2>2, <2>3 DEF UnfinishedOK
<1>8. SettledOK(k, f, p)
  <2> SUFFICES ASSUME NEW d \in Components PROVE Flying(k, d) \/ Settled(k, f, p, d)
    BY DEF SettledOK
  <2>1. CASE d = c
    BY <1>4, <1>5, <2>1 DEF Flying
  <2>2. CASE d # c
    BY <1>1, <2>2, OthersAreSettled
  <2> QED
    BY <2>1, <2>2
<1>9. CommittedOK(k)
  <2> SUFFICES ASSUME NEW r \in DOMAIN k, k[r].state = "COMMITTED"
               PROVE  Stands(k, {x \in Deciding(k, k[r].component) : x < r}, k[r].snapshot)
    BY DEF CommittedOK
  <2>1. r \in DOMAIN j \ {row} /\ j[r].state = "COMMITTED" /\ r < row
    BY <1>1, <1>2, <1>5
  <2> QED
    BY <1>1, <2>1, CommitsBelowStand DEF RecordOK
<1>10. DetailOK(k) /\ RowsAreReviewed(k, rs) /\ AtMostOne(k)
  BY <1>1, MovedDetails
<1> QED
  BY <1>7, <1>8, <1>9, <1>10 DEF RecordOK

\* What a creation adds to the journal.
LEMMA BegunJournal ==
    ASSUME NEW j \in Seq(Entries), NEW k, NEW f, NEW r \in Requests, Begins(j, k, f, r)
    PROVE  /\ Len(k) = Len(j) + 1 /\ Len(j) \in Nat
           /\ DOMAIN j = 1..Len(j) /\ DOMAIN k = 1..(Len(j) + 1)
           /\ \A i \in DOMAIN j : k[i] = j[i]
           /\ k[Len(k)].component = r.component /\ k[Len(k)].state = "PREPARED"
           /\ k[Len(k)].snapshot = f[r.component] /\ k[Len(k)].candidate = r.candidate
           /\ k[Len(k)].detail = "none" /\ k[Len(k)].damage = "none"
           /\ UnfinishedRows(k) = {Len(k)}
           /\ \A c : Deciding(k, c) = Deciding(j, c)
           /\ r.component \in Components
<1> DEFINE e == [id |-> r.id, component |-> r.component, state |-> "PREPARED",
                 snapshot |-> f[r.component], candidate |-> r.candidate,
                 detail |-> "none", damage |-> "none"]
<1>1. k = Append(j, e)
  BY DEF Begins, Created
<1>2. /\ e.component = r.component /\ e.state = "PREPARED" /\ e.snapshot = f[r.component]
      /\ e.candidate = r.candidate /\ e.detail = "none" /\ e.damage = "none"
  OBVIOUS
<1> HIDE DEF e
<1>3. /\ Len(k) = Len(j) + 1 /\ Len(j) \in Nat
      /\ DOMAIN j = 1..Len(j) /\ DOMAIN k = 1..(Len(j) + 1)
      /\ \A i \in DOMAIN j : k[i] = j[i]
      /\ k[Len(k)] = e
  BY <1>1
<1>4. UnfinishedRows(j) = {} /\ "PREPARED" \notin FinishedStates
  BY DEF Begins, FinishedStates
<1>5. UnfinishedRows(k) = {Len(k)}
  BY <1>2, <1>3, <1>4 DEF UnfinishedRows
<1>6. ASSUME NEW c PROVE Deciding(k, c) = Deciding(j, c)
  BY <1>2, <1>3 DEF Deciding
<1>7. r.component \in Components
  BY DEF Requests
<1> QED
  BY <1>2, <1>3, <1>5, <1>6, <1>7

\* A new operation snapshots what is in force.
LEMMA BeginningKeepsRecord ==
    ASSUME NEW j \in Seq(Entries), NEW k \in Seq(Entries), NEW f, NEW p, NEW rs,
           NEW r \in rs, r \in Requests, Begins(j, k, f, r), RecordOK(j, f, p, rs)
    PROVE  RecordOK(k, f, p, rs)
<1> DEFINE n == Len(k)
           c == r.component
<1>1. /\ n = Len(j) + 1 /\ Len(j) \in Nat /\ DOMAIN j = 1..Len(j) /\ DOMAIN k = 1..(Len(j) + 1)
      /\ \A i \in DOMAIN j : k[i] = j[i]
      /\ k[n].component = c /\ k[n].state = "PREPARED" /\ k[n].snapshot = f[c]
      /\ k[n].candidate = r.candidate /\ k[n].detail = "none" /\ k[n].damage = "none"
      /\ UnfinishedRows(k) = {n} /\ \A d : Deciding(k, d) = Deciding(j, d)
      /\ c \in Components
  BY BegunJournal
<1> HIDE DEF n, c
<1>2. ASSUME NEW rows \in SUBSET DOMAIN j
      PROVE  /\ Lost(k, rows) <=> Lost(j, rows)
             /\ \A content : Expects(k, rows, content) <=> Expects(j, rows, content)
             /\ \A content : Stands(k, rows, content) <=> Stands(j, rows, content)
  <2>1. Lost(k, rows) <=> Lost(j, rows)
    BY <1>1 DEF Lost
  <2>2. \A content : Expects(k, rows, content) <=> Expects(j, rows, content)
    BY <1>1 DEF Expects
  <2> QED
    BY <2>1, <2>2 DEF Stands
<1>3. \A d : Deciding(j, d) \in SUBSET DOMAIN j
  BY DEF Deciding
<1>4. \A d \in Components : Settled(j, f, p, d)
  BY DEF RecordOK, SettledOK, Flying, Begins
<1>5. \A d \in Components : Settled(k, f, p, d)
  BY <1>1, <1>2, <1>3, <1>4 DEF Settled
<1>6. UnfinishedOK(k, f, p)
  <2>1. Stands(k, Deciding(k, c), f[c])
    BY <1>1, <1>5 DEF Settled, Stands
  <2>2. \A other \in DOMAIN k : k[other].state = "COMMITTED" => other < n
    BY <1>1
  <2> QED
    BY <1>1, <1>5, <2>1, <2>2 DEF UnfinishedOK, n
<1>7. CommittedOK(k)
  <2> SUFFICES ASSUME NEW i \in DOMAIN k, k[i].state = "COMMITTED"
               PROVE  Stands(k, {x \in Deciding(k, k[i].component) : x < i}, k[i].snapshot)
    BY DEF CommittedOK
  <2> DEFINE rows == {x \in Deciding(j, j[i].component) : x < i}
  <2>1. i \in DOMAIN j /\ k[i] = j[i]
    BY <1>1
  <2>2. rows \in SUBSET DOMAIN j /\ Stands(j, rows, j[i].snapshot)
    BY <1>3, <2>1 DEF RecordOK, CommittedOK
  <2>3. rows = {x \in Deciding(k, k[i].component) : x < i}
    BY <1>1, <2>1
  <2> HIDE DEF rows
  <2> QED
    BY <1>2, <2>1, <2>2, <2>3
<1>8. DetailOK(k) /\ RowsAreReviewed(k, rs)
  <2>1. DetailOK(k)
    BY <1>1 DEF RecordOK, DetailOK
  <2>2. RowsAreReviewed(k, rs)
    BY <1>1 DEF RecordOK, RowsAreReviewed, c
  <2> QED
    BY <2>1, <2>2
<1>9. SettledOK(k, f, p) /\ AtMostOne(k)
  BY <1>1, <1>5 DEF SettledOK, AtMostOne
<1> QED
  BY <1>6, <1>7, <1>8, <1>9 DEF RecordOK

\* Every effect keeps the record.
LEMMA EffectKeepsRecord ==
    ASSUME TypeOK, TypeOK', RecordOK(journal, file, proc, requests), Effect,
           requests \subseteq requests'
    PROVE  RecordOK(journal, file, proc, requests)'
<1>1. journal \in Seq(Entries) /\ journal' \in Seq(Entries) /\ requests \subseteq Requests
  BY DEF TypeOK
<1>2. CASE SameRecord(journal, journal') /\ ServicesMove(file, proc, proc') /\ file' = file
  BY <1>1, <1>2, ServicesKeepRecord
<1>3. RecordOK(journal', file', proc', requests) => RecordOK(journal, file, proc, requests)'
  BY DEF RecordOK, RowsAreReviewed
<1>4. CASE journal' = journal /\ \E row \in DOMAIN journal : Works(journal, file, proc, file', proc', row)
  BY <1>1, <1>3, <1>4, WorkKeepsRecord
<1>5. CASE JournalMoves(journal, journal', file, proc, requests) /\ UNCHANGED <<file, proc>>
  <2>1. RecordOK(journal', file, proc, requests)
    BY <1>1, <1>5, AdvanceKeepsRecord, UnappliedKeepsRecord, RevertKeepsRecord,
       CommitKeepsRecord, StrayingKeepsRecord, ReopeningKeepsRecord, BeginningKeepsRecord
       DEF JournalMoves
  <2> QED
    BY <1>3, <1>5, <2>1
<1> QED
  BY <1>2, <1>4, <1>5 DEF Effect

-------------------------------------------------------------------------------
(* What the steps of a task do, and what it may rely on afterwards.        *)

\* The task goes on as t, or ends and frees the lock.
LEMMA TaskGoesOn ==
    ASSUME IInv, NEW a \in Actors, lock = a,
           \/ Release(a)
           \/ /\ lock' = lock
              /\ \E t \in Tasks : /\ task' = [task EXCEPT ![a] = t]
                                  /\ ProgressOK(t, journal', file', proc')
    PROVE  HolderProgressOK'
<1>1. CASE Release(a)
  BY <1>1, ConstantsAssumption DEF Release, HolderProgressOK
<1>2. CASE lock' = lock /\ \E t \in Tasks : /\ task' = [task EXCEPT ![a] = t]
                                           /\ ProgressOK(t, journal', file', proc')
  <2>1. PICK t \in Tasks : task' = [task EXCEPT ![a] = t] /\ ProgressOK(t, journal', file', proc')
    BY <1>2
  <2>2. task \in [Actors -> Tasks]
    BY DEF IInv, TypeOK
  <2>3. task'[a] = t
    BY <2>1, <2>2
  <2> QED
    BY <1>2, <2>1, <2>3 DEF HolderProgressOK
<1> QED
  BY <1>1, <1>2

\* Steps at which a task relies on nothing.
FreeSteps ==
    {"idle", "gate", "begin", "validate", "mark_validated", "mark_applying", "install",
     "restore_file", "component", "next_operation", "journal_check"}

\* The steps of which ProgressOK says nothing.
LEMMA FreeStepIsOK ==
    ASSUME NEW t, t.step \in FreeSteps, NEW j, NEW f, NEW p PROVE ProgressOK(t, j, f, p)
  BY DEF FreeSteps, ProgressOK

\* A task that goes on at another step of the same entry.
LEMMA GotoProgress ==
    ASSUME IInv, NEW a \in Actors, lock = a, NEW step \in Steps, Goto(a, step),
           \A t : t.step = step /\ t.row = task[a].row => ProgressOK(t, journal', file', proc')
    PROVE  HolderProgressOK'
<1> DEFINE t == [task[a] EXCEPT !.step = step]
<1>1. lock' = lock /\ task' = [task EXCEPT ![a] = t] /\ t \in Tasks
  BY GotoMoves
<1>2. t.step = step /\ t.row = task[a].row
  <2>1. task[a] \in Tasks
    BY DEF IInv, TypeOK
  <2> QED
    BY <2>1 DEF Tasks
<1> HIDE DEF t
<1> QED
  BY <1>1, <1>2, TaskGoesOn

\* An error that continues with a rollback, with FAILED, or returns.
LEMMA FailureProgress ==
    ASSUME IInv, NEW a \in Actors, lock = a, NEW step \in {"roll_back", "mark_failed", "fail"},
           NEW from \in TransactionStates, ProceedFrom(a, step, from),
           step = "roll_back" => from \in {"APPLYING", "VERIFYING"},
           step = "mark_failed" => from \in {"PREPARED", "VALIDATED", "ROLLING_BACK"}
    PROVE  HolderProgressOK'
<1>1. CASE step = "fail"
  <2>1. Return(a, FALSE)
    BY <1>1 DEF ProceedFrom
  <2>2. \/ Release(a)
        \/ /\ lock' = lock
           /\ \E t \in Tasks : task' = [task EXCEPT ![a] = t] /\ t.step = "next_operation"
    BY <2>1, ReturnMoves
  <2>3. "next_operation" \in FreeSteps
    BY DEF FreeSteps
  <2> QED
    BY <2>2, <2>3, FreeStepIsOK, TaskGoesOn
<1>2. CASE step # "fail"
  <2>1. step \in Steps
    BY <1>2 DEF Steps
  <2>2. lock' = lock
    BY <1>2, <2>1, ProceedFromMoves
  <2>3. PICK t \in Tasks : task' = [task EXCEPT ![a] = t] /\ t.step = step /\ t.from = from
    BY <1>2, <2>1, ProceedFromMoves
  <2>4. ProgressOK(t, journal', file', proc')
    BY <1>2, <2>3 DEF ProgressOK
  <2> QED
    BY <2>2, <2>3, <2>4, TaskGoesOn
<1> QED
  BY <1>1, <1>2

\* A return relies on nothing.
LEMMA ReturnProgress ==
    ASSUME IInv, NEW a \in Actors, lock = a, NEW ok \in BOOLEAN, Return(a, ok)
    PROVE  HolderProgressOK'
<1>1. \/ Release(a)
      \/ /\ lock' = lock
         /\ \E t \in Tasks : task' = [task EXCEPT ![a] = t] /\ t.step = "next_operation"
  BY ReturnMoves
<1>2. "next_operation" \in FreeSteps
  BY DEF FreeSteps
<1> QED
  BY <1>1, <1>2, FreeStepIsOK, TaskGoesOn

\* TransitionOperation writes its one entry or nothing.
LEMMA TransitionMoves ==
    ASSUME NEW j \in Seq(Entries), NEW row \in DOMAIN j, NEW from, NEW to, NEW detail,
           NEW k \in {j, Transitioned(j, row, from, to, detail)}
    PROVE  k = j \/ (Writes(j, k, row, to, detail) /\ j[row].state = from)
<1>1. CASE k # j
  <2> DEFINE e == [j[row] EXCEPT !.state = to, !.detail = detail]
  <2>1. j[row].state = from /\ k = [j EXCEPT ![row] = e]
    BY <1>1 DEF Transitioned, TransitionApplies
  <2>2. j[row] \in Entries
    OBVIOUS
  <2>3. /\ e.component = j[row].component /\ e.snapshot = j[row].snapshot
        /\ e.candidate = j[row].candidate /\ e.state = to /\ e.detail = detail
        /\ e.damage = j[row].damage
    BY <2>2 DEF Entries
  <2> HIDE DEF e
  <2>4. DOMAIN k = DOMAIN j /\ \A r \in DOMAIN j : k[r] = IF r = row THEN e ELSE j[r]
    BY <2>1
  <2> QED
    BY <2>1, <2>3, <2>4 DEF Writes
<1> QED
  BY <1>1

\* A transition and the steps it may lead to.
LEMMA TransitionProgress ==
    ASSUME IInv, NEW a \in Actors, lock = a, task[a].step \in RowSteps,
           NEW from \in TransactionStates, NEW to, NEW detail,
           NEW onSuccess \in {"succeed", "fail"} \cup Steps, onSuccess \notin {"roll_back"},
           NEW onError \in {"fail", "roll_back", "mark_failed"},
           Transition(a, from, to, detail, onSuccess, onError),
           onError = "roll_back" => from \in {"APPLYING", "VERIFYING"},
           onError = "mark_failed" => from \in {"PREPARED", "VALIDATED", "ROLLING_BACK"},
           onSuccess \in FreeSteps \cup {"succeed", "fail"} \/
               \A k, t : Writes(journal, k, task[a].row, to, detail) /\ t.step = onSuccess
                             /\ t.row = task[a].row => ProgressOK(t, k, file', proc')
    PROVE  /\ HolderProgressOK'
           /\ \/ journal' = journal
              \/ /\ Writes(journal, journal', task[a].row, to, detail)
                 /\ journal[task[a].row].state = from
<1>1. journal \in Seq(Entries) /\ task[a].row \in DOMAIN journal
  BY EntryIsTyped DEF IInv, TypeOK
<1>2. /\ journal' \in {journal, Transitioned(journal, task[a].row, from, to, detail)}
      /\ \/ /\ TransitionApplies(journal, task[a].row, from, to)
            /\ journal' = Transitioned(journal, task[a].row, from, to, detail)
            /\ Proceed(a, onSuccess)
         \/ ProceedFrom(a, onError, from)
  BY TransitionWrites
<1>3. \/ journal' = journal
      \/ Writes(journal, journal', task[a].row, to, detail) /\ journal[task[a].row].state = from
  BY <1>1, <1>2, TransitionMoves
<1>4. CASE ProceedFrom(a, onError, from)
  BY <1>4, <1>3, FailureProgress
<1>5. CASE /\ TransitionApplies(journal, task[a].row, from, to)
           /\ journal' = Transitioned(journal, task[a].row, from, to, detail)
           /\ Proceed(a, onSuccess)
  <2>1. CASE onSuccess \in {"succeed", "fail"}
    BY <1>3, <1>5, <2>1, ReturnProgress DEF Proceed
  <2>2. CASE onSuccess \notin {"succeed", "fail"}
    <3>1. Goto(a, onSuccess) /\ onSuccess \in Steps
      BY <1>5, <2>2 DEF Proceed
    <3>2. CASE onSuccess \in FreeSteps
      BY <1>3, <3>1, <3>2, FreeStepIsOK, GotoProgress
    <3>3. CASE onSuccess \notin FreeSteps
      <4>1. Writes(journal, journal', task[a].row, to, detail)
        <5> DEFINE e == [journal[task[a].row] EXCEPT !.state = to, !.detail = detail]
        <5>1. journal' = [journal EXCEPT ![task[a].row] = e]
          BY <1>5 DEF Transitioned
        <5>2. journal[task[a].row] \in Entries
          BY <1>1
        <5>3. /\ e.component = journal[task[a].row].component
              /\ e.snapshot = journal[task[a].row].snapshot
              /\ e.candidate = journal[task[a].row].candidate /\ e.state = to /\ e.detail = detail
              /\ e.damage = journal[task[a].row].damage
          BY <5>2 DEF Entries
        <5> HIDE DEF e
        <5>4. /\ DOMAIN journal' = DOMAIN journal
              /\ \A r \in DOMAIN journal : journal'[r] = IF r = task[a].row THEN e ELSE journal[r]
          BY <1>1, <5>1
        <5> QED
          BY <1>1, <5>3, <5>4 DEF Writes
      <4>2. \A t : t.step = onSuccess /\ t.row = task[a].row => ProgressOK(t, journal', file', proc')
        BY <2>2, <3>3, <4>1
      <4> QED
        BY <1>3, <3>1, <4>2, GotoProgress
    <3> QED
      BY <3>2, <3>3
  <2> QED
    BY <2>1, <2>2
<1> QED
  BY <1>2, <1>4, <1>5

-------------------------------------------------------------------------------
(* The actions, in the order of the module.                                *)

\* A step that leaves journal and host alone.
LEMMA QuietEffect ==
    ASSUME UNCHANGED <<journal, file, proc>> PROVE Effect
  BY DEF Effect, SameRecord, ServicesMove

\* The holder of the lock and its entry.
LEMMA HolderFacts ==
    ASSUME HInv, NEW a \in Actors, task[a].step # "idle"
    PROVE  /\ IInv /\ lock = a /\ TaskOK(task[a], journal, requests) /\ task[a] \in Tasks
           /\ ProgressOK(task[a], journal, file, proc) /\ journal \in Seq(Entries)
           /\ file \in [Components -> Files] /\ proc \in [Components -> Processes]
           /\ phase # "down"
  BY WorkerHoldsLock DEF HInv, HolderProgressOK, IInv, TypeOK

\* The entry of a step that works on one.
LEMMA RowFacts ==
    ASSUME HInv, NEW a \in Actors, task[a].step \in RowSteps
    PROVE  /\ task[a].row \in DOMAIN journal
           /\ StateAtStep(task[a].step, journal[task[a].row].state)
           /\ Component(a) = journal[task[a].row].component /\ Component(a) \in Components
           /\ Entry(a) = journal[task[a].row] /\ task[a].from \in TransactionStates
           /\ DamageAtStep(task[a].step, journal[task[a].row])
<1>1. /\ task[a].row \in DOMAIN journal
      /\ StateAtStep(task[a].step, journal[task[a].row].state)
      /\ Component(a) = journal[task[a].row].component /\ Component(a) \in Components
      /\ Entry(a) = journal[task[a].row] /\ task[a].from \in TransactionStates
  BY EntryIsTyped DEF HInv, Entry, Component
<1>2. task[a].step # "idle"
  BY DEF RowSteps
<1>3. DamageAtStep(task[a].step, journal[task[a].row])
  BY <1>2, HolderFacts DEF TaskOK
<1> QED
  BY <1>1, <1>3

\* Only a step that resolves an operation writes an entry with a damaged document.
LEMMA ForwardWrite ==
    ASSUME HInv, NEW a \in Actors, task[a].step \in RowSteps, task[a].step \notin ResolvingSteps,
           NEW k, NEW to, NEW detail, Writes(journal, k, task[a].row, to, detail)
    PROVE  Moves(journal, k, task[a].row, to, detail)
<1>1. journal[task[a].row].damage # "legacy"
  BY RowFacts DEF DamageAtStep
<1> QED
  BY <1>1 DEF Moves

\* Whatever resolves an operation with a snapshot of the legacy format leaves its
\* outcome open.
LEMMA LegacyWrite ==
    ASSUME NEW j \in Seq(Entries), NEW k, NEW row, NEW to, NEW detail,
           Writes(j, k, row, to, detail), DetailOK(j), j[row].damage = "legacy",
           j[row].state \notin FinishedStates, to \in {"ROLLING_BACK", "ROLLED_BACK", "FAILED"},
           detail = "rollback_failed" => to = "FAILED"
    PROVE  Strays(j, k, row)
<1>1. row \in UnfinishedRows(j)
  BY DEF Writes, UnfinishedRows
<1>2. j[row].state \in {"APPLYING", "VERIFYING", "ROLLING_BACK"}
  BY DEF Writes, DetailOK, FinishedStates
<1> QED
  BY <1>1, <1>2 DEF Writes, Strays

\* A handler with a reviewed request creates the entry of its operation.
LEMMA BeginApplyEffect ==
    ASSUME HInv, NEW a \in Actors, BeginApply(a) PROVE Effect /\ HolderProgressOK'
<1> DEFINE r == task[a].request
           created == Created(journal, r.id, r.component, file[r.component], r.candidate)
<1>1. /\ task[a].step = "begin" /\ task[a].kind = "apply" /\ UNCHANGED <<file, proc>>
      /\ journal' \in {journal, created}
      /\ \/ Release(a)
         \/ /\ task' = [task EXCEPT ![a].step = "validate", ![a].row = Len(created)]
            /\ UNCHANGED lock
  BY DEF BeginApply, host
<1>2. IInv /\ lock = a /\ r \in requests /\ UnfinishedRows(journal) = {} /\ task[a] \in Tasks
  BY <1>1, HolderFacts DEF TaskOK
<1>3. Effect
  <2>1. CASE journal' = journal
    BY <1>1, <2>1, QuietEffect
  <2>2. CASE journal' = created
    BY <1>1, <1>2, <2>2 DEF Effect, JournalMoves, Begins
  <2> QED
    BY <1>1, <2>1, <2>2
<1>4. HolderProgressOK'
  <2>1. CASE Release(a)
    BY <1>2, <2>1, TaskGoesOn
  <2>2. CASE task' = [task EXCEPT ![a].step = "validate", ![a].row = Len(created)] /\ UNCHANGED lock
    <3>1. task \in [Actors -> Tasks]
      BY <1>2 DEF IInv, TypeOK
    <3>2. task'[a].step = "validate"
      BY <1>2, <2>2, <3>1 DEF Tasks
    <3>3. ProgressOK(task'[a], journal', file', proc')
      BY <3>2 DEF ProgressOK
    <3> QED
      BY <1>2, <2>2, <3>3 DEF HolderProgressOK
  <2> QED
    BY <1>1, <2>1, <2>2
<1> QED
  BY <1>3, <1>4

\* Validation of the candidate touches neither host nor journal.
LEMMA ValidateCandidateEffect ==
    ASSUME HInv, NEW a \in Actors, ValidateCandidate(a) PROVE Effect /\ HolderProgressOK'
<1>1. task[a].step = "validate" /\ UNCHANGED <<journal, file, proc>>
  BY DEF ValidateCandidate, host
<1>2. IInv /\ lock = a
  BY <1>1, HolderFacts
<1>3. CASE Goto(a, "mark_validated")
  <2>1. "mark_validated" \in FreeSteps /\ "mark_validated" \in Steps
    BY DEF FreeSteps, Steps
  <2> QED
    BY <1>1, <1>2, <1>3, <2>1, GotoProgress, FreeStepIsOK, QuietEffect
<1>4. CASE ProceedFrom(a, "mark_failed", "PREPARED")
  BY <1>1, <1>2, <1>4, FailureProgress, QuietEffect DEF TransactionStates
<1> QED
  BY <1>3, <1>4 DEF ValidateCandidate

\* The entry becomes VALIDATED, or the operation fails before it is applied.
LEMMA MarkValidatedEffect ==
    ASSUME HInv, NEW a \in Actors, MarkValidated(a) PROVE Effect /\ HolderProgressOK'
<1>1. /\ task[a].step = "mark_validated" /\ UNCHANGED <<file, proc>> /\ task[a].step \in RowSteps
      /\ Transition(a, "PREPARED", "VALIDATED", "none", "mark_applying", "fail")
  BY DEF MarkValidated, host, RowSteps
<1>2. IInv /\ lock = a
  BY <1>1, HolderFacts
<1>3. "mark_applying" \in FreeSteps /\ "mark_applying" \in Steps
  BY DEF FreeSteps, Steps
<1>4. /\ HolderProgressOK'
      /\ \/ journal' = journal
         \/ /\ Writes(journal, journal', task[a].row, "VALIDATED", "none")
            /\ journal[task[a].row].state = "PREPARED"
  BY <1>1, <1>2, <1>3, TransitionProgress DEF TransactionStates
<1>5. CASE journal' = journal
  BY <1>1, <1>4, <1>5, QuietEffect
<1>6. CASE Writes(journal, journal', task[a].row, "VALIDATED", "none")
           /\ journal[task[a].row].state = "PREPARED"
  <2>1. Moves(journal, journal', task[a].row, "VALIDATED", "none")
    BY <1>1, <1>6, ForwardWrite DEF ResolvingSteps
  <2>2. Advances(journal, journal', task[a].row)
    BY <1>6, <2>1 DEF Advances, TransactionStates
  <2> QED
    BY <1>1, <1>4, <2>2, RowFacts DEF Effect, JournalMoves
<1> QED
  BY <1>4, <1>5, <1>6

\* The entry becomes APPLYING.
LEMMA MarkApplyingEffect ==
    ASSUME HInv, NEW a \in Actors, MarkApplying(a) PROVE Effect /\ HolderProgressOK'
<1>1. /\ task[a].step = "mark_applying" /\ UNCHANGED <<file, proc>> /\ task[a].step \in RowSteps
      /\ \/ Transition(a, "VALIDATED", "APPLYING", "none", "install", "mark_failed")
         \/ ProceedFrom(a, "mark_failed", "VALIDATED") /\ UNCHANGED journal
  BY DEF MarkApplying, host, RowSteps
<1>2. IInv /\ lock = a
  BY <1>1, HolderFacts
<1>3. CASE ProceedFrom(a, "mark_failed", "VALIDATED") /\ UNCHANGED journal
  BY <1>1, <1>2, <1>3, FailureProgress, QuietEffect DEF TransactionStates
<1>4. CASE Transition(a, "VALIDATED", "APPLYING", "none", "install", "mark_failed")
  <2>1. "install" \in FreeSteps /\ "install" \in Steps
    BY DEF FreeSteps, Steps
  <2>2. /\ HolderProgressOK'
        /\ \/ journal' = journal
           \/ /\ Writes(journal, journal', task[a].row, "APPLYING", "none")
              /\ journal[task[a].row].state = "VALIDATED"
    BY <1>1, <1>2, <1>4, <2>1, TransitionProgress DEF TransactionStates
  <2>3. CASE journal' = journal
    BY <1>1, <2>2, <2>3, QuietEffect
  <2>4. CASE Writes(journal, journal', task[a].row, "APPLYING", "none")
             /\ journal[task[a].row].state = "VALIDATED"
    <3>1. Moves(journal, journal', task[a].row, "APPLYING", "none")
      BY <1>1, <2>4, ForwardWrite DEF ResolvingSteps
    <3>2. Advances(journal, journal', task[a].row)
      BY <2>4, <3>1 DEF Advances, TransactionStates
    <3> QED
      BY <1>1, <2>2, <3>2, RowFacts DEF Effect, JournalMoves
  <2> QED
    BY <2>2, <2>3, <2>4
<1> QED
  BY <1>1, <1>3, <1>4

\* A step of an operation in state APPLYING or ROLLING_BACK may change the file
\* and the service of its component.
LEMMA WorkEffect ==
    ASSUME HInv, NEW a \in Actors, task[a].step \in RowSteps,
           journal[task[a].row].state \in {"APPLYING", "ROLLING_BACK"},
           journal' = journal,
           \A c \in Components \ {Component(a)} : file'[c] = file[c] /\ proc'[c] = proc[c]
    PROVE  Effect
<1>1. task[a].row \in DOMAIN journal /\ Component(a) = journal[task[a].row].component
  BY RowFacts
<1>2. task[a].row \in UnfinishedRows(journal)
  BY <1>1 DEF UnfinishedRows, FinishedStates
<1> QED
  BY <1>1, <1>2 DEF Effect, Works

\* The candidate file is installed, or the task turns to its rollback.
LEMMA InstallEffect ==
    ASSUME HInv, NEW a \in Actors, Install(a) PROVE Effect /\ HolderProgressOK'
<1> DEFINE c == Component(a)
           installed == [file EXCEPT ![c] = Entry(a).candidate]
<1>1. /\ task[a].step = "install" /\ task[a].step \in RowSteps /\ UNCHANGED <<journal, proc>>
      /\ \/ file' = installed /\ Goto(a, "activate")
         \/ file' \in {file, installed} /\ ProceedFrom(a, "roll_back", "APPLYING")
  BY DEF Install, RowSteps
<1>2. IInv /\ lock = a /\ file \in [Components -> Files]
  BY <1>1, HolderFacts
<1>3. /\ task[a].row \in DOMAIN journal /\ c \in Components
      /\ c = journal[task[a].row].component /\ Entry(a) = journal[task[a].row]
      /\ journal[task[a].row].state = "APPLYING"
  BY <1>1, RowFacts DEF StateAtStep
<1>4. Effect
  BY <1>1, <1>2, <1>3, WorkEffect
<1>5. CASE file' = installed /\ Goto(a, "activate")
  <2>1. file'[c] = journal[task[a].row].candidate
    BY <1>2, <1>3, <1>5
  <2>2. \A t : t.step = "activate" /\ t.row = task[a].row => ProgressOK(t, journal', file', proc')
    BY <1>1, <1>3, <2>1 DEF ProgressOK
  <2>3. "activate" \in Steps
    BY DEF Steps
  <2> QED
    BY <1>2, <1>4, <1>5, <2>2, <2>3, GotoProgress
<1>6. CASE ProceedFrom(a, "roll_back", "APPLYING")
  BY <1>2, <1>4, <1>6, FailureProgress DEF TransactionStates
<1> QED
  BY <1>1, <1>5, <1>6

\* The service starts on the candidate, or the task turns to its rollback.
LEMMA ActivateEffect ==
    ASSUME HInv, NEW a \in Actors, Activate(a) PROVE Effect /\ HolderProgressOK'
<1> DEFINE c == Component(a)
           content == Entry(a).candidate
<1>1. /\ task[a].step = "activate" /\ task[a].step \in RowSteps /\ UNCHANGED <<journal, file>>
      /\ \/ proc' = [proc EXCEPT ![c] = ServiceAfter(content)] /\ Goto(a, "mark_verifying")
         \/ /\ \E left : proc' = [proc EXCEPT ![c] = left]
            /\ ProceedFrom(a, "roll_back", "APPLYING")
  BY DEF Activate, CommandService, RowSteps
<1>2. IInv /\ lock = a /\ proc \in [Components -> Processes]
      /\ ProgressOK(task[a], journal, file, proc)
  BY <1>1, HolderFacts
<1>3. /\ task[a].row \in DOMAIN journal /\ c \in Components
      /\ c = journal[task[a].row].component /\ content = journal[task[a].row].candidate
      /\ journal[task[a].row].state = "APPLYING"
  BY <1>1, RowFacts DEF StateAtStep
<1>4. Effect
  BY <1>1, <1>2, <1>3, WorkEffect
<1>5. CASE proc' = [proc EXCEPT ![c] = ServiceAfter(content)] /\ Goto(a, "mark_verifying")
  <2>1. Runs(file', proc', c, content)
    BY <1>1, <1>2, <1>3, <1>5 DEF Runs, ProgressOK, ServiceAfter
  <2>2. \A t : t.step = "mark_verifying" /\ t.row = task[a].row => ProgressOK(t, journal', file', proc')
    BY <1>1, <1>3, <2>1 DEF ProgressOK
  <2>3. "mark_verifying" \in Steps
    BY DEF Steps
  <2> QED
    BY <1>2, <1>4, <1>5, <2>2, <2>3, GotoProgress
<1>6. CASE ProceedFrom(a, "roll_back", "APPLYING")
  BY <1>2, <1>4, <1>6, FailureProgress DEF TransactionStates
<1> QED
  BY <1>1, <1>5, <1>6

\* The entry becomes VERIFYING; file and service are the candidate's.
LEMMA MarkVerifyingEffect ==
    ASSUME HInv, NEW a \in Actors, MarkVerifying(a) PROVE Effect /\ HolderProgressOK'
<1>1. /\ task[a].step = "mark_verifying" /\ task[a].step \in RowSteps /\ UNCHANGED <<file, proc>>
      /\ Transition(a, "APPLYING", "VERIFYING", "none", "verify", "roll_back")
  BY DEF MarkVerifying, host, RowSteps
<1>2. IInv /\ lock = a /\ ProgressOK(task[a], journal, file, proc)
  BY <1>1, HolderFacts
<1>3. Runs(file, proc, journal[task[a].row].component, journal[task[a].row].candidate)
  BY <1>1, <1>2 DEF ProgressOK
<1>4. \A k, t : Writes(journal, k, task[a].row, "VERIFYING", "none") /\ t.step = "verify"
                    /\ t.row = task[a].row => ProgressOK(t, k, file', proc')
  BY <1>1, <1>3 DEF ProgressOK, Writes
<1>5. /\ HolderProgressOK'
      /\ \/ journal' = journal
         \/ /\ Writes(journal, journal', task[a].row, "VERIFYING", "none")
            /\ journal[task[a].row].state = "APPLYING"
  <2>1. "verify" \in Steps /\ "APPLYING" \in TransactionStates
    BY DEF Steps, TransactionStates
  <2> QED
    BY <1>1, <1>2, <1>4, <2>1, TransitionProgress
<1>6. CASE journal' = journal
  BY <1>1, <1>5, <1>6, QuietEffect
<1>7. CASE Writes(journal, journal', task[a].row, "VERIFYING", "none")
           /\ journal[task[a].row].state = "APPLYING"
  <2>1. Moves(journal, journal', task[a].row, "VERIFYING", "none")
    BY <1>1, <1>7, ForwardWrite DEF ResolvingSteps
  <2>2. Advances(journal, journal', task[a].row)
    BY <1>7, <2>1 DEF Advances, TransactionStates
  <2> QED
    BY <1>1, <1>5, <2>2, RowFacts DEF Effect, JournalMoves
<1> QED
  BY <1>5, <1>6, <1>7

\* Verification reads what activation left.
LEMMA VerifyEffect ==
    ASSUME HInv, NEW a \in Actors, Verify(a) PROVE Effect /\ HolderProgressOK'
<1>1. /\ task[a].step = "verify" /\ UNCHANGED <<journal, file, proc>>
      /\ Goto(a, "commit") \/ ProceedFrom(a, "roll_back", "VERIFYING")
  BY DEF Verify, host
<1>2. IInv /\ lock = a /\ ProgressOK(task[a], journal, file, proc)
  BY <1>1, HolderFacts
<1>3. CASE Goto(a, "commit")
  <2>1. \A t : t.step = "commit" /\ t.row = task[a].row => ProgressOK(t, journal', file', proc')
    BY <1>1, <1>2 DEF ProgressOK
  <2>2. "commit" \in Steps
    BY DEF Steps
  <2> QED
    BY <1>1, <1>2, <1>3, <2>1, <2>2, GotoProgress, QuietEffect
<1>4. CASE ProceedFrom(a, "roll_back", "VERIFYING")
  BY <1>1, <1>2, <1>4, FailureProgress, QuietEffect DEF TransactionStates
<1> QED
  BY <1>1, <1>3, <1>4

\* The entry becomes COMMITTED, with file and service the candidate's.
LEMMA CommitEffect ==
    ASSUME HInv, NEW a \in Actors, Commit(a) PROVE Effect /\ HolderProgressOK'
<1>1. /\ task[a].step = "commit" /\ task[a].step \in RowSteps /\ UNCHANGED <<file, proc>>
      /\ Transition(a, "VERIFYING", "COMMITTED", "none", "succeed", "roll_back")
  BY DEF Commit, host, RowSteps
<1>2. IInv /\ lock = a /\ ProgressOK(task[a], journal, file, proc)
  BY <1>1, HolderFacts
<1>3. Runs(file, proc, journal[task[a].row].component, journal[task[a].row].candidate)
  BY <1>1, <1>2 DEF ProgressOK
<1>4. /\ HolderProgressOK'
      /\ \/ journal' = journal
         \/ /\ Writes(journal, journal', task[a].row, "COMMITTED", "none")
            /\ journal[task[a].row].state = "VERIFYING"
  BY <1>1, <1>2, TransitionProgress DEF TransactionStates
<1>5. CASE journal' = journal
  BY <1>1, <1>4, <1>5, QuietEffect
<1>6. CASE Writes(journal, journal', task[a].row, "COMMITTED", "none")
           /\ journal[task[a].row].state = "VERIFYING"
  <2>1. Moves(journal, journal', task[a].row, "COMMITTED", "none")
    BY <1>1, <1>6, ForwardWrite DEF ResolvingSteps
  <2> QED
    BY <1>1, <1>3, <1>4, <1>6, <2>1, RowFacts DEF Effect, JournalMoves, Commits
<1> QED
  BY <1>4, <1>5, <1>6

\* The entry becomes FAILED: unapplied, or after a restore that gave up.
LEMMA MarkFailedEffect ==
    ASSUME HInv, NEW a \in Actors, MarkFailed(a) PROVE Effect /\ HolderProgressOK'
<1> DEFINE from == task[a].from
           detail == IF from = "ROLLING_BACK" THEN "rollback_failed" ELSE "not_applied"
<1>1. /\ task[a].step = "mark_failed" /\ task[a].step \in RowSteps /\ UNCHANGED <<file, proc>>
      /\ Transition(a, from, "FAILED", detail, "fail", "fail")
  BY DEF MarkFailed, host, RowSteps
<1>2. IInv /\ lock = a /\ from \in {"PREPARED", "VALIDATED", "ROLLING_BACK"}
  BY <1>1, HolderFacts DEF ProgressOK
<1>3. from \in TransactionStates
  BY <1>2 DEF TransactionStates
<1>4. /\ HolderProgressOK'
      /\ \/ journal' = journal
         \/ Writes(journal, journal', task[a].row, "FAILED", detail) /\ journal[task[a].row].state = from
  <2> HIDE DEF detail, from
  <2> QED
    BY <1>1, <1>2, <1>3, TransitionProgress
<1>5. CASE journal' = journal
  BY <1>1, <1>4, <1>5, QuietEffect
<1>6. CASE Writes(journal, journal', task[a].row, "FAILED", detail) /\ journal[task[a].row].state = from
  <2>1. journal \in Seq(Entries) /\ DetailOK(journal) /\ task[a].row \in DOMAIN journal
    BY <1>1, <1>2, RowFacts DEF HInv, RecordOK, IInv, TypeOK
  <2>2. CASE from = "ROLLING_BACK"
    <3>1. journal[task[a].row].state \notin FinishedStates
      BY <1>6, <2>2 DEF FinishedStates
    <3>2. Strays(journal, journal', task[a].row)
      BY <1>6, <2>1, <2>2, <3>1 DEF Strays, Writes, UnfinishedRows
    <3> QED
      BY <1>1, <1>4, <2>1, <3>2 DEF Effect, JournalMoves
  <2>3. CASE from # "ROLLING_BACK"
    <3>1. EndsUnapplied(journal, journal', task[a].row)
      BY <1>2, <1>6, <2>1, <2>3 DEF EndsUnapplied, Moves, DetailOK
    <3> QED
      BY <1>1, <1>4, <2>1, <3>1 DEF Effect, JournalMoves
  <2> QED
    BY <2>2, <2>3
<1> QED
  BY <1>4, <1>5, <1>6

\* The entry of a failed apply becomes ROLLING_BACK.
LEMMA RollBackEffect ==
    ASSUME HInv, NEW a \in Actors, RollBack(a) PROVE Effect /\ HolderProgressOK'
<1> DEFINE from == task[a].from
<1>1. /\ task[a].step = "roll_back" /\ task[a].step \in RowSteps /\ UNCHANGED <<file, proc>>
      /\ Transition(a, from, "ROLLING_BACK", "interrupted", "restore_file", "fail")
  BY DEF RollBack, host, RowSteps
<1>2. IInv /\ lock = a /\ from \in {"APPLYING", "VERIFYING"}
  BY <1>1, HolderFacts DEF ProgressOK
<1>3. from \in TransactionStates /\ "restore_file" \in FreeSteps /\ "restore_file" \in Steps
  BY <1>2 DEF TransactionStates, FreeSteps, Steps
<1>4. /\ HolderProgressOK'
      /\ \/ journal' = journal
         \/ /\ Writes(journal, journal', task[a].row, "ROLLING_BACK", "interrupted")
            /\ journal[task[a].row].state = from
  <2> HIDE DEF from
  <2> QED
    BY <1>1, <1>2, <1>3, TransitionProgress
<1>5. CASE journal' = journal
  BY <1>1, <1>4, <1>5, QuietEffect
<1>6. CASE Writes(journal, journal', task[a].row, "ROLLING_BACK", "interrupted")
           /\ journal[task[a].row].state = from
  <2>1. journal \in Seq(Entries) /\ DetailOK(journal) /\ task[a].row \in DOMAIN journal
    BY <1>1, <1>2, RowFacts DEF HInv, RecordOK, IInv, TypeOK
  <2>2. CASE journal[task[a].row].damage = "legacy"
    <3>1. journal[task[a].row].state \notin FinishedStates
      BY <1>2, <1>6 DEF FinishedStates
    <3>2. Strays(journal, journal', task[a].row)
      BY <1>6, <2>1, <2>2, <3>1, LegacyWrite
    <3> QED
      BY <1>1, <1>4, <2>1, <3>2 DEF Effect, JournalMoves
  <2>3. CASE journal[task[a].row].damage # "legacy"
    <3>1. Advances(journal, journal', task[a].row)
      BY <1>2, <1>6, <2>3 DEF Advances, Moves, TransactionStates
    <3> QED
      BY <1>1, <1>4, <2>1, <3>1 DEF Effect, JournalMoves
  <2> QED
    BY <2>2, <2>3
<1> QED
  BY <1>4, <1>5, <1>6

\* A restore that fails returns or ends as FAILED.
LEMMA RestoreErrorProgress ==
    ASSUME IInv, NEW a \in Actors, lock = a, RestoreError(a) PROVE HolderProgressOK'
<1>1. CASE task[a].kind = "rollback"
  BY <1>1, ReturnProgress DEF RestoreError
<1>2. CASE task[a].kind # "rollback"
  BY <1>2, FailureProgress DEF RestoreError, TransactionStates
<1> QED
  BY <1>1, <1>2

\* The snapshot is installed, or the restore gives up.
LEMMA RestoreFileEffect ==
    ASSUME HInv, NEW a \in Actors, RestoreFile(a) PROVE Effect /\ HolderProgressOK'
<1> DEFINE c == Component(a)
           restored == [file EXCEPT ![c] = Entry(a).snapshot]
<1>1. /\ task[a].step = "restore_file" /\ task[a].step \in RowSteps /\ UNCHANGED <<journal, proc>>
      /\ \/ file' = restored /\ Goto(a, "restore_service")
         \/ file' \in {file, restored} /\ RestoreError(a)
  BY DEF RestoreFile, RowSteps
<1>2. IInv /\ lock = a /\ file \in [Components -> Files]
  BY <1>1, HolderFacts
<1>3. /\ task[a].row \in DOMAIN journal /\ c \in Components
      /\ c = journal[task[a].row].component /\ Entry(a) = journal[task[a].row]
      /\ journal[task[a].row].state = "ROLLING_BACK"
  BY <1>1, RowFacts DEF StateAtStep
<1>4. Effect
  BY <1>1, <1>2, <1>3, WorkEffect
<1>5. CASE file' = restored /\ Goto(a, "restore_service")
  <2>1. file'[c] = journal[task[a].row].snapshot
    BY <1>2, <1>3, <1>5
  <2>2. \A t : t.step = "restore_service" /\ t.row = task[a].row => ProgressOK(t, journal', file', proc')
    BY <1>1, <1>3, <2>1 DEF ProgressOK
  <2>3. "restore_service" \in Steps
    BY DEF Steps
  <2> QED
    BY <1>2, <1>4, <1>5, <2>2, <2>3, GotoProgress
<1>6. CASE RestoreError(a)
  BY <1>2, <1>4, <1>6, RestoreErrorProgress
<1> QED
  BY <1>1, <1>5, <1>6

\* The service starts on the snapshot, or the restore gives up.
LEMMA RestoreServiceEffect ==
    ASSUME HInv, NEW a \in Actors, RestoreService(a) PROVE Effect /\ HolderProgressOK'
<1> DEFINE c == Component(a)
           content == Entry(a).snapshot
           next == AfterRestoredService(a)
<1>1. /\ task[a].step = "restore_service" /\ task[a].step \in RowSteps
      /\ UNCHANGED <<journal, file>>
      /\ \/ proc' = [proc EXCEPT ![c] = ServiceAfter(content)] /\ Goto(a, next)
         \/ (\E left : proc' = [proc EXCEPT ![c] = left]) /\ RestoreError(a)
         \/ proc' = proc /\ RestoreError(a)
  BY DEF RestoreService, CommandService, RowSteps
<1>2. IInv /\ lock = a /\ proc \in [Components -> Processes]
      /\ ProgressOK(task[a], journal, file, proc)
  BY <1>1, HolderFacts
<1>3. /\ task[a].row \in DOMAIN journal /\ c \in Components
      /\ c = journal[task[a].row].component /\ content = journal[task[a].row].snapshot
      /\ journal[task[a].row].state = "ROLLING_BACK"
  BY <1>1, RowFacts DEF StateAtStep
<1>4. Effect
  BY <1>1, <1>2, <1>3, WorkEffect
<1>5. CASE proc' = [proc EXCEPT ![c] = ServiceAfter(content)] /\ Goto(a, next)
  <2>1. Runs(file', proc', c, content)
    BY <1>1, <1>2, <1>3, <1>5 DEF Runs, ProgressOK, ServiceAfter
  <2>2. next \in {"mark_rolled_back", "restore_verify"}
    BY DEF AfterRestoredService
  <2>3. next \in Steps
    BY <2>2 DEF Steps
  <2> HIDE DEF next
  <2>4. \A t : t.step = next /\ t.row = task[a].row => ProgressOK(t, journal', file', proc')
    BY <1>1, <1>3, <2>1, <2>2 DEF ProgressOK
  <2> QED
    BY <1>2, <1>4, <1>5, <2>3, <2>4, GotoProgress
<1>6. CASE RestoreError(a)
  BY <1>2, <1>4, <1>6, RestoreErrorProgress
<1> QED
  BY <1>1, <1>5, <1>6

\* The restore is verified, or gives up.
LEMMA RestoreVerifyEffect ==
    ASSUME HInv, NEW a \in Actors, RestoreVerify(a) PROVE Effect /\ HolderProgressOK'
<1>1. /\ task[a].step = "restore_verify" /\ UNCHANGED <<journal, file, proc>>
      /\ Goto(a, "mark_rolled_back") \/ RestoreError(a)
  BY DEF RestoreVerify, host
<1>2. IInv /\ lock = a /\ ProgressOK(task[a], journal, file, proc)
  BY <1>1, HolderFacts
<1>3. CASE Goto(a, "mark_rolled_back")
  <2>1. \A t : t.step = "mark_rolled_back" /\ t.row = task[a].row => ProgressOK(t, journal', file', proc')
    BY <1>1, <1>2 DEF ProgressOK
  <2>2. "mark_rolled_back" \in Steps
    BY DEF Steps
  <2> QED
    BY <1>1, <1>2, <1>3, <2>1, <2>2, GotoProgress, QuietEffect
<1>4. CASE RestoreError(a)
  BY <1>1, <1>2, <1>4, RestoreErrorProgress, QuietEffect
<1> QED
  BY <1>1, <1>3, <1>4

\* The entry becomes ROLLED_BACK, with file and service the snapshot's.
LEMMA MarkRolledBackEffect ==
    ASSUME HInv, NEW a \in Actors, MarkRolledBack(a) PROVE Effect /\ HolderProgressOK'
<1> DEFINE detail == IF task[a].kind = "rollback" THEN "operator_requested" ELSE "interrupted"
<1>1. /\ task[a].step = "mark_rolled_back" /\ task[a].step \in RowSteps /\ UNCHANGED <<file, proc>>
      /\ Transition(a, "ROLLING_BACK", "ROLLED_BACK", detail, "succeed", "fail")
  BY DEF MarkRolledBack, host, RowSteps
<1>2. IInv /\ lock = a /\ ProgressOK(task[a], journal, file, proc)
  BY <1>1, HolderFacts
<1>3. Runs(file, proc, journal[task[a].row].component, journal[task[a].row].snapshot)
  BY <1>1, <1>2 DEF ProgressOK
<1>4. detail \in {"operator_requested", "interrupted"}
  OBVIOUS
<1> HIDE DEF detail
<1>5. /\ HolderProgressOK'
      /\ \/ journal' = journal
         \/ /\ Writes(journal, journal', task[a].row, "ROLLED_BACK", detail)
            /\ journal[task[a].row].state = "ROLLING_BACK"
  BY <1>1, <1>2, TransitionProgress DEF TransactionStates
<1>6. CASE journal' = journal
  BY <1>1, <1>5, <1>6, QuietEffect
<1>7. CASE Writes(journal, journal', task[a].row, "ROLLED_BACK", detail)
           /\ journal[task[a].row].state = "ROLLING_BACK"
  <2>1. journal \in Seq(Entries) /\ DetailOK(journal) /\ task[a].row \in DOMAIN journal
    BY <1>1, <1>2, RowFacts DEF HInv, RecordOK, IInv, TypeOK
  <2>2. CASE journal[task[a].row].damage = "legacy"
    <3>1. journal[task[a].row].state \notin FinishedStates /\ detail # "rollback_failed"
      BY <1>4, <1>7 DEF FinishedStates
    <3>2. Strays(journal, journal', task[a].row)
      BY <1>7, <2>1, <2>2, <3>1, LegacyWrite
    <3> QED
      BY <1>1, <1>5, <2>1, <3>2 DEF Effect, JournalMoves
  <2>3. CASE journal[task[a].row].damage # "legacy"
    <3>1. Reverts(journal, journal', file, proc, task[a].row)
      BY <1>3, <1>4, <1>7, <2>3 DEF Reverts, Moves
    <3> QED
      BY <1>1, <1>5, <2>1, <3>1 DEF Effect, JournalMoves
  <2> QED
    BY <2>2, <2>3
<1> QED
  BY <1>5, <1>6, <1>7

\* An operator's rollback of the newest commit passes its checks.
LEMMA BeginRollbackEffect ==
    ASSUME HInv, NEW a \in Actors, BeginRollback(a) PROVE Effect /\ HolderProgressOK'
<1>1. /\ task[a].step = "begin" /\ UNCHANGED <<journal, file, proc>>
      /\ \/ Release(a)
         \/ \E row \in DOMAIN journal :
                /\ IsLatestCommitted(journal, row) /\ MayRollBack(row) /\ UNCHANGED lock
                /\ task' = [task EXCEPT ![a].step = "mark_rolling_back", ![a].row = row]
  BY DEF BeginRollback, host
<1>2. IInv /\ lock = a /\ task[a] \in Tasks /\ task \in [Actors -> Tasks]
  BY <1>1, HolderFacts DEF IInv, TypeOK
<1>3. CASE Release(a)
  BY <1>1, <1>2, <1>3, TaskGoesOn, QuietEffect
<1>4. ASSUME NEW row \in DOMAIN journal,
             IsLatestCommitted(journal, row), MayRollBack(row), UNCHANGED lock,
             task' = [task EXCEPT ![a].step = "mark_rolling_back", ![a].row = row]
      PROVE  Effect /\ HolderProgressOK'
  <2>1. task'[a].step = "mark_rolling_back" /\ task'[a].row = row
    BY <1>2, <1>4 DEF Tasks
  <2>2. file[journal[row].component] = journal[row].candidate
    BY <1>4 DEF MayRollBack
  <2>3. ProgressOK(task'[a], journal', file', proc')
    BY <1>1, <1>4, <2>1, <2>2 DEF ProgressOK
  <2> QED
    BY <1>1, <1>2, <1>4, <2>3, QuietEffect DEF HolderProgressOK
<1> QED
  BY <1>1, <1>3, <1>4

\* The committed entry is reopened as ROLLING_BACK.
LEMMA MarkRollingBackEffect ==
    ASSUME HInv, NEW a \in Actors, MarkRollingBack(a) PROVE Effect /\ HolderProgressOK'
<1>1. /\ task[a].step = "mark_rolling_back" /\ task[a].step \in RowSteps /\ UNCHANGED <<file, proc>>
      /\ Transition(a, "COMMITTED", "ROLLING_BACK", "operator_requested", "restore_file", "fail")
  BY DEF MarkRollingBack, host, RowSteps
<1>2. /\ IInv /\ lock = a /\ ProgressOK(task[a], journal, file, proc)
      /\ UnfinishedRows(journal) = {}
  BY <1>1, HolderFacts DEF TaskOK
<1>3. /\ file[journal[task[a].row].component] = journal[task[a].row].candidate
      /\ IsLatestCommitted(journal, task[a].row)
  BY <1>1, <1>2 DEF ProgressOK
<1>4. "restore_file" \in FreeSteps /\ "restore_file" \in Steps
  BY DEF FreeSteps, Steps
<1>5. /\ HolderProgressOK'
      /\ \/ journal' = journal
         \/ Writes(journal, journal', task[a].row, "ROLLING_BACK", "operator_requested")
  BY <1>1, <1>2, <1>4, TransitionProgress DEF TransactionStates
<1>6. CASE journal' = journal
  BY <1>1, <1>5, <1>6, QuietEffect
<1>7. CASE Writes(journal, journal', task[a].row, "ROLLING_BACK", "operator_requested")
  <2>1. Moves(journal, journal', task[a].row, "ROLLING_BACK", "operator_requested")
    BY <1>1, <1>7, ForwardWrite DEF ResolvingSteps
  <2> QED
    BY <1>1, <1>2, <1>3, <1>5, <2>1, RowFacts DEF Effect, JournalMoves, Reopens
<1> QED
  BY <1>5, <1>6, <1>7

\* Recovery fails an operation that a crash cut short before its apply.
LEMMA MarkInterruptedEffect ==
    ASSUME HInv, NEW a \in Actors, MarkInterrupted(a) PROVE Effect /\ HolderProgressOK'
<1> DEFINE from == task[a].from
<1>1. /\ task[a].step = "mark_interrupted" /\ task[a].step \in RowSteps /\ UNCHANGED <<file, proc>>
      /\ Transition(a, from, "FAILED", "not_applied", "succeed", "fail")
  BY DEF MarkInterrupted, host, RowSteps
<1>2. IInv /\ lock = a /\ from \in {"PREPARED", "VALIDATED"}
  BY <1>1, HolderFacts DEF ProgressOK
<1>3. from \in TransactionStates
  BY <1>2 DEF TransactionStates
<1>4. /\ HolderProgressOK'
      /\ \/ journal' = journal
         \/ /\ Writes(journal, journal', task[a].row, "FAILED", "not_applied")
            /\ journal[task[a].row].state = from
  <2> HIDE DEF from
  <2> QED
    BY <1>1, <1>2, <1>3, TransitionProgress
<1>5. CASE journal' = journal
  BY <1>1, <1>4, <1>5, QuietEffect
<1>6. CASE Writes(journal, journal', task[a].row, "FAILED", "not_applied")
           /\ journal[task[a].row].state = from
  <2>1. DetailOK(journal) /\ task[a].row \in DOMAIN journal
    BY <1>1, RowFacts DEF HInv, RecordOK
  <2>2. EndsUnapplied(journal, journal', task[a].row)
    BY <1>2, <1>6, <2>1 DEF EndsUnapplied, Moves, DetailOK
  <2> QED
    BY <1>1, <1>4, <2>1, <2>2 DEF Effect, JournalMoves
<1> QED
  BY <1>4, <1>5, <1>6

\* The steps of the coordinator and of the gate touch neither journal nor host.
LEMMA CoordinationEffect ==
    ASSUME HInv, NEW a \in Actors,
           \/ Gate(a) \/ RecoverComponent(a) \/ NextOperation(a) \/ NextComponent(a)
           \/ JournalCheck(a)
    PROVE  Effect /\ HolderProgressOK'
<1>1. UNCHANGED <<journal, file, proc>>
  BY DEF Gate, RecoverComponent, NextOperation, NextComponent, JournalCheck, host
<1>2. task[a].step \in {"gate", "component", "next_operation", "journal_check"}
  BY DEF Gate, RecoverComponent, NextOperation, NextComponent, JournalCheck
<1>3. /\ IInv /\ lock = a /\ TaskOK(task[a], journal, requests) /\ task[a] \in Tasks
      /\ task \in [Actors -> Tasks] /\ journal \in Seq(Entries)
  BY <1>2, HolderFacts DEF IInv, TypeOK
<1>4. ASSUME Gate(a) \/ RecoverComponent(a) \/ NextComponent(a) \/ JournalCheck(a)
      PROVE  \/ Release(a)
             \/ lock' = lock /\ task'[a].step \in {"begin", "next_operation", "component",
                                                    "journal_check"}
  BY <1>3, <1>4 DEF Gate, RecoverComponent, NextComponent, JournalCheck, Goto, EndRecovery,
                    Tasks
<1>5. CASE Gate(a) \/ RecoverComponent(a) \/ NextComponent(a) \/ JournalCheck(a)
  <2>1. CASE Release(a)
    BY <1>1, <1>3, <2>1, TaskGoesOn, QuietEffect
  <2>2. CASE lock' = lock /\ task'[a].step \in {"begin", "next_operation", "component",
                                                 "journal_check"}
    <3>1. ProgressOK(task'[a], journal', file', proc')
      BY <2>2, FreeStepIsOK DEF FreeSteps
    <3> QED
      BY <1>1, <1>3, <2>2, <3>1, QuietEffect DEF HolderProgressOK
  <2> QED
    BY <1>4, <1>5, <2>1, <2>2
<1>6. CASE NextOperation(a)
  <2> DEFINE rows == task[a].queue
             row == CHOOSE r \in rows : \A other \in rows : r <= other
  <2>1. /\ lock' = lock
        /\ \/ task' = [task EXCEPT ![a].queue = @ \ {row}, ![a].row = row,
                                   ![a].from = journal[row].state,
                                   ![a].step = RecoveryStep(journal[row].state)]
           \/ task' = [task EXCEPT ![a].queue = @ \ {row}, ![a].erred = TRUE]
    BY <1>6 DEF NextOperation
  <2>2. \/ task'[a].step = task[a].step
        \/ task'[a].from = journal[row].state /\ task'[a].step = RecoveryStep(journal[row].state)
    <3> HIDE DEF row
    <3> QED
      BY <1>3, <2>1 DEF Tasks
  <2>3. row \in rows
    <3>1. rows # {} /\ rows \subseteq Nat /\ rows \subseteq UnfinishedRows(journal)
      BY <1>3, <1>6 DEF NextOperation, Tasks, TaskOK
    <3>2. \E r \in rows : \A other \in rows : r <= other
      BY <1>3, <3>1 DEF IInv, JournalOK, AtMostOneUnfinished
    <3> QED
      BY <3>2
  <2>4. row \in UnfinishedRows(journal)
    BY <1>3, <2>3 DEF TaskOK
  <2>5. journal[row].state \in {"PREPARED", "VALIDATED", "APPLYING", "VERIFYING", "ROLLING_BACK"}
    <3>1. journal[row] \in Entries
      BY <1>3, <2>4 DEF UnfinishedRows
    <3> QED
      BY <2>4, <3>1 DEF UnfinishedRows, FinishedStates, Entries, TransactionStates
  <2> HIDE DEF row
  <2>6. ProgressOK(task'[a], journal', file', proc')
    <3>1. CASE task'[a].step = task[a].step
      <4>1. task'[a].step \in FreeSteps
        BY <1>6, <3>1 DEF NextOperation, FreeSteps
      <4> QED
        BY <4>1, FreeStepIsOK
    <3>2. CASE /\ task'[a].from = journal[row].state
               /\ task'[a].step = RecoveryStep(journal[row].state)
      BY <2>5, <3>2 DEF RecoveryStep, ProgressOK
    <3> QED
      BY <2>2, <3>1, <3>2
  <2> QED
    BY <1>1, <1>3, <2>1, <2>6, QuietEffect DEF HolderProgressOK
<1> QED
  BY <1>5, <1>6

\* Every step of a task.
LEMMA WorkHasEffect ==
    ASSUME HInv, NEW a \in Actors, Work(a)
    PROVE  Effect /\ HolderProgressOK' /\ requests' = requests
<1>1. requests' = requests
  BY DEF Work, Gate, BeginApply, ValidateCandidate, MarkValidated, MarkApplying, Install,
         Activate, MarkVerifying, Verify, Commit, MarkFailed, RollBack, RestoreFile,
         RestoreService, RestoreVerify, MarkRolledBack, BeginRollback, MarkRollingBack,
         RecoverComponent, NextOperation, MarkInterrupted, NextComponent, JournalCheck, client
<1>2. Effect /\ HolderProgressOK'
  BY BeginApplyEffect, ValidateCandidateEffect, MarkValidatedEffect, MarkApplyingEffect,
     InstallEffect, ActivateEffect, MarkVerifyingEffect, VerifyEffect, CommitEffect,
     MarkFailedEffect, RollBackEffect, RestoreFileEffect, RestoreServiceEffect,
     RestoreVerifyEffect, MarkRolledBackEffect, BeginRollbackEffect, MarkRollingBackEffect,
     MarkInterruptedEffect, CoordinationEffect DEF Work
<1> QED
  BY <1>1, <1>2

\* A task that starts relies on nothing yet.
LEMMA ArrivalHasEffect ==
    ASSUME HInv, Start \/ \E h \in Handlers : Receive(h)
    PROVE  Effect /\ HolderProgressOK' /\ requests' = requests
<1>1. UNCHANGED <<journal, file, proc, requests>>
  BY DEF Start, Receive, ReceiveApply, ReceiveRollback, ReceiveRecovery, host, client
<1>2. task \in [Actors -> Tasks]
  BY DEF HInv, IInv, TypeOK
<1>3. PICK a \in Actors : lock' = a /\ task'[a].step \in {"gate", "component"}
  <2>1. ASSUME NEW a \in Actors, NEW kind, NEW step, NEW r, TakeLock(a, kind, step, r)
        PROVE  lock' = a /\ task'[a].step = step
    BY <1>2, <2>1 DEF TakeLock, IdleTask
  <2>2. CASE Start
    BY <2>1, <2>2 DEF Start, Actors
  <2>3. ASSUME NEW h \in Handlers, Receive(h)
        PROVE  lock' = h /\ task'[h].step \in {"gate", "component"}
    BY <2>1, <2>3 DEF Receive, ReceiveApply, ReceiveRollback, ReceiveRecovery, Actors
  <2> QED
    BY <2>2, <2>3 DEF Actors
<1>4. ProgressOK(task'[a], journal', file', proc')
  BY <1>3, FreeStepIsOK DEF FreeSteps
<1> QED
  BY <1>1, <1>3, <1>4, QuietEffect DEF HolderProgressOK

\* Damage and reboots happen while no task runs, restarts of services at any time.
LEMMA EnvironmentHasEffect ==
    ASSUME HInv, Environment
    PROVE  Effect /\ HolderProgressOK' /\ requests' = requests
<1>1. /\ journal \in Seq(Entries) /\ file \in [Components -> Files]
      /\ proc \in [Components -> Processes] /\ Nobody \notin Actors
  BY ConstantsAssumption DEF HInv, IInv, TypeOK
<1>2. phase = "down" => lock = Nobody
  BY DEF HInv, IInv, DownOK
<1>3. CASE Crash
  BY <1>1, <1>3, QuietEffect DEF Crash, HolderProgressOK, host, client
<1>4. CASE Reboot
  <2>1. ServicesMove(file, proc, proc')
    BY <1>4 DEF Reboot, ServicesMove, ServiceAfter
  <2>2. lock' = Nobody
    BY <1>2, <1>4 DEF Reboot
  <2> QED
    BY <1>1, <1>4, <2>1, <2>2 DEF Reboot, Effect, SameRecord, HolderProgressOK, client
<1>5. ASSUME NEW c \in Components, ServiceDies(c) \/ SystemdRestarts(c)
      PROVE  Effect /\ HolderProgressOK' /\ requests' = requests
  <2>1. ServicesMove(file, proc, proc')
    BY <1>1, <1>5 DEF ServiceDies, SystemdRestarts, ServicesMove
  <2>2. UNCHANGED <<journal, file, lock, task, requests>>
    BY <1>5 DEF ServiceDies, SystemdRestarts, client
  <2>3. HolderProgressOK'
    <3> SUFFICES ASSUME NEW a \in Actors, lock = a
                 PROVE  ProgressOK(task[a], journal, file, proc')
      BY <2>2 DEF HolderProgressOK
    <3>1. TaskOK(task[a], journal, requests) /\ ProgressOK(task[a], journal, file, proc)
      BY DEF HInv, IInv, HolderOK, HolderProgressOK
    <3>2. CASE task[a].step \in RowSteps
      <4>1. task[a].row \in DOMAIN journal
        BY <3>1, <3>2 DEF TaskOK
      <4>2. journal[task[a].row] \in Entries
        BY <1>1, <4>1
      <4>3. journal[task[a].row].component \in Components
        BY <4>2 DEF Entries
      <4> QED
        BY <2>1, <3>1, <4>3 DEF ProgressOK, Runs, ServicesMove
    <3>3. CASE task[a].step \notin RowSteps
      BY <3>3 DEF ProgressOK, RowSteps
    <3> QED
      BY <3>2, <3>3
  <2> QED
    BY <2>1, <2>2, <2>3 DEF Effect, SameRecord
<1>6. ASSUME NEW row \in DOMAIN journal, Tamper(row)
      PROVE  Effect /\ HolderProgressOK' /\ requests' = requests
  <2>1. /\ file' = file /\ proc' = proc /\ requests' = requests /\ lock' = lock
        /\ phase = "down"
    BY <1>6 DEF Tamper, host, client
  <2>2. /\ DOMAIN journal' = DOMAIN journal
        /\ \A r \in DOMAIN journal \ {row} : journal'[r] = journal[r]
        /\ journal'[row].component = journal[row].component
        /\ journal'[row].state = journal[row].state
        /\ journal'[row].candidate = journal[row].candidate
        /\ journal'[row].detail = journal[row].detail
        /\ journal[row].damage = "none"
        /\ \/ /\ journal'[row].snapshot = journal[row].snapshot
              /\ journal'[row].damage \in {"candidate", "unreadable"}
           \/ /\ journal'[row].damage = "legacy"
              /\ journal[row].state \in {"APPLYING", "VERIFYING", "ROLLING_BACK"}
    BY <1>1, <1>6, TamperedEntry
  <2>3. ASSUME journal'[row].snapshot = journal[row].snapshot,
               journal'[row].damage \in {"candidate", "unreadable"}
        PROVE  Effect
    <3>1. SameRecord(journal, journal')
      BY <2>2, <2>3 DEF SameRecord
    <3>2. ServicesMove(file, proc, proc')
      BY <2>1 DEF ServicesMove
    <3> QED
      BY <2>1, <3>1, <3>2 DEF Effect
  <2>4. ASSUME journal'[row].damage = "legacy",
               journal[row].state \in {"APPLYING", "VERIFYING", "ROLLING_BACK"}
        PROVE  Effect
    <3>1. row \in UnfinishedRows(journal)
      BY <2>4 DEF UnfinishedRows, FinishedStates
    <3>2. journal[row].detail # "rollback_failed"
      BY <2>4 DEF HInv, RecordOK, DetailOK
    <3>3. Strays(journal, journal', row)
      BY <2>2, <2>4, <3>1, <3>2 DEF Strays
    <3>4. JournalMoves(journal, journal', file, proc, requests)
      BY <3>3 DEF JournalMoves
    <3> QED
      BY <2>1, <3>4 DEF Effect
  <2>5. lock' = Nobody
    BY <1>2, <2>1
  <2> QED
    BY <1>1, <2>1, <2>2, <2>3, <2>4, <2>5 DEF HolderProgressOK
<1> QED
  BY <1>3, <1>4, <1>5, <1>6 DEF Environment

\* Clients touch neither the host nor the journal.
LEMMA ClientHasEffect ==
    ASSUME HInv,
           \/ \E c \in Components, content \in Files : EditDesired(c, content)
           \/ \E c \in Components, id \in Ids : Review(id, c)
           \/ UNCHANGED vars
    PROVE  Effect /\ HolderProgressOK' /\ requests \subseteq requests'
<1>1. UNCHANGED <<journal, file, proc, lock, task>> /\ requests \subseteq requests'
  BY DEF EditDesired, Review, host, vars
<1> QED
  BY <1>1, QuietEffect DEF HInv, HolderProgressOK

\* Every step of the system is one of the effects.
LEMMA NextHasEffect ==
    ASSUME HInv, [Next]_vars PROVE Effect /\ HolderProgressOK' /\ requests \subseteq requests'
<1>1. CASE Next
  BY <1>1, WorkHasEffect, ArrivalHasEffect, EnvironmentHasEffect, ClientHasEffect DEF Next
<1>2. CASE UNCHANGED vars
  BY <1>2, ClientHasEffect
<1> QED
  BY <1>1, <1>2

\* The empty journal, and nothing on the host.
LEMMA HInvInit == Init => HInv
<1> SUFFICES ASSUME Init PROVE HInv
  OBVIOUS
<1>1. IInv
  BY InitIsSafe
<1>2. journal = << >> /\ DOMAIN journal = {}
  BY DEF Init
<1>3. RecordOK(journal, file, proc, requests)
  <2>1. UnfinishedRows(journal) = {} /\ \A c : Deciding(journal, c) = {}
    BY <1>2 DEF UnfinishedRows, Deciding
  <2>2. \A c \in Components : Settled(journal, file, proc, c)
    BY <2>1 DEF Settled, Expects, Runs, Init
  <2> QED
    BY <1>2, <2>1, <2>2 DEF RecordOK, SettledOK, UnfinishedOK, CommittedOK, DetailOK,
                            RowsAreReviewed, AtMostOne
<1>4. HolderProgressOK
  BY ConstantsAssumption DEF Init, HolderProgressOK
<1> QED
  BY <1>1, <1>3, <1>4 DEF HInv

\* HInv is inductive.
LEMMA HInvNext == HInv /\ [Next]_vars => HInv'
<1> SUFFICES ASSUME HInv, [Next]_vars PROVE HInv'
  OBVIOUS
<1>1. IInv /\ IInv'
  BY NextIsSafe DEF HInv
<1>2. TypeOK /\ TypeOK'
  BY <1>1 DEF IInv
<1>3. Effect /\ HolderProgressOK' /\ requests \subseteq requests'
  BY NextHasEffect
<1>4. RecordOK(journal, file, proc, requests)'
  BY <1>2, <1>3, EffectKeepsRecord DEF HInv
<1> QED
  BY <1>1, <1>3, <1>4 DEF HInv

\* In every reachable state the journal, the host and the requests agree, and
\* each task knows what its steps so far have done to file and service.
THEOREM HostInvariantHolds == Spec => []HInv
<1> QED
  BY HInvInit, HInvNext, PTL DEF Spec

\* Whenever no operation of a component is in flight, its file is what its newest
\* commit installed and its service runs that file or does not run, unless a
\* restore has given up since or has followed a damaged snapshot of the legacy format.
THEOREM SettledHosts == Spec => []SettledHostMatchesJournal
<1>1. HInv => SettledHostMatchesJournal
  <2> SUFFICES ASSUME HInv, NEW c \in Components, ~InFlight(c)
               PROVE  LET rows == DecidingRows(c)
                          newest == CHOOSE r \in rows : \A other \in rows : other <= r
                          lost == rows # {} /\ journal[newest].state # "COMMITTED"
                      IN  \/ lost
                          \/ /\ file[c] = IF rows = {} THEN Absent ELSE journal[newest].candidate
                             /\ proc[c] \in {Stopped, file[c]}
    BY DEF SettledHostMatchesJournal
  <2> DEFINE rows == DecidingRows(c)
             newest == CHOOSE r \in rows : \A other \in rows : other <= r
  <2>1. rows = Deciding(journal, c) /\ rows \subseteq Nat
    <3>1. journal \in Seq(Entries)
      BY DEF HInv, IInv, TypeOK
    <3> QED
      BY <3>1 DEF DecidingRows, Deciding
  <2>2. Settled(journal, file, proc, c)
    BY DEF HInv, RecordOK, SettledOK, Flying, InFlight
  <2>3. \A n \in rows : (\A other \in rows : other <= n) => newest = n
    <3> SUFFICES ASSUME NEW n \in rows, \A other \in rows : other <= n PROVE newest = n
      OBVIOUS
    <3>1. newest \in rows /\ \A other \in rows : other <= newest
      OBVIOUS
    <3>2. newest <= n /\ n <= newest /\ n \in Nat /\ newest \in Nat
      BY <2>1, <3>1
    <3> QED
      BY <3>2
  <2> HIDE DEF newest
  <2>4. CASE Lost(journal, rows)
    BY <2>3, <2>4 DEF Lost, newest
  <2>5. CASE Expects(journal, rows, file[c]) /\ Runs(file, proc, c, file[c])
    BY <2>3, <2>5 DEF Expects, Runs, newest
  <2> QED
    BY <2>1, <2>2, <2>4, <2>5 DEF Settled
<1> QED
  BY <1>1, HostInvariantHolds, PTL

-------------------------------------------------------------------------------
(* The recursion of the refinement mapping.                                *)

Less == {pair \in Nat \X Nat : pair[1] < pair[2]}

\* A nonempty set of natural numbers has a least element: induction on rows.
LEMMA LeastElement ==
    ASSUME NEW S, S \subseteq Nat, S # {} PROVE \E m \in S : \A n \in S : m <= n
<1>1. IsWellFoundedOn(Less, Nat)
  BY NatLessThanWellFounded DEF OpToRel, Less
<1>2. PICK m \in S : \A n \in S : <<n, m>> \notin Less
  BY <1>1, WFMin
<1>3. ASSUME NEW n \in S PROVE m <= n
  <2>1. <<n, m>> \in Nat \X Nat /\ <<n, m>>[1] = n /\ <<n, m>>[2] = m
    OBVIOUS
  <2>2. ~(n < m)
    BY <1>2, <2>1 DEF Less
  <2> QED
    BY <2>2
<1> QED
  BY <1>3

Ground == [stack |-> << >>, lost |-> FALSE]

\* g is the recursion of Below up to row m.
Climbs(g, j, c, m) == g = [n \in 0..m |-> IF n = 0 THEN Ground ELSE Stacked(j, c, n, g[n - 1])]

\* The recursion has a solution.
LEMMA ClimbExists ==
    ASSUME NEW j, NEW c, NEW m \in Nat PROVE \E g : Climbs(g, j, c, m)
<1> DEFINE S == {n \in Nat : ~\E g : Climbs(g, j, c, n)}
<1> SUFFICES ASSUME S # {} PROVE FALSE
  OBVIOUS
<1>1. PICK n \in S : \A i \in S : n <= i
  BY LeastElement
<1>2. CASE n = 0
  <2> DEFINE g == [i \in 0..0 |-> Ground]
  <2>1. Climbs(g, j, c, 0)
    BY DEF Climbs
  <2> QED
    BY <1>1, <1>2, <2>1
<1>3. CASE n # 0
  <2>1. n - 1 \in Nat /\ n - 1 \notin S
    BY <1>1, <1>3
  <2>2. PICK g : Climbs(g, j, c, n - 1)
    BY <2>1
  <2> DEFINE h == [i \in 0..n |-> IF i = n THEN Stacked(j, c, n, g[n - 1]) ELSE g[i]]
  <2>3. \A i \in 0..(n - 1) : g[i] = IF i = 0 THEN Ground ELSE Stacked(j, c, i, g[i - 1])
    BY <2>2 DEF Climbs
  <2>4. \A i \in 0..n : h[i] = IF i = 0 THEN Ground ELSE Stacked(j, c, i, h[i - 1])
    <3> SUFFICES ASSUME NEW i \in 0..n
                 PROVE  h[i] = IF i = 0 THEN Ground ELSE Stacked(j, c, i, h[i - 1])
      OBVIOUS
    <3>1. CASE i = 0
      BY <1>3, <2>1, <2>3, <3>1
    <3>2. CASE i # 0
      <4>1. i - 1 \in 0..(n - 1) /\ h[i - 1] = g[i - 1]
        BY <3>2
      <4> QED
        BY <2>1, <2>3, <3>2, <4>1
    <3> QED
      BY <3>1, <3>2
  <2>5. h = [i \in 0..n |-> h[i]]
    OBVIOUS
  <2> HIDE DEF h
  <2>6. Climbs(h, j, c, n)
    BY <2>4, <2>5 DEF Climbs
  <2> QED
    BY <1>1, <2>6
<1> QED
  BY <1>2, <1>3

\* Below satisfies its recursion.
LEMMA BelowClimbs ==
    ASSUME NEW j \in Seq(Entries), NEW c
    PROVE  /\ Below(j, c)[0] = Ground
           /\ \A n \in 1..Len(j) : Below(j, c)[n] = Stacked(j, c, n, Below(j, c)[n - 1])
<1>1. Below(j, c) = CHOOSE g : g = [n \in 0..Len(j) |->
          IF n = 0 THEN [stack |-> << >>, lost |-> FALSE] ELSE Stacked(j, c, n, g[n - 1])]
  BY DEF Below
<1>2. Len(j) \in Nat
  OBVIOUS
<1>3. \E g : g = [n \in 0..Len(j) |->
          IF n = 0 THEN [stack |-> << >>, lost |-> FALSE] ELSE Stacked(j, c, n, g[n - 1])]
  <2>1. PICK g : Climbs(g, j, c, Len(j))
    BY <1>2, ClimbExists
  <2> QED
    BY <2>1 DEF Climbs, Ground
<1>4. Below(j, c) = [n \in 0..Len(j) |->
          IF n = 0 THEN Ground ELSE Stacked(j, c, n, Below(j, c)[n - 1])]
  BY <1>1, <1>3 DEF Ground
<1> HIDE DEF Below
<1> QED
  BY <1>2, <1>4

Levels == [stack : Seq(Files \cup {Unknown}), lost : BOOLEAN]

\* What is below a row is a stack of configurations and a Boolean.
LEMMA BelowIsTyped ==
    ASSUME NEW j \in Seq(Entries), NEW c, NEW m \in 0..Len(j)
    PROVE  Below(j, c)[m] \in Levels
<1> DEFINE S == {n \in 0..Len(j) : Below(j, c)[n] \notin Levels}
<1> SUFFICES ASSUME S # {} PROVE FALSE
  OBVIOUS
<1>0. S \subseteq Nat
  OBVIOUS
<1>1. PICK n \in S : \A i \in S : n <= i
  BY <1>0, LeastElement
<1>2. CASE n = 0
  <2>1. Ground \in Levels
    <3>1. << >> \in Seq(Files \cup {Unknown})
      OBVIOUS
    <3> QED
      BY <3>1 DEF Ground, Levels
  <2> QED
    BY <1>1, <1>2, <2>1, BelowClimbs
<1>3. CASE n # 0
  <2> DEFINE b == Below(j, c)[n - 1]
  <2>1. n \in 1..Len(j) /\ n - 1 \in 0..Len(j) /\ n - 1 \notin S
    BY <1>1, <1>3
  <2>2. b \in Levels
    BY <2>1
  <2>3. Below(j, c)[n] = Stacked(j, c, n, b)
    BY <2>1, BelowClimbs
  <2>4. j[n] \in Entries
    BY <2>1
  <2> HIDE DEF b
  <2>5. Stacked(j, c, n, b) \in Levels
    BY <2>2, <2>4 DEF Stacked, Levels, Entries
  <2> QED
    BY <1>1, <2>3, <2>5
<1> QED
  BY <1>2, <1>3

\* Row n counts the same in journals j and k.
CountsAlike(j, k, c, n) ==
    /\ n \in UndoableRows(k, c) <=> n \in UndoableRows(j, c)
    /\ LosesTrack(k, c, n) <=> LosesTrack(j, c, n)
    /\ n \in UndoableRows(j, c) => k[n].snapshot = j[n].snapshot

\* Journals whose first m rows count the same agree up to row m.
LEMMA BelowAgrees ==
    ASSUME NEW j \in Seq(Entries), NEW k \in Seq(Entries), NEW c,
           NEW m \in 0..Len(j), m \in 0..Len(k),
           \A n \in 1..m : CountsAlike(j, k, c, n)
    PROVE  Below(k, c)[m] = Below(j, c)[m]
<1> DEFINE S == {n \in 0..m : Below(k, c)[n] # Below(j, c)[n]}
<1> SUFFICES ASSUME S # {} PROVE FALSE
  OBVIOUS
<1>0. S \subseteq Nat
  OBVIOUS
<1>1. PICK n \in S : \A i \in S : n <= i
  BY <1>0, LeastElement
<1>2. CASE n = 0
  BY <1>1, <1>2, BelowClimbs
<1>3. CASE n # 0
  <2>1. n \in 1..m /\ n \in 1..Len(j) /\ n \in 1..Len(k) /\ n - 1 \in 0..m /\ n - 1 \notin S
    BY <1>1, <1>3
  <2>2. Below(k, c)[n - 1] = Below(j, c)[n - 1]
    BY <2>1
  <2>3. /\ Below(j, c)[n] = Stacked(j, c, n, Below(j, c)[n - 1])
        /\ Below(k, c)[n] = Stacked(k, c, n, Below(k, c)[n - 1])
    BY <2>1, BelowClimbs
  <2>4. CountsAlike(j, k, c, n)
    BY <2>1
  <2>5. Stacked(k, c, n, Below(j, c)[n - 1]) = Stacked(j, c, n, Below(j, c)[n - 1])
    BY <2>4 DEF CountsAlike, Stacked
  <2> QED
    BY <1>1, <2>2, <2>3, <2>5
<1> QED
  BY <1>2, <1>3

\* Above the last undoable operation only what loses track counts.
LEMMA BelowIsFlat ==
    ASSUME NEW j \in Seq(Entries), NEW c, NEW m \in 0..Len(j),
           \A n \in (m + 1)..Len(j) : n \notin UndoableRows(j, c)
    PROVE  /\ Below(j, c)[Len(j)].stack = Below(j, c)[m].stack
           /\ Below(j, c)[Len(j)].lost <=>
                  \/ Below(j, c)[m].lost
                  \/ \E n \in (m + 1)..Len(j) : LosesTrack(j, c, n)
<1> DEFINE Flat(n) ==
        /\ Below(j, c)[n].stack = Below(j, c)[m].stack
        /\ Below(j, c)[n].lost <=>
               \/ Below(j, c)[m].lost
               \/ \E i \in (m + 1)..n : LosesTrack(j, c, i)
           S == {n \in m..Len(j) : ~Flat(n)}
<1>0. Len(j) \in Nat /\ m \in Nat
  OBVIOUS
<1>1. S = {}
  <2> SUFFICES ASSUME S # {} PROVE FALSE
    OBVIOUS
  <2>1. S \subseteq Nat
    BY <1>0
  <2>2. PICK n \in S : \A i \in S : n <= i
    BY <2>1, LeastElement
  <2>3. CASE n = m
    <3>1. (m + 1)..m = {}
      BY <1>0
    <3> QED
      BY <2>2, <2>3, <3>1
  <2>4. CASE n # m
    <3>1. /\ n \in (m + 1)..Len(j) /\ n \in 1..Len(j) /\ n - 1 \in m..Len(j) /\ n - 1 \notin S
          /\ (m + 1)..n = ((m + 1)..(n - 1)) \cup {n}
      BY <1>0, <2>2, <2>4
    <3>2. Flat(n - 1)
      BY <3>1
    <3>3. Below(j, c)[n] = Stacked(j, c, n, Below(j, c)[n - 1])
      BY <3>1, BelowClimbs
    <3>4. n \notin UndoableRows(j, c)
      BY <3>1
    <3>5. /\ Below(j, c)[n].stack = Below(j, c)[n - 1].stack
          /\ Below(j, c)[n].lost = (Below(j, c)[n - 1].lost \/ LosesTrack(j, c, n))
      BY <3>3, <3>4 DEF Stacked
    <3>6. Below(j, c)[n - 1].lost \in BOOLEAN
      <4>1. Below(j, c)[n - 1] \in Levels
        BY <1>0, <3>1, BelowIsTyped
      <4> QED
        BY <4>1 DEF Levels
    <3>7. (\E i \in (m + 1)..n : LosesTrack(j, c, i)) <=>
              (\E i \in (m + 1)..(n - 1) : LosesTrack(j, c, i)) \/ LosesTrack(j, c, n)
      BY <3>1
    <3> QED
      BY <2>2, <3>2, <3>5, <3>7
  <2> QED
    BY <2>3, <2>4
<1>2. Flat(Len(j))
  BY <1>0, <1>1
<1> QED
  BY <1>2

-------------------------------------------------------------------------------
(* What each effect does to the history of a component.                    *)

\* A configuration that is put on top comes off again.
LEMMA FrontOfAppend ==
    ASSUME NEW X, NEW s \in Seq(X), NEW x \in X
    PROVE  /\ Atomic!Front(Append(s, x)) = s
           /\ Len(Append(s, x)) = Len(s) + 1
           /\ Append(s, x) # << >>
  BY DEF Atomic!Front

\* The configuration in force when nothing is in flight, and when row is.
LEMMA InForceFacts ==
    ASSUME NEW j, NEW f, NEW c
    PROVE  /\ ~Flying(j, c) => InForce(j, f, c) = f[c]
           /\ \A row \in UnfinishedRows(j) :
                  j[row].component = c /\ AtMostOne(j) =>
                      InForce(j, f, c) = IF row \in UndoableRows(j, c) THEN j[row].candidate
                                                                       ELSE j[row].snapshot
<1>1. ~Flying(j, c) => InForce(j, f, c) = f[c]
  BY DEF Flying, InForce
<1>2. ASSUME NEW row \in UnfinishedRows(j), j[row].component = c, AtMostOne(j)
      PROVE  InForce(j, f, c) = IF row \in UndoableRows(j, c) THEN j[row].candidate
                                                              ELSE j[row].snapshot
  <2> DEFINE flying == {r \in UnfinishedRows(j) : j[r].component = c}
  <2>1. flying = {row}
    BY <1>2 DEF AtMostOne
  <2>2. (CHOOSE r \in flying : TRUE) = row
    BY <2>1
  <2> HIDE DEF flying
  <2>3. InForce(j, f, c) = LET r == CHOOSE r \in flying : TRUE
                           IN  IF flying = {} THEN f[c]
                               ELSE IF r \in UndoableRows(j, c) THEN j[r].candidate
                               ELSE j[r].snapshot
    BY DEF InForce, flying
  <2> QED
    BY <2>1, <2>2, <2>3
<1> QED
  BY <1>1, <1>2

\* The same stack below and the same configuration in force.
LEMMA HistoryAgrees ==
    ASSUME NEW j \in Seq(Entries), NEW k \in Seq(Entries), Len(k) = Len(j), NEW f, NEW f1, NEW c,
           \A n \in DOMAIN j : CountsAlike(j, k, c, n),
           InForce(k, f1, c) = InForce(j, f, c)
    PROVE  HistoryOf(k, f1, c) = HistoryOf(j, f, c)
<1>1. Below(k, c)[Len(j)] = Below(j, c)[Len(j)]
  <2>1. Len(j) \in 0..Len(j) /\ Len(j) \in 0..Len(k) /\ 1..Len(j) = DOMAIN j
    OBVIOUS
  <2> QED
    BY <2>1, BelowAgrees
<1> QED
  BY <1>1 DEF HistoryOf

\* Damage that misleads no restore leaves every history as it is.
LEMMA SameRecordHistory ==
    ASSUME NEW j \in Seq(Entries), NEW k \in Seq(Entries), NEW f, NEW c, SameRecord(j, k)
    PROVE  HistoryOf(k, f, c) = HistoryOf(j, f, c)
<1>1. Len(k) = Len(j) /\ \A n \in DOMAIN j : CountsAlike(j, k, c, n)
  BY DEF SameRecord, CountsAlike, UndoableRows, LosesTrack
<1>2. {r \in UnfinishedRows(k) : k[r].component = c} = {r \in UnfinishedRows(j) : j[r].component = c}
  BY DEF SameRecord, UnfinishedRows
<1>3. UndoableRows(k, c) = UndoableRows(j, c)
  BY DEF SameRecord, UndoableRows
<1>4. InForce(k, f, c) = InForce(j, f, c)
  <2> DEFINE flying == {r \in UnfinishedRows(j) : j[r].component = c}
             row == CHOOSE r \in flying : TRUE
  <2>1. CASE flying = {}
    BY <1>2, <2>1 DEF InForce
  <2>2. CASE flying # {}
    <3>1. row \in flying
      BY <2>2
    <3>2. row \in DOMAIN j
      BY <3>1 DEF UnfinishedRows
    <3>3. k[row].candidate = j[row].candidate /\ k[row].snapshot = j[row].snapshot
      BY <3>2 DEF SameRecord
    <3> QED
      BY <1>2, <1>3, <2>2, <3>3 DEF InForce
  <2> QED
    BY <2>1, <2>2
<1> QED
  BY <1>1, <1>4, HistoryAgrees

\* What is in force does not depend on the file of a component in flight.
LEMMA WorkHistory ==
    ASSUME NEW j \in Seq(Entries), NEW f, NEW p, NEW f1, NEW p1, NEW row, NEW c \in Components,
           Works(j, f, p, f1, p1, row)
    PROVE  HistoryOf(j, f1, c) = HistoryOf(j, f, c)
<1>1. CASE c = j[row].component
  <2>1. {r \in UnfinishedRows(j) : j[r].component = c} # {}
    BY <1>1 DEF Works
  <2> QED
    BY <2>1 DEF HistoryOf, InForce
<1>2. CASE c # j[row].component
  BY <1>2 DEF Works, HistoryOf, InForce
<1> QED
  BY <1>1, <1>2

\* The move of an entry of another component.
LEMMA OtherHistory ==
    ASSUME NEW j \in Seq(Entries), NEW k \in Seq(Entries), NEW f, NEW p, NEW rs, NEW row,
           NEW to, NEW detail, NEW c, c # j[row].component,
           Moves(j, k, row, to, detail), RecordOK(j, f, p, rs),
           row \in UnfinishedRows(j) \/ UnfinishedRows(j) = {}
    PROVE  HistoryOf(k, f, c) = HistoryOf(j, f, c)
<1>1. Len(k) = Len(j) /\ \A n \in DOMAIN j : CountsAlike(j, k, c, n)
  BY DEF Moves, Writes, CountsAlike, UndoableRows, LosesTrack
<1>2. ~Flying(j, c) /\ ~Flying(k, c)
  BY MovedDecisions DEF RecordOK, AtMostOne, Flying, Moves, Writes
<1>3. InForce(k, f, c) = InForce(j, f, c)
  BY <1>2, InForceFacts
<1> QED
  BY <1>1, <1>3, HistoryAgrees

\* A move that neither makes nor ends an undoable operation, nor loses track, and
\* that leaves the same configuration in force.
LEMMA EvenMoveHistory ==
    ASSUME NEW j \in Seq(Entries), NEW k \in Seq(Entries), NEW f, NEW p, NEW rs, NEW row,
           NEW to, NEW detail, NEW c,
           Moves(j, k, row, to, detail), RecordOK(j, f, p, rs),
           row \in UnfinishedRows(j) \/ UnfinishedRows(j) = {},
           row \in UndoableRows(k, j[row].component) <=> row \in UndoableRows(j, j[row].component),
           detail # "rollback_failed", j[row].state # "FAILED",
           InForce(k, f, j[row].component) = InForce(j, f, j[row].component)
    PROVE  HistoryOf(k, f, c) = HistoryOf(j, f, c)
<1>1. CASE c # j[row].component
  BY <1>1, OtherHistory
<1>2. CASE c = j[row].component
  <2>1. CountsAlike(j, k, c, row)
    BY <1>2 DEF Moves, Writes, CountsAlike, LosesTrack, RecordOK, DetailOK
  <2>2. \A n \in DOMAIN j \ {row} : CountsAlike(j, k, c, n)
    BY DEF Moves, Writes, CountsAlike, UndoableRows, LosesTrack
  <2>3. Len(k) = Len(j)
    BY DEF Moves, Writes
  <2> QED
    BY <1>2, <2>1, <2>2, <2>3, HistoryAgrees
<1> QED
  BY <1>1, <1>2

\* An operation that goes on changes nothing yet.
LEMMA AdvanceHistory ==
    ASSUME NEW j \in Seq(Entries), NEW k \in Seq(Entries), NEW f, NEW p, NEW rs, NEW row, NEW c,
           Advances(j, k, row), RecordOK(j, f, p, rs), AtMostOne(k)
    PROVE  HistoryOf(k, f, c) = HistoryOf(j, f, c)
<1>1. PICK to \in TransactionStates, detail \in {"none", "interrupted"} :
          /\ Moves(j, k, row, to, detail)
          /\ <<j[row].state, to>> \in
                 {<<"PREPARED", "VALIDATED">>, <<"VALIDATED", "APPLYING">>,
                  <<"APPLYING", "VERIFYING">>, <<"APPLYING", "ROLLING_BACK">>,
                  <<"VERIFYING", "ROLLING_BACK">>}
  BY DEF Advances
<1>2. /\ j[row].state \in ForwardStates /\ j[row].state \notin FinishedStates
      /\ j[row].state # "FAILED" /\ to \notin FinishedStates
  BY <1>1 DEF FinishedStates, ForwardStates
<1>3. row \in UnfinishedRows(j) /\ row \in UnfinishedRows(k)
  BY <1>1, <1>2 DEF UnfinishedRows, Moves, Writes
<1>4. row \notin UndoableRows(j, j[row].component) /\ row \notin UndoableRows(k, j[row].component)
  BY <1>1, <1>2 DEF UndoableRows, ForwardStates, Moves, Writes, FinishedStates
<1>5. k[row].component = j[row].component /\ k[row].snapshot = j[row].snapshot
  BY <1>1 DEF Moves, Writes
<1>6. InForce(k, f, j[row].component) = InForce(j, f, j[row].component)
  <2>1. InForce(j, f, j[row].component) = j[row].snapshot
    BY <1>3, <1>4, InForceFacts DEF RecordOK
  <2>2. InForce(k, f, j[row].component) = k[row].snapshot
    BY <1>3, <1>4, <1>5, InForceFacts
  <2> QED
    BY <1>5, <2>1, <2>2
<1> QED
  BY <1>1, <1>2, <1>3, <1>4, <1>6, EvenMoveHistory

\* Nothing is in flight after the only operation in flight has ended.
LEMMA NothingFlies ==
    ASSUME NEW j \in Seq(Entries), NEW k, NEW row, NEW to \in FinishedStates, NEW detail, NEW c,
           Moves(j, k, row, to, detail), AtMostOne(j), row \in UnfinishedRows(j)
    PROVE  ~Flying(k, c)
  BY MovedDecisions DEF AtMostOne, Flying

\* An operation that ends before it is applied leaves every history as it is.
LEMMA UnappliedHistory ==
    ASSUME NEW j \in Seq(Entries), NEW k \in Seq(Entries), NEW f, NEW p, NEW rs, NEW row, NEW c,
           EndsUnapplied(j, k, row), RecordOK(j, f, p, rs)
    PROVE  HistoryOf(k, f, c) = HistoryOf(j, f, c)
<1>1. /\ Moves(j, k, row, "FAILED", "not_applied") /\ j[row].state \in {"PREPARED", "VALIDATED"}
      /\ j[row].state \notin FinishedStates /\ "FAILED" \in FinishedStates
  BY DEF EndsUnapplied, FinishedStates
<1>2. row \in UnfinishedRows(j)
  BY <1>1 DEF UnfinishedRows, Moves, Writes
<1>3. row \notin UndoableRows(j, j[row].component) /\ row \notin UndoableRows(k, j[row].component)
  BY <1>1 DEF UndoableRows, Moves, Writes
<1>4. InForce(j, f, j[row].component) = j[row].snapshot /\ f[j[row].component] = j[row].snapshot
  BY <1>1, <1>2, <1>3, InForceFacts DEF RecordOK, UnfinishedOK
<1>5. InForce(k, f, j[row].component) = f[j[row].component]
  BY <1>1, <1>2, NothingFlies, InForceFacts DEF RecordOK
<1> QED
  BY <1>1, <1>2, <1>3, <1>4, <1>5, EvenMoveHistory

\* A rollback that has only been recorded: the candidate is in force until it is
\* complete.
LEMMA ReopenHistory ==
    ASSUME NEW j \in Seq(Entries), NEW k \in Seq(Entries), NEW f, NEW p, NEW rs, NEW row, NEW c,
           Reopens(j, k, f, row), RecordOK(j, f, p, rs), AtMostOne(k)
    PROVE  HistoryOf(k, f, c) = HistoryOf(j, f, c)
<1>1. /\ Moves(j, k, row, "ROLLING_BACK", "operator_requested") /\ j[row].state = "COMMITTED"
      /\ "ROLLING_BACK" \notin FinishedStates /\ UnfinishedRows(j) = {}
      /\ f[j[row].component] = j[row].candidate
  BY DEF Reopens, IsLatestCommitted, FinishedStates
<1>2. row \in UndoableRows(j, j[row].component) /\ row \in UndoableRows(k, j[row].component)
  BY <1>1 DEF UndoableRows, Moves, Writes
<1>3. InForce(j, f, j[row].component) = j[row].candidate
  BY <1>1, InForceFacts DEF Flying
<1>4. InForce(k, f, j[row].component) = j[row].candidate
  <2>1. row \in UnfinishedRows(k) /\ k[row].component = j[row].component /\ k[row].candidate = j[row].candidate
    BY <1>1 DEF UnfinishedRows, Moves, Writes
  <2> QED
    BY <1>2, <2>1, InForceFacts
<1> QED
  BY <1>1, <1>2, <1>3, <1>4, EvenMoveHistory

\* A new operation changes nothing yet.
LEMMA BeginHistory ==
    ASSUME NEW j \in Seq(Entries), NEW k \in Seq(Entries), NEW f, NEW r \in Requests, NEW c,
           Begins(j, k, f, r), AtMostOne(k)
    PROVE  HistoryOf(k, f, c) = HistoryOf(j, f, c)
<1> DEFINE n == Len(k)
           m == Len(j)
<1>1. /\ n = m + 1 /\ m \in Nat /\ DOMAIN j = 1..m /\ DOMAIN k = 1..n
      /\ \A i \in DOMAIN j : k[i] = j[i]
      /\ k[n].component = r.component /\ k[n].state = "PREPARED" /\ k[n].detail = "none"
      /\ k[n].damage = "none" /\ k[n].snapshot = f[r.component]
      /\ UnfinishedRows(k) = {n} /\ UnfinishedRows(j) = {}
  <2>1. UnfinishedRows(j) = {}
    BY DEF Begins
  <2> QED
    BY <2>1, BegunJournal
<1> HIDE DEF n, m
<1>2. n \notin UndoableRows(k, c) /\ ~LosesTrack(k, c, n)
  BY <1>1 DEF UndoableRows, LosesTrack
<1>3. Below(k, c)[m] = Below(j, c)[m]
  <2>1. \A i \in 1..m : CountsAlike(j, k, c, i)
    BY <1>1 DEF CountsAlike, UndoableRows, LosesTrack
  <2>2. m \in 0..Len(j) /\ m \in 0..Len(k)
    BY <1>1 DEF m, n
  <2> QED
    BY <1>1, <2>1, <2>2, BelowAgrees
<1>4. Below(k, c)[n] = Stacked(k, c, n, Below(j, c)[m])
  <2>1. n \in 1..Len(k) /\ n - 1 = m
    BY <1>1 DEF n
  <2> QED
    BY <1>3, <2>1, BelowClimbs
<1>5. Below(j, c)[m] \in Levels
  BY <1>1, BelowIsTyped DEF m
<1>6. Below(k, c)[n].stack = Below(j, c)[m].stack /\ Below(k, c)[n].lost = Below(j, c)[m].lost
  BY <1>2, <1>4, <1>5 DEF Stacked, Levels
<1>7. InForce(k, f, c) = InForce(j, f, c)
  <2>1. InForce(j, f, c) = f[c]
    BY <1>1, InForceFacts DEF Flying
  <2>2. CASE c = r.component
    BY <1>1, <1>2, <2>1, <2>2, InForceFacts
  <2>3. CASE c # r.component
    BY <1>1, <2>1, <2>3, InForceFacts DEF Flying
  <2> QED
    BY <2>2, <2>3
<1> QED
  BY <1>6, <1>7 DEF HistoryOf, n, m

\* A commit puts the candidate on top.
LEMMA CommitHistory ==
    ASSUME NEW j \in Seq(Entries), NEW k \in Seq(Entries), NEW f, NEW p, NEW rs, NEW row,
           Commits(j, k, f, p, row), RecordOK(j, f, p, rs)
    PROVE  HistoryOf(k, f, j[row].component) =
               Append(HistoryOf(j, f, j[row].component), j[row].candidate)
<1> DEFINE c == j[row].component
           b == Below(j, c)[row - 1]
<1>1. /\ Moves(j, k, row, "COMMITTED", "none") /\ j[row].state = "VERIFYING"
      /\ j[row].state \notin FinishedStates /\ "COMMITTED" \in FinishedStates
      /\ Runs(f, p, c, j[row].candidate)
  BY DEF Commits, FinishedStates
<1>2. row \in UnfinishedRows(j) /\ row \in DOMAIN j
  BY <1>1 DEF UnfinishedRows, Moves, Writes
<1>3. row = Len(j) /\ Len(k) = Len(j) /\ row \in 1..Len(j) /\ row - 1 \in 0..Len(j)
  BY <1>1, <1>2 DEF RecordOK, UnfinishedOK, ForwardStates, Moves, Writes
<1>4. row \notin UndoableRows(j, c) /\ row \in UndoableRows(k, c)
  BY <1>1, <1>2 DEF UndoableRows, Moves, Writes
<1>5. ~LosesTrack(j, c, row)
  BY <1>1, <1>2 DEF RecordOK, DetailOK, LosesTrack, Moves
<1>6. Below(k, c)[row - 1] = b
  <2>1. \A n \in 1..(row - 1) : CountsAlike(j, k, c, n)
    BY <1>1, <1>3 DEF Moves, Writes, CountsAlike, UndoableRows, LosesTrack
  <2> QED
    BY <1>3, <2>1, BelowAgrees
<1>7. b \in Levels
  BY <1>3, BelowIsTyped
<1>8. Below(j, c)[row] = Stacked(j, c, row, b) /\ Below(k, c)[row] = Stacked(k, c, row, b)
  BY <1>3, <1>6, BelowClimbs
<1>9. InForce(j, f, c) = j[row].snapshot
  BY <1>2, <1>4, InForceFacts DEF RecordOK
<1>10. InForce(k, f, c) = j[row].candidate
  BY <1>1, <1>2, NothingFlies, InForceFacts DEF RecordOK, Runs
<1>11. k[row].snapshot = j[row].snapshot
  BY <1>1 DEF Moves, Writes
<1> HIDE DEF b, c
<1>12. HistoryOf(j, f, c) = Append(b.stack, IF b.lost THEN Unknown ELSE j[row].snapshot)
  BY <1>3, <1>4, <1>5, <1>7, <1>8, <1>9 DEF HistoryOf, Stacked, Levels
<1>13. HistoryOf(k, f, c) = Append(Append(b.stack, IF b.lost THEN Unknown ELSE j[row].snapshot), j[row].candidate)
  BY <1>3, <1>4, <1>7, <1>8, <1>10, <1>11 DEF HistoryOf, Stacked, Levels
<1> QED
  BY <1>12, <1>13 DEF c

\* Above an operation in flight nothing can be undone.
LEMMA NothingUndoableAbove ==
    ASSUME NEW j \in Seq(Entries), NEW f, NEW p, NEW rs, NEW row \in UnfinishedRows(j),
           RecordOK(j, f, p, rs), NEW n \in DOMAIN j, n > row, NEW c
    PROVE  n \notin UndoableRows(j, c)
<1>1. row \in DOMAIN j
  BY DEF UnfinishedRows
<1>2. ~(n < row) /\ n # row
  BY <1>1
<1>3. j[n].state # "COMMITTED"
  BY <1>1, <1>2 DEF RecordOK, UnfinishedOK
<1>4. n \notin UnfinishedRows(j)
  BY <1>2 DEF RecordOK, AtMostOne
<1> QED
  BY <1>3, <1>4 DEF UndoableRows, UnfinishedRows, FinishedStates

\* An entry after row loses track.
LostAfter(j, c, row) == \E n \in (row + 1)..Len(j) : LosesTrack(j, c, n)

\* The history of one component changes.
OneChanges(j, k, f, c, history) ==
    /\ HistoryOf(k, f, c) = history
    /\ \A d \in Components \ {c} : HistoryOf(k, f, d) = HistoryOf(j, f, d)

\* A restore has returned to the configuration below, or lost one.
UndoneOrLost(j, k, f, c) ==
    LET h == HistoryOf(j, f, c)
    IN  \/ Len(h) > 1 /\ OneChanges(j, k, f, c, Atomic!Front(h))
        \/ \E kept \in {h, Atomic!Front(h)} :
               /\ kept # << >>
               /\ OneChanges(j, k, f, c, Append(Atomic!Front(kept), Unknown))

\* The end of a restore, or its being misled (lost), by what is below the
\* operation: `level` is what its earlier entries leave, `later` whether a later
\* one loses track.
LEMMA RestoreRefines ==
    ASSUME NEW j \in Seq(Entries), NEW k \in Seq(Entries), NEW f, NEW p, NEW rs,
           NEW row \in UnfinishedRows(j), NEW lost \in BOOLEAN, RecordOK(j, f, p, rs),
           DOMAIN k = DOMAIN j, k[row].component = j[row].component,
           \A r \in DOMAIN j \ {row} : k[r] = j[r],
           UnfinishedRows(k) \subseteq {row},
           row \notin UndoableRows(k, j[row].component),
           LosesTrack(k, j[row].component, row) <=> lost,
           lost \/ /\ ~LosesTrack(j, j[row].component, row)
                   /\ InForce(k, f, j[row].component) = j[row].snapshot
    PROVE  \/ \A d \in Components : HistoryOf(k, f, d) = HistoryOf(j, f, d)
           \/ UndoneOrLost(j, k, f, j[row].component)
<1> DEFINE c == j[row].component
           level == Below(j, c)[row - 1]
           under == IF level.lost THEN Unknown ELSE j[row].snapshot
           later == LostAfter(j, c, row)
           h == HistoryOf(j, f, c)
           X == Files \cup {Unknown}
<1>1. row \in DOMAIN j /\ Len(k) = Len(j) /\ Len(j) \in Nat /\ j[row] \in Entries
  BY DEF UnfinishedRows
<1>2. /\ row \in 1..Len(j) /\ row - 1 \in 0..Len(j) /\ row \in 0..Len(j)
      /\ row \in 0..Len(k) /\ row \in 1..Len(k)
  BY <1>1
<1>3. row \notin UndoableRows(k, c)
  OBVIOUS
<1>4. ASSUME NEW n \in (row + 1)..Len(j)
      PROVE  /\ n \notin UndoableRows(j, c) /\ n \notin UndoableRows(k, c)
             /\ LosesTrack(k, c, n) <=> LosesTrack(j, c, n)
  <2>1. n \in DOMAIN j /\ n > row /\ n # row
    BY <1>2
  <2>2. n \notin UndoableRows(j, c)
    BY <1>2, <2>1, NothingUndoableAbove
  <2>3. k[n] = j[n] /\ DOMAIN k = DOMAIN j
    BY <2>1
  <2> QED
    BY <2>2, <2>3 DEF UndoableRows, LosesTrack
<1>5. Below(k, c)[row - 1] = level
  <2>1. ASSUME NEW n \in 1..(row - 1)
        PROVE  CountsAlike(j, k, c, n)
    <3>1. n \in DOMAIN j /\ n # row /\ k[n] = j[n] /\ DOMAIN k = DOMAIN j
      BY <1>1, <1>2
    <3> QED
      BY <3>1 DEF CountsAlike, UndoableRows, LosesTrack
  <2>2. PICK m : m = row - 1
    OBVIOUS
  <2>3. PICK d : d = c
    OBVIOUS
  <2>4. m \in 0..Len(j) /\ m \in 0..Len(k)
    BY <1>1, <1>2, <2>2
  <2>5. \A n \in 1..m : CountsAlike(j, k, d, n)
    BY <2>1, <2>2, <2>3
  <2>6. Below(k, d)[m] = Below(j, d)[m]
    BY <2>4, <2>5, BelowAgrees
  <2> QED
    BY <2>2, <2>3, <2>6
<1>6. level \in Levels
  BY <1>2, BelowIsTyped
<1>7. Below(j, c)[row] = Stacked(j, c, row, level) /\ Below(k, c)[row] = Stacked(k, c, row, level)
  BY <1>2, <1>5, BelowClimbs
<1>8. (LosesTrack(k, c, row) <=> lost) /\ (lost \/ ~LosesTrack(j, c, row))
  OBVIOUS
<1> HIDE DEF level, under, later, c, h, X
<1>9. /\ Below(j, c)[Len(j)].stack = Below(j, c)[row].stack
      /\ Below(j, c)[Len(j)].lost <=> Below(j, c)[row].lost \/ later
  <2>1. \A n \in (row + 1)..Len(j) : n \notin UndoableRows(j, c)
    BY <1>1, <1>2, <1>4
  <2> QED
    BY <1>2, <2>1, BelowIsFlat DEF later, LostAfter
<1>10. /\ Below(k, c)[Len(j)].stack = Below(k, c)[row].stack
       /\ Below(k, c)[Len(j)].lost <=> Below(k, c)[row].lost \/ later
  <2>1. \A n \in (row + 1)..Len(k) : n \notin UndoableRows(k, c)
    BY <1>1, <1>2, <1>4
  <2>2. /\ Below(k, c)[Len(k)].stack = Below(k, c)[row].stack
        /\ Below(k, c)[Len(k)].lost <=>
               \/ Below(k, c)[row].lost
               \/ \E n \in (row + 1)..Len(k) : LosesTrack(k, c, n)
    BY <1>2, <2>1, BelowIsFlat
  <2> QED
    BY <1>1, <1>2, <1>4, <2>2 DEF later, LostAfter
<1>11. InForce(j, f, c) = IF row \in UndoableRows(j, c) THEN j[row].candidate ELSE j[row].snapshot
  BY <1>2, InForceFacts DEF RecordOK, c
<1>12. lost \/ InForce(k, f, c) = j[row].snapshot
  BY DEF c
<1>13. j[row].snapshot \in Files /\ j[row].candidate \in Files /\ c \in Components
  BY <1>1 DEF Entries, c
<1>14. HistoryOf(k, f, c) =
          Append(level.stack, IF level.lost \/ later \/ lost THEN Unknown ELSE j[row].snapshot)
  <2>1. /\ Below(k, c)[row].stack = level.stack
        /\ Below(k, c)[row].lost = (level.lost \/ LosesTrack(k, c, row))
    BY <1>7, <1>3 DEF Stacked
  <2>2. Below(k, c)[row].stack = level.stack /\ (Below(k, c)[row].lost <=> level.lost \/ lost)
    BY <1>6, <1>8, <2>1 DEF Levels
  <2>3. /\ Below(k, c)[Len(k)].stack = level.stack
        /\ Below(k, c)[Len(k)].lost <=> level.lost \/ later \/ lost
    BY <1>1, <1>10, <2>2
  <2> QED
    BY <1>12, <2>3 DEF HistoryOf
<1>15. h = IF row \in UndoableRows(j, c)
          THEN Append(Append(level.stack, under), IF later THEN Unknown ELSE j[row].candidate)
          ELSE Append(level.stack, IF level.lost \/ LosesTrack(j, c, row) \/ later
                                   THEN Unknown ELSE j[row].snapshot)
  <2>1. CASE row \in UndoableRows(j, c)
    <3>1. /\ Below(j, c)[row].stack = Append(level.stack, under)
          /\ Below(j, c)[row].lost = FALSE
      BY <1>7, <2>1 DEF Stacked, under
    <3> QED
      BY <1>9, <1>11, <2>1, <3>1 DEF HistoryOf, h
  <2>2. CASE row \notin UndoableRows(j, c)
    <3>1. /\ Below(j, c)[row].stack = level.stack
          /\ Below(j, c)[row].lost = (level.lost \/ LosesTrack(j, c, row))
      BY <1>7, <2>2 DEF Stacked
    <3>2. /\ Below(j, c)[row].stack = level.stack
          /\ Below(j, c)[row].lost <=> level.lost \/ LosesTrack(j, c, row)
      BY <1>6, <3>1 DEF Levels
    <3> QED
      BY <1>9, <1>11, <2>2, <3>2 DEF HistoryOf, h
  <2> QED
    BY <2>1, <2>2
<1>16. ASSUME NEW d \in Components \ {c} PROVE HistoryOf(k, f, d) = HistoryOf(j, f, d)
  <2>1. \A n \in DOMAIN j : CountsAlike(j, k, d, n)
    BY DEF CountsAlike, UndoableRows, LosesTrack, c
  <2>2. ~Flying(j, d) /\ ~Flying(k, d)
    BY DEF RecordOK, AtMostOne, Flying, c
  <2>3. InForce(k, f, d) = InForce(j, f, d)
    BY <2>2, InForceFacts
  <2> QED
    BY <1>1, <2>1, <2>3, HistoryAgrees
<1>17. /\ level.stack \in Seq(X) /\ under \in X
       /\ (IF later THEN Unknown ELSE j[row].candidate) \in X
       /\ (IF level.lost \/ LosesTrack(j, c, row) \/ later THEN Unknown ELSE j[row].snapshot) \in X
  BY <1>6, <1>13 DEF Levels, X, under
<1>18. CASE row \in UndoableRows(j, c)
  <2> DEFINE s == Append(level.stack, under)
  <2>1. s \in Seq(X)
    BY <1>17
  <2>2. /\ Atomic!Front(h) = s /\ Len(h) = Len(s) + 1
        /\ Atomic!Front(s) = level.stack /\ Len(s) = Len(level.stack) + 1 /\ s # << >>
    <3>1. PICK x : x = IF later THEN Unknown ELSE j[row].candidate
      OBVIOUS
    <3>2. PICK below : below = level.stack
      OBVIOUS
    <3>3. x \in X /\ below \in Seq(X) /\ under \in X
      BY <1>17, <3>1, <3>2
    <3>4. h = Append(s, x) /\ s = Append(below, under)
      BY <1>15, <1>18, <3>1, <3>2
    <3>5. Atomic!Front(s) = below /\ Len(s) = Len(below) + 1 /\ s # << >>
      BY <3>3, <3>4, FrontOfAppend
    <3> HIDE DEF s
    <3>6. Atomic!Front(h) = s /\ Len(h) = Len(s) + 1
      BY <2>1, <3>3, <3>4, FrontOfAppend
    <3> QED
      BY <3>2, <3>5, <3>6
  <2>3. Len(h) > 1
    BY <1>17, <2>2
  <2>4. CASE ~lost /\ (level.lost \/ ~later)
    <3>1. HistoryOf(k, f, c) = s
      BY <1>14, <2>4 DEF under
    <3>2. OneChanges(j, k, f, c, Atomic!Front(h))
      BY <1>16, <2>2, <3>1 DEF OneChanges
    <3> QED
      BY <2>3, <3>2 DEF UndoneOrLost, h, c
  <2>5. CASE ~(~lost /\ (level.lost \/ ~later))
    <3>1. HistoryOf(k, f, c) = Append(Atomic!Front(s), Unknown)
      BY <1>14, <2>2, <2>5
    <3>2. s \in {h, Atomic!Front(h)} /\ s # << >>
      BY <2>2
    <3> HIDE DEF s
    <3>3. OneChanges(j, k, f, c, Append(Atomic!Front(s), Unknown))
      BY <1>16, <3>1 DEF OneChanges
    <3> QED
      BY <3>2, <3>3 DEF UndoneOrLost, h, c
  <2> QED
    BY <2>4, <2>5
<1>19. CASE row \notin UndoableRows(j, c)
  <2>1. Atomic!Front(h) = level.stack /\ h # << >>
    BY <1>15, <1>17, <1>19, FrontOfAppend
  <2>2. CASE ~lost
    <3>1. HistoryOf(k, f, c) = h
      BY <1>8, <1>14, <1>15, <1>19, <2>2
    <3> QED
      BY <1>16, <3>1 DEF h
  <2>3. CASE lost
    <3>1. HistoryOf(k, f, c) = Append(Atomic!Front(h), Unknown)
      BY <1>14, <2>1, <2>3
    <3>2. OneChanges(j, k, f, c, Append(Atomic!Front(h), Unknown))
      BY <1>16, <3>1 DEF OneChanges
    <3> QED
      BY <2>1, <3>2 DEF UndoneOrLost, h, c
  <2> QED
    BY <2>2, <2>3
<1> QED
  BY <1>18, <1>19

-------------------------------------------------------------------------------
(* Every step implements a step of AtomicConfiguration.                    *)

\* What the journal does is nothing, an apply, an undo or a loss.
LEMMA JournalMoveRefines ==
    ASSUME NEW j \in Seq(Entries), NEW k \in Seq(Entries), NEW f, NEW p, NEW rs \in SUBSET Requests,
           JournalMoves(j, k, f, p, rs), RecordOK(j, f, p, rs), AtMostOne(k)
    PROVE  \/ \A c \in Components : HistoryOf(k, f, c) = HistoryOf(j, f, c)
           \/ \E c \in Components :
                  LET h == HistoryOf(j, f, c)
                  IN  \/ \E r \in rs : /\ r.component = c
                                       /\ OneChanges(j, k, f, c, Append(h, r.candidate))
                      \/ Len(h) > 1 /\ OneChanges(j, k, f, c, Atomic!Front(h))
                      \/ \E kept \in {h, Atomic!Front(h)} :
                             /\ kept # << >>
                             /\ OneChanges(j, k, f, c, Append(Atomic!Front(kept), Unknown))
<1>1. ASSUME NEW r \in rs, Begins(j, k, f, r)
      PROVE  \A c \in Components : HistoryOf(k, f, c) = HistoryOf(j, f, c)
  BY <1>1, BeginHistory
<1>2. ASSUME NEW row \in DOMAIN j, Advances(j, k, row) \/ EndsUnapplied(j, k, row) \/ Reopens(j, k, f, row)
      PROVE  \A c \in Components : HistoryOf(k, f, c) = HistoryOf(j, f, c)
  BY <1>2, AdvanceHistory, UnappliedHistory, ReopenHistory
<1>3. \A row \in DOMAIN j : j[row].component \in Components
  <2>1. \A row \in DOMAIN j : j[row] \in Entries
    OBVIOUS
  <2> QED
    BY <2>1 DEF Entries
<1>4. ASSUME NEW row \in DOMAIN j, Commits(j, k, f, p, row)
      PROVE  \E r \in rs : /\ r.component = j[row].component
                           /\ OneChanges(j, k, f, j[row].component,
                                         Append(HistoryOf(j, f, j[row].component), r.candidate))
  <2>1. PICK r \in rs : r.component = j[row].component /\ r.candidate = j[row].candidate
    BY DEF RecordOK, RowsAreReviewed
  <2>2. HistoryOf(k, f, j[row].component) = Append(HistoryOf(j, f, j[row].component), r.candidate)
    BY <1>4, <2>1, CommitHistory
  <2>3. Moves(j, k, row, "COMMITTED", "none") /\ row \in UnfinishedRows(j)
    BY <1>4 DEF Commits, UnfinishedRows, FinishedStates
  <2>4. \A d \in Components \ {j[row].component} : HistoryOf(k, f, d) = HistoryOf(j, f, d)
    BY <2>3, OtherHistory
  <2> QED
    BY <2>1, <2>2, <2>4 DEF OneChanges
<1>5. ASSUME NEW row \in DOMAIN j, Reverts(j, k, f, p, row) \/ Strays(j, k, row)
      PROVE  \/ \A d \in Components : HistoryOf(k, f, d) = HistoryOf(j, f, d)
             \/ UndoneOrLost(j, k, f, j[row].component)
  <2> DEFINE c == j[row].component
  <2>1. CASE Reverts(j, k, f, p, row)
    <3>1. PICK detail \in {"operator_requested", "interrupted"} :
              Moves(j, k, row, "ROLLED_BACK", detail)
      BY <2>1 DEF Reverts
    <3>2. /\ row \in UnfinishedRows(j) /\ j[row].state = "ROLLING_BACK"
          /\ f[c] = j[row].snapshot /\ "ROLLED_BACK" \in FinishedStates
      BY <2>1 DEF Reverts, Runs, UnfinishedRows, FinishedStates
    <3>3. /\ DOMAIN k = DOMAIN j /\ k[row].component = c /\ k[row].state = "ROLLED_BACK"
          /\ k[row].detail # "rollback_failed" /\ k[row].damage # "legacy"
          /\ j[row].damage # "legacy" /\ \A r \in DOMAIN j \ {row} : k[r] = j[r]
      BY <3>1 DEF Moves, Writes
    <3>4. ~LosesTrack(j, c, row) /\ ~LosesTrack(k, c, row) /\ row \notin UndoableRows(k, c)
      BY <3>2, <3>3 DEF LosesTrack, UndoableRows, RecordOK, DetailOK
    <3>5. UnfinishedRows(k) = {} /\ InForce(k, f, c) = f[c]
      BY <3>2, <3>3, InForceFacts DEF UnfinishedRows, Flying, RecordOK, AtMostOne
    <3>6. PICK lost \in BOOLEAN : ~lost
      OBVIOUS
    <3> QED
      BY <3>2, <3>3, <3>4, <3>5, <3>6, RestoreRefines
  <2>2. CASE Strays(j, k, row)
    <3>1. /\ DOMAIN k = DOMAIN j /\ k[row].component = c /\ row \in UnfinishedRows(j)
          /\ \A r \in DOMAIN j \ {row} : k[r] = j[r]
      BY <2>2 DEF Strays
    <3>2. LosesTrack(k, c, row)
      BY <2>2 DEF Strays, LosesTrack
    <3>3. row \notin UndoableRows(k, c)
      BY <2>2 DEF Strays, UndoableRows
    <3>4. UnfinishedRows(k) \subseteq {row}
      BY <3>1 DEF UnfinishedRows, RecordOK, AtMostOne
    <3>5. PICK lost \in BOOLEAN : lost
      OBVIOUS
    <3> QED
      BY <3>1, <3>2, <3>3, <3>4, <3>5, RestoreRefines
  <2> QED
    BY <1>5, <2>1, <2>2
<1> QED
  BY <1>1, <1>2, <1>3, <1>4, <1>5 DEF JournalMoves, UndoneOrLost

History == [c \in Components |-> HistoryOf(journal, file, c)]
Proposals == {<<r.component, r.candidate>> : r \in requests}

\* Only a review proposes anything.
LEMMA RequestsGrowByReviews ==
    ASSUME HInv, [Next]_vars
    PROVE  \/ requests' = requests
           \/ \E c \in Components, id \in Ids : Review(id, c)
<1>1. CASE Next
  <2>1. ASSUME NEW c \in Components, NEW content \in Files, EditDesired(c, content)
        PROVE  requests' = requests
    BY <2>1 DEF EditDesired
  <2> QED
    BY <1>1, <2>1, WorkHasEffect, ArrivalHasEffect, EnvironmentHasEffect DEF Next
<1>2. CASE UNCHANGED vars
  BY <1>2 DEF vars
<1> QED
  BY <1>1, <1>2

\* The initial state maps to the initial state.
LEMMA RefinesInit == Init => Atomic!Init
<1> SUFFICES ASSUME Init PROVE Atomic!Init
  OBVIOUS
<1>1. journal = << >> /\ journal \in Seq(Entries) /\ Len(journal) = 0 /\ requests = {}
  BY DEF Init
<1>2. ASSUME NEW c \in Components PROVE HistoryOf(journal, file, c) = <<Absent>>
  <2>1. InForce(journal, file, c) = Absent
    <3>1. ~Flying(journal, c)
      BY <1>1 DEF Flying, UnfinishedRows
    <3> QED
      BY <3>1, InForceFacts DEF Init
  <2>2. Below(journal, c)[0] = Ground
    BY <1>1, BelowClimbs
  <2>3. Ground \in Levels /\ Ground.stack = << >> /\ ~Ground.lost
    BY DEF Ground, Levels
  <2>4. HistoryOf(journal, file, c) = Append(<< >>, Absent)
    BY <1>1, <2>1, <2>2, <2>3 DEF HistoryOf
  <2> QED
    BY <2>4
<1> QED
  BY <1>1, <1>2 DEF Atomic!Init

\* Every step maps to a step or to a stutter.
LEMMA RefinesNext == HInv /\ HInv' /\ [Next]_vars => [Atomic!Next]_(Atomic!vars)
<1> SUFFICES ASSUME HInv, HInv', [Next]_vars PROVE [Atomic!Next]_(Atomic!vars)
  OBVIOUS
<1>1. /\ journal \in Seq(Entries) /\ journal' \in Seq(Entries) /\ requests \in SUBSET Requests
      /\ RecordOK(journal, file, proc, requests) /\ AtMostOne(journal') /\ Effect
      /\ desired \in [Components -> Files]
  <2>1. AtMostOne(journal')
    BY DEF HInv, RecordOK
  <2> QED
    BY <2>1, NextHasEffect DEF HInv, IInv, TypeOK
<1>2. History = [c \in Components |-> HistoryOf(journal, file, c)]
  BY DEF History
<1>3. History' = [c \in Components |-> HistoryOf(journal', file', c)]
  BY DEF History
<1>4. CASE \E c \in Components, id \in Ids : Review(id, c)
  <2>1. PICK c \in Components, id \in Ids : Review(id, c)
    BY <1>4
  <2>2. /\ History' = History
        /\ Proposals' = Proposals \cup {<<c, desired[c]>>}
    <3>1. /\ journal' = journal /\ file' = file
          /\ requests' = requests \cup {[id |-> id, component |-> c, base |-> file[c],
                                            candidate |-> desired[c]]}
      BY <2>1 DEF Review, host
    <3> DEFINE new == [id |-> id, component |-> c, base |-> file[c], candidate |-> desired[c]]
    <3>2. ASSUME NEW x PROVE x \in Proposals' <=> x \in Proposals \cup {<<c, desired[c]>>}
      <4>1. x \in Proposals' <=> \E r \in requests' : x = <<r.component, r.candidate>>
        BY DEF Proposals
      <4>2. x \in Proposals <=> \E r \in requests : x = <<r.component, r.candidate>>
        BY DEF Proposals
      <4>3. new.component = c /\ new.candidate = desired[c] /\ requests' = requests \cup {new}
        BY <3>1
      <4> HIDE DEF new
      <4> QED
        BY <4>1, <4>2, <4>3
    <3> QED
      BY <3>1, <3>2 DEF History, Proposals
  <2>3. PICK content \in Files : content = desired[c]
    BY <1>1
  <2>4. Atomic!Propose(c, content)
    BY <2>2, <2>3 DEF Atomic!Propose, History, Proposals
  <2>5. Atomic!Next
    BY <2>1, <2>3, <2>4 DEF Atomic!Next
  <2> QED
    BY <2>5
<1>5. CASE requests' = requests
  <2>1. Proposals' = Proposals
    BY <1>5 DEF Proposals
  <2>2. CASE SameRecord(journal, journal') /\ file' = file
    <3>1. History' = History
      BY <1>1, <1>2, <1>3, <2>2, SameRecordHistory
    <3> QED
      BY <2>1, <3>1 DEF Atomic!vars, History, Proposals
  <2>3. CASE journal' = journal /\ \E row \in DOMAIN journal : Works(journal, file, proc, file', proc', row)
    <3>1. \A c \in Components : HistoryOf(journal, file', c) = HistoryOf(journal, file, c)
      BY <1>1, <2>3, WorkHistory
    <3>2. History' = History
      BY <1>2, <1>3, <2>3, <3>1
    <3> QED
      BY <2>1, <3>2 DEF Atomic!vars, History, Proposals
  <2>4. CASE JournalMoves(journal, journal', file, proc, requests) /\ UNCHANGED <<file, proc>>
    <3>1. \/ \A c \in Components : HistoryOf(journal', file, c) = HistoryOf(journal, file, c)
          \/ \E c \in Components :
                 LET h == HistoryOf(journal, file, c)
                 IN  \/ \E r \in requests :
                            /\ r.component = c
                            /\ OneChanges(journal, journal', file, c, Append(h, r.candidate))
                     \/ Len(h) > 1 /\ OneChanges(journal, journal', file, c, Atomic!Front(h))
                     \/ \E kept \in {h, Atomic!Front(h)} :
                            /\ kept # << >>
                            /\ OneChanges(journal, journal', file, c, Append(Atomic!Front(kept), Unknown))
      BY <1>1, <2>4, JournalMoveRefines
    <3>2. CASE \A c \in Components : HistoryOf(journal', file, c) = HistoryOf(journal, file, c)
      <4>1. History' = History
        BY <1>2, <1>3, <2>4, <3>2
      <4> QED
        BY <2>1, <4>1 DEF Atomic!vars, History, Proposals
    <3>3. ASSUME NEW c \in Components, NEW history, OneChanges(journal, journal', file, c, history)
          PROVE  History' = [History EXCEPT ![c] = history]
      BY <1>2, <1>3, <2>4, <3>3 DEF OneChanges
    <3>4. \A c \in Components : History[c] = HistoryOf(journal, file, c)
      BY <1>2
    <3>5. ASSUME NEW c \in Components, NEW r \in requests, r.component = c,
                 OneChanges(journal, journal', file, c, Append(HistoryOf(journal, file, c), r.candidate))
          PROVE  Atomic!Next
      <4>1. History' = [History EXCEPT ![c] = Append(History[c], r.candidate)]
        BY <3>3, <3>4, <3>5
      <4>2. <<c, r.candidate>> \in Proposals /\ r.candidate \in Files
        BY <1>1, <3>5 DEF Proposals, Requests
      <4>3. Atomic!Apply(c, r.candidate)
        BY <2>1, <4>1, <4>2 DEF Atomic!Apply, History, Proposals
      <4> QED
        BY <4>2, <4>3 DEF Atomic!Next
    <3>6. ASSUME NEW c \in Components, Len(HistoryOf(journal, file, c)) > 1,
                 OneChanges(journal, journal', file, c, Atomic!Front(HistoryOf(journal, file, c)))
          PROVE  Atomic!Next
      <4>1. Len(History[c]) > 1 /\ History' = [History EXCEPT ![c] = Atomic!Front(History[c])]
        BY <3>3, <3>4, <3>6
      <4>2. Atomic!Undo(c)
        BY <2>1, <4>1 DEF Atomic!Undo, History, Proposals
      <4> QED
        BY <4>2 DEF Atomic!Next
    <3>7. ASSUME NEW c \in Components,
                 NEW kept \in {HistoryOf(journal, file, c), Atomic!Front(HistoryOf(journal, file, c))},
                 kept # << >>,
                 OneChanges(journal, journal', file, c, Append(Atomic!Front(kept), Unknown))
          PROVE  Atomic!Next
      <4>1. /\ kept \in {History[c], Atomic!Front(History[c])}
            /\ History' = [History EXCEPT ![c] = Append(Atomic!Front(kept), Unknown)]
        BY <3>3, <3>4, <3>7
      <4>2. Atomic!Lose(c)
        BY <2>1, <3>7, <4>1 DEF Atomic!Lose, History, Proposals
      <4> QED
        BY <4>2 DEF Atomic!Next
    <3> QED
      BY <3>1, <3>2, <3>5, <3>6, <3>7
  <2> QED
    BY <1>1, <2>2, <2>3, <2>4 DEF Effect
<1> QED
  BY <1>4, <1>5, RequestsGrowByReviews

\* The daemon with its journal, its failures, its crashes and its recoveries
\* implements AtomicConfiguration: a configuration is applied and undone as a
\* whole, and only a restore that gives up, or one that a damaged snapshot of the
\* legacy format misleads, loses track of the one in force.
THEOREM ConfigurationIsAtomic == Spec => AppliesAreAtomic
<1>1. Init => Atomic!Init
  BY RefinesInit
<1>2. HInv /\ HInv' /\ [Next]_vars => [Atomic!Next]_(Atomic!vars)
  BY RefinesNext
<1> QED
  BY <1>1, <1>2, HostInvariantHolds, PTL DEF Spec, AppliesAreAtomic, Atomic!Spec

===============================================================================
