---------------------------- MODULE HostTransaction ----------------------------
(***************************************************************************)
(* The transactional core of the privileged daemon egressd: the mutation   *)
(* lock and the gate in front of every ordinary mutation, the journaled    *)
(* executors of the components that are one owned configuration file and   *)
(* one service (sing-box, the Xray listener relay and HAProxy), manual     *)
(* rollback of a committed operation, and the recovery coordinator that    *)
(* runs at daemon start and on request.                                    *)
(*                                                                         *)
(* Every step that the daemon can be killed in front of is an action:      *)
(* one journal write, one file replacement, one service command.           *)
(***************************************************************************)
EXTENDS OperationJournal

CONSTANTS
    Components,      \* the managed file-and-service components
    Adapter,         \* Adapter[c]: which executor drives component c
    RecoveryOrder,   \* the coordinator's sequence of components
    Contents,        \* configurations that can be reviewed
    Absent,          \* the owned file does not exist
    Stopped,         \* the owned service does not run
    Ids,             \* transaction ids the clients may choose
    Handlers,        \* concurrent IPC handler goroutines
    Main,            \* the goroutine that runs startup recovery
    Nobody,          \* the lock is free
    NoRequest,       \* the task serves no reviewed request
    Unknown,         \* of the refinement: what a failed restore has left behind
    MaxFaults,       \* bound on environment faults in a behaviour
    MaxCrashes       \* bound on daemon crashes in a behaviour

Adapters == {"singbox", "haproxy", "xray_relay"}
Files == Contents \cup {Absent}
Processes == Contents \cup {Stopped}
Actors == Handlers \cup {Main}
Requests == [id : Ids, component : Components, base : Files, candidate : Files]

\* What has happened to the stored documents of an entry: nothing; damage that its
\* recovery does not come across ("candidate"); a snapshot that cannot be opened;
\* or an HAProxy snapshot that reads as a plaintext document of the legacy format.
Damages == {"none", "candidate", "unreadable", "legacy"}

Entries == [id : Ids, component : Components, state : TransactionStates,
            snapshot : Files, candidate : Files, detail : Details, damage : Damages]

ASSUME ConstantsAssumption ==
    /\ Adapter \in [Components -> Adapters]
    /\ RecoveryOrder \in Seq(Components)
    /\ Absent \notin Contents /\ Stopped \notin Contents
    /\ Main \notin Handlers /\ Nobody \notin Actors
    /\ NoRequest \notin Requests
    /\ MaxFaults \in Nat /\ MaxCrashes \in Nat

VARIABLES
    phase,      \* "down", "startup" (recovery before serving) or "serving"
    tracker,    \* reliability.Tracker: outcome of the last recovery of this process
    lock,       \* holder of the host mutation lock, or Nobody
    task,       \* task[a]: what actor a is executing
    journal,    \* the durable operation journal
    file,       \* file[c]: content of the owned configuration file
    proc,       \* proc[c]: configuration the service runs, or Stopped
    desired,    \* desired[c]: candidate the database rows render to
    requests,   \* reviewed apply requests; a client may deliver one many times
    faults,     \* environment faults so far
    crashes,    \* daemon crashes so far
    unrestored  \* history: components whose restore failed inside a recovery run
                \* and that no later operation has restored or replaced

vars == <<phase, tracker, lock, task, journal, file, proc, desired, requests,
          faults, crashes, unrestored>>

Steps ==
    {"idle", "gate", "begin", "validate", "mark_validated", "mark_applying",
     "install", "activate", "mark_verifying", "verify", "commit",
     "roll_back", "restore_file", "restore_service", "restore_verify",
     "mark_rolling_back", "mark_rolled_back", "mark_failed", "component", "next_operation",
     "mark_interrupted", "journal_check"}

Tasks ==
    [kind : {"none", "apply", "rollback", "recovery"}, step : Steps,
     request : Requests \cup {NoRequest}, row : Nat,
     from : TransactionStates, position : Nat, queue : SUBSET Nat, erred : BOOLEAN]

IdleTask == [kind |-> "none", step |-> "idle", request |-> NoRequest, row |-> 0,
             from |-> "PREPARED", position |-> 1, queue |-> {}, erred |-> FALSE]

TypeOK ==
    /\ phase \in {"down", "startup", "serving"}
    /\ tracker \in {"none", "succeeded", "failed"}
    /\ lock \in Actors \cup {Nobody}
    /\ task \in [Actors -> Tasks]
    /\ journal \in Seq(Entries)
    /\ file \in [Components -> Files]
    /\ proc \in [Components -> Processes]
    /\ desired \in [Components -> Files]
    /\ requests \subseteq Requests
    /\ faults \in 0..MaxFaults
    /\ crashes \in 0..MaxCrashes
    /\ unrestored \subseteq Components

Init ==
    /\ phase = "down"
    /\ tracker = "none"
    /\ lock = Nobody
    /\ task = [a \in Actors |-> IdleTask]
    /\ journal = << >>
    /\ file = [c \in Components |-> Absent]
    /\ proc = [c \in Components |-> Stopped]
    /\ desired \in [Components -> Contents]
    /\ requests = {}
    /\ faults = 0
    /\ crashes = 0
    /\ unrestored = {}

-------------------------------------------------------------------------------
(* Helpers of the steps.                                                   *)

host == <<file, proc>>
client == <<desired, requests>>
process == <<phase, tracker>>

Fault == faults < MaxFaults /\ faults' = faults + 1

Entry(a) == journal[task[a].row]
Component(a) == Entry(a).component

Goto(a, step) ==
    /\ task' = [task EXCEPT ![a].step = step]
    /\ UNCHANGED lock

\* The deferred Release of withMutationLock: the task ends and the lock is free.
Release(a) ==
    /\ task' = [task EXCEPT ![a] = IdleTask]
    /\ lock' = Nobody

\* Faulty variant: the error path of a handler forgets to release the lock.
ReturnKeepingLock(a, ok) ==
    IF task[a].kind = "recovery"
    THEN /\ task' = [task EXCEPT ![a].step = "next_operation",
                                 ![a].erred = @ \/ ~ok]
         /\ UNCHANGED lock
    ELSE /\ task' = [task EXCEPT ![a] = IdleTask]
         /\ lock' = IF ok THEN Nobody ELSE lock

\* An executor returns.  Under recovery the coordinator's loop goes on with the
\* next operation and remembers an error; otherwise the handler answers.
Return(a, ok) ==
    IF task[a].kind = "recovery"
    THEN /\ task' = [task EXCEPT ![a].step = "next_operation",
                                 ![a].erred = @ \/ ~ok]
         /\ UNCHANGED lock
    ELSE Release(a)

Proceed(a, step) ==
    CASE step = "succeed" -> Return(a, TRUE)
      [] step = "fail"    -> Return(a, FALSE)
      [] OTHER            -> Goto(a, step)

\* Continue at `step` with the operation left in state `from`.
ProceedFrom(a, step, from) ==
    IF step = "fail" THEN Return(a, FALSE)
    ELSE /\ task' = [task EXCEPT ![a].step = step, ![a].from = from]
         /\ UNCHANGED lock

\* One TransitionOperation.  It succeeds, or it conflicts because the stored
\* state is another, or the statement reports an error whether or not SQLite
\* committed it.
Transition(a, from, to, detail, onSuccess, onError) ==
    LET row == task[a].row
        written == Transitioned(journal, row, from, to, detail)
    IN  \/ /\ TransitionApplies(journal, row, from, to)
           /\ journal' = written
           /\ Proceed(a, onSuccess)
           /\ UNCHANGED faults
        \/ /\ ~TransitionApplies(journal, row, from, to)
           /\ UNCHANGED <<journal, faults>>
           /\ ProceedFrom(a, onError, from)
        \/ /\ Fault
           /\ journal' \in {journal, written}
           /\ ProceedFrom(a, onError, from)

-------------------------------------------------------------------------------
(* Clients: desired state, reviews, requests.                              *)

\* A database edit made through the web API; only the relay's candidate may be
\* the absence of a configuration.
EditDesired(c, content) ==
    /\ phase = "serving"
    /\ content # desired[c]
    /\ content # Absent \/ Adapter[c] = "xray_relay"
    /\ desired' = [desired EXCEPT ![c] = content]
    /\ UNCHANGED <<process, lock, task, journal, host, requests, faults, crashes, unrestored>>

\* A Plan request: the operator reviews the change from the current file to the
\* rendered candidate, and keeps an apply request under a new transaction id.
Review(id, c) ==
    /\ phase = "serving"
    /\ \A r \in requests : r.id # id
    /\ requests' = requests \cup
           {[id |-> id, component |-> c, base |-> file[c], candidate |-> desired[c]]}
    /\ UNCHANGED <<process, lock, task, journal, host, desired, faults, crashes, unrestored>>

\* withMutationLock: TryAcquire succeeds only on a free lock; a busy lock is an
\* error answer that changes nothing.
TakeLock(a, kind, step, request) ==
    /\ lock = Nobody
    /\ task[a].kind = "none"
    /\ lock' = a
    /\ task' = [task EXCEPT ![a] = [IdleTask EXCEPT !.kind = kind, !.step = step,
                                                    !.request = request]]

\* An apply request is delivered: late, out of order, or once more.
ReceiveApply(h, request) ==
    /\ phase = "serving"
    /\ TakeLock(h, "apply", "gate", request)
    /\ UNCHANGED <<process, journal, host, client, faults, crashes, unrestored>>

ReceiveRollback(h) ==
    /\ phase = "serving"
    /\ TakeLock(h, "rollback", "gate", NoRequest)
    /\ UNCHANGED <<process, journal, host, client, faults, crashes, unrestored>>

\* egressctl recover: under the lock, but not behind the gate.
ReceiveRecovery(h) ==
    /\ phase = "serving"
    /\ TakeLock(h, "recovery", "component", NoRequest)
    /\ UNCHANGED <<process, journal, host, client, faults, crashes, unrestored>>

\* Faulty variant: readiness alone opens the gate.
GateIsOpenWhenReady == tracker = "succeeded"

\* The mutate closure of the daemon (and the same two checks of the rollback
\* handler): recovery has succeeded and the journal has no unfinished operation.
GateIsOpen == tracker = "succeeded" /\ UnfinishedRows(journal) = {}

Gate(a) ==
    /\ task[a].step = "gate"
    /\ IF GateIsOpen THEN Goto(a, "begin") ELSE Release(a)
    /\ UNCHANGED <<process, journal, host, client, faults, crashes, unrestored>>

-------------------------------------------------------------------------------
(* Execute: one apply, from the journal entry to its commit.               *)

\* Faulty variant: the hash of the reviewed state is not compared.
CandidateIsCurrent(r) ==
    \/ Adapter[r.component] = "haproxy"
    \/ desired[r.component] = r.candidate

\* The reviewed hashes against the plan rebuilt under the lock.  The HAProxy
\* request carries its frontends and no hash, so nothing is compared.
PlanIsCurrent(r) ==
    \/ Adapter[r.component] = "haproxy"
    \/ file[r.component] = r.base /\ desired[r.component] = r.candidate

\* Inspect the owned file, compare it with the plan, journal the operation.
BeginApply(a) ==
    LET r == task[a].request
        created == Created(journal, r.id, r.component, file[r.component], r.candidate)
    IN  /\ task[a].kind = "apply" /\ task[a].step = "begin"
        /\ \/ /\ PlanIsCurrent(r) /\ IdIsFree(journal, r.id)
              /\ journal' = created
              /\ task' = [task EXCEPT ![a].step = "validate", ![a].row = Len(created)]
              /\ UNCHANGED <<lock, faults>>
           \/ /\ ~(PlanIsCurrent(r) /\ IdIsFree(journal, r.id))
              /\ Release(a)
              /\ UNCHANGED <<journal, faults>>
           \/ /\ PlanIsCurrent(r) /\ IdIsFree(journal, r.id)
              /\ Fault                       \* the INSERT reports an error
              /\ journal' \in {journal, created}
              /\ Release(a)
        /\ UNCHANGED <<process, host, client, crashes, unrestored>>

\* Native validation of the candidate in a temporary file.
ValidateCandidate(a) ==
    /\ task[a].step = "validate"
    /\ \/ Goto(a, "mark_validated")
       \/ ProceedFrom(a, "mark_failed", "PREPARED")
    /\ UNCHANGED <<process, journal, host, client, faults, crashes, unrestored>>

\* Faulty variant: the file is replaced before APPLYING is recorded.
MarkValidatedAndInstall(a) ==
    /\ task[a].step = "mark_validated"
    /\ Transition(a, "PREPARED", "VALIDATED", "none", "install", "fail")
    /\ UNCHANGED <<process, host, client, crashes, unrestored>>

\* A failed transition to VALIDATED returns and leaves the entry as it is.
MarkValidated(a) ==
    /\ task[a].step = "mark_validated"
    /\ Transition(a, "PREPARED", "VALIDATED", "none", "mark_applying", "fail")
    /\ UNCHANGED <<process, host, client, crashes, unrestored>>

\* The relay inspects its file again, HAProxy reads its PID file: either may
\* give up with FAILED.  Then the entry becomes APPLYING.
MarkApplying(a) ==
    /\ task[a].step = "mark_applying"
    /\ \/ /\ Adapter[Component(a)] = "xray_relay" => file[Component(a)] = Entry(a).snapshot
          /\ Transition(a, "VALIDATED", "APPLYING", "none", "install", "mark_failed")
       \/ /\ Adapter[Component(a)] \in {"xray_relay", "haproxy"}
          /\ Fault                           \* the inspection itself fails
          /\ ProceedFrom(a, "mark_failed", "VALIDATED")
          /\ UNCHANGED journal
    /\ UNCHANGED <<process, host, client, crashes, unrestored>>

\* Faulty variant: an error of the replacement is taken for "nothing replaced".
InstallOrGiveUp(a) ==
    LET c == Component(a)
        installed == [file EXCEPT ![c] = Entry(a).candidate]
    IN  /\ task[a].step = "install"
        /\ \/ /\ file' = installed
              /\ Goto(a, "activate")
              /\ UNCHANGED faults
           \/ /\ Fault
              /\ file' \in {file, installed}
              /\ ProceedFrom(a, "mark_failed", "APPLYING")
        /\ UNCHANGED <<process, journal, proc, client, crashes, unrestored>>

\* rename and directory sync: the error may come before or after the rename.
Install(a) ==
    LET c == Component(a)
        installed == [file EXCEPT ![c] = Entry(a).candidate]
    IN  /\ task[a].step = "install"
        /\ \/ /\ file' = installed
              /\ Goto(a, "activate")
              /\ UNCHANGED faults
           \/ /\ Fault
              /\ file' \in {file, installed}
              /\ ProceedFrom(a, "roll_back", "APPLYING")
        /\ UNCHANGED <<process, journal, proc, client, crashes, unrestored>>

\* Faulty variant: removing the configuration does not stop the service.
ServiceKeptAfter(content) == content

\* What a service command leaves behind when it succeeds, and when it does not
\* (it fails or is cut off by its timeout).
ServiceAfter(content) == IF content = Absent THEN Stopped ELSE content

\* systemctl restart (or stop): a failed restart may have stopped the old
\* process, or have started the new one all the same.
SystemdLeftovers(c, content) == {proc[c], Stopped, ServiceAfter(content)}

\* haproxy -sf <old pid>: a failed reload leaves the old master serving, or the
\* new one when only the command timed out.
HAProxyLeftovers(c, content) == {proc[c], ServiceAfter(content)}

CommandService(a, c, content, onSuccess, OnError) ==
    \/ /\ proc' = [proc EXCEPT ![c] = ServiceAfter(content)]
       /\ Goto(a, onSuccess)
       /\ UNCHANGED <<faults, unrestored>>
    \/ /\ Fault
       /\ \E left \in IF Adapter[c] = "haproxy" THEN HAProxyLeftovers(c, content)
                                               ELSE SystemdLeftovers(c, content) :
              proc' = [proc EXCEPT ![c] = left]
       /\ OnError

Activate(a) ==
    /\ task[a].step = "activate"
    /\ CommandService(a, Component(a), Entry(a).candidate, "mark_verifying",
                      /\ ProceedFrom(a, "roll_back", "APPLYING")
                      /\ UNCHANGED unrestored)
    /\ UNCHANGED <<process, journal, file, client, crashes>>

MarkVerifying(a) ==
    /\ task[a].step = "mark_verifying"
    /\ Transition(a, "APPLYING", "VERIFYING", "none", "verify", "roll_back")
    /\ UNCHANGED <<process, host, client, crashes, unrestored>>

\* verify: the service answers; only the relay also compares the file with what
\* it expects and wants an absent configuration to mean an inactive service.
Verified(c, expected) ==
    IF Adapter[c] = "xray_relay"
    THEN file[c] = expected /\ (expected = Absent <=> proc[c] = Stopped)
    ELSE proc[c] # Stopped

Verify(a) ==
    /\ task[a].step = "verify"
    /\ \/ /\ Verified(Component(a), Entry(a).candidate)
          /\ Goto(a, "commit")
          /\ UNCHANGED faults
       \/ /\ ~Verified(Component(a), Entry(a).candidate)
          /\ ProceedFrom(a, "roll_back", "VERIFYING")
          /\ UNCHANGED faults
       \/ /\ Fault                           \* the check itself fails or times out
          /\ ProceedFrom(a, "roll_back", "VERIFYING")
    /\ UNCHANGED <<process, journal, host, client, crashes, unrestored>>

\* History: an operation on the component has finished with a known outcome.
Settle(a) ==
    unrestored' = unrestored \
        {c \in {Component(a)} : journal'[task[a].row].state \in {"COMMITTED", "ROLLED_BACK"}}

Commit(a) ==
    /\ task[a].step = "commit"
    /\ Transition(a, "VERIFYING", "COMMITTED", "none", "succeed", "roll_back")
    /\ Settle(a)
    /\ UNCHANGED <<process, host, client, crashes>>

\* The best-effort transition to FAILED whose error is ignored.
MarkFailed(a) ==
    /\ task[a].step = "mark_failed"
    /\ Transition(a, task[a].from, "FAILED",
                  IF task[a].from = "ROLLING_BACK" THEN "rollback_failed" ELSE "not_applied",
                  "fail", "fail")
    /\ UNCHANGED <<process, host, client, crashes, unrestored>>

-------------------------------------------------------------------------------
(* rollback and restore, shared by a failing apply, recovery and rollback. *)

RollBack(a) ==
    /\ task[a].step = "roll_back"
    /\ Transition(a, task[a].from, "ROLLING_BACK", "interrupted", "restore_file", "fail")
    /\ UNCHANGED <<process, host, client, crashes, unrestored>>

\* A restore that fails: manual rollback leaves ROLLING_BACK for recovery; a
\* failing apply and recovery itself finish the operation as FAILED.
RestoreError(a) ==
    IF task[a].kind = "rollback"
    THEN Return(a, FALSE) /\ UNCHANGED unrestored
    ELSE /\ ProceedFrom(a, "mark_failed", "ROLLING_BACK")
         /\ unrestored' = IF task[a].kind = "recovery"
                          THEN unrestored \cup {Component(a)} ELSE unrestored

\* Native check of the snapshot, then rename over (or removal of) the file.
RestoreFile(a) ==
    LET c == Component(a)
        restored == [file EXCEPT ![c] = Entry(a).snapshot]
    IN  /\ task[a].step = "restore_file"
        /\ \/ /\ file' = restored
              /\ Goto(a, "restore_service")
              /\ UNCHANGED <<faults, unrestored>>
           \/ /\ Fault
              /\ file' \in {file, restored}
              /\ RestoreError(a)
        /\ UNCHANGED <<process, journal, proc, client, crashes>>

\* Without a previous file only the relay verifies that its service is inactive.
AfterRestoredService(a) ==
    IF Entry(a).snapshot = Absent /\ Adapter[Component(a)] # "xray_relay"
    THEN "mark_rolled_back" ELSE "restore_verify"

\* Removing a first HAProxy configuration kills the PID of the PID file, which
\* fails when that process is already gone and the PID file is not.
StalePID(a) ==
    /\ Adapter[Component(a)] = "haproxy"
    /\ Entry(a).snapshot = Absent
    /\ proc[Component(a)] = Stopped

RestoreService(a) ==
    /\ task[a].step = "restore_service"
    /\ \/ CommandService(a, Component(a), Entry(a).snapshot, AfterRestoredService(a),
                         RestoreError(a))
       \/ /\ StalePID(a)
          /\ RestoreError(a)
          /\ UNCHANGED <<proc, faults>>
    /\ UNCHANGED <<process, journal, file, client, crashes>>

RestoreVerify(a) ==
    /\ task[a].step = "restore_verify"
    /\ \/ /\ Verified(Component(a), Entry(a).snapshot)
          /\ Goto(a, "mark_rolled_back")
          /\ UNCHANGED <<faults, unrestored>>
       \/ /\ ~Verified(Component(a), Entry(a).snapshot)
          /\ RestoreError(a)
          /\ UNCHANGED faults
       \/ Fault /\ RestoreError(a)
    /\ UNCHANGED <<process, journal, host, client, crashes>>

MarkRolledBack(a) ==
    /\ task[a].step = "mark_rolled_back"
    /\ Transition(a, "ROLLING_BACK", "ROLLED_BACK",
                  IF task[a].kind = "rollback" THEN "operator_requested" ELSE "interrupted",
                  "succeed", "fail")
    /\ Settle(a)
    /\ UNCHANGED <<process, host, client, crashes>>

-------------------------------------------------------------------------------
(* RollbackCommitted: the operator's rollback of the newest commit.        *)

\* Both documents authenticate, the owned file still is the candidate and the
\* service passes its verification.
MayRollBack(row) ==
    LET c == journal[row].component
    IN  /\ journal[row].damage = "none"
        /\ file[c] = journal[row].candidate
        /\ Verified(c, journal[row].candidate)

BeginRollback(a) ==
    /\ task[a].kind = "rollback" /\ task[a].step = "begin"
    /\ \/ \E row \in DOMAIN journal :
              /\ IsLatestCommitted(journal, row)
              /\ MayRollBack(row)
              /\ task' = [task EXCEPT ![a].step = "mark_rolling_back", ![a].row = row]
              /\ UNCHANGED <<lock, faults>>
       \/ /\ ~\E row \in DOMAIN journal : IsLatestCommitted(journal, row) /\ MayRollBack(row)
          /\ Release(a)
          /\ UNCHANGED faults
       \/ Fault /\ Release(a)
    /\ UNCHANGED <<process, journal, host, client, crashes, unrestored>>

MarkRollingBack(a) ==
    /\ task[a].step = "mark_rolling_back"
    /\ Transition(a, "COMMITTED", "ROLLING_BACK", "operator_requested", "restore_file", "fail")
    /\ UNCHANGED <<process, host, client, crashes, unrestored>>

-------------------------------------------------------------------------------
(* The recovery coordinator and the Recover method of each executor.       *)

\* Coordinator.Run ends; the outcome is recorded while the lock is still held,
\* and after a startup run the daemon begins to serve either way.
EndRecovery(a, outcome) ==
    /\ tracker' = outcome
    /\ phase' = "serving"
    /\ Release(a)

\* Faulty variant: operations that already are rolling back are passed over.
RecoverComponentOnce(a) ==
    /\ task[a].step = "component"
    /\ \/ /\ task' = [task EXCEPT ![a].step = "next_operation", ![a].erred = FALSE,
                                  ![a].queue = {row \in UnfinishedRows(journal) :
                                      /\ journal[row].component = RecoveryOrder[task[a].position]
                                      /\ journal[row].state # "ROLLING_BACK"}]
          /\ UNCHANGED <<lock, faults, process>>
       \/ Fault /\ EndRecovery(a, "failed")
    /\ UNCHANGED <<journal, host, client, crashes, unrestored>>

\* A component's Recover reads the unfinished operations once.
RecoverComponent(a) ==
    /\ task[a].step = "component"
    /\ \/ /\ task' = [task EXCEPT ![a].step = "next_operation", ![a].erred = FALSE,
                                  ![a].queue = {row \in UnfinishedRows(journal) :
                                      journal[row].component = RecoveryOrder[task[a].position]}]
          /\ UNCHANGED <<lock, faults, process>>
       \/ Fault /\ EndRecovery(a, "failed")
    /\ UNCHANGED <<journal, host, client, crashes, unrestored>>

\* Faulty variant: an operation that was applying is taken for one not applied.
RecoveryStepUnlessVerifying(state) ==
    CASE state \in {"PREPARED", "VALIDATED", "APPLYING"} -> "mark_interrupted"
      [] state = "VERIFYING"                             -> "roll_back"
      [] state = "ROLLING_BACK"                          -> "restore_file"

\* How Recover treats one operation, by the state it was read in.
RecoveryStep(state) ==
    CASE state \in {"PREPARED", "VALIDATED"} -> "mark_interrupted"
      [] state \in {"APPLYING", "VERIFYING"} -> "roll_back"
      [] state = "ROLLING_BACK"              -> "restore_file"

\* Faulty variant: the snapshot is used without being authenticated.
NextOperationUnchecked(a) ==
    LET rows == task[a].queue
        row == CHOOSE r \in rows : \A other \in rows : r <= other
    IN  /\ task[a].step = "next_operation" /\ rows # {}
        /\ task' = [task EXCEPT ![a].queue = @ \ {row}, ![a].row = row,
                                ![a].from = journal[row].state,
                                ![a].step = RecoveryStep(journal[row].state)]
        /\ UNCHANGED <<process, lock, journal, host, client, faults, crashes, unrestored>>

\* The loop of Recover: an entry whose snapshot cannot be opened is an error and
\* stays as it is; the others are resolved in turn.  The candidate is not opened,
\* and openRecoverySnapshot of HAProxy takes a document that is no envelope for a
\* plaintext snapshot.
NextOperation(a) ==
    LET rows == task[a].queue
        row == CHOOSE r \in rows : \A other \in rows : r <= other
    IN  /\ task[a].step = "next_operation" /\ rows # {}
        /\ IF journal[row].damage # "unreadable"
           THEN task' = [task EXCEPT ![a].queue = @ \ {row}, ![a].row = row,
                                     ![a].from = journal[row].state,
                                     ![a].step = RecoveryStep(journal[row].state)]
           ELSE task' = [task EXCEPT ![a].queue = @ \ {row}, ![a].erred = TRUE]
        /\ UNCHANGED <<process, lock, journal, host, client, faults, crashes, unrestored>>

MarkInterrupted(a) ==
    /\ task[a].step = "mark_interrupted"
    /\ Transition(a, task[a].from, "FAILED", "not_applied", "succeed", "fail")
    /\ UNCHANGED <<process, host, client, crashes, unrestored>>

\* Coordinator.Run stops at the first component that reports an error.
NextComponent(a) ==
    /\ task[a].step = "next_operation" /\ task[a].queue = {}
    /\ \/ task[a].erred /\ EndRecovery(a, "failed")
       \/ /\ ~task[a].erred /\ task[a].position < Len(RecoveryOrder)
          /\ task' = [task EXCEPT ![a].position = @ + 1, ![a].step = "component"]
          /\ UNCHANGED <<process, lock>>
       \/ /\ ~task[a].erred /\ task[a].position >= Len(RecoveryOrder)
          /\ Goto(a, "journal_check")
          /\ UNCHANGED process
    /\ UNCHANGED <<journal, host, client, faults, crashes, unrestored>>

\* journal_check and journal_final, and the reconciliation steps between them,
\* which only fail or succeed here.
JournalCheck(a) ==
    /\ task[a].step = "journal_check"
    /\ \/ /\ UnfinishedRows(journal) = {}
          /\ EndRecovery(a, "succeeded") /\ UNCHANGED faults
       \/ /\ UnfinishedRows(journal) # {}
          /\ EndRecovery(a, "failed") /\ UNCHANGED faults
       \/ Fault /\ EndRecovery(a, "failed")
    /\ UNCHANGED <<journal, host, client, crashes, unrestored>>

-------------------------------------------------------------------------------
(* The daemon process and its environment.                                 *)

\* RunDaemon takes the lock for startup recovery before it serves any request.
Start ==
    /\ phase = "down"
    /\ phase' = "startup"
    /\ TakeLock(Main, "recovery", "component", NoRequest)
    /\ UNCHANGED <<tracker, journal, host, client, faults, crashes, unrestored>>

\* The daemon is killed, or told to stop (then every later journal write and
\* command of its tasks fails).  The kernel drops its lock.
Crash ==
    /\ phase # "down" /\ crashes < MaxCrashes
    /\ crashes' = crashes + 1
    /\ phase' = "down" /\ tracker' = "none" /\ lock' = Nobody
    /\ task' = [a \in Actors |-> IdleTask]
    /\ UNCHANGED <<journal, host, client, faults, unrestored>>

\* The host reboots while the daemon is down: only the relay's unit is enabled
\* at boot.
Reboot ==
    /\ phase = "down"
    /\ proc' = [c \in Components |->
                   IF Adapter[c] = "xray_relay" THEN ServiceAfter(file[c]) ELSE Stopped]
    /\ UNCHANGED <<process, lock, task, journal, file, client, faults, crashes, unrestored>>

ServiceDies(c) ==
    /\ proc[c] # Stopped /\ Fault
    /\ proc' = [proc EXCEPT ![c] = Stopped]
    /\ UNCHANGED <<process, lock, task, journal, file, client, crashes, unrestored>>

\* Restart=on-failure of the two systemd units.
SystemdRestarts(c) ==
    /\ Adapter[c] # "haproxy" /\ proc[c] = Stopped /\ file[c] # Absent
    /\ proc' = [proc EXCEPT ![c] = file[c]]
    /\ UNCHANGED <<process, lock, task, journal, file, client, faults, crashes, unrestored>>

\* Stored journal bytes are damaged, once per entry at most: the candidate, a
\* snapshot beyond reading, or a snapshot of HAProxy that then decodes as a
\* plaintext document ({} is one: no previous file).  The last matters only while
\* a restore may still use it; otherwise it counts as the first kind.
Tamper(row) ==
    /\ phase = "down" /\ journal[row].damage = "none" /\ Fault
    /\ \/ \E damage \in {"candidate", "unreadable"} :
              journal' = [journal EXCEPT ![row].damage = damage]
       \/ /\ Adapter[journal[row].component] = "haproxy"
          /\ journal[row].state \in {"APPLYING", "VERIFYING", "ROLLING_BACK"}
          /\ \E content \in Files :
                 journal' = [journal EXCEPT ![row].damage = "legacy", ![row].snapshot = content]
    /\ UNCHANGED <<process, lock, task, host, client, crashes, unrestored>>

\* What a goroutine of the running daemon does next, once it holds a task.
Work(a) ==
    \/ Gate(a) \/ BeginApply(a) \/ ValidateCandidate(a) \/ MarkValidated(a)
    \/ MarkApplying(a) \/ Install(a) \/ Activate(a) \/ MarkVerifying(a)
    \/ Verify(a) \/ Commit(a) \/ MarkFailed(a) \/ RollBack(a)
    \/ RestoreFile(a) \/ RestoreService(a) \/ RestoreVerify(a) \/ MarkRolledBack(a)
    \/ BeginRollback(a) \/ MarkRollingBack(a)
    \/ RecoverComponent(a) \/ NextOperation(a) \/ MarkInterrupted(a)
    \/ NextComponent(a) \/ JournalCheck(a)

Receive(h) ==
    \/ \E request \in requests : ReceiveApply(h, request)
    \/ ReceiveRollback(h)
    \/ ReceiveRecovery(h)

Environment ==
    \/ Crash \/ Reboot
    \/ \E c \in Components : ServiceDies(c) \/ SystemdRestarts(c)
    \/ \E row \in DOMAIN journal : Tamper(row)

Next ==
    \/ Start
    \/ \E a \in Actors : Work(a)
    \/ \E h \in Handlers : Receive(h)
    \/ \E c \in Components, content \in Files : EditDesired(c, content)
    \/ \E c \in Components, id \in Ids : Review(id, c)
    \/ Environment

\* A started task is scheduled, systemd starts the daemon again, and an
\* operator keeps asking for recovery although the lock may be busy.
Fairness ==
    /\ \A a \in Actors : WF_vars(Work(a))
    /\ WF_vars(Start)
    /\ SF_vars(\E h \in Handlers : ReceiveRecovery(h))

Spec == Init /\ [][Next]_vars /\ Fairness

-------------------------------------------------------------------------------
(* Safety.                                                                 *)

\* At most one operation is unfinished, whatever handlers, retries, crashes and
\* failing journal writes do: the lock and the gate together serialize the
\* operations of all components.
AtMostOneUnfinished ==
    \A first, second \in UnfinishedRows(journal) : first = second

\* Operations that decide what the host of component c should hold: commits,
\* restores that gave up, and restores from a snapshot taken for a legacy one.
DecidingRows(c) ==
    {row \in DOMAIN journal :
        /\ journal[row].component = c
        /\ \/ journal[row].state = "COMMITTED"
           \/ journal[row].detail = "rollback_failed"
           \/ journal[row].damage = "legacy"}

InFlight(c) == \E row \in UnfinishedRows(journal) : journal[row].component = c

\* Whenever no operation of a component is in flight, its file holds the
\* candidate of its newest committed operation (nothing, if there is none) and
\* its service runs that file or does not run at all.  Rolled back, refused,
\* crashed and recovered operations leave no trace.  Only a restore that failed
\* (rollback_failed) or that followed a damaged snapshot of the legacy format
\* suspends the promise, until the next commit.
SettledHostMatchesJournal ==
    \A c \in Components :
        InFlight(c) \/
        LET rows == DecidingRows(c)
            newest == CHOOSE r \in rows : \A other \in rows : other <= r
            lost == rows # {} /\ journal[newest].state # "COMMITTED"
        IN  \/ lost
            \/ /\ file[c] = IF rows = {} THEN Absent ELSE journal[newest].candidate
               /\ proc[c] \in {Stopped, file[c]}

\* What an operation replaces and installs is what the operator reviewed under
\* that transaction id, even if other operators applied, rolled back or edited
\* in between and the request arrives late.
OnlyReviewedStateIsReplaced(component) ==
    \A row \in DOMAIN journal, r \in requests :
        (journal[row].id = r.id /\ r.component = component) =>
            journal[row].snapshot = r.base /\ journal[row].candidate = r.candidate

\* The promise holds for the components whose apply request carries its hashes.
NoStaleApply ==
    \A c \in Components : Adapter[c] # "haproxy" => OnlyReviewedStateIsReplaced(c)

\* A request delivered twice runs at most once, also when a rollback in between
\* has restored the very state it was reviewed against.
RequestRunsOnce ==
    \A first, second \in DOMAIN journal :
        journal[first].id = journal[second].id => first = second

\* While an operation with a damaged document is unfinished the daemon is not
\* ready, whatever else recovery resolves and whichever document it is
\* (specs/011-reliability-recovery/spec.md:44, "must never be ignored").
DamagedJournalKeepsGateClosed ==
    \A row \in DOMAIN journal :
        journal[row].damage # "none" /\ journal[row].state \notin FinishedStates
            => tracker # "succeeded"

\* What the executors keep of "must never be ignored, executed, or silently
\* replaced" (the same line): no step of any actor touches an operation whose
\* snapshot cannot be opened, nor a finished operation with a damaged document of
\* any kind, which a manual rollback would have to open.  They do not keep the
\* rest: recovery resolves an unfinished operation whose candidate is damaged, and
\* restores from an HAProxy snapshot that reads as one of the legacy format.
DamagedOperationIsFrozen ==
    [][\A row \in DOMAIN journal :
           \/ journal[row].damage = "unreadable"
           \/ journal[row].damage # "none" /\ journal[row].state \in FinishedStates
           => journal'[row] = journal[row]]_vars

\* An owned file changes only while an operation of that component is durably
\* recorded as applying or rolling back, so that a crash right after the change
\* finds the snapshot.
JournaledBeforeMutation ==
    [][\A c \in Components : file[c]' # file[c] =>
           \E row \in UnfinishedRows(journal) :
               /\ journal[row].component = c
               /\ journal[row].state \in {"APPLYING", "ROLLING_BACK"}]_vars

\* "Failed recovery cannot silently enable ordinary network mutation"
\* (docs/adr/0002-degraded-recovery.md:26): no operation starts while some
\* component still is as a failed restore of a recovery run left it.
FailedRecoveryKeepsGateClosed ==
    [][Len(journal') > Len(journal) => unrestored = {}]_vars

-------------------------------------------------------------------------------
(* Liveness.                                                               *)

\* The mutation lock is always given back.
LockIsReleased == \A a \in Actors : lock = a ~> lock # a

\* An interrupted operation does not block the host for ever: if its snapshot can
\* be opened, a persistent operator gets the gate open again.
RecoveryConverges ==
    UnfinishedRows(journal) # {} ~>
        \/ GateIsOpen
        \/ \E row \in UnfinishedRows(journal) : journal[row].damage = "unreadable"

-------------------------------------------------------------------------------
(* Refinement of AtomicConfiguration.  While an operation is in flight the  *)
(* configuration in force is the one a restore would return to; otherwise  *)
(* it is what the file holds.                                              *)

UndoableRows(j, c) ==
    {row \in DOMAIN j :
        /\ j[row].component = c /\ j[row].damage # "legacy"
        /\ \/ j[row].state = "COMMITTED"
           \/ j[row].state = "ROLLING_BACK" /\ j[row].detail = "operator_requested"}

LosesTrack(j, c, row) ==
    /\ j[row].component = c
    /\ j[row].detail = "rollback_failed" \/ j[row].damage = "legacy"

InForce(j, f, c) ==
    LET flying == {row \in UnfinishedRows(j) : j[row].component = c}
        row == CHOOSE r \in flying : TRUE
    IN  IF flying = {} THEN f[c]
        ELSE IF row \in UndoableRows(j, c) THEN j[row].candidate
        ELSE j[row].snapshot

\* One configuration under each undoable operation and the one in force on top;
\* a restore that gave up, or whose snapshot became another that still decodes,
\* makes the next of them unknown.
Stacked(j, c, row, below) ==
    IF row \in UndoableRows(j, c)
    THEN [stack |-> Append(below.stack, IF below.lost THEN Unknown ELSE j[row].snapshot),
          lost |-> FALSE]
    ELSE [stack |-> below.stack, lost |-> below.lost \/ LosesTrack(j, c, row)]

Below(j, c) ==
    LET B[n \in 0..Len(j)] == IF n = 0 THEN [stack |-> << >>, lost |-> FALSE]
                              ELSE Stacked(j, c, n, B[n - 1])
    IN  B

HistoryOf(j, f, c) ==
    LET all == Below(j, c)[Len(j)]
    IN  Append(all.stack, IF all.lost THEN Unknown ELSE InForce(j, f, c))

Atomic ==
    INSTANCE AtomicConfiguration
    WITH history <- [c \in Components |-> HistoryOf(journal, file, c)],
         proposals <- {<<r.component, r.candidate>> : r \in requests}

\* Every behaviour of the daemon, crashes and recoveries included, is one of the
\* abstract specification: applies and rollbacks are atomic, and what is lost is
\* lost only by a restore that gave up or by a damaged legacy snapshot.
AppliesAreAtomic == Atomic!Spec

===============================================================================
