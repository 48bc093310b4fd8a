--------------------------- MODULE RouteEngineProofs ---------------------------
(***************************************************************************)
(* Safety of RouteEngine for every set of routes and documents and every   *)
(* number of operations, recovery runs, faults and crashes.                *)
(*                                                                         *)
(* Six invariants are stacked.  FlowInv says that a task finds its row in  *)
(* the state it believes in, and FinishInv what a recovery run has seen    *)
(* when it ends.  BypassInv says what the marker stands for; it holds      *)
(* until an operation overtakes an unfinished one.  HostInv says which     *)
(* documents the files, the leak-control table and the policy rules can    *)
(* hold, by the journal and by the step the task has reached; CommitInv    *)
(* says which document the newest commit left applied, and ReadyInv what   *)
(* is in force when the daemon is ready.  These three hold until, besides, *)
(* a restore gives up or an operation begins over half-applied routing.    *)
(* Each survives the death of the daemon, because its part about the       *)
(* record does not mention the task.                                       *)
(***************************************************************************)
EXTENDS RouteEngine, SequenceTheorems, FiniteSetTheorems, WellFoundedInduction, TLAPS

-------------------------------------------------------------------------------
(* The flow of a task.                                                     *)

MovingStates == {"APPLYING", "VERIFYING", "ROLLING_BACK"}
Moving(j) == {row \in DOMAIN j : j[row].state \in MovingStates}

ApplySteps == {"apply_nft", "install_singbox", "restart_singbox", "remove_previous",
               "add_ipv4", "add_ipv6", "write_policy", "remove_candidate",
               "restore_singbox", "restore_service"}
BypassSteps == {"activate_marker", "bypass_policy", "bypass_nft", "verify_bypass"}
RestoreSteps == {"restore_nft", "restore_ipv4", "restore_ipv6", "restore_file"}
MarkSteps == {"validate", "mark_applying", "mark_verifying", "commit", "roll_back",
              "mark_rolling_back", "mark_rolled_back", "mark_failed",
              "mark_interrupted", "mark_damaged"}

\* Steps that work on the entry task.row.
RowSteps == ApplySteps \cup BypassSteps \cup RestoreSteps \cup MarkSteps

\* The state a step leaves from; a failed statement may have left it already.
FromAt(step) ==
    CASE step = "validate"          -> {"PREPARED"}
      [] step = "mark_interrupted"  -> {"PREPARED", "VALIDATED"}
      [] step = "mark_applying"     -> {"VALIDATED"}
      [] step \in {"apply_nft", "install_singbox", "restart_singbox", "remove_previous",
                   "add_ipv4", "add_ipv6", "mark_verifying"} -> {"APPLYING"}
      [] step \in {"write_policy", "commit"}                 -> {"VERIFYING"}
      [] step \in {"activate_marker", "roll_back"}           -> {"APPLYING", "VERIFYING"}
      [] step \in {"bypass_policy", "bypass_nft", "mark_damaged"} -> MovingStates
      [] step = "verify_bypass"     -> {"VERIFYING", "ROLLING_BACK"}
      [] step = "mark_rolling_back" -> {"COMMITTED"}
      [] step = "mark_failed"       -> {"PREPARED", "VALIDATED", "ROLLING_BACK"}
      [] OTHER                      -> {"ROLLING_BACK"}

\* A task may take step on entry e from state from.
StepFits(step, from, e) ==
    /\ from \in FromAt(step)
    /\ step \notin {"roll_back", "mark_failed"} => e.state = from
    /\ step \in ApplySteps => e.component = "apply"
    /\ step \in BypassSteps => e.component = "bypass"

FlowOK(t, j) ==
    /\ t.queue \subseteq UnfinishedRows(j)
    /\ t.step \in {"next_operation", "reconcile", "deactivate_marker"} => t.run = "recovery"
    /\ t.step = "finish_recovery" => t.run \in {"recovery", "reconcile"}
    /\ t.step \in RowSteps =>
           t.row \in DOMAIN j \ t.queue /\ StepFits(t.step, t.from, j[t.row])

GaveUpDetails == {"rollback_failed", "snapshot_authentication_failed"}

\* A row that records a restore that gave up never moves again.
JournalOK(j) ==
    \A row \in DOMAIN j :
        /\ j[row].component = "apply" => j[row].candidate \in SUBSET Routes
        /\ j[row].detail \in GaveUpDetails => j[row].state = "FAILED"

FlowInv == TypeOK /\ JournalOK(journal) /\ FlowOK(task, journal)

-------------------------------------------------------------------------------
(* How the helpers of the steps end.                                       *)

\* Execute, Recover's treatment of one row, or RollbackCommitted has returned.
Returned(t, ok) ==
    IF t.run = "recovery" THEN [t EXCEPT !.step = "next_operation", !.erred = @ \/ ~ok]
    ELSE IF t.run = "reconcile" THEN [t EXCEPT !.step = "finish_recovery", !.erred = ~ok]
    ELSE IdleTask

After(t, outcome) ==
    IF outcome = "succeed" THEN Returned(t, TRUE)
    ELSE IF outcome = "fail" THEN Returned(t, FALSE)
    ELSE [t EXCEPT !.step = outcome]

\* A transition to state to has succeeded.
Arrived(t, outcome, to) ==
    IF outcome \in Steps THEN [t EXCEPT !.step = outcome, !.from = to] ELSE After(t, outcome)

Outcomes == Steps \cup {"succeed", "fail"}

\* An entry moves to another state and keeps everything else.
Moves(j, k, row, to, detail) ==
    /\ DOMAIN k = DOMAIN j /\ row \in DOMAIN j
    /\ k[row].state = to /\ k[row].detail = detail
    /\ k[row].snapshot = j[row].snapshot /\ k[row].candidate = j[row].candidate
    /\ k[row].component = j[row].component
    /\ \A r \in DOMAIN j \ {row} : k[r] = j[r]

LEMMA ReturnIsReturned ==
    ASSUME NEW ok \in BOOLEAN, Return(ok)
    PROVE  task' = Returned(task, ok)
  BY DEF Return, Returned

LEMMA ProceedIsAfter ==
    ASSUME NEW outcome, Proceed(outcome)
    PROVE  task' = After(task, outcome)
<1>1. CASE outcome = "succeed"
  BY <1>1, ReturnIsReturned DEF Proceed, After
<1>2. CASE outcome = "fail"
  BY <1>2, ReturnIsReturned DEF Proceed, After
<1>3. CASE outcome \notin {"succeed", "fail"}
  BY <1>3 DEF Proceed, After, Goto
<1> QED
  BY <1>1, <1>2, <1>3

LEMMA IdleTaskType == IdleTask \in Tasks
<1>1. ASSUME NEW t, t = IdleTask
      PROVE  t \in Tasks
  BY <1>1 DEF IdleTask, Tasks, Runs, Steps, TransactionStates, Owned
<1> QED
  BY <1>1

LEMMA AfterType ==
    ASSUME NEW t \in Tasks, NEW outcome \in Outcomes
    PROVE  After(t, outcome) \in Tasks
<1>1. ASSUME NEW ok \in BOOLEAN
      PROVE  Returned(t, ok) \in Tasks
  <2>1. "next_operation" \in Steps /\ "finish_recovery" \in Steps
    BY DEF Steps
  <2>2. \A b \in BOOLEAN, s \in Steps : [t EXCEPT !.step = s, !.erred = b] \in Tasks
    BY DEF Tasks
  <2>3. (t.erred \/ ~ok) \in BOOLEAN /\ (~ok) \in BOOLEAN
    BY DEF Tasks
  <2> QED
    BY <2>1, <2>2, <2>3, IdleTaskType DEF Returned
<1> QED
  BY <1>1 DEF After, Outcomes, Tasks

LEMMA ArrivedType ==
    ASSUME NEW t \in Tasks, NEW outcome \in Outcomes, NEW to \in TransactionStates
    PROVE  Arrived(t, outcome, to) \in Tasks
  BY AfterType DEF Arrived, Tasks

\* A step within a row changes nothing of the task but its step, and a return none
\* of the queue.
LEMMA AfterKeepsFlow ==
    ASSUME NEW t \in Tasks, NEW j, NEW k, NEW outcome \in Outcomes, FlowOK(t, j), t.step \in RowSteps,
           DOMAIN j \subseteq DOMAIN k, UnfinishedRows(j) \ {t.row} \subseteq UnfinishedRows(k),
           outcome \in Steps => outcome \in RowSteps /\ StepFits(outcome, t.from, k[t.row])
    PROVE  FlowOK(After(t, outcome), k)
<1>1. t.queue \subseteq UnfinishedRows(k) /\ t.row \in DOMAIN k \ t.queue
  BY DEF FlowOK
<1>2. \A ok \in BOOLEAN : FlowOK(Returned(t, ok), k)
  BY <1>1 DEF FlowOK, Returned, IdleTask, Tasks, RowSteps, ApplySteps, BypassSteps, RestoreSteps,
              MarkSteps
<1>3. CASE outcome \in Steps
  <2>1. After(t, outcome) = [t EXCEPT !.step = outcome]
    BY <1>3 DEF After, Steps
  <2> QED
    BY <1>1, <1>3, <2>1 DEF FlowOK, Tasks, RowSteps, ApplySteps, BypassSteps, RestoreSteps, MarkSteps
<1> QED
  BY <1>2, <1>3 DEF After, Outcomes

LEMMA ArrivedKeepsFlow ==
    ASSUME NEW t \in Tasks, NEW j, NEW k, NEW outcome \in Outcomes, NEW to \in TransactionStates,
           FlowOK(t, j), t.step \in RowSteps,
           DOMAIN j \subseteq DOMAIN k, UnfinishedRows(j) \ {t.row} \subseteq UnfinishedRows(k),
           outcome \in Steps => outcome \in RowSteps /\ StepFits(outcome, to, k[t.row])
    PROVE  FlowOK(Arrived(t, outcome, to), k)
<1>1. t.queue \subseteq UnfinishedRows(k) /\ t.row \in DOMAIN k \ t.queue
  BY DEF FlowOK
<1>2. CASE outcome \in Steps
  BY <1>1, <1>2 DEF FlowOK, Arrived, Tasks, RowSteps, ApplySteps, BypassSteps, RestoreSteps, MarkSteps
<1> QED
  BY <1>2, AfterKeepsFlow DEF Arrived

LEMMA FaultsType ==
    ASSUME faults \in 0..MaxFaults, Fault \/ UNCHANGED faults
    PROVE  faults' \in 0..MaxFaults
  BY RoutingAssumption DEF Fault

\* One journal statement.
LEMMA TransitionEffect ==
    ASSUME TypeOK, task.row \in DOMAIN journal,
           NEW to \in TransactionStates, NEW detail \in Details, NEW ok \in Outcomes, NEW bad \in Outcomes,
           Transition(to, detail, ok, bad)
    PROVE  /\ journal' \in Seq(Entries) /\ faults' \in 0..MaxFaults /\ task' \in Tasks
           /\ \/ /\ Moves(journal, journal', task.row, to, detail)
                 /\ journal[task.row].state = task.from /\ CanTransitionTo(task.from, to)
                 /\ task' \in {Arrived(task, ok, to), After(task, bad)}
              \/ journal' = journal /\ task' = After(task, bad)
<1> DEFINE applies == TransitionApplies(journal, task.row, task.from, to)
           written == Transitioned(journal, task.row, task.from, to, detail)
<1>1. journal \in Seq(Entries) /\ task \in Tasks /\ faults \in 0..MaxFaults
  BY DEF TypeOK
<1>2. journal[task.row] \in Entries
  BY <1>1
<1>3. CASE applies
  <2>1. written = [journal EXCEPT ![task.row] = [@ EXCEPT !.state = to, !.detail = detail]]
    BY <1>3 DEF Transitioned
  <2>2. [journal[task.row] EXCEPT !.state = to, !.detail = detail] \in Entries
    BY <1>2 DEF Entries
  <2>3. written \in Seq(Entries)
    BY <1>1, <2>1, <2>2
  <2>4. Moves(journal, written, task.row, to, detail)
    <3> DEFINE e == [journal[task.row] EXCEPT !.state = to, !.detail = detail]
    <3>1. e.state = to /\ e.detail = detail /\ e.snapshot = journal[task.row].snapshot
          /\ e.candidate = journal[task.row].candidate /\ e.component = journal[task.row].component
      BY <1>2 DEF Entries
    <3>2. DOMAIN written = DOMAIN journal /\ written[task.row] = e
          /\ \A r \in DOMAIN journal \ {task.row} : written[r] = journal[r]
      BY <1>1, <2>1
    <3> HIDE DEF e
    <3> QED
      BY <3>1, <3>2 DEF Moves
  <2>5. journal[task.row].state = task.from /\ CanTransitionTo(task.from, to)
    BY <1>3 DEF TransitionApplies
  <2>6. \/ journal' = written /\ task' = Arrived(task, ok, to) /\ UNCHANGED faults
        \/ Fault /\ journal' \in {journal, written} /\ task' = After(task, bad)
    BY <1>3, ProceedIsAfter DEF Transition, Arrived
  <2> HIDE DEF written, applies
  <2> QED
    BY <1>1, <2>3, <2>4, <2>5, <2>6, AfterType, ArrivedType, FaultsType
<1>4. CASE ~applies
  <2>1. written = journal
    BY <1>4 DEF Transitioned
  <2>2. task' = After(task, bad) /\ journal' = journal /\ (Fault \/ UNCHANGED faults)
    BY <1>4, <2>1, ProceedIsAfter DEF Transition
  <2> HIDE DEF written, applies
  <2> QED
    BY <1>1, <2>2, AfterType, FaultsType
<1> QED
  BY <1>3, <1>4

-------------------------------------------------------------------------------
(* The flow is an invariant: the steps of a row.                           *)

\* A step has failed: the task returns, rolls back, or records that it gave up.
GivesUp(t, u) ==
    \E outcome \in {"fail", "roll_back", "mark_failed"} :
        /\ u = After(t, outcome)
        /\ outcome = "roll_back" => t.from \in {"APPLYING", "VERIFYING"}
        /\ outcome = "mark_failed" => t.from = "ROLLING_BACK"

Passes(t, u, next) == u = [t EXCEPT !.step = next]

ByFamily == [Families -> SUBSET Routes]

Shrunk(a, b) == \A f \in Families : b[f] \subseteq a[f]
Grown(a, b, set) == \A f \in Families : a[f] \subseteq b[f] /\ b[f] \subseteq a[f] \cup set
Cleared(a, b, set) == \A f \in Families : b[f] = a[f] \ set

LEMMA RowTypes ==
    ASSUME FlowInv, task.step \in RowSteps
    PROVE  /\ task.row \in DOMAIN journal /\ Entry \in Entries
           /\ StepFits(task.step, task.from, Entry)
           /\ Snapshot.singbox \in Owned /\ Snapshot.policy \in Owned /\ Snapshot.nft \in Owned
           /\ Snapshot.marker \in Nat /\ Candidate \in Owned
           /\ Entry.component = "apply" => Candidate \in SUBSET Routes
           /\ RoutesOf(Snapshot.policy) \in SUBSET Routes
           /\ task \in Tasks /\ faults \in 0..MaxFaults
<1>1. /\ task.row \in DOMAIN journal /\ StepFits(task.step, task.from, Entry)
      /\ task \in Tasks /\ journal \in Seq(Entries) /\ faults \in 0..MaxFaults
  BY DEF FlowInv, TypeOK, FlowOK, Entry
<1>2. Entry \in Entries
  BY <1>1 DEF Entry
<1>3. Snapshot \in Snapshots /\ Candidate \in Owned
  BY <1>2 DEF Snapshot, Candidate, Entries
<1>4. Entry.component = "apply" => Candidate \in SUBSET Routes
  BY <1>1 DEF FlowInv, JournalOK, Candidate, Entry
<1>5. Snapshot.singbox \in Owned /\ Snapshot.policy \in Owned /\ Snapshot.nft \in Owned
      /\ Snapshot.marker \in Nat
  BY <1>3 DEF Snapshots
<1> QED
  BY <1>1, <1>2, <1>3, <1>4, <1>5 DEF RoutesOf, Owned

LEMMA ErrorsGiveUp ==
    ASSUME FlowInv, task.from \in MovingStates
    PROVE  /\ task.from # "ROLLING_BACK" /\ Goto("roll_back") => GivesUp(task, task')
           /\ task.from = "ROLLING_BACK" /\ RestoreError => GivesUp(task, task')
           /\ BypassError => GivesUp(task, task')
<1>1. Goto("roll_back") => task' = After(task, "roll_back")
  BY DEF Goto, After
<1>2. Goto("mark_failed") => task' = After(task, "mark_failed")
  BY DEF Goto, After
<1>3. Return(FALSE) => task' = After(task, "fail")
  BY ReturnIsReturned DEF After
<1> QED
  BY <1>1, <1>2, <1>3 DEF GivesUp, RestoreError, BypassError, MovingStates

\* What is left of a step that changes the host and not the journal.
LEMMA HostKeepsFlow ==
    ASSUME FlowInv, task.step \in RowSteps, NEW next \in RowSteps,
           Passes(task, task', next) \/ GivesUp(task, task'),
           Passes(task, task', next) => StepFits(next, task.from, Entry),
           UNCHANGED <<up, tracker, journal, recoveries, crashes, overtook>>,
           singbox' \in Owned, policy' \in Owned, nft' \in Owned, marker' \in Nat,
           tun' \in {Stopped} \cup (Owned \ {Absent}),
           rules' \in ByFamily, tables' \in ByFamily,
           faults' \in 0..MaxFaults, lost' \in BOOLEAN
    PROVE  FlowInv'
<1>1. task \in Tasks /\ FlowOK(task, journal)
  BY DEF FlowInv, TypeOK
<1>2. next \in Outcomes /\ next \in Steps
  BY DEF RowSteps, ApplySteps, BypassSteps, RestoreSteps, MarkSteps, Outcomes, Steps
<1>3. Passes(task, task', next) => task' = After(task, next)
  BY <1>2 DEF Passes, After, Steps
<1>4. PICK outcome \in Outcomes :
          /\ task' = After(task, outcome)
          /\ outcome \in Steps => outcome \in RowSteps /\ StepFits(outcome, task.from, Entry)
  <2>1. CASE Passes(task, task', next)
    BY <1>2, <1>3, <2>1
  <2>2. CASE GivesUp(task, task')
    <3>1. PICK outcome \in {"fail", "roll_back", "mark_failed"} :
              /\ task' = After(task, outcome)
              /\ outcome = "roll_back" => task.from \in {"APPLYING", "VERIFYING"}
              /\ outcome = "mark_failed" => task.from = "ROLLING_BACK"
      BY <2>2 DEF GivesUp
    <3>2. outcome \in Outcomes
      BY <3>1 DEF Outcomes, Steps
    <3>3. outcome \in Steps => outcome \in RowSteps /\ StepFits(outcome, task.from, Entry)
      BY <3>1 DEF StepFits, FromAt, RowSteps, ApplySteps, BypassSteps, RestoreSteps, MarkSteps, Steps
    <3> QED
      BY <3>1, <3>2, <3>3
  <2> QED
    BY <2>1, <2>2
<1>5. task' \in Tasks
  BY <1>1, <1>4, AfterType
<1>6. FlowOK(task', journal)
  BY <1>1, <1>4, AfterKeepsFlow DEF Entry
<1>7. TypeOK'
  BY <1>5 DEF FlowInv, TypeOK, ByFamily
<1> QED
  BY <1>6, <1>7 DEF FlowInv

LEMMA ApplyNFTEffect ==
    ASSUME FlowInv, ApplyNFT
    PROVE  /\ task.step = "apply_nft" /\ nft' \in {nft, Candidate}
           /\ \/ Passes(task, task', "install_singbox") /\ nft' = Candidate
              \/ GivesUp(task, task')
           /\ UNCHANGED <<process, journal, files, tun, rules, tables, others>>
           /\ FlowInv'
<1>1. task.step = "apply_nft" /\ task.step \in RowSteps
  BY DEF ApplyNFT, RowSteps, ApplySteps
<1>2. task.from = "APPLYING" /\ Entry.component = "apply" /\ Entry.state = task.from
  BY <1>1, RowTypes DEF StepFits, FromAt, ApplySteps
<1>3. /\ UNCHANGED <<process, journal, files, tun, rules, tables, others>>
      /\ nft' \in {nft, Candidate}
      /\ Fault \/ UNCHANGED faults
      /\ \/ Passes(task, task', "install_singbox") /\ nft' = Candidate
         \/ Goto("roll_back")
  BY DEF ApplyNFT, Replaced, Goto, Passes
<1>4. \/ Passes(task, task', "install_singbox") /\ nft' = Candidate
      \/ GivesUp(task, task')
  BY <1>2, <1>3, ErrorsGiveUp DEF MovingStates
<1>5. StepFits("install_singbox", task.from, Entry) /\ "install_singbox" \in RowSteps
  BY <1>2 DEF StepFits, FromAt, RowSteps, ApplySteps, BypassSteps
<1>6. FlowInv'
  <2>1. faults' \in 0..MaxFaults /\ nft' \in Owned
    BY <1>1, <1>3, RowTypes, FaultsType DEF FlowInv, TypeOK
  <2> QED
    BY <1>1, <1>3, <1>4, <1>5, <2>1, HostKeepsFlow
       DEF FlowInv, TypeOK, process, files, others, history, ByFamily
<1> QED
  BY <1>1, <1>3, <1>4, <1>6

LEMMA InstallSingBoxEffect ==
    ASSUME FlowInv, InstallSingBox
    PROVE  /\ task.step = "install_singbox"
           /\ \/ Passes(task, task', "restart_singbox") /\ singbox' = task.config
              \/ GivesUp(task, task')
           /\ UNCHANGED <<process, journal, policy, marker, kernel, others>>
           /\ FlowInv'
<1>1. task.step = "install_singbox" /\ task.step \in RowSteps
  BY DEF InstallSingBox, RowSteps, ApplySteps
<1>2. task.from = "APPLYING" /\ Entry.component = "apply" /\ Entry.state = task.from
  BY <1>1, RowTypes DEF StepFits, FromAt, ApplySteps
<1>3. /\ UNCHANGED <<process, journal, policy, marker, kernel, others>>
      /\ singbox' \in {singbox, task.config}
      /\ Fault \/ UNCHANGED faults
      /\ \/ Passes(task, task', "restart_singbox") /\ singbox' = task.config
         \/ Goto("roll_back")
  BY DEF InstallSingBox, Replaced, Goto, Passes
<1>4. \/ Passes(task, task', "restart_singbox") /\ singbox' = task.config
      \/ GivesUp(task, task')
  BY <1>2, <1>3, ErrorsGiveUp DEF MovingStates
<1>5. StepFits("restart_singbox", task.from, Entry) /\ "restart_singbox" \in RowSteps
  BY <1>2 DEF StepFits, FromAt, RowSteps, ApplySteps, BypassSteps
<1>6. FlowInv'
  <2>1. faults' \in 0..MaxFaults /\ singbox' \in Owned
    BY <1>1, <1>3, RowTypes, FaultsType DEF FlowInv, TypeOK, Tasks
  <2> QED
    BY <1>1, <1>3, <1>4, <1>5, <2>1, HostKeepsFlow
       DEF FlowInv, TypeOK, process, kernel, others, history, ByFamily
<1> QED
  BY <1>1, <1>3, <1>4, <1>6

\* systemctl: the devices of the service are those of its configuration, or it is
\* stopped, or nothing has happened; routes over devices that went are gone.
LEMMA ServiceTypes ==
    ASSUME FlowInv, NEW config \in Owned,
           \/ UNCHANGED <<tun, tables>>
           \/ ServiceBecomes(Stopped)
           \/ ServiceBecomes(CommandedService(config))
    PROVE  /\ tun' \in {Stopped} \cup (Owned \ {Absent})
           /\ tables' \in ByFamily /\ Shrunk(tables, tables')
<1>1. tun \in {Stopped} \cup (Owned \ {Absent}) /\ tables \in ByFamily
  BY DEF FlowInv, TypeOK, ByFamily
<1>2. CommandedService(config) \in {Stopped} \cup (Owned \ {Absent})
  BY DEF CommandedService
<1>3. CASE UNCHANGED <<tun, tables>>
  BY <1>1, <1>3 DEF Shrunk
<1>4. CASE tun' \in {Stopped, CommandedService(config)} /\ tables' = [f \in Families |-> {}]
  BY <1>1, <1>2, <1>4 DEF Shrunk, ByFamily
<1> QED
  BY <1>3, <1>4 DEF ServiceBecomes

LEMMA RestartSingBoxEffect ==
    ASSUME FlowInv, RestartSingBox
    PROVE  /\ task.step = "restart_singbox"
           /\ Passes(task, task', "remove_previous") \/ GivesUp(task, task')
           /\ Shrunk(tables, tables')
           /\ UNCHANGED <<process, journal, files, nft, rules, others>>
           /\ FlowInv'
<1>1. task.step = "restart_singbox" /\ task.step \in RowSteps
  BY DEF RestartSingBox, RowSteps, ApplySteps
<1>2. task.from = "APPLYING" /\ Entry.component = "apply" /\ Entry.state = task.from
  BY <1>1, RowTypes DEF StepFits, FromAt, ApplySteps
<1>3. /\ UNCHANGED <<process, journal, files, nft, rules, others>>
      /\ \/ UNCHANGED <<tun, tables>>
         \/ ServiceBecomes(Stopped)
         \/ ServiceBecomes(CommandedService(task.config))
      /\ Fault \/ UNCHANGED faults
      /\ Passes(task, task', "remove_previous") \/ Goto("roll_back")
  BY DEF RestartSingBox, ServiceCommand, Goto, Passes
<1>4. Passes(task, task', "remove_previous") \/ GivesUp(task, task')
  BY <1>2, <1>3, ErrorsGiveUp DEF MovingStates
<1>5. StepFits("remove_previous", task.from, Entry) /\ "remove_previous" \in RowSteps
  BY <1>2 DEF StepFits, FromAt, RowSteps, ApplySteps, BypassSteps
<1>6. /\ tun' \in {Stopped} \cup (Owned \ {Absent})
      /\ tables' \in ByFamily /\ Shrunk(tables, tables')
  <2>1. task.config \in Owned
    BY <1>1, RowTypes DEF Tasks
  <2> QED
    BY <1>3, <2>1, ServiceTypes
<1>7. FlowInv'
  <2>1. faults' \in 0..MaxFaults
    BY <1>1, <1>3, RowTypes, FaultsType
  <2> QED
    BY <1>1, <1>3, <1>4, <1>5, <1>6, <2>1, HostKeepsFlow
       DEF FlowInv, TypeOK, process, files, others, history, ByFamily
<1> QED
  BY <1>1, <1>3, <1>4, <1>6, <1>7

\* removeOwnedIP has removed some or all of what the routes of a set own.
LEMMA RemovalTypes ==
    ASSUME FlowInv, NEW set,
           \/ /\ rules' = [f \in Families |-> rules[f] \ set]
              /\ tables' = [f \in Families |-> tables[f] \ set]
           \/ \E gone \in SUBSET (Families \X set) :
                  /\ rules' = [f \in Families |-> {r \in rules[f] : <<f, r>> \notin gone}]
                  /\ tables' = [f \in Families |-> {r \in tables[f] : <<f, r>> \notin gone}]
    PROVE  /\ rules' \in ByFamily /\ tables' \in ByFamily
           /\ Shrunk(rules, rules') /\ Shrunk(tables, tables')
<1>1. rules \in ByFamily /\ tables \in ByFamily
  BY DEF FlowInv, TypeOK, ByFamily
<1> QED
  BY <1>1 DEF Shrunk, ByFamily

LEMMA RemovePreviousEffect ==
    ASSUME FlowInv, RemovePrevious
    PROVE  /\ task.step = "remove_previous"
           /\ \/ /\ Passes(task, task', "add_ipv4")
                 /\ Cleared(rules, rules', RoutesOf(Snapshot.policy))
              \/ GivesUp(task, task')
           /\ Shrunk(rules, rules') /\ Shrunk(tables, tables')
           /\ UNCHANGED <<process, journal, files, nft, tun, others>>
           /\ FlowInv'
<1>1. task.step = "remove_previous" /\ task.step \in RowSteps
  BY DEF RemovePrevious, RowSteps, ApplySteps
<1>2. task.from = "APPLYING" /\ Entry.component = "apply" /\ Entry.state = task.from
  BY <1>1, RowTypes DEF StepFits, FromAt, ApplySteps
<1>3. /\ UNCHANGED <<process, journal, files, nft, tun, others>>
      /\ Fault \/ UNCHANGED faults
  BY DEF RemovePrevious, RemoveOwnedIP
<1>4. /\ rules' \in ByFamily /\ tables' \in ByFamily
      /\ Shrunk(rules, rules') /\ Shrunk(tables, tables')
      /\ \/ /\ Passes(task, task', "add_ipv4")
            /\ Cleared(rules, rules', RoutesOf(Snapshot.policy))
         \/ Goto("roll_back")
  <2>1. CASE Candidate \subseteq Devices
    <3>1. RemoveOwnedIP(RoutesOf(Snapshot.policy), "add_ipv4", Goto("roll_back"))
      BY <2>1 DEF RemovePrevious
    <3>2. /\ rules' \in ByFamily /\ tables' \in ByFamily
          /\ Shrunk(rules, rules') /\ Shrunk(tables, tables')
      BY <3>1, RemovalTypes DEF RemoveOwnedIP
    <3> QED
      BY <3>1, <3>2 DEF RemoveOwnedIP, Goto, Passes, Cleared
  <2>2. CASE ~(Candidate \subseteq Devices)
    BY <2>2 DEF RemovePrevious, Shrunk, FlowInv, TypeOK, ByFamily
  <2> QED
    BY <2>1, <2>2
<1>5. \/ /\ Passes(task, task', "add_ipv4")
         /\ Cleared(rules, rules', RoutesOf(Snapshot.policy))
      \/ GivesUp(task, task')
  BY <1>2, <1>4, ErrorsGiveUp DEF MovingStates
<1>6. StepFits("add_ipv4", task.from, Entry) /\ "add_ipv4" \in RowSteps
  BY <1>2 DEF StepFits, FromAt, RowSteps, ApplySteps, BypassSteps
<1>7. FlowInv'
  <2>1. faults' \in 0..MaxFaults
    BY <1>1, <1>3, RowTypes, FaultsType
  <2> QED
    BY <1>1, <1>3, <1>4, <1>5, <1>6, <2>1, HostKeepsFlow
       DEF FlowInv, TypeOK, process, files, others, history, ByFamily
<1> QED
  BY <1>1, <1>3, <1>4, <1>5, <1>7

\* ip -batch has added some or all of a set of routes to one family.
LEMMA BatchTypes ==
    ASSUME FlowInv, NEW f \in Families, NEW set \in SUBSET Routes, NEW done \in SUBSET set,
           rules' = [rules EXCEPT ![f] = @ \cup done],
           tables' = [tables EXCEPT ![f] = @ \cup done]
    PROVE  /\ rules' \in ByFamily /\ tables' \in ByFamily
           /\ Grown(rules, rules', set) /\ Grown(tables, tables', set)
           /\ \A g \in Families \ {f} : rules'[g] = rules[g] /\ tables'[g] = tables[g]
           /\ done \subseteq rules'[f] /\ done \subseteq tables'[f]
<1>1. rules \in ByFamily /\ tables \in ByFamily
  BY DEF FlowInv, TypeOK, ByFamily
<1> QED
  BY <1>1 DEF Grown, ByFamily

LEMMA AddIPEffect ==
    ASSUME FlowInv, NEW f \in Families, AddIP(f)
    PROVE  /\ task.step \in {"add_ipv4", "add_ipv6"}
           /\ \/ task.step = "add_ipv4" /\ Passes(task, task', "add_ipv6")
              \/ task.step = "add_ipv6" /\ Passes(task, task', "mark_verifying")
              \/ GivesUp(task, task')
           /\ Grown(rules, rules', Candidate) /\ Grown(tables, tables', Candidate)
           /\ UNCHANGED <<process, journal, files, nft, tun, others>>
           /\ FlowInv'
<1> DEFINE next == IF f = "ipv4" THEN "add_ipv6" ELSE "mark_verifying"
<1>1. /\ task.step = IF f = "ipv4" THEN "add_ipv4" ELSE "add_ipv6"
      /\ task.step \in {"add_ipv4", "add_ipv6"} /\ task.step \in RowSteps
  BY DEF AddIP, RowSteps, ApplySteps
<1>2. task.from = "APPLYING" /\ Entry.component = "apply" /\ Entry.state = task.from
      /\ Candidate \in SUBSET Routes
  BY <1>1, RowTypes DEF StepFits, FromAt, ApplySteps
<1>3. /\ UNCHANGED <<process, journal, files, nft, tun, others>>
      /\ Fault \/ UNCHANGED faults
      /\ Passes(task, task', next) \/ Goto("roll_back")
      /\ \E done \in SUBSET Candidate :
            /\ rules' = [rules EXCEPT ![f] = @ \cup done]
            /\ tables' = [tables EXCEPT ![f] = @ \cup done]
  BY DEF AddIP, IPBatch, Goto, Passes
<1>4. /\ rules' \in ByFamily /\ tables' \in ByFamily
      /\ Grown(rules, rules', Candidate) /\ Grown(tables, tables', Candidate)
  BY <1>2, <1>3, BatchTypes
<1>5. Passes(task, task', next) \/ GivesUp(task, task')
  BY <1>2, <1>3, ErrorsGiveUp DEF MovingStates
<1>6. StepFits(next, task.from, Entry) /\ next \in RowSteps
  BY <1>2 DEF StepFits, FromAt, RowSteps, ApplySteps, BypassSteps, MarkSteps
<1>7. FlowInv'
  <2>1. faults' \in 0..MaxFaults
    BY <1>1, <1>3, RowTypes, FaultsType
  <2> HIDE DEF next
  <2> QED
    BY <1>1, <1>3, <1>4, <1>5, <1>6, <2>1, HostKeepsFlow
       DEF FlowInv, TypeOK, process, files, others, history, ByFamily
<1> QED
  BY <1>1, <1>3, <1>4, <1>5, <1>7

LEMMA WritePolicyEffect ==
    ASSUME FlowInv, WritePolicy
    PROVE  /\ task.step = "write_policy" /\ policy' \in {policy, Candidate}
           /\ \/ /\ Passes(task, task', "commit")
                 /\ policy' = Candidate /\ InForce(Candidate)
              \/ GivesUp(task, task')
           /\ UNCHANGED <<process, journal, singbox, marker, kernel, recoveries, crashes, overtook>>
           /\ FlowInv'
<1>1. task.step = "write_policy" /\ task.step \in RowSteps
  BY DEF WritePolicy, RowSteps, ApplySteps
<1>2. task.from = "VERIFYING" /\ Entry.component = "apply" /\ Entry.state = task.from
  BY <1>1, RowTypes DEF StepFits, FromAt, ApplySteps
<1>3. /\ UNCHANGED <<process, journal, singbox, marker, kernel, recoveries, crashes, overtook>>
      /\ policy' \in {policy, Candidate} /\ lost' \in {lost, FALSE}
      /\ Fault \/ UNCHANGED faults
      /\ \/ Passes(task, task', "commit") /\ policy' = Candidate /\ InForce(Candidate)
         \/ Goto("roll_back")
  BY DEF WritePolicy, Replaced, Goto, Passes, history
<1>4. \/ Passes(task, task', "commit") /\ policy' = Candidate /\ InForce(Candidate)
      \/ GivesUp(task, task')
  BY <1>2, <1>3, ErrorsGiveUp DEF MovingStates
<1>5. StepFits("commit", task.from, Entry) /\ "commit" \in RowSteps
  BY <1>2 DEF StepFits, FromAt, RowSteps, ApplySteps, BypassSteps, MarkSteps
<1>6. FlowInv'
  <2>1. faults' \in 0..MaxFaults /\ policy' \in Owned /\ lost' \in BOOLEAN
    BY <1>1, <1>3, RowTypes, FaultsType DEF FlowInv, TypeOK
  <2> QED
    BY <1>1, <1>3, <1>4, <1>5, <2>1, HostKeepsFlow
       DEF FlowInv, TypeOK, process, kernel, ByFamily
<1> QED
  BY <1>1, <1>3, <1>4, <1>6

LEMMA ActivateMarkerEffect ==
    ASSUME FlowInv, ActivateMarker
    PROVE  /\ task.step = "activate_marker" /\ marker' \in {marker, task.row}
           /\ \/ /\ Passes(task, task', "bypass_policy")
                 /\ marker' = task.row \/ (Snapshot.marker # NoMarker /\ marker' = marker)
              \/ GivesUp(task, task')
           /\ UNCHANGED <<process, journal, singbox, policy, kernel, others>>
           /\ FlowInv'
<1>1. task.step = "activate_marker" /\ task.step \in RowSteps
  BY DEF ActivateMarker, RowSteps, BypassSteps
<1>2. task.from \in {"APPLYING", "VERIFYING"} /\ Entry.component = "bypass" /\ Entry.state = task.from
  BY <1>1, RowTypes DEF StepFits, FromAt, BypassSteps
<1>3. /\ UNCHANGED <<process, journal, singbox, policy, kernel, others>>
      /\ marker' \in {marker, task.row}
      /\ Fault \/ UNCHANGED faults
      /\ \/ /\ Passes(task, task', "bypass_policy")
            /\ marker' = task.row \/ (Snapshot.marker # NoMarker /\ marker' = marker)
         \/ BypassError
  BY DEF ActivateMarker, Replaced, Goto, Passes
<1>4. \/ /\ Passes(task, task', "bypass_policy")
         /\ marker' = task.row \/ (Snapshot.marker # NoMarker /\ marker' = marker)
      \/ GivesUp(task, task')
  BY <1>2, <1>3, ErrorsGiveUp DEF MovingStates
<1>5. StepFits("bypass_policy", task.from, Entry) /\ "bypass_policy" \in RowSteps
  BY <1>2 DEF StepFits, FromAt, RowSteps, ApplySteps, BypassSteps, MovingStates
<1>6. FlowInv'
  <2>1. faults' \in 0..MaxFaults /\ marker' \in Nat
    BY <1>1, <1>3, RowTypes, FaultsType DEF FlowInv, TypeOK, Tasks
  <2> QED
    BY <1>1, <1>3, <1>4, <1>5, <2>1, HostKeepsFlow
       DEF FlowInv, TypeOK, process, kernel, others, history, ByFamily
<1> QED
  BY <1>1, <1>3, <1>4, <1>6

LEMMA BypassPolicyEffect ==
    ASSUME FlowInv, BypassPolicy
    PROVE  /\ task.step = "bypass_policy"
           /\ \/ /\ Passes(task, task', "bypass_nft")
                 /\ Cleared(rules, rules', RoutesOf(Snapshot.policy))
              \/ GivesUp(task, task')
           /\ Shrunk(rules, rules') /\ Shrunk(tables, tables')
           /\ UNCHANGED <<process, journal, files, nft, tun, others>>
           /\ FlowInv'
<1>1. task.step = "bypass_policy" /\ task.step \in RowSteps
  BY DEF BypassPolicy, RowSteps, BypassSteps
<1>2. task.from \in MovingStates /\ Entry.component = "bypass" /\ Entry.state = task.from
  BY <1>1, RowTypes DEF StepFits, FromAt, BypassSteps, MovingStates
<1>3. /\ UNCHANGED <<process, journal, files, nft, tun, others>>
      /\ Fault \/ UNCHANGED faults
      /\ RemoveOwnedIP(RoutesOf(Snapshot.policy), "bypass_nft", BypassError)
  BY DEF BypassPolicy, RemoveOwnedIP
<1>4. /\ rules' \in ByFamily /\ tables' \in ByFamily
      /\ Shrunk(rules, rules') /\ Shrunk(tables, tables')
  BY <1>3, RemovalTypes DEF RemoveOwnedIP
<1>5. \/ /\ Passes(task, task', "bypass_nft")
         /\ Cleared(rules, rules', RoutesOf(Snapshot.policy))
      \/ BypassError
  BY <1>3 DEF RemoveOwnedIP, Goto, Passes, Cleared
<1>6. \/ /\ Passes(task, task', "bypass_nft")
         /\ Cleared(rules, rules', RoutesOf(Snapshot.policy))
      \/ GivesUp(task, task')
  BY <1>2, <1>5, ErrorsGiveUp
<1>7. StepFits("bypass_nft", task.from, Entry) /\ "bypass_nft" \in RowSteps
  BY <1>2 DEF StepFits, FromAt, RowSteps, ApplySteps, BypassSteps
<1>8. FlowInv'
  <2>1. faults' \in 0..MaxFaults
    BY <1>1, <1>3, RowTypes, FaultsType
  <2> QED
    BY <1>1, <1>3, <1>4, <1>6, <1>7, <2>1, HostKeepsFlow
       DEF FlowInv, TypeOK, process, files, others, history, ByFamily
<1> QED
  BY <1>1, <1>3, <1>4, <1>6, <1>8

LEMMA BypassNFTEffect ==
    ASSUME FlowInv, BypassNFT
    PROVE  /\ task.step = "bypass_nft" /\ nft' \in {nft, Absent}
           /\ \/ Passes(task, task', "mark_verifying") /\ nft' = Absent
              \/ Passes(task, task', "verify_bypass") /\ nft' = Absent
              \/ GivesUp(task, task')
           /\ UNCHANGED <<process, journal, files, tun, rules, tables, others>>
           /\ FlowInv'
<1> DEFINE next == IF task.from = "APPLYING" THEN "mark_verifying" ELSE "verify_bypass"
<1>1. task.step = "bypass_nft" /\ task.step \in RowSteps
  BY DEF BypassNFT, RowSteps, BypassSteps
<1>2. task.from \in MovingStates /\ Entry.component = "bypass" /\ Entry.state = task.from
  BY <1>1, RowTypes DEF StepFits, FromAt, BypassSteps, MovingStates
<1>3. /\ UNCHANGED <<process, journal, files, tun, rules, tables, others>>
      /\ nft' \in {nft, Absent}
      /\ Fault \/ UNCHANGED faults
      /\ (Passes(task, task', next) /\ nft' = Absent) \/ BypassError
  BY DEF BypassNFT, Replaced, Goto, Passes
<1>4. (Passes(task, task', next) /\ nft' = Absent) \/ GivesUp(task, task')
  BY <1>2, <1>3, ErrorsGiveUp
<1>5. StepFits(next, task.from, Entry) /\ next \in RowSteps
  BY <1>2 DEF StepFits, FromAt, RowSteps, ApplySteps, BypassSteps, MarkSteps, MovingStates
<1>6. FlowInv'
  <2>1. faults' \in 0..MaxFaults /\ nft' \in Owned
    BY <1>1, <1>3, RowTypes, FaultsType DEF FlowInv, TypeOK, Owned
  <2> HIDE DEF next
  <2> QED
    BY <1>1, <1>3, <1>4, <1>5, <2>1, HostKeepsFlow
       DEF FlowInv, TypeOK, process, files, others, history, ByFamily
<1> QED
  BY <1>1, <1>3, <1>4, <1>6

LEMMA VerifyBypassEffect ==
    ASSUME FlowInv, VerifyBypass
    PROVE  /\ task.step = "verify_bypass"
           /\ \/ /\ Passes(task, task', "mark_rolled_back") /\ task.from = "ROLLING_BACK"
                 /\ Off(RoutesOf(Snapshot.policy))
              \/ Passes(task, task', "commit") /\ Off(RoutesOf(Snapshot.policy))
              \/ GivesUp(task, task')
           /\ UNCHANGED <<process, journal, files, kernel, others>>
           /\ FlowInv'
<1> DEFINE next == IF task.from = "ROLLING_BACK" THEN "mark_rolled_back" ELSE "commit"
<1>1. task.step = "verify_bypass" /\ task.step \in RowSteps
  BY DEF VerifyBypass, RowSteps, BypassSteps
<1>2. task.from \in {"VERIFYING", "ROLLING_BACK"} /\ Entry.component = "bypass" /\ Entry.state = task.from
  BY <1>1, RowTypes DEF StepFits, FromAt, BypassSteps
<1>3. /\ UNCHANGED <<process, journal, files, kernel, others>>
      /\ Fault \/ UNCHANGED faults
      /\ (Passes(task, task', next) /\ Off(RoutesOf(Snapshot.policy))) \/ BypassError
  BY DEF VerifyBypass, Goto, Passes
<1>4. (Passes(task, task', next) /\ Off(RoutesOf(Snapshot.policy))) \/ GivesUp(task, task')
  BY <1>2, <1>3, ErrorsGiveUp DEF MovingStates
<1>5. StepFits(next, task.from, Entry) /\ next \in RowSteps
  BY <1>2 DEF StepFits, FromAt, RowSteps, ApplySteps, BypassSteps, MarkSteps
<1>6. FlowInv'
  <2>1. faults' \in 0..MaxFaults
    BY <1>1, <1>3, RowTypes, FaultsType
  <2> HIDE DEF next
  <2> QED
    BY <1>1, <1>3, <1>4, <1>5, <2>1, HostKeepsFlow
       DEF FlowInv, TypeOK, process, files, kernel, others, history, ByFamily
<1> QED
  BY <1>1, <1>3, <1>4, <1>6

LEMMA RemoveCandidateEffect ==
    ASSUME FlowInv, RemoveCandidate
    PROVE  /\ task.step = "remove_candidate"
           /\ \/ /\ Passes(task, task', "restore_singbox")
                 /\ Cleared(rules, rules', Candidate)
              \/ GivesUp(task, task')
           /\ Shrunk(rules, rules') /\ Shrunk(tables, tables')
           /\ UNCHANGED <<process, journal, files, nft, tun, others>>
           /\ FlowInv'
<1>1. task.step = "remove_candidate" /\ task.step \in RowSteps
  BY DEF RemoveCandidate, RowSteps, ApplySteps
<1>2. task.from = "ROLLING_BACK" /\ Entry.component = "apply" /\ Entry.state = task.from
  BY <1>1, RowTypes DEF StepFits, FromAt, ApplySteps
<1>3. /\ UNCHANGED <<process, journal, files, nft, tun, others>>
      /\ Fault \/ UNCHANGED faults
      /\ RemoveOwnedIP(Candidate, "restore_singbox", RestoreError)
  BY DEF RemoveCandidate, RemoveOwnedIP
<1>4. /\ rules' \in ByFamily /\ tables' \in ByFamily
      /\ Shrunk(rules, rules') /\ Shrunk(tables, tables')
  BY <1>3, RemovalTypes DEF RemoveOwnedIP
<1>5. \/ /\ Passes(task, task', "restore_singbox")
         /\ Cleared(rules, rules', Candidate)
      \/ RestoreError
  BY <1>3 DEF RemoveOwnedIP, Goto, Passes, Cleared
<1>6. \/ /\ Passes(task, task', "restore_singbox")
         /\ Cleared(rules, rules', Candidate)
      \/ GivesUp(task, task')
  BY <1>2, <1>5, ErrorsGiveUp DEF MovingStates
<1>7. StepFits("restore_singbox", task.from, Entry) /\ "restore_singbox" \in RowSteps
  BY <1>2 DEF StepFits, FromAt, RowSteps, ApplySteps, BypassSteps
<1>8. FlowInv'
  <2>1. faults' \in 0..MaxFaults
    BY <1>1, <1>3, RowTypes, FaultsType
  <2> QED
    BY <1>1, <1>3, <1>4, <1>6, <1>7, <2>1, HostKeepsFlow
       DEF FlowInv, TypeOK, process, files, others, history, ByFamily
<1> QED
  BY <1>1, <1>3, <1>4, <1>6, <1>8

LEMMA RestoreSingBoxEffect ==
    ASSUME FlowInv, RestoreSingBox
    PROVE  /\ task.step = "restore_singbox"
           /\ \/ /\ Passes(task, task', "restore_service")
                 /\ Snapshot.singbox # Absent => singbox' = Snapshot.singbox
              \/ GivesUp(task, task')
           /\ Shrunk(tables, tables')
           /\ UNCHANGED <<process, journal, policy, marker, nft, rules, others>>
           /\ FlowInv'
<1>1. task.step = "restore_singbox" /\ task.step \in RowSteps
  BY DEF RestoreSingBox, RowSteps, ApplySteps
<1>2. task.from = "ROLLING_BACK" /\ Entry.component = "apply" /\ Entry.state = task.from
  BY <1>1, RowTypes DEF StepFits, FromAt, ApplySteps
<1>3. /\ UNCHANGED <<process, journal, policy, marker, nft, rules, others>>
      /\ singbox' \in {singbox, Snapshot.singbox}
      /\ \/ UNCHANGED <<tun, tables>>
         \/ ServiceBecomes(Stopped)
         \/ ServiceBecomes(CommandedService(Absent))
      /\ Fault \/ UNCHANGED faults
      /\ \/ /\ Passes(task, task', "restore_service")
            /\ Snapshot.singbox # Absent => singbox' = Snapshot.singbox
         \/ RestoreError
  <2>1. CASE Snapshot.singbox = Absent
    BY <2>1 DEF RestoreSingBox, ServiceCommand, Goto, Passes
  <2>2. CASE Snapshot.singbox # Absent
    BY <2>2 DEF RestoreSingBox, Replaced, Goto, Passes
  <2> QED
    BY <2>1, <2>2
<1>4. \/ /\ Passes(task, task', "restore_service")
         /\ Snapshot.singbox # Absent => singbox' = Snapshot.singbox
      \/ GivesUp(task, task')
  BY <1>2, <1>3, ErrorsGiveUp DEF MovingStates
<1>5. StepFits("restore_service", task.from, Entry) /\ "restore_service" \in RowSteps
  BY <1>2 DEF StepFits, FromAt, RowSteps, ApplySteps, BypassSteps
<1>6. /\ tun' \in {Stopped} \cup (Owned \ {Absent})
      /\ tables' \in ByFamily /\ Shrunk(tables, tables')
  <2>1. Absent \in Owned
    BY DEF Owned
  <2> QED
    BY <1>3, <2>1, ServiceTypes
<1>7. FlowInv'
  <2>1. faults' \in 0..MaxFaults /\ singbox' \in Owned
    BY <1>1, <1>3, RowTypes, FaultsType DEF FlowInv, TypeOK
  <2> QED
    BY <1>1, <1>3, <1>4, <1>5, <1>6, <2>1, HostKeepsFlow
       DEF FlowInv, TypeOK, process, others, history, ByFamily
<1> QED
  BY <1>1, <1>3, <1>4, <1>6, <1>7

LEMMA RestoreServiceEffect ==
    ASSUME FlowInv, RestoreService
    PROVE  /\ task.step = "restore_service"
           /\ \/ /\ Passes(task, task', "restore_nft")
                 /\ singbox' = IF Snapshot.singbox = Absent THEN Absent ELSE singbox
              \/ GivesUp(task, task')
           /\ Shrunk(tables, tables')
           /\ UNCHANGED <<process, journal, policy, marker, nft, rules, others>>
           /\ FlowInv'
<1>1. task.step = "restore_service" /\ task.step \in RowSteps
  BY DEF RestoreService, RowSteps, ApplySteps
<1>2. task.from = "ROLLING_BACK" /\ Entry.component = "apply" /\ Entry.state = task.from
  BY <1>1, RowTypes DEF StepFits, FromAt, ApplySteps
<1>3. /\ UNCHANGED <<process, journal, policy, marker, nft, rules, others>>
      /\ singbox' \in {singbox, Absent}
      /\ \/ UNCHANGED <<tun, tables>>
         \/ ServiceBecomes(Stopped)
         \/ ServiceBecomes(CommandedService(Snapshot.singbox))
      /\ Fault \/ UNCHANGED faults
      /\ \/ /\ Passes(task, task', "restore_nft")
            /\ singbox' = IF Snapshot.singbox = Absent THEN Absent ELSE singbox
         \/ RestoreError
  <2>1. CASE Snapshot.singbox = Absent
    BY <2>1 DEF RestoreService, Replaced, Goto, Passes
  <2>2. CASE Snapshot.singbox # Absent
    BY <2>2 DEF RestoreService, ServiceCommand, Goto, Passes
  <2> QED
    BY <2>1, <2>2
<1>4. \/ /\ Passes(task, task', "restore_nft")
         /\ singbox' = IF Snapshot.singbox = Absent THEN Absent ELSE singbox
      \/ GivesUp(task, task')
  BY <1>2, <1>3, ErrorsGiveUp DEF MovingStates
<1>5. StepFits("restore_nft", task.from, Entry) /\ "restore_nft" \in RowSteps
  BY <1>2 DEF StepFits, FromAt, RowSteps, ApplySteps, BypassSteps, RestoreSteps
<1>6. /\ tun' \in {Stopped} \cup (Owned \ {Absent})
      /\ tables' \in ByFamily /\ Shrunk(tables, tables')
  <2>1. Snapshot.singbox \in Owned
    BY <1>1, RowTypes
  <2> QED
    BY <1>3, <2>1, ServiceTypes
<1>7. FlowInv'
  <2>1. faults' \in 0..MaxFaults /\ singbox' \in Owned
    BY <1>1, <1>3, RowTypes, FaultsType DEF FlowInv, TypeOK, Owned
  <2> QED
    BY <1>1, <1>3, <1>4, <1>5, <1>6, <2>1, HostKeepsFlow
       DEF FlowInv, TypeOK, process, others, history, ByFamily
<1> QED
  BY <1>1, <1>3, <1>4, <1>6, <1>7

LEMMA RestoreNFTEffect ==
    ASSUME FlowInv, RestoreNFT
    PROVE  /\ task.step = "restore_nft" /\ nft' \in {nft, RestoredNFT(task.row)}
           /\ \/ Passes(task, task', "restore_ipv4") /\ nft' = RestoredNFT(task.row)
              \/ GivesUp(task, task')
           /\ UNCHANGED <<process, journal, files, tun, rules, tables, others>>
           /\ FlowInv'
<1>1. task.step = "restore_nft" /\ task.step \in RowSteps
  BY DEF RestoreNFT, RowSteps, RestoreSteps
<1>2. task.from = "ROLLING_BACK" /\ Entry.state = task.from
  BY <1>1, RowTypes DEF StepFits, FromAt
<1>3. /\ UNCHANGED <<process, journal, files, tun, rules, tables, others>>
      /\ nft' \in {nft, RestoredNFT(task.row)}
      /\ Fault \/ UNCHANGED faults
      /\ \/ Passes(task, task', "restore_ipv4") /\ nft' = RestoredNFT(task.row)
         \/ RestoreError
  BY DEF RestoreNFT, Replaced, Goto, Passes
<1>4. \/ Passes(task, task', "restore_ipv4") /\ nft' = RestoredNFT(task.row)
      \/ GivesUp(task, task')
  BY <1>2, <1>3, ErrorsGiveUp DEF MovingStates
<1>5. StepFits("restore_ipv4", task.from, Entry) /\ "restore_ipv4" \in RowSteps
  BY <1>2 DEF StepFits, FromAt, RowSteps, ApplySteps, BypassSteps, RestoreSteps
<1>6. FlowInv'
  <2>1. faults' \in 0..MaxFaults /\ nft' \in Owned
    BY <1>1, <1>3, RowTypes, FaultsType DEF FlowInv, TypeOK, RestoredNFT, Snapshot, Entry
  <2> QED
    BY <1>1, <1>3, <1>4, <1>5, <2>1, HostKeepsFlow
       DEF FlowInv, TypeOK, process, files, others, history, ByFamily
<1> QED
  BY <1>1, <1>3, <1>4, <1>6

LEMMA RestoreIPEffect ==
    ASSUME FlowInv, NEW f \in Families, RestoreIP(f)
    PROVE  /\ task.step \in {"restore_ipv4", "restore_ipv6"}
           /\ \/ /\ task.step = "restore_ipv4" /\ Passes(task, task', "restore_ipv6") /\ f = "ipv4"
                 /\ RoutesOf(Snapshot.policy) \subseteq Devices \cap rules'[f] \cap tables'[f]
              \/ /\ task.step = "restore_ipv6" /\ Passes(task, task', "restore_file") /\ f = "ipv6"
                 /\ RoutesOf(Snapshot.policy) \subseteq Devices \cap rules'[f] \cap tables'[f]
              \/ GivesUp(task, task')
           /\ Grown(rules, rules', RoutesOf(Snapshot.policy))
           /\ Grown(tables, tables', RoutesOf(Snapshot.policy))
           /\ UNCHANGED <<process, journal, files, nft, tun, others>>
           /\ FlowInv'
<1> DEFINE next == IF f = "ipv4" THEN "restore_ipv6" ELSE "restore_file"
           set == RoutesOf(Snapshot.policy)
<1>1. /\ task.step = IF f = "ipv4" THEN "restore_ipv4" ELSE "restore_ipv6"
      /\ task.step \in {"restore_ipv4", "restore_ipv6"} /\ task.step \in RowSteps
      /\ f = "ipv4" \/ f = "ipv6"
  BY DEF RestoreIP, RowSteps, RestoreSteps, Families
<1>2. task.from = "ROLLING_BACK" /\ Entry.state = task.from /\ set \in SUBSET Routes
  BY <1>1, RowTypes DEF StepFits, FromAt
<1>3. /\ UNCHANGED <<process, journal, files, nft, tun, others>>
      /\ IPBatch(f, set, next, RestoreError)
  BY DEF RestoreIP
<1> HIDE DEF set
<1>4. PICK done \in SUBSET set :
          /\ rules' = [rules EXCEPT ![f] = @ \cup done]
          /\ tables' = [tables EXCEPT ![f] = @ \cup done]
          /\ \/ Passes(task, task', next) /\ done = set /\ set \subseteq Devices
             \/ RestoreError
          /\ Fault \/ UNCHANGED faults
  BY <1>3 DEF IPBatch, Goto, Passes
<1>5. /\ rules' \in ByFamily /\ tables' \in ByFamily
      /\ Grown(rules, rules', set) /\ Grown(tables, tables', set)
      /\ done \subseteq rules'[f] /\ done \subseteq tables'[f]
  BY <1>2, <1>4, BatchTypes
<1>6. \/ Passes(task, task', next) /\ set \subseteq Devices \cap rules'[f] \cap tables'[f]
      \/ GivesUp(task, task')
  BY <1>2, <1>4, <1>5, ErrorsGiveUp DEF MovingStates
<1>7. StepFits(next, task.from, Entry) /\ next \in RowSteps
  BY <1>2 DEF StepFits, FromAt, RowSteps, ApplySteps, BypassSteps, RestoreSteps
<1>8. FlowInv'
  <2>1. faults' \in 0..MaxFaults
    BY <1>1, <1>4, RowTypes, FaultsType
  <2> HIDE DEF next
  <2> QED
    BY <1>1, <1>3, <1>5, <1>6, <1>7, <2>1, HostKeepsFlow
       DEF FlowInv, TypeOK, process, files, others, history, ByFamily
<1> QED
  BY <1>1, <1>3, <1>5, <1>6, <1>8 DEF set

LEMMA RestoreFileEffect ==
    ASSUME FlowInv, RestoreFile
    PROVE  /\ task.step = "restore_file"
           /\ policy' \in {policy, Snapshot.policy} /\ marker' \in {marker, NoMarker}
           /\ Entry.component = "apply" => marker' = marker
           /\ Entry.component # "apply" => policy' = policy
           /\ \/ /\ Passes(task, task', "mark_rolled_back")
                 /\ Entry.component = "apply" => policy' = Snapshot.policy
                 /\ Entry.component # "apply" => marker' = NoMarker
              \/ GivesUp(task, task')
           /\ UNCHANGED <<process, journal, singbox, kernel, others>>
           /\ FlowInv'
<1>1. task.step = "restore_file" /\ task.step \in RowSteps
  BY DEF RestoreFile, RowSteps, RestoreSteps
<1>2. task.from = "ROLLING_BACK" /\ Entry.state = task.from
  BY <1>1, RowTypes DEF StepFits, FromAt
<1>3. /\ UNCHANGED <<process, journal, singbox, kernel, others>>
      /\ policy' \in {policy, Snapshot.policy} /\ marker' \in {marker, NoMarker}
      /\ Entry.component = "apply" => marker' = marker
      /\ Entry.component # "apply" => policy' = policy
      /\ Fault \/ UNCHANGED faults
      /\ \/ /\ Passes(task, task', "mark_rolled_back")
            /\ Entry.component = "apply" => policy' = Snapshot.policy
            /\ Entry.component # "apply" => marker' = NoMarker
         \/ RestoreError
  <2>1. CASE Entry.component = "apply"
    BY <2>1 DEF RestoreFile, Replaced, Goto, Passes
  <2>2. CASE Entry.component # "apply"
    BY <2>2 DEF RestoreFile, Replaced, Goto, Passes
  <2> QED
    BY <2>1, <2>2
<1>4. \/ /\ Passes(task, task', "mark_rolled_back")
         /\ Entry.component = "apply" => policy' = Snapshot.policy
         /\ Entry.component # "apply" => marker' = NoMarker
      \/ GivesUp(task, task')
  BY <1>2, <1>3, ErrorsGiveUp DEF MovingStates
<1>5. StepFits("mark_rolled_back", task.from, Entry) /\ "mark_rolled_back" \in RowSteps
  BY <1>2 DEF StepFits, FromAt, RowSteps, ApplySteps, BypassSteps, RestoreSteps, MarkSteps
<1>6. FlowInv'
  <2>1. faults' \in 0..MaxFaults /\ policy' \in Owned /\ marker' \in Nat
    BY <1>1, <1>3, RowTypes, FaultsType DEF FlowInv, TypeOK, NoMarker
  <2> QED
    BY <1>1, <1>3, <1>4, <1>5, <2>1, HostKeepsFlow
       DEF FlowInv, TypeOK, process, kernel, others, history, ByFamily
<1> QED
  BY <1>1, <1>3, <1>4, <1>6

-------------------------------------------------------------------------------
(* The flow is an invariant: the journal statements of a row.              *)

\* One statement has moved the row to another state, or has failed.
Wrote(t, u, j, k, to, detail, ok, bad) ==
    \/ /\ Moves(j, k, t.row, to, detail) /\ j[t.row].state = t.from
       /\ u = Arrived(t, ok, to) \/ u = After(t, bad)
    \/ k = j /\ u = After(t, bad)

LEMMA MoveFacts ==
    ASSUME NEW j, NEW k, NEW row, NEW to, NEW detail, Moves(j, k, row, to, detail)
    PROVE  /\ UnfinishedRows(j) \ {row} \subseteq UnfinishedRows(k)
           /\ JournalOK(j) /\ (detail \in GaveUpDetails => to = "FAILED") => JournalOK(k)
  BY DEF Moves, UnfinishedRows, JournalOK

LEMMA MarkKeepsFlow ==
    ASSUME FlowInv, task.step \in RowSteps,
           NEW to \in TransactionStates, NEW detail \in Details, NEW ok \in Outcomes,
           NEW bad \in {"fail", "roll_back", "mark_failed"},
           Transition(to, detail, ok, bad), UNCHANGED <<process, files, kernel, others>>,
           detail \in GaveUpDetails => to = "FAILED",
           bad = "roll_back" => task.from \in {"APPLYING", "VERIFYING"},
           bad = "mark_failed" => task.from \in {"PREPARED", "VALIDATED", "ROLLING_BACK"},
           ok \in Steps =>
               /\ ok \in RowSteps
               /\ \A e : e.state = to /\ e.component = Entry.component => StepFits(ok, to, e)
    PROVE  /\ Wrote(task, task', journal, journal', to, detail, ok, bad)
           /\ FlowInv'
<1>1. /\ task \in Tasks /\ FlowOK(task, journal) /\ task.row \in DOMAIN journal /\ TypeOK
      /\ JournalOK(journal) /\ bad \in Outcomes
  BY RowTypes DEF FlowInv, Outcomes, Steps
<1>2. /\ journal' \in Seq(Entries) /\ faults' \in 0..MaxFaults /\ task' \in Tasks
      /\ Wrote(task, task', journal, journal', to, detail, ok, bad)
  BY <1>1, TransitionEffect DEF Wrote
<1>3. /\ DOMAIN journal' = DOMAIN journal /\ UnfinishedRows(journal) \ {task.row} \subseteq UnfinishedRows(journal')
      /\ JournalOK(journal')
  BY <1>1, <1>2, MoveFacts DEF Wrote, Moves
<1>4. bad \in Steps => bad \in RowSteps /\ \A e : StepFits(bad, task.from, e)
  <2>1. CASE bad = "roll_back"
    BY <2>1 DEF StepFits, FromAt, RowSteps, ApplySteps, BypassSteps, MarkSteps
  <2>2. CASE bad = "mark_failed"
    BY <2>2 DEF StepFits, FromAt, RowSteps, ApplySteps, BypassSteps, MarkSteps
  <2>3. CASE bad = "fail"
    BY <2>3 DEF Steps
  <2> QED
    BY <2>1, <2>2, <2>3
<1>5. FlowOK(After(task, bad), journal')
  BY <1>1, <1>3, <1>4, AfterKeepsFlow
<1>6. ASSUME Moves(journal, journal', task.row, to, detail)
      PROVE  FlowOK(Arrived(task, ok, to), journal')
  <2>1. ok \in Steps => StepFits(ok, to, (journal')[task.row])
    <3>1. (journal')[task.row].state = to /\ (journal')[task.row].component = Entry.component
      BY <1>6 DEF Moves, Entry
    <3> QED
      BY <3>1
  <2> QED
    BY <1>1, <1>3, <2>1, ArrivedKeepsFlow
<1>7. FlowOK(task', journal')
  BY <1>2, <1>5, <1>6 DEF Wrote
<1>8. TypeOK'
  BY <1>1, <1>2, <1>3 DEF TypeOK, process, files, kernel, others, history
<1> QED
  BY <1>2, <1>3, <1>7, <1>8 DEF FlowInv

LEMMA ValidateEffect ==
    ASSUME FlowInv, Validate
    PROVE  /\ task.step = "validate" /\ task.from = "PREPARED"
           /\ \/ Wrote(task, task', journal, journal', "VALIDATED", "none", "mark_applying", "fail")
              \/ task' = After(task, "mark_failed") /\ journal' = journal
           /\ UNCHANGED <<process, files, kernel, others>>
           /\ FlowInv'
<1>1. task.step = "validate" /\ task.step \in RowSteps
  BY DEF Validate, RowSteps, MarkSteps
<1>2. task.from = "PREPARED"
  BY <1>1, RowTypes DEF StepFits, FromAt
<1>3. /\ "VALIDATED" \in TransactionStates /\ "none" \in Details /\ "mark_applying" \in Outcomes
      /\ \A e : e.state = "VALIDATED" => StepFits("mark_applying", "VALIDATED", e)
      /\ "mark_applying" \in RowSteps
  BY DEF TransactionStates, Details, Outcomes, Steps, StepFits, FromAt, RowSteps, MarkSteps,
         ApplySteps, BypassSteps
<1>4. CASE Transition("VALIDATED", "none", "mark_applying", "fail")
  BY <1>1, <1>2, <1>3, <1>4, MarkKeepsFlow DEF Validate, GaveUpDetails
<1>5. CASE Fault /\ Goto("mark_failed") /\ UNCHANGED journal
  <2>1. task' = After(task, "mark_failed")
    BY <1>5 DEF Goto, After
  <2>2. /\ task \in Tasks /\ FlowOK(task, journal)
        /\ "mark_failed" \in Outcomes /\ "mark_failed" \in RowSteps
        /\ StepFits("mark_failed", task.from, journal[task.row])
    BY <1>2 DEF FlowInv, TypeOK, Outcomes, Steps, StepFits, FromAt, RowSteps, MarkSteps, ApplySteps,
           BypassSteps
  <2>3. FlowOK(task', journal) /\ task' \in Tasks
    BY <1>1, <2>1, <2>2, AfterKeepsFlow, AfterType
  <2>4. faults' \in 0..MaxFaults
    BY <1>1, <1>5, RowTypes, FaultsType
  <2>5. TypeOK'
    BY <1>5, <2>3, <2>4 DEF FlowInv, TypeOK, Validate, process, files, kernel, others, history
  <2>6. FlowInv'
    BY <1>5, <2>3, <2>5 DEF FlowInv
  <2> QED
    BY <1>1, <1>2, <1>5, <2>1, <2>6 DEF Validate
<1> QED
  BY <1>4, <1>5 DEF Validate

LEMMA MarkApplyingEffect ==
    ASSUME FlowInv, MarkApplying
    PROVE  /\ task.step = "mark_applying" /\ task.from = "VALIDATED"
           /\ Wrote(task, task', journal, journal', "APPLYING", "none",
                    IF Entry.component = "apply" THEN "apply_nft" ELSE "activate_marker",
                    "mark_failed")
           /\ UNCHANGED <<process, files, kernel, others>>
           /\ FlowInv'
<1> DEFINE ok == IF Entry.component = "apply" THEN "apply_nft" ELSE "activate_marker"
<1>1. task.step = "mark_applying" /\ task.step \in RowSteps
  BY DEF MarkApplying, RowSteps, MarkSteps
<1>2. task.from = "VALIDATED" /\ Entry.component \in {"apply", "bypass"}
  BY <1>1, RowTypes DEF StepFits, FromAt, Entries
<1>3. /\ "APPLYING" \in TransactionStates /\ "none" \in Details /\ ok \in Outcomes
      /\ \A e : e.state = "APPLYING" /\ e.component = Entry.component => StepFits(ok, "APPLYING", e)
      /\ ok \in RowSteps
  BY <1>2 DEF TransactionStates, Details, Outcomes, Steps, StepFits, FromAt, RowSteps,
              ApplySteps, BypassSteps
<1> HIDE DEF ok
<1> QED
  BY <1>1, <1>2, <1>3, MarkKeepsFlow DEF MarkApplying, GaveUpDetails, ok

LEMMA MarkVerifyingEffect ==
    ASSUME FlowInv, MarkVerifying
    PROVE  /\ task.step = "mark_verifying" /\ task.from = "APPLYING"
           /\ \E bad \in {"fail", "roll_back"} :
                  Wrote(task, task', journal, journal', "VERIFYING", "none",
                        IF Entry.component = "apply" THEN "write_policy" ELSE "verify_bypass", bad)
           /\ UNCHANGED <<process, files, kernel, others>>
           /\ FlowInv'
<1> DEFINE ok == IF Entry.component = "apply" THEN "write_policy" ELSE "verify_bypass"
           bad == IF task.run = "recovery" THEN "fail" ELSE "roll_back"
<1>1. task.step = "mark_verifying" /\ task.step \in RowSteps
  BY DEF MarkVerifying, RowSteps, MarkSteps
<1>2. task.from = "APPLYING" /\ Entry.component \in {"apply", "bypass"}
  BY <1>1, RowTypes DEF StepFits, FromAt, Entries
<1>3. /\ "VERIFYING" \in TransactionStates /\ "none" \in Details /\ ok \in Outcomes
      /\ \A e : e.state = "VERIFYING" /\ e.component = Entry.component => StepFits(ok, "VERIFYING", e)
      /\ ok \in RowSteps /\ bad \in {"fail", "roll_back"}
  BY <1>2 DEF TransactionStates, Details, Outcomes, Steps, StepFits, FromAt, RowSteps,
              ApplySteps, BypassSteps
<1>4. Transition("VERIFYING", "none", ok, bad) /\ UNCHANGED <<process, files, kernel, others>>
  BY DEF MarkVerifying
<1> HIDE DEF ok, bad
<1> QED
  BY <1>1, <1>2, <1>3, <1>4, MarkKeepsFlow DEF GaveUpDetails, ok

LEMMA CommitEffect ==
    ASSUME FlowInv, Commit
    PROVE  /\ task.step = "commit" /\ task.from = "VERIFYING"
           /\ \E bad \in {"fail", "roll_back"} :
                  Wrote(task, task', journal, journal', "COMMITTED", "none", "succeed", bad)
           /\ UNCHANGED <<process, files, kernel, others>>
           /\ FlowInv'
<1> DEFINE bad == IF task.run = "recovery" THEN "fail" ELSE "roll_back"
<1>1. task.step = "commit" /\ task.step \in RowSteps
  BY DEF Commit, RowSteps, MarkSteps
<1>2. task.from = "VERIFYING"
  BY <1>1, RowTypes DEF StepFits, FromAt
<1>3. /\ "COMMITTED" \in TransactionStates /\ "none" \in Details /\ "succeed" \in Outcomes
      /\ "succeed" \notin Steps /\ bad \in {"fail", "roll_back"}
  BY DEF TransactionStates, Details, Outcomes, Steps
<1>4. Transition("COMMITTED", "none", "succeed", bad) /\ UNCHANGED <<process, files, kernel, others>>
  BY DEF Commit
<1> HIDE DEF bad
<1> QED
  BY <1>1, <1>2, <1>3, <1>4, MarkKeepsFlow DEF GaveUpDetails

LEMMA RollBackEffect ==
    ASSUME FlowInv, RollBack
    PROVE  /\ task.step = "roll_back" /\ task.from \in {"APPLYING", "VERIFYING"}
           /\ Wrote(task, task', journal, journal', "ROLLING_BACK", "interrupted",
                    RestoreStep(task.row), "fail")
           /\ UNCHANGED <<process, files, kernel, others>>
           /\ FlowInv'
<1> DEFINE ok == RestoreStep(task.row)
<1>1. task.step = "roll_back" /\ task.step \in RowSteps
  BY DEF RollBack, RowSteps, MarkSteps
<1>2. task.from \in {"APPLYING", "VERIFYING"} /\ Entry.component \in {"apply", "bypass"}
  BY <1>1, RowTypes DEF StepFits, FromAt, Entries
<1>3. /\ "ROLLING_BACK" \in TransactionStates /\ "interrupted" \in Details /\ ok \in Outcomes
      /\ \A e : e.state = "ROLLING_BACK" /\ e.component = Entry.component => StepFits(ok, "ROLLING_BACK", e)
      /\ ok \in RowSteps
  <2>1. \/ ok = "remove_candidate" /\ Entry.component = "apply"
        \/ ok \in {"bypass_policy", "restore_nft"} /\ Entry.component = "bypass"
    BY <1>2 DEF RestoreStep, Entry
  <2> HIDE DEF ok
  <2> QED
    BY <2>1 DEF TransactionStates, Details, Outcomes, Steps, StepFits, FromAt, RowSteps,
              ApplySteps, BypassSteps, RestoreSteps, MovingStates
<1> HIDE DEF ok
<1> QED
  BY <1>1, <1>2, <1>3, MarkKeepsFlow DEF RollBack, GaveUpDetails, ok

LEMMA MarkRollingBackEffect ==
    ASSUME FlowInv, MarkRollingBack
    PROVE  /\ task.step = "mark_rolling_back" /\ task.from = "COMMITTED"
           /\ Wrote(task, task', journal, journal', "ROLLING_BACK", "operator_requested",
                    IF Entry.component = "apply" THEN "remove_candidate" ELSE "restore_nft", "fail")
           /\ UNCHANGED <<process, files, kernel, others>>
           /\ FlowInv'
<1> DEFINE ok == IF Entry.component = "apply" THEN "remove_candidate" ELSE "restore_nft"
<1>1. task.step = "mark_rolling_back" /\ task.step \in RowSteps
  BY DEF MarkRollingBack, RowSteps, MarkSteps
<1>2. task.from = "COMMITTED" /\ Entry.component \in {"apply", "bypass"}
  BY <1>1, RowTypes DEF StepFits, FromAt, Entries
<1>3. /\ "ROLLING_BACK" \in TransactionStates /\ "operator_requested" \in Details /\ ok \in Outcomes
      /\ \A e : e.state = "ROLLING_BACK" /\ e.component = Entry.component => StepFits(ok, "ROLLING_BACK", e)
      /\ ok \in RowSteps
  BY <1>2 DEF TransactionStates, Details, Outcomes, Steps, StepFits, FromAt, RowSteps,
              ApplySteps, BypassSteps, RestoreSteps, MovingStates
<1> HIDE DEF ok
<1> QED
  BY <1>1, <1>2, <1>3, MarkKeepsFlow DEF MarkRollingBack, GaveUpDetails, ok

LEMMA MarkRolledBackEffect ==
    ASSUME FlowInv, MarkRolledBack
    PROVE  /\ task.step = "mark_rolled_back" /\ task.from = "ROLLING_BACK"
           /\ \E ok \in {"fail", "succeed"}, detail \in {"operator_requested", "interrupted"} :
                  Wrote(task, task', journal, journal', "ROLLED_BACK", detail, ok, "fail")
           /\ UNCHANGED <<process, files, kernel, others>>
           /\ FlowInv'
<1> DEFINE ok == IF task.run = "reconcile" THEN "fail" ELSE "succeed"
           detail == IF task.run = "rollback" THEN "operator_requested" ELSE "interrupted"
<1>1. task.step = "mark_rolled_back" /\ task.step \in RowSteps
  BY DEF MarkRolledBack, RowSteps, MarkSteps
<1>2. task.from = "ROLLING_BACK"
  BY <1>1, RowTypes DEF StepFits, FromAt
<1>3. /\ "ROLLED_BACK" \in TransactionStates /\ detail \in Details /\ ok \in Outcomes
      /\ ok \notin Steps /\ ok \in {"fail", "succeed"} /\ detail \notin GaveUpDetails
      /\ detail \in {"operator_requested", "interrupted"}
  BY DEF TransactionStates, Details, Outcomes, Steps, GaveUpDetails
<1>4. Transition("ROLLED_BACK", detail, ok, "fail") /\ UNCHANGED <<process, files, kernel, others>>
  BY DEF MarkRolledBack
<1> HIDE DEF ok, detail
<1>5. Wrote(task, task', journal, journal', "ROLLED_BACK", detail, ok, "fail") /\ FlowInv'
  BY <1>1, <1>2, <1>3, <1>4, MarkKeepsFlow
<1> QED
  BY <1>1, <1>2, <1>3, <1>4, <1>5

LEMMA MarkFailedEffect ==
    ASSUME FlowInv, MarkFailed
    PROVE  /\ task.step = "mark_failed" /\ task.from \in {"PREPARED", "VALIDATED", "ROLLING_BACK"}
           /\ Wrote(task, task', journal, journal', "FAILED",
                    IF task.from = "ROLLING_BACK" THEN "rollback_failed" ELSE "not_applied",
                    "fail", "fail")
           /\ UNCHANGED <<process, files, kernel, others>>
           /\ FlowInv'
<1> DEFINE detail == IF task.from = "ROLLING_BACK" THEN "rollback_failed" ELSE "not_applied"
<1>1. task.step = "mark_failed" /\ task.step \in RowSteps
  BY DEF MarkFailed, RowSteps, MarkSteps
<1>2. task.from \in {"PREPARED", "VALIDATED", "ROLLING_BACK"}
  BY <1>1, RowTypes DEF StepFits, FromAt
<1>3. "FAILED" \in TransactionStates /\ detail \in Details /\ "fail" \in Outcomes /\ "fail" \notin Steps
  BY DEF TransactionStates, Details, Outcomes, Steps
<1> HIDE DEF detail
<1> QED
  BY <1>1, <1>2, <1>3, MarkKeepsFlow DEF MarkFailed, detail

LEMMA MarkInterruptedEffect ==
    ASSUME FlowInv, MarkInterrupted
    PROVE  /\ task.step = "mark_interrupted" /\ task.from \in {"PREPARED", "VALIDATED"}
           /\ Wrote(task, task', journal, journal', "FAILED", "not_applied", "succeed", "fail")
           /\ UNCHANGED <<process, files, kernel, others>>
           /\ FlowInv'
<1>1. task.step = "mark_interrupted" /\ task.step \in RowSteps
  BY DEF MarkInterrupted, RowSteps, MarkSteps
<1>2. task.from \in {"PREPARED", "VALIDATED"}
  BY <1>1, RowTypes DEF StepFits, FromAt
<1>3. /\ "FAILED" \in TransactionStates /\ "not_applied" \in Details /\ "succeed" \in Outcomes
      /\ "succeed" \notin Steps
  BY DEF TransactionStates, Details, Outcomes, Steps
<1> QED
  BY <1>1, <1>2, <1>3, MarkKeepsFlow DEF MarkInterrupted, GaveUpDetails

LEMMA MarkDamagedEffect ==
    ASSUME FlowInv, MarkDamaged
    PROVE  /\ task.step = "mark_damaged" /\ task.from \in MovingStates
           /\ Wrote(task, task', journal, journal', "FAILED", "snapshot_authentication_failed",
                    "fail", "fail")
           /\ UNCHANGED <<process, files, kernel, others>>
           /\ FlowInv'
<1>1. task.step = "mark_damaged" /\ task.step \in RowSteps
  BY DEF MarkDamaged, RowSteps, MarkSteps
<1>2. task.from \in MovingStates
  BY <1>1, RowTypes DEF StepFits, FromAt
<1>3. /\ "FAILED" \in TransactionStates /\ "snapshot_authentication_failed" \in Details
      /\ "fail" \in Outcomes /\ "fail" \notin Steps
  BY DEF TransactionStates, Details, Outcomes, Steps
<1> QED
  BY <1>1, <1>2, <1>3, MarkKeepsFlow DEF MarkDamaged

-------------------------------------------------------------------------------
(* The flow is an invariant: requests, recovery runs and the environment.  *)

\* The row a new operation writes: it protects what the host holds now.
Fresh(e, component, document, s, p, n, m) ==
    /\ e.component = component /\ e.candidate = document
    /\ e.state = "PREPARED" /\ e.detail = "none"
    /\ e.snapshot.singbox = s /\ e.snapshot.policy = p
    /\ e.snapshot.nft = n /\ e.snapshot.marker = m

LEMMA AppendFacts ==
    ASSUME NEW j \in Seq(Entries), NEW e \in Entries
    PROVE  /\ Append(j, e) \in Seq(Entries)
           /\ Len(j) + 1 \in Nat /\ Len(j) + 1 \notin DOMAIN j
           /\ DOMAIN Append(j, e) = DOMAIN j \cup {Len(j) + 1}
           /\ Append(j, e)[Len(j) + 1] = e
           /\ \A row \in DOMAIN j : Append(j, e)[row] = j[row] /\ row < Len(j) + 1 /\ row \in Nat
<1>1. Len(j) \in Nat /\ DOMAIN j = 1..Len(j) /\ DOMAIN Append(j, e) = 1..(Len(j) + 1)
  BY AppendProperties
<1>2. 1..(Len(j) + 1) = 1..Len(j) \cup {Len(j) + 1}
  BY <1>1
<1> QED
  BY <1>1, <1>2, AppendProperties

\* CreateOperation writes the row and the operation begins, or its error ends the
\* request whether or not the row is there.
Began(t, u, j, k, o, o2, e, config, run) ==
    \/ /\ k = Append(j, e)
       /\ u.step = "validate" /\ u.row = Len(j) + 1 /\ u.config = config /\ u.run = run
       /\ o \subseteq o2 /\ (o2 = {} => UnfinishedRows(j) = {})
    \/ /\ k \in {j, Append(j, e)} /\ o2 = o
       /\ \/ u = IdleTask /\ run # "reconcile"
          \/ u.step = "finish_recovery" /\ u.run = t.run /\ u.erred

LEMMA BeginEffect ==
    ASSUME FlowInv, NEW component \in {"apply", "bypass"}, NEW document \in Owned, NEW config \in Owned,
           NEW run \in {"client", "reconcile"},
           run = "reconcile" => task.run = "recovery",
           component = "apply" => document \in SUBSET Routes,
           Begin(component, document, config, run)
    PROVE  \E e \in Entries :
               /\ Fresh(e, component, document, singbox, policy, nft, marker)
               /\ Began(task, task', journal, journal', overtook, overtook', e, config, run)
               /\ journal' \in Seq(Entries) /\ task' \in Tasks /\ faults' \in 0..MaxFaults
               /\ overtook' \subseteq DOMAIN journal'
               /\ JournalOK(journal') /\ FlowOK(task', journal')
<1> DEFINE snapshot == [singbox |-> singbox, policy |-> policy, nft |-> nft, marker |-> marker]
           e == [id |-> Len(journal) + 1, component |-> component, state |-> "PREPARED",
                 snapshot |-> snapshot, candidate |-> document, detail |-> "none", damage |-> "none"]
           top == Len(journal) + 1
           opened == [IdleTask EXCEPT !.run = run, !.step = "validate", !.row = top,
                                      !.config = config, !.resume = task.resume]
           ended == [task EXCEPT !.step = "finish_recovery", !.erred = TRUE]
<1>1. /\ journal \in Seq(Entries) /\ task \in Tasks /\ faults \in 0..MaxFaults
      /\ overtook \subseteq DOMAIN journal
      /\ singbox \in Owned /\ policy \in Owned /\ nft \in Owned /\ marker \in Nat
      /\ JournalOK(journal) /\ FlowOK(task, journal)
  BY DEF FlowInv, TypeOK
<1>2. e \in Entries
  <2>1. snapshot \in Snapshots
    BY <1>1 DEF Snapshots
  <2>2. Len(journal) + 1 \in Nat /\ "PREPARED" \in TransactionStates /\ "none" \in Details
    BY <1>1 DEF TransactionStates, Details
  <2> HIDE DEF snapshot
  <2> QED
    BY <2>1, <2>2 DEF Entries
<1>3. Fresh(e, component, document, singbox, policy, nft, marker)
  BY DEF Fresh
<1>4. Created(journal, top, component, snapshot, document) = Append(journal, e)
  BY DEF Created
<1> HIDE DEF e
<1>5. /\ Append(journal, e) \in Seq(Entries) /\ top \in Nat /\ top \notin DOMAIN journal
      /\ DOMAIN Append(journal, e) = DOMAIN journal \cup {top}
      /\ Append(journal, e)[top] = e
      /\ \A row \in DOMAIN journal : Append(journal, e)[row] = journal[row]
      /\ Len(Append(journal, e)) = top
  BY <1>1, <1>2, AppendFacts, AppendProperties
<1>6. /\ JournalOK(Append(journal, e))
      /\ UnfinishedRows(journal) \subseteq UnfinishedRows(Append(journal, e))
  <2>1. /\ component = "apply" => e.candidate \in SUBSET Routes
        /\ e.component = component /\ e.detail = "none"
    BY <1>3 DEF Fresh
  <2> QED
    BY <1>1, <1>5, <2>1 DEF JournalOK, UnfinishedRows, GaveUpDetails
<1>7. /\ opened \in Tasks /\ opened.step = "validate" /\ opened.row = top /\ opened.config = config
      /\ opened.run = run /\ opened.queue = {} /\ opened.from = "PREPARED"
  <2>1. IdleTask \in Tasks /\ IdleTask.queue = {} /\ IdleTask.from = "PREPARED"
    BY IdleTaskType DEF IdleTask
  <2>2. run \in Runs /\ "validate" \in Steps /\ task.resume \in BOOLEAN
    BY <1>1 DEF Runs, Steps, Tasks
  <2> QED
    BY <1>5, <2>1, <2>2 DEF Tasks
<1>8. FlowOK(opened, Append(journal, e))
  <2>1. StepFits("validate", "PREPARED", e)
    BY <1>3 DEF Fresh, StepFits, FromAt, ApplySteps, BypassSteps
  <2> HIDE DEF opened
  <2> QED
    BY <1>5, <1>7, <2>1 DEF FlowOK
<1>9. /\ ended \in Tasks /\ ended.step = "finish_recovery" /\ ended.run = task.run /\ ended.erred
      /\ ended.queue = task.queue
  <2>1. "finish_recovery" \in Steps
    BY DEF Steps
  <2> QED
    BY <1>1, <2>1 DEF Tasks
<1>10. \A k \in {journal, Append(journal, e)} :
           /\ run = "reconcile" => FlowOK(ended, k)
           /\ FlowOK(IdleTask, k)
  <2>1. \A k \in {journal, Append(journal, e)} : task.queue \subseteq UnfinishedRows(k)
    BY <1>1, <1>6 DEF FlowOK
  <2>2. IdleTask.queue = {} /\ IdleTask.step = "idle"
    BY DEF IdleTask
  <2> HIDE DEF ended
  <2> QED
    BY <1>9, <2>1, <2>2 DEF FlowOK, RowSteps, ApplySteps, BypassSteps, RestoreSteps, MarkSteps
<1> HIDE DEF opened, ended, snapshot
<1>11. CASE /\ journal' = Append(journal, e) /\ task' = opened
            /\ overtook' = IF UnfinishedRows(journal) = {} THEN overtook ELSE overtook \cup {top}
            /\ UNCHANGED faults
  <2>1. overtook \subseteq overtook' /\ (overtook' = {} => UnfinishedRows(journal) = {})
        /\ overtook' \subseteq DOMAIN journal'
    BY <1>1, <1>5, <1>11
  <2>2. Began(task, task', journal, journal', overtook, overtook', e, config, run)
    BY <1>7, <1>11, <2>1 DEF Began
  <2> QED
    BY <1>1, <1>2, <1>3, <1>5, <1>6, <1>7, <1>8, <1>11, <2>1, <2>2
<1>12. CASE /\ Fault /\ journal' \in {journal, Append(journal, e)} /\ UNCHANGED overtook
            /\ task' = IF run = "reconcile" THEN ended ELSE IdleTask
  <2>1. overtook' \subseteq DOMAIN journal' /\ faults' \in 0..MaxFaults
    BY <1>1, <1>5, <1>12, FaultsType
  <2>2. Began(task, task', journal, journal', overtook, overtook', e, config, run)
    BY <1>9, <1>12 DEF Began
  <2> QED
    BY <1>1, <1>2, <1>3, <1>5, <1>6, <1>9, <1>10, <1>12, <2>1, <2>2, IdleTaskType
<1> QED
  BY <1>4, <1>5, <1>11, <1>12 DEF Begin, opened, ended, snapshot

LEMMA ApplyRequestedEffect ==
    ASSUME FlowInv, NEW document \in Documents, ApplyRequested(document)
    PROVE  /\ Idle /\ Gate /\ marker = NoMarker
           /\ \E e \in Entries :
                  /\ Fresh(e, "apply", document, singbox, policy, nft, marker)
                  /\ Began(task, task', journal, journal', overtook, overtook', e, document, "client")
           /\ UNCHANGED <<process, files, kernel, recoveries, crashes, lost>>
           /\ FlowInv'
<1>1. document \in Owned /\ document \in SUBSET Routes
  BY RoutingAssumption DEF Owned
<1>2. /\ Begin("apply", document, document, "client")
      /\ UNCHANGED <<process, files, kernel, recoveries, crashes, lost>>
      /\ Idle /\ Gate /\ marker = NoMarker
  BY DEF ApplyRequested
<1>3. PICK e \in Entries :
          /\ Fresh(e, "apply", document, singbox, policy, nft, marker)
          /\ Began(task, task', journal, journal', overtook, overtook', e, document, "client")
          /\ journal' \in Seq(Entries) /\ task' \in Tasks /\ faults' \in 0..MaxFaults
          /\ overtook' \subseteq DOMAIN journal'
          /\ JournalOK(journal') /\ FlowOK(task', journal')
  BY <1>1, <1>2, BeginEffect
<1>4. FlowInv'
  BY <1>2, <1>3 DEF FlowInv, TypeOK, process, files, kernel
<1> QED
  BY <1>2, <1>3, <1>4

LEMMA BypassRequestedEffect ==
    ASSUME FlowInv, BypassRequested
    PROVE  /\ Idle /\ ~Off(RoutesOf(policy))
           /\ \E e \in Entries :
                  /\ Fresh(e, "bypass", Absent, singbox, policy, nft, marker)
                  /\ Began(task, task', journal, journal', overtook, overtook', e, Absent, "client")
           /\ UNCHANGED <<process, files, kernel, recoveries, crashes, lost>>
           /\ FlowInv'
<1>1. Absent \in Owned
  BY DEF Owned
<1>2. /\ Begin("bypass", Absent, Absent, "client")
      /\ UNCHANGED <<process, files, kernel, recoveries, crashes, lost>>
      /\ Idle /\ ~Off(RoutesOf(policy))
  BY DEF BypassRequested
<1>3. PICK e \in Entries :
          /\ Fresh(e, "bypass", Absent, singbox, policy, nft, marker)
          /\ Began(task, task', journal, journal', overtook, overtook', e, Absent, "client")
          /\ journal' \in Seq(Entries) /\ task' \in Tasks /\ faults' \in 0..MaxFaults
          /\ overtook' \subseteq DOMAIN journal'
          /\ JournalOK(journal') /\ FlowOK(task', journal')
  BY <1>1, <1>2, BeginEffect
<1>4. FlowInv'
  BY <1>2, <1>3 DEF FlowInv, TypeOK, process, files, kernel
<1> QED
  BY <1>2, <1>3, <1>4

\* A task that works on no row.
LEMMA OutsideKeepsFlow ==
    ASSUME NEW u \in Tasks, NEW k, u.queue \subseteq UnfinishedRows(k), u.step \notin RowSteps,
           u.step \in {"next_operation", "reconcile", "deactivate_marker", "finish_recovery"} =>
               u.run = "recovery"
    PROVE  FlowOK(u, k)
  BY DEF FlowOK

LEMMA IdleKeepsFlow ==
    ASSUME NEW k
    PROVE  FlowOK(IdleTask, k) /\ IdleTask.step = "idle" /\ IdleTask.run = "none" /\ IdleTask.row = 0
<1>1. IdleTask.queue = {} /\ IdleTask.step = "idle" /\ IdleTask.run = "none" /\ IdleTask.row = 0
  BY DEF IdleTask
<1> QED
  BY <1>1, IdleTaskType, OutsideKeepsFlow
     DEF RowSteps, ApplySteps, BypassSteps, RestoreSteps, MarkSteps

LEMMA RollbackRequestedEffect ==
    ASSUME FlowInv, RollbackRequested
    PROVE  /\ Idle /\ Gate
           /\ \E row \in DOMAIN journal :
                  /\ IsLatestCommitted(journal, row) /\ MayRollBack(row)
                  /\ (task').row = row /\ (task').step = "mark_rolling_back" /\ (task').run = "rollback"
           /\ UNCHANGED <<process, journal, files, kernel, counters, history>>
           /\ FlowInv'
<1>1. PICK row \in DOMAIN journal :
          /\ IsLatestCommitted(journal, row) /\ MayRollBack(row)
          /\ task' = [IdleTask EXCEPT !.run = "rollback", !.step = "mark_rolling_back",
                                      !.row = row, !.from = "COMMITTED"]
  BY DEF RollbackRequested
<1>2. /\ Idle /\ Gate
      /\ UNCHANGED <<process, journal, files, kernel, counters, history>>
  BY DEF RollbackRequested
<1>3. row \in Nat
  BY <1>1 DEF FlowInv, TypeOK
<1>4. /\ task' \in Tasks /\ (task').row = row /\ (task').step = "mark_rolling_back"
      /\ (task').run = "rollback" /\ (task').queue = {} /\ (task').from = "COMMITTED"
  <2>1. IdleTask \in Tasks /\ IdleTask.queue = {}
    BY IdleTaskType DEF IdleTask
  <2>2. "rollback" \in Runs /\ "mark_rolling_back" \in Steps /\ "COMMITTED" \in TransactionStates
    BY DEF Runs, Steps, TransactionStates
  <2> QED
    BY <1>1, <1>3, <2>1, <2>2 DEF Tasks
<1>5. FlowOK(task', journal)
  <2>1. journal[row].state = "COMMITTED"
    BY <1>1 DEF IsLatestCommitted
  <2>2. StepFits("mark_rolling_back", "COMMITTED", journal[row])
    BY <2>1 DEF StepFits, FromAt, ApplySteps, BypassSteps
  <2> QED
    BY <1>1, <1>4, <2>2 DEF FlowOK
<1>6. FlowInv'
  BY <1>2, <1>4, <1>5 DEF FlowInv, TypeOK, process, files, kernel, counters, history
<1> QED
  BY <1>1, <1>2, <1>4, <1>6

LEMMA StartRecoveryTask ==
    ASSUME FlowInv, NEW resume \in BOOLEAN, StartRecovery(resume)
    PROVE  /\ task' \in Tasks /\ FlowOK(task', journal)
           /\ (task').step = "next_operation" /\ (task').run = "recovery"
<1>1. task' = [IdleTask EXCEPT !.run = "recovery", !.step = "next_operation",
                               !.queue = UnfinishedRows(journal), !.resume = resume]
  BY DEF StartRecovery
<1>2. UnfinishedRows(journal) \in SUBSET Nat
  BY DEF UnfinishedRows, FlowInv, TypeOK
<1>3. /\ task' \in Tasks /\ (task').step = "next_operation" /\ (task').run = "recovery"
      /\ (task').queue = UnfinishedRows(journal)
  <2>1. "recovery" \in Runs /\ "next_operation" \in Steps
    BY DEF Runs, Steps
  <2> QED
    BY <1>1, <1>2, <2>1, IdleTaskType DEF Tasks
<1> QED
  BY <1>3, OutsideKeepsFlow DEF RowSteps, ApplySteps, BypassSteps, RestoreSteps, MarkSteps

LEMMA StartEffect ==
    ASSUME FlowInv, Start
    PROVE  /\ (task').step = "next_operation" /\ (task').run = "recovery"
           /\ UNCHANGED <<tracker, journal, files, kernel, counters, overtook>>
           /\ FlowInv'
<1>1. /\ StartRecovery(FALSE) /\ up' = TRUE /\ lost' = FALSE
      /\ UNCHANGED <<tracker, journal, files, kernel, counters, overtook>>
  BY DEF Start, StartRecovery
<1>2. /\ task' \in Tasks /\ FlowOK(task', journal)
      /\ (task').step = "next_operation" /\ (task').run = "recovery"
  BY <1>1, StartRecoveryTask
<1> QED
  BY <1>1, <1>2 DEF FlowInv, TypeOK, files, kernel, counters

LEMMA RecoveryRequestedEffect ==
    ASSUME FlowInv, RecoveryRequested
    PROVE  /\ (task').step = "next_operation" /\ (task').run = "recovery"
           /\ UNCHANGED <<process, journal, files, kernel, faults, crashes, overtook>>
           /\ FlowInv'
<1>1. /\ StartRecovery(TRUE) /\ lost' = FALSE
      /\ recoveries < MaxRecoveries /\ recoveries' = recoveries + 1
      /\ UNCHANGED <<process, journal, files, kernel, faults, crashes, overtook>>
  BY DEF RecoveryRequested, StartRecovery
<1>2. /\ task' \in Tasks /\ FlowOK(task', journal)
      /\ (task').step = "next_operation" /\ (task').run = "recovery"
  BY <1>1, StartRecoveryTask
<1>3. recoveries' \in 0..MaxRecoveries
  BY <1>1, RoutingAssumption DEF FlowInv, TypeOK
<1> QED
  BY <1>1, <1>2, <1>3 DEF FlowInv, TypeOK, process, files, kernel

\* The order of natural numbers, as a set.
Less == {pair \in Nat \X Nat : pair[1] < pair[2]}

\* A set of numbers with a member has a least one.
LEMMA LeastElement ==
    ASSUME NEW S, S \subseteq Nat, S # {} PROVE \E m \in S : \A n \in S : m <= n
<1>1. IsWellFoundedOn(Less, Nat)
  BY NatLessThanWellFounded DEF OpToRel, Less
<1>2. PICK m \in S : \A n \in S : <<n, m>> \notin Less
  BY <1>1, WFMin
<1>3. ASSUME NEW n \in S PROVE m <= n
  <2>1. <<n, m>> \in Nat \X Nat /\ <<n, m>>[1] = n /\ <<n, m>>[2] = m
    OBVIOUS
  <2>2. ~(n < m)
    BY <1>2, <2>1 DEF Less
  <2> QED
    BY <2>2
<1> QED
  BY <1>3

LEMMA RecoveryStepFits ==
    ASSUME NEW row, journal[row] \in Entries, journal[row].state \notin FinishedStates
    PROVE  /\ RecoveryStep(row) \in RowSteps \cap Steps
           /\ StepFits(RecoveryStep(row), journal[row].state, journal[row])
           /\ RecoveryStep(row) \notin {"validate", "mark_applying", "mark_rolling_back", "commit"}
           /\ RecoveryStep(row) \in RestoreSteps =>
                  /\ RecoveryStep(row) = "restore_nft" /\ journal[row].component = "bypass"
                  /\ journal[row].snapshot.marker = NoMarker /\ journal[row].state = "ROLLING_BACK"
           /\ RecoveryStep(row) \in ApplySteps => RecoveryStep(row) = "remove_candidate"
           /\ RecoveryStep(row) \in BypassSteps =>
                  \/ RecoveryStep(row) = "activate_marker"
                  \/ /\ RecoveryStep(row) = "bypass_policy" /\ journal[row].state = "ROLLING_BACK"
                     /\ journal[row].snapshot.marker # NoMarker
           /\ RecoveryStep(row) \notin {"mark_verifying", "mark_rolled_back"}
<1> DEFINE e == journal[row]
           step == RecoveryStep(row)
<1>1. e.state \in {"PREPARED", "VALIDATED", "APPLYING", "VERIFYING", "ROLLING_BACK"}
      /\ e.component \in {"apply", "bypass"}
  BY DEF Entries, TransactionStates, FinishedStates
<1>2. \/ step = "mark_interrupted" /\ e.state \in {"PREPARED", "VALIDATED"}
      \/ step = "mark_damaged" /\ e.state \in MovingStates
      \/ step = "remove_candidate" /\ e.state = "ROLLING_BACK" /\ e.component = "apply"
      \/ step = "bypass_policy" /\ e.state = "ROLLING_BACK" /\ e.component = "bypass" /\ e.snapshot.marker # NoMarker
      \/ step = "restore_nft" /\ e.state = "ROLLING_BACK" /\ e.component = "bypass" /\ e.snapshot.marker = NoMarker
      \/ step = "activate_marker" /\ e.state \in {"APPLYING", "VERIFYING"} /\ e.component = "bypass"
      \/ step = "roll_back" /\ e.state \in {"APPLYING", "VERIFYING"}
  BY <1>1 DEF RecoveryStep, RestoreStep, MovingStates
<1> HIDE DEF e, step
<1>3. /\ step \in RowSteps \cap Steps /\ StepFits(step, e.state, e)
      /\ step \notin {"validate", "mark_applying", "mark_rolling_back", "commit", "mark_verifying",
                      "mark_rolled_back"}
  BY <1>2 DEF StepFits, FromAt, RowSteps, ApplySteps, BypassSteps, RestoreSteps, MarkSteps, Steps,
              MovingStates
<1>4. /\ step \in RestoreSteps =>
             /\ step = "restore_nft" /\ e.component = "bypass"
             /\ e.snapshot.marker = NoMarker /\ e.state = "ROLLING_BACK"
      /\ step \in ApplySteps => step = "remove_candidate"
      /\ step \in BypassSteps =>
             \/ step = "activate_marker"
             \/ step = "bypass_policy" /\ e.state = "ROLLING_BACK" /\ e.snapshot.marker # NoMarker
  BY <1>2 DEF ApplySteps, BypassSteps, RestoreSteps
<1> QED
  BY <1>3, <1>4 DEF e, step

LEMMA NextOperationEffect ==
    ASSUME FlowInv, NextOperation
    PROVE  /\ task.step = "next_operation"
           /\ (task').row \in UnfinishedRows(journal) /\ (task').step = RecoveryStep((task').row)
           /\ (task').run = "recovery"
           /\ UNCHANGED <<process, journal, files, kernel, counters, history>>
           /\ FlowInv'
<1> DEFINE row == CHOOSE r \in task.queue : \A other \in task.queue : r <= other
<1>1. /\ task.step = "next_operation" /\ task.queue # {}
      /\ task' = [task EXCEPT !.queue = @ \ {row}, !.row = row,
                              !.from = journal[row].state, !.step = RecoveryStep(row)]
      /\ UNCHANGED <<process, journal, files, kernel, counters, history>>
  BY DEF NextOperation
<1>2. /\ task \in Tasks /\ journal \in Seq(Entries) /\ task.queue \subseteq UnfinishedRows(journal)
      /\ task.run = "recovery"
  BY <1>1 DEF FlowInv, TypeOK, FlowOK
<1>3. task.queue \subseteq Nat
  BY <1>2 DEF Tasks
<1>4. row \in task.queue
  BY <1>1, <1>3, LeastElement
<1> HIDE DEF row
<1>5. row \in DOMAIN journal /\ journal[row] \in Entries /\ journal[row].state \notin FinishedStates
      /\ row \in Nat /\ row \in UnfinishedRows(journal)
  BY <1>2, <1>4 DEF UnfinishedRows
<1>6. RecoveryStep(row) \in RowSteps \cap Steps /\ StepFits(RecoveryStep(row), journal[row].state, journal[row])
  BY <1>5, RecoveryStepFits
<1>7. /\ task' \in Tasks /\ (task').row = row /\ (task').step = RecoveryStep(row)
      /\ (task').queue = task.queue \ {row} /\ (task').from = journal[row].state
      /\ (task').run = "recovery"
  <2>1. journal[row].state \in TransactionStates
    BY <1>5 DEF Entries
  <2> QED
    BY <1>1, <1>2, <1>5, <1>6, <2>1 DEF Tasks
<1>8. FlowOK(task', journal)
  BY <1>2, <1>5, <1>6, <1>7 DEF FlowOK, RowSteps, ApplySteps, BypassSteps, RestoreSteps, MarkSteps
<1>9. FlowInv'
  BY <1>1, <1>7, <1>8 DEF FlowInv, TypeOK, process, files, kernel, counters, history
<1> QED
  BY <1>1, <1>5, <1>7, <1>9

\* A recovery run has ended.
LEMMA EndRecoveryTypes ==
    ASSUME FlowInv, NEW outcome \in {"succeeded", "failed"}, EndRecovery(outcome)
    PROVE  /\ tracker' \in {"none", "succeeded", "failed"} /\ tracker' = outcome
           /\ task' \in Tasks /\ task' = IdleTask
           /\ (task').step = "idle" /\ (task').run = "none"
           /\ \A k : FlowOK(task', k)
  BY IdleTaskType, IdleKeepsFlow DEF EndRecovery

LEMMA JournalCheckEffect ==
    ASSUME FlowInv, JournalCheck
    PROVE  /\ task.step = "next_operation" /\ task.run = "recovery"
           /\ \/ tracker' = "failed" /\ task' = IdleTask
              \/ /\ UnfinishedRows(journal) = {} /\ UNCHANGED tracker
                 /\ (task').run = "recovery"
                 /\ \/ (task').step = "finish_recovery" /\ (marker # NoMarker \/ policy = Absent)
                    \/ (task').step = "deactivate_marker"
                    \/ (task').step = "reconcile" /\ marker = NoMarker
           /\ UNCHANGED <<up, journal, files, kernel, counters, history>>
           /\ FlowInv'
<1>1. /\ task.step = "next_operation"
      /\ UNCHANGED <<up, journal, files, kernel, counters, history>>
      /\ \/ EndRecovery("failed")
         \/ UnfinishedRows(journal) = {} /\ Goto(ReconcileStep) /\ UNCHANGED tracker
  BY DEF JournalCheck
<1>2. task \in Tasks /\ task.run = "recovery" /\ task.queue \subseteq UnfinishedRows(journal)
  BY <1>1 DEF FlowInv, TypeOK, FlowOK
<1>3. CASE EndRecovery("failed")
  <2>1. /\ tracker' \in {"none", "succeeded", "failed"} /\ tracker' = "failed"
        /\ task' \in Tasks /\ task' = IdleTask /\ FlowOK(task', journal)
    BY <1>3, EndRecoveryTypes
  <2>2. FlowInv'
    BY <1>1, <2>1 DEF FlowInv, TypeOK, files, kernel, counters, history
  <2> QED
    BY <1>1, <1>2, <2>1, <2>2
<1>4. CASE UnfinishedRows(journal) = {} /\ Goto(ReconcileStep) /\ UNCHANGED tracker
  <2>1. \/ ReconcileStep = "finish_recovery" /\ (marker # NoMarker \/ policy = Absent)
        \/ ReconcileStep = "deactivate_marker"
        \/ ReconcileStep = "reconcile" /\ marker = NoMarker
    BY <1>2 DEF ReconcileStep, Tasks
  <2>2. ReconcileStep \in Steps \ RowSteps
    BY <2>1 DEF Steps, RowSteps, ApplySteps, BypassSteps, RestoreSteps, MarkSteps
  <2>3. /\ task' \in Tasks /\ (task').step = ReconcileStep /\ (task').run = "recovery"
        /\ (task').queue = task.queue
    BY <1>2, <1>4, <2>2 DEF Goto, Tasks
  <2>4. FlowOK(task', journal)
    BY <1>2, <2>2, <2>3, OutsideKeepsFlow
  <2>5. FlowInv'
    BY <1>1, <1>4, <2>3, <2>4 DEF FlowInv, TypeOK, files, kernel, counters, history
  <2> QED
    BY <1>1, <1>2, <1>4, <2>1, <2>3, <2>5
<1> QED
  BY <1>1, <1>3, <1>4

LEMMA DeactivateMarkerEffect ==
    ASSUME FlowInv, DeactivateMarker
    PROVE  /\ task.step = "deactivate_marker"
           /\ marker' \in {marker, NoMarker}
           /\ \/ tracker' = "failed" /\ task' = IdleTask
              \/ /\ UNCHANGED tracker /\ marker' = NoMarker
                 /\ (task').run = "recovery"
                 /\ \/ (task').step = "finish_recovery" /\ policy = Absent
                    \/ (task').step = "reconcile"
           /\ UNCHANGED <<up, journal, singbox, policy, kernel, others>>
           /\ FlowInv'
<1> DEFINE next == IF policy = Absent THEN "finish_recovery" ELSE "reconcile"
<1>1. /\ task.step = "deactivate_marker"
      /\ UNCHANGED <<up, journal, singbox, policy, kernel, others>>
      /\ marker' \in {marker, NoMarker}
      /\ Fault \/ UNCHANGED faults
      /\ \/ EndRecovery("failed")
         \/ Goto(next) /\ UNCHANGED tracker /\ marker' = NoMarker
  BY DEF DeactivateMarker
<1>2. task \in Tasks /\ task.run = "recovery" /\ task.queue \subseteq UnfinishedRows(journal)
      /\ faults' \in 0..MaxFaults /\ marker' \in Nat
  BY <1>1, FaultsType DEF FlowInv, TypeOK, FlowOK, NoMarker
<1>3. CASE EndRecovery("failed")
  <2>1. /\ tracker' \in {"none", "succeeded", "failed"} /\ tracker' = "failed"
        /\ task' \in Tasks /\ task' = IdleTask /\ FlowOK(task', journal)
    BY <1>3, EndRecoveryTypes
  <2>2. FlowInv'
    BY <1>1, <1>2, <2>1 DEF FlowInv, TypeOK, kernel, others, history
  <2> QED
    BY <1>1, <1>2, <2>1, <2>2
<1>4. CASE Goto(next) /\ UNCHANGED tracker /\ marker' = NoMarker
  <2>1. next \in Steps \ RowSteps
    BY DEF Steps, RowSteps, ApplySteps, BypassSteps, RestoreSteps, MarkSteps
  <2>2. /\ task' \in Tasks /\ (task').step = next /\ (task').run = "recovery"
        /\ (task').queue = task.queue
    BY <1>2, <1>4, <2>1 DEF Goto, Tasks
  <2>3. FlowOK(task', journal)
    BY <1>2, <2>1, <2>2, OutsideKeepsFlow
  <2>4. FlowInv'
    BY <1>1, <1>2, <1>4, <2>2, <2>3 DEF FlowInv, TypeOK, kernel, others, history
  <2> QED
    BY <1>1, <1>2, <1>4, <2>2, <2>4
<1> QED
  BY <1>1, <1>3, <1>4

LEMMA ReconcileEffect ==
    ASSUME FlowInv, Reconcile
    PROVE  /\ task.step = "reconcile"
           /\ \/ tracker' = "failed" /\ task' = IdleTask /\ UNCHANGED <<journal, overtook>>
              \/ /\ InForce(policy) /\ UNCHANGED <<tracker, journal, overtook>>
                 /\ (task').step = "finish_recovery" /\ (task').run = "recovery"
              \/ \E e \in Entries :
                    /\ UNCHANGED tracker /\ policy # Absent
                    /\ Fresh(e, "apply", policy, singbox, policy, nft, marker)
                    /\ Began(task, task', journal, journal', overtook, overtook', e, singbox, "reconcile")
           /\ UNCHANGED <<up, files, kernel, recoveries, crashes, lost>>
           /\ FlowInv'
<1>1. /\ task.step = "reconcile"
      /\ UNCHANGED <<up, files, kernel, recoveries, crashes, lost>>
      /\ \/ /\ EndRecovery("failed") /\ UNCHANGED <<journal, overtook>>
            /\ Fault \/ UNCHANGED faults
         \/ /\ InForce(policy) /\ Goto("finish_recovery")
            /\ UNCHANGED <<tracker, journal, faults, overtook>>
         \/ /\ AppliedPlanExists /\ Begin("apply", policy, singbox, "reconcile")
            /\ UNCHANGED tracker
  BY DEF Reconcile
<1>2. task \in Tasks /\ task.run = "recovery" /\ task.queue \subseteq UnfinishedRows(journal)
  BY <1>1 DEF FlowInv, TypeOK, FlowOK
<1>3. CASE EndRecovery("failed") /\ UNCHANGED <<journal, overtook>> /\ (Fault \/ UNCHANGED faults)
  <2>1. /\ tracker' \in {"none", "succeeded", "failed"} /\ tracker' = "failed"
        /\ task' \in Tasks /\ task' = IdleTask /\ FlowOK(task', journal)
        /\ faults' \in 0..MaxFaults
    BY <1>3, EndRecoveryTypes, FaultsType DEF FlowInv, TypeOK
  <2>2. FlowInv'
    BY <1>1, <1>3, <2>1 DEF FlowInv, TypeOK, files, kernel
  <2> QED
    BY <1>1, <1>3, <2>1, <2>2
<1>4. CASE InForce(policy) /\ Goto("finish_recovery") /\ UNCHANGED <<tracker, journal, faults, overtook>>
  <2>1. "finish_recovery" \in Steps \ RowSteps
    BY DEF Steps, RowSteps, ApplySteps, BypassSteps, RestoreSteps, MarkSteps
  <2>2. /\ task' \in Tasks /\ (task').step = "finish_recovery" /\ (task').run = "recovery"
        /\ (task').queue = task.queue
    BY <1>2, <1>4, <2>1 DEF Goto, Tasks
  <2>3. FlowOK(task', journal)
    BY <1>2, <2>1, <2>2, OutsideKeepsFlow
  <2>4. FlowInv'
    BY <1>1, <1>4, <2>2, <2>3 DEF FlowInv, TypeOK, files, kernel
  <2> QED
    BY <1>1, <1>4, <2>2, <2>4
<1>5. CASE /\ AppliedPlanExists /\ Begin("apply", policy, singbox, "reconcile")
           /\ UNCHANGED tracker
  <2>1. /\ policy # Absent /\ policy \in Owned /\ singbox \in Owned /\ policy \in SUBSET Routes
    BY <1>5 DEF AppliedPlanExists, FlowInv, TypeOK, Owned
  <2>2. PICK e \in Entries :
            /\ Fresh(e, "apply", policy, singbox, policy, nft, marker)
            /\ Began(task, task', journal, journal', overtook, overtook', e, singbox, "reconcile")
            /\ journal' \in Seq(Entries) /\ task' \in Tasks /\ faults' \in 0..MaxFaults
            /\ overtook' \subseteq DOMAIN journal'
            /\ JournalOK(journal') /\ FlowOK(task', journal')
    BY <1>2, <1>5, <2>1, BeginEffect
  <2>3. FlowInv'
    BY <1>1, <1>5, <2>2 DEF FlowInv, TypeOK, files, kernel
  <2> QED
    BY <1>1, <1>5, <2>1, <2>2, <2>3
<1> QED
  BY <1>1, <1>3, <1>4, <1>5

LEMMA FinishRecoveryEffect ==
    ASSUME FlowInv, FinishRecovery
    PROVE  /\ task.step = "finish_recovery" /\ task' = IdleTask
           /\ tracker' \in {"succeeded", "failed"}
           /\ tracker' = "succeeded" =>
                 /\ ~task.erred /\ UnfinishedRows(journal) = {}
                 /\ task.run = "recovery" \/ (task.run = "reconcile" /\ InForce(policy))
           /\ UNCHANGED <<up, journal, files, kernel, counters, history>>
           /\ FlowInv'
<1>1. /\ task.step = "finish_recovery"
      /\ UNCHANGED <<up, journal, files, kernel, counters, history>>
      /\ \E outcome \in {"succeeded", "failed"} :
            /\ EndRecovery(outcome)
            /\ outcome = "succeeded" =>
                 /\ ~task.erred /\ UnfinishedRows(journal) = {}
                 /\ task.run = "reconcile" => InForce(policy)
  BY DEF FinishRecovery
<1>2. task.run \in {"recovery", "reconcile"}
  BY <1>1 DEF FlowInv, FlowOK
<1>3. PICK outcome \in {"succeeded", "failed"} :
            /\ EndRecovery(outcome)
            /\ outcome = "succeeded" =>
                 /\ ~task.erred /\ UnfinishedRows(journal) = {}
                 /\ task.run = "reconcile" => InForce(policy)
  BY <1>1
<1>4. /\ tracker' \in {"none", "succeeded", "failed"} /\ tracker' = outcome
      /\ task' \in Tasks /\ task' = IdleTask /\ FlowOK(task', journal)
  BY <1>3, EndRecoveryTypes
<1>5. FlowInv'
  BY <1>1, <1>4 DEF FlowInv, TypeOK, files, kernel, counters, history
<1> QED
  BY <1>1, <1>2, <1>3, <1>4, <1>5

LEMMA StopEffect ==
    ASSUME FlowInv, Crash \/ Reboot
    PROVE  /\ up' = FALSE /\ tracker' = "none" /\ task' = IdleTask
           /\ \/ UNCHANGED kernel
              \/ /\ nft' = Absent /\ tun' = Stopped
                 /\ \A f \in Families : rules'[f] = {} /\ tables'[f] = {}
           /\ UNCHANGED <<journal, files, recoveries, faults, history>>
           /\ FlowInv'
<1>1. /\ up' = FALSE /\ tracker' = "none" /\ task' = IdleTask
      /\ crashes < MaxCrashes /\ crashes' = crashes + 1
      /\ UNCHANGED <<journal, files, recoveries, faults, history>>
      /\ \/ UNCHANGED kernel
         \/ /\ nft' = Absent /\ tun' = Stopped
            /\ rules' = [f \in Families |-> {}] /\ tables' = [f \in Families |-> {}]
  BY DEF Crash, Reboot, Stop, ServiceBecomes
<1>2. crashes' \in 0..MaxCrashes
  BY <1>1, RoutingAssumption DEF FlowInv, TypeOK
<1>3. nft' \in Owned /\ tun' \in {Stopped} \cup (Owned \ {Absent})
      /\ rules' \in [Families -> SUBSET Routes] /\ tables' \in [Families -> SUBSET Routes]
  BY <1>1 DEF FlowInv, TypeOK, kernel, Owned
<1>4. FlowInv'
  BY <1>1, <1>2, <1>3, IdleTaskType, IdleKeepsFlow DEF FlowInv, TypeOK, files, history
<1> QED
  BY <1>1, <1>4

LEMMA SingBoxRestartsEffect ==
    ASSUME FlowInv, SingBoxRestarts
    PROVE  /\ lost' = TRUE /\ Shrunk(tables, tables')
           /\ UNCHANGED <<process, task, journal, files, nft, rules, recoveries, crashes, overtook>>
           /\ FlowInv'
<1>1. /\ lost' = TRUE /\ Fault
      /\ UNCHANGED <<process, task, journal, files, nft, rules, recoveries, crashes, overtook>>
      /\ ServiceBecomes(Stopped) \/ (singbox # Absent /\ ServiceBecomes(singbox))
  BY DEF SingBoxRestarts
<1>2. faults' \in 0..MaxFaults
  BY <1>1, FaultsType DEF FlowInv, TypeOK
<1>3. /\ tun' \in {Stopped} \cup (Owned \ {Absent})
      /\ tables' \in [Families -> SUBSET Routes] /\ Shrunk(tables, tables')
  <2>1. tables \in [Families -> SUBSET Routes] /\ singbox \in Owned
    BY DEF FlowInv, TypeOK
  <2>2. tun' \in {Stopped} \cup (Owned \ {Absent}) /\ tables' = [f \in Families |-> {}]
    BY <1>1, <2>1 DEF ServiceBecomes
  <2> QED
    BY <2>1, <2>2 DEF Shrunk
<1>4. FlowInv'
  BY <1>1, <1>2, <1>3 DEF FlowInv, TypeOK, process, files
<1> QED
  BY <1>1, <1>3, <1>4

\* Two journals that differ only in whether rows still authenticate.
Alike(j, k) ==
    /\ DOMAIN k = DOMAIN j
    /\ \A row \in DOMAIN j :
           /\ k[row].state = j[row].state /\ k[row].detail = j[row].detail
           /\ k[row].snapshot = j[row].snapshot /\ k[row].candidate = j[row].candidate
           /\ k[row].component = j[row].component

LEMMA TamperEffect ==
    ASSUME FlowInv, NEW row \in DOMAIN journal, Tamper(row)
    PROVE  /\ Alike(journal, journal')
           /\ UNCHANGED <<process, task, files, kernel, others>>
           /\ FlowInv'
<1>1. /\ journal' = [journal EXCEPT ![row].damage = "unreadable"] /\ Fault
      /\ UNCHANGED <<process, task, files, kernel, others>>
  BY DEF Tamper
<1>2. journal \in Seq(Entries) /\ journal[row] \in Entries
  BY DEF FlowInv, TypeOK
<1> DEFINE e == [journal[row] EXCEPT !.damage = "unreadable"]
<1>3. /\ e \in Entries /\ e.state = journal[row].state /\ e.detail = journal[row].detail
      /\ e.snapshot = journal[row].snapshot /\ e.candidate = journal[row].candidate
      /\ e.component = journal[row].component
  BY <1>2 DEF Entries
<1>4. journal' = [journal EXCEPT ![row] = e]
  BY <1>1
<1> HIDE DEF e
<1>5. journal' \in Seq(Entries) /\ Alike(journal, journal')
  BY <1>2, <1>3, <1>4 DEF Alike
<1>6. faults' \in 0..MaxFaults
  BY <1>1, FaultsType DEF FlowInv, TypeOK
<1>7. FlowOK(task, journal') /\ JournalOK(journal')
  <2>1. UnfinishedRows(journal') = UnfinishedRows(journal)
    BY <1>5 DEF Alike, UnfinishedRows
  <2> QED
    BY <1>5, <2>1 DEF FlowInv, FlowOK, JournalOK, Alike, StepFits
<1> QED
  BY <1>1, <1>5, <1>6, <1>7 DEF FlowInv, TypeOK, process, files, kernel, others, history

LEMMA FlowInit == ASSUME Init PROVE FlowInv
<1>1. /\ journal = << >> /\ task = IdleTask
      /\ IdleTask \in Tasks /\ FlowOK(IdleTask, journal)
  BY IdleTaskType, IdleKeepsFlow DEF Init
<1>2. journal \in Seq(Entries) /\ DOMAIN journal = {}
  BY <1>1
<1>3. TypeOK
  <2>1. 0 \in 0..MaxRecoveries /\ 0 \in 0..MaxFaults /\ 0 \in 0..MaxCrashes
    BY RoutingAssumption
  <2>2. rules \in [Families -> SUBSET Routes] /\ tables \in [Families -> SUBSET Routes]
    BY DEF Init
  <2>3. /\ singbox \in Owned /\ policy \in Owned /\ nft \in Owned /\ marker \in Nat
        /\ tun \in {Stopped} \cup (Owned \ {Absent})
        /\ up \in BOOLEAN /\ tracker \in {"none", "succeeded", "failed"} /\ lost \in BOOLEAN
        /\ overtook \subseteq DOMAIN journal
    BY DEF Init, Owned, NoMarker
  <2> QED
    BY <1>1, <1>2, <2>1, <2>2, <2>3 DEF Init, TypeOK
<1> QED
  BY <1>1, <1>2, <1>3 DEF FlowInv, JournalOK

LEMMA FlowStep == ASSUME FlowInv, [Next]_vars PROVE FlowInv'
<1>1. CASE UNCHANGED vars
  BY <1>1 DEF vars, process, files, kernel, counters, history, FlowInv, TypeOK
<1>2. CASE \/ Validate \/ MarkApplying \/ MarkVerifying \/ Commit \/ MarkFailed \/ RollBack
           \/ MarkRolledBack \/ MarkRollingBack \/ MarkInterrupted \/ MarkDamaged
  BY <1>2, ValidateEffect, MarkApplyingEffect, MarkVerifyingEffect, CommitEffect, MarkFailedEffect,
     RollBackEffect, MarkRolledBackEffect, MarkRollingBackEffect, MarkInterruptedEffect,
     MarkDamagedEffect
<1>3. CASE \/ ApplyNFT \/ InstallSingBox \/ RestartSingBox \/ RemovePrevious \/ WritePolicy
           \/ ActivateMarker \/ BypassPolicy \/ BypassNFT \/ VerifyBypass
  BY <1>3, ApplyNFTEffect, InstallSingBoxEffect, RestartSingBoxEffect, RemovePreviousEffect,
     WritePolicyEffect, ActivateMarkerEffect, BypassPolicyEffect, BypassNFTEffect, VerifyBypassEffect
<1>4. CASE RemoveCandidate \/ RestoreSingBox \/ RestoreService \/ RestoreNFT \/ RestoreFile
  BY <1>4, RemoveCandidateEffect, RestoreSingBoxEffect, RestoreServiceEffect, RestoreNFTEffect,
     RestoreFileEffect
<1>5. ASSUME NEW f \in Families, AddIP(f) \/ RestoreIP(f) PROVE FlowInv'
  BY <1>5, AddIPEffect, RestoreIPEffect
<1>6. CASE NextOperation \/ JournalCheck \/ DeactivateMarker \/ Reconcile \/ FinishRecovery
  BY <1>6, NextOperationEffect, JournalCheckEffect, DeactivateMarkerEffect, ReconcileEffect,
     FinishRecoveryEffect
<1>7. CASE Start \/ BypassRequested \/ RollbackRequested \/ RecoveryRequested
  BY <1>7, StartEffect, BypassRequestedEffect, RollbackRequestedEffect, RecoveryRequestedEffect
<1>8. ASSUME NEW document \in Documents, ApplyRequested(document) PROVE FlowInv'
  BY <1>8, ApplyRequestedEffect
<1>9. CASE Crash \/ Reboot \/ SingBoxRestarts
  BY <1>9, StopEffect, SingBoxRestartsEffect
<1>10. ASSUME NEW row \in DOMAIN journal, Tamper(row) PROVE FlowInv'
  BY <1>10, TamperEffect
<1> QED
  BY <1>1, <1>2, <1>3, <1>4, <1>5, <1>6, <1>7, <1>8, <1>9, <1>10 DEF Next, Work

\* A task finds its row in the state it believes in, whatever was interrupted,
\* damaged or begun over something unfinished.
THEOREM FlowHolds == Spec => []FlowInv
  BY FlowInit, FlowStep, PTL DEF Spec

\* Every variable keeps its type: a task's row is in the journal when it works on
\* it, and the rows begun over unfinished ones are rows of the journal.
THEOREM TypeCorrect == Spec => []TypeOK
<1>1. FlowInv => TypeOK
  BY DEF FlowInv
<1> QED
  BY <1>1, FlowHolds, PTL

-------------------------------------------------------------------------------
(* A recovery run that ends well has seen the routing in force.            *)

\* The actions of a task that works on a row.
RowWork ==
    \/ Validate \/ MarkApplying \/ MarkVerifying \/ Commit \/ MarkFailed \/ RollBack
    \/ MarkRolledBack \/ MarkRollingBack \/ MarkInterrupted \/ MarkDamaged
    \/ ApplyNFT \/ InstallSingBox \/ RestartSingBox \/ RemovePrevious \/ WritePolicy
    \/ ActivateMarker \/ BypassPolicy \/ BypassNFT \/ VerifyBypass
    \/ RemoveCandidate \/ RestoreSingBox \/ RestoreService \/ RestoreNFT \/ RestoreFile
    \/ \E f \in Families : AddIP(f) \/ RestoreIP(f)

\* Of the steps of a row only the return of an Execute within recovery leads to
\* finish_recovery, and that run is a reconcile; a recovery run goes on.
LEMMA RowWorkEnds ==
    ASSUME FlowInv, RowWork
    PROVE  /\ task.step \in RowSteps /\ UNCHANGED process
           /\ (task').step = "finish_recovery" => (task').run = "reconcile"
           /\ \/ (task').run = task.run
              \/ (task').run = "none" /\ task.run \notin {"recovery", "reconcile"}
<1>1. task \in Tasks
  BY DEF FlowInv, TypeOK
<1>2. IdleTask.step = "idle" /\ IdleTask.run = "none"
  BY DEF IdleTask
<1>3. \A outcome \in {"succeed", "fail"} :
          /\ After(task, outcome).step = "finish_recovery" => After(task, outcome).run = "reconcile"
          /\ \/ After(task, outcome).run = task.run
             \/ After(task, outcome).run = "none" /\ task.run \notin {"recovery", "reconcile"}
  <2>1. ASSUME NEW ok \in BOOLEAN
        PROVE  \/ /\ task.run = "recovery" /\ Returned(task, ok).step = "next_operation"
                  /\ Returned(task, ok).run = task.run
               \/ /\ task.run = "reconcile" /\ Returned(task, ok).step = "finish_recovery"
                  /\ Returned(task, ok).run = task.run
               \/ /\ task.run \notin {"recovery", "reconcile"} /\ Returned(task, ok) = IdleTask
    <3>1. \A s, b : /\ [task EXCEPT !.step = s, !.erred = b].step = s
                    /\ [task EXCEPT !.step = s, !.erred = b].run = task.run
      BY <1>1 DEF Tasks
    <3>2. CASE task.run = "recovery"
      <4>1. Returned(task, ok) = [task EXCEPT !.step = "next_operation", !.erred = @ \/ ~ok]
        BY <3>2 DEF Returned
      <4> QED
        BY <3>1, <3>2, <4>1
    <3>3. CASE task.run = "reconcile"
      <4>1. Returned(task, ok) = [task EXCEPT !.step = "finish_recovery", !.erred = ~ok]
        BY <3>3 DEF Returned
      <4> QED
        BY <3>1, <3>3, <4>1
    <3>4. CASE task.run \notin {"recovery", "reconcile"}
      BY <3>4 DEF Returned
    <3> QED
      BY <3>2, <3>3, <3>4
  <2>2. \A outcome \in {"succeed", "fail"} : \E ok \in BOOLEAN : After(task, outcome) = Returned(task, ok)
    BY DEF After
  <2> QED
    BY <1>2, <2>1, <2>2
<1>4. \A outcome \in RowSteps :
          /\ After(task, outcome).step = outcome /\ outcome # "finish_recovery" /\ outcome \in Steps
          /\ After(task, outcome).run = task.run
  <2>1. \A s : /\ [task EXCEPT !.step = s].step = s
               /\ [task EXCEPT !.step = s].run = task.run
    BY <1>1 DEF Tasks
  <2>2. ASSUME NEW outcome \in RowSteps
        PROVE  /\ outcome \notin {"succeed", "fail", "finish_recovery"}
               /\ outcome \in Steps
    BY <2>2 DEF RowSteps, ApplySteps, BypassSteps, RestoreSteps, MarkSteps, Steps
  <2> QED
    BY <2>1, <2>2 DEF After
<1> DEFINE Ends(u) == /\ u.step = "finish_recovery" => u.run = "reconcile"
                      /\ u.run = task.run \/ (u.run = "none" /\ task.run \notin {"recovery", "reconcile"})
<1>5. \A outcome \in RowSteps \cup {"succeed", "fail"} : Ends(After(task, outcome))
  BY <1>3, <1>4
<1>6. {"roll_back", "mark_failed"} \subseteq RowSteps
  BY DEF RowSteps, MarkSteps
<1>7. \A next \in RowSteps : Passes(task, task', next) => Ends(task')
  BY <1>1 DEF Passes, Tasks, RowSteps, ApplySteps, BypassSteps, RestoreSteps, MarkSteps
<1>8. \A outcome \in RowSteps : \A to : Ends(Arrived(task, outcome, to))
  BY <1>1 DEF Arrived, Tasks, RowSteps, ApplySteps, BypassSteps, RestoreSteps, MarkSteps, Steps
<1>9. \A outcome \in {"succeed", "fail"} : \A to : Ends(Arrived(task, outcome, to))
  BY <1>5 DEF Arrived, Steps
<1> HIDE DEF Ends
<1>10. GivesUp(task, task') => Ends(task')
  BY <1>5, <1>6 DEF GivesUp
<1>11. \A ok \in RowSteps \cup {"succeed", "fail"}, bad \in RowSteps \cup {"succeed", "fail"} : \A to, detail :
           Wrote(task, task', journal, journal', to, detail, ok, bad) => Ends(task')
  BY <1>5, <1>8, <1>9 DEF Wrote
<1>12. CASE \/ Validate \/ MarkApplying \/ MarkVerifying \/ Commit \/ MarkFailed \/ RollBack
            \/ MarkRolledBack \/ MarkRollingBack \/ MarkInterrupted \/ MarkDamaged
  <2>1. RestoreStep(task.row) \in RowSteps
    BY DEF RestoreStep, RowSteps, ApplySteps, BypassSteps, RestoreSteps
  <2>2. /\ {"mark_applying", "apply_nft", "activate_marker", "mark_failed", "write_policy",
            "verify_bypass", "roll_back", "remove_candidate", "restore_nft"} \subseteq RowSteps
        /\ {"validate", "mark_applying", "mark_verifying", "commit", "roll_back", "mark_rolling_back",
            "mark_rolled_back", "mark_failed", "mark_interrupted", "mark_damaged"} \subseteq RowSteps
    BY DEF RowSteps, ApplySteps, BypassSteps, RestoreSteps, MarkSteps
  <2>3. CASE Validate
    BY <1>5, <1>11, <2>2, <2>3, ValidateEffect DEF Ends, others
  <2>4. CASE MarkApplying
    BY <1>11, <2>2, <2>4, MarkApplyingEffect DEF Ends, others
  <2>5. CASE MarkVerifying
    BY <1>11, <2>2, <2>5, MarkVerifyingEffect DEF Ends, others
  <2>6. CASE Commit
    BY <1>11, <2>2, <2>6, CommitEffect DEF Ends, others
  <2>7. CASE RollBack
    BY <1>11, <2>1, <2>2, <2>7, RollBackEffect DEF Ends, others
  <2>8. CASE MarkRollingBack
    BY <1>11, <2>2, <2>8, MarkRollingBackEffect DEF Ends, others
  <2>9. CASE MarkRolledBack
    BY <1>11, <2>2, <2>9, MarkRolledBackEffect DEF Ends, others
  <2>10. CASE MarkFailed \/ MarkInterrupted \/ MarkDamaged
    BY <1>11, <2>2, <2>10, MarkFailedEffect, MarkInterruptedEffect, MarkDamagedEffect DEF Ends, others
  <2> QED
    BY <1>12, <2>3, <2>4, <2>5, <2>6, <2>7, <2>8, <2>9, <2>10
<1>13. CASE \/ ApplyNFT \/ InstallSingBox \/ RestartSingBox \/ RemovePrevious \/ WritePolicy
            \/ ActivateMarker \/ BypassPolicy \/ BypassNFT \/ VerifyBypass
  <2>1. {"apply_nft", "install_singbox", "restart_singbox", "remove_previous", "add_ipv4", "write_policy",
         "activate_marker", "bypass_policy", "bypass_nft", "verify_bypass", "mark_verifying", "commit",
         "mark_rolled_back"} \subseteq RowSteps
    BY DEF RowSteps, ApplySteps, BypassSteps, RestoreSteps, MarkSteps
  <2>2. CASE ApplyNFT \/ InstallSingBox \/ RestartSingBox \/ RemovePrevious \/ WritePolicy
    BY <1>7, <1>10, <2>1, <2>2, ApplyNFTEffect, InstallSingBoxEffect, RestartSingBoxEffect,
       RemovePreviousEffect, WritePolicyEffect DEF Ends
  <2>3. CASE ActivateMarker \/ BypassPolicy \/ BypassNFT \/ VerifyBypass
    BY <1>7, <1>10, <2>1, <2>3, ActivateMarkerEffect, BypassPolicyEffect, BypassNFTEffect,
       VerifyBypassEffect DEF Ends
  <2> QED
    BY <1>13, <2>2, <2>3
<1>14. CASE RemoveCandidate \/ RestoreSingBox \/ RestoreService \/ RestoreNFT \/ RestoreFile
  <2>1. {"remove_candidate", "restore_singbox", "restore_service", "restore_nft", "restore_ipv4",
         "restore_file", "mark_rolled_back"} \subseteq RowSteps
    BY DEF RowSteps, ApplySteps, RestoreSteps, MarkSteps
  <2> QED
    BY <1>7, <1>10, <1>14, <2>1, RemoveCandidateEffect, RestoreSingBoxEffect, RestoreServiceEffect,
       RestoreNFTEffect, RestoreFileEffect DEF Ends
<1>15. CASE \E f \in Families : AddIP(f) \/ RestoreIP(f)
  <2>1. {"add_ipv4", "add_ipv6", "mark_verifying", "restore_ipv4", "restore_ipv6", "restore_file"}
            \subseteq RowSteps
    BY DEF RowSteps, ApplySteps, RestoreSteps, MarkSteps
  <2> QED
    BY <1>7, <1>10, <1>15, <2>1, AddIPEffect, RestoreIPEffect DEF Ends
<1> QED
  BY <1>12, <1>13, <1>14, <1>15 DEF RowWork, Ends

\* A recovery run reaches its end without an Execute only when there is nothing
\* to reconcile or the applied routing was just seen in force.
FinishInv ==
    task.step = "finish_recovery" /\ task.run = "recovery" /\ ~task.erred =>
        marker # NoMarker \/ policy = Absent \/ lost \/ InForce(policy)

LEMMA BeganEnds ==
    ASSUME NEW t, NEW u, NEW j, NEW k, NEW o, NEW o2, NEW e, NEW config, NEW run,
           Began(t, u, j, k, o, o2, e, config, run)
    PROVE  u.step \in {"validate", "idle"} \/ (u.step = "finish_recovery" /\ u.erred)
  BY DEF Began, IdleTask

LEMMA FinishStep ==
    ASSUME FlowInv, FinishInv, [Next]_vars
    PROVE  FinishInv'
<1>1. CASE UNCHANGED vars
  BY <1>1 DEF vars, process, files, kernel, counters, history, FinishInv, InForce, Devices
<1>2. CASE RowWork
  BY <1>2, RowWorkEnds DEF FinishInv
<1>3. CASE NextOperation
  <2>1. (task').row \in DOMAIN journal /\ (task').step = RecoveryStep((task').row)
    BY <1>3, NextOperationEffect DEF UnfinishedRows
  <2>2. (task').step # "finish_recovery"
    BY <2>1 DEF RecoveryStep, RestoreStep
  <2> QED
    BY <2>2 DEF FinishInv
<1>4. CASE JournalCheck \/ DeactivateMarker \/ FinishRecovery
  BY <1>4, JournalCheckEffect, DeactivateMarkerEffect, FinishRecoveryEffect
     DEF FinishInv, IdleTask, files, others, history, kernel
<1>5. CASE Reconcile
  <2>1. CASE (task').step = "finish_recovery" /\ InForce(policy)
    BY <1>5, <2>1, ReconcileEffect DEF FinishInv, InForce, Devices, files, kernel
  <2>2. CASE task' = IdleTask
    BY <2>2 DEF FinishInv, IdleTask
  <2>3. CASE \E e : Began(task, task', journal, journal', overtook, overtook', e, singbox, "reconcile")
    BY <2>3, BeganEnds DEF FinishInv
  <2> QED
    BY <1>5, <2>1, <2>2, <2>3, ReconcileEffect
<1>6. CASE BypassRequested \/ \E document \in Documents : ApplyRequested(document)
  <2>1. CASE BypassRequested
    BY <2>1, BypassRequestedEffect, BeganEnds DEF FinishInv
  <2>2. ASSUME NEW document \in Documents, ApplyRequested(document) PROVE FinishInv'
    BY <2>2, ApplyRequestedEffect, BeganEnds DEF FinishInv
  <2> QED
    BY <1>6, <2>1, <2>2
<1>7. CASE Start \/ RollbackRequested \/ RecoveryRequested
  BY <1>7, StartEffect, RollbackRequestedEffect, RecoveryRequestedEffect DEF FinishInv
<1>8. CASE Crash \/ Reboot
  <2>1. task' = IdleTask
    BY <1>8, StopEffect
  <2> QED
    BY <2>1 DEF FinishInv, IdleTask
<1>9. CASE SingBoxRestarts
  BY <1>9, SingBoxRestartsEffect DEF FinishInv
<1>10. ASSUME NEW row \in DOMAIN journal, Tamper(row) PROVE FinishInv'
  BY <1>10, TamperEffect DEF FinishInv, InForce, Devices, files, kernel, others, history
<1> QED
  BY <1>1, <1>2, <1>3, <1>4, <1>5, <1>6, <1>7, <1>8, <1>9, <1>10 DEF Next, Work, RowWork

\* What a recovery run has seen when it comes to its end.
THEOREM FinishHolds == Spec => []FinishInv
<1>1. Init => FinishInv
  BY DEF Init, FinishInv, IdleTask
<1> QED
  BY <1>1, FinishStep, FlowHolds, PTL DEF Spec

\* A recovery run makes the daemon ready with no bypass active only when the applied routing is
\* in force, or sing-box has restarted meanwhile: whether it found the routing in
\* force, executed it again, or came upon nothing to do.
THEOREM RecoveryEndsInForce == Spec => RecoveredRoutingIsInForce
<1> DEFINE Body == tracker' = "succeeded" /\ tracker # "succeeded" /\ marker = NoMarker /\ policy # Absent
           => InForce(policy) \/ lost
<1>1. ASSUME FlowInv, FinishInv, [Next]_vars PROVE Body
  <2> SUFFICES ASSUME tracker' = "succeeded", tracker # "succeeded", marker = NoMarker, policy # Absent
               PROVE  InForce(policy) \/ lost
    OBVIOUS
  <2>1. ~UNCHANGED tracker
    OBVIOUS
  <2>2. FinishRecovery
    <3>1. ~RowWork /\ ~UNCHANGED vars
      BY <1>1, <2>1, RowWorkEnds DEF process, vars
    <3>2. ~NextOperation /\ ~JournalCheck /\ ~DeactivateMarker /\ ~Reconcile
      BY <1>1, <2>1, NextOperationEffect, JournalCheckEffect, DeactivateMarkerEffect, ReconcileEffect DEF process
    <3>3. ~Start /\ ~RollbackRequested /\ ~RecoveryRequested /\ ~BypassRequested
      BY <1>1, <2>1, StartEffect, RollbackRequestedEffect, RecoveryRequestedEffect, BypassRequestedEffect DEF process
    <3>4. ~Crash /\ ~Reboot /\ ~SingBoxRestarts
      BY <1>1, <2>1, StopEffect, SingBoxRestartsEffect DEF process
    <3>5. \A document \in Documents : ~ApplyRequested(document)
      BY <1>1, <2>1, ApplyRequestedEffect DEF process
    <3>6. \A row \in DOMAIN journal : ~Tamper(row)
      BY <1>1, <2>1, TamperEffect DEF process
    <3> QED
      BY <1>1, <3>1, <3>2, <3>3, <3>4, <3>5, <3>6 DEF Next, Work, RowWork
  <2>3. /\ task.step = "finish_recovery" /\ ~task.erred
        /\ task.run = "recovery" \/ (task.run = "reconcile" /\ InForce(policy))
    BY <1>1, <2>2, FinishRecoveryEffect
  <2> QED
    BY <1>1, <2>3 DEF FinishInv
<1>2. FlowInv /\ FinishInv /\ [Next]_vars => [Body]_vars
  BY <1>1
<1> QED
  BY <1>2, FlowHolds, FinishHolds, PTL DEF Spec, RecoveredRoutingIsInForce

-------------------------------------------------------------------------------
(* What the marker stands for.                                             *)

\* Only row is at work, and every commit lies before it.
IsTop(j, row) ==
    \A other \in DOMAIN j \ {row} :
        /\ j[other].state \notin MovingStates
        /\ j[other].state = "COMMITTED" => other < row

\* Nothing that document p routes is in force.
Down(p, n, ru, ta) ==
    /\ n = Absent
    /\ \A f \in Families : ru[f] \cap RoutesOf(p) = {} /\ ta[f] \cap RoutesOf(p) = {}

\* The one row at work and the marker it can have left.
WorkOK(j, p, m) ==
    \A row \in Moving(j) :
        /\ IsTop(j, row)
        /\ j[row].component = "apply" => m = NoMarker
        /\ j[row].component # "apply" =>
               /\ \/ m \in {j[row].snapshot.marker, row}
                  \/ j[row].state = "ROLLING_BACK" /\ m = NoMarker
               /\ p = j[row].snapshot.policy

\* The marker names a bypass; once that is committed, its routes are off.
MarkerOK(j, p, m, n, ru, ta) ==
    m # NoMarker =>
        /\ m \in DOMAIN j /\ j[m].component = "bypass"
        /\ j[m].state = "COMMITTED" => p = j[m].snapshot.policy /\ Down(p, n, ru, ta)

BypassRecordOK(j, p, m, n, ru, ta) == WorkOK(j, p, m) /\ MarkerOK(j, p, m, n, ru, ta)

BypassTaskOK(t, j, p, m, n, ru, ta) ==
    /\ t.step \in {"validate", "mark_applying"} =>
           /\ IsTop(j, t.row)
           /\ p = j[t.row].snapshot.policy /\ m = j[t.row].snapshot.marker
           /\ j[t.row].component = "apply" => m = NoMarker
    /\ t.step = "mark_rolling_back" =>
           /\ IsTop(j, t.row)
           /\ m = IF j[t.row].component = "apply" THEN NoMarker ELSE t.row
    /\ t.step \in RestoreSteps => j[t.row].component = "apply" \/ m \in {NoMarker, t.row}
    /\ t.step = "commit" => j[t.row].component = "apply" \/ Down(p, n, ru, ta)
    /\ t.step \in {"reconcile", "deactivate_marker"} => UnfinishedRows(j) = {}
    /\ t.step = "reconcile" => m = NoMarker

BypassRecord == BypassRecordOK(journal, policy, marker, nft, rules, tables)
BypassTask == BypassTaskOK(task, journal, policy, marker, nft, rules, tables)

\* No operation has overtaken another.
BypassInv == overtook = {} => BypassRecord /\ BypassTask

\* Steps at which BypassTask says something.
BypassTaskSteps ==
    RestoreSteps \cup {"validate", "mark_applying", "mark_rolling_back", "commit", "reconcile",
                       "deactivate_marker"}

LEMMA BypassTaskFree ==
    ASSUME NEW t, NEW j, NEW p, NEW m, NEW n, NEW ru, NEW ta, t.step \notin BypassTaskSteps
    PROVE  BypassTaskOK(t, j, p, m, n, ru, ta)
  BY DEF BypassTaskOK, BypassTaskSteps

\* A task that has given up or returned is at none of them.
LEMMA GaveUpSteps ==
    ASSUME NEW t \in Tasks, NEW outcome \in {"succeed", "fail", "roll_back", "mark_failed"}
    PROVE  After(t, outcome).step \in {"next_operation", "finish_recovery", "idle", "roll_back", "mark_failed"}
  BY DEF After, Returned, IdleTask, Tasks

LEMMA GaveUpIsFree ==
    ASSUME NEW t \in Tasks, NEW u, GivesUp(t, u)
    PROVE  u.step \in {"next_operation", "finish_recovery", "idle", "roll_back", "mark_failed"}
  BY GaveUpSteps DEF GivesUp

LEMMA FreeSteps ==
    ASSUME NEW step \in {"next_operation", "finish_recovery", "idle", "roll_back", "mark_failed"}
    PROVE  step \notin BypassTaskSteps
  BY DEF BypassTaskSteps, RestoreSteps

\* A row in a moving state is the only one.
LEMMA OneAtWork ==
    ASSUME NEW j, NEW p, NEW m, WorkOK(j, p, m), NEW row \in DOMAIN j, j[row].state \in MovingStates
    PROVE  /\ IsTop(j, row) /\ Moving(j) = {row}
           /\ j[row].component = "apply" => m = NoMarker
           /\ j[row].component # "apply" =>
                 /\ \/ m \in {j[row].snapshot.marker, row}
                    \/ j[row].state = "ROLLING_BACK" /\ m = NoMarker
                 /\ p = j[row].snapshot.policy
<1>1. row \in Moving(j)
  BY DEF Moving
<1>2. IsTop(j, row)
  BY <1>1 DEF WorkOK
<1>3. Moving(j) = {row}
  BY <1>1, <1>2 DEF IsTop, Moving
<1> QED
  BY <1>1, <1>2, <1>3 DEF WorkOK

LEMMA DownShrinks ==
    ASSUME NEW p, NEW n, NEW n2, NEW ru, NEW ru2, NEW ta, NEW ta2,
           Down(p, n, ru, ta), n2 \in {n, Absent}, Shrunk(ru, ru2), Shrunk(ta, ta2)
    PROVE  Down(p, n2, ru2, ta2)
  BY DEF Down, Shrunk

\* Steps that change neither the journal, the applied document nor the marker and
\* open nothing keep the record.
LEMMA LessKeepsBypassRecord ==
    ASSUME NEW j, NEW p, NEW m, NEW n, NEW n2, NEW ru, NEW ru2, NEW ta, NEW ta2,
           BypassRecordOK(j, p, m, n, ru, ta), n2 \in {n, Absent}, Shrunk(ru, ru2), Shrunk(ta, ta2)
    PROVE  BypassRecordOK(j, p, m, n2, ru2, ta2)
<1> HIDE DEF Down
<1> QED
  BY DownShrinks DEF BypassRecordOK, MarkerOK

\* While the marker stands for no committed bypass the host may change at will.
LEMMA UnmarkedBypassRecord ==
    ASSUME NEW j, NEW p, NEW m, NEW n, NEW n2, NEW ru, NEW ru2, NEW ta, NEW ta2,
           BypassRecordOK(j, p, m, n, ru, ta), m = NoMarker \/ j[m].state # "COMMITTED"
    PROVE  BypassRecordOK(j, p, m, n2, ru2, ta2)
  BY DEF BypassRecordOK, MarkerOK

\* One row moves.
LEMMA MoveKeepsBypassRecord ==
    ASSUME NEW j, NEW k, NEW p, NEW m, NEW n, NEW ru, NEW ta, NEW row, NEW to, NEW detail,
           BypassRecordOK(j, p, m, n, ru, ta), Moves(j, k, row, to, detail),
           to \in MovingStates =>
               /\ IsTop(j, row)
               /\ j[row].component = "apply" => m = NoMarker
               /\ j[row].component # "apply" =>
                      m \in {j[row].snapshot.marker, row} /\ p = j[row].snapshot.policy,
           to = "COMMITTED" =>
               /\ j[row].state \in MovingStates
               /\ m = row => p = j[row].snapshot.policy /\ Down(p, n, ru, ta)
    PROVE  BypassRecordOK(k, p, m, n, ru, ta)
<1> HIDE DEF Down
<1>1. /\ row \in DOMAIN j /\ DOMAIN k = DOMAIN j
      /\ k[row].state = to /\ k[row].snapshot = j[row].snapshot /\ k[row].component = j[row].component
      /\ \A r \in DOMAIN j \ {row} : k[r] = j[r]
  BY DEF Moves
<1>2. ASSUME IsTop(j, row) PROVE IsTop(k, row)
  BY <1>1, <1>2 DEF IsTop
<1>3. ASSUME NEW r \in Moving(k)
      PROVE  /\ IsTop(k, r)
             /\ k[r].component = "apply" => m = NoMarker
             /\ k[r].component # "apply" =>
                    /\ \/ m \in {k[r].snapshot.marker, r}
                       \/ k[r].state = "ROLLING_BACK" /\ m = NoMarker
                    /\ p = k[r].snapshot.policy
  <2>1. r \in DOMAIN j
    BY <1>1 DEF Moving
  <2>2. CASE r = row
    <3>1. to \in MovingStates
      BY <1>1, <2>2 DEF Moving
    <3> QED
      BY <1>1, <1>2, <2>2, <3>1
  <2>3. CASE r # row
    <3>1. r \in Moving(j) /\ k[r] = j[r]
      BY <1>1, <2>1, <2>3 DEF Moving
    <3>2. IsTop(j, r)
      BY <3>1 DEF BypassRecordOK, WorkOK
    <3>3. j[row].state \notin MovingStates
      BY <1>1, <2>3, <3>2 DEF IsTop
    <3>4. to \notin MovingStates
      <4>1. ~IsTop(j, row) \/ r \notin Moving(j)
        BY <2>1, <2>3 DEF IsTop, Moving
      <4> QED
        BY <3>1, <4>1
    <3>5. to # "COMMITTED"
      BY <3>3
    <3>6. IsTop(k, r)
      BY <1>1, <3>2, <3>4, <3>5 DEF IsTop
    <3> QED
      BY <3>1, <3>6 DEF BypassRecordOK, WorkOK
  <2> QED
    BY <2>2, <2>3
<1>4. MarkerOK(k, p, m, n, ru, ta)
  <2>1. SUFFICES ASSUME m # NoMarker
                 PROVE  /\ m \in DOMAIN k /\ k[m].component = "bypass"
                        /\ k[m].state = "COMMITTED" => p = k[m].snapshot.policy /\ Down(p, n, ru, ta)
    BY DEF MarkerOK
  <2>2. /\ m \in DOMAIN j /\ j[m].component = "bypass"
        /\ j[m].state = "COMMITTED" => p = j[m].snapshot.policy /\ Down(p, n, ru, ta)
    BY <2>1 DEF BypassRecordOK, MarkerOK
  <2> QED
    BY <1>1, <2>2
<1> QED
  BY <1>3, <1>4 DEF BypassRecordOK, WorkOK

\* A new row is prepared.
LEMMA AppendKeepsBypassRecord ==
    ASSUME NEW j \in Seq(Entries), NEW e \in Entries, NEW p, NEW m, NEW n, NEW ru, NEW ta,
           BypassRecordOK(j, p, m, n, ru, ta), e.state = "PREPARED"
    PROVE  BypassRecordOK(Append(j, e), p, m, n, ru, ta)
<1> HIDE DEF Down
<1> DEFINE k == Append(j, e)
           top == Len(j) + 1
<1>1. /\ top \notin DOMAIN j /\ DOMAIN k = DOMAIN j \cup {top} /\ k[top] = e
      /\ \A row \in DOMAIN j : k[row] = j[row]
  BY AppendFacts
<1> HIDE DEF k, top
<1>2. e.state \notin MovingStates /\ e.state # "COMMITTED"
  BY DEF MovingStates
<1>3. Moving(k) = Moving(j) /\ \A row \in Moving(j) : row \in DOMAIN j
  BY <1>1, <1>2 DEF Moving
<1>4. ASSUME NEW row \in Moving(j) PROVE IsTop(k, row)
  <2>1. IsTop(j, row)
    BY DEF BypassRecordOK, WorkOK
  <2> QED
    BY <1>1, <1>2, <2>1 DEF IsTop
<1>5. WorkOK(k, p, m)
  BY <1>1, <1>3, <1>4 DEF BypassRecordOK, WorkOK
<1>6. MarkerOK(k, p, m, n, ru, ta)
  BY <1>1 DEF BypassRecordOK, MarkerOK
<1> QED
  BY <1>5, <1>6 DEF BypassRecordOK, k

LEMMA AlikeKeepsBypass ==
    ASSUME NEW j, NEW k, NEW t, NEW p, NEW m, NEW n, NEW ru, NEW ta, Alike(j, k),
           BypassRecordOK(j, p, m, n, ru, ta) /\ BypassTaskOK(t, j, p, m, n, ru, ta),
           t.step \in RowSteps => t.row \in DOMAIN j
    PROVE  BypassRecordOK(k, p, m, n, ru, ta) /\ BypassTaskOK(t, k, p, m, n, ru, ta)
<1> HIDE DEF Down
<1>1. \A row : IsTop(k, row) <=> IsTop(j, row)
  BY DEF Alike, IsTop
<1>2. Moving(k) = Moving(j) /\ UnfinishedRows(k) = UnfinishedRows(j) /\ \A row \in Moving(j) : row \in DOMAIN j
  BY DEF Alike, Moving, UnfinishedRows
<1>3. BypassRecordOK(k, p, m, n, ru, ta)
  BY <1>1, <1>2 DEF Alike, BypassRecordOK, WorkOK, MarkerOK
<1>4. BypassTaskOK(t, k, p, m, n, ru, ta)
  <2>1. CASE t.step \in RowSteps
    <3>1. /\ k[t.row].snapshot = j[t.row].snapshot /\ k[t.row].component = j[t.row].component
      BY <2>1 DEF Alike
    <3> QED
      BY <1>1, <1>2, <3>1 DEF BypassTaskOK
  <2>2. CASE t.step \notin RowSteps
    <3>1. t.step \notin RestoreSteps /\ t.step \notin {"validate", "mark_applying", "mark_rolling_back", "commit"}
      BY <2>2 DEF RowSteps, MarkSteps
    <3> QED
      BY <1>2, <3>1 DEF BypassTaskOK
  <2> QED
    BY <2>1, <2>2
<1> QED
  BY <1>3, <1>4

-------------------------------------------------------------------------------
(* The steps that work on the host keep what the marker stands for.        *)

LEMMA HostStepsMove ==
    ASSUME FlowInv, task.step \in ApplySteps \cup BypassSteps \cup RestoreSteps
    PROVE  /\ task.row \in DOMAIN journal /\ Entry.state \in MovingStates /\ Entry.state = task.from
           /\ Entry.component \in {"apply", "bypass"}
           /\ task.step \in ApplySteps => Entry.component = "apply"
           /\ task.step \in BypassSteps => Entry.component = "bypass"
<1>1. task.step \in RowSteps /\ task.step \notin {"roll_back", "mark_failed"}
  BY DEF RowSteps, ApplySteps, BypassSteps, RestoreSteps
<1>2. StepFits(task.step, task.from, Entry) /\ task.row \in DOMAIN journal /\ Entry \in Entries
  BY <1>1, RowTypes
<1>3. task.from \in MovingStates
  BY <1>2 DEF StepFits, FromAt, MovingStates, ApplySteps, BypassSteps, RestoreSteps
<1> QED
  BY <1>1, <1>2, <1>3 DEF StepFits, Entries

\* An apply at work means that there is no marker.
LEMMA ApplyWorkKeepsBypass ==
    ASSUME FlowInv, BypassRecord, task.step \in ApplySteps \cup RestoreSteps, Entry.component = "apply",
           NEW next \in RowSteps \ {"validate", "mark_applying", "mark_rolling_back"},
           Passes(task, task', next) \/ GivesUp(task, task'),
           UNCHANGED <<journal, marker>>
    PROVE  BypassRecord' /\ BypassTask'
<1>1. task.row \in DOMAIN journal /\ journal[task.row].state \in MovingStates /\ task \in Tasks
  BY HostStepsMove DEF Entry, FlowInv, TypeOK
<1>2. marker = NoMarker /\ Moving(journal) = {task.row} /\ IsTop(journal, task.row)
  BY <1>1, OneAtWork DEF BypassRecord, BypassRecordOK, Entry
<1>3. BypassRecord'
  BY <1>2 DEF BypassRecord, BypassRecordOK, WorkOK, MarkerOK, Entry
<1>4. CASE Passes(task, task', next)
  <2>1. (task').row = task.row /\ (task').step = next
    BY <1>1, <1>4 DEF Passes, Tasks
  <2>2. next \notin {"reconcile", "deactivate_marker"}
    BY DEF RowSteps, ApplySteps, BypassSteps, RestoreSteps, MarkSteps
  <2> QED
    BY <1>3, <2>1, <2>2 DEF BypassTask, BypassTaskOK, Entry
<1>5. CASE GivesUp(task, task')
  <2>1. (task').step \notin BypassTaskSteps
    BY <1>1, <1>5, GaveUpIsFree, FreeSteps
  <2> QED
    BY <1>3, <2>1, BypassTaskFree DEF BypassTask
<1> QED
  BY <1>4, <1>5

LEMMA ApplyStepsKeepBypass ==
    ASSUME FlowInv, BypassRecord,
           \/ ApplyNFT \/ InstallSingBox \/ RestartSingBox \/ RemovePrevious \/ WritePolicy
           \/ RemoveCandidate \/ RestoreSingBox \/ RestoreService
           \/ \E f \in Families : AddIP(f)
    PROVE  BypassRecord' /\ BypassTask'
<1>1. \E next \in {"install_singbox", "restart_singbox", "remove_previous", "add_ipv4", "add_ipv6",
                   "mark_verifying", "commit", "restore_singbox", "restore_service", "restore_nft"} :
          /\ Passes(task, task', next) \/ GivesUp(task, task')
          /\ UNCHANGED <<journal, marker>>
          /\ task.step \in ApplySteps
  <2>1. CASE ApplyNFT
    BY <2>1, ApplyNFTEffect DEF files, ApplySteps
  <2>2. CASE InstallSingBox
    BY <2>2, InstallSingBoxEffect DEF ApplySteps
  <2>3. CASE RestartSingBox
    BY <2>3, RestartSingBoxEffect DEF files, ApplySteps
  <2>4. CASE RemovePrevious
    BY <2>4, RemovePreviousEffect DEF files, ApplySteps
  <2>5. CASE WritePolicy
    BY <2>5, WritePolicyEffect DEF ApplySteps
  <2>6. CASE RemoveCandidate
    BY <2>6, RemoveCandidateEffect DEF files, ApplySteps
  <2>7. CASE RestoreSingBox
    BY <2>7, RestoreSingBoxEffect DEF ApplySteps
  <2>8. CASE RestoreService
    BY <2>8, RestoreServiceEffect DEF ApplySteps
  <2>9. CASE \E f \in Families : AddIP(f)
    BY <2>9, AddIPEffect DEF files, ApplySteps
  <2> QED
    BY <2>1, <2>2, <2>3, <2>4, <2>5, <2>6, <2>7, <2>8, <2>9
<1>2. PICK next \in {"install_singbox", "restart_singbox", "remove_previous", "add_ipv4", "add_ipv6",
                   "mark_verifying", "commit", "restore_singbox", "restore_service", "restore_nft"} :
          /\ Passes(task, task', next) \/ GivesUp(task, task')
          /\ UNCHANGED <<journal, marker>>
          /\ task.step \in ApplySteps
  BY <1>1
<1>3. next \in RowSteps \ {"validate", "mark_applying", "mark_rolling_back"}
  BY DEF RowSteps, ApplySteps, RestoreSteps, MarkSteps
<1> QED
  BY <1>2, <1>3, HostStepsMove, ApplyWorkKeepsBypass

\* A bypass at work, or a bypass that is undone, with its record in hand.
LEMMA BypassWorkFacts ==
    ASSUME FlowInv, BypassRecord, task.step \in BypassSteps \cup RestoreSteps, Entry.component = "bypass"
    PROVE  /\ task \in Tasks /\ task.row \in DOMAIN journal
           /\ Entry.state \in MovingStates /\ Entry.state = task.from
           /\ Moving(journal) = {task.row} /\ IsTop(journal, task.row)
           /\ policy = Snapshot.policy
           /\ \/ marker \in {Snapshot.marker, task.row}
              \/ Entry.state = "ROLLING_BACK" /\ marker = NoMarker
<1>1. task.row \in DOMAIN journal /\ Entry.state \in MovingStates /\ Entry.state = task.from /\ task \in Tasks
  BY HostStepsMove DEF FlowInv, TypeOK
<1> QED
  BY <1>1, OneAtWork DEF BypassRecord, BypassRecordOK, Entry, Snapshot

\* The host opens nothing, the marker stays.
LEMMA LessKeepsBypass ==
    ASSUME FlowInv, BypassRecord, task.step \in BypassSteps, NEW next \in RowSteps \ BypassTaskSteps,
           Passes(task, task', next) \/ GivesUp(task, task'),
           UNCHANGED <<journal, policy, marker>>,
           nft' \in {nft, Absent}, Shrunk(rules, rules'), Shrunk(tables, tables')
    PROVE  BypassRecord' /\ BypassTask'
<1>1. BypassRecord'
  BY LessKeepsBypassRecord DEF BypassRecord
<1>2. task \in Tasks
  BY DEF FlowInv, TypeOK
<1>3. (task').step \notin BypassTaskSteps
  BY <1>2, GaveUpIsFree, FreeSteps DEF Passes, Tasks
<1> QED
  BY <1>1, <1>3, BypassTaskFree DEF BypassTask

LEMMA ShrunkSelf ==
    ASSUME NEW a, NEW b, a = b PROVE Shrunk(a, b)
  BY DEF Shrunk

LEMMA BypassPolicyKeepsBypass ==
    ASSUME FlowInv, BypassRecord, BypassPolicy \/ BypassNFT
    PROVE  BypassRecord' /\ BypassTask'
<1>1. {"bypass_nft", "mark_verifying", "verify_bypass"} \subseteq RowSteps \ BypassTaskSteps
  BY DEF RowSteps, BypassTaskSteps, BypassSteps, RestoreSteps, MarkSteps
<1>2. CASE BypassPolicy
  <2>1. /\ task.step \in BypassSteps /\ UNCHANGED <<journal, policy, marker, nft>>
        /\ Passes(task, task', "bypass_nft") \/ GivesUp(task, task')
        /\ Shrunk(rules, rules') /\ Shrunk(tables, tables')
    BY <1>2, BypassPolicyEffect DEF BypassSteps, files
  <2> QED
    BY <1>1, <2>1, LessKeepsBypass
<1>3. CASE BypassNFT
  <2>1. /\ task.step \in BypassSteps /\ UNCHANGED <<journal, policy, marker, rules, tables>>
        /\ nft' \in {nft, Absent}
        /\ \E next \in {"mark_verifying", "verify_bypass"} : Passes(task, task', next) \/ GivesUp(task, task')
    BY <1>3, BypassNFTEffect DEF BypassSteps, files
  <2> QED
    BY <1>1, <2>1, LessKeepsBypass, ShrunkSelf
<1> QED
  BY <1>2, <1>3

LEMMA ActivateMarkerKeepsBypass ==
    ASSUME FlowInv, BypassRecord, ActivateMarker
    PROVE  BypassRecord' /\ BypassTask'
<1>1. /\ task.step \in BypassSteps /\ marker' \in {marker, task.row}
      /\ Passes(task, task', "bypass_policy") \/ GivesUp(task, task')
      /\ UNCHANGED <<journal, policy, nft, rules, tables>>
      /\ task.step = "activate_marker"
  BY ActivateMarkerEffect DEF BypassSteps, kernel
<1>2. Entry.component = "bypass"
  BY <1>1, HostStepsMove
<1>3. /\ task \in Tasks /\ task.row \in DOMAIN journal
      /\ Entry.state \in MovingStates /\ Moving(journal) = {task.row} /\ IsTop(journal, task.row)
      /\ policy = Snapshot.policy
      /\ \/ marker \in {Snapshot.marker, task.row}
         \/ Entry.state = "ROLLING_BACK" /\ marker = NoMarker
  BY <1>1, <1>2, BypassWorkFacts
<1>4. CASE marker' = marker
  <2>1. BypassRecord'
    BY <1>1, <1>4 DEF BypassRecord
  <2>2. (task').step \notin BypassTaskSteps
    <3>1. "bypass_policy" \notin BypassTaskSteps
      BY DEF BypassTaskSteps, RestoreSteps
    <3> QED
      BY <1>1, <1>3, <3>1, GaveUpIsFree, FreeSteps DEF Passes, Tasks
  <2> QED
    BY <2>1, <2>2, BypassTaskFree DEF BypassTask
<1>5. CASE marker' = task.row
  <2>1. WorkOK(journal, policy, marker')
    BY <1>2, <1>3, <1>5 DEF WorkOK, Entry, Snapshot
  <2>2. MarkerOK(journal, policy, marker', nft, rules, tables)
    BY <1>2, <1>3, <1>5 DEF MarkerOK, MovingStates, Entry
  <2>3. BypassRecord'
    BY <1>1, <2>1, <2>2 DEF BypassRecord, BypassRecordOK
  <2>4. (task').step \notin BypassTaskSteps
    <3>1. "bypass_policy" \notin BypassTaskSteps
      BY DEF BypassTaskSteps, RestoreSteps
    <3> QED
      BY <1>1, <1>3, <3>1, GaveUpIsFree, FreeSteps DEF Passes, Tasks
  <2> QED
    BY <2>3, <2>4, BypassTaskFree DEF BypassTask
<1> QED
  BY <1>1, <1>4, <1>5

LEMMA VerifyBypassKeepsBypass ==
    ASSUME FlowInv, BypassRecord, VerifyBypass
    PROVE  BypassRecord' /\ BypassTask'
<1>1. /\ task.step \in BypassSteps
      /\ \/ Passes(task, task', "mark_rolled_back")
         \/ Passes(task, task', "commit") /\ Off(RoutesOf(Snapshot.policy))
         \/ GivesUp(task, task')
      /\ UNCHANGED <<journal, policy, marker, nft, rules, tables>>
  BY VerifyBypassEffect DEF BypassSteps, files, kernel
<1>2. Entry.component = "bypass"
  BY <1>1, HostStepsMove
<1>3. task \in Tasks /\ policy = Snapshot.policy
  BY <1>1, <1>2, BypassWorkFacts
<1>4. BypassRecord'
  BY <1>1 DEF BypassRecord
<1>5. CASE Passes(task, task', "commit") /\ Off(RoutesOf(Snapshot.policy))
  <2>1. (task').step = "commit" /\ (task').row = task.row
    BY <1>3, <1>5 DEF Passes, Tasks
  <2>2. Down(policy, nft, rules, tables)
    BY <1>3, <1>5 DEF Off, Down
  <2> QED
    BY <1>1, <1>4, <2>1, <2>2 DEF BypassTask, BypassTaskOK, RestoreSteps
<1>6. CASE Passes(task, task', "mark_rolled_back") \/ GivesUp(task, task')
  <2>1. (task').step \notin BypassTaskSteps
    <3>1. "mark_rolled_back" \notin BypassTaskSteps
      BY DEF BypassTaskSteps, RestoreSteps
    <3> QED
      BY <1>3, <1>6, <3>1, GaveUpIsFree, FreeSteps DEF Passes, Tasks
  <2> QED
    BY <1>4, <2>1, BypassTaskFree DEF BypassTask
<1> QED
  BY <1>1, <1>5, <1>6

\* The restore of a bypass works under no marker or its own.
LEMMA RestoreKeepsBypass ==
    ASSUME FlowInv, BypassRecord, BypassTask,
           RestoreNFT \/ RestoreFile \/ \E f \in Families : RestoreIP(f)
    PROVE  BypassRecord' /\ BypassTask'
<1>1. /\ task.step \in RestoreSteps /\ UNCHANGED journal
      /\ \E next \in {"restore_ipv4", "restore_ipv6", "restore_file", "mark_rolled_back"} :
             Passes(task, task', next) \/ GivesUp(task, task')
      /\ marker' \in {marker, NoMarker}
      /\ Entry.component = "apply" => marker' = marker
      /\ Entry.component # "apply" => policy' = policy
  <2>1. CASE RestoreNFT
    BY <2>1, RestoreNFTEffect DEF RestoreSteps, files
  <2>2. CASE RestoreFile
    BY <2>2, RestoreFileEffect DEF RestoreSteps
  <2>3. ASSUME NEW f \in Families, RestoreIP(f)
        PROVE  /\ task.step \in RestoreSteps /\ UNCHANGED <<journal, marker, policy>>
               /\ \E next \in {"restore_ipv4", "restore_ipv6", "restore_file", "mark_rolled_back"} :
                      Passes(task, task', next) \/ GivesUp(task, task')
    BY <2>3, RestoreIPEffect DEF RestoreSteps, files
  <2> QED
    BY <2>1, <2>2, <2>3
<1>2. PICK next \in {"restore_ipv4", "restore_ipv6", "restore_file", "mark_rolled_back"} :
             Passes(task, task', next) \/ GivesUp(task, task')
  BY <1>1
<1>3. next \in RowSteps \ {"validate", "mark_applying", "mark_rolling_back"}
  BY DEF RowSteps, RestoreSteps, MarkSteps
<1>4. CASE Entry.component = "apply"
  BY <1>1, <1>2, <1>3, <1>4, ApplyWorkKeepsBypass
<1>5. CASE Entry.component # "apply"
  <2>1. Entry.component = "bypass"
    BY <1>1, <1>5, HostStepsMove
  <2>2. /\ task \in Tasks /\ task.row \in DOMAIN journal
        /\ Entry.state \in MovingStates /\ Entry.state = task.from
        /\ Moving(journal) = {task.row} /\ IsTop(journal, task.row)
        /\ policy = Snapshot.policy
    BY <1>1, <2>1, BypassWorkFacts
  <2>3. task.from = "ROLLING_BACK"
    <3>1. task.step \in RowSteps
      BY <1>1 DEF RowSteps
    <3> QED
      BY <1>1, <3>1, RowTypes DEF StepFits, FromAt, RestoreSteps
  <2>4. marker \in {NoMarker, task.row} /\ marker' \in {NoMarker, task.row}
    BY <1>1, <2>1 DEF BypassTask, BypassTaskOK, Entry
  <2>5. WorkOK(journal, policy, marker')
    BY <2>1, <2>2, <2>3, <2>4 DEF WorkOK, Entry, Snapshot
  <2>6. MarkerOK(journal, policy, marker', nft', rules', tables')
    BY <2>1, <2>2, <2>4 DEF MarkerOK, MovingStates, Entry
  <2>7. BypassRecord'
    BY <1>1, <1>5, <2>5, <2>6 DEF BypassRecord, BypassRecordOK
  <2>8. CASE Passes(task, task', next)
    <3>1. (task').step = next /\ (task').row = task.row
      BY <2>2, <2>8 DEF Passes, Tasks
    <3> QED
      BY <1>1, <2>4, <2>7, <3>1 DEF BypassTask, BypassTaskOK
  <2>9. CASE GivesUp(task, task')
    <3>1. (task').step \notin BypassTaskSteps
      BY <2>2, <2>9, GaveUpIsFree, FreeSteps
    <3> QED
      BY <2>7, <3>1, BypassTaskFree DEF BypassTask
  <2> QED
    BY <1>2, <2>8, <2>9
<1> QED
  BY <1>4, <1>5

-------------------------------------------------------------------------------
(* The journal statements, requests and recovery keep what the marker       *)
(* stands for.                                                             *)

\* A statement: the record by MoveKeepsBypassRecord, and of the task what its next
\* step needs.
LEMMA MarkKeepsBypass ==
    ASSUME FlowInv, BypassRecord,
           NEW to, NEW detail, NEW ok, NEW bad \in {"fail", "roll_back", "mark_failed"},
           Wrote(task, task', journal, journal', to, detail, ok, bad),
           UNCHANGED <<process, files, kernel, others>>,
           journal[task.row].state = task.from /\ to \in MovingStates =>
               /\ IsTop(journal, task.row)
               /\ Entry.component = "apply" => marker = NoMarker
               /\ Entry.component # "apply" =>
                      marker \in {Snapshot.marker, task.row} /\ policy = Snapshot.policy,
           journal[task.row].state = task.from /\ to = "COMMITTED" =>
               /\ Entry.state \in MovingStates
               /\ marker = task.row => policy = Snapshot.policy /\ Down(policy, nft, rules, tables),
           Moves(journal, journal', task.row, to, detail) =>
               BypassTaskOK(Arrived(task, ok, to), journal', policy, marker, nft, rules, tables)
    PROVE  BypassRecord' /\ BypassTask'
<1> HIDE DEF Down
<1>1. UNCHANGED <<policy, marker, nft, rules, tables>> /\ task \in Tasks
  BY DEF files, kernel, FlowInv, TypeOK
<1>2. BypassTaskOK(After(task, bad), journal', policy, marker, nft, rules, tables)
  <2>1. After(task, bad).step \notin BypassTaskSteps
    BY <1>1, GaveUpSteps, FreeSteps
  <2> QED
    BY <2>1, BypassTaskFree
<1>3. CASE Moves(journal, journal', task.row, to, detail) /\ journal[task.row].state = task.from
  <2>1. BypassRecordOK(journal', policy, marker, nft, rules, tables)
    BY <1>3, MoveKeepsBypassRecord DEF BypassRecord, Entry, Snapshot
  <2>2. task' = Arrived(task, ok, to) \/ task' = After(task, bad)
        \/ (journal' = journal /\ task' = After(task, bad))
    BY DEF Wrote
  <2> QED
    BY <1>1, <1>2, <1>3, <2>1, <2>2 DEF BypassRecord, BypassTask
<1>4. CASE journal' = journal /\ task' = After(task, bad)
  BY <1>1, <1>2, <1>4 DEF BypassRecord, BypassTask
<1> QED
  BY <1>3, <1>4 DEF Wrote

LEMMA ArrivedSteps ==
    ASSUME NEW t \in Tasks, NEW ok \in RowSteps, NEW to
    PROVE  Arrived(t, ok, to).step = ok /\ Arrived(t, ok, to).row = t.row
  BY DEF Arrived, Tasks, RowSteps, ApplySteps, BypassSteps, RestoreSteps, MarkSteps, Steps

LEMMA EndedSteps ==
    ASSUME NEW t \in Tasks, NEW ok \in {"succeed", "fail"}, NEW to
    PROVE  Arrived(t, ok, to).step \notin BypassTaskSteps
<1>1. Arrived(t, ok, to) = After(t, ok)
  BY DEF Arrived, Steps
<1> QED
  BY <1>1, GaveUpSteps, FreeSteps

\* The snapshot and the component of the row stay, and so does what lies around it.
LEMMA MovesKeepTop ==
    ASSUME NEW j, NEW k, NEW row, NEW to, NEW detail, Moves(j, k, row, to, detail)
    PROVE  /\ IsTop(j, row) => IsTop(k, row)
           /\ k[row].snapshot = j[row].snapshot /\ k[row].component = j[row].component
  BY DEF Moves, IsTop

LEMMA ValidateKeepsBypass ==
    ASSUME FlowInv, BypassRecord, BypassTask, Validate
    PROVE  BypassRecord' /\ BypassTask'
<1>1. /\ task.step = "validate" /\ task \in Tasks
      /\ UNCHANGED <<process, files, kernel, others>>
      /\ \/ Wrote(task, task', journal, journal', "VALIDATED", "none", "mark_applying", "fail")
         \/ task' = After(task, "mark_failed") /\ journal' = journal
  BY ValidateEffect DEF FlowInv, TypeOK
<1>2. CASE Wrote(task, task', journal, journal', "VALIDATED", "none", "mark_applying", "fail")
  <2>1. ASSUME Moves(journal, journal', task.row, "VALIDATED", "none")
        PROVE  BypassTaskOK(Arrived(task, "mark_applying", "VALIDATED"), journal', policy, marker,
                            nft, rules, tables)
    <3>1. "mark_applying" \in RowSteps
      BY DEF RowSteps, MarkSteps
    <3>2. LET t == Arrived(task, "mark_applying", "VALIDATED")
          IN  t.step = "mark_applying" /\ t.row = task.row
      BY <1>1, <3>1, ArrivedSteps
    <3>3. /\ IsTop(journal, task.row)
          /\ policy = journal[task.row].snapshot.policy /\ marker = journal[task.row].snapshot.marker
          /\ journal[task.row].component = "apply" => marker = NoMarker
      BY <1>1 DEF BypassTask, BypassTaskOK
    <3>4. /\ IsTop(journal', task.row)
          /\ (journal')[task.row].snapshot = journal[task.row].snapshot
          /\ (journal')[task.row].component = journal[task.row].component
      BY <2>1, <3>3, MovesKeepTop
    <3> QED
      BY <3>2, <3>3, <3>4 DEF BypassTaskOK, RestoreSteps
  <2>2. "VALIDATED" \notin MovingStates
    BY DEF MovingStates
  <2> QED
    BY <1>1, <1>2, <2>1, <2>2, MarkKeepsBypass
<1>3. CASE task' = After(task, "mark_failed") /\ journal' = journal
  <2>1. (task').step \notin BypassTaskSteps
    BY <1>1, <1>3, GaveUpSteps, FreeSteps
  <2>2. BypassRecord'
    BY <1>1, <1>3 DEF BypassRecord, files, kernel
  <2> QED
    BY <2>1, <2>2, BypassTaskFree DEF BypassTask
<1> QED
  BY <1>1, <1>2, <1>3

LEMMA MarkApplyingKeepsBypass ==
    ASSUME FlowInv, BypassRecord, BypassTask, MarkApplying
    PROVE  BypassRecord' /\ BypassTask'
<1> DEFINE ok == IF Entry.component = "apply" THEN "apply_nft" ELSE "activate_marker"
<1>1. /\ task.step = "mark_applying" /\ task \in Tasks
      /\ UNCHANGED <<process, files, kernel, others>>
      /\ Wrote(task, task', journal, journal', "APPLYING", "none", ok, "mark_failed")
  BY MarkApplyingEffect DEF FlowInv, TypeOK
<1>2. ok \in RowSteps \ BypassTaskSteps
  BY DEF RowSteps, ApplySteps, BypassSteps, BypassTaskSteps, RestoreSteps
<1> HIDE DEF ok
<1>3. BypassTaskOK(Arrived(task, ok, "APPLYING"), journal', policy, marker, nft, rules, tables)
  BY <1>1, <1>2, ArrivedSteps, BypassTaskFree
<1>4. /\ IsTop(journal, task.row)
      /\ policy = Snapshot.policy /\ marker = Snapshot.marker
      /\ Entry.component = "apply" => marker = NoMarker
  BY <1>1 DEF BypassTask, BypassTaskOK, Entry, Snapshot
<1> QED
  BY <1>1, <1>3, <1>4, MarkKeepsBypass

LEMMA MarkVerifyingKeepsBypass ==
    ASSUME FlowInv, BypassRecord, MarkVerifying
    PROVE  BypassRecord' /\ BypassTask'
<1> DEFINE ok == IF Entry.component = "apply" THEN "write_policy" ELSE "verify_bypass"
<1>1. /\ task.step = "mark_verifying" /\ task.from = "APPLYING" /\ task \in Tasks
      /\ UNCHANGED <<process, files, kernel, others>>
      /\ \E bad \in {"fail", "roll_back"} :
             Wrote(task, task', journal, journal', "VERIFYING", "none", ok, bad)
  BY MarkVerifyingEffect DEF FlowInv, TypeOK
<1>2. ok \in RowSteps \ BypassTaskSteps
  BY DEF RowSteps, ApplySteps, BypassSteps, BypassTaskSteps, RestoreSteps
<1> HIDE DEF ok
<1>3. BypassTaskOK(Arrived(task, ok, "VERIFYING"), journal', policy, marker, nft, rules, tables)
  BY <1>1, <1>2, ArrivedSteps, BypassTaskFree
<1>4. ASSUME journal[task.row].state = task.from
      PROVE  /\ IsTop(journal, task.row)
             /\ Entry.component = "apply" => marker = NoMarker
             /\ Entry.component # "apply" =>
                    marker \in {Snapshot.marker, task.row} /\ policy = Snapshot.policy
  <2>1. task.row \in DOMAIN journal
    BY <1>1, RowTypes DEF RowSteps, MarkSteps
  <2>2. journal[task.row].state = "APPLYING" /\ journal[task.row].state \in MovingStates
    BY <1>1, <1>4 DEF MovingStates
  <2> QED
    BY <2>1, <2>2, OneAtWork DEF BypassRecord, BypassRecordOK, Entry, Snapshot
<1> QED
  BY <1>1, <1>3, <1>4, MarkKeepsBypass

LEMMA CommitKeepsBypass ==
    ASSUME FlowInv, BypassRecord, BypassTask, Commit
    PROVE  BypassRecord' /\ BypassTask'
<1> HIDE DEF Down
<1>1. /\ task.step = "commit" /\ task.from = "VERIFYING" /\ task \in Tasks
      /\ UNCHANGED <<process, files, kernel, others>>
      /\ \E bad \in {"fail", "roll_back"} :
             Wrote(task, task', journal, journal', "COMMITTED", "none", "succeed", bad)
  BY CommitEffect DEF FlowInv, TypeOK
<1>2. BypassTaskOK(Arrived(task, "succeed", "COMMITTED"), journal', policy, marker, nft, rules, tables)
  BY <1>1, EndedSteps, BypassTaskFree
<1>3. ASSUME journal[task.row].state = task.from
      PROVE  /\ Entry.state \in MovingStates
             /\ marker = task.row => policy = Snapshot.policy /\ Down(policy, nft, rules, tables)
  <2>1. task.row \in DOMAIN journal
    BY <1>1, RowTypes DEF RowSteps, MarkSteps
  <2>2. journal[task.row].state \in MovingStates
    BY <1>1, <1>3 DEF MovingStates
  <2>3. marker = task.row => Entry.component # "apply"
    <3>1. Entry.component = "apply" => marker = NoMarker
      BY <2>1, <2>2, OneAtWork DEF BypassRecord, BypassRecordOK, Entry
    <3>2. task.row # NoMarker
      BY <2>1 DEF FlowInv, TypeOK, NoMarker
    <3> QED
      BY <3>1, <3>2
  <2>4. Entry.component # "apply" => policy = Snapshot.policy
    BY <2>1, <2>2, OneAtWork DEF BypassRecord, BypassRecordOK, Entry, Snapshot
  <2>5. Entry.component # "apply" => Down(policy, nft, rules, tables)
    BY <1>1 DEF BypassTask, BypassTaskOK, Entry
  <2> QED
    BY <2>2, <2>3, <2>4, <2>5 DEF Entry
<1>4. "COMMITTED" \notin MovingStates
  BY DEF MovingStates
<1> QED
  BY <1>1, <1>2, <1>3, <1>4, MarkKeepsBypass

LEMMA RollBackKeepsBypass ==
    ASSUME FlowInv, BypassRecord, RollBack
    PROVE  BypassRecord' /\ BypassTask'
<1> DEFINE ok == RestoreStep(task.row)
<1>1. /\ task.step = "roll_back" /\ task.from \in {"APPLYING", "VERIFYING"} /\ task \in Tasks
      /\ UNCHANGED <<process, files, kernel, others>>
      /\ Wrote(task, task', journal, journal', "ROLLING_BACK", "interrupted", ok, "fail")
  BY RollBackEffect DEF FlowInv, TypeOK
<1>2. /\ ok \in {"remove_candidate", "bypass_policy", "restore_nft"} /\ ok \in RowSteps
      /\ ok = "restore_nft" => Entry.component # "apply" /\ Snapshot.marker = NoMarker
  BY DEF RestoreStep, Entry, Snapshot, RowSteps, ApplySteps, BypassSteps, RestoreSteps
<1> HIDE DEF ok
<1>3. ASSUME journal[task.row].state = task.from
      PROVE  /\ IsTop(journal, task.row)
             /\ Entry.component = "apply" => marker = NoMarker
             /\ Entry.component # "apply" =>
                    marker \in {Snapshot.marker, task.row} /\ policy = Snapshot.policy
  <2>1. task.row \in DOMAIN journal
    BY <1>1, RowTypes DEF RowSteps, MarkSteps
  <2>2. journal[task.row].state \in MovingStates /\ journal[task.row].state # "ROLLING_BACK"
    BY <1>1, <1>3 DEF MovingStates
  <2> QED
    BY <2>1, <2>2, OneAtWork DEF BypassRecord, BypassRecordOK, Entry, Snapshot
<1>4. ASSUME Moves(journal, journal', task.row, "ROLLING_BACK", "interrupted"),
             journal[task.row].state = task.from
      PROVE  BypassTaskOK(Arrived(task, ok, "ROLLING_BACK"), journal', policy, marker, nft, rules, tables)
  <2>1. LET t == Arrived(task, ok, "ROLLING_BACK") IN t.step = ok /\ t.row = task.row
    BY <1>1, <1>2, ArrivedSteps
  <2>2. ok = "restore_nft" => marker \in {NoMarker, task.row}
    BY <1>2, <1>3, <1>4
  <2> QED
    BY <1>2, <2>1, <2>2 DEF BypassTaskOK, RestoreSteps
<1>5. CASE Moves(journal, journal', task.row, "ROLLING_BACK", "interrupted")
           /\ journal[task.row].state = task.from
  BY <1>1, <1>3, <1>4, <1>5, MarkKeepsBypass
<1>6. CASE journal' = journal /\ task' = After(task, "fail")
  <2>1. (task').step \notin BypassTaskSteps
    BY <1>1, <1>6, GaveUpSteps, FreeSteps
  <2>2. BypassRecord'
    BY <1>1, <1>6 DEF BypassRecord, files, kernel
  <2> QED
    BY <2>1, <2>2, BypassTaskFree DEF BypassTask
<1> QED
  BY <1>1, <1>5, <1>6 DEF Wrote

LEMMA MarkRollingBackKeepsBypass ==
    ASSUME FlowInv, BypassRecord, BypassTask, MarkRollingBack
    PROVE  BypassRecord' /\ BypassTask'
<1> HIDE DEF Down
<1> DEFINE ok == IF Entry.component = "apply" THEN "remove_candidate" ELSE "restore_nft"
<1>1. /\ task.step = "mark_rolling_back" /\ task.from = "COMMITTED" /\ task \in Tasks
      /\ UNCHANGED <<process, files, kernel, others>>
      /\ Wrote(task, task', journal, journal', "ROLLING_BACK", "operator_requested", ok, "fail")
  BY MarkRollingBackEffect DEF FlowInv, TypeOK
<1>2. /\ ok \in {"remove_candidate", "restore_nft"} /\ ok \in RowSteps
      /\ ok = "restore_nft" => Entry.component # "apply"
  BY DEF RowSteps, ApplySteps, RestoreSteps
<1> HIDE DEF ok
<1>3. /\ IsTop(journal, task.row)
      /\ marker = IF Entry.component = "apply" THEN NoMarker ELSE task.row
  BY <1>1 DEF BypassTask, BypassTaskOK, Entry
<1>4. task.row \in DOMAIN journal /\ task.row # NoMarker /\ Entry.state = task.from
  <2>1. task.step \in RowSteps
    BY <1>1 DEF RowSteps, MarkSteps
  <2> QED
    BY <1>1, <2>1, RowTypes DEF StepFits, FlowInv, TypeOK, NoMarker
<1>5. Entry.component # "apply" => policy = Snapshot.policy
  BY <1>1, <1>3, <1>4 DEF BypassRecord, BypassRecordOK, MarkerOK, Entry, Snapshot
<1>6. ASSUME Moves(journal, journal', task.row, "ROLLING_BACK", "operator_requested")
      PROVE  BypassTaskOK(Arrived(task, ok, "ROLLING_BACK"), journal', policy, marker, nft, rules, tables)
  <2>1. LET t == Arrived(task, ok, "ROLLING_BACK") IN t.step = ok /\ t.row = task.row
    BY <1>1, <1>2, ArrivedSteps
  <2>2. ok = "restore_nft" => marker \in {NoMarker, task.row}
    BY <1>2, <1>3
  <2> QED
    BY <1>2, <2>1, <2>2 DEF BypassTaskOK, RestoreSteps
<1> QED
  BY <1>1, <1>3, <1>5, <1>6, MarkKeepsBypass

LEMMA MarkEndKeepsBypass ==
    ASSUME FlowInv, BypassRecord, MarkRolledBack \/ MarkFailed \/ MarkInterrupted \/ MarkDamaged
    PROVE  BypassRecord' /\ BypassTask'
<1>1. /\ task \in Tasks /\ UNCHANGED <<process, files, kernel, others>>
      /\ \E to \in {"ROLLED_BACK", "FAILED"}, ok \in {"succeed", "fail"} : \E detail :
             Wrote(task, task', journal, journal', to, detail, ok, "fail")
  <2>1. CASE MarkRolledBack
    BY <2>1, MarkRolledBackEffect DEF FlowInv, TypeOK
  <2>2. CASE MarkFailed
    BY <2>2, MarkFailedEffect DEF FlowInv, TypeOK
  <2>3. CASE MarkInterrupted
    BY <2>3, MarkInterruptedEffect DEF FlowInv, TypeOK
  <2>4. CASE MarkDamaged
    BY <2>4, MarkDamagedEffect DEF FlowInv, TypeOK
  <2> QED
    BY <2>1, <2>2, <2>3, <2>4
<1>2. PICK to \in {"ROLLED_BACK", "FAILED"}, ok \in {"succeed", "fail"} : \E detail :
             Wrote(task, task', journal, journal', to, detail, ok, "fail")
  BY <1>1
<1>3. PICK detail : Wrote(task, task', journal, journal', to, detail, ok, "fail")
  BY <1>2
<1>4. BypassTaskOK(Arrived(task, ok, to), journal', policy, marker, nft, rules, tables)
  BY <1>1, EndedSteps, BypassTaskFree
<1>5. to \notin MovingStates /\ to # "COMMITTED"
  BY DEF MovingStates
<1> QED
  BY <1>1, <1>3, <1>4, <1>5, MarkKeepsBypass

\* A new operation over a journal in which nothing is unfinished.
LEMMA BeganKeepsBypass ==
    ASSUME FlowInv, BypassRecord, NEW component, NEW document, NEW config, NEW run,
           NEW e \in Entries,
           Fresh(e, component, document, singbox, policy, nft, marker),
           Began(task, task', journal, journal', overtook, overtook', e, config, run),
           overtook' = {}, component = "apply" => marker = NoMarker,
           UNCHANGED <<files, kernel>>
    PROVE  BypassRecord' /\ BypassTask'
<1>1. /\ journal \in Seq(Entries)
      /\ UNCHANGED <<policy, marker, nft, rules, tables>>
  BY DEF FlowInv, TypeOK, files, kernel
<1>2. e.state = "PREPARED" /\ e.component = component
      /\ e.snapshot.policy = policy /\ e.snapshot.marker = marker
  BY DEF Fresh
<1>3. BypassRecordOK(Append(journal, e), policy, marker, nft, rules, tables)
  BY <1>1, <1>2, AppendKeepsBypassRecord DEF BypassRecord
<1>4. BypassRecord'
  BY <1>1, <1>3 DEF BypassRecord, Began
<1>5. CASE /\ journal' = Append(journal, e)
           /\ (task').step = "validate" /\ (task').row = Len(journal) + 1
           /\ UnfinishedRows(journal) = {}
  <2> DEFINE k == Append(journal, e)
             top == Len(journal) + 1
  <2>1. /\ top \notin DOMAIN journal /\ DOMAIN k = DOMAIN journal \cup {top} /\ k[top] = e
        /\ \A row \in DOMAIN journal : k[row] = journal[row] /\ row < top
    BY <1>1, AppendFacts
  <2>2. journal' = k /\ (task').row = top
    BY <1>5
  <2> HIDE DEF k, top
  <2>3. \A row \in DOMAIN journal : journal[row].state \notin MovingStates
    BY <1>5 DEF UnfinishedRows, MovingStates, FinishedStates
  <2>4. IsTop(k, top)
    BY <2>1, <2>3 DEF IsTop
  <2> QED
    BY <1>1, <1>2, <1>4, <1>5, <2>1, <2>2, <2>4 DEF BypassTask, BypassTaskOK, RestoreSteps
<1>6. CASE task' = IdleTask \/ (task').step = "finish_recovery"
  <2>1. (task').step \in {"idle", "finish_recovery"}
    BY <1>6 DEF IdleTask
  <2> QED
    BY <1>4, <2>1, FreeSteps, BypassTaskFree DEF BypassTask
<1> QED
  BY <1>5, <1>6 DEF Began

LEMMA RequestsKeepBypass ==
    ASSUME FlowInv, BypassRecord, BypassTask, overtook' = {},
           \/ BypassRequested \/ RollbackRequested \/ Start \/ RecoveryRequested
           \/ \E document \in Documents : ApplyRequested(document)
    PROVE  BypassRecord' /\ BypassTask'
<1> HIDE DEF Down
<1>1. CASE BypassRequested
  <2>1. PICK e \in Entries :
            /\ Fresh(e, "bypass", Absent, singbox, policy, nft, marker)
            /\ Began(task, task', journal, journal', overtook, overtook', e, Absent, "client")
            /\ UNCHANGED <<files, kernel>>
    BY <1>1, BypassRequestedEffect
  <2> QED
    BY <2>1, BeganKeepsBypass
<1>2. ASSUME NEW document \in Documents, ApplyRequested(document)
      PROVE  BypassRecord' /\ BypassTask'
  <2>1. PICK e \in Entries :
            /\ Fresh(e, "apply", document, singbox, policy, nft, marker)
            /\ Began(task, task', journal, journal', overtook, overtook', e, document, "client")
            /\ UNCHANGED <<files, kernel>> /\ marker = NoMarker
    BY <1>2, ApplyRequestedEffect
  <2> QED
    BY <2>1, BeganKeepsBypass
<1>3. CASE RollbackRequested
  <2>1. /\ Gate /\ UNCHANGED <<journal, policy, marker, nft, rules, tables>>
    BY <1>3, RollbackRequestedEffect DEF files, kernel
  <2>2. PICK row \in DOMAIN journal :
            /\ IsLatestCommitted(journal, row) /\ MayRollBack(row)
            /\ (task').row = row /\ (task').step = "mark_rolling_back"
    BY <1>3, RollbackRequestedEffect
  <2>3. BypassRecord'
    BY <2>1 DEF BypassRecord
  <2>4. \A other \in DOMAIN journal : journal[other].state \notin MovingStates /\ other \in Nat
    BY <2>1 DEF Gate, UnfinishedRows, MovingStates, FinishedStates, FlowInv, TypeOK
  <2>5. IsTop(journal, row)
    BY <2>2, <2>4 DEF IsTop, IsLatestCommitted
  <2>6. marker = IF journal[row].component = "apply" THEN NoMarker ELSE row
    BY <2>2 DEF MayRollBack
  <2> QED
    BY <2>1, <2>2, <2>3, <2>5, <2>6 DEF BypassTask, BypassTaskOK, RestoreSteps
<1>4. CASE Start \/ RecoveryRequested
  <2>1. (task').step = "next_operation" /\ UNCHANGED <<journal, policy, marker, nft, rules, tables>>
    BY <1>4, StartEffect, RecoveryRequestedEffect DEF files, kernel
  <2> QED
    BY <2>1, FreeSteps, BypassTaskFree DEF BypassTask, BypassRecord
<1> QED
  BY <1>1, <1>2, <1>3, <1>4

LEMMA RecoveryKeepsBypass ==
    ASSUME FlowInv, BypassRecord, BypassTask, overtook' = {},
           NextOperation \/ JournalCheck \/ DeactivateMarker \/ Reconcile \/ FinishRecovery
    PROVE  BypassRecord' /\ BypassTask'
<1> HIDE DEF Down
<1>1. CASE NextOperation
  <2> DEFINE row == (task').row
  <2>1. /\ row \in UnfinishedRows(journal) /\ (task').step = RecoveryStep(row)
        /\ UNCHANGED <<journal, policy, marker, nft, rules, tables>>
    BY <1>1, NextOperationEffect DEF files, kernel
  <2> HIDE DEF row
  <2>2. row \in DOMAIN journal /\ journal[row] \in Entries /\ journal[row].state \notin FinishedStates
    BY <2>1 DEF UnfinishedRows, FlowInv, TypeOK
  <2>3. /\ RecoveryStep(row) \in RowSteps
        /\ RecoveryStep(row) \notin {"validate", "mark_applying", "mark_rolling_back", "commit"}
        /\ RecoveryStep(row) \in RestoreSteps =>
                  /\ journal[row].component = "bypass"
                  /\ journal[row].snapshot.marker = NoMarker /\ journal[row].state = "ROLLING_BACK"
    BY <2>2, RecoveryStepFits
  <2>4. RecoveryStep(row) \in RestoreSteps => marker \in {NoMarker, row}
    BY <2>2, <2>3, OneAtWork DEF BypassRecord, BypassRecordOK, MovingStates
  <2>5. RecoveryStep(row) \notin {"reconcile", "deactivate_marker"}
    BY <2>3 DEF RowSteps, ApplySteps, BypassSteps, RestoreSteps, MarkSteps
  <2>6. BypassRecord'
    BY <2>1 DEF BypassRecord
  <2> QED
    BY <2>1, <2>3, <2>4, <2>5, <2>6 DEF BypassTask, BypassTaskOK, row
<1>2. CASE JournalCheck
  <2>1. UNCHANGED <<journal, policy, marker, nft, rules, tables>>
    BY <1>2, JournalCheckEffect DEF files, kernel
  <2>2. BypassRecord'
    BY <2>1 DEF BypassRecord
  <2>3. \/ (task').step \in {"idle", "finish_recovery"}
        \/ /\ UnfinishedRows(journal) = {}
           /\ (task').step = "deactivate_marker" \/ ((task').step = "reconcile" /\ marker = NoMarker)
    BY <1>2, JournalCheckEffect DEF IdleTask
  <2> QED
    BY <2>1, <2>2, <2>3, FreeSteps, BypassTaskFree DEF BypassTask, BypassTaskOK, RestoreSteps
<1>3. CASE DeactivateMarker
  <2>1. /\ UNCHANGED <<journal, policy, nft, rules, tables>> /\ marker' \in {marker, NoMarker}
        /\ \/ (task').step \in {"idle", "finish_recovery"}
           \/ (task').step = "reconcile" /\ marker' = NoMarker
        /\ task.step = "deactivate_marker"
    BY <1>3, DeactivateMarkerEffect DEF IdleTask, kernel
  <2>2. UnfinishedRows(journal) = {}
    BY <2>1 DEF BypassTask, BypassTaskOK
  <2>3. Moving(journal) = {}
    BY <2>2 DEF Moving, UnfinishedRows, MovingStates, FinishedStates
  <2>4. BypassRecordOK(journal, policy, marker', nft, rules, tables)
    BY <2>1, <2>3 DEF BypassRecord, BypassRecordOK, WorkOK, MarkerOK
  <2>5. BypassRecord'
    BY <2>1, <2>4 DEF BypassRecord
  <2> QED
    BY <2>1, <2>2, <2>5, FreeSteps, BypassTaskFree DEF BypassTask, BypassTaskOK, RestoreSteps
<1>4. CASE Reconcile
  <2>1. task.step = "reconcile" /\ UNCHANGED <<files, kernel>>
        /\ UNCHANGED <<policy, marker, nft, rules, tables>>
    BY <1>4, ReconcileEffect DEF files, kernel
  <2>2. marker = NoMarker
    BY <2>1 DEF BypassTask, BypassTaskOK
  <2>3. CASE (task').step \in {"idle", "finish_recovery"} /\ UNCHANGED journal
    <3>1. BypassRecord'
      BY <2>1, <2>3 DEF BypassRecord
    <3> QED
      BY <2>3, <3>1, FreeSteps, BypassTaskFree DEF BypassTask
  <2>4. CASE \E e \in Entries :
                 /\ Fresh(e, "apply", policy, singbox, policy, nft, marker)
                 /\ Began(task, task', journal, journal', overtook, overtook', e, singbox, "reconcile")
    BY <2>1, <2>2, <2>4, BeganKeepsBypass
  <2> QED
    BY <1>4, <2>3, <2>4, ReconcileEffect DEF IdleTask
<1>5. CASE FinishRecovery
  <2>1. (task').step = "idle" /\ UNCHANGED <<journal, policy, marker, nft, rules, tables>>
    BY <1>5, FinishRecoveryEffect DEF IdleTask, files, kernel
  <2> QED
    BY <2>1, FreeSteps, BypassTaskFree DEF BypassTask, BypassRecord
<1> QED
  BY <1>1, <1>2, <1>3, <1>4, <1>5

LEMMA EnvironmentKeepsBypass ==
    ASSUME FlowInv, BypassRecord, BypassTask,
           Crash \/ Reboot \/ SingBoxRestarts \/ \E row \in DOMAIN journal : Tamper(row)
    PROVE  BypassRecord' /\ BypassTask'
<1>1. CASE Crash \/ Reboot
  <2>1. /\ task' = IdleTask /\ UNCHANGED <<journal, policy, marker>>
        /\ \/ UNCHANGED <<nft, rules, tables>>
           \/ nft' = Absent /\ \A f \in Families : rules'[f] = {} /\ tables'[f] = {}
    BY <1>1, StopEffect DEF files, kernel
  <2>2. nft' \in {nft, Absent} /\ Shrunk(rules, rules') /\ Shrunk(tables, tables')
    BY <2>1 DEF Shrunk
  <2>3. BypassRecord'
    BY <2>1, <2>2, LessKeepsBypassRecord DEF BypassRecord
  <2>4. (task').step = "idle"
    BY <2>1 DEF IdleTask
  <2> QED
    BY <2>3, <2>4, FreeSteps, BypassTaskFree DEF BypassTask
<1>2. CASE SingBoxRestarts
  <2>1. UNCHANGED <<task, journal, policy, marker, nft, rules>> /\ Shrunk(tables, tables')
    BY <1>2, SingBoxRestartsEffect DEF files
  <2>2. Shrunk(rules, rules')
    BY <2>1, ShrunkSelf
  <2>3. BypassRecord'
    BY <2>1, <2>2, LessKeepsBypassRecord DEF BypassRecord
  <2>4. Down(policy, nft, rules, tables) => Down(policy, nft, rules, tables')
    BY <2>1, <2>2, DownShrinks
  <2> HIDE DEF Down
  <2> QED
    BY <2>1, <2>3, <2>4 DEF BypassTask, BypassTaskOK
<1>3. ASSUME NEW row \in DOMAIN journal, Tamper(row) PROVE BypassRecord' /\ BypassTask'
  <2>1. Alike(journal, journal') /\ UNCHANGED <<task, policy, marker, nft, rules, tables>>
    BY <1>3, TamperEffect DEF files, kernel
  <2>2. task.step \in RowSteps => task.row \in DOMAIN journal
    BY DEF FlowInv, FlowOK
  <2> QED
    BY <2>1, <2>2, AlikeKeepsBypass DEF BypassRecord, BypassTask
<1> QED
  BY <1>1, <1>2, <1>3

\* Once an operation has overtaken another, it has.
LEMMA OvertookGrows ==
    ASSUME FlowInv, [Next]_vars
    PROVE  overtook \subseteq overtook'
<1>1. CASE UNCHANGED vars
  BY <1>1 DEF vars, history
<1>2. CASE \/ Validate \/ MarkApplying \/ MarkVerifying \/ Commit \/ MarkFailed \/ RollBack
           \/ MarkRolledBack \/ MarkRollingBack \/ MarkInterrupted \/ MarkDamaged
  BY <1>2 DEF Validate, MarkApplying, MarkVerifying, Commit, MarkFailed, RollBack, MarkRolledBack,
              MarkRollingBack, MarkInterrupted, MarkDamaged, others, history
<1>3. CASE \/ ApplyNFT \/ InstallSingBox \/ RestartSingBox \/ RemovePrevious \/ WritePolicy
           \/ ActivateMarker \/ BypassPolicy \/ BypassNFT \/ VerifyBypass
           \/ RemoveCandidate \/ RestoreSingBox \/ RestoreService \/ RestoreNFT \/ RestoreFile
           \/ \E f \in Families : AddIP(f) \/ RestoreIP(f)
  BY <1>3 DEF ApplyNFT, InstallSingBox, RestartSingBox, RemovePrevious, WritePolicy, ActivateMarker,
              BypassPolicy, BypassNFT, VerifyBypass, RemoveCandidate, RestoreSingBox, RestoreService,
              RestoreNFT, RestoreFile, AddIP, RestoreIP, others, history
<1>4. CASE NextOperation \/ JournalCheck \/ DeactivateMarker \/ FinishRecovery
  BY <1>4 DEF NextOperation, JournalCheck, DeactivateMarker, FinishRecovery, others, history
<1>5. CASE Start \/ RollbackRequested \/ RecoveryRequested
  BY <1>5 DEF Start, RollbackRequested, RecoveryRequested, StartRecovery, history
<1>6. CASE Crash \/ Reboot \/ SingBoxRestarts \/ \E row \in DOMAIN journal : Tamper(row)
  BY <1>6 DEF Crash, Reboot, Stop, SingBoxRestarts, Tamper, others, history
<1>7. CASE Reconcile \/ BypassRequested \/ \E document \in Documents : ApplyRequested(document)
  BY <1>7 DEF Reconcile, BypassRequested, ApplyRequested, Begin
<1> QED
  BY <1>1, <1>2, <1>3, <1>4, <1>5, <1>6, <1>7 DEF Next, Work

LEMMA BypassStep ==
    ASSUME FlowInv, BypassInv, [Next]_vars
    PROVE  BypassInv'
<1>1. SUFFICES ASSUME overtook' = {} PROVE BypassRecord' /\ BypassTask'
  BY DEF BypassInv
<1>2. BypassRecord /\ BypassTask
  BY <1>1, OvertookGrows DEF BypassInv
<1>3. CASE UNCHANGED vars
  BY <1>2, <1>3 DEF vars, files, kernel, BypassRecord, BypassTask
<1>4. CASE RowWork
  <2>1. CASE \/ ApplyNFT \/ InstallSingBox \/ RestartSingBox \/ RemovePrevious \/ WritePolicy
             \/ RemoveCandidate \/ RestoreSingBox \/ RestoreService
             \/ \E f \in Families : AddIP(f)
    BY <1>2, <2>1, ApplyStepsKeepBypass
  <2>2. CASE BypassPolicy \/ BypassNFT \/ ActivateMarker \/ VerifyBypass
    BY <1>2, <2>2, BypassPolicyKeepsBypass, ActivateMarkerKeepsBypass, VerifyBypassKeepsBypass
  <2>3. CASE RestoreNFT \/ RestoreFile \/ \E f \in Families : RestoreIP(f)
    BY <1>2, <2>3, RestoreKeepsBypass
  <2>4. CASE Validate \/ MarkApplying \/ MarkVerifying \/ Commit \/ RollBack \/ MarkRollingBack
    BY <1>2, <2>4, ValidateKeepsBypass, MarkApplyingKeepsBypass, MarkVerifyingKeepsBypass,
       CommitKeepsBypass, RollBackKeepsBypass, MarkRollingBackKeepsBypass
  <2>5. CASE MarkRolledBack \/ MarkFailed \/ MarkInterrupted \/ MarkDamaged
    BY <1>2, <2>5, MarkEndKeepsBypass
  <2> QED
    BY <1>4, <2>1, <2>2, <2>3, <2>4, <2>5 DEF RowWork
<1>5. CASE NextOperation \/ JournalCheck \/ DeactivateMarker \/ Reconcile \/ FinishRecovery
  BY <1>1, <1>2, <1>5, RecoveryKeepsBypass
<1>6. CASE \/ BypassRequested \/ RollbackRequested \/ Start \/ RecoveryRequested
           \/ \E document \in Documents : ApplyRequested(document)
  BY <1>1, <1>2, <1>6, RequestsKeepBypass
<1>7. CASE Crash \/ Reboot \/ SingBoxRestarts \/ \E row \in DOMAIN journal : Tamper(row)
  BY <1>2, <1>7, EnvironmentKeepsBypass
<1> QED
  BY <1>3, <1>4, <1>5, <1>6, <1>7 DEF Next, Work, RowWork

LEMMA BypassInit == ASSUME Init PROVE BypassInv
<1>1. journal = << >> /\ marker = NoMarker /\ (task).step = "idle"
  BY DEF Init, IdleTask
<1>2. Moving(journal) = {}
  BY <1>1 DEF Moving
<1>3. BypassRecord
  BY <1>1, <1>2 DEF BypassRecord, BypassRecordOK, WorkOK, MarkerOK
<1> QED
  BY <1>1, <1>3, FreeSteps, BypassTaskFree DEF BypassInv, BypassTask

\* What the marker stands for, until an operation overtakes another.
THEOREM BypassHolds == Spec => []BypassInv
  BY BypassInit, BypassStep, FlowHolds, PTL DEF Spec

\* While the marker stands for a committed bypass and nothing is in flight, no rule,
\* no routing table and no leak-control table of an applied route is left, whatever
\* crashes, restarts and further bypasses came before, unless an operation was begun
\* over an unfinished one.
THEOREM ActiveBypassStaysOff == Spec => []ActiveBypassIsOff
<1>1. BypassInv => ActiveBypassIsOff
  BY DEF BypassInv, BypassRecord, BypassRecordOK, MarkerOK, ActiveBypassIsOff, Down, Off
<1> QED
  BY <1>1, BypassHolds, PTL

-------------------------------------------------------------------------------
(* What the host can hold while nothing has gone wrong for good.           *)

\* No restore has given up, and no operation began over half-applied routing.
Clean == ~Troubled /\ \A row \in DOMAIN journal : ~HalfApplied(row)

LastingStates == MovingStates \cup {"COMMITTED"}

Within(ru, set) == \A f \in Families : ru[f] \subseteq set

\* Some family does not carry route r.
Gap(r, ru, ta) == \E f \in Families : r \notin ru[f] \/ r \notin ta[f]

\* Without the leak-control table no applied route is carried completely: what it
\* would protect leaks already.
GapsOK(p, n, ru, ta) == n = Absent => \A r \in RoutesOf(p) : Gap(r, ru, ta)

\* The files and the table when no apply is in flight.
RestOK(s, p, n, ru) == s = p /\ n \in {p, Absent} /\ Within(ru, RoutesOf(p))

\* The same while the apply of entry e is in flight.
FlightOK(e, p, n, ru) ==
    /\ p \in {e.snapshot.policy, e.candidate}
    /\ n \in {e.snapshot.policy, e.candidate, Absent}
    /\ Within(ru, RoutesOf(e.snapshot.policy) \cup RoutesOf(e.candidate))

\* No bypass at work or in effect began under the marker of another.
FirstBypasses(j) ==
    \A row \in DOMAIN j :
        j[row].component # "apply" /\ j[row].state \in LastingStates => j[row].snapshot.marker = NoMarker

MarkerLasts(j, m) == m # NoMarker => m \in DOMAIN j /\ j[m].state \in LastingStates

HostRecordOK(j, s, p, m, n, ru, ta) ==
    /\ (\A row \in Moving(j) : j[row].component # "apply") => RestOK(s, p, n, ru)
    /\ \A row \in Moving(j) : j[row].component = "apply" => FlightOK(j[row], p, n, ru)
    /\ GapsOK(p, n, ru, ta)
    /\ FirstBypasses(j)
    /\ MarkerLasts(j, m)

InstallSteps == {"apply_nft", "install_singbox", "restart_singbox", "remove_previous"}
AddSteps == {"add_ipv4", "add_ipv6", "mark_verifying", "write_policy", "commit"}
TidySteps == {"restore_singbox", "restore_service", "mark_rolled_back"} \cup RestoreSteps

\* How far a task has come with entry e: an apply forwards, a bypass, a restore.
ApplyTaskOK(t, e, s, p, n, ru) ==
    /\ t.step \in {"validate", "mark_applying"} => t.config = e.candidate
    /\ t.step \in InstallSteps => t.config = e.candidate /\ Within(ru, RoutesOf(e.snapshot.policy))
    /\ t.step \in InstallSteps \ {"apply_nft"} => n = e.candidate
    /\ t.step \in {"restart_singbox", "remove_previous"} => s = e.candidate
    /\ t.step \in AddSteps => s = e.candidate /\ n = e.candidate /\ Within(ru, RoutesOf(e.candidate))
    /\ t.step \in {"commit", "mark_rolling_back"} => p = e.candidate

BypassingTaskOK(t, e, m, ru) ==
    /\ t.step \in {"validate", "mark_applying"} => m = NoMarker
    /\ t.step \in {"bypass_policy", "bypass_nft"} => m = t.row
    /\ t.step \in {"bypass_policy", "bypass_nft", "verify_bypass"} => t.from # "ROLLING_BACK"
    /\ t.step = "bypass_nft" => \A f \in Families : ru[f] \cap RoutesOf(e.snapshot.policy) = {}

RestoreTaskOK(t, e, s, p, m, n, ru) ==
    /\ t.step \in TidySteps => Within(ru, RoutesOf(e.snapshot.policy))
    /\ t.step = "restore_service" => e.snapshot.policy = Absent \/ s = e.snapshot.policy
    /\ t.step \in RestoreSteps \cup {"mark_rolled_back"} => s = e.snapshot.policy
    /\ t.step \in (RestoreSteps \cup {"mark_rolled_back"}) \ {"restore_nft"} =>
           /\ n \in {e.snapshot.policy, Absent}
           /\ RoutesOf(e.snapshot.policy) # {} => n = e.snapshot.policy
    /\ t.step = "mark_rolled_back" => p = e.snapshot.policy /\ m = NoMarker

HostTaskOK(t, e, s, p, m, n, ru) ==
    t.step \in RowSteps =>
        /\ e.component = "apply" => ApplyTaskOK(t, e, s, p, n, ru)
        /\ e.component # "apply" => BypassingTaskOK(t, e, m, ru)
        /\ RestoreTaskOK(t, e, s, p, m, n, ru)

HostRecord == HostRecordOK(journal, singbox, policy, marker, nft, rules, tables)
HostTask == HostTaskOK(task, Entry, singbox, policy, marker, nft, rules)

HostInv == Clean => HostRecord /\ HostTask

-------------------------------------------------------------------------------
(* The record of a clean host.                                             *)

LEMMA CleanFacts ==
    ASSUME FlowInv, Clean
    PROVE  /\ overtook = {}
           /\ \A row \in DOMAIN journal :
                 /\ journal[row].snapshot.singbox = journal[row].snapshot.policy
                 /\ journal[row].snapshot.nft \in {journal[row].snapshot.policy, Absent}
                 /\ journal[row].detail \notin GaveUpDetails
  BY DEF Clean, Troubled, HalfApplied, GaveUpDetails, FlowInv, TypeOK

\* Rows keep their snapshots, and a restore that gave up stays on record.
Evolves(j, k) ==
    /\ DOMAIN j \subseteq DOMAIN k
    /\ \A row \in DOMAIN j :
          /\ k[row].snapshot = j[row].snapshot
          /\ j[row].detail \in GaveUpDetails => k[row].detail \in GaveUpDetails

LEMMA SameEvolves == ASSUME NEW j, NEW k, k = j PROVE Evolves(j, k)
  BY DEF Evolves

LEMMA WroteEvolves ==
    ASSUME NEW t, NEW u, NEW j, NEW k, NEW to, NEW detail, NEW ok, NEW bad,
           Wrote(t, u, j, k, to, detail, ok, bad), JournalOK(j), t.from # "FAILED"
    PROVE  Evolves(j, k)
  BY DEF Wrote, Moves, JournalOK, Evolves

LEMMA BeganEvolves ==
    ASSUME NEW t, NEW u, NEW j \in Seq(Entries), NEW k, NEW o, NEW o2, NEW e \in Entries, NEW config, NEW run,
           Began(t, u, j, k, o, o2, e, config, run)
    PROVE  Evolves(j, k)
<1>1. Evolves(j, Append(j, e))
  BY AppendFacts DEF Evolves
<1> QED
  BY <1>1, SameEvolves DEF Began

LEMMA JournalEvolves ==
    ASSUME FlowInv, [Next]_vars
    PROVE  Evolves(journal, journal')
<1>1. JournalOK(journal) /\ journal \in Seq(Entries)
  BY DEF FlowInv, TypeOK
<1>2. CASE UNCHANGED vars
  BY <1>2, SameEvolves DEF vars
<1>3. CASE Validate \/ MarkApplying \/ MarkVerifying \/ Commit \/ RollBack
  <2>1. task.from # "FAILED" /\ (\/ journal' = journal
                                 \/ \E to, detail, ok, bad :
                                        Wrote(task, task', journal, journal', to, detail, ok, bad))
    BY <1>3, ValidateEffect, MarkApplyingEffect, MarkVerifyingEffect, CommitEffect, RollBackEffect
  <2> QED
    BY <1>1, <2>1, WroteEvolves, SameEvolves
<1>4. CASE MarkRolledBack \/ MarkRollingBack \/ MarkFailed \/ MarkInterrupted \/ MarkDamaged
  <2>1. task.from # "FAILED" /\ \E to, detail, ok, bad :
                                     Wrote(task, task', journal, journal', to, detail, ok, bad)
    BY <1>4, MarkRolledBackEffect, MarkRollingBackEffect, MarkFailedEffect, MarkInterruptedEffect,
       MarkDamagedEffect DEF MovingStates
  <2> QED
    BY <1>1, <2>1, WroteEvolves
<1>5. CASE \/ ApplyNFT \/ InstallSingBox \/ RestartSingBox \/ RemovePrevious \/ WritePolicy
           \/ ActivateMarker \/ BypassPolicy \/ BypassNFT \/ VerifyBypass
           \/ RemoveCandidate \/ RestoreSingBox \/ RestoreService \/ RestoreNFT \/ RestoreFile
           \/ \E f \in Families : AddIP(f) \/ RestoreIP(f)
  BY <1>5, SameEvolves
     DEF ApplyNFT, InstallSingBox, RestartSingBox, RemovePrevious, WritePolicy, ActivateMarker,
         BypassPolicy, BypassNFT, VerifyBypass, RemoveCandidate, RestoreSingBox, RestoreService,
         RestoreNFT, RestoreFile, AddIP, RestoreIP
<1>6. CASE \/ NextOperation \/ JournalCheck \/ DeactivateMarker \/ FinishRecovery
           \/ Start \/ RollbackRequested \/ RecoveryRequested \/ Crash \/ Reboot \/ SingBoxRestarts
  BY <1>6, SameEvolves
     DEF NextOperation, JournalCheck, DeactivateMarker, FinishRecovery, Start, RollbackRequested,
         RecoveryRequested, Crash, Reboot, Stop, SingBoxRestarts
<1>7. ASSUME NEW row \in DOMAIN journal, Tamper(row) PROVE Evolves(journal, journal')
  BY <1>7, TamperEffect DEF Alike, Evolves
<1>8. CASE Reconcile
  BY <1>1, <1>8, ReconcileEffect, BeganEvolves, SameEvolves
<1>9. CASE BypassRequested
  BY <1>1, <1>9, BypassRequestedEffect, BeganEvolves
<1>10. ASSUME NEW document \in Documents, ApplyRequested(document) PROVE Evolves(journal, journal')
  BY <1>1, <1>10, ApplyRequestedEffect, BeganEvolves
<1> QED
  BY <1>2, <1>3, <1>4, <1>5, <1>6, <1>7, <1>8, <1>9, <1>10 DEF Next, Work

\* What is clean has always been.
LEMMA CleanWas ==
    ASSUME FlowInv, FlowInv', [Next]_vars, Clean'
    PROVE  Clean
<1>1. Evolves(journal, journal') /\ overtook \subseteq overtook'
  BY JournalEvolves, OvertookGrows
<1>2. /\ overtook' = {}
      /\ \A row \in DOMAIN journal' :
            /\ (journal')[row].snapshot.singbox = (journal')[row].snapshot.policy
            /\ (journal')[row].snapshot.nft \in {(journal')[row].snapshot.policy, Absent}
            /\ (journal')[row].detail \notin GaveUpDetails
  BY DEF Clean, Troubled, HalfApplied, GaveUpDetails, FlowInv, TypeOK
<1>3. /\ overtook = {}
      /\ \A row \in DOMAIN journal :
            /\ journal[row].snapshot.singbox = journal[row].snapshot.policy
            /\ journal[row].snapshot.nft \in {journal[row].snapshot.policy, Absent}
            /\ journal[row].detail \notin GaveUpDetails
  BY <1>1, <1>2 DEF Evolves
<1> QED
  BY <1>3 DEF Clean, Troubled, HalfApplied, GaveUpDetails

\* Steps at which HostTask says something.
HostTaskSteps ==
    InstallSteps \cup AddSteps \cup TidySteps \cup
    {"validate", "mark_applying", "mark_rolling_back", "bypass_policy", "bypass_nft", "verify_bypass"}

LEMMA HostTaskFree ==
    ASSUME NEW t, NEW e, NEW s, NEW p, NEW m, NEW n, NEW ru, t.step \notin HostTaskSteps
    PROVE  HostTaskOK(t, e, s, p, m, n, ru)
  BY DEF HostTaskOK, ApplyTaskOK, BypassingTaskOK, RestoreTaskOK, HostTaskSteps, TidySteps,
         InstallSteps, AddSteps

LEMMA FreeHostSteps ==
    ASSUME NEW step \in {"next_operation", "finish_recovery", "idle", "roll_back", "mark_failed",
                         "mark_interrupted", "mark_damaged", "remove_candidate", "activate_marker",
                         "deactivate_marker", "reconcile"}
    PROVE  step \notin HostTaskSteps
  BY DEF HostTaskSteps, InstallSteps, AddSteps, TidySteps, RestoreSteps

LEMMA GaveUpKeepsHostTask ==
    ASSUME NEW t \in Tasks, NEW u, GivesUp(t, u),
           NEW e, NEW s, NEW p, NEW m, NEW n, NEW ru
    PROVE  HostTaskOK(u, e, s, p, m, n, ru)
  BY GaveUpIsFree, FreeHostSteps, HostTaskFree

\* Of an entry only what never changes matters.
LEMMA SameEntryHostTask ==
    ASSUME NEW t, NEW e, NEW e2, NEW s, NEW p, NEW m, NEW n, NEW ru,
           HostTaskOK(t, e, s, p, m, n, ru),
           e2.component = e.component, e2.snapshot = e.snapshot, e2.candidate = e.candidate
    PROVE  HostTaskOK(t, e2, s, p, m, n, ru)
  BY DEF HostTaskOK, ApplyTaskOK, BypassingTaskOK, RestoreTaskOK

LEMMA GapShrinks ==
    ASSUME NEW p, NEW n, NEW ru, NEW ru2, NEW ta, NEW ta2,
           GapsOK(p, n, ru, ta), Shrunk(ru, ru2), Shrunk(ta, ta2)
    PROVE  GapsOK(p, n, ru2, ta2)
  BY DEF GapsOK, Gap, Shrunk

LEMMA WithinShrinks ==
    ASSUME NEW ru, NEW ru2, NEW set, NEW more, Within(ru, set), Shrunk(ru, ru2), set \subseteq more
    PROVE  Within(ru2, more)
  BY DEF Within, Shrunk

LEMMA WithinGrows ==
    ASSUME NEW ru, NEW ru2, NEW set, NEW added, NEW more, Within(ru, set), Grown(ru, ru2, added),
           set \cup added \subseteq more
    PROVE  Within(ru2, more)
  BY DEF Within, Grown

LEMMA WithinCleared ==
    ASSUME NEW ru, NEW ru2, NEW set, NEW gone, NEW more, Within(ru, set), Cleared(ru, ru2, gone),
           set \subseteq gone \cup more
    PROVE  Within(ru2, more)
  BY DEF Within, Cleared

\* Where nothing is installed, every route has a gap.
LEMMA NothingHasGaps ==
    ASSUME NEW p, NEW n, NEW ru, NEW ta, Within(ru, {})
    PROVE  GapsOK(p, n, ru, ta)
  BY DEF GapsOK, Gap, Within, Families

\* The operation at work in a clean host.
LEMMA HostWorkFacts ==
    ASSUME FlowInv, Clean, BypassRecord, HostRecord,
           task.step \in ApplySteps \cup BypassSteps \cup RestoreSteps
    PROVE  /\ task \in Tasks /\ task.row \in DOMAIN journal /\ task.row # NoMarker
           /\ Entry.state \in MovingStates /\ Entry.state = task.from
           /\ Moving(journal) = {task.row}
           /\ Snapshot.singbox = Snapshot.policy /\ Snapshot.nft \in {Snapshot.policy, Absent}
           /\ GapsOK(policy, nft, rules, tables)
           /\ Entry.component \in {"apply", "bypass"}
           /\ Entry.component = "apply" =>
                  /\ FlightOK(Entry, policy, nft, rules) /\ marker = NoMarker
                  /\ Candidate # Absent /\ RoutesOf(Candidate) = Candidate
           /\ Entry.component # "apply" =>
                  /\ RestOK(singbox, policy, nft, rules) /\ policy = Snapshot.policy
                  /\ \/ marker \in {Snapshot.marker, task.row}
                     \/ Entry.state = "ROLLING_BACK" /\ marker = NoMarker
<1>1. /\ task.row \in DOMAIN journal /\ Entry.state \in MovingStates /\ Entry.state = task.from
      /\ Entry.component \in {"apply", "bypass"} /\ task \in Tasks
  BY HostStepsMove DEF FlowInv, TypeOK
<1>2. /\ Moving(journal) = {task.row}
      /\ Entry.component = "apply" => marker = NoMarker
      /\ Entry.component # "apply" =>
            /\ policy = Snapshot.policy
            /\ \/ marker \in {Snapshot.marker, task.row}
               \/ Entry.state = "ROLLING_BACK" /\ marker = NoMarker
  BY <1>1, OneAtWork DEF BypassRecord, BypassRecordOK, Entry, Snapshot
<1>3. Snapshot.singbox = Snapshot.policy /\ Snapshot.nft \in {Snapshot.policy, Absent}
  BY <1>1, CleanFacts DEF Snapshot, Entry
<1>4. /\ GapsOK(policy, nft, rules, tables)
      /\ Entry.component = "apply" => FlightOK(Entry, policy, nft, rules)
      /\ Entry.component # "apply" => RestOK(singbox, policy, nft, rules)
  BY <1>2 DEF HostRecord, HostRecordOK, Entry
<1>5. Entry.component = "apply" => Candidate # Absent /\ RoutesOf(Candidate) = Candidate
  BY <1>1, RoutingAssumption DEF FlowInv, JournalOK, Candidate, Entry, RoutesOf
<1>6. task.row # NoMarker
  BY <1>1 DEF FlowInv, TypeOK, NoMarker
<1> QED
  BY <1>1, <1>2, <1>3, <1>4, <1>5, <1>6

\* A step on the host keeps the record if the operation at work allows what it leaves.
LEMMA WorkKeepsHostRecord ==
    ASSUME NEW j, NEW row, NEW s, NEW p, NEW m, NEW n, NEW ru, NEW ta,
           NEW s2, NEW p2, NEW m2, NEW n2, NEW ru2, NEW ta2,
           HostRecordOK(j, s, p, m, n, ru, ta), Moving(j) = {row}, m2 \in {m, NoMarker, row},
           j[row].component = "apply" => FlightOK(j[row], p2, n2, ru2),
           j[row].component # "apply" => RestOK(s2, p2, n2, ru2),
           GapsOK(p2, n2, ru2, ta2)
    PROVE  HostRecordOK(j, s2, p2, m2, n2, ru2, ta2)
<1>1. row \in DOMAIN j /\ j[row].state \in LastingStates
  BY DEF Moving, LastingStates
<1> QED
  BY <1>1 DEF HostRecordOK, MarkerLasts

\* A statement keeps the record: it leaves the work on the host, or begins it, or stays
\* away from it.
LEMMA MoveKeepsHostRecord ==
    ASSUME NEW j, NEW k, NEW row, NEW to, NEW detail, NEW s, NEW p, NEW m, NEW n, NEW ru, NEW ta,
           HostRecordOK(j, s, p, m, n, ru, ta), Moves(j, k, row, to, detail),
           \/ j[row].state \notin LastingStates /\ to \notin LastingStates
           \/ /\ Moving(j) \subseteq {row}
              /\ j[row].component # "apply" \/ to \notin MovingStates => RestOK(s, p, n, ru)
              /\ j[row].component = "apply" /\ to \in MovingStates => FlightOK(j[row], p, n, ru)
              /\ j[row].component # "apply" /\ to \in LastingStates => j[row].snapshot.marker = NoMarker
              /\ m = row => to \in LastingStates
    PROVE  HostRecordOK(k, s, p, m, n, ru, ta)
<1>1. /\ row \in DOMAIN j /\ DOMAIN k = DOMAIN j /\ k[row].state = to
      /\ k[row].snapshot = j[row].snapshot /\ k[row].component = j[row].component
      /\ k[row].candidate = j[row].candidate
      /\ \A r \in DOMAIN j \ {row} : k[r] = j[r]
  BY DEF Moves
<1>2. CASE j[row].state \notin LastingStates /\ to \notin LastingStates
  <2>1. Moving(k) = Moving(j) /\ \A r \in Moving(j) : k[r] = j[r]
    BY <1>1, <1>2 DEF Moving, LastingStates
  <2>2. FirstBypasses(k) /\ MarkerLasts(k, m)
    BY <1>1, <1>2 DEF HostRecordOK, FirstBypasses, MarkerLasts
  <2> QED
    BY <2>1, <2>2 DEF HostRecordOK
<1>3. CASE /\ Moving(j) \subseteq {row}
           /\ j[row].component # "apply" \/ to \notin MovingStates => RestOK(s, p, n, ru)
           /\ j[row].component = "apply" /\ to \in MovingStates => FlightOK(j[row], p, n, ru)
           /\ j[row].component # "apply" /\ to \in LastingStates => j[row].snapshot.marker = NoMarker
           /\ m = row => to \in LastingStates
  <2>1. Moving(k) = IF to \in MovingStates THEN {row} ELSE {}
    BY <1>1, <1>3 DEF Moving
  <2>2. FirstBypasses(k) /\ MarkerLasts(k, m)
    BY <1>1, <1>3 DEF HostRecordOK, FirstBypasses, MarkerLasts
  <2>3. FlightOK(k[row], p, n, ru) <=> FlightOK(j[row], p, n, ru)
    BY <1>1 DEF FlightOK
  <2> QED
    BY <1>1, <1>3, <2>1, <2>2, <2>3 DEF HostRecordOK
<1> QED
  BY <1>2, <1>3

\* So does a new row, which is prepared.
LEMMA AppendKeepsHostRecord ==
    ASSUME NEW j \in Seq(Entries), NEW e \in Entries, e.state = "PREPARED",
           NEW s, NEW p, NEW m, NEW n, NEW ru, NEW ta, HostRecordOK(j, s, p, m, n, ru, ta)
    PROVE  HostRecordOK(Append(j, e), s, p, m, n, ru, ta)
<1> DEFINE k == Append(j, e)
           top == Len(j) + 1
<1>1. /\ top \notin DOMAIN j /\ DOMAIN k = DOMAIN j \cup {top} /\ k[top] = e
      /\ \A row \in DOMAIN j : k[row] = j[row]
  BY AppendFacts
<1> HIDE DEF k, top
<1>2. e.state \notin LastingStates
  BY DEF LastingStates, MovingStates
<1>3. Moving(k) = Moving(j) /\ \A row \in Moving(j) : k[row] = j[row]
  BY <1>1, <1>2 DEF Moving, LastingStates
<1>4. FirstBypasses(k) /\ MarkerLasts(k, m)
  BY <1>1, <1>2 DEF HostRecordOK, FirstBypasses, MarkerLasts
<1> QED
  BY <1>3, <1>4 DEF HostRecordOK, k

LEMMA AlikeKeepsHostRecord ==
    ASSUME NEW j, NEW k, Alike(j, k),
           NEW s, NEW p, NEW m, NEW n, NEW ru, NEW ta, HostRecordOK(j, s, p, m, n, ru, ta)
    PROVE  HostRecordOK(k, s, p, m, n, ru, ta)
<1>1. Moving(k) = Moving(j) /\ \A row \in Moving(j) : row \in DOMAIN j
  BY DEF Alike, Moving
<1>2. \A row \in DOMAIN j : FlightOK(k[row], p, n, ru) <=> FlightOK(j[row], p, n, ru)
  BY DEF FlightOK, Alike
<1>3. FirstBypasses(k) /\ MarkerLasts(k, m)
  BY DEF Alike, HostRecordOK, FirstBypasses, MarkerLasts
<1> HIDE DEF FlightOK, RestOK, GapsOK
<1> QED
  BY <1>1, <1>2, <1>3 DEF HostRecordOK, Alike

-------------------------------------------------------------------------------
(* The steps on the host keep it within its bounds.                        *)

LEMMA PassesFacts ==
    ASSUME NEW t \in Tasks, NEW u, NEW next, Passes(t, u, next)
    PROVE  u.step = next /\ u.row = t.row /\ u.config = t.config /\ u.from = t.from
  BY DEF Passes, Tasks

\* What such a step has to show.
LEMMA HostStepKeeps ==
    ASSUME FlowInv, Clean, BypassRecord, HostRecord,
           task.step \in ApplySteps \cup BypassSteps \cup RestoreSteps,
           UNCHANGED journal, marker' \in {marker, NoMarker, task.row},
           Entry.component = "apply" => FlightOK(Entry, policy', nft', rules'),
           Entry.component # "apply" => RestOK(singbox', policy', nft', rules'),
           GapsOK(policy', nft', rules', tables'),
           \/ GivesUp(task, task')
           \/ /\ (task').row = task.row
              /\ HostTaskOK(task', Entry, singbox', policy', marker', nft', rules')
    PROVE  HostRecord' /\ HostTask'
<1>1. Moving(journal) = {task.row} /\ task \in Tasks
  BY HostWorkFacts
<1>2. HostRecordOK(journal, singbox', policy', marker', nft', rules', tables')
  BY <1>1, WorkKeepsHostRecord DEF HostRecord, Entry
<1>3. HostRecord'
  BY <1>2 DEF HostRecord
<1>4. HostTask'
  BY <1>1, GaveUpKeepsHostTask DEF HostTask, Entry
<1> QED
  BY <1>3, <1>4

LEMMA InstallKeepsHost ==
    ASSUME FlowInv, Clean, BypassRecord, HostRecord, HostTask,
           ApplyNFT \/ InstallSingBox \/ RestartSingBox \/ RemovePrevious
    PROVE  HostRecord' /\ HostTask'
<1> DEFINE old == Snapshot.policy
<1>1. /\ task.step \in {"apply_nft", "install_singbox", "restart_singbox", "remove_previous"}
      /\ UNCHANGED <<journal, policy, marker>>
  BY ApplyNFTEffect, InstallSingBoxEffect, RestartSingBoxEffect, RemovePreviousEffect DEF files
<1>2. task.step \in RowSteps /\ task.step \in ApplySteps
  BY <1>1 DEF RowSteps, ApplySteps
<1>3. /\ task \in Tasks /\ Entry.component = "apply"
      /\ FlightOK(Entry, policy, nft, rules) /\ GapsOK(policy, nft, rules, tables)
      /\ Candidate # Absent /\ RoutesOf(Candidate) = Candidate
  BY <1>2, HostStepsMove, HostWorkFacts
<1>4. /\ task.config = Candidate /\ Within(rules, RoutesOf(old))
      /\ task.step # "apply_nft" => nft = Candidate
      /\ task.step \in {"restart_singbox", "remove_previous"} => singbox = Candidate
  BY <1>1, <1>2, <1>3
     DEF HostTask, HostTaskOK, ApplyTaskOK, InstallSteps, Candidate, Entry, Snapshot
<1> HIDE DEF old
<1>5. ASSUME Shrunk(rules, rules'), nft' \in {nft, Candidate}
      PROVE  FlightOK(Entry, policy, nft', rules')
  <2>1. \A f \in Families : rules'[f] \subseteq rules[f]
    BY <1>5 DEF Shrunk
  <2> QED
    BY <1>3, <1>5, <2>1 DEF FlightOK, Within, Candidate
<1>6. CASE ApplyNFT
  <2>1. /\ nft' \in {nft, Candidate} /\ UNCHANGED <<singbox, rules, tables>>
        /\ \/ Passes(task, task', "install_singbox") /\ nft' = Candidate
           \/ GivesUp(task, task')
    BY <1>6, ApplyNFTEffect DEF files
  <2>2. FlightOK(Entry, policy', nft', rules')
    BY <1>1, <1>5, <2>1, ShrunkSelf
  <2>3. GapsOK(policy', nft', rules', tables')
    <3>1. CASE nft' = nft
      BY <1>1, <1>3, <2>1, <3>1
    <3>2. CASE nft' = Candidate
      BY <1>3, <3>2 DEF GapsOK
    <3> QED
      BY <2>1, <3>1, <3>2
  <2>4. ASSUME Passes(task, task', "install_singbox"), nft' = Candidate
        PROVE  /\ (task').row = task.row
               /\ HostTaskOK(task', Entry, singbox', policy', marker', nft', rules')
    <3>1. (task').step = "install_singbox" /\ (task').row = task.row /\ (task').config = task.config
      BY <1>3, <2>4, PassesFacts
    <3>2. Within(rules', RoutesOf(old))
      BY <1>4, <2>1
    <3> QED
      BY <1>3, <1>4, <2>1, <2>4, <3>1, <3>2
         DEF HostTaskOK, ApplyTaskOK, RestoreTaskOK, InstallSteps, AddSteps, TidySteps, RestoreSteps,
             Candidate, Entry, Snapshot, old
  <2> QED
    BY <1>1, <1>2, <1>3, <2>1, <2>2, <2>3, <2>4, HostStepKeeps
<1>7. CASE InstallSingBox
  <2>1. /\ UNCHANGED <<nft, rules, tables>>
        /\ \/ Passes(task, task', "restart_singbox") /\ singbox' = task.config
           \/ GivesUp(task, task')
        /\ task.step = "install_singbox"
    BY <1>7, InstallSingBoxEffect DEF kernel
  <2>2. FlightOK(Entry, policy', nft', rules') /\ GapsOK(policy', nft', rules', tables')
    BY <1>1, <1>3, <2>1
  <2>4. ASSUME Passes(task, task', "restart_singbox"), singbox' = task.config
        PROVE  /\ (task').row = task.row
               /\ HostTaskOK(task', Entry, singbox', policy', marker', nft', rules')
    <3>1. (task').step = "restart_singbox" /\ (task').row = task.row /\ (task').config = task.config
      BY <1>3, <2>4, PassesFacts
    <3>2. Within(rules', RoutesOf(old)) /\ nft' = Candidate
      BY <1>4, <2>1
    <3> QED
      BY <1>3, <1>4, <2>1, <2>4, <3>1, <3>2
         DEF HostTaskOK, ApplyTaskOK, RestoreTaskOK, InstallSteps, AddSteps, TidySteps, RestoreSteps,
             Candidate, Entry, Snapshot, old
  <2> QED
    BY <1>1, <1>2, <1>3, <2>1, <2>2, <2>4, HostStepKeeps
<1>8. CASE RestartSingBox
  <2>1. /\ UNCHANGED <<singbox, nft, rules>> /\ Shrunk(tables, tables')
        /\ Passes(task, task', "remove_previous") \/ GivesUp(task, task')
        /\ task.step = "restart_singbox"
    BY <1>8, RestartSingBoxEffect DEF files
  <2>2. FlightOK(Entry, policy', nft', rules') /\ GapsOK(policy', nft', rules', tables')
    BY <1>1, <1>3, <2>1, ShrunkSelf, GapShrinks
  <2>4. ASSUME Passes(task, task', "remove_previous")
        PROVE  /\ (task').row = task.row
               /\ HostTaskOK(task', Entry, singbox', policy', marker', nft', rules')
    <3>1. (task').step = "remove_previous" /\ (task').row = task.row /\ (task').config = task.config
      BY <1>3, <2>4, PassesFacts
    <3>2. Within(rules', RoutesOf(old)) /\ nft' = Candidate /\ singbox' = Candidate
      BY <1>4, <2>1
    <3> QED
      BY <1>3, <1>4, <3>1, <3>2
         DEF HostTaskOK, ApplyTaskOK, RestoreTaskOK, InstallSteps, AddSteps, TidySteps, RestoreSteps,
             Candidate, Entry, Snapshot, old
  <2> QED
    BY <1>1, <1>2, <1>3, <2>1, <2>2, <2>4, HostStepKeeps
<1>9. CASE RemovePrevious
  <2>1. /\ UNCHANGED <<singbox, nft>> /\ Shrunk(rules, rules') /\ Shrunk(tables, tables')
        /\ \/ Passes(task, task', "add_ipv4") /\ Cleared(rules, rules', RoutesOf(old))
           \/ GivesUp(task, task')
        /\ task.step = "remove_previous"
    BY <1>9, RemovePreviousEffect DEF files, old
  <2>2. FlightOK(Entry, policy', nft', rules') /\ GapsOK(policy', nft', rules', tables')
    BY <1>1, <1>3, <1>5, <2>1, GapShrinks
  <2>4. ASSUME Passes(task, task', "add_ipv4"), Cleared(rules, rules', RoutesOf(old))
        PROVE  /\ (task').row = task.row
               /\ HostTaskOK(task', Entry, singbox', policy', marker', nft', rules')
    <3>1. (task').step = "add_ipv4" /\ (task').row = task.row
      BY <1>3, <2>4, PassesFacts
    <3>2. Within(rules', Candidate) /\ nft' = Candidate /\ singbox' = Candidate
      BY <1>4, <2>1, <2>4, WithinCleared
    <3> QED
      BY <1>3, <3>1, <3>2
         DEF HostTaskOK, ApplyTaskOK, RestoreTaskOK, InstallSteps, AddSteps, TidySteps, RestoreSteps,
             Candidate, Entry, Snapshot, old
  <2> QED
    BY <1>1, <1>2, <1>3, <2>1, <2>2, <2>4, HostStepKeeps
<1> QED
  BY <1>6, <1>7, <1>8, <1>9

LEMMA AddKeepsHost ==
    ASSUME FlowInv, Clean, BypassRecord, HostRecord, HostTask,
           WritePolicy \/ \E f \in Families : AddIP(f)
    PROVE  HostRecord' /\ HostTask'
<1>1. task.step \in {"add_ipv4", "add_ipv6", "write_policy"} /\ UNCHANGED <<journal, singbox, marker, nft>>
  BY AddIPEffect, WritePolicyEffect DEF files, kernel
<1>2. task.step \in RowSteps /\ task.step \in ApplySteps
  BY <1>1 DEF RowSteps, ApplySteps
<1>3. /\ task \in Tasks /\ Entry.component = "apply"
      /\ FlightOK(Entry, policy, nft, rules)
      /\ Candidate # Absent /\ RoutesOf(Candidate) = Candidate
  BY <1>2, HostStepsMove, HostWorkFacts
<1>4. singbox = Candidate /\ nft = Candidate /\ Within(rules, Candidate)
  BY <1>1, <1>2, <1>3 DEF HostTask, HostTaskOK, ApplyTaskOK, AddSteps, Candidate, Entry
<1>5. GapsOK(policy', nft', rules', tables')
  BY <1>1, <1>3, <1>4 DEF GapsOK
<1>6. ASSUME (task').row = task.row, (task').step \in AddSteps, Within(rules', Candidate),
             (task').step = "commit" => policy' = Candidate
      PROVE  HostTaskOK(task', Entry, singbox', policy', marker', nft', rules')
  BY <1>1, <1>3, <1>4, <1>6
     DEF HostTaskOK, ApplyTaskOK, RestoreTaskOK, InstallSteps, AddSteps, TidySteps, RestoreSteps,
         Candidate, Entry
<1>7. CASE WritePolicy
  <2>1. /\ policy' \in {policy, Candidate} /\ UNCHANGED rules
        /\ (Passes(task, task', "commit") /\ policy' = Candidate) \/ GivesUp(task, task')
    BY <1>7, WritePolicyEffect DEF kernel
  <2>2. FlightOK(Entry, policy', nft', rules')
    BY <1>1, <1>3, <2>1 DEF FlightOK, Candidate
  <2>3. ASSUME Passes(task, task', "commit"), policy' = Candidate
        PROVE  /\ (task').row = task.row
               /\ HostTaskOK(task', Entry, singbox', policy', marker', nft', rules')
    <3>1. (task').step = "commit" /\ (task').row = task.row
      BY <1>3, <2>3, PassesFacts
    <3>2. (task').step \in AddSteps
      BY <3>1 DEF AddSteps
    <3> QED
      BY <1>4, <1>6, <2>1, <2>3, <3>1, <3>2
  <2> QED
    BY <1>1, <1>2, <1>3, <1>5, <2>1, <2>2, <2>3, HostStepKeeps
<1>8. ASSUME NEW f \in Families, AddIP(f)
      PROVE  HostRecord' /\ HostTask'
  <2>1. /\ UNCHANGED policy /\ Grown(rules, rules', Candidate)
        /\ \/ Passes(task, task', "add_ipv6")
           \/ Passes(task, task', "mark_verifying")
           \/ GivesUp(task, task')
    BY <1>8, AddIPEffect DEF files
  <2>2. Within(rules', Candidate)
    BY <1>4, <2>1, WithinGrows
  <2>3. FlightOK(Entry, policy', nft', rules')
    BY <1>1, <1>3, <2>1, <2>2 DEF FlightOK, Candidate, Within
  <2>4. ASSUME NEW next \in {"add_ipv6", "mark_verifying"}, Passes(task, task', next)
        PROVE  /\ (task').row = task.row
               /\ HostTaskOK(task', Entry, singbox', policy', marker', nft', rules')
    <3>1. (task').step = next /\ (task').row = task.row
      BY <1>3, <2>4, PassesFacts
    <3>2. (task').step \in AddSteps /\ (task').step # "commit"
      BY <3>1 DEF AddSteps
    <3> QED
      BY <1>6, <2>2, <3>1, <3>2
  <2> QED
    BY <1>1, <1>2, <1>3, <1>5, <2>1, <2>3, <2>4, HostStepKeeps
<1> QED
  BY <1>7, <1>8

LEMMA UndoKeepsHost ==
    ASSUME FlowInv, Clean, BypassRecord, HostRecord, HostTask,
           RemoveCandidate \/ RestoreSingBox \/ RestoreService
    PROVE  HostRecord' /\ HostTask'
<1> DEFINE old == Snapshot.policy
<1>1. /\ task.step \in {"remove_candidate", "restore_singbox", "restore_service"}
      /\ UNCHANGED <<journal, policy, marker, nft>>
      /\ Shrunk(rules, rules') /\ Shrunk(tables, tables')
  BY RemoveCandidateEffect, RestoreSingBoxEffect, RestoreServiceEffect, ShrunkSelf DEF files
<1>2. task.step \in RowSteps /\ task.step \in ApplySteps
  BY <1>1 DEF RowSteps, ApplySteps
<1>3. /\ task \in Tasks /\ Entry.component = "apply"
      /\ FlightOK(Entry, policy, nft, rules) /\ GapsOK(policy, nft, rules, tables)
      /\ RoutesOf(Candidate) = Candidate /\ Snapshot.singbox = old
  BY <1>2, HostStepsMove, HostWorkFacts
<1>4. /\ task.step # "remove_candidate" => Within(rules, RoutesOf(old))
      /\ task.step = "restore_service" => old = Absent \/ singbox = old
  BY <1>1, <1>2, <1>3 DEF HostTask, HostTaskOK, RestoreTaskOK, TidySteps, Entry, Snapshot
<1>5. FlightOK(Entry, policy', nft', rules') /\ GapsOK(policy', nft', rules', tables')
  <2>1. \A f \in Families : rules'[f] \subseteq rules[f]
    BY <1>1 DEF Shrunk
  <2>2. FlightOK(Entry, policy', nft', rules')
    BY <1>1, <1>3, <2>1 DEF FlightOK, Within
  <2> QED
    BY <1>1, <1>3, <2>2, GapShrinks
<1> HIDE DEF old
<1>6. CASE RemoveCandidate
  <2>1. \/ Passes(task, task', "restore_singbox") /\ Cleared(rules, rules', Candidate)
        \/ GivesUp(task, task')
    BY <1>6, RemoveCandidateEffect
  <2>2. ASSUME Passes(task, task', "restore_singbox"), Cleared(rules, rules', Candidate)
        PROVE  /\ (task').row = task.row
               /\ HostTaskOK(task', Entry, singbox', policy', marker', nft', rules')
    <3>1. (task').step = "restore_singbox" /\ (task').row = task.row
      BY <1>3, <2>2, PassesFacts
    <3>2. Within(rules, RoutesOf(old) \cup Candidate)
      BY <1>3 DEF FlightOK, Candidate, Snapshot, old
    <3>3. Within(rules', RoutesOf(old))
      BY <2>2, <3>2, WithinCleared
    <3> QED
      BY <1>3, <3>1, <3>3
         DEF HostTaskOK, ApplyTaskOK, RestoreTaskOK, InstallSteps, AddSteps, TidySteps, RestoreSteps,
             Entry, Snapshot, old
  <2> QED
    BY <1>1, <1>2, <1>3, <1>5, <2>1, <2>2, HostStepKeeps
<1>7. CASE RestoreSingBox
  <2>1. /\ (Passes(task, task', "restore_service") /\ (old # Absent => singbox' = old)) \/ GivesUp(task, task')
        /\ task.step = "restore_singbox" /\ UNCHANGED rules
    BY <1>3, <1>7, RestoreSingBoxEffect
  <2>2. ASSUME Passes(task, task', "restore_service"), old # Absent => singbox' = old
        PROVE  /\ (task').row = task.row
               /\ HostTaskOK(task', Entry, singbox', policy', marker', nft', rules')
    <3>1. (task').step = "restore_service" /\ (task').row = task.row
      BY <1>3, <2>2, PassesFacts
    <3>2. Within(rules', RoutesOf(old))
      BY <1>4, <2>1
    <3> QED
      BY <1>3, <2>2, <3>1, <3>2
         DEF HostTaskOK, ApplyTaskOK, RestoreTaskOK, InstallSteps, AddSteps, TidySteps, RestoreSteps,
             Entry, Snapshot, old
  <2> QED
    BY <1>1, <1>2, <1>3, <1>5, <2>1, <2>2, HostStepKeeps
<1>8. CASE RestoreService
  <2>1. /\ \/ Passes(task, task', "restore_nft") /\ singbox' = IF old = Absent THEN Absent ELSE singbox
           \/ GivesUp(task, task')
        /\ task.step = "restore_service" /\ UNCHANGED rules
    BY <1>3, <1>8, RestoreServiceEffect
  <2>2. ASSUME Passes(task, task', "restore_nft"), singbox' = IF old = Absent THEN Absent ELSE singbox
        PROVE  /\ (task').row = task.row
               /\ HostTaskOK(task', Entry, singbox', policy', marker', nft', rules')
    <3>1. (task').step = "restore_nft" /\ (task').row = task.row
      BY <1>3, <2>2, PassesFacts
    <3>2. Within(rules', RoutesOf(old)) /\ singbox' = old
      BY <1>4, <2>1, <2>2
    <3> QED
      BY <1>3, <3>1, <3>2
         DEF HostTaskOK, ApplyTaskOK, RestoreTaskOK, InstallSteps, AddSteps, TidySteps, RestoreSteps,
             Entry, Snapshot, old
  <2> QED
    BY <1>1, <1>2, <1>3, <1>5, <2>1, <2>2, HostStepKeeps
<1> QED
  BY <1>6, <1>7, <1>8

LEMMA BypassStepsKeepHost ==
    ASSUME FlowInv, Clean, BypassRecord, HostRecord, HostTask,
           ActivateMarker \/ BypassPolicy \/ BypassNFT \/ VerifyBypass
    PROVE  HostRecord' /\ HostTask'
<1> DEFINE old == Snapshot.policy
<1>1. /\ task.step \in {"activate_marker", "bypass_policy", "bypass_nft", "verify_bypass"}
      /\ UNCHANGED <<journal, singbox, policy>>
      /\ nft' \in {nft, Absent} /\ Shrunk(rules, rules') /\ Shrunk(tables, tables')
      /\ marker' \in {marker, task.row}
  BY ActivateMarkerEffect, BypassPolicyEffect, BypassNFTEffect, VerifyBypassEffect, ShrunkSelf
     DEF files, kernel
<1>2. task.step \in RowSteps /\ task.step \in BypassSteps
  BY <1>1 DEF RowSteps, BypassSteps
<1>3. Entry.component # "apply"
  BY <1>2, HostStepsMove
<1>4. /\ task \in Tasks /\ task.row \in DOMAIN journal
      /\ Entry.state \in MovingStates /\ Entry.state = task.from
      /\ GapsOK(policy, nft, rules, tables) /\ RestOK(singbox, policy, nft, rules) /\ policy = old
  BY <1>2, <1>3, HostWorkFacts
<1>5. Snapshot.marker = NoMarker
  BY <1>3, <1>4 DEF HostRecord, HostRecordOK, FirstBypasses, LastingStates, Entry, Snapshot
<1>6. /\ task.step \in {"bypass_policy", "bypass_nft"} => marker = task.row
      /\ task.step \in {"bypass_policy", "bypass_nft", "verify_bypass"} => task.from # "ROLLING_BACK"
      /\ task.step = "bypass_nft" => \A f \in Families : rules[f] \cap RoutesOf(old) = {}
  BY <1>1, <1>2, <1>3 DEF HostTask, HostTaskOK, BypassingTaskOK, Entry, Snapshot
<1>7. RestOK(singbox', policy', nft', rules')
  <2>1. Within(rules', RoutesOf(policy))
    BY <1>1, <1>4, WithinShrinks DEF RestOK
  <2> QED
    BY <1>1, <1>4, <2>1 DEF RestOK
<1> HIDE DEF old
<1>8. CASE ActivateMarker
  <2>1. /\ UNCHANGED <<nft, rules, tables>> /\ task.step = "activate_marker"
        /\ (Passes(task, task', "bypass_policy") /\ marker' = task.row) \/ GivesUp(task, task')
    BY <1>5, <1>8, ActivateMarkerEffect DEF kernel
  <2>2. GapsOK(policy', nft', rules', tables')
    BY <1>1, <1>4, <2>1
  <2>3. task.from # "ROLLING_BACK"
    BY <1>2, <2>1, RowTypes DEF StepFits, FromAt
  <2>4. ASSUME Passes(task, task', "bypass_policy"), marker' = task.row
        PROVE  /\ (task').row = task.row
               /\ HostTaskOK(task', Entry, singbox', policy', marker', nft', rules')
    <3>1. (task').step = "bypass_policy" /\ (task').row = task.row /\ (task').from = task.from
      BY <1>4, <2>4, PassesFacts
    <3> QED
      BY <1>3, <2>3, <2>4, <3>1
         DEF HostTaskOK, BypassingTaskOK, RestoreTaskOK, TidySteps, RestoreSteps
  <2> QED
    BY <1>1, <1>2, <1>3, <1>7, <2>1, <2>2, <2>4, HostStepKeeps
<1>9. CASE BypassPolicy
  <2>1. /\ UNCHANGED <<nft, marker>> /\ task.step = "bypass_policy"
        /\ (Passes(task, task', "bypass_nft") /\ Cleared(rules, rules', RoutesOf(old))) \/ GivesUp(task, task')
    BY <1>9, BypassPolicyEffect DEF files, old
  <2>2. GapsOK(policy', nft', rules', tables')
    BY <1>1, <1>4, <2>1, GapShrinks
  <2>4. ASSUME Passes(task, task', "bypass_nft"), Cleared(rules, rules', RoutesOf(old))
        PROVE  /\ (task').row = task.row
               /\ HostTaskOK(task', Entry, singbox', policy', marker', nft', rules')
    <3>1. (task').step = "bypass_nft" /\ (task').row = task.row /\ (task').from = task.from
      BY <1>4, <2>4, PassesFacts
    <3>2. \A f \in Families : rules'[f] \cap RoutesOf(old) = {}
      BY <2>4 DEF Cleared
    <3> QED
      BY <1>3, <1>6, <2>1, <3>1, <3>2
         DEF HostTaskOK, BypassingTaskOK, RestoreTaskOK, TidySteps, RestoreSteps, Entry, Snapshot, old
  <2> QED
    BY <1>1, <1>2, <1>3, <1>7, <2>1, <2>2, <2>4, HostStepKeeps
<1>10. CASE BypassNFT
  <2>1. /\ UNCHANGED <<rules, tables, marker>> /\ task.step = "bypass_nft"
        /\ \/ Passes(task, task', "mark_verifying")
           \/ Passes(task, task', "verify_bypass")
           \/ GivesUp(task, task')
    BY <1>10, BypassNFTEffect DEF files
  <2>2. GapsOK(policy', nft', rules', tables')
    BY <1>1, <1>4, <1>6, <2>1 DEF GapsOK, Gap, Families
  <2>4. ASSUME NEW next \in {"mark_verifying", "verify_bypass"}, Passes(task, task', next)
        PROVE  /\ (task').row = task.row
               /\ HostTaskOK(task', Entry, singbox', policy', marker', nft', rules')
    <3>1. (task').step = next /\ (task').row = task.row /\ (task').from = task.from
      BY <1>4, <2>4, PassesFacts
    <3> QED
      BY <1>3, <1>6, <2>1, <3>1
         DEF HostTaskOK, BypassingTaskOK, RestoreTaskOK, TidySteps, RestoreSteps
  <2> QED
    BY <1>1, <1>2, <1>3, <1>7, <2>1, <2>2, <2>4, HostStepKeeps
<1>11. CASE VerifyBypass
  <2>1. /\ UNCHANGED <<nft, rules, tables, marker>> /\ task.step = "verify_bypass"
        /\ \/ Passes(task, task', "mark_rolled_back") /\ task.from = "ROLLING_BACK"
           \/ Passes(task, task', "commit")
           \/ GivesUp(task, task')
    BY <1>11, VerifyBypassEffect DEF files, kernel
  <2>2. GapsOK(policy', nft', rules', tables')
    BY <1>1, <1>4, <2>1
  <2>4. ASSUME Passes(task, task', "commit")
        PROVE  /\ (task').row = task.row
               /\ HostTaskOK(task', Entry, singbox', policy', marker', nft', rules')
    <3>1. (task').step = "commit" /\ (task').row = task.row
      BY <1>4, <2>4, PassesFacts
    <3> QED
      BY <1>3, <3>1 DEF HostTaskOK, BypassingTaskOK, RestoreTaskOK, TidySteps, RestoreSteps
  <2> QED
    BY <1>1, <1>2, <1>3, <1>6, <1>7, <2>1, <2>2, <2>4, HostStepKeeps
<1> QED
  BY <1>8, <1>9, <1>10, <1>11

\* The table that restoreNFT builds is the previous one, or none where there were no
\* routes to protect.
LEMMA RestoredTable ==
    ASSUME FlowInv, Clean, task.row \in DOMAIN journal
    PROVE  /\ RestoredNFT(task.row) \in {Snapshot.policy, Absent}
           /\ RoutesOf(Snapshot.policy) # {} => RestoredNFT(task.row) = Snapshot.policy
  BY CleanFacts DEF RestoredNFT, Snapshot, Entry

LEMMA RestoreKeepsHost ==
    ASSUME FlowInv, Clean, BypassRecord, HostRecord, HostTask,
           RestoreNFT \/ RestoreFile \/ \E f \in Families : RestoreIP(f)
    PROVE  HostRecord' /\ HostTask'
<1> DEFINE old == Snapshot.policy
<1>1. /\ task.step \in RestoreSteps /\ UNCHANGED <<journal, singbox>>
      /\ marker' \in {marker, NoMarker}
      /\ Entry.component # "apply" => policy' = policy
      /\ task.step # "restore_nft" => UNCHANGED nft
  BY RestoreNFTEffect, RestoreFileEffect, RestoreIPEffect DEF files, kernel, RestoreSteps
<1>2. task.step \in RowSteps
  BY <1>1 DEF RowSteps
<1>3. /\ task \in Tasks /\ task.row \in DOMAIN journal
      /\ GapsOK(policy, nft, rules, tables)
      /\ Entry.component = "apply" => FlightOK(Entry, policy, nft, rules) /\ marker = NoMarker
      /\ Entry.component # "apply" => RestOK(singbox, policy, nft, rules) /\ policy = old
  BY <1>1, HostWorkFacts
<1>4. /\ Within(rules, RoutesOf(old)) /\ singbox = old
      /\ task.step # "restore_nft" =>
             /\ nft \in {old, Absent}
             /\ RoutesOf(old) # {} => nft = old
  BY <1>1, <1>2 DEF HostTask, HostTaskOK, RestoreTaskOK, TidySteps, RestoreSteps, Entry, Snapshot
<1> HIDE DEF old
\* What the host holds at the next step of the restore.
<1>5. ASSUME (task').row = task.row,
             (task').step \in {"restore_ipv4", "restore_ipv6", "restore_file", "mark_rolled_back"},
             Within(rules', RoutesOf(old)), nft' \in {old, Absent}, RoutesOf(old) # {} => nft' = old,
             (task').step = "mark_rolled_back" => policy' = old /\ marker' = NoMarker
      PROVE  HostTaskOK(task', Entry, singbox', policy', marker', nft', rules')
  <2>1. singbox' = old
    BY <1>1, <1>4
  <2> QED
    BY <1>5, <2>1
       DEF HostTaskOK, ApplyTaskOK, BypassingTaskOK, RestoreTaskOK, InstallSteps, AddSteps, TidySteps,
           RestoreSteps, Entry, Snapshot, old
<1>6. CASE RestoreNFT
  <2>1. /\ UNCHANGED <<policy, marker, rules, tables>> /\ nft' \in {nft, RestoredNFT(task.row)}
        /\ \/ Passes(task, task', "restore_ipv4") /\ nft' = RestoredNFT(task.row)
           \/ GivesUp(task, task')
    BY <1>6, RestoreNFTEffect DEF files
  <2>2. /\ RestoredNFT(task.row) \in {old, Absent}
        /\ RoutesOf(old) # {} => RestoredNFT(task.row) = old
    BY <1>3, RestoredTable DEF old
  <2>3. nft' \in {nft, old, Absent}
    BY <2>1, <2>2
  <2>4. /\ Entry.component = "apply" => FlightOK(Entry, policy', nft', rules')
        /\ Entry.component # "apply" => RestOK(singbox', policy', nft', rules')
    BY <1>1, <1>3, <2>1, <2>3 DEF FlightOK, RestOK, Snapshot, old
  <2>5. GapsOK(policy', nft', rules', tables')
    <3>1. CASE nft' = nft
      BY <1>3, <2>1, <3>1
    <3>2. CASE nft' = RestoredNFT(task.row) /\ nft' # Absent
      BY <3>2 DEF GapsOK
    <3>3. CASE nft' = RestoredNFT(task.row) /\ nft' = Absent
      <4>1. RoutesOf(old) = {}
        BY <2>2, <3>3 DEF RoutesOf
      <4> QED
        BY <1>4, <2>1, <4>1, NothingHasGaps
    <3> QED
      BY <2>1, <3>1, <3>2, <3>3
  <2>6. ASSUME Passes(task, task', "restore_ipv4"), nft' = RestoredNFT(task.row)
        PROVE  /\ (task').row = task.row
               /\ HostTaskOK(task', Entry, singbox', policy', marker', nft', rules')
    <3>1. (task').step = "restore_ipv4" /\ (task').row = task.row
      BY <1>3, <2>6, PassesFacts
    <3>2. Within(rules', RoutesOf(old))
      BY <1>4, <2>1
    <3> QED
      BY <1>5, <2>2, <2>6, <3>1, <3>2
  <2> QED
    BY <1>1, <2>1, <2>4, <2>5, <2>6, HostStepKeeps
<1>7. ASSUME NEW f \in Families, RestoreIP(f)
      PROVE  HostRecord' /\ HostTask'
  <2>1. /\ task.step # "restore_nft" /\ UNCHANGED <<policy, marker, nft>>
        /\ Grown(rules, rules', RoutesOf(old)) /\ Grown(tables, tables', RoutesOf(old))
        /\ \/ Passes(task, task', "restore_ipv6")
           \/ Passes(task, task', "restore_file")
           \/ GivesUp(task, task')
    BY <1>7, RestoreIPEffect DEF files, old
  <2>2. Within(rules', RoutesOf(old))
    BY <1>4, <2>1, WithinGrows
  <2>3. /\ Entry.component = "apply" => FlightOK(Entry, policy', nft', rules')
        /\ Entry.component # "apply" => RestOK(singbox', policy', nft', rules')
    BY <1>1, <1>3, <2>1, <2>2 DEF FlightOK, RestOK, Within, Snapshot, old
  <2>4. GapsOK(policy', nft', rules', tables')
    <3>1. CASE nft # Absent
      BY <2>1, <3>1 DEF GapsOK
    <3>2. CASE nft = Absent
      <4>1. RoutesOf(old) = {}
        BY <1>4, <2>1, <3>2 DEF RoutesOf
      <4> QED
        BY <2>2, <4>1, NothingHasGaps
    <3> QED
      BY <3>1, <3>2
  <2>5. ASSUME NEW next \in {"restore_ipv6", "restore_file"}, Passes(task, task', next)
        PROVE  /\ (task').row = task.row
               /\ HostTaskOK(task', Entry, singbox', policy', marker', nft', rules')
    <3>1. (task').step = next /\ (task').row = task.row
      BY <1>3, <2>5, PassesFacts
    <3> QED
      BY <1>4, <1>5, <2>1, <2>2, <3>1
  <2> QED
    BY <1>1, <2>1, <2>3, <2>4, <2>5, HostStepKeeps
<1>8. CASE RestoreFile
  <2>1. /\ task.step # "restore_nft" /\ UNCHANGED <<nft, rules, tables>>
        /\ policy' \in {policy, old}
        /\ Entry.component = "apply" => marker' = marker
        /\ \/ /\ Passes(task, task', "mark_rolled_back")
              /\ Entry.component = "apply" => policy' = old
              /\ Entry.component # "apply" => marker' = NoMarker
           \/ GivesUp(task, task')
    BY <1>8, RestoreFileEffect DEF kernel, old
  <2>2. /\ Entry.component = "apply" => FlightOK(Entry, policy', nft', rules')
        /\ Entry.component # "apply" => RestOK(singbox', policy', nft', rules')
    BY <1>1, <1>3, <2>1 DEF FlightOK, RestOK, Snapshot, old
  <2>3. GapsOK(policy', nft', rules', tables')
    <3>1. CASE nft # Absent
      BY <2>1, <3>1 DEF GapsOK
    <3>2. CASE nft = Absent
      <4>1. RoutesOf(old) = {}
        BY <1>4, <2>1, <3>2 DEF RoutesOf
      <4> QED
        BY <1>4, <2>1, <4>1, NothingHasGaps
    <3> QED
      BY <3>1, <3>2
  <2>4. ASSUME Passes(task, task', "mark_rolled_back"),
               Entry.component = "apply" => policy' = old,
               Entry.component # "apply" => marker' = NoMarker
        PROVE  /\ (task').row = task.row
               /\ HostTaskOK(task', Entry, singbox', policy', marker', nft', rules')
    <3>1. (task').step = "mark_rolled_back" /\ (task').row = task.row
      BY <1>3, <2>4, PassesFacts
    <3>2. policy' = old /\ marker' = NoMarker
      BY <1>1, <1>3, <2>1, <2>4
    <3> QED
      BY <1>4, <1>5, <2>1, <3>1, <3>2
  <2> QED
    BY <1>1, <2>1, <2>2, <2>3, <2>4, HostStepKeeps
<1> QED
  BY <1>6, <1>7, <1>8

-------------------------------------------------------------------------------
(* The journal statements, requests and recovery keep the host within its   *)
(* bounds.                                                                  *)

\* What a statement has to show.
LEMMA MarkKeepsHost ==
    ASSUME FlowInv, BypassRecord, HostRecord,
           NEW to, NEW detail, NEW ok \in RowSteps \cup {"succeed", "fail"},
           NEW bad \in {"fail", "roll_back", "mark_failed"},
           Wrote(task, task', journal, journal', to, detail, ok, bad),
           UNCHANGED <<process, files, kernel, others>>,
           Moves(journal, journal', task.row, to, detail) /\ Entry.state = task.from =>
               /\ \/ Entry.state \notin LastingStates /\ to \notin LastingStates
                  \/ /\ Moving(journal) \subseteq {task.row}
                     /\ Entry.component # "apply" \/ to \notin MovingStates =>
                            RestOK(singbox, policy, nft, rules)
                     /\ Entry.component = "apply" /\ to \in MovingStates =>
                            FlightOK(Entry, policy, nft, rules)
                     /\ Entry.component # "apply" /\ to \in LastingStates => Snapshot.marker = NoMarker
                     /\ marker = task.row => to \in LastingStates
               /\ ok \in RowSteps =>
                      HostTaskOK(Arrived(task, ok, to), Entry, singbox, policy, marker, nft, rules)
    PROVE  HostRecord' /\ HostTask'
<1>1. /\ UNCHANGED <<singbox, policy, marker, nft, rules, tables>> /\ task \in Tasks
  BY DEF files, kernel, FlowInv, TypeOK
<1>2. ASSUME NEW u, u = After(task, bad), NEW e
      PROVE  HostTaskOK(u, e, singbox, policy, marker, nft, rules)
  BY <1>1, <1>2, GaveUpSteps, FreeHostSteps, HostTaskFree
<1>3. CASE Moves(journal, journal', task.row, to, detail) /\ Entry.state = task.from
  <2>1. HostRecordOK(journal', singbox, policy, marker, nft, rules, tables)
    BY <1>3, MoveKeepsHostRecord DEF HostRecord, Entry, Snapshot
  <2>2. ASSUME NEW u, u = Arrived(task, ok, to)
        PROVE  HostTaskOK(u, (journal')[u.row], singbox, policy, marker, nft, rules)
    <3>1. CASE ok \in RowSteps
      <4>1. u.row = task.row
        BY <1>1, <2>2, <3>1, ArrivedSteps
      <4>2. HostTaskOK(u, Entry, singbox, policy, marker, nft, rules)
        BY <1>3, <2>2, <3>1
      <4>3. /\ (journal')[task.row].component = Entry.component
            /\ (journal')[task.row].snapshot = Entry.snapshot
            /\ (journal')[task.row].candidate = Entry.candidate
        BY <1>3 DEF Moves, Entry
      <4> QED
        BY <4>1, <4>2, <4>3, SameEntryHostTask
    <3>2. CASE ok \in {"succeed", "fail"}
      <4>1. u = After(task, ok)
        BY <2>2, <3>2 DEF Arrived, Steps
      <4> QED
        BY <1>1, <3>2, <4>1, GaveUpSteps, FreeHostSteps, HostTaskFree
    <3> QED
      BY <3>1, <3>2
  <2>3. task' = Arrived(task, ok, to) \/ task' = After(task, bad)
    BY <1>3 DEF Wrote, Moves
  <2> QED
    BY <1>1, <1>2, <2>1, <2>2, <2>3 DEF HostRecord, HostTask, Entry
<1>4. CASE journal' = journal /\ task' = After(task, bad)
  BY <1>1, <1>2, <1>4 DEF HostRecord, HostTask
<1> QED
  BY <1>3, <1>4 DEF Wrote, Entry

\* Statements of an operation that has not touched the host, and of one that gives up.
LEMMA MarkAsideKeepsHost ==
    ASSUME FlowInv, FlowInv', Clean', BypassRecord, HostRecord, HostTask,
           Validate \/ MarkInterrupted \/ MarkFailed \/ MarkDamaged
    PROVE  HostRecord' /\ HostTask'
<1>1. task \in Tasks /\ task.step \in RowSteps
  BY ValidateEffect, MarkInterruptedEffect, MarkFailedEffect, MarkDamagedEffect
     DEF FlowInv, TypeOK, RowSteps, MarkSteps
<1>2. task.row \in DOMAIN journal /\ {"PREPARED", "VALIDATED", "FAILED"} \cap LastingStates = {}
  BY <1>1, RowTypes DEF LastingStates, MovingStates
<1>3. CASE Validate
  <2>1. /\ task.step = "validate" /\ task.from = "PREPARED"
        /\ UNCHANGED <<process, files, kernel, others>>
        /\ \/ Wrote(task, task', journal, journal', "VALIDATED", "none", "mark_applying", "fail")
           \/ task' = After(task, "mark_failed") /\ journal' = journal
    BY <1>3, ValidateEffect
  <2>2. "mark_applying" \in RowSteps
    BY DEF RowSteps, MarkSteps
  <2>3. HostTaskOK(Arrived(task, "mark_applying", "VALIDATED"), Entry, singbox, policy, marker, nft, rules)
    <3>1. ASSUME NEW u, u = Arrived(task, "mark_applying", "VALIDATED")
          PROVE  u.step = "mark_applying" /\ u.config = task.config
      BY <1>1, <3>1 DEF Arrived, Tasks, Steps
    <3>2. /\ Entry.component = "apply" => task.config = Entry.candidate
          /\ Entry.component # "apply" => marker = NoMarker
      BY <1>1, <2>1 DEF HostTask, HostTaskOK, ApplyTaskOK, BypassingTaskOK
    <3> HIDE DEF Arrived
    <3> QED
      BY <3>1, <3>2
         DEF HostTaskOK, ApplyTaskOK, BypassingTaskOK, RestoreTaskOK, InstallSteps, AddSteps, TidySteps,
             RestoreSteps
  <2>4. CASE Wrote(task, task', journal, journal', "VALIDATED", "none", "mark_applying", "fail")
    BY <1>2, <2>1, <2>2, <2>3, <2>4, MarkKeepsHost DEF Entry
  <2>5. CASE task' = After(task, "mark_failed") /\ journal' = journal
    <3>1. (task').step \notin HostTaskSteps
      BY <1>1, <2>5, GaveUpSteps, FreeHostSteps
    <3>2. HostRecord'
      BY <2>1, <2>5 DEF HostRecord, files, kernel
    <3> QED
      BY <3>1, <3>2, HostTaskFree DEF HostTask
  <2> QED
    BY <2>1, <2>4, <2>5
<1>4. ASSUME task.from \in {"PREPARED", "VALIDATED"},
             NEW ok \in {"succeed", "fail"}, NEW detail,
             Wrote(task, task', journal, journal', "FAILED", detail, ok, "fail"),
             UNCHANGED <<process, files, kernel, others>>
      PROVE  HostRecord' /\ HostTask'
  <2>1. "FAILED" \notin LastingStates /\ ok \notin RowSteps /\ task.from \notin LastingStates
    BY <1>2, <1>4 DEF RowSteps, ApplySteps, BypassSteps, RestoreSteps, MarkSteps
  <2> QED
    BY <1>4, <2>1, MarkKeepsHost
<1>5. ASSUME NEW detail \in GaveUpDetails,
             Wrote(task, task', journal, journal', "FAILED", detail, "fail", "fail"),
             UNCHANGED <<process, files, kernel, others>>
      PROVE  HostRecord' /\ HostTask'
  <2>1. ~Moves(journal, journal', task.row, "FAILED", detail)
    <3>1. \A row \in DOMAIN journal' : (journal')[row].detail \notin GaveUpDetails
      BY DEF Clean, Troubled, GaveUpDetails
    <3> QED
      BY <1>5, <3>1 DEF Moves
  <2> QED
    BY <1>5, <2>1, MarkKeepsHost
<1>6. CASE MarkInterrupted
  BY <1>4, <1>6, MarkInterruptedEffect
<1>7. CASE MarkFailed
  <2>1. /\ task.from \in {"PREPARED", "VALIDATED", "ROLLING_BACK"}
        /\ Wrote(task, task', journal, journal', "FAILED",
                 IF task.from = "ROLLING_BACK" THEN "rollback_failed" ELSE "not_applied", "fail", "fail")
        /\ UNCHANGED <<process, files, kernel, others>>
    BY <1>7, MarkFailedEffect
  <2>2. CASE task.from = "ROLLING_BACK"
    BY <1>5, <2>1, <2>2 DEF GaveUpDetails
  <2>3. CASE task.from # "ROLLING_BACK"
    BY <1>4, <2>1, <2>3
  <2> QED
    BY <2>2, <2>3
<1>8. CASE MarkDamaged
  BY <1>5, <1>8, MarkDamagedEffect DEF GaveUpDetails
<1> QED
  BY <1>3, <1>6, <1>7, <1>8

LEMMA ArrivedFacts ==
    ASSUME NEW t \in Tasks, NEW ok \in RowSteps, NEW to, NEW u, u = Arrived(t, ok, to)
    PROVE  u.step = ok /\ u.row = t.row /\ u.config = t.config /\ u.from = to
  BY DEF Arrived, Tasks, RowSteps, ApplySteps, BypassSteps, RestoreSteps, MarkSteps, Steps

\* With nothing at work the host is at rest.
LEMMA RestFacts ==
    ASSUME HostRecord, Moving(journal) = {}
    PROVE  RestOK(singbox, policy, nft, rules)
  BY DEF HostRecord, HostRecordOK

LEMMA TopAtRest ==
    ASSUME NEW row, IsTop(journal, row)
    PROVE  Moving(journal) \subseteq {row}
  BY DEF IsTop, Moving

LEMMA MarkApplyingKeepsHost ==
    ASSUME FlowInv, Clean, BypassRecord, BypassTask, HostRecord, HostTask, MarkApplying
    PROVE  HostRecord' /\ HostTask'
<1> DEFINE ok == IF Entry.component = "apply" THEN "apply_nft" ELSE "activate_marker"
           old == Snapshot.policy
<1>1. /\ task.step = "mark_applying" /\ task.from = "VALIDATED" /\ task \in Tasks
      /\ UNCHANGED <<process, files, kernel, others>>
      /\ Wrote(task, task', journal, journal', "APPLYING", "none", ok, "mark_failed")
  BY MarkApplyingEffect DEF FlowInv, TypeOK
<1>2. ok \in RowSteps /\ task.step \in RowSteps
  BY <1>1 DEF RowSteps, ApplySteps, BypassSteps, MarkSteps
<1>3. /\ IsTop(journal, task.row) /\ policy = old /\ marker = Snapshot.marker
  BY <1>1 DEF BypassTask, BypassTaskOK, Entry, Snapshot
<1>4. ASSUME Entry.state = task.from
      PROVE  Moving(journal) = {}
  BY <1>1, <1>3, <1>4, TopAtRest DEF Moving, MovingStates, Entry
<1>5. /\ Entry.component = "apply" => task.config = Entry.candidate
      /\ Entry.component # "apply" => marker = NoMarker
  BY <1>1, <1>2 DEF HostTask, HostTaskOK, ApplyTaskOK, BypassingTaskOK
<1>6. "APPLYING" \in MovingStates /\ "APPLYING" \in LastingStates
  BY DEF MovingStates, LastingStates
<1>7. ASSUME Entry.state = task.from, NEW u, u = Arrived(task, ok, "APPLYING")
      PROVE  HostTaskOK(u, Entry, singbox, policy, marker, nft, rules)
  <2>1. u.step = ok /\ u.config = task.config
    BY <1>1, <1>2, <1>7, ArrivedFacts
  <2>2. Within(rules, RoutesOf(Entry.snapshot.policy))
    BY <1>3, <1>4, <1>7, RestFacts DEF RestOK, Entry, Snapshot
  <2> QED
    BY <1>5, <2>1, <2>2
       DEF HostTaskOK, ApplyTaskOK, BypassingTaskOK, RestoreTaskOK, InstallSteps, AddSteps, TidySteps,
           RestoreSteps
<1>8. ASSUME Entry.state = task.from
      PROVE  /\ RestOK(singbox, policy, nft, rules)
             /\ FlightOK(Entry, policy, nft, rules)
  <2>1. RestOK(singbox, policy, nft, rules)
    BY <1>4, <1>8, RestFacts
  <2> QED
    BY <1>3, <2>1 DEF RestOK, FlightOK, Within, Entry, Snapshot
<1> HIDE DEF ok
<1> QED
  BY <1>1, <1>2, <1>3, <1>4, <1>5, <1>6, <1>7, <1>8, MarkKeepsHost

\* The operation at work, at one of its statements.
LEMMA MarkWorkFacts ==
    ASSUME FlowInv, Clean, BypassRecord, HostRecord, task.step \in RowSteps,
           Entry.state = task.from, task.from \in MovingStates
    PROVE  /\ task.row \in DOMAIN journal /\ task.row # NoMarker
           /\ Moving(journal) = {task.row}
           /\ Snapshot.singbox = Snapshot.policy
           /\ Entry.component = "apply" => FlightOK(Entry, policy, nft, rules) /\ marker = NoMarker
           /\ Entry.component # "apply" =>
                  /\ RestOK(singbox, policy, nft, rules) /\ policy = Snapshot.policy
                  /\ Snapshot.marker = NoMarker
<1>1. task.row \in DOMAIN journal /\ task.row # NoMarker
  BY RowTypes DEF FlowInv, TypeOK, NoMarker
<1>2. /\ Moving(journal) = {task.row}
      /\ Entry.component = "apply" => marker = NoMarker
      /\ Entry.component # "apply" => policy = Snapshot.policy
  BY <1>1, OneAtWork DEF BypassRecord, BypassRecordOK, Entry, Snapshot
<1>3. /\ Entry.component = "apply" => FlightOK(Entry, policy, nft, rules)
      /\ Entry.component # "apply" => RestOK(singbox, policy, nft, rules)
  BY <1>2 DEF HostRecord, HostRecordOK, Entry
<1>4. Entry.component # "apply" => Snapshot.marker = NoMarker
  BY <1>1 DEF HostRecord, HostRecordOK, FirstBypasses, LastingStates, Entry, Snapshot
<1> QED
  BY <1>1, <1>2, <1>3, <1>4, CleanFacts DEF Entry, Snapshot

LEMMA MarkVerifyingKeepsHost ==
    ASSUME FlowInv, Clean, BypassRecord, HostRecord, HostTask, MarkVerifying
    PROVE  HostRecord' /\ HostTask'
<1> DEFINE ok == IF Entry.component = "apply" THEN "write_policy" ELSE "verify_bypass"
<1>1. /\ task.step = "mark_verifying" /\ task.from = "APPLYING" /\ task \in Tasks
      /\ UNCHANGED <<process, files, kernel, others>>
      /\ \E bad \in {"fail", "roll_back"} :
             Wrote(task, task', journal, journal', "VERIFYING", "none", ok, bad)
  BY MarkVerifyingEffect DEF FlowInv, TypeOK
<1>2. ok \in RowSteps /\ task.step \in RowSteps
  BY <1>1 DEF RowSteps, ApplySteps, BypassSteps, MarkSteps
<1>3. "VERIFYING" \in MovingStates /\ "VERIFYING" \in LastingStates /\ "APPLYING" \in MovingStates
  BY DEF MovingStates, LastingStates
<1>4. ASSUME NEW u, u = Arrived(task, ok, "VERIFYING")
      PROVE  HostTaskOK(u, Entry, singbox, policy, marker, nft, rules)
  <2>1. u.step = ok /\ u.from = "VERIFYING"
    BY <1>1, <1>2, <1>4, ArrivedFacts
  <2>2. Entry.component = "apply" =>
            singbox = Entry.candidate /\ nft = Entry.candidate /\ Within(rules, RoutesOf(Entry.candidate))
    BY <1>1, <1>2 DEF HostTask, HostTaskOK, ApplyTaskOK, AddSteps
  <2> QED
    BY <2>1, <2>2
       DEF HostTaskOK, ApplyTaskOK, BypassingTaskOK, RestoreTaskOK, InstallSteps, AddSteps, TidySteps,
           RestoreSteps
<1> HIDE DEF ok
<1> QED
  BY <1>1, <1>2, <1>3, <1>4, MarkWorkFacts, MarkKeepsHost

LEMMA CommitKeepsHost ==
    ASSUME FlowInv, Clean, BypassRecord, HostRecord, HostTask, Commit
    PROVE  HostRecord' /\ HostTask'
<1>1. /\ task.step = "commit" /\ task.from = "VERIFYING" /\ task \in Tasks
      /\ UNCHANGED <<process, files, kernel, others>>
      /\ \E bad \in {"fail", "roll_back"} :
             Wrote(task, task', journal, journal', "COMMITTED", "none", "succeed", bad)
  BY CommitEffect DEF FlowInv, TypeOK
<1>2. task.step \in RowSteps /\ "succeed" \notin RowSteps
  BY <1>1 DEF RowSteps, ApplySteps, BypassSteps, RestoreSteps, MarkSteps
<1>3. "COMMITTED" \notin MovingStates /\ "COMMITTED" \in LastingStates /\ "VERIFYING" \in MovingStates
  BY DEF MovingStates, LastingStates
<1>4. Entry.component = "apply" => RestOK(singbox, policy, nft, rules)
  BY <1>1, <1>2 DEF HostTask, HostTaskOK, ApplyTaskOK, AddSteps, RestOK
<1> QED
  BY <1>1, <1>2, <1>3, <1>4, MarkWorkFacts, MarkKeepsHost

LEMMA RollBackKeepsHost ==
    ASSUME FlowInv, Clean, BypassRecord, HostRecord, RollBack
    PROVE  HostRecord' /\ HostTask'
<1> DEFINE ok == RestoreStep(task.row)
<1>1. /\ task.step = "roll_back" /\ task.from \in {"APPLYING", "VERIFYING"} /\ task \in Tasks
      /\ UNCHANGED <<process, files, kernel, others>>
      /\ Wrote(task, task', journal, journal', "ROLLING_BACK", "interrupted", ok, "fail")
  BY RollBackEffect DEF FlowInv, TypeOK
<1>2. /\ ok \in RowSteps /\ task.step \in RowSteps
      /\ Entry.component = "apply" => ok = "remove_candidate"
      /\ Entry.component # "apply" /\ Snapshot.marker = NoMarker => ok = "restore_nft"
  BY <1>1 DEF RestoreStep, Entry, Snapshot, RowSteps, ApplySteps, BypassSteps, RestoreSteps, MarkSteps
<1> HIDE DEF ok
<1>3. "ROLLING_BACK" \in MovingStates /\ "ROLLING_BACK" \in LastingStates /\ task.from \in MovingStates
  BY <1>1 DEF MovingStates, LastingStates
<1>4. ASSUME Entry.state = task.from, NEW u, u = Arrived(task, ok, "ROLLING_BACK")
      PROVE  HostTaskOK(u, Entry, singbox, policy, marker, nft, rules)
  <2>1. u.step = ok
    BY <1>1, <1>2, <1>4, ArrivedFacts
  <2>2. CASE Entry.component = "apply"
    BY <1>2, <2>1, <2>2, FreeHostSteps, HostTaskFree
  <2>3. CASE Entry.component # "apply"
    <3>1. /\ RestOK(singbox, policy, nft, rules) /\ policy = Snapshot.policy
          /\ Snapshot.marker = NoMarker
      BY <1>2, <1>3, <1>4, <2>3, MarkWorkFacts
    <3>2. u.step = "restore_nft"
      BY <1>2, <2>1, <2>3, <3>1
    <3> QED
      BY <2>3, <3>1, <3>2
         DEF HostTaskOK, ApplyTaskOK, BypassingTaskOK, RestoreTaskOK, InstallSteps, AddSteps, TidySteps,
             RestoreSteps, RestOK, Entry, Snapshot
  <2> QED
    BY <2>2, <2>3
<1> QED
  BY <1>1, <1>2, <1>3, <1>4, MarkWorkFacts, MarkKeepsHost

LEMMA MarkRollingBackKeepsHost ==
    ASSUME FlowInv, Clean, BypassRecord, BypassTask, HostRecord, HostTask, MarkRollingBack
    PROVE  HostRecord' /\ HostTask'
<1> DEFINE ok == IF Entry.component = "apply" THEN "remove_candidate" ELSE "restore_nft"
<1>1. /\ task.step = "mark_rolling_back" /\ task.from = "COMMITTED" /\ task \in Tasks
      /\ UNCHANGED <<process, files, kernel, others>>
      /\ Wrote(task, task', journal, journal', "ROLLING_BACK", "operator_requested", ok, "fail")
  BY MarkRollingBackEffect DEF FlowInv, TypeOK
<1>2. ok \in RowSteps /\ task.step \in RowSteps
  BY <1>1 DEF RowSteps, ApplySteps, RestoreSteps, MarkSteps
<1>3. /\ IsTop(journal, task.row)
      /\ marker = IF Entry.component = "apply" THEN NoMarker ELSE task.row
  BY <1>1 DEF BypassTask, BypassTaskOK, Entry
<1>4. task.row \in DOMAIN journal /\ task.row # NoMarker /\ Entry.state = "COMMITTED"
  <2>1. StepFits(task.step, task.from, Entry)
    BY <1>2, RowTypes
  <2>2. Entry.state = "COMMITTED"
    BY <1>1, <2>1 DEF StepFits
  <2> QED
    BY <1>2, <2>2, RowTypes DEF FlowInv, TypeOK, NoMarker
<1>5. Moving(journal) = {}
  BY <1>3, <1>4, TopAtRest DEF Moving, MovingStates, Entry
<1>6. RestOK(singbox, policy, nft, rules)
  BY <1>5, RestFacts
<1>7. Entry.component # "apply" => policy = Snapshot.policy /\ Snapshot.marker = NoMarker
  <2>1. Entry.component # "apply" => policy = Snapshot.policy
    BY <1>3, <1>4 DEF BypassRecord, BypassRecordOK, MarkerOK, Entry, Snapshot
  <2>2. Entry.component # "apply" => Snapshot.marker = NoMarker
    BY <1>4 DEF HostRecord, HostRecordOK, FirstBypasses, LastingStates, Entry, Snapshot
  <2> QED
    BY <2>1, <2>2
<1>8. Entry.component = "apply" => FlightOK(Entry, policy, nft, rules)
  <2>1. Entry.component = "apply" => policy = Entry.candidate
    BY <1>1, <1>2 DEF HostTask, HostTaskOK, ApplyTaskOK
  <2> QED
    BY <1>6, <2>1 DEF RestOK, FlightOK, Within
<1>9. ASSUME NEW u, u = Arrived(task, ok, "ROLLING_BACK")
      PROVE  HostTaskOK(u, Entry, singbox, policy, marker, nft, rules)
  <2>1. u.step = ok
    BY <1>1, <1>2, <1>9, ArrivedFacts
  <2>2. CASE Entry.component = "apply"
    BY <2>1, <2>2, FreeHostSteps, HostTaskFree
  <2>3. CASE Entry.component # "apply"
    BY <1>6, <1>7, <2>1, <2>3
       DEF HostTaskOK, ApplyTaskOK, BypassingTaskOK, RestoreTaskOK, InstallSteps, AddSteps, TidySteps,
           RestoreSteps, RestOK, Entry, Snapshot
  <2> QED
    BY <2>2, <2>3
<1>10. "ROLLING_BACK" \in MovingStates /\ "ROLLING_BACK" \in LastingStates
  BY DEF MovingStates, LastingStates
<1> HIDE DEF ok
<1> QED
  BY <1>1, <1>2, <1>5, <1>6, <1>7, <1>8, <1>9, <1>10, MarkKeepsHost

LEMMA MarkRolledBackKeepsHost ==
    ASSUME FlowInv, Clean, BypassRecord, HostRecord, HostTask, MarkRolledBack
    PROVE  HostRecord' /\ HostTask'
<1>1. /\ task.step = "mark_rolled_back" /\ task.from = "ROLLING_BACK" /\ task \in Tasks
      /\ UNCHANGED <<process, files, kernel, others>>
      /\ \E ok \in {"fail", "succeed"}, detail \in {"operator_requested", "interrupted"} :
             Wrote(task, task', journal, journal', "ROLLED_BACK", detail, ok, "fail")
  BY MarkRolledBackEffect DEF FlowInv, TypeOK
<1>2. task.step \in RowSteps /\ {"succeed", "fail"} \cap RowSteps = {}
  BY <1>1 DEF RowSteps, ApplySteps, BypassSteps, RestoreSteps, MarkSteps
<1>3. "ROLLED_BACK" \notin MovingStates /\ "ROLLED_BACK" \notin LastingStates
      /\ "ROLLING_BACK" \in MovingStates
  BY DEF MovingStates, LastingStates
<1>4. RestOK(singbox, policy, nft, rules) /\ marker = NoMarker
  BY <1>1, <1>2
     DEF HostTask, HostTaskOK, RestoreTaskOK, RestoreSteps, TidySteps, RestOK, Entry
<1> QED
  BY <1>1, <1>2, <1>3, <1>4, MarkWorkFacts, MarkKeepsHost

LEMMA FreeKeepsHostTask ==
    ASSUME (task').step \notin HostTaskSteps
    PROVE  HostTask'
  BY HostTaskFree DEF HostTask

\* A new operation over a journal in which nothing is unfinished.
LEMMA BeganKeepsHost ==
    ASSUME FlowInv, HostRecord, NEW component, NEW document, NEW config, NEW run,
           NEW e \in Entries,
           Fresh(e, component, document, singbox, policy, nft, marker),
           Began(task, task', journal, journal', overtook, overtook', e, config, run),
           overtook' = {},
           component = "apply" => config = document,
           UnfinishedRows(journal) = {} /\ component # "apply" => marker = NoMarker,
           UNCHANGED <<files, kernel>>
    PROVE  HostRecord' /\ HostTask'
<1>1. journal \in Seq(Entries) /\ UNCHANGED <<singbox, policy, marker, nft, rules, tables>>
  BY DEF FlowInv, TypeOK, files, kernel
<1>2. e.state = "PREPARED" /\ e.component = component /\ e.candidate = document
  BY DEF Fresh
<1>3. HostRecordOK(Append(journal, e), singbox, policy, marker, nft, rules, tables)
  BY <1>1, <1>2, AppendKeepsHostRecord DEF HostRecord
<1>4. HostRecord'
  BY <1>1, <1>3 DEF HostRecord, Began
<1>5. CASE /\ journal' = Append(journal, e)
           /\ (task').step = "validate" /\ (task').row = Len(journal) + 1 /\ (task').config = config
           /\ UnfinishedRows(journal) = {}
  <2>1. (journal')[(task').row] = e
    BY <1>1, <1>5, AppendFacts
  <2>2. HostTaskOK(task', e, singbox', policy', marker', nft', rules')
    BY <1>1, <1>2, <1>5
       DEF HostTaskOK, ApplyTaskOK, BypassingTaskOK, RestoreTaskOK, InstallSteps, AddSteps, TidySteps,
           RestoreSteps
  <2> QED
    BY <1>4, <2>1, <2>2 DEF HostTask, Entry
<1>6. CASE task' = IdleTask \/ (task').step = "finish_recovery"
  <2>1. (task').step \in {"idle", "finish_recovery"}
    BY <1>6 DEF IdleTask
  <2> QED
    BY <1>4, <2>1, FreeHostSteps, FreeKeepsHostTask
<1> QED
  BY <1>5, <1>6 DEF Began

LEMMA RequestsKeepHost ==
    ASSUME FlowInv, Clean, BypassRecord, HostRecord, overtook' = {},
           \/ BypassRequested \/ RollbackRequested \/ Start \/ RecoveryRequested
           \/ \E document \in Documents : ApplyRequested(document)
    PROVE  HostRecord' /\ HostTask'
<1>1. CASE BypassRequested
  <2>1. PICK e \in Entries :
            /\ Fresh(e, "bypass", Absent, singbox, policy, nft, marker)
            /\ Began(task, task', journal, journal', overtook, overtook', e, Absent, "client")
            /\ UNCHANGED <<files, kernel>> /\ ~Off(RoutesOf(policy))
    BY <1>1, BypassRequestedEffect
  <2>2. ASSUME UnfinishedRows(journal) = {}, marker # NoMarker PROVE FALSE
    <3>1. marker \in DOMAIN journal /\ journal[marker].state \in LastingStates
      BY <2>2 DEF HostRecord, HostRecordOK, MarkerLasts
    <3>2. journal[marker].state = "COMMITTED"
      BY <2>2, <3>1 DEF UnfinishedRows, FinishedStates, LastingStates, MovingStates
    <3>3. Down(policy, nft, rules, tables)
      BY <2>2, <3>2 DEF BypassRecord, BypassRecordOK, MarkerOK
    <3> QED
      BY <2>1, <2>2, <3>3 DEF Down, Off
  <2> QED
    BY <2>1, <2>2, BeganKeepsHost
<1>2. ASSUME NEW document \in Documents, ApplyRequested(document)
      PROVE  HostRecord' /\ HostTask'
  <2>1. PICK e \in Entries :
            /\ Fresh(e, "apply", document, singbox, policy, nft, marker)
            /\ Began(task, task', journal, journal', overtook, overtook', e, document, "client")
            /\ UNCHANGED <<files, kernel>>
    BY <1>2, ApplyRequestedEffect
  <2> QED
    BY <2>1, BeganKeepsHost
<1>3. CASE RollbackRequested
  <2>1. UNCHANGED <<journal, singbox, policy, marker, nft, rules, tables>>
    BY <1>3, RollbackRequestedEffect DEF files, kernel
  <2>2. PICK row \in DOMAIN journal :
            /\ MayRollBack(row)
            /\ (task').row = row /\ (task').step = "mark_rolling_back"
    BY <1>3, RollbackRequestedEffect
  <2>3. journal[row].component = "apply" => policy = journal[row].candidate
    BY <2>2 DEF MayRollBack
  <2>4. HostTaskOK(task', journal[row], singbox, policy, marker, nft, rules)
    BY <2>2, <2>3
       DEF HostTaskOK, ApplyTaskOK, BypassingTaskOK, RestoreTaskOK, InstallSteps, AddSteps, TidySteps,
           RestoreSteps
  <2> QED
    BY <2>1, <2>2, <2>4 DEF HostRecord, HostTask, Entry
<1>4. CASE Start \/ RecoveryRequested
  <2>1. (task').step = "next_operation" /\ UNCHANGED <<journal, singbox, policy, marker, nft, rules, tables>>
    BY <1>4, StartEffect, RecoveryRequestedEffect DEF files, kernel
  <2> QED
    BY <2>1, FreeHostSteps, FreeKeepsHostTask DEF HostRecord
<1> QED
  BY <1>1, <1>2, <1>3, <1>4

LEMMA NextOperationKeepsHost ==
    ASSUME FlowInv, Clean, BypassRecord, HostRecord, NextOperation
    PROVE  HostRecord' /\ HostTask'
<1> DEFINE row == (task').row
           step == RecoveryStep(row)
<1>1. /\ row \in UnfinishedRows(journal) /\ (task').step = step
      /\ UNCHANGED <<journal, singbox, policy, marker, nft, rules, tables>>
  BY NextOperationEffect DEF files, kernel
<1>2. HostRecord'
  BY <1>1 DEF HostRecord
<1>3. row \in DOMAIN journal /\ journal[row].state \notin FinishedStates
  BY <1>1 DEF UnfinishedRows
<1>4. \/ step \in {"mark_interrupted", "mark_damaged", "activate_marker", "roll_back", "remove_candidate"}
      \/ /\ journal[row].state = "ROLLING_BACK" /\ journal[row].component # "apply"
         /\ step = IF journal[row].snapshot.marker # NoMarker THEN "bypass_policy" ELSE "restore_nft"
  BY DEF RecoveryStep, RestoreStep
<1> HIDE DEF step
<1>5. CASE step \in {"mark_interrupted", "mark_damaged", "activate_marker", "roll_back", "remove_candidate"}
  BY <1>1, <1>2, <1>5, FreeHostSteps, FreeKeepsHostTask
<1>6. CASE /\ journal[row].state = "ROLLING_BACK" /\ journal[row].component # "apply"
           /\ step = IF journal[row].snapshot.marker # NoMarker THEN "bypass_policy" ELSE "restore_nft"
  <2>1. journal[row].state \in MovingStates /\ journal[row].state \in LastingStates
    BY <1>6 DEF MovingStates, LastingStates
  <2>2. Moving(journal) = {row} /\ policy = journal[row].snapshot.policy
    BY <1>3, <1>6, <2>1, OneAtWork DEF BypassRecord, BypassRecordOK
  <2>3. RestOK(singbox, policy, nft, rules) /\ journal[row].snapshot.marker = NoMarker
    BY <1>3, <1>6, <2>1, <2>2 DEF HostRecord, HostRecordOK, FirstBypasses
  <2>4. HostTaskOK(task', journal[row], singbox, policy, marker, nft, rules)
    BY <1>1, <1>6, <2>2, <2>3
       DEF HostTaskOK, BypassingTaskOK, RestoreTaskOK, TidySteps, RestoreSteps, RestOK
  <2> QED
    BY <1>1, <1>2, <2>4 DEF HostTask, Entry
<1> QED
  BY <1>4, <1>5, <1>6

LEMMA RecoveryKeepsHost ==
    ASSUME FlowInv, BypassTask, HostRecord, overtook' = {},
           JournalCheck \/ DeactivateMarker \/ Reconcile \/ FinishRecovery
    PROVE  HostRecord' /\ HostTask'
<1>1. CASE JournalCheck \/ FinishRecovery
  <2>1. /\ UNCHANGED <<journal, singbox, policy, marker, nft, rules, tables>>
        /\ (task').step \in {"idle", "finish_recovery", "deactivate_marker", "reconcile"}
    BY <1>1, JournalCheckEffect, FinishRecoveryEffect DEF files, kernel, IdleTask
  <2> QED
    BY <2>1, FreeHostSteps, FreeKeepsHostTask DEF HostRecord
<1>2. CASE DeactivateMarker
  <2>1. /\ UNCHANGED <<journal, singbox, policy, nft, rules, tables>> /\ marker' \in {marker, NoMarker}
        /\ (task').step \in {"idle", "finish_recovery", "reconcile"}
    BY <1>2, DeactivateMarkerEffect DEF kernel, IdleTask
  <2>2. HostRecord'
    BY <2>1 DEF HostRecord, HostRecordOK, MarkerLasts
  <2> QED
    BY <2>1, <2>2, FreeHostSteps, FreeKeepsHostTask
<1>3. CASE Reconcile
  <2>1. task.step = "reconcile" /\ UNCHANGED <<files, kernel>>
        /\ UNCHANGED <<singbox, policy, marker, nft, rules, tables>>
    BY <1>3, ReconcileEffect DEF files, kernel
  <2>2. singbox = policy
    <3>1. UnfinishedRows(journal) = {}
      BY <2>1 DEF BypassTask, BypassTaskOK
    <3>2. Moving(journal) = {}
      BY <3>1 DEF Moving, UnfinishedRows, MovingStates, FinishedStates
    <3> QED
      BY <3>2, RestFacts DEF RestOK
  <2>3. CASE (task').step \in {"idle", "finish_recovery"} /\ UNCHANGED journal
    BY <2>1, <2>3, FreeHostSteps, FreeKeepsHostTask DEF HostRecord
  <2>4. CASE \E e \in Entries :
                 /\ Fresh(e, "apply", policy, singbox, policy, nft, marker)
                 /\ Began(task, task', journal, journal', overtook, overtook', e, singbox, "reconcile")
    BY <2>1, <2>2, <2>4, BeganKeepsHost
  <2> QED
    BY <1>3, <2>3, <2>4, ReconcileEffect DEF IdleTask
<1> QED
  BY <1>1, <1>2, <1>3

LEMMA EnvironmentKeepsHost ==
    ASSUME FlowInv, HostRecord, HostTask,
           Crash \/ Reboot \/ SingBoxRestarts \/ \E row \in DOMAIN journal : Tamper(row)
    PROVE  HostRecord' /\ HostTask'
<1>1. CASE Crash \/ Reboot
  <2>1. /\ task' = IdleTask /\ UNCHANGED <<journal, singbox, policy, marker>>
        /\ \/ UNCHANGED <<nft, rules, tables>>
           \/ nft' = Absent /\ \A f \in Families : rules'[f] = {} /\ tables'[f] = {}
    BY <1>1, StopEffect DEF files, kernel
  <2>2. HostRecord'
    <3>1. CASE UNCHANGED <<nft, rules, tables>>
      BY <2>1, <3>1 DEF HostRecord
    <3>2. CASE nft' = Absent /\ \A f \in Families : rules'[f] = {} /\ tables'[f] = {}
      <4>1. \A set : Within(rules', set)
        BY <3>2 DEF Within
      <4>2. GapsOK(policy', nft', rules', tables')
        BY <4>1, NothingHasGaps
      <4> QED
        BY <2>1, <3>2, <4>1, <4>2 DEF HostRecord, HostRecordOK, RestOK, FlightOK
    <3> QED
      BY <2>1, <3>1, <3>2
  <2>3. (task').step = "idle"
    BY <2>1 DEF IdleTask
  <2> QED
    BY <2>2, <2>3, FreeHostSteps, FreeKeepsHostTask
<1>2. CASE SingBoxRestarts
  <2>1. UNCHANGED <<task, journal, singbox, policy, marker, nft, rules>> /\ Shrunk(tables, tables')
    BY <1>2, SingBoxRestartsEffect DEF files
  <2>2. GapsOK(policy, nft, rules, tables) => GapsOK(policy, nft, rules, tables')
    BY <2>1, ShrunkSelf, GapShrinks
  <2> QED
    BY <2>1, <2>2 DEF HostRecord, HostRecordOK, HostTask, Entry
<1>3. ASSUME NEW row \in DOMAIN journal, Tamper(row) PROVE HostRecord' /\ HostTask'
  <2>1. /\ Alike(journal, journal')
        /\ UNCHANGED <<task, singbox, policy, marker, nft, rules, tables>>
    BY <1>3, TamperEffect DEF files, kernel
  <2>2. HostRecordOK(journal', singbox, policy, marker, nft, rules, tables)
    BY <2>1, AlikeKeepsHostRecord DEF HostRecord
  <2>3. HostTask'
    <3>1. CASE task.step \in RowSteps
      <4>1. task.row \in DOMAIN journal
        BY <3>1 DEF FlowInv, FlowOK
      <4>2. /\ (journal')[task.row].component = journal[task.row].component
            /\ (journal')[task.row].snapshot = journal[task.row].snapshot
            /\ (journal')[task.row].candidate = journal[task.row].candidate
        BY <2>1, <4>1 DEF Alike
      <4> QED
        BY <2>1, <4>2, SameEntryHostTask DEF HostTask, Entry
    <3>2. CASE task.step \notin RowSteps
      BY <2>1, <3>2 DEF HostTask, HostTaskOK
    <3> QED
      BY <3>1, <3>2
  <2> QED
    BY <2>1, <2>2, <2>3 DEF HostRecord
<1> QED
  BY <1>1, <1>2, <1>3

LEMMA HostStep ==
    ASSUME FlowInv, BypassInv, HostInv, [Next]_vars
    PROVE  HostInv'
<1>1. SUFFICES ASSUME Clean' PROVE HostRecord' /\ HostTask'
  BY DEF HostInv
<1>2. FlowInv'
  BY FlowStep
<1>3. Clean
  BY <1>1, <1>2, CleanWas
<1>4. overtook = {} /\ overtook' = {} /\ BypassRecord /\ BypassTask /\ HostRecord /\ HostTask
  <2>1. overtook' = {}
    BY <1>1, <1>2 DEF Clean, HalfApplied, FlowInv, TypeOK
  <2> QED
    BY <1>3, <2>1, CleanFacts DEF BypassInv, HostInv
<1>5. CASE UNCHANGED vars
  BY <1>4, <1>5 DEF vars, files, kernel, HostRecord, HostTask, Entry
<1>6. CASE RowWork
  <2>1. CASE ApplyNFT \/ InstallSingBox \/ RestartSingBox \/ RemovePrevious
    BY <1>3, <1>4, <2>1, InstallKeepsHost
  <2>2. CASE WritePolicy \/ \E f \in Families : AddIP(f)
    BY <1>3, <1>4, <2>2, AddKeepsHost
  <2>3. CASE RemoveCandidate \/ RestoreSingBox \/ RestoreService
    BY <1>3, <1>4, <2>3, UndoKeepsHost
  <2>4. CASE BypassPolicy \/ BypassNFT \/ ActivateMarker \/ VerifyBypass
    BY <1>3, <1>4, <2>4, BypassStepsKeepHost
  <2>5. CASE RestoreNFT \/ RestoreFile \/ \E f \in Families : RestoreIP(f)
    BY <1>3, <1>4, <2>5, RestoreKeepsHost
  <2>6. CASE Validate \/ MarkInterrupted \/ MarkFailed \/ MarkDamaged
    BY <1>1, <1>2, <1>4, <2>6, MarkAsideKeepsHost
  <2>7. CASE MarkApplying \/ MarkVerifying \/ Commit
    BY <1>3, <1>4, <2>7, MarkApplyingKeepsHost, MarkVerifyingKeepsHost, CommitKeepsHost
  <2>8. CASE RollBack \/ MarkRollingBack \/ MarkRolledBack
    BY <1>3, <1>4, <2>8, RollBackKeepsHost, MarkRollingBackKeepsHost, MarkRolledBackKeepsHost
  <2> QED
    BY <1>6, <2>1, <2>2, <2>3, <2>4, <2>5, <2>6, <2>7, <2>8 DEF RowWork
<1>7. CASE NextOperation
  BY <1>3, <1>4, <1>7, NextOperationKeepsHost
<1>8. CASE JournalCheck \/ DeactivateMarker \/ Reconcile \/ FinishRecovery
  BY <1>4, <1>8, RecoveryKeepsHost
<1>9. CASE \/ BypassRequested \/ RollbackRequested \/ Start \/ RecoveryRequested
           \/ \E document \in Documents : ApplyRequested(document)
  BY <1>3, <1>4, <1>9, RequestsKeepHost
<1>10. CASE Crash \/ Reboot \/ SingBoxRestarts \/ \E row \in DOMAIN journal : Tamper(row)
  BY <1>4, <1>10, EnvironmentKeepsHost
<1> QED
  BY <1>5, <1>6, <1>7, <1>8, <1>9, <1>10 DEF Next, Work, RowWork

LEMMA HostInit == ASSUME Init PROVE HostInv
<1>1. /\ journal = << >> /\ marker = NoMarker /\ task.step = "idle"
      /\ singbox = Absent /\ policy = Absent /\ nft = Absent
      /\ \A f \in Families : rules[f] = {}
  BY DEF Init, IdleTask
<1>2. Moving(journal) = {} /\ RoutesOf(policy) = {} /\ \A set : Within(rules, set)
  BY <1>1 DEF Moving, RoutesOf, Within
<1>3. HostRecord
  BY <1>1, <1>2, NothingHasGaps DEF HostRecord, HostRecordOK, RestOK, FirstBypasses, MarkerLasts
<1>4. HostTask
  BY <1>1, FreeHostSteps, HostTaskFree DEF HostTask
<1> QED
  BY <1>3, <1>4 DEF HostInv

\* Until a restore gives up or an operation begins over half-applied routing: which of
\* the two documents of the operation at work the files, the leak-control table and the
\* policy rules can hold at each of its steps, and that nothing is applied completely
\* while the table is missing.
THEOREM HostHolds == Spec => []HostInv
  BY HostInit, HostStep, FlowHolds, BypassHolds, PTL DEF Spec

-------------------------------------------------------------------------------
(* The kill switch.                                                        *)

LEMMA KeptFacts ==
    ASSUME FlowInv, NEW r \in KeptRoutes
    PROVE  /\ (\A row \in Moving(journal) : journal[row].component # "apply") => r \in RoutesOf(policy)
           /\ \A row \in Moving(journal) :
                  journal[row].component = "apply" =>
                      r \in RoutesOf(journal[row].snapshot.policy) /\ r \in journal[row].candidate
<1> DEFINE moving == {row \in UnfinishedRows(journal) :
                         /\ journal[row].component = "apply"
                         /\ journal[row].state \in {"APPLYING", "VERIFYING", "ROLLING_BACK"}}
<1>1. \A row : row \in moving <=> row \in Moving(journal) /\ journal[row].component = "apply"
  BY DEF UnfinishedRows, FinishedStates, Moving, MovingStates
<1>2. /\ moving = {} => r \in RoutesOf(policy)
      /\ moving # {} => \A row \in moving :
             r \in RoutesOf(journal[row].snapshot.policy) \cap journal[row].candidate
  BY DEF KeptRoutes
<1> HIDE DEF moving
<1> QED
  BY <1>1, <1>2

\* A kept route is applied, and the table protects it if it is there.
LEMMA KeptIsProtected ==
    ASSUME FlowInv, HostRecord, NEW r \in KeptRoutes
    PROVE  r \in RoutesOf(policy) /\ (nft # Absent => r \in nft)
<1>1. CASE \A row \in Moving(journal) : journal[row].component # "apply"
  <2>1. r \in RoutesOf(policy) /\ RestOK(singbox, policy, nft, rules)
    BY <1>1, KeptFacts DEF HostRecord, HostRecordOK
  <2> QED
    BY <2>1 DEF RestOK, RoutesOf
<1>2. ASSUME NEW row \in Moving(journal), journal[row].component = "apply"
      PROVE  r \in RoutesOf(policy) /\ (nft # Absent => r \in nft)
  <2>1. /\ r \in RoutesOf(journal[row].snapshot.policy) /\ r \in journal[row].candidate
        /\ FlightOK(journal[row], policy, nft, rules)
    BY <1>2, KeptFacts DEF HostRecord, HostRecordOK
  <2>2. journal[row].candidate # Absent
    BY <1>2, RoutingAssumption DEF FlowInv, JournalOK, Moving
  <2> QED
    BY <2>1, <2>2 DEF FlightOK, RoutesOf
<1> QED
  BY <1>1, <1>2

LEMMA TableSteps ==
    ASSUME [Next]_vars
    PROVE  UNCHANGED nft \/ ApplyNFT \/ RestoreNFT \/ BypassNFT \/ Reboot
<1>1. CASE UNCHANGED vars
  BY <1>1 DEF vars, kernel
<1>2. CASE \/ Validate \/ MarkApplying \/ MarkVerifying \/ Commit \/ MarkFailed \/ RollBack
           \/ MarkRolledBack \/ MarkRollingBack \/ MarkInterrupted \/ MarkDamaged
  BY <1>2 DEF Validate, MarkApplying, MarkVerifying, Commit, MarkFailed, RollBack, MarkRolledBack,
              MarkRollingBack, MarkInterrupted, MarkDamaged, kernel
<1>3. CASE \/ InstallSingBox \/ RestartSingBox \/ RemovePrevious \/ WritePolicy
           \/ ActivateMarker \/ BypassPolicy \/ VerifyBypass
           \/ RemoveCandidate \/ RestoreSingBox \/ RestoreService \/ RestoreFile
           \/ \E f \in Families : AddIP(f) \/ RestoreIP(f)
  BY <1>3 DEF InstallSingBox, RestartSingBox, RemovePrevious, WritePolicy, ActivateMarker,
              BypassPolicy, VerifyBypass, RemoveCandidate, RestoreSingBox, RestoreService,
              RestoreFile, AddIP, RestoreIP, kernel
<1>4. CASE NextOperation \/ JournalCheck \/ DeactivateMarker \/ FinishRecovery \/ Reconcile
  BY <1>4 DEF NextOperation, JournalCheck, DeactivateMarker, FinishRecovery, Reconcile, kernel
<1>5. CASE \/ Start \/ RollbackRequested \/ RecoveryRequested \/ BypassRequested
           \/ \E document \in Documents : ApplyRequested(document)
  BY <1>5 DEF Start, RollbackRequested, RecoveryRequested, BypassRequested, ApplyRequested, kernel
<1>6. CASE Crash \/ SingBoxRestarts \/ \E row \in DOMAIN journal : Tamper(row)
  BY <1>6 DEF Crash, SingBoxRestarts, Tamper, kernel
<1> QED
  BY <1>1, <1>2, <1>3, <1>4, <1>5, <1>6 DEF Next, Work

\* The table is replaced by one that protects every kept route too.
LEMMA ReplacedTableProtects ==
    ASSUME FlowInv, Clean, BypassRecord, HostRecord, HostTask, marker = NoMarker,
           ApplyNFT \/ RestoreNFT \/ BypassNFT,
           NEW r \in KeptRoutes, nft # Absent
    PROVE  nft' # Absent /\ r \in nft'
<1>1. task.step \in ApplySteps \cup BypassSteps \cup RestoreSteps /\ task.step \in RowSteps
  BY ApplyNFTEffect, RestoreNFTEffect, BypassNFTEffect
     DEF ApplySteps, BypassSteps, RestoreSteps, RowSteps
<1>2. /\ task.row \in Moving(journal) /\ Moving(journal) = {task.row} /\ task.row \in DOMAIN journal
      /\ task.row # NoMarker
      /\ Entry.component # "apply" => policy = Snapshot.policy
      /\ Entry.component = "apply" => Candidate # Absent
  BY <1>1, HostWorkFacts
<1>3. r \in nft /\ r \in RoutesOf(policy)
  BY KeptIsProtected
<1>4. Entry.component = "apply" => r \in Candidate /\ r \in RoutesOf(Snapshot.policy)
  BY <1>2, KeptFacts DEF Entry, Candidate, Snapshot
<1>5. CASE ApplyNFT
  <2>1. task.step = "apply_nft" /\ nft' \in {nft, Candidate}
    BY <1>5, ApplyNFTEffect
  <2>2. Entry.component = "apply"
    BY <1>1, <2>1, HostStepsMove DEF ApplySteps
  <2> QED
    BY <1>2, <1>3, <1>4, <2>1, <2>2
<1>6. CASE RestoreNFT
  <2>1. nft' \in {nft, RestoredNFT(task.row)}
    BY <1>6, RestoreNFTEffect
  <2>2. r \in RoutesOf(Snapshot.policy)
    BY <1>2, <1>3, <1>4
  <2>3. RestoredNFT(task.row) = Snapshot.policy
    BY <1>2, <2>2, RestoredTable
  <2> QED
    BY <1>3, <2>1, <2>2, <2>3 DEF RoutesOf
<1>7. CASE BypassNFT
  <2>1. task.step = "bypass_nft"
    BY <1>7, BypassNFTEffect
  <2>2. Entry.component # "apply"
    BY <1>1, <2>1, HostStepsMove DEF BypassSteps
  <2>3. marker = task.row
    BY <1>1, <2>1, <2>2 DEF HostTask, HostTaskOK, BypassingTaskOK
  <2> QED
    BY <1>2, <2>3
<1> QED
  BY <1>5, <1>6, <1>7

\* The kill switch: no step of an apply, a restore or a recovery, no crash of the daemon
\* and no restart of sing-box opens a direct path for a route that stays; only an active
\* bypass and a reboot do.
THEOREM KillSwitchNeverOpens == Spec => KillSwitchHolds
<1> DEFINE Body == /\ up' \/ UNCHANGED nft
                   /\ marker = NoMarker
                   /\ ~Troubled /\ \A row \in DOMAIN journal : ~HalfApplied(row)
                   => \A r \in KeptRoutes : Leaks(r)' => Leaks(r)
<1>1. ASSUME FlowInv, BypassInv, HostInv, [Next]_vars
      PROVE  Body
  <2>1. SUFFICES ASSUME up' \/ UNCHANGED nft, marker = NoMarker, Clean,
                        NEW r \in KeptRoutes, ~Leaks(r)
                 PROVE  ~Leaks(r)'
    BY DEF Clean
  <2>2. BypassRecord /\ HostRecord /\ HostTask
    BY <1>1, <2>1, CleanFacts DEF BypassInv, HostInv
  <2>3. r \in RoutesOf(policy) /\ (nft # Absent => r \in nft)
    BY <1>1, <2>1, <2>2, KeptIsProtected
  <2>4. nft # Absent
    <3>1. SUFFICES ASSUME nft = Absent PROVE FALSE
      OBVIOUS
    <3>2. Gap(r, rules, tables)
      BY <2>2, <2>3, <3>1 DEF HostRecord, HostRecordOK, GapsOK
    <3> QED
      BY <2>1, <3>1, <3>2 DEF Gap, Leaks
  <2>5. nft' # Absent /\ r \in nft'
    <3>1. CASE UNCHANGED nft
      BY <2>3, <2>4, <3>1
    <3>2. CASE ApplyNFT \/ RestoreNFT \/ BypassNFT
      BY <1>1, <2>1, <2>2, <2>4, <3>2, ReplacedTableProtects
    <3>3. CASE Reboot
      <4>1. up' = FALSE
        BY <3>3 DEF Reboot, Stop
      <4>2. UNCHANGED nft
        BY <2>1, <4>1
      <4> QED
        BY <3>1, <4>2
    <3> QED
      BY <1>1, <3>1, <3>2, <3>3, TableSteps
  <2> QED
    BY <2>5 DEF Leaks
<1>2. FlowInv /\ BypassInv /\ HostInv /\ [Next]_vars => [Body]_vars
  BY <1>1
<1> QED
  BY <1>2, FlowHolds, BypassHolds, HostHolds, PTL DEF Spec, KillSwitchHolds

-------------------------------------------------------------------------------
(* Which document is the applied one.                                      *)

ApplyCommits(j) == {row \in DOMAIN j : j[row].component = "apply" /\ j[row].state = "COMMITTED"}
AtWork(j) == {row \in Moving(j) : j[row].component = "apply"}
Under(j, row) == {other \in ApplyCommits(j) : other < row}

\* Document d is the candidate of the newest of the rows, none if there is none.
Expects(j, rows, d) ==
    \/ rows = {} /\ d = Absent
    \/ \E newest \in rows : (\A other \in rows : other <= newest) /\ d = j[newest].candidate

\* The applied document is that of the newest commit; what an apply found when it began
\* is that of the newest commit before it.
CommitOK(j, p) ==
    /\ AtWork(j) = {} => Expects(j, ApplyCommits(j), p)
    /\ \A row \in ApplyCommits(j) \cup AtWork(j) : Expects(j, Under(j, row), j[row].snapshot.policy)

CommitInv == Clean => CommitOK(journal, policy)

\* Rows agree on all that matters here.
SameCommits(j, k) ==
    /\ ApplyCommits(k) = ApplyCommits(j) /\ AtWork(k) = AtWork(j)
    /\ \A row \in ApplyCommits(j) \cup AtWork(j) :
           k[row].snapshot = j[row].snapshot /\ k[row].candidate = j[row].candidate

LEMMA ExpectsSame ==
    ASSUME NEW j, NEW k, NEW rows, NEW d, Expects(j, rows, d),
           \A row \in rows : k[row].candidate = j[row].candidate
    PROVE  Expects(k, rows, d)
  BY DEF Expects

LEMMA SameKeepsCommit ==
    ASSUME NEW j, NEW k, NEW p, CommitOK(j, p), SameCommits(j, k)
    PROVE  CommitOK(k, p)
<1>1. /\ ApplyCommits(k) = ApplyCommits(j) /\ AtWork(k) = AtWork(j)
      /\ \A row : Under(k, row) = Under(j, row)
  BY DEF SameCommits, Under
<1>2. \A row : Under(j, row) \subseteq ApplyCommits(j)
  BY DEF Under
<1>3. \A rows \in SUBSET ApplyCommits(j) : \A d : Expects(j, rows, d) => Expects(k, rows, d)
  BY ExpectsSame DEF SameCommits
<1> HIDE DEF Expects
<1>4. \A row \in ApplyCommits(j) \cup AtWork(j) : Expects(k, Under(k, row), k[row].snapshot.policy)
  BY <1>1, <1>2, <1>3 DEF SameCommits, CommitOK
<1>5. AtWork(k) = {} => Expects(k, ApplyCommits(k), p)
  BY <1>1, <1>3 DEF CommitOK
<1> QED
  BY <1>1, <1>4, <1>5 DEF CommitOK

\* A row at work or committed may change its state, and stays what it is.
CommitStates == MovingStates \cup {"COMMITTED"}

LEMMA ElsewhereSameCommits ==
    ASSUME NEW j, NEW k, NEW row, NEW to, NEW detail, Moves(j, k, row, to, detail),
           \/ j[row].component # "apply"
           \/ j[row].state \notin CommitStates /\ to \notin CommitStates
           \/ j[row].state \in MovingStates /\ to \in MovingStates
    PROVE  SameCommits(j, k)
<1>1. /\ row \in DOMAIN j /\ DOMAIN k = DOMAIN j /\ k[row].state = to
      /\ k[row].snapshot = j[row].snapshot /\ k[row].component = j[row].component
      /\ k[row].candidate = j[row].candidate
      /\ \A r \in DOMAIN j \ {row} : k[r] = j[r]
  BY DEF Moves
<1>2. "COMMITTED" \notin MovingStates
  BY DEF MovingStates
<1>3. ApplyCommits(k) = ApplyCommits(j)
  BY <1>1, <1>2 DEF ApplyCommits, CommitStates
<1>4. AtWork(k) = AtWork(j)
  BY <1>1, <1>2 DEF AtWork, Moving, CommitStates
<1>5. \A r \in ApplyCommits(j) \cup AtWork(j) : r \in DOMAIN j
  BY DEF ApplyCommits, AtWork, Moving
<1>6. \A r \in DOMAIN j : k[r].snapshot = j[r].snapshot /\ k[r].candidate = j[r].candidate
  BY <1>1
<1> QED
  BY <1>3, <1>4, <1>5, <1>6 DEF SameCommits

\* The topmost row begins its work, commits, is rolled back or is taken up again.
LEMMA TopKeepsCommit ==
    ASSUME NEW j \in Seq(Entries), NEW k, NEW row, NEW to, NEW detail, NEW p,
           CommitOK(j, p), Moves(j, k, row, to, detail), IsTop(j, row), j[row].component = "apply",
           \/ j[row].state \notin CommitStates /\ to \in MovingStates /\ p = j[row].snapshot.policy
           \/ j[row].state \in MovingStates /\ to = "COMMITTED" /\ p = j[row].candidate
           \/ j[row].state \in MovingStates /\ to \notin CommitStates /\ p = j[row].snapshot.policy
           \/ j[row].state = "COMMITTED" /\ to \in MovingStates
    PROVE  CommitOK(k, p)
<1>1. /\ row \in DOMAIN j /\ DOMAIN k = DOMAIN j /\ k[row].state = to
      /\ k[row].snapshot = j[row].snapshot /\ k[row].component = j[row].component
      /\ k[row].candidate = j[row].candidate
      /\ \A r \in DOMAIN j \ {row} : k[r] = j[r]
      /\ DOMAIN j \subseteq Nat
  BY DEF Moves
<1>2. "COMMITTED" \notin MovingStates
  BY DEF MovingStates
<1>3. \A other \in DOMAIN j \ {row} :
          j[other].state \notin MovingStates /\ (j[other].state = "COMMITTED" => other < row)
  BY DEF IsTop
<1> DEFINE below == Under(j, row)
<1>4. /\ below = ApplyCommits(j) \ {row}
      /\ \A other \in below : other < row /\ other \in DOMAIN j \ {row}
  BY <1>1, <1>3 DEF Under, ApplyCommits
<1>5. /\ AtWork(k) = IF to \in MovingStates THEN {row} ELSE {}
      /\ AtWork(j) = IF j[row].state \in MovingStates THEN {row} ELSE {}
  BY <1>1, <1>3 DEF AtWork, Moving
<1>6. ApplyCommits(k) = IF to = "COMMITTED" THEN below \cup {row} ELSE below
  BY <1>1, <1>4 DEF ApplyCommits
<1>7. \A other \in below \cup {row} : Under(k, other) = Under(j, other) /\ Under(j, other) \subseteq below
  <2>1. \A other \in below \cup {row} : other \in Nat /\ other <= row
    BY <1>1, <1>4
  <2>2. \A other \in below \cup {row} : row \notin Under(j, other) /\ row \notin Under(k, other)
    BY <1>1, <2>1 DEF Under
  <2>3. \A other : Under(j, other) \subseteq ApplyCommits(j) /\ Under(k, other) \subseteq ApplyCommits(k)
    BY DEF Under
  <2> HIDE DEF below
  <2>4. \A other \in below \cup {row} : Under(j, other) \subseteq below /\ Under(k, other) \subseteq below
    BY <1>4, <1>6, <2>2, <2>3
  <2>5. \A b \in below : b \in ApplyCommits(j) /\ b \in ApplyCommits(k)
    BY <1>4, <1>6
  <2>6. \A other \in below \cup {row} : \A b \in below : b \in Under(k, other) <=> b \in Under(j, other)
    BY <2>5 DEF Under
  <2> QED
    BY <2>4, <2>6
<1>8. \A other \in below \cup {row} :
          k[other].candidate = j[other].candidate /\ k[other].snapshot = j[other].snapshot
  BY <1>1, <1>4
<1>9. \A rows \in SUBSET below : \A d : Expects(j, rows, d) => Expects(k, rows, d)
  BY <1>8, ExpectsSame
\* What the topmost row found is what the commits below it leave.
<1>10. Expects(j, below, j[row].snapshot.policy)
  <2>1. CASE j[row].state \in CommitStates
    BY <1>1, <1>5, <2>1 DEF CommitOK, CommitStates, ApplyCommits
  <2>2. CASE j[row].state \notin CommitStates
    <3>1. AtWork(j) = {} /\ ApplyCommits(j) = below
      BY <1>4, <1>5, <2>2 DEF CommitStates, ApplyCommits
    <3>2. p = j[row].snapshot.policy
      BY <2>2 DEF CommitStates
    <3> QED
      BY <3>1, <3>2 DEF CommitOK
  <2> QED
    BY <2>1, <2>2
<1>11. \A other \in below \cup {row} : Expects(j, Under(j, other), j[other].snapshot.policy)
  <2>1. \A other \in below : other \in ApplyCommits(j)
    BY <1>4
  <2> QED
    BY <1>10, <2>1 DEF CommitOK
<1> HIDE DEF below, Expects
<1>12. \A other \in ApplyCommits(k) \cup AtWork(k) : Expects(k, Under(k, other), k[other].snapshot.policy)
  <2>1. ApplyCommits(k) \cup AtWork(k) \subseteq below \cup {row}
    BY <1>5, <1>6
  <2> QED
    BY <1>7, <1>8, <1>9, <1>11, <2>1
<1>13. ASSUME AtWork(k) = {} PROVE Expects(k, ApplyCommits(k), p)
  <2>1. to \notin MovingStates
    BY <1>5, <1>13
  <2>2. CASE to = "COMMITTED"
    <3>1. p = k[row].candidate /\ ApplyCommits(k) = below \cup {row}
      BY <1>1, <1>2, <1>6, <2>2 DEF CommitStates
    <3>2. \A other \in below \cup {row} : other <= row
      BY <1>1, <1>4
    <3> QED
      BY <3>1, <3>2 DEF Expects
  <2>3. CASE to # "COMMITTED"
    <3>1. p = j[row].snapshot.policy /\ ApplyCommits(k) = below
      BY <1>6, <2>1, <2>3
    <3> QED
      BY <1>9, <1>10, <3>1
  <2> QED
    BY <2>2, <2>3
<1> QED
  BY <1>12, <1>13 DEF CommitOK

\* A new row commits nothing.
LEMMA AppendKeepsCommit ==
    ASSUME NEW j \in Seq(Entries), NEW e \in Entries, e.state = "PREPARED",
           NEW p, CommitOK(j, p)
    PROVE  CommitOK(Append(j, e), p)
<1> DEFINE k == Append(j, e)
           top == Len(j) + 1
<1>1. /\ top \notin DOMAIN j /\ DOMAIN k = DOMAIN j \cup {top} /\ k[top] = e
      /\ \A row \in DOMAIN j : k[row] = j[row]
  BY AppendFacts
<1> HIDE DEF k, top
<1>2. e.state \notin CommitStates
  BY DEF CommitStates, MovingStates
<1>3. ApplyCommits(k) = ApplyCommits(j) /\ AtWork(k) = AtWork(j)
  BY <1>1, <1>2 DEF ApplyCommits, AtWork, Moving, CommitStates
<1>4. \A row \in ApplyCommits(j) \cup AtWork(j) : row \in DOMAIN j
  BY DEF ApplyCommits, AtWork, Moving
<1>5. SameCommits(j, k)
  BY <1>1, <1>3, <1>4 DEF SameCommits
<1> QED
  BY <1>5, SameKeepsCommit DEF k

LEMMA AlikeKeepsCommit ==
    ASSUME NEW j, NEW k, Alike(j, k), NEW p, CommitOK(j, p)
    PROVE  CommitOK(k, p)
<1>1. ApplyCommits(k) = ApplyCommits(j) /\ AtWork(k) = AtWork(j)
  BY DEF Alike, ApplyCommits, AtWork, Moving
<1>2. \A row \in ApplyCommits(j) \cup AtWork(j) : row \in DOMAIN j
  BY DEF ApplyCommits, AtWork, Moving
<1>3. SameCommits(j, k)
  BY <1>1, <1>2 DEF SameCommits, Alike
<1> QED
  BY <1>3, SameKeepsCommit

\* What a statement has to show.
LEMMA StatementKeepsCommit ==
    ASSUME FlowInv, CommitOK(journal, policy),
           NEW to, NEW detail, NEW ok, NEW bad,
           Wrote(task, task', journal, journal', to, detail, ok, bad),
           UNCHANGED <<process, files, kernel, others>>,
           Moves(journal, journal', task.row, to, detail) /\ Entry.state = task.from =>
               \/ Entry.component # "apply"
               \/ Entry.state \notin CommitStates /\ to \notin CommitStates
               \/ Entry.state \in MovingStates /\ to \in MovingStates
               \/ /\ IsTop(journal, task.row) /\ Entry.component = "apply"
                  /\ \/ Entry.state \notin CommitStates /\ to \in MovingStates /\ policy = Snapshot.policy
                     \/ Entry.state \in MovingStates /\ to = "COMMITTED" /\ policy = Candidate
                     \/ Entry.state \in MovingStates /\ to \notin CommitStates /\ policy = Snapshot.policy
                     \/ Entry.state = "COMMITTED" /\ to \in MovingStates
    PROVE  CommitOK(journal', policy')
<1>1. UNCHANGED policy /\ journal \in Seq(Entries)
  BY DEF files, FlowInv, TypeOK
<1>2. CASE journal' = journal
  BY <1>1, <1>2
<1>3. CASE Moves(journal, journal', task.row, to, detail) /\ Entry.state = task.from
  <2>1. CASE \/ Entry.component # "apply"
             \/ Entry.state \notin CommitStates /\ to \notin CommitStates
             \/ Entry.state \in MovingStates /\ to \in MovingStates
    BY <1>1, <1>3, <2>1, ElsewhereSameCommits, SameKeepsCommit DEF Entry
  <2>2. CASE /\ IsTop(journal, task.row) /\ Entry.component = "apply"
             /\ \/ Entry.state \notin CommitStates /\ to \in MovingStates /\ policy = Snapshot.policy
                \/ Entry.state \in MovingStates /\ to = "COMMITTED" /\ policy = Candidate
                \/ Entry.state \in MovingStates /\ to \notin CommitStates /\ policy = Snapshot.policy
                \/ Entry.state = "COMMITTED" /\ to \in MovingStates
    BY <1>1, <1>3, <2>2, TopKeepsCommit DEF Entry, Snapshot, Candidate
  <2> QED
    BY <1>3, <2>1, <2>2
<1> QED
  BY <1>2, <1>3 DEF Wrote, Entry

\* Statements that leave the work of an apply alone.
LEMMA AsideKeepsCommit ==
    ASSUME FlowInv, FlowInv', Clean', CommitOK(journal, policy),
           \/ Validate \/ MarkInterrupted \/ MarkFailed \/ MarkDamaged
           \/ MarkVerifying \/ RollBack
    PROVE  CommitOK(journal', policy')
<1>1. /\ {"PREPARED", "VALIDATED", "FAILED"} \cap CommitStates = {}
      /\ {"APPLYING", "VERIFYING", "ROLLING_BACK"} = MovingStates
  BY DEF CommitStates, MovingStates
<1>2. CASE Validate
  <2>1. /\ UNCHANGED <<process, files, kernel, others>> /\ task.from = "PREPARED"
        /\ \/ Wrote(task, task', journal, journal', "VALIDATED", "none", "mark_applying", "fail")
           \/ journal' = journal
    BY <1>2, ValidateEffect
  <2> QED
    BY <1>1, <2>1, StatementKeepsCommit DEF files
<1>3. ASSUME task.from \in {"PREPARED", "VALIDATED"}, NEW ok, NEW detail,
             Wrote(task, task', journal, journal', "FAILED", detail, ok, "fail"),
             UNCHANGED <<process, files, kernel, others>>
      PROVE  CommitOK(journal', policy')
  BY <1>1, <1>3, StatementKeepsCommit
<1>4. ASSUME NEW detail \in GaveUpDetails,
             Wrote(task, task', journal, journal', "FAILED", detail, "fail", "fail"),
             UNCHANGED <<process, files, kernel, others>>
      PROVE  CommitOK(journal', policy')
  <2>1. ~Moves(journal, journal', task.row, "FAILED", detail)
    <3>1. \A row \in DOMAIN journal' : (journal')[row].detail \notin GaveUpDetails
      BY DEF Clean, Troubled, GaveUpDetails
    <3> QED
      BY <1>4, <3>1 DEF Moves
  <2> QED
    BY <1>4, <2>1, StatementKeepsCommit
<1>5. CASE MarkInterrupted
  BY <1>3, <1>5, MarkInterruptedEffect
<1>6. CASE MarkFailed
  <2>1. /\ task.from \in {"PREPARED", "VALIDATED", "ROLLING_BACK"}
        /\ Wrote(task, task', journal, journal', "FAILED",
                 IF task.from = "ROLLING_BACK" THEN "rollback_failed" ELSE "not_applied", "fail", "fail")
        /\ UNCHANGED <<process, files, kernel, others>>
    BY <1>6, MarkFailedEffect
  <2>2. CASE task.from = "ROLLING_BACK"
    BY <1>4, <2>1, <2>2 DEF GaveUpDetails
  <2>3. CASE task.from # "ROLLING_BACK"
    BY <1>3, <2>1, <2>3
  <2> QED
    BY <2>2, <2>3
<1>7. CASE MarkDamaged
  BY <1>4, <1>7, MarkDamagedEffect DEF GaveUpDetails
<1>8. CASE MarkVerifying \/ RollBack
  <2>1. /\ UNCHANGED <<process, files, kernel, others>> /\ task.from \in MovingStates
        /\ \E to \in MovingStates : \E detail, ok, bad :
               Wrote(task, task', journal, journal', to, detail, ok, bad)
    BY <1>1, <1>8, MarkVerifyingEffect, RollBackEffect
  <2> QED
    BY <2>1, StatementKeepsCommit
<1> QED
  BY <1>2, <1>5, <1>6, <1>7, <1>8

\* Statements with which an apply begins its work, commits or is undone.
LEMMA TurnsKeepCommit ==
    ASSUME FlowInv, Clean, BypassRecord, BypassTask, HostTask, CommitOK(journal, policy),
           MarkApplying \/ Commit \/ MarkRollingBack \/ MarkRolledBack
    PROVE  CommitOK(journal', policy')
<1>1. /\ {"PREPARED", "VALIDATED", "ROLLED_BACK"} \cap CommitStates = {}
      /\ {"APPLYING", "VERIFYING", "ROLLING_BACK"} = MovingStates
  BY DEF CommitStates, MovingStates
<1>2. task.step \in RowSteps /\ task.row \in DOMAIN journal
  <2>1. task.step \in {"mark_applying", "commit", "mark_rolling_back", "mark_rolled_back"}
    BY MarkApplyingEffect, CommitEffect, MarkRollingBackEffect, MarkRolledBackEffect
  <2> QED
    BY <2>1, RowTypes DEF RowSteps, MarkSteps
<1>3. Entry.state \in MovingStates => IsTop(journal, task.row)
  BY <1>2, OneAtWork DEF BypassRecord, BypassRecordOK, Entry
<1>4. CASE MarkApplying
  <2>1. /\ task.step = "mark_applying" /\ task.from = "VALIDATED"
        /\ UNCHANGED <<process, files, kernel, others>>
        /\ \E ok, bad : Wrote(task, task', journal, journal', "APPLYING", "none", ok, bad)
    BY <1>4, MarkApplyingEffect
  <2>2. IsTop(journal, task.row) /\ policy = Snapshot.policy
    BY <2>1 DEF BypassTask, BypassTaskOK, Entry, Snapshot
  <2> QED
    BY <1>1, <2>1, <2>2, StatementKeepsCommit
<1>5. CASE Commit
  <2>1. /\ task.step = "commit" /\ task.from = "VERIFYING"
        /\ UNCHANGED <<process, files, kernel, others>>
        /\ \E ok, bad : Wrote(task, task', journal, journal', "COMMITTED", "none", ok, bad)
    BY <1>5, CommitEffect
  <2>2. Entry.component = "apply" => policy = Candidate
    BY <1>2, <2>1 DEF HostTask, HostTaskOK, ApplyTaskOK, Entry, Candidate
  <2> QED
    BY <1>1, <1>3, <2>1, <2>2, StatementKeepsCommit
<1>6. CASE MarkRollingBack
  <2>1. /\ task.step = "mark_rolling_back" /\ task.from = "COMMITTED"
        /\ UNCHANGED <<process, files, kernel, others>>
        /\ \E ok, bad : Wrote(task, task', journal, journal', "ROLLING_BACK", "operator_requested", ok, bad)
    BY <1>6, MarkRollingBackEffect
  <2>2. IsTop(journal, task.row)
    BY <2>1 DEF BypassTask, BypassTaskOK
  <2> QED
    BY <1>1, <2>1, <2>2, StatementKeepsCommit
<1>7. CASE MarkRolledBack
  <2>1. /\ task.step = "mark_rolled_back" /\ task.from = "ROLLING_BACK"
        /\ UNCHANGED <<process, files, kernel, others>>
        /\ \E detail, ok, bad : Wrote(task, task', journal, journal', "ROLLED_BACK", detail, ok, bad)
    BY <1>7, MarkRolledBackEffect
  <2>2. policy = Snapshot.policy
    BY <1>2, <2>1 DEF HostTask, HostTaskOK, RestoreTaskOK, Entry, Snapshot
  <2> QED
    BY <1>1, <1>3, <2>1, <2>2, StatementKeepsCommit
<1> QED
  BY <1>4, <1>5, <1>6, <1>7

\* A new operation.
LEMMA BeganKeepsCommit ==
    ASSUME FlowInv, CommitOK(journal, policy), UNCHANGED policy,
           NEW e \in Entries, e.state = "PREPARED", NEW config, NEW run,
           Began(task, task', journal, journal', overtook, overtook', e, config, run)
    PROVE  CommitOK(journal', policy')
<1>1. journal \in Seq(Entries)
  BY DEF FlowInv, TypeOK
<1>2. CommitOK(Append(journal, e), policy)
  BY <1>1, AppendKeepsCommit
<1>3. journal' = journal \/ journal' = Append(journal, e)
  BY DEF Began
<1> HIDE DEF CommitOK, Began
<1> QED
  BY <1>2, <1>3

LEMMA CommitStep ==
    ASSUME FlowInv, BypassInv, HostInv, CommitInv, [Next]_vars
    PROVE  CommitInv'
<1>1. SUFFICES ASSUME Clean' PROVE CommitOK(journal', policy')
  BY DEF CommitInv
<1>2. FlowInv'
  BY FlowStep
<1>3. Clean
  BY <1>1, <1>2, CleanWas
<1>4. BypassRecord /\ BypassTask /\ HostRecord /\ HostTask /\ CommitOK(journal, policy)
  BY <1>3, CleanFacts DEF BypassInv, HostInv, CommitInv
<1> HIDE DEF CommitOK
<1>5. CASE UNCHANGED vars
  BY <1>4, <1>5 DEF vars, files
<1>6. CASE Validate \/ MarkInterrupted \/ MarkFailed \/ MarkDamaged \/ MarkVerifying \/ RollBack
  BY <1>1, <1>2, <1>4, <1>6, AsideKeepsCommit
<1>7. CASE MarkApplying \/ Commit \/ MarkRollingBack \/ MarkRolledBack
  BY <1>3, <1>4, <1>7, TurnsKeepCommit
<1>8. CASE WritePolicy \/ RestoreFile
  <2>1. /\ UNCHANGED journal /\ task.step \in ApplySteps \cup RestoreSteps
        /\ Entry.component # "apply" => policy' = policy
    <3>1. CASE WritePolicy
      BY <3>1, WritePolicyEffect, HostStepsMove DEF ApplySteps
    <3>2. CASE RestoreFile
      BY <3>2, RestoreFileEffect DEF RestoreSteps
    <3> QED
      BY <1>8, <3>1, <3>2
  <2>2. task.row \in DOMAIN journal /\ Entry.state \in MovingStates
    BY <2>1, HostStepsMove
  <2>3. Entry.component = "apply" => AtWork(journal) # {}
    BY <2>2 DEF AtWork, Moving, Entry
  <2> QED
    BY <1>4, <2>1, <2>3 DEF CommitOK
<1>9. CASE \/ ApplyNFT \/ InstallSingBox \/ RestartSingBox \/ RemovePrevious
           \/ ActivateMarker \/ BypassPolicy \/ BypassNFT \/ VerifyBypass
           \/ RemoveCandidate \/ RestoreSingBox \/ RestoreService \/ RestoreNFT
           \/ \E f \in Families : AddIP(f) \/ RestoreIP(f)
  <2>1. UNCHANGED <<journal, policy>>
    BY <1>9 DEF ApplyNFT, InstallSingBox, RestartSingBox, RemovePrevious, ActivateMarker,
         BypassPolicy, BypassNFT, VerifyBypass, RemoveCandidate, RestoreSingBox, RestoreService,
         RestoreNFT, AddIP, RestoreIP, files
  <2> QED
    BY <1>4, <2>1
<1>10. CASE \/ NextOperation \/ JournalCheck \/ DeactivateMarker \/ FinishRecovery
            \/ Start \/ RollbackRequested \/ RecoveryRequested \/ Crash \/ Reboot \/ SingBoxRestarts
  <2>1. UNCHANGED <<journal, policy>>
    BY <1>10 DEF NextOperation, JournalCheck, DeactivateMarker, FinishRecovery, Start, RollbackRequested,
         RecoveryRequested, Crash, Reboot, Stop, SingBoxRestarts, files
  <2> QED
    BY <1>4, <2>1
<1>11. ASSUME NEW row \in DOMAIN journal, Tamper(row) PROVE CommitOK(journal', policy')
  <2>1. Alike(journal, journal') /\ UNCHANGED policy
    BY <1>11, TamperEffect DEF files
  <2> QED
    BY <1>4, <2>1, AlikeKeepsCommit
<1>12. CASE Reconcile
  <2>1. /\ UNCHANGED policy
        /\ \/ UNCHANGED journal
           \/ \E e \in Entries :
                 /\ e.state = "PREPARED"
                 /\ Began(task, task', journal, journal', overtook, overtook', e, singbox, "reconcile")
    BY <1>12, ReconcileEffect DEF files, Fresh
  <2> QED
    BY <1>4, <2>1, BeganKeepsCommit
<1>13. CASE BypassRequested \/ \E document \in Documents : ApplyRequested(document)
  <2>1. /\ UNCHANGED policy
        /\ \E e \in Entries : \E config, run :
              /\ e.state = "PREPARED"
              /\ Began(task, task', journal, journal', overtook, overtook', e, config, run)
    BY <1>13, BypassRequestedEffect, ApplyRequestedEffect DEF files, Fresh
  <2> QED
    BY <1>4, <2>1, BeganKeepsCommit
<1> QED
  BY <1>5, <1>6, <1>7, <1>8, <1>9, <1>10, <1>11, <1>12, <1>13 DEF Next, Work

LEMMA CommitInit == ASSUME Init PROVE CommitInv
<1>1. journal = << >> /\ policy = Absent
  BY DEF Init
<1>2. ApplyCommits(journal) = {} /\ AtWork(journal) = {}
  BY <1>1 DEF ApplyCommits, AtWork, Moving
<1> QED
  BY <1>1, <1>2 DEF CommitInv, CommitOK, Expects

\* The applied-routing file holds the document of the newest committed apply, none if
\* there is none, whatever was applied, rolled back or interrupted before; and the
\* snapshot of every apply that committed or is at work holds the document of the commit
\* below it, so that rolling back the newest commit uncovers the one before.
THEOREM CommitHolds == Spec => []CommitInv
  BY CommitInit, CommitStep, FlowHolds, BypassHolds, HostHolds, PTL DEF Spec

-------------------------------------------------------------------------------
(* What is in force when the daemon is ready.                               *)

\* The routes of document d are there, protected and nothing else is protected.
InPlace(d, n, tn, ru, ta) ==
    d # Absent /\ d # {} =>
        /\ tn # Stopped /\ d \subseteq tn /\ n = d
        /\ \A f \in Families : d \subseteq ru[f] /\ d \subseteq ta[f]

\* A restore has brought the routes of document d up in some families; the routing
\* tables can have lost them since if sing-box restarted.
Carried(d, families, tn, ru, ta, lo) ==
    d # Absent /\ d # {} =>
        /\ \A f \in families : d \subseteq ru[f]
        /\ lo \/ (tn # Stopped /\ d \subseteq tn /\ \A f \in families : d \subseteq ta[f])

\* The daemon is ready, its task is no recovery run, and nothing is at work.
Ready == /\ tracker = "succeeded" /\ task.run \notin {"recovery", "reconcile"}
         /\ Moving(journal) = {} /\ marker = NoMarker

ReadyRecord == Ready => lost \/ InPlace(policy, nft, tun, rules, tables)

ReadyTaskOK(t, e, m, n, tn, ru, ta, lo) ==
    /\ t.step = "commit" =>
           IF e.component = "apply" THEN lo \/ InPlace(e.candidate, n, tn, ru, ta) ELSE m # NoMarker
    /\ t.step = "restore_ipv6" => Carried(e.snapshot.policy, {"ipv4"}, tn, ru, ta, lo)
    /\ t.step \in {"restore_file", "mark_rolled_back"} =>
           Carried(e.snapshot.policy, Families, tn, ru, ta, lo)

ReadyTask == ReadyTaskOK(task, Entry, marker, nft, tun, rules, tables, lost)

ReadyInv == Clean => ReadyRecord /\ ReadyTask

\* Steps at which ReadyTask says something.
ReadyTaskSteps == {"commit", "restore_ipv6", "restore_file", "mark_rolled_back"}

LEMMA ReadyTaskFree ==
    ASSUME (task').step \notin ReadyTaskSteps
    PROVE  ReadyTask'
  BY DEF ReadyTask, ReadyTaskOK, ReadyTaskSteps

LEMMA FreeReadySteps ==
    ASSUME NEW step \in {"next_operation", "finish_recovery", "idle", "roll_back", "mark_failed",
                         "reconcile", "deactivate_marker", "validate", "mark_rolling_back"}
    PROVE  step \notin ReadyTaskSteps
  BY DEF ReadyTaskSteps

LEMMA GaveUpKeepsReadyTask ==
    ASSUME task \in Tasks, GivesUp(task, task')
    PROVE  ReadyTask'
<1>1. (task').step \in {"next_operation", "finish_recovery", "idle", "roll_back", "mark_failed"}
  BY GaveUpIsFree
<1> QED
  BY <1>1, FreeReadySteps, ReadyTaskFree

\* While an operation is at work the record promises nothing.
LEMMA WorkKeepsReadyRecord ==
    ASSUME FlowInv, UNCHANGED journal, task.step \in ApplySteps \cup BypassSteps \cup RestoreSteps
    PROVE  ReadyRecord'
<1>1. task.row \in DOMAIN journal /\ Entry.state \in MovingStates
  BY HostStepsMove
<1>2. Moving(journal') # {}
  BY <1>1 DEF Moving, Entry
<1> QED
  BY <1>2 DEF ReadyRecord, Ready

\* Where nothing that a ready host shows has changed, it shows the same.
LEMMA SameKeepsReadyRecord ==
    ASSUME ReadyRecord, UNCHANGED <<tracker, policy, marker, nft, tun, rules, tables, lost>>,
           Moving(journal') = {} => Moving(journal) = {},
           (task').run \notin {"recovery", "reconcile"} => task.run \notin {"recovery", "reconcile"}
    PROVE  ReadyRecord'
  BY DEF ReadyRecord, Ready

\* Recovery runs and their end.
LEMMA RecoveringKeepsReady ==
    ASSUME (task').step \in {"idle", "next_operation", "finish_recovery", "deactivate_marker", "reconcile",
                             "validate"},
           tracker' # "succeeded" \/ (task').run \in {"recovery", "reconcile"}
    PROVE  ReadyRecord' /\ ReadyTask'
<1>1. (task').step \notin ReadyTaskSteps
  BY DEF ReadyTaskSteps
<1> QED
  BY <1>1, ReadyTaskFree DEF ReadyRecord, Ready

-------------------------------------------------------------------------------
(* The steps of a row keep what a ready host shows.                         *)

LEMMA WorkKeepsReady ==
    ASSUME FlowInv, Clean, BypassRecord, HostRecord, HostTask,
           \/ ApplyNFT \/ InstallSingBox \/ RestartSingBox \/ RemovePrevious \/ WritePolicy
           \/ ActivateMarker \/ BypassPolicy \/ BypassNFT \/ VerifyBypass
           \/ RemoveCandidate \/ RestoreSingBox \/ RestoreService \/ RestoreNFT
           \/ \E f \in Families : AddIP(f)
    PROVE  ReadyRecord' /\ ReadyTask'
<1>1. UNCHANGED journal /\ task.step \in ApplySteps \cup BypassSteps \cup RestoreSteps
      /\ task.step \notin ReadyTaskSteps
  <2>1. CASE ApplyNFT \/ InstallSingBox \/ RestartSingBox \/ RemovePrevious \/ WritePolicy
    BY <2>1, ApplyNFTEffect, InstallSingBoxEffect, RestartSingBoxEffect, RemovePreviousEffect,
       WritePolicyEffect DEF ApplySteps, ReadyTaskSteps
  <2>2. CASE ActivateMarker \/ BypassPolicy \/ BypassNFT \/ VerifyBypass
    BY <2>2, ActivateMarkerEffect, BypassPolicyEffect, BypassNFTEffect, VerifyBypassEffect
       DEF BypassSteps, ReadyTaskSteps
  <2>3. CASE RemoveCandidate \/ RestoreSingBox \/ RestoreService \/ RestoreNFT
    BY <2>3, RemoveCandidateEffect, RestoreSingBoxEffect, RestoreServiceEffect, RestoreNFTEffect
       DEF ApplySteps, RestoreSteps, ReadyTaskSteps
  <2>4. CASE \E f \in Families : AddIP(f)
    BY <2>4, AddIPEffect DEF ApplySteps, ReadyTaskSteps
  <2> QED
    BY <2>1, <2>2, <2>3, <2>4
<1>2. ReadyRecord'
  BY <1>1, WorkKeepsReadyRecord
<1>3. /\ task \in Tasks /\ task.step \in RowSteps
      /\ task.step \in ApplySteps => Entry.component = "apply"
      /\ task.step \in BypassSteps => Entry.component = "bypass"
  BY <1>1, HostStepsMove DEF FlowInv, TypeOK, RowSteps
<1>4. ASSUME NEW next, Passes(task, task', next), next \notin ReadyTaskSteps
      PROVE  ReadyTask'
  BY <1>3, <1>4, PassesFacts, ReadyTaskFree
<1>5. CASE WritePolicy
  <2>1. /\ task.step = "write_policy"
        /\ UNCHANGED <<journal, marker, nft, tun, rules, tables>>
        /\ (Passes(task, task', "commit") /\ InForce(Candidate)) \/ GivesUp(task, task')
    BY <1>5, WritePolicyEffect DEF kernel
  <2>2. Entry.component = "apply"
    BY <1>3, <2>1 DEF ApplySteps
  <2>3. CASE Passes(task, task', "commit") /\ InForce(Candidate)
    <3>1. (task').step = "commit" /\ (task').row = task.row
      BY <1>3, <2>3, PassesFacts
    <3>2. InPlace(Candidate, nft, tun, rules, tables)
      BY <2>3 DEF InForce, InPlace, Devices
    <3>3. ReadyTaskOK(task', Entry, marker', nft', tun', rules', tables', lost')
      BY <2>1, <2>2, <3>1, <3>2 DEF ReadyTaskOK, Candidate
    <3> QED
      BY <1>2, <2>1, <3>1, <3>3 DEF ReadyTask, Entry
  <2> QED
    BY <1>2, <1>3, <2>1, <2>3, GaveUpKeepsReadyTask
<1>6. CASE VerifyBypass
  <2>1. /\ task.step = "verify_bypass" /\ UNCHANGED <<journal, marker>>
        /\ \/ Passes(task, task', "mark_rolled_back") /\ task.from = "ROLLING_BACK"
           \/ Passes(task, task', "commit") /\ Off(RoutesOf(Snapshot.policy))
           \/ GivesUp(task, task')
    BY <1>6, VerifyBypassEffect DEF files
  <2>2. Entry.component = "bypass" /\ task.from # "ROLLING_BACK"
    <3>1. Entry.component = "bypass"
      BY <1>3, <2>1 DEF BypassSteps
    <3> QED
      BY <1>3, <2>1, <3>1 DEF HostTask, HostTaskOK, BypassingTaskOK
  <2>3. CASE Passes(task, task', "commit") /\ Off(RoutesOf(Snapshot.policy))
    <3>1. (task').step = "commit" /\ (task').row = task.row
      BY <1>3, <2>3, PassesFacts
    <3>2. marker' # NoMarker
      BY <2>1, <2>3 DEF Off
    <3> QED
      BY <1>2, <2>1, <2>2, <3>1, <3>2 DEF ReadyTask, ReadyTaskOK, Entry
  <2> QED
    BY <1>2, <1>3, <2>1, <2>2, <2>3, GaveUpKeepsReadyTask
<1>7. ASSUME ~WritePolicy, ~VerifyBypass
      PROVE  \/ GivesUp(task, task')
             \/ \E next : Passes(task, task', next) /\ next \notin ReadyTaskSteps
  <2>1. {"install_singbox", "restart_singbox", "remove_previous", "add_ipv4", "add_ipv6", "mark_verifying",
         "bypass_policy", "bypass_nft", "verify_bypass", "restore_singbox", "restore_service",
         "restore_nft", "restore_ipv4"} \cap ReadyTaskSteps = {}
    BY DEF ReadyTaskSteps
  <2>2. CASE ApplyNFT \/ InstallSingBox \/ RestartSingBox \/ RemovePrevious
    BY <2>1, <2>2, ApplyNFTEffect, InstallSingBoxEffect, RestartSingBoxEffect, RemovePreviousEffect
  <2>3. CASE ActivateMarker \/ BypassPolicy \/ BypassNFT
    BY <2>1, <2>3, ActivateMarkerEffect, BypassPolicyEffect, BypassNFTEffect
  <2>4. CASE RemoveCandidate \/ RestoreSingBox \/ RestoreService \/ RestoreNFT
    BY <2>1, <2>4, RemoveCandidateEffect, RestoreSingBoxEffect, RestoreServiceEffect, RestoreNFTEffect
  <2>5. CASE \E f \in Families : AddIP(f)
    BY <2>1, <2>5, AddIPEffect
  <2> QED
    BY <1>7, <2>2, <2>3, <2>4, <2>5
<1> QED
  BY <1>2, <1>3, <1>4, <1>5, <1>6, <1>7, GaveUpKeepsReadyTask

\* What the restore has brought up stays until the row is closed.
LEMMA RestoreKeepsReady ==
    ASSUME FlowInv, ReadyTask, RestoreFile \/ \E f \in Families : RestoreIP(f)
    PROVE  ReadyRecord' /\ ReadyTask'
<1> DEFINE old == Snapshot.policy
<1>1. UNCHANGED <<journal, nft, tun, lost>> /\ task.step \in RestoreSteps
  BY RestoreFileEffect, RestoreIPEffect DEF kernel, others, history, RestoreSteps
<1>2. ReadyRecord'
  BY <1>1, WorkKeepsReadyRecord
<1>3. task \in Tasks
  BY DEF FlowInv, TypeOK
<1>4. ASSUME NEW next \in {"restore_ipv6", "restore_file", "mark_rolled_back"}, Passes(task, task', next),
             Carried(old, IF next = "restore_ipv6" THEN {"ipv4"} ELSE Families, tun, rules', tables', lost)
      PROVE  ReadyTask'
  <2>1. (task').step = next /\ (task').row = task.row
    BY <1>3, <1>4, PassesFacts
  <2>2. ReadyTaskOK(task', Entry, marker', nft', tun', rules', tables', lost')
    BY <1>1, <1>4, <2>1 DEF ReadyTaskOK, Entry, Snapshot
  <2> QED
    BY <1>1, <2>1, <2>2 DEF ReadyTask, Entry
<1>5. CASE RestoreFile
  <2>1. /\ task.step = "restore_file" /\ UNCHANGED <<rules, tables>>
        /\ Passes(task, task', "mark_rolled_back") \/ GivesUp(task, task')
    BY <1>5, RestoreFileEffect DEF kernel
  <2>2. Carried(old, Families, tun, rules', tables', lost)
    BY <2>1 DEF ReadyTask, ReadyTaskOK, Entry, Snapshot
  <2> QED
    BY <1>2, <1>3, <1>4, <2>1, <2>2, GaveUpKeepsReadyTask
<1>6. ASSUME NEW f \in Families, RestoreIP(f)
      PROVE  ReadyTask'
  <2>1. /\ \/ /\ task.step = "restore_ipv4" /\ Passes(task, task', "restore_ipv6") /\ f = "ipv4"
              /\ RoutesOf(old) \subseteq Devices \cap rules'[f] \cap tables'[f]
           \/ /\ task.step = "restore_ipv6" /\ Passes(task, task', "restore_file") /\ f = "ipv6"
              /\ RoutesOf(old) \subseteq Devices \cap rules'[f] \cap tables'[f]
           \/ GivesUp(task, task')
        /\ Grown(rules, rules', RoutesOf(old)) /\ Grown(tables, tables', RoutesOf(old))
    BY <1>6, RestoreIPEffect DEF old
  <2>2. \A g \in Families : rules[g] \subseteq rules'[g] /\ tables[g] \subseteq tables'[g]
    BY <2>1 DEF Grown
  <2>3. ASSUME old # Absent, old # {}, RoutesOf(old) \subseteq Devices
        PROVE  RoutesOf(old) = old /\ tun # Stopped /\ old \subseteq tun
    BY <2>3 DEF RoutesOf, Devices
  <2>4. CASE task.step = "restore_ipv4" /\ Passes(task, task', "restore_ipv6") /\ f = "ipv4"
             /\ RoutesOf(old) \subseteq Devices \cap rules'[f] \cap tables'[f]
    <3>1. Carried(old, {"ipv4"}, tun, rules', tables', lost)
      BY <2>3, <2>4 DEF Carried
    <3> QED
      BY <1>4, <2>4, <3>1
  <2>5. CASE task.step = "restore_ipv6" /\ Passes(task, task', "restore_file") /\ f = "ipv6"
             /\ RoutesOf(old) \subseteq Devices \cap rules'[f] \cap tables'[f]
    <3>1. Carried(old, {"ipv4"}, tun, rules, tables, lost)
      BY <2>5 DEF ReadyTask, ReadyTaskOK, Entry, Snapshot
    <3>2. Carried(old, Families, tun, rules', tables', lost)
      BY <2>2, <2>3, <2>5, <3>1 DEF Carried, Families
    <3> QED
      BY <1>4, <2>5, <3>2
  <2> QED
    BY <1>3, <2>1, <2>4, <2>5, GaveUpKeepsReadyTask
<1> QED
  BY <1>2, <1>5, <1>6

\* What a statement has to show.
LEMMA StatementKeepsReady ==
    ASSUME FlowInv, ReadyRecord, RowWork,
           NEW to, NEW detail, NEW ok \in RowSteps \cup {"succeed", "fail"},
           NEW bad \in {"fail", "roll_back", "mark_failed"}, ok \notin ReadyTaskSteps,
           Wrote(task, task', journal, journal', to, detail, ok, bad),
           UNCHANGED <<process, files, kernel, others>>,
           Moves(journal, journal', task.row, to, detail) /\ Entry.state = task.from =>
               \/ to \in MovingStates
               \/ Entry.state \notin MovingStates
               \/ marker # NoMarker \/ lost \/ InPlace(policy, nft, tun, rules, tables)
    PROVE  ReadyRecord' /\ ReadyTask'
<1>1. /\ UNCHANGED <<tracker, policy, marker, nft, tun, rules, tables, lost>> /\ task \in Tasks
      /\ (task').run \notin {"recovery", "reconcile"} => task.run \notin {"recovery", "reconcile"}
  BY RowWorkEnds DEF process, files, kernel, others, history, FlowInv, TypeOK
<1>2. ReadyTask'
  <2>1. ASSUME NEW u, u \in {Arrived(task, ok, to), After(task, bad)}
        PROVE  u.step \notin ReadyTaskSteps
    <3>1. CASE u = After(task, bad)
      BY <1>1, <3>1, GaveUpSteps, FreeReadySteps
    <3>2. CASE u = Arrived(task, ok, to) /\ ok \in RowSteps
      BY <1>1, <3>2, ArrivedSteps
    <3>3. CASE u = Arrived(task, ok, to) /\ ok \in {"succeed", "fail"}
      <4>1. u = After(task, ok)
        BY <3>3 DEF Arrived, Steps
      <4> QED
        BY <1>1, <3>3, <4>1, GaveUpSteps, FreeReadySteps
    <3> QED
      BY <2>1, <3>1, <3>2, <3>3
  <2>2. task' \in {Arrived(task, ok, to), After(task, bad)}
    BY DEF Wrote
  <2> QED
    BY <2>1, <2>2, ReadyTaskFree
<1>3. CASE journal' = journal
  BY <1>1, <1>2, <1>3, SameKeepsReadyRecord
<1>4. CASE Moves(journal, journal', task.row, to, detail) /\ Entry.state = task.from
  <2>1. /\ task.row \in DOMAIN journal /\ DOMAIN journal' = DOMAIN journal
        /\ (journal')[task.row].state = to
        /\ \A row \in DOMAIN journal \ {task.row} : (journal')[row] = journal[row]
    BY <1>4 DEF Moves
  <2>2. CASE to \in MovingStates
    <3>1. Moving(journal') # {}
      BY <2>1, <2>2 DEF Moving
    <3> QED
      BY <1>2, <3>1 DEF ReadyRecord, Ready
  <2>3. CASE Entry.state \notin MovingStates
    <3>1. Moving(journal') = {} => Moving(journal) = {}
      BY <2>1, <2>3 DEF Moving, Entry
    <3> QED
      BY <1>1, <1>2, <3>1, SameKeepsReadyRecord
  <2>4. CASE marker # NoMarker \/ lost \/ InPlace(policy, nft, tun, rules, tables)
    BY <1>1, <1>2, <2>4 DEF ReadyRecord, Ready
  <2> QED
    BY <1>4, <2>2, <2>3, <2>4
<1> QED
  BY <1>3, <1>4 DEF Wrote, Entry

LEMMA MarksKeepReady ==
    ASSUME FlowInv, FlowInv', Clean', ReadyRecord,
           \/ Validate \/ MarkApplying \/ MarkVerifying \/ RollBack \/ MarkRollingBack
           \/ MarkInterrupted \/ MarkFailed \/ MarkDamaged
    PROVE  ReadyRecord' /\ ReadyTask'
<1>1. /\ RowWork /\ {"succeed", "fail"} \cap ReadyTaskSteps = {}
      /\ {"PREPARED", "VALIDATED", "COMMITTED"} \cap MovingStates = {}
      /\ {"APPLYING", "VERIFYING", "ROLLING_BACK"} \subseteq MovingStates
  BY DEF RowWork, ReadyTaskSteps, MovingStates
<1>2. \A next \in {"mark_applying", "apply_nft", "activate_marker", "write_policy", "verify_bypass",
                   "remove_candidate", "bypass_policy", "restore_nft"} :
          next \in RowSteps /\ next \notin ReadyTaskSteps
  BY DEF RowSteps, ApplySteps, BypassSteps, RestoreSteps, MarkSteps, ReadyTaskSteps
<1>3. CASE Validate
  <2>1. /\ UNCHANGED <<process, files, kernel, others>> /\ task.from = "PREPARED"
        /\ \/ Wrote(task, task', journal, journal', "VALIDATED", "none", "mark_applying", "fail")
           \/ task' = After(task, "mark_failed") /\ journal' = journal
    BY <1>3, ValidateEffect
  <2>2. CASE Wrote(task, task', journal, journal', "VALIDATED", "none", "mark_applying", "fail")
    BY <1>1, <1>2, <2>1, <2>2, StatementKeepsReady
  <2>3. CASE task' = After(task, "mark_failed") /\ journal' = journal
    <3>1. Wrote(task, task', journal, journal', "VALIDATED", "none", "mark_applying", "mark_failed")
      BY <2>3 DEF Wrote
    <3> QED
      BY <1>1, <1>2, <2>1, <3>1, StatementKeepsReady
  <2> QED
    BY <2>1, <2>2, <2>3
<1>4. CASE MarkApplying
  <2>1. /\ UNCHANGED <<process, files, kernel, others>>
        /\ \E ok \in {"apply_nft", "activate_marker"} :
               Wrote(task, task', journal, journal', "APPLYING", "none", ok, "mark_failed")
    BY <1>4, MarkApplyingEffect
  <2> QED
    BY <1>1, <1>2, <2>1, StatementKeepsReady
<1>5. CASE MarkVerifying
  <2>1. /\ UNCHANGED <<process, files, kernel, others>>
        /\ \E ok \in {"write_policy", "verify_bypass"}, bad \in {"fail", "roll_back"} :
               Wrote(task, task', journal, journal', "VERIFYING", "none", ok, bad)
    BY <1>5, MarkVerifyingEffect
  <2> QED
    BY <1>1, <1>2, <2>1, StatementKeepsReady
<1>6. CASE RollBack
  <2>1. /\ UNCHANGED <<process, files, kernel, others>>
        /\ \E ok \in {"remove_candidate", "bypass_policy", "restore_nft"} :
               Wrote(task, task', journal, journal', "ROLLING_BACK", "interrupted", ok, "fail")
    BY <1>6, RollBackEffect DEF RestoreStep
  <2> QED
    BY <1>1, <1>2, <2>1, StatementKeepsReady
<1>7. CASE MarkRollingBack
  <2>1. /\ UNCHANGED <<process, files, kernel, others>>
        /\ \E ok \in {"remove_candidate", "restore_nft"} :
               Wrote(task, task', journal, journal', "ROLLING_BACK", "operator_requested", ok, "fail")
    BY <1>7, MarkRollingBackEffect
  <2> QED
    BY <1>1, <1>2, <2>1, StatementKeepsReady
<1>8. ASSUME task.from \in {"PREPARED", "VALIDATED"}, NEW ok \in {"succeed", "fail"}, NEW detail,
             Wrote(task, task', journal, journal', "FAILED", detail, ok, "fail"),
             UNCHANGED <<process, files, kernel, others>>
      PROVE  ReadyRecord' /\ ReadyTask'
  BY <1>1, <1>8, StatementKeepsReady
<1>9. ASSUME NEW detail \in GaveUpDetails,
             Wrote(task, task', journal, journal', "FAILED", detail, "fail", "fail"),
             UNCHANGED <<process, files, kernel, others>>
      PROVE  ReadyRecord' /\ ReadyTask'
  <2>1. ~Moves(journal, journal', task.row, "FAILED", detail)
    <3>1. \A row \in DOMAIN journal' : (journal')[row].detail \notin GaveUpDetails
      BY DEF Clean, Troubled, GaveUpDetails
    <3> QED
      BY <1>9, <3>1 DEF Moves
  <2> QED
    BY <1>1, <1>9, <2>1, StatementKeepsReady
<1>10. CASE MarkInterrupted
  BY <1>8, <1>10, MarkInterruptedEffect
<1>11. CASE MarkFailed
  <2>1. /\ task.from \in {"PREPARED", "VALIDATED", "ROLLING_BACK"}
        /\ Wrote(task, task', journal, journal', "FAILED",
                 IF task.from = "ROLLING_BACK" THEN "rollback_failed" ELSE "not_applied", "fail", "fail")
        /\ UNCHANGED <<process, files, kernel, others>>
    BY <1>11, MarkFailedEffect
  <2>2. CASE task.from = "ROLLING_BACK"
    BY <1>9, <2>1, <2>2 DEF GaveUpDetails
  <2>3. CASE task.from # "ROLLING_BACK"
    BY <1>8, <2>1, <2>3
  <2> QED
    BY <2>2, <2>3
<1>12. CASE MarkDamaged
  BY <1>9, <1>12, MarkDamagedEffect DEF GaveUpDetails
<1> QED
  BY <1>3, <1>4, <1>5, <1>6, <1>7, <1>10, <1>11, <1>12

\* A commit and the end of a restore leave what they have verified or brought up.
LEMMA EndsKeepReady ==
    ASSUME FlowInv, HostTask, ReadyRecord, ReadyTask, Commit \/ MarkRolledBack
    PROVE  ReadyRecord' /\ ReadyTask'
<1>1. RowWork /\ {"succeed", "fail"} \cap ReadyTaskSteps = {}
  BY DEF RowWork, ReadyTaskSteps
<1>2. CASE Commit
  <2>1. /\ task.step = "commit" /\ UNCHANGED <<process, files, kernel, others>>
        /\ \E bad \in {"fail", "roll_back"} :
               Wrote(task, task', journal, journal', "COMMITTED", "none", "succeed", bad)
    BY <1>2, CommitEffect
  <2>2. Entry.component = "apply" => policy = Entry.candidate
    BY <2>1 DEF HostTask, HostTaskOK, ApplyTaskOK, RowSteps, MarkSteps
  <2>3. marker # NoMarker \/ lost \/ InPlace(policy, nft, tun, rules, tables)
    BY <2>1, <2>2 DEF ReadyTask, ReadyTaskOK
  <2> QED
    BY <1>1, <2>1, <2>3, StatementKeepsReady
<1>3. CASE MarkRolledBack
  <2>1. /\ task.step = "mark_rolled_back" /\ UNCHANGED <<process, files, kernel, others>>
        /\ \E ok \in {"fail", "succeed"}, detail \in {"operator_requested", "interrupted"} :
               Wrote(task, task', journal, journal', "ROLLED_BACK", detail, ok, "fail")
    BY <1>3, MarkRolledBackEffect
  <2>2. /\ Carried(Entry.snapshot.policy, Families, tun, rules, tables, lost)
        /\ policy = Entry.snapshot.policy
        /\ RoutesOf(Entry.snapshot.policy) # {} => nft = Entry.snapshot.policy
    BY <2>1 DEF ReadyTask, ReadyTaskOK, HostTask, HostTaskOK, RestoreTaskOK, RowSteps, MarkSteps
  <2>3. lost \/ InPlace(policy, nft, tun, rules, tables)
    BY <2>2 DEF Carried, InPlace, RoutesOf
  <2> QED
    BY <1>1, <2>1, <2>3, StatementKeepsReady
<1> QED
  BY <1>2, <1>3

-------------------------------------------------------------------------------
(* Requests, recovery runs and the environment keep it too.                 *)

LEMMA RequestsKeepReady ==
    ASSUME FlowInv, ReadyRecord,
           \/ BypassRequested \/ RollbackRequested
           \/ \E document \in Documents : ApplyRequested(document)
    PROVE  ReadyRecord' /\ ReadyTask'
<1>1. /\ UNCHANGED <<tracker, policy, marker, nft, tun, rules, tables, lost>>
      /\ task.run = "none" /\ (task').step \notin ReadyTaskSteps
      /\ journal' = journal \/ \E e \in Entries : e.state = "PREPARED" /\ journal' = Append(journal, e)
  <2>1. IdleTask.step = "idle" /\ IdleTask.run = "none"
    BY DEF IdleTask
  <2>2. CASE BypassRequested
    BY <2>1, <2>2, BypassRequestedEffect
       DEF Began, Fresh, Idle, process, files, kernel, ReadyTaskSteps
  <2>3. CASE \E document \in Documents : ApplyRequested(document)
    BY <2>1, <2>3, ApplyRequestedEffect
       DEF Began, Fresh, Idle, process, files, kernel, ReadyTaskSteps
  <2>4. CASE RollbackRequested
    BY <2>1, <2>4, RollbackRequestedEffect
       DEF Idle, process, files, kernel, history, ReadyTaskSteps
  <2> QED
    BY <2>2, <2>3, <2>4
<1>2. Moving(journal') = Moving(journal)
  <2>1. ASSUME NEW e \in Entries, e.state = "PREPARED", journal' = Append(journal, e)
        PROVE  Moving(journal') = Moving(journal)
    <3>1. journal \in Seq(Entries) /\ "PREPARED" \notin MovingStates
      BY DEF FlowInv, TypeOK, MovingStates
    <3>2. /\ DOMAIN journal' = DOMAIN journal \cup {Len(journal) + 1}
          /\ (journal')[Len(journal) + 1] = e
          /\ \A row \in DOMAIN journal : (journal')[row] = journal[row]
      BY <2>1, <3>1, AppendFacts
    <3> QED
      BY <2>1, <3>1, <3>2 DEF Moving
  <2> QED
    BY <1>1, <2>1
<1> QED
  BY <1>1, <1>2, SameKeepsReadyRecord, ReadyTaskFree

LEMMA RecoveryKeepsReady ==
    ASSUME FlowInv, FinishInv, ReadyRecord,
           \/ Start \/ RecoveryRequested
           \/ NextOperation \/ JournalCheck \/ DeactivateMarker \/ Reconcile \/ FinishRecovery
    PROVE  ReadyRecord' /\ ReadyTask'
<1>1. IdleTask.step = "idle"
  BY DEF IdleTask
<1>2. CASE Start \/ RecoveryRequested
  BY <1>2, StartEffect, RecoveryRequestedEffect, RecoveringKeepsReady
<1>3. CASE JournalCheck \/ DeactivateMarker
  BY <1>1, <1>3, JournalCheckEffect, DeactivateMarkerEffect, RecoveringKeepsReady
<1>4. CASE NextOperation
  <2>1. /\ (task').run = "recovery" /\ (task').row \in UnfinishedRows(journal)
        /\ (task').step = RecoveryStep((task').row)
    BY <1>4, NextOperationEffect
  <2>2. (task').step \notin ReadyTaskSteps
    BY <2>1 DEF RecoveryStep, RestoreStep, ReadyTaskSteps
  <2> QED
    BY <2>1, <2>2, ReadyTaskFree DEF ReadyRecord, Ready
<1>5. CASE Reconcile
  <2>1. task.run = "recovery"
    BY <1>5, ReconcileEffect DEF FlowInv, FlowOK
  <2>2. CASE \E e \in Entries :
                 Began(task, task', journal, journal', overtook, overtook', e, singbox, "reconcile")
    BY <2>1, <2>2, RecoveringKeepsReady DEF Began
  <2> QED
    BY <1>1, <1>5, <2>2, ReconcileEffect, RecoveringKeepsReady
<1>6. CASE FinishRecovery
  <2>1. /\ task.step = "finish_recovery" /\ task' = IdleTask
        /\ UNCHANGED <<policy, marker, nft, tun, rules, tables, lost>>
        /\ tracker' = "succeeded" =>
               /\ ~task.erred
               /\ task.run = "recovery" \/ (task.run = "reconcile" /\ InForce(policy))
    BY <1>6, FinishRecoveryEffect DEF files, kernel, history
  <2>2. tracker' = "succeeded" => marker # NoMarker \/ policy = Absent \/ lost \/ InForce(policy)
    BY <2>1 DEF FinishInv
  <2>3. tracker' = "succeeded" /\ marker = NoMarker => lost \/ InPlace(policy, nft, tun, rules, tables)
    BY <2>2 DEF InForce, InPlace, Devices
  <2>4. ReadyRecord'
    BY <2>1, <2>3 DEF ReadyRecord, Ready
  <2> QED
    BY <1>1, <2>1, <2>4, FreeReadySteps, ReadyTaskFree
<1> QED
  BY <1>2, <1>3, <1>4, <1>5, <1>6

LEMMA EnvironmentKeepsReady ==
    ASSUME FlowInv, ReadyRecord, ReadyTask,
           Crash \/ Reboot \/ SingBoxRestarts \/ \E row \in DOMAIN journal : Tamper(row)
    PROVE  ReadyRecord' /\ ReadyTask'
<1>1. CASE Crash \/ Reboot
  <2>1. tracker' = "none" /\ task' = IdleTask /\ IdleTask.step = "idle"
    BY <1>1, StopEffect DEF IdleTask
  <2> QED
    BY <2>1, FreeReadySteps, ReadyTaskFree DEF ReadyRecord, Ready
<1>2. CASE SingBoxRestarts
  <2>1. lost' = TRUE /\ UNCHANGED <<task, journal, marker, nft, rules>>
    BY <1>2, SingBoxRestartsEffect DEF files
  <2>2. ReadyRecord'
    BY <2>1 DEF ReadyRecord, Ready
  <2>3. ReadyTask'
    BY <2>1 DEF ReadyTask, ReadyTaskOK, Carried, Entry
  <2> QED
    BY <2>2, <2>3
<1>3. ASSUME NEW row \in DOMAIN journal, Tamper(row)
      PROVE  ReadyRecord' /\ ReadyTask'
  <2>1. Alike(journal, journal')
        /\ UNCHANGED <<tracker, task, policy, marker, nft, tun, rules, tables, lost>>
    BY <1>3, TamperEffect DEF process, files, kernel, others, history
  <2>2. Moving(journal') = Moving(journal)
    BY <2>1 DEF Alike, Moving
  <2>3. ReadyRecord'
    BY <2>1, <2>2, SameKeepsReadyRecord
  <2>4. CASE task.step \in ReadyTaskSteps
    <3>1. task.row \in DOMAIN journal
      BY <2>4, RowTypes DEF ReadyTaskSteps, RowSteps, RestoreSteps, MarkSteps
    <3>2. /\ (journal')[task.row].component = journal[task.row].component
          /\ (journal')[task.row].snapshot = journal[task.row].snapshot
          /\ (journal')[task.row].candidate = journal[task.row].candidate
      BY <2>1, <3>1 DEF Alike
    <3> HIDE DEF Carried, InPlace
    <3>3. ReadyTask'
      BY <2>1, <3>2 DEF ReadyTask, ReadyTaskOK, Entry
    <3> QED
      BY <2>3, <3>3
  <2>5. CASE task.step \notin ReadyTaskSteps
    BY <2>1, <2>3, <2>5, ReadyTaskFree
  <2> QED
    BY <2>4, <2>5
<1> QED
  BY <1>1, <1>2, <1>3

LEMMA ReadyStep ==
    ASSUME FlowInv, FinishInv, BypassInv, HostInv, ReadyInv, [Next]_vars
    PROVE  ReadyInv'
<1>1. SUFFICES ASSUME Clean' PROVE ReadyRecord' /\ ReadyTask'
  BY DEF ReadyInv
<1>2. FlowInv'
  BY FlowStep
<1>3. Clean
  BY <1>1, <1>2, CleanWas
<1>4. BypassRecord /\ HostRecord /\ HostTask /\ ReadyRecord /\ ReadyTask
  BY <1>3, CleanFacts DEF BypassInv, HostInv, ReadyInv
<1>5. CASE UNCHANGED vars
  BY <1>4, <1>5
     DEF vars, process, files, kernel, history, ReadyRecord, Ready, ReadyTask, ReadyTaskOK, Entry
<1>6. CASE \/ ApplyNFT \/ InstallSingBox \/ RestartSingBox \/ RemovePrevious \/ WritePolicy
           \/ ActivateMarker \/ BypassPolicy \/ BypassNFT \/ VerifyBypass
           \/ RemoveCandidate \/ RestoreSingBox \/ RestoreService \/ RestoreNFT
           \/ \E f \in Families : AddIP(f)
  BY <1>3, <1>4, <1>6, WorkKeepsReady
<1>7. CASE RestoreFile \/ \E f \in Families : RestoreIP(f)
  BY <1>4, <1>7, RestoreKeepsReady
<1>8. CASE \/ Validate \/ MarkApplying \/ MarkVerifying \/ RollBack \/ MarkRollingBack
           \/ MarkInterrupted \/ MarkFailed \/ MarkDamaged
  BY <1>1, <1>2, <1>4, <1>8, MarksKeepReady
<1>9. CASE Commit \/ MarkRolledBack
  BY <1>4, <1>9, EndsKeepReady
<1>10. CASE \/ BypassRequested \/ RollbackRequested
            \/ \E document \in Documents : ApplyRequested(document)
  BY <1>4, <1>10, RequestsKeepReady
<1>11. CASE \/ Start \/ RecoveryRequested
            \/ NextOperation \/ JournalCheck \/ DeactivateMarker \/ Reconcile \/ FinishRecovery
  BY <1>4, <1>11, RecoveryKeepsReady
<1>12. CASE Crash \/ Reboot \/ SingBoxRestarts \/ \E row \in DOMAIN journal : Tamper(row)
  BY <1>4, <1>12, EnvironmentKeepsReady
<1> QED
  BY <1>5, <1>6, <1>7, <1>8, <1>9, <1>10, <1>11, <1>12 DEF Next, Work

LEMMA ReadyInit == ASSUME Init PROVE ReadyInv
  BY DEF Init, IdleTask, ReadyInv, ReadyRecord, Ready, ReadyTask, ReadyTaskOK

\* With the daemon ready, nothing at work and no bypass active, the applied document is
\* in force unless sing-box restarted by itself.
THEOREM ReadyHolds == Spec => []ReadyInv
  BY ReadyInit, ReadyStep, FlowHolds, FinishHolds, BypassHolds, HostHolds, PTL DEF Spec

-------------------------------------------------------------------------------
(* Settled routing.                                                         *)

\* A set of rows has one newest row.
LEMMA NewestRow ==
    ASSUME NEW rows \in SUBSET Nat, NEW top \in rows, \A other \in rows : other <= top
    PROVE  (CHOOSE row \in rows : \A other \in rows : other <= row) = top
<1> DEFINE newest == CHOOSE row \in rows : \A other \in rows : other <= row
<1>1. newest \in rows /\ \A other \in rows : other <= newest
  OBVIOUS
<1> HIDE DEF newest
<1>2. newest <= top /\ top <= newest /\ newest \in Nat /\ top \in Nat
  BY <1>1
<1>3. newest = top
  BY <1>2
<1> QED
  BY <1>3 DEF newest

LEMMA SettledFacts ==
    ASSUME FlowInv, HostInv, CommitInv, ReadyInv,
           Gate, task = IdleTask, marker = NoMarker, ~lost, Clean
    PROVE  /\ RestOK(singbox, policy, nft, rules)
           /\ Expects(journal, ApplyCommits(journal), policy)
           /\ InPlace(policy, nft, tun, rules, tables)
<1>1. Moving(journal) = {} /\ AtWork(journal) = {}
  BY DEF Gate, UnfinishedRows, FinishedStates, Moving, MovingStates, AtWork
<1>2. Ready
  BY <1>1 DEF Ready, Gate, IdleTask
<1> QED
  BY <1>1, <1>2, RestFacts DEF HostInv, CommitInv, CommitOK, ReadyInv, ReadyRecord

\* While the daemon is ready and nothing is in flight, the files hold the document of the
\* newest commit and exactly that is in force, whatever applies, bypasses, rollbacks,
\* crashes and recoveries came before.
THEOREM SettledRoutingHolds == Spec => []SettledRouting
<1> DEFINE commits == {row \in DOMAIN journal :
                          journal[row].component = "apply" /\ journal[row].state = "COMMITTED"}
           newest == CHOOSE row \in commits : \A other \in commits : other <= row
<1>1. commits = ApplyCommits(journal)
  BY DEF ApplyCommits
<1>2. ASSUME FlowInv, HostInv, CommitInv, ReadyInv
      PROVE  SettledRouting
  <2>1. SUFFICES ASSUME Gate, task = IdleTask, marker = NoMarker, ~lost, Clean
                 PROVE  IF commits = {}
                        THEN /\ policy = Absent /\ singbox = Absent /\ nft = Absent
                             /\ \A f \in Families : rules[f] = {}
                        ELSE /\ policy = journal[newest].candidate /\ singbox = policy
                             /\ policy # {} => InForce(policy)
                             /\ \A f \in Families : rules[f] = policy
    BY DEF SettledRouting, Clean
  <2>2. /\ singbox = policy /\ nft \in {policy, Absent} /\ Within(rules, RoutesOf(policy))
        /\ Expects(journal, commits, policy)
        /\ InPlace(policy, nft, tun, rules, tables)
    BY <1>1, <1>2, <2>1, SettledFacts DEF RestOK
  <2> HIDE DEF newest
  <2>3. CASE commits = {}
    BY <2>2, <2>3 DEF Expects, Within, RoutesOf
  <2>4. CASE commits # {}
    <3>1. PICK top \in commits : (\A other \in commits : other <= top) /\ policy = journal[top].candidate
      BY <2>2, <2>4 DEF Expects
    <3>2. commits \in SUBSET Nat
      BY <1>2 DEF FlowInv, TypeOK
    <3>3. newest = top
      BY <3>1, <3>2, NewestRow DEF newest
    <3>4. policy # Absent /\ RoutesOf(policy) = policy
      BY <1>2, <3>1, RoutingAssumption DEF FlowInv, JournalOK, RoutesOf
    <3>5. policy # {} => InForce(policy)
      BY <2>2, <3>4 DEF InPlace, InForce, Devices
    <3>6. \A f \in Families : rules[f] \subseteq policy /\ policy \subseteq rules[f]
      BY <2>2, <3>4 DEF Within, InPlace
    <3> HIDE DEF commits
    <3> QED
      BY <2>2, <2>4, <3>1, <3>3, <3>5, <3>6
  <2> QED
    BY <2>3, <2>4
<1> QED
  BY <1>2, FlowHolds, HostHolds, CommitHolds, ReadyHolds, PTL

-------------------------------------------------------------------------------
(* The bypass and the startup.                                              *)

StartupUnderBypass ==
    /\ task.run = "recovery" /\ ~task.resume
    /\ marker # NoMarker /\ journal[marker].state = "COMMITTED"

\* What StartupKeepsBypass asks of a step, for a journal without overtaking.
BypassOutlastsStartup ==
    [][overtook = {} /\ StartupUnderBypass =>
           /\ nft' \in {nft, Absent}
           /\ \A f \in Families : rules'[f] \subseteq rules[f]]_vars

\* Under the marker of a committed bypass no apply is at work and nothing is restored.
LEMMA CommittedBypassFacts ==
    ASSUME FlowInv, BypassRecord, BypassTask,
           marker # NoMarker, journal[marker].state = "COMMITTED"
    PROVE  task.step \notin ApplySteps \cup RestoreSteps
<1>1. SUFFICES ASSUME task.step \in ApplySteps \cup RestoreSteps PROVE FALSE
  OBVIOUS
<1>2. /\ task.row \in DOMAIN journal /\ journal[task.row].state \in MovingStates
      /\ task.step \in ApplySteps => Entry.component = "apply"
  BY <1>1, HostStepsMove DEF Entry
<1>3. task.row # marker
  BY <1>2 DEF MovingStates
<1>4. Entry.component = "apply" => marker = NoMarker
  BY <1>2, OneAtWork DEF BypassRecord, BypassRecordOK, Entry
<1>5. task.step \in RestoreSteps => Entry.component = "apply" \/ marker \in {NoMarker, task.row}
  BY DEF BypassTask, BypassTaskOK, Entry
<1> QED
  BY <1>1, <1>2, <1>3, <1>4, <1>5

LEMMA StartupStep ==
    ASSUME FlowInv, BypassInv, overtook = {}, StartupUnderBypass, Next
    PROVE  nft' \in {nft, Absent} /\ \A f \in Families : rules'[f] \subseteq rules[f]
<1>1. task.step \notin ApplySteps \cup RestoreSteps
  BY CommittedBypassFacts DEF BypassInv, StartupUnderBypass
<1>2. CASE \/ ApplyNFT \/ InstallSingBox \/ RestartSingBox \/ RemovePrevious \/ WritePolicy
           \/ \E f \in Families : AddIP(f)
  <2>1. task.step \in ApplySteps
    BY <1>2, ApplyNFTEffect, InstallSingBoxEffect, RestartSingBoxEffect, RemovePreviousEffect,
       WritePolicyEffect, AddIPEffect DEF ApplySteps
  <2> QED
    BY <1>1, <2>1
<1>3. CASE \/ RemoveCandidate \/ RestoreSingBox \/ RestoreService \/ RestoreNFT \/ RestoreFile
           \/ \E f \in Families : RestoreIP(f)
  <2>1. task.step \in ApplySteps \cup RestoreSteps
    BY <1>3, RemoveCandidateEffect, RestoreSingBoxEffect, RestoreServiceEffect, RestoreNFTEffect,
       RestoreFileEffect, RestoreIPEffect DEF ApplySteps, RestoreSteps
  <2> QED
    BY <1>1, <2>1
<1>4. CASE ActivateMarker \/ BypassPolicy \/ BypassNFT \/ VerifyBypass
  BY <1>4, ActivateMarkerEffect, BypassPolicyEffect, BypassNFTEffect, VerifyBypassEffect
     DEF kernel, Shrunk
<1>5. CASE \/ Validate \/ MarkApplying \/ MarkVerifying \/ Commit \/ MarkFailed \/ RollBack
           \/ MarkRolledBack \/ MarkRollingBack \/ MarkInterrupted \/ MarkDamaged
  BY <1>5 DEF Validate, MarkApplying, MarkVerifying, Commit, MarkFailed, RollBack, MarkRolledBack,
              MarkRollingBack, MarkInterrupted, MarkDamaged, kernel
<1>6. CASE NextOperation \/ JournalCheck \/ DeactivateMarker \/ Reconcile \/ FinishRecovery
  BY <1>6 DEF NextOperation, JournalCheck, DeactivateMarker, Reconcile, FinishRecovery, kernel
<1>7. CASE \/ BypassRequested \/ RollbackRequested \/ Start \/ RecoveryRequested
           \/ \E document \in Documents : ApplyRequested(document)
  BY <1>7 DEF BypassRequested, RollbackRequested, Start, RecoveryRequested, ApplyRequested, kernel
<1>8. CASE Crash \/ Reboot
  BY <1>8, StopEffect DEF kernel
<1>9. CASE SingBoxRestarts \/ \E row \in DOMAIN journal : Tamper(row)
  BY <1>9 DEF SingBoxRestarts, Tamper, kernel
<1> QED
  BY <1>2, <1>3, <1>4, <1>5, <1>6, <1>7, <1>8, <1>9 DEF Next, Work

\* Startup recovery completes an interrupted bypass and reactivates nothing while the
\* marker of a committed bypass is there, as docs/adr/0004 promises, unless an operation
\* was begun over an unfinished one: the overtaking is all that breaks the promise.
THEOREM BypassOutlasts == Spec => BypassOutlastsStartup
<1>1. FlowInv /\ BypassInv /\ [Next]_vars =>
          [overtook = {} /\ StartupUnderBypass =>
               /\ nft' \in {nft, Absent}
               /\ \A f \in Families : rules'[f] \subseteq rules[f]]_vars
  BY StartupStep
<1> QED
  BY <1>1, FlowHolds, BypassHolds, PTL DEF Spec, BypassOutlastsStartup

===============================================================================
