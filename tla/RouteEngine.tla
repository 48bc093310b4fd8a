------------------------------ MODULE RouteEngine ------------------------------
(***************************************************************************)
(* The route engine of egressd: policy routing as one journaled            *)
(* transaction over the leak-control table of nftables, the sing-box       *)
(* configuration with its TUN devices, the policy rules and routes of two  *)
(* address families and the applied-routing file; the emergency bypass;    *)
(* manual rollback of both; and the recovery run that resolves interrupted *)
(* operations and reconciles the applied state.                            *)
(*                                                                         *)
(* Every caller holds the host mutation lock, whose mutual exclusion       *)
(* HostTransaction shows, so one task at a time works here.  A task may be *)
(* killed in front of every action: an action is one journal write or one  *)
(* command, with the checks that precede it.                               *)
(*                                                                         *)
(* A routing document is the set of routes it enables.  All routes leave   *)
(* through sing-box TUN devices, follow the outbound in both families and  *)
(* have the kill switch on.                                                *)
(***************************************************************************)
EXTENDS OperationJournal, FiniteSets

CONSTANTS
    Routes,          \* policy routes, each with its own table, priority and TUN
    Documents,       \* the routing documents a review may propose
    Absent,          \* a file or the nftables table does not exist
    Stopped,         \* the sing-box service does not run
    MaxOperations,   \* bound on the operations of clients
    MaxRecoveries,   \* bound on manual recovery runs
    MaxFaults,       \* bound on environment faults
    MaxCrashes       \* bound on daemon crashes and reboots

ASSUME RoutingAssumption ==
    /\ Documents \subseteq SUBSET Routes
    /\ \A set \in SUBSET Routes : set # Absent /\ set # Stopped
    /\ IsFiniteSet(Routes)
    /\ {MaxOperations, MaxRecoveries, MaxFaults, MaxCrashes} \subseteq Nat

Families == {"ipv4", "ipv6"}
Owned == {Absent} \cup SUBSET Routes
NoMarker == 0

VARIABLES
    up,          \* egressd runs
    tracker,     \* reliability.Tracker: outcome of this process' last recovery run
    task,        \* the goroutine that holds the host mutation lock
    journal,     \* operation_journal; candidate is the routing document
    singbox,     \* the sing-box configuration file: the TUNs it declares
    policy,      \* the applied-routing file
    marker,      \* the bypass marker: row of the bypass that wrote it, or NoMarker
    nft,         \* the table inet egm_egress: the routes it protects
    tun,         \* the running sing-box: its TUN devices, or Stopped
    rules,       \* rules[f]: routes whose policy rule is installed
    tables,      \* tables[f]: routes whose routing table has its default route
    recoveries, faults, crashes,
    lost,        \* history: sing-box restarted by itself since the routing was last
                 \* verified or a recovery run began
    overtook     \* history: rows begun while an earlier one was unfinished

files == <<singbox, policy, marker>>
kernel == <<nft, tun, rules, tables>>
process == <<up, tracker>>
counters == <<recoveries, faults, crashes>>
history == <<lost, overtook>>
others == <<recoveries, crashes, history>>
vars == <<process, task, journal, files, kernel, counters, history>>

Snapshots == [singbox : Owned, policy : Owned, nft : Owned, marker : Nat]

Entries == [id : Nat, component : {"apply", "bypass"}, state : TransactionStates,
            snapshot : Snapshots, candidate : Owned, detail : Details,
            damage : {"none", "unreadable"}]

Steps ==
    {"idle", "validate", "mark_applying", "apply_nft", "install_singbox",
     "restart_singbox", "remove_previous", "add_ipv4", "add_ipv6", "mark_verifying",
     "write_policy", "commit", "activate_marker", "bypass_policy", "bypass_nft",
     "verify_bypass", "roll_back", "mark_rolling_back", "remove_candidate",
     "restore_singbox", "restore_service", "restore_nft", "restore_ipv4",
     "restore_ipv6", "restore_file", "mark_rolled_back", "mark_failed",
     "mark_interrupted", "mark_damaged", "next_operation", "journal_check",
     "deactivate_marker", "reconcile", "finish_recovery"}

Runs == {"none", "client", "rollback", "recovery", "reconcile"}

\* run: what the task executes for; from: the state it believes its row is in;
\* config: the sing-box candidate of its plan; queue: rows Recover still has to
\* resolve; resume: a manual recovery, which leaves the bypass.
Tasks == [run : Runs, step : Steps, row : Nat, from : TransactionStates,
          config : Owned, queue : SUBSET Nat, erred : BOOLEAN, resume : BOOLEAN]

IdleTask == [run |-> "none", step |-> "idle", row |-> 0, from |-> "PREPARED",
             config |-> Absent, queue |-> {}, erred |-> FALSE, resume |-> FALSE]

TypeOK ==
    /\ up \in BOOLEAN
    /\ tracker \in {"none", "succeeded", "failed"}
    /\ task \in Tasks
    /\ journal \in Seq(Entries)
    /\ singbox \in Owned /\ policy \in Owned /\ nft \in Owned
    /\ marker \in Nat
    /\ tun \in {Stopped} \cup (Owned \ {Absent})
    /\ rules \in [Families -> SUBSET Routes]
    /\ tables \in [Families -> SUBSET Routes]
    /\ recoveries \in 0..MaxRecoveries
    /\ faults \in 0..MaxFaults
    /\ crashes \in 0..MaxCrashes
    /\ lost \in BOOLEAN
    /\ overtook \subseteq DOMAIN journal

Init ==
    /\ up = FALSE /\ tracker = "none" /\ task = IdleTask
    /\ journal = << >>
    /\ singbox = Absent /\ policy = Absent /\ marker = NoMarker
    /\ nft = Absent /\ tun = Stopped
    /\ rules = [f \in Families |-> {}] /\ tables = [f \in Families |-> {}]
    /\ recoveries = 0 /\ faults = 0 /\ crashes = 0
    /\ lost = FALSE /\ overtook = {}

-------------------------------------------------------------------------------
(* Helpers of the steps.                                                   *)

Fault == faults < MaxFaults /\ faults' = faults + 1

Entry == journal[task.row]
Snapshot == Entry.snapshot
Candidate == Entry.candidate

\* routing.ParseState of an absent file has no routes.
RoutesOf(document) == IF document = Absent THEN {} ELSE document
Devices == IF tun = Stopped THEN {} ELSE tun

Goto(step) == task' = [task EXCEPT !.step = step]

\* Execute, Recover's treatment of one row, or RollbackCommitted returns.
Return(ok) ==
    task' = CASE task.run = "recovery"  -> [task EXCEPT !.step = "next_operation",
                                                        !.erred = @ \/ ~ok]
              [] task.run = "reconcile" -> [task EXCEPT !.step = "finish_recovery",
                                                        !.erred = ~ok]
              [] OTHER                  -> IdleTask

Proceed(step) ==
    CASE step = "succeed" -> Return(TRUE)
      [] step = "fail"    -> Return(FALSE)
      [] OTHER            -> Goto(step)

\* One TransitionOperation from the state the task believes in: it succeeds, it
\* conflicts, or it reports an error whether or not SQLite committed it.
Transition(to, detail, onSuccess, onError) ==
    LET applies == TransitionApplies(journal, task.row, task.from, to)
        written == Transitioned(journal, task.row, task.from, to, detail)
    IN  \/ /\ applies
           /\ journal' = written
           /\ IF onSuccess \in Steps
              THEN task' = [task EXCEPT !.step = onSuccess, !.from = to]
              ELSE Proceed(onSuccess)
           /\ UNCHANGED faults
        \/ ~applies /\ Proceed(onError) /\ UNCHANGED <<journal, faults>>
        \/ Fault /\ journal' \in {journal, written} /\ Proceed(onError)

\* Faulty variant: only the IPv4 half is removed and verified.
RemoveOwnedIPv4(set, onSuccess, OnError) ==
    /\ rules' = [rules EXCEPT !["ipv4"] = @ \ set]
    /\ tables' = [tables EXCEPT !["ipv4"] = @ \ set]
    /\ Goto(onSuccess)
    /\ UNCHANGED faults

\* removeOwnedIP: errors of the deletions are ignored; what counts is that
\* verifyOwnedIPAbsent then finds nothing owned by these routes.
RemoveOwnedIP(set, onSuccess, OnError) ==
    \/ /\ rules' = [f \in Families |-> rules[f] \ set]
       /\ tables' = [f \in Families |-> tables[f] \ set]
       /\ Goto(onSuccess)
       /\ UNCHANGED faults
    \/ /\ Fault
       /\ \E gone \in SUBSET (Families \X set) :
              /\ rules' = [f \in Families |-> {r \in rules[f] : <<f, r>> \notin gone}]
              /\ tables' = [f \in Families |-> {r \in tables[f] : <<f, r>> \notin gone}]
       /\ OnError

\* ip -batch: per route "route replace ... dev <TUN>", then "rule add".  It
\* stops at the first line that fails, and adding a rule that is there fails
\* (File exists), as does a route over a device that is not.
IPBatch(f, set, onSuccess, OnError) ==
    LET possible == set \cap rules[f] = {} /\ set \subseteq Devices
    IN  \/ /\ possible
           /\ rules' = [rules EXCEPT ![f] = @ \cup set]
           /\ tables' = [tables EXCEPT ![f] = @ \cup set]
           /\ Goto(onSuccess)
           /\ UNCHANGED faults
        \/ /\ IF possible THEN Fault ELSE UNCHANGED faults
           /\ \E done \in SUBSET (set \cap Devices) :
                  /\ rules' = [rules EXCEPT ![f] = @ \cup done]
                  /\ tables' = [tables EXCEPT ![f] = @ \cup done]
           /\ OnError

\* The TUN devices die with the process, and the kernel drops the default
\* routes of their tables with them; the policy rules stay.
ServiceBecomes(state) ==
    /\ tun' = state
    /\ tables' = [f \in Families |-> {}]

\* Faulty variant: the service is restarted whether or not it has a configuration.
RestartedService(config) == config

\* systemctl restart, or stop for an absent configuration.
CommandedService(config) == IF config = Absent THEN Stopped ELSE config

ServiceCommand(config, onSuccess, OnError) ==
    \/ /\ ServiceBecomes(CommandedService(config))
       /\ Goto(onSuccess)
       /\ UNCHANGED faults
    \/ /\ Fault
       /\ \/ UNCHANGED <<tun, tables>>
          \/ ServiceBecomes(Stopped)
          \/ ServiceBecomes(CommandedService(config))
       /\ OnError

\* Replacing or removing a file: an error may leave either content.
Replaced(old, new, onSuccess, OnError, final) ==
    \/ final = new /\ Goto(onSuccess) /\ UNCHANGED faults
    \/ Fault /\ final \in {old, new} /\ OnError

-------------------------------------------------------------------------------
(* What the code checks.                                                   *)

\* VerifyRuntime of the document's runtime: the table's expressions, the TUN
\* devices of the active service, one rule and one table per route and family.
InForce(document) ==
    /\ tun # Stopped /\ document \subseteq Devices
    /\ nft = document
    /\ \A f \in Families : document \subseteq rules[f] /\ document \subseteq tables[f]

\* verifyBypass.
Off(document) ==
    /\ marker # NoMarker
    /\ nft = Absent
    /\ \A f \in Families : document \cap rules[f] = {} /\ document \cap tables[f] = {}

\* BuildAppliedPlan: the applied files are there and agree on how many routes
\* use sing-box.
AppliedPlanExists ==
    /\ policy # Absent /\ singbox # Absent
    /\ Cardinality(singbox) = Cardinality(policy)

\* Tracker.Ready and no unfinished operation, under the lock.
Gate == tracker = "succeeded" /\ UnfinishedRows(journal) = {}

Idle == up /\ tracker # "none" /\ task = IdleTask

-------------------------------------------------------------------------------
(* Execute.                                                                *)

\* CreateOperation with the protected snapshot; an error of the statement ends
\* the request whether or not the row is there.
Begin(component, document, config, run) ==
    LET snapshot == [singbox |-> singbox, policy |-> policy, nft |-> nft, marker |-> marker]
        created == Created(journal, Len(journal) + 1, component, snapshot, document)
    IN  \/ /\ journal' = created
           /\ task' = [IdleTask EXCEPT !.run = run, !.step = "validate",
                                       !.row = Len(created), !.config = config,
                                       !.resume = task.resume]
           /\ overtook' = IF UnfinishedRows(journal) = {} THEN overtook
                          ELSE overtook \cup {Len(created)}
           /\ UNCHANGED faults
        \/ /\ Fault
           /\ journal' \in {journal, created}
           /\ UNCHANGED overtook
           /\ task' = IF run = "reconcile"
                      THEN [task EXCEPT !.step = "finish_recovery", !.erred = TRUE]
                      ELSE IdleTask

\* An apply request passes the gate, no bypass is active and every reviewed hash
\* still matches: the candidate is what the database and the current files give.
ApplyRequested(document) ==
    /\ Idle /\ Gate /\ marker = NoMarker
    /\ Len(journal) < MaxOperations
    /\ Begin("apply", document, document, "client")
    /\ UNCHANGED <<process, files, kernel, recoveries, crashes, lost>>

\* The bypass handler takes the lock and does not ask the gate.  A bypass that
\* is active and verifies is answered without an operation.
BypassRequested ==
    /\ Idle
    /\ ~Off(RoutesOf(policy))
    /\ Len(journal) < MaxOperations
    /\ Begin("bypass", Absent, Absent, "client")
    /\ UNCHANGED <<process, files, kernel, recoveries, crashes, lost>>

\* Native checks of the candidates, then PREPARED -> VALIDATED.
Validate ==
    /\ task.step = "validate"
    /\ \/ Transition("VALIDATED", "none", "mark_applying", "fail")
       \/ Fault /\ Goto("mark_failed") /\ UNCHANGED journal
    /\ UNCHANGED <<process, files, kernel, others>>

MarkApplying ==
    /\ task.step = "mark_applying"
    /\ Transition("APPLYING", "none",
                  IF Entry.component = "apply" THEN "apply_nft" ELSE "activate_marker",
                  "mark_failed")
    /\ UNCHANGED <<process, files, kernel, others>>

\* One nft transaction deletes the old table and adds the new one.
ApplyNFT ==
    /\ task.step = "apply_nft"
    /\ Replaced(nft, Candidate, "install_singbox", Goto("roll_back"), nft')
    /\ UNCHANGED <<process, journal, files, tun, rules, tables, others>>

InstallSingBox ==
    /\ task.step = "install_singbox"
    /\ Replaced(singbox, task.config, "restart_singbox", Goto("roll_back"), singbox')
    /\ UNCHANGED <<process, journal, policy, marker, kernel, others>>

RestartSingBox ==
    /\ task.step = "restart_singbox"
    /\ ServiceCommand(task.config, "remove_previous", Goto("roll_back"))
    /\ UNCHANGED <<process, journal, files, nft, rules, others>>

\* verifyTUNs, then the first half of replaceIP.
RemovePrevious ==
    /\ task.step = "remove_previous"
    /\ IF Candidate \subseteq Devices
       THEN RemoveOwnedIP(RoutesOf(Snapshot.policy), "add_ipv4", Goto("roll_back"))
       ELSE Goto("roll_back") /\ UNCHANGED <<rules, tables, faults>>
    /\ UNCHANGED <<process, journal, files, nft, tun, others>>

AddIP(f) ==
    /\ task.step = IF f = "ipv4" THEN "add_ipv4" ELSE "add_ipv6"
    /\ IPBatch(f, Candidate, IF f = "ipv4" THEN "add_ipv6" ELSE "mark_verifying",
               Goto("roll_back"))
    /\ UNCHANGED <<process, journal, files, nft, tun, others>>

MarkVerifying ==
    /\ task.step = "mark_verifying"
    /\ Transition("VERIFYING", "none",
                  IF Entry.component = "apply" THEN "write_policy" ELSE "verify_bypass",
                  IF task.run = "recovery" THEN "fail" ELSE "roll_back")
    /\ UNCHANGED <<process, files, kernel, others>>

\* verify, then the applied-routing file is replaced.
WritePolicy ==
    /\ task.step = "write_policy"
    /\ \/ /\ InForce(Candidate)
          /\ Replaced(policy, Candidate, "commit", Goto("roll_back"), policy')
          /\ lost' = FALSE /\ UNCHANGED overtook
       \/ /\ ~InForce(Candidate)
          /\ Goto("roll_back")
          /\ UNCHANGED <<policy, faults, history>>
    /\ UNCHANGED <<process, journal, singbox, marker, kernel, recoveries, crashes>>

Commit ==
    /\ task.step = "commit"
    /\ Transition("COMMITTED", "none", "succeed",
                  IF task.run = "recovery" THEN "fail" ELSE "roll_back")
    /\ UNCHANGED <<process, files, kernel, others>>

MarkFailed ==
    /\ task.step = "mark_failed"
    /\ Transition("FAILED", IF task.from = "ROLLING_BACK" THEN "rollback_failed" ELSE "not_applied",
                  "fail", "fail")
    /\ UNCHANGED <<process, files, kernel, others>>

-------------------------------------------------------------------------------
(* Bypass: applyBypass and verifyBypass, going forward in Bypass and in     *)
(* recovery, or going back to the bypass that was active before.           *)

BypassError ==
    IF task.from = "ROLLING_BACK" THEN Goto("mark_failed")
    ELSE IF task.run = "recovery" THEN Return(FALSE)
    ELSE Goto("roll_back")

\* Bypass keeps the marker of an earlier bypass; recovery writes its own.
ActivateMarker ==
    /\ task.step = "activate_marker"
    /\ IF Snapshot.marker # NoMarker /\ task.run # "recovery"
       THEN Goto("bypass_policy") /\ UNCHANGED <<marker, faults>>
       ELSE Replaced(marker, task.row, "bypass_policy", BypassError, marker')
    /\ UNCHANGED <<process, journal, singbox, policy, kernel, others>>

BypassPolicy ==
    /\ task.step = "bypass_policy"
    /\ RemoveOwnedIP(RoutesOf(Snapshot.policy), "bypass_nft", BypassError)
    /\ UNCHANGED <<process, journal, files, nft, tun, others>>

BypassNFT ==
    /\ task.step = "bypass_nft"
    /\ Replaced(nft, Absent, IF task.from = "APPLYING" THEN "mark_verifying" ELSE "verify_bypass",
                BypassError, nft')
    /\ UNCHANGED <<process, journal, files, tun, rules, tables, others>>

VerifyBypass ==
    /\ task.step = "verify_bypass"
    /\ \/ /\ Off(RoutesOf(Snapshot.policy))
          /\ Goto(IF task.from = "ROLLING_BACK" THEN "mark_rolled_back" ELSE "commit")
          /\ UNCHANGED faults
       \/ ~Off(RoutesOf(Snapshot.policy)) /\ BypassError /\ UNCHANGED faults
       \/ Fault /\ BypassError
    /\ UNCHANGED <<process, journal, files, kernel, others>>

-------------------------------------------------------------------------------
(* Rolling back: a failing Execute or Bypass, Recover, RollbackCommitted.  *)

\* Where the restore of a row begins, by its kind.
RestoreStep(row) ==
    IF journal[row].component = "apply" THEN "remove_candidate"
    ELSE IF journal[row].snapshot.marker # NoMarker THEN "bypass_policy"
    ELSE "restore_nft"

RollBack ==
    /\ task.step = "roll_back"
    /\ Transition("ROLLING_BACK", "interrupted", RestoreStep(task.row), "fail")
    /\ UNCHANGED <<process, files, kernel, others>>

\* RollbackCommitted returns and leaves ROLLING_BACK to recovery; the others
\* finish the operation as FAILED.
RestoreError == IF task.run = "rollback" THEN Return(FALSE) ELSE Goto("mark_failed")

\* restore: the policy routing of the candidate goes first.
RemoveCandidate ==
    /\ task.step = "remove_candidate"
    /\ RemoveOwnedIP(Candidate, "restore_singbox", RestoreError)
    /\ UNCHANGED <<process, journal, files, nft, tun, others>>

\* restoreSingBox stops the service and then removes the file, or installs the
\* previous file and then restarts the service.
RestoreSingBox ==
    /\ task.step = "restore_singbox"
    /\ IF Snapshot.singbox = Absent
       THEN ServiceCommand(Absent, "restore_service", RestoreError) /\ UNCHANGED singbox
       ELSE /\ Replaced(singbox, Snapshot.singbox, "restore_service", RestoreError, singbox')
            /\ UNCHANGED <<tun, tables>>
    /\ UNCHANGED <<process, journal, policy, marker, nft, rules, others>>

RestoreService ==
    /\ task.step = "restore_service"
    /\ IF Snapshot.singbox = Absent
       THEN /\ Replaced(singbox, Absent, "restore_nft", RestoreError, singbox')
            /\ UNCHANGED <<tun, tables>>
       ELSE ServiceCommand(Snapshot.singbox, "restore_nft", RestoreError) /\ UNCHANGED singbox
    /\ UNCHANGED <<process, journal, policy, marker, nft, rules, others>>

\* Faulty variant: an absent table is restored by deleting the current one.
RestoredNFTAsSnapshot(row) == journal[row].snapshot.nft

\* restoreNFT; after a reboot or a bypass has erased the table, BuildRecoveryNFT
\* builds leak protection for the previous routes instead.
RestoredNFT(row) ==
    LET snapshot == journal[row].snapshot
    IN  IF snapshot.nft = Absent /\ RoutesOf(snapshot.policy) # {}
        THEN snapshot.policy ELSE snapshot.nft

RestoreNFT ==
    /\ task.step = "restore_nft"
    /\ \/ /\ RoutesOf(Snapshot.policy) \subseteq Devices      \* verifyTUNs
          /\ Replaced(nft, RestoredNFT(task.row), "restore_ipv4", RestoreError, nft')
       \/ /\ ~(RoutesOf(Snapshot.policy) \subseteq Devices)
          /\ RestoreError
          /\ UNCHANGED <<nft, faults>>
    /\ UNCHANGED <<process, journal, files, tun, rules, tables, others>>

RestoreIP(f) ==
    /\ task.step = IF f = "ipv4" THEN "restore_ipv4" ELSE "restore_ipv6"
    /\ IPBatch(f, RoutesOf(Snapshot.policy),
               IF f = "ipv4" THEN "restore_ipv6" ELSE "restore_file", RestoreError)
    /\ UNCHANGED <<process, journal, files, nft, tun, others>>

\* The applied-routing file of an apply; of a bypass, DeactivateBypass.
RestoreFile ==
    /\ task.step = "restore_file"
    /\ IF Entry.component = "apply"
       THEN /\ Replaced(policy, Snapshot.policy, "mark_rolled_back", RestoreError, policy')
            /\ UNCHANGED marker
       ELSE /\ Replaced(marker, NoMarker, "mark_rolled_back", RestoreError, marker')
            /\ UNCHANGED policy
    /\ UNCHANGED <<process, journal, singbox, kernel, others>>

\* An Execute that rolled back returns the error that made it.
MarkRolledBack ==
    /\ task.step = "mark_rolled_back"
    /\ Transition("ROLLED_BACK",
                  IF task.run = "rollback" THEN "operator_requested" ELSE "interrupted",
                  IF task.run = "reconcile" THEN "fail" ELSE "succeed", "fail")
    /\ UNCHANGED <<process, files, kernel, others>>

\* RollbackCommitted and rollbackCommittedBypass: nothing of the newest commit
\* has changed since.
MayRollBack(row) ==
    /\ journal[row].damage = "none"
    /\ IF journal[row].component = "apply"
       THEN /\ marker = NoMarker
            /\ policy = journal[row].candidate
            /\ AppliedPlanExists /\ InForce(policy)
       ELSE marker = row /\ Off(RoutesOf(journal[row].snapshot.policy))

RollbackRequested ==
    /\ Idle /\ Gate
    /\ \E row \in DOMAIN journal :
           /\ IsLatestCommitted(journal, row) /\ MayRollBack(row)
           /\ task' = [IdleTask EXCEPT !.run = "rollback", !.step = "mark_rolling_back",
                                       !.row = row, !.from = "COMMITTED"]
    /\ UNCHANGED <<process, journal, files, kernel, counters, history>>

MarkRollingBack ==
    /\ task.step = "mark_rolling_back"
    /\ Transition("ROLLING_BACK", "operator_requested",
                  IF Entry.component = "apply" THEN "remove_candidate" ELSE "restore_nft", "fail")
    /\ UNCHANGED <<process, files, kernel, others>>

-------------------------------------------------------------------------------
(* Recovery: Recover, journal_check, route_reconcile, journal_final.       *)

\* The rows Recover reads, at startup or on request.
StartRecovery(resume) ==
    /\ task' = [IdleTask EXCEPT !.run = "recovery", !.step = "next_operation",
                                !.queue = UnfinishedRows(journal), !.resume = resume]
    /\ lost' = FALSE /\ UNCHANGED overtook

Start ==
    /\ ~up /\ up' = TRUE
    /\ StartRecovery(FALSE)
    /\ UNCHANGED <<tracker, journal, files, kernel, counters>>

RecoveryRequested ==
    /\ Idle
    /\ recoveries < MaxRecoveries /\ recoveries' = recoveries + 1
    /\ StartRecovery(TRUE)
    /\ UNCHANGED <<process, journal, files, kernel, faults, crashes>>

\* recoverBypass goes forward from APPLYING and VERIFYING, Recover goes back.  A
\* snapshot that does not authenticate makes the operation FAILED.  So does the
\* protected candidate of an apply; that of a bypass is plain JSON, which only
\* the recovery of ROLLING_BACK parses, so damage of a bypass is damage of its
\* snapshot here.
RecoveryStep(row) ==
    LET entry == journal[row]
    IN  IF entry.state \in {"PREPARED", "VALIDATED"} THEN "mark_interrupted"
        ELSE IF entry.damage # "none" THEN "mark_damaged"
        ELSE IF entry.state = "ROLLING_BACK" THEN RestoreStep(row)
        ELSE IF entry.component = "bypass" THEN "activate_marker"
        ELSE "roll_back"

NextOperation ==
    LET row == CHOOSE r \in task.queue : \A other \in task.queue : r <= other
    IN  /\ task.step = "next_operation" /\ task.queue # {}
        /\ task' = [task EXCEPT !.queue = @ \ {row}, !.row = row,
                                !.from = journal[row].state, !.step = RecoveryStep(row)]
        /\ UNCHANGED <<process, journal, files, kernel, counters, history>>

MarkInterrupted ==
    /\ task.step = "mark_interrupted"
    /\ Transition("FAILED", "not_applied", "succeed", "fail")
    /\ UNCHANGED <<process, files, kernel, others>>

MarkDamaged ==
    /\ task.step = "mark_damaged"
    /\ Transition("FAILED", "snapshot_authentication_failed", "fail", "fail")
    /\ UNCHANGED <<process, files, kernel, others>>

EndRecovery(outcome) == tracker' = outcome /\ task' = IdleTask

\* Faulty variant: startup reconciles under an active bypass.
EagerReconcileStep ==
    IF policy = Absent THEN "finish_recovery" ELSE "reconcile"

\* What route_reconcile finds to do: nothing under an active bypass at startup,
\* and nothing but to leave the bypass when no routing was ever applied.
ReconcileStep ==
    CASE marker # NoMarker /\ ~task.resume -> "finish_recovery"
      [] marker # NoMarker /\ task.resume  -> "deactivate_marker"
      [] marker = NoMarker                 ->
             IF policy = Absent THEN "finish_recovery" ELSE "reconcile"

\* Recover has gone through its rows; then journal_check.
JournalCheck ==
    /\ task.step = "next_operation" /\ task.queue = {}
    /\ IF task.erred \/ UnfinishedRows(journal) # {}
       THEN EndRecovery("failed")
       ELSE Goto(ReconcileStep) /\ UNCHANGED tracker
    /\ UNCHANGED <<up, journal, files, kernel, counters, history>>

\* ResumeApplied builds its plan, then removes the marker, then reconciles.
DeactivateMarker ==
    LET planned == policy = Absent \/ AppliedPlanExists
    IN  /\ task.step = "deactivate_marker"
        /\ \/ /\ planned /\ marker' = NoMarker
              /\ Goto(IF policy = Absent THEN "finish_recovery" ELSE "reconcile")
              /\ UNCHANGED <<tracker, faults>>
           \/ ~planned /\ EndRecovery("failed") /\ UNCHANGED <<marker, faults>>
           \/ Fault /\ marker' \in {marker, NoMarker} /\ EndRecovery("failed")
        /\ UNCHANGED <<up, journal, singbox, policy, kernel, others>>

\* Faulty variant: the files that are there are taken for the state of the host.
ReconcileByFiles ==
    /\ task.step = "reconcile" /\ AppliedPlanExists
    /\ Goto("finish_recovery")
    /\ UNCHANGED <<process, journal, files, kernel, counters, history>>

\* ReconcileApplied: the applied files, not the database, are executed again
\* unless they are in force.
Reconcile ==
    /\ task.step = "reconcile"
    /\ \/ ~AppliedPlanExists /\ EndRecovery("failed")
          /\ UNCHANGED <<journal, faults, overtook>>
       \/ /\ AppliedPlanExists /\ InForce(policy)
          /\ Goto("finish_recovery")
          /\ UNCHANGED <<tracker, journal, faults, overtook>>
       \/ /\ AppliedPlanExists /\ ~InForce(policy)
          /\ Begin("apply", policy, singbox, "reconcile")
          /\ UNCHANGED tracker
       \/ Fault /\ EndRecovery("failed") /\ UNCHANGED <<journal, overtook>>
    /\ UNCHANGED <<up, files, kernel, recoveries, crashes, lost>>

\* The second VerifyRuntime after an Execute, and journal_final.
FinishRecovery ==
    LET succeeded == /\ ~task.erred
                     /\ task.run = "reconcile" => InForce(policy)
                     /\ UnfinishedRows(journal) = {}
    IN  /\ task.step = "finish_recovery"
        /\ EndRecovery(IF succeeded THEN "succeeded" ELSE "failed")
        /\ UNCHANGED <<up, journal, files, kernel, counters, history>>

-------------------------------------------------------------------------------
(* Environment.                                                            *)

Stop ==
    /\ crashes < MaxCrashes /\ crashes' = crashes + 1
    /\ up' = FALSE /\ tracker' = "none" /\ task' = IdleTask
    /\ UNCHANGED <<journal, files, recoveries, faults, history>>

Crash == up /\ Stop /\ UNCHANGED kernel

\* Kernel state and processes do not survive a reboot; sing-box is not enabled
\* at boot.
Reboot ==
    /\ Stop
    /\ nft' = Absent
    /\ rules' = [f \in Families |-> {}]
    /\ ServiceBecomes(Stopped)

\* sing-box crashes, or is restarted by an apply of its outbounds; systemd may
\* have it up again, with new TUN devices.
SingBoxRestarts ==
    /\ tun # Stopped /\ Fault
    /\ \/ ServiceBecomes(Stopped)
       \/ singbox # Absent /\ ServiceBecomes(singbox)
    /\ lost' = TRUE /\ UNCHANGED overtook
    /\ UNCHANGED <<process, task, journal, files, nft, rules, recoveries, crashes>>

\* Stored journal bytes are damaged.
Tamper(row) ==
    /\ ~up /\ journal[row].damage = "none" /\ Fault
    /\ journal' = [journal EXCEPT ![row].damage = "unreadable"]
    /\ UNCHANGED <<process, task, files, kernel, others>>

Work ==
    \/ Validate \/ MarkApplying \/ ApplyNFT \/ InstallSingBox \/ RestartSingBox
    \/ RemovePrevious \/ MarkVerifying \/ WritePolicy \/ Commit \/ MarkFailed
    \/ ActivateMarker \/ BypassPolicy \/ BypassNFT \/ VerifyBypass
    \/ RollBack \/ RemoveCandidate \/ RestoreSingBox \/ RestoreService \/ RestoreNFT
    \/ RestoreFile \/ MarkRolledBack \/ MarkRollingBack
    \/ NextOperation \/ MarkInterrupted \/ MarkDamaged \/ JournalCheck
    \/ DeactivateMarker \/ Reconcile \/ FinishRecovery
    \/ \E f \in Families : AddIP(f) \/ RestoreIP(f)

Next ==
    \/ Start
    \/ \E document \in Documents : ApplyRequested(document)
    \/ BypassRequested \/ RollbackRequested \/ RecoveryRequested
    \/ Work
    \/ Crash \/ Reboot \/ SingBoxRestarts
    \/ \E row \in DOMAIN journal : Tamper(row)

Spec == Init /\ [][Next]_vars

-------------------------------------------------------------------------------
(* Safety.                                                                 *)

\* A forwarded packet of the route's source leaves outside the tunnel: some
\* family has no rule or an empty table, and no kill switch drops the packet.
Leaks(r) ==
    /\ nft = Absent \/ r \notin nft
    /\ \E f \in Families : r \notin rules[f] \/ r \notin tables[f]

\* Routes that stay: those of the applied document, and while an apply is in
\* flight those of both its previous and its candidate document.
KeptRoutes ==
    LET moving == {row \in UnfinishedRows(journal) :
                      /\ journal[row].component = "apply"
                      /\ journal[row].state \in {"APPLYING", "VERIFYING", "ROLLING_BACK"}}
    IN  IF moving = {} THEN RoutesOf(policy)
        ELSE {r \in Routes : \A row \in moving :
                  r \in RoutesOf(journal[row].snapshot.policy) \cap journal[row].candidate}

\* The operation began over routing that an earlier one, unfinished or given up,
\* had left half applied: its undo returns to that.
HalfApplied(row) ==
    LET snapshot == journal[row].snapshot
    IN  \/ row \in overtook
        \/ snapshot.singbox # snapshot.policy \/ snapshot.nft \notin {snapshot.policy, Absent}

Troubled == \E row \in DOMAIN journal :
    journal[row].detail \in {"rollback_failed", "snapshot_authentication_failed"}

\* "Block unintended fallback" (internal/routing/plan.go:313): no step of an
\* apply, a restore or a recovery, and no restart of sing-box, opens a direct
\* path for a route that stays; only an active bypass and a reboot do.  A restore
\* that gave up and an operation over half-applied routing suspend the promise.
KillSwitchHolds ==
    [][/\ up' \/ UNCHANGED nft
       /\ marker = NoMarker
       /\ ~Troubled /\ \A row \in DOMAIN journal : ~HalfApplied(row)
       => \A r \in KeptRoutes : Leaks(r)' => Leaks(r)]_vars

\* While the daemon is ready and nothing is in flight, the files hold the newest
\* committed document (none, if there is none) and exactly that is in force,
\* whatever applies, bypasses, rollbacks and recoveries came before (a document
\* without routes may have lost its empty table).  A restore
\* that gave up, an active bypass, the return to half-applied routing and a sing-box
\* that restarted by itself suspend the promise.
SettledRouting ==
    LET commits == {row \in DOMAIN journal :
                       journal[row].component = "apply" /\ journal[row].state = "COMMITTED"}
        newest == CHOOSE row \in commits : \A other \in commits : other <= row
    IN  (Gate /\ task = IdleTask /\ marker = NoMarker /\ ~lost
     /\ ~Troubled /\ \A row \in DOMAIN journal : ~HalfApplied(row)) =>
            IF commits = {}
            THEN /\ policy = Absent /\ singbox = Absent /\ nft = Absent
                 /\ \A f \in Families : rules[f] = {}
            ELSE /\ policy = journal[newest].candidate /\ singbox = policy
                 /\ policy # {} => InForce(policy)
                 /\ \A f \in Families : rules[f] = policy

\* When recovery makes the daemon ready and no bypass is active, the applied
\* routing is in force, however the runtime was lost (docs/adr/0003, "Restart
\* restores the last applied configuration").  A manual run on a daemon that is
\* ready already is exempt, since its end does not show in the readiness, and so is
\* a run during which sing-box restarted by itself (lost).
RecoveredRoutingIsInForce ==
    [][tracker' = "succeeded" /\ tracker # "succeeded" /\ marker = NoMarker /\ policy # Absent
           => InForce(policy) \/ lost]_vars

\* As long as no operation was begun over an unfinished one (overtook), the marker
\* of a committed bypass stands for the truth when nothing is in flight: nothing
\* that was applied is in force, whatever crashes, restarts and second bypasses came
\* before.  What overtaking does is StartupKeepsBypass.
ActiveBypassIsOff ==
    (/\ Gate /\ task = IdleTask
     /\ marker # NoMarker /\ journal[marker].state = "COMMITTED"
     /\ overtook = {}) => Off(RoutesOf(policy))

\* "Startup recovery completes an interrupted bypass but does not reactivate
\* routing while the marker is active" (docs/adr/0004-persistent-emergency-bypass.md:23).
StartupKeepsBypass ==
    [][/\ task.run = "recovery" /\ ~task.resume
       /\ marker # NoMarker /\ journal[marker].state = "COMMITTED"
       => /\ nft' \in {nft, Absent}
          /\ \A f \in Families : rules'[f] \subseteq rules[f]]_vars

===============================================================================
