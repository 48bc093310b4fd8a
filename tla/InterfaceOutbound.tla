--------------------------- MODULE InterfaceOutbound ---------------------------
(***************************************************************************)
(* Native interface outbounds of egressd: WireGuard links and OpenVPN      *)
(* units, one per outbound, applied, rolled back and recovered as one      *)
(* journaled transaction over many entries.  The desired entries are rows  *)
(* of the database that editors change at any time; the applied ones are   *)
(* the state file, one private configuration file per entry, and the links *)
(* themselves.                                                             *)
(*                                                                         *)
(* The caller holds the host mutation lock, whose mutual exclusion         *)
(* HostTransaction shows, so one task works at a time.  The daemon may be  *)
(* killed in front of every action: an action is one journal write, one    *)
(* command or one file, with the checks that precede it.                   *)
(*                                                                         *)
(* A document gives each outbound the version of its entry, or None.  The  *)
(* version stands for everything equalStateEntry compares, the hash of the *)
(* configuration included.  The state file is absent when it has no entry. *)
(***************************************************************************)
EXTENDS OperationJournal, FiniteSets

CONSTANTS
    Outbounds,         \* interface outbounds, numbered in the order of their IDs
    OpenVPN,           \* those that are OpenVPN units; the others are WireGuard links
    Versions,          \* versions of an entry and its configuration
    None,              \* disabled, no file, or no link
    Partial,           \* a WireGuard link that was added but not configured
    DirectorySurvives, \* the runtime directory outlives the unit of the daemon
    MaxOperations,     \* bound on apply requests
    MaxEdits,          \* bound on edits of the desired entries
    MaxRecoveries,     \* bound on manual recovery runs
    MaxFaults,         \* bound on environment faults
    MaxCrashes         \* bound on daemon crashes and reboots

ASSUME InterfaceAssumption ==
    /\ Outbounds \subseteq Nat /\ IsFiniteSet(Outbounds)
    /\ OpenVPN \subseteq Outbounds
    /\ None \notin Versions /\ Partial \notin Versions /\ None # Partial
    /\ DirectorySurvives \in BOOLEAN
    /\ {MaxOperations, MaxEdits, MaxRecoveries, MaxFaults, MaxCrashes} \subseteq Nat

Documents == [Outbounds -> Versions \cup {None}]
Empty == [i \in Outbounds |-> None]
Enabled(document) == {i \in Outbounds : document[i] # None}

VARIABLES
    up,          \* egressd runs
    tracker,     \* reliability.Tracker: outcome of this process' last recovery run
    task,        \* the goroutine that holds the host mutation lock
    journal,     \* operation_journal; snapshot and candidate are documents
    desired,     \* the enabled interface outbounds of the database
    file,        \* the state file
    configs,     \* configs[i]: the configuration file of i
    links,       \* links[i]: what the running link of i was configured with
    edits, recoveries, faults, crashes,
    lost,        \* history: a link vanished since the links were last verified or
                 \* a recovery run began
    wipedAt,     \* history: rows of the journal when the runtime directory was emptied
    planned      \* history: the desired entries when recovery last planned

process == <<up, tracker>>
owned == <<file, configs>>
counters == <<edits, recoveries, faults, crashes>>
history == <<lost, wipedAt, planned>>
others == <<desired, edits, recoveries, crashes, history>>
vars == <<process, task, journal, desired, owned, links, counters, history>>

Entries == [id : Nat, component : {"interface"}, state : TransactionStates,
            snapshot : Documents, candidate : Documents, detail : Details,
            damage : {"none", "unreadable"}]

Steps ==
    {"idle", "validate", "mark_applying", "stop", "remove_config", "start", "create_link",
     "configure", "mark_verifying", "verify", "commit", "roll_back", "mark_rolling_back",
     "verify_restored", "mark_rolled_back", "mark_failed", "mark_interrupted",
     "next_operation", "reconcile", "finish_recovery"}

Runs == {"none", "client", "rollback", "recovery", "reconcile"}

\* run: what the task executes for; from: the state it believes its row is in;
\* todo: the outbounds its loop still has to stop or start; rows: what Recover
\* still has to resolve.
Tasks == [run : Runs, step : Steps, row : Nat, from : TransactionStates,
          todo : SUBSET Outbounds, rows : SUBSET Nat, erred : BOOLEAN]

IdleTask == [run |-> "none", step |-> "idle", row |-> 0, from |-> "PREPARED",
             todo |-> {}, rows |-> {}, erred |-> FALSE]

TypeOK ==
    /\ up \in BOOLEAN
    /\ tracker \in {"none", "succeeded", "failed"}
    /\ task \in Tasks
    /\ journal \in Seq(Entries)
    /\ desired \in Documents /\ file \in Documents /\ configs \in Documents
    /\ links \in [Outbounds -> Versions \cup {None, Partial}]
    /\ \A i \in OpenVPN : links[i] # Partial
    /\ edits \in 0..MaxEdits /\ recoveries \in 0..MaxRecoveries
    /\ faults \in 0..MaxFaults /\ crashes \in 0..MaxCrashes
    /\ lost \in BOOLEAN
    /\ wipedAt \in 0..Len(journal)
    /\ planned \in Documents

Init ==
    /\ up = FALSE /\ tracker = "none" /\ task = IdleTask
    /\ journal = << >>
    /\ desired = Empty /\ file = Empty /\ configs = Empty /\ links = Empty
    /\ edits = 0 /\ recoveries = 0 /\ faults = 0 /\ crashes = 0
    /\ lost = FALSE /\ wipedAt = 0 /\ planned = Empty

-------------------------------------------------------------------------------
(* Helpers of the steps.                                                   *)

Fault == faults < MaxFaults /\ faults' = faults + 1

Entry == journal[task.row]
Restoring == task.from = "ROLLING_BACK"

\* What the loops work towards.
Target == IF Restoring THEN Entry.snapshot ELSE Entry.candidate

\* Entries are handled in the order of their IDs.
Current == CHOOSE i \in task.todo : \A j \in task.todo : i <= j

Goto(step) == task' = [task EXCEPT !.step = step]
Loop(step, set) == task' = [task EXCEPT !.step = step, !.todo = set]
DoneWith(i, step) == Loop(step, task.todo \ {i})

\* Execute, Recover's treatment of one row, or RollbackCommitted returns.
Return(ok) ==
    task' = CASE task.run = "recovery"  -> [task EXCEPT !.step = "next_operation",
                                                        !.erred = @ \/ ~ok]
              [] task.run = "reconcile" -> [task EXCEPT !.step = "finish_recovery",
                                                        !.erred = ~ok]
              [] OTHER                  -> IdleTask

Proceed(step) ==
    CASE step = "succeed" -> Return(TRUE)
      [] step = "fail"    -> Return(FALSE)
      [] OTHER            -> Goto(step)

\* One TransitionOperation from the state the task believes in: it succeeds, it
\* conflicts, or it reports an error whether or not SQLite committed it.
Transition(to, detail, OnSuccess, onError) ==
    LET applies == TransitionApplies(journal, task.row, task.from, to)
        written == Transitioned(journal, task.row, task.from, to, detail)
    IN  \/ applies /\ journal' = written /\ OnSuccess /\ UNCHANGED faults
        \/ ~applies /\ Proceed(onError) /\ UNCHANGED <<journal, faults>>
        \/ Fault /\ journal' \in {journal, written} /\ Proceed(onError)

Reached(step, state) == task' = [task EXCEPT !.step = step, !.from = state]

\* A failing apply rolls back.  A failing restore is FAILED, unless an operator
\* asked for it: RollbackCommitted leaves the row in ROLLING_BACK.
OnError ==
    CASE ~Restoring                           -> Goto("roll_back")
      [] Restoring /\ task.run = "rollback"   -> Return(FALSE)
      [] Restoring /\ task.run # "rollback"   -> Goto("mark_failed")

-------------------------------------------------------------------------------
(* What the code checks.                                                   *)

\* InspectState: every entry of the state file has its configuration.
Inspectable == \A i \in Enabled(file) : configs[i] = file[i]

\* BuildPlan: a link of a desired name that the state file does not own.
Collides == \E i \in Enabled(desired) : links[i] # None /\ file[i] = None

\* Faulty variant: the live links are not looked at.
VerifiedFiles(document) == \A i \in Enabled(document) : configs[i] = document[i]

\* verifyEntries: the configuration file, and a link (or unit) that is there.
\* What the link was configured with is not compared.
Verified(document) ==
    \A i \in Enabled(document) : configs[i] = document[i] /\ links[i] # None

\* Tracker.Ready and no unfinished operation, under the lock.
Gate == tracker = "succeeded" /\ UnfinishedRows(journal) = {}

Idle == up /\ tracker # "none" /\ task = IdleTask

-------------------------------------------------------------------------------
(* Execute: PREPARED to APPLYING.                                          *)

\* CreateOperation with the protected snapshot; an error of the statement ends
\* the request whether or not the row is there.
Begin(run) ==
    LET created == Created(journal, Len(journal) + 1, "interface", file, desired)
    IN  \/ /\ journal' = created
           /\ task' = [IdleTask EXCEPT !.run = run, !.step = "validate", !.row = Len(created)]
           /\ UNCHANGED faults
        \/ /\ Fault
           /\ journal' \in {journal, created}
           /\ task' = IF run = "reconcile"
                      THEN [task EXCEPT !.step = "finish_recovery", !.erred = TRUE]
                      ELSE IdleTask

\* The web server edits the rows itself, whatever the daemon is doing.
EditDesired ==
    /\ edits < MaxEdits /\ edits' = edits + 1
    /\ \E i \in Outbounds, version \in Versions \cup {None} :
           desired[i] # version /\ desired' = [desired EXCEPT ![i] = version]
    /\ UNCHANGED <<process, task, journal, owned, links, recoveries, faults, crashes, history>>

\* An apply request passes the gate and the reviewed hashes still match: the
\* candidate is what the database now holds.
ApplyRequested ==
    /\ Idle /\ Gate
    /\ Len(journal) < MaxOperations
    /\ Inspectable /\ ~Collides
    /\ Begin("client")
    /\ UNCHANGED <<process, owned, links, others>>

\* Native checks of the candidates, then PREPARED -> VALIDATED.
Validate ==
    /\ task.step = "validate"
    /\ \/ Transition("VALIDATED", "none", Reached("mark_applying", "VALIDATED"), "fail")
       \/ Fault /\ Goto("mark_failed") /\ UNCHANGED journal
    /\ UNCHANGED <<process, owned, links, others>>

\* Faulty variant: every applied entry is stopped.
AllApplied == Enabled(file)

\* Entries an apply stops: those that go or change.
Obsolete == {i \in Enabled(file) : file[i] # Entry.candidate[i]}

MarkApplying ==
    /\ task.step = "mark_applying"
    /\ Transition("APPLYING", "none",
                  task' = [task EXCEPT !.step = "stop", !.from = "APPLYING", !.todo = Obsolete],
                  "mark_failed")
    /\ UNCHANGED <<process, owned, links, others>>

-------------------------------------------------------------------------------
(* The loops of apply and restore.                                         *)

\* stopEntry: ip link delete of a link that is there, or systemctl stop.
StopEntry ==
    /\ task.step = "stop" /\ task.todo # {}
    /\ \/ /\ links' = [links EXCEPT ![Current] = None]
          /\ Goto("remove_config")
          /\ UNCHANGED faults
       \/ /\ Fault
          /\ links' \in {links, [links EXCEPT ![Current] = None]}
          /\ OnError
    /\ UNCHANGED <<process, journal, owned, others>>

\* removeRuntimeConfig, of an entry of the state file or of the candidate: a
\* file with any other content is not removed.
RemoveConfig ==
    LET known == IF Restoring THEN Entry.candidate[Current] ELSE file[Current]
    IN  /\ task.step = "remove_config"
        /\ \/ /\ configs[Current] \in {None, known}
              /\ configs' = [configs EXCEPT ![Current] = None]
              /\ DoneWith(Current, "stop")
              /\ UNCHANGED faults
           \/ configs[Current] \notin {None, known} /\ OnError /\ UNCHANGED <<configs, faults>>
           \/ Fault /\ OnError /\ UNCHANGED configs
        /\ UNCHANGED <<process, journal, file, links, others>>

AllStopped ==
    /\ task.step = "stop" /\ task.todo = {}
    /\ Loop("start", Enabled(Target))
    /\ UNCHANGED <<process, journal, owned, links, counters, desired, history>>

\* An apply leaves an unchanged entry alone when its link is there.
Kept(i) == ~Restoring /\ file[i] = Target[i] /\ links[i] # None

\* An entry that is kept is verified; the configuration of the others is
\* written, unless the entry is unchanged, and their link started.
StartEntry ==
    /\ task.step = "start" /\ task.todo # {}
    /\ LET i == Current
           unchanged == ~Restoring /\ file[i] = Target[i]
       IN  \/ /\ Kept(i) /\ configs[i] = Target[i]
              /\ DoneWith(i, "start")
              /\ UNCHANGED <<configs, faults>>
           \/ /\ Kept(i) /\ configs[i] # Target[i]
              /\ OnError
              /\ UNCHANGED <<configs, faults>>
           \/ /\ ~Kept(i)
              /\ configs' = IF unchanged THEN configs ELSE [configs EXCEPT ![i] = Target[i]]
              /\ Goto("create_link")
              /\ UNCHANGED faults
           \/ /\ Fault
              /\ configs' \in {configs, IF unchanged THEN configs
                                        ELSE [configs EXCEPT ![i] = Target[i]]}
              /\ OnError
    /\ UNCHANGED <<process, journal, file, links, others>>

\* Faulty variant: units are treated as links.
StartedAsLink(i) == Partial

\* A unit runs with its configuration at once, a link has yet to be configured.
Started(i) == IF i \in OpenVPN THEN configs[i] ELSE Partial

\* ip link add fails when the link is there, systemd-run when the unit is.
CreateLink ==
    LET created == [links EXCEPT ![Current] = Started(Current)]
    IN  /\ task.step = "create_link"
        /\ \/ /\ links[Current] = None
              /\ links' = created
              /\ IF Current \in OpenVPN THEN DoneWith(Current, "start") ELSE Goto("configure")
              /\ UNCHANGED faults
           \/ links[Current] # None /\ OnError /\ UNCHANGED <<links, faults>>
           \/ /\ Fault /\ OnError
              /\ \/ UNCHANGED links
                 \/ links[Current] = None /\ links' = created
        /\ UNCHANGED <<process, journal, owned, others>>

\* wg setconf, the addresses, the MTU and up; verifyEntry of an unchanged entry.
ConfigureLink ==
    LET configured == [links EXCEPT ![Current] = IF @ = None THEN None ELSE configs[Current]]
    IN  /\ task.step = "configure"
        /\ \/ /\ links[Current] # None
              /\ links' = configured
              /\ DoneWith(Current, "start")
              /\ UNCHANGED faults
           \/ links[Current] = None /\ OnError /\ UNCHANGED <<links, faults>>
           \/ Fault /\ links' \in {links, configured} /\ OnError
        /\ UNCHANGED <<process, journal, owned, others>>

\* The state file is replaced, or removed, when every entry is up.
WriteFile ==
    /\ task.step = "start" /\ task.todo = {}
    /\ \/ /\ file' = Target
          /\ Goto(IF Restoring THEN "verify_restored" ELSE "mark_verifying")
          /\ UNCHANGED faults
       \/ Fault /\ file' \in {file, Target} /\ OnError
    /\ UNCHANGED <<process, journal, configs, links, others>>

-------------------------------------------------------------------------------
(* Execute: VERIFYING and the end.                                         *)

MarkVerifying ==
    /\ task.step = "mark_verifying"
    /\ Transition("VERIFYING", "none", Reached("verify", "VERIFYING"), "roll_back")
    /\ UNCHANGED <<process, owned, links, others>>

\* verifyEntries of the candidate, then InspectState against the plan.
Verify ==
    LET sound == Verified(Entry.candidate) /\ file = Entry.candidate
    IN  /\ task.step = "verify"
        /\ \/ sound /\ Goto("commit") /\ lost' = FALSE /\ UNCHANGED faults
           \/ ~sound /\ OnError /\ UNCHANGED <<lost, faults>>
           \/ Fault /\ OnError /\ UNCHANGED lost
        /\ UNCHANGED <<process, journal, owned, links, desired, edits, recoveries, crashes,
                       wipedAt, planned>>

Commit ==
    /\ task.step = "commit"
    /\ Transition("COMMITTED", "none", Return(TRUE), "roll_back")
    /\ UNCHANGED <<process, owned, links, others>>

MarkFailed ==
    /\ task.step = "mark_failed"
    /\ Transition("FAILED", IF Restoring THEN "rollback_failed" ELSE "not_applied",
                  Return(FALSE), "fail")
    /\ UNCHANGED <<process, owned, links, others>>

-------------------------------------------------------------------------------
(* Rolling back: a failing Execute, Recover, RollbackCommitted.            *)

\* Faulty variant: the candidate's entries are left for the start loop to replace.
StopNothing == task' = [task EXCEPT !.step = "stop", !.from = "ROLLING_BACK", !.todo = {}]

\* restore stops the entries of the candidate first.
BeginRestore ==
    task' = [task EXCEPT !.step = "stop", !.from = "ROLLING_BACK",
                         !.todo = Enabled(Entry.candidate)]

RollBack ==
    /\ task.step = "roll_back"
    /\ Transition("ROLLING_BACK", "interrupted", BeginRestore, "fail")
    /\ UNCHANGED <<process, owned, links, others>>

VerifyRestored ==
    /\ task.step = "verify_restored"
    /\ \/ Verified(Entry.snapshot) /\ Goto("mark_rolled_back") /\ UNCHANGED faults
       \/ ~Verified(Entry.snapshot) /\ OnError /\ UNCHANGED faults
       \/ Fault /\ OnError
    /\ UNCHANGED <<process, journal, owned, links, others>>

\* An Execute that rolled back returns the error that made it.
MarkRolledBack ==
    /\ task.step = "mark_rolled_back"
    /\ Transition("ROLLED_BACK",
                  IF task.run = "rollback" THEN "operator_requested" ELSE "interrupted",
                  Return(task.run # "reconcile"), "fail")
    /\ UNCHANGED <<process, owned, links, others>>

\* RollbackCommitted: the newest commit is exactly what is on disk and running.
RollbackRequested ==
    /\ Idle /\ Gate
    /\ \E row \in DOMAIN journal :
           /\ IsLatestCommitted(journal, row) /\ journal[row].damage = "none"
           /\ Inspectable /\ file = journal[row].candidate /\ Verified(file)
           /\ task' = [IdleTask EXCEPT !.run = "rollback", !.step = "mark_rolling_back",
                                       !.row = row, !.from = "COMMITTED"]
    /\ UNCHANGED <<process, journal, owned, links, desired, counters, history>>

MarkRollingBack ==
    /\ task.step = "mark_rolling_back"
    /\ Transition("ROLLING_BACK", "operator_requested", BeginRestore, "fail")
    /\ UNCHANGED <<process, owned, links, others>>

-------------------------------------------------------------------------------
(* Recovery: Recover, journal_check, interface_reconcile, journal_final.   *)

StartRecovery ==
    /\ task' = [IdleTask EXCEPT !.run = "recovery", !.step = "next_operation",
                                !.rows = UnfinishedRows(journal)]
    /\ lost' = FALSE /\ UNCHANGED <<wipedAt, planned>>

Start ==
    /\ ~up /\ up' = TRUE
    /\ StartRecovery
    /\ UNCHANGED <<tracker, journal, desired, owned, links, counters>>

RecoveryRequested ==
    /\ Idle
    /\ recoveries < MaxRecoveries /\ recoveries' = recoveries + 1
    /\ StartRecovery
    /\ UNCHANGED <<process, journal, desired, owned, links, edits, faults, crashes>>

\* Documents that do not authenticate leave the row as it is.
NextOperation ==
    LET row == CHOOSE r \in task.rows : \A other \in task.rows : r <= other
        taken == [task EXCEPT !.rows = @ \ {row}, !.row = row, !.from = journal[row].state]
    IN  /\ task.step = "next_operation" /\ task.rows # {}
        /\ task' =
             CASE journal[row].damage # "none" -> [task EXCEPT !.rows = @ \ {row}, !.erred = TRUE]
               [] journal[row].damage = "none" /\ journal[row].state \in {"PREPARED", "VALIDATED"} ->
                      [taken EXCEPT !.step = "mark_interrupted"]
               [] journal[row].damage = "none" /\ journal[row].state \in {"APPLYING", "VERIFYING"} ->
                      [taken EXCEPT !.step = "roll_back"]
               [] OTHER -> [taken EXCEPT !.step = "stop",
                                         !.todo = Enabled(journal[row].candidate)]
        /\ UNCHANGED <<process, journal, desired, owned, links, counters, history>>

MarkInterrupted ==
    /\ task.step = "mark_interrupted"
    /\ Transition("FAILED", "not_applied", Return(TRUE), "fail")
    /\ UNCHANGED <<process, owned, links, others>>

EndRecovery(outcome) == tracker' = outcome /\ task' = IdleTask

JournalCheck ==
    /\ task.step = "next_operation" /\ task.rows = {}
    /\ IF task.erred \/ UnfinishedRows(journal) # {}
       THEN EndRecovery("failed")
       ELSE Goto("reconcile") /\ UNCHANGED tracker
    /\ UNCHANGED <<up, journal, desired, owned, links, counters, history>>

\* reconcileInterfaces: the desired entries of the database, applied or not, are
\* executed unless they are applied and verify; a command of the verification may
\* fail.
Reconcile ==
    /\ task.step = "reconcile"
    /\ \/ /\ ~Inspectable \/ Collides
          /\ EndRecovery("failed") /\ UNCHANGED <<journal, faults>>
       \/ /\ Inspectable /\ ~Collides
          /\ file = desired /\ Verified(desired)
          /\ Goto("finish_recovery") /\ UNCHANGED <<tracker, journal, faults>>
       \/ /\ Inspectable /\ ~Collides
          /\ file = desired /\ Verified(desired) => faults < MaxFaults
          /\ Begin("reconcile") /\ UNCHANGED tracker
       \/ Fault /\ EndRecovery("failed") /\ UNCHANGED journal
    /\ planned' = desired
    /\ UNCHANGED <<up, owned, links, desired, edits, recoveries, crashes, lost, wipedAt>>

FinishRecovery ==
    /\ task.step = "finish_recovery"
    /\ EndRecovery(IF ~task.erred /\ UnfinishedRows(journal) = {} THEN "succeeded" ELSE "failed")
    /\ UNCHANGED <<up, journal, desired, owned, links, counters, history>>

-------------------------------------------------------------------------------
(* Environment.                                                            *)

DaemonStops ==
    /\ crashes < MaxCrashes /\ crashes' = crashes + 1
    /\ up' = FALSE /\ tracker' = "none" /\ task' = IdleTask
    /\ UNCHANGED <<journal, desired, edits, recoveries, faults, lost, planned>>

DirectoryEmptied == file' = Empty /\ configs' = Empty /\ wipedAt' = Len(journal)

\* Links and transient units are not children of the daemon.  systemd removes
\* the RuntimeDirectory of a unit that stops.
Crash ==
    /\ up /\ DaemonStops
    /\ IF DirectorySurvives THEN UNCHANGED <<owned, wipedAt>> ELSE DirectoryEmptied
    /\ UNCHANGED links

\* The runtime directory is a tmpfs.
Reboot == DaemonStops /\ DirectoryEmptied /\ links' = Empty

\* A link is deleted, or the unit fails.
LinkLost ==
    /\ Fault
    /\ \E i \in Outbounds : links[i] # None /\ links' = [links EXCEPT ![i] = None]
    /\ lost' = TRUE
    /\ UNCHANGED <<process, task, journal, desired, owned, edits, recoveries, crashes,
                   wipedAt, planned>>

\* Stored journal bytes are damaged.
Tamper(row) ==
    /\ ~up /\ journal[row].damage = "none" /\ Fault
    /\ journal' = [journal EXCEPT ![row].damage = "unreadable"]
    /\ UNCHANGED <<process, task, owned, links, others>>

Work ==
    \/ Validate \/ MarkApplying \/ StopEntry \/ RemoveConfig \/ AllStopped \/ StartEntry
    \/ CreateLink \/ ConfigureLink \/ WriteFile \/ MarkVerifying \/ Verify \/ Commit
    \/ MarkFailed \/ RollBack \/ VerifyRestored \/ MarkRolledBack \/ MarkRollingBack
    \/ NextOperation \/ MarkInterrupted \/ JournalCheck \/ Reconcile \/ FinishRecovery

Next ==
    \/ Start \/ EditDesired \/ ApplyRequested \/ RollbackRequested \/ RecoveryRequested
    \/ Work
    \/ Crash \/ Reboot \/ LinkLost
    \/ \E row \in DOMAIN journal : Tamper(row)

Spec == Init /\ [][Next]_vars

-------------------------------------------------------------------------------
(* Safety.                                                                 *)

Troubled == \E row \in DOMAIN journal : journal[row].detail = "rollback_failed"

\* While the daemon is ready and nothing is in flight, the state file, the private
\* configurations and the running links agree entry by entry, with nothing left
\* over, and they are the newest committed candidate, whatever applies,
\* rollbacks, crashes and recoveries came before; the runtime directory may have
\* been emptied since that commit, and where it is emptied under running links those
\* may be left.  A restore that gave up and a link that vanished suspend the promise.
SettledInterfaces ==
    LET commits == {row \in DOMAIN journal : journal[row].state = "COMMITTED"}
        newest == IF commits = {} THEN 0
                  ELSE CHOOSE row \in commits : \A other \in commits : other <= row
        candidate == IF newest = 0 THEN Empty ELSE journal[newest].candidate
    IN  (Gate /\ task = IdleTask /\ ~Troubled) =>
            /\ configs = file
            /\ lost \/ \A i \in Outbounds :
                           links[i] = file[i] \/ (file[i] = None /\ ~DirectorySurvives)
            /\ file = candidate \/ (newest <= wipedAt /\ file = Empty)

\* When a recovery run succeeds, the database's enabled entries, as they were when it
\* planned, are applied and every one of them runs, whatever was lost or left half
\* done before ("Native-interface profiles continue to be reconstructed from
\* encrypted desired state", docs/CONFIGURATION.md:66).
RecoveryReconstructsDesired ==
    [][task.step = "finish_recovery" /\ task' = IdleTask /\ tracker' = "succeeded"
           => /\ file = planned
              /\ \A i \in Enabled(planned) :
                     /\ configs[i] = planned[i]
                     /\ lost \/ links[i] = planned[i] \/ (Troubled /\ links[i] # None)]_vars

\* An apply that is not being rolled back does not touch the running link of an
\* entry it does not change ("Verify the unchanged project-owned native VPN
\* interface", internal/interfaceoutbound/plan.go:167), nor its configuration.
UnchangedTunnelsStayUp ==
    [][/\ task.row # 0 /\ ~Restoring /\ task' # task /\ up'
       => \A i \in Enabled(Entry.snapshot) :
              Entry.candidate[i] = Entry.snapshot[i] /\ links[i] \in Versions
                  => links'[i] = links[i] /\ configs'[i] = configs[i]]_vars

\* "Native-interface profiles continue to be reconstructed from encrypted desired
\* state under the private runtime directory" (docs/CONFIGURATION.md:66): where
\* no command failed, recovery does not end degraded.
RestartReconstructsInterfaces == tracker = "failed" => faults > 0

===============================================================================
