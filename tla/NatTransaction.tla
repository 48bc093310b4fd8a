---------------------------- MODULE NatTransaction ----------------------------
(***************************************************************************)
(* NAT port forwards of egressd, applied to one address family at a time   *)
(* through nftables or through iptables, whichever selectNATEngine picks.  *)
(* nftables replaces one owned table in one kernel transaction.            *)
(* iptables-restore commits the nat and the filter table one after the     *)
(* other, three owned chains with an anchor each in a built-in chain, and  *)
(* its restore file is computed from the difference between the snapshot   *)
(* and what the kernel holds at that moment.                               *)
(*                                                                         *)
(* The caller holds the host mutation lock (HostTransaction), so one task  *)
(* works at a time.  An action is one journal write or one command with    *)
(* the checks that precede it; the daemon may be killed before each.       *)
(* What a set of forwards renders to is a member of Forwards.              *)
(***************************************************************************)
EXTENDS OperationJournal, FiniteSets

CONSTANTS
    Families,         \* address families
    Forwards,         \* reviewed sets of port forwards
    None,             \* no owned table, or no rules
    MaxOperations,    \* bound on apply requests
    MaxRecoveries,    \* bound on manual recovery runs
    MaxFaults,        \* bound on failing commands and foreign changes
    MaxCrashes        \* bound on daemon crashes and reboots

ASSUME NatAssumption ==
    /\ None \notin Forwards
    /\ {MaxOperations, MaxRecoveries, MaxFaults, MaxCrashes} \subseteq Nat

Engines == {"nftables", "iptables"}
Tables == {"nat", "filter"}

\* EGM_PREROUTING and EGM_POSTROUTING are in nat, EGM_FORWARD is in filter.
TableOf == [prerouting |-> "nat", postrouting |-> "nat", forward |-> "filter"]
Chains == DOMAIN TableOf

\* anchors: the jumps of the built-in chain to the owned one.
Chain == [present : BOOLEAN, anchors : 0..1, rules : Forwards \cup {None}]
NoChain == [present |-> FALSE, anchors |-> 0, rules |-> None]

\* IPTablesState, for the owned chains of one family.
IPTablesStates == [Chains -> Chain]
NoChains == [c \in Chains |-> NoChain]
OwnsChains(state) == \E c \in Chains : state[c].present

\* iptablesStateFromCandidate: every chain filled and anchored.
Filled(forwards) ==
    [c \in Chains |-> [present |-> TRUE, anchors |-> 1, rules |-> forwards]]

VARIABLES
    up,          \* egressd runs
    tracker,     \* reliability.Tracker: outcome of this process' last recovery run
    task,        \* the goroutine that holds the host mutation lock
    journal,     \* operation_journal
    installed,   \* the engines whose programs are installed
    nft,         \* nft[f]: content of the owned nftables table
    ipt,         \* ipt[f]: the owned iptables chains
    recoveries, faults, crashes,
    disturbed,   \* history: engines and families changed by others since the last
                 \* time the task looked at the kernel
    wiped,       \* history: engines and families ever changed by others
    misprobed    \* history: an inspection failed while the engine was selected

process == <<up, tracker>>
kernel == <<nft, ipt>>
counters == <<recoveries, faults, crashes>>
history == <<disturbed, wiped, misprobed>>
vars == <<process, task, journal, installed, kernel, counters, history>>

Objects == Engines \X Families
Contents == Forwards \cup {None} \cup IPTablesStates

Entries == [id : Nat, component : Objects, state : TransactionStates,
            snapshot : Contents, candidate : Forwards, detail : Details,
            damage : {"none", "unreadable"}]

\* Plan: the engine and family, the forwards, and the state it was made against.
Plans == [object : Objects, forwards : Forwards, base : Contents]

Steps ==
    {"idle", "create", "validate", "mark_not_applied", "mark_applying", "install",
     "mark_verifying", "verify", "commit", "roll_back", "mark_rolling_back", "restore",
     "write", "mark_rolled_back", "mark_failed", "next_operation"}

Runs == {"none", "client", "rollback", "recovery"}

\* seen: the state the restore file was computed against; todo: the tables of
\* the file that are not committed yet; rows: what Recover still has to resolve.
Tasks == [run : Runs, step : Steps, plan : Plans \cup {None}, row : Nat,
          from : TransactionStates, seen : Contents, todo : SUBSET Tables,
          rows : SUBSET Nat, erred : BOOLEAN]

IdleTask == [run |-> "none", step |-> "idle", plan |-> None, row |-> 0, from |-> "PREPARED",
             seen |-> None, todo |-> {}, rows |-> {}, erred |-> FALSE]

TypeOK ==
    /\ up \in BOOLEAN
    /\ tracker \in {"none", "succeeded", "failed"}
    /\ task \in Tasks
    /\ journal \in Seq(Entries)
    /\ installed \in SUBSET Engines
    /\ nft \in [Families -> Forwards \cup {None}]
    /\ ipt \in [Families -> IPTablesStates]
    /\ \A f \in Families, c \in Chains : ipt[f][c].anchors > 0 => ipt[f][c].present
    /\ recoveries \in 0..MaxRecoveries
    /\ faults \in 0..MaxFaults /\ crashes \in 0..MaxCrashes
    /\ disturbed \subseteq Objects /\ wiped \subseteq Objects
    /\ misprobed \in BOOLEAN

\* Nothing is owned yet; nftables may be installed later.
Init ==
    /\ up = FALSE /\ tracker = "none" /\ task = IdleTask
    /\ journal = << >>
    /\ installed \in {{"iptables"}, Engines}
    /\ nft = [f \in Families |-> None] /\ ipt = [f \in Families |-> NoChains]
    /\ recoveries = 0 /\ faults = 0 /\ crashes = 0
    /\ disturbed = {} /\ wiped = {} /\ misprobed = FALSE

-------------------------------------------------------------------------------
(* Helpers of the steps.                                                   *)

Fault == faults < MaxFaults /\ faults' = faults + 1

Entry == journal[task.row]

\* What the kernel holds of an object, and what holds a set of forwards.
Content(object) ==
    IF object[1] = "nftables" THEN nft[object[2]] ELSE ipt[object[2]]
Rendered(object, forwards) ==
    IF object[1] = "nftables" THEN forwards ELSE Filled(forwards)

Goto(step) == task' = [task EXCEPT !.step = step]
Reached(step, state) == task' = [task EXCEPT !.step = step, !.from = state]

\* Execute, Recover's treatment of one row, or RollbackCommitted returns.
Return(ok) ==
    task' = IF task.run = "recovery"
            THEN [task EXCEPT !.step = "next_operation", !.erred = @ \/ ~ok,
                              !.row = 0, !.from = "PREPARED", !.seen = None, !.todo = {}]
            ELSE IdleTask

Proceed(step) == IF step = "fail" THEN Return(FALSE) ELSE Goto(step)

\* One TransitionOperation from the state the task believes in: it succeeds, it
\* conflicts, or it reports an error whether or not SQLite committed it.
Transition(to, detail, OnSuccess, onError) ==
    LET applies == TransitionApplies(journal, task.row, task.from, to)
        written == Transitioned(journal, task.row, task.from, to, detail)
    IN  \/ applies /\ journal' = written /\ OnSuccess /\ UNCHANGED faults
        \/ ~applies /\ Proceed(onError) /\ UNCHANGED <<journal, faults>>
        \/ Fault /\ journal' \in {journal, written} /\ Proceed(onError)

\* A failing install rolls back.  A failing restore is FAILED, unless an
\* operator asked for it: RollbackCommitted leaves the row in ROLLING_BACK.
OnError ==
    CASE task.from # "ROLLING_BACK"                        -> Goto("roll_back")
      [] task.from = "ROLLING_BACK" /\ task.run = "rollback" -> Return(FALSE)
      [] OTHER                                             -> Goto("mark_failed")

\* Tracker.Ready and no unfinished operation, under the lock.
Gate == tracker = "succeeded" /\ UnfinishedRows(journal) = {}

Idle == up /\ tracker # "none" /\ task = IdleTask

-------------------------------------------------------------------------------
(* Files for nft and iptables-restore.                                     *)

\* Faulty variant: the anchors are always inserted.
CandidateFileWithAnchors(forwards, base) ==
    [c \in Chains |-> [anchor |-> "insert", chain |-> "fill", rules |-> forwards]]

\* renderIPTables: declaring a chain creates or empties it; an anchor is
\* inserted where the inspected state had none.
CandidateFile(forwards, base) ==
    [c \in Chains |->
        [anchor |-> IF base[c].anchors > 0 THEN "keep" ELSE "insert",
         chain |-> "fill", rules |-> forwards]]

\* Faulty variant: the anchors stay, and so do the chains they jump to.
RestoreFileKeepingAnchors(previous, current) ==
    [c \in Chains |->
        [anchor |-> "keep",
         chain |-> IF previous[c].present THEN "fill" ELSE "keep",
         rules |-> previous[c].rules]]

\* BuildIPTablesRollback, the difference between the snapshot and what is there.
RestoreFile(previous, current) ==
    [c \in Chains |->
        [anchor |-> IF current[c].anchors > previous[c].anchors THEN "delete"
                    ELSE IF previous[c].anchors > current[c].anchors THEN "insert"
                    ELSE "keep",
         chain |-> IF previous[c].present THEN "fill"
                   ELSE IF current[c].present THEN "drop"
                   ELSE "keep",
         rules |-> previous[c].rules]]

\* A table is committed whole or not at all: a rule that is to be deleted must
\* be there, and a chain that is to be removed must not be jumped to.
AcceptsTable(state, table, file) ==
    \A c \in Chains : TableOf[c] = table =>
        /\ file[c].anchor = "delete" => state[c].anchors > 0
        /\ file[c].anchor = "insert" => file[c].chain = "fill" \/ state[c].present
        /\ file[c].chain = "drop" => state[c].anchors = (IF file[c].anchor = "delete" THEN 1 ELSE 0)

Committed(state, table, file) ==
    [c \in Chains |->
        IF TableOf[c] # table \/ (file[c].chain = "keep" /\ file[c].anchor = "keep")
        THEN state[c]
        ELSE IF file[c].chain = "drop" THEN NoChain
        ELSE [present |-> TRUE,
              anchors |-> CASE file[c].anchor = "keep"   -> state[c].anchors
                            [] file[c].anchor = "insert" -> state[c].anchors + 1
                            [] file[c].anchor = "delete" -> state[c].anchors - 1,
              rules |-> IF file[c].chain = "fill" THEN file[c].rules ELSE state[c].rules]]

-------------------------------------------------------------------------------
(* Execute.                                                                *)

\* Faulty variant: nftables wins whenever it is installed.
PreferNftables(f, nftAvailable, iptablesAvailable, iptablesInspected) ==
    IF nftAvailable THEN "nftables" ELSE "iptables"

\* selectNATEngine, from the capability probes and the inspection of both engines.
\* An iptables inspection that fails counts as finding nothing when nftables is
\* available.
SelectedEngine(f, nftAvailable, iptablesAvailable, iptablesInspected) ==
    LET nftExists == nftAvailable /\ nft[f] # None
        iptableExists == iptablesAvailable /\ iptablesInspected /\ OwnsChains(ipt[f])
    IN  IF (nftExists /\ iptableExists)
            \/ (~nftAvailable /\ ~(iptablesAvailable /\ iptablesInspected)) THEN "error"
        ELSE IF iptableExists \/ ~nftAvailable THEN "iptables"
        ELSE "nftables"

Planned(f, forwards, engine) ==
    /\ engine # "error"
    /\ task' = [IdleTask EXCEPT !.run = "client", !.step = "create",
                    !.plan = [object |-> <<engine, f>>, forwards |-> forwards,
                              base |-> Content(<<engine, f>>)]]

\* The NAT apply handler: gate, inventory and plan.  One probe or inspection may
\* fail.
ApplyRequested ==
    /\ Idle /\ Gate /\ Len(journal) < MaxOperations
    /\ \E f \in Families, forwards \in Forwards, failing \in SUBSET {"nft", "iptables", "save"} :
           LET engine == SelectedEngine(f, "nftables" \in installed /\ "nft" \notin failing,
                                        "iptables" \in installed /\ "iptables" \notin failing,
                                        "save" \notin failing)
           IN  /\ Cardinality(failing) <= 1
               /\ IF failing = {} THEN UNCHANGED <<faults, misprobed>>
                  ELSE Fault /\ misprobed' = TRUE
               /\ Planned(f, forwards, engine)
    /\ UNCHANGED <<process, journal, installed, kernel, recoveries, crashes, disturbed, wiped>>

\* What Execute compares the inspected state with: the existence of the nftables
\* table, or the hash of the iptables state.
Unchanged(plan) ==
    IF plan.object[1] = "nftables" THEN (nft[plan.object[2]] = None) = (plan.base = None)
    ELSE ipt[plan.object[2]] = plan.base

others == <<process, installed, recoveries, crashes, misprobed>>

Create ==
    /\ task.step = "create"
    /\ LET row == Len(journal) + 1
           created == Created(journal, row, task.plan.object, Content(task.plan.object),
                              task.plan.forwards)
       IN  \/ /\ Unchanged(task.plan) /\ journal' = created /\ UNCHANGED faults
              /\ task' = [task EXCEPT !.step = "validate", !.row = row]
           \/ ~Unchanged(task.plan) /\ Return(FALSE) /\ UNCHANGED <<journal, faults>>
           \/ Fault /\ journal' \in {journal, created} /\ Return(FALSE)
    /\ disturbed' = {}
    /\ UNCHANGED <<others, kernel, wiped>>

\* nft --check or iptables-restore --test.
Validate ==
    /\ task.step = "validate"
    /\ \/ Transition("VALIDATED", "none", Reached("mark_applying", "VALIDATED"), "fail")
       \/ Fault /\ Goto("mark_not_applied") /\ UNCHANGED journal
    /\ UNCHANGED <<others, kernel, disturbed, wiped>>

MarkNotApplied ==
    /\ task.step = "mark_not_applied"
    /\ Transition("FAILED", IF task.run = "recovery" THEN "interrupted" ELSE "not_applied",
                  Return(task.run = "recovery"), "fail")
    /\ UNCHANGED <<others, kernel, disturbed, wiped>>

MarkApplying ==
    /\ task.step = "mark_applying"
    /\ Transition("APPLYING", "none",
                  task' = [task EXCEPT !.step = "install", !.from = "APPLYING", !.todo = Tables],
                  "mark_not_applied")
    /\ UNCHANGED <<others, kernel, disturbed, wiped>>

-------------------------------------------------------------------------------
(* Installing and restoring: the same commands with different files.       *)

\* nft replaces the table in one transaction, unless a table it is to delete is
\* gone.
AcceptsNft(f, base) == base # None => nft[f] # None

Install(object, base, new, file, next) ==
    LET f == object[2]
        table == IF "nat" \in task.todo THEN "nat" ELSE "filter"
        accepted == IF object[1] = "nftables" THEN AcceptsNft(f, base)
                    ELSE AcceptsTable(ipt[f], table, file)
        written == IF object[1] = "nftables"
                   THEN nft' = [nft EXCEPT ![f] = new] /\ UNCHANGED ipt
                   ELSE ipt' = [ipt EXCEPT ![f] = Committed(@, table, file)] /\ UNCHANGED nft
        complete == object[1] = "nftables" \/ table = "filter"
    IN  \/ /\ accepted /\ written /\ UNCHANGED faults
           /\ task' = [task EXCEPT !.todo = IF complete THEN {} ELSE {"filter"},
                                   !.step = IF complete THEN next ELSE @]
        \/ ~accepted /\ OnError /\ UNCHANGED <<kernel, faults>>
        \/ Fault /\ ((accepted /\ written) \/ UNCHANGED kernel) /\ OnError

InstallCandidate ==
    /\ task.step = "install"
    /\ LET object == Entry.component
       IN  Install(object, Entry.snapshot, Entry.candidate,
                   CandidateFile(Entry.candidate, Entry.snapshot), "mark_verifying")
    /\ UNCHANGED <<others, journal, disturbed, wiped>>

MarkVerifying ==
    /\ task.step = "mark_verifying"
    /\ Transition("VERIFYING", "none", Reached("verify", "VERIFYING"), "roll_back")
    /\ UNCHANGED <<others, kernel, disturbed, wiped>>

\* Faulty variant: only the targets are probed.
VerifiedTargets(object) == TRUE

\* SystemVerifier.Verify and verifyIPTables: the table, or the three anchors.
\* What the rules are is not compared.
Verified(object) ==
    IF object[1] = "nftables" THEN nft[object[2]] # None
    ELSE \A c \in Chains : ipt[object[2]][c].anchors > 0

\* A target that has no route fails the verification too.
Verify ==
    /\ task.step = "verify"
    /\ \/ Verified(Entry.component) /\ Goto("commit") /\ UNCHANGED faults
       \/ ~Verified(Entry.component) /\ Goto("roll_back") /\ UNCHANGED faults
       \/ Fault /\ Goto("roll_back")
    /\ disturbed' = {}
    /\ UNCHANGED <<others, journal, kernel, wiped>>

Commit ==
    /\ task.step = "commit"
    /\ Transition("COMMITTED", "none", Return(TRUE), "roll_back")
    /\ UNCHANGED <<others, kernel, disturbed, wiped>>

RollBack ==
    /\ task.step = "roll_back"
    /\ Transition("ROLLING_BACK", "none", Reached("restore", "ROLLING_BACK"), "fail")
    /\ UNCHANGED <<others, kernel, disturbed, wiped>>

\* restoreSnapshot and restoreIPTablesSnapshot: inspect, compute and check the file.
Restore ==
    /\ task.step = "restore"
    /\ LET object == Entry.component
           nothing == object[1] = "nftables" /\ Entry.snapshot = None /\ Content(object) = None
       IN  \/ /\ task' = [task EXCEPT !.step = IF nothing THEN "mark_rolled_back" ELSE "write",
                                      !.seen = Content(object), !.todo = Tables]
              /\ UNCHANGED faults
           \/ Fault /\ OnError
    /\ disturbed' = {}
    /\ UNCHANGED <<others, journal, kernel, wiped>>

WriteSnapshot ==
    /\ task.step = "write"
    /\ LET object == Entry.component
       IN  Install(object, task.seen, Entry.snapshot, RestoreFile(Entry.snapshot, task.seen),
                   "mark_rolled_back")
    /\ UNCHANGED <<others, journal, disturbed, wiped>>

MarkRolledBack ==
    /\ task.step = "mark_rolled_back"
    /\ Transition("ROLLED_BACK", "none", Return(TRUE), "fail")
    /\ UNCHANGED <<others, kernel, disturbed, wiped>>

MarkFailed ==
    /\ task.step = "mark_failed"
    /\ Transition("FAILED", "rollback_failed", Return(FALSE), "fail")
    /\ UNCHANGED <<others, kernel, disturbed, wiped>>

\* The rollback handler and RollbackCommitted: the newest committed operation, if
\* what it installed is still there.
RollbackRequested ==
    /\ Idle /\ Gate
    /\ \E row \in DOMAIN journal :
           /\ IsLatestCommitted(journal, row) /\ journal[row].damage = "none"
           /\ Content(journal[row].component)
                  = Rendered(journal[row].component, journal[row].candidate)
           /\ task' = [IdleTask EXCEPT !.run = "rollback", !.step = "mark_rolling_back",
                           !.row = row, !.from = "COMMITTED"]
    /\ UNCHANGED <<others, journal, kernel, faults, disturbed, wiped>>

MarkRollingBack ==
    /\ task.step = "mark_rolling_back"
    /\ Transition("ROLLING_BACK", "operator_requested", Reached("restore", "ROLLING_BACK"), "fail")
    /\ UNCHANGED <<others, kernel, disturbed, wiped>>

-------------------------------------------------------------------------------
(* Recovery.                                                               *)

StartRecovery ==
    task' = [IdleTask EXCEPT !.run = "recovery", !.step = "next_operation",
                 !.rows = UnfinishedRows(journal)]

Start ==
    /\ ~up /\ up' = TRUE /\ tracker' = "none"
    /\ StartRecovery
    /\ UNCHANGED <<journal, installed, kernel, counters, history>>

RecoveryRequested ==
    /\ Idle /\ recoveries < MaxRecoveries /\ recoveries' = recoveries + 1
    /\ StartRecovery
    /\ UNCHANGED <<process, journal, installed, kernel, faults, crashes, history>>

\* One row of Recover's loop; a row that does not authenticate is left alone and
\* makes the run fail.
NextOperation ==
    /\ task.step = "next_operation" /\ task.rows # {}
    /\ LET row == CHOOSE r \in task.rows : \A other \in task.rows : r <= other
           state == journal[row].state
           taken == [task EXCEPT !.rows = @ \ {row}, !.row = row, !.from = state]
       IN  task' = CASE journal[row].damage # "none" -> [task EXCEPT !.rows = @ \ {row}, !.erred = TRUE]
                     [] journal[row].damage = "none" /\ state \in {"PREPARED", "VALIDATED"}
                          -> [taken EXCEPT !.step = "mark_not_applied"]
                     [] journal[row].damage = "none" /\ state \in {"APPLYING", "VERIFYING"}
                          -> [taken EXCEPT !.step = "roll_back"]
                     [] OTHER -> [taken EXCEPT !.step = "restore"]
    /\ UNCHANGED <<others, journal, kernel, faults, disturbed, wiped>>

\* The coordinator's verdict, with verifyRecoveryJournal as its last step.
FinishRecovery ==
    /\ task.step = "next_operation" /\ task.rows = {}
    /\ tracker' = IF task.erred \/ UnfinishedRows(journal) # {} THEN "failed" ELSE "succeeded"
    /\ task' = IdleTask
    /\ UNCHANGED <<up, journal, installed, kernel, counters, history>>

-------------------------------------------------------------------------------
(* Environment.                                                            *)

DaemonStops ==
    /\ up' = FALSE /\ tracker' = "none" /\ task' = IdleTask
    /\ crashes < MaxCrashes /\ crashes' = crashes + 1

Crash ==
    /\ up /\ DaemonStops
    /\ UNCHANGED <<journal, installed, kernel, recoveries, faults, history>>

\* Neither engine's rules outlive the host.
Reboot ==
    /\ DaemonStops
    /\ nft' = [f \in Families |-> None] /\ ipt' = [f \in Families |-> NoChains]
    /\ disturbed' = Objects /\ wiped' = Objects
    /\ UNCHANGED <<journal, installed, recoveries, faults, misprobed>>

\* Other software flushes the nftables ruleset, or the built-in chains of an
\* iptables table and the anchors with them.
RulesetFlushed ==
    /\ Fault
    /\ \E f \in Families :
           \/ /\ nft[f] # None /\ nft' = [nft EXCEPT ![f] = None] /\ UNCHANGED ipt
              /\ disturbed' = disturbed \cup {<<"nftables", f>>}
              /\ wiped' = wiped \cup {<<"nftables", f>>}
           \/ /\ \E table \in Tables :
                     /\ \E c \in Chains : TableOf[c] = table /\ ipt[f][c].anchors > 0
                     /\ ipt' = [ipt EXCEPT ![f] = [c \in Chains |->
                                   IF TableOf[c] = table THEN [@[c] EXCEPT !.anchors = 0] ELSE @[c]]]
              /\ UNCHANGED nft
              /\ disturbed' = disturbed \cup {<<"iptables", f>>}
              /\ wiped' = wiped \cup {<<"iptables", f>>}
    /\ UNCHANGED <<process, task, journal, installed, recoveries, crashes, misprobed>>

NftablesInstalled ==
    /\ installed # Engines /\ installed' = Engines
    /\ UNCHANGED <<process, task, journal, kernel, counters, history>>

Tamper(row) ==
    /\ ~up /\ journal[row].damage = "none" /\ Fault
    /\ journal' = [journal EXCEPT ![row].damage = "unreadable"]
    /\ UNCHANGED <<process, task, installed, kernel, recoveries, crashes, history>>

Next ==
    \/ Start \/ ApplyRequested \/ RollbackRequested \/ RecoveryRequested
    \/ Create \/ Validate \/ MarkNotApplied \/ MarkApplying \/ InstallCandidate
    \/ MarkVerifying \/ Verify \/ Commit \/ RollBack \/ MarkRollingBack \/ Restore
    \/ WriteSnapshot \/ MarkRolledBack \/ MarkFailed \/ NextOperation \/ FinishRecovery
    \/ Crash \/ Reboot \/ RulesetFlushed \/ NftablesInstalled
    \/ \E row \in DOMAIN journal : Tamper(row)

Spec == Init /\ [][Next]_vars

-------------------------------------------------------------------------------
(* Safety.                                                                 *)

Troubled == \E row \in DOMAIN journal : journal[row].detail = "rollback_failed"

\* While the daemon is ready and nothing is in flight, the kernel holds, for each
\* engine and family, exactly what the newest committed operation on it installed,
\* every anchor and chain included, and nothing where none is committed, whatever
\* applies, rollbacks, crashes and recoveries came before.  A restore that gave up
\* and other software's changes of that engine and family suspend the promise.
SettledNat ==
    Gate /\ task = IdleTask /\ ~Troubled =>
        \A object \in Objects \ wiped :
            LET commits == {row \in DOMAIN journal : journal[row].state = "COMMITTED"
                                                     /\ journal[row].component = object}
            IN  IF commits = {}
                THEN Content(object) = IF object[1] = "nftables" THEN None ELSE NoChains
                ELSE \E row \in commits :
                         /\ \A other \in commits : other <= row
                         /\ Content(object) = Rendered(object, journal[row].candidate)

\* The journal never reports an outcome the kernel does not have: when a row becomes
\* COMMITTED its candidate is installed completely, and when it becomes ROLLED_BACK
\* its snapshot is back exactly, unless other software changed the rules after the
\* last look the operation took at them.
OutcomeIsExact ==
    [][\A row \in DOMAIN journal :
          LET entry == journal'[row]
              outcome == CASE entry.state = "COMMITTED" -> Rendered(entry.component, entry.candidate)
                           [] OTHER -> entry.snapshot
          IN  /\ entry.state # journal[row].state
              /\ entry.state \in {"COMMITTED", "ROLLED_BACK"}
              => entry.component \in disturbed \/ Content(entry.component) = outcome]_vars

\* As long as no probe or inspection has failed while an engine was selected, the
\* two engines never hold rules for the same family at once, whichever of them is
\* installed when and whatever is applied, rolled back, recovered or lost.  A look
\* that fails is taken for an engine that owns nothing, and then they can meet,
\* whatever specs/005-nat-port-forward-engine/spec.md:59 says.
ExclusiveEngines ==
    misprobed \/ \A f \in Families : nft[f] = None \/ ~OwnsChains(ipt[f])

===============================================================================
