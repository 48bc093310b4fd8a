------------------------------ MODULE MutationLock ------------------------------
(***************************************************************************)
(* The host mutation lock of egressd: a file with an advisory flock and an *)
(* owner document (internal/reliability/lock.go, lock_linux.go), the       *)
(* requests that take it (withMutationLock and mutate in app/daemon.go),   *)
(* startup recovery, and the recovery status, which inspects the lock with *)
(* the same flock and reads the journal and the tracker afterwards         *)
(* (internal/reliability/status.go).                                       *)
(*                                                                         *)
(* Requests run in goroutines of one daemon.  An action is one system      *)
(* call, one read of the journal or one use of the tracker, so requests    *)
(* and inspections interleave between any two of them; the daemon may be   *)
(* killed in front of each.  What a request does to the host while it      *)
(* holds the lock is in the other modules: here it leaves an unfinished    *)
(* operation in the journal or not.                                        *)
(***************************************************************************)
EXTENDS Naturals, FiniteSets

CONSTANTS
    Requests,    \* goroutines that serve mutations
    Inspectors,  \* goroutines that serve recovery.status
    Startup,     \* the goroutine of startup recovery
    Nobody,
    MaxFaults,   \* bound on system calls and operations that fail
    MaxCrashes   \* bound on deaths of the daemon

ASSUME LockAssumption ==
    /\ Requests \cap Inspectors = {}
    /\ Startup \notin Requests \cup Inspectors
    /\ Nobody \notin Requests \cup Inspectors \cup {Startup}
    /\ MaxFaults \in Nat /\ MaxCrashes \in Nat

Tasks == Requests \cup {Startup}

VARIABLES
    up,          \* egressd runs
    tracker,     \* reliability.Tracker: outcome of this process' last recovery run
    unfinished,  \* operation_journal has an unfinished operation
    flock,       \* whose file description has the flock
    document,    \* the content of the lock file
    pc,          \* pc[t]: what the goroutine does next
    kind,        \* kind[t]: what the request is for
    erred,       \* erred[t]: a step of what the request does has failed
    owner,       \* owner[i]: the owner document an inspection has read
    report,      \* report[i]: what an inspection has found so far
    faults, crashes,
    seen,        \* history: seen[i]: what was true at some moment of the inspection
    torn         \* history: an owner document could not be written

goroutines == <<pc, kind, erred>>
inspections == <<owner, report>>
vars == <<up, tracker, unfinished, flock, document, goroutines, inspections, faults, crashes,
          seen, torn>>

Absent == [owner |-> Nobody, released |-> FALSE, readable |-> FALSE]  \* no file yet
Unreadable == [owner |-> Nobody, released |-> TRUE, readable |-> FALSE]  \* truncated
Owned(t) == [owner |-> t, released |-> FALSE, readable |-> TRUE]
Released(t) == [owner |-> t, released |-> TRUE, readable |-> TRUE]

Documents == {Absent, Unreadable} \cup {Owned(t) : t \in Tasks} \cup {Released(t) : t \in Tasks}

LeaseSteps == {"gate", "run", "record", "truncate_released", "write_released", "unlock"}
AcquireSteps == {"lock", "truncate_owner", "write_owner", "abandon"}
InspectSteps == {"read_owner", "probe", "unlock_probe", "read_journal", "read_tracker"}

NoReport == [active |-> FALSE, owner |-> Nobody, unfinished |-> FALSE]
NothingSeen == [ready |-> FALSE, free |-> FALSE, holders |-> {}]

TypeOK ==
    /\ up \in BOOLEAN /\ unfinished \in BOOLEAN /\ torn \in BOOLEAN
    /\ tracker \in {"none", "succeeded", "failed"}
    /\ flock \in Tasks \cup Inspectors \cup {Nobody}
    /\ document \in Documents
    /\ pc \in [Tasks \cup Inspectors ->
                  {"idle"} \cup AcquireSteps \cup LeaseSteps \cup InspectSteps]
    /\ kind \in [Tasks -> {"apply", "recovery"}]
    /\ erred \in [Tasks -> BOOLEAN]
    /\ owner \in [Inspectors -> Documents]
    /\ report \in [Inspectors -> [active : BOOLEAN, owner : Tasks \cup {Nobody},
                                  unfinished : BOOLEAN]]
    /\ faults \in 0..MaxFaults /\ crashes \in 0..MaxCrashes
    /\ \A t \in Tasks : flock = t <=> pc[t] \in LeaseSteps \cup (AcquireSteps \ {"lock"})
    /\ \A i \in Inspectors : flock = i <=> pc[i] = "unlock_probe"
    /\ seen \in [Inspectors -> [ready : BOOLEAN, free : BOOLEAN, holders : SUBSET Tasks]]

Init ==
    /\ up = FALSE /\ tracker = "none" /\ unfinished = FALSE
    /\ flock = Nobody /\ document = Absent
    /\ pc = [t \in Tasks \cup Inspectors |-> "idle"]
    /\ kind = [t \in Tasks |-> "recovery"]
    /\ erred = [t \in Tasks |-> FALSE]
    /\ owner = [i \in Inspectors |-> Absent] /\ report = [i \in Inspectors |-> NoReport]
    /\ faults = 0 /\ crashes = 0
    /\ seen = [i \in Inspectors |-> NothingSeen] /\ torn = FALSE

-------------------------------------------------------------------------------
(* Helpers.                                                                *)

Fault == faults < MaxFaults /\ faults' = faults + 1

Goto(t, step) == pc' = [pc EXCEPT ![t] = step] /\ UNCHANGED <<kind, erred>>

\* The request is answered; what the goroutine kept is gone.
Answer(t) == /\ pc' = [pc EXCEPT ![t] = "idle"]
             /\ kind' = [kind EXCEPT ![t] = "recovery"]
             /\ erred' = [erred EXCEPT ![t] = FALSE]

\* An inspection that is over keeps nothing.
EndInspection(i) == /\ Goto(i, "idle")
                    /\ owner' = [owner EXCEPT ![i] = Absent]
                    /\ report' = [report EXCEPT ![i] = NoReport]

Ready == tracker = "succeeded" /\ ~unfinished
Holds(t) == pc[t] \in LeaseSteps
Holder == IF \E t \in Tasks : Holds(t) THEN CHOOSE t \in Tasks : Holds(t) ELSE Nobody

\* Handlers are served when startup recovery has released the lock.
Serving == up /\ tracker # "none" /\ pc[Startup] = "idle"

host == <<up, tracker, unfinished>>
lockFile == <<flock, document>>

-------------------------------------------------------------------------------
(* TryAcquire.                                                             *)

\* Faulty variant: the lock is shared.
SharedLockable(t) == TRUE

\* flock(LOCK_EX|LOCK_NB) of a file description of one's own.
Lockable(t) == flock = Nobody

\* A request for an apply, or for recovery, whose handler takes the lock.
Request(t) ==
    /\ Serving /\ pc[t] = "idle"
    /\ \E k \in {"apply", "recovery"} : kind' = [kind EXCEPT ![t] = k]
    /\ pc' = [pc EXCEPT ![t] = "lock"]
    /\ UNCHANGED <<erred, host, lockFile, inspections, faults, crashes, torn>>

\* open(O_CREAT) and flock: a file description that somebody else has locked is
\* a BusyError.
TryLock(t) ==
    /\ pc[t] = "lock"
    /\ \/ /\ Lockable(t)
          /\ flock' = t
          /\ document' = IF document = Absent THEN Unreadable ELSE document
          /\ Goto(t, "truncate_owner")
       \/ ~Lockable(t) /\ Answer(t) /\ UNCHANGED lockFile
    /\ UNCHANGED <<host, inspections, faults, crashes, torn>>

\* writeOwner truncates first.  The process identity is read before that.
TruncateOwner(t) ==
    /\ pc[t] = "truncate_owner"
    /\ \/ document' = Unreadable /\ Goto(t, "write_owner") /\ UNCHANGED <<faults, torn>>
       \/ /\ Fault /\ document' \in {document, Unreadable} /\ torn' = TRUE
          /\ Goto(t, "abandon")
    /\ UNCHANGED <<host, flock, inspections, crashes>>

WriteOwner(t) ==
    /\ pc[t] = "write_owner"
    /\ \/ document' = Owned(t) /\ Goto(t, "gate") /\ UNCHANGED <<faults, torn>>
       \/ Fault /\ UNCHANGED document /\ torn' = TRUE /\ Goto(t, "abandon")
    /\ UNCHANGED <<host, flock, inspections, crashes>>

Died(t) == /\ up' = ~(t = Startup)
           /\ tracker' = IF t = Startup THEN "none" ELSE tracker

\* An acquisition that fails after the flock gives it up; the daemon does not
\* start without it.
Abandon(t) ==
    /\ pc[t] = "abandon"
    /\ flock' = Nobody
    /\ Died(t)
    /\ Answer(t)
    /\ UNCHANGED <<unfinished, document, inspections, faults, crashes, torn>>

-------------------------------------------------------------------------------
(* What runs under the lock.                                               *)

\* mutate: the tracker is ready and the journal has nothing unfinished.
Gate(t) ==
    /\ pc[t] = "gate"
    /\ \/ (kind[t] = "recovery" \/ Ready) /\ Goto(t, "run")
       \/ kind[t] = "apply" /\ ~Ready /\ Goto(t, "truncate_released")
    /\ UNCHANGED <<host, lockFile, inspections, faults, crashes, torn>>

AfterRun(t) == IF kind[t] = "recovery" THEN "record" ELSE "truncate_released"

\* An operation is journaled before it changes the host, and finished when it
\* committed, rolled back or failed.
Begin(t) ==
    /\ pc[t] = "run" /\ ~unfinished /\ unfinished' = TRUE
    /\ UNCHANGED <<up, tracker, lockFile, goroutines, inspections, faults, crashes, torn>>

Finish(t) ==
    /\ pc[t] = "run"
    /\ unfinished' = FALSE
    /\ Goto(t, AfterRun(t))
    /\ UNCHANGED <<up, tracker, lockFile, inspections, faults, crashes, torn>>

\* A step fails; the operation may stay unfinished.
Fail(t) ==
    /\ pc[t] = "run" /\ Fault
    /\ pc' = [pc EXCEPT ![t] = AfterRun(t)]
    /\ erred' = [erred EXCEPT ![t] = TRUE]
    /\ UNCHANGED kind
    /\ UNCHANGED <<host, lockFile, inspections, crashes, torn>>

\* Tracker.Record: the coordinator's last step has found the journal finished,
\* or a step failed.
Record(t) ==
    /\ pc[t] = "record"
    /\ tracker' = IF erred[t] THEN "failed" ELSE "succeeded"
    /\ Goto(t, "truncate_released")
    /\ UNCHANGED <<up, unfinished, lockFile, inspections, faults, crashes, torn>>

-------------------------------------------------------------------------------
(* Lease.Release: the owner document, the flock and the file, each tried   *)
(* whatever became of the one before.                                      *)

\* ReleasedAt is refused when the clock went back; the write may fail too.
TruncateReleased(t) ==
    /\ pc[t] = "truncate_released"
    /\ \/ document' = Unreadable /\ Goto(t, "write_released") /\ UNCHANGED <<faults, torn>>
       \/ /\ Fault /\ document' \in {document, Unreadable} /\ torn' = TRUE
          /\ Goto(t, "unlock")
    /\ UNCHANGED <<host, flock, inspections, crashes>>

\* Faulty variant: a failed write returns before the flock is given up.
WriteReleasedOrKeep(t) ==
    /\ pc[t] = "write_released"
    /\ \/ document' = Released(t) /\ Goto(t, "unlock") /\ UNCHANGED <<faults, torn>>
       \/ /\ Fault /\ UNCHANGED document /\ torn' = TRUE
          /\ Answer(t)
    /\ UNCHANGED <<host, flock, inspections, crashes>>

WriteReleased(t) ==
    /\ pc[t] = "write_released"
    /\ \/ document' = Released(t) /\ Goto(t, "unlock") /\ UNCHANGED <<faults, torn>>
       \/ /\ Fault /\ UNCHANGED document /\ torn' = TRUE
          /\ Goto(t, "unlock")
    /\ UNCHANGED <<host, flock, inspections, crashes>>

\* Startup recovery that cannot release the lock ends the daemon.
Unlock(t) ==
    /\ pc[t] = "unlock"
    /\ flock' = Nobody
    /\ IF t = Startup /\ torn THEN Died(t) ELSE UNCHANGED <<up, tracker>>
    /\ Answer(t)
    /\ UNCHANGED <<unfinished, document, inspections, faults, crashes, torn>>

-------------------------------------------------------------------------------
(* recovery.status.                                                        *)

\* FileLock.Inspect opens the file and reads the owner before it tries the flock.
StatusRequest(i) ==
    /\ Serving /\ pc[i] = "idle"
    /\ Goto(i, "read_owner")
    /\ UNCHANGED <<host, lockFile, inspections, faults, crashes, torn>>

ReadOwner(i) ==
    /\ pc[i] = "read_owner"
    /\ owner' = [owner EXCEPT ![i] = document]
    /\ Goto(i, "probe")
    /\ UNCHANGED <<host, lockFile, report, faults, crashes, torn>>

\* An active lock is reported with the owner read before; a document that could
\* not be read is an error only when nobody has the flock.
Probe(i) ==
    LET named == IF owner[i].readable THEN owner[i].owner ELSE Nobody
    IN  /\ pc[i] = "probe"
        /\ \/ Lockable(i) /\ flock' = i /\ Goto(i, "unlock_probe") /\ UNCHANGED report
           \/ /\ ~Lockable(i)
              /\ report' = [report EXCEPT ![i].active = TRUE, ![i].owner = named]
              /\ Goto(i, "read_journal")
              /\ UNCHANGED flock
        /\ UNCHANGED <<host, document, owner, faults, crashes, torn>>

UnlockProbe(i) ==
    /\ pc[i] = "unlock_probe"
    /\ flock' = Nobody
    /\ IF owner[i].readable THEN Goto(i, "read_journal") /\ UNCHANGED inspections
                            ELSE EndInspection(i)
    /\ UNCHANGED <<host, document, faults, crashes, torn>>

ReadJournal(i) ==
    /\ pc[i] = "read_journal"
    /\ report' = [report EXCEPT ![i].unfinished = unfinished]
    /\ Goto(i, "read_tracker")
    /\ UNCHANGED <<host, lockFile, owner, faults, crashes, torn>>

\* Faulty variant: the tracker alone decides.
ReadyTracker(i) == tracker = "succeeded"

\* Ready unless the journal had something unfinished or the tracker is not ready.
ReportedReady(i) == ~report[i].unfinished /\ tracker = "succeeded"

\* The tracker is read last, and the status answered.
ReadTracker(i) ==
    /\ pc[i] = "read_tracker"
    /\ EndInspection(i)
    /\ UNCHANGED <<host, lockFile, faults, crashes, torn>>

-------------------------------------------------------------------------------
(* The daemon.                                                             *)

\* Startup recovery takes the lock before anything is served.
Start ==
    /\ ~up /\ up' = TRUE
    /\ pc' = [pc EXCEPT ![Startup] = "lock"]
    /\ torn' = FALSE
    /\ UNCHANGED <<tracker, unfinished, lockFile, kind, erred, inspections, faults, crashes>>

\* The kernel drops the flock of a dead process; the document stays.
Crash ==
    /\ up /\ up' = FALSE
    /\ crashes < MaxCrashes /\ crashes' = crashes + 1
    /\ tracker' = "none" /\ flock' = Nobody
    /\ pc' = [t \in Tasks \cup Inspectors |-> "idle"]
    /\ kind' = [t \in Tasks |-> "recovery"] /\ erred' = [t \in Tasks |-> FALSE]
    /\ owner' = [i \in Inspectors |-> Absent] /\ report' = [i \in Inspectors |-> NoReport]
    /\ UNCHANGED <<unfinished, document, faults, torn>>

\* History: what has been true since inspection i began.
Watch ==
    seen' = [i \in Inspectors |->
                IF pc'[i] = "idle" THEN NothingSeen
                ELSE [ready   |-> seen[i].ready \/ Ready',
                      free    |-> seen[i].free \/ Holder' = Nobody,
                      holders |-> seen[i].holders \cup ({Holder'} \ {Nobody})]]

Acquiring(t) == TryLock(t) \/ TruncateOwner(t) \/ WriteOwner(t) \/ Abandon(t)
Running(t) == Gate(t) \/ Begin(t) \/ Finish(t) \/ Fail(t) \/ Record(t)
Releasing(t) == TruncateReleased(t) \/ WriteReleased(t) \/ Unlock(t)
Task(t) == (Acquiring(t) \/ Running(t) \/ Releasing(t)) /\ Watch

Inspection(i) ==
    /\ ReadOwner(i) \/ Probe(i) \/ UnlockProbe(i) \/ ReadJournal(i) \/ ReadTracker(i)
    /\ Watch

Environment ==
    /\ \/ Start \/ Crash
       \/ \E t \in Requests : Request(t)
       \/ \E i \in Inspectors : StatusRequest(i)
    /\ Watch

Next ==
    \/ Environment
    \/ \E t \in Tasks : Task(t)
    \/ \E i \in Inspectors : Inspection(i)

Spec == Init /\ [][Next]_vars

-------------------------------------------------------------------------------
(* Properties.                                                             *)

Lock == INSTANCE ExclusiveLock WITH holder <- Holder

\* The flock, the owner document and the paths that give them up implement the
\* lock the other modules take in one step: one task at a time runs a mutation or
\* a recovery, whatever fails and however inspections probe the lock.
ImplementsLock == Lock!Spec

\* A status that was assembled from three reads, with mutations and recoveries in
\* between, still describes a moment of the inspection: reported ready, the host was
\* ready; reported inactive, nobody held the lock; reported held by an operation
\* that has not released it, that operation did hold it.  An owner document that
\* could not be written suspends the last.
StatusWasTrue ==
    [][\A i \in Inspectors :
           pc[i] = "read_tracker" /\ pc'[i] = "idle" /\ up' =>
               /\ ReportedReady(i) => seen[i].ready
               /\ ~report[i].active => seen[i].free
               /\ (report[i].active /\ owner[i] = Owned(report[i].owner) /\ ~torn)
                      => report[i].owner \in seen[i].holders]_vars

===============================================================================
