--------------------------- MODULE MutationLockProofs ---------------------------
(***************************************************************************)
(* For any number of requests and inspections, faults and deaths: the      *)
(* calls on the lock file implement one exclusive lock, and a recovery     *)
(* status describes a moment of its inspection.                            *)
(***************************************************************************)
EXTENDS MutationLock, TLAPS

Goroutines == Tasks \cup Inspectors
Steps == {"idle"} \cup AcquireSteps \cup LeaseSteps \cup InspectSteps

\* Who has the flock, and the types of what decides it.
FlockOK ==
    /\ flock \in Tasks \cup Inspectors \cup {Nobody}
    /\ pc \in [Goroutines -> Steps]
    /\ \A t \in Tasks : flock = t <=> pc[t] \in LeaseSteps \cup (AcquireSteps \ {"lock"})
    /\ \A i \in Inspectors : flock = i <=> pc[i] = "unlock_probe"

Reports == [active : BOOLEAN, owner : Tasks \cup {Nobody}, unfinished : BOOLEAN]

\* The types of everything else but the history of the inspections.
RestOK ==
    /\ up \in BOOLEAN /\ unfinished \in BOOLEAN /\ torn \in BOOLEAN
    /\ tracker \in {"none", "succeeded", "failed"}
    /\ document \in Documents
    /\ kind \in [Tasks -> {"apply", "recovery"}]
    /\ erred \in [Tasks -> BOOLEAN]
    /\ owner \in [Inspectors -> Documents]
    /\ report \in [Inspectors -> Reports]
    /\ faults \in 0..MaxFaults /\ crashes \in 0..MaxCrashes

\* Nothing runs in a daemon that is down.
DownOK == ~up => \A g \in Goroutines : pc[g] = "idle"

\* Startup recovery runs alone.
StartupAlone ==
    pc[Startup] # "idle" => \A g \in Requests \cup Inspectors : pc[g] = "idle"

\* A recovery that records success has left the journal finished.
RecordOK == \A t \in Tasks : pc[t] = "record" /\ ~erred[t] => ~unfinished

\* A document that names an owner names the holder, as long as every write of the
\* document succeeded and once startup has replaced what an earlier daemon left.
OwnerSteps == {"gate", "run", "record", "truncate_released"}
DocumentOK ==
    up /\ ~torn /\ pc[Startup] \notin {"lock", "truncate_owner"} =>
        \A t \in Tasks : document = Owned(t) => pc[t] \in OwnerSteps

LockInv == FlockOK /\ RestOK /\ DownOK /\ StartupAlone /\ RecordOK /\ DocumentOK

\* What an inspection has found so far was true since it began.
SeenOK ==
    \A i \in Inspectors :
        /\ pc[i] = "read_tracker" /\ ReportedReady(i) => seen[i].ready
        /\ pc[i] \in {"unlock_probe", "read_journal", "read_tracker"} /\ ~report[i].active
               => seen[i].free
        /\ \A t \in Tasks :
               /\ pc[i] \in {"probe", "unlock_probe", "read_journal", "read_tracker"}
               /\ ~torn /\ owner[i] = Owned(t)
               => t \in seen[i].holders

SeenTypeOK == seen \in [Inspectors -> [ready : BOOLEAN, free : BOOLEAN, holders : SUBSET Tasks]]

IInv == LockInv /\ SeenTypeOK /\ SeenOK

-------------------------------------------------------------------------------
(* Steps, without the history.                                             *)

Inspecting(i) ==
    ReadOwner(i) \/ Probe(i) \/ UnlockProbe(i) \/ ReadJournal(i) \/ ReadTracker(i)

Step ==
    \/ Start \/ Crash
    \/ \E t \in Requests : Request(t)
    \/ \E i \in Inspectors : StatusRequest(i)
    \/ \E t \in Tasks : Acquiring(t) \/ Running(t) \/ Releasing(t)
    \/ \E i \in Inspectors : Inspecting(i)

\* A step of the specification is one of these and updates the history.
LEMMA NextSteps == [Next]_vars => (Step /\ Watch) \/ UNCHANGED vars
  BY DEF Next, Environment, Task, Inspection, Step, Inspecting

\* Owner documents are told apart by their owner.
-------------------------------------------------------------------------------
(* Owner documents are told apart by their owner and their state.          *)

\* What is written to the lock file is a document.
LEMMA DocumentsHold ==
    /\ Absent \in Documents /\ Unreadable \in Documents
    /\ \A t \in Tasks : Owned(t) \in Documents /\ Released(t) \in Documents
  BY DEF Documents

\* An owner document that is not released differs from every other content.
LEMMA OwnedDiffer ==
    /\ \A t : Owned(t) # Absent /\ Owned(t) # Unreadable
    /\ \A t, u : Owned(t) # Released(u)
    /\ \A t, u : Owned(t) = Owned(u) => t = u
  BY DEF Owned, Released, Absent, Unreadable

\* A document that names an owner names a task.
LEMMA OwnersAreTasks == \A t : Owned(t) \in Documents => t \in Tasks
  <1> SUFFICES ASSUME NEW t, Owned(t) \in Documents PROVE t \in Tasks
    OBVIOUS
  <1>1. PICK u \in Tasks : Owned(t) = Owned(u)
    BY OwnedDiffer DEF Documents
  <1> QED
    BY <1>1, OwnedDiffer

\* Goroutines have one role.
LEMMA Apart ==
    /\ Nobody \notin Goroutines /\ Startup \in Tasks /\ Startup \notin Requests
    /\ Startup \notin Inspectors /\ Tasks \cap Inspectors = {} /\ Requests \subseteq Tasks
  BY LockAssumption DEF Goroutines, Tasks

\* The daemon that was never started satisfies the invariant.
LEMMA InitInv == Init => IInv
  <1> SUFFICES ASSUME Init PROVE IInv
    OBVIOUS
  <1>1. FlockOK
    BY Apart DEF Init, FlockOK, Goroutines, Steps, LeaseSteps, AcquireSteps
  <1>2. RestOK
    <2>1. NoReport \in Reports
      BY DEF NoReport, Reports
    <2>2. owner \in [Inspectors -> Documents] /\ report \in [Inspectors -> Reports]
      BY <2>1, DocumentsHold DEF Init
    <2>3. faults \in 0..MaxFaults /\ crashes \in 0..MaxCrashes
      BY LockAssumption DEF Init
    <2> QED
      BY <2>2, <2>3, DocumentsHold DEF Init, RestOK
  <1>3. DownOK /\ StartupAlone /\ RecordOK /\ DocumentOK
    BY Apart DEF Init, DownOK, StartupAlone, RecordOK, DocumentOK, Goroutines
  <1>4. SeenTypeOK /\ SeenOK
    BY DEF Init, SeenTypeOK, SeenOK, NothingSeen
  <1> QED
    BY <1>1, <1>2, <1>3, <1>4 DEF IInv, LockInv

-------------------------------------------------------------------------------
(* Each step keeps the flock with the goroutine that is past its flock call. *)

\* TypeOK's part on the flock: a step leaves it with the goroutine past its flock call.
LEMMA FlockStep == ASSUME LockInv, Step PROVE FlockOK'
  <1> USE Apart DEF LockInv, FlockOK, Goroutines, Steps, AcquireSteps, LeaseSteps, InspectSteps
  <1>1. CASE Start
    BY <1>1 DEF Start, DownOK, lockFile
  <1>2. CASE Crash
    BY <1>2 DEF Crash
  <1>3. ASSUME NEW t \in Requests, Request(t) PROVE FlockOK'
    BY <1>3 DEF Request, lockFile
  <1>4. ASSUME NEW i \in Inspectors, StatusRequest(i) PROVE FlockOK'
    BY <1>4 DEF StatusRequest, Goto, lockFile
  <1>5. ASSUME NEW t \in Tasks, Acquiring(t) PROVE FlockOK'
    <2>1. CASE TryLock(t)
      BY <2>1 DEF TryLock, Lockable, Goto, Answer, lockFile
    <2>2. CASE TruncateOwner(t) \/ WriteOwner(t)
      BY <2>2 DEF TruncateOwner, WriteOwner, Goto
    <2>3. CASE Abandon(t)
      BY <2>3 DEF Abandon, Answer
    <2> QED
      BY <1>5, <2>1, <2>2, <2>3 DEF Acquiring
  <1>6. ASSUME NEW t \in Tasks, Running(t) PROVE FlockOK'
    <2>1. CASE Gate(t) \/ Record(t)
      BY <2>1 DEF Gate, Record, Goto, lockFile
    <2>2. CASE Begin(t)
      BY <2>2 DEF Begin, goroutines, lockFile
    <2>3. CASE Finish(t) \/ Fail(t)
      BY <2>3 DEF Finish, Fail, AfterRun, Goto, lockFile
    <2> QED
      BY <1>6, <2>1, <2>2, <2>3 DEF Running
  <1>7. ASSUME NEW t \in Tasks, Releasing(t) PROVE FlockOK'
    <2>1. CASE TruncateReleased(t) \/ WriteReleased(t)
      BY <2>1 DEF TruncateReleased, WriteReleased, Goto
    <2>2. CASE Unlock(t)
      BY <2>2 DEF Unlock, Answer
    <2> QED
      BY <1>7, <2>1, <2>2 DEF Releasing
  <1>8. ASSUME NEW i \in Inspectors, Inspecting(i) PROVE FlockOK'
    <2>1. CASE ReadOwner(i) \/ ReadJournal(i)
      BY <2>1 DEF ReadOwner, ReadJournal, Goto, lockFile
    <2>2. CASE Probe(i)
      BY <2>2 DEF Probe, Lockable, Goto
    <2>3. CASE UnlockProbe(i)
      BY <2>3 DEF UnlockProbe, Goto, EndInspection
    <2>4. CASE ReadTracker(i)
      BY <2>4 DEF ReadTracker, EndInspection, Goto, lockFile
    <2> QED
      BY <1>8, <2>1, <2>2, <2>3, <2>4 DEF Inspecting
  <1> QED
    BY <1>1, <1>2, <1>3, <1>4, <1>5, <1>6, <1>7, <1>8 DEF Step

-------------------------------------------------------------------------------
(* Each step keeps the types.                                              *)

\* Faults stay within their bound.
LEMMA FaultOK == ASSUME RestOK, Fault PROVE faults' \in 0..MaxFaults
  BY LockAssumption DEF RestOK, Fault

\* A step keeps the types of everything else but the history.
LEMMA RestStep == ASSUME LockInv, Step PROVE RestOK'
  <1> USE Apart, DocumentsHold, FaultOK DEF LockInv, RestOK, host, lockFile, goroutines, inspections
  <1>r. NoReport \in Reports
    BY DEF NoReport, Reports
  <1>1. CASE Start
    BY <1>1 DEF Start
  <1>2. CASE Crash
    <2>1. crashes' \in 0..MaxCrashes
      BY <1>2, LockAssumption DEF Crash
    <2> QED
      BY <1>2, <1>r, <2>1 DEF Crash
  <1>3. ASSUME NEW t \in Requests, Request(t) PROVE RestOK'
    BY <1>3 DEF Request
  <1>4. ASSUME NEW i \in Inspectors, StatusRequest(i) PROVE RestOK'
    BY <1>4 DEF StatusRequest, Goto
  <1>5. ASSUME NEW t \in Tasks, Acquiring(t) PROVE RestOK'
    <2>1. CASE TryLock(t)
      BY <2>1 DEF TryLock, Goto, Answer
    <2>2. CASE TruncateOwner(t) \/ WriteOwner(t)
      BY <2>2 DEF TruncateOwner, WriteOwner, Goto
    <2>3. CASE Abandon(t)
      BY <2>3 DEF Abandon, Answer, Died
    <2> QED
      BY <1>5, <2>1, <2>2, <2>3 DEF Acquiring
  <1>6. ASSUME NEW t \in Tasks, Running(t) PROVE RestOK'
    <2>1. CASE Gate(t) \/ Record(t) \/ Begin(t)
      BY <2>1 DEF Gate, Record, Begin, Goto
    <2>2. CASE Finish(t) \/ Fail(t)
      BY <2>2 DEF Finish, Fail, Goto
    <2> QED
      BY <1>6, <2>1, <2>2 DEF Running
  <1>7. ASSUME NEW t \in Tasks, Releasing(t) PROVE RestOK'
    <2>1. CASE TruncateReleased(t) \/ WriteReleased(t)
      BY <2>1 DEF TruncateReleased, WriteReleased, Goto
    <2>2. CASE Unlock(t)
      BY <2>2 DEF Unlock, Answer, Died
    <2> QED
      BY <1>7, <2>1, <2>2 DEF Releasing
  <1>8. ASSUME NEW i \in Inspectors, Inspecting(i) PROVE RestOK'
    <2>1. report' \in [Inspectors -> Reports]
      <3>1. CASE ReadOwner(i)
        BY <3>1 DEF ReadOwner
      <3>2. CASE Probe(i)
        <4>1. (IF owner[i].readable THEN owner[i].owner ELSE Nobody) \in Tasks \cup {Nobody}
          BY DEF Documents, Owned, Released, Absent, Unreadable
        <4> DEFINE named == IF owner[i].readable THEN owner[i].owner ELSE Nobody
                   active == [report EXCEPT ![i].active = TRUE]
        <4>2. active \in [Inspectors -> Reports]
          BY DEF Reports
        <4>3. [active EXCEPT ![i].owner = named] \in [Inspectors -> Reports]
          <5> HIDE DEF active
          <5> QED
            BY <4>1, <4>2 DEF Reports
        <4>4. report' = report \/ report' = [active EXCEPT ![i].owner = named]
          BY <3>2 DEF Probe
        <4> QED
          BY <4>3, <4>4
      <3>3. CASE UnlockProbe(i) \/ ReadTracker(i)
        BY <3>3, <1>r DEF UnlockProbe, ReadTracker, EndInspection
      <3>4. CASE ReadJournal(i)
        <4>1. [report[i] EXCEPT !.unfinished = unfinished] \in Reports
          BY DEF Reports
        <4> QED
          BY <3>4, <4>1 DEF ReadJournal
      <3> QED
        BY <1>8, <3>1, <3>2, <3>3, <3>4 DEF Inspecting
    <2>2. owner' \in [Inspectors -> Documents]
      BY <1>8 DEF Inspecting, ReadOwner, Probe, UnlockProbe, ReadJournal, ReadTracker, EndInspection
    <2>3. UNCHANGED <<host, document, kind, erred, faults, crashes, torn>>
      BY <1>8 DEF Inspecting, ReadOwner, Probe, UnlockProbe, ReadJournal, ReadTracker,
                  EndInspection, Goto
    <2> QED
      BY <2>1, <2>2, <2>3
  <1> QED
    BY <1>1, <1>2, <1>3, <1>4, <1>5, <1>6, <1>7, <1>8 DEF Step

-------------------------------------------------------------------------------
(* Who runs.                                                               *)

\* A step of a daemon that runs moves one goroutine.  One that was idle is served;
\* startup recovery that dies takes the daemon along.
Moves(g, s) == pc' = [pc EXCEPT ![g] = s]

\* A step starts the daemon, kills it, or moves one goroutine of a daemon that runs.
LEMMA PcStep ==
    ASSUME LockInv, Step
    PROVE  \/ Start \/ Crash
           \/ \E g \in Requests \cup Inspectors, s \in Steps :
                  pc[g] = "idle" /\ Serving /\ up' = up /\ Moves(g, s)
           \/ \E g \in Goroutines, s \in Steps :
                  /\ pc[g] # "idle" /\ Moves(g, s)
                  /\ up' = up \/ (g = Startup /\ s = "idle" /\ ~up')
  <1> USE Apart DEF LockInv, FlockOK, RestOK, Goroutines, Steps, AcquireSteps, LeaseSteps,
                    InspectSteps, Moves, host
  <1> DEFINE Moved(g) == \E s \in Steps :
                 /\ pc[g] # "idle" /\ Moves(g, s)
                 /\ up' = up \/ (g = Startup /\ s = "idle" /\ ~up')
  <1>3. ASSUME NEW t \in Requests, Request(t)
        PROVE \E s \in Steps : pc[t] = "idle" /\ Serving /\ up' = up /\ Moves(t, s)
    BY <1>3 DEF Request
  <1>4. ASSUME NEW i \in Inspectors, StatusRequest(i)
        PROVE \E s \in Steps : pc[i] = "idle" /\ Serving /\ up' = up /\ Moves(i, s)
    BY <1>4 DEF StatusRequest, Goto
  <1>5. ASSUME NEW t \in Tasks, Acquiring(t) PROVE Moved(t)
    <2>1. CASE TryLock(t) \/ TruncateOwner(t) \/ WriteOwner(t)
      BY <2>1 DEF TryLock, TruncateOwner, WriteOwner, Goto, Answer
    <2>2. CASE Abandon(t)
      BY <2>2 DEF Abandon, Answer, Died, DownOK
    <2> QED
      BY <1>5, <2>1, <2>2 DEF Acquiring
  <1>6. ASSUME NEW t \in Tasks, Running(t) PROVE Moved(t)
    <2>1. CASE Gate(t) \/ Record(t) \/ Finish(t) \/ Fail(t)
      BY <2>1 DEF Gate, Record, Finish, Fail, Goto, AfterRun
    <2>2. CASE Begin(t)
      <3>1. pc' = [pc EXCEPT ![t] = pc[t]] /\ pc[t] = "run" /\ up' = up
        BY <2>2 DEF Begin, goroutines
      <3> QED
        BY <3>1
    <2> QED
      BY <1>6, <2>1, <2>2 DEF Running
  <1>7. ASSUME NEW t \in Tasks, Releasing(t) PROVE Moved(t)
    <2>1. CASE TruncateReleased(t) \/ WriteReleased(t)
      BY <2>1 DEF TruncateReleased, WriteReleased, Goto
    <2>2. CASE Unlock(t)
      BY <2>2 DEF Unlock, Answer, Died, DownOK
    <2> QED
      BY <1>7, <2>1, <2>2 DEF Releasing
  <1>8. ASSUME NEW i \in Inspectors, Inspecting(i) PROVE Moved(i)
    BY <1>8 DEF Inspecting, ReadOwner, Probe, UnlockProbe, ReadJournal, ReadTracker, EndInspection,
                Goto
  <1> QED
    BY <1>3, <1>4, <1>5, <1>6, <1>7, <1>8 DEF Step

\* Nothing is served while startup recovery runs, nor by a daemon that is down.
LEMMA AloneStep == ASSUME LockInv, Step PROVE DownOK' /\ StartupAlone'
  <1> USE Apart DEF LockInv, FlockOK, RestOK, DownOK, StartupAlone, Goroutines, Moves
  <1>1. CASE Start
    BY <1>1 DEF Start
  <1>2. CASE Crash
    BY <1>2 DEF Crash
  <1>3. ASSUME NEW g \in Requests \cup Inspectors, NEW s \in Steps,
               pc[g] = "idle" /\ Serving /\ up' = up /\ Moves(g, s)
        PROVE  DownOK' /\ StartupAlone'
    BY <1>3 DEF Serving
  <1>4. ASSUME NEW g \in Goroutines, NEW s \in Steps,
               pc[g] # "idle", Moves(g, s),
               up' = up \/ (g = Startup /\ s = "idle" /\ ~up')
        PROVE  DownOK' /\ StartupAlone'
    BY <1>4 DEF Tasks
  <1> QED
    BY PcStep, <1>1, <1>2, <1>3, <1>4

\* Two tasks are never past their flock call.
LEMMA OneTask ==
    ASSUME LockInv, NEW t \in Tasks, NEW u \in Tasks,
           pc[t] \in LeaseSteps \cup {"write_owner"}, pc[u] \in LeaseSteps \cup {"write_owner"}
    PROVE  t = u
  BY DEF LockInv, FlockOK, AcquireSteps, LeaseSteps

\* A recovery without a failed step finishes the journal, and nobody else can open it.
LEMMA RecordStep == ASSUME LockInv, Step PROVE RecordOK'
  <1> USE Apart DEF LockInv, FlockOK, RestOK, RecordOK, Goroutines, Steps, AcquireSteps, LeaseSteps,
                    InspectSteps, host, lockFile, goroutines
  <1>1. CASE Start \/ Crash
    BY <1>1 DEF Start, Crash, DownOK
  <1>3. ASSUME NEW t \in Requests, Request(t) PROVE RecordOK'
    BY <1>3 DEF Request
  <1>4. ASSUME NEW i \in Inspectors, StatusRequest(i) PROVE RecordOK'
    BY <1>4 DEF StatusRequest, Goto
  <1>5. ASSUME NEW t \in Tasks, Acquiring(t) PROVE RecordOK'
    BY <1>5 DEF Acquiring, TryLock, TruncateOwner, WriteOwner, Abandon, Goto, Answer
  <1>6. ASSUME NEW t \in Tasks, Running(t) PROVE RecordOK'
    <2>1. CASE Gate(t) \/ Record(t)
      BY <2>1 DEF Gate, Record, Goto
    <2>2. CASE Begin(t)
      BY <2>2, OneTask DEF Begin
    <2>3. CASE Finish(t) \/ Fail(t)
      BY <2>3 DEF Finish, Fail, Goto, AfterRun
    <2> QED
      BY <1>6, <2>1, <2>2, <2>3 DEF Running
  <1>7. ASSUME NEW t \in Tasks, Releasing(t) PROVE RecordOK'
    BY <1>7 DEF Releasing, TruncateReleased, WriteReleased, Unlock, Goto, Answer
  <1>8. ASSUME NEW i \in Inspectors, Inspecting(i) PROVE RecordOK'
    BY <1>8 DEF Inspecting, ReadOwner, Probe, UnlockProbe, ReadJournal, ReadTracker, EndInspection,
                Goto
  <1> QED
    BY <1>1, <1>3, <1>4, <1>5, <1>6, <1>7, <1>8 DEF Step

\* Owner documents are replaced before the flock is given up.
LEMMA DocumentStep == ASSUME LockInv, Step PROVE DocumentOK'
  <1> USE Apart, OwnedDiffer DEF LockInv, FlockOK, DocumentOK, OwnerSteps, Goroutines, Steps,
      AcquireSteps, LeaseSteps, InspectSteps, host, lockFile, goroutines
  <1>1. CASE Start \/ Crash
    BY <1>1 DEF Start, Crash
  <1>3. ASSUME NEW t \in Requests, Request(t) PROVE DocumentOK'
    BY <1>3 DEF Request
  <1>4. ASSUME NEW i \in Inspectors, StatusRequest(i) PROVE DocumentOK'
    BY <1>4 DEF StatusRequest, Goto
  <1>5. ASSUME NEW t \in Tasks, Acquiring(t) PROVE DocumentOK'
    <2>1. CASE TryLock(t)
      <3>1. t = Startup => flock = Nobody
        BY <2>1 DEF TryLock, StartupAlone, Tasks
      <3> QED
        BY <2>1, <3>1 DEF TryLock, Lockable, Goto, Answer
    <2>2. CASE TruncateOwner(t) \/ WriteOwner(t)
      BY <2>2, OneTask DEF TruncateOwner, WriteOwner, Goto
    <2>3. CASE Abandon(t)
      BY <2>3, OneTask DEF Abandon, Answer, Died, RestOK, DownOK
    <2> QED
      BY <1>5, <2>1, <2>2, <2>3 DEF Acquiring
  <1>6. ASSUME NEW t \in Tasks, Running(t) PROVE DocumentOK'
    <2>1. CASE Gate(t) \/ Record(t) \/ Begin(t)
      BY <2>1 DEF Gate, Record, Begin, Goto
    <2>2. CASE Finish(t) \/ Fail(t)
      BY <2>2 DEF Finish, Fail, Goto, AfterRun
    <2> QED
      BY <1>6, <2>1, <2>2 DEF Running
  <1>7. ASSUME NEW t \in Tasks, Releasing(t) PROVE DocumentOK'
    <2>1. CASE TruncateReleased(t) \/ WriteReleased(t)
      BY <2>1, OneTask DEF TruncateReleased, WriteReleased, Goto
    <2>2. CASE Unlock(t)
      BY <2>2, OneTask DEF Unlock, Answer, Died, RestOK, DownOK
    <2> QED
      BY <1>7, <2>1, <2>2 DEF Releasing
  <1>8. ASSUME NEW i \in Inspectors, Inspecting(i) PROVE DocumentOK'
    BY <1>8 DEF Inspecting, ReadOwner, Probe, UnlockProbe, ReadJournal, ReadTracker, EndInspection,
                Goto
  <1> QED
    BY <1>1, <1>3, <1>4, <1>5, <1>6, <1>7, <1>8 DEF Step

\* A step keeps the invariant of the lock.
LEMMA LockStep == ASSUME LockInv, Step PROVE LockInv'
  BY FlockStep, RestStep, AloneStep, RecordStep, DocumentStep DEF LockInv

-------------------------------------------------------------------------------
(* The task that holds the lock.                                           *)

HolderOK ==
    /\ \A t \in Tasks : Holds(t) => Holder = t
    /\ (\A t \in Tasks : ~Holds(t)) => Holder = Nobody
    /\ Holder \in Tasks => Holds(Holder)
    /\ Holder \in Tasks \cup {Nobody}

\* The task that holds the lock is its only holder.
LEMMA HolderIs == LockInv => HolderOK
  <1>1. LockInv => \A t, u \in Tasks : Holds(t) /\ Holds(u) => t = u
    BY OneTask DEF Holds
  <1> QED
    BY <1>1, Apart DEF Holder, HolderOK, Goroutines

\* So it is after a step.
LEMMA HolderIsNext == LockInv' => HolderOK'
  BY HolderIs, PTL

\* While the same goroutines hold the lock it has the same holder.
LEMMA SameHolder ==
    ASSUME LockInv, LockInv', \A t \in Tasks : Holds(t)' <=> Holds(t)
    PROVE  Holder' = Holder
  BY HolderIs, HolderIsNext DEF HolderOK

\* The steps that hand the lock over are those that finish the owner document and
\* those that drop the flock.
LEMMA HolderStep == ASSUME LockInv, Step PROVE [Lock!Next]_Holder
  <1> USE Apart, HolderIs, HolderIsNext, LockStep DEF HolderOK, LockInv, FlockOK, Goroutines, Steps,
      AcquireSteps, LeaseSteps, InspectSteps, Moves, Lock!Next, Lock!Acquire, Lock!Release
  <1>1. CASE Start \/ Crash
    <2>1. \A t \in Tasks : ~Holds(t)'
      BY <1>1 DEF Start, Crash, DownOK, Holds
    <2> QED
      BY <2>1
  <1>2. ASSUME NEW t \in Tasks, WriteOwner(t) PROVE [Lock!Next]_Holder
    <2>1. CASE pc' = [pc EXCEPT ![t] = "gate"]
      <3>1. \A u \in Tasks : ~Holds(u)
        BY <1>2, OneTask DEF WriteOwner, Holds
      <3>2. Holds(t)'
        BY <2>1 DEF Holds
      <3> QED
        BY <3>1, <3>2
    <2>2. CASE pc' = [pc EXCEPT ![t] = "abandon"]
      <3>1. \A u \in Tasks : Holds(u)' <=> Holds(u)
        BY <1>2, <2>2 DEF WriteOwner, Holds
      <3> QED
        BY <3>1, SameHolder
    <2> QED
      BY <1>2, <2>1, <2>2 DEF WriteOwner, Goto
  <1>3. ASSUME NEW t \in Tasks, Unlock(t) PROVE [Lock!Next]_Holder
    <2>1. Holds(t)
      BY <1>3 DEF Unlock, Holds
    <2>2. \A u \in Tasks : ~Holds(u)'
      BY <1>3, OneTask DEF Unlock, Answer, Holds
    <2> QED
      BY <2>1, <2>2
  <1>4. ASSUME NEW g \in Goroutines, NEW s \in Steps, Moves(g, s),
               g \in Tasks => (s \in LeaseSteps <=> pc[g] \in LeaseSteps)
        PROVE  [Lock!Next]_Holder
    <2>1. \A u \in Tasks : Holds(u)' <=> Holds(u)
      BY <1>4 DEF Holds
    <2> QED
      BY <2>1, SameHolder
  <1>5. ASSUME NEW t \in Tasks,
               TryLock(t) \/ TruncateOwner(t) \/ Abandon(t) \/ Running(t)
                   \/ TruncateReleased(t) \/ WriteReleased(t)
        PROVE  [Lock!Next]_Holder
    <2>1. \E s \in Steps : Moves(t, s) /\ (s \in LeaseSteps <=> pc[t] \in LeaseSteps)
      <3>1. CASE TryLock(t) \/ TruncateOwner(t) \/ Abandon(t)
        BY <3>1 DEF TryLock, TruncateOwner, Abandon, Goto, Answer
      <3>2. CASE Gate(t) \/ Record(t) \/ Finish(t) \/ Fail(t)
        BY <3>2 DEF Gate, Record, Finish, Fail, Goto, AfterRun
      <3>3. CASE Begin(t)
        <4>1. pc' = [pc EXCEPT ![t] = pc[t]] /\ pc[t] = "run"
          BY <3>3 DEF Begin, goroutines
        <4> QED
          BY <4>1
      <3>4. CASE TruncateReleased(t) \/ WriteReleased(t)
        BY <3>4 DEF TruncateReleased, WriteReleased, Goto
      <3> QED
        BY <1>5, <3>1, <3>2, <3>3, <3>4 DEF Running
    <2>2. PICK s \in Steps : Moves(t, s) /\ (s \in LeaseSteps <=> pc[t] \in LeaseSteps)
      BY <2>1
    <2>3. t \in Goroutines
      BY DEF Goroutines
    <2> QED
      BY <2>2, <2>3, <1>4
  <1>6. ASSUME NEW g \in Requests, Request(g) PROVE [Lock!Next]_Holder
    BY <1>6, <1>4 DEF Request
  <1>7. ASSUME NEW i \in Inspectors, StatusRequest(i) \/ Inspecting(i) PROVE [Lock!Next]_Holder
    <2>1. \E s \in Steps : Moves(i, s)
      BY <1>7 DEF StatusRequest, Inspecting, ReadOwner, Probe, UnlockProbe, ReadJournal, ReadTracker,
                  EndInspection, Goto
    <2> QED
      BY <2>1, <1>4
  <1> QED
    BY <1>1, <1>2, <1>3, <1>5, <1>6, <1>7 DEF Step, Acquiring, Releasing

-------------------------------------------------------------------------------
(* What an inspection has seen.                                            *)

\* A step keeps the type of the history.
LEMMA SeenTypeStep == ASSUME LockInv, SeenTypeOK, Step, Watch PROVE SeenTypeOK'
  <1>1. Holder' \in Tasks \cup {Nobody}
    BY LockStep, HolderIsNext DEF HolderOK
  <1>2. Ready' \in BOOLEAN
    BY DEF Ready
  <1>3. ASSUME NEW i \in Inspectors
        PROVE  /\ NothingSeen \in [ready : BOOLEAN, free : BOOLEAN, holders : SUBSET Tasks]
               /\ [ready   |-> seen[i].ready \/ Ready',
                   free    |-> seen[i].free \/ Holder' = Nobody,
                   holders |-> seen[i].holders \cup ({Holder'} \ {Nobody})]
                  \in [ready : BOOLEAN, free : BOOLEAN, holders : SUBSET Tasks]
    BY <1>1, <1>2 DEF SeenTypeOK, NothingSeen
  <1> QED
    BY <1>3 DEF SeenTypeOK, Watch

\* What was true of an inspection that goes on stays seen, and what is true now is.
LEMMA SeenNow ==
    ASSUME LockInv, SeenTypeOK, Step, Watch, NEW i \in Inspectors, pc'[i] # "idle"
    PROVE  /\ seen[i].ready \/ Ready' => seen'[i].ready
           /\ seen[i].free \/ Holder' = Nobody => seen'[i].free
           /\ \A t \in Tasks : t \in seen[i].holders \/ Holder' = t => t \in seen'[i].holders
  BY Apart DEF Watch, Goroutines

\* A step of somebody else leaves what an inspection has found, or ends it.
LEMMA NotMine ==
    ASSUME LockInv, Step, NEW i \in Inspectors, ~Inspecting(i), pc'[i] \notin {"idle", "read_owner"}
    PROVE  pc'[i] = pc[i] /\ report'[i] = report[i] /\ owner'[i] = owner[i] /\ (torn => torn')
  <1> USE Apart DEF LockInv, FlockOK, RestOK, Goroutines, Tasks, host, goroutines, inspections
  <1>1. CASE Start \/ Crash
    BY <1>1 DEF Start, Crash, DownOK
  <1> DEFINE Same == pc'[i] = pc[i] /\ report'[i] = report[i] /\ owner'[i] = owner[i]
                       /\ (torn => torn')
  <1>2. ASSUME NEW t \in Requests, Request(t) PROVE Same
    BY <1>2 DEF Request
  <1>3. ASSUME NEW j \in Inspectors, StatusRequest(j) PROVE Same
    BY <1>3 DEF StatusRequest, Goto
  <1>4. ASSUME NEW t \in Tasks, Acquiring(t) PROVE Same
    BY <1>4 DEF Acquiring, TryLock, TruncateOwner, WriteOwner, Abandon, Goto, Answer
  <1>5. ASSUME NEW t \in Tasks, Running(t) PROVE Same
    BY <1>5 DEF Running, Gate, Begin, Finish, Fail, Record, Goto, AfterRun
  <1>6. ASSUME NEW t \in Tasks, Releasing(t) PROVE Same
    BY <1>6 DEF Releasing, TruncateReleased, WriteReleased, Unlock, Goto, Answer
  <1>7. ASSUME NEW j \in Inspectors, j # i, Inspecting(j) PROVE Same
    BY <1>7 DEF Inspecting, ReadOwner, Probe, UnlockProbe, ReadJournal, ReadTracker, EndInspection,
                Goto
  <1> QED
    BY <1>1, <1>2, <1>3, <1>4, <1>5, <1>6, <1>7 DEF Step

SeenReady(i) == pc[i] = "read_tracker" /\ ReportedReady(i) => seen[i].ready

SeenFree(i) ==
    pc[i] \in {"unlock_probe", "read_journal", "read_tracker"} /\ ~report[i].active
        => seen[i].free

SeenHolders(i) ==
    \A t \in Tasks :
        /\ pc[i] \in {"probe", "unlock_probe", "read_journal", "read_tracker"}
        /\ ~torn /\ owner[i] = Owned(t)
        => t \in seen[i].holders

\* The journal and the tracker are read at two moments; a tracker that turns to
\* success in between does so while the journal is finished.
LEMMA SeenReadyStep ==
    ASSUME LockInv, SeenTypeOK, Step, Watch, NEW i \in Inspectors, SeenReady(i)
    PROVE  SeenReady(i)'
  <1> SUFFICES ASSUME pc'[i] = "read_tracker", ReportedReady(i)', ~Ready'
               PROVE  seen[i].ready
    BY SeenNow DEF SeenReady
  <1>1. ~Inspecting(i)
    <2> SUFFICES ASSUME ReadJournal(i) PROVE FALSE
      BY Apart DEF Inspecting, ReadOwner, Probe, UnlockProbe, ReadTracker, EndInspection, Goto,
                   LockInv, FlockOK, Goroutines, inspections
    <2>1. report'[i].unfinished = unfinished
      BY DEF ReadJournal, LockInv, RestOK, Reports
    <2> QED
      BY <2>1 DEF ReadJournal, ReportedReady, Ready, host
  <1>2. pc[i] = "read_tracker" /\ report'[i] = report[i]
    BY <1>1, NotMine
  <1>3. tracker' = tracker
    <2>1. ASSUME NEW t \in Tasks, Record(t) PROVE FALSE
      BY <2>1 DEF Record, ReportedReady, Ready, LockInv, RecordOK
    <2>2. CASE Start \/ Crash
      BY <2>2, <1>2 DEF Start, Crash, ReportedReady
    <2>3. ASSUME NEW t \in Tasks, Abandon(t) \/ Unlock(t) PROVE tracker' = tracker
      BY <2>3 DEF Abandon, Unlock, Died, ReportedReady
    <2>4. ASSUME NEW t \in Tasks, TryLock(t) \/ TruncateOwner(t) \/ WriteOwner(t)
                     \/ Gate(t) \/ Begin(t) \/ Finish(t) \/ Fail(t)
                     \/ TruncateReleased(t) \/ WriteReleased(t) \/ Request(t)
          PROVE  tracker' = tracker
      BY <2>4 DEF TryLock, TruncateOwner, WriteOwner, Gate, Begin, Finish, Fail, TruncateReleased,
                  WriteReleased, Request, host
    <2>5. ASSUME NEW j \in Inspectors, StatusRequest(j) \/ Inspecting(j) PROVE tracker' = tracker
      BY <2>5 DEF StatusRequest, Inspecting, ReadOwner, Probe, UnlockProbe, ReadJournal, ReadTracker,
                  host
    <2> QED
      BY <2>1, <2>2, <2>3, <2>4, <2>5, Apart DEF Step, Acquiring, Running, Releasing
  <1> QED
    BY <1>2, <1>3 DEF SeenReady, ReportedReady

\* An inspection that gets the flock has seen the lock free.
LEMMA SeenFreeStep ==
    ASSUME LockInv, SeenTypeOK, Step, Watch, NEW i \in Inspectors, SeenFree(i)
    PROVE  SeenFree(i)'
  <1> SUFFICES ASSUME pc'[i] \in {"unlock_probe", "read_journal", "read_tracker"},
                      ~report'[i].active, Holder' # Nobody
               PROVE  seen[i].free
    BY SeenNow DEF SeenFree
  <1>1. CASE Inspecting(i)
    <2>1. CASE Probe(i)
      <3>1. flock' # i
        <4>1. flock' = i => \A t \in Tasks : ~Holds(t)'
          BY LockStep, Apart DEF LockInv, FlockOK, Holds
        <4> QED
          BY <4>1, LockStep, HolderIsNext DEF HolderOK
      <3>2. report'[i].active
        BY <2>1, <3>1 DEF Probe, LockInv, RestOK, Reports
      <3> QED
        BY <3>2
    <2>2. CASE UnlockProbe(i)
      BY <2>2, Apart DEF UnlockProbe, EndInspection, Goto, inspections, SeenFree, LockInv, FlockOK,
                         Goroutines
    <2>3. CASE ReadJournal(i)
      <3>1. report'[i].active = report[i].active
        BY <2>3 DEF ReadJournal, LockInv, RestOK, Reports
      <3> QED
        BY <2>3, <3>1 DEF ReadJournal, SeenFree
    <2>4. CASE ReadOwner(i) \/ ReadTracker(i)
      BY <2>4, Apart DEF ReadOwner, ReadTracker, EndInspection, Goto, LockInv, FlockOK, Goroutines
    <2> QED
      BY <1>1, <2>1, <2>2, <2>3, <2>4 DEF Inspecting
  <1>2. CASE ~Inspecting(i)
    BY <1>2, NotMine DEF SeenFree
  <1> QED
    BY <1>1, <1>2

\* An owner document that has been read names a task that held the lock then.
LEMMA SeenHoldersStep ==
    ASSUME LockInv, SeenTypeOK, Step, Watch, NEW i \in Inspectors, SeenHolders(i)
    PROVE  SeenHolders(i)'
  <1> SUFFICES ASSUME NEW t \in Tasks,
                      pc'[i] \in {"probe", "unlock_probe", "read_journal", "read_tracker"},
                      ~torn', owner'[i] = Owned(t), Holder' # t
               PROVE  t \in seen[i].holders
    BY SeenNow DEF SeenHolders, Owned
  <1>1. CASE ReadOwner(i)
    <2>1. document = Owned(t) /\ up /\ ~torn /\ pc[i] = "read_owner" /\ pc'[t] = pc[t]
      BY <1>1, Apart DEF ReadOwner, Goto, LockInv, FlockOK, RestOK, DownOK, Goroutines
    <2>2. pc[Startup] = "idle"
      BY <2>1, Apart DEF LockInv, StartupAlone
    <2>3. Holds(t)'
      BY <2>1, <2>2 DEF LockInv, DocumentOK, OwnerSteps, Holds, LeaseSteps
    <2> QED
      BY <2>3, LockStep, HolderIsNext DEF HolderOK
  <1>2. CASE Probe(i) \/ UnlockProbe(i) \/ ReadJournal(i) \/ ReadTracker(i)
    BY <1>2, Apart DEF Probe, UnlockProbe, ReadJournal, ReadTracker, EndInspection, Goto, inspections,
                       SeenHolders, LockInv, FlockOK, Goroutines
  <1>3. CASE ~Inspecting(i)
    BY <1>3, NotMine DEF SeenHolders
  <1> QED
    BY <1>1, <1>2, <1>3 DEF Inspecting

\* A step keeps the whole invariant.
LEMMA StepInv == ASSUME IInv, Step, Watch PROVE IInv'
  <1>1. LockInv' /\ SeenTypeOK'
    BY LockStep, SeenTypeStep DEF IInv
  <1>2. ASSUME NEW i \in Inspectors PROVE SeenReady(i)' /\ SeenFree(i)' /\ SeenHolders(i)'
    BY SeenReadyStep, SeenFreeStep, SeenHoldersStep
       DEF IInv, SeenOK, SeenReady, SeenFree, SeenHolders
  <1> QED
    BY <1>1, <1>2 DEF IInv, SeenOK, SeenReady, SeenFree, SeenHolders

\* So does one that changes nothing.
LEMMA StutterInv == ASSUME IInv, UNCHANGED vars PROVE IInv'
  BY DEF IInv, LockInv, FlockOK, RestOK, DownOK, StartupAlone, RecordOK, DocumentOK, SeenTypeOK,
         SeenOK, ReportedReady, vars, goroutines, inspections

-------------------------------------------------------------------------------
(* Theorems.                                                               *)

\* The strengthened invariant holds in every state of egressd, for any number of
\* requests, inspections, faults and deaths.
THEOREM Invariance == Spec => []IInv
  <1>1. IInv /\ [Next]_vars => IInv'
    BY NextSteps, StepInv, StutterInv
  <1> QED
    BY InitInv, <1>1, PTL DEF Spec

\* Type correctness, with the flock held by exactly the goroutine between its flock
\* call and its unlock (TryAcquire, Release, Inspect).
THEOREM TypeCorrectness == Spec => []TypeOK
  <1>1. IInv => TypeOK
    BY DEF IInv, LockInv, FlockOK, RestOK, SeenTypeOK, TypeOK, Goroutines, Steps, Reports
  <1> QED
    BY Invariance, <1>1, PTL

\* The calls on the lock file implement the one-step lock that mutate and
\* withMutationLock rely on: never two holders, whatever write of the owner document
\* fails and whoever probes the flock.
THEOREM LockIsImplemented == Spec => ImplementsLock
  <1>1. Init => Lock!Init
    BY InitInv, HolderIs DEF Init, Holder, Holds, LeaseSteps, Lock!Init
  <1>2. IInv /\ [Next]_vars => [Lock!Next]_Holder
    <2>1. ASSUME IInv, Step PROVE [Lock!Next]_Holder
      BY <2>1, HolderStep DEF IInv
    <2>2. ASSUME UNCHANGED vars PROVE UNCHANGED Holder
      BY <2>2 DEF vars, goroutines, Holder, Holds
    <2> QED
      BY <2>1, <2>2, NextSteps
  <1> QED
    BY Invariance, <1>1, <1>2, PTL DEF Spec, ImplementsLock, Lock!Spec

\* Every recovery.status that FileLock.Inspect, the journal and the tracker contribute
\* to describes a moment of its inspection.
THEOREM StatusDescribesAMoment == Spec => StatusWasTrue
  <1>1. ASSUME IInv, NEW i \in Inspectors, pc[i] = "read_tracker"
        PROVE  /\ ReportedReady(i) => seen[i].ready
               /\ ~report[i].active => seen[i].free
               /\ (report[i].active /\ owner[i] = Owned(report[i].owner) /\ ~torn)
                      => report[i].owner \in seen[i].holders
    <2>1. owner[i] \in Documents
      BY <1>1 DEF IInv, LockInv, RestOK
    <2>2. owner[i] = Owned(report[i].owner) => report[i].owner \in Tasks
      BY <2>1, OwnersAreTasks
    <2> QED
      BY <1>1, <2>2 DEF IInv, SeenOK
  <1> DEFINE Was ==
        \A i \in Inspectors :
            pc[i] = "read_tracker" /\ pc'[i] = "idle" /\ up' =>
                /\ ReportedReady(i) => seen[i].ready
                /\ ~report[i].active => seen[i].free
                /\ (report[i].active /\ owner[i] = Owned(report[i].owner) /\ ~torn)
                       => report[i].owner \in seen[i].holders
  <1>2. IInv => Was
    BY <1>1
  <1>3. [][Was]_vars <=> StatusWasTrue
    BY DEF StatusWasTrue
  <1> QED
    BY Invariance, <1>2, <1>3, PTL

===============================================================================
