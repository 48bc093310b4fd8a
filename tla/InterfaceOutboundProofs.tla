------------------------ MODULE InterfaceOutboundProofs ------------------------
(***************************************************************************)
(* Safety of InterfaceOutbound for every number of outbounds, versions,    *)
(* operations, edits, faults and crashes, whether or not the runtime       *)
(* directory outlives the daemon.                                          *)
(*                                                                         *)
(* RecordOK speaks of the journal and the host alone and so survives the   *)
(* death of the daemon.  It asks little of an operation in flight, because *)
(* a restore stops every entry of the candidate and starts every entry of  *)
(* the snapshot, and gives up when a link is in its way: only entries that *)
(* are in neither must still be as they were.  TaskOK says how far the     *)
(* loops of the task have come; ReadyOK, which links run.                  *)
(***************************************************************************)
EXTENDS InterfaceOutbound, SequenceTheorems, WellFoundedInduction, TLAPS

-------------------------------------------------------------------------------
(* The journal and the host.                                               *)

Commits(j) == {row \in DOMAIN j : j[row].state = "COMMITTED"}

\* The newest of rows has put document d in force, or the directory was emptied
\* after it; nothing without any.
Expects(j, rows, w, d) ==
    \/ rows = {} /\ d = Empty
    \/ \E newest \in rows :
           /\ \A other \in rows : other <= newest
           /\ d = j[newest].candidate \/ (newest <= w /\ d = Empty)

\* Operations that a rollback or a recovery may still undo.
Undoable(j, row) == row \in DOMAIN j /\ (j[row].state = "COMMITTED" \/ j[row].state \notin FinishedStates)

\* No other operation is in flight, and what is committed is older.
IsTop(j, row) ==
    \A other \in DOMAIN j \ {row} : Undoable(j, other) => j[other].state = "COMMITTED" /\ other < row

GaveUp(j) == \E row \in DOMAIN j : j[row].detail = "rollback_failed"

\* No operation in flight has touched the host.
Quiet(j) == \A row \in UnfinishedRows(j) : j[row].state \in {"PREPARED", "VALIDATED"}

\* The link of an entry of version t: it may be missing, and one that nobody
\* owns may be left when the directory is emptied under it.
LinkOK(t, link) == link = None \/ link = t \/ (t = None /\ ~DirectorySurvives)

\* Configuration files n and links l are those of document d.
Fits(d, n, l) == \A i \in Outbounds : n[i] = d[i] /\ LinkOK(d[i], l[i])

\* Every entry of d has a link.
Linked(d, l) == \A i \in Outbounds : d[i] # None => l[i] # None

\* Nothing was added where entry e has nothing before and after.
Untouched(e, n, l) ==
    \A i \in Outbounds : e.snapshot[i] = None /\ e.candidate[i] = None =>
        n[i] = None /\ LinkOK(None, l[i])

RecordOK(j, f, n, l, w) ==
    /\ \A row \in DOMAIN j : j[row].detail = "rollback_failed" => j[row].state = "FAILED"
    /\ \A row \in UnfinishedRows(j) : IsTop(j, row)
    /\ GaveUp(j) \/
       /\ \A row \in DOMAIN j : Undoable(j, row) =>
              Expects(j, {r \in Commits(j) : r < row}, w, j[row].snapshot)
       /\ \A row \in UnfinishedRows(j) :
              j[row].state \notin {"PREPARED", "VALIDATED"} => Untouched(j[row], n, l)
       /\ Quiet(j) => Fits(f, n, l) /\ Expects(j, Commits(j), w, f)

-------------------------------------------------------------------------------
(* The task.                                                               *)

StopSteps == {"stop", "remove_config"}
StartSteps == {"start", "create_link", "configure"}
LoopSteps == StopSteps \cup StartSteps

\* Steps that work on the entry task.row.
RowSteps ==
    LoopSteps \cup
    {"validate", "mark_applying", "mark_verifying", "verify", "commit", "roll_back",
     "mark_rolling_back", "verify_restored", "mark_rolled_back", "mark_failed",
     "mark_interrupted"}

RunSteps == {"next_operation", "reconcile", "finish_recovery"}

\* The state a step leaves from; a failed statement may have left it already.
FromAt(step) ==
    CASE step = "validate"                                 -> {"PREPARED"}
      [] step = "mark_interrupted"                         -> {"PREPARED", "VALIDATED"}
      [] step = "mark_applying"                            -> {"VALIDATED"}
      [] step \in LoopSteps                                -> {"APPLYING", "ROLLING_BACK"}
      [] step = "mark_verifying"                           -> {"APPLYING"}
      [] step \in {"verify", "commit"}                     -> {"VERIFYING"}
      [] step = "roll_back"                                -> {"APPLYING", "VERIFYING"}
      [] step = "mark_rolling_back"                        -> {"COMMITTED"}
      [] step = "mark_failed"                              -> {"PREPARED", "VALIDATED", "ROLLING_BACK"}
      [] OTHER                                             -> {"ROLLING_BACK"}

\* The first of a set of outbounds.
First(set) == CHOOSE i \in set : \A j \in set : i <= j

TargetOf(t, e) == IF t.from = "ROLLING_BACK" THEN e.snapshot ELSE e.candidate

\* An apply leaves entry i as it is.
Same(t, e, i) == t.from # "ROLLING_BACK" /\ e.snapshot[i] = e.candidate[i]

\* What the loops have still to do.
LoopOK(t, e, l) ==
    /\ t.from # "ROLLING_BACK" /\ t.step \in StopSteps =>
           \A i \in t.todo : e.snapshot[i] # None /\ e.snapshot[i] # e.candidate[i]
    /\ t.from = "ROLLING_BACK" /\ t.step \in StopSteps => \A i \in t.todo : e.candidate[i] # None
    /\ t.step \in StartSteps => \A i \in t.todo : TargetOf(t, e)[i] # None
    /\ t.step \in {"remove_config", "create_link", "configure"} => t.todo # {}
    /\ t.step = "configure" => l[First(t.todo)] \in {None, Partial}

\* Which document the state file is.
FileOK(t, e, f) ==
    /\ \/ t.step \in {"validate", "mark_applying", "verify_restored", "mark_rolled_back"}
       \/ t.step \in LoopSteps /\ t.from # "ROLLING_BACK"
       => f = e.snapshot
    /\ t.step \in {"mark_verifying", "verify", "commit"} => f = e.candidate

\* What a verification has found.
VerifiedOK(t, e, n, l, lo) ==
    /\ t.step = "commit" =>
           (\A i \in Outbounds : e.candidate[i] # None => n[i] = e.candidate[i])
           /\ (lo \/ Linked(e.candidate, l))
    /\ t.step = "mark_rolled_back" => lo \/ Linked(e.snapshot, l)

\* What the loops have done.
HostOK(t, e, n, l) ==
    LET target == TargetOf(t, e)
    IN  /\ t.step \in StopSteps =>
               \A i \in Outbounds \ t.todo : target[i] = None \/ Same(t, e, i) =>
                   n[i] = target[i] /\ LinkOK(target[i], l[i])
        /\ t.step = "remove_config" => l[First(t.todo)] = None
        /\ t.step \in StartSteps =>
               /\ \A i \in Outbounds \ t.todo : n[i] = target[i] /\ LinkOK(target[i], l[i])
               /\ \A i \in t.todo :
                      Same(t, e, i) /\ (t.step = "start" \/ i # First(t.todo)) =>
                          n[i] = target[i] /\ LinkOK(target[i], l[i])
        /\ t.step \in {"create_link", "configure"} => n[First(t.todo)] = target[First(t.todo)]
        /\ t.step \in {"mark_verifying", "verify", "commit", "verify_restored", "mark_rolled_back"} =>
               Fits(target, n, l)

TaskOK(t, j, f, n, l, lo, pl) ==
    /\ t.rows \subseteq UnfinishedRows(j)
    /\ t.step \in RunSteps => t.run \in {"recovery", "reconcile"}
    /\ t.step \in {"next_operation", "reconcile"} => t.run = "recovery"
    /\ t.step \in RowSteps =>
           /\ t.row \in DOMAIN j \ t.rows
           /\ t.from \in FromAt(t.step)
           /\ t.step \notin {"mark_failed", "roll_back"} => j[t.row].state = t.from
           /\ t.run = "reconcile" => j[t.row].candidate = pl
           /\ t.step = "mark_interrupted" => t.run = "recovery"
           /\ LoopOK(t, j[t.row], l) /\ FileOK(t, j[t.row], f) /\ VerifiedOK(t, j[t.row], n, l, lo)
           /\ GaveUp(j) \/ HostOK(t, j[t.row], n, l)
    /\ t.step = "mark_rolling_back" =>
           UnfinishedRows(j) = {} /\ IsTop(j, t.row) /\ f = j[t.row].candidate
    /\ t.step = "reconcile" => UnfinishedRows(j) = {}
    /\ t.step = "finish_recovery" /\ ~t.erred =>
           /\ f = pl /\ \A i \in Outbounds : pl[i] # None => n[i] = pl[i]
           /\ lo \/ Linked(pl, l)

\* While the daemon is ready, every applied entry has its link, unless one was lost.
ReadyOK(tr, run, j, f, l, lo) ==
    tr = "succeeded" /\ run \notin {"recovery", "reconcile"} /\ Quiet(j) =>
        GaveUp(j) \/ lo \/ Linked(f, l)

IInv ==
    /\ TypeOK
    /\ RecordOK(journal, file, configs, links, wipedAt)
    /\ TaskOK(task, journal, file, configs, links, lost, planned)
    /\ ReadyOK(tracker, task.run, journal, file, links, lost)

-------------------------------------------------------------------------------
(* What the steps do to the record.                                        *)

\* An entry moves to another state and keeps everything else.
Moves(j, k, row, to, detail) ==
    /\ DOMAIN k = DOMAIN j /\ row \in DOMAIN j
    /\ k[row].state = to /\ k[row].detail = detail
    /\ k[row].snapshot = j[row].snapshot /\ k[row].candidate = j[row].candidate
    /\ \A r \in DOMAIN j \ {row} : k[r] = j[r]

\* What is in force depends on the candidates of commits only, and on the directory
\* having been emptied.
LEMMA SameExpectations ==
    ASSUME NEW j, NEW k, NEW rows, NEW w, NEW w2, NEW d,
           \A r \in rows : k[r].candidate = j[r].candidate,
           \A r \in rows : r <= w => r <= w2,
           Expects(j, rows, w, d)
    PROVE  Expects(k, rows, w2, d)
  BY DEF Expects

\* A move of the top operation keeps the record, given what the host holds then.
LEMMA MoveKeepsRecord ==
    ASSUME NEW j \in Seq(Entries), NEW k, NEW row \in DOMAIN j, NEW to \in TransactionStates,
           NEW detail, NEW f, NEW n, NEW l, NEW w,
           RecordOK(j, f, n, l, w), Moves(j, k, row, to, detail),
           Undoable(j, row), IsTop(j, row),
           detail = "rollback_failed" => to = "FAILED",
           to \in {"APPLYING", "VERIFYING", "ROLLING_BACK"} =>
               GaveUp(j) \/ Untouched(j[row], n, l),
           to \in {"PREPARED", "VALIDATED", "FAILED"} /\ detail # "rollback_failed" =>
               j[row].state \in {"PREPARED", "VALIDATED"},
           to = "ROLLED_BACK" => GaveUp(j) \/ (Fits(f, n, l) /\ f = j[row].snapshot),
           to = "COMMITTED" => GaveUp(j) \/ (Fits(f, n, l) /\ f = j[row].candidate)
    PROVE  RecordOK(k, f, n, l, w)
<1>1. /\ DOMAIN k = DOMAIN j
      /\ \A r \in DOMAIN j : k[r].snapshot = j[r].snapshot /\ k[r].candidate = j[r].candidate
      /\ \A r \in DOMAIN j \ {row} : k[r] = j[r]
      /\ k[row].state = to /\ k[row].detail = detail
  BY DEF Moves
<1>2. \A r \in DOMAIN k : k[r].detail = "rollback_failed" => k[r].state = "FAILED"
  BY <1>1 DEF RecordOK
<1>3. /\ UnfinishedRows(k) \subseteq {row}
      /\ \A r \in DOMAIN j : Undoable(k, r) => r = row \/ (j[r].state = "COMMITTED" /\ r < row)
  <2>1. \A r \in DOMAIN j \ {row} : Undoable(k, r) => j[r].state = "COMMITTED" /\ r < row
    BY <1>1 DEF Undoable, IsTop
  <2>2. \A r \in UnfinishedRows(k) : r = row
    BY <1>1, <2>1 DEF Undoable, UnfinishedRows, FinishedStates
  <2> QED
    BY <2>1, <2>2
<1>4. IsTop(k, row)
  BY <1>1, <1>3 DEF IsTop
<1>5. \A r \in UnfinishedRows(k) : IsTop(k, r)
  BY <1>3, <1>4
<1>6. ASSUME ~GaveUp(k)
      PROVE  /\ \A r \in DOMAIN k : Undoable(k, r) =>
                    Expects(k, {x \in Commits(k) : x < r}, w, k[r].snapshot)
             /\ \A r \in UnfinishedRows(k) :
                    k[r].state \notin {"PREPARED", "VALIDATED"} => Untouched(k[r], n, l)
             /\ Quiet(k) => Fits(f, n, l) /\ Expects(k, Commits(k), w, f)
  <2>1. detail # "rollback_failed" /\ ~GaveUp(j)
    <3>1. detail # "rollback_failed"
      BY <1>1, <1>6 DEF GaveUp
    <3>2. j[row].detail # "rollback_failed"
      BY DEF RecordOK, Undoable, FinishedStates
    <3> QED
      BY <1>1, <1>6, <3>1, <3>2 DEF GaveUp
  <2>2. /\ \A r \in DOMAIN j : Undoable(j, r) =>
               Expects(j, {x \in Commits(j) : x < r}, w, j[r].snapshot)
        /\ Quiet(j) => Fits(f, n, l) /\ Expects(j, Commits(j), w, f)
    BY <2>1 DEF RecordOK
  <2>3. \A d, rows : rows \subseteq DOMAIN j /\ Expects(j, rows, w, d) => Expects(k, rows, w, d)
    BY <1>1, SameExpectations
  <2>4. row \in Nat /\ DOMAIN j \subseteq Nat
    OBVIOUS
  <2>5. \A r \in DOMAIN j : r < row \/ r = row =>
            {x \in Commits(k) : x < r} = {x \in Commits(j) : x < r}
    BY <1>1, <2>4 DEF Commits
  <2>6. ASSUME NEW r \in DOMAIN k, Undoable(k, r)
        PROVE  Expects(k, {x \in Commits(k) : x < r}, w, k[r].snapshot)
    <3>1. r \in DOMAIN j /\ (r = row \/ (j[r].state = "COMMITTED" /\ r < row))
      BY <1>1, <1>3, <2>6
    <3>2. Undoable(j, r)
      BY <1>1, <3>1 DEF Undoable
    <3>3. Expects(j, {x \in Commits(j) : x < r}, w, j[r].snapshot)
      BY <2>2, <3>1, <3>2
    <3>4. {x \in Commits(j) : x < r} \subseteq DOMAIN j
      BY DEF Commits
    <3> QED
      BY <1>1, <2>3, <2>5, <3>1, <3>3, <3>4
  <2>7. \A r \in UnfinishedRows(k) :
            k[r].state \notin {"PREPARED", "VALIDATED"} => Untouched(k[r], n, l)
    <3> SUFFICES ASSUME NEW r \in UnfinishedRows(k), k[r].state \notin {"PREPARED", "VALIDATED"}
                 PROVE  Untouched(k[r], n, l)
      OBVIOUS
    <3>1. r = row /\ to \notin FinishedStates /\ to \notin {"PREPARED", "VALIDATED"}
      BY <1>1, <1>3 DEF UnfinishedRows
    <3>2. Untouched(j[row], n, l)
      BY <2>1, <3>1 DEF TransactionStates, FinishedStates
    <3> QED
      BY <1>1, <3>1, <3>2 DEF Untouched
  <2>8. ASSUME Quiet(k)
        PROVE  Fits(f, n, l) /\ Expects(k, Commits(k), w, f)
    <3>1. to \in FinishedStates \cup {"PREPARED", "VALIDATED"}
      BY <1>1, <2>8 DEF Quiet, UnfinishedRows
    <3>2. Commits(k) \subseteq DOMAIN j /\ Commits(j) \subseteq DOMAIN j
      BY <1>1 DEF Commits
    <3>3. to # "COMMITTED" => Commits(k) = {x \in Commits(j) : x < row}
      <4>1. \A x \in Commits(k) : to # "COMMITTED" => x \in Commits(j) /\ x < row
        BY <1>1, <1>3 DEF Commits, Undoable
      <4>2. \A x \in Commits(j) : x < row => x \in Commits(k)
        BY <1>1, <2>4 DEF Commits
      <4> QED
        BY <4>1, <4>2
    <3>4. CASE to = "COMMITTED"
      <4>1. Fits(f, n, l) /\ f = k[row].candidate
        BY <1>1, <2>1, <3>4
      <4>2. \A x \in Commits(k) : x <= row
        BY <1>1, <1>3, <2>4 DEF Commits, Undoable
      <4>3. row \in Commits(k)
        BY <1>1, <3>4 DEF Commits
      <4> QED
        BY <4>1, <4>2, <4>3 DEF Expects
    <3>5. CASE to = "ROLLED_BACK"
      <4>1. Fits(f, n, l) /\ f = j[row].snapshot
        BY <2>1, <3>5
      <4>2. Expects(j, {x \in Commits(j) : x < row}, w, f)
        BY <2>2, <4>1
      <4>3. {x \in Commits(j) : x < row} \subseteq DOMAIN j
        BY <3>2
      <4> QED
        BY <2>3, <3>3, <3>5, <4>1, <4>2, <4>3
    <3>6. CASE to \in {"PREPARED", "VALIDATED", "FAILED"}
      <4>1. j[row].state \in {"PREPARED", "VALIDATED"}
        BY <2>1, <3>6
      <4>2. Quiet(j)
        BY <4>1 DEF Quiet, UnfinishedRows, IsTop, Undoable, FinishedStates
      <4>3. Commits(k) = Commits(j)
        BY <1>1, <3>6, <4>1 DEF Commits
      <4> QED
        BY <2>2, <2>3, <3>2, <4>2, <4>3
    <3> QED
      BY <3>1, <3>4, <3>5, <3>6 DEF FinishedStates
  <2> QED
    BY <2>6, <2>7, <2>8
<1> QED
  BY <1>2, <1>5, <1>6 DEF RecordOK

\* A new operation whose snapshot is the state file keeps the record.
LEMMA CreationKeepsRecord ==
    ASSUME NEW j \in Seq(Entries), NEW e \in Entries, NEW f, NEW n, NEW l, NEW w,
           RecordOK(j, f, n, l, w), UnfinishedRows(j) = {},
           e.state = "PREPARED", e.detail = "none", e.snapshot = f
    PROVE  RecordOK(Append(j, e), f, n, l, w)
<1> DEFINE k == Append(j, e)
           top == Len(j) + 1
<1>1. /\ DOMAIN k = DOMAIN j \cup {top} /\ k[top] = e /\ top \in Nat
      /\ \A r \in DOMAIN j : k[r] = j[r] /\ r < top /\ r \in Nat
  <2>1. Len(j) \in Nat /\ DOMAIN j = 1..Len(j) /\ DOMAIN k = 1..(Len(j) + 1)
    BY AppendProperties
  <2>2. k[top] = e /\ \A r \in 1..Len(j) : k[r] = j[r]
    BY AppendProperties
  <2> QED
    BY <2>1, <2>2
<1> HIDE DEF k, top
<1>2. \A r \in DOMAIN k : k[r].detail = "rollback_failed" => k[r].state = "FAILED"
  BY <1>1 DEF RecordOK
<1>3. UnfinishedRows(k) = {top} /\ \A r \in DOMAIN j : ~(r \in UnfinishedRows(k))
  BY <1>1 DEF UnfinishedRows, FinishedStates
<1>4. IsTop(k, top)
  BY <1>1, <1>3 DEF IsTop, Undoable, UnfinishedRows
<1>5. ASSUME ~GaveUp(k)
      PROVE  /\ \A r \in DOMAIN k : Undoable(k, r) =>
                    Expects(k, {x \in Commits(k) : x < r}, w, k[r].snapshot)
             /\ Fits(f, n, l) /\ Expects(k, Commits(k), w, f)
  <2>1. ~GaveUp(j)
    BY <1>1, <1>5 DEF GaveUp
  <2>2. Quiet(j)
    BY DEF Quiet
  <2>3. /\ \A r \in DOMAIN j : Undoable(j, r) =>
               Expects(j, {x \in Commits(j) : x < r}, w, j[r].snapshot)
        /\ Fits(f, n, l) /\ Expects(j, Commits(j), w, f)
    BY <2>1, <2>2 DEF RecordOK
  <2>4. Commits(k) = Commits(j) /\ Commits(j) \subseteq DOMAIN j
    BY <1>1 DEF Commits
  <2>5. Expects(k, Commits(k), w, f)
    BY <1>1, <2>3, <2>4, SameExpectations
  <2>6. ASSUME NEW r \in DOMAIN k, Undoable(k, r)
        PROVE  Expects(k, {x \in Commits(k) : x < r}, w, k[r].snapshot)
    <3>1. CASE r = top
      <4>1. {x \in Commits(k) : x < r} = Commits(k) /\ k[r].snapshot = f
        BY <1>1, <2>4, <3>1
      <4> QED
        BY <2>5, <4>1
    <3>2. CASE r # top
      <4>1. r \in DOMAIN j /\ Undoable(j, r)
        BY <1>1, <2>6, <3>2 DEF Undoable
      <4>2. Expects(j, {x \in Commits(j) : x < r}, w, j[r].snapshot)
        BY <2>3, <4>1
      <4>3. \A x \in {x \in Commits(j) : x < r} : k[x].candidate = j[x].candidate
        BY <1>1, <2>4
      <4>4. Expects(k, {x \in Commits(j) : x < r}, w, j[r].snapshot)
        BY <4>2, <4>3, SameExpectations
      <4> QED
        BY <1>1, <2>4, <4>1, <4>4
    <3> QED
      BY <3>1, <3>2
  <2> QED
    BY <2>3, <2>5, <2>6
<1>6. RecordOK(k, f, n, l, w)
  BY <1>1, <1>2, <1>3, <1>4, <1>5 DEF RecordOK
<1> QED
  BY <1>6 DEF k

\* The operation in flight may do to its entries what it wants, once it is applied.
LEMMA WorkKeepsRecord ==
    ASSUME NEW j, NEW f, NEW n, NEW l, NEW w, NEW f2, NEW n2, NEW l2,
           NEW row \in UnfinishedRows(j), j[row].state \notin {"PREPARED", "VALIDATED"},
           RecordOK(j, f, n, l, w),
           Untouched(j[row], n, l) => Untouched(j[row], n2, l2)
    PROVE  RecordOK(j, f2, n2, l2, w)
<1>1. \A r \in UnfinishedRows(j) : r = row
  BY DEF RecordOK, IsTop, Undoable, UnfinishedRows, FinishedStates
<1>2. ~Quiet(j)
  BY DEF Quiet
<1> QED
  BY <1>1, <1>2 DEF RecordOK

\* A seal may break, links may vanish, and the directory may be emptied: under
\* running links only where it does not outlive the daemon.
LEMMA OthersKeepRecord ==
    ASSUME NEW j \in Seq(Entries), NEW k, NEW f, NEW n, NEW l, NEW w \in 0..Len(j),
           NEW f2, NEW n2, NEW l2, NEW w2,
           RecordOK(j, f, n, l, w), DOMAIN k = DOMAIN j,
           \A row \in DOMAIN j :
               /\ k[row].state = j[row].state /\ k[row].detail = j[row].detail
               /\ k[row].snapshot = j[row].snapshot /\ k[row].candidate = j[row].candidate,
           \A i \in Outbounds : l2[i] \in {l[i], None},
           \/ f2 = f /\ n2 = n /\ w2 = w
           \/ /\ f2 = Empty /\ n2 = Empty /\ w2 = Len(j)
              /\ ~DirectorySurvives \/ l2 = Empty
    PROVE  RecordOK(k, f2, n2, l2, w2)
<1>1. UnfinishedRows(k) = UnfinishedRows(j) /\ UnfinishedRows(j) \subseteq DOMAIN j
  BY DEF UnfinishedRows
<1>2. \A row : Undoable(k, row) <=> Undoable(j, row)
  BY DEF Undoable
<1>3. \A row \in UnfinishedRows(k) : IsTop(k, row)
  BY <1>1, <1>2 DEF RecordOK, IsTop
<1>4. Quiet(k) <=> Quiet(j)
  BY <1>1 DEF Quiet
<1>5. Commits(k) = Commits(j) /\ Commits(j) \subseteq DOMAIN j
  BY DEF Commits
<1>6. \A i \in Outbounds : Empty[i] = None
  BY DEF Empty
<1>7. ASSUME ~GaveUp(k)
      PROVE  /\ \A row \in DOMAIN k : Undoable(k, row) =>
                    Expects(k, {r \in Commits(k) : r < row}, w2, k[row].snapshot)
             /\ \A row \in UnfinishedRows(k) :
                    k[row].state \notin {"PREPARED", "VALIDATED"} => Untouched(k[row], n2, l2)
             /\ Quiet(k) => Fits(f2, n2, l2) /\ Expects(k, Commits(k), w2, f2)
  <2>1. ~GaveUp(j)
    BY <1>7 DEF GaveUp
  <2>2. \A rows, d : rows \subseteq DOMAIN j /\ Expects(j, rows, w, d) => Expects(k, rows, w2, d)
    <3>1. \A r \in DOMAIN j : r <= w => r <= w2
      BY LenProperties
    <3> QED
      BY <3>1, SameExpectations
  <2>3. ASSUME NEW row \in DOMAIN k, Undoable(k, row)
        PROVE  Expects(k, {r \in Commits(k) : r < row}, w2, k[row].snapshot)
    <3>1. Expects(j, {r \in Commits(j) : r < row}, w, j[row].snapshot)
      BY <1>2, <2>1, <2>3 DEF RecordOK
    <3>2. {r \in Commits(j) : r < row} \subseteq DOMAIN j
      BY <1>5
    <3> QED
      BY <1>5, <2>2, <3>1, <3>2
  <2>4. ASSUME NEW row \in UnfinishedRows(k), k[row].state \notin {"PREPARED", "VALIDATED"}
        PROVE  Untouched(k[row], n2, l2)
    <3>1. Untouched(j[row], n, l)
      BY <1>1, <2>1, <2>4 DEF RecordOK
    <3> QED
      BY <1>1, <1>6, <3>1 DEF Untouched, LinkOK
  <2>5. ASSUME Quiet(k)
        PROVE  Fits(f2, n2, l2) /\ Expects(k, Commits(k), w2, f2)
    <3>1. Fits(f, n, l) /\ Expects(j, Commits(j), w, f)
      BY <1>4, <2>1, <2>5 DEF RecordOK
    <3>2. Fits(f2, n2, l2)
      BY <1>6, <3>1 DEF Fits, LinkOK
    <3>3. CASE f2 = f
      BY <1>5, <2>2, <3>1, <3>2, <3>3
    <3>4. CASE f2 = Empty /\ w2 = Len(j)
      <4>1. CASE Commits(j) = {}
        BY <1>5, <3>2, <3>4, <4>1 DEF Expects
      <4>2. CASE Commits(j) # {}
        <5>1. PICK newest \in Commits(j) : \A other \in Commits(j) : other <= newest
          BY <3>1, <4>2 DEF Expects
        <5>2. newest <= Len(j)
          BY <1>5, <5>1, LenProperties
        <5> QED
          BY <1>5, <3>2, <3>4, <5>1, <5>2 DEF Expects
      <4> QED
        BY <4>1, <4>2
    <3> QED
      BY <3>3, <3>4
  <2> QED
    BY <2>3, <2>4, <2>5
<1> QED
  BY <1>1, <1>3, <1>7 DEF RecordOK

-------------------------------------------------------------------------------
(* The steps of the task.                                                  *)

\* The order of natural numbers, as a set.
Less == {pair \in Nat \X Nat : pair[1] < pair[2]}

\* A set of numbers with a member has a least one.
LEMMA LeastElement ==
    ASSUME NEW S, S \subseteq Nat, S # {} PROVE \E m \in S : \A n \in S : m <= n
<1>1. IsWellFoundedOn(Less, Nat)
  BY NatLessThanWellFounded DEF OpToRel, Less
<1>2. PICK m \in S : \A n \in S : <<n, m>> \notin Less
  BY <1>1, WFMin
<1>3. ASSUME NEW n \in S PROVE m <= n
  <2>1. <<n, m>> \in Nat \X Nat /\ <<n, m>>[1] = n /\ <<n, m>>[2] = m
    OBVIOUS
  <2>2. ~(n < m)
    BY <1>2, <2>1 DEF Less
  <2> QED
    BY <2>2
<1> QED
  BY <1>3

\* The loops take one of the outbounds they still have to do.
LEMMA CurrentIsMember ==
    ASSUME IInv, task.todo # {}
    PROVE  /\ Current \in task.todo /\ Current = First(task.todo)
           /\ Current \in Outbounds /\ task.todo \subseteq Outbounds
<1>1. task.todo \subseteq Outbounds
  BY DEF IInv, TypeOK, Tasks
<1>2. \E i \in task.todo : \A j \in task.todo : i <= j
  BY <1>1, LeastElement, InterfaceAssumption
<1> QED
  BY <1>1, <1>2 DEF Current, First

\* The entry a step works on.
LEMMA RowFacts ==
    ASSUME IInv, task.step \in RowSteps
    PROVE  /\ journal \in Seq(Entries) /\ task \in Tasks /\ task.row \in DOMAIN journal
           /\ task.row \notin task.rows /\ task.rows \subseteq UnfinishedRows(journal)
           /\ Entry = journal[task.row] /\ journal[task.row] \in Entries
           /\ journal[task.row].candidate \in Documents /\ journal[task.row].snapshot \in Documents
           /\ Target = TargetOf(task, journal[task.row])
           /\ TargetOf(task, journal[task.row]) \in Documents
           /\ journal[task.row].state \in TransactionStates
           /\ task.from \in FromAt(task.step) /\ task.from \in TransactionStates
           /\ task.step \notin {"mark_failed", "roll_back"} => journal[task.row].state = task.from
           /\ task.run = "reconcile" => journal[task.row].candidate = planned
           /\ task.step = "mark_interrupted" => task.run = "recovery"
           /\ LoopOK(task, journal[task.row], links)
           /\ FileOK(task, journal[task.row], file)
           /\ VerifiedOK(task, journal[task.row], configs, links, lost)
           /\ GaveUp(journal) \/ HostOK(task, journal[task.row], configs, links)
<1>1. journal \in Seq(Entries) /\ task \in Tasks
  BY DEF IInv, TypeOK
<1>2. /\ task.row \in DOMAIN journal /\ task.row \notin task.rows
      /\ task.rows \subseteq UnfinishedRows(journal)
      /\ task.from \in FromAt(task.step)
      /\ task.step \notin {"mark_failed", "roll_back"} => journal[task.row].state = task.from
      /\ task.run = "reconcile" => journal[task.row].candidate = planned
      /\ task.step = "mark_interrupted" => task.run = "recovery"
      /\ LoopOK(task, journal[task.row], links)
      /\ FileOK(task, journal[task.row], file)
      /\ VerifiedOK(task, journal[task.row], configs, links, lost)
      /\ GaveUp(journal) \/ HostOK(task, journal[task.row], configs, links)
  BY DEF IInv, TaskOK
<1>3. journal[task.row] \in Entries
  BY <1>1, <1>2
<1>4. /\ journal[task.row].snapshot \in Documents /\ journal[task.row].candidate \in Documents
      /\ journal[task.row].state \in TransactionStates
  BY <1>3 DEF Entries
<1>5. task.from \in TransactionStates
  BY <1>1 DEF Tasks
<1> QED
  BY <1>1, <1>2, <1>3, <1>4, <1>5 DEF Entry, Target, TargetOf, Restoring

\* An entry in flight is the top of the journal.
LEMMA InFlight ==
    ASSUME IInv, task.step \in RowSteps, journal[task.row].state \notin FinishedStates
    PROVE  /\ task.row \in UnfinishedRows(journal) /\ Undoable(journal, task.row)
           /\ IsTop(journal, task.row)
<1>1. task.row \in UnfinishedRows(journal)
  BY RowFacts DEF UnfinishedRows
<1> QED
  BY <1>1 DEF IInv, RecordOK, Undoable, UnfinishedRows

\* A fault is counted or none happens.
LEMMA FaultType == ASSUME IInv, UNCHANGED faults \/ Fault PROVE faults' \in 0..MaxFaults
<1>1. faults \in 0..MaxFaults /\ MaxFaults \in Nat
  BY InterfaceAssumption DEF IInv, TypeOK
<1> QED
  BY <1>1 DEF Fault

LinkStates == Versions \cup {None, Partial}

\* A step that leaves the daemon, the editors and the directory alone, put together.
LEMMA TaskStep ==
    ASSUME IInv, UNCHANGED <<up, desired, edits, recoveries, crashes, wipedAt>>,
           UNCHANGED faults \/ Fault, tracker' \in {"none", "succeeded", "failed"},
           task' \in Tasks, journal' \in Seq(Entries), wipedAt \in 0..Len(journal'),
           file' \in Documents, configs' \in Documents, links' \in [Outbounds -> LinkStates],
           \A i \in OpenVPN : links'[i] # Partial, lost' \in BOOLEAN, planned' \in Documents,
           RecordOK(journal', file', configs', links', wipedAt),
           TaskOK(task', journal', file', configs', links', lost', planned'),
           ReadyOK(tracker', task'.run, journal', file', links', lost')
    PROVE  IInv'
<1>1. faults' \in 0..MaxFaults
  BY FaultType
<1>2. TypeOK'
  BY <1>1 DEF IInv, TypeOK, LinkStates
<1> QED
  BY <1>2 DEF IInv

\* A recovery run stays one until it ends.
StaysIn == task.run \in {"recovery", "reconcile"} => task'.run = task.run

\* The record of the task that does nothing.
LEMMA IdleOK ==
    /\ IdleTask \in Tasks /\ IdleTask.run = "none" /\ IdleTask.step = "idle" /\ IdleTask.rows = {}
    /\ \A j, f, n, l, lo, pl : TaskOK(IdleTask, j, f, n, l, lo, pl)
<1>1. /\ IdleTask.run = "none" /\ IdleTask.step = "idle" /\ IdleTask.row = 0
      /\ IdleTask.from = "PREPARED" /\ IdleTask.todo = {} /\ IdleTask.rows = {}
  BY DEF IdleTask
<1>2. IdleTask \in Tasks
  BY DEF IdleTask, Tasks, Runs, Steps, TransactionStates
<1>3. ASSUME NEW j, NEW f, NEW n, NEW l, NEW lo, NEW pl
      PROVE  TaskOK(IdleTask, j, f, n, l, lo, pl)
  BY <1>1 DEF TaskOK, RowSteps, RunSteps, LoopSteps, StopSteps, StartSteps
<1> QED
  BY <1>1, <1>2, <1>3

\* A return leaves nothing to rely on, except for the end of a reconciliation.
LEMMA ReturnOK ==
    ASSUME IInv, NEW ok \in BOOLEAN, Return(ok), NEW j, NEW f, NEW n, NEW l, NEW lo, NEW pl,
           task.rows \subseteq UnfinishedRows(j),
           ok /\ task.run = "reconcile" =>
               /\ f = pl /\ \A i \in Outbounds : pl[i] # None => n[i] = pl[i]
               /\ lo \/ Linked(pl, l)
    PROVE  task' \in Tasks /\ TaskOK(task', j, f, n, l, lo, pl) /\ StaysIn
<1>1. task \in Tasks /\ task.run \in Runs /\ task.erred \in BOOLEAN
  BY DEF IInv, TypeOK, Tasks
<1>2. CASE task.run = "recovery"
  <2> DEFINE t == [task EXCEPT !.step = "next_operation", !.erred = @ \/ ~ok]
  <2>1. task' = t
    BY <1>2 DEF Return
  <2>2. t.step = "next_operation" /\ t.rows = task.rows /\ t.run = task.run
    BY <1>1 DEF Tasks
  <2>3. t \in Tasks
    <3>1. (task.erred \/ ~ok) \in BOOLEAN /\ "next_operation" \in Steps
      BY <1>1 DEF Steps
    <3> QED
      BY <1>1, <3>1 DEF Tasks
  <2> HIDE DEF t
  <2>4. TaskOK(t, j, f, n, l, lo, pl)
    BY <1>2, <2>2 DEF TaskOK, RowSteps, RunSteps, LoopSteps, StopSteps, StartSteps
  <2> QED
    BY <2>1, <2>2, <2>3, <2>4 DEF StaysIn
<1>3. CASE task.run = "reconcile"
  <2> DEFINE t == [task EXCEPT !.step = "finish_recovery", !.erred = ~ok]
  <2>1. task' = t
    BY <1>3 DEF Return
  <2>2. t.step = "finish_recovery" /\ t.rows = task.rows /\ t.run = task.run /\ t.erred = ~ok
    BY <1>1 DEF Tasks
  <2>3. t \in Tasks
    <3>1. (~ok) \in BOOLEAN /\ "finish_recovery" \in Steps
      BY DEF Steps
    <3> QED
      BY <1>1, <3>1 DEF Tasks
  <2> HIDE DEF t
  <2>4. TaskOK(t, j, f, n, l, lo, pl)
    BY <1>3, <2>2 DEF TaskOK, RowSteps, RunSteps, LoopSteps, StopSteps, StartSteps
  <2> QED
    BY <2>1, <2>2, <2>3, <2>4 DEF StaysIn
<1>4. CASE task.run \notin {"recovery", "reconcile"}
  <2>1. task' = IdleTask
    BY <1>4 DEF Return
  <2> QED
    BY <1>4, <2>1, IdleOK DEF StaysIn
<1> QED
  BY <1>2, <1>3, <1>4

\* The task goes to another step.
LEMMA GotoMoves ==
    ASSUME IInv, NEW step \in Steps, Goto(step)
    PROVE  /\ task' \in Tasks /\ task'.step = step /\ task'.row = task.row /\ task'.rows = task.rows
           /\ task'.from = task.from /\ task'.todo = task.todo /\ task'.run = task.run
           /\ task'.erred = task.erred /\ StaysIn
<1>1. task \in Tasks
  BY DEF IInv, TypeOK
<1> QED
  BY <1>1 DEF Goto, Tasks, StaysIn

\* Steps after an error, which look at the entry again.
LEMMA ErrorOK ==
    ASSUME IInv, task.step \in RowSteps,
           NEW onError \in {"fail", "roll_back", "mark_failed"}, Proceed(onError),
           onError # "fail" => task.from \in FromAt(onError),
           NEW j, DOMAIN j = DOMAIN journal, task.rows \subseteq UnfinishedRows(j),
           j[task.row].candidate = journal[task.row].candidate,
           NEW f, NEW n, NEW l, NEW lo
    PROVE  task' \in Tasks /\ TaskOK(task', j, f, n, l, lo, planned) /\ StaysIn
<1>1. CASE onError = "fail"
  BY <1>1, ReturnOK DEF Proceed
<1>2. CASE onError # "fail"
  <2>1. Goto(onError) /\ onError \in Steps
    BY <1>2 DEF Proceed, Steps
  <2>2. /\ task' \in Tasks /\ task'.step = onError /\ task'.row = task.row
        /\ task'.rows = task.rows /\ task'.from = task.from /\ task'.run = task.run /\ StaysIn
    BY <2>1, GotoMoves
  <2>3. /\ LoopOK(task', j[task'.row], l) /\ FileOK(task', j[task'.row], f)
        /\ VerifiedOK(task', j[task'.row], n, l, lo) /\ HostOK(task', j[task'.row], n, l)
    BY <1>2, <2>2 DEF LoopOK, FileOK, VerifiedOK, HostOK, LoopSteps, StopSteps, StartSteps
  <2>4. onError \notin RunSteps /\ onError \in {"roll_back", "mark_failed"}
    BY <1>2 DEF RunSteps
  <2> QED
    BY <1>2, <2>2, <2>3, <2>4, RowFacts DEF TaskOK
<1> QED
  BY <1>1, <1>2

\* A failing apply rolls back; a failing restore gives up or returns.
LEMMA OnErrorOK ==
    ASSUME IInv, task.step \in LoopSteps \cup {"verify", "verify_restored"}, OnError,
           NEW f, NEW n, NEW l, NEW lo
    PROVE  task' \in Tasks /\ TaskOK(task', journal, f, n, l, lo, planned) /\ StaysIn
<1>1. task.step \in RowSteps
  BY DEF RowSteps
<1>2. CASE ~Restoring
  <2>1. Goto("roll_back")
    BY <1>2 DEF OnError
  <2>2. "roll_back" # "fail" /\ Proceed("roll_back")
    BY <2>1 DEF Proceed
  <2>3. task.from \in FromAt("roll_back")
    BY <1>1, <1>2, RowFacts DEF FromAt, Restoring, LoopSteps, StopSteps, StartSteps
  <2> QED
    BY <1>1, <2>2, <2>3, RowFacts, ErrorOK
<1>3. CASE Restoring /\ task.run = "rollback"
  <2>1. Return(FALSE)
    BY <1>3 DEF OnError
  <2> QED
    BY <1>1, <2>1, RowFacts, ReturnOK
<1>4. CASE Restoring /\ task.run # "rollback"
  <2>1. Goto("mark_failed")
    BY <1>4 DEF OnError
  <2>2. "mark_failed" # "fail" /\ Proceed("mark_failed")
    BY <2>1 DEF Proceed
  <2>3. task.from \in FromAt("mark_failed")
    BY <1>4 DEF FromAt, Restoring, LoopSteps, StopSteps, StartSteps
  <2> QED
    BY <1>1, <2>2, <2>3, RowFacts, ErrorOK
<1> QED
  BY <1>2, <1>3, <1>4

-------------------------------------------------------------------------------
(* The journal writes.                                                     *)

\* What TransitionOperation may leave behind, whether or not it reports an error.
LEMMA TransitionMoves ==
    ASSUME NEW j \in Seq(Entries), NEW row \in DOMAIN j, NEW from, NEW to \in TransactionStates,
           NEW detail \in Details
    PROVE  LET k == Transitioned(j, row, from, to, detail)
           IN  /\ k \in Seq(Entries) /\ DOMAIN k = DOMAIN j /\ Len(k) = Len(j)
               /\ TransitionApplies(j, row, from, to) =>
                      Moves(j, k, row, to, detail) /\ j[row].state = from
               /\ ~TransitionApplies(j, row, from, to) => k = j
<1> DEFINE k == Transitioned(j, row, from, to, detail)
<1>1. CASE ~TransitionApplies(j, row, from, to)
  BY <1>1 DEF Transitioned
<1>3. CASE TransitionApplies(j, row, from, to)
  <2> DEFINE e == [j[row] EXCEPT !.state = to, !.detail = detail]
  <2>1. j[row].state = from /\ k = [j EXCEPT ![row] = e]
    BY <1>3 DEF Transitioned, TransitionApplies
  <2>2. j[row] \in Entries
    OBVIOUS
  <2>3. /\ e.snapshot = j[row].snapshot
        /\ e.candidate = j[row].candidate /\ e.state = to /\ e.detail = detail
    BY <2>2 DEF Entries
  <2>4. e \in Entries
    BY <2>2 DEF Entries
  <2> HIDE DEF e
  <2>5. /\ DOMAIN k = DOMAIN j /\ k \in Seq(Entries) /\ Len(k) = Len(j)
        /\ \A r \in DOMAIN j : k[r] = IF r = row THEN e ELSE j[r]
    BY <2>1, <2>4
  <2> QED
    BY <1>3, <2>1, <2>3, <2>5 DEF Moves
<1> QED
  BY <1>1, <1>3

\* The journal after a transition of the task.
LEMMA WrittenJournal ==
    ASSUME journal \in Seq(Entries), task.row \in DOMAIN journal,
           NEW to \in TransactionStates, NEW detail \in Details,
           journal' \in {journal, Transitioned(journal, task.row, task.from, to, detail)}
    PROVE  /\ journal' \in Seq(Entries) /\ DOMAIN journal' = DOMAIN journal
           /\ Len(journal') = Len(journal)
           /\ \/ journal' = journal
              \/ /\ Moves(journal, journal', task.row, to, detail)
                 /\ journal[task.row].state = task.from
           /\ TransitionApplies(journal, task.row, task.from, to)
                 /\ journal' = Transitioned(journal, task.row, task.from, to, detail) =>
                     /\ Moves(journal, journal', task.row, to, detail)
                     /\ journal[task.row].state = task.from
<1>1. PICK row \in DOMAIN journal : row = task.row
  OBVIOUS
<1>2. PICK from : from = task.from
  OBVIOUS
<1>3. journal' \in {journal, Transitioned(journal, row, from, to, detail)}
  BY <1>1, <1>2
<1>4. /\ Transitioned(journal, row, from, to, detail) \in Seq(Entries)
      /\ DOMAIN Transitioned(journal, row, from, to, detail) = DOMAIN journal
      /\ Len(Transitioned(journal, row, from, to, detail)) = Len(journal)
      /\ TransitionApplies(journal, row, from, to) =>
             /\ Moves(journal, Transitioned(journal, row, from, to, detail), row, to, detail)
             /\ journal[row].state = from
      /\ ~TransitionApplies(journal, row, from, to) =>
             Transitioned(journal, row, from, to, detail) = journal
  BY TransitionMoves
<1> QED
  BY <1>1, <1>2, <1>3, <1>4


\* A restore that gave up is not forgotten.
LEMMA GaveUpStays ==
    ASSUME IInv, NEW row, NEW to, NEW detail, Moves(journal, journal', row, to, detail),
           journal[row].state # "FAILED", GaveUp(journal)
    PROVE  GaveUp(journal')
<1>1. PICK r \in DOMAIN journal : journal[r].detail = "rollback_failed"
  BY DEF GaveUp
<1>2. r # row
  BY <1>1 DEF IInv, RecordOK
<1> QED
  BY <1>1, <1>2 DEF GaveUp, Moves

\* What the task relies on is about the documents of its entry.
LEMMA SameEntry ==
    ASSUME NEW t, NEW e, NEW e2, NEW f, NEW n, NEW l, NEW lo,
           e2.snapshot = e.snapshot, e2.candidate = e.candidate
    PROVE  /\ LoopOK(t, e, l) => LoopOK(t, e2, l)
           /\ FileOK(t, e, f) => FileOK(t, e2, f)
           /\ VerifiedOK(t, e, n, l, lo) => VerifiedOK(t, e2, n, l, lo)
           /\ HostOK(t, e, n, l) => HostOK(t, e2, n, l)
<1>1. TargetOf(t, e2) = TargetOf(t, e) /\ \A i : Same(t, e2, i) <=> Same(t, e, i)
  BY DEF TargetOf, Same
<1>2. LoopOK(t, e, l) => LoopOK(t, e2, l)
  BY <1>1 DEF LoopOK
<1>3. FileOK(t, e, f) => FileOK(t, e2, f)
  BY DEF FileOK
<1>4. VerifiedOK(t, e, n, l, lo) => VerifiedOK(t, e2, n, l, lo)
  BY DEF VerifiedOK
<1>5. HostOK(t, e, n, l) => HostOK(t, e2, n, l)
  BY <1>1 DEF HostOK
<1> QED
  BY <1>2, <1>3, <1>4, <1>5

\* The task after a transition that succeeds.
LEMMA ReachedOK ==
    ASSUME IInv, task.step \in RowSteps, NEW to, NEW detail,
           Moves(journal, journal', task.row, to, detail), journal[task.row].state = task.from,
           task' \in Tasks, task'.from = to, task'.row = task.row, task'.rows = task.rows,
           task'.run = task.run,
           task'.step \in RowSteps \ {"mark_rolling_back", "mark_interrupted"},
           to \in FromAt(task'.step),
           LoopOK(task', journal[task.row], links), FileOK(task', journal[task.row], file),
           VerifiedOK(task', journal[task.row], configs, links, lost),
           GaveUp(journal) \/ HostOK(task', journal[task.row], configs, links)
    PROVE  TaskOK(task', journal', file, configs, links, lost, planned) /\ StaysIn
<1>1. /\ task.rows \subseteq UnfinishedRows(journal')
      /\ task.row \in DOMAIN journal' \ task.rows /\ journal'[task.row].state = to
      /\ journal'[task.row].snapshot = journal[task.row].snapshot
      /\ journal'[task.row].candidate = journal[task.row].candidate
      /\ task.run = "reconcile" => journal[task.row].candidate = planned
  BY RowFacts DEF Moves, UnfinishedRows
<1>2. journal[task.row].state # "FAILED"
  BY RowFacts DEF FromAt
<1>3. GaveUp(journal) => GaveUp(journal')
  BY <1>2, GaveUpStays
<1>4. /\ LoopOK(task', journal'[task.row], links) /\ FileOK(task', journal'[task.row], file)
      /\ VerifiedOK(task', journal'[task.row], configs, links, lost)
      /\ HostOK(task', journal[task.row], configs, links)
             => HostOK(task', journal'[task.row], configs, links)
  BY <1>1, SameEntry
<1>5. task'.step \notin {"mark_rolling_back", "mark_interrupted"} \cup RunSteps
  BY DEF RowSteps, RunSteps, LoopSteps, StopSteps, StartSteps
<1>6. task'.step \notin {"next_operation", "reconcile", "finish_recovery"}
  BY <1>5 DEF RunSteps
<1> QED
  BY <1>1, <1>3, <1>4, <1>5, <1>6 DEF TaskOK, StaysIn

\* The task after a transition that ends the treatment of its entry.
LEMMA EndedOK ==
    ASSUME IInv, task.step \in RowSteps, NEW to, NEW detail, NEW ok \in BOOLEAN,
           Moves(journal, journal', task.row, to, detail), Return(ok),
           ok => task.run # "reconcile" \/ task.step = "commit"
    PROVE  /\ task' \in Tasks /\ TaskOK(task', journal', file, configs, links, lost, planned)
           /\ StaysIn
<1>1. task.rows \subseteq UnfinishedRows(journal')
  BY RowFacts DEF Moves, UnfinishedRows
<1>2. ok /\ task.run = "reconcile" =>
          /\ file = planned /\ \A i \in Outbounds : planned[i] # None => configs[i] = planned[i]
          /\ lost \/ Linked(planned, links)
  BY RowFacts DEF FileOK, VerifiedOK
<1> QED
  BY <1>1, <1>2, ReturnOK

\* An operation in flight that has not been applied leaves the host alone.
LEMMA NotApplied ==
    ASSUME IInv, NEW row \in DOMAIN journal, journal[row].state \in {"PREPARED", "VALIDATED"}
    PROVE  Quiet(journal) /\ (GaveUp(journal) \/ Fits(file, configs, links))
<1>1. row \in UnfinishedRows(journal)
  BY DEF UnfinishedRows, FinishedStates
<1>2. Quiet(journal)
  BY <1>1 DEF IInv, RecordOK, Quiet, IsTop, Undoable, UnfinishedRows, FinishedStates
<1> QED
  BY <1>2 DEF IInv, RecordOK

\* The record after a transition of an operation in flight, and the links of a
\* daemon that is ready.
LEMMA RecordStep ==
    ASSUME IInv, task.step \in RowSteps, NEW to \in TransactionStates, NEW detail,
           Moves(journal, journal', task.row, to, detail),
           journal[task.row].state \notin FinishedStates,
           detail = "rollback_failed" => to = "FAILED",
           \/ /\ to \in {"APPLYING", "VERIFYING", "ROLLING_BACK"}
              /\ GaveUp(journal) \/ Untouched(journal[task.row], configs, links)
           \/ to = "FAILED" /\ detail = "rollback_failed"
           \/ to \in {"VALIDATED", "FAILED"} /\ journal[task.row].state \in {"PREPARED", "VALIDATED"}
           \/ /\ to = "ROLLED_BACK" /\ file = journal[task.row].snapshot
              /\ GaveUp(journal) \/ Fits(file, configs, links)
              /\ lost \/ Linked(file, links)
           \/ /\ to = "COMMITTED" /\ file = journal[task.row].candidate
              /\ GaveUp(journal) \/ Fits(file, configs, links)
              /\ lost \/ Linked(file, links)
    PROVE  /\ RecordOK(journal', file, configs, links, wipedAt)
           /\ StaysIn => ReadyOK(tracker, task'.run, journal', file, links, lost)
<1>1. PICK row \in DOMAIN journal : row = task.row
  BY RowFacts
<1>2. journal \in Seq(Entries) /\ RecordOK(journal, file, configs, links, wipedAt)
  BY DEF IInv, TypeOK
<1>3. Undoable(journal, row) /\ IsTop(journal, row) /\ row \in UnfinishedRows(journal)
  BY <1>1, InFlight
<1>4. Moves(journal, journal', row, to, detail)
  BY <1>1
<1>5. /\ to \in {"APPLYING", "VERIFYING", "ROLLING_BACK"} =>
             GaveUp(journal) \/ Untouched(journal[row], configs, links)
      /\ to \in {"PREPARED", "VALIDATED", "FAILED"} /\ detail # "rollback_failed" =>
             journal[row].state \in {"PREPARED", "VALIDATED"}
      /\ to = "ROLLED_BACK" =>
             GaveUp(journal) \/ (Fits(file, configs, links) /\ file = journal[row].snapshot)
      /\ to = "COMMITTED" =>
             GaveUp(journal) \/ (Fits(file, configs, links) /\ file = journal[row].candidate)
  BY <1>1
<1>6. RecordOK(journal', file, configs, links, wipedAt)
  BY <1>2, <1>3, <1>4, <1>5, MoveKeepsRecord
<1>7. ASSUME StaysIn, tracker = "succeeded", task'.run \notin {"recovery", "reconcile"},
             Quiet(journal'), ~GaveUp(journal'), ~lost
      PROVE  Linked(file, links)
  <2>1. task.run \notin {"recovery", "reconcile"}
    BY <1>7 DEF StaysIn
  <2>2. journal[row].state # "FAILED"
    BY <1>3 DEF UnfinishedRows, FinishedStates
  <2>3. ~GaveUp(journal)
    BY <1>4, <1>7, <2>2, GaveUpStays
  <2>4. detail # "rollback_failed"
    BY <1>4, <1>7 DEF GaveUp, Moves
  <2>5. to \notin {"APPLYING", "VERIFYING", "ROLLING_BACK"}
    BY <1>4, <1>7 DEF Moves, Quiet, UnfinishedRows, FinishedStates
  <2>6. CASE journal[task.row].state \in {"PREPARED", "VALIDATED"}
    <3>1. Quiet(journal)
      BY <1>1, <2>6, NotApplied
    <3> QED
      BY <1>7, <2>1, <2>3, <3>1 DEF IInv, ReadyOK
  <2> QED
    BY <1>7, <2>4, <2>5, <2>6
<1>8. StaysIn => ReadyOK(tracker, task'.run, journal', file, links, lost)
  BY <1>7 DEF ReadyOK
<1> QED
  BY <1>6, <1>8

\* A journal write of the task, put together.
LEMMA TransitionStep ==
    ASSUME IInv, task.step \in RowSteps, NEW to \in TransactionStates, NEW detail \in Details,
           journal' \in {journal, Transitioned(journal, task.row, task.from, to, detail)},
           NEW onError \in {"fail", "roll_back", "mark_failed"},
           onError # "fail" => task.from \in FromAt(onError),
           UNCHANGED <<process, owned, links, others>>, UNCHANGED faults \/ Fault,
           Moves(journal, journal', task.row, to, detail) /\ journal[task.row].state = task.from =>
               /\ RecordOK(journal', file, configs, links, wipedAt)
               /\ StaysIn => ReadyOK(tracker, task'.run, journal', file, links, lost),
           \/ /\ task' \in Tasks /\ StaysIn
              /\ TaskOK(task', journal', file, configs, links, lost, planned)
           \/ Proceed(onError)
    PROVE  IInv'
<1>1. journal \in Seq(Entries) /\ task.row \in DOMAIN journal
  BY RowFacts
<1>2. /\ journal' \in Seq(Entries) /\ DOMAIN journal' = DOMAIN journal
      /\ Len(journal') = Len(journal)
      /\ \/ journal' = journal
         \/ Moves(journal, journal', task.row, to, detail) /\ journal[task.row].state = task.from
  BY <1>1, WrittenJournal
<1>3. UNCHANGED <<up, tracker, file, configs, links, desired, edits, recoveries, crashes,
                  lost, wipedAt, planned>>
  BY DEF process, owned, others, history
<1>4. /\ task.rows \subseteq UnfinishedRows(journal')
      /\ journal'[task.row].candidate = journal[task.row].candidate
  BY <1>2, RowFacts DEF Moves, UnfinishedRows
<1>5. task' \in Tasks /\ TaskOK(task', journal', file, configs, links, lost, planned) /\ StaysIn
  <2>1. CASE Proceed(onError)
    BY <1>2, <1>4, <2>1, ErrorOK
  <2> QED
    BY <2>1
<1>6. ReadyOK(tracker, task'.run, journal', file, links, lost)
  <2>1. CASE journal' = journal
    BY <1>5, <2>1 DEF IInv, ReadyOK, StaysIn
  <2> QED
    BY <1>2, <1>5, <2>1
<1>7. RecordOK(journal', file, configs, links, wipedAt)
  BY <1>2 DEF IInv
<1>8. /\ tracker \in {"none", "succeeded", "failed"} /\ wipedAt \in 0..Len(journal')
      /\ file \in Documents /\ configs \in Documents /\ links \in [Outbounds -> LinkStates]
      /\ \A i \in OpenVPN : links[i] # Partial
      /\ lost \in BOOLEAN /\ planned \in Documents
  BY <1>2 DEF IInv, TypeOK, LinkStates
<1> QED
  BY <1>2, <1>3, <1>5, <1>6, <1>7, <1>8, TaskStep

\* A step that changes the task alone.
LEMMA FrozenStep ==
    ASSUME IInv, UNCHANGED <<process, journal, owned, links, desired, edits, recoveries, crashes,
                             history>>,
           UNCHANGED faults \/ Fault, task' \in Tasks, StaysIn,
           TaskOK(task', journal, file, configs, links, lost, planned)
    PROVE  IInv'
<1>1. UNCHANGED <<up, tracker, file, configs, lost, wipedAt, planned>>
  BY DEF process, owned, history
<1>2. ReadyOK(tracker, task'.run, journal, file, links, lost)
  BY DEF IInv, ReadyOK, StaysIn
<1>3. /\ tracker \in {"none", "succeeded", "failed"} /\ journal \in Seq(Entries)
      /\ wipedAt \in 0..Len(journal)
      /\ file \in Documents /\ configs \in Documents /\ links \in [Outbounds -> LinkStates]
      /\ \A i \in OpenVPN : links[i] # Partial
      /\ lost \in BOOLEAN /\ planned \in Documents
      /\ RecordOK(journal, file, configs, links, wipedAt)
  BY DEF IInv, TypeOK, LinkStates
<1> QED
  BY <1>1, <1>2, <1>3, TaskStep

\* An interrupted operation that was not applied has FAILED.
LEMMA MarkInterruptedStep == ASSUME IInv, MarkInterrupted PROVE IInv'
<1> DEFINE Success == Return(TRUE)
<1>1. task.step = "mark_interrupted" /\ task.step \in RowSteps /\ UNCHANGED <<process, owned, links, others>>
  BY DEF MarkInterrupted, RowSteps
<1>2. PICK detail \in Details : detail = "not_applied"
  BY DEF Details
<1>3. /\ journal' \in {journal, Transitioned(journal, task.row, task.from, "FAILED", detail)}
      /\ UNCHANGED faults \/ Fault
      /\ \/ /\ TransitionApplies(journal, task.row, task.from, "FAILED")
            /\ journal' = Transitioned(journal, task.row, task.from, "FAILED", detail)
            /\ Success
         \/ Proceed("fail")
  BY <1>2 DEF MarkInterrupted, Transition
<1>4. "FAILED" \in TransactionStates /\ task.from \in FromAt("mark_interrupted")
  BY <1>1, RowFacts DEF TransactionStates
<1>5. ASSUME Moves(journal, journal', task.row, "FAILED", detail),
             journal[task.row].state = task.from
      PROVE  /\ RecordOK(journal', file, configs, links, wipedAt)
             /\ StaysIn => ReadyOK(tracker, task'.run, journal', file, links, lost)
  BY <1>1, <1>2, <1>4, <1>5, RecordStep DEF FinishedStates, FromAt, LoopSteps, StopSteps, StartSteps
<1>6. ASSUME Moves(journal, journal', task.row, "FAILED", detail),
             journal[task.row].state = task.from, Success
      PROVE  /\ task' \in Tasks /\ StaysIn
             /\ TaskOK(task', journal', file, configs, links, lost, planned)
  <2>1. task.run = "recovery"
    BY <1>1, RowFacts
  <2> QED
    BY <1>1, <1>6, <2>1, EndedOK
<1>7. \/ /\ task' \in Tasks /\ StaysIn
         /\ TaskOK(task', journal', file, configs, links, lost, planned)
      \/ Proceed("fail")
  <2> HIDE DEF Success
  <2> QED
    BY <1>1, <1>3, <1>4, <1>6, WrittenJournal, RowFacts
<1> HIDE DEF Success
<1>8. "fail" \in {"fail", "roll_back", "mark_failed"}
      /\ ("fail" # "fail" => task.from \in FromAt("fail"))
  BY <1>4 DEF FromAt, LoopSteps, StopSteps, StartSteps
<1> QED
  BY <1>1, <1>3, <1>4, <1>5, <1>7, <1>8, TransitionStep

\* The candidate is about to be applied.
LEMMA MarkApplyingStep == ASSUME IInv, MarkApplying PROVE IInv'
<1> DEFINE Success == task' = [task EXCEPT !.step = "stop", !.from = "APPLYING", !.todo = Obsolete]
<1>1. task.step = "mark_applying" /\ task.step \in RowSteps /\ UNCHANGED <<process, owned, links, others>>
  BY DEF MarkApplying, RowSteps
<1>2. PICK detail \in Details : detail = "none"
  BY DEF Details
<1>3. /\ journal' \in {journal, Transitioned(journal, task.row, task.from, "APPLYING", detail)}
      /\ UNCHANGED faults \/ Fault
      /\ \/ /\ TransitionApplies(journal, task.row, task.from, "APPLYING")
            /\ journal' = Transitioned(journal, task.row, task.from, "APPLYING", detail)
            /\ Success
         \/ Proceed("mark_failed")
  BY <1>2 DEF MarkApplying, Transition
<1>4. "APPLYING" \in TransactionStates /\ task.from \in FromAt("mark_applying")
  BY <1>1, RowFacts DEF TransactionStates
<1>9. /\ file = journal[task.row].snapshot
      /\ GaveUp(journal) \/ Fits(file, configs, links)
  <2>1. PICK row \in DOMAIN journal : row = task.row
    BY <1>1, RowFacts
  <2>2. file = journal[task.row].snapshot /\ journal[row].state = "VALIDATED"
    BY <1>1, <1>4, <2>1, RowFacts DEF FileOK, FromAt, LoopSteps, StopSteps, StartSteps
  <2> QED
    BY <2>2, NotApplied
<1>5. ASSUME Moves(journal, journal', task.row, "APPLYING", detail),
             journal[task.row].state = task.from
      PROVE  /\ RecordOK(journal', file, configs, links, wipedAt)
             /\ StaysIn => ReadyOK(tracker, task'.run, journal', file, links, lost)
  <2>1. GaveUp(journal) \/ Untouched(journal[task.row], configs, links)
    BY <1>1, <1>9 DEF Fits, Untouched
  <2> QED
    BY <1>1, <1>2, <1>4, <1>5, <2>1, RecordStep DEF FinishedStates, FromAt, LoopSteps, StopSteps, StartSteps
<1>6. ASSUME Moves(journal, journal', task.row, "APPLYING", detail),
             journal[task.row].state = task.from, Success
      PROVE  /\ task' \in Tasks /\ StaysIn
             /\ TaskOK(task', journal', file, configs, links, lost, planned)
  <2> DEFINE t == [task EXCEPT !.step = "stop", !.from = "APPLYING", !.todo = Obsolete]
  <2>0. Obsolete \in SUBSET Outbounds
    BY DEF Enabled, Obsolete
  <2>1. /\ t \in Tasks /\ t.step = "stop" /\ t.from = "APPLYING" /\ t.row = task.row
        /\ t.rows = task.rows /\ t.run = task.run /\ t.todo = Obsolete
    BY <2>0, <1>1, <1>4, RowFacts DEF Tasks, Steps
  <2>2. task' = t
    BY <1>6
  <2> HIDE DEF t
  <2>3. /\ "stop" \in RowSteps \ {"mark_rolling_back", "mark_interrupted"}
        /\ "APPLYING" \in FromAt("stop")
    BY DEF RowSteps, FromAt, LoopSteps, StopSteps, StartSteps
  <2>4. /\ LoopOK(t, journal[task.row], links) /\ FileOK(t, journal[task.row], file)
        /\ VerifiedOK(t, journal[task.row], configs, links, lost)
    <3>1. \A i \in Obsolete : file[i] # None /\ file[i] # journal[task.row].candidate[i]
      BY <1>1, RowFacts DEF Obsolete, Enabled
    <3> QED
      BY <1>9, <2>1, <3>1 DEF LoopOK, FileOK, VerifiedOK, LoopSteps, StopSteps, StartSteps
  <2>5. GaveUp(journal) \/ HostOK(t, journal[task.row], configs, links)
    <3>1. \A i \in Outbounds \ Obsolete : file[i] = None \/ file[i] = journal[task.row].candidate[i]
      BY <1>1, RowFacts DEF Obsolete, Enabled
    <3>2. TargetOf(t, journal[task.row]) = journal[task.row].candidate
      BY <2>1 DEF TargetOf
    <3>3. ASSUME Fits(file, configs, links), NEW i \in Outbounds \ Obsolete,
                 journal[task.row].candidate[i] = None \/ Same(t, journal[task.row], i)
          PROVE  /\ configs[i] = journal[task.row].candidate[i]
                 /\ LinkOK(journal[task.row].candidate[i], links[i])
      BY <1>9, <3>1, <3>3 DEF Fits, Same
    <3> QED
      BY <1>9, <2>1, <3>2, <3>3 DEF HostOK, StopSteps, StartSteps
  <2> QED
    BY <1>1, <1>6, <2>1, <2>2, <2>3, <2>4, <2>5, ReachedOK
<1>7. \/ /\ task' \in Tasks /\ StaysIn
         /\ TaskOK(task', journal', file, configs, links, lost, planned)
      \/ Proceed("mark_failed")
  <2> HIDE DEF Success
  <2> QED
    BY <1>1, <1>3, <1>4, <1>6, WrittenJournal, RowFacts
<1> HIDE DEF Success
<1>8. "mark_failed" \in {"fail", "roll_back", "mark_failed"}
      /\ ("mark_failed" # "fail" => task.from \in FromAt("mark_failed"))
  BY <1>4 DEF FromAt, LoopSteps, StopSteps, StartSteps
<1> QED
  BY <1>1, <1>3, <1>4, <1>5, <1>7, <1>8, TransitionStep

\* The candidate is in place and is about to be verified.
LEMMA MarkVerifyingStep == ASSUME IInv, MarkVerifying PROVE IInv'
<1> DEFINE Success == Reached("verify", "VERIFYING")
<1>1. task.step = "mark_verifying" /\ task.step \in RowSteps /\ UNCHANGED <<process, owned, links, others>>
  BY DEF MarkVerifying, RowSteps
<1>2. PICK detail \in Details : detail = "none"
  BY DEF Details
<1>3. /\ journal' \in {journal, Transitioned(journal, task.row, task.from, "VERIFYING", detail)}
      /\ UNCHANGED faults \/ Fault
      /\ \/ /\ TransitionApplies(journal, task.row, task.from, "VERIFYING")
            /\ journal' = Transitioned(journal, task.row, task.from, "VERIFYING", detail)
            /\ Success
         \/ Proceed("roll_back")
  BY <1>2 DEF MarkVerifying, Transition
<1>4. "VERIFYING" \in TransactionStates /\ task.from \in FromAt("mark_verifying")
  BY <1>1, RowFacts DEF TransactionStates
<1>5. ASSUME Moves(journal, journal', task.row, "VERIFYING", detail),
             journal[task.row].state = task.from
      PROVE  /\ RecordOK(journal', file, configs, links, wipedAt)
             /\ StaysIn => ReadyOK(tracker, task'.run, journal', file, links, lost)
  <2>1. GaveUp(journal) \/ Untouched(journal[task.row], configs, links)
    BY <1>1, <1>4, <1>5, InFlight DEF IInv, RecordOK, FromAt, FinishedStates, LoopSteps, StopSteps, StartSteps
  <2> QED
    BY <1>1, <1>2, <1>4, <1>5, <2>1, RecordStep DEF FinishedStates, FromAt, LoopSteps, StopSteps, StartSteps
<1>6. ASSUME Moves(journal, journal', task.row, "VERIFYING", detail),
             journal[task.row].state = task.from, Success
      PROVE  /\ task' \in Tasks /\ StaysIn
             /\ TaskOK(task', journal', file, configs, links, lost, planned)
  <2> DEFINE t == [task EXCEPT !.step = "verify", !.from = "VERIFYING"]
  <2>1. /\ t \in Tasks /\ t.step = "verify" /\ t.from = "VERIFYING" /\ t.row = task.row
        /\ t.rows = task.rows /\ t.run = task.run /\ t.todo = task.todo
    BY <1>1, <1>4, RowFacts DEF Tasks, Steps
  <2>2. task' = t
    BY <1>6, RowFacts DEF Reached
  <2> HIDE DEF t
  <2>3. /\ "verify" \in RowSteps \ {"mark_rolling_back", "mark_interrupted"}
        /\ "VERIFYING" \in FromAt("verify")
    BY DEF RowSteps, FromAt, LoopSteps, StopSteps, StartSteps
  <2>4. /\ LoopOK(t, journal[task.row], links) /\ FileOK(t, journal[task.row], file)
        /\ VerifiedOK(t, journal[task.row], configs, links, lost)
    BY <1>1, <2>1, RowFacts DEF LoopOK, FileOK, VerifiedOK, LoopSteps, StopSteps, StartSteps
  <2>5. GaveUp(journal) \/ HostOK(t, journal[task.row], configs, links)
    BY <1>1, <1>4, <2>1, RowFacts DEF HostOK, FromAt, TargetOf, LoopSteps, StopSteps, StartSteps
  <2> QED
    BY <1>1, <1>6, <2>1, <2>2, <2>3, <2>4, <2>5, ReachedOK
<1>7. \/ /\ task' \in Tasks /\ StaysIn
         /\ TaskOK(task', journal', file, configs, links, lost, planned)
      \/ Proceed("roll_back")
  <2> HIDE DEF Success
  <2> QED
    BY <1>1, <1>3, <1>4, <1>6, WrittenJournal, RowFacts
<1> HIDE DEF Success
<1>8. "roll_back" \in {"fail", "roll_back", "mark_failed"}
      /\ ("roll_back" # "fail" => task.from \in FromAt("roll_back"))
  BY <1>4 DEF FromAt, LoopSteps, StopSteps, StartSteps
<1> QED
  BY <1>1, <1>3, <1>4, <1>5, <1>7, <1>8, TransitionStep

\* A verified candidate is committed.
LEMMA CommitStep == ASSUME IInv, Commit PROVE IInv'
<1> DEFINE Success == Return(TRUE)
<1>1. task.step = "commit" /\ task.step \in RowSteps /\ UNCHANGED <<process, owned, links, others>>
  BY DEF Commit, RowSteps
<1>2. PICK detail \in Details : detail = "none"
  BY DEF Details
<1>3. /\ journal' \in {journal, Transitioned(journal, task.row, task.from, "COMMITTED", detail)}
      /\ UNCHANGED faults \/ Fault
      /\ \/ /\ TransitionApplies(journal, task.row, task.from, "COMMITTED")
            /\ journal' = Transitioned(journal, task.row, task.from, "COMMITTED", detail)
            /\ Success
         \/ Proceed("roll_back")
  BY <1>2 DEF Commit, Transition
<1>4. "COMMITTED" \in TransactionStates /\ task.from \in FromAt("commit")
  BY <1>1, RowFacts DEF TransactionStates
<1>5. ASSUME Moves(journal, journal', task.row, "COMMITTED", detail),
             journal[task.row].state = task.from
      PROVE  /\ RecordOK(journal', file, configs, links, wipedAt)
             /\ StaysIn => ReadyOK(tracker, task'.run, journal', file, links, lost)
  <2>1. /\ file = journal[task.row].candidate
        /\ GaveUp(journal) \/ Fits(file, configs, links)
        /\ lost \/ Linked(file, links)
    <3>1. TargetOf(task, journal[task.row]) = journal[task.row].candidate
      BY <1>4 DEF FromAt, TargetOf, LoopSteps, StopSteps, StartSteps
    <3> QED
      BY <1>1, <3>1, RowFacts DEF HostOK, FileOK, VerifiedOK
  <2> QED
    BY <1>1, <1>2, <1>4, <1>5, <2>1, RecordStep DEF FinishedStates, FromAt, LoopSteps, StopSteps, StartSteps
<1>6. ASSUME Moves(journal, journal', task.row, "COMMITTED", detail),
             journal[task.row].state = task.from, Success
      PROVE  /\ task' \in Tasks /\ StaysIn
             /\ TaskOK(task', journal', file, configs, links, lost, planned)
  BY <1>1, <1>6, EndedOK
<1>7. \/ /\ task' \in Tasks /\ StaysIn
         /\ TaskOK(task', journal', file, configs, links, lost, planned)
      \/ Proceed("roll_back")
  <2> HIDE DEF Success
  <2> QED
    BY <1>1, <1>3, <1>4, <1>6, WrittenJournal, RowFacts
<1> HIDE DEF Success
<1>8. "roll_back" \in {"fail", "roll_back", "mark_failed"}
      /\ ("roll_back" # "fail" => task.from \in FromAt("roll_back"))
  BY <1>4 DEF FromAt, LoopSteps, StopSteps, StartSteps
<1> QED
  BY <1>1, <1>3, <1>4, <1>5, <1>7, <1>8, TransitionStep

\* A failed operation is to be rolled back.
LEMMA RollBackStep == ASSUME IInv, RollBack PROVE IInv'
<1> DEFINE Success == BeginRestore
<1>1. task.step = "roll_back" /\ task.step \in RowSteps /\ UNCHANGED <<process, owned, links, others>>
  BY DEF RollBack, RowSteps
<1>2. PICK detail \in Details : detail = "interrupted"
  BY DEF Details
<1>3. /\ journal' \in {journal, Transitioned(journal, task.row, task.from, "ROLLING_BACK", detail)}
      /\ UNCHANGED faults \/ Fault
      /\ \/ /\ TransitionApplies(journal, task.row, task.from, "ROLLING_BACK")
            /\ journal' = Transitioned(journal, task.row, task.from, "ROLLING_BACK", detail)
            /\ Success
         \/ Proceed("fail")
  BY <1>2 DEF RollBack, Transition
<1>4. "ROLLING_BACK" \in TransactionStates /\ task.from \in FromAt("roll_back")
  BY <1>1, RowFacts DEF TransactionStates
<1>9. journal[task.row].state = task.from =>
           GaveUp(journal) \/ Untouched(journal[task.row], configs, links)
  BY <1>1, <1>4, InFlight DEF IInv, RecordOK, FromAt, FinishedStates, LoopSteps, StopSteps, StartSteps
<1>5. ASSUME Moves(journal, journal', task.row, "ROLLING_BACK", detail),
             journal[task.row].state = task.from
      PROVE  /\ RecordOK(journal', file, configs, links, wipedAt)
             /\ StaysIn => ReadyOK(tracker, task'.run, journal', file, links, lost)
  <2>1. GaveUp(journal) \/ Untouched(journal[task.row], configs, links)
    BY <1>5, <1>9
  <2> QED
    BY <1>1, <1>2, <1>4, <1>5, <2>1, RecordStep DEF FinishedStates, FromAt, LoopSteps, StopSteps, StartSteps
<1>6. ASSUME Moves(journal, journal', task.row, "ROLLING_BACK", detail),
             journal[task.row].state = task.from, Success
      PROVE  /\ task' \in Tasks /\ StaysIn
             /\ TaskOK(task', journal', file, configs, links, lost, planned)
  <2> DEFINE t == [task EXCEPT !.step = "stop", !.from = "ROLLING_BACK", !.todo = Enabled(journal[task.row].candidate)]
  <2>0. Enabled(journal[task.row].candidate) \in SUBSET Outbounds
    BY DEF Enabled, Obsolete
  <2>1. /\ t \in Tasks /\ t.step = "stop" /\ t.from = "ROLLING_BACK" /\ t.row = task.row
        /\ t.rows = task.rows /\ t.run = task.run /\ t.todo = Enabled(journal[task.row].candidate)
    BY <2>0, <1>1, <1>4, RowFacts DEF Tasks, Steps
  <2>2. task' = t
    BY <1>6, <1>1, RowFacts DEF BeginRestore
  <2> HIDE DEF t
  <2>3. /\ "stop" \in RowSteps \ {"mark_rolling_back", "mark_interrupted"}
        /\ "ROLLING_BACK" \in FromAt("stop")
    BY DEF RowSteps, FromAt, LoopSteps, StopSteps, StartSteps
  <2>4. /\ LoopOK(t, journal[task.row], links) /\ FileOK(t, journal[task.row], file)
        /\ VerifiedOK(t, journal[task.row], configs, links, lost)
    BY <2>1 DEF LoopOK, FileOK, VerifiedOK, LoopSteps, StopSteps, StartSteps, Enabled
  <2>5. GaveUp(journal) \/ HostOK(t, journal[task.row], configs, links)
    <3>1. TargetOf(t, journal[task.row]) = journal[task.row].snapshot
          /\ \A i : ~Same(t, journal[task.row], i)
      BY <2>1 DEF TargetOf, Same
    <3>2. ASSUME Untouched(journal[task.row], configs, links),
                 NEW i \in Outbounds \ Enabled(journal[task.row].candidate),
                 journal[task.row].snapshot[i] = None
          PROVE  configs[i] = None /\ LinkOK(None, links[i])
      BY <3>2 DEF Untouched, Enabled
    <3>3. Untouched(journal[task.row], configs, links) => HostOK(t, journal[task.row], configs, links)
      BY <2>1, <3>1, <3>2 DEF HostOK, StopSteps, StartSteps
    <3> QED
      BY <1>6, <1>9, <3>3
  <2> QED
    BY <1>1, <1>6, <2>1, <2>2, <2>3, <2>4, <2>5, ReachedOK
<1>7. \/ /\ task' \in Tasks /\ StaysIn
         /\ TaskOK(task', journal', file, configs, links, lost, planned)
      \/ Proceed("fail")
  <2> HIDE DEF Success
  <2> QED
    BY <1>1, <1>3, <1>4, <1>6, WrittenJournal, RowFacts
<1> HIDE DEF Success
<1>8. "fail" \in {"fail", "roll_back", "mark_failed"}
      /\ ("fail" # "fail" => task.from \in FromAt("fail"))
  BY <1>4 DEF FromAt, LoopSteps, StopSteps, StartSteps
<1> QED
  BY <1>1, <1>3, <1>4, <1>5, <1>7, <1>8, TransitionStep

\* The snapshot is back.
LEMMA MarkRolledBackStep == ASSUME IInv, MarkRolledBack PROVE IInv'
<1> DEFINE Success == Return(task.run # "reconcile")
<1>1. task.step = "mark_rolled_back" /\ task.step \in RowSteps /\ UNCHANGED <<process, owned, links, others>>
  BY DEF MarkRolledBack, RowSteps
<1>2. PICK detail \in Details : detail = IF task.run = "rollback" THEN "operator_requested" ELSE "interrupted"
  BY DEF Details
<1>3. /\ journal' \in {journal, Transitioned(journal, task.row, task.from, "ROLLED_BACK", detail)}
      /\ UNCHANGED faults \/ Fault
      /\ \/ /\ TransitionApplies(journal, task.row, task.from, "ROLLED_BACK")
            /\ journal' = Transitioned(journal, task.row, task.from, "ROLLED_BACK", detail)
            /\ Success
         \/ Proceed("fail")
  BY <1>2 DEF MarkRolledBack, Transition
<1>4. "ROLLED_BACK" \in TransactionStates /\ task.from \in FromAt("mark_rolled_back")
  BY <1>1, RowFacts DEF TransactionStates
<1>5. ASSUME Moves(journal, journal', task.row, "ROLLED_BACK", detail),
             journal[task.row].state = task.from
      PROVE  /\ RecordOK(journal', file, configs, links, wipedAt)
             /\ StaysIn => ReadyOK(tracker, task'.run, journal', file, links, lost)
  <2>1. /\ file = journal[task.row].snapshot
        /\ GaveUp(journal) \/ Fits(file, configs, links)
        /\ lost \/ Linked(file, links)
    <3>1. TargetOf(task, journal[task.row]) = journal[task.row].snapshot
      BY <1>4 DEF FromAt, TargetOf, LoopSteps, StopSteps, StartSteps
    <3> QED
      BY <1>1, <3>1, RowFacts DEF HostOK, FileOK, VerifiedOK
  <2> QED
    BY <1>1, <1>2, <1>4, <1>5, <2>1, RecordStep DEF FinishedStates, FromAt, LoopSteps, StopSteps, StartSteps
<1>6. ASSUME Moves(journal, journal', task.row, "ROLLED_BACK", detail),
             journal[task.row].state = task.from, Success
      PROVE  /\ task' \in Tasks /\ StaysIn
             /\ TaskOK(task', journal', file, configs, links, lost, planned)
  <2>1. (task.run # "reconcile") \in BOOLEAN
    OBVIOUS
  <2> QED
    BY <1>1, <1>6, <2>1, EndedOK
<1>7. \/ /\ task' \in Tasks /\ StaysIn
         /\ TaskOK(task', journal', file, configs, links, lost, planned)
      \/ Proceed("fail")
  <2> HIDE DEF Success
  <2> QED
    BY <1>1, <1>3, <1>4, <1>6, WrittenJournal, RowFacts
<1> HIDE DEF Success
<1>8. "fail" \in {"fail", "roll_back", "mark_failed"}
      /\ ("fail" # "fail" => task.from \in FromAt("fail"))
  BY <1>4 DEF FromAt, LoopSteps, StopSteps, StartSteps
<1> QED
  BY <1>1, <1>3, <1>4, <1>5, <1>7, <1>8, TransitionStep

\* An operation was not applied, or its restore gave up.
LEMMA MarkFailedStep == ASSUME IInv, MarkFailed PROVE IInv'
<1> DEFINE Success == Return(FALSE)
<1>1. task.step = "mark_failed" /\ task.step \in RowSteps /\ UNCHANGED <<process, owned, links, others>>
  BY DEF MarkFailed, RowSteps
<1>2. PICK detail \in Details : detail = IF Restoring THEN "rollback_failed" ELSE "not_applied"
  BY DEF Details
<1>3. /\ journal' \in {journal, Transitioned(journal, task.row, task.from, "FAILED", detail)}
      /\ UNCHANGED faults \/ Fault
      /\ \/ /\ TransitionApplies(journal, task.row, task.from, "FAILED")
            /\ journal' = Transitioned(journal, task.row, task.from, "FAILED", detail)
            /\ Success
         \/ Proceed("fail")
  BY <1>2 DEF MarkFailed, Transition
<1>4. "FAILED" \in TransactionStates /\ task.from \in FromAt("mark_failed")
  BY <1>1, RowFacts DEF TransactionStates
<1>5. ASSUME Moves(journal, journal', task.row, "FAILED", detail),
             journal[task.row].state = task.from
      PROVE  /\ RecordOK(journal', file, configs, links, wipedAt)
             /\ StaysIn => ReadyOK(tracker, task'.run, journal', file, links, lost)
  <2>1. CASE task.from = "ROLLING_BACK"
    <3>1. detail = "rollback_failed"
      BY <1>2, <2>1 DEF Restoring
    <3> QED
      BY <1>1, <1>4, <1>5, <2>1, <3>1, RecordStep DEF FinishedStates
  <2>2. CASE task.from # "ROLLING_BACK"
    <3>1. detail # "rollback_failed"
      BY <1>2, <2>2 DEF Restoring
    <3> QED
      BY <1>1, <1>4, <1>5, <2>2, <3>1, RecordStep DEF FinishedStates, FromAt, LoopSteps, StopSteps, StartSteps
  <2> QED
    BY <2>1, <2>2
<1>6. ASSUME Moves(journal, journal', task.row, "FAILED", detail),
             journal[task.row].state = task.from, Success
      PROVE  /\ task' \in Tasks /\ StaysIn
             /\ TaskOK(task', journal', file, configs, links, lost, planned)
  BY <1>1, <1>6, EndedOK
<1>7. \/ /\ task' \in Tasks /\ StaysIn
         /\ TaskOK(task', journal', file, configs, links, lost, planned)
      \/ Proceed("fail")
  <2> HIDE DEF Success
  <2> QED
    BY <1>1, <1>3, <1>4, <1>6, WrittenJournal, RowFacts
<1> HIDE DEF Success
<1>8. "fail" \in {"fail", "roll_back", "mark_failed"}
      /\ ("fail" # "fail" => task.from \in FromAt("fail"))
  BY <1>4 DEF FromAt, LoopSteps, StopSteps, StartSteps
<1> QED
  BY <1>1, <1>3, <1>4, <1>5, <1>7, <1>8, TransitionStep

\* An operator undoes the newest commit.
LEMMA MarkRollingBackStep == ASSUME IInv, MarkRollingBack PROVE IInv'
<1> DEFINE Success == BeginRestore
<1>1. task.step = "mark_rolling_back" /\ task.step \in RowSteps /\ UNCHANGED <<process, owned, links, others>>
  BY DEF MarkRollingBack, RowSteps
<1>2. PICK detail \in Details : detail = "operator_requested"
  BY DEF Details
<1>3. /\ journal' \in {journal, Transitioned(journal, task.row, task.from, "ROLLING_BACK", detail)}
      /\ UNCHANGED faults \/ Fault
      /\ \/ /\ TransitionApplies(journal, task.row, task.from, "ROLLING_BACK")
            /\ journal' = Transitioned(journal, task.row, task.from, "ROLLING_BACK", detail)
            /\ Success
         \/ Proceed("fail")
  BY <1>2 DEF MarkRollingBack, Transition
<1>4. "ROLLING_BACK" \in TransactionStates /\ task.from \in FromAt("mark_rolling_back")
  BY <1>1, RowFacts DEF TransactionStates
<1>9. GaveUp(journal) \/ Untouched(journal[task.row], configs, links)
  <2>1. Quiet(journal) /\ file = journal[task.row].candidate
    BY <1>1 DEF IInv, TaskOK, Quiet
  <2>2. GaveUp(journal) \/ Fits(file, configs, links)
    BY <2>1 DEF IInv, RecordOK
  <2> QED
    BY <2>1, <2>2 DEF Fits, Untouched
<1>5. ASSUME Moves(journal, journal', task.row, "ROLLING_BACK", detail),
             journal[task.row].state = task.from
      PROVE  /\ RecordOK(journal', file, configs, links, wipedAt)
             /\ StaysIn => ReadyOK(tracker, task'.run, journal', file, links, lost)
  <2>1. PICK row \in DOMAIN journal : row = task.row
    BY <1>1, RowFacts
  <2>2. /\ journal \in Seq(Entries) /\ RecordOK(journal, file, configs, links, wipedAt)
        /\ IsTop(journal, row)
    BY <1>1, <2>1 DEF IInv, TypeOK, TaskOK
  <2>3. Undoable(journal, row) /\ Moves(journal, journal', row, "ROLLING_BACK", detail)
    BY <1>4, <1>5, <2>1 DEF Undoable, FromAt, LoopSteps, StopSteps, StartSteps
  <2>4. detail # "rollback_failed"
    BY <1>2
  <2>5. GaveUp(journal) \/ Untouched(journal[row], configs, links)
    BY <1>9, <2>1
  <2>6. RecordOK(journal', file, configs, links, wipedAt)
    BY <1>4, <2>2, <2>3, <2>4, <2>5, MoveKeepsRecord
  <2>7. ~Quiet(journal')
    BY <2>3 DEF Quiet, UnfinishedRows, Moves, FinishedStates
  <2> QED
    BY <2>6, <2>7 DEF ReadyOK
<1>6. ASSUME Moves(journal, journal', task.row, "ROLLING_BACK", detail),
             journal[task.row].state = task.from, Success
      PROVE  /\ task' \in Tasks /\ StaysIn
             /\ TaskOK(task', journal', file, configs, links, lost, planned)
  <2> DEFINE t == [task EXCEPT !.step = "stop", !.from = "ROLLING_BACK", !.todo = Enabled(journal[task.row].candidate)]
  <2>0. Enabled(journal[task.row].candidate) \in SUBSET Outbounds
    BY DEF Enabled, Obsolete
  <2>1. /\ t \in Tasks /\ t.step = "stop" /\ t.from = "ROLLING_BACK" /\ t.row = task.row
        /\ t.rows = task.rows /\ t.run = task.run /\ t.todo = Enabled(journal[task.row].candidate)
    BY <2>0, <1>1, <1>4, RowFacts DEF Tasks, Steps
  <2>2. task' = t
    BY <1>6, <1>1, RowFacts DEF BeginRestore
  <2> HIDE DEF t
  <2>3. /\ "stop" \in RowSteps \ {"mark_rolling_back", "mark_interrupted"}
        /\ "ROLLING_BACK" \in FromAt("stop")
    BY DEF RowSteps, FromAt, LoopSteps, StopSteps, StartSteps
  <2>4. /\ LoopOK(t, journal[task.row], links) /\ FileOK(t, journal[task.row], file)
        /\ VerifiedOK(t, journal[task.row], configs, links, lost)
    BY <2>1 DEF LoopOK, FileOK, VerifiedOK, LoopSteps, StopSteps, StartSteps, Enabled
  <2>5. GaveUp(journal) \/ HostOK(t, journal[task.row], configs, links)
    <3>1. TargetOf(t, journal[task.row]) = journal[task.row].snapshot
          /\ \A i : ~Same(t, journal[task.row], i)
      BY <2>1 DEF TargetOf, Same
    <3>2. ASSUME Untouched(journal[task.row], configs, links),
                 NEW i \in Outbounds \ Enabled(journal[task.row].candidate),
                 journal[task.row].snapshot[i] = None
          PROVE  configs[i] = None /\ LinkOK(None, links[i])
      BY <3>2 DEF Untouched, Enabled
    <3>3. Untouched(journal[task.row], configs, links) => HostOK(t, journal[task.row], configs, links)
      BY <2>1, <3>1, <3>2 DEF HostOK, StopSteps, StartSteps
    <3> QED
      BY <1>6, <1>9, <3>3
  <2> QED
    BY <1>1, <1>6, <2>1, <2>2, <2>3, <2>4, <2>5, ReachedOK
<1>7. \/ /\ task' \in Tasks /\ StaysIn
         /\ TaskOK(task', journal', file, configs, links, lost, planned)
      \/ Proceed("fail")
  <2> HIDE DEF Success
  <2> QED
    BY <1>1, <1>3, <1>4, <1>6, WrittenJournal, RowFacts
<1> HIDE DEF Success
<1>8. "fail" \in {"fail", "roll_back", "mark_failed"}
      /\ ("fail" # "fail" => task.from \in FromAt("fail"))
  BY <1>4 DEF FromAt, LoopSteps, StopSteps, StartSteps
<1> QED
  BY <1>1, <1>3, <1>4, <1>5, <1>7, <1>8, TransitionStep

\* The candidate is VALIDATED, or is not to be applied.
LEMMA ValidateStep == ASSUME IInv, Validate PROVE IInv'
<1>1. /\ task.step = "validate" /\ UNCHANGED <<process, owned, links, others>>
      /\ task.step \in RowSteps
  BY DEF Validate, RowSteps
<1>2. task.from = "PREPARED" /\ journal[task.row].state = "PREPARED"
  BY <1>1, RowFacts DEF FromAt, LoopSteps, StopSteps, StartSteps
<1>3. CASE Transition("VALIDATED", "none", Reached("mark_applying", "VALIDATED"), "fail")
  <2>1. /\ journal' \in {journal, Transitioned(journal, task.row, task.from, "VALIDATED", "none")}
        /\ UNCHANGED faults \/ Fault
        /\ \/ /\ TransitionApplies(journal, task.row, task.from, "VALIDATED")
              /\ journal' = Transitioned(journal, task.row, task.from, "VALIDATED", "none")
              /\ Reached("mark_applying", "VALIDATED")
           \/ Proceed("fail")
    BY <1>3 DEF Transition
  <2>2. "VALIDATED" \in TransactionStates /\ "none" \in Details
    BY DEF TransactionStates, Details
  <2>3. ASSUME Moves(journal, journal', task.row, "VALIDATED", "none")
        PROVE  /\ RecordOK(journal', file, configs, links, wipedAt)
               /\ StaysIn => ReadyOK(tracker, task'.run, journal', file, links, lost)
    BY <1>1, <1>2, <2>2, <2>3, RecordStep DEF FinishedStates
  <2>4. ASSUME Moves(journal, journal', task.row, "VALIDATED", "none"),
               Reached("mark_applying", "VALIDATED")
        PROVE  /\ task' \in Tasks /\ StaysIn
               /\ TaskOK(task', journal', file, configs, links, lost, planned)
    <3> DEFINE t == [task EXCEPT !.step = "mark_applying", !.from = "VALIDATED"]
    <3>1. /\ t \in Tasks /\ t.step = "mark_applying" /\ t.from = "VALIDATED" /\ t.row = task.row
          /\ t.rows = task.rows /\ t.run = task.run
      BY <1>1, <2>2, RowFacts DEF Tasks, Steps
    <3>2. task' = t
      BY <2>4 DEF Reached
    <3> HIDE DEF t
    <3>3. /\ LoopOK(t, journal[task.row], links) /\ FileOK(t, journal[task.row], file)
          /\ VerifiedOK(t, journal[task.row], configs, links, lost)
          /\ HostOK(t, journal[task.row], configs, links)
      BY <1>1, <3>1, RowFacts DEF LoopOK, FileOK, VerifiedOK, HostOK, LoopSteps, StopSteps, StartSteps
    <3>4. /\ "mark_applying" \in RowSteps \ {"mark_rolling_back", "mark_interrupted"}
          /\ "VALIDATED" \in FromAt("mark_applying")
      BY DEF RowSteps, FromAt, LoopSteps, StopSteps, StartSteps
    <3> QED
      BY <1>1, <1>2, <2>2, <2>4, <3>1, <3>2, <3>3, <3>4, ReachedOK
  <2>5. \/ /\ task' \in Tasks /\ StaysIn
           /\ TaskOK(task', journal', file, configs, links, lost, planned)
        \/ Proceed("fail")
    BY <1>1, <2>1, <2>2, <2>4, WrittenJournal, RowFacts
  <2> QED
    BY <1>1, <2>1, <2>2, <2>3, <2>5, TransitionStep
<1>4. CASE Fault /\ Goto("mark_failed") /\ UNCHANGED journal
  <2>1. Proceed("mark_failed")
    BY <1>4 DEF Proceed
  <2>2. task.from \in FromAt("mark_failed")
    BY <1>2 DEF FromAt, LoopSteps, StopSteps, StartSteps
  <2>3. /\ task' \in Tasks /\ TaskOK(task', journal, file, configs, links, lost, planned)
        /\ StaysIn
    BY <1>1, <2>1, <2>2, RowFacts, ErrorOK
  <2> QED
    BY <1>1, <1>4, <2>3, FrozenStep DEF others
<1> QED
  BY <1>3, <1>4 DEF Validate

-------------------------------------------------------------------------------
(* The loops.                                                              *)

\* The loops handle entries that the operation has, before or after it.
LEMMA LoopFacts ==
    ASSUME IInv, task.step \in LoopSteps
    PROVE  /\ task.step \in RowSteps
           /\ task.from \in {"APPLYING", "ROLLING_BACK"} /\ journal[task.row].state = task.from
           /\ task.row \in UnfinishedRows(journal)
           /\ \A i \in task.todo :
                  journal[task.row].snapshot[i] # None \/ journal[task.row].candidate[i] # None
           /\ task.from # "ROLLING_BACK" => file = journal[task.row].snapshot
<1>1. task.step \in RowSteps /\ task.step \notin {"mark_failed", "roll_back"}
  BY DEF RowSteps, LoopSteps, StopSteps, StartSteps
<1>2. task.from \in {"APPLYING", "ROLLING_BACK"} /\ journal[task.row].state = task.from
  BY <1>1, RowFacts DEF FromAt, LoopSteps, StopSteps, StartSteps
<1>3. task.row \in UnfinishedRows(journal)
  BY <1>1, <1>2, RowFacts DEF UnfinishedRows, FinishedStates
<1>4. ASSUME NEW i \in task.todo
      PROVE  journal[task.row].snapshot[i] # None \/ journal[task.row].candidate[i] # None
  BY <1>1, RowFacts DEF LoopOK, LoopSteps, TargetOf
<1>5. task.from # "ROLLING_BACK" => file = journal[task.row].snapshot
  BY <1>1, RowFacts DEF FileOK
<1> QED
  BY <1>1, <1>2, <1>3, <1>4, <1>5

\* A step of the loops changes entries of the operation only.
LEMMA WorkStep ==
    ASSUME IInv, task.step \in LoopSteps, UNCHANGED <<process, journal, others>>,
           UNCHANGED faults \/ Fault,
           file' \in Documents, configs' \in Documents, links' \in [Outbounds -> LinkStates],
           \A i \in OpenVPN : links'[i] # Partial,
           \A i \in Outbounds \ task.todo : configs'[i] = configs[i] /\ links'[i] = links[i],
           task' \in Tasks, StaysIn,
           TaskOK(task', journal, file', configs', links', lost, planned)
    PROVE  IInv'
<1>1. PICK row \in UnfinishedRows(journal) : row = task.row
  BY LoopFacts
<1>2. journal[row].state \notin {"PREPARED", "VALIDATED"}
  BY <1>1, LoopFacts
<1>3. Untouched(journal[row], configs, links) => Untouched(journal[row], configs', links')
  BY <1>1, LoopFacts DEF Untouched
<1>4. RecordOK(journal, file', configs', links', wipedAt)
  BY <1>2, <1>3, WorkKeepsRecord DEF IInv
<1>5. ReadyOK(tracker, task'.run, journal, file', links', lost)
  BY <1>2 DEF ReadyOK, Quiet
<1>6. UNCHANGED <<up, tracker, desired, edits, recoveries, crashes, lost, wipedAt, planned>>
  BY DEF process, others, history
<1>7. /\ tracker \in {"none", "succeeded", "failed"} /\ journal \in Seq(Entries)
      /\ wipedAt \in 0..Len(journal) /\ lost \in BOOLEAN /\ planned \in Documents
  BY DEF IInv, TypeOK
<1> QED
  BY <1>4, <1>5, <1>6, <1>7, TaskStep

\* The task goes on with the same entry.
LEMMA SameRowOK ==
    ASSUME IInv, task.step \in RowSteps \ {"mark_failed", "roll_back"},
           task' \in Tasks, task'.row = task.row, task'.rows = task.rows,
           task'.run = task.run, task'.from = task.from,
           task'.step \in RowSteps \ {"mark_rolling_back", "mark_interrupted"},
           task.from \in FromAt(task'.step), NEW f, NEW n, NEW l, NEW lo,
           LoopOK(task', journal[task.row], l), FileOK(task', journal[task.row], f),
           VerifiedOK(task', journal[task.row], n, l, lo),
           GaveUp(journal) \/ HostOK(task', journal[task.row], n, l)
    PROVE  TaskOK(task', journal, f, n, l, lo, planned) /\ StaysIn
<1>1. task'.step \notin RunSteps \cup {"mark_rolling_back", "mark_interrupted"}
  BY DEF RowSteps, RunSteps, LoopSteps, StopSteps, StartSteps
<1>2. task'.step \notin {"next_operation", "reconcile", "finish_recovery"}
  BY <1>1 DEF RunSteps
<1> QED
  BY <1>1, <1>2, RowFacts DEF TaskOK, StaysIn

\* Taking outbounds off the list, or making a new one.
LEMMA LoopMoves ==
    ASSUME IInv, NEW step \in Steps, NEW set \in SUBSET Outbounds, Loop(step, set)
    PROVE  /\ task' \in Tasks /\ task'.step = step /\ task'.row = task.row /\ task'.rows = task.rows
           /\ task'.from = task.from /\ task'.todo = set /\ task'.run = task.run
<1>1. task \in Tasks
  BY DEF IInv, TypeOK
<1> QED
  BY <1>1 DEF Loop, Tasks

\* A link or a unit is stopped.
LEMMA StopEntryStep == ASSUME IInv, StopEntry PROVE IInv'
<1> DEFINE e == journal[task.row]
<1>1. /\ task.step = "stop" /\ task.step \in LoopSteps /\ task.todo # {}
      /\ UNCHANGED <<process, journal, owned, others>>
      /\ UNCHANGED faults \/ Fault
  BY DEF StopEntry, LoopSteps, StopSteps, Fault
<1>2. PICK i \in task.todo : i = Current /\ i = First(task.todo) /\ i \in Outbounds
  BY <1>1, CurrentIsMember
<1>3. /\ links' \in {links, [links EXCEPT ![i] = None]}
      /\ OnError \/ (links' = [links EXCEPT ![i] = None] /\ Goto("remove_config"))
  BY <1>2 DEF StopEntry
<1>4. /\ links \in [Outbounds -> LinkStates] /\ file \in Documents /\ configs \in Documents
      /\ \A x \in OpenVPN : links[x] # Partial
  BY DEF IInv, TypeOK, LinkStates
<1>5. /\ links' \in [Outbounds -> LinkStates] /\ \A x \in Outbounds \ {i} : links'[x] = links[x]
      /\ \A x \in OpenVPN : links'[x] # Partial
      /\ links' # links => links'[i] = None
  BY <1>3, <1>4, InterfaceAssumption DEF LinkStates
<1>6. task' \in Tasks /\ TaskOK(task', journal, file, configs, links', lost, planned) /\ StaysIn
  <2>1. CASE OnError
    BY <1>1, <2>1, OnErrorOK
  <2>2. CASE links' = [links EXCEPT ![i] = None] /\ Goto("remove_config")
    <3>1. "remove_config" \in Steps
      BY DEF Steps
    <3>2. /\ task' \in Tasks /\ task'.step = "remove_config" /\ task'.row = task.row
          /\ task'.rows = task.rows /\ task'.from = task.from /\ task'.todo = task.todo
          /\ task'.run = task.run
      BY <2>2, <3>1, GotoMoves
    <3>3. links'[i] = None
      BY <1>2, <1>4, <2>2
    <3>4. /\ LoopOK(task', e, links') /\ FileOK(task', e, file)
          /\ VerifiedOK(task', e, configs, links', lost)
      BY <1>1, <3>2, LoopFacts, RowFacts
      DEF LoopOK, FileOK, VerifiedOK, LoopSteps, StopSteps, StartSteps
    <3>5. ASSUME HostOK(task, e, configs, links) PROVE HostOK(task', e, configs, links')
      <4>1. TargetOf(task', e) = TargetOf(task, e) /\ \A x : Same(task', e, x) <=> Same(task, e, x)
        BY <3>2 DEF TargetOf, Same
      <4> QED
        BY <1>1, <1>2, <1>5, <3>2, <3>3, <3>5, <4>1 DEF HostOK, StopSteps, StartSteps
    <3>6. task'.step \in RowSteps \ {"mark_rolling_back", "mark_interrupted"}
          /\ task.from \in FromAt(task'.step)
      BY <1>1, <3>2, LoopFacts DEF RowSteps, FromAt, LoopSteps, StopSteps, StartSteps
    <3>7. task.step \in RowSteps \ {"mark_failed", "roll_back"}
      BY <1>1, LoopFacts
    <3>8. GaveUp(journal) \/ HostOK(task, e, configs, links)
      BY <3>7, RowFacts
    <3> HIDE DEF e
    <3>9. GaveUp(journal) \/ HostOK(task', e, configs, links')
      BY <3>5, <3>8
    <3> QED
      BY <3>2, <3>4, <3>6, <3>7, <3>9, SameRowOK DEF e
  <2> QED
    BY <1>3, <2>1, <2>2
<1> QED
  <2>1. /\ UNCHANGED <<process, journal, others>> /\ UNCHANGED <<file, configs>>
        /\ file' \in Documents /\ configs' \in Documents
    BY <1>1, <1>4 DEF owned
  <2>2. \A x \in Outbounds \ task.todo : configs'[x] = configs[x] /\ links'[x] = links[x]
    BY <1>5, <2>1
  <2> QED
    BY <1>1, <1>5, <1>6, <2>1, <2>2, WorkStep

\* The configuration of a stopped entry is removed.
LEMMA RemoveConfigStep == ASSUME IInv, RemoveConfig PROVE IInv'
<1> DEFINE e == journal[task.row]
<1>1. /\ task.step = "remove_config" /\ task.step \in LoopSteps
      /\ UNCHANGED <<process, journal, file, links, others>>
      /\ UNCHANGED faults \/ Fault
  BY DEF RemoveConfig, LoopSteps, StopSteps
<1>2. task.step \in RowSteps \ {"mark_failed", "roll_back"}
  BY <1>1, LoopFacts
<1>3. task.todo # {}
  BY <1>1, <1>2, RowFacts DEF LoopOK
<1>4. PICK i \in task.todo : i = Current /\ i = First(task.todo) /\ i \in Outbounds
  BY <1>3, CurrentIsMember
<1>5. /\ configs' \in {configs, [configs EXCEPT ![i] = None]}
      /\ OnError \/ (configs' = [configs EXCEPT ![i] = None] /\ DoneWith(i, "stop"))
  BY <1>4 DEF RemoveConfig
<1>6. /\ links \in [Outbounds -> LinkStates] /\ file \in Documents /\ configs \in Documents
      /\ \A x \in OpenVPN : links[x] # Partial
  BY DEF IInv, TypeOK, LinkStates
<1>7. configs' \in Documents /\ \A x \in Outbounds \ {i} : configs'[x] = configs[x]
  BY <1>5, <1>6 DEF Documents
<1>8. task' \in Tasks /\ TaskOK(task', journal, file, configs', links, lost, planned) /\ StaysIn
  <2>1. CASE OnError
    BY <1>1, <2>1, OnErrorOK
  <2>2. CASE configs' = [configs EXCEPT ![i] = None] /\ DoneWith(i, "stop")
    <3>1. "stop" \in Steps /\ (task.todo \ {i}) \in SUBSET Outbounds
      BY <1>3, CurrentIsMember DEF Steps
    <3>2. /\ task' \in Tasks /\ task'.step = "stop" /\ task'.row = task.row
          /\ task'.rows = task.rows /\ task'.from = task.from /\ task'.todo = task.todo \ {i}
          /\ task'.run = task.run
      BY <2>2, <3>1, LoopMoves DEF DoneWith
    <3>3. configs'[i] = None
      BY <1>4, <1>6, <2>2 DEF Documents
    <3>4. /\ LoopOK(task', e, links) /\ FileOK(task', e, file)
          /\ VerifiedOK(task', e, configs', links, lost)
      BY <1>1, <1>2, <3>2, LoopFacts, RowFacts
      DEF LoopOK, FileOK, VerifiedOK, LoopSteps, StopSteps, StartSteps
    <3>5. LoopOK(task, e, links)
      BY <1>2, RowFacts
    <3>6. ASSUME HostOK(task, e, configs, links) PROVE HostOK(task', e, configs', links)
      <4>1. TargetOf(task', e) = TargetOf(task, e) /\ \A x : Same(task', e, x) <=> Same(task, e, x)
        BY <3>2 DEF TargetOf, Same
      <4>2. ~Same(task, e, i)
        BY <1>1, <1>4, <3>5 DEF Same, LoopOK, StopSteps
      <4>3. links[i] = None /\ LinkOK(None, links[i])
        BY <1>1, <1>4, <3>6 DEF HostOK, LinkOK
      <4>4. ASSUME NEW x \in Outbounds \ task'.todo,
                   TargetOf(task, e)[x] = None \/ Same(task, e, x)
            PROVE  configs'[x] = TargetOf(task, e)[x] /\ LinkOK(TargetOf(task, e)[x], links[x])
        <5>1. CASE x = i
          BY <3>3, <4>2, <4>3, <4>4, <5>1
        <5>2. CASE x # i
          <6>1. x \in Outbounds \ task.todo
            BY <3>2, <4>4, <5>2
          <6> HIDE DEF e
          <6> QED
            BY <1>1, <1>7, <3>6, <4>4, <5>2, <6>1 DEF HostOK, StopSteps
        <5> QED
          BY <5>1, <5>2
      <4> HIDE DEF e
      <4> QED
        BY <3>2, <4>1, <4>4 DEF HostOK, StopSteps, StartSteps
    <3>7. task'.step \in RowSteps \ {"mark_rolling_back", "mark_interrupted"}
          /\ task.from \in FromAt(task'.step)
      BY <1>1, <3>2, LoopFacts DEF RowSteps, FromAt, LoopSteps, StopSteps, StartSteps
    <3>8. GaveUp(journal) \/ HostOK(task, e, configs, links)
      BY <1>2, RowFacts
    <3> HIDE DEF e
    <3>9. GaveUp(journal) \/ HostOK(task', e, configs', links)
      BY <3>6, <3>8
    <3> QED
      BY <1>2, <3>2, <3>4, <3>7, <3>9, SameRowOK DEF e
  <2> QED
    BY <1>5, <2>1, <2>2
<1>9. \A x \in Outbounds \ task.todo : configs'[x] = configs[x] /\ links'[x] = links[x]
  BY <1>1, <1>7
<1> QED
  BY <1>1, <1>6, <1>7, <1>8, <1>9, WorkStep

\* Everything that goes has been stopped.
LEMMA AllStoppedStep == ASSUME IInv, AllStopped PROVE IInv'
<1> DEFINE e == journal[task.row]
           target == TargetOf(task, e)
<1>1. /\ task.step = "stop" /\ task.step \in LoopSteps /\ task.todo = {}
      /\ UNCHANGED <<process, journal, owned, links, counters, desired, history>>
  BY DEF AllStopped, LoopSteps, StopSteps
<1>2. task.step \in RowSteps \ {"mark_failed", "roll_back"}
  BY <1>1, LoopFacts
<1>3. Loop("start", Enabled(target))
  BY <1>2, RowFacts DEF AllStopped
<1>4. "start" \in Steps /\ Enabled(target) \in SUBSET Outbounds
  BY DEF Steps, Enabled
<1>5. /\ task' \in Tasks /\ task'.step = "start" /\ task'.row = task.row
      /\ task'.rows = task.rows /\ task'.from = task.from /\ task'.todo = Enabled(target)
      /\ task'.run = task.run
  BY <1>3, <1>4, LoopMoves
<1>6. TargetOf(task', e) = target /\ \A x : Same(task', e, x) <=> Same(task, e, x)
  BY <1>5 DEF TargetOf, Same
<1>7. /\ LoopOK(task', e, links) /\ FileOK(task', e, file)
      /\ VerifiedOK(task', e, configs, links, lost)
  <2>1. LoopOK(task', e, links)
    <3> HIDE DEF e, target
    <3> QED
      BY <1>5, <1>6 DEF LoopOK, StopSteps, Enabled
  <2> QED
    BY <1>1, <1>5, <2>1, LoopFacts DEF FileOK, VerifiedOK, LoopSteps, StopSteps, StartSteps
<1>8. ASSUME HostOK(task, e, configs, links) PROVE HostOK(task', e, configs, links)
  <2>1. \A x \in Outbounds : target[x] = None \/ Same(task, e, x) =>
            configs[x] = target[x] /\ LinkOK(target[x], links[x])
    BY <1>1, <1>8 DEF HostOK, StopSteps
  <2> HIDE DEF e, target
  <2> QED
    BY <1>5, <1>6, <2>1 DEF HostOK, StopSteps, StartSteps, Enabled
<1>9. task'.step \in RowSteps \ {"mark_rolling_back", "mark_interrupted"}
      /\ task.from \in FromAt(task'.step)
  BY <1>1, <1>5, LoopFacts DEF RowSteps, FromAt, LoopSteps, StopSteps, StartSteps
<1>10. GaveUp(journal) \/ HostOK(task', e, configs, links)
  BY <1>2, <1>8, RowFacts
<1>11. TaskOK(task', journal, file, configs, links, lost, planned) /\ StaysIn
  <2> HIDE DEF e, target
  <2> QED
    BY <1>2, <1>5, <1>7, <1>9, <1>10, SameRowOK DEF e
<1> QED
  BY <1>1, <1>5, <1>11, FrozenStep DEF counters

\* A running entry is kept, or the configuration of an entry is written.
LEMMA StartEntryStep == ASSUME IInv, StartEntry PROVE IInv'
<1> DEFINE e == journal[task.row]
           target == TargetOf(task, e)
<1>1. /\ task.step = "start" /\ task.step \in LoopSteps /\ task.todo # {}
      /\ UNCHANGED <<process, journal, file, links, others>>
      /\ UNCHANGED faults \/ Fault
  BY DEF StartEntry, LoopSteps, StartSteps
<1>2. task.step \in RowSteps \ {"mark_failed", "roll_back"}
  BY <1>1, LoopFacts
<1>3. PICK i \in task.todo : i = Current /\ i = First(task.todo) /\ i \in Outbounds
  BY <1>1, CurrentIsMember
<1>4. /\ Target = target /\ target \in Documents
      /\ Restoring <=> task.from = "ROLLING_BACK"
      /\ task.from # "ROLLING_BACK" => target = e.candidate /\ file = e.snapshot
  BY <1>1, <1>2, RowFacts, LoopFacts DEF Restoring, TargetOf
<1>5. /\ configs' = configs \/ (~(~Restoring /\ file[i] = target[i])
                                /\ configs' = [configs EXCEPT ![i] = target[i]])
      /\ \/ OnError
         \/ /\ ~Restoring /\ file[i] = target[i]
            /\ configs' = configs /\ DoneWith(i, "start")
         \/ /\ ~Restoring /\ file[i] = target[i] /\ configs' = configs
            /\ Goto("create_link")
         \/ configs' = [configs EXCEPT ![i] = target[i]] /\ Goto("create_link")
  BY <1>3, <1>4 DEF StartEntry, Kept
<1>6. /\ links \in [Outbounds -> LinkStates] /\ file \in Documents /\ configs \in Documents
      /\ \A x \in OpenVPN : links[x] # Partial
  BY DEF IInv, TypeOK, LinkStates
<1>7. configs' \in Documents /\ \A x \in Outbounds \ {i} : configs'[x] = configs[x]
  BY <1>4, <1>5, <1>6 DEF Documents
<1>8. ~Restoring /\ file[i] = target[i] => Same(task, e, i)
  BY <1>4 DEF Same
<1>9. GaveUp(journal) \/ HostOK(task, e, configs, links)
  BY <1>2, RowFacts
<1>10. LoopOK(task, e, links)
  BY <1>2, RowFacts
<1>11. ASSUME NEW step \in {"start", "create_link"}, NEW set \in SUBSET task.todo,
              task' \in Tasks, task'.step = step, task'.row = task.row, task'.rows = task.rows,
              task'.from = task.from, task'.todo = set, task'.run = task.run,
              step = "create_link" => set = task.todo /\ (GaveUp(journal) \/ configs'[i] = target[i]),
              step = "start" => set = task.todo \ {i} /\ Same(task, e, i) /\ configs' = configs
       PROVE  TaskOK(task', journal, file, configs', links, lost, planned) /\ StaysIn
  <2>1. /\ TargetOf(task', e) = target /\ \A x : Same(task', e, x) <=> Same(task, e, x)
    BY <1>11 DEF TargetOf, Same
  <2>2. LoopOK(task', e, links)
    <3>1. \A x \in task.todo : target[x] # None
      BY <1>1, <1>10 DEF LoopOK, StartSteps
    <3> HIDE DEF e, target
    <3> QED
      BY <1>1, <1>11, <2>1, <3>1 DEF LoopOK, StopSteps, StartSteps
  <2>3. FileOK(task', e, file) /\ VerifiedOK(task', e, configs', links, lost)
    BY <1>1, <1>11, LoopFacts DEF FileOK, VerifiedOK, LoopSteps, StopSteps, StartSteps
  <2>4. ASSUME HostOK(task, e, configs, links), ~GaveUp(journal)
        PROVE  HostOK(task', e, configs', links)
    <3>1. /\ \A x \in Outbounds \ task.todo : configs[x] = target[x] /\ LinkOK(target[x], links[x])
          /\ \A x \in task.todo : Same(task, e, x) =>
                 configs[x] = target[x] /\ LinkOK(target[x], links[x])
      BY <1>1, <2>4 DEF HostOK, StartSteps
    <3>2. task.todo \subseteq Outbounds
      BY <1>1, CurrentIsMember
    <3>3. \A x \in Outbounds \ set : configs'[x] = target[x] /\ LinkOK(target[x], links[x])
      BY <1>7, <1>11, <3>1
    <3>4. \A x \in set : Same(task, e, x) /\ (step = "start" \/ x # i) =>
              configs'[x] = target[x] /\ LinkOK(target[x], links[x])
      BY <1>7, <1>11, <3>1, <3>2
    <3>5. step = "create_link" => configs'[First(set)] = target[First(set)]
      BY <1>3, <1>11, <2>4
    <3>6. step # "start" => First(set) = i
      BY <1>3, <1>11
    <3> HIDE DEF e, target
    <3> QED
      BY <1>11, <2>1, <3>3, <3>4, <3>5, <3>6 DEF HostOK, StopSteps, StartSteps
  <2>5. task'.step \in RowSteps \ {"mark_rolling_back", "mark_interrupted"}
        /\ task.from \in FromAt(task'.step)
    BY <1>1, <1>11, LoopFacts DEF RowSteps, FromAt, LoopSteps, StopSteps, StartSteps
  <2>6. GaveUp(journal) \/ HostOK(task', e, configs', links)
    BY <1>9, <2>4
  <2> HIDE DEF e, target
  <2> QED
    BY <1>2, <1>11, <2>2, <2>3, <2>5, <2>6, SameRowOK DEF e
<1>12. task' \in Tasks /\ TaskOK(task', journal, file, configs', links, lost, planned) /\ StaysIn
  <2> HIDE DEF e, target
  <2>1. CASE OnError
    BY <1>1, <2>1, OnErrorOK
  <2>2. CASE ~Restoring /\ file[i] = target[i] /\ configs' = configs /\ DoneWith(i, "start")
    <3>1. "start" \in Steps /\ (task.todo \ {i}) \in SUBSET Outbounds
      BY <1>1, CurrentIsMember DEF Steps
    <3>2. /\ task' \in Tasks /\ task'.step = "start" /\ task'.row = task.row
          /\ task'.rows = task.rows /\ task'.from = task.from /\ task'.todo = task.todo \ {i}
          /\ task'.run = task.run
      BY <2>2, <3>1, LoopMoves DEF DoneWith
    <3> QED
      BY <1>8, <1>11, <2>2, <3>2
  <2>3. CASE Goto("create_link") /\ (\/ configs' = [configs EXCEPT ![i] = target[i]]
                                     \/ configs' = configs /\ Same(task, e, i))
    <3>1. "create_link" \in Steps
      BY DEF Steps
    <3>2. /\ task' \in Tasks /\ task'.step = "create_link" /\ task'.row = task.row
          /\ task'.rows = task.rows /\ task'.from = task.from /\ task'.todo = task.todo
          /\ task'.run = task.run
      BY <2>3, <3>1, GotoMoves
    <3>3. GaveUp(journal) \/ configs'[i] = target[i]
      <4>1. CASE configs' = [configs EXCEPT ![i] = target[i]]
        BY <1>3, <1>6, <4>1 DEF Documents
      <4>2. CASE configs' = configs /\ Same(task, e, i)
        BY <1>1, <1>3, <1>9, <4>2 DEF HostOK, StartSteps, target
      <4> QED
        BY <2>3, <4>1, <4>2
    <3> QED
      BY <1>11, <3>2, <3>3
  <2> QED
    BY <1>5, <1>8, <2>1, <2>2, <2>3
<1>13. \A x \in Outbounds \ task.todo : configs'[x] = configs[x] /\ links'[x] = links[x]
  BY <1>1, <1>7
<1> QED
  BY <1>1, <1>6, <1>7, <1>12, <1>13, WorkStep

\* One outbound of the start loop is done, or its link is created and to be configured.
LEMMA StartedOK ==
    ASSUME IInv, task.step \in {"create_link", "configure"}, NEW i \in task.todo,
           i = First(task.todo), NEW l, \A x \in Outbounds \ {i} : l[x] = links[x],
           task' \in Tasks, task'.row = task.row, task'.rows = task.rows,
           task'.from = task.from, task'.run = task.run,
           \/ /\ task'.step = "configure" /\ task'.todo = task.todo /\ l[i] \in {None, Partial}
           \/ /\ task'.step = "start" /\ task'.todo = task.todo \ {i}
              /\ LinkOK(configs[i], l[i])
    PROVE  TaskOK(task', journal, file, configs, l, lost, planned) /\ StaysIn
<1> DEFINE e == journal[task.row]
           target == TargetOf(task, e)
<1>1. task.step \in LoopSteps /\ task.step \in StartSteps /\ task.step # "start"
      /\ task.step \notin StopSteps
  BY DEF LoopSteps, StartSteps, StopSteps
<1>2. task.step \in RowSteps \ {"mark_failed", "roll_back"}
  BY <1>1, LoopFacts DEF StartSteps
<1>3. LoopOK(task, e, links) /\ (GaveUp(journal) \/ HostOK(task, e, configs, links))
  BY <1>2, RowFacts
<1>4. TargetOf(task', e) = target /\ \A x : Same(task', e, x) <=> Same(task, e, x)
  BY DEF TargetOf, Same
<1>5. task.todo \subseteq Outbounds
  BY CurrentIsMember
<1>6. task'.step \in {"configure", "start"} /\ task'.step \in StartSteps /\ task'.step \notin StopSteps
      /\ task'.todo \subseteq task.todo
  BY DEF StartSteps, StopSteps
<1>7. LoopOK(task', e, l)
  <2>1. \A x \in task.todo : target[x] # None
    BY <1>1, <1>3 DEF LoopOK
  <2>2. task'.step = "configure" => First(task'.todo) = i /\ l[i] \in {None, Partial}
    OBVIOUS
  <2> HIDE DEF e, target
  <2> QED
    BY <1>4, <1>6, <2>1, <2>2 DEF LoopOK
<1>8. FileOK(task', e, file) /\ VerifiedOK(task', e, configs, l, lost)
  BY <1>1, <1>6, LoopFacts DEF FileOK, VerifiedOK, LoopSteps
<1>9. ASSUME HostOK(task, e, configs, links) PROVE HostOK(task', e, configs, l)
  <2>1. /\ \A x \in Outbounds \ task.todo : configs[x] = target[x] /\ LinkOK(target[x], links[x])
        /\ \A x \in task.todo : Same(task, e, x) /\ x # i =>
               configs[x] = target[x] /\ LinkOK(target[x], links[x])
        /\ configs[i] = target[i]
    BY <1>1, <1>9 DEF HostOK
  <2>2. \A x \in Outbounds \ task'.todo : configs[x] = target[x] /\ LinkOK(target[x], l[x])
    BY <2>1
  <2>3. \A x \in task'.todo : Same(task, e, x) /\ x # i =>
            configs[x] = target[x] /\ LinkOK(target[x], l[x])
    BY <1>5, <1>6, <2>1
  <2>4. /\ task'.step = "start" => i \notin task'.todo
        /\ task'.step = "configure" => First(task'.todo) = i
    OBVIOUS
  <2> HIDE DEF e, target
  <2> QED
    BY <1>4, <1>6, <2>1, <2>2, <2>3, <2>4 DEF HostOK
<1>10. task'.step \in RowSteps \ {"mark_rolling_back", "mark_interrupted"}
       /\ task.from \in FromAt(task'.step)
  BY <1>1, <1>6, LoopFacts DEF RowSteps, FromAt, LoopSteps, StopSteps, StartSteps
<1> HIDE DEF e, target
<1>11. GaveUp(journal) \/ HostOK(task', e, configs, l)
  BY <1>3, <1>9
<1> QED
  BY <1>2, <1>7, <1>8, <1>10, <1>11, SameRowOK DEF e

\* A link is added or a unit started, where there is none.
LEMMA CreateLinkStep == ASSUME IInv, CreateLink PROVE IInv'
<1>1. /\ task.step = "create_link" /\ task.step \in LoopSteps
      /\ UNCHANGED <<process, journal, owned, others>>
      /\ UNCHANGED faults \/ Fault
  BY DEF CreateLink, LoopSteps, StartSteps
<1>2. task.todo # {}
  BY <1>1, LoopFacts, RowFacts DEF LoopOK
<1>3. PICK i \in task.todo : i = Current /\ i = First(task.todo) /\ i \in Outbounds
  BY <1>2, CurrentIsMember
<1>4. /\ links' \in {links, [links EXCEPT ![i] = Started(i)]}
      /\ \/ OnError
         \/ /\ links' = [links EXCEPT ![i] = Started(i)]
            /\ IF i \in OpenVPN THEN DoneWith(i, "start") ELSE Goto("configure")
  BY <1>3 DEF CreateLink
<1>5. /\ links \in [Outbounds -> LinkStates] /\ file \in Documents /\ configs \in Documents
      /\ \A x \in OpenVPN : links[x] # Partial
  BY DEF IInv, TypeOK, LinkStates
<1>6. /\ Started(i) \in LinkStates /\ (i \in OpenVPN => Started(i) # Partial)
      /\ (i \in OpenVPN => Started(i) = configs[i]) /\ (i \notin OpenVPN => Started(i) = Partial)
  BY <1>3, <1>5, InterfaceAssumption DEF Started, LinkStates, Documents
<1>7. /\ links' \in [Outbounds -> LinkStates] /\ \A x \in Outbounds \ {i} : links'[x] = links[x]
      /\ \A x \in OpenVPN : links'[x] # Partial
  <2>1. \A x \in Outbounds : links'[x] = links[x] \/ (x = i /\ links'[x] = Started(i))
    BY <1>4, <1>5
  <2>2. links' \in [Outbounds -> LinkStates]
    BY <1>4, <1>5, <1>6
  <2>3. \A x \in Outbounds \ {i} : links'[x] = links[x]
    BY <1>4, <1>5
  <2>4. OpenVPN \subseteq Outbounds
    BY InterfaceAssumption
  <2> QED
    BY <1>5, <1>6, <2>1, <2>2, <2>3, <2>4
<1>8. task' \in Tasks /\ TaskOK(task', journal, file, configs, links', lost, planned) /\ StaysIn
  <2>1. CASE OnError
    BY <1>1, <2>1, OnErrorOK
  <2>2. CASE links' = [links EXCEPT ![i] = Started(i)] /\ i \in OpenVPN /\ DoneWith(i, "start")
    <3>1. "start" \in Steps /\ (task.todo \ {i}) \in SUBSET Outbounds
      BY <1>2, CurrentIsMember DEF Steps
    <3>2. /\ task' \in Tasks /\ task'.step = "start" /\ task'.row = task.row
          /\ task'.rows = task.rows /\ task'.from = task.from /\ task'.todo = task.todo \ {i}
          /\ task'.run = task.run
      BY <2>2, <3>1, LoopMoves DEF DoneWith
    <3>3. LinkOK(configs[i], links'[i])
      BY <1>3, <1>5, <1>6, <2>2 DEF LinkOK
    <3> QED
      BY <1>1, <1>3, <1>7, <3>2, <3>3, StartedOK
  <2>3. CASE links' = [links EXCEPT ![i] = Started(i)] /\ i \notin OpenVPN /\ Goto("configure")
    <3>1. "configure" \in Steps
      BY DEF Steps
    <3>2. /\ task' \in Tasks /\ task'.step = "configure" /\ task'.row = task.row
          /\ task'.rows = task.rows /\ task'.from = task.from /\ task'.todo = task.todo
          /\ task'.run = task.run
      BY <2>3, <3>1, GotoMoves
    <3>3. links'[i] = Partial
      BY <1>3, <1>5, <1>6, <2>3
    <3> QED
      BY <1>1, <1>3, <1>7, <3>2, <3>3, StartedOK
  <2> QED
    BY <1>4, <2>1, <2>2, <2>3
<1>9. /\ UNCHANGED <<process, journal, others>> /\ UNCHANGED <<file, configs>>
      /\ file' \in Documents /\ configs' \in Documents
  BY <1>1, <1>5 DEF owned
<1>10. \A x \in Outbounds \ task.todo : configs'[x] = configs[x] /\ links'[x] = links[x]
  BY <1>3, <1>7, <1>9
<1> QED
  BY <1>1, <1>7, <1>8, <1>9, <1>10, WorkStep

\* A new link is configured.
LEMMA ConfigureLinkStep == ASSUME IInv, ConfigureLink PROVE IInv'
<1>1. /\ task.step = "configure" /\ task.step \in LoopSteps
      /\ UNCHANGED <<process, journal, owned, others>>
      /\ UNCHANGED faults \/ Fault
  BY DEF ConfigureLink, LoopSteps, StartSteps
<1>2. task.todo # {}
  BY <1>1, LoopFacts, RowFacts DEF LoopOK
<1>3. PICK i \in task.todo : i = Current /\ i = First(task.todo) /\ i \in Outbounds
  BY <1>2, CurrentIsMember
<1> DEFINE configured == [links EXCEPT ![i] = IF links[i] = None THEN None ELSE configs[i]]
<1>4. /\ links \in [Outbounds -> LinkStates] /\ file \in Documents /\ configs \in Documents
      /\ \A x \in OpenVPN : links[x] # Partial
  BY DEF IInv, TypeOK, LinkStates
<1>5. /\ links' \in {links, configured}
      /\ OnError \/ (links[i] # None /\ links' = configured /\ DoneWith(i, "start"))
  BY <1>3, <1>4 DEF ConfigureLink
<1>6. /\ configured \in [Outbounds -> LinkStates]
      /\ \A x \in Outbounds \ {i} : configured[x] = links[x]
      /\ configured[i] \in {None, configs[i]} /\ configured[i] # Partial
      /\ LinkOK(configs[i], configured[i])
  BY <1>3, <1>4, InterfaceAssumption DEF LinkStates, Documents, LinkOK
<1> HIDE DEF configured
<1>7. /\ links' \in [Outbounds -> LinkStates] /\ \A x \in Outbounds \ {i} : links'[x] = links[x]
      /\ \A x \in OpenVPN : links'[x] # Partial
  BY <1>4, <1>5, <1>6, InterfaceAssumption
<1>8. task' \in Tasks /\ TaskOK(task', journal, file, configs, links', lost, planned) /\ StaysIn
  <2>1. CASE OnError
    BY <1>1, <2>1, OnErrorOK
  <2>2. CASE links' = configured /\ DoneWith(i, "start")
    <3>1. "start" \in Steps /\ (task.todo \ {i}) \in SUBSET Outbounds
      BY <1>2, CurrentIsMember DEF Steps
    <3>2. /\ task' \in Tasks /\ task'.step = "start" /\ task'.row = task.row
          /\ task'.rows = task.rows /\ task'.from = task.from /\ task'.todo = task.todo \ {i}
          /\ task'.run = task.run
      BY <2>2, <3>1, LoopMoves DEF DoneWith
    <3>3. LinkOK(configs[i], links'[i])
      BY <1>6, <2>2
    <3> QED
      BY <1>1, <1>3, <1>7, <3>2, <3>3, StartedOK
  <2> QED
    BY <1>5, <2>1, <2>2
<1>9. /\ UNCHANGED <<process, journal, others>> /\ UNCHANGED <<file, configs>>
      /\ file' \in Documents /\ configs' \in Documents
  BY <1>1, <1>4 DEF owned
<1>10. \A x \in Outbounds \ task.todo : configs'[x] = configs[x] /\ links'[x] = links[x]
  BY <1>3, <1>7, <1>9
<1> QED
  BY <1>1, <1>7, <1>8, <1>9, <1>10, WorkStep

\* Every entry is up and the state file says so.
LEMMA WriteFileStep == ASSUME IInv, WriteFile PROVE IInv'
<1> DEFINE e == journal[task.row]
           target == TargetOf(task, e)
           next == IF task.from = "ROLLING_BACK" THEN "verify_restored" ELSE "mark_verifying"
<1>1. /\ task.step = "start" /\ task.step \in LoopSteps /\ task.todo = {}
      /\ UNCHANGED <<process, journal, configs, links, others>>
      /\ UNCHANGED faults \/ Fault
  BY DEF WriteFile, LoopSteps, StartSteps
<1>2. task.step \in RowSteps \ {"mark_failed", "roll_back"}
  BY <1>1, LoopFacts
<1>3. Target = target /\ target \in Documents
  BY <1>2, RowFacts
<1>4. /\ file' \in {file, target}
      /\ OnError \/ (file' = target /\ Goto(next))
  BY <1>3 DEF WriteFile, Restoring
<1>5. /\ links \in [Outbounds -> LinkStates] /\ file \in Documents /\ configs \in Documents
      /\ \A x \in OpenVPN : links[x] # Partial
  BY DEF IInv, TypeOK, LinkStates
<1>6. task' \in Tasks /\ TaskOK(task', journal, file', configs, links, lost, planned) /\ StaysIn
  <2>1. CASE OnError
    BY <1>1, <2>1, OnErrorOK
  <2>2. CASE file' = target /\ Goto(next)
    <3>1. next \in Steps
      BY DEF Steps
    <3>2. /\ task' \in Tasks /\ task'.step = next /\ task'.row = task.row
          /\ task'.rows = task.rows /\ task'.from = task.from
          /\ task'.run = task.run
      BY <2>2, <3>1, GotoMoves
    <3>3. TargetOf(task', e) = target
      BY <3>2 DEF TargetOf
    <3>4. LoopOK(task', e, links) /\ FileOK(task', e, file') /\ VerifiedOK(task', e, configs, links, lost)
      BY <2>2, <3>2 DEF LoopOK, FileOK, VerifiedOK, LoopSteps, StopSteps, StartSteps, TargetOf
    <3>5. ASSUME HostOK(task, e, configs, links) PROVE HostOK(task', e, configs, links)
      <4>1. Fits(target, configs, links)
        BY <1>1, <3>5 DEF HostOK, StartSteps, Fits
      <4>2. next \notin StopSteps \cup StartSteps
        BY DEF StopSteps, StartSteps
      <4> HIDE DEF e, target, next
      <4> QED
        BY <3>2, <3>3, <4>1, <4>2 DEF HostOK, StopSteps, StartSteps
    <3>6. task'.step \in RowSteps \ {"mark_rolling_back", "mark_interrupted"}
          /\ task.from \in FromAt(task'.step)
      BY <1>1, <3>2, LoopFacts DEF RowSteps, FromAt, LoopSteps, StopSteps, StartSteps
    <3>7. GaveUp(journal) \/ HostOK(task', e, configs, links)
      BY <1>2, <3>5, RowFacts
    <3> HIDE DEF e, target, next
    <3> QED
      BY <1>2, <3>2, <3>4, <3>6, <3>7, SameRowOK DEF e
  <2> QED
    BY <1>4, <2>1, <2>2
<1>7. file' \in Documents
  BY <1>3, <1>4, <1>5
<1> QED
  BY <1>1, <1>5, <1>6, <1>7, WorkStep

\* A verified candidate is to be committed.
LEMMA VerifyStep == ASSUME IInv, Verify PROVE IInv'
<1> DEFINE e == journal[task.row]
<1>1. /\ task.step = "verify"
      /\ UNCHANGED <<process, journal, owned, links, desired, edits, recoveries, crashes,
                     wipedAt, planned>>
      /\ UNCHANGED faults \/ Fault
  BY DEF Verify
<1>2. task.step \in RowSteps \ {"mark_failed", "roll_back"}
  BY <1>1 DEF RowSteps
<1>3. \/ OnError /\ UNCHANGED lost
      \/ Verified(e.candidate) /\ file = e.candidate /\ Goto("commit") /\ lost' = FALSE
  BY <1>2, RowFacts DEF Verify
<1>4. CASE OnError /\ UNCHANGED lost
  <2>1. task' \in Tasks /\ TaskOK(task', journal, file, configs, links, lost, planned) /\ StaysIn
    BY <1>1, <1>4, OnErrorOK
  <2> QED
    BY <1>1, <1>4, <2>1, FrozenStep DEF history
<1>5. CASE Verified(e.candidate) /\ file = e.candidate /\ Goto("commit") /\ lost' = FALSE
  <2>1. "commit" \in Steps
    BY DEF Steps
  <2>2. /\ task' \in Tasks /\ task'.step = "commit" /\ task'.row = task.row
        /\ task'.rows = task.rows /\ task'.from = task.from
        /\ task'.run = task.run
    BY <1>5, <2>1, GotoMoves
  <2>3. task.from = "VERIFYING"
    BY <1>1, <1>2, RowFacts DEF FromAt, LoopSteps, StopSteps, StartSteps
  <2>4. /\ LoopOK(task', e, links) /\ FileOK(task', e, file)
        /\ VerifiedOK(task', e, configs, links, FALSE)
    <3>1. \A i \in Outbounds : e.candidate[i] # None => configs[i] = e.candidate[i] /\ links[i] # None
      BY <1>5 DEF Verified, Enabled
    <3> HIDE DEF e
    <3> QED
      BY <1>5, <2>2, <3>1
      DEF LoopOK, FileOK, VerifiedOK, LoopSteps, StopSteps, StartSteps, Linked
  <2>5. ASSUME HostOK(task, e, configs, links) PROVE HostOK(task', e, configs, links)
    <3>1. TargetOf(task', e) = TargetOf(task, e)
      BY <2>2 DEF TargetOf
    <3> HIDE DEF e
    <3> QED
      BY <1>1, <2>2, <2>5, <3>1 DEF HostOK, StopSteps, StartSteps
  <2>6. task'.step \in RowSteps \ {"mark_rolling_back", "mark_interrupted"}
        /\ task.from \in FromAt(task'.step)
    BY <2>2, <2>3 DEF RowSteps, FromAt, LoopSteps, StopSteps, StartSteps
  <2>7. GaveUp(journal) \/ HostOK(task', e, configs, links)
    BY <1>2, <2>5, RowFacts
  <2>8. TaskOK(task', journal, file, configs, links, FALSE, planned) /\ StaysIn
    <3> HIDE DEF e
    <3> QED
      BY <1>2, <2>2, <2>4, <2>6, <2>7, SameRowOK DEF e
  <2>9. ~Quiet(journal)
    BY <1>2, <2>3, RowFacts DEF Quiet, UnfinishedRows, FinishedStates
  <2>10. RecordOK(journal, file, configs, links, wipedAt)
         /\ ReadyOK(tracker, task'.run, journal, file, links, FALSE)
    BY <2>9 DEF IInv, ReadyOK
  <2>11. UNCHANGED <<up, tracker, file, configs, wipedAt, planned, desired, edits, recoveries, crashes>>
    BY <1>1 DEF process, owned
  <2>12. /\ links \in [Outbounds -> LinkStates] /\ file \in Documents /\ configs \in Documents
         /\ \A x \in OpenVPN : links[x] # Partial
         /\ planned \in Documents
         /\ journal \in Seq(Entries) /\ wipedAt \in 0..Len(journal)
         /\ tracker \in {"none", "succeeded", "failed"}
    BY DEF IInv, TypeOK, LinkStates
  <2>13. /\ lost' = FALSE /\ UNCHANGED <<journal, links>>
         /\ UNCHANGED faults \/ Fault
    BY <1>1, <1>5
  <2>14. /\ TaskOK(task', journal', file', configs', links', lost', planned')
         /\ RecordOK(journal', file', configs', links', wipedAt)
         /\ ReadyOK(tracker', task'.run, journal', file', links', lost')
    BY <2>8, <2>10, <2>11, <2>13
  <2>15. lost' \in BOOLEAN
    BY <2>13
  <2> QED
    BY <2>2, <2>11, <2>12, <2>13, <2>14, <2>15, TaskStep
<1> QED
  BY <1>3, <1>4, <1>5

\* The restored snapshot is verified.
LEMMA VerifyRestoredStep == ASSUME IInv, VerifyRestored PROVE IInv'
<1> DEFINE e == journal[task.row]
<1>1. /\ task.step = "verify_restored"
      /\ UNCHANGED <<process, journal, owned, links, others>>
      /\ UNCHANGED faults \/ Fault
  BY DEF VerifyRestored
<1>2. task.step \in RowSteps \ {"mark_failed", "roll_back"}
  BY <1>1 DEF RowSteps
<1>3. OnError \/ (Verified(e.snapshot) /\ Goto("mark_rolled_back"))
  BY <1>2, RowFacts DEF VerifyRestored
<1>4. task' \in Tasks /\ TaskOK(task', journal, file, configs, links, lost, planned) /\ StaysIn
  <2>1. CASE OnError
    BY <1>1, <2>1, OnErrorOK
  <2>2. CASE Verified(e.snapshot) /\ Goto("mark_rolled_back")
    <3>1. "mark_rolled_back" \in Steps
      BY DEF Steps
    <3>2. /\ task' \in Tasks /\ task'.step = "mark_rolled_back" /\ task'.row = task.row
          /\ task'.rows = task.rows /\ task'.from = task.from
          /\ task'.run = task.run
      BY <2>2, <3>1, GotoMoves
    <3>3. task.from = "ROLLING_BACK" /\ file = e.snapshot
      BY <1>1, <1>2, RowFacts DEF FromAt, FileOK, LoopSteps, StopSteps, StartSteps
    <3>4. /\ LoopOK(task', e, links) /\ FileOK(task', e, file)
          /\ VerifiedOK(task', e, configs, links, lost)
      <4>1. Linked(e.snapshot, links)
        BY <2>2 DEF Verified, Enabled, Linked
      <4> HIDE DEF e
      <4> QED
        BY <3>2, <3>3, <4>1 DEF LoopOK, FileOK, VerifiedOK, LoopSteps, StopSteps, StartSteps
    <3>5. ASSUME HostOK(task, e, configs, links) PROVE HostOK(task', e, configs, links)
      <4>1. TargetOf(task', e) = TargetOf(task, e)
        BY <3>2 DEF TargetOf
      <4> HIDE DEF e
      <4> QED
        BY <1>1, <3>2, <3>5, <4>1 DEF HostOK, StopSteps, StartSteps
    <3>6. task'.step \in RowSteps \ {"mark_rolling_back", "mark_interrupted"}
          /\ task.from \in FromAt(task'.step)
      BY <3>2, <3>3 DEF RowSteps, FromAt, LoopSteps, StopSteps, StartSteps
    <3>7. GaveUp(journal) \/ HostOK(task', e, configs, links)
      BY <1>2, <3>5, RowFacts
    <3> HIDE DEF e
    <3> QED
      BY <1>2, <3>2, <3>4, <3>6, <3>7, SameRowOK DEF e
  <2> QED
    BY <1>3, <2>1, <2>2
<1> QED
  BY <1>1, <1>4, FrozenStep DEF others

-------------------------------------------------------------------------------
(* The beginning and the end of a task.                                    *)

\* A new operation has the state file as its snapshot.
LEMMA CreatedOK ==
    ASSUME IInv, UnfinishedRows(journal) = {}, NEW k,
           k = Created(journal, Len(journal) + 1, "interface", file, desired)
    PROVE  /\ k \in Seq(Entries) /\ Len(k) \in DOMAIN k /\ wipedAt \in 0..Len(k)
           /\ k[Len(k)].state = "PREPARED" /\ k[Len(k)].snapshot = file
           /\ k[Len(k)].candidate = desired
           /\ RecordOK(k, file, configs, links, wipedAt) /\ (GaveUp(journal) => GaveUp(k))
<1> DEFINE e == [id |-> Len(journal) + 1, component |-> "interface", state |-> "PREPARED",
                 snapshot |-> file, candidate |-> desired, detail |-> "none", damage |-> "none"]
<1>1. /\ journal \in Seq(Entries) /\ file \in Documents /\ desired \in Documents
      /\ Len(journal) \in Nat /\ wipedAt \in 0..Len(journal)
  BY DEF IInv, TypeOK
<1>2. e \in Entries
  <2>1. Len(journal) + 1 \in Nat /\ "PREPARED" \in TransactionStates /\ "none" \in Details
    BY <1>1 DEF TransactionStates, Details
  <2> QED
    BY <1>1, <2>1 DEF Entries
<1>3. e.state = "PREPARED" /\ e.detail = "none" /\ e.snapshot = file /\ e.candidate = desired
  OBVIOUS
<1>4. k = Append(journal, e)
  BY DEF Created
<1> HIDE DEF e
<1>5. RecordOK(k, file, configs, links, wipedAt)
  BY <1>1, <1>2, <1>3, <1>4, CreationKeepsRecord DEF IInv
<1>6. /\ k \in Seq(Entries) /\ Len(k) = Len(journal) + 1 /\ k[Len(k)] = e
      /\ DOMAIN k = 1..(Len(journal) + 1) /\ \A r \in DOMAIN journal : r \in DOMAIN k /\ k[r] = journal[r]
  <2>1. DOMAIN journal = 1..Len(journal)
    BY <1>1
  <2> QED
    BY <1>1, <1>2, <1>4, <2>1, AppendProperties
<1>7. GaveUp(journal) => GaveUp(k)
  BY <1>6 DEF GaveUp
<1> QED
  BY <1>1, <1>3, <1>5, <1>6, <1>7

\* An operation is created, for a client or to reconcile.
LEMMA BeginStep ==
    ASSUME IInv, NEW run \in {"client", "reconcile"}, Begin(run), UnfinishedRows(journal) = {},
           run = "client" => task = IdleTask /\ planned' = planned,
           run = "reconcile" => task.step = "reconcile" /\ planned' = desired,
           UNCHANGED <<up, tracker, file, configs, links, desired, edits, recoveries, crashes,
                       lost, wipedAt>>
    PROVE  IInv'
<1>1. PICK k : k = Created(journal, Len(journal) + 1, "interface", file, desired)
  OBVIOUS
<1>2. /\ k \in Seq(Entries) /\ Len(k) \in DOMAIN k /\ wipedAt \in 0..Len(k)
      /\ k[Len(k)].state = "PREPARED" /\ k[Len(k)].snapshot = file
      /\ k[Len(k)].candidate = desired
      /\ RecordOK(k, file, configs, links, wipedAt) /\ (GaveUp(journal) => GaveUp(k))
  BY <1>1, CreatedOK
<1> DEFINE t == [IdleTask EXCEPT !.run = run, !.step = "validate", !.row = Len(k)]
           ended == [task EXCEPT !.step = "finish_recovery", !.erred = TRUE]
<1>3. \/ journal' = k /\ task' = t /\ UNCHANGED faults
      \/ /\ Fault /\ journal' \in {journal, k}
         /\ task' = IF run = "reconcile" THEN ended ELSE IdleTask
  BY <1>1 DEF Begin
<1>4. task \in Tasks /\ task.rows = {} /\ (run = "reconcile" => task.run = "recovery")
  <2>1. task \in Tasks /\ task.rows \subseteq UnfinishedRows(journal)
    BY DEF IInv, TypeOK, TaskOK
  <2>2. run = "reconcile" => task.run = "recovery"
    BY DEF IInv, TaskOK
  <2> QED
    BY <2>1, <2>2
<1>5. /\ t \in Tasks /\ t.run = run /\ t.step = "validate" /\ t.row = Len(k)
      /\ t.from = "PREPARED" /\ t.rows = {}
  <2>1. Len(k) \in Nat /\ run \in Runs /\ "validate" \in Steps
    BY <1>2 DEF Runs, Steps
  <2>2. IdleTask \in Tasks /\ IdleTask.from = "PREPARED" /\ IdleTask.rows = {}
    BY IdleOK DEF IdleTask
  <2> QED
    BY <2>1, <2>2 DEF Tasks
<1>6. /\ ended \in Tasks /\ ended.run = task.run /\ ended.step = "finish_recovery"
      /\ ended.rows = {} /\ ended.erred = TRUE
  <2>1. "finish_recovery" \in Steps /\ TRUE \in BOOLEAN
    BY DEF Steps
  <2> QED
    BY <1>4, <2>1 DEF Tasks
<1> HIDE DEF t, ended
<1>7. TaskOK(t, k, file, configs, links, lost, planned')
  <2>1. LoopOK(t, k[t.row], links) /\ FileOK(t, k[t.row], file)
        /\ VerifiedOK(t, k[t.row], configs, links, lost) /\ HostOK(t, k[t.row], configs, links)
    BY <1>2, <1>5 DEF LoopOK, FileOK, VerifiedOK, HostOK, LoopSteps, StopSteps, StartSteps
  <2>2. t.from \in FromAt("validate") /\ "validate" \notin RunSteps
    BY <1>5 DEF FromAt, RunSteps, LoopSteps, StopSteps, StartSteps
  <2> QED
    BY <1>2, <1>5, <2>1, <2>2 DEF TaskOK
<1>8. ASSUME NEW j \in {journal, k}, run = "reconcile"
      PROVE  TaskOK(ended, j, file, configs, links, lost, planned')
  BY <1>4, <1>6, <1>8 DEF TaskOK, RowSteps, RunSteps, LoopSteps, StopSteps, StartSteps
<1>9. journal' \in Seq(Entries) /\ journal' \in {journal, k} /\ wipedAt \in 0..Len(journal')
      /\ RecordOK(journal', file, configs, links, wipedAt)
  BY <1>2, <1>3 DEF IInv, TypeOK
<1>10. /\ task' \in Tasks /\ TaskOK(task', journal', file, configs, links, lost, planned')
       /\ run = "reconcile" => task'.run \in {"recovery", "reconcile"}
  <2>1. CASE journal' = k /\ task' = t
    BY <1>5, <1>7, <2>1
  <2>2. CASE run = "reconcile" /\ task' = ended
    BY <1>4, <1>6, <1>8, <1>9, <2>2
  <2>3. CASE run = "client" /\ task' = IdleTask
    BY <2>3, IdleOK
  <2> QED
    BY <1>3, <2>1, <2>2, <2>3
<1>11. ReadyOK(tracker, task'.run, journal', file, links, lost)
  <2>1. CASE run = "reconcile"
    BY <1>10, <2>1 DEF ReadyOK
  <2>2. CASE run = "client"
    <3>1. task.run = "none" /\ Quiet(journal)
      BY <2>2, IdleOK DEF Quiet
    <3> QED
      BY <1>2, <1>9, <3>1 DEF IInv, ReadyOK
  <2> QED
    BY <2>1, <2>2
<1>12. UNCHANGED faults \/ Fault
  BY <1>3
<1>13. /\ tracker \in {"none", "succeeded", "failed"}
       /\ file \in Documents /\ configs \in Documents /\ links \in [Outbounds -> LinkStates]
       /\ \A x \in OpenVPN : links[x] # Partial
       /\ lost \in BOOLEAN /\ planned' \in Documents
  BY DEF IInv, TypeOK, LinkStates
<1> QED
  BY <1>9, <1>10, <1>11, <1>12, <1>13, TaskStep

\* A reviewed apply starts.
LEMMA ApplyRequestedStep == ASSUME IInv, ApplyRequested PROVE IInv'
<1>1. /\ task = IdleTask /\ UnfinishedRows(journal) = {} /\ Begin("client")
      /\ UNCHANGED <<up, tracker, file, configs, links, desired, edits, recoveries, crashes,
                     lost, wipedAt>>
      /\ planned' = planned
  BY DEF ApplyRequested, Idle, Gate, process, owned, others, history
<1> QED
  BY <1>1, BeginStep

\* A request or a run starts or ends and leaves the host alone.
LEMMA QuietStart ==
    ASSUME IInv, UNCHANGED <<journal, desired, owned, links, edits, faults, crashes, wipedAt, planned>>,
           up' \in BOOLEAN, tracker' \in {"none", "succeeded", "failed"},
           recoveries' \in 0..MaxRecoveries, lost' \in BOOLEAN, task' \in Tasks,
           TaskOK(task', journal, file, configs, links, lost', planned),
           ReadyOK(tracker', task'.run, journal, file, links, lost')
    PROVE  IInv'
<1>1. UNCHANGED <<journal, desired, file, configs, links, edits, faults, crashes, wipedAt, planned>>
  BY DEF owned
<1>2. TypeOK'
  BY <1>1 DEF IInv, TypeOK
<1> QED
  BY <1>1, <1>2 DEF IInv

\* The newest commit is the top of a journal without anything in flight.
LEMMA RollbackRequestedStep == ASSUME IInv, RollbackRequested PROVE IInv'
<1>1. PICK row \in DOMAIN journal :
          /\ IsLatestCommitted(journal, row)
          /\ file = journal[row].candidate
          /\ task' = [IdleTask EXCEPT !.run = "rollback", !.step = "mark_rolling_back",
                                      !.row = row, !.from = "COMMITTED"]
  BY DEF RollbackRequested
<1>2. /\ task = IdleTask /\ UnfinishedRows(journal) = {} /\ journal \in Seq(Entries)
      /\ UNCHANGED <<process, journal, owned, links, desired, counters, history>>
  BY DEF RollbackRequested, Idle, Gate, IInv, TypeOK
<1> DEFINE t == [IdleTask EXCEPT !.run = "rollback", !.step = "mark_rolling_back",
                                 !.row = row, !.from = "COMMITTED"]
<1>3. /\ t \in Tasks /\ t.run = "rollback" /\ t.step = "mark_rolling_back" /\ t.row = row
      /\ t.from = "COMMITTED" /\ t.rows = {}
  <2>1. /\ row \in Nat /\ "rollback" \in Runs /\ "mark_rolling_back" \in Steps
        /\ "COMMITTED" \in TransactionStates
    BY <1>2 DEF Runs, Steps, TransactionStates
  <2>2. IdleTask \in Tasks /\ IdleTask.rows = {}
    BY IdleOK
  <2> QED
    BY <2>1, <2>2 DEF Tasks
<1>4. task' = t
  BY <1>1
<1> HIDE DEF t
<1>5. IsTop(journal, row) /\ journal[row].state = "COMMITTED"
  <2>1. \A other \in DOMAIN journal : journal[other].state \in FinishedStates
    BY <1>2 DEF UnfinishedRows
  <2>2. /\ journal[row].state = "COMMITTED"
        /\ \A other \in DOMAIN journal : journal[other].state = "COMMITTED" => other <= row
    BY <1>1 DEF IsLatestCommitted
  <2>3. row \in Nat /\ DOMAIN journal \subseteq Nat
    BY <1>2
  <2> QED
    BY <2>1, <2>2, <2>3 DEF IsTop, Undoable
<1>6. TaskOK(t, journal, file, configs, links, lost, planned)
  <2>1. LoopOK(t, journal[row], links) /\ FileOK(t, journal[row], file)
        /\ VerifiedOK(t, journal[row], configs, links, lost) /\ HostOK(t, journal[row], configs, links)
    BY <1>3 DEF LoopOK, FileOK, VerifiedOK, HostOK, LoopSteps, StopSteps, StartSteps
  <2>2. /\ t.from \in FromAt("mark_rolling_back") /\ "mark_rolling_back" \notin RunSteps
        /\ t.step \notin {"next_operation", "reconcile", "finish_recovery", "mark_interrupted"}
    BY <1>3 DEF FromAt, RunSteps, LoopSteps, StopSteps, StartSteps
  <2> QED
    BY <1>1, <1>2, <1>3, <1>5, <2>1, <2>2 DEF TaskOK
<1>7. ReadyOK(tracker, t.run, journal, file, links, lost)
  <2>1. task.run = "none"
    BY <1>2, IdleOK
  <2> QED
    BY <2>1 DEF IInv, ReadyOK
<1>8. /\ up' \in BOOLEAN /\ tracker' = tracker /\ tracker \in {"none", "succeeded", "failed"}
      /\ recoveries' \in 0..MaxRecoveries /\ lost' = lost /\ lost \in BOOLEAN
      /\ UNCHANGED <<journal, desired, owned, links, edits, faults, crashes, wipedAt, planned>>
  BY <1>2 DEF process, counters, history, IInv, TypeOK
<1> QED
  BY <1>3, <1>4, <1>6, <1>7, <1>8, QuietStart

\* The daemon starts, or an operator asks for a recovery run.
LEMMA RecoveryStartsStep == ASSUME IInv, Start \/ RecoveryRequested PROVE IInv'
<1> DEFINE t == [IdleTask EXCEPT !.run = "recovery", !.step = "next_operation",
                                 !.rows = UnfinishedRows(journal)]
<1>1. /\ UNCHANGED <<journal, desired, owned, links, edits, faults, crashes, wipedAt, planned>>
      /\ task' = t /\ lost' = FALSE
      /\ up' \in BOOLEAN /\ tracker' \in {"none", "succeeded", "failed"}
      /\ recoveries' = recoveries \/ (recoveries < MaxRecoveries /\ recoveries' = recoveries + 1)
  BY DEF Start, RecoveryRequested, StartRecovery, counters, process, IInv, TypeOK
<1>2. recoveries' \in 0..MaxRecoveries
  <2>1. recoveries \in 0..MaxRecoveries /\ MaxRecoveries \in Nat
    BY InterfaceAssumption DEF IInv, TypeOK
  <2> QED
    BY <1>1, <2>1
<1>3. t \in Tasks /\ t.step = "next_operation" /\ t.rows = UnfinishedRows(journal) /\ t.run = "recovery"
  <2>1. UnfinishedRows(journal) \in SUBSET Nat /\ "recovery" \in Runs /\ "next_operation" \in Steps
    BY DEF IInv, TypeOK, UnfinishedRows, Runs, Steps
  <2>2. IdleTask \in Tasks
    BY IdleOK
  <2> QED
    BY <2>1, <2>2 DEF Tasks
<1> HIDE DEF t
<1>4. TaskOK(t, journal, file, configs, links, FALSE, planned)
  BY <1>3 DEF TaskOK, RowSteps, LoopSteps, StopSteps, StartSteps
<1>5. ReadyOK(tracker', t.run, journal, file, links, FALSE)
  BY <1>3 DEF ReadyOK
<1> QED
  BY <1>1, <1>2, <1>3, <1>4, <1>5, QuietStart

\* Recovery turns to the next entry in flight, at the step its state calls for.
LEMMA NextOperationStep == ASSUME IInv, NextOperation PROVE IInv'
<1> DEFINE row == CHOOSE r \in task.rows : \A other \in task.rows : r <= other
           state == journal[row].state
           taken == [task EXCEPT !.rows = @ \ {row}, !.row = row, !.from = state]
<1>1. /\ task.step = "next_operation" /\ task.rows # {} /\ task.rows \subseteq UnfinishedRows(journal)
      /\ task \in Tasks /\ task.run = "recovery" /\ journal \in Seq(Entries)
      /\ UNCHANGED <<process, journal, desired, owned, links, counters, history>>
  BY DEF NextOperation, IInv, TypeOK, TaskOK
<1>2. \/ task' = [task EXCEPT !.rows = @ \ {row}, !.erred = TRUE]
      \/ state \in {"PREPARED", "VALIDATED"} /\ task' = [taken EXCEPT !.step = "mark_interrupted"]
      \/ state \in {"APPLYING", "VERIFYING"} /\ task' = [taken EXCEPT !.step = "roll_back"]
      \/ /\ ~(journal[row].damage = "none" /\ state \in {"PREPARED", "VALIDATED"})
         /\ ~(journal[row].damage = "none" /\ state \in {"APPLYING", "VERIFYING"})
         /\ journal[row].damage = "none"
         /\ task' = [taken EXCEPT !.step = "stop", !.todo = Enabled(journal[row].candidate)]
  BY DEF NextOperation
<1>3. row \in task.rows
  <2>1. task.rows \subseteq Nat
    BY <1>1 DEF Tasks
  <2>2. \E r \in task.rows : \A other \in task.rows : r <= other
    BY <1>1, <2>1, LeastElement
  <2> QED
    BY <2>2
<1> HIDE DEF row
<1>4. /\ row \in DOMAIN journal /\ row \in Nat /\ state \in TransactionStates
      /\ state \notin FinishedStates /\ row \in UnfinishedRows(journal)
  <2>1. row \in UnfinishedRows(journal)
    BY <1>1, <1>3
  <2>2. row \in DOMAIN journal /\ state \notin FinishedStates
    BY <2>1 DEF UnfinishedRows
  <2>3. journal[row] \in Entries
    BY <1>1, <2>2
  <2> QED
    BY <1>1, <2>1, <2>2, <2>3 DEF Entries
<1> HIDE DEF state
<1>5. /\ taken \in Tasks /\ taken.rows = task.rows \ {row} /\ taken.row = row
      /\ taken.from = state /\ taken.run = "recovery"
  BY <1>1, <1>4 DEF Tasks
<1> HIDE DEF taken
<1>6. ASSUME task' \in Tasks, task'.step \in {"mark_interrupted", "roll_back", "stop"},
             task'.row = row, task'.rows = task.rows \ {row}, task'.from = state,
             task'.run = "recovery", state \in FromAt(task'.step),
             LoopOK(task', journal[row], links), FileOK(task', journal[row], file),
             VerifiedOK(task', journal[row], configs, links, lost),
             GaveUp(journal) \/ HostOK(task', journal[row], configs, links)
      PROVE  TaskOK(task', journal, file, configs, links, lost, planned)
  <2>1. task'.step \notin RunSteps \cup {"next_operation", "reconcile", "finish_recovery",
                                         "mark_rolling_back"}
    BY <1>6 DEF RunSteps
  <2>2. task'.rows \subseteq UnfinishedRows(journal) /\ journal[row].state = state
    BY <1>1, <1>6 DEF state
  <2> QED
    BY <1>1, <1>4, <1>6, <2>1, <2>2 DEF TaskOK
<1>7. task' \in Tasks /\ TaskOK(task', journal, file, configs, links, lost, planned) /\ StaysIn
  <2>1. CASE task' = [task EXCEPT !.rows = @ \ {row}, !.erred = TRUE]
    <3>1. /\ task' \in Tasks /\ task'.rows = task.rows \ {row} /\ task'.step = "next_operation"
          /\ task'.run = "recovery"
      BY <1>1, <2>1 DEF Tasks
    <3> QED
      BY <1>1, <3>1 DEF TaskOK, RowSteps, LoopSteps, StopSteps, StartSteps, StaysIn
  <2>2. ASSUME NEW step \in {"mark_interrupted", "roll_back"},
               task' = [taken EXCEPT !.step = step], state \in FromAt(step)
        PROVE  task' \in Tasks /\ TaskOK(task', journal, file, configs, links, lost, planned)
               /\ StaysIn
    <3>1. /\ task' \in Tasks /\ task'.rows = task.rows \ {row} /\ task'.step = step
          /\ task'.row = row /\ task'.from = state /\ task'.run = "recovery"
      BY <1>5, <2>2 DEF Tasks, Steps
    <3>2. LoopOK(task', journal[row], links) /\ FileOK(task', journal[row], file)
          /\ VerifiedOK(task', journal[row], configs, links, lost)
          /\ HostOK(task', journal[row], configs, links)
      BY <2>2, <3>1 DEF LoopOK, FileOK, VerifiedOK, HostOK, LoopSteps, StopSteps, StartSteps
    <3> QED
      BY <1>1, <1>6, <2>2, <3>1, <3>2 DEF StaysIn
  <2>3. CASE state \in {"PREPARED", "VALIDATED"} /\ task' = [taken EXCEPT !.step = "mark_interrupted"]
    BY <2>2, <2>3 DEF FromAt, LoopSteps, StopSteps, StartSteps
  <2>4. CASE state \in {"APPLYING", "VERIFYING"} /\ task' = [taken EXCEPT !.step = "roll_back"]
    BY <2>2, <2>4 DEF FromAt, LoopSteps, StopSteps, StartSteps
  <2>5. CASE /\ ~(journal[row].damage = "none" /\ state \in {"PREPARED", "VALIDATED"})
             /\ ~(journal[row].damage = "none" /\ state \in {"APPLYING", "VERIFYING"})
             /\ journal[row].damage = "none"
             /\ task' = [taken EXCEPT !.step = "stop", !.todo = Enabled(journal[row].candidate)]
    <3>1. state = "ROLLING_BACK"
      BY <1>4, <2>5 DEF TransactionStates, FinishedStates
    <3>2. Enabled(journal[row].candidate) \in SUBSET Outbounds /\ "stop" \in Steps
      BY DEF Enabled, Steps
    <3>3. /\ task' \in Tasks /\ task'.rows = task.rows \ {row} /\ task'.step = "stop"
          /\ task'.row = row /\ task'.from = "ROLLING_BACK" /\ task'.run = "recovery"
          /\ task'.todo = Enabled(journal[row].candidate)
      BY <1>5, <2>5, <3>1, <3>2 DEF Tasks
    <3>4. LoopOK(task', journal[row], links) /\ FileOK(task', journal[row], file)
          /\ VerifiedOK(task', journal[row], configs, links, lost)
      BY <3>3 DEF LoopOK, FileOK, VerifiedOK, LoopSteps, StopSteps, StartSteps, Enabled
    <3>5. GaveUp(journal) \/ HostOK(task', journal[row], configs, links)
      <4>1. TargetOf(task', journal[row]) = journal[row].snapshot
            /\ \A i : ~Same(task', journal[row], i)
        BY <3>3 DEF TargetOf, Same
      <4>2. ASSUME Untouched(journal[row], configs, links),
                   NEW i \in Outbounds \ Enabled(journal[row].candidate),
                   journal[row].snapshot[i] = None
            PROVE  configs[i] = None /\ LinkOK(None, links[i])
        BY <4>2 DEF Untouched, Enabled
      <4>3. Untouched(journal[row], configs, links) => HostOK(task', journal[row], configs, links)
        BY <3>3, <4>1, <4>2 DEF HostOK, StopSteps, StartSteps
      <4>4. GaveUp(journal) \/ Untouched(journal[row], configs, links)
        BY <1>4, <3>1 DEF IInv, RecordOK, state
      <4> QED
        BY <4>3, <4>4
    <3>6. state \in FromAt("stop")
      BY <3>1 DEF FromAt, LoopSteps, StopSteps, StartSteps
    <3> QED
      BY <1>1, <1>6, <3>1, <3>3, <3>4, <3>5, <3>6 DEF StaysIn
  <2> QED
    BY <1>2, <2>1, <2>3, <2>4, <2>5
<1> QED
  BY <1>1, <1>7, FrozenStep DEF counters

\* Recovery has dealt with what was in flight.
LEMMA JournalCheckStep == ASSUME IInv, JournalCheck PROVE IInv'
<1>1. /\ task.step = "next_operation" /\ task.rows = {} /\ task \in Tasks /\ task.run = "recovery"
      /\ UNCHANGED <<up, journal, desired, owned, links, counters, history>>
  BY DEF JournalCheck, IInv, TypeOK, TaskOK
<1>2. \/ tracker' = "failed" /\ task' = IdleTask
      \/ UnfinishedRows(journal) = {} /\ Goto("reconcile") /\ UNCHANGED tracker
  BY DEF JournalCheck, EndRecovery
<1>3. /\ task' \in Tasks /\ TaskOK(task', journal, file, configs, links, lost, planned)
      /\ ReadyOK(tracker', task'.run, journal, file, links, lost)
      /\ tracker' \in {"none", "succeeded", "failed"}
  <2>1. CASE tracker' = "failed" /\ task' = IdleTask
    BY <2>1, IdleOK DEF ReadyOK
  <2>2. CASE UnfinishedRows(journal) = {} /\ Goto("reconcile") /\ UNCHANGED tracker
    <3>1. "reconcile" \in Steps
      BY DEF Steps
    <3>2. /\ task' \in Tasks /\ task'.step = "reconcile" /\ task'.rows = {} /\ task'.run = "recovery"
      BY <1>1, <2>2, <3>1, GotoMoves
    <3>3. TaskOK(task', journal, file, configs, links, lost, planned)
      BY <2>2, <3>2 DEF TaskOK, RowSteps, LoopSteps, StopSteps, StartSteps
    <3> QED
      BY <2>2, <3>2, <3>3 DEF ReadyOK, IInv, TypeOK
  <2> QED
    BY <1>2, <2>1, <2>2
<1>4. /\ up' \in BOOLEAN /\ recoveries' \in 0..MaxRecoveries /\ lost' = lost /\ lost \in BOOLEAN
      /\ UNCHANGED <<journal, desired, owned, links, edits, faults, crashes, wipedAt, planned>>
  BY <1>1 DEF counters, history, IInv, TypeOK
<1> QED
  BY <1>3, <1>4, QuietStart

\* The run ends and the task with it.
LEMMA FinishRecoveryStep == ASSUME IInv, FinishRecovery PROVE IInv'
<1>1. /\ task.step = "finish_recovery" /\ task' = IdleTask
      /\ tracker' = "failed" \/ (tracker' = "succeeded" /\ ~task.erred)
      /\ UNCHANGED <<up, journal, desired, owned, links, counters, history>>
  BY DEF FinishRecovery, EndRecovery
<1>2. ~task.erred => lost \/ Linked(file, links)
  BY <1>1 DEF IInv, TaskOK
<1>3. ReadyOK(tracker', IdleTask.run, journal, file, links, lost)
  BY <1>1, <1>2 DEF ReadyOK
<1>4. /\ up' \in BOOLEAN /\ recoveries' \in 0..MaxRecoveries /\ lost' = lost /\ lost \in BOOLEAN
      /\ UNCHANGED <<journal, desired, owned, links, edits, faults, crashes, wipedAt, planned>>
      /\ tracker' \in {"none", "succeeded", "failed"}
  BY <1>1 DEF counters, history, IInv, TypeOK
<1> QED
  BY <1>1, <1>3, <1>4, IdleOK, QuietStart

\* The desired entries are compared with what is applied and runs.
LEMMA ReconcileStep == ASSUME IInv, Reconcile PROVE IInv'
<1>1. /\ task.step = "reconcile" /\ planned' = desired
      /\ UNCHANGED <<up, owned, links, desired, edits, recoveries, crashes, lost, wipedAt>>
  BY DEF Reconcile
<1>2. UnfinishedRows(journal) = {} /\ task.run = "recovery" /\ task.rows = {} /\ task \in Tasks
  <2>1. UnfinishedRows(journal) = {} /\ task.run = "recovery" /\ task.rows \subseteq UnfinishedRows(journal)
    BY <1>1 DEF IInv, TaskOK
  <2> QED
    BY <2>1 DEF IInv, TypeOK
<1>3. \/ Begin("reconcile") /\ UNCHANGED tracker
      \/ /\ UNCHANGED faults \/ Fault
         /\ UNCHANGED journal
         /\ \/ tracker' = "failed" /\ task' = IdleTask
            \/ file = desired /\ Verified(desired) /\ Goto("finish_recovery") /\ UNCHANGED tracker
  BY DEF Reconcile, EndRecovery
<1>4. UNCHANGED <<file, configs>>
  BY <1>1 DEF owned
<1>5. CASE Begin("reconcile") /\ UNCHANGED tracker
  BY <1>1, <1>2, <1>4, <1>5, BeginStep
<1>6. CASE /\ UNCHANGED faults \/ Fault
           /\ UNCHANGED journal
           /\ \/ tracker' = "failed" /\ task' = IdleTask
              \/ file = desired /\ Verified(desired) /\ Goto("finish_recovery") /\ UNCHANGED tracker
  <2>1. /\ task' \in Tasks /\ TaskOK(task', journal, file, configs, links, lost, desired)
        /\ ReadyOK(tracker', task'.run, journal, file, links, lost)
        /\ tracker' \in {"none", "succeeded", "failed"}
    <3>1. CASE tracker' = "failed" /\ task' = IdleTask
      BY <3>1, IdleOK DEF ReadyOK
    <3>2. CASE file = desired /\ Verified(desired) /\ Goto("finish_recovery") /\ UNCHANGED tracker
      <4>1. "finish_recovery" \in Steps
        BY DEF Steps
      <4>2. /\ task' \in Tasks /\ task'.step = "finish_recovery" /\ task'.rows = {}
            /\ task'.run = "recovery"
        BY <1>2, <3>2, <4>1, GotoMoves
      <4>3. \A i \in Outbounds : desired[i] # None => configs[i] = desired[i] /\ links[i] # None
        BY <3>2 DEF Verified, Enabled
      <4>4. TaskOK(task', journal, file, configs, links, lost, desired)
        BY <3>2, <4>2, <4>3 DEF TaskOK, RowSteps, LoopSteps, StopSteps, StartSteps, Linked
      <4> QED
        BY <3>2, <4>2, <4>4 DEF ReadyOK, IInv, TypeOK
    <3> QED
      BY <1>6, <3>1, <3>2
  <2>2. /\ file \in Documents /\ configs \in Documents /\ links \in [Outbounds -> LinkStates]
        /\ \A x \in OpenVPN : links[x] # Partial
        /\ lost \in BOOLEAN /\ planned' \in Documents /\ journal \in Seq(Entries)
        /\ wipedAt \in 0..Len(journal) /\ RecordOK(journal, file, configs, links, wipedAt)
    BY <1>1 DEF IInv, TypeOK, LinkStates
  <2> QED
    BY <1>1, <1>4, <1>6, <2>1, <2>2, TaskStep
<1> QED
  BY <1>3, <1>5, <1>6

-------------------------------------------------------------------------------
(* The environment.                                                        *)

\* The web server edits the desired entries.
LEMMA EditDesiredStep == ASSUME IInv, EditDesired PROVE IInv'
<1>1. /\ edits < MaxEdits /\ edits' = edits + 1
      /\ UNCHANGED <<up, tracker, task, journal, file, configs, links, recoveries, faults, crashes,
                     lost, wipedAt, planned>>
  BY DEF EditDesired, process, owned, history
<1>2. edits' \in 0..MaxEdits
  <2>1. edits \in 0..MaxEdits /\ MaxEdits \in Nat
    BY InterfaceAssumption DEF IInv, TypeOK
  <2> QED
    BY <1>1, <2>1
<1>3. desired' \in Documents
  BY DEF EditDesired, IInv, TypeOK, Documents
<1>4. TypeOK'
  BY <1>1, <1>2, <1>3 DEF IInv, TypeOK
<1> QED
  BY <1>1, <1>4 DEF IInv

\* The daemon dies, alone or with the host.
LEMMA DaemonStopsStep == ASSUME IInv, Crash \/ Reboot PROVE IInv'
<1>1. /\ up' = FALSE /\ tracker' = "none" /\ task' = IdleTask
      /\ crashes < MaxCrashes /\ crashes' = crashes + 1
      /\ UNCHANGED <<journal, desired, edits, recoveries, faults, lost, planned>>
      /\ \/ UNCHANGED <<file, configs, wipedAt, links>>
         \/ /\ file' = Empty /\ configs' = Empty /\ wipedAt' = Len(journal)
            /\ (~DirectorySurvives /\ UNCHANGED links) \/ links' = Empty
  BY DEF Crash, Reboot, DaemonStops, DirectoryEmptied, owned
<1>2. /\ journal \in Seq(Entries) /\ links \in [Outbounds -> Versions \cup {None, Partial}]
      /\ wipedAt \in 0..Len(journal) /\ RecordOK(journal, file, configs, links, wipedAt)
      /\ \A i \in OpenVPN : links[i] # Partial
  BY DEF IInv, TypeOK
<1>3. Empty \in Documents /\ \A i \in Outbounds : Empty[i] = None
  BY DEF Empty, Documents
<1>4. /\ links' \in [Outbounds -> Versions \cup {None, Partial}]
      /\ \A i \in OpenVPN : links'[i] # Partial
      /\ \A i \in Outbounds : links'[i] \in {links[i], None}
  <2>1. CASE links' = links
    BY <1>2, <2>1
  <2>2. CASE links' = Empty
    BY <1>3, <2>2, InterfaceAssumption DEF Documents
  <2> QED
    BY <1>1, <2>1, <2>2
<1>5. RecordOK(journal, file', configs', links', wipedAt')
  BY <1>1, <1>2, <1>4, OthersKeepRecord
<1>6. crashes' \in 0..MaxCrashes
  <2>1. crashes \in 0..MaxCrashes /\ MaxCrashes \in Nat
    BY InterfaceAssumption DEF IInv, TypeOK
  <2> QED
    BY <1>1, <2>1
<1>7. file' \in Documents /\ configs' \in Documents /\ wipedAt' \in 0..Len(journal)
  <2>1. Len(journal) \in 0..Len(journal)
    BY <1>2
  <2> QED
    BY <1>1, <1>2, <1>3, <2>1 DEF IInv, TypeOK
<1>8. TypeOK'
  BY <1>1, <1>4, <1>6, <1>7, IdleOK DEF IInv, TypeOK
<1>9. TaskOK(task', journal', file', configs', links', lost', planned')
  BY <1>1, IdleOK
<1>10. ReadyOK(tracker', task'.run, journal', file', links', lost')
  BY <1>1 DEF ReadyOK
<1> QED
  BY <1>1, <1>5, <1>8, <1>9, <1>10 DEF IInv

\* A link vanishes.
LEMMA LinkLostStep == ASSUME IInv, LinkLost PROVE IInv'
<1>1. /\ Fault /\ lost' = TRUE
      /\ UNCHANGED <<up, tracker, task, journal, desired, file, configs, edits, recoveries, crashes,
                     wipedAt, planned>>
  BY DEF LinkLost, process, owned
<1>2. PICK i \in Outbounds : links' = [links EXCEPT ![i] = None]
  BY DEF LinkLost
<1>3. /\ links \in [Outbounds -> LinkStates] /\ \A x \in OpenVPN : links[x] # Partial
      /\ file \in Documents /\ configs \in Documents /\ journal \in Seq(Entries)
      /\ wipedAt \in 0..Len(journal) /\ planned \in Documents /\ task \in Tasks
      /\ tracker \in {"none", "succeeded", "failed"}
      /\ RecordOK(journal, file, configs, links, wipedAt)
  BY DEF IInv, TypeOK, LinkStates
<1>4. /\ links' \in [Outbounds -> LinkStates] /\ \A x \in OpenVPN : links'[x] # Partial
      /\ \A x \in Outbounds : links'[x] \in {links[x], None}
  BY <1>2, <1>3, InterfaceAssumption DEF LinkStates
<1>5. RecordOK(journal, file, configs, links', wipedAt)
  BY <1>3, <1>4, OthersKeepRecord
<1>6. ASSUME task.step \in RowSteps
      PROVE  /\ LoopOK(task, journal[task.row], links')
             /\ VerifiedOK(task, journal[task.row], configs, links', TRUE)
             /\ GaveUp(journal) \/ HostOK(task, journal[task.row], configs, links')
  <2>1. \A t : \A x \in Outbounds : LinkOK(t, links[x]) => LinkOK(t, links'[x])
    BY <1>4 DEF LinkOK
  <2>2. task.step \in {"remove_config", "create_link", "configure"} =>
            First(task.todo) \in Outbounds
    <3>1. task.step \in {"remove_config", "create_link", "configure"} => task.todo # {}
      BY <1>6, RowFacts DEF LoopOK
    <3> QED
      BY <3>1, CurrentIsMember
  <2>3. LoopOK(task, journal[task.row], links')
    BY <1>4, <1>6, <2>2, RowFacts DEF LoopOK
  <2>4. VerifiedOK(task, journal[task.row], configs, links', TRUE)
    BY <1>6, RowFacts DEF VerifiedOK
  <2>5. task.todo \subseteq Outbounds
    BY <1>3 DEF Tasks
  <2>6. HostOK(task, journal[task.row], configs, links) => HostOK(task, journal[task.row], configs, links')
    BY <1>4, <2>1, <2>2, <2>5 DEF HostOK, Fits
  <2> QED
    BY <1>6, <2>3, <2>4, <2>6, RowFacts
<1>7. TaskOK(task, journal, file, configs, links', TRUE, planned)
  BY <1>6 DEF IInv, TaskOK
<1>8. ReadyOK(tracker, task.run, journal, file, links', TRUE)
  BY DEF ReadyOK
<1>9. TRUE \in BOOLEAN /\ (UNCHANGED faults \/ Fault)
  BY <1>1
<1> QED
  BY <1>1, <1>3, <1>4, <1>5, <1>7, <1>8, <1>9, TaskStep

\* A row loses its seal while the daemon is down.
LEMMA TamperStep == ASSUME IInv, NEW row \in DOMAIN journal, Tamper(row) PROVE IInv'
<1> DEFINE e == [journal[row] EXCEPT !.damage = "unreadable"]
<1>1. /\ Fault /\ journal' = [journal EXCEPT ![row] = e]
      /\ UNCHANGED <<up, tracker, task, desired, file, configs, links, edits, recoveries, crashes,
                     lost, wipedAt, planned>>
  BY DEF Tamper, process, owned, others, history
<1>2. /\ journal \in Seq(Entries) /\ journal[row] \in Entries /\ wipedAt \in 0..Len(journal)
      /\ RecordOK(journal, file, configs, links, wipedAt)
      /\ TaskOK(task, journal, file, configs, links, lost, planned)
      /\ ReadyOK(tracker, task.run, journal, file, links, lost)
  BY DEF IInv, TypeOK
<1>3. /\ e \in Entries /\ e.state = journal[row].state /\ e.detail = journal[row].detail
      /\ e.snapshot = journal[row].snapshot /\ e.candidate = journal[row].candidate
  BY <1>2 DEF Entries
<1> HIDE DEF e
<1>4. /\ journal' \in Seq(Entries) /\ DOMAIN journal' = DOMAIN journal /\ Len(journal') = Len(journal)
      /\ \A r \in DOMAIN journal : journal'[r] = IF r = row THEN e ELSE journal[r]
  BY <1>1, <1>2, <1>3
<1>5. \A r \in DOMAIN journal :
          /\ journal'[r].state = journal[r].state /\ journal'[r].detail = journal[r].detail
          /\ journal'[r].snapshot = journal[r].snapshot
          /\ journal'[r].candidate = journal[r].candidate
  BY <1>3, <1>4
<1>6. RecordOK(journal', file, configs, links, wipedAt)
  BY <1>2, <1>4, <1>5, OthersKeepRecord
<1>7. UnfinishedRows(journal') = UnfinishedRows(journal) /\ (GaveUp(journal) <=> GaveUp(journal'))
  BY <1>4, <1>5 DEF UnfinishedRows, GaveUp
<1>8. \A r \in DOMAIN journal : IsTop(journal, r) => IsTop(journal', r)
  BY <1>4, <1>5 DEF IsTop, Undoable
<1>9. ASSUME task.step \in RowSteps
      PROVE  /\ task.row \in DOMAIN journal
             /\ LoopOK(task, journal'[task.row], links) /\ FileOK(task, journal'[task.row], file)
             /\ VerifiedOK(task, journal'[task.row], configs, links, lost)
             /\ GaveUp(journal) \/ HostOK(task, journal'[task.row], configs, links)
  <2>1. task.row \in DOMAIN journal
    BY <1>9, RowFacts
  <2>2. /\ journal'[task.row].snapshot = journal[task.row].snapshot
        /\ journal'[task.row].candidate = journal[task.row].candidate
    BY <1>5, <2>1
  <2> QED
    BY <1>9, <2>1, <2>2, RowFacts, SameEntry
<1>10. "mark_rolling_back" \in RowSteps
  BY DEF RowSteps
<1>11. TaskOK(task, journal', file, configs, links, lost, planned)
  BY <1>2, <1>4, <1>5, <1>7, <1>8, <1>9, <1>10 DEF TaskOK
<1>12. ReadyOK(tracker, task.run, journal', file, links, lost)
  BY <1>2, <1>5, <1>7 DEF ReadyOK, Quiet, UnfinishedRows
<1>13. faults' \in 0..MaxFaults
  BY <1>1, FaultType
<1>14. TypeOK'
  BY <1>1, <1>2, <1>4, <1>13 DEF IInv, TypeOK
<1> QED
  BY <1>1, <1>6, <1>11, <1>12, <1>14 DEF IInv

-------------------------------------------------------------------------------
(* The invariant, and what follows from it.                                *)

\* The invariant holds before the daemon has ever run.
LEMMA IInvInit == Init => IInv
<1> SUFFICES ASSUME Init PROVE IInv
  OBVIOUS
<1>1. /\ up = FALSE /\ tracker = "none" /\ task = IdleTask /\ journal = << >>
      /\ desired = Empty /\ file = Empty /\ configs = Empty /\ links = Empty
      /\ edits = 0 /\ recoveries = 0 /\ faults = 0 /\ crashes = 0
      /\ lost = FALSE /\ wipedAt = 0 /\ planned = Empty
  BY DEF Init
<1>2. Empty \in Documents /\ \A i \in Outbounds : Empty[i] = None
  BY DEF Empty, Documents
<1>3. DOMAIN journal = {} /\ UnfinishedRows(journal) = {} /\ journal \in Seq(Entries)
      /\ Len(journal) = 0
  BY <1>1 DEF UnfinishedRows
<1>4. TypeOK
  <2>1. /\ 0 \in 0..MaxEdits /\ 0 \in 0..MaxRecoveries /\ 0 \in 0..MaxFaults /\ 0 \in 0..MaxCrashes
        /\ 0 \in 0..0
    BY InterfaceAssumption
  <2>2. links \in [Outbounds -> Versions \cup {None, Partial}] /\ \A i \in OpenVPN : links[i] # Partial
    BY <1>1, <1>2, InterfaceAssumption DEF Documents
  <2> QED
    BY <1>1, <1>2, <1>3, <2>1, <2>2, IdleOK DEF TypeOK
<1>5. TaskOK(task, journal, file, configs, links, lost, planned)
  BY <1>1, IdleOK
<1>6. Commits(journal) = {} /\ Fits(file, configs, links)
  BY <1>1, <1>2, <1>3 DEF Commits, Fits, LinkOK
<1>7. RecordOK(journal, file, configs, links, wipedAt)
  BY <1>1, <1>3, <1>6 DEF RecordOK, Expects
<1>8. ReadyOK(tracker, task.run, journal, file, links, lost)
  BY <1>1 DEF ReadyOK
<1> QED
  BY <1>4, <1>5, <1>7, <1>8 DEF IInv

\* Every step preserves the invariant.
LEMMA IInvNext == IInv /\ [Next]_vars => IInv'
<1> SUFFICES ASSUME IInv, [Next]_vars PROVE IInv'
  OBVIOUS
<1>1. CASE UNCHANGED vars
  <2>1. UNCHANGED <<up, tracker, task, journal, desired, file, configs, links, edits, recoveries,
                    faults, crashes, lost, wipedAt, planned>>
    BY <1>1 DEF vars, process, owned, counters, history
  <2> QED
    BY <2>1 DEF IInv, TypeOK
<1>2. CASE Work
  BY <1>2, ValidateStep, MarkApplyingStep, StopEntryStep, RemoveConfigStep, AllStoppedStep,
     StartEntryStep, CreateLinkStep, ConfigureLinkStep, WriteFileStep, MarkVerifyingStep,
     VerifyStep, CommitStep, MarkFailedStep, RollBackStep, VerifyRestoredStep,
     MarkRolledBackStep, MarkRollingBackStep, NextOperationStep, MarkInterruptedStep,
     JournalCheckStep, ReconcileStep, FinishRecoveryStep
  DEF Work
<1> QED
  BY <1>1, <1>2, RecoveryStartsStep, EditDesiredStep, ApplyRequestedStep, RollbackRequestedStep,
     DaemonStopsStep, LinkLostStep, TamperStep
  DEF Next

\* The invariant holds in every reachable state.
THEOREM InterfaceInvariantHolds == Spec => []IInv
  BY IInvInit, IInvNext, PTL DEF Spec

\* Every variable keeps its type: a unit is never half configured, and the directory
\* was emptied at a row the journal has.
THEOREM TypeCorrectness == Spec => []TypeOK
<1>1. IInv => TypeOK
  BY DEF IInv
<1> QED
  BY <1>1, InterfaceInvariantHolds, PTL

\* While the daemon is ready and nothing is in flight, the state file, the private
\* configurations and the links are the newest committed candidate, entry by entry
\* (Execute, Recover, RollbackCommitted, reconcileInterfaces).
THEOREM InterfacesAreSettled == Spec => []SettledInterfaces
<1>1. IInv => SettledInterfaces
  <2> DEFINE newest == IF Commits(journal) = {} THEN 0
                       ELSE CHOOSE row \in Commits(journal) :
                                \A other \in Commits(journal) : other <= row
             candidate == IF newest = 0 THEN Empty ELSE journal[newest].candidate
  <2> SUFFICES ASSUME IInv, Gate, task = IdleTask, ~Troubled
               PROVE  /\ configs = file
                      /\ lost \/ \A i \in Outbounds :
                                     links[i] = file[i] \/ (file[i] = None /\ ~DirectorySurvives)
                      /\ file = candidate \/ (newest <= wipedAt /\ file = Empty)
    BY DEF SettledInterfaces, Commits
  <2>1. Quiet(journal) /\ ~GaveUp(journal) /\ tracker = "succeeded" /\ task.run = "none"
    BY IdleOK DEF Gate, Quiet, GaveUp, Troubled
  <2>2. Fits(file, configs, links) /\ Expects(journal, Commits(journal), wipedAt, file)
    BY <2>1 DEF IInv, RecordOK
  <2>3. lost \/ Linked(file, links)
    BY <2>1 DEF IInv, ReadyOK
  <2>4. /\ file \in Documents /\ configs \in Documents /\ wipedAt \in Nat
        /\ journal \in Seq(Entries)
    <3>1. wipedAt \in 0..Len(journal) /\ journal \in Seq(Entries)
      BY DEF IInv, TypeOK
    <3>2. wipedAt \in Nat
      BY <3>1
    <3> QED
      BY <3>1, <3>2 DEF IInv, TypeOK
  <2>5. configs = file
    BY <2>2, <2>4 DEF Fits, Documents
  <2>6. lost \/ \A i \in Outbounds :
                    links[i] = file[i] \/ (file[i] = None /\ ~DirectorySurvives)
    BY <2>2, <2>3 DEF Fits, LinkOK, Linked
  <2>7. CASE Commits(journal) = {}
    <3>1. file = Empty
      BY <2>2, <2>7 DEF Expects
    <3>2. newest = 0
      BY <2>7
    <3> QED
      BY <2>5, <2>6, <3>1, <3>2
  <2>8. CASE Commits(journal) # {}
    <3>1. PICK row \in Commits(journal) :
              /\ \A other \in Commits(journal) : other <= row
              /\ file = journal[row].candidate \/ (row <= wipedAt /\ file = Empty)
      BY <2>2, <2>8 DEF Expects
    <3>2. Commits(journal) \subseteq Nat \ {0}
      BY <2>4 DEF Commits
    <3>3. newest \in Commits(journal) /\ \A other \in Commits(journal) : other <= newest
      BY <2>8, <3>1
    <3> HIDE DEF newest
    <3>4. newest = row
      BY <3>1, <3>2, <3>3
    <3>5. newest # 0
      BY <3>2, <3>3
    <3> QED
      BY <2>5, <2>6, <3>1, <3>4, <3>5
  <2> QED
    BY <2>7, <2>8
<1> QED
  BY <1>1, InterfaceInvariantHolds, PTL

-------------------------------------------------------------------------------
(* What a step may never do.                                               *)

\* The steps of the task that leave the configurations and the links alone.
LEMMA JournalSteps ==
    ASSUME \/ Validate \/ MarkApplying \/ AllStopped \/ WriteFile \/ MarkVerifying \/ Verify
           \/ Commit \/ MarkFailed \/ RollBack \/ VerifyRestored \/ MarkRolledBack
           \/ MarkRollingBack \/ NextOperation \/ MarkInterrupted \/ JournalCheck \/ Reconcile
           \/ FinishRecovery
    PROVE  UNCHANGED <<configs, links>>
<1>1. CASE Validate \/ MarkApplying \/ AllStopped \/ WriteFile \/ MarkVerifying \/ Verify
  BY <1>1 DEF Validate, MarkApplying, AllStopped, WriteFile, MarkVerifying, Verify, owned
<1>2. CASE Commit \/ MarkFailed \/ RollBack \/ VerifyRestored \/ MarkRolledBack \/ MarkRollingBack
  BY <1>2 DEF Commit, MarkFailed, RollBack, VerifyRestored, MarkRolledBack, MarkRollingBack, owned
<1>3. CASE NextOperation \/ MarkInterrupted \/ JournalCheck \/ Reconcile \/ FinishRecovery
  BY <1>3 DEF NextOperation, MarkInterrupted, JournalCheck, Reconcile, FinishRecovery, owned
<1> QED
  BY <1>1, <1>2, <1>3

\* What others do is not a step of the task, or ends the daemon, or does not touch
\* the configurations and the links.
LEMMA OtherSteps ==
    ASSUME NEW row, \/ Start \/ EditDesired \/ ApplyRequested \/ RollbackRequested
                    \/ RecoveryRequested \/ Crash \/ Reboot \/ LinkLost \/ Tamper(row)
    PROVE  task' = task \/ up' = FALSE \/ UNCHANGED <<configs, links>>
<1>1. CASE Start \/ EditDesired \/ ApplyRequested \/ RollbackRequested \/ RecoveryRequested
  BY <1>1 DEF Start, EditDesired, ApplyRequested, RollbackRequested, RecoveryRequested, owned
<1>2. CASE Crash \/ Reboot \/ LinkLost \/ Tamper(row)
  BY <1>2 DEF Crash, Reboot, DaemonStops, LinkLost, Tamper
<1> QED
  BY <1>1, <1>2

\* The loops do not touch a running entry that an apply does not change.
LEMMA LoopsSpareUnchanged ==
    ASSUME IInv, task.from # "ROLLING_BACK",
           StopEntry \/ RemoveConfig \/ StartEntry \/ CreateLink \/ ConfigureLink,
           NEW i \in Outbounds, journal[task.row].snapshot[i] = journal[task.row].candidate[i],
           links[i] \in Versions
    PROVE  links'[i] = links[i] /\ configs'[i] = configs[i]
<1>1. task.step \in LoopSteps
  BY DEF StopEntry, RemoveConfig, StartEntry, CreateLink, ConfigureLink,
         LoopSteps, StopSteps, StartSteps
<1>2. /\ task.step \in RowSteps /\ file = journal[task.row].snapshot
      /\ LoopOK(task, journal[task.row], links)
      /\ Target = journal[task.row].candidate
  BY <1>1, LoopFacts, RowFacts DEF TargetOf
<1>3. links[i] \notin {None, Partial}
  BY InterfaceAssumption
<1>4. links \in [Outbounds -> LinkStates] /\ configs \in [Outbounds -> Versions \cup {None}]
  BY DEF IInv, TypeOK, LinkStates, Documents
<1>5. CASE StopEntry
  <2>1. task.step = "stop" /\ task.todo # {}
    BY <1>5 DEF StopEntry
  <2>2. PICK c \in task.todo : c = Current
    BY <2>1, CurrentIsMember
  <2>3. c # i
    BY <1>2, <2>1, <2>2 DEF LoopOK, StopSteps
  <2>4. links' \in {links, [links EXCEPT ![c] = None]} /\ UNCHANGED configs
    BY <1>5, <2>2 DEF StopEntry, owned
  <2> QED
    BY <1>4, <2>3, <2>4
<1>6. CASE RemoveConfig
  <2>1. task.step = "remove_config" /\ task.todo # {}
    BY <1>2, <1>6 DEF RemoveConfig, LoopOK
  <2>2. PICK c \in task.todo : c = Current
    BY <2>1, CurrentIsMember
  <2>3. c # i
    BY <1>2, <2>1, <2>2 DEF LoopOK, StopSteps
  <2>4. configs' \in {configs, [configs EXCEPT ![c] = None]} /\ UNCHANGED links
    BY <1>6, <2>2 DEF RemoveConfig
  <2> QED
    BY <1>4, <2>3, <2>4
<1>7. CASE StartEntry
  <2>1. PICK c : c = Current
    OBVIOUS
  <2>2. /\ configs' = configs \/ (file[c] # Target[c] /\ configs' = [configs EXCEPT ![c] = Target[c]])
        /\ UNCHANGED links
    BY <1>7, <2>1 DEF StartEntry, Kept, Restoring
  <2>3. file[i] = Target[i]
    BY <1>2
  <2> QED
    BY <1>4, <2>2, <2>3
<1>8. CASE CreateLink
  <2>1. PICK c : c = Current
    OBVIOUS
  <2>2. /\ links' = links \/ (links[c] = None /\ links' = [links EXCEPT ![c] = Started(c)])
        /\ UNCHANGED configs
    BY <1>8, <2>1 DEF CreateLink, owned
  <2> QED
    BY <1>3, <1>4, <2>2
<1>9. CASE ConfigureLink
  <2>1. task.step = "configure" /\ task.todo # {}
    BY <1>2, <1>9 DEF ConfigureLink, LoopOK
  <2>2. PICK c \in task.todo : c = Current /\ c = First(task.todo)
    BY <2>1, CurrentIsMember
  <2>3. links[c] \in {None, Partial}
    BY <1>2, <2>1, <2>2 DEF LoopOK
  <2>4. /\ \/ links' = links
           \/ links' = [links EXCEPT ![c] = IF @ = None THEN None ELSE configs[c]]
        /\ UNCHANGED configs
    BY <1>9, <2>2 DEF ConfigureLink, owned
  <2> QED
    BY <1>3, <1>4, <2>3, <2>4
<1> QED
  BY <1>5, <1>6, <1>7, <1>8, <1>9

\* An apply that is not being rolled back leaves the running link and the
\* configuration of an entry it does not change alone (BuildPlan, apply).
THEOREM UnchangedTunnelsAreKept == Spec => UnchangedTunnelsStayUp
<1> DEFINE Spares ==
               /\ task.row # 0 /\ ~Restoring /\ task' # task /\ up'
               => \A i \in Enabled(Entry.snapshot) :
                      Entry.candidate[i] = Entry.snapshot[i] /\ links[i] \in Versions
                          => links'[i] = links[i] /\ configs'[i] = configs[i]
<1>1. IInv /\ [Next]_vars => Spares \/ UNCHANGED vars
  <2> SUFFICES ASSUME IInv, Next, ~Restoring, task' # task, up',
                      NEW i \in Enabled(Entry.snapshot),
                      Entry.candidate[i] = Entry.snapshot[i], links[i] \in Versions
               PROVE  links'[i] = links[i] /\ configs'[i] = configs[i]
    OBVIOUS
  <2>1. /\ task.from # "ROLLING_BACK" /\ i \in Outbounds
        /\ journal[task.row].snapshot[i] = journal[task.row].candidate[i]
    BY DEF Restoring, Enabled, Entry
  <2>2. CASE StopEntry \/ RemoveConfig \/ StartEntry \/ CreateLink \/ ConfigureLink
    BY <2>1, <2>2, LoopsSpareUnchanged
  <2>3. \/ StopEntry \/ RemoveConfig \/ StartEntry \/ CreateLink \/ ConfigureLink
        \/ UNCHANGED <<configs, links>>
    BY JournalSteps, OtherSteps DEF Next, Work
  <2> QED
    BY <2>2, <2>3
<1> QED
  BY <1>1, InterfaceInvariantHolds, PTL DEF Spec, UnchangedTunnelsStayUp

\* A run that succeeds ends by FinishRecovery.
LEMMA SuccessIsFinish ==
    ASSUME Next, task.step = "finish_recovery", task' = IdleTask, tracker' = "succeeded"
    PROVE  FinishRecovery
<1>1. IdleTask.step = "idle" /\ IdleTask.run = "none"
  BY IdleOK
<1>2. task' # task /\ task # IdleTask
  BY <1>1
<1>3. ~(Start \/ RecoveryRequested \/ ApplyRequested \/ RollbackRequested)
  <2>1. ~Start
    <3>1. [IdleTask EXCEPT !.run = "recovery", !.step = "next_operation",
                           !.rows = UnfinishedRows(journal)].step = "next_operation"
      BY DEF IdleTask
    <3> QED
      BY <1>1, <3>1 DEF Start, StartRecovery
  <2> QED
    BY <1>2, <2>1 DEF RecoveryRequested, ApplyRequested, RollbackRequested, Idle
<1>4. ~(EditDesired \/ LinkLost) /\ \A row : ~Tamper(row)
  BY <1>2 DEF EditDesired, LinkLost, Tamper
<1>5. ~(Crash \/ Reboot)
  BY DEF Crash, Reboot, DaemonStops
<1>6. ~(Validate \/ MarkApplying \/ StopEntry \/ RemoveConfig \/ AllStopped \/ StartEntry
        \/ CreateLink \/ ConfigureLink)
  BY DEF Validate, MarkApplying, StopEntry, RemoveConfig, AllStopped, StartEntry, CreateLink,
         ConfigureLink
<1>7. ~(WriteFile \/ MarkVerifying \/ Verify \/ Commit \/ MarkFailed \/ RollBack \/ VerifyRestored)
  BY DEF WriteFile, MarkVerifying, Verify, Commit, MarkFailed, RollBack, VerifyRestored
<1>8. ~(MarkRolledBack \/ MarkRollingBack \/ NextOperation \/ MarkInterrupted \/ JournalCheck
        \/ Reconcile)
  BY DEF MarkRolledBack, MarkRollingBack, NextOperation, MarkInterrupted, JournalCheck, Reconcile
<1> QED
  BY <1>3, <1>4, <1>5, <1>6, <1>7, <1>8 DEF Next, Work

\* When a recovery run succeeds, the desired entries, as they were when it planned,
\* are applied and run, whatever was left half done (reconcileInterfaces).
THEOREM RecoveryReconstructs == Spec => RecoveryReconstructsDesired
<1> DEFINE Reconstructs ==
               task.step = "finish_recovery" /\ task' = IdleTask /\ tracker' = "succeeded"
               => /\ file = planned
                  /\ \A i \in Enabled(planned) :
                         /\ configs[i] = planned[i]
                         /\ lost \/ links[i] = planned[i] \/ (Troubled /\ links[i] # None)
<1>1. IInv /\ [Next]_vars => Reconstructs \/ UNCHANGED vars
  <2> SUFFICES ASSUME IInv, Next, task.step = "finish_recovery", task' = IdleTask,
                      tracker' = "succeeded"
               PROVE  /\ file = planned
                      /\ \A i \in Enabled(planned) :
                             /\ configs[i] = planned[i]
                             /\ lost \/ links[i] = planned[i] \/ (Troubled /\ links[i] # None)
    OBVIOUS
  <2>1. ~task.erred /\ UnfinishedRows(journal) = {}
    BY SuccessIsFinish DEF FinishRecovery, EndRecovery
  <2>2. /\ file = planned /\ \A i \in Outbounds : planned[i] # None => configs[i] = planned[i]
        /\ lost \/ Linked(planned, links)
    BY <2>1 DEF IInv, TaskOK
  <2>3. GaveUp(journal) \/ Fits(file, configs, links)
    BY <2>1 DEF IInv, RecordOK, Quiet
  <2>4. ASSUME NEW i \in Enabled(planned)
        PROVE  /\ configs[i] = planned[i]
               /\ lost \/ links[i] = planned[i] \/ (Troubled /\ links[i] # None)
    <3>1. i \in Outbounds /\ planned[i] # None
      BY DEF Enabled
    <3>2. lost \/ links[i] # None
      BY <2>2, <3>1 DEF Linked
    <3>3. GaveUp(journal) \/ LinkOK(planned[i], links[i])
      BY <2>2, <2>3, <3>1 DEF Fits
    <3> QED
      BY <2>2, <3>1, <3>2, <3>3 DEF LinkOK, Troubled, GaveUp
  <2> QED
    BY <2>2, <2>4
<1> QED
  BY <1>1, InterfaceInvariantHolds, PTL DEF Spec, RecoveryReconstructsDesired
===============================================================================
