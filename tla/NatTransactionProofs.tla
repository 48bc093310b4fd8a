------------------------- MODULE NatTransactionProofs --------------------------
(***************************************************************************)
(* Safety of NatTransaction for every number of families, sets of          *)
(* forwards, operations, faults and crashes.                               *)
(*                                                                         *)
(* RecordOK speaks of the journal and the kernel alone and so survives the *)
(* death of the daemon: the snapshot of each commit and of the operation   *)
(* in flight is what the journal promised before it, an object without an  *)
(* operation in flight holds what is promised, and the other engine holds  *)
(* nothing for a family with one.  TaskOK says what the step that the task *)
(* has reached tells about its entry and the kernel.                       *)
(***************************************************************************)
EXTENDS NatTransaction, SequenceTheorems, TLAPS

\* What kernel n, i (as nft and ipt) holds of object o; what an object holds at first.
Held(n, i, o) == IF o[1] = "nftables" THEN n[o[2]] ELSE i[o[2]]
Nothing(o) == IF o[1] = "nftables" THEN None ELSE NoChains

\* No owned rules for the family of o in the other engine.
Alone(n, i, o) == IF o[1] = "nftables" THEN ~OwnsChains(i[o[2]]) ELSE n[o[2]] = None

\* A chain that is not there has no anchors and no rules.
TidyStates == {s \in IPTablesStates : \A c \in Chains : ~s[c].present => s[c] = NoChain}

\* What an object may hold.
ContentsOf(o) == IF o[1] = "nftables" THEN Forwards \cup {None} ELSE TidyStates

-------------------------------------------------------------------------------
(* The journal and the kernel.                                             *)

\* The operations of object o that are committed.
Commits(j, o) == {row \in DOMAIN j : j[row].state = "COMMITTED" /\ j[row].component = o}

\* The newest of rows has put content in force; nothing without any.
Expects(j, o, rows, content) ==
    \/ rows = {} /\ content = Nothing(o)
    \/ \E newest \in rows :
           /\ \A other \in rows : other <= newest
           /\ content = Rendered(o, j[newest].candidate)

\* Operations that a rollback or a recovery may still undo.
Undoable(j, row) == row \in DOMAIN j /\ (j[row].state = "COMMITTED" \/ j[row].state \notin FinishedStates)

\* No other operation is in flight, and what is committed is older.
IsTop(j, row) ==
    \A other \in DOMAIN j \ {row} : Undoable(j, other) => j[other].state = "COMMITTED" /\ other < row

GaveUp(j) == \E row \in DOMAIN j : j[row].detail = "rollback_failed"

EntriesOK(j) ==
    \A row \in DOMAIN j :
        /\ j[row].snapshot \in ContentsOf(j[row].component)
        /\ j[row].detail = "rollback_failed" => j[row].state = "FAILED"

\* Object o, which nobody else has changed, is as the journal says.
Promised(j, n, i, o) ==
    /\ \A row \in DOMAIN j : Undoable(j, row) /\ j[row].component = o =>
           Expects(j, o, {r \in Commits(j, o) : r < row}, j[row].snapshot)
    /\ \A row \in UnfinishedRows(j) :
           j[row].component = o /\ j[row].state \in {"PREPARED", "VALIDATED"} =>
               Held(n, i, o) = j[row].snapshot
    /\ (\A row \in UnfinishedRows(j) : j[row].component # o) =>
           Expects(j, o, Commits(j, o), Held(n, i, o))

NftablesUsed(j, n, inst) ==
    "nftables" \in inst \/ ( /\ \A row \in DOMAIN j : j[row].component[1] # "nftables"
                             /\ \A f \in Families : n[f] = None)

RecordOK(j, n, i, inst, w, m) ==
    /\ EntriesOK(j)
    /\ \A row \in UnfinishedRows(j) : IsTop(j, row) /\ (m \/ Alone(n, i, j[row].component))
    /\ GaveUp(j) \/ \A o \in Objects \ w : Promised(j, n, i, o)
    /\ NftablesUsed(j, n, inst)
    /\ m \/ \A f \in Families : n[f] = None \/ ~OwnsChains(i[f])

-------------------------------------------------------------------------------
(* The task.                                                               *)

\* Steps that work on the entry task.row.
RowSteps ==
    {"validate", "mark_not_applied", "mark_applying", "install", "mark_verifying", "verify",
     "commit", "roll_back", "mark_rolling_back", "restore", "write", "mark_rolled_back",
     "mark_failed"}

\* The state a step leaves from; a failed statement may have left it already.
FromAt(step) ==
    CASE step = "validate"                      -> {"PREPARED"}
      [] step = "mark_not_applied"              -> {"PREPARED", "VALIDATED"}
      [] step = "mark_applying"                 -> {"VALIDATED"}
      [] step \in {"install", "mark_verifying"} -> {"APPLYING"}
      [] step \in {"verify", "commit"}          -> {"VERIFYING"}
      [] step = "roll_back"                     -> {"APPLYING", "VERIFYING"}
      [] step = "mark_rolling_back"             -> {"COMMITTED"}
      [] OTHER                                  -> {"ROLLING_BACK"}

\* The tables that the next command still has to commit.
Remaining(t) == IF t.step \in {"install", "write"} THEN t.todo ELSE Tables

\* Chain c is filled with forwards, anchored or not.
FilledChain(s, c, forwards) == s[c].present /\ s[c].rules = forwards

KernelAt(t, e, n, i, d) ==
    LET o == e.component
        f == o[2]
    IN  /\ t.step \in {"validate", "mark_applying", "install"} /\ o[1] = "iptables" =>
               \A c \in Chains :
                   IF TableOf[c] \in Remaining(t) THEN i[f][c].anchors <= e.snapshot[c].anchors
                   ELSE FilledChain(i[f], c, e.candidate)
        /\ t.step \in {"mark_verifying", "verify"} =>
               IF o[1] = "nftables" THEN n[f] \in {e.candidate, None}
               ELSE \A c \in Chains : FilledChain(i[f], c, e.candidate)
        /\ t.step = "commit" => o \in d \/ Held(n, i, o) = Rendered(o, e.candidate)
        /\ t.step = "write" =>
               /\ t.seen \in ContentsOf(o)
               /\ o[1] = "iptables" => \A c \in Chains :
                      IF TableOf[c] \in Remaining(t)
                      THEN i[f][c].anchors <= t.seen[c].anchors /\ (o \in d \/ i[f][c] = t.seen[c])
                      ELSE o \in d \/ i[f][c] = e.snapshot[c]
        /\ t.step = "mark_rolled_back" => o \in d \/ Held(n, i, o) = e.snapshot

TaskOK(t, j, n, i, inst, d, m) ==
    /\ t.rows \subseteq UnfinishedRows(j)
    /\ t.step = "create" =>
           /\ t.plan \in Plans /\ UnfinishedRows(j) = {} /\ t.from = "PREPARED"
           /\ m \/ Alone(n, i, t.plan.object)
           /\ t.plan.object[1] = "nftables" => "nftables" \in inst
    /\ t.step \in RowSteps =>
           /\ t.row \in DOMAIN j \ t.rows
           /\ t.from \in FromAt(t.step)
           /\ t.step \notin {"mark_not_applied", "roll_back"} => j[t.row].state = t.from
           /\ KernelAt(t, j[t.row], n, i, d)
    /\ t.step \in {"install", "write"} => t.todo \in {Tables, {"filter"}}
    /\ t.step = "mark_rolling_back" =>
           /\ UnfinishedRows(j) = {} /\ IsTop(j, t.row) /\ (m \/ Alone(n, i, j[t.row].component))

NInv ==
    /\ TypeOK
    /\ disturbed \subseteq wiped
    /\ ipt \in [Families -> TidyStates]
    /\ "iptables" \in installed
    /\ RecordOK(journal, nft, ipt, installed, wiped, misprobed)
    /\ TaskOK(task, journal, nft, ipt, installed, disturbed, misprobed)

-------------------------------------------------------------------------------
(* The files for iptables-restore.                                         *)

\* A chain of a tidy state.
LEMMA ChainOfState ==
    ASSUME NEW s \in TidyStates, NEW c \in Chains
    PROVE  /\ s[c] \in Chain /\ s[c].present \in BOOLEAN /\ s[c].anchors \in {0, 1}
           /\ s[c].rules \in Forwards \cup {None}
           /\ ~s[c].present => s[c] = NoChain /\ s[c].anchors = 0
<1>1. s[c] \in Chain
  BY DEF TidyStates, IPTablesStates
<1>2. s[c].anchors \in 0..1 /\ s[c].present \in BOOLEAN /\ s[c].rules \in Forwards \cup {None}
  BY <1>1 DEF Chain
<1>3. ~s[c].present => s[c] = NoChain
  BY DEF TidyStates
<1>4. NoChain.anchors = 0
  BY DEF NoChain
<1> QED
  BY <1>1, <1>2, <1>3, <1>4

\* A state made of chains, where the absent ones are empty.
LEMMA TidyState ==
    ASSUME NEW s, s = [c \in Chains |-> s[c]],
           \A c \in Chains : s[c] \in Chain /\ (~s[c].present => s[c] = NoChain)
    PROVE  s \in TidyStates
<1>1. s \in [Chains -> Chain]
  OBVIOUS
<1> QED
  BY <1>1 DEF TidyStates, IPTablesStates

LEMMA NoChainsTidy == NoChains \in TidyStates /\ ~OwnsChains(NoChains)
<1>1. NoChain \in Chain /\ NoChain.present = FALSE
  BY DEF NoChain, Chain
<1>2. NoChains = [c \in Chains |-> NoChains[c]] /\ \A c \in Chains : NoChains[c] = NoChain
  BY DEF NoChains
<1> QED
  BY <1>1, <1>2, TidyState DEF OwnsChains

\* One chain of a table that is committed.
CommittedChain(chain, line) ==
    IF line.chain = "keep" /\ line.anchor = "keep" THEN chain
    ELSE IF line.chain = "drop" THEN NoChain
    ELSE [present |-> TRUE,
          anchors |-> CASE line.anchor = "keep"   -> chain.anchors
                        [] line.anchor = "insert" -> chain.anchors + 1
                        [] line.anchor = "delete" -> chain.anchors - 1,
          rules |-> IF line.chain = "fill" THEN line.rules ELSE chain.rules]

\* Committing a table touches its own chains only.
LEMMA CommittedChains ==
    ASSUME NEW s, NEW table, NEW file
    PROVE  LET t == Committed(s, table, file)
           IN  /\ t = [c \in Chains |-> t[c]]
               /\ \A c \in Chains :
                      t[c] = IF TableOf[c] = table THEN CommittedChain(s[c], file[c]) ELSE s[c]
<1> DEFINE t == Committed(s, table, file)
<1>1. \A c \in Chains :
          t[c] = IF TableOf[c] = table THEN CommittedChain(s[c], file[c]) ELSE s[c]
  BY DEF Committed, CommittedChain
<1>2. t = [c \in Chains |-> t[c]]
  BY DEF Committed
<1> QED
  BY <1>1, <1>2

\* A chain filled with rules and anchored so many times.
LEMMA FilledChainType ==
    ASSUME NEW chain, NEW anchors \in {0, 1}, NEW rules \in Forwards \cup {None},
           chain = [present |-> TRUE, anchors |-> anchors, rules |-> rules]
    PROVE  /\ chain \in Chain /\ chain.present = TRUE /\ chain.rules = rules
           /\ chain.anchors = anchors
<1>1. anchors \in 0..1 /\ TRUE \in BOOLEAN
  OBVIOUS
<1> QED
  BY <1>1 DEF Chain

\* The file of a candidate fills the chains of its tables, whether or not someone
\* removed anchors since the file was made (renderIPTables).
InstalledBy(t, s, table, forwards) ==
    /\ t \in TidyStates
    /\ \A c \in Chains : TableOf[c] = table => FilledChain(t, c, forwards)
    /\ \A c \in Chains : TableOf[c] # table => t[c] = s[c]

LEMMA CandidateIsInstalled ==
    ASSUME NEW s \in TidyStates, NEW base \in TidyStates, NEW forwards \in Forwards,
           NEW table,
           \A c \in Chains : TableOf[c] = table => s[c].anchors <= base[c].anchors
    PROVE  InstalledBy(Committed(s, table, CandidateFile(forwards, base)), s, table, forwards)
<1> DEFINE file == CandidateFile(forwards, base)
           t == Committed(s, table, file)
<1>1. /\ t = [c \in Chains |-> t[c]]
      /\ \A c \in Chains : t[c] = IF TableOf[c] = table THEN CommittedChain(s[c], file[c]) ELSE s[c]
  BY CommittedChains
<1>2. ASSUME NEW c \in Chains, TableOf[c] = table
      PROVE  t[c] \in Chain /\ t[c].present /\ t[c].rules = forwards
  <2>1. /\ file[c].chain = "fill" /\ file[c].rules = forwards
        /\ file[c].anchor = IF base[c].anchors > 0 THEN "keep" ELSE "insert"
    BY DEF CandidateFile
  <2>2. s[c].anchors \in {0, 1} /\ base[c].anchors \in {0, 1} /\ s[c].anchors <= base[c].anchors
    BY <1>2, ChainOfState
  <2>3. t[c] = CommittedChain(s[c], file[c])
    BY <1>1, <1>2
  <2>4. \E anchors \in {0, 1} :
            t[c] = [present |-> TRUE, anchors |-> anchors, rules |-> forwards]
    <3> HIDE DEF t, file
    <3>1. CASE base[c].anchors > 0
      <4>1. t[c] = [present |-> TRUE, anchors |-> s[c].anchors, rules |-> forwards]
        BY <2>1, <2>3, <3>1 DEF CommittedChain
      <4> QED
        BY <4>1, <2>2
    <3>2. CASE ~(base[c].anchors > 0)
      <4>1. t[c] = [present |-> TRUE, anchors |-> s[c].anchors + 1, rules |-> forwards]
        BY <2>1, <2>3, <3>2 DEF CommittedChain
      <4>2. s[c].anchors + 1 \in {0, 1}
        BY <2>2, <3>2
      <4> QED
        BY <4>1, <4>2
    <3> QED
      BY <3>1, <3>2
  <2> HIDE DEF t
  <2>5. PICK anchors \in {0, 1} :
            t[c] = [present |-> TRUE, anchors |-> anchors, rules |-> forwards]
    BY <2>4
  <2>6. t[c] \in Chain /\ t[c].present = TRUE /\ t[c].rules = forwards
    <3>1. forwards \in Forwards \cup {None} /\ anchors \in 0..1
      OBVIOUS
    <3> QED
      BY <2>5, <3>1 DEF Chain
  <2> QED
    BY <2>6
<1>3. ASSUME NEW c \in Chains, TableOf[c] # table
      PROVE  t[c] = s[c]
  BY <1>1, <1>3
<1> HIDE DEF t
<1>4. \A c \in Chains : t[c] \in Chain /\ (~t[c].present => t[c] = NoChain)
  <2> SUFFICES ASSUME NEW c \in Chains
               PROVE  t[c] \in Chain /\ (~t[c].present => t[c] = NoChain)
    OBVIOUS
  <2>1. CASE TableOf[c] = table
    BY <1>2, <2>1
  <2>2. CASE TableOf[c] # table
    BY <1>3, <2>2, ChainOfState
  <2> QED
    BY <2>1, <2>2
<1>5. t \in TidyStates
  BY <1>1, <1>4, TidyState
<1> QED
  BY <1>2, <1>3, <1>5 DEF FilledChain, InstalledBy, t

\* The file of a restore brings a chain that is as it was seen back to its snapshot,
\* and fits the others too (BuildIPTablesRollback).
RestoredBy(t, s, table, previous, seen) ==
    /\ t \in TidyStates
    /\ \A c \in Chains : TableOf[c] = table /\ s[c] = seen[c] => t[c] = previous[c]
    /\ \A c \in Chains : TableOf[c] # table => t[c] = s[c]

LEMMA SnapshotIsRestored ==
    ASSUME NEW s \in TidyStates, NEW previous \in TidyStates, NEW seen \in TidyStates,
           NEW table, AcceptsTable(s, table, RestoreFile(previous, seen)),
           \A c \in Chains : TableOf[c] = table => s[c].anchors <= seen[c].anchors
    PROVE  RestoredBy(Committed(s, table, RestoreFile(previous, seen)), s, table, previous, seen)
<1> DEFINE file == RestoreFile(previous, seen)
           t == Committed(s, table, file)
<1>1. /\ t = [c \in Chains |-> t[c]]
      /\ \A c \in Chains : t[c] = IF TableOf[c] = table THEN CommittedChain(s[c], file[c]) ELSE s[c]
  BY CommittedChains
<1>2. ASSUME NEW c \in Chains, TableOf[c] = table
      PROVE  /\ t[c] \in Chain /\ (~t[c].present => t[c] = NoChain)
             /\ s[c] = seen[c] => t[c] = previous[c]
  <2>1. /\ file[c].anchor = (IF seen[c].anchors > previous[c].anchors THEN "delete"
                             ELSE IF previous[c].anchors > seen[c].anchors THEN "insert"
                             ELSE "keep")
        /\ file[c].chain = (IF previous[c].present THEN "fill"
                            ELSE IF seen[c].present THEN "drop" ELSE "keep")
        /\ file[c].rules = previous[c].rules
    BY DEF RestoreFile
  <2>2. file[c].anchor = "delete" => s[c].anchors > 0
    BY <1>2 DEF AcceptsTable
  <2>3. t[c] = CommittedChain(s[c], file[c])
    BY <1>1, <1>2
  <2>4. /\ s[c] \in Chain /\ s[c].anchors \in {0, 1} /\ seen[c].anchors \in {0, 1}
        /\ previous[c].anchors \in {0, 1} /\ previous[c].rules \in Forwards \cup {None}
        /\ s[c].anchors <= seen[c].anchors /\ previous[c] \in Chain
        /\ ~s[c].present => s[c] = NoChain
    BY <1>2, ChainOfState
  <2> HIDE DEF t, file
  <2>5. CASE previous[c].present
    <3>1. previous[c] = [present |-> TRUE, anchors |-> previous[c].anchors, rules |-> previous[c].rules]
      BY <2>4, <2>5 DEF Chain
    <3>2. PICK anchors \in {0, 1} :
              /\ t[c] = [present |-> TRUE, anchors |-> anchors, rules |-> previous[c].rules]
              /\ s[c] = seen[c] => anchors = previous[c].anchors
      <4>1. CASE seen[c].anchors > previous[c].anchors
        <5>1. t[c] = [present |-> TRUE, anchors |-> s[c].anchors - 1, rules |-> previous[c].rules]
          BY <2>1, <2>3, <2>5, <4>1 DEF CommittedChain
        <5>2. s[c].anchors - 1 \in {0, 1} /\ (s[c] = seen[c] => s[c].anchors - 1 = previous[c].anchors)
          BY <2>1, <2>2, <2>4, <4>1
        <5> QED
          BY <5>1, <5>2
      <4>2. CASE previous[c].anchors > seen[c].anchors
        <5>1. t[c] = [present |-> TRUE, anchors |-> s[c].anchors + 1, rules |-> previous[c].rules]
          <6>1. ~(seen[c].anchors > previous[c].anchors)
            BY <2>4, <4>2
          <6> QED
            BY <2>1, <2>3, <2>5, <4>2, <6>1 DEF CommittedChain
        <5>2. s[c].anchors + 1 \in {0, 1} /\ s[c].anchors + 1 = previous[c].anchors
          BY <2>4, <4>2
        <5> QED
          BY <5>1, <5>2
      <4>3. CASE ~(seen[c].anchors > previous[c].anchors) /\ ~(previous[c].anchors > seen[c].anchors)
        <5>1. t[c] = [present |-> TRUE, anchors |-> s[c].anchors, rules |-> previous[c].rules]
          BY <2>1, <2>3, <2>5, <4>3 DEF CommittedChain
        <5>2. s[c] = seen[c] => s[c].anchors = previous[c].anchors
          BY <2>4, <4>3
        <5> QED
          BY <2>4, <5>1, <5>2
      <4> QED
        BY <4>1, <4>2, <4>3
    <3>3. t[c] \in Chain /\ t[c].present = TRUE
      BY <2>4, <3>2, FilledChainType
    <3> QED
      BY <3>1, <3>2, <3>3
  <2>6. CASE ~previous[c].present /\ seen[c].present
    <3>1. t[c] = NoChain
      BY <2>1, <2>3, <2>6 DEF CommittedChain
    <3>2. previous[c] = NoChain /\ NoChain \in Chain
      BY <2>6, ChainOfState DEF NoChain, Chain
    <3> QED
      BY <3>1, <3>2
  <2>7. CASE ~previous[c].present /\ ~seen[c].present
    <3>1. previous[c] = NoChain /\ seen[c] = NoChain /\ previous[c].anchors = 0 /\ seen[c].anchors = 0
      BY <2>7, ChainOfState
    <3>2. file[c].anchor = "keep" /\ file[c].chain = "keep"
      BY <2>1, <2>7, <3>1
    <3>3. t[c] = s[c]
      BY <2>3, <3>2 DEF CommittedChain
    <3> QED
      BY <2>4, <3>1, <3>3
  <2> QED
    BY <2>5, <2>6, <2>7
<1>3. ASSUME NEW c \in Chains, TableOf[c] # table
      PROVE  t[c] = s[c]
  BY <1>1, <1>3
<1> HIDE DEF t
<1>4. \A c \in Chains : t[c] \in Chain /\ (~t[c].present => t[c] = NoChain)
  <2> SUFFICES ASSUME NEW c \in Chains
               PROVE  t[c] \in Chain /\ (~t[c].present => t[c] = NoChain)
    OBVIOUS
  <2>1. CASE TableOf[c] = table
    BY <1>2, <2>1
  <2>2. CASE TableOf[c] # table
    BY <1>3, <2>2, ChainOfState
  <2> QED
    BY <2>1, <2>2
<1>5. t \in TidyStates
  BY <1>1, <1>4, TidyState
<1> QED
  BY <1>2, <1>3, <1>5 DEF RestoredBy, t

-------------------------------------------------------------------------------
(* What the steps do to the record.                                        *)

\* An entry moves to another state and keeps everything else.
Moves(j, k, row, to, detail) ==
    /\ DOMAIN k = DOMAIN j /\ row \in DOMAIN j
    /\ k[row].state = to /\ k[row].detail = detail
    /\ k[row].component = j[row].component /\ k[row].snapshot = j[row].snapshot
    /\ k[row].candidate = j[row].candidate
    /\ \A r \in DOMAIN j \ {row} : k[r] = j[r]

\* What is in force depends on the candidates of commits only.
LEMMA SameExpectations ==
    ASSUME NEW j, NEW k, NEW o, NEW rows, NEW content,
           \A r \in rows : k[r].candidate = j[r].candidate,
           Expects(j, o, rows, content)
    PROVE  Expects(k, o, rows, content)
  BY DEF Expects

\* A move of the top operation keeps the record, given what the kernel holds then.
LEMMA MoveKeepsRecord ==
    ASSUME NEW j \in Seq(Entries), NEW k, NEW row \in DOMAIN j, NEW to \in TransactionStates,
           NEW detail, NEW n, NEW i, NEW inst, NEW w, NEW m,
           RecordOK(j, n, i, inst, w, m), Moves(j, k, row, to, detail),
           Undoable(j, row), IsTop(j, row),
           detail = "rollback_failed" => to = "FAILED",
           to \notin FinishedStates => m \/ Alone(n, i, j[row].component),
           to \in {"PREPARED", "VALIDATED", "FAILED", "ROLLED_BACK"} /\ detail # "rollback_failed" =>
               \/ j[row].component \in w \/ GaveUp(j)
               \/ Held(n, i, j[row].component) = j[row].snapshot,
           to = "COMMITTED" =>
               \/ j[row].component \in w
               \/ Held(n, i, j[row].component) = Rendered(j[row].component, j[row].candidate)
    PROVE  RecordOK(k, n, i, inst, w, m)
<1> DEFINE o == j[row].component
<1>1. /\ DOMAIN k = DOMAIN j
      /\ \A r \in DOMAIN j : /\ k[r].component = j[r].component /\ k[r].snapshot = j[r].snapshot
                             /\ k[r].candidate = j[r].candidate
      /\ \A r \in DOMAIN j \ {row} : k[r] = j[r]
      /\ k[row].state = to /\ k[row].detail = detail
  BY DEF Moves
<1>2. EntriesOK(k)
  BY <1>1 DEF RecordOK, EntriesOK
<1>3. /\ UnfinishedRows(k) \subseteq {row}
      /\ \A r \in DOMAIN j : Undoable(k, r) => r = row \/ (j[r].state = "COMMITTED" /\ r < row)
  <2>1. \A r \in DOMAIN j \ {row} : Undoable(k, r) => j[r].state = "COMMITTED" /\ r < row
    BY <1>1 DEF Undoable, IsTop
  <2>2. \A r \in UnfinishedRows(k) : r = row
    BY <1>1, <2>1 DEF Undoable, UnfinishedRows, FinishedStates
  <2> QED
    BY <2>1, <2>2
<1>4. IsTop(k, row)
  BY <1>1, <1>3 DEF IsTop
<1>5. \A r \in UnfinishedRows(k) : IsTop(k, r) /\ (m \/ Alone(n, i, k[r].component))
  BY <1>1, <1>3, <1>4 DEF UnfinishedRows
<1>6. NftablesUsed(k, n, inst)
  BY <1>1 DEF RecordOK, NftablesUsed
<1>7. GaveUp(k) \/ \A p \in Objects \ w : Promised(k, n, i, p)
  <2> SUFFICES ASSUME ~GaveUp(k), NEW p \in Objects, p \notin w
               PROVE  Promised(k, n, i, p)
    OBVIOUS
  <2>1. detail # "rollback_failed" /\ ~GaveUp(j)
    <3>1. detail # "rollback_failed"
      BY <1>1 DEF GaveUp
    <3>2. j[row].detail # "rollback_failed"
      BY DEF RecordOK, EntriesOK, Undoable, FinishedStates
    <3> QED
      BY <1>1, <3>1, <3>2 DEF GaveUp
  <2>2. Promised(j, n, i, p)
    BY <2>1 DEF RecordOK
  <2>3. \A c, rows : rows \subseteq DOMAIN j /\ Expects(j, p, rows, c) => Expects(k, p, rows, c)
    BY <1>1, SameExpectations
  <2>4. row \in Nat /\ DOMAIN j \subseteq Nat
    OBVIOUS
  <2>5. \A r \in DOMAIN j : r < row \/ r = row =>
            {x \in Commits(k, p) : x < r} = {x \in Commits(j, p) : x < r}
    BY <1>1, <2>4 DEF Commits
  <2>6. CASE p # o
    <3>1. Commits(k, p) = Commits(j, p)
      BY <1>1, <2>6 DEF Commits
    <3>2. \A r \in DOMAIN j : Undoable(k, r) /\ k[r].component = p =>
              Undoable(j, r) /\ j[r].component = p /\ r # row
      BY <1>1, <1>3, <2>6 DEF Undoable
    <3>3. \A r \in DOMAIN k : Undoable(k, r) /\ k[r].component = p =>
              Expects(k, p, {x \in Commits(k, p) : x < r}, k[r].snapshot)
      <4> SUFFICES ASSUME NEW r \in DOMAIN j, Undoable(k, r), k[r].component = p
                   PROVE  Expects(k, p, {x \in Commits(k, p) : x < r}, k[r].snapshot)
        BY <1>1
      <4>1. Expects(j, p, {x \in Commits(j, p) : x < r}, j[r].snapshot)
        BY <2>2, <3>2 DEF Promised
      <4>2. {x \in Commits(j, p) : x < r} \subseteq DOMAIN j
        BY DEF Commits
      <4> QED
        BY <1>1, <2>3, <3>1, <4>1, <4>2
    <3>4. \A r \in UnfinishedRows(k) : k[r].component # p
      BY <1>1, <1>3, <2>6 DEF UnfinishedRows
    <3>5. Expects(k, p, Commits(k, p), Held(n, i, p))
      <4>1. \A r \in UnfinishedRows(j) : j[r].component # p
        BY <2>6 DEF UnfinishedRows, Undoable, IsTop, FinishedStates
      <4>2. Expects(j, p, Commits(j, p), Held(n, i, p))
        BY <2>2, <4>1 DEF Promised
      <4>3. Commits(j, p) \subseteq DOMAIN j
        BY DEF Commits
      <4> QED
        BY <2>3, <3>1, <4>2, <4>3
    <3> QED
      BY <3>3, <3>4, <3>5 DEF Promised
  <2>7. CASE p = o
    <3>1. \A r \in DOMAIN k : Undoable(k, r) /\ k[r].component = p =>
              Expects(k, p, {x \in Commits(k, p) : x < r}, k[r].snapshot)
      <4> SUFFICES ASSUME NEW r \in DOMAIN j, Undoable(k, r), k[r].component = p
                   PROVE  Expects(k, p, {x \in Commits(k, p) : x < r}, k[r].snapshot)
        BY <1>1
      <4>1. r = row \/ (j[r].state = "COMMITTED" /\ r < row)
        BY <1>3
      <4>2. Undoable(j, r) /\ j[r].component = p
        BY <1>1, <4>1 DEF Undoable
      <4>3. Expects(j, p, {x \in Commits(j, p) : x < r}, j[r].snapshot)
        BY <2>2, <4>2 DEF Promised
      <4>4. {x \in Commits(j, p) : x < r} \subseteq DOMAIN j
        BY DEF Commits
      <4> QED
        BY <1>1, <2>3, <2>5, <4>1, <4>3, <4>4
    <3>2. \A r \in UnfinishedRows(k) :
              k[r].component = p /\ k[r].state \in {"PREPARED", "VALIDATED"} =>
                  Held(n, i, p) = k[r].snapshot
      BY <1>1, <1>3, <2>1, <2>7
    <3>3. ASSUME \A r \in UnfinishedRows(k) : k[r].component # p
          PROVE  Expects(k, p, Commits(k, p), Held(n, i, p))
      <4>1. to \in FinishedStates
        BY <1>1, <2>7, <3>3 DEF UnfinishedRows
      <4>2. CASE to = "COMMITTED"
        <5>1. Held(n, i, p) = Rendered(p, k[row].candidate)
          BY <1>1, <2>7, <4>2
        <5>2. \A x \in Commits(k, p) : x <= row
          BY <1>1, <1>3, <2>4 DEF Commits, Undoable
        <5>3. row \in Commits(k, p)
          BY <1>1, <2>7, <4>2 DEF Commits
        <5> QED
          BY <5>1, <5>2, <5>3 DEF Expects
      <4>3. CASE to # "COMMITTED"
        <5>1. Held(n, i, p) = j[row].snapshot
          BY <2>1, <2>7, <4>1, <4>3 DEF FinishedStates
        <5>2. Commits(k, p) = {x \in Commits(j, p) : x < row}
          <6>1. \A x \in Commits(k, p) : x \in Commits(j, p) /\ x < row
            BY <1>1, <1>3, <4>3 DEF Commits, Undoable
          <6>2. \A x \in Commits(j, p) : x < row => x \in Commits(k, p)
            BY <1>1, <2>4 DEF Commits
          <6> QED
            BY <6>1, <6>2
        <5>3. Expects(j, p, {x \in Commits(j, p) : x < row}, j[row].snapshot)
          BY <2>2, <2>7 DEF Promised
        <5>4. {x \in Commits(j, p) : x < row} \subseteq DOMAIN j
          BY DEF Commits
        <5> QED
          BY <2>3, <5>1, <5>2, <5>3, <5>4
      <4> QED
        BY <4>2, <4>3
    <3> QED
      BY <3>1, <3>2, <3>3 DEF Promised
  <2> QED
    BY <2>6, <2>7
<1> QED
  BY <1>2, <1>5, <1>6, <1>7 DEF RecordOK

\* A new operation whose snapshot is what the kernel holds keeps the record.
LEMMA CreationKeepsRecord ==
    ASSUME NEW j \in Seq(Entries), NEW e \in Entries, NEW n, NEW i, NEW inst, NEW w, NEW m,
           RecordOK(j, n, i, inst, w, m), UnfinishedRows(j) = {},
           e.state = "PREPARED", e.detail = "none",
           e.snapshot = Held(n, i, e.component), e.snapshot \in ContentsOf(e.component),
           m \/ Alone(n, i, e.component),
           e.component[1] = "nftables" => "nftables" \in inst
    PROVE  RecordOK(Append(j, e), n, i, inst, w, m)
<1> DEFINE k == Append(j, e)
           top == Len(j) + 1
<1>1. /\ DOMAIN k = DOMAIN j \cup {top} /\ k[top] = e /\ top \in Nat
      /\ \A r \in DOMAIN j : k[r] = j[r] /\ r < top /\ r \in Nat
  <2>1. Len(j) \in Nat /\ DOMAIN j = 1..Len(j) /\ DOMAIN k = 1..(Len(j) + 1)
    BY AppendProperties
  <2>2. k[top] = e /\ \A r \in 1..Len(j) : k[r] = j[r]
    BY AppendProperties
  <2> QED
    BY <2>1, <2>2
<1> HIDE DEF k, top
<1>2. EntriesOK(k)
  BY <1>1 DEF RecordOK, EntriesOK
<1>3. UnfinishedRows(k) = {top} /\ \A r \in DOMAIN j : ~(r \in UnfinishedRows(k))
  BY <1>1 DEF UnfinishedRows, FinishedStates
<1>4. IsTop(k, top)
  BY <1>1, <1>3 DEF IsTop, Undoable, UnfinishedRows
<1>5. NftablesUsed(k, n, inst)
  BY <1>1 DEF RecordOK, NftablesUsed
<1>6. GaveUp(k) \/ \A p \in Objects \ w : Promised(k, n, i, p)
  <2> SUFFICES ASSUME ~GaveUp(k), NEW p \in Objects, p \notin w
               PROVE  Promised(k, n, i, p)
    OBVIOUS
  <2>1. Promised(j, n, i, p)
    <3>1. ~GaveUp(j)
      BY <1>1 DEF GaveUp
    <3> QED
      BY <3>1 DEF RecordOK
  <2>2. Commits(k, p) = Commits(j, p) /\ Commits(j, p) \subseteq DOMAIN j
    BY <1>1 DEF Commits
  <2>3. Expects(k, p, Commits(k, p), Held(n, i, p))
    <3>1. Expects(j, p, Commits(j, p), Held(n, i, p))
      BY <2>1 DEF Promised
    <3> QED
      BY <1>1, <2>2, <3>1, SameExpectations
  <2>4. ASSUME NEW r \in DOMAIN k, Undoable(k, r), k[r].component = p
        PROVE  Expects(k, p, {x \in Commits(k, p) : x < r}, k[r].snapshot)
    <3>1. CASE r = top
      <4>1. {x \in Commits(k, p) : x < r} = Commits(k, p)
        BY <1>1, <2>2, <3>1
      <4>2. k[r].snapshot = Held(n, i, p)
        BY <1>1, <2>4, <3>1
      <4> QED
        BY <2>3, <4>1, <4>2
    <3>2. CASE r # top
      <4>1. r \in DOMAIN j /\ Undoable(j, r) /\ j[r].component = p
        BY <1>1, <2>4, <3>2 DEF Undoable
      <4>2. Expects(j, p, {x \in Commits(j, p) : x < r}, j[r].snapshot)
        BY <2>1, <4>1 DEF Promised
      <4>3. \A x \in {x \in Commits(j, p) : x < r} : k[x].candidate = j[x].candidate
        BY <1>1, <2>2
      <4>4. Expects(k, p, {x \in Commits(j, p) : x < r}, j[r].snapshot)
        BY <4>2, <4>3, SameExpectations
      <4> QED
        BY <1>1, <2>2, <4>1, <4>4
    <3> QED
      BY <3>1, <3>2
  <2>5. \A r \in UnfinishedRows(k) : k[r].component = p => Held(n, i, p) = k[r].snapshot
    BY <1>1, <1>3
  <2> QED
    BY <2>3, <2>4, <2>5 DEF Promised
<1>7. RecordOK(k, n, i, inst, w, m)
  BY <1>1, <1>2, <1>3, <1>4, <1>5, <1>6 DEF RecordOK
<1> QED
  BY <1>7 DEF k

\* The operation in flight may do to its object what it wants, once it is applied.
LEMMA WorkKeepsRecord ==
    ASSUME NEW j, NEW n, NEW i, NEW inst, NEW w, NEW m, NEW n2, NEW i2,
           NEW row \in UnfinishedRows(j), j[row].state \notin {"PREPARED", "VALIDATED"},
           j[row].component \in Objects, RecordOK(j, n, i, inst, w, m),
           IF j[row].component[1] = "nftables"
           THEN i2 = i /\ \A f \in Families \ {j[row].component[2]} : n2[f] = n[f]
           ELSE n2 = n /\ \A f \in Families \ {j[row].component[2]} : i2[f] = i[f]
    PROVE  RecordOK(j, n2, i2, inst, w, m)
<1> DEFINE o == j[row].component
<1>1. \A r \in UnfinishedRows(j) : r = row
  BY DEF RecordOK, IsTop, Undoable, UnfinishedRows, FinishedStates
<1>2. \A p \in Objects \ {o} : Held(n2, i2, p) = Held(n, i, p)
  BY DEF Objects, Engines, Held
<1>3. Alone(n2, i2, o) <=> Alone(n, i, o)
  BY DEF Objects, Engines, Alone
<1>4. o[1] \in Engines /\ o[2] \in Families /\ (m \/ Alone(n, i, o)) /\ row \in DOMAIN j
  BY DEF Objects, RecordOK, UnfinishedRows
<1>5. ASSUME NEW p \in Objects, Promised(j, n, i, p)
      PROVE  Promised(j, n2, i2, p)
  BY <1>1, <1>2, <1>5 DEF Promised
<1>6. NftablesUsed(j, n2, inst)
  BY <1>4 DEF RecordOK, NftablesUsed
<1>7. m \/ \A f \in Families : n2[f] = None \/ ~OwnsChains(i2[f])
  <2> SUFFICES ASSUME ~m, NEW f \in Families
               PROVE  n2[f] = None \/ ~OwnsChains(i2[f])
    OBVIOUS
  <2>1. CASE f = o[2]
    BY <1>3, <1>4, <2>1 DEF Alone
  <2>2. CASE f # o[2]
    <3>1. n2[f] = n[f] /\ i2[f] = i[f]
      BY <2>2
    <3> QED
      BY <3>1 DEF RecordOK
  <2> QED
    BY <2>1, <2>2
<1>8. \A r \in UnfinishedRows(j) : m \/ Alone(n2, i2, j[r].component)
  BY <1>1, <1>3, <1>4
<1>9. GaveUp(j) \/ \A p \in Objects \ w : Promised(j, n2, i2, p)
  BY <1>5 DEF RecordOK
<1> QED
  BY <1>6, <1>7, <1>8, <1>9 DEF RecordOK

\* Others only remove rules, of objects that count as wiped from then on.
LEMMA OthersKeepRecord ==
    ASSUME NEW j, NEW k, NEW n, NEW i, NEW inst, NEW w, NEW m,
           NEW n2, NEW i2, NEW inst2, NEW w2, NEW m2,
           RecordOK(j, n, i, inst, w, m), inst \subseteq inst2, w \subseteq w2, m => m2,
           DOMAIN k = DOMAIN j,
           \A row \in DOMAIN j :
               /\ k[row].component = j[row].component /\ k[row].state = j[row].state
               /\ k[row].detail = j[row].detail /\ k[row].snapshot = j[row].snapshot
               /\ k[row].candidate = j[row].candidate,
           \A row \in DOMAIN j : j[row].component \in Objects,
           \A o \in Objects \ w2 : Held(n2, i2, o) = Held(n, i, o),
           \A f \in Families : n2[f] \in {n[f], None},
           \A f \in Families : OwnsChains(i2[f]) => OwnsChains(i[f])
    PROVE  RecordOK(k, n2, i2, inst2, w2, m2)
<1>1. UnfinishedRows(k) = UnfinishedRows(j) /\ UnfinishedRows(j) \subseteq DOMAIN j
  BY DEF UnfinishedRows
<1>2. EntriesOK(k)
  BY DEF RecordOK, EntriesOK
<1>3. \A row : Undoable(k, row) <=> Undoable(j, row)
  BY DEF Undoable
<1>4. \A row \in DOMAIN j : IsTop(j, row) => IsTop(k, row)
  BY <1>3 DEF IsTop
<1>5. \A o \in Objects : Alone(n, i, o) => Alone(n2, i2, o)
  BY DEF Objects, Alone
<1>6. \A row \in UnfinishedRows(k) : IsTop(k, row) /\ (m2 \/ Alone(n2, i2, k[row].component))
  BY <1>1, <1>4, <1>5 DEF RecordOK
<1>7. NftablesUsed(k, n2, inst2)
  BY DEF RecordOK, NftablesUsed
<1>8. ASSUME NEW o \in Objects, o \notin w2, Promised(j, n, i, o)
      PROVE  Promised(k, n2, i2, o)
  <2>1. Commits(k, o) = Commits(j, o) /\ Commits(j, o) \subseteq DOMAIN j
    BY DEF Commits
  <2>2. \A rows, c : rows \subseteq DOMAIN j /\ Expects(j, o, rows, c) => Expects(k, o, rows, c)
    BY SameExpectations
  <2>3. Held(n2, i2, o) = Held(n, i, o)
    BY <1>8
  <2>4. ASSUME NEW row \in DOMAIN k, Undoable(k, row), k[row].component = o
        PROVE  Expects(k, o, {r \in Commits(k, o) : r < row}, k[row].snapshot)
    <3>1. Expects(j, o, {r \in Commits(j, o) : r < row}, j[row].snapshot)
      BY <1>3, <1>8, <2>4 DEF Promised
    <3>2. {r \in Commits(j, o) : r < row} \subseteq DOMAIN j
      BY <2>1
    <3> QED
      BY <2>1, <2>2, <3>1, <3>2
  <2>5. \A row \in UnfinishedRows(k) :
            k[row].component = o /\ k[row].state \in {"PREPARED", "VALIDATED"} =>
                Held(n2, i2, o) = k[row].snapshot
    BY <1>1, <1>8, <2>3 DEF Promised
  <2>6. (\A row \in UnfinishedRows(k) : k[row].component # o) =>
            Expects(k, o, Commits(k, o), Held(n2, i2, o))
    BY <1>1, <1>8, <2>1, <2>2, <2>3 DEF Promised
  <2> QED
    BY <2>4, <2>5, <2>6 DEF Promised
<1>9. GaveUp(k) \/ \A o \in Objects \ w2 : Promised(k, n2, i2, o)
  <2>1. GaveUp(j) => GaveUp(k)
    BY DEF GaveUp
  <2> QED
    BY <1>8, <2>1 DEF RecordOK
<1>10. m2 \/ \A f \in Families : n2[f] = None \/ ~OwnsChains(i2[f])
  BY DEF RecordOK
<1> QED
  BY <1>2, <1>6, <1>7, <1>9, <1>10 DEF RecordOK

-------------------------------------------------------------------------------
(* The steps of the task.                                                  *)

\* The entry a step works on.
LEMMA RowFacts ==
    ASSUME NInv, task.step \in RowSteps
    PROVE  /\ journal \in Seq(Entries) /\ task \in Tasks /\ task.row \in DOMAIN journal
           /\ task.row \notin task.rows /\ task.rows \subseteq UnfinishedRows(journal)
           /\ Entry = journal[task.row] /\ journal[task.row] \in Entries
           /\ journal[task.row].component \in Objects
           /\ journal[task.row].component[1] \in Engines
           /\ journal[task.row].component[2] \in Families
           /\ journal[task.row].candidate \in Forwards
           /\ journal[task.row].snapshot \in ContentsOf(journal[task.row].component)
           /\ journal[task.row].state \in TransactionStates
           /\ task.from \in FromAt(task.step) /\ task.from \in TransactionStates
           /\ task.step \notin {"mark_not_applied", "roll_back"} =>
                  journal[task.row].state = task.from
           /\ KernelAt(task, journal[task.row], nft, ipt, disturbed)
<1>1. journal \in Seq(Entries) /\ task \in Tasks
  BY DEF NInv, TypeOK
<1>2. /\ task.row \in DOMAIN journal /\ task.row \notin task.rows
      /\ task.rows \subseteq UnfinishedRows(journal)
      /\ task.from \in FromAt(task.step)
      /\ task.step \notin {"mark_not_applied", "roll_back"} => journal[task.row].state = task.from
      /\ KernelAt(task, journal[task.row], nft, ipt, disturbed)
  BY DEF NInv, TaskOK
<1>3. journal[task.row] \in Entries
  BY <1>1, <1>2
<1>4. /\ journal[task.row].component \in Objects /\ journal[task.row].candidate \in Forwards
      /\ journal[task.row].state \in TransactionStates
  BY <1>3 DEF Entries
<1>5. journal[task.row].component[1] \in Engines /\ journal[task.row].component[2] \in Families
  BY <1>4 DEF Objects
<1>6. journal[task.row].snapshot \in ContentsOf(journal[task.row].component)
  BY <1>2 DEF NInv, RecordOK, EntriesOK
<1>7. task.from \in TransactionStates
  BY <1>1 DEF Tasks
<1> QED
  BY <1>1, <1>2, <1>3, <1>4, <1>5, <1>6, <1>7 DEF Entry

\* An entry in flight is the top of the journal, and its object has its family alone.
LEMMA InFlight ==
    ASSUME NInv, task.step \in RowSteps, journal[task.row].state \notin FinishedStates
    PROVE  /\ task.row \in UnfinishedRows(journal) /\ Undoable(journal, task.row)
           /\ IsTop(journal, task.row)
           /\ misprobed \/ Alone(nft, ipt, journal[task.row].component)
<1>1. task.row \in UnfinishedRows(journal)
  BY RowFacts DEF UnfinishedRows
<1> QED
  BY <1>1 DEF NInv, RecordOK, Undoable, UnfinishedRows

\* A step of the task, put together.
LEMMA TaskStep ==
    ASSUME NInv, UNCHANGED <<others, wiped>>, task' \in Tasks, journal' \in Seq(Entries),
           UNCHANGED faults \/ Fault, disturbed' \in {disturbed, {}},
           nft' \in [Families -> Forwards \cup {None}], ipt' \in [Families -> TidyStates],
           RecordOK(journal', nft', ipt', installed, wiped, misprobed),
           TaskOK(task', journal', nft', ipt', installed, disturbed', misprobed)
    PROVE  NInv'
<1>1. faults' \in 0..MaxFaults
  <2>1. faults \in 0..MaxFaults /\ MaxFaults \in Nat
    BY NatAssumption DEF NInv, TypeOK
  <2> QED
    BY <2>1 DEF Fault
<1>2. ipt' \in [Families -> IPTablesStates]
  BY DEF TidyStates
<1>3. \A f \in Families, c \in Chains : ipt'[f][c].anchors > 0 => ipt'[f][c].present
  <2> SUFFICES ASSUME NEW f \in Families, NEW c \in Chains
               PROVE  ipt'[f][c].anchors > 0 => ipt'[f][c].present
    OBVIOUS
  <2>1. ipt'[f] \in TidyStates
    OBVIOUS
  <2> QED
    BY <2>1, ChainOfState
<1>4. UNCHANGED <<up, tracker, installed, recoveries, crashes, misprobed>>
  BY DEF others, process
<1>5. TypeOK'
  BY <1>1, <1>2, <1>3, <1>4 DEF NInv, TypeOK
<1>6. disturbed' \subseteq wiped'
  BY DEF NInv
<1> QED
  BY <1>4, <1>5, <1>6 DEF NInv

\* A return leaves nothing to rely on.
LEMMA ReturnOK ==
    ASSUME NInv, NEW ok \in BOOLEAN, Return(ok), NEW j, NEW n, NEW i, NEW inst, NEW d, NEW m,
           task.rows \subseteq UnfinishedRows(j)
    PROVE  task' \in Tasks /\ TaskOK(task', j, n, i, inst, d, m)
<1>1. task \in Tasks
  BY DEF NInv, TypeOK
<1>2. CASE task.run = "recovery"
  <2> DEFINE t == [task EXCEPT !.step = "next_operation", !.erred = @ \/ ~ok,
                               !.row = 0, !.from = "PREPARED", !.seen = None, !.todo = {}]
  <2>1. task' = t
    BY <1>2 DEF Return
  <2>2. t.step = "next_operation" /\ t.rows = task.rows
    BY <1>1 DEF Tasks
  <2>3. t \in Tasks
    <3>1. (task.erred \/ ~ok) \in BOOLEAN
      BY <1>1 DEF Tasks
    <3>2. /\ "next_operation" \in Steps /\ "PREPARED" \in TransactionStates /\ None \in Contents
          /\ {} \in SUBSET Tables /\ 0 \in Nat
      BY DEF Steps, TransactionStates, Contents
    <3> QED
      BY <1>1, <3>1, <3>2 DEF Tasks
  <2> HIDE DEF t
  <2>4. TaskOK(t, j, n, i, inst, d, m)
    BY <2>2 DEF TaskOK, RowSteps
  <2> QED
    BY <2>1, <2>3, <2>4
<1>3. CASE task.run # "recovery"
  <2>1. task' = IdleTask
    BY <1>3 DEF Return
  <2>2. IdleTask \in Tasks
    BY DEF IdleTask, Tasks, Runs, Steps, TransactionStates, Contents
  <2>3. IdleTask.step = "idle" /\ IdleTask.rows = {}
    BY DEF IdleTask
  <2>4. TaskOK(IdleTask, j, n, i, inst, d, m)
    BY <2>3 DEF TaskOK, RowSteps
  <2> QED
    BY <2>1, <2>2, <2>4
<1> QED
  BY <1>2, <1>3

\* The task goes to another step.
LEMMA GotoMoves ==
    ASSUME NInv, NEW step \in Steps, Goto(step)
    PROVE  /\ task' \in Tasks /\ task'.step = step /\ task'.row = task.row /\ task'.rows = task.rows
           /\ task'.from = task.from /\ task'.todo = task.todo /\ task'.seen = task.seen
           /\ task'.plan = task.plan /\ task'.run = task.run
<1>1. task \in Tasks
  BY DEF NInv, TypeOK
<1> QED
  BY <1>1 DEF Goto, Tasks

\* Steps after an error, which look at the entry again.
LEMMA ErrorOK ==
    ASSUME NInv, task.step \in RowSteps,
           NEW onError \in {"fail", "roll_back", "mark_not_applied"}, Proceed(onError),
           onError # "fail" => task.from \in FromAt(onError),
           NEW j, DOMAIN j = DOMAIN journal, task.rows \subseteq UnfinishedRows(j),
           NEW n, NEW i, NEW inst, NEW d, NEW m
    PROVE  task' \in Tasks /\ TaskOK(task', j, n, i, inst, d, m)
<1>1. CASE onError = "fail"
  BY <1>1, ReturnOK DEF Proceed
<1>2. CASE onError # "fail"
  <2>1. Goto(onError) /\ onError \in Steps
    BY <1>2 DEF Proceed, Steps
  <2>2. /\ task' \in Tasks /\ task'.step = onError /\ task'.row = task.row
        /\ task'.rows = task.rows /\ task'.from = task.from
    BY <2>1, GotoMoves
  <2>3. KernelAt(task', j[task'.row], n, i, d)
    BY <1>2, <2>2 DEF KernelAt
  <2> QED
    BY <1>2, <2>2, <2>3, RowFacts DEF TaskOK
<1> QED
  BY <1>1, <1>2

\* A failing install rolls back; a failing restore gives up or returns.
LEMMA OnErrorOK ==
    ASSUME NInv, task.step \in {"install", "restore", "write"}, OnError,
           NEW n, NEW i, NEW inst, NEW d, NEW m
    PROVE  task' \in Tasks /\ TaskOK(task', journal, n, i, inst, d, m)
<1>1. task.step \in RowSteps
  BY DEF RowSteps
<1>2. CASE task.from # "ROLLING_BACK"
  <2>1. Goto("roll_back")
    BY <1>2 DEF OnError
  <2>2. "roll_back" # "fail" /\ Proceed("roll_back")
    BY <2>1 DEF Proceed
  <2>3. task.from \in FromAt("roll_back")
    BY <1>1, <1>2, RowFacts DEF FromAt
  <2> QED
    BY <1>1, <2>2, <2>3, RowFacts, ErrorOK
<1>3. CASE task.from = "ROLLING_BACK" /\ task.run = "rollback"
  <2>1. Return(FALSE)
    BY <1>3 DEF OnError
  <2> QED
    BY <1>1, <2>1, RowFacts, ReturnOK
<1>4. CASE task.from = "ROLLING_BACK" /\ task.run # "rollback"
  <2>1. Goto("mark_failed") /\ "mark_failed" \in Steps
    BY <1>4 DEF OnError, Steps
  <2>2. /\ task' \in Tasks /\ task'.step = "mark_failed" /\ task'.row = task.row
        /\ task'.rows = task.rows /\ task'.from = "ROLLING_BACK"
    BY <1>4, <2>1, GotoMoves
  <2>3. journal[task.row].state = "ROLLING_BACK"
    BY <1>1, <1>4, RowFacts
  <2>4. KernelAt(task', journal[task'.row], n, i, d)
    BY <2>2 DEF KernelAt
  <2> QED
    BY <1>1, <2>2, <2>3, <2>4, RowFacts DEF TaskOK, FromAt
<1> QED
  BY <1>2, <1>3, <1>4

-------------------------------------------------------------------------------
(* The journal writes.                                                     *)

\* What TransitionOperation may leave behind, whether or not it reports an error.
LEMMA TransitionMoves ==
    ASSUME NEW j \in Seq(Entries), NEW row \in DOMAIN j, NEW from, NEW to \in TransactionStates,
           NEW detail \in Details
    PROVE  LET k == Transitioned(j, row, from, to, detail)
           IN  /\ k \in Seq(Entries) /\ DOMAIN k = DOMAIN j
               /\ TransitionApplies(j, row, from, to) =>
                      Moves(j, k, row, to, detail) /\ j[row].state = from
               /\ ~TransitionApplies(j, row, from, to) => k = j
<1> DEFINE k == Transitioned(j, row, from, to, detail)
<1>1. CASE ~TransitionApplies(j, row, from, to)
  BY <1>1 DEF Transitioned
<1>3. CASE TransitionApplies(j, row, from, to)
  <2> DEFINE e == [j[row] EXCEPT !.state = to, !.detail = detail]
  <2>1. j[row].state = from /\ k = [j EXCEPT ![row] = e]
    BY <1>3 DEF Transitioned, TransitionApplies
  <2>2. j[row] \in Entries
    OBVIOUS
  <2>3. /\ e.component = j[row].component /\ e.snapshot = j[row].snapshot
        /\ e.candidate = j[row].candidate /\ e.state = to /\ e.detail = detail
    BY <2>2 DEF Entries
  <2>4. e \in Entries
    BY <2>2 DEF Entries
  <2> HIDE DEF e
  <2>5. /\ DOMAIN k = DOMAIN j /\ k \in Seq(Entries)
        /\ \A r \in DOMAIN j : k[r] = IF r = row THEN e ELSE j[r]
    BY <2>1, <2>4
  <2> QED
    BY <1>3, <2>1, <2>3, <2>5 DEF Moves
<1> QED
  BY <1>1, <1>3

\* The journal after a transition of the task.
LEMMA WrittenJournal ==
    ASSUME journal \in Seq(Entries), task.row \in DOMAIN journal,
           NEW to \in TransactionStates, NEW detail \in Details,
           journal' \in {journal, Transitioned(journal, task.row, task.from, to, detail)}
    PROVE  /\ journal' \in Seq(Entries) /\ DOMAIN journal' = DOMAIN journal
           /\ \/ journal' = journal
              \/ /\ Moves(journal, journal', task.row, to, detail)
                 /\ journal[task.row].state = task.from
           /\ TransitionApplies(journal, task.row, task.from, to)
                 /\ journal' = Transitioned(journal, task.row, task.from, to, detail) =>
                     /\ Moves(journal, journal', task.row, to, detail)
                     /\ journal[task.row].state = task.from
<1>1. PICK row \in DOMAIN journal : row = task.row
  OBVIOUS
<1>2. PICK from : from = task.from
  OBVIOUS
<1>3. journal' \in {journal, Transitioned(journal, row, from, to, detail)}
  BY <1>1, <1>2
<1>4. /\ Transitioned(journal, row, from, to, detail) \in Seq(Entries)
      /\ DOMAIN Transitioned(journal, row, from, to, detail) = DOMAIN journal
      /\ TransitionApplies(journal, row, from, to) =>
             /\ Moves(journal, Transitioned(journal, row, from, to, detail), row, to, detail)
             /\ journal[row].state = from
      /\ ~TransitionApplies(journal, row, from, to) =>
             Transitioned(journal, row, from, to, detail) = journal
  BY TransitionMoves
<1> QED
  BY <1>1, <1>2, <1>3, <1>4

\* A journal write of the task, put together.
LEMMA TransitionStep ==
    ASSUME NInv, task.step \in RowSteps, NEW to \in TransactionStates, NEW detail \in Details,
           journal' \in {journal, Transitioned(journal, task.row, task.from, to, detail)},
           NEW onError \in {"fail", "roll_back", "mark_not_applied"},
           onError # "fail" => task.from \in FromAt(onError),
           UNCHANGED <<others, kernel, disturbed, wiped>>, UNCHANGED faults \/ Fault,
           Moves(journal, journal', task.row, to, detail) /\ journal[task.row].state = task.from =>
               RecordOK(journal', nft, ipt, installed, wiped, misprobed),
           \/ task' \in Tasks /\ TaskOK(task', journal', nft, ipt, installed, disturbed, misprobed)
           \/ Proceed(onError)
    PROVE  NInv'
<1>1. journal \in Seq(Entries) /\ task.row \in DOMAIN journal
  BY RowFacts
<1>2. /\ journal' \in Seq(Entries) /\ DOMAIN journal' = DOMAIN journal
      /\ \/ journal' = journal
         \/ Moves(journal, journal', task.row, to, detail) /\ journal[task.row].state = task.from
  BY <1>1, WrittenJournal
<1>3. UNCHANGED <<nft, ipt, installed, misprobed>>
  BY DEF kernel, others
<1>4. RecordOK(journal', nft', ipt', installed, wiped, misprobed)
  BY <1>2, <1>3 DEF NInv
<1>5. task.rows \subseteq UnfinishedRows(journal')
  BY <1>2, RowFacts DEF Moves, UnfinishedRows
<1>6. task' \in Tasks /\ TaskOK(task', journal', nft', ipt', installed, disturbed', misprobed)
  <2>1. CASE Proceed(onError)
    BY <1>2, <1>5, <2>1, ErrorOK
  <2>2. CASE TaskOK(task', journal', nft, ipt, installed, disturbed, misprobed) /\ task' \in Tasks
    BY <1>3, <2>2
  <2> QED
    BY <2>1, <2>2
<1>7. nft' \in [Families -> Forwards \cup {None}] /\ ipt' \in [Families -> TidyStates]
  BY <1>3 DEF NInv, TypeOK
<1> QED
  BY <1>2, <1>4, <1>6, <1>7, TaskStep

\* The task after a transition that succeeds.
LEMMA ReachedOK ==
    ASSUME NInv, task.step \in RowSteps, NEW to \in TransactionStates, NEW detail,
           NEW step \in Steps, step \in RowSteps,
           Moves(journal, journal', task.row, to, detail), to \in FromAt(step),
           step \notin {"create", "install", "write", "mark_rolling_back"},
           Reached(step, to),
           KernelAt([task EXCEPT !.step = step, !.from = to], journal[task.row], nft, ipt, disturbed)
    PROVE  task' \in Tasks /\ TaskOK(task', journal', nft, ipt, installed, disturbed, misprobed)
<1> DEFINE t == [task EXCEPT !.step = step, !.from = to]
<1>1. task' = t
  BY DEF Reached
<1>2. t \in Tasks /\ t.step = step /\ t.from = to /\ t.row = task.row /\ t.rows = task.rows
  BY RowFacts DEF Tasks
<1>3. task.rows \subseteq UnfinishedRows(journal')
  BY RowFacts DEF Moves, UnfinishedRows
<1>4. KernelAt(t, journal'[task.row], nft, ipt, disturbed)
  <2>1. /\ journal'[task.row].component = journal[task.row].component
        /\ journal'[task.row].candidate = journal[task.row].candidate
        /\ journal'[task.row].snapshot = journal[task.row].snapshot
    BY DEF Moves
  <2> HIDE DEF t
  <2> QED
    BY <2>1 DEF KernelAt, t
<1> HIDE DEF t
<1>5. TaskOK(t, journal', nft, ipt, installed, disturbed, misprobed)
  <2>1. t.row \in DOMAIN journal' \ t.rows /\ journal'[t.row].state = to
    BY <1>2, RowFacts DEF Moves
  <2> QED
    BY <1>2, <1>3, <1>4, <2>1 DEF TaskOK
<1> QED
  BY <1>1, <1>2, <1>5

\* The task after a transition that ends the treatment of its entry.
LEMMA EndedOK ==
    ASSUME NInv, task.step \in RowSteps, NEW to, NEW detail, NEW ok \in BOOLEAN,
           Moves(journal, journal', task.row, to, detail), Return(ok)
    PROVE  task' \in Tasks /\ TaskOK(task', journal', nft, ipt, installed, disturbed, misprobed)
<1>1. task.rows \subseteq UnfinishedRows(journal')
  BY RowFacts DEF Moves, UnfinishedRows
<1> QED
  BY <1>1, ReturnOK

\* An operation that has not been applied yet still finds its snapshot.
LEMMA SnapshotHeld ==
    ASSUME NInv, NEW row \in DOMAIN journal, journal[row].state \in {"PREPARED", "VALIDATED"}
    PROVE  \/ journal[row].component \in wiped \/ GaveUp(journal)
           \/ Held(nft, ipt, journal[row].component) = journal[row].snapshot
<1>1. row \in UnfinishedRows(journal)
  BY DEF UnfinishedRows, FinishedStates
<1>2. journal[row].component \in Objects
  <2>1. journal[row] \in Entries
    BY DEF NInv, TypeOK
  <2> QED
    BY <2>1 DEF Entries
<1> QED
  BY <1>1, <1>2 DEF NInv, RecordOK, Promised

\* The record after a transition of an operation in flight.
LEMMA RecordStep ==
    ASSUME NInv, task.step \in RowSteps, NEW to \in TransactionStates, NEW detail,
           Moves(journal, journal', task.row, to, detail),
           journal[task.row].state \notin FinishedStates,
           detail = "rollback_failed" => to = "FAILED",
           \/ to \in {"APPLYING", "VERIFYING", "ROLLING_BACK"}
           \/ to = "FAILED" /\ detail = "rollback_failed"
           \/ to \in {"VALIDATED", "FAILED"} /\ journal[task.row].state \in {"PREPARED", "VALIDATED"}
           \/ to = "ROLLED_BACK" /\ (\/ journal[task.row].component \in wiped
                                     \/ Held(nft, ipt, journal[task.row].component)
                                            = journal[task.row].snapshot)
           \/ to = "COMMITTED" /\ (\/ journal[task.row].component \in wiped
                                   \/ Held(nft, ipt, journal[task.row].component)
                                          = Rendered(journal[task.row].component,
                                                     journal[task.row].candidate))
    PROVE  RecordOK(journal', nft, ipt, installed, wiped, misprobed)
<1>1. PICK row \in DOMAIN journal : row = task.row
  BY RowFacts
<1>2. journal \in Seq(Entries) /\ RecordOK(journal, nft, ipt, installed, wiped, misprobed)
  BY DEF NInv, TypeOK
<1>3. /\ Undoable(journal, row) /\ IsTop(journal, row)
      /\ misprobed \/ Alone(nft, ipt, journal[row].component)
  BY <1>1, InFlight
<1>4. to \in {"PREPARED", "VALIDATED", "FAILED", "ROLLED_BACK"} /\ detail # "rollback_failed" =>
          \/ journal[row].component \in wiped \/ GaveUp(journal)
          \/ Held(nft, ipt, journal[row].component) = journal[row].snapshot
  <2>1. journal[row].state \in {"PREPARED", "VALIDATED"} =>
            \/ journal[row].component \in wiped \/ GaveUp(journal)
            \/ Held(nft, ipt, journal[row].component) = journal[row].snapshot
    BY SnapshotHeld
  <2> QED
    BY <1>1, <2>1
<1>5. to = "COMMITTED" =>
          \/ journal[row].component \in wiped
          \/ Held(nft, ipt, journal[row].component)
                 = Rendered(journal[row].component, journal[row].candidate)
  BY <1>1
<1>6. Moves(journal, journal', row, to, detail)
  BY <1>1
<1> QED
  BY <1>2, <1>3, <1>4, <1>5, <1>6, MoveKeepsRecord

\* The candidate is VALIDATED, or is not to be applied.
LEMMA ValidateStep == ASSUME NInv, Validate PROVE NInv'
<1>1. task.step = "validate" /\ UNCHANGED <<others, kernel, disturbed, wiped>> /\ task.step \in RowSteps
  BY DEF Validate, RowSteps
<1>2. task.from = "PREPARED" /\ journal[task.row].state = "PREPARED"
  BY <1>1, RowFacts DEF FromAt
<1>3. CASE Transition("VALIDATED", "none", Reached("mark_applying", "VALIDATED"), "fail")
  <2>1. /\ journal' \in {journal, Transitioned(journal, task.row, task.from, "VALIDATED", "none")}
        /\ UNCHANGED faults \/ Fault
        /\ \/ /\ TransitionApplies(journal, task.row, task.from, "VALIDATED")
              /\ journal' = Transitioned(journal, task.row, task.from, "VALIDATED", "none")
              /\ Reached("mark_applying", "VALIDATED")
           \/ Proceed("fail")
    BY <1>3 DEF Transition
  <2>2. "VALIDATED" \in TransactionStates /\ "none" \in Details
    BY DEF TransactionStates, Details
  <2>3. ASSUME Moves(journal, journal', task.row, "VALIDATED", "none")
        PROVE  RecordOK(journal', nft, ipt, installed, wiped, misprobed)
    BY <1>1, <1>2, <2>2, <2>3, RecordStep DEF FinishedStates
  <2>4. ASSUME Moves(journal, journal', task.row, "VALIDATED", "none"),
               Reached("mark_applying", "VALIDATED")
        PROVE  task' \in Tasks /\ TaskOK(task', journal', nft, ipt, installed, disturbed, misprobed)
    <3> DEFINE t == [task EXCEPT !.step = "mark_applying", !.from = "VALIDATED"]
    <3>1. t.step = "mark_applying"
      BY <1>1, RowFacts DEF Tasks
    <3>2. KernelAt(t, journal[task.row], nft, ipt, disturbed)
      <4> HIDE DEF t
      <4> QED
        BY <1>1, <3>1, RowFacts DEF KernelAt, Remaining
    <3> HIDE DEF t
    <3>3. "mark_applying" \in Steps /\ "mark_applying" \in RowSteps
          /\ "VALIDATED" \in FromAt("mark_applying")
      BY DEF Steps, RowSteps, FromAt
    <3> QED
      BY <1>1, <2>2, <2>4, <3>2, <3>3, ReachedOK DEF t
  <2>5. \/ task' \in Tasks /\ TaskOK(task', journal', nft, ipt, installed, disturbed, misprobed)
        \/ Proceed("fail")
    BY <1>1, <2>1, <2>2, <2>4, WrittenJournal, RowFacts
  <2> QED
    BY <1>1, <2>1, <2>2, <2>3, <2>5, TransitionStep
<1>4. CASE Fault /\ Goto("mark_not_applied") /\ UNCHANGED journal
  <2>1. Proceed("mark_not_applied")
    BY <1>4 DEF Proceed
  <2>2. task.from \in FromAt("mark_not_applied")
    BY <1>2 DEF FromAt
  <2>3. task' \in Tasks /\ TaskOK(task', journal, nft, ipt, installed, disturbed, misprobed)
    BY <1>1, <2>1, <2>2, RowFacts, ErrorOK
  <2> QED
    BY <1>1, <1>4, <2>3, TaskStep DEF NInv, TypeOK, kernel, others
<1> QED
  BY <1>3, <1>4 DEF Validate

\* An operation that was not applied has FAILED.
LEMMA MarkNotAppliedStep == ASSUME NInv, MarkNotApplied PROVE NInv'
<1> DEFINE Success == Return(task.run = "recovery")
<1>1. task.step = "mark_not_applied" /\ task.step \in RowSteps /\ UNCHANGED <<others, kernel, disturbed, wiped>>
  BY DEF MarkNotApplied, RowSteps
<1>2. PICK detail \in Details : detail = IF task.run = "recovery" THEN "interrupted" ELSE "not_applied"
  BY DEF Details
<1>3. /\ journal' \in {journal, Transitioned(journal, task.row, task.from, "FAILED", detail)}
      /\ UNCHANGED faults \/ Fault
      /\ \/ /\ TransitionApplies(journal, task.row, task.from, "FAILED")
            /\ journal' = Transitioned(journal, task.row, task.from, "FAILED", detail)
            /\ Success
         \/ Proceed("fail")
  BY <1>2 DEF MarkNotApplied, Transition
<1>4. "FAILED" \in TransactionStates /\ task.from \in FromAt("mark_not_applied")
  BY <1>1, RowFacts DEF TransactionStates
<1>5. ASSUME Moves(journal, journal', task.row, "FAILED", detail),
             journal[task.row].state = task.from
      PROVE  RecordOK(journal', nft, ipt, installed, wiped, misprobed)
  BY <1>1, <1>2, <1>4, <1>5, RecordStep DEF FinishedStates, FromAt
<1>6. ASSUME Moves(journal, journal', task.row, "FAILED", detail), Success
      PROVE  task' \in Tasks /\ TaskOK(task', journal', nft, ipt, installed, disturbed, misprobed)
  <2>1. (task.run = "recovery") \in BOOLEAN
    OBVIOUS
  <2> QED
    BY <1>1, <1>6, <2>1, EndedOK
<1>7. \/ task' \in Tasks /\ TaskOK(task', journal', nft, ipt, installed, disturbed, misprobed)
      \/ Proceed("fail")
  <2> HIDE DEF Success
  <2> QED
    BY <1>1, <1>3, <1>4, <1>6, WrittenJournal, RowFacts
<1> HIDE DEF Success
<1>8. "fail" \in {"fail", "roll_back", "mark_not_applied"}
      /\ ("fail" # "fail" => task.from \in FromAt("fail"))
  BY <1>4 DEF FromAt
<1> QED
  BY <1>1, <1>3, <1>4, <1>5, <1>7, <1>8, TransitionStep

\* The candidate is about to be applied.
LEMMA MarkApplyingStep == ASSUME NInv, MarkApplying PROVE NInv'
<1> DEFINE Success == task' = [task EXCEPT !.step = "install", !.from = "APPLYING", !.todo = Tables]
<1>1. task.step = "mark_applying" /\ task.step \in RowSteps /\ UNCHANGED <<others, kernel, disturbed, wiped>>
  BY DEF MarkApplying, RowSteps
<1>2. PICK detail \in Details : detail = "none"
  BY DEF Details
<1>3. /\ journal' \in {journal, Transitioned(journal, task.row, task.from, "APPLYING", detail)}
      /\ UNCHANGED faults \/ Fault
      /\ \/ /\ TransitionApplies(journal, task.row, task.from, "APPLYING")
            /\ journal' = Transitioned(journal, task.row, task.from, "APPLYING", detail)
            /\ Success
         \/ Proceed("mark_not_applied")
  BY <1>2 DEF MarkApplying, Transition
<1>4. "APPLYING" \in TransactionStates /\ task.from \in FromAt("mark_applying")
  BY <1>1, RowFacts DEF TransactionStates
<1>5. ASSUME Moves(journal, journal', task.row, "APPLYING", detail),
             journal[task.row].state = task.from
      PROVE  RecordOK(journal', nft, ipt, installed, wiped, misprobed)
  BY <1>1, <1>2, <1>4, <1>5, RecordStep DEF FinishedStates, FromAt
<1>6. ASSUME Moves(journal, journal', task.row, "APPLYING", detail), Success
      PROVE  task' \in Tasks /\ TaskOK(task', journal', nft, ipt, installed, disturbed, misprobed)
  <2> DEFINE t == [task EXCEPT !.step = "install", !.from = "APPLYING", !.todo = Tables]
  <2>1. /\ t \in Tasks /\ t.step = "install" /\ t.from = "APPLYING" /\ t.todo = Tables
        /\ t.row = task.row /\ t.rows = task.rows
    BY <1>1, RowFacts DEF Tasks, Steps, TransactionStates
  <2>2. /\ journal'[task.row].component = journal[task.row].component
        /\ journal'[task.row].candidate = journal[task.row].candidate
        /\ journal'[task.row].snapshot = journal[task.row].snapshot
        /\ journal'[task.row].state = "APPLYING" /\ DOMAIN journal' = DOMAIN journal
        /\ task.rows \subseteq UnfinishedRows(journal')
    BY <1>1, <1>6, RowFacts DEF Moves, UnfinishedRows
  <2> HIDE DEF t
  <2>3. KernelAt(t, journal'[task.row], nft, ipt, disturbed)
    BY <1>1, <2>1, <2>2, RowFacts DEF KernelAt, Remaining
  <2>4. TaskOK(t, journal', nft, ipt, installed, disturbed, misprobed)
    BY <1>1, <2>1, <2>2, <2>3, RowFacts DEF TaskOK, FromAt
  <2> QED
    BY <1>6, <2>1, <2>4 DEF t
<1>7. \/ task' \in Tasks /\ TaskOK(task', journal', nft, ipt, installed, disturbed, misprobed)
      \/ Proceed("mark_not_applied")
  <2> HIDE DEF Success
  <2> QED
    BY <1>1, <1>3, <1>4, <1>6, WrittenJournal, RowFacts
<1> HIDE DEF Success
<1>8. "mark_not_applied" \in {"fail", "roll_back", "mark_not_applied"}
      /\ ("mark_not_applied" # "fail" => task.from \in FromAt("mark_not_applied"))
  BY <1>4 DEF FromAt
<1> QED
  BY <1>1, <1>3, <1>4, <1>5, <1>7, <1>8, TransitionStep

\* The candidate is in place and is about to be verified.
LEMMA MarkVerifyingStep == ASSUME NInv, MarkVerifying PROVE NInv'
<1> DEFINE Success == Reached("verify", "VERIFYING")
<1>1. task.step = "mark_verifying" /\ task.step \in RowSteps /\ UNCHANGED <<others, kernel, disturbed, wiped>>
  BY DEF MarkVerifying, RowSteps
<1>2. PICK detail \in Details : detail = "none"
  BY DEF Details
<1>3. /\ journal' \in {journal, Transitioned(journal, task.row, task.from, "VERIFYING", detail)}
      /\ UNCHANGED faults \/ Fault
      /\ \/ /\ TransitionApplies(journal, task.row, task.from, "VERIFYING")
            /\ journal' = Transitioned(journal, task.row, task.from, "VERIFYING", detail)
            /\ Success
         \/ Proceed("roll_back")
  BY <1>2 DEF MarkVerifying, Transition
<1>4. "VERIFYING" \in TransactionStates /\ task.from \in FromAt("mark_verifying")
  BY <1>1, RowFacts DEF TransactionStates
<1>5. ASSUME Moves(journal, journal', task.row, "VERIFYING", detail),
             journal[task.row].state = task.from
      PROVE  RecordOK(journal', nft, ipt, installed, wiped, misprobed)
  BY <1>1, <1>2, <1>4, <1>5, RecordStep DEF FinishedStates, FromAt
<1>6. ASSUME Moves(journal, journal', task.row, "VERIFYING", detail), Success
      PROVE  task' \in Tasks /\ TaskOK(task', journal', nft, ipt, installed, disturbed, misprobed)
  <2> DEFINE t == [task EXCEPT !.step = "verify", !.from = "VERIFYING"]
  <2>1. t.step = "verify" /\ t.todo = task.todo /\ t.seen = task.seen
    BY <1>1, RowFacts DEF Tasks
  <2>2. KernelAt(t, journal[task.row], nft, ipt, disturbed)
    <3> HIDE DEF t
    <3> QED
      BY <1>1, <2>1, RowFacts DEF KernelAt, Remaining
  <2> HIDE DEF t
  <2>3. "verify" \in Steps /\ "verify" \in RowSteps /\ "VERIFYING" \in FromAt("verify")
    BY DEF Steps, RowSteps, FromAt
  <2> QED
    BY <1>1, <1>4, <1>6, <2>2, <2>3, ReachedOK DEF t
<1>7. \/ task' \in Tasks /\ TaskOK(task', journal', nft, ipt, installed, disturbed, misprobed)
      \/ Proceed("roll_back")
  <2> HIDE DEF Success
  <2> QED
    BY <1>1, <1>3, <1>4, <1>6, WrittenJournal, RowFacts
<1> HIDE DEF Success
<1>8. "roll_back" \in {"fail", "roll_back", "mark_not_applied"}
      /\ ("roll_back" # "fail" => task.from \in FromAt("roll_back"))
  BY <1>4 DEF FromAt
<1> QED
  BY <1>1, <1>3, <1>4, <1>5, <1>7, <1>8, TransitionStep

\* A verified candidate is committed.
LEMMA CommitStep == ASSUME NInv, Commit PROVE NInv'
<1> DEFINE Success == Return(TRUE)
<1>1. task.step = "commit" /\ task.step \in RowSteps /\ UNCHANGED <<others, kernel, disturbed, wiped>>
  BY DEF Commit, RowSteps
<1>2. PICK detail \in Details : detail = "none"
  BY DEF Details
<1>3. /\ journal' \in {journal, Transitioned(journal, task.row, task.from, "COMMITTED", detail)}
      /\ UNCHANGED faults \/ Fault
      /\ \/ /\ TransitionApplies(journal, task.row, task.from, "COMMITTED")
            /\ journal' = Transitioned(journal, task.row, task.from, "COMMITTED", detail)
            /\ Success
         \/ Proceed("roll_back")
  BY <1>2 DEF Commit, Transition
<1>4. "COMMITTED" \in TransactionStates /\ task.from \in FromAt("commit")
  BY <1>1, RowFacts DEF TransactionStates
<1>5. ASSUME Moves(journal, journal', task.row, "COMMITTED", detail),
             journal[task.row].state = task.from
      PROVE  RecordOK(journal', nft, ipt, installed, wiped, misprobed)
  <2>1. \/ journal[task.row].component \in wiped
        \/ Held(nft, ipt, journal[task.row].component)
               = Rendered(journal[task.row].component, journal[task.row].candidate)
    BY <1>1, RowFacts DEF KernelAt, NInv
  <2> QED
    BY <1>1, <1>2, <1>4, <1>5, <2>1, RecordStep DEF FinishedStates, FromAt
<1>6. ASSUME Moves(journal, journal', task.row, "COMMITTED", detail), Success
      PROVE  task' \in Tasks /\ TaskOK(task', journal', nft, ipt, installed, disturbed, misprobed)
  BY <1>1, <1>6, EndedOK
<1>7. \/ task' \in Tasks /\ TaskOK(task', journal', nft, ipt, installed, disturbed, misprobed)
      \/ Proceed("roll_back")
  <2> HIDE DEF Success
  <2> QED
    BY <1>1, <1>3, <1>4, <1>6, WrittenJournal, RowFacts
<1> HIDE DEF Success
<1>8. "roll_back" \in {"fail", "roll_back", "mark_not_applied"}
      /\ ("roll_back" # "fail" => task.from \in FromAt("roll_back"))
  BY <1>4 DEF FromAt
<1> QED
  BY <1>1, <1>3, <1>4, <1>5, <1>7, <1>8, TransitionStep

\* A failed operation is to be rolled back.
LEMMA RollBackStep == ASSUME NInv, RollBack PROVE NInv'
<1> DEFINE Success == Reached("restore", "ROLLING_BACK")
<1>1. task.step = "roll_back" /\ task.step \in RowSteps /\ UNCHANGED <<others, kernel, disturbed, wiped>>
  BY DEF RollBack, RowSteps
<1>2. PICK detail \in Details : detail = "none"
  BY DEF Details
<1>3. /\ journal' \in {journal, Transitioned(journal, task.row, task.from, "ROLLING_BACK", detail)}
      /\ UNCHANGED faults \/ Fault
      /\ \/ /\ TransitionApplies(journal, task.row, task.from, "ROLLING_BACK")
            /\ journal' = Transitioned(journal, task.row, task.from, "ROLLING_BACK", detail)
            /\ Success
         \/ Proceed("fail")
  BY <1>2 DEF RollBack, Transition
<1>4. "ROLLING_BACK" \in TransactionStates /\ task.from \in FromAt("roll_back")
  BY <1>1, RowFacts DEF TransactionStates
<1>5. ASSUME Moves(journal, journal', task.row, "ROLLING_BACK", detail),
             journal[task.row].state = task.from
      PROVE  RecordOK(journal', nft, ipt, installed, wiped, misprobed)
  BY <1>1, <1>2, <1>4, <1>5, RecordStep DEF FinishedStates, FromAt
<1>6. ASSUME Moves(journal, journal', task.row, "ROLLING_BACK", detail), Success
      PROVE  task' \in Tasks /\ TaskOK(task', journal', nft, ipt, installed, disturbed, misprobed)
  <2> DEFINE t == [task EXCEPT !.step = "restore", !.from = "ROLLING_BACK"]
  <2>1. t.step = "restore" /\ t.todo = task.todo /\ t.seen = task.seen
    BY <1>1, RowFacts DEF Tasks
  <2>2. KernelAt(t, journal[task.row], nft, ipt, disturbed)
    <3> HIDE DEF t
    <3> QED
      BY <1>1, <2>1, RowFacts DEF KernelAt, Remaining
  <2> HIDE DEF t
  <2>3. "restore" \in Steps /\ "restore" \in RowSteps /\ "ROLLING_BACK" \in FromAt("restore")
    BY DEF Steps, RowSteps, FromAt
  <2> QED
    BY <1>1, <1>4, <1>6, <2>2, <2>3, ReachedOK DEF t
<1>7. \/ task' \in Tasks /\ TaskOK(task', journal', nft, ipt, installed, disturbed, misprobed)
      \/ Proceed("fail")
  <2> HIDE DEF Success
  <2> QED
    BY <1>1, <1>3, <1>4, <1>6, WrittenJournal, RowFacts
<1> HIDE DEF Success
<1>8. "fail" \in {"fail", "roll_back", "mark_not_applied"}
      /\ ("fail" # "fail" => task.from \in FromAt("fail"))
  BY <1>4 DEF FromAt
<1> QED
  BY <1>1, <1>3, <1>4, <1>5, <1>7, <1>8, TransitionStep

\* The snapshot is back.
LEMMA MarkRolledBackStep == ASSUME NInv, MarkRolledBack PROVE NInv'
<1> DEFINE Success == Return(TRUE)
<1>1. task.step = "mark_rolled_back" /\ task.step \in RowSteps /\ UNCHANGED <<others, kernel, disturbed, wiped>>
  BY DEF MarkRolledBack, RowSteps
<1>2. PICK detail \in Details : detail = "none"
  BY DEF Details
<1>3. /\ journal' \in {journal, Transitioned(journal, task.row, task.from, "ROLLED_BACK", detail)}
      /\ UNCHANGED faults \/ Fault
      /\ \/ /\ TransitionApplies(journal, task.row, task.from, "ROLLED_BACK")
            /\ journal' = Transitioned(journal, task.row, task.from, "ROLLED_BACK", detail)
            /\ Success
         \/ Proceed("fail")
  BY <1>2 DEF MarkRolledBack, Transition
<1>4. "ROLLED_BACK" \in TransactionStates /\ task.from \in FromAt("mark_rolled_back")
  BY <1>1, RowFacts DEF TransactionStates
<1>5. ASSUME Moves(journal, journal', task.row, "ROLLED_BACK", detail),
             journal[task.row].state = task.from
      PROVE  RecordOK(journal', nft, ipt, installed, wiped, misprobed)
  <2>1. \/ journal[task.row].component \in wiped
        \/ Held(nft, ipt, journal[task.row].component) = journal[task.row].snapshot
    BY <1>1, RowFacts DEF KernelAt, NInv
  <2> QED
    BY <1>1, <1>2, <1>4, <1>5, <2>1, RecordStep DEF FinishedStates, FromAt
<1>6. ASSUME Moves(journal, journal', task.row, "ROLLED_BACK", detail), Success
      PROVE  task' \in Tasks /\ TaskOK(task', journal', nft, ipt, installed, disturbed, misprobed)
  BY <1>1, <1>6, EndedOK
<1>7. \/ task' \in Tasks /\ TaskOK(task', journal', nft, ipt, installed, disturbed, misprobed)
      \/ Proceed("fail")
  <2> HIDE DEF Success
  <2> QED
    BY <1>1, <1>3, <1>4, <1>6, WrittenJournal, RowFacts
<1> HIDE DEF Success
<1>8. "fail" \in {"fail", "roll_back", "mark_not_applied"}
      /\ ("fail" # "fail" => task.from \in FromAt("fail"))
  BY <1>4 DEF FromAt
<1> QED
  BY <1>1, <1>3, <1>4, <1>5, <1>7, <1>8, TransitionStep

\* A restore gave up.
LEMMA MarkFailedStep == ASSUME NInv, MarkFailed PROVE NInv'
<1> DEFINE Success == Return(FALSE)
<1>1. task.step = "mark_failed" /\ task.step \in RowSteps /\ UNCHANGED <<others, kernel, disturbed, wiped>>
  BY DEF MarkFailed, RowSteps
<1>2. PICK detail \in Details : detail = "rollback_failed"
  BY DEF Details
<1>3. /\ journal' \in {journal, Transitioned(journal, task.row, task.from, "FAILED", detail)}
      /\ UNCHANGED faults \/ Fault
      /\ \/ /\ TransitionApplies(journal, task.row, task.from, "FAILED")
            /\ journal' = Transitioned(journal, task.row, task.from, "FAILED", detail)
            /\ Success
         \/ Proceed("fail")
  BY <1>2 DEF MarkFailed, Transition
<1>4. "FAILED" \in TransactionStates /\ task.from \in FromAt("mark_failed")
  BY <1>1, RowFacts DEF TransactionStates
<1>5. ASSUME Moves(journal, journal', task.row, "FAILED", detail),
             journal[task.row].state = task.from
      PROVE  RecordOK(journal', nft, ipt, installed, wiped, misprobed)
  BY <1>1, <1>2, <1>4, <1>5, RecordStep DEF FinishedStates, FromAt
<1>6. ASSUME Moves(journal, journal', task.row, "FAILED", detail), Success
      PROVE  task' \in Tasks /\ TaskOK(task', journal', nft, ipt, installed, disturbed, misprobed)
  BY <1>1, <1>6, EndedOK
<1>7. \/ task' \in Tasks /\ TaskOK(task', journal', nft, ipt, installed, disturbed, misprobed)
      \/ Proceed("fail")
  <2> HIDE DEF Success
  <2> QED
    BY <1>1, <1>3, <1>4, <1>6, WrittenJournal, RowFacts
<1> HIDE DEF Success
<1>8. "fail" \in {"fail", "roll_back", "mark_not_applied"}
      /\ ("fail" # "fail" => task.from \in FromAt("fail"))
  BY <1>4 DEF FromAt
<1> QED
  BY <1>1, <1>3, <1>4, <1>5, <1>7, <1>8, TransitionStep

\* An operator undoes the newest commit.
LEMMA MarkRollingBackStep == ASSUME NInv, MarkRollingBack PROVE NInv'
<1> DEFINE Success == Reached("restore", "ROLLING_BACK")
<1>1. task.step = "mark_rolling_back" /\ task.step \in RowSteps /\ UNCHANGED <<others, kernel, disturbed, wiped>>
  BY DEF MarkRollingBack, RowSteps
<1>2. PICK detail \in Details : detail = "operator_requested"
  BY DEF Details
<1>3. /\ journal' \in {journal, Transitioned(journal, task.row, task.from, "ROLLING_BACK", detail)}
      /\ UNCHANGED faults \/ Fault
      /\ \/ /\ TransitionApplies(journal, task.row, task.from, "ROLLING_BACK")
            /\ journal' = Transitioned(journal, task.row, task.from, "ROLLING_BACK", detail)
            /\ Success
         \/ Proceed("fail")
  BY <1>2 DEF MarkRollingBack, Transition
<1>4. "ROLLING_BACK" \in TransactionStates /\ task.from \in FromAt("mark_rolling_back")
  BY <1>1, RowFacts DEF TransactionStates
<1>5. ASSUME Moves(journal, journal', task.row, "ROLLING_BACK", detail),
             journal[task.row].state = task.from
      PROVE  RecordOK(journal', nft, ipt, installed, wiped, misprobed)
  <2>1. PICK row \in DOMAIN journal : row = task.row
    BY <1>1, RowFacts
  <2>2. /\ journal \in Seq(Entries) /\ RecordOK(journal, nft, ipt, installed, wiped, misprobed)
        /\ IsTop(journal, row) /\ (misprobed \/ Alone(nft, ipt, journal[row].component))
    BY <1>1, <2>1 DEF NInv, TypeOK, TaskOK
  <2>3. Undoable(journal, row) /\ Moves(journal, journal', row, "ROLLING_BACK", detail)
    BY <1>4, <1>5, <2>1 DEF Undoable, FromAt
  <2>4. detail # "rollback_failed"
    BY <1>2
  <2> QED
    BY <1>4, <2>2, <2>3, <2>4, MoveKeepsRecord
<1>6. ASSUME Moves(journal, journal', task.row, "ROLLING_BACK", detail), Success
      PROVE  task' \in Tasks /\ TaskOK(task', journal', nft, ipt, installed, disturbed, misprobed)
  <2> DEFINE t == [task EXCEPT !.step = "restore", !.from = "ROLLING_BACK"]
  <2>1. t.step = "restore" /\ t.todo = task.todo /\ t.seen = task.seen
    BY <1>1, RowFacts DEF Tasks
  <2>2. KernelAt(t, journal[task.row], nft, ipt, disturbed)
    <3> HIDE DEF t
    <3> QED
      BY <1>1, <2>1, RowFacts DEF KernelAt, Remaining
  <2> HIDE DEF t
  <2>3. "restore" \in Steps /\ "restore" \in RowSteps /\ "ROLLING_BACK" \in FromAt("restore")
    BY DEF Steps, RowSteps, FromAt
  <2> QED
    BY <1>1, <1>4, <1>6, <2>2, <2>3, ReachedOK DEF t
<1>7. \/ task' \in Tasks /\ TaskOK(task', journal', nft, ipt, installed, disturbed, misprobed)
      \/ Proceed("fail")
  <2> HIDE DEF Success
  <2> QED
    BY <1>1, <1>3, <1>4, <1>6, WrittenJournal, RowFacts
<1> HIDE DEF Success
<1>8. "fail" \in {"fail", "roll_back", "mark_not_applied"}
      /\ ("fail" # "fail" => task.from \in FromAt("fail"))
  BY <1>4 DEF FromAt
<1> QED
  BY <1>1, <1>3, <1>4, <1>5, <1>7, <1>8, TransitionStep

-------------------------------------------------------------------------------
(* Inspections and commands.                                               *)

\* Each chain is in one of the two tables.
LEMMA ChainTables == \A c \in Chains : TableOf[c] \in {"nat", "filter"}
<1>1. Chains = {"prerouting", "postrouting", "forward"}
  BY DEF Chains, TableOf
<1>2. TableOf["prerouting"] = "nat" /\ TableOf["postrouting"] = "nat" /\ TableOf["forward"] = "filter"
  BY DEF TableOf
<1> QED
  BY <1>1, <1>2

\* What the kernel holds of an object has its type.
LEMMA HeldType ==
    ASSUME NInv, NEW o \in Objects
    PROVE  Content(o) = Held(nft, ipt, o) /\ Held(nft, ipt, o) \in ContentsOf(o)
<1>1. o[2] \in Families /\ nft \in [Families -> Forwards \cup {None}] /\ ipt \in [Families -> TidyStates]
  BY DEF NInv, TypeOK, Objects
<1> QED
  BY <1>1 DEF Content, Held, ContentsOf

\* The entry of a new operation carries the state the handler found.
LEMMA CreateStep == ASSUME NInv, Create PROVE NInv'
<1> DEFINE o == task.plan.object
           e == [id |-> Len(journal) + 1, component |-> o, state |-> "PREPARED",
                 snapshot |-> Content(o), candidate |-> task.plan.forwards,
                 detail |-> "none", damage |-> "none"]
           t == [task EXCEPT !.step = "validate", !.row = Len(journal) + 1]
<1>1. /\ task.step = "create" /\ UNCHANGED <<others, kernel, wiped>> /\ disturbed' = {}
      /\ UNCHANGED faults \/ Fault
      /\ \/ journal' = Append(journal, e) /\ task' = t
         \/ journal' \in {journal, Append(journal, e)} /\ Return(FALSE)
  BY DEF Create, Created
<1>2. /\ journal \in Seq(Entries) /\ task \in Tasks /\ task.plan \in Plans
      /\ UnfinishedRows(journal) = {} /\ task.rows = {}
      /\ misprobed \/ Alone(nft, ipt, o)
      /\ o[1] = "nftables" => "nftables" \in installed
      /\ RecordOK(journal, nft, ipt, installed, wiped, misprobed)
  BY <1>1 DEF NInv, TypeOK, TaskOK
<1>3. o \in Objects /\ task.plan.forwards \in Forwards
  BY <1>2 DEF Plans
<1>4. Content(o) = Held(nft, ipt, o) /\ Held(nft, ipt, o) \in ContentsOf(o)
  BY <1>3, HeldType
<1>5. Content(o) \in Contents
  BY <1>4 DEF ContentsOf, Contents, TidyStates
<1>6. /\ e \in Entries /\ e.state = "PREPARED" /\ e.detail = "none" /\ e.component = o
      /\ e.snapshot = Held(nft, ipt, o) /\ e.candidate = task.plan.forwards
  BY <1>2, <1>3, <1>4, <1>5 DEF Entries, TransactionStates, Details
<1>7. UNCHANGED <<nft, ipt>> /\ nft \in [Families -> Forwards \cup {None}] /\ ipt \in [Families -> TidyStates]
  BY <1>1 DEF kernel, NInv, TypeOK
<1>8. t \in Tasks /\ t.step = "validate" /\ t.row = Len(journal) + 1 /\ t.rows = task.rows /\ t.from = task.from
  <2>1. Len(journal) + 1 \in Nat /\ "validate" \in Steps
    BY <1>2 DEF Steps
  <2> QED
    BY <1>2, <2>1 DEF Tasks
<1> HIDE DEF e, t
<1>9. RecordOK(Append(journal, e), nft, ipt, installed, wiped, misprobed)
  BY <1>2, <1>4, <1>6, CreationKeepsRecord
<1>10. /\ Append(journal, e) \in Seq(Entries) /\ Len(journal) + 1 \in DOMAIN Append(journal, e)
       /\ Append(journal, e)[Len(journal) + 1] = e
  BY <1>2, <1>6, AppendProperties
<1>11. journal' \in Seq(Entries) /\ RecordOK(journal', nft', ipt', installed, wiped, misprobed)
  BY <1>1, <1>2, <1>7, <1>9, <1>10
<1>12. CASE Return(FALSE)
  <2>1. task' \in Tasks /\ TaskOK(task', journal', nft', ipt', installed, disturbed', misprobed)
    BY <1>2, <1>12, ReturnOK
  <2> QED
    BY <1>1, <1>7, <1>11, <2>1, TaskStep
<1>13. CASE journal' = Append(journal, e) /\ task' = t
  <2>1. task.from = "PREPARED"
    BY <1>1, <1>2 DEF NInv, TaskOK
  <2>2. KernelAt(t, e, nft, ipt, disturbed')
    <3>1. o[1] = "iptables" => \A c \in Chains :
              TableOf[c] \in Tables /\ ipt[o[2]][c].anchors <= e.snapshot[c].anchors
      <4> SUFFICES ASSUME o[1] = "iptables", NEW c \in Chains
                   PROVE  TableOf[c] \in Tables /\ ipt[o[2]][c].anchors <= e.snapshot[c].anchors
        OBVIOUS
      <4>1. e.snapshot = ipt[o[2]] /\ ipt[o[2]] \in TidyStates
        BY <1>3, <1>6, <1>7 DEF Held, Objects
      <4>2. ipt[o[2]][c].anchors \in {0, 1}
        BY <4>1, ChainOfState
      <4> QED
        BY <4>1, <4>2, ChainTables DEF Tables
    <3> QED
      BY <1>6, <1>8, <3>1 DEF KernelAt, Remaining
  <2>3. TaskOK(t, journal', nft', ipt', installed, disturbed', misprobed)
    BY <1>2, <1>6, <1>7, <1>8, <1>10, <1>13, <2>1, <2>2 DEF TaskOK, FromAt
  <2> QED
    BY <1>1, <1>7, <1>8, <1>11, <1>13, <2>3, TaskStep
<1> QED
  BY <1>1, <1>12, <1>13

\* The operation of the task, applied or being undone, changes its object.
LEMMA WorkStep ==
    ASSUME NInv, task.step \in {"install", "write"}, NEW n, NEW i,
           IF journal[task.row].component[1] = "nftables"
           THEN i = ipt /\ \A f \in Families \ {journal[task.row].component[2]} : n[f] = nft[f]
           ELSE n = nft /\ \A f \in Families \ {journal[task.row].component[2]} : i[f] = ipt[f]
    PROVE  RecordOK(journal, n, i, installed, wiped, misprobed)
<1>1. PICK row \in DOMAIN journal : row = task.row
  BY RowFacts DEF RowSteps
<1>2. /\ journal[row].component \in Objects /\ journal[row].state \in {"APPLYING", "ROLLING_BACK"}
      /\ row \in UnfinishedRows(journal)
  BY <1>1, RowFacts DEF RowSteps, FromAt, UnfinishedRows, FinishedStates
<1>3. RecordOK(journal, nft, ipt, installed, wiped, misprobed)
  BY DEF NInv
<1> QED
  BY <1>1, <1>2, <1>3, WorkKeepsRecord

\* One command that replaces an nftables table or commits a table of iptables.
LEMMA CommandStep ==
    ASSUME NInv, task.step \in {"install", "write"}, UNCHANGED <<others, journal, disturbed, wiped>>,
           NEW o, o = journal[task.row].component, NEW f, f = o[2],
           NEW new \in ContentsOf(o), NEW s \in TidyStates,
           \/ UNCHANGED kernel
           \/ o[1] = "nftables" /\ nft' = [nft EXCEPT ![f] = new] /\ UNCHANGED ipt
           \/ o[1] # "nftables" /\ ipt' = [ipt EXCEPT ![f] = s] /\ UNCHANGED nft,
           UNCHANGED faults \/ Fault,
           \/ OnError
           \/ /\ task' \in Tasks
              /\ TaskOK(task', journal, nft', ipt', installed, disturbed, misprobed)
    PROVE  NInv'
<1>1. task.step \in RowSteps
  BY DEF RowSteps
<1>2. nft \in [Families -> Forwards \cup {None}] /\ ipt \in [Families -> TidyStates] /\ f \in Families
  BY <1>1, RowFacts DEF NInv, TypeOK
<1>3. nft' \in [Families -> Forwards \cup {None}] /\ ipt' \in [Families -> TidyStates]
  BY <1>2 DEF kernel, ContentsOf
<1>4. RecordOK(journal, nft', ipt', installed, wiped, misprobed)
  <2>1. CASE UNCHANGED kernel
    BY <2>1 DEF kernel, NInv
  <2>2. CASE o[1] = "nftables" /\ nft' = [nft EXCEPT ![f] = new] /\ UNCHANGED ipt
    <3>1. \A g \in Families \ {f} : nft'[g] = nft[g]
      BY <1>2, <2>2
    <3> QED
      BY <2>2, <3>1, WorkStep
  <2>3. CASE o[1] # "nftables" /\ ipt' = [ipt EXCEPT ![f] = s] /\ UNCHANGED nft
    <3>1. \A g \in Families \ {f} : ipt'[g] = ipt[g]
      BY <1>2, <2>3
    <3> QED
      BY <2>3, <3>1, WorkStep
  <2> QED
    BY <2>1, <2>2, <2>3
<1>5. task' \in Tasks /\ TaskOK(task', journal, nft', ipt', installed, disturbed, misprobed)
  <2>1. PICK n : n = nft'
    OBVIOUS
  <2>2. PICK i : i = ipt'
    OBVIOUS
  <2>3. CASE OnError
    BY <2>1, <2>2, <2>3, OnErrorOK
  <2> QED
    BY <2>3
<1>6. journal \in Seq(Entries) /\ UNCHANGED journal
  BY DEF NInv, TypeOK
<1> QED
  BY <1>3, <1>4, <1>5, <1>6, TaskStep

\* The candidate replaces the nftables table, or fills the chains of one table of
\* iptables.
LEMMA InstallCandidateStep == ASSUME NInv, InstallCandidate PROVE NInv'
<1> DEFINE e == journal[task.row]
           o == e.component
           f == o[2]
           table == IF "nat" \in task.todo THEN "nat" ELSE "filter"
           file == CandidateFile(e.candidate, e.snapshot)
           s == Committed(ipt[f], table, file)
           complete == o[1] = "nftables" \/ table = "filter"
           t == [task EXCEPT !.todo = IF complete THEN {} ELSE {"filter"},
                             !.step = IF complete THEN "mark_verifying" ELSE @]
<1>1. task.step = "install" /\ task.step \in RowSteps /\ UNCHANGED <<others, journal, disturbed, wiped>>
  BY DEF InstallCandidate, RowSteps
<1>2. /\ Entry = e /\ e \in Entries /\ o \in Objects /\ o[1] \in Engines /\ f \in Families
      /\ e.candidate \in Forwards /\ e.snapshot \in ContentsOf(o) /\ task \in Tasks
      /\ task.todo \in {Tables, {"filter"}} /\ task.from = "APPLYING" /\ e.state = "APPLYING"
      /\ task.row \in DOMAIN journal \ task.rows /\ task.rows \subseteq UnfinishedRows(journal)
      /\ KernelAt(task, e, nft, ipt, disturbed)
      /\ nft \in [Families -> Forwards \cup {None}] /\ ipt \in [Families -> TidyStates]
  BY <1>1, RowFacts DEF FromAt, NInv, TypeOK, TaskOK
<1>3. /\ UNCHANGED faults \/ Fault
      /\ \/ UNCHANGED kernel /\ OnError
         \/ /\ o[1] = "nftables" /\ nft' = [nft EXCEPT ![f] = e.candidate] /\ UNCHANGED ipt
            /\ OnError \/ task' = t
         \/ /\ o[1] # "nftables" /\ ipt' = [ipt EXCEPT ![f] = s] /\ UNCHANGED nft
            /\ OnError \/ task' = t
  BY <1>2 DEF InstallCandidate, Install
<1>4. e.candidate \in ContentsOf(o) \/ o[1] # "nftables"
  BY <1>2 DEF ContentsOf
<1>5. table \in {"nat", "filter"} /\ (table = "nat" <=> task.todo = Tables)
      /\ (table = "filter" <=> task.todo = {"filter"})
  BY <1>2 DEF Tables
<1>6. t \in Tasks /\ t.row = task.row /\ t.rows = task.rows /\ t.from = "APPLYING"
      /\ t.step = (IF complete THEN "mark_verifying" ELSE "install")
      /\ t.todo = (IF complete THEN {} ELSE {"filter"})
  <2>1. {} \in SUBSET Tables /\ {"filter"} \in SUBSET Tables /\ "mark_verifying" \in Steps
    BY DEF Tables, Steps
  <2> QED
    BY <1>1, <1>2, <2>1 DEF Tasks
<1> HIDE DEF t
<1>7. CASE o[1] = "nftables"
  <2>1. ASSUME nft' = [nft EXCEPT ![f] = e.candidate], UNCHANGED ipt, task' = t
        PROVE  task' \in Tasks /\ TaskOK(task', journal, nft', ipt', installed, disturbed, misprobed)
    <3>1. nft'[f] = e.candidate
      BY <1>2, <2>1
    <3>2. KernelAt(t, e, nft', ipt', disturbed)
      BY <1>6, <1>7, <3>1 DEF KernelAt
    <3>3. TaskOK(t, journal, nft', ipt', installed, disturbed, misprobed)
      BY <1>2, <1>6, <1>7, <3>2 DEF TaskOK, FromAt
    <3> QED
      BY <1>6, <2>1, <3>3
  <2>2. NoChains \in TidyStates
    BY NoChainsTidy
  <2> QED
    BY <1>1, <1>3, <1>4, <1>7, <2>1, <2>2, CommandStep
<1>8. CASE o[1] # "nftables"
  <2>1. o[1] = "iptables" /\ e.snapshot \in TidyStates /\ ipt[f] \in TidyStates
    BY <1>2, <1>8 DEF Engines, ContentsOf
  <2>2. /\ \A c \in Chains :
               IF TableOf[c] \in task.todo THEN ipt[f][c].anchors <= e.snapshot[c].anchors
               ELSE FilledChain(ipt[f], c, e.candidate)
    BY <1>1, <1>2, <2>1 DEF KernelAt, Remaining
  <2>3. \A c \in Chains : TableOf[c] = table => TableOf[c] \in task.todo
    BY <1>2, <1>5 DEF Tables
  <2>4. /\ s \in TidyStates
        /\ \A c \in Chains : TableOf[c] = table => FilledChain(s, c, e.candidate)
        /\ \A c \in Chains : TableOf[c] # table => s[c] = ipt[f][c]
    <3>1. PICK before : before = ipt[f]
      OBVIOUS
    <3>2. PICK base : base = e.snapshot
      OBVIOUS
    <3>3. PICK forwards : forwards = e.candidate
      OBVIOUS
    <3>4. s = Committed(before, table, CandidateFile(forwards, base))
      BY <3>1, <3>2, <3>3
    <3>5. before \in TidyStates /\ base \in TidyStates /\ forwards \in Forwards
      BY <1>2, <2>1, <3>1, <3>2, <3>3 DEF Entries
    <3> HIDE DEF s, table, complete, f
    <3>6. \A c \in Chains : TableOf[c] = table => before[c].anchors <= base[c].anchors
      BY <2>2, <2>3, <3>1, <3>2
    <3>7. InstalledBy(Committed(before, table, CandidateFile(forwards, base)), before, table, forwards)
      BY <3>5, <3>6, CandidateIsInstalled
    <3> QED
      BY <3>1, <3>3, <3>4, <3>7 DEF InstalledBy
  <2> HIDE DEF s
  <2>5. ASSUME ipt' = [ipt EXCEPT ![f] = s], UNCHANGED nft, task' = t
        PROVE  task' \in Tasks /\ TaskOK(task', journal, nft', ipt', installed, disturbed, misprobed)
    <3>1. ipt'[f] = s
      BY <1>2, <2>5
    <3>2. CASE table = "filter"
      <4>1. \A c \in Chains : FilledChain(s, c, e.candidate)
        <5> SUFFICES ASSUME NEW c \in Chains, TableOf[c] # "filter"
                     PROVE  FilledChain(s, c, e.candidate)
          BY <2>4, <3>2
        <5>1. TableOf[c] \notin task.todo
          BY <1>5, <3>2
        <5>2. FilledChain(ipt[f], c, e.candidate) /\ s[c] = ipt[f][c]
          BY <2>2, <2>4, <3>2, <5>1
        <5> QED
          BY <5>2 DEF FilledChain
      <4>2. KernelAt(t, e, nft', ipt', disturbed)
        BY <1>6, <1>8, <3>1, <3>2, <4>1 DEF KernelAt
      <4>3. TaskOK(t, journal, nft', ipt', installed, disturbed, misprobed)
        BY <1>2, <1>6, <1>8, <3>2, <4>2 DEF TaskOK, FromAt
      <4> QED
        BY <1>6, <2>5, <4>3
    <3>3. CASE table = "nat"
      <4>1. ~complete
        BY <1>8, <3>3
      <4>2. \A c \in Chains :
                IF TableOf[c] \in {"filter"} THEN s[c].anchors <= e.snapshot[c].anchors
                ELSE FilledChain(s, c, e.candidate)
        <5> SUFFICES ASSUME NEW c \in Chains
                     PROVE  IF TableOf[c] \in {"filter"} THEN s[c].anchors <= e.snapshot[c].anchors
                            ELSE FilledChain(s, c, e.candidate)
          OBVIOUS
        <5>1. TableOf[c] \in {"nat", "filter"}
          BY ChainTables
        <5>2. TableOf[c] = "filter" => TableOf[c] \in task.todo
          BY <1>5, <3>3 DEF Tables
        <5> QED
          BY <2>2, <2>4, <3>3, <5>1, <5>2
      <4>3. KernelAt(t, e, nft', ipt', disturbed)
        BY <1>6, <2>1, <3>1, <4>1, <4>2 DEF KernelAt, Remaining
      <4>4. TaskOK(t, journal, nft', ipt', installed, disturbed, misprobed)
        BY <1>2, <1>6, <4>1, <4>3 DEF TaskOK, FromAt
      <4> QED
        BY <1>6, <2>5, <4>4
    <3> QED
      BY <1>5, <3>2, <3>3
  <2>6. PICK new \in ContentsOf(o) : TRUE
    BY <1>2
  <2> QED
    BY <1>1, <1>3, <1>8, <2>4, <2>5, <2>6, CommandStep
<1> QED
  BY <1>7, <1>8

\* A verified candidate is exactly there: what verification does not look at nobody
\* has changed.
LEMMA VerifyStep == ASSUME NInv, Verify PROVE NInv'
<1> DEFINE e == journal[task.row]
           o == e.component
           f == o[2]
<1>1. /\ task.step = "verify" /\ task.step \in RowSteps /\ UNCHANGED <<others, journal, kernel, wiped>>
      /\ disturbed' = {}
  BY DEF Verify, RowSteps
<1>2. /\ Entry = e /\ e \in Entries /\ o \in Objects /\ o[1] \in Engines /\ f \in Families
      /\ e.candidate \in Forwards /\ task.from = "VERIFYING" /\ e.state = "VERIFYING"
      /\ task.row \in DOMAIN journal \ task.rows /\ task.rows \subseteq UnfinishedRows(journal)
      /\ KernelAt(task, e, nft, ipt, disturbed) /\ journal \in Seq(Entries)
      /\ nft \in [Families -> Forwards \cup {None}] /\ ipt \in [Families -> TidyStates]
      /\ RecordOK(journal, nft, ipt, installed, wiped, misprobed)
  BY <1>1, RowFacts DEF FromAt, NInv, TypeOK
<1>3. /\ UNCHANGED faults \/ Fault
      /\ (Verified(o) /\ Goto("commit")) \/ Goto("roll_back")
  BY <1>2 DEF Verify
<1>4. CASE Goto("roll_back")
  <2>1. Proceed("roll_back") /\ task.from \in FromAt("roll_back")
    BY <1>2, <1>4 DEF Proceed, FromAt
  <2>2. task' \in Tasks /\ TaskOK(task', journal', nft', ipt', installed, disturbed', misprobed)
    BY <1>1, <1>2, <2>1, ErrorOK
  <2> QED
    BY <1>1, <1>2, <1>3, <2>2, TaskStep DEF kernel
<1>5. CASE Verified(o) /\ Goto("commit")
  <2>1. Held(nft, ipt, o) = Rendered(o, e.candidate)
    <3>1. CASE o[1] = "nftables"
      <4>1. nft[f] # None /\ nft[f] \in {e.candidate, None}
        BY <1>1, <1>2, <1>5, <3>1 DEF Verified, KernelAt
      <4> QED
        BY <3>1, <4>1 DEF Held, Rendered
    <3>2. CASE o[1] # "nftables"
      <4>1. ipt[f] \in TidyStates
        BY <1>2
      <4>2. \A c \in Chains : ipt[f][c].anchors > 0 /\ FilledChain(ipt[f], c, e.candidate)
        BY <1>1, <1>2, <1>5, <3>2 DEF Verified, KernelAt
      <4>3. \A c \in Chains : ipt[f][c] = [present |-> TRUE, anchors |-> 1, rules |-> e.candidate]
        <5> SUFFICES ASSUME NEW c \in Chains
                     PROVE  ipt[f][c] = [present |-> TRUE, anchors |-> 1, rules |-> e.candidate]
          OBVIOUS
        <5>1. /\ ipt[f][c] \in Chain /\ ipt[f][c].anchors \in {0, 1} /\ ipt[f][c].anchors > 0
              /\ ipt[f][c].present /\ ipt[f][c].rules = e.candidate
          BY <4>1, <4>2, ChainOfState DEF FilledChain
        <5>2. ipt[f][c].present = TRUE
          BY <5>1 DEF Chain
        <5>3. ipt[f][c].anchors = 1
          BY <5>1
        <5> QED
          BY <5>1, <5>2, <5>3 DEF Chain
      <4>4. ipt[f] = Filled(e.candidate)
        <5>1. ipt[f] = [c \in Chains |-> ipt[f][c]]
          BY <4>1 DEF TidyStates, IPTablesStates
        <5> QED
          BY <4>3, <5>1 DEF Filled
      <4> QED
        BY <3>2, <4>4 DEF Held, Rendered
    <3> QED
      BY <3>1, <3>2
  <2>2. "commit" \in Steps
    BY DEF Steps
  <2>3. /\ task' \in Tasks /\ task'.step = "commit" /\ task'.row = task.row
        /\ task'.rows = task.rows /\ task'.from = task.from
    BY <1>5, <2>2, GotoMoves
  <2>4. KernelAt(task', e, nft, ipt, {})
    BY <2>1, <2>3 DEF KernelAt
  <2>5. TaskOK(task', journal, nft, ipt, installed, {}, misprobed)
    BY <1>2, <2>3, <2>4 DEF TaskOK, FromAt
  <2> QED
    BY <1>1, <1>2, <1>3, <2>3, <2>5, TaskStep DEF kernel
<1> QED
  BY <1>3, <1>4, <1>5

\* A restore looks at the kernel first, and has nothing to do when there is no table
\* and there was none.
LEMMA RestoreStep == ASSUME NInv, Restore PROVE NInv'
<1> DEFINE e == journal[task.row]
           o == e.component
           f == o[2]
           nothing == o[1] = "nftables" /\ e.snapshot = None /\ Content(o) = None
           t == [task EXCEPT !.step = IF nothing THEN "mark_rolled_back" ELSE "write",
                             !.seen = Content(o), !.todo = Tables]
<1>1. /\ task.step = "restore" /\ task.step \in RowSteps /\ UNCHANGED <<others, journal, kernel, wiped>>
      /\ disturbed' = {}
  BY DEF Restore, RowSteps
<1>2. /\ Entry = e /\ e \in Entries /\ o \in Objects /\ o[1] \in Engines /\ f \in Families
      /\ e.snapshot \in ContentsOf(o) /\ task \in Tasks
      /\ task.from = "ROLLING_BACK" /\ e.state = "ROLLING_BACK"
      /\ task.row \in DOMAIN journal \ task.rows /\ task.rows \subseteq UnfinishedRows(journal)
      /\ journal \in Seq(Entries)
      /\ nft \in [Families -> Forwards \cup {None}] /\ ipt \in [Families -> TidyStates]
      /\ RecordOK(journal, nft, ipt, installed, wiped, misprobed)
  BY <1>1, RowFacts DEF FromAt, NInv, TypeOK
<1>3. /\ UNCHANGED faults \/ Fault
      /\ task' = t \/ OnError
  BY <1>2 DEF Restore
<1>4. CASE OnError
  <2>1. PICK n : n = nft'
    OBVIOUS
  <2>2. PICK i : i = ipt'
    OBVIOUS
  <2>3. task' \in Tasks /\ TaskOK(task', journal', nft', ipt', installed, disturbed', misprobed)
    BY <1>1, <1>4, <2>1, <2>2, OnErrorOK
  <2> QED
    BY <1>1, <1>2, <1>3, <2>3, TaskStep DEF kernel
<1>5. CASE task' = t
  <2>1. Content(o) = Held(nft, ipt, o) /\ Held(nft, ipt, o) \in ContentsOf(o)
    BY <1>2, HeldType
  <2>2. Content(o) \in Contents
    BY <2>1 DEF ContentsOf, Contents, TidyStates
  <2>3. /\ t \in Tasks /\ t.step = (IF nothing THEN "mark_rolled_back" ELSE "write")
        /\ t.seen = Held(nft, ipt, o) /\ t.todo = Tables /\ t.row = task.row /\ t.rows = task.rows
        /\ t.from = task.from
    BY <1>2, <2>1, <2>2 DEF Tasks, Steps
  <2> HIDE DEF t
  <2>4. nothing => Held(nft, ipt, o) = e.snapshot
    BY <2>1
  <2>5. o[1] = "iptables" => \A c \in Chains :
            TableOf[c] \in Tables /\ ipt[f][c].anchors <= t.seen[c].anchors /\ ipt[f][c] = t.seen[c]
    <3> SUFFICES ASSUME o[1] = "iptables", NEW c \in Chains
                 PROVE  TableOf[c] \in Tables /\ ipt[f][c].anchors <= t.seen[c].anchors
                        /\ ipt[f][c] = t.seen[c]
      OBVIOUS
    <3>1. t.seen = ipt[f] /\ ipt[f] \in TidyStates
      BY <1>2, <2>3 DEF Held
    <3>2. ipt[f][c].anchors \in {0, 1}
      BY <3>1, ChainOfState
    <3> QED
      BY <3>1, <3>2, ChainTables DEF Tables
  <2> HIDE DEF nothing
  <2>6. KernelAt(t, e, nft, ipt, {})
    BY <2>1, <2>3, <2>4, <2>5 DEF KernelAt, Remaining
  <2>7. TaskOK(t, journal, nft, ipt, installed, {}, misprobed)
    BY <1>2, <2>3, <2>6 DEF TaskOK, FromAt
  <2> QED
    BY <1>1, <1>2, <1>3, <1>5, <2>3, <2>7, TaskStep DEF kernel
<1> QED
  BY <1>3, <1>4, <1>5

\* The snapshot replaces the nftables table, or the chains of one table of iptables
\* are brought back to it.
LEMMA WriteSnapshotStep == ASSUME NInv, WriteSnapshot PROVE NInv'
<1> DEFINE e == journal[task.row]
           o == e.component
           f == o[2]
           table == IF "nat" \in task.todo THEN "nat" ELSE "filter"
           file == RestoreFile(e.snapshot, task.seen)
           s == Committed(ipt[f], table, file)
           complete == o[1] = "nftables" \/ table = "filter"
           t == [task EXCEPT !.todo = IF complete THEN {} ELSE {"filter"},
                             !.step = IF complete THEN "mark_rolled_back" ELSE @]
<1>1. task.step = "write" /\ task.step \in RowSteps /\ UNCHANGED <<others, journal, disturbed, wiped>>
  BY DEF WriteSnapshot, RowSteps
<1>2. /\ Entry = e /\ e \in Entries /\ o \in Objects /\ o[1] \in Engines /\ f \in Families
      /\ e.snapshot \in ContentsOf(o) /\ task \in Tasks
      /\ task.todo \in {Tables, {"filter"}} /\ task.from = "ROLLING_BACK" /\ e.state = "ROLLING_BACK"
      /\ task.row \in DOMAIN journal \ task.rows /\ task.rows \subseteq UnfinishedRows(journal)
      /\ KernelAt(task, e, nft, ipt, disturbed)
      /\ nft \in [Families -> Forwards \cup {None}] /\ ipt \in [Families -> TidyStates]
  BY <1>1, RowFacts DEF FromAt, NInv, TypeOK, TaskOK
<1>3. /\ UNCHANGED faults \/ Fault
      /\ \/ UNCHANGED kernel /\ OnError
         \/ /\ o[1] = "nftables" /\ nft' = [nft EXCEPT ![f] = e.snapshot] /\ UNCHANGED ipt
            /\ OnError \/ task' = t
         \/ /\ o[1] # "nftables" /\ ipt' = [ipt EXCEPT ![f] = s] /\ UNCHANGED nft
            /\ AcceptsTable(ipt[f], table, file)
            /\ OnError \/ task' = t
  BY <1>2 DEF WriteSnapshot, Install
<1>4. table \in {"nat", "filter"} /\ (table = "nat" <=> task.todo = Tables)
      /\ (table = "filter" <=> task.todo = {"filter"})
  BY <1>2 DEF Tables
<1>5. t \in Tasks /\ t.row = task.row /\ t.rows = task.rows /\ t.from = "ROLLING_BACK"
      /\ t.step = (IF complete THEN "mark_rolled_back" ELSE "write")
      /\ t.todo = (IF complete THEN {} ELSE {"filter"}) /\ t.seen = task.seen
  <2>1. {} \in SUBSET Tables /\ {"filter"} \in SUBSET Tables /\ "mark_rolled_back" \in Steps
    BY DEF Tables, Steps
  <2> QED
    BY <1>1, <1>2, <2>1 DEF Tasks
<1> HIDE DEF t
<1>6. CASE UNCHANGED kernel /\ OnError
  <2>1. NoChains \in TidyStates
    BY NoChainsTidy
  <2> QED
    BY <1>1, <1>2, <1>3, <1>6, <2>1, CommandStep
<1>7. CASE o[1] = "nftables" /\ nft' = [nft EXCEPT ![f] = e.snapshot] /\ UNCHANGED ipt
  <2>1. ASSUME task' = t
        PROVE  task' \in Tasks /\ TaskOK(task', journal, nft', ipt', installed, disturbed, misprobed)
    <3>1. Held(nft', ipt', o) = e.snapshot
      BY <1>2, <1>7 DEF Held
    <3>2. KernelAt(t, e, nft', ipt', disturbed)
      BY <1>5, <1>7, <3>1 DEF KernelAt
    <3>3. TaskOK(t, journal, nft', ipt', installed, disturbed, misprobed)
      BY <1>2, <1>5, <1>7, <3>2 DEF TaskOK, FromAt
    <3> QED
      BY <1>5, <2>1, <3>3
  <2>2. NoChains \in TidyStates
    BY NoChainsTidy
  <2> QED
    BY <1>1, <1>2, <1>3, <1>7, <2>1, <2>2, CommandStep
<1>8. CASE /\ o[1] # "nftables" /\ ipt' = [ipt EXCEPT ![f] = s] /\ UNCHANGED nft
           /\ AcceptsTable(ipt[f], table, file)
  <2>1. o[1] = "iptables" /\ e.snapshot \in TidyStates /\ ipt[f] \in TidyStates
    BY <1>2, <1>8 DEF Engines, ContentsOf
  <2>2. /\ task.seen \in TidyStates
        /\ \A c \in Chains :
               IF TableOf[c] \in task.todo
               THEN ipt[f][c].anchors <= task.seen[c].anchors
                    /\ (o \in disturbed \/ ipt[f][c] = task.seen[c])
               ELSE o \in disturbed \/ ipt[f][c] = e.snapshot[c]
    BY <1>1, <1>2, <2>1 DEF KernelAt, Remaining, ContentsOf
  <2>3. \A c \in Chains : TableOf[c] = table => TableOf[c] \in task.todo
    BY <1>2, <1>4 DEF Tables
  <2>4. /\ s \in TidyStates
        /\ \A c \in Chains : TableOf[c] = table /\ ipt[f][c] = task.seen[c] => s[c] = e.snapshot[c]
        /\ \A c \in Chains : TableOf[c] # table => s[c] = ipt[f][c]
    <3>1. PICK before : before = ipt[f]
      OBVIOUS
    <3>2. PICK seen : seen = task.seen
      OBVIOUS
    <3>3. PICK previous : previous = e.snapshot
      OBVIOUS
    <3>4. file = RestoreFile(previous, seen) /\ s = Committed(before, table, RestoreFile(previous, seen))
      BY <3>1, <3>2, <3>3
    <3>5. before \in TidyStates /\ previous \in TidyStates /\ seen \in TidyStates
      BY <2>1, <2>2, <3>1, <3>2, <3>3
    <3>6. AcceptsTable(before, table, RestoreFile(previous, seen))
      BY <1>8, <3>1, <3>4
    <3> HIDE DEF file, s, table, complete, f
    <3>7. \A c \in Chains : TableOf[c] = table => before[c].anchors <= seen[c].anchors
      BY <2>2, <2>3, <3>1, <3>2
    <3>8. RestoredBy(Committed(before, table, RestoreFile(previous, seen)), before, table, previous, seen)
      BY <3>5, <3>6, <3>7, SnapshotIsRestored
    <3> QED
      BY <3>1, <3>2, <3>3, <3>4, <3>8 DEF RestoredBy
  <2> HIDE DEF s
  <2>5. ipt'[f] = s
    BY <1>2, <1>8
  <2>6. ASSUME task' = t
        PROVE  task' \in Tasks /\ TaskOK(task', journal, nft', ipt', installed, disturbed, misprobed)
    <3>1. CASE table = "filter"
      <4>1. ASSUME o \notin disturbed
            PROVE  s = e.snapshot
        <5>1. \A c \in Chains : s[c] = e.snapshot[c]
          <6> SUFFICES ASSUME NEW c \in Chains
                       PROVE  s[c] = e.snapshot[c]
            OBVIOUS
          <6>1. CASE TableOf[c] = "filter"
            BY <2>2, <2>3, <2>4, <3>1, <4>1, <6>1
          <6>2. CASE TableOf[c] # "filter"
            <7>1. TableOf[c] \notin task.todo
              BY <1>4, <3>1, <6>2
            <7> QED
              BY <2>2, <2>4, <3>1, <4>1, <6>2, <7>1
          <6> QED
            BY <6>1, <6>2
        <5> QED
          BY <2>1, <2>4, <5>1 DEF TidyStates, IPTablesStates
      <4>2. o \in disturbed \/ Held(nft', ipt', o) = e.snapshot
        BY <1>8, <2>5, <4>1 DEF Held
      <4>3. KernelAt(t, e, nft', ipt', disturbed)
        BY <1>5, <1>8, <3>1, <4>2 DEF KernelAt
      <4>4. TaskOK(t, journal, nft', ipt', installed, disturbed, misprobed)
        BY <1>2, <1>5, <1>8, <3>1, <4>3 DEF TaskOK, FromAt
      <4> QED
        BY <1>5, <2>6, <4>4
    <3>2. CASE table = "nat"
      <4>1. ~complete
        BY <1>8, <3>2
      <4>2. \A c \in Chains :
                IF TableOf[c] \in {"filter"}
                THEN s[c].anchors <= task.seen[c].anchors /\ (o \in disturbed \/ s[c] = task.seen[c])
                ELSE o \in disturbed \/ s[c] = e.snapshot[c]
        <5> SUFFICES ASSUME NEW c \in Chains
                     PROVE  IF TableOf[c] \in {"filter"}
                            THEN s[c].anchors <= task.seen[c].anchors
                                 /\ (o \in disturbed \/ s[c] = task.seen[c])
                            ELSE o \in disturbed \/ s[c] = e.snapshot[c]
          OBVIOUS
        <5>1. TableOf[c] \in {"nat", "filter"} /\ (TableOf[c] \in task.todo)
          BY <1>4, <3>2, ChainTables DEF Tables
        <5>2. ipt[f][c].anchors <= task.seen[c].anchors
              /\ (o \in disturbed \/ ipt[f][c] = task.seen[c])
          BY <2>2, <5>1
        <5>3. CASE TableOf[c] = "filter"
          <6>1. s[c] = ipt[f][c]
            BY <2>4, <3>2, <5>3
          <6> QED
            BY <5>2, <5>3, <6>1
        <5>4. CASE TableOf[c] = "nat"
          BY <2>4, <3>2, <5>2, <5>4
        <5> QED
          BY <5>1, <5>3, <5>4
      <4>3. KernelAt(t, e, nft', ipt', disturbed)
        BY <1>1, <1>2, <1>5, <2>1, <2>5, <4>1, <4>2 DEF KernelAt, Remaining
      <4>4. TaskOK(t, journal, nft', ipt', installed, disturbed, misprobed)
        BY <1>2, <1>5, <4>1, <4>3 DEF TaskOK, FromAt
      <4> QED
        BY <1>5, <2>6, <4>4
    <3> QED
      BY <1>4, <3>1, <3>2
  <2> QED
    BY <1>1, <1>2, <1>3, <1>8, <2>4, <2>6, CommandStep
<1> QED
  BY <1>3, <1>6, <1>7, <1>8

-------------------------------------------------------------------------------
(* Requests, recovery and the environment.                                 *)

\* Faults stay within their bound.
LEMMA FaultType == ASSUME NInv, UNCHANGED faults \/ Fault PROVE faults' \in 0..MaxFaults
<1>1. faults \in 0..MaxFaults /\ MaxFaults \in Nat
  BY NatAssumption DEF NInv, TypeOK
<1> QED
  BY <1>1 DEF Fault

\* The engine selected for a family finds nothing of the other one, unless an
\* inspection failed.
LEMMA ApplyRequestedStep == ASSUME NInv, ApplyRequested PROVE NInv'
<1>1. /\ task = IdleTask /\ UnfinishedRows(journal) = {}
      /\ UNCHANGED <<process, journal, installed, kernel, recoveries, crashes, disturbed, wiped>>
  BY DEF ApplyRequested, Idle, Gate
<1>2. PICK f \in Families, forwards \in Forwards, failing \in SUBSET {"nft", "iptables", "save"} :
          LET engine == SelectedEngine(f, "nftables" \in installed /\ "nft" \notin failing,
                                       "iptables" \in installed /\ "iptables" \notin failing,
                                       "save" \notin failing)
          IN  /\ IF failing = {} THEN UNCHANGED <<faults, misprobed>>
                 ELSE Fault /\ misprobed' = TRUE
              /\ Planned(f, forwards, engine)
  BY DEF ApplyRequested
<1>3. PICK engine : engine = SelectedEngine(f, "nftables" \in installed /\ "nft" \notin failing,
                                            "iptables" \in installed /\ "iptables" \notin failing,
                                            "save" \notin failing)
  OBVIOUS
<1> DEFINE plan == [object |-> <<engine, f>>, forwards |-> forwards, base |-> Content(<<engine, f>>)]
           t == [IdleTask EXCEPT !.run = "client", !.step = "create", !.plan = plan]
<1>4. /\ engine # "error" /\ task' = t
      /\ IF failing = {} THEN UNCHANGED <<faults, misprobed>> ELSE Fault /\ misprobed' = TRUE
  BY <1>2, <1>3 DEF Planned
<1>5. /\ "iptables" \in installed
      /\ nft \in [Families -> Forwards \cup {None}] /\ ipt \in [Families -> TidyStates]
      /\ RecordOK(journal, nft, ipt, installed, wiped, misprobed)
      /\ installed \in SUBSET Engines
  BY DEF NInv, TypeOK, Engines
<1>6. engine \in Engines /\ (engine = "nftables" => "nftables" \in installed)
  BY <1>3, <1>4 DEF SelectedEngine, Engines
<1>7. <<engine, f>> \in Objects
  BY <1>6 DEF Objects
<1>8. misprobed' \/ Alone(nft, ipt, <<engine, f>>)
  <2> SUFFICES ASSUME failing = {} PROVE misprobed \/ Alone(nft, ipt, <<engine, f>>)
    BY <1>4
  <2>1. "nft" \notin failing /\ "iptables" \notin failing /\ "save" \notin failing
    OBVIOUS
  <2>2. CASE engine = "nftables"
    <3>1. ~OwnsChains(ipt[f])
      BY <1>3, <1>5, <2>1, <2>2 DEF SelectedEngine
    <3> QED
      BY <2>2, <3>1 DEF Alone
  <2>3. CASE engine = "iptables"
    <3>1. CASE "nftables" \notin installed
      BY <1>5, <2>3, <3>1 DEF RecordOK, NftablesUsed, Alone
    <3>2. CASE "nftables" \in installed
      <4>1. nft[f] = None
        BY <1>3, <1>5, <2>1, <2>3, <3>2 DEF SelectedEngine
      <4> QED
        BY <2>3, <4>1 DEF Alone
    <3> QED
      BY <3>1, <3>2
  <2> QED
    BY <1>6, <2>2, <2>3 DEF Engines
<1>9. Content(<<engine, f>>) \in Contents
  BY <1>7, HeldType DEF ContentsOf, Contents, TidyStates
<1>10. plan \in Plans /\ plan.object = <<engine, f>>
  BY <1>7, <1>9 DEF Plans
<1> HIDE DEF plan
<1>11. /\ t \in Tasks /\ t.step = "create" /\ t.plan = plan /\ t.rows = {} /\ t.from = "PREPARED"
  BY <1>10 DEF Tasks, IdleTask, Runs, Steps, TransactionStates, Contents, Tables
<1> HIDE DEF t
<1>12. plan.object[1] = engine
  BY <1>10
<1>13. TaskOK(t, journal, nft, ipt, installed, disturbed, misprobed')
  BY <1>1, <1>6, <1>8, <1>10, <1>11, <1>12 DEF TaskOK, RowSteps
<1>14. misprobed => misprobed'
  BY <1>4
<1>15. RecordOK(journal, nft, ipt, installed, wiped, misprobed')
  BY <1>5, <1>14 DEF RecordOK
<1>16. /\ UNCHANGED <<up, tracker, journal, installed, nft, ipt, recoveries, crashes, disturbed, wiped>>
       /\ faults' \in 0..MaxFaults /\ misprobed' \in BOOLEAN
  BY <1>1, <1>4, FaultType DEF process, kernel, NInv, TypeOK
<1>17. TypeOK'
  BY <1>4, <1>11, <1>16 DEF NInv, TypeOK
<1> QED
  BY <1>4, <1>13, <1>15, <1>16, <1>17 DEF NInv

\* A request or a run that starts a task without any entry in flight to rely on.
LEMMA QuietStart ==
    ASSUME NInv, UNCHANGED <<journal, installed, kernel, history, faults, crashes>>,
           up' \in BOOLEAN, tracker' \in {"none", "succeeded", "failed"},
           recoveries' \in 0..MaxRecoveries, task' \in Tasks,
           TaskOK(task', journal, nft, ipt, installed, disturbed, misprobed)
    PROVE  NInv'
<1>1. UNCHANGED <<journal, installed, nft, ipt, disturbed, wiped, misprobed, faults, crashes>>
  BY DEF kernel, history
<1>2. TypeOK'
  BY <1>1 DEF NInv, TypeOK
<1> QED
  BY <1>1, <1>2 DEF NInv

\* The newest commit is the top of a journal without anything in flight; what it
\* installed is there, so the other engine has nothing.
LEMMA RollbackRequestedStep == ASSUME NInv, RollbackRequested PROVE NInv'
<1>1. PICK row \in DOMAIN journal :
          /\ IsLatestCommitted(journal, row)
          /\ Content(journal[row].component)
                 = Rendered(journal[row].component, journal[row].candidate)
          /\ task' = [IdleTask EXCEPT !.run = "rollback", !.step = "mark_rolling_back",
                          !.row = row, !.from = "COMMITTED"]
  BY DEF RollbackRequested
<1>2. /\ UnfinishedRows(journal) = {}
      /\ UNCHANGED <<others, journal, kernel, faults, disturbed, wiped>>
  BY DEF RollbackRequested, Gate
<1> DEFINE t == [IdleTask EXCEPT !.run = "rollback", !.step = "mark_rolling_back",
                     !.row = row, !.from = "COMMITTED"]
           e == journal[row]
           o == e.component
<1>3. /\ journal \in Seq(Entries) /\ row \in Nat
      /\ nft \in [Families -> Forwards \cup {None}] /\ ipt \in [Families -> TidyStates]
      /\ RecordOK(journal, nft, ipt, installed, wiped, misprobed)
  BY DEF NInv, TypeOK
<1>4. e \in Entries /\ o \in Objects /\ e.candidate \in Forwards /\ o[2] \in Families /\ o[1] \in Engines
  <2>1. e \in Entries
    BY <1>3
  <2>2. o \in Objects /\ e.candidate \in Forwards
    BY <2>1 DEF Entries
  <2> QED
    BY <2>1, <2>2 DEF Objects
<1>5. misprobed \/ Alone(nft, ipt, o)
  <2>1. CASE o[1] = "nftables"
    <3>1. nft[o[2]] # None
      BY <1>1, <1>4, <2>1, NatAssumption DEF Content, Rendered
    <3> QED
      BY <1>3, <1>4, <2>1, <3>1 DEF RecordOK, Alone
  <2>2. CASE o[1] # "nftables"
    <3>1. ipt[o[2]] = Filled(e.candidate)
      BY <1>1, <2>2 DEF Content, Rendered
    <3>2. OwnsChains(ipt[o[2]])
      <4>1. "forward" \in Chains
        BY DEF Chains, TableOf
      <4> QED
        BY <3>1, <4>1 DEF OwnsChains, Filled
    <3> QED
      BY <1>3, <1>4, <2>2, <3>2 DEF RecordOK, Alone
  <2> QED
    BY <2>1, <2>2
<1>6. IsTop(journal, row) /\ e.state = "COMMITTED"
  <2>1. ASSUME NEW other \in DOMAIN journal \ {row}, Undoable(journal, other)
        PROVE  journal[other].state = "COMMITTED" /\ other < row
    <3>1. journal[other].state = "COMMITTED"
      BY <1>2, <2>1 DEF Undoable, UnfinishedRows
    <3>2. other <= row /\ other # row /\ other \in Nat
      BY <1>1, <1>3, <2>1, <3>1 DEF IsLatestCommitted
    <3> QED
      BY <1>3, <3>1, <3>2
  <2> QED
    BY <1>1, <2>1 DEF IsTop, IsLatestCommitted
<1>7. /\ t \in Tasks /\ t.step = "mark_rolling_back" /\ t.row = row /\ t.rows = {}
      /\ t.from = "COMMITTED"
  BY <1>3 DEF Tasks, IdleTask, Runs, Steps, TransactionStates, Contents, Tables
<1> HIDE DEF t
<1>8. KernelAt(t, e, nft, ipt, disturbed)
  BY <1>7 DEF KernelAt
<1>9. TaskOK(t, journal, nft, ipt, installed, disturbed, misprobed)
  BY <1>2, <1>5, <1>6, <1>7, <1>8 DEF TaskOK, FromAt
<1>10. /\ UNCHANGED <<journal, installed, kernel, history, faults, crashes>>
       /\ up' \in BOOLEAN /\ tracker' \in {"none", "succeeded", "failed"}
       /\ recoveries' \in 0..MaxRecoveries
  BY <1>2 DEF others, process, history, NInv, TypeOK
<1> QED
  BY <1>1, <1>7, <1>9, <1>10, QuietStart DEF t

\* A recovery run starts with the operations in flight.
LEMMA StartRecoveryOK ==
    ASSUME NInv, StartRecovery
    PROVE  task' \in Tasks /\ TaskOK(task', journal, nft, ipt, installed, disturbed, misprobed)
<1> DEFINE t == [IdleTask EXCEPT !.run = "recovery", !.step = "next_operation",
                     !.rows = UnfinishedRows(journal)]
<1>1. UnfinishedRows(journal) \in SUBSET Nat
  BY DEF NInv, TypeOK, UnfinishedRows
<1>2. t \in Tasks /\ t.step = "next_operation" /\ t.rows = UnfinishedRows(journal)
  BY <1>1 DEF Tasks, IdleTask, Runs, Steps, TransactionStates, Contents, Tables
<1>3. task' = t
  BY DEF StartRecovery
<1> HIDE DEF t
<1>4. TaskOK(t, journal, nft, ipt, installed, disturbed, misprobed)
  BY <1>2 DEF TaskOK, RowSteps
<1> QED
  BY <1>2, <1>3, <1>4

\* The daemon starts, or an operator asks for a recovery run.
LEMMA RecoveryStartsStep == ASSUME NInv, Start \/ RecoveryRequested PROVE NInv'
<1>1. /\ UNCHANGED <<journal, installed, kernel, history, faults, crashes>> /\ StartRecovery
      /\ up' \in BOOLEAN /\ tracker' \in {"none", "succeeded", "failed"}
      /\ recoveries' = recoveries \/ (recoveries < MaxRecoveries /\ recoveries' = recoveries + 1)
  BY DEF Start, RecoveryRequested, counters, process, NInv, TypeOK
<1>2. recoveries' \in 0..MaxRecoveries
  <2>1. recoveries \in 0..MaxRecoveries /\ MaxRecoveries \in Nat
    BY NatAssumption DEF NInv, TypeOK
  <2> QED
    BY <1>1, <2>1
<1>3. task' \in Tasks /\ TaskOK(task', journal, nft, ipt, installed, disturbed, misprobed)
  BY <1>1, StartRecoveryOK
<1> QED
  BY <1>1, <1>2, <1>3, QuietStart

\* Recovery turns to the next entry in flight, at the step its state calls for.
LEMMA NextOperationStep == ASSUME NInv, NextOperation PROVE NInv'
<1> DEFINE row == CHOOSE r \in task.rows : \A other \in task.rows : r <= other
           state == journal[row].state
           taken == [task EXCEPT !.rows = @ \ {row}, !.row = row, !.from = state]
<1>1. /\ task.step = "next_operation" /\ task.rows # {} /\ task.rows \subseteq UnfinishedRows(journal)
      /\ task \in Tasks /\ journal \in Seq(Entries)
      /\ UNCHANGED <<others, journal, kernel, faults, disturbed, wiped>>
  BY DEF NextOperation, NInv, TypeOK, TaskOK
<1>2. \/ task' = [task EXCEPT !.rows = @ \ {row}, !.erred = TRUE]
      \/ state \in {"PREPARED", "VALIDATED"} /\ task' = [taken EXCEPT !.step = "mark_not_applied"]
      \/ state \in {"APPLYING", "VERIFYING"} /\ task' = [taken EXCEPT !.step = "roll_back"]
      \/ /\ ~(journal[row].damage = "none" /\ state \in {"PREPARED", "VALIDATED"})
         /\ ~(journal[row].damage = "none" /\ state \in {"APPLYING", "VERIFYING"})
         /\ journal[row].damage = "none"
         /\ task' = [taken EXCEPT !.step = "restore"]
  BY DEF NextOperation
<1>3. row \in task.rows
  <2>1. task.rows \subseteq Nat
    BY <1>1 DEF Tasks
  <2>2. \E r \in task.rows : \A other \in task.rows : r <= other
    <3>1. \A r, other \in UnfinishedRows(journal) : r = other
      BY DEF NInv, RecordOK, IsTop, Undoable, UnfinishedRows, FinishedStates
    <3>2. PICK r \in task.rows : \A other \in task.rows : r = other
      BY <1>1, <3>1
    <3> QED
      BY <2>1, <3>2
  <2> QED
    BY <2>2
<1> HIDE DEF row
<1>4. row \in DOMAIN journal /\ row \in Nat /\ state \in TransactionStates /\ state \notin FinishedStates
  <2>1. row \in UnfinishedRows(journal)
    BY <1>1, <1>3
  <2>2. row \in DOMAIN journal /\ state \notin FinishedStates
    BY <2>1 DEF UnfinishedRows
  <2>3. journal[row] \in Entries
    BY <1>1, <2>2
  <2> QED
    BY <1>1, <2>2, <2>3 DEF Entries
<1> HIDE DEF state
<1>5. taken \in Tasks /\ taken.rows = task.rows \ {row} /\ taken.row = row /\ taken.from = state
  BY <1>1, <1>4 DEF Tasks
<1> HIDE DEF taken
<1>6. task' \in Tasks /\ TaskOK(task', journal, nft, ipt, installed, disturbed, misprobed)
  <2>1. CASE task' = [task EXCEPT !.rows = @ \ {row}, !.erred = TRUE]
    <3>1. task' \in Tasks /\ task'.rows = task.rows \ {row} /\ task'.step = "next_operation"
      BY <1>1, <2>1 DEF Tasks
    <3> QED
      BY <1>1, <3>1 DEF TaskOK, RowSteps
  <2>2. ASSUME NEW step \in {"mark_not_applied", "roll_back", "restore"},
               task' = [taken EXCEPT !.step = step], state \in FromAt(step)
        PROVE  task' \in Tasks /\ TaskOK(task', journal, nft, ipt, installed, disturbed, misprobed)
    <3>1. /\ task' \in Tasks /\ task'.rows = task.rows \ {row} /\ task'.step = step
          /\ task'.row = row /\ task'.from = state
      BY <1>5, <2>2 DEF Tasks, Steps
    <3>2. KernelAt(task', journal[row], nft, ipt, disturbed)
      BY <3>1 DEF KernelAt
    <3> QED
      BY <1>1, <1>4, <2>2, <3>1, <3>2 DEF TaskOK, state
  <2>3. CASE state \in {"PREPARED", "VALIDATED"} /\ task' = [taken EXCEPT !.step = "mark_not_applied"]
    BY <2>2, <2>3 DEF FromAt
  <2>4. CASE state \in {"APPLYING", "VERIFYING"} /\ task' = [taken EXCEPT !.step = "roll_back"]
    BY <2>2, <2>4 DEF FromAt
  <2>5. CASE /\ ~(journal[row].damage = "none" /\ state \in {"PREPARED", "VALIDATED"})
             /\ ~(journal[row].damage = "none" /\ state \in {"APPLYING", "VERIFYING"})
             /\ journal[row].damage = "none"
             /\ task' = [taken EXCEPT !.step = "restore"]
    <3>1. state = "ROLLING_BACK"
      BY <1>4, <2>5 DEF TransactionStates, FinishedStates
    <3> QED
      BY <2>2, <2>5, <3>1 DEF FromAt
  <2> QED
    BY <1>2, <2>1, <2>3, <2>4, <2>5
<1>7. UNCHANGED <<nft, ipt>> /\ nft \in [Families -> Forwards \cup {None}] /\ ipt \in [Families -> TidyStates]
  BY <1>1 DEF kernel, NInv, TypeOK
<1>8. RecordOK(journal, nft, ipt, installed, wiped, misprobed)
  BY DEF NInv
<1> QED
  BY <1>1, <1>6, <1>7, <1>8, TaskStep

\* The run ends and the task with it.
LEMMA FinishRecoveryStep == ASSUME NInv, FinishRecovery PROVE NInv'
<1>1. /\ task' = IdleTask /\ UNCHANGED <<up, journal, installed, kernel, counters, history>>
      /\ tracker' \in {"succeeded", "failed"}
  BY DEF FinishRecovery
<1>2. IdleTask \in Tasks /\ IdleTask.step = "idle" /\ IdleTask.rows = {}
  BY DEF IdleTask, Tasks, Runs, Steps, TransactionStates, Contents
<1>3. TaskOK(IdleTask, journal, nft, ipt, installed, disturbed, misprobed)
  BY <1>2 DEF TaskOK, RowSteps
<1>4. up' \in BOOLEAN /\ recoveries' \in 0..MaxRecoveries /\ UNCHANGED <<faults, crashes>>
  BY <1>1 DEF counters, NInv, TypeOK
<1> QED
  BY <1>1, <1>2, <1>3, <1>4, QuietStart

\* Whatever happens outside the task, with or without its death.
LEMMA OutsideStep ==
    ASSUME NInv, TypeOK', installed \subseteq installed', wiped \subseteq wiped',
           disturbed' \subseteq wiped', UNCHANGED misprobed, ipt' \in [Families -> TidyStates],
           journal' = journal \/ (\E row \in DOMAIN journal :
                                      journal' = [journal EXCEPT ![row].damage = "unreadable"]),
           \A o \in Objects \ wiped' : Held(nft', ipt', o) = Held(nft, ipt, o),
           \A f \in Families : nft'[f] \in {nft[f], None},
           \A f \in Families : OwnsChains(ipt'[f]) => OwnsChains(ipt[f]),
           TaskOK(task', journal', nft', ipt', installed', disturbed', misprobed)
    PROVE  NInv'
<1>1. journal \in Seq(Entries) /\ RecordOK(journal, nft, ipt, installed, wiped, misprobed)
  BY DEF NInv, TypeOK
<1>2. /\ DOMAIN journal' = DOMAIN journal
      /\ \A row \in DOMAIN journal :
             /\ journal'[row].component = journal[row].component
             /\ journal'[row].state = journal[row].state
             /\ journal'[row].detail = journal[row].detail
             /\ journal'[row].snapshot = journal[row].snapshot
             /\ journal'[row].candidate = journal[row].candidate
  <2>1. CASE journal' = journal
    BY <2>1
  <2>2. ASSUME NEW row \in DOMAIN journal, journal' = [journal EXCEPT ![row].damage = "unreadable"]
        PROVE  <1>2!1 /\ <1>2!2
    <3> DEFINE e == [journal[row] EXCEPT !.damage = "unreadable"]
    <3>1. journal[row] \in Entries
      BY <1>1
    <3>2. /\ e.component = journal[row].component /\ e.state = journal[row].state
          /\ e.detail = journal[row].detail /\ e.snapshot = journal[row].snapshot
          /\ e.candidate = journal[row].candidate
      BY <3>1 DEF Entries
    <3>3. journal' = [journal EXCEPT ![row] = e]
      BY <2>2
    <3> HIDE DEF e
    <3>4. DOMAIN journal' = DOMAIN journal
          /\ \A r \in DOMAIN journal : journal'[r] = IF r = row THEN e ELSE journal[r]
      BY <1>1, <3>3
    <3> QED
      BY <3>2, <3>4
  <2> QED
    BY <2>1, <2>2
<1>3. \A row \in DOMAIN journal : journal[row].component \in Objects
  <2>1. \A row \in DOMAIN journal : journal[row] \in Entries
    BY <1>1
  <2> QED
    BY <2>1 DEF Entries
<1>4. RecordOK(journal', nft', ipt', installed', wiped', misprobed)
  BY <1>1, <1>2, <1>3, OthersKeepRecord
<1>5. "iptables" \in installed'
  BY DEF NInv
<1> QED
  BY <1>4, <1>5 DEF NInv

\* The daemon dies, alone or with the host.
LEMMA DaemonStopsStep == ASSUME NInv, Crash \/ Reboot PROVE NInv'
<1>1. /\ up' = FALSE /\ tracker' = "none" /\ task' = IdleTask
      /\ crashes < MaxCrashes /\ crashes' = crashes + 1
      /\ UNCHANGED <<journal, installed, recoveries, faults, misprobed>>
      /\ \/ UNCHANGED <<kernel, disturbed, wiped>>
         \/ /\ nft' = [f \in Families |-> None] /\ ipt' = [f \in Families |-> NoChains]
            /\ disturbed' = Objects /\ wiped' = Objects
  BY DEF Crash, Reboot, DaemonStops, history
<1>2. IdleTask \in Tasks /\ IdleTask.step = "idle" /\ IdleTask.rows = {}
  BY DEF IdleTask, Tasks, Runs, Steps, TransactionStates, Contents
<1>3. TaskOK(IdleTask, journal', nft', ipt', installed', disturbed', misprobed)
  BY <1>2 DEF TaskOK, RowSteps
<1>4. /\ nft \in [Families -> Forwards \cup {None}] /\ ipt \in [Families -> TidyStates]
      /\ disturbed \subseteq wiped /\ wiped \subseteq Objects
  BY DEF NInv, TypeOK
<1>5. crashes' \in 0..MaxCrashes
  <2>1. crashes \in 0..MaxCrashes /\ MaxCrashes \in Nat
    BY NatAssumption DEF NInv, TypeOK
  <2> QED
    BY <1>1, <2>1
<1>6. nft' \in [Families -> Forwards \cup {None}] /\ ipt' \in [Families -> TidyStates]
  BY <1>1, <1>4, NoChainsTidy DEF kernel
<1>7. \A f \in Families, c \in Chains : ipt'[f][c].anchors > 0 => ipt'[f][c].present
  BY <1>6, ChainOfState
<1>8. ipt' \in [Families -> IPTablesStates]
  BY <1>6 DEF TidyStates
<1>9. disturbed' \subseteq wiped' /\ wiped \subseteq wiped' /\ wiped' \subseteq Objects
  BY <1>1, <1>4
<1>10. TypeOK'
  BY <1>1, <1>2, <1>5, <1>6, <1>7, <1>8, <1>9 DEF NInv, TypeOK
<1>11. /\ \A o \in Objects \ wiped' : Held(nft', ipt', o) = Held(nft, ipt, o)
       /\ \A f \in Families : nft'[f] \in {nft[f], None}
       /\ \A f \in Families : OwnsChains(ipt'[f]) => OwnsChains(ipt[f])
  BY <1>1, NoChainsTidy DEF kernel, Held
<1> QED
  BY <1>1, <1>3, <1>6, <1>9, <1>10, <1>11, OutsideStep

\* What a task relies on survives the removal of rules.
LEMMA TaskSurvives ==
    ASSUME NInv, NEW n, NEW i, NEW d, NEW f \in Families,
           \/ /\ n = [nft EXCEPT ![f] = None] /\ i = ipt /\ d = disturbed \cup {<<"nftables", f>>}
           \/ /\ n = nft /\ d = disturbed \cup {<<"iptables", f>>}
              /\ \A g \in Families \ {f} : i[g] = ipt[g]
              /\ \A c \in Chains : /\ i[f][c].present = ipt[f][c].present
                                   /\ i[f][c].rules = ipt[f][c].rules
                                   /\ i[f][c].anchors <= ipt[f][c].anchors
                                   /\ i[f][c].anchors \in {0, 1}
    PROVE  TaskOK(task, journal, n, i, installed, d, misprobed)
<1>1. nft \in [Families -> Forwards \cup {None}] /\ ipt \in [Families -> TidyStates]
  BY DEF NInv, TypeOK
<1>2. \A o \in Objects : Alone(nft, ipt, o) => Alone(n, i, o)
  BY <1>1 DEF Objects, Engines, Alone, OwnsChains
<1>3. task.step = "create" => misprobed \/ Alone(n, i, task.plan.object)
  BY <1>2 DEF NInv, TaskOK, Plans
<1>4. ASSUME task.step \in RowSteps
      PROVE  /\ KernelAt(task, journal[task.row], n, i, d)
             /\ Alone(nft, ipt, journal[task.row].component) => Alone(n, i, journal[task.row].component)
  <2> DEFINE e == journal[task.row]
             o == e.component
  <2>1. /\ o \in Objects /\ o[1] \in Engines /\ o[2] \in Families /\ o = <<o[1], o[2]>>
        /\ e.snapshot \in ContentsOf(o) /\ KernelAt(task, e, nft, ipt, disturbed)
    BY <1>4, RowFacts DEF Objects
  <2> HIDE DEF e
  <2>2. disturbed \subseteq d
    OBVIOUS
  <2>3. o \in d \/ Held(n, i, o) = Held(nft, ipt, o)
    BY <1>1, <2>1 DEF Held, Engines
  <2>4. o[1] = "iptables" => \A c \in Chains :
            /\ i[o[2]][c].anchors <= ipt[o[2]][c].anchors
            /\ i[o[2]][c].present = ipt[o[2]][c].present /\ i[o[2]][c].rules = ipt[o[2]][c].rules
            /\ i[o[2]][c].anchors \in {0, 1} /\ ipt[o[2]][c].anchors \in {0, 1}
            /\ o \in d \/ i[o[2]] = ipt[o[2]]
    <3> SUFFICES ASSUME o[1] = "iptables", NEW c \in Chains
                 PROVE  /\ i[o[2]][c].anchors <= ipt[o[2]][c].anchors
                        /\ i[o[2]][c].present = ipt[o[2]][c].present
                        /\ i[o[2]][c].rules = ipt[o[2]][c].rules
                        /\ i[o[2]][c].anchors \in {0, 1} /\ ipt[o[2]][c].anchors \in {0, 1}
                        /\ o \in d \/ i[o[2]] = ipt[o[2]]
      OBVIOUS
    <3>1. ipt[o[2]] \in TidyStates
      BY <1>1, <2>1
    <3>2. ipt[o[2]][c].anchors \in {0, 1} /\ ipt[o[2]][c].anchors <= ipt[o[2]][c].anchors
      BY <3>1, ChainOfState
    <3>3. CASE i[o[2]] = ipt[o[2]]
      BY <3>2, <3>3
    <3>4. CASE i[o[2]] # ipt[o[2]]
      <4>1. o[2] = f /\ i # ipt
        BY <2>1, <3>4
      <4>2. d = disturbed \cup {<<"iptables", f>>}
        BY <4>1
      <4>3. o \in d
        BY <2>1, <4>1, <4>2
      <4>4. /\ i[f][c].present = ipt[f][c].present /\ i[f][c].rules = ipt[f][c].rules
            /\ i[f][c].anchors <= ipt[f][c].anchors /\ i[f][c].anchors \in {0, 1}
        BY <4>1
      <4> QED
        BY <3>2, <4>1, <4>3, <4>4
    <3> QED
      BY <3>3, <3>4
  <2>5. o[1] = "iptables" => \A c \in Chains : e.snapshot[c].anchors \in {0, 1}
    BY <2>1, ChainOfState DEF ContentsOf
  <2>6. o[1] = "iptables" /\ task.step = "write" => \A c \in Chains : task.seen[c].anchors \in {0, 1}
    BY <2>1, ChainOfState DEF ContentsOf, KernelAt
  <2>7. o[1] = "nftables" => n[o[2]] \in {nft[o[2]], None}
    BY <1>1, <2>1
  <2>8. task.step \in {"validate", "mark_applying", "install"} /\ o[1] = "iptables" =>
            \A c \in Chains :
                IF TableOf[c] \in Remaining(task) THEN i[o[2]][c].anchors <= e.snapshot[c].anchors
                ELSE FilledChain(i[o[2]], c, e.candidate)
    <3> SUFFICES ASSUME task.step \in {"validate", "mark_applying", "install"}, o[1] = "iptables",
                        NEW c \in Chains
                 PROVE  IF TableOf[c] \in Remaining(task)
                        THEN i[o[2]][c].anchors <= e.snapshot[c].anchors
                        ELSE FilledChain(i[o[2]], c, e.candidate)
      OBVIOUS
    <3>1. IF TableOf[c] \in Remaining(task) THEN ipt[o[2]][c].anchors <= e.snapshot[c].anchors
          ELSE FilledChain(ipt[o[2]], c, e.candidate)
      BY <2>1 DEF KernelAt
    <3>2. CASE TableOf[c] \in Remaining(task)
      <4>1. /\ i[o[2]][c].anchors <= ipt[o[2]][c].anchors
            /\ i[o[2]][c].anchors \in {0, 1} /\ ipt[o[2]][c].anchors \in {0, 1}
        BY <2>4
      <4>2. e.snapshot[c].anchors \in {0, 1} /\ ipt[o[2]][c].anchors <= e.snapshot[c].anchors
        BY <2>5, <3>1, <3>2
      <4>3. i[o[2]][c].anchors <= e.snapshot[c].anchors
        BY <4>1, <4>2
      <4> QED
        BY <3>2, <4>3
    <3>3. CASE TableOf[c] \notin Remaining(task)
      BY <2>4, <3>1, <3>3 DEF FilledChain
    <3> QED
      BY <3>2, <3>3
  <2>9. task.step \in {"mark_verifying", "verify"} =>
            IF o[1] = "nftables" THEN n[o[2]] \in {e.candidate, None}
            ELSE \A c \in Chains : FilledChain(i[o[2]], c, e.candidate)
    <3> SUFFICES ASSUME task.step \in {"mark_verifying", "verify"}
                 PROVE  IF o[1] = "nftables" THEN n[o[2]] \in {e.candidate, None}
                        ELSE \A c \in Chains : FilledChain(i[o[2]], c, e.candidate)
      OBVIOUS
    <3>1. IF o[1] = "nftables" THEN nft[o[2]] \in {e.candidate, None}
          ELSE \A c \in Chains : FilledChain(ipt[o[2]], c, e.candidate)
      BY <2>1 DEF KernelAt
    <3>2. CASE o[1] = "nftables"
      BY <2>7, <3>1, <3>2
    <3>3. CASE o[1] = "iptables"
      <4>1. ASSUME NEW c \in Chains
            PROVE  FilledChain(i[o[2]], c, e.candidate)
        <5>1. FilledChain(ipt[o[2]], c, e.candidate)
          BY <3>1, <3>3
        <5> QED
          BY <2>4, <3>3, <5>1 DEF FilledChain
      <4> QED
        BY <3>3, <4>1
    <3> QED
      BY <2>1, <3>2, <3>3 DEF Engines
  <2>10. task.step = "write" /\ o[1] = "iptables" => \A c \in Chains :
             IF TableOf[c] \in Remaining(task)
             THEN i[o[2]][c].anchors <= task.seen[c].anchors /\ (o \in d \/ i[o[2]][c] = task.seen[c])
             ELSE o \in d \/ i[o[2]][c] = e.snapshot[c]
    <3> SUFFICES ASSUME task.step = "write", o[1] = "iptables", NEW c \in Chains
                 PROVE  IF TableOf[c] \in Remaining(task)
                        THEN i[o[2]][c].anchors <= task.seen[c].anchors
                             /\ (o \in d \/ i[o[2]][c] = task.seen[c])
                        ELSE o \in d \/ i[o[2]][c] = e.snapshot[c]
      OBVIOUS
    <3>1. IF TableOf[c] \in Remaining(task)
          THEN ipt[o[2]][c].anchors <= task.seen[c].anchors
               /\ (o \in disturbed \/ ipt[o[2]][c] = task.seen[c])
          ELSE o \in disturbed \/ ipt[o[2]][c] = e.snapshot[c]
      BY <2>1 DEF KernelAt
    <3> QED
      BY <2>2, <2>4, <2>6, <3>1
  <2>11. task.step = "write" => task.seen \in ContentsOf(o)
    BY <2>1 DEF KernelAt
  <2>12. /\ task.step = "commit" => o \in d \/ Held(n, i, o) = Rendered(o, e.candidate)
         /\ task.step = "mark_rolled_back" => o \in d \/ Held(n, i, o) = e.snapshot
    BY <2>1, <2>2, <2>3 DEF KernelAt
  <2>13. KernelAt(task, e, n, i, d)
    BY <2>8, <2>9, <2>10, <2>11, <2>12 DEF KernelAt
  <2> QED
    BY <1>2, <2>1, <2>13 DEF e
<1> QED
  BY <1>3, <1>4 DEF NInv, TaskOK, RowSteps

\* Other software flushes a ruleset.
LEMMA RulesetFlushedStep == ASSUME NInv, RulesetFlushed PROVE NInv'
<1>1. /\ Fault /\ UNCHANGED <<up, tracker, task, journal, installed, recoveries, crashes, misprobed>>
  BY DEF RulesetFlushed, process
<1>2. PICK f \in Families :
          \/ /\ nft' = [nft EXCEPT ![f] = None] /\ UNCHANGED ipt
             /\ disturbed' = disturbed \cup {<<"nftables", f>>}
             /\ wiped' = wiped \cup {<<"nftables", f>>}
          \/ /\ \E table \in Tables :
                    ipt' = [ipt EXCEPT ![f] = [c \in Chains |->
                               IF TableOf[c] = table THEN [@[c] EXCEPT !.anchors = 0] ELSE @[c]]]
             /\ UNCHANGED nft
             /\ disturbed' = disturbed \cup {<<"iptables", f>>}
             /\ wiped' = wiped \cup {<<"iptables", f>>}
  BY DEF RulesetFlushed
<1>3. /\ nft \in [Families -> Forwards \cup {None}] /\ ipt \in [Families -> TidyStates]
      /\ disturbed \subseteq wiped /\ wiped \subseteq Objects /\ f \in Families
      /\ <<"nftables", f>> \in Objects /\ <<"iptables", f>> \in Objects
  BY DEF NInv, TypeOK, Objects, Engines
<1>4. /\ ipt' \in [Families -> TidyStates]
      /\ \A g \in Families \ {f} : ipt'[g] = ipt[g]
      /\ \A c \in Chains : /\ ipt'[f][c].present = ipt[f][c].present
                           /\ ipt'[f][c].rules = ipt[f][c].rules
                           /\ ipt'[f][c].anchors <= ipt[f][c].anchors
                           /\ ipt'[f][c].anchors \in {0, 1}
  <2>1. CASE ipt' = ipt
    <3>1. \A c \in Chains : ipt[f][c].anchors \in {0, 1}
      BY <1>3, ChainOfState
    <3> QED
      BY <1>3, <2>1, <3>1
  <2>2. ASSUME NEW table \in Tables,
               ipt' = [ipt EXCEPT ![f] = [c \in Chains |->
                          IF TableOf[c] = table THEN [@[c] EXCEPT !.anchors = 0] ELSE @[c]]]
        PROVE  <1>4!1 /\ <1>4!2 /\ <1>4!3
    <3> DEFINE s == [c \in Chains |-> IF TableOf[c] = table THEN [ipt[f][c] EXCEPT !.anchors = 0]
                                      ELSE ipt[f][c]]
    <3>1. ipt' = [ipt EXCEPT ![f] = s]
      BY <2>2
    <3>2. \A c \in Chains : /\ s[c] \in Chain /\ s[c].present = ipt[f][c].present
                            /\ s[c].rules = ipt[f][c].rules
                            /\ s[c].anchors <= ipt[f][c].anchors
                            /\ s[c].anchors \in {0, 1}
                            /\ ~s[c].present => s[c] = NoChain
      <4> SUFFICES ASSUME NEW c \in Chains
                   PROVE  /\ s[c] \in Chain /\ s[c].present = ipt[f][c].present
                          /\ s[c].rules = ipt[f][c].rules
                          /\ s[c].anchors <= ipt[f][c].anchors
                          /\ s[c].anchors \in {0, 1}
                          /\ ~s[c].present => s[c] = NoChain
        OBVIOUS
      <4>1. /\ ipt[f][c] \in Chain /\ ipt[f][c].anchors \in {0, 1}
            /\ ~ipt[f][c].present => ipt[f][c] = NoChain
        BY <1>3, ChainOfState
      <4>2. CASE TableOf[c] # table
        BY <4>1, <4>2
      <4>3. CASE TableOf[c] = table
        <5>1. s[c] = [ipt[f][c] EXCEPT !.anchors = 0]
          BY <4>3
        <5>2. 0 \in 0..1
          OBVIOUS
        <5>3. /\ s[c] \in Chain /\ s[c].present = ipt[f][c].present /\ s[c].rules = ipt[f][c].rules
              /\ s[c].anchors = 0
          BY <4>1, <5>1, <5>2 DEF Chain
        <5>4. ipt[f][c] = NoChain => s[c] = NoChain
          BY <5>1 DEF NoChain
        <5> QED
          BY <4>1, <5>3, <5>4
      <4> QED
        BY <4>2, <4>3
    <3>3. s = [c \in Chains |-> s[c]]
      OBVIOUS
    <3> HIDE DEF s
    <3>4. s \in TidyStates
      BY <3>2, <3>3, TidyState
    <3>5. ipt'[f] = s /\ \A g \in Families \ {f} : ipt'[g] = ipt[g]
      BY <1>3, <3>1
    <3> QED
      BY <1>3, <3>1, <3>2, <3>4, <3>5
  <2> QED
    BY <1>2, <2>1, <2>2
<1>5. nft' \in [Families -> Forwards \cup {None}] /\ \A g \in Families : nft'[g] \in {nft[g], None}
  BY <1>2, <1>3
<1>6. \A g \in Families : OwnsChains(ipt'[g]) => OwnsChains(ipt[g])
  BY <1>4 DEF OwnsChains
<1>7. /\ disturbed' \subseteq wiped' /\ wiped \subseteq wiped' /\ wiped' \subseteq Objects
      /\ disturbed' \subseteq Objects
  BY <1>2, <1>3
<1>8. \A o \in Objects \ wiped' : Held(nft', ipt', o) = Held(nft, ipt, o)
  <2> SUFFICES ASSUME NEW e \in Engines, NEW g \in Families, <<e, g>> \notin wiped'
               PROVE  Held(nft', ipt', <<e, g>>) = Held(nft, ipt, <<e, g>>)
    BY DEF Objects
  <2>1. <<e, g>>[1] = e /\ <<e, g>>[2] = g
    OBVIOUS
  <2> QED
    BY <1>2, <1>3, <1>4, <2>1 DEF Held, Engines
<1>9. \A g \in Families, c \in Chains : ipt'[g][c].anchors > 0 => ipt'[g][c].present
  BY <1>4, ChainOfState
<1>10. ipt' \in [Families -> IPTablesStates]
  BY <1>4 DEF TidyStates
<1>11. faults' \in 0..MaxFaults
  BY <1>1, FaultType
<1>12. TypeOK'
  BY <1>1, <1>5, <1>7, <1>9, <1>10, <1>11 DEF NInv, TypeOK
<1>13. TaskOK(task, journal, nft', ipt', installed, disturbed', misprobed)
  BY <1>2, <1>4, TaskSurvives
<1> QED
  BY <1>1, <1>4, <1>5, <1>6, <1>7, <1>8, <1>12, <1>13, OutsideStep

\* The program nft is installed, or a row loses its seal while the daemon is down.
LEMMA OtherChangesStep ==
    ASSUME NInv, NftablesInstalled \/ \E row \in DOMAIN journal : Tamper(row) PROVE NInv'
<1>1. /\ UNCHANGED <<up, tracker, task, nft, ipt, recoveries, crashes, disturbed, wiped, misprobed>>
      /\ UNCHANGED faults \/ Fault
      /\ installed' \in {installed, Engines}
      /\ journal' = journal \/ (\E row \in DOMAIN journal :
                                    journal' = [journal EXCEPT ![row].damage = "unreadable"])
  BY DEF NftablesInstalled, Tamper, process, kernel, counters, history
<1>2. /\ journal \in Seq(Entries) /\ task \in Tasks /\ installed \subseteq installed'
      /\ installed' \in SUBSET Engines /\ ipt \in [Families -> TidyStates]
      /\ TaskOK(task, journal, nft, ipt, installed, disturbed, misprobed)
  BY <1>1 DEF NInv, TypeOK
<1>3. /\ journal' \in Seq(Entries) /\ DOMAIN journal' = DOMAIN journal
      /\ \A r \in DOMAIN journal :
             /\ journal'[r].component = journal[r].component /\ journal'[r].state = journal[r].state
             /\ journal'[r].snapshot = journal[r].snapshot
             /\ journal'[r].candidate = journal[r].candidate
  <2>1. CASE journal' = journal
    BY <1>2, <2>1
  <2>2. ASSUME NEW row \in DOMAIN journal, journal' = [journal EXCEPT ![row].damage = "unreadable"]
        PROVE  <1>3!1 /\ <1>3!2
    <3> DEFINE e == [journal[row] EXCEPT !.damage = "unreadable"]
    <3>1. journal[row] \in Entries
      BY <1>2
    <3>2. /\ e \in Entries /\ e.component = journal[row].component /\ e.state = journal[row].state
          /\ e.snapshot = journal[row].snapshot /\ e.candidate = journal[row].candidate
      BY <3>1 DEF Entries
    <3>3. journal' = [journal EXCEPT ![row] = e]
      BY <2>2
    <3> HIDE DEF e
    <3>4. journal' \in Seq(Entries) /\ DOMAIN journal' = DOMAIN journal
          /\ \A r \in DOMAIN journal : journal'[r] = IF r = row THEN e ELSE journal[r]
      BY <1>2, <3>2, <3>3
    <3> QED
      BY <3>2, <3>4
  <2> QED
    BY <1>1, <2>1, <2>2
<1>4. UnfinishedRows(journal') = UnfinishedRows(journal)
  BY <1>3 DEF UnfinishedRows
<1>5. \A row \in DOMAIN journal : IsTop(journal, row) => IsTop(journal', row)
  BY <1>3 DEF IsTop, Undoable
<1>6. ASSUME task.step \in RowSteps
      PROVE  KernelAt(task, journal'[task.row], nft, ipt, disturbed)
  <2>1. KernelAt(task, journal[task.row], nft, ipt, disturbed) /\ task.row \in DOMAIN journal
    BY <1>2, <1>6 DEF TaskOK
  <2> QED
    BY <1>3, <2>1 DEF KernelAt
<1>7. TaskOK(task, journal', nft, ipt, installed', disturbed, misprobed)
  BY <1>2, <1>3, <1>4, <1>5, <1>6 DEF TaskOK, RowSteps
<1>8. faults' \in 0..MaxFaults
  BY <1>1, FaultType
<1>9. TypeOK'
  BY <1>1, <1>2, <1>3, <1>8 DEF NInv, TypeOK
<1>10. disturbed' \subseteq wiped'
  BY <1>1 DEF NInv
<1> QED
  BY <1>1, <1>2, <1>7, <1>9, <1>10, OutsideStep

-------------------------------------------------------------------------------
(* The invariant, and what follows from it.                                *)

\* The invariant holds before the daemon has ever run.
LEMMA NInvInit == Init => NInv
<1> SUFFICES ASSUME Init PROVE NInv
  OBVIOUS
<1>1. /\ task = IdleTask /\ journal = << >> /\ disturbed = {} /\ wiped = {} /\ misprobed = FALSE
      /\ installed \in {{"iptables"}, Engines}
      /\ nft = [f \in Families |-> None] /\ ipt = [f \in Families |-> NoChains]
      /\ up = FALSE /\ tracker = "none" /\ recoveries = 0 /\ faults = 0 /\ crashes = 0
  BY DEF Init
<1>2. IdleTask \in Tasks /\ IdleTask.step = "idle" /\ IdleTask.rows = {}
  BY DEF IdleTask, Tasks, Runs, Steps, TransactionStates, Contents
<1>3. DOMAIN journal = {} /\ UnfinishedRows(journal) = {} /\ journal \in Seq(Entries)
  BY <1>1 DEF UnfinishedRows
<1>4. /\ nft \in [Families -> Forwards \cup {None}] /\ ipt \in [Families -> TidyStates]
      /\ ipt \in [Families -> IPTablesStates]
  BY <1>1, NoChainsTidy DEF TidyStates
<1>5. \A f \in Families, c \in Chains : ipt[f][c].anchors > 0 => ipt[f][c].present
  BY <1>4, ChainOfState
<1>6. installed \in SUBSET Engines /\ "iptables" \in installed
  BY <1>1 DEF Engines
<1>7. TypeOK
  <2>1. 0 \in 0..MaxRecoveries /\ 0 \in 0..MaxFaults /\ 0 \in 0..MaxCrashes
    BY NatAssumption
  <2>2. up \in BOOLEAN /\ tracker \in {"none", "succeeded", "failed"} /\ misprobed \in BOOLEAN
    BY <1>1
  <2>3. disturbed \subseteq Objects /\ wiped \subseteq Objects
    BY <1>1
  <2>4. task \in Tasks /\ journal \in Seq(Entries)
    BY <1>1, <1>2, <1>3
  <2>5. recoveries \in 0..MaxRecoveries /\ faults \in 0..MaxFaults /\ crashes \in 0..MaxCrashes
    BY <1>1, <2>1
  <2> QED
    BY <1>4, <1>5, <1>6, <2>2, <2>3, <2>4, <2>5 DEF TypeOK
<1>8. TaskOK(task, journal, nft, ipt, installed, disturbed, misprobed)
  BY <1>1, <1>2 DEF TaskOK, RowSteps
<1>9. \A o \in Objects : Promised(journal, nft, ipt, o)
  <2> SUFFICES ASSUME NEW o \in Objects PROVE Promised(journal, nft, ipt, o)
    OBVIOUS
  <2>1. Commits(journal, o) = {}
    BY <1>3 DEF Commits
  <2>2. Held(nft, ipt, o) = Nothing(o)
    BY <1>1 DEF Held, Nothing, Objects
  <2> QED
    BY <1>3, <2>1, <2>2 DEF Promised, Expects
<1>10. EntriesOK(journal) /\ NftablesUsed(journal, nft, installed)
  BY <1>1, <1>3 DEF EntriesOK, NftablesUsed
<1>11. RecordOK(journal, nft, ipt, installed, wiped, misprobed)
  BY <1>1, <1>3, <1>9, <1>10 DEF RecordOK
<1> QED
  BY <1>1, <1>4, <1>6, <1>7, <1>8, <1>11 DEF NInv

\* Every step preserves the invariant.
LEMMA NInvNext == NInv /\ [Next]_vars => NInv'
<1> SUFFICES ASSUME NInv, [Next]_vars PROVE NInv'
  OBVIOUS
<1>1. CASE UNCHANGED vars
  <2>1. /\ UNCHANGED <<up, tracker, task, journal, installed, nft, ipt, recoveries, faults, crashes>>
        /\ UNCHANGED <<disturbed, wiped, misprobed>>
    BY <1>1 DEF vars, process, kernel, counters, history
  <2> QED
    BY <2>1 DEF NInv, TypeOK
<1> QED
  BY <1>1, ApplyRequestedStep, RollbackRequestedStep, RecoveryStartsStep, CreateStep, ValidateStep,
     MarkNotAppliedStep, MarkApplyingStep, InstallCandidateStep, MarkVerifyingStep, VerifyStep,
     CommitStep, RollBackStep, MarkRollingBackStep, RestoreStep, WriteSnapshotStep,
     MarkRolledBackStep, MarkFailedStep, NextOperationStep, FinishRecoveryStep, DaemonStopsStep,
     RulesetFlushedStep, OtherChangesStep
  DEF Next

\* The invariant holds in every reachable state.
THEOREM NatInvariantHolds == Spec => []NInv
  BY NInvInit, NInvNext, PTL DEF Spec

\* Every variable keeps its type: a chain is anchored at most once, and only while it
\* exists.
THEOREM TypeCorrectness == Spec => []TypeOK
<1>1. NInv => TypeOK
  BY DEF NInv
<1> QED
  BY <1>1, NatInvariantHolds, PTL

\* As long as no look has failed while an engine was selected (selectNATEngine), the
\* two never hold rules for one family at once, whichever is installed when.
THEOREM EnginesAreExclusive == Spec => []ExclusiveEngines
<1>1. NInv => ExclusiveEngines
  BY DEF NInv, RecordOK, ExclusiveEngines
<1> QED
  BY <1>1, NatInvariantHolds, PTL

\* Without an operation in flight the kernel holds exactly what the newest commit on
\* an object installed (Execute, Recover, RollbackCommitted).
THEOREM NatIsSettled == Spec => []SettledNat
<1>1. NInv => SettledNat
  <2> SUFFICES ASSUME NInv, Gate, ~Troubled, NEW o \in Objects \ wiped
               PROVE  IF Commits(journal, o) = {}
                      THEN Content(o) = IF o[1] = "nftables" THEN None ELSE NoChains
                      ELSE \E row \in Commits(journal, o) :
                               /\ \A other \in Commits(journal, o) : other <= row
                               /\ Content(o) = Rendered(o, journal[row].candidate)
    BY DEF SettledNat, Commits
  <2>1. Promised(journal, nft, ipt, o) /\ UnfinishedRows(journal) = {}
    BY DEF NInv, RecordOK, Troubled, GaveUp, Gate
  <2>2. Expects(journal, o, Commits(journal, o), Content(o))
    BY <2>1, HeldType DEF Promised
  <2> QED
    BY <2>2 DEF Expects, Nothing
<1> QED
  BY <1>1, NatInvariantHolds, PTL

-------------------------------------------------------------------------------
(* What the journal reports.                                               *)

\* A transition moves the entry of the task, and no other.
LEMMA TransitionReports ==
    ASSUME NInv, task.step \in RowSteps, NEW row \in DOMAIN journal,
           journal'[row].state # journal[row].state,
           NEW to \in TransactionStates, NEW detail \in Details,
           journal' \in {journal, Transitioned(journal, task.row, task.from, to, detail)}
    PROVE  Moves(journal, journal', task.row, to, detail) /\ row = task.row
<1>1. journal \in Seq(Entries) /\ task.row \in DOMAIN journal
  BY RowFacts
<1>2. journal' = journal \/ Moves(journal, journal', task.row, to, detail)
  BY <1>1, WrittenJournal
<1>3. Moves(journal, journal', task.row, to, detail)
  BY <1>2
<1> QED
  BY <1>3 DEF Moves

\* The steps that move an entry to a state that is no outcome.
LEMMA OtherTransitions ==
    ASSUME NInv, NEW row \in DOMAIN journal, journal'[row].state # journal[row].state,
           \/ Validate \/ MarkNotApplied \/ MarkApplying \/ MarkVerifying \/ RollBack
           \/ MarkRollingBack \/ MarkFailed
    PROVE  journal'[row].state \notin {"COMMITTED", "ROLLED_BACK"}
<1>1. task.step \in RowSteps
  BY DEF Validate, MarkNotApplied, MarkApplying, MarkVerifying, RollBack, MarkRollingBack,
         MarkFailed, RowSteps
<1>2. \E to \in TransactionStates \ {"COMMITTED", "ROLLED_BACK"}, detail \in Details :
          journal' \in {journal, Transitioned(journal, task.row, task.from, to, detail)}
  BY DEF Validate, MarkNotApplied, MarkApplying, MarkVerifying, RollBack, MarkRollingBack,
         MarkFailed, Transition, TransactionStates, Details
<1>3. PICK to \in TransactionStates \ {"COMMITTED", "ROLLED_BACK"}, detail \in Details :
          journal' \in {journal, Transitioned(journal, task.row, task.from, to, detail)}
  BY <1>2
<1>4. Moves(journal, journal', task.row, to, detail) /\ row = task.row
  BY <1>1, <1>3, TransitionReports
<1> QED
  BY <1>4 DEF Moves

\* A row reports an outcome in the last step of an operation only.
LEMMA OutcomeSteps ==
    ASSUME NInv, Next, NEW row \in DOMAIN journal, journal'[row].state # journal[row].state,
           journal'[row].state \in {"COMMITTED", "ROLLED_BACK"}
    PROVE  Commit \/ MarkRolledBack
<1> SUFFICES ASSUME ~Commit, ~MarkRolledBack PROVE FALSE
  OBVIOUS
<1>1. journal \in Seq(Entries)
  BY DEF NInv, TypeOK
<1>2. CASE Create
  <2>1. PICK e : journal' \in {journal, Append(journal, e)}
    BY <1>2 DEF Create, Created
  <2> QED
    BY <1>1, <2>1
<1>3. ASSUME NEW other \in DOMAIN journal, Tamper(other)
      PROVE  FALSE
  <2>1. journal[other] \in Entries /\ journal[row] \in Entries
    BY <1>1
  <2>2. journal' = [journal EXCEPT ![other].damage = "unreadable"]
    BY <1>3 DEF Tamper
  <2>3. [journal[other] EXCEPT !.damage = "unreadable"].state = journal[other].state
    BY <2>1 DEF Entries
  <2> QED
    BY <1>1, <2>2, <2>3
<1>4. CASE \/ Start \/ ApplyRequested \/ RollbackRequested \/ RecoveryRequested
           \/ InstallCandidate \/ Verify \/ Restore \/ WriteSnapshot \/ NextOperation
           \/ FinishRecovery \/ Crash \/ Reboot \/ RulesetFlushed \/ NftablesInstalled
  <2>1. journal' = journal
    BY <1>4 DEF Start, ApplyRequested, RollbackRequested, RecoveryRequested, InstallCandidate,
                Verify, Restore, WriteSnapshot, NextOperation, FinishRecovery, Crash, Reboot,
                RulesetFlushed, NftablesInstalled
  <2> QED
    BY <2>1
<1>5. CASE \/ Validate \/ MarkNotApplied \/ MarkApplying \/ MarkVerifying \/ RollBack
           \/ MarkRollingBack \/ MarkFailed
  BY <1>5, OtherTransitions
<1> QED
  BY <1>2, <1>3, <1>4, <1>5 DEF Next

\* When a row becomes COMMITTED its candidate is installed completely, and when it
\* becomes ROLLED_BACK its snapshot is back exactly, unless others changed the rules
\* after the last look the operation took at them (Execute, Recover).
THEOREM OutcomesAreExact == Spec => OutcomeIsExact
<1> DEFINE Exact == \A row \in DOMAIN journal :
               LET entry == journal'[row]
                   outcome == CASE entry.state = "COMMITTED" ->
                                       Rendered(entry.component, entry.candidate)
                                [] OTHER -> entry.snapshot
               IN  /\ entry.state # journal[row].state
                   /\ entry.state \in {"COMMITTED", "ROLLED_BACK"}
                   => entry.component \in disturbed \/ Content(entry.component) = outcome
<1>1. NInv /\ [Next]_vars => Exact \/ UNCHANGED vars
  <2> SUFFICES ASSUME NInv, Next, NEW row \in DOMAIN journal,
                      journal'[row].state # journal[row].state,
                      journal'[row].state \in {"COMMITTED", "ROLLED_BACK"}
               PROVE  \/ journal'[row].component \in disturbed
                      \/ Content(journal'[row].component)
                             = IF journal'[row].state = "COMMITTED"
                               THEN Rendered(journal'[row].component, journal'[row].candidate)
                               ELSE journal'[row].snapshot
    OBVIOUS
  <2>1. CASE Commit
    <3>1. /\ task.step = "commit" /\ task.step \in RowSteps /\ "COMMITTED" \in TransactionStates
          /\ "none" \in Details
          /\ journal' \in {journal, Transitioned(journal, task.row, task.from, "COMMITTED", "none")}
      BY <2>1 DEF Commit, Transition, RowSteps, TransactionStates, Details
    <3>2. Moves(journal, journal', task.row, "COMMITTED", "none") /\ row = task.row
      BY <3>1, TransitionReports
    <3>3. \/ journal[row].component \in disturbed
          \/ Held(nft, ipt, journal[row].component)
                 = Rendered(journal[row].component, journal[row].candidate)
      BY <3>1, <3>2, RowFacts DEF KernelAt
    <3>4. /\ journal[row].component \in Objects
          /\ Content(journal[row].component) = Held(nft, ipt, journal[row].component)
      BY <3>1, <3>2, RowFacts, HeldType
    <3> QED
      BY <3>2, <3>3, <3>4 DEF Moves
  <2>2. CASE MarkRolledBack
    <3>1. /\ task.step = "mark_rolled_back" /\ task.step \in RowSteps
          /\ "ROLLED_BACK" \in TransactionStates /\ "none" \in Details
          /\ journal' \in {journal, Transitioned(journal, task.row, task.from, "ROLLED_BACK", "none")}
      BY <2>2 DEF MarkRolledBack, Transition, RowSteps, TransactionStates, Details
    <3>2. Moves(journal, journal', task.row, "ROLLED_BACK", "none") /\ row = task.row
      BY <3>1, TransitionReports
    <3>3. \/ journal[row].component \in disturbed
          \/ Held(nft, ipt, journal[row].component) = journal[row].snapshot
      BY <3>1, <3>2, RowFacts DEF KernelAt
    <3>4. /\ journal[row].component \in Objects
          /\ Content(journal[row].component) = Held(nft, ipt, journal[row].component)
      BY <3>1, <3>2, RowFacts, HeldType
    <3> QED
      BY <3>2, <3>3, <3>4 DEF Moves
  <2> QED
    BY <2>1, <2>2, OutcomeSteps
<1> QED
  BY <1>1, NatInvariantHolds, PTL DEF Spec, OutcomeIsExact

===============================================================================
