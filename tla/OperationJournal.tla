--------------------------- MODULE OperationJournal ---------------------------
(***************************************************************************)
(* The durable operation journal: the transaction states of                *)
(* internal/domain/transaction.go and the statements the store runs on the *)
(* operation_journal table (internal/database/operation.go).               *)
(*                                                                         *)
(* A journal is a sequence of entries in insertion order, so that the row  *)
(* of an entry is its SQLite rowid.  An entry keeps the identity chosen by *)
(* the client, the component, the state, the two protected documents (the  *)
(* snapshot and the candidate, here the configuration they carry), the     *)
(* failure detail, and the damage its stored documents have suffered since *)
(* (each module lists the kinds its executors tell apart).                 *)
(*                                                                         *)
(* This module is pure: it declares no variable and is EXTENDed by the     *)
(* modules that keep a journal.                                            *)
(***************************************************************************)
EXTENDS Naturals, Sequences

TransactionStates ==
    {"PREPARED", "VALIDATED", "APPLYING", "VERIFYING",
     "COMMITTED", "ROLLING_BACK", "ROLLED_BACK", "FAILED"}

\* The table transactionTransitions; a state that is not a key has no successor.
Transitions ==
    [s \in TransactionStates |->
        CASE s = "PREPARED"     -> {"VALIDATED", "ROLLING_BACK", "FAILED"}
          [] s = "VALIDATED"    -> {"APPLYING", "ROLLING_BACK", "FAILED"}
          [] s = "APPLYING"     -> {"VERIFYING", "ROLLING_BACK", "FAILED"}
          [] s = "VERIFYING"    -> {"COMMITTED", "ROLLING_BACK", "FAILED"}
          [] s = "COMMITTED"    -> {"ROLLING_BACK"}
          [] s = "ROLLING_BACK" -> {"ROLLED_BACK", "FAILED"}
          [] OTHER              -> {}]

CanTransitionTo(from, to) == to \in Transitions[from]

FinishedStates == {"COMMITTED", "ROLLED_BACK", "FAILED"}

\* The failure details a property distinguishes.
Details == {"none", "not_applied", "interrupted", "operator_requested", "rollback_failed",
            "snapshot_authentication_failed"}

\* Faulty variant: rows whose documents do not authenticate are skipped.
AuthenticUnfinishedRows(j) ==
    {row \in DOMAIN j : j[row].state \notin FinishedStates /\ j[row].damage = "none"}

\* UnfinishedOperations: state NOT IN ('COMMITTED', 'ROLLED_BACK', 'FAILED').
UnfinishedRows(j) == {row \in DOMAIN j : j[row].state \notin FinishedStates}

\* Faulty variant: the id is not a key.
AnyIdIsFree(j, id) == TRUE

\* CreateOperation: the id is the primary key, so a second insertion is refused.
IdIsFree(j, id) == \A row \in DOMAIN j : j[row].id # id

Created(j, id, component, snapshot, candidate) ==
    Append(j, [id |-> id, component |-> component, state |-> "PREPARED",
               snapshot |-> snapshot, candidate |-> candidate,
               detail |-> "none", damage |-> "none"])

\* TransitionOperation: UPDATE ... WHERE id = ? AND state = ?, after the
\* transition table has been consulted.  It affects no row (ErrConflict) when
\* the stored state is not the one the caller expects.
TransitionApplies(j, row, from, to) ==
    CanTransitionTo(from, to) /\ j[row].state = from

Transitioned(j, row, from, to, detail) ==
    IF TransitionApplies(j, row, from, to)
    THEN [j EXCEPT ![row] = [@ EXCEPT !.state = to, !.detail = detail]]
    ELSE j

\* CommittedOperations(ctx, 1): the committed operation updated last (ORDER BY
\* updated_at DESC).  Where operations are serialized that is the one inserted
\* last.  Only an emergency bypass can commit ahead of an older unfinished
\* bypass that recovery commits afterwards (RouteEngine, `overtook`); the newest
\* of the two by insertion is then not the newest by commit.
IsLatestCommitted(j, row) ==
    /\ row \in DOMAIN j
    /\ j[row].state = "COMMITTED"
    /\ \A other \in DOMAIN j : j[other].state = "COMMITTED" => other <= row

===============================================================================
