---------------------------- MODULE DesiredStore ----------------------------
(***************************************************************************)
(* The desired-state tables of the panel: the statements that              *)
(* src/internal/database/{outbound,route,relay,forward,haproxy,xray}.go    *)
(* run against the schema of src/internal/database/migrations, as          *)
(* functions on a record `d` with one partial function per table.  A       *)
(* table maps the identifiers of its rows to the rows.  Identifiers are    *)
(* numbers because SQLite orders them and pages are cut at one.            *)
(*                                                                         *)
(* A statement answers [db |-> d', err |-> e]: SQLite runs it, or the      *)
(* transaction it is in, as a whole or not at all.  `births` is a ghost    *)
(* that numbers the inserted rows: it tells a row from one that was        *)
(* created later under the same identifier.                                *)
(***************************************************************************)
EXTENDS Naturals, FiniteSets, Functions

CONSTANT None  \* no identifier

Tables == {"outbounds", "routes", "relays", "forwards", "backends",
           "frontends", "bindings"}

Answer(d, err) == [db |-> d, err |-> err]

Present(d, table) == DOMAIN d[table]

\* The row an update or a delete names with "WHERE id = ? AND revision = ?".
Current(d, table, id, revision) ==
  id \in Present(d, table) /\ d[table][id].revision = revision

------------------------------------------------------------------------------
(* The constraints of the schema. *)

UniqueNames(t) == \A i, j \in DOMAIN t : t[i].doc.name = t[j].doc.name => i = j

RouteReferences(route) == {route.outbound, route.fallback} \ {None}

UniqueSources(t) ==
  \A i, j \in DOMAIN t :
    t[i].doc.enabled /\ t[j].doc.enabled /\ t[i].doc.source = t[j].doc.source => i = j

UniqueInbounds(t) ==
  \A i, j \in DOMAIN t :
    t[i].doc.enabled /\ t[j].doc.enabled /\ t[i].doc.inbound = t[j].doc.inbound => i = j

OutboundReferences(d) ==
  /\ \A i \in Present(d, "routes") :
       RouteReferences(d.routes[i].doc) \subseteq Present(d, "outbounds")
  /\ \A i \in Present(d, "relays") : d.relays[i].doc.outbound \in Present(d, "outbounds")

\* haproxy_frontend_backends holds the foreign keys of a frontend; the
\* definition of the frontend holds the same identifiers once more.
LinkReferences(d) ==
  \A i \in DOMAIN d.links : d.links[i] \subseteq Present(d, "backends")

Schema(d) ==
  /\ \A table \in {"outbounds", "forwards", "backends", "frontends"} :
       UniqueNames(d[table])
  /\ UniqueSources(d.routes)
  /\ UniqueInbounds(d.bindings)
  /\ OutboundReferences(d)
  /\ LinkReferences(d)

\* mapWriteError: a constraint violation rolls back and is a conflict.
mapWriteError(old, new) ==
  IF Schema(new) THEN Answer(new, "none") ELSE Answer(old, "conflict")

------------------------------------------------------------------------------
(* The statements every table has. *)

WithRow(t, id, row) == [i \in DOMAIN t \cup {id} |-> IF i = id THEN row ELSE t[i]]

WithRows(t, rows) ==
  [i \in DOMAIN t \cup DOMAIN rows |-> IF i \in DOMAIN rows THEN rows[i] ELSE t[i]]

\* Faulty variant: a new row gets the revision a Go value starts with.
InsertedUnnumbered(d, table, id, doc) ==
  [d EXCEPT ![table] = WithRow(@, id, [doc |-> doc, revision |-> 0, born |-> d.births + 1]),
            !.births = @ + 1]

Inserted(d, table, id, doc) ==
  [d EXCEPT ![table] = WithRow(@, id, [doc |-> doc, revision |-> 1, born |-> d.births + 1]),
            !.births = @ + 1]

\* Several rows in one transaction, in the order of their identifiers.
InsertedRows(d, table, docs) ==
  LET row(i) == [doc |-> docs[i], revision |-> 1,
                 born |-> d.births + Cardinality({j \in DOMAIN docs : j <= i})]
  IN  [d EXCEPT ![table] = WithRows(@, [i \in DOMAIN docs |-> row(i)]),
                !.births = @ + Cardinality(DOMAIN docs)]

Replaced(d, table, id, doc) ==
  LET old == d[table][id]
  IN  [d EXCEPT ![table] = [@ EXCEPT ![id] =
         [doc |-> doc, revision |-> old.revision + 1, born |-> old.born]]]

Removed(d, table, id) == [d EXCEPT ![table] = Restrict(@, DOMAIN @ \ {id})]

Create(d, table, id, doc) ==
  IF id \in Present(d, table) THEN Answer(d, "conflict")
  ELSE mapWriteError(d, Inserted(d, table, id, doc))

Update(d, table, id, revision, doc) ==
  IF Current(d, table, id, revision)
  THEN mapWriteError(d, Replaced(d, table, id, doc))
  ELSE Answer(d, "conflict")

Delete(d, table, id, revision) ==
  IF Current(d, table, id, revision)
  THEN mapWriteError(d, Removed(d, table, id))
  ELSE Answer(d, "conflict")

\* "WHERE id > ? ORDER BY id LIMIT ?": the identifiers a list answers with.
Page(d, table, after, limit) ==
  LET rest == {i \in Present(d, table) : i > after}
  IN  {i \in rest : Cardinality({j \in rest : j <= i}) <= limit}

ListOutbounds(d, after, limit)         == Page(d, "outbounds", after, limit)
ListRoutes(d, after, limit)            == Page(d, "routes", after, limit)
ListRelays(d, after, limit)            == Page(d, "relays", after, limit)
ListPortForwards(d, after, limit)      == Page(d, "forwards", after, limit)
ListHAProxyBackends(d, after, limit)   == Page(d, "backends", after, limit)
ListHAProxyFrontends(d, after, limit)  == Page(d, "frontends", after, limit)
ListXrayBindings(d, after, limit)      == Page(d, "bindings", after, limit)

------------------------------------------------------------------------------
(* Outbounds: a definition, and a sealed credential in a table of its own  *)
(* whose foreign key cascades.                                             *)

\* Adapter, protocol, endpoint, capabilities and secret names: what the
\* credential was made for.
sameCredentialShape(left, right) == left.shape = right.shape

WithCredential(answer, id, credential) ==
  IF answer.err # "none" THEN answer
  ELSE Answer([answer.db EXCEPT !.credentials = WithRow(@, id, credential)], "none")

CreateOutbound(d, id, doc, credential) ==
  WithCredential(Create(d, "outbounds", id, doc), id, credential)

\* The batch of an import is one transaction.
CreateOutbounds(d, inputs) ==
  LET batch == DOMAIN inputs
      rows  == InsertedRows(d, "outbounds", [i \in batch |-> inputs[i].doc])
  IN  IF batch \cap Present(d, "outbounds") # {} THEN Answer(d, "conflict")
      ELSE mapWriteError(d, [rows EXCEPT !.credentials =
                               WithRows(@, [i \in batch |-> inputs[i].credential])])

\* Every caller passes no replacement credential, so the shape must stay.
UpdateOutbound(d, id, revision, doc) ==
  IF ~Current(d, "outbounds", id, revision) THEN Answer(d, "conflict")
  ELSE IF ~sameCredentialShape(d.outbounds[id].doc, doc) THEN Answer(d, "invalid")
  ELSE Update(d, "outbounds", id, revision, doc)

DeleteOutbound(d, id, revision) ==
  LET answer == Delete(d, "outbounds", id, revision)
  IN  IF answer.err # "none" THEN answer
      ELSE Answer([answer.db EXCEPT !.credentials = Restrict(@, DOMAIN @ \ {id})], "none")

CloneOutbound(d, source, revision, id, clone) ==
  IF source = id THEN Answer(d, "invalid")
  ELSE IF ~Current(d, "outbounds", source, revision) \/ source \notin DOMAIN d.credentials
       THEN Answer(d, "conflict")
  ELSE IF ~sameCredentialShape(d.outbounds[source].doc, clone) THEN Answer(d, "invalid")
  ELSE CreateOutbound(d, id, clone, d.credentials[source])

------------------------------------------------------------------------------
(* Routes, relays, port forwards, HAProxy pools and Xray bindings. *)

\* A failover route names a fallback other than its primary, no other does.
ValidRoute(route) ==
  /\ (route.policy = "failover") = (route.fallback # None)
  /\ route.fallback # route.outbound

CreateRoute(d, id, route) ==
  IF ValidRoute(route) THEN Create(d, "routes", id, route) ELSE Answer(d, "invalid")
UpdateRoute(d, id, revision, route) ==
  IF ValidRoute(route) THEN Update(d, "routes", id, revision, route) ELSE Answer(d, "invalid")
DeleteRoute(d, id, revision) == Delete(d, "routes", id, revision)

CreateRelay(d, id, relay) == Create(d, "relays", id, relay)
UpdateRelay(d, id, revision, relay) == Update(d, "relays", id, revision, relay)
DeleteRelay(d, id, revision) == Delete(d, "relays", id, revision)

CreatePortForward(d, id, forward) == Create(d, "forwards", id, forward)
UpdatePortForward(d, id, revision, forward) == Update(d, "forwards", id, revision, forward)
DeletePortForward(d, id, revision) == Delete(d, "forwards", id, revision)

CreateHAProxyBackend(d, id, backend) == Create(d, "backends", id, backend)
UpdateHAProxyBackend(d, id, revision, backend) == Update(d, "backends", id, revision, backend)
DeleteHAProxyBackend(d, id, revision) == Delete(d, "backends", id, revision)

\* Faulty variant: the links of a frontend are only ever added.
keptHAProxyFrontendBackends(d, id, frontend) ==
  IF id \in DOMAIN d.links THEN d
  ELSE [d EXCEPT !.links = WithRow(@, id, frontend.backends)]

\* In the transaction that wrote the row.
replaceHAProxyFrontendBackends(d, id, frontend) ==
  [d EXCEPT !.links = WithRow(@, id, frontend.backends)]

ValidFrontend(frontend) == frontend.backends # {}

CreateHAProxyFrontend(d, id, frontend) ==
  IF ~ValidFrontend(frontend) THEN Answer(d, "invalid")
  ELSE IF id \in Present(d, "frontends") THEN Answer(d, "conflict")
  ELSE mapWriteError(d, replaceHAProxyFrontendBackends(
                           Inserted(d, "frontends", id, frontend), id, frontend))
UpdateHAProxyFrontend(d, id, revision, frontend) ==
  IF ~ValidFrontend(frontend) THEN Answer(d, "invalid")
  ELSE IF ~Current(d, "frontends", id, revision) THEN Answer(d, "conflict")
  ELSE mapWriteError(d, replaceHAProxyFrontendBackends(
                           Replaced(d, "frontends", id, frontend), id, frontend))
DeleteHAProxyFrontend(d, id, revision) ==
  IF ~Current(d, "frontends", id, revision) THEN Answer(d, "conflict")
  ELSE LET rest == Removed(d, "frontends", id)
       IN  Answer([rest EXCEPT !.links = Restrict(@, DOMAIN @ \ {id})], "none")

CreateXrayBinding(d, id, binding) == Create(d, "bindings", id, binding)
UpdateXrayBinding(d, id, revision, binding) == Update(d, "bindings", id, revision, binding)
DeleteXrayBinding(d, id, revision) == Delete(d, "bindings", id, revision)

==============================================================================
