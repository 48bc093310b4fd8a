---------------------------- MODULE DesiredState ----------------------------
(***************************************************************************)
(* The panel: administrators who list, edit, review and apply the desired  *)
(* state at the same time (src/internal/api), the daemon that tests,       *)
(* imports, plans and applies it (src/internal/app/daemon.go), and the     *)
(* database both processes share.                                          *)
(*                                                                         *)
(* Every SQL statement or transaction is a step of its own, so a plan is   *)
(* made of rows read at different moments.  The daemon's mutexes keep its  *)
(* own handlers apart and nothing else: the web process edits rows while   *)
(* a plan is being loaded.  An apply is one step here; its failures,       *)
(* recovery and rollback are the subject of HostTransaction, RouteEngine,  *)
(* InterfaceOutbound and NatTransaction.                                   *)
(*                                                                         *)
(* The tables fall into groups that share no row and no mutex; `group` is  *)
(* chosen once, so that one run covers all of them without multiplying     *)
(* them.                                                                   *)
(***************************************************************************)
EXTENDS DesiredPlan, Sequences

CONSTANTS
  None,           \* no administrator, no identifier
  Admins,         \* administrators working at the same time
  Ids,            \* identifiers of rows
  RouteImports,   \* the shape an import gives the outbound of an identifier,
  RelayImports,   \* where routes use the outbounds and where relays do
  Names,          \* display names
  InitialName,    \* the names of the rows that are there at first
  RouteDocs,      \* the routes an administrator may ask for
  PageSize,       \* rows per page
  MaxEdits        \* bound: writes to the database

\* A cursor of 0 stands before every row.
ASSUME IdsAreNumbers ==
  /\ Ids \subseteq Nat \ {0} /\ Ids # {} /\ IsFiniteSet(Ids)
  /\ PageSize \in Nat \ {0}
  /\ MaxEdits \in Nat

ASSUME AdminsAreNamed == None \notin Admins

ASSUME NamesAreGiven == \A i \in Ids : InitialName[i] \in Names

INSTANCE DesiredStore

VARIABLES
  group,      \* the tables and deployments of this behaviour
  db,         \* the database
  view,       \* the row an administrator has on the screen
  review,     \* the plan an administrator has reviewed
  request,    \* the request of an administrator that is being served
  mutex,      \* the administrator whose request holds the daemon's mutex
  installed,  \* what has been applied, by deployment
  scan,       \* a client that walks the pages of a list
  edits       \* bound: writes so far

vars == <<group, db, view, review, request, mutex, installed, scan, edits>>

ImportedShape == IF "relays" \in group.tables THEN RelayImports ELSE RouteImports
Shapes == {ImportedShape[i] : i \in Ids}

\* Unknown, healthy and degraded outbounds are selected alike.
Healths == {"usable", "unhealthy"}

OutboundDocs == [name : Names, shape : Shapes, enabled : BOOLEAN, health : Healths]
RelayDocs    == [outbound : Ids, enabled : BOOLEAN]
NamedDocs    == [name : Names, enabled : BOOLEAN]
FrontendDocs == [name : Names, backends : SUBSET Ids, enabled : BOOLEAN]
BindingDocs  == [inbound : Names, enabled : BOOLEAN]

Docs == [outbounds |-> OutboundDocs, routes |-> RouteDocs, relays |-> RelayDocs,
         forwards |-> NamedDocs, backends |-> NamedDocs,
         frontends |-> FrontendDocs, bindings |-> BindingDocs]

Deployments == {"singbox", "routes", "relays", "haproxy", "nat", "xray"}

\* The deployments the daemon plans for review before they are applied, and
\* those whose rows the web process sends along with the apply.
Reviewed == {"singbox", "routes", "relays", "xray"}

\* The list statements of all tables are alike, so the pages of one are walked.
\* Single tables have room for one write more.
Groups ==
  { [tables |-> {"outbounds", "routes"},   kinds |-> {"singbox", "routes"},
     scan |-> None,       edits |-> MaxEdits],
    [tables |-> {"outbounds", "relays"},   kinds |-> {"relays"},
     scan |-> None,       edits |-> MaxEdits],
    [tables |-> {"backends", "frontends"}, kinds |-> {"haproxy"},
     scan |-> None,       edits |-> MaxEdits],
    [tables |-> {"forwards"},              kinds |-> {"nat"},
     scan |-> "forwards", edits |-> MaxEdits + 1],
    [tables |-> {"bindings"},              kinds |-> {"xray"},
     scan |-> None,       edits |-> MaxEdits + 1] }

Edits(table) == table \in group.tables

Idle == [op |-> "idle"]

------------------------------------------------------------------------------
(* Initial state: a panel in use, every row written by the statements. *)

Empty == [outbounds |-> <<>>, credentials |-> <<>>, routes |-> <<>>, relays |-> <<>>,
          forwards |-> <<>>, backends |-> <<>>, frontends |-> <<>>, links |-> <<>>,
          bindings |-> <<>>, births |-> 0]

ImportedDoc(i, name) ==
  [name |-> name, shape |-> ImportedShape[i], enabled |-> TRUE, health |-> "usable"]

SeedOutbounds ==
  CreateOutbounds(Empty, [i \in Ids |-> [doc        |-> ImportedDoc(i, InitialName[i]),
                                        credential |-> ImportedShape[i]]]).db

SeedBackends ==
  InsertedRows(Empty, "backends", [i \in Ids |-> [name |-> InitialName[i], enabled |-> TRUE]])

First == CHOOSE i \in Ids : \A j \in Ids : i <= j

\* Every group starts with what the panel has written into it so far.
Seeds ==
  IF "routes" \in group.tables
  THEN {CreateRoute(SeedOutbounds, First, doc).db : doc \in RouteDocs}
  ELSE IF "relays" \in group.tables
  THEN {CreateRelay(SeedOutbounds, First, doc).db : doc \in RelayDocs}
  ELSE IF "frontends" \in group.tables
  THEN {CreateHAProxyFrontend(SeedBackends, First, doc).db : doc \in FrontendDocs}
  ELSE IF "forwards" \in group.tables
  THEN {CreatePortForward(Empty, First, doc).db : doc \in NamedDocs}
  ELSE {CreateXrayBinding(Empty, First, doc).db : doc \in BindingDocs}

Init ==
  /\ group \in Groups
  /\ db \in Seeds
  /\ view = [a \in Admins |-> None]
  /\ review = [a \in Admins |-> None]
  /\ request = [a \in Admins |-> Idle]
  /\ mutex = None
  /\ installed = [k \in Deployments |-> <<>>]
  /\ scan = None
  /\ edits = 0

------------------------------------------------------------------------------
(* Editing.  A form shows a row with its revision and sends both back; a   *)
(* refused write leaves the database alone and the form is stale.          *)

\* Bound: an administrator has one thing on the screen, a form or a review.
Free(a) == request[a] = Idle /\ view[a] = None /\ review[a] = None

CanEdit(a) == request[a] = Idle /\ edits < group.edits

Commit(a, answer) ==
  /\ db' = answer.db
  /\ edits' = IF answer.err = "none" THEN edits + 1 ELSE edits
  /\ view' = [view EXCEPT ![a] = None]
  /\ UNCHANGED <<group, review, request, mutex, installed, scan>>

\* A list page on the screen of an administrator, of which one row is opened.
ReadRow(a, table) ==
  /\ Free(a)
  /\ edits < group.edits
  /\ Edits(table)
  /\ \E i \in Page(db, table, 0, Cardinality(Ids)) :
       view' = [view EXCEPT ![a] = [table |-> table, id |-> i, row |-> db[table][i]]]
  /\ UNCHANGED <<group, db, review, request, mutex, installed, scan, edits>>

Opened(a, table) == view[a] # None /\ view[a].table = table

Edit(a, table, New(_, _, _), Change(_, _, _, _), Drop(_, _, _)) ==
  /\ CanEdit(a)
  /\ Edits(table)
  /\ \/ Free(a) /\ \E i \in Ids, doc \in Docs[table] : Commit(a, New(db, i, doc))
     \/ /\ Opened(a, table)
        /\ \E doc \in Docs[table] \ {view[a].row.doc} :
             Commit(a, Change(db, view[a].id, view[a].row.revision, doc))
     \/ /\ Opened(a, table)
        /\ Commit(a, Drop(db, view[a].id, view[a].row.revision))

EditRoute(a)   == Edit(a, "routes", CreateRoute, UpdateRoute, DeleteRoute)
EditRelay(a)   == Edit(a, "relays", CreateRelay, UpdateRelay, DeleteRelay)
EditForward(a) == Edit(a, "forwards", CreatePortForward, UpdatePortForward, DeletePortForward)
EditBackend(a) ==
  Edit(a, "backends", CreateHAProxyBackend, UpdateHAProxyBackend, DeleteHAProxyBackend)
EditFrontend(a) ==
  Edit(a, "frontends", CreateHAProxyFrontend, UpdateHAProxyFrontend, DeleteHAProxyFrontend)
EditBinding(a) == Edit(a, "bindings", CreateXrayBinding, UpdateXrayBinding, DeleteXrayBinding)

\* An outbound is not created by a form: it is imported or cloned.  The
\* document of a form keeps the health it was read with.
EditOutbound(a) ==
  /\ CanEdit(a)
  /\ Opened(a, "outbounds")
  /\ \/ \E doc \in OutboundDocs \ {view[a].row.doc} :
          /\ doc.health = view[a].row.doc.health
          /\ Commit(a, UpdateOutbound(db, view[a].id, view[a].row.revision, doc))
     \/ Commit(a, DeleteOutbound(db, view[a].id, view[a].row.revision))

\* cloneOutboundHandler reads the source once more; the clone starts disabled.
CloneRow(a) ==
  /\ CanEdit(a)
  /\ Opened(a, "outbounds")
  /\ view[a].id \in Present(db, "outbounds")
  /\ \E i \in Ids, name \in Names :
       LET source == db.outbounds[view[a].id].doc
       IN  Commit(a, CloneOutbound(db, view[a].id, view[a].row.revision, i,
             [source EXCEPT !.name = name, !.enabled = FALSE, !.health = "usable"]))

\* The import handlers of the daemon: the input gives the identifiers, names
\* and shapes, and a batch is stored as a whole.
Import(a) ==
  /\ CanEdit(a)
  /\ Free(a)
  /\ mutex = None
  /\ Edits("outbounds")
  /\ \E batch \in SUBSET Ids \ {{}}, name \in [Ids -> Names] :
       Commit(a, CreateOutbounds(db,
         [i \in batch |-> [doc |-> ImportedDoc(i, name[i]), credential |-> ImportedShape[i]]]))

------------------------------------------------------------------------------
(* The connection test of a stored outbound.  It holds the daemon's mutex  *)
(* for as long as the probe takes and then writes the health into the row. *)

StartTest(a) ==
  /\ CanEdit(a)
  /\ mutex = None
  /\ Opened(a, "outbounds")
  /\ Current(db, "outbounds", view[a].id, view[a].row.revision)
  /\ request' = [request EXCEPT ![a] =
       [op |-> "test", id |-> view[a].id, row |-> db.outbounds[view[a].id]]]
  /\ mutex' = a
  /\ view' = [view EXCEPT ![a] = None]
  /\ UNCHANGED <<group, db, review, installed, scan, edits>>

Done(a) ==
  /\ request' = [request EXCEPT ![a] = Idle]
  /\ mutex' = IF mutex = a THEN None ELSE mutex

\* Faulty variant: the health goes into whatever revision the row has now.
FinishTestUnchecked(a) ==
  /\ request[a].op = "test"
  /\ \E health \in Healths :
       LET i      == request[a].id
           answer == IF i \notin Present(db, "outbounds") THEN Answer(db, "conflict")
                     ELSE UpdateOutbound(db, i, db.outbounds[i].revision,
                            [request[a].row.doc EXCEPT !.health = health])
       IN  /\ db' = answer.db
           /\ edits' = IF answer.err = "none" THEN edits + 1 ELSE edits
  /\ Done(a)
  /\ UNCHANGED <<group, view, review, installed, scan>>

FinishTest(a) ==
  /\ request[a].op = "test"
  /\ \E health \in Healths :
       LET answer == UpdateOutbound(db, request[a].id, request[a].row.revision,
                       [request[a].row.doc EXCEPT !.health = health])
       IN  /\ db' = answer.db
           /\ edits' = IF answer.err = "none" THEN edits + 1 ELSE edits
  /\ Done(a)
  /\ UNCHANGED <<group, view, review, installed, scan>>

------------------------------------------------------------------------------
(* Loading the rows of a plan, one query at a time. *)

Rows(table)        == [table |-> table, id |-> None]
Credential(i)      == [table |-> "credentials", id |-> i]

loadSingBoxPlan    == <<Rows("outbounds")>>
loadRoutePlan      == <<Rows("outbounds"), Rows("routes")>>
loadRelayPlan      == <<Rows("relays"), Rows("outbounds")>>
loadXrayPlan       == <<Rows("bindings")>>
loadHAProxyDesired == <<Rows("frontends"), Rows("backends")>>
loadPortForwards   == <<Rows("forwards")>>

Queries(kind) ==
  CASE kind = "singbox" -> loadSingBoxPlan
    [] kind = "routes"  -> loadRoutePlan
    [] kind = "relays"  -> loadRelayPlan
    [] kind = "xray"    -> loadXrayPlan
    [] kind = "haproxy" -> loadHAProxyDesired
    [] kind = "nat"     -> loadPortForwards

Nothing == [t \in Tables \cup {"credentials"} |-> <<>>]

docsOf(table) == [i \in Present(db, table) |-> db[table][i].doc]

\* The credentials a load asks for once it has the outbounds: those of the
\* enabled ones, and for relays those that enabled relays use.
Needed(kind, read) ==
  IF kind = "relays"
  THEN {read.relays[r].outbound : r \in Enabled(read.relays)} \cap DOMAIN read.outbounds
  ELSE Enabled(read.outbounds)

Ascending[s \in SUBSET Ids] ==
  IF s = {} THEN <<>>
  ELSE LET least == CHOOSE i \in s : \A j \in s : i <= j
       IN  <<Credential(least)>> \o Ascending[s \ {least}]

ReadTable(a) ==
  LET job == request[a] IN
  /\ job.op \in {"plan", "apply"}
  /\ job.todo # <<>>
  /\ Head(job.todo).id = None
  /\ LET table == Head(job.todo).table
         read  == [job.read EXCEPT ![table] = docsOf(table)]
         more  == IF table = "outbounds" THEN Ascending[Needed(job.kind, read)] ELSE <<>>
     IN  request' = [request EXCEPT ![a].read = read, ![a].todo = more \o Tail(@)]
  /\ UNCHANGED <<group, db, view, review, mutex, installed, scan, edits>>

\* OutboundCredential; a missing row fails the whole request.
ReadCredential(a) ==
  LET job == request[a] IN
  /\ job.op \in {"plan", "apply"}
  /\ job.todo # <<>>
  /\ Head(job.todo).id # None
  /\ LET i == Head(job.todo).id
     IN  IF i \in DOMAIN db.credentials
         THEN /\ request' = [request EXCEPT
                   ![a].read.credentials = WithRow(@, i, db.credentials[i]),
                   ![a].todo = Tail(@)]
              /\ UNCHANGED mutex
         ELSE Done(a)
  /\ UNCHANGED <<group, db, view, review, installed, scan, edits>>

\* What the planner of a deployment makes of the rows that were read.
Plan(kind, read) ==
  IF kind = "singbox"
  THEN BuildRoutedPlan(read.outbounds, read.credentials, installed.routes)
  ELSE IF kind = "relays" THEN relayBuildPlan(read.relays, read.outbounds, read.credentials)
  ELSE IF kind = "haproxy" THEN haproxyBuildPlan(read.frontends, read.backends)
  ELSE IF kind = "nat" THEN natBuildPlan(read.forwards)
  ELSE IF kind = "xray" THEN BuildFragmentPlan(read.bindings)
  ELSE LET routing == routingBuildPlan(read.routes, read.outbounds)
           singbox == BuildRoutedPlan(read.outbounds, read.credentials, routing.config)
       IN  Planned(routing.ok /\ singbox.ok,
                   [routes |-> routing.config, singbox |-> singbox.config])

\* The files an apply of a deployment replaces, and so their hashes.
Owned(kind) ==
  IF kind = "routes" THEN [routes |-> installed.routes, singbox |-> installed.singbox]
  ELSE installed[kind]

Install(kind, config) ==
  installed' = IF kind = "routes"
               THEN [installed EXCEPT !.routes = config.routes, !.singbox = config.singbox]
               ELSE [installed EXCEPT ![kind] = config]

------------------------------------------------------------------------------
(* Plans and applies.  The daemon loads under its mutex. *)

StartLoad(a, op, kind) ==
  /\ kind \in group.kinds \cap Reviewed
  /\ mutex = None
  /\ mutex' = a
  /\ request' = [request EXCEPT ![a] =
       [op |-> op, kind |-> kind, todo |-> Queries(kind), read |-> Nothing]]
  /\ UNCHANGED <<group, db, view, review, installed, scan, edits>>

StartPlan(a, kind) == Free(a) /\ StartLoad(a, "plan", kind)

StartApply(a, kind) ==
  /\ request[a] = Idle
  /\ review[a] # None
  /\ review[a].kind = kind
  /\ StartLoad(a, "apply", kind)

Loaded(a, op) == request[a].op = op /\ request[a].todo = <<>>

FinishPlan(a) ==
  /\ Loaded(a, "plan")
  /\ LET kind == request[a].kind
         plan == Plan(kind, request[a].read)
     IN  review' = [review EXCEPT ![a] =
           IF plan.ok THEN [kind |-> kind, state |-> Owned(kind), candidate |-> plan.config]
           ELSE None]
  /\ Done(a)
  /\ UNCHANGED <<group, db, view, installed, scan, edits>>

\* Faulty variant: only the candidate is compared with the review.
SameCandidate(a, kind, plan) == plan.ok /\ plan.config = review[a].candidate

\* The hashes an apply request carries, against those of the plan as loaded now.
AsReviewed(a, kind, plan) ==
  /\ plan.ok
  /\ plan.config = review[a].candidate
  /\ Owned(kind) = review[a].state

FinishApply(a) ==
  /\ Loaded(a, "apply")
  /\ request[a].kind \in Reviewed
  /\ LET kind == request[a].kind
         plan == Plan(kind, request[a].read)
     IN  \/ AsReviewed(a, kind, plan) /\ Install(kind, plan.config)
         \/ UNCHANGED installed
  /\ review' = [review EXCEPT ![a] = None]
  /\ Done(a)
  /\ UNCHANGED <<group, db, view, scan, edits>>

\* The web process reads the rows of a NAT or HAProxy apply itself, outside
\* the daemon, and sends them; nothing was reviewed.
StartSubmit(a, kind) ==
  /\ Free(a)
  /\ kind \in group.kinds \ Reviewed
  /\ request' = [request EXCEPT ![a] =
       [op |-> "apply", kind |-> kind, todo |-> Queries(kind), read |-> Nothing]]
  /\ UNCHANGED <<group, db, view, review, mutex, installed, scan, edits>>

Submit(a) ==
  /\ Loaded(a, "apply")
  /\ request[a].kind \notin Reviewed
  /\ LET kind == request[a].kind
         plan == Plan(kind, request[a].read)
     IN  \/ plan.ok /\ Install(kind, plan.config)
         \/ UNCHANGED installed
  /\ Done(a)
  /\ UNCHANGED <<group, db, view, review, scan, edits>>

------------------------------------------------------------------------------
(* A client of the list endpoints: it asks for pages until there is no     *)
(* next cursor.  `steady` is a ghost: the rows that were there when the    *)
(* walk began and have been there ever since.                              *)

StartScan(table) ==
  /\ scan = None
  /\ table = group.scan
  /\ scan' = [table |-> table, after |-> 0, listed |-> <<>>,
              steady |-> {<<i, db[table][i].born>> : i \in Present(db, table)}, more |-> TRUE]
  /\ UNCHANGED <<group, db, view, review, request, mutex, installed, edits>>

\* Faulty variant: the cursor is the first row left out.
NextCursorBeyond(items, page) == CHOOSE i \in items \ page : \A j \in items \ page : i <= j

\* The handlers ask for one row more than they answer with.
NextCursor(items, page) == CHOOSE i \in page : \A j \in page : j <= i

NextPage ==
  /\ scan # None
  /\ scan.more
  /\ LET items == Page(db, scan.table, scan.after, PageSize + 1)
         page  == Page(db, scan.table, scan.after, PageSize)
         more  == Cardinality(items) > PageSize
         still == {s \in scan.steady : s[1] \in Present(db, scan.table)
                                       /\ db[scan.table][s[1]].born = s[2]}
     IN  scan' = [scan EXCEPT
           !.after  = IF more THEN NextCursor(items, page) ELSE @,
           !.listed = Append(@, {<<i, db[scan.table][i].born>> : i \in page}),
           !.steady = still,
           !.more   = more]
  /\ UNCHANGED <<group, db, view, review, request, mutex, installed, edits>>

Next ==
  \/ NextPage
  \/ \E table \in Tables : StartScan(table)
  \/ \E a \in Admins :
       \/ \E table \in Tables : ReadRow(a, table)
       \/ EditOutbound(a) \/ CloneRow(a) \/ Import(a)
       \/ EditRoute(a) \/ EditRelay(a) \/ EditForward(a)
       \/ EditBackend(a) \/ EditFrontend(a) \/ EditBinding(a)
       \/ StartTest(a) \/ FinishTest(a)
       \/ ReadTable(a) \/ ReadCredential(a)
       \/ \E kind \in Deployments :
            StartPlan(a, kind) \/ StartApply(a, kind) \/ StartSubmit(a, kind)
       \/ FinishPlan(a) \/ FinishApply(a) \/ Submit(a)

Spec == Init /\ [][Next]_vars

------------------------------------------------------------------------------
(* Properties. *)

RowOf(docs) == [doc : docs, revision : Nat \ {0}, born : Nat \ {0}]

\* Every variable keeps its type: rows in their tables, requests, reviews.
TypeOK ==
  /\ group \in Groups
  /\ \A table \in Tables :
       /\ Present(db, table) \subseteq Ids
       /\ \A i \in Present(db, table) : db[table][i] \in RowOf(Docs[table])
  /\ \A i \in DOMAIN db.credentials : db.credentials[i] \in Shapes
  /\ \A i \in DOMAIN db.links : db.links[i] \subseteq Ids
  /\ \A a \in Admins :
       /\ request[a].op \in {"idle", "test", "plan", "apply"}
       /\ view[a] # None => view[a].table \in group.tables
       /\ review[a] # None => review[a].kind \in group.kinds
  /\ mutex \in Admins \cup {None}
  /\ DOMAIN installed = Deployments
  /\ edits \in 0..(group.edits + 1)

\* Whatever editors, imports, clones and tests do to each other's rows, every
\* outbound keeps the credential that was made for it, every identifier inside
\* a stored definition names a stored row, and the link rows that guard a
\* backend against deletion say what the definition of the frontend says.
ReferencesResolve ==
  /\ DOMAIN db.credentials = Present(db, "outbounds")
  /\ \A i \in Present(db, "outbounds") : db.credentials[i] = db.outbounds[i].doc.shape
  /\ OutboundReferences(db)
  /\ \A f \in Present(db, "frontends") :
       db.frontends[f].doc.backends \subseteq Present(db, "backends")
  /\ DOMAIN db.links = Present(db, "frontends")

\* What an administrator's form, or the connection test run for one, had read
\* of a row.
Seen(a, table, i) ==
  {v.row : v \in {v \in {view[a]} \ {None} : v.table = table /\ v.id = i}}
    \cup {r.row : r \in {r \in {request[a]} : r.op = "test" /\ table = "outbounds" /\ r.id = i}}

Acts(a) == view'[a] # view[a] \/ request'[a] # request[a]

Overwritten(table, i) ==
  i \in Present(db, table)
    /\ (i \notin Present(db', table) \/ db'[table][i] # db[table][i])

\* A write never destroys an edit its author has not seen: when a row is
\* changed or deleted, by a form or by a slow connection test, its author had
\* read exactly the document that goes away.  A row that was deleted and
\* created anew starts at revision 1 again and is out of this promise.
NoLostEdit ==
  [][\A table \in Tables, i \in Ids : Overwritten(table, i) =>
       \E a \in Admins :
         /\ Acts(a)
         /\ \E row \in Seen(a, table, i) :
              row.doc = db[table][i].doc \/ row.born # db[table][i].born]_vars

\* An apply changes the host only into the configuration its administrator
\* reviewed, and only from the installed state the review was made against,
\* although rows, health and other deployments may change in between.  It says
\* nothing of HAProxy and NAT, whose applies are not reviewed by hash.
AppliedAsReviewed ==
  [][\A kind \in Reviewed :
       installed'[kind] # installed[kind] =>
         \E a \in Admins :
           /\ Acts(a)
           /\ review[a] # None
           /\ review[a].state = Owned(review[a].kind)
           /\ review[a].candidate = (IF review[a].kind = "routes"
                                     THEN [routes |-> installed'.routes,
                                           singbox |-> installed'.singbox]
                                     ELSE installed'[kind])]_vars

\* What is installed refers to nothing that is not installed, although the
\* rows of a plan were read by several queries while others edited them, and
\* although sing-box is applied on its own and together with the routes:
\* routes leave through a configured outbound, relays carry the credential of
\* their outbound's endpoint, frontends have a backend that is enabled.
InstalledResolves ==
  /\ \A r \in DOMAIN installed.routes :
       installed.routes[r].selected \in DOMAIN installed.singbox \cup {Direct}
  /\ \A r \in DOMAIN installed.relays :
       installed.relays[r].credential = installed.relays[r].shape
  /\ \A f \in DOMAIN installed.haproxy : Enabled(installed.haproxy[f]) # {}

\* A client that follows the cursors meets every row that was there all along,
\* once, however many rows are inserted and deleted between two pages.
ScanComplete ==
  scan # None =>
    /\ ~scan.more => scan.steady \subseteq UNION {scan.listed[n] : n \in DOMAIN scan.listed}
    /\ \A m, n \in DOMAIN scan.listed : m # n => scan.listed[m] \cap scan.listed[n] = {}

==============================================================================
