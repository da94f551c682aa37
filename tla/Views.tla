------------------------------- MODULE Views -------------------------------
(***************************************************************************)
(* The schemas of the mirror and the SQL views made from them: Discover of *)
(* internal/sync, UpsertDataSource and EnsureViews of internal/mirror, and *)
(* the pages a full pass stores, as a query through a collection:// view   *)
(* sees them.                                                              *)
(*                                                                         *)
(* A daemon makes all views anew before it looks whether another one is    *)
(* serving.  Dropping a view, creating it and storing the row it was made  *)
(* for are statements of their own, and each may fail.                     *)
(*                                                                         *)
(* A data source in Notion's trash is one that is no longer shared: its    *)
(* row gets in_trash where a request for its pages fails, and both keep    *)
(* them out of the passes.                                                 *)
(***************************************************************************)
EXTENDS Properties

CONSTANTS
    Daemons,    \* processes that run the daemon command
    Sources,    \* data sources
    ParentOf,   \* the database of each
    FormsOf,    \* of each source, what it and its one page may look like in Notion:
                \* records [schema, props, live]
    StartsAs,   \* of each source, its forms at first, or NoForm
    NoForm,     \* not shared with the integration, not stored, or no view
    Reverting,  \* TRUE when a source may look again as it did before
    MaxEdits,   \* bound: changes in Notion
    MaxFaults   \* bound: statements or requests that fail, and deaths of a daemon

ASSUME ViewsAssumption ==
    /\ \A s \in Sources : NoForm \notin FormsOf[s] /\ \A f \in FormsOf[s] : Storable(f.props)
    /\ \A s \in Sources : StartsAs[s] \subseteq FormsOf[s] \cup {NoForm}
    /\ Reverting \in BOOLEAN /\ MaxEdits \in Nat /\ MaxFaults \in Nat

\* Notion gives a page the properties of its source, each of the type it has there.
ASSUME FormsFit ==
    \A s \in Sources : \A f \in FormsOf[s] :
       /\ f.props = [name \in DOMAIN f.schema |-> f.props[name]]
       /\ \A name \in DOMAIN f.schema : f.props[name].type = f.schema[name]

VARIABLES
    remote,     \* Notion: the form of each source
    past,       \* not in the code: the forms each source has had
    edits,      \* how often Notion has changed
    rows,       \* data_sources: the schema of each row (view_sql is made from it)
    databases,  \* databases: the ids
    views,      \* the schema each view was made from
    pages,      \* the page of each source: pages.properties, page_props, relations, in_trash
    proc,       \* what each daemon is doing
    torn,       \* not in the code: sources whose view was dropped, and the rest not done yet,
    failed,     \* and of them, those where a statement failed
    faults

vars == <<remote, past, edits, rows, databases, views, pages, proc, torn, failed, faults>>

\* lazy: schemas are retrieved one by one, as the walk of all databases does it.
Off == [pc |-> "off", todo |-> {}, source |-> NoForm, lazy |-> FALSE, parents |-> {},
        schemas |-> [s \in Sources |-> NoForm]]

Schema(form) == IF form = NoForm THEN NoForm ELSE form.schema
Shared == {s \in Sources : remote[s] # NoForm}
Stored == {s \in Sources : rows[s] # NoForm}

Init ==
    /\ remote \in [Sources -> UNION {StartsAs[s] : s \in Sources}]
    /\ \A s \in Sources : remote[s] \in StartsAs[s]
    /\ past = [s \in Sources |-> {remote[s]}]
    /\ edits = 0
    /\ rows = [s \in Sources |-> NoForm]
    /\ databases = {}
    /\ views = [s \in Sources |-> NoForm]
    /\ pages = [s \in Sources |-> NoForm]
    /\ proc = [d \in Daemons |-> Off]
    /\ torn = {}
    /\ failed = {}
    /\ faults = 0

Goes(d, r) == proc' = [proc EXCEPT ![d] = r]
At(d, pc) == proc[d].pc = pc
Moves(d, pc) == Goes(d, [proc[d] EXCEPT !.pc = pc])

-----------------------------------------------------------------------------
(* Notion. *)

\* A source, or its page, changes; or it is not shared any more.
Edit(s) ==
    /\ edits < MaxEdits
    /\ edits' = edits + 1
    /\ \E f \in FormsOf[s] \cup {NoForm} :
          /\ f \notin (IF Reverting THEN {remote[s]} ELSE past[s])
          /\ remote' = [remote EXCEPT ![s] = f]
          /\ past' = [past EXCEPT ![s] = @ \cup {f}]
    /\ UNCHANGED <<rows, databases, views, pages, proc, torn, failed, faults>>

-----------------------------------------------------------------------------
(* EnsureViews, when a daemon opens the mirror. *)

\* Plausible bug: a daemon takes the views as they are.
OpenTrusting(d) ==
    /\ At(d, "off")
    /\ Goes(d, [Off EXCEPT !.pc = "ensure"])
    /\ UNCHANGED <<remote, past, edits, rows, databases, views, pages, torn, failed, faults>>

\* All rows are read first.
Open(d) ==
    /\ At(d, "off")
    /\ Goes(d, [Off EXCEPT !.pc = "ensure", !.todo = Stored, !.schemas = rows])
    /\ UNCHANGED <<remote, past, edits, rows, databases, views, pages, torn, failed, faults>>

Dropped(s) ==
    /\ views' = [views EXCEPT ![s] = NoForm]
    /\ torn' = torn \cup {s}
    /\ failed' = failed \ {s}

Made(s) == torn' = torn \ {s} /\ failed' = failed \ {s}

EnsureDrop(d) ==
    /\ At(d, "ensure")
    /\ \E s \in proc[d].todo :
          /\ Dropped(s)
          /\ Goes(d, [proc[d] EXCEPT !.pc = "ensure create", !.source = s, !.todo = @ \ {s}])
    /\ UNCHANGED <<remote, past, edits, rows, databases, pages, faults>>

\* CREATE VIEW fails when another process has made the view meanwhile: the daemon ends.
EnsureCreate(d) ==
    LET s == proc[d].source IN
    /\ At(d, "ensure create")
    /\ IF views[s] # NoForm THEN Goes(d, Off) /\ UNCHANGED <<views, torn, failed>>
       ELSE /\ views' = [views EXCEPT ![s] = proc[d].schemas[s]]
            /\ Made(s)
            /\ Moves(d, "ensure")
    /\ UNCHANGED <<remote, past, edits, rows, databases, pages, faults>>

Serving(d) == proc[d].pc \notin {"off", "ensure", "ensure create"}

\* Listen: it goes on unless another daemon answers.
Serve(d) ==
    /\ At(d, "ensure") /\ proc[d].todo = {}
    /\ Goes(d, IF \E e \in Daemons : Serving(e) THEN Off ELSE [Off EXCEPT !.pc = "idle"])
    /\ UNCHANGED <<remote, past, edits, rows, databases, views, pages, torn, failed, faults>>

-----------------------------------------------------------------------------
(* Discover, of a bootstrap or a full pass. *)

\* The search for data sources returns them with their schemas.
Discover(d) ==
    /\ At(d, "idle")
    /\ Goes(d, [Off EXCEPT !.pc = "walk", !.todo = Shared,
                           !.schemas = [s \in Sources |-> Schema(remote[s])]])
    /\ UNCHANGED <<remote, past, edits, rows, databases, views, pages, torn, failed, faults>>

(***************************************************************************)
(* discoverViaDatabases: the API does not know data sources, or a later    *)
(* page of the search fails.  The databases are stored, their sources      *)
(* retrieved one by one.                                                   *)
(***************************************************************************)
FallBack(d) ==
    /\ At(d, "walk") /\ ~proc[d].lazy
    /\ LET found == {ParentOf[s] : s \in Shared} IN
       /\ databases' = databases \cup found
       /\ Goes(d, [proc[d] EXCEPT !.lazy = TRUE, !.todo = {s \in Sources : ParentOf[s] \in found}])
    /\ UNCHANGED <<remote, past, edits, rows, views, pages, torn, failed, faults>>

\* The next data source; UpsertDataSource compares its schema with the row's.
Take(d) ==
    /\ At(d, "walk")
    /\ \E s \in proc[d].todo :
          LET schema == IF proc[d].lazy THEN Schema(remote[s]) ELSE proc[d].schemas[s]
              r == [proc[d] EXCEPT !.todo = @ \ {s}]
          IN Goes(d, IF schema = NoForm THEN r
                     ELSE [r EXCEPT !.source = s, !.schemas[s] = schema,
                                    !.pc = IF schema = rows[s] THEN "store" ELSE "drop"])
    /\ UNCHANGED <<remote, past, edits, rows, databases, views, pages, torn, failed, faults>>

\* Plausible bug: the row is stored before its view is made.
DropStoring(d) ==
    /\ At(d, "drop")
    /\ Dropped(proc[d].source)
    /\ rows' = [rows EXCEPT ![proc[d].source] = proc[d].schemas[proc[d].source]]
    /\ Moves(d, "create")
    /\ UNCHANGED <<remote, past, edits, databases, pages, faults>>

Drop(d) ==
    /\ At(d, "drop")
    /\ Dropped(proc[d].source)
    /\ Moves(d, "create")
    /\ UNCHANGED <<remote, past, edits, rows, databases, pages, faults>>

\* An error is logged, and the walk goes on.
Create(d) ==
    LET s == proc[d].source IN
    /\ At(d, "create")
    /\ IF views[s] # NoForm
       THEN Moves(d, "walk") /\ failed' = failed \cup ({s} \cap torn) /\ UNCHANGED views
       ELSE /\ views' = [views EXCEPT ![s] = proc[d].schemas[s]]
            /\ Moves(d, "store")
            /\ UNCHANGED failed
    /\ UNCHANGED <<remote, past, edits, rows, databases, pages, torn, faults>>

Store(d) ==
    LET s == proc[d].source IN
    /\ At(d, "store")
    /\ rows' = [rows EXCEPT ![s] = proc[d].schemas[s]]
    /\ IF views[s] = rows'[s] THEN Made(s) ELSE UNCHANGED <<torn, failed>>
    /\ Goes(d, [proc[d] EXCEPT !.pc = "walk",
                               !.parents = IF proc[d].lazy THEN @ ELSE @ \cup {ParentOf[s]}])
    /\ UNCHANGED <<remote, past, edits, databases, views, pages, faults>>

EndWalk(d) ==
    /\ At(d, "walk") /\ proc[d].todo = {}
    /\ Moves(d, "parents")
    /\ UNCHANGED <<remote, past, edits, rows, databases, views, pages, torn, failed, faults>>

\* The databases of the sources that were stored, then the pass over the rows.
StoreParents(d) ==
    /\ At(d, "parents")
    /\ databases' = databases \cup proc[d].parents
    /\ Goes(d, [Off EXCEPT !.pc = "pass", !.todo = Stored])
    /\ UNCHANGED <<remote, past, edits, rows, views, pages, torn, failed, faults>>

-----------------------------------------------------------------------------
(* A full pass. *)

\* Plausible bug: columns of properties that are gone stay.
PageOfMerged(form, page) ==
    IF form = NoForm THEN page
    ELSE IF form.live
    THEN LET cells == Flatten(form.props)
             old == IF page = NoForm THEN [c \in {} |-> Null] ELSE page.cells
         IN [props |-> form.props, relations |-> RelationsOf(form.props), live |-> TRUE,
             cells |-> [c \in DOMAIN cells \cup DOMAIN old |->
                          IF c \in DOMAIN cells THEN cells[c] ELSE old[c]]]
    ELSE IF page = NoForm THEN NoForm ELSE [page EXCEPT !.live = FALSE]

\* UpsertPage; a page that Notion does not list any more is marked as trashed, but
\* nothing happens to it when its source is not shared and the query fails.
PageOf(form, page) ==
    IF form = NoForm THEN page
    ELSE IF form.live
    THEN [props |-> form.props, cells |-> Flatten(form.props),
          relations |-> RelationsOf(form.props), live |-> TRUE]
    ELSE IF page = NoForm THEN NoForm ELSE [page EXCEPT !.live = FALSE]

StorePage(d) ==
    /\ At(d, "pass")
    /\ \E s \in proc[d].todo :
          /\ pages' = [pages EXCEPT ![s] = PageOf(remote[s], @)]
          /\ Goes(d, [proc[d] EXCEPT !.todo = @ \ {s}])
    /\ UNCHANGED <<remote, past, edits, rows, databases, views, torn, failed, faults>>

EndPass(d) ==
    /\ At(d, "pass") /\ proc[d].todo = {}
    /\ Goes(d, [Off EXCEPT !.pc = "idle"])
    /\ UNCHANGED <<remote, past, edits, rows, databases, views, pages, torn, failed, faults>>

-----------------------------------------------------------------------------
(* A statement or request fails: what is in hand is left, the rest goes on. *)
Fails(d) ==
    /\ faults < MaxFaults
    /\ faults' = faults + 1
    /\ proc[d].pc \in {"ensure create", "walk", "drop", "create", "store", "parents", "pass"}
    /\ CASE At(d, "ensure create") -> Goes(d, Off)
         [] proc[d].pc \in {"drop", "create", "store"} -> Moves(d, "walk")
         [] At(d, "parents") -> Goes(d, [Off EXCEPT !.pc = "pass", !.todo = Stored])
         [] At(d, "walk") /\ proc[d].lazy ->      \* the search for databases, or a source's
               \/ Goes(d, [Off EXCEPT !.pc = "idle"])
               \/ Goes(d, [Off EXCEPT !.pc = "pass", !.todo = Stored])
               \/ \E s \in proc[d].todo : Goes(d, [proc[d] EXCEPT !.todo = @ \ {s}])
         [] OTHER -> \E s \in proc[d].todo : Goes(d, [proc[d] EXCEPT !.todo = @ \ {s}])
    /\ failed' = IF proc[d].pc \in {"create", "store"} THEN failed \cup ({proc[d].source} \cap torn)
                 ELSE failed
    /\ UNCHANGED <<remote, past, edits, rows, databases, views, pages, torn>>

Dies(d) ==
    /\ faults < MaxFaults
    /\ faults' = faults + 1
    /\ ~At(d, "off")
    /\ Goes(d, Off)
    /\ UNCHANGED <<remote, past, edits, rows, databases, views, pages, torn, failed>>

-----------------------------------------------------------------------------
Progress(d) ==
    \/ EnsureDrop(d) \/ EnsureCreate(d) \/ Serve(d)
    \/ Discover(d) \/ FallBack(d) \/ Take(d) \/ Drop(d) \/ Create(d) \/ Store(d)
    \/ EndWalk(d) \/ StoreParents(d) \/ StorePage(d) \/ EndPass(d)

Next ==
    \/ \E s \in Sources : Edit(s)
    \/ \E d \in Daemons : Open(d) \/ Progress(d) \/ Fails(d) \/ Dies(d)

OpenWhenNoneRuns(d) == (\A e \in Daemons : At(e, "off")) /\ Open(d)

\* A session starts a daemon when none runs, and tickers go on; Notion owes nothing.
Fairness == \A d \in Daemons : WF_vars(Progress(d)) /\ WF_vars(OpenWhenNoneRuns(d))

Spec == Init /\ [][Next]_vars /\ Fairness

-----------------------------------------------------------------------------
(* Properties. *)

PcStates == {"off", "ensure", "ensure create", "idle", "walk", "drop", "create", "store",
             "parents", "pass"}
SchemasOf(s) == {f.schema : f \in FormsOf[s]} \cup {NoForm}

\* Every variable keeps its type; the columns of a page are those of its properties.
TypeOK ==
    /\ \A s \in Sources : /\ remote[s] \in FormsOf[s] \cup {NoForm}
                          /\ past[s] \subseteq FormsOf[s] \cup {NoForm} /\ remote[s] \in past[s]
                          /\ rows[s] \in SchemasOf(s) /\ views[s] \in SchemasOf(s)
                          /\ pages[s] # NoForm => pages[s].cells = Flatten(pages[s].props)
    /\ databases \subseteq {ParentOf[s] : s \in Sources}
    /\ \A d \in Daemons : /\ proc[d].pc \in PcStates /\ proc[d].todo \subseteq Sources
                          /\ proc[d].source \in Sources \cup {NoForm}
                          /\ proc[d].parents \subseteq {ParentOf[s] : s \in Sources}
    /\ failed \subseteq torn /\ torn \subseteq Sources /\ edits \in 0 .. MaxEdits /\ faults \in 0 .. MaxFaults

(***************************************************************************)
(* UpsertDataSource's comment: the view is what makes mirrored SQL a       *)
(* drop-in replacement.  The view of a data source that is stored is there *)
(* and is made from the schema of its row, unless it is being remade, or   *)
(* a statement of that failed; what the death of a daemon interrupted is   *)
(* done again before the next one serves.                                  *)
(***************************************************************************)
ViewIsCurrent ==
    \A s \in Stored :
       /\ s \notin torn => views[s] = rows[s]
       /\ s \in torn \ failed =>
            \/ \A d \in Daemons : ~Serving(d)
            \/ \E d \in Daemons :
                  proc[d].source = s /\ proc[d].pc \in {"ensure create", "create", "store"}

\* What a query sees of the page of s.
QueryRow(s) ==
    LET fixed == FixedOf(views[s]) columns == SchemaColumns(views[s]) IN
    [c \in fixed \cup columns |->
       IF c \in fixed THEN Cell("row", c)
       ELSE IF c \in DOMAIN pages[s].cells THEN pages[s].cells[c] ELSE Null]

\* The mirror has caught up with s.
CaughtUp(s) ==
    /\ remote[s] # NoForm /\ pages[s] # NoForm
    /\ views[s] = remote[s].schema
    /\ pages[s].live = remote[s].live
    /\ pages[s].props = remote[s].props

\* Its properties are in the columns they were stored under.
PropertiesFound(s) ==
    \A name \in DOMAIN remote[s].schema : \A c \in ColumnsOf(name, remote[s].schema[name]) :
       /\ c \in DOMAIN QueryRow(s)
       /\ QueryRow(s)[c] = FlattenOne(name, remote[s].props[name])[c]

\* A page with other properties has other columns.
PropertiesTold(s) ==
    \A f \in FormsOf[s] :
       f.schema = remote[s].schema /\ Flatten(f.props) = pages[s].cells
          => f.props = remote[s].props

(***************************************************************************)
(* FlattenProperties and ViewSQL name columns each on their own.  Through  *)
(* the view of a page's schema every property is found under the names it  *)
(* was stored by, also when it has the name of a column of the row's own   *)
(* or of the view's; and the row tells its properties from all others the  *)
(* page may have.                                                          *)
(***************************************************************************)
QueryTellsProperties ==
    \A s \in Sources :
       CaughtUp(s) /\ remote[s].live => PropertiesFound(s) /\ PropertiesTold(s)

(***************************************************************************)
(* Whatever fails or dies, and whatever changes in Notion but does not     *)
(* change back (MCViewsReverted.cfg does): the mirror catches up with      *)
(* every data source that stays shared, and with its database.             *)
(***************************************************************************)
Settled(s) ==
    remote[s] # NoForm =>
      /\ rows[s] = remote[s].schema /\ views[s] = rows[s]
      /\ pages[s] # NoForm => pages[s].live = remote[s].live
      /\ remote[s].live => CaughtUp(s)
      /\ ParentOf[s] \in databases

QueriesCatchUp == \A s \in Sources : <>[]Settled(s)
=============================================================================
