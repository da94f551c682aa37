-------------------------------- MODULE Sync --------------------------------
(***************************************************************************)
(* internal/sync: a Syncer keeps the mirror's rows and bodies equal to a   *)
(* Notion workspace that people go on editing.                             *)
(*                                                                         *)
(* Two goroutines of the daemon run it with no lock between them: the sync *)
(* loop ("loop"), which runs passes, and the handler of the resync call    *)
(* over the socket ("ipc"), which runs a pass or re-reads one page.  Every *)
(* HTTP response and every SQLite statement is a step of its own, so edits *)
(* in Notion, the other goroutine, errors and a crash of the process fall  *)
(* between any two of them.                                                *)
(*                                                                         *)
(* Time is counted in minutes, the granularity of Notion's edit times.     *)
(***************************************************************************)
EXTENDS Mirror, FiniteSets

CONSTANTS
    Pages,            \* page ids, positive integers
    Sources,          \* ids of the data sources, all of them discovered
    Home,             \* the data source of each page, NoSource for a loose one
    Workers,          \* the goroutines: a subset of {"loop", "ipc"}
    Calls,            \* resync calls: a subset of {"pass", "page"}
    Slack,            \* Options.Slack in minutes
    MaxTime,          \* bound: the last minute that is explored
    MaxWalk,          \* bound: minutes a walk over a query's responses may last
    MaxRev,           \* bound: revisions of each page
    MaxFaults,        \* bound: failed calls and crashes
    Deletable,        \* bound: pages that may be deleted
    MaxReturns,       \* bound: how often pages come back, of all together
    Lagging,          \* pages whose search entry may lag behind the page
    OneEditPerMinute  \* TRUE when no two edits share a minute

ASSUME SyncAssumption ==
    /\ Pages \subseteq Nat \ {0}
    /\ NoSource \notin Sources
    /\ Home \in [Pages -> Sources \cup {NoSource}]
    /\ Workers \subseteq {"loop", "ipc"}
    /\ Calls \subseteq {"pass", "page"}
    /\ Slack \in Nat /\ MaxTime \in Nat \ {0} /\ MaxWalk \in Nat /\ MaxFaults \in Nat
    /\ MaxRev \in [Pages -> Nat]
    /\ Deletable \subseteq Pages /\ MaxReturns \in Nat
    /\ Lagging \subseteq Pages
    /\ OneEditPerMinute \in BOOLEAN

VARIABLES
    now,        \* the minute
    notion,     \* the workspace: each page's state, edit time and revision
    found,      \* what /v1/search has indexed of each page
    returns,    \* how often a page has come back
    rows,       \* the pages table
    watermark,  \* data_sources.watermark
    looseMark,  \* meta 'loose_watermark'
    worker,     \* what each goroutine is doing
    faults      \* failures so far

vars == <<now, notion, found, returns, rows, watermark, looseMark, worker, faults>>
external == <<now, notion, found, returns>>
mirror == <<rows, watermark, looseMark>>

Time == 0 .. MaxTime

(***************************************************************************)
(* What a goroutine is in the middle of:                                   *)
(*   full   the argument of Pass                                           *)
(*   todo   data sources the pass has not walked; snap their watermarks    *)
(*          when the pass listed them (0 once the walk has taken it over)  *)
(*   src    the data source being walked; base the watermark it started    *)
(*          from; began the minute the walk started                        *)
(*   cur    where the walk over the responses stands                       *)
(*   held   the page object decoded and not stored yet                     *)
(*   more   has_more of the last response                                  *)
(*   high   newWatermark, or newest in the walk over loose pages           *)
(*   ids    page ids listed from the mirror and not handled yet            *)
(***************************************************************************)
IdleWorker == [pc |-> "idle", full |-> FALSE, todo |-> {},
               snap |-> [s \in Sources |-> 0], src |-> NoSource, base |-> 0,
               began |-> 0, cur |-> <<0, 0>>, held |-> NoPage, more |-> FALSE,
               high |-> 0, ids |-> {}]

Absent == [state |-> "absent", edited |-> 0, rev |-> 0]

Init ==
    /\ now = 1
    /\ notion = [p \in Pages |-> Absent]
    /\ found = notion
    /\ returns = 0
    /\ rows = [p \in Pages |-> NoRow]
    /\ watermark = [s \in Sources |-> 0]
    /\ looseMark = 0
    /\ worker = [w \in Workers |-> IdleWorker]
    /\ faults = 0

-----------------------------------------------------------------------------
(* Notion, as far as the code relies on it. *)

\* A page stays while it has never been away; once it has, it is trashed or returned.
Stays(page) == page.state = "live"
Live(page) == page.state \in {"live", "returned"}
Gone(page) == page.state \in {"trashed", "returned"}

\* The object a query, a search or a retrieve returns for page p.
ObjectOf(p, page) == [id |-> p, trash |-> page.state = "trashed",
                      edited |-> page.edited, rev |-> page.rev]

\* Between the first response of a walk and the last statement it leads to.
Walking(r) == r.pc \in {"rows", "store", "mark", "loose", "storeLoose", "upsert"}

\* A minute passes.  No walk lasts longer than MaxWalk minutes.
Tick ==
    /\ now < MaxTime
    /\ \A w \in Workers : Walking(worker[w]) => now < worker[w].began + MaxWalk
    /\ now' = now + 1
    /\ UNCHANGED <<notion, found, returns, mirror, worker, faults>>

Change(p, page) ==
    /\ notion' = [notion EXCEPT ![p] = page]
    /\ found' = IF p \in Lagging THEN found ELSE [found EXCEPT ![p] = page]
    /\ UNCHANGED <<now, mirror, worker, faults>>

\* The state of a page that is there.
Again(page) == IF Gone(page) THEN "returned" ELSE "live"

MayEdit == OneEditPerMinute => \A q \in Pages : notion[q].edited < now

\* Somebody creates page p, or edits it.
Edit(p) ==
    /\ notion[p].state # "trashed"
    /\ notion[p].rev < MaxRev[p]
    /\ MayEdit
    /\ Change(p, [state |-> Again(notion[p]), edited |-> now, rev |-> notion[p].rev + 1])
    /\ UNCHANGED returns

\* Somebody deletes page p, or stops sharing it with the integration.
Delete(p) ==
    /\ p \in Deletable
    /\ Live(notion[p])
    /\ Change(p, [notion[p] EXCEPT !.state = "trashed"])
    /\ UNCHANGED returns

\* Somebody restores page p, or shares it again: it comes back as it was.
Return(p) ==
    /\ notion[p].state = "trashed"
    /\ returns < MaxReturns
    /\ returns' = returns + 1
    /\ Change(p, [notion[p] EXCEPT !.state = "returned"])

\* The search index catches up with page p.
SearchCatchesUp(p) ==
    /\ found[p] # notion[p]
    /\ found' = [found EXCEPT ![p] = notion[p]]
    /\ UNCHANGED <<now, notion, returns, mirror, worker, faults>>

-----------------------------------------------------------------------------
(* Helpers of the walks. *)

\* Goroutine w goes on as r, and nothing else changes.
Becomes(w, r) ==
    /\ worker' = [worker EXCEPT ![w] = r]
    /\ UNCHANGED <<external, mirror, faults>>

\* Goroutine w writes the row of page p and goes on as r.
Writes(w, r, p, row) ==
    /\ rows' = [rows EXCEPT ![p] = row]
    /\ worker' = [worker EXCEPT ![w] = r]
    /\ UNCHANGED <<external, watermark, looseMark, faults>>

\* A call fails: goroutine w goes on as r.
GivesUp(w, r) ==
    /\ faults < MaxFaults
    /\ faults' = faults + 1
    /\ worker' = [worker EXCEPT ![w] = r]
    /\ UNCHANGED <<external, mirror>>

Later(a, b) == a[1] > b[1] \/ (a[1] = b[1] /\ a[2] > b[2])
LargerAdding(a, b) == a + b
Larger(a, b) == IF a > b THEN a ELSE b

\* Plausible bugs: no slack; newest is a sum.
SinceWatermark(r) == IF r.full THEN 0 ELSE r.base

(***************************************************************************)
(* The lower bound of an incremental walk, 0 when there is none: the       *)
(* watermark the walk started from, less the slack.                        *)
(***************************************************************************)
Since(r) ==
    IF r.full \/ r.base <= Slack THEN 0 ELSE r.base - Slack

-----------------------------------------------------------------------------
(* Pass: the data sources. *)

\* DataSources lists the data sources with their watermarks.
StartPass(w, full) ==
    /\ worker[w].pc = "idle"
    /\ Becomes(w, [IdleWorker EXCEPT !.pc = "source", !.full = full,
                                     !.todo = Sources, !.snap = watermark])

\* The loop of Pass takes a data source; syncDataSource starts its query.
StartSource(w) ==
    /\ worker[w].pc = "source"
    /\ \E s \in worker[w].todo :
          Becomes(w, [worker[w] EXCEPT !.pc = "rows", !.src = s,
                                       !.todo = @ \ {s},
                                       !.base = worker[w].snap[s], !.snap[s] = 0,
                                       !.began = now, !.more = TRUE])

\* The rows a query of r still has to return: those after the cursor, oldest
\* edit first, at or after the lower bound.
Due(r) == {p \in Pages : /\ Home[p] = r.src
                         /\ Live(notion[p])
                         /\ notion[p].edited >= Since(r)
                         /\ Later(<<notion[p].edited, p>>, r.cur)}

\* QueryDataSource asks for more and gets the next row.
ReadRow(w) ==
    LET r == worker[w] IN
    /\ r.pc = "rows"
    /\ \E p \in Due(r) :
          /\ \A q \in Due(r) \ {p} : Later(<<notion[q].edited, q>>, <<notion[p].edited, p>>)
          /\ Becomes(w, [r EXCEPT !.pc = "store",
                                  !.held = ObjectOf(p, notion[p]),
                                  !.more = Due(r) # {p},
                                  !.cur = <<notion[p].edited, p>>])

\* The response is empty: the walk is over.
EndRows(w) ==
    LET r == worker[w] IN
    /\ r.pc = "rows"
    /\ Due(r) = {}
    /\ Becomes(w, [r EXCEPT !.pc = "mark", !.cur = <<0, 0>>, !.more = FALSE])

\* The visitor of syncDataSource upserts the row and raises newWatermark.
StoreRow(w) ==
    LET r == worker[w] IN
    /\ r.pc = "store"
    /\ Writes(w, [r EXCEPT !.pc = IF r.more THEN "rows" ELSE "mark",
                           !.held = NoPage,
                           !.cur = IF r.more THEN @ ELSE <<0, 0>>,
                           !.high = Larger(r.held.edited, @)],
              r.held.id, UpsertRow(rows[r.held.id], r.held, r.src))

\* After an error in a data source Pass logs it and takes the next one.
NextSource(r) == [r EXCEPT !.pc = "source", !.src = NoSource, !.base = 0,
                           !.began = 0, !.cur = <<0, 0>>, !.held = NoPage,
                           !.more = FALSE, !.high = 0, !.ids = {}]

\* The query, or the upsert of one of its rows, fails: the watermark stays.
RowsFail(w) ==
    /\ worker[w].pc \in {"rows", "store"}
    /\ GivesUp(w, NextSource(worker[w]))

AfterMark(r) == IF r.full THEN [r EXCEPT !.pc = "known", !.high = 0]
                          ELSE NextSource(r)

(***************************************************************************)
(* Pass advances the watermark once every row of the walk is stored, and   *)
(* only beyond the one the walk started from.                              *)
(***************************************************************************)
SetWatermark(w) ==
    LET r == worker[w] IN
    /\ r.pc = "mark"
    /\ watermark' = IF r.high > r.base THEN [watermark EXCEPT ![r.src] = r.high]
                                       ELSE watermark
    /\ worker' = [worker EXCEPT ![w] = AfterMark(r)]
    /\ UNCHANGED <<external, rows, looseMark, faults>>

\* A failing SetWatermark is the one error that ends the pass.
SetWatermarkFails(w) ==
    /\ worker[w].pc = "mark"
    /\ worker[w].high > worker[w].base
    /\ GivesUp(w, IdleWorker)

-----------------------------------------------------------------------------
(* Pass: reconcileDeletions, in a full pass. *)

\* Plausible bug: what the mirror knows is read after the listing.
ListKnownTooLate(w) ==
    LET r == worker[w] IN
    /\ r.pc = "known"
    /\ Becomes(w, [r EXCEPT !.pc = "live", !.ids = {p \in Pages : Home[p] = r.src}])

\* PageIDs: the rows the mirror believes live, read before the listing.
ListKnown(w) ==
    LET r == worker[w] IN
    /\ r.pc = "known"
    /\ Becomes(w, [r EXCEPT !.pc = "live",
                            !.ids = {p \in Pages : LiveRowOf(rows[p], r.src)}])

Unlisted(r) == {p \in Pages : Home[p] = r.src /\ p > r.cur[2] /\ Live(notion[p])}

\* The unfiltered query returns the next live page: it is not deleted.
ListLive(w) ==
    LET r == worker[w] IN
    /\ r.pc = "live"
    /\ \E p \in Unlisted(r) :
          /\ \A q \in Unlisted(r) : p <= q
          /\ Becomes(w, [r EXCEPT !.ids = @ \ {p}, !.cur = <<0, p>>])

\* Plausible bug: only the first response is read.
EndListLiveEarly(w) ==
    /\ worker[w].pc = "live"
    /\ Becomes(w, [worker[w] EXCEPT !.pc = "trash", !.cur = <<0, 0>>])

EndListLive(w) ==
    /\ worker[w].pc = "live"
    /\ Unlisted(worker[w]) = {}
    /\ Becomes(w, [worker[w] EXCEPT !.pc = "trash", !.cur = <<0, 0>>])

\* A page of the mirror that the listing did not return is marked trashed.
TrashPage(w) ==
    /\ worker[w].pc = "trash"
    /\ \E p \in worker[w].ids :
          Writes(w, [worker[w] EXCEPT !.ids = @ \ {p}], p, TrashRow(rows[p]))

EndReconcile(w) ==
    /\ worker[w].pc = "trash"
    /\ worker[w].ids = {}
    /\ Becomes(w, NextSource(worker[w]))

\* PageIDs or the listing fails: nothing is trashed.  MarkTrashed fails, or
\* DropPage after it: the rest of the list is left for the next full pass.
ReconcileFails(w) ==
    LET r == worker[w] IN
    \/ /\ r.pc \in {"known", "live"} \/ (r.pc = "trash" /\ r.ids # {})
       /\ GivesUp(w, NextSource(r))
    \/ /\ r.pc = "trash" /\ faults < MaxFaults
       /\ \E p \in r.ids : rows' = [rows EXCEPT ![p] = TrashRow(rows[p])]
       /\ worker' = [worker EXCEPT ![w] = NextSource(r)]
       /\ faults' = faults + 1
       /\ UNCHANGED <<external, watermark, looseMark>>

-----------------------------------------------------------------------------
(* Pass: syncLoosePages. *)

\* newest starts from the stored mark; search starts from the newest edit.
StartLoose(w) ==
    /\ worker[w].pc = "source"
    /\ worker[w].todo = {}
    /\ Becomes(w, [worker[w] EXCEPT !.pc = "loose", !.base = looseMark,
                                    !.high = looseMark, !.began = now, !.more = TRUE,
                                    !.cur = <<MaxTime + 1, 0>>])

\* The results search still has to return, newest edit first.
LeftToSearch(r) == {p \in Pages : /\ Live(found[p])
                                  /\ Later(r.cur, <<found[p].edited, p>>)}

NextFound(r, p) ==
    /\ p \in LeftToSearch(r)
    /\ \A q \in LeftToSearch(r) \ {p} :
          Later(<<found[p].edited, p>>, <<found[q].edited, q>>)

Older(r, p) == Since(r) # 0 /\ found[p].edited < Since(r)

\* Plausible bug: rows of databases are stored too.
ReadLooseWithRows(w) ==
    LET r == worker[w] IN
    /\ r.pc = "loose" /\ r.more
    /\ \E p \in Pages :
          /\ NextFound(r, p)
          /\ ~Older(r, p)
          /\ Becomes(w, [r EXCEPT !.pc = "storeLoose",
                                  !.held = ObjectOf(p, found[p]),
                                  !.cur = <<found[p].edited, p>>,
                                  !.more = LeftToSearch(r) # {p},
                                  !.high = Larger(found[p].edited, @)])

\* The next result moves newest, whatever it is; only a loose page is stored.
ReadLoose(w) ==
    LET r == worker[w] IN
    /\ r.pc = "loose" /\ r.more
    /\ \E p \in Pages :
          /\ NextFound(r, p)
          /\ ~Older(r, p)
          /\ LET seen == [r EXCEPT !.cur = <<found[p].edited, p>>,
                                   !.more = LeftToSearch(r) # {p},
                                   !.high = Larger(found[p].edited, @)]
             IN Becomes(w, IF Home[p] = NoSource
                           THEN [seen EXCEPT !.pc = "storeLoose",
                                             !.held = ObjectOf(p, found[p])]
                           ELSE seen)

StoreLoose(w) ==
    LET r == worker[w] IN
    /\ r.pc = "storeLoose"
    /\ Writes(w, [r EXCEPT !.pc = "loose", !.held = NoPage],
              r.held.id, UpsertRow(rows[r.held.id], r.held, NoSource))

AfterLoose(r) == [NextSource(r) EXCEPT !.pc = "pending", !.full = FALSE]

\* The walk ends at the first result older than the bound, or with the last.
EndLoose(w) ==
    LET r == worker[w] IN
    /\ r.pc = "loose"
    /\ r.more => \A p \in Pages : NextFound(r, p) => Older(r, p)
    /\ looseMark' = IF r.high # r.base THEN r.high ELSE looseMark
    /\ worker' = [worker EXCEPT ![w] = AfterLoose(r)]
    /\ UNCHANGED <<external, rows, watermark, faults>>

\* Search, an upsert or SetMeta fails: the mark stays, the pass goes on.
LooseFails(w) ==
    /\ worker[w].pc \in {"loose", "storeLoose"}
    /\ GivesUp(w, AfterLoose(worker[w]))

-----------------------------------------------------------------------------
(* Pass: FetchPendingContent, and FetchContent for each page it lists. *)

ListPending(w) ==
    /\ worker[w].pc = "pending"
    /\ Becomes(w, [worker[w] EXCEPT !.pc = "fetch",
                                    !.ids = {p \in Pages : ContentPending(rows[p])}])

\* fetchChildren reads the block tree; a page the integration cannot open
\* has none.
ReadBlocks(w) ==
    LET r == worker[w] IN
    /\ r.pc = "fetch"
    /\ \E p \in r.ids :
          Becomes(w, [r EXCEPT !.pc = "content", !.ids = @ \ {p},
                               !.held = [NoPage EXCEPT !.id = p,
                                  !.rev = IF Live(notion[p]) THEN notion[p].rev ELSE 0]])

StoreContent(w) ==
    LET r == worker[w] IN
    /\ r.pc = "content"
    /\ Writes(w, [r EXCEPT !.pc = "fetch", !.held = NoPage],
              r.held.id, WriteContent(rows[r.held.id], r.held.rev))

\* The list, the blocks of a page or the statement that stores them fail: what
\* was pending stays pending.
ContentFails(w) ==
    LET r == worker[w] IN
    \/ r.pc = "pending" /\ GivesUp(w, IdleWorker)
    \/ r.pc = "fetch" /\ \E p \in r.ids : GivesUp(w, [r EXCEPT !.ids = @ \ {p}])
    \/ r.pc = "content" /\ GivesUp(w, [r EXCEPT !.pc = "fetch", !.held = NoPage])

EndPass(w) ==
    /\ worker[w].pc = "fetch"
    /\ worker[w].ids = {}
    /\ Becomes(w, IdleWorker)

-----------------------------------------------------------------------------
(* ResyncPage: one page, on request. *)

\* RetrievePage answers; a page that is not there is an error and no step.
StartResync(w, p) ==
    /\ worker[w].pc = "idle"
    /\ notion[p].state # "absent"
    /\ Becomes(w, [IdleWorker EXCEPT !.pc = "upsert", !.began = now, !.ids = {p},
                                     !.held = ObjectOf(p, notion[p])])

\* UpsertPage under RowDataSource, then FetchContent for the page.
StoreResync(w) ==
    LET r == worker[w] IN
    /\ r.pc = "upsert"
    /\ Writes(w, [IdleWorker EXCEPT !.pc = "fetch", !.ids = r.ids],
              r.held.id, UpsertRow(rows[r.held.id], r.held, Home[r.held.id]))

\* It leaves nothing behind, so it is not counted as a fault.
ResyncFails(w) ==
    /\ worker[w].pc = "upsert"
    /\ Becomes(w, IdleWorker)

\* The process dies and starts again: only the mirror is left.
Crash ==
    /\ \E w \in Workers : worker[w].pc # "idle"
    /\ faults < MaxFaults
    /\ faults' = faults + 1
    /\ worker' = [w \in Workers |-> IdleWorker]
    /\ UNCHANGED <<external, mirror>>

-----------------------------------------------------------------------------
Environment ==
    \/ Tick
    \/ \E p \in Pages : Edit(p) \/ Delete(p) \/ Return(p) \/ SearchCatchesUp(p)

\* The steps of a pass or a resync that has started, when nothing fails.
Advance(w) ==
    \/ StartSource(w) \/ ReadRow(w) \/ StoreRow(w) \/ EndRows(w) \/ SetWatermark(w)
    \/ ListKnown(w) \/ ListLive(w) \/ EndListLive(w) \/ TrashPage(w) \/ EndReconcile(w)
    \/ StartLoose(w) \/ ReadLoose(w) \/ StoreLoose(w) \/ EndLoose(w)
    \/ ListPending(w) \/ ReadBlocks(w) \/ StoreContent(w) \/ EndPass(w)
    \/ StoreResync(w)

Fails(w) ==
    \/ RowsFail(w) \/ SetWatermarkFails(w) \/ ReconcileFails(w) \/ LooseFails(w)
    \/ ContentFails(w) \/ ResyncFails(w)

\* The sync loop's tickers start passes; a resync call starts either kind of
\* work in its own goroutine.
Start(w) ==
    \/ /\ w = "loop" \/ "pass" \in Calls
       /\ \E full \in BOOLEAN : StartPass(w, full)
    \/ /\ w = "ipc" /\ "page" \in Calls
       /\ \E p \in Pages : StartResync(w, p)

Next ==
    \/ Environment
    \/ \E w \in Workers : Start(w) \/ Advance(w) \/ Fails(w)
    \/ Crash

(***************************************************************************)
(* A goroutine that has started goes on; the sync loop's select takes the  *)
(* full ticker again and again (Go picks a ready case at random, and the   *)
(* full ticker stays ready until it is taken); search catches up.          *)
(***************************************************************************)
Fairness ==
    /\ \A w \in Workers : WF_vars(Advance(w))
    /\ \A w \in Workers \cap {"loop"} : SF_vars(StartPass(w, TRUE))
    /\ \A p \in Pages : WF_vars(SearchCatchesUp(p))

Spec == Init /\ [][Next]_vars /\ Fairness

-----------------------------------------------------------------------------
(* Properties. *)

Rows == [known : BOOLEAN, trash : BOOLEAN, source : Sources \cup {NoSource},
         edited : Time, rev : Nat, synced : Time, body : Nat]

PageStates == {"absent", "live", "trashed", "returned"}

WorkerStates == {"idle", "source", "rows", "store", "mark", "known", "live", "trash",
                 "loose", "storeLoose", "pending", "fetch", "content", "upsert"}

Objects == [id : Pages \cup {0}, trash : BOOLEAN, edited : Time, rev : Nat]

Cursors == (0 .. MaxTime + 1) \X (Pages \cup {0})

WorkerRecords ==
    [pc : WorkerStates, full : BOOLEAN, todo : SUBSET Sources,
     snap : [Sources -> Time], src : Sources \cup {NoSource}, base : Time,
     began : Time, cur : Cursors, held : Objects, more : BOOLEAN, high : Time, ids : SUBSET Pages]

\* Every variable keeps its type.
TypeOK ==
    /\ now \in Time
    /\ notion \in [Pages -> [state : PageStates, edited : Time, rev : Nat]]
    /\ found \in [Pages -> [state : PageStates, edited : Time, rev : Nat]]
    /\ returns \in 0 .. MaxReturns
    /\ rows \in [Pages -> Rows]
    /\ watermark \in [Sources -> Time]
    /\ looseMark \in Time
    /\ worker \in [Workers -> WorkerRecords]
    /\ faults \in 0 .. MaxFaults

\* The row of page p says what Notion says of it.
RowCurrent(p) ==
    /\ rows[p].known
    /\ ~rows[p].trash
    /\ rows[p].edited = notion[p].edited
    /\ rows[p].rev = notion[p].rev

(***************************************************************************)
(* Whatever the order of responses, edits, failures and crashes, and with  *)
(* a resync writing the same rows, a row of a data source that differs     *)
(* from Notion has an edit time that the next incremental query asks for:  *)
(* a watermark never gets further ahead of a missed edit than the slack    *)
(* (Pass and syncDataSource, the reason Options.Slack gives for itself).   *)
(* It is about pages that stay: one that comes back has its old edit time, *)
(* and waits for a full pass.                                              *)
(***************************************************************************)
NextQuery(s) == [IdleWorker EXCEPT !.base = watermark[s]]

WatermarkCovers ==
    \A p \in Pages :
       Home[p] # NoSource /\ Stays(notion[p]) /\ ~RowCurrent(p)
          => notion[p].edited >= Since(NextQuery(Home[p]))

(***************************************************************************)
(* Only a page that has been away is ever marked trashed in the mirror:    *)
(* reconcileDeletions reads the ids it knows before it lists the live      *)
(* ones, so that a row another goroutine stores in between is not taken    *)
(* for a deleted page.  (One that comes back before its row is marked is   *)
(* marked nevertheless, until the next full pass: see MirrorConverges.)    *)
(***************************************************************************)
NoFalseTrash == \A p \in Pages : rows[p].trash => Gone(notion[p])

(***************************************************************************)
(* A row of a database always carries its data source, whichever endpoint  *)
(* delivered it first: the collection:// views join on it.                 *)
(***************************************************************************)
RowsKeepSource == \A p \in Pages : rows[p].known => rows[p].source = Home[p]

(***************************************************************************)
(* content_synced means what SetContent's comment says: a body stamped     *)
(* with the page's present edit time is the page's present body, as long   *)
(* as the page stays.                                                      *)
(***************************************************************************)
StampedIsCurrent(p) == rows[p].synced = notion[p].edited => rows[p].body = notion[p].rev

StampedBodyIsCurrent == \A p \in Pages : Stays(notion[p]) => StampedIsCurrent(p)

(***************************************************************************)
(* The same of pages that come back, as the comment has it: what has not   *)
(* been read is not stamped.  It does not hold: a page that is away when   *)
(* its blocks are asked for has none.                                      *)
(***************************************************************************)
ReturnedBodyIsCurrent == \A p \in Pages : Live(notion[p]) => StampedIsCurrent(p)

(***************************************************************************)
(* Once edits, deletions and returns stop, the rows of all live pages, and *)
(* the bodies of those that stayed, become and stay those of Notion, in    *)
(* spite of the failures and crashes before.                               *)
(***************************************************************************)
MirrorConverges ==
    <>[](\A p \in Pages : /\ Live(notion[p]) => RowCurrent(p)
                          /\ Stays(notion[p]) => rows[p].body = notion[p].rev)

(***************************************************************************)
(* A deleted row of a data source ends up marked trashed, and stays so:    *)
(* the full passes notice what no incremental query shows.                 *)
(***************************************************************************)
DeletionsReachMirror ==
    <>[](\A p \in Pages :
           Home[p] # NoSource /\ notion[p].state = "trashed" /\ rows[p].known
              => rows[p].trash)

\* What the mirror serves of Notion: rows that are there and not trashed.
Truth == [p \in Pages |-> [live |-> Live(notion[p]), rev |-> notion[p].rev]]
Back == {p \in Pages : notion[p].state = "returned"}
Copy == [p \in Pages |-> [live |-> rows[p].known /\ ~rows[p].trash, rev |-> rows[p].rev]]

Promise == INSTANCE MirrorPromise
              WITH truth <- Truth, copy <- Copy, back <- Back,
                   Withdrawn <- {p \in Pages : Home[p] # NoSource}

(***************************************************************************)
(* The sync loop alone implements the promise: rows only move forward,     *)
(* through states the pages were in, and settle.                           *)
(***************************************************************************)
KeepsPromise == Promise!Spec
=============================================================================
