# A TLA+ model of notion-proxy-search-mcp

notion-proxy-search-mcp mirrors a Notion workspace into SQLite, indexes the
mirror for keyword and vector search, and serves it to MCP clients. A *daemon*
keeps the mirror: it polls Notion, renders pages, cuts them into chunks and
embeds them. Short-lived *stdio processes* (`serve`) read the mirror file and
ask the daemon, over a unix socket, for what needs the model or the Notion
token.

The code is small; what is hard about it is that several goroutines work on the
same tables with no lock between them, while Notion changes, calls fail and the
process dies. This project models that, checks it with TLC on small instances,
and proves the most important invariants for all instances with TLAPS.

## 1. The system

| component | state it keeps | operations | what makes it correct |
|---|---|---|---|
| sync (`internal/sync`) | none of its own: what a goroutine is in the middle of | `Pass` (data sources, reconciliation, loose pages, content), `FetchContent`, `ResyncPage`, `Discover`, `SyncUsers` | rows and bodies converge to Notion's; no edit falls behind a watermark; no page that was never away is trashed, every deleted one is |
| mirror (`internal/mirror`) | tables `pages`, `page_props`, `relations`, `data_sources`, `databases`, `users`, `meta`, `sync_log`; one view per data source | upserts, `SetContent`, `MarkTrashed`, `SetWatermark`, views, Markdown rendering | a row keeps its data source; a body's stamp tells its age |
| index (`internal/index`) | tables `chunks`, `chunks_fts`, `vectors`; in memory, the vector cache | `Reindex`, `DropPage`, `EmbedPending`, `StalePages`, `RefreshMetadata`, `LoadVectors`; `Search` | a vector belongs to its chunk's text; unchanged texts keep their embeddings; the queue drains |
| notion client (`internal/notion`) | the limiter's next slot | `do`/`attempt` with retries; walks over pages of results | requests stay paced; Retry-After is honoured; calls end |
| daemon (`internal/daemon`) | the opened stores, two loops and a socket server | `Open`, `Run`, `syncLoop`, `indexLoop`, `bootstrap`, `runPass` | loops keep going after errors; one daemon per board |
| ipc (`internal/ipc`) | the socket | `Listen`, `Serve`, one request per client connection | a stale socket is replaced, a live one is not |
| tools, mcp, jsonrpc | none that lasts | read-only queries, search, resync, status; framing | answers match requests |
| command line (`cmd`) | none | `serve` starts a daemon when none answers and waits for the mirror | one daemon, and a mirror to open |
| embed (`internal/embed`) | the model | quantised inference, tokenizer, file formats | numeric; not modelled |

How they interact. The daemon runs three kinds of goroutines: the sync loop
(passes, on two tickers), the index loop (reindex stale pages, embed a batch,
pause) and one goroutine per socket connection (search, status, and resync,
which runs a pass or re-reads one page). All of them call the same `Syncer`,
`index.Store` and `mirror.DB`. There is one mutex for the limiter's slot and one
for the vector cache; everything else relies on single SQLite statements or
transactions. Between two statements, or between an HTTP response and the
statement that stores it, any other goroutine may run and Notion may change.

What is hard, and which module takes it on:

- state read from Notion before, and stored after, another goroutine's writes or
  an edit: `Sync`;
- edit times that count whole minutes, a slack that must cover them: `Sync`;
- a search endpoint that lags behind: `Sync`;
- deletions, which no incremental query shows, and pages that come back, which are
  edited no later for it: `Sync`;
- a crash or a failed call anywhere in a pass: `Sync`;
- read, transaction, cache update of an index operation as three steps: `Index`;
- row ids that SQLite uses again: `Index`;
- slots handed out under a lock and waited for outside of it, late timers,
  retries, Retry-After: `Limiter`;
- processes that share a socket file and a mirror file and no lock: `Daemons`;
- views that are dropped and made again in statements of their own, while schemas
  change, statements fail and daemons die: `Views`;
- names and values of properties that must stay apart as columns: `Properties`;
- a search of several statements over an index that goes on changing: `Search`;
  long pages, and ranks that two branches give differently: `Ranking`;
- replies that come after the deadline, a daemon that hangs, dies and starts
  again under a session, lines that are no requests: `Calls`;
- budgets, depths and sizes at their limits on a page's way into chunks: `Content`.

PROJECT.json lists the hazards one by one, each at its line, with the properties
that would catch it going wrong, or a note saying why none does yet.

## 2. The modules

| module | what it is |
|---|---|
| `Mirror` | the rows of `pages` and each statement on them, as operators from a row to a row |
| `Sync` | the `Syncer`, run by the sync loop and by a resync goroutine, against a changing Notion |
| `MirrorPromise` | what a mirror promises its readers, with nothing of how it is kept |
| `SyncInduction` | the inductive invariants of `Sync`, by parts: `SyncInv`, and `LoopInv` of the loop alone |
| `Index` | chunks, vectors and the vector cache under the index loop and writers |
| `Ranking` | pure: page ranks, fusion, scores, the cut and the relations of an answer |
| `Search` | one search beside everything `Index` does (extends `Index` and `Ranking`) |
| `Limiter` | the limiter and the retry loop of `Client.do` |
| `Daemons` | daemons and sessions of one board: the socket file, opening the mirror, bootstrap |
| `Calls` | sessions: lines of input, dispatch, calls of the daemon over ipc, fallbacks, replies |
| `Properties` | pure: the columns and cells that properties become, and the columns of a view |
| `Views` | `Discover`, `UpsertDataSource`, `EnsureViews` and full passes, seen through the views (extends `Properties`) |
| `Content` | a page's body: fetching its blocks, rendering, cutting into chunks |
| `MCSync`, `MCIndex`, `MCSearch`, `MCCalls`, `MCViews`, `MCContent` | instances for TLC (`Limiter` and `Daemons` need none) |
| `Sync_proofs`, `Index_proofs`, `Search_proofs`, `Limiter_proofs`, `Daemons_proofs`, `Calls_proofs`, `Views_proofs`, `Content_proofs` | the theorems |

The modules meet where the code does. `Search` runs over the tables and the cache
of `Index`; `Index` takes sections as given, which `Content` makes; `Sync` takes
data sources as discovered, which `Views` does; `Daemons` follows a bootstrap as
far as it decides what is known, `Sync` and `Views` say what it does; `Calls` has
a daemon that is up or not, `Daemons` says when it is.

### Mirror and Sync

A row keeps what staleness depends on: `edited` (last_edited_time in minutes),
`rev` (the revision its title and properties came from), `body` (the revision
its Markdown came from), `synced` (content_synced), `source`, `trash`. Bodies
and titles are revision numbers: two texts are equal exactly when they are of
the same revision. Every statement is an operator of `Mirror`: `UpsertRow`,
`WriteContent`, `TrashRow`, and the WHERE clauses `ContentPending`, `LiveRowOf`.

`Sync` has one record per goroutine, whose `pc` says what it is in the middle
of. Each HTTP response and each SQL statement is an action:

| code | actions |
|---|---|
| `Pass` | `StartPass`, `StartSource`, `SetWatermark`, `SetWatermarkFails`, `EndPass` |
| `syncDataSource` over `QueryDataSource` | `ReadRow`, `StoreRow`, `EndRows`, `RowsFail` |
| `reconcileDeletions` | `ListKnown`, `ListLive`, `EndListLive`, `TrashPage`, `EndReconcile`, `ReconcileFails` |
| `syncLoosePages` over `Search` | `StartLoose`, `ReadLoose`, `StoreLoose`, `EndLoose`, `LooseFails` |
| `FetchPendingContent`, `FetchContent` | `ListPending`, `ReadBlocks`, `StoreContent`, `ContentFails` |
| `ResyncPage` | `StartResync`, `StoreResync`, then content as above, `ResyncFails` |
| the process | `Crash` |
| Notion, time (external) | `Edit`, `Delete`, `Return`, `SearchCatchesUp`, `Tick` |

Details kept on purpose: a query returns the rows as they are when the response
is made, while the cursor is a position in (edit time, id); the watermarks are
read once, when the pass lists the data sources, and compared with that snapshot
when they are written; a failed walk leaves the watermark alone and the pass
goes on, a failed `SetWatermark` ends it; the search mark moves for every
result, rows of databases included; `ReadBlocks` of a page that cannot be opened
yields no blocks and is no error; `SetContent` stamps the body with the edit
time the row has when the UPDATE runs.

A page in Notion is live, trashed, or returned: `Return` restores a trashed page, or
shares it again, with the edit time and the text it had, at any moment. The state
remembers that a page has been away (`Gone`), as three promises are only kept for
pages that stay (`Stays`). A row may be marked trashed after its page has come back,
as the listing that missed it is older (`NoFalseTrash`); the old edit time may lie
behind the watermark, so that only a full pass brings the row back
(`WatermarkCovers`); and blocks asked for while the page was away are stored as an
empty body with the present stamp (`StampedBodyIsCurrent`; that one is a finding,
`MCSyncReturn`). `MirrorConverges` says what holds all the same: in the end the rows
of all live pages are served, those of returned ones included.

Abstractions: one result per response (a smaller page size is a legal
implementation of the endpoint and interleaves more); the set of data sources is
discovered and fixed; the block tree of a page is read in one step and its text
is a revision; the ipc goroutine serves one call at a time; edit times repeat
only as often as minutes do.

### Index

A text is a revision as well: a section of a body, or the revisions of the title and
of the properties that head the first chunk: two statements read them, and an edit
may come in between. The sections of each body are a constant, so that bodies share
sections. Each read, each transaction, and each critical section of the cache's lock
is an action: `ReadPage`, `ReadDigest`, `Commit`, `Forget` are the four parts of
`Reindex` (the page's row with its title, its properties, the transaction, the
cache); `DropPage` and `Forget` those of `DropPage`; `ListPending`, `StoreVector`,
`CacheVector` those of `EmbedPending`; `ListStale` is a tick's list of at most
`StaleLimit` stale pages (LIMIT 20); `RefreshRead`, `RefreshCache` those of
`RefreshMetadata`; `Restart` is a crash followed by `LoadVectors`. A new chunk gets
the largest row id plus one, which is what `INTEGER PRIMARY KEY` without
`AUTOINCREMENT` gives. The writers (`Upsert`, `Return`, `SetContent`, `MarkTrashed`)
are what `internal/sync` does to the pages table, reduced to what the index reads:
`Sync` says in which order they come, `Index` allows every order.

Abstractions: two chunks of one page never have the same text (the code keeps a
list of ids per hash); a page always has a title, so that `BuildChunks` never
returns nothing; scores and search are not part of this module.

### Ranking and Search

`Ranking` has the arithmetic of search.go: `ScanDepth`, `TopPages` (ranks are
counted among pages), `Fuse` (of `AddKeyword` and `AddVector`), `Score`, `Ranked`,
`Related`. The loops over lists are functions of how many elements they have seen
(`Kept`, `KeywordsIn`, `VectorsIn`, `Expanded`), and the sorted list names its n-th
element by how many come before it (`Nth`). Scores are whole numbers in units of
1 / (100 * `Scale`), `Scale` being a common multiple of the ranks' denominators, so
that comparisons are exact; the code compares floats.

`Search` adds one search to `Index`: `KeywordScan` is one statement, `VectorScan`
one scan under the cache's lock, `Materialize` one statement per hit, `Expand` one
more, and any action of `Index` may come between two of them (`Around`).
`SearchFails` distinguishes the statements whose error reaches the caller from
materialize's, whose error counts as a chunk that is gone.

Abstractions: which chunks match the terms, and the order bm25 or the dot product
gives them, are any subset and any order; filters are the data source and the two
edit times; a query says itself whether it carries a literal. Search starts from
an index at rest (`AtRest`): the chunks of a page are those of its body, under any
ids.

### Limiter

Moments are ticks from now: a slot in the past is 0. `Reserve` is the critical
section of `wait`, `Send` the moment the request leaves; between them a caller
waits for its timer, which may fire up to `MaxLate` ticks late. A response takes
any time. `Refuse` is a response that is not 2xx, with or without Retry-After;
`GiveUp`, `BackOff` and `Retry` are the branches of `do`; `Cancel` is the end of
the context in any of the waits. A slot that was reserved stays reserved.

### Daemons

A process is a label in `pc`: each system call of `ipc.Listen` (`StatSocket`,
`DialSocket`, `RemoveSocket`, `BindSocket`, `ListenSocket`) and each statement of
`mirror.Open` (`CreateFile`, `ApplySchema`, `CheckVersion`, `InsertVersion`) is
an action, and any other process may act in between. `path` is whose socket file
is there, dead or alive; `file` is how far the mirror has been made. `runServe`
is `StartSession`, `Launch` or `Probe`, `Polled`, `EnsureMirror`, `OpenReadOnly`;
its deadlines may pass at any moment. `syncLoop` and `bootstrap` are followed as
far as they decide what the mirror knows (`BootDiscover`, `BootUsers`,
`BootPass`, `FullTick`); `Sync` is what such a pass does. `Shutdown` removes the
socket file, as closing a Go unix listener does, before the listener is closed
and the process ends (`Exit`); `Die` leaves everything behind.

Nothing keeps daemons from starting at once (runServe starts one whenever a probe
fails, and so may a user), and nothing does here. Two may then serve
(`MCDaemonsTogether`, a finding). What the code does keep is `Undisturbed`: a daemon
that serves and is reached, while every other has still to dial the socket, keeps
the socket and stays the only one to serve until it ends, whoever starts, dies or
ends beside it.

### Calls

A session handles one line at a time: `ReadLine` answers at once or `Leads` to a
call of the daemon. `Dial`, `DialFails`, `Receive`, `Deadline` and `GiveUp` are the
ipc client; `Accept` and `Finish` the server's goroutine per connection, which does
not notice that a client has gone. A connection that is written to and not yet
accepted waits in `backlog`, which outlives the client's deadline: a resync may be
begun for a session that has given up on it. `Crash` ends the daemon with all
connections and `StartDaemon` brings one back. `FallsBack` and `SearchHere` are the
keyword search in the session, `Degraded` what it says of itself. A line is
abstracted to its kind, method, tool and search mode, a reply to whom it is for,
what it is the result of, and what it says of the mode; `ran` counts resyncs begun
and ended and is not in the code.

A recall finds its entity by such a search, of which it says neither mode nor
`Degraded` (`Found`), and then reads relations. A search or a status from the mirror
may end in a tool error, as its statements may fail.

Abstractions: a resync's fallback and status' are error or short replies without
contents; fetch, query and list are answered at once; one byte stream is one line
after another; a deadline may pass at any moment.

### Properties and Views

A column's name is the sequence of its parts between colons, so that the only
question is which names are equal. `Flatten` is FlattenProperties with
`FlattenOne`, `CellOf`, `Scalar` and `Rollup` for the types; `SchemaColumns` and
`FixedOf` are ViewSQL; `RelationsOf` the rows of relations.

`Views` has the schemas in Notion and in `data_sources`, the views, the databases
and one page per source. Each statement of `UpsertDataSource` is an action (`Drop`,
`Create`, `Store`), as are those of `EnsureViews` (`EnsureDrop`, `EnsureCreate`),
which a daemon runs when it opens and before it looks whether another one serves
(`Open`, `Serve`). `Discover` walks the data sources a search has returned, or
(`FallBack`) those of all databases, one retrieval each (`Take`); `StoreParents`
are the databases; `StorePage` is a full pass over one source, with its
reconciliation. `Fails` ends whatever is under way the way the code does; `Dies`
leaves everything as it is.

A source may stop being shared, and be shared again, at any time (`Edit` to
`NoForm`): its row, view and page stay in the mirror.

Abstractions: a source in Notion's trash counts as one that is not shared (the code
gives its row in_trash, or fails at its pages; either keeps it out of the passes); a
source has one page; what changes in Notion is a form from a given set, so that
schema, properties and page change together; queries read one moment.

### Content

`Ask`, `Denied`, `Fail` and `Look` are fetchChildren as a stack of frames, with the
budget shared by all of them. The rest is pure: `Written`, `Rendered` and `Lines` are
RenderMarkdown, `CutUpTo` and `Sections` splitSections, `Paragraphs`, `Cuts`,
`TakenUpTo` and `Pieces` splitBySize, `Chunks` BuildChunks. Each loop is a function
from the number of its rounds to the state after them; rendering, which recurses
over the tree, is a function from the levels below a block to the lines of all
blocks. Of a text only its length is kept and of a line
the heading level it reads as; a chunk names the lines it is made from. Notion may
answer each request with any blocks, as the page may be edited between two.

## 3. What TLC checks

| run | instance | properties | what it shows |
|---|---|---|---|
| `sync_single` | sync loop alone; a row and a loose page, two revisions each; the row may be deleted and comes back once at any moment; the loose page's search entry lags; one failed call or crash; 3 minutes, slack 1; edits in distinct minutes | `LoopInv`, `RowsKeepSource`, `StampedBodyIsCurrent`, `MirrorConverges`, `DeletionsReachMirror`, `KeepsPromise` | the loop by itself is right: it converges, serves again what comes back, and implements `MirrorPromise` |
| `sync_concurrent` | sync loop and page resyncs; two rows; edits may share a minute; slack 2 = 2 * walk | `SyncInv`, `WatermarkCovers`, `NoFalseTrash` | the inductive invariant, before it is proved |
| `sync_resync_race` (violation) | one page, two goroutines | `StampedBodyIsCurrent` | an older body is stored last and stamped as current |
| `index_edits` | two pages, one skipped; shared sections; one fault | `VectorsMatchTexts`, `EmbeddingConverges`, `PagesGetIndexed` | without deletions the index is right; a body whose reindex failed is indexed in the end |
| `index_deletions` | one of two pages vanishes and comes back; one fault | `TypeOK`, `QueueDrains`, `EmbeddingsKept`, `OnlyOvertakenGoWrong` | what still holds when row ids are used again: the queue drains, unchanged texts keep their embeddings, and a vector goes wrong in one way only |
| `index_stale` (violation) | one page, two reindexes at once | `UnlistedIsIndexed` | the older body is marked with the newer hash |
| `search` | three pages; a hybrid, a keyword and a vector query; one page is trashed and dropped, or another is indexed meanwhile; one fault | `NoPageCrowdedOut`, `AheadInBothIsAhead`, `OneBestChunkPerPage`, `DroppedIsNotFound` | long pages crowd nobody out, fusion keeps the order the branches agree on, a page comes once, dropped pages do not come back |
| `limiter` | two callers, two retries, timers one tick late of an interval of three | `LimiterInv`, `RetryAfterHonoured`, `SendsSpaced`, `CallsEnd` | pacing, Retry-After, termination |
| `daemons` | two daemons that start whenever they like; two sessions; two crashes, signals or failed calls | `TypeOK`, `Undisturbed`, `DaemonAnswers`, `SourcesDiscovered` | stale sockets and half-made mirrors are overcome, a daemon in charge of the socket is not disturbed |
| `calls` | one session, any three of eleven lines; a daemon that hangs at will and dies twice | `AnswersMatchRequests`, `ResyncRunsOnce`, `DegradationIsSaid`, `InputIsAnswered` | one answer per request, its own; no resync twice; a degraded search says so |
| `views` | one daemon; a source whose date property changes and whose page comes and goes, and one with a value of each kind; either may stop being shared; one edit, two faults | `TypeOK`, `ViewIsCurrent`, `QueryTellsProperties`, `QueriesCatchUp` | views agree with rows, no property is lost between columns, the mirror catches up |
| `content` | two levels, budget 5, target 4 and cap 6 runes; answers of up to two blocks of nine kinds or four plain ones; no title and properties, short ones, and some beyond the cap | `KeepsTheBeginning`, `CutTextFits`, `TextIsChunkedOnce`, `RegularHeadingIsPath` | what is kept, how it is cut, under which heading |

Every property of a passing run has a mutant in PROJECT.json: a plausible bug in
one mapped definition that makes TLC find the property violated in that run. The
operators named after such bugs stand beside the definitions they change.

Some configurations have no run; each makes TLC print the counterexample of a
finding, and can be checked by hand with the property given.

| configuration | module | property | what goes wrong |
|---|---|---|---|
| `MCSyncMinute` | `MCSync` | `StampedBodyIsCurrent` | a second edit within the minute is never fetched |
| `MCSyncReturn` | `MCSync` | `ReturnedBodyIsCurrent` | a page that was away when its blocks were read keeps an empty body when it comes back |
| `MCIndexReturn` | `MCIndex` | `IndexedIsFindable` | a page that returns unedited counts as indexed and has no chunk |
| `MCIndexReuse` | `MCIndex` | `VectorsMatchTexts` | a row id's next chunk inherits the vector |
| `MCIndexRefresh` | `MCIndex` | `EmbeddingConverges` | a page embedded during RefreshMetadata leaves the cache for good |
| `MCDaemonsTogether` | `Daemons` | `OneDaemon` | one daemon removes the socket another has just bound |
| `MCSearchReuse` | `MCSearch` | `ResultShowsItsPage` | a result has one page's id and another's text |
| `MCSearchRelated` | `MCSearch` | `RelatedBelowDirect` | a related page scores above a direct hit |
| `MCCallsNoModel` | `MCCalls` | `DegradationIsSaid` | a daemon without a model answers by keywords and does not say so |
| `MCViewsTogether` | `MCViews` | `ViewIsCurrent` | EnsureViews of a second daemon restores an old view |
| `MCViewsReverted` | `MCViews` | `QueriesCatchUp` | a view whose making failed stays missing when the schema is changed back |
| `MCContentHeadings` | `MCContent` | `HeadingIsPath` | with a skipped level, a section is filed under its sibling |
| `MCContentHeader` | `MCContent` | `ChunksFit` | title and properties without a body are one chunk, however long |

### The findings, in words

Races and stale state. `SetContent` stamps what the row says when it writes and not
what was read: with a resync beside a pass an old body becomes current
(`sync_resync_race`). With one-minute edit times a second edit within the minute
never refreshes the body. A page that is away when its blocks are read, and comes
back as it was, keeps an empty body (`MCSyncReturn`). `Reindex` marks as indexed a
hash it did not read (`index_stale`). `EmbedPending` may file a vector under an id
that belongs to another chunk by now, and `materialize` may show such a chunk as
another page's. `RefreshMetadata` reads the pages before it takes the lock, and
drops what a resync has embedded in between; it also runs only in passes that have
trashed pages, so that edit times in the cache are stale otherwise. `ipc.Listen`
removes a socket by name some time after it found it dead: it may be another
daemon's by then. `EnsureViews` runs before a daemon looks for another, and may undo
its view.

What failures leave behind. `DropPage` leaves the hashes alone, so a page that
returns unedited is never indexed again. A view whose CREATE failed stays missing
when the schema is back to what the row has. An interrupted walk starts over, and
a row that cannot be stored keeps the later ones out. Two processes that make the
mirror at once fail each other. Users are asked for once, successful or not.

Where a comment says something else. An older mirror is refused and not rebuilt. A
malformed line is not answered. A daemon without a model does not say so, and a
recall never does. A related page may score above a direct hit. Headings that skip a
level, and lines of code that look like headings, spoil the heading path. A property
called "Title" is shadowed, as SQL compares column names without case. Array rollups
of texts become arrays of nulls. Two properties may flatten to one column, and then
no row of the source can be stored. `chunkMax` does not cap the one chunk of a page
without a body, its title and properties.

### Bounds, and why they are enough

- Two pages: every race of `Sync` and `Index` is between two goroutines on one
  page, or between one page's walk and another page's edit time (watermark, cursor
  order, search order, reuse of a row id). `sync_concurrent`'s invariants, and
  those of `index_edits`, are proved for any number of pages.
- `sync_concurrent` has page resyncs beside the loop, and no faults, deletions or
  returns: with them it does not end in time. Two passes at once, crashes, deletions
  and returns beside two goroutines rest on the theorems, which have no such bound.
- `MaxReturns` 1 in `sync_single`: what a return upsets is the walk, the listing and the
  fetch of that page. The loose page stays there, as no deletion of one is noticed; the
  theorems about the loop have no such bound.
- `StaleLimit` 1: with two stale pages a tick leaves one over.
- Two revisions: "old" and "new" are what a stale copy needs. The first revision
  is the creation, so a page also appears during a walk.
- `MaxTime` 3 or 4 minutes and `MaxWalk` 1: an edit before, in and after a walk,
  and a later pass whose lower bound is above the first watermark (4 - 2 > 1).
- `MaxFaults` 1 or 2: each failure is followed by a fault-free rest, which
  liveness needs; the proofs have no such bound.
- `MaxId` 4 to 7: more than the chunks that exist at once plus those inserted before
  ids return; in the passing runs no commit ever meets the bound.
- `search`: three pages give a page to be crowded out by a longer one with a third
  between them; a `candidates` of 2 and an `Oversample` of 2 make both cuts bite.
  One search at a time, as searches share nothing they write. Where one page is
  dropped and another indexed meanwhile, the ids of the first are used again during
  the search; no commit meets `MaxId`.
- `MaxLead` (Limiter): a call starts only while slots are taken at most that far
  ahead; two callers keep within it by themselves except after a Retry-After.
- Two daemons and two sessions: the races are between two processes at the socket or
  at the mirror. `Undisturbed` is proved for any number of both.
- `calls`: three lines are one that is given up, one whose reply could be taken
  for it, and one between them; two deaths let a daemon be replaced twice under
  one call. Sessions share nothing but the daemon, and the safety properties are
  proved for any number of them.
- `views`: one edit while a walk holds the old schema, and two faults, so that a
  statement can fail on the way back from another failure or a death. No source
  looks again as it did before (`Reverting`), which `QueriesCatchUp` needs:
  `MCViewsReverted`. `ViewIsCurrent` is proved without these bounds.
- `content`: a budget of 5 and a depth of 2 are met with blocks left on both
  levels; paragraphs of 2, 4 and 8 runes are below the target, at it and above
  the cap, so that each branch of splitBySize is taken. The theorems about it hold
  for any sizes.

### Fairness, and why the code justifies it

- `WF(Advance(w))`: a goroutine that has started goes on; HTTP calls end by the
  client's timeout and statements by `busy_timeout`.
- `SF(StartPass("loop", TRUE))`: the full ticker's channel stays ready until it
  is taken, and Go's `select` picks a ready case at random.
- `WF(SearchCatchesUp(p))`: search is *eventually* consistent.
- `WF(IndexLoop)`, `WF(Proceed(w))` in `Index`: the index loop runs again after
  each pause whatever failed; passes come again.
- `WF(Tick)`, `WF(Proceed(c))` in `Limiter`: time passes, timers fire, the HTTP
  client's timeout ends each request.
- `WF(Run(d))`, `WF(SyncLoop(d))`, `WF(Serve(s))`, `WF(EndSession(s))` in
  `Daemons`: processes that run go on, tickers tick, and a gateway ends sessions
  and starts others, which is what starts a daemon again after a crash.
- `WF(SessionStep(s))` in `Calls`, and nothing of the daemon: a session's dial and
  its wait have deadlines, so it gets on even if the daemon never answers.
- `WF(Progress(d))` in `Views`: a daemon that runs goes on and ticks;
  `WF(OpenWhenNoneRuns(d))`: the next session starts one when none is there.
- `WF(Next)` in `Content`: a fetch goes on; no liveness is claimed of it.

Starting calls, edits, deletions, faults, crashes and cancellations are never
fair.

## 4. What is proved

TLAPS checks these for every value of the constants that meets the named
assumptions (`SyncAssumption`, `IndexAssumption`, `LimiterAssumption`,
`DaemonsAssumption`, `CallsAssumption`, `ViewsAssumption` with `FormsFit`,
`RankingAssumption`, `SearchAssumption` with `LayoutsAtRest`, `ContentAssumption`).

- `Sync_proofs!TypeCorrect`: `Spec => []TypeOK`.
- `Sync_proofs!NothingFalselyTrashed`, `SourcesKept`: no page that stays is marked
  trashed, while others are deleted and come back, and every row carries its page's
  data source, for any number of pages, sources and goroutines out of the two, any
  slack, any length of walk, with failures and crashes. `NoFalseTrash` is not
  inductive: `SafeInv` adds that an object in flight marked as trashed is of a page
  that has been away, that a page still suspected by a reconciliation has been away
  or lies ahead of the listing's cursor (`SuspectInv`), that the cursor is back at
  the start before a listing (`RestInv`), and that nothing remembered is in the
  future (`ClockInv`).
- `Sync_proofs!WatermarkNeverLoses`, `InvariantHolds`: if `Slack >= 2 * MaxWalk`,
  every row that is missing or out of date, of a page that stays, was edited no
  earlier than the next incremental query's lower bound. This is the point of the
  slack. `CoverInv` says of a page that is behind that no watermark, no snapshot of
  one and no walk is more than the slack ahead of it, and of each walk over its
  source that the page was edited about when the walk began or later, is still ahead
  of the cursor, or is the object held. One walk's length is needed for the page a
  walk misses because it was edited behind the cursor, a second one for an object
  read by another goroutine before the edit and stored after it.
- `Sync_proofs!LoopInOrder`, `StampsAreTrue`, `PromiseKept`: with the sync loop as
  the only goroutine (`LoopAlone`), for any pages, sources, slack, returns, failures
  and crashes. `LoopInv` adds to `SafeInv` that a row, and an object in flight, is
  no newer than what it was read from (`RowOf`, `LoadInv`), and that a row is not
  ahead of the object about to be stored over it: nobody else writes the row between
  the response and the statement. From it follows, if no two edits of a page share a
  minute (`OneEditPerMinute`), that a body stamped with the edit time of a page that
  stays is the page's body; and, without that condition, that each step of the loop
  is a step of `MirrorPromise` or changes nothing of it, which is the safety part of
  `KeepsPromise`. `sync_resync_race` shows that `StampedBodyIsCurrent` fails of two
  goroutines, and `MCSyncMinute` that it fails without distinct minutes.
- `Index_proofs!TypeCorrect`; `PagesStayWhole`: the chunks of a page are at all
  times those of one body and one set of properties, whoever reindexes it, with
  deletions, failures and restarts. A commit keeps the chunks whose text it would
  write, deletes the others and inserts what is missing, above all ids there are
  (`RowId`); the lemma `TopIs` finds that largest id for any set of ids.
- `Index_proofs!WrongOnlyIfOvertaken`: row ids are used again, and so
  `VectorsMatchTexts` does not hold of the code (`MCIndexReuse`). What holds, for
  any pages and goroutines and with deletions, is that an id gets out of order in
  one way only: the index goroutine has in hand, or comes to have, a text that is no
  longer the chunk's (`Overtaken`). The steps are gone through one by one: a commit
  or a drop that takes an id away leaves it to be forgotten (`ToForget`), which may
  only remove too much; a restart and a refresh read what is on disk; and a late
  `StoreVector` is what the condition names.
- `Index_proofs!EmbeddingsStay`: `EmbeddingsKept`, also with ids that are used
  again. A commit deletes no chunk whose text it writes; a job in hand that comes
  late fills only a place without a vector. `JobsInv` says so of jobs: each id is in
  hand once, and without a vector until it is stored.
- `Index_proofs!VectorsStayWithoutDeletions`: while no page is deleted and no edit
  merely removes sections (`EditsReplace`), vectors do match their texts. Then a
  commit that deletes chunks inserts others first, above them, and the largest id
  never falls (`IdsGrow`, which is derived here and not assumed); `VectorInv` adds
  that nothing in hand or filed is above the largest id, so that a new chunk cannot
  meet a late vector. That a page's chunks are whole (`PagesAreWhole`) is what
  excludes a commit that only deletes. The instance of `index_edits` is one of
  these.
- `Index_proofs!IndexedStaysFindable`: while no page comes back unedited from the
  trash (`Returning = {}`), a page that counts as indexed has its chunks, for any
  goroutines, edits, deletions and failures. `FindInv` adds that only trashed pages
  are about to be dropped, which is what a return breaks: `MCIndexReturn`. `PagesGetIndexed`
  (`index_edits`) is the liveness behind it: in the end the page counts as indexed.
- `Limiter_proofs!RequestsArePaced`, `SlotsStayApart`: two requests leave at least
  `Interval - MaxLate` apart, whoever sends them. `LimiterInv` says that slots are
  an interval apart from each other, from the next one, and from the last request.
- `Limiter_proofs!RetryAfterIsHonoured`: whoever got a Retry-After sends nothing
  before it is over.
- `Daemons_proofs!TypeCorrect`, `ChargeIsKept`: for any number of daemons and
  sessions, started at once or not, `Undisturbed`. A daemon that dials while another
  is in charge gets an answer and ends; one that is still ending has removed its
  socket file before, and removes nothing on its way out. The condition that all
  others have still to dial is needed: one that dialled before may still remove the
  socket (`MCDaemonsTogether`).
- `Calls_proofs!RequestsAreAnswered`, `ResyncsRunOnce`, `DegradedSearchSaysSo`: for
  any number of sessions, any input and any number of deaths, each request is
  answered once, in order and with its own result; a resync is begun at most once,
  though it may be after the session gave up, and one reported as done has ended;
  and if the daemon has a model, a search that did without it says so; that is the
  search tool only, as a recall drops what a search says of itself (a finding).
  `CallsInv` says that a connection is named after the call it was dialled for, is
  held only while its session waits for that call, and keeps that call in the
  backlog and at the worker, though the session may be gone, and that a resync has
  not begun before its connection is taken up and has ended once that connection
  carries a result.
- `Views_proofs!ViewsAreCurrent`: with one daemon (an assumption of the theorem;
  `MCViewsTogether` shows that it is needed), for any data sources and schemas and
  any failures and deaths, the view of a stored source is that of its row, unless
  it is being remade or a statement of that failed. `ViewsInv` says of each state
  of the daemon which torn views it has still before it.

- `Views_proofs!TypeCorrect`: the types, for any number of daemons; with it, that
  every row, view and page is of a form its source may have.
- `Views_proofs!QueriesTellProperties`: of a page that has caught up, each property
  is found in the columns it was stored under, and two pages that differ in a value
  differ in the row a query of the view returns. The condition `ValuesDiffer` is
  about data: among the forms of a source, two values of a property do not flatten
  alike. The code does flatten some alike on purpose (a formula's date range loses
  its end), so it is a hypothesis and not an invariant. The argument is about names:
  columns of storable properties are apart (`FlattenKeeps`, `ColumnsAre`), and the
  row's own columns give way to them (`QueryFinds`).
- `Search_proofs!BestChunkOnce`: for any index, queries, relations and weights, and
  whatever the index does between two statements of a search, no page comes twice
  in an answer, and the chunk shown of a hit is that of the branch that ranked its
  page higher. The loops of `Ranking` come first: each is shown to be the sequence
  of its states, and an invariant of the state after n elements is proved by
  induction over n (`KeptInv` of topPages, `KeywordInv` and `FusedInv` of fuse,
  `TakeKeeps` of expand). `AnswerInv` carries the facts through the search: the
  branches' lists are in rank order, `ranked` is their sorted fusion, and what has
  been materialized is apart from what is still to come.
- `Search_proofs!AheadStaysAhead`: a page that is ahead of another in every branch
  which has the other is ahead of it in the answer, for any weights and literals.
  A better rank never has the smaller share (`ScoreUp`; the shares are quotients),
  a tie is decided by the order in which fuse met the pages, and the sort is stable
  (`AheadComesFirst`); the cut takes a beginning.
- `Search_proofs!NobodyCrowdedOut`: the lists are as long as they can be. topPages
  stops at its limit or has all the pages (`TopPagesLength`); the keyword scan may
  stop before, but hits with at most `Oversample` chunks of each page are of so
  many pages at least (`Spread`, by counting a page's hits from the lowest id).
- `Search_proofs!TrashedStaysOut`: a page that was trashed and out of the cache when
  a search began is not in its answer, if no page comes back from the trash. Between
  the two scans and after them chunks are read from the tables, entries from the
  cache; `GoneInv` says that such a page stays trashed, gets no cache entry, is in
  no job of the index loop, and is in none of the search's lists.

- `Content_proofs!BeginningIsKept`: for any answers and refusals of Notion, any
  depth and any budget, blocks are missing from a finished fetch only where the
  budget ran out, and all that was kept lies before them in reading order. `FetchInv`
  follows the stack: the calls under way are for a block, its parent, the parent of
  that (`StackInv`); each has kept as many children as it has looked at, and all that
  is kept of the page lies before what it has left (`CallInv`); a call that is over
  left something out only when the budget was gone (`Settled`), which is then gone
  for the calls around it too; and the children of a block are numbered without gaps
  (`NoGaps`). The code's budget is spent by one block more than it keeps.
- `Content_proofs!CutTextStaysSmall`: for any blocks and any sizes, what splitBySize
  cuts is never longer than the cap, if the cap is at least two runes above the
  target: a piece grows only while the texts fit the target, and the blank line
  between the last two comes on top. The types come first, of the lines
  (`RenderedType`, for which the children of a block must be 1 to k), the sections,
  the paragraphs (an empty line shortens only a paragraph that has a newline) and the
  pieces, each by induction over the rounds of its loop.
- `Content_proofs!HeadingsArePaths`: on a page whose headings skip no level, the
  heading of a chunk is the path of headings above each of its lines. After n lines
  the path holds exactly the headings above line n + 1, outermost first, and its
  element i is of level i (`PathStep`): that is where a skipped level would break it,
  as it does in the code (`MCContentHeadings`). A section keeps the path its lines are
  under (`CutKeeps`, `SectionsAreHeaded`). splitBySize only sees one section: the set
  its lines are from is a parameter of the types, carried to the chunks.
- `Content_proofs!TextStaysWhole`: every line of the body that is no heading is in a
  chunk, all of it and in the order of the page, so that nothing is there twice; and
  the title and properties before it. Each loop keeps that what it has put out is in
  order, lies before what it gathers, and is with it the text of the lines read so
  far: `CutText` for splitSections (a section that is left out has no text),
  `SplitInv` for the paragraphs, `TakeInv` for the pieces. A cut paragraph's pieces
  follow each other and each rune is in one (`CutsTell`, with the one place where
  the arithmetic of the division matters, `RunePiece`); a piece of nothing gathered
  holds no lines, so it may be dropped; and what add drops is blank
  (`ChunksOfTell`). Only when there is no text does the title stand alone.

Only model-checked: liveness (`MirrorConverges`, `DeletionsReachMirror`,
`EmbeddingConverges`, `QueueDrains`, `PagesGetIndexed`, `CallsEnd`, `DaemonAnswers`,
`SourcesDiscovered`, `InputIsAnswered`, `QueriesCatchUp`) and with it the fairness
part of `KeepsPromise`: liveness and ENABLED are beyond the prover. Every safety
invariant that a passing run checks is stated by a theorem.

## 5. Not modelled

- `internal/embed`: floating-point inference, the tokenizer and binary formats.
- `internal/index/eval.go`, `scripts/`: offline measurement; it changes nothing.
- The contents of what the read-only tools answer (fetch, query, list, and the
  relations of a recall), and the guard that a query is a SELECT.
- The decoding of Notion's objects and of rich text; icons and links.
- The tables `users` and `sync_log`, the counts of a status.
- `BuildMatchExpression` and `QueryCarriesLiteral`: a query matches any chunks and
  says itself whether it carries a literal.
- The `convert`, `eval` and `status` commands, the `-stdio` mode of `daemon`, the
  `-no-daemon` flag of `serve`, and loading the model.

## 6. Plan

Done, in this order: `Mirror`, `Sync`, `MirrorPromise`, `SyncInduction` with its
proofs, `Index`, `Limiter` and `Daemons` with theirs; then `Ranking` and `Search`,
`Calls` with its proofs, `Properties` and `Views` with theirs, `Content`, the
proofs about `Index`, and those about the loop alone, `Views`, `Search` and
`Content`.

What would come next, most important first:

1. `UnlistedIsIndexed` under a condition that excludes two reindexes of a page at
   once, as the positive side of `index_stale`.
2. `users` and the names they give to people properties.
