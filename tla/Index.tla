------------------------------- MODULE Index -------------------------------
(***************************************************************************)
(* internal/index, store.go: the chunks of every mirrored page, their      *)
(* embeddings on disk, and the vector cache in memory that searches scan.  *)
(*                                                                         *)
(* The index goroutine of the daemon reindexes stale pages and embeds      *)
(* pending chunks while writers (the sync loop, a resync call) store       *)
(* content, reindex, and drop deleted pages.  A read, a transaction and a  *)
(* critical section of the cache's lock are each one step; everything else *)
(* may come in between.                                                    *)
(*                                                                         *)
(* A text is a revision: meta those of the title and the properties which  *)
(* head the first chunk (an edit of one counts as an edit of both), text   *)
(* one section of a body.  Two chunks of a page never have the same text   *)
(* here.                                                                   *)
(***************************************************************************)
EXTENDS Naturals, Sequences, FiniteSetsExt

CONSTANTS
    Pages,      \* page ids, positive integers
    Writers,    \* goroutines that run passes and resyncs
    Sections,   \* of each body revision from 1 on, its sections in order
    Batch,      \* EmbedBatch
    StaleLimit, \* most pages one tick of the index loop reindexes
    Skipped,    \* pages of the data sources left out of the vector index
    MaxEdits,   \* bound: edits of each page
    MaxId,      \* bound: chunk ids
    MaxFaults,  \* bound: failed statements and restarts
    Deletable,  \* bound: pages that may vanish from Notion
    Returning   \* bound: pages that may come back unedited

ASSUME IndexAssumption ==
    /\ Pages \subseteq Nat \ {0}
    /\ "index" \notin Writers
    /\ Sections \in Seq(Seq(Nat \ {0}))
    /\ \A s \in {Sections[b] : b \in DOMAIN Sections} :
          \A i, j \in DOMAIN s : i # j => s[i] # s[j]
    /\ Batch \in Nat \ {0} /\ StaleLimit \in Nat \ {0}
    /\ MaxEdits \in [Pages -> Nat] /\ MaxId \in Nat /\ MaxFaults \in Nat
    /\ Skipped \subseteq Pages /\ Deletable \subseteq Pages /\ Returning \subseteq Pages

VARIABLES
    pages,      \* the pages table, as far as the index reads and writes it
    chunks,     \* the chunks and chunks_fts tables, by rowid
    vectors,    \* the vectors table, by chunk_id: the text that was embedded
    cache,      \* Store.vecs, by chunk id
    proc,       \* what each goroutine is doing
    faults      \* failures so far

vars == <<pages, chunks, vectors, cache, proc, faults>>

Procs == Writers \cup {"index"}
Ids == 1 .. MaxId
Bodies == DOMAIN Sections

NoMeta == <<0, 0>>
NoText == [meta |-> NoMeta, text |-> 0]
NoChunk == [page |-> 0, meta |-> NoMeta, text |-> 0]
NoEntry == [page |-> 0, of |-> NoText, edited |-> 0]
NoJob == [id |-> 0, page |-> 0, of |-> NoText, edited |-> 0]

(***************************************************************************)
(* What a goroutine is in the middle of:                                   *)
(*   page, body, meta  the page Reindex is rebuilding, and what it read    *)
(*   gone     ids deleted from disk and not yet from the cache             *)
(*   ids      the stale pages still to be reindexed                        *)
(*   jobs     chunks still to be embedded; job the one stored and not      *)
(*            cached yet                                                   *)
(*   refresh  whether the pass has trashed pages: it will refresh the cache*)
(*   snap     what RefreshMetadata has read of the pages                   *)
(***************************************************************************)
Idle == [pc |-> "idle", page |-> 0, body |-> 0, meta |-> NoMeta, gone |-> {}, ids |-> {},
         jobs |-> {}, job |-> NoJob, refresh |-> FALSE, snap |-> <<>>]

Init ==
    /\ pages = [p \in Pages |-> [known |-> FALSE, trash |-> FALSE, edited |-> 0, meta |-> 0,
                                 body |-> 0, pending |-> FALSE, indexed |-> 0]]
    /\ chunks = [i \in Ids |-> NoChunk]
    /\ vectors = [i \in Ids |-> NoText]
    /\ cache = [i \in Ids |-> NoEntry]
    /\ proc = [x \in Procs |-> Idle]
    /\ faults = 0

Live(p) == pages[p].known /\ ~pages[p].trash
Of(p) == {i \in Ids : chunks[i].page = p}
Stored == {i \in Ids : chunks[i] # NoChunk}
TextOf(c) == [meta |-> c.meta, text |-> c.text]

\* Goroutine x goes on as r.
Goes(x, r) == proc' = [proc EXCEPT ![x] = r]

-----------------------------------------------------------------------------
(* The writers, as far as the index is concerned: internal/sync. *)

\* UpsertPage stores an edit, of the properties or only of the body.
Upsert(w, p) ==
    /\ proc[w].pc = "idle"
    /\ pages[p].edited < MaxEdits[p]
    /\ pages[p].trash => p \in Returning
    /\ \E m \in {pages[p].meta, pages[p].meta + 1} \ {0} :
          pages' = [pages EXCEPT ![p].known = TRUE, ![p].trash = FALSE, ![p].meta = m,
                                 ![p].edited = @ + 1, ![p].pending = TRUE]
    /\ UNCHANGED <<chunks, vectors, cache, proc, faults>>

\* UpsertPage stores a page that was gone and is as it was before.
Return(w, p) ==
    /\ proc[w].pc = "idle"
    /\ p \in Returning
    /\ pages[p].known /\ pages[p].trash
    /\ pages' = [pages EXCEPT ![p].trash = FALSE]
    /\ UNCHANGED <<chunks, vectors, cache, proc, faults>>

\* FetchContent: SetContent, and Reindex after it.
SetContent(w, p) ==
    /\ proc[w].pc = "idle"
    /\ Live(p) /\ pages[p].pending
    /\ \E b \in Bodies :
          pages' = [pages EXCEPT ![p].body = b, ![p].pending = FALSE]
    /\ Goes(w, [proc[w] EXCEPT !.pc = "read", !.page = p])
    /\ UNCHANGED <<chunks, vectors, cache, faults>>

\* reconcileDeletions: MarkTrashed, and DropPage after it.
MarkTrashed(w, p) ==
    /\ proc[w].pc = "idle"
    /\ p \in Deletable
    /\ Live(p)
    /\ pages' = [pages EXCEPT ![p].trash = TRUE]
    /\ Goes(w, [proc[w] EXCEPT !.pc = "trashed", !.page = p])
    /\ UNCHANGED <<chunks, vectors, cache, faults>>

-----------------------------------------------------------------------------
(* Reindex and DropPage. *)

\* Goroutine x is done with a page and goes back to what called Reindex.
Done(x, r) == [r EXCEPT !.pc = IF x = "index" THEN "stale" ELSE "idle",
                        !.page = 0, !.body = 0, !.meta = NoMeta, !.gone = {}]

\* Reindex loads the row, with the title; a trashed page is dropped instead.
ReadPage(x) ==
    LET r == proc[x] IN
    /\ r.pc = "read"
    /\ Goes(x, IF pages[r.page].trash THEN [r EXCEPT !.pc = "drop"]
               ELSE [r EXCEPT !.pc = "digest", !.body = pages[r.page].body,
                              !.meta = <<pages[r.page].meta, 0>>])
    /\ UNCHANGED <<pages, chunks, vectors, cache, faults>>

\* PropertyDigest reads the properties in a statement of its own.
ReadDigest(x) ==
    LET r == proc[x] IN
    /\ r.pc = "digest"
    /\ Goes(x, [r EXCEPT !.pc = "commit", !.meta = <<@[1], pages[r.page].meta>>])
    /\ UNCHANGED <<pages, chunks, vectors, cache, faults>>

\* A page without text is one chunk; otherwise title and properties head the
\* first section.
BuildChunks(p, meta, body) ==
    LET s == IF body = 0 THEN <<>> ELSE Sections[body]
    IN IF s = <<>> THEN <<[page |-> p, meta |-> meta, text |-> 0]>>
       ELSE [k \in DOMAIN s |-> [page |-> p, meta |-> IF k = 1 THEN meta ELSE NoMeta,
                                 text |-> s[k]]]

\* Plausible bug: every chunk of the page is written anew.
ReusableNone(p, fresh) == {}

\* What there is already of the chunks that Reindex has built, and the rest.
Reusable(p, fresh) == {i \in Of(p) : \E k \in DOMAIN fresh : fresh[k] = chunks[i]}
Added(p, fresh) == {k \in DOMAIN fresh : \A i \in Reusable(p, fresh) : chunks[i] # fresh[k]}

\* Plausible bug: the old chunks are deleted before the new ones are inserted.
RowIdAfterDelete(p, fresh, k) ==
    Max((Stored \ (Of(p) \ Reusable(p, fresh))) \cup {0})
       + Cardinality({j \in Added(p, fresh) : j <= k})

\* The rowid SQLite gives the k-th chunk: each is one more than the largest.
RowId(p, fresh, k) ==
    Max(Stored \cup {0}) + Cardinality({j \in Added(p, fresh) : j <= k})

(***************************************************************************)
(* The transaction of Reindex: new texts are inserted, chunks whose text   *)
(* is gone are deleted with their vectors, and the page counts as indexed  *)
(* with the content hash the row has by now.                               *)
(***************************************************************************)
Commit(x) ==
    LET r == proc[x]
        p == r.page
        fresh == BuildChunks(p, r.meta, r.body)
        added == Added(p, fresh)
        gone == Of(p) \ Reusable(p, fresh)
    IN
    /\ r.pc = "commit"
    /\ \A k \in added : RowId(p, fresh, k) <= MaxId
    /\ chunks' = [i \in Ids |->
                    IF \E k \in added : RowId(p, fresh, k) = i
                    THEN fresh[CHOOSE k \in added : RowId(p, fresh, k) = i]
                    ELSE IF i \in gone THEN NoChunk ELSE chunks[i]]
    /\ vectors' = [i \in Ids |-> IF i \in gone THEN NoText ELSE vectors[i]]
    /\ pages' = [pages EXCEPT ![p].indexed = pages[p].body]
    /\ Goes(x, IF gone = {} THEN Done(x, r) ELSE [r EXCEPT !.pc = "forget", !.gone = gone])
    /\ UNCHANGED <<cache, faults>>

\* DropPage deletes what there is of the page, in one transaction.
DropPage(x) ==
    LET r == proc[x] IN
    /\ r.pc \in {"drop", "trashed"}
    /\ chunks' = [i \in Ids |-> IF i \in Of(r.page) THEN NoChunk ELSE chunks[i]]
    /\ vectors' = [i \in Ids |-> IF i \in Of(r.page) THEN NoText ELSE vectors[i]]
    /\ Goes(x, [r EXCEPT !.pc = "forget", !.gone = Of(r.page),
                         !.refresh = @ \/ r.pc = "trashed"])
    /\ UNCHANGED <<pages, cache, faults>>

\* Plausible bug: ids that are in use again are taken for somebody else's.
ForgetUnused(x) ==
    /\ proc[x].pc = "forget"
    /\ cache' = [i \in Ids |-> IF i \in proc[x].gone \ Stored THEN NoEntry ELSE cache[i]]
    /\ Goes(x, Done(x, proc[x]))
    /\ UNCHANGED <<pages, chunks, vectors, faults>>

\* forgetLocked: the ids leave the cache.
Forget(x) ==
    /\ proc[x].pc = "forget"
    /\ cache' = [i \in Ids |-> IF i \in proc[x].gone THEN NoEntry ELSE cache[i]]
    /\ Goes(x, Done(x, proc[x]))
    /\ UNCHANGED <<pages, chunks, vectors, faults>>

-----------------------------------------------------------------------------
(* RefreshMetadata, at the end of a pass that has trashed pages. *)

RefreshRead(w) ==
    /\ proc[w].pc = "idle" /\ proc[w].refresh
    /\ Goes(w, [proc[w] EXCEPT !.pc = "refresh", !.snap = pages])
    /\ UNCHANGED <<pages, chunks, vectors, cache, faults>>

\* Under the lock, entries of pages that were not there leave the cache.
RefreshCache(w) ==
    LET r == proc[w]
        Gone(e) == e.page = 0 \/ ~r.snap[e.page].known \/ r.snap[e.page].trash
    IN
    /\ r.pc = "refresh"
    /\ cache' = [i \in Ids |-> IF Gone(cache[i]) THEN NoEntry
                               ELSE [cache[i] EXCEPT !.edited = r.snap[cache[i].page].edited]]
    /\ Goes(w, [r EXCEPT !.pc = "idle", !.refresh = FALSE, !.snap = <<>>])
    /\ UNCHANGED <<pages, chunks, vectors, faults>>

-----------------------------------------------------------------------------
(* indexLoop: the index goroutine. *)

\* Plausible bug: a page without an indexed_hash is left to the pass that stores it.
StaleAgain(p) == Live(p) /\ pages[p].indexed # 0 /\ pages[p].indexed # pages[p].body

\* The filter of StalePages.
Stale(p) == Live(p) /\ pages[p].indexed # pages[p].body

\* What a statement with a LIMIT may return of S; the order is left open.
Limited(limit, S) == IF Cardinality(S) <= limit THEN {S} ELSE kSubset(limit, S)

ListStale ==
    /\ proc["index"].pc = "idle"
    /\ \E s \in Limited(StaleLimit, {p \in Pages : Stale(p)}) :
          Goes("index", [proc["index"] EXCEPT !.pc = "stale", !.ids = s])
    /\ UNCHANGED <<pages, chunks, vectors, cache, faults>>

ReindexStale ==
    LET r == proc["index"] IN
    /\ r.pc = "stale"
    /\ \E p \in r.ids :
          Goes("index", [r EXCEPT !.pc = "read", !.page = p, !.ids = @ \ {p}])
    /\ UNCHANGED <<pages, chunks, vectors, cache, faults>>

\* The queue of EmbedPending.
Pending == {i \in Stored : /\ Live(chunks[i].page)
                           /\ chunks[i].page \notin Skipped
                           /\ vectors[i] = NoText}

\* Plausible bug: two columns are swapped.
JobOfSwapped(i) == [id |-> chunks[i].page, page |-> i, of |-> TextOf(chunks[i]),
                    edited |-> pages[chunks[i].page].edited]

JobOf(i) == [id |-> i, page |-> chunks[i].page, of |-> TextOf(chunks[i]),
             edited |-> pages[chunks[i].page].edited]

\* EmbedPending reads a batch of the queue, as it is now.
ListPending ==
    LET r == proc["index"] IN
    /\ r.pc = "stale" /\ r.ids = {}
    /\ \E batch \in Limited(Batch, Pending) :
          Goes("index", [r EXCEPT !.pc = "embed", !.jobs = {JobOf(i) : i \in batch}])
    /\ UNCHANGED <<pages, chunks, vectors, cache, faults>>

\* The vector of a job is stored under the chunk's id.
StoreVector ==
    LET r == proc["index"] IN
    /\ r.pc = "embed"
    /\ \E j \in r.jobs :
          /\ vectors' = [vectors EXCEPT ![j.id] = j.of]
          /\ Goes("index", [r EXCEPT !.pc = "cache", !.jobs = @ \ {j}, !.job = j])
    /\ UNCHANGED <<pages, chunks, cache, faults>>

CacheVector ==
    LET r == proc["index"] IN
    /\ r.pc = "cache"
    /\ cache' = [cache EXCEPT ![r.job.id] =
                   [page |-> r.job.page, of |-> r.job.of, edited |-> r.job.edited]]
    /\ Goes("index", [r EXCEPT !.pc = "embed", !.job = NoJob])
    /\ UNCHANGED <<pages, chunks, vectors, faults>>

EndEmbed ==
    /\ proc["index"].pc = "embed" /\ proc["index"].jobs = {}
    /\ Goes("index", Idle)
    /\ UNCHANGED <<pages, chunks, vectors, cache, faults>>

-----------------------------------------------------------------------------
\* Plausible bug: indexLoop returns when EmbedPending does.
FailsForGood(x) ==
    LET r == proc[x] IN
    /\ faults < MaxFaults
    /\ faults' = faults + 1
    /\ r.pc = "embed"
    /\ Goes(x, [Idle EXCEPT !.pc = "returned"])
    /\ UNCHANGED <<pages, chunks, vectors, cache>>

\* A statement of a reindex, a drop or a batch fails: it is logged and given up.
Fails(x) ==
    LET r == proc[x] IN
    /\ faults < MaxFaults
    /\ faults' = faults + 1
    /\ \/ /\ r.pc \in {"read", "digest", "commit", "drop", "trashed"}
          /\ Goes(x, Done(x, r))
       \/ /\ r.pc = "refresh"
          /\ Goes(x, [r EXCEPT !.pc = "idle", !.refresh = FALSE, !.snap = <<>>])
       \/ /\ r.pc = "embed"
          /\ Goes(x, Idle)
    /\ UNCHANGED <<pages, chunks, vectors, cache>>

\* Plausible bug: the cache is not filled.
RestartCold ==
    /\ faults < MaxFaults
    /\ faults' = faults + 1
    /\ cache' = [i \in Ids |-> NoEntry]
    /\ proc' = [x \in Procs |-> Idle]
    /\ UNCHANGED <<pages, chunks, vectors>>

\* The process dies and starts again; LoadVectors fills the cache.
Restart ==
    /\ faults < MaxFaults
    /\ faults' = faults + 1
    /\ cache' = [i \in Ids |->
                   IF i \in Stored /\ vectors[i] # NoText /\ ~pages[chunks[i].page].trash
                   THEN [page |-> chunks[i].page, of |-> vectors[i],
                         edited |-> pages[chunks[i].page].edited]
                   ELSE NoEntry]
    /\ proc' = [x \in Procs |-> Idle]
    /\ UNCHANGED <<pages, chunks, vectors>>

-----------------------------------------------------------------------------
\* The steps of a reindex or a drop that has started.
Rebuild(x) ==
    ReadPage(x) \/ ReadDigest(x) \/ Commit(x) \/ DropPage(x) \/ Forget(x)

IndexLoop ==
    \/ ListStale \/ ReindexStale \/ ListPending \/ StoreVector \/ CacheVector \/ EndEmbed
    \/ Rebuild("index")

Write(w) == \E p \in Pages : Upsert(w, p) \/ Return(w, p) \/ MarkTrashed(w, p)

\* What a writer does sooner or later.
Proceed(w) ==
    \/ \E p \in Pages : SetContent(w, p)
    \/ RefreshRead(w) \/ RefreshCache(w) \/ Rebuild(w)

Next ==
    \/ \E w \in Writers : Write(w) \/ Proceed(w)
    \/ IndexLoop
    \/ \E x \in Procs : Fails(x)
    \/ Restart

\* indexLoop runs again after every EmbedPause, and passes every PollInterval.
Fairness == WF_vars(IndexLoop) /\ \A w \in Writers : WF_vars(Proceed(w))

Spec == Init /\ [][Next]_vars /\ Fairness

-----------------------------------------------------------------------------
(* Properties. *)

Metas == Nat \X Nat
Texts == [meta : Metas, text : Nat]
PageRows == [known : BOOLEAN, trash : BOOLEAN, edited : Nat, meta : Nat,
             body : Bodies \cup {0}, pending : BOOLEAN, indexed : Bodies \cup {0}]
Entries == [page : Pages \cup {0}, of : Texts, edited : Nat]
Jobs == [id : Ids \cup {0}, page : Pages \cup {0}, of : Texts, edited : Nat]
ProcStates == {"idle", "read", "digest", "commit", "drop", "trashed", "forget", "refresh",
               "stale", "embed", "cache"}
ProcRecords ==
    [pc : ProcStates, page : Pages \cup {0}, body : Bodies \cup {0}, meta : Metas,
     gone : SUBSET Ids, ids : SUBSET Pages, jobs : SUBSET Jobs, job : Jobs,
     refresh : BOOLEAN, snap : [Pages -> PageRows] \cup {<<>>}]

\* Every variable keeps its type.
TypeOK ==
    /\ pages \in [Pages -> PageRows]
    /\ chunks \in [Ids -> [page : Pages \cup {0}, meta : Metas, text : Nat]]
    /\ vectors \in [Ids -> Texts]
    /\ cache \in [Ids -> Entries]
    /\ DOMAIN proc = Procs
    /\ \A x \in Procs :
          LET r == proc[x] IN
          /\ DOMAIN r = DOMAIN Idle
          /\ r.pc \in ProcStates /\ r.page \in Pages \cup {0} /\ r.body \in Bodies \cup {0}
          /\ r.meta \in Metas /\ r.gone \subseteq Ids /\ r.ids \subseteq Pages
          /\ r.jobs \subseteq Jobs /\ r.job \in Jobs /\ r.refresh \in BOOLEAN
          /\ r.snap = <<>> \/ r.snap \in [Pages -> PageRows]
    /\ faults \in 0 .. MaxFaults

(***************************************************************************)
(* A vector belongs to the text of the chunk it is filed under, on disk    *)
(* and in the cache: a search result shows the text that was scored.       *)
(***************************************************************************)
VectorsMatchTexts ==
    \A i \in Stored :
       /\ vectors[i] # NoText => vectors[i] = TextOf(chunks[i])
       /\ cache[i] # NoEntry => cache[i].of = TextOf(chunks[i])

\* Chunks that the index goroutine has read and is not done with.
InHand == proc["index"].jobs
            \cup (IF proc["index"].pc = "cache" THEN {proc["index"].job} ELSE {})

\* The index goroutine will file under row id i a text that is not that of its chunk.
Overtaken(i) == \E j \in InHand : j.id = i /\ (i \notin Stored \/ j.of # TextOf(chunks[i]))

\* What was cached under i is still to be forgotten.
ToForget(i) == \E x \in Procs : proc[x].pc = "forget" /\ i \in proc[x].gone

\* What is filed under i, on disk and in the cache, is of the chunk there, or will be forgotten.
WellFiled(i) ==
    /\ vectors[i] # NoText => i \in Stored /\ vectors[i] = TextOf(chunks[i])
    /\ cache[i] # NoEntry => ToForget(i) \/ (i \in Stored /\ cache[i].of = TextOf(chunks[i]))

(***************************************************************************)
(* Row ids are used again, and the cache lags behind the disk; and yet a   *)
(* vector gets under a wrong text in no other way than this: its batch was *)
(* read before the id changed hands.  No restart, failure, refresh,        *)
(* reindex or drop puts a row id out of order, and forgetLocked gets the   *)
(* cache straight although the ids may be in use again by then.            *)
(***************************************************************************)
OnlyOvertakenGoWrong ==
    [][\A i \in Ids : WellFiled(i) /\ ~Overtaken(i) => WellFiled(i)' \/ Overtaken(i)']_vars

(***************************************************************************)
(* Reindex's comment: a chunk whose text is unchanged keeps its embedding, *)
(* whoever rebuilds the page and whatever was embedded meanwhile.          *)
(***************************************************************************)
EmbeddingsKept ==
    [][\A i \in Stored :
          vectors[i] # NoText /\ (\E j \in Ids : chunks'[j] = chunks[i])
             => \E j \in Ids : chunks'[j] = chunks[i] /\ vectors'[j] = vectors[i]]_vars

(***************************************************************************)
(* When edits stop, every chunk of every live page that is not skipped is  *)
(* embedded and in the cache for good, in spite of reindexes, failed       *)
(* statements and restarts in the middle of a batch.                       *)
(***************************************************************************)
EmbeddingConverges ==
    <>[](\A i \in Stored :
            Live(chunks[i].page) /\ chunks[i].page \notin Skipped
               => /\ vectors[i] = TextOf(chunks[i])
                  /\ cache[i].page = chunks[i].page /\ cache[i].of = vectors[i])

(***************************************************************************)
(* The embedding queue drains, and stays empty, once edits stop: also when *)
(* pages are deleted and come back, ids are used again, batches fail and   *)
(* the daemon restarts.                                                    *)
(***************************************************************************)
QueueDrains == <>[](Pending = {})

\* The sections of body b, as chunks.
SectionsOf(p, b) ==
    {c.text : c \in {BuildChunks(p, NoMeta, b)[k] : k \in DOMAIN BuildChunks(p, NoMeta, b)}}

(***************************************************************************)
(* StalePages lists the pages whose content changed since they were last   *)
(* indexed: any other page's chunks are those of its content.              *)
(***************************************************************************)
UnlistedIsIndexed ==
    \A p \in Pages :
       Live(p) /\ pages[p].body # 0 /\ Of(p) # {} /\ ~Stale(p)
          => {chunks[i].text : i \in Of(p)} = SectionsOf(p, pages[p].body)

(***************************************************************************)
(* FetchContent's Reindex may fail, or the daemon die before it: the index *)
(* loop finds the page, though its content is no longer pending, and in    *)
(* the end a page that has a body has the chunks of one.  (That it may be  *)
(* an older one, UnlistedIsIndexed tells.)                                 *)
(***************************************************************************)
PagesGetIndexed ==
    <>[](\A p \in Pages :
            Live(p) /\ pages[p].body # 0
               => \E b \in DOMAIN Sections : {chunks[i].text : i \in Of(p)} = SectionsOf(p, b))

(***************************************************************************)
(* BuildChunks makes every page findable, even one with an empty body: a   *)
(* live page that counts as indexed, with nobody at work on it, has a      *)
(* chunk.                                                                  *)
(***************************************************************************)
IndexedIsFindable ==
    \A p \in Pages :
       (/\ Live(p) /\ pages[p].body # 0 /\ ~pages[p].pending /\ ~Stale(p)
        /\ \A x \in Procs : proc[x].page # p)
       => Of(p) # {}
=============================================================================
