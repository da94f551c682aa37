------------------------------ MODULE Search -------------------------------
(***************************************************************************)
(* internal/index, search.go, beside store.go: one search over an index    *)
(* that writers and the index loop go on changing.                         *)
(*                                                                         *)
(* The keyword branch is one statement, the vector branch one scan under   *)
(* the cache's lock; the hits they leave are then materialized with one    *)
(* statement each, and expanded with one more.  Between any two of these   *)
(* pages may be edited, reindexed, trashed and dropped.                    *)
(***************************************************************************)
EXTENDS Index, Ranking

CONSTANTS
    Queries,    \* [mode, limit, candidates, literal, only, after, before, expand]
    Models,     \* whether the process that answers has the model
    Relations,  \* the relations table: records [from, to]
    Layouts     \* of the index at first: [body, 0 if not read yet, by page; trashed; chunks]

ASSUME SearchAssumption ==
    /\ \A q \in Queries : q.limit \in Nat /\ q.candidates \in Nat /\ q.only \subseteq Pages
    /\ Models \subseteq BOOLEAN
    /\ Relations \subseteq [from : Pages, to : Pages] /\ IsFiniteSet(Relations)

\* An index at rest: the pages whose bodies have been read have their chunks, no others have any.
AtRest(l) ==
    /\ l.body \in [Pages -> Bodies \cup {0}]
    /\ \A p \in l.trashed : p \in Pages /\ l.body[p] = 0
    /\ l.chunks \in [Ids -> [page : Pages, meta : Metas, text : Nat] \cup {NoChunk}]
    /\ \A p \in Pages :
          LET ids == {i \in Ids : l.chunks[i].page = p}
              built == IF l.body[p] = 0 THEN <<>> ELSE BuildChunks(p, <<1, 1>>, l.body[p])
          IN /\ {l.chunks[i] : i \in ids} = {built[k] : k \in DOMAIN built}
             /\ Cardinality(ids) = Len(built)

ASSUME LayoutsAtRest == \A l \in Layouts : AtRest(l)

VARIABLE
    search      \* the search in flight

searchVars == <<vars, search>>

(***************************************************************************)
(* keyword and vector are the branches' lists, fused the pages still to be *)
(* materialized, results the answer so far.  Not in the code: ranked (the  *)
(* whole of fused), found (the chunks each branch had before it cut), gone *)
(* (the pages that were out of the index when the search began).           *)
(***************************************************************************)
NoSearch == [pc |-> "idle", q |-> <<>>, model |-> FALSE, keyword |-> <<>>, vector |-> <<>>,
             fused |-> <<>>, results |-> <<>>, ranked |-> <<>>,
             found |-> [keyword |-> {}, vector |-> {}], gone |-> {}]

Step(r) == search' = r /\ UNCHANGED vars

-----------------------------------------------------------------------------
\* Every chunk is embedded, unless its page is skipped, and in the cache.
SearchInit ==
    /\ \E l \in Layouts :
          /\ pages = [p \in Pages |-> [known |-> TRUE, trash |-> p \in l.trashed, edited |-> 1,
                                       meta |-> 1, body |-> l.body[p], indexed |-> l.body[p],
                                       pending |-> l.body[p] = 0]]
          /\ chunks = l.chunks
    /\ vectors = [i \in Ids |-> IF chunks[i].page \in Skipped \cup {0} THEN NoText
                                ELSE TextOf(chunks[i])]
    /\ cache = [i \in Ids |-> IF vectors[i] = NoText THEN NoEntry
                              ELSE [page |-> chunks[i].page, of |-> vectors[i], edited |-> 1]]
    /\ proc = [x \in Procs |-> Idle]
    /\ faults = 0
    /\ search = NoSearch

-----------------------------------------------------------------------------
AtWork(p) == \/ \E x \in Procs : proc[x].page = p
             \/ \E j \in proc["index"].jobs \cup {proc["index"].job} : j.page = p
OutOfIndex(p) == pages[p].trash /\ ~AtWork(p) /\ \A i \in Ids : cache[i].page # p

StartSearch ==
    /\ search.pc = "idle"
    /\ \E q \in Queries, m \in Models :
          Step([NoSearch EXCEPT !.pc = IF ModeOf(q, m) = "vector" THEN "vector" ELSE "keyword",
                                !.q = q, !.model = m, !.gone = {p \in Pages : OutOfIndex(p)}])

\* What a query asks of a page, given the edit time that is known of it.
Passes(q, p, edited) ==
    /\ q.only = {} \/ p \in q.only
    /\ edited >= q.after
    /\ q.before = 0 \/ edited <= q.before

\* Plausible bug: the statement does not look at in_trash.
MatchableTrashed(q, i) == chunks[i] # NoChunk /\ Passes(q, chunks[i].page, pages[chunks[i].page].edited)

Matchable(q, i) ==
    /\ chunks[i] # NoChunk
    /\ Live(chunks[i].page)
    /\ Passes(q, chunks[i].page, pages[chunks[i].page].edited)

HitOf(i, p) == [page |-> p, chunk |-> i]

\* After the branches: fuse, the sort and the cut.
Fuses(r) ==
    LET ranked == Ranked(Fuse(r.keyword, r.vector), r.q.literal, LimitOf(r.q))
    IN [r EXCEPT !.pc = "materialize", !.fused = ranked, !.ranked = ranked]

\* keywordHits: some chunks match the terms, in an order bm25 decides.
KeywordScan ==
    /\ search.pc = "keyword"
    /\ \E m \in SUBSET {i \in Ids : Matchable(search.q, i)} : \E ids \in SetToSeqs(m) :
          LET scanned == SubSeq(ids, 1, Least(Len(ids), ScanDepth(CandidatesOf(search.q))))
              hits == [n \in DOMAIN scanned |-> HitOf(scanned[n], chunks[scanned[n]].page)]
              r == [search EXCEPT
                      !.keyword = TopPages(hits, CandidatesOf(search.q)),
                      !.found.keyword = {HitOf(i, chunks[i].page) : i \in m}]
          IN Step(IF ModeOf(search.q, search.model) = "keyword" THEN Fuses(r)
                  ELSE [r EXCEPT !.pc = "vector"])

\* vectorHits: all of the cache that passes, in an order the scores decide.
VectorScan ==
    /\ search.pc = "vector"
    /\ \E ids \in SetToSeqs({i \in Ids : cache[i] # NoEntry
                                   /\ Passes(search.q, cache[i].page, cache[i].edited)}) :
          LET hits == [n \in DOMAIN ids |-> HitOf(ids[n], cache[ids[n]].page)]
          IN Step(Fuses([search EXCEPT !.vector = TopPages(hits, CandidatesOf(search.q)),
                                       !.found.vector = ToSet(hits)]))

\* The search without what only its first steps use.
Spent == [search EXCEPT !.keyword = <<>>, !.vector = <<>>, !.ranked = <<>>,
                        !.found = NoSearch.found]

\* materialize, one hit: the page and text are those of the chunk with its id.
Materialize ==
    /\ search.pc = "materialize" /\ search.fused # <<>>
    /\ LET f == Head(search.fused) c == chunks[f.chunk] IN
       Step([Spent EXCEPT
               !.fused = Tail(@),
               !.results = IF c = NoChunk THEN @
                           ELSE Append(@, [page |-> f.page, of |-> c.page, via |-> Via(f),
                                           parent |-> 0,
                                           score |-> Score(f, search.q.literal)])])

EndMaterialize ==
    /\ search.pc = "materialize" /\ search.fused = <<>>
    /\ Step([search EXCEPT !.pc = IF search.q.expand /\ search.results # <<>>
                                  THEN "expand" ELSE "done"])

\* The rows of expand's statement: the page at the far end must not be trashed.
RelationRows ==
    LET seeds == {search.results[n].page : n \in DOMAIN search.results}
    IN {r \in Relations : {r.from, r.to} \cap seeds # {} /\ Live(FarEnd(r, seeds))}

Expand ==
    /\ search.pc = "expand"
    /\ \E rows \in SetToSeqs(RelationRows) :
          LET limit == Least(LimitOf(search.q), RelatedLimit)
              read == SubSeq(rows, 1, Least(Len(rows), limit * RelatedScan))
          IN Step([search EXCEPT !.pc = "done",
                                 !.results = @ \o Related(read, search.results, limit)])

\* A statement of the search fails: the caller gets the error, except that
\* materialize takes it for a chunk that is gone.
SearchFails ==
    /\ faults < MaxFaults
    /\ faults' = faults + 1
    /\ \/ search.pc \in {"keyword", "expand"} /\ search' = [NoSearch EXCEPT !.pc = "failed"]
       \/ /\ search.pc = "materialize" /\ search.fused # <<>>
          /\ search' = [Spent EXCEPT !.fused = Tail(@)]
    /\ UNCHANGED <<pages, chunks, vectors, cache, proc>>

Seek == \/ KeywordScan \/ VectorScan \/ Materialize \/ EndMaterialize \/ Expand

\* The index goes on: as in Next, except that a restart ends the search.
Around ==
    \/ /\ \/ \E w \in Writers : Write(w) \/ Proceed(w)
          \/ IndexLoop
          \/ \E x \in Procs : Fails(x)
       /\ UNCHANGED search
    \/ Restart /\ search' = NoSearch

SearchNext == StartSearch \/ Seek \/ SearchFails \/ Around

SearchSpec == SearchInit /\ [][SearchNext]_searchVars

-----------------------------------------------------------------------------
(* Properties. *)

(***************************************************************************)
(* keywordScanDepth and topPages: a long page cannot push the others out.  *)
(* The vector list holds as many pages as were found, or as were asked     *)
(* for, whatever the pages' lengths; so does the keyword list while no     *)
(* page has more than Oversample chunks that match.                        *)
(***************************************************************************)
NoPageCrowdedOut ==
    LET asked == CandidatesOf(search.q)
        PagesOf(hits) == {h.page : h \in hits}
        Full(list, found) == Len(list) = Least(asked, Cardinality(PagesOf(found)))
        Long(p) == Cardinality({h \in search.found.keyword : h.page = p}) > Oversample
    IN search.pc = "materialize" /\ search.ranked # <<>> =>
         /\ (/\ asked * Oversample <= MaxScan
             /\ \A p \in PagesOf(search.found.keyword) : ~Long(p))
               => Full(search.keyword, search.found.keyword)
         /\ Full(search.vector, search.found.vector)

\* The place of a page in a branch's list; pages that are not there come after all others.
Place(list, p) == CHOOSE n \in 1 .. Len(list) + 1 :
                    /\ \A k \in 1 .. n - 1 : list[k].page # p
                    /\ n <= Len(list) => list[n].page = p

(***************************************************************************)
(* fuse's comment: each branch contributes once per page, from that page's *)
(* best rank.  So a page that is ahead of another in every branch which    *)
(* has the other is ahead of it in the answer, however many chunks the     *)
(* other matched with.                                                     *)
(***************************************************************************)
AheadInBothIsAhead ==
    search.pc = "materialize" =>
      \A a \in Pages : \A n \in DOMAIN search.ranked :
        LET b == search.ranked[n].page
            Ahead(list) == \/ Place(list, b) = Len(list) + 1
                           \/ Place(list, a) < Place(list, b)
        IN a # b /\ Ahead(search.keyword) /\ Ahead(search.vector)
             => \E m \in 1 .. n - 1 : search.ranked[m].page = a

(***************************************************************************)
(* Result's comment: one retrieved page with its best chunk.  No page      *)
(* comes twice, neither as a hit nor as somebody's relation, and what is   *)
(* shown of a hit is the chunk of the branch that ranked the page higher.  *)
(***************************************************************************)
OneBestChunkPerPage ==
    /\ \A m, n \in DOMAIN search.results :
          search.results[m].page = search.results[n].page => m = n
    /\ search.pc = "materialize" =>
         \A n \in DOMAIN search.ranked :
           LET f == search.ranked[n]
               k == Place(search.keyword, f.page)
               v == Place(search.vector, f.page)
           IN f.chunk = IF v > Len(search.vector) \/ (k <= Len(search.keyword) /\ k < v)
                        THEN search.keyword[k].chunk ELSE search.vector[v].chunk

(***************************************************************************)
(* materialize's comment: a chunk deleted between the scan and here is not *)
(* an error.  Nor does its page come back: one that was trashed and out of *)
(* the cache before the search began is not in the answer, also when the   *)
(* daemon died between marking it and dropping its chunks.                 *)
(***************************************************************************)
DroppedIsNotFound ==
    \A n \in DOMAIN search.results : search.results[n].page \notin search.gone

(***************************************************************************)
(* A result's title, text and link are those of the page whose id it has.  *)
(***************************************************************************)
ResultShowsItsPage ==
    \A n \in DOMAIN search.results : search.results[n].page = search.results[n].of

(***************************************************************************)
(* expand's comment: a third of its parent's score keeps a related page    *)
(* below every direct hit.                                                 *)
(***************************************************************************)
RelatedBelowDirect ==
    \A m, n \in DOMAIN search.results :
       search.results[m].via = "relation" /\ search.results[n].via # "relation"
         => search.results[m].score < search.results[n].score
=============================================================================
