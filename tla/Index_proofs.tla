---------------------------- MODULE Index_proofs ----------------------------
(***************************************************************************)
(* Proofs about Index, for any pages, writers, bodies, batch and bounds:   *)
(* its types; that the chunks of a page are always those of one body; and  *)
(* that embeddings stay with their texts.                                  *)
(*                                                                         *)
(* The tables of store.go's schema have plain rowids, so SQLite may give   *)
(* the id of a deleted chunk to a new one while a goroutine still holds    *)
(* the old one.  WrongOnlyIfOvertaken shows, with such ids, that this is   *)
(* the only way in which a vector gets under a text it was not made from;  *)
(* EmbeddingsStay, with such ids, that no embedding is lost with its text. *)
(* While nothing is deleted no id comes twice (IdsGrow), and vectors match *)
(* their texts throughout.                                                 *)
(*                                                                         *)
(* VectorInv is what VectorsMatchTexts needs to be inductive: nothing is   *)
(* filed above the largest id, and what the index goroutine has in hand    *)
(* is of the text of its chunk, or of a chunk that is gone.                *)
(***************************************************************************)
EXTENDS Index, SequenceTheorems, FiniteSetTheorems, WellFoundedInduction, TLAPS

ChunkRows == [page : Pages \cup {0}, meta : Metas, text : Nat]

\* Between its statements a goroutine is at a page, and a job is of a chunk.
Placed(r) ==
    /\ r.pc \in {"read", "digest", "commit", "drop", "trashed"} => r.page \in Pages
    /\ r.pc = "refresh" => r.snap \in [Pages -> PageRows]
    /\ r.pc = "cache" => r.job.id \in Ids
    /\ \A j \in r.jobs : j.id \in Ids

TypeInv ==
    /\ pages \in [Pages -> PageRows]
    /\ chunks \in [Ids -> ChunkRows]
    /\ \A i \in Stored : chunks[i].page \in Pages
    /\ vectors \in [Ids -> Texts]
    /\ cache \in [Ids -> Entries]
    /\ proc \in [Procs -> ProcRecords]
    /\ \A x \in Procs : Placed(proc[x])
    /\ faults \in 0 .. MaxFaults

-----------------------------------------------------------------------------
(* Types. *)

LEMMA NothingType ==
    /\ NoMeta \in Metas /\ NoText \in Texts /\ NoChunk \in ChunkRows
    /\ NoEntry \in Entries /\ NoJob \in Jobs
<1>1. NoMeta \in Metas
  BY DEF NoMeta, Metas
<1>2. NoText \in Texts /\ NoChunk \in ChunkRows
  BY <1>1 DEF NoText, Texts, NoChunk, ChunkRows
<1>3. NoEntry \in Entries /\ NoJob \in Jobs
  BY <1>2 DEF NoEntry, Entries, NoJob, Jobs
<1> QED BY <1>1, <1>2, <1>3

LEMMA IdleType == Idle \in ProcRecords /\ Placed(Idle)
BY NothingType DEF Idle, ProcRecords, ProcStates, Placed

LEMMA InitType == Init => TypeInv
<1> SUFFICES ASSUME Init PROVE TypeInv
  OBVIOUS
<1>1. NoText \in Texts /\ NoEntry \in Entries /\ NoChunk \in ChunkRows
  BY NothingType
<1>2. pages \in [Pages -> PageRows]
  BY DEF Init, PageRows
<1>3. faults \in 0 .. MaxFaults
  BY IndexAssumption DEF Init
<1> QED BY <1>1, <1>2, <1>3, IdleType DEF Init, TypeInv, Stored

\* Goroutine x goes on as r, and the tables keep their types.
LEMMA GoesType ==
    ASSUME TypeInv, NEW x \in Procs, NEW r \in ProcRecords, Placed(r), Goes(x, r),
           pages' \in [Pages -> PageRows], chunks' \in [Ids -> ChunkRows],
           \A i \in Stored' : chunks'[i].page \in Pages,
           vectors' \in [Ids -> Texts], cache' \in [Ids -> Entries],
           faults' \in 0 .. MaxFaults
    PROVE  TypeInv'
<1>1. proc' \in [Procs -> ProcRecords]
  BY DEF TypeInv, Goes
<1>2. \A y \in Procs : Placed(proc'[y])
  BY DEF TypeInv, Goes
<1>3. \A y \in Procs : Placed(proc[y])'
  BY <1>2 DEF Placed
<1> QED BY <1>1, <1>3 DEF TypeInv

\* The same when only goroutine x goes on.
LEMMA OnlyGoes ==
    ASSUME TypeInv, NEW x \in Procs, NEW r \in ProcRecords, Placed(r), Goes(x, r),
           UNCHANGED <<pages, chunks, vectors, cache, faults>>
    PROVE  TypeInv'
<1>1. \A i \in Stored' : chunks'[i].page \in Pages
  BY DEF TypeInv, Stored
<1> QED BY <1>1, GoesType DEF TypeInv

LEMMA DoneType ==
    ASSUME TypeInv, NEW x \in Procs
    PROVE  Done(x, proc[x]) \in ProcRecords /\ Placed(Done(x, proc[x]))
<1>1. proc[x] \in ProcRecords /\ Placed(proc[x])
  BY DEF TypeInv
<1> QED BY <1>1, NothingType DEF Done, ProcRecords, ProcStates, Placed

LEMMA WriteType ==
    ASSUME TypeInv, NEW w \in Writers, NEW p \in Pages,
           Upsert(w, p) \/ Return(w, p) \/ MarkTrashed(w, p) \/ SetContent(w, p)
    PROVE  TypeInv'
<1>0. w \in Procs /\ proc[w] \in ProcRecords /\ Placed(proc[w]) /\ pages[p] \in PageRows
  BY DEF TypeInv, Procs
<1>1. ASSUME pages' \in [Pages -> PageRows], proc' = proc,
             UNCHANGED <<chunks, vectors, cache, faults>>
      PROVE  TypeInv'
  BY <1>1 DEF TypeInv, Placed, Stored
<1>2. ASSUME pages' \in [Pages -> PageRows], NEW pc \in {"read", "trashed"},
             Goes(w, [proc[w] EXCEPT !.pc = pc, !.page = p]),
             UNCHANGED <<chunks, vectors, cache, faults>>
      PROVE  TypeInv'
  <2>1. [proc[w] EXCEPT !.pc = pc, !.page = p] \in ProcRecords
    BY <1>0 DEF ProcRecords, ProcStates
  <2>2. Placed([proc[w] EXCEPT !.pc = pc, !.page = p])
    BY <1>0 DEF Placed, ProcRecords
  <2>3. \A i \in Stored' : chunks'[i].page \in Pages
    BY <1>2 DEF TypeInv, Stored
  <2> QED BY <1>0, <1>2, <2>1, <2>2, <2>3, GoesType DEF TypeInv
<1>3. CASE Upsert(w, p)
  <2>1. PICK m \in {pages[p].meta, pages[p].meta + 1} \ {0} :
          pages' = [pages EXCEPT ![p].known = TRUE, ![p].trash = FALSE, ![p].meta = m,
                                 ![p].edited = @ + 1, ![p].pending = TRUE]
    BY <1>3 DEF Upsert
  <2>2. m \in Nat
    BY <1>0 DEF PageRows
  <2>3. pages' \in [Pages -> PageRows]
    BY <1>0, <2>1, <2>2 DEF TypeInv, PageRows
  <2> QED BY <1>1, <1>3, <2>3 DEF Upsert
<1>4. CASE Return(w, p)
  <2>1. pages' \in [Pages -> PageRows]
    BY <1>0, <1>4 DEF Return, TypeInv, PageRows
  <2> QED BY <1>1, <1>4, <2>1 DEF Return
<1>5. CASE MarkTrashed(w, p)
  <2>1. pages' \in [Pages -> PageRows]
    BY <1>0, <1>5 DEF MarkTrashed, TypeInv, PageRows
  <2> QED BY <1>2, <1>5, <2>1 DEF MarkTrashed
<1>6. CASE SetContent(w, p)
  <2>1. PICK b \in Bodies : pages' = [pages EXCEPT ![p].body = b, ![p].pending = FALSE]
    BY <1>6 DEF SetContent
  <2>2. pages' \in [Pages -> PageRows]
    BY <1>0, <2>1 DEF TypeInv, PageRows
  <2> QED BY <1>2, <1>6, <2>2 DEF SetContent
<1> QED BY <1>3, <1>4, <1>5, <1>6

\* What BuildChunks makes: one chunk at least, and all of the page.
ChunkSeqs(p) == UNION {[1 .. n -> {c \in ChunkRows : c.page = p}] : n \in Nat \ {0}}

LEMMA ChunkSeqsDo ==
    ASSUME NEW p, NEW s \in ChunkSeqs(p)
    PROVE  /\ \A k \in DOMAIN s : s[k] \in ChunkRows /\ s[k].page = p
           /\ \E n \in Nat \ {0} : DOMAIN s = 1 .. n
BY DEF ChunkSeqs

LEMMA BuildType ==
    ASSUME NEW p \in Pages, NEW meta \in Metas, NEW body \in Bodies \cup {0}
    PROVE  BuildChunks(p, meta, body) \in ChunkSeqs(p)
<1>1. CASE body = 0 \/ Sections[body] = <<>>
  <2>1. BuildChunks(p, meta, body) = <<[page |-> p, meta |-> meta, text |-> 0]>>
    BY <1>1 DEF BuildChunks
  <2>2. <<[page |-> p, meta |-> meta, text |-> 0]>> \in [1 .. 1 -> ChunkRows]
    BY DEF ChunkRows
  <2>3. BuildChunks(p, meta, body) \in [1 .. 1 -> {c \in ChunkRows : c.page = p}]
    BY <2>1, <2>2
  <2> QED BY <2>3 DEF ChunkSeqs
<1>2. CASE body # 0 /\ Sections[body] # <<>>
  <2>1. Sections[body] \in Seq(Nat \ {0})
    BY <1>2, IndexAssumption DEF Bodies
  <2> DEFINE n == Len(Sections[body])
  <2>2. n \in Nat /\ Sections[body] \in [1 .. n -> Nat \ {0}]
    BY <2>1
  <2>3. n # 0
    BY <1>2, <2>1, EmptySeq
  <2> HIDE DEF n
  <2>4. BuildChunks(p, meta, body) =
          [k \in 1 .. n |-> [page |-> p, meta |-> IF k = 1 THEN meta ELSE NoMeta,
                             text |-> Sections[body][k]]]
    BY <1>2, <2>2 DEF BuildChunks
  <2>5. \A k \in 1 .. n : BuildChunks(p, meta, body)[k] \in ChunkRows
    BY <2>2, <2>4, NothingType DEF ChunkRows
  <2>6. BuildChunks(p, meta, body) \in [1 .. n -> {c \in ChunkRows : c.page = p}]
    BY <2>4, <2>5
  <2>7. n \in Nat \ {0}
    BY <2>2, <2>3
  <2> QED BY <2>6, <2>7 DEF ChunkSeqs
<1> QED BY <1>1, <1>2

LEMMA ReadsType ==
    ASSUME TypeInv, NEW x \in Procs, ReadPage(x) \/ ReadDigest(x)
    PROVE  TypeInv'
<1>0. proc[x] \in ProcRecords /\ Placed(proc[x])
  BY DEF TypeInv
<1>1. CASE ReadPage(x)
  <2>1. proc[x].page \in Pages
    BY <1>0, <1>1 DEF ReadPage, Placed
  <2>2. pages[proc[x].page] \in PageRows
    BY <2>1 DEF TypeInv
  <2>3. CASE pages[proc[x].page].trash
    <3>1. LET r == [proc[x] EXCEPT !.pc = "drop"] IN r \in ProcRecords /\ Placed(r)
      BY <1>0, <2>1 DEF ProcRecords, ProcStates, Placed
    <3> QED BY <1>1, <2>3, <3>1, OnlyGoes DEF ReadPage
  <2>4. CASE ~pages[proc[x].page].trash
    <3> DEFINE r == [proc[x] EXCEPT !.pc = "digest", !.body = pages[proc[x].page].body,
                                    !.meta = <<pages[proc[x].page].meta, 0>>]
    <3>1. r \in ProcRecords /\ Placed(r)
      BY <1>0, <2>1, <2>2 DEF ProcRecords, ProcStates, Placed, PageRows, Metas
    <3>2. Goes(x, r) /\ UNCHANGED <<pages, chunks, vectors, cache, faults>>
      BY <1>1, <2>4 DEF ReadPage
    <3> HIDE DEF r
    <3> QED BY <3>1, <3>2, OnlyGoes
  <2> QED BY <2>3, <2>4
<1>2. CASE ReadDigest(x)
  <2>1. proc[x].page \in Pages
    BY <1>0, <1>2 DEF ReadDigest, Placed
  <2>2. pages[proc[x].page] \in PageRows
    BY <2>1 DEF TypeInv
  <2> DEFINE r == [proc[x] EXCEPT !.pc = "commit",
                                  !.meta = <<@[1], pages[proc[x].page].meta>>]
  <2>3. r \in ProcRecords /\ Placed(r)
    BY <1>0, <2>1, <2>2 DEF ProcRecords, ProcStates, Placed, PageRows, Metas
  <2>4. Goes(x, r) /\ UNCHANGED <<pages, chunks, vectors, cache, faults>>
    BY <1>2 DEF ReadDigest
  <2> HIDE DEF r
  <2> QED BY <2>3, <2>4, OnlyGoes
<1> QED BY <1>1, <1>2

\* What a Reindex is about to commit: the chunks built, the ids that leave, and
\* the numbers and ids of the chunks that come.
Fresh(x) == BuildChunks(proc[x].page, proc[x].meta, proc[x].body)
Leaving(x) == Of(proc[x].page) \ Reusable(proc[x].page, Fresh(x))
Coming(x) == Added(proc[x].page, Fresh(x))
IdOf(x, k) == RowId(proc[x].page, Fresh(x), k)
Taken(x) == {IdOf(x, k) : k \in Coming(x)}

LEMMA FreshType ==
    ASSUME TypeInv, NEW x \in Procs, proc[x].pc = "commit"
    PROVE  /\ proc[x].page \in Pages
           /\ Coming(x) \subseteq DOMAIN Fresh(x)
           /\ Fresh(x) \in ChunkSeqs(proc[x].page)
<1>1. proc[x] \in ProcRecords /\ Placed(proc[x])
  BY DEF TypeInv
<1>2. proc[x].page \in Pages /\ proc[x].meta \in Metas /\ proc[x].body \in Bodies \cup {0}
  BY <1>1 DEF Placed, ProcRecords
<1>3. Fresh(x) \in ChunkSeqs(proc[x].page)
  BY <1>2, BuildType DEF Fresh
<1>4. Coming(x) \subseteq DOMAIN Fresh(x)
  BY Zenon DEF Coming, Added
<1> QED BY <1>2, <1>3, <1>4

LEMMA CommitDoes ==
    ASSUME NEW x \in Procs, Commit(x)
    PROVE  /\ proc[x].pc = "commit"
           /\ \A k \in Coming(x) : IdOf(x, k) <= MaxId
           /\ chunks' = [i \in Ids |-> chunks'[i]]
           /\ \A i \in Ids \cap Taken(x) :
                 \E k \in Coming(x) : IdOf(x, k) = i /\ chunks'[i] = Fresh(x)[k]
           /\ \A i \in Ids \ Taken(x) :
                 chunks'[i] = IF i \in Leaving(x) THEN NoChunk ELSE chunks[i]
           /\ vectors' = [i \in Ids |-> IF i \in Leaving(x) THEN NoText ELSE vectors[i]]
           /\ pages' = [pages EXCEPT ![proc[x].page].indexed = pages[proc[x].page].body]
           /\ Goes(x, IF Leaving(x) = {} THEN Done(x, proc[x])
                      ELSE [proc[x] EXCEPT !.pc = "forget", !.gone = Leaving(x)])
           /\ UNCHANGED <<cache, faults>>
<1>1. /\ proc[x].pc = "commit"
      /\ \A k \in Coming(x) : IdOf(x, k) <= MaxId
      /\ vectors' = [i \in Ids |-> IF i \in Leaving(x) THEN NoText ELSE vectors[i]]
      /\ pages' = [pages EXCEPT ![proc[x].page].indexed = pages[proc[x].page].body]
      /\ UNCHANGED <<cache, faults>>
  BY DEF Commit, Coming, Leaving, IdOf, Fresh
<1>2. Goes(x, IF Leaving(x) = {} THEN Done(x, proc[x])
              ELSE [proc[x] EXCEPT !.pc = "forget", !.gone = Leaving(x)])
  BY Zenon DEF Commit, Leaving, Fresh
<1>3. chunks' = [i \in Ids |->
                   IF \E k \in Coming(x) : IdOf(x, k) = i
                   THEN Fresh(x)[CHOOSE k \in Coming(x) : IdOf(x, k) = i]
                   ELSE IF i \in Leaving(x) THEN NoChunk ELSE chunks[i]]
  BY Zenon DEF Commit, Coming, Leaving, IdOf, Fresh
<1>4. ASSUME NEW i \in Ids \cap Taken(x)
      PROVE  \E k \in Coming(x) : IdOf(x, k) = i /\ chunks'[i] = Fresh(x)[k]
  <2> DEFINE k == CHOOSE k \in Coming(x) : IdOf(x, k) = i
  <2>1. \E l \in Coming(x) : IdOf(x, l) = i
    BY DEF Taken
  <2>2. k \in Coming(x) /\ IdOf(x, k) = i
    BY <2>1
  <2>3. chunks'[i] = Fresh(x)[k]
    BY <1>3, <2>1
  <2> QED BY <2>2, <2>3
<1>5. ASSUME NEW i \in Ids \ Taken(x)
      PROVE  chunks'[i] = IF i \in Leaving(x) THEN NoChunk ELSE chunks[i]
  BY <1>3 DEF Taken
<1>6. chunks' = [i \in Ids |-> chunks'[i]]
  BY <1>3
<1> QED BY <1>1, <1>2, <1>4, <1>5, <1>6

LEMMA CommitType ==
    ASSUME TypeInv, NEW x \in Procs, Commit(x)
    PROVE  TypeInv'
<1> DEFINE p == proc[x].page
<1>0. proc[x] \in ProcRecords /\ Placed(proc[x])
  BY DEF TypeInv
<1>1. proc[x].pc = "commit" /\ p \in Pages
  BY CommitDoes, FreshType
<1>2. pages' \in [Pages -> PageRows]
  <2>1. pages[p] \in PageRows
    BY <1>1 DEF TypeInv
  <2>2. [pages[p] EXCEPT !.indexed = pages[p].body] \in PageRows
    BY <2>1 DEF PageRows
  <2>3. pages' = [pages EXCEPT ![p] = [pages[p] EXCEPT !.indexed = pages[p].body]]
    BY CommitDoes
  <2> HIDE DEF p
  <2> QED BY <1>1, <2>2, <2>3 DEF TypeInv
<1>3. ASSUME NEW i \in Ids
      PROVE  chunks'[i] \in ChunkRows /\ (chunks'[i] # NoChunk => chunks'[i].page \in Pages)
  <2>1. CASE i \in Taken(x)
    <3>0. i \in Ids \cap Taken(x)
      BY <2>1
    <3>1. PICK k \in Coming(x) : chunks'[i] = Fresh(x)[k]
      BY <3>0, CommitDoes, Zenon
    <3>2. k \in DOMAIN Fresh(x)
      BY <1>1, FreshType
    <3>3. Fresh(x)[k] \in ChunkRows /\ Fresh(x)[k].page \in Pages
      BY <1>1, <3>2, FreshType, ChunkSeqsDo
    <3> QED BY <3>1, <3>3
  <2>2. CASE i \notin Taken(x)
    <3>1. NoChunk \in ChunkRows
      BY NothingType
    <3>2. chunks'[i] = NoChunk \/ chunks'[i] = chunks[i]
      BY <2>2, CommitDoes
    <3> QED BY <3>1, <3>2 DEF TypeInv, Stored
  <2> QED BY <2>1, <2>2
<1>4. chunks' \in [Ids -> ChunkRows] /\ \A i \in Stored' : chunks'[i].page \in Pages
  <2>1. chunks' = [i \in Ids |-> chunks'[i]]
    BY CommitDoes
  <2> QED BY <1>3, <2>1 DEF Stored
<1>5. vectors' \in [Ids -> Texts]
  <2>1. NoText \in Texts
    BY NothingType
  <2>2. vectors' = [i \in Ids |-> IF i \in Leaving(x) THEN NoText ELSE vectors[i]]
    BY CommitDoes
  <2> QED BY <2>1, <2>2 DEF TypeInv
<1> DEFINE r == IF Leaving(x) = {} THEN Done(x, proc[x])
                ELSE [proc[x] EXCEPT !.pc = "forget", !.gone = Leaving(x)]
<1>6. r \in ProcRecords /\ Placed(r)
  <2>1. Leaving(x) \in SUBSET Ids
    BY DEF Leaving, Of
  <2>2. LET q == [proc[x] EXCEPT !.pc = "forget", !.gone = Leaving(x)]
        IN q \in ProcRecords /\ Placed(q)
    BY <1>0, <2>1 DEF ProcRecords, ProcStates, Placed
  <2> QED BY <2>2, DoneType
<1>7. Goes(x, r) /\ cache' = cache /\ faults' = faults
  BY CommitDoes
<1> HIDE DEF r
<1> QED BY <1>2, <1>4, <1>5, <1>6, <1>7, GoesType DEF TypeInv

LEMMA DropType ==
    ASSUME TypeInv, NEW x \in Procs, DropPage(x)
    PROVE  TypeInv'
<1> DEFINE gone == Of(proc[x].page)
           r == [proc[x] EXCEPT !.pc = "forget", !.gone = gone,
                                !.refresh = @ \/ proc[x].pc = "trashed"]
<1>0. proc[x] \in ProcRecords /\ Placed(proc[x])
  BY DEF TypeInv
<1>1. r \in ProcRecords /\ Placed(r)
  <2>1. gone \in SUBSET Ids
    BY DEF Of
  <2>2. (proc[x].refresh \/ proc[x].pc = "trashed") \in BOOLEAN
    OBVIOUS
  <2> HIDE DEF gone
  <2> QED BY <1>0, <2>1, <2>2 DEF ProcRecords, ProcStates, Placed
<1>2. /\ chunks' = [i \in Ids |-> IF i \in gone THEN NoChunk ELSE chunks[i]]
      /\ vectors' = [i \in Ids |-> IF i \in gone THEN NoText ELSE vectors[i]]
      /\ Goes(x, r) /\ UNCHANGED <<pages, cache, faults>>
  BY DEF DropPage
<1> HIDE DEF gone, r
<1>3. NoChunk \in ChunkRows /\ NoText \in Texts
  BY NothingType
<1>4. chunks' \in [Ids -> ChunkRows] /\ vectors' \in [Ids -> Texts]
  BY <1>2, <1>3 DEF TypeInv
<1>5. \A i \in Stored' : chunks'[i].page \in Pages
  BY <1>2 DEF TypeInv, Stored
<1> QED BY <1>1, <1>2, <1>4, <1>5, GoesType DEF TypeInv

LEMMA ForgetType ==
    ASSUME TypeInv, NEW x \in Procs, Forget(x)
    PROVE  TypeInv'
<1>1. NoEntry \in Entries
  BY NothingType
<1>2. cache' \in [Ids -> Entries]
  BY <1>1 DEF Forget, TypeInv
<1>3. \A i \in Stored' : chunks'[i].page \in Pages
  BY DEF Forget, TypeInv, Stored
<1> QED BY <1>2, <1>3, DoneType, GoesType DEF Forget, TypeInv

LEMMA RefreshType ==
    ASSUME TypeInv, NEW w \in Writers, RefreshRead(w) \/ RefreshCache(w)
    PROVE  TypeInv'
<1>0. w \in Procs /\ proc[w] \in ProcRecords /\ Placed(proc[w])
  BY DEF TypeInv, Procs
<1>1. CASE RefreshRead(w)
  <2>1. LET r == [proc[w] EXCEPT !.pc = "refresh", !.snap = pages] IN
        r \in ProcRecords /\ Placed(r)
    BY <1>0 DEF ProcRecords, ProcStates, Placed, TypeInv
  <2> QED BY <1>0, <1>1, <2>1, OnlyGoes DEF RefreshRead
<1>2. CASE RefreshCache(w)
  <2> DEFINE snap == proc[w].snap
             Gone(e) == e.page = 0 \/ ~snap[e.page].known \/ snap[e.page].trash
             r == [proc[w] EXCEPT !.pc = "idle", !.refresh = FALSE, !.snap = <<>>]
  <2>1. snap \in [Pages -> PageRows]
    BY <1>0, <1>2 DEF RefreshCache, Placed
  <2>2. /\ cache' = [i \in Ids |-> IF Gone(cache[i]) THEN NoEntry
                                   ELSE [cache[i] EXCEPT !.edited = snap[cache[i].page].edited]]
        /\ Goes(w, r) /\ UNCHANGED <<pages, chunks, vectors, faults>>
    BY <1>2 DEF RefreshCache
  <2>3. r \in ProcRecords /\ Placed(r)
    BY <1>0 DEF ProcRecords, ProcStates, Placed
  <2> HIDE DEF snap, r
  <2>4. NoEntry \in Entries
    BY NothingType
  <2>5. ASSUME NEW i \in Ids, ~Gone(cache[i])
        PROVE  [cache[i] EXCEPT !.edited = snap[cache[i].page].edited] \in Entries
    <3>1. cache[i] \in Entries /\ cache[i].page \in Pages
      BY <2>5 DEF TypeInv, Entries
    <3>2. snap[cache[i].page].edited \in Nat
      BY <2>1, <3>1 DEF PageRows
    <3> QED BY <3>1, <3>2 DEF Entries
  <2>6. cache' \in [Ids -> Entries]
    <3> HIDE DEF Gone
    <3> QED BY <2>2, <2>4, <2>5
  <2>7. \A i \in Stored' : chunks'[i].page \in Pages
    BY <2>2 DEF TypeInv, Stored
  <2> QED BY <1>0, <2>2, <2>3, <2>6, <2>7, GoesType DEF TypeInv
<1> QED BY <1>1, <1>2

LEMMA JobType ==
    ASSUME TypeInv, NEW i \in Stored
    PROVE  JobOf(i) \in Jobs /\ JobOf(i).id = i /\ i \in Ids
<1>1. i \in Ids /\ chunks[i] \in ChunkRows /\ chunks[i].page \in Pages
  BY DEF TypeInv, Stored
<1>2. pages[chunks[i].page].edited \in Nat
  BY <1>1 DEF TypeInv, PageRows
<1> QED BY <1>1, <1>2 DEF JobOf, Jobs, TextOf, Texts, ChunkRows

LEMMA LoopType ==
    ASSUME TypeInv,
           ListStale \/ ReindexStale \/ ListPending \/ StoreVector \/ CacheVector \/ EndEmbed
    PROVE  TypeInv'
<1> DEFINE x == "index"
<1>0. x \in Procs /\ proc[x] \in ProcRecords /\ Placed(proc[x])
  BY DEF TypeInv, Procs
<1>1. CASE ListStale
  <2>1. PICK s \in SUBSET Pages : Goes(x, [proc[x] EXCEPT !.pc = "stale", !.ids = s])
    BY <1>1 DEF ListStale, Limited, kSubset
  <2>2. LET r == [proc[x] EXCEPT !.pc = "stale", !.ids = s] IN r \in ProcRecords /\ Placed(r)
    BY <1>0 DEF ProcRecords, ProcStates, Placed
  <2> QED BY <1>0, <1>1, <2>1, <2>2, OnlyGoes DEF ListStale
<1>2. CASE ReindexStale
  <2>1. PICK p \in proc[x].ids :
          Goes(x, [proc[x] EXCEPT !.pc = "read", !.page = p, !.ids = @ \ {p}])
    BY <1>2 DEF ReindexStale
  <2>2. LET r == [proc[x] EXCEPT !.pc = "read", !.page = p, !.ids = @ \ {p}] IN
        r \in ProcRecords /\ Placed(r)
    BY <1>0 DEF ProcRecords, ProcStates, Placed
  <2> QED BY <1>0, <1>2, <2>1, <2>2, OnlyGoes DEF ReindexStale
<1>3. CASE ListPending
  <2>1. PICK batch \in SUBSET Pending :
          Goes(x, [proc[x] EXCEPT !.pc = "embed", !.jobs = {JobOf(i) : i \in batch}])
    BY <1>3 DEF ListPending, Limited, kSubset
  <2>2. Pending \subseteq Stored
    BY DEF Pending
  <2>3. \A i \in batch : JobOf(i) \in Jobs /\ JobOf(i).id \in Ids
    BY <2>2, JobType
  <2> DEFINE jobs == {JobOf(i) : i \in batch}
  <2>4. jobs \in SUBSET Jobs /\ \A j \in jobs : j.id \in Ids
    BY <2>3
  <2> HIDE DEF jobs
  <2>5. LET r == [proc[x] EXCEPT !.pc = "embed", !.jobs = jobs] IN r \in ProcRecords /\ Placed(r)
    BY <1>0, <2>4 DEF ProcRecords, ProcStates, Placed
  <2>6. Goes(x, [proc[x] EXCEPT !.pc = "embed", !.jobs = jobs])
    BY <2>1 DEF jobs
  <2> QED BY <1>0, <1>3, <2>5, <2>6, OnlyGoes DEF ListPending
<1>4. CASE StoreVector
  <2>1. PICK j \in proc[x].jobs :
          /\ vectors' = [vectors EXCEPT ![j.id] = j.of]
          /\ Goes(x, [proc[x] EXCEPT !.pc = "cache", !.jobs = @ \ {j}, !.job = j])
    BY <1>4 DEF StoreVector
  <2>2. j \in Jobs /\ j.id \in Ids /\ j.of \in Texts
    BY <1>0 DEF ProcRecords, Placed, Jobs
  <2>3. LET r == [proc[x] EXCEPT !.pc = "cache", !.jobs = @ \ {j}, !.job = j] IN
        r \in ProcRecords /\ Placed(r)
    BY <1>0, <2>2 DEF ProcRecords, ProcStates, Placed
  <2>4. vectors' \in [Ids -> Texts]
    BY <2>1, <2>2 DEF TypeInv
  <2>5. \A i \in Stored' : chunks'[i].page \in Pages
    BY <1>4 DEF StoreVector, TypeInv, Stored
  <2> QED BY <1>0, <1>4, <2>1, <2>3, <2>4, <2>5, GoesType DEF StoreVector, TypeInv
<1>5. CASE CacheVector
  <2> DEFINE j == proc[x].job
             e == [page |-> j.page, of |-> j.of, edited |-> j.edited]
  <2>1. j \in Jobs
    BY <1>0 DEF ProcRecords
  <2>2. e \in Entries
    BY <2>1 DEF Jobs, Entries
  <2>3. LET r == [proc[x] EXCEPT !.pc = "embed", !.job = NoJob] IN r \in ProcRecords /\ Placed(r)
    <3>1. NoJob \in Jobs
      BY NothingType
    <3> QED BY <1>0, <3>1 DEF ProcRecords, ProcStates, Placed
  <2>4. cache' = [cache EXCEPT ![j.id] = e]
    BY <1>5 DEF CacheVector
  <2>5. cache' \in [Ids -> Entries]
    <3> HIDE DEF e
    <3> QED BY <2>2, <2>4 DEF TypeInv
  <2>6. \A i \in Stored' : chunks'[i].page \in Pages
    BY <1>5 DEF CacheVector, TypeInv, Stored
  <2> QED BY <1>0, <1>5, <2>3, <2>5, <2>6, GoesType DEF CacheVector, TypeInv
<1>6. CASE EndEmbed
  BY <1>0, <1>6, IdleType, OnlyGoes DEF EndEmbed
<1> QED BY <1>1, <1>2, <1>3, <1>4, <1>5, <1>6

LEMMA FaultType ==
    ASSUME TypeInv, (\E x \in Procs : Fails(x)) \/ Restart
    PROVE  TypeInv'
<1>0. faults' \in 0 .. MaxFaults
  <2>1. faults < MaxFaults /\ faults' = faults + 1
    BY DEF Fails, Restart
  <2> QED BY <2>1, IndexAssumption DEF TypeInv
<1>1. \A i \in Stored' : chunks'[i].page \in Pages
  BY DEF Fails, Restart, TypeInv, Stored
<1>2. ASSUME NEW x \in Procs, Fails(x)
      PROVE  TypeInv'
  <2>1. proc[x] \in ProcRecords /\ Placed(proc[x])
    BY DEF TypeInv
  <2>2. LET r == [proc[x] EXCEPT !.pc = "idle", !.refresh = FALSE, !.snap = <<>>] IN
        r \in ProcRecords /\ Placed(r)
    BY <2>1 DEF ProcRecords, ProcStates, Placed
  <2>3. PICK r \in ProcRecords : Placed(r) /\ Goes(x, r)
    BY <1>2, <2>2, DoneType, IdleType DEF Fails
  <2> QED BY <1>0, <1>1, <1>2, <2>3, GoesType DEF Fails, TypeInv
<1>3. CASE Restart
  <2> DEFINE Loads(i) == i \in Stored /\ vectors[i] # NoText /\ ~pages[chunks[i].page].trash
             E(i) == [page |-> chunks[i].page, of |-> vectors[i],
                      edited |-> pages[chunks[i].page].edited]
  <2>1. \A i \in Stored : E(i) \in Entries
    <3>1. \A i \in Stored : JobOf(i) \in Jobs /\ i \in Ids
      BY JobType
    <3>2. \A i \in Stored : /\ chunks[i].page \in Pages
                            /\ pages[chunks[i].page].edited \in Nat
      BY DEF TypeInv, PageRows
    <3> QED BY <3>1, <3>2 DEF TypeInv, Entries
  <2>2. NoEntry \in Entries
    BY NothingType
  <2>3. cache' = [i \in Ids |-> IF Loads(i) THEN E(i) ELSE NoEntry]
    BY <1>3 DEF Restart
  <2>4. \A i \in Ids : Loads(i) => i \in Stored
    OBVIOUS
  <2> HIDE DEF Loads, E
  <2>5. cache' \in [Ids -> Entries]
    BY <2>1, <2>2, <2>3, <2>4
  <2>6. /\ proc' \in [Procs -> ProcRecords]
        /\ \A x \in Procs : Placed(proc[x])'
    BY <1>3, IdleType DEF Restart, Placed
  <2> QED BY <1>0, <1>1, <1>3, <2>5, <2>6 DEF Restart, TypeInv
<1> QED BY <1>2, <1>3

LEMMA NextType == TypeInv /\ [Next]_vars => TypeInv'
<1> SUFFICES ASSUME TypeInv, [Next]_vars PROVE TypeInv'
  OBVIOUS
<1>1. CASE UNCHANGED vars
  BY <1>1 DEF vars, TypeInv, Placed, Stored
<1>2. CASE Next
  <2>1. \A w \in Writers : w \in Procs
    BY DEF Procs
  <2>2. "index" \in Procs
    BY DEF Procs
  <2>3. ASSUME NEW x \in Procs, Rebuild(x) PROVE TypeInv'
    BY <2>3, ReadsType, CommitType, DropType, ForgetType DEF Rebuild
  <2> QED BY <1>2, <2>1, <2>2, <2>3, WriteType, RefreshType, LoopType, FaultType
          DEF Next, Write, Proceed, IndexLoop
<1> QED BY <1>1, <1>2

LEMMA TypeInvariant == Spec => []TypeInv
BY InitType, NextType, PTL DEF Spec

(***************************************************************************)
(* Every variable of Index keeps its type, for any pages, writers, bodies  *)
(* and bounds: a goroutine is at a page when it reads, writes or drops     *)
(* one, and each stored chunk is of a page.                                *)
(***************************************************************************)
THEOREM TypeCorrect == Spec => []TypeOK
<1>1. TypeInv => TypeOK
  BY DEF TypeInv, TypeOK, ChunkRows, ProcRecords, Idle
<1> QED BY <1>1, TypeInvariant, PTL

-----------------------------------------------------------------------------
(* Row ids. *)

LEMMA LessIsWellFounded == IsWellFoundedOn({ss \in Nat \X Nat : ss[1] < ss[2]}, Nat)
BY NatLessThanWellFounded DEF OpToRel

LEMMA TopIs ==
    ASSUME NEW S \in SUBSET Ids
    PROVE  /\ Max(S \cup {0}) \in S \cup {0}
           /\ \A i \in S : i <= Max(S \cup {0})
<1> DEFINE T == {n \in Nat : \A i \in S \cup {0} : i <= n}
           R == {ss \in Nat \X Nat : ss[1] < ss[2]}
<1>1. MaxId \in T
  BY IndexAssumption DEF Ids
<1>2. PICK n \in T : \A m \in T : <<m, n>> \notin R
  BY <1>1, LessIsWellFounded, WFMin
<1>3. n \in Nat /\ \A i \in S \cup {0} : i <= n
  BY <1>2
<1>4. \A m \in T : ~(m < n)
  BY <1>2
<1>5. n \in S \cup {0}
  <2> SUFFICES ASSUME n \notin S \cup {0} PROVE FALSE
    OBVIOUS
  <2>1. n - 1 \in Nat /\ n - 1 < n
    BY <1>3
  <2>2. \A i \in S \cup {0} : i <= n - 1
    BY <1>3 DEF Ids
  <2>3. n - 1 \in T
    BY <2>1, <2>2
  <2> QED BY <1>4, <2>1, <2>3
<1>6. \E k \in S \cup {0} : \A i \in S \cup {0} : k >= i
  BY <1>3, <1>5 DEF Ids
<1>7. LET k == Max(S \cup {0}) IN k \in S \cup {0} /\ \A i \in S \cup {0} : k >= i
  BY <1>6 DEF Max
<1> QED BY <1>7 DEF Ids

\* The largest row id there is.
Top == Max(Stored \cup {0})

LEMMA TopType == Top \in Nat /\ \A i \in Stored : i \in Ids /\ i <= Top
<1> DEFINE S == Stored
<1>1. S \in SUBSET Ids /\ Top = Max(S \cup {0})
  BY DEF Stored, Top
<1> HIDE DEF S
<1>2. Top \in S \cup {0} /\ \A i \in S : i <= Top
  BY <1>1, TopIs
<1>3. Top \in Nat /\ \A i \in S : i \in Ids
  BY <1>1, <1>2 DEF Ids
<1> QED BY <1>2, <1>3 DEF S

\* A new chunk's id is larger than any there is, and chunks have ids of their own.
LEMMA IdsAbove ==
    ASSUME TypeInv, NEW x \in Procs, proc[x].pc = "commit"
    PROVE  /\ \A k \in Coming(x) : IdOf(x, k) \in Nat /\ IdOf(x, k) > Top
           /\ \A k, l \in Coming(x) : IdOf(x, k) = IdOf(x, l) => k = l
<1> DEFINE UpTo(k) == {j \in Coming(x) : j <= k}
<1>1. PICK n \in Nat : Coming(x) \subseteq 1 .. n
  <2>1. Fresh(x) \in ChunkSeqs(proc[x].page) /\ Coming(x) \subseteq DOMAIN Fresh(x)
    BY FreshType
  <2>2. \E n \in Nat \ {0} : DOMAIN Fresh(x) = 1 .. n
    BY <2>1, ChunkSeqsDo
  <2> QED BY <2>1, <2>2
<1>2. IsFiniteSet(Coming(x))
  <2>1. 1 \in Int /\ n \in Int
    BY <1>1
  <2>2. IsFiniteSet(1 .. n)
    BY <2>1, FS_Interval, Zenon
  <2> QED BY <1>1, <2>2, FS_Subset
<1>3. ASSUME NEW k PROVE IsFiniteSet(UpTo(k)) /\ Cardinality(UpTo(k)) \in Nat
  <2>1. UpTo(k) \in SUBSET Coming(x)
    OBVIOUS
  <2> HIDE DEF UpTo
  <2> QED BY <1>2, <2>1, FS_Subset, FS_CardinalityType
<1>4. \A k : IdOf(x, k) = Top + Cardinality(UpTo(k))
  BY DEF IdOf, RowId, Top, Coming
<1>5. \A k \in Coming(x) : Cardinality(UpTo(k)) > 0
  <2>1. \A k \in Coming(x) : k \in UpTo(k)
    BY <1>1
  <2>2. \A k \in Coming(x) : Cardinality(UpTo(k)) # 0
    BY <1>3, <2>1, FS_EmptySet
  <2> QED BY <1>3, <2>2
<1>6. \A k, l \in Coming(x) : k < l => Cardinality(UpTo(k)) # Cardinality(UpTo(l))
  <2> SUFFICES ASSUME NEW k \in Coming(x), NEW l \in Coming(x), k < l,
                      Cardinality(UpTo(k)) = Cardinality(UpTo(l))
               PROVE  FALSE
    OBVIOUS
  <2>1. UpTo(k) \in SUBSET UpTo(l)
    BY <1>1
  <2>2. l \in UpTo(l) /\ l \notin UpTo(k)
    BY <1>1
  <2>3. UpTo(l) = UpTo(k)
    BY <1>3, <2>1, FS_Subset
  <2> QED BY <2>2, <2>3
<1> HIDE DEF UpTo
<1>7. \A k \in Coming(x) : IdOf(x, k) \in Nat /\ IdOf(x, k) > Top
  BY <1>3, <1>4, <1>5, TopType
<1>8. \A k, l \in Coming(x) : IdOf(x, k) = IdOf(x, l) => k = l
  <2>1. \A k, l \in Coming(x) : k = l \/ k < l \/ l < k
    BY <1>1
  <2>2. \A k, l \in Coming(x) :
          IdOf(x, k) = IdOf(x, l) => Cardinality(UpTo(k)) = Cardinality(UpTo(l))
    BY <1>3, <1>4, TopType
  <2> QED BY <1>6, <2>1, <2>2
<1> QED BY <1>7, <1>8

\* What of the stored chunks a commit leaves and what it takes in.
LEMMA CommitChunks ==
    ASSUME TypeInv, NEW x \in Procs, Commit(x), NEW i \in Ids
    PROVE  /\ i <= Top => chunks'[i] = IF i \in Leaving(x) THEN NoChunk ELSE chunks[i]
           /\ i > Top => vectors'[i] = vectors[i]
           /\ i \in Taken(x) =>
                 i > Top /\ \E k \in Coming(x) : IdOf(x, k) = i /\ chunks'[i] = Fresh(x)[k]
           /\ i \notin Taken(x) =>
                 chunks'[i] = IF i \in Leaving(x) THEN NoChunk ELSE chunks[i]
<1>1. proc[x].pc = "commit" /\ proc[x].page \in Pages
  BY CommitDoes, FreshType
<1>2. i \in Taken(x) => i > Top
  BY <1>1, IdsAbove DEF Taken
<1>3. i \in Leaving(x) => i \in Stored
  <2>1. proc[x].page # 0
    BY <1>1, IndexAssumption
  <2> QED BY <2>1 DEF Leaving, Of, Stored, NoChunk
<1>4. i \in Leaving(x) => i <= Top
  BY <1>3, TopType
<1>5. i \in Ids /\ Top \in Nat
  BY TopType
<1>6. i \notin Taken(x) => chunks'[i] = IF i \in Leaving(x) THEN NoChunk ELSE chunks[i]
  BY CommitDoes
<1>7. i \in Taken(x) => \E k \in Coming(x) : IdOf(x, k) = i /\ chunks'[i] = Fresh(x)[k]
  BY CommitDoes
<1>8. vectors'[i] = IF i \in Leaving(x) THEN NoText ELSE vectors[i]
  <2>1. vectors' = [k \in Ids |-> IF k \in Leaving(x) THEN NoText ELSE vectors[k]]
    BY CommitDoes
  <2> QED BY <2>1
<1> QED BY <1>2, <1>4, <1>5, <1>6, <1>7, <1>8 DEF Ids

-----------------------------------------------------------------------------
(* Vectors. *)

\* No row id is handed out a second time: the largest one stays, or a larger one comes.
IdsGrow == Top' >= Top

\* The inductive invariant.
VectorInv ==
    /\ \A i \in Ids : vectors[i] # NoText \/ cache[i] # NoEntry => i <= Top
    /\ \A j \in InHand : j.id <= Top /\ (j.id \in Stored => j.of = TextOf(chunks[j.id]))
    /\ VectorsMatchTexts

\* Goroutine x goes on as r with no more chunks in hand.
LEMMA HandKept ==
    ASSUME NEW x \in Procs, NEW r, Goes(x, r), TypeInv,
           r.pc = "cache" => r.job \in InHand,
           x = "index" => r.jobs \subseteq InHand
    PROVE  InHand' \subseteq InHand
<1>1. CASE x = "index"
  BY <1>1 DEF InHand, Goes, TypeInv
<1>2. CASE x # "index"
  BY <1>2 DEF InHand, Goes, TypeInv
<1> QED BY <1>1, <1>2

\* A step that adds nothing under the ids there are.
LEMMA VectorKept ==
    ASSUME TypeInv, VectorInv, IdsGrow, Top' \in Nat, InHand' \subseteq InHand,
           \A i \in Ids : i <= Top /\ i \in Stored' => i \in Stored /\ chunks'[i] = chunks[i],
           \A i \in Ids : vectors'[i] \in {vectors[i], NoText},
           \A i \in Ids : cache'[i] # NoEntry => cache[i] # NoEntry /\ cache'[i].of = cache[i].of
    PROVE  VectorInv'
<1>1. ASSUME NEW i \in Ids, vectors'[i] # NoText \/ cache'[i] # NoEntry
      PROVE  i <= Top /\ i <= Top'
  <2>1. i <= Top
    BY <1>1 DEF VectorInv
  <2> QED BY <2>1, TopType DEF IdsGrow, Ids
<1>2. ASSUME NEW j \in InHand'
      PROVE  j.id <= Top' /\ (j.id \in Stored' => j.of = TextOf(chunks'[j.id]))
  <2>1. j \in InHand /\ j.id <= Top /\ (j.id \in Stored => j.of = TextOf(chunks[j.id]))
    BY <1>2 DEF VectorInv
  <2>2. j.id \in Nat
    BY <2>1 DEF InHand, TypeInv, Placed, Procs, ProcRecords, Jobs, Ids
  <2>3. j.id <= Top'
    BY <2>1, <2>2, TopType DEF IdsGrow
  <2>4. j.id \in Stored' => j.id \in Ids
    BY DEF Stored
  <2> QED BY <2>1, <2>3, <2>4
<1>3. ASSUME NEW i \in Stored'
      PROVE  /\ vectors'[i] # NoText => vectors'[i] = TextOf(chunks'[i])
             /\ cache'[i] # NoEntry => cache'[i].of = TextOf(chunks'[i])
  <2>1. i \in Ids
    BY DEF Stored
  <2>2. CASE vectors'[i] # NoText \/ cache'[i] # NoEntry
    <3>1. i \in Stored /\ chunks'[i] = chunks[i]
      BY <1>1, <2>1, <2>2
    <3> QED BY <2>1, <3>1 DEF VectorInv, VectorsMatchTexts
  <2> QED BY <2>2
<1>4. VectorsMatchTexts'
  BY <1>3 DEF VectorsMatchTexts, TextOf
<1>5. \A j \in InHand' : j.id <= Top' /\ (j.id \in Stored' => j.of = TextOf(chunks[j.id])')
  BY <1>2 DEF TextOf
<1> QED BY <1>1, <1>4, <1>5 DEF VectorInv

LEMMA TopPrime == TypeInv' => Top' \in Nat
<1> SUFFICES ASSUME TypeInv' PROVE Top' \in Nat
  OBVIOUS
<1> DEFINE S == {i \in Ids : chunks'[i] # NoChunk}
<1>1. S \in SUBSET Ids /\ Top' = Max(S \cup {0})
  BY DEF Top, Stored
<1> HIDE DEF S
<1>2. Top' \in S \cup {0}
  BY <1>1, TopIs
<1> QED BY <1>1, <1>2 DEF Ids

\* Steps that leave the tables of chunks and vectors alone, and the cache its entries.
LEMMA ChunksKept ==
    ASSUME TypeInv, VectorInv, InHand' \subseteq InHand, UNCHANGED <<chunks, vectors>>,
           \A i \in Ids : cache'[i] # NoEntry => cache[i] # NoEntry /\ cache'[i].of = cache[i].of
    PROVE  VectorInv'
<1>1. Stored' = Stored /\ Top' = Top
  BY DEF Stored, Top
<1>2. IdsGrow /\ Top' \in Nat
  BY <1>1, TopType DEF IdsGrow
<1> QED BY <1>1, <1>2, VectorKept

LEMMA CommitVectors ==
    ASSUME TypeInv, TypeInv', VectorInv, IdsGrow, NEW x \in Procs, Commit(x)
    PROVE  VectorInv'
<1>1. \A i \in Ids : i <= Top /\ i \in Stored' => i \in Stored /\ chunks'[i] = chunks[i]
  BY CommitChunks DEF Stored
<1>2. \A i \in Ids : vectors'[i] \in {vectors[i], NoText}
  BY CommitDoes
<1>3. InHand' \subseteq InHand
  <2> DEFINE r == IF Leaving(x) = {} THEN Done(x, proc[x])
                  ELSE [proc[x] EXCEPT !.pc = "forget", !.gone = Leaving(x)]
  <2>1. proc[x] \in ProcRecords
    BY DEF TypeInv
  <2>2. r.jobs = proc[x].jobs /\ r.pc # "cache"
    BY <2>1 DEF Done, ProcRecords
  <2>3. Goes(x, r)
    BY CommitDoes
  <2> HIDE DEF r
  <2>4. x = "index" => r.jobs \subseteq InHand
    BY <2>2 DEF InHand
  <2> QED BY <2>2, <2>3, <2>4, HandKept
<1>4. cache' = cache
  BY CommitDoes
<1> QED BY <1>1, <1>2, <1>3, <1>4, TopPrime, VectorKept

LEMMA RebuildVectors ==
    ASSUME TypeInv, TypeInv', VectorInv, IdsGrow, NEW x \in Procs, Rebuild(x)
    PROVE  VectorInv'
<1>0. proc[x] \in ProcRecords
  BY DEF TypeInv
<1>1. ASSUME NEW r, Goes(x, r), r.pc # "cache", r.jobs = proc[x].jobs
      PROVE  InHand' \subseteq InHand
  <2>1. x = "index" => r.jobs \subseteq InHand
    BY <1>1 DEF InHand
  <2> QED BY <1>1, <2>1, HandKept
<1>2. CASE ReadPage(x)
  <2> DEFINE p == proc[x].page
             dropped == [proc[x] EXCEPT !.pc = "drop"]
             found == [proc[x] EXCEPT !.pc = "digest", !.body = pages[p].body,
                                      !.meta = <<pages[p].meta, 0>>]
  <2>1. Goes(x, dropped) \/ Goes(x, found)
    BY <1>2 DEF ReadPage
  <2>2. dropped.pc # "cache" /\ dropped.jobs = proc[x].jobs
    BY <1>0 DEF ProcRecords
  <2>3. found.pc # "cache" /\ found.jobs = proc[x].jobs
    BY <1>0 DEF ProcRecords
  <2> HIDE DEF dropped, found
  <2>4. InHand' \subseteq InHand
    BY <1>1, <2>1, <2>2, <2>3
  <2> QED BY <1>2, <2>4, ChunksKept DEF ReadPage
<1>6. CASE ReadDigest(x)
  <2> DEFINE p == proc[x].page
             r == [proc[x] EXCEPT !.pc = "commit", !.meta = <<@[1], pages[p].meta>>]
  <2>1. Goes(x, r)
    BY <1>6 DEF ReadDigest
  <2>2. r.pc # "cache" /\ r.jobs = proc[x].jobs
    BY <1>0 DEF ProcRecords
  <2> HIDE DEF r
  <2>3. InHand' \subseteq InHand
    BY <1>1, <2>1, <2>2
  <2> QED BY <1>6, <2>3, ChunksKept DEF ReadDigest
<1>3. CASE Commit(x)
  BY <1>3, CommitVectors
<1>4. CASE DropPage(x)
  <2> DEFINE r == [proc[x] EXCEPT !.pc = "forget", !.gone = Of(proc[x].page),
                                  !.refresh = @ \/ proc[x].pc = "trashed"]
  <2>1. Goes(x, r) /\ r.pc # "cache" /\ r.jobs = proc[x].jobs
    <3>1. Goes(x, r)
      BY <1>4 DEF DropPage
    <3> QED BY <1>0, <3>1 DEF ProcRecords
  <2>2. \A i \in Ids : i \in Stored' => i \in Stored /\ chunks'[i] = chunks[i]
    BY <1>4 DEF DropPage, Stored
  <2>3. \A i \in Ids : vectors'[i] \in {vectors[i], NoText}
    BY <1>4 DEF DropPage
  <2>4. cache' = cache
    BY <1>4 DEF DropPage
  <2> HIDE DEF r
  <2>5. InHand' \subseteq InHand
    BY <1>1, <2>1
  <2> QED BY <2>2, <2>3, <2>4, <2>5, TopPrime, VectorKept
<1>5. CASE Forget(x)
  <2>1. Done(x, proc[x]).pc # "cache" /\ Done(x, proc[x]).jobs = proc[x].jobs
    BY <1>0 DEF Done, ProcRecords
  <2>2. \A i \in Ids : cache'[i] # NoEntry => cache'[i] = cache[i]
    BY <1>5 DEF Forget
  <2> QED BY <1>1, <1>5, <2>1, <2>2, ChunksKept DEF Forget
<1> QED BY <1>2, <1>3, <1>4, <1>5, <1>6 DEF Rebuild

\* Steps of a writer that change only the pages and the writer itself.
LEMMA WriterVectors ==
    ASSUME TypeInv, VectorInv, NEW w \in Writers, Write(w) \/ Proceed(w), ~Rebuild(w)
    PROVE  VectorInv'
<1>0. w \in Procs /\ w # "index" /\ proc[w] \in ProcRecords
  BY IndexAssumption DEF TypeInv, Procs
<1>1. ASSUME NEW r, Goes(w, r), r.pc # "cache"
      PROVE  InHand' \subseteq InHand
  BY <1>0, <1>1, HandKept
<1>2. ASSUME NEW p \in Pages, Upsert(w, p) \/ Return(w, p)
      PROVE  VectorInv'
  <2>1. UNCHANGED <<chunks, vectors, cache, proc>>
    BY <1>2 DEF Upsert, Return
  <2>2. InHand' = InHand
    BY <2>1 DEF InHand
  <2> QED BY <2>1, <2>2, ChunksKept
<1>3. ASSUME NEW p \in Pages, MarkTrashed(w, p) \/ SetContent(w, p)
      PROVE  VectorInv'
  <2>1. UNCHANGED <<chunks, vectors, cache>>
    BY <1>3 DEF MarkTrashed, SetContent
  <2> DEFINE trashed == [proc[w] EXCEPT !.pc = "trashed", !.page = p]
             stored == [proc[w] EXCEPT !.pc = "read", !.page = p]
  <2>2. Goes(w, trashed) \/ Goes(w, stored)
    BY <1>3 DEF MarkTrashed, SetContent
  <2>3. trashed.pc # "cache" /\ stored.pc # "cache"
    BY <1>0 DEF ProcRecords
  <2> HIDE DEF trashed, stored
  <2>4. InHand' \subseteq InHand
    BY <1>1, <2>2, <2>3
  <2> QED BY <2>1, <2>4, ChunksKept
<1>4. CASE RefreshRead(w)
  <2>1. UNCHANGED <<chunks, vectors, cache>>
    BY <1>4 DEF RefreshRead
  <2> DEFINE r == [proc[w] EXCEPT !.pc = "refresh", !.snap = pages]
  <2>2. Goes(w, r)
    BY <1>4 DEF RefreshRead
  <2>3. r.pc # "cache"
    BY <1>0 DEF ProcRecords
  <2> HIDE DEF r
  <2>4. InHand' \subseteq InHand
    BY <1>1, <2>2, <2>3
  <2> QED BY <2>1, <2>4, ChunksKept
<1>5. CASE RefreshCache(w)
  <2>1. UNCHANGED <<chunks, vectors>>
    BY <1>5 DEF RefreshCache
  <2> DEFINE r == [proc[w] EXCEPT !.pc = "idle", !.refresh = FALSE, !.snap = <<>>]
  <2>2. Goes(w, r)
    BY <1>5 DEF RefreshCache
  <2>3. r.pc # "cache"
    BY <1>0 DEF ProcRecords
  <2> HIDE DEF r
  <2>4. InHand' \subseteq InHand
    BY <1>1, <2>2, <2>3
  <2>5. ASSUME NEW i \in Ids, cache'[i] # NoEntry
        PROVE  cache[i] # NoEntry /\ cache'[i].of = cache[i].of
    <3> DEFINE Gone(e) == \/ e.page = 0 \/ ~proc[w].snap[e.page].known
                          \/ proc[w].snap[e.page].trash
               kept == [cache[i] EXCEPT !.edited = proc[w].snap[cache[i].page].edited]
    <3>1. cache'[i] = IF Gone(cache[i]) THEN NoEntry ELSE kept
      BY <1>5 DEF RefreshCache
    <3>2. ~Gone(cache[i]) /\ cache'[i] = kept
      BY <2>5, <3>1
    <3>3. cache[i] # NoEntry
      BY <3>2 DEF NoEntry
    <3>4. cache[i] \in Entries
      BY DEF TypeInv
    <3>5. kept.of = cache[i].of
      BY <3>4 DEF Entries
    <3> QED BY <3>2, <3>3, <3>5
  <2> QED BY <2>1, <2>4, <2>5, ChunksKept
<1> QED BY <1>2, <1>3, <1>4, <1>5 DEF Write, Proceed

\* Steps of the index goroutine between two reindexes.
LEMMA LoopVectors ==
    ASSUME TypeInv, VectorInv,
           ListStale \/ ReindexStale \/ ListPending \/ StoreVector \/ CacheVector \/ EndEmbed
    PROVE  VectorInv'
<1>0. "index" \in Procs /\ proc["index"] \in ProcRecords
  BY DEF TypeInv, Procs
<1> DEFINE r == proc["index"]
<1>1. ASSUME NEW q, Goes("index", q), q.pc = "cache" => q.job \in InHand, q.jobs \subseteq InHand
      PROVE  InHand' \subseteq InHand
  BY <1>0, <1>1, HandKept
<1>2. CASE ListStale
  <2>0. PICK s \in Limited(StaleLimit, {p \in Pages : Stale(p)}) :
          Goes("index", [r EXCEPT !.pc = "stale", !.ids = s])
    BY <1>2 DEF ListStale
  <2> DEFINE q == [r EXCEPT !.pc = "stale", !.ids = s]
  <2>1. Goes("index", q)
    BY <2>0
  <2>2. q.pc # "cache" /\ q.jobs \subseteq InHand
    BY <1>0 DEF ProcRecords, InHand
  <2> HIDE DEF q
  <2>3. InHand' \subseteq InHand
    BY <1>1, <2>1, <2>2
  <2> QED BY <1>2, <2>3, ChunksKept DEF ListStale
<1>3. CASE ReindexStale
  <2>1. PICK p \in r.ids :
          Goes("index", [r EXCEPT !.pc = "read", !.page = p, !.ids = @ \ {p}])
    BY <1>3 DEF ReindexStale
  <2> DEFINE q == [r EXCEPT !.pc = "read", !.page = p, !.ids = @ \ {p}]
  <2>2. q.pc # "cache" /\ q.jobs \subseteq InHand
    BY <1>0 DEF ProcRecords, InHand
  <2> HIDE DEF q
  <2>3. InHand' \subseteq InHand
    BY <1>1, <2>1, <2>2 DEF q
  <2> QED BY <1>3, <2>3, ChunksKept DEF ReindexStale
<1>4. CASE ListPending
  <2>1. PICK batch \in Limited(Batch, Pending) :
          Goes("index", [r EXCEPT !.pc = "embed", !.jobs = {JobOf(i) : i \in batch}])
    BY <1>4 DEF ListPending
  <2>2. batch \subseteq Stored
    BY <2>1 DEF Limited, kSubset, Pending
  <2> DEFINE jobs == {JobOf(i) : i \in batch}
             q == [r EXCEPT !.pc = "embed", !.jobs = jobs]
  <2>3. q.pc = "embed" /\ q.jobs = jobs
    BY <1>0 DEF ProcRecords
  <2>4. proc'["index"] = q
    BY <1>0, <2>1 DEF Goes, TypeInv
  <2> HIDE DEF q
  <2>5. InHand' = jobs
    BY <2>3, <2>4 DEF InHand
  <2>6. \A j \in jobs : j.id \in Stored /\ j.of = TextOf(chunks[j.id])
    BY <2>2 DEF JobOf
  <2>7. UNCHANGED <<chunks, vectors, cache>>
    BY <1>4 DEF ListPending
  <2>8. Stored' = Stored /\ Top' = Top /\ \A i : TextOf(chunks[i])' = TextOf(chunks[i])
    BY <2>7 DEF Stored, Top, TextOf
  <2>9. \A j \in InHand' : j.id <= Top' /\ (j.id \in Stored' => j.of = TextOf(chunks[j.id])')
    BY <2>5, <2>6, <2>8, TopType
  <2>10. VectorsMatchTexts'
    BY <2>7, <2>8 DEF VectorsMatchTexts, VectorInv
  <2> QED BY <2>7, <2>8, <2>9, <2>10 DEF VectorInv
<1>5. CASE StoreVector
  <2>1. PICK j \in r.jobs :
          /\ vectors' = [vectors EXCEPT ![j.id] = j.of]
          /\ Goes("index", [r EXCEPT !.pc = "cache", !.jobs = @ \ {j}, !.job = j])
    BY <1>5 DEF StoreVector
  <2>2. j \in InHand /\ j.id \in Ids
    BY <1>0 DEF InHand, TypeInv, Placed
  <2>3. j.id <= Top /\ (j.id \in Stored => j.of = TextOf(chunks[j.id]))
    BY <2>2 DEF VectorInv
  <2> DEFINE q == [r EXCEPT !.pc = "cache", !.jobs = @ \ {j}, !.job = j]
  <2>4. q.job = j /\ q.jobs \subseteq InHand
    BY <1>0 DEF ProcRecords, InHand
  <2> HIDE DEF q
  <2>5. InHand' \subseteq InHand
    BY <1>1, <2>1, <2>2, <2>4 DEF q
  <2>6. UNCHANGED <<chunks, cache>>
    BY <1>5 DEF StoreVector
  <2>7. Stored' = Stored /\ Top' = Top /\ \A i : TextOf(chunks[i])' = TextOf(chunks[i])
    BY <2>6 DEF Stored, Top, TextOf
  <2>8. \A i \in Ids : vectors'[i] = IF i = j.id THEN j.of ELSE vectors[i]
    BY <2>1 DEF TypeInv
  <2>9. \A i \in Ids : vectors'[i] # NoText \/ cache'[i] # NoEntry => i <= Top'
    BY <2>3, <2>6, <2>7, <2>8 DEF VectorInv
  <2>10. \A k \in InHand' : k.id <= Top' /\ (k.id \in Stored' => k.of = TextOf(chunks[k.id])')
    BY <2>5, <2>7 DEF VectorInv
  <2>11. \A i \in Stored : i \in Ids
    BY DEF Stored
  <2>12. VectorsMatchTexts'
    BY <2>3, <2>6, <2>7, <2>8, <2>11 DEF VectorsMatchTexts, VectorInv
  <2> QED BY <2>9, <2>10, <2>12 DEF VectorInv
<1>6. CASE CacheVector
  <2> DEFINE j == r.job
             q == [r EXCEPT !.pc = "embed", !.job = NoJob]
  <2>1. j \in InHand /\ j.id \in Ids
    BY <1>0, <1>6 DEF CacheVector, InHand, TypeInv, Placed
  <2>2. j.id <= Top /\ (j.id \in Stored => j.of = TextOf(chunks[j.id]))
    BY <2>1 DEF VectorInv
  <2>3. Goes("index", q)
    BY <1>6 DEF CacheVector
  <2>4. q.pc # "cache" /\ q.jobs \subseteq InHand
    BY <1>0 DEF ProcRecords, InHand
  <2> HIDE DEF q
  <2>5. InHand' \subseteq InHand
    BY <1>1, <2>3, <2>4
  <2>6. UNCHANGED <<chunks, vectors>>
    BY <1>6 DEF CacheVector
  <2>7. Stored' = Stored /\ Top' = Top /\ \A i : TextOf(chunks[i])' = TextOf(chunks[i])
    BY <2>6 DEF Stored, Top, TextOf
  <2>8. \A i \in Ids : i # j.id => cache'[i] = cache[i]
    BY <1>6 DEF CacheVector, TypeInv
  <2>9. cache'[j.id].of = j.of
    BY <1>6, <2>1 DEF CacheVector, TypeInv
  <2>10. \A i \in Ids : vectors'[i] # NoText \/ cache'[i] # NoEntry => i <= Top'
    BY <2>2, <2>6, <2>7, <2>8 DEF VectorInv
  <2>11. \A k \in InHand' : k.id <= Top' /\ (k.id \in Stored' => k.of = TextOf(chunks[k.id])')
    BY <2>5, <2>7 DEF VectorInv
  <2>12. \A i \in Stored : i \in Ids
    BY DEF Stored
  <2> HIDE DEF j
  <2>13. VectorsMatchTexts'
    BY <2>2, <2>6, <2>7, <2>8, <2>9, <2>12 DEF VectorsMatchTexts, VectorInv
  <2> QED BY <2>10, <2>11, <2>13 DEF VectorInv
<1>7. CASE EndEmbed
  <2>1. Goes("index", Idle) /\ UNCHANGED <<chunks, vectors, cache>>
    BY <1>7 DEF EndEmbed
  <2>2. InHand' \subseteq InHand
    BY <1>1, <2>1 DEF Idle
  <2> QED BY <2>1, <2>2, ChunksKept
<1> QED BY <1>2, <1>3, <1>4, <1>5, <1>6, <1>7

LEMMA FailsVectors ==
    ASSUME TypeInv, VectorInv, NEW x \in Procs, Fails(x)
    PROVE  VectorInv'
<1>0. proc[x] \in ProcRecords
  BY DEF TypeInv
<1> DEFINE refreshed == [proc[x] EXCEPT !.pc = "idle", !.refresh = FALSE, !.snap = <<>>]
           done == Done(x, proc[x])
<1>1. UNCHANGED <<chunks, vectors, cache>>
  BY DEF Fails
<1>2. Goes(x, done) \/ Goes(x, refreshed) \/ Goes(x, Idle)
  BY DEF Fails
<1>3. done.pc # "cache" /\ done.jobs = proc[x].jobs
  BY <1>0 DEF Done, ProcRecords
<1>4. refreshed.pc # "cache" /\ refreshed.jobs = proc[x].jobs
  BY <1>0 DEF ProcRecords
<1>5. Idle.pc # "cache" /\ Idle.jobs = {}
  BY DEF Idle
<1>6. x = "index" => proc[x].jobs \subseteq InHand
  BY DEF InHand
<1> HIDE DEF done, refreshed
<1>7. InHand' \subseteq InHand
  <2>1. CASE Goes(x, done)
    BY <1>3, <1>6, <2>1, HandKept
  <2>2. CASE Goes(x, refreshed)
    BY <1>4, <1>6, <2>2, HandKept
  <2>3. CASE Goes(x, Idle)
    BY <1>5, <2>3, HandKept
  <2> QED BY <1>2, <2>1, <2>2, <2>3
<1> QED BY <1>1, <1>7, ChunksKept

LEMMA RestartVectors ==
    ASSUME TypeInv, VectorInv, Restart
    PROVE  VectorInv'
<1>1. UNCHANGED <<chunks, vectors>>
  BY DEF Restart
<1>2. Stored' = Stored /\ Top' = Top /\ \A i : TextOf(chunks[i])' = TextOf(chunks[i])
  BY <1>1 DEF Stored, Top, TextOf
<1>3. InHand' = {}
  BY DEF Restart, InHand, Idle, Procs
<1>4. ASSUME NEW i \in Ids, cache'[i] # NoEntry
      PROVE  i \in Stored /\ cache'[i].of = vectors[i] /\ vectors[i] # NoText
  BY <1>4 DEF Restart
<1>5. \A i \in Ids : vectors'[i] # NoText \/ cache'[i] # NoEntry => i <= Top'
  BY <1>1, <1>2, <1>4 DEF VectorInv
<1>6. \A i \in Stored : i \in Ids
  BY DEF Stored
<1>7. VectorsMatchTexts'
  BY <1>1, <1>2, <1>4, <1>6 DEF VectorsMatchTexts, VectorInv
<1> QED BY <1>3, <1>5, <1>7 DEF VectorInv

LEMMA InitVectors == Init => VectorInv
<1> SUFFICES ASSUME Init PROVE VectorInv
  OBVIOUS
<1>1. \A i \in Ids : chunks[i] = NoChunk /\ vectors[i] = NoText /\ cache[i] = NoEntry
  BY DEF Init
<1>2. InHand = {}
  BY DEF Init, InHand, Idle, Procs
<1> QED BY <1>1, <1>2 DEF VectorInv, VectorsMatchTexts, Stored

LEMMA StepVectors ==
    ASSUME TypeInv, TypeInv', VectorInv, [IdsGrow]_vars, [Next]_vars
    PROVE  VectorInv'
<1>1. CASE UNCHANGED vars
  <2>1. InHand' = InHand
    BY <1>1 DEF InHand, vars
  <2> QED BY <1>1, <2>1, ChunksKept DEF vars
<1>2. CASE Next /\ IdsGrow
  <2>1. CASE \E x \in Procs : Rebuild(x)
    BY <1>2, <2>1, RebuildVectors
  <2>2. CASE \A x \in Procs : ~Rebuild(x)
    <3>1. ASSUME NEW w \in Writers, Write(w) \/ Proceed(w) PROVE VectorInv'
      BY <2>2, <3>1, WriterVectors DEF Procs
    <3>2. CASE IndexLoop
      BY <2>2, <3>2, LoopVectors DEF IndexLoop, Procs
    <3>3. ASSUME NEW x \in Procs, Fails(x) PROVE VectorInv'
      BY <3>3, FailsVectors
    <3>4. CASE Restart
      BY <3>4, RestartVectors
    <3> QED BY <1>2, <3>1, <3>2, <3>3, <3>4 DEF Next
  <2> QED BY <2>1, <2>2
<1> QED BY <1>1, <1>2

\* As long as the largest row id never falls, nothing overtakes a batch.
LEMMA VectorsStay == Spec /\ [][IdsGrow]_vars => []VectorsMatchTexts
<1>1. Init => TypeInv /\ VectorInv
  BY InitType, InitVectors
<1>2. TypeInv /\ [Next]_vars => TypeInv'
  BY NextType
<1>3. TypeInv /\ TypeInv' /\ VectorInv /\ [IdsGrow]_vars /\ [Next]_vars => VectorInv'
  BY StepVectors
<1>4. VectorInv => VectorsMatchTexts
  BY DEF VectorInv
<1> QED BY <1>1, <1>2, <1>3, <1>4, PTL DEF Spec

-----------------------------------------------------------------------------
(* Embeddings are kept. *)

\* The vectors of chunks that a step leaves where they are.
KeepsEmbeddings ==
    \A i \in Stored :
       vectors[i] # NoText /\ (\E j \in Ids : chunks'[j] = chunks[i])
          => \E j \in Ids : chunks'[j] = chunks[i] /\ vectors'[j] = vectors[i]

LEMMA RebuildKeeps ==
    ASSUME TypeInv, NEW x \in Procs, Rebuild(x)
    PROVE  KeepsEmbeddings
<1>1. CASE Commit(x)
  <2>1. proc[x].pc = "commit" /\ proc[x].page \in Pages /\ proc[x].page # 0
    BY <1>1, CommitDoes, FreshType, IndexAssumption
  <2>2. ASSUME NEW i \in Stored, i \in Leaving(x), NEW j \in Ids, chunks'[j] = chunks[i]
        PROVE  FALSE
    <3>1. chunks[i].page = proc[x].page /\ i \in Ids
      BY <2>2 DEF Leaving, Of
    <3>2. \A k \in DOMAIN Fresh(x) : Fresh(x)[k] # chunks[i]
      BY <2>2 DEF Leaving, Reusable
    <3>3. CASE j \in Taken(x)
      BY <1>1, <2>1, <2>2, <3>2, <3>3, CommitChunks, FreshType
    <3>4. CASE j \notin Taken(x)
      <4>1. chunks'[j] = IF j \in Leaving(x) THEN NoChunk ELSE chunks[j]
        BY <1>1, <3>4, CommitChunks
      <4>2. chunks[j] = chunks[i] /\ j \notin Leaving(x)
        BY <2>1, <2>2, <3>1, <4>1 DEF NoChunk
      <4> QED BY <3>1, <3>2, <4>2 DEF Leaving, Reusable, Of
    <3> QED BY <3>3, <3>4
  <2>3. ASSUME NEW i \in Stored, i \notin Leaving(x)
        PROVE  i \in Ids /\ chunks'[i] = chunks[i] /\ vectors'[i] = vectors[i]
    <3>1. i \in Ids /\ i <= Top
      BY TopType
    <3>2. chunks'[i] = chunks[i]
      BY <1>1, <2>3, <3>1, CommitChunks
    <3>3. vectors' = [k \in Ids |-> IF k \in Leaving(x) THEN NoText ELSE vectors[k]]
      BY <1>1, CommitDoes
    <3> QED BY <2>3, <3>1, <3>2, <3>3
  <2> QED BY <2>2, <2>3 DEF KeepsEmbeddings
<1>2. CASE DropPage(x)
  <2>1. \A i \in Ids : /\ chunks'[i] = IF i \in Of(proc[x].page) THEN NoChunk ELSE chunks[i]
                       /\ vectors'[i] = IF i \in Of(proc[x].page) THEN NoText ELSE vectors[i]
    BY <1>2 DEF DropPage
  <2>2. ASSUME NEW i \in Stored, i \in Of(proc[x].page), NEW j \in Ids, chunks'[j] = chunks[i]
        PROVE  FALSE
    BY <2>1, <2>2 DEF Stored, Of, NoChunk
  <2> QED BY <2>1, <2>2 DEF Stored, KeepsEmbeddings
<1>3. CASE ReadPage(x) \/ ReadDigest(x) \/ Forget(x)
  BY <1>3 DEF ReadPage, ReadDigest, Forget, Stored, KeepsEmbeddings
<1> QED BY <1>1, <1>2, <1>3 DEF Rebuild

(***************************************************************************)
(* A job is of a chunk without a vector, also when the chunk's id has come *)
(* to be another one's: what StoreVector overwrites is never a vector.     *)
(***************************************************************************)
JobsInv ==
    \A j \in proc["index"].jobs :
       /\ vectors[j.id] = NoText
       /\ \A k \in proc["index"].jobs : j.id = k.id => j = k

\* Steps that store no vector and take up no jobs.
LEMMA JobsKept ==
    ASSUME TypeInv, JobsInv, proc'["index"].jobs \subseteq proc["index"].jobs,
           \A i \in Ids : vectors'[i] \in {vectors[i], NoText}
    PROVE  JobsInv'
<1>1. \A j \in proc["index"].jobs : j.id \in Ids
  BY DEF TypeInv, Placed, Procs
<1> QED BY <1>1 DEF JobsInv

LEMMA LoopJobs ==
    ASSUME TypeInv, JobsInv,
           ListStale \/ ReindexStale \/ ListPending \/ StoreVector \/ CacheVector \/ EndEmbed
    PROVE  JobsInv'
<1>0. "index" \in Procs /\ proc["index"] \in ProcRecords /\ proc \in [Procs -> ProcRecords]
  BY DEF TypeInv, Procs
<1> DEFINE r == proc["index"]
<1>1. CASE ListStale \/ ReindexStale \/ CacheVector \/ EndEmbed
  <2>1. vectors' = vectors
    BY <1>1 DEF ListStale, ReindexStale, CacheVector, EndEmbed
  <2>2. \A s : [r EXCEPT !.pc = "stale", !.ids = s].jobs = r.jobs
    BY <1>0 DEF ProcRecords
  <2>4. [r EXCEPT !.pc = "embed", !.job = NoJob].jobs = r.jobs /\ Idle.jobs = {}
    BY <1>0 DEF ProcRecords, Idle
  <2>5. CASE ListStale
    BY <1>0, <2>1, <2>2, <2>5, JobsKept DEF ListStale, Goes
  <2>6. CASE ReindexStale
    <3>1. PICK p \in r.ids :
            Goes("index", [r EXCEPT !.pc = "read", !.page = p, !.ids = @ \ {p}])
      BY <2>6 DEF ReindexStale
    <3>2. [r EXCEPT !.pc = "read", !.page = p, !.ids = @ \ {p}].jobs = r.jobs
      BY <1>0 DEF ProcRecords
    <3> QED BY <1>0, <2>1, <3>1, <3>2, JobsKept DEF Goes
  <2>7. CASE CacheVector
    BY <1>0, <2>1, <2>4, <2>7, JobsKept DEF CacheVector, Goes
  <2>8. CASE EndEmbed
    BY <1>0, <2>1, <2>4, <2>8, JobsKept DEF EndEmbed, Goes
  <2> QED BY <1>1, <2>5, <2>6, <2>7, <2>8
<1>2. CASE ListPending
  <2>1. PICK batch \in Limited(Batch, Pending) :
          Goes("index", [r EXCEPT !.pc = "embed", !.jobs = {JobOf(i) : i \in batch}])
    BY <1>2 DEF ListPending
  <2>2. \A i \in batch : vectors[i] = NoText
    BY <2>1 DEF Limited, kSubset, Pending
  <2>3. proc'["index"].jobs = {JobOf(i) : i \in batch}
    BY <1>0, <2>1 DEF Goes, ProcRecords
  <2>4. vectors' = vectors
    BY <1>2 DEF ListPending
  <2> QED BY <2>2, <2>3, <2>4 DEF JobsInv, JobOf
<1>3. CASE StoreVector
  <2>1. PICK j \in r.jobs :
          /\ vectors' = [vectors EXCEPT ![j.id] = j.of]
          /\ Goes("index", [r EXCEPT !.pc = "cache", !.jobs = @ \ {j}, !.job = j])
    BY <1>3 DEF StoreVector
  <2>2. proc'["index"].jobs = r.jobs \ {j}
    BY <1>0, <2>1 DEF Goes, ProcRecords
  <2>3. \A k \in r.jobs \ {j} : k.id # j.id
    BY <2>1 DEF JobsInv
  <2>4. \A k \in r.jobs : k.id \in Ids
    BY <1>0 DEF TypeInv, Placed
  <2>5. \A k \in r.jobs \ {j} : vectors'[k.id] = NoText
    BY <2>1, <2>3, <2>4 DEF JobsInv, TypeInv
  <2> QED BY <2>2, <2>5 DEF JobsInv
<1> QED BY <1>1, <1>2, <1>3

LEMMA StepJobs == TypeInv /\ JobsInv /\ [Next]_vars => JobsInv'
<1> SUFFICES ASSUME TypeInv, JobsInv, [Next]_vars PROVE JobsInv'
  OBVIOUS
<1>0. proc \in [Procs -> ProcRecords] /\ "index" \in Procs
  BY DEF TypeInv, Procs
<1>1. ASSUME NEW x \in Procs, Rebuild(x) PROVE JobsInv'
  <2>1. \A i \in Ids : vectors'[i] \in {vectors[i], NoText}
    BY <1>1 DEF Rebuild, ReadPage, ReadDigest, Commit, DropPage, Forget, TypeInv
  <2>2. PICK r : Goes(x, r) /\ r.jobs = proc[x].jobs
    <3>0. proc[x] \in ProcRecords
      BY <1>0
    <3>1. ASSUME ReadPage(x) PROVE \E r : Goes(x, r) /\ r.jobs = proc[x].jobs
      <4>1. [proc[x] EXCEPT !.pc = "drop"].jobs = proc[x].jobs
        BY <3>0 DEF ProcRecords
      <4> DEFINE d == [proc[x] EXCEPT !.pc = "drop"]
                 r == [proc[x] EXCEPT !.pc = "digest", !.body = pages[proc[x].page].body,
                                      !.meta = <<pages[proc[x].page].meta, 0>>]
      <4>2. r.jobs = proc[x].jobs
        BY <3>0 DEF ProcRecords
      <4>3. Goes(x, d) \/ Goes(x, r)
        BY <3>1 DEF ReadPage
      <4> HIDE DEF d, r
      <4> QED BY <4>1, <4>2, <4>3 DEF d
    <3>2. ASSUME ReadDigest(x) PROVE \E r : Goes(x, r) /\ r.jobs = proc[x].jobs
      <4> DEFINE r == [proc[x] EXCEPT !.pc = "commit", !.meta = <<@[1], pages[proc[x].page].meta>>]
      <4>1. r.jobs = proc[x].jobs
        BY <3>0 DEF ProcRecords
      <4>2. Goes(x, r)
        BY <3>2 DEF ReadDigest
      <4> HIDE DEF r
      <4> QED BY <4>1, <4>2
    <3>3. Done(x, proc[x]).jobs = proc[x].jobs
      BY <3>0 DEF Done, ProcRecords
    <3>4. \A g : [proc[x] EXCEPT !.pc = "forget", !.gone = g].jobs = proc[x].jobs
      BY <3>0 DEF ProcRecords
    <3>6. ASSUME Commit(x) PROVE \E r : Goes(x, r) /\ r.jobs = proc[x].jobs
      BY <3>3, <3>4, <3>6, CommitDoes, Zenon
    <3>7. ASSUME DropPage(x) PROVE \E r : Goes(x, r) /\ r.jobs = proc[x].jobs
      <4> DEFINE r == [proc[x] EXCEPT !.pc = "forget", !.gone = Of(proc[x].page),
                                      !.refresh = @ \/ proc[x].pc = "trashed"]
      <4>1. r.jobs = proc[x].jobs
        BY <3>0 DEF ProcRecords
      <4>2. Goes(x, r)
        BY <3>7 DEF DropPage
      <4> HIDE DEF r
      <4> QED BY <4>1, <4>2
    <3>8. ASSUME Forget(x) PROVE \E r : Goes(x, r) /\ r.jobs = proc[x].jobs
      BY <3>3, <3>8 DEF Forget
    <3> QED BY <1>1, <3>1, <3>2, <3>6, <3>7, <3>8 DEF Rebuild
  <2>3. proc'["index"].jobs = proc["index"].jobs
    BY <1>0, <2>2 DEF Goes
  <2> QED BY <2>1, <2>3, JobsKept
<1>2. ASSUME NEW w \in Writers, Write(w) \/ Proceed(w), ~Rebuild(w) PROVE JobsInv'
  <2>1. vectors' = vectors /\ w # "index"
    BY <1>2, IndexAssumption
       DEF Write, Proceed, Upsert, Return, MarkTrashed, SetContent, RefreshRead, RefreshCache
  <2>2. proc' = proc \/ \E r : Goes(w, r)
    BY <1>2
       DEF Write, Proceed, Upsert, Return, MarkTrashed, SetContent, RefreshRead, RefreshCache
  <2>3. proc'["index"] = proc["index"]
    BY <1>0, <2>1, <2>2 DEF Goes
  <2> QED BY <2>1, <2>3, JobsKept
<1>3. CASE IndexLoop
  BY <1>1, <1>3, LoopJobs DEF IndexLoop, Procs
<1>4. ASSUME NEW x \in Procs, Fails(x) PROVE JobsInv'
  <2>1. vectors' = vectors
    BY <1>4 DEF Fails
  <2>2. PICK r : Goes(x, r) /\ r.jobs \subseteq proc[x].jobs
    <3> DEFINE refreshed == [proc[x] EXCEPT !.pc = "idle", !.refresh = FALSE, !.snap = <<>>]
    <3>1. Goes(x, Done(x, proc[x])) \/ Goes(x, refreshed) \/ Goes(x, Idle)
      BY <1>4 DEF Fails
    <3>2. Done(x, proc[x]).jobs = proc[x].jobs /\ refreshed.jobs = proc[x].jobs /\ Idle.jobs = {}
      BY <1>0 DEF Done, Idle, ProcRecords
    <3> HIDE DEF refreshed
    <3> QED BY <3>1, <3>2
  <2>3. proc'["index"].jobs \subseteq proc["index"].jobs
    BY <1>0, <2>2 DEF Goes
  <2> QED BY <2>1, <2>3, JobsKept
<1>5. CASE Restart
  BY <1>5 DEF Restart, JobsInv, Idle, Procs
<1>6. CASE UNCHANGED vars
  BY <1>6 DEF vars, JobsInv
<1> QED BY <1>1, <1>2, <1>3, <1>4, <1>5, <1>6 DEF Next, Procs

LEMMA StepKeeps ==
    ASSUME TypeInv, JobsInv, [Next]_vars
    PROVE  [KeepsEmbeddings]_vars
<1>1. ASSUME UNCHANGED <<chunks, vectors>> PROVE KeepsEmbeddings
  BY <1>1 DEF KeepsEmbeddings, Stored
<1>2. ASSUME NEW x \in Procs, Rebuild(x) PROVE KeepsEmbeddings
  BY <1>2, RebuildKeeps
<1>3. ASSUME NEW w \in Writers, Write(w) \/ Proceed(w) PROVE KeepsEmbeddings
  BY <1>1, <1>2, <1>3
     DEF Write, Proceed, Upsert, Return, MarkTrashed, SetContent, RefreshRead, RefreshCache, Procs
<1>4. CASE StoreVector
  <2>1. PICK j \in proc["index"].jobs : vectors' = [vectors EXCEPT ![j.id] = j.of]
    BY <1>4 DEF StoreVector
  <2>2. vectors[j.id] = NoText
    BY <2>1 DEF JobsInv
  <2>3. \A i \in Stored : vectors[i] # NoText => vectors'[i] = vectors[i]
    BY <2>1, <2>2 DEF TypeInv, Stored
  <2>4. chunks' = chunks
    BY <1>4 DEF StoreVector
  <2> QED BY <2>3, <2>4 DEF KeepsEmbeddings, Stored
<1>5. CASE IndexLoop
  BY <1>1, <1>2, <1>4, <1>5
     DEF IndexLoop, ListStale, ReindexStale, ListPending, CacheVector, EndEmbed, Procs
<1>6. CASE Restart \/ \E x \in Procs : Fails(x)
  BY <1>1, <1>6 DEF Restart, Fails
<1> QED BY <1>3, <1>5, <1>6 DEF Next

(***************************************************************************)
(* A chunk whose text is unchanged keeps its embedding, as Reindex's       *)
(* comment says, with the row ids the code has: a commit deletes no chunk  *)
(* whose text it writes, and a StoreVector that comes late fills the place *)
(* of a chunk without a vector, whosever the place is by then.             *)
(***************************************************************************)
THEOREM EmbeddingsStay == Spec => EmbeddingsKept
<1>1. Init => JobsInv
  BY DEF Init, JobsInv, Idle, Procs
<1>2. TypeInv /\ JobsInv /\ [Next]_vars => [KeepsEmbeddings]_vars
  BY StepKeeps
<1>3. [][KeepsEmbeddings]_vars => EmbeddingsKept
  BY DEF KeepsEmbeddings, EmbeddingsKept
<1> QED BY <1>1, <1>2, <1>3, StepJobs, TypeInvariant, PTL DEF Spec

-----------------------------------------------------------------------------
(* Only what is overtaken goes wrong. *)

WrongIfOvertaken == \A i \in Ids : WellFiled(i) /\ ~Overtaken(i) => WellFiled(i)' \/ Overtaken(i)'

\* A goroutine that has nothing to forget goes on: what others have to, stays.
LEMMA StillToForget ==
    ASSUME TypeInv, NEW x \in Procs, proc[x].pc # "forget", NEW r, Goes(x, r), NEW i, ToForget(i)
    PROVE  ToForget(i)'
<1>1. PICK y \in Procs : proc[y].pc = "forget" /\ i \in proc[y].gone
  BY DEF ToForget
<1>2. proc'[y] = proc[y]
  BY <1>1 DEF Goes, TypeInv
<1> QED BY <1>1, <1>2 DEF ToForget

\* Steps that leave the chunks alone, and in vectors and cache what they leave at all.
LEMMA OrderKept ==
    ASSUME UNCHANGED chunks, NEW i \in Ids, WellFiled(i), ToForget(i) => ToForget(i)',
           vectors'[i] \in {vectors[i], NoText},
           cache'[i] # NoEntry => cache[i] # NoEntry /\ cache'[i].of = cache[i].of
    PROVE  WellFiled(i)'
BY DEF WellFiled, Stored, TextOf

\* A step that touches one goroutine and no table of the index.
LEMMA OrderGoes ==
    ASSUME TypeInv, UNCHANGED <<chunks, vectors, cache>>, NEW i \in Ids, WellFiled(i),
           NEW x \in Procs, proc[x].pc # "forget", NEW r, Goes(x, r)
    PROVE  WellFiled(i)'
<1>1. ToForget(i) => ToForget(i)'
  BY StillToForget
<1> QED BY <1>1, OrderKept

LEMMA CommitOrder ==
    ASSUME TypeInv, NEW x \in Procs, Commit(x), NEW i \in Ids, WellFiled(i)
    PROVE  WellFiled(i)'
<1>1. vectors' = [k \in Ids |-> IF k \in Leaving(x) THEN NoText ELSE vectors[k]] /\ cache' = cache
  BY CommitDoes
<1>2. CASE i \in Leaving(x)
  <2> DEFINE r == [proc[x] EXCEPT !.pc = "forget", !.gone = Leaving(x)]
  <2>1. Goes(x, r)
    BY <1>2, CommitDoes
  <2>2. r.pc = "forget" /\ r.gone = Leaving(x) /\ proc'[x] = r
    BY <2>1 DEF Goes, TypeInv, ProcRecords
  <2>3. ToForget(i)' /\ vectors'[i] = NoText
    BY <1>1, <1>2, <2>2 DEF ToForget
  <2> QED BY <2>3 DEF WellFiled
<1>3. CASE i \notin Leaving(x)
  <2>1. PICK r : Goes(x, r)
    BY CommitDoes
  <2>2. ToForget(i) => ToForget(i)'
    BY <2>1, CommitDoes, StillToForget
  <2>3. vectors'[i] = vectors[i] /\ cache'[i] = cache[i]
    BY <1>1, <1>3
  <2>4. i \in Stored => chunks'[i] = chunks[i]
    BY <1>3, CommitChunks, TopType
  <2>5. i \notin Stored => vectors[i] = NoText
    BY DEF WellFiled
  <2>6. i \in Stored => i \in Stored'
    BY <2>4 DEF Stored
  <2> QED BY <2>2, <2>3, <2>4, <2>5, <2>6 DEF WellFiled, TextOf
<1> QED BY <1>2, <1>3

LEMMA DropOrder ==
    ASSUME TypeInv, NEW x \in Procs, DropPage(x), NEW i \in Ids, WellFiled(i)
    PROVE  WellFiled(i)'
<1> DEFINE r == [proc[x] EXCEPT !.pc = "forget", !.gone = Of(proc[x].page),
                                !.refresh = @ \/ proc[x].pc = "trashed"]
<1>1. Goes(x, r) /\ proc[x].pc # "forget"
  BY DEF DropPage
<1>2. r.pc = "forget" /\ r.gone = Of(proc[x].page) /\ proc'[x] = r
  BY <1>1 DEF Goes, TypeInv, ProcRecords
<1> HIDE DEF r
<1>3. CASE i \in Of(proc[x].page)
  <2>1. ToForget(i)' /\ vectors'[i] = NoText
    BY <1>2, <1>3 DEF ToForget, DropPage
  <2> QED BY <2>1 DEF WellFiled
<1>4. CASE i \notin Of(proc[x].page)
  <2>1. ToForget(i) => ToForget(i)'
    BY <1>1, StillToForget
  <2>2. chunks'[i] = chunks[i] /\ vectors'[i] = vectors[i] /\ cache'[i] = cache[i]
    BY <1>4 DEF DropPage
  <2> QED BY <2>1, <2>2 DEF WellFiled, Stored, TextOf
<1> QED BY <1>3, <1>4

\* Forgetting takes out of the cache what the goroutine had to forget, and nothing else.
LEMMA ForgetOrder ==
    ASSUME TypeInv, NEW x \in Procs, Forget(x), NEW i \in Ids, WellFiled(i)
    PROVE  WellFiled(i)'
<1>1. UNCHANGED <<chunks, vectors>> /\ cache'[i] \in {cache[i], NoEntry}
  BY DEF Forget
<1>2. CASE i \in proc[x].gone
  <2>1. cache'[i] = NoEntry
    BY <1>2 DEF Forget
  <2> QED BY <1>1, <2>1 DEF WellFiled, Stored, TextOf
<1>3. CASE i \notin proc[x].gone
  <2>1. ASSUME ToForget(i) PROVE ToForget(i)'
    <3>1. PICK y \in Procs : proc[y].pc = "forget" /\ i \in proc[y].gone
      BY <2>1 DEF ToForget
    <3>2. y # x
      BY <1>3, <3>1
    <3>3. proc'[y] = proc[y]
      BY <3>2 DEF Forget, Goes, TypeInv
    <3> QED BY <3>1, <3>3 DEF ToForget
  <2> QED BY <1>1, <2>1, OrderKept
<1> QED BY <1>2, <1>3

LEMMA WriterOrder ==
    ASSUME TypeInv, NEW w \in Writers, Write(w) \/ Proceed(w), ~Rebuild(w),
           NEW i \in Ids, WellFiled(i)
    PROVE  WellFiled(i)'
<1>0. w \in Procs
  BY DEF Procs
<1>1. CASE RefreshCache(w)
  <2> DEFINE Gone(e) == \/ e.page = 0 \/ ~proc[w].snap[e.page].known
                        \/ proc[w].snap[e.page].trash
             kept == [cache[i] EXCEPT !.edited = proc[w].snap[cache[i].page].edited]
  <2>1. cache'[i] = IF Gone(cache[i]) THEN NoEntry ELSE kept
    BY <1>1 DEF RefreshCache
  <2>2. cache[i] \in Entries
    BY DEF TypeInv
  <2>3. kept.of = cache[i].of
    BY <2>2 DEF Entries
  <2>4. cache'[i] # NoEntry => cache[i] # NoEntry
    BY <2>1 DEF NoEntry
  <2> HIDE DEF Gone, kept
  <2>5. cache'[i] # NoEntry => cache'[i].of = cache[i].of
    BY <2>1, <2>3
  <2>6. UNCHANGED <<chunks, vectors>> /\ proc[w].pc # "forget" /\ \E r : Goes(w, r)
    BY <1>1 DEF RefreshCache
  <2>7. ToForget(i) => ToForget(i)'
    BY <1>0, <2>6, StillToForget
  <2> QED BY <2>4, <2>5, <2>6, <2>7, OrderKept
<1>2. CASE \E p \in Pages : Upsert(w, p) \/ Return(w, p)
  <2>1. UNCHANGED <<chunks, vectors, cache, proc>>
    BY <1>2 DEF Upsert, Return
  <2> QED BY <2>1, OrderKept DEF ToForget
<1>3. ASSUME \/ RefreshRead(w)
             \/ \E p \in Pages : MarkTrashed(w, p) \/ SetContent(w, p)
      PROVE  WellFiled(i)'
  <2>1. UNCHANGED <<chunks, vectors, cache>> /\ proc[w].pc # "forget" /\ \E r : Goes(w, r)
    BY <1>3 DEF RefreshRead, MarkTrashed, SetContent
  <2> QED BY <1>0, <2>1, OrderGoes
<1> QED BY <1>1, <1>2, <1>3 DEF Write, Proceed

LEMMA LoopOrder ==
    ASSUME TypeInv, NEW i \in Ids, WellFiled(i), ~Overtaken(i),
           ListStale \/ ReindexStale \/ ListPending \/ StoreVector \/ CacheVector \/ EndEmbed
    PROVE  WellFiled(i)'
<1>0. "index" \in Procs /\ proc["index"].pc # "forget" /\ \E r : Goes("index", r)
  BY DEF ListStale, ReindexStale, ListPending, StoreVector, CacheVector, EndEmbed, Procs
<1>1. ToForget(i) => ToForget(i)'
  BY <1>0, StillToForget
<1>2. ASSUME NEW j \in InHand, j.id = i PROVE i \in Stored /\ j.of = TextOf(chunks[i])
  BY <1>2 DEF Overtaken
<1>3. CASE StoreVector
  <2>1. PICK j \in proc["index"].jobs : vectors' = [vectors EXCEPT ![j.id] = j.of]
    BY <1>3 DEF StoreVector
  <2>2. UNCHANGED <<chunks, cache>>
    BY <1>3 DEF StoreVector
  <2>3. CASE j.id = i
    <3>1. vectors'[i] = j.of
      BY <2>1, <2>3 DEF TypeInv
    <3>2. i \in Stored /\ j.of = TextOf(chunks[i])
      BY <1>2, <2>1, <2>3 DEF InHand
    <3> QED BY <1>1, <2>2, <3>1, <3>2 DEF WellFiled, Stored, TextOf
  <2>4. CASE j.id # i
    <3>1. vectors'[i] = vectors[i]
      BY <2>1, <2>4 DEF TypeInv
    <3> QED BY <1>1, <2>2, <3>1, OrderKept
  <2> QED BY <2>3, <2>4
<1>4. CASE CacheVector
  <2> DEFINE j == proc["index"].job
             e == [page |-> j.page, of |-> j.of, edited |-> j.edited]
  <2>1. j \in InHand
    BY <1>4 DEF CacheVector, InHand
  <2>2. UNCHANGED <<chunks, vectors>> /\ cache' = [cache EXCEPT ![j.id] = e]
    BY <1>4 DEF CacheVector
  <2>3. e.of = j.of
    OBVIOUS
  <2> HIDE DEF j, e
  <2>4. CASE j.id = i
    <3>1. cache'[i].of = j.of
      BY <2>2, <2>3, <2>4 DEF TypeInv
    <3>2. i \in Stored /\ j.of = TextOf(chunks[i])
      BY <1>2, <2>1, <2>4
    <3> QED BY <2>2, <3>1, <3>2 DEF WellFiled, Stored, TextOf
  <2>5. CASE j.id # i
    <3>1. cache'[i] = cache[i]
      BY <2>2, <2>5 DEF TypeInv
    <3> QED BY <1>1, <2>2, <3>1, OrderKept
  <2> QED BY <2>4, <2>5
<1>5. CASE ListStale \/ ReindexStale \/ ListPending \/ EndEmbed
  <2>1. UNCHANGED <<chunks, vectors, cache>>
    BY <1>5 DEF ListStale, ReindexStale, ListPending, EndEmbed
  <2> QED BY <1>0, <2>1, OrderGoes
<1> QED BY <1>3, <1>4, <1>5

LEMMA StepOrder ==
    ASSUME TypeInv, [Next]_vars, NEW i \in Ids, WellFiled(i), ~Overtaken(i)
    PROVE  WellFiled(i)'
<1>1. ASSUME NEW x \in Procs, Rebuild(x) PROVE WellFiled(i)'
  <2>1. CASE ReadPage(x) \/ ReadDigest(x)
    <3>1. UNCHANGED <<chunks, vectors, cache>> /\ proc[x].pc # "forget" /\ \E r : Goes(x, r)
      BY <2>1 DEF ReadPage, ReadDigest
    <3> QED BY <3>1, OrderGoes
  <2> QED BY <1>1, <2>1, CommitOrder, DropOrder, ForgetOrder DEF Rebuild
<1>2. ASSUME NEW w \in Writers, Write(w) \/ Proceed(w) PROVE WellFiled(i)'
  BY <1>1, <1>2, WriterOrder DEF Procs
<1>3. CASE IndexLoop
  BY <1>1, <1>3, LoopOrder DEF IndexLoop, Procs
<1>4. CASE Restart
  <2>1. UNCHANGED <<chunks, vectors>>
    BY <1>4 DEF Restart
  <2>2. cache'[i] # NoEntry =>
          i \in Stored /\ vectors[i] # NoText /\ cache'[i].of = vectors[i]
    BY <1>4 DEF Restart
  <2> QED BY <2>1, <2>2 DEF WellFiled, Stored, TextOf
<1>5. ASSUME NEW x \in Procs, Fails(x) PROVE WellFiled(i)'
  <2>1. UNCHANGED <<chunks, vectors, cache>> /\ proc[x].pc # "forget" /\ \E r : Goes(x, r)
    BY <1>5 DEF Fails
  <2> QED BY <2>1, OrderGoes
<1>6. CASE UNCHANGED vars
  BY <1>6, OrderKept DEF vars, ToForget
<1> QED BY <1>2, <1>3, <1>4, <1>5, <1>6 DEF Next

(***************************************************************************)
(* With the plain rowids the code has, and any number of goroutines that   *)
(* reindex and drop pages, fail and start again, a row id gets out of      *)
(* order only while the index goroutine has in hand a text that is no      *)
(* longer its chunk's.  As nothing is out of order at first, that is how   *)
(* every wrong vector came about.                                          *)
(***************************************************************************)
THEOREM WrongOnlyIfOvertaken == Spec => OnlyOvertakenGoWrong
<1>1. TypeInv /\ [Next]_vars => [WrongIfOvertaken]_vars
  BY StepOrder DEF WrongIfOvertaken
<1>2. [][WrongIfOvertaken]_vars => OnlyOvertakenGoWrong
  BY DEF WrongIfOvertaken, OnlyOvertakenGoWrong
<1> QED BY <1>1, <1>2, TypeInvariant, PTL DEF Spec

-----------------------------------------------------------------------------
(* Whole pages, and ids that grow. *)

\* The chunks of page p are those of body b with the properties m.
IsWhole(p, m, b) ==
    LET s == BuildChunks(p, m, b) IN
    /\ \A i \in Of(p) : \E k \in DOMAIN s : chunks[i] = s[k]
    /\ \A k \in DOMAIN s : \E i \in Of(p) : chunks[i] = s[k]

PagesAreWhole ==
    \A p \in Pages : Of(p) = {} \/ \E m \in Metas, b \in Bodies \cup {0} : IsWhole(p, m, b)

LEMMA WholeKept ==
    ASSUME PagesAreWhole, UNCHANGED chunks
    PROVE  PagesAreWhole'
BY DEF PagesAreWhole, IsWhole, Of

\* A commit leaves the chunks of its page p as they have been built, those of
\* another page q alone.
LEMMA CommitPage ==
    ASSUME TypeInv, NEW x \in Procs, Commit(x),
           NEW p, p = proc[x].page, NEW m, m = proc[x].meta, NEW b, b = proc[x].body
    PROVE  /\ \A q \in Pages \ {p} : Of(q)' = Of(q) /\ \A i \in Of(q) : chunks'[i] = chunks[i]
           /\ IsWhole(p, m, b)'
<1>1. proc[x].pc = "commit" /\ p \in Pages /\ p # 0
  BY CommitDoes, FreshType, IndexAssumption
<1>2. m \in Metas /\ b \in Bodies \cup {0}
  BY DEF TypeInv, ProcRecords
<1>3. \A k \in DOMAIN Fresh(x) : Fresh(x)[k].page = p
  BY <1>1, FreshType, ChunkSeqsDo
<1>4. \A i \in Leaving(x) : i \in Stored /\ chunks[i].page = p
  BY <1>1 DEF Leaving, Of, Stored, NoChunk
<1>5. ASSUME NEW q \in Pages \ {p}
      PROVE  Of(q)' = Of(q) /\ \A i \in Of(q) : chunks'[i] = chunks[i]
  <2>1. q # 0
    BY IndexAssumption
  <2>2. ASSUME NEW i \in Ids, i \in Taken(x)
        PROVE  chunks'[i].page = p /\ i \notin Stored
    <3>1. i > Top /\ \E k \in Coming(x) : chunks'[i] = Fresh(x)[k]
      BY <2>2, CommitChunks
    <3>2. i \notin Stored
      BY <3>1, TopType DEF Ids
    <3> QED BY <1>1, <1>3, <3>1, <3>2, FreshType
  <2>3. ASSUME NEW i \in Ids, i \notin Taken(x)
        PROVE  chunks'[i] = IF i \in Leaving(x) THEN NoChunk ELSE chunks[i]
    BY <2>3, CommitChunks
  <2>4. \A i \in Ids : chunks[i].page = q => i \in Stored
    BY <2>1 DEF Stored, NoChunk
  <2>5. NoChunk.page = 0
    BY DEF NoChunk
  <2>6. \A i \in Ids : chunks'[i].page = q <=> chunks[i].page = q
    BY <1>4, <2>1, <2>2, <2>3, <2>4, <2>5
  <2>7. \A i \in Ids : chunks[i].page = q => chunks'[i] = chunks[i]
    BY <1>4, <2>2, <2>3, <2>4
  <2> QED BY <2>6, <2>7 DEF Of
<1>6. ASSUME NEW i \in Of(p)'
      PROVE  \E k \in DOMAIN Fresh(x) : chunks'[i] = Fresh(x)[k]
  <2>0. i \in Ids /\ chunks'[i].page = p
    BY <1>6 DEF Of
  <2>1. CASE i \in Taken(x)
    BY <1>1, <2>0, <2>1, CommitChunks, FreshType
  <2>2. CASE i \notin Taken(x)
    <3>1. chunks'[i] = IF i \in Leaving(x) THEN NoChunk ELSE chunks[i]
      BY <2>0, <2>2, CommitChunks
    <3>2. i \notin Leaving(x) /\ chunks'[i] = chunks[i]
      BY <1>1, <2>0, <3>1 DEF NoChunk
    <3>3. i \in Of(p)
      BY <2>0, <3>2 DEF Of
    <3> QED BY <3>2, <3>3 DEF Leaving, Reusable
  <2> QED BY <2>1, <2>2
<1>7. ASSUME NEW k \in DOMAIN Fresh(x)
      PROVE  \E i \in Of(p)' : chunks'[i] = Fresh(x)[k]
  <2>1. CASE k \in Coming(x)
    <3>1. IdOf(x, k) \in Nat /\ IdOf(x, k) > Top /\ IdOf(x, k) <= MaxId /\ Top \in Nat
      BY <1>1, <2>1, IdsAbove, CommitDoes, TopType
    <3>2. IdOf(x, k) \in Ids /\ IdOf(x, k) \in Taken(x)
      BY <2>1, <3>1, IndexAssumption DEF Ids, Taken
    <3>3. PICK l \in Coming(x) :
            IdOf(x, l) = IdOf(x, k) /\ chunks'[IdOf(x, k)] = Fresh(x)[l]
      BY <3>2, CommitChunks
    <3>4. l = k
      BY <1>1, <2>1, <3>3, IdsAbove
    <3> QED BY <1>3, <3>2, <3>3, <3>4 DEF Of
  <2>2. CASE k \notin Coming(x)
    <3>1. PICK i \in Reusable(p, Fresh(x)) : chunks[i] = Fresh(x)[k]
      BY <2>2 DEF Coming, Added
    <3>2. i \in Of(p) /\ i \in Ids /\ i \notin Leaving(x)
      BY <3>1 DEF Reusable, Leaving, Of
    <3>3. i \in Stored
      BY <1>1, <3>2 DEF Of, Stored, NoChunk
    <3>4. i \notin Taken(x)
      BY <3>2, <3>3, CommitChunks, TopType DEF Ids
    <3>5. chunks'[i] = chunks[i]
      BY <3>2, <3>4, CommitChunks
    <3> QED BY <3>1, <3>2, <3>5 DEF Of
  <2> QED BY <2>1, <2>2
<1>8. Fresh(x) = BuildChunks(p, m, b)
  BY DEF Fresh
<1>9. IsWhole(p, m, b)'
  <2>1. \A i \in Of(p)' : \E k \in DOMAIN BuildChunks(p, m, b) :
           chunks'[i] = BuildChunks(p, m, b)[k]
    BY <1>6, <1>8
  <2>2. \A k \in DOMAIN BuildChunks(p, m, b) : \E i \in Of(p)' :
           chunks'[i] = BuildChunks(p, m, b)[k]
    BY <1>7, <1>8
  <2>3. BuildChunks(p, m, b)' = BuildChunks(p, m, b)
    BY DEF BuildChunks
  <2> QED BY <2>1, <2>2, <2>3 DEF IsWhole
<1> QED BY <1>5, <1>9

LEMMA CommitWhole ==
    ASSUME TypeInv, PagesAreWhole, NEW x \in Procs, Commit(x)
    PROVE  PagesAreWhole'
<1>1. PICK p, m, b : p = proc[x].page /\ m = proc[x].meta /\ b = proc[x].body
  OBVIOUS
<1>2. m \in Metas /\ b \in Bodies \cup {0}
  BY <1>1 DEF TypeInv, ProcRecords
<1>3. /\ \A q \in Pages \ {p} : Of(q)' = Of(q) /\ \A i \in Of(q) : chunks'[i] = chunks[i]
      /\ IsWhole(p, m, b)'
  BY <1>1, CommitPage
<1>4. ASSUME NEW q \in Pages \ {p}, Of(q) # {}
      PROVE  \E k \in Metas, c \in Bodies \cup {0} : IsWhole(q, k, c)'
  <2>1. PICK k \in Metas, c \in Bodies \cup {0} : IsWhole(q, k, c)
    BY <1>4 DEF PagesAreWhole
  <2>2. IsWhole(q, k, c)'
    BY <1>3, <2>1 DEF IsWhole
  <2> QED BY <2>2
<1>5. ASSUME NEW q \in Pages
      PROVE  Of(q)' = {} \/ \E k \in Metas, c \in Bodies \cup {0} : IsWhole(q, k, c)'
  BY <1>2, <1>3, <1>4
<1> QED BY <1>5 DEF PagesAreWhole

\* Only a commit and a drop write to the table of chunks.
LEMMA OnlyRebuildsWrite ==
    ASSUME [Next]_vars, \A x \in Procs : ~Commit(x) /\ ~DropPage(x)
    PROVE  UNCHANGED chunks
<1>1. \A w \in Writers : w \in Procs
  BY DEF Procs
<1>2. "index" \in Procs
  BY DEF Procs
<1>3. ASSUME NEW x \in Procs, Rebuild(x) PROVE UNCHANGED chunks
  BY <1>3 DEF Rebuild, ReadPage, ReadDigest, Forget
<1>4. ASSUME NEW w \in Writers, Write(w) \/ Proceed(w) PROVE UNCHANGED chunks
  BY <1>1, <1>3, <1>4
     DEF Write, Proceed, Upsert, Return, MarkTrashed, SetContent, RefreshRead, RefreshCache
<1>5. CASE IndexLoop
  BY <1>2, <1>3, <1>5
     DEF IndexLoop, ListStale, ReindexStale, ListPending, StoreVector, CacheVector, EndEmbed
<1>6. CASE Restart \/ \E x \in Procs : Fails(x)
  BY <1>6 DEF Restart, Fails
<1>7. CASE UNCHANGED vars
  BY <1>7 DEF vars
<1> QED BY <1>4, <1>5, <1>6, <1>7 DEF Next

LEMMA StepWhole == TypeInv /\ PagesAreWhole /\ [Next]_vars => PagesAreWhole'
<1> SUFFICES ASSUME TypeInv, PagesAreWhole, [Next]_vars PROVE PagesAreWhole'
  OBVIOUS
<1>1. ASSUME NEW x \in Procs, Commit(x) PROVE PagesAreWhole'
  BY <1>1, CommitWhole
<1>2. ASSUME NEW x \in Procs, DropPage(x) PROVE PagesAreWhole'
  <2>1. PICK p : p = proc[x].page
    OBVIOUS
  <2>2. \A i \in Ids : chunks'[i] = IF i \in Of(p) THEN NoChunk ELSE chunks[i]
    BY <1>2, <2>1 DEF DropPage
  <2>3. ASSUME NEW q \in Pages, Of(q)' # {}
        PROVE  \E k \in Metas, c \in Bodies \cup {0} : IsWhole(q, k, c)'
    <3>1. NoChunk.page # q
      BY IndexAssumption DEF NoChunk
    <3>2. \A i \in Of(q)' : i \in Of(q) /\ i \notin Of(p)
      BY <2>2, <3>1 DEF Of
    <3>3. p # q
      BY <2>3, <3>2
    <3>4. Of(q)' = Of(q) /\ \A i \in Of(q) : chunks'[i] = chunks[i]
      BY <2>2, <3>2, <3>3 DEF Of
    <3>5. PICK k \in Metas, c \in Bodies \cup {0} : IsWhole(q, k, c)
      BY <2>3, <3>4 DEF PagesAreWhole
    <3>6. IsWhole(q, k, c)'
      BY <3>4, <3>5 DEF IsWhole
    <3> QED BY <3>6
  <2> QED BY <2>3 DEF PagesAreWhole
<1>3. CASE UNCHANGED chunks
  BY <1>3, WholeKept
<1> QED BY <1>1, <1>2, <1>3, OnlyRebuildsWrite

\* Bodies whose edits never only remove sections, and nothing that is deleted.
EditsReplace ==
    \A p \in Pages : \A b, c \in Bodies \cup {0} :
       SectionsOf(p, b) \subseteq SectionsOf(p, c) => SectionsOf(p, b) = SectionsOf(p, c)

NothingIsDropped ==
    /\ \A p \in Pages : ~pages[p].trash
    /\ \A x \in Procs : proc[x].pc \notin {"drop", "trashed"}

LEMMA TopNext == Top' \in Nat /\ \A i \in Stored' : i <= Top'
<1> DEFINE S == {i \in Ids : chunks'[i] # NoChunk}
<1>1. S \in SUBSET Ids /\ Top' = Max(S \cup {0}) /\ Stored' = S
  BY DEF Top, Stored
<1> HIDE DEF S
<1>2. Top' \in S \cup {0} /\ \A i \in S : i <= Top'
  BY <1>1, TopIs
<1> QED BY <1>1, <1>2 DEF Ids

\* The texts of a page's chunks are its sections, each of them once.
LEMMA TextsAreSections ==
    ASSUME NEW p, NEW m, NEW b \in Bodies \cup {0}
    PROVE  LET s == BuildChunks(p, m, b) IN
           /\ \A k \in DOMAIN s : s[k].text \in SectionsOf(p, b)
           /\ \A t \in SectionsOf(p, b) : \E k \in DOMAIN s : s[k].text = t
           /\ \A k, l \in DOMAIN s : s[k].text = s[l].text => k = l
<1> DEFINE s == BuildChunks(p, m, b)
           s1 == BuildChunks(p, NoMeta, b)
<1>1. CASE b = 0 \/ Sections[b] = <<>>
  <2>1. s = <<[page |-> p, meta |-> m, text |-> 0]>>
    BY <1>1 DEF BuildChunks
  <2>2. s1 = <<[page |-> p, meta |-> NoMeta, text |-> 0]>>
    BY <1>1 DEF BuildChunks
  <2>3. DOMAIN s = {1} /\ DOMAIN s1 = {1} /\ s[1].text = 0 /\ s1[1].text = 0
    BY <2>1, <2>2
  <2> HIDE DEF s1
  <2>4. SectionsOf(p, b) = {c.text : c \in {s1[k] : k \in DOMAIN s1}}
    BY DEF SectionsOf, s1
  <2> HIDE DEF s
  <2>5. SectionsOf(p, b) = {0}
    BY <2>3, <2>4
  <2> QED BY <2>3, <2>5 DEF s
<1>2. CASE b # 0 /\ Sections[b] # <<>>
  <2>1. DOMAIN s = DOMAIN Sections[b] /\ DOMAIN s1 = DOMAIN Sections[b]
    BY <1>2 DEF BuildChunks
  <2>2. \A k \in DOMAIN s : s[k].text = Sections[b][k] /\ s1[k].text = Sections[b][k]
    BY <1>2 DEF BuildChunks
  <2>3. b \in DOMAIN Sections
    BY <1>2 DEF Bodies
  <2>4. \A k, l \in DOMAIN Sections[b] : k # l => Sections[b][k] # Sections[b][l]
    BY <2>3, IndexAssumption
  <2>5. SectionsOf(p, b) = {c.text : c \in {s1[k] : k \in DOMAIN s1}}
    BY DEF SectionsOf
  <2> HIDE DEF s, s1
  <2>6. \A t : t \in SectionsOf(p, b) <=> \E k \in DOMAIN Sections[b] : t = Sections[b][k]
    BY <2>1, <2>2, <2>5
  <2> QED BY <2>1, <2>2, <2>4, <2>6 DEF s
<1> QED BY <1>1, <1>2

LEMMA CommitGrows ==
    ASSUME TypeInv, PagesAreWhole, EditsReplace, NEW x \in Procs, Commit(x)
    PROVE  IdsGrow
<1>1. PICK p, m, b : p = proc[x].page /\ m = proc[x].meta /\ b = proc[x].body
  OBVIOUS
<1>2. proc[x].pc = "commit" /\ p \in Pages /\ p # 0 /\ b \in Bodies \cup {0}
  BY <1>1, CommitDoes, FreshType, IndexAssumption DEF TypeInv, ProcRecords
<1>3. Fresh(x) = BuildChunks(p, m, b)
  BY <1>1 DEF Fresh
<1>4. Top \in Nat /\ Top' \in Nat
  BY TopType, TopNext
<1>5. CASE Coming(x) # {}
  <2>1. PICK k \in Coming(x) : TRUE
    BY <1>5
  <2>2. IdOf(x, k) \in Nat /\ IdOf(x, k) > Top /\ IdOf(x, k) <= MaxId
    BY <1>2, <2>1, IdsAbove, CommitDoes
  <2>3. IdOf(x, k) \in Ids /\ IdOf(x, k) \in Taken(x)
    BY <1>4, <2>1, <2>2, IndexAssumption DEF Ids, Taken
  <2>4. PICK l \in Coming(x) : chunks'[IdOf(x, k)] = Fresh(x)[l]
    BY <2>3, CommitChunks
  <2>5. Fresh(x)[l].page = p
    BY <1>1, <1>2, <2>4, FreshType, ChunkSeqsDo
  <2>6. IdOf(x, k) \in Stored'
    BY <1>2, <2>3, <2>4, <2>5 DEF Stored, NoChunk
  <2> QED BY <1>4, <2>2, <2>6, TopNext DEF IdsGrow
<1>6. CASE Coming(x) = {}
  <2>1. \A k \in DOMAIN Fresh(x) : \E i \in Of(p) : chunks[i] = Fresh(x)[k]
    BY <1>1, <1>6 DEF Coming, Added, Reusable
  <2>2. ASSUME NEW i \in Of(p)
        PROVE  \E k \in DOMAIN Fresh(x) : Fresh(x)[k] = chunks[i]
    <3>1. PICK n \in Metas, c \in Bodies \cup {0} : IsWhole(p, n, c)
      BY <1>2, <2>2 DEF PagesAreWhole
    <3>2. PICK s : s = BuildChunks(p, n, c)
      OBVIOUS
    <3>3. \A j \in Of(p) : \E l \in DOMAIN s : chunks[j] = s[l]
      BY <3>1, <3>2 DEF IsWhole
    <3>4. \A k \in DOMAIN Fresh(x) : \E l \in DOMAIN s : Fresh(x)[k] = s[l]
      BY <2>1, <3>3
    <3>5. /\ \A l \in DOMAIN s : s[l].text \in SectionsOf(p, c)
          /\ \A k, l \in DOMAIN s : s[k].text = s[l].text => k = l
      BY <3>2, TextsAreSections
    <3>6. \A t \in SectionsOf(p, b) : \E k \in DOMAIN Fresh(x) : Fresh(x)[k].text = t
      BY <1>2, <1>3, TextsAreSections
    <3>7. SectionsOf(p, b) = SectionsOf(p, c)
      <4>1. SectionsOf(p, b) \subseteq SectionsOf(p, c)
        BY <3>4, <3>5, <3>6
      <4> QED BY <1>2, <4>1 DEF EditsReplace
    <3>8. PICK l \in DOMAIN s : chunks[i] = s[l]
      BY <2>2, <3>3
    <3>9. PICK k \in DOMAIN Fresh(x) : Fresh(x)[k].text = s[l].text
      BY <3>5, <3>6, <3>7, <3>8
    <3>10. Fresh(x)[k] = s[l]
      BY <3>4, <3>5, <3>8, <3>9
    <3> QED BY <3>8, <3>10
  <2>3. Leaving(x) = {}
    BY <1>1, <2>2 DEF Leaving, Reusable, Of
  <2>4. Taken(x) = {}
    BY <1>6 DEF Taken
  <2>5. \A i \in Ids : chunks'[i] = chunks[i]
    BY <2>3, <2>4, CommitChunks
  <2>6. Stored' = Stored
    BY <2>5 DEF Stored
  <2> QED BY <1>4, <2>6 DEF Top, IdsGrow
<1> QED BY <1>5, <1>6

LEMMA StepGrows ==
    ASSUME TypeInv, PagesAreWhole, NothingIsDropped, EditsReplace, [Next]_vars
    PROVE  IdsGrow
<1>1. CASE \E x \in Procs : Commit(x)
  BY <1>1, CommitGrows
<1>2. \A x \in Procs : ~DropPage(x)
  BY DEF NothingIsDropped, DropPage
<1>3. CASE \A x \in Procs : ~Commit(x)
  <2>1. UNCHANGED chunks
    BY <1>2, <1>3, OnlyRebuildsWrite
  <2> QED BY <2>1, TopType DEF Stored, Top, IdsGrow
<1> QED BY <1>1, <1>3

LEMMA StepDropsNothing ==
    ASSUME TypeInv, Deletable = {}, NothingIsDropped, [Next]_vars
    PROVE  NothingIsDropped'
<1> DEFINE OK(r) == r.pc \notin {"drop", "trashed"}
<1>0. \A x \in Procs : proc[x] \in ProcRecords /\ OK(proc[x]) /\ OK(Done(x, proc[x]))
  BY DEF TypeInv, NothingIsDropped, Done, ProcRecords
<1>1. ASSUME NEW x \in Procs, NEW r, Goes(x, r), OK(r),
             \A p \in Pages : ~pages'[p].trash
      PROVE  NothingIsDropped'
  BY <1>1 DEF NothingIsDropped, Goes, TypeInv
<1>2. OK(Idle)
  BY DEF Idle
<1>4. ASSUME NEW w \in Writers, Write(w) \/ Proceed(w), ~Rebuild(w)
      PROVE  NothingIsDropped'
  <2>0. w \in Procs
    BY DEF Procs
  <2>1. ASSUME NEW p \in Pages, Upsert(w, p) PROVE NothingIsDropped'
    <3>1. \A q \in Pages : ~pages'[q].trash
      BY <2>1 DEF Upsert, NothingIsDropped, TypeInv, PageRows
    <3> QED BY <2>1, <3>1 DEF Upsert, NothingIsDropped
  <2>2. ASSUME NEW p \in Pages PROVE ~Return(w, p) /\ ~MarkTrashed(w, p)
    BY DEF Return, MarkTrashed, NothingIsDropped
  <2>3. ASSUME NEW p \in Pages, SetContent(w, p) PROVE NothingIsDropped'
    <3>1. \A q \in Pages : ~pages'[q].trash
      BY <2>3 DEF SetContent, NothingIsDropped, TypeInv, PageRows
    <3>2. OK([proc[w] EXCEPT !.pc = "read", !.page = p])
      BY <1>0, <2>0 DEF ProcRecords
    <3> QED BY <1>1, <2>0, <2>3, <3>1, <3>2 DEF SetContent
  <2>4. CASE RefreshRead(w)
    <3>1. OK([proc[w] EXCEPT !.pc = "refresh", !.snap = pages])
      BY <1>0, <2>0 DEF ProcRecords
    <3> QED BY <1>1, <2>0, <2>4, <3>1 DEF RefreshRead, NothingIsDropped
  <2>5. CASE RefreshCache(w)
    <3>1. OK([proc[w] EXCEPT !.pc = "idle", !.refresh = FALSE, !.snap = <<>>])
      BY <1>0, <2>0 DEF ProcRecords
    <3> QED BY <1>1, <2>0, <2>5, <3>1 DEF RefreshCache, NothingIsDropped
  <2> QED BY <1>4, <2>1, <2>2, <2>3, <2>4, <2>5 DEF Write, Proceed
<1>5. ASSUME NEW x \in Procs, Rebuild(x) PROVE NothingIsDropped'
  <2> DEFINE p == proc[x].page
  <2>1. CASE ReadPage(x)
    <3>1. p \in Pages
      BY <2>1 DEF ReadPage, TypeInv, Placed
    <3>2. ~pages[p].trash
      BY <3>1 DEF NothingIsDropped
    <3>3. Goes(x, [proc[x] EXCEPT !.pc = "digest", !.body = pages[p].body,
                                  !.meta = <<pages[p].meta, 0>>])
      BY <2>1, <3>2 DEF ReadPage
    <3>4. OK([proc[x] EXCEPT !.pc = "digest", !.body = pages[p].body,
                             !.meta = <<pages[p].meta, 0>>])
      BY <1>0 DEF ProcRecords
    <3> QED BY <1>1, <2>1, <3>3, <3>4 DEF ReadPage, NothingIsDropped
  <2>2. CASE ReadDigest(x)
    <3>1. OK([proc[x] EXCEPT !.pc = "commit", !.meta = <<@[1], pages[p].meta>>])
      BY <1>0 DEF ProcRecords
    <3> QED BY <1>1, <2>2, <3>1 DEF ReadDigest, NothingIsDropped
  <2>3. CASE Commit(x)
    <3> DEFINE r == IF Leaving(x) = {} THEN Done(x, proc[x])
                    ELSE [proc[x] EXCEPT !.pc = "forget", !.gone = Leaving(x)]
    <3>1. OK(r)
      BY <1>0 DEF ProcRecords
    <3>2. pages' = [pages EXCEPT ![p].indexed = pages[p].body] /\ Goes(x, r)
      BY <2>3, CommitDoes
    <3> HIDE DEF r
    <3>3. \A q \in Pages : ~pages'[q].trash
      BY <3>2 DEF NothingIsDropped, TypeInv, PageRows
    <3> QED BY <1>1, <3>1, <3>2, <3>3
  <2>4. ~DropPage(x)
    BY DEF NothingIsDropped, DropPage
  <2>5. CASE Forget(x)
    BY <1>0, <1>1, <2>5 DEF Forget, NothingIsDropped
  <2> QED BY <1>5, <2>1, <2>2, <2>3, <2>4, <2>5 DEF Rebuild
<1>6. CASE IndexLoop /\ ~Rebuild("index")
  <2> DEFINE r == proc["index"]
  <2>0. "index" \in Procs /\ r \in ProcRecords
    BY <1>0 DEF Procs
  <2>1. CASE ListStale
    <3>1. PICK s : Goes("index", [r EXCEPT !.pc = "stale", !.ids = s])
      BY <2>1, Zenon DEF ListStale
    <3>2. OK([r EXCEPT !.pc = "stale", !.ids = s])
      BY <2>0 DEF ProcRecords
    <3> QED BY <1>1, <2>0, <2>1, <3>1, <3>2 DEF ListStale, NothingIsDropped
  <2>2. CASE ReindexStale
    <3>1. PICK p \in r.ids :
            Goes("index", [r EXCEPT !.pc = "read", !.page = p, !.ids = @ \ {p}])
      BY <2>2 DEF ReindexStale
    <3>2. OK([r EXCEPT !.pc = "read", !.page = p, !.ids = @ \ {p}])
      BY <2>0 DEF ProcRecords
    <3> QED BY <1>1, <2>0, <2>2, <3>1, <3>2 DEF ReindexStale, NothingIsDropped
  <2>3. CASE ListPending
    <3>1. PICK jobs : Goes("index", [r EXCEPT !.pc = "embed", !.jobs = jobs])
      BY <2>3 DEF ListPending
    <3>2. OK([r EXCEPT !.pc = "embed", !.jobs = jobs])
      BY <2>0 DEF ProcRecords
    <3> QED BY <1>1, <2>0, <2>3, <3>1, <3>2 DEF ListPending, NothingIsDropped
  <2>4. CASE StoreVector
    <3>1. PICK j : Goes("index", [r EXCEPT !.pc = "cache", !.jobs = @ \ {j}, !.job = j])
      BY <2>4 DEF StoreVector
    <3>2. OK([r EXCEPT !.pc = "cache", !.jobs = @ \ {j}, !.job = j])
      BY <2>0 DEF ProcRecords
    <3> QED BY <1>1, <2>0, <2>4, <3>1, <3>2 DEF StoreVector, NothingIsDropped
  <2>5. CASE CacheVector
    <3>1. OK([r EXCEPT !.pc = "embed", !.job = NoJob])
      BY <2>0 DEF ProcRecords
    <3> QED BY <1>1, <2>0, <2>5, <3>1 DEF CacheVector, NothingIsDropped
  <2>6. CASE EndEmbed
    BY <1>1, <1>2, <2>0, <2>6 DEF EndEmbed, NothingIsDropped
  <2> QED BY <1>6, <2>1, <2>2, <2>3, <2>4, <2>5, <2>6 DEF IndexLoop
<1>7. ASSUME NEW x \in Procs, Fails(x) PROVE NothingIsDropped'
  <2>1. pages' = pages
    BY <1>7 DEF Fails
  <2>2. OK([proc[x] EXCEPT !.pc = "idle", !.refresh = FALSE, !.snap = <<>>])
    BY <1>0 DEF ProcRecords
  <2> QED BY <1>0, <1>1, <1>2, <1>7, <2>1, <2>2 DEF Fails, NothingIsDropped
<1>8. CASE Restart
  BY <1>2, <1>8 DEF Restart, NothingIsDropped
<1>9. CASE UNCHANGED vars
  BY <1>9 DEF vars, NothingIsDropped
<1> QED BY <1>4, <1>5, <1>6, <1>7, <1>8, <1>9 DEF Next, Procs

(***************************************************************************)
(* The chunks of a page are at all times those of one body with one set of *)
(* properties, or none: two goroutines that reindex it, deletions, failed  *)
(* statements and restarts never leave it with parts of two bodies.        *)
(***************************************************************************)
THEOREM PagesStayWhole == Spec => []PagesAreWhole
<1>1. Init => PagesAreWhole
  <2> SUFFICES ASSUME Init PROVE PagesAreWhole
    OBVIOUS
  <2>1. \A p \in Pages : p # 0
    BY IndexAssumption
  <2> QED BY <2>1 DEF Init, PagesAreWhole, Of, NoChunk
<1>2. TypeInv /\ PagesAreWhole /\ [Next]_vars => PagesAreWhole'
  BY StepWhole
<1> QED BY <1>1, <1>2, TypeInvariant, PTL DEF Spec

LEMMA IdsGrowWithoutDeletions ==
    ASSUME Deletable = {}, EditsReplace
    PROVE  Spec => [][IdsGrow]_vars
<1>1. Init => NothingIsDropped
  BY DEF Init, NothingIsDropped, Idle
<1>2. TypeInv /\ NothingIsDropped /\ [Next]_vars => NothingIsDropped'
  BY StepDropsNothing
<1>3. TypeInv /\ PagesAreWhole /\ NothingIsDropped /\ [Next]_vars => [IdsGrow]_vars
  BY StepGrows
<1> QED BY <1>1, <1>2, <1>3, TypeInvariant, PagesStayWhole, PTL DEF Spec

(***************************************************************************)
(* While no page is deleted and no edit merely removes sections, vectors   *)
(* match their texts, with the plain rowids the code has.  Any number of   *)
(* writers may reindex a page at once: each transaction that deletes       *)
(* chunks inserts others above them first.  The instance of MCIndexEdits   *)
(* is one of these.                                                        *)
(***************************************************************************)
THEOREM VectorsStayWithoutDeletions ==
    ASSUME Deletable = {}, EditsReplace
    PROVE  Spec => []VectorsMatchTexts
BY IdsGrowWithoutDeletions, VectorsStay, PTL

-----------------------------------------------------------------------------
(* A page that counts as indexed has a chunk. *)

(***************************************************************************)
(* What IndexedIsFindable needs to be inductive, of the pages that do not  *)
(* come back: one that is not trashed and has been indexed has a chunk,    *)
(* and only trashed ones are dropped.                                      *)
(***************************************************************************)
FindInv ==
    /\ \A p \in Pages \ Returning : ~pages[p].trash /\ pages[p].indexed # 0 => Of(p) # {}
    /\ \A x \in Procs : proc[x].pc \in {"drop", "trashed"} =>
          proc[x].page \in Returning \/ pages[proc[x].page].trash

\* A step after which what is trashed still is, and only what is trashed is
\* about to be dropped.
KeepsTrash ==
    /\ \A p \in Pages : p \in Returning \/ ~pages[p].trash \/ pages'[p].trash
    /\ \A x \in Procs : proc'[x].pc \in {"drop", "trashed"} =>
          \/ proc[x].pc \in {"drop", "trashed"} /\ proc'[x].page = proc[x].page
          \/ pages'[proc'[x].page].trash

LEMMA GoesKeepsTrash ==
    ASSUME TypeInv, NEW x \in Procs, NEW r, Goes(x, r),
           \A p \in Pages : pages'[p].trash = pages[p].trash,
           r.pc \notin {"drop", "trashed"}
    PROVE  KeepsTrash
<1>1. \A y \in Procs : proc'[y] = IF y = x THEN r ELSE proc[y]
  BY DEF Goes, TypeInv
<1> QED BY <1>1 DEF KeepsTrash

LEMMA RebuildKeepsTrash ==
    ASSUME TypeInv, NEW x \in Procs, Rebuild(x)
    PROVE  KeepsTrash
<1>0. proc[x] \in ProcRecords /\ Placed(proc[x])
  BY DEF TypeInv
<1>d. Done(x, proc[x]).pc \notin {"drop", "trashed"}
  BY <1>0 DEF Done, ProcRecords
<1>1. CASE ReadPage(x)
  <2>1. proc[x].page \in Pages
    BY <1>0, <1>1 DEF ReadPage, Placed
  <2>2. CASE pages[proc[x].page].trash
    <3> PICK r : r = [proc[x] EXCEPT !.pc = "drop"]
      OBVIOUS
    <3>1. r.page = proc[x].page
      BY <1>0 DEF ProcRecords
    <3>2. \A y \in Procs : proc'[y] = IF y = x THEN r ELSE proc[y]
      BY <1>1, <2>2 DEF ReadPage, Goes, TypeInv
    <3> QED BY <1>1, <2>2, <3>1, <3>2 DEF ReadPage, KeepsTrash
  <2>3. CASE ~pages[proc[x].page].trash
    <3> PICK r : r = [proc[x] EXCEPT !.pc = "digest", !.body = pages[proc[x].page].body,
                                     !.meta = <<pages[proc[x].page].meta, 0>>]
      OBVIOUS
    <3>1. r.pc = "digest"
      BY <1>0 DEF ProcRecords
    <3>2. Goes(x, r) /\ UNCHANGED pages
      BY <1>1, <2>3 DEF ReadPage
    <3> QED BY <3>1, <3>2, GoesKeepsTrash
  <2> QED BY <2>2, <2>3
<1>2. CASE ReadDigest(x)
  <2> PICK r : r = [proc[x] EXCEPT !.pc = "commit",
                                 !.meta = <<@[1], pages[proc[x].page].meta>>]
    OBVIOUS
  <2>1. r.pc = "commit"
    BY <1>0 DEF ProcRecords
  <2> QED BY <1>2, <2>1, GoesKeepsTrash DEF ReadDigest
<1>3. CASE Commit(x)
  <2>1. PICK r : /\ Goes(x, r)
                 /\ \/ r = Done(x, proc[x])
                    \/ r = [proc[x] EXCEPT !.pc = "forget", !.gone = Leaving(x)]
    BY <1>3, CommitDoes
  <2>2. r.pc \notin {"drop", "trashed"}
    BY <1>0, <1>d, <2>1 DEF ProcRecords
  <2>3. pages' = [pages EXCEPT ![proc[x].page].indexed = pages[proc[x].page].body]
    BY <1>3, CommitDoes
  <2>4. \A p \in Pages : pages'[p].trash = pages[p].trash
    BY <2>3 DEF TypeInv, PageRows
  <2> QED BY <2>1, <2>2, <2>4, GoesKeepsTrash
<1>4. CASE DropPage(x)
  <2>1. PICK r : Goes(x, r) /\ r.pc = "forget" /\ UNCHANGED pages
    BY <1>0, <1>4 DEF DropPage, ProcRecords
  <2> QED BY <2>1, GoesKeepsTrash
<1>5. CASE Forget(x)
  BY <1>d, <1>5, GoesKeepsTrash DEF Forget
<1> QED BY <1>1, <1>2, <1>3, <1>4, <1>5 DEF Rebuild

LEMMA WriterKeepsTrash ==
    ASSUME TypeInv, NEW w \in Writers, Write(w) \/ Proceed(w)
    PROVE  KeepsTrash
<1>0. w \in Procs /\ proc[w] \in ProcRecords
  BY DEF TypeInv, Procs
<1>1. ASSUME NEW p \in Pages, Upsert(w, p) PROVE KeepsTrash
  <2>1. PICK m \in {pages[p].meta, pages[p].meta + 1} \ {0} :
          pages' = [pages EXCEPT ![p].known = TRUE, ![p].trash = FALSE, ![p].meta = m,
                                 ![p].edited = @ + 1, ![p].pending = TRUE]
    BY <1>1 DEF Upsert
  <2>2. \A q \in Pages : q # p => pages'[q] = pages[q]
    BY <2>1 DEF TypeInv
  <2> QED BY <1>1, <2>2 DEF Upsert, KeepsTrash
<1>2. ASSUME NEW p \in Pages, Return(w, p) PROVE KeepsTrash
  <2>1. \A q \in Pages : q # p => pages'[q] = pages[q]
    BY <1>2 DEF Return, TypeInv
  <2> QED BY <1>2, <2>1 DEF Return, KeepsTrash
<1>3. ASSUME NEW p \in Pages, MarkTrashed(w, p) PROVE KeepsTrash
  <2>1. PICK r : r = [proc[w] EXCEPT !.pc = "trashed", !.page = p]
    OBVIOUS
  <2>2. r.page = p
    BY <1>0, <2>1 DEF ProcRecords
  <2>3. \A x \in Procs : proc'[x] = IF x = w THEN r ELSE proc[x]
    BY <1>3, <2>1 DEF MarkTrashed, Goes, TypeInv
  <2>4. pages' = [pages EXCEPT ![p].trash = TRUE]
    BY <1>3 DEF MarkTrashed
  <2>5. pages'[p].trash /\ \A q \in Pages : q # p => pages'[q] = pages[q]
    BY <2>4 DEF TypeInv, PageRows
  <2> QED BY <2>2, <2>3, <2>5 DEF KeepsTrash
<1>4. ASSUME NEW p \in Pages, SetContent(w, p) PROVE KeepsTrash
  <2>1. PICK b \in Bodies : pages' = [pages EXCEPT ![p].body = b, ![p].pending = FALSE]
    BY <1>4 DEF SetContent
  <2>2. \A q \in Pages : pages'[q].trash = pages[q].trash
    BY <2>1 DEF TypeInv, PageRows
  <2>3. [proc[w] EXCEPT !.pc = "read", !.page = p].pc = "read"
    BY <1>0 DEF ProcRecords
  <2> QED BY <1>0, <1>4, <2>2, <2>3, GoesKeepsTrash DEF SetContent
<1>5. CASE RefreshRead(w)
  <2>1. [proc[w] EXCEPT !.pc = "refresh", !.snap = pages].pc = "refresh"
    BY <1>0 DEF ProcRecords
  <2> QED BY <1>0, <1>5, <2>1, GoesKeepsTrash DEF RefreshRead
<1>6. CASE RefreshCache(w)
  <2>1. [proc[w] EXCEPT !.pc = "idle", !.refresh = FALSE, !.snap = <<>>].pc = "idle"
    BY <1>0 DEF ProcRecords
  <2> QED BY <1>0, <1>6, <2>1, GoesKeepsTrash DEF RefreshCache
<1>7. CASE Rebuild(w)
  BY <1>0, <1>7, RebuildKeepsTrash
<1> QED BY <1>1, <1>2, <1>3, <1>4, <1>5, <1>6, <1>7 DEF Write, Proceed

LEMMA StepKeepsTrash ==
    ASSUME TypeInv, [Next]_vars
    PROVE  KeepsTrash
<1>0. "index" \in Procs /\ proc["index"] \in ProcRecords
  BY DEF TypeInv, Procs
<1>1. CASE \E w \in Writers : Write(w) \/ Proceed(w)
  BY <1>1, WriterKeepsTrash
<1>2. CASE IndexLoop
  <2>1. CASE Rebuild("index")
    BY <1>0, <2>1, RebuildKeepsTrash
  <2>2. CASE ~Rebuild("index")
    <3> DEFINE i == proc["index"]
               GoesOn(r) == Goes("index", r) /\ UNCHANGED pages /\ r.pc \notin {"drop", "trashed"}
    <3>1. ASSUME ListStale PROVE \E r : GoesOn(r)
      <4>1. PICK s : Goes("index", [i EXCEPT !.pc = "stale", !.ids = s])
        BY <3>1, Zenon DEF ListStale
      <4>2. GoesOn([i EXCEPT !.pc = "stale", !.ids = s])
        BY <1>0, <3>1, <4>1 DEF ListStale, ProcRecords
      <4> QED BY <4>2
    <3>2. ASSUME ReindexStale PROVE \E r : GoesOn(r)
      <4>1. PICK p \in i.ids :
              Goes("index", [i EXCEPT !.pc = "read", !.page = p, !.ids = @ \ {p}])
        BY <3>2 DEF ReindexStale
      <4>2. GoesOn([i EXCEPT !.pc = "read", !.page = p, !.ids = @ \ {p}])
        BY <1>0, <3>2, <4>1 DEF ReindexStale, ProcRecords
      <4> QED BY <4>2
    <3>3. ASSUME ListPending PROVE \E r : GoesOn(r)
      <4>1. PICK batch :
              Goes("index", [i EXCEPT !.pc = "embed", !.jobs = {JobOf(k) : k \in batch}])
        BY <3>3, Zenon DEF ListPending
      <4>2. GoesOn([i EXCEPT !.pc = "embed", !.jobs = {JobOf(k) : k \in batch}])
        BY <1>0, <3>3, <4>1 DEF ListPending, ProcRecords
      <4> QED BY <4>2
    <3>4. ASSUME StoreVector PROVE \E r : GoesOn(r)
      <4>1. PICK j \in i.jobs :
              Goes("index", [i EXCEPT !.pc = "cache", !.jobs = @ \ {j}, !.job = j])
        BY <3>4 DEF StoreVector
      <4>2. GoesOn([i EXCEPT !.pc = "cache", !.jobs = @ \ {j}, !.job = j])
        BY <1>0, <3>4, <4>1 DEF StoreVector, ProcRecords
      <4> QED BY <4>2
    <3>5. ASSUME CacheVector PROVE \E r : GoesOn(r)
      <4>1. GoesOn([i EXCEPT !.pc = "embed", !.job = NoJob])
        BY <1>0, <3>5 DEF CacheVector, ProcRecords
      <4> QED BY <4>1
    <3>6. ASSUME EndEmbed PROVE \E r : GoesOn(r)
      <4>1. GoesOn(Idle)
        BY <3>6 DEF EndEmbed, Idle
      <4> QED BY <4>1
    <3>7. PICK r : GoesOn(r)
      BY <1>2, <2>2, <3>1, <3>2, <3>3, <3>4, <3>5, <3>6 DEF IndexLoop
    <3> QED BY <1>0, <3>7, GoesKeepsTrash
  <2> QED BY <2>1, <2>2
<1>3. ASSUME NEW x \in Procs, Fails(x) PROVE KeepsTrash
  <2>0. proc[x] \in ProcRecords
    BY DEF TypeInv
  <2>1. UNCHANGED pages
    BY <1>3 DEF Fails
  <2>2. Done(x, proc[x]).pc \notin {"drop", "trashed"} /\ Idle.pc = "idle"
    BY <2>0 DEF Done, Idle, ProcRecords
  <2>3. [proc[x] EXCEPT !.pc = "idle", !.refresh = FALSE, !.snap = <<>>].pc = "idle"
    BY <2>0 DEF ProcRecords
  <2>4. \/ Goes(x, Done(x, proc[x])) \/ Goes(x, Idle)
        \/ Goes(x, [proc[x] EXCEPT !.pc = "idle", !.refresh = FALSE, !.snap = <<>>])
    BY <1>3 DEF Fails
  <2> QED BY <2>1, <2>2, <2>3, <2>4, GoesKeepsTrash
<1>4. CASE Restart
  BY <1>4 DEF Restart, KeepsTrash, Idle
<1>5. CASE UNCHANGED vars
  BY <1>5 DEF vars, KeepsTrash
<1> QED BY <1>1, <1>2, <1>3, <1>4, <1>5 DEF Next

\* Only a commit counts a page as indexed.
LEMMA OnlyCommitIndexes ==
    ASSUME TypeInv, [Next]_vars, \A x \in Procs : ~Commit(x)
    PROVE  \A p \in Pages : pages'[p].indexed = pages[p].indexed
<1>1. \A w \in Writers : w \in Procs
  BY DEF Procs
<1>2. "index" \in Procs
  BY DEF Procs
<1>3. ASSUME NEW w \in Writers, NEW p \in Pages,
             Upsert(w, p) \/ Return(w, p) \/ MarkTrashed(w, p) \/ SetContent(w, p)
      PROVE  \A q \in Pages : pages'[q].indexed = pages[q].indexed
  <2>1. CASE Upsert(w, p)
    BY <2>1 DEF Upsert, TypeInv, PageRows
  <2>2. CASE Return(w, p)
    BY <2>2 DEF Return, TypeInv, PageRows
  <2>3. CASE MarkTrashed(w, p)
    BY <2>3 DEF MarkTrashed, TypeInv, PageRows
  <2>4. CASE SetContent(w, p)
    BY <2>4 DEF SetContent, TypeInv, PageRows
  <2> QED BY <1>3, <2>1, <2>2, <2>3, <2>4
<1>4. ASSUME NEW x \in Procs, Rebuild(x) PROVE UNCHANGED pages
  BY <1>4 DEF Rebuild, ReadPage, ReadDigest, DropPage, Forget
<1>5. ASSUME NEW w \in Writers, RefreshRead(w) \/ RefreshCache(w) PROVE UNCHANGED pages
  BY <1>5 DEF RefreshRead, RefreshCache
<1>6. CASE IndexLoop
  BY <1>2, <1>4, <1>6
     DEF IndexLoop, ListStale, ReindexStale, ListPending, StoreVector, CacheVector, EndEmbed
<1>7. CASE Restart \/ \E x \in Procs : Fails(x)
  BY <1>7 DEF Restart, Fails
<1>8. CASE UNCHANGED vars
  BY <1>8 DEF vars
<1>9. ASSUME NEW w \in Writers, Write(w) \/ Proceed(w)
      PROVE  \A q \in Pages : pages'[q].indexed = pages[q].indexed
  BY <1>1, <1>3, <1>4, <1>5, <1>9 DEF Write, Proceed
<1> QED BY <1>6, <1>7, <1>8, <1>9 DEF Next

\* The page that is committed has a chunk: BuildChunks always makes one.
LEMMA CommitFinds ==
    ASSUME TypeInv, FindInv, NEW x \in Procs, Commit(x), NEW q \in Pages \ Returning,
           ~pages'[q].trash, pages'[q].indexed # 0
    PROVE  Of(q)' # {}
<1>1. PICK p, m, b : p = proc[x].page /\ m = proc[x].meta /\ b = proc[x].body
  OBVIOUS
<1>2. (Of(q)' = Of(q) \/ p = q) /\ IsWhole(p, m, b)'
  BY <1>1, CommitPage
<1>3. CASE p = q
  <2>1. proc[x].pc = "commit"
    BY CommitDoes
  <2>2. BuildChunks(p, m, b) \in ChunkSeqs(p)
    BY <1>1, <2>1, FreshType DEF Fresh
  <2>3. 1 \in DOMAIN BuildChunks(p, m, b)
    BY <2>2, ChunkSeqsDo
  <2>4. BuildChunks(p, m, b)' = BuildChunks(p, m, b)
    BY DEF BuildChunks
  <2>5. \E i \in Of(p)' : chunks'[i] = BuildChunks(p, m, b)[1]
    BY <1>2, <2>3, <2>4 DEF IsWhole
  <2> QED BY <1>3, <2>5
<1>4. CASE p # q
  <2>1. pages' = [pages EXCEPT ![p].indexed = pages[p].body]
    BY <1>1, CommitDoes
  <2>2. pages'[q] = pages[q]
    BY <1>4, <2>1 DEF TypeInv
  <2> QED BY <1>2, <1>4, <2>2 DEF FindInv
<1> QED BY <1>3, <1>4

LEMMA DropFinds ==
    ASSUME TypeInv, FindInv, NEW x \in Procs, DropPage(x), NEW q \in Pages \ Returning,
           ~pages'[q].trash, pages'[q].indexed # 0
    PROVE  Of(q)' # {}
<1>1. PICK p : p = proc[x].page
  OBVIOUS
<1>2. /\ proc[x].pc \in {"drop", "trashed"} /\ pages' = pages
      /\ \A i \in Ids : chunks'[i] = IF i \in Of(p) THEN NoChunk ELSE chunks[i]
  BY <1>1 DEF DropPage
<1>3. p # q
  BY <1>1, <1>2 DEF FindInv
<1>4. \A i \in Of(q) : i \in Of(q)'
  BY <1>2, <1>3 DEF Of
<1> QED BY <1>2, <1>4 DEF FindInv

LEMMA StepFinds == TypeInv /\ FindInv /\ [Next]_vars => FindInv'
<1> SUFFICES ASSUME TypeInv, FindInv, [Next]_vars PROVE FindInv'
  OBVIOUS
<1>1. KeepsTrash
  BY StepKeepsTrash
<1>2. TypeInv'
  BY NextType
<1>3. ASSUME NEW q \in Pages \ Returning, ~pages'[q].trash, pages'[q].indexed # 0
      PROVE  Of(q)' # {}
  <2>1. CASE \E x \in Procs : Commit(x)
    BY <1>3, <2>1, CommitFinds
  <2>2. CASE \E x \in Procs : DropPage(x)
    BY <1>3, <2>2, DropFinds
  <2>3. CASE \A x \in Procs : ~Commit(x) /\ ~DropPage(x)
    <3>1. Of(q)' = Of(q)
      BY <2>3, OnlyRebuildsWrite DEF Of
    <3>2. pages'[q].indexed = pages[q].indexed
      BY <2>3, OnlyCommitIndexes
    <3>3. ~pages[q].trash
      BY <1>1, <1>3 DEF KeepsTrash
    <3> QED BY <1>3, <3>1, <3>2, <3>3 DEF FindInv
  <2> QED BY <2>1, <2>2, <2>3
<1>4. ASSUME NEW x \in Procs, proc'[x].pc \in {"drop", "trashed"}
      PROVE  proc'[x].page \in Returning \/ pages'[proc'[x].page].trash
  <2>1. Placed(proc[x])
    BY DEF TypeInv
  <2>2. CASE proc[x].pc \in {"drop", "trashed"} /\ proc'[x].page = proc[x].page
    <3>1. proc[x].page \in Pages
      BY <2>1, <2>2 DEF Placed
    <3> QED BY <1>1, <2>2, <3>1 DEF KeepsTrash, FindInv
  <2> QED BY <1>1, <1>4, <2>2 DEF KeepsTrash
<1> QED BY <1>3, <1>4 DEF FindInv

(***************************************************************************)
(* While no page comes back unedited, a page that counts as indexed has a  *)
(* chunk, whatever is deleted meanwhile, however reindexes interleave and  *)
(* wherever one fails: its transaction writes the chunks and the hash at   *)
(* once.  MCIndexReturn shows that a page which returns may have none.     *)
(***************************************************************************)
THEOREM IndexedStaysFindable ==
    ASSUME Returning = {}
    PROVE  Spec => []IndexedIsFindable
<1>1. Init => FindInv
  BY DEF Init, FindInv, Idle
<1>2. TypeInv /\ FindInv => IndexedIsFindable
  BY DEF TypeInv, PageRows, FindInv, IndexedIsFindable, Live, Stale
<1> QED BY <1>1, <1>2, StepFinds, TypeInvariant, PTL DEF Spec
=============================================================================
