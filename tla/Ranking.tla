------------------------------ MODULE Ranking ------------------------------
(***************************************************************************)
(* internal/index, search.go: how the hits of the two retrieval branches   *)
(* become one list of pages.  A hit is a chunk of a page in a list ordered *)
(* by the branch's own score; of that score only the order is kept.        *)
(***************************************************************************)
EXTENDS Naturals, SequencesExt

CONSTANTS
    RrfK,           \* rrfK
    VectorWeight, KeywordWeight, LiteralWeight,   \* branch weights, in percent
    Oversample,     \* chunkOversample
    MaxScan,        \* maxKeywordScan
    DefaultLimit, MinCandidates, RelatedLimit, RelatedScan,
                    \* literals of Search and expand: 10, 40, 10 and 4
    Scale           \* a common multiple of 3 and of RrfK + r for each rank r

ASSUME RankingAssumption ==
    /\ {RrfK, VectorWeight, KeywordWeight, LiteralWeight, Oversample, MaxScan} \subseteq Nat \ {0}
    /\ {DefaultLimit, MinCandidates, RelatedLimit, RelatedScan} \subseteq Nat \ {0}
    /\ Scale \in Nat \ {0} /\ Scale % 3 = 0

Least(a, b) == IF a < b THEN a ELSE b
Larger(a, b) == IF a < b THEN b ELSE a

\* Search fills in what the query leaves open; without a model, any mode is keyword.
LimitOf(q) == IF q.limit = 0 THEN DefaultLimit ELSE q.limit
CandidatesOf(q) ==
    IF q.candidates = 0 THEN Larger(LimitOf(q) * 5, MinCandidates) ELSE q.candidates
ModeOf(q, model) ==
    IF ~model THEN "keyword" ELSE IF q.mode = "" THEN "hybrid" ELSE q.mode

\* Plausible bug: as many chunks are read as pages are asked for.
ScanDepthOfPages(candidates) == Least(candidates, MaxScan)

ScanDepth(candidates) == Least(candidates * Oversample, MaxScan)

\* topPages: the best chunk of each page, ranked among the pages.
Keep(kept, h, limit) ==
    IF Len(kept) = limit \/ \E n \in DOMAIN kept : kept[n].page = h.page THEN kept
    ELSE Append(kept, [page |-> h.page, chunk |-> h.chunk, rank |-> Len(kept) + 1])

\* After n of the hits, for each n.
Kept(hits, limit) ==
    LET kept[n \in 0 .. Len(hits)] ==
            IF n = 0 THEN <<>> ELSE Keep(kept[n - 1], hits[n], limit)
    IN kept

TopPages(hits, limit) == Kept(hits, limit)[Len(hits)]

-----------------------------------------------------------------------------
(* fuse *)

\* Plausible bug: a better vector hit does not bring its chunk.
WithVectorRank(f, h) == IF f.vec = 0 \/ h.rank < f.vec THEN [f EXCEPT !.vec = h.rank] ELSE f

WithKeyword(f, h) ==
    IF f.kw = 0 \/ h.rank < f.kw THEN [f EXCEPT !.kw = h.rank, !.chunk = h.chunk] ELSE f
WithVector(f, h) ==
    IF f.vec = 0 \/ h.rank < f.vec
    THEN [f EXCEPT !.vec = h.rank, !.chunk = IF f.kw = 0 \/ h.rank <= f.kw THEN h.chunk ELSE @]
    ELSE f

\* There is an entry of h's page.
Entered(fused, h) ==
    IF \E n \in DOMAIN fused : fused[n].page = h.page THEN fused
    ELSE Append(fused, [page |-> h.page, chunk |-> h.chunk, kw |-> 0, vec |-> 0])

AddKeyword(fused, h) ==
    LET all == Entered(fused, h)
    IN [n \in DOMAIN all |-> IF all[n].page = h.page THEN WithKeyword(all[n], h) ELSE all[n]]
AddVector(fused, h) ==
    LET all == Entered(fused, h)
    IN [n \in DOMAIN all |-> IF all[n].page = h.page THEN WithVector(all[n], h) ELSE all[n]]

\* After n hits of a branch, for each n.
KeywordsIn(hits) ==
    LET fused[n \in 0 .. Len(hits)] ==
            IF n = 0 THEN <<>> ELSE AddKeyword(fused[n - 1], hits[n])
    IN fused
VectorsIn(first, hits) ==
    LET fused[n \in 0 .. Len(hits)] ==
            IF n = 0 THEN first ELSE AddVector(fused[n - 1], hits[n])
    IN fused

Fuse(keyword, vector) ==
    VectorsIn(KeywordsIn(keyword)[Len(keyword)], vector)[Len(vector)]

\* Plausible bug: a page without a rank in a branch counts as its first.
ShareUnranked(weight, rank) == weight * (Scale \div (RrfK + rank))

\* What a branch adds to a page's score, in units of 1 / (100 * Scale).
Share(weight, rank) == IF rank = 0 THEN 0 ELSE weight * (Scale \div (RrfK + rank))

KeywordWeightFor(literal) == IF literal THEN LiteralWeight ELSE KeywordWeight
Score(f, literal) ==
    Share(VectorWeight, f.vec) + Share(KeywordWeightFor(literal), f.kw)

\* The n-th element of S in the order R, a set of pairs.
Nth(S, R, n) == CHOOSE x \in S : Cardinality({y \in S : <<y, x>> \in R}) = n - 1

\* The stable sort by score, and the cut after it.
ScoreOrder(fused, literal) ==
    LET s == [n \in DOMAIN fused |-> Score(fused[n], literal)]
    IN {e \in (DOMAIN fused) \X (DOMAIN fused) :
           s[e[1]] > s[e[2]] \/ (s[e[1]] = s[e[2]] /\ e[1] < e[2])}

Ranked(fused, literal, limit) ==
    [n \in 1 .. Least(Len(fused), limit) |->
        fused[Nth(DOMAIN fused, ScoreOrder(fused, literal), n)]]

Via(f) == IF f.kw > 0 /\ f.vec > 0 THEN "both" ELSE IF f.vec > 0 THEN "vector" ELSE "keyword"

-----------------------------------------------------------------------------
(***************************************************************************)
(* expand: rows are relations [from, to] with an end among the direct      *)
(* hits, in the order SQLite returns them.                                 *)
(***************************************************************************)
FarEnd(r, seeds) == IF r.from \in seeds THEN r.to ELSE r.from

ScoreOf(direct, p) ==
    IF \E n \in DOMAIN direct : direct[n].page = p
    THEN direct[CHOOSE n \in DOMAIN direct : direct[n].page = p].score ELSE 0

Parent(direct, r) ==
    IF ScoreOf(direct, r.to) > ScoreOf(direct, r.from) THEN r.to ELSE r.from

Take(out, r, direct, limit) ==
    LET seeds == {direct[n].page : n \in DOMAIN direct}
        p == FarEnd(r, seeds)
    IN IF Len(out) = limit \/ p \in seeds \/ \E n \in DOMAIN out : out[n].page = p THEN out
       ELSE Append(out, [page |-> p, of |-> p, via |-> "relation", parent |-> Parent(direct, r),
                         score |-> ScoreOf(direct, Parent(direct, r)) \div 3])

\* After n of the rows, for each n.
Expanded(rows, direct, limit) ==
    LET out[n \in 0 .. Len(rows)] ==
            IF n = 0 THEN <<>> ELSE Take(out[n - 1], rows[n], direct, limit)
    IN out

Related(rows, direct, limit) == Expanded(rows, direct, limit)[Len(rows)]
=============================================================================
