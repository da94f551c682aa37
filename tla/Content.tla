------------------------------ MODULE Content ------------------------------
(***************************************************************************)
(* The body of one page on its way from Notion into the index: FetchContent*)
(* of internal/sync asks for the blocks level by level, RenderMarkdown of  *)
(* internal/mirror writes them down as lines, BuildChunks of               *)
(* internal/index cuts the lines at headings and then by size.             *)
(*                                                                         *)
(* Of texts only the lengths are kept, in runes.  A block is               *)
(*   kind      what RenderMarkdown tells apart                             *)
(*   text      its lines: [size, level], level > 0 if the line reads as a  *)
(*             heading of that level                                       *)
(*   children  has_children                                                *)
(* Notion may answer a request with any blocks: the page may be edited     *)
(* between two of them.                                                    *)
(***************************************************************************)
EXTENDS Naturals, SequencesExt

CONSTANTS
    Answers,        \* what a request for children may return: sequences of blocks
    Headers,        \* lengths of the title and property digest together; 0 if empty
    MaxDepth,       \* MaxBlockDepth
    MaxBlocks,      \* MaxBlocksPerPage
    ChunkTarget, ChunkMax,  \* in runes
    CloseSize       \* of the line that closes a toggle

Kinds == {"text", "item", "toggle", "leaf", "child", "table", "group", "other"}
Blocks == [kind : Kinds, text : Seq([size : Nat, level : Nat]), children : BOOLEAN]

ASSUME ContentAssumption ==
    /\ CloseSize \in Nat \ {0}
    /\ \A blocks \in Answers : blocks \in Seq(Blocks)
    /\ Headers \subseteq Nat /\ MaxDepth \in Nat \ {0} /\ MaxBlocks \in Nat \ {0}
    /\ ChunkTarget \in Nat \ {0} /\ ChunkMax \in Nat /\ ChunkTarget + 2 <= ChunkMax

VARIABLES
    pc,         \* "fetch", "failed" or "done"
    frames,     \* the calls of fetchChildren under way, the outermost first:
                \* [block, its path; rest, the answer still to be looked at; kept]
    budget,
    block,      \* the blocks that were kept, by path: the position in each level
    answered,   \* not in the code: by path, how many children a request returned
    header

vars == <<pc, frames, budget, block, answered, header>>

Paths == DOMAIN block

Init ==
    /\ pc = "fetch"
    /\ frames = <<[at |-> <<>>, asked |-> FALSE, rest |-> <<>>, kept |-> 0]>>
    /\ budget = MaxBlocks
    /\ block = [p \in {} |-> <<>>]
    /\ answered = [p \in {} |-> 0]
    /\ header \in Headers

-----------------------------------------------------------------------------
(* fetchChildren *)

Top == frames[Len(frames)]
Below == SubSeq(frames, 1, Len(frames) - 1)

\* One block: its children are asked for by a call of its own.
Descends(b) == b.children /\ b.kind # "child"

\* The loop ends, and the caller's goes on; the outermost ends the fetch.
Return == /\ frames' = Below
          /\ pc' = IF Below = <<>> THEN "done" ELSE pc

TooDeep == Len(frames) > MaxDepth \/ budget = 0

\* The call returns at once, or BlockChildren does with an answer or a refusal.
Ask ==
    /\ pc = "fetch" /\ ~Top.asked
    /\ \/ TooDeep /\ Return /\ UNCHANGED answered
       \/ /\ ~TooDeep
          /\ \E blocks \in Answers :
                /\ frames' = Append(Below, [Top EXCEPT !.asked = TRUE, !.rest = blocks])
                /\ answered' = [p \in DOMAIN answered \cup {Top.at} |->
                                  IF p = Top.at THEN Len(blocks) ELSE answered[p]]
          /\ UNCHANGED pc
    /\ UNCHANGED <<budget, block, header>>

\* 404 or 403: no children, and no error.
Denied ==
    /\ pc = "fetch" /\ ~Top.asked /\ ~TooDeep
    /\ Return
    /\ UNCHANGED <<budget, block, answered, header>>

\* Any other error ends the fetch, and nothing is stored.
Fail ==
    /\ pc = "fetch" /\ ~Top.asked /\ ~TooDeep
    /\ pc' = "failed"
    /\ UNCHANGED <<frames, budget, block, answered, header>>

Less(n) == IF n = 0 THEN 0 ELSE n - 1

\* Plausible bug: the budget is looked at in the outermost call only.
SpentOuter == budget <= 1 /\ Len(frames) = 1

\* The budget is counted down before it is looked at.
Spent == budget <= 1

\* The next block of the answer, or the end of the loop.
Look ==
    /\ pc = "fetch" /\ Top.asked
    /\ IF Top.rest = <<>> THEN Return /\ UNCHANGED <<budget, block>>
       ELSE /\ budget' = Less(budget)
            /\ IF Spent THEN Return /\ UNCHANGED block
               ELSE LET b == Head(Top.rest) p == Append(Top.at, Top.kept + 1)
                        next == [Top EXCEPT !.rest = Tail(@), !.kept = @ + 1]
                    IN /\ block' = [q \in Paths \cup {p} |-> IF q = p THEN b ELSE block[q]]
                       /\ frames' = Append(Below, next) \o
                            (IF Descends(b)
                             THEN <<[at |-> p, asked |-> FALSE, rest |-> <<>>, kept |-> 0]>>
                             ELSE <<>>)
                       /\ UNCHANGED pc
    /\ UNCHANGED <<answered, header>>

Next == Ask \/ Denied \/ Fail \/ Look

Spec == Init /\ [][Next]_vars /\ WF_vars(Next)

-----------------------------------------------------------------------------
(* RenderMarkdown *)

Blank == [size |-> 0, level |-> 0, of |-> <<>>]
OwnLines(p) == [n \in DOMAIN block[p].text |->
                  [size |-> block[p].text[n].size, level |-> block[p].text[n].level, of |-> p]]
AsBlock(ls) == Append(ls, Blank)

ChildrenOf(p) == {n \in 1 .. MaxBlocks : Append(p, n) \in Paths}

Rows(ls) == FlattenSeq([n \in DOMAIN ls |-> IF ls[n].size > 0 THEN <<ls[n]>> ELSE <<>>])

\* The lines of a block, of which below are those of its children.
Written(p, below) ==
    LET kind == block[p].kind
        own == OwnLines(p)
    IN CASE kind = "text" -> (IF own = <<>> THEN <<>> ELSE AsBlock(own)) \o below
         [] kind = "item" -> own \o below
         [] kind = "toggle" -> AsBlock(own) \o below
                               \o AsBlock(<<[size |-> CloseSize, level |-> 0, of |-> p]>>)
         [] kind \in {"leaf", "child"} -> AsBlock(own)
         [] kind = "table" -> IF Rows(below) = <<>> THEN <<>> ELSE AsBlock(Rows(below))
         [] kind = "group" -> below
         [] OTHER -> <<>>

\* The lines of each block, with so many levels of blocks below it.
Rendered[levels \in 0 .. MaxDepth] ==
    [p \in Paths |->
       Written(p, IF levels = 0 THEN <<>>
                  ELSE FlattenSeq([n \in ChildrenOf(p) |-> Rendered[levels - 1][Append(p, n)]]))]

LastText(ls) == CHOOSE n \in 0 .. Len(ls) :
                  /\ n > 0 => ls[n].size > 0
                  /\ \A m \in n + 1 .. Len(ls) : ls[m].size = 0

\* What splitSections reads: no blank lines at the end but one.
Lines ==
    LET all == FlattenSeq([n \in ChildrenOf(<<>>) |-> Rendered[MaxDepth][<<n>>]])
        kept == AsBlock(SubSeq(all, 1, LastText(all)))
    IN [n \in DOMAIN kept |-> [at |-> n, size |-> kept[n].size, level |-> kept[n].level]]

-----------------------------------------------------------------------------
(* splitSections *)

HasText(ls) == \E n \in DOMAIN ls : ls[n].size > 0

\* A section that is blank is left out, and its heading with it.
Flushed(acc) ==
    [acc EXCEPT !.body = <<>>,
                !.out = IF HasText(acc.body) THEN Append(@, [heading |-> acc.path, body |-> acc.body])
                        ELSE @]

\* Plausible bug: a heading of the level of the last one goes below it.
PathDeepening(path, h) ==
    IF h.level >= Len(path) THEN Append(path, h.at)
    ELSE Append(SubSeq(path, 1, h.level - 1), h.at)

\* The heading takes the place of those of its level and below.
PathWith(path, h) ==
    IF h.level > Len(path) THEN Append(path, h.at)
    ELSE Append(SubSeq(path, 1, h.level - 1), h.at)

Cut(acc, l) ==
    IF l.level = 0 THEN [acc EXCEPT !.body = Append(@, l)]
    ELSE [Flushed(acc) EXCEPT !.path = PathWith(@, l)]

\* After n of the lines, for each n.
CutUpTo(ls) ==
    LET acc[n \in 0 .. Len(ls)] ==
            IF n = 0 THEN [out |-> <<>>, path |-> <<>>, body |-> <<>>] ELSE Cut(acc[n - 1], ls[n])
    IN acc

Sections(ls) == Flushed(CutUpTo(ls)[Len(ls)]).out

-----------------------------------------------------------------------------
(* splitBySize *)

\* The length of a text of lines, each with the newline that ends it.
SizeOf(ls) ==
    LET size[n \in 0 .. Len(ls)] == IF n = 0 THEN 0 ELSE size[n - 1] + ls[n].size + 1
    IN size[Len(ls)]

(***************************************************************************)
(* strings.Split at two newlines: an empty line ends a paragraph, and the  *)
(* newline before it is gone, unless there is none or a split took it.     *)
(***************************************************************************)
NoLines == [lines |-> <<>>, size |-> 0]

AddLine(acc, l) ==
    IF l.size = 0 /\ acc.open
    THEN [done |-> Append(acc.done, [acc.cur EXCEPT !.size = @ - 1]), cur |-> NoLines,
          open |-> FALSE]
    ELSE [acc EXCEPT !.open = TRUE, !.cur.size = @ + l.size + 1,
                     !.cur.lines = IF l.size = 0 THEN @ ELSE Append(@, l.at)]

\* After n of the lines, for each n.
SplitUpTo(ls) ==
    LET acc[n \in 0 .. Len(ls)] ==
            IF n = 0 THEN [done |-> <<>>, cur |-> NoLines, open |-> FALSE]
            ELSE AddLine(acc[n - 1], ls[n])
    IN acc

Paragraphs(ls) ==
    LET end == SplitUpTo(ls)[Len(ls)] IN Append(end.done, end.cur)

Part(p, from, to) == [lines |-> p.lines, all |-> p.size, from |-> from, to |-> to]
Whole(p) == Part(p, 1, p.size)
Smaller(a, b) == IF a < b THEN a ELSE b

\* A paragraph longer than the cap, in pieces of the target.
Cuts(p) ==
    [n \in 1 .. (p.size + ChunkTarget - 1) \div ChunkTarget |->
       LET to == Smaller(n * ChunkTarget, p.size) from == (n - 1) * ChunkTarget + 1
       IN [parts |-> <<Part(p, from, to)>>, size |-> to - from + 1]]

NoPiece == [parts |-> <<>>, size |-> 0]

\* Plausible bug: a piece is full when the paragraph alone is.
FullAlone(piece, p) == piece.size > 0 /\ p.size > ChunkTarget

Full(piece, p) == piece.size > 0 /\ piece.size + p.size > ChunkTarget

\* Plausible bug: a paragraph that is cut goes before what was gathered.
TakeCutting(acc, p) ==
    IF p.size > ChunkMax THEN [acc EXCEPT !.out = @ \o Cuts(p)]
    ELSE LET a == IF Full(acc.cur, p) THEN [out |-> Append(acc.out, acc.cur), cur |-> NoPiece] ELSE acc
         IN [a EXCEPT !.cur = [parts |-> Append(@.parts, Whole(p)),
                               size |-> @.size + p.size + (IF @.size > 0 THEN 2 ELSE 0)]]

Take(acc, p) ==
    LET a == IF Full(acc.cur, p) THEN [out |-> Append(acc.out, acc.cur), cur |-> NoPiece] ELSE acc
    IN IF p.size > ChunkMax THEN [a EXCEPT !.out = @ \o Cuts(p)]
       ELSE [a EXCEPT !.cur = [parts |-> Append(@.parts, Whole(p)),
                               size |-> @.size + p.size + (IF @.size > 0 THEN 2 ELSE 0)]]

\* After n of the paragraphs, for each n.
TakenUpTo(all) ==
    LET acc[n \in 0 .. Len(all)] ==
            IF n = 0 THEN [out |-> <<>>, cur |-> NoPiece] ELSE Take(acc[n - 1], all[n])
    IN acc

Pieces(ls) ==
    LET all == Paragraphs(ls)
        end == TakenUpTo(all)[Len(all)]
    IN IF SizeOf(ls) <= ChunkMax
       THEN <<[parts |-> [n \in DOMAIN all |-> Whole(all[n])], size |-> SizeOf(ls)]>>
       ELSE IF end.cur.size = 0 THEN end.out ELSE Append(end.out, end.cur)

-----------------------------------------------------------------------------
(* BuildChunks *)

HeaderLine == [at |-> 0, size |-> header, level |-> 0]
WithHeader(ls) == IF header = 0 THEN ls ELSE <<HeaderLine, [HeaderLine EXCEPT !.size = 0]>> \o ls

\* add leaves out what is blank.
ChunksOf(section, ls) ==
    LET pieces == Pieces(ls)
    IN FlattenSeq([n \in DOMAIN pieces |->
          IF \E k \in DOMAIN pieces[n].parts : pieces[n].parts[k].lines # <<>>
          THEN <<[heading |-> section.heading, parts |-> pieces[n].parts, size |-> pieces[n].size]>>
          ELSE <<>>])

OnlyHeader == IF header = 0 THEN <<>>
              ELSE <<[heading |-> <<>>, size |-> header,
                      parts |-> <<Whole([lines |-> <<0>>, size |-> header])>>]>>

Chunks ==
    LET sections == Sections(Lines)
        all == FlattenSeq([n \in DOMAIN sections |->
                  ChunksOf(sections[n], IF n = 1 THEN WithHeader(sections[n].body)
                                        ELSE sections[n].body)])
    IN IF all = <<>> THEN OnlyHeader ELSE all

-----------------------------------------------------------------------------
(* Properties. *)

\* Reading order: a block before its children, and these before its next sibling.
Before(p, q) ==
    \/ IsStrictPrefix(p, q)
    \/ \E n \in DOMAIN p \cap DOMAIN q : p[n] < q[n] /\ \A m \in 1 .. n - 1 : p[m] = q[m]

(***************************************************************************)
(* MaxBlocksPerPage caps one page's block tree; MaxBlockDepth bounds the   *)
(* recursion.  What is kept of a page is its beginning, in reading order:  *)
(* nothing is left out in the middle, and only where the blocks run out.   *)
(***************************************************************************)
KeepsTheBeginning ==
    /\ Cardinality(Paths) < MaxBlocks
    /\ \A p \in Paths : Len(p) <= MaxDepth
    /\ pc = "done" =>
         \A p \in DOMAIN answered : \A n \in 1 .. answered[p] :
            Append(p, n) \notin Paths =>
               /\ Cardinality(Paths) = MaxBlocks - 1
               /\ \A q \in Paths : Before(q, Append(p, n))

(***************************************************************************)
(* chunkMax's comment: one enormous paragraph cannot blow past the model's *)
(* token window.                                                           *)
(***************************************************************************)
ChunksFit ==
    pc = "done" => LET chunks == Chunks IN \A n \in DOMAIN chunks : chunks[n].size <= ChunkMax

(***************************************************************************)
(* The same of what splitBySize cuts.  A paragraph cannot, nor one that    *)
(* joins others, nor the title and properties before a body; only those of *)
(* a page without a body are not cut.                                      *)
(***************************************************************************)
CutTextFits ==
    pc = "done" => LET chunks == Chunks IN
                   chunks = OnlyHeader \/ \A n \in DOMAIN chunks : chunks[n].size <= ChunkMax

\* p is of earlier lines, or an earlier part of the same.
Precedes(p, q) ==
    \/ \A a \in ToSet(p.lines), b \in ToSet(q.lines) : a < b
    \/ p.lines = q.lines /\ p.to < q.from

InOrder(chunks) ==
    \A m, n \in DOMAIN chunks : \A j \in DOMAIN chunks[m].parts, k \in DOMAIN chunks[n].parts :
       m < n \/ (m = n /\ j < k) => Precedes(chunks[m].parts[j], chunks[n].parts[k])

\* Every rune of a paragraph is there; a blank one may be left out.
WithoutGaps(chunks) ==
    \A n \in DOMAIN chunks : \A k \in DOMAIN chunks[n].parts :
       LET p == chunks[n].parts[k] IN
       p.lines # <<>> =>
         \A rune \in 1 .. p.all : \E m \in DOMAIN chunks : \E j \in DOMAIN chunks[m].parts :
            LET q == chunks[m].parts[j] IN q.lines = p.lines /\ q.from <= rune /\ rune <= q.to

Covers(chunks, lines) ==
    \A l \in lines : \E n \in DOMAIN chunks : \E k \in DOMAIN chunks[n].parts :
       l \in ToSet(chunks[n].parts[k].lines)

BodyLines(ls) == {n \in DOMAIN ls : ls[n].size > 0 /\ ls[n].level = 0}

(***************************************************************************)
(* Every line of the body that is no heading is in the index, all of it    *)
(* and once, in the order of the page; the title and properties come       *)
(* first, also when there is no body.                                      *)
(***************************************************************************)
TextIsChunkedOnce ==
    pc = "done" => LET chunks == Chunks IN
                   /\ Covers(chunks, BodyLines(Lines) \cup (IF header = 0 THEN {} ELSE {0}))
                   /\ InOrder(chunks) /\ WithoutGaps(chunks)

\* The headings that line n of ls is under: no later one before it is of their level or above.
Above(ls, n) ==
    {m \in 1 .. n - 1 :
       /\ ls[m].level > 0
       /\ \A k \in m + 1 .. n - 1 : ls[k].level = 0 \/ ls[k].level > ls[m].level}

\* No heading is more than a level below the one it is under.
Regular(ls) ==
    \A n \in DOMAIN ls : ls[n].level > 1 =>
       \E m \in Above(ls, n) : ls[m].level = ls[n].level - 1

\* The headings from the outermost to the innermost.
IsPathOf(path, headings) ==
    /\ ToSet(path) = headings
    /\ \A i, j \in DOMAIN path : i < j => path[i] < path[j]

HeadedBy(ls, chunk) ==
    \A n \in DOMAIN chunk.parts : \A l \in ToSet(chunk.parts[n].lines) :
       l > 0 => IsPathOf(chunk.heading, Above(ls, l))

(***************************************************************************)
(* splitSections' comment: it keeps the heading path as context.  The      *)
(* heading of a chunk is the path of headings its text is under.           *)
(***************************************************************************)
HeadingIsPath ==
    pc = "done" => LET ls == Lines chunks == Chunks IN
                   \A n \in DOMAIN chunks : HeadedBy(ls, chunks[n])

\* The same of a page whose headings do not skip a level.
RegularHeadingIsPath == pc = "done" /\ Regular(Lines) => HeadingIsPath
=============================================================================
