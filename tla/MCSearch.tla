------------------------------ MODULE MCSearch -----------------------------
(* Instances of Search for TLC. *)
EXTENDS Search

\* Two sections, or one.
TwoBodies == <<<<1, 2>>, <<3>>>>

\* The chunks of the pages' bodies, page by page.
PageSeq == SetToSortSeq(Pages, <)
Laid(body) ==
    LET built == FlattenSeq([n \in DOMAIN PageSeq |->
                    IF body[PageSeq[n]] = 0 THEN <<>>
                    ELSE BuildChunks(PageSeq[n], <<1, 1>>, body[PageSeq[n]])])
    IN [i \in Ids |-> IF i <= Len(built) THEN built[i] ELSE NoChunk]

\* Three pages, the first of two sections; or two, one of which has not been read yet
\* (what was the second is out of the index).
AllRead == [p \in Pages |-> IF p = 1 THEN 1 ELSE 2]
FirstRead == [p \in Pages |-> IF p = 1 THEN 1 ELSE 0]
ThreePages == [body |-> AllRead, trashed |-> {}, chunks |-> Laid(AllRead)]
PageToCome == [body |-> FirstRead, trashed |-> {2}, chunks |-> Laid(FirstRead)]
SomeLayouts == {ThreePages, PageToCome}
LastShort == {ThreePages}

\* Every page as it was first stored, or the first edited once more.
NoEdits == [p \in Pages |-> 1]
FirstTwice == [p \in Pages |-> IF p = 1 THEN 2 ELSE 1]

\* The third page hangs off the second, the first off the third.
Links == {[from |-> 3, to |-> 2], [from |-> 1, to |-> 3]}

Ask == [mode |-> "", limit |-> 0, candidates |-> 0, literal |-> FALSE, only |-> {},
        after |-> 0, before |-> 0, expand |-> FALSE]

\* A question cut short; one by its words that asks for relations; one of the
\* vectors only, of two pages.
SomeQueries ==
    {[Ask EXCEPT !.limit = 2, !.candidates = 2],
     [Ask EXCEPT !.mode = "keyword", !.limit = 1, !.expand = TRUE],
     [Ask EXCEPT !.mode = "vector", !.only = Pages \ {2}, !.before = 1]}

PlainQuery == {Ask}
ExpandQuery == {[Ask EXCEPT !.expand = TRUE]}
=============================================================================
