----------------------------- MODULE MCContent -----------------------------
(* Instances of Content for TLC. *)
EXTENDS Content

Text(sizes) == [n \in DOMAIN sizes |-> [size |-> sizes[n], level |-> 0]]
Block(kind, text, children) == [kind |-> kind, text |-> text, children |-> children]
HeadingOf(level) == Block("text", <<[size |-> 2, level |-> level]>>, FALSE)

\* A short paragraph, one above the target, one far above the cap; a list item with
\* children, a toggle, headings, code that looks like one, a page below this one.
SomeBlocks ==
    {Block("text", Text(<<2>>), FALSE), Block("text", Text(<<4>>), FALSE),
     Block("text", Text(<<8>>), FALSE), Block("item", Text(<<2>>), TRUE),
     Block("toggle", Text(<<1>>), TRUE), HeadingOf(1), HeadingOf(2),
     Block("leaf", <<[size |-> 1, level |-> 0], [size |-> 3, level |-> 1]>>, FALSE),
     Block("child", Text(<<2>>), TRUE)}

Flat == {Block("text", Text(<<2>>), FALSE), Block("text", Text(<<4>>), FALSE),
         HeadingOf(1), HeadingOf(2)}

SeqsUpTo(S, n) == UNION {[1 .. k -> S] : k \in 0 .. n}
SomeAnswers == SeqsUpTo(SomeBlocks, 2) \cup SeqsUpTo(Flat, 4)
FlatAnswers == SeqsUpTo(Flat, 4)
=============================================================================
