\* Paragraphs and headings of two levels.
SPECIFICATION Spec
CONSTANTS
    Answers <- FlatAnswers
    Headers = {0}
    MaxDepth = 1
    MaxBlocks = 5
    ChunkTarget = 4
    ChunkMax = 6
    CloseSize = 1
INVARIANTS
    HeadingIsPath
CHECK_DEADLOCK FALSE
