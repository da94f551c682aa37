\* Answers of two blocks of any kind or four plain ones, two levels, five blocks in all.
SPECIFICATION Spec
CONSTANTS
    Answers <- SomeAnswers
    Headers = {0, 3, 8}
    MaxDepth = 2
    MaxBlocks = 5
    ChunkTarget = 4
    ChunkMax = 6
    CloseSize = 1
INVARIANTS
    KeepsTheBeginning
    CutTextFits
    TextIsChunkedOnce
    RegularHeadingIsPath
CHECK_DEADLOCK FALSE
