\* Title and properties longer than the cap.
SPECIFICATION Spec
CONSTANTS
    Answers <- FlatAnswers
    Headers = {0, 8}
    MaxDepth = 1
    MaxBlocks = 5
    ChunkTarget = 4
    ChunkMax = 6
    CloseSize = 1
INVARIANTS
    ChunksFit
CHECK_DEADLOCK FALSE
