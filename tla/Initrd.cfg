SPECIFICATION Spec
CONSTANTS
    Span = 192
    Page = 8
    KERN_BASE = 40
    IdenPages = 1
    ImageFrame = 2
    BaseFrames = 4
    Frames = 7
    Block = 8
    NUM_TARFILES = 3
    MaxClosed = 2
    Strays <- MCStrays
    Archives <- MCArchives
    Tails <- MCTails
    TagLists <- MCTagLists
    Contents <- MCContents
    Offsets = {0, 1, 9, 191}
    Sizes = {0, 2, 9, 191}
INVARIANTS
    WalkFindsEntries
    AnswersAreRight
    ImageIsComplete
PROPERTIES
    KernelUntouched
CHECK_DEADLOCK FALSE
