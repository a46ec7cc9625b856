SPECIFICATION FairSpec
INVARIANTS
    TypeOK
    ClosedWhileSteady
    AudioInOrder
    HoldNotOverlooked
PROPERTIES
    HeldAudioIsSent
CONSTANTS
    FrameUnits = 2
    MinChunk = 3
    MaxChunk = 5
    StartFrames = 2
    EndFrames = 2
    MaxUtterFrames = 4
    Ceiling = TRUE
    MaxFrames = 9
    MaxRead = 2
    MaxChanges = 2
