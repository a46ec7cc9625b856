SPECIFICATION Spec
INVARIANTS
    TypeOK
    OneMicrophone
    StoppedMeansSilent
    NotStuckListening
CONSTANTS
    first = first
    second = second
    None = None
    Loop <- MCLoop
    MaxPresses = 4
SYMMETRY Alike
