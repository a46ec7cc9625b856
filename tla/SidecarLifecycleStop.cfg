SPECIFICATION FairSpec
PROPERTIES
    StopIsEchoed
CONSTANTS
    first = first
    second = second
    None = None
    Loop <- MCLoop
    MaxPresses = 4
