SPECIFICATION HandsOffSpec
INVARIANTS
    CreateEntryPlacement
CONSTANTS
    text = text
    image = image
    folder = folder
    root = root
    hit1 = hit1
    hit2 = hit2
    NoPath = NoPath
    Path <- MCPath
    Folder <- MCFolder
    Binary <- MCBinary
    WorkspaceRoot = root
    Hit <- MCHit
    HitPath <- MCHitPath
    HitLists <- MCHitLists
    PathLists <- MCPathLists
    MaxPick = 2
    MaxCalls = 1
