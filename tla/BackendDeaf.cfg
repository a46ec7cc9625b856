SPECIFICATION BackendSpec
INVARIANTS
    ReadsUntilEOF
CONSTANTS
    call1 = call1
    call2 = call2
    None = None
    Call = {call1}
    MaxAsks = 1
    MaxChanges = 1
    Complete <- MCComplete
