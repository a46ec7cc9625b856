SPECIFICATION FairBackend
INVARIANTS
    TypeOK
    RightAnswers
    NoCallForgotten
    NoQuestionForgotten
    LatestUnlessMissed
    RestartSettlesCalls
PROPERTIES
    Contract
    CallsSettle
    ComesToRest
CONSTANTS
    call1 = call1
    call2 = call2
    None = None
    Call = {call1, call2}
    MaxAsks = 2
    MaxChanges = 4
    Complete <- MCComplete
