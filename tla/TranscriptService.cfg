SPECIFICATION FairSpec
INVARIANTS
    TypeOK
    OneAtATime
    ClaimedSessionIsHeard
    NobodyForgotten
PROPERTIES
    SerialSession
    EveryRequestAnswered
CONSTANTS
    say1 = say1
    say2 = say2
    say3 = say3
    cancel = cancel
    None = None
    Spoken <- MCSpoken
    Control = {cancel}
    QueueSize = 1
    MaxCalls = 1
