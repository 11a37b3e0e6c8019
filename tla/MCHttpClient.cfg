SPECIFICATION Spec
CONSTANTS
    Hosts = {h1, h2}
    NoHost = NoHost
    Methods <- MC_Methods
    MaxAttempts = 3
    BackoffBase = 3
    BackoffMax = 5
    MinInterval = 4
    Durations <- MC_Durations
    Pauses <- MC_Pauses
    MaxOversleep = 1
    MaxSends = 3
INVARIANTS
    TypeOK
    Polite
    RetryGap
    RetriesAreSafe
    ResultIsHonest
PROPERTIES
    EverySendEnds
    KeepsPromise
\* The client rests when no caller calls again.
CHECK_DEADLOCK FALSE
