SPECIFICATION ProcessSpec
CONSTANTS
    NumUrls = 2
    RunLimits <- MC_RunLimits
    MaxCrawls = 6
    Overrides <- MC_Overrides
    Dotenvs <- MC_Dotenvs
    Environments <- MC_Environments
    MaxEarlierCalls = 1
INVARIANTS
    ProcessTypeOK
    LoggerIsWhole
    StartupIsOrdered
    SessionIsConfigured
    RuntimeIsOwned
    SavedFollowsPrinted
    ExitTellsWhatHappened
    PassesAreComplete
PROPERTIES
    BoundedRunsEnd
\* The process ends.
CHECK_DEADLOCK FALSE
