SPECIFICATION Spec
CONSTANTS
    NumUrls = 2
    RunLimits <- MC_RunLimits
    MaxCrawls = 6
INVARIANTS
    BatchInterruptIsClean
\* The process ends.
CHECK_DEADLOCK FALSE
