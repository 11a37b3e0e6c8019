SPECIFICATION Spec
CONSTANTS
    MaxNodes = 3
    MaxDepartures = 1
INVARIANT FramesAreOpenElements
\* The document ends.
CHECK_DEADLOCK FALSE
