SPECIFICATION Spec
CONSTANTS
    MaxNodes = 4
    MaxDepartures = 1
INVARIANTS
    TypeOK
    ScopesFollowFrames
    BalancedDocumentsAreRead
    DamageIsLocal
    ValuesHaveOnePlace
\* The document ends.
CHECK_DEADLOCK FALSE
