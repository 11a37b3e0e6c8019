SPECIFICATION Spec
CONSTANTS
    Writers = {w1, w2}
    Sizes <- MC_Sizes
    MaxSaves = 4
    MaxMishaps = 2
INVARIANTS
    TypeOK
    DamageIsBounded
    WrittenOnce
\* No more items to save.
CHECK_DEADLOCK FALSE
