\* One process, one failed write.
SPECIFICATION Spec
CONSTANTS
    Writers = {w1}
    Sizes <- MC_Sizes
    MaxSaves = 3
    MaxMishaps = 1
INVARIANT EverySaveIsALine
CHECK_DEADLOCK FALSE
