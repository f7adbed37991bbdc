CONSTANTS
    BYTE = 2
    pit_reload = 2
    LongMode = FALSE
    Channels = {0}
    Cycles = {1, 2, 7}
    Modes = {0, 1, 2, 3}
    AccessModes = {0, 1, 2, 3}
    BadCommands = TRUE
    BatchLimit = 6
    Commands <- MCCommands
SPECIFICATION PitFairSpec
INVARIANTS TimeConserved LatchCoherent BatchIsStepwise
PROPERTIES OneInterruptPerCount RateGenTicks
CHECK_DEADLOCK FALSE
