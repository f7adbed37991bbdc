SPECIFICATION MapSpec
CONSTANTS
    RomSizes <- RomSizesDef
    VgaSizes <- VgaSizesDef
    Probes <- ProbesDef
INVARIANTS
    WalkComplete
    NoAliases
PROPERTIES
    RejectsExactlyOverlaps
    TranslationsStable
CHECK_DEADLOCK FALSE
