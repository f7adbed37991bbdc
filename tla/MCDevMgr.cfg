SPECIFICATION DevSpec
CONSTANTS
    Ports <- PortsDef
    Devs <- DevsDef
    NoDev = "none"
    GenericRanges <- RangesDef
INVARIANTS
    RecordsAgree
    DevicesComplete
    ListWellFormed
PROPERTIES
    ImplementsIoPorts
CHECK_DEADLOCK FALSE
