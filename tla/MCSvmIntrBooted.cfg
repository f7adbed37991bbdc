SPECIFICATION LiveSpec
CONSTANTS
    Irqs = {0, 1, 15}
    HostIrqs = {1, 15}
    Icw1Words = {}
    Bases = {}
    Masks <- MCMasks
    Ocw3Words = {}
    Exceptions = {}
    NoLine = NoLine
INVARIANTS
    InjectedIsAccounted
PROPERTIES
    RequestsServed
CHECK_DEADLOCK FALSE
