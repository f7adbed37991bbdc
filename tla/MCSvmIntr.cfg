SPECIFICATION Spec
CONSTANTS
    Irqs = {0, 1, 15}
    HostIrqs = {1, 15}
    Icw1Words <- MCIcw1Words
    Bases = {8, 112}
    Masks = {{}}
    Ocw3Words = {2}
    Exceptions <- MCExceptions
    NoLine = NoLine
INVARIANTS
    NoInvalidInterrupt
    NumberIsProgrammed
    ExceptionInjected
CHECK_DEADLOCK FALSE
