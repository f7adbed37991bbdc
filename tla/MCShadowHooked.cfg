SPECIFICATION Spec
CONSTANTS
    Dirs <- MCDirs
    Indexes <- MCIndexes
    Pages = {0, 10}
    Dir <- MCDir
    Index <- MCIndex
    LargeFrame <- MCLargeFrame
    CR3s = {1}
    PtFrames = {2}
    PDEs <- MCPDEs
    PTEs <- MCPTEs
    Users = {FALSE}
    Hooked = {4}
    Invalid = {}
    QuietBoot = TRUE
    Kinds = {FALSE}
    Tables = {2}
    Mapped = {3, 4}
    Supervisor = {FALSE}
    Behaved = TRUE
PROPERTY DeniedAccessesFault
CHECK_DEADLOCK FALSE
