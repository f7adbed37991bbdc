SPECIFICATION FairSpec
CONSTANTS
    Dirs <- MCDirs
    Indexes <- MCIndexes
    Pages = {0, 10}
    Dir <- MCDir
    Index <- MCIndex
    LargeFrame <- MCLargeFrame
    CR3s = {1}
    PtFrames = {2}
    PDEs <- MCPDEs
    PTEs <- MCPTEs
    Users = {FALSE, TRUE}
    Hooked = {}
    Invalid = {}
    QuietBoot = TRUE
    Kinds = {FALSE}
    Tables = {2}
    Mapped = {3}
    Supervisor = {FALSE, TRUE}
    Behaved = TRUE
PROPERTIES DeniedAccessesFault AccessesEnd
CHECK_DEADLOCK FALSE
