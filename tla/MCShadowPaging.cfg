SPECIFICATION Spec
CONSTANTS
    Dirs <- MCDirs
    Indexes <- MCIndexes
    Pages = {0, 11, 13, 18}
    Dir <- MCDir
    Index <- MCIndex
    LargeFrame <- MCLargeFrame
    CR3s = {1, 5}
    PtFrames = {2}
    PDEs <- MCPDEs
    PTEs <- MCPTEs
    Users = {FALSE}
    Hooked = {4}
    Invalid = {9}
    QuietBoot = TRUE
    Kinds = {FALSE}
    Tables = {2, 9}
    Mapped = {3, 4, 9}
    Supervisor = {FALSE}
    Behaved = TRUE
INVARIANTS CacheTracksTables
PROPERTIES Transparent DirtyBeforeWrite
CHECK_DEADLOCK FALSE
