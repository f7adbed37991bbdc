SPECIFICATION Spec
CONSTANTS
    BLOCK = 6
    PACKET_SIZE = 4
    ID_SIZE = 4
    COUNT_MAX = 5
    SIGNATURE = 4
    WORD = 8
    Capacity = 3
    MAX_LENGTH = 2
    Lengths = {2, 4}
    Counts = {3, 5}
    Reasons <- MCReasons
    Packets <- MCPackets
INVARIANTS
    BlocksInOrder
    KeepsItsPlace
PROPERTIES
    ReadEndsComplete
    PartsAnnounced
CHECK_DEADLOCK FALSE
