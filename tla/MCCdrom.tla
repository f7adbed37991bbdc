------------------------------- MODULE MCCdrom -------------------------------
EXTENDS Cdrom

\* The sector count that reads like the wish for a packet.
MCReasons == {CMD}

\* One packet per way through the handler: READs inside, at and past the end of
\* a disc of three blocks and of a length that wraps, replies shorter than their
\* space, longer, odd and of no stated length.
MCPackets ==
    [op : {"nop", "illegal", "unsupported"}, media : BOOLEAN]
    \cup [op : {"eject"}, media : {FALSE}]
    \cup [op : {"seek"}, media : {TRUE}, lba : {3, 4}]
    \cup [op : {"capacity"}, media : {TRUE}, size : {4}, alloc : {4}]
    \cup [op : {"data"}, media : {FALSE}, size : {4}, alloc : {0, 3}]
    \cup [op : {"data"}, media : {TRUE}, size : {4}, alloc : {6}]
    \cup [op : {"read"}, media : {TRUE}, lba : {2}, length : {0, 1, 2}]
    \cup [op : {"read"}, media : {TRUE}, lba : {1, 7}, length : {2}]
=============================================================================
