---------------------------- MODULE MCShadowPaging ----------------------------
(***************************************************************************)
(* A guest with one page directory (frame 1), one page table (frame 2) and  *)
(* a data page (frame 3). Directory entry 0 refers to the page table and    *)
(* entry 1 is a large page through which the guest sees frames 1 to 3.      *)
(***************************************************************************)
EXTENDS ShadowPaging

CONSTANTS
    Kinds,       \* whether entry 0 may be a large page too
    Tables,      \* frames that entry 0 may give as its page table
    Mapped,      \* frames that page table entries refer to
    Supervisor,  \* whether a page may be kept from user mode
    Behaved      \* whether the guest is a WellBehavedGuest

MCDirs == {0, 1}
MCIndexes == {0}
MCDir(v) == IF v < 10 THEN 0 ELSE 1
MCIndex(v) == v % 10
\* Page 0 lies in entry 0; pages 10 to 14 are the frames of the large page.
MCLargeFrame(v) == IF v < 10 THEN 3 ELSE v - 9

Entry(p, w, u, large, d, pt) == [p |-> p, w |-> w, u |-> u, large |-> large, d |-> d, pt |-> pt]
UserBits == {TRUE} \cup {~ s : s \in Supervisor}
MCPDEs(i) ==
    IF i = 0
    THEN {Entry(p, w, u, l, FALSE, t) : p \in BOOLEAN, w \in BOOLEAN, u \in UserBits, l \in Kinds, t \in Tables}
    ELSE {Entry(TRUE, TRUE, TRUE, TRUE, d, 2) : d \in BOOLEAN}
MCPTEs ==
    {[p |-> TRUE, w |-> w, u |-> u, d |-> d, frame |-> f] :
        w \in BOOLEAN, u \in UserBits, d \in BOOLEAN, f \in Mapped}
    \cup {[p |-> FALSE, w |-> FALSE, u |-> FALSE, d |-> FALSE, frame |-> 3]}

ASSUME Behaved <=> WellBehavedGuest
=============================================================================
