----------------------------- MODULE ShadowMap -----------------------------
(***************************************************************************)
(* The guest-physical memory map of palacios/src/palacios/vmm_mem.c, and   *)
(* the calls with which v3_config_guest (vmm_config.c) fills it in.        *)
(*                                                                         *)
(* Addresses are page numbers.  The list that head and next link is a      *)
(* sequence; nothing reads prev.  A host address is a block that           *)
(* V3_AllocPages returned (numbered by the call that uses it; block 0 is   *)
(* the host's own physical memory, which some regions pass through) and    *)
(* the page inside it.                                                     *)
(***************************************************************************)
EXTENDS Integers, Sequences

CONSTANTS
    RomSizes,   \* the sizes in pages of the rombios images
    VgaSizes,   \* the sizes in pages of the vgabios images
    Probes      \* the guest pages whose translation is observed

\* Nothing in the code bounds the images.  A vgabios of more than 48 pages
\* (192 KB) would reach into the rombios, then the only region and the head of
\* the list: add_shadow_region compares only the start of the head with such a
\* region and links it behind, so the properties below are claimed for the
\* other sizes alone.
ASSUME SizesAssumption ==
    /\ RomSizes \subseteq Nat
    /\ VgaSizes \subseteq 0..48
ASSUME ProbesAssumption == Probes \subseteq Nat

VARIABLES
    map,        \* the shadow regions in list order
    rom, vga,   \* config_ptr->rombios_size and vgabios_size, in pages
    call,       \* the call v3_config_guest makes next
    rejected    \* the calls that returned -1, which v3_config_guest ignores

mapVars == <<map, rom, vga, call, rejected>>

-----------------------------------------------------------------------------
(* vmm_mem.c *)

InvalidRegion == "HOST_REGION_INVALID"
PhysicalMemory == "HOST_REGION_PHYSICAL_MEMORY"

Region(start, end, block, page) ==
    [start |-> start, end |-> end, type |-> PhysicalMemory,
     block |-> block, page |-> page]

\* add_shadow_region at the head of the list, the first return 0.
AddsAtHead(m, r) == m = <<>> \/ m[1].start >= r.end

\* The comparison add_shadow_region makes with the cursor.
CursorOverlaps(c, r) == c.end > r.start /\ c.start < r.start

\* A cursor that stops one region early.
AdvancesShort(m, r, i) ==
    /\ i + 1 < Len(m)
    /\ ~ m[i + 1].start >= r.end
    /\ m[i + 1].end <= r.start
    /\ ~ CursorOverlaps(m[i], r)

\* The cursor moves from region i to the next one.
Advances(m, r, i) ==
    /\ i < Len(m)
    /\ ~ m[i + 1].start >= r.end
    /\ m[i + 1].end <= r.start
    /\ ~ CursorOverlaps(m[i], r)

\* The region the loop stops at.
CursorStops(m, r, i) ==
    /\ i \in 1..Len(m)
    /\ ~ Advances(m, r, i)
    /\ \A j \in 1..(i - 1) : Advances(m, r, j)

LastCursor(m, r) == CHOOSE i \in 1..Len(m) : CursorStops(m, r, i)

\* A branch that only reports the overlap, without return -1.
NeverRejects(m, r) == FALSE

\* The two ways add_shadow_region returns -1: the cursor overlaps the new
\* region, or the next one does, the branch marked "This cannot happen!".
Rejects(m, r) ==
    /\ ~ AddsAtHead(m, r)
    /\ LET i == LastCursor(m, r)
       IN  \/ CursorOverlaps(m[i], r)
           \/ /\ i < Len(m)
              /\ ~ m[i + 1].start >= r.end

\* The list with r in position p.
Linked(m, r, p) ==
    [k \in 1..(Len(m) + 1) |-> IF k < p THEN m[k] ELSE IF k = p THEN r ELSE m[k - 1]]

add_shadow_region(m, r) ==
    IF AddsAtHead(m, r) THEN Linked(m, r, 1)
    ELSE IF Rejects(m, r) THEN m
    ELSE Linked(m, r, LastCursor(m, r) + 1)

\* get_shadow_region_by_addr: the walk ends at the first region that holds
\* the page or starts behind it.
Holds(r, a) == r.start <= a /\ r.end > a

\* The early exit with its comparison the wrong way round.
WalkEndsBelow(m, a, i) ==
    /\ i \in 1..Len(m)
    /\ Holds(m[i], a) \/ m[i].start < a
    /\ \A j \in 1..(i - 1) : ~ (Holds(m[j], a) \/ m[j].start < a)

WalkEnds(m, a, i) ==
    /\ i \in 1..Len(m)
    /\ Holds(m[i], a) \/ m[i].start > a
    /\ \A j \in 1..(i - 1) : ~ (Holds(m[j], a) \/ m[j].start > a)

NoRegion == 0

get_shadow_region_by_addr(m, a) ==
    IF \E i \in 1..Len(m) : WalkEnds(m, a, i)
    THEN LET i == CHOOSE i \in 1..Len(m) : WalkEnds(m, a, i)
         IN  IF Holds(m[i], a) THEN i ELSE NoRegion
    ELSE NoRegion

\* The offset in the region taken for the host address.
LookupOffset(m, a) ==
    LET i == get_shadow_region_by_addr(m, a)
    IN  IF i = NoRegion
        THEN [type |-> InvalidRegion, block |-> 0, page |-> 0]
        ELSE [type |-> m[i].type, block |-> m[i].block, page |-> a - m[i].start]

\* lookup_shadow_map_addr: the type of the page's region and its host page.
lookup_shadow_map_addr(m, a) ==
    LET i == get_shadow_region_by_addr(m, a)
    IN  IF i = NoRegion
        THEN [type |-> InvalidRegion, block |-> 0, page |-> 0]
        ELSE [type |-> m[i].type, block |-> m[i].block,
              page |-> (a - m[i].start) + m[i].page]

-----------------------------------------------------------------------------
(* v3_config_guest *)

NumCalls == 9

\* The region of the n-th call of add_shadow_region_passthrough.
ConfigRegion(n, r, v) ==
    CASE n = 1 -> Region(240, 240 + r, 1, 0)        \* ROMBIOS_START 0xf0000
      [] n = 2 -> Region(192, 192 + v, 2, 0)        \* VGABIOS_START 0xc0000
      [] n = 3 -> Region(0, 160, 3, 0)              \* 0x0 to 0xa0000
      [] n = 4 -> Region(160, 192, 0, 160)          \* to 0xc0000, passed through
      [] n = 5 -> Region(199, 200, 5, 0)            \* 0xc7000 to 0xc8000
      [] n = 6 -> Region(200, 240, 6, 0)            \* to 0xf0000
      [] n = 7 -> Region(256, 4096, 7, 0)           \* 0x100000 to 0x1000000
      [] n = 8 -> Region(4096, 32768, 8, 0)         \* to 0x8000000
      [] OTHER -> Region(786432, 1048576, 0, 786432) \* 0xc0000000, passed through

\* The pages V3_AllocPages returns for the n-th call, 0 if it allocates none.
BlockPages(n, r, v) == <<r, v, 160, 0, 1, 40, 4096, 32768, 0>>[n]

MapInit ==
    /\ map = <<>>
    /\ rom \in RomSizes
    /\ vga \in VgaSizes
    /\ call = 1
    /\ rejected = {}

AddShadowRegionPassthrough ==
    /\ call <= NumCalls
    /\ LET r == ConfigRegion(call, rom, vga)
       IN  /\ map' = add_shadow_region(map, r)
           /\ rejected' = IF Rejects(map, r) THEN rejected \union {call} ELSE rejected
    /\ call' = call + 1
    /\ UNCHANGED <<rom, vga>>

MapNext == AddShadowRegionPassthrough

MapSpec == MapInit /\ [][MapNext]_mapVars

-----------------------------------------------------------------------------
(* Properties *)

Regions ==
    {r \in [start : Nat, end : Nat, type : {PhysicalMemory}, block : 0..NumCalls, page : Nat] :
        r.start <= r.end}

\* The map is a list of regions of physical memory, and v3_config_guest is at
\* one of its calls.
MapTypeOK ==
    /\ map \in Seq(Regions)
    /\ rom \in RomSizes
    /\ vga \in VgaSizes
    /\ call \in 1..(NumCalls + 1)
    /\ rejected \subseteq 1..NumCalls

Sorted(m) == \A i, j \in 1..Len(m) : i < j => m[i].end <= m[j].start

Overlap(r, s) == r.start < s.end /\ s.start < r.end

\* The list stays sorted and its regions disjoint, what the early exit of
\* get_shadow_region_by_addr and every later insertion rely on.
Ordered == Sorted(map)

\* A call of add_shadow_region fails when its region overlaps one of the map,
\* and only then.
RejectsExactlyOverlaps ==
    [][LET r == ConfigRegion(call, rom, vga)
       IN  Rejects(map, r) <=> \E i \in 1..Len(map) : Overlap(map[i], r)]_mapVars

\* Adding a region never changes the translation of a page that has one: the
\* pages the shadow page tables already point to stay the right ones.
TranslationsStable ==
    [][\A a \in Probes :
          get_shadow_region_by_addr(map, a) # NoRegion
             => lookup_shadow_map_addr(map', a) = lookup_shadow_map_addr(map, a)]_mapVars

\* The walk of get_shadow_region_by_addr finds a region whenever some region
\* of the list holds the page.
WalkComplete ==
    \A a \in Probes :
       (\E i \in 1..Len(map) : Holds(map[i], a)) => get_shadow_region_by_addr(map, a) # NoRegion

\* A translated page lies inside the block that v3_config_guest allocated for
\* its region: the guest reaches no host page beyond its own memory.
BackedByBlock ==
    \A a \in Probes :
       LET h == lookup_shadow_map_addr(map, a)
       IN  h.type # InvalidRegion /\ h.block # 0 => h.page < BlockPages(h.block, rom, vga)

\* No two guest pages share a host page.
NoAliases ==
    \A a, b \in Probes :
       LET g == lookup_shadow_map_addr(map, a)
           h == lookup_shadow_map_addr(map, b)
       IN  a # b /\ g.type # InvalidRegion => g # h

=============================================================================
