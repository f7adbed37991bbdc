----------------------------- MODULE ShadowPaging -----------------------------
(***************************************************************************)
(* Shadow paging for a 32 bit guest (vmm_shadow_paging.c, the CR0 and CR3   *)
(* handlers of vmm_ctrl_regs.c, the access checks of vmm_paging.c).         *)
(*                                                                         *)
(* The guest's page tables lie in guest frames, so the guest changes them   *)
(* by stores through its own mappings, or freely while paging is off. The   *)
(* hardware walks the shadow tables, which page faults fill in. A store to  *)
(* a frame that holds a table is noticed when the shadow maps the frame     *)
(* read-only, and only then is the shadow rebuilt at the next CR3 write.    *)
(*                                                                         *)
(* A directory entry that is not present keeps its address. The TLB is      *)
(* flushed on every entry and CR0.WP is set: the hardware uses exactly the  *)
(* shadow entries. One virtual CPU: a handler is one step.                  *)
(***************************************************************************)
EXTENDS Naturals

CONSTANTS
    Dirs,         \* indices of the page directory
    Indexes,      \* indices of a page table
    Pages,        \* the virtual pages the guest uses
    Dir(_),       \* the directory index of a page
    Index(_),     \* the page table index of a page
    LargeFrame(_),\* the frame of a page that lies in a large page
    CR3s,         \* frames of page directories, none of them 0
    PtFrames,     \* frames of page tables
    PDEs(_),      \* values the guest writes to a directory entry
    PTEs,         \* values the guest writes to a page table entry
    Users,        \* whether accesses come from user mode
    Hooked,       \* frames handled by handle_special_page_fault
    Invalid,      \* frames outside the guest's memory
    QuietBoot     \* the guest leaves its tables alone while paging is off,
                  \* once it has loaded CR3

Pde == [p : BOOLEAN, w : BOOLEAN, u : BOOLEAN, large : BOOLEAN, d : BOOLEAN,
        pt : PtFrames \cup Invalid]
PteFrames == {e.frame : e \in PTEs}
Pte == [p : BOOLEAN, w : BOOLEAN, u : BOOLEAN, d : BOOLEAN, frame : PteFrames]

ASSUME ConstantsAssumption ==
    /\ 0 \notin CR3s /\ CR3s \cap Invalid = {}
    /\ \A v \in Pages : /\ Dir(v) \in Dirs
                       /\ \A e \in PDEs(Dir(v)) : e.large \/ Index(v) \in Indexes
    /\ \A v, x \in Pages : Dir(v) = Dir(x) /\ Index(v) = Index(x) => v = x
    /\ \A i \in Dirs : PDEs(i) \subseteq Pde
    /\ PTEs \subseteq Pte
    /\ Users \subseteq BOOLEAN /\ QuietBoot \in BOOLEAN

VARIABLES
    guest_pd,    \* page directory frame -> index -> entry
    guest_pt,    \* page table frame -> index -> entry
    shadow_pd,   \* directory index -> entry
    shadow_pt,   \* page -> entry
    guest_cr3,
    cached_cr3,  \* 0, or the CR3 the cache was built for
    cached_ptes, \* frames of the cached page tables
    mem_mode,
    access,      \* the access the guest is retrying, or None
    outcome,     \* how the last step ended
    stale_pde,   \* history: directory entries changed since the CR3 write
    stale_pte    \* history: pages whose page table entry changed since the
                 \* CR3 write or their INVLPG
tables == <<guest_pd, guest_pt>>
shadow == <<shadow_pd, shadow_pt>>
cache == <<cached_cr3, cached_ptes>>
stale == <<stale_pde, stale_pte>>
vars == <<tables, shadow, guest_cr3, cache, mem_mode, access, outcome, stale>>

None == [none |-> TRUE]
ShadowPde == [p : BOOLEAN, w : BOOLEAN, u : BOOLEAN]
ShadowFrames == {0} \cup PteFrames \cup {LargeFrame(v) : v \in Pages}
ShadowPte == [p : BOOLEAN, w : BOOLEAN, u : BOOLEAN, frame : ShadowFrames, guest_pt : BOOLEAN]
NoShadowPde == [p |-> FALSE, w |-> FALSE, u |-> FALSE]
NoShadowPte == [p |-> FALSE, w |-> FALSE, u |-> FALSE, frame |-> 0, guest_pt |-> FALSE]

GuestPde(i) == guest_pd[guest_cr3][i]
GuestPte(v) == guest_pt[GuestPde(Dir(v)).pt][Index(v)]

(***************************************************************************)
(* Access checks (vmm_paging.c).                                           *)
(***************************************************************************)

\* can_access_pde32 and can_access_pte32.
CanAccess(e, a) ==
    IF ~ e.p THEN "NOT_PRESENT"
    ELSE IF ~ e.w /\ a.write THEN "WRITE_ERROR"
    ELSE IF ~ e.u /\ a.user THEN "USER_ERROR"
    ELSE "OK"

\* A fault that is passed on only when both tables are blank.
is_guest_pf_blank(guest_access, shadow_access) ==
    guest_access = "NOT_PRESENT" /\ shadow_access = "NOT_PRESENT"

is_guest_pf(guest_access, shadow_access) ==
    /\ guest_access # "OK"
    /\ (shadow_access = "NOT_PRESENT") <=> (guest_access = "NOT_PRESENT")

\* What the hardware lets through.
ShadowAllows(a) ==
    /\ CanAccess(shadow_pd[Dir(a.page)], a) = "OK"
    /\ CanAccess(shadow_pt[a.page], a) = "OK"

(***************************************************************************)
(* Guest stores to its page tables.                                        *)
(***************************************************************************)

\* Entry i of the page directory in frame f.
StorePde(f) ==
    /\ f \in CR3s
    /\ \E i \in Dirs : \E e \in PDEs(i) :
           /\ e # guest_pd[f][i]
           /\ guest_pd' = [guest_pd EXCEPT ![f][i] = e]
           /\ stale_pde' = IF f = guest_cr3 THEN stale_pde \cup {i} ELSE stale_pde
    /\ UNCHANGED <<guest_pt, stale_pte>>

\* Entry k of the page table in frame f.
StorePte(f) ==
    /\ f \in PtFrames
    /\ \E k \in Indexes : \E e \in PTEs :
           /\ e # guest_pt[f][k]
           /\ guest_pt' = [guest_pt EXCEPT ![f][k] = e]
           /\ stale_pte' = stale_pte \cup {v \in Pages : Index(v) = k}
    /\ UNCHANGED <<guest_pd, stale_pde>>

Init ==
    /\ guest_pd \in [CR3s -> {pd \in [Dirs -> UNION {PDEs(i) : i \in Dirs}] :
                                 \A i \in Dirs : pd[i] \in PDEs(i)}]
    /\ guest_pt \in [PtFrames -> [Indexes -> PTEs]]
    /\ shadow_pd = [i \in Dirs |-> NoShadowPde]
    /\ shadow_pt = [v \in Pages |-> NoShadowPte]
    /\ guest_cr3 = 0 /\ cached_cr3 = 0 /\ cached_ptes = {}
    /\ mem_mode = "PHYSICAL_MEM"
    /\ access = None /\ outcome = "ok"
    /\ stale_pde = {} /\ stale_pte = {}

\* The guest begins an access with paging on...
Access(v, w, u) ==
    /\ mem_mode = "VIRTUAL_MEM" /\ access = None /\ outcome # "error"
    /\ access' = [page |-> v, write |-> w, user |-> u]
    /\ outcome' = "ok"
    /\ UNCHANGED <<tables, shadow, guest_cr3, cache, mem_mode, stale>>

\* ... and the hardware lets it through. A store may hit a table.
Perform ==
    /\ access # None /\ ShadowAllows(access)
    /\ \/ /\ access.write
          /\ \/ StorePde(shadow_pt[access.page].frame)
             \/ StorePte(shadow_pt[access.page].frame)
       \/ UNCHANGED <<tables, stale>>
    /\ access' = None /\ outcome' = "ok"
    /\ UNCHANGED <<shadow, guest_cr3, cache, mem_mode>>

\* With paging off every store goes through the direct map.
StorePhysical(f) ==
    /\ mem_mode = "PHYSICAL_MEM" /\ outcome # "error"
    /\ QuietBoot => guest_cr3 = 0
    /\ StorePde(f) \/ StorePte(f)
    /\ UNCHANGED <<shadow, guest_cr3, cache, mem_mode, access, outcome>>

(***************************************************************************)
(* Page faults: handle_shadow_pagefault32.                                 *)
(***************************************************************************)

Fault == access # None /\ ~ ShadowAllows(access)
FaultDir == Dir(access.page)
ShadowPdeAccess == CanAccess(shadow_pd[FaultDir], access)
GuestPdeAccess == CanAccess(GuestPde(FaultDir), access)
ShadowPteAccess == CanAccess(shadow_pt[access.page], access)
GuestPteAccess == CanAccess(GuestPte(access.page), access)

\* inject_guest_pf, a machine check, an emulated access, or an error return that
\* stops the VM: the access is over.
Inject(how) ==
    /\ outcome' = how /\ access' = None
    /\ UNCHANGED <<tables, shadow, guest_cr3, cache, mem_mode, stale>>

\* The guest's directory forbids the access, or the shadow's does and there is
\* no dirty bit to explain it.
PdeInject ==
    /\ \/ is_guest_pf(GuestPdeAccess, ShadowPdeAccess)
       \/ ShadowPdeAccess = "USER_ERROR"
       \/ /\ ShadowPdeAccess = "WRITE_ERROR"
          /\ ~ GuestPde(FaultDir).large \/ GuestPde(FaultDir).d
    /\ Inject("page_fault")

\* The shadow entry takes the guest's write permission, large page or not.
PdeWritableLarge(e) == e.w
\* A large page is read-only until its dirty bit is set.
PdeWritable(e) == ~ e.large /\ e.w

PdeInstall ==
    LET e == GuestPde(FaultDir) IN
    /\ ~ is_guest_pf(GuestPdeAccess, ShadowPdeAccess)
    /\ ShadowPdeAccess = "NOT_PRESENT"
    /\ shadow_pd' = [shadow_pd EXCEPT ![FaultDir] =
                        [p |-> TRUE, w |-> PdeWritable(e), u |-> e.u]]
    /\ shadow_pt' = [v \in Pages |-> IF Dir(v) = FaultDir THEN NoShadowPte ELSE shadow_pt[v]]
    /\ guest_pd' = [guest_pd EXCEPT ![guest_cr3][FaultDir].d = @ /\ ~ e.large]
    /\ outcome' = "ok"
    /\ UNCHANGED <<guest_pt, guest_cr3, cache, mem_mode, access, stale>>

\* Neither the dirty bit nor the permission is set: the write faults again.
PdeDirtyForgotten ==
    /\ ~ is_guest_pf(GuestPdeAccess, ShadowPdeAccess)
    /\ ShadowPdeAccess = "WRITE_ERROR"
    /\ GuestPde(FaultDir).large /\ ~ GuestPde(FaultDir).d
    /\ outcome' = "ok"
    /\ UNCHANGED <<tables, shadow, guest_cr3, cache, mem_mode, access, stale>>

\* The first write to a large page sets its dirty bit.
PdeDirty ==
    /\ ~ is_guest_pf(GuestPdeAccess, ShadowPdeAccess)
    /\ ShadowPdeAccess = "WRITE_ERROR"
    /\ GuestPde(FaultDir).large /\ ~ GuestPde(FaultDir).d
    /\ guest_pd' = [guest_pd EXCEPT ![guest_cr3][FaultDir].d = TRUE]
    /\ shadow_pd' = [shadow_pd EXCEPT ![FaultDir].w = GuestPde(FaultDir).w]
    /\ outcome' = "ok"
    /\ UNCHANGED <<guest_pt, shadow_pt, guest_cr3, cache, mem_mode, access, stale>>

\* The fault is in the page table. The handlers' branch for a shadow entry that
\* permits the access is not reached: the hardware would not have faulted.
PteFault ==
    /\ ~ is_guest_pf(GuestPdeAccess, ShadowPdeAccess)
    /\ ShadowPdeAccess = "OK"

\* The guest's page table is not in its memory.
PtInvalid ==
    /\ PteFault /\ ~ GuestPde(FaultDir).large /\ GuestPde(FaultDir).pt \in Invalid
    /\ Inject("machine_check")

(***************************************************************************)
(* handle_shadow_pte32_fault.                                              *)
(***************************************************************************)

SmallFault ==
    PteFault /\ ~ GuestPde(FaultDir).large /\ GuestPde(FaultDir).pt \notin Invalid

PteInject ==
    /\ SmallFault
    /\ is_guest_pf(GuestPteAccess, ShadowPteAccess)
    /\ Inject("page_fault")

SmallShadowFault == SmallFault /\ ~ is_guest_pf(GuestPteAccess, ShadowPteAccess)

\* handle_special_page_fault emulates the access to a hooked page, or fails to.
Emulate == Inject("emulated") \/ Inject("error")

PteSpecial ==
    /\ SmallShadowFault /\ ShadowPteAccess = "NOT_PRESENT"
    /\ \/ GuestPte(access.page).frame \in Invalid /\ Inject("machine_check")
       \/ GuestPte(access.page).frame \in Hooked /\ Emulate

\* The write to a table's page clears the cache's mark.
Noticed(table) == cached_cr3' = IF table THEN 0 ELSE cached_cr3

\* The guest's page table entry is marked dirty.
SetDirty(v) ==
    guest_pt' = [guest_pt EXCEPT ![GuestPde(Dir(v)).pt][Index(v)].d = TRUE]

\* The entry is copied: writable if it is dirty, or is about to be. The write
\* to a page table is noticed in the latter case only.
PteMap ==
    LET v == access.page
        g == GuestPte(v)
        mark == shadow_pt[v].guest_pt \/ g.frame \in cached_ptes
    IN
    /\ SmallShadowFault /\ ShadowPteAccess = "NOT_PRESENT"
    /\ g.frame \notin Invalid \cup Hooked
    /\ shadow_pt' = [shadow_pt EXCEPT ![v] =
                        [p |-> g.p, u |-> g.u, w |-> g.w /\ (g.d \/ access.write),
                         frame |-> g.frame, guest_pt |-> mark]]
    /\ IF access.write THEN SetDirty(v) ELSE UNCHANGED guest_pt
    /\ Noticed(mark /\ ~ g.d /\ access.write)
    /\ outcome' = "ok"
    /\ UNCHANGED <<guest_pd, shadow_pd, guest_cr3, cached_ptes, mem_mode, access, stale>>

PteDirty ==
    LET v == access.page IN
    /\ SmallShadowFault /\ ShadowPteAccess = "WRITE_ERROR" /\ ~ GuestPte(v).d
    /\ SetDirty(v)
    /\ shadow_pt' = [shadow_pt EXCEPT ![v].w = GuestPte(v).w]
    /\ Noticed(shadow_pt[v].guest_pt)
    /\ outcome' = "ok"
    /\ UNCHANGED <<guest_pd, shadow_pd, guest_cr3, cached_ptes, mem_mode, access, stale>>

\* "PTE Page fault fell through": a fault is injected and the VM is stopped.
PteFell ==
    /\ SmallShadowFault
    /\ \/ ShadowPteAccess = "USER_ERROR"
       \/ ShadowPteAccess = "WRITE_ERROR" /\ GuestPte(access.page).d
    /\ Inject("error")

(***************************************************************************)
(* handle_large_pagefault32.                                               *)
(***************************************************************************)

LargeFault == PteFault /\ GuestPde(FaultDir).large

LargeSpecial ==
    /\ LargeFault /\ ShadowPteAccess = "NOT_PRESENT"
    /\ \/ LargeFrame(access.page) \in Invalid /\ Inject("machine_check")
       \/ LargeFrame(access.page) \in Hooked /\ Emulate

\* The page of a table is marked but left writable.
LargePteUnprotected(f, mark) ==
    [p |-> TRUE, u |-> TRUE, w |-> TRUE, frame |-> f, guest_pt |-> mark \/ f \in cached_ptes]
\* The page of a table is mapped read-only, any other one writable.
LargePte(f, mark) ==
    [p |-> TRUE, u |-> TRUE, w |-> f \notin cached_ptes, frame |-> f,
     guest_pt |-> mark \/ f \in cached_ptes]

LargeMap ==
    LET f == LargeFrame(access.page) IN
    /\ LargeFault /\ ShadowPteAccess = "NOT_PRESENT"
    /\ f \notin Invalid \cup Hooked
    /\ shadow_pt' = [shadow_pt EXCEPT ![access.page] = LargePte(f, @.guest_pt)]
    /\ outcome' = "ok"
    /\ UNCHANGED <<tables, shadow_pd, guest_cr3, cache, mem_mode, access, stale>>

LargeTableWrite ==
    /\ LargeFault /\ ShadowPteAccess = "WRITE_ERROR" /\ shadow_pt[access.page].guest_pt
    /\ shadow_pt' = [shadow_pt EXCEPT ![access.page].w = TRUE]
    /\ Noticed(TRUE)
    /\ outcome' = "ok"
    /\ UNCHANGED <<tables, shadow_pd, guest_cr3, cached_ptes, mem_mode, access, stale>>

\* "Error in large page fault handler": an entry left from a page table.
LargeFell ==
    /\ LargeFault
    /\ \/ ShadowPteAccess = "USER_ERROR"
       \/ ShadowPteAccess = "WRITE_ERROR" /\ ~ shadow_pt[access.page].guest_pt
    /\ Inject("error")

handle_shadow_pagefault32 ==
    /\ Fault
    /\ \/ PdeInject \/ PdeInstall \/ PdeDirty \/ PtInvalid
       \/ PteInject \/ PteSpecial \/ PteMap \/ PteDirty \/ PteFell
       \/ LargeSpecial \/ LargeMap \/ LargeTableWrite \/ LargeFell

(***************************************************************************)
(* Control registers and INVLPG.                                           *)
(***************************************************************************)

\* The page tables that the directory in frame c refers to.
TablesOf(c) == {e.pt : e \in {guest_pd[c][i] : i \in {j \in Dirs :
                                   guest_pd[c][j].p /\ ~ guest_pd[c][j].large}}}

\* v3_cache_page_tables32: the frames of the directory and of its page tables.
Cached(c) == {c} \cup TablesOf(c)

\* Whatever is cached is taken for the new directory.
CacheHitAny(c) == cached_cr3 # 0
CacheHit(c) == c = cached_cr3

\* v3_handle_cr3_write keeps the shadow if the new CR3 is the cached one. It
\* fails, with the mark set, if a page table is not in the guest's memory.
WriteCr3(c) ==
    /\ access = None /\ outcome # "error"
    /\ cached_cr3' = c
    /\ IF CacheHit(c)
       THEN guest_cr3' = c /\ outcome' = "ok" /\ UNCHANGED <<shadow, cached_ptes>>
       ELSE /\ cached_ptes' = Cached(c) \ Invalid
            /\ IF TablesOf(c) \cap Invalid = {}
               THEN /\ guest_cr3' = c /\ outcome' = "ok"
                    /\ shadow_pd' = [i \in Dirs |-> NoShadowPde]
                    /\ shadow_pt' = [v \in Pages |-> NoShadowPte]
               ELSE outcome' = "error" /\ UNCHANGED <<guest_cr3, shadow>>
    /\ stale_pde' = {} /\ stale_pte' = {}
    /\ UNCHANGED <<tables, mem_mode, access>>

\* v3_handle_cr0_write: the shadow tables take effect, or the direct map does.
WriteCr0(mode) ==
    /\ access = None /\ outcome # "error"
    /\ guest_cr3 # 0
    /\ mem_mode # mode /\ mem_mode' = mode
    /\ outcome' = "ok"
    /\ UNCHANGED <<tables, shadow, guest_cr3, cache, access, stale>>

\* v3_handle_shadow_invlpg drops the shadow's directory entry of a large page,
\* and the page table entry of any other page.
Invlpg(v) ==
    /\ access = None /\ outcome # "error"
    /\ mem_mode = "VIRTUAL_MEM"
    /\ IF GuestPde(Dir(v)).large
       THEN /\ shadow_pd' = [shadow_pd EXCEPT ![Dir(v)].p = FALSE]
            /\ UNCHANGED shadow_pt
            /\ stale_pde' = stale_pde \ {Dir(v)}
            /\ stale_pte' = {x \in stale_pte : Dir(x) # Dir(v)}
       ELSE /\ shadow_pt' = [shadow_pt EXCEPT ![v].p = @ /\ ~ shadow_pd[Dir(v)].p]
            /\ stale_pte' = stale_pte \ {v}
            /\ UNCHANGED <<shadow_pd, stale_pde>>
    /\ outcome' = "ok"
    /\ UNCHANGED <<tables, guest_cr3, cache, mem_mode, access>>

Next ==
    \/ \E v \in Pages, w \in BOOLEAN, u \in Users : Access(v, w, u)
    \/ Perform
    \/ \E f \in CR3s \cup PtFrames : StorePhysical(f)
    \/ handle_shadow_pagefault32
    \/ \E c \in CR3s : WriteCr3(c)
    \/ \E mode \in {"PHYSICAL_MEM", "VIRTUAL_MEM"} : WriteCr0(mode)
    \/ \E v \in Pages : Invlpg(v)

Spec == Init /\ [][Next]_vars
\* The guest retries a faulting instruction until it completes.
FairSpec == Spec /\ WF_vars(Perform) /\ WF_vars(handle_shadow_pagefault32)

\* The guests that shadow paging serves faithfully: page tables are reached
\* through large pages only, no two directory entries share one, and nothing
\* is stored to them between the first CR3 load and paging on.
WellBehavedGuest ==
    /\ QuietBoot
    /\ PteFrames \cap (CR3s \cup PtFrames) = {}
    /\ \A i, j \in Dirs : \A e \in PDEs(i), f \in PDEs(j) :
           i # j /\ ~ e.large /\ ~ f.large => e.pt # f.pt

(***************************************************************************)
(* Properties.                                                             *)
(***************************************************************************)

\* The tables, the shadow and the cache keep their types; the cache holds only
\* frames of tables, and paging is on only once CR3 has been loaded.
TypeOK ==
    /\ guest_pd \in [CR3s -> [Dirs -> Pde]]
    /\ guest_pt \in [PtFrames -> [Indexes -> Pte]]
    /\ shadow_pd \in [Dirs -> ShadowPde]
    /\ shadow_pt \in [Pages -> ShadowPte]
    /\ guest_cr3 \in CR3s \cup {0} /\ cached_cr3 \in CR3s \cup {0}
    /\ cached_ptes \subseteq CR3s \cup PtFrames
    /\ mem_mode \in {"PHYSICAL_MEM", "VIRTUAL_MEM"}
    /\ outcome \in {"ok", "page_fault", "machine_check", "emulated", "error"}
    /\ access = None \/ access \in [page : Pages, write : BOOLEAN, user : Users]
    /\ access # None => mem_mode = "VIRTUAL_MEM" /\ outcome = "ok"
    /\ mem_mode = "VIRTUAL_MEM" => guest_cr3 # 0
    /\ stale_pde \subseteq Dirs /\ stale_pte \subseteq Pages

\* Whether the guest's own tables permit an access, and the frame it reaches.
GuestAllows(a) ==
    LET e == GuestPde(Dir(a.page)) IN
    /\ CanAccess(e, a) = "OK"
    /\ e.large \/ e.pt \in Invalid \/ CanAccess(GuestPte(a.page), a) = "OK"
GuestFrame(v) ==
    IF GuestPde(Dir(v)).large THEN LargeFrame(v)
    ELSE IF GuestPde(Dir(v)).pt \in Invalid THEN 0
    ELSE GuestPte(v).frame

\* The access ends in this step, and the guest has flushed what it changed of
\* the entries that translate it.
EndsFlushed ==
    /\ access # None /\ access' = None
    /\ Dir(access.page) \notin stale_pde /\ access.page \notin stale_pte

\* A guest that flushes what it changes cannot tell shadow paging from its own
\* tables: its access faults only if its tables forbid it, goes through only if
\* they permit it and then to the frame they name, and stops the VM only where
\* the emulation of an access to a hooked page fails (handle_shadow_pagefault32 with v3_handle_cr3_write and
\* v3_handle_shadow_invlpg).
Transparent ==
    [][ EndsFlushed =>
          /\ outcome' = "error" => GuestFrame(access.page) \in Hooked
          /\ outcome' = "page_fault" => ~ GuestAllows(access)
          /\ outcome' = "ok" => /\ GuestAllows(access)
                                /\ shadow_pt[access.page].frame = GuestFrame(access.page)
      ]_vars

\* An access that the guest's tables forbid faults in the guest: is_guest_pf
\* puts the fault off only until the shadow entry has been mapped in.
DeniedAccessesFault ==
    [][ EndsFlushed /\ ~ GuestAllows(access) => outcome' = "page_fault" ]_vars

\* While the cache is valid and the VM runs, the tables have not changed behind it: every shadow
\* entry gives the guest's current frame, and no right the guest's current
\* entry lacks. This is what lets v3_handle_cr3_write reuse the shadow.
CacheTracksTables ==
    (cached_cr3 # 0 /\ cached_cr3 = guest_cr3 /\ outcome # "error") =>
        \A v \in Pages :
            LET e == GuestPde(Dir(v))
                s == shadow_pd[Dir(v)]
                t == shadow_pt[v]
            IN s.p => /\ e.p /\ (s.w => e.w) /\ (s.u => e.u)
                      /\ (t.p /\ ~ e.large) => /\ GuestPte(v).p
                                              /\ (t.w => GuestPte(v).w)
                                              /\ (t.u => GuestPte(v).u)
                      /\ t.p => t.frame = GuestFrame(v)

\* A guest page is written only after its dirty bit is set in the guest's
\* tables: PdeInstall and PteMap keep the shadow read-only until then. Entries
\* that the guest has changed since the flush are its own affair.
DirtyBeforeWrite ==
    [][ EndsFlushed /\ outcome' = "ok" /\ access.write =>
          IF GuestPde(Dir(access.page)).large THEN GuestPde(Dir(access.page)).d
          ELSE GuestPte(access.page).d ]_vars

\* Every access ends: a faulting instruction is not retried for ever, whatever
\* the handler finds in the two sets of tables.
AccessesEnd == (access # None) ~> (access = None)
=============================================================================
