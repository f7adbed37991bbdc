-------------------------- MODULE ShadowPagingProofs --------------------------
(***************************************************************************)
(* For every set of frames, pages and entries, a well behaved guest cannot  *)
(* tell shadow paging from its own page tables.                             *)
(*                                                                         *)
(* The shadow is trusted where the guest has flushed its changes, and also  *)
(* where it has not but the cache is valid, for then the next CR3 write      *)
(* keeps the shadow. Sync says what trust means for both levels, and         *)
(* Protected why a valid cache is never wrong: a writable shadow entry never *)
(* leads to a frame of the cached tables.                                   *)
(***************************************************************************)
EXTENDS ShadowPaging, TLAPS

Valid == cached_cr3 # 0 /\ cached_cr3 = guest_cr3
Running == guest_cr3 # 0 /\ outcome # "error"
TrustedDir(i) == i \notin stale_pde \/ Valid
TrustedPage(v) == TrustedDir(Dir(v)) /\ (v \notin stale_pte \/ Valid)

\* A directory entry of the shadow against the guest's.
PdeSync(s, e) ==
    /\ e.p
    /\ s.u = e.u
    /\ s.w => e.w /\ (e.large => e.d)
    /\ e.w /\ ~ s.w => e.large /\ ~ e.d

\* A page table entry of the shadow against the guest's.
PteSync(t, g) ==
    /\ g.p
    /\ t.u = g.u
    /\ t.w => g.w /\ g.d
    /\ g.w /\ ~ t.w => ~ g.d
    /\ t.frame = g.frame

\* A page table entry of the shadow inside a large page.
LargeSync(t, v) ==
    /\ t.u
    /\ ~ t.w => t.guest_pt
    /\ t.frame = LargeFrame(v)

\* The trusted directory entries, and the page tables they refer to.
DirSync(i) ==
    (Running /\ TrustedDir(i)) =>
        /\ shadow_pd[i].p => PdeSync(shadow_pd[i], GuestPde(i))
        /\ GuestPde(i).p /\ ~ GuestPde(i).large => GuestPde(i).pt \notin Invalid

\* The trusted pages.
PageSync(v) ==
    (Running /\ TrustedPage(v) /\ shadow_pd[Dir(v)].p /\ shadow_pt[v].p) =>
        IF GuestPde(Dir(v)).large THEN LargeSync(shadow_pt[v], v)
        ELSE PteSync(shadow_pt[v], GuestPte(v))

\* A valid cache knows the current tables and keeps them read-only.
Protected ==
    (Running /\ Valid) =>
        /\ guest_cr3 \in cached_ptes /\ TablesOf(guest_cr3) \subseteq cached_ptes
        /\ \A v \in Pages :
              shadow_pd[Dir(v)].p /\ shadow_pt[v].p /\ shadow_pt[v].w
              => shadow_pt[v].frame \notin cached_ptes

\* A cache is that of the current directory.
OneCache == outcome # "error" /\ cached_cr3 # 0 => cached_cr3 = guest_cr3

\* Directory entries refer to the page tables that the guest gives them.
OwnTables ==
    \A c \in CR3s, i \in Dirs :
        \E e \in PDEs(i) : guest_pd[c][i].large = e.large /\ guest_pd[c][i].pt = e.pt

Sync ==
    /\ \A i \in Dirs : DirSync(i)
    /\ \A v \in Pages : PageSync(v)
    /\ Protected
    /\ OneCache

TypeInv == TypeOK /\ OwnTables
IInv == TypeInv /\ Sync

-----------------------------------------------------------------------------
(* Updates of tables. *)

\* Storing one entry of one table.
LEMMA EntryStore ==
    ASSUME NEW A, NEW B, NEW T, NEW f \in [A -> [B -> T]],
           NEW a \in A, NEW b \in B, NEW t \in T
    PROVE  /\ [f EXCEPT ![a][b] = t] \in [A -> [B -> T]]
           /\ \A x \in A, y \in B :
                 [f EXCEPT ![a][b] = t][x][y] = IF x = a /\ y = b THEN t ELSE f[x][y]
BY Zenon

\* Changing the dirty bit of an entry keeps its type and its other fields.
LEMMA DirtyPde ==
    ASSUME NEW e \in Pde, NEW x \in BOOLEAN
    PROVE  LET n == [e EXCEPT !.d = x] IN
           n \in Pde /\ n.d = x /\ n.p = e.p /\ n.w = e.w /\ n.u = e.u /\ n.large = e.large /\ n.pt = e.pt
BY Zenon DEF Pde

LEMMA DirtyPte ==
    ASSUME NEW e \in Pte, NEW x \in BOOLEAN
    PROVE  LET n == [e EXCEPT !.d = x] IN
           n \in Pte /\ n.d = x /\ n.p = e.p /\ n.w = e.w /\ n.u = e.u /\ n.frame = e.frame
BY Zenon DEF Pte

\* Two levels of EXCEPT with a field are one store of the changed entry.
LEMMA DirtyStore ==
    ASSUME NEW A, NEW B, NEW f, NEW a \in A, NEW b \in B, NEW x
    PROVE  [f EXCEPT ![a][b].d = x] = [f EXCEPT ![a][b] = [f[a][b] EXCEPT !.d = x]]
BY Zenon

-----------------------------------------------------------------------------
(* Types. *)

\* A guest's store to a page directory.
LEMMA StorePdeType ==
    ASSUME TypeOK, NEW f, StorePde(f)
    PROVE  /\ guest_pd' \in [CR3s -> [Dirs -> Pde]]
           /\ guest_pt' \in [PtFrames -> [Indexes -> Pte]]
           /\ stale_pde' \subseteq Dirs /\ stale_pte' \subseteq Pages
<1>0. PICK i \in Dirs : \E e \in PDEs(i) :
          /\ guest_pd' = [guest_pd EXCEPT ![f][i] = e]
          /\ stale_pde' = IF f = guest_cr3 THEN stale_pde \cup {i} ELSE stale_pde
  BY Zenon DEF StorePde
<1>1. PICK e \in PDEs(i) : /\ guest_pd' = [guest_pd EXCEPT ![f][i] = e]
                           /\ stale_pde' = IF f = guest_cr3 THEN stale_pde \cup {i} ELSE stale_pde
  BY <1>0, Zenon
<1>2. f \in CR3s /\ e \in Pde
  BY ConstantsAssumption, Zenon DEF StorePde
<1>3. guest_pd' \in [CR3s -> [Dirs -> Pde]]
  BY <1>1, <1>2, EntryStore DEF TypeOK
<1> QED BY <1>1, <1>3, Zenon DEF TypeOK, StorePde

\* A guest's store to a page table.
LEMMA StorePteType ==
    ASSUME TypeOK, NEW f, StorePte(f)
    PROVE  /\ guest_pd' \in [CR3s -> [Dirs -> Pde]]
           /\ guest_pt' \in [PtFrames -> [Indexes -> Pte]]
           /\ stale_pde' \subseteq Dirs /\ stale_pte' \subseteq Pages
<1>1. PICK k \in Indexes, e \in PTEs : guest_pt' = [guest_pt EXCEPT ![f][k] = e]
                                     /\ stale_pte' = stale_pte \cup {v \in Pages : Index(v) = k}
  BY Zenon DEF StorePte
<1>2. f \in PtFrames /\ e \in Pte
  BY ConstantsAssumption, Zenon DEF StorePte
<1>3. guest_pt' \in [PtFrames -> [Indexes -> Pte]]
  BY <1>1, <1>2, EntryStore DEF TypeOK
<1> QED BY <1>1, <1>3, Zenon DEF TypeOK, StorePte

\* What a fault may assume about the access and the tables.
LEMMA FaultTypes ==
    ASSUME TypeOK, access # None
    PROVE  /\ access.page \in Pages /\ access.write \in BOOLEAN /\ access.user \in BOOLEAN
           /\ FaultDir \in Dirs /\ guest_cr3 \in CR3s
           /\ GuestPde(FaultDir) \in Pde
           /\ shadow_pd[FaultDir] \in ShadowPde /\ shadow_pt[access.page] \in ShadowPte
BY ConstantsAssumption DEF TypeOK, FaultDir, GuestPde

\* The page table entry of a page that is not in a large page.
LEMMA GuestPteType ==
    ASSUME TypeOK, OwnTables, guest_cr3 \in CR3s, NEW v \in Pages,
           ~ GuestPde(Dir(v)).large, GuestPde(Dir(v)).pt \notin Invalid
    PROVE  Index(v) \in Indexes /\ GuestPde(Dir(v)).pt \in PtFrames /\ GuestPte(v) \in Pte
<1>1. Dir(v) \in Dirs /\ GuestPde(Dir(v)) \in Pde
  BY ConstantsAssumption DEF TypeOK, GuestPde
<1>2. GuestPde(Dir(v)).pt \in PtFrames
  BY <1>1, Zenon DEF Pde
<1>3. PICK e \in PDEs(Dir(v)) : GuestPde(Dir(v)).large = e.large
  BY <1>1, Zenon DEF OwnTables, GuestPde
<1>4. Index(v) \in Indexes
  BY <1>3, ConstantsAssumption, Zenon
<1> QED BY <1>2, <1>4 DEF TypeOK, GuestPte

\* A page directory entry's dirty bit changes.
LEMMA PdeDirtied ==
    ASSUME TypeOK, NEW c \in CR3s, NEW i \in Dirs, NEW x \in BOOLEAN,
           guest_pd' = [guest_pd EXCEPT ![c][i].d = x]
    PROVE  /\ guest_pd' \in [CR3s -> [Dirs -> Pde]]
           /\ \A a \in CR3s, j \in Dirs :
                 guest_pd'[a][j] = IF a = c /\ j = i THEN [guest_pd[c][i] EXCEPT !.d = x]
                                   ELSE guest_pd[a][j]
           /\ \A a \in CR3s, j \in Dirs :
                 /\ guest_pd'[a][j].p = guest_pd[a][j].p /\ guest_pd'[a][j].w = guest_pd[a][j].w
                 /\ guest_pd'[a][j].u = guest_pd[a][j].u
                 /\ guest_pd'[a][j].large = guest_pd[a][j].large /\ guest_pd'[a][j].pt = guest_pd[a][j].pt
<1> DEFINE n == [guest_pd[c][i] EXCEPT !.d = x]
<1>0. guest_pd[c][i] \in Pde
  BY DEF TypeOK
<1>1. n \in Pde /\ n.p = guest_pd[c][i].p /\ n.w = guest_pd[c][i].w /\ n.u = guest_pd[c][i].u
      /\ n.large = guest_pd[c][i].large /\ n.pt = guest_pd[c][i].pt
  BY <1>0, DirtyPde, Zenon
<1>2. guest_pd' = [guest_pd EXCEPT ![c][i] = n]
  BY DirtyStore, Zenon
<1> HIDE DEF n
<1>a. guest_pd \in [CR3s -> [Dirs -> Pde]] /\ n \in Pde
  BY <1>1, Zenon DEF TypeOK
<1>3. /\ guest_pd' \in [CR3s -> [Dirs -> Pde]]
      /\ \A a \in CR3s, j \in Dirs :
             guest_pd'[a][j] = IF a = c /\ j = i THEN n ELSE guest_pd[a][j]
  BY ONLY <1>a, <1>2, EntryStore, c \in CR3s, i \in Dirs
<1>4. \A a \in CR3s, j \in Dirs :
                 /\ guest_pd'[a][j].p = guest_pd[a][j].p /\ guest_pd'[a][j].w = guest_pd[a][j].w
                 /\ guest_pd'[a][j].u = guest_pd[a][j].u
                 /\ guest_pd'[a][j].large = guest_pd[a][j].large /\ guest_pd'[a][j].pt = guest_pd[a][j].pt
  BY <1>1, <1>3, Zenon
<1> QED BY <1>3, <1>4, Zenon DEF n

\* A page table entry is marked dirty.
LEMMA PteDirtied ==
    ASSUME TypeOK, NEW v, GuestPde(Dir(v)).pt \in PtFrames, Index(v) \in Indexes, SetDirty(v)
    PROVE  /\ guest_pt' \in [PtFrames -> [Indexes -> Pte]]
           /\ \A a \in PtFrames, j \in Indexes :
                 /\ guest_pt'[a][j].p = guest_pt[a][j].p /\ guest_pt'[a][j].w = guest_pt[a][j].w
                 /\ guest_pt'[a][j].u = guest_pt[a][j].u /\ guest_pt'[a][j].frame = guest_pt[a][j].frame
                 /\ (a = GuestPde(Dir(v)).pt /\ j = Index(v)) => guest_pt'[a][j].d = TRUE
                 /\ ~ (a = GuestPde(Dir(v)).pt /\ j = Index(v)) => guest_pt'[a][j].d = guest_pt[a][j].d
<1>f. PICK f \in PtFrames : f = GuestPde(Dir(v)).pt
  BY Zenon
<1>k. PICK k \in Indexes : k = Index(v)
  BY Zenon
<1>s. guest_pt' = [guest_pt EXCEPT ![f][k].d = TRUE]
  BY <1>f, <1>k, Zenon DEF SetDirty
<1> DEFINE n == [guest_pt[f][k] EXCEPT !.d = TRUE]
<1>0. guest_pt[f][k] \in Pte /\ TRUE \in BOOLEAN
  BY Zenon DEF TypeOK
<1>1. n \in Pte /\ n.p = guest_pt[f][k].p /\ n.w = guest_pt[f][k].w /\ n.u = guest_pt[f][k].u
      /\ n.frame = guest_pt[f][k].frame /\ n.d = TRUE
  BY <1>0, DirtyPte, Zenon
<1>2. guest_pt' = [guest_pt EXCEPT ![f][k] = n]
  BY <1>s, DirtyStore, Zenon
<1> HIDE DEF n
<1>a. guest_pt \in [PtFrames -> [Indexes -> Pte]] /\ n \in Pte
  BY <1>1, Zenon DEF TypeOK
<1>3. /\ guest_pt' \in [PtFrames -> [Indexes -> Pte]]
      /\ \A a \in PtFrames, j \in Indexes :
             guest_pt'[a][j] = IF a = f /\ j = k THEN n ELSE guest_pt[a][j]
  BY ONLY <1>a, <1>2, EntryStore, f \in PtFrames, k \in Indexes
<1>4. \A a \in PtFrames, j \in Indexes : guest_pt[a][j].d \in BOOLEAN
  BY Zenon DEF TypeOK, Pte
<1>5. ASSUME NEW a \in PtFrames, NEW j \in Indexes
      PROVE  /\ guest_pt'[a][j].p = guest_pt[a][j].p /\ guest_pt'[a][j].w = guest_pt[a][j].w
             /\ guest_pt'[a][j].u = guest_pt[a][j].u /\ guest_pt'[a][j].frame = guest_pt[a][j].frame
             /\ (a = f /\ j = k) => guest_pt'[a][j].d = TRUE
             /\ ~ (a = f /\ j = k) => guest_pt'[a][j].d = guest_pt[a][j].d
  <2>1. CASE a = f /\ j = k
    <3>1. guest_pt'[a][j] = n /\ guest_pt[a][j] = guest_pt[f][k]
      BY <1>3, <2>1, Zenon
    <3> QED BY <1>1, <2>1, <3>1, Zenon
  <2>2. CASE ~ (a = f /\ j = k)
    BY <1>3, <1>4, <2>2, Zenon
  <2> QED BY <2>1, <2>2, Zenon
<1>6. ASSUME NEW a \in PtFrames, NEW j \in Indexes
      PROVE  /\ guest_pt'[a][j].p = guest_pt[a][j].p /\ guest_pt'[a][j].w = guest_pt[a][j].w
             /\ guest_pt'[a][j].u = guest_pt[a][j].u /\ guest_pt'[a][j].frame = guest_pt[a][j].frame
             /\ (a = GuestPde(Dir(v)).pt /\ j = Index(v)) => guest_pt'[a][j].d = TRUE
             /\ ~ (a = GuestPde(Dir(v)).pt /\ j = Index(v)) => guest_pt'[a][j].d = guest_pt[a][j].d
  BY <1>5, <1>f, <1>k, Zenon
<1> QED BY ONLY <1>3, <1>6, Zenon

\* ... and the dirty bit of no other entry.
LEMMA OthersClean ==
    ASSUME TypeOK, NEW v, GuestPde(Dir(v)).pt \in PtFrames, Index(v) \in Indexes, SetDirty(v),
           NEW a \in PtFrames, NEW j \in Indexes, a # GuestPde(Dir(v)).pt \/ j # Index(v)
    PROVE  guest_pt'[a][j].d = guest_pt[a][j].d
<1>1. PICK f \in PtFrames : f = GuestPde(Dir(v)).pt
  BY Zenon
<1>2. PICK k \in Indexes : k = Index(v)
  BY Zenon
<1>3. guest_pt' = [guest_pt EXCEPT ![f][k].d = TRUE]
  BY <1>1, <1>2, Zenon DEF SetDirty
<1>4. (a # f \/ j # k) /\ guest_pt \in [PtFrames -> [Indexes -> Pte]]
  BY <1>1, <1>2, Zenon DEF TypeOK
<1> QED BY ONLY <1>3, <1>4, f \in PtFrames, k \in Indexes, a \in PtFrames, j \in Indexes, Zenon

LEMMA TypeInit == Init => TypeInv
<1> SUFFICES ASSUME Init PROVE TypeInv
  BY Zenon
<1>1. \A c \in CR3s, i \in Dirs : guest_pd[c][i] \in PDEs(i)
  BY Zenon DEF Init
<1>2. guest_pd \in [CR3s -> [Dirs -> Pde]]
  <2>1. guest_pd \in [CR3s -> [Dirs -> UNION {PDEs(i) : i \in Dirs}]]
    BY Zenon DEF Init
  <2>2. UNION {PDEs(i) : i \in Dirs} \subseteq Pde
    BY ConstantsAssumption, Zenon
  <2> QED BY <2>1, <2>2, Zenon
<1>3. guest_pt \in [PtFrames -> [Indexes -> Pte]]
  BY ConstantsAssumption DEF Init
<1>4. shadow_pd \in [Dirs -> ShadowPde] /\ shadow_pt \in [Pages -> ShadowPte]
  BY Zenon DEF Init, NoShadowPde, NoShadowPte, ShadowPde, ShadowPte, ShadowFrames
<1>5. OwnTables
  BY <1>1, Zenon DEF OwnTables
<1> QED BY <1>2, <1>3, <1>4, <1>5, Zenon DEF Init, TypeOK, TypeInv

\* The empty shadow tables.
LEMMA EmptyShadow ==
    /\ [i \in Dirs |-> NoShadowPde] \in [Dirs -> ShadowPde]
    /\ NoShadowPte \in ShadowPte
    /\ [v \in Pages |-> NoShadowPte] \in [Pages -> ShadowPte]
BY Zenon DEF NoShadowPde, NoShadowPte, ShadowPde, ShadowPte, ShadowFrames

\* Stores keep the kind and the page table of every entry one the guest gives.
LEMMA StoreOwn ==
    ASSUME TypeInv, NEW f, StorePde(f) \/ StorePte(f)
    PROVE  OwnTables'
<1>1. CASE StorePte(f)
  BY <1>1, Zenon DEF StorePte, OwnTables, TypeInv
<1>2. CASE StorePde(f)
  <2>1. PICK i \in Dirs : \E e \in PDEs(i) : guest_pd' = [guest_pd EXCEPT ![f][i] = e]
    BY <1>2, Zenon DEF StorePde
  <2>2. PICK e \in PDEs(i) : guest_pd' = [guest_pd EXCEPT ![f][i] = e]
    BY <2>1, Zenon
  <2>3. f \in CR3s /\ e \in Pde
    BY <1>2, ConstantsAssumption, Zenon DEF StorePde
  <2>a. guest_pd \in [CR3s -> [Dirs -> Pde]]
    BY Zenon DEF TypeInv, TypeOK
  <2>4. \A c \in CR3s, j \in Dirs :
            guest_pd'[c][j] = IF c = f /\ j = i THEN e ELSE guest_pd[c][j]
    BY ONLY <2>2, <2>3, <2>a, EntryStore, i \in Dirs
  <2>5. SUFFICES ASSUME NEW c \in CR3s, NEW j \in Dirs
        PROVE  \E g \in PDEs(j) : guest_pd'[c][j].large = g.large /\ guest_pd'[c][j].pt = g.pt
    BY Zenon DEF OwnTables
  <2>6. CASE c = f /\ j = i
    BY <2>4, <2>6, Zenon
  <2>7. CASE ~ (c = f /\ j = i)
    BY <2>4, <2>7 DEF TypeInv, OwnTables
  <2> QED BY <2>6, <2>7, Zenon
<1> QED BY <1>1, <1>2, Zenon

\* What the dirty bits leave alone.
LEMMA DirtyOwn ==
    ASSUME OwnTables,
           \A a \in CR3s, j \in Dirs : /\ guest_pd'[a][j].large = guest_pd[a][j].large
                                       /\ guest_pd'[a][j].pt = guest_pd[a][j].pt
    PROVE  OwnTables'
BY DEF OwnTables

LEMMA TypeGuest ==
    ASSUME TypeInv,
           \/ Perform
           \/ \E v \in Pages, w \in BOOLEAN, u \in Users : Access(v, w, u)
           \/ \E f \in CR3s \cup PtFrames : StorePhysical(f)
    PROVE  TypeInv'
<1> USE DEF TypeInv
<1>1. CASE Perform
  <2>1. CASE UNCHANGED <<tables, stale>>
    BY <1>1, <2>1 DEF Perform, TypeOK, OwnTables, tables, stale, shadow, cache
  <2>2. CASE ~ UNCHANGED <<tables, stale>>
    <3>1. PICK f : StorePde(f) \/ StorePte(f)
      BY <1>1, <2>2, Zenon DEF Perform
    <3>2. OwnTables'
      BY <3>1, StoreOwn, Zenon
    <3>3. /\ guest_pd' \in [CR3s -> [Dirs -> Pde]]
          /\ guest_pt' \in [PtFrames -> [Indexes -> Pte]]
          /\ stale_pde' \subseteq Dirs /\ stale_pte' \subseteq Pages
      BY <3>1, StorePdeType, StorePteType, Zenon
    <3> QED BY <1>1, <3>2, <3>3, Zenon DEF Perform, TypeOK, shadow, cache
  <2> QED BY <2>1, <2>2, Zenon
<1>2. CASE \E v \in Pages, w \in BOOLEAN, u \in Users : Access(v, w, u)
  <2>1. PICK v \in Pages, w \in BOOLEAN, u \in Users : Access(v, w, u)
    BY <1>2, Zenon
  <2>2. access' \in [page : Pages, write : BOOLEAN, user : Users]
    BY <2>1, Zenon DEF Access
  <2> QED BY <2>1, <2>2 DEF Access, TypeOK, OwnTables, tables, stale, shadow, cache
<1>3. CASE \E f \in CR3s \cup PtFrames : StorePhysical(f)
  <2>1. PICK f \in CR3s \cup PtFrames : StorePhysical(f)
    BY <1>3, Zenon
  <2>2. OwnTables'
    BY <2>1, StoreOwn, Zenon DEF StorePhysical
  <2>3. /\ guest_pd' \in [CR3s -> [Dirs -> Pde]]
        /\ guest_pt' \in [PtFrames -> [Indexes -> Pte]]
        /\ stale_pde' \subseteq Dirs /\ stale_pte' \subseteq Pages
    BY <2>1, StorePdeType, StorePteType, Zenon DEF StorePhysical
  <2> QED BY <2>1, <2>2, <2>3, Zenon DEF StorePhysical, TypeOK, shadow, cache
<1> QED BY <1>1, <1>2, <1>3, Zenon

\* An access that ends with an event changes nothing else.
LEMMA TypeInject ==
    ASSUME TypeInv, NEW how \in {"page_fault", "machine_check", "emulated", "error"}, Inject(how)
    PROVE  TypeInv'
BY Zenon DEF TypeInv, TypeOK, OwnTables, Inject, tables, stale, shadow, cache

\* One page table entry of the shadow is replaced.
LEMMA ShadowStore ==
    ASSUME TypeOK, NEW v \in Pages, NEW t \in ShadowPte,
           shadow_pt' = [shadow_pt EXCEPT ![v] = t]
    PROVE  /\ shadow_pt' \in [Pages -> ShadowPte]
           /\ \A x \in Pages : shadow_pt'[x] = IF x = v THEN t ELSE shadow_pt[x]
BY Zenon DEF TypeOK

\* One page table entry of the shadow is made writable or not.
LEMMA ShadowWritable ==
    ASSUME TypeOK, NEW v \in Pages, NEW b \in BOOLEAN,
           shadow_pt' = [shadow_pt EXCEPT ![v].w = b]
    PROVE  /\ shadow_pt' \in [Pages -> ShadowPte]
           /\ \A x \in Pages :
                 /\ shadow_pt'[x].p = shadow_pt[x].p /\ shadow_pt'[x].u = shadow_pt[x].u
                 /\ shadow_pt'[x].frame = shadow_pt[x].frame
                 /\ shadow_pt'[x].guest_pt = shadow_pt[x].guest_pt
                 /\ x # v => shadow_pt'[x] = shadow_pt[x]
           /\ shadow_pt'[v].w = b
<1> DEFINE t == [shadow_pt[v] EXCEPT !.w = b]
<1>0. shadow_pt[v] \in ShadowPte
  BY Zenon DEF TypeOK
<1>1. /\ t \in ShadowPte /\ t.p = shadow_pt[v].p /\ t.u = shadow_pt[v].u
      /\ t.frame = shadow_pt[v].frame /\ t.guest_pt = shadow_pt[v].guest_pt /\ t.w = b
  BY <1>0, Zenon DEF ShadowPte
<1>2. shadow_pt' = [shadow_pt EXCEPT ![v] = t]
  BY Zenon
<1> HIDE DEF t
<1>3. /\ shadow_pt' \in [Pages -> ShadowPte]
      /\ \A x \in Pages : shadow_pt'[x] = IF x = v THEN t ELSE shadow_pt[x]
  BY <1>1, <1>2, ShadowStore, Zenon
<1> QED BY <1>1, <1>3, Zenon

\* The page directory's fault handler.
LEMMA TypePde ==
    ASSUME TypeInv, Fault, PdeInstall \/ PdeDirty
    PROVE  TypeInv'
<1> USE DEF TypeInv
<1>0. /\ FaultDir \in Dirs /\ guest_cr3 \in CR3s /\ GuestPde(FaultDir) \in Pde
      /\ shadow_pd[FaultDir] \in ShadowPde
  BY FaultTypes, Zenon DEF Fault
<1>1. CASE PdeInstall
  <2> DEFINE e == GuestPde(FaultDir)
             x == e.d /\ ~ e.large
             s == [p |-> TRUE, w |-> PdeWritable(e), u |-> e.u]
  <2>1. x \in BOOLEAN /\ s \in ShadowPde
    BY <1>0, Zenon DEF Pde, PdeWritable, ShadowPde
  <2>2. guest_pd' = [guest_pd EXCEPT ![guest_cr3][FaultDir].d = x]
    BY <1>1, Zenon DEF PdeInstall, GuestPde
  <2>3. shadow_pd' = [shadow_pd EXCEPT ![FaultDir] = s]
    BY <1>1, Zenon DEF PdeInstall
  <2> HIDE DEF x, s
  <2>4. guest_pd' \in [CR3s -> [Dirs -> Pde]] /\ OwnTables'
    BY <1>0, <2>1, <2>2, PdeDirtied, DirtyOwn, ZenonT(30)
  <2>5. shadow_pd' \in [Dirs -> ShadowPde]
    BY <1>0, <2>1, <2>3, Zenon DEF TypeOK
  <2>6. shadow_pt' \in [Pages -> ShadowPte]
    BY <1>1, EmptyShadow, Zenon DEF PdeInstall, TypeOK
  <2> QED BY <1>1, <2>4, <2>5, <2>6, Zenon DEF PdeInstall, TypeOK, stale, cache
<1>2. CASE PdeDirty
  <2>1. guest_pd' = [guest_pd EXCEPT ![guest_cr3][FaultDir].d = TRUE] /\ TRUE \in BOOLEAN
    BY <1>2, Zenon DEF PdeDirty
  <2>2. guest_pd' \in [CR3s -> [Dirs -> Pde]] /\ OwnTables'
    BY <1>0, <2>1, PdeDirtied, DirtyOwn, ZenonT(30)
  <2>3. GuestPde(FaultDir).w \in BOOLEAN
    BY <1>0, Zenon DEF Pde
  <2>4. shadow_pd' \in [Dirs -> ShadowPde]
    BY <1>0, <1>2, <2>3, Zenon DEF PdeDirty, ShadowPde, TypeOK
  <2> QED BY <1>2, <2>2, <2>4, Zenon DEF PdeDirty, TypeOK, stale, cache
<1> QED BY <1>1, <1>2, Zenon

\* The page table's fault handlers.
LEMMA TypePte ==
    ASSUME TypeInv, Fault, PteMap \/ PteDirty
    PROVE  TypeInv'
<1> USE DEF TypeInv
<1> DEFINE v == access.page
           f == GuestPde(Dir(v)).pt
           g == GuestPte(v)
<1>0. /\ v \in Pages /\ access.write \in BOOLEAN /\ guest_cr3 \in CR3s
      /\ shadow_pt[v] \in ShadowPte
  BY FaultTypes, Zenon DEF Fault
<1>1. ~ GuestPde(Dir(v)).large /\ f \notin Invalid
  BY Zenon DEF PteMap, PteDirty, SmallShadowFault, SmallFault, FaultDir
<1>2. Index(v) \in Indexes /\ f \in PtFrames /\ g \in Pte
  BY <1>0, <1>1, GuestPteType, Zenon
<1> HIDE DEF v, f, g
<1>3. SetDirty(v) => guest_pt' \in [PtFrames -> [Indexes -> Pte]]
  BY <1>2, PteDirtied, Zenon DEF f
<1>4. CASE PteMap
  <2> DEFINE t == [p |-> g.p, u |-> g.u, w |-> g.w /\ (g.d \/ access.write), frame |-> g.frame,
                   guest_pt |-> shadow_pt[v].guest_pt \/ g.frame \in cached_ptes]
  <2>1. t \in ShadowPte
    BY <1>0, <1>2, Zenon DEF Pte, ShadowPte, ShadowFrames
  <2>2. shadow_pt' = [shadow_pt EXCEPT ![v] = t]
    BY <1>4, Zenon DEF PteMap, v, g
  <2> HIDE DEF t
  <2>3. shadow_pt' \in [Pages -> ShadowPte]
    BY <1>0, <2>1, <2>2, ShadowStore, Zenon
  <2>4. guest_pt' \in [PtFrames -> [Indexes -> Pte]]
    BY <1>3, <1>4, Zenon DEF PteMap, v, TypeOK
  <2>5. cached_cr3' \in CR3s \cup {0}
    BY <1>4, Zenon DEF PteMap, Noticed, TypeOK
  <2> QED BY <1>4, <2>3, <2>4, <2>5 DEF PteMap, TypeOK, OwnTables, stale
<1>5. CASE PteDirty
  <2>1. shadow_pt' = [shadow_pt EXCEPT ![v].w = g.w] /\ g.w \in BOOLEAN
    BY <1>2, <1>5, Zenon DEF PteDirty, v, g, Pte
  <2>3. shadow_pt' \in [Pages -> ShadowPte]
    BY <1>0, <2>1, ShadowWritable, Zenon
  <2>4. guest_pt' \in [PtFrames -> [Indexes -> Pte]]
    BY <1>3, <1>5, Zenon DEF PteDirty, v
  <2>5. cached_cr3' \in CR3s \cup {0}
    BY <1>5, Zenon DEF PteDirty, Noticed, TypeOK
  <2> QED BY <1>5, <2>3, <2>4, <2>5 DEF PteDirty, TypeOK, OwnTables, stale
<1> QED BY <1>4, <1>5, Zenon

\* The large page's fault handler.
LEMMA TypeLarge ==
    ASSUME TypeInv, Fault, LargeMap \/ LargeTableWrite
    PROVE  TypeInv'
<1> USE DEF TypeInv
<1> DEFINE v == access.page
<1>0. v \in Pages /\ shadow_pt[v] \in ShadowPte
  BY FaultTypes, Zenon DEF Fault
<1>1. CASE LargeMap
  <2> DEFINE t == LargePte(LargeFrame(v), shadow_pt[v].guest_pt)
  <2>1. t \in ShadowPte
    BY <1>0, Zenon DEF LargePte, ShadowPte, ShadowFrames
  <2>2. shadow_pt' = [shadow_pt EXCEPT ![v] = t]
    BY <1>1, Zenon DEF LargeMap
  <2> HIDE DEF t, v
  <2>3. shadow_pt' \in [Pages -> ShadowPte]
    BY <1>0, <2>1, <2>2, ShadowStore, Zenon
  <2> QED BY <1>1, <2>3 DEF LargeMap, TypeOK, OwnTables, stale, tables, cache
<1>2. CASE LargeTableWrite
  <2>1. shadow_pt' = [shadow_pt EXCEPT ![v].w = TRUE] /\ TRUE \in BOOLEAN
    BY <1>2, Zenon DEF LargeTableWrite
  <2> HIDE DEF v
  <2>3. shadow_pt' \in [Pages -> ShadowPte]
    BY <1>0, <2>1, ShadowWritable, Zenon
  <2> QED BY <1>2, <2>3 DEF LargeTableWrite, Noticed, TypeOK, OwnTables, stale, tables
<1> QED BY <1>1, <1>2, Zenon

\* The branches of the fault handler that end the access.
LEMMA Ending ==
    ASSUME PdeInject \/ PtInvalid \/ PteInject \/ PteSpecial \/ PteFell \/ LargeSpecial \/ LargeFell
    PROVE  \E how \in {"page_fault", "machine_check", "emulated", "error"} : Inject(how)
BY Zenon DEF PdeInject, PtInvalid, PteInject, PteSpecial, PteFell, LargeSpecial, LargeFell, Emulate

LEMMA TypeFault ==
    ASSUME TypeInv, handle_shadow_pagefault32
    PROVE  TypeInv'
<1>0. Fault
  BY Zenon DEF handle_shadow_pagefault32
<1>1. CASE PdeInject \/ PtInvalid \/ PteInject \/ PteSpecial \/ PteFell \/ LargeSpecial \/ LargeFell
  BY <1>1, Ending, TypeInject, Zenon
<1>2. CASE PdeInstall \/ PdeDirty
  BY <1>0, <1>2, TypePde, Zenon
<1>3. CASE PteMap \/ PteDirty
  BY <1>0, <1>3, TypePte, Zenon
<1>4. CASE LargeMap \/ LargeTableWrite
  BY <1>0, <1>4, TypeLarge, Zenon
<1> QED BY <1>1, <1>2, <1>3, <1>4, Zenon DEF handle_shadow_pagefault32

\* The page tables of a directory, as far as they are the guest's.
LEMMA TablesTyped ==
    ASSUME TypeOK, NEW c \in CR3s
    PROVE  Cached(c) \ Invalid \subseteq CR3s \cup PtFrames
<1>1. \A i \in Dirs : guest_pd[c][i].pt \in PtFrames \cup Invalid
  BY DEF TypeOK, Pde
<1> QED BY <1>1 DEF Cached, TablesOf

\* INVLPG takes one entry of the shadow away and leaves the others.
LEMMA InvlpgShadow ==
    ASSUME TypeOK, NEW v \in Pages, Invlpg(v)
    PROVE  /\ shadow_pd' \in [Dirs -> ShadowPde]
           /\ shadow_pt' \in [Pages -> ShadowPte]
           /\ GuestPde(Dir(v)).large =>
                 /\ shadow_pt' = shadow_pt
                 /\ ~ shadow_pd'[Dir(v)].p
                 /\ \A i \in Dirs : i # Dir(v) => shadow_pd'[i] = shadow_pd[i]
           /\ ~ GuestPde(Dir(v)).large =>
                 /\ shadow_pd' = shadow_pd
                 /\ ~ (shadow_pd[Dir(v)].p /\ shadow_pt'[v].p)
                 /\ \A x \in Pages : x # v => shadow_pt'[x] = shadow_pt[x]
<1>0. Dir(v) \in Dirs /\ shadow_pd[Dir(v)] \in ShadowPde /\ shadow_pt[v] \in ShadowPte
  BY ConstantsAssumption, Zenon DEF TypeOK
<1>1. CASE GuestPde(Dir(v)).large
  <2> DEFINE s == [shadow_pd[Dir(v)] EXCEPT !.p = FALSE]
  <2>1. s \in ShadowPde /\ ~ s.p
    BY <1>0, Zenon DEF ShadowPde
  <2>2. shadow_pd' = [shadow_pd EXCEPT ![Dir(v)] = s] /\ shadow_pt' = shadow_pt
    BY <1>1, Zenon DEF Invlpg
  <2> HIDE DEF s
  <2> QED BY <1>0, <1>1, <2>1, <2>2, Zenon DEF TypeOK
<1>2. CASE ~ GuestPde(Dir(v)).large
  <2> DEFINE b == shadow_pt[v].p /\ ~ shadow_pd[Dir(v)].p
             t == [shadow_pt[v] EXCEPT !.p = b]
  <2>0. b \in BOOLEAN
    BY Zenon
  <2>1. t \in ShadowPte /\ t.p = b
    BY <1>0, <2>0, Zenon DEF ShadowPte
  <2>2. shadow_pt' = [shadow_pt EXCEPT ![v] = t] /\ shadow_pd' = shadow_pd
    BY <1>2, Zenon DEF Invlpg
  <2>3. ~ (shadow_pd[Dir(v)].p /\ t.p)
    BY <2>1, Zenon
  <2> HIDE DEF t
  <2>4. /\ shadow_pt' \in [Pages -> ShadowPte]
        /\ \A x \in Pages : shadow_pt'[x] = IF x = v THEN t ELSE shadow_pt[x]
    BY <2>1, <2>2, ShadowStore, Zenon
  <2> QED BY <1>2, <2>2, <2>3, <2>4, Zenon DEF TypeOK
<1> QED BY <1>1, <1>2, Zenon

LEMMA TypeControl ==
    ASSUME TypeInv,
           \/ \E c \in CR3s : WriteCr3(c)
           \/ \E mode \in {"PHYSICAL_MEM", "VIRTUAL_MEM"} : WriteCr0(mode)
           \/ \E v \in Pages : Invlpg(v)
    PROVE  TypeInv'
<1> USE DEF TypeInv
<1>1. ASSUME NEW c \in CR3s, WriteCr3(c) PROVE TypeInv'
  <2>1. cached_ptes' \subseteq CR3s \cup PtFrames
    BY <1>1, TablesTyped, Zenon DEF WriteCr3, TypeOK
  <2>2. shadow_pd' \in [Dirs -> ShadowPde] /\ shadow_pt' \in [Pages -> ShadowPte]
    BY <1>1, EmptyShadow, Zenon DEF WriteCr3, shadow, TypeOK
  <2>3. guest_cr3' \in CR3s \cup {0} /\ (guest_cr3 # 0 => guest_cr3' # 0)
    BY <1>1, ConstantsAssumption, Zenon DEF WriteCr3, TypeOK
  <2>4. outcome' \in {"ok", "error"}
    BY <1>1, Zenon DEF WriteCr3
  <2> QED BY <1>1, <2>1, <2>2, <2>3, <2>4 DEF WriteCr3, TypeOK, OwnTables, tables
<1>2. CASE \E mode \in {"PHYSICAL_MEM", "VIRTUAL_MEM"} : WriteCr0(mode)
  BY <1>2 DEF WriteCr0, TypeOK, OwnTables, tables, stale, shadow, cache
<1>3. ASSUME NEW v \in Pages, Invlpg(v) PROVE TypeInv'
  <2>0. Dir(v) \in Dirs
    BY ConstantsAssumption, Zenon
  <2>1. shadow_pd' \in [Dirs -> ShadowPde] /\ shadow_pt' \in [Pages -> ShadowPte]
    BY <1>3, InvlpgShadow, Zenon
  <2>3. stale_pde' \subseteq Dirs /\ stale_pte' \subseteq Pages
    BY <1>3, Zenon DEF Invlpg, TypeOK
  <2> QED BY <1>3, <2>1, <2>3 DEF Invlpg, TypeOK, OwnTables, tables, cache
<1> QED BY <1>1, <1>2, <1>3, Zenon

LEMMA TypeStep == TypeInv /\ [Next]_vars => TypeInv'
<1> SUFFICES ASSUME TypeInv, [Next]_vars PROVE TypeInv'
  BY Zenon
<1>1. CASE handle_shadow_pagefault32
  BY <1>1, TypeFault, Zenon
<1>2. CASE Next /\ ~ handle_shadow_pagefault32
  BY <1>2, TypeGuest, TypeControl, Zenon DEF Next
<1>3. CASE UNCHANGED vars
  BY <1>3, Zenon DEF vars, TypeInv, TypeOK, OwnTables, tables, stale, shadow, cache
<1> QED BY <1>1, <1>2, <1>3, Zenon

\* The tables, the shadow and the cache keep their types, whatever the guest
\* writes to its tables and its control registers.
THEOREM TypeCorrect == Spec => []TypeOK
<1>1. Init => TypeInv
  BY TypeInit, Zenon
<1>2. TypeInv /\ [Next]_vars => TypeInv'
  BY TypeStep, Zenon
<1>3. TypeInv => TypeOK
  BY Zenon DEF TypeInv
<1> QED BY <1>1, <1>2, <1>3, PTL DEF Spec

-----------------------------------------------------------------------------
(* The shadow follows the tables. *)

LEMMA SyncInit == Init => Sync
BY Zenon DEF Init, Sync, DirSync, PageSync, Protected, OneCache, Running

\* A running guest's directory entry, and its page table entry where a trusted
\* shadow refers to it.
LEMMA TrustedPte ==
    ASSUME IInv, Running, NEW v \in Pages, TrustedDir(Dir(v)), shadow_pd[Dir(v)].p,
           ~ GuestPde(Dir(v)).large
    PROVE  /\ Dir(v) \in Dirs /\ guest_cr3 \in CR3s
           /\ GuestPde(Dir(v)).p
           /\ Index(v) \in Indexes /\ GuestPde(Dir(v)).pt \in PtFrames
           /\ GuestPde(Dir(v)).pt \notin Invalid
           /\ GuestPte(v) \in Pte
<1>1. Dir(v) \in Dirs /\ guest_cr3 \in CR3s
  BY ConstantsAssumption, Zenon DEF IInv, TypeInv, TypeOK, Running
<1>2. GuestPde(Dir(v)).p /\ GuestPde(Dir(v)).pt \notin Invalid
  BY <1>1, Zenon DEF IInv, Sync, DirSync, PdeSync
<1> QED BY <1>1, <1>2, GuestPteType, Zenon DEF IInv, TypeInv

\* Nothing that the invariant speaks of changes.
LEMMA SyncQuiet ==
    ASSUME Sync, UNCHANGED <<tables, shadow, guest_cr3, cache, stale>>, outcome # "error"
    PROVE  Sync'
<1>1. \A i : GuestPde(i)' = GuestPde(i)
  BY Zenon DEF GuestPde, tables
<1>2. \A v : GuestPte(v)' = GuestPte(v)
  BY Zenon DEF GuestPte, GuestPde, tables
<1>3. TablesOf(guest_cr3)' = TablesOf(guest_cr3)
  BY Zenon DEF TablesOf, tables
<1>4. (Running' => Running) /\ (Valid' <=> Valid)
  BY Zenon DEF Running, Valid, cache
<1>5. ASSUME NEW i \in Dirs PROVE DirSync(i)'
  <2>1. TrustedDir(i)' <=> TrustedDir(i)
    BY <1>4, Zenon DEF TrustedDir, stale
  <2> QED BY <1>1, <1>4, <2>1, Zenon DEF Sync, DirSync, shadow
<1>6. ASSUME NEW v \in Pages PROVE PageSync(v)'
  <2>1. TrustedPage(v)' <=> TrustedPage(v)
    BY <1>4, Zenon DEF TrustedPage, TrustedDir, stale
  <2> QED BY <1>1, <1>2, <1>4, <2>1, Zenon DEF Sync, PageSync, shadow
<1>7. Protected'
  BY <1>3, <1>4, Zenon DEF Sync, Protected, shadow, cache
<1>8. OneCache'
  BY Zenon DEF Sync, OneCache, cache
<1> QED BY <1>5, <1>6, <1>7, <1>8, Zenon DEF Sync

\* A store to the tables through a writable mapping is a store the cache does
\* not depend on, or the cache is no longer valid.
LEMMA StoreUnprotected ==
    ASSUME IInv, access # None, access.write, ShadowAllows(access), Valid
    PROVE  shadow_pt[access.page].frame \notin cached_ptes
<1>1. access.page \in Pages /\ Running
  BY FaultTypes, ConstantsAssumption, Zenon DEF IInv, TypeInv, TypeOK, Running
<1>2. shadow_pd[Dir(access.page)].p /\ shadow_pt[access.page].p /\ shadow_pt[access.page].w
  BY Zenon DEF ShadowAllows, CanAccess
<1> QED BY <1>1, <1>2, Zenon DEF IInv, Sync, Protected

LEMMA SyncStorePde ==
    ASSUME IInv, Perform, access.write, StorePde(shadow_pt[access.page].frame)
    PROVE  Sync'
<1> DEFINE f == shadow_pt[access.page].frame
<1>0. PICK i \in Dirs : \E e \in PDEs(i) :
          /\ guest_pd' = [guest_pd EXCEPT ![f][i] = e]
          /\ stale_pde' = IF f = guest_cr3 THEN stale_pde \cup {i} ELSE stale_pde
  BY Zenon DEF StorePde
<1>1. PICK e \in PDEs(i) : /\ guest_pd' = [guest_pd EXCEPT ![f][i] = e]
                           /\ stale_pde' = IF f = guest_cr3 THEN stale_pde \cup {i} ELSE stale_pde
  BY <1>0, Zenon
<1>2. f \in CR3s /\ e \in Pde /\ guest_pd \in [CR3s -> [Dirs -> Pde]]
  BY ConstantsAssumption, Zenon DEF StorePde, IInv, TypeInv, TypeOK
<1>a. f = guest_cr3 => ~ Valid
  BY StoreUnprotected, Zenon DEF Perform, IInv, Sync, Protected, Running, TypeInv, TypeOK
<1>b. guest_cr3 \in CR3s /\ Running
  BY FaultTypes, ConstantsAssumption, Zenon DEF Perform, IInv, TypeInv, TypeOK, Running
<1>c. UNCHANGED <<guest_pt, stale_pte, shadow, guest_cr3, cache>>
  BY Zenon DEF Perform, StorePde
<1> HIDE DEF f
<1>3. \A c \in CR3s, j \in Dirs :
          guest_pd'[c][j] = IF c = f /\ j = i THEN e ELSE guest_pd[c][j]
  BY ONLY <1>1, <1>2, EntryStore, i \in Dirs
<1>4. Valid' <=> Valid
  BY <1>c, Zenon DEF Valid, cache
<1>5. \A j \in Dirs : TrustedDir(j)' => TrustedDir(j) /\ GuestPde(j)' = GuestPde(j)
  BY <1>1, <1>3, <1>4, <1>a, <1>b, <1>c DEF TrustedDir, GuestPde
<1>6. ASSUME NEW j \in Dirs PROVE DirSync(j)'
  BY <1>5, <1>b, <1>c, ZenonT(30) DEF IInv, Sync, DirSync, shadow
<1>7. ASSUME NEW v \in Pages PROVE PageSync(v)'
  <2>1. Dir(v) \in Dirs
    BY ConstantsAssumption, Zenon
  <2>2. TrustedPage(v)' => TrustedPage(v) /\ GuestPde(Dir(v))' = GuestPde(Dir(v)) /\ GuestPte(v)' = GuestPte(v)
    BY <1>4, <1>5, <1>c, <2>1, Zenon DEF TrustedPage, GuestPte
  <2> QED BY <1>b, <1>c, <2>2, Zenon DEF IInv, Sync, PageSync, shadow
<1>8. Protected'
  <2> SUFFICES ASSUME Valid PROVE Protected'
    BY <1>4, Zenon DEF Protected
  <2>1. \A j \in Dirs : GuestPde(j)' = GuestPde(j)
    BY <1>4, <1>5, Zenon DEF TrustedDir
  <2>2. TablesOf(guest_cr3)' = TablesOf(guest_cr3)
    BY <2>1, <1>c DEF TablesOf, GuestPde
  <2> QED BY <1>4, <1>b, <1>c, <2>2, Zenon DEF IInv, Sync, Protected, shadow, cache
<1>9. OneCache'
  BY <1>b, <1>c, Zenon DEF IInv, Sync, OneCache, cache, Running
<1> QED BY <1>6, <1>7, <1>8, <1>9, Zenon DEF Sync

LEMMA SyncStorePte ==
    ASSUME IInv, Perform, access.write, StorePte(shadow_pt[access.page].frame)
    PROVE  Sync'
<1> DEFINE f == shadow_pt[access.page].frame
<1>1. PICK k \in Indexes, e \in PTEs : /\ guest_pt' = [guest_pt EXCEPT ![f][k] = e]
                                       /\ stale_pte' = stale_pte \cup {v \in Pages : Index(v) = k}
  BY Zenon DEF StorePte
<1>2. f \in PtFrames /\ e \in Pte /\ guest_pt \in [PtFrames -> [Indexes -> Pte]]
  BY ConstantsAssumption, Zenon DEF StorePte, IInv, TypeInv, TypeOK
<1>a. Valid => f \notin cached_ptes
  BY StoreUnprotected, Zenon DEF Perform
<1>b. guest_cr3 \in CR3s /\ Running
  BY FaultTypes, ConstantsAssumption, Zenon DEF Perform, IInv, TypeInv, TypeOK, Running
<1>c. UNCHANGED <<guest_pd, stale_pde, shadow, guest_cr3, cache>>
  BY Zenon DEF Perform, StorePte
<1> HIDE DEF f
<1>3. \A c \in PtFrames, j \in Indexes :
          guest_pt'[c][j] = IF c = f /\ j = k THEN e ELSE guest_pt[c][j]
  BY ONLY <1>1, <1>2, EntryStore, k \in Indexes
<1>4. Valid' <=> Valid
  BY <1>c, Zenon DEF Valid, cache
<1>5. \A j : GuestPde(j)' = GuestPde(j)
  BY <1>c, Zenon DEF GuestPde
<1>6. ASSUME NEW j \in Dirs PROVE DirSync(j)'
  <2>1. TrustedDir(j)' <=> TrustedDir(j)
    BY <1>4, <1>c, Zenon DEF TrustedDir
  <2> QED BY <1>5, <1>b, <1>c, <2>1, Zenon DEF IInv, Sync, DirSync, shadow
<1>7. ASSUME NEW v \in Pages PROVE PageSync(v)'
  <2>1. SUFFICES ASSUME TrustedPage(v)', shadow_pd[Dir(v)].p
        PROVE  TrustedPage(v) /\ (~ GuestPde(Dir(v)).large => GuestPte(v)' = GuestPte(v))
    BY <1>5, <1>b, <1>c, Zenon DEF IInv, Sync, PageSync, shadow
  <2>2. TrustedPage(v)
    BY <1>1, <1>4, <1>c, <2>1, Zenon DEF TrustedPage, TrustedDir
  <2>3. ASSUME ~ GuestPde(Dir(v)).large PROVE GuestPte(v)' = GuestPte(v)
    <3>1. /\ Index(v) \in Indexes /\ GuestPde(Dir(v)).pt \in PtFrames
          /\ GuestPde(Dir(v)).p /\ Dir(v) \in Dirs
      BY <1>b, <2>1, <2>2, <2>3, TrustedPte, Zenon DEF TrustedPage
    <3>2. CASE Valid
      <4>1. GuestPde(Dir(v)).pt \in TablesOf(guest_cr3)
        BY <2>3, <3>1, Zenon DEF TablesOf, GuestPde
      <4>2. GuestPde(Dir(v)).pt # f
        BY <1>a, <1>b, <3>2, <4>1, Zenon DEF IInv, Sync, Protected
      <4> QED BY <1>3, <1>5, <3>1, <4>2, Zenon DEF GuestPte
    <3>3. CASE ~ Valid
      <4>1. v \notin stale_pte'
        BY <1>4, <2>1, <3>3, Zenon DEF TrustedPage
      <4>2. Index(v) # k
        BY <1>1, <4>1, Zenon
      <4> QED BY <1>3, <1>5, <3>1, <4>2, Zenon DEF GuestPte
    <3> QED BY <3>2, <3>3, Zenon
  <2> QED BY <2>2, <2>3, Zenon
<1>8. Protected'
  <2>1. TablesOf(guest_cr3)' = TablesOf(guest_cr3)
    BY <1>c, Zenon DEF TablesOf
  <2> QED BY <1>4, <1>b, <1>c, <2>1, Zenon DEF IInv, Sync, Protected, shadow, cache
<1>9. OneCache'
  BY <1>b, <1>c, Zenon DEF IInv, Sync, OneCache, cache, Running
<1> QED BY <1>6, <1>7, <1>8, <1>9, Zenon DEF Sync

\* Dirty bits of the directory and the shadow's directory entries change; the
\* page table entries stay, or go with their directory entry.
LEMMA SyncPde ==
    ASSUME IInv, Fault, PdeInstall \/ PdeDirty
    PROVE  Sync'
<1>i. PICK i \in Dirs : i = FaultDir
  BY FaultTypes, Zenon DEF Fault, IInv, TypeInv
<1> DEFINE e == GuestPde(i)
<1>0. /\ i \in Dirs /\ guest_cr3 \in CR3s /\ e \in Pde /\ access.page \in Pages
      /\ shadow_pd[i] \in ShadowPde /\ access.write \in BOOLEAN /\ access.user \in BOOLEAN
  BY <1>i, FaultTypes, Zenon DEF Fault, IInv, TypeInv
<1>1. Running
  BY ConstantsAssumption, Zenon DEF Fault, IInv, TypeInv, TypeOK, Running
<1>2. UNCHANGED <<guest_pt, guest_cr3, cache, stale>>
  BY <1>i, Zenon DEF PdeInstall, PdeDirty
<1>3. PICK x \in BOOLEAN : guest_pd' = [guest_pd EXCEPT ![guest_cr3][i].d = x]
  BY <1>i, <1>0, ZenonT(30) DEF PdeInstall, PdeDirty, GuestPde
<1>4. \A j \in Dirs : /\ GuestPde(j)'.p = GuestPde(j).p /\ GuestPde(j)'.w = GuestPde(j).w
                      /\ GuestPde(j)'.u = GuestPde(j).u /\ GuestPde(j)'.large = GuestPde(j).large
                      /\ GuestPde(j)'.pt = GuestPde(j).pt
                      /\ j # i => GuestPde(j)' = GuestPde(j)
  BY <1>0, <1>2, <1>3, PdeDirtied DEF GuestPde, IInv, TypeInv
<1>a. \A v \in Pages : GuestPte(v)' = GuestPte(v)
  BY <1>2, <1>4, ConstantsAssumption, Zenon DEF GuestPte
<1>b. TablesOf(guest_cr3)' = TablesOf(guest_cr3)
  <2>1. \A j \in Dirs : /\ guest_pd'[guest_cr3][j].p = guest_pd[guest_cr3][j].p
                        /\ guest_pd'[guest_cr3][j].large = guest_pd[guest_cr3][j].large
                        /\ guest_pd'[guest_cr3][j].pt = guest_pd[guest_cr3][j].pt
    BY <1>2, <1>4, Zenon DEF GuestPde
  <2> QED BY <1>2, <2>1 DEF TablesOf
<1>c. (Valid' <=> Valid) /\ \A j : TrustedDir(j)' <=> TrustedDir(j)
  BY <1>2, Zenon DEF Valid, TrustedDir, cache, stale
<1>d. \A v : TrustedPage(v)' <=> TrustedPage(v)
  BY <1>2, <1>c, Zenon DEF TrustedPage, stale
<1>5. \A j \in Dirs : j # i => shadow_pd'[j] = shadow_pd[j]
  BY <1>i, <1>0, Zenon DEF PdeInstall, PdeDirty, IInv, TypeInv, TypeOK
<1>6. \A v \in Pages : /\ Dir(v) # i => shadow_pt'[v] = shadow_pt[v]
                       /\ Dir(v) = i => shadow_pt'[v] = shadow_pt[v] \/ ~ shadow_pt'[v].p
  BY <1>i DEF PdeInstall, PdeDirty, NoShadowPte
<1>e. shadow_pd'[i].p /\ (\A v \in Pages : Dir(v) = i => (shadow_pt'[v].p => shadow_pd[i].p))
  <2>1. CASE PdeInstall
    BY <1>i, <1>0, <2>1, Zenon DEF PdeInstall, NoShadowPte, IInv, TypeInv, TypeOK
  <2>2. CASE PdeDirty
    <3>1. shadow_pd[i].p
      BY <1>i, <2>2, Zenon DEF PdeDirty, ShadowPdeAccess, CanAccess
    <3> QED BY <1>i, <1>0, <2>2, <3>1, Zenon DEF PdeDirty, IInv, TypeInv, TypeOK, ShadowPde
  <2> QED BY <2>1, <2>2, Zenon
<1>7. TrustedDir(i) => PdeSync(shadow_pd'[i], GuestPde(i)')
  <2> SUFFICES ASSUME TrustedDir(i) PROVE PdeSync(shadow_pd'[i], GuestPde(i)')
    BY Zenon
  <2>1. CASE PdeInstall
    <3>1. e.p
      BY <1>i, <1>0, <2>1, Zenon DEF PdeInstall, is_guest_pf, GuestPdeAccess, CanAccess, Pde
    <3>2. shadow_pd'[i] = [p |-> TRUE, w |-> PdeWritable(e), u |-> e.u]
      BY <1>i, <1>0, <2>1, Zenon DEF PdeInstall, IInv, TypeInv, TypeOK
    <3>3. GuestPde(i)' = [e EXCEPT !.d = e.d /\ ~ e.large]
      <4> DEFINE y == e.d /\ ~ e.large
      <4>1. y \in BOOLEAN /\ guest_pd' = [guest_pd EXCEPT ![guest_cr3][i].d = y]
        BY <1>i, <2>1, Zenon DEF PdeInstall, GuestPde
      <4> HIDE DEF y
      <4>2. guest_pd'[guest_cr3][i] = [guest_pd[guest_cr3][i] EXCEPT !.d = y]
        BY <1>0, <4>1, PdeDirtied, Zenon DEF IInv, TypeInv
      <4> QED BY <1>2, <4>2, Zenon DEF GuestPde, y
    <3>4. GuestPde(i)'.d = (e.d /\ ~ e.large)
      BY <1>0, <3>3, Zenon DEF Pde
    <3>5. shadow_pd'[i].w = (~ e.large /\ e.w) /\ shadow_pd'[i].u = e.u
      BY <3>2 DEF PdeWritable
    <3> HIDE DEF e
    <3>6. e.p \in BOOLEAN /\ e.w \in BOOLEAN /\ e.large \in BOOLEAN /\ e.d \in BOOLEAN
      BY <1>0, Zenon DEF Pde
    <3> QED BY <1>0, <1>4, <3>1, <3>4, <3>5, <3>6, Zenon DEF PdeSync, e
  <2>2. CASE PdeDirty
    <3>0. shadow_pd[i].p
      BY <1>i, <2>2, Zenon DEF PdeDirty, ShadowPdeAccess, CanAccess
    <3>1. PdeSync(shadow_pd[i], e)
      BY <1>0, <1>1, <3>0, Zenon DEF IInv, Sync, DirSync
    <3>2. shadow_pd'[i].w = e.w /\ shadow_pd'[i].u = shadow_pd[i].u
      BY <1>i, <1>0, <2>2, Zenon DEF PdeDirty, IInv, TypeInv, TypeOK, ShadowPde
    <3>3. GuestPde(i)'.d
      <4>1. TRUE \in BOOLEAN /\ guest_pd' = [guest_pd EXCEPT ![guest_cr3][i].d = TRUE]
        BY <1>i, <2>2, Zenon DEF PdeDirty
      <4>2. guest_pd'[guest_cr3][i] = [guest_pd[guest_cr3][i] EXCEPT !.d = TRUE]
        BY <1>0, <4>1, PdeDirtied, ZenonT(30) DEF IInv, TypeInv
      <4>3. guest_pd[guest_cr3][i] \in Pde
        BY <1>0, Zenon DEF GuestPde
      <4> QED BY <1>2, <4>2, <4>3, Zenon DEF GuestPde, Pde
    <3> HIDE DEF e
    <3> QED BY <1>0, <1>4, <3>1, <3>2, <3>3, Zenon DEF PdeSync, e
  <2> QED BY <2>1, <2>2, Zenon
<1> HIDE DEF e
<1>8. ASSUME NEW j \in Dirs PROVE DirSync(j)'
  <2>1. CASE j = i
    BY <1>0, <1>1, <1>4, <1>7, <1>c, <2>1, Zenon DEF IInv, Sync, DirSync
  <2>2. CASE j # i
    BY <1>1, <1>4, <1>5, <1>c, <2>2, Zenon DEF IInv, Sync, DirSync
  <2> QED BY <2>1, <2>2, Zenon
<1>9. ASSUME NEW v \in Pages PROVE PageSync(v)'
  <2>0. Dir(v) \in Dirs
    BY ConstantsAssumption, Zenon
  <2>1. shadow_pd'[Dir(v)].p /\ shadow_pt'[v].p => shadow_pd[Dir(v)].p /\ shadow_pt'[v] = shadow_pt[v]
    BY <1>5, <1>6, <1>e, <2>0, Zenon
  <2> QED BY <1>1, <1>4, <1>a, <1>d, <2>0, <2>1, Zenon DEF IInv, Sync, PageSync
<1>10. Protected'
  <2>1. \A v \in Pages : shadow_pd'[Dir(v)].p /\ shadow_pt'[v].p
                         => shadow_pd[Dir(v)].p /\ shadow_pt'[v] = shadow_pt[v]
    BY <1>5, <1>6, <1>e, ConstantsAssumption, Zenon
  <2> QED BY <1>1, <1>2, <1>b, <1>c, <2>1, Zenon DEF IInv, Sync, Protected, cache
<1>11. OneCache'
  BY <1>1, <1>2, Zenon DEF IInv, Sync, OneCache, Running, cache
<1> QED BY <1>8, <1>9, <1>10, <1>11, Zenon DEF Sync

\* No two pages of a well behaved guest share a page table entry.
LEMMA DistinctEntries ==
    ASSUME WellBehavedGuest, TypeInv, guest_cr3 \in CR3s,
           NEW v \in Pages, NEW x \in Pages, x # v,
           ~ GuestPde(Dir(v)).large, ~ GuestPde(Dir(x)).large
    PROVE  GuestPde(Dir(x)).pt # GuestPde(Dir(v)).pt \/ Index(x) # Index(v)
<1>1. CASE Dir(x) = Dir(v)
  BY <1>1, ConstantsAssumption, Zenon
<1>2. CASE Dir(x) # Dir(v)
  <2>0. Dir(v) \in Dirs /\ Dir(x) \in Dirs
    BY ConstantsAssumption, Zenon
  <2>1. PICK e \in PDEs(Dir(v)) : GuestPde(Dir(v)).large = e.large /\ GuestPde(Dir(v)).pt = e.pt
    BY <2>0, Zenon DEF TypeInv, OwnTables, GuestPde
  <2>2. PICK f \in PDEs(Dir(x)) : GuestPde(Dir(x)).large = f.large /\ GuestPde(Dir(x)).pt = f.pt
    BY <2>0, Zenon DEF TypeInv, OwnTables, GuestPde
  <2> QED BY <1>2, <2>0, <2>1, <2>2, Zenon DEF WellBehavedGuest
<1> QED BY <1>1, <1>2, Zenon

\* A page table entry is mapped in or marked dirty.
LEMMA SyncPte ==
    ASSUME WellBehavedGuest, IInv, Fault, PteMap \/ PteDirty
    PROVE  Sync'
<1>v. PICK v \in Pages : v = access.page
  BY FaultTypes, Zenon DEF Fault, IInv, TypeInv
<1> DEFINE g == GuestPte(v)
           f == GuestPde(Dir(v)).pt
<1>0. /\ guest_cr3 \in CR3s /\ access.write \in BOOLEAN /\ access.user \in BOOLEAN
      /\ shadow_pt[v] \in ShadowPte /\ Dir(v) \in Dirs
  BY <1>v, FaultTypes, Zenon DEF Fault, IInv, TypeInv, FaultDir
<1>1. Running
  BY ConstantsAssumption, Zenon DEF Fault, IInv, TypeInv, TypeOK, Running
<1>2. UNCHANGED <<guest_pd, shadow_pd, guest_cr3, cached_ptes, stale>> /\ outcome' = "ok"
  BY Zenon DEF PteMap, PteDirty
<1>3. /\ ~ GuestPde(Dir(v)).large /\ f \notin Invalid
      /\ shadow_pd[Dir(v)].p /\ ~ is_guest_pf(GuestPteAccess, ShadowPteAccess)
  BY <1>v, Zenon DEF PteMap, PteDirty, SmallShadowFault, SmallFault, PteFault, FaultDir, ShadowPdeAccess, CanAccess
<1>4. Index(v) \in Indexes /\ f \in PtFrames /\ g \in Pte
  BY <1>0, <1>3, GuestPteType, Zenon DEF IInv, TypeInv
<1>5. g.p \in BOOLEAN /\ g.w \in BOOLEAN /\ g.u \in BOOLEAN /\ g.d \in BOOLEAN /\ g.frame \in PteFrames
  BY <1>4, Zenon DEF Pte
<1>6. g.frame \notin cached_ptes
  BY <1>5, Zenon DEF WellBehavedGuest, IInv, TypeInv, TypeOK
<1>7. (Valid' => Valid) /\ (\A j : TrustedDir(j)' => TrustedDir(j))
  BY <1>2, Zenon DEF Valid, TrustedDir, stale, PteMap, PteDirty, Noticed
<1>8. \A x : TrustedPage(x)' => TrustedPage(x)
  BY <1>2, <1>7, Zenon DEF TrustedPage, stale
<1>9. \A j : GuestPde(j)' = GuestPde(j)
  BY <1>2, Zenon DEF GuestPde
<1>10. TablesOf(guest_cr3)' = TablesOf(guest_cr3)
  BY <1>2, Zenon DEF TablesOf
<1>t. TypeOK
  BY Zenon DEF IInv, TypeInv
<1>11. guest_pt' = guest_pt \/ SetDirty(v)
  BY <1>v, Zenon DEF PteMap, PteDirty
<1>12. \A a \in PtFrames, j \in Indexes :
           /\ guest_pt'[a][j].p = guest_pt[a][j].p /\ guest_pt'[a][j].w = guest_pt[a][j].w
           /\ guest_pt'[a][j].u = guest_pt[a][j].u /\ guest_pt'[a][j].frame = guest_pt[a][j].frame
           /\ ~ (a = f /\ j = Index(v)) => guest_pt'[a][j].d = guest_pt[a][j].d
  <2>1. CASE guest_pt' = guest_pt
    BY <2>1, Zenon
  <2>2. CASE SetDirty(v)
    <3>1. ASSUME NEW a \in PtFrames, NEW j \in Indexes
          PROVE  /\ guest_pt'[a][j].p = guest_pt[a][j].p /\ guest_pt'[a][j].w = guest_pt[a][j].w
                 /\ guest_pt'[a][j].u = guest_pt[a][j].u /\ guest_pt'[a][j].frame = guest_pt[a][j].frame
                 /\ ~ (a = f /\ j = Index(v)) => guest_pt'[a][j].d = guest_pt[a][j].d
      <4>0. GuestPde(Dir(v)).pt \in PtFrames /\ Index(v) \in Indexes
        BY <1>4, Zenon
      <4>1. /\ guest_pt'[a][j].p = guest_pt[a][j].p /\ guest_pt'[a][j].w = guest_pt[a][j].w
            /\ guest_pt'[a][j].u = guest_pt[a][j].u /\ guest_pt'[a][j].frame = guest_pt[a][j].frame
        BY ONLY <1>t, <2>2, <4>0, PteDirtied, a \in PtFrames, j \in Indexes, ZenonT(30)
      <4>2. ~ (a = GuestPde(Dir(v)).pt /\ j = Index(v)) => guest_pt'[a][j].d = guest_pt[a][j].d
        BY ONLY <1>t, <2>2, <4>0, OthersClean, a \in PtFrames, j \in Indexes
      <4> QED BY <4>1, <4>2, Zenon
    <3> QED BY ONLY <3>1, Zenon
  <2> QED BY <1>11, <2>1, <2>2, Zenon
<1>13. \A x \in Pages : x # v => shadow_pt'[x] = shadow_pt[x]
  BY <1>v, Zenon DEF PteMap, PteDirty, IInv, TypeInv, TypeOK
<1>14. /\ GuestPte(v)'.p = g.p /\ GuestPte(v)'.w = g.w /\ GuestPte(v)'.u = g.u
       /\ GuestPte(v)'.frame = g.frame
  BY <1>4, <1>9, <1>12, Zenon DEF GuestPte
<1>15. SetDirty(v) => GuestPte(v)'.d = TRUE
  <2> SUFFICES ASSUME SetDirty(v) PROVE GuestPte(v)'.d = TRUE
    BY Zenon
  <2>1. guest_pt'[f][Index(v)].d = TRUE
    BY <1>t, <1>4, PteDirtied, ZenonT(30)
  <2> QED BY <1>9, <2>1, Zenon DEF GuestPte
<1>16. TrustedPage(v) => PteSync(shadow_pt'[v], GuestPte(v)')
  <2> SUFFICES ASSUME TrustedPage(v) PROVE PteSync(shadow_pt'[v], GuestPte(v)')
    BY Zenon
  <2>1. CASE PteMap
    <3>1. shadow_pt'[v] = [p |-> g.p, u |-> g.u, w |-> g.w /\ (g.d \/ access.write), frame |-> g.frame,
                           guest_pt |-> shadow_pt[v].guest_pt \/ g.frame \in cached_ptes]
      BY <1>v, <2>1, Zenon DEF PteMap, IInv, TypeInv, TypeOK
    <3>2. /\ shadow_pt'[v].u = g.u /\ shadow_pt'[v].frame = g.frame
          /\ shadow_pt'[v].w = (g.w /\ (g.d \/ access.write))
      BY <3>1
    <3>3. g.p
      BY <1>v, <1>3, <1>5, <2>1, Zenon DEF PteMap, is_guest_pf, GuestPteAccess, CanAccess
    <3>4. GuestPte(v)'.d = (g.d \/ access.write)
      <4>1. CASE access.write
        BY <1>v, <1>15, <2>1, <4>1, Zenon DEF PteMap
      <4>2. CASE ~ access.write
        <5>1. guest_pt' = guest_pt
          BY <2>1, <4>2, ZenonT(30) DEF PteMap
        <5>2. GuestPte(v)' = g
          BY <1>9, <5>1, Zenon DEF GuestPte
        <5> HIDE DEF g
        <5> QED BY <1>5, <4>2, <5>2, Zenon
      <4> QED BY <4>1, <4>2, <1>0, Zenon
    <3> HIDE DEF g
    <3> QED BY <1>0, <1>5, <1>14, <3>2, <3>3, <3>4, Zenon DEF PteSync
  <2>2. CASE PteDirty
    <3>1. shadow_pt[v].p
      BY <1>v, <2>2, Zenon DEF PteDirty, ShadowPteAccess, CanAccess
    <3>2. PteSync(shadow_pt[v], g)
      BY <1>1, <1>3, <3>1, Zenon DEF IInv, Sync, PageSync
    <3>a. shadow_pt' = [shadow_pt EXCEPT ![v].w = g.w]
      BY <1>v, <2>2, Zenon DEF PteDirty
    <3> HIDE DEF g
    <3>3. shadow_pt'[v].w = g.w /\ shadow_pt'[v].u = shadow_pt[v].u /\ shadow_pt'[v].frame = shadow_pt[v].frame
      BY <1>5, <3>a, ShadowWritable, ZenonT(30) DEF IInv, TypeInv
    <3>4. GuestPte(v)'.d = TRUE
      BY <1>v, <1>15, <2>2, Zenon DEF PteDirty
    <3> QED BY <1>5, <1>14, <3>2, <3>3, <3>4, Zenon DEF PteSync
  <2> QED BY <2>1, <2>2, Zenon
<1>17. ASSUME NEW j \in Dirs PROVE DirSync(j)'
  BY <1>1, <1>2, <1>7, <1>9, Zenon DEF IInv, Sync, DirSync
<1>18. ASSUME NEW x \in Pages PROVE PageSync(x)'
  <2>1. CASE x = v
    BY <1>3, <1>8, <1>9, <1>16, <2>1, Zenon DEF PageSync
  <2>2. CASE x # v
    <3> SUFFICES ASSUME TrustedPage(x), shadow_pd[Dir(x)].p, ~ GuestPde(Dir(x)).large,
                        PteSync(shadow_pt[x], GuestPte(x))
        PROVE PteSync(shadow_pt[x], GuestPte(x)')
      BY <1>1, <1>2, <1>8, <1>9, <1>13, <2>2, Zenon DEF IInv, Sync, PageSync
    <3>1. Index(x) \in Indexes /\ GuestPde(Dir(x)).pt \in PtFrames
      BY <1>1, TrustedPte, Zenon DEF TrustedPage
    <3>2. GuestPde(Dir(x)).pt # f \/ Index(x) # Index(v)
      BY <1>0, <1>3, <2>2, DistinctEntries, Zenon DEF IInv
    <3>3. /\ GuestPte(x)'.p = GuestPte(x).p /\ GuestPte(x)'.w = GuestPte(x).w
          /\ GuestPte(x)'.u = GuestPte(x).u /\ GuestPte(x)'.frame = GuestPte(x).frame
          /\ GuestPte(x)'.d = GuestPte(x).d
      BY <1>9, <1>12, <3>1, <3>2, ZenonT(30) DEF GuestPte
    <3> QED BY <3>3, Zenon DEF PteSync
  <2> QED BY <2>1, <2>2, Zenon
<1>19. Protected'
  <2> SUFFICES ASSUME Valid', Valid PROVE Protected'
    BY <1>7, Zenon DEF Protected
  <2>1. shadow_pt'[v].frame \notin cached_ptes
    BY <1>0, <1>6, <1>14, <1>16, Zenon DEF PteSync, TrustedPage, TrustedDir
  <2> QED BY <1>1, <1>2, <1>10, <1>13, <2>1, Zenon DEF IInv, Sync, Protected
<1>20. OneCache'
  BY <1>1, <1>2, Zenon DEF IInv, Sync, OneCache, Running, PteMap, PteDirty, Noticed
<1> QED BY <1>17, <1>18, <1>19, <1>20, Zenon DEF Sync

\* A page of a large page is mapped in, or the write to a table is noticed.
LEMMA SyncLarge ==
    ASSUME IInv, Fault, LargeMap \/ LargeTableWrite
    PROVE  Sync'
<1>v. PICK v \in Pages : v = access.page
  BY FaultTypes, Zenon DEF Fault, IInv, TypeInv
<1>0. Dir(v) \in Dirs /\ GuestPde(Dir(v)).large /\ shadow_pd[Dir(v)].p
  BY <1>v, ConstantsAssumption, Zenon DEF LargeMap, LargeTableWrite, LargeFault, PteFault, FaultDir, ShadowPdeAccess, CanAccess
<1>1. Running
  BY ConstantsAssumption, Zenon DEF Fault, IInv, TypeInv, TypeOK, Running
<1>2. UNCHANGED <<tables, shadow_pd, guest_cr3, cached_ptes, stale>> /\ outcome' = "ok"
  BY Zenon DEF LargeMap, LargeTableWrite, cache
<1>3. (Valid' => Valid) /\ (\A j : TrustedDir(j)' => TrustedDir(j))
  BY <1>2, ConstantsAssumption, Zenon DEF Valid, TrustedDir, stale, LargeMap, LargeTableWrite, Noticed, cache
<1>4. \A x : TrustedPage(x)' => TrustedPage(x)
  BY <1>2, <1>3, Zenon DEF TrustedPage, stale
<1>5. \A j : GuestPde(j)' = GuestPde(j)
  BY <1>2, Zenon DEF GuestPde, tables
<1>6. \A x : GuestPte(x)' = GuestPte(x)
  BY <1>2, Zenon DEF GuestPte, GuestPde, tables
<1>7. TablesOf(guest_cr3)' = TablesOf(guest_cr3)
  BY <1>2, Zenon DEF TablesOf, tables
<1>8. \A x \in Pages : x # v => shadow_pt'[x] = shadow_pt[x]
  BY <1>v, Zenon DEF LargeMap, LargeTableWrite, IInv, TypeInv, TypeOK
<1>9. LargeMap => /\ shadow_pt'[v].u = TRUE /\ shadow_pt'[v].frame = LargeFrame(v)
                  /\ shadow_pt'[v].w = (LargeFrame(v) \notin cached_ptes)
                  /\ LargeFrame(v) \in cached_ptes => shadow_pt'[v].guest_pt = TRUE
  <2>1. LargeMap => shadow_pt'[v] = LargePte(LargeFrame(v), shadow_pt[v].guest_pt)
    BY <1>v, Zenon DEF LargeMap, IInv, TypeInv, TypeOK
  <2>2. LargeMap => /\ shadow_pt'[v].u = TRUE /\ shadow_pt'[v].frame = LargeFrame(v)
                    /\ shadow_pt'[v].w = (LargeFrame(v) \notin cached_ptes)
    BY <2>1 DEF LargePte
  <2>3. LargeMap => shadow_pt'[v].guest_pt = (shadow_pt[v].guest_pt \/ LargeFrame(v) \in cached_ptes)
    BY <2>1 DEF LargePte
  <2> QED BY <2>2, <2>3, ZenonT(30)
<1>10. TrustedPage(v) => LargeSync(shadow_pt'[v], v)
  <2> SUFFICES ASSUME TrustedPage(v) PROVE LargeSync(shadow_pt'[v], v)
    BY Zenon
  <2>1. CASE LargeMap
    BY <1>9, <2>1, Zenon DEF LargeSync
  <2>2. CASE LargeTableWrite
    <3>1. shadow_pt[v].p
      BY <1>v, <2>2, Zenon DEF LargeTableWrite, ShadowPteAccess, CanAccess
    <3>2. LargeSync(shadow_pt[v], v)
      BY <1>0, <1>1, <3>1, Zenon DEF IInv, Sync, PageSync
    <3>3. shadow_pt' = [shadow_pt EXCEPT ![v].w = TRUE] /\ TRUE \in BOOLEAN
      BY <1>v, <2>2, Zenon DEF LargeTableWrite
    <3>4. shadow_pt'[v].w = TRUE /\ shadow_pt'[v].u = shadow_pt[v].u /\ shadow_pt'[v].frame = shadow_pt[v].frame
      BY <3>3, ShadowWritable, ZenonT(30) DEF IInv, TypeInv
    <3> QED BY <3>2, <3>4, Zenon DEF LargeSync
  <2> QED BY <2>1, <2>2, Zenon
<1>11. ASSUME NEW j \in Dirs PROVE DirSync(j)'
  BY <1>1, <1>2, <1>3, <1>5, Zenon DEF IInv, Sync, DirSync
<1>12. ASSUME NEW x \in Pages PROVE PageSync(x)'
  <2>1. CASE x = v
    BY <1>0, <1>4, <1>5, <1>10, <2>1, Zenon DEF PageSync
  <2>2. CASE x # v
    BY <1>1, <1>2, <1>4, <1>5, <1>6, <1>8, <2>2, Zenon DEF IInv, Sync, PageSync
  <2> QED BY <2>1, <2>2, Zenon
<1>13. Protected'
  <2> SUFFICES ASSUME Valid', Valid PROVE Protected'
    BY <1>3, Zenon DEF Protected
  <2>1. LargeMap
    BY Zenon DEF LargeTableWrite, Noticed, Valid
  <2>2. shadow_pt'[v].w => shadow_pt'[v].frame \notin cached_ptes
    BY <1>9, <2>1, Zenon
  <2> QED BY <1>1, <1>2, <1>7, <1>8, <2>2, Zenon DEF IInv, Sync, Protected
<1>14. OneCache'
  BY <1>1, <1>2, Zenon DEF IInv, Sync, OneCache, Running, LargeMap, LargeTableWrite, Noticed, cache
<1> QED BY <1>11, <1>12, <1>13, <1>14, Zenon DEF Sync
\* What the guest does: accesses, stores and turning paging on and off.
LEMMA SyncGuest ==
    ASSUME WellBehavedGuest, IInv,
           \/ \E v \in Pages, w \in BOOLEAN, u \in Users : Access(v, w, u)
           \/ Perform
           \/ \E f \in CR3s \cup PtFrames : StorePhysical(f)
           \/ \E mode \in {"PHYSICAL_MEM", "VIRTUAL_MEM"} : WriteCr0(mode)
    PROVE  Sync'
<1>1. CASE \E v \in Pages, w \in BOOLEAN, u \in Users : Access(v, w, u)
  BY <1>1, SyncQuiet, Zenon DEF Access, IInv
<1>2. CASE Perform
  <2>1. outcome # "error"
    BY <1>2, Zenon DEF Perform, IInv, TypeInv, TypeOK
  <2>2. CASE access.write /\ StorePde(shadow_pt[access.page].frame)
    BY <1>2, <2>2, SyncStorePde, Zenon
  <2>3. CASE access.write /\ StorePte(shadow_pt[access.page].frame)
    BY <1>2, <2>3, SyncStorePte, Zenon
  <2>4. CASE UNCHANGED <<tables, stale>>
    BY <1>2, <2>1, <2>4, SyncQuiet, Zenon DEF Perform, IInv
  <2> QED BY <1>2, <2>2, <2>3, <2>4, Zenon DEF Perform
<1>3. CASE \E f \in CR3s \cup PtFrames : StorePhysical(f)
  <2>1. guest_cr3 = 0 /\ UNCHANGED <<guest_cr3, cache, outcome>>
    BY <1>3, Zenon DEF StorePhysical, WellBehavedGuest
  <2>2. ~ Running'
    BY <2>1, Zenon DEF Running
  <2>3. OneCache'
    BY <2>1, Zenon DEF IInv, Sync, OneCache, cache
  <2> QED BY <2>2, <2>3, Zenon DEF Sync, DirSync, PageSync, Protected
<1>4. CASE \E mode \in {"PHYSICAL_MEM", "VIRTUAL_MEM"} : WriteCr0(mode)
  BY <1>4, SyncQuiet, Zenon DEF WriteCr0, IInv
<1> QED BY <1>1, <1>2, <1>3, <1>4, Zenon

LEMMA SyncFault ==
    ASSUME WellBehavedGuest, IInv, handle_shadow_pagefault32
    PROVE  Sync'
<1>0. Fault
  BY Zenon DEF handle_shadow_pagefault32
<1>1. CASE PdeInject \/ PtInvalid \/ PteInject \/ PteSpecial \/ PteFell \/ LargeSpecial \/ LargeFell
  <2>1. outcome # "error"
    BY <1>0, Zenon DEF Fault, IInv, TypeInv, TypeOK
  <2> QED BY <1>1, <2>1, Ending, SyncQuiet, Zenon DEF Inject, IInv
<1>2. CASE PdeInstall \/ PdeDirty
  BY <1>0, <1>2, SyncPde, Zenon
<1>3. CASE PteMap \/ PteDirty
  BY <1>0, <1>3, SyncPte, Zenon
<1>4. CASE LargeMap \/ LargeTableWrite
  BY <1>0, <1>4, SyncLarge, Zenon
<1> QED BY <1>1, <1>2, <1>3, <1>4, Zenon DEF handle_shadow_pagefault32

\* A CR3 write keeps a shadow that the valid cache vouches for, or starts an
\* empty one.
LEMMA SyncCr3 ==
    ASSUME IInv, NEW c \in CR3s, WriteCr3(c)
    PROVE  Sync'
<1>0. outcome # "error" /\ c # 0 /\ cached_cr3' = c /\ UNCHANGED tables
  BY ConstantsAssumption, Zenon DEF WriteCr3
<1>1. CASE CacheHit(c)
  <2>1. cached_cr3 = c /\ guest_cr3 = c /\ UNCHANGED <<guest_cr3, cached_cr3, shadow, cached_ptes>>
    BY <1>0, <1>1, Zenon DEF CacheHit, WriteCr3, IInv, Sync, OneCache
  <2>2. Valid /\ Running
    BY <1>0, <2>1, Zenon DEF Valid, Running
  <2>3. (\A i : TrustedDir(i)) /\ (\A v : TrustedPage(v))
    BY <2>2, Zenon DEF TrustedDir, TrustedPage
  <2>4. (\A i : GuestPde(i)' = GuestPde(i)) /\ TablesOf(guest_cr3)' = TablesOf(guest_cr3)
    BY <1>0, <2>1, Zenon DEF GuestPde, TablesOf, tables
  <2>5. \A v : GuestPte(v)' = GuestPte(v)
    BY <1>0, <2>4, Zenon DEF GuestPte, tables
  <2>6. ASSUME NEW i \in Dirs PROVE DirSync(i)'
    BY <2>1, <2>2, <2>3, <2>4, Zenon DEF IInv, Sync, DirSync, shadow
  <2>7. ASSUME NEW v \in Pages PROVE PageSync(v)'
    BY <2>1, <2>2, <2>3, <2>4, <2>5, Zenon DEF IInv, Sync, PageSync, shadow
  <2>8. Protected'
    BY <2>1, <2>2, <2>4, Zenon DEF IInv, Sync, Protected, shadow
  <2>9. OneCache'
    BY <2>1, Zenon DEF OneCache
  <2> QED BY <2>6, <2>7, <2>8, <2>9, Zenon DEF Sync
<1>2. CASE ~ CacheHit(c) /\ TablesOf(c) \cap Invalid = {}
  <2>1. /\ guest_cr3' = c /\ cached_ptes' = Cached(c) \ Invalid
        /\ shadow_pd' = [i \in Dirs |-> NoShadowPde] /\ shadow_pt' = [v \in Pages |-> NoShadowPte]
    BY <1>2, Zenon DEF WriteCr3
  <2>2. \A i \in Dirs : ~ shadow_pd'[i].p /\ GuestPde(i)' = guest_pd[c][i]
    BY <1>0, <2>1, Zenon DEF NoShadowPde, GuestPde, tables
  <2>3. ASSUME NEW i \in Dirs PROVE DirSync(i)'
    <3>1. guest_pd[c][i].p /\ ~ guest_pd[c][i].large => guest_pd[c][i].pt \in TablesOf(c)
      BY Zenon DEF TablesOf
    <3> QED BY <1>2, <2>2, <3>1, Zenon DEF DirSync
  <2>4. ASSUME NEW v \in Pages PROVE PageSync(v)'
    BY <2>2, ConstantsAssumption, Zenon DEF PageSync
  <2>5. Protected'
    <3>1. TablesOf(guest_cr3)' = TablesOf(c)
      BY <1>0, <2>1, Zenon DEF TablesOf, tables
    <3>2. c \in cached_ptes' /\ TablesOf(c) \subseteq cached_ptes'
      BY <1>2, <2>1, ConstantsAssumption, Zenon DEF Cached
    <3>3. \A v \in Pages : ~ shadow_pd'[Dir(v)].p
      BY <2>2, ConstantsAssumption, Zenon
    <3> QED BY <2>1, <3>1, <3>2, <3>3, Zenon DEF Protected
  <2>6. OneCache'
    BY <1>0, <2>1, Zenon DEF OneCache
  <2> QED BY <2>3, <2>4, <2>5, <2>6, Zenon DEF Sync
<1>3. CASE ~ CacheHit(c) /\ TablesOf(c) \cap Invalid # {}
  <2>1. outcome' = "error"
    BY <1>3, Zenon DEF WriteCr3
  <2> QED BY <2>1, Zenon DEF Sync, DirSync, PageSync, Protected, OneCache, Running
<1> QED BY <1>1, <1>2, <1>3, Zenon
LEMMA SyncInvlpg ==
    ASSUME IInv, NEW v \in Pages, Invlpg(v)
    PROVE  Sync'
<1>0. /\ outcome # "error" /\ UNCHANGED <<tables, guest_cr3, cache>>
      /\ guest_cr3 # 0 /\ TypeOK /\ Dir(v) \in Dirs
  BY ConstantsAssumption, Zenon DEF Invlpg, IInv, TypeInv, TypeOK
<1>1. Running
  BY <1>0, Zenon DEF Running
<1>2. (\A i : GuestPde(i)' = GuestPde(i)) /\ TablesOf(guest_cr3)' = TablesOf(guest_cr3)
  BY <1>0, Zenon DEF GuestPde, TablesOf, tables
<1>3. \A x : GuestPte(x)' = GuestPte(x)
  BY <1>0, <1>2, Zenon DEF GuestPte, tables
<1>4. Valid' <=> Valid
  BY <1>0, Zenon DEF Valid, cache
<1>5. OneCache'
  BY <1>0, Zenon DEF IInv, Sync, OneCache, cache
<1>6. ASSUME NEW i \in Dirs PROVE DirSync(i)'
  <2>1. CASE GuestPde(Dir(v)).large /\ i = Dir(v)
    BY <1>0, <1>2, <2>1, InvlpgShadow, Zenon DEF DirSync
  <2>2. CASE ~ (GuestPde(Dir(v)).large /\ i = Dir(v))
    <3>1. shadow_pd'[i] = shadow_pd[i]
      BY <1>0, <2>2, InvlpgShadow, Zenon
    <3>2. TrustedDir(i)' => TrustedDir(i)
      BY <1>4, <2>2, Zenon DEF TrustedDir, Invlpg
    <3> QED BY <1>1, <1>2, <3>1, <3>2, Zenon DEF IInv, Sync, DirSync
  <2> QED BY <2>1, <2>2, Zenon
<1>7. \A x \in Pages : shadow_pd'[Dir(x)].p /\ shadow_pt'[x].p
                       => /\ shadow_pd'[Dir(x)] = shadow_pd[Dir(x)] /\ shadow_pt'[x] = shadow_pt[x]
                          /\ (GuestPde(Dir(v)).large => Dir(x) # Dir(v))
                          /\ (~ GuestPde(Dir(v)).large => x # v)
  <2> SUFFICES ASSUME NEW x \in Pages, shadow_pd'[Dir(x)].p, shadow_pt'[x].p
               PROVE  /\ shadow_pd'[Dir(x)] = shadow_pd[Dir(x)] /\ shadow_pt'[x] = shadow_pt[x]
                      /\ (GuestPde(Dir(v)).large => Dir(x) # Dir(v))
                      /\ (~ GuestPde(Dir(v)).large => x # v)
    BY Zenon
  <2>0. Dir(x) \in Dirs
    BY ConstantsAssumption, Zenon
  <2>1. CASE GuestPde(Dir(v)).large
    BY <1>0, <2>0, <2>1, InvlpgShadow, Zenon
  <2>2. CASE ~ GuestPde(Dir(v)).large
    BY <1>0, <2>0, <2>2, InvlpgShadow, Zenon
  <2> QED BY <2>1, <2>2, Zenon
<1>8. ASSUME NEW x \in Pages PROVE PageSync(x)'
  <2> SUFFICES ASSUME shadow_pd'[Dir(x)].p, shadow_pt'[x].p PROVE PageSync(x)'
    BY Zenon DEF PageSync
  <2>1. TrustedPage(x)' => TrustedPage(x)
    BY <1>4, <1>7, Zenon DEF TrustedPage, TrustedDir, Invlpg
  <2> QED BY <1>1, <1>2, <1>3, <1>7, <2>1, Zenon DEF IInv, Sync, PageSync
<1>9. Protected'
  BY <1>0, <1>1, <1>2, <1>4, <1>7, Zenon DEF IInv, Sync, Protected, cache
<1> QED BY <1>5, <1>6, <1>8, <1>9, Zenon DEF Sync

LEMMA SyncStep == WellBehavedGuest /\ IInv /\ [Next]_vars => IInv'
<1> SUFFICES ASSUME WellBehavedGuest, IInv, [Next]_vars PROVE IInv'
  BY Zenon
<1>1. TypeInv'
  BY TypeStep, Zenon DEF IInv
<1>2. Sync'
  <2>1. CASE handle_shadow_pagefault32
    BY <2>1, SyncFault, Zenon
  <2>2. CASE Next /\ ~ handle_shadow_pagefault32
    BY <2>2, SyncGuest, SyncCr3, SyncInvlpg, Zenon DEF Next
  <2>3. CASE UNCHANGED vars
    <3>1. CASE outcome # "error"
      BY <2>3, <3>1, SyncQuiet, Zenon DEF vars, IInv
    <3>2. CASE outcome = "error"
      <4>1. outcome' = "error"
        BY <2>3, <3>2, Zenon DEF vars
      <4> QED BY <4>1, Zenon DEF Sync, DirSync, PageSync, Protected, OneCache, Running
    <3> QED BY <3>1, <3>2, Zenon
  <2> QED BY <2>1, <2>2, <2>3, Zenon
<1> QED BY <1>1, <1>2, Zenon DEF IInv

LEMMA Invariance == WellBehavedGuest => (Spec => []IInv)
<1>1. Init => IInv
  BY TypeInit, SyncInit, Zenon DEF IInv
<1>2. WellBehavedGuest /\ IInv /\ [Next]_vars => IInv'
  BY SyncStep, Zenon
<1> SUFFICES ASSUME WellBehavedGuest PROVE Spec => []IInv
  BY Zenon
<1>3. IInv /\ [Next]_vars => IInv'
  BY <1>2, Zenon
<1> QED BY <1>1, <1>3, PTL DEF Spec

\* A well behaved guest does not change its tables behind a valid cache, so
\* v3_handle_cr3_write may keep the shadow: every entry of it gives the frame of
\* the current tables, and no right that they lack.
THEOREM CacheSound == WellBehavedGuest => (Spec => []CacheTracksTables)
<1>1. IInv => CacheTracksTables
  <2> SUFFICES ASSUME IInv, cached_cr3 # 0, cached_cr3 = guest_cr3, outcome # "error",
                      NEW v \in Pages, shadow_pd[Dir(v)].p
               PROVE  LET e == GuestPde(Dir(v))
                          s == shadow_pd[Dir(v)]
                          t == shadow_pt[v]
                      IN /\ e.p /\ (s.w => e.w) /\ (s.u => e.u)
                         /\ (t.p /\ ~ e.large) => /\ GuestPte(v).p
                                                 /\ (t.w => GuestPte(v).w)
                                                 /\ (t.u => GuestPte(v).u)
                         /\ t.p => t.frame = GuestFrame(v)
    BY Zenon DEF CacheTracksTables
  <2>0. Dir(v) \in Dirs
    BY ConstantsAssumption, Zenon
  <2>1. Running /\ TrustedDir(Dir(v)) /\ TrustedPage(v)
    BY Zenon DEF Running, TrustedDir, TrustedPage, Valid
  <2>2. PdeSync(shadow_pd[Dir(v)], GuestPde(Dir(v)))
    BY <2>0, <2>1, Zenon DEF IInv, Sync, DirSync
  <2>3. CASE GuestPde(Dir(v)).large
    <3>1. shadow_pt[v].p => LargeSync(shadow_pt[v], v)
      BY <2>1, <2>3, Zenon DEF IInv, Sync, PageSync
    <3> QED BY <2>2, <2>3, <3>1, Zenon DEF PdeSync, LargeSync, GuestFrame
  <2>4. CASE ~ GuestPde(Dir(v)).large
    <3>1. shadow_pt[v].p => PteSync(shadow_pt[v], GuestPte(v))
      BY <2>1, <2>4, Zenon DEF IInv, Sync, PageSync
    <3>2. GuestPde(Dir(v)).pt \notin Invalid
      BY <2>1, <2>4, TrustedPte, Zenon
    <3> QED BY <2>2, <2>4, <3>1, <3>2, Zenon DEF PdeSync, PteSync, GuestFrame
  <2> QED BY <2>3, <2>4, Zenon
<1> QED BY <1>1, Invariance, PTL
-----------------------------------------------------------------------------
(* How the access to a flushed page ends. *)

\* The page of a flushed access is trusted.
LEMMA FlushedTrusted ==
    ASSUME IInv, EndsFlushed
    PROVE  /\ access.page \in Pages /\ FaultDir \in Dirs /\ Running
           /\ access.write \in BOOLEAN /\ access.user \in BOOLEAN
           /\ TrustedDir(FaultDir) /\ TrustedPage(access.page)
           /\ GuestPde(FaultDir) \in Pde
<1>1. TypeOK /\ access # None
  BY Zenon DEF IInv, TypeInv, EndsFlushed
<1>2. access.page \in Pages /\ FaultDir \in Dirs /\ access.write \in BOOLEAN /\ access.user \in BOOLEAN
      /\ GuestPde(FaultDir) \in Pde
  BY <1>1, FaultTypes, Zenon DEF FaultDir
<1>3. Running
  BY <1>1, ConstantsAssumption, Zenon DEF TypeOK, Running
<1> QED BY <1>2, <1>3, Zenon DEF TrustedDir, TrustedPage, EndsFlushed, FaultDir

\* What the shadow lets through the guest's tables permit, with the dirty bit
\* of a written page set.
LEMMA Performed ==
    ASSUME IInv, EndsFlushed, ShadowAllows(access)
    PROVE  /\ GuestAllows(access)
           /\ shadow_pt[access.page].frame = GuestFrame(access.page)
           /\ access.write => IF GuestPde(Dir(access.page)).large THEN GuestPde(Dir(access.page)).d
                              ELSE GuestPte(access.page).d
<1> DEFINE v == access.page
           s == shadow_pd[Dir(v)]
           t == shadow_pt[v]
           e == GuestPde(Dir(v))
           g == GuestPte(v)
<1>1. v \in Pages /\ Dir(v) \in Dirs /\ Running /\ TrustedDir(Dir(v)) /\ TrustedPage(v)
  BY FlushedTrusted, Zenon DEF FaultDir
<1>2. s.p /\ t.p /\ (access.write => s.w /\ t.w) /\ (access.user => s.u /\ t.u)
  BY Zenon DEF ShadowAllows, CanAccess
<1> HIDE DEF v
<1>3. PdeSync(s, e)
  BY <1>1, <1>2, Zenon DEF IInv, Sync, DirSync
<1> HIDE DEF s
<1>4. e.p /\ (access.write => e.w /\ (e.large => e.d)) /\ (access.user => e.u)
  BY <1>2, <1>3, Zenon DEF PdeSync
<1>5. CanAccess(e, access) = "OK"
  BY <1>4, Zenon DEF CanAccess
<1>6. CASE e.large
  <2>1. t.frame = LargeFrame(v)
    BY <1>1, <1>2, <1>6, Zenon DEF IInv, Sync, PageSync, LargeSync, s
  <2> QED BY <1>4, <1>5, <1>6, <2>1, ZenonT(30) DEF GuestAllows, GuestFrame, v
<1>7. CASE ~ e.large
  <2>1. PteSync(t, g)
    BY <1>1, <1>2, <1>7, Zenon DEF IInv, Sync, PageSync, s
  <2>2. e.pt \notin Invalid
    BY <1>1, <1>2, <1>7, TrustedPte, Zenon DEF s
  <2>3. g.p /\ (access.write => g.w /\ g.d) /\ (access.user => g.u) /\ t.frame = g.frame
    BY <1>2, <2>1, Zenon DEF PteSync
  <2>4. CanAccess(g, access) = "OK"
    BY <2>3, Zenon DEF CanAccess
  <2> QED BY <1>5, <1>7, <2>2, <2>3, <2>4, Zenon DEF GuestAllows, GuestFrame, v
<1> QED BY <1>6, <1>7, Zenon

\* A fault is passed on only if the guest's tables forbid the access.
LEMMA Injected ==
    ASSUME IInv, EndsFlushed, PdeInject \/ PteInject
    PROVE  ~ GuestAllows(access)
<1> DEFINE s == shadow_pd[FaultDir]
           e == GuestPde(FaultDir)
<1>1. FaultDir \in Dirs /\ Running /\ TrustedDir(FaultDir) /\ e \in Pde
  BY FlushedTrusted, Zenon
<1>2. s.p => PdeSync(s, e)
  BY <1>1, Zenon DEF IInv, Sync, DirSync
<1>3. CASE is_guest_pf(GuestPdeAccess, ShadowPdeAccess)
  BY <1>3, Zenon DEF is_guest_pf, GuestPdeAccess, GuestAllows, FaultDir
<1>4. CASE ShadowPdeAccess = "USER_ERROR"
  <2>1. s.p /\ ~ s.u /\ access.user
    BY <1>4, Zenon DEF ShadowPdeAccess, CanAccess
  <2>2. ~ e.u
    BY <1>2, <2>1, Zenon DEF PdeSync
  <2> QED BY <2>1, <2>2, Zenon DEF GuestAllows, CanAccess, FaultDir
<1>5. CASE ShadowPdeAccess = "WRITE_ERROR" /\ (~ e.large \/ e.d)
  <2>1. s.p /\ ~ s.w /\ access.write
    BY <1>5, Zenon DEF ShadowPdeAccess, CanAccess
  <2>2. ~ e.w
    BY <1>2, <1>5, <2>1, Zenon DEF PdeSync
  <2> QED BY <2>1, <2>2, Zenon DEF GuestAllows, CanAccess, FaultDir
<1>6. CASE PteInject
  <2>1. ~ e.large /\ e.pt \notin Invalid /\ GuestPteAccess # "OK"
    BY <1>6, Zenon DEF PteInject, SmallFault, is_guest_pf
  <2> QED BY <2>1, Zenon DEF GuestAllows, GuestPteAccess, FaultDir
<1> QED BY <1>3, <1>4, <1>5, <1>6, Zenon DEF PdeInject

\* The handlers find a case for every fault.
LEMMA NeverFalls ==
    ASSUME IInv, EndsFlushed, PteFell \/ LargeFell
    PROVE  FALSE
<1> DEFINE v == access.page
           t == shadow_pt[v]
           g == GuestPte(v)
<1>1. v \in Pages /\ Running /\ TrustedPage(v)
  BY FlushedTrusted, Zenon
<1>2. shadow_pd[Dir(v)].p
  BY ZenonT(30) DEF PteFell, LargeFell, SmallShadowFault, SmallFault, LargeFault, PteFault, ShadowPdeAccess,
         CanAccess, FaultDir
<1>3. t.p /\ ((~ t.u /\ access.user) \/ (~ t.w /\ access.write))
  BY Zenon DEF PteFell, LargeFell, ShadowPteAccess, CanAccess
<1>4. CASE PteFell
  <2>1. ~ GuestPde(Dir(v)).large /\ ~ is_guest_pf(GuestPteAccess, ShadowPteAccess)
    BY <1>4, Zenon DEF PteFell, SmallShadowFault, SmallFault, FaultDir
  <2>2. PteSync(t, g)
    BY <1>1, <1>2, <1>3, <2>1, Zenon DEF IInv, Sync, PageSync
  <2>3. g.p /\ ((~ g.u /\ access.user) \/ (~ g.w /\ access.write))
    <3>1. CASE ShadowPteAccess = "USER_ERROR"
      BY <2>2, <3>1, Zenon DEF ShadowPteAccess, CanAccess, PteSync
    <3>2. CASE ShadowPteAccess = "WRITE_ERROR" /\ g.d
      BY <2>2, <3>2, Zenon DEF ShadowPteAccess, CanAccess, PteSync
    <3> QED BY <1>4, <3>1, <3>2, Zenon DEF PteFell
  <2>4. GuestPteAccess # "OK" /\ GuestPteAccess # "NOT_PRESENT" /\ ShadowPteAccess # "NOT_PRESENT"
    BY <1>3, <2>3, Zenon DEF GuestPteAccess, ShadowPteAccess, CanAccess
  <2> QED BY <2>1, <2>4, Zenon DEF is_guest_pf
<1>5. CASE LargeFell
  <2>1. GuestPde(Dir(v)).large
    BY <1>5, Zenon DEF LargeFell, LargeFault, FaultDir
  <2>2. LargeSync(t, v)
    BY <1>1, <1>2, <1>3, <2>1, Zenon DEF IInv, Sync, PageSync
  <2> QED BY <1>5, <2>2, Zenon DEF LargeFell, LargeSync, ShadowPteAccess, CanAccess
<1> QED BY <1>4, <1>5, Zenon
\* An access to a flushed page goes through as the guest's tables say, faults
\* because they forbid it, or meets a frame that is hooked or not the guest's.
LEMMA AccessEnds ==
    ASSUME IInv, [Next]_vars, EndsFlushed
    PROVE  \/ Perform
           \/ outcome' = "page_fault" /\ ~ GuestAllows(access)
           \/ outcome' \in {"machine_check", "emulated"} /\ Hooked \cup Invalid # {}
           \/ outcome' = "error" /\ GuestFrame(access.page) \in Hooked
<1>1. access # None /\ access' = None
  BY Zenon DEF EndsFlushed
<1>2. Perform \/ handle_shadow_pagefault32
  BY <1>1, Zenon DEF Next, vars, Access, StorePhysical, WriteCr3, WriteCr0, Invlpg
<1>3. handle_shadow_pagefault32 =>
         PdeInject \/ PtInvalid \/ PteInject \/ PteSpecial \/ PteFell \/ LargeSpecial \/ LargeFell
  BY <1>1, Zenon DEF handle_shadow_pagefault32, PdeInstall, PdeDirty, PteMap, PteDirty, LargeMap, LargeTableWrite
<1>4. CASE PdeInject \/ PteInject
  BY <1>4, Injected, Zenon DEF PdeInject, PteInject, Inject
<1>5. CASE PtInvalid \/ PteSpecial \/ LargeSpecial
  BY <1>5, Zenon DEF PtInvalid, PteSpecial, LargeSpecial, Emulate, Inject, GuestFrame, FaultDir,
                     SmallShadowFault, SmallFault, LargeFault
<1>6. CASE PteFell \/ LargeFell
  BY <1>6, NeverFalls, Zenon
<1> QED BY <1>2, <1>3, <1>4, <1>5, <1>6, Zenon

\* A well behaved guest that flushes what it changes cannot tell the shadow
\* from its own tables (handle_shadow_pagefault32, v3_handle_cr3_write and
\* v3_handle_shadow_invlpg): no fault of its own making is missing or added, no
\* access reaches another frame, and no fault stops the VM, except where the
\* emulation of an access to a hooked page fails.
THEOREM ShadowTransparent == WellBehavedGuest => (Spec => Transparent)
<1> SUFFICES ASSUME WellBehavedGuest PROVE Spec => Transparent
  BY Zenon
<1>1. Spec => []IInv
  BY Invariance, Zenon
<1>2. IInv /\ [Next]_vars =>
        [EndsFlushed =>
           /\ outcome' = "error" => GuestFrame(access.page) \in Hooked
           /\ outcome' = "page_fault" => ~ GuestAllows(access)
           /\ outcome' = "ok" => /\ GuestAllows(access)
                                 /\ shadow_pt[access.page].frame = GuestFrame(access.page)]_vars
  <2> SUFFICES ASSUME IInv, [Next]_vars, EndsFlushed
               PROVE  /\ outcome' = "error" => GuestFrame(access.page) \in Hooked
                      /\ outcome' = "page_fault" => ~ GuestAllows(access)
                      /\ outcome' = "ok" => /\ GuestAllows(access)
                                            /\ shadow_pt[access.page].frame = GuestFrame(access.page)
    BY Zenon
  <2>1. CASE Perform
    BY <2>1, Performed, Zenon DEF Perform
  <2>2. CASE ~ Perform
    BY <2>2, AccessEnds, Zenon
  <2> QED BY <2>1, <2>2, Zenon
<1> QED BY <1>1, <1>2, PTL DEF Spec, Transparent

\* With no frame hooked or outside its memory, every access that its tables
\* forbid faults in a well behaved guest (is_guest_pf).
THEOREM DeniedFault ==
    WellBehavedGuest /\ Hooked = {} /\ Invalid = {} => (Spec => DeniedAccessesFault)
<1> SUFFICES ASSUME WellBehavedGuest, Hooked = {}, Invalid = {} PROVE Spec => DeniedAccessesFault
  BY Zenon
<1>1. Spec => []IInv
  BY Invariance, Zenon
<1>2. IInv /\ [Next]_vars => [EndsFlushed /\ ~ GuestAllows(access) => outcome' = "page_fault"]_vars
  <2> SUFFICES ASSUME IInv, [Next]_vars, EndsFlushed, ~ GuestAllows(access)
               PROVE  outcome' = "page_fault"
    BY Zenon
  <2>1. ~ Perform
    BY Performed, Zenon DEF Perform
  <2> QED BY <2>1, AccessEnds, Zenon
<1> QED BY <1>1, <1>2, PTL DEF Spec, DeniedAccessesFault

\* A well behaved guest finds the dirty bit set for every page it has written:
\* PdeInstall and PteMap leave the shadow read-only until the bit is set.
THEOREM DirtyFirst == WellBehavedGuest => (Spec => DirtyBeforeWrite)
<1> SUFFICES ASSUME WellBehavedGuest PROVE Spec => DirtyBeforeWrite
  BY Zenon
<1>1. Spec => []IInv
  BY Invariance, Zenon
<1>2. IInv /\ [Next]_vars =>
        [EndsFlushed /\ outcome' = "ok" /\ access.write =>
           IF GuestPde(Dir(access.page)).large THEN GuestPde(Dir(access.page)).d
           ELSE GuestPte(access.page).d]_vars
  <2> SUFFICES ASSUME IInv, [Next]_vars, EndsFlushed, outcome' = "ok", access.write
               PROVE  IF GuestPde(Dir(access.page)).large THEN GuestPde(Dir(access.page)).d
                      ELSE GuestPte(access.page).d
    BY Zenon
  <2>1. Perform
    BY AccessEnds, Zenon
  <2> QED BY <2>1, Performed, Zenon DEF Perform
<1> QED BY <1>1, <1>2, PTL DEF Spec, DirtyBeforeWrite

=============================================================================
