------------------------------- MODULE IoMap -------------------------------
(***************************************************************************)
(* The I/O port map of palacios/src/palacios/vmm_io.c: a doubly linked     *)
(* list of hooks, sorted by port, that v3_hook_io_port and                 *)
(* v3_unhook_io_port edit pointer by pointer.                              *)
(*                                                                         *)
(* A hook is named by a number.  v3_unhook_io_port unlinks a hook and      *)
(* never frees it; nothing points to it any more, and its number is used   *)
(* again.                                                                  *)
(***************************************************************************)
EXTENDS Lists, FiniteSets

CONSTANTS
    Ports,      \* the I/O ports
    Devs,       \* the devices that hook them (priv_data)
    NoDev       \* no device

ASSUME PortsAssumption == Ports \subseteq Nat /\ IsFiniteSet(Ports)
ASSUME NoDevAssumption == NoDev \notin Devs

VARIABLES
    hook,       \* the hooks: records [port, dev, next, prev]
    head,       \* io_map->head
    num_ports,  \* io_map->num_ports
    result      \* what the last call returned

ioVars == <<hook, head, num_ports, result>>

NULL == 0

HookIds == 1..Cardinality(Ports)

New(p, d, n, v) == [port |-> p, dev |-> d, next |-> n, prev |-> v]
NoPort == -1
Blank == New(NoPort, NoDev, NULL, NULL)

InitIoMap ==
    /\ hook = [h \in HookIds |-> Blank]
    /\ head = NULL
    /\ num_ports = 0
    /\ result = 0

-----------------------------------------------------------------------------
(* Walks along next. *)

\* The hooks of the list, in order: FOREACH_IO_HOOK.
Chain ==
    LET from[h \in {NULL} \union HookIds] ==
           IF h = NULL THEN <<>> ELSE <<h>> \o from[hook[h].next]
    IN  from[head]

\* v3_get_io_hook: the first hook of the list with port p.
Get(p) ==
    LET find[h \in {NULL} \union HookIds] ==
           IF h = NULL \/ (h # NULL /\ hook[h].port = p) THEN h ELSE find[hook[h].next]
    IN  find[head]

\* A walk that compares the hook itself, one step too far.
InsertAfterSelf(p) ==
    LET chain == Chain
        stops == {i \in 1..Len(chain) : i = Len(chain) \/ hook[chain[i]].port > p}
    IN  chain[Least(stops)]

\* Where the loop of add_io_hook stops: the next hook has a higher port.
InsertAfter(p) ==
    LET chain == Chain
        stops == {i \in 1..Len(chain) : i = Len(chain) \/ hook[chain[i + 1]].port > p}
    IN  chain[Least(stops)]

-----------------------------------------------------------------------------
(* The three ways add_io_hook links a hook, and the one it refuses. *)

\* A hook that V3_Malloc may return: one that is in no list.
NewId == Least({h \in HookIds : hook[h] = Blank})

AddFirst(p, d) ==
    /\ head = NULL
    /\ hook' = [hook EXCEPT ![NewId] = New(p, d, NULL, NULL)]
    /\ head' = NewId
    /\ num_ports' = 1
    /\ result' = 0

AddAtHead(p, d) ==
    /\ head # NULL
    /\ hook[head].port > p
    /\ hook' = [hook EXCEPT ![NewId] = New(p, d, head, NULL), ![head].prev = NewId]
    /\ head' = NewId
    /\ num_ports' = num_ports + 1
    /\ result' = 0

AddAfter(p, d) ==
    /\ head # NULL
    /\ hook[head].port <= p
    /\ LET t == InsertAfter(p)
           n == hook[t].next
       IN  /\ hook[t].port # p
           /\ hook' = [h \in HookIds |->
                          IF h = NewId THEN New(p, d, n, t)
                          ELSE [hook[h] EXCEPT !.next = IF h = t THEN NewId ELSE @,
                                               !.prev = IF h = n THEN NewId ELSE @]]
    /\ num_ports' = num_ports + 1
    /\ result' = 0
    /\ UNCHANGED head

\* The port has a hook: v3_hook_io_port frees the new one and fails.
AddFails(p, d) ==
    /\ head # NULL
    /\ hook[head].port <= p
    /\ hook[InsertAfter(p)].port = p
    /\ result' = -1
    /\ UNCHANGED <<hook, head, num_ports>>

HookIoPort(p, d) == AddFirst(p, d) \/ AddAtHead(p, d) \/ AddAfter(p, d) \/ AddFails(p, d)

-----------------------------------------------------------------------------
(* v3_unhook_io_port and remove_io_hook. *)

UnhookFails(p) ==
    /\ Get(p) = NULL
    /\ result' = -1
    /\ UNCHANGED <<hook, head, num_ports>>

\* remove_io_hook meets a hook that is not the head and has no prev, the branch
\* marked "data corruption failure"; v3_unhook_io_port ignores its result.
Corrupted(h) == h # head /\ hook[h].prev = NULL

\* The hook behind the removed one keeps its prev.
Unlinked(h) ==
    [g \in HookIds |->
        IF g = h THEN Blank
        ELSE [hook[g] EXCEPT !.next = IF h # head /\ g = hook[h].prev THEN hook[h].next ELSE @]]

Unlink(h) ==
    [g \in HookIds |->
        IF g = h THEN Blank
        ELSE [hook[g] EXCEPT !.next = IF h # head /\ g = hook[h].prev THEN hook[h].next ELSE @,
                             !.prev = IF g = hook[h].next THEN hook[h].prev ELSE @]]

UnhookFound(p) ==
    LET h == Get(p)
    IN  /\ h # NULL
        /\ IF Corrupted(h) THEN UNCHANGED <<hook, head, num_ports>>
           ELSE /\ hook' = Unlink(h)
                /\ head' = IF h = head THEN hook[h].next ELSE head
                /\ num_ports' = num_ports - 1
        /\ result' = 0

UnhookIoPort(p) == UnhookFails(p) \/ UnhookFound(p)

Init == InitIoMap

Next ==
    \E p \in Ports :
       \/ \E d \in Devs : HookIoPort(p, d)
       \/ UnhookIoPort(p)

Spec == Init /\ [][Next]_ioVars

-----------------------------------------------------------------------------
(* Properties *)

\* The fields of the map and of its hooks have their types.
TypeOK ==
    /\ hook \in [HookIds -> [port : Ports \union {NoPort}, dev : Devs \union {NoDev},
                             next : HookIds \union {NULL}, prev : HookIds \union {NULL}]]
    /\ head \in HookIds \union {NULL}
    /\ num_ports \in 0..Cardinality(Ports)
    /\ result \in {0, -1}

\* The list is a doubly linked list sorted strictly by port: following prev is
\* following next backwards, also after any mixture of insertions and
\* removals, and num_ports is its length. The branch that remove_io_hook's
\* comment calls a "data corruption failure" is therefore never taken, and
\* v3_unhook_io_port may ignore the result.
ListWellFormed ==
    LET chain == Chain
    IN  /\ \A i \in 1..Len(chain) :
              hook[chain[i]].prev = IF i = 1 THEN NULL ELSE chain[i - 1]
        /\ \A i, j \in 1..Len(chain) : i < j => hook[chain[i]].port < hook[chain[j]].port
        /\ num_ports = Len(chain)

\* The device the map dispatches a port to.
HookedDev(p) == LET h == Get(p) IN IF h = NULL THEN NoDev ELSE hook[h].dev

AbstractPorts == INSTANCE IoPorts WITH hooked <- [p \in Ports |-> HookedDev(p)]

\* The list implements the partial function from ports to devices.
ImplementsIoPorts == AbstractPorts!Spec

=============================================================================
