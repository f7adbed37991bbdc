------------------------------- MODULE DevMgr -------------------------------
(***************************************************************************)
(* The device manager of palacios/src/palacios/vmm_dev_mgr.c and the hooks *)
(* that devices take in their init and give back in their deinit: I/O      *)
(* ports (vmm_io.c), timers (vmm_time.c), host events (vmm_host_events.c)  *)
(* and the interrupt controller (vmm_intr.c).  v3_config_guest attaches    *)
(* the devices in its order; after that they may be unattached in any      *)
(* order, or all by v3_dev_mgr_deinit.  One step is one call that init or  *)
(* deinit makes.                                                           *)
(***************************************************************************)
EXTENDS IoMap

CONSTANT GenericRanges    \* the port ranges given to the generic device: <<first, last>>

ASSUME GenericRangesAssumption == GenericRanges \in Seq(Nat \X Nat)

VARIABLES
    dev_list,       \* mgr->dev_list, the last attached device first
    dev,            \* the device that is being attached or unattached
    mgr_hooks,      \* mgr->io_hooks, the last hook first: records [port, dev]
    num_io_hooks,   \* dev->num_io_hooks
    timers,         \* time_state.timers: the devices called on every exit
    events,         \* host_event_hooks: the devices called per kind of event
    controller,     \* intr_state.controller
    to_attach,      \* the devices v3_config_guest has still to attach
    calls,          \* the calls left in the init or deinit that is running
    running,        \* what is running: "init", "deinit", "none"
    mgr_deinit      \* v3_dev_mgr_deinit has been called

devVars == <<dev_list, dev, mgr_hooks, num_io_hooks, timers, events, controller,
             to_attach, calls, running, mgr_deinit>>
vars == <<ioVars, devVars>>

Events == {"keyboard", "mouse", "timer"}

\* config_ptr->use_ramdisk decides whether the guest has the emulated drives.
AttachOrder(use_ramdisk) ==
    IF use_ramdisk
    THEN <<"nvram", "pic", "pit", "keyboard", "bochs_debug", "ramdisk", "cdrom", "generic">>
    ELSE <<"nvram", "pic", "pit", "keyboard", "bochs_debug", "generic">>

ASSUME DevsAssumption == ToSet(AttachOrder(TRUE)) \subseteq Devs

-----------------------------------------------------------------------------
(* What the devices' init and deinit call. *)

Io(p) == [op |-> "hook_io", port |-> p]
UnIo(p) == [op |-> "unhook_io", port |-> p]
Timer == [op |-> "add_timer"]
Event(e) == [op |-> "hook_event", event |-> e]
Controller == [op |-> "set_intr_controller"]

\* The ports of the generic device: v3_generic_add_port_range adds each range
\* to the front of its list.
GenericPorts ==
    LET range(r) == [k \in 1..(r[2] - r[1] + 1) |-> r[1] + k - 1]
        ports[i \in 0..Len(GenericRanges)] ==
           IF i = 0 THEN <<>> ELSE range(GenericRanges[i]) \o ports[i - 1]
    IN  ports[Len(GenericRanges)]

\* The ports of the two IDE channels, in the order of ramdisk_init_device.
IdePorts ==
    <<1014, 496, 497, 498, 499, 500, 501, 502, 503,
      886, 368, 369, 370, 371, 372, 373, 374, 375, 887, 1015>>

\* The ports of the other devices.
FixedPorts ==
    {32, 33, 64, 65, 66, 67, 96, 100, 112, 113, 160, 161, 1024, 1025, 1026, 1027}
        \union 368..375 \union 496..503 \union {886, 887, 1014, 1015}

ASSUME DevPortsAssumption == FixedPorts \subseteq Ports /\ GenericPorts \in Seq(Ports \ FixedPorts)

\* pit_init asks for a port of the keyboard controller.
InitSharedPort(d) ==
    CASE d = "pit" -> <<Io(64), Io(65), Io(66), Io(100), Timer>>
      [] d = "keyboard" -> <<Io(100), Io(96), Event("keyboard"), Event("mouse")>>
      [] OTHER -> <<>>

InitCalls(d) ==
    CASE d = "nvram" -> <<Io(112), Io(113), Event("timer")>>
      [] d = "pic" -> <<Controller, Io(32), Io(33), Io(160), Io(161)>>
      [] d = "pit" -> <<Io(64), Io(65), Io(66), Io(67), Timer>>
      [] d = "keyboard" -> <<Io(100), Io(96), Event("keyboard"), Event("mouse")>>
      [] d = "bochs_debug" -> <<Io(1024), Io(1025), Io(1026), Io(1027)>>
      [] d = "ramdisk" -> [i \in 1..Len(IdePorts) |-> Io(IdePorts[i])]
      [] d = "cdrom" -> <<>>
      [] d = "generic" -> [i \in 1..Len(GenericPorts) |-> Io(GenericPorts[i])]

DeinitCalls(d) ==
    CASE d = "nvram" -> <<UnIo(112), UnIo(113)>>
      [] d = "pic" -> <<UnIo(32), UnIo(33), UnIo(160), UnIo(161)>>
      [] d = "pit" -> <<>>
      [] d = "keyboard" -> <<UnIo(96), UnIo(100)>>
      [] d = "bochs_debug" -> <<UnIo(1024), UnIo(1025), UnIo(1026), UnIo(1027)>>
      [] d \in {"ramdisk", "cdrom"} -> <<>>
      [] d = "generic" -> [i \in 1..Len(GenericPorts) |-> UnIo(GenericPorts[i])]

\* The ports a device asks for.
Asked(d) == {c.port : c \in {e \in ToSet(InitCalls(d)) : e.op = "hook_io"}}

-----------------------------------------------------------------------------

DevInit ==
    /\ InitIoMap
    /\ dev_list = <<>>
    /\ dev = NoDev
    /\ mgr_hooks = <<>>
    /\ num_io_hooks = [d \in Devs |-> 0]
    /\ timers = <<>>
    /\ events = [e \in Events |-> <<>>]
    /\ controller = NoDev
    /\ \E use_ramdisk \in BOOLEAN : to_attach = AttachOrder(use_ramdisk)
    /\ calls = <<>>
    /\ running = "none"
    /\ mgr_deinit = FALSE

\* v3_attach_device: the device joins the list, then its init runs.
AttachDevice ==
    /\ running = "none"
    /\ to_attach # <<>>
    /\ dev' = Head(to_attach)
    /\ dev_list' = <<dev'>> \o dev_list
    /\ to_attach' = Tail(to_attach)
    /\ calls' = InitCalls(dev')
    /\ running' = "init"
    /\ UNCHANGED <<ioVars, mgr_hooks, num_io_hooks, timers, events, controller, mgr_deinit>>

Step(op) == calls # <<>> /\ Head(calls).op = op /\ calls' = Tail(calls)

\* v3_dev_hook_io: the manager's and the device's lists follow the port map.
DevHookIo ==
    /\ Step("hook_io")
    /\ LET p == Head(calls).port
       IN  /\ HookIoPort(p, dev)
           /\ IF result' = 0
              THEN /\ mgr_hooks' = <<[port |-> p, dev |-> dev]>> \o mgr_hooks
                   /\ num_io_hooks' = [num_io_hooks EXCEPT ![dev] = @ + 1]
              ELSE UNCHANGED <<mgr_hooks, num_io_hooks>>
    /\ UNCHANGED <<dev_list, dev, timers, events, controller, to_attach, running, mgr_deinit>>

\* dev_mgr_find_io_hook: the first hook of the manager's list with the port.
FindIoHook(p) ==
    LET found == {i \in DOMAIN mgr_hooks : mgr_hooks[i].port = p}
    IN  IF found = {} THEN 0 ELSE Least(found)

\* A v3_dev_unhook_io that leaves the manager's list alone.
DevUnhookIoMapOnly ==
    /\ Step("unhook_io")
    /\ UnhookIoPort(Head(calls).port)
    /\ num_io_hooks' = [num_io_hooks EXCEPT ![dev] = @ - 1]
    /\ UNCHANGED <<mgr_hooks, dev_list, dev, timers, events, controller, to_attach, running, mgr_deinit>>

\* v3_dev_unhook_io: found by port alone, whoever hooked it.
DevUnhookIo ==
    /\ Step("unhook_io")
    /\ LET p == Head(calls).port
           i == FindIoHook(p)
       IN  IF i = 0 THEN UNCHANGED <<ioVars, mgr_hooks, num_io_hooks>>
           ELSE /\ mgr_hooks' = Without(mgr_hooks, mgr_hooks[i])
                /\ num_io_hooks' = [num_io_hooks EXCEPT ![dev] = @ - 1]
                /\ UnhookIoPort(p)
    /\ UNCHANGED <<dev_list, dev, timers, events, controller, to_attach, running, mgr_deinit>>

AddTimer ==
    /\ Step("add_timer")
    /\ timers' = <<dev>> \o timers
    /\ UNCHANGED <<ioVars, dev_list, dev, mgr_hooks, num_io_hooks, events, controller,
                   to_attach, running, mgr_deinit>>

HookHostEvent ==
    /\ Step("hook_event")
    /\ events' = [events EXCEPT ![Head(calls).event] = <<dev>> \o @]
    /\ UNCHANGED <<ioVars, dev_list, dev, mgr_hooks, num_io_hooks, timers, controller,
                   to_attach, running, mgr_deinit>>

SetIntrController ==
    /\ Step("set_intr_controller")
    /\ controller' = dev
    /\ UNCHANGED <<ioVars, dev_list, dev, mgr_hooks, num_io_hooks, timers, events,
                   to_attach, running, mgr_deinit>>

FinishInit ==
    /\ running = "init"
    /\ calls = <<>>
    /\ running' = "none"
    /\ dev' = NoDev
    /\ UNCHANGED <<ioVars, dev_list, mgr_hooks, num_io_hooks, timers, events, controller,
                   to_attach, calls, mgr_deinit>>

\* v3_unattach_device of any device, or of the first one in v3_dev_mgr_deinit.
UnattachDevice(d) ==
    /\ running = "none"
    /\ to_attach = <<>>
    /\ d \in ToSet(dev_list)
    /\ mgr_deinit => d = Head(dev_list)
    /\ dev' = d
    /\ calls' = DeinitCalls(d)
    /\ running' = "deinit"
    /\ UNCHANGED <<ioVars, dev_list, mgr_hooks, num_io_hooks, timers, events, controller,
                   to_attach, mgr_deinit>>

\* dev_mgr_remove_device, and v3_free_device.
FinishDeinit ==
    /\ running = "deinit"
    /\ calls = <<>>
    /\ dev_list' = Without(dev_list, dev)
    /\ dev' = NoDev
    /\ running' = "none"
    /\ UNCHANGED <<ioVars, mgr_hooks, num_io_hooks, timers, events, controller,
                   to_attach, calls, mgr_deinit>>

DevMgrDeinit ==
    /\ running = "none"
    /\ to_attach = <<>>
    /\ ~ mgr_deinit
    /\ mgr_deinit' = TRUE
    /\ UNCHANGED <<ioVars, dev_list, dev, mgr_hooks, num_io_hooks, timers, events, controller,
                   to_attach, calls, running>>

DevNext ==
    \/ AttachDevice \/ DevHookIo \/ DevUnhookIo \/ AddTimer \/ HookHostEvent
    \/ SetIntrController \/ FinishInit
    \/ \E d \in Devs : UnattachDevice(d)
    \/ FinishDeinit \/ DevMgrDeinit

DevSpec == DevInit /\ [][DevNext]_vars

-----------------------------------------------------------------------------
(* Properties *)

\* The lists of the manager hold devices, and counts are counts.
DevTypeOK ==
    /\ ToSet(dev_list) \subseteq Devs
    /\ ToSet(mgr_hooks) \subseteq [port : Ports, dev : Devs]
    /\ num_io_hooks \in [Devs -> 0..Cardinality(Ports)]
    /\ ToSet(timers) \subseteq Devs
    /\ \A e \in Events : ToSet(events[e]) \subseteq Devs
    /\ controller \in Devs \union {NoDev}
    /\ running \in {"init", "deinit", "none"}

\* Three records of who hooked what agree after every call: the port map that
\* dispatches accesses, the manager's list that unhooking searches, and the
\* count in each device.
RecordsAgree ==
    /\ ToSet(mgr_hooks) = {[port |-> hook[h].port, dev |-> hook[h].dev] : h \in ToSet(Chain)}
    /\ Len(mgr_hooks) = num_ports
    /\ \A d \in Devs : num_io_hooks[d] = Cardinality({h \in ToSet(mgr_hooks) : h.dev = d})

PortsOf(d) == {p \in Ports : HookedDev(p) = d}

\* Once the guest is configured, every attached device gets the accesses to all
\* ports it asked for: v3_config_guest ignores what init returns, and init what
\* v3_dev_hook_io returns.
DevicesComplete ==
    to_attach = <<>> /\ running = "none" =>
       \A d \in ToSet(dev_list) : PortsOf(d) = Asked(d)

=============================================================================
