---------------------------- MODULE DevMgrProofs ----------------------------
(***************************************************************************)
(* The device manager for any port ranges of the generic device: the three *)
(* records of the hooks agree after every call, every attached device has  *)
(* the ports it asked for, and the manager uses the port map as the map's  *)
(* abstract specification allows.                                          *)
(***************************************************************************)
EXTENDS DevMgr, IoMapProofs

-----------------------------------------------------------------------------
(* The device manager *)

DevNames == {"nvram", "pic", "pit", "keyboard", "bochs_debug", "ramdisk", "cdrom", "generic"}

Distinct(q) == \A i, j \in 1..Len(q) : q[i] = q[j] => i = j

Call ==
    [op : {"hook_io", "unhook_io"}, port : Ports] \union [op : {"hook_event"}, event : Events]
        \union [op : {"add_timer", "set_intr_controller"}]

\* A device is attached once.
Attached ==
    /\ dev_list \in Seq(DevNames) /\ Distinct(dev_list)
    /\ to_attach \in Seq(DevNames) /\ Distinct(to_attach)
    /\ ToSet(dev_list) \intersect ToSet(to_attach) = {}
    /\ running \in {"init", "deinit", "none"}
    /\ running # "none" => dev \in ToSet(dev_list)

\* What is left to call is for ports of the device; init has hooked the others.
Calling ==
    /\ calls \in Seq(Call)
    /\ running = "none" => calls = <<>>
    /\ \A i \in 1..Len(calls) : calls[i].op \in {"hook_io", "unhook_io"} => calls[i].port \in Asked(dev)
    /\ running = "init" =>
          \A p \in Asked(dev) : HookedDev(p) = dev \/ \E i \in 1..Len(calls) : calls[i] = Io(p)
    /\ running = "init" => \A i \in 1..Len(calls) : calls[i].op # "unhook_io"
    /\ running = "deinit" => \A i \in 1..Len(calls) : calls[i].op = "unhook_io"

\* A port has no hook but the one of the device that asks for it, and has that one
\* while the device is attached.
Owned ==
    /\ \A p \in Ports : HookedDev(p) # NoDev => HookedDev(p) \in DevNames /\ p \in Asked(HookedDev(p))
    /\ \A d \in ToSet(dev_list) : running = "none" \/ d # dev => \A p \in Asked(d) : HookedDev(p) = d

\* The list of the manager and the counts of the devices are those of the port map.
Recorded ==
    /\ mgr_hooks \in Seq([port : Ports, dev : Devs])
    /\ \A i, j \in 1..Len(mgr_hooks) : mgr_hooks[i].port = mgr_hooks[j].port => i = j
    /\ \A p \in Ports, d \in Devs :
          HookedDev(p) = d <=> \E i \in 1..Len(mgr_hooks) : mgr_hooks[i] = [port |-> p, dev |-> d]
    /\ Len(mgr_hooks) = num_ports
    /\ num_io_hooks \in [Devs -> Int]
    /\ \A d \in Devs : num_io_hooks[d] = Cardinality({h \in ToSet(mgr_hooks) : h.dev = d})

Inv == IoInv /\ Attached /\ Calling /\ Owned /\ Recorded

\* The fields of the calls.
LEMMA CallFacts ==
    /\ \A p : Io(p).op = "hook_io" /\ Io(p).port = p /\ UnIo(p).op = "unhook_io" /\ UnIo(p).port = p
    /\ \A p \in Ports : Io(p) \in Call /\ UnIo(p) \in Call
    /\ \A e \in Events : Event(e).op = "hook_event" /\ Event(e).event = e /\ Event(e) \in Call
    /\ Timer.op = "add_timer" /\ Timer \in Call
    /\ Controller.op = "set_intr_controller" /\ Controller \in Call
BY Zenon DEF Io, UnIo, Event, Timer, Controller, Call

\* Calls q that hook the ports P and no others.
InitOk(q, P) ==
    /\ q \in Seq(Call)
    /\ \A i \in 1..Len(q) : q[i].op # "unhook_io" /\ (q[i].op = "hook_io" => q[i].port \in P)
    /\ \A p \in P : \E i \in 1..Len(q) : q[i] = Io(p)

\* Calls q that unhook ports of P.
DeinitOk(q, P) ==
    /\ q \in Seq(Call)
    /\ \A i \in 1..Len(q) : q[i].op = "unhook_io" /\ q[i].port \in P

PortsIn(d) ==
    CASE d = "nvram" -> {112, 113}
      [] d = "pic" -> {32, 33, 160, 161}
      [] d = "pit" -> {64, 65, 66, 67}
      [] d = "keyboard" -> {96, 100}
      [] d = "bochs_debug" -> {1024, 1025, 1026, 1027}
      [] d = "ramdisk" -> ToSet(IdePorts)
      [] d = "cdrom" -> {}
      [] d = "generic" -> ToSet(GenericPorts)

\* The calls of a device that hooks the ports of a list, one by one.
LEMMA ListCalls ==
    ASSUME NEW g \in Seq(Ports)
    PROVE  /\ InitOk([i \in 1..Len(g) |-> Io(g[i])], ToSet(g))
           /\ DeinitOk([i \in 1..Len(g) |-> UnIo(g[i])], ToSet(g))
<1> USE CallFacts
<1> DEFINE q == [i \in 1..Len(g) |-> Io(g[i])]
           r == [i \in 1..Len(g) |-> UnIo(g[i])]
<1>1. Len(g) \in Nat /\ DOMAIN g = 1..Len(g) /\ \A i \in 1..Len(g) : g[i] \in Ports
  OBVIOUS
<1>2. /\ q \in Seq(Call) /\ Len(q) = Len(g) /\ \A i \in 1..Len(g) : q[i] = Io(g[i])
      /\ r \in Seq(Call) /\ Len(r) = Len(g) /\ \A i \in 1..Len(g) : r[i] = UnIo(g[i])
  BY <1>1
<1> HIDE DEF q, r
<1>3. \A i \in 1..Len(g) : g[i] \in ToSet(g)
  BY <1>1, Zenon DEF ToSet
<1>4. \A p \in ToSet(g) : \E i \in 1..Len(g) : g[i] = p
  BY <1>1, Zenon DEF ToSet
<1>5. InitOk(q, ToSet(g))
  BY <1>2, <1>3, <1>4 DEF InitOk
<1>6. DeinitOk(r, ToSet(g))
  BY <1>2, <1>3 DEF DeinitOk
<1> QED BY <1>5, <1>6, Zenon DEF q, r

IdeRange == 368..375 \union 496..503 \union {886, 887, 1014, 1015}

\* The entries of a sequence decide of what it is a sequence.
LEMMA SeqOf ==
    ASSUME NEW T, NEW F, NEW q \in Seq(T), \A i \in 1..Len(q) : q[i] \in F
    PROVE  q \in Seq(F)
OBVIOUS

\* The ports of the IDE channels are ports of the drives alone.
LEMMA IdePortsFacts ==
    /\ IdePorts \in Seq(FixedPorts)
    /\ \A p \in ToSet(IdePorts) : p \in FixedPorts /\ p \in IdeRange
<1>1. \A i \in 1..20 : IdePorts[i] \in IdeRange
  BY DEF IdePorts, IdeRange
<1>2. Len(IdePorts) = 20 /\ DOMAIN IdePorts = 1..Len(IdePorts) /\ IdePorts \in Seq(Nat)
  BY DEF IdePorts
<1>3. \A p \in IdeRange : p \in FixedPorts
  BY DEF FixedPorts, IdeRange
<1>4. \A i \in 1..Len(IdePorts) : IdePorts[i] \in IdeRange /\ IdePorts[i] \in FixedPorts
  BY <1>1, <1>2, <1>3
<1>5. IdePorts \in Seq(FixedPorts)
  BY <1>2, <1>4, SeqOf, Zenon
<1>6. \A p \in ToSet(IdePorts) : p \in FixedPorts /\ p \in IdeRange
  BY <1>2, <1>4, Zenon DEF ToSet
<1> QED BY <1>5, <1>6, Zenon

\* What init and deinit call, device by device.
LEMMA CallsOk ==
    ASSUME NEW d \in DevNames
    PROVE  InitOk(InitCalls(d), PortsIn(d)) /\ DeinitOk(DeinitCalls(d), PortsIn(d))
<1> USE CallFacts
<1>0. FixedPorts \subseteq Ports /\ Events = {"keyboard", "mouse", "timer"}
  BY DevPortsAssumption, Zenon DEF Events
<1>1. CASE d = "nvram"
  <2>1. 112 \in Ports /\ 113 \in Ports /\ PortsIn(d) = {112, 113}
    BY <1>0, <1>1 DEF FixedPorts, PortsIn
  <2>2. InitCalls(d) = <<Io(112), Io(113), Event("timer")>> /\ DeinitCalls(d) = <<UnIo(112), UnIo(113)>>
    BY <1>1 DEF InitCalls, DeinitCalls
  <2> QED BY <2>1, <2>2, <1>0 DEF InitOk, DeinitOk
<1>2. CASE d = "pic"
  <2>1. 32 \in Ports /\ 33 \in Ports /\ 160 \in Ports /\ 161 \in Ports
    BY <1>0 DEF FixedPorts
  <2>2. PortsIn(d) = {32, 33, 160, 161}
    BY <1>2 DEF PortsIn
  <2>3. /\ InitCalls(d) = <<Controller, Io(32), Io(33), Io(160), Io(161)>>
        /\ DeinitCalls(d) = <<UnIo(32), UnIo(33), UnIo(160), UnIo(161)>>
    BY <1>2 DEF InitCalls, DeinitCalls
  <2>4. InitOk(InitCalls(d), PortsIn(d))
    BY <2>1, <2>2, <2>3, <1>0 DEF InitOk
  <2>5. DeinitOk(DeinitCalls(d), PortsIn(d))
    BY <2>1, <2>2, <2>3 DEF DeinitOk
  <2> QED BY <2>4, <2>5, Zenon
<1>3. CASE d = "pit"
  <2>1. 64 \in Ports /\ 65 \in Ports /\ 66 \in Ports /\ 67 \in Ports
    BY <1>0 DEF FixedPorts
  <2>2. PortsIn(d) = {64, 65, 66, 67}
    BY <1>3 DEF PortsIn
  <2>3. /\ InitCalls(d) = <<Io(64), Io(65), Io(66), Io(67), Timer>>
        /\ DeinitCalls(d) = <<>>
    BY <1>3 DEF InitCalls, DeinitCalls
  <2>4. InitOk(InitCalls(d), PortsIn(d))
    BY <2>1, <2>2, <2>3, <1>0 DEF InitOk
  <2>5. DeinitOk(DeinitCalls(d), PortsIn(d))
    BY <2>1, <2>2, <2>3 DEF DeinitOk
  <2> QED BY <2>4, <2>5, Zenon
<1>4. CASE d = "keyboard"
  <2>1. 96 \in Ports /\ 100 \in Ports
    BY <1>0 DEF FixedPorts
  <2>2. PortsIn(d) = {96, 100}
    BY <1>4 DEF PortsIn
  <2>3. /\ InitCalls(d) = <<Io(100), Io(96), Event("keyboard"), Event("mouse")>>
        /\ DeinitCalls(d) = <<UnIo(96), UnIo(100)>>
    BY <1>4 DEF InitCalls, DeinitCalls
  <2>4. InitOk(InitCalls(d), PortsIn(d))
    BY <2>1, <2>2, <2>3, <1>0 DEF InitOk
  <2>5. DeinitOk(DeinitCalls(d), PortsIn(d))
    BY <2>1, <2>2, <2>3 DEF DeinitOk
  <2> QED BY <2>4, <2>5, Zenon
<1>5. CASE d = "bochs_debug"
  <2>1. 1024 \in Ports /\ 1025 \in Ports /\ 1026 \in Ports /\ 1027 \in Ports
    BY <1>0 DEF FixedPorts
  <2>2. PortsIn(d) = {1024, 1025, 1026, 1027}
    BY <1>5 DEF PortsIn
  <2>3. /\ InitCalls(d) = <<Io(1024), Io(1025), Io(1026), Io(1027)>>
        /\ DeinitCalls(d) = <<UnIo(1024), UnIo(1025), UnIo(1026), UnIo(1027)>>
    BY <1>5 DEF InitCalls, DeinitCalls
  <2>4. InitOk(InitCalls(d), PortsIn(d))
    BY <2>1, <2>2, <2>3, <1>0 DEF InitOk
  <2>5. DeinitOk(DeinitCalls(d), PortsIn(d))
    BY <2>1, <2>2, <2>3 DEF DeinitOk
  <2> QED BY <2>4, <2>5, Zenon
<1>6. CASE d = "generic"
  <2>1. GenericPorts \in Seq(Ports)
    <3> DEFINE g == GenericPorts
    <3>1. g \in Seq(Ports \ FixedPorts)
      BY DevPortsAssumption, Zenon
    <3> HIDE DEF g
    <3>2. g \in Seq(Ports)
      BY <3>1
    <3> QED BY <3>2, Zenon DEF g
  <2>2. /\ PortsIn(d) = ToSet(GenericPorts)
        /\ InitCalls(d) = [i \in 1..Len(GenericPorts) |-> Io(GenericPorts[i])]
        /\ DeinitCalls(d) = [i \in 1..Len(GenericPorts) |-> UnIo(GenericPorts[i])]
    BY <1>6 DEF PortsIn, InitCalls, DeinitCalls
  <2> QED BY <2>1, <2>2, ListCalls, Zenon
<1>7. CASE d = "ramdisk"
  <2>1. IdePorts \in Seq(Ports)
    BY <1>0, IdePortsFacts
  <2>2. /\ PortsIn(d) = ToSet(IdePorts)
        /\ InitCalls(d) = [i \in 1..Len(IdePorts) |-> Io(IdePorts[i])]
        /\ DeinitCalls(d) = <<>>
    BY <1>7 DEF PortsIn, InitCalls, DeinitCalls
  <2>3. DeinitOk(<<>>, ToSet(IdePorts))
    BY DEF DeinitOk
  <2> QED BY <2>1, <2>2, <2>3, ListCalls, Zenon
<1>8. CASE d = "cdrom"
  <2>1. PortsIn(d) = {} /\ InitCalls(d) = <<>> /\ DeinitCalls(d) = <<>>
    BY <1>8 DEF PortsIn, InitCalls, DeinitCalls
  <2> QED BY <2>1 DEF InitOk, DeinitOk
<1> QED BY <1>1, <1>2, <1>3, <1>4, <1>5, <1>6, <1>7, <1>8, Zenon DEF DevNames

\* The ports that init asks for.
LEMMA AskedIs ==
    ASSUME NEW d \in DevNames
    PROVE  Asked(d) = PortsIn(d)
<1> DEFINE q == InitCalls(d)
<1>1. InitOk(q, PortsIn(d)) /\ Asked(d) = {c.port : c \in {e \in ToSet(q) : e.op = "hook_io"}}
  BY CallsOk, Zenon DEF Asked
<1> HIDE DEF q
<1>2. DOMAIN q = 1..Len(q)
  BY <1>1 DEF InitOk
<1>3. ASSUME NEW p \in Asked(d) PROVE p \in PortsIn(d)
  <2>1. PICK i \in 1..Len(q) : q[i].op = "hook_io" /\ q[i].port = p
    BY <1>1, <1>2, Zenon DEF ToSet
  <2> QED BY <2>1, <1>1, Zenon DEF InitOk
<1>4. ASSUME NEW p \in PortsIn(d) PROVE p \in Asked(d)
  <2>1. PICK i \in 1..Len(q) : q[i] = Io(p)
    BY <1>1, Zenon DEF InitOk
  <2>2. q[i] \in ToSet(q) /\ q[i].op = "hook_io" /\ q[i].port = p
    BY <2>1, <1>2, CallFacts DEF ToSet
  <2> QED BY <2>2, <1>1, Zenon
<1> QED BY <1>3, <1>4, Zenon

\* The devices ask for ports, and no two for the same.
LEMMA AskedFacts ==
    /\ \A d \in DevNames : Asked(d) \subseteq Ports
    /\ \A d, e \in DevNames : \A p \in Ports : p \in Asked(d) /\ p \in Asked(e) => d = e
<1>1. FixedPorts \subseteq Ports /\ ToSet(GenericPorts) \subseteq Ports \ FixedPorts
  <2> DEFINE g == GenericPorts
  <2>1. FixedPorts \subseteq Ports /\ g \in Seq(Ports \ FixedPorts)
    BY DevPortsAssumption, Zenon
  <2> HIDE DEF g
  <2>2. ToSet(g) \subseteq Ports \ FixedPorts
    BY <2>1 DEF ToSet
  <2> QED BY <2>1, <2>2, Zenon DEF g
<1>2. \A d \in DevNames : d # "generic" => PortsIn(d) \subseteq FixedPorts
  <2>1. \A d \in DevNames \ {"generic", "ramdisk"} : PortsIn(d) \subseteq FixedPorts
    BY DEF DevNames, PortsIn, FixedPorts
  <2>2. PortsIn("ramdisk") = ToSet(IdePorts)
    BY DEF PortsIn
  <2> QED BY <2>1, <2>2, IdePortsFacts, Zenon
<1>3. PortsIn("generic") = ToSet(GenericPorts)
  BY DEF PortsIn
<1>4. \A d, e \in DevNames \ {"generic"} : \A p : p \in PortsIn(d) /\ p \in PortsIn(e) => d = e
  <2> DEFINE D == DevNames \ {"generic", "ramdisk"}
  <2>1. \A d, e \in D : \A p : p \in PortsIn(d) /\ p \in PortsIn(e) => d = e
    BY DEF DevNames, PortsIn
  <2>2. \A d \in D : \A p \in PortsIn(d) : p \notin IdeRange
    BY DEF DevNames, PortsIn, IdeRange
  <2>3. PortsIn("ramdisk") = ToSet(IdePorts)
    BY DEF PortsIn
  <2>4. \A d \in D : \A p \in PortsIn(d) : p \notin PortsIn("ramdisk")
    BY <2>2, <2>3, IdePortsFacts, Zenon
  <2> QED BY <2>1, <2>4, Zenon
<1>5. \A d \in DevNames : Asked(d) \subseteq Ports
  BY <1>1, <1>2, <1>3, AskedIs, Zenon
<1>6. ASSUME NEW d \in DevNames, NEW e \in DevNames, NEW p \in Ports, p \in PortsIn(d), p \in PortsIn(e)
      PROVE  d = e
  BY <1>1, <1>2, <1>3, <1>4, <1>6, Zenon
<1> QED BY <1>5, <1>6, AskedIs

-----------------------------------------------------------------------------
(* Lists *)

\* The entries of a list that is not empty.
LEMMA TailFacts ==
    ASSUME NEW S, NEW q \in Seq(S), q # <<>>
    PROVE  /\ Len(q) \in Nat /\ 1 \in 1..Len(q) /\ Head(q) = q[1] /\ q[1] \in S
           /\ Tail(q) \in Seq(S) /\ Len(Tail(q)) = Len(q) - 1
           /\ \A i \in 1..Len(Tail(q)) : i + 1 \in 1..Len(q) /\ Tail(q)[i] = q[i + 1]
           /\ \A i \in 1..Len(q) : i # 1 => i - 1 \in 1..Len(Tail(q)) /\ Tail(q)[i - 1] = q[i]
<1>1. Len(q) \in Nat /\ Len(q) > 0 /\ Tail(q) \in Seq(S) /\ Len(Tail(q)) = Len(q) - 1 /\ Head(q) = q[1]
  OBVIOUS
<1>2. ASSUME NEW i \in 1..Len(Tail(q)) PROVE i + 1 \in 1..Len(q) /\ Tail(q)[i] = q[i + 1]
  BY <1>1
<1>3. ASSUME NEW i \in 1..Len(q), i # 1 PROVE i - 1 \in 1..Len(Tail(q)) /\ Tail(q)[i - 1] = q[i]
  <2>1. i - 1 \in 1..Len(Tail(q)) /\ (i - 1) + 1 = i
    BY <1>1, <1>3
  <2> QED BY <2>1, <1>2, Zenon
<1>4. 1 \in 1..Len(q) /\ q[1] \in S
  BY <1>1
<1> QED BY <1>1, <1>2, <1>3, <1>4, Zenon

\* The entries of a list and of its concatenation behind one entry.
LEMMA ConsFacts ==
    ASSUME NEW S, NEW q \in Seq(S), NEW x \in S
    PROVE  LET r == <<x>> \o q
           IN  /\ r \in Seq(S) /\ Len(r) = Len(q) + 1 /\ Len(q) \in Nat /\ 1 \in 1..Len(r) /\ r[1] = x
               /\ \A i \in 1..Len(q) : i + 1 \in 1..Len(r) /\ r[i + 1] = q[i]
               /\ \A i \in 1..Len(r) : i # 1 => i - 1 \in 1..Len(q) /\ r[i] = q[i - 1]
               /\ ToSet(r) = ToSet(q) \union {x}
<1> DEFINE r == <<x>> \o q
<1>1. <<x>> \in Seq(S) /\ Len(<<x>>) = 1 /\ <<x>>[1] = x /\ Len(q) \in Nat
  OBVIOUS
<1>2. r \in Seq(S) /\ Len(r) = Len(q) + 1 /\ \A i \in 1..(1 + Len(q)) : r[i] = IF i <= 1 THEN x ELSE q[i - 1]
  <2>1. /\ r \in Seq(S) /\ Len(r) = 1 + Len(q)
        /\ \A i \in 1..(1 + Len(q)) : r[i] = IF i <= 1 THEN <<x>>[i] ELSE q[i - 1]
    BY <1>1, ConcatFacts, Zenon
  <2> HIDE DEF r
  <2> QED BY <2>1, <1>1
<1> HIDE DEF r
<1>3. 1 \in 1..Len(r) /\ r[1] = x
  BY <1>1, <1>2
<1>4. ASSUME NEW i \in 1..Len(q) PROVE i + 1 \in 1..Len(r) /\ r[i + 1] = q[i]
  <2>1. i + 1 \in 1..(1 + Len(q)) /\ ~ (i + 1 <= 1) /\ (i + 1) - 1 = i
    BY <1>1
  <2> QED BY <2>1, <1>1, <1>2
<1>5. ASSUME NEW i \in 1..Len(r), i # 1 PROVE i - 1 \in 1..Len(q) /\ r[i] = q[i - 1]
  BY <1>1, <1>2, <1>5
<1>6. ToSet(r) = ToSet(q) \union {x}
  <2>1. DOMAIN r = 1..Len(r) /\ DOMAIN q = 1..Len(q)
    BY <1>2
  <2>2. \A y \in ToSet(r) : y \in ToSet(q) \union {x}
    BY <2>1, <1>3, <1>5 DEF ToSet
  <2>3. \A y \in ToSet(q) \union {x} : y \in ToSet(r)
    BY <2>1, <1>3, <1>4, Zenon DEF ToSet
  <2> QED BY <2>2, <2>3, Zenon
<1> QED BY <1>1, <1>2, <1>3, <1>4, <1>5, <1>6, Zenon DEF r

\* The end of a list.
LEMMA EndFacts ==
    ASSUME NEW S, NEW q \in Seq(S), NEW k \in 1..Len(q)
    PROVE  LET b == SubSeq(q, k + 1, Len(q))
           IN  b \in Seq(S) /\ Len(b) = Len(q) - k /\ \A i \in 1..(Len(q) - k) : b[i] = q[k + i]
<1>1. Len(q) \in Nat /\ k \in Int /\ 0 <= k /\ k <= Len(q)
  OBVIOUS
<1> QED BY <1>1

\* list_del of the k-th entry of a list without repetitions.
LEMMA WithoutFacts ==
    ASSUME NEW S, NEW q \in Seq(S), Distinct(q), NEW k \in 1..Len(q)
    PROVE  LET r == Without(q, q[k])
           IN  /\ r \in Seq(S) /\ Len(r) = Len(q) - 1
               /\ \A i \in 1..Len(r) : \E j \in 1..Len(q) : j # k /\ r[i] = q[j]
               /\ \A i, j \in 1..Len(r) : r[i] = r[j] => i = j
               /\ ToSet(r) = ToSet(q) \ {q[k]}
<1> DEFINE n == Len(q)
           a == SubSeq(q, 1, k - 1)
           b == SubSeq(q, k + 1, n)
           r == a \o b
<1>1. n \in Nat /\ k \in Int /\ 1 <= k /\ k <= n /\ DOMAIN q = 1..n
  OBVIOUS
<1>2. Without(q, q[k]) = r
  <2> DEFINE c == CHOOSE i \in DOMAIN q : q[i] = q[k]
  <2>1. c \in DOMAIN q /\ q[c] = q[k]
    BY <1>1, Zenon
  <2>2. c = k
    BY <2>1, <1>1, Zenon DEF Distinct
  <2>3. Without(q, q[k]) = SubSeq(q, 1, c - 1) \o SubSeq(q, c + 1, n)
    BY Zenon DEF Without
  <2> HIDE DEF c
  <2> QED BY <2>2, <2>3, Zenon
<1>3. /\ a \in Seq(S) /\ Len(a) = k - 1 /\ \A i \in 1..(k - 1) : a[i] = q[i]
      /\ b \in Seq(S) /\ Len(b) = n - k /\ \A i \in 1..(n - k) : b[i] = q[k + i]
  <2>1. a \in Seq(S) /\ Len(a) = k - 1 /\ \A i \in 1..(k - 1) : a[i] = q[i]
    BY <1>1
  <2>2. b \in Seq(S) /\ Len(b) = n - k /\ \A i \in 1..(n - k) : b[i] = q[k + i]
    BY EndFacts, Zenon
  <2> QED BY <2>1, <2>2, Zenon
<1> HIDE DEF a, b
<1>4. r \in Seq(S) /\ Len(r) = n - 1 /\ \A i \in 1..(n - 1) : r[i] = IF i < k THEN q[i] ELSE q[i + 1]
  <2>1. /\ r \in Seq(S) /\ Len(r) = (k - 1) + (n - k)
        /\ \A i \in 1..((k - 1) + (n - k)) : r[i] = IF i <= k - 1 THEN a[i] ELSE b[i - (k - 1)]
    <3>1. /\ r \in Seq(S) /\ Len(r) = Len(a) + Len(b)
          /\ \A i \in 1..(Len(a) + Len(b)) : r[i] = IF i <= Len(a) THEN a[i] ELSE b[i - Len(a)]
      BY <1>3, ConcatFacts, Zenon
    <3> HIDE DEF r
    <3> QED BY <3>1, <1>3, Zenon
  <2> HIDE DEF r
  <2>2. ASSUME NEW i \in 1..(n - 1) PROVE r[i] = IF i < k THEN q[i] ELSE q[i + 1]
    <3>1. i \in 1..((k - 1) + (n - k)) /\ (i < k <=> i <= k - 1)
      BY <1>1
    <3>2. CASE i < k
      <4>1. i \in 1..(k - 1)
        BY <3>2, <1>1
      <4> QED BY <4>1, <3>1, <3>2, <2>1, <1>3, Zenon
    <3>3. CASE ~ (i < k)
      <4>1. i - (k - 1) \in 1..(n - k) /\ k + (i - (k - 1)) = i + 1
        BY <3>3, <1>1
      <4> QED BY <4>1, <3>1, <3>3, <2>1, <1>3, Zenon
    <3> QED BY <3>2, <3>3, Zenon
  <2> QED BY <2>1, <2>2, <1>1
<1> HIDE DEF r
<1>5. ASSUME NEW i \in 1..(n - 1)
      PROVE  /\ (IF i < k THEN i ELSE i + 1) \in 1..n /\ (IF i < k THEN i ELSE i + 1) # k
             /\ r[i] = q[IF i < k THEN i ELSE i + 1]
  BY <1>1, <1>4
<1>6. \A i \in 1..Len(r) : \E j \in 1..n : j # k /\ r[i] = q[j]
  BY <1>4, <1>5, Zenon
<1>7. ASSUME NEW i \in 1..(n - 1), NEW j \in 1..(n - 1), r[i] = r[j] PROVE i = j
  <2>1. (IF i < k THEN i ELSE i + 1) = (IF j < k THEN j ELSE j + 1)
    BY <1>5, <1>7, Zenon DEF Distinct
  <2> QED BY <2>1, <1>1
<1>8. ASSUME NEW j \in 1..n, j # k PROVE \E i \in 1..(n - 1) : r[i] = q[j]
  <2> DEFINE i == IF j < k THEN j ELSE j - 1
  <2>1. i \in 1..(n - 1) /\ (i < k => i = j) /\ (~ (i < k) => i + 1 = j)
    BY <1>1, <1>8
  <2> HIDE DEF i
  <2> QED BY <2>1, <1>4, Zenon
<1>9. ToSet(r) = ToSet(q) \ {q[k]}
  <2>1. DOMAIN r = 1..(n - 1) /\ DOMAIN q = 1..n
    BY <1>1, <1>4
  <2>2. \A y \in ToSet(r) : y \in ToSet(q) \ {q[k]}
    BY <2>1, <1>1, <1>4, <1>6, SMTT(30) DEF ToSet, Distinct
  <2>3. \A y \in ToSet(q) \ {q[k]} : y \in ToSet(r)
    BY <2>1, <1>8, Zenon DEF ToSet
  <2> QED BY <2>2, <2>3, Zenon
<1> QED BY <1>1, <1>2, <1>4, <1>6, <1>7, <1>9, Zenon

-----------------------------------------------------------------------------
(* The records *)

Record == [port : Ports, dev : Devs]

\* The entries of a list are finitely many.
LEMMA EntriesFinite ==
    ASSUME NEW S, NEW q \in Seq(S)
    PROVE  IsFiniteSet(ToSet(q)) /\ \A e : IsFiniteSet({h \in ToSet(q) : h.dev = e})
<1>1. Len(q) \in Nat /\ DOMAIN q = 1..Len(q)
  OBVIOUS
<1>2. IsFiniteSet(1..Len(q))
  BY <1>1, FS_Interval
<1>3. q \in Surjection(1..Len(q), ToSet(q))
  BY <1>1 DEF Surjection, ToSet
<1>4. IsFiniteSet(ToSet(q))
  BY <1>2, <1>3, FS_Surjection, Zenon
<1>5. ASSUME NEW e PROVE IsFiniteSet({h \in ToSet(q) : h.dev = e})
  <2>1. {h \in ToSet(q) : h.dev = e} \in SUBSET ToSet(q)
    BY Zenon
  <2> QED BY <2>1, <1>4, FS_Subset, Zenon
<1> QED BY <1>4, <1>5, Zenon

\* The records after a step that leaves the list new.
LEMMA RecordedNext ==
    ASSUME NEW new \in Seq(Record), mgr_hooks' = new, Len(new) = num_ports', num_io_hooks' \in [Devs -> Int],
           \A i, j \in 1..Len(new) : new[i].port = new[j].port => i = j,
           \A q \in Ports, e \in Devs :
              HookedDev(q)' = e <=> \E i \in 1..Len(new) : new[i] = [port |-> q, dev |-> e],
           \A e \in Devs : num_io_hooks'[e] = Cardinality({h \in ToSet(new) : h.dev = e})
    PROVE  Recorded'
BY DEF Recorded, Record

\* The records after a hook is added.
LEMMA RecordAdded ==
    ASSUME Recorded, NEW p \in Ports, NEW d \in Devs, HookedDev(p) = NoDev,
           NEW r \in Record, r.port = p, r.dev = d,
           mgr_hooks' = <<r>> \o mgr_hooks,
           num_io_hooks' = [num_io_hooks EXCEPT ![d] = @ + 1], num_ports' = num_ports + 1,
           \A q \in Ports : HookedDev(q)' = IF q = p THEN d ELSE HookedDev(q)
    PROVE  Recorded'
<1> DEFINE m == mgr_hooks
           n == Len(m)
           new == <<r>> \o m
<1>1. /\ m \in Seq(Record) /\ num_io_hooks \in [Devs -> Int] /\ n = num_ports
      /\ \A i, j \in 1..n : m[i].port = m[j].port => i = j
      /\ \A q \in Ports, e \in Devs : HookedDev(q) = e <=> \E i \in 1..n : m[i] = [port |-> q, dev |-> e]
      /\ \A e \in Devs : num_io_hooks[e] = Cardinality({h \in ToSet(m) : h.dev = e})
  BY Zenon DEF Recorded, Record
<1>2. /\ new \in Seq(Record) /\ Len(new) = n + 1 /\ n \in Nat /\ 1 \in 1..Len(new) /\ new[1] = r
      /\ \A i \in 1..n : i + 1 \in 1..Len(new) /\ new[i + 1] = m[i]
      /\ \A i \in 1..Len(new) : i # 1 => i - 1 \in 1..n /\ new[i] = m[i - 1]
      /\ ToSet(new) = ToSet(m) \union {r}
  BY <1>1, ConsFacts
<1>a. r = [port |-> p, dev |-> d]
  BY Zenon DEF Record
<1> HIDE DEF new, m
<1>3. \A i \in 1..n : m[i].port # p /\ m[i] \in Record /\ m[i] = [port |-> m[i].port, dev |-> m[i].dev]
      /\ m[i].port \in Ports /\ m[i].dev \in Devs
  <2> SUFFICES ASSUME NEW i \in 1..n PROVE m[i].port # p /\ m[i] \in Record /\ m[i] = [port |-> m[i].port, dev |-> m[i].dev]
                                           /\ m[i].port \in Ports /\ m[i].dev \in Devs
    BY Zenon
  <2>1. m[i] \in Record
    BY <1>1
  <2>2. m[i] = [port |-> m[i].port, dev |-> m[i].dev] /\ m[i].port \in Ports /\ m[i].dev \in Devs
    BY <2>1, Zenon DEF Record
  <2>3. HookedDev(m[i].port) = m[i].dev
    BY <2>2, <1>1, Zenon
  <2>4. m[i].dev # NoDev
    BY <2>2, NoDevAssumption, Zenon
  <2> QED BY <2>1, <2>2, <2>3, <2>4, Zenon
<1>b. new[1].port = p /\ \A i \in 1..Len(new) : i # 1 => new[i].port # p
  <2>1. new[1].port = p
    BY <1>2, Zenon
  <2>2. ASSUME NEW i \in 1..Len(new), i # 1 PROVE new[i].port # p
    <3>1. i - 1 \in 1..n /\ new[i] = m[i - 1]
      BY <1>2, <2>2, Zenon
    <3>2. m[i - 1].port # p
      BY <3>1, <1>3, Zenon
    <3> QED BY <3>1, <3>2, Zenon
  <2> QED BY <2>1, <2>2, Zenon
<1>4. ASSUME NEW i \in 1..Len(new), NEW j \in 1..Len(new), new[i].port = new[j].port PROVE i = j
  <2>1. i = 1 <=> j = 1
    BY <1>b, <1>4, Zenon
  <2>4. CASE i # 1 /\ j # 1
    <3>1. i - 1 \in 1..n /\ j - 1 \in 1..n /\ m[i - 1].port = m[j - 1].port
      BY <2>4, <1>2, <1>4, Zenon
    <3>2. i - 1 = j - 1
      BY <3>1, <1>1, Zenon
    <3> QED BY <3>2, <1>2
  <2> QED BY <2>1, <2>4, Zenon
<1>5. ASSUME NEW q \in Ports, NEW e \in Devs
      PROVE  HookedDev(q)' = e <=> \E i \in 1..Len(new) : new[i] = [port |-> q, dev |-> e]
  <2>1. CASE q = p
    <3>1. HookedDev(q)' = d
      BY <2>1, Zenon
    <3>2. ASSUME NEW i \in 1..Len(new), new[i] = [port |-> q, dev |-> e] PROVE e = d
      <4>1. new[i].port = p
        BY <3>2, <2>1
      <4>2. i = 1
        BY <4>1, <1>b, Zenon
      <4> QED BY <4>2, <3>2, <1>2
    <3>3. e = d => new[1] = [port |-> q, dev |-> e]
      BY <2>1, <1>2, <1>a, Zenon
    <3> QED BY <3>1, <3>2, <3>3, <1>2, Zenon
  <2>2. CASE q # p
    <3>1. HookedDev(q)' = HookedDev(q)
      BY <2>2, Zenon
    <3>2. ASSUME NEW i \in 1..n, m[i] = [port |-> q, dev |-> e] PROVE \E j \in 1..Len(new) : new[j] = [port |-> q, dev |-> e]
      <4>1. i + 1 \in 1..Len(new) /\ i + 1 # 1 /\ (i + 1) - 1 = i
        BY <1>2
      <4>2. new[i + 1] = [port |-> q, dev |-> e]
        BY <4>1, <3>2, <1>2
      <4> QED BY <4>1, <4>2, Zenon
    <3>3. ASSUME NEW j \in 1..Len(new), new[j] = [port |-> q, dev |-> e] PROVE \E i \in 1..n : m[i] = [port |-> q, dev |-> e]
      <4>1. j # 1
        BY <3>3, <2>2, <1>2, <1>a
      <4> QED BY <4>1, <3>3, <1>2, SMTT(30)
    <3> QED BY <3>1, <3>2, <3>3, <1>1, Zenon
  <2> QED BY <2>1, <2>2, Zenon
<1>6. ASSUME NEW e \in Devs PROVE num_io_hooks'[e] = Cardinality({h \in ToSet(new) : h.dev = e})
  <2> DEFINE S == {h \in ToSet(m) : h.dev = e}
  <2>1. IsFiniteSet(S) /\ num_io_hooks[e] = Cardinality(S)
    <3>1. IsFiniteSet(S)
      <4>1. m \in Seq(Record)
        BY <1>1, Zenon
      <4> QED BY <4>1, EntriesFinite, Zenon
    <3>2. num_io_hooks[e] = Cardinality(S)
      BY <1>1, Zenon
    <3> QED BY <3>1, <3>2, Zenon
  <2>2. r \notin S
    <3>1. \A h \in ToSet(m) : h.port # p
      <4>1. DOMAIN m = 1..n
        BY <1>1
      <4> QED BY <4>1, <1>3, Zenon DEF ToSet
    <3> QED BY <3>1, Zenon
  <2>3. CASE e = d
    <3>1. {h \in ToSet(new) : h.dev = e} = S \union {r}
      BY <2>3, <1>2, Zenon
    <3> HIDE DEF S
    <3>2. Cardinality(S \union {r}) = Cardinality(S) + 1
      BY <2>1, <2>2, FS_AddElement, Zenon
    <3> QED BY <3>1, <3>2, <2>1, <2>3, <1>1, Zenon
  <2>4. CASE e # d
    <3>1. {h \in ToSet(new) : h.dev = e} = S
      BY <2>4, <1>2, Zenon
    <3> QED BY <3>1, <2>1, <2>4, <1>1, Zenon
  <2> QED BY <2>3, <2>4, Zenon
<1>7. num_io_hooks' \in [Devs -> Int]
  BY <1>1
<1>8. mgr_hooks' = new /\ Len(new) = num_ports'
  BY <1>1, <1>2, Zenon DEF new, m
<1> QED BY <1>2, <1>4, <1>5, <1>6, <1>7, <1>8, RecordedNext, Zenon

\* list_del of a record.
LEMMA RecordDeleted ==
    ASSUME NEW q \in Seq(Record), Distinct(q), NEW k \in 1..Len(q), NEW r, r = q[k]
    PROVE  /\ Without(q, r) \in Seq(Record) /\ Len(Without(q, r)) = Len(q) - 1
           /\ \A i \in 1..Len(Without(q, r)) : \E j \in 1..Len(q) : j # k /\ Without(q, r)[i] = q[j]
           /\ \A i, j \in 1..Len(Without(q, r)) : Without(q, r)[i] = Without(q, r)[j] => i = j
           /\ ToSet(Without(q, r)) = ToSet(q) \ {r}
<1>1. Without(q, q[k]) \in Seq(Record) /\ Len(Without(q, q[k])) = Len(q) - 1
  BY WithoutFacts, Zenon
<1>2. \A i \in 1..Len(Without(q, q[k])) : \E j \in 1..Len(q) : j # k /\ Without(q, q[k])[i] = q[j]
  BY WithoutFacts
<1>3. \A i, j \in 1..Len(Without(q, q[k])) : Without(q, q[k])[i] = Without(q, q[k])[j] => i = j
  BY WithoutFacts
<1>4. ToSet(Without(q, q[k])) = ToSet(q) \ {q[k]}
  BY WithoutFacts
<1> QED BY <1>1, <1>2, <1>3, <1>4, Zenon

\* The records after a hook is removed.
LEMMA RecordRemoved ==
    ASSUME Recorded, NEW p \in Ports, NEW d \in Devs, NEW k \in 1..Len(mgr_hooks),
           NEW r, r = mgr_hooks[k], r.port = p, r.dev = d,
           mgr_hooks' = Without(mgr_hooks, r),
           num_io_hooks' = [num_io_hooks EXCEPT ![d] = @ - 1], num_ports' = num_ports - 1,
           \A q \in Ports : HookedDev(q)' = IF q = p THEN NoDev ELSE HookedDev(q)
    PROVE  Recorded'
<1> DEFINE m == mgr_hooks
           n == Len(m)
           new == Without(m, r)
<1>1. /\ m \in Seq(Record) /\ num_io_hooks \in [Devs -> Int] /\ n = num_ports
      /\ \A i, j \in 1..n : m[i].port = m[j].port => i = j
      /\ \A q \in Ports, e \in Devs : HookedDev(q) = e <=> \E i \in 1..n : m[i] = [port |-> q, dev |-> e]
      /\ \A e \in Devs : num_io_hooks[e] = Cardinality({h \in ToSet(m) : h.dev = e})
  BY Zenon DEF Recorded, Record
<1>a. k \in 1..n /\ r = m[k] /\ Distinct(m)
  BY <1>1, Zenon DEF Distinct
<1>2. /\ new \in Seq(Record) /\ Len(new) = n - 1
      /\ \A i \in 1..Len(new) : \E j \in 1..n : j # k /\ new[i] = m[j]
      /\ \A i, j \in 1..Len(new) : new[i] = new[j] => i = j
      /\ ToSet(new) = ToSet(m) \ {r}
  <2>1. m \in Seq(Record)
    BY <1>1, Zenon
  <2> HIDE DEF m
  <2> QED BY <2>1, <1>a, RecordDeleted
<1> HIDE DEF new, m
<1>b. DOMAIN m = 1..n /\ DOMAIN new = 1..Len(new)
  BY <1>1, <1>2
<1>3. \A i \in 1..Len(new) : new[i].port # p
  <2> SUFFICES ASSUME NEW i \in 1..Len(new) PROVE new[i].port # p
    BY Zenon
  <2>1. PICK j \in 1..n : j # k /\ new[i] = m[j]
    BY <1>2, Zenon
  <2>2. m[j].port # m[k].port
    BY <2>1, <1>1, <1>a, Zenon
  <2> QED BY <2>1, <2>2, <1>a, Zenon
<1>4. ASSUME NEW i \in 1..Len(new), NEW j \in 1..Len(new), new[i].port = new[j].port PROVE i = j
  <2>1. PICK a \in 1..n : new[i] = m[a]
    BY <1>2, Zenon
  <2>2. PICK b \in 1..n : new[j] = m[b]
    BY <1>2, Zenon
  <2>3. a = b
    BY <2>1, <2>2, <1>1, <1>4, Zenon
  <2>4. new[i] = new[j]
    BY <2>1, <2>2, <2>3, Zenon
  <2> QED BY <2>4, <1>2, Zenon
<1>5. ASSUME NEW q \in Ports, NEW e \in Devs
      PROVE  HookedDev(q)' = e <=> \E i \in 1..Len(new) : new[i] = [port |-> q, dev |-> e]
  <2>1. CASE q = p
    <3>1. HookedDev(q)' = NoDev
      BY <2>1, Zenon
    <3>2. e # NoDev
      BY NoDevAssumption, Zenon
    <3>3. ASSUME NEW i \in 1..Len(new), new[i] = [port |-> q, dev |-> e] PROVE FALSE
      <4>1. new[i].port = p
        BY <3>3, <2>1
      <4> QED BY <4>1, <1>3, Zenon
    <3> QED BY <3>1, <3>2, <3>3, Zenon
  <2>2. CASE q # p
    <3> DEFINE x == [port |-> q, dev |-> e]
    <3>1. HookedDev(q)' = HookedDev(q)
      BY <2>2, Zenon
    <3>2. x # r
      <4>1. x.port = q
        BY Zenon
      <4> QED BY <4>1, <2>2, Zenon
    <3>3. (\E i \in 1..n : m[i] = x) <=> x \in ToSet(m)
      BY <1>b, Zenon DEF ToSet
    <3>4. (\E i \in 1..Len(new) : new[i] = x) <=> x \in ToSet(new)
      BY <1>b, Zenon DEF ToSet
    <3>5. HookedDev(q) = e <=> \E i \in 1..n : m[i] = x
      BY <1>1, Zenon
    <3> HIDE DEF x
    <3>6. x \in ToSet(new) <=> x \in ToSet(m)
      BY <3>2, <1>2, Zenon
    <3> QED BY <3>1, <3>3, <3>4, <3>5, <3>6, Zenon DEF x
  <2> QED BY <2>1, <2>2, Zenon
<1>6. ASSUME NEW e \in Devs PROVE num_io_hooks'[e] = Cardinality({h \in ToSet(new) : h.dev = e})
  <2> DEFINE S == {h \in ToSet(m) : h.dev = e}
  <2>1. IsFiniteSet(S)
    <3>1. m \in Seq(Record)
      BY <1>1, Zenon
    <3> QED BY <3>1, EntriesFinite, Zenon
  <2>2. num_io_hooks[e] = Cardinality(S)
    BY <1>1, Zenon
  <2>3. r \in ToSet(m)
    BY <1>a, <1>b, Zenon DEF ToSet
  <2>4. CASE e = d
    <3>1. {h \in ToSet(new) : h.dev = e} = S \ {r} /\ r \in S
      BY <2>3, <2>4, <1>2, Zenon
    <3> HIDE DEF S
    <3>2. Cardinality(S \ {r}) = Cardinality(S) - 1
      BY <3>1, <2>1, FS_RemoveElement, Zenon
    <3> QED BY <3>1, <3>2, <2>2, <2>4, <1>1, Zenon
  <2>5. CASE e # d
    <3>1. {h \in ToSet(new) : h.dev = e} = S
      BY <2>5, <1>2, Zenon
    <3> QED BY <3>1, <2>2, <2>5, <1>1, Zenon
  <2> QED BY <2>4, <2>5, Zenon
<1>7. num_io_hooks' \in [Devs -> Int]
  BY <1>1
<1>8. mgr_hooks' = new /\ Len(new) = num_ports'
  BY <1>1, <1>2, Zenon DEF new, m
<1> QED BY <1>2, <1>4, <1>5, <1>6, <1>7, <1>8, RecordedNext, Zenon

-----------------------------------------------------------------------------
(* The steps of the manager *)

\* Steps that leave the records alone.
LEMMA RecordedSame ==
    ASSUME Recorded, mgr_hooks' = mgr_hooks, num_io_hooks' = num_io_hooks, num_ports' = num_ports,
           \A q \in Ports : HookedDev(q)' = HookedDev(q)
    PROVE  Recorded'
<1> DEFINE m == mgr_hooks
<1>1. /\ m \in Seq(Record) /\ num_io_hooks \in [Devs -> Int] /\ Len(m) = num_ports
      /\ \A i, j \in 1..Len(m) : m[i].port = m[j].port => i = j
      /\ \A q \in Ports, e \in Devs : HookedDev(q) = e <=> \E i \in 1..Len(m) : m[i] = [port |-> q, dev |-> e]
      /\ \A e \in Devs : num_io_hooks[e] = Cardinality({h \in ToSet(m) : h.dev = e})
  BY Zenon DEF Recorded, Record
<1>2. \A q \in Ports, e \in Devs : HookedDev(q)' = e <=> \E i \in 1..Len(m) : m[i] = [port |-> q, dev |-> e]
  BY <1>1
<1>3. m = mgr_hooks'
  BY Zenon
<1> HIDE DEF m
<1> QED BY <1>1, <1>2, <1>3, RecordedNext

\* The devices of the list are devices, and theirs are ports.
LEMMA AttachedFacts ==
    ASSUME Attached
    PROVE  /\ ToSet(dev_list) \subseteq DevNames /\ ToSet(to_attach) \subseteq DevNames
           /\ DevNames \subseteq Devs /\ \A d \in DevNames : Asked(d) \subseteq Ports
<1>1. ToSet(dev_list) \subseteq DevNames /\ ToSet(to_attach) \subseteq DevNames
  BY DEF Attached, ToSet
<1>2. ToSet(AttachOrder(TRUE)) = DevNames
  BY DEF ToSet, AttachOrder, DevNames
<1> QED BY <1>1, <1>2, AskedFacts, DevsAssumption, Zenon

\* What a call that is made is about.
LEMMA StepFacts ==
    ASSUME Attached, Calling, NEW op, Step(op)
    PROVE  /\ running \in {"init", "deinit"} /\ dev \in ToSet(dev_list) /\ dev \in DevNames /\ dev \in Devs
           /\ op \in {"hook_io", "unhook_io"} => Head(calls).port \in Asked(dev) /\ Head(calls).port \in Ports
           /\ op = "unhook_io" => running = "deinit"
           /\ op # "unhook_io" => running = "init"
<1>1. calls # <<>> /\ Head(calls).op = op
  BY Zenon DEF Step
<1>2. running \in {"init", "deinit"}
  BY <1>1, Zenon DEF Attached, Calling
<1>3. dev \in ToSet(dev_list)
  BY <1>2, Zenon DEF Attached
<1>4. dev \in DevNames /\ dev \in Devs /\ Asked(dev) \subseteq Ports
  BY <1>3, AttachedFacts, Zenon
<1>5. 1 \in 1..Len(calls) /\ Head(calls) = calls[1]
  BY <1>1, TailFacts, Zenon DEF Calling
<1>6. op \in {"hook_io", "unhook_io"} => Head(calls).port \in Asked(dev)
  BY <1>1, <1>5, Zenon DEF Calling
<1>7. (op = "unhook_io" => running # "init") /\ (op # "unhook_io" => running # "deinit")
  BY <1>1, <1>5, Zenon DEF Calling
<1> QED BY <1>2, <1>3, <1>4, <1>6, <1>7, Zenon

\* The calls left after a call, if it does not undo a hook of the init that is running.
LEMMA CallingNext ==
    ASSUME Attached, Calling, NEW op, Step(op), dev' = dev, running' = running,
           running = "init" => \A p \in Asked(dev) : HookedDev(p) = dev \/ Head(calls) = Io(p) => HookedDev(p)' = dev
    PROVE  Calling'
<1>1. calls # <<>> /\ calls \in Seq(Call) /\ calls' = Tail(calls)
  BY Zenon DEF Step, Calling
<1>2. running \in {"init", "deinit"}
  BY StepFacts, Zenon
<1>3. /\ Head(calls) = calls[1] /\ calls' \in Seq(Call)
      /\ \A i \in 1..Len(calls') : i + 1 \in 1..Len(calls) /\ calls'[i] = calls[i + 1]
      /\ \A i \in 1..Len(calls) : i # 1 => i - 1 \in 1..Len(calls') /\ calls'[i - 1] = calls[i]
  BY <1>1, TailFacts, Zenon
<1>4. ASSUME NEW i \in 1..Len(calls'), calls'[i].op \in {"hook_io", "unhook_io"} PROVE calls'[i].port \in Asked(dev)
  BY <1>3, <1>4, Zenon DEF Calling
<1>5. ASSUME running = "init", NEW p \in Asked(dev)
      PROVE  HookedDev(p)' = dev \/ \E i \in 1..Len(calls') : calls'[i] = Io(p)
  <2>1. CASE HookedDev(p) = dev \/ Head(calls) = Io(p)
    BY <2>1, <1>5, Zenon
  <2>2. CASE ~ (HookedDev(p) = dev \/ Head(calls) = Io(p))
    <3>1. PICK i \in 1..Len(calls) : calls[i] = Io(p)
      BY <2>2, <1>5, Zenon DEF Calling
    <3>2. i # 1
      BY <3>1, <2>2, <1>3, Zenon
    <3> QED BY <3>1, <3>2, <1>3, Zenon
  <2> QED BY <2>1, <2>2, Zenon
<1>6. running = "init" => \A i \in 1..Len(calls') : calls'[i].op # "unhook_io"
  BY <1>3, Zenon DEF Calling
<1>7. running = "deinit" => \A i \in 1..Len(calls') : calls'[i].op = "unhook_io"
  BY <1>3 DEF Calling
<1> QED BY <1>2, <1>3, <1>4, <1>5, <1>6, <1>7, Zenon DEF Calling

\* Steps that leave the hooks, the devices and the call that is running alone.
LEMMA OwnedSame ==
    ASSUME Attached, Owned, dev_list' = dev_list, dev' = dev, running' = running,
           \A q \in Ports : HookedDev(q)' = HookedDev(q)
    PROVE  Owned'
<1>1. \A q \in Ports : HookedDev(q)' # NoDev => HookedDev(q)' \in DevNames /\ q \in Asked(HookedDev(q)')
  BY Zenon DEF Owned
<1>2. ASSUME NEW d \in ToSet(dev_list), running = "none" \/ d # dev, NEW q \in Asked(d) PROVE HookedDev(q)' = d
  <2>1. HookedDev(q) = d
    BY <1>2, Zenon DEF Owned
  <2>2. q \in Ports
    BY AttachedFacts, Zenon
  <2> QED BY <2>1, <2>2, Zenon
<1> QED BY <1>1, <1>2, Zenon DEF Owned

\* v3_dev_hook_io.
LEMMA DevHookIoKeeps ==
    ASSUME Inv, DevHookIo
    PROVE  Inv'
<1> DEFINE p == Head(calls).port
<1>i. IoInv /\ Attached /\ Calling /\ Owned /\ Recorded
  BY Zenon DEF Inv
<1>1. Step("hook_io") /\ HookIoPort(p, dev) /\ UNCHANGED <<dev_list, dev, to_attach, running>>
  BY Zenon DEF DevHookIo
<1>2. IF result' = 0
      THEN /\ mgr_hooks' = <<[port |-> p, dev |-> dev]>> \o mgr_hooks
           /\ num_io_hooks' = [num_io_hooks EXCEPT ![dev] = @ + 1]
      ELSE mgr_hooks' = mgr_hooks /\ num_io_hooks' = num_io_hooks
  BY Zenon DEF DevHookIo
<1>3. running = "init" /\ dev \in ToSet(dev_list) /\ dev \in DevNames /\ dev \in Devs /\ p \in Asked(dev) /\ p \in Ports
  BY <1>i, <1>1, StepFacts
<1>4. Head(calls).op = "hook_io" /\ \A q : Head(calls) = Io(q) => q = p
  BY <1>1, CallFacts, Zenon DEF Step
<1> HIDE DEF p
<1>5. IoInv' /\ HookDone(p, dev)
  BY <1>i, <1>1, <1>3, HookStep, Zenon
<1>6. Attached'
  BY <1>i, <1>1, Zenon DEF Attached
<1>7. \A d \in DevNames : Asked(d) \subseteq Ports
  BY AskedFacts, Zenon
<1>8. CASE /\ HookedDev(p) = NoDev /\ result' = 0 /\ num_ports' = num_ports + 1
           /\ \A q \in Ports : HookedDev(q)' = IF q = p THEN dev ELSE HookedDev(q)
  <2>1. Recorded'
    <3> DEFINE r == [port |-> p, dev |-> dev]
    <3>1. r \in Record /\ r.port = p /\ r.dev = dev
      BY <1>3, Zenon DEF Record
    <3>2. mgr_hooks' = <<r>> \o mgr_hooks /\ num_io_hooks' = [num_io_hooks EXCEPT ![dev] = @ + 1]
      BY <1>2, <1>8, Zenon
    <3> HIDE DEF r
    <3> QED BY <3>1, <3>2, <1>3, <1>8, <1>i, RecordAdded, Zenon
  <2>2. \A q \in Ports : HookedDev(q) # NoDev => q # p /\ HookedDev(q)' = HookedDev(q)
    BY <1>8, Zenon
  <2>3. dev # NoDev
    BY <1>3, NoDevAssumption, Zenon
  <2>4. Calling'
    <3>1. \A q \in Asked(dev) : HookedDev(q) = dev \/ Head(calls) = Io(q) => HookedDev(q)' = dev
      BY <2>2, <2>3, <1>3, <1>4, <1>7, <1>8, Zenon
    <3> QED BY <3>1, <1>1, <1>i, CallingNext, Zenon
  <2>5. Owned'
    <3>1. \A q \in Ports : HookedDev(q)' # NoDev => HookedDev(q)' \in DevNames /\ q \in Asked(HookedDev(q)')
      BY <1>3, <1>8, <1>i DEF Owned
    <3>2. ASSUME NEW d \in ToSet(dev_list), d # dev, NEW q \in Asked(d) PROVE HookedDev(q)' = d
      <4>1. HookedDev(q) = d
        BY <3>2, <1>i, Zenon DEF Owned
      <4>2. d # NoDev /\ q \in Ports
        BY <1>i, <1>7, AttachedFacts, NoDevAssumption, Zenon
      <4> QED BY <4>1, <4>2, <2>2, Zenon
    <3> QED BY <3>1, <3>2, <1>1, <1>3, Zenon DEF Owned
  <2> QED BY <2>1, <2>4, <2>5, <1>5, <1>6, Zenon DEF Inv
<1>9. CASE /\ HookedDev(p) # NoDev /\ result' = -1 /\ num_ports' = num_ports
           /\ \A q \in Ports : HookedDev(q)' = HookedDev(q)
  <2>1. Recorded'
    <3>1. result' # 0
      BY <1>9
    <3> QED BY <3>1, <1>2, <1>9, <1>i, RecordedSame, Zenon
  <2>2. HookedDev(p) = dev
    <3>1. HookedDev(p) \in DevNames /\ p \in Asked(HookedDev(p))
      BY <1>3, <1>9, <1>i, Zenon DEF Owned
    <3> QED BY <3>1, <1>3, AskedFacts, Zenon
  <2>3. Calling'
    <3>1. \A q \in Asked(dev) : HookedDev(q) = dev \/ Head(calls) = Io(q) => HookedDev(q)' = dev
      BY <2>2, <1>3, <1>4, <1>7, <1>9, Zenon
    <3> QED BY <3>1, <1>1, <1>i, CallingNext, Zenon
  <2>4. Owned'
    BY <1>1, <1>9, <1>i, OwnedSame, Zenon
  <2> QED BY <2>1, <2>3, <2>4, <1>5, <1>6, Zenon DEF Inv
<1> QED BY <1>5, <1>8, <1>9, Zenon DEF HookDone

\* The search of dev_mgr_find_io_hook.
LEMMA FindIoHookFacts ==
    ASSUME Recorded, NEW p
    PROVE  /\ FindIoHook(p) = 0 => \A i \in 1..Len(mgr_hooks) : mgr_hooks[i].port # p
           /\ FindIoHook(p) # 0 => FindIoHook(p) \in 1..Len(mgr_hooks) /\ mgr_hooks[FindIoHook(p)].port = p
<1> DEFINE found == {i \in DOMAIN mgr_hooks : mgr_hooks[i].port = p}
<1>1. Len(mgr_hooks) \in Nat /\ DOMAIN mgr_hooks = 1..Len(mgr_hooks)
  <2>1. mgr_hooks \in Seq(Record)
    BY Zenon DEF Recorded, Record
  <2> QED BY <2>1
<1>2. FindIoHook(p) = IF found = {} THEN 0 ELSE Least(found)
  BY Zenon DEF FindIoHook
<1>3. found # {} => Least(found) \in found
  <2>1. found \subseteq Nat
    BY <1>1
  <2> HIDE DEF found
  <2> QED BY <2>1, LeastFacts, Zenon
<1>4. CASE found = {}
  BY <1>1, <1>2, <1>4, Zenon
<1>5. CASE found # {}
  <2>1. Least(found) \in 1..Len(mgr_hooks) /\ mgr_hooks[Least(found)].port = p
    BY <1>1, <1>3, <1>5, Zenon
  <2>2. Least(found) # 0
    BY <2>1, <1>1
  <2> HIDE DEF found
  <2> QED BY <2>1, <2>2, <1>2, <1>5, Zenon
<1> QED BY <1>4, <1>5, Zenon

\* v3_dev_unhook_io.
LEMMA DevUnhookIoKeeps ==
    ASSUME Inv, DevUnhookIo
    PROVE  Inv'
<1> DEFINE p == Head(calls).port
           i == FindIoHook(p)
<1>i. IoInv /\ Attached /\ Calling /\ Owned /\ Recorded
  BY Zenon DEF Inv
<1>1. Step("unhook_io") /\ UNCHANGED <<dev_list, dev, to_attach, running>>
  BY Zenon DEF DevUnhookIo
<1>2. IF i = 0 THEN UNCHANGED ioVars /\ mgr_hooks' = mgr_hooks /\ num_io_hooks' = num_io_hooks
      ELSE /\ mgr_hooks' = Without(mgr_hooks, mgr_hooks[i])
           /\ num_io_hooks' = [num_io_hooks EXCEPT ![dev] = @ - 1]
           /\ UnhookIoPort(p)
  BY Zenon DEF DevUnhookIo
<1>3. running = "deinit" /\ dev \in ToSet(dev_list) /\ dev \in DevNames /\ dev \in Devs /\ p \in Asked(dev) /\ p \in Ports
  BY <1>i, <1>1, StepFacts, Zenon
<1> HIDE DEF p
<1>4. /\ i = 0 => \A j \in 1..Len(mgr_hooks) : mgr_hooks[j].port # p
      /\ i # 0 => i \in 1..Len(mgr_hooks) /\ mgr_hooks[i].port = p
  BY <1>i, FindIoHookFacts, Zenon
<1> HIDE DEF i
<1>5. Attached'
  BY <1>i, <1>1, Zenon DEF Attached
<1>6. Calling'
  BY <1>1, <1>3, <1>i, CallingNext, Zenon
<1>7. CASE i = 0
  <2>1. UNCHANGED ioVars /\ mgr_hooks' = mgr_hooks /\ num_io_hooks' = num_io_hooks
    BY <1>2, <1>7, Zenon
  <2>2. IoInv' /\ \A q \in Ports : HookedDev(q)' = HookedDev(q)
    BY <2>1, <1>i, IoStutter, Zenon
  <2>3. num_ports' = num_ports
    BY <2>1, Zenon DEF ioVars
  <2>4. Recorded'
    BY <2>1, <2>2, <2>3, <1>i, RecordedSame, Zenon
  <2>5. Owned'
    BY <2>2, <1>1, <1>i, OwnedSame, Zenon
  <2> QED BY <2>2, <2>4, <2>5, <1>5, <1>6, Zenon DEF Inv
<1>8. CASE i # 0
  <2> DEFINE r == mgr_hooks[i]
  <2>1. /\ mgr_hooks' = Without(mgr_hooks, r) /\ UnhookIoPort(p)
        /\ num_io_hooks' = [num_io_hooks EXCEPT ![dev] = @ - 1]
    BY <1>2, <1>8, Zenon
  <2>2. i \in 1..Len(mgr_hooks) /\ r.port = p
    BY <1>4, <1>8, Zenon
  <2>3. r \in Record
    <3>1. mgr_hooks \in Seq(Record)
      BY <1>i, Zenon DEF Recorded, Record
    <3> QED BY <3>1, <2>2, SMTT(30)
  <2>4. r = [port |-> p, dev |-> r.dev] /\ r.dev \in Devs
    BY <2>2, <2>3, Zenon DEF Record
  <2>5. HookedDev(p) = r.dev
    BY <2>2, <2>4, <1>3, <1>i, Zenon DEF Recorded
  <2>6. HookedDev(p) # NoDev
    BY <2>4, <2>5, NoDevAssumption, Zenon
  <2>7. r.dev = dev
    <3>1. HookedDev(p) \in DevNames /\ p \in Asked(HookedDev(p))
      BY <2>6, <1>3, <1>i, Zenon DEF Owned
    <3> QED BY <3>1, <2>5, <1>3, AskedFacts, Zenon
  <2> HIDE DEF r
  <2>8. IoInv' /\ UnhookDone(p)
    BY <2>1, <1>3, <1>i, UnhookStep, Zenon
  <2>9. num_ports' = num_ports - 1 /\ \A q \in Ports : HookedDev(q)' = IF q = p THEN NoDev ELSE HookedDev(q)
    BY <2>6, <2>8, Zenon DEF UnhookDone
  <2>10. Recorded'
    <3>1. r = mgr_hooks[i]
      BY Zenon DEF r
    <3> QED BY <3>1, <2>1, <2>2, <2>7, <2>9, <1>3, <1>i, RecordRemoved, Zenon
  <2>11. Owned'
    <3>1. \A q \in Ports : HookedDev(q)' # NoDev => HookedDev(q)' \in DevNames /\ q \in Asked(HookedDev(q)')
      BY <2>9, <1>i, Zenon DEF Owned
    <3>2. ASSUME NEW d \in ToSet(dev_list), d # dev, NEW q \in Asked(d) PROVE HookedDev(q)' = d
      <4>1. HookedDev(q) = d
        BY <3>2, <1>i, Zenon DEF Owned
      <4>2. d \in DevNames /\ q \in Ports
        BY <1>i, AttachedFacts, Zenon
      <4>3. q # p
        BY <4>2, <3>2, <1>3, AskedFacts, Zenon
      <4> QED BY <4>1, <4>2, <4>3, <2>9, Zenon
    <3> QED BY <3>1, <3>2, <1>1, <1>3, Zenon DEF Owned
  <2> QED BY <2>8, <2>10, <2>11, <1>5, <1>6, Zenon DEF Inv
<1> QED BY <1>7, <1>8, Zenon

\* The calls that hook a timer, an event or the interrupt controller.
LEMMA OtherCallKeeps ==
    ASSUME Inv, AddTimer \/ HookHostEvent \/ SetIntrController
    PROVE  Inv'
<1>i. IoInv /\ Attached /\ Calling /\ Owned /\ Recorded
  BY Zenon DEF Inv
<1>1. /\ UNCHANGED ioVars
      /\ dev_list' = dev_list /\ dev' = dev /\ mgr_hooks' = mgr_hooks /\ num_io_hooks' = num_io_hooks
      /\ to_attach' = to_attach /\ running' = running
      /\ \E op : Step(op) /\ op # "hook_io"
  <2>1. CASE AddTimer
    <3>1. Step("add_timer")
      BY <2>1, Zenon DEF AddTimer
    <3> QED BY <3>1, <2>1 DEF AddTimer
  <2>2. CASE HookHostEvent
    <3>1. Step("hook_event")
      BY <2>2, Zenon DEF HookHostEvent
    <3> QED BY <3>1, <2>2 DEF HookHostEvent
  <2>3. CASE SetIntrController
    <3>1. Step("set_intr_controller")
      BY <2>3, Zenon DEF SetIntrController
    <3> QED BY <3>1, <2>3 DEF SetIntrController
  <2> QED BY <2>1, <2>2, <2>3, Zenon
<1>2. IoInv' /\ \A q \in Ports : HookedDev(q)' = HookedDev(q)
  BY <1>1, <1>i, IoStutter, Zenon
<1>3. num_ports' = num_ports
  BY <1>1, Zenon DEF ioVars
<1>4. Recorded'
  BY <1>1, <1>2, <1>3, <1>i, RecordedSame, Zenon
<1>5. Owned'
  BY <1>1, <1>2, <1>i, OwnedSame, Zenon
<1>6. Attached'
  BY <1>1, <1>i, Zenon DEF Attached
<1>7. Calling'
  <2>1. PICK op : Step(op) /\ op # "hook_io"
    BY <1>1, Zenon
  <2>2. \A q : Head(calls) # Io(q)
    BY <2>1, CallFacts DEF Step
  <2>3. dev \in DevNames
    BY <2>1, <1>i, StepFacts, Zenon
  <2>4. Asked(dev) \subseteq Ports
    BY <2>3, AskedFacts, Zenon
  <2>5. \A q \in Asked(dev) : HookedDev(q) = dev \/ Head(calls) = Io(q) => HookedDev(q)' = dev
    BY <2>2, <2>4, <1>2, Zenon
  <2> QED BY <2>1, <2>5, <1>1, <1>i, CallingNext, Zenon
<1> QED BY <1>2, <1>4, <1>5, <1>6, <1>7, Zenon DEF Inv

\* v3_attach_device.
LEMMA AttachDeviceKeeps ==
    ASSUME Inv, AttachDevice
    PROVE  Inv'
<1> DEFINE d == Head(to_attach)
<1>i. IoInv /\ Attached /\ Calling /\ Owned /\ Recorded
  BY Zenon DEF Inv
<1>1. /\ running = "none" /\ to_attach # <<>> /\ dev' = d /\ dev_list' = <<d>> \o dev_list
      /\ to_attach' = Tail(to_attach) /\ calls' = InitCalls(d) /\ running' = "init"
      /\ UNCHANGED ioVars /\ mgr_hooks' = mgr_hooks /\ num_io_hooks' = num_io_hooks
  BY Zenon DEF AttachDevice
<1>2. IoInv' /\ \A q \in Ports : HookedDev(q)' = HookedDev(q)
  BY <1>1, <1>i, IoStutter, Zenon
<1>3. Recorded'
  <2>1. num_ports' = num_ports
    BY <1>1, Zenon DEF ioVars
  <2> QED BY <2>1, <1>1, <1>2, <1>i, RecordedSame, Zenon
<1>4. /\ dev_list \in Seq(DevNames) /\ Distinct(dev_list) /\ to_attach \in Seq(DevNames) /\ Distinct(to_attach)
      /\ ToSet(dev_list) \intersect ToSet(to_attach) = {}
      /\ DOMAIN dev_list = 1..Len(dev_list) /\ DOMAIN to_attach = 1..Len(to_attach)
  BY <1>i DEF Attached
<1>5. /\ 1 \in 1..Len(to_attach) /\ d = to_attach[1] /\ d \in DevNames /\ to_attach' \in Seq(DevNames)
      /\ \A i \in 1..Len(to_attach') : i + 1 \in 1..Len(to_attach) /\ to_attach'[i] = to_attach[i + 1]
  BY <1>1, <1>4, TailFacts
<1> HIDE DEF d
<1>6. d \in ToSet(to_attach) /\ d \notin ToSet(dev_list)
  BY <1>4, <1>5, Zenon DEF ToSet
<1>7. /\ dev_list' \in Seq(DevNames) /\ ToSet(dev_list') = ToSet(dev_list) \union {d}
      /\ dev_list'[1] = d /\ Len(dev_list) \in Nat /\ Len(dev_list') = Len(dev_list) + 1
      /\ \A i \in 1..Len(dev_list') : i # 1 => i - 1 \in 1..Len(dev_list) /\ dev_list'[i] = dev_list[i - 1]
  BY <1>1, <1>4, <1>5, ConsFacts, SMTT(30)
<1>8. Attached'
  <2>1. ASSUME NEW i \in 1..Len(dev_list'), NEW j \in 1..Len(dev_list'), dev_list'[i] = dev_list'[j] PROVE i = j
    <3>1. \A k \in 1..Len(dev_list) : dev_list[k] # d
      BY <1>4, <1>6, Zenon DEF ToSet
    <3>2. i = 1 <=> j = 1
      BY <3>1, <2>1, <1>7, Zenon
    <3>3. CASE i # 1 /\ j # 1
      <4>1. i - 1 \in 1..Len(dev_list) /\ j - 1 \in 1..Len(dev_list) /\ dev_list[i - 1] = dev_list[j - 1]
        BY <3>3, <2>1, <1>7, Zenon
      <4>2. i - 1 = j - 1
        BY <4>1, <1>4, Zenon DEF Distinct
      <4> QED BY <4>2, <1>7
    <3> QED BY <3>2, <3>3, Zenon
  <2>2. ASSUME NEW i \in 1..Len(to_attach'), NEW j \in 1..Len(to_attach'), to_attach'[i] = to_attach'[j] PROVE i = j
    <3>1. i + 1 \in 1..Len(to_attach) /\ j + 1 \in 1..Len(to_attach) /\ to_attach[i + 1] = to_attach[j + 1]
      BY <2>2, <1>5, Zenon
    <3>2. i + 1 = j + 1
      BY <3>1, <1>4, Zenon DEF Distinct
    <3>3. Len(to_attach') \in Nat
      BY <1>5
    <3> QED BY <3>2, <3>3
  <2>3. ToSet(dev_list') \intersect ToSet(to_attach') = {}
    <3>1. DOMAIN to_attach' = 1..Len(to_attach') /\ Len(to_attach') \in Nat
      BY <1>5
    <3>2. \A y \in ToSet(to_attach') : y \in ToSet(to_attach)
      BY <3>1, <1>4, <1>5, Zenon DEF ToSet
    <3>3. d \notin ToSet(to_attach')
      <4>1. \A i \in 1..Len(to_attach') : to_attach'[i] # d
        <5>1. ASSUME NEW i \in 1..Len(to_attach'), to_attach'[i] = d PROVE FALSE
          <6>1. i + 1 \in 1..Len(to_attach) /\ to_attach[i + 1] = to_attach[1]
            BY <5>1, <1>5, Zenon
          <6>2. i + 1 = 1
            BY <6>1, <1>4, <1>5, Zenon DEF Distinct
          <6> QED BY <6>2, <3>1
        <5> QED BY <5>1, Zenon
      <4> QED BY <4>1, <3>1, Zenon DEF ToSet
    <3> QED BY <3>2, <3>3, <1>4, <1>7, Zenon
  <2>4. Distinct(dev_list)' /\ Distinct(to_attach)'
    BY <2>1, <2>2, Zenon DEF Distinct
  <2> QED BY <2>3, <2>4, <1>1, <1>5, <1>7, Zenon DEF Attached
<1>9. Calling'
  <2> DEFINE q == InitCalls(d)
  <2>1. InitOk(q, Asked(d))
    BY <1>5, CallsOk, AskedIs, Zenon
  <2>2. calls' = q
    BY <1>1, Zenon
  <2> HIDE DEF q
  <2>3. /\ q \in Seq(Call)
        /\ \A i \in 1..Len(q) : q[i].op # "unhook_io" /\ (q[i].op = "hook_io" => q[i].port \in Asked(d))
        /\ \A p \in Asked(d) : \E i \in 1..Len(q) : q[i] = Io(p)
    BY <2>1, Zenon DEF InitOk
  <2> QED BY <2>2, <2>3, <1>1, Zenon DEF Calling
<1>10. Owned'
  <2>1. \A q \in Ports : HookedDev(q)' # NoDev => HookedDev(q)' \in DevNames /\ q \in Asked(HookedDev(q)')
    BY <1>2, <1>i, Zenon DEF Owned
  <2>2. ASSUME NEW e \in ToSet(dev_list'), e # d, NEW q \in Asked(e) PROVE HookedDev(q)' = e
    <3>1. e \in ToSet(dev_list)
      BY <2>2, <1>7, Zenon
    <3>2. HookedDev(q) = e
      BY <3>1, <1>1, <1>i, Zenon DEF Owned
    <3>3. q \in Ports
      BY <3>1, <1>i, AttachedFacts, Zenon
    <3> QED BY <3>2, <3>3, <1>2, Zenon
  <2> QED BY <2>1, <2>2, <1>1, Zenon DEF Owned
<1> QED BY <1>2, <1>3, <1>8, <1>9, <1>10, Zenon DEF Inv

\* The ends of v3_attach_device and v3_unattach_device, the start of the latter, and v3_dev_mgr_deinit.
LEMMA FinishKeeps ==
    ASSUME Inv, FinishInit \/ FinishDeinit \/ (\E d \in Devs : UnattachDevice(d)) \/ DevMgrDeinit
    PROVE  Inv'
<1>i. IoInv /\ Attached /\ Calling /\ Owned /\ Recorded
  BY Zenon DEF Inv
<1>1. UNCHANGED ioVars /\ mgr_hooks' = mgr_hooks /\ num_io_hooks' = num_io_hooks /\ to_attach' = to_attach
  BY Zenon DEF FinishInit, FinishDeinit, UnattachDevice, DevMgrDeinit
<1>2. IoInv' /\ \A q \in Ports : HookedDev(q)' = HookedDev(q)
  BY <1>1, <1>i, IoStutter, Zenon
<1>3. Recorded'
  <2>1. num_ports' = num_ports
    BY <1>1, Zenon DEF ioVars
  <2> QED BY <2>1, <1>1, <1>2, <1>i, RecordedSame, Zenon
<1>4. \A q \in Ports : HookedDev(q)' # NoDev => HookedDev(q)' \in DevNames /\ q \in Asked(HookedDev(q)')
  BY <1>2, <1>i, Zenon DEF Owned
<1>5. \A d \in ToSet(dev_list) : d \in DevNames /\ Asked(d) \subseteq Ports
  BY <1>i, AttachedFacts, Zenon
<1>6. CASE FinishInit
  <2>1. /\ running = "init" /\ calls = <<>> /\ running' = "none" /\ dev' = NoDev
        /\ dev_list' = dev_list /\ calls' = calls
    BY <1>6, Zenon DEF FinishInit
  <2>2. \A q \in Asked(dev) : HookedDev(q) = dev
    BY <2>1, <1>i DEF Calling
  <2>3. Attached'
    BY <2>1, <1>1, <1>i, Zenon DEF Attached
  <2>4. Calling'
    BY <2>1, <1>i DEF Calling
  <2>5. \A d \in ToSet(dev_list) : \A q \in Asked(d) : HookedDev(q)' = d
    <3>1. \A d \in ToSet(dev_list) : \A q \in Asked(d) : HookedDev(q) = d
      BY <2>2, <1>i, Zenon DEF Owned
    <3> QED BY <3>1, <1>2, <1>5, Zenon
  <2>6. Owned'
    BY <2>1, <2>5, <1>4, Zenon DEF Owned
  <2> QED BY <2>3, <2>4, <2>6, <1>2, <1>3, Zenon DEF Inv
<1>7. CASE FinishDeinit
  <2>1. /\ running = "deinit" /\ calls = <<>> /\ running' = "none"
        /\ dev_list' = Without(dev_list, dev) /\ calls' = calls
    BY <1>7, Zenon DEF FinishDeinit
  <2>2. /\ dev_list' \in Seq(DevNames) /\ Distinct(dev_list') /\ ToSet(dev_list') = ToSet(dev_list) \ {dev}
    <3>1. dev_list \in Seq(DevNames) /\ Distinct(dev_list) /\ dev \in ToSet(dev_list)
      BY <2>1, <1>i, Zenon DEF Attached
    <3>2. PICK k \in 1..Len(dev_list) : dev = dev_list[k]
      BY <3>1 DEF ToSet
    <3> DEFINE w == Without(dev_list, dev_list[k])
    <3>3. w \in Seq(DevNames)
      BY <3>1, WithoutFacts, Zenon
    <3>4. \A i, j \in 1..Len(w) : w[i] = w[j] => i = j
      BY <3>1, WithoutFacts
    <3>5. ToSet(w) = ToSet(dev_list) \ {dev_list[k]}
      BY <3>1, WithoutFacts
    <3>6. dev_list' = w
      BY <2>1, <3>2, Zenon
    <3> HIDE DEF w
    <3> QED BY <3>2, <3>3, <3>4, <3>5, <3>6, Zenon DEF Distinct
  <2>3. Attached'
    <3>1. to_attach \in Seq(DevNames) /\ Distinct(to_attach) /\ ToSet(dev_list) \intersect ToSet(to_attach) = {}
      BY <1>i, Zenon DEF Attached
    <3>2. ToSet(dev_list') \intersect ToSet(to_attach') = {}
      BY <3>1, <2>2, <1>1, Zenon
    <3>3. Distinct(dev_list)' /\ Distinct(to_attach)'
      BY <3>1, <2>2, <1>1, Zenon DEF Distinct
    <3> QED BY <3>1, <3>2, <3>3, <2>1, <2>2, <1>1, Zenon DEF Attached
  <2>4. Calling'
    BY <2>1, <1>i DEF Calling
  <2>5. \A d \in ToSet(dev_list') : \A q \in Asked(d) : HookedDev(q)' = d
    <3>1. \A d \in ToSet(dev_list) \ {dev} : \A q \in Asked(d) : HookedDev(q) = d
      BY <1>i, Zenon DEF Owned
    <3> QED BY <3>1, <2>2, <1>2, <1>5, Zenon
  <2>6. Owned'
    BY <2>1, <2>5, <1>4, Zenon DEF Owned
  <2> QED BY <2>3, <2>4, <2>6, <1>2, <1>3, Zenon DEF Inv
<1>8. ASSUME NEW d \in Devs, UnattachDevice(d) PROVE Inv'
  <2>1. /\ running = "none" /\ d \in ToSet(dev_list) /\ dev' = d /\ calls' = DeinitCalls(d) /\ running' = "deinit"
        /\ dev_list' = dev_list
    BY <1>8, Zenon DEF UnattachDevice
  <2>2. Attached'
    BY <2>1, <1>1, <1>i, Zenon DEF Attached
  <2>3. Calling'
    <3> DEFINE q == DeinitCalls(d)
    <3>1. DeinitOk(q, Asked(d))
      BY <2>1, <1>5, CallsOk, AskedIs, Zenon
    <3>2. calls' = q
      BY <2>1, Zenon
    <3> HIDE DEF q
    <3>3. q \in Seq(Call) /\ \A i \in 1..Len(q) : q[i].op = "unhook_io" /\ q[i].port \in Asked(d)
      BY <3>1, Zenon DEF DeinitOk
    <3> QED BY <3>2, <3>3, <2>1, Zenon DEF Calling
  <2>4. \A e \in ToSet(dev_list) : \A q \in Asked(e) : HookedDev(q)' = e
    <3>1. \A e \in ToSet(dev_list) : \A q \in Asked(e) : HookedDev(q) = e
      BY <2>1, <1>i, Zenon DEF Owned
    <3> QED BY <3>1, <1>2, <1>5, Zenon
  <2>5. Owned'
    BY <2>1, <2>4, <1>4, Zenon DEF Owned
  <2> QED BY <2>2, <2>3, <2>5, <1>2, <1>3, Zenon DEF Inv
<1>9. CASE DevMgrDeinit
  <2>1. dev_list' = dev_list /\ dev' = dev /\ calls' = calls /\ running' = running /\ running = "none"
    BY <1>9, Zenon DEF DevMgrDeinit
  <2>2. Attached'
    BY <2>1, <1>1, <1>i, Zenon DEF Attached
  <2>3. Calling'
    BY <2>1, <1>i, Zenon DEF Calling
  <2>4. Owned'
    BY <2>1, <1>2, <1>i, OwnedSame, Zenon
  <2> QED BY <2>2, <2>3, <2>4, <1>2, <1>3, Zenon DEF Inv
<1> QED BY <1>6, <1>7, <1>8, <1>9, Zenon

\* Steps that change nothing.
LEMMA StutterKeeps ==
    ASSUME Inv, UNCHANGED vars
    PROVE  Inv'
<1>i. IoInv /\ Attached /\ Calling /\ Owned /\ Recorded
  BY Zenon DEF Inv
<1>1. /\ UNCHANGED ioVars /\ dev_list' = dev_list /\ dev' = dev /\ mgr_hooks' = mgr_hooks
      /\ num_io_hooks' = num_io_hooks /\ to_attach' = to_attach /\ calls' = calls /\ running' = running
  BY Zenon DEF vars, devVars
<1>2. IoInv' /\ \A q \in Ports : HookedDev(q)' = HookedDev(q)
  BY <1>1, <1>i, IoStutter, Zenon
<1>3. num_ports' = num_ports
  BY <1>1, Zenon DEF ioVars
<1>4. Recorded' /\ Owned'
  BY <1>1, <1>2, <1>3, <1>i, RecordedSame, OwnedSame, Zenon
<1>5. Attached'
  BY <1>1, <1>i, Zenon DEF Attached
<1>6. Calling'
  <2>1. running = "init" => \A q \in Asked(dev) : q \in Ports
    BY <1>i, AttachedFacts, Zenon DEF Attached
  <2> QED BY <2>1, <1>1, <1>2, <1>i, Zenon DEF Calling
<1> QED BY <1>2, <1>4, <1>5, <1>6, Zenon DEF Inv

\* Before v3_config_guest attaches a device.
LEMMA DevInitHolds == DevInit => Inv
<1> SUFFICES ASSUME DevInit PROVE Inv
  BY Zenon
<1>1. /\ InitIoMap /\ dev_list = <<>> /\ mgr_hooks = <<>> /\ num_io_hooks = [d \in Devs |-> 0]
      /\ calls = <<>> /\ running = "none"
  BY Zenon DEF DevInit
<1>0. PICK use_ramdisk \in BOOLEAN : to_attach = AttachOrder(use_ramdisk)
  BY Zenon DEF DevInit
<1>2. IoInv /\ num_ports = 0 /\ \A q \in Ports : HookedDev(q) = NoDev
  BY <1>1, InitIoMapHolds, Zenon DEF InitIoMap
<1>3. Attached
  <2>1. to_attach \in Seq(DevNames) /\ Distinct(to_attach)
    <3>1. CASE use_ramdisk
      <4>1. to_attach = AttachOrder(TRUE)
        BY <1>0, <3>1, Zenon DEF AttachOrder
      <4> QED BY <4>1 DEF AttachOrder, DevNames, Distinct
    <3>2. CASE ~ use_ramdisk
      <4>1. to_attach = AttachOrder(FALSE)
        BY <1>0, <3>2, Zenon DEF AttachOrder
      <4> QED BY <4>1 DEF AttachOrder, DevNames, Distinct
    <3> QED BY <3>1, <3>2, Zenon
  <2>2. ToSet(dev_list) = {}
    BY <1>1 DEF ToSet
  <2>3. dev_list \in Seq(DevNames) /\ Distinct(dev_list)
    BY <1>1 DEF Distinct
  <2> QED BY <2>1, <2>2, <2>3, <1>1, Zenon DEF Attached
<1>4. Calling
  BY <1>1 DEF Calling
<1>5. Owned
  <2>1. ToSet(dev_list) = {}
    BY <1>1 DEF ToSet
  <2> QED BY <2>1, <1>2, Zenon DEF Owned
<1>6. Recorded
  <2>1. \A d \in Devs : {h \in ToSet(mgr_hooks) : h.dev = d} = {}
    BY <1>1 DEF ToSet
  <2>2. \A d \in Devs : num_io_hooks[d] = Cardinality({h \in ToSet(mgr_hooks) : h.dev = d})
    BY <2>1, <1>1, FS_EmptySet, Zenon
  <2>3. \A q \in Ports, d \in Devs : HookedDev(q) # d
    BY <1>2, NoDevAssumption, Zenon
  <2>4. mgr_hooks \in Seq([port : Ports, dev : Devs]) /\ Len(mgr_hooks) = 0
    BY <1>1
  <2>5. num_io_hooks \in [Devs -> Int]
    BY <1>1
  <2>6. \A i \in 1..Len(mgr_hooks) : FALSE
    BY <2>4
  <2> QED BY <2>2, <2>3, <2>4, <2>5, <2>6, <1>2, Zenon DEF Recorded
<1> QED BY <1>2, <1>3, <1>4, <1>5, <1>6, Zenon DEF Inv

\* The invariant holds in every state of the device manager.
LEMMA InvHolds == DevSpec => []Inv
<1>1. Inv /\ [DevNext]_vars => Inv'
  BY DevHookIoKeeps, DevUnhookIoKeeps, OtherCallKeeps, AttachDeviceKeeps, FinishKeeps, StutterKeeps, Zenon
     DEF DevNext
<1> QED BY <1>1, DevInitHolds, PTL DEF DevSpec

-----------------------------------------------------------------------------
(* The theorems *)

\* Whatever devices are attached and unattached, in whatever order, the hooks of the port
\* map stay a sorted doubly linked list of num_ports hooks.
THEOREM ManagedListSound == DevSpec => []ListWellFormed
<1>1. Inv => ListWellFormed
  BY IoInvList, Zenon DEF Inv
<1> QED BY <1>1, InvHolds, PTL

\* What the invariant says of the three records.
LEMMA InvRecords == Inv => RecordsAgree
<1> SUFFICES ASSUME Inv PROVE RecordsAgree
  BY Zenon
<1> DEFINE entry(h) == [port |-> hook[h].port, dev |-> hook[h].dev]
<1>1. IoInv /\ Recorded
  BY Zenon DEF Inv
<1>2. hook \in [HookIds -> Hook] /\ Linked(hook, head, Chain)
  BY <1>1, Zenon DEF IoInv
<1>3. /\ DOMAIN Chain = 1..Len(Chain)
      /\ \A i \in 1..Len(Chain) : Chain[i] \in HookIds /\ hook[Chain[i]].port # NoPort
  BY <1>2, LinkedFacts, Zenon
<1>m. mgr_hooks \in Seq(Record)
  BY <1>1, Zenon DEF Recorded, Record
<1>r. \A p \in Ports, d \in Devs :
         HookedDev(p) = d <=> \E i \in 1..Len(mgr_hooks) : mgr_hooks[i] = [port |-> p, dev |-> d]
  BY <1>1, Zenon DEF Recorded
<1>4. DOMAIN mgr_hooks = 1..Len(mgr_hooks) /\ \A i \in 1..Len(mgr_hooks) : mgr_hooks[i] \in Record
  BY <1>m
<1>5. ASSUME NEW i \in 1..Len(mgr_hooks) PROVE \E j \in 1..Len(Chain) : mgr_hooks[i] = entry(Chain[j])
  <2>1. PICK p \in Ports, d \in Devs : mgr_hooks[i] = [port |-> p, dev |-> d]
    BY <1>4, Zenon DEF Record
  <2>2. HookedDev(p) = d /\ d # NoDev
    BY <2>1, <1>r, NoDevAssumption, Zenon
  <2>3. DevOf(hook, head, p) = d
    BY <2>2, HookedDevs, Zenon
  <2>4. PICK j \in 1..Len(Chain) : hook[Chain[j]].port = p
    BY <2>2, <2>3, <1>2, DevOfFacts, SMTT(30)
  <2>5. hook[Chain[j]].dev = d
    BY <2>3, <2>4, <1>2, DevOfFacts, SMTT(30)
  <2> QED BY <2>1, <2>4, <2>5, Zenon
<1>6. ASSUME NEW j \in 1..Len(Chain) PROVE \E i \in 1..Len(mgr_hooks) : mgr_hooks[i] = entry(Chain[j])
  <2> DEFINE p == hook[Chain[j]].port
             d == hook[Chain[j]].dev
  <2>1. p \in Ports
    BY <1>2, <1>3, Zenon DEF Hook
  <2>2. DevOf(hook, head, p) = d /\ DevOf(hook, head, p) # NoDev /\ DevOf(hook, head, p) \in Devs \union {NoDev}
    BY <2>1, <1>2, DevOfFacts
  <2>3. HookedDev(p) = d /\ d \in Devs
    BY <2>2, HookedDevs, Zenon
  <2> HIDE DEF p, d
  <2>4. PICK i \in 1..Len(mgr_hooks) : mgr_hooks[i] = [port |-> p, dev |-> d]
    BY <2>1, <2>3, <1>r, Zenon
  <2> QED BY <2>4, Zenon DEF p, d
<1>7. ToSet(mgr_hooks) = {entry(h) : h \in ToSet(Chain)}
  <2>1. ToSet(mgr_hooks) = {mgr_hooks[i] : i \in 1..Len(mgr_hooks)} /\ ToSet(Chain) = {Chain[i] : i \in 1..Len(Chain)}
    BY <1>3, <1>4, Zenon DEF ToSet
  <2>2. \A i \in 1..Len(mgr_hooks) : \E j \in 1..Len(Chain) : mgr_hooks[i] = entry(Chain[j])
    BY <1>5, Zenon
  <2>3. \A j \in 1..Len(Chain) : \E i \in 1..Len(mgr_hooks) : mgr_hooks[i] = entry(Chain[j])
    BY <1>6, Zenon
  <2> HIDE DEF entry
  <2>4. ASSUME NEW x \in ToSet(mgr_hooks) PROVE \E h \in ToSet(Chain) : x = entry(h)
    <3>1. PICK i \in 1..Len(mgr_hooks) : x = mgr_hooks[i]
      BY <2>1
    <3>2. PICK j \in 1..Len(Chain) : x = entry(Chain[j])
      BY <3>1, <2>2, Zenon
    <3>3. Chain[j] \in ToSet(Chain)
      BY <2>1
    <3> QED BY <3>2, <3>3, Zenon
  <2>5. ASSUME NEW h \in ToSet(Chain) PROVE entry(h) \in ToSet(mgr_hooks)
    <3>1. PICK j \in 1..Len(Chain) : h = Chain[j]
      BY <2>1
    <3>2. PICK i \in 1..Len(mgr_hooks) : mgr_hooks[i] = entry(h)
      BY <3>1, <2>3, Zenon
    <3>3. mgr_hooks[i] \in ToSet(mgr_hooks)
      BY <2>1
    <3> QED BY <3>2, <3>3, Zenon
  <2> QED BY <2>4, <2>5, Zenon
<1> QED BY <1>1, <1>7, Zenon DEF Recorded, RecordsAgree

\* After every call of every init and deinit, the port map, the list of the manager and
\* the counts of the devices agree on who hooked what.
THEOREM HookRecordsAgree == DevSpec => []RecordsAgree
BY InvHolds, InvRecords, PTL

\* Every attached device has the ports it asked for, whatever other devices were attached
\* and unattached before: v3_config_guest and the inits may ignore what the calls return.
THEOREM AttachedDevicesComplete == DevSpec => []DevicesComplete
<1>1. Inv => DevicesComplete
  <2> SUFFICES ASSUME Inv, running = "none", NEW d \in ToSet(dev_list) PROVE PortsOf(d) = Asked(d)
    BY Zenon DEF DevicesComplete
  <2>1. Attached /\ Owned
    BY Zenon DEF Inv
  <2>2. d \in DevNames /\ d \in Devs /\ Asked(d) \subseteq Ports /\ d # NoDev
    BY <2>1, AttachedFacts, NoDevAssumption, Zenon
  <2>3. \A p \in Asked(d) : p \in Ports /\ HookedDev(p) = d
    BY <2>1, <2>2, Zenon DEF Owned
  <2>4. \A p \in Ports : HookedDev(p) = d => p \in Asked(d)
    BY <2>1, <2>2, Zenon DEF Owned
  <2> QED BY <2>3, <2>4, Zenon DEF PortsOf
<1> QED BY <1>1, InvHolds, PTL

\* As the devices use it, the list implements the partial function from ports to devices.
THEOREM ManagedMapRefines == DevSpec => ImplementsIoPorts
<1>1. DevInit => AbstractPorts!Init
  BY AbstractInit, Zenon DEF DevInit
<1>2. Inv /\ [DevNext]_vars => [AbstractPorts!Next]_<<[p \in Ports |-> HookedDev(p)], result>>
  <2> SUFFICES ASSUME Inv, [DevNext]_vars
               PROVE  [AbstractPorts!Next]_<<[p \in Ports |-> HookedDev(p)], result>>
    BY Zenon
  <2>1. IoInv /\ Attached /\ Calling
    BY Zenon DEF Inv
  <2>2. CASE DevHookIo
    <3>1. Step("hook_io") /\ HookIoPort(Head(calls).port, dev)
      BY <2>2, Zenon DEF DevHookIo
    <3>2. Head(calls).port \in Ports /\ dev \in Devs
      BY <3>1, <2>1, StepFacts, Zenon
    <3>3. AbstractPorts!HookIoPort(Head(calls).port, dev)
      BY <3>1, <3>2, <2>1, AbstractHook, Zenon
    <3> QED BY <3>2, <3>3, Zenon DEF AbstractPorts!Next
  <2>3. CASE UNCHANGED ioVars
    BY <2>3, <2>1, AbstractStutter, Zenon
  <2>4. CASE DevUnhookIo
    <3>1. Step("unhook_io") /\ (UNCHANGED ioVars \/ UnhookIoPort(Head(calls).port))
      BY <2>4, Zenon DEF DevUnhookIo
    <3>2. Head(calls).port \in Ports
      BY <3>1, <2>1, StepFacts, Zenon
    <3>3. CASE UnhookIoPort(Head(calls).port)
      <4>1. AbstractPorts!UnhookIoPort(Head(calls).port)
        BY <3>2, <3>3, <2>1, AbstractUnhook, Zenon
      <4> QED BY <4>1, <3>2, Zenon DEF AbstractPorts!Next
    <3> QED BY <3>1, <3>3, <2>3, Zenon
  <2>5. DevHookIo \/ DevUnhookIo \/ UNCHANGED ioVars
    BY Zenon DEF DevNext, AddTimer, HookHostEvent, SetIntrController, FinishInit, FinishDeinit, UnattachDevice,
           DevMgrDeinit, AttachDevice, vars
  <2> QED BY <2>2, <2>3, <2>4, <2>5, Zenon
<1> QED BY <1>1, <1>2, InvHolds, PTL DEF DevSpec, ImplementsIoPorts, AbstractPorts!Spec

=============================================================================
