------------------------------ MODULE IoPorts ------------------------------
(***************************************************************************)
(* What the I/O port map promises the rest of the VMM: each port has at    *)
(* most one hook, a hook is there from the call that set it until the port *)
(* is unhooked, and hooking a port that has a hook fails.                  *)
(***************************************************************************)
EXTENDS Integers

CONSTANTS Ports, Devs, NoDev

VARIABLES
    hooked,     \* the device each port is dispatched to, or NoDev
    result      \* what the last call returned

Init == hooked = [p \in Ports |-> NoDev] /\ result = 0

\* The second conjunct says it all; the first spares TLC the comparison of the
\* two functions for most p.
Dispatch(p, d) == hooked'[p] = d /\ hooked' = [hooked EXCEPT ![p] = d]

HookIoPort(p, d) ==
    IF hooked[p] = NoDev
    THEN result' = 0 /\ Dispatch(p, d)
    ELSE result' = -1 /\ UNCHANGED hooked

UnhookIoPort(p) ==
    /\ result' = IF hooked[p] = NoDev THEN -1 ELSE 0
    /\ Dispatch(p, NoDev)

Next ==
    \E p \in Ports :
       \/ \E d \in Devs : HookIoPort(p, d)
       \/ UnhookIoPort(p)

Spec == Init /\ [][Next]_<<hooked, result>>

=============================================================================
