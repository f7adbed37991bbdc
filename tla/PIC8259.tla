------------------------------ MODULE PIC8259 ------------------------------
(***************************************************************************)
(* The virtual interrupt controller of palacios/src/devices/8259a.c: two   *)
(* cascaded 8259A chips behind four I/O ports, and the five operations of  *)
(* struct intr_ctrl_ops that the rest of the VMM calls.                    *)
(*                                                                         *)
(* A byte register whose bits are lines (irr, isr, imr) is the set of its  *)
(* set bits.  The control words keep the bits the code reads: ic4 and sngl *)
(* of ICW1, the whole of ICW2, the two low bits of OCW3, which select what *)
(* a read of port 1 returns.  Reads change no state and have no action.    *)
(***************************************************************************)
EXTENDS Integers, FiniteSets

CONSTANTS
    Irqs,       \* the IRQ numbers the devices of the guest raise and lower
    Icw1Words,  \* the ICW1 words the guest writes: records [sngl, ic4]
    Bases,      \* the vector bases the guest writes as ICW2
    Masks,      \* the masks the guest writes as OCW1
    Ocw3Words   \* the register selections the guest writes as OCW3

ASSUME IrqsAssumption == Irqs \subseteq 0..15
ASSUME Icw1Assumption == Icw1Words \subseteq [sngl : {0, 1}, ic4 : {0, 1}]
ASSUME BasesAssumption == Bases \subseteq 0..255
ASSUME MasksAssumption == Masks \subseteq SUBSET (0..7)
ASSUME Ocw3Assumption == Ocw3Words \subseteq 0..3

VARIABLES
    irr,    \* master_irr, slave_irr: the requested lines
    isr,    \* master_isr, slave_isr: the lines in service
    imr,    \* master_imr, slave_imr: the masked lines
    icw1,   \* master_icw1, slave_icw1
    icw2,   \* master_icw2, slave_icw2: the vector of line 0
    ocw3,   \* master_ocw3, slave_ocw3: what a read of port 1 returns
    state   \* master_state, slave_state

picVars == <<irr, isr, imr, icw1, icw2, ocw3, state>>

Chips == {"master", "slave"}
Pins == 0..7
States == {"ICW1", "ICW2", "ICW3", "ICW4", "READY"}

PicInit ==
    /\ irr = [c \in Chips |-> {}]
    /\ isr = [c \in Chips |-> {}]
    /\ imr = [c \in Chips |-> {}]
    /\ icw1 = [c \in Chips |-> [sngl |-> 0, ic4 |-> 0]]
    /\ icw2 = [c \in Chips |-> 0]
    /\ ocw3 = [c \in Chips |-> 2]
    /\ state = [c \in Chips |-> "ICW1"]

-----------------------------------------------------------------------------
(* The operations of intr_ctrl_ops. *)

Chip(irq) == IF irq <= 7 THEN "master" ELSE "slave"
Pin(irq) == irq % 8

\* The lines of chip c that raising IRQ irq sets: IRQ 2 is the cascade line,
\* and stands for IRQ 9.
RaisedPins(irq, c) ==
    IF irq = 2 THEN (IF c = "master" THEN {2} ELSE {1})
    ELSE IF c = Chip(irq) THEN {Pin(irq)} ELSE {}

RaiseIntr(irq) ==
    /\ irr' = [c \in Chips |-> irr[c] \union RaisedPins(irq, c)]
    /\ UNCHANGED <<isr, imr, icw1, icw2, ocw3, state>>

LowerIntr(irq) ==
    /\ irr' = [irr EXCEPT ![Chip(irq)] = @ \ {Pin(irq)}]
    /\ UNCHANGED <<isr, imr, icw1, icw2, ocw3, state>>

Unmasked(c) == irr[c] \ imr[c]

IntrPending == \E c \in Chips : Unmasked(c) # {}

\* The first i with (byte >> i) == 1 is the highest set bit.
Highest(S) == CHOOSE i \in S : \A j \in S : j <= i

\* The line pic_get_intr_number selects: the master's before the slave's.
SelectedChip == IF Unmasked("master") # {} THEN "master" ELSE "slave"
LowestSelectedPin == CHOOSE i \in Unmasked(SelectedChip) : \A j \in Unmasked(SelectedChip) : i <= j
SelectedPin == Highest(Unmasked(SelectedChip))

GetIntrNumber ==
    IF IntrPending THEN icw2[SelectedChip] + SelectedPin ELSE -1

InRangeOfSeven(v, c) == v \in icw2[c] .. icw2[c] + 6
InRange(v, c) == v \in icw2[c] .. icw2[c] + 7

\* pic_begin_irq returns -1 for a vector outside both ranges.
BeginFinds(v) == \E c \in Chips : InRange(v, c)

BeginChip(v) == IF InRange(v, "master") THEN "master" ELSE "slave"

\* The line is the vector's low three bits, whatever the base; the master's
\* is taken only if it is the highest unmasked request.
Begins(v) ==
    \/ BeginChip(v) = "slave"
    \/ v % 8 \in Unmasked("master") /\ Highest(Unmasked("master")) = v % 8

IsrUntouched(v) == isr
IsrAfterBegin(v) == [isr EXCEPT ![BeginChip(v)] = @ \union {v % 8}]
IrrAfterBegin(v) == [irr EXCEPT ![BeginChip(v)] = @ \ {v % 8}]

BeginIrq(v) ==
    /\ IF BeginFinds(v) /\ Begins(v)
         THEN irr' = IrrAfterBegin(v) /\ isr' = IsrAfterBegin(v)
         ELSE UNCHANGED <<irr, isr>>
    /\ UNCHANGED <<imr, icw1, icw2, ocw3, state>>

-----------------------------------------------------------------------------
(* The port handlers.  A word that none of these accepts is refused with -1,*)
(* which ends the guest.                                                   *)

WriteIcw1(c, w) ==
    /\ icw1' = [icw1 EXCEPT ![c] = w]
    /\ state' = [state EXCEPT ![c] = "ICW2"]
    /\ UNCHANGED <<irr, isr, imr, icw2, ocw3>>

SpecificEoi(c, level) ==
    /\ state[c] = "READY"
    /\ isr' = [isr EXCEPT ![c] = @ \ {level}]
    /\ UNCHANGED <<irr, imr, icw1, icw2, ocw3, state>>

Lowest(S) == CHOOSE i \in S : \A j \in S : i <= j

NonSpecificEoi(c) ==
    /\ state[c] = "READY"
    /\ isr' = [isr EXCEPT ![c] = IF @ = {} THEN @ ELSE @ \ {Lowest(@)}]
    /\ UNCHANGED <<irr, imr, icw1, icw2, ocw3, state>>

WriteOcw3(c, w) ==
    /\ state[c] = "READY"
    /\ ocw3' = [ocw3 EXCEPT ![c] = w]
    /\ UNCHANGED <<irr, isr, imr, icw1, icw2, state>>

\* Both chips continue the sequence that the MASTER's ICW1 announced.
AfterIcw3(c) == IF icw1["master"].ic4 = 1 THEN "ICW4" ELSE "READY"
AfterIcw2(c) == IF icw1["master"].sngl = 0 THEN "ICW3" ELSE AfterIcw3(c)

WriteIcw2(c, base) ==
    /\ state[c] = "ICW2"
    /\ icw2' = [icw2 EXCEPT ![c] = base]
    /\ state' = [state EXCEPT ![c] = AfterIcw2(c)]
    /\ UNCHANGED <<irr, isr, imr, icw1, ocw3>>

WriteIcw3(c) ==
    /\ state[c] = "ICW3"
    /\ state' = [state EXCEPT ![c] = AfterIcw3(c)]
    /\ UNCHANGED <<irr, isr, imr, icw1, icw2, ocw3>>

WriteIcw4(c) ==
    /\ state[c] = "ICW4"
    /\ state' = [state EXCEPT ![c] = "READY"]
    /\ UNCHANGED <<irr, isr, imr, icw1, icw2, ocw3>>

WriteMask(c, m) ==
    /\ state[c] = "READY"
    /\ imr' = [imr EXCEPT ![c] = m]
    /\ UNCHANGED <<irr, isr, icw1, icw2, ocw3, state>>
=============================================================================
