------------------------------ MODULE SvmIntr ------------------------------
(***************************************************************************)
(* The VM-exit loop (svm.c), the interrupt and exception state (vmm_intr.c)*)
(* and the injection block at the end of v3_handle_svm_exit                *)
(* (svm_handler.c), composed with the interrupt controller of PIC8259.     *)
(*                                                                         *)
(* The VMM thread takes one step per read or write of the shared PIC       *)
(* state, because host interrupts are enabled from v3_stgi to the next     *)
(* v3_clgi: a host interrupt handler (pass-through IRQ, keyboard, mouse,   *)
(* RTC tick) raises lines of the PIC between any two of those steps.  On   *)
(* one CPU such a handler runs to completion.                              *)
(*                                                                         *)
(* Compiled with the build's -O, master_irr &= ~bit in pic_begin_irq and   *)
(* both assignments of pic_lower_intr are a load, a bit clear and a store, *)
(* so a line raised in between is overwritten; the |= of pic_raise_intr    *)
(* and the slave's &= of pic_begin_irq are single instructions.            *)
(***************************************************************************)
EXTENDS PIC8259

CONSTANTS
    HostIrqs,    \* the IRQs host interrupt handlers raise
    Exceptions,  \* the exceptions exit handlers raise: records [num, valid]
    NoLine       \* stands for "no line selected"

ASSUME HostIrqsAssumption == HostIrqs \subseteq Irqs
ASSUME ExceptionsAssumption == Exceptions \subseteq [num : 0..31, valid : BOOLEAN]
ASSUME NoLineAssumption == NoLine \notin Chips \X Pins

VARIABLES
    pc,       \* where the VMM thread is
    excp,     \* intr_state.excp_*: the pending exceptions, at most one
    evinj,    \* EVENTINJ of the VMCB: the exceptions it holds, at most one
    vintr,    \* V_IRQ and V_INTR_VECTOR of the VMCB
    num,      \* the local irq of v3_handle_svm_exit
    saved,    \* the value a load-modify-store of an irr byte will store
    line,     \* ghost: the line whose vector this exit injected
    answered, \* ghost: the line this exit put in service or a device lowered
    raised,   \* ghost: the exceptions raised during this exit
    quiet     \* ghost: the devices have stopped raising lines

vmmVars == <<pc, excp, evinj, vintr, num, saved, line, answered, raised, quiet>>
vars == <<picVars, vmmVars>>

Locations == {"guest", "dispatch", "lowered", "pending", "type", "number",
              "begin", "begun", "entry", "failed", "invalid", "stacked"}
Stopped == {"failed", "invalid", "stacked"}

\* What the local saved holds outside a load-modify-store.
Unused == [chip |-> "master", lines |-> {}]

VmmInit ==
    /\ pc = "entry"
    /\ excp = {} /\ evinj = {} /\ raised = {}
    /\ vintr = [irq |-> FALSE, vector |-> 0]
    /\ num = 0
    /\ saved = Unused
    /\ line = NoLine /\ answered = NoLine
    /\ quiet = FALSE

Init == PicInit /\ VmmInit

\* The state the BIOS leaves: both chips ready, bases 0x08 and 0x70
\* (vmboot/rombios/rombios.c, 10091-10105).
BootedInit ==
    /\ irr = [c \in Chips |-> {}]
    /\ isr = [c \in Chips |-> {}]
    /\ imr = [c \in Chips |-> {}]
    /\ icw1 = [c \in Chips |-> [sngl |-> 0, ic4 |-> 1]]
    /\ icw2 = [c \in Chips |-> IF c = "master" THEN 8 ELSE 112]
    /\ ocw3 = [c \in Chips |-> 2]
    /\ state = [c \in Chips |-> "READY"]
    /\ VmmInit

-----------------------------------------------------------------------------
(* The guest and the processor. *)

\* VMRUN: the processor delivers EVENTINJ, whose field the exit clears.
Enter ==
    /\ pc = "entry" /\ pc' = "guest"
    /\ UNCHANGED <<picVars, excp, evinj, vintr, num, saved, line, answered, raised, quiet>>

\* The guest takes the virtual interrupt; the processor then clears V_IRQ.
TakeVirtualIntr ==
    /\ pc = "guest" /\ vintr.irq
    /\ vintr' = [vintr EXCEPT !.irq = FALSE]
    /\ UNCHANGED <<picVars, pc, excp, evinj, num, saved, line, answered, raised, quiet>>

\* The exit, and v3_update_time, in which the PIT may raise IRQ 0.  The
\* global interrupt flag is still clear.
VmExit ==
    /\ pc = "guest" /\ pc' = "dispatch"
    /\ evinj' = {} /\ raised' = {} /\ num' = 0
    /\ line' = NoLine /\ answered' = NoLine
    /\ \/ UNCHANGED picVars
       \/ 0 \in Irqs /\ ~quiet /\ RaiseIntr(0)
    /\ UNCHANGED <<excp, vintr, saved, quiet>>

-----------------------------------------------------------------------------
(* The exit handlers: what they do to the PIC and to the exception state.   *)

Dispatched == pc = "dispatch" /\ pc' = "pending"

\* An exit that touches neither: the host's own interrupts (VMEXIT_INTR), an
\* access to another port or register, PAUSE.
HandleOther ==
    /\ Dispatched
    /\ UNCHANGED <<picVars, excp, evinj, vintr, num, saved, line, answered, raised, quiet>>

\* A handler that fails ends the guest (run_state VM_ERROR): among others a
\* command word the PIC rejects, which is any OCW before it is READY and any
\* OCW2 that is not an end of interrupt.
HandleFails ==
    /\ pc = "dispatch" /\ pc' = "failed"
    /\ UNCHANGED <<picVars, excp, evinj, vintr, num, saved, line, answered, raised, quiet>>

\* OUT to one of the four ports of the PIC.
HandlePicWrite ==
    /\ Dispatched
    /\ \E c \in Chips :
          \/ \E w \in Icw1Words : WriteIcw1(c, w)
          \/ \E b \in Bases : WriteIcw2(c, b)
          \/ WriteIcw3(c)
          \/ WriteIcw4(c)
          \/ \E m \in Masks : WriteMask(c, m)
          \/ \E w \in Ocw3Words : WriteOcw3(c, w)
          \/ \E l \in Pins : SpecificEoi(c, l)
          \/ NonSpecificEoi(c)
    /\ UNCHANGED <<excp, evinj, vintr, num, saved, line, answered, raised, quiet>>

\* HLT with CPL 0: the guest waits by receiving a timer interrupt at once.
HandleHalt ==
    /\ Dispatched
    /\ 0 \in Irqs /\ RaiseIntr(0)
    /\ UNCHANGED <<excp, evinj, vintr, num, saved, line, answered, raised, quiet>>

\* A device raises its line from an I/O handler.
HandleRaise ==
    /\ Dispatched /\ ~quiet
    /\ \E i \in Irqs : RaiseIntr(i)
    /\ UNCHANGED <<excp, evinj, vintr, num, saved, line, answered, raised, quiet>>

\* v3_raise_exception, v3_raise_exception_with_error: a page fault, or #GP
\* for HLT or a register access with CPL > 0.
HandleException ==
    /\ pc = "dispatch"
    /\ \E e \in Exceptions :
          IF excp = {}
            THEN excp' = {e} /\ raised' = {e} /\ pc' = "pending"
            ELSE UNCHANGED <<excp, raised>> /\ pc' = "stacked"
    /\ UNCHANGED <<picVars, evinj, vintr, num, saved, line, answered, quiet>>

\* v3_lower_irq, called by a device's I/O handler: the load ...
HandleLower ==
    /\ pc = "dispatch" /\ pc' = "lowered"
    /\ \E i \in Irqs :
          /\ saved' = [chip |-> Chip(i), lines |-> irr[Chip(i)] \ {Pin(i)}]
          /\ answered' = <<Chip(i), Pin(i)>>
    /\ UNCHANGED <<picVars, excp, evinj, vintr, num, line, raised, quiet>>

StoreIrr ==
    /\ irr' = [irr EXCEPT ![saved.chip] = saved.lines]
    /\ saved' = Unused
    /\ UNCHANGED <<isr, imr, icw1, icw2, ocw3, state>>

\* ... and the store.
FinishLower ==
    /\ pc = "lowered" /\ pc' = "pending"
    /\ StoreIrr
    /\ UNCHANGED <<excp, evinj, vintr, num, line, answered, raised, quiet>>

-----------------------------------------------------------------------------
(* The injection block. *)

CheckPendingIrqOnly ==
    /\ pc = "pending"
    /\ pc' = IF IntrPending THEN "type" ELSE "entry"
    /\ UNCHANGED <<picVars, excp, evinj, vintr, num, saved, line, answered, raised, quiet>>

CheckPending ==
    /\ pc = "pending"
    /\ pc' = IF excp # {} \/ IntrPending THEN "type" ELSE "entry"
    /\ UNCHANGED <<picVars, excp, evinj, vintr, num, saved, line, answered, raised, quiet>>

\* v3_get_intr_type; an exception is injected in the same step, since no
\* other actor reads or writes what it touches.
InjectException ==
    /\ pc = "type" /\ excp # {}
    /\ pc' = "entry"
    /\ evinj' = excp /\ excp' = {}
    /\ UNCHANGED <<picVars, vintr, num, saved, line, answered, raised, quiet>>

GetType ==
    /\ pc = "type" /\ excp = {}
    /\ pc' = IF IntrPending THEN "number" ELSE "invalid"
    /\ UNCHANGED <<picVars, excp, evinj, vintr, num, saved, line, answered, raised, quiet>>

\* v3_get_intr_number and the writes of V_IRQ and V_INTR_VECTOR.  The scan
\* of the master and of the slave are one step: a raise between them has the
\* effect of a raise just after.
GetNumber ==
    /\ pc = "number" /\ pc' = "begin"
    /\ num' = IF IntrPending THEN GetIntrNumber ELSE 0
    /\ vintr' = [irq |-> TRUE, vector |-> num' % 256]
    /\ line' = IF IntrPending THEN <<SelectedChip, SelectedPin>> ELSE NoLine
    /\ UNCHANGED <<picVars, excp, evinj, saved, answered, raised, quiet>>

\* v3_injecting_intr, pic_begin_irq: its result is ignored.
BeginSlave ==
    /\ pc = "begin" /\ pc' = "entry"
    /\ BeginFinds(num) /\ BeginChip(num) = "slave"
    /\ BeginIrq(num)
    /\ answered' = <<"slave", num % 8>>
    /\ UNCHANGED <<excp, evinj, vintr, num, saved, line, raised, quiet>>

BeginSkips ==
    /\ pc = "begin" /\ pc' = "entry"
    /\ ~BeginFinds(num) \/ ~Begins(num)
    /\ UNCHANGED <<picVars, excp, evinj, vintr, num, saved, line, answered, raised, quiet>>

BeginMaster ==
    /\ pc = "begin" /\ pc' = "begun"
    /\ BeginFinds(num) /\ BeginChip(num) = "master" /\ Begins(num)
    /\ saved' = [chip |-> "master", lines |-> IrrAfterBegin(num)["master"]]
    /\ isr' = IsrAfterBegin(num)
    /\ answered' = <<"master", num % 8>>
    /\ UNCHANGED <<irr, imr, icw1, icw2, ocw3, state>>
    /\ UNCHANGED <<excp, evinj, vintr, num, line, raised, quiet>>

FinishBegin ==
    /\ pc = "begun" /\ pc' = "entry"
    /\ StoreIrr
    /\ UNCHANGED <<excp, evinj, vintr, num, line, answered, raised, quiet>>

-----------------------------------------------------------------------------
(* The host. *)

HostInterruptLowersToo ==
    /\ pc # "guest" /\ ~quiet
    /\ \E i \in HostIrqs : RaiseIntr(i) \/ LowerIntr(i)
    /\ UNCHANGED vmmVars

\* v3_deliver_irq and passthrough_irq_handler, or a keyboard, mouse or timer
\* event whose device raises its line.  Not while the guest runs: there the
\* processor exits first.
HostInterrupt ==
    /\ pc # "guest" /\ ~quiet
    /\ \E i \in HostIrqs : RaiseIntr(i)
    /\ UNCHANGED vmmVars

\* The environment of the liveness property only: from some point on no
\* device raises a line (HLT still raises IRQ 0).
GoQuiet ==
    /\ ~quiet /\ quiet' = TRUE
    /\ UNCHANGED <<picVars, pc, excp, evinj, vintr, num, saved, line, answered, raised>>

Thread ==
    \/ Enter \/ VmExit
    \/ HandleOther \/ HandleFails \/ HandlePicWrite
    \/ HandleHalt \/ HandleRaise \/ HandleException
    \/ HandleLower \/ FinishLower
    \/ CheckPending \/ InjectException \/ GetType \/ GetNumber
    \/ BeginSlave \/ BeginSkips \/ BeginMaster \/ FinishBegin

Next == Thread \/ TakeVirtualIntr \/ HostInterrupt

Spec == Init /\ [][Next]_vars

BootedSpec == BootedInit /\ [][Next]_vars

\* The VMM thread keeps running, and the host's timer keeps ending the guest's
\* turn with an exit (VMEXIT_INTR) that raises nothing.
LiveSpec ==
    /\ BootedInit /\ [][Next \/ GoQuiet]_vars
    /\ WF_vars(Thread) /\ SF_vars(HandleOther)

-----------------------------------------------------------------------------
(* Properties. *)

\* Type correctness of the PIC registers and of the exit loop's state.
TypeOK ==
    /\ irr \in [Chips -> SUBSET Pins]
    /\ isr \in [Chips -> SUBSET Pins]
    /\ imr \in [Chips -> SUBSET Pins]
    /\ icw1 \in [Chips -> [sngl : {0, 1}, ic4 : {0, 1}]]
    /\ icw2 \in [Chips -> 0..255]
    /\ ocw3 \in [Chips -> 0..3]
    /\ state \in [Chips -> States]
    /\ pc \in Locations
    /\ excp \in SUBSET Exceptions /\ evinj \in SUBSET Exceptions
    /\ raised \in SUBSET Exceptions
    /\ vintr \in [irq : BOOLEAN, vector : 0..255]
    /\ num \in 0..262
    /\ saved \in [chip : Chips, lines : SUBSET Pins]
    /\ line \in (Chips \X Pins) \union {NoLine}
    /\ answered \in (Chips \X Pins) \union {NoLine}
    /\ quiet \in BOOLEAN

\* The exit handler never reaches "Attempted to issue an invalid interrupt":
\* what v3_intr_pending saw is still there when v3_get_intr_type looks again,
\* although host interrupts ran in between.
NoInvalidInterrupt == pc # "invalid"

\* No exit handler finds an exception already pending ("currently not
\* implemented"): each exit injects the exception it raised.
NoStackedException == pc # "stacked"

\* The number the PIC reports is never -1 (the check svm_handler.c:405 leaves
\* out), and pic_begin_irq, whose result is ignored, always finds its range.
NumberIsProgrammed ==
    pc = "begin" => line # NoLine /\ num = icw2[line[1]] + line[2] /\ BeginFinds(num)

\* On entry EVENTINJ holds exactly the exception raised during this exit,
\* with its error code valid or not as it was raised, and nothing stays behind.
ExceptionInjected == pc = "entry" => evinj = raised /\ excp = {}

\* Vector ranges that do not overlap and start at a multiple of eight.
Programmed ==
    /\ \A c \in Chips : icw2[c] % 8 = 0
    /\ icw2["master"] # icw2["slave"]

\* A line whose vector was injected is in service, or it is still requested
\* and will be injected again; the latter only for a line of the master that
\* a higher line overtook between pic_get_intr_number and pic_begin_irq.
InjectedIsAccounted ==
    (pc = "entry" /\ line # NoLine /\ Programmed) =>
        \/ line[2] \in isr[line[1]]
        \/ /\ line[1] = "master"
           /\ line[2] \in Unmasked("master")
           /\ Highest(Unmasked("master")) > line[2]

\* The store that ends a load-modify-store of chip c's irr byte clears line p:
\* the line being put in service or lowered, and, against the intention of the
\* code, every line a host interrupt raised since the load.
StoreClears(c, p) ==
    pc \in {"lowered", "begun"} /\ saved.chip = c /\ p \notin saved.lines

\* Once the devices are quiet every requested line is put in service, or
\* lowered by its device, unless the guest masks it: no line of either chip
\* waits behind another for ever or leaves the request register unanswered.
\* The exception is a request made in the middle of a load-modify-store of its
\* chip's irr byte, in pic_begin_irq or pic_lower_intr, which the store loses.
RequestsServed ==
    \A c \in Chips, p \in Pins :
        (quiet /\ p \in irr[c] /\ ~StoreClears(c, p))
            ~> (answered = <<c, p>> \/ p \in imr[c] \/ pc \in Stopped)

=============================================================================
