------------------------------- MODULE Pit8254 -------------------------------
(***************************************************************************)
(* The 8254 interval timer (devices/8254.c), driven by v3_update_time once  *)
(* per exit and programmed by the guest through ports 0x40 to 0x43.         *)
(*                                                                         *)
(* A guest write and the timer update are both steps of the VMM thread; a  *)
(* guest reaches a port only through an exit, so an update comes between   *)
(* any two port accesses, and the guest may let any number of them pass.   *)
(*                                                                         *)
(* oscillations (uint_t) is far below 2^32: a step lasts one guest entry.  *)
(***************************************************************************)
EXTENDS Integers, FiniteSets

CONSTANTS
    BYTE,        \* values of a byte, 256 in the code
    pit_reload,  \* CPU cycles per oscillation of the crystal
    LongMode,    \* __V3_64BIT__: which do_divll is compiled
    Channels,    \* the channels in use, out of 0..2
    Cycles,      \* CPU cycles that one guest entry may take
    Commands,    \* bytes the guest may write to the command port
    BatchLimit   \* the longest batch BatchIsStepwise compares

WORD == BYTE * BYTE

NOT_RUNNING == 0
PENDING == 1
RUNNING == 2

NOT_WAITING == 0
WAITING_LOBYTE == 1
WAITING_HIBYTE == 2

LATCH_COUNT == 0
LOBYTE_ONLY == 1
HIBYTE_ONLY == 2
LOBYTE_HIBYTE == 3

IRQ_ON_TERM_CNT == 0
ONE_SHOT == 1
RATE_GEN == 2
SQR_WAVE == 3
\* SW_STROBE and HW_STROBE are 4 and 5; the op_mode field has three bits.

ASSUME PitAssumption ==
    /\ BYTE \in Nat /\ BYTE > 1
    /\ pit_reload \in Nat /\ pit_reload > 0
    /\ LongMode \in BOOLEAN
    /\ 0 \in Channels /\ Channels \subseteq 0..2
    /\ BatchLimit \in Nat
    /\ Cycles \subseteq Nat \ {0}
    /\ Commands \subseteq [channel : 0..3, access_mode : 0..3, op_mode : 0..7]

VARIABLES
    pit_counter, \* cycles to the next oscillation
    ch,          \* the struct channel of every channel
    irq0,        \* the last update raised IRQ 0
    vm,          \* "running", "stopped" by an exit that failed, or "fault": the
                 \* VMM itself divided by zero
    owed,        \* history: cycles passed and not turned into oscillations
    fired,       \* history: whether channel 0 raised IRQ 0 for the count it was
                 \* given last: "no", "yes", or "again" when a latch command has
                 \* lowered the output since
    half         \* history: the latched count whose low byte was read, or None
pitVars == <<pit_counter, ch, irq0, vm, owed, fired, half>>

None == -1

Channel == [access_mode : 0..3, access_state : 0..2, run_state : 0..2,
            op_mode : 0..7, counter : 0..(WORD - 1), reload_value : 0..(WORD - 1),
            latched_value : 0..(WORD - 1), latched : BOOLEAN,
            read_msb : BOOLEAN, output_pin : 0..1]

init_channel ==
    [access_mode |-> 0, access_state |-> NOT_WAITING, run_state |-> NOT_RUNNING,
     op_mode |-> 0, counter |-> 0, reload_value |-> 0, latched_value |-> 0,
     latched |-> FALSE, read_msb |-> FALSE, output_pin |-> 0]

PitInit ==
    /\ pit_counter = pit_reload
    /\ ch = [c \in Channels |-> init_channel]
    /\ irq0 = FALSE
    /\ vm = "running"
    /\ owed = 0
    /\ fired = "no"
    /\ half = [c \in Channels |-> None]

(***************************************************************************)
(* Time.                                                                   *)
(***************************************************************************)

\* The loop of the 32 bit do_divll: it subtracts while n > base, so a multiple
\* of the base leaves a remainder of base.
SubtractLoop[n \in Nat] ==
    IF n > pit_reload
    THEN [num |-> SubtractLoop[n - pit_reload].num + 1, rem |-> SubtractLoop[n - pit_reload].rem]
    ELSE [num |-> 0, rem |-> n]

\* do_divll leaves the quotient in its argument and returns the remainder; the
\* 64 bit build divides.
do_divll(n) ==
    IF LongMode THEN [num |-> n \div pit_reload, rem |-> n % pit_reload]
    ELSE SubtractLoop[n]

\* The oscillation that ended the counter is not added to the quotient.
OscillationsLess(c) ==
    IF pit_counter > c THEN 0
    ELSE IF c - pit_counter > pit_reload THEN do_divll(c - pit_counter).num
    ELSE 1

\* Oscillations of the crystal in c cycles, the first one when the counter is up.
Oscillations(c) ==
    IF pit_counter > c THEN 0
    ELSE IF c - pit_counter > pit_reload THEN 1 + do_divll(c - pit_counter).num
    ELSE 1

\* What is left of the cycles goes off the counter.
PitCounterAt(c) ==
    IF pit_counter > c THEN pit_counter - c
    ELSE IF c - pit_counter > pit_reload THEN pit_reload - do_divll(c - pit_counter).rem
    ELSE pit_reload - (c - pit_counter)

\* The count that is loaded: a square wave counts by two and needs an even one.
ReloadCount(k) ==
    IF k.op_mode = SQR_WAVE THEN k.reload_value - (k.reload_value % 2) ELSE k.reload_value

\* The channel as handle_crystal_tics finds it, after loading a pending count.
Loaded(k) ==
    IF k.run_state = PENDING
    THEN [k EXCEPT !.counter = ReloadCount(k), !.run_state = RUNNING]
    ELSE k

\* Counts that n oscillations take off: loading takes one oscillation.
Counts(k, n) ==
    (IF k.run_state = PENDING THEN n - 1 ELSE n) * (IF k.op_mode = SQR_WAVE THEN 2 ELSE 1)

\* The counter reaches zero within n oscillations.
Terminal(k, n) == k.run_state # NOT_RUNNING /\ Loaded(k).counter <= Counts(k, n)

\* The new period forgets the oscillations left over.
RestartLate(k, n) == ReloadCount(k)

\* The counter after one terminal count or more.
Restart(k, n) == ReloadCount(k) - ((Counts(k, n) - Loaded(k).counter) % ReloadCount(k))

\* The output rises at every terminal count.
PinAfterAlways(k) == IF k.op_mode = SQR_WAVE THEN 1 - k.output_pin ELSE 0

\* The output pin after a terminal count, and whether handle_crystal_tics returns 1.
PinAfter(k) ==
    CASE k.op_mode \in {IRQ_ON_TERM_CNT, ONE_SHOT} -> 1
      [] k.op_mode = SQR_WAVE -> 1 - k.output_pin
      [] OTHER -> k.output_pin
OutputChanged(k) ==
    \/ k.op_mode \in {IRQ_ON_TERM_CNT, ONE_SHOT} /\ k.output_pin = 0
    \/ k.op_mode = RATE_GEN
    \/ k.op_mode = SQR_WAVE /\ PinAfter(k) = 1

handle_crystal_tics(k, n) ==
    IF k.run_state = NOT_RUNNING THEN k
    ELSE IF ~ Terminal(k, n)
    THEN [Loaded(k) EXCEPT !.counter = Loaded(k).counter - Counts(k, n)]
    ELSE [Loaded(k) EXCEPT !.counter = Restart(k, n), !.output_pin = PinAfter(k)]

\* pit_update_time, the part that every update runs.
Advance(c) ==
    /\ vm = "running"
    /\ pit_counter' = PitCounterAt(c)
    /\ owed' = owed + c - Oscillations(c) * pit_reload
    /\ UNCHANGED half

\* No oscillation yet.
UpdateEarly(c) ==
    /\ Oscillations(c) = 0
    /\ Advance(c)
    /\ irq0' = FALSE
    /\ UNCHANGED <<ch, vm, fired>>

\* Channel 0 counts; only channel 0 is given the oscillations.
UpdateTics(c) ==
    /\ Oscillations(c) > 0
    /\ ~ (Terminal(ch[0], Oscillations(c)) /\ ReloadCount(ch[0]) = 0)
    /\ Advance(c)
    /\ ch' = [ch EXCEPT ![0] = handle_crystal_tics(ch[0], Oscillations(c))]
    /\ irq0' = (Terminal(ch[0], Oscillations(c)) /\ OutputChanged(ch[0]))
    /\ fired' = IF irq0' THEN "yes" ELSE fired
    /\ UNCHANGED vm

\* A terminal count with a zero reload value: oscillations / reload_val faults.
UpdateFault(c) ==
    /\ Terminal(ch[0], Oscillations(c))
    /\ Oscillations(c) > 0
    /\ ReloadCount(ch[0]) = 0
    /\ Advance(c)
    /\ vm' = "fault"
    /\ ch' = [ch EXCEPT ![0] = [Loaded(@) EXCEPT !.counter = 0]]
    /\ irq0' = FALSE
    /\ UNCHANGED fired

UpdateTime == \E c \in Cycles : UpdateEarly(c) \/ UpdateTics(c) \/ UpdateFault(c)

(***************************************************************************)
(* The ports.                                                              *)
(***************************************************************************)

\* Every write starts the count.
StartedAlways(k) == PENDING

\* A write starts the count unless a rate generator is running.
Started(k) ==
    IF k.op_mode # RATE_GEN \/ k.run_state # RUNNING THEN PENDING ELSE k.run_state

\* The reload value after a byte. The low byte is a signed char, so one of
\* BYTE \div 2 or more sets all of the high byte.
WithHigh(k, val) == (k.reload_value % BYTE) + BYTE * val
WithLow(k, val) ==
    IF val >= BYTE \div 2 THEN (WORD - BYTE) + val
    ELSE (k.reload_value - (k.reload_value % BYTE)) + val

\* The output pin that programming a mode sets.
ModePin(op) == IF op = IRQ_ON_TERM_CNT THEN 0 ELSE 1

handle_channel_write(k, val) ==
    IF k.access_state = WAITING_HIBYTE
    THEN [k EXCEPT !.reload_value = WithHigh(k, val),
                   !.run_state = Started(k),
                   !.access_state = IF k.access_mode = LOBYTE_HIBYTE
                                    THEN WAITING_LOBYTE ELSE @,
                   !.output_pin = ModePin(k.op_mode)]
    ELSE IF k.access_mode = LOBYTE_HIBYTE
    THEN [k EXCEPT !.reload_value = WithLow(k, val),
                   !.access_state = WAITING_HIBYTE,
                   !.output_pin = ModePin(k.op_mode)]
    ELSE [k EXCEPT !.reload_value = WithLow(k, val),
                   !.run_state = Started(k),
                   !.output_pin = ModePin(k.op_mode)]

\* pit_write_channel. The port is refused before the first command.
WriteChannel(c, val) ==
    /\ vm = "running"
    /\ IF ch[c].access_state = NOT_WAITING
       THEN vm' = "stopped" /\ UNCHANGED <<ch, fired>>
       ELSE /\ ch' = [ch EXCEPT ![c] = handle_channel_write(@, val)]
            /\ fired' = IF c = 0 THEN "no" ELSE fired
            /\ UNCHANGED vm
    /\ irq0' = FALSE
    /\ UNCHANGED <<pit_counter, owed, half>>

\* pit_read_channel: the bytes of the latched count, or of the running one.
ReadChannel(c) ==
    /\ vm = "running"
    /\ ch' = [ch EXCEPT ![c].read_msb = ~ @,
                        ![c].latched = @ /\ ~ ch[c].read_msb]
    /\ half' = [half EXCEPT ![c] = IF ch[c].latched /\ ~ ch[c].read_msb
                                   THEN ch[c].latched_value ELSE None]
    /\ irq0' = FALSE
    /\ UNCHANGED <<pit_counter, vm, owed, fired>>

\* A second latch command replaces a count that is being read.
LatchedAgain(k, cmd) ==
    IF cmd.access_mode = LATCH_COUNT
    THEN [k EXCEPT !.latched_value = k.counter, !.latched = TRUE]
    ELSE k

\* The latch command keeps a count that is latched already.
Latched(k, cmd) ==
    IF cmd.access_mode = LATCH_COUNT /\ ~ k.latched
    THEN [k EXCEPT !.latched_value = k.counter, !.latched = TRUE]
    ELSE k

\* handle_channel_cmd: every command, a latch too, sets both modes.
handle_channel_cmd(k, cmd) ==
    [Latched(k, cmd) EXCEPT
        !.op_mode = cmd.op_mode,
        !.access_mode = cmd.access_mode,
        !.access_state = CASE cmd.access_mode = LATCH_COUNT -> @
                           [] cmd.access_mode = HIBYTE_ONLY -> WAITING_HIBYTE
                           [] OTHER -> WAITING_LOBYTE,
        !.output_pin = IF cmd.op_mode \in 0..SQR_WAVE THEN ModePin(cmd.op_mode) ELSE @]

\* pit_write_command. Strobe modes and the read back command are refused, the
\* former after the channel has been changed.
WriteCommand(cmd) ==
    /\ vm = "running"
    /\ IF cmd.channel \notin Channels
       THEN cmd.channel = 3 /\ vm' = "stopped" /\ UNCHANGED <<ch, fired, half>>
       ELSE LET c == cmd.channel IN
            /\ ch' = [ch EXCEPT ![c] = handle_channel_cmd(@, cmd)]
            /\ fired' = IF c # 0 THEN fired
                        ELSE IF cmd.access_mode # LATCH_COUNT THEN "no"
                        ELSE IF fired = "yes" /\ cmd.op_mode = IRQ_ON_TERM_CNT THEN "again"
                        ELSE fired
            /\ half' = [half EXCEPT ![c] = IF ch[c].latched THEN @ ELSE None]
            /\ vm' = IF cmd.op_mode \in 0..SQR_WAVE THEN vm ELSE "stopped"
    /\ irq0' = FALSE
    /\ UNCHANGED <<pit_counter, owed>>

PitNext ==
    \/ UpdateTime
    \/ \E c \in Channels : ReadChannel(c) \/ \E val \in 0..(BYTE - 1) : WriteChannel(c, val)
    \/ \E cmd \in Commands : WriteCommand(cmd)

PitSpec == PitInit /\ [][PitNext]_pitVars

\* The guest runs as long as the VM does, and every entry ends in an update.
PitFairSpec == PitSpec /\ WF_pitVars(UpdateTime)

(***************************************************************************)
(* Properties.                                                             *)
(***************************************************************************)

\* The state stays within the widths of the C fields.
PitTypeOK ==
    /\ pit_counter \in 0..pit_reload
    /\ ch \in [Channels -> Channel]
    /\ irq0 \in BOOLEAN /\ fired \in {"no", "yes", "again"}
    /\ vm \in {"running", "stopped", "fault"}
    /\ owed \in Int
    /\ half \in [Channels -> {None} \cup 0..(WORD - 1)]

\* pit_update_time neither loses nor invents guest time: the cycles that have
\* not become oscillations are exactly those the counter has gone through,
\* however the exits cut the time up and whichever do_divll is compiled.
TimeConserved == owed = pit_reload - pit_counter

\* A running channel 0 never rests on a zero count, so it always reaches its
\* next terminal count (handle_crystal_tics).
CounterAlive == vm # "fault" /\ ch[0].run_state = RUNNING => ch[0].counter > 0

\* Channel 0 runs in a mode handle_crystal_tics can serve, and only after a
\* command opened the port: the strobe modes stop the VM before any update.
ServedMode ==
    vm = "running" =>
        \A c \in Channels :
            /\ ch[c].op_mode \in 0..SQR_WAVE
            /\ ch[c].run_state # NOT_RUNNING => ch[c].access_state # NOT_WAITING

\* In mode 0 a count interrupts once: after IRQ 0 the channel stays silent,
\* whatever time passes, until the guest programs it again.  A latch command
\* programs nothing, but handle_channel_cmd writes the mode for it too and
\* lowers the output: each one lets the same count interrupt once more.
OneInterruptPerCount ==
    [][irq0' /\ ch[0].op_mode = IRQ_ON_TERM_CNT => fired # "yes"]_pitVars

\* A latched count that the guest has begun to read is the one it goes on
\* reading, whatever updates, writes and further latch commands come between.
LatchCoherent ==
    \A c \in Channels : half[c] # None =>
        ch[c].latched /\ ch[c].read_msb /\ ch[c].latched_value = half[c]

\* n oscillations, delivered one update at a time.
OneByOne(k, n) ==
    LET after[i \in 0..n] == IF i = 0 THEN k ELSE handle_crystal_tics(after[i - 1], 1)
    IN after[n]

\* handle_crystal_tics on a batch leaves the counter that single oscillations
\* leave, so it does not matter to the count how exits group them.
BatchIsStepwise ==
    (vm = "running" /\ ReloadCount(ch[0]) > 0) =>
        \A n \in 1..BatchLimit :
            handle_crystal_tics(ch[0], n).counter = OneByOne(ch[0], n).counter

\* A rate generator that keeps running keeps interrupting, even if the guest
\* keeps writing new counts to it: such writes do not restart the count.
RateGenTicks ==
    <>[](vm = "running" /\ ch[0].op_mode = RATE_GEN /\ ch[0].run_state # NOT_RUNNING)
        => []<>irq0

=============================================================================
