------------------------------- MODULE Keyboard -------------------------------
(***************************************************************************)
(* The keyboard and mouse controller (devices/keyboard.c).                 *)
(*                                                                         *)
(* The guest reaches ports 60h and 64h through exits, handled by the VMM    *)
(* thread with host interrupts enabled; the host's keyboard and mouse       *)
(* interrupt handlers call key_event_handler and mouse_event_handler. On    *)
(* the one CPU an event runs to its end, but it may come between any two    *)
(* accesses of a handler. That matters in two places, which are split: a    *)
(* read takes its byte, marks the queue empty and clears the flags; and c1  *)
(* and c2 of port 64h change the status byte in a register and store it.    *)
(* The other writes change one flag each, or push; an event in the middle   *)
(* of a push leaves the queue full and flagged as either order does.        *)
(*                                                                         *)
(* A byte is known by its role: a scan code, an acknowledgement...          *)
(***************************************************************************)
EXTENDS Naturals

VARIABLES
    state,                \* of the onboard microcontroller
    mouse_state,
    mouse_needs_ack,
    mouse_done_after_ack,
    cmd_byte,             \* set of the flags that are set
    status_byte,          \* likewise
    output_queue,         \* the last byte pushed
    output_queue_len,
    reading,              \* how far a read of 60h, or a c1 or c2, has come
    data,                 \* the byte the read took
    copied,               \* the status byte that c1 or c2 will store
    unserved,             \* history: a keyboard interrupt was raised after the
                          \* last read of 60h took its byte
    window                \* history: where in a handler the last push came, if
                          \* the handler then stores over it
kbdVars == <<state, mouse_state, mouse_needs_ack, mouse_done_after_ack, cmd_byte, status_byte,
             output_queue, output_queue_len, reading, data, copied, unserved, window>>

bytes == <<output_queue, output_queue_len, window>>
queue == <<status_byte, bytes>>
mouse == <<mouse_state, mouse_needs_ack, mouse_done_after_ack>>
guest == <<reading, data, copied>>

States == {"NORMAL", "WRITING_CMD_BYTE", "TRANSMIT_PASSWD", "RESET",
           "WRITING_OUTPUT_PORT", "INJECTING_KEY", "INJECTING_MOUSE", "IN_MOUSE"}
Streams == {"STREAM1", "STREAM2", "STREAM3"}
Remotes == {"REMOTE1", "REMOTE2", "REMOTE3"}
MouseStates == Streams \cup Remotes
    \cup {"RESET1", "RESET2", "SAMPLE1", "DEVICE1", "STATUS1", "STATUS2", "STATUS3", "SETRES1"}
CmdFlags == {"INTR", "DISABLE", "MOUSE_DISABLE"}
StatusFlags == {"OUTPUT_BUFFER_FULL", "COMMAND_DATA_AVAIL", "ENABLED", "MOUSE_BUFFER_FULL"}
Bytes == {"zero", "key", "ack", "bat", "reply", "mouse", "resend"}

\* keyboard_reset_device.
KbdInit ==
    /\ state = "NORMAL"
    /\ mouse_state = "STREAM1"
    /\ mouse_needs_ack = FALSE /\ mouse_done_after_ack = FALSE
    /\ cmd_byte = {"INTR"}
    /\ status_byte = {"ENABLED"}
    /\ output_queue = "zero" /\ output_queue_len = 0
    /\ reading = "no" /\ data = "zero"
    /\ copied = {} /\ unserved = FALSE /\ window = "no"

(***************************************************************************)
(* The output queue. Every caller overwrites.                              *)
(***************************************************************************)

\* What is going on when a byte is pushed. After "len" and "flags" the read
\* that is going on, after "copy" the store of c1 or c2, overwrites a part.
Window ==
    IF reading \in {"len", "flags"} THEN reading
    ELSE IF reading = "copy" /\ "OUTPUT_BUFFER_FULL" \notin copied THEN "copy" ELSE "no"

PushToOutputQueue(value, flags) ==
    /\ output_queue' = value
    /\ output_queue_len' = 1
    /\ window' = Window
    /\ status_byte' = (status_byte \ {"COMMAND_DATA_AVAIL"})
                        \cup flags \cup {"OUTPUT_BUFFER_FULL"}

COMMAND == {"COMMAND_DATA_AVAIL"}
MOUSE == {"MOUSE_BUFFER_FULL"}
DATA == {}

(***************************************************************************)
(* Host events.                                                            *)
(***************************************************************************)

key_event_handler ==
    /\ "ENABLED" \in status_byte /\ "DISABLE" \notin cmd_byte
    /\ PushToOutputQueue("key", DATA)
    /\ unserved' = (unserved \/ "INTR" \in cmd_byte)
    /\ UNCHANGED <<state, mouse, cmd_byte, guest>>

\* The packet is kept for the mouse states; MOUSE_IRQ is raised in a stream.
mouse_event_handler ==
    /\ status_byte' = status_byte \cup MOUSE
    /\ UNCHANGED <<state, mouse, cmd_byte, bytes, guest, unserved>>

(***************************************************************************)
(* Reading port 60h.                                                       *)
(***************************************************************************)

\* The mouse bytes that a read pushes, by mouse_state: the next state and
\* whether the mouse is done.
MouseByte ==
    [m \in MouseStates \ {"SAMPLE1", "SETRES1"} |->
        CASE m = "RESET1" -> <<"RESET2", FALSE>>
          [] m = "RESET2" -> <<"STREAM1", TRUE>>
          [] m = "STREAM1" -> <<"STREAM2", FALSE>>
          [] m = "STREAM2" -> <<"STREAM3", FALSE>>
          [] m = "STREAM3" -> <<"STREAM1", TRUE>>
          [] m = "REMOTE1" -> <<"REMOTE2", FALSE>>
          [] m = "REMOTE2" -> <<"REMOTE3", FALSE>>
          [] m = "REMOTE3" -> <<"REMOTE1", TRUE>>
          [] m = "STATUS1" -> <<"STATUS2", FALSE>>
          [] m = "STATUS2" -> <<"STATUS3", FALSE>>
          [] m = "STATUS3" -> <<"STREAM1", TRUE>>
          [] m = "DEVICE1" -> <<"STREAM1", TRUE>>]

Done(d) == IF d THEN "NORMAL" ELSE "IN_MOUSE"

\* The acknowledgement is never counted as read.
MouseAckKept ==
    /\ mouse_needs_ack
    /\ state' = Done(mouse_done_after_ack)
    /\ UNCHANGED <<mouse, queue>>

\* mouse_read_input: the acknowledgement is in the queue already...
MouseAck ==
    /\ mouse_needs_ack
    /\ mouse_needs_ack' = FALSE
    /\ state' = Done(mouse_done_after_ack)
    /\ UNCHANGED <<mouse_state, mouse_done_after_ack, queue>>

\* ... else a byte of the answer or of the packet is pushed...
MouseAnswer ==
    /\ ~ mouse_needs_ack
    /\ mouse_state \in DOMAIN MouseByte
    /\ PushToOutputQueue("mouse", MOUSE)
    /\ mouse_state' = MouseByte[mouse_state][1]
    /\ state' = Done(MouseByte[mouse_state][2])
    /\ UNCHANGED <<mouse_needs_ack, mouse_done_after_ack>>

\* ... or there is none.
MouseNoData ==
    /\ ~ mouse_needs_ack
    /\ mouse_state \notin DOMAIN MouseByte
    /\ state' = "NORMAL"
    /\ UNCHANGED <<mouse, queue>>

mouse_read_input == MouseAck \/ MouseAnswer \/ MouseNoData

\* keyboard_read_input. The mouse fills the queue first...
ReadMouse ==
    /\ reading = "no" /\ state = "IN_MOUSE"
    /\ mouse_read_input
    /\ reading' = "take"
    /\ UNCHANGED <<cmd_byte, data, copied, unserved>>

\* ... PullFromOutputQueue takes the byte, or the last one again...
ReadTake ==
    /\ reading = "take" \/ (reading = "no" /\ state # "IN_MOUSE")
    /\ data' = output_queue
    /\ reading' = "len"
    /\ unserved' = FALSE
    /\ UNCHANGED <<state, mouse, cmd_byte, queue, copied>>

\* ... marks the queue empty...
ReadLen ==
    /\ reading = "len"
    /\ output_queue_len' = 0
    /\ reading' = "flags"
    /\ UNCHANGED <<state, mouse, cmd_byte, status_byte, output_queue, window, data, copied, unserved>>

\* ... clears the flags; and after the acknowledgement of a reset its result
\* is pushed.
ReadFlags ==
    /\ reading = "flags"
    /\ status_byte' = status_byte \ {"OUTPUT_BUFFER_FULL", "MOUSE_BUFFER_FULL", "COMMAND_DATA_AVAIL"}
    /\ IF state = "RESET" THEN reading' = "bat" /\ UNCHANGED data
       ELSE reading' = "no" /\ data' = "zero"
    /\ UNCHANGED <<state, mouse, cmd_byte, bytes, copied, unserved>>

ReadBat ==
    /\ reading = "bat"
    /\ PushToOutputQueue("bat", COMMAND)
    /\ state' = "NORMAL"
    /\ reading' = "no" /\ data' = "zero"
    /\ UNCHANGED <<mouse, cmd_byte, copied, unserved>>

Read == ReadMouse \/ ReadTake \/ ReadLen \/ ReadFlags \/ ReadBat

(***************************************************************************)
(* Writing port 64h: keyboard_write_command.                               *)
(***************************************************************************)

Guest == reading = "no" /\ UNCHANGED <<guest, unserved>>

\* 20, a1, a4, a9, aa, ab, af, c0, d0, e0: the reply is for the next read.
CommandReply ==
    /\ Guest
    /\ PushToOutputQueue("reply", COMMAND)
    /\ state' = "NORMAL"
    /\ UNCHANGED <<mouse, cmd_byte>>

\* 60, a5, d1, d2, d3, d4: the next byte on 60h is the argument.
CommandExpect(s) ==
    /\ Guest
    /\ state' = s
    /\ UNCHANGED <<mouse, cmd_byte, queue>>

\* a7, a8, ad, ae turn the devices off and on; a6 and the rest do nothing.
CommandFlags(flags) ==
    /\ Guest
    /\ cmd_byte' = flags
    /\ state' = "NORMAL"
    /\ UNCHANGED <<mouse, queue>>

\* The lower half of the status is not kept.
CommandCopyAll(upper) ==
    /\ reading = "no"
    /\ copied' = upper
    /\ reading' = "copy"
    /\ UNCHANGED <<state, mouse, cmd_byte, queue, data, unserved>>

\* c1 and c2 copy a half of the input port, which is INPUT_RAM, the bit of
\* ENABLED, over the upper half of the status: the status is read...
CommandCopy(upper) ==
    /\ reading = "no"
    /\ copied' = (status_byte \cap {"OUTPUT_BUFFER_FULL", "COMMAND_DATA_AVAIL"}) \cup upper
    /\ reading' = "copy"
    /\ UNCHANGED <<state, mouse, cmd_byte, queue, data, unserved>>

\* ... and stored.
CommandStore ==
    /\ reading = "copy"
    /\ status_byte' = copied
    /\ copied' = {}
    /\ state' = "NORMAL"
    /\ reading' = "no"
    /\ UNCHANGED <<mouse, cmd_byte, bytes, data, unserved>>

keyboard_write_command ==
    \/ CommandReply
    \/ \E s \in States \ {"NORMAL", "RESET"} : CommandExpect(s)
    \/ \E flags \in {cmd_byte, cmd_byte \cup {"MOUSE_DISABLE"}, cmd_byte \ {"MOUSE_DISABLE"},
                     cmd_byte \cup {"DISABLE"}, cmd_byte \ {"DISABLE"}} : CommandFlags(flags)
    \/ \E upper \in {{}, {"ENABLED"}} : CommandCopy(upper)
    \/ CommandStore

(***************************************************************************)
(* Writing port 60h: keyboard_write_output.                                *)
(***************************************************************************)

WriteCmdByte ==
    /\ state = "WRITING_CMD_BYTE"
    /\ cmd_byte' \in SUBSET CmdFlags
    /\ state' = "NORMAL"
    /\ UNCHANGED <<mouse, queue>>

\* The output port is only read back, and the injected mouse byte is ignored.
WriteIgnored ==
    /\ state \in {"WRITING_OUTPUT_PORT", "INJECTING_MOUSE"}
    /\ state' = "NORMAL"
    /\ UNCHANGED <<mouse, cmd_byte, queue>>

WriteInjectKey ==
    /\ state = "INJECTING_KEY"
    /\ PushToOutputQueue("key", COMMAND)
    /\ state' = "NORMAL"
    /\ UNCHANGED <<mouse, cmd_byte>>

\* Password characters up to the null one.
WritePasswd ==
    /\ state = "TRANSMIT_PASSWD"
    /\ state' \in {"TRANSMIT_PASSWD", "NORMAL"}
    /\ UNCHANGED <<mouse, cmd_byte, queue>>

\* The commands the mouse acknowledges: whether an acknowledgement is still to
\* be read, whether that is all, and the new state.
MouseCommands ==
    {<<FALSE, FALSE, "STREAM1">>}                              \* fe
    \cup {<<TRUE, TRUE, m>> : m \in {"STREAM1", "REMOTE1"}}    \* e6..., f0
    \cup {<<TRUE, FALSE, m>> :                                 \* f3, f2, eb, e9, e8
             m \in {"SAMPLE1", "DEVICE1", "REMOTE1", "STATUS1", "SETRES1"}}

\* mouse_write_output.
MouseCommand ==
    /\ mouse_state \in Streams \cup Remotes
    /\ \E c \in MouseCommands :
           /\ mouse_needs_ack' = c[1]
           /\ mouse_done_after_ack' = c[2]
           /\ mouse_state' = c[3]
    /\ PushToOutputQueue("ack", MOUSE)
    /\ UNCHANGED state

\* ff: there is no mouse.
MouseReset ==
    /\ mouse_state \in Streams \cup Remotes
    /\ PushToOutputQueue("resend", MOUSE)
    /\ state' = "NORMAL"
    /\ UNCHANGED mouse

\* An unknown command, or any while a parameter or an answer is due.
MouseIgnored ==
    /\ state' = "NORMAL"
    /\ UNCHANGED <<mouse, queue>>

WriteMouse ==
    /\ state = "IN_MOUSE"
    /\ MouseCommand \/ MouseReset \/ MouseIgnored
    /\ UNCHANGED cmd_byte

\* The acknowledgement is not pushed.
WriteResetSilent ==
    /\ state = "NORMAL"
    /\ state' = "RESET"
    /\ UNCHANGED <<mouse, cmd_byte, queue>>

\* A command to the keyboard itself: reset...
WriteReset ==
    /\ state = "NORMAL"
    /\ PushToOutputQueue("ack", COMMAND)
    /\ state' = "RESET"
    /\ UNCHANGED <<mouse, cmd_byte>>

\* ... scanning on or off...
WriteScanning ==
    /\ state = "NORMAL"
    /\ PushToOutputQueue("ack", COMMAND)
    /\ UNCHANGED <<state, mouse, cmd_byte>>

\* ... known but ignored, as is every byte while a reset is in progress...
WriteUnhandled ==
    /\ state \in {"NORMAL", "RESET"}
    /\ UNCHANGED <<state, mouse, cmd_byte, queue>>

\* ... or unknown, which sets the buffer's flag without a byte.
WriteUnknown ==
    /\ state = "NORMAL"
    /\ status_byte' = status_byte \cup {"OUTPUT_BUFFER_FULL"}
    /\ UNCHANGED <<state, mouse, cmd_byte, bytes>>

keyboard_write_output ==
    /\ Guest
    /\ \/ WriteCmdByte \/ WriteIgnored \/ WriteInjectKey \/ WritePasswd \/ WriteMouse
       \/ WriteReset \/ WriteScanning \/ WriteUnhandled \/ WriteUnknown

KbdNext ==
    \/ key_event_handler
    \/ mouse_event_handler
    \/ Read
    \/ keyboard_write_command
    \/ keyboard_write_output

KbdSpec == KbdInit /\ [][KbdNext]_kbdVars

(***************************************************************************)
(* Properties.                                                             *)
(***************************************************************************)

\* The state is one the C types and enumerations allow.
KbdTypeOK ==
    /\ state \in States /\ mouse_state \in MouseStates
    /\ mouse_needs_ack \in BOOLEAN /\ mouse_done_after_ack \in BOOLEAN
    /\ cmd_byte \subseteq CmdFlags /\ status_byte \subseteq StatusFlags
    /\ output_queue \in Bytes /\ output_queue_len \in 0..1
    /\ reading \in {"no", "take", "len", "flags", "bat", "copy"} /\ data \in Bytes
    /\ copied \subseteq StatusFlags
    /\ unserved \in BOOLEAN /\ window \in {"no", "len", "flags", "copy"}

\* A keyboard interrupt that no read has answered finds the queue marked full
\* and, for a guest that polls port 64h, the flag set, whatever was read and
\* written meanwhile. A key event in the middle of a handler is not undone but
\* for this: between taking the old byte and marking the queue empty it loses
\* both marks; between that and clearing the flags, or between the load and the
\* store of c1 or c2, it loses the flag alone; the next push has both again.
InterruptFindsData ==
    reading = "no" /\ unserved =>
       /\ window # "len" => output_queue_len = 1
       /\ window = "no" => "OUTPUT_BUFFER_FULL" \in status_byte

\* A reset that was acknowledged has its acknowledgement, or what overwrote it,
\* still to be read: the result is never left unpushed behind an empty queue.
ResetHasReply == reading = "no" /\ state = "RESET" => output_queue_len = 1

\* Bytes left to read before the mouse gives the port back.
AnswerLeft ==
    (IF mouse_needs_ack THEN 4 ELSE 0)
    + CASE mouse_state \in {"STREAM1", "REMOTE1", "STATUS1"} -> 3
        [] mouse_state \in {"STREAM2", "REMOTE2", "STATUS2", "RESET1"} -> 2
        [] OTHER -> 1

\* A guest that only reads gets out of the mouse's answer: every read of 60h
\* while IN_MOUSE brings the end nearer or is the last.
ReadsEnd ==
    [][reading = "no" /\ reading' = "take" =>
          state' = "NORMAL" \/ (state' = "IN_MOUSE" /\ AnswerLeft' < AnswerLeft)]_kbdVars
=============================================================================
