---------------------------- MODULE DeviceProofs ----------------------------
(***************************************************************************)
(* Proofs about two devices that share no state.                           *)
(*                                                                         *)
(* Keyboard: the controller with host events in the middle of a read and   *)
(* of a copy to the status byte.                                           *)
(*                                                                         *)
(* Cdrom: the drive for every block size, byte count, access length, disc  *)
(* and packet.                                                             *)
(***************************************************************************)
EXTENDS Keyboard, Cdrom, TLAPS

-----------------------------------------------------------------------------
(* The keyboard *)

\* What an interrupt that no read has answered finds, also in the middle of a
\* handler: what the handler is still to overwrite is what the window says.
Found ==
    /\ window # "len" => output_queue_len = 1
    /\ window = "no" => "OUTPUT_BUFFER_FULL" \in status_byte
    /\ reading = "len" => window = "len"
    /\ reading = "flags" => window \in {"len", "flags"}
    /\ reading = "copy" /\ window = "no" => "OUTPUT_BUFFER_FULL" \in copied

KbdInv ==
    /\ KbdTypeOK
    /\ ResetHasReply
    /\ unserved => Found

\* keyboard_reset_device leaves nothing to read and nothing due.
LEMMA KbdInitHolds == KbdInit => KbdInv
<1> SUFFICES ASSUME KbdInit PROVE KbdInv
  OBVIOUS
<1>1. /\ state = "NORMAL" /\ mouse_state = "STREAM1" /\ cmd_byte = {"INTR"} /\ status_byte = {"ENABLED"}
      /\ output_queue = "zero" /\ output_queue_len = 0 /\ reading = "no" /\ data = "zero"
      /\ mouse_needs_ack = FALSE /\ mouse_done_after_ack = FALSE /\ unserved = FALSE
      /\ copied = {} /\ window = "no"
  BY Zenon DEF KbdInit
<1>2. KbdTypeOK
  <2>1. output_queue_len \in 0..1
    BY <1>1
  <2>2. cmd_byte \subseteq CmdFlags /\ status_byte \subseteq StatusFlags
    BY <1>1, Zenon DEF CmdFlags, StatusFlags
  <2> QED BY <1>1, <2>1, <2>2, Zenon DEF KbdTypeOK, States, MouseStates, Streams, Bytes
<1> QED BY <1>1, <1>2, Zenon DEF KbdInv, ResetHasReply

\* A push leaves a byte and its flag, one of the flags the code knows, and, if the
\* handler it comes in the middle of stores over it, the window that says so.
LEMMA PushFacts ==
    ASSUME KbdTypeOK, NEW value \in Bytes, NEW flags \in SUBSET {"COMMAND_DATA_AVAIL", "MOUSE_BUFFER_FULL"},
           PushToOutputQueue(value, flags)
    PROVE  /\ output_queue' \in Bytes /\ output_queue_len' = 1 /\ output_queue_len' \in 0..1
           /\ status_byte' \subseteq StatusFlags /\ "OUTPUT_BUFFER_FULL" \in status_byte'
           /\ window' \in {"no", "len", "flags", "copy"}
           /\ reading \in {"len", "flags"} => window' = reading
           /\ reading \notin {"len", "flags", "copy"} => window' = "no"
           /\ reading = "copy" /\ window' = "no" => "OUTPUT_BUFFER_FULL" \in copied
<1>1. /\ output_queue' \in Bytes /\ output_queue_len' = 1 /\ output_queue_len' \in 0..1
      /\ status_byte' \subseteq StatusFlags /\ "OUTPUT_BUFFER_FULL" \in status_byte'
  BY DEF PushToOutputQueue, KbdTypeOK, StatusFlags
<1>2. window' = Window
  BY Zenon DEF PushToOutputQueue
<1> QED BY <1>1, <1>2, Zenon DEF Window

\* The tables of the mouse lead to states of the mouse.
LEMMA MouseFacts ==
    /\ \A m \in DOMAIN MouseByte : MouseByte[m][1] \in MouseStates /\ MouseByte[m][2] \in BOOLEAN
    /\ \A c \in MouseCommands : c[1] \in BOOLEAN /\ c[2] \in BOOLEAN /\ c[3] \in MouseStates
    /\ \A d \in BOOLEAN : Done(d) \in {"NORMAL", "IN_MOUSE"}
<1>1. \A m \in DOMAIN MouseByte : MouseByte[m][1] \in MouseStates /\ MouseByte[m][2] \in BOOLEAN
  BY ZenonT(30) DEF MouseByte, MouseStates, Streams, Remotes
<1>2. \A c \in MouseCommands : c[1] \in BOOLEAN /\ c[2] \in BOOLEAN /\ c[3] \in MouseStates
  <2> SUFFICES ASSUME NEW c \in MouseCommands PROVE c[1] \in BOOLEAN /\ c[2] \in BOOLEAN /\ c[3] \in MouseStates
    OBVIOUS
  <2>1. PICK a \in BOOLEAN, b \in BOOLEAN, m \in MouseStates : c = <<a, b, m>>
    BY Zenon DEF MouseCommands, MouseStates, Streams, Remotes
  <2> QED BY <2>1
<1>3. \A d \in BOOLEAN : Done(d) \in {"NORMAL", "IN_MOUSE"}
  BY DEF Done
<1> QED BY <1>1, <1>2, <1>3

\* A scan code is in the queue with its flag, whatever was there.
LEMMA KeyEventStep == KbdInv /\ key_event_handler => KbdInv'
<1> SUFFICES ASSUME KbdInv, key_event_handler PROVE KbdInv'
  OBVIOUS
<1>1. /\ output_queue' \in Bytes /\ output_queue_len' = 1 /\ output_queue_len' \in 0..1
      /\ status_byte' \subseteq StatusFlags /\ "OUTPUT_BUFFER_FULL" \in status_byte'
      /\ window' \in {"no", "len", "flags", "copy"}
      /\ reading \in {"len", "flags"} => window' = reading
      /\ reading = "copy" /\ window' = "no" => "OUTPUT_BUFFER_FULL" \in copied
  <2>1. PushToOutputQueue("key", DATA) /\ DATA \in SUBSET {"COMMAND_DATA_AVAIL", "MOUSE_BUFFER_FULL"}
        /\ "key" \in Bytes /\ KbdTypeOK
    BY Zenon DEF KbdInv, key_event_handler, DATA, Bytes
  <2> QED BY <2>1, PushFacts, Zenon
<1>2. /\ unserved' = (unserved \/ "INTR" \in cmd_byte)
      /\ UNCHANGED <<state, mouse_state, mouse_needs_ack, mouse_done_after_ack, cmd_byte, reading, data, copied>>
  BY DEF key_event_handler, mouse, guest
<1>3. KbdTypeOK'
  BY <1>1, <1>2 DEF KbdInv, KbdTypeOK
<1>4. Found'
  BY <1>1, <1>2, Zenon DEF Found
<1>5. ResetHasReply'
  BY <1>1, Zenon DEF ResetHasReply
<1> QED BY <1>3, <1>4, <1>5, Zenon DEF KbdInv

\* A movement of the mouse takes no byte and no flag away.
LEMMA MouseEventStep == KbdInv /\ mouse_event_handler => KbdInv'
BY DEF KbdInv, KbdTypeOK, Found, ResetHasReply, mouse_event_handler, mouse, bytes, guest, MOUSE, StatusFlags

\* The mouse fills the queue or leaves it.
LEMMA ReadMouseStep == KbdInv /\ ReadMouse => KbdInv'
<1> SUFFICES ASSUME KbdInv, ReadMouse PROVE KbdInv'
  OBVIOUS
<1>1. reading = "no" /\ reading' = "take" /\ UNCHANGED <<cmd_byte, data, copied, unserved>>
  BY Zenon DEF ReadMouse
<1>2. /\ state' \in States /\ mouse_state' \in MouseStates
      /\ mouse_needs_ack' \in BOOLEAN /\ mouse_done_after_ack' \in BOOLEAN
      /\ status_byte' \subseteq StatusFlags /\ output_queue' \in Bytes /\ output_queue_len' \in 0..1
      /\ window' \in {"no", "len", "flags", "copy"}
      /\ \/ output_queue_len' = 1 /\ "OUTPUT_BUFFER_FULL" \in status_byte'
         \/ UNCHANGED <<output_queue_len, window, status_byte>>
  <2>1. CASE MouseAck
    BY <2>1, MouseFacts, Zenon DEF MouseAck, queue, bytes, KbdInv, KbdTypeOK, States
  <2>2. CASE MouseAnswer
    <3>1. /\ output_queue' \in Bytes /\ output_queue_len' \in 0..1 /\ status_byte' \subseteq StatusFlags
          /\ output_queue_len' = 1 /\ "OUTPUT_BUFFER_FULL" \in status_byte'
          /\ window' \in {"no", "len", "flags", "copy"}
      BY <2>2, PushFacts DEF MouseAnswer, KbdInv, MOUSE, Bytes
    <3>2. state' \in States /\ mouse_state' \in MouseStates
      BY <2>2, MouseFacts DEF MouseAnswer, States
    <3> QED BY <2>2, <3>1, <3>2, Zenon DEF MouseAnswer, KbdInv, KbdTypeOK
  <2>3. CASE MouseNoData
    BY <2>3 DEF MouseNoData, mouse, queue, bytes, KbdInv, KbdTypeOK, States
  <2> QED BY <2>1, <2>2, <2>3, Zenon DEF ReadMouse, mouse_read_input
<1> QED BY <1>1, <1>2, Zenon DEF KbdInv, KbdTypeOK, Found, ResetHasReply

\* The stores of PullFromOutputQueue undo a push that came in their window and no
\* other; the last one ends the read only if no result is due.
LEMMA ReadStep == KbdInv /\ Read => KbdInv'
<1> SUFFICES ASSUME KbdInv, Read PROVE KbdInv'
  OBVIOUS
<1> USE DEF KbdInv, KbdTypeOK, Found, ResetHasReply, mouse, queue, bytes
<1>1. CASE ReadTake
  BY <1>1 DEF ReadTake
<1>2. CASE ReadLen
  BY <1>2 DEF ReadLen
<1>3. CASE ReadFlags
  BY <1>3 DEF ReadFlags, Bytes
<1>4. CASE ReadBat
  <2>1. output_queue' \in Bytes /\ output_queue_len' = 1 /\ output_queue_len' \in 0..1
        /\ status_byte' \subseteq StatusFlags /\ "OUTPUT_BUFFER_FULL" \in status_byte'
        /\ window' \in {"no", "len", "flags", "copy"}
    BY <1>4, PushFacts DEF ReadBat, COMMAND, Bytes
  <2>2. state' = "NORMAL" /\ reading' = "no" /\ data' = "zero"
        /\ UNCHANGED <<mouse_state, mouse_needs_ack, mouse_done_after_ack, cmd_byte, unserved, copied>>
    BY <1>4, Zenon DEF ReadBat
  <2> QED BY <2>1, <2>2, Zenon DEF States, Bytes
<1> QED BY <1>1, <1>2, <1>3, <1>4, ReadMouseStep, Zenon DEF Read

\* A write by the guest keeps the invariant if it pushes a byte, or leaves the byte
\* there is and its flag, and begins no reset without a byte.
LEMMA GuestStep ==
    ASSUME KbdInv, Guest, state' \in States, mouse_state' \in MouseStates,
           mouse_needs_ack' \in BOOLEAN, mouse_done_after_ack' \in BOOLEAN,
           cmd_byte' \subseteq CmdFlags, status_byte' \subseteq StatusFlags,
           output_queue' \in Bytes, output_queue_len' \in 0..1, window' \in {"no", "len", "flags", "copy"},
           \/ output_queue_len' = 1 /\ "OUTPUT_BUFFER_FULL" \in status_byte'
           \/ /\ output_queue_len' = output_queue_len /\ window' = window
              /\ "OUTPUT_BUFFER_FULL" \in status_byte => "OUTPUT_BUFFER_FULL" \in status_byte'
              /\ state' = "RESET" => state = "RESET"
    PROVE  KbdInv'
BY Zenon DEF KbdInv, KbdTypeOK, Found, ResetHasReply, Guest, guest

\* A write that pushes a byte.
LEMMA GuestPushes ==
    ASSUME KbdInv, Guest, NEW value \in Bytes, NEW flags \in SUBSET {"COMMAND_DATA_AVAIL", "MOUSE_BUFFER_FULL"},
           PushToOutputQueue(value, flags), state' \in States, mouse_state' \in MouseStates,
           mouse_needs_ack' \in BOOLEAN, mouse_done_after_ack' \in BOOLEAN, cmd_byte' \subseteq CmdFlags
    PROVE  KbdInv'
<1>1. /\ output_queue' \in Bytes /\ output_queue_len' = 1 /\ output_queue_len' \in 0..1
      /\ status_byte' \subseteq StatusFlags /\ "OUTPUT_BUFFER_FULL" \in status_byte'
      /\ window' \in {"no", "len", "flags", "copy"}
  BY PushFacts, Zenon DEF KbdInv
<1> QED BY <1>1, GuestStep, Zenon

\* A write that leaves the queue alone.
LEMMA GuestLeaves ==
    ASSUME KbdInv, Guest, UNCHANGED queue, state' \in States, state' = "RESET" => state = "RESET",
           mouse_state' \in MouseStates, mouse_needs_ack' \in BOOLEAN, mouse_done_after_ack' \in BOOLEAN,
           cmd_byte' \subseteq CmdFlags
    PROVE  KbdInv'
BY GuestStep, Zenon DEF KbdInv, KbdTypeOK, queue, bytes

\* The commands on port 64h.
LEMMA CommandStep == KbdInv /\ keyboard_write_command => KbdInv'
<1> SUFFICES ASSUME KbdInv, keyboard_write_command PROVE KbdInv'
  OBVIOUS
<1>0. /\ state \in States /\ mouse_state \in MouseStates /\ mouse_needs_ack \in BOOLEAN
      /\ mouse_done_after_ack \in BOOLEAN /\ cmd_byte \subseteq CmdFlags /\ status_byte \subseteq StatusFlags
      /\ output_queue \in Bytes /\ output_queue_len \in 0..1
  BY Zenon DEF KbdInv, KbdTypeOK
<1>1. CASE CommandReply
  <2>1. /\ Guest /\ PushToOutputQueue("reply", COMMAND) /\ state' = "NORMAL"
        /\ UNCHANGED <<mouse_state, mouse_needs_ack, mouse_done_after_ack, cmd_byte>>
    BY <1>1, Zenon DEF CommandReply, mouse
  <2>2. "reply" \in Bytes /\ COMMAND \in SUBSET {"COMMAND_DATA_AVAIL", "MOUSE_BUFFER_FULL"} /\ "NORMAL" \in States
    BY Zenon DEF Bytes, COMMAND, States
  <2> QED BY <2>1, <2>2, <1>0, GuestPushes, Zenon
<1>2. ASSUME NEW s \in States \ {"NORMAL", "RESET"}, CommandExpect(s) PROVE KbdInv'
  BY <1>2, <1>0, GuestLeaves, Zenon DEF CommandExpect, mouse
<1>3. ASSUME NEW flags \in {cmd_byte, cmd_byte \cup {"MOUSE_DISABLE"}, cmd_byte \ {"MOUSE_DISABLE"},
                            cmd_byte \cup {"DISABLE"}, cmd_byte \ {"DISABLE"}}, CommandFlags(flags)
      PROVE  KbdInv'
  <2>1. flags \subseteq CmdFlags
    BY <1>0 DEF CmdFlags
  <2> QED BY <2>1, <1>3, <1>0, GuestLeaves, Zenon DEF CommandFlags, mouse, States
<1>4. ASSUME NEW upper \in {{}, {"ENABLED"}}, CommandCopy(upper) PROVE KbdInv'
  <2>1. copied' \subseteq StatusFlags /\ ("OUTPUT_BUFFER_FULL" \in status_byte => "OUTPUT_BUFFER_FULL" \in copied')
    BY <1>4, <1>0 DEF CommandCopy, StatusFlags
  <2>2. /\ reading' = "copy"
        /\ UNCHANGED <<state, mouse_state, mouse_needs_ack, mouse_done_after_ack, cmd_byte, status_byte,
                       output_queue, output_queue_len, window, data, unserved>>
    BY <1>4, Zenon DEF CommandCopy, mouse, queue, bytes
  <2> QED BY <2>1, <2>2, Zenon DEF KbdInv, KbdTypeOK, Found, ResetHasReply
<1>5. CASE CommandStore
  <2>1. /\ reading = "copy" /\ reading' = "no" /\ status_byte' = copied /\ copied' = {} /\ state' = "NORMAL"
        /\ UNCHANGED <<mouse_state, mouse_needs_ack, mouse_done_after_ack, cmd_byte,
                       output_queue, output_queue_len, window, data, unserved>>
    BY <1>5, Zenon DEF CommandStore, mouse, bytes
  <2> QED BY <2>1, Zenon DEF KbdInv, KbdTypeOK, Found, ResetHasReply, States
<1> QED BY <1>1, <1>2, <1>3, <1>4, <1>5, Zenon DEF keyboard_write_command

\* The bytes to the mouse.
LEMMA WriteMouseStep == KbdInv /\ Guest /\ WriteMouse => KbdInv'
<1> SUFFICES ASSUME KbdInv, Guest, WriteMouse PROVE KbdInv'
  OBVIOUS
<1>0. /\ state = "IN_MOUSE" /\ state \in States /\ mouse_state \in MouseStates /\ mouse_needs_ack \in BOOLEAN
      /\ mouse_done_after_ack \in BOOLEAN /\ cmd_byte' \subseteq CmdFlags /\ "NORMAL" \in States
  BY Zenon DEF KbdInv, KbdTypeOK, WriteMouse, States
<1>1. "ack" \in Bytes /\ "resend" \in Bytes /\ MOUSE \in SUBSET {"COMMAND_DATA_AVAIL", "MOUSE_BUFFER_FULL"}
  BY Zenon DEF Bytes, MOUSE
<1>2. CASE MouseCommand
  <2>1. PICK c \in MouseCommands : mouse_needs_ack' = c[1] /\ mouse_done_after_ack' = c[2] /\ mouse_state' = c[3]
    BY <1>2, Zenon DEF MouseCommand
  <2>2. mouse_needs_ack' \in BOOLEAN /\ mouse_done_after_ack' \in BOOLEAN /\ mouse_state' \in MouseStates
    BY <2>1, MouseFacts, Zenon
  <2> QED BY <1>2, <2>2, <1>0, <1>1, GuestPushes, Zenon DEF MouseCommand
<1>3. CASE MouseReset
  BY <1>3, <1>0, <1>1, GuestPushes, Zenon DEF MouseReset, mouse
<1>4. CASE MouseIgnored
  BY <1>4, <1>0, GuestLeaves, Zenon DEF MouseIgnored, mouse
<1> QED BY <1>2, <1>3, <1>4, Zenon DEF WriteMouse

\* The bytes on port 60h; a reset pushes its acknowledgement.
LEMMA OutputStep == KbdInv /\ keyboard_write_output => KbdInv'
<1> SUFFICES ASSUME KbdInv, keyboard_write_output PROVE KbdInv'
  OBVIOUS
<1>0. /\ Guest
      /\ state \in States /\ mouse_state \in MouseStates /\ mouse_needs_ack \in BOOLEAN
      /\ mouse_done_after_ack \in BOOLEAN /\ cmd_byte \subseteq CmdFlags /\ status_byte \subseteq StatusFlags
      /\ output_queue \in Bytes /\ output_queue_len \in 0..1 /\ window \in {"no", "len", "flags", "copy"}
  BY Zenon DEF KbdInv, KbdTypeOK, keyboard_write_output
<1>a. "NORMAL" \in States /\ "TRANSMIT_PASSWD" \in States /\ "RESET" \in States
  BY Zenon DEF States
<1>b. "ack" \in Bytes /\ "key" \in Bytes /\ COMMAND \in SUBSET {"COMMAND_DATA_AVAIL", "MOUSE_BUFFER_FULL"}
  BY Zenon DEF Bytes, COMMAND
<1>1. CASE WriteCmdByte
  BY <1>1, <1>0, <1>a, GuestLeaves, Zenon DEF WriteCmdByte, mouse
<1>2. CASE WriteIgnored
  BY <1>2, <1>0, <1>a, GuestLeaves, Zenon DEF WriteIgnored, mouse
<1>3. CASE WriteInjectKey
  BY <1>3, <1>0, <1>a, <1>b, GuestPushes, Zenon DEF WriteInjectKey, mouse
<1>4. CASE WritePasswd
  BY <1>4, <1>0, <1>a, GuestLeaves, Zenon DEF WritePasswd, mouse
<1>5. CASE WriteReset
  BY <1>5, <1>0, <1>a, <1>b, GuestPushes, Zenon DEF WriteReset, mouse
<1>6. CASE WriteScanning
  BY <1>6, <1>0, <1>b, GuestPushes, Zenon DEF WriteScanning, mouse
<1>7. CASE WriteUnhandled
  BY <1>7, <1>0, GuestLeaves, Zenon DEF WriteUnhandled, mouse
<1>8. CASE WriteUnknown
  <2>1. status_byte' \subseteq StatusFlags /\ "OUTPUT_BUFFER_FULL" \in status_byte'
    BY <1>8, <1>0 DEF WriteUnknown, StatusFlags
  <2> QED BY <2>1, <1>8, <1>0, GuestStep, Zenon DEF WriteUnknown, mouse, bytes
<1> QED BY <1>0, <1>1, <1>2, <1>3, <1>4, <1>5, <1>6, <1>7, <1>8, WriteMouseStep, Zenon DEF keyboard_write_output

\* The invariant of the controller.
LEMMA KbdInvHolds == KbdSpec => []KbdInv
<1>1. KbdInv /\ [KbdNext]_kbdVars => KbdInv'
  <2> SUFFICES ASSUME KbdInv, [KbdNext]_kbdVars PROVE KbdInv'
    OBVIOUS
  <2>1. CASE KbdNext
    BY <2>1, KeyEventStep, MouseEventStep, ReadStep, CommandStep, OutputStep, Zenon DEF KbdNext
  <2>2. CASE UNCHANGED kbdVars
    BY <2>2, Zenon DEF kbdVars, KbdInv, KbdTypeOK, Found, ResetHasReply
  <2> QED BY <2>1, <2>2
<1> QED BY <1>1, KbdInitHolds, PTL DEF KbdSpec

\* The variables of the controller stay within their C types.
THEOREM KbdTypeCorrect == KbdSpec => []KbdTypeOK
<1>1. KbdInv => KbdTypeOK
  BY DEF KbdInv
<1> QED BY <1>1, KbdInvHolds, PTL

\* An interrupt's byte is in the queue and flagged until it is read, whatever the
\* guest writes and the host sends; an event in the middle of PullFromOutputQueue
\* or of c1 or c2 loses the marks that the window names, and no others.
THEOREM InterruptsFindData == KbdSpec => []InterruptFindsData
<1>1. KbdInv => InterruptFindsData
  BY Zenon DEF KbdInv, Found, InterruptFindsData
<1> QED BY <1>1, KbdInvHolds, PTL

\* A reset in progress always has a byte to read, whose read pushes the result.
THEOREM ResetsHaveReply == KbdSpec => []ResetHasReply
<1>1. KbdInv => ResetHasReply
  BY DEF KbdInv
<1> QED BY <1>1, KbdInvHolds, PTL

\* The bytes that the mouse has left to send, by its state.
Left(m) ==
    CASE m \in {"STREAM1", "REMOTE1", "STATUS1"} -> 3
      [] m \in {"STREAM2", "REMOTE2", "STATUS2", "RESET1"} -> 2
      [] OTHER -> 1

\* A byte of the mouse's answer that is not the last leads to one that is nearer
\* the end.
LEMMA AnswersEnd ==
    ASSUME NEW m \in DOMAIN MouseByte, MouseByte[m][2] = FALSE
    PROVE  Left(m) \in Nat /\ Left(MouseByte[m][1]) \in Nat /\ Left(MouseByte[m][1]) < Left(m)
<1>1. /\ m \in {"STREAM1", "REMOTE1", "STATUS1", "STREAM2", "REMOTE2", "STATUS2", "RESET1"}
      /\ m = "STREAM1" => MouseByte[m][1] = "STREAM2"
      /\ m = "REMOTE1" => MouseByte[m][1] = "REMOTE2"
      /\ m = "STATUS1" => MouseByte[m][1] = "STATUS2"
      /\ m = "STREAM2" => MouseByte[m][1] = "STREAM3"
      /\ m = "REMOTE2" => MouseByte[m][1] = "REMOTE3"
      /\ m = "STATUS2" => MouseByte[m][1] = "STATUS3"
      /\ m = "RESET1" => MouseByte[m][1] = "RESET2"
  BY DEF MouseByte, MouseStates, Streams, Remotes
<1> QED BY <1>1, SMTT(30) DEF Left

\* Every read of 60h in the middle of the mouse's answer brings its end nearer, or
\* gives the port back: a guest that only reads is not kept by the mouse.
THEOREM ReadsReachEnd == KbdSpec => ReadsEnd
<1> DEFINE Nearer == reading = "no" /\ reading' = "take" =>
                        state' = "NORMAL" \/ (state' = "IN_MOUSE" /\ AnswerLeft' < AnswerLeft)
<1>1. KbdInv /\ [KbdNext]_kbdVars => [Nearer]_kbdVars
  <2> SUFFICES ASSUME KbdInv, KbdNext, reading = "no", reading' = "take"
               PROVE  state' = "NORMAL" \/ (state' = "IN_MOUSE" /\ AnswerLeft' < AnswerLeft)
    BY Zenon
  <2>1. ReadMouse
    BY Zenon DEF KbdNext, key_event_handler, mouse_event_handler, Read, ReadTake, ReadLen, ReadFlags, ReadBat,
                 keyboard_write_command, CommandReply, CommandExpect, CommandFlags, CommandCopy,
                 CommandStore, keyboard_write_output, Guest, guest
  <2>2. mouse_state \in MouseStates /\ mouse_needs_ack \in BOOLEAN
    BY Zenon DEF KbdInv, KbdTypeOK
  <2>3. CASE MouseAck
    <3>1. mouse_needs_ack /\ mouse_needs_ack' = FALSE /\ mouse_state' = mouse_state
          /\ state' = Done(mouse_done_after_ack)
      BY <2>3, Zenon DEF MouseAck
    <3>2. AnswerLeft' < AnswerLeft
      BY <3>1 DEF AnswerLeft
    <3> QED BY <3>1, <3>2, Zenon DEF Done
  <2>4. CASE MouseAnswer
    <3>1. /\ mouse_needs_ack = FALSE /\ mouse_needs_ack' = FALSE /\ mouse_state \in DOMAIN MouseByte
          /\ mouse_state' = MouseByte[mouse_state][1] /\ state' = Done(MouseByte[mouse_state][2])
      BY <2>4, <2>2, Zenon DEF MouseAnswer
    <3>2. CASE MouseByte[mouse_state][2] = FALSE
      <4>1. AnswerLeft' < AnswerLeft
        <5>1. AnswerLeft' = 0 + Left(MouseByte[mouse_state][1]) /\ AnswerLeft = 0 + Left(mouse_state)
          BY <3>1, Zenon DEF AnswerLeft, Left
        <5>2. /\ Left(mouse_state) \in Nat /\ Left(MouseByte[mouse_state][1]) \in Nat
              /\ Left(MouseByte[mouse_state][1]) < Left(mouse_state)
          BY <3>1, <3>2, AnswersEnd, Zenon
        <5> QED BY <5>1, <5>2
      <4> QED BY <4>1, <3>1, <3>2, Zenon DEF Done
    <3> QED BY <3>1, <3>2, MouseFacts, Zenon DEF Done
  <2>5. CASE MouseNoData
    BY <2>5, Zenon DEF MouseNoData
  <2> QED BY <2>1, <2>3, <2>4, <2>5, Zenon DEF ReadMouse, mouse_read_input
<1> QED BY <1>1, KbdInvHolds, PTL DEF KbdSpec, ReadsEnd

-----------------------------------------------------------------------------
(* The CD-ROM *)

\* Data is announced to a driver that keeps to the protocol.
InData ==
    /\ ~ strayed /\ drq
    /\ current_command = "packet" /\ interrupt_reason = DATA_IN

\* The words of a packet stop where the packet is complete.
Wanted ==
    /\ drq => current_command # "none"
    /\ ~ strayed /\ drq /\ current_command = "packet" =>
          /\ interrupt_reason \in {CMD, DATA_IN}
          /\ interrupt_reason = CMD => buffer_index < PACKET_SIZE
    /\ drq /\ current_command = "identify" => buffer_index < ID_SIZE

\* Part of what is announced is to be read; only the last part may be odd.
Announced ==
    InData =>
        /\ command \in {"reply", "read"}
        /\ drq_index < drq_bytes /\ drq_bytes <= total_bytes_remaining
        /\ byte_count = drq_bytes
        /\ drq_bytes % 2 = 0 \/ drq_bytes = total_bytes_remaining

\* The rest of a reply is in the buffer.
Replying ==
    InData /\ command = "reply" =>
        buffer_index + (total_bytes_remaining - drq_index) <= BLOCK

\* A READ's two counts agree, and the blocks are those before next_lba. Blocks,
\* and so the parts of a READ, are even: words do not cross the end of a block.
Placed ==
    Reading =>
        /\ ready /\ remaining_blocks >= 0 /\ total_bytes_remaining % 2 = 0
        /\ ~ wide => buffer_index <= BLOCK /\ buffer_index % 2 = 0
        /\ got + (total_bytes_remaining - drq_index) = asked * BLOCK
        /\ got + remaining_blocks * BLOCK + (BLOCK - buffer_index) = asked * BLOCK
        /\ next_lba = (first + asked - remaining_blocks) % WORD
        /\ buffer_index < BLOCK => loaded = (first + asked - remaining_blocks - 1) % WORD
        /\ (first + asked) % WORD <= Capacity

CdInv ==
    /\ TypeOK
    /\ ~ strayed /\ ~ wide => vm # "broken"
    /\ Wanted
    /\ Announced
    /\ Replying
    /\ Placed

\* The remainder of a division.
LEMMA Division ==
    ASSUME NEW a \in Int, NEW b \in Nat, b > 0
    PROVE  /\ a % b \in Nat /\ a % b < b /\ a \div b \in Int
           /\ a = b * (a \div b) + (a % b)
OBVIOUS

\* A product with a whole number is not between two multiples.
LEMMA NoMultiple ==
    ASSUME NEW b \in Nat, NEW d \in Int, b * d < b, - b < b * d
    PROVE  d = 0
<1>1. CASE d >= 1
  <2>1. b * d = b + b * (d - 1) /\ b * (d - 1) >= 0
    BY <1>1
  <2> QED BY <2>1
<1>2. CASE d <= -1
  <2>1. b * d = - b - b * (-1 - d) /\ b * (-1 - d) >= 0
    BY <1>2
  <2> QED BY <2>1
<1> QED BY <1>1, <1>2

\* A quotient and a remainder that fit are the ones.
LEMMA DivisionIs ==
    ASSUME NEW a \in Int, NEW b \in Nat, NEW q \in Int, NEW r \in Nat, r < b, a = b * q + r
    PROVE  a % b = r /\ a \div b = q
<1> DEFINE Q == a \div b
           R == a % b
<1>1. R \in Nat /\ R < b /\ Q \in Int /\ a = b * Q + R
  <2>1. b > 0
    OBVIOUS
  <2> QED BY <2>1, Division, Zenon
<1> HIDE DEF Q, R
<1>2. b * (q - Q) = R - r
  BY <1>1
<1>3. q - Q \in Int /\ b * (q - Q) < b /\ - b < b * (q - Q)
  BY <1>1, <1>2
<1>4. q - Q = 0
  BY <1>3, NoMultiple, Zenon
<1>5. Q = q
  BY <1>4, <1>1
<1>6. R = r
  BY <1>5, <1>1
<1> QED BY <1>5, <1>6, Zenon DEF Q, R

\* Any number of even blocks is even.
LEMMA EvenProduct ==
    ASSUME NEW k \in Nat, NEW b \in Nat, b % 2 = 0
    PROVE  (k * b) % 2 = 0
<1> DEFINE h == b \div 2
           x == k * h
<1>1. h \in Nat /\ b = 2 * h
  OBVIOUS
<1> HIDE DEF h
<1>2. x \in Nat /\ k * b = 2 * x
  BY <1>1
<1> HIDE DEF x
<1>3. (2 * x) % 2 = 0
  BY <1>2
<1> QED BY <1>2, <1>3, Zenon

\* The address after a wrapped one.
LEMMA NextAddress ==
    ASSUME NEW x \in Int
    PROVE  ((x % WORD) + 1) % WORD = (x + 1) % WORD
<1> DEFINE q == x \div WORD
           r == x % WORD
<1>0. WORD \in Nat /\ WORD > 1
  BY SizesAssumption
<1>1. r \in Nat /\ r < WORD /\ q \in Int /\ x = WORD * q + r
  BY <1>0, Division
<1> HIDE DEF q, r
<1>2. CASE r + 1 < WORD
  <2>1. r + 1 = WORD * 0 + (r + 1) /\ x + 1 = WORD * q + (r + 1) /\ r + 1 \in Nat
    BY <1>0, <1>1
  <2>2. (r + 1) % WORD = r + 1 /\ (x + 1) % WORD = r + 1
    BY <2>1, <1>0, <1>1, <1>2, DivisionIs
  <2> QED BY <2>2, Zenon DEF r
<1>3. CASE r + 1 = WORD
  <2>1. r + 1 = WORD * 1 + 0 /\ x + 1 = WORD * (q + 1) + 0 /\ q + 1 \in Int
    BY <1>0, <1>1, <1>3
  <2>2. (r + 1) % WORD = 0 /\ (x + 1) % WORD = 0
    BY <2>1, <1>0, <1>1, DivisionIs
  <2> QED BY <2>2, Zenon DEF r
<1> QED BY <1>0, <1>1, <1>2, <1>3

\* What the packets that send something hold.
LEMMA PacketFacts ==
    ASSUME NEW p \in Packets
    PROVE  /\ p.op = "read" => p.lba \in 0..(WORD - 1) /\ p.length \in Nat /\ p.media = TRUE
           /\ p.op \in {"data", "capacity"} => p.size \in 1..BLOCK /\ p.alloc \in Nat
<1>1. CASE p \in [op : {"nop", "illegal", "unsupported", "eject"}, media : BOOLEAN]
  BY <1>1
<1>2. CASE p \in [op : {"seek"}, media : BOOLEAN, lba : Nat]
  BY <1>2
<1>3. CASE p \in [op : {"data", "capacity"}, media : BOOLEAN, size : 1..BLOCK, alloc : Nat]
  BY <1>3
<1>4. CASE p \in [op : {"read"}, media : {TRUE}, lba : 0..(WORD - 1), length : 0..MAX_LENGTH]
  <2>1. p.op = "read" /\ p.lba \in 0..(WORD - 1) /\ p.length \in 0..MAX_LENGTH /\ p.media = TRUE
    BY <1>4, Zenon
  <2>2. p.length \in Nat
    BY <2>1, SizesAssumption
  <2> QED BY <2>1, <2>2, Zenon
<1> QED BY <1>1, <1>2, <1>3, <1>4, PacketsAssumption, Zenon

\* A byte count to send with is even, or covers what is allowed.
LEMMA CountFacts ==
    ASSUME byte_count \in 0..COUNT_MAX, NEW alloc \in Nat, EvenCount(alloc) # 0
    PROVE  /\ EvenCount(alloc) \in 1..COUNT_MAX
           /\ EvenCount(alloc) % 2 = 0 \/ alloc <= EvenCount(alloc)
<1>1. COUNT_MAX \in Nat /\ COUNT_MAX >= 1
  BY SizesAssumption
<1>2. \A c \in Nat : c % 2 = 1 => c >= 1 /\ (c - 1) % 2 = 0
  OBVIOUS
<1>3. \A c \in Nat : c % 2 = 1 \/ c % 2 = 0
  OBVIOUS
<1> DEFINE c == IF byte_count = COUNT_MAX THEN COUNT_MAX - 1 ELSE byte_count
<1>4. c \in Nat /\ c <= COUNT_MAX
  BY <1>1
<1>5. EvenCount(alloc) = IF c % 2 = 1 /\ alloc > c THEN c - 1 ELSE c
  BY Zenon DEF EvenCount
<1> HIDE DEF c
<1>6. CASE c % 2 = 1 /\ alloc > c
  <2>1. EvenCount(alloc) = c - 1 /\ (c - 1) % 2 = 0 /\ c >= 1
    BY <1>6, <1>5, <1>4, <1>2, Zenon
  <2> QED BY <2>1, <1>4, <1>1
<1>7. CASE ~ (c % 2 = 1 /\ alloc > c)
  <2>1. EvenCount(alloc) = c /\ (c % 2 = 0 \/ ~ (alloc > c))
    BY <1>7, <1>5, <1>4, <1>3, Zenon
  <2> QED BY <2>1, <1>4, <1>1
<1> QED BY <1>6, <1>7, Zenon

\* rd_init_send_atapi_command announces part of what is to be sent, or all of it.
LEMMA SendFacts ==
    ASSUME byte_count \in 0..COUNT_MAX, NEW cmd, NEW req \in Nat, req >= 1, NEW alloc \in Nat, NEW lazy \in BOOLEAN,
           InitSend(cmd, req, alloc, lazy), EvenCount(alloc) # 0
    PROVE  /\ byte_count' \in 1..COUNT_MAX /\ drq_bytes' = byte_count' /\ drq_index' = 0
           /\ total_bytes_remaining' \in Nat /\ total_bytes_remaining' <= req
           /\ alloc = req => total_bytes_remaining' = req
           /\ drq_bytes' <= total_bytes_remaining'
           /\ drq_bytes' % 2 = 0 \/ drq_bytes' = total_bytes_remaining'
           /\ command' = cmd
           /\ lazy => buffer_index' = BLOCK
           /\ ~ lazy => buffer_index' = 0
<1> DEFINE c == EvenCount(alloc)
           a == IF alloc = 0 THEN c ELSE alloc
           t == IF req < a THEN req ELSE a
           b == IF c < t THEN c ELSE t
<1>1. /\ byte_count' = b /\ total_bytes_remaining' = t /\ drq_bytes' = byte_count' /\ drq_index' = 0 /\ command' = cmd
      /\ lazy => buffer_index' = BLOCK
      /\ ~ lazy => buffer_index' = 0
  BY Zenon DEF InitSend, Least
<1>2. c \in Nat /\ c >= 1 /\ c <= COUNT_MAX /\ COUNT_MAX \in Nat
  BY CountFacts, SizesAssumption
<1>3. c % 2 = 0 \/ alloc <= c
  BY CountFacts, Zenon
<1> HIDE DEF c
<1>4. t \in Nat /\ t >= 1 /\ t <= req /\ (alloc = req => t = req) /\ (alloc <= c => t <= c)
  BY <1>2
<1> HIDE DEF t
<1>5. b \in 1..COUNT_MAX /\ b <= t /\ (b = c \/ b = t) /\ (t <= c => b = t)
  BY <1>2, <1>4
<1> HIDE DEF b
<1>6. b % 2 = 0 \/ b = t
  BY <1>3, <1>4, <1>5, Zenon
<1> QED BY <1>1, <1>4, <1>5, <1>6, Zenon

\* Where no data is announced, the types and the VM are all there is.
LEMMA NothingAnnounced ==
    ASSUME TypeOK', drq' = FALSE, ~ strayed' /\ ~ wide' => vm' # "broken"
    PROVE  CdInv'
BY Zenon DEF CdInv, Wanted, Announced, Replying, Placed, InData, Reading

\* A drive just registered has announced nothing.
LEMMA CdInitHolds == Init => CdInv
<1> SUFFICES ASSUME Init PROVE CdInv
  OBVIOUS
<1>1. 0 \in 0..COUNT_MAX /\ 0 \in 0..(WORD - 1) /\ 0 \in Nat /\ 0 \in Int /\ None \in Int
  BY SizesAssumption DEF None
<1>2. TypeOK
  BY <1>1, Zenon DEF Init, TypeOK
<1> QED BY <1>2, Zenon DEF Init, CdInv, Wanted, Announced, Replying, Placed, InData, Reading

\* A handler's error return, which finds the drive's place lost only if the
\* guest strayed or did not read in words.
LEMMA StopStep ==
    ASSUME NEW how \in {"refused", "broken", "assert"}, Stop(how), strayed' \in BOOLEAN, wide' \in BOOLEAN,
           how = "broken" => strayed' \/ wide'
    PROVE  CdInv'
<1>1. 0 \in 0..COUNT_MAX /\ 0 \in 0..(WORD - 1) /\ 0 \in Nat /\ 0 \in Int /\ None \in Int
  BY SizesAssumption DEF None
<1>2. TypeOK'
  BY <1>1, Zenon DEF Stop, Forget, TypeOK
<1>3. drq' = FALSE /\ vm' = how
  BY Zenon DEF Stop
<1> QED BY <1>2, <1>3, NothingAnnounced, Zenon

\* The groups of variables, one by one.
LEMMA Groups ==
    /\ control' = control => reset' = reset /\ disable_irq' = disable_irq
    /\ transfer' = transfer =>
          /\ buffer_index' = buffer_index /\ drq_index' = drq_index /\ command' = command
          /\ drq_bytes' = drq_bytes /\ total_bytes_remaining' = total_bytes_remaining
    /\ medium' = medium =>
          /\ ready' = ready /\ next_lba' = next_lba /\ remaining_blocks' = remaining_blocks
          /\ loaded' = loaded /\ first' = first /\ asked' = asked /\ got' = got
BY Zenon DEF control, transfer, medium, history

\* The types of what the ports write directly.
Registers ==
    /\ drive_select \in {0, 1}
    /\ reset \in BOOLEAN /\ disable_irq \in BOOLEAN /\ busy \in BOOLEAN
    /\ err \in BOOLEAN /\ irq \in BOOLEAN /\ strayed \in BOOLEAN /\ wide \in BOOLEAN
    /\ interrupt_reason \in {CMD, DATA_IN, DONE, OUT}
    /\ byte_count \in 0..COUNT_MAX

\* A step that leaves the transfer alone, or strays.
LEMMA KeptStep ==
    ASSUME CdInv, Registers', vm' = vm, drq' = drq, current_command' = current_command,
           UNCHANGED <<transfer, medium>>, ~ strayed' => ~ strayed, wide' = wide,
           ~ strayed' /\ drq => UNCHANGED <<interrupt_reason, byte_count>>
    PROVE  CdInv'
<1>1. /\ buffer_index' = buffer_index /\ drq_index' = drq_index /\ command' = command /\ drq_bytes' = drq_bytes
      /\ total_bytes_remaining' = total_bytes_remaining
      /\ ready' = ready /\ next_lba' = next_lba /\ remaining_blocks' = remaining_blocks
      /\ loaded' = loaded /\ first' = first /\ asked' = asked /\ got' = got
  BY Groups, Zenon
<1>2. ~ strayed' /\ drq => interrupt_reason' = interrupt_reason /\ byte_count' = byte_count
  BY Zenon
<1>t. TypeOK'
  <2>1. TypeOK
    BY Zenon DEF CdInv
  <2> QED BY <1>1, <2>1, Zenon DEF TypeOK, Registers
<1>3. ~ strayed' /\ ~ wide' => vm' # "broken"
  BY Zenon DEF CdInv
<1>4. Wanted'
  BY <1>1, <1>2, Zenon DEF CdInv, Wanted
<1>5. InData' => InData
  BY <1>2, Zenon DEF InData
<1>6. Reading' => Reading
  BY <1>1, <1>2, Zenon DEF Reading
<1>7. Announced'
  <2> SUFFICES ASSUME InData'
               PROVE  /\ command \in {"reply", "read"}
                      /\ drq_index < drq_bytes /\ drq_bytes <= total_bytes_remaining
                      /\ byte_count = drq_bytes
                      /\ drq_bytes % 2 = 0 \/ drq_bytes = total_bytes_remaining
    BY <1>1, <1>2, Zenon DEF Announced, InData
  <2> QED BY <1>5, Zenon DEF CdInv, Announced
<1>8. Replying'
  BY <1>1, <1>5, Zenon DEF CdInv, Replying
<1>9. Placed'
  BY <1>1, <1>6, Zenon DEF CdInv, Placed
<1> QED BY <1>t, <1>3, <1>4, <1>7, <1>8, <1>9, Zenon DEF CdInv

\* The status, the error register, the task file and the selected drive.
LEMMA PortStep ==
    ASSUME CdInv,
           \/ ReadStatus \/ ReadError \/ AbortCommand
           \/ \E c \in Counts : WriteRegisters(interrupt_reason, c)
           \/ \E r \in Reasons : WriteRegisters(r, byte_count)
           \/ \E d \in {0, 1} : SelectDrive(d)
           \/ UNCHANGED vars
    PROVE  CdInv'
<1>0. TypeOK /\ Registers
  BY Zenon DEF CdInv, TypeOK, Registers
<1>1. CASE ReadStatus
  <2>1. Registers'
    BY <1>0, <1>1, Groups, Zenon DEF ReadStatus, Registers, driver
  <2> QED BY <1>1, <2>1, KeptStep, Zenon DEF ReadStatus, driver
<1>2. CASE ReadError
  <2>1. Registers'
    BY <1>0, <1>2, Groups, Zenon DEF ReadError, Registers, driver
  <2> QED BY <1>2, <2>1, KeptStep, Zenon DEF ReadError, driver
<1>3. CASE AbortCommand
  <2>1. Registers'
    BY <1>0, <1>3, Groups, Zenon DEF AbortCommand, Raise, Registers, driver
  <2> QED BY <1>3, <2>1, KeptStep, Zenon DEF AbortCommand, driver
<1>4. ASSUME NEW r \in {CMD, DATA_IN, DONE, OUT}, NEW c \in 0..COUNT_MAX, WriteRegisters(r, c)
      PROVE  CdInv'
  <2>1. Registers'
    BY <1>0, <1>4, Groups, Zenon DEF WriteRegisters, Strays, Registers
  <2>2. ~ strayed' /\ drq => UNCHANGED <<interrupt_reason, byte_count>>
    BY <1>4, Zenon DEF WriteRegisters, Strays
  <2> QED BY <1>4, <2>1, <2>2, KeptStep, Zenon DEF WriteRegisters, Strays
<1>5. ASSUME NEW d \in {0, 1}, SelectDrive(d)
      PROVE  CdInv'
  <2>1. Registers'
    BY <1>0, <1>5, Groups, Zenon DEF SelectDrive, Strays, Registers
  <2> QED BY <1>5, <2>1, KeptStep, Zenon DEF SelectDrive, Strays
<1>6. CASE UNCHANGED vars
  <2>1. Registers'
    BY <1>0, <1>6, Groups, Zenon DEF vars, Registers, driver
  <2> QED BY <1>6, <2>1, KeptStep, Zenon DEF vars, driver
<1>7. Counts \subseteq 0..COUNT_MAX
  BY SizesAssumption, Zenon
<1>8. Reasons \subseteq {CMD, DATA_IN, DONE, OUT}
  BY ReasonsAssumption, Zenon DEF CMD, DATA_IN, DONE, OUT
<1> QED BY <1>0, <1>1, <1>2, <1>3, <1>4, <1>5, <1>6, <1>7, <1>8, Zenon DEF TypeOK

\* A command or a reset starts anew.
LEMMA StartStep ==
    ASSUME CdInv,
           Identify \/ SendPacket \/ RefuseFeatures \/ \E r, d \in BOOLEAN : WriteControl(r, d)
    PROVE  CdInv'
<1>0. TypeOK
  BY Zenon DEF CdInv
<1>n. /\ 0 \in Nat /\ 0 \in Int /\ None \in Int /\ 0 < PACKET_SIZE /\ 0 < ID_SIZE
      /\ SIGNATURE \in 0..COUNT_MAX
  BY SizesAssumption DEF None
<1>1. CASE Identify
  <2>1. TypeOK'
    BY <1>0, <1>n, <1>1, ZenonT(30) DEF Identify, Forget, Raise, TypeOK, control
  <2>2. current_command' = "identify" /\ buffer_index' = 0 /\ vm' = "running"
    BY <1>1, Zenon DEF Identify, Running
  <2> QED BY <2>1, <2>2, <1>n, Zenon DEF CdInv, Wanted, Announced, Replying, Placed, InData, Reading
<1>2. CASE SendPacket
  <2>1. TypeOK'
    BY <1>0, <1>n, <1>2, Zenon DEF SendPacket, Forget, TypeOK, control
  <2>2. current_command' = "packet" /\ interrupt_reason' = CMD /\ buffer_index' = 0 /\ vm' = "running"
    BY <1>2, Zenon DEF SendPacket, Running
  <2>3. CMD # DATA_IN
    BY DEF CMD, DATA_IN
  <2> QED BY <2>1, <2>2, <2>3, <1>n, Zenon DEF CdInv, Wanted, Announced, Replying, Placed, InData, Reading
<1>3. CASE RefuseFeatures
  <2>1. Stop("refused") /\ strayed' \in BOOLEAN /\ wide' \in BOOLEAN
    BY <1>0, <1>3, Zenon DEF RefuseFeatures, driver, TypeOK
  <2> QED BY <2>1, StopStep, Zenon
<1>4. ASSUME NEW r \in BOOLEAN, NEW d \in BOOLEAN, WriteControl(r, d)
      PROVE  CdInv'
  <2>1. /\ reset' = r /\ disable_irq' = (d /\ ~ (r /\ ~ reset))
        /\ drive_select' = drive_select /\ drq_index' = drq_index /\ command' = command /\ drq_bytes' = drq_bytes
        /\ total_bytes_remaining' = total_bytes_remaining /\ ready' = ready /\ next_lba' = next_lba
        /\ remaining_blocks' = remaining_blocks /\ vm' = vm /\ vm = "running"
    BY <1>4, Zenon DEF WriteControl, Running
  <2>2. CASE r /\ ~ reset
    <3>1. /\ busy' = TRUE /\ drq' = FALSE /\ err' = FALSE /\ current_command' = "none" /\ buffer_index' = 0
          /\ irq' = FALSE /\ strayed' = FALSE /\ wide' = FALSE /\ Forget
          /\ interrupt_reason' = interrupt_reason /\ byte_count' = byte_count
      BY <1>4, <2>2, Zenon DEF WriteControl
    <3>2. TypeOK'
      BY <1>0, <1>n, <2>1, <3>1, Zenon DEF TypeOK, Forget
    <3> QED BY <2>1, <3>1, <3>2, NothingAnnounced, Zenon
  <2>3. CASE ~ (r /\ ~ reset)
    <3>1. /\ busy' = (busy /\ ~ (reset /\ ~ r))
          /\ interrupt_reason' = IF reset /\ ~ r THEN CMD ELSE interrupt_reason
          /\ byte_count' = IF reset /\ ~ r THEN SIGNATURE ELSE byte_count
          /\ ~ strayed /\ strayed' = (drq /\ reset /\ ~ r) /\ wide' = wide
          /\ drq' = drq /\ err' = err /\ current_command' = current_command /\ buffer_index' = buffer_index
          /\ irq' = irq /\ loaded' = loaded /\ first' = first /\ asked' = asked /\ got' = got
      BY <1>4, <2>3, Zenon DEF WriteControl, Strays, history
    <3>2. Registers'
      BY <1>0, <1>n, <2>1, <3>1, Zenon DEF TypeOK, Registers
    <3>3. UNCHANGED <<transfer, medium>>
      BY <2>1, <3>1, Zenon DEF transfer, medium, history
    <3>4. ~ strayed' /\ drq => UNCHANGED <<interrupt_reason, byte_count>>
      BY <3>1, Zenon
    <3> QED BY <2>1, <3>1, <3>2, <3>3, <3>4, KeptStep, Zenon
  <2> QED BY <2>2, <2>3, Zenon
<1> QED BY <1>1, <1>2, <1>3, <1>4, Zenon

\* A word written where no packet is expected, or before the packet is complete.
LEMMA WordStep ==
    ASSUME CdInv, WriteRefused \/ WriteWord
    PROVE  CdInv'
<1>0. TypeOK /\ Wanted
  BY Zenon DEF CdInv
<1>n. /\ buffer_index \in Nat /\ PACKET_SIZE \in Nat /\ drive_select \in {0, 1} /\ None \in Int
      /\ BLOCK \in Nat /\ PACKET_SIZE <= BLOCK
  BY <1>0, SizesAssumption DEF TypeOK, None
<1>1. CASE WriteRefused
  <2>1. Stop("broken") /\ ~ strayed /\ strayed' = (~ MayWrite) /\ wide' \in BOOLEAN
    BY <1>0, <1>1, Zenon DEF WriteRefused, Strays, TypeOK
  <2>2. MayWrite => FALSE
    <3>1. MayWrite => drive_select = 0 /\ current_command = "packet" /\ buffer_index < PACKET_SIZE
      BY <1>0, <2>1, Zenon DEF MayWrite, Wanted
    <3>2. drive_select = 1 \/ current_command # "packet" \/ buffer_index >= PACKET_SIZE
      BY <1>1, Zenon DEF WriteRefused
    <3> QED BY <3>1, <3>2, <1>n
  <2>3. strayed' \in BOOLEAN /\ strayed'
    BY <2>1, <2>2, Zenon
  <2> QED BY <2>1, <2>3, StopStep, Zenon
<1>2. CASE WriteWord
  <2>1. /\ buffer_index' \in Nat /\ buffer_index' < PACKET_SIZE
    BY <1>2, <1>n DEF WriteWord
  <2>2. /\ ~ strayed /\ strayed' = (~ MayWrite) /\ wide' = wide /\ vm = "running" /\ current_command = "packet"
        /\ loaded' = None
        /\ drive_select' = drive_select /\ reset' = reset /\ disable_irq' = disable_irq /\ busy' = busy
        /\ drq' = drq /\ err' = err /\ interrupt_reason' = interrupt_reason /\ byte_count' = byte_count
        /\ current_command' = current_command /\ drq_index' = drq_index /\ command' = command
        /\ drq_bytes' = drq_bytes /\ total_bytes_remaining' = total_bytes_remaining
        /\ ready' = ready /\ next_lba' = next_lba /\ remaining_blocks' = remaining_blocks
        /\ first' = first /\ asked' = asked /\ got' = got /\ irq' = irq /\ vm' = vm
    BY <1>2, Groups, Zenon DEF WriteWord, WritesPacket, Running, Strays
  <2>3. TypeOK'
    <3>1. strayed' \in BOOLEAN
      BY <2>2, Zenon
    <3> QED BY <1>0, <1>n, <2>1, <2>2, <3>1 DEF TypeOK
  <2>4. ~ strayed' => interrupt_reason' = CMD
    BY <2>2, Zenon DEF MayWrite
  <2>5. CMD # DATA_IN
    BY DEF CMD, DATA_IN
  <2> QED BY <2>1, <2>2, <2>3, <2>4, <2>5, <1>0, Zenon
             DEF CdInv, Wanted, Announced, Replying, Placed, InData, Reading
<1> QED BY <1>1, <1>2, Zenon

\* A packet that ends at once, or is refused.
LEMMA EndStep ==
    ASSUME CdInv, NEW p \in Packets, EndPacket(p) \/ RefusePacket(p)
    PROVE  CdInv'
<1>0. TypeOK
  BY Zenon DEF CdInv
<1>n. buffer_index + 2 \in Nat /\ None \in Int
  BY <1>0 DEF TypeOK, None
<1>1. CASE EndPacket(p)
  <2>1. /\ ~ strayed /\ strayed' = (~ MayWrite) /\ wide' = wide /\ vm = "running" /\ Complete(Fails(p))
        /\ ready' = (ready /\ p.op # "eject") /\ buffer_index' = buffer_index + 2 /\ loaded' = None
        /\ drive_select' = drive_select /\ reset' = reset /\ disable_irq' = disable_irq
        /\ byte_count' = byte_count /\ current_command' = current_command /\ drq_index' = drq_index
        /\ command' = command /\ drq_bytes' = drq_bytes /\ total_bytes_remaining' = total_bytes_remaining
        /\ next_lba' = next_lba /\ remaining_blocks' = remaining_blocks
        /\ first' = first /\ asked' = asked /\ got' = got /\ vm' = vm
    BY <1>1, Groups, Zenon DEF EndPacket, CompletesPacket, WritesPacket, Running, Strays
  <2>2. /\ strayed' \in BOOLEAN /\ ready' \in BOOLEAN /\ busy' \in BOOLEAN /\ drq' = FALSE /\ err' \in BOOLEAN
        /\ irq' \in BOOLEAN /\ interrupt_reason' = DONE
    BY <2>1, Zenon DEF Complete, Raise, Fails
  <2>3. TypeOK'
    BY <1>0, <1>n, <2>1, <2>2, Zenon DEF TypeOK
  <2> QED BY <2>1, <2>2, <2>3, NothingAnnounced, Zenon
<1>2. CASE RefusePacket(p)
  <2>1. Stop("refused") /\ strayed' \in BOOLEAN /\ wide' \in BOOLEAN
    BY <1>0, <1>2, Zenon DEF RefusePacket, CompletesPacket, Strays, TypeOK
  <2> QED BY <2>1, StopStep, Zenon
<1> QED BY <1>1, <1>2, Zenon

\* What rd_init_send_atapi_command leaves for a reply: its first part announced,
\* all of it in the buffer.
LEMMA AnnounceReply ==
    ASSUME TypeOK, NEW p \in Packets, p.op \in {"data", "capacity"},
           EvenCount(p.alloc) # 0, InitSend("reply", p.size, p.alloc, FALSE)
    PROVE  /\ byte_count' \in 0..COUNT_MAX /\ drq_bytes' \in Nat /\ drq_index' = 0 /\ buffer_index' = 0
           /\ total_bytes_remaining' \in Int /\ command' = "reply"
           /\ drq_index' < drq_bytes' /\ drq_bytes' <= total_bytes_remaining' /\ byte_count' = drq_bytes'
           /\ drq_bytes' % 2 = 0 \/ drq_bytes' = total_bytes_remaining'
           /\ buffer_index' + (total_bytes_remaining' - drq_index') <= BLOCK
<1>1. p.size \in Nat /\ p.size >= 1 /\ p.size <= BLOCK /\ p.alloc \in Nat /\ BLOCK \in Nat
  <2>1. p.size \in 1..BLOCK /\ p.alloc \in Nat
    BY PacketFacts, Zenon
  <2> QED BY <2>1, SizesAssumption
<1>2. byte_count \in 0..COUNT_MAX
  BY Zenon DEF TypeOK
<1>3. /\ byte_count' \in 1..COUNT_MAX /\ drq_bytes' = byte_count' /\ drq_index' = 0
      /\ total_bytes_remaining' \in Nat /\ total_bytes_remaining' <= p.size
      /\ drq_bytes' <= total_bytes_remaining'
      /\ drq_bytes' % 2 = 0 \/ drq_bytes' = total_bytes_remaining'
      /\ command' = "reply" /\ buffer_index' = 0
  BY <1>1, <1>2, SendFacts, Zenon
<1>4. byte_count' \in Nat /\ byte_count' >= 1 /\ byte_count' \in 0..COUNT_MAX
  BY <1>3, SizesAssumption
<1>5. drq_index' < drq_bytes' /\ buffer_index' + (total_bytes_remaining' - drq_index') <= BLOCK
  <2>1. \A t, s \in Nat : t <= s /\ s <= BLOCK => 0 + (t - 0) <= BLOCK
    BY <1>1
  <2>2. \A b \in Nat : b >= 1 => 0 < b
    OBVIOUS
  <2> QED BY <1>1, <1>3, <1>4, <2>1, <2>2, Zenon
<1>6. total_bytes_remaining' \in Int
  BY <1>3
<1> QED BY <1>3, <1>4, <1>5, <1>6, Zenon

\* A packet that sends a reply.
LEMMA ReplyStep ==
    ASSUME CdInv, NEW p \in Packets, Reply(p) \/ ReadCapacity(p)
    PROVE  CdInv'
<1>0. TypeOK
  BY Zenon DEF CdInv
<1>1. /\ p.op \in {"data", "capacity"} /\ EvenCount(p.alloc) # 0
      /\ InitSend("reply", p.size, p.alloc, FALSE)
  BY Zenon DEF Reply, ReadCapacity, Send
<1>2. /\ ~ strayed /\ strayed' = (~ MayWrite) /\ wide' = wide /\ vm = "running" /\ loaded' = None
      /\ drive_select' = drive_select /\ reset' = reset /\ disable_irq' = disable_irq
      /\ current_command' = current_command /\ current_command = "packet"
      /\ ready' = ready /\ next_lba' = next_lba /\ remaining_blocks' = remaining_blocks
      /\ first' = first /\ asked' = asked /\ got' = got /\ vm' = vm
  BY Groups, Zenon DEF Reply, ReadCapacity, CompletesPacket, WritesPacket, Running, Strays
<1>3. /\ strayed' \in BOOLEAN /\ busy' = FALSE /\ drq' \in BOOLEAN /\ err' \in BOOLEAN /\ irq' \in BOOLEAN
      /\ interrupt_reason' \in {DONE, DATA_IN} /\ (drq' => interrupt_reason' = DATA_IN)
  BY <1>2, Zenon DEF Reply, ReadCapacity, Send, Complete, Raise
<1>4. /\ byte_count' \in 0..COUNT_MAX /\ drq_bytes' \in Nat /\ drq_index' = 0 /\ buffer_index' = 0
      /\ total_bytes_remaining' \in Int /\ command' = "reply"
      /\ drq_index' < drq_bytes' /\ drq_bytes' <= total_bytes_remaining' /\ byte_count' = drq_bytes'
      /\ drq_bytes' % 2 = 0 \/ drq_bytes' = total_bytes_remaining'
      /\ buffer_index' + (total_bytes_remaining' - drq_index') <= BLOCK
  BY <1>0, <1>1, AnnounceReply, Zenon
<1>5. TypeOK'
  <2>1. 0 \in Nat /\ None \in Int
    BY DEF None
  <2> QED BY <1>0, <1>2, <1>3, <1>4, <2>1, Zenon DEF TypeOK
<1>6. CMD # DATA_IN /\ "reply" # "read"
  BY DEF CMD, DATA_IN
<1>7. Wanted'
  BY <1>2, <1>3, <1>6, Zenon DEF Wanted
<1>8. Announced'
  BY <1>4, Zenon DEF Announced
<1>9. Replying' /\ Placed'
  BY <1>4, <1>6, Zenon DEF Replying, Placed, Reading
<1> QED BY <1>2, <1>5, <1>7, <1>8, <1>9, Zenon DEF CdInv

\* A READ that starts: nothing is delivered, and nothing is loaded yet.
LEMMA ReadBlocksStep ==
    ASSUME CdInv, NEW p \in Packets, ReadBlocks(p)
    PROVE  CdInv'
<1>0. TypeOK
  BY Zenon DEF CdInv
<1>1. /\ ~ strayed /\ strayed' = (~ MayWrite) /\ wide' = wide /\ vm = "running" /\ loaded' = None
      /\ drive_select' = drive_select /\ reset' = reset /\ disable_irq' = disable_irq
      /\ current_command' = current_command /\ current_command = "packet" /\ ready' = ready /\ vm' = vm
      /\ next_lba' = p.lba /\ remaining_blocks' = p.length
      /\ first' = p.lba /\ asked' = p.length /\ got' = 0
  BY Groups, Zenon DEF ReadBlocks, CompletesPacket, WritesPacket, Running, Strays
<1>2. /\ strayed' \in BOOLEAN /\ busy' = FALSE /\ drq' = TRUE /\ err' = FALSE /\ irq' \in BOOLEAN
      /\ interrupt_reason' = DATA_IN
  BY <1>1, Zenon DEF ReadBlocks, Send, Raise
<1> DEFINE n == p.length * BLOCK
<1>3. /\ p.op = "read" /\ p.length # 0 /\ ~ Fails(p) /\ EvenCount(n) # 0
      /\ InitSend("read", n, n, TRUE)
  BY Zenon DEF ReadBlocks, Send
<1>4. p.lba \in 0..(WORD - 1) /\ p.length \in Nat /\ p.media = TRUE
  BY <1>3, PacketFacts, Zenon
<1>5. BLOCK \in Nat /\ BLOCK >= 1 /\ WORD \in Nat /\ WORD > 1 /\ byte_count \in 0..COUNT_MAX
  BY <1>0, SizesAssumption DEF TypeOK
<1>6. n \in Nat /\ n >= 1
  <2>1. p.length >= 1
    BY <1>3, <1>4
  <2>2. p.length * BLOCK = BLOCK + (p.length - 1) * BLOCK /\ (p.length - 1) * BLOCK \in Nat
    BY <2>1, <1>4, <1>5
  <2> QED BY <2>2, <1>5
<1> HIDE DEF n
<1>7. /\ byte_count' \in 1..COUNT_MAX /\ drq_bytes' = byte_count' /\ drq_index' = 0
      /\ total_bytes_remaining' = n /\ drq_bytes' <= total_bytes_remaining'
      /\ drq_bytes' % 2 = 0 \/ drq_bytes' = total_bytes_remaining'
      /\ command' = "read" /\ buffer_index' = BLOCK
  BY <1>3, <1>5, <1>6, SendFacts, Zenon
<1>8. /\ drq_bytes' \in Nat /\ byte_count' \in 0..COUNT_MAX /\ drq_index' < drq_bytes' /\ n \in Int /\ None \in Int
      /\ 0 \in Nat /\ p.lba \in Nat /\ p.length \in Int
  BY <1>4, <1>5, <1>6, <1>7, SizesAssumption DEF None
<1>9. ready /\ (p.lba + p.length) % WORD <= Capacity
  <2>1. ready /\ ~ ((p.lba + p.length) % WORD > Capacity)
    BY <1>3, <1>4, Zenon DEF Fails, OutOfRange
  <2>2. (p.lba + p.length) % WORD \in Nat /\ Capacity \in Nat
    BY <1>4, <1>5, SizesAssumption
  <2> QED BY <2>1, <2>2
<1>a. TypeOK'
  BY <1>0, <1>1, <1>2, <1>4, <1>5, <1>7, <1>8, Zenon DEF TypeOK
<1>b. CMD # DATA_IN /\ "reply" # "read"
  BY DEF CMD, DATA_IN
<1>c. Wanted'
  BY <1>1, <1>2, <1>b, Zenon DEF Wanted
<1>d. Announced' /\ Replying'
  BY <1>7, <1>8, <1>b, Zenon DEF Announced, Replying
<1>e. Placed'
  <2>1. p.lba = (p.lba + p.length - p.length) % WORD
    <3>1. p.lba + p.length - p.length = WORD * 0 + p.lba /\ p.lba < WORD
      BY <1>4, <1>5
    <3>2. p.lba + p.length - p.length \in Int /\ 0 \in Int
      BY <1>4, <1>5
    <3> QED BY <3>1, <3>2, <1>5, <1>8, DivisionIs, Zenon
  <2>2. /\ 0 + (n - 0) = p.length * BLOCK /\ 0 + p.length * BLOCK + (BLOCK - BLOCK) = p.length * BLOCK
        /\ p.length >= 0 /\ BLOCK <= BLOCK /\ ~ (BLOCK < BLOCK)
    BY <1>4, <1>5 DEF n
  <2>3. n % 2 = 0 /\ BLOCK % 2 = 0
    BY <1>4, <1>5, EvenProduct, SizesAssumption DEF n
  <2> QED BY <1>1, <1>7, <1>9, <2>1, <2>2, <2>3, Zenon DEF Placed
<1> QED BY <1>1, <1>a, <1>c, <1>d, <1>e, Zenon DEF CdInv

\* While data is announced the place in the buffer is inside it, for a driver
\* that reads in words, and a READ has its medium.
LEMMA InDataPlace ==
    ASSUME CdInv, InData
    PROVE  /\ ~ wide => buffer_index <= BLOCK
           /\ command = "read" => Reading /\ ready
<1>1. /\ buffer_index \in Nat /\ drq_index \in Nat /\ drq_bytes \in Nat /\ total_bytes_remaining \in Int
      /\ BLOCK \in Nat
  BY SizesAssumption, Zenon DEF CdInv, TypeOK
<1>2. CASE command = "reply"
  <2>1. /\ buffer_index + (total_bytes_remaining - drq_index) <= BLOCK
        /\ drq_index < drq_bytes /\ drq_bytes <= total_bytes_remaining
    BY <1>2, Zenon DEF CdInv, Replying, Announced
  <2>2. buffer_index <= BLOCK
    BY <1>1, <2>1
  <2> QED BY <1>2, <2>2
<1>3. CASE command = "read"
  BY <1>3, Zenon DEF CdInv, Placed, Reading, InData
<1> QED BY <1>2, <1>3, Zenon DEF CdInv, Announced

\* A read that read_data_port refuses, or that cdrom_read_block asserts on.
LEMMA ReadRefusedStep ==
    ASSUME CdInv, ReadRefused \/ ReadAsserts
    PROVE  CdInv'
<1>1. CASE ReadRefused
  <2>1. PICK len \in Lengths : ~ strayed /\ strayed' = (~ MayRead(len)) /\ wide' = wide
    BY <1>1, Zenon DEF ReadRefused, Strays
  <2>2. MayRead(len) => wide
    <3> SUFFICES ASSUME MayRead(len), ~ wide PROVE FALSE
      OBVIOUS
    <3>1. drive_select = 0 /\ drq /\ current_command \in {"identify", "packet"}
          /\ (current_command = "packet" => InData)
      BY <2>1, Zenon DEF MayRead, InData
    <3>2. current_command = "packet" /\ (buffer_index > BLOCK \/ (Loads /\ ~ ready))
      BY <1>1, <3>1 DEF ReadRefused
    <3>3. buffer_index <= BLOCK /\ (command = "read" => ready)
      BY <3>1, <3>2, InDataPlace, Zenon
    <3>4. buffer_index \in Nat /\ BLOCK \in Nat
      BY SizesAssumption, Zenon DEF CdInv, TypeOK
    <3>5. ~ (Loads /\ ~ ready)
      BY <3>3, Zenon DEF Loads
    <3> QED BY <3>2, <3>3, <3>4, <3>5
  <2>3. Stop("broken") /\ strayed' \in BOOLEAN /\ wide' \in BOOLEAN /\ (strayed' \/ wide')
    BY <1>1, <2>1, <2>2, Zenon DEF ReadRefused, CdInv, TypeOK
  <2> QED BY <2>3, StopStep, Zenon
<1>2. CASE ReadAsserts
  <2>1. Stop("assert") /\ strayed' \in BOOLEAN /\ wide' \in BOOLEAN
    BY <1>2, Zenon DEF ReadAsserts, Strays, CdInv, TypeOK
  <2> QED BY <2>1, StopStep, Zenon
<1> QED BY <1>1, <1>2, Zenon

\* A read of the identification.
LEMMA ReadIdentityStep ==
    ASSUME CdInv, NEW len \in Lengths, ReadIdentity(len)
    PROVE  CdInv'
<1>0. TypeOK /\ Wanted
  BY Zenon DEF CdInv
<1>1. /\ vm = "running" /\ current_command = "identify" /\ busy' = FALSE /\ err' = FALSE
      /\ buffer_index' = buffer_index + len /\ drq' = (drq /\ buffer_index' < ID_SIZE)
      /\ strayed' = (~ MayRead(len)) /\ wide' = wide
      /\ drive_select' = drive_select /\ reset' = reset /\ disable_irq' = disable_irq
      /\ interrupt_reason' = interrupt_reason /\ byte_count' = byte_count
      /\ current_command' = current_command /\ drq_index' = drq_index /\ command' = command
      /\ drq_bytes' = drq_bytes /\ total_bytes_remaining' = total_bytes_remaining
      /\ ready' = ready /\ next_lba' = next_lba /\ remaining_blocks' = remaining_blocks
      /\ loaded' = loaded /\ first' = first /\ asked' = asked /\ got' = got
      /\ irq' = irq /\ vm' = vm
  BY Groups, Zenon DEF ReadIdentity, Running, Strays
<1>2. buffer_index' \in Nat
  BY <1>0, <1>1, SizesAssumption DEF TypeOK
<1>3. drq' \in BOOLEAN /\ strayed' \in BOOLEAN /\ FALSE \in BOOLEAN
  BY <1>1, Zenon
<1>4. TypeOK'
  BY <1>0, <1>1, <1>2, <1>3, ZenonT(30) DEF TypeOK
<1>5. Wanted'
  BY <1>1, Zenon DEF Wanted
<1> QED BY <1>1, <1>4, <1>5, Zenon DEF CdInv, Announced, Replying, Placed, InData, Reading

\* The variables after a read of a packet's data, and their types.
LEMMA ReadDataVars ==
    ASSUME CdInv, NEW len \in Lengths, ReadData(len)
    PROVE  /\ vm = "running" /\ vm' = vm /\ current_command = "packet" /\ current_command' = "packet"
           /\ ~ strayed /\ strayed' = (~ MayRead(len)) /\ buffer_index <= BLOCK
           /\ wide' = (wide \/ len # 2)
           /\ command' = command /\ ready' = ready
           /\ buffer_index' = (IF Loads THEN 0 ELSE buffer_index) + len
           /\ next_lba' = IF Loads THEN (next_lba + 1) % WORD ELSE next_lba
           /\ remaining_blocks' = IF Loads THEN remaining_blocks - 1 ELSE remaining_blocks
           /\ ~ strayed' => /\ loaded' = IF Loads THEN next_lba ELSE loaded
                            /\ got' = got + len /\ first' = first /\ asked' = asked
           /\ drq_index + len >= drq_bytes => NextBytes
           /\ ~ (drq_index + len >= drq_bytes) =>
                 /\ drq_index' = drq_index + len
                 /\ busy' = busy /\ drq' = drq /\ err' = err /\ interrupt_reason' = interrupt_reason
                 /\ byte_count' = byte_count /\ drq_bytes' = drq_bytes
                 /\ total_bytes_remaining' = total_bytes_remaining /\ irq' = irq
           /\ TypeOK'
<1>0. TypeOK
  BY Zenon DEF CdInv
<1>1. /\ vm = "running" /\ vm' = vm /\ current_command = "packet" /\ current_command' = "packet"
      /\ ~ strayed /\ strayed' = (~ MayRead(len)) /\ buffer_index <= BLOCK
      /\ wide' = (wide \/ len # 2)
      /\ command' = command /\ ready' = ready
      /\ drive_select' = drive_select /\ reset' = reset /\ disable_irq' = disable_irq
  BY Groups, Zenon DEF ReadData, Running, Reads
<1>2. /\ buffer_index' = (IF Loads THEN 0 ELSE buffer_index) + len
      /\ next_lba' = IF Loads THEN (next_lba + 1) % WORD ELSE next_lba
      /\ remaining_blocks' = IF Loads THEN remaining_blocks - 1 ELSE remaining_blocks
  BY Zenon DEF ReadData
<1>3. /\ ~ strayed' => /\ loaded' = IF Loads THEN next_lba ELSE loaded
                       /\ got' = got + len /\ first' = first /\ asked' = asked
      /\ strayed' => Forget
  BY Zenon DEF ReadData
<1>4. /\ drq_index + len >= drq_bytes => NextBytes
      /\ ~ (drq_index + len >= drq_bytes) =>
            /\ drq_index' = drq_index + len
            /\ busy' = busy /\ drq' = drq /\ err' = err /\ interrupt_reason' = interrupt_reason
            /\ byte_count' = byte_count /\ drq_bytes' = drq_bytes
            /\ total_bytes_remaining' = total_bytes_remaining /\ irq' = irq
  BY Zenon DEF ReadData
<1>n. /\ len \in Nat /\ len >= 1 /\ len <= BLOCK /\ BLOCK \in Nat /\ WORD \in Nat /\ WORD > 1
      /\ COUNT_MAX \in Nat /\ 0 \in Nat /\ 0 \in Int /\ None \in Int
  BY SizesAssumption DEF None
<1>5. /\ buffer_index \in Nat /\ next_lba \in 0..(WORD - 1) /\ remaining_blocks \in Int /\ loaded \in Int
      /\ got \in Nat /\ first \in Nat /\ asked \in Nat
  BY <1>0, Zenon DEF TypeOK
<1>6. buffer_index' \in Nat /\ next_lba' \in 0..(WORD - 1) /\ remaining_blocks' \in Int
  <2>1. (next_lba + 1) % WORD \in 0..(WORD - 1)
    BY <1>5, <1>n, Division
  <2> QED BY <2>1, <1>2, <1>5, <1>n
<1>7. loaded' \in Int /\ got' \in Nat /\ first' \in Nat /\ asked' \in Nat
  <2>1. next_lba \in Int /\ got + len \in Nat
    BY <1>5, <1>n
  <2>2. CASE strayed'
    BY <2>2, <1>3, <1>n, Zenon DEF Forget
  <2>3. CASE ~ strayed'
    BY <2>1, <2>3, <1>3, <1>5, Zenon
  <2> QED BY <2>2, <2>3, Zenon
<1>8. /\ drq_index' \in Nat /\ drq_bytes' \in Nat /\ total_bytes_remaining' \in Int /\ byte_count' \in 0..COUNT_MAX
      /\ busy' \in BOOLEAN /\ drq' \in BOOLEAN /\ err' \in BOOLEAN /\ irq' \in BOOLEAN
      /\ interrupt_reason' \in {CMD, DATA_IN, DONE, OUT}
  <2>1. /\ drq_index \in Nat /\ drq_bytes \in Nat /\ total_bytes_remaining \in Int /\ byte_count \in 0..COUNT_MAX
        /\ busy \in BOOLEAN /\ drq \in BOOLEAN /\ err \in BOOLEAN /\ irq \in BOOLEAN
        /\ interrupt_reason \in {CMD, DATA_IN, DONE, OUT}
    BY <1>0, Zenon DEF TypeOK
  <2>2. CASE drq_index + len >= drq_bytes
    <3> DEFINE rest == total_bytes_remaining - drq_bytes
    <3>1. /\ drq_index' = 0 /\ total_bytes_remaining' = rest /\ busy' = FALSE /\ drq' = (rest > 0)
          /\ interrupt_reason' = (IF rest > 0 THEN DATA_IN ELSE DONE) /\ err' = (err /\ rest > 0)
          /\ byte_count' = (IF rest > 0 THEN Least(rest, byte_count) ELSE byte_count)
          /\ drq_bytes' = (IF rest > 0 THEN byte_count' ELSE drq_bytes) /\ irq' = (irq \/ ~ disable_irq)
      BY <1>4, <2>2, Zenon DEF NextBytes, Raise
    <3>2. rest \in Int
      BY <2>1
    <3> HIDE DEF rest
    <3>3. byte_count' \in 0..COUNT_MAX
      BY <3>1, <3>2, <2>1, <1>n DEF Least
    <3>4. drq_bytes' \in Nat
      BY <3>1, <3>3, <2>1, <1>n
    <3>5. /\ busy' \in BOOLEAN /\ drq' \in BOOLEAN /\ err' \in BOOLEAN /\ irq' \in BOOLEAN
          /\ interrupt_reason' \in {CMD, DATA_IN, DONE, OUT}
      <4>1. interrupt_reason' = DATA_IN \/ interrupt_reason' = DONE
        BY <3>1, Zenon
      <4>2. drq' \in BOOLEAN /\ err' \in BOOLEAN /\ irq' \in BOOLEAN
        BY <3>1, <3>2, <2>1
      <4> QED BY <3>1, <4>1, <4>2, Zenon
    <3> QED BY <3>1, <3>2, <3>3, <3>4, <3>5, <1>n, Zenon
  <2>3. CASE ~ (drq_index + len >= drq_bytes)
    <3>1. drq_index + len \in Nat
      BY <2>1, <1>n
    <3> QED BY <3>1, <2>1, <2>3, <1>4, Zenon
  <2> QED BY <2>2, <2>3, Zenon
<1>9. TypeOK'
  <2>1. strayed' \in BOOLEAN /\ wide' \in BOOLEAN
    BY <1>1, Zenon
  <2> QED BY <1>0, <1>1, <1>6, <1>7, <1>8, <2>1, Zenon DEF TypeOK
<1> QED BY <1>1, <1>2, <1>3, <1>4, <1>9, Zenon

\* A read that keeps to the protocol: what is left to send falls by what was read,
\* part by part, until the last part is used up; an even total stays even, and no
\* read goes past it.
LEMMA ReadDataPart ==
    ASSUME CdInv, NEW len \in Lengths, ReadData(len), ~ strayed'
    PROVE  /\ InData
           /\ total_bytes_remaining % 2 = 0 =>
                 /\ total_bytes_remaining' % 2 = 0
                 /\ len <= total_bytes_remaining - drq_index
           /\ drq' =>
                 /\ interrupt_reason' = DATA_IN
                 /\ drq_index' < drq_bytes' /\ drq_bytes' <= total_bytes_remaining' /\ byte_count' = drq_bytes'
                 /\ drq_bytes' % 2 = 0 \/ drq_bytes' = total_bytes_remaining'
                 /\ total_bytes_remaining' - drq_index' = total_bytes_remaining - drq_index - len
           /\ ~ drq' => total_bytes_remaining - drq_index <= len
<1>0. TypeOK
  BY Zenon DEF CdInv
<1>1. /\ current_command = "packet" /\ MayRead(len) /\ ~ strayed
      /\ drq_index + len >= drq_bytes => NextBytes
      /\ ~ (drq_index + len >= drq_bytes) =>
            /\ drq_index' = drq_index + len
            /\ drq' = drq /\ interrupt_reason' = interrupt_reason
            /\ byte_count' = byte_count /\ drq_bytes' = drq_bytes
            /\ total_bytes_remaining' = total_bytes_remaining
  BY ReadDataVars, Zenon
<1>2. InData /\ ~ Overruns(len)
  BY <1>1, Zenon DEF MayRead, InData
<1>3. /\ drq_index < drq_bytes /\ drq_bytes <= total_bytes_remaining /\ byte_count = drq_bytes
      /\ drq_bytes % 2 = 0 \/ drq_bytes = total_bytes_remaining
      /\ drq /\ interrupt_reason = DATA_IN
  BY <1>2, Zenon DEF CdInv, Announced, InData
<1>n. /\ len \in Nat /\ len >= 1 /\ BLOCK \in Nat /\ BLOCK >= 1
      /\ drq_index \in Nat /\ drq_bytes \in Nat /\ total_bytes_remaining \in Int /\ byte_count \in Nat
      /\ buffer_index \in Nat
  BY <1>0, SizesAssumption DEF TypeOK
<1>5. drq_bytes % 2 = 0 => len <= drq_bytes - drq_index
  <2>1. ~ (len > drq_bytes - drq_index + (drq_bytes % 2))
    BY <1>2, Zenon DEF Overruns
  <2> QED BY <2>1, <1>n
<1>4. ASSUME total_bytes_remaining % 2 = 0
      PROVE  total_bytes_remaining' % 2 = 0 /\ len <= total_bytes_remaining - drq_index
  <2>1. drq_bytes % 2 = 0
    BY <1>3, <1>4, Zenon
  <2>2. len <= total_bytes_remaining - drq_index
    BY <2>1, <1>3, <1>5, <1>n
  <2>3. (total_bytes_remaining - drq_bytes) % 2 = 0
    BY <2>1, <1>4, <1>n
  <2>4. total_bytes_remaining' = total_bytes_remaining \/ total_bytes_remaining' = total_bytes_remaining - drq_bytes
    BY <1>1, Zenon DEF NextBytes
  <2> QED BY <1>4, <2>2, <2>3, <2>4, Zenon
<1>6. CASE drq_index + len >= drq_bytes
  <2> DEFINE rest == total_bytes_remaining - drq_bytes
  <2>1. /\ drq_index' = 0 /\ total_bytes_remaining' = rest /\ drq' = (rest > 0)
        /\ interrupt_reason' = (IF rest > 0 THEN DATA_IN ELSE DONE)
        /\ byte_count' = (IF rest > 0 THEN Least(rest, byte_count) ELSE byte_count)
        /\ drq_bytes' = (IF rest > 0 THEN byte_count' ELSE drq_bytes)
    BY <1>1, <1>6, Zenon DEF NextBytes
  <2>2. rest \in Int
    BY <1>n
  <2>3. CASE rest > 0
    <3>1. drq_bytes % 2 = 0
      <4>1. drq_bytes # total_bytes_remaining
        BY <2>3, <1>n
      <4> QED BY <4>1, <1>3, Zenon
    <3>2. drq_index + len = drq_bytes
      BY <3>1, <1>5, <1>6, <1>n
    <3>3. drq_bytes' = byte_count' /\ byte_count' = IF rest < byte_count THEN rest ELSE byte_count
      BY <2>1, <2>3, Zenon DEF Least
    <3>4. byte_count' > 0 /\ byte_count' <= rest /\ (byte_count' = rest \/ byte_count' = drq_bytes)
      BY <3>3, <2>2, <2>3, <1>3, <1>n
    <3>5. rest - 0 = total_bytes_remaining - drq_index - len
      BY <3>2, <1>n
    <3>6. drq_bytes' % 2 = 0 \/ drq_bytes' = total_bytes_remaining'
      BY <3>1, <3>3, <3>4, <2>1, Zenon
    <3>7. 0 < byte_count'
      BY <3>3, <2>2, <2>3, <1>3, <1>n
    <3>8. drq' /\ interrupt_reason' = DATA_IN
      BY <2>1, <2>3, Zenon
    <3> HIDE DEF rest
    <3> QED BY <1>2, <1>4, <2>1, <3>3, <3>4, <3>5, <3>6, <3>7, <3>8, Zenon
  <2>4. CASE ~ (rest > 0)
    <3>1. total_bytes_remaining - drq_index <= len
      BY <2>4, <1>3, <1>6, <1>n
    <3>2. ~ drq'
      BY <2>1, <2>4, Zenon
    <3> QED BY <1>2, <1>4, <3>1, <3>2, Zenon
  <2> QED BY <2>3, <2>4, Zenon
<1>7. CASE ~ (drq_index + len >= drq_bytes)
  <2>1. /\ drq_index' = drq_index + len /\ drq' = drq /\ interrupt_reason' = interrupt_reason
        /\ byte_count' = byte_count /\ drq_bytes' = drq_bytes /\ total_bytes_remaining' = total_bytes_remaining
    BY <1>1, <1>7, Zenon
  <2>2. drq_index + len < drq_bytes /\ total_bytes_remaining - (drq_index + len) = total_bytes_remaining - drq_index - len
    BY <1>7, <1>n
  <2> QED BY <1>2, <1>3, <1>4, <2>1, <2>2, Zenon
<1> QED BY <1>6, <1>7, Zenon

\* A read of a READ's data: the block in the buffer is the next one whenever one is
\* loaded, and no read goes past what was asked for.
LEMMA ReadPlace ==
    ASSUME CdInv, NEW len \in Lengths, ReadData(len), ~ strayed', command = "read"
    PROVE  /\ ready' /\ remaining_blocks' >= 0 /\ total_bytes_remaining' % 2 = 0
           /\ ~ wide' => buffer_index' <= BLOCK /\ buffer_index' % 2 = 0
           /\ got' + remaining_blocks' * BLOCK + (BLOCK - buffer_index') = asked' * BLOCK
           /\ next_lba' = (first' + asked' - remaining_blocks') % WORD
           /\ buffer_index' < BLOCK => loaded' = (first' + asked' - remaining_blocks' - 1) % WORD
           /\ (first' + asked') % WORD <= Capacity
           /\ len <= total_bytes_remaining - drq_index
<1>1. InData
  BY ReadDataPart, Zenon
<1>2. Reading
  BY <1>1, InDataPlace, Zenon
<1>3. /\ ready /\ remaining_blocks >= 0 /\ total_bytes_remaining % 2 = 0
      /\ ~ wide => buffer_index <= BLOCK /\ buffer_index % 2 = 0
      /\ got + (total_bytes_remaining - drq_index) = asked * BLOCK
      /\ got + remaining_blocks * BLOCK + (BLOCK - buffer_index) = asked * BLOCK
      /\ next_lba = (first + asked - remaining_blocks) % WORD
      /\ buffer_index < BLOCK => loaded = (first + asked - remaining_blocks - 1) % WORD
      /\ (first + asked) % WORD <= Capacity
  BY <1>2, Zenon DEF CdInv, Placed
<1>4. drq_index < drq_bytes /\ drq_bytes <= total_bytes_remaining
  BY <1>1, Zenon DEF CdInv, Announced
<1>5. /\ ready' = ready
      /\ buffer_index' = (IF Loads THEN 0 ELSE buffer_index) + len
      /\ next_lba' = IF Loads THEN (next_lba + 1) % WORD ELSE next_lba
      /\ remaining_blocks' = IF Loads THEN remaining_blocks - 1 ELSE remaining_blocks
      /\ loaded' = IF Loads THEN next_lba ELSE loaded
      /\ got' = got + len /\ first' = first /\ asked' = asked
      /\ buffer_index <= BLOCK /\ wide' = (wide \/ len # 2)
  BY ReadDataVars, Zenon
<1>e. total_bytes_remaining' % 2 = 0 /\ len <= total_bytes_remaining - drq_index
  BY <1>3, ReadDataPart, Zenon
<1>n. /\ len \in Nat /\ len >= 1 /\ BLOCK \in Nat /\ BLOCK >= 1 /\ BLOCK % 2 = 0 /\ WORD \in Nat /\ WORD > 1
      /\ buffer_index \in Nat /\ drq_index \in Nat /\ drq_bytes \in Nat /\ total_bytes_remaining \in Int
      /\ remaining_blocks \in Int /\ got \in Nat /\ asked \in Nat /\ first \in Nat
  BY SizesAssumption DEF CdInv, TypeOK
<1> DEFINE left == remaining_blocks * BLOCK
           all == asked * BLOCK
<1>6. left \in Nat /\ all \in Nat
  BY <1>3, <1>n
<1>7. CASE buffer_index = BLOCK
  <2>1. Loads
    BY <1>7, Zenon DEF Loads
  <2>2. /\ buffer_index' = 0 + len /\ next_lba' = (next_lba + 1) % WORD /\ remaining_blocks' = remaining_blocks - 1
        /\ loaded' = next_lba
    BY <2>1, <1>5, Zenon
  <2>5. remaining_blocks >= 1
    <3>1. remaining_blocks = 0 => left = 0
      BY <1>n
    <3>2. left >= 1
      <4> HIDE DEF left, all
      <4>1. got + (total_bytes_remaining - drq_index) = all /\ got + left + (BLOCK - buffer_index) = all
        BY <1>3, Zenon DEF left, all
      <4> QED BY <4>1, <1>4, <1>6, <1>7, <1>n
    <3> QED BY <3>1, <3>2, <1>3, <1>n
  <2>6. left = remaining_blocks' * BLOCK + BLOCK /\ remaining_blocks' * BLOCK \in Nat
    <3>1. remaining_blocks - 1 \in Nat
      BY <2>5, <1>n
    <3> QED BY <3>1, <2>2, <1>n
  <2> DEFINE less == remaining_blocks' * BLOCK
  <2>7. got + len + less + (BLOCK - (0 + len)) = all
    <3>1. left = less + BLOCK /\ less \in Nat
      BY <2>6, Zenon
    <3>2. got + (total_bytes_remaining - drq_index) = all /\ got + left + (BLOCK - buffer_index) = all
      BY <1>3, Zenon
    <3> HIDE DEF left, all, less
    <3> QED BY <3>1, <3>2, <1>6, <1>7, <1>n
  <2>8. next_lba' = (first + asked - remaining_blocks') % WORD
    <3>1. first + asked - remaining_blocks \in Int
          /\ first + asked - remaining_blocks' = first + asked - remaining_blocks + 1
      BY <2>2, <1>n
    <3> QED BY <3>1, <2>2, <1>3, NextAddress, Zenon
  <2>9. loaded' = (first + asked - remaining_blocks' - 1) % WORD
    <3>1. first + asked - remaining_blocks' - 1 = first + asked - remaining_blocks
      BY <2>2, <1>n
    <3> QED BY <3>1, <2>2, <1>3, Zenon
  <2>a. remaining_blocks' >= 0 /\ (len = 2 => 0 + len <= BLOCK /\ (0 + len) % 2 = 0)
    BY <2>2, <2>5, <1>n
  <2> QED BY <1>3, <1>5, <1>e, <2>2, <2>7, <2>8, <2>9, <2>a, Zenon
<1>8. CASE buffer_index < BLOCK
  <2>1. ~ Loads
    BY <1>8, <1>n DEF Loads
  <2>2. /\ buffer_index' = buffer_index + len /\ next_lba' = next_lba /\ remaining_blocks' = remaining_blocks
        /\ loaded' = loaded
    BY <2>1, <1>5, Zenon
  <2>4. len = 2 /\ buffer_index % 2 = 0 => buffer_index + len <= BLOCK /\ (buffer_index + len) % 2 = 0
    BY <1>8, <1>n
  <2>5. got + len + left + (BLOCK - (buffer_index + len)) = all
    <3>1. got + (total_bytes_remaining - drq_index) = all /\ got + left + (BLOCK - buffer_index) = all
      BY <1>3, Zenon
    <3> HIDE DEF left, all
    <3> QED BY <3>1, <1>6, <1>n
  <2>6. buffer_index + len < BLOCK => buffer_index < BLOCK
    BY <1>n
  <2> QED BY <1>3, <1>5, <1>e, <2>2, <2>4, <2>5, <2>6, Zenon
<1> QED BY <1>5, <1>7, <1>8, <1>n

\* A read of a packet's data.
LEMMA ReadDataStep ==
    ASSUME CdInv, NEW len \in Lengths, ReadData(len)
    PROVE  CdInv'
<1>0. TypeOK'
  BY ReadDataVars, Zenon
<1>1. vm' = "running" /\ current_command' = "packet" /\ command' = command
  BY ReadDataVars, Zenon
<1>2. CASE strayed'
  BY <1>0, <1>1, <1>2, Zenon DEF CdInv, Wanted, Announced, Replying, Placed, InData, Reading
<1>3. CASE ~ drq' /\ ~ strayed'
  <2>1. drq' = FALSE
    BY <1>0, <1>3, Zenon DEF TypeOK
  <2> QED BY <1>0, <1>1, <2>1, NothingAnnounced, Zenon
<1>4. CASE drq' /\ ~ strayed'
  <2>1. /\ InData /\ interrupt_reason' = DATA_IN
        /\ drq_index' < drq_bytes' /\ drq_bytes' <= total_bytes_remaining' /\ byte_count' = drq_bytes'
        /\ drq_bytes' % 2 = 0 \/ drq_bytes' = total_bytes_remaining'
        /\ total_bytes_remaining' - drq_index' = total_bytes_remaining - drq_index - len
    BY <1>4, ReadDataPart, Zenon
  <2>2. CMD # DATA_IN
    BY DEF CMD, DATA_IN
  <2>3. Wanted'
    BY <1>1, <2>1, <2>2, Zenon DEF Wanted
  <2>4. Announced'
    <3>1. command' \in {"reply", "read"}
      BY <1>1, <2>1, Zenon DEF CdInv, Announced
    <3> QED BY <2>1, <3>1, Zenon DEF Announced
  <2>n. /\ len \in Nat /\ BLOCK \in Nat /\ buffer_index \in Nat /\ drq_index \in Nat
        /\ total_bytes_remaining \in Int /\ got \in Nat /\ asked \in Nat
    BY SizesAssumption DEF CdInv, TypeOK
  <2>5. Replying'
    <3> SUFFICES ASSUME command = "reply"
                 PROVE  buffer_index' + (total_bytes_remaining' - drq_index') <= BLOCK
      BY <1>1, Zenon DEF Replying
    <3>1. buffer_index' = buffer_index + len
      <4>1. ~ Loads
        BY DEF Loads
      <4> QED BY <4>1, ReadDataVars, Zenon
    <3>2. buffer_index + (total_bytes_remaining - drq_index) <= BLOCK
      BY <2>1, Zenon DEF CdInv, Replying
    <3>3. buffer_index + len + (total_bytes_remaining - drq_index - len) <= BLOCK
      BY <3>2, <2>n
    <3> QED BY <2>1, <3>1, <3>3, Zenon
  <2>6. Placed'
    <3> SUFFICES ASSUME command = "read" PROVE Placed'
      BY <1>1, Zenon DEF Placed, Reading
    <3>1. /\ ready' /\ remaining_blocks' >= 0 /\ total_bytes_remaining' % 2 = 0
          /\ ~ wide' => buffer_index' <= BLOCK /\ buffer_index' % 2 = 0
          /\ got' + remaining_blocks' * BLOCK + (BLOCK - buffer_index') = asked' * BLOCK
          /\ next_lba' = (first' + asked' - remaining_blocks') % WORD
          /\ buffer_index' < BLOCK => loaded' = (first' + asked' - remaining_blocks' - 1) % WORD
          /\ (first' + asked') % WORD <= Capacity
      BY <1>4, ReadPlace, Zenon
    <3>2. got' + (total_bytes_remaining' - drq_index') = asked' * BLOCK
      <4>1. got + (total_bytes_remaining - drq_index) = asked * BLOCK
        <5>1. Reading
          BY <2>1, InDataPlace, Zenon
        <5> QED BY <5>1, Zenon DEF CdInv, Placed
      <4>2. got' = got + len /\ asked' = asked
        BY <1>4, ReadDataVars, Zenon
      <4>3. got + len + (total_bytes_remaining - drq_index - len) = asked * BLOCK
        BY <4>1, <2>n
      <4> QED BY <2>1, <4>2, <4>3, Zenon
    <3> QED BY <3>1, <3>2, Zenon DEF Placed
  <2> QED BY <1>0, <1>1, <2>3, <2>4, <2>5, <2>6, Zenon DEF CdInv
<1> QED BY <1>2, <1>3, <1>4, Zenon

\* The drive's invariant.
LEMMA CdInvHolds == Spec => []CdInv
<1>1. CdInv /\ [Next]_vars => CdInv'
  <2> SUFFICES ASSUME CdInv, [Next]_vars PROVE CdInv'
    OBVIOUS
  <2>1. CASE WriteRefused \/ WriteWord
    BY <2>1, WordStep, Zenon
  <2>2. ASSUME NEW p \in Packets, EndPacket(p) \/ Reply(p) \/ ReadCapacity(p) \/ ReadBlocks(p) \/ RefusePacket(p)
        PROVE  CdInv'
    BY <2>2, EndStep, ReplyStep, ReadBlocksStep, Zenon
  <2>3. CASE ReadRefused \/ ReadAsserts
    BY <2>3, ReadRefusedStep, Zenon
  <2>4. ASSUME NEW len \in Lengths, ReadIdentity(len) \/ ReadData(len)
        PROVE  CdInv'
    BY <2>4, ReadIdentityStep, ReadDataStep, Zenon
  <2>5. CASE Identify \/ SendPacket \/ RefuseFeatures \/ \E r, d \in BOOLEAN : WriteControl(r, d)
    BY <2>5, StartStep, Zenon
  <2>6. CASE \/ ReadStatus \/ ReadError \/ AbortCommand
             \/ \E c \in Counts : WriteRegisters(interrupt_reason, c)
             \/ \E r \in Reasons : WriteRegisters(r, byte_count)
             \/ \E d \in {0, 1} : SelectDrive(d)
             \/ UNCHANGED vars
    BY <2>6, PortStep, Zenon
  <2> QED BY <2>1, <2>2, <2>3, <2>4, <2>5, <2>6, Zenon DEF Next
<1> QED BY <1>1, CdInitHolds, PTL DEF Spec

\* The channel's registers keep their types.
THEOREM CdTypeCorrect == Spec => []TypeOK
<1>1. CdInv => TypeOK
  BY Zenon DEF CdInv
<1> QED BY <1>1, CdInvHolds, PTL

\* The byte that read_data_port hands out next is the one after those delivered, in
\* the block of the image that the READ asked for, whatever the byte count, the
\* accesses and the parts they cross.
THEOREM BlocksComeInOrder == Spec => []BlocksInOrder
<1>1. CdInv => BlocksInOrder
  <2> SUFFICES ASSUME CdInv, Reading
               PROVE  /\ got + (total_bytes_remaining - drq_index) = asked * BLOCK
                      /\ got + remaining_blocks * BLOCK + (BLOCK - buffer_index) = asked * BLOCK
                      /\ buffer_index < BLOCK => loaded = (first + got \div BLOCK) % WORD
                      /\ buffer_index < BLOCK /\ first + asked < WORD => loaded < Capacity
    BY Zenon DEF BlocksInOrder
  <2>1. /\ remaining_blocks >= 0
        /\ got + (total_bytes_remaining - drq_index) = asked * BLOCK
        /\ got + remaining_blocks * BLOCK + (BLOCK - buffer_index) = asked * BLOCK
        /\ buffer_index < BLOCK => loaded = (first + asked - remaining_blocks - 1) % WORD
        /\ (first + asked) % WORD <= Capacity
    BY Zenon DEF CdInv, Placed
  <2>n. /\ BLOCK \in Nat /\ BLOCK >= 1 /\ WORD \in Nat /\ WORD > 1 /\ Capacity \in Nat
        /\ buffer_index \in Nat /\ remaining_blocks \in Int /\ got \in Nat /\ asked \in Nat /\ first \in Nat
    BY SizesAssumption DEF CdInv, TypeOK
  <2> DEFINE k == asked - remaining_blocks - 1
  <2>2. ASSUME buffer_index < BLOCK
        PROVE  k \in Nat /\ k < asked /\ got \div BLOCK = k
    <3>1. k \in Int /\ k < asked
      BY <2>1, <2>n
    <3>2. got = BLOCK * k + buffer_index
      BY <2>1, <2>n
    <3>3. got \div BLOCK = k
      <4>1. got \in Int
        BY <2>n
      <4> HIDE DEF k
      <4> QED BY <3>1, <3>2, <4>1, <2>2, <2>n, DivisionIs, Zenon
    <3>4. k >= 0
      <4>1. CASE k <= -1
        <5> HIDE DEF k
        <5>1. BLOCK * k = - BLOCK - BLOCK * (-1 - k) /\ BLOCK * (-1 - k) >= 0
          BY <3>1, <4>1, <2>n
        <5> DEFINE m == BLOCK * k
                   x == BLOCK * (-1 - k)
        <5>2. m = - BLOCK - x /\ x >= 0 /\ got = m + buffer_index /\ x \in Int
          BY <5>1, <3>1, <3>2, <2>n
        <5> HIDE DEF m, x
        <5> QED BY <5>2, <2>2, <2>n
      <4> QED BY <4>1, <3>1
    <3> QED BY <3>1, <3>3, <3>4
  <2>3. buffer_index < BLOCK => loaded = (first + k) % WORD
    <3>1. first + asked - remaining_blocks - 1 = first + k
      BY <2>n
    <3> QED BY <3>1, <2>1, Zenon
  <2> HIDE DEF k
  <2>4. ASSUME buffer_index < BLOCK, first + asked < WORD
        PROVE  loaded < Capacity
    <3>1. k \in Nat /\ k < asked
      BY <2>2, <2>4, Zenon
    <3>2. /\ first + k \in Nat /\ first + k < WORD /\ first + k = WORD * 0 + (first + k) /\ first + k \in Int
          /\ first + asked \in Nat /\ first + asked = WORD * 0 + (first + asked) /\ first + asked \in Int
          /\ 0 \in Int /\ first + k < first + asked
      BY <3>1, <2>4, <2>n
    <3>3. (first + k) % WORD = first + k /\ (first + asked) % WORD = first + asked
      <4>1. (first + k) % WORD = first + k
        BY <3>2, <2>n, DivisionIs, Zenon
      <4>2. (first + asked) % WORD = first + asked
        BY <3>2, <2>4, <2>n, DivisionIs, Zenon
      <4> QED BY <4>1, <4>2, Zenon
    <3>4. loaded = first + k /\ first + asked <= Capacity
      BY <3>3, <2>1, <2>3, <2>4, Zenon
    <3> QED BY <3>2, <3>4, <2>n
  <2> QED BY <2>1, <2>2, <2>3, <2>4, Zenon
<1> QED BY <1>1, CdInvHolds, PTL

\* A driver that reads what is announced, in words, never meets the error returns
\* of the data port, nor a copy past the end of the buffer: blocks are even, and so
\* are the parts of a READ.
THEOREM DriveKeepsPlace == Spec => []KeepsItsPlace
<1>1. CdInv => KeepsItsPlace
  <2> SUFFICES ASSUME CdInv, ~ strayed, ~ wide, drq PROVE buffer_index <= BLOCK
    BY Zenon DEF CdInv, KeepsItsPlace
  <2>n. buffer_index \in Nat /\ BLOCK \in Nat /\ PACKET_SIZE \in Nat /\ PACKET_SIZE <= BLOCK
        /\ ID_SIZE \in Nat /\ ID_SIZE <= BLOCK
    BY SizesAssumption DEF CdInv, TypeOK
  <2>1. \/ buffer_index < PACKET_SIZE
        \/ buffer_index < ID_SIZE
        \/ InData
    BY Zenon DEF CdInv, TypeOK, Wanted, InData
  <2>2. CASE InData
    BY <2>2, InDataPlace, Zenon
  <2> QED BY <2>n, <2>1, <2>2
<1> QED BY <1>1, CdInvHolds, PTL

\* A READ that ends with the completion status delivered what was asked for: of the
\* handlers only NextBytes ends it, and a guest that writes the reason itself strays.
THEOREM ReadsEndComplete == Spec => ReadEndsComplete
<1> DEFINE Ended == Reading /\ current_command' = "packet" /\ interrupt_reason' = DONE /\ ~ strayed'
                       => got' = asked * BLOCK
<1>1. CdInv /\ [Next]_vars => [Ended]_vars
  <2> SUFFICES ASSUME CdInv, Next, Reading, current_command' = "packet", interrupt_reason' = DONE, ~ strayed'
               PROVE  got' = asked * BLOCK
    BY Zenon
  <2>1. ~ strayed /\ drq /\ interrupt_reason = DATA_IN /\ command = "read"
    BY Zenon DEF Reading
  <2>2. DATA_IN # DONE /\ CMD # DATA_IN /\ CMD # DONE
    BY DEF DATA_IN, DONE, CMD
  <2>3. \E len \in Lengths : ReadData(len)
    <3>1. ~ MayWrite
      BY <2>1, <2>2, Zenon DEF MayWrite
    <3>2. ~ (WriteRefused \/ WriteWord) /\ ~ \E p \in Packets : CompletesPacket
      BY <3>1, Zenon DEF WriteRefused, WriteWord, CompletesPacket, Strays
    <3>3. ~ \E p \in Packets : EndPacket(p) \/ Reply(p) \/ ReadCapacity(p) \/ ReadBlocks(p) \/ RefusePacket(p)
      BY <3>2, Zenon DEF EndPacket, Reply, ReadCapacity, ReadBlocks, RefusePacket
    <3>4. ~ (ReadRefused \/ ReadAsserts \/ RefuseFeatures)
      BY Zenon DEF ReadRefused, ReadAsserts, RefuseFeatures, Stop
    <3>5. ~ (ReadStatus \/ ReadError \/ AbortCommand \/ Identify \/ SendPacket)
      BY <2>1, <2>2, Zenon DEF ReadStatus, ReadError, AbortCommand, Identify, SendPacket
    <3>6. ~ \E r, d \in BOOLEAN : WriteControl(r, d)
      BY <2>1, <2>2, Zenon DEF WriteControl, Strays
    <3>7. \A r, c : ~ WriteRegisters(r, c)
      BY <2>1, <2>2, Zenon DEF WriteRegisters, Strays
    <3>8. ~ \E d \in {0, 1} : SelectDrive(d)
      BY <2>1, <2>2, Zenon DEF SelectDrive
    <3>9. ~ \E len \in Lengths : ReadIdentity(len)
      BY <2>1, <2>2, Zenon DEF ReadIdentity
    <3> QED BY <3>2, <3>3, <3>4, <3>5, <3>6, <3>7, <3>8, <3>9, Zenon DEF Next
  <2>4. PICK len \in Lengths : ReadData(len)
    BY <2>3, Zenon
  <2>5. got' = got + len /\ len <= total_bytes_remaining - drq_index
    BY <2>1, <2>4, ReadDataVars, ReadPlace, Zenon
  <2>6. total_bytes_remaining - drq_index <= len
    BY <2>2, <2>4, ReadDataPart, Zenon
  <2>7. got + (total_bytes_remaining - drq_index) = asked * BLOCK
    BY Zenon DEF CdInv, Placed
  <2>8. /\ total_bytes_remaining \in Int /\ drq_index \in Nat /\ got \in Nat /\ len \in Nat
    BY SizesAssumption DEF CdInv, TypeOK
  <2>9. len = total_bytes_remaining - drq_index
    BY <2>5, <2>6, <2>8
  <2> QED BY <2>5, <2>7, <2>9, Zenon
<1> QED BY <1>1, CdInvHolds, PTL DEF Spec, ReadEndsComplete

\* Every change of a packet command's data request or of its total comes with the
\* channel's interrupt.
THEOREM PartsAreAnnounced == Spec => PartsAnnounced
<1> DEFINE Woken == /\ current_command = "packet" /\ current_command' = "packet"
                    /\ interrupt_reason' # CMD
                    /\ <<drq, total_bytes_remaining>>' # <<drq, total_bytes_remaining>>
                    => irq' \/ disable_irq
<1>1. [Next]_vars => [Woken]_vars
  <2> SUFFICES ASSUME Next, current_command = "packet", current_command' = "packet",
                      interrupt_reason' # CMD,
                      <<drq, total_bytes_remaining>>' # <<drq, total_bytes_remaining>>
               PROVE  irq' \/ disable_irq
    BY Zenon
  <2>1. drq' # drq \/ total_bytes_remaining' # total_bytes_remaining
    BY Zenon
  <2>2. CASE WriteRefused \/ WriteWord
    BY <2>1, <2>2, Zenon DEF WriteRefused, WriteWord, Stop
  <2>3. ASSUME NEW p \in Packets, EndPacket(p) \/ Reply(p) \/ ReadCapacity(p) \/ ReadBlocks(p) \/ RefusePacket(p)
        PROVE  irq' \/ disable_irq
    <3>1. CASE RefusePacket(p)
      BY <3>1, Zenon DEF RefusePacket, Stop
    <3>2. CASE EndPacket(p) \/ Reply(p) \/ ReadCapacity(p) \/ ReadBlocks(p)
      <4>1. irq' = (irq \/ ~ disable_irq)
        BY <3>2, Zenon DEF EndPacket, Reply, ReadCapacity, ReadBlocks, Complete, Send, Raise
      <4> QED BY <4>1, Zenon
    <3> QED BY <2>3, <3>1, <3>2, Zenon
  <2>4. CASE ReadRefused \/ ReadAsserts \/ RefuseFeatures
    BY <2>4, Zenon DEF ReadRefused, ReadAsserts, RefuseFeatures, Stop
  <2>5. ASSUME NEW len \in Lengths, ReadIdentity(len) \/ ReadData(len)
        PROVE  irq' \/ disable_irq
    <3>1. ReadData(len)
      BY <2>5, Zenon DEF ReadIdentity
    <3>2. NextBytes
      BY <2>1, <3>1, Zenon DEF ReadData
    <3>3. irq' = (irq \/ ~ disable_irq)
      BY <3>2, Zenon DEF NextBytes, Raise
    <3> QED BY <3>3, Zenon
  <2>6. CASE ReadStatus \/ ReadError \/ AbortCommand
    BY <2>1, <2>6, Groups, Zenon DEF ReadStatus, ReadError, AbortCommand
  <2>7. CASE Identify \/ SendPacket
    BY <2>7, Zenon DEF Identify, SendPacket
  <2>8. ASSUME NEW r, NEW d, WriteControl(r, d)
        PROVE  irq' \/ disable_irq
    BY <2>1, <2>8, Zenon DEF WriteControl
  <2>9. ASSUME NEW r, NEW c, WriteRegisters(r, c)
        PROVE  irq' \/ disable_irq
    BY <2>1, <2>9, Groups, Zenon DEF WriteRegisters
  <2>a. ASSUME NEW d, SelectDrive(d)
        PROVE  irq' \/ disable_irq
    BY <2>1, <2>a, Groups, Zenon DEF SelectDrive
  <2> QED BY <2>2, <2>3, <2>4, <2>5, <2>6, <2>7, <2>8, <2>9, <2>a, Zenon DEF Next
<1> QED BY <1>1, PTL DEF Spec, PartsAnnounced
=============================================================================
