-------------------------------- MODULE Cdrom --------------------------------
(***************************************************************************)
(* The IDE channel with the CD-ROM (devices/ramdisk.c and cdrom.c): drive 0 *)
(* of the channel is the CD-ROM and drive 1 is absent. The guest reaches it *)
(* through the channel's ports, in any order; a handler runs to its end.    *)
(*                                                                          *)
(* Bytes have no value here. What is kept of the buffer is which block of   *)
(* the image was loaded into it; of a packet, what its handler looks at.    *)
(* Registers that are only read back (head, sector number, LBA mode...),    *)
(* the medium lock, which no handler looks at, and the absent drive's       *)
(* registers, whose command is always 0, are left out.                      *)
(***************************************************************************)
EXTENDS Integers

CONSTANTS
    BLOCK,        \* bytes of a block and of the buffer (2048)
    PACKET_SIZE,  \* bytes of a packet (12)
    ID_SIZE,      \* bytes of the identification (512)
    COUNT_MAX,    \* the largest byte count (0xffff)
    SIGNATURE,    \* the byte count a reset leaves (0xeb14)
    WORD,         \* number of block addresses (2^32)
    Capacity,     \* cdrom.capacity, in blocks
    MAX_LENGTH,   \* blocks of the longest READ whose bytes fit an int (2^20 - 1)
    Lengths,      \* bytes of one access to the data port
    Counts,       \* the byte counts and
    Reasons,      \* the sector counts a guest writes, by their c_d and i_o bits
    Packets       \* the packets a guest sends

ASSUME SizesAssumption ==
    /\ BLOCK \in Nat /\ BLOCK % 2 = 0 /\ PACKET_SIZE \in 1..BLOCK /\ ID_SIZE \in 1..BLOCK
    /\ COUNT_MAX \in Nat /\ COUNT_MAX % 2 = 1
    /\ WORD \in Nat /\ Capacity \in 1..(WORD - 1) /\ MAX_LENGTH \in Nat
    /\ Lengths \subseteq 1..BLOCK
    /\ Counts \cup {SIGNATURE} \subseteq 0..COUNT_MAX

\* A reply fits the buffer, and no reply is empty. A READ looks for the medium,
\* and the product that is its length in bytes does not overflow.
ASSUME PacketsAssumption ==
    Packets \subseteq
        [op : {"nop", "illegal", "unsupported", "eject"}, media : BOOLEAN]
        \cup [op : {"seek"}, media : BOOLEAN, lba : Nat]
        \cup [op : {"data", "capacity"}, media : BOOLEAN, size : 1..BLOCK, alloc : Nat]
        \cup [op : {"read"}, media : {TRUE}, lba : 0..(WORD - 1), length : 0..MAX_LENGTH]

ASSUME ReasonsAssumption == Reasons \subseteq {"c_d", "i_o", "c_d i_o", "none"}

VARIABLES
    drive_select,
    reset,                  \* control.reset, and reset_in_progress with it
    disable_irq,
    busy, drq, err,         \* controller.status
    interrupt_reason,       \* c_d and i_o; the same byte as sector_count
    byte_count,             \* the same word as cylinder_no
    buffer_index, drq_index,
    current_command,
    command,                \* atapi.command: whether it reads blocks
    drq_bytes, total_bytes_remaining,
    ready,                  \* there is a medium
    next_lba, remaining_blocks,
    irq,                    \* the channel's interrupt has not been lowered since
    vm,                     \* what the last handler returned
    loaded,                 \* history: the block in the buffer
    first, asked, got,      \* history: of the READ, its blocks and bytes delivered
    strayed,                \* history: the guest broke the protocol
    wide                    \* history: a read of the command's data was not of a word

control == <<reset, disable_irq>>
transfer == <<buffer_index, drq_index, command, drq_bytes, total_bytes_remaining>>
history == <<loaded, first, asked, got>>
driver == <<strayed, wide>>
medium == <<ready, next_lba, remaining_blocks, history>>
vars == <<drive_select, control, busy, drq, err, interrupt_reason, byte_count,
          current_command, transfer, medium, irq, vm, driver>>

None == -1
CMD == "c_d"            \* c_d = 1, i_o = 0: a packet is wanted
DATA_IN == "i_o"        \* c_d = 0, i_o = 1: data is waiting
DONE == "c_d i_o"       \* both: the command is over
OUT == "none"

\* rd_init_hardware, then v3_ramdisk_register_cdrom: cdrom_insert always
\* finds a medium.
Init ==
    /\ drive_select = 0
    /\ reset = FALSE /\ disable_irq = FALSE
    /\ busy = FALSE /\ drq = FALSE /\ err = FALSE
    /\ interrupt_reason = OUT /\ byte_count = 0
    /\ buffer_index = 0 /\ drq_index = 0
    /\ current_command = "none" /\ command = "none"
    /\ drq_bytes = 0 /\ total_bytes_remaining = 0
    /\ ready = TRUE /\ next_lba = 0 /\ remaining_blocks = 0
    /\ irq = FALSE /\ vm = "running"
    /\ loaded = None /\ first = 0 /\ asked = 0 /\ got = 0
    /\ strayed = FALSE /\ wide = FALSE

Forget == loaded' = None /\ first' = 0 /\ asked' = 0 /\ got' = 0

\* rd_raise_interrupt.
Raise == irq' = (irq \/ ~ disable_irq)

\* The handler returns an error: "refused" for a request it does not support,
\* "broken" where it finds its own state out of order, "assert" where it spins
\* in V3_ASSERT. The guest does not run again, and the drive's
\* state goes with it.
Stop(how) ==
    /\ vm' = how
    /\ drive_select' = 0 /\ reset' = FALSE /\ disable_irq' = FALSE
    /\ busy' = FALSE /\ drq' = FALSE /\ err' = FALSE
    /\ interrupt_reason' = OUT /\ byte_count' = 0
    /\ current_command' = "none" /\ command' = "none"
    /\ buffer_index' = 0 /\ drq_index' = 0
    /\ drq_bytes' = 0 /\ total_bytes_remaining' = 0
    /\ ready' = FALSE /\ next_lba' = 0 /\ remaining_blocks' = 0
    /\ irq' = FALSE
    /\ Forget

(***************************************************************************)
(* What a driver that follows the ATA protocol does not do. strayed holds   *)
(* from such a step to the next command or reset, which comes next: this    *)
(* bounds the model, in which no count then grows without end.              *)
(***************************************************************************)
Strays(breaks) == ~ strayed /\ strayed' = breaks /\ UNCHANGED wide

\* A word may run past an odd count; nothing else runs past the data.
Overruns(len) ==
    \/ len > drq_bytes - drq_index + (drq_bytes % 2)
    \/ len > 2 /\ len > drq_bytes - drq_index

MayRead(len) ==
    /\ drive_select = 0 /\ drq
    /\ \/ current_command = "identify" /\ buffer_index + len <= ID_SIZE
       \/ /\ current_command = "packet" /\ interrupt_reason = DATA_IN
          /\ ~ Overruns(len)

Reads(len) == ~ strayed /\ strayed' = ~ MayRead(len) /\ wide' = (wide \/ len # 2)

MayWrite == drive_select = 0 /\ drq /\ current_command = "packet" /\ interrupt_reason = CMD

(***************************************************************************)
(* The ends of a packet command.                                           *)
(***************************************************************************)

\* rd_atapi_cmd_error or rd_atapi_cmd_nop, and the interrupt after it.
Complete(failed) ==
    /\ interrupt_reason' = DONE
    /\ busy' = FALSE /\ drq' = FALSE /\ err' = failed
    /\ Raise

Least(a, b) == IF a < b THEN a ELSE b

\* The byte count that rd_init_send_atapi_command starts from: even, unless it
\* covers all that is allowed.
EvenCount(alloc) ==
    LET c == IF byte_count = COUNT_MAX THEN COUNT_MAX - 1 ELSE byte_count
    IN IF c % 2 = 1 /\ alloc > c THEN c - 1 ELSE c

\* The first block is not forced to be loaded.
InitSendEager(cmd, req, alloc, lazy) ==
    LET c == EvenCount(alloc)
        a == IF alloc = 0 THEN c ELSE alloc
    IN /\ byte_count' = Least(c, Least(req, a))
       /\ drq_bytes' = byte_count'
       /\ total_bytes_remaining' = Least(req, a)
       /\ buffer_index' = 0
       /\ drq_index' = 0
       /\ command' = cmd

\* rd_init_send_atapi_command, which succeeds when the count is not zero.
InitSend(cmd, req, alloc, lazy) ==
    LET c == EvenCount(alloc)
        a == IF alloc = 0 THEN c ELSE alloc
    IN /\ byte_count' = Least(c, Least(req, a))
       /\ drq_bytes' = byte_count'
       /\ total_bytes_remaining' = Least(req, a)
       /\ buffer_index' = IF lazy THEN BLOCK ELSE 0
       /\ drq_index' = 0
       /\ command' = cmd

\* InitSend, and rd_ready_to_send_atapi.
Send(cmd, req, alloc, lazy) ==
    /\ InitSend(cmd, req, alloc, lazy)
    /\ interrupt_reason' = DATA_IN
    /\ busy' = FALSE /\ drq' = TRUE /\ err' = FALSE
    /\ Raise

(***************************************************************************)
(* Writes to the data port: the words of a packet (write_data_port and      *)
(* handle_atapi_packet_command). A packet is a record: op is what its       *)
(* handler does, media whether it needs the medium first, size and alloc    *)
(* the reply's size and the space for it, lba and length the blocks.        *)
(***************************************************************************)
Running == vm = "running"

WritesPacket == Running /\ drive_select = 0 /\ current_command = "packet"

\* No packet is expected: write_data_port's default, or a packet too long.
WriteRefused ==
    /\ Running
    /\ \/ drive_select = 1
       \/ current_command # "packet"
       \/ buffer_index >= PACKET_SIZE
    /\ Strays(~ MayWrite)
    /\ Stop("broken")

\* A word that does not complete the packet.
WriteWord ==
    /\ WritesPacket
    /\ buffer_index + 2 < PACKET_SIZE
    /\ buffer_index' = buffer_index + 2
    /\ loaded' = None
    /\ Strays(~ MayWrite)
    /\ UNCHANGED <<drive_select, control, busy, drq, err, interrupt_reason,
                   byte_count, current_command, drq_index, command, drq_bytes,
                   total_bytes_remaining, ready, next_lba, remaining_blocks,
                   first, asked, got, irq, vm>>

CompletesPacket ==
    /\ WritesPacket
    /\ buffer_index < PACKET_SIZE /\ buffer_index + 2 >= PACKET_SIZE
    /\ Strays(~ MayWrite)

\* The check of a READ adds 32-bit numbers; a SEEK may go to the first block
\* past the end.
OutOfRange(p) ==
    \/ p.op = "read" /\ p.length # 0 /\ (p.lba + p.length) % WORD > Capacity
    \/ p.op = "seek" /\ p.lba > Capacity

Fails(p) == (p.media /\ ~ ready) \/ p.op = "illegal" \/ OutOfRange(p)

\* The command ends at once, with an error or with nothing to do.
EndPacket(p) ==
    /\ CompletesPacket
    /\ \/ Fails(p) /\ p.op # "capacity"
       \/ p.op \in {"nop", "seek", "eject"}
       \/ p.op = "read" /\ p.length = 0
    /\ Complete(Fails(p))
    /\ ready' = (ready /\ p.op # "eject")
    /\ buffer_index' = buffer_index + 2
    /\ loaded' = None
    /\ UNCHANGED <<drive_select, control, byte_count, current_command, drq_index,
                   command, drq_bytes, total_bytes_remaining, next_lba,
                   remaining_blocks, first, asked, got, vm>>

\* The command sends a reply. READ SUB-CHANNEL with the Q bit set first ends
\* with an error and then sends its reply all the same.
Reply(p) ==
    /\ CompletesPacket
    /\ p.op = "data" /\ ~ Fails(p)
    /\ EvenCount(p.alloc) # 0
    /\ Send("reply", p.size, p.alloc, FALSE)
    /\ loaded' = None
    /\ UNCHANGED <<drive_select, control, current_command, ready, next_lba,
                   remaining_blocks, first, asked, got, vm>>

\* READ CAPACITY starts its reply before it looks for the medium.
ReadCapacity(p) ==
    /\ CompletesPacket
    /\ p.op = "capacity"
    /\ EvenCount(p.alloc) # 0
    /\ InitSend("reply", p.size, p.alloc, FALSE)
    /\ IF ready THEN Send("reply", p.size, p.alloc, FALSE) ELSE Complete(TRUE)
    /\ loaded' = None
    /\ UNCHANGED <<drive_select, control, current_command, ready, next_lba,
                   remaining_blocks, first, asked, got, vm>>

\* READ (10) and READ (12): the first block is loaded by the first read.
ReadBlocks(p) ==
    /\ CompletesPacket
    /\ p.op = "read" /\ p.length # 0 /\ ~ Fails(p)
    /\ EvenCount(p.length * BLOCK) # 0
    /\ Send("read", p.length * BLOCK, p.length * BLOCK, TRUE)
    /\ remaining_blocks' = p.length
    /\ next_lba' = p.lba
    /\ loaded' = None
    /\ first' = p.lba /\ asked' = p.length /\ got' = 0
    /\ UNCHANGED <<drive_select, control, current_command, ready, vm>>

\* What a packet may ask that the handler answers with an error: an unsupported
\* variant, or a reply with no byte count to send it in.
RefusePacket(p) ==
    /\ CompletesPacket
    /\ \/ p.op = "unsupported" /\ ~ Fails(p)
       \/ p.op = "data" /\ ~ Fails(p) /\ EvenCount(p.alloc) = 0
       \/ p.op = "capacity" /\ EvenCount(p.alloc) = 0
       \/ p.op = "read" /\ ~ Fails(p) /\ p.length # 0 /\ EvenCount(p.length * BLOCK) = 0
    /\ Stop("refused")

(***************************************************************************)
(* Reads of the data port (read_data_port).                                 *)
(***************************************************************************)

\* The used-up buffer is noticed one read late.
LoadsLate == command = "read" /\ buffer_index > BLOCK

\* A block is loaded when the last one is used up.
Loads == command = "read" /\ buffer_index = BLOCK

ReadRefused ==
    /\ Running
    /\ \/ drive_select = 1
       \/ current_command = "none"
       \/ current_command = "packet" /\ (buffer_index > BLOCK \/ (Loads /\ ~ ready))
    /\ \E len \in Lengths : Strays(~ MayRead(len))
    /\ Stop("broken")

\* cdrom_read_block asserts that the block is not block 0.
ReadAsserts ==
    /\ Running /\ drive_select = 0 /\ current_command = "packet"
    /\ Loads /\ ready /\ next_lba = 0
    /\ \E len \in Lengths : Strays(~ MayRead(len))
    /\ Stop("assert")

\* Reading on after the identification is bounded here, at the buffer's end.
ReadIdentity(len) ==
    /\ Running /\ drive_select = 0 /\ current_command = "identify"
    /\ buffer_index < BLOCK
    /\ busy' = FALSE /\ err' = FALSE
    /\ buffer_index' = buffer_index + len
    /\ drq' = (drq /\ buffer_index' < ID_SIZE)
    /\ Strays(~ MayRead(len))
    /\ UNCHANGED <<drive_select, control, interrupt_reason, byte_count,
                   current_command, drq_index, command, drq_bytes,
                   total_bytes_remaining, medium, irq, vm>>

\* The last part keeps the full byte count.
NextBytesFull ==
    LET rest == total_bytes_remaining - drq_bytes
    IN /\ drq_index' = 0
       /\ total_bytes_remaining' = rest
       /\ busy' = FALSE
       /\ drq' = (rest > 0)
       /\ interrupt_reason' = IF rest > 0 THEN DATA_IN ELSE DONE
       /\ err' = (err /\ rest > 0)
       /\ byte_count' = byte_count
       /\ drq_bytes' = IF rest > 0 THEN byte_count' ELSE drq_bytes
       /\ Raise

\* Only the end of the command is announced.
NextBytesQuiet ==
    LET rest == total_bytes_remaining - drq_bytes
    IN /\ drq_index' = 0
       /\ total_bytes_remaining' = rest
       /\ busy' = FALSE
       /\ drq' = (rest > 0)
       /\ interrupt_reason' = IF rest > 0 THEN DATA_IN ELSE DONE
       /\ err' = (err /\ rest > 0)
       /\ byte_count' = IF rest > 0 THEN Least(rest, byte_count) ELSE byte_count
       /\ drq_bytes' = IF rest > 0 THEN byte_count' ELSE drq_bytes
       /\ irq' = (irq \/ (rest <= 0 /\ ~ disable_irq))

\* The announced bytes have been read: announce the next ones, or the end.
NextBytes ==
    LET rest == total_bytes_remaining - drq_bytes
    IN /\ drq_index' = 0
       /\ total_bytes_remaining' = rest
       /\ busy' = FALSE
       /\ drq' = (rest > 0)
       /\ interrupt_reason' = IF rest > 0 THEN DATA_IN ELSE DONE
       /\ err' = (err /\ rest > 0)
       /\ byte_count' = IF rest > 0 THEN Least(rest, byte_count) ELSE byte_count
       /\ drq_bytes' = IF rest > 0 THEN byte_count' ELSE drq_bytes
       /\ Raise

ReadData(len) ==
    /\ Running /\ drive_select = 0 /\ current_command = "packet"
    /\ buffer_index <= BLOCK
    /\ Loads => (ready /\ next_lba # 0)
    /\ Reads(len)
    /\ total_bytes_remaining >= 0     \* bounds the reads that nothing announced
    /\ buffer_index' = (IF Loads THEN 0 ELSE buffer_index) + len
    /\ next_lba' = IF Loads THEN (next_lba + 1) % WORD ELSE next_lba
    /\ remaining_blocks' = IF Loads THEN remaining_blocks - 1 ELSE remaining_blocks
    /\ IF strayed'
       THEN Forget
       ELSE /\ loaded' = IF Loads THEN next_lba ELSE loaded
            /\ got' = got + len
            /\ UNCHANGED <<first, asked>>
    /\ IF drq_index + len >= drq_bytes
       THEN NextBytes
       ELSE /\ drq_index' = drq_index + len
            /\ UNCHANGED <<busy, drq, err, interrupt_reason, byte_count, drq_bytes,
                           total_bytes_remaining, irq>>
    /\ UNCHANGED <<drive_select, control, current_command, command, ready, vm>>

(***************************************************************************)
(* The other ports.                                                        *)
(***************************************************************************)

\* read_status_port, through the command port; through the control port it
\* changes nothing.
ReadStatus ==
    /\ Running
    /\ irq' = FALSE
    /\ UNCHANGED <<drive_select, control, busy, drq, err, interrupt_reason,
                   byte_count, current_command, transfer, medium, vm, driver>>

\* write_cmd_port: a command to the absent drive is aborted.
AbortCommand ==
    /\ Running /\ drive_select = 1
    /\ Raise
    /\ UNCHANGED <<drive_select, control, busy, drq, err, interrupt_reason,
                   byte_count, current_command, transfer, medium, vm, driver>>

Identify ==
    /\ Running /\ drive_select = 0
    /\ current_command' = "identify"
    /\ busy' = FALSE /\ drq' = TRUE /\ err' = FALSE
    /\ buffer_index' = 0
    /\ Forget
    /\ Raise
    /\ strayed' = FALSE /\ wide' = FALSE
    /\ UNCHANGED <<drive_select, control, interrupt_reason, byte_count, drq_index,
                   command, drq_bytes, total_bytes_remaining, ready, next_lba,
                   remaining_blocks, vm>>

\* The PACKET command, by a guest that asked for no DMA and no overlap in the
\* features register: it may write the register at any time, so that its value
\* is an input of the command.
SendPacket ==
    /\ Running /\ drive_select = 0
    /\ current_command' = "packet"
    /\ interrupt_reason' = CMD
    /\ busy' = FALSE /\ drq' = TRUE /\ err' = FALSE
    /\ buffer_index' = 0
    /\ strayed' = FALSE /\ wide' = FALSE
    /\ Forget
    /\ UNCHANGED <<drive_select, control, byte_count, drq_index, command, drq_bytes,
                   total_bytes_remaining, ready, next_lba, remaining_blocks, irq, vm>>

RefuseFeatures ==
    /\ Running /\ drive_select = 0
    /\ Stop("refused")
    /\ UNCHANGED driver

\* write_ctrl_port: the reset begins, ends, or neither.
WriteControl(r, d) ==
    /\ Running
    /\ reset' = r
    /\ disable_irq' = (d /\ ~ (r /\ ~ reset))
    /\ IF r /\ ~ reset
       THEN /\ busy' = TRUE /\ drq' = FALSE /\ err' = FALSE
            /\ current_command' = "none"
            /\ buffer_index' = 0
            /\ irq' = FALSE
            /\ strayed' = FALSE /\ wide' = FALSE
            /\ Forget
            /\ UNCHANGED <<interrupt_reason, byte_count>>
       ELSE /\ busy' = (busy /\ ~ (reset /\ ~ r))
            /\ interrupt_reason' = IF reset /\ ~ r THEN CMD ELSE interrupt_reason
            /\ byte_count' = IF reset /\ ~ r THEN SIGNATURE ELSE byte_count
            /\ Strays(drq /\ reset /\ ~ r)
            /\ UNCHANGED <<drq, err, current_command, buffer_index, irq, history>>
    /\ UNCHANGED <<drive_select, drq_index, command, drq_bytes,
                   total_bytes_remaining, ready, next_lba, remaining_blocks, vm>>

\* read_general_port, of the error register.
ReadError ==
    /\ Running /\ drive_select = 0
    /\ err' = FALSE
    /\ UNCHANGED <<drive_select, control, busy, drq, interrupt_reason, byte_count,
                   current_command, transfer, medium, irq, vm, driver>>

\* write_general_port: the registers of both drives are written. The byte count
\* is written in two halves, each of which leaves some count.
WriteRegisters(r, c) ==
    /\ Running
    /\ interrupt_reason' = r /\ byte_count' = c
    /\ Strays(drq /\ (r # interrupt_reason \/ c # byte_count))
    /\ UNCHANGED <<drive_select, reset, disable_irq, busy, drq, err,
                   current_command, transfer, medium, irq, vm>>

\* Selecting the absent drive leaves the error with the drive selected before.
SelectDrive(d) ==
    /\ Running
    /\ drive_select' = d
    /\ err' = (err \/ (drive_select = 0 /\ d = 1))
    /\ Strays(drq /\ d = 1)
    /\ UNCHANGED <<control, busy, drq, interrupt_reason, byte_count,
                   current_command, transfer, medium, irq, vm>>

Next ==
    \/ WriteRefused \/ WriteWord
    \/ \E p \in Packets : \/ EndPacket(p) \/ Reply(p) \/ ReadCapacity(p)
                          \/ ReadBlocks(p) \/ RefusePacket(p)
    \/ ReadRefused \/ ReadAsserts
    \/ \E len \in Lengths : ReadIdentity(len) \/ ReadData(len)
    \/ ReadStatus \/ ReadError
    \/ AbortCommand \/ Identify \/ SendPacket \/ RefuseFeatures
    \/ \E r, d \in BOOLEAN : WriteControl(r, d)
    \/ \E c \in Counts : WriteRegisters(interrupt_reason, c)
    \/ \E r \in Reasons : WriteRegisters(r, byte_count)
    \/ \E d \in {0, 1} : SelectDrive(d)

Spec == Init /\ [][Next]_vars

(***************************************************************************)
(* Properties.                                                             *)
(***************************************************************************)
\* The channel's registers keep their types; only a total that was overrun is
\* negative.
TypeOK ==
    /\ drive_select \in {0, 1}
    /\ reset \in BOOLEAN /\ disable_irq \in BOOLEAN /\ busy \in BOOLEAN /\ drq \in BOOLEAN
    /\ err \in BOOLEAN /\ ready \in BOOLEAN /\ irq \in BOOLEAN
    /\ strayed \in BOOLEAN /\ wide \in BOOLEAN
    /\ interrupt_reason \in {CMD, DATA_IN, DONE, OUT}
    /\ byte_count \in 0..COUNT_MAX
    /\ buffer_index \in Nat /\ drq_index \in Nat /\ drq_bytes \in Nat
    /\ got \in Nat /\ first \in Nat /\ asked \in Nat
    /\ current_command \in {"none", "identify", "packet"}
    /\ command \in {"none", "reply", "read"}
    /\ total_bytes_remaining \in Int /\ remaining_blocks \in Int /\ loaded \in Int
    /\ next_lba \in 0..(WORD - 1)
    /\ vm \in {"running", "refused", "broken", "assert"}

\* A data phase of a READ by a driver that keeps to the protocol.
Reading ==
    /\ ~ strayed /\ drq
    /\ current_command = "packet" /\ interrupt_reason = DATA_IN /\ command = "read"

\* read_data_port hands out a READ's blocks in order and whole: while data is
\* announced, what the drive still has to send, by its count of bytes, is what
\* the request has left; and, by its count of blocks and its place in the
\* buffer, the next byte is the one after those delivered, in a block of the
\* image (a request whose sum does not wrap). A 32-bit read across the end of a
\* block counts with its four bytes, though the last two come from behind the
\* buffer; the drive then has no next byte.
BlocksInOrder ==
    Reading =>
        /\ got + (total_bytes_remaining - drq_index) = asked * BLOCK
        /\ got + remaining_blocks * BLOCK + (BLOCK - buffer_index) = asked * BLOCK
        /\ buffer_index < BLOCK => loaded = (first + got \div BLOCK) % WORD
        /\ buffer_index < BLOCK /\ first + asked < WORD => loaded < Capacity

\* A READ ends with the completion status when every byte asked for, and no
\* other, was delivered.
ReadEndsComplete ==
    [][Reading /\ current_command' = "packet" /\ interrupt_reason' = DONE /\ ~ strayed'
       => got' = asked * BLOCK]_vars

\* A driver that reads what is announced, in words, never loses its place,
\* whatever byte counts it programs: no copy leaves the buffer ("JRL: CHECK THAT
\* there is enough data in the buffer to copy"), and the VM does not stop with an
\* error return of the data port. It is not so for 32-bit reads, which the drive
\* announces in its identification ("32 bits access"): after a part of 65534
\* bytes they cross the end of a block, and the next read stops the VM.
KeepsItsPlace ==
    ~ strayed /\ ~ wide =>
       /\ vm # "broken"
       /\ drq => buffer_index <= BLOCK

\* Whenever a packet command has new bytes for the guest, or ends, the channel's
\* interrupt is raised unless the guest masked it: the driver that sleeps until
\* then is woken for every part of a transfer.
PartsAnnounced ==
    [][/\ current_command = "packet" /\ current_command' = "packet"
       /\ interrupt_reason' # CMD
       /\ <<drq, total_bytes_remaining>>' # <<drq, total_bytes_remaining>>
       => irq' \/ disable_irq]_vars
=============================================================================
