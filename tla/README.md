# A TLA+ model of the Palacios virtual machine monitor and its hosts

Palacios (`palacios/` in this repository) is a virtual machine monitor for one
guest on one processor, started by a small host kernel (GeekOS or Kitten). This
directory models its core, and the threads and schedulers of both hosts, in TLA+,
checks the models with TLC on small instances, and proves the safety properties
that matter most with TLAPS for every value of the constants.

## The system

The VMM runs a loop (`svm.c`): it enters the guest, the processor leaves it with
an exit, `v3_handle_svm_exit` (`svm_handler.c`) handles the exit and injects a
pending interrupt or exception, and the guest is entered again. Everything else
hangs on that loop:

- **Interrupts** (`vmm_intr.c`, `8259a.c`). Devices raise lines of the virtual
  8259A; the exit handler asks it for a vector. Host interrupt handlers raise
  lines too, between any two instructions of the exit handler.
- **Memory** (`vmm_mem.c`, `vmm_config.c`, `vmm_shadow_paging.c`,
  `vmm_ctrl_regs.c`, `vmm_paging.c`). A sorted list of regions gives each guest
  page its host page. With paging on, the processor walks shadow page tables that
  page faults fill in from the guest's own.
- **Devices** (`vmm_io.c`, `vmm_dev_mgr.c`, `vmm_time.c`, `vmm_host_events.c`,
  `src/devices/`). A device hooks ports in its `init`; an I/O exit finds the hook
  in a sorted list. Timers run once per exit. Host events call the keyboard.
- **The GeekOS host** (`geekos/src/geekos/`). Kernel threads on one processor, with
  reference counts and a reaper (`kthread.c`), mutexes and conditions (`synch.c`),
  and interrupts that may preempt the running thread on their way out
  (`lowlevel.asm`). The host's drivers wait for their interrupts through these.
- **The Kitten host** (`kitten/`). Tasks on several CPUs, each with its own run
  queue (`kernel/sched.c`), wait queues (`waitq.c`), timers (`timer.c`) and calls
  from one CPU to the others (`xcall.c`). A task is rescheduled only when it
  returns to user space or blocks (`entry.S`).

`PROJECT.json` lists every part of the repository, modelled or not, the hazards
of the code, and for every definition the lines it models.

## Modules

| Module | Models | State | Actions |
|---|---|---|---|
| `PIC8259` | `8259a.c` | irr, isr, imr as sets of lines, control words, programming state of both chips | raise, lower, the writes to the four ports, begin |
| `SvmIntr` (extends `PIC8259`) | the exit loop, `vmm_intr.c`, the injection block | the thread's place, the pending exception, EVENTINJ, V_IRQ | one per access to the PIC, with host interrupts between any two |
| `ShadowMap` | `vmm_mem.c`, the calls of `v3_config_guest` | the list of regions, the BIOS sizes, the next call | one per call |
| `IoPorts` | what the port map promises | a partial function from ports to devices | hook, unhook, refuse |
| `IoMap` | `vmm_io.c` | the doubly linked list, pointer by pointer | insert at each place, unlink, refuse |
| `DevMgr` (extends `IoMap`) | `vmm_dev_mgr.c`, `vm_dev.c`, the hooks of each configured device | the manager's lists, timers, host events | one per call that `init` or `deinit` makes |
| `Pit8254` | `8254.c`, the calls from `vmm_time.c` | channels, crystal counter, latches | time update, port reads and writes, commands |
| `Keyboard` | `keyboard.c` | controller and mouse state, the one-byte queue, flags | reads split into their stores, writes, host events |
| `ShadowPaging` | `vmm_shadow_paging.c`, CR0/CR3/INVLPG handling | guest tables, shadow tables, the cache of table pages, the access under way | accesses, stores to tables, faults, CR writes, INVLPG |
| `Cdrom` | `ramdisk.c`, `cdrom.c` | the registers of the channel's CD-ROM, its transfer counters | one per port and per way a packet command ends |
| `GeekThreads` | `kthread.c`, `synch.c`, the interrupt return of `lowlevel.asm`, `Wait_For_Key` and its handler | the current thread, the place of each thread, all thread queues, reference counts, the mutex, free pages, keys | one per stretch with interrupts disabled, and one per stretch between two points of possible preemption; ticks and keys |
| `KittenSched` | `sched.c`, `task.c`, `waitq.c`, `timer.c`, `xcall.c`, the calls of `schedule` in `entry.S` | per CPU the run queue, current task, timers, pending interrupts and handler; state and place of each task; the wait queue; the cross-call data | one per step that another CPU or an interrupt can see |

`Lists` holds the helpers on sequences that `IoMap` and `KittenSched` share. The `MC*`
modules give the constants their values; the theorems are in the `*Proofs` modules
and in `GeekThreadsSteps`. An operator that stands before a definition, has its
parameters and is used nowhere is a variant of it with a plausible bug, kept to
show that the properties notice it; `PROJECT.json` pairs each with its property.

`IoMap` implements `IoPorts` (property `ImplementsIoPorts`, with the refinement
mapping from list to function); `DevMgr` composes devices with the port map;
`SvmIntr` composes the exit loop with the PIC. The other components meet only
through what these name: `Pit8254`, `Keyboard` and `Cdrom` raise lines of the PIC,
and `ShadowPaging` takes from the memory map which frames are hooked or invalid.
The hosts' models stand on their own: towards the VMM a host shows only that its
interrupt handlers call into the VMM between any two instructions, and every
module of the VMM that host handlers can reach has them as actions.

## Runs

| Run | Instance | What it shows |
|---|---|---|
| `svm_intr` | from power-on; IRQs 0, 1, 15 (both chips), 1 and 15 raised by the host; two vector bases; an exception with and one without error code | The handler never reaches its "invalid interrupt" branch, the vector is the programmed one, and each exit injects the exception it raised. |
| `svm_intr_booted` | after the BIOS has programmed the PIC, two masks, with fairness | An injected line is in service, or is still requested because a higher line of the master overtook it; once devices are quiet every unmasked request is put in service or lowered by its device, except one that a host handler made inside a load-modify-store of its chip's register and that the store lost. |
| `shadow_map` | six sizes of the BIOS, thirteen of the video BIOS, around each limit; the pages at every region's ends | Lookups find every region, translations do not alias and never change; exactly the overlapping regions are rejected. |
| `dev_mgr` | the configured devices with their ports (three ranges of the generic device), with and without the emulated drives (`use_ramdisk`) | The port list stays sorted and consistent both ways and implements the partial function, the three records of a hook agree and every device gets its ports. |
| `pit` | bytes of one bit (counts of two), two cycles per oscillation, modes 0 to 3 and a refused one, all access modes, with fairness | Guest time is conserved, latched counts are read whole, batches equal single oscillations, mode 0 interrupts once per count and once more after a latch command, a rate generator keeps interrupting. |
| `keyboard` | the whole controller; bytes are known by their role | Interrupts find their byte marked in the queue and in the status. An event in the middle of a read, or of a copy to the status byte, loses the marks that the handler still overwrites, and no others; resets keep their reply; the mouse gives the port back. |
| `shadow` | two directories that share a page table, four pages, a hooked and an invalid frame | The reuse of the shadow is sound, ordinary pages are transparent, pages are dirty before they are written. |
| `shadow_user` | one directory, user and supervisor, with fairness | An access faults exactly when the guest's tables forbid it, and every access ends. |
| `shadow_hooked` | a hooked frame with permissions | Fails: see Disagreements. |
| `cdrom` | blocks of 6 bytes, counts up to 5, a disc of 3 blocks, 8 block addresses | A READ in parts of any size delivers its blocks in order and whole, every part is announced, and the drive keeps its place for a driver that reads in words. |
| `geekos_threads` | main, idle, reaper and one more thread that is created again and again, three pages (so that an allocation fails between its two pages), a queue of one key, with fairness | No queue, handle or mutex leads to a freed thread; a thread to run always exists; the mutex excludes; no wakeup is lost; the dead are reclaimed; `Join` and `Mutex_Lock` go on. |
| `kitten_sched` | two CPUs, two tasks created on either, sleeps of one or two ticks, with fairness | Run queues stay sound; no wakeup of `wait_event` is lost; no timer, wait queue entry or cross-call data is used after its stack frame; a ready task gets its CPU, whatever locks and cross calls are in the way. |

### Why the bounds are enough

- The PIC treats its lines by their order on a chip and by the chip. Three lines
  give two on the master and one on the slave, hence every order that
  `pic_begin_irq` tells apart.
- The memory map depends on its sizes only through comparisons with the fixed
  regions; the sizes lie below, at and above each limit. The proofs cover every ROM
  BIOS, and every video BIOS of up to 48 pages (see Assumptions).
- The forty ports of the configured devices are inserted and removed at the head,
  in the middle and at the end of the list with neighbours on both sides. A port
  that is taken, or unhooked twice, does not occur with this configuration; the
  proofs about `IoMap` alone cover these too.
- A count of two one-bit bytes has a low and a high half that carry into each
  other; the counts 0 and 1, and updates of less than, exactly and several
  oscillations, occur. The proofs cover every width.
- Two directory entries, one page table with one entry and one large page that
  holds the tables reach every branch of the fault handler; two directories
  are needed for a switch back to a cached one. Whether entry 0 itself may change
  between large and small is left to the proofs.
- Parts of 4 bytes do not divide a block of 6, so parts end inside blocks and
  blocks inside parts; odd counts, a count of zero, the largest count, replies shorter and
  longer than their space, and sums of block addresses that wrap occur. The proofs
  cover every size.
- One worker that starts, exits, is joined or not and is started again reaches
  every order of exit, join and reaping. Two threads contend for the mutex and
  meet at the condition; a third would add a second waiter in a queue, which
  the proofs cover: the theorems hold for any number of threads.
- Two CPUs and two tasks have a wakeup from the same and from the other CPU, two
  tasks on one queue, both CPUs calling each other, and a waker that meets a task
  at each step of its wait. A third CPU would only be a second target of a call;
  the proofs cover any number of both.
  A sleep of one tick expires at once, one of two lets a shorter one be inserted
  before it.

### Deadlock

`CHECK_DEADLOCK FALSE` appears where the VM may stop for good: a handler that
returns an error ends the guest, and configuration ends.

### Fairness

- `svm_intr_booted`: weak fairness of the VMM thread, which is a loop with nothing
  to wait for, and strong fairness of an exit that raises nothing, which the host's
  timer forces again and again while the guest runs. Nothing is assumed of devices
  except, in this property, that they become quiet.
- `pit`: weak fairness of `UpdateTime`; `v3_update_time` is called on every exit.
- `shadow_user`: weak fairness of the retried access and of the fault handler, since
  the processor re-executes a faulting instruction.
- `geekos_threads`: strong fairness of a thread that is inside a kernel function
  (a thread that gets the processor again and again is not interrupted each time
  before its first instruction) and of a tick that finds preemption enabled. A
  thread in its own code need do nothing, and may hold the mutex for ever.
- `kitten_sched`: per CPU, strong fairness of the handler that runs (it gets a lock
  that is free again and again), of the task inside the kernel or the idle loop,
  and of the timer tick or a pending cross call. The two interrupts share one
  condition because the vector of cross calls has priority over the timer's.
- No other run assumes any.

## Proofs

All theorems are for every value of the constants that the modules' `ASSUME`s
allow, and all are safety properties.

- **`VmmProofs`**, for three parts of the VMM that share no state.
  *`SvmIntr`*: the inductive invariant adds to the properties where the pending
  exception is at each place of the thread (`ExceptionFlow`), that a request the
  thread has seen stays requested because host handlers only raise
  (`RequestKept`), and that the selected line stays requested between
  `pic_get_intr_number` and `pic_begin_irq` (`LineKept`). `HighestLemma` and
  `VectorLemma` say what the scans of the registers return.
  *`Pit8254`*: the properties are almost inductive together; `FiredPin` adds why a
  mode 0 count stays silent (its output stays high until a latch command).
  `SubtractLoopExists` and `SubtractLoopDivides` say what the loop of the 32-bit
  `do_divll` computes, a recursive function: for a multiple of the divisor it leaves
  the divisor itself as the remainder. `CrystalConserves` is the arithmetic of
  `pit_update_time` for both variants of `do_divll`; the runs check the 32-bit
  variant only. `BatchIsStepwise` compares `handle_crystal_tics` with a
  recursive function, which `StepsExist` shows to exist; `After` is the count that
  both have in closed form, and `AfterMore` the arithmetic of one more oscillation.
  *`ShadowMap`*: only the head of the list is compared with a new region before the
  search starts, so `Ordered` is not preserved by arbitrary calls. `HeadKnown` and
  `FromCalls` say that the regions come from the calls of `v3_config_guest` in
  their order; `CallsClearHead` shows that these never meet the unchecked case. The
  rest follows from lemmas on `add_shadow_region` and the lookup for sorted lists.
- **`IoMapProofs`**, for any set of ports and any sequence of hooks and unhooks. The
  invariant `IoInv` says that there is one sequence of distinct hooks, increasing in
  their ports, that the pointers in both directions follow from the head to the
  end and that `num_ports` counts, and that a hook outside it is free. The walk
  along the forward pointers, a recursive function, exists and yields that sequence
  (`WalkExists`, `WalkFacts`), so a step is proved by naming the sequence it leaves.
  The lemmas on the list say which hook a walk over sorted ports stops at, and what
  the three insertions and the removal do to the pointers and to the function from
  ports to devices. From them follow `ListWellFormed` and the refinement of
  `IoPorts`, one lemma for each abstract action.
- **`DevMgrProofs`**, for any ranges of the generic device that keep clear of the
  other devices' ports (`DevPortsAssumption`). `IoInv` goes on holding; `Attached`
  says that a device is attached once, `Calling` that the calls still to come are
  for ports of the device and that `init` has hooked the others, `Owned` that no
  port is hooked by anyone but the device that asks for it, `Recorded` that the
  manager's list has exactly the hooks of the map and each device's counter is
  the number of its entries. `Owned` needs `Calling` in the middle of an `init`, and
  `Recorded` needs `Owned`: it is why an unhook always finds its entry in both
  lists. `RecordsAgree`, `DevicesComplete`, `ListWellFormed` and the refinement
  hold of the composition.
- **`DeviceProofs`**, for two devices that share no state.
  *`Keyboard`*: `Found` extends the property to states in the middle of a handler,
  where it says which marks the handler is still to overwrite; with it the properties
  are inductive together (`KbdInv`). For
  `ReadsEnd` each state of the mouse's answer gets the number of bytes that follow
  it (`Left`), and every read lowers it.
  *`Cdrom`*, for every even block size, every byte count, access length, disc and packet: a
  transfer is cut into announced parts and into blocks, with a pair of counters for
  each. `Announced` says that part of what is announced is still to be read and that
  only the last part may be odd, hence a driver meets the end of every other part
  exactly; `Replying` that the rest of a reply is in the buffer; `Placed` that both
  pairs of counters say the same of the bytes delivered and that the block in the
  buffer is the one before `next_lba`, modulo 2^32; `Wanted` that a packet or an
  identification ends where its words do. The order of the blocks needs both pairs:
  a block is loaded only because bytes are left (`ReadPlace`), and the last read
  ends with the last block because a READ's total, and so each of its parts, is even.
  That the place stays in the buffer holds for reads of words (`~ wide`): it is even
  and the block is even, so a word does not cross the end.
- **`ShadowPagingProofs`**. The shadow is trusted where the guest has flushed what
  it changed, or where the cache of table pages is valid. `Sync` says what trust
  means for the directory and the pages, and `Protected` why it lasts: no writable
  shadow entry leads to a cached table, so that a store to one is seen. From that
  follow the soundness of the reuse, transparency, dirty bits and, without hooked
  frames, that forbidden accesses fault.
- **`GeekThreadsSteps`, `GeekThreadsProofs`**, for any number of threads and pages.
  `Linked` says that a thread is in at most one queue, once, and in the one its
  location calls for; `Roles` who may be where: preemption is off only for the
  running thread, the idle thread never waits, the reaper only reaps; `Holding` that
  the mutex is held by the one thread in it; `Creating` that a thread under
  construction has one creator; `References` that a thread that can still be joined
  has an owner and a reference for it; `Awake` that for each event that has happened
  someone is on the way; `Types` the rest. None is inductive alone: that a reaped
  thread is in no other queue needs the counts, the counts need the handles, and
  those need to know who may join. `Steps` proves what the queue operators do to
  membership and to `Linked`, then one lemma for each shape of step (a move between
  queues, a wait, a switch, an unlock) and the actions of mutex, condition, keyboard
  and interrupts; `Proofs` has creation, exit, join and reaping, and the theorems on
  `NoDanglingThreads`, `ScheduleFinds`, `MutualExclusion` and `NoLostWakeup`.
- **`KittenSchedProofs`**, for any number of CPUs and tasks and any length of sleep.
  `Queued` is `QueuesSound` and that a task without a CPU has not been created;
  `Placed` says which states a task can be in at each location, so that a task that
  goes on after `schedule` is ready; `Waiting` that a task marked for the wait queue
  has its entry there, that whoever works on the queue has its lock, and that a
  task about to sleep although the condition is true is about to be woken;
  `Timed` that each sleeping task has exactly one timer, in a sorted list;
  `Called` that the caller of a cross call keeps the lock and its CPU and that the
  two counters in its frame count the CPUs that have started and finished.
  `FramesLive` is where they meet: a timer, a wait queue entry and the data of a
  cross call live in stack frames, and each is used only while `Timed`, `Waiting`
  or `Called` pins its owner to the function that has the frame. The counters are
  compared with cardinalities, for any finite set of CPUs.

The theorems of `ShadowPagingProofs` beyond types assume `WellBehavedGuest`: tables
are reached through large pages only, no two directory entries share a page table,
and none is written between the CR3 load and paging on.

The library's induction theorems cannot be instantiated by the provers here. Where
an argument goes along a list or a recursive function, it takes the least position
at which the claim fails (`LeastFacts`, `LeastElement`) and shows that there is none.

Only model-checked: liveness (`RequestsServed`, `RateGenTicks`, `AccessesEnd`,
`DeadAreReclaimed`, `WaitersProceed`, `ReadyRuns`), which is out of the prover's
reach. Every invariant and every action property that a passing run checks is also a
theorem. Some theorems state what no run repeats: the type invariants,
`ExceptionsNeverStack`, `TranslationsBacked`, `CounterStaysAlive`, and the list
invariant and refinement of `IoMap` on its own, without the device manager.

## Assumptions of the models

- One processor: a host interrupt handler runs to its end, a VMM handler may be
  interrupted. `SvmIntr` and `Keyboard` split handlers where that matters; compiled
  with the build's `-O`, some updates of the PIC's registers are a load and a store
  apart, and are split there.
- `ShadowPaging`: a 32-bit guest without PAE; CR0.WP is set (`vmm_paging.c` never
  looks at it); the TLB is flushed on every entry; CR3 is loaded before paging is
  turned on and is not 0; a non-present directory entry keeps its address; an
  INVLPG of a small page does not count as flushing its directory entry.
- `Cdrom`: `strayed` marks a guest that leaves the ATA protocol, for example by
  reading what was not announced, and holds until the next command or reset, which
  in the model comes next. `wide` marks a command whose data was not read in words
  only; `KeepsItsPlace` speaks of the others. The size of a block is even. Every reply has at least one
  byte and fits the buffer (`PacketsAssumption`). A READ of `MAX_LENGTH` blocks at
  most is modelled: from 2^20 blocks on, its length in bytes overflows an `int`.
- `ShadowMap`: the video BIOS has at most 48 pages (192 KB). Nothing in the code
  checks this; a larger one would overlap the ROM BIOS, see below.
- `ShadowPaging` leaves open whether the emulation of an access to a hooked page
  succeeds; a failure stops the VM.
- `GeekThreads`: a thread exits without the mutex; the condition is notified with
  the mutex held, as its comment asks; a thread joins only its own children, as
  `Join` asserts. `g_needReschedule` is the choice of the interrupt that
  preempts: an interrupt may also preempt later than the tick that asked.
- `KittenSched`: memory is sequentially consistent (`set_mb` and the locks are full
  barriers on x86); a handler of a device, on the boot CPU, is one that wakes the
  wait queue. `wait_event` and `xcall_function` are the kernel's interface and have
  no caller in this tree; the model calls them from system calls.
- `Pit8254`: a guest entry is far shorter than 2^32 oscillations.

## Disagreements between the code and its documentation

Shown by a run that fails:

- `shadow_hooked`: the comment in `is_guest_pf` says that the permission fault it
  puts off is sent once the page is mapped in. A hooked page never is, so the
  access is emulated in spite of the guest's permissions.

Met while modelling, kept in the models as they are:

- `pic_begin_irq` and `pic_lower_intr` (`8259a.c:299`, `8259a.c:213`) load, change and
  store a request register with host interrupts enabled; a request that a host
  handler makes in between is lost. `RequestsServed` says so.
- A latch command to the 8254 also sets the channel's mode and access mode and, in
  mode 0, lowers the output (`8254.c:374-401`): a count that has interrupted interrupts
  once more.
- The controller commands C1 and C2 change the status byte in a load and a store
  (`keyboard.c:933-945`); the flag of a byte that arrives in between is lost.
- The drive identifies itself with "32 bits access" (`ramdisk.c:2191`), and
  `read_data_port` copies past its buffer for a 32-bit read across the end of a block,
  which a part of 65534 bytes leads to; the read after it stops the VM
  (`ramdisk.c:558`). `BlocksInOrder` counts such a read, `KeepsItsPlace` excludes it.
- A video BIOS of more than 48 pages is added although it overlaps the ROM BIOS:
  `add_shadow_region` compares only the start of the head of the list with the new
  region (`vmm_mem.c:173-183`).
- `devices/README:39` asks deinit to release every hook. The 8254 and the ramdisk
  release nothing (`8254.c:603`, `ramdisk.c:2380`), the keyboard and the NVRAM keep their host events; the port map,
  the timer list and the event lists then lead to a freed device.
- Kitten's `timer_sleep_until` puts its timer in the list before it marks the task
  (`timer.c:87-90`). A tick between the two finds the task ready and wakes nobody,
  and the task then sleeps without a timer. No property promises the return.
- A reschedule interrupt "causes the target CPU to call schedule()"
  (`kernel/xcall.c:59`) only if it interrupts user space or a halted CPU; between
  the idle task's `schedule` and its `halt` it has no effect until the next tick.
- Kitten's handlers run with interrupts enabled (`entry.S:284`), although
  `kernel/xcall.c:8` says "with interrupts disabled".
- `8259a.c:598` decides from the master's ICW1 whether the slave expects ICW4.
- The branch of `add_shadow_region` marked "This cannot happen!" is reached when a
  video BIOS of 32 KB overlaps the region behind it; the error is ignored.
- A count of zero, the longest on an 8254, divides by zero in the VMM (`8254.c:165`).
- `PullFromOutputQueue` clears the flags of a byte that arrived in its middle; an
  unknown keyboard command announces a byte that is not there; a scan code may
  replace the mouse's acknowledgement.
- A page table that maps itself and is dirty stays writable in the shadow
  (`vmm_shadow_paging.c:607`), which `WellBehavedGuest` excludes; the dirty bit of a
  large page is cleared in the shadow's view when it is rebuilt (line 443).
- A READ of block 0 stops the VMM in an assertion (`cdrom.c`); READ SUB-CHANNEL with
  the Q bit fails and then sends its reply; an eject ignores the medium lock; the
  channels without a drive use interrupt line 0, the timer's.

Met while modelling, in parts that are left out:

- GeekOS' `Create_Thread` appends to the list of all threads with interrupts enabled
  (`kthread.c:140`). Two threads that do so at once can lose one of the new threads
  from the list, and its removal later fails an assertion.
- An owner that exits without `Join` never gives its reference back, and the thread
  is never reaped; `DeadAreReclaimed` speaks of threads without references.
- `Allocate_VMM_Pages` (`geekos/src/geekos/vmm_stubs.c:76`), when a page is not
  contiguous, frees pages it never got and keeps the one it did get.
- `Cond_Wait_Timeout` calls `Start_Timer_MSecs` with interrupts enabled, and the
  timer's code asserts that they are disabled.
- Kitten's `schedule` takes an exited task off its queue without decrementing
  `num_tasks`, which nothing reads.

## Not modelled, and why

`PROJECT.json` gives the reason for each part. The repository holds more than two
hundred thousand lines, and most of them are not the VMM: the lwIP and uIP network
stacks and drivers of GeekOS, Kitten's Linux-derived architecture code, a boot
firmware that runs inside the guest, the headers of the XED library, and tables.
They have no protocol of their own that a property here is about, so the share of
the repository's lines that the modules cover stays small, while the share of the
VMM's stateful code is large.

Of the VMM itself these are left for later, in this order:

1. The IN, OUT, INS and OUTS exits on top of `IoMap`, with repeat counts and
   address translation.
2. The single-stepped instruction of the emulator with its saved pages, on top of
   `ShadowPaging` for hooked pages.
3. The NVRAM's clock and alarm, and the serial port.
4. The hash table: growth with both of its failure paths, refining a set.
5. A composition of `Pit8254`, `Keyboard` and `Cdrom` with `SvmIntr` through the
   lines they raise.

Of the hosts: the page allocators (`mem.c`, Kitten's `buddy.c` and `pmem.c`).
