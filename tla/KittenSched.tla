---------------------------- MODULE KittenSched ----------------------------
(***************************************************************************)
(* The tasks of the Kitten host on its CPUs: the run queues (kernel/sched.c *)
(* and kernel/task.c), wait queues (kernel/waitq.c, wait_event in waitq.h), *)
(* sleeping (kernel/timer.c), calls from one CPU to the others              *)
(* (arch/x86_64/kernel/xcall.c) and the points of entry.S at which a task   *)
(* is rescheduled: on the return to user space, never inside the kernel.    *)
(*                                                                         *)
(* A step of a CPU runs from one point at which it can be interrupted, or    *)
(* at which another CPU can see what it did, to the next; the code under a   *)
(* spin lock is one step, except for the loop of waitq_wakeup.  Time is      *)
(* counted in ticks of the local APIC timer of a CPU.                       *)
(***************************************************************************)
EXTENDS Lists, FiniteSets

CONSTANTS
    Cpus,      \* cpu_online_map
    BootCpu,   \* the CPU of init_task
    Tasks,     \* the tasks that task_create can create
    InitTask,  \* the first of them
    MaxSleep,  \* the longest sleep, in ticks
    Idle,      \* the idle task of any CPU
    NoCpu

ASSUME TasksAssumption == InitTask \in Tasks /\ Idle \notin Tasks
ASSUME CpusAssumption == BootCpu \in Cpus /\ NoCpu \notin Cpus /\ IsFiniteSet(Cpus)
ASSUME SleepAssumption == MaxSleep \in Nat \ {0}

VARIABLES
    state,    \* task->state
    cpu,      \* task->cpu_id
    pc,       \* where each task is
    runq,     \* run_queue.task_list of each CPU
    current,  \* the current task of each CPU
    idle,     \* where the idle task of each CPU is
    ipi,      \* the CPUs with a reschedule interrupt pending
    timerq,   \* timer_queue.timer_list of each CPU; left is the ticks to expires
    cond,     \* the condition that wait_event waits for
    waitq,    \* the tasks that have an entry in the wait queue
    waking,   \* what a CPU does in waitq_wakeup
    todo,     \* the entries the loop of waitq_wakeup has yet to reach
    xlock,    \* the CPU that holds xcall_data_lock
    xdata,    \* *xcall_data
    xipi,     \* the CPUs with a cross-call interrupt pending
    handling  \* the local variable wait of the cross-call handler of each CPU

taskVars == <<state, cpu, pc>>
schedVars == <<runq, current, idle>>
waitVars == <<cond, waitq, waking, todo>>
callVars == <<xlock, xdata, xipi, handling>>
vars == <<taskVars, schedVars, ipi, timerq, waitVars, callVars>>

Init ==
    /\ state = [t \in Tasks |-> "READY"]
    /\ cpu = [t \in Tasks |-> IF t = InitTask THEN BootCpu ELSE NoCpu]
    /\ pc = [t \in Tasks |-> IF t = InitTask THEN "leave" ELSE "none"]
    /\ runq = [c \in Cpus |-> IF c = BootCpu THEN <<InitTask>> ELSE <<>>]
    /\ current = [c \in Cpus |-> IF c = BootCpu THEN InitTask ELSE Idle]
    /\ idle = [c \in Cpus |-> "halt"]
    /\ ipi = {}
    /\ timerq = [c \in Cpus |-> <<>>]
    /\ cond = FALSE
    /\ waitq = {} /\ todo = {}
    /\ waking = [c \in Cpus |-> "no"]
    /\ xlock = NoCpu
    /\ xdata = [wait |-> FALSE, started |-> 0, finished |-> 0]
    /\ xipi = {}
    /\ handling = [c \in Cpus |-> "no"]

-----------------------------------------------------------------------------
(* What a CPU is doing. *)

\* The locations at which arch_xcall_function waits with interrupts disabled.
Spinning == {"xstart", "xfinish"}

\* CPU c is not inside a handler or a loop that its task has to wait for.
Undisturbed(c) == waking[c] = "no" /\ handling[c] = "no"

\* The task t runs on CPU c, at location l.
Runs(c, t, l) == t = current[c] /\ t \in Tasks /\ pc[t] = l /\ Undisturbed(c)

Goto(t, l) == pc' = [pc EXCEPT ![t] = l]

InterruptsEnabled(c) ==
    Undisturbed(c) /\ (current[c] \in Tasks => pc[current[c]] \notin Spinning)

\* The vector of cross calls is above those of the timer and of devices: the local
\* APIC delivers a pending cross call first.
NoCallPending(c) == c \notin xipi

\* asm_interrupt: a task interrupted in user space is rescheduled afterwards, the
\* idle task leaves its halt, anything else goes on where it was.
Interrupted(c) ==
    /\ pc' = IF current[c] \in Tasks /\ pc[current[c]] = "user"
             THEN [pc EXCEPT ![current[c]] = "return"] ELSE pc
    /\ idle' = IF current[c] = Idle /\ idle[c] = "halted"
               THEN [idle EXCEPT ![c] = "woken"] ELSE idle

-----------------------------------------------------------------------------
(* sched.c and task.c. *)

RequeueDead(c) ==
    LET prev == current[c]
    IN  IF prev \notin ToSet(runq[c]) THEN runq[c] ELSE Without(runq[c], prev) \o <<prev>>

RequeueInPlace(c) ==
    IF current[c] \in Tasks /\ state[current[c]] = "ZOMBIE" THEN Without(runq[c], current[c])
    ELSE runq[c]

\* The current task goes to the end of the queue, unless it has exited.
Requeue(c) ==
    LET prev == current[c]
    IN  IF prev \notin ToSet(runq[c]) THEN runq[c]
        ELSE Without(runq[c], prev) \o (IF state[prev] = "ZOMBIE" THEN <<>> ELSE <<prev>>)

\* schedule: the first task that is ready, or the idle task.
schedule(c) ==
    LET queue == Requeue(c)
        ready == {i \in DOMAIN queue : state[queue[i]] = "READY"}
    IN  /\ runq' = [runq EXCEPT ![c] = queue]
        /\ current' = [current EXCEPT ![c] = IF ready = {} THEN Idle ELSE queue[Least(ready)]]

\* idle_task_loop: an interrupt between schedule and halt does not keep the CPU
\* from halting.
IdleHalt(c) ==
    /\ current[c] = Idle /\ Undisturbed(c)
    /\ idle[c] = "halt"
    /\ idle' = [idle EXCEPT ![c] = "halted"]
    /\ UNCHANGED <<taskVars, runq, current, ipi, timerq, waitVars, callVars>>

IdleSchedule(c) ==
    /\ current[c] = Idle /\ Undisturbed(c)
    /\ idle[c] = "woken"
    /\ schedule(c)
    /\ idle' = [idle EXCEPT ![c] = "halt"]
    /\ UNCHANGED <<taskVars, ipi, timerq, waitVars, callVars>>

\* The call of schedule before the return to user space, ...
ReturnSchedule(c, t) ==
    /\ Runs(c, t, "return")
    /\ schedule(c)
    /\ Goto(t, "leave")
    /\ UNCHANGED <<state, cpu, idle, ipi, timerq, waitVars, callVars>>

\* ... and the return, of a new task too.
Leave(c, t) ==
    /\ Runs(c, t, "leave")
    /\ Goto(t, "user")
    /\ UNCHANGED <<state, cpu, schedVars, ipi, timerq, waitVars, callVars>>

\* task_create and sched_add_task.
TaskCreate(c, t) ==
    /\ Runs(c, t, "user")
    /\ \E new \in Tasks, target \in Cpus :
          /\ pc[new] = "none"
          /\ cpu' = [cpu EXCEPT ![new] = target]
          /\ pc' = [pc EXCEPT ![t] = "return", ![new] = "leave"]
          /\ runq' = [runq EXCEPT ![target] = Append(@, new)]
          /\ ipi' = ipi \cup ({target} \ {c})
    /\ UNCHANGED <<state, current, idle, timerq, waitVars, callVars>>

\* task_exit.
TaskExit(c, t) ==
    /\ Runs(c, t, "user")
    /\ state' = [state EXCEPT ![t] = "ZOMBIE"]
    /\ Goto(t, "exit")
    /\ UNCHANGED <<cpu, schedVars, ipi, timerq, waitVars, callVars>>

ExitSchedule(c, t) ==
    /\ Runs(c, t, "exit")
    /\ schedule(c)
    /\ Goto(t, "bug")
    /\ UNCHANGED <<state, cpu, idle, ipi, timerq, waitVars, callVars>>

\* sys_task_yield, and any other call that neither blocks nor wakes.
TaskYield(c, t) ==
    /\ Runs(c, t, "user")
    /\ Goto(t, "return")
    /\ UNCHANGED <<state, cpu, schedVars, ipi, timerq, waitVars, callVars>>

\* sched_wakeup_task for each task of ts, called on CPU c.
sched_wakeup_task(c, ts, valid) ==
    LET woken == {t \in ts : state[t] \in valid}
    IN  /\ state' = [t \in Tasks |-> IF t \in woken THEN "READY" ELSE state[t]]
        /\ ipi' = ipi \cup ({cpu[t] : t \in woken} \ {c})

-----------------------------------------------------------------------------
(* waitq.c. *)

WaitqUnlocked == \A c \in Cpus : waking[c] # "loop"

\* wait_event: waitq_prepare_to_wait, on the way in ...
WaitEvent(c, t) ==
    /\ Runs(c, t, "user")
    /\ Goto(t, "prepare")
    /\ UNCHANGED <<state, cpu, schedVars, ipi, timerq, waitVars, callVars>>

PrepareWithoutTest(c, t) ==
    /\ Runs(c, t, "prepare") /\ WaitqUnlocked
    /\ waitq' = waitq \cup {t}
    /\ state' = [state EXCEPT ![t] = "UNINTERRUPTIBLE"]
    /\ Goto(t, "block")
    /\ UNCHANGED <<cpu, schedVars, ipi, timerq, cond, waking, todo, callVars>>

\* ... and again after schedule, when the task still has its entry; ...
PrepareToWait(c, t) ==
    /\ Runs(c, t, "prepare") /\ WaitqUnlocked
    /\ waitq' = waitq \cup {t}
    /\ state' = [state EXCEPT ![t] = "UNINTERRUPTIBLE"]
    /\ Goto(t, "test")
    /\ UNCHANGED <<cpu, schedVars, ipi, timerq, cond, waking, todo, callVars>>

\* ... the test of the condition; ...
TestCondition(c, t) ==
    /\ Runs(c, t, "test")
    /\ Goto(t, IF cond THEN "finish" ELSE "block")
    /\ UNCHANGED <<state, cpu, schedVars, ipi, timerq, waitVars, callVars>>

BlockOnWaitq(c, t) ==
    /\ Runs(c, t, "block")
    /\ schedule(c)
    /\ Goto(t, "prepare")
    /\ UNCHANGED <<state, cpu, idle, ipi, timerq, waitVars, callVars>>

\* ... and waitq_finish_wait.
FinishWait(c, t) ==
    /\ Runs(c, t, "finish")
    /\ state' = [state EXCEPT ![t] = "READY"]
    /\ Goto(t, "remove")
    /\ UNCHANGED <<cpu, schedVars, ipi, timerq, waitVars, callVars>>

RemoveEntry(c, t) ==
    /\ Runs(c, t, "remove") /\ WaitqUnlocked
    /\ waitq' = waitq \ {t}
    /\ Goto(t, "return")
    /\ UNCHANGED <<state, cpu, schedVars, ipi, timerq, cond, waking, todo, callVars>>

\* A task makes the condition true and calls waitq_wakeup, which disables interrupts.
SetCondition(c, t) ==
    /\ Runs(c, t, "user")
    /\ cond' = TRUE
    /\ waking' = [waking EXCEPT ![c] = "spin"]
    /\ Goto(t, "return")
    /\ UNCHANGED <<state, cpu, schedVars, ipi, timerq, waitq, todo, callVars>>

\* The handler of a device does, on the CPU to which the I/O APIC sends its interrupt.
DeviceInterrupt(c) ==
    /\ c = BootCpu /\ InterruptsEnabled(c) /\ NoCallPending(c)
    /\ cond' = TRUE
    /\ waking' = [waking EXCEPT ![c] = "spin"]
    /\ Interrupted(c)
    /\ UNCHANGED <<state, cpu, runq, current, ipi, timerq, waitq, todo, callVars>>

\* A task makes the condition false, as one that waited for it may.
ClearCondition(c, t) ==
    /\ Runs(c, t, "user") /\ cond
    /\ cond' = FALSE
    /\ Goto(t, "return")
    /\ UNCHANGED <<state, cpu, schedVars, ipi, timerq, waitq, waking, todo, callVars>>

\* waitq_wakeup takes the lock of the queue, ...
WakeupLock(c) ==
    /\ waking[c] = "spin" /\ WaitqUnlocked
    /\ waking' = [waking EXCEPT ![c] = "loop"]
    /\ todo' = waitq
    /\ UNCHANGED <<taskVars, schedVars, ipi, timerq, cond, waitq, callVars>>

\* ... wakes the tasks of the entries one by one ...
WakeupEntry(c) ==
    /\ waking[c] = "loop"
    /\ \E t \in todo :
          /\ sched_wakeup_task(c, {t}, {"UNINTERRUPTIBLE", "INTERRUPTIBLE"})
          /\ todo' = todo \ {t}
    /\ UNCHANGED <<cpu, pc, schedVars, timerq, cond, waitq, waking, callVars>>

\* ... and gives the lock back.
WakeupUnlock(c) ==
    /\ waking[c] = "loop" /\ todo = {}
    /\ waking' = [waking EXCEPT ![c] = "no"]
    /\ UNCHANGED <<taskVars, schedVars, ipi, timerq, cond, waitq, todo, callVars>>

-----------------------------------------------------------------------------
(* timer.c. *)

\* timer_add: the list is sorted, a timer goes behind those that expire with it.
timer_add(q, timer) ==
    LET n == Passed(q, {i \in DOMAIN q : q[i].left > timer.left})
    IN  SubSeq(q, 1, n) \o <<timer>> \o SubSeq(q, n + 1, Len(q))

\* timer_sleep_until: the timer is in the list, ...
SleepAdd(c, t) ==
    /\ Runs(c, t, "user")
    /\ \E n \in 1..MaxSleep :
          timerq' = [timerq EXCEPT ![c] = timer_add(@, [task |-> t, left |-> n])]
    /\ Goto(t, "added")
    /\ UNCHANGED <<state, cpu, schedVars, ipi, waitVars, callVars>>

\* ... then the task is no longer ready, ...
SleepMark(c, t) ==
    /\ Runs(c, t, "added")
    /\ state' = [state EXCEPT ![t] = "INTERRUPTIBLE"]
    /\ Goto(t, "marked")
    /\ UNCHANGED <<cpu, schedVars, ipi, timerq, waitVars, callVars>>

\* ... and gives up its CPU.
SleepSchedule(c, t) ==
    /\ Runs(c, t, "marked")
    /\ schedule(c)
    /\ Goto(t, "asleep")
    /\ UNCHANGED <<state, cpu, idle, ipi, timerq, waitVars, callVars>>

SleepReturn(c, t) ==
    /\ Runs(c, t, "asleep")
    /\ Goto(t, "return")
    /\ UNCHANGED <<state, cpu, schedVars, ipi, timerq, waitVars, callVars>>

\* do_apic_timer, expire_timers: the timers at the head of the list that have
\* expired are taken off it and their tasks, if they are asleep, woken.
Tick(c) ==
    /\ InterruptsEnabled(c) /\ NoCallPending(c)
    /\ LET q == [i \in DOMAIN timerq[c] |-> [timerq[c][i] EXCEPT !.left = @ - 1]]
           n == Passed(q, {i \in DOMAIN q : q[i].left > 0})
       IN  /\ timerq' = [timerq EXCEPT ![c] = SubSeq(q, n + 1, Len(q))]
           /\ sched_wakeup_task(c, {q[i].task : i \in 1..n}, {"INTERRUPTIBLE"})
    /\ Interrupted(c)
    /\ UNCHANGED <<cpu, runq, current, waitVars, callVars>>

-----------------------------------------------------------------------------
(* xcall.c. *)

\* arch_xcall_reschedule_interrupt: only the return from it has an effect.
RescheduleInterrupt(c) ==
    /\ InterruptsEnabled(c)
    /\ c \in ipi /\ ipi' = ipi \ {c}
    /\ Interrupted(c)
    /\ UNCHANGED <<state, cpu, runq, current, timerq, waitVars, callVars>>

\* xcall_function for all the CPUs: the caller spins with interrupts enabled, ...
XcallFunction(c, t) ==
    /\ Runs(c, t, "user")
    /\ Goto(t, "xcall")
    /\ UNCHANGED <<state, cpu, schedVars, ipi, timerq, waitVars, callVars>>

\* ... has the lock and sends the interrupts, ...
XcallSend(c, t) ==
    /\ Runs(c, t, "xcall")
    /\ \E wait \in BOOLEAN : xdata' = [wait |-> wait, started |-> 0, finished |-> 0]
    /\ xlock = NoCpu /\ xlock' = c
    /\ xipi' = xipi \cup (Cpus \ {c})
    /\ Goto(t, "xstart")
    /\ UNCHANGED <<state, cpu, schedVars, ipi, timerq, waitVars, handling>>

\* ... waits until every other CPU has started ...
XcallStarted(c, t) ==
    /\ Runs(c, t, "xstart")
    /\ xdata.started = Cardinality(Cpus) - 1
    /\ Goto(t, "xfinish")
    /\ UNCHANGED <<state, cpu, schedVars, ipi, timerq, waitVars, callVars>>

XcallReturnEarly(c, t) ==
    /\ Runs(c, t, "xfinish")
    /\ xlock' = NoCpu
    /\ xdata' = [wait |-> FALSE, started |-> 0, finished |-> 0]
    /\ Goto(t, "return")
    /\ UNCHANGED <<state, cpu, schedVars, ipi, timerq, waitVars, xipi, handling>>

\* ... and, if it has been asked to, until every other CPU has finished.  The data is
\* in its stack frame and gone when it returns.
XcallReturn(c, t) ==
    /\ Runs(c, t, "xfinish")
    /\ xdata.wait => xdata.finished = Cardinality(Cpus) - 1
    /\ xlock' = NoCpu
    /\ xdata' = [wait |-> FALSE, started |-> 0, finished |-> 0]
    /\ Goto(t, "return")
    /\ UNCHANGED <<state, cpu, schedVars, ipi, timerq, waitVars, xipi, handling>>

\* arch_xcall_function_interrupt up to the call of the function.
XcallInterrupt(c) ==
    /\ InterruptsEnabled(c)
    /\ c \in xipi /\ xipi' = xipi \ {c}
    /\ handling' = [handling EXCEPT ![c] = IF xdata.wait THEN "wait" ELSE "nowait"]
    /\ xdata' = [xdata EXCEPT !.started = @ + 1]
    /\ Interrupted(c)
    /\ UNCHANGED <<state, cpu, runq, current, ipi, timerq, waitVars, xlock>>

\* The function has returned.
XcallHandled(c) ==
    /\ handling[c] # "no"
    /\ handling' = [handling EXCEPT ![c] = "no"]
    /\ xdata' = IF handling[c] = "wait" THEN [xdata EXCEPT !.finished = @ + 1] ELSE xdata
    /\ UNCHANGED <<taskVars, schedVars, ipi, timerq, waitVars, xlock, xipi>>

-----------------------------------------------------------------------------
\* What a CPU does without being asked again.
HandlerStep(c) == WakeupLock(c) \/ WakeupEntry(c) \/ WakeupUnlock(c) \/ XcallHandled(c)
TaskStep(c) ==
    \/ IdleHalt(c) \/ IdleSchedule(c)
    \/ \E t \in Tasks :
          \/ ReturnSchedule(c, t) \/ Leave(c, t) \/ ExitSchedule(c, t)
          \/ PrepareToWait(c, t) \/ TestCondition(c, t) \/ BlockOnWaitq(c, t)
          \/ FinishWait(c, t) \/ RemoveEntry(c, t)
          \/ SleepMark(c, t) \/ SleepSchedule(c, t) \/ SleepReturn(c, t)
          \/ XcallSend(c, t) \/ XcallStarted(c, t) \/ XcallReturn(c, t)

SystemCall(c) ==
    \E t \in Tasks :
       \/ TaskCreate(c, t) \/ TaskExit(c, t) \/ TaskYield(c, t)
       \/ WaitEvent(c, t) \/ SetCondition(c, t) \/ ClearCondition(c, t)
       \/ SleepAdd(c, t) \/ XcallFunction(c, t)

Next ==
    \E c \in Cpus :
       \/ HandlerStep(c) \/ TaskStep(c) \/ SystemCall(c)
       \/ Tick(c) \/ DeviceInterrupt(c) \/ RescheduleInterrupt(c) \/ XcallInterrupt(c)

Spec == Init /\ [][Next]_vars

\* A CPU goes on, and gets a spin lock that is free again and again; it is not
\* interrupted every time before the next instruction of its task; a cross call that
\* is pending is taken, and the timer of each CPU goes on ticking.
FairSpec ==
    /\ Spec
    /\ \A c \in Cpus : /\ SF_vars(HandlerStep(c))
                       /\ SF_vars(TaskStep(c))
                       /\ SF_vars(Tick(c) \/ XcallInterrupt(c))

-----------------------------------------------------------------------------
(* Properties *)

\* A task that is not dead is in the queue of its CPU, once, and in no other; no CPU
\* runs another CPU's task, nor one that is dead ("task is dead, so this should
\* never return").
QueuesSound ==
    /\ \A c \in Cpus : \A i, j \in DOMAIN runq[c] : runq[c][i] = runq[c][j] => i = j
    /\ \A c \in Cpus : ToSet(runq[c]) = {t \in Tasks : cpu[t] = c /\ pc[t] # "bug"}
    /\ \A c \in Cpus : current[c] \in ToSet(runq[c]) \cup {Idle}

\* A task that sleeps in wait_event while the condition is true is about to be woken, a
\* task that has returned from its wait is ready again whatever wakeups met it on the
\* way, and no timer that has expired is left in a list, behind one that has not.
NoLostWakeup ==
    /\ \A t \in Tasks :
          state[t] = "UNINTERRUPTIBLE" /\ pc[t] \in {"prepare", "block"} /\ cond =>
             \/ t \in todo
             \/ \E c \in Cpus : waking[c] = "spin"
    /\ \A t \in Tasks : pc[t] \in {"user", "return", "leave"} => state[t] = "READY"
    /\ \A c \in Cpus : \A i \in DOMAIN timerq[c] : timerq[c][i].left > 0

\* What others reach through a pointer into a stack is there: an entry of the wait
\* queue is of a task inside wait_event, a timer of one inside timer_sleep_until, and
\* the cross-call data of a caller that still holds the lock.
FramesLive ==
    /\ \A t \in waitq : pc[t] \in {"prepare", "test", "block", "finish", "remove"}
    /\ \A c \in Cpus : \A i \in DOMAIN timerq[c] :
          pc[timerq[c][i].task] \in {"added", "marked", "asleep"}
    /\ \A c \in Cpus : c \in xipi \/ handling[c] = "wait" => xlock \notin {NoCpu, c}

\* A task that is ready gets its CPU: no lock, no wait for the other CPUs in a cross
\* call and no other task keeps the CPU from it for ever.
ReadyRuns ==
    \A t \in Tasks :
       (cpu[t] # NoCpu /\ state[t] = "READY") ~> (cpu[t] # NoCpu /\ current[cpu[t]] = t)

=============================================================================
