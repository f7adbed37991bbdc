---------------------------- MODULE GeekThreads ----------------------------
(***************************************************************************)
(* The kernel threads of the GeekOS host (geekos/src/geekos/kthread.c), the *)
(* mutexes and conditions built on them (synch.c), the return path of       *)
(* interrupts that preempts a thread (lowlevel.asm) and the keyboard driver *)
(* as the interrupt handler that wakes waiting threads (keyboard.c).        *)
(*                                                                         *)
(* There is one processor.  A stretch of code that runs with interrupts     *)
(* disabled is one step, up to the Schedule that ends it; where interrupts  *)
(* are enabled every call boundary is a point at which the thread may be    *)
(* interrupted, and preempted unless g_preemptionDisabled is set.  Whether  *)
(* a tick ends a quantum is left open, so g_needReschedule is the choice    *)
(* between the interrupt actions.                                          *)
(*                                                                         *)
(* The list of all threads is left out, and with it what reads it: debug    *)
(* output, and Lookup_Thread, by which the time-out of a condition finds    *)
(* its thread.                                                             *)
(***************************************************************************)
EXTENDS Integers, Sequences, FiniteSets

CONSTANTS
    Main, Idle, Reaper,  \* the threads Init_Scheduler sets up
    Workers,             \* the pages Start_Kernel_Thread may turn into threads
    FreePages,           \* the free pages after Init_Scheduler
    MaxKeys,             \* the capacity of the keyboard driver's queue
    NoThread             \* the null pointer

ASSUME ThreadsDistinct ==
    /\ Main # Idle /\ Main # Reaper /\ Idle # Reaper
    /\ {Main, Idle, Reaper} \cap Workers = {}
    /\ NoThread \notin Workers \cup {Main, Idle, Reaper}
\* Two pages for each worker: when a page is left for a stack, one is for an object.
ASSUME PagesAssumption == FreePages \in Nat /\ FreePages <= 2 * Cardinality(Workers) + 1
ASSUME KeysAssumption == MaxKeys \in Nat \ {0}

Threads == Workers \cup {Main, Idle, Reaper}
\* The threads that run arbitrary kernel code.
Apps == Workers \cup {Main}

Shared == {"run", "mutex", "cond", "key", "reaper", "graveyard", "corpses"}
\* A thread names its own joinQueue.
Queues == Shared \cup Threads
ASSUME QueueNamesDistinct == Shared \cap (Threads \cup {NoThread}) = {}

VARIABLES
    cur,         \* g_currentThread
    pc,          \* where each thread is
    queue,       \* the Thread_Queues; "corpses" is the list the reaper took
    preemptOff,  \* g_preemptionDisabled
    holder,      \* mutex->owner, NoThread when mutex->state is MUTEX_UNLOCKED
    inside,      \* ghost: the threads that have returned from taking the mutex
    refCount,    \* kthread->refCount
    owner,       \* kthread->owner
    arg,         \* the thread a thread is starting or joining
    handles,     \* the threads a thread has started and may still join
    pages,       \* g_freePageCount
    keys         \* the number of keycodes in s_queue

threadVars == <<refCount, owner, arg, handles, pages>>
vars == <<cur, pc, queue, preemptOff, holder, inside, threadVars, keys>>

\* The locations at which a thread runs with interrupts enabled ...
Preemptible == {"run", "alloc", "start", "exiting", "destroy"}
\* ... and with preemption disabled; ...
Critical == {"lock", "unlock", "cwait", "cblock"}
\* ... those at which it resumes with interrupts disabled; ...
Suspended == {"lockwait", "condwait", "join", "key", "reap"}
\* ... and the states of a page that is no running thread: not allocated as
\* one, not yet runnable, finished.
NotRunning == {"free", "new", "dead"}

Alive(t) == pc[t] \notin {"free", "exiting", "dead"}

Init ==
    /\ cur = Main
    /\ pc = [t \in Threads |-> CASE t \in {Main, Idle} -> "run"
                                 [] t = Reaper -> "reap"
                                 [] OTHER -> "free"]
    /\ queue = [n \in Queues |-> IF n = "run" THEN <<Idle, Reaper>> ELSE <<>>]
    /\ preemptOff = FALSE
    /\ holder = NoThread
    /\ inside = {}
    /\ refCount = [t \in Threads |-> IF t \in Workers THEN 0 ELSE 1]
    /\ owner = [t \in Threads |-> NoThread]
    /\ arg = [t \in Threads |-> NoThread]
    /\ handles = [t \in Threads |-> {}]
    /\ pages = FreePages
    /\ keys = 0

-----------------------------------------------------------------------------
(* Thread queues.  The operators take the queues and return the queues.     *)

\* Defined here, not taken from SequencesExt: the proofs reach a smaller context.
ToSet(s) == {s[i] : i \in DOMAIN s}
RemoveAt(s, i) == SubSeq(s, 1, i - 1) \o SubSeq(s, i + 1, Len(s))

Enqueue(qs, n, t) == [qs EXCEPT ![n] = Append(@, t)]

\* PRIORITY_IDLE against PRIORITY_NORMAL, the only priorities the kernel uses.
Priority(t) == IF t = Idle THEN 0 ELSE 5

\* Find_Best: the first of the threads of the highest priority.
FindBest(q) ==
    CHOOSE i \in 1..Len(q) :
       \A j \in 1..Len(q) :
          \/ Priority(q[j]) < Priority(q[i])
          \/ Priority(q[j]) = Priority(q[i]) /\ i <= j

RemoveBest(qs, n) == [qs EXCEPT ![n] = RemoveAt(@, FindBest(@))]

WakeUp(qs, n) == [qs EXCEPT !["run"] = @ \o qs[n], ![n] = <<>>]

WakeUpOne(qs, n) ==
    IF qs[n] = <<>> THEN qs
    ELSE Enqueue(RemoveBest(qs, n), "run", qs[n][FindBest(qs[n])])

\* Schedule, or the return from an interrupt: the best runnable thread runs.
Schedule(qs) ==
    /\ cur' = qs["run"][FindBest(qs["run"])]
    /\ queue' = RemoveBest(qs, "run")

Goto(l) == pc' = [pc EXCEPT ![cur] = l]
At(l) == pc[cur] = l

\* Wait(&n): the thread resumes at l with interrupts disabled.
WaitOn(n, l) == Goto(l) /\ Schedule(Enqueue(queue, n, cur))

-----------------------------------------------------------------------------
(* Mutexes: synch.c. *)

\* Mutex_Lock, called by a thread that does not hold the mutex.
MutexLock ==
    /\ At("run") /\ cur \in Apps \ inside
    /\ preemptOff' = TRUE
    /\ Goto("lock")
    /\ UNCHANGED <<cur, queue, holder, inside, threadVars, keys>>

\* Mutex_Lock_Imp finds the mutex unlocked; its caller turns preemption on.
MutexTake ==
    /\ At("lock") /\ holder = NoThread
    /\ holder' = cur
    /\ inside' = inside \cup {cur}
    /\ preemptOff' = FALSE
    /\ Goto("run")
    /\ UNCHANGED <<cur, queue, threadVars, keys>>

\* Mutex_Wait.
MutexWait ==
    /\ At("lock") /\ holder # NoThread
    /\ preemptOff' = FALSE
    /\ WaitOn("mutex", "lockwait")
    /\ UNCHANGED <<holder, inside, threadVars, keys>>

MutexRetryWithoutTest ==
    /\ pc[cur] \in {"lockwait", "condwait"}
    /\ holder' = cur
    /\ inside' = inside \cup {cur}
    /\ preemptOff' = FALSE
    /\ Goto("run")
    /\ UNCHANGED <<cur, queue, threadVars, keys>>

\* The end of Mutex_Wait, and of the wait in Cond_Wait: back to the test.
MutexRetry ==
    /\ pc[cur] \in {"lockwait", "condwait"}
    /\ preemptOff' = TRUE
    /\ Goto("lock")
    /\ UNCHANGED <<cur, queue, holder, inside, threadVars, keys>>

\* Mutex_Unlock.
MutexUnlock ==
    /\ At("run") /\ cur \in inside
    /\ preemptOff' = TRUE
    /\ Goto("unlock")
    /\ UNCHANGED <<cur, queue, holder, inside, threadVars, keys>>

UnlockWithoutWakeUp ==
    /\ holder' = NoThread
    /\ inside' = inside \ {cur}
    /\ UNCHANGED queue

\* Mutex_Unlock_Imp.
UnlockImp ==
    /\ holder' = NoThread
    /\ inside' = inside \ {cur}
    /\ queue' = WakeUpOne(queue, "mutex")

MutexRelease ==
    /\ At("unlock")
    /\ UnlockImp
    /\ preemptOff' = FALSE
    /\ Goto("run")
    /\ UNCHANGED <<cur, threadVars, keys>>

\* Cond_Wait: preemption stays off from the unlocking to the wait.
CondWait ==
    /\ At("run") /\ cur \in inside
    /\ preemptOff' = TRUE
    /\ Goto("cwait")
    /\ UNCHANGED <<cur, queue, holder, inside, threadVars, keys>>

CondUnlockPreemptible ==
    /\ At("cwait")
    /\ UnlockImp
    /\ preemptOff' = FALSE
    /\ Goto("cblock")
    /\ UNCHANGED <<cur, threadVars, keys>>

CondUnlock ==
    /\ At("cwait")
    /\ UnlockImp
    /\ Goto("cblock")
    /\ UNCHANGED <<cur, preemptOff, threadVars, keys>>

CondBlock ==
    /\ At("cblock")
    /\ preemptOff' = FALSE
    /\ WaitOn("cond", "condwait")
    /\ UNCHANGED <<holder, inside, threadVars, keys>>

\* Cond_Signal and Cond_Broadcast: "The mutex guarding the condition should be held!"
CondNotify ==
    /\ At("run") /\ cur \in inside
    /\ queue' \in {WakeUpOne(queue, "cond"), WakeUp(queue, "cond")}
    /\ UNCHANGED <<cur, pc, preemptOff, holder, inside, threadVars, keys>>

-----------------------------------------------------------------------------
(* The life of a thread: kthread.c. *)

Yield ==
    /\ At("run")
    /\ Schedule(Enqueue(queue, "run", cur))
    /\ UNCHANGED <<pc, preemptOff, holder, inside, threadVars, keys>>

\* Start_Kernel_Thread, Create_Thread: the page of the object, ...
AllocObject ==
    /\ At("run") /\ cur \in Apps
    /\ pages > 0 /\ pages' = pages - 1
    /\ Goto("alloc")
    /\ UNCHANGED <<cur, queue, preemptOff, holder, inside, refCount, owner, arg, handles, keys>>

\* ... given back when there is none for the stack; ...
AllocFails ==
    /\ At("alloc")
    /\ pages = 0 /\ pages' = 1
    /\ Goto("run")
    /\ UNCHANGED <<cur, queue, preemptOff, holder, inside, refCount, owner, arg, handles, keys>>

OneReference(detached) == 1

\* Init_Thread: a thread and its owner have a reference each.
InitialReferences(detached) == IF detached THEN 1 ELSE 2

\* ... and, with the stack, the thread.
CreateThread ==
    /\ At("alloc")
    /\ pages > 0 /\ pages' = pages - 1
    /\ \E t \in Workers, detached \in BOOLEAN :
          /\ pc[t] = "free"
          /\ pc' = [pc EXCEPT ![cur] = "start", ![t] = "new"]
          /\ arg' = [arg EXCEPT ![cur] = t]
          /\ owner' = [owner EXCEPT ![t] = IF detached THEN NoThread ELSE cur]
          /\ refCount' = [refCount EXCEPT ![t] = InitialReferences(detached)]
          /\ handles' = [handles EXCEPT ![cur] = IF detached THEN @ ELSE @ \cup {t}]
    /\ UNCHANGED <<cur, queue, preemptOff, holder, inside, keys>>

\* Make_Runnable_Atomic.
MakeRunnable ==
    /\ At("start")
    /\ queue' = Enqueue(queue, "run", arg[cur])
    /\ pc' = [pc EXCEPT ![cur] = "run", ![arg[cur]] = "run"]
    /\ arg' = [arg EXCEPT ![cur] = NoThread]
    /\ UNCHANGED <<cur, preemptOff, holder, inside, refCount, owner, handles, pages, keys>>

DetachWithoutReaping(qs, t) ==
    [count |-> [refCount EXCEPT ![t] = @ - 1],
     queue |-> IF refCount[t] = 1 THEN Enqueue(qs, "graveyard", t) ELSE qs]

\* Detach_Thread and Reap_Thread: the reference counts and the queues.
Detach(qs, t) ==
    [count |-> [refCount EXCEPT ![t] = @ - 1],
     queue |-> IF refCount[t] = 1 THEN WakeUp(Enqueue(qs, "graveyard", t), "reaper") ELSE qs]

\* Exit: the thread is no longer alive, and Tlocal_Exit calls destructors with
\* interrupts enabled.
Exit ==
    /\ At("run") /\ cur \in Workers \ inside
    /\ Goto("exiting")
    /\ UNCHANGED <<cur, queue, preemptOff, holder, inside, threadVars, keys>>

ExitSilently ==
    /\ At("exiting")
    /\ LET d == Detach(queue, cur)
       IN  refCount' = d.count /\ Schedule(d.queue)
    /\ Goto("dead")
    /\ handles' = [handles EXCEPT ![cur] = {}]
    /\ UNCHANGED <<preemptOff, holder, inside, owner, arg, pages, keys>>

\* The rest of Exit; what it has not joined is never joined.
ExitSchedules ==
    /\ At("exiting")
    /\ LET d == Detach(WakeUp(queue, cur), cur)
       IN  refCount' = d.count /\ Schedule(d.queue)
    /\ Goto("dead")
    /\ handles' = [handles EXCEPT ![cur] = {}]
    /\ UNCHANGED <<preemptOff, holder, inside, owner, arg, pages, keys>>

\* Join finds the thread alive and waits, for the first time or again.
JoinWait ==
    /\ pc[cur] \in {"run", "join"}
    /\ \E t \in IF At("join") THEN {arg[cur]} ELSE handles[cur] :
          /\ Alive(t)
          /\ arg' = [arg EXCEPT ![cur] = t]
          /\ WaitOn(t, "join")
    /\ UNCHANGED <<preemptOff, holder, inside, refCount, owner, handles, pages, keys>>

\* Join finds the thread dead and releases its reference.
JoinDone ==
    /\ pc[cur] \in {"run", "join"}
    /\ \E t \in IF At("join") THEN {arg[cur]} ELSE handles[cur] :
          /\ ~ Alive(t)
          /\ LET d == Detach(queue, t) IN refCount' = d.count /\ queue' = d.queue
          /\ handles' = [handles EXCEPT ![cur] = @ \ {t}]
    /\ arg' = [arg EXCEPT ![cur] = NoThread]
    /\ Goto("run")
    /\ UNCHANGED <<cur, preemptOff, holder, inside, owner, pages, keys>>

ReaperWait ==
    /\ At("reap") /\ queue["graveyard"] = <<>>
    /\ WaitOn("reaper", "reap")
    /\ UNCHANGED <<preemptOff, holder, inside, threadVars, keys>>

\* The reaper empties the graveyard, enables interrupts and yields.
ReaperCollect ==
    /\ At("reap") /\ queue["graveyard"] # <<>>
    /\ LET qs == [queue EXCEPT !["corpses"] = queue["graveyard"], !["graveyard"] = <<>>]
       IN  Schedule(Enqueue(qs, "run", cur))
    /\ Goto("destroy")
    /\ UNCHANGED <<preemptOff, holder, inside, threadVars, keys>>

DestroyThread ==
    /\ At("destroy") /\ queue["corpses"] # <<>>
    /\ LET t == Head(queue["corpses"])
       IN  /\ pc' = [pc EXCEPT ![t] = "free"]
           /\ owner' = [owner EXCEPT ![t] = NoThread]
    /\ queue' = [queue EXCEPT !["corpses"] = Tail(@)]
    /\ pages' = pages + 2
    /\ UNCHANGED <<cur, preemptOff, holder, inside, refCount, arg, handles, keys>>

ReaperRepeats ==
    /\ At("destroy") /\ queue["corpses"] = <<>>
    /\ Goto("reap")
    /\ UNCHANGED <<cur, queue, preemptOff, holder, inside, threadVars, keys>>

-----------------------------------------------------------------------------
(* The keyboard driver and the interrupts. *)

\* Wait_For_Key, with interrupts disabled from the test to the wait.
WaitForKey ==
    /\ cur \in Apps /\ pc[cur] \in {"run", "key"}
    /\ keys = 0
    /\ WaitOn("key", "key")
    /\ UNCHANGED <<preemptOff, holder, inside, threadVars, keys>>

GetKey ==
    /\ cur \in Apps /\ pc[cur] \in {"run", "key"}
    /\ keys > 0 /\ keys' = keys - 1
    /\ Goto("run")
    /\ UNCHANGED <<cur, queue, preemptOff, holder, inside, threadVars>>

InterruptsEnabled == pc[cur] \notin Suspended

\* The end of Handle_Interrupt after a handler that left the queues qs and
\* wants another thread to run.
ReturnFromInterrupt(qs) ==
    IF preemptOff THEN queue' = qs /\ UNCHANGED cur
    ELSE Schedule(Enqueue(qs, "run", cur))

\* A tick that ends the quantum of the thread.
Tick ==
    /\ InterruptsEnabled
    /\ ReturnFromInterrupt(queue)
    /\ UNCHANGED <<pc, preemptOff, holder, inside, threadVars, keys>>

\* Keyboard_Interrupt_Handler: a full queue drops the keycode, the waiting
\* threads are woken all the same.
KeyInterrupt ==
    /\ InterruptsEnabled
    /\ keys' = IF keys < MaxKeys THEN keys + 1 ELSE keys
    /\ ReturnFromInterrupt(WakeUp(queue, "key"))
    /\ UNCHANGED <<pc, preemptOff, holder, inside, threadVars>>

\* What a thread does once it has called into the kernel, and the idle thread.
KernelStep ==
    \/ MutexTake \/ MutexWait \/ MutexRetry \/ MutexRelease
    \/ CondUnlock \/ CondBlock
    \/ AllocFails \/ CreateThread \/ MakeRunnable \/ ExitSchedules
    \/ pc[cur] = "join" /\ (JoinWait \/ JoinDone)
    \/ ReaperWait \/ ReaperCollect \/ DestroyThread \/ ReaperRepeats
    \/ pc[cur] = "key" /\ (WaitForKey \/ GetKey)
    \/ cur = Idle /\ Yield

Next ==
    \/ MutexLock \/ MutexTake \/ MutexWait \/ MutexRetry \/ MutexUnlock \/ MutexRelease
    \/ CondWait \/ CondUnlock \/ CondBlock \/ CondNotify
    \/ Yield \/ AllocObject \/ AllocFails \/ CreateThread \/ MakeRunnable
    \/ Exit \/ ExitSchedules \/ JoinWait \/ JoinDone
    \/ ReaperWait \/ ReaperCollect \/ DestroyThread \/ ReaperRepeats
    \/ WaitForKey \/ GetKey
    \/ Tick \/ KeyInterrupt

Spec == Init /\ [][Next]_vars

\* A thread that gets the processor again and again is not interrupted every time
\* before its first instruction, and ticks are not confined to the moments at
\* which preemption is disabled.
FairSpec ==
    /\ Spec
    /\ \A t \in Threads : SF_vars(cur = t /\ KernelStep)
    /\ SF_vars(~ preemptOff /\ Tick)

-----------------------------------------------------------------------------
(* Properties *)

Members(n) == ToSet(queue[n])

\* A thread has one pair of links for all Thread_Queues, so it is in one queue, and
\* once; the running thread and a thread being created are in none.
LinkedOnce ==
    /\ \A m, n \in Queues : \A i \in 1..Len(queue[m]), j \in 1..Len(queue[n]) :
          queue[m][i] = queue[n][j] => m = n /\ i = j
    /\ \A n \in Queues : cur \notin Members(n)
    /\ \A t \in Threads : pc[t] \in {"free", "new"} => \A n \in Queues : t \notin Members(n)

\* Nothing leads to a finished thread, whose page the reaper frees, or to a free
\* page: not the scheduler, not a queue whose threads will run, not the mutex.  A
\* thread that can still be joined keeps its page.
NoDanglingThreads ==
    /\ LinkedOnce
    /\ pc[cur] \notin NotRunning
    /\ \A n \in Queues \ {"graveyard", "corpses"} : \A t \in Members(n) : pc[t] \notin NotRunning
    /\ holder # NoThread => pc[holder] \notin NotRunning
    /\ \A t \in Threads : \A k \in handles[t] : pc[k] # "free"

\* "preserve the invariant that a runnable thread always exists": whoever gives
\* up the processor finds another thread, and never does so with preemption
\* disabled (the assertions in Get_Next_Runnable and Schedule).
ScheduleFinds ==
    /\ cur # Idle => Idle \in Members("run")
    /\ preemptOff <=> pc[cur] \in Critical

\* The mutex admits one thread at a time, whatever is preempted, waits on the
\* condition or is woken in between, and it knows which.
MutualExclusion == inside = {holder} \ {NoThread}

\* Nobody sleeps through its event: behind an unlocked mutex some thread is on its
\* way to it, and nobody waits for a key that is there, for a thread that has
\* exited or for corpses that are there.
NoLostWakeup ==
    /\ holder = NoThread /\ queue["mutex"] # <<>> =>
          \E t \in Threads : \/ pc[t] = "lock"
                             \/ pc[t] = "lockwait" /\ t \notin Members("mutex")
    /\ keys > 0 => queue["key"] = <<>>
    /\ \A t \in Threads : pc[t] = "dead" => queue[t] = <<>>
    /\ queue["graveyard"] # <<>> => queue["reaper"] = <<>>

\* A thread with no reference left is taken apart, and its pages are free again.
DeadAreReclaimed == \A t \in Workers : (pc[t] = "dead" /\ refCount[t] = 0) ~> pc[t] = "free"

\* Join returns once the thread has exited, and a mutex that is free while a
\* thread is in Mutex_Lock does not stay free.
WaitersProceed ==
    /\ \A t \in Apps : (pc[t] = "join" /\ pc[arg[t]] = "dead") ~> pc[t] # "join"
    /\ (holder = NoThread /\ \E t \in Apps : pc[t] \in {"lock", "lockwait"}) ~> holder # NoThread

=============================================================================
