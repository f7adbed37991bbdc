------------------------- MODULE KittenSchedProofs -------------------------
(***************************************************************************)
(* The tasks of Kitten, for any number of CPUs and tasks: the run queues    *)
(* stay sound, no wakeup is lost and no stack frame is reached after its    *)
(* function has returned.                                                  *)
(***************************************************************************)
EXTENDS KittenSched, FiniteSetTheorems, TLAPS

-----------------------------------------------------------------------------
(* Lists *)

Distinct(q) == \A i, j \in 1..Len(q) : q[i] = q[j] => i = j

\* A set of naturals that is not empty has a least element, which Least finds.
LEMMA LeastFacts ==
    ASSUME NEW T, T \subseteq Nat, T # {}
    PROVE  Least(T) \in T /\ \A y \in T : Least(T) <= y
<1>1. IsWellFoundedOn(OpToRel(<, Nat), Nat)
  BY NatLessThanWellFounded, Zenon
<1>2. PICK x \in T : \A y \in T : <<y, x>> \notin OpToRel(<, Nat)
  BY <1>1, WFMin, Zenon
<1>3. ASSUME NEW y \in T PROVE x <= y
  <2>1. y \in Nat /\ x \in Nat
    BY Zenon
  <2>2. ~ (y < x)
    BY <1>2, <2>1, Zenon DEF OpToRel
  <2> QED BY <2>1, <2>2
<1> QED BY <1>3, Zenon DEF Least

\* The elements of a list.
LEMMA ToSetFacts ==
    ASSUME NEW S, NEW q \in Seq(S)
    PROVE  /\ DOMAIN q = 1..Len(q) /\ Len(q) \in Nat
           /\ ToSet(q) \subseteq S
           /\ \A i \in 1..Len(q) : q[i] \in ToSet(q) /\ q[i] \in S
           /\ \A x \in ToSet(q) : \E i \in 1..Len(q) : q[i] = x
BY DEF ToSet

\* Two lists, one after the other.
LEMMA ConcatFacts ==
    ASSUME NEW S, NEW q \in Seq(S), NEW s \in Seq(S)
    PROVE  /\ q \o s \in Seq(S)
           /\ Len(q \o s) = Len(q) + Len(s)
           /\ \A i \in 1..(Len(q) + Len(s)) : (q \o s)[i] = IF i <= Len(q) THEN q[i] ELSE s[i - Len(q)]
OBVIOUS

\* The end of a list.
LEMMA TailFacts ==
    ASSUME NEW S, NEW q \in Seq(S), NEW k \in 0..Len(q)
    PROVE  /\ SubSeq(q, k + 1, Len(q)) \in Seq(S)
           /\ Len(SubSeq(q, k + 1, Len(q))) = Len(q) - k
           /\ \A i \in 1..(Len(q) - k) : SubSeq(q, k + 1, Len(q))[i] = q[k + i]
<1>1. Len(q) \in Nat /\ k \in Int /\ 0 <= k /\ k <= Len(q)
  OBVIOUS
<1> QED BY <1>1

\* A walk along a list passes the entries before the first one at which it stops.
LEMMA PassedFacts ==
    ASSUME NEW S, NEW q \in Seq(S), NEW stops \in SUBSET (1..Len(q))
    PROVE  /\ Passed(q, stops) \in 0..Len(q)
           /\ \A i \in 1..Passed(q, stops) : i \notin stops
           /\ Passed(q, stops) < Len(q) => Passed(q, stops) + 1 \in stops
<1>1. Len(q) \in Nat
  OBVIOUS
<1>2. CASE stops = {}
  BY <1>1, <1>2 DEF Passed
<1>3. CASE stops # {}
  <2>0. \A i \in stops : i \in Int /\ 1 <= i /\ i <= Len(q)
    BY <1>1
  <2>1. Least(stops) \in stops /\ \A y \in stops : Least(stops) <= y
    <3>1. stops \subseteq Nat
      BY <2>0
    <3> QED BY <3>1, <1>3, LeastFacts, Zenon
  <2>2. Passed(q, stops) = Least(stops) - 1
    BY <1>3, Zenon DEF Passed
  <2>3. Least(stops) \in Int /\ 1 <= Least(stops) /\ Least(stops) <= Len(q)
    BY <2>0, <2>1, Zenon
  <2> QED BY <2>0, <2>1, <2>2, <2>3, <1>1
<1> QED BY <1>2, <1>3, Zenon

\* list_del of an entry of a list without repetitions.
LEMMA WithoutFacts ==
    ASSUME NEW S, NEW q \in Seq(S), Distinct(q), NEW x \in ToSet(q)
    PROVE  /\ Without(q, x) \in Seq(S)
           /\ Distinct(Without(q, x))
           /\ ToSet(Without(q, x)) = ToSet(q) \ {x}
<1> DEFINE k == CHOOSE i \in DOMAIN q : q[i] = x
           a == SubSeq(q, 1, k - 1)
           b == SubSeq(q, k + 1, Len(q))
           new == a \o b
<1>1. Len(q) \in Nat /\ DOMAIN q = 1..Len(q)
  OBVIOUS
<1>2. k \in 1..Len(q) /\ q[k] = x
  BY <1>1, ToSetFacts, Zenon
<1>3. Without(q, x) = new
  BY Zenon DEF Without
<1> HIDE DEF k
<1>k. k \in Int /\ 1 <= k /\ k <= Len(q)
  BY <1>1, <1>2
<1>4. a \in Seq(S) /\ Len(a) = k - 1 /\ \A i \in 1..(k - 1) : a[i] = q[i]
  BY <1>1, <1>k
<1>5. b \in Seq(S) /\ Len(b) = Len(q) - k /\ \A i \in 1..(Len(q) - k) : b[i] = q[k + i]
  <2>1. k \in 0..Len(q)
    BY <1>1, <1>k
  <2> QED BY <2>1, TailFacts, Zenon
<1> HIDE DEF a, b
<1>6. /\ new \in Seq(S) /\ Len(new) = Len(a) + Len(b)
      /\ \A i \in 1..(Len(a) + Len(b)) : new[i] = IF i <= Len(a) THEN a[i] ELSE b[i - Len(a)]
  BY <1>4, <1>5, ConcatFacts, Zenon
<1> HIDE DEF new
\* Where an entry of the new list was before.
<1> DEFINE Old(i) == IF i < k THEN i ELSE i + 1
<1>7. Len(new) = Len(q) - 1
  BY <1>1, <1>2, <1>4, <1>5, <1>6
<1>8. ASSUME NEW i \in 1..Len(new)
      PROVE  Old(i) \in 1..Len(q) /\ Old(i) # k /\ new[i] = q[Old(i)]
  <2>1. i \in 1..(Len(a) + Len(b)) /\ i \in Int /\ k \in Int
    BY <1>1, <1>2, <1>4, <1>5, <1>7
  <2>2. CASE i < k
    <3>1. i \in 1..(k - 1) /\ i <= Len(a)
      BY <2>1, <2>2, <1>4
    <3> QED BY <3>1, <2>1, <2>2, <1>1, <1>2, <1>4, <1>6
  <2>3. CASE ~ (i < k)
    <3>1. i - Len(a) \in 1..(Len(q) - k) /\ ~ (i <= Len(a)) /\ k + (i - Len(a)) = i + 1
      BY <2>1, <2>3, <1>1, <1>2, <1>4, <1>7
    <3>2. b[i - Len(a)] = q[i + 1]
      BY <3>1, <1>5, Zenon
    <3> QED BY <3>1, <3>2, <2>1, <2>3, <1>1, <1>2, <1>6, <1>7
  <2> QED BY <2>2, <2>3, Zenon
<1>9. Distinct(new)
  <2> SUFFICES ASSUME NEW i \in 1..Len(new), NEW j \in 1..Len(new), new[i] = new[j]
               PROVE  i = j
    BY Zenon DEF Distinct
  <2>1. Old(i) = Old(j)
    BY <1>8, Zenon DEF Distinct
  <2>2. i \in Int /\ j \in Int /\ k \in Int
    BY <1>1, <1>2, <1>7
  <2> QED BY <2>1, <2>2
<1>10. ASSUME NEW y \in ToSet(new) PROVE y \in ToSet(q) \ {x}
  <2>1. PICK i \in 1..Len(new) : new[i] = y
    BY <1>6, ToSetFacts, Zenon
  <2>2. q[Old(i)] = y /\ Old(i) \in 1..Len(q) /\ Old(i) # k
    BY <2>1, <1>8, Zenon
  <2> QED BY <2>2, <1>2, ToSetFacts, Zenon DEF Distinct
<1>11. ASSUME NEW y \in ToSet(q) \ {x} PROVE y \in ToSet(new)
  <2>1. PICK i \in 1..Len(q) : q[i] = y
    BY ToSetFacts, Zenon
  <2> DEFINE j == IF i < k THEN i ELSE i - 1
  <2>2. j \in 1..Len(new) /\ Old(j) = i
    BY <2>1, <1>1, <1>2, <1>7
  <2>3. new[j] = y
    BY <2>1, <2>2, <1>8, Zenon
  <2> QED BY <2>2, <2>3, <1>6, ToSetFacts, Zenon
<1> QED BY <1>3, <1>6, <1>9, <1>10, <1>11, Zenon

\* list_add_tail of an entry that is not in the list.
LEMMA AppendFacts ==
    ASSUME NEW S, NEW q \in Seq(S), Distinct(q), NEW x \in S, x \notin ToSet(q)
    PROVE  /\ Append(q, x) \in Seq(S)
           /\ Distinct(Append(q, x))
           /\ ToSet(Append(q, x)) = ToSet(q) \cup {x}
<1> DEFINE new == Append(q, x)
<1>1. /\ new \in Seq(S) /\ Len(q) \in Nat /\ Len(new) = Len(q) + 1
      /\ \A i \in 1..Len(q) : new[i] = q[i]
      /\ new[Len(q) + 1] = x
  OBVIOUS
<1> HIDE DEF new
<1>2. \A i \in 1..Len(new) : i \in 1..Len(q) \/ i = Len(q) + 1
  BY <1>1
<1>3. \A i \in 1..Len(q) : q[i] \in ToSet(q) /\ q[i] # x
  BY ToSetFacts
<1>4. Distinct(new)
  BY <1>1, <1>2, <1>3, Zenon DEF Distinct
<1>5. ASSUME NEW y \in ToSet(new) PROVE y \in ToSet(q) \cup {x}
  BY <1>1, <1>2, <1>3, ToSetFacts
<1>6. ASSUME NEW y \in ToSet(q) \cup {x} PROVE y \in ToSet(new)
  <2>1. \A i \in 1..Len(new) : new[i] \in ToSet(new)
    BY <1>1, ToSetFacts, Zenon
  <2>2. Len(q) + 1 \in 1..Len(new) /\ \A i \in 1..Len(q) : i \in 1..Len(new)
    BY <1>1
  <2> QED BY <2>1, <2>2, <1>1, ToSetFacts
<1> QED BY <1>1, <1>4, <1>5, <1>6, Zenon DEF new

-----------------------------------------------------------------------------
(* The inductive invariant *)

States == {"READY", "UNINTERRUPTIBLE", "INTERRUPTIBLE", "ZOMBIE"}
Waits == {"prepare", "test", "block", "finish"}
Sleeps == {"marked", "asleep"}
Dead == {"exit", "bug"}
Active == {"none", "leave", "user", "return", "remove", "added", "xcall"} \cup Spinning
Locations == Active \cup Waits \cup Sleeps \cup Dead
Timer == [task : Tasks, left : Int]

Types ==
    /\ state \in [Tasks -> States] /\ pc \in [Tasks -> Locations]
    /\ cpu \in [Tasks -> Cpus \cup {NoCpu}]
    /\ runq \in [Cpus -> Seq(Tasks)]
    /\ current \in [Cpus -> Tasks \cup {Idle}]
    /\ timerq \in [Cpus -> Seq(Timer)]
    /\ cond \in BOOLEAN /\ waitq \subseteq Tasks /\ todo \subseteq Tasks
    /\ waking \in [Cpus -> {"no", "spin", "loop"}]
    /\ xlock \in Cpus \cup {NoCpu} /\ xipi \subseteq Cpus
    /\ xdata \in [wait : BOOLEAN, started : Nat, finished : Nat]
    /\ handling \in [Cpus -> {"no", "wait", "nowait"}]

\* The run queues; a task that has not been created has no CPU.
Queued ==
    /\ \A c \in Cpus : /\ Distinct(runq[c])
                       /\ ToSet(runq[c]) = {t \in Tasks : cpu[t] = c /\ pc[t] # "bug"}
                       /\ current[c] \in ToSet(runq[c]) \cup {Idle}
    /\ \A t \in Tasks : pc[t] = "none" <=> cpu[t] = NoCpu

\* The states a task can be in at a location; one that goes on after schedule is ready.
Placed ==
    /\ \A t \in Tasks :
          /\ pc[t] \in Active => state[t] = "READY"
          /\ pc[t] \in Waits => state[t] \in {"READY", "UNINTERRUPTIBLE"}
          /\ pc[t] \in Sleeps => state[t] \in {"READY", "INTERRUPTIBLE"}
          /\ pc[t] \in Dead => state[t] = "ZOMBIE"
    /\ \A c \in Cpus : current[c] \in Tasks /\ pc[current[c]] \in {"prepare", "asleep"}
                          => state[current[c]] = "READY"

\* A task marked for the wait queue has its entry, whoever works on the queue has the
\* lock, and a task about to sleep with the condition true is about to be woken.
Waiting ==
    /\ \A t \in Tasks : state[t] = "UNINTERRUPTIBLE" => t \in waitq
    /\ todo \subseteq waitq
    /\ WaitqUnlocked => todo = {}
    /\ \A t \in waitq : pc[t] \in Waits \cup {"remove"}
    /\ \A t \in Tasks :
          state[t] = "UNINTERRUPTIBLE" /\ pc[t] \in {"prepare", "block"} /\ cond =>
             t \in todo \/ \E c \in Cpus : waking[c] = "spin"

\* Each sleeping task has one timer, in a list sorted by time.
Timed ==
    /\ \A c, d \in Cpus : \A i \in 1..Len(timerq[c]), j \in 1..Len(timerq[d]) :
          timerq[c][i].task = timerq[d][j].task => c = d /\ i = j
    /\ \A c \in Cpus : \A i, j \in 1..Len(timerq[c]) :
          i <= j => timerq[c][i].left <= timerq[c][j].left
    /\ \A c \in Cpus : \A i \in 1..Len(timerq[c]) :
          /\ timerq[c][i].left > 0
          /\ \/ pc[timerq[c][i].task] = "added"
             \/ pc[timerq[c][i].task] \in Sleeps /\ state[timerq[c][i].task] = "INTERRUPTIBLE"

\* The CPUs that have started the call, and those of them that have finished it.
Started == Cpus \ ({xlock} \cup xipi)
Finished == {d \in Started : handling[d] # "wait"}

\* The caller has the lock and its CPU; the counters count the others.
Called ==
    /\ \A t \in Tasks : pc[t] \in Spinning => cpu[t] = xlock /\ xlock \in Cpus /\ current[xlock] = t
    /\ \A t \in Tasks : pc[t] = "xfinish" => xipi = {}
    /\ xlock = NoCpu => xipi = {}
    /\ xlock \notin xipi
    /\ \A d \in Cpus : handling[d] = "wait" => xdata.wait /\ xlock # NoCpu /\ d # xlock /\ d \notin xipi
    /\ xlock # NoCpu => /\ xdata.started = Cardinality(Started)
                        /\ xdata.wait => xdata.finished = Cardinality(Finished)
                        /\ xdata.wait => \A d \in Cpus : handling[d] = "nowait" => d \in xipi

Inv == Types /\ Queued /\ Placed /\ Waiting /\ Timed /\ Called

-----------------------------------------------------------------------------
(* What keeps each part of the invariant *)

\* The queues stay sound when neither they nor what they record changes.
LEMMA QueuedKept ==
    ASSUME Types, Queued, UNCHANGED <<cpu, runq, current>>,
           \A t \in Tasks : (pc'[t] = "bug" <=> pc[t] = "bug") /\ (pc'[t] = "none" <=> pc[t] = "none")
    PROVE  Queued'
BY Zenon DEF Queued

\* The waits stay sound when no task, wait queue or wakeup changes.
LEMMA WaitingKept ==
    ASSUME Types, Waiting, UNCHANGED waitVars,
           \A t \in Tasks :
              /\ state'[t] = "UNINTERRUPTIBLE" => state[t] = "UNINTERRUPTIBLE"
              /\ pc[t] \in Waits \cup {"remove"} => pc'[t] \in Waits \cup {"remove"}
              /\ state'[t] = "UNINTERRUPTIBLE" /\ pc'[t] \in {"prepare", "block"} /\ cond
                    => pc[t] \in {"prepare", "block"}
    PROVE  Waiting'
BY Zenon DEF Types, Waiting, waitVars, WaitqUnlocked

\* The entries of a timer list are timers.
LEMMA TimerTypes ==
    ASSUME Types, NEW c \in Cpus
    PROVE  /\ timerq[c] \in Seq(Timer) /\ Len(timerq[c]) \in Nat /\ DOMAIN timerq[c] = 1..Len(timerq[c])
           /\ \A i \in 1..Len(timerq[c]) : /\ timerq[c][i] \in Timer
                                           /\ timerq[c][i].task \in Tasks /\ timerq[c][i].left \in Int
<1>1. timerq[c] \in Seq(Timer)
  BY Zenon DEF Types
<1>2. \A i \in 1..Len(timerq[c]) : timerq[c][i] \in Timer
  BY <1>1
<1>3. \A x \in Timer : x.task \in Tasks /\ x.left \in Int
  BY Zenon DEF Timer
<1> QED BY <1>1, <1>2, <1>3

\* The timer lists stay sound when no list changes and no task with a timer moves.
LEMMA TimedKept ==
    ASSUME Types, Timed, UNCHANGED timerq,
           \A t \in Tasks :
              /\ pc[t] = "added" => pc'[t] = "added" \/ (pc'[t] \in Sleeps /\ state'[t] = "INTERRUPTIBLE")
              /\ pc[t] \in Sleeps /\ state[t] = "INTERRUPTIBLE"
                    => pc'[t] \in Sleeps /\ state'[t] = "INTERRUPTIBLE"
    PROVE  Timed'
<1> QED BY TimerTypes DEF Timed

\* The cross call in progress stays sound when no task and no call changes.
LEMMA CalledKept ==
    ASSUME Types, Called, UNCHANGED <<callVars, cpu>>,
           \A t \in Tasks : pc'[t] \in Spinning => pc'[t] = pc[t],
           \A c \in Cpus : current[c] \in Tasks /\ pc[current[c]] \in Spinning => current'[c] = current[c]
    PROVE  Called'
<1>1. xlock' = xlock /\ xdata' = xdata /\ xipi' = xipi /\ handling' = handling /\ cpu' = cpu
  BY Zenon DEF callVars
<1>2. Started' = Started /\ Finished' = Finished
  BY <1>1, Zenon DEF Started, Finished
<1> QED BY <1>1, <1>2 DEF Called, Spinning

\* What the return from an interrupt does to the interrupted task.
LEMMA InterruptedFacts ==
    ASSUME Types, NEW c \in Cpus, Interrupted(c)
    PROVE  /\ pc' \in [Tasks -> Locations]
           /\ \A t \in Tasks : pc'[t] = pc[t] \/ (pc[t] = "user" /\ pc'[t] = "return")
BY Zenon DEF Types, Interrupted, Locations, Active

\* The queue after schedule has put the current task at its end, or taken it off.
LEMMA RequeueFacts ==
    ASSUME Types, Queued, NEW c \in Cpus
    PROVE  /\ Requeue(c) \in Seq(Tasks)
           /\ Distinct(Requeue(c))
           /\ ToSet(Requeue(c)) = IF current[c] \in Tasks /\ state[current[c]] = "ZOMBIE"
                                  THEN ToSet(runq[c]) \ {current[c]} ELSE ToSet(runq[c])
<1> DEFINE prev == current[c]
           q == Without(runq[c], prev)
<1>1. runq[c] \in Seq(Tasks) /\ Distinct(runq[c]) /\ prev \in ToSet(runq[c]) \cup {Idle}
  BY Zenon DEF Types, Queued
<1>2. ToSet(runq[c]) \subseteq Tasks /\ Idle \notin ToSet(runq[c])
  BY <1>1, ToSetFacts, TasksAssumption, Zenon
<1>3. CASE prev \notin ToSet(runq[c])
  <2>1. Requeue(c) = runq[c] /\ prev \notin Tasks
    BY <1>1, <1>3, TasksAssumption, Zenon DEF Requeue
  <2> QED BY <2>1, <1>1, Zenon
<1>4. CASE prev \in ToSet(runq[c])
  <2>1. q \in Seq(Tasks) /\ Distinct(q) /\ ToSet(q) = ToSet(runq[c]) \ {prev}
    BY <1>1, <1>4, WithoutFacts, Zenon
  <2>2. prev \in Tasks
    BY <1>2, <1>4, Zenon
  <2>3. CASE state[prev] = "ZOMBIE"
    <3>1. Requeue(c) = q \o <<>>
      BY <1>4, <2>3, Zenon DEF Requeue
    <3> HIDE DEF q
    <3>2. Requeue(c) = q
      BY <3>1, <2>1
    <3> QED BY <3>2, <2>1, <2>2, <2>3, Zenon
  <2>4. CASE state[prev] # "ZOMBIE"
    <3>1. Requeue(c) = q \o <<prev>>
      BY <1>4, <2>4, Zenon DEF Requeue
    <3> HIDE DEF q
    <3>2. Requeue(c) = Append(q, prev)
      BY <3>1, <2>1, <2>2
    <3>3. /\ Append(q, prev) \in Seq(Tasks) /\ Distinct(Append(q, prev))
          /\ ToSet(Append(q, prev)) = ToSet(q) \cup {prev}
      BY <2>1, <2>2, AppendFacts
    <3> QED BY <3>2, <3>3, <2>1, <2>2, <2>4, <1>4, Zenon
  <2> QED BY <2>3, <2>4, Zenon
<1> QED BY <1>3, <1>4, Zenon

\* schedule: the queue keeps its tasks, and the new current task is one of them that
\* is ready.
LEMMA ScheduleFacts ==
    ASSUME Types, Queued, NEW c \in Cpus, schedule(c)
    PROVE  /\ runq' \in [Cpus -> Seq(Tasks)] /\ current' \in [Cpus -> Tasks \cup {Idle}]
           /\ \A d \in Cpus \ {c} : runq'[d] = runq[d] /\ current'[d] = current[d]
           /\ Distinct(runq'[c])
           /\ ToSet(runq'[c]) = IF current[c] \in Tasks /\ state[current[c]] = "ZOMBIE"
                                THEN ToSet(runq[c]) \ {current[c]} ELSE ToSet(runq[c])
           /\ \/ current'[c] = Idle
              \/ current'[c] \in ToSet(runq'[c]) /\ current'[c] \in Tasks /\ state[current'[c]] = "READY"
<1> DEFINE queue == Requeue(c)
           ready == {i \in DOMAIN queue : state[queue[i]] = "READY"}
<1>1. /\ queue \in Seq(Tasks) /\ Distinct(queue)
      /\ ToSet(queue) = IF current[c] \in Tasks /\ state[current[c]] = "ZOMBIE"
                        THEN ToSet(runq[c]) \ {current[c]} ELSE ToSet(runq[c])
  BY RequeueFacts, Zenon
<1>2. /\ runq' = [runq EXCEPT ![c] = queue]
      /\ current' = [current EXCEPT ![c] = IF ready = {} THEN Idle ELSE queue[Least(ready)]]
  BY Zenon DEF schedule
<1> HIDE DEF queue
<1>3. ready # {} => Least(ready) \in ready
  <2>1. ready \subseteq Nat
    BY <1>1
  <2> HIDE DEF ready
  <2> QED BY <2>1, LeastFacts, Zenon
<1>4. ready # {} => /\ queue[Least(ready)] \in ToSet(queue) /\ queue[Least(ready)] \in Tasks
                    /\ state[queue[Least(ready)]] = "READY"
  BY <1>1, <1>3, ToSetFacts
<1> HIDE DEF ready
<1>5. runq'[c] = queue /\ current'[c] = IF ready = {} THEN Idle ELSE queue[Least(ready)]
  BY <1>2, Zenon DEF Types
<1>6. /\ runq' \in [Cpus -> Seq(Tasks)] /\ current' \in [Cpus -> Tasks \cup {Idle}]
      /\ \A d \in Cpus \ {c} : runq'[d] = runq[d] /\ current'[d] = current[d]
  BY <1>1, <1>2, <1>4, Zenon DEF Types
<1> QED BY <1>1, <1>4, <1>5, <1>6, Zenon

\* A call of schedule by the current task, which goes on at l when it is next run.
LEMMA QueuedScheduled ==
    ASSUME Types, Queued, Placed, NEW c \in Cpus, schedule(c), UNCHANGED cpu,
           \A t \in Tasks : pc'[t] = "none" <=> pc[t] = "none",
           \A t \in Tasks : pc'[t] = "bug" <=> pc[t] = "bug" \/ (t = current[c] /\ state[t] = "ZOMBIE")
    PROVE  Queued'
<1>1. /\ \A d \in Cpus \ {c} : runq'[d] = runq[d] /\ current'[d] = current[d]
      /\ Distinct(runq'[c])
      /\ ToSet(runq'[c]) = IF current[c] \in Tasks /\ state[current[c]] = "ZOMBIE"
                           THEN ToSet(runq[c]) \ {current[c]} ELSE ToSet(runq[c])
      /\ current'[c] = Idle \/ current'[c] \in ToSet(runq'[c])
  BY ScheduleFacts, Zenon
<1>2. \A d \in Cpus : ToSet(runq[d]) = {t \in Tasks : cpu[t] = d /\ pc[t] # "bug"}
  BY Zenon DEF Queued
<1>3. ToSet(runq'[c]) = {t \in Tasks : cpu'[t] = c /\ pc'[t] # "bug"}
  BY <1>1, <1>2
<1>4. ASSUME NEW d \in Cpus \ {c}
      PROVE  ToSet(runq'[d]) = {t \in Tasks : cpu'[t] = d /\ pc'[t] # "bug"}
  <2>1. current[c] \in Tasks => cpu[current[c]] = c
    BY TasksAssumption, Zenon DEF Queued
  <2> QED BY <2>1, <1>1, <1>2
<1> QED BY <1>1, <1>3, <1>4 DEF Queued

\* The types of the variables, for the steps that only move a task.
LEMMA TypesUnfolded ==
    ASSUME Types, NEW t \in Tasks, NEW l
    PROVE  /\ [pc EXCEPT ![t] = l][t] = l
           /\ \A u \in Tasks \ {t} : [pc EXCEPT ![t] = l][u] = pc[u]
           /\ l \in Locations => [pc EXCEPT ![t] = l] \in [Tasks -> Locations]
           /\ [state EXCEPT ![t] = l][t] = l
           /\ \A u \in Tasks \ {t} : [state EXCEPT ![t] = l][u] = state[u]
           /\ l \in States => [state EXCEPT ![t] = l] \in [Tasks -> States]
BY Zenon DEF Types

\* A task that goes to a place.
LEMMA GotoFacts ==
    ASSUME Inv, NEW t \in Tasks, NEW l \in Locations, Goto(t, l)
    PROVE  pc' \in [Tasks -> Locations] /\ pc'[t] = l /\ \A u \in Tasks \ {t} : pc'[u] = pc[u]
BY TypesUnfolded, ZenonT(30) DEF Inv, Goto

-----------------------------------------------------------------------------
(* Steps that move a task and change nothing else *)

\* A running task that only goes on to another place: it keeps its queue, its entry
\* and its timer.
LEMMA MoveStep ==
    ASSUME Inv, NEW c \in Cpus, NEW t \in Tasks, t = current[c], NEW l, Goto(t, l),
           UNCHANGED <<state, cpu, runq, current, timerq, waitVars, callVars>>,
           \/ pc[t] \in {"leave", "user", "asleep"} /\ l \in {"user", "return", "prepare", "xcall"}
           \/ pc[t] = "test" /\ l = "finish"
           \/ pc[t] = "test" /\ l = "block" /\ ~ cond
    PROVE  Inv'
<1>1. l \in Locations /\ l \notin {"none", "bug"} \cup Spinning /\ pc[t] \notin {"none", "bug"} \cup Spinning
  BY Zenon DEF Locations, Active, Waits, Spinning
<1>2. pc' \in [Tasks -> Locations] /\ pc'[t] = l /\ \A u \in Tasks \ {t} : pc'[u] = pc[u]
  BY <1>1, TypesUnfolded DEF Inv, Goto
<1>3. state' = state /\ cpu' = cpu /\ runq' = runq /\ current' = current /\ timerq' = timerq
  BY Zenon
<1>a. Types'
  BY <1>2, Zenon DEF Inv, Types, waitVars, callVars
<1>b. Queued'
  BY <1>1, <1>2, QueuedKept, Zenon DEF Inv
<1>c. Placed'
  BY <1>2, <1>3 DEF Inv, Placed, Active, Waits, Sleeps, Dead, Spinning
<1>d. Waiting'
  BY <1>2, <1>3, WaitingKept, Zenon DEF Inv, Waits, Placed, Active
<1>e. Timed'
  BY <1>2, <1>3, TimedKept, Zenon DEF Inv, Placed, Sleeps
<1>f. Called'
  BY <1>1, <1>2, <1>3, CalledKept, Zenon DEF Inv
<1> QED BY <1>a, <1>b, <1>c, <1>d, <1>e, <1>f, Zenon DEF Inv

-----------------------------------------------------------------------------
(* Steps that call schedule *)

\* A running task that calls schedule, on its return, its exit or in a wait.
LEMMA GiveUpStep ==
    ASSUME Inv, NEW c \in Cpus, NEW t \in Tasks, t = current[c], schedule(c), NEW l, Goto(t, l),
           UNCHANGED <<state, cpu, timerq, waitVars, callVars>>,
           \/ pc[t] = "return" /\ l = "leave"
           \/ pc[t] = "exit" /\ l = "bug"
           \/ pc[t] = "block" /\ l = "prepare"
           \/ pc[t] = "marked" /\ l = "asleep"
    PROVE  Inv'
<1>1. /\ l \in Locations /\ l \notin {"none"} \cup Spinning /\ pc[t] \notin {"none", "bug"} \cup Spinning
      /\ l = "bug" <=> pc[t] = "exit"
  BY Zenon DEF Locations, Active, Waits, Spinning, Sleeps, Dead
<1>2. pc' \in [Tasks -> Locations] /\ pc'[t] = l /\ \A u \in Tasks \ {t} : pc'[u] = pc[u]
  BY <1>1, TypesUnfolded DEF Inv, Goto
<1>3. state' = state /\ cpu' = cpu /\ timerq' = timerq
  BY Zenon
<1>4. state[t] = "ZOMBIE" <=> pc[t] = "exit"
  BY Zenon DEF Inv, Placed, Active, Waits, Sleeps, Dead
<1>5. /\ runq' \in [Cpus -> Seq(Tasks)] /\ current' \in [Cpus -> Tasks \cup {Idle}]
      /\ \A d \in Cpus \ {c} : current'[d] = current[d]
      /\ current'[c] = Idle \/ (current'[c] \in Tasks /\ state[current'[c]] = "READY")
  BY ScheduleFacts, Zenon DEF Inv
<1>6. Idle \notin Tasks /\ \A d \in Cpus : current[d] = t => d = c
  BY TasksAssumption, Zenon DEF Inv, Queued
<1>a. Types'
  BY <1>2, <1>5, Zenon DEF Inv, Types, waitVars, callVars
<1>b. Queued'
  BY <1>1, <1>2, <1>3, <1>4, QueuedScheduled, Zenon DEF Inv
<1>c. Placed'
  <2>1. \A u \in Tasks : /\ pc'[u] \in Active => state'[u] = "READY"
                         /\ pc'[u] \in Waits => state'[u] \in {"READY", "UNINTERRUPTIBLE"}
                         /\ pc'[u] \in Sleeps => state'[u] \in {"READY", "INTERRUPTIBLE"}
                         /\ pc'[u] \in Dead => state'[u] = "ZOMBIE"
    BY <1>2, <1>3, ZenonT(30) DEF Inv, Placed, Active, Waits, Sleeps, Dead, Spinning
  <2>2. \A d \in Cpus : current'[d] \in Tasks /\ pc'[current'[d]] \in {"prepare", "asleep"}
                           => state'[current'[d]] = "READY"
    BY <1>2, <1>3, <1>5, <1>6 DEF Inv, Placed
  <2> QED BY <2>1, <2>2, Zenon DEF Placed
<1>d. Waiting'
  BY <1>2, <1>3, WaitingKept, Zenon DEF Inv, Waits
<1>e. Timed'
  BY <1>2, <1>3, TimedKept, Zenon DEF Inv, Sleeps
<1>f. Called'
  BY <1>1, <1>2, <1>3, <1>5, CalledKept, Zenon DEF Inv
<1> QED BY <1>a, <1>b, <1>c, <1>d, <1>e, <1>f, Zenon DEF Inv

\* The idle loop calls schedule.
LEMMA IdleScheduleStep ==
    ASSUME Inv, NEW c \in Cpus, IdleSchedule(c)
    PROVE  Inv'
<1>1. schedule(c) /\ current[c] = Idle /\ UNCHANGED <<state, pc, cpu, timerq, waitVars, callVars>>
  BY Zenon DEF IdleSchedule, taskVars
<1>2. state' = state /\ pc' = pc /\ cpu' = cpu /\ timerq' = timerq
  BY <1>1, Zenon
<1>3. /\ runq' \in [Cpus -> Seq(Tasks)] /\ current' \in [Cpus -> Tasks \cup {Idle}]
      /\ \A d \in Cpus \ {c} : current'[d] = current[d]
      /\ current'[c] = Idle \/ (current'[c] \in Tasks /\ state[current'[c]] = "READY")
  BY <1>1, ScheduleFacts, Zenon DEF Inv
<1>4. Idle \notin Tasks
  BY TasksAssumption, Zenon
<1>a. Types'
  BY <1>1, <1>3, Zenon DEF Inv, Types, waitVars, callVars
<1>b. Queued'
  BY <1>1, <1>4, QueuedScheduled, Zenon DEF Inv
<1>c. Placed'
  BY <1>2, <1>3, <1>4 DEF Inv, Placed
<1>d. Waiting'
  BY <1>1, WaitingKept, Zenon DEF Inv
<1>e. Timed'
  BY <1>1, TimedKept, Zenon DEF Inv
<1>f. Called'
  BY <1>1, <1>3, <1>4, CalledKept, Zenon DEF Inv
<1> QED BY <1>a, <1>b, <1>c, <1>d, <1>e, <1>f, Zenon DEF Inv

-----------------------------------------------------------------------------
(* task.c *)

\* task_create gives the new task a CPU and puts it into that CPU's queue.
LEMMA TaskCreateStep ==
    ASSUME Inv, NEW c \in Cpus, NEW t \in Tasks, TaskCreate(c, t)
    PROVE  Inv'
<1>1. PICK new \in Tasks, target \in Cpus :
         /\ pc[new] = "none"
         /\ cpu' = [cpu EXCEPT ![new] = target]
         /\ pc' = [pc EXCEPT ![t] = "return", ![new] = "leave"]
         /\ runq' = [runq EXCEPT ![target] = Append(@, new)]
  BY Zenon DEF TaskCreate
<1>2. /\ t = current[c] /\ pc[t] = "user" /\ t # new
      /\ state' = state /\ current' = current /\ timerq' = timerq /\ UNCHANGED <<waitVars, callVars>>
  BY <1>1, Zenon DEF TaskCreate, Runs
<1>3. /\ pc' \in [Tasks -> Locations] /\ pc'[t] = "return" /\ pc'[new] = "leave"
      /\ \A u \in Tasks \ {t, new} : pc'[u] = pc[u]
  BY <1>1, <1>2, Zenon DEF Inv, Types, Locations, Active
<1>4. /\ cpu' \in [Tasks -> Cpus \cup {NoCpu}] /\ cpu'[new] = target
      /\ \A u \in Tasks \ {new} : cpu'[u] = cpu[u]
  BY <1>1, Zenon DEF Inv, Types
<1>5. cpu[new] = NoCpu /\ NoCpu \notin Cpus /\ Idle \notin Tasks
  BY <1>1, CpusAssumption, TasksAssumption, Zenon DEF Inv, Queued
<1>6. new \notin ToSet(runq[target]) /\ runq[target] \in Seq(Tasks) /\ Distinct(runq[target])
  BY <1>5 DEF Inv, Queued, Types
<1>7. /\ runq'[target] \in Seq(Tasks) /\ Distinct(runq'[target])
      /\ ToSet(runq'[target]) = ToSet(runq[target]) \cup {new}
      /\ \A d \in Cpus \ {target} : runq'[d] = runq[d]
  <2>1. runq'[target] = Append(runq[target], new) /\ \A d \in Cpus \ {target} : runq'[d] = runq[d]
    BY <1>1, Zenon DEF Inv, Types
  <2> QED BY <2>1, <1>6, AppendFacts
<1>a. Types'
  <2>1. runq' \in [Cpus -> Seq(Tasks)]
    BY <1>1, <1>6 DEF Inv, Types
  <2> QED BY <2>1, <1>2, <1>3, <1>4, Zenon DEF Inv, Types, waitVars, callVars
<1>b. Queued'
  <2>1. \A d \in Cpus : ToSet(runq[d]) = {u \in Tasks : cpu[u] = d /\ pc[u] # "bug"}
    BY Zenon DEF Inv, Queued
  <2>2. ToSet(runq'[target]) = {u \in Tasks : cpu'[u] = target /\ pc'[u] # "bug"}
    BY <2>1, <1>2, <1>3, <1>4, <1>7
  <2>3. \A d \in Cpus \ {target} : ToSet(runq'[d]) = {u \in Tasks : cpu'[u] = d /\ pc'[u] # "bug"}
    BY <2>1, <1>2, <1>3, <1>4, <1>5, <1>7
  <2>4. \A u \in Tasks : pc'[u] = "none" <=> cpu'[u] = NoCpu
    BY <1>2, <1>3, <1>4, <1>5 DEF Inv, Queued
  <2>5. \A d \in Cpus : Distinct(runq'[d]) /\ current'[d] \in ToSet(runq'[d]) \cup {Idle}
    BY <1>2, <1>7, Zenon DEF Inv, Queued
  <2> QED BY <2>2, <2>3, <2>4, <2>5, Zenon DEF Queued
<1>c. Placed'
  BY <1>1, <1>2, <1>3 DEF Inv, Placed, Active, Waits, Sleeps, Dead, Spinning
<1>d. Waiting'
  BY <1>1, <1>2, <1>3, WaitingKept, Zenon DEF Inv, Waits
<1>e. Timed'
  BY <1>1, <1>2, <1>3, TimedKept, Zenon DEF Inv, Sleeps
<1>f. Called'
  <2>1. \A u \in Tasks : pc'[u] \in Spinning => pc'[u] = pc[u] /\ cpu'[u] = cpu[u]
    BY <1>1, <1>2, <1>3, <1>4, Zenon DEF Spinning
  <2>2. Started' = Started /\ Finished' = Finished
    BY <1>2, Zenon DEF Started, Finished, callVars
  <2> QED BY <2>1, <2>2, <1>2 DEF Inv, Called, Spinning, callVars
<1> QED BY <1>a, <1>b, <1>c, <1>d, <1>e, <1>f, Zenon DEF Inv

-----------------------------------------------------------------------------
(* Steps in which a task sets its own state *)

\* A running task that changes its own state: task_exit, waitq_finish_wait and the
\* marking of timer_sleep_until.
LEMMA MarkStep ==
    ASSUME Inv, NEW c \in Cpus, NEW t \in Tasks, t = current[c],
           NEW l, Goto(t, l), NEW s, state' = [state EXCEPT ![t] = s],
           UNCHANGED <<cpu, runq, current, timerq, waitVars, callVars>>,
           \/ pc[t] = "user" /\ l = "exit" /\ s = "ZOMBIE"
           \/ pc[t] = "finish" /\ l = "remove" /\ s = "READY"
           \/ pc[t] = "added" /\ l = "marked" /\ s = "INTERRUPTIBLE"
    PROVE  Inv'
<1>1. /\ l \in Locations /\ l \notin {"none", "bug"} \cup Spinning
      /\ pc[t] \notin {"none", "bug"} \cup Spinning /\ s \in States
  BY Zenon DEF Locations, Active, Waits, Spinning, Sleeps, Dead, States
<1>2. /\ pc' \in [Tasks -> Locations] /\ pc'[t] = l /\ \A u \in Tasks \ {t} : pc'[u] = pc[u]
      /\ state' \in [Tasks -> States] /\ state'[t] = s /\ \A u \in Tasks \ {t} : state'[u] = state[u]
  BY <1>1, TypesUnfolded DEF Inv, Goto
<1>3. cpu' = cpu /\ runq' = runq /\ current' = current /\ timerq' = timerq
  BY Zenon
<1>a. Types'
  BY <1>2, Zenon DEF Inv, Types, waitVars, callVars
<1>b. Queued'
  BY <1>1, <1>2, QueuedKept, Zenon DEF Inv
<1>c. Placed'
  BY <1>2, <1>3 DEF Inv, Placed, Active, Waits, Sleeps, Dead, Spinning
<1>d. Waiting'
  BY <1>2, <1>3, WaitingKept, Zenon DEF Inv, Waits
<1>e. Timed'
  BY <1>2, <1>3, TimedKept, Zenon DEF Inv, Sleeps
<1>f. Called'
  BY <1>1, <1>2, <1>3, CalledKept, Zenon DEF Inv
<1> QED BY <1>a, <1>b, <1>c, <1>d, <1>e, <1>f, Zenon DEF Inv

-----------------------------------------------------------------------------
(* waitq.c *)

\* The task is marked and has its entry before it tests the condition.
LEMMA PrepareToWaitStep ==
    ASSUME Inv, NEW c \in Cpus, NEW t \in Tasks, PrepareToWait(c, t)
    PROVE  Inv'
<1>1. /\ t = current[c] /\ pc[t] = "prepare" /\ WaitqUnlocked
      /\ waitq' = waitq \cup {t} /\ cond' = cond /\ waking' = waking /\ todo' = todo
      /\ cpu' = cpu /\ runq' = runq /\ current' = current /\ timerq' = timerq /\ UNCHANGED callVars
  BY Zenon DEF PrepareToWait, Runs, schedVars
<1>2. /\ pc' \in [Tasks -> Locations] /\ pc'[t] = "test" /\ \A u \in Tasks \ {t} : pc'[u] = pc[u]
      /\ state' \in [Tasks -> States] /\ state'[t] = "UNINTERRUPTIBLE"
      /\ \A u \in Tasks \ {t} : state'[u] = state[u]
  BY TypesUnfolded DEF Inv, PrepareToWait, Goto, Locations, Waits, States
<1>a. Types'
  BY <1>1, <1>2, Zenon DEF Inv, Types, callVars
<1>b. Queued'
  BY <1>1, <1>2, QueuedKept, Zenon DEF Inv
<1>c. Placed'
  BY <1>1, <1>2, SMTT(30) DEF Inv, Placed, Active, Waits, Sleeps, Dead, Spinning
<1>d. Waiting'
  <2>1. WaitqUnlocked' <=> WaitqUnlocked
    BY <1>1, Zenon DEF WaitqUnlocked
  <2>2. \A u \in waitq' : u \in Tasks /\ pc'[u] \in Waits \cup {"remove"}
    BY <1>1, <1>2, ZenonT(30) DEF Inv, Types, Waiting, Waits
  <2> QED BY <2>1, <2>2, <1>1, <1>2, ZenonT(30) DEF Inv, Waiting
<1>e. Timed'
  BY <1>1, <1>2, TimedKept, Zenon DEF Inv, Sleeps
<1>f. Called'
  BY <1>1, <1>2, CalledKept, Zenon DEF Inv, Spinning
<1> QED BY <1>a, <1>b, <1>c, <1>d, <1>e, <1>f, Zenon DEF Inv

\* Nobody walks along the queue while the entry is taken off it.
LEMMA RemoveEntryStep ==
    ASSUME Inv, NEW c \in Cpus, NEW t \in Tasks, RemoveEntry(c, t)
    PROVE  Inv'
<1>1. /\ t = current[c] /\ pc[t] = "remove" /\ WaitqUnlocked
      /\ waitq' = waitq \ {t} /\ cond' = cond /\ waking' = waking /\ todo' = todo
      /\ state' = state /\ cpu' = cpu /\ runq' = runq /\ current' = current /\ timerq' = timerq
      /\ UNCHANGED callVars
  BY Zenon DEF RemoveEntry, Runs, schedVars
<1>2. pc' \in [Tasks -> Locations] /\ pc'[t] = "return" /\ \A u \in Tasks \ {t} : pc'[u] = pc[u]
  <2>1. Goto(t, "return") /\ "return" \in Locations
    BY Zenon DEF RemoveEntry, Locations, Active
  <2> QED BY <2>1, GotoFacts, Zenon
<1>3. state[t] = "READY" /\ todo = {}
  BY <1>1, Zenon DEF Inv, Placed, Active, Waiting
<1>a. Types'
  BY <1>1, <1>2, Zenon DEF Inv, Types, callVars
<1>b. Queued'
  BY <1>1, <1>2, QueuedKept, Zenon DEF Inv
<1>c. Placed'
  BY <1>1, <1>2, Zenon DEF Inv, Placed, Active, Waits, Sleeps, Dead, Spinning
<1>d. Waiting'
  <2>1. WaitqUnlocked' <=> WaitqUnlocked
    BY <1>1, Zenon DEF WaitqUnlocked
  <2>2. \A u \in waitq' : u \in Tasks /\ pc'[u] \in Waits \cup {"remove"}
    BY <1>1, <1>2, Zenon DEF Inv, Types, Waiting, Waits
  <2> QED BY <2>1, <2>2, <1>1, <1>2, <1>3, Zenon DEF Inv, Waiting
<1>e. Timed'
  BY <1>1, <1>2, TimedKept, Zenon DEF Inv, Sleeps
<1>f. Called'
  BY <1>1, <1>2, CalledKept, Zenon DEF Inv, Spinning
<1> QED BY <1>a, <1>b, <1>c, <1>d, <1>e, <1>f, Zenon DEF Inv

\* The condition becomes true with a call of waitq_wakeup under way, or false.
LEMMA ConditionStep ==
    ASSUME Inv, NEW c \in Cpus,
           pc' \in [Tasks -> Locations],
           \A t \in Tasks : pc'[t] = pc[t] \/ (pc[t] = "user" /\ pc'[t] = "return"),
           waking[c] = "no",
           \/ cond' = TRUE /\ waking' = [waking EXCEPT ![c] = "spin"]
           \/ cond' = FALSE /\ waking' = waking,
           UNCHANGED <<state, cpu, runq, current, timerq, waitq, todo, callVars>>
    PROVE  Inv'
<1>1. /\ state' = state /\ cpu' = cpu /\ runq' = runq /\ current' = current /\ timerq' = timerq
      /\ waitq' = waitq /\ todo' = todo
  BY Zenon
<1>2. /\ waking' \in [Cpus -> {"no", "spin", "loop"}]
      /\ \A d \in Cpus : waking[d] = "spin" => waking'[d] = "spin"
      /\ \A d \in Cpus : waking[d] = "loop" <=> waking'[d] = "loop"
      /\ cond' => waking'[c] = "spin"
  BY Zenon DEF Inv, Types
<1>a. Types'
  BY <1>1, <1>2, ZenonT(30) DEF Inv, Types, callVars
<1>b. Queued'
  BY <1>1, QueuedKept, Zenon DEF Inv
<1>c. Placed'
  BY <1>1, ZenonT(30) DEF Inv, Placed, Active, Waits, Sleeps, Dead, Spinning
<1>d. Waiting'
  <2>1. WaitqUnlocked' <=> WaitqUnlocked
    BY <1>2, Zenon DEF WaitqUnlocked
  <2>2. \A t \in waitq : pc'[t] \in Waits \cup {"remove"}
    BY Zenon DEF Inv, Types, Waiting, Waits
  <2> QED BY <2>1, <2>2, <1>1, <1>2, Zenon DEF Inv, Waiting
<1>e. Timed'
  BY <1>1, TimedKept, Zenon DEF Inv, Sleeps
<1>f. Called'
  BY <1>1, CalledKept, Zenon DEF Inv, Spinning
<1> QED BY <1>a, <1>b, <1>c, <1>d, <1>e, <1>f, Zenon DEF Inv

\* The loop of waitq_wakeup begins with all the entries.
LEMMA WakeupLockStep ==
    ASSUME Inv, NEW c \in Cpus, WakeupLock(c)
    PROVE  Inv'
<1>1. /\ waking[c] = "spin" /\ WaitqUnlocked /\ waking' = [waking EXCEPT ![c] = "loop"] /\ todo' = waitq
      /\ state' = state /\ pc' = pc /\ cpu' = cpu /\ runq' = runq /\ current' = current
      /\ timerq' = timerq /\ cond' = cond /\ waitq' = waitq /\ UNCHANGED callVars
  BY Zenon DEF WakeupLock, taskVars, schedVars
<1>2. waking' \in [Cpus -> {"no", "spin", "loop"}] /\ waking'[c] = "loop"
  BY <1>1, Zenon DEF Inv, Types
<1>a. Types'
  BY <1>1, <1>2, Zenon DEF Inv, Types, callVars
<1>b. Queued'
  BY <1>1, QueuedKept, Zenon DEF Inv
<1>c. Placed'
  BY <1>1, Zenon DEF Inv, Placed
<1>d. Waiting'
  <2>1. ~ WaitqUnlocked'
    BY <1>2, Zenon DEF WaitqUnlocked
  <2> QED BY <2>1, <1>1, Zenon DEF Inv, Waiting
<1>e. Timed'
  BY <1>1, TimedKept, Zenon DEF Inv
<1>f. Called'
  BY <1>1, CalledKept, Zenon DEF Inv
<1> QED BY <1>a, <1>b, <1>c, <1>d, <1>e, <1>f, Zenon DEF Inv

\* It wakes a task that is inside wait_event, never one that sleeps on a timer.
LEMMA WakeupEntryStep ==
    ASSUME Inv, NEW c \in Cpus, WakeupEntry(c)
    PROVE  Inv'
<1>1. PICK t \in todo :
         /\ sched_wakeup_task(c, {t}, {"UNINTERRUPTIBLE", "INTERRUPTIBLE"})
         /\ todo' = todo \ {t}
  BY Zenon DEF WakeupEntry
<1>2. /\ pc' = pc /\ cpu' = cpu /\ runq' = runq /\ current' = current
      /\ waking[c] = "loop" /\ waking' = waking
      /\ timerq' = timerq /\ cond' = cond /\ waitq' = waitq /\ UNCHANGED callVars
  BY Zenon DEF WakeupEntry, schedVars
<1>3. t \in Tasks /\ t \in waitq /\ pc[t] \in Waits \cup {"remove"}
  BY Zenon DEF Inv, Types, Waiting
<1>4. state[t] \in {"READY", "UNINTERRUPTIBLE"}
  BY <1>3, Zenon DEF Inv, Placed, Active
<1>5. state' \in [Tasks -> States] /\ state'[t] = "READY" /\ \A u \in Tasks \ {t} : state'[u] = state[u]
  BY <1>1, <1>3, <1>4, Zenon DEF Inv, Types, sched_wakeup_task, States
<1>a. Types'
  BY <1>1, <1>2, <1>5, Zenon DEF Inv, Types, callVars
<1>b. Queued'
  BY <1>2, QueuedKept, Zenon DEF Inv
<1>c. Placed'
  BY <1>2, <1>3, <1>5, Zenon DEF Inv, Placed, Active, Waits, Sleeps, Dead, Spinning
<1>d. Waiting'
  <2>1. ~ WaitqUnlocked /\ ~ WaitqUnlocked'
    BY <1>2, Zenon DEF WaitqUnlocked
  <2> QED BY <2>1, <1>1, <1>2, <1>5, Zenon DEF Inv, Waiting
<1>e. Timed'
  BY <1>2, <1>3, <1>5, TimedKept, Zenon DEF Inv, Sleeps, Waits
<1>f. Called'
  BY <1>2, CalledKept, Zenon DEF Inv
<1> QED BY <1>a, <1>b, <1>c, <1>d, <1>e, <1>f, Zenon DEF Inv

\* waitq_wakeup releases the lock when every entry has been woken.
LEMMA WakeupUnlockStep ==
    ASSUME Inv, NEW c \in Cpus, WakeupUnlock(c)
    PROVE  Inv'
<1>1. /\ waking[c] = "loop" /\ waking' = [waking EXCEPT ![c] = "no"] /\ todo = {} /\ todo' = todo
      /\ state' = state /\ pc' = pc /\ cpu' = cpu /\ runq' = runq /\ current' = current
      /\ timerq' = timerq /\ cond' = cond /\ waitq' = waitq /\ UNCHANGED callVars
  BY Zenon DEF WakeupUnlock, taskVars, schedVars
<1>2. /\ waking' \in [Cpus -> {"no", "spin", "loop"}]
      /\ \A d \in Cpus : waking[d] = "spin" => waking'[d] = "spin"
  BY <1>1, Zenon DEF Inv, Types
<1>a. Types'
  BY <1>1, <1>2, Zenon DEF Inv, Types, callVars
<1>b. Queued'
  BY <1>1, QueuedKept, Zenon DEF Inv
<1>c. Placed'
  BY <1>1, Zenon DEF Inv, Placed
<1>d. Waiting'
  BY <1>1, <1>2, Zenon DEF Inv, Waiting
<1>e. Timed'
  BY <1>1, TimedKept, Zenon DEF Inv
<1>f. Called'
  BY <1>1, CalledKept, Zenon DEF Inv
<1> QED BY <1>a, <1>b, <1>c, <1>d, <1>e, <1>f, Zenon DEF Inv

-----------------------------------------------------------------------------
(* timer.c *)

Sorted(q) == \A i, j \in 1..Len(q) : i <= j => q[i].left <= q[j].left

\* timer_add keeps the list sorted, and the timers that were in it.
LEMMA TimerAddFacts ==
    ASSUME NEW q \in Seq(Timer), Sorted(q), NEW x \in Timer
    PROVE  /\ timer_add(q, x) \in Seq(Timer) /\ Len(timer_add(q, x)) = Len(q) + 1
           /\ Sorted(timer_add(q, x))
           /\ \E n \in 0..Len(q) : \A i \in 1..(Len(q) + 1) :
                 timer_add(q, x)[i] = IF i <= n THEN q[i] ELSE IF i = n + 1 THEN x ELSE q[i - 1]
<1> DEFINE later == {i \in DOMAIN q : q[i].left > x.left}
           n == Passed(q, later)
           a == SubSeq(q, 1, n)
           b == SubSeq(q, n + 1, Len(q))
           new == a \o <<x>> \o b
<1>1. Len(q) \in Nat /\ DOMAIN q = 1..Len(q) /\ \A i \in 1..Len(q) : q[i] \in Timer
  OBVIOUS
<1>2. x.left \in Int /\ \A i \in 1..Len(q) : q[i].left \in Int
  BY <1>1, Zenon DEF Timer
<1>3. /\ n \in 0..Len(q) /\ \A i \in 1..n : i \notin later
      /\ n < Len(q) => n + 1 \in later
  <2>1. later \in SUBSET (1..Len(q))
    BY <1>1, Zenon
  <2> HIDE DEF later
  <2> QED BY <2>1, PassedFacts, Zenon
<1>4. timer_add(q, x) = new
  BY Zenon DEF timer_add
<1>5. n \in Int /\ 0 <= n /\ n <= Len(q)
  BY <1>1, <1>3
<1>6. \A i \in 1..n : i \in 1..Len(q) /\ q[i].left <= x.left
  BY <1>1, <1>2, <1>3, <1>5
<1>7. \A i \in (n + 1)..Len(q) : i \in 1..Len(q) /\ x.left <= q[i].left
  <2> SUFFICES ASSUME NEW i \in (n + 1)..Len(q) PROVE i \in 1..Len(q) /\ x.left <= q[i].left
    BY Zenon
  <2>1. n < Len(q) /\ n + 1 \in 1..Len(q) /\ i \in 1..Len(q) /\ n + 1 <= i
    BY <1>1, <1>5
  <2>2. q[n + 1].left > x.left
    BY <2>1, <1>3, Zenon
  <2>3. q[n + 1].left <= q[i].left
    BY <2>1, Zenon DEF Sorted
  <2> QED BY <2>1, <2>2, <2>3, <1>2
<1> HIDE DEF n
<1>8. a \in Seq(Timer) /\ Len(a) = n /\ \A i \in 1..n : a[i] = q[i]
  BY <1>1, <1>5
<1>9. b \in Seq(Timer) /\ Len(b) = Len(q) - n /\ \A i \in 1..(Len(q) - n) : b[i] = q[n + i]
  <2>1. n \in 0..Len(q)
    BY <1>1, <1>5
  <2> QED BY <2>1, TailFacts, Zenon
<1> HIDE DEF a, b
<1> DEFINE ax == a \o <<x>>
<1>10. ax \in Seq(Timer) /\ Len(ax) = n + 1 /\ \A i \in 1..(n + 1) : ax[i] = IF i <= n THEN a[i] ELSE x
  <2>1. <<x>> \in Seq(Timer) /\ Len(<<x>>) = 1 /\ <<x>>[1] = x
    OBVIOUS
  <2>2. /\ ax \in Seq(Timer) /\ Len(ax) = Len(a) + 1
        /\ \A i \in 1..(Len(a) + 1) : ax[i] = IF i <= Len(a) THEN a[i] ELSE <<x>>[i - Len(a)]
    BY <2>1, <1>8, ConcatFacts, ZenonT(30)
  <2>3. ASSUME NEW i \in 1..(n + 1) PROVE ax[i] = IF i <= n THEN a[i] ELSE x
    <3>1. ax[i] = IF i <= n THEN a[i] ELSE <<x>>[i - n]
      BY <2>2, <1>8, Zenon
    <3>2. ~ (i <= n) => i - n = 1
      BY <1>5
    <3> QED BY <3>1, <3>2, <2>1, Zenon
  <2> HIDE DEF ax
  <2> QED BY <2>2, <2>3, <1>8, Zenon
<1> HIDE DEF ax
<1>11. new = ax \o b
  BY Zenon DEF ax
<1> HIDE DEF new
<1>12. /\ new \in Seq(Timer) /\ Len(new) = Len(ax) + Len(b)
       /\ \A i \in 1..(Len(ax) + Len(b)) : new[i] = IF i <= Len(ax) THEN ax[i] ELSE b[i - Len(ax)]
  BY <1>9, <1>10, <1>11, ConcatFacts, Zenon
<1>13. Len(new) = Len(q) + 1
  BY <1>1, <1>5, <1>9, <1>10, <1>12
<1>14. ASSUME NEW i \in 1..(Len(q) + 1)
       PROVE  new[i] = IF i <= n THEN q[i] ELSE IF i = n + 1 THEN x ELSE q[i - 1]
  <2>1. i \in Int /\ 1 <= i /\ i <= Len(q) + 1 /\ i \in 1..(Len(ax) + Len(b))
    BY <1>1, <1>12, <1>13
  <2>2. CASE i <= n + 1
    <3>1. i \in 1..(n + 1) /\ new[i] = ax[i]
      BY <2>1, <2>2, <1>5, <1>10, <1>12
    <3>2. ax[i] = IF i <= n THEN a[i] ELSE x
      BY <3>1, <1>10, Zenon
    <3>3. i <= n => a[i] = q[i]
      BY <2>1, <1>5, <1>8
    <3>4. i <= n \/ i = n + 1
      BY <2>1, <2>2, <1>5
    <3> QED BY <3>1, <3>2, <3>3, <3>4, Zenon
  <2>3. CASE ~ (i <= n + 1)
    <3>1. new[i] = b[i - (n + 1)]
      BY <2>1, <2>3, <1>10, <1>12
    <3>2. i - (n + 1) \in 1..(Len(q) - n) /\ n + (i - (n + 1)) = i - 1 /\ ~ (i <= n) /\ i # n + 1
      BY <2>1, <2>3, <1>1, <1>5
    <3>3. b[i - (n + 1)] = q[i - 1]
      BY <3>2, <1>9, Zenon
    <3> QED BY <3>1, <3>2, <3>3, Zenon
  <2> QED BY <2>2, <2>3, Zenon
<1>15. Sorted(new)
  <2> SUFFICES ASSUME NEW i \in 1..Len(new), NEW j \in 1..Len(new), i <= j
               PROVE  new[i].left <= new[j].left
    BY Zenon DEF Sorted
  <2>1. i \in Int /\ j \in Int /\ 1 <= i /\ j <= Len(q) + 1
    BY <1>1, <1>13
  <2>2. /\ new[i] = IF i <= n THEN q[i] ELSE IF i = n + 1 THEN x ELSE q[i - 1]
        /\ new[j] = IF j <= n THEN q[j] ELSE IF j = n + 1 THEN x ELSE q[j - 1]
    BY <1>13, <1>14, Zenon
  <2>3. CASE j <= n
    BY <2>1, <2>2, <2>3, <1>1, <1>5 DEF Sorted
  <2>4. CASE i > n + 1
    <3>1. i - 1 \in 1..Len(q) /\ j - 1 \in 1..Len(q) /\ i - 1 <= j - 1
      BY <2>1, <2>4, <1>1, <1>5
    <3>2. new[i] = q[i - 1] /\ new[j] = q[j - 1]
      BY <2>1, <2>2, <2>4, <1>5
    <3> QED BY <3>1, <3>2, Zenon DEF Sorted
  <2>5. CASE i <= n + 1 /\ ~ (j <= n)
    <3>1. new[i].left <= x.left
      BY <2>1, <2>2, <2>5, <1>2, <1>5, <1>6
    <3>2. x.left <= new[j].left
      <4>1. CASE j = n + 1
        BY <4>1, <2>2, <1>2, <1>5
      <4>2. CASE j > n + 1
        <5>1. j - 1 \in (n + 1)..Len(q) /\ new[j] = q[j - 1]
          BY <4>2, <2>1, <2>2, <1>1, <1>5
        <5> QED BY <5>1, <1>7, Zenon
      <4> QED BY <4>1, <4>2, <2>1, <2>5, <1>5
    <3>3. new[i].left \in Int /\ new[j].left \in Int
      <4>1. new[i] \in Timer /\ new[j] \in Timer
        BY <1>12
      <4> QED BY <4>1, Zenon DEF Timer
    <3> QED BY <3>1, <3>2, <3>3, <1>2
  <2> QED BY <2>1, <2>3, <2>4, <2>5, <1>5
<1> QED BY <1>3, <1>4, <1>12, <1>13, <1>14, <1>15, Zenon DEF n

\* A task that begins to sleep has no timer yet.
LEMMA SleepAddStep ==
    ASSUME Inv, NEW c \in Cpus, NEW t \in Tasks, SleepAdd(c, t)
    PROVE  Inv'
<1>1. PICK m \in 1..MaxSleep : timerq' = [timerq EXCEPT ![c] = timer_add(@, [task |-> t, left |-> m])]
  BY Zenon DEF SleepAdd
<1> DEFINE x == [task |-> t, left |-> m]
           q == timerq[c]
<1>2. /\ t = current[c] /\ pc[t] = "user" /\ state' = state /\ cpu' = cpu /\ runq' = runq
      /\ current' = current /\ UNCHANGED <<waitVars, callVars>>
  BY Zenon DEF SleepAdd, Runs, schedVars
<1>3. pc' \in [Tasks -> Locations] /\ pc'[t] = "added" /\ \A u \in Tasks \ {t} : pc'[u] = pc[u]
  <2>1. Goto(t, "added") /\ "added" \in Locations
    BY Zenon DEF SleepAdd, Locations, Active
  <2> QED BY <2>1, GotoFacts, Zenon
<1>4. x \in Timer /\ x.task = t /\ x.left > 0
  BY SleepAssumption DEF Timer
<1>5. q \in Seq(Timer) /\ Sorted(q) /\ Len(q) \in Nat
  BY TimerTypes, Zenon DEF Inv, Timed, Sorted
<1>6. timerq'[c] = timer_add(q, x) /\ \A d \in Cpus \ {c} : timerq'[d] = timerq[d]
  BY <1>1, Zenon DEF Inv, Types
<1> HIDE DEF x, q
<1>7. timerq'[c] \in Seq(Timer) /\ Len(timerq'[c]) = Len(q) + 1 /\ Sorted(timerq'[c])
  BY <1>4, <1>5, <1>6, TimerAddFacts, ZenonT(30)
<1>8. PICK n \in 0..Len(q) : \A i \in 1..(Len(q) + 1) :
         timerq'[c][i] = IF i <= n THEN q[i] ELSE IF i = n + 1 THEN x ELSE q[i - 1]
  <2>1. \E n \in 0..Len(q) : \A i \in 1..(Len(q) + 1) :
           timer_add(q, x)[i] = IF i <= n THEN q[i] ELSE IF i = n + 1 THEN x ELSE q[i - 1]
    BY <1>4, <1>5, TimerAddFacts, Zenon
  <2> QED BY <2>1, <1>6, Zenon
\* Where a timer was before, unless it is the new one.
<1> DEFINE Is(d, i) == d = c /\ i = n + 1
           Old(d, i) == IF d = c /\ i > n THEN i - 1 ELSE i
<1>9. ASSUME NEW d \in Cpus, NEW i \in 1..Len(timerq'[d])
      PROVE  /\ i \in Int /\ n \in Int
             /\ Is(d, i) => timerq'[d][i] = x
             /\ ~ Is(d, i) => Old(d, i) \in 1..Len(timerq[d]) /\ timerq'[d][i] = timerq[d][Old(d, i)]
  <2>1. CASE d # c
    <3>1. Len(timerq[d]) \in Nat
      BY TimerTypes, Zenon DEF Inv
    <3>2. timerq'[d] = timerq[d]
      BY <2>1, <1>6, Zenon
    <3>3. i \in 1..Len(timerq[d])
      BY <3>2, Zenon
    <3>4. i \in Int /\ n \in Int
      BY <3>1, <3>3, <1>5
    <3>5. ~ Is(d, i) /\ Old(d, i) = i
      BY <2>1, Zenon
    <3> HIDE DEF Is, Old
    <3> QED BY <3>2, <3>3, <3>4, <3>5, Zenon
  <2>2. CASE d = c
    BY <2>2, <1>5, <1>7, <1>8, SMTT(30) DEF q
  <2> QED BY <2>1, <2>2, Zenon
<1>10. \A d \in Cpus : \A i \in 1..Len(timerq[d]) :
          /\ timerq[d][i].task \in Tasks \ {t}
          /\ timerq[d][i].left > 0
          /\ \/ pc[timerq[d][i].task] = "added"
             \/ pc[timerq[d][i].task] \in Sleeps /\ state[timerq[d][i].task] = "INTERRUPTIBLE"
  <2>1. \A d \in Cpus : \A i \in 1..Len(timerq[d]) : timerq[d][i].task \in Tasks
    BY TimerTypes, Zenon DEF Inv
  <2> QED BY <2>1, <1>2, Zenon DEF Inv, Timed, Sleeps
<1> HIDE DEF Is, Old
<1>11. ASSUME NEW d \in Cpus, NEW i \in 1..Len(timerq'[d])
       PROVE  /\ timerq'[d][i].left > 0
              /\ Is(d, i) <=> timerq'[d][i].task = t
              /\ timerq'[d][i].task \in Tasks
              /\ ~ Is(d, i) => pc[timerq'[d][i].task] = "added"
                               \/ (pc[timerq'[d][i].task] \in Sleeps /\ state[timerq'[d][i].task] = "INTERRUPTIBLE")
  <2>1. CASE Is(d, i)
    BY <2>1, <1>4, <1>9, Zenon
  <2>2. CASE ~ Is(d, i)
    <3>1. PICK o \in 1..Len(timerq[d]) : timerq'[d][i] = timerq[d][o]
      BY <2>2, <1>9, Zenon
    <3> DEFINE y == timerq[d][o]
    <3>2. /\ y.left > 0 /\ y.task \in Tasks \ {t}
          /\ pc[y.task] = "added" \/ (pc[y.task] \in Sleeps /\ state[y.task] = "INTERRUPTIBLE")
      BY <1>10, Zenon
    <3> HIDE DEF y
    <3>3. timerq'[d][i] = y
      BY <3>1, Zenon DEF y
    <3> QED BY <3>2, <3>3, <2>2, Zenon
  <2> QED BY <2>1, <2>2, Zenon
<1>a. Types'
  <2>1. timerq' \in [Cpus -> Seq(Timer)]
    BY <1>1, <1>6, <1>7, Zenon DEF Inv, Types
  <2> QED BY <2>1, <1>2, <1>3, Zenon DEF Inv, Types, waitVars, callVars
<1>b. Queued'
  <2>1. \A u \in Tasks : (pc'[u] = "bug" <=> pc[u] = "bug") /\ (pc'[u] = "none" <=> pc[u] = "none")
    BY <1>2, <1>3, Zenon
  <2> QED BY <2>1, <1>2, QueuedKept, Zenon DEF Inv
<1>c. Placed'
  BY <1>2, <1>3, ZenonT(30) DEF Inv, Placed, Active, Waits, Sleeps, Dead, Spinning
<1>d. Waiting'
  BY <1>2, <1>3, WaitingKept, Zenon DEF Inv, Waits
<1>e. Timed'
  <2>1. ASSUME NEW d \in Cpus, NEW e \in Cpus, NEW i \in 1..Len(timerq'[d]), NEW j \in 1..Len(timerq'[e]),
               timerq'[d][i].task = timerq'[e][j].task
        PROVE  d = e /\ i = j
    <3>1. Is(d, i) <=> Is(e, j)
      BY <2>1, <1>11, Zenon
    <3>2. CASE Is(d, i)
      BY <3>1, <3>2, Zenon DEF Is
    <3>3. CASE ~ Is(d, i)
      <4> DEFINE o == Old(d, i)
                 p == Old(e, j)
      <4>0. /\ o \in 1..Len(timerq[d]) /\ timerq'[d][i] = timerq[d][o]
            /\ p \in 1..Len(timerq[e]) /\ timerq'[e][j] = timerq[e][p]
        BY <3>1, <3>3, <1>9, Zenon
      <4> HIDE DEF o, p
      <4>1. d = e /\ o = p
        <5>1. timerq[d][o].task = timerq[e][p].task
          BY <4>0, <2>1, Zenon
        <5>2. \A a, b \in Cpus : \A k \in 1..Len(timerq[a]), l \in 1..Len(timerq[b]) :
                 timerq[a][k].task = timerq[b][l].task => a = b /\ k = l
          BY Zenon DEF Inv, Timed
        <5>3. d \in Cpus /\ e \in Cpus /\ o \in 1..Len(timerq[d]) /\ p \in 1..Len(timerq[e])
          BY <4>0, Zenon
        <5> QED BY <5>1, <5>2, <5>3, ZenonT(30)
      <4> USE DEF o, p
      <4> QED BY <4>1, <3>1, <3>3, <1>9 DEF Is, Old
    <3> QED BY <3>2, <3>3, Zenon
  <2>2. \A d \in Cpus : Sorted(timerq'[d])
    BY <1>6, <1>7, Zenon DEF Inv, Timed, Sorted
  <2>3. ASSUME NEW d \in Cpus, NEW i \in 1..Len(timerq'[d])
        PROVE  /\ timerq'[d][i].left > 0
               /\ \/ pc'[timerq'[d][i].task] = "added"
                  \/ pc'[timerq'[d][i].task] \in Sleeps /\ state'[timerq'[d][i].task] = "INTERRUPTIBLE"
    BY <1>2, <1>3, <1>11, Zenon
  <2> QED BY <2>1, <2>2, <2>3, Zenon DEF Timed, Sorted
<1>f. Called'
  BY <1>2, <1>3, CalledKept, ZenonT(30) DEF Inv, Spinning
<1> QED BY <1>a, <1>b, <1>c, <1>d, <1>e, <1>f, Zenon DEF Inv

\* A tick takes the timers that have expired off the head of the list; those behind
\* them expire later, and no other list has a timer of the tasks it wakes.
LEMMA TickStep ==
    ASSUME Inv, NEW c \in Cpus, Tick(c)
    PROVE  Inv'
<1> DEFINE old == timerq[c]
           q == [i \in DOMAIN old |-> [old[i] EXCEPT !.left = @ - 1]]
           n == Passed(q, {i \in DOMAIN q : q[i].left > 0})
           ts == {q[i].task : i \in 1..n}
<1>1. /\ timerq' = [timerq EXCEPT ![c] = SubSeq(q, n + 1, Len(q))]
      /\ sched_wakeup_task(c, ts, {"INTERRUPTIBLE"})
      /\ Interrupted(c) /\ cpu' = cpu /\ runq' = runq /\ current' = current
      /\ UNCHANGED <<waitVars, callVars>>
  BY Zenon DEF Tick
<1>2. /\ old \in Seq(Timer) /\ Len(old) \in Nat /\ DOMAIN old = 1..Len(old)
      /\ \A i \in 1..Len(old) : old[i] \in Timer /\ old[i].task \in Tasks /\ old[i].left \in Int
  BY TimerTypes, Zenon DEF Inv
<1>3. \A i \in 1..Len(old) : /\ old[i].left > 0
                             /\ \A j \in 1..Len(old) : i <= j => old[i].left <= old[j].left
  BY Zenon DEF Inv, Timed
<1> HIDE DEF old
<1>4. ASSUME NEW i \in 1..Len(old)
      PROVE  q[i] \in Timer /\ q[i].task = old[i].task /\ q[i].left = old[i].left - 1
  <2>1. old[i] \in [task : Tasks, left : Int] /\ q[i] = [old[i] EXCEPT !.left = @ - 1]
    BY <1>2, Zenon DEF Timer
  <2> QED BY <2>1 DEF Timer
<1>5. q \in Seq(Timer) /\ Len(q) = Len(old) /\ DOMAIN q = 1..Len(old)
  <2>1. q \in [1..Len(old) -> Timer]
    BY <1>2, <1>4, Zenon
  <2> HIDE DEF q
  <2> QED BY <2>1, <1>2
<1> HIDE DEF q
<1>6. /\ n \in 0..Len(q) /\ \A i \in 1..n : i \notin {k \in DOMAIN q : q[k].left > 0}
      /\ n < Len(q) => n + 1 \in {k \in DOMAIN q : q[k].left > 0}
  <2>1. {k \in DOMAIN q : q[k].left > 0} \in SUBSET (1..Len(q))
    BY <1>5, Zenon
  <2> QED BY <2>1, <1>5, PassedFacts, Zenon
<1> HIDE DEF n
<1>7. n \in Int /\ 0 <= n /\ n <= Len(old)
  BY <1>2, <1>5, <1>6
<1> DEFINE new == SubSeq(q, n + 1, Len(q))
<1>8. new \in Seq(Timer) /\ Len(new) = Len(old) - n /\ \A i \in 1..(Len(old) - n) : new[i] = q[n + i]
  <2>1. n \in 0..Len(q)
    BY <1>6, Zenon
  <2>2. new \in Seq(Timer) /\ Len(new) = Len(q) - n /\ \A i \in 1..(Len(q) - n) : new[i] = q[n + i]
    BY <2>1, <1>5, TailFacts, Zenon
  <2> QED BY <2>2, <1>5, Zenon
<1>9. timerq'[c] = new /\ \A d \in Cpus \ {c} : timerq'[d] = timerq[d]
  BY <1>1, Zenon DEF Inv, Types
<1>10. timerq' \in [Cpus -> Seq(Timer)]
  BY <1>1, <1>8, Zenon DEF Inv, Types
<1> HIDE DEF new
\* Where a timer was before.
<1> DEFINE Old(d, i) == IF d = c THEN n + i ELSE i
<1>11. ASSUME NEW d \in Cpus, NEW i \in 1..Len(timerq'[d])
       PROVE  /\ i \in Int /\ Old(d, i) \in 1..Len(timerq[d])
              /\ d = c => Old(d, i) > n
              /\ timerq'[d][i].task = timerq[d][Old(d, i)].task
              /\ timerq'[d][i].left = timerq[d][Old(d, i)].left - (IF d = c THEN 1 ELSE 0)
  <2>1. CASE d = c
    <3>1. i \in Int /\ n + i \in 1..Len(old) /\ n + i > n /\ i \in 1..(Len(old) - n)
      BY <2>1, <1>2, <1>7, <1>8, <1>9
    <3>2. timerq'[d][i] = q[n + i]
      BY <3>1, <2>1, <1>8, <1>9, Zenon
    <3> QED BY <3>1, <3>2, <2>1, <1>4, Zenon DEF old
  <2>2. CASE d # c
    <3>1. timerq'[d] = timerq[d] /\ Len(timerq[d]) \in Nat
      BY <2>2, <1>9, TimerTypes, ZenonT(30) DEF Inv
    <3>2. timerq[d][i].left \in Int
      BY <3>1, TimerTypes, Zenon DEF Inv
    <3> QED BY <3>1, <3>2, <2>2
  <2> QED BY <2>1, <2>2, Zenon
<1>12. \A d \in Cpus : \A i \in 1..Len(timerq[d]) :
          /\ timerq[d][i].task \in Tasks /\ timerq[d][i].left \in Int /\ timerq[d][i].left > 0
          /\ pc[timerq[d][i].task] = "added"
             \/ (pc[timerq[d][i].task] \in Sleeps /\ state[timerq[d][i].task] = "INTERRUPTIBLE")
  <2>1. \A d \in Cpus : \A i \in 1..Len(timerq[d]) : timerq[d][i].task \in Tasks /\ timerq[d][i].left \in Int
    BY TimerTypes, Zenon DEF Inv
  <2> QED BY <2>1, Zenon DEF Inv, Timed
<1>13. /\ state' \in [Tasks -> States]
       /\ \A u \in Tasks : state'[u] = IF u \in ts /\ state[u] = "INTERRUPTIBLE" THEN "READY" ELSE state[u]
  <2> HIDE DEF ts
  <2> QED BY <1>1, Zenon DEF sched_wakeup_task, Inv, Types, States
<1>14. pc' \in [Tasks -> Locations] /\ \A u \in Tasks : pc'[u] = pc[u] \/ (pc[u] = "user" /\ pc'[u] = "return")
  BY <1>1, InterruptedFacts, Zenon DEF Inv
\* A task woken had its timer among those taken off the list, and has no other.
<1>15. ASSUME NEW d \in Cpus, NEW i \in 1..Len(timerq'[d]) PROVE timerq'[d][i].task \notin ts
  <2> SUFFICES ASSUME NEW j \in 1..n, timerq'[d][i].task = q[j].task PROVE FALSE
    BY Zenon DEF ts
  <2>1. j \in 1..Len(old) /\ j <= n
    BY <1>2, <1>7
  <2> DEFINE o == Old(d, i)
  <2>2. timerq[d][o].task = timerq[c][j].task /\ o \in 1..Len(timerq[d]) /\ (d = c => o > n)
    BY <2>1, <1>4, <1>11 DEF old
  <2> HIDE DEF o
  <2>3. d = c /\ o = j
    BY <2>1, <2>2 DEF Inv, Timed, old
  <2> QED BY <2>1, <2>2, <2>3, <1>2, <1>7
<1> HIDE DEF ts
<1>a. Types'
  BY <1>1, <1>10, <1>13, <1>14, Zenon DEF Inv, Types, waitVars, callVars
<1>b. Queued'
  BY <1>1, <1>14, QueuedKept, Zenon DEF Inv
<1>c. Placed'
  BY <1>1, <1>13, <1>14, ZenonT(30) DEF Inv, Placed, Active, Waits, Sleeps, Dead, Spinning
<1>d. Waiting'
  BY <1>1, <1>13, <1>14, WaitingKept, Zenon DEF Inv, Waits
<1>e. Timed'
  <2> HIDE DEF Old
  <2>1. ASSUME NEW d \in Cpus, NEW e \in Cpus, NEW i \in 1..Len(timerq'[d]), NEW j \in 1..Len(timerq'[e]),
               timerq'[d][i].task = timerq'[e][j].task
        PROVE  d = e /\ i = j
    <3> DEFINE o == Old(d, i)
               p == Old(e, j)
    <3>1. /\ o \in 1..Len(timerq[d]) /\ p \in 1..Len(timerq[e])
          /\ timerq[d][o].task = timerq[e][p].task
      BY <2>1, <1>11, Zenon
    <3> HIDE DEF o, p
    <3>2. d = e /\ o = p
      BY <3>1 DEF Inv, Timed
    <3>3. i \in Int /\ j \in Int
      BY <1>11, Zenon
    <3> QED BY <3>2, <3>3, <1>7 DEF o, p, Old
  <2>2. ASSUME NEW d \in Cpus, NEW i \in 1..Len(timerq'[d]), NEW j \in 1..Len(timerq'[d]), i <= j
        PROVE  timerq'[d][i].left <= timerq'[d][j].left
    <3> DEFINE o == Old(d, i)
               p == Old(d, j)
    <3>1. /\ o \in 1..Len(timerq[d]) /\ p \in 1..Len(timerq[d])
          /\ timerq'[d][i].left = timerq[d][o].left - (IF d = c THEN 1 ELSE 0)
          /\ timerq'[d][j].left = timerq[d][p].left - (IF d = c THEN 1 ELSE 0)
      BY <1>11, Zenon
    <3>2. o <= p
      BY <2>2, <1>7, <1>11 DEF Old
    <3> HIDE DEF o, p
    <3>3. timerq[d][o].left <= timerq[d][p].left /\ timerq[d][o].left \in Int /\ timerq[d][p].left \in Int
      BY <3>1, <3>2, <1>12, Zenon DEF Inv, Timed
    <3> QED BY <3>1, <3>3, SMTT(30)
  <2>3. ASSUME NEW d \in Cpus, NEW i \in 1..Len(timerq'[d])
        PROVE  timerq'[d][i].left > 0
    <3> DEFINE o == Old(d, i)
    <3>1. /\ o \in 1..Len(timerq[d]) /\ (d = c => o > n)
          /\ timerq'[d][i].left = timerq[d][o].left - (IF d = c THEN 1 ELSE 0)
      BY <1>11, Zenon
    <3> HIDE DEF o
    <3>2. timerq[d][o].left > 0 /\ timerq[d][o].left \in Int
      BY <3>1, <1>12, Zenon
    <3>3. CASE d # c
      BY <3>1, <3>2, <3>3
    <3>4. CASE d = c
      <4>1. o \in 1..Len(old) /\ o > n /\ o \in Int
        BY <3>1, <3>4, <1>2 DEF old
      <4>2. n < Len(old) /\ n + 1 \in 1..Len(old) /\ n + 1 <= o
        BY <4>1, <1>2, <1>7
      <4>3. q[n + 1].left > 0
        BY <4>2, <1>5, <1>6, Zenon
      <4>4. old[n + 1].left - 1 > 0 /\ old[n + 1].left <= old[o].left
        BY <4>1, <4>2, <4>3, <1>3, <1>4, Zenon
      <4>5. old[n + 1].left \in Int /\ old[o].left \in Int /\ timerq[d][o] = old[o]
        BY <4>1, <4>2, <3>4, <1>2, Zenon DEF old
      <4> QED BY <4>4, <4>5, <3>1, <3>4
    <3> QED BY <3>3, <3>4, Zenon
  <2>4. ASSUME NEW d \in Cpus, NEW i \in 1..Len(timerq'[d])
        PROVE  pc'[timerq'[d][i].task] = "added"
               \/ (pc'[timerq'[d][i].task] \in Sleeps /\ state'[timerq'[d][i].task] = "INTERRUPTIBLE")
    <3> DEFINE y == timerq'[d][i].task
    <3>1. y \in Tasks /\ (pc[y] = "added" \/ (pc[y] \in Sleeps /\ state[y] = "INTERRUPTIBLE"))
      <4> DEFINE o == Old(d, i)
      <4>1. o \in 1..Len(timerq[d]) /\ y = timerq[d][o].task
        BY <1>11, Zenon
      <4> HIDE DEF o, y
      <4> QED BY <4>1, <1>12, Zenon
    <3>2. y \notin ts
      BY <1>15, Zenon
    <3> HIDE DEF y
    <3>3. pc'[y] = pc[y] /\ state'[y] = state[y]
      BY <3>1, <3>2, <1>13, <1>14, Zenon DEF Sleeps
    <3> QED BY <3>1, <3>3, Zenon DEF y
  <2> QED BY <2>1, <2>2, <2>3, <2>4, Zenon DEF Timed
<1>f. Called'
  BY <1>1, <1>14, CalledKept, ZenonT(30) DEF Inv, Spinning
<1> QED BY <1>a, <1>b, <1>c, <1>d, <1>e, <1>f, Zenon DEF Inv

\* The reschedule interrupt only has its CPU pass through the return path.
LEMMA RescheduleInterruptStep ==
    ASSUME Inv, NEW c \in Cpus, RescheduleInterrupt(c)
    PROVE  Inv'
<1>1. /\ Interrupted(c) /\ state' = state /\ cpu' = cpu /\ runq' = runq /\ current' = current
      /\ timerq' = timerq /\ UNCHANGED <<waitVars, callVars>>
  BY Zenon DEF RescheduleInterrupt
<1>2. pc' \in [Tasks -> Locations] /\ \A u \in Tasks : pc'[u] = pc[u] \/ (pc[u] = "user" /\ pc'[u] = "return")
  BY <1>1, InterruptedFacts, Zenon DEF Inv
<1>a. Types'
  BY <1>1, <1>2, Zenon DEF Inv, Types, waitVars, callVars
<1>b. Queued'
  BY <1>1, <1>2, QueuedKept, Zenon DEF Inv
<1>c. Placed'
  BY <1>1, <1>2, Zenon DEF Inv, Placed, Active, Waits, Sleeps, Dead, Spinning
<1>d. Waiting'
  BY <1>1, <1>2, WaitingKept, Zenon DEF Inv, Waits
<1>e. Timed'
  BY <1>1, <1>2, TimedKept, Zenon DEF Inv, Sleeps
<1>f. Called'
  BY <1>1, <1>2, CalledKept, Zenon DEF Inv, Spinning
<1> QED BY <1>a, <1>b, <1>c, <1>d, <1>e, <1>f, Zenon DEF Inv

-----------------------------------------------------------------------------
(* xcall.c *)

\* The counters of a cross call, and what it means that they have reached the number
\* of the other CPUs.
LEMMA CountFacts ==
    ASSUME Types
    PROVE  /\ Cardinality(Cpus) \in Nat
           /\ IsFiniteSet(Started) /\ IsFiniteSet(Finished)
           /\ xlock \in Cpus => /\ Cardinality(Started) = Cardinality(Cpus) - 1 => xipi \subseteq {xlock}
                                /\ Cardinality(Finished) = Cardinality(Cpus) - 1 =>
                                      \A d \in Cpus : handling[d] = "wait" => d = xlock
<1>1. IsFiniteSet(Cpus) /\ Cardinality(Cpus) \in Nat
  BY CpusAssumption, FS_CardinalityType, Zenon
<1>2. Started \in SUBSET Cpus /\ Finished \in SUBSET Cpus
  BY Zenon DEF Started, Finished
<1>3. IsFiniteSet(Started) /\ IsFiniteSet(Finished)
  BY <1>1, <1>2, FS_Subset, Zenon
<1>4. ASSUME xlock \in Cpus
      PROVE  /\ IsFiniteSet(Cpus \ {xlock}) /\ Cardinality(Cpus \ {xlock}) = Cardinality(Cpus) - 1
             /\ Cardinality(Started) = Cardinality(Cpus) - 1 => Started = Cpus \ {xlock}
             /\ Cardinality(Finished) = Cardinality(Cpus) - 1 => Finished = Cpus \ {xlock}
  <2>1. IsFiniteSet(Cpus \ {xlock}) /\ Cardinality(Cpus \ {xlock}) = Cardinality(Cpus) - 1
    BY <1>1, <1>4, FS_RemoveElement, Zenon
  <2>2. Started \in SUBSET (Cpus \ {xlock}) /\ Finished \in SUBSET (Cpus \ {xlock})
    BY Zenon DEF Started, Finished
  <2> QED BY <2>1, <2>2, FS_Subset, Zenon
<1>5. Started = Cpus \ {xlock} => xipi \subseteq {xlock}
  BY Zenon DEF Started, Types
<1>6. Finished = Cpus \ {xlock} => \A d \in Cpus : handling[d] = "wait" => d = xlock
  BY Zenon DEF Finished
<1> QED BY <1>1, <1>3, <1>4, <1>5, <1>6, Zenon

\* The lock is free, so that no CPU has an interrupt of an earlier call to take or an
\* earlier call to finish.
LEMMA XcallSendStep ==
    ASSUME Inv, NEW c \in Cpus, NEW t \in Tasks, XcallSend(c, t)
    PROVE  Inv'
<1>1. PICK wait \in BOOLEAN : xdata' = [wait |-> wait, started |-> 0, finished |-> 0]
  BY Zenon DEF XcallSend
<1>2. /\ t = current[c] /\ pc[t] = "xcall" /\ handling[c] = "no"
      /\ xlock = NoCpu /\ xlock' = c /\ xipi' = xipi \cup (Cpus \ {c}) /\ handling' = handling
      /\ state' = state /\ cpu' = cpu /\ runq' = runq /\ current' = current /\ timerq' = timerq
      /\ UNCHANGED waitVars
  BY Zenon DEF XcallSend, Runs, schedVars, Undisturbed
<1>3. pc' \in [Tasks -> Locations] /\ pc'[t] = "xstart" /\ \A u \in Tasks \ {t} : pc'[u] = pc[u]
  <2>1. Goto(t, "xstart") /\ "xstart" \in Locations
    BY Zenon DEF XcallSend, Locations, Active, Spinning
  <2> QED BY <2>1, GotoFacts, Zenon
<1>4. NoCpu \notin Cpus /\ xipi = {} /\ cpu[t] = c /\ \A u \in Tasks : pc[u] \notin Spinning
  BY <1>2, CpusAssumption, TasksAssumption, Zenon DEF Inv, Called, Queued
<1>a. Types'
  BY <1>1, <1>2, <1>3, Zenon DEF Inv, Types, waitVars
<1>b. Queued'
  BY <1>2, <1>3, QueuedKept, Zenon DEF Inv
<1>c. Placed'
  BY <1>2, <1>3, ZenonT(30) DEF Inv, Placed, Active, Waits, Sleeps, Dead, Spinning
<1>d. Waiting'
  BY <1>2, <1>3, WaitingKept, Zenon DEF Inv, Waits
<1>e. Timed'
  BY <1>2, <1>3, TimedKept, Zenon DEF Inv, Sleeps
<1>f. Called'
  <2>1. Started' = {} /\ Finished' = {}
    BY <1>2, <1>4, Zenon DEF Started, Finished
  <2>2. Cardinality(Started') = 0 /\ Cardinality(Finished') = 0
    BY <2>1, FS_EmptySet, Zenon
  <2>3. \A d \in Cpus : handling[d] # "wait"
    BY <1>2, <1>4, Zenon DEF Inv, Called
  <2>4. xdata'.wait = wait /\ xdata'.started = 0 /\ xdata'.finished = 0
    BY <1>1, Zenon
  <2>5. \A u \in Tasks : pc'[u] \in Spinning => u = t
    BY <1>3, <1>4, Zenon
  <2>6. \A d \in Cpus : handling'[d] = "nowait" => d \in xipi'
    BY <1>2, <1>4, Zenon
  <2>7. \A u \in Tasks : /\ pc'[u] \in Spinning => cpu'[u] = xlock' /\ xlock' \in Cpus /\ current'[xlock'] = u
                         /\ pc'[u] # "xfinish"
    BY <2>5, <1>2, <1>3, <1>4, Zenon DEF Spinning
  <2>8. xlock' # NoCpu /\ xlock' \notin xipi' /\ \A d \in Cpus : handling'[d] # "wait"
    BY <2>3, <1>2, <1>4, ZenonT(30)
  <2> QED BY <2>2, <2>4, <2>6, <2>7, <2>8, Zenon DEF Called
<1> QED BY <1>a, <1>b, <1>c, <1>d, <1>e, <1>f, Zenon DEF Inv

\* Every other CPU has started, so that no interrupt of the call is pending.
LEMMA XcallStartedStep ==
    ASSUME Inv, NEW c \in Cpus, NEW t \in Tasks, XcallStarted(c, t)
    PROVE  Inv'
<1>1. /\ t = current[c] /\ pc[t] = "xstart" /\ xdata.started = Cardinality(Cpus) - 1
      /\ state' = state /\ cpu' = cpu /\ runq' = runq /\ current' = current /\ timerq' = timerq
      /\ UNCHANGED <<waitVars, callVars>>
  BY Zenon DEF XcallStarted, Runs, schedVars
<1>2. pc' \in [Tasks -> Locations] /\ pc'[t] = "xfinish" /\ \A u \in Tasks \ {t} : pc'[u] = pc[u]
  <2>1. Goto(t, "xfinish") /\ "xfinish" \in Locations
    BY Zenon DEF XcallStarted, Locations, Active, Spinning
  <2> QED BY <2>1, GotoFacts, Zenon
<1>3. xlock \in Cpus /\ xlock # NoCpu
  BY <1>1, CpusAssumption, Zenon DEF Inv, Called, Spinning
<1>4. xipi = {}
  <2>1. xdata.started = Cardinality(Started) /\ xlock \notin xipi
    BY <1>3, Zenon DEF Inv, Called
  <2>2. xipi \subseteq {xlock}
    BY <2>1, <1>1, <1>3, CountFacts, Zenon DEF Inv
  <2> QED BY <2>1, <2>2, Zenon
<1>a. Types'
  BY <1>1, <1>2, Zenon DEF Inv, Types, waitVars, callVars
<1>b. Queued'
  BY <1>1, <1>2, QueuedKept, Zenon DEF Inv
<1>c. Placed'
  BY <1>1, <1>2, ZenonT(30) DEF Inv, Placed, Active, Waits, Sleeps, Dead, Spinning
<1>d. Waiting'
  <2>1. \A u \in Tasks : u # t => pc'[u] = pc[u]
    BY <1>2, Zenon
  <2>2. pc[t] \notin Waits \cup {"remove"} /\ pc'[t] \notin {"prepare", "block"}
    BY <1>1, <1>2, Zenon DEF Waits
  <2> QED BY <2>1, <2>2, <1>1, WaitingKept, Zenon DEF Inv
<1>e. Timed'
  <2>1. \A u \in Tasks : u # t => pc'[u] = pc[u]
    BY <1>2, Zenon
  <2>2. pc[t] # "added" /\ pc[t] \notin Sleeps
    BY <1>1, Zenon DEF Sleeps
  <2> QED BY <2>1, <2>2, <1>1, TimedKept, Zenon DEF Inv
<1>f. Called'
  <2>1. xlock' = xlock /\ xdata' = xdata /\ xipi' = xipi /\ handling' = handling
    BY <1>1, Zenon DEF callVars
  <2>2. Started' = Started /\ Finished' = Finished
    BY <2>1, Zenon DEF Started, Finished
  <2>3. \A u \in Tasks : pc'[u] \in Spinning => pc[u] \in Spinning
    BY <1>1, <1>2, ZenonT(30) DEF Spinning
  <2> QED BY <2>1, <2>2, <2>3, <1>1, <1>4, Zenon DEF Inv, Called
<1> QED BY <1>a, <1>b, <1>c, <1>d, <1>e, <1>f, Zenon DEF Inv

\* The caller leaves its frame: every CPU has started, and finished if it will touch
\* the frame again.
LEMMA XcallReturnStep ==
    ASSUME Inv, NEW c \in Cpus, NEW t \in Tasks, XcallReturn(c, t)
    PROVE  Inv'
<1>1. /\ t = current[c] /\ pc[t] = "xfinish" /\ (xdata.wait => xdata.finished = Cardinality(Cpus) - 1)
      /\ xlock' = NoCpu /\ xdata' = [wait |-> FALSE, started |-> 0, finished |-> 0]
      /\ xipi' = xipi /\ handling' = handling
      /\ state' = state /\ cpu' = cpu /\ runq' = runq /\ current' = current /\ timerq' = timerq
      /\ UNCHANGED waitVars
  BY Zenon DEF XcallReturn, Runs, schedVars
<1>2. pc' \in [Tasks -> Locations] /\ pc'[t] = "return" /\ \A u \in Tasks \ {t} : pc'[u] = pc[u]
  <2>1. Goto(t, "return") /\ "return" \in Locations
    BY Zenon DEF XcallReturn, Locations, Active
  <2> QED BY <2>1, GotoFacts, Zenon
<1>3. xlock \in Cpus /\ xlock # NoCpu /\ xipi = {} /\ current[xlock] = t
  <2>1. Called
    BY Zenon DEF Inv
  <2>2. pc[t] \in Spinning
    BY <1>1, Zenon DEF Spinning
  <2>3. xlock \in Cpus /\ xipi = {} /\ current[xlock] = t
    BY <1>1, <2>1, <2>2, Zenon DEF Called
  <2> QED BY <2>3, CpusAssumption, Zenon
<1>4. \A d \in Cpus : handling[d] # "wait"
  <2>1. \A d \in Cpus : handling[d] = "wait" => xdata.wait /\ d # xlock
    BY Zenon DEF Inv, Called
  <2>2. xdata.wait => xdata.finished = Cardinality(Finished)
    BY <1>3, Zenon DEF Inv, Called
  <2> QED BY <2>1, <2>2, <1>1, <1>3, CountFacts, Zenon DEF Inv
<1>a. Types'
  BY <1>1, <1>2, Zenon DEF Inv, Types, waitVars
<1>b. Queued'
  BY <1>1, <1>2, QueuedKept, Zenon DEF Inv
<1>c. Placed'
  BY <1>1, <1>2, Zenon DEF Inv, Placed, Active, Waits, Sleeps, Dead, Spinning
<1>d. Waiting'
  BY <1>1, <1>2, WaitingKept, Zenon DEF Inv, Waits
<1>e. Timed'
  BY <1>1, <1>2, TimedKept, Zenon DEF Inv, Sleeps
<1>f. Called'
  <2>1. \A u \in Tasks : pc'[u] \notin Spinning
    BY <1>2, <1>3, Zenon DEF Inv, Called, Spinning
  <2> QED BY <2>1, <1>1, <1>3, <1>4, CpusAssumption, Zenon DEF Called, Inv, Types, Spinning
<1> QED BY <1>a, <1>b, <1>c, <1>d, <1>e, <1>f, Zenon DEF Inv

\* A CPU that takes the interrupt has started, and not finished.
LEMMA XcallInterruptStep ==
    ASSUME Inv, NEW c \in Cpus, XcallInterrupt(c)
    PROVE  Inv'
<1>1. /\ InterruptsEnabled(c) /\ c \in xipi /\ xipi' = xipi \ {c}
      /\ handling' = [handling EXCEPT ![c] = IF xdata.wait THEN "wait" ELSE "nowait"]
      /\ xdata' = [xdata EXCEPT !.started = @ + 1]
      /\ Interrupted(c) /\ xlock' = xlock
      /\ state' = state /\ cpu' = cpu /\ runq' = runq /\ current' = current /\ timerq' = timerq
      /\ UNCHANGED waitVars
  BY Zenon DEF XcallInterrupt
<1>2. pc' \in [Tasks -> Locations] /\ \A u \in Tasks : pc'[u] = pc[u] \/ (pc[u] = "user" /\ pc'[u] = "return")
  BY <1>1, InterruptedFacts, Zenon DEF Inv
<1>3. /\ handling' \in [Cpus -> {"no", "wait", "nowait"}]
      /\ handling'[c] = IF xdata.wait THEN "wait" ELSE "nowait"
      /\ \A d \in Cpus \ {c} : handling'[d] = handling[d]
  BY <1>1, Zenon DEF Inv, Types
<1>4. /\ xdata' \in [wait : BOOLEAN, started : Nat, finished : Nat] /\ xdata.started \in Nat
      /\ xdata'.wait = xdata.wait /\ xdata'.started = xdata.started + 1 /\ xdata'.finished = xdata.finished
  <2>1. xdata \in [wait : BOOLEAN, started : Nat, finished : Nat]
    BY Zenon DEF Inv, Types
  <2> QED BY <2>1, <1>1
<1>5. xlock # NoCpu /\ xlock # c /\ xlock \in Cpus
  BY <1>1, Zenon DEF Inv, Called, Types
<1>a. Types'
  BY <1>1, <1>2, <1>3, <1>4, Zenon DEF Inv, Types, waitVars
<1>b. Queued'
  BY <1>1, <1>2, QueuedKept, Zenon DEF Inv
<1>c. Placed'
  BY <1>1, <1>2, Zenon DEF Inv, Placed, Active, Waits, Sleeps, Dead, Spinning
<1>d. Waiting'
  BY <1>1, <1>2, WaitingKept, Zenon DEF Inv, Waits
<1>e. Timed'
  BY <1>1, <1>2, TimedKept, Zenon DEF Inv, Sleeps
<1>f. Called'
  <2>1. Started' = Started \cup {c} /\ c \notin Started
    BY <1>1, <1>5, Zenon DEF Started
  <2>2. Cardinality(Started') = xdata'.started
    <3>1. IsFiniteSet(Started)
      BY CountFacts, Zenon DEF Inv
    <3>2. Cardinality(Started \cup {c}) = Cardinality(Started) + 1
      BY <3>1, <2>1, FS_AddElement, Zenon
    <3>3. xdata.started = Cardinality(Started)
      BY <1>5, Zenon DEF Inv, Called
    <3> QED BY <3>2, <3>3, <2>1, <1>4, Zenon
  <2>3. ASSUME xdata.wait PROVE Finished' = Finished
    BY <2>1, <2>3, <1>3, Zenon DEF Finished, Started
  <2>4. \A u \in Tasks : pc'[u] \in Spinning => pc'[u] = pc[u]
    BY <1>2, Zenon DEF Spinning
  <2>5. \A d \in Cpus : handling'[d] = "wait" => xdata'.wait /\ xlock' # NoCpu /\ d # xlock' /\ d \notin xipi'
    BY <1>1, <1>3, <1>4, <1>5, Zenon DEF Inv, Called
  <2>6. xdata'.wait => \A d \in Cpus : handling'[d] = "nowait" => d \in xipi'
    BY <1>1, <1>3, <1>4, <1>5, Zenon DEF Inv, Called
  <2>7. xdata'.wait => xdata'.finished = Cardinality(Finished')
    BY <2>3, <1>4, <1>5, Zenon DEF Inv, Called
  <2>8. \A u \in Tasks : pc'[u] # "xfinish"
    BY <1>1, <1>2, SMTT(30) DEF Inv, Called
  <2> QED BY <2>2, <2>4, <2>5, <2>6, <2>7, <2>8, <1>1, <1>5, ZenonT(30) DEF Inv, Called
<1> QED BY <1>a, <1>b, <1>c, <1>d, <1>e, <1>f, Zenon DEF Inv

\* A CPU that has finished touches the frame for the last time.
LEMMA XcallHandledStep ==
    ASSUME Inv, NEW c \in Cpus, XcallHandled(c)
    PROVE  Inv'
<1>1. /\ handling[c] # "no" /\ handling' = [handling EXCEPT ![c] = "no"]
      /\ xdata' = IF handling[c] = "wait" THEN [xdata EXCEPT !.finished = @ + 1] ELSE xdata
      /\ xlock' = xlock /\ xipi' = xipi
      /\ state' = state /\ pc' = pc /\ cpu' = cpu /\ runq' = runq /\ current' = current /\ timerq' = timerq
      /\ UNCHANGED waitVars
  BY Zenon DEF XcallHandled, taskVars, schedVars
<1>2. /\ handling' \in [Cpus -> {"no", "wait", "nowait"}] /\ handling'[c] = "no"
      /\ \A d \in Cpus \ {c} : handling'[d] = handling[d]
  BY <1>1, Zenon DEF Inv, Types
<1>3. /\ xdata' \in [wait : BOOLEAN, started : Nat, finished : Nat] /\ xdata.finished \in Nat
      /\ xdata'.wait = xdata.wait /\ xdata'.started = xdata.started
      /\ xdata'.finished = xdata.finished + (IF handling[c] = "wait" THEN 1 ELSE 0)
  <2>1. xdata \in [wait : BOOLEAN, started : Nat, finished : Nat]
    BY Zenon DEF Inv, Types
  <2>2. CASE handling[c] = "wait"
    BY <2>1, <2>2, <1>1
  <2>3. CASE handling[c] # "wait"
    <3>1. xdata' = xdata
      BY <2>3, <1>1, Zenon
    <3> QED BY <3>1, <2>1, <2>3
  <2> QED BY <2>2, <2>3, Zenon
<1>a. Types'
  BY <1>1, <1>2, <1>3, Zenon DEF Inv, Types, waitVars
<1>b. Queued'
  BY <1>1, QueuedKept, Zenon DEF Inv
<1>c. Placed'
  BY <1>1, Zenon DEF Inv, Placed
<1>d. Waiting'
  BY <1>1, WaitingKept, Zenon DEF Inv
<1>e. Timed'
  BY <1>1, TimedKept, Zenon DEF Inv
<1>f. Called'
  <2>1. Started' = Started
    BY <1>1, Zenon DEF Started
  <2>2. ASSUME xlock # NoCpu, xdata.wait PROVE xdata'.finished = Cardinality(Finished')
    <3>1. xdata.finished = Cardinality(Finished)
      BY <2>2, Zenon DEF Inv, Called
    <3>2. CASE handling[c] = "wait"
      <4>1. c \in Started /\ c \notin Finished
        BY <3>2, Zenon DEF Inv, Called, Started, Finished
      <4>2. Finished' = Finished \cup {c}
        BY <4>1, <2>1, <1>2, Zenon DEF Finished, Started
      <4>3. IsFiniteSet(Finished)
        BY CountFacts, Zenon DEF Inv
      <4>4. Cardinality(Finished \cup {c}) = Cardinality(Finished) + 1
        BY <4>1, <4>3, FS_AddElement, Zenon
      <4> QED BY <4>2, <4>4, <3>1, <3>2, <1>3, Zenon
    <3>3. CASE handling[c] # "wait"
      <4>1. Finished' = Finished
        BY <3>3, <2>1, <1>2, Zenon DEF Finished, Started
      <4> QED BY <4>1, <3>1, <3>3, <1>3
    <3> QED BY <3>2, <3>3, Zenon
  <2>3. \A d \in Cpus : /\ handling'[d] = "wait" => handling[d] = "wait"
                        /\ handling'[d] = "nowait" => handling[d] = "nowait"
    BY <1>2, Zenon
  <2> QED BY <2>1, <2>2, <2>3, <1>1, <1>3, Zenon DEF Inv, Called
<1> QED BY <1>a, <1>b, <1>c, <1>d, <1>e, <1>f, Zenon DEF Inv

-----------------------------------------------------------------------------
(* The theorems *)

\* The queues, lists and calls of the booted system are sound.
LEMMA InitHolds == Init => Inv
<1> SUFFICES ASSUME Init PROVE Inv
  BY Zenon
<1> USE CpusAssumption, TasksAssumption
<1>1. \A c \in Cpus : runq[c] = IF c = BootCpu THEN <<InitTask>> ELSE <<>>
  BY Zenon DEF Init
<1>2. /\ <<InitTask>> \in Seq(Tasks) /\ <<>> \in Seq(Tasks)
      /\ Distinct(<<InitTask>>) /\ Distinct(<<>>)
      /\ ToSet(<<InitTask>>) = {InitTask} /\ ToSet(<<>>) = {}
  BY DEF Distinct, ToSet
<1>3. \A c \in Cpus : timerq[c] = <<>> /\ Len(timerq[c]) = 0 /\ <<>> \in Seq(Timer)
  BY DEF Init
<1>a. Types
  <2>1. runq \in [Cpus -> Seq(Tasks)]
    BY <1>1, <1>2, Zenon DEF Init
  <2>2. timerq \in [Cpus -> Seq(Timer)]
    BY <1>3, Zenon DEF Init
  <2>3. state \in [Tasks -> States] /\ pc \in [Tasks -> Locations]
    BY Zenon DEF Init, States, Locations, Active
  <2>4. xdata \in [wait : BOOLEAN, started : Nat, finished : Nat]
    BY Zenon DEF Init
  <2> QED BY <2>1, <2>2, <2>3, <2>4, Zenon DEF Init, Types
<1>b. Queued
  <2>1. \A c \in Cpus : Distinct(runq[c])
    BY <1>1, <1>2, Zenon
  <2>2. \A c \in Cpus : ToSet(runq[c]) = IF c = BootCpu THEN {InitTask} ELSE {}
    BY <1>1, <1>2, Zenon
  <2>3. /\ \A t \in Tasks : pc[t] = (IF t = InitTask THEN "leave" ELSE "none")
        /\ \A t \in Tasks : cpu[t] = (IF t = InitTask THEN BootCpu ELSE NoCpu)
        /\ \A c \in Cpus : current[c] = (IF c = BootCpu THEN InitTask ELSE Idle)
    BY Zenon DEF Init
  <2>4. \A c \in Cpus : {t \in Tasks : cpu[t] = c /\ pc[t] # "bug"} = IF c = BootCpu THEN {InitTask} ELSE {}
    <3> SUFFICES ASSUME NEW c \in Cpus
                 PROVE  {t \in Tasks : cpu[t] = c /\ pc[t] # "bug"} = IF c = BootCpu THEN {InitTask} ELSE {}
      BY Zenon
    <3>1. \A t \in Tasks : pc[t] # "bug" /\ (cpu[t] = c <=> t = InitTask /\ c = BootCpu)
      BY <2>3, Zenon
    <3>2. InitTask \in Tasks
      BY Zenon
    <3>3. CASE c = BootCpu
      BY <3>1, <3>2, <3>3, Zenon
    <3>4. CASE c # BootCpu
      BY <3>1, <3>4, Zenon
    <3> QED BY <3>3, <3>4, Zenon
  <2> QED BY <2>1, <2>2, <2>3, <2>4, ZenonT(30) DEF Queued
<1>c. Placed
  BY Zenon DEF Init, Placed, Active, Waits, Sleeps, Dead, Spinning
<1>d. Waiting
  BY Zenon DEF Init, Waiting
<1>e. Timed
  <2>1. ASSUME NEW c \in Cpus PROVE 1..Len(timerq[c]) = {}
    <3>1. Len(timerq[c]) = 0
      BY <1>3, Zenon
    <3>2. 1..0 = {}
      OBVIOUS
    <3> QED BY <3>1, <3>2, Zenon
  <2> QED BY <2>1, Zenon DEF Timed
<1>f. Called
  BY Zenon DEF Init, Called, Spinning
<1> QED BY <1>a, <1>b, <1>c, <1>d, <1>e, <1>f, Zenon DEF Inv

\* A handler's steps.
LEMMA HandlerStepKeeps ==
    ASSUME Inv, NEW c \in Cpus, HandlerStep(c)
    PROVE  Inv'
BY WakeupLockStep, WakeupEntryStep, WakeupUnlockStep, XcallHandledStep, Zenon DEF HandlerStep

\* What a task, or the idle task, does next.
LEMMA TaskStepKeeps ==
    ASSUME Inv, NEW c \in Cpus, TaskStep(c)
    PROVE  Inv'
<1>1. CASE IdleHalt(c)
  <2>1. UNCHANGED <<state, pc, cpu, runq, current, timerq, waitVars, callVars>>
    BY <1>1, Zenon DEF IdleHalt, taskVars
  <2>2. Types' /\ Queued' /\ Placed' /\ Waiting' /\ Timed' /\ Called'
    BY <2>1, QueuedKept, WaitingKept, TimedKept, CalledKept, Zenon DEF Inv, Types, Placed, waitVars, callVars
  <2> QED BY <2>2, Zenon DEF Inv
<1>2. CASE IdleSchedule(c)
  BY <1>2, IdleScheduleStep, Zenon
<1>3. ASSUME NEW t \in Tasks, ReturnSchedule(c, t) PROVE Inv'
  <2>1. t = current[c] /\ pc[t] = "return" /\ schedule(c) /\ Goto(t, "leave")
        /\ UNCHANGED <<state, cpu, timerq, waitVars, callVars>>
    BY <1>3, Zenon DEF ReturnSchedule, Runs
  <2> QED BY <2>1, GiveUpStep, Zenon
<1>4. ASSUME NEW t \in Tasks, Leave(c, t) PROVE Inv'
  <2>1. t = current[c] /\ pc[t] = "leave" /\ Goto(t, "user")
        /\ UNCHANGED <<state, cpu, runq, current, timerq, waitVars, callVars>>
    BY <1>4, Zenon DEF Leave, Runs, schedVars
  <2> QED BY <2>1, MoveStep, Zenon
<1>5. ASSUME NEW t \in Tasks, ExitSchedule(c, t) PROVE Inv'
  <2>1. t = current[c] /\ pc[t] = "exit" /\ schedule(c) /\ Goto(t, "bug")
        /\ UNCHANGED <<state, cpu, timerq, waitVars, callVars>>
    BY <1>5, Zenon DEF ExitSchedule, Runs
  <2> QED BY <2>1, GiveUpStep, Zenon
<1>6. ASSUME NEW t \in Tasks, TestCondition(c, t) PROVE Inv'
  <2>1. t = current[c] /\ pc[t] = "test" /\ Goto(t, IF cond THEN "finish" ELSE "block")
        /\ UNCHANGED <<state, cpu, runq, current, timerq, waitVars, callVars>>
    BY <1>6, Zenon DEF TestCondition, Runs, schedVars
  <2>2. CASE cond
    <3>1. Goto(t, "finish")
      BY <2>1, <2>2, Zenon
    <3> QED BY <3>1, <2>1, MoveStep, Zenon
  <2>3. CASE ~ cond
    <3>1. Goto(t, "block")
      BY <2>1, <2>3, Zenon
    <3> QED BY <3>1, <2>1, <2>3, MoveStep, Zenon
  <2> QED BY <2>2, <2>3, Zenon
<1>7. ASSUME NEW t \in Tasks, BlockOnWaitq(c, t) PROVE Inv'
  <2>1. t = current[c] /\ pc[t] = "block" /\ schedule(c) /\ Goto(t, "prepare")
        /\ UNCHANGED <<state, cpu, timerq, waitVars, callVars>>
    BY <1>7, Zenon DEF BlockOnWaitq, Runs
  <2> QED BY <2>1, GiveUpStep, Zenon
<1>8. ASSUME NEW t \in Tasks, FinishWait(c, t) PROVE Inv'
  <2>1. t = current[c] /\ pc[t] = "finish" /\ state' = [state EXCEPT ![t] = "READY"] /\ Goto(t, "remove")
        /\ UNCHANGED <<cpu, runq, current, timerq, waitVars, callVars>>
    BY <1>8, Zenon DEF FinishWait, Runs, schedVars
  <2> QED BY <2>1, MarkStep, Zenon
<1>9. ASSUME NEW t \in Tasks, SleepMark(c, t) PROVE Inv'
  <2>1. t = current[c] /\ pc[t] = "added" /\ state' = [state EXCEPT ![t] = "INTERRUPTIBLE"] /\ Goto(t, "marked")
        /\ UNCHANGED <<cpu, runq, current, timerq, waitVars, callVars>>
    BY <1>9, Zenon DEF SleepMark, Runs, schedVars
  <2> QED BY <2>1, MarkStep, Zenon
<1>10. ASSUME NEW t \in Tasks, SleepSchedule(c, t) PROVE Inv'
  <2>1. t = current[c] /\ pc[t] = "marked" /\ schedule(c) /\ Goto(t, "asleep")
        /\ UNCHANGED <<state, cpu, timerq, waitVars, callVars>>
    BY <1>10, Zenon DEF SleepSchedule, Runs
  <2> QED BY <2>1, GiveUpStep, Zenon
<1>11. ASSUME NEW t \in Tasks, SleepReturn(c, t) PROVE Inv'
  <2>1. t = current[c] /\ pc[t] = "asleep" /\ Goto(t, "return")
        /\ UNCHANGED <<state, cpu, runq, current, timerq, waitVars, callVars>>
    BY <1>11, Zenon DEF SleepReturn, Runs, schedVars
  <2> QED BY <2>1, MoveStep, Zenon
<1> QED BY ZenonT(30), <1>1, <1>2, <1>3, <1>4, <1>5, <1>6, <1>7, <1>8, <1>9, <1>10, <1>11, PrepareToWaitStep,
           RemoveEntryStep, XcallSendStep, XcallStartedStep, XcallReturnStep DEF TaskStep

\* What a task asks for.
LEMMA SystemCallKeeps ==
    ASSUME Inv, NEW c \in Cpus, SystemCall(c)
    PROVE  Inv'
<1>1. ASSUME NEW t \in Tasks, TaskExit(c, t) PROVE Inv'
  <2>1. t = current[c] /\ pc[t] = "user" /\ state' = [state EXCEPT ![t] = "ZOMBIE"] /\ Goto(t, "exit")
        /\ UNCHANGED <<cpu, runq, current, timerq, waitVars, callVars>>
    BY <1>1, Zenon DEF TaskExit, Runs, schedVars
  <2> QED BY <2>1, MarkStep, Zenon
<1>2. ASSUME NEW t \in Tasks, TaskYield(c, t) \/ WaitEvent(c, t) \/ XcallFunction(c, t) PROVE Inv'
  <2>1. t = current[c] /\ pc[t] = "user"
        /\ UNCHANGED <<state, cpu, runq, current, timerq, waitVars, callVars>>
    BY <1>2, Zenon DEF TaskYield, WaitEvent, XcallFunction, Runs, schedVars
  <2>2. PICK l \in {"return", "prepare", "xcall"} : Goto(t, l)
    BY <1>2, Zenon DEF TaskYield, WaitEvent, XcallFunction
  <2> QED BY <2>1, <2>2, MoveStep, Zenon
<1>3. ASSUME NEW t \in Tasks, SetCondition(c, t) \/ ClearCondition(c, t) PROVE Inv'
  <2>1. /\ pc[t] = "user" /\ waking[c] = "no" /\ Goto(t, "return")
        /\ \/ cond' = TRUE /\ waking' = [waking EXCEPT ![c] = "spin"]
           \/ cond' = FALSE /\ waking' = waking
        /\ UNCHANGED <<state, cpu, runq, current, timerq, waitq, todo, callVars>>
    BY <1>3, Zenon DEF SetCondition, ClearCondition, Runs, Undisturbed, schedVars
  <2>2. pc' \in [Tasks -> Locations] /\ pc'[t] = "return" /\ \A u \in Tasks \ {t} : pc'[u] = pc[u]
    BY <2>1, TypesUnfolded DEF Inv, Goto, Locations, Active
  <2> QED BY <2>1, <2>2, ConditionStep, Zenon
<1> QED BY <1>1, <1>2, <1>3, TaskCreateStep, SleepAddStep, Zenon DEF SystemCall

\* A device interrupt makes the condition true and starts a wakeup.
LEMMA DeviceInterruptKeeps ==
    ASSUME Inv, NEW c \in Cpus, DeviceInterrupt(c)
    PROVE  Inv'
<1>1. /\ waking[c] = "no" /\ cond' = TRUE /\ waking' = [waking EXCEPT ![c] = "spin"] /\ Interrupted(c)
      /\ UNCHANGED <<state, cpu, runq, current, timerq, waitq, todo, callVars>>
  BY Zenon DEF DeviceInterrupt, InterruptsEnabled, Undisturbed
<1>2. pc' \in [Tasks -> Locations] /\ \A u \in Tasks : pc'[u] = pc[u] \/ (pc[u] = "user" /\ pc'[u] = "return")
  BY <1>1, InterruptedFacts, Zenon DEF Inv
<1> QED BY <1>1, <1>2, ConditionStep, Zenon

\* Every step of Kitten's tasks, CPUs and interrupts keeps the invariant.
LEMMA NextKeeps == Inv /\ [Next]_vars => Inv'
<1>1. ASSUME Inv, Next PROVE Inv'
  <2>1. PICK c \in Cpus :
           \/ HandlerStep(c) \/ TaskStep(c) \/ SystemCall(c)
           \/ Tick(c) \/ DeviceInterrupt(c) \/ RescheduleInterrupt(c) \/ XcallInterrupt(c)
    BY <1>1, Zenon DEF Next
  <2> QED BY ZenonT(30), <2>1, <1>1, HandlerStepKeeps, TaskStepKeeps, SystemCallKeeps, TickStep, DeviceInterruptKeeps,
             RescheduleInterruptStep, XcallInterruptStep
<1>2. ASSUME Inv, UNCHANGED vars PROVE Inv'
  <2>1. UNCHANGED <<state, pc, cpu, runq, current, timerq, waitVars, callVars>>
    BY <1>2, Zenon DEF vars, taskVars, schedVars
  <2>2. Types' /\ Queued' /\ Placed' /\ Waiting' /\ Timed' /\ Called'
    BY <2>1, <1>2, QueuedKept, WaitingKept, TimedKept, CalledKept, ZenonT(30) DEF Inv, Types, Placed, waitVars, callVars
  <2> QED BY <2>2, Zenon DEF Inv
<1> QED BY <1>1, <1>2, Zenon

\* The invariant of the run queues, wait queue, timers and cross calls.
LEMMA InvHolds == Spec => []Inv
<1>1. Init => Inv
  BY InitHolds, Zenon
<1>2. Inv /\ [Next]_vars => Inv'
  BY NextKeeps, Zenon
<1> QED BY <1>1, <1>2, PTL DEF Spec

\* For any CPUs and tasks: schedule, sched_add_task and task_exit keep every task that
\* is not dead in the queue of its CPU, once, and no CPU runs a task of another or a
\* dead one.
THEOREM RunQueuesSound == Spec => []QueuesSound
<1>1. Inv => QueuesSound
  <2> SUFFICES ASSUME Inv PROVE QueuesSound
    BY Zenon
  <2>1. \A c \in Cpus : DOMAIN runq[c] = 1..Len(runq[c])
    BY DEF Inv, Types
  <2> QED BY <2>1, Zenon DEF Inv, Queued, QueuesSound, Distinct
<1> QED BY <1>1, InvHolds, PTL

\* For any CPUs and tasks: no wakeup of waitq_wakeup or of a timer falls between the
\* test of wait_event, or the marking of the task, and its call of schedule.
THEOREM WakeupsReach == Spec => []NoLostWakeup
<1>1. Inv => NoLostWakeup
  <2> SUFFICES ASSUME Inv PROVE NoLostWakeup
    BY Zenon
  <2>1. \A c \in Cpus : DOMAIN timerq[c] = 1..Len(timerq[c])
    BY TimerTypes, Zenon DEF Inv
  <2>2. \A t \in Tasks : pc[t] \in {"user", "return", "leave"} => state[t] = "READY"
    BY Zenon DEF Inv, Placed, Active
  <2>3. \A c \in Cpus : \A i \in DOMAIN timerq[c] : timerq[c][i].left > 0
    BY <2>1, Zenon DEF Inv, Timed
  <2> QED BY <2>2, <2>3, Zenon DEF Inv, Waiting, NoLostWakeup
<1> QED BY <1>1, InvHolds, PTL

\* For any CPUs and tasks: the entry of wait_event, the timer of timer_sleep_until and
\* the data of arch_xcall_function are reached by others only while the function that
\* has them in its stack frame is running.
THEOREM StackFramesLive == Spec => []FramesLive
<1>1. Inv => FramesLive
  <2> SUFFICES ASSUME Inv PROVE FramesLive
    BY Zenon
  <2>1. \A c \in Cpus : DOMAIN timerq[c] = 1..Len(timerq[c])
    BY TimerTypes, Zenon DEF Inv
  <2>2. \A t \in waitq : pc[t] \in {"prepare", "test", "block", "finish", "remove"}
    BY Zenon DEF Inv, Waiting, Waits
  <2>3. \A c \in Cpus : \A i \in DOMAIN timerq[c] : pc[timerq[c][i].task] \in {"added", "marked", "asleep"}
    BY <2>1, Zenon DEF Inv, Timed, Sleeps
  <2>4. \A c \in Cpus : c \in xipi \/ handling[c] = "wait" => xlock \notin {NoCpu, c}
    BY Zenon DEF Inv, Called
  <2> QED BY <2>2, <2>3, <2>4, Zenon DEF FramesLive
<1> QED BY <1>1, InvHolds, PTL

=============================================================================
