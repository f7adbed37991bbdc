------------------------- MODULE GeekThreadsProofs --------------------------
(***************************************************************************)
(* The threads of the GeekOS host for any number of workers, pages and     *)
(* keys: thread queues never share a thread, nothing leads to a finished   *)
(* thread, the scheduler always finds a thread, the mutex excludes, and    *)
(* nobody sleeps through its event.                                        *)
(***************************************************************************)
EXTENDS GeekThreadsSteps

-----------------------------------------------------------------------------
(* From creation to the end of a thread *)

\* Create_Thread: Init_Thread.
LEMMA CreateThreadStep == Inv /\ CreateThread => Inv'
<1> SUFFICES ASSUME Types, Linked, Roles, Holding, Creating, References, Awake, CreateThread
             PROVE  Inv'
  BY Zenon DEF Inv
<1>a. /\ pc[cur] = "alloc"
      /\ cur' = cur /\ queue' = queue /\ preemptOff' = preemptOff
      /\ holder' = holder /\ inside' = inside /\ keys' = keys
  BY Zenon DEF CreateThread, At
<1>b. PICK t \in Workers, detached \in BOOLEAN :
         /\ pc[t] = "free"
         /\ pc' = [pc EXCEPT ![cur] = "start", ![t] = "new"]
         /\ arg' = [arg EXCEPT ![cur] = t]
         /\ owner' = [owner EXCEPT ![t] = IF detached THEN NoThread ELSE cur]
         /\ refCount' = [refCount EXCEPT ![t] = IF detached THEN 1 ELSE 2]
         /\ handles' = [handles EXCEPT ![cur] = IF detached THEN @ ELSE @ \cup {t}]
  BY Zenon DEF CreateThread, InitialReferences
<1>c. t \in Threads /\ t # cur /\ cur \in Apps /\ Nowhere(queue, t)
  BY <1>a, <1>b, Names, InNoQueue, Zenon DEF Types, Roles
<1>1. Types'
  BY <1>a, <1>b, <1>c, Names, SMTT(30) DEF Types, Locations, Preemptible, Critical, Suspended, NotRunning
<1>2. Linked'
  <2>1. Once(queue') /\ Nowhere(queue', cur')
    BY <1>a, <1>b, <1>c, Zenon DEF Linked, Nowhere
  <2>2. \A n \in Queues : \A x \in In(queue, n) : x \in Threads /\ x # cur /\ x # t
    BY <1>a, <1>b, <1>c, InFacts DEF Types, Linked, Nowhere
  <2>3. \A x \in Threads : x # cur /\ x # t =>
           pc'[x] = pc[x] /\ arg'[x] = arg[x] /\ refCount'[x] = refCount[x]
    BY <1>a, <1>b, <1>c, Zenon DEF Types
  <2>4. \A n \in Queues : \A x \in In(queue, n) :
           pc'[x] = pc[x] /\ arg'[x] = arg[x] /\ refCount'[x] = refCount[x]
    BY <2>2, <2>3, Zenon
  <2>5. \A n \in Shared : n \in Queues /\ \A x \in In(queue, n) : pc'[x] = pc[x] /\ refCount'[x] = refCount[x]
    BY <2>4, Names, Zenon
  <2>6. \A k \in Threads : k \in Queues /\ k \notin Shared
                 /\ \A x \in In(queue, k) : pc'[x] = pc[x] /\ arg'[x] = arg[x]
    BY <2>4, Names, Zenon
  <2>7. \A k \in Threads : In(queue', k) = In(queue, k)
    BY <1>a, <2>6, Zenon DEF Shared
  <2>8. \A x \in In(queue', "run") : pc'[x] \in Preemptible \cup Suspended
    <3>1. \A x \in In(queue, "run") : pc'[x] \in Preemptible \cup Suspended
      BY <2>5, Zenon DEF Linked, Shared
    <3> QED BY <1>a, <3>1, Zenon DEF Preemptible
  <2>9. \A n \in Shared \ {"run"} : In(queue', n) = In(queue, n)
    BY <1>a, <2>5, Zenon
  <2>10. \A k \in Threads : \A x \in In(queue', k) : pc'[x] = "join" /\ arg'[x] = k
    BY <2>6, <2>7 DEF Linked
  <2> QED BY <2>1, <2>5, <2>8, <2>9, <2>10 DEF Linked, Shared
<1>3. Roles'
  BY <1>a, <1>b, <1>c, Names, SMTT(30) DEF Types, Linked, Roles, Holding, Preemptible, Suspended, Critical, NotRunning
<1>4. Holding'
  BY <1>a, <1>b, <1>c, Names, SMTT(30) DEF Types, Roles, Holding
<1>5. Creating'
  BY <1>a, <1>b, <1>c, Names, SMTT(30) DEF Types, Roles, Creating, Critical, NotRunning
<1>6. References'
  BY <1>a, <1>b, <1>c, Names, SMTT(30) DEF Types, Roles, References, Critical, NotRunning
<1>7. Awake'
  BY <1>a, <1>b, <1>c, Names, SMTT(30) DEF Types, Linked, Roles, Awake, Nowhere, Shared, Critical, NotRunning
<1> QED BY <1>1, <1>2, <1>3, <1>4, <1>5, <1>6, <1>7, Zenon DEF Inv

\* Make_Runnable_Atomic.
LEMMA MakeRunnableStep == Inv /\ MakeRunnable => Inv'
<1> SUFFICES ASSUME Types, Linked, Roles, Holding, Creating, References, Awake, MakeRunnable
             PROVE  Inv'
  BY Zenon DEF Inv
<1>a. /\ pc[cur] = "start"
      /\ queue' = Enqueue(queue, "run", arg[cur])
      /\ pc' = [pc EXCEPT ![cur] = "run", ![arg[cur]] = "run"]
      /\ arg' = [arg EXCEPT ![cur] = NoThread]
      /\ UNCHANGED <<cur, preemptOff, holder, inside, refCount, owner, handles, keys>>
  BY Zenon DEF MakeRunnable, At
<1>b. arg[cur] \in Workers /\ arg[cur] \in Threads /\ pc[arg[cur]] = "new" /\ arg[cur] # cur
  BY <1>a, Names, Zenon DEF Types, Creating
<1>c. Nowhere(queue, arg[cur]) /\ "run" \in Queues
  BY <1>b, Names, InNoQueue, Zenon DEF Shared
<1>d. /\ queue' \in QueuesType /\ Once(queue')
      /\ In(queue', "run") = In(queue, "run") \cup {arg[cur]}
      /\ \A m \in Queues \ {"run"} : queue'[m] = queue[m]
  BY <1>a, <1>b, <1>c, EnqueueFacts DEF Types, Linked
<1>e. \A m \in Queues \ {"run"} : In(queue', m) = In(queue, m)
  BY <1>d, Zenon DEF In
<1>f. pc'[arg[cur]] = "run"
  BY <1>a, <1>b, Zenon DEF Types
<1>1. Types'
  BY <1>a, <1>b, <1>c, <1>d, <1>e, Names, Zenon DEF Types, Locations, Preemptible, Critical, Suspended, NotRunning
<1>2. Linked'
  <2>1. Once(queue') /\ Nowhere(queue', cur')
    BY <1>a, <1>b, <1>c, <1>d, <1>e DEF Linked, Nowhere
  <2>2. \A n \in Queues : \A x \in In(queue, n) : x \in Threads /\ x # cur /\ x # arg[cur]
    BY <1>a, <1>b, <1>c, <1>d, <1>e, InFacts DEF Types, Linked, Nowhere
  <2>3. \A x \in Threads : x # cur /\ x # arg[cur] =>
           pc'[x] = pc[x] /\ arg'[x] = arg[x] /\ refCount'[x] = refCount[x]
    BY <1>a, <1>b, <1>c, <1>d, <1>e, Zenon DEF Types
  <2>4. \A n \in Queues : \A x \in In(queue, n) :
           pc'[x] = pc[x] /\ arg'[x] = arg[x] /\ refCount'[x] = refCount[x]
    BY <2>2, <2>3, Zenon
  <2>5. \A n \in Shared : n \in Queues /\ \A x \in In(queue, n) : pc'[x] = pc[x] /\ refCount'[x] = refCount[x]
    BY <2>4, Names, Zenon
  <2>6. \A k \in Threads : k \in Queues /\ k \notin Shared
                 /\ \A x \in In(queue, k) : pc'[x] = pc[x] /\ arg'[x] = arg[x]
    BY <2>4, Names, Zenon
  <2>7. \A k \in Threads : In(queue', k) = In(queue, k)
    BY <1>e, <2>6, Zenon DEF Shared
  <2>8. \A x \in In(queue', "run") : pc'[x] \in Preemptible \cup Suspended
    <3>1. \A x \in In(queue, "run") : pc'[x] \in Preemptible \cup Suspended
      BY <2>5, Zenon DEF Linked, Shared
    <3> QED BY <1>d, <1>f, <3>1, Zenon DEF Preemptible
  <2>9. \A n \in Shared \ {"run"} : In(queue', n) = In(queue, n)
    BY <1>e, <2>5, Zenon
  <2>10. \A k \in Threads : \A x \in In(queue', k) : pc'[x] = "join" /\ arg'[x] = k
    BY <2>6, <2>7 DEF Linked
  <2> QED BY <2>1, <2>5, <2>8, <2>9, <2>10 DEF Linked, Shared
<1>3. Roles'
  BY <1>a, <1>b, <1>c, <1>d, <1>e, Names, SMTT(30) DEF Types, Linked, Roles, Holding, Preemptible, Suspended, Critical, NotRunning
<1>4. Holding'
  BY <1>a, <1>b, <1>c, <1>d, <1>e, Names, SMTT(30) DEF Types, Roles, Holding
<1>5. Creating'
  BY <1>a, <1>b, <1>c, <1>d, <1>e, Names, SMTT(30) DEF Types, Roles, Creating, Critical, NotRunning
<1>6. References'
  BY <1>a, <1>b, <1>c, <1>d, <1>e, Names, SMTT(30) DEF Types, Roles, References, Critical, NotRunning
<1>7. Awake'
  BY <1>a, <1>b, <1>c, <1>d, <1>e, Names, SMTT(30) DEF Types, Linked, Roles, Awake, Nowhere, Shared, Critical, NotRunning
<1> QED BY <1>1, <1>2, <1>3, <1>4, <1>5, <1>6, <1>7, Zenon DEF Inv

\* The rest of Exit.
LEMMA ExitSchedulesStep == Inv /\ ExitSchedules => Inv'
<1> SUFFICES ASSUME Types, Linked, Roles, Holding, Creating, References, Awake, ExitSchedules
             PROVE  Inv'
  BY Zenon DEF Inv
<1>a. /\ pc' = [pc EXCEPT ![cur] = "dead"]
      /\ pc[cur] = "exiting"
      /\ handles' = [handles EXCEPT ![cur] = {}]
      /\ UNCHANGED <<preemptOff, holder, inside, owner, arg, keys>>
  BY Zenon DEF ExitSchedules, Goto, At
<1> DEFINE mid == WakeUp(queue, cur)
           new == Detach(mid, cur).queue
<1>b. refCount' = [refCount EXCEPT ![cur] = @ - 1] /\ Schedule(new)
  BY Zenon DEF ExitSchedules, Detach
<1>c. {"run", "graveyard", "reaper"} \subseteq Queues /\ cur \in Queues /\ cur \notin Shared /\ cur \in Threads
  BY Names, Zenon DEF Shared, Types
<1>d. /\ mid \in QueuesType /\ Once(mid) /\ mid[cur] = <<>>
      /\ In(mid, "run") = In(queue, "run") \cup In(queue, cur)
      /\ \A m \in Queues \ {cur, "run"} : mid[m] = queue[m]
  BY <1>c, WakeUpFacts DEF Types, Linked, Shared
<1> HIDE DEF mid
<1>e. In(mid, cur) = {} /\ \A m \in Queues \ {cur, "run"} : In(mid, m) = In(queue, m)
  BY <1>c, <1>d, InFacts, Zenon DEF In
<1>f. Nowhere(mid, cur)
  BY <1>c, <1>d, <1>e, Zenon DEF Nowhere, Linked
<1>g. /\ new \in QueuesType /\ Once(new)
      /\ refCount[cur] # 1 => new = mid
      /\ refCount[cur] = 1 =>
            /\ In(new, "graveyard") = In(mid, "graveyard") \cup {cur}
            /\ In(new, "run") = In(mid, "run") \cup In(mid, "reaper")
            /\ In(new, "reaper") = {}
      /\ \A m \in Queues \ {"graveyard", "run", "reaper"} : In(new, m) = In(mid, m)
  BY <1>c, <1>d, <1>f, DetachFacts, SMTT(30)
<1> HIDE DEF new
<1>h. Idle \in In(new, "run")
  BY <1>a, <1>c, <1>d, <1>g, Names, Zenon DEF Roles
<1>i. /\ cur' \in In(new, "run") /\ cur' \in Threads
      /\ queue' \in QueuesType /\ Once(queue') /\ Nowhere(queue', cur')
      /\ In(queue', "run") = In(new, "run") \ {cur'}
      /\ \A m \in Queues \ {"run"} : In(queue', m) = In(new, m)
  BY <1>b, <1>g, <1>h, ScheduleFacts, Zenon
<1>j. /\ In(new, "run") \subseteq In(queue, "run") \cup In(queue, cur) \cup In(queue, "reaper")
      /\ Idle \in In(new, "run") /\ In(queue', cur) = {}
      /\ refCount[cur] = 1 => In(queue', "graveyard") = In(queue, "graveyard") \cup {cur} /\ In(queue', "reaper") = {}
      /\ refCount[cur] # 1 => In(queue', "graveyard") = In(queue, "graveyard") /\ In(queue', "reaper") = In(queue, "reaper")
      /\ \A m \in Queues \ {"run", cur, "graveyard", "reaper"} : In(queue', m) = In(queue, m)
  BY <1>c, <1>d, <1>e, <1>g, <1>h, <1>i DEF Shared
<1>k. cur \in Workers /\ refCount[cur] \in Int /\ refCount[cur] >= 1
  BY <1>a, <1>c, Zenon DEF Types, Roles, References
<1>l. \A n \in Queues : \A x \in In(queue, n) : x \in Threads /\ x # cur
  BY InFacts DEF Types, Linked, Nowhere
<1>1. Types'
  BY <1>a, <1>b, <1>c, <1>i, <1>j, <1>k, <1>l, Names, SMTT(30) DEF Types, Locations, Preemptible, Critical, Suspended, NotRunning
<1>2. Linked'
  BY <1>a, <1>b, <1>c, <1>i, <1>j, <1>k, <1>l, Names, SMTT(30) DEF Types, Linked, Roles, References, Nowhere, Shared, Preemptible, Suspended, Critical, NotRunning
<1>3. Roles'
  BY <1>a, <1>b, <1>c, <1>i, <1>j, <1>k, <1>l, Names, SMTT(30) DEF Types, Linked, Roles, Holding, Preemptible, Suspended, Critical, NotRunning
<1>4. Holding'
  BY <1>a, <1>b, <1>c, <1>i, <1>j, <1>k, <1>l, Names, SMTT(30) DEF Types, Roles, Holding
<1>5. Creating'
  BY <1>a, <1>b, <1>c, <1>i, <1>j, <1>k, <1>l, Names, SMTT(30) DEF Types, Roles, Creating, Critical, NotRunning
<1>6. References'
  BY <1>a, <1>b, <1>c, <1>i, <1>j, <1>k, <1>l, Names, SMTT(30) DEF Types, Roles, References, Critical, NotRunning
<1>7. Awake'
  BY <1>a, <1>b, <1>c, <1>i, <1>j, <1>k, <1>l, Names, SMTT(30) DEF Types, Linked, Roles, Awake, Nowhere, Shared, Critical, NotRunning
<1> QED BY <1>1, <1>2, <1>3, <1>4, <1>5, <1>6, <1>7, Zenon DEF Inv

\* Join finds the thread alive.
LEMMA JoinWaitStep == Inv /\ JoinWait => Inv'
<1> SUFFICES ASSUME Types, Linked, Roles, Holding, Creating, References, Awake, JoinWait
             PROVE  Inv'
  BY Zenon DEF Inv
<1>a. /\ pc[cur] \in {"run", "join"}
      /\ preemptOff' = preemptOff /\ holder' = holder /\ inside' = inside
      /\ UNCHANGED <<refCount, owner, handles, keys>>
  BY Zenon DEF JoinWait
<1>b. PICK t \in handles[cur] :
         /\ pc[t] \notin {"free", "exiting", "dead"}
         /\ arg' = [arg EXCEPT ![cur] = t]
         /\ pc' = [pc EXCEPT ![cur] = "join"]
         /\ Schedule(Enqueue(queue, t, cur))
  <2>1. (IF At("join") THEN {arg[cur]} ELSE handles[cur]) \subseteq handles[cur]
    BY DEF Types, References, At
  <2> QED BY <2>1, Zenon DEF JoinWait, Alive, WaitOn, Goto
<1>c. t \in Threads /\ t \in Queues /\ t \notin Shared /\ cur \in Apps /\ Idle \in In(queue, "run")
  BY <1>a, <1>b, Names, Zenon DEF Types, References, Roles
<1>d. /\ cur' \in In(queue, "run") /\ cur' \in Threads
      /\ queue' \in QueuesType /\ Once(queue') /\ Nowhere(queue', cur')
      /\ In(queue', "run") = In(queue, "run") \ {cur'}
      /\ In(queue', t) = In(queue, t) \cup {cur}
      /\ \A m \in Queues \ {"run", t} : In(queue', m) = In(queue, m)
  BY <1>b, <1>c, SwitchFacts DEF Types, Linked, Shared
<1>1. Types'
  BY <1>a, <1>b, <1>c, <1>d, Names, Zenon DEF Types, Locations, Preemptible, Critical, Suspended, NotRunning
<1>2. Linked'
  BY <1>a, <1>b, <1>c, <1>d, Names, SMTT(30) DEF Types, Linked, Roles, References, Nowhere, Shared, Preemptible, Suspended, Critical, NotRunning
<1>3. Roles'
  BY <1>a, <1>b, <1>c, <1>d, Names, SMTT(30) DEF Types, Linked, Roles, Holding, Preemptible, Suspended, Critical, NotRunning
<1>4. Holding'
  BY <1>a, <1>b, <1>c, <1>d, Names, SMTT(30) DEF Types, Roles, Holding
<1>5. Creating'
  BY <1>a, <1>b, <1>c, <1>d, Names, SMTT(30) DEF Types, Roles, Creating, Critical, NotRunning
<1>6. References'
  BY <1>a, <1>b, <1>c, <1>d, Names, SMTT(30) DEF Types, Roles, References, Critical, NotRunning
<1>7. Awake'
  BY <1>a, <1>b, <1>c, <1>d, Names, SMTT(30) DEF Types, Linked, Roles, Awake, Nowhere, Shared, Critical, NotRunning
<1> QED BY <1>1, <1>2, <1>3, <1>4, <1>5, <1>6, <1>7, Zenon DEF Inv

\* Join finds the thread finished.
LEMMA JoinDoneStep == Inv /\ JoinDone => Inv'
<1> SUFFICES ASSUME Types, Linked, Roles, Holding, Creating, References, Awake, JoinDone
             PROVE  Inv'
  BY Zenon DEF Inv
<1>a. /\ pc[cur] \in {"run", "join"}
      /\ arg' = [arg EXCEPT ![cur] = NoThread]
      /\ pc' = [pc EXCEPT ![cur] = "run"]
      /\ UNCHANGED <<cur, preemptOff, holder, inside, owner, keys>>
  BY Zenon DEF JoinDone, Goto
<1>b. PICK t \in handles[cur] :
         /\ pc[t] \in {"free", "exiting", "dead"}
         /\ refCount' = Detach(queue, t).count /\ queue' = Detach(queue, t).queue
         /\ handles' = [handles EXCEPT ![cur] = @ \ {t}]
  <2>1. (IF At("join") THEN {arg[cur]} ELSE handles[cur]) \subseteq handles[cur]
    BY DEF Types, References, At
  <2> QED BY <2>1, Zenon DEF JoinDone, Alive
<1>c. t \in Threads /\ cur \in Threads /\ pc[t] \in {"exiting", "dead"} /\ owner[t] = cur /\ t # cur
  BY <1>a, <1>b, Names DEF Types, References
<1>d. refCount[t] \in Int /\ refCount[t] >= 1 /\ (refCount[t] = 1 => pc[t] = "dead" /\ Nowhere(queue, t))
  BY <1>b, <1>c, InNoQueue DEF Types, References
<1>e. /\ queue' \in QueuesType /\ Once(queue')
      /\ refCount' = [refCount EXCEPT ![t] = @ - 1]
      /\ refCount[t] # 1 => queue' = queue
      /\ refCount[t] = 1 =>
            /\ In(queue', "graveyard") = In(queue, "graveyard") \cup {t}
            /\ In(queue', "run") = In(queue, "run") \cup In(queue, "reaper")
            /\ In(queue', "reaper") = {}
      /\ \A m \in Queues \ {"graveyard", "run", "reaper"} : In(queue', m) = In(queue, m)
  <2>1. refCount' = [refCount EXCEPT ![t] = @ - 1]
    BY <1>b, Zenon DEF Detach
  <2>2. queue \in QueuesType /\ Once(queue)
    BY Zenon DEF Types, Linked
  <2>3. t \in Threads /\ (refCount[t] = 1 => Nowhere(queue, t)) /\ queue' = Detach(queue, t).queue
    BY <1>b, <1>c, <1>d, Zenon
  <2> QED BY <2>1, <2>2, <2>3, DetachFacts
<1>1. Types'
  <2>1. pc' \in [Threads -> Locations]
    BY <1>a, <1>c, Zenon DEF Types, Locations, Preemptible
  <2>2. refCount' \in [Threads -> Int]
    BY <1>c, <1>e DEF Types
  <2>3. arg' \in [Threads -> Threads \cup {NoThread}]
    BY <1>a, <1>c, Zenon DEF Types
  <2>4. handles' \in [Threads -> SUBSET Workers]
    BY <1>b, <1>c DEF Types
  <2> QED BY <2>1, <2>2, <2>3, <2>4, <1>a, <1>e, Zenon DEF Types
<1>2. Linked'
  <2> DEFINE Kept(m) == In(queue', m) = In(queue, m)
  <2>1. /\ pc'[cur] = "run" /\ (\A u \in Threads \ {cur} : pc'[u] = pc[u] /\ arg'[u] = arg[u])
        /\ \A u \in Threads \ {t} : refCount'[u] = refCount[u]
        /\ refCount'[t] = refCount[t] - 1
    BY <1>a, <1>c, <1>e DEF Types
  <2>2. Nowhere(queue', cur)
    BY <1>c, <1>e DEF Linked, Nowhere, Queues, Shared
  <2>3. \A n \in Queues : \A u \in In(queue', n) : u \in Threads /\ u # cur
    <3> SUFFICES ASSUME NEW n \in Queues, NEW u \in In(queue', n) PROVE u \in Threads /\ u # cur
      BY Zenon
    <3>1. In(queue', n) \subseteq Threads
      <4>1. queue' \in QueuesType
        BY <1>e, Zenon
      <4> QED BY <4>1, InFacts, Zenon
    <3>2. u # cur
      BY <2>2, Zenon DEF Nowhere
    <3> QED BY <3>1, <3>2, Zenon
  <2>4. \A u \in In(queue', "run") : pc'[u] \in Preemptible \cup Suspended
    <3>1. \A u \in In(queue', "run") : pc[u] \in Preemptible \cup Suspended
      <4>1. \A u \in In(queue, "run") : pc[u] \in Preemptible \cup Suspended
        BY Zenon DEF Linked
      <4>2. \A u \in In(queue, "reaper") : pc[u] \in Preemptible \cup Suspended
        BY Zenon DEF Linked, Preemptible, Suspended
      <4> QED BY <4>1, <4>2, <1>e, Zenon
    <3> QED BY <3>1, <2>1, <2>3, Zenon DEF Queues, Shared
  <2>5. /\ \A u \in In(queue', "mutex") : pc'[u] = "lockwait"
        /\ \A u \in In(queue', "cond") : pc'[u] = "condwait"
        /\ \A u \in In(queue', "key") : pc'[u] = "key"
    <3>1. Kept("mutex") /\ Kept("cond") /\ Kept("key")
      BY <1>e, Zenon DEF Queues, Shared
    <3> QED BY <3>1, <2>1, <2>3 DEF Linked, Queues, Shared
  <2>6. \A u \in In(queue', "reaper") : pc'[u] = "reap"
    BY <1>e, <2>1, <2>3 DEF Linked, Queues, Shared
  <2>7. \A u \in In(queue', "graveyard") \cup In(queue', "corpses") : pc'[u] = "dead" /\ refCount'[u] = 0
    <3>1. Kept("corpses")
      BY <1>e, Zenon DEF Queues, Shared
    <3>2. \A u \in In(queue, "graveyard") \cup In(queue, "corpses") : pc[u] = "dead" /\ refCount[u] = 0
      BY Zenon DEF Linked
    <3>3. \A u \in In(queue', "graveyard") \cup In(queue', "corpses") :
             \/ pc[u] = "dead" /\ refCount[u] = 0
             \/ u = t /\ pc[u] = "dead" /\ refCount[u] = 1
      BY <3>1, <3>2, <1>d, <1>e, Zenon
    <3> SUFFICES ASSUME NEW u \in In(queue', "graveyard") \cup In(queue', "corpses")
                 PROVE  pc'[u] = "dead" /\ refCount'[u] = 0
      BY Zenon
    <3>4. u \in Threads /\ u # cur
      BY <2>3, Zenon DEF Queues, Shared
    <3>5. pc[u] = "dead" /\ (u = t => refCount[u] = 1) /\ (u # t => refCount[u] = 0)
      BY <3>3, <1>d
    <3> QED BY <3>4, <3>5, <2>1
  <2>8. \A k \in Threads : \A u \in In(queue', k) : pc'[u] = "join" /\ arg'[u] = k
    <3>1. \A k \in Threads : k \in Queues /\ Kept(k)
      BY <1>e, Names, Zenon DEF Shared
    <3> QED BY <3>1, <2>1, <2>3 DEF Linked
  <2>9. cur' = cur /\ Once(queue')
    BY <1>a, <1>e, Zenon
  <2> QED BY <2>2, <2>4, <2>5, <2>6, <2>7, <2>8, <2>9, Zenon DEF Linked
<1>3. Roles'
  BY <1>a, <1>b, <1>c, <1>d, <1>e, Names, SMTT(30) DEF Types, Linked, Roles, Holding, Preemptible, Suspended, Critical, NotRunning
<1>4. Holding'
  BY <1>a, <1>b, <1>c, <1>d, <1>e, Names, SMTT(30) DEF Types, Roles, Holding
<1>5. Creating'
  BY <1>a, <1>b, <1>c, <1>d, <1>e, Names, SMTT(30) DEF Types, Roles, Creating, Critical, NotRunning
<1>6. References'
  BY <1>a, <1>b, <1>c, <1>d, <1>e, Names, SMTT(30) DEF Types, Roles, References, Critical, NotRunning
<1>7. Awake'
  BY <1>a, <1>b, <1>c, <1>d, <1>e, Names, SMTT(30) DEF Types, Linked, Roles, Awake, Nowhere, Shared, Critical, NotRunning
<1> QED BY <1>1, <1>2, <1>3, <1>4, <1>5, <1>6, <1>7, Zenon DEF Inv

-----------------------------------------------------------------------------
(* The reaper *)

\* The reaper takes the graveyard.
LEMMA ReaperCollectStep == Inv /\ ReaperCollect => Inv'
<1> SUFFICES ASSUME Types, Linked, Roles, Holding, Creating, References, Awake, ReaperCollect
             PROVE  Inv'
  BY Zenon DEF Inv
<1>a. /\ pc' = [pc EXCEPT ![cur] = "destroy"]
      /\ pc[cur] = "reap"
      /\ UNCHANGED <<preemptOff, holder, inside, refCount, owner, arg, handles, keys>>
  BY Zenon DEF ReaperCollect, Goto, At, threadVars
<1> DEFINE mid == Collected(queue)
<1>b. Schedule(Enqueue(mid, "run", cur))
  BY Zenon DEF ReaperCollect, Collected
<1>c. /\ mid \in QueuesType /\ Once(mid)
      /\ In(mid, "corpses") = In(queue, "graveyard")
      /\ In(mid, "graveyard") = {}
      /\ \A m \in Queues \ {"corpses", "graveyard"} : In(mid, m) = In(queue, m)
  <2>1. queue \in QueuesType /\ Once(queue)
    BY Zenon DEF Types, Linked
  <2> QED BY <2>1, CollectFacts, Zenon
<1> HIDE DEF mid
<1>d. {"run", "corpses", "graveyard"} \subseteq Queues
  BY Names, Zenon DEF Shared
<1>e. Nowhere(mid, cur) /\ Idle \in In(mid, "run")
  BY <1>a, <1>c, <1>d, Names, Zenon DEF Nowhere, Linked, Roles
<1>f. /\ cur' \in In(queue, "run") \/ cur' = cur
      /\ cur' \in Threads
      /\ queue' \in QueuesType /\ Once(queue') /\ Nowhere(queue', cur')
      /\ In(queue', "run") = (In(queue, "run") \cup {cur}) \ {cur'}
      /\ In(queue', "corpses") = In(queue, "graveyard")
      /\ In(queue', "graveyard") = {}
      /\ \A m \in Queues \ {"run", "corpses", "graveyard"} : In(queue', m) = In(queue, m)
  <2>1. /\ cur' \in In(mid, "run") \/ cur' = cur
        /\ cur' \in Threads
        /\ queue' \in QueuesType /\ Once(queue') /\ Nowhere(queue', cur')
        /\ In(queue', "run") = (In(mid, "run") \cup {cur}) \ {cur'}
        /\ \A m \in Queues \ {"run"} : In(queue', m) = In(mid, m)
    BY <1>b, <1>c, <1>d, <1>e, SwitchFacts DEF Types
  <2> QED BY <1>c, <1>d, <2>1, Zenon
<1>1. Types'
  BY <1>a, <1>d, <1>f, Names, Zenon DEF Types, Locations, Preemptible, Critical, Suspended, NotRunning
<1>2. Linked'
  BY <1>a, <1>d, <1>f, Names, SMTT(30) DEF Types, Linked, Roles, References, Nowhere, Shared, Preemptible, Suspended, Critical, NotRunning
<1>3. Roles'
  BY <1>a, <1>d, <1>f, Names, SMTT(30) DEF Types, Linked, Roles, Holding, Preemptible, Suspended, Critical, NotRunning
<1>4. Holding'
  BY <1>a, <1>d, <1>f, Names, SMTT(30) DEF Types, Roles, Holding
<1>5. Creating'
  BY <1>a, <1>d, <1>f, Names, SMTT(30) DEF Types, Roles, Creating, Critical, NotRunning
<1>6. References'
  BY <1>a, <1>d, <1>f, Names, SMTT(30) DEF Types, Roles, References, Critical, NotRunning
<1>7. Awake'
  BY <1>a, <1>d, <1>f, Names, SMTT(30) DEF Types, Linked, Roles, Awake, Nowhere, Shared, Critical, NotRunning
<1> QED BY <1>1, <1>2, <1>3, <1>4, <1>5, <1>6, <1>7, Zenon DEF Inv

\* Destroy_Thread of the next corpse.
LEMMA DestroyThreadStep == Inv /\ DestroyThread => Inv'
<1> SUFFICES ASSUME Types, Linked, Roles, Holding, Creating, References, Awake, DestroyThread
             PROVE  Inv'
  BY Zenon DEF Inv
<1>a. /\ pc[cur] = "destroy"
      /\ UNCHANGED <<cur, preemptOff, holder, inside, refCount, arg, handles, keys>>
  BY Zenon DEF DestroyThread, At
<1> DEFINE t == Head(queue["corpses"])
<1>b. /\ pc' = [pc EXCEPT ![t] = "free"] /\ owner' = [owner EXCEPT ![t] = NoThread]
      /\ queue["corpses"] # <<>> /\ queue' = [queue EXCEPT !["corpses"] = Tail(@)]
  BY Zenon DEF DestroyThread
<1>c. {"run", "graveyard", "corpses"} \subseteq Queues
  BY Names, Zenon DEF Shared
<1>d. /\ queue' \in QueuesType /\ Once(queue') /\ t \in In(queue, "corpses")
      /\ In(queue', "corpses") = In(queue, "corpses") \ {t}
      /\ \A m \in Queues \ {"corpses"} : In(queue', m) = In(queue, m)
  <2>1. queue \in QueuesType /\ Once(queue)
    BY Zenon DEF Types, Linked
  <2> DEFINE new == [queue EXCEPT !["corpses"] = Tail(@)]
  <2>2. queue["corpses"] # <<>> /\ queue' = new
    BY <1>b, Zenon
  <2>3. /\ new \in QueuesType /\ Once(new) /\ t \in In(queue, "corpses")
        /\ In(new, "corpses") = In(queue, "corpses") \ {t}
        /\ \A m \in Queues \ {"corpses"} : In(new, m) = In(queue, m)
    BY <2>1, <2>2, TailFacts, Zenon
  <2> HIDE DEF new, t
  <2> QED BY <2>2, <2>3, Zenon
<1>e. In(queue, "graveyard") \cap In(queue, "corpses") = {} /\ In(queue, "corpses") \subseteq Threads
  <2>1. queue \in QueuesType /\ Once(queue)
    BY Zenon DEF Types, Linked
  <2>2. "graveyard" \in Queues /\ "corpses" \in Queues
    BY Zenon DEF Queues, Shared
  <2>3. In(queue, "graveyard") \cap In(queue, "corpses") = {}
    BY <2>1, <2>2, Disjoint
  <2>4. In(queue, "corpses") \subseteq Threads
    BY <2>1, <2>2, InFacts, Zenon
  <2> QED BY <2>3, <2>4, Zenon
<1>f. pc' = [pc EXCEPT ![t] = "free"] /\ owner' = [owner EXCEPT ![t] = NoThread]
  BY <1>b, Zenon
<1> HIDE DEF t
<1>g. t \in Threads /\ t \in Workers /\ pc[t] = "dead" /\ refCount[t] = 0 /\ t # cur
  BY <1>a, <1>d, <1>e, Zenon DEF Types, Linked, Roles
<1>1. Types'
  BY <1>a, <1>c, <1>d, <1>e, <1>f, <1>g, Names, Zenon DEF Types, Locations, Preemptible, Critical, Suspended, NotRunning
<1>2. Linked'
  BY <1>a, <1>c, <1>d, <1>e, <1>f, <1>g, Names, SMTT(30) DEF Types, Linked, Roles, References, Nowhere, Shared, Preemptible, Suspended, Critical, NotRunning
<1>3. Roles'
  BY <1>a, <1>c, <1>d, <1>e, <1>f, <1>g, Names, SMTT(30) DEF Types, Linked, Roles, Holding, Preemptible, Suspended, Critical, NotRunning
<1>4. Holding'
  BY <1>a, <1>c, <1>d, <1>e, <1>f, <1>g, Names, SMTT(30) DEF Types, Roles, Holding
<1>5. Creating'
  BY <1>a, <1>c, <1>d, <1>e, <1>f, <1>g, Names, SMTT(30) DEF Types, Roles, Creating, Critical, NotRunning
<1>6. References'
  BY <1>a, <1>c, <1>d, <1>e, <1>f, <1>g, Names, SMTT(30) DEF Types, Roles, References, Critical, NotRunning
<1>7. Awake'
  BY <1>a, <1>c, <1>d, <1>e, <1>f, <1>g, Names, SMTT(30) DEF Types, Linked, Roles, Awake, Nowhere, Shared, Critical, NotRunning
<1> QED BY <1>1, <1>2, <1>3, <1>4, <1>5, <1>6, <1>7, Zenon DEF Inv

-----------------------------------------------------------------------------
(* The theorems *)

\* Init_Scheduler establishes the invariant.
LEMMA InvInit == Init => Inv
<1> SUFFICES ASSUME Init PROVE Inv
  BY Zenon
<1>1. /\ cur = Main /\ preemptOff = FALSE /\ holder = NoThread /\ inside = {} /\ keys = 0
      /\ pc = [t \in Threads |-> CASE t \in {Main, Idle} -> "run" [] t = Reaper -> "reap" [] OTHER -> "free"]
      /\ refCount = [t \in Threads |-> IF t \in Workers THEN 0 ELSE 1]
      /\ owner = [t \in Threads |-> NoThread] /\ arg = [t \in Threads |-> NoThread]
      /\ handles = [t \in Threads |-> {}]
  BY Zenon DEF Init
<1>2. /\ pc[Main] = "run" /\ pc[Idle] = "run" /\ pc[Reaper] = "reap"
      /\ \A t \in Workers : pc[t] = "free"
      /\ \A t \in Threads : t \in {Main, Idle, Reaper} \/ t \in Workers
  BY <1>1, Names, Zenon DEF Threads
<1>3. /\ queue["run"] = <<Idle, Reaper>> /\ "run" \in Queues
      /\ \A n \in Queues \ {"run"} : queue[n] = <<>>
      /\ queue \in QueuesType
  BY Names DEF Init, QueuesType, Shared
<1>4. /\ In(queue, "run") = {Idle, Reaper}
      /\ \A n \in Queues \ {"run"} : In(queue, n) = {}
  <2>1. \A n \in Queues \ {"run"} : In(queue, n) = {}
    BY <1>3, InFacts, Zenon
  <2>2. In(queue, "run") = {Idle, Reaper}
    <3>1. Len(queue["run"]) = 2 /\ queue["run"][1] = Idle /\ queue["run"][2] = Reaper
      BY <1>3
    <3>2. \A x \in In(queue, "run") : x \in {Idle, Reaper}
      BY <1>3, <3>1, InFacts
    <3>3. 1 \in 1..Len(queue["run"]) /\ 2 \in 1..Len(queue["run"])
      BY <3>1
    <3>4. Idle \in In(queue, "run") /\ Reaper \in In(queue, "run")
      BY <1>3, <3>1, <3>3, InFacts, Zenon
    <3> QED BY <3>2, <3>4, Zenon
  <2> QED BY <2>1, <2>2, Zenon
<1>5. Once(queue)
  <2> SUFFICES ASSUME NEW m \in Queues, NEW n \in Queues,
                      NEW i \in 1..Len(queue[m]), NEW j \in 1..Len(queue[n]),
                      queue[m][i] = queue[n][j]
               PROVE  m = n /\ i = j
    BY Zenon DEF Once
  <2>1. m = "run" /\ n = "run"
    BY <1>3
  <2>2. i \in 1..2 /\ j \in 1..2 /\ <<Idle, Reaper>>[i] = <<Idle, Reaper>>[j]
    BY <1>3, <2>1, Zenon
  <2> QED BY <2>1, <2>2, Names
<1>6. Types
  <2>1. pc \in [Threads -> Locations]
    BY <1>1, <1>2, Zenon DEF Locations, Preemptible, Suspended, NotRunning
  <2>2. refCount \in [Threads -> Int]
    BY <1>1
  <2>3. /\ owner \in [Threads -> Threads \cup {NoThread}] /\ arg \in [Threads -> Threads \cup {NoThread}]
        /\ handles \in [Threads -> SUBSET Workers]
    BY <1>1, Zenon
  <2>4. cur \in Threads /\ preemptOff \in BOOLEAN /\ holder \in Threads \cup {NoThread} /\ inside \subseteq Threads /\ keys \in Nat
    BY <1>1, Names, Zenon
  <2> QED BY <1>3, <2>1, <2>2, <2>3, <2>4, Zenon DEF Types
<1>7. Linked
  BY <1>1, <1>2, <1>4, <1>5, Names, Zenon DEF Linked, Nowhere, Shared, Preemptible, Suspended
<1>8. Roles
  BY <1>1, <1>2, <1>4, Names, Zenon DEF Roles, Critical, NotRunning
<1>9. Holding
  BY <1>1, <1>2, Zenon DEF Holding
<1>10. Creating
  BY <1>1, <1>2, Zenon DEF Creating
<1>11. References
  BY <1>1, <1>2, Names DEF References
<1>12. Awake
  BY <1>1, <1>2, <1>4, Names, Zenon DEF Awake, Shared
<1> QED BY <1>6, <1>7, <1>8, <1>9, <1>10, <1>11, <1>12, Zenon DEF Inv

\* A step that changes nothing keeps the invariant.
LEMMA StutterStep == Inv /\ UNCHANGED vars => Inv'
<1> SUFFICES ASSUME Inv, UNCHANGED vars PROVE Inv'
  BY Zenon
<1>1. UNCHANGED <<cur, pc, queue, preemptOff, holder, inside, refCount, owner, arg, handles, keys>>
  BY Zenon DEF vars, threadVars
<1> QED BY <1>1 DEF Inv, Types, Linked, Roles, Holding, Creating, References, Awake

\* Every behaviour of the threads keeps the invariant.
THEOREM Invariance == Spec => []Inv
<1>1. Inv /\ [Next]_vars => Inv'
  BY Zenon, MutexLockStep, MutexTakeStep, MutexWaitStep, MutexRetryStep, MutexUnlockStep, MutexReleaseStep,
     CondWaitStep, CondUnlockStep, CondBlockStep, CondNotifyStep, YieldStep, AllocObjectStep,
     AllocFailsStep, CreateThreadStep, MakeRunnableStep, ExitStep, ExitSchedulesStep, JoinWaitStep,
     JoinDoneStep, ReaperWaitStep, ReaperCollectStep, DestroyThreadStep, ReaperRepeatsStep,
     WaitForKeyStep, GetKeyStep, TickStep, KeyInterruptStep, StutterStep DEF Next
<1> QED BY <1>1, InvInit, PTL DEF Spec

\* Members is membership in a queue of the current state.
LEMMA MembersFacts ==
    ASSUME Inv
    PROVE  /\ \A n \in Queues : Members(n) = In(queue, n) /\ Members(n) \subseteq Threads
           /\ \A n \in Queues : queue[n] = <<>> <=> In(queue, n) = {}
BY InFacts, Zenon DEF Members, In, Inv, Types

\* A thread is in one queue at most and no queue leads to a page that is not a
\* live thread's, for any number of workers, pages and keys.
THEOREM QueuesAreSound == Spec => []NoDanglingThreads
<1>1. Inv => NoDanglingThreads
  <2> SUFFICES ASSUME Inv PROVE NoDanglingThreads
    BY Zenon
  <2>1. \A t \in Threads : pc[t] \in {"free", "new"} => \A n \in Queues : t \notin Members(n)
    <3> SUFFICES ASSUME NEW t \in Threads, pc[t] \in {"free", "new"}, NEW n \in Queues PROVE t \notin Members(n)
      BY Zenon
    <3>1. Types /\ Linked
      BY Zenon DEF Inv
    <3>2. Nowhere(queue, t)
      BY <3>1, InNoQueue, Zenon
    <3>3. Members(n) = In(queue, n)
      BY MembersFacts, Zenon
    <3> QED BY <3>2, <3>3, Zenon DEF Nowhere
  <2>2. LinkedOnce
    <3>1. Once(queue) /\ Nowhere(queue, cur)
      BY Zenon DEF Inv, Linked
    <3>2. \A n \in Queues : cur \notin Members(n)
      BY <3>1, MembersFacts, Zenon DEF Nowhere
    <3> QED BY <2>1, <3>1, <3>2, Zenon DEF LinkedOnce, Once
  <2>3. \A n \in Queues \ {"graveyard", "corpses"} : \A t \in Members(n) : pc[t] \notin NotRunning
    <3> SUFFICES ASSUME NEW n \in Queues \ {"graveyard", "corpses"}, NEW t \in In(queue, n)
                 PROVE  pc[t] \notin NotRunning
      BY MembersFacts, Zenon
    <3>1. n \in Shared \/ n \in Threads
      BY Zenon DEF Queues
    <3> QED BY <3>1, Zenon DEF Inv, Linked, Shared, Preemptible, Suspended, NotRunning
  <2>4. holder # NoThread => pc[holder] \notin NotRunning
    BY Zenon DEF Inv, Holding, NotRunning
  <2>5. \A t \in Threads : \A k \in handles[t] : pc[k] # "free"
    BY Zenon DEF Inv, References
  <2>6. pc[cur] \notin NotRunning
    BY Zenon DEF Inv, Roles
  <2> QED BY <2>2, <2>3, <2>4, <2>5, <2>6, Zenon DEF NoDanglingThreads
<1> QED BY <1>1, Invariance, PTL

\* Schedule always finds a thread and is never called with preemption disabled.
THEOREM SchedulerFindsThread == Spec => []ScheduleFinds
<1>1. Inv => ScheduleFinds
  <2> SUFFICES ASSUME Inv PROVE ScheduleFinds
    BY Zenon
  <2>1. "run" \in Queues
    BY Names, Zenon DEF Shared
  <2> QED BY <2>1, MembersFacts, Zenon DEF ScheduleFinds, Inv, Roles
<1> QED BY <1>1, Invariance, PTL

\* At most one thread is in the mutex, whatever the number of threads.
THEOREM MutexExcludes == Spec => []MutualExclusion
<1>1. Inv => MutualExclusion
  BY Zenon DEF Inv, Holding, MutualExclusion
<1> QED BY <1>1, Invariance, PTL

\* No wakeup of the mutex, the keyboard, Join or the reaper is lost.
THEOREM WakeupsArrive == Spec => []NoLostWakeup
<1>1. Inv => NoLostWakeup
  <2> SUFFICES ASSUME Inv PROVE NoLostWakeup
    BY Zenon
  <2>1. {"mutex", "key", "graveyard", "reaper"} \subseteq Queues /\ Threads \subseteq Queues
    BY Names, Zenon DEF Shared
  <2>2. /\ queue["mutex"] # <<>> <=> In(queue, "mutex") # {}
        /\ queue["key"] = <<>> <=> In(queue, "key") = {}
        /\ queue["graveyard"] # <<>> <=> In(queue, "graveyard") # {}
        /\ queue["reaper"] = <<>> <=> In(queue, "reaper") = {}
        /\ \A t \in Threads : queue[t] = <<>> <=> In(queue, t) = {}
        /\ Members("mutex") = In(queue, "mutex")
    BY <2>1, MembersFacts, Zenon
  <2> QED BY <2>2, Zenon DEF NoLostWakeup, Inv, Awake
<1> QED BY <1>1, Invariance, PTL

=============================================================================
