-------------------------- MODULE GeekThreadsSteps --------------------------
(***************************************************************************)
(* What the operations on thread queues do to the threads in them, for any *)
(* queues; the inductive invariant of GeekThreads; and that the steps of   *)
(* mutexes, conditions, the keyboard and the scheduler keep it.  What      *)
(* several of them do alike is proved once: a thread moves on, waits, is   *)
(* switched, or unlocks.                                                   *)
(***************************************************************************)
EXTENDS GeekThreads, TLAPS

QueuesType == [Queues -> Seq(Threads)]

In(qs, n) == ToSet(qs[n])

Once(qs) ==
    \A m, n \in Queues : \A i \in 1..Len(qs[m]), j \in 1..Len(qs[n]) :
       qs[m][i] = qs[n][j] => m = n /\ i = j

Nowhere(qs, t) == \A n \in Queues : t \notin In(qs, n)

-----------------------------------------------------------------------------
(* Thread queues *)

LEMMA Names ==
    /\ Shared \subseteq Queues /\ Threads \subseteq Queues
    /\ \A t \in Threads : t \notin Shared
    /\ NoThread \notin Threads /\ NoThread \notin Shared
    /\ {Main, Idle, Reaper} \subseteq Threads /\ Workers \subseteq Threads
    /\ Main # Idle /\ Main # Reaper /\ Idle # Reaper
    /\ \A t \in Workers : t \notin {Main, Idle, Reaper}
    /\ \A t \in Threads : t \in Apps <=> t # Idle /\ t # Reaper
BY ThreadsDistinct, QueueNamesDistinct, Zenon DEF Queues, Threads, Apps

\* Membership, spelled out.
LEMMA InFacts ==
    ASSUME NEW qs \in QueuesType, NEW n \in Queues
    PROVE  /\ qs[n] \in Seq(Threads)
           /\ Len(qs[n]) \in Nat
           /\ In(qs, n) \subseteq Threads
           /\ \A i \in 1..Len(qs[n]) : qs[n][i] \in In(qs, n)
           /\ \A t \in In(qs, n) : \E i \in 1..Len(qs[n]) : qs[n][i] = t
           /\ qs[n] = <<>> <=> In(qs, n) = {}
           /\ qs[n] # <<>> => Len(qs[n]) >= 1
<1>1. qs[n] \in Seq(Threads)
  BY Zenon DEF QueuesType
<1>2. DOMAIN qs[n] = 1..Len(qs[n]) /\ Len(qs[n]) \in Nat
  BY <1>1
<1>3. qs[n] # <<>> => Len(qs[n]) >= 1
  BY <1>1
<1>4. \A i \in 1..Len(qs[n]) : qs[n][i] \in In(qs, n) /\ qs[n][i] \in Threads
  BY <1>1, <1>2 DEF In, ToSet
<1>5. \A t \in In(qs, n) : \E i \in 1..Len(qs[n]) : qs[n][i] = t
  BY <1>2, Zenon DEF In, ToSet
<1>6. qs[n] # <<>> => In(qs, n) # {}
  BY <1>2, <1>3, <1>4
<1>7. qs[n] = <<>> => In(qs, n) = {}
  BY <1>1, <1>5
<1> QED BY <1>1, <1>2, <1>3, <1>4, <1>5, <1>6, <1>7, Zenon

LEMMA Disjoint ==
    ASSUME NEW qs \in QueuesType, Once(qs), NEW m \in Queues, NEW n \in Queues, m # n
    PROVE  In(qs, m) \cap In(qs, n) = {}
<1> SUFFICES ASSUME NEW t, t \in In(qs, m), t \in In(qs, n) PROVE FALSE
  BY Zenon
<1>1. PICK i \in 1..Len(qs[m]) : qs[m][i] = t
  BY InFacts, Zenon
<1>2. PICK j \in 1..Len(qs[n]) : qs[n][j] = t
  BY InFacts, Zenon
<1> QED BY <1>1, <1>2, Zenon DEF Once

\* Enqueue_Thread of a thread that is in no queue.
LEMMA EnqueueFacts ==
    ASSUME NEW qs \in QueuesType, Once(qs),
           NEW n \in Queues, NEW t \in Threads, Nowhere(qs, t)
    PROVE  /\ Enqueue(qs, n, t) \in QueuesType
           /\ Once(Enqueue(qs, n, t))
           /\ In(Enqueue(qs, n, t), n) = In(qs, n) \cup {t}
           /\ \A m \in Queues \ {n} : Enqueue(qs, n, t)[m] = qs[m]
<1> DEFINE new == Enqueue(qs, n, t)
<1>1. /\ new[n] = Append(qs[n], t)
      /\ \A m \in Queues \ {n} : new[m] = qs[m]
      /\ DOMAIN new = Queues
  BY Zenon DEF Enqueue, QueuesType
<1>2. qs[n] \in Seq(Threads) /\ Len(qs[n]) \in Nat
  BY InFacts, Zenon
<1>3. new \in QueuesType
  BY <1>1, <1>2 DEF Enqueue, QueuesType
<1>4. /\ Len(new[n]) = Len(qs[n]) + 1
      /\ \A i \in 1..Len(qs[n]) : new[n][i] = qs[n][i]
      /\ new[n][Len(qs[n]) + 1] = t
  BY <1>1, <1>2
<1>5. \A m \in Queues : \A i \in 1..Len(qs[m]) : qs[m][i] # t
  BY InFacts DEF Nowhere
<1>6. Once(new)
  <2> SUFFICES ASSUME NEW a \in Queues, NEW b \in Queues,
                      NEW i \in 1..Len(new[a]), NEW j \in 1..Len(new[b]),
                      new[a][i] = new[b][j]
               PROVE  a = b /\ i = j
    BY Zenon DEF Once
  <2>1. i \in 1..Len(qs[a]) \/ (a = n /\ i = Len(qs[n]) + 1)
    BY <1>1, <1>2, <1>4
  <2>2. j \in 1..Len(qs[b]) \/ (b = n /\ j = Len(qs[n]) + 1)
    BY <1>1, <1>2, <1>4
  <2>3. i \in 1..Len(qs[a]) => new[a][i] = qs[a][i]
    BY <1>1, <1>4, Zenon
  <2>4. j \in 1..Len(qs[b]) => new[b][j] = qs[b][j]
    BY <1>1, <1>4, Zenon
  <2> QED BY <2>1, <2>2, <2>3, <2>4, <1>4, <1>5 DEF Once
<1>7. In(new, n) = In(qs, n) \cup {t}
  <2>1. \A x \in In(new, n) : x \in In(qs, n) \cup {t}
    <3> SUFFICES ASSUME NEW x \in In(new, n) PROVE x \in In(qs, n) \cup {t}
      BY Zenon
    <3>1. PICK i \in 1..Len(new[n]) : new[n][i] = x
      BY <1>3, InFacts, Zenon
    <3> QED BY <3>1, <1>2, <1>4, InFacts
  <2>2. \A x \in In(qs, n) : x \in In(new, n)
    <3> SUFFICES ASSUME NEW x \in In(qs, n) PROVE x \in In(new, n)
      BY Zenon
    <3>1. PICK i \in 1..Len(qs[n]) : qs[n][i] = x
      BY InFacts, Zenon
    <3>2. i \in 1..Len(new[n]) /\ new[n][i] = x
      BY <3>1, <1>2, <1>4
    <3> QED BY <3>2, <1>3, InFacts, Zenon
  <2>3. t \in In(new, n)
    <3>1. Len(qs[n]) + 1 \in 1..Len(new[n])
      BY <1>2, <1>4
    <3> QED BY <3>1, <1>3, <1>4, InFacts
  <2> QED BY <2>1, <2>2, <2>3, Zenon
<1> QED BY <1>1, <1>3, <1>6, <1>7, Zenon

\* Find_Best finds a thread: the idle thread is in the queue once at most.
LEMMA BestExists ==
    ASSUME NEW qs \in QueuesType, Once(qs), NEW n \in Queues, qs[n] # <<>>
    PROVE  FindBest(qs[n]) \in 1..Len(qs[n])
<1> DEFINE q == qs[n]
           IsBest(i) == \A j \in 1..Len(q) :
                           \/ Priority(q[j]) < Priority(q[i])
                           \/ Priority(q[j]) = Priority(q[i]) /\ i <= j
<1>1. Len(q) \in Nat /\ Len(q) >= 1
  BY InFacts, Zenon
<1>2. \A j \in 1..Len(q) : Priority(q[j]) = IF q[j] = Idle THEN 0 ELSE 5
  BY Zenon DEF Priority
<1>3. \A i, j \in 1..Len(q) : q[i] = q[j] => i = j
  BY Zenon DEF Once
<1>4. \A i \in 1..Len(q) : IsBest(i) => FindBest(q) \in 1..Len(q)
  <2> HIDE DEF q
  <2> QED BY Zenon DEF FindBest
<1>5. CASE q[1] # Idle
  <2>1. 1 \in 1..Len(q) /\ IsBest(1)
    BY <1>1, <1>2, <1>5
  <2> QED BY <2>1, <1>4, Zenon
<1>6. CASE q[1] = Idle /\ Len(q) = 1
  <2>1. 1 \in 1..Len(q) /\ IsBest(1)
    BY <1>1, <1>2, <1>6
  <2> QED BY <2>1, <1>4, Zenon
<1>7. CASE q[1] = Idle /\ Len(q) > 1
  <2>1. 2 \in 1..Len(q) /\ 1 \in 1..Len(q)
    BY <1>1, <1>7
  <2>2. q[2] # Idle
    BY <2>1, <1>3, <1>7
  <2>3. \A j \in 1..Len(q) : j = 1 \/ 2 <= j
    BY <1>1
  <2>4. IsBest(2)
    BY <2>1, <2>2, <2>3, <1>2, <1>7
  <2> QED BY <2>1, <2>4, <1>4, Zenon
<1>8. Len(q) = 1 \/ Len(q) > 1
  <2>1. \A l \in Nat : l >= 1 => l = 1 \/ l > 1
    OBVIOUS
  <2> HIDE DEF q
  <2> QED BY <1>1, <2>1, Zenon
<1> QED BY <1>5, <1>6, <1>7, <1>8, Zenon

\* Two sequences, one after the other.
LEMMA ConcatFacts ==
    ASSUME NEW q \in Seq(Threads), NEW s \in Seq(Threads)
    PROVE  /\ q \o s \in Seq(Threads)
           /\ Len(q \o s) = Len(q) + Len(s)
           /\ \A i \in 1..(Len(q) + Len(s)) : (q \o s)[i] = IF i <= Len(q) THEN q[i] ELSE s[i - Len(q)]
OBVIOUS

\* A sequence without its k-th element.
LEMMA RemoveAtFacts ==
    ASSUME NEW q \in Seq(Threads), NEW k \in 1..Len(q)
    PROVE  /\ RemoveAt(q, k) \in Seq(Threads)
           /\ Len(RemoveAt(q, k)) = Len(q) - 1
           /\ \A i \in 1..(Len(q) - 1) : RemoveAt(q, k)[i] = IF i < k THEN q[i] ELSE q[i + 1]
<1> DEFINE a == SubSeq(q, 1, k - 1)
           b == SubSeq(q, k + 1, Len(q))
<1>1. Len(q) \in Nat /\ k \in Int /\ 1 <= k /\ k <= Len(q)
  OBVIOUS
<1>2. /\ a \in Seq(Threads) /\ Len(a) = k - 1
      /\ \A i \in 1..(k - 1) : a[i] = q[i]
  BY <1>1
<1>3. /\ b \in Seq(Threads) /\ Len(b) = Len(q) - k
      /\ \A i \in 1..(Len(q) - k) : b[i] = q[k + i]
  BY <1>1
<1>4. RemoveAt(q, k) = a \o b
  BY Zenon DEF RemoveAt
<1> HIDE DEF a, b
<1>5. /\ a \o b \in Seq(Threads)
      /\ Len(a \o b) = Len(a) + Len(b)
      /\ \A i \in 1..(Len(a) + Len(b)) : (a \o b)[i] = IF i <= Len(a) THEN a[i] ELSE b[i - Len(a)]
  BY <1>2, <1>3, ConcatFacts, Zenon
<1>6. ASSUME NEW i \in 1..(Len(q) - 1)
      PROVE  (a \o b)[i] = IF i < k THEN q[i] ELSE q[i + 1]
  <2>1. i \in 1..(Len(a) + Len(b))
    BY <1>1, <1>2, <1>3
  <2>2. CASE i < k
    <3>1. i \in 1..(k - 1) /\ i <= Len(a)
      BY <2>2, <1>1, <1>2
    <3> QED BY <3>1, <2>1, <2>2, <1>2, <1>5, Zenon
  <2>3. CASE ~ (i < k)
    <3>1. i - Len(a) \in 1..(Len(q) - k) /\ ~ (i <= Len(a)) /\ k + (i - Len(a)) = i + 1
      BY <2>3, <1>1, <1>2
    <3>2. b[i - Len(a)] = q[i + 1]
      BY <3>1, <1>3, Zenon
    <3> QED BY <3>1, <3>2, <2>1, <2>3, <1>5, Zenon
  <2> QED BY <2>2, <2>3, Zenon
<1> QED BY <1>1, <1>2, <1>3, <1>4, <1>5, <1>6

\* Remove_Thread of the best thread.
LEMMA RemoveBestFacts ==
    ASSUME NEW qs \in QueuesType, Once(qs), NEW n \in Queues, qs[n] # <<>>,
           NEW b, b = qs[n][FindBest(qs[n])]
    PROVE  /\ b \in In(qs, n)
           /\ RemoveBest(qs, n) \in QueuesType
           /\ Once(RemoveBest(qs, n))
           /\ Nowhere(RemoveBest(qs, n), b)
           /\ In(RemoveBest(qs, n), n) = In(qs, n) \ {b}
           /\ \A m \in Queues \ {n} : RemoveBest(qs, n)[m] = qs[m]
<1> DEFINE new == RemoveBest(qs, n)
           k == FindBest(qs[n])
           q == qs[n]
<1>1. k \in 1..Len(q)
  BY BestExists, Zenon
<1>2. q \in Seq(Threads) /\ Len(q) \in Nat
  BY InFacts, Zenon
<1>3. new[n] = RemoveAt(q, k) /\ (\A m \in Queues \ {n} : new[m] = qs[m]) /\ DOMAIN new = Queues
  BY Zenon DEF RemoveBest, QueuesType
<1>4. /\ RemoveAt(q, k) \in Seq(Threads)
      /\ Len(RemoveAt(q, k)) = Len(q) - 1
      /\ \A i \in 1..(Len(q) - 1) : RemoveAt(q, k)[i] = IF i < k THEN q[i] ELSE q[i + 1]
  <2> HIDE DEF q, k
  <2> QED BY <1>1, <1>2, RemoveAtFacts, Zenon
<1>5. new \in QueuesType
  BY <1>3, <1>4, Zenon DEF RemoveBest, QueuesType
\* Where an element of a new queue was before.
<1> DEFINE Old(m, i) == IF m = n /\ i >= k THEN i + 1 ELSE i
<1>6. \A m \in Queues : \A i \in 1..Len(new[m]) :
         /\ Old(m, i) \in 1..Len(qs[m])
         /\ new[m][i] = qs[m][Old(m, i)]
         /\ m = n => Old(m, i) # k
  BY <1>1, <1>2, <1>3, <1>4
<1> HIDE DEF new, k, q, Old
<1>7. Once(new)
  <2> SUFFICES ASSUME NEW c \in Queues, NEW d \in Queues,
                      NEW i \in 1..Len(new[c]), NEW j \in 1..Len(new[d]),
                      new[c][i] = new[d][j]
               PROVE  c = d /\ i = j
    BY Zenon DEF Once
  <2>1. /\ Old(c, i) \in 1..Len(qs[c]) /\ Old(d, j) \in 1..Len(qs[d])
        /\ qs[c][Old(c, i)] = qs[d][Old(d, j)]
    BY <1>6, Zenon
  <2>2. c = d /\ Old(c, i) = Old(d, j)
    BY <2>1 DEF Once
  <2>3. i \in Int /\ j \in Int /\ k \in Int
    BY <1>1, <1>5, InFacts
  <2> QED BY <2>2, <2>3 DEF Old
<1>8. b \in In(qs, n)
  BY <1>1, InFacts, Zenon DEF k, q
<1>9. Nowhere(new, b)
  <2> SUFFICES ASSUME NEW m \in Queues, b \in In(new, m) PROVE FALSE
    BY Zenon DEF Nowhere
  <2>0. \A x \in In(new, m) : \E i \in 1..Len(new[m]) : new[m][i] = x
    BY <1>5, InFacts, Zenon
  <2>1. PICK i \in 1..Len(new[m]) : new[m][i] = b
    BY <2>0, Zenon
  <2>2. m = n /\ Old(m, i) = k
    <3>1. /\ Old(m, i) \in 1..Len(qs[m]) /\ k \in 1..Len(qs[n])
          /\ qs[m][Old(m, i)] = qs[n][k]
      BY <2>1, <1>1, <1>6, Zenon DEF k, q
    <3> QED BY <3>1, Zenon DEF Once
  <2> QED BY <2>2, <1>6, Zenon
<1>10. In(new, n) \subseteq In(qs, n)
  <2> SUFFICES ASSUME NEW x \in In(new, n) PROVE x \in In(qs, n)
    BY Zenon
  <2>1. PICK i \in 1..Len(new[n]) : new[n][i] = x
    BY <1>5, InFacts, Zenon
  <2> QED BY <2>1, <1>6, InFacts
<1>11. \A x \in In(qs, n) \ {b} : x \in In(new, n)
  <2> SUFFICES ASSUME NEW x \in In(qs, n) \ {b} PROVE x \in In(new, n)
    BY Zenon
  <2>1. PICK i \in 1..Len(q) : q[i] = x
    BY InFacts, Zenon DEF q
  <2>2. i # k
    BY <2>1, Zenon DEF k, q
  <2> DEFINE j == IF i < k THEN i ELSE i - 1
  <2>3. j \in 1..Len(new[n]) /\ new[n][j] = x
    BY <2>1, <2>2, <1>1, <1>2, <1>3, <1>4
  <2> QED BY <2>3, <1>5, InFacts, Zenon
<1>12. In(new, n) = In(qs, n) \ {b}
  BY <1>9, <1>10, <1>11, Zenon DEF Nowhere
<1> QED BY <1>3, <1>5, <1>7, <1>8, <1>9, <1>12, Zenon DEF new

\* Wake_Up moves a queue to the end of the run queue.
LEMMA WakeUpFacts ==
    ASSUME NEW qs \in QueuesType, Once(qs), NEW n \in Queues, n # "run"
    PROVE  /\ WakeUp(qs, n) \in QueuesType
           /\ Once(WakeUp(qs, n))
           /\ WakeUp(qs, n)[n] = <<>>
           /\ In(WakeUp(qs, n), "run") = In(qs, "run") \cup In(qs, n)
           /\ \A m \in Queues \ {n, "run"} : WakeUp(qs, n)[m] = qs[m]
<1> DEFINE new == WakeUp(qs, n)
           r == Len(qs["run"])
<1>0. "run" \in Queues
  BY Names, Zenon DEF Shared
<1>1. /\ new["run"] = qs["run"] \o qs[n]
      /\ new[n] = <<>>
      /\ \A m \in Queues \ {n, "run"} : new[m] = qs[m]
      /\ DOMAIN new = Queues
  BY <1>0, Zenon DEF WakeUp, QueuesType
<1>2. qs["run"] \in Seq(Threads) /\ qs[n] \in Seq(Threads) /\ r \in Nat /\ Len(qs[n]) \in Nat
  BY <1>0, InFacts, Zenon
<1>3. qs["run"] \o qs[n] \in Seq(Threads)
  BY <1>2, ConcatFacts, Zenon
<1>10. new \in QueuesType
  <2>1. \A m \in Queues : new[m] \in Seq(Threads)
    <3> HIDE DEF new
    <3>1. new[n] \in Seq(Threads) /\ new["run"] \in Seq(Threads)
      BY <1>1, <1>3
    <3>2. \A m \in Queues \ {n, "run"} : new[m] \in Seq(Threads)
      BY <1>1, InFacts, Zenon
    <3> QED BY <3>1, <3>2, Zenon
  <2>2. new = [m \in Queues |-> new[m]]
    BY Zenon DEF WakeUp, QueuesType
  <2> HIDE DEF new
  <2> QED BY <2>1, <2>2, Zenon DEF QueuesType
<1> HIDE DEF new, r
<1>4. /\ Len(new["run"]) = r + Len(qs[n])
      /\ \A i \in 1..(r + Len(qs[n])) : new["run"][i] = IF i <= r THEN qs["run"][i] ELSE qs[n][i - r]
  <2> DEFINE c == qs["run"] \o qs[n]
  <2>1. /\ Len(c) = r + Len(qs[n])
        /\ \A i \in 1..(r + Len(qs[n])) : c[i] = IF i <= r THEN qs["run"][i] ELSE qs[n][i - r]
    BY <1>2, ConcatFacts, Zenon DEF r
  <2>2. new["run"] = c
    BY <1>1, Zenon
  <2> HIDE DEF c
  <2> QED BY <2>1, <2>2, Zenon
<1> DEFINE From(m, i) == IF m = "run" /\ i > r THEN n ELSE m
           Old(m, i) == IF m = "run" /\ i > r THEN i - r ELSE i
<1>5. \A m \in Queues : \A i \in 1..Len(new[m]) :
         /\ From(m, i) \in Queues
         /\ Old(m, i) \in 1..Len(qs[From(m, i)])
         /\ new[m][i] = qs[From(m, i)][Old(m, i)]
         /\ m # n
  <2> SUFFICES ASSUME NEW m \in Queues, NEW i \in 1..Len(new[m])
               PROVE  /\ From(m, i) \in Queues
                      /\ Old(m, i) \in 1..Len(qs[From(m, i)])
                      /\ new[m][i] = qs[From(m, i)][Old(m, i)]
                      /\ m # n
    BY Zenon
  <2>1. CASE m = "run"
    <3>1. i \in 1..(r + Len(qs[n])) /\ i \in Int
      BY <2>1, <1>2, <1>4
    <3>2. CASE i <= r
      <4>1. new["run"][i] = qs["run"][i] /\ i \in 1..r
        BY <3>1, <3>2, <1>2, <1>4
      <4> QED BY <4>1, <3>1, <3>2, <2>1, <1>0, <1>2 DEF r
    <3>3. CASE i > r
      <4>1. new["run"][i] = qs[n][i - r] /\ i - r \in 1..Len(qs[n])
        BY <3>1, <3>3, <1>2, <1>4
      <4> QED BY <4>1, <3>3, <2>1, Zenon
    <3> QED BY <3>1, <3>2, <3>3, <1>2
  <2>2. CASE m = n
    BY <2>2, <1>1
  <2>3. CASE m \notin {n, "run"}
    BY <2>3, <1>1, Zenon
  <2> QED BY <2>1, <2>2, <2>3, Zenon
<1>6. Once(new)
  <2> SUFFICES ASSUME NEW c \in Queues, NEW d \in Queues,
                      NEW i \in 1..Len(new[c]), NEW j \in 1..Len(new[d]),
                      new[c][i] = new[d][j]
               PROVE  c = d /\ i = j
    BY Zenon DEF Once
  <2>1. /\ From(c, i) \in Queues /\ From(d, j) \in Queues
        /\ Old(c, i) \in 1..Len(qs[From(c, i)]) /\ Old(d, j) \in 1..Len(qs[From(d, j)])
        /\ qs[From(c, i)][Old(c, i)] = qs[From(d, j)][Old(d, j)]
        /\ c # n /\ d # n
    <3> HIDE DEF From, Old
    <3>1. /\ From(c, i) \in Queues /\ Old(c, i) \in 1..Len(qs[From(c, i)])
          /\ new[c][i] = qs[From(c, i)][Old(c, i)] /\ c # n
      BY <1>5, Zenon
    <3>2. /\ From(d, j) \in Queues /\ Old(d, j) \in 1..Len(qs[From(d, j)])
          /\ new[d][j] = qs[From(d, j)][Old(d, j)] /\ d # n
      BY <1>5, Zenon
    <3> QED BY <3>1, <3>2, Zenon
  <2>2. From(c, i) = From(d, j) /\ Old(c, i) = Old(d, j)
    <3> HIDE DEF From, Old
    <3> QED BY <2>1 DEF Once
  <2>3. i \in Int /\ j \in Int
    BY <1>10, InFacts
  <2> QED BY <2>1, <2>2, <2>3, <1>2
<1>7. In(new, "run") \subseteq In(qs, "run") \cup In(qs, n)
  <2> SUFFICES ASSUME NEW x \in In(new, "run") PROVE x \in In(qs, "run") \cup In(qs, n)
    BY Zenon
  <2>1. PICK i \in 1..Len(new["run"]) : new["run"][i] = x
    BY <1>0, <1>10, InFacts, Zenon
  <2> QED BY <2>1, <1>0, <1>5, InFacts
<1>8. \A x \in In(qs, "run") : x \in In(new, "run")
  <2> SUFFICES ASSUME NEW x \in In(qs, "run") PROVE x \in In(new, "run")
    BY Zenon
  <2>1. PICK i \in 1..r : qs["run"][i] = x
    BY <1>0, InFacts, Zenon DEF r
  <2>2. i \in 1..Len(new["run"]) /\ new["run"][i] = x
    BY <2>1, <1>2, <1>4
  <2> QED BY <2>2, <1>0, <1>10, InFacts, Zenon
<1>9. \A x \in In(qs, n) : x \in In(new, "run")
  <2> SUFFICES ASSUME NEW x \in In(qs, n) PROVE x \in In(new, "run")
    BY Zenon
  <2>1. PICK i \in 1..Len(qs[n]) : qs[n][i] = x
    BY InFacts, Zenon
  <2>2. r + i \in 1..Len(new["run"]) /\ new["run"][r + i] = x
    BY <2>1, <1>2, <1>4
  <2> QED BY <2>2, <1>0, <1>10, InFacts, Zenon
<1> QED BY <1>1, <1>10, <1>6, <1>7, <1>8, <1>9, Zenon DEF new

\* Wake_Up_One moves one thread, if there is one.
LEMMA WakeUpOneFacts ==
    ASSUME NEW qs \in QueuesType, Once(qs), NEW n \in Queues, n # "run"
    PROVE  /\ WakeUpOne(qs, n) \in QueuesType
           /\ Once(WakeUpOne(qs, n))
           /\ In(qs, n) = {} => WakeUpOne(qs, n) = qs
           /\ In(qs, n) # {} =>
                 \E b \in In(qs, n) : /\ In(WakeUpOne(qs, n), n) = In(qs, n) \ {b}
                                      /\ In(WakeUpOne(qs, n), "run") = In(qs, "run") \cup {b}
           /\ \A m \in Queues \ {n, "run"} : WakeUpOne(qs, n)[m] = qs[m]
<1>0. "run" \in Queues
  BY Names, Zenon DEF Shared
<1>1. CASE qs[n] = <<>>
  <2>1. WakeUpOne(qs, n) = qs /\ In(qs, n) = {}
    BY <1>1, InFacts, Zenon DEF WakeUpOne
  <2> QED BY <2>1, Zenon
<1>2. CASE qs[n] # <<>>
  <2> DEFINE b == qs[n][FindBest(qs[n])]
             mid == RemoveBest(qs, n)
             new == Enqueue(mid, "run", b)
  <2>1. WakeUpOne(qs, n) = new
    BY <1>2, Zenon DEF WakeUpOne
  <2>2. /\ b \in In(qs, n) /\ mid \in QueuesType /\ Once(mid) /\ Nowhere(mid, b)
        /\ In(mid, n) = In(qs, n) \ {b}
        /\ \A m \in Queues \ {n} : mid[m] = qs[m]
    BY <1>2, RemoveBestFacts
  <2>3. b \in Threads
    BY <2>2, InFacts, Zenon
  <2> HIDE DEF b, mid
  <2>4. /\ new \in QueuesType /\ Once(new)
        /\ In(new, "run") = In(mid, "run") \cup {b}
        /\ \A m \in Queues \ {"run"} : new[m] = mid[m]
    BY <1>0, <2>2, <2>3, EnqueueFacts
  <2> HIDE DEF new
  <2>5. In(mid, "run") = In(qs, "run") /\ In(new, n) = In(mid, n)
    BY <1>0, <2>2, <2>4, Zenon DEF In
  <2> QED BY <2>1, <2>2, <2>4, <2>5, Zenon
<1> QED BY <1>1, <1>2, Zenon

\* Detach_Thread, and Reap_Thread for the last reference.
LEMMA DetachFacts ==
    ASSUME NEW qs \in QueuesType, Once(qs), NEW t \in Threads,
           refCount[t] = 1 => Nowhere(qs, t),
           NEW new, new = Detach(qs, t).queue
    PROVE  /\ new \in QueuesType /\ Once(new)
           /\ refCount[t] # 1 => new = qs
           /\ refCount[t] = 1 =>
                 /\ In(new, "graveyard") = In(qs, "graveyard") \cup {t}
                 /\ In(new, "run") = In(qs, "run") \cup In(qs, "reaper")
                 /\ In(new, "reaper") = {}
           /\ \A m \in Queues \ {"graveyard", "run", "reaper"} : In(new, m) = In(qs, m)
<1>1. CASE refCount[t] # 1
  BY <1>1, Zenon DEF Detach
<1>2. CASE refCount[t] = 1
  <2> DEFINE mid == Enqueue(qs, "graveyard", t)
  <2>1. new = WakeUp(mid, "reaper")
    BY <1>2, Zenon DEF Detach
  <2>2. "graveyard" \in Queues /\ "reaper" \in Queues /\ "run" \in Queues
    BY Names, Zenon DEF Shared
  <2>3. /\ mid \in QueuesType /\ Once(mid)
        /\ In(mid, "graveyard") = In(qs, "graveyard") \cup {t}
        /\ \A m \in Queues \ {"graveyard"} : mid[m] = qs[m]
    BY <1>2, <2>2, EnqueueFacts, Zenon
  <2> HIDE DEF mid
  <2>4. /\ new \in QueuesType /\ Once(new)
        /\ new["reaper"] = <<>>
        /\ In(new, "run") = In(mid, "run") \cup In(mid, "reaper")
        /\ \A m \in Queues \ {"reaper", "run"} : new[m] = mid[m]
    BY <2>1, <2>2, <2>3, WakeUpFacts
  <2>5. In(new, "reaper") = {}
    BY <2>2, <2>4, InFacts, Zenon
  <2>6. /\ \A m \in Queues \ {"graveyard"} : In(mid, m) = In(qs, m)
        /\ \A m \in Queues \ {"reaper", "run"} : In(new, m) = In(mid, m)
    BY <2>3, <2>4, Zenon DEF In
  <2> QED BY <1>2, <2>1, <2>2, <2>3, <2>4, <2>5, <2>6, Zenon
<1> QED BY <1>1, <1>2, Zenon

\* Schedule with a thread to run.
LEMMA ScheduleFacts ==
    ASSUME NEW qs \in QueuesType, Once(qs), Idle \in In(qs, "run"), Schedule(qs)
    PROVE  /\ cur' \in In(qs, "run") /\ cur' \in Threads
           /\ queue' \in QueuesType /\ Once(queue') /\ Nowhere(queue', cur')
           /\ In(queue', "run") = In(qs, "run") \ {cur'}
           /\ \A m \in Queues \ {"run"} : queue'[m] = qs[m] /\ In(queue', m) = In(qs, m)
<1>1. "run" \in Queues
  BY Names, Zenon DEF Shared
<1>2. qs["run"] # <<>>
  BY <1>1, InFacts, Zenon
<1>3. cur' = qs["run"][FindBest(qs["run"])] /\ queue' = RemoveBest(qs, "run")
  BY Zenon DEF Schedule
<1>4. /\ cur' \in In(qs, "run")
      /\ queue' \in QueuesType /\ Once(queue') /\ Nowhere(queue', cur')
      /\ In(queue', "run") = In(qs, "run") \ {cur'}
      /\ \A m \in Queues \ {"run"} : queue'[m] = qs[m]
  BY <1>1, <1>2, <1>3, RemoveBestFacts
<1> QED BY <1>1, <1>4, InFacts, Zenon DEF In

\* A thread joins the queue n and gives up the processor.
LEMMA SwitchFacts ==
    ASSUME NEW qs \in QueuesType, Once(qs), NEW n \in Queues,
           cur \in Threads, Nowhere(qs, cur),
           Idle \in In(qs, "run") \/ (cur = Idle /\ n = "run"),
           Schedule(Enqueue(qs, n, cur))
    PROVE  /\ cur' \in In(qs, "run") \/ (n = "run" /\ cur' = cur)
           /\ cur' \in Threads
           /\ queue' \in QueuesType /\ Once(queue') /\ Nowhere(queue', cur')
           /\ n = "run" => In(queue', "run") = (In(qs, "run") \cup {cur}) \ {cur'}
           /\ n # "run" => /\ In(queue', "run") = In(qs, "run") \ {cur'}
                           /\ In(queue', n) = In(qs, n) \cup {cur}
           /\ \A m \in Queues \ {"run", n} : In(queue', m) = In(qs, m)
<1> DEFINE mid == Enqueue(qs, n, cur)
<1>1. "run" \in Queues
  BY Names, Zenon DEF Shared
<1>2. /\ mid \in QueuesType /\ Once(mid)
      /\ In(mid, n) = In(qs, n) \cup {cur}
      /\ \A m \in Queues \ {n} : mid[m] = qs[m]
  BY EnqueueFacts
<1>3. Schedule(mid)
  BY Zenon
<1> HIDE DEF mid
<1>4. \A m \in Queues \ {n} : In(mid, m) = In(qs, m)
  BY <1>2, Zenon DEF In
<1>5. Idle \in In(mid, "run")
  BY <1>1, <1>2, <1>4, Zenon
<1>6. /\ cur' \in In(mid, "run") /\ cur' \in Threads
      /\ queue' \in QueuesType /\ Once(queue') /\ Nowhere(queue', cur')
      /\ In(queue', "run") = In(mid, "run") \ {cur'}
      /\ \A m \in Queues \ {"run"} : In(queue', m) = In(mid, m)
  BY <1>2, <1>3, <1>5, ScheduleFacts, Zenon
<1> QED BY <1>1, <1>2, <1>4, <1>6, Zenon

Collected(qs) == [qs EXCEPT !["corpses"] = qs["graveyard"], !["graveyard"] = <<>>]

\* The reaper takes the graveyard for its own list.
LEMMA CollectFacts ==
    ASSUME NEW qs \in QueuesType, Once(qs)
    PROVE  /\ Collected(qs) \in QueuesType /\ Once(Collected(qs))
           /\ In(Collected(qs), "corpses") = In(qs, "graveyard")
           /\ In(Collected(qs), "graveyard") = {}
           /\ \A m \in Queues \ {"corpses", "graveyard"} : In(Collected(qs), m) = In(qs, m)
<1> DEFINE new == Collected(qs)
<1>1. "graveyard" \in Queues /\ "corpses" \in Queues
  BY Names, Zenon DEF Shared
<1>2. /\ new["corpses"] = qs["graveyard"] /\ new["graveyard"] = <<>>
      /\ \A m \in Queues \ {"corpses", "graveyard"} : new[m] = qs[m]
      /\ new = [m \in Queues |-> new[m]]
  BY <1>1, Zenon DEF QueuesType, Collected
<1> HIDE DEF new
<1>3. \A m \in Queues : new[m] \in Seq(Threads)
  <2>1. new["corpses"] \in Seq(Threads) /\ new["graveyard"] \in Seq(Threads)
    BY <1>1, <1>2, InFacts
  <2> QED BY <2>1, <1>2, InFacts, Zenon
<1>4. new \in QueuesType
  BY <1>2, <1>3, Zenon DEF QueuesType
<1> DEFINE From(m) == IF m = "corpses" THEN "graveyard" ELSE m
<1>5. \A m \in Queues : \A i \in 1..Len(new[m]) :
         From(m) \in Queues /\ m # "graveyard" /\ new[m] = qs[From(m)]
  BY <1>1, <1>2
<1>6. Once(new)
  <2> SUFFICES ASSUME NEW c \in Queues, NEW d \in Queues,
                      NEW i \in 1..Len(new[c]), NEW j \in 1..Len(new[d]),
                      new[c][i] = new[d][j]
               PROVE  c = d /\ i = j
    BY Zenon DEF Once
  <2>1. /\ From(c) \in Queues /\ From(d) \in Queues /\ c # "graveyard" /\ d # "graveyard"
        /\ i \in 1..Len(qs[From(c)]) /\ j \in 1..Len(qs[From(d)])
        /\ qs[From(c)][i] = qs[From(d)][j]
    BY <1>5, Zenon
  <2>2. From(c) = From(d) /\ i = j
    <3> HIDE DEF From
    <3> QED BY <2>1 DEF Once
  <2> QED BY <2>1, <2>2, Zenon
<1> QED BY <1>1, <1>2, <1>4, <1>6, InFacts, Zenon DEF In, new

\* The reaper takes the next thread off its list.
LEMMA TailFacts ==
    ASSUME NEW qs \in QueuesType, Once(qs), qs["corpses"] # <<>>,
           NEW new, new = [qs EXCEPT !["corpses"] = Tail(@)]
    PROVE  /\ new \in QueuesType /\ Once(new)
           /\ Head(qs["corpses"]) \in In(qs, "corpses")
           /\ In(new, "corpses") = In(qs, "corpses") \ {Head(qs["corpses"])}
           /\ \A m \in Queues \ {"corpses"} : In(new, m) = In(qs, m)
<1> DEFINE q == qs["corpses"]
<1>1. "corpses" \in Queues
  BY Names, Zenon DEF Shared
<1>2. q \in Seq(Threads) /\ Len(q) \in Nat /\ Len(q) >= 1
  BY <1>1, InFacts, Zenon
<1>3. /\ Tail(q) \in Seq(Threads) /\ Len(Tail(q)) = Len(q) - 1 /\ Head(q) = q[1]
      /\ \A i \in 1..(Len(q) - 1) : Tail(q)[i] = q[i + 1]
  BY <1>2
<1>4. /\ new["corpses"] = Tail(q)
      /\ \A m \in Queues \ {"corpses"} : new[m] = qs[m]
      /\ new \in QueuesType
  BY <1>1, <1>3, Zenon DEF QueuesType
<1> DEFINE Old(m, i) == IF m = "corpses" THEN i + 1 ELSE i
<1>5. \A m \in Queues : \A i \in 1..Len(new[m]) :
         /\ Old(m, i) \in 1..Len(qs[m])
         /\ new[m][i] = qs[m][Old(m, i)]
  <2> HIDE DEF q
  <2>0. \A i \in 1..(Len(q) - 1) : i + 1 \in 1..Len(q)
    BY <1>2
  <2>1. \A i \in 1..(Len(q) - 1) : new["corpses"][i] = q[i + 1]
    <3>1. new["corpses"] = Tail(q) /\ \A i \in 1..(Len(q) - 1) : Tail(q)[i] = q[i + 1]
      BY <1>3, <1>4, Zenon
    <3> QED BY <3>1, Zenon
  <2>2. Len(new["corpses"]) = Len(q) - 1
    BY <1>3, <1>4, Zenon
  <2> QED BY <2>0, <2>1, <2>2, <1>4, Zenon DEF q
<1> HIDE DEF q
<1>6. Once(new)
  <2> SUFFICES ASSUME NEW c \in Queues, NEW d \in Queues,
                      NEW i \in 1..Len(new[c]), NEW j \in 1..Len(new[d]),
                      new[c][i] = new[d][j]
               PROVE  c = d /\ i = j
    BY Zenon DEF Once
  <2>1. /\ Old(c, i) \in 1..Len(qs[c]) /\ Old(d, j) \in 1..Len(qs[d])
        /\ qs[c][Old(c, i)] = qs[d][Old(d, j)]
    BY <1>5
  <2>2. c = d /\ Old(c, i) = Old(d, j)
    <3> HIDE DEF Old
    <3> QED BY <2>1 DEF Once
  <2>3. i \in Int /\ j \in Int
    BY <1>4, InFacts
  <2> QED BY <2>2, <2>3
<1>7. 1 \in 1..Len(q) /\ Head(q) \in In(qs, "corpses")
  BY <1>1, <1>2, <1>3, InFacts DEF q
<1>8. In(new, "corpses") \subseteq In(qs, "corpses") \ {Head(q)}
  <2> SUFFICES ASSUME NEW x \in In(new, "corpses") PROVE x \in In(qs, "corpses") /\ x # Head(q)
    BY Zenon
  <2>1. PICK i \in 1..Len(new["corpses"]) : new["corpses"][i] = x
    <3>1. \E i \in 1..Len(new["corpses"]) : new["corpses"][i] = x
      BY <1>1, <1>4, InFacts, Zenon
    <3> QED BY <3>1, Zenon
  <2>2. i \in 1..(Len(q) - 1) /\ x = Tail(q)[i]
    BY <2>1, <1>3, <1>4, Zenon
  <2>3. i + 1 \in 1..Len(q) /\ q[i + 1] = x /\ i + 1 # 1
    BY <2>2, <1>2, <1>3
  <2>4. x # q[1]
    BY <2>3, <1>1, <1>7, Zenon DEF Once, q
  <2>5. x \in In(qs, "corpses")
    BY <2>3, <1>1, InFacts, Zenon DEF q
  <2> QED BY <2>4, <2>5, <1>3, Zenon
<1>9. \A x \in In(qs, "corpses") \ {Head(q)} : x \in In(new, "corpses")
  <2> SUFFICES ASSUME NEW x \in In(qs, "corpses") \ {Head(q)} PROVE x \in In(new, "corpses")
    BY Zenon
  <2>1. PICK i \in 1..Len(q) : q[i] = x
    BY <1>1, InFacts, Zenon DEF q
  <2>2. i # 1
    BY <2>1, <1>3, Zenon
  <2>3. i - 1 \in 1..Len(new["corpses"]) /\ new["corpses"][i - 1] = x
    BY <2>1, <2>2, <1>2, <1>3, <1>4
  <2> QED BY <2>3, <1>1, <1>4, InFacts, Zenon
<1> QED BY <1>4, <1>6, <1>7, <1>8, <1>9, Zenon DEF In, q

-----------------------------------------------------------------------------
(* The inductive invariant *)

Locations == Preemptible \cup Critical \cup Suspended \cup NotRunning

Types ==
    /\ cur \in Threads
    /\ pc \in [Threads -> Locations]
    /\ queue \in QueuesType
    /\ preemptOff \in BOOLEAN
    /\ holder \in Threads \cup {NoThread}
    /\ inside \subseteq Threads
    /\ refCount \in [Threads -> Int]
    /\ owner \in [Threads -> Threads \cup {NoThread}]
    /\ arg \in [Threads -> Threads \cup {NoThread}]
    /\ handles \in [Threads -> SUBSET Workers]
    /\ keys \in Nat

\* A thread is in one queue at most, and the one its location calls for.
Linked ==
    /\ Once(queue)
    /\ Nowhere(queue, cur)
    /\ \A t \in In(queue, "run") : pc[t] \in Preemptible \cup Suspended
    /\ \A t \in In(queue, "mutex") : pc[t] = "lockwait"
    /\ \A t \in In(queue, "cond") : pc[t] = "condwait"
    /\ \A t \in In(queue, "key") : pc[t] = "key"
    /\ \A t \in In(queue, "reaper") : pc[t] = "reap"
    /\ \A t \in In(queue, "graveyard") \cup In(queue, "corpses") : pc[t] = "dead" /\ refCount[t] = 0
    /\ \A k \in Threads : \A t \in In(queue, k) : pc[t] = "join" /\ arg[t] = k

\* Who may be where: preemption is disabled for the running thread only, the idle
\* thread never waits, the reaper only reaps.
Roles ==
    /\ pc[cur] \notin NotRunning
    /\ \A t \in Threads : pc[t] \in Critical => t = cur
    /\ preemptOff <=> pc[cur] \in Critical
    /\ pc[Idle] = "run"
    /\ cur # Idle => Idle \in In(queue, "run")
    /\ \A t \in Threads : pc[t] \in {"reap", "destroy"} <=> t = Reaper
    /\ \A t \in Threads : pc[t] \in {"exiting", "dead", "free", "new"} => t \in Workers

\* The mutex is held by the thread that is in it, which is not on its way to it.
Holding ==
    /\ inside = {holder} \ {NoThread} /\ inside \subseteq Apps
    /\ \A t \in inside : pc[t] \in {"run", "alloc", "start", "join", "key", "unlock", "cwait"}
    /\ \A t \in Threads : pc[t] \in {"unlock", "cwait"} => t \in inside

\* A thread being created belongs to one creator.
Creating ==
    /\ \A t \in Threads : pc[t] = "start" => arg[t] \in Workers /\ pc[arg[t]] = "new"
    /\ \A t, u \in Threads : pc[t] = "start" /\ pc[u] = "start" /\ arg[t] = arg[u] => t = u

\* Who can still be joined has an owner and a reference for it, and one for
\* itself until it has finished.
References ==
    /\ \A t \in Threads : pc[t] \notin {"dead", "free"} => refCount[t] >= 1
    /\ \A t \in Threads : \A k \in handles[t] :
          /\ t \in Apps /\ owner[k] = t /\ pc[k] # "free"
          /\ refCount[k] >= 1 /\ (pc[k] # "dead" => refCount[k] >= 2)
    /\ \A t \in Threads : pc[t] = "join" => arg[t] \in handles[t]

Awake ==
    /\ holder = NoThread /\ In(queue, "mutex") # {} =>
          \E t \in Threads : \/ pc[t] = "lock"
                             \/ pc[t] = "lockwait" /\ t \notin In(queue, "mutex")
    /\ keys > 0 => In(queue, "key") = {}
    /\ \A t \in Threads : pc[t] = "dead" => In(queue, t) = {}
    /\ In(queue, "graveyard") # {} => In(queue, "reaper") = {}

\* A thread whose location calls for no queue is in none.
LEMMA InNoQueue ==
    ASSUME Types, Linked, NEW t \in Threads,
           pc[t] \in {"free", "new"} \/ (pc[t] = "dead" /\ refCount[t] # 0)
    PROVE  Nowhere(queue, t)
<1> SUFFICES ASSUME NEW n \in Queues, t \in In(queue, n) PROVE FALSE
  BY Zenon DEF Nowhere
<1>1. n \in Shared \/ n \in Threads
  BY Zenon DEF Queues
<1> QED BY <1>1, Zenon DEF Linked, Shared, Preemptible, Suspended

Inv == Types /\ Linked /\ Roles /\ Holding /\ Creating /\ References /\ Awake

-----------------------------------------------------------------------------
(* The thread goes on to another location. *)

Moves(l) ==
    /\ pc' = [pc EXCEPT ![cur] = l]
    /\ pc[cur] \in {"run", "lockwait", "condwait", "alloc", "destroy", "key"}
    /\ l \in {"lock", "unlock", "cwait", "alloc", "run", "exiting", "reap"}
    /\ pc[cur] = "run" => cur \in Apps
    /\ pc[cur] \in {"lockwait", "condwait"} => l = "lock"
    /\ l = "reap" <=> pc[cur] = "destroy"
    /\ l \in {"unlock", "cwait"} => cur \in inside
    /\ l \in {"lock", "exiting"} => cur \notin inside
    /\ l = "exiting" => cur \in Workers
    /\ preemptOff' \in BOOLEAN /\ (preemptOff' <=> l \in Critical)
    /\ keys' \in Nat /\ (keys' > 0 => keys > 0)
    /\ UNCHANGED <<cur, queue, holder, inside, refCount, owner, arg, handles>>

\* A thread that moves on and touches no queue keeps the invariant.
LEMMA MovesStep == ASSUME NEW l PROVE Inv /\ Moves(l) => Inv'
<1> SUFFICES ASSUME Types, Linked, Roles, Holding, Creating, References, Awake, Moves(l)
             PROVE  Inv'
  BY Zenon DEF Inv
<1>a. /\ pc' = [pc EXCEPT ![cur] = l]
      /\ pc[cur] \in {"run", "lockwait", "condwait", "alloc", "destroy", "key"}
      /\ l \in {"lock", "unlock", "cwait", "alloc", "run", "exiting", "reap"}
      /\ pc[cur] = "run" => cur \in Apps
      /\ pc[cur] \in {"lockwait", "condwait"} => l = "lock"
      /\ l = "reap" <=> pc[cur] = "destroy"
      /\ l \in {"unlock", "cwait"} => cur \in inside
      /\ l \in {"lock", "exiting"} => cur \notin inside
      /\ l = "exiting" => cur \in Workers
      /\ UNCHANGED <<cur, queue, holder, inside, refCount, owner, arg, handles>>
  BY Zenon DEF Moves
<1>b. /\ preemptOff' \in BOOLEAN /\ (preemptOff' <=> l \in Critical)
      /\ keys' \in Nat /\ (keys' > 0 => keys > 0)
  BY Zenon DEF Moves
<1>1. Types'
  BY <1>a, <1>b, Names, Zenon DEF Types, Locations, Preemptible, Critical, Suspended, NotRunning
<1>2. Linked'
  BY <1>a, <1>b, Names DEF Types, Linked, Roles, References, Nowhere, Shared, Preemptible, Suspended, Critical, NotRunning
<1>3. Roles'
  BY <1>a, <1>b, Names DEF Types, Linked, Roles, Holding, Preemptible, Suspended, Critical, NotRunning
<1>4. Holding'
  BY <1>a, <1>b, Names DEF Types, Roles, Holding
<1>5. Creating'
  BY <1>a, <1>b, Names DEF Types, Roles, Creating, Critical, NotRunning
<1>6. References'
  BY <1>a, <1>b, Names DEF Types, Roles, References, Critical, NotRunning
<1>7. Awake'
  BY <1>a, <1>b, Names DEF Types, Linked, Roles, Awake, Nowhere, Shared, Critical, NotRunning
<1> QED BY <1>1, <1>2, <1>3, <1>4, <1>5, <1>6, <1>7, Zenon DEF Inv

\* Mutex_Lock.
LEMMA MutexLockStep == Inv /\ MutexLock => Inv'
<1> SUFFICES ASSUME Inv, MutexLock PROVE Inv'
  BY Zenon
<1>1. Moves("lock")
  BY Names, Zenon DEF Moves, MutexLock, Goto, At, threadVars, Critical, Inv, Types
<1> QED BY <1>1, MovesStep, Zenon

\* The thread has been woken and tests the mutex again.
LEMMA MutexRetryStep == Inv /\ MutexRetry => Inv'
<1> SUFFICES ASSUME Inv, MutexRetry PROVE Inv'
  BY Zenon
<1>1. Moves("lock")
  BY Names, Zenon DEF Moves, MutexRetry, Goto, At, threadVars, Critical, Inv, Types, Holding
<1> QED BY <1>1, MovesStep, Zenon

\* Mutex_Unlock.
LEMMA MutexUnlockStep == Inv /\ MutexUnlock => Inv'
<1> SUFFICES ASSUME Inv, MutexUnlock PROVE Inv'
  BY Zenon
<1>1. Moves("unlock")
  BY Names, Zenon DEF Moves, MutexUnlock, Goto, At, threadVars, Critical, Inv, Types, Holding
<1> QED BY <1>1, MovesStep, Zenon

\* Cond_Wait.
LEMMA CondWaitStep == Inv /\ CondWait => Inv'
<1> SUFFICES ASSUME Inv, CondWait PROVE Inv'
  BY Zenon
<1>1. Moves("cwait")
  BY Names, Zenon DEF Moves, CondWait, Goto, At, threadVars, Critical, Inv, Types, Holding
<1> QED BY <1>1, MovesStep, Zenon

\* A key is there.
LEMMA GetKeyStep == Inv /\ GetKey => Inv'
<1> SUFFICES ASSUME Inv, GetKey PROVE Inv'
  BY Zenon
<1>1. Moves("run")
  BY Names DEF Moves, GetKey, Goto, At, threadVars, Critical, Inv, Types, Roles, Suspended
<1> QED BY <1>1, MovesStep, Zenon

\* Create_Thread allocates the object.
LEMMA AllocObjectStep == Inv /\ AllocObject => Inv'
<1> SUFFICES ASSUME Inv, AllocObject PROVE Inv'
  BY Zenon
<1>1. Moves("alloc")
  BY Names, Zenon DEF Moves, AllocObject, Goto, At, threadVars, Critical, Inv, Types, Roles
<1> QED BY <1>1, MovesStep, Zenon

\* Create_Thread fails.
LEMMA AllocFailsStep == Inv /\ AllocFails => Inv'
<1> SUFFICES ASSUME Inv, AllocFails PROVE Inv'
  BY Zenon
<1>1. Moves("run")
  BY Names, Zenon DEF Moves, AllocFails, Goto, At, threadVars, Critical, Inv, Types, Roles
<1> QED BY <1>1, MovesStep, Zenon

\* Exit begins.
LEMMA ExitStep == Inv /\ Exit => Inv'
<1> SUFFICES ASSUME Inv, Exit PROVE Inv'
  BY Zenon
<1>1. Moves("exiting")
  BY Names, Zenon DEF Moves, Exit, Goto, At, threadVars, Critical, Inv, Types, Roles
<1> QED BY <1>1, MovesStep, Zenon

\* The reaper has destroyed all it took.
LEMMA ReaperRepeatsStep == Inv /\ ReaperRepeats => Inv'
<1> SUFFICES ASSUME Inv, ReaperRepeats PROVE Inv'
  BY Zenon
<1>1. Moves("reap")
  BY Names, Zenon DEF Moves, ReaperRepeats, Goto, At, threadVars, Critical, Inv, Types, Roles
<1> QED BY <1>1, MovesStep, Zenon

-----------------------------------------------------------------------------
(* The thread waits for an event. *)

Waits(n, l) ==
    /\ pc' = [pc EXCEPT ![cur] = l]
    /\ Schedule(Enqueue(queue, n, cur))
    /\ \/ n = "mutex" /\ l = "lockwait" /\ pc[cur] = "lock" /\ holder # NoThread
       \/ n = "cond" /\ l = "condwait" /\ pc[cur] = "cblock"
       \/ n = "key" /\ l = "key" /\ pc[cur] \in {"run", "key"} /\ cur \in Apps /\ keys = 0
       \/ n = "reaper" /\ l = "reap" /\ pc[cur] = "reap" /\ In(queue, "graveyard") = {}
    /\ preemptOff' = FALSE
    /\ UNCHANGED <<holder, inside, refCount, owner, arg, handles, keys>>

\* A thread that waits for what has not happened yet keeps the invariant.
LEMMA WaitsStep == ASSUME NEW n, NEW l PROVE Inv /\ Waits(n, l) => Inv'
<1> SUFFICES ASSUME Types, Linked, Roles, Holding, Creating, References, Awake, Waits(n, l)
             PROVE  Inv'
  BY Zenon DEF Inv
<1>a. /\ pc' = [pc EXCEPT ![cur] = l] /\ preemptOff' = FALSE
      /\ \/ n = "mutex" /\ l = "lockwait" /\ pc[cur] = "lock" /\ holder # NoThread
         \/ n = "cond" /\ l = "condwait" /\ pc[cur] = "cblock"
         \/ n = "key" /\ l = "key" /\ pc[cur] \in {"run", "key"} /\ cur \in Apps /\ keys = 0
         \/ n = "reaper" /\ l = "reap" /\ pc[cur] = "reap" /\ In(queue, "graveyard") = {}
      /\ UNCHANGED <<holder, inside, refCount, owner, arg, handles, keys>>
  BY Zenon DEF Waits
<1>b. Idle \in In(queue, "run") /\ n \in Queues /\ n \in Shared \ {"run"} /\ cur # Idle
  BY <1>a, Names DEF Types, Roles, Shared
<1>c. /\ cur' \in In(queue, "run") /\ cur' \in Threads
      /\ queue' \in QueuesType /\ Once(queue') /\ Nowhere(queue', cur')
      /\ In(queue', "run") = In(queue, "run") \ {cur'}
      /\ In(queue', n) = In(queue, n) \cup {cur}
      /\ \A m \in Queues \ {"run", n} : In(queue', m) = In(queue, m)
  <2>1. Schedule(Enqueue(queue, n, cur))
    BY Zenon DEF Waits
  <2> QED BY <1>b, <2>1, SwitchFacts DEF Types, Linked
<1>1. Types'
  BY <1>a, <1>b, <1>c, Names, Zenon DEF Types, Locations, Preemptible, Critical, Suspended, NotRunning
<1>2. Linked'
  BY <1>a, <1>b, <1>c, Names DEF Types, Linked, Roles, References, Nowhere, Shared, Preemptible, Suspended, Critical, NotRunning
<1>3. Roles'
  BY <1>a, <1>b, <1>c, Names DEF Types, Linked, Roles, Holding, Preemptible, Suspended, Critical, NotRunning
<1>4. Holding'
  BY <1>a, <1>b, <1>c, Names DEF Types, Roles, Holding
<1>5. Creating'
  BY <1>a, <1>b, <1>c, Names DEF Types, Roles, Creating, Critical, NotRunning
<1>6. References'
  BY <1>a, <1>b, <1>c, Names DEF Types, Roles, References, Critical, NotRunning
<1>7. Awake'
  BY <1>a, <1>b, <1>c, Names DEF Types, Linked, Roles, Awake, Nowhere, Shared, Critical, NotRunning
<1> QED BY <1>1, <1>2, <1>3, <1>4, <1>5, <1>6, <1>7, Zenon DEF Inv

\* Mutex_Wait.
LEMMA MutexWaitStep == Inv /\ MutexWait => Inv'
<1> SUFFICES ASSUME Inv, MutexWait PROVE Inv'
  BY Zenon
<1>1. Waits("mutex", "lockwait")
  BY Names, Zenon DEF Waits, MutexWait, WaitOn, Goto, At, threadVars
<1> QED BY <1>1, WaitsStep, Zenon

\* The wait in Cond_Wait.
LEMMA CondBlockStep == Inv /\ CondBlock => Inv'
<1> SUFFICES ASSUME Inv, CondBlock PROVE Inv'
  BY Zenon
<1>1. Waits("cond", "condwait")
  BY Names, Zenon DEF Waits, CondBlock, WaitOn, Goto, At, threadVars
<1> QED BY <1>1, WaitsStep, Zenon

\* Wait_For_Key finds no key.
LEMMA WaitForKeyStep == Inv /\ WaitForKey => Inv'
<1> SUFFICES ASSUME Inv, WaitForKey PROVE Inv'
  BY Zenon
<1>1. Waits("key", "key")
  BY Names DEF Waits, WaitForKey, WaitOn, Goto, At, threadVars, Inv, Roles, Critical
<1> QED BY <1>1, WaitsStep, Zenon

\* The reaper finds the graveyard empty.
LEMMA ReaperWaitStep == Inv /\ ReaperWait => Inv'
<1> SUFFICES ASSUME Inv, ReaperWait PROVE Inv'
  BY Zenon
<1>1. "graveyard" \in Queues
  BY Names, Zenon DEF Shared
<1>2. In(queue, "graveyard") = {}
  BY <1>1, InFacts, Zenon DEF ReaperWait, Inv, Types
<1>3. preemptOff' = FALSE
  BY Zenon DEF ReaperWait, At, Inv, Types, Roles, Critical
<1>4. Waits("reaper", "reap")
  BY <1>2, <1>3, Zenon DEF Waits, ReaperWait, WaitOn, Goto, At, threadVars
<1> QED BY <1>4, WaitsStep, Zenon

-----------------------------------------------------------------------------
(* The processor is given to another thread. *)

\* The threads of woken, which waited for a key or are none, have become runnable.
Switches(woken) ==
    /\ cur' = cur \/ (~ preemptOff /\ cur' \in In(queue, "run") \cup woken)
    /\ cur' \in Threads
    /\ queue' \in QueuesType /\ Once(queue') /\ Nowhere(queue', cur')
    /\ In(queue', "run") = (In(queue, "run") \cup woken \cup {cur}) \ {cur'}
    /\ \/ woken = {} /\ In(queue', "key") = In(queue, "key") /\ keys' = keys
       \/ woken = In(queue, "key") /\ In(queue', "key") = {} /\ keys' \in Nat
    /\ \A m \in Queues \ {"run", "key"} : In(queue', m) = In(queue, m)
    /\ pc[cur] \notin Suspended \/ cur' = cur
    /\ UNCHANGED <<pc, preemptOff, holder, inside, refCount, owner, arg, handles>>

\* A thread that is preempted keeps the invariant.
LEMMA SwitchesStep == ASSUME NEW woken PROVE Inv /\ Switches(woken) => Inv'
<1> SUFFICES ASSUME Types, Linked, Roles, Holding, Creating, References, Awake, Switches(woken)
             PROVE  Inv'
  BY Zenon DEF Inv
<1>a. /\ cur' = cur \/ (~ preemptOff /\ cur' \in In(queue, "run") \cup woken)
      /\ cur' \in Threads
      /\ queue' \in QueuesType /\ Once(queue') /\ Nowhere(queue', cur')
      /\ In(queue', "run") = (In(queue, "run") \cup woken \cup {cur}) \ {cur'}
      /\ \A m \in Queues \ {"run", "key"} : In(queue', m) = In(queue, m)
      /\ pc[cur] \notin Suspended \/ cur' = cur
      /\ UNCHANGED <<pc, preemptOff, holder, inside, refCount, owner, arg, handles>>
  BY Zenon DEF Switches
<1>b. \/ woken = {} /\ In(queue', "key") = In(queue, "key") /\ keys' = keys
      \/ woken = In(queue, "key") /\ In(queue', "key") = {} /\ keys' \in Nat
  BY Zenon DEF Switches
<1>c. \A t \in woken : pc[t] = "key"
  BY <1>b DEF Linked
<1>d. cur' # cur => pc[cur] \in Preemptible
  BY <1>a, Zenon DEF Types, Roles, Locations
<1>e. {"run", "key"} \subseteq Queues
  BY Names, Zenon DEF Shared
<1>1. Types'
  BY <1>a, <1>b, <1>c, <1>d, <1>e, Names, Zenon DEF Types, Locations, Preemptible, Critical, Suspended, NotRunning
<1>2. Linked'
  BY <1>a, <1>b, <1>c, <1>d, <1>e, Names DEF Types, Linked, Roles, References, Nowhere, Shared, Preemptible, Suspended, Critical, NotRunning
<1>3. Roles'
  BY <1>a, <1>b, <1>c, <1>d, <1>e, Names, Zenon DEF Types, Linked, Roles, Holding, Preemptible, Suspended, Critical, NotRunning
<1>4. Holding'
  BY <1>a, <1>b, <1>c, <1>d, <1>e, Names, Zenon DEF Types, Roles, Holding
<1>5. Creating'
  BY <1>a, <1>b, <1>c, <1>d, <1>e, Names DEF Types, Roles, Creating, Critical, NotRunning
<1>6. References'
  BY <1>a, <1>b, <1>c, <1>d, <1>e, Names DEF Types, Roles, References, Critical, NotRunning
<1>7. Awake'
  BY <1>a, <1>b, <1>c, <1>d, <1>e, Names DEF Types, Linked, Roles, Awake, Nowhere, Shared, Critical, NotRunning
<1> QED BY <1>1, <1>2, <1>3, <1>4, <1>5, <1>6, <1>7, Zenon DEF Inv

\* Yield.
LEMMA YieldStep == Inv /\ Yield => Inv'
<1> SUFFICES ASSUME Inv, Yield PROVE Inv'
  BY Zenon
<1>1. Switches({})
  <2>1. pc[cur] = "run" /\ UNCHANGED <<pc, preemptOff, holder, inside, refCount, owner, arg, handles, keys>>
    BY Zenon DEF Yield, At, threadVars
  <2>2. Schedule(Enqueue(queue, "run", cur))
    BY Zenon DEF Yield
  <2>3. ~ preemptOff /\ pc[cur] \notin Suspended
    BY <2>1, Zenon DEF Inv, Roles, Critical, Suspended
  <2>4. {"run", "key"} \subseteq Queues /\ (Idle \in In(queue, "run") \/ cur = Idle)
    BY Names, Zenon DEF Shared, Inv, Roles
  <2>5. /\ cur' \in In(queue, "run") \/ cur' = cur
        /\ cur' \in Threads
        /\ queue' \in QueuesType /\ Once(queue') /\ Nowhere(queue', cur')
        /\ In(queue', "run") = (In(queue, "run") \cup {cur}) \ {cur'}
        /\ \A m \in Queues \ {"run"} : In(queue', m) = In(queue, m)
    BY <2>2, <2>4, SwitchFacts DEF Inv, Types, Linked
  <2> QED BY <2>1, <2>3, <2>4, <2>5, Zenon DEF Switches
<1> QED BY <1>1, SwitchesStep, Zenon

\* A tick that ends the quantum.
LEMMA TickStep == Inv /\ Tick => Inv'
<1> SUFFICES ASSUME Inv, Tick PROVE Inv'
  BY Zenon
<1>1. /\ pc[cur] \notin Suspended /\ ReturnFromInterrupt(queue)
      /\ UNCHANGED <<pc, preemptOff, holder, inside, refCount, owner, arg, handles, keys>>
  BY Zenon DEF Tick, InterruptsEnabled, threadVars
<1>2. {"run", "key"} \subseteq Queues
  BY Names, Zenon DEF Shared
<1>3. CASE preemptOff
  <2>1. queue' = queue /\ cur' = cur
    BY <1>1, <1>3, Zenon DEF ReturnFromInterrupt
  <2>2. Switches({})
    BY <1>1, <1>2, <2>1 DEF Switches, Inv, Types, Linked, Nowhere
  <2> QED BY <2>2, SwitchesStep, Zenon
<1>4. CASE ~ preemptOff
  <2>1. Schedule(Enqueue(queue, "run", cur))
    BY <1>1, <1>4, Zenon DEF ReturnFromInterrupt
  <2>2. Idle \in In(queue, "run") \/ cur = Idle
    BY Zenon DEF Inv, Roles
  <2>3. /\ cur' \in In(queue, "run") \/ cur' = cur
        /\ cur' \in Threads
        /\ queue' \in QueuesType /\ Once(queue') /\ Nowhere(queue', cur')
        /\ In(queue', "run") = (In(queue, "run") \cup {cur}) \ {cur'}
        /\ \A m \in Queues \ {"run"} : In(queue', m) = In(queue, m)
    BY <1>2, <2>1, <2>2, SwitchFacts DEF Inv, Types, Linked
  <2>4. Switches({})
    BY <1>1, <1>2, <1>4, <2>3, Zenon DEF Switches
  <2> QED BY <2>4, SwitchesStep, Zenon
<1> QED BY <1>3, <1>4, Zenon

\* Keyboard_Interrupt_Handler.
LEMMA KeyInterruptStep == Inv /\ KeyInterrupt => Inv'
<1> SUFFICES ASSUME Inv, KeyInterrupt PROVE Inv'
  BY Zenon
<1> DEFINE mid == WakeUp(queue, "key")
<1>1. /\ pc[cur] \notin Suspended /\ ReturnFromInterrupt(mid)
      /\ UNCHANGED <<pc, preemptOff, holder, inside, refCount, owner, arg, handles>>
  BY Zenon DEF KeyInterrupt, InterruptsEnabled, threadVars
<1>2. "run" \in Queues /\ "key" \in Queues /\ keys' \in Nat
  BY Names DEF Shared, KeyInterrupt, Inv, Types
<1>3. /\ mid \in QueuesType /\ Once(mid) /\ mid["key"] = <<>>
      /\ In(mid, "run") = In(queue, "run") \cup In(queue, "key")
      /\ \A m \in Queues \ {"key", "run"} : mid[m] = queue[m]
  BY <1>2, WakeUpFacts DEF Inv, Types, Linked
<1> HIDE DEF mid
<1>4. /\ In(mid, "key") = {}
      /\ \A m \in Queues \ {"key", "run"} : In(mid, m) = In(queue, m)
  BY <1>2, <1>3, InFacts, Zenon DEF In
<1>5. Nowhere(mid, cur)
  BY <1>2, <1>3, <1>4, Zenon DEF Nowhere, Inv, Linked
<1>6. CASE preemptOff
  <2>1. queue' = mid /\ cur' = cur
    BY <1>1, <1>6, Zenon DEF ReturnFromInterrupt
  <2>2. cur \notin In(mid, "run")
    BY <1>2, <1>5, Zenon DEF Nowhere
  <2>3. Switches(In(queue, "key"))
    BY <1>1, <1>2, <1>3, <1>4, <1>5, <2>1, <2>2 DEF Switches, Inv, Types
  <2> QED BY <2>3, SwitchesStep, Zenon
<1>7. CASE ~ preemptOff
  <2>1. Schedule(Enqueue(mid, "run", cur))
    BY <1>1, <1>7, Zenon DEF ReturnFromInterrupt
  <2>2. cur \in Threads /\ (Idle \in In(mid, "run") \/ cur = Idle)
    BY <1>3, Zenon DEF Inv, Types, Roles
  <2>3. /\ cur' \in In(mid, "run") \/ cur' = cur
        /\ cur' \in Threads
        /\ queue' \in QueuesType /\ Once(queue') /\ Nowhere(queue', cur')
        /\ In(queue', "run") = (In(mid, "run") \cup {cur}) \ {cur'}
        /\ \A m \in Queues \ {"run"} : In(queue', m) = In(mid, m)
    BY <1>2, <1>3, <1>5, <2>1, <2>2, SwitchFacts
  <2>4. Switches(In(queue, "key"))
    BY <1>1, <1>2, <1>3, <1>4, <1>7, <2>3, Zenon DEF Switches
  <2> QED BY <2>4, SwitchesStep, Zenon
<1> QED BY <1>6, <1>7, Zenon

-----------------------------------------------------------------------------
(* The mutex is released. *)

Unlocks(l) ==
    /\ pc' = [pc EXCEPT ![cur] = l]
    /\ UnlockImp
    /\ \/ pc[cur] = "unlock" /\ l = "run" /\ preemptOff' = FALSE
       \/ pc[cur] = "cwait" /\ l = "cblock" /\ preemptOff' = preemptOff
    /\ UNCHANGED <<cur, refCount, owner, arg, handles, keys>>

\* A thread that releases the mutex keeps the invariant.
LEMMA UnlocksStep == ASSUME NEW l PROVE Inv /\ Unlocks(l) => Inv'
<1> SUFFICES ASSUME Types, Linked, Roles, Holding, Creating, References, Awake, Unlocks(l)
             PROVE  Inv'
  BY Zenon DEF Inv
<1>a. /\ pc' = [pc EXCEPT ![cur] = l]
      /\ \/ pc[cur] = "unlock" /\ l = "run" /\ preemptOff' = FALSE
         \/ pc[cur] = "cwait" /\ l = "cblock" /\ preemptOff' = preemptOff
      /\ holder' = NoThread /\ inside' = inside \ {cur}
      /\ queue' = WakeUpOne(queue, "mutex")
      /\ UNCHANGED <<cur, refCount, owner, arg, handles, keys>>
  BY Zenon DEF Unlocks, UnlockImp
<1>b. "mutex" \in Queues /\ "run" \in Queues
  BY Names, Zenon DEF Shared
<1>c. /\ queue' \in QueuesType /\ Once(queue')
      /\ In(queue, "mutex") = {} => queue' = queue
      /\ In(queue, "mutex") # {} =>
            \E b \in In(queue, "mutex") : /\ In(queue', "mutex") = In(queue, "mutex") \ {b}
                                         /\ In(queue', "run") = In(queue, "run") \cup {b}
      /\ \A m \in Queues \ {"mutex", "run"} : queue'[m] = queue[m]
  BY <1>a, <1>b, WakeUpOneFacts DEF Types, Linked
<1>d. \A m \in Queues \ {"mutex", "run"} : In(queue', m) = In(queue, m)
  BY <1>c, Zenon DEF In
<1>e. In(queue, "mutex") \subseteq Threads
  BY <1>b, InFacts, Zenon DEF Types
<1>1. Types'
  BY <1>a, <1>b, <1>c, <1>d, <1>e, Names, Zenon DEF Types, Locations, Preemptible, Critical, Suspended, NotRunning
<1>2. Linked'
  BY <1>a, <1>b, <1>c, <1>d, <1>e, Names DEF Types, Linked, Roles, References, Nowhere, Shared, Preemptible, Suspended, Critical, NotRunning
<1>3. Roles'
  BY <1>a, <1>b, <1>c, <1>d, <1>e, Names DEF Types, Linked, Roles, Holding, Preemptible, Suspended, Critical, NotRunning
<1>4. Holding'
  BY <1>a, <1>b, <1>c, <1>d, <1>e, Names DEF Types, Roles, Holding
<1>5. Creating'
  BY <1>a, <1>b, <1>c, <1>d, <1>e, Names DEF Types, Roles, Creating, Critical, NotRunning
<1>6. References'
  BY <1>a, <1>b, <1>c, <1>d, <1>e, Names DEF Types, Roles, References, Critical, NotRunning
<1>7. Awake'
  BY <1>a, <1>b, <1>c, <1>d, <1>e, Names DEF Types, Linked, Roles, Awake, Nowhere, Shared, Critical, NotRunning
<1> QED BY <1>1, <1>2, <1>3, <1>4, <1>5, <1>6, <1>7, Zenon DEF Inv

\* Mutex_Unlock_Imp in Mutex_Unlock.
LEMMA MutexReleaseStep == Inv /\ MutexRelease => Inv'
<1> SUFFICES ASSUME Inv, MutexRelease PROVE Inv'
  BY Zenon
<1>1. Unlocks("run")
  BY Zenon DEF Unlocks, MutexRelease, Goto, At, threadVars
<1> QED BY <1>1, UnlocksStep, Zenon

\* Mutex_Unlock_Imp in Cond_Wait.
LEMMA CondUnlockStep == Inv /\ CondUnlock => Inv'
<1> SUFFICES ASSUME Inv, CondUnlock PROVE Inv'
  BY Zenon
<1>1. Unlocks("cblock")
  BY Zenon DEF Unlocks, CondUnlock, Goto, At, threadVars
<1> QED BY <1>1, UnlocksStep, Zenon

\* Mutex_Lock_Imp takes the mutex.
LEMMA MutexTakeStep == Inv /\ MutexTake => Inv'
<1> SUFFICES ASSUME Types, Linked, Roles, Holding, Creating, References, Awake, MutexTake
             PROVE  Inv'
  BY Zenon DEF Inv
<1>a. /\ pc' = [pc EXCEPT ![cur] = "run"]
      /\ pc[cur] = "lock" /\ holder = NoThread
      /\ preemptOff' = FALSE
      /\ holder' = cur /\ inside' = inside \cup {cur}
      /\ UNCHANGED <<cur, queue, refCount, owner, arg, handles, keys>>
  BY Zenon DEF MutexTake, Goto, At, threadVars
<1>1. Types'
  BY <1>a, Names, Zenon DEF Types, Locations, Preemptible, Critical, Suspended, NotRunning
<1>2. Linked'
  BY <1>a, Names DEF Types, Linked, Roles, References, Nowhere, Shared, Preemptible, Suspended, Critical, NotRunning
<1>3. Roles'
  BY <1>a, Names DEF Types, Linked, Roles, Holding, Preemptible, Suspended, Critical, NotRunning
<1>4. Holding'
  BY <1>a, Names DEF Types, Roles, Holding
<1>5. Creating'
  BY <1>a, Names DEF Types, Roles, Creating, Critical, NotRunning
<1>6. References'
  BY <1>a, Names DEF Types, Roles, References, Critical, NotRunning
<1>7. Awake'
  BY <1>a, Names DEF Types, Linked, Roles, Awake, Nowhere, Shared, Critical, NotRunning
<1> QED BY <1>1, <1>2, <1>3, <1>4, <1>5, <1>6, <1>7, Zenon DEF Inv

\* Cond_Signal and Cond_Broadcast.
LEMMA CondNotifyStep == Inv /\ CondNotify => Inv'
<1> SUFFICES ASSUME Types, Linked, Roles, Holding, Creating, References, Awake, CondNotify
             PROVE  Inv'
  BY Zenon DEF Inv
<1>a. /\ queue' \in {WakeUpOne(queue, "cond"), WakeUp(queue, "cond")}
      /\ UNCHANGED <<cur, pc, preemptOff, holder, inside, refCount, owner, arg, handles, keys>>
  BY Zenon DEF CondNotify, threadVars
<1>b. "cond" \in Queues /\ "run" \in Queues
  BY Names, Zenon DEF Shared
<1>c. /\ queue' \in QueuesType /\ Once(queue')
      /\ \A m \in Queues \ {"cond", "run"} : queue'[m] = queue[m]
      /\ In(queue', "cond") \subseteq In(queue, "cond")
      /\ In(queue, "run") \subseteq In(queue', "run")
      /\ In(queue', "run") \subseteq In(queue, "run") \cup In(queue, "cond")
  <2>1. CASE queue' = WakeUpOne(queue, "cond")
    <3>1. CASE In(queue, "cond") = {}
      BY <1>b, <2>1, <3>1, WakeUpOneFacts, Zenon DEF Types, Linked
    <3>2. CASE In(queue, "cond") # {}
      BY <1>b, <2>1, <3>2, WakeUpOneFacts DEF Types, Linked
    <3> QED BY <3>1, <3>2, Zenon
  <2>2. CASE queue' = WakeUp(queue, "cond")
    <3>1. /\ queue' \in QueuesType /\ Once(queue') /\ queue'["cond"] = <<>>
          /\ In(queue', "run") = In(queue, "run") \cup In(queue, "cond")
          /\ \A m \in Queues \ {"cond", "run"} : queue'[m] = queue[m]
      BY <1>b, <2>2, WakeUpFacts DEF Types, Linked
    <3> QED BY <3>1, <1>b, InFacts, Zenon
  <2> QED BY <1>a, <2>1, <2>2, Zenon
<1>d. \A m \in Queues \ {"cond", "run"} : In(queue', m) = In(queue, m)
  BY <1>c, Zenon DEF In
<1>1. Types'
  BY <1>a, <1>b, <1>c, <1>d, Names, Zenon DEF Types, Locations, Preemptible, Critical, Suspended, NotRunning
<1>2. Linked'
  BY <1>a, <1>b, <1>c, <1>d, Names, SMTT(30) DEF Types, Linked, Roles, References, Nowhere, Shared, Preemptible, Suspended, Critical, NotRunning
<1>3. Roles'
  BY <1>a, <1>b, <1>c, <1>d, Names, Zenon DEF Types, Linked, Roles, Holding, Preemptible, Suspended, Critical, NotRunning
<1>4. Holding'
  BY <1>a, <1>b, <1>c, <1>d, Names, Zenon DEF Types, Roles, Holding
<1>5. Creating'
  BY <1>a, <1>b, <1>c, <1>d, Names, SMTT(30) DEF Types, Roles, Creating, Critical, NotRunning
<1>6. References'
  BY <1>a, <1>b, <1>c, <1>d, Names, SMTT(30) DEF Types, Roles, References, Critical, NotRunning
<1>7. Awake'
  BY <1>a, <1>b, <1>c, <1>d, Names, SMTT(30) DEF Types, Linked, Roles, Awake, Nowhere, Shared, Critical, NotRunning
<1> QED BY <1>1, <1>2, <1>3, <1>4, <1>5, <1>6, <1>7, Zenon DEF Inv

=============================================================================
