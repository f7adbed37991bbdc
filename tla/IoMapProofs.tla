---------------------------- MODULE IoMapProofs -----------------------------
(***************************************************************************)
(* The I/O port map for any set of ports: the pointers of the list stay    *)
(* consistent under any calls, and the list implements the partial         *)
(* function from ports to devices.                                         *)
(***************************************************************************)
EXTENDS IoMap, FiniteSetTheorems, TLAPS

-----------------------------------------------------------------------------
(* Walks along a list of hooks *)

Hook == [port : Ports \union {NoPort}, dev : Devs \union {NoDev},
         next : HookIds \union {NULL}, prev : HookIds \union {NULL}]

\* The hooks hk from hd on are linked in the order of s, sorted by port, and no other
\* hook is in use.
Linked(hk, hd, s) ==
    /\ s \in Seq(HookIds)
    /\ hd = IF Len(s) = 0 THEN NULL ELSE s[1]
    /\ \A i, j \in 1..Len(s) : i < j => hk[s[i]].port < hk[s[j]].port
    /\ \A i \in 1..Len(s) :
          /\ hk[s[i]].port \in Ports /\ hk[s[i]].dev \in Devs
          /\ hk[s[i]].next = IF i = Len(s) THEN NULL ELSE s[i + 1]
          /\ hk[s[i]].prev = IF i = 1 THEN NULL ELSE s[i - 1]
    /\ \A h \in HookIds : hk[h] = Blank \/ \E i \in 1..Len(s) : s[i] = h

Walk(hk, hd) ==
    LET from[h \in {NULL} \union HookIds] ==
           IF h = NULL THEN <<>> ELSE <<h>> \o from[hk[h].next]
    IN  from[hd]

Find(hk, hd, p) ==
    LET find[h \in {NULL} \union HookIds] ==
           IF h = NULL \/ (h # NULL /\ hk[h].port = p) THEN h ELSE find[hk[h].next]
    IN  find[hd]

\* The walks of the module are walks along the hooks of a state.
LEMMA Walks ==
    /\ Chain = Walk(hook, head) /\ Chain' = Walk(hook', head')
    /\ \A p : Get(p) = Find(hook, head, p)
    /\ \A p : Get(p)' = Find(hook', head', p)
BY Zenon DEF Chain, Walk, Get, Find

\* A set of naturals that is not empty has a least element, which Least finds.
LEMMA LeastFacts ==
    ASSUME NEW T, T \subseteq Nat, T # {}
    PROVE  Least(T) \in T /\ \A y \in T : Least(T) <= y
<1>1. IsWellFoundedOn(OpToRel(<, Nat), Nat)
  BY NatLessThanWellFounded, Zenon
<1>2. PICK x \in T : \A y \in T : <<y, x>> \notin OpToRel(<, Nat)
  BY <1>1, WFMin, Zenon
<1>3. ASSUME NEW y \in T PROVE x <= y
  <2>1. y \in Nat /\ x \in Nat
    BY Zenon
  <2>2. ~ (y < x)
    BY <1>2, <2>1, Zenon DEF OpToRel
  <2> QED BY <2>1, <2>2
<1> QED BY <1>3, Zenon DEF Least

\* Two lists, one after the other.
LEMMA ConcatFacts ==
    ASSUME NEW S, NEW q \in Seq(S), NEW s \in Seq(S)
    PROVE  /\ q \o s \in Seq(S)
           /\ Len(q \o s) = Len(q) + Len(s)
           /\ \A i \in 1..(Len(q) + Len(s)) : (q \o s)[i] = IF i <= Len(q) THEN q[i] ELSE s[i - Len(q)]
OBVIOUS

\* The hooks of a list are different hooks.
LEMMA LinkedFacts ==
    ASSUME NEW hk, NEW hd, NEW s, Linked(hk, hd, s)
    PROVE  /\ Len(s) \in Nat /\ DOMAIN s = 1..Len(s)
           /\ \A i \in 1..Len(s) : /\ s[i] \in HookIds /\ s[i] # NULL
                                   /\ hk[s[i]].port \in Nat /\ hk[s[i]].port # NoPort
           /\ \A i, j \in 1..Len(s) : s[i] = s[j] \/ hk[s[i]].port = hk[s[j]].port => i = j
<1>1. s \in Seq(HookIds) /\ Len(s) \in Nat /\ DOMAIN s = 1..Len(s)
  BY DEF Linked
<1>2. \A i \in 1..Len(s) : s[i] \in HookIds
  BY <1>1
<1>3. \A h \in HookIds : h # NULL
  BY DEF HookIds, NULL
<1>4. \A i \in 1..Len(s) : hk[s[i]].port \in Nat
  BY PortsAssumption, Zenon DEF Linked
<1>5. \A i, j \in 1..Len(s) : i < j => hk[s[i]].port < hk[s[j]].port
  BY Zenon DEF Linked
<1>6. ASSUME NEW i \in 1..Len(s), NEW j \in 1..Len(s), s[i] = s[j] \/ hk[s[i]].port = hk[s[j]].port
      PROVE  i = j
  <2>1. hk[s[i]].port = hk[s[j]].port /\ hk[s[i]].port \in Nat /\ hk[s[j]].port \in Nat
    BY <1>4, <1>6, Zenon
  <2>2. ~ (i < j) /\ ~ (j < i)
    BY <2>1, <1>5
  <2> QED BY <2>2, <1>1
<1> QED BY <1>1, <1>2, <1>3, <1>4, <1>6 DEF NoPort

\* Lists with the same entries are equal.
LEMMA ListsEqual ==
    ASSUME NEW S, NEW q \in Seq(S), NEW s \in Seq(S), Len(q) = Len(s), \A i \in 1..Len(q) : q[i] = s[i]
    PROVE  q = s
<1>1. q = [i \in 1..Len(q) |-> q[i]] /\ s = [i \in 1..Len(q) |-> s[i]]
  OBVIOUS
<1> QED BY <1>1, Zenon

Rest(s, i) == [j \in 1..(Len(s) - i + 1) |-> s[i + j - 1]]

\* The rest of a sequence from an element on.
LEMMA RestFacts ==
    ASSUME NEW S, NEW s \in Seq(S), NEW i \in 1..Len(s)
    PROVE  /\ Rest(s, i) \in Seq(S) /\ Len(Rest(s, i)) = Len(s) - i + 1
           /\ \A j \in 1..(Len(s) - i + 1) : Rest(s, i)[j] = s[i + j - 1]
<1> DEFINE n == Len(s) - i + 1
           r == Rest(s, i)
<1>1. Len(s) \in Nat /\ i \in Int /\ 1 <= i /\ i <= Len(s) /\ n \in Nat
  OBVIOUS
<1>2. \A j \in 1..n : i + j - 1 \in 1..Len(s) /\ s[i + j - 1] \in S
  BY <1>1
<1>3. r \in [1..n -> S] /\ \A j \in 1..n : r[j] = s[i + j - 1]
  BY <1>2, Zenon DEF Rest
<1> HIDE DEF n, r
<1>4. r \in Seq(S) /\ Len(r) = n
  BY <1>1, <1>3
<1> QED BY <1>3, <1>4, Zenon DEF n, r

\* An element and the rest behind it.
LEMMA RestStep ==
    ASSUME NEW S, NEW s \in Seq(S), NEW i \in 1..Len(s)
    PROVE  Rest(s, i) = <<s[i]>> \o (IF i = Len(s) THEN <<>> ELSE Rest(s, i + 1))
<1> DEFINE n == Len(s) - i + 1
           a == <<s[i]>>
           b == IF i = Len(s) THEN <<>> ELSE Rest(s, i + 1)
           r == Rest(s, i)
           t == a \o b
<1>1. Len(s) \in Nat /\ i \in Int /\ 1 <= i /\ i <= Len(s) /\ n \in Nat /\ n >= 1
  OBVIOUS
<1>2. a \in Seq(S) /\ Len(a) = 1 /\ a[1] = s[i]
  OBVIOUS
<1>3. b \in Seq(S) /\ Len(b) = n - 1 /\ \A j \in 1..(n - 1) : b[j] = s[i + j]
  <2>1. CASE i = Len(s)
    BY <2>1, <1>1
  <2>2. CASE i # Len(s)
    <3>1. i + 1 \in 1..Len(s) /\ Len(s) - (i + 1) + 1 = n - 1 /\ b = Rest(s, i + 1)
      BY <2>2, <1>1
    <3>2. \A j \in 1..(n - 1) : (i + 1) + j - 1 = i + j
      BY <1>1
    <3>3. /\ Rest(s, i + 1) \in Seq(S) /\ Len(Rest(s, i + 1)) = Len(s) - (i + 1) + 1
          /\ \A j \in 1..(Len(s) - (i + 1) + 1) : Rest(s, i + 1)[j] = s[(i + 1) + j - 1]
      BY <3>1, RestFacts, Zenon
    <3> HIDE DEF b, n
    <3>4. \A j \in 1..(n - 1) : b[j] = s[(i + 1) + j - 1]
      BY <3>1, <3>3, Zenon
    <3>5. \A j \in 1..(n - 1) : b[j] = s[i + j]
      BY <3>2, <3>4, Zenon
    <3> QED BY <3>1, <3>3, <3>5, Zenon
  <2> QED BY <2>1, <2>2, Zenon
<1>4. r \in Seq(S) /\ Len(r) = n /\ \A j \in 1..n : r[j] = s[i + j - 1]
  BY RestFacts, Zenon
<1> HIDE DEF n, a, b, r
<1>5. /\ t \in Seq(S) /\ Len(t) = Len(a) + Len(b)
      /\ \A j \in 1..(Len(a) + Len(b)) : t[j] = IF j <= Len(a) THEN a[j] ELSE b[j - Len(a)]
  BY <1>2, <1>3, ConcatFacts, Zenon
<1> HIDE DEF t
<1>6. Len(t) = n
  BY <1>1, <1>2, <1>3, <1>5
<1>7. ASSUME NEW j \in 1..n PROVE t[j] = r[j]
  <2>1. j \in 1..(Len(a) + Len(b)) /\ j \in Int
    BY <1>1, <1>5, <1>6
  <2>2. CASE j = 1
    <3>1. t[j] = a[1] /\ i + j - 1 = i
      BY <2>1, <2>2, <1>1, <1>2, <1>5
    <3> QED BY <3>1, <1>2, <1>4, Zenon
  <2>3. CASE j # 1
    <3>1. j - 1 \in 1..(n - 1) /\ ~ (j <= Len(a)) /\ i + (j - 1) = i + j - 1 /\ j - Len(a) = j - 1
      BY <2>3, <2>1, <1>1, <1>2
    <3> QED BY <2>1, <3>1, <1>3, <1>4, <1>5, Zenon
  <2> QED BY <2>2, <2>3, Zenon
<1>8. Len(r) = Len(t) /\ \A j \in 1..Len(r) : r[j] = t[j]
  BY <1>4, <1>6, <1>7, Zenon
<1>9. r = t
  BY <1>4, <1>5, <1>8, ListsEqual, Zenon
<1> QED BY <1>9, Zenon DEF r, t, a, b

\* A function that follows next from every hook: the rest of the list.
LEMMA WalkExists ==
    ASSUME NEW hk, NEW hd, NEW s, Linked(hk, hd, s)
    PROVE  \E f : f = [h \in {NULL} \union HookIds |->
                          IF h = NULL THEN <<>> ELSE <<h>> \o f[hk[h].next]]
<1> DEFINE At(h) == CHOOSE i \in 1..Len(s) : s[i] = h
           f == [h \in {NULL} \union HookIds |->
                   IF h = NULL THEN <<>>
                   ELSE IF \E i \in 1..Len(s) : s[i] = h THEN Rest(s, At(h)) ELSE <<h>>]
<1>1. s \in Seq(HookIds) /\ Len(s) \in Nat /\ \A i \in 1..Len(s) : s[i] \in HookIds /\ s[i] # NULL
  <2>1. s \in Seq(HookIds)
    BY Zenon DEF Linked
  <2> QED BY <2>1, LinkedFacts, Zenon
<1>2. ASSUME NEW i \in 1..Len(s) PROVE f[s[i]] = Rest(s, i)
  <2>1. At(s[i]) = i
    BY LinkedFacts, Zenon
  <2> HIDE DEF At
  <2> QED BY <2>1, <1>1, Zenon
<1>3. f[NULL] = <<>>
  BY Zenon
<1>4. \A i \in 1..Len(s) : hk[s[i]].next = IF i = Len(s) THEN NULL ELSE s[i + 1]
  BY Zenon DEF Linked
<1>5. ASSUME NEW h \in HookIds, ~ \E i \in 1..Len(s) : s[i] = h PROVE f[h] = <<h>> \o f[hk[h].next]
  <2>1. h # NULL /\ f[h] = <<h>>
    BY <1>5 DEF HookIds, NULL
  <2>2. hk[h].next = NULL
    BY <1>5 DEF Linked, Blank, New
  <2>3. <<h>> \o <<>> = <<h>>
    OBVIOUS
  <2> QED BY <2>1, <2>2, <2>3, <1>3, Zenon
<1>6. f = [h \in {NULL} \union HookIds |-> f[h]]
  BY Zenon
<1> HIDE DEF f
<1>7. ASSUME NEW i \in 1..Len(s) PROVE f[s[i]] = <<s[i]>> \o f[hk[s[i]].next]
  <2>1. f[hk[s[i]].next] = IF i = Len(s) THEN <<>> ELSE Rest(s, i + 1)
    <3>1. CASE i = Len(s)
      BY <3>1, <1>3, <1>4, Zenon
    <3>2. CASE i # Len(s)
      <4>1. i + 1 \in 1..Len(s) /\ hk[s[i]].next = s[i + 1]
        BY <3>2, <1>1, <1>4
      <4> QED BY <4>1, <3>2, <1>2, Zenon
    <3> QED BY <3>1, <3>2, Zenon
  <2>2. Rest(s, i) = <<s[i]>> \o (IF i = Len(s) THEN <<>> ELSE Rest(s, i + 1))
    BY <1>1, RestStep, Zenon
  <2> QED BY <2>1, <2>2, <1>2, Zenon
<1>8. \A h \in HookIds : f[h] = <<h>> \o f[hk[h].next]
  BY <1>5, <1>7, Zenon
<1>9. f = [h \in {NULL} \union HookIds |-> IF h = NULL THEN <<>> ELSE <<h>> \o f[hk[h].next]]
  BY <1>3, <1>6, <1>8, Zenon
<1> QED BY <1>9, Zenon

\* FOREACH_IO_HOOK meets the hooks of the list in their order.
LEMMA WalkFacts ==
    ASSUME NEW hk, NEW hd, NEW s, Linked(hk, hd, s)
    PROVE  Walk(hk, hd) = s
<1> DEFINE F == CHOOSE f : f = [h \in {NULL} \union HookIds |->
                                   IF h = NULL THEN <<>> ELSE <<h>> \o f[hk[h].next]]
           n == Len(s)
<1>1. Walk(hk, hd) = F[hd]
  BY Zenon DEF Walk
<1>2. F = [h \in {NULL} \union HookIds |-> IF h = NULL THEN <<>> ELSE <<h>> \o F[hk[h].next]]
  BY WalkExists, Zenon
<1> HIDE DEF F
<1>3. F[NULL] = <<>> /\ \A h \in HookIds : F[h] = <<h>> \o F[hk[h].next]
  <2> DEFINE G == [h \in {NULL} \union HookIds |-> IF h = NULL THEN <<>> ELSE <<h>> \o F[hk[h].next]]
  <2>1. \A h \in HookIds : h # NULL
    BY DEF HookIds, NULL
  <2>2. G[NULL] = <<>> /\ \A h \in HookIds : G[h] = <<h>> \o F[hk[h].next]
    BY <2>1, Zenon
  <2>3. F = G
    BY <1>2, Zenon
  <2> HIDE DEF G
  <2> QED BY <2>2, <2>3, Zenon
<1>4. n \in Nat /\ s \in Seq(HookIds) /\ \A i \in 1..n : s[i] \in HookIds
  <2>1. s \in Seq(HookIds)
    BY Zenon DEF Linked
  <2> QED BY <2>1, LinkedFacts, Zenon
<1>5. \A i \in 1..n : hk[s[i]].next = IF i = n THEN NULL ELSE s[i + 1]
  BY Zenon DEF Linked
<1>6. \A i \in 1..n : F[s[i]] = Rest(s, i)
  \* The last hook of which this is false would follow one of which it is true.
  <2> DEFINE Bad == {k \in Nat : n - k \in 1..n /\ F[s[n - k]] # Rest(s, n - k)}
  <2>1. SUFFICES ASSUME Bad # {} PROVE FALSE
    <3>1. ASSUME NEW i \in 1..n PROVE F[s[i]] = Rest(s, i)
      <4>1. n - i \in Nat /\ n - (n - i) = i
        BY <1>4
      <4>2. n - i \notin Bad
        BY <2>1, Zenon
      <4> QED BY <4>1, <4>2, Zenon
    <3> QED BY <3>1, Zenon
  <2>2. Bad \subseteq Nat
    BY Zenon
  <2> DEFINE k == Least(Bad)
             i == n - k
  <2>3. k \in Bad /\ \A y \in Bad : k <= y
    BY <2>1, <2>2, LeastFacts, Zenon
  <2>4. k \in Nat /\ i \in 1..n /\ F[s[i]] # Rest(s, i)
    BY <2>3, Zenon
  <2> HIDE DEF k
  <2>5. F[hk[s[i]].next] = IF i = n THEN <<>> ELSE Rest(s, i + 1)
    <3>1. CASE i = n
      BY <3>1, <1>3, <1>5, <2>4, Zenon
    <3>2. CASE i # n
      <4>1. i + 1 \in 1..n /\ k - 1 \in Nat /\ n - (k - 1) = i + 1 /\ ~ (k <= k - 1)
        BY <3>2, <1>4, <2>4
      <4>2. k - 1 \notin Bad
        BY <2>3, <4>1, Zenon
      <4>3. F[s[i + 1]] = Rest(s, i + 1)
        BY <4>1, <4>2, Zenon
      <4> QED BY <3>2, <4>3, <1>5, <2>4, Zenon
    <3> QED BY <3>1, <3>2, Zenon
  <2>6. F[s[i]] = <<s[i]>> \o F[hk[s[i]].next]
    BY <1>3, <1>4, <2>4, Zenon
  <2>7. Rest(s, i) = <<s[i]>> \o (IF i = n THEN <<>> ELSE Rest(s, i + 1))
    BY <1>4, <2>4, RestStep, Zenon
  <2> QED BY <2>4, <2>5, <2>6, <2>7, Zenon
<1>7. CASE n = 0
  <2>1. hd = NULL /\ s = <<>>
    BY <1>4, <1>7 DEF Linked
  <2> QED BY <2>1, <1>1, <1>3, Zenon
<1>8. CASE n # 0
  <2>1. 1 \in 1..n /\ hd = s[1]
    BY <1>4, <1>8 DEF Linked
  <2>2. Walk(hk, hd) = Rest(s, 1)
    BY <2>1, <1>1, <1>6, Zenon
  <2>3. /\ Rest(s, 1) \in Seq(HookIds) /\ Len(Rest(s, 1)) = n - 1 + 1
        /\ \A j \in 1..(n - 1 + 1) : Rest(s, 1)[j] = s[1 + j - 1]
    BY <2>1, <1>4, RestFacts, Zenon
  <2>4. n - 1 + 1 = n /\ \A j \in 1..n : 1 + j - 1 = j
    BY <1>4
  <2>5. Rest(s, 1) = s
    <3> DEFINE t == Rest(s, 1)
    <3>1. t \in Seq(HookIds) /\ Len(t) = Len(s) /\ \A j \in 1..Len(t) : t[j] = s[j]
      BY <2>3, <2>4
    <3> HIDE DEF t
    <3>2. t = s
      BY <3>1, <1>4, ListsEqual, Zenon
    <3> QED BY <3>2, Zenon DEF t
  <2> QED BY <2>2, <2>5, Zenon
<1> QED BY <1>7, <1>8, Zenon

\* The hook with port p among the hooks of the list from position i on.
Seek(hk, s, p, i) ==
    IF \E j \in i..Len(s) : hk[s[j]].port = p
    THEN s[CHOOSE j \in i..Len(s) : hk[s[j]].port = p] ELSE NULL

\* Only one hook of the list has the port, so that the search may go on from any before.
LEMMA SeekFacts ==
    ASSUME NEW hk, NEW hd, NEW s, Linked(hk, hd, s), NEW p, NEW i \in 1..Len(s)
    PROVE  /\ \A j \in i..Len(s) : hk[s[j]].port = p => Seek(hk, s, p, i) = s[j]
           /\ (\A j \in i..Len(s) : hk[s[j]].port # p) => Seek(hk, s, p, i) = NULL
           /\ Seek(hk, s, p, i) = IF hk[s[i]].port = p THEN s[i]
                                  ELSE IF i = Len(s) THEN NULL ELSE Seek(hk, s, p, i + 1)
<1>1. Len(s) \in Nat /\ i \in Int /\ 1 <= i /\ i <= Len(s)
  BY LinkedFacts
<1>2. \A j \in 1..Len(s) : \A k \in 1..Len(s) : hk[s[j]].port = hk[s[k]].port => j = k
  BY LinkedFacts
<1>3. ASSUME NEW a \in 1..Len(s), NEW j \in a..Len(s), hk[s[j]].port = p
      PROVE  Seek(hk, s, p, a) = s[j]
  <2> DEFINE k == CHOOSE k \in a..Len(s) : hk[s[k]].port = p
  <2>1. k \in a..Len(s) /\ hk[s[k]].port = p /\ Seek(hk, s, p, a) = s[k]
    BY <1>3, Zenon DEF Seek
  <2> HIDE DEF k
  <2>2. k \in 1..Len(s) /\ j \in 1..Len(s)
    BY <2>1, <1>1
  <2> QED BY <2>1, <2>2, <1>2, <1>3, Zenon
<1>4. ASSUME NEW a \in 1..Len(s), \A j \in a..Len(s) : hk[s[j]].port # p
      PROVE  Seek(hk, s, p, a) = NULL
  BY <1>4, Zenon DEF Seek
<1>5. CASE hk[s[i]].port = p
  <2>1. i \in i..Len(s)
    BY <1>1
  <2> QED BY <2>1, <1>3, <1>4, <1>5, Zenon
<1>6. CASE hk[s[i]].port # p /\ i = Len(s)
  <2>1. \A j \in i..Len(s) : j = i
    BY <1>1, <1>6
  <2> QED BY <2>1, <1>3, <1>4, <1>6, Zenon
<1>7. CASE hk[s[i]].port # p /\ i # Len(s)
  <2>1. i + 1 \in 1..Len(s) /\ \A j \in i..Len(s) : j = i \/ j \in (i + 1)..Len(s)
    BY <1>1, <1>7
  <2>2. \A j \in (i + 1)..Len(s) : j \in i..Len(s)
    BY <1>1
  <2>3. Seek(hk, s, p, i) = Seek(hk, s, p, i + 1)
    <3>1. CASE \E j \in i..Len(s) : hk[s[j]].port = p
      <4>1. PICK j \in i..Len(s) : hk[s[j]].port = p
        BY <3>1, Zenon
      <4>2. j \in (i + 1)..Len(s)
        BY <4>1, <2>1, <1>7, Zenon
      <4> QED BY <4>1, <4>2, <2>1, <1>3, Zenon
    <3>2. CASE \A j \in i..Len(s) : hk[s[j]].port # p
      BY <3>2, <2>1, <2>2, <1>4, Zenon
    <3> QED BY <3>1, <3>2, Zenon
  <2> QED BY <2>3, <1>3, <1>4, <1>7, Zenon
<1> QED BY <1>5, <1>6, <1>7, Zenon

\* A function that searches along next from every hook.
LEMMA FindExists ==
    ASSUME NEW hk, NEW hd, NEW s, Linked(hk, hd, s), NEW p \in Ports
    PROVE  \E f : f = [h \in {NULL} \union HookIds |->
                          IF h = NULL \/ (h # NULL /\ hk[h].port = p) THEN h ELSE f[hk[h].next]]
<1> DEFINE At(h) == CHOOSE i \in 1..Len(s) : s[i] = h
           f == [h \in {NULL} \union HookIds |->
                   IF \E i \in 1..Len(s) : s[i] = h THEN Seek(hk, s, p, At(h)) ELSE NULL]
<1>1. Len(s) \in Nat /\ \A i \in 1..Len(s) : s[i] \in HookIds /\ s[i] # NULL
  BY LinkedFacts, Zenon
<1>2. ASSUME NEW i \in 1..Len(s) PROVE f[s[i]] = Seek(hk, s, p, i)
  <2>1. At(s[i]) = i
    BY LinkedFacts, Zenon
  <2> HIDE DEF At
  <2> QED BY <2>1, <1>1, Zenon
<1>3. f[NULL] = NULL
  BY <1>1, Zenon
<1>4. \A i \in 1..Len(s) : hk[s[i]].next = IF i = Len(s) THEN NULL ELSE s[i + 1]
  BY Zenon DEF Linked
<1>5. ASSUME NEW h \in HookIds, ~ \E i \in 1..Len(s) : s[i] = h
      PROVE  f[h] = NULL /\ hk[h].port # p /\ f[hk[h].next] = NULL
  <2>1. f[h] = NULL
    BY <1>5, Zenon
  <2>2. hk[h].next = NULL /\ hk[h].port = NoPort
    BY <1>5 DEF Linked, Blank, New
  <2>3. p # NoPort
    BY PortsAssumption DEF NoPort
  <2> QED BY <2>1, <2>2, <2>3, <1>3, Zenon
<1>6. f = [h \in {NULL} \union HookIds |-> f[h]]
  BY Zenon
<1> HIDE DEF f
<1>7. ASSUME NEW i \in 1..Len(s) PROVE f[s[i]] = IF hk[s[i]].port = p THEN s[i] ELSE f[hk[s[i]].next]
  <2>1. f[hk[s[i]].next] = IF i = Len(s) THEN NULL ELSE Seek(hk, s, p, i + 1)
    <3>1. CASE i = Len(s)
      BY <3>1, <1>3, <1>4, Zenon
    <3>2. CASE i # Len(s)
      <4>1. i + 1 \in 1..Len(s) /\ hk[s[i]].next = s[i + 1]
        BY <3>2, <1>1, <1>4
      <4> QED BY <4>1, <3>2, <1>2, Zenon
    <3> QED BY <3>1, <3>2, Zenon
  <2>2. Seek(hk, s, p, i) = IF hk[s[i]].port = p THEN s[i]
                            ELSE IF i = Len(s) THEN NULL ELSE Seek(hk, s, p, i + 1)
    BY SeekFacts
  <2> QED BY <2>1, <2>2, <1>2, Zenon
<1>8. \A h \in HookIds : f[h] = IF hk[h].port = p THEN h ELSE f[hk[h].next]
  BY <1>5, <1>7, Zenon
<1>9. f = [h \in {NULL} \union HookIds |->
              IF h = NULL \/ (h # NULL /\ hk[h].port = p) THEN h ELSE f[hk[h].next]]
  BY <1>3, <1>6, <1>8, Zenon
<1> QED BY <1>9, Zenon

\* v3_get_io_hook finds the hook with the port, and NULL when the list has none.
LEMMA FindFacts ==
    ASSUME NEW hk, NEW hd, NEW s, Linked(hk, hd, s), NEW p \in Ports
    PROVE  /\ \A i \in 1..Len(s) : hk[s[i]].port = p => Find(hk, hd, p) = s[i]
           /\ (\A i \in 1..Len(s) : hk[s[i]].port # p) => Find(hk, hd, p) = NULL
<1> DEFINE F == CHOOSE f : f = [h \in {NULL} \union HookIds |->
                                   IF h = NULL \/ (h # NULL /\ hk[h].port = p) THEN h ELSE f[hk[h].next]]
           n == Len(s)
<1>1. Find(hk, hd, p) = F[hd]
  BY ZenonT(30) DEF Find
<1>2. F = [h \in {NULL} \union HookIds |->
              IF h = NULL \/ (h # NULL /\ hk[h].port = p) THEN h ELSE F[hk[h].next]]
  BY FindExists, ZenonT(30)
<1> HIDE DEF F
<1>3. F[NULL] = NULL /\ \A h \in HookIds : F[h] = IF hk[h].port = p THEN h ELSE F[hk[h].next]
  <2> DEFINE G == [h \in {NULL} \union HookIds |->
                      IF h = NULL \/ (h # NULL /\ hk[h].port = p) THEN h ELSE F[hk[h].next]]
  <2>1. \A h \in HookIds : h # NULL
    BY DEF HookIds, NULL
  <2>2. G[NULL] = NULL /\ \A h \in HookIds : G[h] = IF hk[h].port = p THEN h ELSE F[hk[h].next]
    BY <2>1, Zenon
  <2>3. F = G
    BY <1>2, Zenon
  <2> HIDE DEF G
  <2> QED BY <2>2, <2>3, Zenon
<1>4. n \in Nat /\ \A i \in 1..n : s[i] \in HookIds
  BY LinkedFacts, Zenon
<1>5. \A i \in 1..n : hk[s[i]].next = IF i = n THEN NULL ELSE s[i + 1]
  BY Zenon DEF Linked
<1>6. \A i \in 1..n : F[s[i]] = Seek(hk, s, p, i)
  <2> DEFINE Bad == {k \in Nat : n - k \in 1..n /\ F[s[n - k]] # Seek(hk, s, p, n - k)}
  <2>1. SUFFICES ASSUME Bad # {} PROVE FALSE
    <3>1. ASSUME NEW i \in 1..n PROVE F[s[i]] = Seek(hk, s, p, i)
      <4>1. n - i \in Nat /\ n - (n - i) = i
        BY <1>4
      <4>2. n - i \notin Bad
        BY <2>1, Zenon
      <4> QED BY <4>1, <4>2, Zenon
    <3> QED BY <3>1, Zenon
  <2>2. Bad \subseteq Nat
    BY Zenon
  <2> DEFINE k == Least(Bad)
             i == n - k
  <2>3. k \in Bad /\ \A y \in Bad : k <= y
    BY <2>1, <2>2, LeastFacts, Zenon
  <2>4. k \in Nat /\ i \in 1..n /\ F[s[i]] # Seek(hk, s, p, i)
    BY <2>3, Zenon
  <2> HIDE DEF k
  <2>5. F[hk[s[i]].next] = IF i = n THEN NULL ELSE Seek(hk, s, p, i + 1)
    <3>1. CASE i = n
      BY <3>1, <1>3, <1>5, <2>4, Zenon
    <3>2. CASE i # n
      <4>1. i + 1 \in 1..n /\ k - 1 \in Nat /\ n - (k - 1) = i + 1 /\ ~ (k <= k - 1)
        BY <3>2, <1>4, <2>4
      <4>2. k - 1 \notin Bad
        BY <2>3, <4>1, Zenon
      <4>3. F[s[i + 1]] = Seek(hk, s, p, i + 1)
        BY <4>1, <4>2, Zenon
      <4> QED BY <3>2, <4>3, <1>5, <2>4, Zenon
    <3> QED BY <3>1, <3>2, Zenon
  <2>6. F[s[i]] = IF hk[s[i]].port = p THEN s[i] ELSE F[hk[s[i]].next]
    BY <1>3, <1>4, <2>4, Zenon
  <2>7. Seek(hk, s, p, i) = IF hk[s[i]].port = p THEN s[i]
                            ELSE IF i = n THEN NULL ELSE Seek(hk, s, p, i + 1)
    BY <2>4, SeekFacts
  <2> QED BY <2>4, <2>5, <2>6, <2>7
<1>7. CASE n = 0
  <2>1. hd = NULL /\ ~ \E i \in 1..n : TRUE
    BY <1>4, <1>7 DEF Linked
  <2> QED BY <2>1, <1>1, <1>3, Zenon
<1>8. CASE n # 0
  <2>1. 1 \in 1..n /\ hd = s[1]
    BY <1>4, <1>8 DEF Linked
  <2>2. Find(hk, hd, p) = Seek(hk, s, p, 1)
    BY <2>1, <1>1, <1>6, Zenon
  <2> QED BY <2>1, <2>2, SeekFacts
<1> QED BY <1>7, <1>8, Zenon

-----------------------------------------------------------------------------
(* Insertion and removal *)

Inserted(s, k, x) == [i \in 1..(Len(s) + 1) |-> IF i <= k THEN s[i] ELSE IF i = k + 1 THEN x ELSE s[i - 1]]
Removed(s, k) == [i \in 1..(Len(s) - 1) |-> IF i < k THEN s[i] ELSE s[i + 1]]

\* A list with one element more.
LEMMA InsertedFacts ==
    ASSUME NEW S, NEW s \in Seq(S), NEW k \in 0..Len(s), NEW x \in S
    PROVE  /\ Inserted(s, k, x) \in Seq(S) /\ Len(Inserted(s, k, x)) = Len(s) + 1
           /\ \A i \in 1..(Len(s) + 1) :
                 Inserted(s, k, x)[i] = IF i <= k THEN s[i] ELSE IF i = k + 1 THEN x ELSE s[i - 1]
<1> DEFINE n == Len(s) + 1
           t == Inserted(s, k, x)
<1>1. Len(s) \in Nat /\ k \in Int /\ 0 <= k /\ k <= Len(s) /\ n \in Nat
  OBVIOUS
<1>2. \A i \in 1..n : /\ i <= k => i \in 1..Len(s)
                      /\ ~ (i <= k) /\ i # k + 1 => i - 1 \in 1..Len(s)
  BY <1>1
<1>3. t \in [1..n -> S] /\ \A i \in 1..n : t[i] = IF i <= k THEN s[i] ELSE IF i = k + 1 THEN x ELSE s[i - 1]
  BY <1>2 DEF Inserted
<1> HIDE DEF n, t
<1>4. t \in Seq(S) /\ Len(t) = n
  BY <1>1, <1>3
<1> QED BY <1>3, <1>4, Zenon DEF n, t

\* A list with one element less.
LEMMA RemovedFacts ==
    ASSUME NEW S, NEW s \in Seq(S), NEW k \in 1..Len(s)
    PROVE  /\ Removed(s, k) \in Seq(S) /\ Len(Removed(s, k)) = Len(s) - 1
           /\ \A i \in 1..(Len(s) - 1) : Removed(s, k)[i] = IF i < k THEN s[i] ELSE s[i + 1]
<1> DEFINE n == Len(s) - 1
           t == Removed(s, k)
<1>1. Len(s) \in Nat /\ k \in Int /\ 1 <= k /\ k <= Len(s) /\ n \in Nat
  OBVIOUS
<1>2. \A i \in 1..n : i \in 1..Len(s) /\ i + 1 \in 1..Len(s)
  BY <1>1
<1>3. t \in [1..n -> S] /\ \A i \in 1..n : t[i] = IF i < k THEN s[i] ELSE s[i + 1]
  BY <1>2 DEF Removed
<1> HIDE DEF n, t
<1>4. t \in Seq(S) /\ Len(t) = n
  BY <1>1, <1>3
<1> QED BY <1>3, <1>4, Zenon DEF n, t

\* add_io_hook links a new hook between two neighbours.
LEMMA InsertLinked ==
    ASSUME NEW hk, NEW hd, NEW s, Linked(hk, hd, s), NEW k \in 0..Len(s),
           NEW p \in Ports, NEW d \in Devs, NEW id \in HookIds, hk[id] = Blank,
           k > 0 => hk[s[k]].port < p, k < Len(s) => p < hk[s[k + 1]].port,
           NEW new,
           /\ new[id].port = p /\ new[id].dev = d
           /\ new[id].next = IF k = Len(s) THEN NULL ELSE s[k + 1]
           /\ new[id].prev = IF k = 0 THEN NULL ELSE s[k],
           \A h \in HookIds \ {id} :
              /\ new[h].port = hk[h].port /\ new[h].dev = hk[h].dev
              /\ new[h].next = IF k > 0 /\ h = s[k] THEN id ELSE hk[h].next
              /\ new[h].prev = IF k < Len(s) /\ h = s[k + 1] THEN id ELSE hk[h].prev
              /\ hk[h] = Blank => new[h] = Blank
    PROVE  Linked(new, IF k = 0 THEN id ELSE hd, Inserted(s, k, id))
<1> DEFINE n == Len(s)
           t == Inserted(s, k, id)
           Old(i) == IF i <= k THEN i ELSE i - 1
<1>1. n \in Nat /\ k \in Int /\ 0 <= k /\ k <= n
  BY LinkedFacts
<1>2. \A i \in 1..n : /\ s[i] \in HookIds /\ s[i] # NULL
                      /\ hk[s[i]].port \in Nat /\ hk[s[i]].port \in Ports /\ hk[s[i]].dev \in Devs
                      /\ hk[s[i]].port # NoPort
                      /\ hk[s[i]].next = (IF i = n THEN NULL ELSE s[i + 1])
                      /\ hk[s[i]].prev = (IF i = 1 THEN NULL ELSE s[i - 1])
  <2>1. \A i \in 1..n : /\ hk[s[i]].port \in Ports /\ hk[s[i]].dev \in Devs
                        /\ hk[s[i]].next = (IF i = n THEN NULL ELSE s[i + 1])
                        /\ hk[s[i]].prev = (IF i = 1 THEN NULL ELSE s[i - 1])
    BY Zenon DEF Linked
  <2> QED BY <2>1, LinkedFacts
<1>3. \A i \in 1..n : s[i] # id
  BY <1>2 DEF Blank, New
<1>4. \A i, j \in 1..n : s[i] = s[j] => i = j
  BY LinkedFacts
<1>5. /\ t \in Seq(HookIds) /\ Len(t) = n + 1
      /\ \A i \in 1..(n + 1) : t[i] = IF i <= k THEN s[i] ELSE IF i = k + 1 THEN id ELSE s[i - 1]
  <2>1. s \in Seq(HookIds)
    BY Zenon DEF Linked
  <2> QED BY <2>1, InsertedFacts
<1> HIDE DEF t
<1>6. t[k + 1] = id /\ k + 1 \in 1..(n + 1) /\ \A i \in 1..(n + 1) : i # k + 1 => Old(i) \in 1..n /\ t[i] = s[Old(i)]
  BY <1>1, <1>5
<1>7. \A i \in 1..n : /\ new[s[i]].port = hk[s[i]].port /\ new[s[i]].dev = hk[s[i]].dev
                      /\ new[s[i]].next = (IF i = k THEN id ELSE hk[s[i]].next)
                      /\ new[s[i]].prev = (IF i = k + 1 THEN id ELSE hk[s[i]].prev)
  <2> SUFFICES ASSUME NEW i \in 1..n
               PROVE  /\ new[s[i]].port = hk[s[i]].port /\ new[s[i]].dev = hk[s[i]].dev
                      /\ new[s[i]].next = (IF i = k THEN id ELSE hk[s[i]].next)
                      /\ new[s[i]].prev = (IF i = k + 1 THEN id ELSE hk[s[i]].prev)
    BY Zenon
  <2>1. s[i] \in HookIds \ {id}
    BY <1>2, <1>3, Zenon
  <2>2. (k > 0 /\ s[i] = s[k]) <=> i = k
    BY <1>1, <1>4
  <2>3. (k < n /\ s[i] = s[k + 1]) <=> i = k + 1
    BY <1>1, <1>4
  <2> QED BY <2>1, <2>2, <2>3, Zenon
<1>8. (IF k = 0 THEN id ELSE hd) = IF Len(t) = 0 THEN NULL ELSE t[1]
  <2>1. Len(t) # 0 /\ 1 \in 1..(n + 1) /\ (k # 0 => 1 <= k /\ n # 0)
    BY <1>1, <1>5
  <2>2. n # 0 => hd = s[1]
    BY Zenon DEF Linked
  <2> QED BY <2>1, <2>2, <1>1, <1>5
<1>9. ASSUME NEW i \in 1..(n + 1), NEW j \in 1..(n + 1), i < j PROVE new[t[i]].port < new[t[j]].port
  <2> DEFINE P(a) == hk[s[a]].port
             Q(a) == new[t[a]].port
  <2>1. p \in Nat /\ (\A a \in 1..n : P(a) \in Nat) /\ \A a, b \in 1..n : a < b => P(a) < P(b)
    BY <1>2, PortsAssumption, Zenon DEF Linked
  <2>2. (k > 0 => P(k) < p) /\ (k < n => p < P(k + 1))
    BY Zenon
  <2>3. Q(k + 1) = p /\ \A a \in 1..(n + 1) : a # k + 1 => Old(a) \in 1..n /\ Q(a) = P(Old(a))
    <3>1. Q(k + 1) = p
      BY <1>6, Zenon
    <3>2. ASSUME NEW a \in 1..(n + 1), a # k + 1 PROVE Old(a) \in 1..n /\ Q(a) = P(Old(a))
      <4>1. Old(a) \in 1..n /\ t[a] = s[Old(a)]
        BY <3>2, <1>6, Zenon
      <4> HIDE DEF Old
      <4> QED BY <4>1, <1>7, Zenon
    <3> HIDE DEF P, Q, Old
    <3> QED BY <3>1, <3>2, Zenon
  <2> HIDE DEF P, Q
  <2>4. CASE i = k + 1
    <3>1. Old(j) \in 1..n /\ Q(j) = P(Old(j)) /\ k < n /\ k + 1 \in 1..n /\ (Old(j) = k + 1 \/ k + 1 < Old(j))
      BY <2>3, <2>4, <1>1, <1>9
    <3> HIDE DEF Old
    <3>2. p < P(Old(j))
      BY <3>1, <2>1, <2>2
    <3> QED BY <3>1, <3>2, <2>3, <2>4, Zenon DEF Q
  <2>5. CASE j = k + 1
    <3>1. Old(i) \in 1..n /\ Q(i) = P(Old(i)) /\ k > 0 /\ k \in 1..n /\ (Old(i) = k \/ Old(i) < k)
      BY <2>3, <2>5, <1>1, <1>9
    <3> HIDE DEF Old
    <3>2. P(Old(i)) < p
      BY <3>1, <2>1, <2>2
    <3> QED BY <3>1, <3>2, <2>3, <2>5, Zenon DEF Q
  <2>6. CASE i # k + 1 /\ j # k + 1
    <3>1. Old(i) < Old(j)
      BY <2>6, <1>1, <1>9
    <3> HIDE DEF Old
    <3> QED BY <3>1, <2>1, <2>3, <2>6, Zenon DEF Q
  <2> QED BY <2>4, <2>5, <2>6, Zenon
<1>10. ASSUME NEW i \in 1..(n + 1)
       PROVE  /\ new[t[i]].port \in Ports /\ new[t[i]].dev \in Devs
              /\ new[t[i]].next = IF i = n + 1 THEN NULL ELSE t[i + 1]
              /\ new[t[i]].prev = IF i = 1 THEN NULL ELSE t[i - 1]
  <2>1. CASE i = k + 1
    <3>1. t[i] = id
      BY <2>1, <1>6, Zenon
    <3>2. k # n => i + 1 \in 1..(n + 1) /\ ~ (i + 1 <= k) /\ i + 1 # k + 1 /\ (i + 1) - 1 = k + 1 /\ i # n + 1
      BY <2>1, <1>1
    <3>3. k # 0 => i - 1 \in 1..(n + 1) /\ i - 1 <= k /\ i - 1 = k /\ i # 1
      BY <2>1, <1>1
    <3>4. (k = n => i = n + 1) /\ (k = 0 => i = 1)
      BY <2>1
    <3> QED BY <3>1, <3>2, <3>3, <3>4, <1>5
  <2>2. CASE i <= k
    <3>1. i \in 1..n /\ i # k + 1 /\ i # n + 1 /\ i + 1 \in 1..(n + 1) /\ t[i] = s[i]
      BY <2>2, <1>1, <1>5
    <3>2. new[s[i]].next = t[i + 1]
      BY <3>1, <2>2, <1>1, <1>2, <1>5, <1>7, SMTT(30)
    <3>3. new[s[i]].prev = IF i = 1 THEN NULL ELSE t[i - 1]
      <4>1. i # 1 => i - 1 \in 1..(n + 1) /\ i - 1 <= k
        BY <3>1, <2>2, <1>1
      <4>2. i # 1 => t[i - 1] = s[i - 1]
        BY <4>1, <1>5, Zenon
      <4> QED BY <4>2, <3>1, <1>2, <1>7, SMTT(30)
    <3> QED BY <3>1, <3>2, <3>3, <1>2, <1>7
  <2>3. CASE i > k + 1
    <3> DEFINE j == i - 1
    <3>1. j \in 1..n /\ j # k /\ t[i] = s[j] /\ i # 1 /\ i = j + 1 /\ j >= k + 1
      BY <2>3, <1>1, <1>5
    <3>2. new[s[j]].next = IF i = n + 1 THEN NULL ELSE t[i + 1]
      <4>1. i # n + 1 => i + 1 \in 1..(n + 1) /\ t[i + 1] = s[j + 1] /\ j # n
        BY <2>3, <1>1, <1>5, SMTT(30)
      <4>2. i = n + 1 => j = n
        BY <3>1
      <4> QED BY <3>1, <4>1, <4>2, <1>2, <1>7
    <3>3. new[s[j]].prev = t[j]
      <4>1. CASE j = k + 1
        BY <3>1, <4>1, <1>6, <1>7
      <4>2. CASE j # k + 1
        <5>1. j \in 1..(n + 1) /\ t[j] = s[j - 1] /\ j # 1
          BY <3>1, <4>2, <1>1, <1>5
        <5> QED BY <5>1, <3>1, <4>2, <1>2, <1>7
      <4> QED BY <4>1, <4>2, Zenon
    <3> HIDE DEF j
    <3>4. i - 1 = j
      BY <3>1
    <3> QED BY <3>1, <3>2, <3>3, <3>4, <1>2, <1>7
  <2> QED BY <2>1, <2>2, <2>3, <1>1
<1>11. ASSUME NEW h \in HookIds PROVE new[h] = Blank \/ \E i \in 1..(n + 1) : t[i] = h
  <2>1. CASE h = id
    BY <2>1, <1>6, Zenon
  <2>2. CASE h # id /\ hk[h] = Blank
    BY <2>2, Zenon
  <2>3. CASE h # id /\ hk[h] # Blank
    <3>1. PICK i \in 1..n : s[i] = h
      BY <2>3, Zenon DEF Linked
    <3> DEFINE j == IF i <= k THEN i ELSE i + 1
    <3>2. j \in 1..(n + 1) /\ t[j] = s[i]
      BY <3>1, <1>1, <1>5
    <3> QED BY <3>1, <3>2, Zenon
  <2> QED BY <2>1, <2>2, <2>3, Zenon
<1> QED BY <1>5, <1>8, <1>9, <1>10, <1>11 DEF Linked, t

\* remove_io_hook joins the neighbours of the hook.
LEMMA RemoveLinked ==
    ASSUME NEW hk, NEW hd, NEW s, Linked(hk, hd, s), NEW k \in 1..Len(s),
           NEW new, new[s[k]] = Blank,
           \A h \in HookIds \ {s[k]} :
              /\ new[h].port = hk[h].port /\ new[h].dev = hk[h].dev
              /\ new[h].next = IF s[k] # hd /\ h = hk[s[k]].prev THEN hk[s[k]].next ELSE hk[h].next
              /\ new[h].prev = IF h = hk[s[k]].next THEN hk[s[k]].prev ELSE hk[h].prev
              /\ hk[h] = Blank => new[h] = Blank
    PROVE  Linked(new, IF s[k] = hd THEN hk[s[k]].next ELSE hd, Removed(s, k))
<1> DEFINE n == Len(s)
           t == Removed(s, k)
           Old(i) == IF i < k THEN i ELSE i + 1
<1>1. n \in Nat /\ k \in Int /\ 1 <= k /\ k <= n
  BY LinkedFacts
<1>2. \A i \in 1..n : /\ s[i] \in HookIds /\ s[i] # NULL
                      /\ hk[s[i]].port \in Nat /\ hk[s[i]].port \in Ports /\ hk[s[i]].dev \in Devs
                      /\ hk[s[i]].next = (IF i = n THEN NULL ELSE s[i + 1])
                      /\ hk[s[i]].prev = (IF i = 1 THEN NULL ELSE s[i - 1])
  <2>1. \A i \in 1..n : /\ hk[s[i]].port \in Ports /\ hk[s[i]].dev \in Devs
                        /\ hk[s[i]].next = (IF i = n THEN NULL ELSE s[i + 1])
                        /\ hk[s[i]].prev = (IF i = 1 THEN NULL ELSE s[i - 1])
    BY Zenon DEF Linked
  <2> QED BY <2>1, LinkedFacts
<1>3. \A i, j \in 1..n : s[i] = s[j] => i = j
  BY LinkedFacts
<1>4. hd = s[1] /\ (s[k] = hd <=> k = 1)
  <2>1. hd = s[1] /\ 1 \in 1..n
    BY <1>1 DEF Linked
  <2> QED BY <2>1, <1>3, Zenon
<1>5. /\ t \in Seq(HookIds) /\ Len(t) = n - 1 /\ n - 1 \in Nat
      /\ \A i \in 1..(n - 1) : t[i] = IF i < k THEN s[i] ELSE s[i + 1]
  <2>1. s \in Seq(HookIds)
    BY Zenon DEF Linked
  <2> QED BY <2>1, <1>1, RemovedFacts
<1> HIDE DEF t
<1>6. \A i \in 1..(n - 1) : Old(i) \in 1..n /\ Old(i) # k /\ t[i] = s[Old(i)]
  BY <1>1, <1>5
<1>7. \A i \in 1..n : i # k =>
         /\ new[s[i]].port = hk[s[i]].port /\ new[s[i]].dev = hk[s[i]].dev
         /\ new[s[i]].next = (IF i = k - 1 THEN hk[s[k]].next ELSE hk[s[i]].next)
         /\ new[s[i]].prev = (IF i = k + 1 THEN hk[s[k]].prev ELSE hk[s[i]].prev)
  <2> SUFFICES ASSUME NEW i \in 1..n, i # k
               PROVE  /\ new[s[i]].port = hk[s[i]].port /\ new[s[i]].dev = hk[s[i]].dev
                      /\ new[s[i]].next = (IF i = k - 1 THEN hk[s[k]].next ELSE hk[s[i]].next)
                      /\ new[s[i]].prev = (IF i = k + 1 THEN hk[s[k]].prev ELSE hk[s[i]].prev)
    BY Zenon
  <2>1. s[i] \in HookIds \ {s[k]}
    BY <1>2, <1>3, Zenon
  <2>2. (s[k] # hd /\ s[i] = hk[s[k]].prev) <=> i = k - 1
    <3>1. hk[s[k]].prev = IF k = 1 THEN NULL ELSE s[k - 1]
      BY <1>2, Zenon
    <3>2. k # 1 => k - 1 \in 1..n
      BY <1>1
    <3> QED BY <3>1, <3>2, <1>1, <1>2, <1>3, <1>4
  <2>3. s[i] = hk[s[k]].next <=> i = k + 1
    <3>1. hk[s[k]].next = IF k = n THEN NULL ELSE s[k + 1]
      BY <1>2, Zenon
    <3>2. k # n => k + 1 \in 1..n
      BY <1>1
    <3> QED BY <3>1, <3>2, <1>1, <1>2, <1>3
  <2> QED BY <2>1, <2>2, <2>3, Zenon
<1>8. (IF s[k] = hd THEN hk[s[k]].next ELSE hd) = IF Len(t) = 0 THEN NULL ELSE t[1]
  <2>1. CASE k = 1 /\ n = 1
    BY <2>1, <1>1, <1>2, <1>4, <1>5
  <2>2. CASE n # 1
    <3>1. 1 \in 1..(n - 1) /\ n - 1 # 0 /\ 1 \in 1..n
      <4>1. n \in Int /\ 1 <= n /\ n # 1
        BY <2>2, <1>1
      <4> HIDE DEF n
      <4> QED BY <4>1
    <3>2. t[1] = IF k = 1 THEN s[2] ELSE s[1]
      BY <3>1, <1>1, <1>5
    <3>3. k = 1 => hk[s[k]].next = s[2]
      BY <3>1, <2>2, <1>2
    <3> QED BY <3>1, <3>2, <3>3, <1>4, <1>5, Zenon
  <2> QED BY <2>1, <2>2, <1>1
<1>9. ASSUME NEW i \in 1..(n - 1), NEW j \in 1..(n - 1), i < j PROVE new[t[i]].port < new[t[j]].port
  <2>1. Old(i) < Old(j) /\ Old(i) \in 1..n /\ Old(j) \in 1..n /\ Old(i) # k /\ Old(j) # k
    BY <1>1, <1>6, <1>9
  <2>2. t[i] = s[Old(i)] /\ t[j] = s[Old(j)]
    BY <1>6, Zenon
  <2> HIDE DEF Old
  <2>3. hk[s[Old(i)]].port < hk[s[Old(j)]].port
    BY <2>1, Zenon DEF Linked
  <2> QED BY <2>1, <2>2, <2>3, <1>7
<1>10. ASSUME NEW i \in 1..(n - 1)
       PROVE  /\ new[t[i]].port \in Ports /\ new[t[i]].dev \in Devs
              /\ new[t[i]].next = IF i = n - 1 THEN NULL ELSE t[i + 1]
              /\ new[t[i]].prev = IF i = 1 THEN NULL ELSE t[i - 1]
  <2>0. i \in Int /\ 1 <= i /\ i <= n - 1
    BY <1>5
  <2>a. (i # n - 1 => i + 1 \in 1..(n - 1)) /\ (i # 1 => i - 1 \in 1..(n - 1))
    BY <2>0, <1>1
  <2>b. \A j \in 1..(n - 1) : t[j] = s[Old(j)]
    BY <1>6, Zenon
  <2>1. i # n - 1 => i + 1 \in 1..(n - 1) /\ t[i + 1] = s[Old(i + 1)]
    <3> HIDE DEF Old
    <3> QED BY <2>a, <2>b, Zenon
  <2>2. i # 1 => i - 1 \in 1..(n - 1) /\ t[i - 1] = s[Old(i - 1)]
    <3> HIDE DEF Old
    <3> QED BY <2>a, <2>b, Zenon
  <2> DEFINE o == Old(i)
  <2>3. t[i] = s[o] /\ o \in 1..n /\ o # k
    BY <1>6, Zenon
  <2>4. /\ o = k - 1 => /\ k # n => i # n - 1 /\ Old(i + 1) = k + 1
                        /\ k = n => i = n - 1
        /\ o # k - 1 => /\ o # n => i # n - 1 /\ Old(i + 1) = o + 1
                        /\ o = n => i = n - 1
    BY <2>0, <1>1
  <2>5. /\ o = k + 1 => /\ k # 1 => i # 1 /\ Old(i - 1) = k - 1
                        /\ k = 1 => i = 1
        /\ o # k + 1 => /\ o # 1 => i # 1 /\ Old(i - 1) = o - 1
                        /\ o = 1 => i = 1
    BY <2>0, <1>1
  <2> HIDE DEF Old, o
  <2>6. new[s[o]].next = IF i = n - 1 THEN NULL ELSE t[i + 1]
    <3>1. CASE o = k - 1
      <4>1. new[s[o]].next = IF k = n THEN NULL ELSE s[k + 1]
        BY <3>1, <2>3, <1>2, <1>7, SMTT(30)
      <4> QED BY <4>1, <3>1, <2>1, <2>4, Zenon
    <3>2. CASE o # k - 1
      <4>1. new[s[o]].next = IF o = n THEN NULL ELSE s[o + 1]
        BY <3>2, <2>3, <1>2, <1>7
      <4> QED BY <4>1, <3>2, <2>1, <2>4
    <3> QED BY <3>1, <3>2, Zenon
  <2>7. new[s[o]].prev = IF i = 1 THEN NULL ELSE t[i - 1]
    <3>1. CASE o = k + 1
      <4>1. new[s[o]].prev = IF k = 1 THEN NULL ELSE s[k - 1]
        BY <3>1, <2>3, <1>2, <1>7
      <4> QED BY <4>1, <3>1, <2>2, <2>5, Zenon
    <3>2. CASE o # k + 1
      <4>1. new[s[o]].prev = IF o = 1 THEN NULL ELSE s[o - 1]
        BY <3>2, <2>3, <1>2, <1>7
      <4>2. CASE o = 1
        BY <4>1, <4>2, <3>2, <2>5, Zenon
      <4>3. CASE o # 1
        <5>1. i # 1 /\ Old(i - 1) = o - 1
          BY <4>3, <3>2, <2>5, Zenon
        <5> QED BY <4>1, <4>3, <5>1, <2>2
      <4> QED BY <4>2, <4>3, Zenon
    <3> QED BY <3>1, <3>2, Zenon
  <2>8. new[s[o]].port \in Ports /\ new[s[o]].dev \in Devs
    BY <2>3, <1>2, <1>7, ZenonT(30)
  <2> QED BY <2>3, <2>6, <2>7, <2>8, Zenon
<1>11. ASSUME NEW h \in HookIds PROVE new[h] = Blank \/ \E i \in 1..(n - 1) : t[i] = h
  <2>1. CASE h = s[k] \/ hk[h] = Blank
    BY <2>1, Zenon
  <2>2. CASE h # s[k] /\ hk[h] # Blank
    <3>1. PICK i \in 1..n : s[i] = h
      BY <2>2, Zenon DEF Linked
    <3> DEFINE j == IF i < k THEN i ELSE i - 1
    <3>2. i # k
      BY <2>2, <3>1, Zenon
    <3>3. j \in 1..(n - 1) /\ Old(j) = i
      BY <3>2, <1>1
    <3>4. t[j] = s[i]
      BY <3>3, <1>6
    <3> QED BY <3>1, <3>3, <3>4, Zenon
  <2> QED BY <2>1, <2>2, Zenon
<1>12. t \in Seq(HookIds) /\ n - 1 = Len(t)
  BY <1>5, Zenon
<1>13. \A i, j \in 1..Len(t) : i < j => new[t[i]].port < new[t[j]].port
  BY <1>9, <1>12, Zenon
<1>14. \A i \in 1..Len(t) : /\ new[t[i]].port \in Ports /\ new[t[i]].dev \in Devs
                            /\ new[t[i]].next = (IF i = Len(t) THEN NULL ELSE t[i + 1])
                            /\ new[t[i]].prev = (IF i = 1 THEN NULL ELSE t[i - 1])
  BY <1>10, <1>12
<1>15. \A h \in HookIds : new[h] = Blank \/ \E i \in 1..Len(t) : t[i] = h
  BY <1>11, <1>12, Zenon
<1> QED BY <1>8, <1>12, <1>13, <1>14, <1>15, Zenon DEF Linked, t

\* As long as a port has no hook, there is a hook for it.
LEMMA FreeHook ==
    ASSUME NEW hk \in [HookIds -> Hook], NEW hd, NEW s, Linked(hk, hd, s), NEW p \in Ports,
           \A i \in 1..Len(s) : hk[s[i]].port # p
    PROVE  \E h \in HookIds : hk[h] = Blank
<1> SUFFICES ASSUME \A h \in HookIds : hk[h] # Blank PROVE FALSE
  BY Zenon
<1> DEFINE T == Ports \ {p}
           f == [h \in HookIds |-> hk[h].port]
<1>1. \A h \in HookIds : \E i \in 1..Len(s) : s[i] = h
  BY Zenon DEF Linked
<1>2. \A i \in 1..Len(s) : hk[s[i]].port \in T
  BY Zenon DEF Linked
<1>3. f \in [HookIds -> T]
  BY <1>1, <1>2, Zenon
<1>4. IsFiniteSet(Ports) /\ Cardinality(Ports) \in Nat
  BY PortsAssumption, FS_CardinalityType, Zenon
<1>5. IsFiniteSet(T) /\ Cardinality(T) = Cardinality(Ports) - 1
  BY <1>4, FS_RemoveElement, Zenon
<1>6. IsFiniteSet(HookIds) /\ Cardinality(HookIds) = Cardinality(Ports)
  <2>1. 1 \in Int /\ Cardinality(Ports) \in Int
    BY <1>4
  <2>2. Cardinality(Ports) # 0
    BY <1>4, FS_EmptySet, Zenon
  <2> QED BY <2>1, <2>2, <1>4, FS_Interval DEF HookIds
<1>7. Cardinality(T) < Cardinality(HookIds)
  BY <1>4, <1>5, <1>6
<1> HIDE DEF f, T
<1>8. PICK x, y \in HookIds : x # y /\ f[x] = f[y]
  BY <1>3, <1>5, <1>6, <1>7, FS_PigeonHole, Zenon
<1>9. PICK i \in 1..Len(s), j \in 1..Len(s) : s[i] = x /\ s[j] = y
  BY <1>1, Zenon
<1>10. hk[s[i]].port = hk[s[j]].port
  BY <1>8, <1>9, Zenon DEF f
<1>11. i = j
  BY <1>10, LinkedFacts, Zenon
<1> QED BY <1>8, <1>9, <1>11, Zenon

\* The device that a list of hooks gives a port to.
DevOf(hk, hd, p) == LET h == Find(hk, hd, p) IN IF h = NULL THEN NoDev ELSE hk[h].dev

\* It is the device of the hook that has the port.
LEMMA DevOfFacts ==
    ASSUME NEW hk, NEW hd, NEW s, Linked(hk, hd, s), NEW p \in Ports
    PROVE  /\ \A i \in 1..Len(s) : hk[s[i]].port = p => DevOf(hk, hd, p) = hk[s[i]].dev
           /\ DevOf(hk, hd, p) = NoDev <=> \A i \in 1..Len(s) : hk[s[i]].port # p
           /\ DevOf(hk, hd, p) \in Devs \union {NoDev}
<1>1. ASSUME NEW i \in 1..Len(s), hk[s[i]].port = p
      PROVE  DevOf(hk, hd, p) = hk[s[i]].dev /\ DevOf(hk, hd, p) \in Devs /\ DevOf(hk, hd, p) # NoDev
  <2>1. Find(hk, hd, p) = s[i] /\ s[i] # NULL
    BY <1>1, FindFacts, LinkedFacts
  <2>2. hk[s[i]].dev \in Devs
    BY Zenon DEF Linked
  <2> QED BY <2>1, <2>2, NoDevAssumption, Zenon DEF DevOf
<1>2. ASSUME \A i \in 1..Len(s) : hk[s[i]].port # p PROVE DevOf(hk, hd, p) = NoDev
  <2>1. Find(hk, hd, p) = NULL
    BY <1>2, FindFacts
  <2> QED BY <2>1, Zenon DEF DevOf
<1> QED BY <1>1, <1>2, Zenon

\* What an insertion does to the devices of the ports.
LEMMA InsertedDevs ==
    ASSUME NEW hk, NEW hd, NEW s, Linked(hk, hd, s), NEW k \in 0..Len(s), NEW p \in Ports, NEW id \in HookIds,
           NEW new, NEW hd2, Linked(new, hd2, Inserted(s, k, id)), new[id].port = p,
           \A i \in 1..Len(s) : new[s[i]].port = hk[s[i]].port /\ new[s[i]].dev = hk[s[i]].dev
    PROVE  \A q \in Ports : DevOf(new, hd2, q) = IF q = p THEN new[id].dev ELSE DevOf(hk, hd, q)
<1> DEFINE n == Len(s)
           t == Inserted(s, k, id)
<1>1. /\ Len(t) = n + 1
      /\ \A i \in 1..(n + 1) : t[i] = IF i <= k THEN s[i] ELSE IF i = k + 1 THEN id ELSE s[i - 1]
  <2>1. s \in Seq(HookIds)
    BY Zenon DEF Linked
  <2>2. Len(t) = n + 1
    BY <2>1, InsertedFacts
  <2>3. \A i \in 1..(n + 1) : t[i] = IF i <= k THEN s[i] ELSE IF i = k + 1 THEN id ELSE s[i - 1]
    BY <2>1, InsertedFacts
  <2> QED BY <2>2, <2>3, Zenon
<1>2. n \in Nat /\ k \in Int /\ 0 <= k /\ k <= n
  BY LinkedFacts
<1> HIDE DEF t
<1>3. k + 1 \in 1..Len(t) /\ t[k + 1] = id
  BY <1>1, <1>2
<1>4. \A i \in 1..n : \E j \in 1..Len(t) : t[j] = s[i]
  <2> SUFFICES ASSUME NEW i \in 1..n PROVE \E j \in 1..Len(t) : t[j] = s[i]
    BY Zenon
  <2> DEFINE j == IF i <= k THEN i ELSE i + 1
  <2>1. j \in 1..Len(t) /\ t[j] = s[i]
    BY <1>1, <1>2
  <2> QED BY <2>1, Zenon
<1>5. \A j \in 1..Len(t) : t[j] = id \/ \E i \in 1..n : t[j] = s[i]
  <2> SUFFICES ASSUME NEW j \in 1..Len(t), j # k + 1 PROVE \E i \in 1..n : t[j] = s[i]
    BY <1>3, Zenon
  <2> DEFINE i == IF j <= k THEN j ELSE j - 1
  <2>1. i \in 1..n /\ t[j] = s[i]
    BY <1>1, <1>2
  <2> QED BY <2>1, Zenon
<1>l. Linked(new, hd2, t)
  BY Zenon DEF t
<1> SUFFICES ASSUME NEW q \in Ports PROVE DevOf(new, hd2, q) = IF q = p THEN new[id].dev ELSE DevOf(hk, hd, q)
  BY Zenon
<1>6. CASE q = p
  BY <1>3, <1>6, <1>l, DevOfFacts
<1>7. CASE q # p /\ \E i \in 1..n : hk[s[i]].port = q
  <2>1. PICK i \in 1..n : hk[s[i]].port = q
    BY <1>7, Zenon
  <2>2. PICK j \in 1..Len(t) : t[j] = s[i]
    BY <1>4, Zenon
  <2>3. new[t[j]].port = q /\ new[t[j]].dev = hk[s[i]].dev
    BY <2>1, <2>2, Zenon
  <2>4. DevOf(new, hd2, q) = new[t[j]].dev
    BY <2>3, <1>l, DevOfFacts
  <2>5. DevOf(hk, hd, q) = hk[s[i]].dev
    BY <2>1, DevOfFacts
  <2> QED BY <2>3, <2>4, <2>5, <1>7, Zenon
<1>8. CASE q # p /\ ~ \E i \in 1..n : hk[s[i]].port = q
  <2>1. \A j \in 1..Len(t) : new[t[j]].port # q
    BY <1>5, <1>8
  <2>2. DevOf(new, hd2, q) = NoDev /\ DevOf(hk, hd, q) = NoDev
    BY <2>1, <1>8, <1>l, DevOfFacts
  <2> QED BY <2>2, <1>8, Zenon
<1> QED BY <1>6, <1>7, <1>8, Zenon

\* What a removal does to the devices of the ports.
LEMMA RemovedDevs ==
    ASSUME NEW hk, NEW hd, NEW s, Linked(hk, hd, s), NEW k \in 1..Len(s),
           NEW new, NEW hd2, Linked(new, hd2, Removed(s, k)),
           \A i \in 1..Len(s) : i # k => new[s[i]].port = hk[s[i]].port /\ new[s[i]].dev = hk[s[i]].dev
    PROVE  \A q \in Ports : DevOf(new, hd2, q) = IF q = hk[s[k]].port THEN NoDev ELSE DevOf(hk, hd, q)
<1> DEFINE n == Len(s)
           t == Removed(s, k)
<1>1. Len(t) = n - 1 /\ \A i \in 1..(n - 1) : t[i] = IF i < k THEN s[i] ELSE s[i + 1]
  <2>1. s \in Seq(HookIds)
    BY Zenon DEF Linked
  <2> QED BY <2>1, RemovedFacts, Zenon
<1>2. n \in Nat /\ k \in Int /\ 1 <= k /\ k <= n
  BY LinkedFacts
<1> HIDE DEF t
<1>3. \A i \in 1..n : i # k => \E j \in 1..Len(t) : t[j] = s[i]
  <2> SUFFICES ASSUME NEW i \in 1..n, i # k PROVE \E j \in 1..Len(t) : t[j] = s[i]
    BY Zenon
  <2> DEFINE j == IF i < k THEN i ELSE i - 1
  <2>1. j \in 1..(n - 1) /\ (j < k => i = j) /\ (~ (j < k) => i = j + 1)
    BY <1>2
  <2> HIDE DEF j
  <2>2. j \in 1..Len(t) /\ t[j] = s[i]
    BY <2>1, <1>1, Zenon
  <2> QED BY <2>2, Zenon
<1>4. \A j \in 1..Len(t) : \E i \in 1..n : i # k /\ t[j] = s[i]
  <2> SUFFICES ASSUME NEW j \in 1..(n - 1) PROVE \E i \in 1..n : i # k /\ t[j] = s[i]
    BY <1>1, Zenon
  <2> DEFINE i == IF j < k THEN j ELSE j + 1
  <2>1. i \in 1..n /\ i # k
    BY <1>2
  <2>2. t[j] = s[i]
    BY <1>1, Zenon
  <2> HIDE DEF i
  <2> QED BY <2>1, <2>2, Zenon
<1>l. Linked(new, hd2, t)
  BY Zenon DEF t
<1> SUFFICES ASSUME NEW q \in Ports
             PROVE  DevOf(new, hd2, q) = IF q = hk[s[k]].port THEN NoDev ELSE DevOf(hk, hd, q)
  BY Zenon
<1>5. CASE q = hk[s[k]].port
  <2>1. \A i \in 1..n : i # k => hk[s[i]].port # q
    BY <1>5, LinkedFacts
  <2>2. ASSUME NEW j \in 1..Len(t) PROVE new[t[j]].port # q
    <3>1. PICK i \in 1..n : i # k /\ t[j] = s[i]
      BY <1>4, Zenon
    <3> QED BY <3>1, <2>1, Zenon
  <2> QED BY <2>2, <1>l, <1>5, DevOfFacts
<1>6. CASE q # hk[s[k]].port /\ \E i \in 1..n : hk[s[i]].port = q
  <2>1. PICK i \in 1..n : hk[s[i]].port = q
    BY <1>6, Zenon
  <2>a. i # k
    BY <1>6, <2>1, Zenon
  <2>2. PICK j \in 1..Len(t) : t[j] = s[i]
    BY <1>3, <2>a, Zenon
  <2>3. new[t[j]].port = q /\ new[t[j]].dev = hk[s[i]].dev
    BY <2>1, <2>2, <2>a, Zenon
  <2>4. DevOf(new, hd2, q) = new[t[j]].dev
    BY <2>3, <1>l, DevOfFacts
  <2>5. DevOf(hk, hd, q) = hk[s[i]].dev
    BY <2>1, DevOfFacts
  <2> QED BY <2>3, <2>4, <2>5, <1>6, Zenon
<1>7. CASE q # hk[s[k]].port /\ ~ \E i \in 1..n : hk[s[i]].port = q
  <2>1. ASSUME NEW j \in 1..Len(t) PROVE new[t[j]].port # q
    <3>1. PICK i \in 1..n : i # k /\ t[j] = s[i]
      BY <1>4, Zenon
    <3> QED BY <3>1, <1>7, Zenon
  <2>2. DevOf(new, hd2, q) = NoDev /\ DevOf(hk, hd, q) = NoDev
    BY <2>1, <1>7, <1>l, DevOfFacts
  <2> QED BY <2>2, <1>7, Zenon
<1> QED BY <1>5, <1>6, <1>7, Zenon

-----------------------------------------------------------------------------
(* The operations of the port map *)

IoInv ==
    /\ hook \in [HookIds -> Hook]
    /\ Linked(hook, head, Chain)
    /\ num_ports = Len(Chain)
    /\ result \in {0, -1}

\* What the map dispatches to, as a function of the list.
LEMMA HookedDevs ==
    ASSUME NEW p
    PROVE  HookedDev(p) = DevOf(hook, head, p) /\ HookedDev(p)' = DevOf(hook', head', p)
BY Walks, Zenon DEF HookedDev, DevOf

\* The invariant after a step that leaves a list s.
LEMMA IoInvNext ==
    ASSUME NEW s, hook' \in [HookIds -> Hook], Linked(hook', head', s), num_ports' = Len(s), result' \in {0, -1}
    PROVE  IoInv' /\ Chain' = s
<1>1. Chain' = s
  BY Walks, WalkFacts, Zenon
<1> QED BY <1>1, Zenon DEF IoInv

\* The search of add_io_hook for the place of a port.
LEMMA PlaceFacts ==
    ASSUME IoInv, head # NULL, NEW p \in Ports, hook[head].port <= p
    PROVE  \E k \in 1..Len(Chain) :
              /\ InsertAfter(p) = Chain[k] /\ hook[Chain[k]].port <= p
              /\ k < Len(Chain) => p < hook[Chain[k + 1]].port
<1> DEFINE c == Chain
           n == Len(c)
           stops == {i \in 1..n : i = n \/ hook[c[i + 1]].port > p}
           k == Least(stops)
<1>1. Linked(hook, head, c)
  BY Zenon DEF IoInv
<1>2. InsertAfter(p) = c[k]
  BY Zenon DEF InsertAfter
<1> HIDE DEF c
<1>3. n \in Nat /\ p \in Nat /\ \A i \in 1..n : hook[c[i]].port \in Nat
  BY <1>1, LinkedFacts, PortsAssumption, Zenon
<1>4. 1 \in 1..n /\ head = c[1] /\ n \in 1..n
  <2>1. n # 0
    BY <1>1, Zenon DEF Linked
  <2> QED BY <2>1, <1>1, <1>3 DEF Linked
<1>5. k \in stops /\ \A i \in stops : k <= i
  <2>1. n \in stops /\ stops \subseteq Nat
    BY <1>3, <1>4
  <2> HIDE DEF stops
  <2> QED BY <2>1, LeastFacts, Zenon
<1>6. k \in 1..n /\ (k < n => hook[c[k + 1]].port > p) /\ \A i \in 1..n : i < k => i # n /\ ~ (hook[c[i + 1]].port > p)
  <2>1. k \in 1..n /\ (k = n \/ hook[c[k + 1]].port > p)
    BY <1>5, Zenon
  <2> HIDE DEF k
  <2>2. ASSUME NEW i \in 1..n, i < k PROVE i \notin stops
    <3>1. k \in Int /\ i \in Int /\ ~ (k <= i)
      <4> HIDE DEF n
      <4> QED BY <2>1, <2>2
    <3> HIDE DEF stops
    <3> QED BY <3>1, <1>5, Zenon
  <2> QED BY <2>1, <2>2, <1>3, Zenon
<1> HIDE DEF k
<1>7. hook[c[k]].port <= p
  <2>1. CASE k = 1
    BY <2>1, <1>4, Zenon
  <2>2. CASE k # 1
    <3>1. k - 1 \in 1..n /\ k - 1 < k /\ (k - 1) + 1 = k
      BY <2>2, <1>3, <1>6
    <3>2. ~ (hook[c[k]].port > p)
      BY <3>1, <1>6, Zenon
    <3> QED BY <3>2, <1>3, <1>6
  <2> QED BY <2>1, <2>2, Zenon
<1>8. k < n => p < hook[c[k + 1]].port
  <2>1. k < n => k + 1 \in 1..n
    BY <1>3, <1>6
  <2> QED BY <2>1, <1>3, <1>6, Zenon
<1> QED BY <1>2, <1>6, <1>7, <1>8, Zenon DEF c

\* A port between two neighbours of the list has no hook, and there is room for one.
LEMMA RoomFacts ==
    ASSUME IoInv, NEW p \in Ports, NEW k \in 0..Len(Chain),
           k > 0 => hook[Chain[k]].port < p, k < Len(Chain) => p < hook[Chain[k + 1]].port
    PROVE  /\ \A i \in 1..Len(Chain) : hook[Chain[i]].port # p
           /\ NewId \in HookIds /\ hook[NewId] = Blank
           /\ DevOf(hook, head, p) = NoDev
<1> DEFINE c == Chain
           n == Len(c)
           T == {h \in HookIds : hook[h] = Blank}
<1>1. Linked(hook, head, c)
  BY Zenon DEF IoInv
<1>a. k \in 0..n /\ (k > 0 => hook[c[k]].port < p) /\ (k < n => p < hook[c[k + 1]].port)
  BY Zenon
<1> HIDE DEF c
<1>2. n \in Nat /\ p \in Nat /\ k \in Int /\ 0 <= k /\ k <= n /\ \A i \in 1..n : hook[c[i]].port \in Nat
  BY <1>1, <1>a, LinkedFacts, PortsAssumption
<1>3. ASSUME NEW i \in 1..n PROVE hook[c[i]].port # p
  <2>0. i \in Int /\ 1 <= i /\ i <= n /\ hook[c[i]].port \in Nat
    BY <1>2
  <2>1. CASE i <= k
    <3>1. k \in 1..n /\ (i = k \/ i < k)
      BY <2>0, <2>1, <1>2
    <3>2. i = k \/ hook[c[i]].port < hook[c[k]].port
      BY <3>1, <1>1, Zenon DEF Linked
    <3>3. hook[c[k]].port \in Nat /\ hook[c[k]].port < p
      BY <3>1, <1>2, <1>a
    <3> QED BY <3>2, <3>3, <2>0, <1>2
  <2>2. CASE ~ (i <= k)
    <3>1. k + 1 \in 1..n /\ (i = k + 1 \/ k + 1 < i) /\ k < n
      BY <2>0, <2>2, <1>2
    <3>2. i = k + 1 \/ hook[c[k + 1]].port < hook[c[i]].port
      BY <3>1, <1>1, Zenon DEF Linked
    <3>3. hook[c[k + 1]].port \in Nat /\ p < hook[c[k + 1]].port
      BY <3>1, <1>2, <1>a, Zenon
    <3> QED BY <3>2, <3>3, <2>0, <1>2, SMTT(30)
  <2> QED BY <2>1, <2>2, Zenon
<1>4. T # {} /\ T \subseteq Nat
  <2>1. \E h \in HookIds : hook[h] = Blank
    BY <1>1, <1>3, FreeHook, Zenon DEF IoInv
  <2>2. HookIds \subseteq Nat
    <3>1. Cardinality(Ports) \in Nat
      BY FS_CardinalityType, PortsAssumption, Zenon
    <3> QED BY <3>1 DEF HookIds
  <2> QED BY <2>1, <2>2, Zenon
<1>5. NewId \in T
  <2>1. NewId = Least(T)
    BY Zenon DEF NewId
  <2> HIDE DEF T
  <2> QED BY <2>1, <1>4, LeastFacts, Zenon
<1>6. DevOf(hook, head, p) = NoDev
  BY <1>1, <1>3, DevOfFacts
<1> QED BY <1>3, <1>5, <1>6, Zenon DEF c

\* The hooks after the hook id is linked into the list c behind the k-th.
LinkIn(id, p, d, c, k) ==
    [h \in HookIds |->
        IF h = id THEN New(p, d, IF k = Len(c) THEN NULL ELSE c[k + 1], IF k = 0 THEN NULL ELSE c[k])
        ELSE [hook[h] EXCEPT !.next = IF k > 0 /\ h = c[k] THEN id ELSE @,
                             !.prev = IF k < Len(c) /\ h = c[k + 1] THEN id ELSE @]]

Link == HookIds \union {NULL}

Relink(r, a, b) == [r EXCEPT !.next = a, !.prev = b]

\* The fields of a hook, and of a hook with other neighbours.
LEMMA RelinkFacts ==
    ASSUME NEW r \in Hook, NEW a \in Link, NEW b \in Link
    PROVE  /\ Relink(r, a, b) \in Hook
           /\ Relink(r, a, b).port = r.port /\ Relink(r, a, b).dev = r.dev
           /\ Relink(r, a, b).next = a /\ Relink(r, a, b).prev = b
           /\ a = r.next /\ b = r.prev => Relink(r, a, b) = r
BY Zenon DEF Hook, Relink, Link

\* The fields of a new hook.
LEMMA NewFacts ==
    ASSUME NEW p \in Ports, NEW d \in Devs, NEW a \in Link, NEW b \in Link
    PROVE  /\ New(p, d, a, b).port = p /\ New(p, d, a, b).dev = d
           /\ New(p, d, a, b).next = a /\ New(p, d, a, b).prev = b
           /\ New(p, d, a, b) \in Hook
BY Zenon DEF New, Hook, Link

\* Linking in a hook at its place keeps the list and changes what one port is dispatched to.
LEMMA AddStep ==
    ASSUME IoInv, NEW p \in Ports, NEW d \in Devs, NEW c, c = Chain, NEW id, id = NewId, NEW k \in 0..Len(c),
           k > 0 => hook[c[k]].port < p, k < Len(c) => p < hook[c[k + 1]].port,
           hook' = LinkIn(id, p, d, c, k), head' = IF k = 0 THEN id ELSE head,
           num_ports' = num_ports + 1, result' = 0
    PROVE  /\ IoInv' /\ HookedDev(p) = NoDev
           /\ \A q \in Ports : HookedDev(q)' = IF q = p THEN d ELSE HookedDev(q)
<1> DEFINE n == Len(c)
           t == Inserted(c, k, id)
<1>1. Linked(hook, head, c) /\ hook \in [HookIds -> Hook] /\ num_ports = n
  BY Zenon DEF IoInv
<1>2. /\ \A i \in 1..n : hook[c[i]].port # p
      /\ id \in HookIds /\ hook[id] = Blank /\ DevOf(hook, head, p) = NoDev
  BY RoomFacts, Zenon
<1>a. /\ k \in 0..n /\ (k > 0 => hook[c[k]].port < p) /\ (k < n => p < hook[c[k + 1]].port)
      /\ head' = IF k = 0 THEN id ELSE head
  BY Zenon
<1>3. n \in Nat /\ c \in Seq(HookIds) /\ (k > 0 => c[k] \in HookIds) /\ (k < n => c[k + 1] \in HookIds)
      /\ (k > 0 => k \in 1..n) /\ (k < n => k + 1 \in 1..n)
  <2>1. n \in Nat /\ c \in Seq(HookIds)
    BY <1>1, LinkedFacts DEF Linked
  <2>2. (k > 0 => k \in 1..n) /\ (k < n => k + 1 \in 1..n)
    BY <2>1, <1>a
  <2> QED BY <2>1, <2>2, <1>1, LinkedFacts, ZenonT(30)
<1> DEFINE first == IF k = n THEN NULL ELSE c[k + 1]
           last == IF k = 0 THEN NULL ELSE c[k]
           nx(h) == IF k > 0 /\ h = c[k] THEN id ELSE hook[h].next
           pv(h) == IF k < n /\ h = c[k + 1] THEN id ELSE hook[h].prev
<1>4. /\ hook'[id] = New(p, d, first, last)
      /\ \A h \in HookIds \ {id} : hook'[h] = Relink(hook[h], nx(h), pv(h))
  BY <1>2, Zenon DEF LinkIn, Relink
<1>b. first \in Link /\ last \in Link
  BY <1>3, <1>a DEF Link
<1>7. hook'[id].port = p /\ hook'[id].dev = d /\ hook'[id].next = first /\ hook'[id].prev = last /\ hook'[id] \in Hook
  <2> HIDE DEF first, last
  <2>1. hook'[id] = New(p, d, first, last)
    BY <1>4, Zenon
  <2>2. LET x == New(p, d, first, last)
        IN  x.port = p /\ x.dev = d /\ x.next = first /\ x.prev = last /\ x \in Hook
    BY <1>b, NewFacts
  <2> QED BY <2>1, <2>2, Zenon
<1>6. ASSUME NEW h \in HookIds \ {id}
      PROVE  /\ hook'[h].port = hook[h].port /\ hook'[h].dev = hook[h].dev
             /\ hook'[h].next = nx(h) /\ hook'[h].prev = pv(h)
             /\ hook[h] = Blank => hook'[h] = Blank
             /\ hook'[h] \in Hook
  <2>1. hook[h] \in Hook
    BY <1>1, Zenon
  <2>2. nx(h) \in Link /\ pv(h) \in Link
    <3>1. hook[h].next \in Link /\ hook[h].prev \in Link
      BY <2>1, Zenon DEF Hook, Link
    <3> QED BY <3>1, <1>2, Zenon DEF Link
  <2>3. ASSUME hook[h] = Blank PROVE nx(h) = hook[h].next /\ pv(h) = hook[h].prev
    <3>1. \A i \in 1..n : c[i] # h
      <4>1. Blank.port = NoPort
        BY Zenon DEF Blank, New
      <4> QED BY <4>1, <2>3, <1>1, LinkedFacts, Zenon
    <3> QED BY <3>1, <1>3, Zenon
  <2> HIDE DEF nx, pv
  <2>4. hook'[h] = Relink(hook[h], nx(h), pv(h))
    BY <1>4, ZenonT(30)
  <2>5. LET x == Relink(hook[h], nx(h), pv(h))
        IN  /\ x.port = hook[h].port /\ x.dev = hook[h].dev /\ x.next = nx(h) /\ x.prev = pv(h)
            /\ (hook[h] = Blank => x = hook[h]) /\ x \in Hook
    BY <2>1, <2>2, <2>3, RelinkFacts
  <2> QED BY <2>4, <2>5, Zenon
<1>5. hook' \in [HookIds -> Hook]
  <2>3. hook' = [h \in HookIds |-> hook'[h]]
    BY ZenonT(30) DEF LinkIn
  <2> QED BY <1>6, <1>7, <2>3
<1>8. Linked(hook', head', t)
  BY <1>1, <1>2, <1>a, <1>6, <1>7, InsertLinked
<1>9. Len(t) = n + 1 /\ num_ports' = Len(t)
  <2>1. k \in 0..Len(c) /\ c \in Seq(HookIds) /\ id \in HookIds
    BY <1>2, <1>3, ZenonT(30)
  <2>2. Len(Inserted(c, k, id)) = Len(c) + 1
    BY <2>1, InsertedFacts
  <2> QED BY <2>2, <1>1, Zenon
<1>10. IoInv'
  BY <1>5, <1>8, <1>9, IoInvNext, Zenon
<1>11. \A i \in 1..n : hook'[c[i]].port = hook[c[i]].port /\ hook'[c[i]].dev = hook[c[i]].dev
  <2>1. \A i \in 1..n : c[i] \in HookIds \ {id}
    <3>1. Blank.port = NoPort
      BY ZenonT(30) DEF Blank, New
    <3> QED BY <3>1, <1>1, <1>2, LinkedFacts, Zenon
  <2> QED BY <2>1, <1>6, Zenon
<1>12. \A q \in Ports : DevOf(hook', head', q) = IF q = p THEN d ELSE DevOf(hook, head, q)
  BY <1>1, <1>2, <1>a, <1>7, <1>8, <1>11, InsertedDevs
<1> QED BY <1>2, <1>10, <1>12, HookedDevs

\* Hooks that agree with LinkIn one by one are LinkIn.
LEMMA LinkInIs ==
    ASSUME NEW id \in HookIds, NEW p, NEW d, NEW c, NEW k, NEW f, f = [h \in HookIds |-> f[h]],
           f[id] = New(p, d, IF k = Len(c) THEN NULL ELSE c[k + 1], IF k = 0 THEN NULL ELSE c[k]),
           \A h \in HookIds \ {id} :
              f[h] = Relink(hook[h], IF k > 0 /\ h = c[k] THEN id ELSE hook[h].next,
                                     IF k < Len(c) /\ h = c[k + 1] THEN id ELSE hook[h].prev)
    PROVE  f = LinkIn(id, p, d, c, k)
<1> DEFINE g == LinkIn(id, p, d, c, k)
<1>1. g = [h \in HookIds |-> g[h]]
  BY Zenon DEF LinkIn
<1>2. g[id] = f[id]
  BY Zenon DEF LinkIn
<1>3. \A h \in HookIds \ {id} : g[h] = f[h]
  BY Zenon DEF LinkIn, Relink
<1> HIDE DEF g
<1>4. \A h \in HookIds : g[h] = f[h]
  BY <1>2, <1>3, Zenon
<1>5. f = g
  BY <1>1, <1>4, Zenon
<1> QED BY <1>5, Zenon DEF g

\* A hook with the neighbours it has.
LEMMA RelinkSame ==
    ASSUME NEW r \in Hook
    PROVE  /\ Relink(r, r.next, r.prev) = r
           /\ \A a : [r EXCEPT !.prev = a] = Relink(r, r.next, a)
BY Zenon DEF Hook, Relink

\* What the calls to hook a port do: the first case is a new hook.
HookDone(p, d) ==
    \/ /\ HookedDev(p) = NoDev /\ result' = 0 /\ num_ports' = num_ports + 1
       /\ \A q \in Ports : HookedDev(q)' = IF q = p THEN d ELSE HookedDev(q)
    \/ /\ HookedDev(p) # NoDev /\ result' = -1 /\ num_ports' = num_ports
       /\ \A q \in Ports : HookedDev(q)' = HookedDev(q)

\* add_io_hook on an empty list.
LEMMA AddFirstStep ==
    ASSUME IoInv, NEW p \in Ports, NEW d \in Devs, AddFirst(p, d)
    PROVE  IoInv' /\ HookDone(p, d)
<1>1. Linked(hook, head, Chain) /\ hook \in [HookIds -> Hook] /\ num_ports = Len(Chain)
  BY Zenon DEF IoInv
<1>2. Len(Chain) = 0
  <2>1. head = NULL
    BY Zenon DEF AddFirst
  <2>2. CASE Len(Chain) # 0
    <3>1. 1 \in 1..Len(Chain)
      BY <2>2, <1>1, LinkedFacts
    <3>2. head = Chain[1]
      BY <2>2, <1>1, Zenon DEF Linked
    <3>3. Chain[1] # NULL
      BY <3>1, <1>1, LinkedFacts, Zenon
    <3> QED BY <3>2, <3>3, <2>1, ZenonT(30)
  <2> QED BY <2>2, Zenon
<1>3. NewId \in HookIds
  BY <1>2, RoomFacts
<1>4. hook' = LinkIn(NewId, p, d, Chain, 0)
  <2>1. hook' = [hook EXCEPT ![NewId] = New(p, d, NULL, NULL)]
    BY Zenon DEF AddFirst
  <2>2. hook' = [h \in HookIds |-> hook'[h]]
    BY <2>1, <1>1, Zenon
  <2>3. hook'[NewId] = New(p, d, NULL, NULL) /\ \A h \in HookIds \ {NewId} : hook'[h] = hook[h]
    BY <2>1, <1>1, <1>3, Zenon
  <2>4. \A h \in HookIds : hook[h] = Relink(hook[h], hook[h].next, hook[h].prev)
    BY <1>1, RelinkSame, Zenon
  <2> QED BY <2>2, <2>3, <2>4, <1>2, <1>3, LinkInIs
<1>5. head' = NewId /\ num_ports' = num_ports + 1 /\ result' = 0
  BY <1>1, <1>2 DEF AddFirst
<1>6. /\ IoInv' /\ HookedDev(p) = NoDev
      /\ \A q \in Ports : HookedDev(q)' = IF q = p THEN d ELSE HookedDev(q)
  <2> DEFINE k == 0
  <2>1. k \in 0..Len(Chain) /\ ~ (k > 0) /\ ~ (k < Len(Chain))
    BY <1>2
  <2>2. hook' = LinkIn(NewId, p, d, Chain, k) /\ head' = IF k = 0 THEN NewId ELSE head
    BY <1>4, <1>5, Zenon
  <2> HIDE DEF k
  <2> QED BY <2>1, <2>2, <1>5, AddStep, Zenon
<1> QED BY <1>5, <1>6, Zenon DEF HookDone

\* add_io_hook before the head of the list.
LEMMA AddAtHeadStep ==
    ASSUME IoInv, NEW p \in Ports, NEW d \in Devs, AddAtHead(p, d)
    PROVE  IoInv' /\ HookDone(p, d)
<1> DEFINE c == Chain
           n == Len(c)
<1>1. Linked(hook, head, c) /\ hook \in [HookIds -> Hook] /\ num_ports = n
  BY Zenon DEF IoInv
<1>2. n \in Nat /\ n > 0 /\ head = c[1] /\ c[1] \in HookIds /\ hook[head].port # NoPort
  <2>1. head # NULL
    BY Zenon DEF AddAtHead
  <2>2. n # 0 /\ head = c[1]
    BY <2>1, <1>1, Zenon DEF Linked
  <2>3. n \in Nat /\ 1 \in 1..n
    BY <2>2, <1>1, LinkedFacts
  <2> QED BY <2>2, <2>3, <1>1, LinkedFacts
<1>3. p < hook[c[1]].port
  <2>1. hook[head].port > p
    BY Zenon DEF AddAtHead
  <2> QED BY <2>1, <1>2, Zenon
<1>4. NewId \in HookIds /\ hook[NewId] = Blank
  BY <1>2, <1>3, RoomFacts
<1>5. NewId # head
  <2>1. Blank.port = NoPort
    BY Zenon DEF Blank, New
  <2> QED BY <2>1, <1>2, <1>4, Zenon
<1>6. hook' = LinkIn(NewId, p, d, c, 0)
  <2>1. hook' = [hook EXCEPT ![NewId] = New(p, d, head, NULL), ![head].prev = NewId]
    BY Zenon DEF AddAtHead
  <2>2. /\ hook' = [h \in HookIds |-> hook'[h]]
        /\ hook'[NewId] = New(p, d, head, NULL)
        /\ hook'[head] = [hook[head] EXCEPT !.prev = NewId]
        /\ \A h \in HookIds \ {NewId, head} : hook'[h] = hook[h]
    BY <2>1, <1>1, <1>2, <1>4, <1>5, Zenon
  <2>3. /\ hook'[head] = Relink(hook[head], hook[head].next, NewId)
        /\ \A h \in HookIds : hook[h] = Relink(hook[h], hook[h].next, hook[h].prev)
    <3>1. hook[head] \in Hook /\ \A h \in HookIds : hook[h] \in Hook
      BY <1>1, <1>2, Zenon
    <3> QED BY <3>1, <2>2, RelinkSame, Zenon
  <2>4. hook'[NewId] = New(p, d, c[0 + 1], NULL) /\ 0 # n /\ 0 < n /\ head = c[0 + 1]
    BY <2>2, <1>2
  <2>5. \A h \in HookIds \ {NewId} :
           hook'[h] = Relink(hook[h], hook[h].next, IF h = head THEN NewId ELSE hook[h].prev)
    BY <2>2, <2>3, Zenon
  <2> HIDE DEF c
  <2> QED BY <2>2, <2>4, <2>5, <1>4, LinkInIs
<1>7. head' = NewId /\ num_ports' = num_ports + 1 /\ result' = 0
  BY Zenon DEF AddAtHead
<1>8. /\ IoInv' /\ HookedDev(p) = NoDev
      /\ \A q \in Ports : HookedDev(q)' = IF q = p THEN d ELSE HookedDev(q)
  <2> DEFINE k == 0
  <2>1. k \in 0..n /\ ~ (k > 0) /\ (k < n => p < hook[c[k + 1]].port)
    BY <1>2, <1>3
  <2>2. hook' = LinkIn(NewId, p, d, c, k) /\ head' = IF k = 0 THEN NewId ELSE head
    BY <1>6, <1>7, Zenon
  <2> HIDE DEF k
  <2> QED BY <2>1, <2>2, <1>7, AddStep, Zenon
<1> QED BY <1>7, <1>8, Zenon DEF HookDone

\* add_io_hook behind a hook of the list.
LEMMA AddAfterStep ==
    ASSUME IoInv, NEW p \in Ports, NEW d \in Devs, AddAfter(p, d)
    PROVE  IoInv' /\ HookDone(p, d)
<1> DEFINE c == Chain
           n == Len(c)
           t == InsertAfter(p)
           new == [h \in HookIds |->
                      IF h = NewId THEN New(p, d, hook[t].next, t)
                      ELSE Relink(hook[h], IF h = t THEN NewId ELSE hook[h].next,
                                           IF h = hook[t].next THEN NewId ELSE hook[h].prev)]
<1>1. Linked(hook, head, c) /\ hook \in [HookIds -> Hook] /\ num_ports = n
  BY Zenon DEF IoInv
<1>2. head # NULL /\ hook[head].port <= p /\ hook[t].port # p /\ head' = head /\ num_ports' = num_ports + 1 /\ result' = 0
  BY Zenon DEF AddAfter
<1>3. hook' = new
  BY Zenon DEF AddAfter, Relink
<1>4. PICK k \in 1..n : /\ t = c[k] /\ hook[c[k]].port <= p
                        /\ k < n => p < hook[c[k + 1]].port
  BY <1>2, PlaceFacts, Zenon
<1> HIDE DEF c, t
<1>5. n \in Nat /\ k \in 0..n /\ k > 0 /\ k # 0 /\ (k < n => k + 1 \in 1..n) /\ (k = n \/ k < n)
  BY <1>1, <1>4, LinkedFacts
<1>6. hook[c[k]].port < p
  <2>1. hook[c[k]].port \in Nat /\ p \in Nat
    BY <1>1, <1>4, LinkedFacts, PortsAssumption, Zenon
  <2> QED BY <2>1, <1>2, <1>4
<1>7. NewId \in HookIds /\ hook[NewId] = Blank
  BY <1>4, <1>5, <1>6, RoomFacts, Zenon DEF c
<1>8. hook[t].next = IF k = n THEN NULL ELSE c[k + 1]
  BY <1>1, <1>4, Zenon DEF Linked
<1>9. new = LinkIn(NewId, p, d, c, k)
  <2>1. new = [h \in HookIds |-> new[h]] /\ new[NewId] = New(p, d, hook[t].next, t)
    BY <1>7, Zenon
  <2>2. \A h \in HookIds \ {NewId} :
           new[h] = Relink(hook[h], IF h = t THEN NewId ELSE hook[h].next,
                                    IF h = hook[t].next THEN NewId ELSE hook[h].prev)
    BY Zenon
  <2>3. \A h \in HookIds : h # NULL
    <3>1. Cardinality(Ports) \in Nat
      BY FS_CardinalityType, PortsAssumption, Zenon
    <3> QED BY <3>1 DEF HookIds, NULL
  <2>4. \A h \in HookIds : (h = hook[t].next <=> k < n /\ h = c[k + 1]) /\ (h = t <=> k > 0 /\ h = c[k])
    BY <2>3, <1>4, <1>5, <1>8
  <2>5. ASSUME NEW h \in HookIds \ {NewId}
        PROVE  new[h] = Relink(hook[h], IF k > 0 /\ h = c[k] THEN NewId ELSE hook[h].next,
                                        IF k < n /\ h = c[k + 1] THEN NewId ELSE hook[h].prev)
    <3>1. (h = hook[t].next <=> k < n /\ h = c[k + 1]) /\ (h = t <=> k > 0 /\ h = c[k])
      BY <2>4, Zenon
    <3>2. new[h] = Relink(hook[h], IF h = t THEN NewId ELSE hook[h].next,
                                   IF h = hook[t].next THEN NewId ELSE hook[h].prev)
      BY <2>2, Zenon
    <3> HIDE DEF new
    <3> QED BY <3>1, <3>2, Zenon
  <2>6. new[NewId] = New(p, d, IF k = n THEN NULL ELSE c[k + 1], IF k = 0 THEN NULL ELSE c[k])
    <3> HIDE DEF new
    <3> QED BY <2>1, <1>4, <1>5, <1>8, Zenon
  <2> HIDE DEF new
  <2> QED BY <2>1, <2>5, <2>6, <1>7, LinkInIs
<1> HIDE DEF new
<1>10. /\ IoInv' /\ HookedDev(p) = NoDev
       /\ \A q \in Ports : HookedDev(q)' = IF q = p THEN d ELSE HookedDev(q)
  <2>1. hook' = LinkIn(NewId, p, d, c, k) /\ head' = IF k = 0 THEN NewId ELSE head
    BY <1>2, <1>3, <1>5, <1>9, Zenon
  <2> QED BY <2>1, <1>2, <1>4, <1>5, <1>6, AddStep, Zenon DEF c
<1> QED BY <1>2, <1>10, Zenon DEF HookDone

\* add_io_hook of a port that has a hook.
LEMMA AddFailsStep ==
    ASSUME IoInv, NEW p \in Ports, NEW d \in Devs, AddFails(p, d)
    PROVE  IoInv' /\ HookDone(p, d)
<1> DEFINE c == Chain
           n == Len(c)
<1>1. Linked(hook, head, c)
  BY Zenon DEF IoInv
<1>2. head # NULL /\ hook[head].port <= p /\ hook[InsertAfter(p)].port = p
      /\ result' = -1 /\ UNCHANGED <<hook, head, num_ports>>
  BY Zenon DEF AddFails
<1>3. PICK k \in 1..n : InsertAfter(p) = c[k]
  BY <1>2, PlaceFacts, Zenon
<1>4. hook[c[k]].port = p /\ hook[c[k]].dev \in Devs
  BY <1>1, <1>2, <1>3, Zenon DEF Linked
<1>5. HookedDev(p) # NoDev
  BY <1>1, <1>4, DevOfFacts, HookedDevs
<1>6. \A q : HookedDev(q)' = HookedDev(q)
  BY <1>2, HookedDevs, Zenon
<1>7. IoInv'
  <2>1. hook' = hook /\ head' = head /\ num_ports' = num_ports /\ result' \in {0, -1}
    BY <1>2, Zenon
  <2>2. hook \in [HookIds -> Hook] /\ num_ports = n
    BY Zenon DEF IoInv
  <2> QED BY <2>1, <2>2, <1>1, IoInvNext, Zenon
<1> QED BY <1>2, <1>5, <1>6, <1>7, Zenon DEF HookDone

\* v3_hook_io_port keeps the list, and hooks the port unless it has a hook.
LEMMA HookStep ==
    ASSUME IoInv, NEW p \in Ports, NEW d \in Devs, HookIoPort(p, d)
    PROVE  IoInv' /\ HookDone(p, d)
BY AddFirstStep, AddAtHeadStep, AddAfterStep, AddFailsStep, Zenon DEF HookIoPort

\* What the calls to unhook a port do.
UnhookDone(p) ==
    \/ /\ HookedDev(p) = NoDev /\ result' = -1 /\ num_ports' = num_ports
       /\ \A q \in Ports : HookedDev(q)' = HookedDev(q)
    \/ /\ HookedDev(p) # NoDev /\ result' = 0 /\ num_ports' = num_ports - 1
       /\ \A q \in Ports : HookedDev(q)' = IF q = p THEN NoDev ELSE HookedDev(q)

\* v3_unhook_io_port of a port without a hook.
LEMMA UnhookFailsStep ==
    ASSUME IoInv, NEW p \in Ports, UnhookFails(p)
    PROVE  IoInv' /\ UnhookDone(p)
<1>1. Get(p) = NULL /\ result' = -1 /\ hook' = hook /\ head' = head /\ num_ports' = num_ports
  BY Zenon DEF UnhookFails
<1>2. HookedDev(p) = NoDev
  BY <1>1, Zenon DEF HookedDev
<1>3. \A q : HookedDev(q)' = HookedDev(q)
  BY <1>1, HookedDevs, Zenon
<1>4. IoInv'
  <2>1. hook \in [HookIds -> Hook] /\ num_ports = Len(Chain) /\ Linked(hook, head, Chain)
    BY Zenon DEF IoInv
  <2> QED BY <2>1, <1>1, IoInvNext, Zenon
<1> QED BY <1>1, <1>2, <1>3, <1>4, Zenon DEF UnhookDone

\* The hook that v3_unhook_io_port finds is in the list, and is not corrupted.
LEMMA FoundFacts ==
    ASSUME IoInv, NEW p \in Ports, Get(p) # NULL
    PROVE  \E k \in 1..Len(Chain) : Get(p) = Chain[k] /\ hook[Chain[k]].port = p /\ ~ Corrupted(Chain[k])
<1> DEFINE c == Chain
           n == Len(c)
<1>1. Linked(hook, head, c)
  BY Zenon DEF IoInv
<1>2. Get(p) = Find(hook, head, p)
  BY Walks, Zenon
<1> HIDE DEF c
<1>3. PICK k \in 1..n : hook[c[k]].port = p
  BY <1>1, <1>2, FindFacts
<1>4. Get(p) = c[k]
  BY <1>1, <1>2, <1>3, FindFacts
<1>5. ~ Corrupted(c[k])
  <2>1. n \in Nat /\ hook[c[k]].prev = (IF k = 1 THEN NULL ELSE c[k - 1]) /\ (n # 0 => head = c[1])
    BY <1>1, LinkedFacts, Zenon DEF Linked
  <2>2. CASE k = 1
    BY <2>1, <2>2 DEF Corrupted
  <2>3. CASE k # 1
    <3>1. k - 1 \in 1..n
      BY <2>1, <2>3
    <3>2. c[k - 1] # NULL
      BY <3>1, <1>1, LinkedFacts, Zenon
    <3> QED BY <3>2, <2>1, <2>3, Zenon DEF Corrupted
  <2> QED BY <2>2, <2>3, Zenon
<1> QED BY <1>3, <1>4, <1>5, Zenon DEF c

\* v3_unhook_io_port of a port that has a hook.
LEMMA UnhookFoundStep ==
    ASSUME IoInv, NEW p \in Ports, UnhookFound(p)
    PROVE  IoInv' /\ UnhookDone(p)
<1> DEFINE c == Chain
           n == Len(c)
<1>1. Linked(hook, head, c) /\ hook \in [HookIds -> Hook] /\ num_ports = n
  BY Zenon DEF IoInv
<1>2. PICK k \in 1..n : Get(p) = c[k] /\ hook[c[k]].port = p /\ ~ Corrupted(c[k])
  BY FoundFacts, Zenon DEF UnhookFound
<1> DEFINE x == c[k]
           t == Removed(c, k)
           nx(h) == IF x # head /\ h = hook[x].prev THEN hook[x].next ELSE hook[h].next
           pv(h) == IF h = hook[x].next THEN hook[x].prev ELSE hook[h].prev
<1>3. hook' = Unlink(x) /\ head' = (IF x = head THEN hook[x].next ELSE head) /\ num_ports' = num_ports - 1 /\ result' = 0
  BY <1>2, Zenon DEF UnhookFound
<1> HIDE DEF c
<1>4. n \in Nat /\ x \in HookIds /\ c \in Seq(HookIds) /\ hook[x].next \in Link /\ hook[x].prev \in Link
  <2>1. n \in Nat /\ x \in HookIds /\ c \in Seq(HookIds)
    BY <1>1, <1>2, LinkedFacts DEF Linked
  <2>2. hook[x] \in Hook
    BY <2>1, <1>1, Zenon
  <2> QED BY <2>1, <2>2, Zenon DEF Hook, Link
<1>5. hook' = [h \in HookIds |-> hook'[h]] /\ hook'[x] = Blank
  BY <1>3, <1>4, Zenon DEF Unlink
<1>6. \A h \in HookIds \ {x} : hook'[h] = Relink(hook[h], nx(h), pv(h))
  BY <1>3, Zenon DEF Unlink, Relink
<1>7. Blank.port = NoPort /\ Blank \in Hook /\ Blank.next = NULL /\ Blank.prev = NULL
  BY Zenon DEF Blank, New, Hook
<1>8. ASSUME NEW h \in HookIds \ {x}
      PROVE  /\ hook'[h].port = hook[h].port /\ hook'[h].dev = hook[h].dev
             /\ hook'[h].next = nx(h) /\ hook'[h].prev = pv(h)
             /\ hook[h] = Blank => hook'[h] = Blank
             /\ hook'[h] \in Hook
  <2>1. hook[h] \in Hook
    BY <1>1, Zenon
  <2>2. nx(h) \in Link /\ pv(h) \in Link
    <3>1. hook[h].next \in Link /\ hook[h].prev \in Link
      BY <2>1, Zenon DEF Hook, Link
    <3> QED BY <3>1, <1>4, Zenon
  <2>3. ASSUME hook[h] = Blank PROVE nx(h) = hook[h].next /\ pv(h) = hook[h].prev
    <3>1. \A i \in 1..n : c[i] # h
      BY <2>3, <1>1, <1>7, LinkedFacts, Zenon
    <3>2. hook[x].next = (IF k = n THEN NULL ELSE c[k + 1]) /\ hook[x].prev = IF k = 1 THEN NULL ELSE c[k - 1]
      BY <1>1, Zenon DEF Linked
    <3>3. (k # n => k + 1 \in 1..n) /\ (k # 1 => k - 1 \in 1..n)
      BY <1>4
    <3>4. h # NULL
      <4>1. Cardinality(Ports) \in Nat
        BY FS_CardinalityType, PortsAssumption, Zenon
      <4> QED BY <4>1 DEF HookIds, NULL
    <3>5. h # hook[x].next /\ h # hook[x].prev
      BY <3>1, <3>2, <3>3, <3>4, Zenon
    <3> QED BY <3>5, Zenon
  <2> HIDE DEF nx, pv
  <2>4. hook'[h] = Relink(hook[h], nx(h), pv(h))
    BY <1>6, Zenon
  <2>5. LET y == Relink(hook[h], nx(h), pv(h))
        IN  /\ y.port = hook[h].port /\ y.dev = hook[h].dev /\ y.next = nx(h) /\ y.prev = pv(h)
            /\ (hook[h] = Blank => y = hook[h]) /\ y \in Hook
    BY <2>1, <2>2, <2>3, RelinkFacts, SMTT(30)
  <2> QED BY <2>4, <2>5, Zenon
<1>9. hook' \in [HookIds -> Hook]
  BY <1>5, <1>7, <1>8, Zenon
<1>10. Linked(hook', head', t)
  BY <1>1, <1>2, <1>3, <1>5, <1>8, RemoveLinked
<1>11. num_ports' = Len(t)
  BY <1>1, <1>3, <1>4, RemovedFacts, Zenon
<1>12. IoInv'
  BY <1>3, <1>9, <1>10, <1>11, IoInvNext, Zenon
<1>13. \A i \in 1..n : i # k => hook'[c[i]].port = hook[c[i]].port /\ hook'[c[i]].dev = hook[c[i]].dev
  <2>1. \A i \in 1..n : i # k => c[i] \in HookIds \ {x}
    BY <1>1, LinkedFacts, Zenon
  <2> QED BY <2>1, <1>8, Zenon
<1>14. \A q \in Ports : DevOf(hook', head', q) = IF q = p THEN NoDev ELSE DevOf(hook, head, q)
  BY <1>1, <1>2, <1>10, <1>13, RemovedDevs
<1>15. DevOf(hook, head, p) # NoDev
  BY <1>1, <1>2, DevOfFacts
<1> QED BY <1>3, <1>12, <1>14, <1>15, HookedDevs, Zenon DEF UnhookDone

\* v3_unhook_io_port keeps the list, and frees the port.
LEMMA UnhookStep ==
    ASSUME IoInv, NEW p \in Ports, UnhookIoPort(p)
    PROVE  IoInv' /\ UnhookDone(p)
BY UnhookFailsStep, UnhookFoundStep, Zenon DEF UnhookIoPort

-----------------------------------------------------------------------------
(* The theorems *)

\* The map starts out with no hook.
LEMMA InitIoMapHolds == InitIoMap => IoInv /\ \A q \in Ports : HookedDev(q) = NoDev
<1> SUFFICES ASSUME InitIoMap PROVE IoInv /\ \A q \in Ports : HookedDev(q) = NoDev
  BY Zenon
<1>1. hook = [h \in HookIds |-> Blank] /\ head = NULL /\ num_ports = 0 /\ result = 0
  BY Zenon DEF InitIoMap
<1>2. Blank \in Hook
  BY Zenon DEF Blank, New, Hook
<1>3. Linked(hook, head, <<>>)
  BY <1>1 DEF Linked
<1>4. Chain = <<>>
  BY <1>3, Walks, WalkFacts, Zenon
<1>5. IoInv
  BY <1>1, <1>2, <1>3, <1>4, Zenon DEF IoInv
<1>6. \A q \in Ports : HookedDev(q) = NoDev
  BY <1>3, DevOfFacts, HookedDevs
<1> QED BY <1>5, <1>6, Zenon

\* What the invariant says of the list.
LEMMA IoInvList == IoInv => ListWellFormed
BY Zenon DEF IoInv, Linked, ListWellFormed

\* A step that changes nothing keeps the map.
LEMMA IoStutter ==
    ASSUME IoInv, UNCHANGED ioVars
    PROVE  IoInv' /\ (\A q \in Ports : HookedDev(q)' = HookedDev(q)) /\ result' = result
<1>1. hook' = hook /\ head' = head /\ num_ports' = num_ports /\ result' = result
  BY Zenon DEF ioVars
<1>2. hook \in [HookIds -> Hook] /\ num_ports = Len(Chain) /\ Linked(hook, head, Chain) /\ result \in {0, -1}
  BY Zenon DEF IoInv
<1>3. IoInv'
  BY <1>1, <1>2, IoInvNext, Zenon
<1> QED BY <1>1, <1>3, HookedDevs, Zenon

\* After any calls, in any order and for any ports and devices, the hooks of the map are
\* a doubly linked list, sorted by port and counted by num_ports.
THEOREM PortListSound == Spec => []ListWellFormed
<1>1. Init => IoInv
  BY InitIoMapHolds, Zenon DEF Init
<1>2. IoInv /\ [Next]_ioVars => IoInv'
  <2> SUFFICES ASSUME IoInv, [Next]_ioVars PROVE IoInv'
    BY Zenon
  <2>1. CASE Next
    BY <2>1, HookStep, UnhookStep, Zenon DEF Next
  <2>2. CASE UNCHANGED ioVars
    BY <2>2, IoStutter, Zenon
  <2> QED BY <2>1, <2>2, Zenon
<1> QED BY <1>1, <1>2, IoInvList, PTL DEF Spec

-----------------------------------------------------------------------------
(* The refinement *)

\* The abstract ports of an initial state.
LEMMA AbstractInit == InitIoMap => AbstractPorts!Init
<1> SUFFICES ASSUME InitIoMap PROVE AbstractPorts!Init
  BY Zenon
<1>1. result = 0 /\ \A q \in Ports : HookedDev(q) = NoDev
  BY InitIoMapHolds, Zenon DEF InitIoMap
<1> QED BY <1>1, Zenon DEF AbstractPorts!Init

\* A call to hook a port is the abstract one.
LEMMA AbstractHook ==
    ASSUME IoInv, NEW p \in Ports, NEW d \in Devs, HookIoPort(p, d)
    PROVE  AbstractPorts!HookIoPort(p, d)
<1>1. HookDone(p, d)
  BY HookStep, Zenon
<1> QED BY <1>1, Zenon DEF HookDone, AbstractPorts!HookIoPort, AbstractPorts!Dispatch

\* A call to unhook a port is the abstract one.
LEMMA AbstractUnhook ==
    ASSUME IoInv, NEW p \in Ports, UnhookIoPort(p)
    PROVE  AbstractPorts!UnhookIoPort(p)
<1>1. UnhookDone(p)
  BY UnhookStep, Zenon
<1> QED BY <1>1, Zenon DEF UnhookDone, AbstractPorts!UnhookIoPort, AbstractPorts!Dispatch

\* A step that leaves the map alone leaves the abstract ports alone.
LEMMA AbstractStutter ==
    ASSUME IoInv, UNCHANGED ioVars
    PROVE  UNCHANGED <<[p \in Ports |-> HookedDev(p)], result>>
BY IoStutter, Zenon

\* The list of hooks that v3_hook_io_port and v3_unhook_io_port edit implements the
\* partial function from ports to devices that IoPorts specifies.
THEOREM PortMapRefines == Spec => ImplementsIoPorts
<1>1. Init => IoInv /\ AbstractPorts!Init
  BY InitIoMapHolds, AbstractInit, Zenon DEF Init
<1>2. IoInv /\ [Next]_ioVars => IoInv' /\ [AbstractPorts!Next]_<<[p \in Ports |-> HookedDev(p)], result>>
  <2> SUFFICES ASSUME IoInv, [Next]_ioVars
               PROVE  IoInv' /\ [AbstractPorts!Next]_<<[p \in Ports |-> HookedDev(p)], result>>
    BY Zenon
  <2>1. CASE Next
    <3>1. PICK p \in Ports : (\E d \in Devs : HookIoPort(p, d)) \/ UnhookIoPort(p)
      BY <2>1, Zenon DEF Next
    <3>2. ASSUME NEW d \in Devs, HookIoPort(p, d) PROVE IoInv' /\ AbstractPorts!Next
      BY <3>2, HookStep, AbstractHook, Zenon DEF AbstractPorts!Next
    <3>3. CASE UnhookIoPort(p)
      BY <3>3, UnhookStep, AbstractUnhook, Zenon DEF AbstractPorts!Next
    <3> QED BY <3>1, <3>2, <3>3, Zenon
  <2>2. CASE UNCHANGED ioVars
    BY <2>2, IoStutter, AbstractStutter, Zenon
  <2> QED BY <2>1, <2>2, Zenon
<1> QED BY <1>1, <1>2, PTL DEF Spec, ImplementsIoPorts, AbstractPorts!Spec

=============================================================================
