------------------------------ MODULE VmmProofs ------------------------------
(***************************************************************************)
(* Proofs about three parts of the VMM, each for every value of its        *)
(* constants.                                                              *)
(*                                                                         *)
(* SvmIntr: interrupts and exceptions for every set of IRQs, vector bases, *)
(* masks and exceptions.                                                   *)
(*                                                                         *)
(* Pit8254: the timer for every byte width, crystal period, set of cycle   *)
(* counts and guest program.                                               *)
(*                                                                         *)
(* ShadowMap: the memory map for every size of the BIOS images and every   *)
(* page.                                                                   *)
(***************************************************************************)
EXTENDS SvmIntr, Pit8254, ShadowMap, WellFoundedInduction, TLAPS

-----------------------------------------------------------------------------
(* SvmIntr *)

(* The inductive invariant. *)

\* Where the pending exception is while the thread handles an exit.
ExceptionFlow ==
    /\ pc \in {"dispatch", "lowered", "pending", "type"} => evinj = {} /\ excp = raised
    /\ pc \in {"dispatch", "lowered"} => excp = {}
    /\ pc \in {"entry", "guest", "number", "begin", "begun"} =>
         excp = {} /\ evinj = raised

\* A request the thread has seen stays requested: host handlers only raise.
RequestKept ==
    /\ pc = "type" => excp # {} \/ IntrPending
    /\ pc = "number" => IntrPending

\* Between pic_get_intr_number and pic_begin_irq the selected line stays
\* requested, and on the master no lower line can overtake it.
LineKept ==
    /\ pc \in {"dispatch", "lowered", "pending", "type", "number"} => line = NoLine
    /\ pc = "begin" =>
         /\ line # NoLine
         /\ num = icw2[line[1]] + line[2]
         /\ line[2] \in Unmasked(line[1])
    /\ pc = "begun" => line # NoLine
    /\ pc = "begun" /\ Programmed => line[2] \in isr[line[1]]

IInv ==
    /\ TypeOK
    /\ NoInvalidInterrupt
    /\ NoStackedException
    /\ ExceptionFlow
    /\ RequestKept
    /\ LineKept
    /\ InjectedIsAccounted

-----------------------------------------------------------------------------
(* Lemmas about the operators of PIC8259. *)

\* A nonempty set of lines has a highest one.
LEMMA HighestLemma ==
    ASSUME NEW S \in SUBSET Pins, S # {}
    PROVE  Highest(S) \in S /\ \A j \in S : j <= Highest(S)
<1>1. \E i \in S : \A j \in S : j <= i
  <2> DEFINE Above(k) == \A j \in S : j <= k
  <2>1. Above(7)
    BY DEF Pins
  <2>2. ASSUME NEW k \in 1..7, Above(k), k \notin S PROVE Above(k - 1)
    <3>1. \A j \in S : j \in 0..7 /\ j <= k /\ j # k
      BY <2>2, Zenon DEF Pins
    <3> QED
      BY <3>1
  <2>3. ~(Above(0) /\ 0 \notin S)
    <3>1. PICK x \in S : TRUE
      BY Zenon
    <3> QED
      BY <3>1 DEF Pins
  <2>4. \E k \in 0..7 : Above(k) /\ k \in S
    <3> HIDE DEF Above
    <3>1. Above(6) \/ 7 \in S
      BY <2>1, <2>2
    <3>2. Above(5) \/ \E k \in 6..7 : Above(k) /\ k \in S
      BY <2>1, <2>2, <3>1
    <3>3. Above(4) \/ \E k \in 5..7 : Above(k) /\ k \in S
      BY <2>2, <3>2
    <3>4. Above(3) \/ \E k \in 4..7 : Above(k) /\ k \in S
      BY <2>2, <3>3
    <3>5. Above(2) \/ \E k \in 3..7 : Above(k) /\ k \in S
      BY <2>2, <3>4
    <3>6. Above(1) \/ \E k \in 2..7 : Above(k) /\ k \in S
      BY <2>2, <3>5
    <3>7. Above(0) \/ \E k \in 1..7 : Above(k) /\ k \in S
      BY <2>2, <3>6
    <3> QED
      BY <2>3, <3>7
  <2> QED
    BY <2>4, Zenon
<1> QED
  BY <1>1, Zenon DEF Highest

\* With aligned, distinct bases a vector determines its line.
LEMMA VectorLemma ==
    ASSUME TypeOK, Programmed, NEW c \in Chips, NEW p \in Pins
    PROVE  /\ BeginChip(icw2[c] + p) = c
           /\ (icw2[c] + p) % 8 = p
           /\ BeginFinds(icw2[c] + p)
<1>1. icw2[c] \in 0..255 /\ icw2["master"] \in 0..255 /\ icw2["slave"] \in 0..255
  BY DEF TypeOK, Chips
<1>2. (icw2[c] + p) % 8 = p
  BY <1>1 DEF Programmed, Pins
<1>3. InRange(icw2[c] + p, c)
  <2>1. \A a \in 0..255 : a + p \in a .. a + 7
    BY DEF Pins
  <2> QED
    BY <1>1, <2>1, Zenon DEF InRange
<1>4. c = "slave" => ~InRange(icw2[c] + p, "master")
  <2>1. icw2["master"] % 8 = 0 /\ icw2["slave"] % 8 = 0 /\ icw2["master"] # icw2["slave"]
    BY Zenon DEF Programmed, Chips
  <2>2. ASSUME NEW a \in 0..255, NEW b \in 0..255, a % 8 = 0, b % 8 = 0, a # b
        PROVE  a + 7 < b \/ b + 7 < a
    <3>1. a = 8 * (a \div 8) /\ b = 8 * (b \div 8) /\ a \div 8 \in Int /\ b \div 8 \in Int
      BY <2>2
    <3>2. \A x, y \in Int : x # y => 8 * x + 7 < 8 * y \/ 8 * y + 7 < 8 * x
      OBVIOUS
    <3> QED
      BY <2>2, <3>1, <3>2, Zenon
  <2>3. icw2["master"] + 7 < icw2["slave"] \/ icw2["slave"] + 7 < icw2["master"]
    BY <1>1, <2>1, <2>2, Zenon
  <2>4. p \in 0..7
    BY Zenon DEF Pins
  <2>5. ASSUME NEW a \in 0..255, NEW b \in 0..255, a + 7 < b \/ b + 7 < a
        PROVE  ~(b + p \in a .. a + 7)
    BY <2>4, <2>5
  <2> QED
    BY <1>1, <2>3, <2>5, Zenon DEF InRange
<1> QED
  BY <1>2, <1>3, <1>4, ZenonT(30) DEF BeginChip, BeginFinds, Chips

\* The number reported is that of an unmasked request.
LEMMA NumberLemma ==
    ASSUME TypeOK, IntrPending
    PROVE  /\ SelectedChip \in Chips
           /\ SelectedPin \in Unmasked(SelectedChip)
           /\ SelectedPin \in Pins
           /\ GetIntrNumber = icw2[SelectedChip] + SelectedPin
<1>1. SelectedChip \in Chips /\ Unmasked(SelectedChip) # {}
  BY Zenon DEF IntrPending, SelectedChip, Chips
<1>2. Unmasked(SelectedChip) \in SUBSET Pins
  BY <1>1, ZenonT(30) DEF TypeOK, Unmasked
<1> QED
  BY <1>1, <1>2, HighestLemma, Zenon DEF SelectedPin, GetIntrNumber

-----------------------------------------------------------------------------
(* Type correctness. *)

LEMMA RaiseType ==
    ASSUME TypeOK, NEW i \in 0..15, RaiseIntr(i)
    PROVE  /\ irr' \in [Chips -> SUBSET Pins]
           /\ \A c \in Chips : irr[c] \subseteq irr'[c]
           /\ UNCHANGED <<isr, imr, icw1, icw2, ocw3, state>>
<1>1. \A c \in Chips : RaisedPins(i, c) \in SUBSET Pins
  BY DEF RaisedPins, Pin, Pins, Chips
<1> QED
  BY <1>1, Zenon DEF RaiseIntr, TypeOK

\* The PIC part of TypeOK, kept by every write of the guest to a PIC port.
LEMMA PicWriteType ==
    ASSUME TypeOK, HandlePicWrite
    PROVE  TypeOK'
<1> USE Icw1Assumption, BasesAssumption, MasksAssumption, Ocw3Assumption
<1> PICK c \in Chips :
          \/ \E w \in Icw1Words : WriteIcw1(c, w)
          \/ \E b \in Bases : WriteIcw2(c, b)
          \/ WriteIcw3(c)
          \/ WriteIcw4(c)
          \/ \E m \in Masks : WriteMask(c, m)
          \/ \E w \in Ocw3Words : WriteOcw3(c, w)
          \/ \E l \in Pins : SpecificEoi(c, l)
          \/ NonSpecificEoi(c)
  BY Zenon DEF HandlePicWrite
<1> UNCHANGED <<excp, evinj, vintr, num, saved, line, answered, raised, quiet>> /\ pc' = "pending"
  BY ZenonT(30) DEF HandlePicWrite, Dispatched
<1>1. CASE \E w \in Icw1Words : WriteIcw1(c, w)
  BY <1>1, SMTT(30) DEF WriteIcw1, TypeOK, States, Locations
<1>2. CASE \E b \in Bases : WriteIcw2(c, b)
  BY <1>2 DEF WriteIcw2, AfterIcw2, AfterIcw3, TypeOK, States, Locations
<1>3. CASE WriteIcw3(c)
  BY <1>3, Zenon DEF WriteIcw3, AfterIcw3, TypeOK, States, Locations
<1>4. CASE WriteIcw4(c)
  BY <1>4, ZenonT(30) DEF WriteIcw4, TypeOK, States, Locations
<1>5. CASE \E m \in Masks : WriteMask(c, m)
  BY <1>5, SMTT(30) DEF WriteMask, TypeOK, Locations, Pins
<1>6. CASE \E w \in Ocw3Words : WriteOcw3(c, w)
  BY <1>6, SMTT(30) DEF WriteOcw3, TypeOK, Locations
<1>7. CASE \E l \in Pins : SpecificEoi(c, l)
  BY <1>7 DEF SpecificEoi, TypeOK, Locations
<1>8. CASE NonSpecificEoi(c)
  BY <1>8, ZenonT(30) DEF NonSpecificEoi, TypeOK, Locations
<1> QED
  BY <1>1, <1>2, <1>3, <1>4, <1>5, <1>6, <1>7, <1>8, Zenon

LEMMA TypeStep ==
    ASSUME TypeOK, [Next]_vars
    PROVE  TypeOK'
<1> USE IrqsAssumption, HostIrqsAssumption, ExceptionsAssumption DEF Locations
<1>1. CASE Enter \/ HandleOther \/ HandleFails \/ CheckPending \/ GetType \/ BeginSkips
  BY <1>1 DEF TypeOK, picVars, Enter, HandleOther, HandleFails,
              Dispatched, CheckPending, GetType, BeginSkips
<1>12. CASE TakeVirtualIntr
  BY <1>12, ZenonT(30) DEF TypeOK, picVars, TakeVirtualIntr
<1>2. CASE VmExit
  <2>1. irr' \in [Chips -> SUBSET Pins] /\ UNCHANGED <<isr, imr, icw1, icw2, ocw3, state>>
    BY <1>2, RaiseType, Zenon DEF VmExit, picVars, TypeOK
  <2> QED
    BY <1>2, <2>1 DEF TypeOK, VmExit
<1>3. CASE HandlePicWrite
  BY <1>3, PicWriteType, Zenon
<1>4. CASE HandleHalt \/ HandleRaise \/ HostInterrupt
  <2>1. \E i \in 0..15 : RaiseIntr(i)
    BY <1>4, Zenon DEF HandleHalt, HandleRaise, HostInterrupt
  <2>2. irr' \in [Chips -> SUBSET Pins] /\ UNCHANGED <<isr, imr, icw1, icw2, ocw3, state>>
    BY <2>1, RaiseType, Zenon
  <2> QED
    BY <1>4, <2>2 DEF TypeOK, vmmVars, HandleHalt, HandleRaise, HostInterrupt, Dispatched
<1>5. CASE HandleException
  BY <1>5 DEF TypeOK, picVars, HandleException
<1>6. CASE HandleLower
  <2>1. PICK i \in Irqs : /\ saved' = [chip |-> Chip(i), lines |-> irr[Chip(i)] \ {Pin(i)}]
                           /\ answered' = <<Chip(i), Pin(i)>>
    BY <1>6, Zenon DEF HandleLower
  <2>2. Chip(i) \in Chips
    BY Zenon DEF Chip, Chips
  <2>3. Pin(i) \in Pins
    BY SMT DEF Pin, Pins
  <2> QED
    BY <1>6, <2>1, <2>2, <2>3, ZenonT(30) DEF TypeOK, picVars, HandleLower
<1>7. CASE FinishLower \/ FinishBegin
  BY <1>7 DEF TypeOK, FinishLower, FinishBegin, StoreIrr, Unused, Chips
<1>8. CASE InjectException
  BY <1>8, Zenon DEF TypeOK, picVars, InjectException
<1>9. CASE GetNumber
  <2>1. num' \in 0..262
    <3>1. CASE IntrPending
      <4>1. icw2[SelectedChip] \in 0..255
        BY <3>1, NumberLemma DEF TypeOK
      <4> QED
        BY <1>9, <3>1, <4>1, NumberLemma, SMTT(30) DEF GetNumber, Pins
    <3>2. CASE ~IntrPending
      BY <1>9, <3>2 DEF GetNumber
    <3> QED
      BY <3>1, <3>2, Zenon
  <2>2. num' % 256 \in 0..255
    <3>1. \A n \in Int : n % 256 \in 0..255
      OBVIOUS
    <3>2. num' \in Int
      BY <2>1
    <3> QED
      BY <3>1, <3>2, ZenonT(30)
  <2>3. vintr' \in [irq : BOOLEAN, vector : 0..255]
    BY <1>9, <2>2, Zenon DEF GetNumber
  <2>4. line' \in (Chips \X Pins) \union {NoLine}
    BY <1>9, NumberLemma, Zenon DEF GetNumber
  <2> QED
    BY <1>9, <2>1, <2>3, <2>4, Zenon DEF TypeOK, picVars, GetNumber
<1>10. CASE BeginSlave \/ BeginMaster
  <2>1. num % 8 \in Pins
    BY DEF TypeOK, Pins
  <2>2. BeginChip(num) \in Chips /\ "master" \in Chips
    BY Zenon DEF BeginChip, Chips
  <2>3. IsrAfterBegin(num) \in [Chips -> SUBSET Pins] /\ IrrAfterBegin(num) \in [Chips -> SUBSET Pins]
    BY <2>1, <2>2 DEF TypeOK, IsrAfterBegin, IrrAfterBegin
  <2>4. CASE BeginSlave
    <3>1. answered' \in (Chips \X Pins) \union {NoLine}
      BY <2>1, <2>4, Zenon DEF BeginSlave, Chips
    <3> QED
      BY <2>3, <2>4, <3>1, Zenon DEF TypeOK, BeginSlave, BeginIrq
  <2>5. CASE BeginMaster
    <3>1. answered' \in (Chips \X Pins) \union {NoLine}
      BY <2>1, <2>5, Zenon DEF BeginMaster, Chips
    <3> QED
      BY <2>2, <2>3, <2>5, <3>1, Zenon DEF TypeOK, BeginMaster
  <2> QED
    BY <1>10, <2>4, <2>5, Zenon
<1>11. CASE UNCHANGED vars
  BY <1>11, ZenonT(30) DEF TypeOK, vars, picVars, vmmVars
<1> QED
  BY <1>1, <1>2, <1>3, <1>4, <1>5, <1>6, <1>7, <1>8, <1>9, <1>10, <1>11, <1>12, Zenon
  DEF Next, Thread

-----------------------------------------------------------------------------
(* The inductive invariant. *)

\* A raise keeps every unmasked request, and what overtook a line stays above.
LEMMA RaiseKeeps ==
    ASSUME TypeOK, NEW i \in 0..15, RaiseIntr(i)
    PROVE  /\ \A c \in Chips : Unmasked(c) \subseteq Unmasked(c)'
           /\ IntrPending => IntrPending'
           /\ \A p \in Unmasked("master") :
                Highest(Unmasked("master")) > p => Highest(Unmasked("master"))' > p
<1>1. \A c \in Chips : Unmasked(c) \subseteq Unmasked(c)'
  BY RaiseType, Zenon DEF Unmasked
<1>2. IntrPending => IntrPending'
  BY <1>1, Zenon DEF IntrPending
<1>3. ASSUME NEW p \in Unmasked("master"), Highest(Unmasked("master")) > p
      PROVE  Highest(Unmasked("master"))' > p
  <2> DEFINE S == Unmasked("master")
             T == Unmasked("master")'
  <2>1. S \in SUBSET Pins /\ T \in SUBSET Pins /\ S \subseteq T /\ S # {} /\ T # {}
    BY <1>1, <1>3, RaiseType DEF TypeOK, Unmasked, Chips
  <2>2. Highest(S) \in S /\ Highest(T) \in T /\ \A j \in T : j <= Highest(T)
    BY <2>1, HighestLemma, Zenon
  <2>3. Highest(S) \in 0..7 /\ Highest(T) \in 0..7 /\ p \in 0..7 /\ Highest(S) <= Highest(T)
    BY <2>1, <2>2, Zenon DEF Pins
  <2>4. Highest(T) > p
    BY <1>3, <2>3
  <2> QED
    BY <2>4, Zenon DEF Highest
<1> QED
  BY <1>1, <1>2, <1>3, Zenon

\* What the exit handler does before the injection block.
LEMMA HandlerStep ==
    ASSUME IInv, TypeOK',
           \/ HandleOther \/ HandleFails \/ HandlePicWrite \/ HandleHalt
           \/ HandleRaise \/ HandleException \/ HandleLower \/ FinishLower
    PROVE  IInv'
<1>1. pc' \in {"pending", "lowered", "failed"}
  BY Zenon DEF IInv, ExceptionFlow, HandleOther, HandleFails, HandlePicWrite, HandleHalt,
         HandleRaise, HandleException, HandleLower, FinishLower, Dispatched
<1>2. ExceptionFlow'
  BY <1>1, Zenon DEF IInv, ExceptionFlow, HandleOther, HandleFails, HandlePicWrite, HandleHalt,
              HandleRaise, HandleException, HandleLower, FinishLower, Dispatched
<1>3. line' = NoLine
  BY Zenon DEF IInv, LineKept, HandleOther, HandleFails, HandlePicWrite, HandleHalt,
         HandleRaise, HandleException, HandleLower, FinishLower, Dispatched
<1> QED
  BY <1>1, <1>2, <1>3, Zenon DEF IInv, NoInvalidInterrupt, NoStackedException, RequestKept, LineKept,
                    InjectedIsAccounted

\* pic_begin_irq puts the selected line in service, or a higher one is there.
LEMMA BeginStep ==
    ASSUME IInv, TypeOK', BeginSlave \/ BeginSkips \/ BeginMaster
    PROVE  IInv'
<1>1. PICK c \in Chips, p \in Pins : line = <<c, p>> /\ num = icw2[c] + p /\ p \in Unmasked(c)
  <2>1. pc = "begin"
    BY Zenon DEF BeginSlave, BeginSkips, BeginMaster
  <2>2. line \in Chips \X Pins
    BY <2>1, Zenon DEF IInv, LineKept, TypeOK
  <2> QED
    BY <2>1, <2>2 DEF IInv, LineKept
<1>2. UNCHANGED <<imr, icw2, excp, evinj, num, line, raised>> /\ pc' \in {"entry", "begun"}
  BY Zenon DEF BeginSlave, BeginSkips, BeginMaster, BeginIrq, picVars
<1>3. ExceptionFlow' /\ RequestKept' /\ NoInvalidInterrupt' /\ NoStackedException'
  BY <1>2, Zenon DEF IInv, ExceptionFlow, RequestKept, NoInvalidInterrupt, NoStackedException,
              BeginSlave, BeginSkips, BeginMaster
<1>4. Programmed => BeginChip(num) = c /\ num % 8 = p /\ BeginFinds(num)
  BY <1>1, VectorLemma, Zenon DEF IInv
<1>5. Programmed' = Programmed
  BY <1>2, Zenon DEF Programmed
<1>6. line # NoLine
  BY <1>1, NoLineAssumption
<1>7. CASE BeginSlave
  <2>1. Programmed => p \in isr'[c]
    <3>1. BeginFinds(num) /\ Begins(num) /\ BeginIrq(num)
      BY <1>7, Zenon DEF BeginSlave, Begins
    <3>2. isr' = IsrAfterBegin(num)
      BY <3>1, Zenon DEF BeginIrq
    <3>3. isr \in [Chips -> SUBSET Pins]
      BY Zenon DEF IInv, TypeOK
    <3> QED BY <3>2, <3>3, <1>4, Zenon DEF IsrAfterBegin
  <2> QED
    BY <1>1, <1>2, <1>3, <1>5, <1>7, <2>1 DEF IInv, LineKept, InjectedIsAccounted, BeginSlave
<1>8. CASE BeginSkips
  <2>1. UNCHANGED <<irr, isr, imr>> /\ pc' = "entry"
    BY <1>8, Zenon DEF BeginSkips, picVars
  <2>2. Programmed => c = "master" /\ Highest(Unmasked("master")) # p
    BY <1>1, <1>4, <1>8, Zenon DEF BeginSkips, Begins, Chips
  <2>3. Unmasked("master") \in SUBSET Pins
    BY ZenonT(30) DEF IInv, TypeOK, Unmasked, Chips
  <2>4. c = "master" => /\ Highest(Unmasked("master")) \in Pins
                        /\ p <= Highest(Unmasked("master"))
    BY <1>1, <2>3, HighestLemma, Zenon
  <2>5. Programmed => Highest(Unmasked("master")) > p
    BY <2>2, <2>4 DEF Pins
  <2>6. Unmasked("master")' = Unmasked("master")
    BY <2>1, Zenon DEF Unmasked
  <2>7. Highest(Unmasked("master"))' = Highest(Unmasked("master"))
    BY <2>6, Zenon DEF Highest
  <2>8. InjectedIsAccounted'
    BY <1>1, <1>2, <1>5, <2>2, <2>5, <2>6, <2>7, Zenon DEF InjectedIsAccounted
  <2> QED
    BY <1>3, <2>1, <2>8, Zenon DEF IInv, LineKept
<1>9. CASE BeginMaster
  <2>1. Programmed => p \in isr'[c]
    BY <1>4, <1>9, Zenon DEF BeginMaster, IsrAfterBegin, IInv, TypeOK
  <2> QED
    BY <1>1, <1>2, <1>3, <1>5, <1>6, <1>9, <2>1
    DEF IInv, LineKept, InjectedIsAccounted, BeginMaster
<1> QED
  BY <1>7, <1>8, <1>9, Zenon

LEMMA InvStep ==
    ASSUME IInv, [Next]_vars
    PROVE  IInv'
<1> TypeOK'
  BY TypeStep, Zenon DEF IInv
<1> USE IrqsAssumption, HostIrqsAssumption
<1>1. CASE Enter \/ TakeVirtualIntr
  BY <1>1, Zenon DEF IInv, Enter, TakeVirtualIntr, picVars, NoInvalidInterrupt, NoStackedException,
              ExceptionFlow, RequestKept, LineKept, InjectedIsAccounted
<1>2. CASE VmExit
  BY <1>2, Zenon DEF IInv, VmExit, NoInvalidInterrupt, NoStackedException,
              ExceptionFlow, RequestKept, LineKept, InjectedIsAccounted
<1>3. CASE \/ HandleOther \/ HandleFails \/ HandlePicWrite \/ HandleHalt
           \/ HandleRaise \/ HandleException \/ HandleLower \/ FinishLower
  BY <1>3, HandlerStep, Zenon
<1>4. CASE CheckPending
  <2>1. IntrPending' = IntrPending
    BY <1>4, Zenon DEF CheckPending, picVars, IntrPending, Unmasked
  <2> QED
    BY <1>4, <2>1, Zenon DEF IInv, CheckPending, NoInvalidInterrupt, NoStackedException,
                      ExceptionFlow, RequestKept, LineKept, InjectedIsAccounted
<1>5. CASE InjectException
  BY <1>5, Zenon DEF IInv, InjectException, NoInvalidInterrupt, NoStackedException,
              ExceptionFlow, RequestKept, LineKept, InjectedIsAccounted
<1>6. CASE GetType
  <2>1. IntrPending' = IntrPending
    BY <1>6, Zenon DEF GetType, picVars, IntrPending, Unmasked
  <2> QED
    BY <1>6, <2>1, Zenon DEF IInv, GetType, NoInvalidInterrupt, NoStackedException,
                      ExceptionFlow, RequestKept, LineKept, InjectedIsAccounted
<1>7. CASE GetNumber
  <2>1. IntrPending
    BY <1>7, Zenon DEF GetNumber, IInv, RequestKept
  <2>2. /\ line' = <<SelectedChip, SelectedPin>>
        /\ num' = icw2[SelectedChip] + SelectedPin
        /\ SelectedPin \in Unmasked(SelectedChip)
        /\ line' # NoLine
    BY <1>7, <2>1, NumberLemma, NoLineAssumption DEF GetNumber, IInv
  <2>3. Unmasked(SelectedChip)' = Unmasked(SelectedChip) /\ icw2' = icw2
    BY <1>7, Zenon DEF GetNumber, picVars, Unmasked, SelectedChip
  <2>4. SelectedPin \in irr'[SelectedChip] \ imr'[SelectedChip]
    BY <1>7, <2>2, Zenon DEF GetNumber, picVars, Unmasked
  <2>5. LineKept'
    BY <1>7, <2>2, <2>4 DEF LineKept, GetNumber, Unmasked, picVars
  <2> QED
    BY <1>7, <2>5, Zenon DEF IInv, GetNumber, NoInvalidInterrupt, NoStackedException,
                      ExceptionFlow, RequestKept, InjectedIsAccounted
<1>8. CASE BeginSlave \/ BeginSkips \/ BeginMaster
  BY <1>8, BeginStep, Zenon
<1>9. CASE FinishBegin
  BY <1>9, Zenon DEF IInv, FinishBegin, StoreIrr, NoInvalidInterrupt, NoStackedException,
              ExceptionFlow, RequestKept, LineKept, InjectedIsAccounted, Programmed
<1>10. CASE HostInterrupt
  <2>1. PICK i \in 0..15 : RaiseIntr(i)
    BY <1>10, Zenon DEF HostInterrupt
  <2>2. UNCHANGED <<isr, imr, icw2>> /\ UNCHANGED vmmVars
    BY <1>10, <2>1, Zenon DEF HostInterrupt, RaiseIntr
  <2>3. ExceptionFlow' /\ NoInvalidInterrupt' /\ NoStackedException'
    BY <2>2, Zenon DEF IInv, vmmVars, ExceptionFlow, NoInvalidInterrupt, NoStackedException
  <2>4. RequestKept'
    BY <2>1, <2>2, RaiseKeeps, Zenon DEF IInv, vmmVars, RequestKept
  <2>5. \A c \in Chips : Unmasked(c) \subseteq irr'[c] \ imr'[c]
    BY <2>1, RaiseKeeps, Zenon DEF IInv, Unmasked
  <2>6. line # NoLine => line[1] \in Chips /\ line[2] \in Pins
    BY Zenon DEF IInv, TypeOK
  <2>7. Programmed' = Programmed
    BY <2>2, Zenon DEF Programmed
  <2>8. LineKept'
    BY <2>2, <2>5, <2>6, <2>7, Zenon DEF IInv, vmmVars, LineKept, Unmasked
  <2>9. InjectedIsAccounted'
    BY <2>1, <2>2, <2>6, <2>7, RaiseKeeps, Zenon DEF IInv, vmmVars, InjectedIsAccounted, Chips
  <2> QED
    BY <2>3, <2>4, <2>8, <2>9, Zenon DEF IInv
<1>11. CASE UNCHANGED vars
  <2>1. /\ IntrPending' = IntrPending /\ Programmed' = Programmed
        /\ \A c : Unmasked(c)' = Unmasked(c)
        /\ Highest(Unmasked("master"))' = Highest(Unmasked("master"))
    BY <1>11, Zenon DEF vars, picVars, IntrPending, Unmasked, Programmed, Highest
  <2> QED
    BY <1>11, <2>1, Zenon DEF IInv, vars, picVars, vmmVars, NoInvalidInterrupt, NoStackedException,
                       ExceptionFlow, RequestKept, LineKept, InjectedIsAccounted, Unmasked
<1> QED
  BY <1>1, <1>2, <1>3, <1>4, <1>5, <1>6, <1>7, <1>8, <1>9, <1>10, <1>11, Zenon DEF Next, Thread

\* Both initial states, power-on and as the BIOS leaves it, satisfy IInv.
LEMMA InvInit == Init \/ BootedInit => IInv
<1>1. Init \/ BootedInit => TypeOK
  <2>1. Init \/ BootedInit =>
          /\ irr \in [Chips -> SUBSET Pins] /\ isr \in [Chips -> SUBSET Pins]
          /\ imr \in [Chips -> SUBSET Pins]
    BY DEF Init, BootedInit, PicInit
  <2>2. Init \/ BootedInit =>
          /\ icw1 \in [Chips -> [sngl : {0, 1}, ic4 : {0, 1}]]
          /\ icw2 \in [Chips -> 0..255] /\ ocw3 \in [Chips -> 0..3]
          /\ state \in [Chips -> States]
    BY DEF Init, BootedInit, PicInit, States
  <2>3. VmmInit =>
          /\ pc \in Locations /\ num \in 0..262 /\ quiet \in BOOLEAN
          /\ vintr \in [irq : BOOLEAN, vector : 0..255]
          /\ saved \in [chip : Chips, lines : SUBSET Pins]
          /\ line \in (Chips \X Pins) \union {NoLine}
          /\ answered \in (Chips \X Pins) \union {NoLine}
          /\ excp \in SUBSET Exceptions /\ evinj \in SUBSET Exceptions
          /\ raised \in SUBSET Exceptions
    <3>1. VmmInit => vintr \in [irq : BOOLEAN, vector : 0..255]
      BY DEF VmmInit
    <3>2. VmmInit => saved \in [chip : Chips, lines : SUBSET Pins]
      BY DEF VmmInit, Unused, Chips
    <3>3. VmmInit => pc \in Locations /\ num \in 0..262
      BY DEF VmmInit, Locations
    <3>4. VmmInit => /\ quiet \in BOOLEAN /\ line \in (Chips \X Pins) \union {NoLine}
                     /\ answered \in (Chips \X Pins) \union {NoLine}
      BY Zenon DEF VmmInit
    <3> QED
      BY <3>1, <3>2, <3>3, <3>4 DEF VmmInit
  <2> QED
    BY <2>1, <2>2, <2>3 DEF Init, BootedInit, TypeOK
<1> QED
  BY <1>1, Zenon DEF Init, BootedInit, VmmInit, IInv, NoInvalidInterrupt, NoStackedException,
              ExceptionFlow, RequestKept, LineKept, InjectedIsAccounted

-----------------------------------------------------------------------------
(* The theorems. *)

\* The registers of the PIC and the state of the exit loop keep their types.
THEOREM TypeCorrect == Spec => []TypeOK
<1> QED
  BY InvInit, InvStep, PTL DEF Spec, IInv

\* v3_get_intr_type never returns INVALID_INTR after v3_intr_pending, although
\* host interrupt handlers run between the two calls.
THEOREM InvalidInterruptUnreachable == Spec => []NoInvalidInterrupt
<1> QED
  BY InvInit, InvStep, PTL DEF Spec, IInv

\* v3_raise_exception never finds an exception pending.
THEOREM ExceptionsNeverStack == Spec => []NoStackedException
<1> QED
  BY InvInit, InvStep, PTL DEF Spec, IInv

\* The vector written to the VMCB is that of a requested line, and
\* pic_begin_irq never fails, so that ignoring its result is harmless.
THEOREM InjectedNumberProgrammed == Spec => []NumberIsProgrammed
<1>1. IInv => NumberIsProgrammed
  <2> SUFFICES ASSUME IInv, pc = "begin" PROVE NumberIsProgrammed
    BY Zenon DEF NumberIsProgrammed
  <2>1. line \in Chips \X Pins /\ num = icw2[line[1]] + line[2]
    BY Zenon DEF IInv, LineKept, TypeOK
  <2>2. icw2[line[1]] \in 0..255 /\ line[2] \in 0..7
    BY <2>1 DEF IInv, TypeOK, Pins
  <2>3. InRange(num, line[1])
    <3>1. \A a \in 0..255, p \in 0..7 : a + p \in a .. a + 7
      OBVIOUS
    <3>2. icw2[line[1]] + line[2] \in icw2[line[1]] .. icw2[line[1]] + 7
      BY <2>2, <3>1, Zenon
    <3> QED
      BY <2>1, <3>2, Zenon DEF InRange
  <2> QED
    BY <2>1, <2>3, Zenon DEF NumberIsProgrammed, BeginFinds, IInv, LineKept
<1> QED
  BY <1>1, InvInit, InvStep, PTL DEF Spec

\* Each exit injects the exception its handler raised, and only that one.
THEOREM ExceptionsInjected == Spec => []ExceptionInjected
<1>1. IInv => ExceptionInjected
  BY Zenon DEF IInv, ExceptionFlow, ExceptionInjected
<1> QED
  BY <1>1, InvInit, InvStep, PTL DEF Spec

\* An injected line is in service, or still requested below a higher line of
\* the master: no interleaving of host handlers makes the PIC forget it.
THEOREM InjectedAccounted == BootedSpec => []InjectedIsAccounted
<1> QED
  BY InvInit, InvStep, PTL DEF BootedSpec, IInv

-----------------------------------------------------------------------------
(* Pit8254 *)

\* Every non-empty set of naturals has a least element.
LEMMA LeastElement ==
    ASSUME NEW T, T \subseteq Nat, T # {}
    PROVE  \E x \in T : \A y \in T : x <= y
<1> DEFINE R == OpToRel(<, Nat)
<1>1. IsWellFoundedOn(R, Nat)
  BY NatLessThanWellFounded, Zenon
<1>2. PICK x \in T : \A y \in T : ~ (<<y, x>> \in R)
  <2> HIDE DEF R
  <2> QED BY <1>1, WFMin, Zenon
<1>3. \A y \in T : ~ (y < x)
  BY <1>2, Zenon DEF OpToRel
<1> QED BY <1>3

\* A word holds two bytes.
LEMMA WordFacts == WORD \in Nat /\ WORD >= BYTE /\ WORD >= 4
<1>1. BYTE * BYTE >= 2 * BYTE
  BY PitAssumption
<1>2. BYTE * BYTE \in Nat
  BY PitAssumption
<1> QED
  BY <1>1, <1>2, PitAssumption DEF WORD

\* The remainder of a division by a positive number.
LEMMA Remainder ==
    ASSUME NEW a \in Nat, NEW b \in Nat, b > 0
    PROVE  a % b \in Nat /\ a % b < b /\ a % b <= a /\ a = b * (a \div b) + (a % b)
                /\ a \div b \in Nat
OBVIOUS

\* A quotient and a remainder that fit are the ones.
LEMMA RemainderIs ==
    ASSUME NEW a \in Nat, NEW b \in Nat, NEW q \in Nat, NEW r \in Nat, r < b, a = b * q + r
    PROVE  a % b = r /\ a \div b = q
<1> DEFINE Q == a \div b
           R == a % b
<1>1. R \in Nat /\ R < b /\ Q \in Nat /\ a = b * Q + R
  <2>1. b > 0
    OBVIOUS
  <2> QED BY <2>1, Remainder, Zenon
<1> HIDE DEF Q, R
<1>2. b * (q - Q) = R - r
  BY <1>1
<1>3. CASE q - Q >= 1
  <2>1. b * (q - Q) = b + b * (q - Q - 1) /\ b * (q - Q - 1) >= 0
    BY <1>1, <1>3
  <2> QED BY <2>1, <1>1, <1>2
<1>4. CASE q - Q <= -1
  <2>1. b * (q - Q) = - b - b * (-1 - (q - Q)) /\ b * (-1 - (q - Q)) >= 0
    BY <1>1, <1>4
  <2> QED BY <2>1, <1>1, <1>2
<1>5. CASE q = Q
  <2>1. R = r
    BY <1>5, <1>1
  <2> QED BY <2>1, <1>5, Zenon DEF R, Q
<1> QED BY <1>1, <1>3, <1>4, <1>5

\* A word with its high byte replaced is a word.
LEMMA WithHighWord ==
    ASSUME NEW k \in Channel, NEW val \in 0..(BYTE - 1)
    PROVE  WithHigh(k, val) \in 0..(WORD - 1)
<1> DEFINE r == k.reload_value % BYTE
<1>1. k.reload_value \in Nat
  BY WordFacts DEF Channel
<1>2. r \in Nat /\ r < BYTE
  BY <1>1, Remainder, PitAssumption
<1>3. BYTE * val <= BYTE * (BYTE - 1) /\ BYTE * val \in Nat
  BY PitAssumption
<1>4. BYTE * (BYTE - 1) = WORD - BYTE
  BY PitAssumption DEF WORD
<1> HIDE DEF r
<1>5. r + BYTE * val \in 0..(WORD - 1)
  BY <1>2, <1>3, <1>4, WordFacts, PitAssumption
<1> QED
  BY <1>5, Zenon DEF WithHigh, r

\* A word with its low byte replaced is a word.
LEMMA WithLowWord ==
    ASSUME NEW k \in Channel, NEW val \in 0..(BYTE - 1)
    PROVE  WithLow(k, val) \in 0..(WORD - 1)
<1> DEFINE a == k.reload_value
           r == a % BYTE
           q == a \div BYTE
<1>1. a \in Nat /\ a < WORD
  BY WordFacts DEF Channel
<1>2. r \in Nat /\ r < BYTE /\ q \in Nat /\ a = BYTE * q + r
  BY <1>1, Remainder, PitAssumption
<1> HIDE DEF a, r, q
<1>3. q < BYTE
  <2>1. SUFFICES ASSUME q >= BYTE PROVE FALSE
    BY <1>2, PitAssumption
  <2>2. BYTE * q >= BYTE * BYTE
    BY <2>1, <1>2, PitAssumption
  <2> QED
    BY <2>2, <1>1, <1>2, PitAssumption DEF WORD
<1>4. BYTE * q <= BYTE * (BYTE - 1) /\ BYTE * q \in Nat
  BY <1>2, <1>3, PitAssumption
<1>5. BYTE * (BYTE - 1) = WORD - BYTE
  BY PitAssumption DEF WORD
<1>6. (a - r) + val \in 0..(WORD - 1)
  BY <1>1, <1>2, <1>4, <1>5, WordFacts, PitAssumption
<1>7. (WORD - BYTE) + val \in 0..(WORD - 1)
  BY WordFacts, PitAssumption
<1> QED
  BY <1>6, <1>7, Zenon DEF WithLow, a, r

\* The count that is loaded fits the counter and is at most the reload value.
LEMMA ReloadCountWord ==
    ASSUME NEW k \in Channel
    PROVE  ReloadCount(k) \in 0..(WORD - 1)
<1> DEFINE a == k.reload_value
           r == a % 2
<1>1. a \in 0..(WORD - 1)
  BY Zenon DEF Channel
<1>2. r \in Nat /\ r <= a
  BY <1>1, WordFacts, Remainder
<1> HIDE DEF a, r
<1>3. a - r \in 0..(WORD - 1)
  BY <1>1, <1>2, WordFacts
<1> QED
  BY <1>1, <1>3, Zenon DEF ReloadCount, a, r

\* What handle_crystal_tics leaves of a channel, when it does not fault: a
\* running channel whose count is positive, in the mode it had.
LEMMA TicsChannel ==
    ASSUME NEW k \in Channel, NEW n \in Nat, n > 0,
           k.run_state = RUNNING => k.counter > 0,
           ~ (Terminal(k, n) /\ ReloadCount(k) = 0)
    PROVE  LET t == handle_crystal_tics(k, n) IN
           /\ t \in Channel
           /\ t.run_state = RUNNING => t.counter > 0
           /\ t.op_mode = k.op_mode /\ t.access_state = k.access_state
           /\ t.run_state # NOT_RUNNING => k.run_state # NOT_RUNNING
           /\ t.latched = k.latched /\ t.read_msb = k.read_msb
           /\ t.latched_value = k.latched_value
           /\ t.output_pin = IF Terminal(k, n) THEN PinAfter(k) ELSE k.output_pin
<1> DEFINE l == Loaded(k)
           m == Counts(k, n)
           R == ReloadCount(k)
<1>1. R \in 0..(WORD - 1)
  BY ReloadCountWord, Zenon
<1>2. l \in Channel /\ l.op_mode = k.op_mode /\ l.access_state = k.access_state
        /\ l.latched = k.latched /\ l.read_msb = k.read_msb
        /\ l.latched_value = k.latched_value /\ l.output_pin = k.output_pin
        /\ (k.run_state # NOT_RUNNING => l.run_state = RUNNING)
  <2>1. CASE k.run_state = PENDING
    <3>1. l = [k EXCEPT !.counter = R, !.run_state = RUNNING]
      BY <2>1, Zenon DEF Loaded
    <3>2. RUNNING \in 0..2
      BY DEF RUNNING
    <3> HIDE DEF l, R
    <3> QED
      BY <3>1, <3>2, <1>1, Zenon DEF Channel
  <2>2. CASE k.run_state # PENDING
    BY <2>2 DEF Loaded, Channel, RUNNING, PENDING, NOT_RUNNING
  <2> QED
    BY <2>1, <2>2, Zenon
<1>3. m \in Nat
  <2> DEFINE u == IF k.run_state = PENDING THEN n - 1 ELSE n
             w == IF k.op_mode = SQR_WAVE THEN 2 ELSE 1
  <2>1. u \in Nat /\ w \in Nat
    OBVIOUS
  <2>2. m = u * w
    BY Zenon DEF Counts
  <2> HIDE DEF u, w
  <2> QED
    BY <2>1, <2>2
<1>4. l.counter \in 0..(WORD - 1)
  BY <1>2, Zenon DEF Channel
<1>5. PinAfter(k) \in 0..1
  BY DEF PinAfter, Channel
<1>6. CASE k.run_state = NOT_RUNNING
  BY <1>6, Zenon DEF handle_crystal_tics, Terminal, NOT_RUNNING, RUNNING
<1>7. CASE k.run_state # NOT_RUNNING /\ ~ Terminal(k, n)
  <2>1. l.counter > m
    BY <1>7, <1>3, <1>4, WordFacts DEF Terminal
  <2>2. l.counter - m \in 0..(WORD - 1) /\ l.counter - m > 0
    BY <2>1, <1>3, <1>4, WordFacts
  <2>3. handle_crystal_tics(k, n) = [l EXCEPT !.counter = l.counter - m]
    BY <1>7, Zenon DEF handle_crystal_tics
  <2> HIDE DEF l, m
  <2> QED
    BY <2>2, <2>3, <1>2, <1>7, Zenon DEF Channel
<1>8. CASE k.run_state # NOT_RUNNING /\ Terminal(k, n)
  <2>1. R > 0 /\ R \in Nat
    BY <1>8, <1>1, WordFacts
  <2>2. m - l.counter \in Nat
    BY <1>8, <1>3, <1>4, WordFacts DEF Terminal
  <2>3. (m - l.counter) % R \in Nat /\ (m - l.counter) % R < R
    BY <2>1, <2>2, Remainder, Zenon
  <2>4. Restart(k, n) = R - ((m - l.counter) % R)
    BY Zenon DEF Restart
  <2>5. Restart(k, n) \in 0..(WORD - 1) /\ Restart(k, n) > 0
    <3> HIDE DEF R, m, l
    <3> QED
      BY <2>1, <2>3, <2>4, <1>1, WordFacts
  <2>6. handle_crystal_tics(k, n) = [l EXCEPT !.counter = Restart(k, n), !.output_pin = PinAfter(k)]
    BY <1>8, Zenon DEF handle_crystal_tics
  <2> HIDE DEF l, m, R
  <2> QED
    BY <2>5, <2>6, <1>2, <1>5, <1>8, Zenon DEF Channel
<1> QED
  BY <1>6, <1>7, <1>8, Zenon

\* What a byte written to an open channel leaves: it is given a run state, and
\* only a running rate generator is left as it was.
LEMMA WriteKeepsChannel ==
    ASSUME NEW k \in Channel, NEW val \in 0..(BYTE - 1)
    PROVE  LET t == handle_channel_write(k, val) IN
           /\ t \in Channel
           /\ t.run_state = RUNNING => k.run_state = RUNNING
           /\ t.counter = k.counter /\ t.op_mode = k.op_mode
           /\ k.access_state # NOT_WAITING => t.access_state # NOT_WAITING
           /\ t.latched = k.latched /\ t.read_msb = k.read_msb
           /\ t.latched_value = k.latched_value
<1>1. WithHigh(k, val) \in 0..(WORD - 1) /\ WithLow(k, val) \in 0..(WORD - 1)
  BY WithHighWord, WithLowWord, Zenon
<1>2. ModePin(k.op_mode) \in 0..1
  BY DEF ModePin
<1>3. Started(k) \in 0..2 /\ (Started(k) = RUNNING => k.run_state = RUNNING)
  BY DEF Started, PENDING, RUNNING, Channel
<1>4. CASE k.access_state = WAITING_HIBYTE
  <2> DEFINE a == IF k.access_mode = LOBYTE_HIBYTE THEN WAITING_LOBYTE ELSE k.access_state
  <2>1. a \in 0..2 /\ a # NOT_WAITING
    BY <1>4 DEF WAITING_LOBYTE, WAITING_HIBYTE, NOT_WAITING
  <2>2. handle_channel_write(k, val) =
          [k EXCEPT !.reload_value = WithHigh(k, val), !.run_state = Started(k),
                    !.access_state = a, !.output_pin = ModePin(k.op_mode)]
    BY <1>4, Zenon DEF handle_channel_write
  <2> HIDE DEF a
  <2> QED
    BY <2>1, <2>2, <1>1, <1>2, <1>3, ZenonT(30) DEF Channel
<1>5. CASE k.access_state # WAITING_HIBYTE /\ k.access_mode = LOBYTE_HIBYTE
  <2>1. WAITING_HIBYTE \in 0..2 /\ WAITING_HIBYTE # NOT_WAITING
    BY DEF WAITING_HIBYTE, NOT_WAITING
  <2>2. handle_channel_write(k, val) =
          [k EXCEPT !.reload_value = WithLow(k, val), !.access_state = WAITING_HIBYTE,
                    !.output_pin = ModePin(k.op_mode)]
    BY <1>5, Zenon DEF handle_channel_write
  <2> QED
    BY <2>1, <2>2, <1>1, <1>2, Zenon DEF Channel
<1>6. CASE k.access_state # WAITING_HIBYTE /\ k.access_mode # LOBYTE_HIBYTE
  <2>1. handle_channel_write(k, val) =
          [k EXCEPT !.reload_value = WithLow(k, val), !.run_state = Started(k),
                    !.output_pin = ModePin(k.op_mode)]
    BY <1>6, Zenon DEF handle_channel_write
  <2> QED
    BY <2>1, <1>1, <1>2, <1>3, Zenon DEF Channel
<1> QED
  BY <1>4, <1>5, <1>6, Zenon

\* What a command leaves: the mode it names, and a latched count untouched.
LEMMA CommandKeepsChannel ==
    ASSUME NEW k \in Channel,
           NEW cmd \in [channel : 0..3, access_mode : 0..3, op_mode : 0..7]
    PROVE  LET t == handle_channel_cmd(k, cmd) IN
           /\ t \in Channel
           /\ t.run_state = k.run_state /\ t.counter = k.counter
           /\ t.op_mode = cmd.op_mode
           /\ k.access_state # NOT_WAITING => t.access_state # NOT_WAITING
           /\ t.read_msb = k.read_msb
           /\ k.latched => t.latched /\ t.latched_value = k.latched_value
<1> DEFINE l == Latched(k, cmd)
<1>1. l \in Channel /\ l.run_state = k.run_state /\ l.counter = k.counter
        /\ l.access_state = k.access_state /\ l.read_msb = k.read_msb
        /\ (k.latched => l.latched /\ l.latched_value = k.latched_value)
  BY Zenon DEF Latched, Channel
<1>2. ModePin(cmd.op_mode) \in 0..1
  BY DEF ModePin
<1>3. cmd.op_mode \in 0..7 /\ cmd.access_mode \in 0..3
  BY Zenon
<1> DEFINE s == CASE cmd.access_mode = LATCH_COUNT -> l.access_state
                  [] cmd.access_mode = HIBYTE_ONLY -> WAITING_HIBYTE
                  [] OTHER -> WAITING_LOBYTE
           p == IF cmd.op_mode \in 0..SQR_WAVE THEN ModePin(cmd.op_mode) ELSE l.output_pin
<1>4. s \in 0..2 /\ (k.access_state # NOT_WAITING => s # NOT_WAITING)
  BY <1>1 DEF Channel, WAITING_HIBYTE, WAITING_LOBYTE, NOT_WAITING, LATCH_COUNT, HIBYTE_ONLY
<1>5. p \in 0..1
  BY <1>1, <1>2, Zenon DEF Channel
<1>6. handle_channel_cmd(k, cmd) =
        [l EXCEPT !.op_mode = cmd.op_mode, !.access_mode = cmd.access_mode,
                  !.access_state = s, !.output_pin = p]
  BY Zenon DEF handle_channel_cmd
<1> HIDE DEF l, s, p
<1> QED
  BY <1>1, <1>3, <1>4, <1>5, <1>6, ZenonT(30) DEF Channel

\* A function that satisfies the recursion of SubtractLoop exists: it counts
\* the multiples of the base strictly below n.
LEMMA SubtractLoopExists ==
    \E f : f = [n \in Nat |-> IF n > pit_reload
                              THEN [num |-> f[n - pit_reload].num + 1, rem |-> f[n - pit_reload].rem]
                              ELSE [num |-> 0, rem |-> n]]
<1> DEFINE R == pit_reload
           q(n) == IF n = 0 THEN 0 ELSE (n - 1) \div R
           g == [n \in Nat |-> [num |-> q(n), rem |-> n - R * q(n)]]
           body(n) == IF n > R THEN [num |-> g[n - R].num + 1, rem |-> g[n - R].rem]
                      ELSE [num |-> 0, rem |-> n]
<1>1. R \in Nat /\ R > 0
  BY PitAssumption, Zenon
<1> HIDE DEF R
<1>2. ASSUME NEW n \in Nat PROVE q(n) \in Nat
  <2>1. CASE n = 0
    BY <2>1
  <2>2. CASE n # 0
    <3>1. n - 1 \in Nat
      BY <2>2
    <3> QED BY <2>2, <3>1, <1>1, Remainder, Zenon
  <2> QED BY <2>1, <2>2
<1>3. ASSUME NEW n \in Nat, n > R PROVE q(n) = q(n - R) + 1
  <2>1. n - 1 \in Nat /\ n - R \in Nat /\ n # 0 /\ n - R # 0 /\ n - R - 1 \in Nat
    BY <1>1, <1>3
  <2> DEFINE a == n - R - 1
             p == a \div R
             r == a % R
  <2>2. p \in Nat /\ r \in Nat /\ r < R /\ a = R * p + r
    BY <2>1, <1>1, Remainder, Zenon
  <2>3. q(n - R) = p
    BY <2>1, Zenon
  <2>4. a + R = n - 1 /\ a \in Nat
    BY <2>1, <1>1
  <2> HIDE DEF a, p, r
  <2>5. R * (p + 1) = R * p + R
    BY <2>2, <1>1
  <2>6. n - 1 = R * (p + 1) + r /\ p + 1 \in Nat
    BY <2>2, <2>4, <2>5, <1>1
  <2>7. (n - 1) \div R = p + 1
    BY <2>1, <2>2, <2>6, <1>1, RemainderIs
  <2> QED BY <2>1, <2>3, <2>7
<1>4. ASSUME NEW n \in Nat, ~ (n > R) PROVE q(n) = 0
  <2>1. CASE n = 0
    BY <2>1
  <2>2. CASE n # 0
    <3>1. n - 1 \in Nat /\ n - 1 < R /\ n - 1 = R * 0 + (n - 1)
      BY <2>2, <1>1, <1>4
    <3> QED BY <2>2, <3>1, <1>1, RemainderIs
  <2> QED BY <2>1, <2>2
<1> HIDE DEF q
<1>5. ASSUME NEW n \in Nat PROVE g[n] = body(n)
  <2>1. CASE n > R
    <3>1. n - R \in Nat
      BY <2>1, <1>1
    <3>2. g[n - R].num = q(n - R) /\ g[n - R].rem = (n - R) - R * q(n - R)
      BY <3>1, Zenon
    <3>3. q(n) = q(n - R) + 1 /\ q(n - R) \in Nat
      BY <2>1, <3>1, <1>2, <1>3, Zenon
    <3>4. n - R * (q(n - R) + 1) = (n - R) - R * q(n - R)
      BY <3>1, <3>3, <1>1
    <3>5. g[n] = [num |-> q(n - R) + 1, rem |-> (n - R) - R * q(n - R)]
      BY <3>3, <3>4, Zenon
    <3> QED BY <2>1, <3>2, <3>5, Zenon
  <2>2. CASE ~ (n > R)
    <3>1. q(n) = 0 /\ n - R * 0 = n
      BY <2>2, <1>1, <1>4
    <3>2. g[n] = [num |-> 0, rem |-> n]
      BY <3>1, Zenon
    <3> QED BY <2>2, <3>2, Zenon
  <2> QED BY <2>1, <2>2, Zenon
<1>6. g = [n \in Nat |-> body(n)]
  <2>1. g = [n \in Nat |-> g[n]]
    BY Zenon
  <2> HIDE DEF g
  <2> QED BY <2>1, <1>5, ZenonT(30)
<1> QED
  BY <1>6, ZenonT(30) DEF R

\* The loop of the 32 bit do_divll ends with a quotient and a remainder that
\* make up its argument, the remainder at most the base.
LEMMA SubtractLoopDivides ==
    ASSUME NEW n \in Nat
    PROVE  LET d == SubtractLoop[n] IN
           d.num \in Nat /\ d.rem \in 0..pit_reload /\ n = pit_reload * d.num + d.rem
<1> DEFINE R == pit_reload
           f == SubtractLoop
           P(i) == f[i].num \in Nat /\ f[i].rem \in 0..R /\ i = R * f[i].num + f[i].rem
           T == {i \in Nat : ~ P(i)}
<1>1. R \in Nat /\ R > 0
  BY PitAssumption, Zenon
<1>2. f = [i \in Nat |-> IF i > pit_reload
                         THEN [num |-> f[i - pit_reload].num + 1, rem |-> f[i - pit_reload].rem]
                         ELSE [num |-> 0, rem |-> i]]
  <2> DEFINE S(g) == g = [i \in Nat |-> IF i > pit_reload
                         THEN [num |-> g[i - pit_reload].num + 1, rem |-> g[i - pit_reload].rem]
                         ELSE [num |-> 0, rem |-> i]]
  <2>1. f = CHOOSE g : S(g)
    BY Zenon DEF SubtractLoop
  <2>2. \E g : S(g)
    BY SubtractLoopExists, Zenon
  <2>3. S(f)
    <3> HIDE DEF S, f
    <3> QED BY <2>1, <2>2, Zenon
  <2> QED BY <2>3, Zenon
<1> HIDE DEF f, R
<1>3. \A i \in Nat : f[i] = IF i > R THEN [num |-> f[i - R].num + 1, rem |-> f[i - R].rem]
                            ELSE [num |-> 0, rem |-> i]
  BY <1>2, Zenon DEF R
<1>4. T = {}
  <2> SUFFICES ASSUME T # {} PROVE FALSE
    OBVIOUS
  <2>1. PICK m \in T : \A y \in T : m <= y
    <3>1. T \subseteq Nat
      BY Zenon
    <3> HIDE DEF T
    <3> QED BY <3>1, LeastElement, Zenon
  <2>2. m \in Nat /\ ~ P(m)
    BY Zenon
  <2>3. CASE ~ (m > R)
    <3>1. f[m] = [num |-> 0, rem |-> m]
      BY <2>2, <2>3, <1>3, Zenon
    <3>2. f[m].num = 0 /\ f[m].rem = m
      BY <3>1
    <3>3. P(m)
      BY <3>2, <2>2, <2>3, <1>1
    <3> QED BY <3>3, <2>2, Zenon
  <2>4. CASE m > R
    <3>1. m - R \in Nat /\ ~ (m <= m - R)
      BY <2>2, <2>4, <1>1
    <3>2. P(m - R)
      BY <3>1, <2>1, Zenon
    <3>3. f[m] = [num |-> f[m - R].num + 1, rem |-> f[m - R].rem]
      BY <2>2, <2>4, <1>3, Zenon
    <3>4. f[m].num = f[m - R].num + 1 /\ f[m].rem = f[m - R].rem
      BY <3>3
    <3> DEFINE a == f[m - R].num
               b == f[m - R].rem
    <3>5. a \in Nat /\ b \in 0..R /\ m - R = R * a + b
      BY <3>2, Zenon
    <3>6. f[m].num = a + 1 /\ f[m].rem = b
      BY <3>4, Zenon
    <3> HIDE DEF a, b
    <3>7. R * (a + 1) = R * a + R
      BY <3>5, <1>1
    <3>8. m = R * (a + 1) + b
      BY <3>5, <3>7, <1>1, <2>2
    <3>9. P(m)
      BY <3>5, <3>6, <3>8
    <3> QED BY <3>9, <2>2, Zenon
  <2> QED BY <2>3, <2>4, Zenon
<1>5. P(n)
  BY <1>4, Zenon
<1> QED
  BY <1>5, Zenon DEF f, R

\* What either do_divll leaves in its argument and returns make up the number
\* it was given.
LEMMA DoDivllDivides ==
    ASSUME NEW n \in Nat
    PROVE  LET d == do_divll(n) IN
           d.num \in Nat /\ d.rem \in 0..pit_reload /\ n = pit_reload * d.num + d.rem
<1>1. pit_reload \in Nat /\ pit_reload > 0
  BY PitAssumption, Zenon
<1>2. CASE LongMode
  <2>1. do_divll(n).num = n \div pit_reload /\ do_divll(n).rem = n % pit_reload
    BY <1>2, Zenon DEF do_divll
  <2>2. /\ n % pit_reload \in Nat /\ n % pit_reload < pit_reload
        /\ n = pit_reload * (n \div pit_reload) + (n % pit_reload) /\ n \div pit_reload \in Nat
    BY <1>1, Remainder, Zenon
  <2>3. n % pit_reload \in 0..pit_reload
    BY <2>2, <1>1
  <2> QED BY <2>1, <2>2, <2>3, Zenon
<1>3. CASE ~ LongMode
  <2>1. do_divll(n) = SubtractLoop[n]
    BY <1>3, Zenon DEF do_divll
  <2> QED BY <2>1, SubtractLoopDivides, Zenon
<1> QED BY <1>2, <1>3, Zenon

\* The crystal: what the update leaves of its counter accounts for every cycle.
LEMMA CrystalConserves ==
    ASSUME pit_counter \in 0..pit_reload, NEW c \in Nat
    PROVE  /\ Oscillations(c) \in Nat
           /\ PitCounterAt(c) \in 0..pit_reload
           /\ c - Oscillations(c) * pit_reload = pit_counter - PitCounterAt(c)
<1> DEFINE d == c - pit_counter
           R == pit_reload
<1>1. R \in Nat /\ R > 0 /\ pit_counter \in Nat
  BY PitAssumption
<1>2. CASE pit_counter > c
  BY <1>1, <1>2 DEF Oscillations, PitCounterAt
<1>3. CASE pit_counter <= c /\ ~ (d > R)
  <2>1. Oscillations(c) = 1
    BY <1>1, <1>3 DEF Oscillations
  <2>2. PitCounterAt(c) = R - d
    BY <1>1, <1>3 DEF PitCounterAt
  <2> QED
    BY <2>1, <2>2, <1>1, <1>3
<1>4. CASE pit_counter <= c /\ d > R
  <2> DEFINE q == do_divll(d).num
             r == do_divll(d).rem
  <2>1. d \in Nat /\ ~ (pit_counter > c)
    BY <1>1, <1>4
  <2>2. q \in Nat /\ r \in 0..R /\ d = R * q + r
    BY <2>1, DoDivllDivides, Zenon
  <2>3. Oscillations(c) = 1 + q /\ PitCounterAt(c) = R - r
    BY <1>4, <2>1, Zenon DEF Oscillations, PitCounterAt
  <2>4. c = d + pit_counter
    BY <1>1
  <2> HIDE DEF q, r, d
  <2>5. (1 + q) * R = R + R * q /\ R * q \in Nat
    BY <2>2, <1>1
  <2> QED
    BY <2>1, <2>2, <2>3, <2>4, <2>5, <1>1
<1> QED
  BY <1>1, <1>2, <1>3, <1>4

\* After an interrupt in mode 0 the output stays high, which keeps it silent.
FiredPin == fired = "yes" /\ ch[0].op_mode = IRQ_ON_TERM_CNT => ch[0].output_pin = 1

\* The inductive invariant.
PitInv ==
    /\ PitTypeOK
    /\ TimeConserved
    /\ CounterAlive
    /\ ServedMode
    /\ LatchCoherent
    /\ FiredPin

\* The timer as pit_init leaves it.
LEMMA PitInitHolds == PitInit => PitInv
<1> SUFFICES ASSUME PitInit PROVE PitInv
  BY Zenon
<1>1. init_channel \in Channel
  BY WordFacts DEF init_channel, Channel, NOT_WAITING, NOT_RUNNING
<1>2. \A c \in Channels : ch[c] = init_channel /\ half[c] = None
  BY Zenon DEF PitInit
<1>3. PitTypeOK
  <2>1. ch \in [Channels -> Channel] /\ half \in [Channels -> {None} \cup 0..(WORD - 1)]
    BY <1>1, Zenon DEF PitInit
  <2>2. pit_counter \in 0..pit_reload
    BY PitAssumption DEF PitInit
  <2>3. irq0 \in BOOLEAN /\ fired \in {"no", "yes", "again"} /\ vm \in {"running", "stopped", "fault"}
    BY Zenon DEF PitInit
  <2>4. owed \in Int
    BY DEF PitInit
  <2> QED
    BY <2>1, <2>2, <2>3, <2>4, Zenon DEF PitTypeOK
<1>4. TimeConserved
  BY PitAssumption DEF TimeConserved, PitInit
<1>5. CounterAlive /\ ServedMode /\ FiredPin
  BY <1>2, PitAssumption DEF CounterAlive, ServedMode, FiredPin, PitInit, init_channel,
     NOT_RUNNING, RUNNING, SQR_WAVE
<1>6. LatchCoherent
  BY <1>2, Zenon DEF LatchCoherent
<1> QED
  BY <1>3, <1>4, <1>5, <1>6, Zenon DEF PitInv

\* The part common to all updates.
LEMMA AdvanceStep ==
    ASSUME PitInv, NEW c \in Cycles, Advance(c)
    PROVE  /\ pit_counter' \in 0..pit_reload /\ owed' \in Int /\ TimeConserved'
           /\ Oscillations(c) \in Nat /\ vm = "running" /\ half' = half
<1>1. c \in Nat /\ pit_reload \in Nat
  BY PitAssumption, Zenon
<1>2. pit_counter \in 0..pit_reload /\ owed \in Int /\ owed = pit_reload - pit_counter
  BY Zenon DEF PitInv, PitTypeOK, TimeConserved
<1>3. /\ Oscillations(c) \in Nat
      /\ PitCounterAt(c) \in 0..pit_reload
      /\ c - Oscillations(c) * pit_reload = pit_counter - PitCounterAt(c)
  BY <1>1, <1>2, CrystalConserves, Zenon
<1>4. pit_counter' = PitCounterAt(c) /\ owed' = owed + c - Oscillations(c) * pit_reload
        /\ vm = "running" /\ half' = half
  BY Zenon DEF Advance
<1>5. Oscillations(c) * pit_reload \in Nat
  BY <1>1, <1>3
<1>6. owed' = pit_reload - pit_counter'
  BY <1>1, <1>2, <1>3, <1>4, <1>5
<1> QED
  BY <1>1, <1>2, <1>3, <1>4, <1>6 DEF TimeConserved

\* An update before the next oscillation.
LEMMA UpdateEarlyStep == ASSUME PitInv, NEW c \in Cycles, UpdateEarly(c) PROVE PitInv'
<1>1. /\ pit_counter' \in 0..pit_reload /\ owed' \in Int /\ TimeConserved'
      /\ half' = half
  BY AdvanceStep, Zenon DEF UpdateEarly
<1>2. irq0' = FALSE /\ ch' = ch /\ vm' = vm /\ fired' = fired
  BY Zenon DEF UpdateEarly
<1> QED
  BY <1>1, <1>2, Zenon DEF PitInv, PitTypeOK, CounterAlive, ServedMode, LatchCoherent, FiredPin

\* An update that gives channel 0 its oscillations.
LEMMA UpdateTicsStep == ASSUME PitInv, NEW c \in Cycles, UpdateTics(c) PROVE PitInv'
<1> DEFINE n == Oscillations(c)
           k == ch[0]
           t == handle_crystal_tics(k, n)
<1>1. /\ pit_counter' \in 0..pit_reload /\ owed' \in Int /\ TimeConserved'
      /\ n \in Nat /\ vm = "running" /\ half' = half
  BY AdvanceStep, Zenon DEF UpdateTics
<1>2. n > 0 /\ ~ (Terminal(k, n) /\ ReloadCount(k) = 0)
        /\ ch' = [ch EXCEPT ![0] = t] /\ vm' = vm
        /\ irq0' = (Terminal(k, n) /\ OutputChanged(k)) /\ fired' = (IF irq0' THEN "yes" ELSE fired)
  BY Zenon DEF UpdateTics
<1>3. 0 \in Channels /\ k \in Channel /\ (k.run_state = RUNNING => k.counter > 0)
  BY <1>1, PitAssumption, Zenon DEF PitInv, PitTypeOK, CounterAlive
<1> HIDE DEF n, k, t
<1>4. /\ t \in Channel
      /\ t.run_state = RUNNING => t.counter > 0
      /\ t.op_mode = k.op_mode /\ t.access_state = k.access_state
      /\ t.run_state # NOT_RUNNING => k.run_state # NOT_RUNNING
      /\ t.latched = k.latched /\ t.read_msb = k.read_msb
      /\ t.latched_value = k.latched_value
      /\ t.output_pin = IF Terminal(k, n) THEN PinAfter(k) ELSE k.output_pin
  BY <1>1, <1>2, <1>3, TicsChannel, Zenon DEF t
<1>5. ch'[0] = t /\ \A i \in Channels : i # 0 => ch'[i] = ch[i]
  BY <1>2, <1>3, Zenon DEF PitInv, PitTypeOK
<1>6. PitTypeOK'
  <2>1. irq0' \in BOOLEAN /\ fired' \in {"no", "yes", "again"}
    BY <1>2, Zenon DEF PitInv, PitTypeOK
  <2> QED
    BY <2>1, <1>1, <1>2, <1>4, Zenon DEF PitInv, PitTypeOK
<1>7. CounterAlive'
  BY <1>4, <1>5, Zenon DEF CounterAlive
<1>8. ServedMode'
  BY <1>1, <1>2, <1>4, <1>5 DEF PitInv, ServedMode, k
<1>9. LatchCoherent'
  BY <1>1, <1>4, <1>5, Zenon DEF PitInv, LatchCoherent, k
<1>10. FiredPin'
  <2>1. SUFFICES ASSUME fired' = "yes", k.op_mode = IRQ_ON_TERM_CNT PROVE t.output_pin = 1
    BY <1>4, <1>5, Zenon DEF FiredPin
  <2>2. PinAfter(k) = 1
    BY <2>1 DEF PinAfter, IRQ_ON_TERM_CNT, ONE_SHOT, SQR_WAVE
  <2>3. Terminal(k, n) \/ (fired = "yes" /\ ~ Terminal(k, n))
    BY <2>1, <1>2, Zenon
  <2>4. fired = "yes" => k.output_pin = 1
    BY <2>1, Zenon DEF PitInv, FiredPin, k
  <2> QED
    BY <2>2, <2>3, <2>4, <1>4, Zenon
<1> QED
  BY <1>1, <1>6, <1>7, <1>8, <1>9, <1>10, Zenon DEF PitInv

\* The update that divides by zero.
LEMMA UpdateFaultStep == ASSUME PitInv, NEW c \in Cycles, UpdateFault(c) PROVE PitInv'
<1> DEFINE l == Loaded(ch[0])
<1>1. /\ pit_counter' \in 0..pit_reload /\ owed' \in Int /\ TimeConserved'
      /\ half' = half
  BY AdvanceStep, Zenon DEF UpdateFault
<1>2. vm' = "fault" /\ irq0' = FALSE /\ fired' = fired
        /\ ch' = [ch EXCEPT ![0] = [l EXCEPT !.counter = 0]]
  BY Zenon DEF UpdateFault
<1>3. 0 \in Channels /\ ch[0] \in Channel
  BY PitAssumption, Zenon DEF PitInv, PitTypeOK
<1>4. ReloadCount(ch[0]) \in 0..(WORD - 1) /\ RUNNING \in 0..2 /\ 0 \in 0..(WORD - 1)
  BY <1>3, ReloadCountWord, WordFacts DEF RUNNING
<1>5. l \in Channel /\ l.op_mode = ch[0].op_mode /\ l.latched = ch[0].latched
        /\ l.read_msb = ch[0].read_msb /\ l.latched_value = ch[0].latched_value
        /\ l.output_pin = ch[0].output_pin
  BY <1>3, <1>4, Zenon DEF Loaded, Channel
<1> HIDE DEF l
<1>6. [l EXCEPT !.counter = 0] \in Channel
  BY <1>4, <1>5, Zenon DEF Channel
<1>7. ch'[0] = [l EXCEPT !.counter = 0] /\ \A i \in Channels : i # 0 => ch'[i] = ch[i]
  BY <1>2, <1>3, Zenon DEF PitInv, PitTypeOK
<1>8. ch'[0].op_mode = ch[0].op_mode /\ ch'[0].latched = ch[0].latched
        /\ ch'[0].read_msb = ch[0].read_msb /\ ch'[0].latched_value = ch[0].latched_value
        /\ ch'[0].output_pin = ch[0].output_pin
  BY <1>5, <1>7, Zenon DEF Channel
<1>9. PitTypeOK'
  BY <1>1, <1>2, <1>6, Zenon DEF PitInv, PitTypeOK
<1>10. LatchCoherent'
  BY <1>1, <1>7, <1>8, Zenon DEF PitInv, LatchCoherent
<1>11. CounterAlive' /\ ServedMode' /\ FiredPin'
  BY <1>2, <1>8, Zenon DEF PitInv, CounterAlive, ServedMode, FiredPin
<1> QED
  BY <1>1, <1>9, <1>10, <1>11, Zenon DEF PitInv

\* A byte written to a channel.
LEMMA WriteChannelStep ==
    ASSUME PitInv, NEW c \in Channels, NEW val \in 0..(BYTE - 1), WriteChannel(c, val)
    PROVE  PitInv'
<1> DEFINE k == ch[c]
           t == handle_channel_write(k, val)
<1>1. vm = "running" /\ irq0' = FALSE /\ pit_counter' = pit_counter
        /\ owed' = owed /\ half' = half
  BY Zenon DEF WriteChannel
<1>2. TimeConserved'
  BY <1>1, Zenon DEF PitInv, TimeConserved
<1>3. CASE k.access_state = NOT_WAITING
  <2>1. vm' = "stopped" /\ ch' = ch /\ fired' = fired
    BY <1>3, Zenon DEF WriteChannel
  <2> QED
    BY <2>1, <1>1, <1>2, Zenon DEF PitInv, PitTypeOK, CounterAlive, ServedMode, LatchCoherent, FiredPin
<1>4. CASE k.access_state # NOT_WAITING
  <2>1. ch' = [ch EXCEPT ![c] = t] /\ fired' = (IF c = 0 THEN "no" ELSE fired) /\ vm' = vm
    BY <1>4, Zenon DEF WriteChannel
  <2>2. k \in Channel
    BY Zenon DEF PitInv, PitTypeOK
  <2> HIDE DEF k, t
  <2>3. /\ t \in Channel
        /\ t.run_state = RUNNING => k.run_state = RUNNING
        /\ t.counter = k.counter /\ t.op_mode = k.op_mode
        /\ t.access_state # NOT_WAITING
        /\ t.latched = k.latched /\ t.read_msb = k.read_msb
        /\ t.latched_value = k.latched_value
    BY <2>2, <1>4, WriteKeepsChannel, Zenon DEF t
  <2>4. ch'[c] = t /\ \A i \in Channels : i # c => ch'[i] = ch[i]
    BY <2>1, Zenon DEF PitInv, PitTypeOK
  <2>5. PitTypeOK'
    BY <2>1, <2>3, <1>1, Zenon DEF PitInv, PitTypeOK
  <2>6. CounterAlive'
    <3>1. CASE c = 0
      BY <3>1, <2>1, <2>3, <2>4, Zenon DEF PitInv, CounterAlive, k
    <3>2. CASE c # 0
      BY <3>2, <2>1, <2>4, PitAssumption, Zenon DEF PitInv, CounterAlive
    <3> QED
      BY <3>1, <3>2, Zenon
  <2>7. ServedMode'
    BY <2>1, <2>3, <2>4, <1>1, Zenon DEF PitInv, ServedMode, k
  <2>8. LatchCoherent'
    BY <2>3, <2>4, <1>1, Zenon DEF PitInv, LatchCoherent, k
  <2>9. FiredPin'
    <3>1. CASE c = 0
      BY <3>1, <2>1, Zenon DEF FiredPin
    <3>2. CASE c # 0
      BY <3>2, <2>1, <2>4, PitAssumption, Zenon DEF PitInv, FiredPin
    <3> QED
      BY <3>1, <3>2, Zenon
  <2> QED
    BY <2>5, <2>6, <2>7, <2>8, <2>9, <1>2, Zenon DEF PitInv
<1> QED
  BY <1>3, <1>4, Zenon

\* A byte read from a channel.
LEMMA ReadChannelStep == ASSUME PitInv, NEW c \in Channels, ReadChannel(c) PROVE PitInv'
<1> DEFINE k == ch[c]
           t == [k EXCEPT !.read_msb = ~ k.read_msb, !.latched = k.latched /\ ~ k.read_msb]
<1>1. irq0' = FALSE /\ pit_counter' = pit_counter /\ vm' = vm
        /\ owed' = owed /\ fired' = fired
  BY Zenon DEF ReadChannel
<1>2. ch' = [ch EXCEPT ![c] = t]
  BY Zenon DEF ReadChannel, PitInv, PitTypeOK, Channel
<1>3. half' = [half EXCEPT ![c] = IF k.latched /\ ~ k.read_msb THEN k.latched_value ELSE None]
  BY Zenon DEF ReadChannel
<1>4. k \in Channel /\ k.read_msb \in BOOLEAN /\ k.latched \in BOOLEAN
  BY Zenon DEF PitInv, PitTypeOK, Channel
<1> HIDE DEF k
<1>5. t \in Channel /\ t.run_state = k.run_state /\ t.counter = k.counter
        /\ t.op_mode = k.op_mode /\ t.access_state = k.access_state
        /\ t.output_pin = k.output_pin /\ t.latched_value = k.latched_value
        /\ t.read_msb = (~ k.read_msb) /\ t.latched = (k.latched /\ ~ k.read_msb)
  BY <1>4, Zenon DEF Channel
<1> HIDE DEF t
<1>6. ch'[c] = t /\ \A i \in Channels : i # c => ch'[i] = ch[i]
  BY <1>2, Zenon DEF PitInv, PitTypeOK
<1>7. PitTypeOK'
  <2>1. half' \in [Channels -> {None} \cup 0..(WORD - 1)]
    BY <1>3, <1>4, Zenon DEF PitInv, PitTypeOK, Channel
  <2> QED
    BY <2>1, <1>1, <1>2, <1>5, Zenon DEF PitInv, PitTypeOK
<1>8. CounterAlive' /\ ServedMode' /\ FiredPin'
  <2>1. \A i \in Channels : /\ ch'[i].run_state = ch[i].run_state
                            /\ ch'[i].counter = ch[i].counter
                            /\ ch'[i].op_mode = ch[i].op_mode
                            /\ ch'[i].access_state = ch[i].access_state
                            /\ ch'[i].output_pin = ch[i].output_pin
    BY <1>5, <1>6, Zenon DEF k
  <2> QED
    BY <2>1, <1>1, PitAssumption, Zenon DEF PitInv, CounterAlive, ServedMode, FiredPin
<1>9. LatchCoherent'
  <2>1. SUFFICES ASSUME NEW i \in Channels, half'[i] # None
                 PROVE  ch'[i].latched /\ ch'[i].read_msb /\ ch'[i].latched_value = half'[i]
    BY Zenon DEF LatchCoherent
  <2>2. CASE i # c
    BY <2>1, <2>2, <1>3, <1>6, Zenon DEF PitInv, LatchCoherent, PitTypeOK
  <2>3. CASE i = c
    <3>1. half'[c] = IF k.latched /\ ~ k.read_msb THEN k.latched_value ELSE None
      BY <1>3, Zenon DEF PitInv, PitTypeOK
    <3>2. k.latched /\ ~ k.read_msb /\ half'[c] = k.latched_value
      BY <3>1, <2>1, <2>3, Zenon
    <3> QED
      BY <3>2, <2>3, <1>5, <1>6, Zenon
  <2> QED
    BY <2>2, <2>3, Zenon
<1>10. TimeConserved'
  BY <1>1, Zenon DEF PitInv, TimeConserved
<1> QED
  BY <1>7, <1>8, <1>9, <1>10, Zenon DEF PitInv

\* A byte written to the command port.
LEMMA WriteCommandStep == ASSUME PitInv, NEW cmd \in Commands, WriteCommand(cmd) PROVE PitInv'
<1> DEFINE c == cmd.channel
           k == ch[c]
           t == handle_channel_cmd(k, cmd)
<1>1. vm = "running" /\ irq0' = FALSE /\ pit_counter' = pit_counter /\ owed' = owed
  BY Zenon DEF WriteCommand
<1>2. TimeConserved'
  BY <1>1, Zenon DEF PitInv, TimeConserved
<1>3. CASE c \notin Channels
  <2>1. vm' = "stopped" /\ ch' = ch /\ fired' = fired /\ half' = half
    BY <1>3, Zenon DEF WriteCommand
  <2> QED
    BY <2>1, <1>1, <1>2, Zenon DEF PitInv, PitTypeOK, CounterAlive, ServedMode, LatchCoherent, FiredPin
<1>4. CASE c \in Channels
  <2>1. /\ ch' = [ch EXCEPT ![c] = t]
        /\ half' = [half EXCEPT ![c] = IF k.latched THEN half[c] ELSE None]
        /\ vm' = IF cmd.op_mode \in 0..SQR_WAVE THEN vm ELSE "stopped"
    BY <1>4, Zenon DEF WriteCommand
  <2>11. /\ fired' \in {"no", "yes", "again"} /\ (c # 0 => fired' = fired)
         /\ (fired' = "yes" => c # 0 \/ cmd.op_mode # IRQ_ON_TERM_CNT)
    <3>1. fired' = IF c # 0 THEN fired
                   ELSE IF cmd.access_mode # LATCH_COUNT THEN "no"
                   ELSE IF fired = "yes" /\ cmd.op_mode = IRQ_ON_TERM_CNT THEN "again"
                   ELSE fired
      BY <1>4, Zenon DEF WriteCommand
    <3>2. fired \in {"no", "yes", "again"}
      BY Zenon DEF PitInv, PitTypeOK
    <3> HIDE DEF c
    <3> QED BY <3>1, <3>2
  <2>2. k \in Channel
    BY <1>4, Zenon DEF PitInv, PitTypeOK
  <2>3. cmd \in [channel : 0..3, access_mode : 0..3, op_mode : 0..7]
    BY PitAssumption, Zenon
  <2> HIDE DEF k, t, c
  <2>4. /\ t \in Channel
        /\ t.run_state = k.run_state /\ t.counter = k.counter
        /\ t.op_mode = cmd.op_mode
        /\ k.access_state # NOT_WAITING => t.access_state # NOT_WAITING
        /\ t.read_msb = k.read_msb
        /\ k.latched => t.latched /\ t.latched_value = k.latched_value
    BY <2>2, <2>3, CommandKeepsChannel, Zenon DEF t
  <2>5. ch'[c] = t /\ (\A i \in Channels : i # c => ch'[i] = ch[i] /\ half'[i] = half[i])
          /\ half'[c] = IF k.latched THEN half[c] ELSE None
    BY <2>1, <1>4, Zenon DEF PitInv, PitTypeOK
  <2>6. PitTypeOK'
    <3>1. half' \in [Channels -> {None} \cup 0..(WORD - 1)]
      BY <2>1, <1>4, Zenon DEF PitInv, PitTypeOK
    <3>2. vm' \in {"running", "stopped", "fault"} /\ fired' \in {"no", "yes", "again"}
      BY <2>1, <2>11, <1>1, Zenon DEF PitInv, PitTypeOK
    <3> QED
      BY <3>1, <3>2, <2>1, <2>4, <1>1, Zenon DEF PitInv, PitTypeOK
  <2>7. CounterAlive'
    <3>1. \A i \in Channels : ch'[i].run_state = ch[i].run_state /\ ch'[i].counter = ch[i].counter
      BY <2>4, <2>5, Zenon DEF k
    <3> QED
      BY <3>1, <1>1, PitAssumption, Zenon DEF PitInv, CounterAlive
  <2>8. ServedMode'
    <3>1. SUFFICES ASSUME vm' = "running", NEW i \in Channels
                   PROVE  /\ ch'[i].op_mode \in 0..SQR_WAVE
                          /\ ch'[i].run_state # NOT_RUNNING => ch'[i].access_state # NOT_WAITING
      BY Zenon DEF ServedMode
    <3>2. cmd.op_mode \in 0..SQR_WAVE
      BY <3>1, <2>1, Zenon
    <3>3. CASE i = c
      BY <3>2, <3>3, <2>4, <2>5, <1>1, Zenon DEF PitInv, ServedMode, k
    <3>4. CASE i # c
      BY <3>4, <2>5, <1>1, ZenonT(30) DEF PitInv, ServedMode
    <3> QED
      BY <3>3, <3>4, Zenon
  <2>9. LatchCoherent'
    BY <2>4, <2>5, <1>4 DEF PitInv, LatchCoherent, k
  <2>10. FiredPin'
    <3>1. CASE c = 0
      <4>1. ch'[0].op_mode = cmd.op_mode /\ (fired' = "yes" => cmd.op_mode # IRQ_ON_TERM_CNT)
        BY <3>1, <2>11, <2>4, <2>5, Zenon
      <4> QED BY <4>1, Zenon DEF FiredPin
    <3>2. CASE c # 0
      BY <3>2, <2>11, <2>5, PitAssumption, Zenon DEF PitInv, FiredPin
    <3> QED
      BY <3>1, <3>2, Zenon
  <2> QED
    BY <2>6, <2>7, <2>8, <2>9, <2>10, <1>2, Zenon DEF PitInv
<1> QED
  BY <1>3, <1>4, Zenon

\* Every step preserves the invariant.
LEMMA PitNextHolds == PitInv /\ [PitNext]_pitVars => PitInv'
<1> SUFFICES ASSUME PitInv, [PitNext]_pitVars PROVE PitInv'
  BY Zenon
<1>1. CASE UpdateTime
  BY <1>1, UpdateEarlyStep, UpdateTicsStep, UpdateFaultStep, Zenon DEF UpdateTime
<1>2. CASE \E c \in Channels : ReadChannel(c) \/ \E val \in 0..(BYTE - 1) : WriteChannel(c, val)
  BY <1>2, ReadChannelStep, WriteChannelStep, Zenon
<1>3. CASE \E cmd \in Commands : WriteCommand(cmd)
  BY <1>3, WriteCommandStep, Zenon
<1>4. CASE UNCHANGED pitVars
  BY <1>4, Zenon DEF pitVars, PitInv, PitTypeOK, TimeConserved, CounterAlive, ServedMode, LatchCoherent, FiredPin
<1> QED
  BY <1>1, <1>2, <1>3, <1>4, Zenon DEF PitNext

\* The invariant holds of every reachable state.
THEOREM PitInductive == PitSpec => []PitInv
<1> QED
  BY PitInitHolds, PitNextHolds, PTL DEF PitSpec

\* The fields of the 8254 stay within their C types, in whatever order the
\* guest programs it (8254.c, struct channel).
THEOREM PitTypeCorrect == PitSpec => []PitTypeOK
<1>1. PitInv => PitTypeOK
  BY Zenon DEF PitInv
<1> QED
  BY PitInductive, <1>1, PTL

\* pit_update_time accounts for every guest cycle exactly, with either
\* do_divll and however exits cut the time.
THEOREM TimeIsConserved == PitSpec => []TimeConserved
<1>1. PitInv => TimeConserved
  BY Zenon DEF PitInv
<1> QED
  BY PitInductive, <1>1, PTL

\* handle_crystal_tics never leaves a running channel 0 on a zero count.
THEOREM CounterStaysAlive == PitSpec => []CounterAlive
<1>1. PitInv => CounterAlive
  BY Zenon DEF PitInv
<1> QED
  BY PitInductive, <1>1, PTL

\* A running channel was opened by a command and is in a mode that
\* handle_crystal_tics serves.
THEOREM ModesServed == PitSpec => []ServedMode
<1>1. PitInv => ServedMode
  BY Zenon DEF PitInv
<1> QED
  BY PitInductive, <1>1, PTL

\* handle_channel_read goes on with the latched count it has begun.
THEOREM LatchedReadsCoherent == PitSpec => []LatchCoherent
<1>1. PitInv => LatchCoherent
  BY Zenon DEF PitInv
<1> QED
  BY PitInductive, <1>1, PTL

\* In mode 0 handle_crystal_tics reports one terminal count per programming,
\* and one more for each latch command, which lowers the output as well.
THEOREM InterruptsOnce == PitSpec => OneInterruptPerCount
<1>1. ASSUME PitInv, PitNext, irq0', ch[0].op_mode = IRQ_ON_TERM_CNT PROVE fired # "yes"
  <2>1. PICK c \in Cycles : UpdateTics(c)
    BY <1>1, Zenon DEF PitNext, UpdateTime, UpdateEarly, UpdateFault, WriteChannel, ReadChannel, WriteCommand
  <2>2. OutputChanged(ch[0])
    BY <2>1, <1>1, Zenon DEF UpdateTics
  <2>3. ch[0].output_pin = 0
    BY <2>2, <1>1 DEF OutputChanged, IRQ_ON_TERM_CNT, RATE_GEN, SQR_WAVE
  <2> QED
    BY <2>3, <1>1 DEF PitInv, FiredPin
<1>2. PitInv /\ [PitNext]_pitVars => [irq0' /\ ch[0].op_mode = IRQ_ON_TERM_CNT => fired # "yes"]_pitVars
  BY <1>1, Zenon
<1> QED
  BY PitInductive, <1>2, PTL DEF PitSpec, OneInterruptPerCount

-----------------------------------------------------------------------------
(* Pit8254: a batch of oscillations and the same oscillations one by one *)

\* The counter after m counts from c, with R loaded at every terminal count.
After(c, R, m) == IF c <= m THEN R - ((m - c) % R) ELSE c - m

\* s more counts are s counts from there.
LEMMA AfterMore ==
    ASSUME NEW c \in Nat, NEW R \in Nat, R > 0, NEW m \in Nat, NEW s \in Nat
    PROVE  After(After(c, R, m), R, s) = After(c, R, m + s)
<1>1. CASE c > m
  <2>1. After(c, R, m) = c - m
    BY <1>1 DEF After
  <2>2. (c - m <= s) <=> (c <= m + s)
    OBVIOUS
  <2>3. s - (c - m) = m + s - c /\ c - m - s = c - (m + s)
    OBVIOUS
  <2>4. /\ After(c - m, R, s) = (IF c - m <= s THEN R - ((s - (c - m)) % R) ELSE c - m - s)
        /\ After(c, R, m + s) = (IF c <= m + s THEN R - ((m + s - c) % R) ELSE c - (m + s))
    BY DEF After
  <2>5. After(c - m, R, s) = After(c, R, m + s)
    BY <2>2, <2>3, <2>4
  <2> QED BY <2>1, <2>5, Zenon
<1>2. CASE c <= m
  <2> DEFINE d == m - c
             q == d \div R
             r == d % R
  <2>1. d \in Nat /\ m + s - c = d + s /\ c <= m + s
    BY <1>2
  <2>2. r \in Nat /\ r < R /\ q \in Nat /\ d = R * q + r
    <3> HIDE DEF d
    <3> QED BY <2>1, Remainder
  <2>3. After(c, R, m) = R - r /\ After(c, R, m + s) = R - ((d + s) % R)
    <3>1. After(c, R, m) = R - ((m - c) % R)
      BY <1>2, Zenon DEF After
    <3>2. After(c, R, m + s) = R - ((m + s - c) % R)
      BY <2>1 DEF After
    <3> QED BY <3>1, <3>2, <2>1, Zenon
  <2> HIDE DEF d, q, r
  <2>4. CASE R - r > s
    <3>1. d + s = R * q + (r + s) /\ r + s < R /\ r + s \in Nat /\ d + s \in Nat
      BY <2>1, <2>2, <2>4
    <3>2. (d + s) % R = r + s
      BY <3>1, <2>2, RemainderIs, Zenon
    <3>3. After(R - r, R, s) = R - r - s
      BY <2>2, <2>4 DEF After
    <3>4. R - r - s = R - (r + s)
      BY <2>2
    <3> QED BY <2>3, <3>2, <3>3, <3>4, Zenon
  <2>5. CASE R - r <= s
    <3> DEFINE e == s - (R - r)
               p == e \div R
               x == e % R
    <3>1. e \in Nat
      BY <2>2, <2>5
    <3>2. x \in Nat /\ x < R /\ p \in Nat /\ e = R * p + x
      <4> HIDE DEF e
      <4> QED BY <3>1, Remainder
    <3>3. After(R - r, R, s) = R - x
      BY <2>5, Zenon DEF After
    <3>4. d + s = R * q + R + e
      BY <2>1, <2>2
    <3> HIDE DEF e, p, x
    <3>5. R * (q + 1 + p) = R * q + R + R * p /\ q + 1 + p \in Nat
      BY <2>2, <3>2
    <3>6. d + s = R * (q + 1 + p) + x /\ d + s \in Nat
      BY <2>1, <2>2, <3>2, <3>4, <3>5
    <3>7. (d + s) % R = x
      BY <3>2, <3>5, <3>6, RemainderIs, Zenon
    <3> QED BY <2>3, <3>3, <3>7, Zenon
  <2> QED BY <2>2, <2>4, <2>5
<1> QED BY <1>1, <1>2

\* handle_crystal_tics of a channel that counts, by what it does to the count.
LEMMA TicsCount ==
    ASSUME NEW k \in Channel, NEW n \in Nat, n > 0, ReloadCount(k) > 0,
           k.run_state # NOT_RUNNING, k.run_state = RUNNING => k.counter > 0,
           NEW t, t = handle_crystal_tics(k, n)
    PROVE  /\ t \in Channel /\ t.run_state = RUNNING /\ t.counter > 0
           /\ t.op_mode = k.op_mode /\ t.reload_value = k.reload_value
           /\ t.counter = After(Loaded(k).counter, ReloadCount(k), Counts(k, n))
<1> DEFINE l == Loaded(k)
           R == ReloadCount(k)
           m == Counts(k, n)
<1>0. R # 0
  BY ReloadCountWord, WordFacts
<1>1. /\ t \in Channel /\ (t.run_state = RUNNING => t.counter > 0) /\ t.op_mode = k.op_mode
  <2>1. ~ (Terminal(k, n) /\ ReloadCount(k) = 0)
    BY <1>0, Zenon
  <2> QED BY <2>1, TicsChannel, Zenon
<1>2. l \in Channel /\ l.run_state = RUNNING /\ l.reload_value = k.reload_value
  <2>1. CASE k.run_state = PENDING
    <3>1. l = [k EXCEPT !.counter = R, !.run_state = RUNNING]
      BY <2>1, Zenon DEF Loaded
    <3>2. R \in 0..(WORD - 1) /\ RUNNING \in 0..2
      BY ReloadCountWord DEF RUNNING
    <3> HIDE DEF l, R
    <3> QED BY <3>1, <3>2, Zenon DEF Channel
  <2>2. CASE k.run_state # PENDING
    BY <2>2 DEF Loaded, Channel, RUNNING, PENDING, NOT_RUNNING
  <2> QED BY <2>1, <2>2, Zenon
<1>3. /\ Terminal(k, n) => t = [l EXCEPT !.counter = Restart(k, n), !.output_pin = PinAfter(k)]
      /\ ~ Terminal(k, n) => t = [l EXCEPT !.counter = l.counter - m]
  BY Zenon DEF handle_crystal_tics
<1>4. Terminal(k, n) <=> l.counter <= m
  BY Zenon DEF Terminal
<1>5. Restart(k, n) = R - ((m - l.counter) % R)
  BY Zenon DEF Restart
<1> HIDE DEF l, R, m
<1>6. CASE Terminal(k, n)
  <2>1. t.counter = Restart(k, n) /\ t.run_state = l.run_state /\ t.reload_value = l.reload_value
    BY <1>2, <1>3, <1>6, Zenon DEF Channel
  <2>2. After(l.counter, R, m) = R - ((m - l.counter) % R)
    BY <1>4, <1>6, Zenon DEF After
  <2> QED BY <1>1, <1>2, <1>5, <2>1, <2>2, Zenon DEF l, R, m
<1>7. CASE ~ Terminal(k, n)
  <2>1. t.counter = l.counter - m /\ t.run_state = l.run_state /\ t.reload_value = l.reload_value
    BY <1>2, <1>3, <1>7, Zenon DEF Channel
  <2>2. After(l.counter, R, m) = l.counter - m
    BY <1>4, <1>7, Zenon DEF After
  <2> QED BY <1>1, <1>2, <2>1, <2>2, Zenon DEF l, R, m
<1> QED BY <1>6, <1>7, Zenon

\* The function that OneByOne defines by recursion exists.
LEMMA StepsExist ==
    ASSUME NEW k, NEW n \in Nat
    PROVE  \E f : f = [i \in 0..n |-> IF i = 0 THEN k ELSE handle_crystal_tics(f[i - 1], 1)]
<1> DEFINE H(x) == handle_crystal_tics(x, 1)
           Steps(f, m) == f = [i \in 0..m |-> IF i = 0 THEN k ELSE H(f[i - 1])]
           T == {m \in Nat : ~ \E f : Steps(f, m)}
<1> HIDE DEF H
<1>1. T = {}
  <2> SUFFICES ASSUME T # {} PROVE FALSE
    OBVIOUS
  <2>1. PICK m \in T : \A y \in T : m <= y
    <3>1. T \subseteq Nat
      BY Zenon
    <3> HIDE DEF T
    <3> QED BY <3>1, LeastElement, Zenon
  <2>2. m \in Nat /\ ~ \E f : Steps(f, m)
    BY Zenon
  <2>3. CASE m = 0
    <3> DEFINE f == [i \in 0..0 |-> k]
    <3>1. \A i \in 0..0 : i = 0
      OBVIOUS
    <3>2. f = [i \in 0..0 |-> IF i = 0 THEN k ELSE H(f[i - 1])]
      BY <3>1
    <3>3. Steps(f, 0)
      BY <3>2, Zenon
    <3> QED BY <3>3, <2>2, <2>3, Zenon
  <2>4. CASE m > 0
    <3>1. m - 1 \in Nat /\ m - 1 < m
      BY <2>2, <2>4
    <3>2. PICK f : Steps(f, m - 1)
      <4>1. ~ (m <= m - 1)
        BY <3>1, <2>2
      <4>2. m - 1 \notin T
        BY <4>1, <2>1, Zenon
      <4> QED BY <4>2, <3>1, Zenon
    <3>3. \A i \in 0..(m - 1) : f[i] = IF i = 0 THEN k ELSE H(f[i - 1])
      BY <3>2, Zenon
    <3> DEFINE g == [i \in 0..m |-> IF i = m THEN H(f[m - 1]) ELSE f[i]]
    <3>4. ASSUME NEW i \in 0..m
          PROVE  g[i] = IF i = 0 THEN k ELSE H(g[i - 1])
      <4>1. CASE i = 0
        <5>1. 0 \in 0..(m - 1) /\ i # m
          BY <4>1, <2>4, <3>1
        <5>2. g[i] = f[0] /\ f[0] = k
          BY <4>1, <5>1, <3>3, Zenon
        <5> QED BY <4>1, <5>2, Zenon
      <4>2. CASE i # 0 /\ i # m
        <5>1. i \in 0..(m - 1) /\ i - 1 \in 0..m /\ i - 1 # m
          BY <4>2, <2>2
        <5>2. g[i] = f[i] /\ g[i - 1] = f[i - 1] /\ f[i] = H(f[i - 1])
          BY <4>2, <5>1, <3>3, Zenon
        <5> QED BY <4>2, <5>2, Zenon
      <4>3. CASE i # 0 /\ i = m
        <5>1. i - 1 \in 0..m /\ i - 1 # m
          BY <4>3, <2>2
        <5>2. g[i] = H(f[m - 1]) /\ g[i - 1] = f[m - 1]
          BY <4>3, <5>1, Zenon
        <5> QED BY <4>3, <5>2, Zenon
      <4> QED BY <4>1, <4>2, <4>3, Zenon
    <3>5. Steps(g, m)
      <4>1. g = [i \in 0..m |-> g[i]]
        BY Zenon
      <4> HIDE DEF g
      <4> QED BY <4>1, <3>4, ZenonT(30)
    <3> QED BY <3>5, <2>2, Zenon
  <2> QED BY <2>2, <2>3, <2>4
<1> QED BY <1>1, Zenon DEF H

\* What OneByOne returns is reached in n steps of one oscillation.
LEMMA OneByOneSteps ==
    ASSUME NEW k, NEW n \in Nat
    PROVE  \E f : /\ OneByOne(k, n) = f[n]
                  /\ f[0] = k
                  /\ \A i \in 1..n : f[i] = handle_crystal_tics(f[i - 1], 1)
<1> DEFINE H(x) == handle_crystal_tics(x, 1)
           Steps(f) == f = [i \in 0..n |-> IF i = 0 THEN k ELSE H(f[i - 1])]
           after == CHOOSE f : Steps(f)
<1>1. OneByOne(k, n) = after[n]
  BY Zenon DEF OneByOne
<1>2. \E f : Steps(f)
  BY StepsExist, Zenon
<1> HIDE DEF H
<1>3. Steps(after)
  <2> HIDE DEF Steps
  <2> QED BY <1>2, Zenon
<1> HIDE DEF after
<1>4. 0 \in 0..n /\ \A i \in 1..n : i \in 0..n /\ i # 0
  OBVIOUS
<1>5. after[0] = k /\ \A i \in 1..n : after[i] = H(after[i - 1])
  BY <1>3, <1>4, Zenon
<1> QED BY <1>1, <1>5, Zenon DEF H

\* A channel that does not count is left as it is.
LEMMA IdleSteps ==
    ASSUME NEW k, k.run_state = NOT_RUNNING, NEW n \in Nat,
           NEW f, f[0] = k, \A i \in 1..n : f[i] = handle_crystal_tics(f[i - 1], 1)
    PROVE  f[n] = k
<1> DEFINE T == {i \in 0..n : f[i] # k}
<1>1. T = {}
  <2> SUFFICES ASSUME T # {} PROVE FALSE
    OBVIOUS
  <2>1. PICK i \in T : \A y \in T : i <= y
    <3>1. T \subseteq Nat
      OBVIOUS
    <3> HIDE DEF T
    <3> QED BY <3>1, LeastElement, Zenon
  <2>2. i \in 0..n /\ f[i] # k
    BY Zenon
  <2>3. i # 0
    BY <2>2, Zenon
  <2>4. i \in 1..n /\ i - 1 \in 0..n /\ ~ (i <= i - 1)
    BY <2>2, <2>3
  <2>5. f[i - 1] = k
    BY <2>1, <2>4, Zenon
  <2> QED BY <2>2, <2>4, <2>5, Zenon DEF handle_crystal_tics
<1>2. n \in 0..n
  OBVIOUS
<1> QED BY <1>1, <1>2, Zenon

\* The counter of a channel that counts, after n steps of one oscillation.
LEMMA CountSteps ==
    ASSUME NEW k \in Channel, k.run_state # NOT_RUNNING, k.run_state = RUNNING => k.counter > 0,
           ReloadCount(k) > 0, NEW n \in Nat, n > 0,
           NEW f, f[0] = k, \A i \in 1..n : f[i] = handle_crystal_tics(f[i - 1], 1)
    PROVE  f[n].counter = After(Loaded(k).counter, ReloadCount(k), Counts(k, n))
<1> DEFINE c == Loaded(k).counter
           R == ReloadCount(k)
           s == IF k.op_mode = SQR_WAVE THEN 2 ELSE 1
           u(i) == IF k.run_state = PENDING THEN i - 1 ELSE i
           J(i) == /\ f[i] \in Channel /\ f[i].run_state = RUNNING /\ f[i].counter > 0
                   /\ f[i].op_mode = k.op_mode /\ f[i].reload_value = k.reload_value
                   /\ f[i].counter = After(c, R, Counts(k, i))
           T == {i \in 1..n : ~ J(i)}
<1>1. \A i \in Nat : Counts(k, i) = u(i) * s
  BY Zenon DEF Counts
<1>2. s \in Nat /\ R \in Nat /\ R > 0 /\ c \in Nat
  <2>1. R \in Nat
    BY ReloadCountWord, WordFacts
  <2>2. c = R \/ c = k.counter
    BY DEF Loaded, Channel
  <2>3. k.counter \in Nat
    BY WordFacts DEF Channel
  <2> QED BY <2>1, <2>2, <2>3
<1>3. \A i \in Nat : i > 1 =>
         /\ Counts(k, i - 1) \in Nat
         /\ Counts(k, i) = Counts(k, i - 1) + s
  <2> SUFFICES ASSUME NEW i \in Nat, i > 1
               PROVE  Counts(k, i - 1) \in Nat /\ Counts(k, i) = Counts(k, i - 1) + s
    OBVIOUS
  <2>1. i - 1 \in Nat /\ u(i - 1) \in Nat /\ u(i) = u(i - 1) + 1
    OBVIOUS
  <2>2. Counts(k, i) = u(i) * s /\ Counts(k, i - 1) = u(i - 1) * s
    BY <1>1, <2>1, Zenon
  <2> HIDE DEF u, s
  <2> QED BY <2>1, <2>2, <1>2
<1>4. T = {}
  <2> SUFFICES ASSUME T # {} PROVE FALSE
    OBVIOUS
  <2>1. PICK i \in T : \A y \in T : i <= y
    <3>1. T \subseteq Nat
      <4> HIDE DEF J
      <4> QED OBVIOUS
    <3> HIDE DEF T
    <3> QED BY <3>1, LeastElement, Zenon
  <2>2. i \in 1..n /\ ~ J(i)
    BY Zenon
  <2>3. f[i] = handle_crystal_tics(f[i - 1], 1)
    BY <2>2, Zenon
  <2>4. CASE i = 1
    <3>1. f[1] = handle_crystal_tics(k, 1)
      <4>1. 1 - 1 = 0
        OBVIOUS
      <4> QED BY <2>3, <2>4, <4>1, ZenonT(30)
    <3>2. 1 \in Nat /\ 1 > 0
      OBVIOUS
    <3>3. J(1)
      BY <3>1, <3>2, TicsCount, ZenonT(30)
    <3> QED BY <3>3, <2>2, <2>4, Zenon
  <2>5. CASE i # 1
    <3>1. i \in Nat /\ i > 1 /\ i - 1 \in 1..n /\ ~ (i <= i - 1)
      BY <2>2, <2>5
    <3>2. J(i - 1)
      BY <3>1, <2>1, Zenon
    <3> DEFINE x == f[i - 1]
    <3>3. /\ x \in Channel /\ x.run_state = RUNNING /\ x.counter > 0
          /\ x.op_mode = k.op_mode /\ x.reload_value = k.reload_value
          /\ x.counter = After(c, R, Counts(k, i - 1))
      BY <3>2, Zenon
    <3>4. f[i] = handle_crystal_tics(x, 1)
      BY <2>3, Zenon
    <3> HIDE DEF x
    <3>5. ReloadCount(x) = R
      BY <3>3, Zenon DEF ReloadCount
    <3>6. RUNNING # NOT_RUNNING /\ RUNNING # PENDING
      BY DEF RUNNING, NOT_RUNNING, PENDING
    <3>7. Loaded(x) = x
      BY <3>3, <3>6, ZenonT(30) DEF Loaded
    <3>8. Counts(x, 1) = s
      <4>1. Counts(x, 1) = 1 * (IF x.op_mode = SQR_WAVE THEN 2 ELSE 1)
        BY <3>3, <3>6, Zenon DEF Counts
      <4> QED BY <4>1, <3>3
    <3>9. 1 \in Nat /\ 1 > 0
      OBVIOUS
    <3>a. /\ f[i] \in Channel /\ f[i].run_state = RUNNING /\ f[i].counter > 0
          /\ f[i].op_mode = x.op_mode /\ f[i].reload_value = x.reload_value
          /\ f[i].counter = After(x.counter, R, s)
      <4>1. x.run_state # NOT_RUNNING /\ ReloadCount(x) > 0
        BY <3>3, <3>5, <3>6, <1>2, Zenon
      <4> HIDE DEF R, s
      <4>2. /\ f[i] \in Channel /\ f[i].run_state = RUNNING /\ f[i].counter > 0
            /\ f[i].op_mode = x.op_mode /\ f[i].reload_value = x.reload_value
            /\ f[i].counter = After(Loaded(x).counter, ReloadCount(x), Counts(x, 1))
        BY <3>3, <3>4, <3>9, <4>1, TicsCount, ZenonT(30)
      <4> QED BY <4>2, <3>5, <3>7, <3>8, Zenon
    <3>b. Counts(k, i - 1) \in Nat /\ Counts(k, i) = Counts(k, i - 1) + s
      BY <3>1, <1>3, Zenon
    <3>c. After(x.counter, R, s) = After(c, R, Counts(k, i))
      <4> HIDE DEF R, s, c
      <4>1. After(After(c, R, Counts(k, i - 1)), R, s) = After(c, R, Counts(k, i - 1) + s)
        <5> DEFINE m == Counts(k, i - 1)
        <5>1. m \in Nat
          BY <3>b, Zenon
        <5> HIDE DEF m
        <5>2. After(After(c, R, m), R, s) = After(c, R, m + s)
          BY <5>1, <1>2, AfterMore
        <5> QED BY <5>2, Zenon DEF m
      <4> QED BY <4>1, <3>3, <3>b, Zenon
    <3>d. J(i)
      <4> HIDE DEF R, s, c
      <4> QED BY <3>3, <3>a, <3>c, Zenon
    <3> QED BY <3>d, <2>2, Zenon
  <2> QED BY <2>4, <2>5, ZenonT(30)
<1>5. n \in 1..n
  OBVIOUS
<1>6. J(n)
  <2> HIDE DEF J
  <2> QED BY <1>4, <1>5, Zenon
<1> QED BY <1>6, Zenon

\* handle_crystal_tics leaves the counter that the same oscillations leave one at a
\* time: for every batch, count, mode and reload value that does not fault.
THEOREM BatchesAreStepwise == PitSpec => []BatchIsStepwise
<1>1. PitInv => BatchIsStepwise
  <2> SUFFICES ASSUME PitInv, vm = "running", ReloadCount(ch[0]) > 0, NEW n \in 1..BatchLimit
               PROVE  handle_crystal_tics(ch[0], n).counter = OneByOne(ch[0], n).counter
    BY Zenon DEF BatchIsStepwise
  <2> DEFINE k == ch[0]
  <2>1. k \in Channel /\ (k.run_state = RUNNING => k.counter > 0)
    BY PitAssumption, Zenon DEF PitInv, PitTypeOK, CounterAlive
  <2>2. n \in Nat /\ n > 0
    BY PitAssumption
  <2>3. ReloadCount(k) > 0
    OBVIOUS
  <2> HIDE DEF k
  <2>4. PICK f : /\ OneByOne(k, n) = f[n] /\ f[0] = k
                 /\ \A i \in 1..n : f[i] = handle_crystal_tics(f[i - 1], 1)
    <3>1. n \in Nat
      BY <2>2, Zenon
    <3> QED BY <3>1, OneByOneSteps
  <2>5. CASE k.run_state = NOT_RUNNING
    <3>1. f[n] = k
      BY <2>2, <2>4, <2>5, IdleSteps, Zenon
    <3> QED BY <3>1, <2>4, <2>5, Zenon DEF handle_crystal_tics, k
  <2>6. CASE k.run_state # NOT_RUNNING
    <3>1. f[n].counter = After(Loaded(k).counter, ReloadCount(k), Counts(k, n))
      BY <2>1, <2>2, <2>3, <2>4, <2>6, CountSteps, Zenon
    <3>2. handle_crystal_tics(k, n).counter = After(Loaded(k).counter, ReloadCount(k), Counts(k, n))
      BY <2>1, <2>2, <2>3, <2>6, TicsCount, Zenon
    <3> QED BY <2>4, <3>1, <3>2, Zenon DEF k
  <2> QED BY <2>5, <2>6, Zenon
<1> QED BY PitInductive, <1>1, PTL

-----------------------------------------------------------------------------
(* ShadowMap: add_shadow_region *)

\* The new region lies entirely before or behind the head of the list.
HeadClear(m, r) == m # <<>> => m[1].start >= r.end \/ m[1].end <= r.start

\* What the provers need to know of a region and of a list of them.
LEMMA RegionFacts ==
    \A r \in Regions : r.start \in Nat /\ r.end \in Nat /\ r.start <= r.end
BY Zenon DEF Regions

LEMMA ListFacts ==
    ASSUME NEW m \in Seq(Regions)
    PROVE  /\ Len(m) \in Nat
           /\ m # <<>> => Len(m) >= 1
           /\ \A i \in 1..Len(m) : m[i] \in Regions
OBVIOUS

\* In a sorted list, starts and ends grow with the index.
LEMMA SortedGrows ==
    ASSUME NEW m \in Seq(Regions), Sorted(m),
           NEW i \in 1..Len(m), NEW k \in 1..Len(m), i <= k
    PROVE  m[i].start <= m[k].start /\ m[i].end <= m[k].end
<1>1. /\ m[i].start \in Nat /\ m[i].end \in Nat /\ m[i].start <= m[i].end
      /\ m[k].start \in Nat /\ m[k].end \in Nat /\ m[k].start <= m[k].end
  BY ListFacts, RegionFacts, Zenon
<1>2. i < k => m[i].end <= m[k].start
  BY Zenon DEF Sorted
<1>3. i \in Int /\ k \in Int
  BY ListFacts
<1>4. CASE i = k
  BY <1>1, <1>4
<1>5. CASE i < k
  BY <1>1, <1>2, <1>5
<1> QED BY <1>3, <1>4, <1>5

\* The loop of add_shadow_region stops at a region of the list.
LEMMA CursorFound ==
    ASSUME NEW m \in Seq(Regions), NEW r \in Regions, m # <<>>
    PROVE  CursorStops(m, r, LastCursor(m, r))
<1> DEFINE T == {i \in 1..Len(m) : ~ Advances(m, r, i)}
<1>1. Len(m) \in Nat /\ Len(m) >= 1
  BY ListFacts, Zenon
<1>2. Len(m) \in T
  <2>1. ~ Advances(m, r, Len(m))
    BY <1>1 DEF Advances
  <2> QED BY <1>1, <2>1
<1>3. PICK i \in T : \A j \in T : i <= j
  <2>1. T \subseteq Nat
    BY <1>1
  <2> QED BY <1>2, <2>1, LeastElement, Zenon
<1>4. CursorStops(m, r, i)
  <2>1. \A j \in 1..(i - 1) : j \in 1..Len(m) /\ ~ (i <= j)
    BY <1>1, <1>3
  <2> QED BY <2>1, <1>3, Zenon DEF CursorStops
<1> QED BY <1>3, <1>4, Zenon DEF LastCursor

\* The region before the place of insertion ends before the new one starts,
\* when the new one lies behind the head.
LEMMA CursorBefore ==
    ASSUME NEW m \in Seq(Regions), NEW r \in Regions, Sorted(m), HeadClear(m, r),
           ~ AddsAtHead(m, r)
    PROVE  LET i == LastCursor(m, r)
           IN  /\ i \in 1..Len(m)
               /\ m[i].end <= r.start
               /\ i < Len(m) /\ ~ m[i + 1].start >= r.end => ~ m[i + 1].end <= r.start
<1> DEFINE i == LastCursor(m, r)
<1>1. m # <<>> /\ m[1].end <= r.start
  BY Zenon DEF AddsAtHead, HeadClear
<1>2. CursorStops(m, r, i)
  BY <1>1, CursorFound, Zenon
<1>3. i \in 1..Len(m) /\ Len(m) \in Nat
  BY <1>2 DEF CursorStops
<1> HIDE DEF i
<1>4. m[i].end <= r.start
  <2>1. CASE i = 1
    BY <2>1, <1>1, Zenon
  <2>2. CASE i # 1
    <3>1. i - 1 \in 1..(i - 1) /\ (i - 1) + 1 = i
      BY <2>2, <1>3
    <3>2. Advances(m, r, i - 1)
      BY <3>1, <1>2, Zenon DEF CursorStops
    <3>3. m[(i - 1) + 1].end <= r.start
      BY <3>2, Zenon DEF Advances
    <3> QED BY <3>1, <3>3, Zenon
  <2> QED BY <2>1, <2>2, Zenon
<1>5. m[i] \in Regions
  BY <1>3, ListFacts, Zenon
<1>6. ~ CursorOverlaps(m[i], r)
  BY <1>4, <1>5, RegionFacts DEF CursorOverlaps
<1>7. ~ Advances(m, r, i)
  BY <1>2, Zenon DEF CursorStops
<1>8. i < Len(m) /\ ~ m[i + 1].start >= r.end => ~ m[i + 1].end <= r.start
  BY <1>6, <1>7, Zenon DEF Advances
<1> QED BY <1>3, <1>4, <1>8, Zenon DEF i

\* add_shadow_region rejects a region exactly when it overlaps one of the map.
LEMMA RejectsOverlaps ==
    ASSUME NEW m \in Seq(Regions), NEW r \in Regions, Sorted(m), HeadClear(m, r)
    PROVE  Rejects(m, r) <=> \E k \in 1..Len(m) : Overlap(m[k], r)
<1>0. /\ Len(m) \in Nat
      /\ r.start \in Nat /\ r.end \in Nat /\ r.start <= r.end
      /\ \A k \in 1..Len(m) : m[k].start \in Nat /\ m[k].end \in Nat /\ m[k].start <= m[k].end
  BY ListFacts, RegionFacts, Zenon
<1>1. CASE AddsAtHead(m, r)
  <2>1. ~ Rejects(m, r)
    BY <1>1, Zenon DEF Rejects
  <2>2. ASSUME NEW k \in 1..Len(m) PROVE ~ Overlap(m[k], r)
    <3>1. 1 \in 1..Len(m) /\ 1 <= k /\ m[1].start >= r.end
      BY <1>0, <1>1 DEF AddsAtHead
    <3>2. m[1].start <= m[k].start
      BY <3>1, SortedGrows, Zenon
    <3> QED BY <3>1, <3>2, <1>0 DEF Overlap
  <2> QED BY <2>1, <2>2, Zenon
<1>2. CASE ~ AddsAtHead(m, r)
  <2> DEFINE i == LastCursor(m, r)
  <2>1. /\ i \in 1..Len(m)
        /\ m[i].end <= r.start
        /\ i < Len(m) /\ ~ m[i + 1].start >= r.end => ~ m[i + 1].end <= r.start
    BY <1>2, CursorBefore, Zenon
  <2>2. Rejects(m, r) <=> i < Len(m) /\ ~ m[i + 1].start >= r.end
    <3>1. ~ CursorOverlaps(m[i], r)
      <4> HIDE DEF i
      <4>1. m[i].end \in Nat
        BY <1>0, <2>1, Zenon
      <4> QED BY <4>1, <1>0, <2>1 DEF CursorOverlaps
    <3> QED BY <3>1, <1>2, Zenon DEF Rejects
  <2> HIDE DEF i
  <2>3. ASSUME Rejects(m, r) PROVE \E k \in 1..Len(m) : Overlap(m[k], r)
    <3>1. i + 1 \in 1..Len(m)
      BY <1>0, <2>1, <2>2, <2>3, SMTT(30)
    <3>2. Overlap(m[i + 1], r)
      BY <3>1, <1>0, <2>1, <2>2, <2>3, SMTT(30) DEF Overlap
    <3> QED BY <3>1, <3>2, Zenon
  <2>4. ASSUME ~ Rejects(m, r), NEW k \in 1..Len(m) PROVE ~ Overlap(m[k], r)
    <3>1. CASE k <= i
      <4>1. m[k].end <= m[i].end
        BY <3>1, <2>1, SortedGrows, Zenon
      <4>2. m[k].end \in Nat /\ m[i].end \in Nat /\ m[i].end <= r.start
        BY <1>0, <2>1, Zenon
      <4>3. m[k].end <= r.start
        BY <4>1, <4>2, <1>0
      <4> QED BY <4>2, <4>3, <1>0 DEF Overlap
    <3>2. CASE k > i
      <4>1. i + 1 \in 1..Len(m) /\ i + 1 <= k /\ m[i + 1].start >= r.end
        BY <3>2, <1>0, <2>1, <2>2, <2>4
      <4>2. m[i + 1].start <= m[k].start
        BY <4>1, SortedGrows, Zenon
      <4>3. m[i + 1].start \in Nat /\ m[k].start \in Nat
        BY <4>1, <1>0, ZenonT(30)
      <4>4. m[k].start >= r.end
        BY <4>1, <4>2, <4>3, <1>0
      <4> QED BY <4>3, <4>4, <1>0 DEF Overlap
    <3> QED BY <1>0, <2>1, <3>1, <3>2
  <2> QED BY <2>3, <2>4, Zenon
<1> QED BY <1>1, <1>2, Zenon

\* An accepted region is linked between those that end before it starts and
\* those that start behind its end.
LEMMA LinkedBetween ==
    ASSUME NEW m \in Seq(Regions), NEW r \in Regions, Sorted(m), HeadClear(m, r),
           ~ Rejects(m, r)
    PROVE  \E p \in 1..(Len(m) + 1) :
              /\ add_shadow_region(m, r) = Linked(m, r, p)
              /\ p = 1 <=> AddsAtHead(m, r)
              /\ \A k \in 1..Len(m) : k < p => m[k].end <= r.start
              /\ \A k \in 1..Len(m) : k >= p => m[k].start >= r.end
<1>0. /\ Len(m) \in Nat
      /\ r.start \in Nat /\ r.end \in Nat /\ r.start <= r.end
      /\ \A k \in 1..Len(m) : m[k].start \in Nat /\ m[k].end \in Nat /\ m[k].start <= m[k].end
  BY ListFacts, RegionFacts, Zenon
<1>1. CASE AddsAtHead(m, r)
  <2>1. add_shadow_region(m, r) = Linked(m, r, 1)
    BY <1>1, ZenonT(30) DEF add_shadow_region
  <2>2. ASSUME NEW k \in 1..Len(m) PROVE m[k].start >= r.end
    <3>1. 1 \in 1..Len(m) /\ 1 <= k /\ m[1].start >= r.end
      BY <1>0, <1>1 DEF AddsAtHead
    <3>2. m[1].start <= m[k].start
      BY <3>1, SortedGrows, ZenonT(30)
    <3> QED BY <3>1, <3>2, <1>0
  <2>3. 1 \in 1..(Len(m) + 1) /\ \A k \in 1..Len(m) : ~ k < 1
    BY <1>0
  <2> QED BY <2>1, <2>2, <2>3, <1>1, Zenon
<1>2. CASE ~ AddsAtHead(m, r)
  <2> DEFINE i == LastCursor(m, r)
  <2>1. i \in 1..Len(m) /\ m[i].end <= r.start
    BY <1>2, CursorBefore, Zenon
  <2>2. add_shadow_region(m, r) = Linked(m, r, i + 1)
    BY <1>2, Zenon DEF add_shadow_region
  <2>3. i < Len(m) => m[i + 1].start >= r.end
    BY <1>2, ZenonT(30) DEF Rejects
  <2> HIDE DEF i
  <2>4. ASSUME NEW k \in 1..Len(m), k < i + 1 PROVE m[k].end <= r.start
    <3>1. k <= i
      BY <1>0, <2>1, <2>4
    <3>2. m[k].end <= m[i].end
      BY <3>1, <2>1, SortedGrows, ZenonT(30)
    <3> QED BY <3>2, <1>0, <2>1, SMTT(30)
  <2>5. ASSUME NEW k \in 1..Len(m), k >= i + 1 PROVE m[k].start >= r.end
    <3>1. i + 1 \in 1..Len(m) /\ i + 1 <= k /\ i < Len(m)
      BY <1>0, <2>1, <2>5
    <3>2. m[i + 1].start <= m[k].start
      BY <3>1, SortedGrows, Zenon
    <3> QED BY <3>1, <3>2, <2>3, <1>0
  <2>6. i + 1 \in 1..(Len(m) + 1) /\ i + 1 # 1
    BY <1>0, <2>1
  <2> QED BY <1>2, <2>2, <2>4, <2>5, <2>6, Zenon
<1> QED BY <1>1, <1>2, Zenon

\* The list stays sorted.
LEMMA AddKeepsSorted ==
    ASSUME NEW m \in Seq(Regions), NEW r \in Regions, Sorted(m), HeadClear(m, r)
    PROVE  add_shadow_region(m, r) \in Seq(Regions) /\ Sorted(add_shadow_region(m, r))
<1>0. Len(m) \in Nat /\ \A k \in 1..Len(m) : m[k] \in Regions
  BY ListFacts, Zenon
<1>1. CASE Rejects(m, r)
  <2>1. add_shadow_region(m, r) = m
    BY <1>1, Zenon DEF add_shadow_region, Rejects
  <2> QED BY <2>1, Zenon
<1>2. CASE ~ Rejects(m, r)
  <2> DEFINE n == add_shadow_region(m, r)
  <2>1. PICK p \in 1..(Len(m) + 1) :
           /\ n = Linked(m, r, p)
           /\ \A k \in 1..Len(m) : k < p => m[k].end <= r.start
           /\ \A k \in 1..Len(m) : k >= p => m[k].start >= r.end
    BY <1>2, LinkedBetween, Zenon
  <2> HIDE DEF n
  <2>2. /\ \A k \in 1..(Len(m) + 1) : k < p => k \in 1..Len(m)
        /\ \A k \in 1..(Len(m) + 1) : k > p => k - 1 \in 1..Len(m) /\ k - 1 >= p
    BY <1>0
  <2>3. n \in [1..(Len(m) + 1) -> Regions]
    BY <1>0, <2>1, <2>2 DEF Linked
  <2>4. n \in Seq(Regions) /\ Len(n) = Len(m) + 1
    BY <1>0, <2>3
  <2>5. ASSUME NEW j \in 1..(Len(m) + 1), NEW k \in 1..(Len(m) + 1), j < k
        PROVE  n[j].end <= n[k].start
    <3>1. /\ j < p => n[j] = m[j]
          /\ j = p => n[j] = r
          /\ j > p => n[j] = m[j - 1]
          /\ k < p => n[k] = m[k]
          /\ k = p => n[k] = r
          /\ k > p => n[k] = m[k - 1]
      BY <2>1, <1>0 DEF Linked
    <3>2. CASE k < p
      BY <3>1, <3>2, <2>2, <2>5, <1>0 DEF Sorted
    <3>3. CASE k = p
      BY <3>1, <3>3, <2>1, <2>2, <2>5, <1>0, Zenon
    <3>4. CASE k > p /\ j < p
      <4>1. j \in 1..Len(m) /\ k - 1 \in 1..Len(m) /\ m[j].end <= r.start /\ m[k - 1].start >= r.end
        BY <3>4, <2>1, <2>2, Zenon
      <4>2. m[j].end \in Nat /\ m[k - 1].start \in Nat /\ r.start \in Nat /\ r.end \in Nat /\ r.start <= r.end
        BY <4>1, <1>0, RegionFacts, ZenonT(30)
      <4>3. m[j].end <= m[k - 1].start
        BY <4>1, <4>2, SMTT(30)
      <4> QED BY <3>1, <3>4, <4>3, Zenon
    <3>5. CASE k > p /\ j = p
      <4>1. k - 1 \in 1..Len(m) /\ m[k - 1].start >= r.end
        BY <3>5, <2>1, <2>2, Zenon
      <4>2. m[k - 1].start \in Nat /\ r.end \in Nat
        BY <4>1, <1>0, RegionFacts, Zenon
      <4> QED BY <3>1, <3>5, <4>1, <4>2, Zenon
    <3>6. CASE k > p /\ j > p
      <4>1. j - 1 \in 1..Len(m) /\ k - 1 \in 1..Len(m) /\ j - 1 < k - 1
        BY <3>6, <2>2, <2>5, <1>0
      <4>2. m[j - 1].end <= m[k - 1].start
        BY <4>1, Zenon DEF Sorted
      <4> QED BY <3>1, <3>6, <4>2, Zenon
    <3> QED BY <1>0, <3>2, <3>3, <3>4, <3>5, <3>6, SMTT(30)
  <2>6. Sorted(n)
    BY <2>4, <2>5, Zenon DEF Sorted
  <2> QED BY <2>4, <2>6, Zenon DEF n
<1> QED BY <1>1, <1>2, Zenon

-----------------------------------------------------------------------------
(* get_shadow_region_by_addr *)

\* In a sorted list the walk finds the region that holds the page.
LEMMA WalkFinds ==
    ASSUME NEW m \in Seq(Regions), Sorted(m), NEW a \in Nat,
           NEW i \in 1..Len(m), Holds(m[i], a)
    PROVE  get_shadow_region_by_addr(m, a) = i
<1>0. /\ Len(m) \in Nat
      /\ \A k \in 1..Len(m) : m[k].start \in Nat /\ m[k].end \in Nat /\ m[k].start <= m[k].end
  BY ListFacts, RegionFacts, Zenon
<1>1. ASSUME NEW j \in 1..Len(m), j < i
      PROVE  ~ Holds(m[j], a) /\ ~ m[j].start > a
  <2>1. m[j].end <= m[i].start
    BY <1>1, Zenon DEF Sorted
  <2> QED BY <2>1, <1>0 DEF Holds
<1>2. WalkEnds(m, a, i)
  <2>1. \A j \in 1..(i - 1) : j \in 1..Len(m) /\ j < i
    BY <1>0
  <2> QED BY <1>1, <2>1, Zenon DEF WalkEnds
<1>3. ASSUME NEW j \in 1..Len(m), WalkEnds(m, a, j) PROVE j = i
  <2>1. ~ j < i
    BY <1>1, <1>3, Zenon DEF WalkEnds
  <2>2. ~ i < j
    <3>1. i < j => i \in 1..(j - 1)
      BY <1>0
    <3> QED BY <3>1, <1>3, Zenon DEF WalkEnds
  <2> QED BY <2>1, <2>2, <1>0
<1>4. (CHOOSE j \in 1..Len(m) : WalkEnds(m, a, j)) = i
  BY <1>2, <1>3, Zenon
<1> QED BY <1>2, <1>4, Zenon DEF get_shadow_region_by_addr

\* The region it returns holds the page.
LEMMA WalkSound ==
    ASSUME NEW m \in Seq(Regions), NEW a \in Nat, get_shadow_region_by_addr(m, a) # NoRegion
    PROVE  /\ get_shadow_region_by_addr(m, a) \in 1..Len(m)
           /\ Holds(m[get_shadow_region_by_addr(m, a)], a)
BY Zenon DEF get_shadow_region_by_addr

\* Adding a region changes no translation.
LEMMA AddKeepsTranslations ==
    ASSUME NEW m \in Seq(Regions), NEW r \in Regions, Sorted(m), HeadClear(m, r),
           NEW a \in Nat, get_shadow_region_by_addr(m, a) # NoRegion
    PROVE  lookup_shadow_map_addr(add_shadow_region(m, r), a) = lookup_shadow_map_addr(m, a)
<1>0. Len(m) \in Nat
  BY ListFacts, Zenon
<1>1. CASE Rejects(m, r)
  <2>1. add_shadow_region(m, r) = m
    BY <1>1, Zenon DEF add_shadow_region, Rejects
  <2> QED BY <2>1, Zenon
<1>2. CASE ~ Rejects(m, r)
  <2> DEFINE n == add_shadow_region(m, r)
             i == get_shadow_region_by_addr(m, a)
  <2>1. PICK p \in 1..(Len(m) + 1) : n = Linked(m, r, p)
    BY <1>2, LinkedBetween, Zenon
  <2>2. n \in Seq(Regions) /\ Sorted(n)
    BY AddKeepsSorted, Zenon
  <2>3. i \in 1..Len(m) /\ Holds(m[i], a)
    BY WalkSound, Zenon
  <2> HIDE DEF n, i
  <2>4. Len(n) = Len(m) + 1
    BY <2>1, <2>2, <1>0, SMTT(30) DEF Linked
  <2> DEFINE k == IF i < p THEN i ELSE i + 1
  <2>5. k \in 1..Len(n) /\ n[k] = m[i]
    <3>1. CASE i < p
      BY <3>1, <2>1, <2>3, <2>4, <1>0 DEF Linked
    <3>2. CASE i >= p
      <4>1. k = i + 1 /\ i + 1 \in 1..(Len(m) + 1) /\ ~ i + 1 < p /\ i + 1 # p /\ (i + 1) - 1 = i
        BY <3>2, <2>3, <1>0
      <4>2. n[i + 1] = m[(i + 1) - 1]
        BY <4>1, <2>1, Zenon DEF Linked
      <4> QED BY <4>1, <4>2, <2>4, Zenon
    <3> QED BY <2>3, <1>0, <3>1, <3>2
  <2> HIDE DEF k
  <2>6. get_shadow_region_by_addr(n, a) = k
    BY <2>2, <2>3, <2>5, WalkFinds, Zenon
  <2>7. k # NoRegion /\ i # NoRegion
    BY <2>3, <2>4, <2>5, <1>0 DEF NoRegion
  <2>8. lookup_shadow_map_addr(n, a) = lookup_shadow_map_addr(m, a)
    BY <2>5, <2>6, <2>7, ZenonT(30) DEF lookup_shadow_map_addr, i
  <2> QED BY <2>8, Zenon DEF n
<1> QED BY <1>1, <1>2, Zenon
-----------------------------------------------------------------------------
(* v3_config_guest *)

\* What is at the head of the list at each call: it is why no call meets the
\* overlap with the head that add_shadow_region does not notice.
HeadKnown ==
    /\ call = 1 => map = <<>>
    /\ call = 2 => Len(map) = 1 /\ map[1] = ConfigRegion(1, rom, vga)
    /\ call = 3 => Len(map) >= 1 /\ map[1] = ConfigRegion(2, rom, vga)
    /\ call > 3 => Len(map) >= 1 /\ map[1] = ConfigRegion(3, rom, vga)

\* Every region of the list comes from a call.
FromCalls == \A i \in 1..Len(map) : \E n \in 1..NumCalls : map[i] = ConfigRegion(n, rom, vga)

MapInv == MapTypeOK /\ Ordered /\ HeadKnown /\ FromCalls

\* Where the n-th region lies.
Placed(n, r) ==
    /\ r \in Regions
    /\ n = 1 => r.start = 240
    /\ n = 2 => r.start = 192 /\ r.end <= 240
    /\ n = 3 => r.start = 0 /\ r.end = 160
    /\ n > 3 => r.start >= 160 /\ r.end > 0

LEMMA ConfigRegions ==
    ASSUME NEW n \in 1..NumCalls, NEW r \in Nat, NEW v \in 0..48
    PROVE  Placed(n, ConfigRegion(n, r, v))
<1> USE DEF Placed, ConfigRegion, Region, Regions, NumCalls, PhysicalMemory
<1>1. n \in {1, 2, 3, 4, 5, 6, 7, 8, 9}
  OBVIOUS
<1>2. CASE n = 1  BY <1>2
<1>3. CASE n = 2  BY <1>3
<1>4. CASE n = 3  BY <1>4
<1>5. CASE n = 4  BY <1>5
<1>6. CASE n = 5  BY <1>6
<1>7. CASE n = 6  BY <1>7
<1>8. CASE n = 7  BY <1>8
<1>9. CASE n = 8  BY <1>9
<1>10. CASE n = 9  BY <1>10
<1> QED BY <1>1, <1>2, <1>3, <1>4, <1>5, <1>6, <1>7, <1>8, <1>9, <1>10, SMTT(30)

\* At every call the new region is clear of the head.
LEMMA CallsClearHead ==
    ASSUME MapInv, call <= NumCalls
    PROVE  /\ map \in Seq(Regions) /\ Sorted(map)
           /\ ConfigRegion(call, rom, vga) \in Regions
           /\ HeadClear(map, ConfigRegion(call, rom, vga))
           /\ call < 4 => AddsAtHead(map, ConfigRegion(call, rom, vga))
           /\ call > 3 => ~ AddsAtHead(map, ConfigRegion(call, rom, vga))
<1> DEFINE r == ConfigRegion(call, rom, vga)
<1>1. rom \in Nat /\ vga \in 0..48 /\ call \in 1..NumCalls
  BY SizesAssumption DEF MapInv, MapTypeOK, NumCalls
<1>2. map \in Seq(Regions) /\ Sorted(map)
  BY Zenon DEF MapInv, MapTypeOK, Ordered
<1>3. \A n \in 1..NumCalls : Placed(n, ConfigRegion(n, rom, vga))
  BY <1>1, ConfigRegions, Zenon
<1>4. /\ r \in Regions
      /\ call = 2 => r.end <= 240
      /\ call = 3 => r.end = 160
      /\ call > 3 => r.start >= 160 /\ r.end > 0
  BY <1>1, <1>3, SMTT(30) DEF Placed
<1>5. /\ call = 2 => map[1].start = 240
      /\ call = 3 => map[1].start = 192
      /\ call > 3 => map[1].start = 0 /\ map[1].end = 160
      /\ call = 1 => map = <<>>
      /\ call > 3 => map # <<>>
  BY <1>3, <1>2 DEF MapInv, HeadKnown, NumCalls, Placed
<1>6. r.start \in Nat /\ r.end \in Nat
  BY <1>4, RegionFacts, Zenon
<1> HIDE DEF r
<1>7. HeadClear(map, r)
  <2>1. CASE call = 1  BY <2>1, <1>5, Zenon DEF HeadClear
  <2>2. CASE call = 2  BY <2>2, <1>4, <1>5, <1>6, Zenon DEF HeadClear
  <2>3. CASE call = 3  BY <2>3, <1>4, <1>5, <1>6 DEF HeadClear
  <2>4. CASE call > 3  BY <2>4, <1>4, <1>5, <1>6, Zenon DEF HeadClear
  <2> QED BY <1>1, <2>1, <2>2, <2>3, <2>4
<1>8. call < 4 => AddsAtHead(map, r)
  <2>1. CASE call = 1  BY <2>1, <1>5, Zenon DEF AddsAtHead
  <2>2. CASE call = 2  BY <2>2, <1>4, <1>5, <1>6, Zenon DEF AddsAtHead
  <2>3. CASE call = 3  BY <2>3, <1>4, <1>5, <1>6 DEF AddsAtHead
  <2> QED BY <1>1, <2>1, <2>2, <2>3
<1>9. call > 3 => ~ AddsAtHead(map, r)
  BY <1>4, <1>5, <1>6 DEF AddsAtHead
<1> QED BY <1>2, <1>4, <1>7, <1>8, <1>9, Zenon DEF r

LEMMA MapInitHolds == MapInit => MapInv
<1> SUFFICES ASSUME MapInit PROVE MapInv
  BY Zenon
<1>1. MapTypeOK
  BY DEF MapInit, MapTypeOK, NumCalls
<1>2. Len(map) = 0
  BY Zenon DEF MapInit
<1>3. Ordered /\ FromCalls
  BY <1>2 DEF Ordered, Sorted, FromCalls
<1>4. HeadKnown
  BY DEF MapInit, HeadKnown
<1> QED BY <1>1, <1>3, <1>4, Zenon DEF MapInv

LEMMA MapNextHolds == MapInv /\ [MapNext]_mapVars => MapInv'
<1> SUFFICES ASSUME MapInv, [MapNext]_mapVars PROVE MapInv'
  BY Zenon
<1>1. CASE UNCHANGED mapVars
  <2>1. map' = map /\ rom' = rom /\ vga' = vga /\ call' = call /\ rejected' = rejected
    BY <1>1, Zenon DEF mapVars
  <2>2. MapTypeOK' /\ HeadKnown'
    BY <2>1, Zenon DEF MapInv, MapTypeOK, HeadKnown
  <2>3. Ordered' /\ FromCalls'
    BY <2>1, Zenon DEF MapInv, Ordered, FromCalls
  <2> QED BY <2>2, <2>3, Zenon DEF MapInv
<1>2. CASE AddShadowRegionPassthrough
  <2> DEFINE r == ConfigRegion(call, rom, vga)
  <2>1. /\ call <= NumCalls /\ call' = call + 1
        /\ rom' = rom /\ vga' = vga
        /\ map' = add_shadow_region(map, r)
        /\ rejected' \subseteq rejected \union {call}
        /\ call \in 1..NumCalls
    BY <1>2 DEF AddShadowRegionPassthrough, MapInv, MapTypeOK, NumCalls
  <2>2. /\ map \in Seq(Regions) /\ Sorted(map)
        /\ r \in Regions
        /\ HeadClear(map, r)
        /\ call < 4 => AddsAtHead(map, r)
        /\ call > 3 => ~ AddsAtHead(map, r)
    BY <2>1, CallsClearHead, Zenon
  <2>3. Len(map) \in Nat
    BY <2>2, ListFacts, Zenon
  <2>4. map' \in Seq(Regions) /\ Sorted(map')
    BY <2>1, <2>2, AddKeepsSorted, Zenon
  <2>5. MapTypeOK'
    BY <2>1, <2>4 DEF MapInv, MapTypeOK, NumCalls
  <2>6. Rejects(map, r) => map' = map
    BY <2>1, Zenon DEF add_shadow_region, Rejects
  <2>7. ~ Rejects(map, r) =>
           \E p \in 1..(Len(map) + 1) :
              map' = Linked(map, r, p) /\ (p = 1 <=> AddsAtHead(map, r))
    BY <2>1, <2>2, LinkedBetween, Zenon
  <2> HIDE DEF r
  <2>8. HeadKnown'
    <3>1. CASE call < 4
      <4>1. map' = Linked(map, r, 1)
        BY <3>1, <2>1, <2>2, Zenon DEF add_shadow_region
      <4>2. map'[1] = r /\ Len(map') = Len(map) + 1
        BY <4>1, <2>3, <2>4 DEF Linked
      <4>3. call = 1 => Len(map) = 0
        BY DEF MapInv, HeadKnown
      <4> QED BY <3>1, <4>2, <4>3, <2>1, <2>3 DEF HeadKnown, r
    <3>2. CASE call > 3
      <4>1. Len(map) >= 1 /\ map[1] = ConfigRegion(3, rom, vga)
        BY <3>2, Zenon DEF MapInv, HeadKnown
      <4>2. Len(map') >= 1 /\ map'[1] = map[1]
        <5>1. CASE Rejects(map, r)
          BY <5>1, <2>6, <4>1, Zenon
        <5>2. CASE ~ Rejects(map, r)
          <6>1. PICK p \in 1..(Len(map) + 1) : map' = Linked(map, r, p) /\ p # 1
            BY <5>2, <3>2, <2>2, <2>7, Zenon
          <6> QED BY <6>1, <4>1, <2>3, <2>4 DEF Linked
        <5> QED BY <5>1, <5>2, Zenon
      <4> QED BY <3>2, <4>1, <4>2, <2>1 DEF HeadKnown
    <3> QED BY <2>1, <3>1, <3>2
  <2>9. FromCalls'
    <3>1. \A i \in 1..Len(map) : \E n \in 1..NumCalls : map[i] = ConfigRegion(n, rom, vga)
      BY Zenon DEF MapInv, FromCalls
    <3>2. CASE Rejects(map, r)
      BY <3>1, <3>2, <2>1, <2>6, Zenon DEF FromCalls
    <3>3. CASE ~ Rejects(map, r)
      <4>1. PICK p \in 1..(Len(map) + 1) : map' = Linked(map, r, p)
        BY <3>3, <2>7, Zenon
      <4>2. Len(map') = Len(map) + 1
        BY <4>1, <2>3, <2>4 DEF Linked
      <4>3. ASSUME NEW i \in 1..(Len(map) + 1)
            PROVE  \E n \in 1..NumCalls : map'[i] = ConfigRegion(n, rom, vga)
        <5>1. CASE i < p
          BY <5>1, <4>1, <3>1, <2>3, SMTT(30) DEF Linked
        <5>2. CASE i = p
          BY <5>2, <4>1, <2>1, <2>3 DEF Linked, r
        <5>3. CASE i > p
          <6>1. i - 1 \in 1..Len(map) /\ map'[i] = map[i - 1]
            BY <5>3, <4>1, <2>3 DEF Linked
          <6> QED BY <6>1, <3>1, Zenon
        <5> QED BY <2>3, <5>1, <5>2, <5>3, SMTT(30)
      <4> QED BY <4>2, <4>3, <2>1, Zenon DEF FromCalls
    <3> QED BY <3>2, <3>3, Zenon
  <2> QED BY <2>4, <2>5, <2>8, <2>9, Zenon DEF MapInv, Ordered
<1> QED BY <1>1, <1>2, Zenon DEF MapNext

LEMMA Invariance == MapSpec => []MapInv
BY MapInitHolds, MapNextHolds, PTL DEF MapSpec

-----------------------------------------------------------------------------
(* The theorems *)

\* For all sizes of the BIOS images, the map is a list of regions.
THEOREM MapTypeCorrect == MapSpec => []MapTypeOK
<1>1. MapInv => MapTypeOK
  BY Zenon DEF MapInv
<1> QED BY <1>1, Invariance, PTL

\* For all sizes of the BIOS images, the list stays sorted and disjoint.
THEOREM MapOrdered == MapSpec => []Ordered
<1>1. MapInv => Ordered
  BY Zenon DEF MapInv
<1> QED BY <1>1, Invariance, PTL

\* get_shadow_region_by_addr finds every page that some region holds.
THEOREM LookupsComplete == MapSpec => []WalkComplete
<1>1. MapInv => WalkComplete
  <2> SUFFICES ASSUME MapInv, NEW a \in Probes, NEW i \in 1..Len(map), Holds(map[i], a)
               PROVE  get_shadow_region_by_addr(map, a) # NoRegion
    BY Zenon DEF WalkComplete
  <2>1. map \in Seq(Regions) /\ Sorted(map) /\ a \in Nat
    BY ProbesAssumption, Zenon DEF MapInv, MapTypeOK, Ordered
  <2>2. get_shadow_region_by_addr(map, a) = i
    BY <2>1, WalkFinds, Zenon
  <2>3. Len(map) \in Nat
    BY <2>1, ListFacts, Zenon
  <2> QED BY <2>2, <2>3 DEF NoRegion
<1> QED BY <1>1, Invariance, PTL

\* add_shadow_region fails on an overlap and only then.
THEOREM OverlapsRejected == MapSpec => RejectsExactlyOverlaps
<1>1. MapInv /\ [MapNext]_mapVars
      => [LET r == ConfigRegion(call, rom, vga)
          IN  Rejects(map, r) <=> \E i \in 1..Len(map) : Overlap(map[i], r)]_mapVars
  <2> SUFFICES ASSUME MapInv, MapNext
               PROVE  LET r == ConfigRegion(call, rom, vga)
                      IN  Rejects(map, r) <=> \E i \in 1..Len(map) : Overlap(map[i], r)
    BY Zenon
  <2>1. call <= NumCalls
    BY Zenon DEF MapNext, AddShadowRegionPassthrough
  <2> QED BY <2>1, CallsClearHead, RejectsOverlaps, Zenon
<1> QED BY <1>1, Invariance, PTL DEF MapSpec, RejectsExactlyOverlaps

\* A translation, once there, never changes.
THEOREM TranslationsNeverChange == MapSpec => TranslationsStable
<1>1. MapInv /\ [MapNext]_mapVars
      => [\A a \in Probes :
             get_shadow_region_by_addr(map, a) # NoRegion
                => lookup_shadow_map_addr(map', a) = lookup_shadow_map_addr(map, a)]_mapVars
  <2> SUFFICES ASSUME MapInv, MapNext, NEW a \in Probes,
                      get_shadow_region_by_addr(map, a) # NoRegion
               PROVE  lookup_shadow_map_addr(map', a) = lookup_shadow_map_addr(map, a)
    BY Zenon
  <2>1. call <= NumCalls /\ map' = add_shadow_region(map, ConfigRegion(call, rom, vga))
    BY Zenon DEF MapNext, AddShadowRegionPassthrough
  <2>2. a \in Nat
    BY ProbesAssumption, Zenon
  <2> QED BY <2>1, <2>2, CallsClearHead, AddKeepsTranslations, Zenon
<1> QED BY <1>1, Invariance, PTL DEF MapSpec, TranslationsStable

\* A translated page comes from one of the calls.
LEMMA TranslationFromCall ==
    ASSUME MapInv, NEW a \in Nat, lookup_shadow_map_addr(map, a).type # InvalidRegion
    PROVE  \E n \in 1..NumCalls :
              /\ Holds(ConfigRegion(n, rom, vga), a)
              /\ lookup_shadow_map_addr(map, a).block = ConfigRegion(n, rom, vga).block
              /\ lookup_shadow_map_addr(map, a).page =
                    (a - ConfigRegion(n, rom, vga).start) + ConfigRegion(n, rom, vga).page
<1> DEFINE i == get_shadow_region_by_addr(map, a)
<1>1. i # NoRegion
  BY Zenon DEF lookup_shadow_map_addr
<1>2. map \in Seq(Regions)
  BY Zenon DEF MapInv, MapTypeOK
<1>3. i \in 1..Len(map) /\ Holds(map[i], a)
  BY <1>1, <1>2, WalkSound, Zenon
<1>4. PICK n \in 1..NumCalls : map[i] = ConfigRegion(n, rom, vga)
  BY <1>3, Zenon DEF MapInv, FromCalls
<1>5. /\ lookup_shadow_map_addr(map, a).block = map[i].block
      /\ lookup_shadow_map_addr(map, a).page = (a - map[i].start) + map[i].page
  BY <1>1, ZenonT(30) DEF lookup_shadow_map_addr
<1> HIDE DEF i
<1> QED BY <1>3, <1>4, <1>5, Zenon

\* The guest reaches no host page outside the blocks allocated for it.
THEOREM TranslationsBacked == MapSpec => []BackedByBlock
<1>1. MapInv => BackedByBlock
  <2> SUFFICES ASSUME MapInv, NEW a \in Probes,
                      lookup_shadow_map_addr(map, a).type # InvalidRegion,
                      lookup_shadow_map_addr(map, a).block # 0
               PROVE  lookup_shadow_map_addr(map, a).page
                         < BlockPages(lookup_shadow_map_addr(map, a).block, rom, vga)
    BY Zenon DEF BackedByBlock
  <2>1. a \in Nat /\ rom \in Nat /\ vga \in 0..48
    BY ProbesAssumption, SizesAssumption, Zenon DEF MapInv, MapTypeOK
  <2>2. PICK n \in 1..NumCalls :
           /\ Holds(ConfigRegion(n, rom, vga), a)
           /\ lookup_shadow_map_addr(map, a).block = ConfigRegion(n, rom, vga).block
           /\ lookup_shadow_map_addr(map, a).page =
                 (a - ConfigRegion(n, rom, vga).start) + ConfigRegion(n, rom, vga).page
    BY <2>1, TranslationFromCall, Zenon
  <2>3. n \in {1, 2, 3, 4, 5, 6, 7, 8, 9}
    BY DEF NumCalls
  <2> USE DEF ConfigRegion, Region, Holds, BlockPages
  <2>4. CASE n = 1  BY <2>1, <2>2, <2>4
  <2>5. CASE n = 2  BY <2>1, <2>2, <2>5
  <2>6. CASE n = 3  BY <2>1, <2>2, <2>6
  <2>7. CASE n = 4 \/ n = 9  BY <2>2, <2>7
  <2>8. CASE n = 5  BY <2>1, <2>2, <2>8
  <2>9. CASE n = 6  BY <2>1, <2>2, <2>9
  <2>10. CASE n = 7  BY <2>1, <2>2, <2>10
  <2>11. CASE n = 8  BY <2>1, <2>2, <2>11
  <2> QED BY <2>3, <2>4, <2>5, <2>6, <2>7, <2>8, <2>9, <2>10, <2>11, SMTT(30)
<1> QED BY <1>1, Invariance, PTL

\* No two guest pages have the same host page.
THEOREM TranslationsDoNotAlias == MapSpec => []NoAliases
<1>1. MapInv => NoAliases
  <2> SUFFICES ASSUME MapInv, NEW a \in Probes, NEW b \in Probes, a # b,
                      lookup_shadow_map_addr(map, a).type # InvalidRegion,
                      lookup_shadow_map_addr(map, a) = lookup_shadow_map_addr(map, b)
               PROVE  FALSE
    BY Zenon DEF NoAliases
  <2>1. a \in Nat /\ b \in Nat /\ rom \in Nat /\ vga \in 0..48
    BY ProbesAssumption, SizesAssumption, Zenon DEF MapInv, MapTypeOK
  <2> DEFINE C(n) == ConfigRegion(n, rom, vga)
             h == lookup_shadow_map_addr(map, a)
  <2>2. PICK n \in 1..NumCalls :
           Holds(C(n), a) /\ h.block = C(n).block /\ h.page = (a - C(n).start) + C(n).page
    BY <2>1, TranslationFromCall, Zenon
  <2>3. PICK k \in 1..NumCalls :
           Holds(C(k), b) /\ h.block = C(k).block /\ h.page = (b - C(k).start) + C(k).page
    BY <2>1, TranslationFromCall, Zenon
  <2>4. \A q \in 1..NumCalls :
           /\ C(q).start \in Nat /\ C(q).page \in Nat
           /\ q \in {4, 9} => C(q).block = 0 /\ C(q).page = C(q).start
           /\ q \notin {4, 9} => C(q).block = q
    BY <2>1 DEF ConfigRegion, Region, NumCalls
  <2>5. n \in 1..9 /\ k \in 1..9
    BY Zenon DEF NumCalls
  <2> HIDE DEF C, h
  <2>6. C(n).block = C(k).block
    BY <2>2, <2>3, ZenonT(30)
  <2>7. CASE n \in {4, 9}
    <3>1. k \in {4, 9}
      BY <2>4, <2>7, <2>5, <2>6, SMTT(30)
    <3> QED BY <3>1, <2>1, <2>2, <2>3, <2>4, <2>7, SMTT(30)
  <2>8. CASE n \notin {4, 9}
    <3>1. k = n
      BY <2>4, <2>8, <2>5, <2>6
    <3> QED BY <3>1, <2>1, <2>2, <2>3, <2>4, SMTT(30)
  <2> QED BY <2>7, <2>8, Zenon
<1> QED BY <1>1, Invariance, PTL

=============================================================================
