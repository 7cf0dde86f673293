------------------------- MODULE Fam15SourceProofs -------------------------
(***************************************************************************)
(* The family 15h source for every range of powers, every number of        *)
(* threads and every time; setup for every listing of the PCI functions.   *)
(***************************************************************************)
EXTENDS Fam15Source, TLAPS

LEMMA LongerIsMore ==
    ASSUME NEW a \in Nat, NEW x \in Nat, NEW y \in Nat, x <= y
    PROVE  a * x \in Nat /\ a * y \in Nat /\ a * x <= a * y
<1>1. a * x \in Nat /\ a * y \in Nat
  OBVIOUS
<1>2. a * (y - x) \in Nat /\ a * (y - x) = a * y - a * x
  OBVIOUS
<1>. QED  BY <1>1, <1>2

\* One reading adds an energy possible for its interval.
LEMMA IntervalAdded ==
    ASSUME NEW e \in Nat, NEW l \in Nat, NEW t \in Nat, l <= t,
           NEW w \in PMin .. PMax, Possible(e, l)
    PROVE  /\ e + (t - l) * w \in Nat
           /\ e <= e + (t - l) * w
           /\ Possible(e + (t - l) * w, t)
<1>. DEFINE d == t - l
<1>1. d \in Nat /\ w \in Nat /\ PMin <= w /\ w <= PMax /\ PMin \in Nat /\ PMax \in Nat
  BY PowerAssumption
<1>2. t = l + d
  OBVIOUS
<1>. HIDE DEF d
<1>3. d * w \in Nat /\ d * PMin <= d * w /\ d * w <= d * PMax
  BY <1>1, LongerIsMore
<1>4. PMin * t = PMin * l + d * PMin /\ PMax * t = PMax * l + d * PMax
  BY <1>1, <1>2
<1>5. PMin * l <= e /\ e <= PMax * l
  BY DEF Possible
<1>6. PMin * l \in Nat /\ PMax * l \in Nat /\ d * PMin \in Nat /\ d * PMax \in Nat
  BY <1>1
<1>7. PMin * t <= e + d * w /\ e + d * w <= PMax * t
  BY <1>3, <1>4, <1>5, <1>6
<1>. QED  BY <1>3, <1>7 DEF Possible, d

LEMMA ReadInvInit == Init => ReadInv
<1>. SUFFICES ASSUME Init PROVE ReadInv
  OBVIOUS
<1>. USE PowerAssumption, ReadersAssumption
<1>1. TypeOK
  BY DEF Init, TypeOK
<1>2. PMin * 0 = 0 /\ PMax * 0 = 0
  OBVIOUS
<1>3. Sum
  BY <1>2 DEF Init, Sum, Possible
<1>. QED  BY <1>1, <1>3 DEF Init, ReadInv, Holds, InSection, Times, Answers, READ_ERROR

\* Time passes: what was possible by now is possible later.
LEMMA TickKeeps == ASSUME ReadInv, Tick PROVE ReadInv'
<1>. USE PowerAssumption DEF ReadInv
<1>1. clock' = clock + 1 /\ clock \in Nat /\ clock' \in Nat
  BY DEF Tick, TypeOK
<1>2. UNCHANGED <<lastTv, energy, mutex, pc, tv, watts, result, since>>
  BY DEF Tick
<1>3. PMax * clock <= PMax * clock' /\ PMax * clock \in Nat /\ PMax * clock' \in Nat
  BY <1>1, LongerIsMore
<1>4. TypeOK' /\ Holds'
  BY <1>1, <1>2 DEF TypeOK, Holds, InSection
<1>5. Times'
  BY <1>1, <1>2 DEF TypeOK, Times
<1>6. Sum'
  <2>1. energy <= PMax * clock'
    BY <1>3 DEF Sum, TypeOK
  <2>. QED  BY <1>2, <2>1 DEF Sum, Possible
<1>7. Answers'
  <2>1. \A p \in Readers : result[p] # READ_ERROR => result[p] <= PMax * clock'
    BY <1>3 DEF Answers, TypeOK
  <2>. QED  BY <1>2, <2>1 DEF Answers
<1>. QED  BY <1>4, <1>5, <1>6, <1>7

LEMMA ReadStepKeeps ==
    ASSUME ReadInv, NEW p \in Readers, ReadStep(p)
    PROVE  ReadInv'
<1>. USE PowerAssumption, ReadersAssumption DEF ReadInv
<1>1. CASE Call(p)
  <2>1. TypeOK'
    BY <1>1 DEF Call, TypeOK
  <2>2. Holds'
    BY <1>1 DEF Call, TypeOK, Holds, InSection
  <2>3. Times'
    BY <1>1 DEF Call, TypeOK, Times
  <2>4. Sum'
    BY <1>1 DEF Call, TypeOK, Sum, Possible
  <2>5. Answers'
    BY <1>1 DEF Call, TypeOK, Answers
  <2>. QED  BY <2>1, <2>2, <2>3, <2>4, <2>5
<1>2. CASE Lock(p)
  <2>1. TypeOK'
    BY <1>2 DEF Lock, TypeOK
  <2>2. Holds'
    BY <1>2 DEF Lock, TypeOK, Holds, InSection
  <2>3. Times'
    BY <1>2 DEF Lock, TypeOK, Times
  <2>4. Sum'
    BY <1>2 DEF Lock, TypeOK, Sum, Possible
  <2>5. Answers'
    BY <1>2 DEF Lock, TypeOK, Answers
  <2>. QED  BY <2>1, <2>2, <2>3, <2>4, <2>5
<1>3. CASE TakeTime(p)
  <2>1. TypeOK'
    BY <1>3 DEF TakeTime, TypeOK
  <2>2. Holds'
    BY <1>3 DEF TakeTime, TypeOK, Holds, InSection
  <2>3. Times'
    BY <1>3 DEF TakeTime, TypeOK, Times
  <2>4. Sum'
    BY <1>3 DEF TakeTime, TypeOK, Sum, Possible
  <2>5. Answers'
    BY <1>3 DEF TakeTime, TypeOK, Answers
  <2>. QED  BY <2>1, <2>2, <2>3, <2>4, <2>5
<1>4. CASE ScanPower(p)
  <2>1. PICK w \in PMin .. PMax : watts' = [watts EXCEPT ![p] = w]
    BY <1>4 DEF ScanPower
  <2>2. TypeOK'
    BY <1>4, <2>1 DEF ScanPower, TypeOK
  <2>3. Holds'
    BY <1>4 DEF ScanPower, TypeOK, Holds, InSection
  <2>4. Times'
    BY <1>4 DEF ScanPower, TypeOK, Times
  <2>5. Sum'
    BY <1>4 DEF ScanPower, TypeOK, Sum, Possible
  <2>6. Answers'
    BY <1>4 DEF ScanPower, TypeOK, Answers
  <2>. QED  BY <2>2, <2>3, <2>4, <2>5, <2>6
<1>5. CASE ScanFails(p)
  <2>1. TypeOK'
    BY <1>5 DEF ScanFails, TypeOK
  <2>2. Holds'
    BY <1>5 DEF ScanFails, TypeOK, Holds, InSection
  <2>3. Times'
    BY <1>5 DEF ScanFails, TypeOK, Times
  <2>4. Sum'
    BY <1>5 DEF ScanFails, TypeOK, Sum, Possible
  <2>5. Answers'
    BY <1>5 DEF ScanFails, TypeOK, Answers
  <2>. QED  BY <2>1, <2>2, <2>3, <2>4, <2>5
<1>6. CASE AddEnergy(p)
  <2>1. \A q \in Readers : pc[q] = "store" => FALSE
    BY <1>6 DEF AddEnergy, TypeOK, Holds, InSection
  <2>2. Possible(energy, lastTv) /\ lastTv <= tv[p] /\ tv[p] <= clock
    BY <1>6, <2>1 DEF AddEnergy, Sum, Times
  <2>3. energy' = energy + (tv[p] - lastTv) * watts[p]
    BY <1>6 DEF AddEnergy
  <2>4. energy' \in Nat /\ energy <= energy' /\ Possible(energy', tv[p])
    BY <2>2, <2>3, IntervalAdded DEF TypeOK
  <2>5. TypeOK'
    BY <1>6, <2>4 DEF AddEnergy, TypeOK
  <2>6. Holds'
    BY <1>6 DEF AddEnergy, TypeOK, Holds, InSection
  <2>7. Times'
    BY <1>6 DEF AddEnergy, TypeOK, Times
  <2>8. Sum'
    <3>1. PMax * tv[p] <= PMax * clock /\ PMax * tv[p] \in Nat /\ PMax * clock \in Nat
      BY <2>2, LongerIsMore DEF TypeOK
    <3>2. energy' <= PMax * clock
      BY <2>4, <3>1 DEF Possible
    <3>3. PMin * lastTv <= energy'
      <4>1. PMin * lastTv <= energy /\ PMin * lastTv \in Nat
        BY LongerIsMore DEF Sum, TypeOK
      <4>. QED  BY <2>4, <4>1 DEF TypeOK
    <3>4. \A q \in Readers : pc'[q] = "store" => q = p
      BY <1>6, <2>1 DEF AddEnergy, TypeOK
    <3>5. pc'[p] = "store" /\ tv' = tv /\ clock' = clock /\ lastTv' = lastTv
      BY <1>6 DEF AddEnergy, TypeOK
    <3>. QED  BY <2>4, <3>2, <3>3, <3>4, <3>5 DEF Sum, Possible
  <2>9. Answers'
    BY <1>6 DEF AddEnergy, TypeOK, Answers
  <2>. QED  BY <2>5, <2>6, <2>7, <2>8, <2>9
<1>7. CASE StoreTime(p)
  <2>1. \A q \in Readers : InSection(q) => q = p
    BY <1>7 DEF StoreTime, Holds, InSection
  <2>2. Possible(energy, tv[p]) /\ tv[p] <= clock /\ since[p] <= tv[p] /\ lastTv <= tv[p]
    BY <1>7 DEF StoreTime, Sum, Times
  <2>3. TypeOK'
    BY <1>7 DEF StoreTime, TypeOK
  <2>4. Holds'
    BY <1>7 DEF StoreTime, TypeOK, Holds, InSection
  <2>5. Times'
    <3>1. \A q \in Readers : pc[q] = "return" => since[q] <= tv[p]
      BY <2>2 DEF TypeOK, Times
    <3>. QED  BY <1>7, <2>1, <2>2, <3>1 DEF StoreTime, TypeOK, Times, InSection
  <2>6. Sum'
    <3>1. \A q \in Readers : pc'[q] # "store"
      BY <1>7, <2>1 DEF StoreTime, TypeOK, InSection
    <3>. QED  BY <1>7, <2>2, <3>1 DEF StoreTime, Sum, Possible
  <2>7. Answers'
    BY <1>7 DEF StoreTime, TypeOK, Answers
  <2>. QED  BY <2>3, <2>4, <2>5, <2>6, <2>7
<1>8. CASE Unlock(p)
  <2>1. TypeOK'
    BY <1>8 DEF Unlock, TypeOK
  <2>2. Holds'
    BY <1>8 DEF Unlock, TypeOK, Holds, InSection
  <2>3. Times'
    BY <1>8 DEF Unlock, TypeOK, Times
  <2>4. Sum'
    BY <1>8 DEF Unlock, TypeOK, Sum, Possible
  <2>5. Answers'
    BY <1>8 DEF Unlock, TypeOK, Answers
  <2>. QED  BY <2>1, <2>2, <2>3, <2>4, <2>5
<1>9. CASE Return(p)
  <2>1. TypeOK'
    BY <1>9 DEF Return, TypeOK
  <2>2. Holds'
    BY <1>9 DEF Return, TypeOK, Holds, InSection
  <2>3. Times'
    BY <1>9 DEF Return, TypeOK, Times
  <2>4. Sum'
    BY <1>9 DEF Return, TypeOK, Sum, Possible
  <2>5. Answers'
    <3>1. PMin * since[p] <= PMin * lastTv /\ PMin * since[p] \in Nat /\ PMin * lastTv \in Nat
      BY <1>9, LongerIsMore DEF Return, Times, TypeOK
    <3>2. PMin * since[p] <= energy /\ energy <= PMax * clock
      BY <3>1 DEF Sum, TypeOK
    <3>. QED  BY <1>9, <3>2 DEF Return, TypeOK, Answers
  <2>. QED  BY <2>1, <2>2, <2>3, <2>4, <2>5
<1>. QED
  BY <1>1, <1>2, <1>3, <1>4, <1>5, <1>6, <1>7, <1>8, <1>9 DEF ReadStep

LEMMA ReadInvNext == ReadInv /\ [Next]_vars => ReadInv'
<1>. SUFFICES ASSUME ReadInv, [Next]_vars PROVE ReadInv'
  OBVIOUS
<1>1. CASE UNCHANGED readVars
  BY <1>1 DEF readVars, ReadInv, TypeOK, Holds, InSection, Times, Sum, Possible, Answers
<1>2. CASE Tick
  BY <1>2, TickKeeps
<1>3. ASSUME NEW p \in Readers, ReadStep(p) PROVE ReadInv'
  BY <1>3, ReadStepKeeps
<1>. QED  BY <1>1, <1>2, <1>3 DEF Next, vars

THEOREM Fam15Invariance == Spec => []ReadInv
BY ReadInvInit, ReadInvNext, PTL DEF Spec

\* Outside the critical section every interval since setup has been added to
\* the energy exactly once, at a power the sensor can show.
THEOREM IntervalsCorrect == Spec => []EveryIntervalOnce
<1>1. ReadInv => EveryIntervalOnce
  <2>. SUFFICES ASSUME ReadInv, mutex = NoReader PROVE Possible(energy, lastTv)
    BY DEF EveryIntervalOnce
  <2>1. \A p \in Readers : pc[p] # "store"
    BY ReadersAssumption DEF ReadInv, Holds, InSection
  <2>. QED  BY <2>1 DEF ReadInv, Sum
<1>. QED  BY <1>1, Fam15Invariance, PTL

\* What read() returns is an energy possible at some moment of the call.
THEOREM AnswersCorrect == Spec => []AnswersPossible
<1>1. ReadInv => AnswersPossible
  BY DEF ReadInv, Answers, AnswersPossible
<1>. QED  BY <1>1, Fam15Invariance, PTL

\* The energy of a family 15h counter never runs backwards.
THEOREM SumNeverBackwards == Spec => NeverBackwards
<1>1. ReadInv /\ [Next]_vars => [energy' >= energy]_vars
  <2>. SUFFICES ASSUME ReadInv, Next PROVE energy' >= energy
    OBVIOUS
  <2>1. energy \in Nat
    BY DEF ReadInv, TypeOK
  <2>2. CASE energy' = energy
    BY <2>1, <2>2
  <2>3. ASSUME NEW p \in Readers, AddEnergy(p) PROVE energy' >= energy
    <3>1. \A q \in Readers : pc[q] # "store"
      BY <2>3 DEF AddEnergy, ReadInv, TypeOK, Holds, InSection
    <3>2. Possible(energy, lastTv) /\ lastTv <= tv[p]
      BY <2>3, <3>1 DEF AddEnergy, ReadInv, Sum, Times
    <3>3. energy' = energy + (tv[p] - lastTv) * watts[p]
      BY <2>3 DEF AddEnergy
    <3>. QED  BY <2>1, <3>2, <3>3, IntervalAdded DEF ReadInv, TypeOK
  <2>. QED
    BY <2>2, <2>3 DEF Next, readVars, Tick, ReadStep, Call, Lock, TakeTime, ScanPower,
       ScanFails, StoreTime, Unlock, Return
<1>. QED  BY <1>1, Fam15Invariance, PTL DEF Spec, NeverBackwards

-----------------------------------------------------------------------------
(* setup() and close() *)

LEMMA SetupInvInit == Init => SetupInv
<1>. SUFFICES ASSUME Init PROVE SetupInv
  OBVIOUS
<1>1. listing \in Seq(Int \union {Foreign}) /\ Len(listing) \in Nat
  BY ListingsAssumption DEF Init
<1>. QED  BY <1>1 DEF Init, SetupInv, SensorsBalanced

\* With one entry per package, nothing is open when the scan meets the package.
LEMMA FirstOfItsPackage ==
    ASSUME SetupInv, Scanning, listing[n] = package, OneEntryPerPackage
    PROVE  file = 0
<1>1. listing \in Seq(Int \union {Foreign}) /\ n \in 1 .. Len(listing)
  BY ListingsAssumption DEF SetupInv, Scanning
<1>2. ASSUME file # 0 PROVE FALSE
  <2>1. file \in DOMAIN listing /\ file # n /\ listing[file] = listing[n]
    BY <1>1, <1>2 DEF SetupInv
  <2>2. listing[n] # Foreign
    BY ListingsAssumption DEF SetupInv
  <2>. QED  BY <1>1, <2>1, <2>2 DEF OneEntryPerPackage
<1>. QED  BY <1>2

\* A step of the scan looks at an entry of the listing.
LEMMA ScanStepKeeps ==
    ASSUME SetupInv, SkipForeign \/ CpuListFails \/ OtherPackage \/ OpenSensor
    PROVE  SetupInv'
<1>1. /\ listing \in Seq(Int \union {Foreign}) /\ Len(listing) \in Nat
      /\ phase = "scan" /\ n \in 1 .. Len(listing) /\ n \in DOMAIN listing
  BY ListingsAssumption
     DEF SetupInv, Scanning, SkipForeign, CpuListFails, OtherPackage, OpenSensor
<1>2. CASE SkipForeign \/ CpuListFails \/ OtherPackage
  <2>1. /\ UNCHANGED <<listing, phase, package, file, files, answer>>
        /\ n' \in 0 .. n - 1
    BY <1>1, <1>2 DEF SkipForeign, CpuListFails, OtherPackage
  <2>2. SensorsBalanced'
    BY <2>1 DEF SetupInv, SensorsBalanced, OneEntryPerPackage
  <2>3. file # 0 => file \in n' + 1 .. Len(listing)
    BY <1>1, <2>1 DEF SetupInv
  <2>. QED  BY <1>1, <2>1, <2>2, <2>3 DEF SetupInv
<1>3. CASE OpenSensor
  <2>1. /\ UNCHANGED <<listing, phase, package, answer>>
        /\ Scanning /\ listing[n] = package /\ file' = n /\ files' = files + 1 /\ n' = n - 1
    BY <1>3 DEF OpenSensor
  <2>2. SensorsBalanced'
    <3>1. OneEntryPerPackage => file = 0
      BY <1>1, <2>1, FirstOfItsPackage
    <3>2. OneEntryPerPackage => files' = 1
      BY <2>1, <3>1 DEF SetupInv, SensorsBalanced
    <3>. QED  BY <1>1, <2>1, <3>2 DEF SensorsBalanced, OneEntryPerPackage
  <2>3. file' \in n' + 1 .. Len(listing) /\ n' \in 0 .. Len(listing)
    BY <1>1, <2>1
  <2>. QED  BY <1>1, <2>1, <2>2, <2>3 DEF SetupInv
<1>. QED  BY <1>2, <1>3

\* Every other step leaves the listing and gives up, or hands on, what was found.
LEMMA SetupInvNext == SetupInv /\ [Next]_vars => SetupInv'
<1>. SUFFICES ASSUME SetupInv, [Next]_vars PROVE SetupInv'
  OBVIOUS
<1>1. listing \in Seq(Int \union {Foreign}) /\ Len(listing) \in Nat
  BY ListingsAssumption DEF SetupInv
<1>2. CASE UNCHANGED setupVars
  BY <1>2 DEF setupVars, SetupInv, SensorsBalanced, OneEntryPerPackage
<1>3. CASE SourceInit
  BY <1>3 DEF SourceInit, SetupInv, SensorsBalanced, OneEntryPerPackage
<1>4. ASSUME NEW k \in Packages, SetupBegins(k) PROVE SetupInv'
  BY <1>1, <1>4 DEF SetupBegins, SetupInv, SensorsBalanced, OneEntryPerPackage
<1>5. CASE SkipForeign \/ CpuListFails \/ OtherPackage \/ OpenSensor
  BY <1>5, ScanStepKeeps
<1>6. CASE OpenSensorFails
  <2>1. Scanning /\ listing[n] = package /\ ReturnsNull(files)
    BY <1>6 DEF OpenSensorFails
  <2>2. OneEntryPerPackage => files = 0
    BY <2>1, FirstOfItsPackage DEF SetupInv, SensorsBalanced
  <2>3. SensorsBalanced'
    BY <2>1, <2>2 DEF ReturnsNull, SensorsBalanced, OneEntryPerPackage
  <2>. QED  BY <1>1, <2>1, <2>3 DEF ReturnsNull, SetupInv
<1>7. CASE ScanFindsNothing
  BY <1>1, <1>7 DEF ScanFindsNothing, ReturnsNull, SetupInv, SensorsBalanced, OneEntryPerPackage
<1>8. CASE ScanEnds
  BY <1>8 DEF ScanEnds, SetupInv, SensorsBalanced, OneEntryPerPackage
<1>9. CASE FirstFails
  <2>1. phase = "first" /\ ReturnsNull(files - 1) /\ file # 0
    BY <1>9 DEF FirstFails, SetupInv
  <2>2. SensorsBalanced'
    BY <2>1 DEF ReturnsNull, SetupInv, SensorsBalanced, OneEntryPerPackage
  <2>. QED  BY <1>1, <2>1, <2>2 DEF ReturnsNull, SetupInv
<1>10. CASE Create
  BY <1>10 DEF Create, SetupInv, SensorsBalanced, OneEntryPerPackage
<1>11. CASE Close
  BY <1>11 DEF Close, SetupInv, SensorsBalanced, OneEntryPerPackage
<1>. QED
  BY <1>2, <1>3, <1>4, <1>5, <1>6, <1>7, <1>8, <1>9, <1>10, <1>11 DEF Next, SetupStep, vars

THEOREM Fam15SetupInvariance == Spec => []SetupInv
BY SetupInvInit, SetupInvNext, PTL DEF Spec

\* The counter that setup returns reads the sensor of the package it was asked for.
THEOREM ReadsOwnSensorCorrect == Spec => []ReadsOwnSensor
<1>1. SetupInv => ReadsOwnSensor
  BY DEF SetupInv, ReadsOwnSensor
<1>. QED  BY <1>1, Fam15SetupInvariance, PTL

\* With one PCI function per package every FILE is held by the counter or closed.
THEOREM SensorsBalancedCorrect == Spec => []SensorsBalanced
<1>1. SetupInv => SensorsBalanced
  BY DEF SetupInv
<1>. QED  BY <1>1, Fam15SetupInvariance, PTL
=============================================================================
