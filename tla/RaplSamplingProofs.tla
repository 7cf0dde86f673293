------------------------- MODULE RaplSamplingProofs -------------------------
(***************************************************************************)
(* What the extension of a reading to 64 bits computes, for a register of  *)
(* any width; RaplCounter for every width, every set of reading threads    *)
(* and every amount of energy; and RaplSampling: the overflow thread keeps *)
(* the premise of RaplCounter, for every period, delay, rate and number of *)
(* failures that fit the register; at the end X86AdaptCounter, the counter *)
(* without a lock, for one reading thread.                                 *)
(***************************************************************************)
EXTENDS RaplSampling, TLAPS

-----------------------------------------------------------------------------
(* The extension of a reading to 64 bits: CounterArithmetic *)

\* The low word is a value of the register.
LEMMA LowIsRegister ==
    ASSUME NEW x \in Nat
    PROVE  Low(x) \in 0 .. WRAP - 1
BY WrapAssumption DEF Low

\* The high word counts whole turns of the register.
LEMMA HighIsTurns ==
    ASSUME NEW x \in Nat
    PROVE  /\ x \div WRAP \in Nat
           /\ High(x) = WRAP * (x \div WRAP)
           /\ x = High(x) + Low(x)
<1>1. x \div WRAP \in Nat
  BY WrapAssumption
<1>2. x = WRAP * (x \div WRAP) + (x % WRAP)
  BY WrapAssumption
<1>3. x % WRAP \in Int /\ WRAP * (x \div WRAP) \in Int
  BY <1>1, WrapAssumption
<1>. QED  BY <1>1, <1>2, <1>3 DEF High, Low

\* Less than one turn after x the register has turned over once or not at all.
LEMMA AtMostOneTurn ==
    ASSUME NEW x \in Nat, NEW y \in Nat, x <= y, y < x + WRAP
    PROVE  \/ y \div WRAP = x \div WRAP
           \/ y \div WRAP = (x \div WRAP) + 1
<1> DEFINE q == x \div WRAP
           r == y \div WRAP
<1>1. q \in Nat /\ r \in Nat /\ WRAP \in Nat /\ WRAP > 0
  BY HighIsTurns, WrapAssumption
<1>2. WRAP * q <= x /\ x < WRAP * q + WRAP
  BY LowIsRegister, HighIsTurns, WrapAssumption
<1>3. WRAP * r <= y /\ y < WRAP * r + WRAP
  BY LowIsRegister, HighIsTurns, WrapAssumption
<1> HIDE DEF q, r
<1>4. r >= q
  <2>1. SUFFICES ASSUME r + 1 <= q PROVE FALSE
    BY <1>1
  <2>2. WRAP * (r + 1) <= WRAP * q
    BY <2>1, <1>1
  <2>. QED  BY <2>2, <1>1, <1>2, <1>3
<1>5. r <= q + 1
  <2>1. SUFFICES ASSUME q + 2 <= r PROVE FALSE
    BY <1>1
  <2>2. WRAP * (q + 2) <= WRAP * r
    BY <2>1, <1>1
  <2>. QED  BY <2>2, <1>1, <1>2, <1>3
<1>6. r = q \/ r = q + 1
  BY <1>1, <1>4, <1>5
<1>. QED  BY <1>6 DEF q, r

\* The four lines at the heart of every do_read: if the register is read
\* again before it has turned a whole turn, the extension of the reading is
\* the energy itself.
THEOREM ExtendExact ==
    ASSUME NEW x \in Nat, NEW y \in Nat, x <= y, y < x + WRAP
    PROVE  Extend(x, y % WRAP) = y
<1>1. WRAP \in Nat /\ WRAP > 0
  BY WrapAssumption
<1>2. Low(x) \in 0 .. WRAP - 1 /\ Low(y) \in 0 .. WRAP - 1 /\ Low(y) = y % WRAP
  BY LowIsRegister DEF Low
<1>3. /\ x \div WRAP \in Nat /\ y \div WRAP \in Nat
      /\ High(x) = WRAP * (x \div WRAP) /\ High(y) = WRAP * (y \div WRAP)
      /\ x = High(x) + Low(x) /\ y = High(y) + Low(y)
  BY HighIsTurns
<1>4. High(x) \in Nat /\ High(y) \in Nat
  BY <1>1, <1>3
<1>5. CASE y \div WRAP = x \div WRAP
  <2>1. High(y) = High(x)
    BY <1>3, <1>5
  <2>2. ~(Low(y) < Low(x))
    BY <1>2, <1>3, <1>4, <2>1
  <2>. QED  BY <1>2, <1>3, <2>1, <2>2 DEF Extend
<1>6. CASE y \div WRAP = (x \div WRAP) + 1
  <2>1. High(y) = High(x) + WRAP
    BY <1>1, <1>3, <1>6
  <2>2. Low(y) < Low(x)
    BY <1>1, <1>2, <1>3, <1>4, <2>1
  <2>. QED  BY <1>2, <1>3, <2>1, <2>2 DEF Extend
<1>. QED  BY <1>5, <1>6, AtMostOneTurn

-----------------------------------------------------------------------------
(* The counter: RaplCounter *)

LEMMA InvInit == Init => Inv
<1> SUFFICES ASSUME Init PROVE Inv
  OBVIOUS
<1> USE WrapAssumption, ReadersAssumption
<1>1. TypeOK
  BY DEF Init, TypeOK, READ_ERROR
<1>2. Behind
  BY DEF Init, Behind
<1>. QED  BY <1>1, <1>2 DEF Init, Inv, Holds

LEMMA InvNext == Inv /\ [Next]_vars => Inv'
<1> SUFFICES ASSUME Inv, [Next]_vars PROVE Inv'
  OBVIOUS
<1> USE WrapAssumption, ReadersAssumption DEF Inv
<1>1. CASE Consume
  <2>1. TypeOK' /\ Behind'
    BY <1>1 DEF Consume, TypeOK, Behind
  <2>. QED  BY <1>1, <2>1 DEF Consume, TypeOK, Holds
<1>2. ASSUME NEW p \in Readers, Call(p) PROVE Inv'
  <2>1. TypeOK'
    BY <1>2 DEF Call, TypeOK
  <2>2. Behind'
    BY <1>2 DEF Call, TypeOK, Behind
  <2>. QED  BY <1>2, <2>1, <2>2 DEF Call, TypeOK, Holds
<1>3. ASSUME NEW p \in Readers, Lock(p) PROVE Inv'
  <2>1. TypeOK'
    BY <1>3 DEF Lock, TypeOK
  <2>2. Behind'
    BY <1>3 DEF Lock, TypeOK, Behind
  <2>. QED  BY <1>3, <2>1, <2>2 DEF Lock, TypeOK, Holds
<1>4. ASSUME NEW p \in Readers, Pread(p) PROVE Inv'
  <2>0. Register \in 0 .. WRAP - 1
    BY LowIsRegister DEF TypeOK, Register, Low
  <2>1. TypeOK'
    BY <1>4, <2>0 DEF Pread, TypeOK
  <2>2. \A q \in Readers : pc[q] = "update" => q = p
    BY <1>4 DEF Pread, TypeOK, Holds
  <2>3. last = sampled
    BY <1>4, <2>2 DEF Pread, Behind
  <2>4. Behind'
    BY <1>4, <2>3 DEF Pread, TypeOK, Behind
  <2>5. \A q \in Readers : pc'[q] = "update" => reading'[q] = sampled' % WRAP
    BY <1>4, <2>2 DEF Pread, TypeOK, Register
  <2>6. \A q \in Readers :
           pc'[q] \in {"update", "unlock", "return"} => since'[q] <= sampled'
    BY <1>4 DEF Pread, TypeOK
  <2>. QED  BY <1>4, <2>1, <2>4, <2>5, <2>6 DEF Pread, TypeOK, Holds
<1>5. ASSUME NEW p \in Readers, PreadFails(p) PROVE Inv'
  <2>1. TypeOK'
    BY <1>5 DEF PreadFails, TypeOK
  <2>2. Behind'
    BY <1>5 DEF PreadFails, TypeOK, Behind
  <2>. QED  BY <1>5, <2>1, <2>2 DEF PreadFails, TypeOK, Holds
<1>6. ASSUME NEW p \in Readers, Update(p) PROVE Inv'
  <2>1. \A q \in Readers : pc[q] = "update" => q = p
    BY <1>6 DEF Update, TypeOK, Holds
  <2>2. last <= sampled /\ sampled < last + WRAP
    BY <1>6 DEF Update, Behind
  <2>3. Extend(last, sampled % WRAP) = sampled
    BY <2>2, ExtendExact DEF TypeOK
  <2>4. last' = sampled
    BY <1>6, <2>3 DEF Update
  <2>5. TypeOK'
    BY <1>6, <2>4 DEF Update, TypeOK
  <2>6. Behind'
    BY <1>6, <2>1, <2>4 DEF Update, TypeOK, Behind
  <2>7. \A q \in Readers : pc'[q] = "return" => since'[q] <= last'
    BY <1>6, <2>2, <2>4 DEF Update, TypeOK
  <2>. QED  BY <1>6, <2>4, <2>5, <2>6, <2>7 DEF Update, TypeOK, Holds
<1>7. ASSUME NEW p \in Readers, Unlock(p) PROVE Inv'
  <2>1. \A q \in Readers : pc[q] # "update"
    BY <1>7 DEF Unlock, TypeOK, Holds
  <2>2. TypeOK' /\ Behind'
    BY <1>7, <2>1 DEF Unlock, TypeOK, Behind
  <2>3. \A q \in Readers : pc'[q] = "return" => since'[q] <= last'
    BY <1>7, <2>1 DEF Unlock, TypeOK, Behind
  <2>. QED  BY <1>7, <2>2, <2>3 DEF Unlock, TypeOK, Holds
<1>8. ASSUME NEW p \in Readers, Return(p) PROVE Inv'
  <2>1. TypeOK' /\ Behind'
    BY <1>8 DEF Return, TypeOK, Behind
  <2>. QED  BY <1>8, <2>1 DEF Return, TypeOK, Holds
<1>9. CASE UNCHANGED vars
  BY <1>9 DEF vars, TypeOK, Holds, Behind
<1>. QED
  BY <1>1, <1>2, <1>3, <1>4, <1>5, <1>6, <1>7, <1>8, <1>9 DEF Next, Step

\* The conjunction of type correctness, mutual exclusion in do_read and the
\* bounds on last_reading holds in every reachable state.
THEOREM Invariance == Spec => []Inv
BY InvInit, InvNext, PTL DEF Spec

\* Every variable of do_read keeps its type; in particular a reading never
\* exceeds the register and last_reading never becomes negative.
THEOREM TypeCorrect == Spec => []TypeOK
<1>1. Inv => TypeOK
  BY DEF Inv
<1>. QED  BY <1>1, Invariance, PTL

\* Outside the critical section last_reading is the energy at the last
\* successful register read: no interleaving of readers misses a wrap or
\* counts one twice.
THEOREM ExactCorrect == Spec => []Exact
<1>1. Inv => Exact
  <2> SUFFICES ASSUME Inv, mutex = NoReader PROVE last = sampled
    BY DEF Exact
  <2>1. \A p \in Readers : pc[p] # "update"
    BY ReadersAssumption DEF Inv, Holds
  <2>. QED  BY <2>1 DEF Inv, Behind
<1>. QED  BY <1>1, Invariance, PTL

-----------------------------------------------------------------------------

LEMMA MeterInit == Init => Meter!Init
<1> SUFFICES ASSUME Init PROVE Meter!Init
  OBVIOUS
<1>1. energy \in Nat
  BY WrapAssumption DEF Init
<1>2. \A p \in Readers : (pc[p] # "idle") = FALSE
  BY DEF Init
<1>3. [p \in Readers |-> pc[p] # "idle"] = [p \in Readers |-> FALSE]
  BY <1>2, Zenon
<1>. QED  BY <1>1, <1>3 DEF Init, Meter!Init, READ_ERROR, Meter!READ_ERROR

LEMMA MeterNext == Inv /\ [Next]_vars => [Meter!Next]_Meter!vars
<1> SUFFICES ASSUME Inv, [Next]_vars PROVE [Meter!Next]_Meter!vars
  OBVIOUS
<1> DEFINE busy == [p \in Readers |-> pc[p] # "idle"]
<1>1. CASE Consume
  <2>1. Meter!Consume
    BY <1>1 DEF Consume, Meter!Consume, Inv, TypeOK
  <2>. QED  BY <2>1 DEF Meter!Next
<1>2. ASSUME NEW p \in Readers, Call(p) PROVE Meter!Next
  <2>1. busy' = [busy EXCEPT ![p] = TRUE] /\ ~busy[p]
    BY <1>2 DEF Call, Inv, TypeOK
  <2>2. Meter!Begin(p)
    BY <1>2, <2>1 DEF Call, Meter!Begin
  <2>. QED  BY <2>2 DEF Meter!Next
<1>3. ASSUME NEW p \in Readers, PreadFails(p) PROVE Meter!Next
  <2>1. busy' = [busy EXCEPT ![p] = FALSE] /\ busy[p]
    BY <1>3 DEF PreadFails, Inv, TypeOK
  <2>2. Meter!Fail(p)
    BY <1>3, <2>1 DEF PreadFails, Meter!Fail, READ_ERROR, Meter!READ_ERROR
  <2>. QED  BY <2>2 DEF Meter!Next
<1>4. ASSUME NEW p \in Readers, Return(p) PROVE Meter!Next
  <2>1. busy' = [busy EXCEPT ![p] = FALSE] /\ busy[p]
    BY <1>4 DEF Return, Inv, TypeOK
  <2>2. since[p] <= last /\ last <= sampled /\ sampled <= energy
    BY <1>4 DEF Return, Inv, TypeOK, Behind
  <2>3. PICK value \in since[p] .. energy : value = last
    BY <2>2 DEF Inv, TypeOK
  <2>4. Meter!Answer(p, value)
    BY <1>4, <2>1, <2>3 DEF Return, Meter!Answer, Inv, TypeOK
  <2>5. \E v \in since[p] .. energy : Meter!Answer(p, v)
    BY <2>3, <2>4, Zenon
  <2>. QED  BY <2>5, Zenon DEF Meter!Next
<1>5. ASSUME NEW p \in Readers, Lock(p) \/ Pread(p) \/ Update(p) \/ Unlock(p)
      PROVE  UNCHANGED Meter!vars
  <2>1. busy' = busy
    BY <1>5 DEF Lock, Pread, Update, Unlock, Inv, TypeOK
  <2>. QED  BY <1>5, <2>1 DEF Lock, Pread, Update, Unlock, Meter!vars
<1>6. CASE UNCHANGED vars
  BY <1>6 DEF vars, Meter!vars
<1>. QED
  BY <1>1, <1>2, <1>3, <1>4, <1>5, <1>6 DEF Next, Step

\* do_read of msr.c, msr_fam23.c and likwid.c implements the energy meter:
\* every value read() returns is one the energy had during the call.
THEOREM Refinement == Spec => MeterSpec
BY Invariance, MeterInit, MeterNext, PTL DEF Spec, MeterSpec, Meter!Spec

-----------------------------------------------------------------------------
(* The overflow thread that samples it: RaplSampling *)

LEMMA GapIsNat == MaxGap \in Nat
<1>1. (MaxFails + 1) * (Period + Delay) \in Nat
  BY TimesAssumption
<1>. QED  BY <1>1, TimesAssumption DEF MaxGap

\* More failures in a row, more time.
LEMMA FailsMonotone ==
    ASSUME NEW m \in Nat, NEW n \in Nat, m <= n, NEW t \in Nat
    PROVE  m * t <= n * t
<1>1. PICK d \in Nat : n = m + d
  <2>1. n - m \in Nat /\ n = m + (n - m)
    OBVIOUS
  <2>. QED  BY <2>1
<1>2. n * t = m * t + d * t
  BY <1>1
<1>3. m * t \in Nat /\ d * t \in Nat
  BY <1>1
<1>. QED  BY <1>2, <1>3

\* In every part of the loop the last sample is at most MaxGap old.
LEMMA AgeBounded == TimedInv => age <= MaxGap
<1> SUFFICES ASSUME TimedInv PROVE age <= MaxGap
  OBVIOUS
<1> USE TimesAssumption
<1>1. /\ timer \in Int /\ -Delay <= timer /\ fails \in Nat /\ fails <= MaxFails /\ age \in Nat
  BY DEF TimedInv, TimedTypeOK
<1> DEFINE t == Period + Delay
<1>2. fails * t <= MaxFails * t
  BY <1>1, FailsMonotone
<1>3. (MaxFails + 1) * t = MaxFails * t + t
  OBVIOUS
<1>4. MaxFails * t \in Nat /\ fails * t \in Nat
  BY <1>1
<1>5. MaxGap = MaxFails * t + t + Delay
  BY <1>3 DEF MaxGap
<1>6. CASE Asleep
  <2>1. age + timer <= t + fails * t
    BY <1>6 DEF TimedInv
  <2> HIDE DEF t
  <2>2. t \in Nat
    BY DEF t
  <2>. QED  BY <1>1, <1>2, <1>4, <1>5, <2>1, <2>2
<1>7. CASE ~Asleep
  <2>1. age + timer <= 0
    BY <1>7 DEF TimedInv
  <2> HIDE DEF t
  <2>2. t \in Nat
    BY DEF t
  <2>. QED  BY <1>1, <1>4, <1>5, <2>1, <2>2
<1>. QED  BY <1>6, <1>7

\* What can be consumed until the sample is MaxGap old is less than a turn.
LEMMA BurnIsConsume == TimedInv /\ Burn => Consume
<1> SUFFICES ASSUME TimedInv, Burn PROVE Consume
  OBVIOUS
<1> USE TimesAssumption
<1>1. /\ age \in Nat /\ spent \in Nat /\ energy \in Nat /\ sampled \in Nat
      /\ energy - sampled <= Rate * age + spent
      /\ spent + 1 <= Rate
  BY DEF TimedInv, TimedTypeOK, TypeOK, Burn
<1>2. age * Rate <= MaxGap * Rate
  BY <1>1, AgeBounded, GapIsNat, FailsMonotone
<1>3. Rate * (MaxGap + 1) = MaxGap * Rate + Rate /\ Rate * age = age * Rate
  BY <1>1, GapIsNat
<1>4. age * Rate \in Nat /\ MaxGap * Rate \in Nat
  BY <1>1, GapIsNat
<1>5. energy + 1 - sampled < WRAP
  BY <1>1, <1>2, <1>3, <1>4, PeriodAssumption, WrapAssumption
<1>6. energy + 1 < sampled + WRAP
  BY <1>1, <1>5, WrapAssumption
<1>. QED  BY <1>6 DEF Burn, Consume

\* With the clock forgotten, every step is one of RaplCounter.
LEMMA TimedStep == TimedInv /\ [TimedNext]_timedVars => [Next]_vars
<1> SUFFICES ASSUME TimedInv, [TimedNext]_timedVars PROVE [Next]_vars
  OBVIOUS
<1> USE SamplerAssumption
<1>1. CASE Burn
  BY <1>1, BurnIsConsume DEF Next
<1>2. CASE Tick
  BY <1>2 DEF Tick
<1>3. CASE SamplerCalls
  BY <1>3 DEF SamplerCalls, Next
<1>4. CASE SamplerStep
  BY <1>4 DEF SamplerStep, SamplerReads, SamplerReadFails, SamplerReturns, Next, Step
<1>5. ASSUME NEW p \in Clients, (Call(p) /\ UNCHANGED timing) \/ ClientStep(p)
      PROVE  Next
  BY <1>5 DEF Clients, ClientStep, ClientReads, Next, Step
<1>6. CASE UNCHANGED timedVars
  BY <1>6 DEF timedVars
<1>. QED  BY <1>1, <1>2, <1>3, <1>4, <1>5, <1>6 DEF TimedNext

LEMMA TimedInvInit == TimedInit => TimedInv
<1> SUFFICES ASSUME TimedInit PROVE TimedInv
  OBVIOUS
<1> USE TimesAssumption, SamplerAssumption
<1>1. TypeOK /\ energy - sampled = 0
  BY InvInit DEF TimedInit, Init, Inv, TypeOK
<1>2. TimedTypeOK
  BY <1>1 DEF TimedInit, TimedTypeOK
<1>3. pc[Sampler] = "idle"
  BY DEF TimedInit, Init
<1>4. Rate * age = 0 /\ spent >= 0 /\ fails * (Period + Delay) = 0
  BY DEF TimedInit
<1>. QED  BY <1>1, <1>2, <1>3, <1>4 DEF TimedInit, TimedInv, Asleep

LEMMA TimedInvNext == TimedInv /\ Inv /\ [TimedNext]_timedVars => TimedInv'
<1> SUFFICES ASSUME TimedInv, Inv, [TimedNext]_timedVars PROVE TimedInv'
  OBVIOUS
<1> USE TimesAssumption, SamplerAssumption
<1> DEFINE t == Period + Delay
<1>a. Inv' /\ TypeOK'
  BY TimedStep, InvNext DEF Inv
<1>b. /\ timer \in -Delay .. Period /\ fails \in 0 .. MaxFails
      /\ spent \in 0 .. Rate /\ age \in Nat
      /\ energy \in Nat /\ sampled \in Nat /\ sampled <= energy
      /\ pc \in [Readers -> {"idle", "lock", "pread", "update", "unlock", "return"}]
  BY DEF TimedInv, TimedTypeOK, Inv, TypeOK
<1>c. t \in Nat /\ fails * t \in Nat /\ Rate * age \in Nat /\ Rate * 0 = 0
  BY <1>b
<1>d. \A p \in Clients : p \in Readers /\ p # Sampler
  BY DEF Clients
\* Steps that take no sample and leave the thread where it is.
<1>e. ASSUME UNCHANGED <<timing, energy, sampled>>, Asleep' = Asleep,
             pc'[Sampler] \in {"lock", "pread"} => timer <= 0
      PROVE  TimedInv'
  BY <1>a, <1>e DEF timing, TimedInv, TimedTypeOK
\* A sample, whoever takes it: the clock of the samples starts anew.
<1>f. ASSUME age' = 0, spent' = spent, timer' = timer, energy' = energy, sampled' = energy
      PROVE  energy' - sampled' <= Rate * age' + spent'
  BY <1>b, <1>c, <1>f
<1>1. CASE Burn
  BY <1>1, <1>a, <1>b, <1>c DEF Burn, TimedInv, TimedTypeOK, Asleep
<1>2. CASE Tick
  <2>1. UNCHANGED <<pc, energy, sampled, fails>> /\ Asleep' = Asleep
    BY <1>2 DEF Tick, vars, Asleep
  <2>2. age' + timer' = age + timer
    BY <1>2, <1>b DEF Tick
  <2>3. Rate * age' = Rate * age + Rate
    BY <1>2, <1>b DEF Tick
  <2>4. energy' - sampled' <= Rate * age' + spent'
    BY <1>2, <1>b, <1>c, <2>1, <2>3 DEF Tick, TimedInv
  <2>5. TimedTypeOK'
    BY <1>2, <1>a, <1>b, <2>1 DEF Tick, TimedTypeOK
  <2>6. pc'[Sampler] \in {"lock", "pread"} => timer' <= 0
    BY <1>2, <1>b, <2>1 DEF Tick, TimedInv
  <2>. QED  BY <2>1, <2>2, <2>4, <2>5, <2>6 DEF TimedInv
<1>3. CASE SamplerCalls
  <2>1. pc[Sampler] = "idle" /\ pc'[Sampler] = "lock" /\ timer <= 0
    BY <1>3, <1>b DEF SamplerCalls, Call
  <2>. QED  BY <1>3, <1>e, <2>1 DEF SamplerCalls, Call, Asleep
<1>4. CASE SamplerReads
  <2>1. pc[Sampler] = "pread" /\ pc'[Sampler] = "update"
    BY <1>4, <1>b DEF SamplerReads, Pread
  <2>2. /\ age' = 0 /\ fails' = 0 /\ timer' = timer /\ spent' = spent
        /\ energy' = energy /\ sampled' = energy
    BY <1>4 DEF SamplerReads, Pread
  <2>3. timer <= 0
    BY <2>1 DEF TimedInv
  <2>4. TimedTypeOK'
    BY <1>a, <1>b, <2>2 DEF TimedTypeOK
  <2>. QED  BY <1>b, <1>f, <2>1, <2>2, <2>3, <2>4 DEF TimedInv, Asleep
<1>5. CASE SamplerReadFails
  <2>1. pc[Sampler] = "pread" /\ pc'[Sampler] = "idle"
    BY <1>5, <1>b DEF SamplerReadFails, PreadFails
  <2>2. /\ age' = age /\ fails' = fails + 1 /\ timer' = Period /\ spent' = spent
        /\ energy' = energy /\ sampled' = sampled /\ fails < MaxFails
    BY <1>5 DEF SamplerReadFails, PreadFails, Sleep
  <2>3. age + timer <= t + fails * t
    BY <2>1 DEF TimedInv, Asleep
  <2>4. (fails + 1) * t = fails * t + t
    BY <1>b
  <2>5. age' + timer' <= t + fails' * t
    <3> HIDE DEF t
    <3>1. age + Period <= t + fails * t + Delay + Period
      BY <1>b, <1>c, <2>3
    <3>2. age + Period <= t + fails * t + t
      BY <3>1, <1>b, <1>c DEF t
    <3>. QED  BY <2>2, <2>4, <3>2, <1>b, <1>c
  <2>6. TimedTypeOK'
    BY <1>a, <1>b, <2>2 DEF TimedTypeOK
  <2>. QED  BY <2>1, <2>2, <2>5, <2>6 DEF TimedInv, Asleep
<1>6. CASE SamplerReturns
  <2>1. pc[Sampler] = "return" /\ pc'[Sampler] = "idle"
    BY <1>6, <1>b DEF SamplerReturns, Return
  <2>2. /\ age' = age /\ fails' = fails /\ timer' = Period /\ spent' = spent
        /\ energy' = energy /\ sampled' = sampled
    BY <1>6 DEF SamplerReturns, Return, Sleep
  <2>3. fails = 0 /\ age + timer <= 0
    BY <2>1 DEF TimedInv, Asleep
  <2>4. age' + timer' <= Period + Delay + fails' * t
    BY <1>b, <2>2, <2>3
  <2>5. TimedTypeOK'
    BY <1>a, <1>b, <2>2 DEF TimedTypeOK
  <2>. QED  BY <2>1, <2>2, <2>4, <2>5 DEF TimedInv, Asleep
<1>7. CASE (Lock(Sampler) \/ Update(Sampler) \/ Unlock(Sampler)) /\ UNCHANGED timing
  <2>1. Asleep' = Asleep /\ UNCHANGED <<energy, sampled>>
    BY <1>7, <1>b DEF Lock, Update, Unlock, Asleep
  <2>2. pc'[Sampler] \in {"lock", "pread"} => timer <= 0
    BY <1>7, <1>b DEF Lock, Update, Unlock, TimedInv
  <2>. QED  BY <1>7, <1>e, <2>1, <2>2
<1>8. ASSUME NEW p \in Clients, ClientReads(p) PROVE TimedInv'
  <2>1. pc'[Sampler] = pc[Sampler]
    BY <1>8, <1>b, <1>d DEF ClientReads, Pread
  <2>2. /\ age' = 0 /\ fails' = fails /\ timer' = timer /\ spent' = spent
        /\ energy' = energy /\ sampled' = energy
    BY <1>8 DEF ClientReads, Pread, timing
  <2>3. age' + timer' <= age + timer
    BY <1>b, <2>2
  <2>4. TimedTypeOK'
    BY <1>a, <1>b, <2>2 DEF TimedTypeOK
  <2>5. Asleep' => age' + timer' <= Period + Delay + fails' * t
    <3> HIDE DEF t
    <3>. QED  BY <1>b, <1>c, <2>1, <2>2, <2>3 DEF TimedInv, Asleep, t
  <2>6. ~Asleep' => fails' = 0 /\ age' + timer' <= 0
    BY <1>b, <2>1, <2>2, <2>3 DEF TimedInv, Asleep
  <2>. QED  BY <1>f, <2>1, <2>2, <2>4, <2>5, <2>6 DEF TimedInv
<1>9. ASSUME NEW p \in Clients, UNCHANGED timing,
             Call(p) \/ Lock(p) \/ PreadFails(p) \/ Update(p) \/ Unlock(p) \/ Return(p)
      PROVE  TimedInv'
  <2>1. pc'[Sampler] = pc[Sampler] /\ UNCHANGED <<energy, sampled>>
    BY <1>9, <1>b, <1>d DEF Call, Lock, PreadFails, Update, Unlock, Return
  <2>. QED  BY <1>9, <1>e, <2>1 DEF TimedInv, Asleep
<1>10. CASE UNCHANGED timedVars
  <2>1. pc' = pc /\ UNCHANGED <<timing, energy, sampled>>
    BY <1>10 DEF timedVars, vars
  <2>. QED  BY <1>e, <2>1 DEF TimedInv, Asleep
<1>. QED
  BY <1>1, <1>2, <1>3, <1>4, <1>5, <1>6, <1>7, <1>8, <1>9, <1>10
  DEF TimedNext, SamplerStep, ClientStep

LEMMA TimedInvariance == TimedSpec => [](TimedInv /\ Inv)
<1>1. TimedInit => TimedInv /\ Inv
  BY TimedInvInit, InvInit DEF TimedInit
<1>2. TimedInv /\ Inv /\ [TimedNext]_timedVars => (TimedInv /\ Inv)'
  BY TimedInvNext, TimedStep, InvNext
<1>. QED  BY <1>1, <1>2, PTL DEF TimedSpec

\* Timer, failures and the energy of a tick keep their ranges: in particular
\* the thread is never later than Delay and no tick exceeds Rate.
THEOREM TimedTypeCorrect == TimedSpec => []TimedTypeOK
<1>1. TimedInv => TimedTypeOK
  BY DEF TimedInv
<1>. QED  BY <1>1, TimedInvariance, PTL

\* The loop of on_overflow keeps the premise of the counter: the register
\* never makes a full turn that nobody has read.
THEOREM PremiseDischarged == TimedSpec => PremiseKept
<1>1. TimedInit => Init
  BY DEF TimedInit
<1>. QED
  BY <1>1, TimedInvariance, TimedStep, PTL DEF TimedSpec, PremiseKept, Spec

\* So the counter with its overflow thread is exact, and an energy meter.
THEOREM SampledExact == TimedSpec => []Exact
BY PremiseDischarged, ExactCorrect, PTL DEF PremiseKept

THEOREM SampledMeter == TimedSpec => MeterSpec
BY PremiseDischarged, Refinement, PTL DEF PremiseKept

-----------------------------------------------------------------------------
(* The counter of the x86_adapt sources, read by one thread: the same      *)
(* extension without the mutex, X86AdaptCounter                            *)

VARIABLES wrapped, high     \* as in X86AdaptCounter; the others are shared

Adapt == INSTANCE X86AdaptCounter

\* setup() leaves the counter where the hardware is.
LEMMA AloneInit == Adapt!Init => Adapt!AloneInv
BY WrapAssumption DEF Adapt!Init, Adapt!AloneInv, Adapt!Behind, Adapt!READ_ERROR

\* A single reader finds last_reading as it left it.
LEMMA AloneNext ==
    ASSUME NEW r, Readers = {r}
    PROVE  Adapt!AloneInv /\ [Adapt!Next]_Adapt!vars => Adapt!AloneInv'
<1>. SUFFICES ASSUME Adapt!AloneInv, [Adapt!Next]_Adapt!vars PROVE Adapt!AloneInv'
  OBVIOUS
<1>. USE WrapAssumption DEF Adapt!AloneInv, Adapt!Behind, Adapt!Low, Adapt!High
<1>1. CASE Adapt!Consume
  BY <1>1 DEF Adapt!Consume
<1>2. ASSUME NEW p \in Readers, Adapt!Call(p) PROVE Adapt!AloneInv'
  BY <1>2 DEF Adapt!Call
<1>3. ASSUME NEW p \in Readers, Adapt!GetSetting(p) PROVE Adapt!AloneInv'
  <2>1. energy % WRAP \in 0 .. WRAP - 1
    BY LowIsRegister DEF Low
  <2>. QED  BY <1>3, <2>1 DEF Adapt!GetSetting
<1>4. ASSUME NEW p \in Readers, Adapt!GetSettingFails(p) PROVE Adapt!AloneInv'
  BY <1>4 DEF Adapt!GetSettingFails, Adapt!READ_ERROR
<1>5. ASSUME NEW p \in Readers, Adapt!Compare(p) PROVE Adapt!AloneInv'
  <2>. DEFINE w == reading[p] < last % WRAP
  <2>1. w \in BOOLEAN
    <3>1. reading[p] \in Int /\ last % WRAP \in Int
      OBVIOUS
    <3>. QED  BY <3>1, SMT
  <2>2. wrapped' = [wrapped EXCEPT ![p] = w] /\ pc' = [pc EXCEPT ![p] = "load"]
    BY <1>5 DEF Adapt!Compare
  <2>3. UNCHANGED <<energy, last, reading, high, result, since, sampled>> /\ pc[p] = "compare"
    BY <1>5 DEF Adapt!Compare
  <2>4. wrapped' \in [Readers -> BOOLEAN] /\ (wrapped'[p] <=> w)
    <3> HIDE DEF w
    <3>. QED  BY <2>1, <2>2, Zenon
  <2>5. pc' \in [Readers -> {"idle", "get", "compare", "load", "store", "return"}]
    BY <2>2
  <2>6. Adapt!Behind'
    <3>1. \A q \in Readers : q = p
      OBVIOUS
    <3>2. \A q \in Readers : pc'[q] = "load"
      BY <2>2, <3>1
    <3>3. \A q \in Readers : wrapped'[q] <=> reading[q] < last % WRAP
      BY <2>4, <3>1, Zenon
    <3>. QED  BY <2>3, <3>1, <3>2, <3>3
  <2>. QED  BY <2>3, <2>4, <2>5, <2>6
<1>6. ASSUME NEW p \in Readers, Adapt!Load(p) PROVE Adapt!AloneInv'
  <2>1. Adapt!High(last) \in Nat
    <3>1. last - (last % WRAP) = WRAP * (last \div WRAP)
      BY HighIsTurns DEF High
    <3>2. last \div WRAP \in Nat
      BY HighIsTurns
    <3>3. WRAP * (last \div WRAP) \in Nat
      BY <3>2
    <3>. QED  BY <3>1, <3>3
  <2>. QED  BY <1>6, <2>1 DEF Adapt!Load
<1>7. ASSUME NEW p \in Readers, Adapt!Store(p) PROVE Adapt!AloneInv'
  <2>1. last <= sampled /\ sampled < last + WRAP
    OBVIOUS
  <2>2. Extend(last, sampled % WRAP) = sampled
    BY <2>1, ExtendExact
  <2>3. last' = sampled
    BY <1>7, <2>2 DEF Adapt!Store, Extend, Low, High
  <2>. QED  BY <1>7, <2>3 DEF Adapt!Store
<1>8. ASSUME NEW p \in Readers, Adapt!Return(p) PROVE Adapt!AloneInv'
  BY <1>8 DEF Adapt!Return
<1>9. CASE UNCHANGED Adapt!vars
  BY <1>9 DEF Adapt!vars
<1>. QED
  BY <1>1, <1>2, <1>3, <1>4, <1>5, <1>6, <1>7, <1>8, <1>9 DEF Adapt!Next, Adapt!Step

\* The refinement, step by step: Return answers with last_reading, which is
\* not before the call and not after the energy.
LEMMA AdaptMeterInit == Adapt!Init => Adapt!Meter!Init
<1>. SUFFICES ASSUME Adapt!Init PROVE Adapt!Meter!Init
  OBVIOUS
<1>1. energy \in Nat
  BY WrapAssumption DEF Adapt!Init
<1>2. \A p \in Readers : (pc[p] # "idle") = FALSE
  BY DEF Adapt!Init
<1>3. [p \in Readers |-> pc[p] # "idle"] = [p \in Readers |-> FALSE]
  BY <1>2, Zenon
<1>. QED  BY <1>1, <1>3 DEF Adapt!Init, Adapt!Meter!Init, Adapt!READ_ERROR, Adapt!Meter!READ_ERROR

LEMMA AdaptMeterNext ==
    Adapt!AloneInv /\ [Adapt!Next]_Adapt!vars => [Adapt!Meter!Next]_Adapt!Meter!vars
<1>. SUFFICES ASSUME Adapt!AloneInv, [Adapt!Next]_Adapt!vars
              PROVE  [Adapt!Meter!Next]_Adapt!Meter!vars
  OBVIOUS
<1>. DEFINE busy == [p \in Readers |-> pc[p] # "idle"]
<1>. USE DEF Adapt!AloneInv
<1>1. CASE Adapt!Consume
  <2>1. Adapt!Meter!Consume
    BY <1>1 DEF Adapt!Consume, Adapt!Meter!Consume
  <2>. QED  BY <2>1 DEF Adapt!Meter!Next
<1>2. ASSUME NEW p \in Readers, Adapt!Call(p) PROVE Adapt!Meter!Next
  <2>1. busy' = [busy EXCEPT ![p] = TRUE] /\ ~busy[p]
    BY <1>2 DEF Adapt!Call
  <2>2. Adapt!Meter!Begin(p)
    BY <1>2, <2>1 DEF Adapt!Call, Adapt!Meter!Begin
  <2>. QED  BY <2>2 DEF Adapt!Meter!Next
<1>3. ASSUME NEW p \in Readers, Adapt!GetSettingFails(p) PROVE Adapt!Meter!Next
  <2>1. busy' = [busy EXCEPT ![p] = FALSE] /\ busy[p]
    BY <1>3 DEF Adapt!GetSettingFails
  <2>2. Adapt!Meter!Fail(p)
    BY <1>3, <2>1
       DEF Adapt!GetSettingFails, Adapt!Meter!Fail, Adapt!READ_ERROR, Adapt!Meter!READ_ERROR
  <2>. QED  BY <2>2 DEF Adapt!Meter!Next
<1>4. ASSUME NEW p \in Readers, Adapt!Return(p) PROVE Adapt!Meter!Next
  <2>1. busy' = [busy EXCEPT ![p] = FALSE] /\ busy[p]
    BY <1>4 DEF Adapt!Return
  <2>2. since[p] <= last /\ last <= sampled /\ sampled <= energy
    BY <1>4 DEF Adapt!Return, Adapt!Behind
  <2>3. PICK value \in since[p] .. energy : value = last
    BY <2>2
  <2>4. Adapt!Meter!Answer(p, value)
    BY <1>4, <2>1, <2>3 DEF Adapt!Return, Adapt!Meter!Answer
  <2>5. \E v \in since[p] .. energy : Adapt!Meter!Answer(p, v)
    BY <2>3, <2>4, Zenon
  <2>. QED  BY <2>5, Zenon DEF Adapt!Meter!Next
<1>5. ASSUME NEW p \in Readers,
             Adapt!GetSetting(p) \/ Adapt!Compare(p) \/ Adapt!Load(p) \/ Adapt!Store(p)
      PROVE  UNCHANGED Adapt!Meter!vars
  <2>1. busy' = busy
    BY <1>5 DEF Adapt!GetSetting, Adapt!Compare, Adapt!Load, Adapt!Store
  <2>. QED
    BY <1>5, <2>1 DEF Adapt!GetSetting, Adapt!Compare, Adapt!Load, Adapt!Store, Adapt!Meter!vars
<1>6. CASE UNCHANGED Adapt!vars
  BY <1>6 DEF Adapt!vars, Adapt!Meter!vars
<1>. QED
  BY <1>1, <1>2, <1>3, <1>4, <1>5, <1>6 DEF Adapt!Next, Adapt!Step

\* do_read of x86_adapt.c and x86_adapt_fam23.c needs no lock as long as the
\* program alone calls it (the update threads disabled by rate 0): one reader
\* makes an energy meter, for every width and amount of energy.  With two,
\* NeverAboveEnergy fails.
THEOREM AdaptAloneIsMeter ==
    ASSUME NEW r, Readers = {r}
    PROVE  Adapt!Spec => Adapt!MeterSpec
BY AloneInit, AloneNext, AdaptMeterInit, AdaptMeterNext, PTL
   DEF Adapt!Spec, Adapt!MeterSpec, Adapt!Meter!Spec
=============================================================================
