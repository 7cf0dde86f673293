---------------------------- MODULE RaplSampling ----------------------------
(***************************************************************************)
(* RaplCounter together with its overflow thread and a clock.  RaplCounter *)
(* assumes that the register never makes a full turn between two           *)
(* successful reads; here the assumption is discharged by the loop of      *)
(* on_overflow: usleep for Period, read the counter, and again.  A read    *)
(* that fails is not repeated before the next turn of the loop.            *)
(*                                                                         *)
(* One tick is the unit of usleep_time.  The hardware consumes at most     *)
(* Rate in a tick.  Delay bounds what is not sleep in one turn of the      *)
(* loop: being scheduled, the other counters in the list, waiting for the  *)
(* mutex, the read.                                                        *)
(***************************************************************************)
EXTENDS RaplCounter

CONSTANTS Sampler,      \* the overflow thread, one of the Readers
          Period,       \* info->usleep_time
          Delay,        \* longest time from the wake-up to the next usleep
          Rate,         \* most energy the hardware consumes in a tick
          MaxFails      \* most reads of the thread that fail in a row

ASSUME SamplerAssumption == Sampler \in Readers
ASSUME TimesAssumption ==
    Period \in Nat \ {0} /\ Delay \in Nat /\ Rate \in Nat /\ MaxFails \in Nat

\* The longest time between two successful reads of the thread.
MaxGap == (MaxFails + 1) * (Period + Delay) + Delay

\* The register does not turn within that time, nor in the tick that follows.
ASSUME PeriodAssumption == Rate * (MaxGap + 1) < WRAP

VARIABLES timer,        \* ticks until usleep returns, below 0: since it returned
          fails,        \* reads of the thread that failed since the last success
          spent,        \* energy consumed in the current tick
          age           \* history: ticks since sampled was taken

timing == <<timer, fails, spent, age>>
timedVars == <<vars, timing>>

\* setup() took the first reading, create started the thread.
TimedInit ==
    /\ Init
    /\ timer = Period
    /\ fails = 0
    /\ spent \in 0 .. Rate
    /\ age = 0

Burn ==
    /\ energy < MaxEnergy
    /\ spent < Rate
    /\ energy' = energy + 1
    /\ spent' = spent + 1
    /\ UNCHANGED <<last, mutex, pc, reading, result, since, sampled, timer, fails, age>>

\* Time passes, unless the thread would be later than Delay.
Tick ==
    /\ timer > -Delay
    /\ timer' = timer - 1
    /\ spent' = 0
    /\ age' = age + 1
    /\ UNCHANGED <<vars, fails>>

\* A bug form: the thread sleeps twice as long.
SleepTwice == timer' = 2 * Period

\* usleep(info->usleep_time)
Sleep == timer' = Period

\* usleep has returned: info->functions[i](info->t[i])
SamplerCalls ==
    /\ timer <= 0
    /\ Call(Sampler)
    /\ UNCHANGED timing

SamplerReads ==
    /\ Pread(Sampler)
    /\ age' = 0
    /\ fails' = 0
    /\ UNCHANGED <<timer, spent>>

\* The result of the call is dropped, an error with it.
SamplerReadFails ==
    /\ fails < MaxFails
    /\ PreadFails(Sampler)
    /\ fails' = fails + 1
    /\ Sleep
    /\ UNCHANGED <<spent, age>>

SamplerReturns ==
    /\ Return(Sampler)
    /\ Sleep
    /\ UNCHANGED <<fails, spent, age>>

SamplerStep ==
    \/ SamplerReads
    \/ SamplerReadFails
    \/ SamplerReturns
    \/ (Lock(Sampler) \/ Update(Sampler) \/ Unlock(Sampler)) /\ UNCHANGED timing

\* The program, at any time.
ClientReads(p) ==
    /\ Pread(p)
    /\ age' = 0
    /\ UNCHANGED <<timer, fails, spent>>

ClientStep(p) ==
    \/ ClientReads(p)
    \/ /\ Lock(p) \/ PreadFails(p) \/ Update(p) \/ Unlock(p) \/ Return(p)
       /\ UNCHANGED timing

Clients == Readers \ {Sampler}

TimedNext ==
    \/ Burn
    \/ Tick
    \/ SamplerCalls
    \/ SamplerStep
    \/ \E p \in Clients : (Call(p) /\ UNCHANGED timing) \/ ClientStep(p)

\* As in RaplCounter: the threads are scheduled, and a mutex that is free
\* again and again is granted.
TimedFairness ==
    /\ WF_timedVars(SamplerStep)
    /\ SF_timedVars(Lock(Sampler) /\ UNCHANGED timing)
    /\ \A p \in Clients :
          /\ WF_timedVars(ClientStep(p))
          /\ SF_timedVars(Lock(p) /\ UNCHANGED timing)

TimedSpec == TimedInit /\ [][TimedNext]_timedVars
FairTimedSpec == TimedSpec /\ TimedFairness

-----------------------------------------------------------------------------

\* TypeOK of the counter, and of the clock.
TimedTypeOK ==
    /\ TypeOK
    /\ timer \in -Delay .. Period
    /\ fails \in 0 .. MaxFails
    /\ spent \in 0 .. Rate
    /\ age \in Nat

\* The loop of on_overflow keeps the premise of RaplCounter: with a period
\* short enough for the register every behaviour of the counter with clock and
\* overflow thread is one of RaplCounter, whose hardware stops before a full
\* turn that nobody has read.
PremiseKept == Spec

\* The inductive invariant behind PremiseKept: how long ago the last sample
\* is, in each part of the thread's loop, and what can have been consumed
\* since.
Asleep == pc[Sampler] \in {"idle", "lock", "pread"}

TimedInv ==
    /\ TimedTypeOK
    /\ pc[Sampler] \in {"lock", "pread"} => timer <= 0
    /\ Asleep => age + timer <= Period + Delay + fails * (Period + Delay)
    /\ ~Asleep => fails = 0 /\ age + timer <= 0
    /\ energy - sampled <= Rate * age + spent
=============================================================================
