---------------------------- MODULE RaplCounter ----------------------------
(***************************************************************************)
(* One RAPL counter (a reader_def) read by several threads at once: the    *)
(* program that called read() and the overflow thread of the counter's     *)
(* CPU.  do_read of msr.c, msr_fam23.c and likwid.c: lock the mutex of the *)
(* reader_def, read the register, extend last_reading, unlock, and only    *)
(* then load last_reading once more for the return value.                  *)
(*                                                                         *)
(* energy is the energy consumed, in register units and never wrapped;     *)
(* the hardware shows energy % WRAP.  sampled is a history variable: the   *)
(* energy when the register was last read with success.                    *)
(***************************************************************************)
EXTENDS CounterArithmetic

CONSTANTS Readers,      \* the threads that may call do_read on this counter
          NoReader,     \* the owner of a free mutex
          MaxEnergy     \* bound: the hardware stops consuming here

ASSUME ReadersAssumption == NoReader \notin Readers
ASSUME MaxEnergyAssumption == MaxEnergy \in Nat

VARIABLES energy,       \* the hardware
          last,         \* def->last_reading
          mutex,        \* owner of def->mutex
          pc,           \* pc[p]: where p stands in do_read
          reading,      \* reading[p]: p's local variable
          result,       \* result[p]: what p's last call returned
          since,        \* history: energy when p's current or last call began
          sampled       \* history: energy at the last successful register read

vars == <<energy, last, mutex, pc, reading, result, since, sampled>>

READ_ERROR == -1        \* -1.0, "will return < 0.0 on error"

\* The hardware register: 32 bits that restart at zero.
Register == energy % WRAP

\* setup() read the register once and stored it in last_reading.
Init ==
    /\ energy \in 0 .. WRAP - 1
    /\ last = energy
    /\ sampled = energy
    /\ mutex = NoReader
    /\ pc = [p \in Readers |-> "idle"]
    /\ reading = [p \in Readers |-> 0]
    /\ result = [p \in Readers |-> READ_ERROR]
    /\ since = [p \in Readers |-> energy]

\* The hardware consumes energy.  The guard is the condition under which a
\* wrap can be noticed at all, and the reason for the overflow threads: the
\* register is read with success at least once per turn of the register.
Consume ==
    /\ energy < MaxEnergy
    /\ energy + 1 < sampled + WRAP
    /\ energy' = energy + 1
    /\ UNCHANGED <<last, mutex, pc, reading, result, since, sampled>>

Call(p) ==
    /\ pc[p] = "idle"
    /\ pc' = [pc EXCEPT ![p] = "lock"]
    /\ since' = [since EXCEPT ![p] = energy]
    /\ UNCHANGED <<energy, last, mutex, reading, result, sampled>>

\* A bug form: the mutex is not waited for.
LockWithoutWaiting(p) ==
    /\ pc[p] = "lock"
    /\ mutex' = p
    /\ pc' = [pc EXCEPT ![p] = "pread"]
    /\ UNCHANGED <<energy, last, reading, result, since, sampled>>

\* pthread_mutex_lock(&def->mutex)
Lock(p) ==
    /\ pc[p] = "lock"
    /\ mutex = NoReader
    /\ mutex' = p
    /\ pc' = [pc EXCEPT ![p] = "pread"]
    /\ UNCHANGED <<energy, last, reading, result, since, sampled>>

\* A bug form: more of the register than its 32 bits is taken over.
PreadUnmasked(p) ==
    /\ pc[p] = "pread"
    /\ reading' = [reading EXCEPT ![p] = energy]
    /\ sampled' = energy
    /\ pc' = [pc EXCEPT ![p] = "update"]
    /\ UNCHANGED <<energy, last, mutex, result, since>>

\* pread() of 8 bytes, or power_read(), succeeds.
Pread(p) ==
    /\ pc[p] = "pread"
    /\ reading' = [reading EXCEPT ![p] = Register]
    /\ sampled' = energy
    /\ pc' = [pc EXCEPT ![p] = "update"]
    /\ UNCHANGED <<energy, last, mutex, result, since>>

\* A bug form: a read that fails is repeated until it succeeds.
PreadRetries(p) ==
    /\ pc[p] = "pread"
    /\ mutex' = NoReader
    /\ pc' = [pc EXCEPT ![p] = "lock"]
    /\ UNCHANGED <<energy, last, reading, result, since, sampled>>

\* The register cannot be read: unlock and return -1.0.
PreadFails(p) ==
    /\ pc[p] = "pread"
    /\ mutex' = NoReader
    /\ result' = [result EXCEPT ![p] = READ_ERROR]
    /\ pc' = [pc EXCEPT ![p] = "idle"]
    /\ UNCHANGED <<energy, last, reading, since, sampled>>

Update(p) ==
    /\ pc[p] = "update"
    /\ last' = Extend(last, reading[p])
    /\ pc' = [pc EXCEPT ![p] = "unlock"]
    /\ UNCHANGED <<energy, mutex, reading, result, since, sampled>>

Unlock(p) ==
    /\ pc[p] = "unlock"
    /\ mutex' = NoReader
    /\ pc' = [pc EXCEPT ![p] = "return"]
    /\ UNCHANGED <<energy, last, reading, result, since, sampled>>

\* A bug form: the raw register is returned.
ReturnRegister(p) ==
    /\ pc[p] = "return"
    /\ result' = [result EXCEPT ![p] = reading[p]]
    /\ pc' = [pc EXCEPT ![p] = "idle"]
    /\ UNCHANGED <<energy, last, mutex, reading, since, sampled>>

\* return def->unit * def->last_reading: last_reading is loaded again, and
\* the mutex is not held any more.
Return(p) ==
    /\ pc[p] = "return"
    /\ result' = [result EXCEPT ![p] = last]
    /\ pc' = [pc EXCEPT ![p] = "idle"]
    /\ UNCHANGED <<energy, last, mutex, reading, since, sampled>>

Step(p) ==
    \/ Lock(p)
    \/ Pread(p)
    \/ PreadFails(p)
    \/ Update(p)
    \/ Unlock(p)
    \/ Return(p)

Next ==
    \/ Consume
    \/ \E p \in Readers : Call(p) \/ Step(p)

Spec == Init /\ [][Next]_vars

\* The threads are scheduled, and a mutex that is free again and again is
\* granted.  The hardware need not consume and nobody has to call.
Fairness ==
    \A p \in Readers :
        /\ SF_vars(Lock(p))
        /\ WF_vars(Step(p))

FairSpec == Spec /\ Fairness

-----------------------------------------------------------------------------

TypeOK ==
    /\ energy \in Nat
    /\ last \in Nat
    /\ sampled \in Nat
    /\ mutex \in Readers \cup {NoReader}
    /\ pc \in [Readers -> {"idle", "lock", "pread", "update", "unlock", "return"}]
    /\ reading \in [Readers -> 0 .. WRAP - 1]
    /\ result \in [Readers -> Nat \cup {READ_ERROR}]
    /\ since \in [Readers -> Nat]

Holds(p) == pc[p] \in {"pread", "update", "unlock"}

\* Whenever nobody is inside the critical section of do_read, the 64 bit
\* last_reading equals the energy at the last successful register read: no
\* wrap was missed and none was counted twice, whatever the interleaving.
Exact == mutex = NoReader => last = sampled

\* The inductive invariant behind Exact: the mutex is owned by exactly the
\* thread in the critical section; between the register read and the update
\* last_reading is behind by less than a turn.
Behind ==
    IF \E p \in Readers : pc[p] = "update"
    THEN last <= sampled /\ sampled < last + WRAP
    ELSE last = sampled

Inv ==
    /\ TypeOK
    /\ \A p \in Readers : Holds(p) <=> mutex = p
    /\ sampled <= energy /\ energy < sampled + WRAP
    /\ \A p \in Readers : pc[p] = "update" => reading[p] = sampled % WRAP
    /\ \A p \in Readers : since[p] <= energy
    /\ \A p \in Readers :
          pc[p] \in {"update", "unlock", "return"} => since[p] <= sampled
    /\ \A p \in Readers : pc[p] = "return" => since[p] <= last
    /\ Behind

\* do_read implements the read() of x86_energy.h: every answer is a value the
\* energy had while the call was running, in spite of the register's wraps
\* and of the load after the unlock.
Meter == INSTANCE EnergyMeter WITH busy <- [p \in Readers |-> pc[p] # "idle"]
MeterSpec == Meter!Spec

\* A call of do_read returns, even when register reads fail.
ReadsReturn == \A p \in Readers : pc[p] # "idle" ~> pc[p] = "idle"
=============================================================================
