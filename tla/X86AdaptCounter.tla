-------------------------- MODULE X86AdaptCounter --------------------------
(***************************************************************************)
(* One counter of the x86_adapt sources: do_read of x86_adapt.c and        *)
(* x86_adapt_fam23.c.  The reader_def has a mutex, the overflow thread and *)
(* the program call do_read on it, and do_read does not take the mutex.    *)
(* The races on last_reading are modelled load by load and store by store, *)
(* which also covers a build that keeps a value in a register.             *)
(***************************************************************************)
EXTENDS CounterArithmetic

CONSTANTS Readers,      \* the threads that may call do_read on this counter
          MaxEnergy     \* bound: the hardware stops consuming here

VARIABLES energy,       \* the hardware, never wrapped
          last,         \* def->last_reading
          pc,           \* pc[p]: where p stands in do_read
          reading,      \* reading[p]: p's local variable
          wrapped,      \* wrapped[p]: p's comparison found a wrap
          high,         \* high[p]: the high word p loaded
          result,       \* result[p]: what p's last call returned
          since,        \* history: energy when p's current or last call began
          sampled       \* history: energy at the last successful register read

vars == <<energy, last, pc, reading, wrapped, high, result, since, sampled>>

READ_ERROR == -1

\* setup() read the setting once and stored it in last_reading.
Init ==
    /\ energy \in 0 .. WRAP - 1
    /\ last = energy
    /\ sampled = energy
    /\ pc = [p \in Readers |-> "idle"]
    /\ reading = [p \in Readers |-> 0]
    /\ wrapped = [p \in Readers |-> FALSE]
    /\ high = [p \in Readers |-> 0]
    /\ result = [p \in Readers |-> READ_ERROR]
    /\ since = [p \in Readers |-> energy]

\* As in RaplCounter: the register is read at least once per turn.
Consume ==
    /\ energy < MaxEnergy
    /\ energy + 1 < sampled + WRAP
    /\ energy' = energy + 1
    /\ UNCHANGED <<last, pc, reading, wrapped, high, result, since, sampled>>

Call(p) ==
    /\ pc[p] = "idle"
    /\ pc' = [pc EXCEPT ![p] = "get"]
    /\ since' = [since EXCEPT ![p] = energy]
    /\ UNCHANGED <<energy, last, reading, wrapped, high, result, sampled>>

\* x86_adapt_get_setting() delivers 8 bytes.
GetSetting(p) ==
    /\ pc[p] = "get"
    /\ reading' = [reading EXCEPT ![p] = energy % WRAP]
    /\ sampled' = energy
    /\ pc' = [pc EXCEPT ![p] = "compare"]
    /\ UNCHANGED <<energy, last, wrapped, high, result, since>>

GetSettingFails(p) ==
    /\ pc[p] = "get"
    /\ result' = [result EXCEPT ![p] = READ_ERROR]
    /\ pc' = [pc EXCEPT ![p] = "idle"]
    /\ UNCHANGED <<energy, last, reading, wrapped, high, since, sampled>>

\* if (reading < (def->last_reading & 0xFFFFFFFFULL))
Compare(p) ==
    /\ pc[p] = "compare"
    /\ wrapped' = [wrapped EXCEPT ![p] = reading[p] < Low(last)]
    /\ pc' = [pc EXCEPT ![p] = "load"]
    /\ UNCHANGED <<energy, last, reading, high, result, since, sampled>>

\* def->last_reading & 0xFFFFFFFF00000000ULL on the right-hand side
Load(p) ==
    /\ pc[p] = "load"
    /\ high' = [high EXCEPT ![p] = High(last)]
    /\ pc' = [pc EXCEPT ![p] = "store"]
    /\ UNCHANGED <<energy, last, reading, wrapped, result, since, sampled>>

\* def->last_reading = ...
Store(p) ==
    /\ pc[p] = "store"
    /\ last' = high[p] + (IF wrapped[p] THEN WRAP ELSE 0) + reading[p]
    /\ pc' = [pc EXCEPT ![p] = "return"]
    /\ UNCHANGED <<energy, reading, wrapped, high, result, since, sampled>>

\* return def->unit * def->last_reading
Return(p) ==
    /\ pc[p] = "return"
    /\ result' = [result EXCEPT ![p] = last]
    /\ pc' = [pc EXCEPT ![p] = "idle"]
    /\ UNCHANGED <<energy, last, reading, wrapped, high, since, sampled>>

Step(p) ==
    \/ GetSetting(p)
    \/ GetSettingFails(p)
    \/ Compare(p)
    \/ Load(p)
    \/ Store(p)
    \/ Return(p)

Next ==
    \/ Consume
    \/ \E p \in Readers : Call(p) \/ Step(p)

Spec == Init /\ [][Next]_vars

-----------------------------------------------------------------------------

\* With one reading thread (the update threads disabled by rate 0) do_read is
\* an energy meter: the unlocked extension loses no wrap and invents none.
Meter == INSTANCE EnergyMeter WITH busy <- [p \in Readers |-> pc[p] # "idle"]
MeterSpec == Meter!Spec

\* The inductive invariant for a single reader: between the register and the
\* store last_reading is less than a turn behind the sample, and what p holds
\* in its locals is what Extend works with.
Behind ==
    /\ sampled <= energy /\ energy < sampled + WRAP
    /\ last <= sampled /\ sampled < last + WRAP
    /\ \A p \in Readers :
          /\ since[p] <= energy
          /\ pc[p] \in {"idle", "get", "return"} => last = sampled
          /\ pc[p] \in {"compare", "load", "store"} => reading[p] = sampled % WRAP
          /\ pc[p] \in {"compare", "load", "store", "return"} => since[p] <= sampled
          /\ pc[p] \in {"load", "store"} => (wrapped[p] <=> reading[p] < Low(last))
          /\ pc[p] = "store" => high[p] = High(last)

AloneInv ==
    /\ energy \in Nat /\ last \in Nat /\ sampled \in Nat
    /\ pc \in [Readers -> {"idle", "get", "compare", "load", "store", "return"}]
    /\ reading \in [Readers -> 0 .. WRAP - 1]
    /\ wrapped \in [Readers -> BOOLEAN]
    /\ high \in [Readers -> Nat]
    /\ result \in [Readers -> Nat \cup {READ_ERROR}]
    /\ since \in [Readers -> Nat]
    /\ Behind

\* "Read the current energy value in Joules": no read reports energy that has
\* not been consumed.  With an overflow thread beside the program it fails: a
\* reading taken before a wrap and stored after another thread counted it.
NeverAboveEnergy == \A p \in Readers : result[p] <= energy
=============================================================================
