---------------------------- MODULE SysfsCounter ----------------------------
(***************************************************************************)
(* One counter of the powercap source: do_read of sysfs.c.  The wraps are  *)
(* counted in a variable of their own, so that the energy is put together  *)
(* from two variables, overflow and last_reading.  Both are written under  *)
(* the mutex of the reader_def; for the return value both are loaded after *)
(* the unlock.  energy_uj counts modulo WRAP; def->max is what the file    *)
(* max_energy_range_uj said.                                               *)
(***************************************************************************)
EXTENDS CounterArithmetic       \* for WRAP, the number of values of energy_uj

CONSTANTS MaxRange,     \* def->max
          Readers,      \* the threads that may call do_read on this counter
          NoReader,     \* the owner of a free mutex
          MaxEnergy     \* bound: the hardware stops consuming here

ASSUME RangeAssumption == MaxRange \in 1 .. WRAP
ASSUME SysfsEnergyAssumption == MaxEnergy \in Nat
ASSUME SysfsReadersAssumption == NoReader \notin Readers

VARIABLES energy,       \* the hardware, never wrapped
          last,         \* def->last_reading
          overflow,     \* def->overflow
          mutex,        \* owner of def->mutex
          pc,           \* pc[p]: where p stands in do_read
          reading,      \* reading[p]: p's local variable
          seen,         \* seen[p]: the first of the two values p loaded
          result,       \* result[p]: what p's last call returned
          since,        \* history: energy when p's current or last call began
          sampled       \* history: energy at the last successful read of energy_uj

vars == <<energy, last, overflow, mutex, pc, reading, seen, result, since, sampled>>

READ_ERROR == -1

\* setup() read energy_uj once; no wrap was seen yet.
Init ==
    /\ energy \in 0 .. WRAP - 1
    /\ last = energy
    /\ sampled = energy
    /\ overflow = 0
    /\ mutex = NoReader
    /\ pc = [p \in Readers |-> "idle"]
    /\ reading = [p \in Readers |-> 0]
    /\ seen = [p \in Readers |-> 0]
    /\ result = [p \in Readers |-> READ_ERROR]
    /\ since = [p \in Readers |-> energy]

\* As in RaplCounter: the file is read at least once per turn.
Consume ==
    /\ energy < MaxEnergy
    /\ energy + 1 < sampled + WRAP
    /\ energy' = energy + 1
    /\ UNCHANGED <<last, overflow, mutex, pc, reading, seen, result, since, sampled>>

Call(p) ==
    /\ pc[p] = "idle"
    /\ pc' = [pc EXCEPT ![p] = "lock"]
    /\ since' = [since EXCEPT ![p] = energy]
    /\ UNCHANGED <<energy, last, overflow, mutex, reading, seen, result, sampled>>

Lock(p) ==
    /\ pc[p] = "lock"
    /\ mutex = NoReader
    /\ mutex' = p
    /\ pc' = [pc EXCEPT ![p] = "scan"]
    /\ UNCHANGED <<energy, last, overflow, reading, seen, result, since, sampled>>

\* fscanf, fseek and fflush succeed.
Scan(p) ==
    /\ pc[p] = "scan"
    /\ reading' = [reading EXCEPT ![p] = energy % WRAP]
    /\ sampled' = energy
    /\ pc' = [pc EXCEPT ![p] = "count"]
    /\ UNCHANGED <<energy, last, overflow, mutex, seen, result, since>>

\* One of the three calls fails: unlock and return -1.0.
ScanFails(p) ==
    /\ pc[p] = "scan"
    /\ mutex' = NoReader
    /\ result' = [result EXCEPT ![p] = READ_ERROR]
    /\ pc' = [pc EXCEPT ![p] = "idle"]
    /\ UNCHANGED <<energy, last, overflow, reading, seen, since, sampled>>

\* A bug form: an unchanged file is taken for a wrap.
CountWrapNotAbove(p) ==
    /\ pc[p] = "count"
    /\ overflow' = IF reading[p] <= last THEN overflow + 1 ELSE overflow
    /\ pc' = [pc EXCEPT ![p] = "store"]
    /\ UNCHANGED <<energy, last, mutex, reading, seen, result, since, sampled>>

\* if (reading < def->last_reading) def->overflow += 1;
CountWrap(p) ==
    /\ pc[p] = "count"
    /\ overflow' = IF reading[p] < last THEN overflow + 1 ELSE overflow
    /\ pc' = [pc EXCEPT ![p] = "store"]
    /\ UNCHANGED <<energy, last, mutex, reading, seen, result, since, sampled>>

\* def->last_reading = reading;
StoreReading(p) ==
    /\ pc[p] = "store"
    /\ last' = reading[p]
    /\ pc' = [pc EXCEPT ![p] = "unlock"]
    /\ UNCHANGED <<energy, overflow, mutex, reading, seen, result, since, sampled>>

Unlock(p) ==
    /\ pc[p] = "unlock"
    /\ mutex' = NoReader
    /\ pc' = [pc EXCEPT ![p] = "load"]
    /\ UNCHANGED <<energy, last, overflow, reading, seen, result, since, sampled>>

\* The operands of overflow * max + last_reading are loaded one after the
\* other, in either order.
LoadOverflow(p) ==
    /\ pc[p] = "load"
    /\ seen' = [seen EXCEPT ![p] = overflow]
    /\ pc' = [pc EXCEPT ![p] = "load_last"]
    /\ UNCHANGED <<energy, last, overflow, mutex, reading, result, since, sampled>>

LoadLast(p) ==
    /\ pc[p] = "load"
    /\ seen' = [seen EXCEPT ![p] = last]
    /\ pc' = [pc EXCEPT ![p] = "load_overflow"]
    /\ UNCHANGED <<energy, last, overflow, mutex, reading, result, since, sampled>>

ReturnWithLast(p) ==
    /\ pc[p] = "load_last"
    /\ result' = [result EXCEPT ![p] = seen[p] * MaxRange + last]
    /\ pc' = [pc EXCEPT ![p] = "idle"]
    /\ UNCHANGED <<energy, last, overflow, mutex, reading, seen, since, sampled>>

ReturnWithOverflow(p) ==
    /\ pc[p] = "load_overflow"
    /\ result' = [result EXCEPT ![p] = overflow * MaxRange + seen[p]]
    /\ pc' = [pc EXCEPT ![p] = "idle"]
    /\ UNCHANGED <<energy, last, overflow, mutex, reading, seen, since, sampled>>

Step(p) ==
    \/ Lock(p)
    \/ Scan(p)
    \/ ScanFails(p)
    \/ CountWrap(p)
    \/ StoreReading(p)
    \/ Unlock(p)
    \/ LoadOverflow(p)
    \/ LoadLast(p)
    \/ ReturnWithLast(p)
    \/ ReturnWithOverflow(p)

Next ==
    \/ Consume
    \/ \E p \in Readers : Call(p) \/ Step(p)

Spec == Init /\ [][Next]_vars

-----------------------------------------------------------------------------

TypeOK ==
    /\ energy \in Nat /\ sampled \in Nat /\ overflow \in Nat
    /\ last \in 0 .. WRAP - 1
    /\ mutex \in Readers \union {NoReader}
    /\ pc \in [Readers -> {"idle", "lock", "scan", "count", "store", "unlock",
                           "load", "load_last", "load_overflow"}]
    /\ reading \in [Readers -> 0 .. WRAP - 1]

\* The critical section of do_read belongs to the owner of the mutex.
Holds ==
    \A p \in Readers :
        pc[p] \in {"scan", "count", "store", "unlock"} <=> mutex = p

\* What the pair (overflow, last_reading) stands for.
Counted == overflow * WRAP + last

\* The pair is behind the file only between the read and the store, by less
\* than a turn, and never by more than the wrap that is being counted.
Behind ==
    /\ sampled <= energy /\ energy < sampled + WRAP
    /\ (\A p \in Readers : pc[p] \notin {"count", "store"}) => Counted = sampled
    /\ \A p \in Readers :
          /\ pc[p] \in {"count", "store"} => reading[p] = sampled % WRAP
          /\ pc[p] = "count" => Counted <= sampled /\ sampled < Counted + WRAP
          /\ pc[p] = "store" => overflow * WRAP + reading[p] = sampled

Inv == TypeOK /\ Holds /\ Behind

\* Outside the critical section the pair (overflow, last_reading) stands for
\* the energy at the last successful read of energy_uj: whatever the
\* interleaving, no wrap is missed and none is counted twice.
WrapsExact == mutex = NoReader => overflow * WRAP + last = sampled

\* With one reading thread, and a max_energy_range_uj equal to the range of
\* energy_uj, do_read is an energy meter.
Meter == INSTANCE EnergyMeter WITH busy <- [p \in Readers |-> pc[p] # "idle"]
MeterSpec == Meter!Spec

\* "Read the current energy value": an answer is a value the energy had
\* during the call.  With an overflow thread beside the program it fails: the
\* two loads after the unlock see two different updates.
ReadIsCurrent ==
    \A p \in Readers :
        pc[p] = "idle" /\ result[p] # READ_ERROR => result[p] \in since[p] .. energy
=============================================================================
