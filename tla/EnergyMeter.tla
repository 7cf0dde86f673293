----------------------------- MODULE EnergyMeter -----------------------------
(***************************************************************************)
(* What x86_energy.h promises of one counter: read() delivers "the current *)
(* energy value", or a negative number on error, and the wraps of the      *)
(* hardware register are invisible.  energy is the energy consumed so far, *)
(* in units of the register and without any wrap.  A call of read() that   *)
(* succeeds answers with a value the energy had while the call was running *)
(* - so the answers of one thread, and of two threads one after the other, *)
(* never go backwards.                                                     *)
(***************************************************************************)
EXTENDS Integers

CONSTANT Readers      \* the threads that call read() on this counter

VARIABLES energy,     \* energy consumed so far
          busy,       \* busy[p]: p is inside read()
          since,      \* since[p]: the energy when p's current or last call began
          result      \* result[p]: what p's last completed call returned

vars == <<energy, busy, since, result>>

READ_ERROR == -1

Init ==
    /\ energy \in Nat
    /\ busy = [p \in Readers |-> FALSE]
    /\ since = [p \in Readers |-> energy]
    /\ result = [p \in Readers |-> READ_ERROR]

Consume ==
    /\ energy' \in Nat
    /\ energy' > energy
    /\ UNCHANGED <<busy, since, result>>

Begin(p) ==
    /\ ~busy[p]
    /\ busy' = [busy EXCEPT ![p] = TRUE]
    /\ since' = [since EXCEPT ![p] = energy]
    /\ UNCHANGED <<energy, result>>

Answer(p, value) ==
    /\ busy[p]
    /\ since[p] <= value /\ value <= energy
    /\ busy' = [busy EXCEPT ![p] = FALSE]
    /\ result' = [result EXCEPT ![p] = value]
    /\ UNCHANGED <<energy, since>>

Fail(p) ==
    /\ busy[p]
    /\ busy' = [busy EXCEPT ![p] = FALSE]
    /\ result' = [result EXCEPT ![p] = READ_ERROR]
    /\ UNCHANGED <<energy, since>>

Next ==
    \/ Consume
    \/ \E p \in Readers :
          \/ Begin(p)
          \/ Fail(p)
          \/ \E value \in since[p]..energy : Answer(p, value)

Spec == Init /\ [][Next]_vars
=============================================================================
