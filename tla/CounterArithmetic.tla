------------------------- MODULE CounterArithmetic -------------------------
(***************************************************************************)
(* The hardware energy registers are WRAP = 2^32 units wide and restart at *)
(* zero.  A reader_def keeps a 64 bit last_reading whose low word is the   *)
(* last register value and whose high word counts the wraps seen so far.   *)
(* The same four lines extend it in msr.c, msr_fam23.c, likwid.c,          *)
(* x86_adapt.c and x86_adapt_fam23.c.                                      *)
(***************************************************************************)
EXTENDS Integers

CONSTANT WRAP        \* 2^32: number of values of the hardware register

ASSUME WrapAssumption == WRAP \in Nat \ {0}

\* last_reading & 0xFFFFFFFF
Low(x) == x % WRAP

\* last_reading & 0xFFFFFFFF00000000
High(x) == x - (x % WRAP)

\* A bug form: the wrap is noticed but the high word is not advanced.
ExtendWithoutCarry(last, reading) == High(last) + reading

\* The new last_reading after the register delivered `reading'.
Extend(last, reading) ==
    IF reading < Low(last) THEN High(last) + WRAP + reading
                           ELSE High(last) + reading
=============================================================================
