------------------------- MODULE MCOverflowThread -------------------------
(***************************************************************************)
(* Instances of OverflowThread.  The counters k1 and k2 belong to CPU c1,  *)
(* l1 to CPU c2.  A period of 30 stands for the 30 s of the sources; the  *)
(* program may ask for 5, or for 0.                                        *)
(***************************************************************************)
EXTENDS OverflowThread

CONSTANTS c1, c2, k1, k2, l1

\* One CPU with two counters; two CPUs; one counter on each of two CPUs.
OneCpu == [k \in {k1, k2} |-> c1]
TwoCpus == [k \in {k1, k2, l1} |-> IF k = l1 THEN c2 ELSE c1]
OneEach == [k \in {k1, l1} |-> IF k = l1 THEN c2 ELSE c1]

AllFailures == {"infos", "info", "functions", "t", "thread"}
=============================================================================
