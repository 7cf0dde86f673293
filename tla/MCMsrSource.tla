---------------------------- MODULE MCMsrSource ----------------------------
(***************************************************************************)
(* Instances of MsrSource: the test CPUs x1 and x2 of two sockets, with    *)
(* one counter each, or with the counters a and b both on x1.              *)
(***************************************************************************)
EXTENDS MsrSource

CONSTANTS x1, x2, x3, a, b, d

OneEach == [k \in {a, b, d} |-> CASE k = a -> x1 [] k = b -> x2 [] k = d -> x3]
Shared == [k \in {a, b, d} |-> IF k = d THEN x2 ELSE x1]
=============================================================================
