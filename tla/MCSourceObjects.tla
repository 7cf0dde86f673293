--------------------------- MODULE MCSourceObjects ---------------------------
(***************************************************************************)
(* Instance: two AccessSource and three SourceCounter places, three names  *)
(* for calls of setup(), CPU 0 and another one.                            *)
(***************************************************************************)
EXTENDS SourceObjects, TLC

\* The places and names differ in nothing but their names.
ObjectSymmetry == Permutations(Accesses) \cup Permutations(Counters) \cup Permutations(Setups)
=============================================================================
