--------------------------- MODULE MCRaplSampling ---------------------------
(***************************************************************************)
(* The program and the overflow thread read a counter of the smallest      *)
(* width that the period allows: one value less and a wrap could be missed.*)
(***************************************************************************)
EXTENDS RaplSampling
=============================================================================
