-------------------------- MODULE MCX86AdaptCounter --------------------------
(***************************************************************************)
(* Instance: the program beside the overflow thread (MCX86AdaptRace.cfg).  *)
(* With Readers = {client} the program reads alone, and MeterSpec and      *)
(* AloneInv hold instead.                                                  *)
(***************************************************************************)
EXTENDS X86AdaptCounter
=============================================================================
