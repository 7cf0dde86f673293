---------------------------- MODULE MCFam15Source ----------------------------
(***************************************************************************)
(* Instance: two threads; a board with one package, one with two, and one  *)
(* whose package holds two dies, each with entries that are no PCI         *)
(* function.                                                               *)
(***************************************************************************)
EXTENDS Fam15Source, TLC

Boards == {<<0, Foreign>>, <<0, 1, Foreign>>, <<0, 0>>}

\* The threads differ in nothing but their names.
ReaderSymmetry == Permutations(Readers)
=============================================================================
