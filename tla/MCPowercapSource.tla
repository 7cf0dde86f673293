-------------------------- MODULE MCPowercapSource --------------------------
(***************************************************************************)
(* Instance: the listings of a server with two packages, of a desktop, of  *)
(* a notebook with psys as its last zone, of a processor with two dies per *)
(* package, and of a machine without intel-rapl zones; two threads, and a  *)
(* range one short of the counter's values, as the kernel reports it.      *)
(***************************************************************************)
EXTENDS PowercapSource, TLC

Package(r, i) == [root |-> r, top |-> TRUE, name |-> "package", id |-> i]
Psys(r) == [root |-> r, top |-> TRUE, name |-> "psys", id |-> 0]
Domain(r, d) == [root |-> r, top |-> FALSE, name |-> d, id |-> 0]

Server == <<Foreign, Package(0, 0), Domain(0, "dram"), Package(1, 1), Domain(1, "dram")>>
Desktop == <<Package(0, 0), Domain(0, "core"), Domain(0, "uncore")>>
Notebook == <<Foreign, Package(0, 0), Domain(0, "core"), Psys(1)>>
TwoDies == <<Package(0, 0), Package(1, 0)>>
Virtual == <<Foreign>>

SomeMachines == {Server, Desktop, Notebook, TwoDies, Virtual}
SomeTypes == {"package", "core", "dram", "psys", "single_core"}

\* The threads differ in nothing but their names.
ReaderSymmetry == Permutations(Readers)
=============================================================================
