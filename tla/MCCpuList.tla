----------------------------- MODULE MCCpuList -----------------------------
(***************************************************************************)
(* Every list the kernel can write for a set of CPUs out of 0 .. MaxCpu.   *)
(***************************************************************************)
EXTENDS CpuList

CONSTANT MaxCpu

KernelLists == {KernelList(S) : S \in SUBSET (0 .. MaxCpu)}
=============================================================================
