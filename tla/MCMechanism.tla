---------------------------- MODULE MCMechanism ----------------------------
(***************************************************************************)
(* Instances of Mechanism: one processor for every set of counters there   *)
(* is, and processors that are refused because of the vendor, the family   *)
(* or the model.                                                           *)
(***************************************************************************)
EXTENDS Mechanism

Id(vendor, bf, xf, bm, xm) ==
    [vendor |-> vendor, base_family |-> bf, ext_family |-> xf, base_model |-> bm, ext_model |-> xm]
Intel(model) == Id("Intel", 6, 0, model % 16, model \div 16)
Amd(family) == Id("AMD", 15, family - 15, 1, 0)

Processors ==
    {Intel(m) : m \in {\h2a, \h2d, \h3c, \h3f, \h4e, \h8e, \h8f, \h97, \ha5}}
    \cup {Amd(f) : f \in {\h10, \h15, \h17, \h19}}
    \cup {Id("Intel", 15, 0, 4, 0), Id("AMD", 6, 0, 8, 0), Id("other", 6, 0, 8, 0)}

SomeNames == {"msr", "perf", "sysfs_fam15", "msr_fam23", "typo"}
=============================================================================
