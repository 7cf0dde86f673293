---------------------------- MODULE MCTopology ----------------------------
(***************************************************************************)
(* Every machine of NCpus CPUs, two packages, two NUMA nodes, two core ids *)
(* and L2 caches shared in every possible way, as far as it makes sense:   *)
(* the threads of a core share their L2, their NUMA node and their L1.     *)
(***************************************************************************)
EXTENDS Topology

CONSTANT NCpus

AllCpus == 0 .. NCpus - 1
Two == [AllCpus -> {0, 1}]

Group(f, g, h, c) == {e \in AllCpus : f[e] = f[c] /\ g[e] = g[c] /\ h[e] = h[c]}

Machine(order, node, package, core, share) ==
    [order |-> order, node |-> node, package |-> package, core |-> core,
     l1 |-> [c \in AllCpus |-> Group(package, package, core, c)],
     l2 |-> [c \in AllCpus |-> Group(package, node, share, c)],
     unlisted |-> {}, broken |-> {}, nocore |-> {}]

\* The placements of the CPUs, up to the names of the packages; "within":
\* a NUMA node belongs to one package.
Within(node, package) ==
    \A c, e \in AllCpus : node[c] = node[e] => package[c] = package[e]
Placements(within) ==
    {q \in Two \X Two : q[2][0] = 0 /\ (within => Within(q[1], q[2]))}

\* L2 caches: share names a cache within the node; the L1 is inside.
Caches(q) ==
    {r \in Two \X Two :
        /\ r[2][0] = 0
        /\ \A c \in AllCpus : Group(q[2], q[2], r[1], c) \subseteq Group(q[2], q[1], r[2], c)}

Machines(within) ==
    UNION {{Machine(o, q[1], q[2], r[1], r[2]) :
                o \in {<<0, 1>>, <<1, 0>>}, r \in Caches(q)} :
           q \in Placements(within)}

HasModule(m, c) == m.l2[c] # m.l1[c]

\* The lists that are read end with a range, or it does not matter.
NodeCpus(m, n) == {c \in AllCpus : m.node[c] = n}
Whole(S) == Len(ReadList(KernelList(S))) = Cardinality(S)
ListsWhole(m) ==
    /\ \A n \in {0, 1} : Whole(NodeCpus(m, n))
    /\ \A c \in AllCpus :
          IF HasModule(m, c) THEN Whole(m.l2[c])
          ELSE Len(ReadList(KernelList(m.l2[c]))) = Len(ReadList(KernelList(m.l1[c])))

\* A die has modules or cores, not both.
Uniform(m) ==
    \A c, e \in AllCpus : m.node[c] = m.node[e] => (HasModule(m, c) <=> HasModule(m, e))

PlainWhole == {m \in Machines(TRUE) : ListsWhole(m) /\ Uniform(m)}
Spanning == {m \in Machines(FALSE) : ListsWhole(m) /\ Uniform(m)}

\* What cannot be read: the list of a node; a file of one CPU, or all of them,
\* of a CPU that is offline; the core ids of CPUs that go offline while the
\* tree is built.
NoList(m) == {[m EXCEPT !.unlisted = {n}] : n \in {0, 1}}
NoFile(m) == {[m EXCEPT !.broken = {c}] : c \in AllCpus}
Offline(m) == {[m EXCEPT !.broken = {c}, !.nocore = {c}] : c \in AllCpus}
GoneLate(m) ==
    {[m EXCEPT !.nocore = S] : S \in {S \in SUBSET AllCpus : Cardinality(S) \in 1 .. 2}}

Plain == UNION {{m} \cup NoList(m) \cup NoFile(m) \cup Offline(m) \cup GoneLate(m) :
                m \in PlainWhole}
PlainLate == UNION {GoneLate(m) : m \in PlainWhole}

\* Cores of two kinds: CPUs 1 and 2 share an L2 cache, 0 and 3 have their own.
Hybrid ==
    {Machine(<<0, 1>>, [c \in AllCpus |-> 0], [c \in AllCpus |-> 0],
             [c \in AllCpus |-> <<0, 2, 3, 1>>[c + 1]],
             [c \in AllCpus |-> <<0, 1, 1, 2>>[c + 1]])}
=============================================================================
