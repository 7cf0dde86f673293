------------------------------ MODULE Topology ------------------------------
(***************************************************************************)
(* The hardware tree of parse_architecture.c: it is built CPU by CPU from  *)
(* the files of sysfs, sorted, and its cores are renumbered; then it is    *)
(* asked for nodes (x86_energy_find_arch_for_cpu, x86_energy_arch_count)   *)
(* and, in architecture.c, for the CPU to measure on (get_test_cpu).       *)
(***************************************************************************)
EXTENDS CpuListText, CoreNumbers, FiniteSets

CONSTANTS Systems       \* the machines: what their sysfs says

\* A machine is a record of
\*   order    the NUMA nodes in the order readdir() delivers them
\*   node, package, core    functions of the CPU: its NUMA node, and what the
\*            files physical_package_id and core_id say
\*   l1, l2   functions of the CPU: the CPUs that share its caches
\*   unlisted NUMA nodes whose cpulist cannot be read
\*   broken   CPUs whose physical_package_id, or the list of one of whose
\*            caches, cannot be read
\*   nocore   CPUs whose core_id cannot be read: they were taken offline
\*            after the lists that name them were read

VARIABLES hw,           \* the machine
          todo,         \* nodes of get_nodes() still to be processed
          die,          \* process_node's pointer: the id of the node, and
                        \* the index of the socket it stands in, 0: in none
          cpus,         \* what is left of the node's cpulist
          sockets,      \* sys_node->children
          phase         \* "nodes", "cpus", and then "done" or the failure

vars == <<hw, todo, die, cpus, sockets, phase>>

Tree == [g |-> SYSTEM, id |-> 0, kids |-> sockets]

Init ==
    /\ hw \in Systems
    /\ todo = hw.order
    /\ die = [id |-> 0, at |-> 0]
    /\ cpus = << >>
    /\ sockets = << >>
    /\ phase = "nodes"

-----------------------------------------------------------------------------
(* Searching the tree *)

\* find_child(): the first child with this id, whatever its granularity.
ChildIndex(kids, id) == SelectInSeq(kids, LAMBDA k : k.id = id)

RECURSIVE Leaves(_)
Leaves(n) ==
    IF n.g = THREAD THEN {n.id} ELSE UNION {Leaves(n.kids[i]) : i \in DOMAIN n.kids}

\* find_cpu()
HasCpu(n, cpu) == cpu \in Leaves(n)

-----------------------------------------------------------------------------
(* Building the tree *)

\* insert_new_child(), unless find_child() finds one; then the change.
WithChild(kids, child) == IF ChildIndex(kids, child.id) = 0 THEN Append(kids, child) ELSE kids

\* A bug form: the core is not looked up, every CPU gets one of its own.
AddCoreBlindly(parent, cpu) ==
    IF cpu \in hw.nocore THEN parent
    ELSE [parent EXCEPT !.kids =
             Append(@, [Node(CORE, hw.core[cpu]) EXCEPT !.kids = <<Node(THREAD, cpu)>>])]

\* add_cpu_and_core_to_node(): its callers drop what it returns when core_id
\* cannot be read, and go on without the CPU.
AddCore(parent, cpu) ==
    LET kids == WithChild(parent.kids, Node(CORE, hw.core[cpu]))
        i == ChildIndex(kids, hw.core[cpu])
    IN  IF cpu \in hw.nocore THEN parent
        ELSE [parent EXCEPT !.kids =
                 [kids EXCEPT ![i].kids = WithChild(@, Node(THREAD, cpu))]]

L2(cpu) == ReadList(KernelList(hw.l2[cpu]))
L1(cpu) == ReadList(KernelList(hw.l1[cpu]))

\* The module or the core of the CPU, as new content of its die.
AddToDie(d, cpu) ==
    IF Len(L2(cpu)) > Len(L1(cpu))
    THEN LET module == FoldLeft(AddCore, Node(MODULE_, Len(d.kids)), L2(cpu))
         IN  [d EXCEPT !.kids = Append(@, module)]
    ELSE AddCore(d, cpu)

\* process_node() begins: the node is not in the tree yet.
NextNode ==
    /\ phase = "nodes" /\ todo # << >>
    /\ Head(todo) \notin hw.unlisted
    /\ die' = [id |-> Head(todo), at |-> 0]
    /\ todo' = Tail(todo)
    /\ cpus' = ReadList(KernelList({c \in DOMAIN hw.node : hw.node[c] = Head(todo)}))
    /\ phase' = "cpus"
    /\ UNCHANGED <<hw, sockets>>

\* Its cpulist cannot be read: x86_energy_init_architecture_nodes() returns
\* NULL.
FailNode ==
    /\ phase = "nodes" /\ todo # << >>
    /\ Head(todo) \in hw.unlisted
    /\ sockets' = << >>
    /\ phase' = "failed"
    /\ UNCHANGED <<hw, todo, die, cpus>>

EndOfNode ==
    /\ phase = "cpus" /\ cpus = << >>
    /\ phase' = "nodes"
    /\ UNCHANGED <<hw, todo, die, cpus, sockets>>

\* The struct that the pointer points to.
Current ==
    IF die.at = 0 THEN Node(DIE, die.id)
    ELSE LET kids == sockets[die.at].kids IN kids[ChildIndex(kids, die.id)]

SkipCpu ==
    /\ phase = "cpus" /\ cpus # << >>
    /\ HasCpu(Current, Head(cpus))
    /\ cpus' = Tail(cpus)
    /\ UNCHANGED <<hw, todo, die, sockets, phase>>

\* One turn of the loop of process_node(): the package, the node below it,
\* and the module or the core.  A node that already has children in another
\* package is copied with the pointer to these children: "aliased".
AddCpu ==
    /\ phase = "cpus" /\ cpus # << >>
    /\ ~HasCpu(Current, Head(cpus))
    /\ Head(cpus) \notin hw.broken
    /\ LET cpu == Head(cpus)
           socks == WithChild(sockets, Node(SOCKET, hw.package[cpu]))
           s == ChildIndex(socks, hw.package[cpu])
           dies == WithChild(socks[s].kids, Current)
           i == ChildIndex(dies, die.id)
       IN  /\ sockets' = [socks EXCEPT ![s].kids = [dies EXCEPT ![i] = AddToDie(@, cpu)]]
           /\ die' = [die EXCEPT !.at = s]
           /\ phase' = IF die.at \notin {0, s} /\ dies # socks[s].kids /\ Current.kids # << >>
                       THEN "aliased" ELSE "cpus"
    /\ cpus' = Tail(cpus)
    /\ UNCHANGED <<hw, todo>>

\* One of the three files that process_node() reads itself cannot be read:
\* x86_energy_init_architecture_nodes() returns NULL, whatever of the package
\* and the node is in the tree by then.
FailCpu ==
    /\ phase = "cpus" /\ cpus # << >>
    /\ ~HasCpu(Current, Head(cpus))
    /\ Head(cpus) \in hw.broken
    /\ sockets' = << >>
    /\ phase' = "failed"
    /\ UNCHANGED <<hw, todo, die, cpus>>

\* sort_children_recursive(): by id, equal ids keep their order.
Insert(kids, kid) ==
    LET after == SelectInSeq(kids, LAMBDA k : k.id > kid.id)
    IN  IF after = 0 THEN Append(kids, kid) ELSE InsertAt(kids, after, kid)

RECURSIVE SortTree(_)
SortTree(n) ==
    [n EXCEPT !.kids = FoldLeft(LAMBDA kids, k : Insert(kids, SortTree(k)), << >>, @)]

\* The tree is sorted, then the cores of the system are numbered.
Finish ==
    /\ phase = "nodes" /\ todo = << >>
    /\ sockets' = Renumbered(SortTree(Tree).kids)
    /\ phase' = "done"
    /\ UNCHANGED <<hw, todo, die, cpus>>

\* The tree is finished, or the caller got NULL.
Returned == phase \in {"done", "failed", "aliased"} /\ UNCHANGED vars

Next ==
    \/ NextNode \/ FailNode \/ EndOfNode
    \/ SkipCpu \/ AddCpu \/ FailCpu
    \/ Finish \/ Returned

Spec == Init /\ [][Next]_vars

-----------------------------------------------------------------------------
(* Asking the tree *)
NoNode == Node(SYSTEM, -1)

\* x86_energy_find_arch_for_cpu(): depth first, the first child that has it.
RECURSIVE FindArch(_, _, _)
FindArch(n, g, cpu) ==
    IF n.g = THREAD THEN IF n.id = cpu THEN n ELSE NoNode
    ELSE IF n.g = g
    THEN IF \E i \in DOMAIN n.kids : HasCpu(n.kids[i], cpu) THEN n ELSE NoNode
    ELSE LET found == SelectInSeq(n.kids, LAMBDA k : FindArch(k, g, cpu) # NoNode)
         IN  IF found = 0 THEN NoNode ELSE FindArch(n.kids[found], g, cpu)

\* x86_energy_arch_count()
RECURSIVE ArchCount(_, _)
ArchCount(n, g) ==
    IF n.g = g THEN 1
    ELSE FoldLeft(LAMBDA sum, k : sum + ArchCount(k, g), 0, n.kids)

\* find_node_internal(): depth first, the node itself before its children.
RECURSIVE FindNode(_, _, _)
FindNode(n, g, id) ==
    IF n.g = g /\ n.id = id THEN n
    ELSE LET found == SelectInSeq(n.kids, LAMBDA k : FindNode(k, g, id) # NoNode)
         IN  IF found = 0 THEN NoNode ELSE FindNode(n.kids[found], g, id)

\* A node without children: its first child is read all the same.
NoChild == -2

RECURSIVE FirstLeaf(_)
FirstLeaf(n) ==
    IF n.g = THREAD THEN n.id
    ELSE IF n.kids = << >> THEN NoChild ELSE FirstLeaf(n.kids[1])

\* A bug form: the granularity is not compared.
TestCpuById(g, id) ==
    LET found == SelectInSeq(sockets, LAMBDA s : s.id = id)
    IN  IF found = 0 THEN -1 ELSE FirstLeaf(sockets[found])

\* get_test_cpu()
TestCpu(g, id) ==
    LET found == FindNode(Tree, g, id) IN IF found = NoNode THEN -1 ELSE FirstLeaf(found)

-----------------------------------------------------------------------------
Cpus == DOMAIN hw.node

RECURSIVE NodesOf(_)
NodesOf(n) == {n} \cup UNION {NodesOf(n.kids[i]) : i \in DOMAIN n.kids}
AtLevel(g) == {n \in NodesOf(Tree) : n.g = g}
Covering(g, cpu) == {n \in AtLevel(g) : HasCpu(n, cpu)}

\* The CPUs that can stand in the tree.  Those of a module that has lost one
\* are inserted again, module and all, when it is the lost one's turn.
Placed == Cpus \ hw.nocore
InModule(c) == hw.l2[c] # hw.l1[c]
Repeated(c) == InModule(c) /\ hw.l2[c] \cap hw.nocore # {}

SameCore(c, e) == hw.package[c] = hw.package[e] /\ hw.core[c] = hw.core[e]

\* "a tree representation of the current hardware": every CPU that has a core
\* id stands once below its package, its NUMA node and its core, together with
\* the CPUs of the same core and, where the L2 cache is shared, of the same
\* module, and with no other CPU; a CPU that is lost while the tree is built
\* disturbs at most the module it belongs to.
TreeMatches ==
    phase = "done" =>
        /\ Leaves(Tree) = Placed
        /\ \A g \in {SOCKET, DIE}, c \in Placed : Cardinality(Covering(g, c)) = 1
        /\ \A g \in {CORE, MODULE_}, c \in Placed :
              ~Repeated(c) => Cardinality(Covering(g, c)) =
                                 IF g = CORE \/ InModule(c) THEN 1 ELSE 0
        /\ \A c \in Placed :
              /\ \A n \in Covering(SOCKET, c) :
                    n.id = hw.package[c] /\ Leaves(n) = {e \in Placed : hw.package[e] = n.id}
              /\ \A n \in Covering(DIE, c) :
                    n.id = hw.node[c] /\ Leaves(n) = {e \in Placed : hw.node[e] = n.id}
              /\ \A n \in Covering(CORE, c) : Leaves(n) = {e \in Placed : SameCore(c, e)}
              /\ \A n \in Covering(MODULE_, c) : Leaves(n) = hw.l2[c] \cap Placed

\* Cores stand below a die or a module of it, where the loop that numbers them
\* looks; threads have no children.
Threads == Seq([g : {THREAD}, id : Int, kids : {<< >>}])
Shaped == sockets \in Seq(SocketNodes(Threads)) /\ AtLevel(CORE) = CoresOf(sockets)

\* After the renumbering the cores are 0, 1, 2 ... through the whole system,
\* so that an index names one core, and arch_count() says how many there are.
CoresNumbered ==
    /\ Shaped
    /\ phase = "done" =>
        /\ {n.id : n \in AtLevel(CORE)} = 0 .. ArchCount(Tree, CORE) - 1
        /\ Cardinality(AtLevel(CORE)) = ArchCount(Tree, CORE)

\* The CPU that get_test_cpu() hands to a source belongs to the package, or
\* to the core, that the counter is about, if no node below it has lost all
\* its CPUs; for an index there is none of, it reports an error.
TestCpuBelongs ==
    phase = "done" =>
        /\ \A g \in {SOCKET, DIE, CORE} : \A n \in AtLevel(g) :
              (\A m \in NodesOf(n) : Leaves(m) # {}) => TestCpu(g, n.id) \in Leaves(n)
        /\ TestCpu(CORE, ArchCount(Tree, CORE)) = -1

\* "the node with the given granularity that is in the graph between root and
\* the cpu": it fails where the CPU has no module.
FindsGranularity ==
    phase = "done" =>
        \A g \in Granularities, c \in Cpus :
            LET n == FindArch(Tree, g, c) IN n = NoNode \/ n.g = g

\* "id (unique for level)": it fails for the modules of two dies.
IdsUnique ==
    phase = "done" =>
        \A g \in Granularities : \A m, n \in AtLevel(g) : m.id = n.id => m = n

\* A tree that is returned has every CPU of the machine, once: it fails when a
\* core_id cannot be read, which is no error to process_node().
EveryCpuPlaced ==
    phase = "done" =>
        \A c \in Cpus : Cardinality(Covering(THREAD, c)) = 1 /\ Cardinality(Covering(CORE, c)) = 1

\* get_test_cpu() finds a CPU below every node: it fails when all CPUs of a
\* node are lost, and it reads a child that the node does not have.
EveryNodeHasCpu ==
    phase = "done" => \A n \in AtLevel(SOCKET) : TestCpu(SOCKET, n.id) # NoChild

\* No two nodes of the tree share an array of children: it fails when a NUMA
\* node spans two packages.
NoSharedChildren == phase # "aliased"
=============================================================================
