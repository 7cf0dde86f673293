---------------------------- MODULE CoreNumbers ----------------------------
(***************************************************************************)
(* The nodes of the hardware tree, and how the end of                      *)
(* x86_energy_init_architecture_nodes() numbers its cores: "Unfortunately  *)
(* core ids on Linux are not unique, let's make them unique".              *)
(***************************************************************************)
EXTENDS Integers, Sequences, SequencesExt

SYSTEM == 0  SOCKET == 1  DIE == 2  MODULE_ == 3  CORE == 4  THREAD == 5
Granularities == SYSTEM .. THREAD

Node(g, id) == [g |-> g, id |-> id, kids |-> << >>]

\* Where the counter current_core stands, relative to the beginning of a loop,
\* when the loop comes to element i and element j adds n[j]; the last value is
\* where it stands behind the loop.
Counter(n) ==
    LET before[i \in 1 .. Len(n) + 1] == IF i = 1 THEN 0 ELSE before[i - 1] + n[i - 1]
    IN  before
Total(n) == Counter(n)[Len(n) + 1]

\* How far a child of a die, a die and a socket advance the counter: the child
\* is a core, or all its children are counted.
KidCores(kid) == IF kid.g = CORE THEN 1 ELSE Len(kid.kids)
CoresPerKid(d) == [k \in 1 .. Len(d.kids) |-> KidCores(d.kids[k])]
CoresPerDie(s) == [i \in 1 .. Len(s.kids) |-> Total(CoresPerKid(s.kids[i]))]
CoresPerSocket(socks) == [i \in 1 .. Len(socks) |-> Total(CoresPerDie(socks[i]))]

\* Each with its cores numbered from next.
NumberKid(kid, next) ==
    IF kid.g = CORE THEN [kid EXCEPT !.id = next]
    ELSE [kid EXCEPT !.kids =
             [l \in 1 .. Len(kid.kids) |-> [kid.kids[l] EXCEPT !.id = next + l - 1]]]
NumberDie(d, next) ==
    [d EXCEPT !.kids =
        [k \in 1 .. Len(d.kids) |-> NumberKid(d.kids[k], next + Counter(CoresPerKid(d))[k])]]
NumberSocket(s, next) ==
    [s EXCEPT !.kids =
        [i \in 1 .. Len(s.kids) |-> NumberDie(s.kids[i], next + Counter(CoresPerDie(s))[i])]]

\* A bug form: every socket counts its cores from zero again.
RenumberedPerSocket(socks) == [i \in 1 .. Len(socks) |-> NumberSocket(socks[i], 0)]

Renumbered(socks) ==
    [i \in 1 .. Len(socks) |-> NumberSocket(socks[i], Counter(CoresPerSocket(socks))[i])]

-----------------------------------------------------------------------------
(* What the tree looks like: cores stand below a die or below a module of  *)
(* it.  Below is what may stand below a core.                              *)
CoreNodes(Below) == [g : {CORE}, id : Int, kids : Below]
ModuleNodes(Below) == [g : {MODULE_}, id : Int, kids : Seq(CoreNodes(Below))]
DieNodes(Below) == [g : {DIE}, id : Int, kids : Seq(CoreNodes(Below) \cup ModuleNodes(Below))]
SocketNodes(Below) == [g : {SOCKET}, id : Int, kids : Seq(DieNodes(Below))]

\* The cores of a tree.
CoresOfKid(kid) == IF kid.g = CORE THEN {kid} ELSE {kid.kids[l] : l \in 1 .. Len(kid.kids)}
CoresOfDie(d) == UNION {CoresOfKid(d.kids[k]) : k \in 1 .. Len(d.kids)}
CoresOfSocket(s) == UNION {CoresOfDie(s.kids[i]) : i \in 1 .. Len(s.kids)}
CoresOf(socks) == UNION {CoresOfSocket(socks[i]) : i \in 1 .. Len(socks)}

\* The cores in S carry the numbers from a up to b, each of them one.
Numbered(S, a, b) ==
    /\ \A c \in S : c.id \in a .. b - 1
    /\ \A x \in a .. b - 1 : \E c \in S : c.id = x
    /\ \A c, e \in S : c.id = e.id => c = e
=============================================================================
