------------------------- MODULE SourceObjectsProofs -------------------------
(***************************************************************************)
(* Ownership of counters and of the initialisation, for any number of      *)
(* objects, counters and CPUs.                                             *)
(***************************************************************************)
EXTENDS SourceObjects, TLAPS

\* The objects and the counters there are.
Objects ==
    /\ access \in [Accesses -> [alive : BOOLEAN, set : BOOLEAN, initialized : BOOLEAN]]
    /\ object \in [Counters -> [alive : BOOLEAN, set : BOOLEAN, def : Setups \cup {NoSetup}]]
    /\ open \subseteq Setups

\* The sets of owners, pointwise: easier to reason about than the image.
Owned ==
    /\ \A d \in open : \E o \in Counters : object[o].set /\ object[o].def = d
    /\ \A o \in Counters : object[o].set => object[o].def \in open
    /\ \A o, p \in Counters :
          object[o].set /\ object[p].set /\ object[o].def = object[p].def => o = p

LEMMA OwnedIsOwnedOnce == Owned <=> OwnedOnce
BY DEF Owned, OwnedOnce

ObjInv == Objects /\ WellFormed /\ Owned

LEMMA ObjInvInit == Init => ObjInv
BY DEF Init, ObjInv, Objects, WellFormed, Owned, NoAccess, NoObject

\* What the source does to the counters there are.
LEMMA SetupOpens == ASSUME NEW d \in Setups, SetupReturns(d)
                    PROVE  d \notin open /\ open' = open \cup {d}
BY DEF SetupReturns, Unused

LEMMA SourceKeepsOpen ==
    ASSUME SourceInit \/ SourceInitFails \/ SourceFini \/ UNCHANGED counters
    PROVE  open' = open
BY DEF SourceInit, SourceInitFails, SourceFini, counters

\* No step of an AccessSource but get() touches a counter or its owner.
LEMMA AccessStepKeeps ==
    ASSUME ObjInv, NEW a \in Accesses,
           \/ NewAccess(a) \/ AccessInit(a) \/ AccessInitThrows(a) \/ AccessDies(a)
           \/ GetThrows(a)
           \/ \E b \in Accesses : AccessMove(a, b) \/ AccessSwap(a, b)
    PROVE  ObjInv'
<1>1. open' = open /\ UNCHANGED object
  <2>1. CASE NewAccess(a)
    BY <2>1 DEF NewAccess, counters
  <2>2. CASE AccessInit(a)
    BY <2>2 DEF AccessInit, SourceInit
  <2>3. CASE AccessInitThrows(a)
    BY <2>3 DEF AccessInitThrows, SourceInitFails
  <2>4. CASE AccessDies(a)
    BY <2>4 DEF AccessDies, SourceFini, counters
  <2>5. CASE GetThrows(a)
    BY <2>5 DEF GetThrows, SetupFails
  <2>6. CASE \E b \in Accesses : AccessMove(a, b) \/ AccessSwap(a, b)
    BY <2>6 DEF AccessMove, AccessSwap, counters
  <2>. QED  BY <2>1, <2>2, <2>3, <2>4, <2>5, <2>6
<1>2. access' \in [Accesses -> [alive : BOOLEAN, set : BOOLEAN, initialized : BOOLEAN]]
      /\ \A b \in Accesses :
            (access'[b].initialized => access'[b].set) /\ (access'[b].set => access'[b].alive)
  <2>. USE DEF ObjInv, Objects, WellFormed
  <2>1. CASE NewAccess(a)
    BY <2>1 DEF NewAccess
  <2>2. CASE AccessInit(a)
    <3>1. access[a].alive /\ access[a].set
          /\ access' = [access EXCEPT ![a].initialized = TRUE]
      BY <2>2 DEF AccessInit, Initializes
    <3>2. access' \in [Accesses -> [alive : BOOLEAN, set : BOOLEAN, initialized : BOOLEAN]]
      BY <3>1, ZenonT(30)
    <3>3. access'[a].alive /\ access'[a].set /\ \A b \in Accesses \ {a} : access'[b] = access[b]
      BY <3>1
    <3>. QED  BY <3>2, <3>3
  <2>3. CASE AccessInitThrows(a)
    BY <2>3 DEF AccessInitThrows
  <2>4. CASE AccessDies(a)
    BY <2>4 DEF AccessDies, NoAccess
  <2>5. CASE GetThrows(a)
    BY <2>5 DEF GetThrows
  <2>6. CASE \E b \in Accesses : AccessMove(a, b)
    <3>1. PICK b \in Accesses : AccessMove(a, b)
      BY <2>6
    <3>2. a # b /\ access' = [access EXCEPT ![b] = access[a], ![a] = Emptied(access[a])]
      BY <3>1 DEF AccessMove
    <3>. USE DEF Emptied
    <3>3. access' \in [Accesses -> [alive : BOOLEAN, set : BOOLEAN, initialized : BOOLEAN]]
      BY <3>2, ZenonT(30)
    <3>4. access'[b] = access[a] /\ ~access'[a].set /\ ~access'[a].initialized
          /\ \A e \in Accesses \ {a, b} : access'[e] = access[e]
      BY <3>2
    <3>. QED  BY <3>3, <3>4
  <2>7. CASE \E b \in Accesses : AccessSwap(a, b)
    <3>1. PICK b \in Accesses : AccessSwap(a, b)
      BY <2>7
    <3>. QED  BY <3>1 DEF AccessSwap
  <2>. QED  BY <2>1, <2>2, <2>3, <2>4, <2>5, <2>6, <2>7
<1>. QED  BY <1>1, <1>2 DEF ObjInv, Objects, WellFormed, Owned

LEMMA GetKeeps ==
    ASSUME ObjInv, NEW a \in Accesses, NEW o \in Counters, Get(a, o)
    PROVE  ObjInv'
<1>1. PICK d \in Setups :
          /\ SetupReturns(d)
          /\ object' = [object EXCEPT ![o] = [alive |-> TRUE, set |-> TRUE, def |-> d]]
  BY DEF Get
<1>2. d \notin open /\ open' = open \cup {d}
  BY <1>1, SetupOpens
<1>3. ~object[o].set /\ UNCHANGED access
  BY DEF Get, ObjInv, WellFormed
<1>4. Objects'
  BY <1>1, <1>2, <1>3 DEF ObjInv, Objects
<1>5. WellFormed'
  BY <1>1, <1>3 DEF ObjInv, Objects, WellFormed
<1>6. object'[o].set /\ object'[o].def = d /\ \A p \in Counters \ {o} : object'[p] = object[p]
  BY <1>1 DEF ObjInv, Objects
<1>7. Owned'
  BY <1>2, <1>3, <1>6 DEF ObjInv, Owned
<1>. QED  BY <1>4, <1>5, <1>7 DEF ObjInv

LEMMA CounterMoveKeeps ==
    ASSUME ObjInv, NEW o \in Counters, NEW p \in Counters,
           CounterMove(o, p) \/ CounterSwap(o, p)
    PROVE  ObjInv'
<1>. USE DEF ObjInv
<1>1. open' = open /\ UNCHANGED access
  BY DEF CounterMove, CounterSwap, counters
<1>2. CASE CounterMove(o, p)
  <2>1. /\ o # p /\ ~object[p].set
        /\ object'[p] = object[o]
        /\ ~object'[o].set /\ object'[o].alive = object[o].alive
        /\ \A q \in Counters \ {o, p} : object'[q] = object[q]
    BY <1>2 DEF CounterMove, Objects, WellFormed
  <2>2. Objects'
    BY <1>1, <1>2, ZenonT(30) DEF CounterMove, Objects
  <2>. QED  BY <1>1, <2>1, <2>2 DEF WellFormed, Owned
<1>3. CASE CounterSwap(o, p)
  <2>1. /\ object'[p] = object[o] /\ object'[o] = object[p]
        /\ \A q \in Counters \ {o, p} : object'[q] = object[q]
    BY <1>3 DEF CounterSwap, Objects
  <2>2. Objects'
    BY <1>1, <1>3 DEF CounterSwap, Objects
  <2>3. WellFormed'
    BY <1>1, <2>1 DEF WellFormed
  <2>4. Owned'
    BY <1>1, <2>1 DEF Owned
  <2>. QED  BY <2>2, <2>3, <2>4
<1>. QED  BY <1>2, <1>3

LEMMA CounterDiesKeeps ==
    ASSUME ObjInv, NEW o \in Counters, CounterDies(o)
    PROVE  ObjInv'
<1>. USE DEF ObjInv
<1>1. /\ UNCHANGED access
      /\ object'[o] = NoObject
      /\ \A q \in Counters \ {o} : object'[q] = object[q]
      /\ object' \in [Counters -> [alive : BOOLEAN, set : BOOLEAN, def : Setups \cup {NoSetup}]]
  BY DEF CounterDies, Objects, NoObject
<1>2. open' = IF object[o].set THEN open \ {object[o].def} ELSE open
  BY DEF CounterDies, SourceClose, counters
<1>3. Objects' /\ WellFormed'
  <2>1. Objects'
    <3>1. open' \subseteq Setups
      BY <1>2 DEF Objects
    <3>. QED  BY <1>1, <3>1 DEF Objects
  <2>2. ~object'[o].set
    BY <1>1 DEF NoObject
  <2>. QED  BY <1>1, <2>1, <2>2 DEF WellFormed
<1>4. Owned'
  BY <1>1, <1>2 DEF Owned, NoObject
<1>. QED  BY <1>3, <1>4

LEMMA ObjInvNext == ASSUME ObjInv, [Next]_vars PROVE ObjInv'
<1>1. CASE UNCHANGED vars
  BY <1>1 DEF vars, counters, ObjInv, Objects, WellFormed, Owned
<1>2. CASE Next
  <2>1. CASE \E a \in Accesses :
               \/ NewAccess(a) \/ AccessInit(a) \/ AccessInitThrows(a) \/ AccessDies(a)
               \/ GetThrows(a)
               \/ \E b \in Accesses : AccessMove(a, b) \/ AccessSwap(a, b)
    BY <2>1, AccessStepKeeps
  <2>2. CASE \E a \in Accesses, o \in Counters : Get(a, o)
    BY <2>2, GetKeeps
  <2>3. CASE \E o \in Counters : CounterDies(o)
    BY <2>3, CounterDiesKeeps
  <2>4. CASE \E o, p \in Counters : CounterMove(o, p) \/ CounterSwap(o, p)
    BY <2>4, CounterMoveKeeps
  <2>. QED  BY <1>2, <2>1, <2>2, <2>3, <2>4 DEF Next
<1>. QED  BY <1>1, <1>2

\* SourceCounter: whatever is moved, swapped or destroyed, and in whatever
\* order, a counter is closed once, by the one object that owns it.
THEOREM OwnedCorrect == Spec => []OwnedOnce
<1>1. Init => ObjInv
  BY ObjInvInit
<1>2. ObjInv /\ [Next]_vars => ObjInv'
  BY ObjInvNext
<1>3. ObjInv => OwnedOnce
  BY OwnedIsOwnedOnce DEF ObjInv
<1>. QED  BY <1>1, <1>2, <1>3, PTL DEF Spec

-----------------------------------------------------------------------------
(* What the steps of setup() amount to *)

\* A setup() that returns has taken what its counter needs.
LEMMA TakesNeeds ==
    ASSUME source \in Sources, NEW c \in Cpus, NEW steps \in SetupSteps(c)
    PROVE  Needs \subseteq Takings(steps, Len(steps))
<1>1. CASE source = "perf"
  <2>1. steps = Perf
    BY <1>1 DEF SetupSteps
  <2>2. Len(steps) = 4 /\ steps[2].takes = {"fd"} /\ steps[3].takes = {"def"}
    BY <2>1 DEF Perf, Step
  <2>. QED  BY <1>1, <2>2 DEF Needs, Takings
<1>2. CASE source = "x86_adapt"
  <2>1. steps = X86Adapt
    BY <1>2 DEF SetupSteps
  <2>2. Len(steps) = 6 /\ steps[2].takes = {"dev"} /\ steps[5].takes = {"def"}
    BY <2>1 DEF X86Adapt, Step
  <2>. QED  BY <1>2, <2>2 DEF Needs, Takings
<1>3. CASE source = "x86_adapt_fam23"
  <2>1. steps = Fam23Package \/ steps = Fam23Core
    BY <1>3 DEF SetupSteps
  <2>2. \E i, j \in 1 .. Len(steps) : steps[i].takes = {"dev"} /\ steps[j].takes = {"def"}
    <3>1. CASE steps = Fam23Package /\ unitKnown
      <4>1. Len(steps) = 7 /\ steps[4].takes = {"dev"} /\ steps[6].takes = {"def"}
        BY <3>1 DEF Fam23Package, DefaultUnit, Fam23Create, Step
      <4>. QED  BY <4>1
    <3>2. CASE steps = Fam23Package /\ ~unitKnown
      <4>1. Len(steps) = 9 /\ steps[4].takes = {"dev"} /\ steps[8].takes = {"def"}
        BY <3>2 DEF Fam23Package, DefaultUnit, Fam23Create, Step
      <4>. QED  BY <4>1
    <3>3. CASE steps = Fam23Core /\ unitKnown
      <4>1. Len(steps) = 5 /\ steps[2].takes = {"dev"} /\ steps[4].takes = {"def"}
        BY <3>3 DEF Fam23Core, DefaultUnit, Fam23Create, Step
      <4>. QED  BY <4>1
    <3>4. CASE steps = Fam23Core /\ ~unitKnown
      <4>1. Len(steps) = 7 /\ steps[2].takes = {"dev"} /\ steps[6].takes = {"def"}
        BY <3>4 DEF Fam23Core, DefaultUnit, Fam23Create, Step
      <4>. QED  BY <4>1
    <3>. QED  BY <2>1, <3>1, <3>2, <3>3, <3>4
  <2>. QED  BY <1>3, <2>2 DEF Needs, Takings
<1>4. CASE source = "likwid"
  <2>1. steps = Likwid(c)
    BY <1>4 DEF SetupSteps
  <2>2. \E i \in 1 .. Len(steps) : steps[i].takes = {"def"}
    <3>1. CASE c \in listed
      <4>1. Len(steps) = 3 /\ steps[2].takes = {"def"}
        BY <2>1, <3>1 DEF Likwid, Step
      <4>. QED  BY <4>1
    <3>2. CASE c \notin listed
      <4>1. Len(steps) = 5 /\ steps[4].takes = {"def"}
        BY <2>1, <3>2 DEF Likwid, Step
      <4>. QED  BY <4>1
    <3>. QED  BY <3>1, <3>2
  <2>. QED  BY <1>4, <2>2 DEF Needs, Takings
<1>. QED  BY <1>1, <1>2, <1>3, <1>4 DEF Sources

\* likwid lists a CPU after it has added it, and before it returns.
LEMMA ListsAddedCpus ==
    ASSUME source = "likwid", NEW c \in Cpus, NEW steps \in SetupSteps(c),
           NEW n \in 0 .. Len(steps), NEW d, Done(steps, n, c, d),
           listed \subseteq added \cup {FirstCpu}
    PROVE  /\ listed' \subseteq added' \cup {FirstCpu}
           /\ listed \subseteq listed'
           /\ n = Len(steps) => c \in listed'
<1>1. steps = Likwid(c)
  BY DEF SetupSteps
<1>2. CASE c \in listed
  <2>1. /\ Len(steps) = 3 /\ steps[1].name = "power_read"
        /\ steps[2].name = "malloc" /\ steps[3].name = "create"
    BY <1>1, <1>2 DEF Likwid, Step
  <2>2. \A i \in 1 .. n : steps[i].name # "add_likwid_initialize"
    BY <2>1
  <2>. QED  BY <1>2, <2>2 DEF Done
<1>3. CASE c \notin listed
  <2>1. /\ Len(steps) = 5
        /\ steps[1].name = "HPMaddThread" /\ steps[2].name = "add_likwid_initialize"
        /\ steps[3].name = "power_read" /\ steps[4].name = "malloc"
        /\ steps[5].name = "create"
    BY <1>1, <1>3 DEF Likwid, Step
  <2>2. CASE n >= 2
    <3>1. 1 \in 1 .. n /\ 2 \in 1 .. n
      BY <2>1, <2>2
    <3>. QED  BY <2>1, <3>1 DEF Done
  <2>3. CASE n < 2
    <3>1. \A i \in 1 .. n : steps[i].name # "add_likwid_initialize"
      BY <2>1, <2>3
    <3>2. n # Len(steps)
      BY <2>1, <2>3
    <3>. QED  BY <3>1, <3>2 DEF Done
  <2>. QED  BY <2>1, <2>2, <2>3
<1>. QED  BY <1>2, <1>3

-----------------------------------------------------------------------------
(* What is given back on every path *)

\* What one kind does in setup(): it is taken in step m, and a later step that
\* can fail gives it back.
LEMMA GivenBack ==
    ASSUME NEW steps, NEW kind, Len(steps) \in Nat, NEW m \in 1 .. Len(steps),
           \A i \in 1 .. Len(steps) : kind \in steps[i].takes => i = m,
           \A i \in 1 .. Len(steps) : i > m /\ ~Certain(steps[i].name) => kind \in steps[i].drops,
           NEW n \in 1 .. Len(steps), ~Certain(steps[n].name)
    PROVE  kind \notin Takings(steps, n - 1) \ steps[n].drops
<1>1. CASE n > m
  BY <1>1
<1>2. CASE n <= m
  <2>1. \A i \in 1 .. n - 1 : i \in 1 .. Len(steps) /\ i # m
    BY <1>2
  <2>. QED  BY <2>1 DEF Takings
<1>. QED  BY <1>1, <1>2

\* A setup() that fails leaves nothing of what its source is tidy about.
LEMMA FailureLeavesNone ==
    ASSUME source \in Sources, NEW c \in Cpus, NEW steps \in SetupSteps(c),
           NEW n \in 1 .. Len(steps), ~Certain(steps[n].name), NEW kind \in Tidy
    PROVE  kind \notin Takings(steps, n - 1) \ steps[n].drops
<1>1. CASE source = "x86_adapt"
  <2>1. steps = X86Adapt /\ kind \in {"dev", "def"}
    BY <1>1 DEF SetupSteps, Tidy
  <2>2. Len(steps) = 6 /\ 2 \in 1 .. 6 /\ 5 \in 1 .. 6
    BY <2>1 DEF X86Adapt
  <2>3. /\ steps[1] = Step("lookup", {}, {}) /\ steps[2] = Step("get_device", {"dev"}, {})
        /\ steps[3] = Step("unit", {}, {"dev"}) /\ steps[4] = Step("first_read", {}, {"dev"})
        /\ steps[5] = Step("malloc", {"def"}, {}) /\ steps[6] = Step("create", {}, {"def", "dev"})
    BY <2>1 DEF X86Adapt
  <2>4. \A i \in 1 .. 6 : i = 1 \/ i = 2 \/ i = 3 \/ i = 4 \/ i = 5 \/ i = 6
    OBVIOUS
  <2>5. Certain(steps[5].name)
    BY <1>1, <2>3 DEF Certain, Step
  <2>6. CASE kind = "dev"
    <3>1. \A i \in 1 .. 6 : kind \in steps[i].takes => i = 2
      BY <2>3, <2>4, <2>6 DEF Step
    <3>2. \A i \in 1 .. 6 : i > 2 /\ ~Certain(steps[i].name) => kind \in steps[i].drops
      BY <2>3, <2>4, <2>5, <2>6 DEF Step
    <3>3. /\ Len(steps) \in Nat /\ 2 \in 1 .. Len(steps)
          /\ \A i \in 1 .. Len(steps) : kind \in steps[i].takes => i = 2
          /\ \A i \in 1 .. Len(steps) : i > 2 /\ ~Certain(steps[i].name) => kind \in steps[i].drops
      BY <2>2, <3>1, <3>2
    <3>. QED  BY <3>3, GivenBack
  <2>7. CASE kind = "def"
    <3>1. \A i \in 1 .. 6 : kind \in steps[i].takes => i = 5
      BY <2>3, <2>4, <2>7 DEF Step
    <3>2. \A i \in 1 .. 6 : i > 5 /\ ~Certain(steps[i].name) => kind \in steps[i].drops
      BY <2>3, <2>4, <2>7 DEF Step
    <3>3. /\ Len(steps) \in Nat /\ 5 \in 1 .. Len(steps)
          /\ \A i \in 1 .. Len(steps) : kind \in steps[i].takes => i = 5
          /\ \A i \in 1 .. Len(steps) : i > 5 /\ ~Certain(steps[i].name) => kind \in steps[i].drops
      BY <2>2, <3>1, <3>2
    <3>. QED  BY <3>3, GivenBack
  <2>. QED  BY <2>1, <2>6, <2>7
<1>2. CASE source = "x86_adapt_fam23"
  <2>1. kind = "def" /\ (steps = Fam23Package \/ steps = Fam23Core)
    BY <1>2 DEF SetupSteps, Tidy
  <2>2. \E l \in {5, 7, 9} :
           /\ Len(steps) = l
           /\ steps[l].drops = {"def"}
           /\ \A i \in 1 .. l : "def" \in steps[i].takes => i = l - 1
    <3>1. CASE steps = Fam23Package /\ unitKnown
      <4>1. /\ Len(steps) = 7 /\ steps[7].drops = {"def"}
            /\ steps[1].takes = {} /\ steps[2].takes = {"tree"}
            /\ steps[3].takes = {} /\ steps[4].takes = {"dev"}
            /\ steps[5].takes = {} /\ steps[6].takes = {"def"}
            /\ steps[7].takes = {}
        BY <3>1 DEF Fam23Package, DefaultUnit, Fam23Create, Step
      <4>2. \A i \in 1 .. 7 : i = 1 \/ i = 2 \/ i = 3 \/ i = 4 \/ i = 5 \/ i = 6 \/ i = 7
        OBVIOUS
      <4>. QED  BY <4>1, <4>2
    <3>2. CASE steps = Fam23Package /\ ~unitKnown
      <4>1. /\ Len(steps) = 9 /\ steps[9].drops = {"def"}
            /\ steps[1].takes = {} /\ steps[2].takes = {"tree"}
            /\ steps[3].takes = {} /\ steps[4].takes = {"dev"}
            /\ steps[5].takes = {"dev0"} /\ steps[6].takes = {}
            /\ steps[7].takes = {} /\ steps[8].takes = {"def"}
            /\ steps[9].takes = {}
        BY <3>2 DEF Fam23Package, DefaultUnit, Fam23Create, Step
      <4>2. \A i \in 1 .. 9 : i = 1 \/ i = 2 \/ i = 3 \/ i = 4 \/ i = 5 \/ i = 6 \/ i = 7
                              \/ i = 8 \/ i = 9
        OBVIOUS
      <4>. QED  BY <4>1, <4>2
    <3>3. CASE steps = Fam23Core /\ unitKnown
      <4>1. /\ Len(steps) = 5 /\ steps[5].drops = {"def"}
            /\ steps[1].takes = {} /\ steps[2].takes = {"dev"}
            /\ steps[3].takes = {} /\ steps[4].takes = {"def"}
            /\ steps[5].takes = {}
        BY <3>3 DEF Fam23Core, DefaultUnit, Fam23Create, Step
      <4>2. \A i \in 1 .. 5 : i = 1 \/ i = 2 \/ i = 3 \/ i = 4 \/ i = 5
        OBVIOUS
      <4>. QED  BY <4>1, <4>2
    <3>4. CASE steps = Fam23Core /\ ~unitKnown
      <4>1. /\ Len(steps) = 7 /\ steps[7].drops = {"def"}
            /\ steps[1].takes = {} /\ steps[2].takes = {"dev"}
            /\ steps[3].takes = {"dev0"} /\ steps[4].takes = {}
            /\ steps[5].takes = {} /\ steps[6].takes = {"def"}
            /\ steps[7].takes = {}
        BY <3>4 DEF Fam23Core, DefaultUnit, Fam23Create, Step
      <4>2. \A i \in 1 .. 7 : i = 1 \/ i = 2 \/ i = 3 \/ i = 4 \/ i = 5 \/ i = 6 \/ i = 7
        OBVIOUS
      <4>. QED  BY <4>1, <4>2
    <3>. QED  BY <2>1, <3>1, <3>2, <3>3, <3>4
  <2>3. PICK l \in {5, 7, 9} :
           /\ Len(steps) = l
           /\ steps[l].drops = {"def"}
           /\ \A i \in 1 .. l : "def" \in steps[i].takes => i = l - 1
    BY <2>2
  <2>4. l - 1 \in 1 .. Len(steps) /\ Len(steps) \in Nat /\ \A i \in 1 .. l : i > l - 1 => i = l
    BY <2>3
  <2>5. kind \in steps[l].drops
    BY <2>1, <2>3
  <2>. QED  BY <2>1, <2>3, <2>4, <2>5, GivenBack
<1>3. CASE source \in {"perf", "likwid"}
  BY <1>3 DEF Tidy
<1>. QED  BY <1>1, <1>2, <1>3 DEF Sources

TidyInv == source \in Sources /\ NothingLost

LEMMA TidyInvNext == TidyInv /\ [Next]_vars => TidyInv'
<1>. SUFFICES ASSUME TidyInv, [Next]_vars PROVE TidyInv'
  OBVIOUS
<1>1. source' = source /\ source \in Sources /\ Tidy' = Tidy
  BY DEF TidyInv, Next, vars, Tidy
<1>2. ASSUME UNCHANGED <<taken, open>>,
             UNCHANGED <<watched, stray>> \/ watched' = {}
      PROVE  TidyInv'
  BY <1>1, <1>2 DEF TidyInv, NothingLost
<1>3. ASSUME NEW d \in Setups, SetupReturns(d) PROVE TidyInv'
  <2>1. /\ open' = open \cup {d} /\ watched' \subseteq watched \cup {d} /\ stray' = stray
        /\ \E s : taken' = taken \cup (s \X {d})
    BY <1>3 DEF SetupReturns, Created
  <2>. QED  BY <1>1, <2>1 DEF TidyInv, NothingLost
<1>4. ASSUME NEW d \in Setups, SetupFails(d) PROVE TidyInv'
  <2>1. PICK c \in Cpus : \E steps \in SetupSteps(c) : \E n \in 1 .. Len(steps) :
           /\ ~Certain(steps[n].name)
           /\ taken' = taken \cup ((Takings(steps, n - 1) \ steps[n].drops) \X {d})
    BY <1>4 DEF SetupFails
  <2>2. PICK steps \in SetupSteps(c) : \E n \in 1 .. Len(steps) :
           /\ ~Certain(steps[n].name)
           /\ taken' = taken \cup ((Takings(steps, n - 1) \ steps[n].drops) \X {d})
    BY <2>1
  <2>3. PICK n \in 1 .. Len(steps) :
           /\ ~Certain(steps[n].name)
           /\ taken' = taken \cup ((Takings(steps, n - 1) \ steps[n].drops) \X {d})
    BY <2>2
  <2>4. \A k \in Tidy : k \notin Takings(steps, n - 1) \ steps[n].drops
    BY <1>1, <2>3, FailureLeavesNone
  <2>5. /\ open' = open /\ stray \subseteq stray'
        /\ watched' \subseteq watched \cup stray'
    BY <1>4 DEF SetupFails, CreateFails
  <2>. QED  BY <1>1, <2>3, <2>4, <2>5 DEF TidyInv, NothingLost
<1>5. ASSUME NEW d, SourceClose(d) PROVE TidyInv'
  <2>1. Tidy \subseteq Returned
    BY <1>1 DEF Tidy, Returned, Sources
  <2>2. /\ watched' = watched \ {d} /\ open' = open \ {d} /\ stray' = stray
        /\ taken' = taken \ (Returned \X {d})
    BY <1>5 DEF SourceClose
  <2>. QED  BY <1>1, <2>1, <2>2 DEF TidyInv, NothingLost
<1>6. CASE UNCHANGED counters
  BY <1>2, <1>6 DEF counters
<1>7. CASE SourceInit \/ SourceInitFails \/ SourceFini
  BY <1>2, <1>7 DEF SourceInit, SourceInitFails, SourceFini
<1>8. ASSUME NEW a \in Accesses,
             \/ NewAccess(a) \/ AccessInit(a) \/ AccessInitThrows(a) \/ AccessDies(a)
             \/ GetThrows(a)
             \/ \E b \in Accesses : AccessMove(a, b) \/ AccessSwap(a, b)
             \/ \E o \in Counters : Get(a, o)
      PROVE  TidyInv'
  BY <1>3, <1>4, <1>6, <1>7, <1>8
     DEF NewAccess, AccessInit, AccessInitThrows, AccessDies, GetThrows, AccessMove, AccessSwap, Get
<1>9. ASSUME NEW o \in Counters,
             CounterDies(o) \/ \E p \in Counters : CounterMove(o, p) \/ CounterSwap(o, p)
      PROVE  TidyInv'
  BY <1>5, <1>6, <1>9 DEF CounterDies, CounterMove, CounterSwap
<1>10. CASE UNCHANGED vars
  BY <1>6, <1>10 DEF vars, counters
<1>. QED  BY <1>8, <1>9, <1>10 DEF Next

\* For every program, also one that initialises a source twice: a counter that
\* is closed, or whose setup() failed, holds nothing of what its source gives
\* back, and is sampled only if it is a failing pthread_create() that has left
\* its call in the list.
THEOREM NothingLostCorrect == Spec => []NothingLost
<1>1. Init => TidyInv
  BY DEF Init, TidyInv, NothingLost
<1>2. TidyInv => NothingLost
  BY DEF TidyInv
<1>. QED  BY <1>1, <1>2, TidyInvNext, PTL DEF Spec

-----------------------------------------------------------------------------
(* x86_adapt.c, the one source that gives back all it takes *)

OnlyTidy == source = "x86_adapt" => taken \subseteq Tidy \X Setups

LEMMA X86AdaptTakes ==
    ASSUME source = "x86_adapt", NEW c, NEW steps \in SetupSteps(c)
    PROVE  Len(steps) = 6 /\ \A n \in 0 .. 6 : Takings(steps, n) \subseteq Tidy
<1>1. steps = X86Adapt
  BY DEF SetupSteps
<1>2. Len(X86Adapt) = 6 /\ \A i \in 1 .. 6 : X86Adapt[i].takes \subseteq {"dev", "def"}
  BY DEF X86Adapt, Step
<1>. QED  BY <1>1, <1>2 DEF Tidy, Takings

LEMMA OnlyTidyNext == OnlyTidy /\ [Next]_vars => OnlyTidy'
<1>. SUFFICES ASSUME source = "x86_adapt", taken \subseteq Tidy \X Setups, [Next]_vars
              PROVE  taken' \subseteq Tidy \X Setups
  <2>. SUFFICES ASSUME OnlyTidy, [Next]_vars, source' = "x86_adapt"
                PROVE  taken' \subseteq Tidy' \X Setups
    BY DEF OnlyTidy
  <2>1. source' = source /\ Tidy' = Tidy
    BY DEF Next, vars, Tidy
  <2>. QED  BY <2>1 DEF OnlyTidy
<1>1. ASSUME NEW d \in Setups, SetupReturns(d) PROVE taken' \subseteq Tidy \X Setups
  <2>1. PICK c \in Cpus : \E steps \in SetupSteps(c) :
           taken' = taken \cup (Takings(steps, Len(steps)) \X {d})
    BY <1>1 DEF SetupReturns
  <2>2. PICK steps \in SetupSteps(c) : taken' = taken \cup (Takings(steps, Len(steps)) \X {d})
    BY <2>1
  <2>3. Takings(steps, Len(steps)) \subseteq Tidy
    <3>1. Len(steps) = 6 /\ \A n \in 0 .. 6 : Takings(steps, n) \subseteq Tidy
      BY X86AdaptTakes
    <3>. QED  BY <3>1
  <2>. QED  BY <2>2, <2>3
<1>2. ASSUME NEW d \in Setups, SetupFails(d) PROVE taken' \subseteq Tidy \X Setups
  <2>1. PICK c \in Cpus : \E steps \in SetupSteps(c) : \E n \in 1 .. Len(steps) :
           taken' = taken \cup ((Takings(steps, n - 1) \ steps[n].drops) \X {d})
    BY <1>2 DEF SetupFails
  <2>2. PICK steps \in SetupSteps(c) : \E n \in 1 .. Len(steps) :
           taken' = taken \cup ((Takings(steps, n - 1) \ steps[n].drops) \X {d})
    BY <2>1
  <2>3. PICK n \in 1 .. Len(steps) :
           taken' = taken \cup ((Takings(steps, n - 1) \ steps[n].drops) \X {d})
    BY <2>2
  <2>4. Len(steps) = 6 /\ \A m \in 0 .. 6 : Takings(steps, m) \subseteq Tidy
    BY X86AdaptTakes
  <2>5. n - 1 \in 0 .. 6
    BY <2>4
  <2>. QED  BY <2>3, <2>4, <2>5
<1>3. ASSUME NEW d, SourceClose(d) PROVE taken' \subseteq taken
  BY <1>3 DEF SourceClose
<1>4. CASE SourceInit \/ SourceInitFails \/ SourceFini
  BY <1>4 DEF SourceInit, SourceInitFails, SourceFini
<1>5. CASE UNCHANGED counters
  BY <1>5 DEF counters
<1>6. CASE UNCHANGED vars
  BY <1>5, <1>6 DEF vars, counters
<1>. QED
  BY <1>1, <1>2, <1>3, <1>4, <1>5, <1>6
     DEF Next, NewAccess, AccessInit, AccessInitThrows, AccessDies, GetThrows, AccessMove,
         AccessSwap, Get, CounterDies, CounterMove, CounterSwap

\* In every program, a setup() of x86_adapt.c that fails, at whatever step,
\* and every close() give the device and the reader_def back: once no counter
\* is open, nothing is held.  (A call in a list may still be: NoStrayCall.)
THEOREM X86AdaptReturnsAll == Spec => [](source = "x86_adapt" => ClosedMeansReturned)
<1>1. Init => TidyInv /\ OnlyTidy
  BY DEF Init, TidyInv, NothingLost, OnlyTidy
<1>2. TidyInv /\ OnlyTidy => (source = "x86_adapt" => ClosedMeansReturned)
  BY DEF TidyInv, NothingLost, OnlyTidy, ClosedMeansReturned
<1>. QED  BY <1>1, <1>2, TidyInvNext, OnlyTidyNext, PTL DEF Spec

-----------------------------------------------------------------------------
(* The life of a source, for programs that keep to OneOwner *)

Held == \A d \in open : Needs \X {d} \subseteq taken

Life ==
    /\ InitOwned
    /\ open # {} => up

Listed ==
    source = "likwid" =>
        /\ listed \subseteq added \cup {FirstCpu}
        /\ up => Library \subseteq parts
        /\ \A d \in open : cpu[d] \in listed

LifeInv ==
    /\ source \in Sources
    /\ cpu \in [Setups -> Cpus]
    /\ Held /\ Life /\ Listed

LEMMA LifeInvInit == Init => LifeInv
<1>. SUFFICES ASSUME Init PROVE LifeInv
  OBVIOUS
<1>1. Held /\ Life /\ Listed
  BY DEF Init, Held, Life, Listed, InitOwned, NoAccess
<1>. QED  BY <1>1, FirstCpuAssumption DEF Init, LifeInv

\* Everything a counter depends on stays when a step opens and closes none
\* and leaves the source alone.
LEMMA LifeUndisturbed ==
    ASSUME LifeInv, UNCHANGED <<source, up, library, counters>>, InitOwned'
    PROVE  LifeInv'
<1>1. UNCHANGED <<parts, listed, added, taken, open, cpu>>
  BY DEF library, counters
<1>2. Needs' = Needs
  BY DEF Needs
<1>. QED  BY <1>1, <1>2 DEF LifeInv, Held, Life, Listed

LEMMA SetupReturnsKeeps ==
    ASSUME LifeInv, NEW d \in Setups, SetupReturns(d), up,
           UNCHANGED <<source, up, access>>
    PROVE  LifeInv'
<1>a. PICK c \in Cpus : \E steps \in SetupSteps(c) :
          /\ Done(steps, Len(steps), c, d)
          /\ taken' = taken \cup (Takings(steps, Len(steps)) \X {d})
          /\ cpu' = [cpu EXCEPT ![d] = c]
  BY DEF SetupReturns
<1>1. PICK steps \in SetupSteps(c) :
          /\ Done(steps, Len(steps), c, d)
          /\ taken' = taken \cup (Takings(steps, Len(steps)) \X {d})
          /\ cpu' = [cpu EXCEPT ![d] = c]
  BY <1>a
<1>2. /\ Unused(d)
      /\ open' = open \cup {d}
      /\ Needs' = Needs
  BY DEF SetupReturns, Needs
<1>3. Held'
  <2>1. Needs \subseteq Takings(steps, Len(steps))
    BY TakesNeeds DEF LifeInv
  <2>2. Needs \X {d} \subseteq taken' /\ taken \subseteq taken'
    BY <1>1, <2>1
  <2>. QED  BY <1>2, <2>2 DEF LifeInv, Held
<1>4. Life'
  BY <1>2 DEF LifeInv, Life, InitOwned
<1>5. cpu' \in [Setups -> Cpus]
  BY <1>1 DEF LifeInv
<1>6. Listed'
  <2>1. SUFFICES ASSUME source = "likwid" PROVE Listed'
    BY DEF Listed
  <2>2. Len(steps) \in 0 .. Len(steps)
    <3>1. steps = Likwid(c)
      BY <2>1 DEF SetupSteps
    <3>2. Len(steps) = 3 \/ Len(steps) = 5
      BY <3>1 DEF Likwid, Step
    <3>. QED  BY <3>2
  <2>3. /\ listed' \subseteq added' \cup {FirstCpu}
        /\ listed \subseteq listed' /\ c \in listed'
    BY <1>1, <2>1, <2>2, ListsAddedCpus DEF LifeInv, Listed
  <2>4. parts' = parts
    BY <1>1 DEF Done
  <2>5. \A e \in open' : cpu'[e] \in listed'
    <3>1. cpu'[d] = c /\ \A e \in open \ {d} : cpu'[e] = cpu[e]
      BY <1>1 DEF LifeInv
    <3>. QED  BY <1>2, <2>1, <2>3, <3>1 DEF LifeInv, Listed
  <2>. QED  BY <2>1, <2>3, <2>4, <2>5 DEF LifeInv, Listed
<1>. QED  BY <1>3, <1>4, <1>5, <1>6 DEF LifeInv

LEMMA SetupFailsKeeps ==
    ASSUME LifeInv, NEW d \in Setups, SetupFails(d), UNCHANGED <<source, up, access>>
    PROVE  LifeInv'
<1>a. PICK c \in Cpus : \E steps \in SetupSteps(c) : \E n \in 1 .. Len(steps) :
          /\ Done(steps, n - 1, c, d)
          /\ taken' = taken \cup ((Takings(steps, n - 1) \ steps[n].drops) \X {d})
  BY DEF SetupFails
<1>b. PICK steps \in SetupSteps(c) : \E n \in 1 .. Len(steps) :
          /\ Done(steps, n - 1, c, d)
          /\ taken' = taken \cup ((Takings(steps, n - 1) \ steps[n].drops) \X {d})
  BY <1>a
<1>1. PICK n \in 1 .. Len(steps) :
          /\ Done(steps, n - 1, c, d)
          /\ taken' = taken \cup ((Takings(steps, n - 1) \ steps[n].drops) \X {d})
  BY <1>b
<1>2. UNCHANGED <<open, cpu>> /\ taken \subseteq taken' /\ Needs' = Needs
  BY <1>1 DEF SetupFails, Needs
<1>3. Held' /\ Life'
  BY <1>2 DEF LifeInv, Held, Life, InitOwned
<1>4. Listed'
  <2>1. SUFFICES ASSUME source = "likwid" PROVE Listed'
    BY DEF Listed
  <2>2. n - 1 \in 0 .. Len(steps)
    <3>1. steps = Likwid(c)
      BY <2>1 DEF SetupSteps
    <3>2. Len(steps) = 3 \/ Len(steps) = 5
      BY <3>1 DEF Likwid, Step
    <3>. QED  BY <3>2
  <2>3. /\ listed' \subseteq added' \cup {FirstCpu}
        /\ listed \subseteq listed'
    BY <1>1, <2>1, <2>2, ListsAddedCpus DEF LifeInv, Listed
  <2>4. parts' = parts
    BY <1>1 DEF Done
  <2>. QED  BY <1>2, <2>1, <2>3, <2>4 DEF LifeInv, Listed
<1>. QED  BY <1>2, <1>3, <1>4 DEF LifeInv

\* Closing d: every handle given back was d's own.
LEMMA SourceCloseKeeps ==
    ASSUME LifeInv, NEW d \in Setups, SourceClose(d),
           UNCHANGED <<source, up, library, access>>
    PROVE  LifeInv'
<1>1. /\ taken' = taken \ (Returned \X {d})
      /\ open' = open \ {d} /\ UNCHANGED <<cpu, parts, listed, added>>
      /\ Needs' = Needs
  BY DEF SourceClose, library, Needs
<1>2. Held'
  BY <1>1 DEF LifeInv, Held
<1>3. Life'
  BY <1>1 DEF LifeInv, Life, InitOwned
<1>4. Listed'
  BY <1>1 DEF LifeInv, Listed
<1>. QED  BY <1>1, <1>2, <1>3, <1>4 DEF LifeInv

\* init(): no object has initialised the source, so no counter is open.
LEMMA InitKeeps ==
    ASSUME OneOwner, ObjInv, LifeInv, NEW a \in Accesses,
           AccessInit(a) \/ AccessInitThrows(a), UNCHANGED source
    PROVE  LifeInv'
<1>1. ~up /\ open = {} /\ \A b \in Accesses : ~access[b].initialized
  BY DEF AccessInit, AccessInitThrows, Initializes, LifeInv, Life, InitOwned
<1>2. open' = {} /\ cpu' = cpu /\ added' = added
  BY <1>1 DEF AccessInit, AccessInitThrows, SourceInit, SourceInitFails
<1>3. InitOwned'
  <2>1. CASE AccessInit(a)
    <3>1. up' /\ access' = [access EXCEPT ![a].initialized = TRUE]
      BY <2>1 DEF AccessInit, SourceInit
    <3>2. access'[a].initialized /\ \A b \in Accesses \ {a} : access'[b] = access[b]
      BY <3>1 DEF ObjInv, Objects
    <3>. QED  BY <1>1, <3>1, <3>2 DEF InitOwned
  <2>2. CASE AccessInitThrows(a)
    BY <1>1, <2>2 DEF AccessInitThrows, SourceInitFails, InitOwned
  <2>. QED  BY <2>1, <2>2
<1>4. Listed'
  <2>1. SUFFICES ASSUME source = "likwid" PROVE Listed'
    BY DEF Listed
  <2>2. listed' \subseteq added \cup {FirstCpu}
    BY <2>1 DEF AccessInit, AccessInitThrows, SourceInit, SourceInitFails, LikwidUp,
                LifeInv, Listed
  <2>3. up' => Library \subseteq parts'
    <3>1. CASE AccessInit(a)
      <4>1. parts' = parts \cup ({LikwidInit[i] : i \in 1 .. 5} \cap Library)
        BY <2>1, <3>1 DEF AccessInit, SourceInit, LikwidUp
      <4>2. LikwidInit[1] = "topology" /\ LikwidInit[2] = "hpm" /\ LikwidInit[3] = "power"
        BY DEF LikwidInit
      <4>. QED  BY <4>1, <4>2 DEF Library
    <3>2. CASE AccessInitThrows(a)
      BY <1>1, <3>2 DEF AccessInitThrows, SourceInitFails
    <3>. QED  BY <3>1, <3>2
  <2>. QED  BY <1>2, <2>2, <2>3 DEF Listed
<1>. QED  BY <1>2, <1>3, <1>4 DEF LifeInv, Life, Held

\* ~AccessSource(): a fini() finds all counters closed.
LEMMA DiesKeeps ==
    ASSUME OneOwner, ObjInv, LifeInv, NEW a \in Accesses, AccessDies(a), UNCHANGED source
    PROVE  LifeInv'
<1>1. ~access'[a].initialized /\ \A b \in Accesses \ {a} : access'[b] = access[b]
  BY DEF AccessDies, NoAccess, ObjInv, Objects
<1>2. CASE access[a].initialized
  <2>1. open = {}
    BY <1>2 DEF AccessDies, ObjInv, Owned
  <2>2. SourceFini
    BY <1>2 DEF AccessDies
  <2>3. open' = {} /\ ~up' /\ cpu' = cpu /\ added' = added
    BY <2>1, <2>2 DEF SourceFini
  <2>4. InitOwned'
    BY <1>1, <1>2, <2>3 DEF InitOwned, LifeInv, Life
  <2>5. Listed'
    BY <2>2, <2>3 DEF SourceFini, Listed
  <2>. QED  BY <2>3, <2>4, <2>5 DEF LifeInv, Life, Held
<1>3. CASE ~access[a].initialized
  <2>1. UNCHANGED <<source, up, library, counters>>
    BY <1>3 DEF AccessDies
  <2>2. up' = up
    BY <2>1
  <2>3. InitOwned'
    BY <1>1, <1>3, <2>2 DEF InitOwned, LifeInv, Life
  <2>. QED  BY <2>1, <2>3, LifeUndisturbed
<1>. QED  BY <1>2, <1>3

\* Objects are made, moved and swapped: the initialisation goes with them.
LEMMA MovesKeep ==
    ASSUME ObjInv, LifeInv, UNCHANGED source,
           NEW a \in Accesses, NEW b \in Accesses,
           NewAccess(a) \/ AccessMove(a, b) \/ AccessSwap(a, b)
    PROVE  LifeInv'
<1>1. UNCHANGED <<source, up, library, counters>>
  BY DEF NewAccess, AccessMove, AccessSwap
<1>2. up' = up
  BY <1>1
<1>3. CASE NewAccess(a)
  <2>1. /\ ~access[a].initialized /\ ~access'[a].initialized
        /\ \A e \in Accesses \ {a} : access'[e] = access[e]
    BY <1>3 DEF NewAccess, ObjInv, Objects, WellFormed
  <2>2. InitOwned'
    BY <1>2, <2>1 DEF InitOwned, LifeInv, Life
  <2>. QED  BY <1>1, <2>2, LifeUndisturbed
<1>4. CASE AccessMove(a, b)
  <2>1. /\ a # b /\ ~access[b].initialized
        /\ access'[b] = access[a] /\ ~access'[a].initialized
        /\ \A e \in Accesses \ {a, b} : access'[e] = access[e]
    BY <1>4 DEF AccessMove, Emptied, ObjInv, Objects, WellFormed
  <2>2. InitOwned'
    BY <1>2, <2>1 DEF InitOwned, LifeInv, Life
  <2>. QED  BY <1>1, <2>2, LifeUndisturbed
<1>5. CASE AccessSwap(a, b)
  <2>1. /\ access'[b] = access[a] /\ access'[a] = access[b]
        /\ \A e \in Accesses \ {a, b} : access'[e] = access[e]
    BY <1>5 DEF AccessSwap, ObjInv, Objects
  <2>2. InitOwned'
    BY <1>2, <2>1 DEF InitOwned, LifeInv, Life
  <2>. QED  BY <1>1, <2>2, LifeUndisturbed
<1>. QED  BY <1>3, <1>4, <1>5

LEMMA LifeInvNext == ASSUME OneOwner, ObjInv, LifeInv, [Next]_vars PROVE LifeInv'
<1>1. CASE UNCHANGED vars
  <2>1. UNCHANGED <<source, up, library, counters, access>>
    BY <1>1 DEF vars
  <2>2. InitOwned'
    BY <2>1 DEF InitOwned, LifeInv, Life
  <2>. QED  BY <2>1, <2>2, LifeUndisturbed
<1>2. CASE Next
  <2>0. UNCHANGED source
    BY <1>2 DEF Next
  <2>1. CASE \E a \in Accesses : AccessInit(a) \/ AccessInitThrows(a)
    BY <2>0, <2>1, InitKeeps
  <2>2. CASE \E a \in Accesses : AccessDies(a)
    BY <2>0, <2>2, DiesKeeps
  <2>3. CASE \E a \in Accesses, b \in Accesses :
               NewAccess(a) \/ AccessMove(a, b) \/ AccessSwap(a, b)
    BY <2>0, <2>3, MovesKeep
  <2>4. CASE \E a \in Accesses : GetThrows(a)
    BY <2>0, <2>4, SetupFailsKeeps DEF GetThrows
  <2>5. CASE \E a \in Accesses, o \in Counters : Get(a, o)
    <3>1. PICK a \in Accesses, o \in Counters : Get(a, o)
      BY <2>5
    <3>2. PICK d \in Setups : SetupReturns(d)
      BY <3>1 DEF Get
    <3>3. up /\ UNCHANGED <<source, up, access>>
      BY <2>0, <3>1 DEF Get, LifeInv, Life, InitOwned
    <3>. QED  BY <3>2, <3>3, SetupReturnsKeeps
  <2>6. CASE \E o \in Counters : CounterDies(o)
    <3>1. PICK o \in Counters : CounterDies(o)
      BY <2>6
    <3>2. UNCHANGED <<source, up, library, access>>
      BY <2>0, <3>1 DEF CounterDies
    <3>3. CASE object[o].set
      <4>1. SourceClose(object[o].def) /\ object[o].def \in Setups
        BY <3>1, <3>3 DEF CounterDies, ObjInv, WellFormed
      <4>. QED  BY <3>2, <4>1, SourceCloseKeeps
    <3>4. CASE ~object[o].set
      <4>1. UNCHANGED counters
        BY <3>1, <3>4 DEF CounterDies
      <4>2. InitOwned'
        BY <3>2 DEF InitOwned, LifeInv, Life
      <4>. QED  BY <3>2, <4>1, <4>2, LifeUndisturbed
    <3>. QED  BY <3>3, <3>4
  <2>7. CASE \E o, p \in Counters : CounterMove(o, p) \/ CounterSwap(o, p)
    <3>1. UNCHANGED <<source, up, library, counters, access>>
      BY <2>0, <2>7 DEF CounterMove, CounterSwap
    <3>2. InitOwned'
      BY <3>1 DEF InitOwned, LifeInv, Life
    <3>. QED  BY <3>1, <3>2, LifeUndisturbed
  <2>. QED  BY <1>2, <2>1, <2>2, <2>3, <2>4, <2>5, <2>6, <2>7 DEF Next
<1>. QED  BY <1>1, <1>2

LEMMA LifeInvariance == ASSUME OneOwner PROVE Spec => [](ObjInv /\ LifeInv)
<1>1. Init => ObjInv /\ LifeInv
  BY ObjInvInit, LifeInvInit
<1>2. ObjInv /\ LifeInv /\ [Next]_vars => (ObjInv /\ LifeInv)'
  BY ObjInvNext, LifeInvNext
<1>. QED  BY <1>1, <1>2, PTL DEF Spec

\* AccessSource: init() and fini() are called in turn, for programs that
\* initialise a source through one object and close its counters before.
THEOREM InitOwnedCorrect == ASSUME OneOwner PROVE Spec => []InitOwned
<1>1. LifeInv => InitOwned
  BY DEF LifeInv, Life
<1>. QED  BY <1>1, LifeInvariance, PTL

\* For these programs a read() of an open counter finds its handles, its
\* source and its CPU, for every source: whatever setup() has failed before at
\* whatever step, and whatever objects were moved, swapped and destroyed.
THEOREM ReadFindsAllCorrect == ASSUME OneOwner PROVE Spec => []ReadFindsAll
<1>1. LifeInv => ReadFindsAll
  BY DEF LifeInv, Life, Held, Listed, ReadFindsAll
<1>. QED  BY <1>1, LifeInvariance, PTL

-----------------------------------------------------------------------------
(* Types *)

StepNames == {"event", "perf_event_open", "malloc", "first_read", "lookup", "get_device",
              "unit", "create", "unit_device", "test_cpu", "tree", "die", "HPMaddThread",
              "add_likwid_initialize", "power_read"}
Steps == [name : StepNames, takes : SUBSET Kinds, drops : SUBSET Kinds]
AccessObjects == [alive : BOOLEAN, set : BOOLEAN, initialized : BOOLEAN]
CounterObjects == [alive : BOOLEAN, set : BOOLEAN, def : Setups \cup {NoSetup}]

\* Every way through setup() is a sequence of steps that take handles of the
\* five kinds.
LEMMA SetupStepsTypes ==
    ASSUME source \in Sources, NEW c \in Cpus
    PROVE  SetupSteps(c) \subseteq Seq(Steps)
<1>1. \A name \in StepNames : \A takes, drops \in SUBSET Kinds : Step(name, takes, drops) \in Steps
  BY DEF Step, Steps
<1>. /\ {} \in SUBSET Kinds /\ {"fd"} \in SUBSET Kinds /\ {"dev"} \in SUBSET Kinds
     /\ {"dev0"} \in SUBSET Kinds /\ {"tree"} \in SUBSET Kinds /\ {"def"} \in SUBSET Kinds
     /\ {"def", "dev"} \in SUBSET Kinds
  BY DEF Kinds
<1>2. Perf \in Seq(Steps)
  <2>1. /\ Step("event", {}, {}) \in Steps /\ Step("perf_event_open", {"fd"}, {}) \in Steps
        /\ Step("malloc", {"def"}, {}) \in Steps /\ Step("first_read", {}, {"fd"}) \in Steps
    BY <1>1 DEF StepNames
  <2>. QED  BY <2>1 DEF Perf
<1>3. X86Adapt \in Seq(Steps)
  <2>1. /\ Step("lookup", {}, {}) \in Steps /\ Step("get_device", {"dev"}, {}) \in Steps
        /\ Step("unit", {}, {"dev"}) \in Steps /\ Step("first_read", {}, {"dev"}) \in Steps
        /\ Step("malloc", {"def"}, {}) \in Steps /\ Step("create", {}, {"def", "dev"}) \in Steps
    BY <1>1 DEF StepNames
  <2>. QED  BY <2>1 DEF X86Adapt
<1>4. DefaultUnit \in Seq(Steps) /\ Fam23Create \in Seq(Steps)
  <2>1. /\ Step("unit_device", {"dev0"}, {}) \in Steps /\ Step("unit", {}, {}) \in Steps
        /\ Step("first_read", {}, {}) \in Steps /\ Step("malloc", {"def"}, {}) \in Steps
        /\ Step("create", {}, {"def"}) \in Steps
    BY <1>1 DEF StepNames
  <2>. QED  BY <2>1 DEF DefaultUnit, Fam23Create
<1>5. Fam23Package \in Seq(Steps)
  <2>1. /\ Step("test_cpu", {}, {}) \in Steps /\ Step("tree", {"tree"}, {}) \in Steps
        /\ Step("die", {}, {}) \in Steps /\ Step("get_device", {"dev"}, {}) \in Steps
    BY <1>1 DEF StepNames
  <2>2. <<Step("test_cpu", {}, {}), Step("tree", {"tree"}, {}), Step("die", {}, {}),
          Step("get_device", {"dev"}, {})>> \in Seq(Steps)
    BY <2>1
  <2>. QED  BY <1>4, <2>2 DEF Fam23Package
<1>6. Fam23Core \in Seq(Steps)
  <2>1. Step("test_cpu", {}, {}) \in Steps /\ Step("get_device", {"dev"}, {}) \in Steps
    BY <1>1 DEF StepNames
  <2>2. <<Step("test_cpu", {}, {}), Step("get_device", {"dev"}, {})>> \in Seq(Steps)
    BY <2>1
  <2>. QED  BY <1>4, <2>2 DEF Fam23Core
<1>7. Likwid(c) \in Seq(Steps)
  <2>1. /\ Step("HPMaddThread", {}, {}) \in Steps /\ Step("add_likwid_initialize", {}, {}) \in Steps
        /\ Step("power_read", {}, {}) \in Steps /\ Step("malloc", {"def"}, {}) \in Steps
        /\ Step("create", {}, {"def"}) \in Steps
    BY <1>1 DEF StepNames
  <2>2. <<Step("HPMaddThread", {}, {}), Step("add_likwid_initialize", {}, {})>> \in Seq(Steps)
    BY <2>1
  <2>3. <<Step("power_read", {}, {}), Step("malloc", {"def"}, {}), Step("create", {}, {"def"})>> \in Seq(Steps)
    BY <2>1
  <2>. QED  BY <2>2, <2>3 DEF Likwid
<1>. QED  BY <1>2, <1>3, <1>5, <1>6, <1>7 DEF SetupSteps, Sources

LEMMA TakingsTypes ==
    ASSUME NEW steps \in Seq(Steps), NEW n \in 0 .. Len(steps)
    PROVE  Takings(steps, n) \subseteq Kinds
<1>1. ASSUME NEW i \in 1 .. n PROVE steps[i].takes \subseteq Kinds
  <2>1. steps[i] \in Steps
    OBVIOUS
  <2>. QED  BY <2>1 DEF Steps
<1>. QED  BY <1>1 DEF Takings

\* What the first steps of a setup() leave in the library and the source.
LEMMA DoneTypes ==
    ASSUME TypeOK, NEW steps, NEW n, NEW c \in Cpus, NEW d, Done(steps, n, c, d)
    PROVE  /\ unitKnown' \in BOOLEAN /\ parts' = parts
           /\ added' \subseteq Cpus /\ listed' \subseteq Cpus
BY DEF TypeOK, Done

LEMMA SetupTypes ==
    ASSUME TypeOK, NEW d \in Setups, SetupReturns(d) \/ SetupFails(d)
    PROVE  /\ unitKnown' \in BOOLEAN /\ parts' = parts
           /\ added' \subseteq Cpus /\ listed' \subseteq Cpus
           /\ taken' \subseteq Kinds \X Setups
           /\ watched' \subseteq Setups /\ stray' \subseteq Setups /\ open' \subseteq Setups
           /\ cpu' \in [Setups -> Cpus]
<1>1. CASE SetupReturns(d)
  <2>1. PICK c \in Cpus : \E steps \in SetupSteps(c) :
           /\ Done(steps, Len(steps), c, d)
           /\ taken' = taken \cup (Takings(steps, Len(steps)) \X {d})
           /\ cpu' = [cpu EXCEPT ![d] = c]
    BY <1>1 DEF SetupReturns
  <2>2. PICK steps \in SetupSteps(c) :
           /\ Done(steps, Len(steps), c, d)
           /\ taken' = taken \cup (Takings(steps, Len(steps)) \X {d})
    BY <2>1
  <2>3. Takings(steps, Len(steps)) \subseteq Kinds
    <3>1. steps \in Seq(Steps) /\ Len(steps) \in 0 .. Len(steps)
      BY SetupStepsTypes DEF TypeOK
    <3>. QED  BY <3>1, TakingsTypes
  <2>4. taken' \subseteq Kinds \X Setups
    BY <2>2, <2>3 DEF TypeOK
  <2>. QED  BY <1>1, <2>1, <2>2, <2>4, DoneTypes DEF SetupReturns, Created, TypeOK
<1>2. CASE SetupFails(d)
  <2>1. PICK c \in Cpus : \E steps \in SetupSteps(c) : \E n \in 1 .. Len(steps) :
           /\ Done(steps, n - 1, c, d)
           /\ taken' = taken \cup ((Takings(steps, n - 1) \ steps[n].drops) \X {d})
    BY <1>2 DEF SetupFails
  <2>2. PICK steps \in SetupSteps(c) : \E n \in 1 .. Len(steps) :
           /\ Done(steps, n - 1, c, d)
           /\ taken' = taken \cup ((Takings(steps, n - 1) \ steps[n].drops) \X {d})
    BY <2>1
  <2>3. PICK n \in 1 .. Len(steps) :
           /\ Done(steps, n - 1, c, d)
           /\ taken' = taken \cup ((Takings(steps, n - 1) \ steps[n].drops) \X {d})
    BY <2>2
  <2>4. Takings(steps, n - 1) \subseteq Kinds
    <3>1. steps \in Seq(Steps) /\ n - 1 \in 0 .. Len(steps)
      BY SetupStepsTypes DEF TypeOK
    <3>. QED  BY <3>1, TakingsTypes
  <2>5. taken' \subseteq Kinds \X Setups
    BY <2>3, <2>4 DEF TypeOK
  <2>. QED  BY <1>2, <2>3, <2>5, DoneTypes DEF SetupFails, CreateFails, TypeOK
<1>. QED  BY <1>1, <1>2

\* init() and fini()
LEMMA LibraryTypes ==
    ASSUME TypeOK, SourceInit \/ SourceInitFails \/ SourceFini
    PROVE  /\ up' \in BOOLEAN /\ watched' = {} /\ stray' = {}
           /\ parts' \subseteq Library /\ listed' \subseteq Cpus
           /\ UNCHANGED <<added, unitKnown, taken, open, cpu>>
<1>1. ASSUME NEW n, LikwidUp(n) PROVE parts' \subseteq Library /\ listed' \subseteq Cpus
  BY <1>1, FirstCpuAssumption DEF LikwidUp, TypeOK
<1>. QED  BY <1>1 DEF SourceInit, SourceInitFails, SourceFini, TypeOK

LEMMA ObjectsTypeNext == TypeOK /\ [Next]_vars => TypeOK'
<1>. SUFFICES ASSUME TypeOK, [Next]_vars PROVE TypeOK'
  OBVIOUS
<1>1. source' = source
  BY DEF Next, vars
<1>2. /\ access \in [Accesses -> AccessObjects]
      /\ object \in [Counters -> CounterObjects]
  BY DEF TypeOK, AccessObjects, CounterObjects
<1>3. CASE UNCHANGED vars
  BY <1>3 DEF TypeOK, vars, library, counters
<1>4. ASSUME NEW a \in Accesses,
             \/ NewAccess(a)
             \/ \E b \in Accesses : AccessMove(a, b) \/ AccessSwap(a, b)
      PROVE  TypeOK'
  <2>1. access' \in [Accesses -> AccessObjects]
    <3>1. Emptied(access[a]) \in AccessObjects
      BY <1>2 DEF Emptied, AccessObjects
    <3>2. [alive |-> TRUE, set |-> TRUE, initialized |-> FALSE] \in AccessObjects
      BY DEF AccessObjects
    <3>. QED  BY <1>2, <1>4, <3>1, <3>2 DEF NewAccess, AccessMove, AccessSwap
  <2>2. UNCHANGED <<up, library, counters, object>>
    BY <1>4 DEF NewAccess, AccessMove, AccessSwap
  <2>. QED  BY <1>1, <2>1, <2>2 DEF TypeOK, AccessObjects, library, counters
<1>5. ASSUME NEW a \in Accesses, AccessInit(a) \/ AccessInitThrows(a) \/ AccessDies(a)
      PROVE  TypeOK'
  <2>1. access' \in [Accesses -> AccessObjects] /\ object' = object
    <3>1. [access[a] EXCEPT !.initialized = TRUE] \in AccessObjects
      BY <1>2 DEF AccessObjects
    <3>2. NoAccess \in AccessObjects
      BY DEF NoAccess, AccessObjects
    <3>. QED  BY <1>2, <1>5, <3>1, <3>2 DEF AccessInit, AccessInitThrows, AccessDies
  <2>2. CASE SourceInit \/ SourceInitFails \/ SourceFini
    BY <1>1, <2>1, <2>2, LibraryTypes DEF TypeOK, AccessObjects
  <2>3. CASE UNCHANGED <<up, library, counters>>
    BY <1>1, <2>1, <2>3 DEF TypeOK, AccessObjects, library, counters
  <2>. QED  BY <1>5, <2>2, <2>3 DEF AccessInit, AccessInitThrows, AccessDies
<1>6. ASSUME NEW a \in Accesses, GetThrows(a) PROVE TypeOK'
  BY <1>1, <1>6, SetupTypes DEF GetThrows, TypeOK
<1>7. ASSUME NEW a \in Accesses, NEW o \in Counters, Get(a, o) PROVE TypeOK'
  <2>1. PICK d \in Setups :
           /\ SetupReturns(d)
           /\ object' = [object EXCEPT ![o] = [alive |-> TRUE, set |-> TRUE, def |-> d]]
    BY <1>7 DEF Get
  <2>2. object' \in [Counters -> [alive : BOOLEAN, set : BOOLEAN, def : Setups \cup {NoSetup}]]
    BY <2>1 DEF TypeOK
  <2>. QED  BY <1>1, <1>7, <2>1, <2>2, SetupTypes DEF Get, TypeOK
<1>8. ASSUME NEW o \in Counters, NEW p \in Counters, CounterMove(o, p) \/ CounterSwap(o, p)
      PROVE  TypeOK'
  <2>1. object' \in [Counters -> CounterObjects]
    <3>1. [object[o] EXCEPT !.set = FALSE] \in CounterObjects
      BY <1>2 DEF CounterObjects
    <3>. QED  BY <1>2, <1>8, <3>1 DEF CounterMove, CounterSwap
  <2>2. UNCHANGED <<up, library, counters, access>>
    BY <1>8 DEF CounterMove, CounterSwap
  <2>. QED  BY <1>1, <2>1, <2>2 DEF TypeOK, CounterObjects, library, counters
<1>9. ASSUME NEW o \in Counters, CounterDies(o) PROVE TypeOK'
  <2>1. object' \in [Counters -> [alive : BOOLEAN, set : BOOLEAN, def : Setups \cup {NoSetup}]]
    BY <1>9 DEF CounterDies, NoObject, TypeOK
  <2>2. /\ taken' \subseteq taken /\ watched' \subseteq watched /\ open' \subseteq open
        /\ stray' = stray
        /\ cpu' = cpu
    BY <1>9 DEF CounterDies, SourceClose, counters
  <2>3. UNCHANGED <<up, library, access>>
    BY <1>9 DEF CounterDies
  <2>. QED  BY <1>1, <2>1, <2>2, <2>3 DEF TypeOK, library
<1>. QED  BY <1>3, <1>4, <1>5, <1>6, <1>7, <1>8, <1>9 DEF Next

\* Whatever way through setup() is taken and wherever it fails, what is held
\* is a handle of a kind the sources know, under the name of its setup().
THEOREM ObjectsTypeCorrect == Spec => []TypeOK
<1>1. Init => TypeOK
  <2>1. NoAccess \in AccessObjects /\ NoObject \in CounterObjects
    BY DEF NoAccess, NoObject, AccessObjects, CounterObjects
  <2>2. ASSUME Init
        PROVE  /\ access \in [Accesses -> AccessObjects]
               /\ object \in [Counters -> CounterObjects]
               /\ cpu \in [Setups -> Cpus]
    BY <2>1, <2>2, FirstCpuAssumption DEF Init
  <2>. QED  BY <2>2 DEF Init, TypeOK, AccessObjects, CounterObjects
<1>. QED  BY <1>1, ObjectsTypeNext, PTL DEF Spec
=============================================================================
