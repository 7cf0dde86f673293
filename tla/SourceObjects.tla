---------------------------- MODULE SourceObjects ----------------------------
(***************************************************************************)
(* Who owns what: the objects of x86_energy.hpp on top of init, setup,     *)
(* close and fini of the sources perf.c, x86_adapt.c, x86_adapt_fam23.c    *)
(* and likwid.c.  An AccessSource owns the initialisation of its source, a *)
(* SourceCounter owns one counter; both are moved and swapped.  A counter  *)
(* in turn owns a reader_def, a descriptor or device, and a place in the   *)
(* overflow thread's list.                                                 *)
(* One program thread, as in test.cpp; the threads' view of the list is in *)
(* OverflowThread.  Every call of setup() has a name of its own (d), and   *)
(* what it takes is a pair <<kind, d>>, so that a leak is a pair that      *)
(* stays.  Texts are left out, among them the buffer of getline() in       *)
(* perf.c, and malloc() where its result is not looked at does not fail.   *)
(* The close(fd) with which x86_adapt.c precedes three of its put_device   *)
(* calls is left out, too: the descriptor is the library's.                *)
(***************************************************************************)
EXTENDS Naturals, Sequences

CONSTANTS Accesses,     \* places for AccessSource objects
          Counters,     \* places for SourceCounter objects
          Setups,       \* bound: names for calls of setup()
          NoSetup,      \* what source_counter_ holds in a place never used
          Cpus,         \* the test CPUs of the sockets
          FirstCpu,     \* CPU 0, which likwid's init() lists
          OneOwner      \* the program initialises a source through one object
                        \* and closes its counters before

ASSUME NoSetupAssumption == NoSetup \notin Setups
ASSUME FirstCpuAssumption == FirstCpu \in Cpus
ASSUME OneOwnerAssumption == OneOwner \in BOOLEAN

Sources == {"perf", "x86_adapt", "x86_adapt_fam23", "likwid"}
Kinds == {"fd", "dev", "dev0", "tree", "def"}
Library == {"topology", "hpm", "power"}

VARIABLES source,       \* the source the program uses
          up,           \* init() has succeeded, fini() was not called since
          parts,        \* likwid: the parts of the library that are up
          listed,       \* likwid: initialized_cpus
          added,        \* likwid: CPUs HPMaddThread() was called for
          unitKnown,    \* fam23: default_unit > 0.0
          taken,        \* <<kind, d>>: taken by setup d and not given back
          watched,      \* the calls in the lists of the overflow threads
          stray,        \* history: those that a failing create left there
          open,         \* setup() has returned it, close() was not called
          cpu,          \* cpu[d]: the CPU of a counter
          access,       \* access[a]: an AccessSource
          object        \* object[o]: a SourceCounter

library == <<parts, listed, added, unitKnown>>
counters == <<taken, watched, stray, open, cpu>>
vars == <<source, up, library, counters, access, object>>

NoAccess == [alive |-> FALSE, set |-> FALSE, initialized |-> FALSE]
NoObject == [alive |-> FALSE, set |-> FALSE, def |-> NoSetup]

Init ==
    /\ source \in Sources
    /\ up = FALSE
    /\ parts = {} /\ listed = {} /\ added = {} /\ unitKnown = FALSE
    /\ taken = {} /\ watched = {} /\ stray = {} /\ open = {}
    /\ cpu = [d \in Setups |-> FirstCpu]
    /\ access = [a \in Accesses |-> NoAccess]
    /\ object = [o \in Counters |-> NoObject]

-----------------------------------------------------------------------------
(* setup(): what each step takes, and what it gives back when it fails *)
Step(name, takes, drops) == [name |-> name, takes |-> takes, drops |-> drops]

Perf == <<Step("event", {}, {}),
          Step("perf_event_open", {"fd"}, {}),
          Step("malloc", {"def"}, {}),
          Step("first_read", {}, {"fd"})>>

\* A bug form: a failing setup() leaves the device.
X86AdaptLosing == <<Step("lookup", {}, {}),
                    Step("get_device", {"dev"}, {}),
                    Step("unit", {}, {}),
                    Step("first_read", {}, {}),
                    Step("malloc", {"def"}, {}),
                    Step("create", {}, {"def", "dev"})>>

\* Where a failing step closes the descriptor and puts the device, the put counts.
X86Adapt == <<Step("lookup", {}, {}),
              Step("get_device", {"dev"}, {}),
              Step("unit", {}, {"dev"}),
              Step("first_read", {}, {"dev"}),
              Step("malloc", {"def"}, {}),
              Step("create", {}, {"def", "dev"})>>

\* get_default_unit() of x86_adapt_fam23.c gets device 0 and keeps it.
DefaultUnit ==
    IF unitKnown THEN <<>>
    ELSE <<Step("unit_device", {"dev0"}, {}), Step("unit", {}, {})>>

Fam23Create == <<Step("first_read", {}, {}),
                 Step("malloc", {"def"}, {}),
                 Step("create", {}, {"def"})>>

\* A package is looked up in a tree of its own, a core is not.
Fam23Package ==
    <<Step("test_cpu", {}, {}), Step("tree", {"tree"}, {}),
      Step("die", {}, {}), Step("get_device", {"dev"}, {})>> \o DefaultUnit \o Fam23Create

Fam23Core ==
    <<Step("test_cpu", {}, {}), Step("get_device", {"dev"}, {})>> \o DefaultUnit \o Fam23Create

\* A CPU that is not in initialized_cpus is added and listed.
Likwid(c) ==
    (IF c \in listed THEN <<>>
     ELSE <<Step("HPMaddThread", {}, {}), Step("add_likwid_initialize", {}, {})>>)
    \o <<Step("power_read", {}, {}), Step("malloc", {"def"}, {}),
         Step("create", {}, {"def"})>>

SetupSteps(c) ==
    CASE source = "perf" -> {Perf}
      [] source = "x86_adapt" -> {X86Adapt}
      [] source = "x86_adapt_fam23" -> {Fam23Package, Fam23Core}
      [] source = "likwid" -> {Likwid(c)}

\* Steps that cannot fail: the tree is allocated or the program ends, and
\* x86_adapt does not look at the result of malloc().
Certain(name) ==
    \/ name = "tree"
    \/ name = "malloc" /\ source \in {"x86_adapt", "x86_adapt_fam23"}

\* The first n steps of setup() d have been done, for CPU c.
Done(steps, n, c, d) ==
    LET names == {steps[i].name : i \in 1 .. n}
    IN  /\ unitKnown' = (unitKnown \/ (source = "x86_adapt_fam23" /\ "unit" \in names))
        /\ added' = added \cup (IF "HPMaddThread" \in names THEN {c} ELSE {})
        /\ listed' = listed \cup (IF "add_likwid_initialize" \in names THEN {c} ELSE {})
        /\ UNCHANGED parts

Takings(steps, n) == UNION {steps[i].takes : i \in 1 .. n}

\* A name nothing is held under any more, and no list names.
Unused(d) == d \notin open \cup watched /\ \A k \in Kinds : <<k, d>> \notin taken

\* x86_energy_overflow_thread_create() that succeeds: the call is in the list,
\* unless the rate is 0 or add_call() failed, whose result is dropped.
\* Only perf.c does without.
Created(d) == watched' \in {watched} \cup (IF source = "perf" THEN {} ELSE {watched \cup {d}})

\* One that fails without thread_info leaves the lists alone; one that fails
\* in pthread_create() leaves the call there.
CreateFails(d) ==
    \/ UNCHANGED <<watched, stray>>
    \/ watched' = watched \cup {d} /\ stray' = stray \cup {d}

SetupReturns(d) ==
    /\ Unused(d)
    /\ \E c \in Cpus : \E steps \in SetupSteps(c) :
          /\ Done(steps, Len(steps), c, d)
          /\ taken' = taken \cup (Takings(steps, Len(steps)) \X {d})
          /\ cpu' = [cpu EXCEPT ![d] = c]
    /\ Created(d)
    /\ open' = open \cup {d}
    /\ UNCHANGED stray

SetupFails(d) ==
    /\ Unused(d)
    /\ \E c \in Cpus : \E steps \in SetupSteps(c) : \E n \in 1 .. Len(steps) :
          /\ ~Certain(steps[n].name)
          /\ Done(steps, n - 1, c, d)
          /\ taken' = taken \cup ((Takings(steps, n - 1) \ steps[n].drops) \X {d})
          /\ IF steps[n].name = "create" THEN CreateFails(d) ELSE UNCHANGED <<watched, stray>>
    /\ UNCHANGED <<open, cpu>>

\* What do_close() gives back.
Returned ==
    CASE source = "perf" -> {"fd", "def"}
      [] source = "x86_adapt" -> {"dev", "def"}
      [] source = "x86_adapt_fam23" -> {"def"}
      [] source = "likwid" -> {}

\* do_close(), from remove_call on
SourceClose(d) ==
    /\ watched' = watched \ {d}
    /\ taken' = taken \ (Returned \X {d})
    /\ open' = open \ {d}
    /\ UNCHANGED <<stray, cpu>>

-----------------------------------------------------------------------------
(* init() and fini() *)

\* likwid's init() after n of its five steps
LikwidInit == <<"topology", "hpm", "power", "list", "powerInfo">>
LikwidUp(n) ==
    /\ parts' = parts \cup ({LikwidInit[i] : i \in 1 .. n} \cap Library)
    /\ listed' = IF n >= 4 THEN listed \cup {FirstCpu} ELSE listed

\* The ov_struct is cleared first (perf.c has none).
SourceInit ==
    /\ up' = TRUE
    /\ watched' = {} /\ stray' = {}
    /\ IF source = "likwid" THEN LikwidUp(5) ELSE UNCHANGED <<parts, listed>>
    /\ UNCHANGED <<added, unitKnown, taken, open, cpu>>

SourceInitFails ==
    /\ watched' = {} /\ stray' = {}
    /\ \E n \in 0 .. 4 : IF source = "likwid" THEN LikwidUp(n) ELSE UNCHANGED <<parts, listed>>
    /\ UNCHANGED <<up, added, unitKnown, taken, open, cpu>>

\* killall and freeall; likwid also forgets its CPUs and ends two of the
\* three parts.
SourceFini ==
    /\ up' = FALSE
    /\ watched' = {} /\ stray' = {}
    /\ IF source = "likwid"
       THEN listed' = {} /\ parts' = parts \ {"power", "topology"}
       ELSE UNCHANGED <<parts, listed>>
    /\ UNCHANGED <<added, unitKnown, taken, open, cpu>>

-----------------------------------------------------------------------------
(* AccessSource *)

\* One element of Mechanism::available_sources()
NewAccess(a) ==
    /\ ~access[a].alive
    /\ access' = [access EXCEPT ![a] = [alive |-> TRUE, set |-> TRUE, initialized |-> FALSE]]
    /\ UNCHANGED <<up, library, counters, object>>

Initializes(a) ==
    /\ access[a].alive /\ access[a].set
    /\ OneOwner => \A b \in Accesses : ~access[b].initialized

AccessInit(a) ==
    /\ Initializes(a)
    /\ SourceInit
    /\ access' = [access EXCEPT ![a].initialized = TRUE]
    /\ UNCHANGED object

\* init() throws and leaves initialized_ alone.
AccessInitThrows(a) ==
    /\ Initializes(a)
    /\ SourceInitFails
    /\ UNCHANGED <<access, object>>

\* A bug form: both objects will call fini().
AccessMoveKeeping(a, b) ==
    /\ a # b
    /\ access[a].alive /\ ~access[b].alive
    /\ access' = [access EXCEPT ![b] = access[a], ![a].set = FALSE]
    /\ UNCHANGED <<up, library, counters, object>>

Emptied(other) == [other EXCEPT !.set = FALSE, !.initialized = FALSE]

\* AccessSource(AccessSource&& other)
AccessMove(a, b) ==
    /\ a # b
    /\ access[a].alive /\ ~access[b].alive
    /\ access' = [access EXCEPT ![b] = access[a], ![a] = Emptied(access[a])]
    /\ UNCHANGED <<up, library, counters, object>>

\* operator=(AccessSource&& other): the two are swapped.
AccessSwap(a, b) ==
    /\ access[a].alive /\ access[b].alive
    /\ access' = [access EXCEPT ![a] = access[b], ![b] = access[a]]
    /\ UNCHANGED <<up, library, counters, object>>

\* ~AccessSource()
AccessDies(a) ==
    /\ access[a].alive
    /\ OneOwner /\ access[a].initialized => \A o \in Counters : ~object[o].set
    /\ access' = [access EXCEPT ![a] = NoAccess]
    /\ IF access[a].initialized THEN SourceFini ELSE UNCHANGED <<up, library, counters>>
    /\ UNCHANGED object

-----------------------------------------------------------------------------
(* SourceCounter *)

\* get(): setup() and the object that owns its result
Get(a, o) ==
    /\ access[a].initialized
    /\ ~object[o].alive
    /\ \E d \in Setups :
          /\ SetupReturns(d)
          /\ object' = [object EXCEPT ![o] = [alive |-> TRUE, set |-> TRUE, def |-> d]]
    /\ UNCHANGED <<up, access>>

\* setup() returns NULL, get() throws.
GetThrows(a) ==
    /\ access[a].initialized
    /\ \E d \in Setups : SetupFails(d)
    /\ UNCHANGED <<up, access, object>>

\* A bug form: both objects will close the counter.
CounterMoveKeeping(o, p) ==
    /\ o # p
    /\ object[o].alive /\ ~object[p].alive
    /\ object' = [object EXCEPT ![p] = object[o]]
    /\ UNCHANGED <<up, library, counters, access>>

\* SourceCounter(SourceCounter&& other): source_counter_ of other stays.
CounterMove(o, p) ==
    /\ o # p
    /\ object[o].alive /\ ~object[p].alive
    /\ object' = [object EXCEPT ![p] = object[o], ![o].set = FALSE]
    /\ UNCHANGED <<up, library, counters, access>>

\* operator=(SourceCounter&& other): the two are swapped.
CounterSwap(o, p) ==
    /\ object[o].alive /\ object[p].alive
    /\ object' = [object EXCEPT ![o] = object[p], ![p] = object[o]]
    /\ UNCHANGED <<up, library, counters, access>>

\* ~SourceCounter()
CounterDies(o) ==
    /\ object[o].alive
    /\ object' = [object EXCEPT ![o] = NoObject]
    /\ IF object[o].set THEN SourceClose(object[o].def) ELSE UNCHANGED counters
    /\ UNCHANGED <<up, library, access>>

Next ==
    /\ UNCHANGED source
    /\ \/ \E a \in Accesses :
             \/ NewAccess(a) \/ AccessInit(a) \/ AccessInitThrows(a) \/ AccessDies(a)
             \/ GetThrows(a)
             \/ \E b \in Accesses : AccessMove(a, b) \/ AccessSwap(a, b)
             \/ \E o \in Counters : Get(a, o)
       \/ \E o \in Counters :
             \/ CounterDies(o)
             \/ \E p \in Counters : CounterMove(o, p) \/ CounterSwap(o, p)

Spec == Init /\ [][Next]_vars

-----------------------------------------------------------------------------

TypeOK ==
    /\ source \in Sources
    /\ up \in BOOLEAN
    /\ parts \subseteq Library
    /\ listed \subseteq Cpus /\ added \subseteq Cpus
    /\ unitKnown \in BOOLEAN
    /\ taken \subseteq Kinds \X Setups
    /\ watched \subseteq Setups /\ stray \subseteq Setups /\ open \subseteq Setups
    /\ cpu \in [Setups -> Cpus]
    /\ access \in [Accesses -> [alive : BOOLEAN, set : BOOLEAN, initialized : BOOLEAN]]
    /\ object \in [Counters -> [alive : BOOLEAN, set : BOOLEAN, def : Setups \cup {NoSetup}]]

\* An object that was destroyed or moved from owns nothing.
WellFormed ==
    /\ \A a \in Accesses :
          (access[a].initialized => access[a].set) /\ (access[a].set => access[a].alive)
    /\ \A o \in Counters : object[o].set => object[o].alive /\ object[o].def \in Setups

\* Through every move and swap a counter that is open belongs to exactly one
\* object that will close it, and an object never closes a counter twice.
OwnedOnce ==
    /\ open = {object[o].def : o \in {p \in Counters : object[p].set}}
    /\ \A o, p \in Counters :
          object[o].set /\ object[p].set /\ object[o].def = object[p].def => o = p

\* The source is initialised exactly while one object will call fini().
InitOwned ==
    /\ up <=> \E a \in Accesses : access[a].initialized
    /\ \A a, b \in Accesses : access[a].initialized /\ access[b].initialized => a = b

\* What an open counter of each source needs.
Needs ==
    CASE source = "perf" -> {"fd", "def"}
      [] source \in {"x86_adapt", "x86_adapt_fam23"} -> {"dev", "def"}
      [] source = "likwid" -> {"def"}

\* read() finds everything it uses: the counter's handles are held, its source
\* is up, and likwid has added its CPU.  That an overflow thread samples it is
\* the matter of OverflowThread (OpenIsWatched); here a setup() may return a
\* counter that is in no list.
ReadFindsAll ==
    \A d \in open :
        /\ Needs \X {d} \subseteq taken
        /\ up
        /\ source = "likwid" => Library \subseteq parts /\ cpu[d] \in listed
                                /\ cpu[d] \in added \cup {FirstCpu}

\* What a source gives back on every path.
Tidy ==
    CASE source = "x86_adapt" -> {"dev", "def"}
      [] source = "x86_adapt_fam23" -> {"def"}
      [] OTHER -> {}

\* A counter that is closed, or whose setup() failed, holds nothing of what
\* its source gives back on every path; and the lists of the overflow threads
\* name open counters only, but for the calls that a failing pthread_create()
\* has left there (see NoStrayCall).
NothingLost ==
    /\ watched \subseteq open \cup stray
    /\ \A k \in Tidy : \A d \in Setups : <<k, d>> \in taken => d \in open

\* No list names a counter that its setup() has freed.  It fails: x86_adapt.c,
\* x86_adapt_fam23.c and likwid.c free the reader_def when create fails, and
\* nobody removes the call that create had added before pthread_create().
NoStrayCall == \A d \in watched : <<"def", d>> \in taken

\* "Close a single counter": when all counters are closed, nothing that was
\* taken for one is held.  It fails for every source but x86_adapt: perf.c
\* loses the descriptor or the reader_def of a setup() that fails,
\* x86_adapt_fam23.c its devices and trees, likwid.c every reader_def.
ClosedMeansReturned == open = {} => taken = {}
=============================================================================
