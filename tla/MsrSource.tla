----------------------------- MODULE MsrSource -----------------------------
(***************************************************************************)
(* The access sources msr.c and msr_fam23.c as their caller sees them:     *)
(* init, setup, read, close and fini, and what they do to the array fds    *)
(* and to the descriptor table of the process.  The two differ in one      *)
(* step: msr_fam23.c refuses a counter type before it opens anything,      *)
(* msr.c afterwards.  fds has one entry per CPU, 0 means "not open", and   *)
(* all counters of one CPU share the entry.  Descriptor 0 is standard      *)
(* input, unless the process was started without or somebody closes it; 1  *)
(* and 2 stay open and are left out: open() returns the lowest free        *)
(* number, from 0 on.                                                      *)
(* The values of the counters are in RaplCounter, the overflow threads in  *)
(* OverflowThread.                                                         *)
(***************************************************************************)
EXTENDS Integers

CONSTANTS Cpus,         \* CPUs with a /dev/cpu/N/msr or msr_safe
          Counters,     \* the counters the program may set up
          CpuOf,        \* CpuOf[k]: the CPU of the counter's socket
          Unhandled,    \* counters whose type setup() does not handle
          MaxFd,        \* bound: the highest descriptor
          Failures,     \* the steps of setup() and read() that may fail
          Stdin, Closed \* what a descriptor refers to, if not to a CPU's msr

ASSUME MsrCpuOfAssumption == CpuOf \in [Counters -> Cpus]
ASSUME UnhandledAssumption == Unhandled \subseteq Counters
ASSUME MaxFdAssumption == MaxFd \in Nat
ASSUME MsrNamesAssumption == Stdin \notin Cpus /\ Closed \notin Cpus /\ Stdin # Closed

VARIABLES source,       \* which of the two files it is
          session,      \* init() was called, fini() was not
          fds,          \* fds[c]: 0 or -1: none, else the descriptor of c's msr
          file,         \* file[d]: what descriptor d refers to
          unitCached,   \* default_unit > 0.0
          counter,      \* counter[k]: open, and the sign of its unit
          client        \* the operation in progress and its counter

vars == <<source, session, fds, file, unitCached, counter, client>>

Descriptors == 0 .. MaxFd
Fresh == [open |-> FALSE, unit |-> "none"]
NoOp(k) == [op |-> "ready", k |-> k]

Init ==
    /\ source \in {"msr", "fam23"}
    /\ session = FALSE
    /\ fds = [c \in Cpus |-> 0]
    /\ \E first \in {Stdin, Closed} :
          file = [d \in Descriptors |-> IF d = 0 THEN first ELSE Closed]
    /\ unitCached = FALSE
    /\ counter = [k \in Counters |-> Fresh]
    /\ client \in {NoOp(k) : k \in Counters}

K == client.k
C == CpuOf[client.k]
At(op) == client.op = op
Goto(op) == client' = [client EXCEPT !.op = op]

-----------------------------------------------------------------------------
(* open() and close() of the operating system *)
Free(table) == {d \in Descriptors : table[d] = Closed}

\* close(d): a number that is not open is an error nobody looks at.
Closing(table, d) == IF d \in Descriptors THEN [table EXCEPT ![d] = Closed] ELSE table

-----------------------------------------------------------------------------
\* init(): calloc() of fds, the old array is forgotten.
InitSource ==
    /\ At("ready") /\ ~session
    /\ session' = TRUE
    /\ fds' = [c \in Cpus |-> 0]
    /\ UNCHANGED <<file, unitCached, counter, client>>

\* A bug form: the type is looked at after the descriptor has been opened.
RefusedLate(k) == FALSE

\* The switch over counter_type at the beginning of setup() in msr_fam23.c:
\* NULL, and nothing has been done.
Refused(k) == source = "fam23" /\ k \in Unhandled

\* setup(): no open descriptor for this CPU yet, open one.
SetupOpens(k) ==
    /\ At("ready") /\ session
    /\ ~counter[k].open /\ ~Refused(k)
    /\ fds[CpuOf[k]] <= 0
    /\ \E d \in Free(file) :
          /\ \A e \in Free(file) : d <= e
          /\ file' = [file EXCEPT ![d] = CpuOf[k]]
          /\ fds' = [fds EXCEPT ![CpuOf[k]] = d]
    /\ client' = [op |-> "unit", k |-> k]
    /\ UNCHANGED <<session, unitCached, counter>>

\* A bug form: the error number is kept in the place of the descriptor.
SetupOpenFailsErrno(k) ==
    /\ At("ready") /\ session
    /\ ~counter[k].open /\ ~Refused(k)
    /\ fds[CpuOf[k]] <= 0
    /\ "open" \in Failures \/ Free(file) = {}
    /\ fds' = [fds EXCEPT ![CpuOf[k]] = -2]
    /\ UNCHANGED <<session, file, unitCached, counter, client>>

\* Neither msr nor msr_safe can be opened.
SetupOpenFails(k) ==
    /\ At("ready") /\ session
    /\ ~counter[k].open /\ ~Refused(k)
    /\ fds[CpuOf[k]] <= 0
    /\ "open" \in Failures \/ Free(file) = {}
    /\ fds' = [fds EXCEPT ![CpuOf[k]] = -1]
    /\ UNCHANGED <<session, file, unitCached, counter, client>>

SetupShares(k) ==
    /\ At("ready") /\ session
    /\ ~counter[k].open /\ ~Refused(k)
    /\ fds[CpuOf[k]] > 0
    /\ client' = [op |-> "unit", k |-> k]
    /\ UNCHANGED <<session, fds, file, unitCached, counter>>

\* "can't handle counter type" in msr.c: NULL, the descriptor stays open.
SetupUnhandled ==
    /\ At("unit")
    /\ K \in Unhandled
    /\ client' = NoOp(K)
    /\ UNCHANGED <<session, fds, file, unitCached, counter>>

\* get_default_unit(), with the unit known or a descriptor to read it from.
\* (get_dram_unit() knows the unit of some models without reading it.)
UnitFound ==
    /\ At("unit") /\ K \notin Unhandled
    /\ \/ unitCached
       \/ fds[C] > 0
    /\ unitCached' = TRUE
    /\ counter' = [counter EXCEPT ![K].unit = "good"]
    /\ Goto("pread")
    /\ UNCHANGED <<session, fds, file>>

\* The unit cannot be read: -1.0, which setup() takes for a unit.
UnitFails ==
    /\ At("unit") /\ K \notin Unhandled
    /\ ~unitCached /\ fds[C] > 0
    /\ "unit" \in Failures
    /\ counter' = [counter EXCEPT ![K].unit = "bad"]
    /\ Goto("pread")
    /\ UNCHANGED <<session, fds, file, unitCached>>

\* setup() was given descriptor 0, which get_default_unit() takes for "not
\* open": another one is opened, and closed again, or cannot be opened.
UnitReopens ==
    /\ At("unit") /\ K \notin Unhandled
    /\ ~unitCached /\ fds[C] <= 0
    /\ fds' = [fds EXCEPT ![C] = -1]
    /\ \/ /\ Free(file) # {}
          /\ unitCached' = TRUE
          /\ counter' = [counter EXCEPT ![K].unit = "good"]
       \/ /\ "unit" \in Failures \/ "open" \in Failures \/ Free(file) = {}
          /\ counter' = [counter EXCEPT ![K].unit = "bad"]
          /\ UNCHANGED unitCached
    /\ Goto("pread")
    /\ UNCHANGED <<session, file>>

\* pread() finds the msr of some CPU behind the number kept for k's CPU.
Readable(k) == fds[CpuOf[k]] \in Descriptors /\ file[fds[CpuOf[k]]] \in Cpus

\* A bug form: the number is forgotten, the descriptor stays open.
ReleaseUnclosed(c) == fds' = [fds EXCEPT ![c] = 0] /\ UNCHANGED file

\* A bug form: the descriptor is closed and its number is kept.
ReleaseKeepingNumber(c) == file' = Closing(file, fds[c]) /\ UNCHANGED fds

\* close(fds[cpu]); fds[cpu] = 0;
Release(c) ==
    /\ file' = Closing(file, fds[c])
    /\ fds' = [fds EXCEPT ![c] = 0]

\* The first reading: pread() on the descriptor of the CPU.
SetupReads ==
    /\ At("pread")
    /\ Readable(K)
    /\ Goto("create")
    /\ UNCHANGED <<session, fds, file, unitCached, counter>>

\* The register is not there, or cannot be read: the descriptor is closed,
\* whoever else uses it.
SetupReadFails ==
    /\ At("pread")
    /\ ~Readable(K) \/ "pread" \in Failures
    /\ Release(C)
    /\ counter' = [counter EXCEPT ![K] = Fresh]
    /\ client' = NoOp(K)
    /\ UNCHANGED <<session, unitCached>>

\* malloc() and x86_energy_overflow_thread_create() succeed.
SetupReturns ==
    /\ At("create")
    /\ counter' = [counter EXCEPT ![K].open = TRUE]
    /\ client' = NoOp(K)
    /\ UNCHANGED <<session, fds, file, unitCached>>

SetupCreateFails ==
    /\ At("create")
    /\ "create" \in Failures
    /\ Release(C)
    /\ counter' = [counter EXCEPT ![K] = Fresh]
    /\ client' = NoOp(K)
    /\ UNCHANGED <<session, unitCached>>

\* do_close(k), after remove_call
Close(k) ==
    /\ At("ready") /\ session
    /\ counter[k].open
    /\ Release(CpuOf[k])
    /\ counter' = [counter EXCEPT ![k] = Fresh]
    /\ UNCHANGED <<session, unitCached, client>>

\* A bug form: fini() closes every entry, used or not.
FiniCloses ==
    /\ At("ready") /\ session
    /\ \A k \in Counters : ~counter[k].open
    /\ session' = FALSE
    /\ file' = [d \in Descriptors |-> IF \E c \in Cpus : fds[c] = d THEN Closed ELSE file[d]]
    /\ UNCHANGED <<fds, unitCached, counter, client>>

\* fini(), after the program has closed its counters: the threads are
\* killed, fds is left alone.
Fini ==
    /\ At("ready") /\ session
    /\ \A k \in Counters : ~counter[k].open
    /\ session' = FALSE
    /\ UNCHANGED <<fds, file, unitCached, counter, client>>

Next ==
    /\ UNCHANGED source
    /\ \/ InitSource
       \/ \E k \in Counters :
             SetupOpens(k) \/ SetupOpenFails(k) \/ SetupShares(k) \/ Close(k)
       \/ SetupUnhandled \/ UnitFound \/ UnitFails \/ UnitReopens
       \/ SetupReads \/ SetupReadFails \/ SetupReturns \/ SetupCreateFails
       \/ Fini

Spec == Init /\ [][Next]_vars

-----------------------------------------------------------------------------

Types ==
    /\ session \in BOOLEAN
    /\ fds \in [Cpus -> {-1} \cup Descriptors]
    /\ file \in [Descriptors -> Cpus \cup {Stdin, Closed}]
    /\ unitCached \in BOOLEAN
    /\ counter \in [Counters -> [open : BOOLEAN, unit : {"none", "good", "bad"}]]
    /\ client \in [op : {"ready", "unit", "pread", "create"}, k : Counters]

TypeOK == source \in {"msr", "fam23"} /\ Types

\* What do_read(k) would deliver: the counter of its own CPU, an error, or
\* the counter of another CPU.
Outcome(k) ==
    IF ~Readable(k) THEN "error"
    ELSE IF file[fds[CpuOf[k]]] = CpuOf[k] THEN "own" ELSE "foreign"

\* A number above 0 in fds is never stale: it is the descriptor of this
\* CPU's msr, through every order of setup, failure, close and init.
NumbersNotStale == \A c \in Cpus : fds[c] > 0 => file[fds[c]] = c

\* A counter that is open can be read, and shows its own CPU.  With two
\* counters on one CPU it fails: closing one of them closes the other.
OpenReadsOwn == \A k \in Counters : counter[k].open => Outcome(k) = "own"

\* Under the one condition the code needs for that, one counter per CPU, it
\* holds by the following invariant: what an open counter, or one that setup
\* is about to return, finds behind its number is its own msr, so that
\* close() never reaches a descriptor of anybody else.
OneCounterPerCpu == \A j, k \in Counters : CpuOf[j] = CpuOf[k] => j = k

Owns(c) == fds[c] \in Descriptors /\ file[fds[c]] = c

OwnInv ==
    /\ \A k \in Counters : counter[k].open => session /\ Owns(CpuOf[k])
    /\ client.op # "ready" => session /\ ~counter[K].open
    /\ At("create") => Owns(C)
    /\ client.op \in {"unit", "pread"} /\ fds[C] = 0 => file[0] = C

\* No counter that is open shows the energy of another CPU.
NeverForeign == \A k \in Counters : counter[k].open => Outcome(k) # "foreign"

\* The library closes the descriptors it opened, and not standard input.
StdinUntouched == [][ file[0] = Stdin => file'[0] = Stdin ]_vars

\* Between two calls a descriptor of some msr belongs to an open counter.
\* In msr.c it may also be one that a setup() for a counter type it refuses
\* has left; descriptor 0 is left out.
NoLeak ==
    At("ready") =>
        \A d \in Descriptors \ {0} : file[d] \in Cpus =>
            \E k \in Counters :
                /\ CpuOf[k] = file[d]
                /\ (source = "msr" /\ k \in Unhandled) \/ (counter[k].open /\ fds[CpuOf[k]] = d)

\* NoLeak is kept by this invariant, with any number of counters per CPU: a
\* descriptor is the one of an open counter or of the setup() in progress.
Kept(d) ==
    \/ source = "msr" /\ \E k \in Unhandled : CpuOf[k] = file[d]
    \/ /\ fds[file[d]] = d
       /\ \E k \in Counters :
             CpuOf[k] = file[d] /\ (counter[k].open \/ (client.op # "ready" /\ k = K))

LeakInv ==
    /\ \A k \in Counters : counter[k].open => session
    /\ client.op # "ready" => session /\ ~counter[K].open /\ ~Refused(K)
    /\ \A d \in Descriptors \ {0} : file[d] \in Cpus => Kept(d)

\* "adding a counter, will return NULL on error": a setup() that fails does
\* not end the reading of the counters there are.  It fails where two counters
\* share the descriptor of their CPU.
SetupHarmless ==
    [][ client.op # "ready" =>
          \A k \in Counters : counter[k].open /\ Readable(k) => Readable(k)' ]_vars

\* "Joules, will return < 0.0 on error": a counter that setup() has returned
\* has a unit, so that a negative number is an error.
OpenHasUnit == \A k \in Counters : counter[k].open => counter[k].unit = "good"
=============================================================================
