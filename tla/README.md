# Formal model of x86_energy

TLA+ modules, TLC configurations and TLAPS proofs for libx86_energy, the C
library that reads the energy counters of x86 processors (`src/`). Paths below
are relative to the repository root; `access/` and `architecture/` stand for
`src/src/access/` and `src/src/architecture/`.

## 1. The system

### Parts, state, operations

| part | code | state | operations |
|---|---|---|---|
| interface | `src/include/x86_energy.h` | none | a mechanism with its sources; per source `init`, `setup`, `read`, `close`, `fini` |
| 64 bit extension | four lines in every RAPL `do_read` | `last_reading` | extend a register reading across a wrap |
| locked RAPL read | `msr.c`, `msr_fam23.c`, `likwid.c`: `do_read` | `last_reading`, a mutex per counter | lock, read the register, extend, unlock, load again for the result |
| x86_adapt read | `x86_adapt.c`, `x86_adapt_fam23.c`: `do_read` | `last_reading` | the same, without the lock |
| powercap source | `access/sysfs.c` | `overflow`, `last_reading`, mutex, an open file per counter | scan the directory for a zone, open its files; read, count wraps, unlock, put the value together |
| family 15h source | `access/sysfs_fam15.c` | `energy`, `last_reading_tv`, mutex, an open file per counter | scan the PCI functions for a sensor; read a power, multiply by the time, add up |
| overflow threads | `architecture/overflow_thread.c` | `thread_infos` (one per CPU: lists of calls, period, thread), the global update rate | `create` (with `add_call`), `remove_call`, `killall`, `freeall`, `set_internal_update_thread_rate`, the thread's loop `on_overflow` |
| msr sources | `msr.c`, `msr_fam23.c` | the array `fds` of descriptors, `default_unit` | `init`, `setup`, `close`, `fini` |
| perf, x86_adapt, likwid sources | `perf.c`, `x86_adapt.c`, `x86_adapt_fam23.c`, `likwid.c` | descriptors and devices per counter; likwid: the parts of its library, the list of initialised CPUs | `init`, `setup`, `close`, `fini` |
| C++ wrapper | `src/include/x86_energy.hpp` | `AccessSource` owns an initialisation, `SourceCounter` a counter | construction, `init`, `get`, moves, swaps, destruction |
| CPU lists | `parse_architecture.c`: `read_file_long_list` | the list being built | one loop over "0-3,5,..." |
| hardware tree | `parse_architecture.c`, `get_test_cpu` in `architecture.c` | the tree | build, sort, renumber, search |
| mechanism | `architecture.c`: `x86_energy_get_avail_mechanism`, `is_selected_source` | the cached `X86_ENERGY_SOURCE`, the mechanism being filled | look up the processor, count the selected sources, allocate, fill |
| error string | `src/src/error/error.c` | one static buffer | set, append, get |

### How they interact

A program asks for the mechanism and the tree, picks a source, and calls
`init`, then `setup` / `read` / `close` per counter, then `fini`, from one
thread (`src/test/test.c` is the example), or lets the objects of the C++
wrapper do so. `setup` chooses a CPU with `get_test_cpu`, opens what the source
needs, takes a first reading, and calls `x86_energy_overflow_thread_create`,
which starts one thread per CPU or adds the counter to the list of the CPU's
thread. That thread calls the same `do_read` as the program, at least once per
turn of the register. So a counter is shared by two threads; the list of calls
is shared by the program (writer) and the overflow thread (reader); the
counters of a CPU share a descriptor.

### What is hard, and what makes each part correct

- *Reads*: program and overflow thread extend the same 64 bit value across a
  wrap. Correct: no wrap is lost or counted twice, every answer is an energy of
  the time of the call, a failing read leaves no lock and no damage behind.
- *Sampling*: all of it rests on a register that never makes a full turn between
  two reads. Correct: the loop of the thread, with its sleep, its delays and its
  failing reads, is fast enough for the register.
- *Integration* (family 15h): two threads integrate power over the time since a
  common last reading. Correct: every interval counts once, the sum never
  decreases.
- *Overflow threads*: lists are changed in several steps, in place or with
  `realloc`, while the thread walks them without a lock; a counter is freed
  while the thread may have fetched it; threads are cancelled and not joined;
  every allocation may fail. Correct: between calls the lists are exactly the
  open counters, no list names a freed counter, every open counter is sampled
  again and again, no sleep is longer than promised to the counters open when it
  begins, calls return, threads end.
- *Sources*: `setup` is a row of calls each of which may fail; directories are
  scanned in an order nobody controls; msr has one descriptor per CPU, and 0 for
  "none". Correct: an open counter reads what was asked for, starts from the
  reading that `setup` has taken, nothing leaks, nothing of the process is closed.
- *Ownership* (C++): objects are moved, swapped and destroyed in any order.
  Correct: each counter is closed once, each initialisation ended once, and a
  counter that is open finds everything it reads from.
- *Parsing and tree*: ends of texts, ids local to a parent, orders given by
  `readdir`, CPUs that go offline meanwhile. Correct: a damaged file is noticed;
  the tree is the machine; the test CPU belongs to the requested node.
- *Mechanism*: two passes that have to select the same sources although the
  environment may change in between.

`PROJECT.json` lists every hazard at its line with the properties for it.

## 2. Modules

| module | models | notes |
|---|---|---|
| `EnergyMeter` | what `read()` promises | abstract specification |
| `CounterArithmetic` | the extension, for any width `WRAP` | `Extend(last, reading)`, `High`, `Low` |
| `RaplCounter` | the locked `do_read` | one action per step; refines `EnergyMeter` |
| `RaplSampling` | `RaplCounter` with a clock and the loop of its overflow thread | composition; refines `RaplCounter` |
| `X86AdaptCounter` | the unlocked `do_read` | load by load, store by store |
| `SysfsCounter` | the powercap `do_read` | `overflow` and `last_reading` loaded in either order |
| `PowercapSource` | `sysfs.c` from `init` to `close` around a `SysfsCounter` | composition: the actions of `SysfsCounter` run between `create` and `close` |
| `Fam15Source` | `sysfs_fam15.c` from `init` to `close` | |
| `OverflowThread` | `overflow_thread.c`, the program and the source around it | |
| `MsrSource` | `init`, `setup`, `close`, `fini` of `msr.c` and `msr_fam23.c` and the descriptor table | |
| `SourceObjects` | perf, x86_adapt, x86_adapt_fam23 and likwid under the C++ objects | |
| `CpuListText`, `CpuList` | what the kernel writes; the loop that reads it | tokens instead of characters |
| `CoreNumbers` | nodes of the tree; the renumbering of its cores | where `current_core` stands instead of the counter |
| `Topology` | building and searching the tree | uses `CpuListText` and `CoreNumbers` |
| `Mechanism` | choosing and filling the mechanism | |
| `*Proofs` | proofs | section 5 |
| `MC*` | instances for TLC | section 3 |

**RaplCounter.** `energy` is the hardware without wraps, the register shows
`energy % WRAP`; `last` is `def->last_reading`, `mutex` its lock, `pc`,
`reading` and `result` are the threads' locals. `since` and `sampled` are
history. `Consume` may not run a full turn past `sampled`: that is the
library's premise, which the next module discharges. `map` gives the lines of
`msr.c` for some actions and those of `msr_fam23.c` for others; the two differ
in the mask of line 308 of the latter only.

**RaplSampling.** One of the readers is the overflow thread. `timer` counts
down the `usleep` and, below 0, the time since it returned; `spent` is the
energy of the current tick, at most `Rate`; `fails` the reads that failed in a
row. In place of the premise of `RaplCounter` stands an assumption about
constants: within `MaxGap`, the longest time between two successful reads
(`MaxFails` periods more than one, each late by at most `Delay`), the hardware
cannot consume a turn of the register. `Burn`, the energy consumed in a tick,
has no guard on `sampled`; that it never gets there is `PremiseKept`.

**SysfsCounter, PowercapSource.** The scan is modelled entry by entry, backwards
as `while (n--)` goes, with its four ways of ending: `continue` over foreign
entries, other packages and other domains, `break` at a zone that is no package
or a file that fails, `break` at the zone it wants, the end of the list. A zone
is its root number, whether it is the root, what its `name` file says, and what
`strtol` makes of a package's number. `files` counts the FILEs of `setup`. The
register turns all the time: freely until the first reading (`Drift`, in which
`energy` is only known up to whole turns, as nobody counts them yet), by less
than a turn from there to `create`, which is the premise of `SysfsCounter` again.
`FirstReading` puts what it reads into the local variable `first`; `sampled` and
`energy` are counted from it. `Create` stores it in the new `reader_def`, whose
`last` and `overflow` are anything until then (`malloc`). From `create` on the
actions of `SysfsCounter` run unchanged.

**Fam15Source.** Power is a number between `PMin` and `PMax` that may change at
any time, energy is counted in power times ticks. The scan goes on after a
match, as the code's does. `fini` of both sysfs sources only kills the threads
(see `OverflowThread` with `FreesInfos = FALSE`).

**OverflowThread.** `infos` is `ov->thread_infos`, `info[c]` the structure of
CPU `c` (list with the slots behind `nr`, period, whether `realloc` has moved
the list, whether the thread exists), `thread[c]` the position of the thread in
`on_overflow` and `us`, the period of the sleep in progress, which is loaded once
per turn of the loop (`:94`) and which nothing can shorten; `def[k]` the heap object of a counter, `lock[k]` its mutex,
`client` the position of the program in a library call. `add_call` is four
actions, `remove_call` two (shift, shorten), as the thread can see every state
in between. Undefined behaviour (use of freed memory, locking a mutex never
set, following an entry never written) ends the run in `fault`; the actions
that lead there are part of the model, the violated configurations below show
them reached. Constants choose the source: `Locks`, `FreesDef`, `FreesInfos`.
Left out: `info->mutex` (only the one program thread takes it, so it never
blocks); `memcpy` between overlapping areas is taken as `memmove`; a run is one
session of one source and ends with `fini`. `remove_call` shifts two arrays, one
after the other (`:167`, `:169`); every entry of the first is the `do_read` of the
source, so shifting it changes nothing, and `RemoveShifts` is the second.

**MsrSource.** `source` says which of the two files it is: `msr_fam23.c` refuses
a counter type before it opens the descriptor, `msr.c` afterwards. `fds` is the
array, `file` the process's descriptor table with `open()` returning the lowest
free number, `client` the position in `setup`. Descriptor 0 is standard input,
or free from the start; 1 and 2 are left out. The scan of `/dev/cpu` in `init`
only determines the length of `fds` and is left out (the CPUs are taken to be
accessible), as are the DRAM units that some models do not read from a register.

**SourceObjects.** `setup` of the four sources is a sequence of steps, each with
what it takes (a descriptor, a device, device 0, a tree, a `reader_def`) and
what the code gives back when it is this step that fails. `SetupReturns` does
all of them, `SetupFails` the first ones. The last is
`x86_energy_overflow_thread_create`, seen from outside: `Created`, success with
the counter in a list (`watched`) or, when the rate is 0 or `add_call` has failed,
in none; `CreateFails`, without a call or, when `pthread_create` fails, with one
that stays (`stray`). `taken` holds pairs `<<kind, d>>` of
what call `d` has taken and nobody given back, so that a leak stays visible
after the call. For likwid, `parts`, `listed` and `added` are the parts of the
library that are up, `initialized_cpus`, and the CPUs that likwid itself knows.
The objects `access[a]` and `object[o]` carry the fields of the C++ classes:
`set` stands for `source_ != nullptr`. `OneOwner` restricts the program to one
initialised `AccessSource` at a time, alive as long as its counters.

**CpuList / Topology.** Numbers are what `strtol` delivers. The buffer is not
ended behind the text, and `strtol` skips the newline there as it skips any white
space: `stale` says that the buffer has a number behind it, and `RunsOn` that the
parser takes this number for one of the text. What it makes of it is not followed:
the bytes are undefined. A machine
(`hw`) is what its sysfs files say, and which of them cannot be read: the list of
a node (`unlisted`), a file of a CPU that `process_node` reads itself (`broken`),
`core_id` (`nocore`). The first two end in NULL (`FailNode`, `FailCpu`), the third
is dropped by the callers of `add_cpu_and_core_to_node`. The tree is built CPU by
CPU in the order
of `readdir` and of the lists, then sorted and renumbered. `CoreNumbers` gives
each core the value that `current_core` has when the loops come to it, a sum over
the nodes before. Names, printing and freeing are left out.

**Mechanism.** A processor is a cpuid result; `env` may be changed by some
other thread at any time; `cached` is the lookup that is done once.

The definitions headed "A bug form" are changed copies of an action, one for
each property (`PROJECT.json`, "mutants"): replacing the action by it makes TLC
report the property, so no property holds for lack of something to break it.

## 3. Runs

Run one with `tlc -config X.cfg M.tla`. `PROJECT.json` names the module of
each run; a configuration without a run belongs to the MC module of its part.

| run | configuration | shows | bounds, and why they are enough |
|---|---|---|---|
| `rapl_counter` | `MCRaplSampling` | `PremiseKept`, `Exact`, `MeterSpec`, `ReadsReturn`: the program and an overflow thread with a clock | 4 register values, 8 units of energy: two turns; one failing read in a row; the width is the smallest that the period allows, so that one tick more would miss a wrap. `Delay` is 0: a thread that is late needs a wider register, and the theorems cover every delay, period, width and number of threads |
| `powercap` | `MCPowercapSource` | `CountedFromSetup`, `ReadsWantedZone`, `FilesBalanced`, `FindsWhatIsListed` | two threads, 3 values and more than a turn; a register at any value when `setup` begins, turning while it runs; five kinds of machine: packages with equal domains, psys, dies, a foreign entry, none at all; every call may fail |
| `fam15_counter` | `MCFam15Source` | `EveryIntervalOnce`, `AnswersPossible`, `NeverBackwards`, `ReadsOwnSensor`, `SensorsBalanced` | two threads, three ticks (a thread delayed across two readings of the other), two powers; boards with one package, two, and two entries of one |
| `overflow_thread` | `MCOverflowThread` | `CallsExact`, `NoDanglingCall`, `SleepsAsPromised`, `KeptSampled`, `ThreadsStop` | two counters of one CPU: first, last and only entries of a list, shift and growth, a thread that walks meanwhile; rates 0 (disabled) and 5 against a default of 30 |
| `overflow_failures` | `MCOverflowFailures` | `TypeOK`, `ClientReturns` | two CPUs, rates 0 and 5, each allocation and `pthread_create` may fail at any call, `fini` frees the `thread_infos` |
| `msr_source` | `MCMsrSource` | `NumbersNotStale`, `OpenReadsOwn`, `NoLeak`, `StdinUntouched` | both files; one counter on each of three CPUs, one of a refused type; every failure; sessions repeat; five descriptors, so that a leak reaches the limit |
| `source_objects` | `MCSourceObjects` | `OwnedOnce`, `InitOwned`, `ReadFindsAll`, `NothingLost` | each of four sources; two `AccessSource` and three `SourceCounter` places, so that a moved-from, a live and a third object exist; three setups; two CPUs; each step of `setup` and `init` may fail, and what fails inside `overflow_thread_create` may do so unnoticed; sessions repeat |
| `cpulist` | `MCCpuList` | `ReadsList`, `DamageNoticed`, `Terminates` | every set of CPUs out of 0..7, intact, broken off behind a `,` or a `-`, or followed by something else; with and without a number in the buffer behind: single numbers and ranges in every position |
| `topology` | `MCTopology` | `TreeMatches`, `CoresNumbered`, `TestCpuBelongs` | every placement of four CPUs on two packages, two NUMA nodes, two core ids and every sharing of L2; either order of nodes; one node list or one CPU's file that cannot be read, or up to two CPUs without core id: alone or together in a module, a core, a node |
| `mechanism` | `MCMechanism` | `FillFits`, `OneMechanism`, `Usable` | one processor per class of counters, refused vendors, families, models; names of all kinds and a misspelt one; both build options on |
| `x86adapt_race` | `MCX86AdaptRace` | `NeverAboveEnergy` violated | two threads |
| `overflow_freed_counter` | `MCOverflowFreedCounter` | `NoFreedCounter` violated | one CPU, two counters |

The topology run takes machines whose CPU lists the library reads completely
(every list ends with a range, see `ReadsAll` below), whose NUMA nodes lie in
one package, and whose dies have modules or cores but not both; the table of
deviations says what happens otherwise. Threads, objects, counters and setups
that differ in nothing but their names are symmetric; no run with symmetry
checks liveness.

Deadlock is not checked in the overflow runs (they stop after `fini` and after
a fault), in the CPU list runs (they stop at the return) and in the family 15h
run (it stops at the bound of the clock, with the counter closed); that the
program is never stuck inside a call is `ClientReturns`, `ReadsReturn` and
`Terminates`.

## 4. Where code and documentation differ

The last two runs are the findings of `PROJECT.json`, each with the line that
states the expectation. Modelling showed more of the kind: they are stated as
properties, too, and TLC finds each violated in the instance named here (a
configuration of its own, or the configuration of the run with the constants
and the property changed as stated). The passing runs keep away from them
through the constants, through the wording of a weaker property, or through
`fault`.

| property | instance | what happens |
|---|---|---|
| `ReadIsCurrent` (`SysfsCounter`) | `MCPowercapSource` | `sysfs.c:309` loads `overflow` and `last_reading` after the unlock; a wrap counted in between makes the answer a whole range wrong, against "Read the current energy value" (`x86_energy.h:165`) |
| `FindsEveryZone` (`PowercapSource`) | `MCPowercapSource` | psys is listed last on some notebooks; `sysfs.c:158` ends the backward scan there, and no package is found |
| `RangeIsRead` (`PowercapSource`) | `MCPowercapSource` | an empty `max_energy_range_uj` gives EOF, which the test `read == 0` (`sysfs.c:200`) takes for success: the range is uninitialised |
| `EverySensorClosed` (`Fam15Source`) | `MCFam15Source` | with two PCI functions of one package, the second `fopen` (`sysfs_fam15.c:114`) overwrites the first FILE |
| `SampledOnPackage` (`Fam15Source`) | `MCFam15Source` | `sysfs_fam15.c:103` overwrites `cpu` for every entry scanned after the match: the thread runs on another package |
| `ClosedMeansReturned` (`SourceObjects`) | `MCSourceObjects` | a failing `setup` of `perf.c` (`:180`, `:186`) loses the descriptor or the `reader_def`; `x86_adapt_fam23.c` never puts a device (`:93`, `:284`) nor frees its tree (`:121`); `likwid.c:214` never frees a `reader_def` |
| `InitOwned`, `ReadFindsAll` (`SourceObjects`) | `MCSourceObjects`, `OneOwner = FALSE` | `available_sources()` (`x86_energy.hpp:371`) hands out independent objects for one C source: the destructor of one ends the source under the other |
| `NoUnsetMutex` | `MCOverflowUnsetMutex` | with rate 0, `overflow_thread.c:110` returns without setting the mutex that `read` locks ("sets thread and mutex", `overflow_thread.h:38`) |
| `NoUnsetMutex` | `MCOverflowMutexRace` | the running thread calls a new counter (`:130`) before its mutex is set (`:140`) |
| `NoFreedCalls` | `MCOverflowFreedCalls` | `realloc` (`:64`, `:72`) while the thread walks the lists (`:95-96`) |
| `NoFreedInfo` | `MCOverflowFreedInfo` | `freeall` (`:191`) frees what a cancelled, not yet joined thread reads |
| `PeriodAsRequested` | `MCOverflowPeriod` | `:112` assigns the flag instead of the rate: 1 us ("the new update rate in us", `x86_energy.h:146`) |
| `NeverTooSlow` | `MCOverflowThread` | `:127` shortens the period of a thread that already sleeps the longer one it has loaded (`:94`): the counter that joins is read late the first time, against "Internal threads will take care of this" (`x86_energy.h:142`) |
| `ExistingThreadsKeepPeriod` | `MCOverflowExisting` | `:127` changes the period of an existing thread ("will not influence existing threads", `x86_energy.h:144`) |
| `NoDanglingCall` | `MCOverflowDangling` | `pthread_create` fails (`:136`), the call of a freed counter stays in the list |
| `NoStrayCall` (`SourceObjects`) | `MCSourceObjects` | the same seen from the sources: `x86_adapt.c:183`, `x86_adapt_fam23.c:249` and `likwid.c:185` free the counter whose call `overflow_thread.c:130` has added |
| `OpenIsWatched` | `MCOverflowDangling`, `Failures = {"functions"}` | the result of `add_call` is dropped (`:130`): a counter that no thread reads |
| `OpenReadsOwn` | `MCMsrCloseOne` | `msr.c:360` closes the descriptor the CPU's other counters use ("Close a single counter", `x86_energy.h:167`) |
| `NeverForeign` | `MCMsrForeign` | with `fds[cpu] = 0` (`msr.c:361`) the second close of the CPU closes descriptor 0, the next `open` returns it for another CPU, and the counter still open reads that one |
| `StdinUntouched` | `MCMsrForeign` | the second close of a CPU closes descriptor 0, standard input |
| `SetupHarmless` | `MCMsrForeign`, `Failures = {"pread"}` | a failing `setup` closes a shared descriptor (`msr.c:301`, `311`, `323`) |
| `OpenHasUnit` | `MCMsrSource`, `Failures = {"unit"}` | the unit -1.0 of a failing `get_default_unit` is taken for a unit (`msr.c:275`) |
| `ReadsAll` | `MCCpuListAll` | `parse_architecture.c:116` returns at the end of the text without storing the number just converted: "0-2,5" is read as 0, 1, 2 |
| `StaysInText` | `MCCpuListAll` | nothing ends the text in the buffer (`:52`, `:65`): for "0-3," and "0-" `strtol` (`:82`, `:122`) skips the newline and converts what an earlier call has left |
| `EveryCpuPlaced` | `MCTopology`, `Systems <- PlainLate` | the result of `add_cpu_and_core_to_node` is dropped (`:513`, `:517`): a CPU whose `core_id` cannot be read is missing from the tree, and nobody is told |
| `EveryNodeHasCpu` | `MCTopology`, `Systems <- PlainLate` | in the same way a die or a module is left without a core, and `get_test_cpu` reads its first child (`architecture.c:544`) |
| `FindsGranularity` | `MCTopology`, `Systems <- PlainWhole` | `parse_architecture.c:657`: the test for a thread comes before the test for the level |
| `IdsUnique` | `MCTopology`, `Systems <- PlainWhole` | `:503` numbers modules from 0 in every die ("unique for level", `x86_energy.h:64`) |
| `NoSharedChildren` | `MCTopology`, `Systems <- Spanning` | `:422` copies a node with the pointer to its children |
| `TreeMatches` | `MCTopology`, `Systems <- Hybrid` | `:328` finds a module where a core of the same id is meant |
| `AnnouncedIsHandled` | `MCMechanismHandled` | the granularities follow the processor, not the selected sources (`architecture.c:443`) |
| `AmdSourcesAsDocumented` | `MCMechanism` | `architecture.c:452` offers sysfs and perf for AMD RAPL, against `src/README.md:87` |

Two further instances hold and complete the picture of a source:
`MCX86AdaptRace` with `Readers = {client}` satisfies `MeterSpec` (one thread
needs no lock), and `MCOverflowFreedCounter` with `FreesDef = FALSE` (likwid)
satisfies `NoFreedCounter`.

## 5. Proofs

Checked by TLAPS with Z3, Zenon and LS4 (`tlapm M.tla`).

- `RaplSamplingProofs`, the extension: `ExtendExact`: for every `WRAP`, if the
  energy has grown by less than a turn since `last`, extending `last` with
  `energy % WRAP` gives `energy`. It rests on the uniqueness of quotient and
  remainder.
- `RaplSamplingProofs`, the counter: for every width, every set of readers and
  amount of energy. `Exact` is not inductive: while a thread is between the
  register and the store, `last` is behind. `Inv` adds `Holds` (the mutex belongs
  to exactly the thread in the critical section) and `Behind` (in between, `last`
  is less than a turn behind `sampled`, and the reading is `sampled % WRAP`).
  `Invariance` proves it, `TypeCorrect` and `ExactCorrect` follow, and
  `Refinement` shows that the initial states and every step of `RaplCounter`
  map to `EnergyMeter`: `Return` answers with a value between the energy at the
  call and the energy now, the other steps stutter.
- `RaplSamplingProofs`, the sampling: for every period, delay, rate, number of
  failures and width that satisfy `PeriodAssumption`. `TimedInv` bounds the age of
  the last sample in each part of the thread's loop: while it sleeps, waits or has
  failed, age and remaining sleep are at most one period and delay per failure
  more; after a read, the age is no more than the lateness. With it
  `age <= MaxGap` (`AgeBounded`), a `Burn` is a `Consume` of `RaplCounter`
  (`BurnIsConsume`), and every timed step is a step of `RaplCounter` or a stutter
  (`PremiseDischarged`). `SampledExact` and `SampledMeter` then come from the
  theorems on the counter: what it promises holds without its premise.
- `RaplSamplingProofs`, the counter without a lock: `AdaptAloneIsMeter`: with one
  reading thread (`Readers = {r}`, as after rate 0) `X86AdaptCounter` implements
  `EnergyMeter`. `AloneInv` relates the locals of the thread to the register it
  read: what `Compare`, `Load` and `Store` do one after the other is then `Extend`,
  and `ExtendExact` applies. With a second reader `last` may change between `Load`
  and `Store`; `NeverAboveEnergy` is violated in section 4.
- `PowercapSourceProofs`, the counter: `WrapsCorrect`, for every range and number
  of threads. `Inv` is built as that of `RaplCounter`, with `overflow` and
  `last_reading` written one after the other: in between, the two stand for a
  value less than a turn behind the sample.
- `PowercapSourceProofs`, the source: for every listing. `CounterInv` follows the
  register through `setup`: after the first reading it is less than a turn ahead of
  `first`, and when `Create` has stored `first`, `Inv` of the counter holds, which
  its actions keep; hence `PowercapWrapsExact`. `SetupInv` says that the zone whose
  file is open is the one looked for; hence `FilesCorrect`, `ZoneCorrect`.
  `ScanInv` adds the loop: as long as it runs, no entry it has passed was a zone
  it could have reached. `ScanLoopKeeps` has one case for each way an entry is
  left, and `SearchCorrect` is the end of the loop: NULL without a failure means
  that there was nothing to find.
- `Fam15SourceProofs`: for every number of threads and bounds of the power. The
  invariant `ReadInv` says, besides mutual exclusion, that times are stored in
  the order they are taken (a `tv` taken in the critical section is never before
  `lastTv`), and that between the addition and the store the sum is one interval
  ahead of `lastTv`. `IntervalsCorrect`, `AnswersCorrect`, `SumNeverBackwards`.
  For every board, `SetupInv` places the FILE that is held behind the scan; hence
  `ReadsOwnSensorCorrect`, and `SensorsBalancedCorrect`, in which
  `FirstOfItsPackage` is the step: with one function per package the scan, which
  goes on after a match, never opens a second FILE over the first.
- `MsrSourceProofs`: `MsrTypeCorrect` and `NeverStale`: in any number of CPUs,
  counters (shared CPUs included), descriptors and failures, a number above 0 in
  `fds` is a descriptor of its CPU's msr. The two are inductive together:
  closing a descriptor and forgetting its number touches no other CPU because
  no two numbers above 0 are the same (`ReleaseKeeps`). `NoLeakCorrect` needs no
  assumption either: `LeakInv` gives each descriptor to an open counter or to the
  setup in progress, and `ReleaseLeavesNone` says that a failing setup or a close
  gives back the only one its CPU has. `OwnCorrect` and `StdinCorrect` assume
  `OneCounterPerCpu`, the condition that the code needs
  and does not check (section 4 shows both violated without it); `OwnInv`
  adds what a setup in progress finds behind its number, descriptor 0 included.
- `SourceObjectsProofs`: for any number of objects, setups and CPUs.
  `OwnedCorrect` (no assumption on the program): the objects that are set and
  the open counters correspond one to one. `NothingLostCorrect` (none either):
  `FailureLeavesNone` goes through every step at which a `setup` of x86_adapt
  and x86_adapt_fam23 may fail; the calls in the lists are those of open counters
  and the ones a failing `pthread_create` has left, which section 4 shows to exist
  (`NoStrayCall`). `InitOwnedCorrect` and
  `ReadFindsAllCorrect` assume `OneOwner`; `LifeInv` says that open counters
  keep the source up, hold what they need, and that likwid knows
  every CPU it has listed. That a thread samples them is not claimed here, but by
  `OpenIsWatchedCorrect`, under its hypothesis. `TakesNeeds` and `ListsAddedCpus` are about the step
  sequences: whatever way `setup` takes, a counter it returns has taken what its
  `read` needs, and a CPU is listed only after it was added.
  `ObjectsTypeCorrect` types them (`SetupStepsTypes`). `X86AdaptReturnsAll` is the
  positive half of the violated `ClosedMeansReturned`: over `source = "x86_adapt"`,
  whatever fails, nothing is held once no counter is open.
- `OverflowThreadProofs`: for any CPUs, counters, rates and failures, and the
  program and all overflow threads interleaved at every step. None of the
  properties is inductive; the invariants stand on each other:
  - `TypeInv` = `TypeOK` and `Working` (who works on a counter has one);
    `OverflowTypeCorrect` includes that `nr` never exceeds the slots.
  - `Lives`: what a `reader_def` is at each position of the program.
  - `ListInv`. While `remove_call` is between its two steps the last entry is there
    twice, so `Firm(c)` counts the entries that are really there. `Slotted`: every
    slot, those behind `nr` included (the thread may still look there), names a
    counter of that CPU. `Distinct`: no entry twice. `Entered`: an entry is an open
    counter, or the one being set up or closed, or one that a failing
    `pthread_create` has left. `Findable`: a list in use is in `thread_infos`.
    `Complete`: no open counter is missing. From these `NoDanglingCorrect`,
    `OpenIsWatchedCorrect` and `CallsExactCorrect`.
  - `Periods` carries the promise from `setup` to the moment the counter opens and
    gives `PeriodKept`, the stored period is short enough for every open counter; a
    sleep that begins loads it (`SleepBegins`): `SleepsAsPromisedCorrect`, for every
    order of calls and every failure. A sleep in progress is not covered, and
    cannot be (`NeverTooSlow`, section 4).
  - `Fetched` (what a thread has in its hands it found in a slot) gives
    `KeptCounterCorrect`: a `close` that does not free, as likwid's, keeps the
    thread from following freed memory, which section 4 shows for all others.
  - `Started` (no CPU gets a second thread while the first can run) and `Owners`
    (who owns a mutex is where it can release it) give `ReadsAloneCorrect`: the
    program and an overflow thread never read one counter at the same time.

  Two hypotheses occur, and section 4 has a violated configuration without each:
  `"thread" \notin Failures` (`pthread_create` succeeds; else `MCOverflowDangling`)
  and `ListGrows` (`realloc` succeeds; else the same with
  `Failures = {"functions"}`). `FreesDef` and `Locks` say which source it is.
- `MechanismProofs`: for every set of processors, environment and build. `Picked`
  is what the first n offers come to under the variable as it was cached;
  `MechanismInv` says that the first pass has counted `Picked`, that the second has
  written `Picked`, and that every answer is the `Result` of one and the same
  choice. It is inductive because the variable is read once (`cached.known`) and
  because no source is offered twice (`OffersDistinct`): then one name selects at
  most one. `FillFitsCorrect`, `OneMechanismCorrect`, `UsableCorrect`; and
  `HandledUnlessSelected`, the positive half of the
  violated `AnnouncedIsHandled`: with no name to select by (`Names = {}`) it holds.
- `ParseArchitectureProofs`, the lists: for lists of any number of items and items of any size.
  `LoopInvariant`: while the loop runs, `pos` is behind the separator of some item
  `k` and `list` holds what the first `k` items add; when it has returned,
  `ReadsList` or `DamageNoticed` says what, also when a call has failed or the
  parser has left its text for what the buffer has behind it. Text and list are concatenations
  (`FlattenSeq`, a recursive function), so the lemmas on them need an induction:
  `SetInduction` takes the least number outside a set, which exists because `<` on
  the numbers is well-founded (`WFMin`), and needs no operator as parameter.
  `FlattenStep` is the step of the recursion, `TextStep` and `ReadStep` use it,
  `AtItem` and `AtEnd` say which tokens the loop finds where it stands. With
  `NextInv` (one case per way through the loop) follow `ReadsListCorrect`,
  `DamageNoticedCorrect`, and `ReadsStoredCorrect`, the positive half of the
  violated `ReadsAll`: a list that is returned has every CPU of the text but a
  single number at its end, and no other.
- `ParseArchitectureProofs`, the cores: `CoresUnique`: in every system of sockets,
  dies, modules and cores (`SocketNodes`), whatever ids the kernel gave, the ids
  after `Renumbered` are 0, 1, 2 ... up to the number of cores, and each names one
  core. `Counter` is where `current_core` stands when a loop comes to an element;
  it grows (`CounterGrows`) and covers every number below its total
  (`CounterCovers`), so a loop over elements whose cores are numbered numbers
  theirs (`NumberedLoop`), at each of the levels. It is the part of
  `CoresNumbered` that the renumbering has to do; that the tree has that shape
  (`Shaped`), and that `arch_count` counts the same cores, is checked by TLC.

The assumptions are the named ASSUMEs of the modules: `WRAP` positive, the
period short enough, powers ordered, `NoReader` no reader, `CpuOf` a function
into the CPUs, names distinct, listings finite sequences in which `Foreign` is
no package, lists of CPUs finite sequences of pairs of numbers, the switches
that say which source or build it is Boolean. TLC evaluates them in every run.
The invariants `CounterInv`, `SetupInv`, `ScanInv`, `LeakInv`, `LoopInv` and `AloneInv` are
stated in the modules of the components, so that TLC can check them too.

Only model-checked:

- liveness (`ReadsReturn`, `KeptSampled`, `ThreadsStop`, `ClientReturns`,
  `Terminates`): fairness and ENABLED are outside the prover;
- `Topology`, apart from the renumbering: building, sorting and searching the
  tree are recursive operators over trees, in a module that no theorem can reach.

## 6. Fairness

Threads are scheduled by the operating system: weak fairness of every step of
a thread that is inside a call or in its loop. A mutex that is free again and
again is granted eventually: strong fairness of taking it (pthreads does not
promise an order, but two threads that sleep between reads do not starve each
other). Nothing makes the program call anything, the hardware consume energy,
the clock advance, or an allocation fail: those actions have no fairness.
`CpuList` is one sequential loop: weak fairness of its next step.

## 7. Not modelled

- Texts: the error string (`error.c`, a buffer that nothing else depends on; its
  races are a hazard in `PROJECT.json`), names of nodes, `X86_ENERGY_SOURCE` as
  characters, the parsing of perf's event files.
- Units and floating point; the upper half of the msr registers, which Intel
  documents as zero (`msr.c` does not mask them, `msr_fam23.c` does).
- The scan of `/dev/cpu` (`msr.c:55-121`, `msr_fam23.c:52-118`): `fds` is taken
  to have an entry for every test CPU.
- `scandir` failing after `opendir` has succeeded (`sysfs.c:130`,
  `sysfs_fam15.c:90`): the loop `while (n--)` starts at -1 and follows an array
  that was not set.
- `sysfs` files of 0 bytes, for which `read_file_long_list` looks at a buffer
  nothing was read into, and what it makes of the old bytes it converts behind a
  truncated list.
- The `close(fd)` with which `x86_adapt.c:138`, `152` and `167` close a descriptor
  that belongs to libx86_adapt before they put the device back.
- `Architecture` and `ArchitectureNode` of the C++ wrapper, which read the tree.
- The stubs `msr_fam15.c` and `procfs.c`; the CMake files.
- A clock that is set back (`gettimeofday` in `sysfs_fam15.c`): the interval is
  negative, and the sum decreases.

## 8. Plan

1. Done: counters, sampling, powercap, family 15h, overflow threads, msr
   sources, lifecycles of perf, x86_adapt and likwid under the C++ objects, CPU
   lists, tree, mechanism; proofs of the counters, of their sampling, of the
   sources, of the overflow threads, of the mechanism, of the loop that reads CPU
   lists and of the renumbering of the cores: every safety property of a passing
   run outside `Topology`.
2. Next: `accessible` CPUs and the length of `fds` in `MsrSource`; second
   sessions in `OverflowThread` (`nr_thread_infos` survives `freeall`); the
   error string between two threads.
3. Composition: an abstract set of watched counters that `OverflowThread`
   without faults implements (`CallsExact` as refinement), and which
   `SourceObjects` uses as `watched`.
4. Proofs: that refinement.
