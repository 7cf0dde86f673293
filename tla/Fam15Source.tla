---------------------------- MODULE Fam15Source ----------------------------
(***************************************************************************)
(* sysfs_fam15.c: the sensor of a family 15h processor shows a power, not  *)
(* an energy.  do_read multiplies it by the time since the last reading    *)
(* and adds it up, under the mutex of the reader_def; the sum is loaded    *)
(* for the return value after the unlock.  setup() looks for the sensor of *)
(* a package among the PCI functions of the driver and, unlike sysfs.c,    *)
(* goes on after it has found one.                                         *)
(*                                                                         *)
(* An entry of the listing is the package of the first CPU in its          *)
(* local_cpulist, or Foreign when its name is no PCI function.  Time is    *)
(* counted in ticks from the moment setup asks for it, and gettimeofday    *)
(* never steps back.                                                       *)
(***************************************************************************)
EXTENDS Integers, Sequences

CONSTANTS Readers,      \* the threads that may call do_read
          NoReader,     \* the owner of a free mutex
          PMin, PMax,   \* the sensor shows a power between these
          MaxTime,      \* bound: the clock stops here
          MaxFiles,     \* the FILEs a process may have open
          Listings,     \* what scandir may deliver
          Foreign,      \* an entry that is no PCI function
          Packages      \* the packages for which get_test_cpu finds a CPU

ASSUME ReadersAssumption == NoReader \notin Readers
ASSUME PowerAssumption == PMin \in Nat /\ PMax \in Nat /\ PMin <= PMax
\* What scandir delivers is a finite list; Foreign is not the number of a package.
ASSUME ListingsAssumption == Listings \subseteq Seq(Int \union {Foreign}) /\ Foreign \notin Packages

VARIABLES clock,        \* gettimeofday
          lastTv,       \* def->last_reading_tv
          energy,       \* def->energy
          mutex,        \* owner of def->mutex
          pc,           \* pc[p]: where p stands in do_read
          tv, watts,    \* tv[p], watts[p]: p's local variables
          result,       \* result[p]: what p's last call returned
          since,        \* history: the time when p's current or last call began
          listing, phase, package, n,
          cpu,          \* the package of setup's variable cpu
          file,         \* the entry whose sensor final_fp is, 0: none
          files,        \* how many FILEs of sensors are open
          answer        \* what the last setup returned

readVars == <<clock, lastTv, energy, mutex, pc, tv, watts, result, since>>
setupVars == <<listing, phase, package, n, cpu, file, files, answer>>
vars == <<readVars, setupVars>>

READ_ERROR == -1

Init ==
    /\ clock = 0 /\ lastTv = 0 /\ energy = 0
    /\ mutex = NoReader
    /\ pc = [p \in Readers |-> "idle"]
    /\ tv = [p \in Readers |-> 0]
    /\ watts = [p \in Readers |-> PMin]
    /\ result = [p \in Readers |-> READ_ERROR]
    /\ since = [p \in Readers |-> 0]
    /\ listing \in Listings
    /\ phase = "start"
    /\ package \in Packages
    /\ n = 0 /\ cpu = package /\ file = 0 /\ files = 0
    /\ answer = "none"

-----------------------------------------------------------------------------
(* init() and setup() *)

\* opendir() and the hardware tree succeed, or not.
SourceInit ==
    /\ phase = "start"
    /\ phase' \in {"ready", "refused"}
    /\ UNCHANGED <<listing, package, n, cpu, file, files, answer>>

\* setup(X86_ENERGY_COUNTER_PCKG, k); any other type is refused here.
SetupBegins(k) ==
    /\ phase = "ready"
    /\ package' = k
    /\ cpu' = k
    /\ phase' = "scan"
    /\ n' = Len(listing)
    /\ answer' = "none"
    /\ UNCHANGED <<listing, file, files>>

ReturnsNull(open) ==
    /\ phase' = "ready"
    /\ n' = 0
    /\ file' = 0
    /\ files' = open
    /\ answer' = "NULL"
    /\ UNCHANGED <<listing, package, cpu>>

Scanning == phase = "scan" /\ n > 0

SkipForeign ==
    /\ Scanning
    /\ listing[n] = Foreign
    /\ n' = n - 1
    /\ UNCHANGED <<listing, phase, package, cpu, file, files, answer>>

\* local_cpulist cannot be opened or read: break, with what was found so far.
CpuListFails ==
    /\ Scanning
    /\ listing[n] # Foreign
    /\ n' = 0
    /\ UNCHANGED <<listing, phase, package, cpu, file, files, answer>>

\* The variable cpu is overwritten, even after the sensor has been found.
OtherPackage ==
    /\ Scanning
    /\ listing[n] \notin {Foreign, package}
    /\ cpu' = listing[n]
    /\ n' = n - 1
    /\ UNCHANGED <<listing, phase, package, file, files, answer>>

\* A bug form: the package is not compared.
OpenAnySensor ==
    /\ Scanning
    /\ listing[n] # Foreign
    /\ files < MaxFiles
    /\ cpu' = listing[n]
    /\ file' = n
    /\ files' = files + 1
    /\ n' = n - 1
    /\ UNCHANGED <<listing, phase, package, answer>>

\* The sensor is opened and the scan goes on: a second entry of the same
\* package takes the place of the first, whose FILE stays open.
OpenSensor ==
    /\ Scanning
    /\ listing[n] = package
    /\ files < MaxFiles
    /\ cpu' = listing[n]
    /\ file' = n
    /\ files' = files + 1
    /\ n' = n - 1
    /\ UNCHANGED <<listing, phase, package, answer>>

OpenSensorFails ==
    /\ Scanning
    /\ listing[n] = package
    /\ ReturnsNull(files)

ScanFindsNothing ==
    /\ phase = "scan" /\ n = 0 /\ file = 0
    /\ ReturnsNull(files)

ScanEnds ==
    /\ phase = "scan" /\ n = 0 /\ file # 0
    /\ phase' = "first"
    /\ UNCHANGED <<listing, package, n, cpu, file, files, answer>>

\* A bug form: the FILE is forgotten with the error.
FirstFailsUnclosed ==
    /\ phase = "first"
    /\ ReturnsNull(files)

\* The first reading fails, or x86_energy_overflow_thread_create: fclose.
FirstFails ==
    /\ phase = "first"
    /\ ReturnsNull(files - 1)

\* energy = 0 and last_reading_tv = now (the Init of readVars).
Create ==
    /\ phase = "first"
    /\ phase' = "open"
    /\ answer' = "counter"
    /\ UNCHANGED <<listing, package, n, cpu, file, files>>

\* close(), when no thread is inside do_read.
Close ==
    /\ phase = "open"
    /\ \A p \in Readers : pc[p] = "idle"
    /\ phase' = "closed"
    /\ files' = files - 1
    /\ file' = 0
    /\ answer' = "none"
    /\ UNCHANGED <<listing, package, n, cpu>>

SetupStep ==
    \/ SourceInit
    \/ \E k \in Packages : SetupBegins(k)
    \/ SkipForeign
    \/ CpuListFails
    \/ OtherPackage
    \/ OpenSensor
    \/ OpenSensorFails
    \/ ScanFindsNothing
    \/ ScanEnds
    \/ FirstFails
    \/ Create
    \/ Close

-----------------------------------------------------------------------------
(* do_read *)

Tick ==
    /\ clock < MaxTime
    /\ clock' = clock + 1
    /\ UNCHANGED <<lastTv, energy, mutex, pc, tv, watts, result, since>>

Call(p) ==
    /\ pc[p] = "idle"
    /\ pc' = [pc EXCEPT ![p] = "lock"]
    /\ since' = [since EXCEPT ![p] = clock]
    /\ UNCHANGED <<clock, lastTv, energy, mutex, tv, watts, result>>

\* A bug form: the mutex is not waited for.
LockWithoutWaiting(p) ==
    /\ pc[p] = "lock"
    /\ mutex' = p
    /\ pc' = [pc EXCEPT ![p] = "time"]
    /\ UNCHANGED <<clock, lastTv, energy, tv, watts, result, since>>

Lock(p) ==
    /\ pc[p] = "lock"
    /\ mutex = NoReader
    /\ mutex' = p
    /\ pc' = [pc EXCEPT ![p] = "time"]
    /\ UNCHANGED <<clock, lastTv, energy, tv, watts, result, since>>

\* A bug form: the time is that of the call, before the wait for the mutex.
TakeTimeOfCall(p) ==
    /\ pc[p] = "time"
    /\ tv' = [tv EXCEPT ![p] = since[p]]
    /\ pc' = [pc EXCEPT ![p] = "scan"]
    /\ UNCHANGED <<clock, lastTv, energy, mutex, watts, result, since>>

\* gettimeofday(&tv, NULL)
TakeTime(p) ==
    /\ pc[p] = "time"
    /\ tv' = [tv EXCEPT ![p] = clock]
    /\ pc' = [pc EXCEPT ![p] = "scan"]
    /\ UNCHANGED <<clock, lastTv, energy, mutex, watts, result, since>>

\* What the sensor shows at this moment.
ScanPower(p) ==
    /\ pc[p] = "scan"
    /\ \E w \in PMin .. PMax : watts' = [watts EXCEPT ![p] = w]
    /\ pc' = [pc EXCEPT ![p] = "add"]
    /\ UNCHANGED <<clock, lastTv, energy, mutex, tv, result, since>>

\* fscanf, fseek or fflush fails: the interval is left to the next reading.
ScanFails(p) ==
    /\ pc[p] = "scan"
    /\ mutex' = NoReader
    /\ result' = [result EXCEPT ![p] = READ_ERROR]
    /\ pc' = [pc EXCEPT ![p] = "idle"]
    /\ UNCHANGED <<clock, lastTv, energy, tv, watts, since>>

\* def->energy += time * power
AddEnergy(p) ==
    /\ pc[p] = "add"
    /\ energy' = energy + (tv[p] - lastTv) * watts[p]
    /\ pc' = [pc EXCEPT ![p] = "store"]
    /\ UNCHANGED <<clock, lastTv, mutex, tv, watts, result, since>>

\* A bug form: the clock is asked again, and the time in between is lost.
StoreTimeNow(p) ==
    /\ pc[p] = "store"
    /\ lastTv' = clock
    /\ pc' = [pc EXCEPT ![p] = "unlock"]
    /\ UNCHANGED <<clock, energy, mutex, tv, watts, result, since>>

\* def->last_reading_tv = tv
StoreTime(p) ==
    /\ pc[p] = "store"
    /\ lastTv' = tv[p]
    /\ pc' = [pc EXCEPT ![p] = "unlock"]
    /\ UNCHANGED <<clock, energy, mutex, tv, watts, result, since>>

Unlock(p) ==
    /\ pc[p] = "unlock"
    /\ mutex' = NoReader
    /\ pc' = [pc EXCEPT ![p] = "return"]
    /\ UNCHANGED <<clock, lastTv, energy, tv, watts, result, since>>

\* return def->energy, loaded after the unlock
Return(p) ==
    /\ pc[p] = "return"
    /\ result' = [result EXCEPT ![p] = energy]
    /\ pc' = [pc EXCEPT ![p] = "idle"]
    /\ UNCHANGED <<clock, lastTv, energy, mutex, tv, watts, since>>

ReadStep(p) ==
    \/ Call(p)
    \/ Lock(p)
    \/ TakeTime(p)
    \/ ScanPower(p)
    \/ ScanFails(p)
    \/ AddEnergy(p)
    \/ StoreTime(p)
    \/ Unlock(p)
    \/ Return(p)

Next ==
    \/ SetupStep /\ UNCHANGED readVars
    \/ /\ phase = "open"
       /\ Tick \/ \E p \in Readers : ReadStep(p)
       /\ UNCHANGED setupVars

Spec == Init /\ [][Next]_vars

-----------------------------------------------------------------------------

InSection(p) == pc[p] \in {"time", "scan", "add", "store", "unlock"}

TypeOK ==
    /\ clock \in Nat /\ lastTv \in Nat /\ energy \in Nat
    /\ mutex \in Readers \union {NoReader}
    /\ pc \in [Readers -> {"idle", "lock", "time", "scan", "add", "store",
                           "unlock", "return"}]
    /\ tv \in [Readers -> Nat] /\ since \in [Readers -> Nat]
    /\ watts \in [Readers -> PMin .. PMax]
    /\ result \in [Readers -> Nat \union {READ_ERROR}]

\* A sum of power over the time t is possible.
Possible(e, t) == PMin * t <= e /\ e <= PMax * t

\* Outside the critical section the sum covers exactly the time up to
\* last_reading_tv: no interval is dropped, and none is added twice by the
\* program and the overflow thread, whatever fails in between.
EveryIntervalOnce == mutex = NoReader => Possible(energy, lastTv)

\* An answer is an energy that can have been consumed by some moment of the
\* call, although it is loaded after the unlock.
AnswersPossible ==
    \A p \in Readers :
        pc[p] = "idle" /\ result[p] # READ_ERROR =>
            PMin * since[p] <= result[p] /\ result[p] <= PMax * clock

\* The sum never runs backwards, in whatever order the threads get the mutex.
NeverBackwards == [][energy' >= energy]_vars

\* The counter that setup has returned reads the sensor of its package.
ReadsOwnSensor == answer = "counter" => file # 0 /\ listing[file] = package

OneEntryPerPackage ==
    \A i, j \in DOMAIN listing :
        listing[i] = listing[j] /\ listing[i] # Foreign => i = j

\* Where every package has one PCI function, no path through setup and close
\* leaves a FILE open.
SensorsBalanced ==
    OneEntryPerPackage => files = IF file = 0 THEN 0 ELSE 1

\* The inductive invariant of do_read: the mutex belongs to the thread in the
\* critical section; times are stored in the order they were taken; the sum
\* is ahead of last_reading_tv only between the two assignments.
Holds == \A p \in Readers : InSection(p) <=> mutex = p

Times ==
    /\ lastTv <= clock
    /\ \A p \in Readers :
          /\ since[p] <= clock
          /\ pc[p] \in {"scan", "add", "store"} =>
                lastTv <= tv[p] /\ tv[p] <= clock /\ since[p] <= tv[p]
          /\ pc[p] \in {"unlock", "return"} => since[p] <= lastTv

Sum ==
    /\ PMin * lastTv <= energy /\ energy <= PMax * clock
    /\ \A p \in Readers : pc[p] = "store" => Possible(energy, tv[p])
    /\ (\A p \in Readers : pc[p] # "store") => Possible(energy, lastTv)

Answers ==
    \A p \in Readers : result[p] # READ_ERROR =>
        /\ pc[p] = "idle" => PMin * since[p] <= result[p]
        /\ result[p] <= PMax * clock

ReadInv == TypeOK /\ Holds /\ Times /\ Sum /\ Answers

\* The inductive invariant of setup and close: what has been found is behind
\* the scan, and is the sensor of the package; with one entry per package no
\* second FILE is opened while one is held.
SetupInv ==
    /\ listing \in Listings /\ package \in Packages /\ n \in 0 .. Len(listing)
    /\ phase # "scan" => n = 0
    /\ phase \in {"first", "open"} => file # 0
    /\ phase \notin {"scan", "first", "open"} => file = 0
    /\ file # 0 => file \in n + 1 .. Len(listing) /\ listing[file] = package
    /\ answer = "counter" => phase = "open"
    /\ SensorsBalanced

\* Every FILE is given back: with two PCI functions of one package, as on the
\* processors of two dies, the first one is not.
EverySensorClosed == files = IF file = 0 THEN 0 ELSE 1

\* The counter is sampled on a CPU of its own package.
SampledOnPackage == answer = "counter" => cpu = package
=============================================================================
