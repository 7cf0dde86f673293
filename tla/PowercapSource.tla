--------------------------- MODULE PowercapSource ---------------------------
(***************************************************************************)
(* The powercap source of sysfs.c for one counter: init() looks for any    *)
(* intel-rapl zone, setup() walks the alphabetical listing of              *)
(* /sys/class/powercap backwards to the zone of the wanted package and     *)
(* domain, opens its files and starts the sampling, do_read extends the    *)
(* value (SysfsCounter), close() gives the file back.                      *)
(*                                                                         *)
(* An entry of the listing is a zone intel-rapl:<root> (top) or            *)
(* intel-rapl:<root>:<m>, or Foreign: a name the sscanf mask does not      *)
(* take, such as dtpm, intel-rapl or intel-rapl-mmio:0.  The file name of  *)
(* a zone says "package-<id>", "package-<id>-die-<d>", "psys", or a        *)
(* domain; id is what strtol makes of it.                                  *)
(***************************************************************************)
EXTENDS SysfsCounter, Sequences

CONSTANTS Machines,     \* the listings: sequences of zones and Foreign
          Foreign,      \* an entry that is no intel-rapl zone
          Types,        \* the counter types asked for
          Indexes       \* the indexes for which get_test_cpu finds a CPU

\* What scandir delivers is a finite list.
ASSUME MachinesAssumption == \A l \in Machines : Len(l) \in Nat /\ DOMAIN l = 1 .. Len(l)

VARIABLES listing,      \* what scandir delivers on this machine
          phase,        \* where init, setup and close stand
          type,         \* setup's arguments
          index,
          n,            \* the loop variable of the scan
          zone,         \* the zone whose energy_uj final_fp is
          files,        \* how many FILEs of setup are open
          rangeRead,    \* final_max is what max_energy_range_uj said
          answer,       \* what the last setup returned
          failed        \* history: a call of the last setup failed

VARIABLE first          \* setup's local variable last_reading

setupVars == <<listing, phase, type, index, n, zone, files, rangeRead, answer, failed>>
sourceVars == <<vars, first, setupVars>>

\* There is no reader_def yet: overflow and last hold what its memory held
\* before, and sampled nothing that counts.
PowercapInit ==
    /\ energy \in 0 .. WRAP - 1
    /\ last \in 0 .. WRAP - 1 /\ overflow \in 0 .. 1
    /\ sampled = 0 /\ first = 0
    /\ mutex = NoReader
    /\ pc = [p \in Readers |-> "idle"]
    /\ reading = [p \in Readers |-> 0]
    /\ seen = [p \in Readers |-> 0]
    /\ result = [p \in Readers |-> READ_ERROR]
    /\ since = [p \in Readers |-> energy]
    /\ listing \in Machines
    /\ phase = "start"
    /\ type \in Types
    /\ index \in Indexes
    /\ n = 0
    /\ zone = Foreign
    /\ files = 0
    /\ rangeRead = FALSE
    /\ answer = "none"
    /\ failed = FALSE

-----------------------------------------------------------------------------

Entries == {listing[i] : i \in DOMAIN listing}
IsZone(e) == e # Foreign

\* What the file intel-rapl:<root>/name says.
RootOf(e) == CHOOSE r \in Entries : IsZone(r) /\ r.root = e.root /\ r.top

\* sysfs_names
NameOf(t) == IF t = "single_core" THEN "core" ELSE t

Wanted(e) == RootOf(e).id = index /\ e.name = NameOf(type)

-----------------------------------------------------------------------------

\* init() succeeds when one entry at least fits the mask.
SourceInit ==
    /\ phase = "start"
    /\ phase' = IF \E e \in Entries : IsZone(e) THEN "ready" ELSE "refused"
    /\ UNCHANGED <<listing, type, index, n, zone, files, rangeRead, answer, failed>>

\* setup(type, index): the directory is listed.
SetupBegins ==
    /\ phase = "ready"
    /\ type' \in Types
    /\ index' \in Indexes
    /\ phase' = "scan"
    /\ n' = Len(listing)
    /\ answer' = "none"
    /\ failed' = FALSE
    /\ UNCHANGED <<listing, zone, files, rangeRead>>

\* setup returns NULL; after the scan it has closed final_fp, if there was one.
ReturnsNull(open) ==
    /\ phase' = "ready"
    /\ n' = 0
    /\ zone' = Foreign
    /\ files' = open
    /\ rangeRead' = FALSE
    /\ answer' = "NULL"
    /\ UNCHANGED <<listing, type, index>>

Continues ==
    /\ n' = n - 1
    /\ UNCHANGED <<listing, phase, type, index, zone, files, rangeRead, answer, failed>>

Scanning == phase = "scan" /\ n > 0
AtZone == Scanning /\ IsZone(listing[n])
AtPackage == AtZone /\ RootOf(listing[n]).name = "package"

\* sscanf converts nothing: continue.
ForeignEntry == Scanning /\ ~IsZone(listing[n]) /\ Continues

\* The name of the root zone is not package-<id>: break, although entries
\* before this one may be packages.
NoPackage ==
    /\ AtZone
    /\ RootOf(listing[n]).name # "package"
    /\ ReturnsNull(0)
    /\ UNCHANGED failed

\* A bug form: the scan ends at the first other package.
OtherPackageBreaks ==
    /\ AtPackage
    /\ RootOf(listing[n]).id # index
    /\ ReturnsNull(0)
    /\ UNCHANGED failed

OtherPackage ==
    /\ AtPackage
    /\ RootOf(listing[n]).id # index
    /\ Continues

OtherDomain ==
    /\ AtPackage
    /\ RootOf(listing[n]).id = index
    /\ listing[n].name # NameOf(type)
    /\ Continues

\* A name file cannot be opened or read, or the energy_uj of the zone that
\* was found cannot be opened: break with final_fp == NULL.
NameOrEnergyFails ==
    /\ AtZone
    /\ ReturnsNull(0)
    /\ failed' = TRUE

\* A bug form: the package is not compared, only the domain.
OpenAnyPackage ==
    /\ AtPackage
    /\ listing[n].name = NameOf(type)
    /\ zone' = listing[n]
    /\ files' = files + 1
    /\ phase' = "range"
    /\ UNCHANGED <<listing, type, index, n, rangeRead, answer, failed>>

\* fopen(".../energy_uj") of the zone with the wanted package and name.
OpenEnergy ==
    /\ AtPackage
    /\ Wanted(listing[n])
    /\ zone' = listing[n]
    /\ files' = files + 1
    /\ phase' = "range"
    /\ UNCHANGED <<listing, type, index, n, rangeRead, answer, failed>>

ScanEnds ==
    /\ phase = "scan"
    /\ n = 0
    /\ ReturnsNull(0)
    /\ UNCHANGED failed

\* max_energy_range_uj is read.  The test for failure is read == 0, so that
\* an empty file (EOF) passes with max uninitialised.
ReadRange ==
    /\ phase = "range"
    /\ rangeRead' \in BOOLEAN
    /\ phase' = "first"
    /\ UNCHANGED <<listing, type, index, n, zone, files, answer, failed>>

\* A bug form: final_max == -1 returns without fclose.
RangeFailsUnclosed ==
    /\ phase = "range"
    /\ ReturnsNull(files)
    /\ failed' = TRUE

\* It cannot be opened, or holds no number: final_max stays -1.
RangeFails ==
    /\ phase = "range"
    /\ ReturnsNull(files - 1)
    /\ failed' = TRUE

\* The processor consumes energy before anyone reads it: the register turns.
Drift ==
    /\ phase \notin {"create", "open", "closed"}
    /\ energy' = (energy + 1) % WRAP
    /\ UNCHANGED <<last, overflow, mutex, pc, reading, seen, result, since, sampled>>
    /\ UNCHANGED <<first, setupVars>>

\* fscanf(final_fp, ...), fseek and fflush.  Energy is counted from the turn
\* of the register in which this reading falls.
FirstReading ==
    /\ phase = "first"
    /\ first' = energy % WRAP
    /\ energy' = energy % WRAP
    /\ sampled' = energy % WRAP
    /\ phase' = "create"
    /\ UNCHANGED <<last, overflow, mutex, pc, reading, seen, result, since>>
    /\ UNCHANGED <<listing, type, index, n, zone, files, rangeRead, answer, failed>>

\* One of them fails, or x86_energy_overflow_thread_create does: fclose.
FirstOrCreateFails ==
    /\ phase \in {"first", "create"}
    /\ ReturnsNull(files - 1)
    /\ failed' = TRUE

\* A bug form: the wraps of the new reader_def are not cleared.
CreateUncleared ==
    /\ phase = "create"
    /\ phase' = "open"
    /\ last' = first
    /\ answer' = "counter"
    /\ UNCHANGED <<energy, overflow, mutex, pc, reading, seen, result, since, sampled>>
    /\ UNCHANGED <<listing, type, index, n, zone, files, rangeRead, failed>>
    /\ UNCHANGED first

\* The new reader_def is filled and handed to the overflow thread.
Create ==
    /\ phase = "create"
    /\ phase' = "open"
    /\ last' = first
    /\ overflow' = 0
    /\ answer' = "counter"
    /\ UNCHANGED <<energy, mutex, pc, reading, seen, result, since, sampled>>
    /\ UNCHANGED <<listing, type, index, n, zone, files, rangeRead, failed>>
    /\ UNCHANGED first

\* close(): no thread is inside do_read any more (OverflowThread shows what
\* happens when one is).
Close ==
    /\ phase = "open"
    /\ \A p \in Readers : pc[p] = "idle"
    /\ phase' = "closed"
    /\ files' = files - 1
    /\ UNCHANGED <<listing, type, index, n, zone, rangeRead, answer, failed>>

ScanStep ==
    \/ SourceInit
    \/ SetupBegins
    \/ ForeignEntry
    \/ NoPackage
    \/ OtherPackage
    \/ OtherDomain
    \/ NameOrEnergyFails
    \/ OpenEnergy
    \/ ScanEnds
    \/ ReadRange
    \/ RangeFails
    \/ FirstOrCreateFails
    \/ Close

\* From the first reading on the counter is read at least once per turn, so
\* that Consume of SysfsCounter says what the register does.
PowercapNext ==
    \/ ScanStep /\ UNCHANGED <<vars, first>>
    \/ Drift
    \/ FirstReading
    \/ phase = "create" /\ Consume /\ UNCHANGED <<first, setupVars>>
    \/ Create
    \/ phase = "open" /\ Next /\ UNCHANGED <<first, setupVars>>

PowercapSpec == PowercapInit /\ [][PowercapNext]_sourceVars

-----------------------------------------------------------------------------

Phases == {"start", "refused", "ready", "scan", "range", "first", "create", "open", "closed"}

PowercapTypeOK ==
    /\ listing \in Machines
    /\ phase \in Phases
    /\ type \in Types /\ index \in Indexes
    /\ n \in 0 .. Len(listing)
    /\ zone \in Entries \union {Foreign}
    /\ files \in 0 .. 1
    /\ first \in 0 .. WRAP - 1
    /\ rangeRead \in BOOLEAN /\ failed \in BOOLEAN
    /\ answer \in {"none", "NULL", "counter"}

\* A counter that setup has returned reads the zone of the package and domain
\* it was asked for: neither another package's nor another domain's file.
\* For X86_ENERGY_COUNTER_SINGLE_CORE the index is that of a core, which the
\* scan takes for a package.
ReadsWantedZone ==
    answer = "counter" /\ type # "single_core" =>
        RootOf(zone).id = index /\ zone.name = type

\* Whatever call of setup fails, a setup that returns NULL leaves no FILE
\* open, a counter holds exactly one, and close() gives it back.
FilesBalanced ==
    files = IF phase \in {"range", "first", "create", "open"} THEN 1 ELSE 0

\* What the scan is to find: a zone of that package and domain that is listed
\* with nothing but packages after it.
InReach(i) ==
    /\ IsZone(listing[i]) /\ Wanted(listing[i])
    /\ \A j \in i .. Len(listing) : IsZone(listing[j]) => RootOf(listing[j]).name = "package"

\* A setup that returns NULL although nothing failed was asked for something
\* the machine does not show.
FindsWhatIsListed ==
    answer = "NULL" /\ ~failed => ~\E i \in DOMAIN listing : InReach(i)

\* From the moment setup hands the counter over, and between any two reads of
\* the client and the overflow thread, overflow and last_reading stand for the
\* energy at the last read of energy_uj: the register may turn while setup is
\* still searching or fails and is called again, and between the first reading
\* and the first do_read, and no wrap is counted that the first reading has not
\* seen, or twice, and none is missed.
CountedFromSetup == phase \in {"open", "closed"} => WrapsExact

\* The inductive invariant behind it: nobody is inside do_read before the
\* counter is handed over, and what setup hands over is the last reading.
CounterInv ==
    /\ TypeOK /\ first \in 0 .. WRAP - 1
    /\ phase # "open" => mutex = NoReader /\ \A p \in Readers : pc[p] = "idle"
    /\ phase = "create" => first = sampled /\ sampled <= energy /\ energy < sampled + WRAP
    /\ phase \in {"open", "closed"} => Holds /\ Behind

\* And behind the two before: what setup has opened is what it looked for.
Found ==
    /\ phase \in {"range", "first", "create", "open", "closed"} => Wanted(zone)
    /\ answer = "counter" => phase \in {"open", "closed"}

SetupInv == Found /\ FilesBalanced

\* And behind FindsWhatIsListed: what the scan has passed was not wanted.
ScanInv ==
    /\ listing \in Machines /\ n \in 0 .. Len(listing)
    /\ phase = "scan" =>
          answer = "none" /\ ~failed /\ ~\E i \in n + 1 .. Len(listing) : InReach(i)
    /\ FindsWhatIsListed

\* "setup() will return NULL" for what the machine has not got: with a zone
\* that is no package listed last (psys), it does so for what it has.
FindsEveryZone ==
    answer = "NULL" /\ ~failed => ~\E e \in Entries : IsZone(e) /\ Wanted(e)

\* def->max is what the kernel says: an empty max_energy_range_uj passes.
RangeIsRead == answer = "counter" => rangeRead
=============================================================================
