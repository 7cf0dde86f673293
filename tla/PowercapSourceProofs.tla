------------------------ MODULE PowercapSourceProofs ------------------------
(***************************************************************************)
(* SysfsCounter for every range of energy_uj, every max_energy_range_uj,   *)
(* every set of reading threads and every amount of energy; and the source *)
(* around it for every listing of /sys/class/powercap.                     *)
(***************************************************************************)
EXTENDS PowercapSource, TLAPS

-----------------------------------------------------------------------------
(* The counter: SysfsCounter *)

\* Counting a wrap brings the pair up to the file: if the file shows less
\* than last_reading it has turned once, otherwise not at all.
LEMMA CountingExact ==
    ASSUME NEW o \in Nat, NEW l \in 0 .. WRAP - 1, NEW s \in Nat,
           o * WRAP + l <= s, s < o * WRAP + l + WRAP
    PROVE  (IF s % WRAP < l THEN o + 1 ELSE o) * WRAP + (s % WRAP) = s
<1> DEFINE r == s \div WRAP
           low == s % WRAP
<1>1. WRAP \in Nat /\ WRAP > 0
  BY WrapAssumption
<1>2. r \in Nat /\ low \in 0 .. WRAP - 1 /\ s = WRAP * r + low
  BY <1>1
<1> HIDE DEF r, low
<1>3. r >= o
  <2>1. SUFFICES ASSUME r + 1 <= o PROVE FALSE
    BY <1>2
  <2>2. WRAP * (r + 1) <= WRAP * o
    BY <2>1, <1>1, <1>2
  <2>3. WRAP * (r + 1) = WRAP * r + WRAP /\ o * WRAP = WRAP * o
    BY <1>1, <1>2
  <2>. QED  BY <2>2, <2>3, <1>1, <1>2
<1>4. r <= o + 1
  <2>1. SUFFICES ASSUME o + 2 <= r PROVE FALSE
    BY <1>2
  <2>2. WRAP * (o + 2) <= WRAP * r
    BY <2>1, <1>1, <1>2
  <2>3. WRAP * (o + 2) = WRAP * o + 2 * WRAP /\ o * WRAP = WRAP * o
    BY <1>1
  <2>. QED  BY <2>2, <2>3, <1>1, <1>2
<1>5. CASE r = o
  <2>1. s = o * WRAP + low
    BY <1>1, <1>2, <1>5
  <2>2. ~(low < l)
    BY <1>1, <1>2, <2>1
  <2>. QED  BY <2>1, <2>2 DEF low
<1>6. CASE r = o + 1
  <2>1. s = (o + 1) * WRAP + low
    BY <1>1, <1>2, <1>6
  <2>2. (o + 1) * WRAP = o * WRAP + WRAP
    BY <1>1
  <2>3. low < l
    BY <1>1, <1>2, <2>1, <2>2
  <2>. QED  BY <2>1, <2>3 DEF low
<1>. QED  BY <1>2, <1>3, <1>4, <1>5, <1>6

LEMMA InvInit == Init => Inv
<1> SUFFICES ASSUME Init PROVE Inv
  OBVIOUS
<1> USE WrapAssumption, SysfsReadersAssumption
<1>1. TypeOK
  BY DEF Init, TypeOK
<1>2. Counted = sampled
  BY <1>1 DEF Init, Counted, TypeOK
<1>. QED  BY <1>1, <1>2 DEF Init, Inv, Holds, Behind

LEMMA InvNext == Inv /\ [Next]_vars => Inv'
<1> SUFFICES ASSUME Inv, [Next]_vars PROVE Inv'
  OBVIOUS
<1> USE WrapAssumption, SysfsReadersAssumption, SysfsEnergyAssumption DEF Inv
<1>1. CASE Consume
  <2>1. energy' \in Nat
    BY <1>1 DEF Consume, TypeOK
  <2>a. TypeOK'
    BY <1>1, <2>1 DEF Consume, TypeOK
  <2>b. Holds'
    BY <1>1 DEF Consume, TypeOK, Holds
  <2>2. Counted' = Counted
    BY <1>1 DEF Consume, Counted
  <2>3. sampled' = sampled /\ overflow' = overflow /\ reading' = reading /\ pc' = pc
    BY <1>1 DEF Consume
  <2>4. sampled' <= energy' /\ energy' < sampled' + WRAP
    BY <1>1 DEF Consume, TypeOK, Behind
  <2>. QED  BY <2>a, <2>b, <2>2, <2>3, <2>4 DEF Behind
<1>2. ASSUME NEW p \in Readers, Call(p) PROVE Inv'
  <2>a. TypeOK'
    BY <1>2 DEF Call, TypeOK
  <2>b. Holds'
    BY <1>2 DEF Call, TypeOK, Holds
  <2>2. Counted' = Counted
    BY <1>2 DEF Call, Counted
  <2>. QED  BY <1>2, <2>a, <2>b, <2>2 DEF Call, TypeOK, Behind
<1>3. ASSUME NEW p \in Readers, Lock(p) PROVE Inv'
  <2>a. TypeOK'
    BY <1>3 DEF Lock, TypeOK
  <2>b. Holds'
    BY <1>3 DEF Lock, TypeOK, Holds
  <2>2. Counted' = Counted
    BY <1>3 DEF Lock, Counted
  <2>. QED  BY <1>3, <2>a, <2>b, <2>2 DEF Lock, TypeOK, Behind
<1>4. ASSUME NEW p \in Readers, Scan(p) PROVE Inv'
  <2>1. energy % WRAP \in 0 .. WRAP - 1
    BY WrapAssumption DEF TypeOK
  <2>a. TypeOK'
    BY <1>4, <2>1 DEF Scan, TypeOK
  <2>b. Holds'
    BY <1>4, <2>1 DEF Scan, TypeOK, Holds
  <2>3. \A q \in Readers : pc[q] \notin {"count", "store"}
    BY <1>4 DEF Scan, Holds
  <2>4. Counted' = Counted /\ Counted = sampled
    BY <1>4, <2>3 DEF Scan, Counted, Behind
  <2>5. sampled' <= energy' /\ energy' < sampled' + WRAP
    BY <1>4 DEF Scan, TypeOK
  <2>6. \A q \in Readers : pc'[q] \in {"count", "store"} =>
           q = p /\ pc'[q] = "count" /\ reading'[q] = sampled' % WRAP
    BY <1>4, <2>3 DEF Scan, TypeOK
  <2>7. Counted' <= sampled' /\ sampled' < Counted' + WRAP
    BY <1>4, <2>4 DEF Scan, TypeOK, Behind
  <2>. QED  BY <1>4, <2>a, <2>b, <2>5, <2>6, <2>7 DEF Scan, TypeOK, Behind
<1>5. ASSUME NEW p \in Readers, ScanFails(p) PROVE Inv'
  <2>a. TypeOK'
    BY <1>5 DEF ScanFails, TypeOK
  <2>b. Holds'
    BY <1>5 DEF ScanFails, TypeOK, Holds
  <2>2. Counted' = Counted
    BY <1>5 DEF ScanFails, Counted
  <2>. QED  BY <1>5, <2>a, <2>b, <2>2 DEF ScanFails, TypeOK, Behind
<1>6. ASSUME NEW p \in Readers, CountWrap(p) PROVE Inv'
  <2>1. overflow' \in Nat
    BY <1>6 DEF CountWrap, TypeOK
  <2>a. TypeOK'
    BY <1>6, <2>1 DEF CountWrap, TypeOK
  <2>b. Holds'
    BY <1>6 DEF CountWrap, TypeOK, Holds
  <2>2. \A q \in Readers : pc[q] \in {"count", "store"} => q = p
    BY <1>6 DEF CountWrap, Holds
  <2>3. /\ reading[p] = sampled % WRAP
        /\ overflow * WRAP + last <= sampled
        /\ sampled < overflow * WRAP + last + WRAP
    BY <1>6 DEF CountWrap, Behind, Counted
  <2>4. (IF sampled % WRAP < last THEN overflow + 1 ELSE overflow) * WRAP
            + (sampled % WRAP) = sampled
    BY <2>3, CountingExact DEF TypeOK
  <2>5. overflow' * WRAP + reading'[p] = sampled'
    BY <1>6, <2>3, <2>4 DEF CountWrap
  <2>. QED  BY <1>6, <2>a, <2>b, <2>2, <2>3, <2>5 DEF CountWrap, TypeOK, Behind
<1>7. ASSUME NEW p \in Readers, StoreReading(p) PROVE Inv'
  <2>a. TypeOK'
    BY <1>7 DEF StoreReading, TypeOK
  <2>b. Holds'
    BY <1>7 DEF StoreReading, TypeOK, Holds
  <2>2. \A q \in Readers : pc[q] \in {"count", "store"} => q = p
    BY <1>7 DEF StoreReading, Holds
  <2>3. Counted' = sampled'
    BY <1>7 DEF StoreReading, Counted, Behind
  <2>. QED  BY <1>7, <2>a, <2>b, <2>2, <2>3 DEF StoreReading, TypeOK, Behind
<1>8. ASSUME NEW p \in Readers, Unlock(p) PROVE Inv'
  <2>a. TypeOK'
    BY <1>8 DEF Unlock, TypeOK
  <2>b. Holds'
    BY <1>8 DEF Unlock, TypeOK, Holds
  <2>2. Counted' = Counted
    BY <1>8 DEF Unlock, Counted
  <2>. QED  BY <1>8, <2>a, <2>b, <2>2 DEF Unlock, TypeOK, Behind
<1>9. ASSUME NEW p \in Readers,
             LoadOverflow(p) \/ LoadLast(p) \/ ReturnWithLast(p) \/ ReturnWithOverflow(p)
      PROVE  Inv'
  <2> USE <1>9 DEF LoadOverflow, LoadLast, ReturnWithLast, ReturnWithOverflow
  <2>a. TypeOK'
    BY DEF TypeOK
  <2>b. Holds'
    BY DEF TypeOK, Holds
  <2>2. Counted' = Counted
    BY DEF Counted
  <2>. QED  BY <2>a, <2>b, <2>2 DEF TypeOK, Behind
<1>10. CASE UNCHANGED vars
  BY <1>10 DEF vars, TypeOK, Holds, Behind, Counted
<1>. QED
  BY <1>1, <1>2, <1>3, <1>4, <1>5, <1>6, <1>7, <1>8, <1>9, <1>10 DEF Next, Step

\* Type correctness, mutual exclusion in do_read and the bounds on the pair
\* hold in every reachable state.
THEOREM SysfsInvariance == Spec => []Inv
BY InvInit, InvNext, PTL DEF Spec

\* Where nobody holds the mutex, nobody is between the read and the store.
LEMMA ExactOutside == Inv => WrapsExact
<1> SUFFICES ASSUME Inv, mutex = NoReader PROVE overflow * WRAP + last = sampled
  BY DEF WrapsExact
<1>1. \A p \in Readers : pc[p] \notin {"count", "store"}
  BY SysfsReadersAssumption DEF Inv, Holds
<1>. QED  BY <1>1 DEF Inv, Behind, Counted

\* Outside the critical section overflow and last_reading together are the
\* energy at the last successful read of energy_uj.
THEOREM WrapsCorrect == Spec => []WrapsExact
BY ExactOutside, SysfsInvariance, PTL

-----------------------------------------------------------------------------
(* The source: PowercapSource *)

\* Until the counter is open nobody holds its mutex or is inside do_read, so
\* that all that Inv says of the readers holds.
LEMMA CounterInvInit == PowercapInit => CounterInv
BY WrapAssumption DEF PowercapInit, CounterInv, TypeOK

LEMMA OpenHasInv == CounterInv /\ phase = "open" => Inv
BY DEF CounterInv, Inv

\* A step of setup that is neither the first reading nor the hand-over; only
\* close() ends phase "open".
LEMMA ScanStepPhases ==
    ASSUME ScanStep
    PROVE  /\ phase' # "open" /\ phase' # "create"
           /\ phase' = "closed" =>
                 phase = "open" /\ \A p \in Readers : pc[p] = "idle"
BY DEF ScanStep, SourceInit, SetupBegins, ForeignEntry, NoPackage, OtherPackage, OtherDomain,
   NameOrEnergyFails, OpenEnergy, ScanEnds, ReadRange, RangeFails, FirstOrCreateFails, Close,
   AtPackage, AtZone, Scanning, Continues, ReturnsNull

LEMMA ScanStepKeepsCounter ==
    ASSUME CounterInv, ScanStep, UNCHANGED <<vars, first>>
    PROVE  CounterInv'
<1>1. /\ TypeOK' /\ first' \in 0 .. WRAP - 1
      /\ (Holds' <=> Holds) /\ (Behind' <=> Behind)
  BY DEF CounterInv, TypeOK, vars, Holds, Behind, Counted
<1>2. CASE phase' = "closed"
  <2>1. phase = "open" /\ \A p \in Readers : pc[p] = "idle"
    BY <1>2, ScanStepPhases
  <2>2. mutex = NoReader
    BY <2>1 DEF CounterInv, Holds, TypeOK
  <2>. QED  BY <1>1, <1>2, <2>1, <2>2 DEF CounterInv, vars
<1>3. CASE phase' # "closed"
  <2>1. phase' # "open" /\ phase' # "create" /\ phase # "open"
    BY <1>3, ScanStepPhases DEF ScanStep, SourceInit, SetupBegins, ForeignEntry, NoPackage,
       OtherPackage, OtherDomain, NameOrEnergyFails, OpenEnergy, ScanEnds, ReadRange,
       RangeFails, FirstOrCreateFails, Close, AtPackage, AtZone, Scanning
  <2>2. mutex' = NoReader /\ \A p \in Readers : pc'[p] = "idle"
    BY <2>1 DEF CounterInv, vars
  <2>. QED  BY <1>1, <1>3, <2>1, <2>2 DEF CounterInv
<1>. QED  BY <1>2, <1>3

LEMMA CounterInvNext ==
    CounterInv /\ [PowercapNext]_sourceVars => CounterInv'
<1> SUFFICES ASSUME CounterInv, [PowercapNext]_sourceVars PROVE CounterInv'
  OBVIOUS
<1> USE WrapAssumption, SysfsReadersAssumption
<1>1. CASE ScanStep /\ UNCHANGED <<vars, first>>
  BY <1>1, ScanStepKeepsCounter
<1>2. CASE Drift
  <2>1. (energy + 1) % WRAP \in Nat
    BY DEF CounterInv, TypeOK
  <2>2. UNCHANGED phase
    BY <1>2 DEF Drift, setupVars
  <2>. QED  BY <1>2, <2>1, <2>2 DEF Drift, CounterInv, TypeOK
<1>3. CASE FirstReading
  <2>1. energy % WRAP \in 0 .. WRAP - 1
    BY DEF CounterInv, TypeOK
  <2>. QED  BY <1>3, <2>1 DEF FirstReading, CounterInv, TypeOK
<1>4. CASE phase = "create" /\ Consume /\ UNCHANGED <<first, setupVars>>
  BY <1>4 DEF Consume, setupVars, CounterInv, TypeOK
<1>5. CASE Create
  <2>1. /\ TypeOK' /\ first' \in 0 .. WRAP - 1 /\ phase' = "open"
        /\ mutex' = NoReader /\ \A p \in Readers : pc'[p] = "idle"
        /\ sampled' <= energy' /\ energy' < sampled' + WRAP
        /\ last' = sampled' /\ overflow' = 0
    BY <1>5 DEF Create, CounterInv, TypeOK
  <2>2. Holds'
    BY <2>1 DEF Holds
  <2>3. Counted' = sampled'
    <3>1. last' \in Nat
      BY <2>1 DEF TypeOK
    <3>2. \A l \in Nat : 0 * WRAP + l = l
      OBVIOUS
    <3>3. overflow' * WRAP + last' = sampled'
      BY <2>1, <3>1, <3>2
    <3>. QED  BY <3>3 DEF Counted
  <2>4. Behind'
    BY <2>1, <2>3 DEF Behind
  <2>. QED  BY <2>1, <2>2, <2>4 DEF CounterInv
<1>6. CASE phase = "open" /\ Next /\ UNCHANGED <<first, setupVars>>
  <2>1. Inv'
    BY <1>6, OpenHasInv, InvNext
  <2>2. phase' = "open" /\ first' = first
    BY <1>6 DEF setupVars
  <2>. QED  BY <2>1, <2>2 DEF Inv, CounterInv
<1>7. CASE UNCHANGED sourceVars
  BY <1>7 DEF sourceVars, vars, setupVars, CounterInv, TypeOK, Holds, Behind, Counted
<1>. QED  BY <1>1, <1>2, <1>3, <1>4, <1>5, <1>6, <1>7 DEF PowercapNext

LEMMA CounterInvariance == PowercapSpec => []CounterInv
BY CounterInvInit, CounterInvNext, PTL DEF PowercapSpec

\* No wrap of energy_uj is missed or counted twice by a counter that setup has
\* built, however often the register turned before.
THEOREM PowercapWrapsExact == PowercapSpec => []CountedFromSetup
<1>1. CounterInv => CountedFromSetup
  BY ExactOutside DEF CounterInv, CountedFromSetup, Inv
<1>. QED  BY <1>1, CounterInvariance, PTL

-----------------------------------------------------------------------------
(* The source: setup and close *)

LEMMA SetupInvInit == PowercapInit => SetupInv
BY DEF PowercapInit, SetupInv, Found, FilesBalanced

\* What setup has looked for does not change while a counter is read.
LEMMA OpenStep ==
    ASSUME SetupInv, UNCHANGED setupVars
    PROVE  SetupInv'
<1>1. UNCHANGED <<listing, phase, type, index, zone, files, answer>>
  BY DEF setupVars
<1>2. Wanted(zone)' <=> Wanted(zone)
  BY <1>1 DEF Wanted, RootOf, Entries
<1>. QED  BY <1>1, <1>2 DEF SetupInv, Found, FilesBalanced

LEMMA ScanStepKeeps ==
    ASSUME SetupInv, ScanStep
    PROVE  SetupInv'
<1> USE DEF SetupInv
<1>2. CASE SourceInit
  BY <1>2 DEF SourceInit, Found, FilesBalanced
<1>3. CASE SetupBegins
  BY <1>3 DEF SetupBegins, Found, FilesBalanced
<1>4. CASE ForeignEntry \/ OtherPackage \/ OtherDomain
  BY <1>4 DEF ForeignEntry, OtherPackage, OtherDomain, AtPackage, AtZone, Scanning, Continues,
     Found, FilesBalanced
<1>5. CASE NoPackage \/ NameOrEnergyFails \/ ScanEnds
  BY <1>5 DEF NoPackage, NameOrEnergyFails, ScanEnds, AtZone, Scanning, ReturnsNull, Found,
     FilesBalanced
<1>6. CASE OpenEnergy
  <2>1. phase = "scan" /\ files = 0 /\ answer # "counter"
    BY <1>6 DEF OpenEnergy, AtPackage, AtZone, Scanning, Found, FilesBalanced
  <2>2. Wanted(zone)'
    BY <1>6 DEF OpenEnergy, Wanted, RootOf, Entries
  <2>. QED  BY <1>6, <2>1, <2>2 DEF OpenEnergy, Found, FilesBalanced
<1>7. CASE ReadRange
  <2>1. Wanted(zone)' <=> Wanted(zone)
    BY <1>7 DEF ReadRange, Wanted, RootOf, Entries
  <2>. QED  BY <1>7, <2>1 DEF ReadRange, Found, FilesBalanced
<1>8. CASE RangeFails \/ FirstOrCreateFails
  BY <1>8 DEF RangeFails, FirstOrCreateFails, ReturnsNull, Found, FilesBalanced
<1>9. CASE Close
  <2>1. Wanted(zone)' <=> Wanted(zone)
    BY <1>9 DEF Close, Wanted, RootOf, Entries
  <2>. QED  BY <1>9, <2>1 DEF Close, Found, FilesBalanced
<1>. QED
  BY <1>2, <1>3, <1>4, <1>5, <1>6, <1>7, <1>8, <1>9 DEF ScanStep

LEMMA SetupInvNext == SetupInv /\ [PowercapNext]_sourceVars => SetupInv'
<1> SUFFICES ASSUME SetupInv, [PowercapNext]_sourceVars PROVE SetupInv'
  OBVIOUS
<1>1. CASE ScanStep
  BY <1>1, ScanStepKeeps
<1>2. CASE FirstReading \/ Create
  <2>1. Wanted(zone)' <=> Wanted(zone)
    BY <1>2 DEF FirstReading, Create, Wanted, RootOf, Entries
  <2>. QED  BY <1>2, <2>1 DEF FirstReading, Create, SetupInv, Found, FilesBalanced
<1>3. CASE UNCHANGED setupVars
  BY <1>3, OpenStep
<1>. QED  BY <1>1, <1>2, <1>3 DEF PowercapNext, Drift, sourceVars

LEMMA SetupInvariance == PowercapSpec => []SetupInv
BY SetupInvInit, SetupInvNext, PTL DEF PowercapSpec

\* Every path through setup balances fopen and fclose.
THEOREM FilesCorrect == PowercapSpec => []FilesBalanced
<1>1. SetupInv => FilesBalanced
  BY DEF SetupInv
<1>. QED  BY <1>1, SetupInvariance, PTL

\* The counter setup returns is that of the wanted package and domain.
THEOREM ZoneCorrect == PowercapSpec => []ReadsWantedZone
<1>1. SetupInv => ReadsWantedZone
  BY DEF SetupInv, Found, ReadsWantedZone, Wanted, NameOf
<1>. QED  BY <1>1, SetupInvariance, PTL

-----------------------------------------------------------------------------
(* The scan *)

\* What is in reach depends on the listing and the arguments alone.
LEMMA SameReach ==
    ASSUME UNCHANGED <<listing, type, index>>
    PROVE  /\ \A i : InReach(i)' <=> InReach(i)
           /\ answer' = answer /\ failed' = failed => (FindsWhatIsListed' <=> FindsWhatIsListed)
<1>1. \A i : InReach(i)' <=> InReach(i)
  BY DEF InReach, Wanted, RootOf, Entries, IsZone
<1>. QED  BY <1>1 DEF FindsWhatIsListed

\* The loop of setup(): an entry is passed that was not wanted, or the scan
\* ends at a zone that is no package, or at the beginning of the list.
LEMMA ScanLoopKeeps ==
    ASSUME ScanInv, ForeignEntry \/ OtherPackage \/ OtherDomain \/ NoPackage \/ ScanEnds
    PROVE  ScanInv'
<1>1. /\ phase = "scan" /\ answer = "none" /\ ~failed
      /\ Len(listing) \in Nat /\ DOMAIN listing = 1 .. Len(listing)
      /\ ~\E i \in n + 1 .. Len(listing) : InReach(i)
  BY MachinesAssumption DEF ScanInv, ForeignEntry, OtherPackage, OtherDomain, NoPackage,
     ScanEnds, AtPackage, AtZone, Scanning
<1>2. UNCHANGED <<listing, type, index, failed>>
  BY DEF ForeignEntry, OtherPackage, OtherDomain, NoPackage, ScanEnds, Continues, ReturnsNull
<1>3. \A i : InReach(i)' <=> InReach(i)
  BY <1>2, SameReach
<1>4. CASE ForeignEntry \/ OtherPackage \/ OtherDomain
  <2>1. /\ n \in 1 .. Len(listing) /\ n' = n - 1 /\ phase' = "scan" /\ answer' = "none"
    BY <1>1, <1>4 DEF ForeignEntry, OtherPackage, OtherDomain, AtPackage, AtZone, Scanning,
       Continues, ScanInv
  <2>2. ~InReach(n)
    BY <1>4 DEF ForeignEntry, OtherPackage, OtherDomain, InReach, Wanted
  <2>3. ~\E i \in n' + 1 .. Len(listing) : InReach(i)
    BY <1>1, <2>1, <2>2
  <2>4. FindsWhatIsListed'
    BY <2>1 DEF FindsWhatIsListed
  <2>. QED  BY <1>1, <1>2, <1>3, <2>1, <2>3, <2>4 DEF ScanInv
<1>5. CASE NoPackage \/ ScanEnds
  <2>1. n' = 0 /\ phase' = "ready"
    BY <1>5 DEF NoPackage, ScanEnds, ReturnsNull
  <2>2. ASSUME NEW i \in 1 .. Len(listing), InReach(i) PROVE FALSE
    <3>1. i \in 1 .. n /\ n \in 1 .. Len(listing)
      BY <1>1, <2>2 DEF ScanInv
    <3>2. NoPackage
      BY <1>5, <3>1 DEF ScanEnds
    <3>3. IsZone(listing[n]) /\ RootOf(listing[n]).name # "package" /\ n \in i .. Len(listing)
      BY <3>1, <3>2 DEF NoPackage, AtZone
    <3>. QED  BY <2>2, <3>3 DEF InReach
  <2>3. FindsWhatIsListed'
    BY <1>1, <1>2, <1>3, <2>2 DEF FindsWhatIsListed
  <2>. QED  BY <1>1, <1>2, <2>1, <2>3 DEF ScanInv
<1>. QED  BY <1>4, <1>5

LEMMA ScanInvNext == ScanInv /\ [PowercapNext]_sourceVars => ScanInv'
<1>. SUFFICES ASSUME ScanInv, [PowercapNext]_sourceVars PROVE ScanInv'
  OBVIOUS
<1>1. Len(listing) \in Nat
  BY MachinesAssumption DEF ScanInv
<1>2. CASE UNCHANGED setupVars
  BY <1>2, SameReach DEF setupVars, ScanInv
<1>3. CASE ForeignEntry \/ OtherPackage \/ OtherDomain \/ NoPackage \/ ScanEnds
  BY <1>3, ScanLoopKeeps
<1>4. CASE SetupBegins
  <2>1. /\ listing' = listing /\ n' = Len(listing) /\ answer' = "none" /\ failed' = FALSE
    BY <1>4 DEF SetupBegins
  <2>2. ~\E i \in n' + 1 .. Len(listing)' : InReach(i)'
    BY <1>1, <2>1
  <2>. QED  BY <1>1, <2>1, <2>2 DEF ScanInv, FindsWhatIsListed
<1>5. CASE NameOrEnergyFails \/ RangeFails \/ FirstOrCreateFails
  BY <1>1, <1>5 DEF NameOrEnergyFails, RangeFails, FirstOrCreateFails, ReturnsNull, ScanInv,
     FindsWhatIsListed
<1>6. CASE SourceInit \/ OpenEnergy \/ ReadRange \/ FirstReading \/ Close
  <2>1. UNCHANGED <<listing, type, index, n, answer, failed>> /\ phase' # "scan"
    BY <1>6 DEF SourceInit, OpenEnergy, ReadRange, FirstReading, Close
  <2>. QED  BY <2>1, SameReach DEF ScanInv
<1>7. CASE Create
  BY <1>7 DEF Create, ScanInv, FindsWhatIsListed
<1>. QED
  BY <1>2, <1>3, <1>4, <1>5, <1>6, <1>7 DEF PowercapNext, ScanStep, Drift, sourceVars

LEMMA ScanInvariance == PowercapSpec => []ScanInv
<1>1. PowercapInit => ScanInv
  <2>. SUFFICES ASSUME PowercapInit PROVE ScanInv
    OBVIOUS
  <2>1. Len(listing) \in Nat
    BY MachinesAssumption DEF PowercapInit
  <2>. QED  BY <2>1 DEF PowercapInit, ScanInv, FindsWhatIsListed
<1>. QED  BY <1>1, ScanInvNext, PTL DEF PowercapSpec

\* When nothing fails, setup() finds every zone that is listed with nothing
\* but packages after it, however long the listing is.
THEOREM SearchCorrect == PowercapSpec => []FindsWhatIsListed
<1>1. ScanInv => FindsWhatIsListed
  BY DEF ScanInv
<1>. QED  BY <1>1, ScanInvariance, PTL

-----------------------------------------------------------------------------
(* Types *)

\* What the two invariants above do not say of PowercapTypeOK.
ZoneTypes ==
    /\ phase \in Phases
    /\ type \in Types /\ index \in Indexes
    /\ zone \in Entries \union {Foreign}
    /\ rangeRead \in BOOLEAN /\ failed \in BOOLEAN
    /\ answer \in {"none", "NULL", "counter"}

LEMMA ZoneTypesNext ==
    ASSUME ZoneTypes, ScanInv, [PowercapNext]_sourceVars
    PROVE  ZoneTypes'
<1>. USE DEF Phases
<1>1. \A e : e \in Entries \union {Foreign} /\ listing' = listing => e \in Entries' \union {Foreign}
  BY DEF Entries
<1>2. CASE UNCHANGED setupVars
  BY <1>1, <1>2 DEF setupVars, ZoneTypes
<1>3. CASE SourceInit \/ SetupBegins \/ ReadRange \/ Close \/ FirstReading \/ Create
  <2>1. listing' = listing /\ zone' = zone
    BY <1>3 DEF SourceInit, SetupBegins, ReadRange, Close, FirstReading, Create
  <2>2. zone' \in Entries' \union {Foreign}
    BY <1>1, <2>1 DEF ZoneTypes
  <2>. QED
    BY <1>3, <2>2 DEF SourceInit, SetupBegins, ReadRange, Close, FirstReading, Create, ZoneTypes
<1>4. CASE ForeignEntry \/ OtherPackage \/ OtherDomain
  BY <1>1, <1>4 DEF ForeignEntry, OtherPackage, OtherDomain, Continues, ZoneTypes
<1>5. CASE NoPackage \/ NameOrEnergyFails \/ ScanEnds \/ RangeFails \/ FirstOrCreateFails
  BY <1>5 DEF NoPackage, NameOrEnergyFails, ScanEnds, RangeFails, FirstOrCreateFails,
     ReturnsNull, ZoneTypes
<1>6. CASE OpenEnergy
  <2>1. n \in DOMAIN listing
    BY <1>6, MachinesAssumption DEF OpenEnergy, AtPackage, AtZone, Scanning, ScanInv
  <2>2. listing[n] \in Entries
    BY <2>1 DEF Entries
  <2>. QED  BY <1>1, <1>6, <2>2 DEF OpenEnergy, ZoneTypes
<1>. QED
  BY <1>2, <1>3, <1>4, <1>5, <1>6 DEF PowercapNext, ScanStep, Drift, sourceVars

\* Every state of the source has the types of PowercapTypeOK; above all, the
\* scan stays within the listing, and at most one FILE of setup() is open.
THEOREM PowercapTypeCorrect == PowercapSpec => []PowercapTypeOK
<1>1. PowercapInit => ZoneTypes
  BY DEF PowercapInit, ZoneTypes, Phases
<1>2. ZoneTypes /\ ScanInv /\ [PowercapNext]_sourceVars => ZoneTypes'
  BY ZoneTypesNext
<1>3. ZoneTypes /\ ScanInv /\ SetupInv /\ CounterInv => PowercapTypeOK
  BY DEF ZoneTypes, ScanInv, SetupInv, CounterInv, FilesBalanced, PowercapTypeOK
<1>. QED
  BY <1>1, <1>2, <1>3, ScanInvariance, SetupInvariance, CounterInvariance, PTL
     DEF PowercapSpec
=============================================================================
