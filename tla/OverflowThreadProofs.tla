------------------------ MODULE OverflowThreadProofs ------------------------
(***************************************************************************)
(* OverflowThread for any number of CPUs and counters, whatever fails: the *)
(* types, what the lists of calls hold in the middle of add_call() and     *)
(* remove_call(), the periods, and who holds the mutex of a counter.       *)
(***************************************************************************)
EXTENDS OverflowThread, SequenceTheorems, TLAPS

-----------------------------------------------------------------------------
(* The inductive invariants, each on top of the ones before *)

InSetup == {"create", "add_call", "add_t", "start", "copy"}
Joined == InSetup \ {"create"}          \* the CPU's thread_info is known
Listing == {"start", "copy"}            \* add_call() has returned
InRead == {"read", "inside"}
InClose == {"remove", "shorten", "free"}
InDoRead == {"call", "inside", "load"}  \* an overflow thread, with its counter

\* Whoever works on a counter has one, and remove_call() has found an entry
\* before it shortens the list.
Working ==
    /\ client.op \in InSetup \cup InRead \cup InClose => client.k \in Counters
    /\ client.op = "shorten" => info[C].nr > 0
    /\ \A c \in Cpus : thread[c].pc \in InDoRead => thread[c].t \in Counters

TypeInv == TypeOK /\ Working

\* The life of a reader_def.  A mutex that was set stays set, a counter that
\* is open is not freed, and without free() in close() none with a mutex is.
Lives ==
    /\ client.op \in InSetup =>
          def[K].heap = "live" /\ ~def[K].mutex /\ ~def[K].open
    /\ client.op \in InRead => def[K].open
    /\ client.op \in InClose => def[K].heap = "live" /\ ~def[K].open
    /\ \A k \in Counters :
          /\ def[k].open => def[k].heap = "live"
          /\ def[k].mutex => def[k].heap # "none"
          /\ def[k].mutex /\ ~FreesDef => def[k].heap = "live"

\* The slots that are entries of the list: RemoveShifts leaves the last one
\* twice.
Firm(c) == IF client.op = "shorten" /\ c = C THEN info[c].nr - 1 ELSE info[c].nr

\* A counter that setup() has freed after add_call(), as pthread_create() failed.
Abandoned(k) == "thread" \in Failures /\ def[k].heap = "freed"

\* Every slot, those behind nr included, names a counter of the CPU that was
\* added once; an entry is a watched counter or the one being added or removed.
Entry(c, k) ==
    \/ k \in Watched(c)
    \/ client.op \in Listing \cup {"remove"} /\ k = K
    \/ Abandoned(k)

Known(k) == def[k].mutex \/ Abandoned(k) \/ (client.op \in Listing /\ k = K)

Slotted ==
    \A c \in Cpus : \A i \in 1 .. Len(info[c].calls) :
        CpuOf[info[c].calls[i]] = c /\ Known(info[c].calls[i])

Distinct ==
    \A c \in Cpus : \A i, j \in 1 .. Firm(c) : info[c].calls[i] = info[c].calls[j] => i = j

Entered ==
    /\ \A c \in Cpus : \A i \in 1 .. Firm(c) : Entry(c, info[c].calls[i])
    /\ client.op = "shorten" => def[info[C].calls[info[C].nr]].heap = "live" \/ Abandoned(info[C].calls[info[C].nr])

\* A list that is in use can be found.
Findable ==
    client.op # "done" =>
        /\ \A c \in Cpus : info[c].nr > 0 \/ Watched(c) # {} => Found(c)
        /\ client.op \in Joined => Found(C)

ListInv == Slotted /\ Distinct /\ Entered /\ Findable

\* Unless a realloc() fails, no counter is missing.
ListGrows == Failures \cap {"functions", "t"} = {}

Complete ==
    ListGrows =>
        /\ \A c \in Cpus : \A k \in Watched(c) :
              \E i \in 1 .. Firm(c) : info[c].calls[i] = k
        /\ client.op \in Listing => \E i \in 1 .. info[C].nr : info[C].calls[i] = K

\* The promise is kept from the moment the thread_info is known.
Periods ==
    /\ PeriodKept
    /\ client.op = "create" =>
          def[K].wanted = IF override.on THEN override.us ELSE DEFAULT
    /\ client.op \in Joined => info[C].usleep <= def[K].wanted

\* What an overflow thread has fetched it found in a slot.
Fetched == \A c \in Cpus : thread[c].pc \in InDoRead => Known(thread[c].t)

\* The owner of a mutex is where it can release it, or died there.
Owners ==
    Locks =>
        /\ \A c \in Cpus : thread[c].pc = "inside" => lock[thread[c].t] = c
        /\ \A c \in Cpus : \A k \in Counters :
              lock[k] = c => thread[c].pc \in {"inside", "dead"} /\ thread[c].t = k
        /\ client.op = "inside" => lock[K] = Program
        /\ \A k \in Counters : lock[k] = Program => client.op = "inside" /\ k = K

\* create() finds the thread_info of a CPU whose thread exists, and starts no
\* second one.
Started ==
    client.op # "done" =>
        \A c \in Cpus : thread[c].pc # "none" => Found(c) /\ info[c].thread

-----------------------------------------------------------------------------
(* Types *)

LEMMA TypeInit == Init => TypeInv
<1>. SUFFICES ASSUME Init PROVE TypeInv
  OBVIOUS
<1>1. info = [c \in Cpus |-> [usleep |-> 0, calls |-> << >>, nr |-> 0,
                               moved |-> FALSE, thread |-> FALSE]]
  BY DEF Init, NewInfo
<1>2. << >> \in Seq(Counters) /\ Len(<< >>) = 0 /\ infos \in Seq(Cpus \cup {Garbage})
  BY DEF Init
<1>3. info \in [Cpus -> ThreadInfos]
  <2>1. [usleep |-> 0, calls |-> << >>, nr |-> 0, moved |-> FALSE, thread |-> FALSE]
           \in ThreadInfos
    BY <1>2 DEF ThreadInfos
  <2>. QED  BY <1>1, <2>1
<1>4. \A c \in Cpus : info[c].nr <= Len(info[c].calls)
  <2>. TAKE c \in Cpus
  <2>1. info[c].nr = 0 /\ info[c].calls = << >>
    BY <1>1
  <2>. QED  BY <1>2, <2>1
<1>5. /\ override \in [on : BOOLEAN, us : Nat]
      /\ freed \in BOOLEAN
      /\ thread \in [Cpus -> Threads]
      /\ cancelled \subseteq Cpus
      /\ client \in [op : ClientOps, k : Counters \cup {NoCounter}]
      /\ fault \in Faults
  BY DEF Init, ClientOps, Faults, Threads
<1>6. /\ def \in [Counters -> ReaderDefs]
      /\ lock \in [Counters -> Cpus \cup {Program, Nobody}]
  BY DEF Init, NoDef, ReaderDefs
<1>7. Working
  BY DEF Init, Working, InSetup, InRead, InClose, InDoRead
<1>. QED  BY <1>2, <1>3, <1>4, <1>5, <1>6, <1>7 DEF TypeInv, TypeOK

\* A step of an overflow thread changes its position and a mutex, or faults.
LEMMA ThreadKeeps ==
    ASSUME NEW c \in Cpus, ThreadStep(c)
    PROVE  UNCHANGED <<override, heap, client>>
BY DEF ThreadStep, UsesFreedInfo, ThreadSleeps, ThreadWakes, ThreadChecks, ThreadFetches,
       ThreadUsesFreedCounter, ThreadLocksUnsetMutex, ThreadEnters, ThreadLeaves,
       ThreadReturns, ThreadDies, Fault, heap

\* What add_call() and remove_call() make of the list.
LEMMA AppendedList ==
    ASSUME NEW inf, NEW k \in Counters,
           inf \in ThreadInfos,
           inf.nr <= Len(inf.calls)
    PROVE  /\ Appended(inf, k) \in ThreadInfos
           /\ Appended(inf, k).usleep = inf.usleep
           /\ Appended(inf, k).thread = inf.thread
           /\ Appended(inf, k).nr = inf.nr + 1
           /\ Len(Appended(inf, k).calls) = inf.nr + 1
           /\ \A i \in 1 .. inf.nr : Appended(inf, k).calls[i] = inf.calls[i]
           /\ Appended(inf, k).calls[inf.nr + 1] = k
<1>. DEFINE front == SubSeq(inf.calls, 1, inf.nr)
<1>1. inf.calls \in Seq(Counters) /\ inf.nr \in Nat
  BY DEF ThreadInfos
<1>2. front \in Seq(Counters) /\ Len(front) = inf.nr
      /\ \A i \in 1 .. inf.nr : front[i] = inf.calls[i]
  <2>1. \A i \in 1 .. inf.nr : inf.calls[i] \in Counters
    BY <1>1, ElementOfSeq
  <2>. QED  BY <1>1, <2>1, SubSeqProperties
<1>. HIDE DEF front
<1>3. Appended(inf, k) = [inf EXCEPT !.calls = Append(front, k), !.nr = inf.nr + 1, !.moved = FALSE]
  BY DEF Appended, front
<1>4. /\ Append(front, k) \in Seq(Counters)
      /\ Len(Append(front, k)) = inf.nr + 1
      /\ \A i \in 1 .. inf.nr : Append(front, k)[i] = inf.calls[i]
      /\ Append(front, k)[inf.nr + 1] = k
  BY <1>1, <1>2, AppendProperties
<1>. DEFINE appended == Append(front, k)
<1>. HIDE DEF appended
<1>5. Appended(inf, k) = [inf EXCEPT !.calls = appended, !.nr = inf.nr + 1, !.moved = FALSE]
      /\ appended \in Seq(Counters)
  BY <1>3, <1>4 DEF appended
<1>6. /\ Appended(inf, k).usleep = inf.usleep
      /\ Appended(inf, k).thread = inf.thread
      /\ Appended(inf, k).nr = inf.nr + 1
      /\ Appended(inf, k).calls = appended
      /\ Appended(inf, k) \in ThreadInfos
  <2>. DEFINE nr == inf.nr + 1
  <2>1. nr \in Nat
    BY <1>1
  <2>2. Appended(inf, k) = [inf EXCEPT !.calls = appended, !.nr = nr, !.moved = FALSE]
    BY <1>5
  <2>. HIDE DEF nr
  <2>3. /\ Appended(inf, k).usleep = inf.usleep
        /\ Appended(inf, k).thread = inf.thread
        /\ Appended(inf, k).nr = nr
        /\ Appended(inf, k).calls = appended
        /\ Appended(inf, k) \in ThreadInfos
    BY <1>5, <2>1, <2>2 DEF ThreadInfos
  <2>. QED  BY <2>3 DEF nr
<1>. QED  BY <1>4, <1>6 DEF appended

LEMMA ShiftedList ==
    ASSUME NEW calls \in Seq(Counters), NEW nr \in 1 .. Len(calls), NEW i \in 1 .. nr
    PROVE  /\ ShiftedDown(calls, nr, i) \in Seq(Counters)
           /\ Len(ShiftedDown(calls, nr, i)) = Len(calls)
           /\ \A j \in 1 .. Len(calls) : ShiftedDown(calls, nr, i)[j] =
                  IF i <= j /\ j < nr THEN calls[j + 1] ELSE calls[j]
<1>. DEFINE shifted == ShiftedDown(calls, nr, i)
<1>1. shifted = [j \in 1 .. Len(calls) |-> IF i <= j /\ j < nr THEN calls[j + 1] ELSE calls[j]]
  BY DEF ShiftedDown
<1>2. shifted \in [1 .. Len(calls) -> Counters]
  BY <1>1
<1>3. shifted \in Seq(Counters) /\ Len(shifted) = Len(calls)
  BY <1>2
<1>. QED  BY <1>1, <1>3

\* The types of what the steps change, one by one.
LEMMA TypeOfUpdates ==
    ASSUME TypeInv
    PROVE  /\ C \in Cpus \/ client.k \notin Counters
           /\ Period \in Nat
           /\ \A c \in Cpus : \A i \in 1 .. Len(info[c].calls) : info[c].calls[i] \in Counters
<1>1. \A c \in Cpus : info[c].calls \in Seq(Counters)
  BY DEF TypeInv, TypeOK, ThreadInfos
<1>. QED
  BY <1>1, ElementOfSeq, CpuOfAssumption, RatesAssumption DEF TypeInv, TypeOK, C, Period

LEMMA TypeThread ==
    ASSUME TypeInv, NEW c \in Cpus, ThreadStep(c)
    PROVE  TypeInv'
<1>1. UNCHANGED <<override, heap, client>>
  BY ThreadKeeps
<1>. DEFINE Typed(f) == /\ f \in [Cpus -> Threads]
                        /\ \A d \in Cpus : f[d].pc \in InDoRead => f[d].t \in Counters
<1>2. Typed(thread)
  BY DEF TypeInv, TypeOK, Working
<1>3. Typed(thread')
  <2>. USE <1>2
  <2>1. CASE ThreadFetches(c) /\ ~UNCHANGED thread
    <3>. DEFINE k == info[c].calls[thread[c].i + 1]
    <3>1. ~(thread[c].i >= Len(info[c].calls))
          /\ thread' = [thread EXCEPT ![c].pc = "call", ![c].t = k]
      BY <2>1 DEF ThreadFetches, Fault, threads
    <3>2. k \in Counters
      <4>1. thread[c].i \in Nat /\ Len(info[c].calls) \in Nat
        BY DEF TypeInv, TypeOK, ThreadInfos, Threads
      <4>2. thread[c].i + 1 \in 1 .. Len(info[c].calls)
        BY <3>1, <4>1
      <4>. QED  BY <4>2, TypeOfUpdates
    <3>. HIDE DEF k
    <3>3. [thread[c] EXCEPT !.pc = "call", !.t = k] \in Threads
      BY <3>2 DEF Threads
    <3>4. \A d \in Cpus \ {c} : thread'[d] = thread[d]
      BY <3>1
    <3>5. thread'[c].t = k
      BY <3>1 DEF Threads
    <3>. QED  BY <3>1, <3>2, <3>3, <3>4, <3>5
  <2>2. CASE ThreadChecks(c)
    BY <2>2 DEF ThreadChecks, Threads, InDoRead
  <2>3. CASE ThreadReturns(c)
    BY <2>3 DEF ThreadReturns, Threads, InDoRead
  <2>4. CASE ThreadSleeps(c)
    <3>1. info[c].usleep \in Nat
      BY DEF TypeInv, TypeOK, ThreadInfos
    <3>. QED  BY <2>4, <3>1 DEF ThreadSleeps, Threads, InDoRead
  <2>5. CASE ThreadWakes(c)
    BY <2>5 DEF ThreadWakes, Threads, InDoRead
  <2>6. CASE ThreadDies(c)
    BY <2>6 DEF ThreadDies, Threads, InDoRead
  <2>7. CASE ThreadEnters(c)
    BY <2>7 DEF ThreadEnters, ThreadAt, Threads, InDoRead
  <2>8. CASE ThreadLeaves(c)
    BY <2>8 DEF ThreadLeaves, ThreadAt, Threads, InDoRead
  <2>9. CASE UNCHANGED thread
    BY <2>9
  <2>. QED
    BY <2>1, <2>2, <2>3, <2>4, <2>5, <2>6, <2>7, <2>8, <2>9
       DEF ThreadStep, UsesFreedInfo, ThreadUsesFreedCounter, ThreadLocksUnsetMutex, Fault, threads
<1>4. lock' \in [Counters -> Cpus \cup {Program, Nobody}] /\ fault' \in Faults
      /\ cancelled' = cancelled
  <2>. USE DEF TypeInv, TypeOK
  <2>1. CASE ThreadSleeps(c) \/ ThreadWakes(c) \/ ThreadChecks(c) \/ ThreadReturns(c) \/ ThreadDies(c)
    BY <2>1 DEF ThreadSleeps, ThreadWakes, ThreadChecks, ThreadReturns, ThreadDies
  <2>2. CASE ThreadEnters(c)
    BY <2>2 DEF ThreadEnters
  <2>3. CASE ThreadLeaves(c)
    BY <2>3 DEF ThreadLeaves
  <2>4. CASE \/ UsesFreedInfo(c) \/ ThreadFetches(c) \/ ThreadUsesFreedCounter(c)
             \/ ThreadLocksUnsetMutex(c)
    BY <2>4 DEF UsesFreedInfo, ThreadFetches, ThreadUsesFreedCounter, ThreadLocksUnsetMutex,
                Fault, threads, Faults
  <2>. QED  BY <2>1, <2>2, <2>3, <2>4 DEF ThreadStep
<1>. QED  BY <1>1, <1>3, <1>4 DEF TypeInv, TypeOK, heap, Working, C

Fits(x) == x \in ThreadInfos /\ x.nr <= Len(x.calls)
Shaped(f) == f \in [Cpus -> ThreadInfos] /\ \A c \in Cpus : f[c].nr <= Len(f[c].calls)

LEMMA ShapedUpdate ==
    ASSUME NEW f, Shaped(f), NEW c, NEW x, Fits(x)
    PROVE  Shaped([f EXCEPT ![c] = x])
BY DEF Shaped, Fits

LEMMA FitsParts ==
    ASSUME NEW x, Fits(x)
    PROVE  /\ x.calls \in Seq(Counters) /\ Len(x.calls) \in Nat
           /\ x.nr \in Nat /\ x.usleep \in Nat
           /\ x.nr <= Len(x.calls)
BY DEF Fits, ThreadInfos

\* A thread_info, changed in one field.
LEMMA FitsUsleep ==
    ASSUME NEW x, Fits(x), NEW u \in Nat
    PROVE  Fits([x EXCEPT !.usleep = u])
BY DEF Fits, ThreadInfos

LEMMA FitsMoved ==
    ASSUME NEW x, Fits(x), NEW b \in BOOLEAN
    PROVE  Fits([x EXCEPT !.moved = b])
BY DEF Fits, ThreadInfos

LEMMA FitsThread ==
    ASSUME NEW x, Fits(x)
    PROVE  Fits([x EXCEPT !.thread = TRUE])
BY DEF Fits, ThreadInfos

LEMMA FitsNr ==
    ASSUME NEW x, Fits(x), NEW n \in Nat, n <= x.nr
    PROVE  Fits([x EXCEPT !.nr = n])
<1>1. [x EXCEPT !.nr = n] \in ThreadInfos
  BY DEF Fits, ThreadInfos
<1>2. [x EXCEPT !.nr = n].nr = n /\ [x EXCEPT !.nr = n].calls = x.calls
  BY DEF Fits, ThreadInfos
<1>. QED  BY <1>1, <1>2, FitsParts DEF Fits

LEMMA FitsCalls ==
    ASSUME NEW x, Fits(x), NEW s \in Seq(Counters), Len(s) = Len(x.calls)
    PROVE  Fits([x EXCEPT !.calls = s])
BY DEF Fits, ThreadInfos

LEMMA FitsNew ==
    ASSUME NEW u \in Nat
    PROVE  Fits(NewInfo(u))
<1>1. << >> \in Seq(Counters) /\ Len(<< >>) = 0
  OBVIOUS
<1>2. NewInfo(u).calls = << >> /\ NewInfo(u).nr = 0
  BY DEF NewInfo
<1>3. NewInfo(u) \in ThreadInfos
  BY <1>1 DEF NewInfo, ThreadInfos
<1>. QED  BY <1>1, <1>2, <1>3 DEF Fits

LEMMA DefUpdate ==
    ASSUME NEW f \in [Counters -> ReaderDefs], NEW k, NEW x \in ReaderDefs
    PROVE  [f EXCEPT ![k] = x] \in [Counters -> ReaderDefs]
OBVIOUS

\* The fields of a reader_def, changed alone.
LEMMA DefFields ==
    ASSUME NEW x \in ReaderDefs, NEW h \in {"none", "live", "freed"}, NEW b \in BOOLEAN,
           NEW d \in BOOLEAN, NEW w \in Nat
    PROVE  /\ [x EXCEPT !.heap = h] \in ReaderDefs
           /\ [x EXCEPT !.open = b] \in ReaderDefs
           /\ [x EXCEPT !.mutex = d, !.open = b] \in ReaderDefs
           /\ [x EXCEPT !.heap = h, !.wanted = w] \in ReaderDefs
BY DEF ReaderDefs

LEMMA TypeClient ==
    ASSUME TypeInv, ClientCall \/ ClientStep
    PROVE  TypeInv'
<1>. DEFINE Rest == /\ override \in [on : BOOLEAN, us : Nat]
                    /\ infos \in Seq(Cpus \cup {Garbage})
                    /\ freed \in BOOLEAN
                    /\ thread \in [Cpus -> Threads]
                    /\ cancelled \subseteq Cpus
                    /\ lock \in [Counters -> Cpus \cup {Program, Nobody}]
                    /\ client \in [op : ClientOps, k : Counters \cup {NoCounter}]
                    /\ fault \in Faults
<1>1. TypeInv <=> Rest /\ Shaped(info) /\ def \in [Counters -> ReaderDefs] /\ Working
  BY DEF TypeInv, TypeOK, Shaped
<1>. USE DEF heap, threads, At, Goto, Ready, K, ClientOps
<1>2. Rest'
  <2>. USE <1>1
  <2>1. ASSUME NEW us \in Rates, SetRate(us) PROVE Rest'
    BY RatesAssumption, <2>1 DEF SetRate
  <2>2. ASSUME NEW k \in Counters, Setup(k) PROVE Rest'
    BY <2>2 DEF Setup
  <2>3. ASSUME NEW k \in Counters, Read(k) PROVE Rest'
    BY <2>3 DEF Read
  <2>4. ASSUME NEW k \in Counters, Close(k) PROVE Rest'
    BY <2>4 DEF Close
  <2>5. CASE Fini
    BY <2>5 DEF Fini
  <2>6. CASE CreateDisabled
    BY <2>6 DEF CreateDisabled
  <2>7. CASE CreateFindsGarbage
    BY <2>7 DEF CreateFindsGarbage, Fault, Faults
  <2>8. CASE CreateJoins
    BY <2>8 DEF CreateJoins, CreateEnabled
  <2>9. CASE CreateAdds
    BY CpuOfAssumption, <2>9 DEF CreateAdds, CreateEnabled, C, Working, InSetup
  <2>10. CASE CreateAddFails
    <3>1. Append(infos, Garbage) \in Seq(Cpus \cup {Garbage})
      BY AppendProperties
    <3>2. infos' \in Seq(Cpus \cup {Garbage})
      BY <2>10, <3>1 DEF CreateAddFails
    <3>. QED  BY <2>10, <3>2 DEF CreateAddFails, SetupFails
  <2>11. CASE AddCallFunctions
    BY <2>11 DEF AddCallFunctions
  <2>12. CASE AddCallFunctionsFails
    BY <2>12 DEF AddCallFunctionsFails
  <2>13. CASE AddCallT
    BY <2>13 DEF AddCallT
  <2>14. CASE AddCallTFails
    BY <2>14 DEF AddCallTFails
  <2>15. CASE CreateStarts
    <3>1. thread' = [thread EXCEPT ![C].pc = "period"]
      BY <2>15 DEF CreateStarts
    <3>2. thread' \in [Cpus -> Threads]
      <4>1. \A x \in Threads : [x EXCEPT !.pc = "period"] \in Threads
        BY DEF Threads
      <4>. QED  BY <3>1, <4>1
    <3>. QED  BY <2>15, <3>2 DEF CreateStarts
  <2>16. CASE CreateStartFails
    BY <2>16 DEF CreateStartFails, SetupFails
  <2>17. CASE CreateHasThread
    BY <2>17 DEF CreateHasThread
  <2>18. CASE CreateCopies
    BY <2>18 DEF CreateCopies
  <2>19. CASE ReadUnsetMutex
    BY <2>19 DEF ReadUnsetMutex, Fault, Faults
  <2>20. CASE ReadEnters
    BY <2>20 DEF ReadEnters
  <2>21. CASE ReadLeaves
    BY <2>21 DEF ReadLeaves
  <2>22. CASE RemoveFindsGarbage
    BY <2>22 DEF RemoveFindsGarbage, Fault, Faults
  <2>23. CASE RemoveNothing
    BY <2>23 DEF RemoveNothing
  <2>24. CASE RemoveShifts
    BY <2>24 DEF RemoveShifts
  <2>25. CASE RemoveShortens
    BY <2>25 DEF RemoveShortens
  <2>26. CASE CloseFrees
    BY <2>26 DEF CloseFrees
  <2>27. CASE KillFindsGarbage
    BY <2>27 DEF KillFindsGarbage, Fault, Faults
  <2>28. CASE KillWithoutThread
    BY <2>28 DEF KillWithoutThread, Fault, Faults
  <2>29. CASE KillAll
    BY <2>29 DEF KillAll, Entries
  <2>30. CASE FreeAll
    BY SourceAssumption, EmptySeq, <2>30 DEF FreeAll
  <2>. QED
    BY <2>1, <2>2, <2>3, <2>4, <2>5, <2>6, <2>7, <2>8, <2>9, <2>10, <2>11, <2>12, <2>13, <2>14, <2>15, <2>16, <2>17, <2>18, <2>19, <2>20, <2>21, <2>22, <2>23, <2>24, <2>25, <2>26, <2>27, <2>28, <2>29, <2>30 DEF ClientCall, ClientStep
<1>3. Shaped(info')
  <2>. USE <1>1
  <2>1. client.op \in InSetup \cup InClose =>
           K \in Counters /\ C \in Cpus /\ Fits(info[C])
    BY CpuOfAssumption DEF Working, C, Shaped, Fits
  <2>2. CASE CreateJoins
    <3>1. Fits(info[C])
      BY <2>1, <2>2 DEF CreateJoins, CreateEnabled, InSetup
    <3>2. PICK u \in Nat : info' = [info EXCEPT ![C] = [info[C] EXCEPT !.usleep = u]]
      <4>. DEFINE u == IF info[C].usleep > Period THEN Period ELSE info[C].usleep
      <4>1. u \in Nat
        BY <3>1, FitsParts, TypeOfUpdates
      <4>2. info' = [info EXCEPT ![C] = [info[C] EXCEPT !.usleep = u]]
        BY <2>2 DEF CreateJoins
      <4>. HIDE DEF u
      <4>. QED  BY <4>1, <4>2
    <3>. QED  BY <3>1, <3>2, FitsUsleep, ShapedUpdate
  <2>3. CASE CreateAdds
    <3>1. Fits(NewInfo(Period))
      BY TypeOfUpdates, FitsNew
    <3>. QED  BY <2>3, <3>1, ShapedUpdate DEF CreateAdds
  <2>4. CASE AddCallFunctions
    <3>1. Fits(info[C])
      BY <2>1, <2>4 DEF AddCallFunctions, InSetup
    <3>2. PICK b \in BOOLEAN : info' = [info EXCEPT ![C] = [info[C] EXCEPT !.moved = b]]
      BY <2>4 DEF AddCallFunctions
    <3>. QED  BY <3>1, <3>2, FitsMoved, ShapedUpdate
  <2>5. CASE AddCallT
    <3>1. info' = [info EXCEPT ![C] = Appended(info[C], K)]
      BY <2>5 DEF AddCallT
    <3>2. K \in Counters /\ Fits(info[C])
      BY <2>1, <2>5 DEF AddCallT, InSetup
    <3>3. Fits(Appended(info[C], K))
      BY <3>2, AppendedList, FitsParts DEF Fits
    <3>. QED  BY <3>1, <3>3, ShapedUpdate
  <2>6. CASE AddCallTFails
    <3>1. Fits(info[C])
      BY <2>1, <2>6 DEF AddCallTFails, InSetup
    <3>2. info' = [info EXCEPT ![C] = [info[C] EXCEPT !.moved = FALSE]]
      BY <2>6 DEF AddCallTFails
    <3>. QED  BY <3>1, <3>2, FitsMoved, ShapedUpdate
  <2>7. CASE CreateStarts
    <3>1. Fits(info[C])
      BY <2>1, <2>7 DEF CreateStarts, InSetup
    <3>2. info' = [info EXCEPT ![C] = [info[C] EXCEPT !.thread = TRUE]]
      BY <2>7 DEF CreateStarts
    <3>. QED  BY <3>1, <3>2, FitsThread, ShapedUpdate
  <2>8. CASE RemoveShifts
    <3>1. Fits(info[C])
      BY <2>1, <2>8 DEF RemoveShifts, InClose
    <3>2. PICK i \in Slots(C, K) :
             info' = [info EXCEPT ![C].calls = ShiftedDown(@, info[C].nr, i)]
      BY <2>8 DEF RemoveShifts
    <3>. DEFINE shifted == ShiftedDown(info[C].calls, info[C].nr, i)
    <3>3. shifted \in Seq(Counters) /\ Len(shifted) = Len(info[C].calls)
      <4>1. i \in 1 .. info[C].nr
        BY DEF Slots
      <4>2. info[C].nr \in 1 .. Len(info[C].calls) /\ info[C].calls \in Seq(Counters)
        BY <3>1, <4>1, FitsParts
      <4>. QED  BY <4>1, <4>2, ShiftedList
    <3>4. info' = [info EXCEPT ![C] = [info[C] EXCEPT !.calls = shifted]]
      BY <3>2
    <3>. HIDE DEF shifted
    <3>. QED  BY <3>1, <3>3, <3>4, FitsCalls, ShapedUpdate
  <2>9. CASE RemoveShortens
    <3>1. info' = [info EXCEPT ![C] = [info[C] EXCEPT !.nr = info[C].nr - 1]]
      BY <2>9 DEF RemoveShortens
    <3>2. Fits(info[C]) /\ info[C].nr > 0
      BY <2>1, <2>9 DEF RemoveShortens, InClose, Working
    <3>. DEFINE n == info[C].nr - 1
    <3>3. n \in Nat /\ n <= info[C].nr
      BY <3>2, FitsParts
    <3>4. info' = [info EXCEPT ![C] = [info[C] EXCEPT !.nr = n]]
      BY <3>1
    <3>. HIDE DEF n
    <3>. QED  BY <3>2, <3>3, <3>4, FitsNr, ShapedUpdate
  <2>10. CASE UNCHANGED info
    BY <2>10
  <2>. QED
    BY <2>2, <2>3, <2>4, <2>5, <2>6, <2>7, <2>8, <2>9, <2>10 DEF ClientCall, ClientStep, SetRate, Read, Fini, CreateFindsGarbage, AddCallFunctionsFails, CreateHasThread, ReadUnsetMutex, ReadEnters, ReadLeaves, RemoveFindsGarbage, RemoveNothing, KillFindsGarbage, KillWithoutThread, KillAll, FreeAll, Setup, CreateDisabled, CreateAddFails, CreateStartFails, CreateCopies, Close, CloseFrees, Fault
<1>4. def' \in [Counters -> ReaderDefs]
  <2>. USE <1>1
  <2>1. ASSUME NEW k \in Counters, Setup(k) PROVE def' \in [Counters -> ReaderDefs]
    <3>. DEFINE w == IF override.on THEN override.us ELSE DEFAULT
    <3>1. w \in Nat
      BY RatesAssumption
    <3>2. def' = [def EXCEPT ![k] = [def[k] EXCEPT !.heap = "live", !.wanted = w]]
      BY <2>1 DEF Setup
    <3>. HIDE DEF w
    <3>. QED  BY <3>1, <3>2, DefFields, DefUpdate
  <2>2. ASSUME NEW k \in Counters, Close(k) PROVE def' \in [Counters -> ReaderDefs]
    <3>1. def' = [def EXCEPT ![k] = [def[k] EXCEPT !.open = FALSE]]
      BY <2>2 DEF Close
    <3>. QED  BY <3>1, DefFields, DefUpdate
  <2>3. CASE client.k \in Counters
    <3>1. def[K] \in ReaderDefs
      BY <2>3
    <3>2. CASE CreateDisabled
      <4>1. def' = [def EXCEPT ![K] = [def[K] EXCEPT !.open = TRUE]]
        BY <3>2 DEF CreateDisabled
      <4>. QED  BY <3>1, <4>1, DefFields, DefUpdate
    <3>3. CASE CreateAddFails \/ CreateStartFails \/ (CloseFrees /\ FreesDef)
      <4>1. def' = [def EXCEPT ![K] = [def[K] EXCEPT !.heap = "freed"]]
        BY <3>3 DEF CreateAddFails, CreateStartFails, SetupFails, CloseFrees
      <4>. QED  BY <3>1, <4>1, DefFields, DefUpdate
    <3>4. CASE CreateCopies
      <4>1. def' = [def EXCEPT ![K] = [def[K] EXCEPT !.mutex = TRUE, !.open = TRUE]]
        BY <3>4 DEF CreateCopies
      <4>. QED  BY <3>1, <4>1, DefFields, DefUpdate
    <3>. QED
      BY <2>1, <2>2, <3>2, <3>3, <3>4 DEF ClientCall, ClientStep, CloseFrees, SetRate, Read, Fini, CreateFindsGarbage, AddCallFunctionsFails, CreateHasThread, ReadUnsetMutex, ReadEnters, ReadLeaves, RemoveFindsGarbage, RemoveNothing, KillFindsGarbage, KillWithoutThread, KillAll, FreeAll, CreateJoins, CreateAdds, AddCallFunctions, AddCallT, AddCallTFails, CreateStarts, RemoveShifts, RemoveShortens, Fault
  <2>4. CASE client.k \notin Counters
    <3>1. client.op \notin InSetup \cup InClose
      BY <2>4 DEF Working
    <3>. QED
      BY <2>1, <2>2, <3>1 DEF ClientCall, ClientStep, InSetup, InClose,
         CreateDisabled, CreateAddFails, CreateStartFails, CreateCopies, CloseFrees, CreateEnabled,
         SetRate, Read, Fini, CreateFindsGarbage, AddCallFunctionsFails, CreateHasThread, ReadUnsetMutex, ReadEnters, ReadLeaves, RemoveFindsGarbage, RemoveNothing, KillFindsGarbage, KillWithoutThread, KillAll, FreeAll, CreateJoins, CreateAdds, AddCallFunctions, AddCallT, AddCallTFails, CreateStarts, RemoveShifts, RemoveShortens, Fault
  <2>. QED  BY <2>3, <2>4
<1>5. Working'
  <2>. USE <1>1 DEF Working, C, InSetup, InRead, InClose, InDoRead
  <2>1. ASSUME NEW us \in Rates, SetRate(us) PROVE Working'
    BY <2>1 DEF SetRate
  <2>2. ASSUME NEW k \in Counters, Setup(k) PROVE Working'
    BY <2>2 DEF Setup
  <2>3. ASSUME NEW k \in Counters, Read(k) PROVE Working'
    BY <2>3 DEF Read
  <2>4. ASSUME NEW k \in Counters, Close(k) PROVE Working'
    BY <2>4 DEF Close
  <2>5. CASE Fini
    BY <2>5 DEF Fini
  <2>6. CASE CreateDisabled
    BY <2>6 DEF CreateDisabled
  <2>7. CASE CreateFindsGarbage
    BY <2>7 DEF CreateFindsGarbage, Fault
  <2>8. CASE CreateJoins
    BY <2>8 DEF CreateJoins, CreateEnabled
  <2>9. CASE CreateAdds
    BY <2>9 DEF CreateAdds, CreateEnabled
  <2>10. CASE CreateAddFails
    BY <2>10 DEF CreateAddFails, CreateEnabled, SetupFails
  <2>11. CASE AddCallFunctions
    BY <2>11 DEF AddCallFunctions
  <2>12. CASE AddCallFunctionsFails
    BY <2>12 DEF AddCallFunctionsFails
  <2>13. CASE AddCallT
    BY <2>13 DEF AddCallT
  <2>14. CASE AddCallTFails
    BY <2>14 DEF AddCallTFails
  <2>15. CASE CreateStarts
    BY <2>15 DEF CreateStarts, Threads
  <2>16. CASE CreateStartFails
    BY <2>16 DEF CreateStartFails, SetupFails
  <2>17. CASE CreateHasThread
    BY <2>17 DEF CreateHasThread
  <2>18. CASE CreateCopies
    BY <2>18 DEF CreateCopies
  <2>19. CASE ReadUnsetMutex
    BY <2>19 DEF ReadUnsetMutex, Fault
  <2>20. CASE ReadEnters
    BY <2>20 DEF ReadEnters
  <2>21. CASE ReadLeaves
    BY <2>21 DEF ReadLeaves
  <2>22. CASE RemoveFindsGarbage
    BY <2>22 DEF RemoveFindsGarbage, Fault
  <2>23. CASE RemoveNothing
    BY <2>23 DEF RemoveNothing
  <2>24. CASE RemoveShifts
    <3>1. PICK i \in Slots(C, K) :
             info' = [info EXCEPT ![C].calls = ShiftedDown(@, info[C].nr, i)]
      BY <2>24 DEF RemoveShifts
    <3>2. info[C].nr \in Nat /\ i \in 1 .. info[C].nr
      BY <2>24, <3>1, CpuOfAssumption DEF RemoveShifts, Shaped, ThreadInfos, Slots
    <3>3. info'[C].nr = info[C].nr /\ info[C].nr > 0
      BY <2>24, <3>1, <3>2, CpuOfAssumption DEF RemoveShifts, Shaped, ThreadInfos
    <3>. QED  BY <2>24, <3>3 DEF RemoveShifts
  <2>25. CASE RemoveShortens
    BY <2>25 DEF RemoveShortens
  <2>26. CASE CloseFrees
    BY <2>26 DEF CloseFrees
  <2>27. CASE KillFindsGarbage
    BY <2>27 DEF KillFindsGarbage, Fault
  <2>28. CASE KillWithoutThread
    BY <2>28 DEF KillWithoutThread, Fault
  <2>29. CASE KillAll
    BY <2>29 DEF KillAll, Entries
  <2>30. CASE FreeAll
    BY <2>30 DEF FreeAll
  <2>. QED
    BY <2>1, <2>2, <2>3, <2>4, <2>5, <2>6, <2>7, <2>8, <2>9, <2>10, <2>11, <2>12, <2>13, <2>14, <2>15, <2>16, <2>17, <2>18, <2>19, <2>20, <2>21, <2>22, <2>23, <2>24, <2>25, <2>26, <2>27, <2>28, <2>29, <2>30 DEF ClientCall, ClientStep
<1>. QED
  BY <1>2, <1>3, <1>4, <1>5 DEF TypeInv, TypeOK, Shaped

LEMMA TypeNext == TypeInv /\ [Next]_vars => TypeInv'
<1>. SUFFICES ASSUME TypeInv, [Next]_vars PROVE TypeInv'
  OBVIOUS
<1>1. CASE ClientCall \/ ClientStep
  BY <1>1, TypeClient
<1>2. CASE \E c \in Cpus : ThreadStep(c)
  BY <1>2, TypeThread
<1>3. CASE UNCHANGED vars
  BY <1>3 DEF vars, TypeInv, TypeOK, Working, C
<1>. QED  BY <1>1, <1>2, <1>3 DEF Next

LEMMA OverflowTypes == Spec => []TypeInv
BY TypeInit, TypeNext, PTL DEF Spec

\* Types, whatever fails, and in a fault, too.
THEOREM OverflowTypeCorrect == Spec => []TypeOK
<1>1. TypeInv => TypeOK
  BY DEF TypeInv
<1>. QED  BY <1>1, OverflowTypes, PTL

-----------------------------------------------------------------------------
(* The life of a reader_def *)

\* A fault leaves everything but `fault' as it is.
LEMMA FaultKeeps ==
    ASSUME NEW kind, Fault(kind)
    PROVE  UNCHANGED <<override, infos, info, freed, thread, cancelled, def, lock, client>>
BY DEF Fault, heap, threads

LEMMA LivesClient ==
    ASSUME TypeInv, Lives, ClientCall \/ ClientStep
    PROVE  Lives'
<1>1. /\ def \in [Counters -> ReaderDefs]
      /\ client.op \in InSetup \cup InRead \cup InClose => client.k \in Counters
      /\ client \in [op : ClientOps, k : Counters \cup {NoCounter}]
  BY DEF TypeInv, TypeOK, Working
<1>. USE <1>1 DEF Lives, heap, At, Goto, Ready, K, InSetup, InRead, InClose, ReaderDefs
<1>2. ASSUME NEW us \in Rates, SetRate(us) PROVE Lives'
  BY <1>2 DEF SetRate
<1>3. ASSUME NEW k \in Counters, Setup(k) PROVE Lives'
  BY <1>3 DEF Setup
<1>4. ASSUME NEW k \in Counters, Read(k) PROVE Lives'
  BY <1>4 DEF Read
<1>5. ASSUME NEW k \in Counters, Close(k) PROVE Lives'
  BY <1>5 DEF Close
<1>6. CASE Fini
  BY <1>6 DEF Fini
<1>7. CASE CreateDisabled
  BY <1>7 DEF CreateDisabled
<1>8. CASE CreateJoins
  BY <1>8 DEF CreateJoins, CreateEnabled
<1>9. CASE CreateAdds
  BY <1>9 DEF CreateAdds, CreateEnabled
<1>10. CASE CreateAddFails
  BY <1>10 DEF CreateAddFails, CreateEnabled, SetupFails
<1>11. CASE AddCallFunctions
  BY <1>11 DEF AddCallFunctions
<1>12. CASE AddCallFunctionsFails
  BY <1>12 DEF AddCallFunctionsFails
<1>13. CASE AddCallT
  BY <1>13 DEF AddCallT
<1>14. CASE AddCallTFails
  BY <1>14 DEF AddCallTFails
<1>15. CASE CreateStarts
  BY <1>15 DEF CreateStarts
<1>16. CASE CreateStartFails
  BY <1>16 DEF CreateStartFails, SetupFails
<1>17. CASE CreateHasThread
  BY <1>17 DEF CreateHasThread
<1>18. CASE CreateCopies
  BY <1>18 DEF CreateCopies
<1>19. CASE ReadEnters
  BY <1>19 DEF ReadEnters
<1>20. CASE ReadLeaves
  BY <1>20 DEF ReadLeaves
<1>21. CASE RemoveNothing
  BY <1>21 DEF RemoveNothing
<1>22. CASE RemoveShifts
  BY <1>22 DEF RemoveShifts
<1>23. CASE RemoveShortens
  BY <1>23 DEF RemoveShortens
<1>24. CASE CloseFrees
  BY <1>24 DEF CloseFrees
<1>25. CASE KillAll
  BY <1>25 DEF KillAll
<1>26. CASE FreeAll
  BY <1>26 DEF FreeAll
<1>27. CASE \/ CreateFindsGarbage \/ ReadUnsetMutex \/ RemoveFindsGarbage \/ KillFindsGarbage \/ KillWithoutThread
  BY <1>27, FaultKeeps DEF CreateFindsGarbage, ReadUnsetMutex, RemoveFindsGarbage, KillFindsGarbage, KillWithoutThread
<1>. QED
  BY <1>2, <1>3, <1>4, <1>5, <1>6, <1>7, <1>8, <1>9, <1>10, <1>11, <1>12, <1>13, <1>14, <1>15, <1>16, <1>17, <1>18, <1>19, <1>20, <1>21, <1>22, <1>23, <1>24, <1>25, <1>26, <1>27 DEF ClientCall, ClientStep

LEMMA LivesNext == TypeInv /\ Lives /\ [Next]_vars => Lives'
<1>. SUFFICES ASSUME TypeInv, Lives, [Next]_vars PROVE Lives'
  OBVIOUS
<1>1. CASE ClientCall \/ ClientStep
  BY <1>1, LivesClient
<1>2. CASE \E c \in Cpus : ThreadStep(c)
  BY <1>2, ThreadKeeps DEF Lives, K, heap
<1>3. CASE UNCHANGED vars
  BY <1>3 DEF vars, Lives, K
<1>. QED  BY <1>1, <1>2, <1>3 DEF Next

LEMMA LivesInit == Init => Lives
BY DEF Init, Lives, NoDef, InSetup, InRead, InClose

-----------------------------------------------------------------------------
(* The lists of calls *)

\* A list that can be found stays so when the array of thread_infos grows.
LEMMA AppendFinds ==
    ASSUME TypeInv, NEW x \in Cpus \cup {Garbage}, infos' = Append(infos, x)
    PROVE  /\ \A c \in Cpus : Found(c) => Found(c)'
           /\ Found(x)'
<1>1. infos \in Seq(Cpus \cup {Garbage}) /\ DOMAIN infos = 1 .. Len(infos) /\ Len(infos) \in Nat
  BY DEF TypeInv, TypeOK
<1>2. /\ infos' \in Seq(Cpus \cup {Garbage})
      /\ Len(infos') = Len(infos) + 1
      /\ \A i \in 1 .. Len(infos) : infos'[i] = infos[i]
      /\ infos'[Len(infos) + 1] = x
  BY <1>1, AppendProperties
<1>3. DOMAIN infos' = 1 .. Len(infos) + 1
  BY <1>2
<1>4. \A i \in DOMAIN infos : i \in DOMAIN infos' /\ infos'[i] = infos[i]
  BY <1>1, <1>2, <1>3
<1>5. Len(infos) + 1 \in DOMAIN infos'
  BY <1>1, <1>3
<1>. QED  BY <1>2, <1>4, <1>5 DEF Found, Entries

\* The steps of create() between add_call() and the end that touch a
\* thread_info leave its list alone.
LEMMA SameLists ==
    ASSUME TypeInv, CreateJoins \/ AddCallFunctions \/ AddCallTFails \/ CreateStarts
    PROVE  \A c \in Cpus : info'[c].calls = info[c].calls /\ info'[c].nr = info[c].nr
<1>1. info \in [Cpus -> ThreadInfos]
  BY DEF TypeInv, TypeOK
<1>2. CASE CreateJoins
  BY <1>1, <1>2 DEF CreateJoins, ThreadInfos
<1>3. CASE AddCallFunctions
  BY <1>1, <1>3 DEF AddCallFunctions, ThreadInfos
<1>4. CASE AddCallTFails
  BY <1>1, <1>4 DEF AddCallTFails, ThreadInfos
<1>5. CASE CreateStarts
  BY <1>1, <1>5 DEF CreateStarts, ThreadInfos
<1>. QED  BY <1>2, <1>3, <1>4, <1>5

\* An entry of a list is in a slot, and belongs to the CPU of the list.
LEMMA FirmSlots ==
    ASSUME TypeInv, Slotted
    PROVE  /\ \A c \in Cpus : Firm(c) \in Int /\ Firm(c) <= Len(info[c].calls)
           /\ \A c \in Cpus : \A i \in 1 .. Firm(c) :
                 i \in 1 .. Len(info[c].calls) /\ CpuOf[info[c].calls[i]] = c
<1>1. \A c \in Cpus : /\ info[c].nr \in Nat /\ Len(info[c].calls) \in Nat
                      /\ info[c].nr <= Len(info[c].calls)
  BY FitsParts DEF TypeInv, TypeOK, Fits
<1>2. \A c \in Cpus : Firm(c) \in Int /\ Firm(c) <= Len(info[c].calls)
  <2>. TAKE c \in Cpus
  <2>1. Firm(c) = info[c].nr - 1 \/ Firm(c) = info[c].nr
    BY DEF Firm
  <2>. QED  BY <1>1, <2>1
<1>. QED  BY <1>1, <1>2 DEF Slotted, Known

\* What the steps do to the lists that neither add a counter nor take one
\* away: nothing, and the reasons why an entry is there stay or are replaced.
Quiet ==
    /\ client.op \notin {"shorten", "done"} /\ client'.op # "shorten"
    /\ \A c \in Cpus : info'[c].calls = info[c].calls /\ info'[c].nr = info[c].nr
    /\ \A c \in Cpus : Found(c) /\ client'.op # "done" => Found(c)'
    /\ client'.op \in Joined => Found(C)'
    /\ \A k \in Counters : /\ def[k].mutex => def'[k].mutex
                           /\ def[k].heap = "freed" => def'[k].heap = "freed"
    /\ \A k \in Counters : def'[k].open /\ def'[k].mutex =>
          (def[k].open /\ def[k].mutex) \/ (client.op = "copy" /\ k = K)
    /\ \A k \in Counters : def[k].open /\ def[k].mutex =>
          (def'[k].open /\ def'[k].mutex) \/ (client'.op = "remove" /\ client'.k = k)
    /\ client.op \in Listing =>
          \/ client'.op \in Listing /\ client'.k = K
          \/ def'[K].open /\ def'[K].mutex
          \/ "thread" \in Failures /\ def'[K].heap = "freed"
    /\ client'.op \in Listing => client'.k = K /\ (ListGrows => client.op \in Listing)
    /\ client.op = "remove" => \A i \in 1 .. info[C].nr : info[C].calls[i] # K

LEMMA QuietKeeps ==
    ASSUME TypeInv, ListInv, Complete, Quiet
    PROVE  ListInv' /\ Complete'
<1>. USE DEF ListInv
<1>1. /\ client.op \in Listing \cup {"remove"} => K \in Counters /\ C \in Cpus
      /\ \A c \in Cpus : \A i \in 1 .. Len(info[c].calls) : info[c].calls[i] \in Counters
  BY CpuOfAssumption, TypeOfUpdates DEF TypeInv, Working, InSetup, InClose, Listing, K, C
<1>2. \A c \in Cpus : info'[c].calls = info[c].calls /\ info'[c].nr = info[c].nr
  BY DEF Quiet
<1>3. \A c \in Cpus : Firm(c)' = Firm(c) /\ Firm(c) = info[c].nr
  BY <1>2 DEF Quiet, Firm
<1>4. Slotted'
  <2>1. \A k \in Counters :
           def[k].mutex \/ Abandoned(k) \/ (client.op \in Listing /\ k = K)
              => def'[k].mutex \/ Abandoned(k)' \/ (client'.op \in Listing /\ k = K')
    BY DEF Quiet, Abandoned, K
  <2>. QED  BY <1>1, <1>2, <2>1 DEF Slotted, Known
<1>5. Distinct'
  BY <1>2, <1>3 DEF Distinct
<1>6. Entered'
  <2>1. ASSUME NEW c \in Cpus, NEW i \in 1 .. Firm(c)
        PROVE  Entry(c, info[c].calls[i])'
    <3>1. info[c].calls[i] \in Counters /\ CpuOf[info[c].calls[i]] = c
      BY <1>1, FirmSlots
    <3>2. PICK k \in Counters : k = info[c].calls[i]
      BY <3>1
    <3>3. CpuOf[k] = c /\ Entry(c, k) /\ info'[c].calls[i] = k
      BY <1>2, <3>1, <3>2 DEF Entered
    <3>4. client.op = "remove" => k # K
      BY <1>3, <3>2, <3>3 DEF Quiet, C, K
    <3>5. CASE k \in Watched(c)
      BY <3>3, <3>5 DEF Quiet, Entry, Watched, K
    <3>6. CASE client.op \in Listing /\ k = K
      BY <3>3, <3>6 DEF Quiet, Entry, Watched, Abandoned, K
    <3>7. CASE Abandoned(k)
      BY <3>3, <3>7 DEF Quiet, Entry, Abandoned
    <3>. QED  BY <3>3, <3>4, <3>5, <3>6, <3>7 DEF Entry
  <2>2. client'.op # "shorten"
    BY DEF Quiet
  <2>. QED  BY <1>3, <2>1, <2>2 DEF Entered
<1>7. Findable'
  <2>1. client'.op # "done" => client.op # "done"
    BY DEF Quiet
  <2>2. ASSUME NEW c \in Cpus, NEW k \in Watched(c)', client.op # "done"
        PROVE  Found(c)
    <3>1. k \in Watched(c) \/ (client.op = "copy" /\ k = K /\ CpuOf[k] = c)
      BY <2>2 DEF Quiet, Watched
    <3>. QED  BY <2>2, <3>1 DEF Findable, Joined, InSetup, C, K
  <2>3. ASSUME NEW c \in Cpus, info'[c].nr > 0 \/ Watched(c)' # {}, client'.op # "done"
        PROVE  Found(c)'
    <3>1. Found(c)
      BY <1>2, <2>1, <2>2, <2>3 DEF Findable
    <3>. QED  BY <2>3, <3>1 DEF Quiet
  <2>. QED  BY <2>3 DEF Quiet, Findable
<1>8. Complete'
  <2>. SUFFICES ASSUME ListGrows PROVE Complete'
    BY DEF Complete
  <2>1. client'.op \in Listing => \E i \in 1 .. info'[C'].nr : info'[C'].calls[i] = K'
    BY <1>1, <1>2 DEF Quiet, Complete, K, C
  <2>2. ASSUME NEW c \in Cpus, NEW k \in Watched(c)'
        PROVE  \E i \in 1 .. Firm(c)' : info'[c].calls[i] = k
    <3>1. k \in Counters /\ CpuOf[k] = c /\ (k \in Watched(c) \/ (client.op = "copy" /\ k = K))
      BY <2>2 DEF Quiet, Watched
    <3>. QED  BY <1>2, <1>3, <3>1 DEF Complete, Listing, C, K
  <2>. QED  BY <2>1, <2>2 DEF Complete
<1>. QED  BY <1>4, <1>5, <1>6, <1>7, <1>8

LEMMA QuietSteps ==
    ASSUME TypeInv, Lives, ListInv,
           \/ \E us \in Rates : SetRate(us)
           \/ \E k \in Counters : Setup(k) \/ Read(k) \/ Close(k)
           \/ Fini \/ CreateDisabled \/ CreateJoins \/ CreateAddFails
           \/ AddCallFunctions \/ AddCallFunctionsFails \/ AddCallTFails
           \/ CreateStarts \/ CreateStartFails \/ CreateHasThread \/ CreateCopies
           \/ ReadEnters \/ ReadLeaves \/ RemoveNothing \/ CloseFrees \/ KillAll \/ FreeAll
    PROVE  Quiet
<1>1. /\ def \in [Counters -> ReaderDefs]
      /\ client.op \in InSetup \cup InRead \cup InClose => client.k \in Counters
      /\ client \in [op : ClientOps, k : Counters \cup {NoCounter}]
      /\ client.op \in Joined => Found(C)
  BY DEF TypeInv, TypeOK, Working, ListInv, Findable, Joined, InSetup
<1>. USE <1>1
     DEF Quiet, Lives, heap, At, Goto, Ready, K, C, InSetup, InRead, InClose, Listing, Joined,
         ReaderDefs, Found, Entries
<1>2. ASSUME NEW us \in Rates, SetRate(us) PROVE Quiet
  BY <1>2 DEF SetRate
<1>3. ASSUME NEW k \in Counters, Setup(k) PROVE Quiet
  BY <1>3 DEF Setup
<1>4. ASSUME NEW k \in Counters, Read(k) PROVE Quiet
  BY <1>4 DEF Read
<1>5. ASSUME NEW k \in Counters, Close(k) PROVE Quiet
  BY <1>5 DEF Close
<1>6. CASE Fini
  BY <1>6 DEF Fini
<1>7. CASE CreateDisabled
  BY <1>7 DEF CreateDisabled
<1>8. CASE AddCallFunctionsFails
  BY <1>8 DEF AddCallFunctionsFails, ListGrows
<1>9. CASE CreateStartFails
  BY <1>9 DEF CreateStartFails, SetupFails
<1>10. CASE CreateHasThread
  BY <1>10 DEF CreateHasThread
<1>11. CASE CreateCopies
  BY <1>11 DEF CreateCopies
<1>12. CASE ReadEnters
  BY <1>12 DEF ReadEnters
<1>13. CASE ReadLeaves
  BY <1>13 DEF ReadLeaves
<1>14. CASE CloseFrees
  BY <1>14 DEF CloseFrees
<1>15. CASE KillAll
  BY <1>15 DEF KillAll
<1>16. CASE FreeAll
  BY <1>16 DEF FreeAll
<1>17. CASE CreateJoins
  BY <1>17, SameLists DEF CreateJoins, CreateEnabled
<1>18. CASE AddCallFunctions
  BY <1>18, SameLists DEF AddCallFunctions
<1>19. CASE AddCallTFails
  BY <1>19, SameLists DEF AddCallTFails, ListGrows
<1>20. CASE CreateStarts
  BY <1>20, SameLists DEF CreateStarts
<1>21. CASE CreateAddFails
  <2>1. \A c \in Cpus : Found(c) => Found(c)'
    BY <1>21, AppendFinds DEF CreateAddFails
  <2>. QED  BY <1>21, <2>1 DEF CreateAddFails, CreateEnabled, SetupFails
<1>22. CASE RemoveNothing
  <2>1. \A i \in 1 .. info[C].nr : info[C].calls[i] # K
    <3>1. CASE Found(C)
      BY <1>22, <3>1 DEF RemoveNothing, Slots
    <3>2. CASE ~Found(C)
      <4>1. C \in Cpus /\ info[C].nr \in Nat
        BY <1>22, CpuOfAssumption DEF RemoveNothing, TypeInv, TypeOK, ThreadInfos
      <4>2. ~(info[C].nr > 0)
        BY <1>22, <3>2, <4>1 DEF RemoveNothing, ListInv, Findable
      <4>. QED  BY <4>1, <4>2
    <3>. QED  BY <3>1, <3>2
  <2>. QED  BY <1>22, <2>1 DEF RemoveNothing
<1>. QED
  BY <1>2, <1>3, <1>4, <1>5, <1>6, <1>7, <1>8, <1>9, <1>10, <1>11, <1>12, <1>13, <1>14, <1>15, <1>16, <1>17, <1>18, <1>19, <1>20, <1>21, <1>22

\* A new thread_info: nobody was watched on the CPU, which had none.
LEMMA ListCreateAdds ==
    ASSUME TypeInv, Lives, ListInv, Complete, CreateAdds
    PROVE  ListInv' /\ Complete'
<1>. USE DEF ListInv
<1>1. /\ client.op = "create" /\ client'.op = "add_call" /\ client'.k = client.k
      /\ ~Found(C) /\ infos' = Append(infos, C) /\ def' = def
      /\ info' = [info EXCEPT ![C] = NewInfo(Period)]
  BY DEF CreateAdds, CreateEnabled, At, Goto, TypeInv, TypeOK
<1>2. C \in Cpus /\ K \in Counters /\ info \in [Cpus -> ThreadInfos]
  BY <1>1, CpuOfAssumption DEF TypeInv, TypeOK, Working, InSetup, C, K
<1>3. /\ \A c \in Cpus : Found(c) => Found(c)'
      /\ Found(C)'
  <2>1. PICK c \in Cpus : c = C
    BY <1>2
  <2>2. infos' = Append(infos, c) /\ C' = c
    BY <1>1, <2>1 DEF C
  <2>. QED  BY <2>1, <2>2, AppendFinds
<1>4. Watched(C) = {}
  BY <1>1, <1>2 DEF Findable
<1>5. /\ info'[C].calls = << >> /\ info'[C].nr = 0 /\ Len(<< >>) = 0
      /\ \A c \in Cpus \ {C} : info'[c] = info[c]
  BY <1>1, <1>2 DEF NewInfo
<1>6. \A c \in Cpus : Firm(c)' = IF c = C THEN 0 ELSE Firm(c)
  <2>1. C' = C
    BY <1>1 DEF C
  <2>. QED  BY <1>1, <1>5, <2>1 DEF Firm
<1>7. \A c \in Cpus : Watched(c)' = Watched(c)
  BY <1>1 DEF Watched
<1>8. Slotted'
  BY <1>1, <1>5 DEF Slotted, Known, Abandoned, Listing
<1>9. Distinct'
  <2>1. ASSUME NEW c \in Cpus, NEW i \in 1 .. Firm(c)', NEW j \in 1 .. Firm(c)',
               info'[c].calls[i] = info'[c].calls[j]
        PROVE  i = j
    <3>1. c # C
      BY <1>6, <2>1
    <3>. QED  BY <1>5, <1>6, <2>1, <3>1 DEF Distinct
  <2>. QED  BY <2>1 DEF Distinct
<1>10. Entered'
  <2>1. ASSUME NEW c \in Cpus, NEW i \in 1 .. Firm(c)'
        PROVE  Entry(c, info[c].calls[i])'
    <3>1. c # C
      BY <1>6, <2>1
    <3>2. Entry(c, info[c].calls[i]) /\ info'[c] = info[c]
      BY <1>5, <1>6, <2>1, <3>1 DEF Entered
    <3>. QED  BY <1>1, <1>7, <3>2 DEF Entry, Abandoned, Listing
  <2>. QED  BY <1>1, <2>1 DEF Entered
<1>11. Findable'
  <2>1. C' = C
    BY <1>1 DEF C
  <2>. QED  BY <1>1, <1>3, <1>5, <1>7, <2>1 DEF Findable
<1>12. Complete'
  BY <1>1, <1>4, <1>5, <1>6, <1>7 DEF Complete, Listing
<1>. QED  BY <1>8, <1>9, <1>10, <1>11, <1>12

\* add_call() appends a counter that is in no slot yet.
LEMMA ListAddCallT ==
    ASSUME TypeInv, Lives, ListInv, Complete, AddCallT
    PROVE  ListInv' /\ Complete'
<1>. USE DEF ListInv
<1>1. /\ client.op = "add_t" /\ client'.op = "start" /\ client'.k = client.k
      /\ UNCHANGED <<infos, def>>
      /\ info' = [info EXCEPT ![C] = Appended(info[C], K)]
  BY DEF AddCallT, At, Goto, TypeInv, TypeOK
<1>2. C \in Cpus /\ K \in Counters /\ info \in [Cpus -> ThreadInfos] /\ CpuOf[K] = C
      /\ info[C].nr <= Len(info[C].calls) /\ info[C].nr \in Nat /\ Len(info[C].calls) \in Nat
  BY <1>1, CpuOfAssumption DEF TypeInv, TypeOK, Working, InSetup, C, K, ThreadInfos
<1>. DEFINE n == info[C].nr
<1>3. /\ info'[C].nr = n + 1 /\ Len(info'[C].calls) = n + 1
      /\ \A i \in 1 .. n : info'[C].calls[i] = info[C].calls[i]
      /\ info'[C].calls[n + 1] = K
      /\ \A c \in Cpus \ {C} : info'[c] = info[c]
  BY <1>1, <1>2, AppendedList
<1>4. /\ Firm(C) = n /\ Firm(C)' = n + 1
      /\ \A c \in Cpus \ {C} : Firm(c)' = Firm(c)
      /\ C' = C /\ K' = K
  <2>1. C' = C /\ K' = K
    BY <1>1 DEF C, K
  <2>. QED  BY <1>1, <1>3, <2>1 DEF Firm
<1>5. \A c \in Cpus : Watched(c)' = Watched(c)
  BY <1>1 DEF Watched
<1>6. \A i \in 1 .. n : info[C].calls[i] # K
  BY <1>1, <1>2 DEF Slotted, Known, Lives, InSetup, Listing, Abandoned
<1>. HIDE DEF n
<1>7. n \in Nat
  BY <1>2 DEF n
<1>8. Slotted'
  <2>1. ASSUME NEW i \in 1 .. n + 1
        PROVE  LET k == info'[C].calls[i] IN
               CpuOf[k] = C /\ (def[k].mutex \/ Abandoned(k) \/ k = K)
    <3>1. CASE i = n + 1
      BY <1>2, <1>3, <3>1
    <3>2. CASE i \in 1 .. n
      <4>1. i \in 1 .. Len(info[C].calls) /\ info'[C].calls[i] = info[C].calls[i]
        BY <1>2, <1>3, <3>2 DEF n
      <4>. QED  BY <1>2, <4>1 DEF Slotted, Known
    <3>. QED  BY <2>1, <1>7, <3>1, <3>2
  <2>2. ASSUME NEW c \in Cpus \ {C}, NEW i \in 1 .. Len(info[c].calls)
        PROVE  LET k == info'[c].calls[i] IN
               CpuOf[k] = c /\ (def[k].mutex \/ Abandoned(k) \/ k = K)
    BY <1>3 DEF Slotted, Known
  <2>3. \A c \in Cpus : \A i \in 1 .. Len(info'[c].calls) :
           LET k == info'[c].calls[i] IN CpuOf[k] = c /\ (def[k].mutex \/ Abandoned(k) \/ k = K)
    BY <1>3, <2>1, <2>2
  <2>. QED  BY <1>1, <1>4, <2>3 DEF Slotted, Known, Abandoned, Listing
<1>9. Distinct'
  <2>1. ASSUME NEW i \in 1 .. n + 1, NEW j \in 1 .. n + 1, info'[C].calls[i] = info'[C].calls[j]
        PROVE  i = j
    <3>1. CASE i \in 1 .. n /\ j \in 1 .. n
      BY <1>2, <1>3, <1>4, <2>1, <3>1 DEF Distinct
    <3>2. CASE i = n + 1 \/ j = n + 1
      <4>1. \A m \in 1 .. n : info'[C].calls[m] # info'[C].calls[n + 1]
        BY <1>3, <1>6
      <4>2. i # n + 1 => i \in 1 .. n
        BY <1>7
      <4>3. j # n + 1 => j \in 1 .. n
        BY <1>7
      <4>. QED  BY <2>1, <3>2, <4>1, <4>2, <4>3
    <3>. QED  BY <1>7, <3>1, <3>2
  <2>. QED  BY <1>3, <1>4, <2>1 DEF Distinct
<1>10. Entered'
  <2>1. ASSUME NEW i \in 1 .. n + 1
        PROVE  Entry(C, info[C].calls[i])' \/ info'[C].calls[i] = K
    BY <1>1, <1>2, <1>3, <1>4, <1>5, <1>7 DEF Entered, Entry, Listing, Abandoned
  <2>2. ASSUME NEW c \in Cpus \ {C}, NEW i \in 1 .. Firm(c)
        PROVE  Entry(c, info[c].calls[i])'
    BY <1>1, <1>3, <1>4, <1>5 DEF Entered, Entry, Listing, Abandoned
  <2>3. \A c \in Cpus : Entry(c, K)'
    BY <1>1, <1>4 DEF Entry, Listing
  <2>. QED  BY <1>1, <1>3, <1>4, <2>1, <2>2, <2>3 DEF Entered, Entry, Listing
<1>11. Findable'
  <2>1. \A c \in Cpus : Found(c)' <=> Found(c)
    BY <1>1 DEF Found, Entries
  <2>2. Found(C)
    BY <1>1 DEF Findable, Joined, InSetup
  <2>. QED  BY <1>1, <1>2, <1>3, <1>4, <1>5, <2>1, <2>2 DEF Findable
<1>12. Complete'
  <2>. SUFFICES ASSUME ListGrows PROVE Complete'
    BY DEF Complete
  <2>1. ASSUME NEW c \in Cpus, NEW k \in Watched(c)
        PROVE  \E i \in 1 .. Firm(c)' : info'[c].calls[i] = k
    <3>1. PICK i \in 1 .. Firm(c) : info[c].calls[i] = k
      BY <2>1 DEF Complete
    <3>2. CASE c = C
      BY <1>3, <1>4, <1>7, <3>1, <3>2
    <3>3. CASE c # C
      BY <1>3, <1>4, <3>1, <3>3
    <3>. QED  BY <3>2, <3>3
  <2>2. n + 1 \in 1 .. info'[C'].nr /\ info'[C'].calls[n + 1] = K'
    BY <1>3, <1>4, <1>7
  <2>. QED  BY <1>5, <2>1, <2>2 DEF Complete
<1>. QED  BY <1>8, <1>9, <1>10, <1>11, <1>12


\* The first memcpy() of remove_call(): the entry is gone, the last call is
\* there twice.
LEMMA ListRemoveShifts ==
    ASSUME TypeInv, Lives, ListInv, Complete, RemoveShifts
    PROVE  ListInv' /\ Complete'
<1>. USE DEF ListInv
<1>1. /\ client.op = "remove" /\ client'.op = "shorten" /\ client'.k = client.k
      /\ UNCHANGED <<infos, def>>
  BY DEF RemoveShifts, At, Goto, TypeInv, TypeOK
<1>2. PICK i \in Slots(C, K) : info' = [info EXCEPT ![C].calls = ShiftedDown(@, info[C].nr, i)]
  BY DEF RemoveShifts
<1>. DEFINE n == info[C].nr
            old == info[C].calls
            new == info'[C].calls
<1>3. /\ C \in Cpus /\ K \in Counters /\ info \in [Cpus -> ThreadInfos]
      /\ n \in Nat /\ Len(old) \in Nat /\ n <= Len(old) /\ old \in Seq(Counters)
      /\ i \in 1 .. n /\ n \in 1 .. Len(old) /\ old[i] = K
  <2>1. C \in Cpus /\ K \in Counters /\ info \in [Cpus -> ThreadInfos]
    BY <1>1, CpuOfAssumption DEF TypeInv, TypeOK, Working, InClose, C, K
  <2>2. n \in Nat /\ Len(old) \in Nat /\ n <= Len(old) /\ old \in Seq(Counters)
    BY <2>1 DEF TypeInv, TypeOK, ThreadInfos
  <2>3. i \in 1 .. n /\ old[i] = K
    BY DEF Slots
  <2>. QED  BY <2>1, <2>2, <2>3
<1>4. /\ info'[C].nr = n /\ Len(new) = Len(old)
      /\ \A j \in 1 .. Len(old) : new[j] = IF i <= j /\ j < n THEN old[j + 1] ELSE old[j]
      /\ \A c \in Cpus \ {C} : info'[c] = info[c]
  <2>1. info'[C].nr = n /\ new = ShiftedDown(old, n, i)
        /\ \A c \in Cpus \ {C} : info'[c] = info[c]
    BY <1>2, <1>3 DEF ThreadInfos
  <2>. QED  BY <1>3, <2>1, ShiftedList
<1>5. C' = C /\ K' = K
  BY <1>1 DEF C, K
<1>6. \A c \in Cpus : Firm(c)' = IF c = C THEN n - 1 ELSE Firm(c)
  BY <1>1, <1>4, <1>5 DEF Firm
<1>7. Firm(C) = n
  BY <1>1 DEF Firm
<1>8. \A c \in Cpus : Watched(c)' = Watched(c)
  BY <1>1 DEF Watched
<1>9. /\ \A j, m \in 1 .. n : old[j] = old[m] => j = m
      /\ \A j \in 1 .. n : old[j] \in Watched(C) \/ old[j] = K \/ Abandoned(old[j])
  BY <1>1, <1>3, <1>7 DEF Distinct, Entered, Entry, Listing
<1>10. \A k \in Counters : Abandoned(k)' <=> Abandoned(k)
  BY <1>1 DEF Abandoned
<1>11. \A j \in 1 .. Len(old) : CpuOf[old[j]] = C /\ (def[old[j]].mutex \/ Abandoned(old[j]))
  BY <1>1, <1>3 DEF Slotted, Known, Listing
<1>12. \A j \in 1 .. Len(old) : old[j] \in Counters
  BY <1>3, TypeOfUpdates
<1>. HIDE DEF n, old, new
\* Where the slots of the shifted list come from.
<1>13. ASSUME NEW j \in 1 .. Len(old)
       PROVE  \E m \in 1 .. Len(old) : /\ new[j] = old[m]
                                       /\ m = IF i <= j /\ j < n THEN j + 1 ELSE j
  BY <1>3, <1>4
<1>14. Slotted'
  <2>1. ASSUME NEW j \in 1 .. Len(old)
        PROVE  CpuOf[new[j]] = C /\ (def[new[j]].mutex \/ Abandoned(new[j]))
    BY <1>11, <1>13
  <2>2. ASSUME NEW c \in Cpus \ {C}, NEW j \in 1 .. Len(info[c].calls)
        PROVE  LET k == info[c].calls[j] IN CpuOf[k] = c /\ (def[k].mutex \/ Abandoned(k))
    BY <1>1 DEF Slotted, Known, Listing
  <2>3. \A c \in Cpus : \A j \in 1 .. Len(info'[c].calls) :
           LET k == info'[c].calls[j] IN CpuOf[k] = c /\ (def[k].mutex \/ Abandoned(k))
    BY <1>4, <2>1, <2>2 DEF new
  <2>. QED  BY <1>1, <2>3 DEF Slotted, Known, Abandoned
<1>15. ASSUME NEW j \in 1 .. n - 1
       PROVE  \E m \in 1 .. n : /\ m # i /\ new[j] = old[m]
                                /\ m = IF i <= j THEN j + 1 ELSE j
  BY <1>3, <1>4
<1>16. Distinct'
  <2>1. ASSUME NEW j \in 1 .. n - 1, NEW m \in 1 .. n - 1, new[j] = new[m]
        PROVE  j = m
    <3>1. (IF i <= j THEN j + 1 ELSE j) = (IF i <= m THEN m + 1 ELSE m)
      BY <1>9, <1>15, <2>1
    <3>. QED  BY <1>3, <3>1
  <2>2. ASSUME NEW c \in Cpus, NEW j \in 1 .. Firm(c)', NEW m \in 1 .. Firm(c)',
               info'[c].calls[j] = info'[c].calls[m]
        PROVE  j = m
    <3>1. CASE c = C
      BY <1>6, <2>1, <2>2, <3>1 DEF new
    <3>2. CASE c # C
      BY <1>4, <1>6, <2>2, <3>2 DEF Distinct
    <3>. QED  BY <3>1, <3>2
  <2>. QED  BY <2>2 DEF Distinct
<1>17. Entered'
  <2>1. ASSUME NEW j \in 1 .. n - 1
        PROVE  new[j] \in Watched(C) \/ Abandoned(new[j])
    BY <1>3, <1>9, <1>15
  <2>2. ASSUME NEW c \in Cpus \ {C}, NEW j \in 1 .. Firm(c)
        PROVE  info[c].calls[j] \in Watched(c) \/ Abandoned(info[c].calls[j])
    <3>1. CpuOf[info[c].calls[j]] # CpuOf[K]
      BY <1>3, FirmSlots DEF C, K
    <3>. QED  BY <1>1, <3>1 DEF Entered, Entry, Listing
  <2>3. ASSUME NEW c \in Cpus, NEW j \in 1 .. Firm(c)'
        PROVE  info'[c].calls[j] \in Watched(c) \/ Abandoned(info'[c].calls[j])
    BY <1>4, <1>6, <2>1, <2>2 DEF new
  <2>4. def[new[n]].heap = "live" \/ Abandoned(new[n])
    <3>1. new[n] = old[n]
      BY <1>3, <1>4
    <3>2. old[n] \in Watched(C) \/ old[n] = K \/ Abandoned(old[n])
      BY <1>3, <1>9
    <3>. QED  BY <1>1, <3>1, <3>2 DEF Lives, InClose, Watched
  <2>5. def'[info'[C'].calls[info'[C'].nr]].heap = "live" \/ Abandoned(info[C].calls[info[C].nr])'
    BY <1>1, <1>4, <1>5, <2>4 DEF new, Abandoned
  <2>. QED  BY <1>1, <1>8, <2>3, <2>5 DEF Entered, Entry, Abandoned
<1>18. Findable'
  <2>1. \A c \in Cpus : Found(c)' <=> Found(c)
    BY <1>1 DEF Found, Entries
  <2>2. \A c \in Cpus : info'[c].nr = info[c].nr
    BY <1>4 DEF n
  <2>. QED  BY <1>1, <1>8, <2>1, <2>2 DEF Findable, Joined, InSetup
<1>19. Complete'
  <2>. SUFFICES ASSUME ListGrows, NEW c \in Cpus, NEW k \in Watched(c)
                PROVE  \E j \in 1 .. Firm(c)' : info'[c].calls[j] = k
    BY <1>1, <1>8 DEF Complete, Listing
  <2>1. PICK m \in 1 .. Firm(c) : info[c].calls[m] = k
    BY DEF Complete
  <2>2. CASE c = C
    <3>1. m \in 1 .. n /\ old[m] = k
      BY <1>7, <2>1, <2>2 DEF old
    <3>2. k # K
      BY <1>1 DEF Watched, Lives, InClose
    <3>3. CASE m < i
      BY <1>3, <1>4, <1>6, <2>2, <3>1, <3>3 DEF new
    <3>4. CASE m > i
      <4>1. m - 1 \in 1 .. n - 1 /\ new[m - 1] = old[m]
        BY <1>3, <1>4, <3>1, <3>4
      <4>. QED  BY <1>6, <2>2, <3>1, <4>1 DEF new
    <3>. QED  BY <1>3, <3>1, <3>2, <3>3, <3>4
  <2>3. CASE c # C
    BY <1>4, <1>6, <2>1, <2>3
  <2>. QED  BY <2>2, <2>3
<1>. QED  BY <1>14, <1>16, <1>17, <1>18, <1>19

\* nr_functions--: the slot that is given up was no entry any more.
LEMMA ListRemoveShortens ==
    ASSUME TypeInv, Lives, ListInv, Complete, RemoveShortens
    PROVE  ListInv' /\ Complete'
<1>. USE DEF ListInv
<1>1. /\ client.op = "shorten" /\ client'.op = "free" /\ client'.k = client.k
      /\ UNCHANGED <<infos, def>>
      /\ info' = [info EXCEPT ![C].nr = @ - 1]
  BY DEF RemoveShortens, At, Goto, TypeInv, TypeOK
<1>2. C \in Cpus /\ K \in Counters /\ info \in [Cpus -> ThreadInfos] /\ info[C].nr \in Nat
  BY <1>1, CpuOfAssumption DEF TypeInv, TypeOK, Working, InClose, C, K, ThreadInfos
<1>3. /\ \A c \in Cpus : info'[c].calls = info[c].calls
      /\ \A c \in Cpus : info'[c].nr = IF c = C THEN info[c].nr - 1 ELSE info[c].nr
  BY <1>1, <1>2 DEF ThreadInfos
<1>4. \A c \in Cpus : Firm(c)' = Firm(c)
  BY <1>1, <1>3 DEF Firm
<1>5. \A c \in Cpus : Watched(c)' = Watched(c)
  BY <1>1 DEF Watched
<1>6. Slotted'
  BY <1>1, <1>3 DEF Slotted, Known, Abandoned, Listing
<1>7. Distinct'
  BY <1>3, <1>4 DEF Distinct
<1>8. Entered'
  BY <1>1, <1>3, <1>4, <1>5 DEF Entered, Entry, Abandoned, Listing
<1>9. Findable'
  <2>1. \A c \in Cpus : Found(c)' <=> Found(c)
    BY <1>1 DEF Found, Entries
  <2>. QED  BY <1>1, <1>2, <1>3, <1>5, <2>1 DEF Findable, Joined, InSetup
<1>10. Complete'
  BY <1>1, <1>3, <1>4, <1>5 DEF Complete, Listing
<1>. QED  BY <1>6, <1>7, <1>8, <1>9, <1>10

LEMMA ListNext == TypeInv /\ Lives /\ ListInv /\ Complete /\ [Next]_vars => ListInv' /\ Complete'
<1>. SUFFICES ASSUME TypeInv, Lives, ListInv, Complete, [Next]_vars PROVE ListInv' /\ Complete'
  OBVIOUS
<1>1. CASE UNCHANGED <<infos, info, def, client>>
  <2>1. Slotted' /\ Distinct'
    BY <1>1 DEF ListInv, Slotted, Known, Distinct, Firm, Abandoned, K, C
  <2>2. Entered'
    <3>1. \A c \in Cpus : Firm(c)' = Firm(c) /\ Watched(c)' = Watched(c)
      BY <1>1 DEF Firm, Watched, C
    <3>. QED  BY <1>1, <3>1 DEF ListInv, Entered, Entry, Abandoned, K, C
  <2>3. Findable'
    BY <1>1 DEF ListInv, Findable, Watched, Found, Entries, C
  <2>4. Complete'
    BY <1>1 DEF Complete, Firm, Watched, K, C
  <2>. QED  BY <2>1, <2>2, <2>3, <2>4 DEF ListInv
<1>2. CASE \E c \in Cpus : ThreadStep(c)
  BY <1>1, <1>2, ThreadKeeps DEF heap
<1>3. CASE CreateFindsGarbage \/ ReadUnsetMutex \/ RemoveFindsGarbage \/ KillFindsGarbage \/ KillWithoutThread
  BY <1>1, <1>3, FaultKeeps
     DEF CreateFindsGarbage, ReadUnsetMutex, RemoveFindsGarbage, KillFindsGarbage, KillWithoutThread
<1>4. CASE CreateAdds
  BY <1>4, ListCreateAdds
<1>5. CASE AddCallT
  BY <1>5, ListAddCallT
<1>6. CASE RemoveShifts
  BY <1>6, ListRemoveShifts
<1>7. CASE RemoveShortens
  BY <1>7, ListRemoveShortens
<1>8. CASE Quiet
  BY <1>8, QuietKeeps
<1>. QED
  BY <1>1, <1>2, <1>3, <1>4, <1>5, <1>6, <1>7, <1>8, QuietSteps
     DEF Next, ClientCall, ClientStep, vars

LEMMA ListInit == Init => ListInv /\ Complete
<1>. SUFFICES ASSUME Init PROVE ListInv /\ Complete
  OBVIOUS
<1>1. \A c \in Cpus : info[c].calls = << >> /\ info[c].nr = 0 /\ Len(<< >>) = 0
  BY DEF Init, NewInfo
<1>2. \A c \in Cpus : Firm(c) = 0 /\ Watched(c) = {}
  BY <1>1 DEF Init, Firm, Watched, NoDef
<1>3. client.op = "ready"
  BY DEF Init
<1>4. \A c \in Cpus : 1 .. Firm(c) = {} /\ 1 .. Len(info[c].calls) = {} /\ ~(info[c].nr > 0)
  <2>. TAKE c \in Cpus
  <2>1. Firm(c) = 0 /\ info[c].nr = 0 /\ Len(info[c].calls) = 0
    BY <1>1, <1>2
  <2>2. 1 .. 0 = {} /\ ~(0 > 0)
    OBVIOUS
  <2>. QED  BY <2>1, <2>2
<1>. QED
  BY <1>2, <1>3, <1>4 DEF ListInv, Slotted, Known, Distinct, Entered, Findable, Complete, Listing, Joined, InSetup

LEMMA Lists == Spec => [](TypeInv /\ Lives /\ ListInv /\ Complete)
BY TypeInit, LivesInit, ListInit, LivesNext, ListNext, OverflowTypes, PTL DEF Spec

\* No list names a reader_def that has been freed, unless setup() freed it
\* because it could not start a thread: on whatever CPU, in the middle of
\* add_call() and remove_call(), and also if realloc() fails.
THEOREM NoDanglingCorrect ==
    ASSUME "thread" \notin Failures
    PROVE  Spec => []NoDanglingCall
<1>1. TypeInv /\ Lives /\ ListInv => NoDanglingCall
  <2>. SUFFICES ASSUME TypeInv, Lives, ListInv, NEW c \in Cpus, NEW i \in 1 .. info[c].nr
                PROVE  def[info[c].calls[i]].heap = "live"
    BY DEF NoDanglingCall, Calls
  <2>1. info[c].nr \in Nat /\ info[c].nr <= Len(info[c].calls) /\ Len(info[c].calls) \in Nat
    BY DEF TypeInv, TypeOK, ThreadInfos
  <2>2. i \in 1 .. Firm(c) \/ (client.op = "shorten" /\ c = C /\ i = info[C].nr)
    BY <2>1 DEF Firm
  <2>3. ASSUME i \in 1 .. Firm(c) PROVE def[info[c].calls[i]].heap = "live"
    <3>1. Entry(c, info[c].calls[i])
      BY <2>3 DEF ListInv, Entered
    <3>. QED  BY <3>1 DEF Entry, Watched, Abandoned, Lives, Listing, InSetup, InClose
  <2>. QED  BY <2>2, <2>3 DEF ListInv, Entered, Abandoned
<1>. QED  BY <1>1, Lists, PTL

\* When realloc() works, a counter that is open with its threads enabled is in
\* the list of its CPU between two calls.
THEOREM OpenIsWatchedCorrect ==
    ASSUME ListGrows
    PROVE  Spec => []OpenIsWatched
<1>1. Complete => OpenIsWatched
  BY DEF Complete, OpenIsWatched, Calls, Firm
<1>. QED  BY <1>1, Lists, PTL

\* When neither realloc() nor pthread_create() fails, the lists are the open
\* counters, each once.
THEOREM CallsExactCorrect ==
    ASSUME ListGrows, "thread" \notin Failures
    PROVE  Spec => []CallsExact
<1>1. TypeInv /\ Lives /\ ListInv /\ Complete => CallsExact
  <2>. SUFFICES ASSUME TypeInv, Lives, ListInv, Complete, client.op = "ready", NEW c \in Cpus
                PROVE  /\ Calls(c) = Watched(c)
                       /\ \A i, j \in 1 .. info[c].nr :
                             info[c].calls[i] = info[c].calls[j] => i = j
    BY DEF CallsExact
  <2>1. Firm(c) = info[c].nr
    BY DEF Firm
  <2>2. Watched(c) \subseteq Calls(c)
    BY <2>1 DEF Complete, Calls
  <2>3. \A i \in 1 .. info[c].nr : info[c].calls[i] \in Watched(c)
    BY <2>1 DEF ListInv, Entered, Entry, Abandoned, Listing
  <2>. QED  BY <2>1, <2>2, <2>3 DEF Calls, ListInv, Distinct
<1>. QED  BY <1>1, Lists, PTL

-----------------------------------------------------------------------------
(* The periods *)

\* The period of a CPU that has counters never grows, and what was promised
\* to a counter stays.
LEMMA PeriodShrinks ==
    ASSUME TypeInv, Lives, ListInv, [Next]_vars
    PROVE  /\ \A c \in Cpus : Watched(c) # {} => info'[c].usleep <= info[c].usleep
           /\ \A k \in Counters : def[k].heap # "none" => def'[k].wanted = def[k].wanted
<1>1. info \in [Cpus -> ThreadInfos] /\ def \in [Counters -> ReaderDefs]
      /\ \A c \in Cpus : info[c].usleep \in Nat
      /\ Period \in Nat
  BY TypeOfUpdates DEF TypeInv, TypeOK, ThreadInfos
<1>. USE <1>1 DEF ThreadInfos, ReaderDefs
<1>2. CASE UNCHANGED <<info, def>>
  BY <1>2
<1>3. CASE \E c \in Cpus : ThreadStep(c)
  BY <1>2, <1>3, ThreadKeeps DEF heap
<1>4. CASE CreateFindsGarbage \/ ReadUnsetMutex \/ RemoveFindsGarbage \/ KillFindsGarbage \/ KillWithoutThread
  BY <1>2, <1>4, FaultKeeps
     DEF CreateFindsGarbage, ReadUnsetMutex, RemoveFindsGarbage, KillFindsGarbage, KillWithoutThread
<1>5. CASE CreateAdds
  <2>1. client.op = "create" /\ ~Found(C) /\ def' = def
        /\ info' = [info EXCEPT ![C] = NewInfo(Period)]
    BY <1>5 DEF CreateAdds, CreateEnabled, At
  <2>2. \A c \in Cpus : Watched(c) # {} => c # C
    BY <2>1 DEF ListInv, Findable
  <2>. QED  BY <2>1, <2>2
<1>6. CASE CreateJoins
  <2>. DEFINE u == IF info[C].usleep > Period THEN Period ELSE info[C].usleep
  <2>1. info' = [info EXCEPT ![C].usleep = u] /\ def' = def
    BY <1>6 DEF CreateJoins
  <2>2. C \in Cpus => u <= info[C].usleep
    OBVIOUS
  <2>. HIDE DEF u
  <2>. QED  BY <2>1, <2>2
<1>7. CASE AddCallT
  <2>1. C \in Cpus /\ K \in Counters /\ info' = [info EXCEPT ![C] = Appended(info[C], K)] /\ def' = def
    BY <1>7, CpuOfAssumption DEF AddCallT, At, TypeInv, Working, InSetup, K, C
  <2>. QED  BY <2>1 DEF Appended
<1>8. CASE AddCallFunctions \/ AddCallTFails \/ CreateStarts \/ RemoveShifts \/ RemoveShortens
  <2>1. \A c \in Cpus : info'[c].usleep = info[c].usleep
    <3>1. CASE AddCallFunctions
      BY <3>1 DEF AddCallFunctions
    <3>2. CASE AddCallTFails
      BY <3>2 DEF AddCallTFails
    <3>3. CASE CreateStarts
      BY <3>3 DEF CreateStarts
    <3>4. CASE RemoveShifts
      BY <3>4 DEF RemoveShifts
    <3>5. CASE RemoveShortens
      BY <3>5 DEF RemoveShortens
    <3>. QED  BY <1>8, <3>1, <3>2, <3>3, <3>4, <3>5
  <2>2. def' = def
    BY <1>8 DEF AddCallFunctions, AddCallTFails, CreateStarts, RemoveShifts, RemoveShortens
  <2>. QED  BY <2>1, <2>2
<1>9. CASE \/ \E k \in Counters : Setup(k) \/ Close(k)
           \/ CreateDisabled \/ CreateAddFails \/ CreateStartFails \/ CreateCopies \/ CloseFrees
  <2>1. ASSUME NEW k \in Counters, Setup(k)
        PROVE  \A j \in Counters : def[j].heap # "none" => def'[j].wanted = def[j].wanted
    BY <2>1 DEF Setup
  <2>2. ASSUME NEW k \in Counters, Close(k)
        PROVE  \A j \in Counters : def'[j].wanted = def[j].wanted
    BY <2>2 DEF Close
  <2>3. CASE CreateDisabled
    BY <2>3 DEF CreateDisabled
  <2>4. CASE CreateAddFails \/ CreateStartFails
    <3>1. def' = [def EXCEPT ![K] = [def[K] EXCEPT !.heap = "freed"]] /\ info' = info
      BY <2>4 DEF CreateAddFails, CreateStartFails, SetupFails
    <3>2. K \in Counters => [def[K] EXCEPT !.heap = "freed"].wanted = def[K].wanted
      OBVIOUS
    <3>3. \A k \in Counters : def'[k].wanted = def[k].wanted
      BY <3>1, <3>2
    <3>. QED  BY <3>1, <3>3
  <2>5. CASE CreateCopies
    BY <2>5 DEF CreateCopies
  <2>6. CASE CloseFrees
    BY <2>6 DEF CloseFrees
  <2>7. info' = info
    BY <1>9 DEF Setup, Close, CreateDisabled, CreateAddFails, CreateStartFails, CreateCopies,
                CloseFrees
  <2>. QED  BY <1>9, <2>1, <2>2, <2>3, <2>4, <2>5, <2>6, <2>7
<1>10. CASE \/ \E us \in Rates : SetRate(us)
            \/ \E k \in Counters : Read(k)
            \/ Fini \/ AddCallFunctionsFails \/ CreateHasThread \/ ReadEnters \/ ReadLeaves
            \/ RemoveNothing \/ KillAll \/ FreeAll
  BY <1>2, <1>10 DEF SetRate, Read, Fini, AddCallFunctionsFails, CreateHasThread, ReadEnters,
                    ReadLeaves, RemoveNothing, KillAll, FreeAll, heap
<1>. QED
  BY <1>2, <1>3, <1>4, <1>5, <1>6, <1>7, <1>8, <1>9, <1>10 DEF Next, ClientCall, ClientStep, vars

\* A counter becomes watched at the end of create(), and not otherwise.
LEMMA WatchedGrows ==
    ASSUME TypeInv, Lives, ListInv, [Next]_vars, NEW k \in Counters, def'[k].open, def'[k].mutex
    PROVE  (def[k].open /\ def[k].mutex) \/ (client.op = "copy" /\ k = K)
<1>1. CASE def' = def
  BY <1>1
<1>2. CASE \E c \in Cpus : ThreadStep(c)
  BY <1>1, <1>2, ThreadKeeps DEF heap
<1>3. CASE CreateFindsGarbage \/ ReadUnsetMutex \/ RemoveFindsGarbage \/ KillFindsGarbage \/ KillWithoutThread
  BY <1>1, <1>3, FaultKeeps
     DEF CreateFindsGarbage, ReadUnsetMutex, RemoveFindsGarbage, KillFindsGarbage, KillWithoutThread
<1>4. CASE CreateAdds \/ AddCallT \/ RemoveShifts \/ RemoveShortens
  BY <1>1, <1>4 DEF CreateAdds, AddCallT, RemoveShifts, RemoveShortens
<1>5. CASE Quiet
  BY <1>5 DEF Quiet
<1>. QED
  BY <1>1, <1>2, <1>3, <1>4, <1>5, QuietSteps DEF Next, ClientCall, ClientStep, vars

\* What setup() has been promised does not change while it runs.
LEMMA PromiseKept ==
    ASSUME TypeInv, Lives, Periods, [Next]_vars
    PROVE  /\ client'.op = "create" =>
                 def'[K'].wanted = IF override'.on THEN override'.us ELSE DEFAULT
           /\ client'.op \in Joined => info'[C'].usleep <= def'[K'].wanted
<1>1. /\ info \in [Cpus -> ThreadInfos] /\ def \in [Counters -> ReaderDefs]
      /\ client.op \in InSetup => client.k \in Counters /\ C \in Cpus /\ info[C].usleep \in Nat
      /\ client \in [op : ClientOps, k : Counters \cup {NoCounter}]
      /\ override \in [on : BOOLEAN, us : Nat]
      /\ Period \in Nat
  BY CpuOfAssumption, TypeOfUpdates DEF TypeInv, TypeOK, Working, ThreadInfos, C
<1>. USE <1>1 DEF Periods, Joined, InSetup, At, Goto, Ready, K, C
<1>2. CASE UNCHANGED <<override, info, def, client>>
  BY <1>2
<1>3. CASE \E c \in Cpus : ThreadStep(c)
  BY <1>2, <1>3, ThreadKeeps DEF heap
<1>4. CASE CreateFindsGarbage \/ ReadUnsetMutex \/ RemoveFindsGarbage \/ KillFindsGarbage \/ KillWithoutThread
  BY <1>2, <1>4, FaultKeeps
     DEF CreateFindsGarbage, ReadUnsetMutex, RemoveFindsGarbage, KillFindsGarbage, KillWithoutThread
<1>5. ASSUME NEW k \in Counters, Setup(k)
      PROVE  client'.op = "create" /\ client'.k = k
             /\ def'[k].wanted = IF override'.on THEN override'.us ELSE DEFAULT
  BY <1>5 DEF Setup, ReaderDefs
\* The rate is not 0, so that the flag is no more than the rate.
<1>6. CASE CreateJoins \/ CreateAdds
  <2>1. /\ client.op = "create" /\ client'.op = "add_call" /\ client'.k = client.k
        /\ def' = def /\ ~(override.on /\ override.us = 0)
    BY <1>6 DEF CreateJoins, CreateAdds, CreateEnabled
  <2>2. Period <= def[K].wanted
    BY <2>1, RatesAssumption DEF Period
  <2>3. info'[C].usleep <= Period
    <3>1. CASE CreateAdds
      BY <2>1, <3>1 DEF CreateAdds, NewInfo
    <3>2. CASE CreateJoins
      <4>. DEFINE u == IF info[C].usleep > Period THEN Period ELSE info[C].usleep
      <4>1. info' = [info EXCEPT ![C].usleep = u] /\ u <= Period
        BY <2>1, <3>2 DEF CreateJoins
      <4>. HIDE DEF u
      <4>. QED  BY <2>1, <4>1 DEF ThreadInfos
    <3>. QED  BY <1>6, <3>1, <3>2
  <2>4. info'[C].usleep \in Nat /\ def[K].wanted \in Nat
    <3>1. TypeInv'
      BY <1>6, TypeClient DEF ClientStep
    <3>. QED  BY <2>1, <3>1 DEF TypeInv, TypeOK, ThreadInfos, ReaderDefs
  <2>. QED  BY <2>1, <2>2, <2>3, <2>4
<1>7. CASE AddCallFunctions \/ AddCallFunctionsFails \/ AddCallT \/ AddCallTFails \/ CreateStarts \/ CreateHasThread
  <2>1. /\ client.op \in Joined /\ client'.op \in Joined /\ client'.k = client.k /\ def' = def
    BY <1>7 DEF AddCallFunctions, AddCallFunctionsFails, AddCallT, AddCallTFails, CreateStarts,
                CreateHasThread, heap
  <2>2. info'[C].usleep = info[C].usleep
    <3>1. CASE AddCallFunctions
      BY <3>1 DEF AddCallFunctions, ThreadInfos
    <3>2. CASE AddCallTFails
      BY <3>2 DEF AddCallTFails, ThreadInfos
    <3>3. CASE CreateStarts
      BY <3>3 DEF CreateStarts, ThreadInfos
    <3>4. CASE AddCallT
      BY <3>4 DEF AddCallT, Appended, ThreadInfos
    <3>5. CASE AddCallFunctionsFails \/ CreateHasThread
      BY <3>5 DEF AddCallFunctionsFails, CreateHasThread, heap
    <3>. QED  BY <1>7, <3>1, <3>2, <3>3, <3>4, <3>5
  <2>. QED  BY <2>1, <2>2
<1>8. CASE \/ CreateDisabled \/ CreateAddFails \/ CreateStartFails \/ CreateCopies
           \/ \E k \in Counters : Read(k) \/ Close(k)
           \/ \E us \in Rates : SetRate(us)
           \/ Fini \/ ReadEnters \/ ReadLeaves \/ RemoveNothing \/ RemoveShifts \/ RemoveShortens
           \/ CloseFrees \/ KillAll \/ FreeAll
  <2>1. client'.op \notin InSetup
    BY <1>8 DEF CreateDisabled, CreateAddFails, CreateStartFails, CreateCopies, Read, Close, SetRate,
                Fini, ReadEnters, ReadLeaves, RemoveNothing, RemoveShifts, RemoveShortens,
                CloseFrees, KillAll, FreeAll, SetupFails
  <2>. QED  BY <2>1
<1>. QED
  BY <1>2, <1>3, <1>4, <1>5, <1>6, <1>7, <1>8 DEF Next, ClientCall, ClientStep, vars

\* At the end of create() nobody else changes a thread_info.
LEMMA CopyKeeps == ASSUME client.op = "copy", [Next]_vars PROVE info' = info
<1>1. CASE \E c \in Cpus : ThreadStep(c)
  BY <1>1, ThreadKeeps DEF heap
<1>2. CASE CreateCopies
  BY <1>2 DEF CreateCopies
<1>. QED
  BY <1>1, <1>2
     DEF Next, vars, ClientCall, SetRate, Setup, Read, Close, Fini, ClientStep, At,
         CreateDisabled, CreateFindsGarbage, CreateJoins, CreateAdds, CreateAddFails, CreateEnabled,
         AddCallFunctions, AddCallFunctionsFails, AddCallT, AddCallTFails,
         CreateStarts, CreateStartFails, CreateHasThread,
         ReadUnsetMutex, ReadEnters, ReadLeaves,
         RemoveFindsGarbage, RemoveNothing, RemoveShifts, RemoveShortens, CloseFrees,
         KillFindsGarbage, KillWithoutThread, KillAll, FreeAll

LEMMA PeriodsNext == TypeInv /\ Lives /\ ListInv /\ Periods /\ [Next]_vars => Periods'
<1>. SUFFICES ASSUME TypeInv, Lives, ListInv, Periods, [Next]_vars PROVE Periods'
  OBVIOUS
<1>1. ASSUME NEW c \in Cpus, NEW k \in Watched(c)'
      PROVE  info'[c].usleep <= def'[k].wanted
  <2>1. k \in Counters /\ CpuOf[k] = c
    BY <1>1 DEF Watched
  <2>2. CASE k \in Watched(c)
    <3>1. /\ info'[c].usleep <= info[c].usleep
          /\ def'[k].wanted = def[k].wanted
          /\ info[c].usleep <= def[k].wanted
      BY <2>1, <2>2, PeriodShrinks DEF Watched, Lives, Periods, PeriodKept
    <3>2. info'[c].usleep \in Nat /\ info[c].usleep \in Nat /\ def[k].wanted \in Nat
      <4>1. TypeInv'
        BY TypeNext
      <4>. QED  BY <2>1, <4>1 DEF TypeInv, TypeOK, ThreadInfos, ReaderDefs
    <3>. QED  BY <3>1, <3>2
  <2>3. CASE client.op = "copy" /\ k = K
    <3>1. c = C /\ info[c].usleep <= def[k].wanted /\ def[k].heap # "none"
      BY <2>1, <2>3 DEF C, K, Periods, Lives, Joined, InSetup
    <3>2. info'[c].usleep = info[c].usleep
      BY <2>3, CopyKeeps
    <3>. QED  BY <2>1, <3>1, <3>2, PeriodShrinks
  <2>. QED  BY <1>1, <2>1, <2>2, <2>3, WatchedGrows DEF Watched
<1>. QED  BY <1>1, PromiseKept DEF Periods, PeriodKept

\* A sleep begins with the period that is stored then.
LEMMA SleepBegins ==
    ASSUME TypeInv, [Next]_vars, NEW c \in Cpus, thread[c].pc # "sleep", thread'[c].pc = "sleep"
    PROVE  thread'[c].us = info[c].usleep
<1>1. thread \in [Cpus -> Threads]
  BY DEF TypeInv, TypeOK
<1>. USE <1>1 DEF Threads
<1>2. thread' # thread
  OBVIOUS
<1>3. CASE \E d \in Cpus : ThreadStep(d)
  <2>1. PICK d \in Cpus : ThreadStep(d)
    BY <1>3
  <2>2. CASE ThreadSleeps(d)
    BY <2>2 DEF ThreadSleeps
  <2>3. CASE ThreadFetches(d)
    BY <1>2, <2>3 DEF ThreadFetches, Fault, threads
  <2>4. CASE ThreadWakes(d) \/ ThreadChecks(d) \/ ThreadReturns(d) \/ ThreadDies(d)
    BY <2>4 DEF ThreadWakes, ThreadChecks, ThreadReturns, ThreadDies
  <2>5. CASE ThreadEnters(d) \/ ThreadLeaves(d)
    BY <2>5 DEF ThreadEnters, ThreadLeaves
  <2>. QED
    BY <1>2, <2>1, <2>2, <2>3, <2>4, <2>5
       DEF ThreadStep, UsesFreedInfo, ThreadUsesFreedCounter, ThreadLocksUnsetMutex, Fault, threads
<1>4. CASE CreateStarts
  BY <1>4 DEF CreateStarts
<1>5. CASE (ClientCall \/ ClientStep) /\ ~CreateStarts
  BY <1>2, <1>5
     DEF ClientCall, SetRate, Setup, Read, Close, Fini, ClientStep,
         CreateDisabled, CreateFindsGarbage, CreateJoins, CreateAdds, CreateAddFails,
         AddCallFunctions, AddCallFunctionsFails, AddCallT, AddCallTFails,
         CreateStartFails, CreateHasThread, CreateCopies,
         ReadUnsetMutex, ReadEnters, ReadLeaves,
         RemoveFindsGarbage, RemoveNothing, RemoveShifts, RemoveShortens, CloseFrees,
         KillFindsGarbage, KillWithoutThread, KillAll, FreeAll, Fault, threads
<1>. QED  BY <1>2, <1>3, <1>4, <1>5 DEF Next, vars

\* No sleep that begins is longer than what the counters it serves were
\* promised, whatever fails and in whatever order rates are set and counters
\* come and go.
THEOREM SleepsAsPromisedCorrect == Spec => SleepsAsPromised
<1>1. Init => Periods
  BY DEF Init, Periods, PeriodKept, Watched, NoDef, Joined, InSetup
<1>2. TypeInv /\ Periods /\ [Next]_vars =>
         [\A c \in Cpus : thread[c].pc # "sleep" /\ thread'[c].pc = "sleep" =>
             \A k \in Watched(c) : thread'[c].us <= def[k].wanted]_vars
  <2>. SUFFICES ASSUME TypeInv, Periods, [Next]_vars, NEW c \in Cpus,
                       thread[c].pc # "sleep", thread'[c].pc = "sleep", NEW k \in Watched(c)
                PROVE  thread'[c].us <= def[k].wanted
    OBVIOUS
  <2>. QED  BY SleepBegins DEF Periods, PeriodKept
<1>. QED  BY <1>1, <1>2, PeriodsNext, Lists, PTL DEF Spec, SleepsAsPromised

-----------------------------------------------------------------------------
(* The overflow threads, and the mutex of a counter *)

\* What is known in a list stays known: a mutex is never unset.
LEMMA KnownStays ==
    ASSUME TypeInv, Lives, ListInv, [Next]_vars, NEW k \in Counters, Known(k)
    PROVE  def'[k].mutex \/ Abandoned(k)' \/ (client'.op \in Listing /\ client'.k = k)
<1>. USE DEF Known, Abandoned, K
<1>1. CASE def' = def /\ client' = client
  BY <1>1
<1>2. CASE \E c \in Cpus : ThreadStep(c)
  BY <1>1, <1>2, ThreadKeeps DEF heap
<1>3. CASE CreateFindsGarbage \/ ReadUnsetMutex \/ RemoveFindsGarbage \/ KillFindsGarbage \/ KillWithoutThread
  BY <1>1, <1>3, FaultKeeps
     DEF CreateFindsGarbage, ReadUnsetMutex, RemoveFindsGarbage, KillFindsGarbage, KillWithoutThread
<1>4. CASE CreateAdds \/ AddCallT \/ RemoveShifts \/ RemoveShortens
  BY <1>4 DEF CreateAdds, CreateEnabled, AddCallT, RemoveShifts, RemoveShortens, At, Goto, Listing
<1>5. CASE Quiet
  BY <1>5 DEF Quiet
<1>. QED
  BY <1>1, <1>2, <1>3, <1>4, <1>5, QuietSteps DEF Next, ClientCall, ClientStep, vars

\* A thread leaves the counter it works on, takes the one of a slot, or keeps
\* the one it has; only the program's creation of a thread moves another's.
LEMMA ThreadMoves ==
    ASSUME TypeInv, [Next]_vars, NEW c \in Cpus
    PROVE  \/ thread'[c].pc \notin InDoRead
           \/ thread[c].pc \in InDoRead /\ thread'[c].t = thread[c].t
           \/ /\ client' = client /\ def' = def
              /\ \E i \in 1 .. Len(info[c].calls) : thread'[c].t = info[c].calls[i]
<1>1. thread \in [Cpus -> Threads]
  BY DEF TypeInv, TypeOK
<1>. USE <1>1 DEF Threads, InDoRead
<1>2. CASE thread' = thread
  BY <1>2
<1>3. ASSUME NEW d \in Cpus, ThreadStep(d), thread' # thread
      PROVE  \/ thread'[c].pc \notin InDoRead
             \/ thread[c].pc \in InDoRead /\ thread'[c].t = thread[c].t
             \/ \E i \in 1 .. Len(info[c].calls) : thread'[c].t = info[c].calls[i]
  <2>1. CASE ThreadFetches(d)
    <3>1. ~(thread[d].i >= Len(info[d].calls))
          /\ thread' = [thread EXCEPT ![d].pc = "call", ![d].t = info[d].calls[thread[d].i + 1]]
      BY <1>3, <2>1 DEF ThreadFetches, Fault, threads
    <3>2. thread[d].i \in Nat /\ Len(info[d].calls) \in Nat
      BY DEF TypeInv, TypeOK, ThreadInfos
    <3>3. thread[d].i + 1 \in 1 .. Len(info[d].calls)
      BY <3>1, <3>2
    <3>. QED  BY <3>1, <3>3
  <2>2. CASE ThreadChecks(d)
    BY <2>2 DEF ThreadChecks
  <2>3. CASE ThreadReturns(d)
    BY <2>3 DEF ThreadReturns
  <2>4. CASE ThreadSleeps(d)
    BY <2>4 DEF ThreadSleeps
  <2>5. CASE ThreadWakes(d)
    BY <2>5 DEF ThreadWakes
  <2>6. CASE ThreadDies(d)
    BY <2>6 DEF ThreadDies
  <2>7. CASE ThreadEnters(d)
    BY <2>7 DEF ThreadEnters, ThreadAt
  <2>8. CASE ThreadLeaves(d)
    BY <2>8 DEF ThreadLeaves, ThreadAt
  <2>. QED
    BY <1>3, <2>1, <2>2, <2>3, <2>4, <2>5, <2>6, <2>7, <2>8
       DEF ThreadStep, UsesFreedInfo, ThreadUsesFreedCounter, ThreadLocksUnsetMutex, Fault, threads
<1>4. CASE \E d \in Cpus : ThreadStep(d)
  BY <1>2, <1>3, <1>4, ThreadKeeps DEF heap
<1>5. CASE CreateStarts
  BY <1>5 DEF CreateStarts
<1>6. CASE (ClientCall \/ ClientStep) /\ ~CreateStarts
  BY <1>2, <1>6
     DEF ClientCall, SetRate, Setup, Read, Close, Fini, ClientStep,
         CreateDisabled, CreateFindsGarbage, CreateJoins, CreateAdds, CreateAddFails,
         AddCallFunctions, AddCallFunctionsFails, AddCallT, AddCallTFails,
         CreateStartFails, CreateHasThread, CreateCopies,
         ReadUnsetMutex, ReadEnters, ReadLeaves,
         RemoveFindsGarbage, RemoveNothing, RemoveShifts, RemoveShortens, CloseFrees,
         KillFindsGarbage, KillWithoutThread, KillAll, FreeAll, Fault, threads
<1>. QED  BY <1>2, <1>4, <1>5, <1>6 DEF Next, vars

LEMMA FetchedNext == TypeInv /\ Lives /\ ListInv /\ Fetched /\ [Next]_vars => Fetched'
<1>. SUFFICES ASSUME TypeInv, Lives, ListInv, Fetched, [Next]_vars, NEW c \in Cpus,
                     thread'[c].pc \in InDoRead
              PROVE  Known(thread[c].t)'
  BY DEF Fetched
<1>1. TypeInv'
  BY TypeNext
<1>2. PICK k \in Counters : k = thread'[c].t
  BY <1>1 DEF TypeInv, Working
<1>3. CASE thread[c].pc \in InDoRead /\ thread[c].t = k
  <2>1. Known(k)
    BY <1>3 DEF Fetched
  <2>. QED  BY <1>2, <2>1, KnownStays DEF Known, Abandoned, K
<1>4. CASE \E i \in 1 .. Len(info[c].calls) : info[c].calls[i] = k
  <2>1. Known(k)
    BY <1>4 DEF ListInv, Slotted
  <2>. QED  BY <1>2, <2>1, KnownStays DEF Known, Abandoned, K
<1>. QED  BY <1>2, <1>3, <1>4, ThreadMoves

LEMMA Fetches == Spec => []Fetched
<1>1. Init => Fetched
  BY DEF Init, Fetched, InDoRead
<1>. QED  BY <1>1, FetchedNext, Lists, PTL DEF Spec


\* Where close() keeps the reader_def, as in likwid.c, no overflow thread uses
\* a counter that was freed, if threads can be created.
THEOREM KeptCounterCorrect ==
    ASSUME ~FreesDef, "thread" \notin Failures
    PROVE  Spec => []NoFreedCounter
<1>1. Init => NoFreedCounter
  BY DEF Init, NoFreedCounter
<1>2. TypeInv /\ Lives /\ Fetched /\ NoFreedCounter /\ [Next]_vars => NoFreedCounter'
  <2>. SUFFICES ASSUME TypeInv, Lives, Fetched, NoFreedCounter, [Next]_vars PROVE NoFreedCounter'
    OBVIOUS
  <2>1. \A c \in Cpus : ~ThreadUsesFreedCounter(c)
    <3>. SUFFICES ASSUME NEW c \in Cpus, ThreadUsesFreedCounter(c) PROVE FALSE
      OBVIOUS
    <3>1. /\ thread[c].pc \in InDoRead /\ def[thread[c].t].heap = "freed"
      BY DEF ThreadUsesFreedCounter, ThreadAt, InDoRead
    <3>. QED
      BY <3>1 DEF Fetched, Known, Abandoned, Lives, Listing, InSetup, TypeInv, Working
  <2>2. CASE \E c \in Cpus : ThreadStep(c)
    BY <2>1, <2>2
       DEF NoFreedCounter, ThreadStep, UsesFreedInfo, ThreadSleeps, ThreadWakes, ThreadChecks,
           ThreadFetches, ThreadLocksUnsetMutex, ThreadEnters, ThreadLeaves, ThreadReturns,
           ThreadDies, Fault
  <2>3. CASE ClientCall \/ ClientStep
    BY <2>3
       DEF NoFreedCounter, ClientCall, SetRate, Setup, Read, Close, Fini, ClientStep,
           CreateDisabled, CreateFindsGarbage, CreateJoins, CreateAdds, CreateAddFails,
           AddCallFunctions, AddCallFunctionsFails, AddCallT, AddCallTFails, CreateStarts,
           CreateStartFails, CreateHasThread, CreateCopies,
           ReadUnsetMutex, ReadEnters, ReadLeaves,
           RemoveFindsGarbage, RemoveNothing, RemoveShifts, RemoveShortens, CloseFrees,
           KillFindsGarbage, KillWithoutThread, KillAll, FreeAll, Fault
  <2>. QED  BY <2>2, <2>3 DEF Next, vars, NoFreedCounter
<1>. QED  BY <1>1, <1>2, Lists, Fetches, PTL DEF Spec

LEMMA StartedNext == TypeInv /\ Lives /\ ListInv /\ Started /\ [Next]_vars => Started'
<1>. SUFFICES ASSUME TypeInv, Lives, ListInv, Started, [Next]_vars,
                     client'.op # "done", NEW c \in Cpus, thread'[c].pc # "none"
              PROVE  Found(c)' /\ info'[c].thread
  BY DEF Started
<1>1. /\ thread \in [Cpus -> Threads] /\ info \in [Cpus -> ThreadInfos]
      /\ client \in [op : ClientOps, k : Counters \cup {NoCounter}]
      /\ client.op \in InSetup => client.k \in Counters /\ C \in Cpus
  BY CpuOfAssumption DEF TypeInv, TypeOK, Working, C
<1>2. CASE CreateStarts
  <2>1. /\ client.op = "start"
        /\ info' = [info EXCEPT ![C].thread = TRUE] /\ infos' = infos
        /\ thread' = [thread EXCEPT ![C].pc = "period"]
    BY <1>2 DEF CreateStarts, At
  <2>2. Found(C) /\ C \in Cpus
    BY <1>1, <2>1 DEF ListInv, Findable, Joined, InSetup
  <2>3. CASE c = C
    BY <1>1, <2>1, <2>2, <2>3 DEF Found, Entries, ThreadInfos
  <2>4. CASE c # C
    <3>1. thread[c].pc # "none"
      BY <1>1, <2>1, <2>2, <2>4
    <3>. QED  BY <1>1, <2>1, <2>2, <2>4, <3>1 DEF Started, Found, Entries
  <2>. QED  BY <2>3, <2>4
<1>3. CASE ~CreateStarts
  <2>1. thread[c].pc # "none"
    <3>1. CASE \E d \in Cpus : ThreadStep(d)
      BY <1>1, <3>1
         DEF ThreadStep, UsesFreedInfo, ThreadSleeps, ThreadWakes, ThreadChecks, ThreadFetches,
             ThreadUsesFreedCounter, ThreadLocksUnsetMutex, ThreadEnters, ThreadLeaves,
             ThreadReturns, ThreadDies, Fault, threads, ThreadAt
    <3>2. CASE thread' = thread
      BY <3>2
    <3>. QED
      BY <1>3, <3>1, <3>2
         DEF Next, vars, ClientCall, SetRate, Setup, Read, Close, Fini, ClientStep,
             CreateDisabled, CreateFindsGarbage, CreateJoins, CreateAdds, CreateAddFails,
             AddCallFunctions, AddCallFunctionsFails, AddCallT, AddCallTFails,
             CreateStartFails, CreateHasThread, CreateCopies,
             ReadUnsetMutex, ReadEnters, ReadLeaves,
             RemoveFindsGarbage, RemoveNothing, RemoveShifts, RemoveShortens, CloseFrees,
             KillFindsGarbage, KillWithoutThread, KillAll, FreeAll, Fault, threads
  <2>2. client.op # "done" => Found(c) /\ info[c].thread
    BY <2>1 DEF Started
  <2>3. CASE UNCHANGED <<infos, info, client>>
    BY <2>2, <2>3 DEF Found, Entries
  <2>4. CASE \E d \in Cpus : ThreadStep(d)
    BY <2>3, <2>4, ThreadKeeps DEF heap
  <2>5. CASE CreateFindsGarbage \/ ReadUnsetMutex \/ RemoveFindsGarbage \/ KillFindsGarbage \/ KillWithoutThread
    BY <2>3, <2>5, FaultKeeps
       DEF CreateFindsGarbage, ReadUnsetMutex, RemoveFindsGarbage, KillFindsGarbage, KillWithoutThread
  <2>6. CASE CreateAdds
    <3>1. /\ client.op = "create" /\ ~Found(C) /\ infos' = Append(infos, C)
          /\ info' = [info EXCEPT ![C] = NewInfo(Period)]
      BY <2>6 DEF CreateAdds, CreateEnabled, At
    <3>2. Found(c) /\ info[c].thread /\ c # C
      BY <2>2, <3>1
    <3>3. PICK d \in Cpus : d = C
      BY <1>1, <3>1 DEF InSetup
    <3>4. Found(c)'
      BY <3>1, <3>2, <3>3, AppendFinds
    <3>. QED  BY <1>1, <3>1, <3>2, <3>4
  <2>7. CASE AddCallT \/ RemoveShifts \/ RemoveShortens
    <3>1. UNCHANGED infos /\ client.op # "done"
      BY <2>7 DEF AddCallT, RemoveShifts, RemoveShortens, At
    <3>2. info'[c].thread = info[c].thread
      <4>1. CASE AddCallT
        BY <1>1, <4>1 DEF AddCallT, Appended, ThreadInfos
      <4>2. CASE RemoveShifts
        BY <1>1, <4>2 DEF RemoveShifts, ThreadInfos
      <4>3. CASE RemoveShortens
        BY <1>1, <4>3 DEF RemoveShortens, ThreadInfos
      <4>. QED  BY <2>7, <4>1, <4>2, <4>3
    <3>. QED  BY <2>2, <3>1, <3>2 DEF Found, Entries
  <2>8. CASE CreateJoins \/ AddCallFunctions \/ AddCallTFails
    <3>1. client.op # "done" /\ infos' = infos
      BY <2>8 DEF CreateJoins, CreateEnabled, AddCallFunctions, AddCallTFails, At
    <3>2. info'[c].thread = info[c].thread
      <4>1. CASE CreateJoins
        BY <1>1, <4>1 DEF CreateJoins, ThreadInfos
      <4>2. CASE AddCallFunctions
        BY <1>1, <4>2 DEF AddCallFunctions, ThreadInfos
      <4>3. CASE AddCallTFails
        BY <1>1, <4>3 DEF AddCallTFails, ThreadInfos
      <4>. QED  BY <2>8, <4>1, <4>2, <4>3
    <3>. QED  BY <2>2, <3>1, <3>2 DEF Found, Entries
  <2>9. CASE Quiet /\ info' = info
    <3>1. client.op # "done" /\ Found(c)'
      BY <2>2, <2>9 DEF Quiet
    <3>. QED  BY <2>2, <2>9, <3>1
  <2>10. CASE \/ \E us \in Rates : SetRate(us)
              \/ \E k \in Counters : Setup(k) \/ Read(k) \/ Close(k)
              \/ Fini \/ CreateDisabled \/ CreateAddFails \/ AddCallFunctionsFails
              \/ CreateStartFails \/ CreateHasThread \/ CreateCopies
              \/ ReadEnters \/ ReadLeaves \/ RemoveNothing \/ CloseFrees \/ KillAll \/ FreeAll
    <3>1. info' = info
      BY <2>10 DEF SetRate, Setup, Read, Close, Fini, CreateDisabled, CreateAddFails,
                   AddCallFunctionsFails, CreateStartFails, CreateHasThread, CreateCopies,
                   ReadEnters, ReadLeaves, RemoveNothing, CloseFrees, KillAll, FreeAll, heap
    <3>. QED  BY <2>9, <2>10, <3>1, QuietSteps
  <2>11. CASE ClientCall
    BY <2>10, <2>11 DEF ClientCall
  <2>12. CASE ClientStep
    BY <1>3, <2>5, <2>6, <2>7, <2>8, <2>10, <2>12 DEF ClientStep
  <2>. QED  BY <2>3, <2>4, <2>11, <2>12 DEF Next, vars
<1>. QED  BY <1>2, <1>3


LEMMA Starts == Spec => []Started
<1>1. Init => Started
  BY DEF Init, Started
<1>. QED  BY <1>1, StartedNext, Lists, PTL DEF Spec

LEMMA OwnersNext == TypeInv /\ Lives /\ ListInv /\ Started /\ Owners /\ [Next]_vars => Owners'
<1>. SUFFICES ASSUME TypeInv, Lives, ListInv, Started, Owners, [Next]_vars, Locks PROVE Owners'
  BY DEF Owners
<1>1. /\ thread \in [Cpus -> Threads]
      /\ lock \in [Counters -> Cpus \cup {Program, Nobody}]
      /\ client \in [op : ClientOps, k : Counters \cup {NoCounter}]
      /\ client.op \in InSetup \cup InRead => client.k \in Counters
      /\ \A c \in Cpus : thread[c].pc \in InDoRead => thread[c].t \in Counters
      /\ Program # Nobody /\ \A c \in Cpus : c # Program /\ c # Nobody
  BY NamesAssumption DEF TypeInv, TypeOK, Working
<1>. USE <1>1 DEF Owners, Threads, K, InDoRead
<1>2. CASE UNCHANGED <<thread, lock>> /\ client.op # "inside" /\ client'.op # "inside"
  BY <1>2
<1>3. ASSUME NEW c \in Cpus, ThreadStep(c) PROVE Owners'
  <2>1. client' = client
    BY <1>3, ThreadKeeps
  <2>2. CASE ThreadEnters(c)
    <3>1. PICK k \in Counters : k = thread[c].t
      BY <2>2 DEF ThreadEnters, ThreadAt
    <3>2. /\ lock[k] = Nobody /\ thread[c].pc = "call"
          /\ lock' = [lock EXCEPT ![k] = c] /\ thread' = [thread EXCEPT ![c].pc = "inside"]
      BY <2>2, <3>1 DEF ThreadEnters, ThreadAt
    <3>. QED  BY <2>1, <3>1, <3>2
  <2>3. CASE ThreadLeaves(c)
    <3>1. PICK k \in Counters : k = thread[c].t
      BY <2>3 DEF ThreadLeaves, ThreadAt
    <3>2. /\ lock[k] = c /\ thread[c].pc = "inside"
          /\ lock' = [lock EXCEPT ![k] = Nobody] /\ thread' = [thread EXCEPT ![c].pc = "load"]
      BY <2>3, <3>1 DEF ThreadLeaves, ThreadAt
    <3>. QED  BY <2>1, <3>1, <3>2
  <2>4. CASE ThreadDies(c)
    BY <2>1, <2>4 DEF ThreadDies, ThreadAt
  <2>5. CASE ThreadSleeps(c) \/ ThreadWakes(c) \/ ThreadChecks(c) \/ ThreadFetches(c) \/ ThreadReturns(c)
    <3>1. thread[c].pc \notin {"inside", "dead"} /\ lock' = lock
      BY <2>5 DEF ThreadSleeps, ThreadWakes, ThreadChecks, ThreadFetches, ThreadReturns, ThreadAt, Fault
    <3>2. thread'[c].pc \notin {"inside", "dead"} /\ \A d \in Cpus \ {c} : thread'[d] = thread[d]
      BY <2>5, <3>1 DEF ThreadSleeps, ThreadWakes, ThreadChecks, ThreadFetches, ThreadReturns, Fault, threads
    <3>. QED  BY <2>1, <3>1, <3>2
  <2>6. CASE UNCHANGED <<thread, lock>>
    BY <2>1, <2>6
  <2>. QED
    BY <1>3, <2>2, <2>3, <2>4, <2>5, <2>6
       DEF ThreadStep, UsesFreedInfo, ThreadUsesFreedCounter, ThreadLocksUnsetMutex, Fault, threads
<1>4. CASE CreateFindsGarbage \/ ReadUnsetMutex \/ RemoveFindsGarbage \/ KillFindsGarbage \/ KillWithoutThread
  <2>1. UNCHANGED <<thread, lock, client>>
    BY <1>4, FaultKeeps
       DEF CreateFindsGarbage, ReadUnsetMutex, RemoveFindsGarbage, KillFindsGarbage, KillWithoutThread
  <2>. QED  BY <2>1
\* The thread that is created is the first one of its CPU.
<1>5. CASE CreateStarts
  <2>1. /\ client.op = "start" /\ client'.op = "copy" /\ ~info[C].thread /\ lock' = lock
        /\ thread' = [thread EXCEPT ![C].pc = "period"]
    BY <1>5 DEF CreateStarts, At, Goto
  <2>2. C \in Cpus /\ thread[C].pc = "none"
    BY <2>1, CpuOfAssumption DEF Started, C, InSetup
  <2>. QED  BY <2>1, <2>2
<1>6. CASE ReadEnters
  <2>1. PICK k \in Counters : k = client.k
    BY <1>6 DEF ReadEnters, At, InRead
  <2>2. /\ lock[k] = Nobody /\ client.op = "read" /\ client'.op = "inside" /\ client'.k = k
        /\ lock' = [lock EXCEPT ![k] = Program] /\ thread' = thread
    BY <1>6, <2>1 DEF ReadEnters, At, Goto, threads
  <2>. QED  BY <2>1, <2>2
<1>7. CASE ReadLeaves
  <2>1. PICK k \in Counters : k = client.k
    BY <1>7 DEF ReadLeaves, At, InRead
  <2>2. /\ client.op = "inside" /\ client'.op = "ready"
        /\ lock' = [lock EXCEPT ![k] = Nobody] /\ thread' = thread
    BY <1>7, <2>1 DEF ReadLeaves, At, Ready, threads
  <2>. QED  BY <2>1, <2>2
<1>8. CASE UNCHANGED vars
  BY <1>8 DEF vars
<1>9. CASE \/ \E us \in Rates : SetRate(us)
           \/ \E k \in Counters : Setup(k) \/ Read(k) \/ Close(k)
           \/ Fini \/ CreateDisabled \/ CreateJoins \/ CreateAdds \/ CreateAddFails
           \/ AddCallFunctions \/ AddCallFunctionsFails \/ AddCallT \/ AddCallTFails
           \/ CreateStartFails \/ CreateHasThread \/ CreateCopies
           \/ RemoveNothing \/ RemoveShifts \/ RemoveShortens \/ CloseFrees \/ KillAll \/ FreeAll
  <2>1. client.op # "inside"
    BY <1>9
       DEF SetRate, Setup, Read, Close, Fini, At,
           CreateDisabled, CreateJoins, CreateAdds, CreateAddFails, CreateEnabled,
           AddCallFunctions, AddCallFunctionsFails, AddCallT, AddCallTFails,
           CreateStartFails, CreateHasThread, CreateCopies,
           RemoveNothing, RemoveShifts, RemoveShortens, CloseFrees, KillAll, FreeAll
  <2>2. client'.op # "inside"
    <3>1. CASE \/ \E us \in Rates : SetRate(us)
               \/ \E k \in Counters : Setup(k) \/ Read(k) \/ Close(k)
               \/ Fini
      <4>1. ASSUME NEW us \in Rates, SetRate(us) PROVE client'.op # "inside"
        BY <2>1, <4>1 DEF SetRate
      <4>2. ASSUME NEW k \in Counters, Setup(k) \/ Read(k) \/ Close(k) PROVE client'.op # "inside"
        BY <4>2 DEF Setup, Read, Close
      <4>3. ASSUME Fini PROVE client'.op # "inside"
        BY <4>3 DEF Fini
      <4>. QED  BY <3>1, <4>1, <4>2, <4>3
    <3>2. CASE \/ CreateJoins \/ CreateAdds \/ AddCallFunctions \/ AddCallFunctionsFails
               \/ AddCallT \/ AddCallTFails \/ CreateHasThread \/ RemoveNothing
               \/ RemoveShifts \/ RemoveShortens \/ KillAll \/ FreeAll
      BY <3>2 DEF Goto, CreateJoins, CreateAdds, AddCallFunctions, AddCallFunctionsFails,
                  AddCallT, AddCallTFails, CreateHasThread, RemoveNothing, RemoveShifts,
                  RemoveShortens, KillAll, FreeAll
    <3>3. CASE CreateDisabled \/ CreateAddFails \/ CreateStartFails \/ CreateCopies \/ CloseFrees
      BY <3>3 DEF Ready, SetupFails, CreateDisabled, CreateAddFails, CreateStartFails,
                  CreateCopies, CloseFrees
    <3>. QED  BY <1>9, <3>1, <3>2, <3>3
  <2>3. UNCHANGED <<thread, lock>>
    BY <1>9
       DEF SetRate, Setup, Read, Close, Fini, threads,
           CreateDisabled, CreateJoins, CreateAdds, CreateAddFails,
           AddCallFunctions, AddCallFunctionsFails, AddCallT, AddCallTFails,
           CreateStartFails, CreateHasThread, CreateCopies,
           RemoveNothing, RemoveShifts, RemoveShortens, CloseFrees, KillAll, FreeAll
  <2>. QED  BY <1>2, <2>1, <2>2, <2>3
<1>10. CASE ClientCall
  BY <1>9, <1>10 DEF ClientCall
<1>11. CASE ClientStep
  BY <1>4, <1>5, <1>6, <1>7, <1>9, <1>11 DEF ClientStep
<1>. QED  BY <1>3, <1>8, <1>10, <1>11 DEF Next

\* What the mutex of a counter is for: while the program reads a counter, no
\* overflow thread reads it.
ReadsAlone ==
    client.op = "inside" =>
        \A c \in Cpus : ~(thread[c].pc = "inside" /\ thread[c].t = K)

\* In every source whose do_read takes the mutex of the counter, the program
\* and an overflow thread never read the same counter at the same time.
THEOREM ReadsAloneCorrect ==
    ASSUME Locks
    PROVE  Spec => []ReadsAlone
<1>1. Init => Owners
  <2>1. ASSUME Init PROVE /\ \A c \in Cpus : thread[c].pc = "none"
                          /\ \A k \in Counters : lock[k] = Nobody
                          /\ client.op = "ready"
    BY <2>1 DEF Init
  <2>. QED  BY <2>1, NamesAssumption DEF Owners
<1>2. Owners => ReadsAlone
  <2>. SUFFICES ASSUME Owners, client.op = "inside",
                       NEW c \in Cpus, thread[c].pc = "inside", thread[c].t = K
                PROVE  FALSE
    BY DEF ReadsAlone
  <2>1. lock[K] = Program /\ lock[K] = c
    BY DEF Owners
  <2>. QED  BY <2>1, NamesAssumption
<1>. QED  BY <1>1, <1>2, OwnersNext, Lists, Starts, PTL DEF Spec

=============================================================================
