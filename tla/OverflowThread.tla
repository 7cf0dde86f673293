--------------------------- MODULE OverflowThread ---------------------------
(***************************************************************************)
(* overflow_thread.c and its use by an access source: one program thread   *)
(* calls init, setup, read, close and fini of the source; for every CPU    *)
(* with a counter an overflow thread calls do_read of the registered       *)
(* counters again and again.  The lists of calls are shared, the overflow  *)
(* thread reads them without info->mutex, and counters and lists live on   *)
(* the heap.  A thread that uses memory that was freed, a mutex that was   *)
(* never set or an entry that was never written ends the run in `fault'.   *)
(*                                                                         *)
(* info->mutex is only taken in add_call and remove_call, hence only by    *)
(* the one program thread, and is left out; the mutex of a reader_def, a   *)
(* copy of it per counter, is not.                                         *)
(***************************************************************************)
EXTENDS Integers, Sequences

CONSTANTS Cpus,         \* CPUs that counters are read on
          Counters,     \* addresses of the reader_defs, one per setup()
          CpuOf,        \* CpuOf[k]: the CPU get_test_cpu() chose for counter k
          Rates,        \* arguments of set_internal_update_thread_rate()
          DEFAULT,      \* 30000000 us, what every source asks for
          Locks,        \* the source's do_read takes def->mutex
          FreesDef,     \* the source's do_close frees the reader_def
          FreesInfos,   \* the source's fini calls freeall
          Failures,     \* the allocations and calls that may fail
          Program,      \* the program thread as the owner of a mutex
          Nobody,       \* the owner of a free mutex
          NoCounter,    \* no counter
          Garbage       \* an entry of thread_infos that was never written

ASSUME CpuOfAssumption == CpuOf \in [Counters -> Cpus]
ASSUME RatesAssumption == Rates \subseteq Nat /\ DEFAULT \in Nat \ {0}
ASSUME SourceAssumption == Locks \in BOOLEAN /\ FreesDef \in BOOLEAN /\ FreesInfos \in BOOLEAN
ASSUME FailuresAssumption == Failures \subseteq {"infos", "info", "functions", "t", "thread"}
ASSUME NamesAssumption ==
    /\ Program \notin Cpus /\ Nobody \notin Cpus \cup {Program}
    /\ NoCounter \notin Counters /\ Garbage \notin Cpus

VARIABLES override,     \* override_update_rate, override_update_rate_us
          infos,        \* ov->thread_infos, a thread_info named by its CPU
          info,         \* info[c]: the contents of the thread_info of CPU c
          freed,        \* freeall was called
          thread,       \* thread[c]: the overflow thread of CPU c in on_overflow,
                        \* us: the period of the sleep it is in
          cancelled,    \* CPUs whose thread has a pending pthread_cancel
          def,          \* def[k]: the reader_def at k
          lock,         \* lock[k]: owner of def[k].mutex
          client,       \* the program thread: operation and its argument
          fault         \* "none", or the undefined behaviour that ended the run

vars == <<override, infos, info, freed, thread, cancelled, def, lock, client, fault>>

\* Who shares what: the heap, the overflow threads, the program.
heap == <<infos, info, freed, def>>
threads == <<thread, cancelled>>

\* calls and nr are info->t and info->nr_functions; calls keeps the slots
\* behind nr.  moved: a realloc has freed the array the thread still uses.
NewInfo(period) ==
    [usleep |-> period, calls |-> << >>, nr |-> 0, moved |-> FALSE, thread |-> FALSE]

\* Before setup; open: setup() has returned it and close() was not called.
NoDef == [heap |-> "none", mutex |-> FALSE, open |-> FALSE, wanted |-> 0]

Init ==
    /\ override = [on |-> FALSE, us |-> 0]
    /\ infos = << >>
    /\ info = [c \in Cpus |-> NewInfo(0)]
    /\ freed = FALSE
    /\ thread = [c \in Cpus |-> [pc |-> "none", us |-> 0, i |-> 0, t |-> NoCounter]]
    /\ cancelled = {}
    /\ def = [k \in Counters |-> NoDef]
    /\ lock = [k \in Counters |-> Nobody]
    /\ client = [op |-> "ready", k |-> NoCounter]
    /\ fault = "none"

Fault(kind) ==
    /\ fault' = kind
    /\ UNCHANGED <<override, heap, threads, lock, client>>

Goto(op) == client' = [client EXCEPT !.op = op]
Ready == client' = [op |-> "ready", k |-> NoCounter]

At(op) == fault = "none" /\ client.op = op
K == client.k           \* the counter the program's operation is about
C == CpuOf[client.k]    \* and its CPU

-----------------------------------------------------------------------------
(* x86_energy_set_internal_update_thread_rate() *)
SetRate(us) ==
    /\ At("ready")
    /\ override' = [on |-> TRUE, us |-> us]
    /\ UNCHANGED <<heap, threads, lock, client, fault>>

(* get_thread_info(): the list is searched from the front *)
Entries == {infos[i] : i \in DOMAIN infos}
Found(c) == c \in Entries
HitsGarbage(c) ==
    \E i \in DOMAIN infos : infos[i] = Garbage /\ \A j \in 1 .. i - 1 : infos[j] # c

-----------------------------------------------------------------------------
(* setup(k), which ends in x86_energy_overflow_thread_create()             *)
Setup(k) ==
    /\ At("ready")
    /\ def[k].heap = "none"
    /\ def' = [def EXCEPT ![k].heap = "live",
                          ![k].wanted = IF override.on THEN override.us ELSE DEFAULT]
    /\ client' = [op |-> "create", k |-> k]
    /\ UNCHANGED <<override, infos, info, freed, threads, lock, fault>>

\* setup() frees the reader_def and returns NULL.
SetupFails == def' = [def EXCEPT ![K].heap = "freed"] /\ Ready

\* The update threads are disabled: success, without a thread and a mutex.
CreateDisabled ==
    /\ At("create")
    /\ override.on /\ override.us = 0
    /\ def' = [def EXCEPT ![K].open = TRUE]
    /\ Ready
    /\ UNCHANGED <<override, infos, info, freed, threads, lock, fault>>

\* usleep_time = override_update_rate: the flag, not the rate.
Period == IF override.on THEN 1 ELSE DEFAULT

CreateEnabled == At("create") /\ ~(override.on /\ override.us = 0)

CreateFindsGarbage ==
    /\ CreateEnabled
    /\ HitsGarbage(C)
    /\ Fault("garbage_info")

\* A bug form: the slower of the two rates wins.
CreateJoinsSlower ==
    /\ CreateEnabled
    /\ Found(C) /\ ~HitsGarbage(C)
    /\ info' = [info EXCEPT ![C].usleep = IF @ < Period THEN Period ELSE @]
    /\ Goto("add_call")
    /\ UNCHANGED <<override, infos, freed, threads, def, lock, fault>>

\* The CPU has a thread_info: its thread is sped up if need be.
CreateJoins ==
    /\ CreateEnabled
    /\ Found(C) /\ ~HitsGarbage(C)
    /\ info' = [info EXCEPT ![C].usleep = IF @ > Period THEN Period ELSE @]
    /\ Goto("add_call")
    /\ UNCHANGED <<override, infos, freed, threads, def, lock, fault>>

\* add_thread_info() succeeds.
CreateAdds ==
    /\ CreateEnabled
    /\ ~Found(C) /\ ~HitsGarbage(C)
    /\ infos' = Append(infos, C)
    /\ info' = [info EXCEPT ![C] = NewInfo(Period)]
    /\ Goto("add_call")
    /\ UNCHANGED <<override, freed, threads, def, lock, fault>>

\* add_thread_info() fails: in realloc(), or in malloc() when the length of
\* the list has already been increased.
CreateAddFails ==
    /\ CreateEnabled
    /\ ~Found(C) /\ ~HitsGarbage(C)
    /\ \/ "infos" \in Failures /\ UNCHANGED infos
       \/ "info" \in Failures /\ infos' = Append(infos, Garbage)
    /\ SetupFails
    /\ UNCHANGED <<override, info, freed, threads, lock, fault>>

(* add_call(), whose return value is not looked at *)

\* realloc() of info->functions, and then of info->t: an old array may be
\* gone at once, while info still points to it.
AddCallFunctions ==
    /\ At("add_call")
    /\ \E moved \in BOOLEAN : info' = [info EXCEPT ![C].moved = moved]
    /\ Goto("add_t")
    /\ UNCHANGED <<override, infos, freed, threads, def, lock, fault>>

AddCallFunctionsFails ==
    /\ At("add_call")
    /\ "functions" \in Failures
    /\ Goto("start")
    /\ UNCHANGED <<override, heap, threads, lock, fault>>

\* A bug form: nr grows although the slot was not written.
AppendedUnwritten(inf, k) == [inf EXCEPT !.nr = @ + 1, !.moved = FALSE]

\* A bug form: the new slot is written but nr_functions is not increased.
AppendedUncounted(inf, k) ==
    [inf EXCEPT !.calls = Append(SubSeq(inf.calls, 1, inf.nr), k), !.moved = FALSE]

\* What the list of calls becomes: slot nr is written, then nr grows.
Appended(inf, k) ==
    [inf EXCEPT !.calls = Append(SubSeq(inf.calls, 1, inf.nr), k),
                !.nr = @ + 1,
                !.moved = FALSE]

\* realloc() of info->t, then both arrays, the new slot and nr are stored.
AddCallT ==
    /\ At("add_t")
    /\ info' = [info EXCEPT ![C] = Appended(@, K)]
    /\ Goto("start")
    /\ UNCHANGED <<override, infos, freed, threads, def, lock, fault>>

AddCallTFails ==
    /\ At("add_t")
    /\ "t" \in Failures
    /\ info' = [info EXCEPT ![C].moved = FALSE]
    /\ Goto("start")
    /\ UNCHANGED <<override, infos, freed, threads, def, lock, fault>>

\* pthread_create(), for the first counter of the CPU.
CreateStarts ==
    /\ At("start")
    /\ ~info[C].thread
    /\ info' = [info EXCEPT ![C].thread = TRUE]
    /\ thread' = [thread EXCEPT ![C].pc = "period"]
    /\ Goto("copy")
    /\ UNCHANGED <<override, infos, freed, cancelled, def, lock, fault>>

\* It fails: setup() frees the reader_def, whose call stays in the list.
CreateStartFails ==
    /\ At("start")
    /\ ~info[C].thread
    /\ "thread" \in Failures
    /\ SetupFails
    /\ UNCHANGED <<override, infos, info, freed, threads, lock, fault>>

CreateHasThread ==
    /\ At("start")
    /\ info[C].thread
    /\ Goto("copy")
    /\ UNCHANGED <<override, heap, threads, lock, fault>>

\* *thread = info->thread; *mutex = info->mutex; setup() returns.
CreateCopies ==
    /\ At("copy")
    /\ def' = [def EXCEPT ![K].mutex = TRUE, ![K].open = TRUE]
    /\ Ready
    /\ UNCHANGED <<override, infos, info, freed, threads, lock, fault>>

-----------------------------------------------------------------------------
(* do_read() by the program *)
Read(k) ==
    /\ At("ready")
    /\ def[k].open
    /\ client' = [op |-> "read", k |-> k]
    /\ UNCHANGED <<override, heap, threads, lock, fault>>

\* pthread_mutex_lock() of a mutex that create() has not set.
ReadUnsetMutex ==
    /\ At("read")
    /\ Locks /\ ~def[K].mutex
    /\ Fault("mutex_unset")

ReadEnters ==
    /\ At("read")
    /\ Locks => def[K].mutex /\ lock[K] = Nobody
    /\ lock' = IF Locks THEN [lock EXCEPT ![K] = Program] ELSE lock
    /\ Goto("inside")
    /\ UNCHANGED <<override, heap, threads, fault>>

\* The counter is read, or cannot be read; both ways unlock and return.
ReadLeaves ==
    /\ At("inside")
    /\ lock' = IF Locks THEN [lock EXCEPT ![K] = Nobody] ELSE lock
    /\ Ready
    /\ UNCHANGED <<override, heap, threads, fault>>

-----------------------------------------------------------------------------
(* do_close(), which begins with x86_energy_overflow_thread_remove_call() *)
Close(k) ==
    /\ At("ready")
    /\ def[k].open
    /\ def' = [def EXCEPT ![k].open = FALSE]
    /\ client' = [op |-> "remove", k |-> k]
    /\ UNCHANGED <<override, infos, info, freed, threads, lock, fault>>

RemoveFindsGarbage ==
    /\ At("remove")
    /\ HitsGarbage(C)
    /\ Fault("garbage_info")

\* Where the pair (do_read, k) stands in the list.
Slots(c, k) == {i \in 1 .. info[c].nr : info[c].calls[i] = k}

\* No thread_info, or the call is not in the list.
RemoveNothing ==
    /\ At("remove")
    /\ ~HitsGarbage(C)
    /\ Found(C) => Slots(C, K) = {}
    /\ Goto("free")
    /\ UNCHANGED <<override, heap, threads, lock, fault>>

\* A bug form: nothing is moved, so that the last call is the one dropped.
NotShifted(calls, nr, i) == calls

\* The two memcpy(): the later calls move down one slot, the last one stays
\* twice.  A source registers one do_read, so that the first of them, which
\* moves the functions, changes nothing; a call is what the second moves.
ShiftedDown(calls, nr, i) ==
    [j \in DOMAIN calls |-> IF i <= j /\ j < nr THEN calls[j + 1] ELSE calls[j]]

RemoveShifts ==
    /\ At("remove")
    /\ Found(C) /\ ~HitsGarbage(C)
    /\ \E i \in Slots(C, K) :
          /\ \A j \in Slots(C, K) : i <= j
          /\ info' = [info EXCEPT ![C].calls = ShiftedDown(@, info[C].nr, i)]
    /\ Goto("shorten")
    /\ UNCHANGED <<override, infos, freed, threads, def, lock, fault>>

RemoveShortens ==
    /\ At("shorten")
    /\ info' = [info EXCEPT ![C].nr = @ - 1]
    /\ Goto("free")
    /\ UNCHANGED <<override, infos, freed, threads, def, lock, fault>>

\* close() or fclose(), and free(def) except in likwid.c.
CloseFrees ==
    /\ At("free")
    /\ def' = IF FreesDef THEN [def EXCEPT ![K].heap = "freed"] ELSE def
    /\ Ready
    /\ UNCHANGED <<override, infos, info, freed, threads, lock, fault>>

-----------------------------------------------------------------------------
(* fini(): x86_energy_overflow_thread_killall() and freeall() *)

\* Every counter is closed before, as in test.c.
Fini ==
    /\ At("ready")
    /\ \A k \in Counters : ~def[k].open
    /\ client' = [op |-> "kill", k |-> NoCounter]
    /\ UNCHANGED <<override, heap, threads, lock, fault>>

KillFindsGarbage ==
    /\ At("kill")
    /\ Garbage \in Entries
    /\ Fault("garbage_info")

\* pthread_cancel(0)
KillWithoutThread ==
    /\ At("kill")
    /\ Garbage \notin Entries
    /\ \E c \in Entries : ~info[c].thread
    /\ Fault("bad_thread")

\* A bug form: the first thread_info of the list is passed over.
KillAllButFirst ==
    /\ At("kill")
    /\ Garbage \notin Entries
    /\ \A c \in Entries : info[c].thread
    /\ cancelled' = {infos[i] : i \in DOMAIN infos \ {1}}
    /\ Goto("freeall")
    /\ UNCHANGED <<override, heap, thread, lock, fault>>

\* pthread_cancel() of every thread; nobody joins them.
KillAll ==
    /\ At("kill")
    /\ Garbage \notin Entries
    /\ \A c \in Entries : info[c].thread
    /\ cancelled' = Entries
    /\ Goto("freeall")
    /\ UNCHANGED <<override, heap, thread, lock, fault>>

FreeAll ==
    /\ At("freeall")
    /\ freed' = FreesInfos
    /\ infos' = IF FreesInfos THEN << >> ELSE infos
    /\ Goto("done")
    /\ UNCHANGED <<override, info, threads, def, lock, fault>>

-----------------------------------------------------------------------------
(* on_overflow(), the thread of CPU c *)
ThreadAt(c, pc) == fault = "none" /\ thread[c].pc = pc

UsesFreedInfo(c) ==
    /\ \E pc \in {"period", "check", "fetch"} : ThreadAt(c, pc)
    /\ freed
    /\ Fault("info_freed")

\* usleep(info->usleep_time): the period is loaded here, once per round.
ThreadSleeps(c) ==
    /\ ThreadAt(c, "period")
    /\ ~freed
    /\ thread' = [thread EXCEPT ![c].pc = "sleep", ![c].us = info[c].usleep]
    /\ UNCHANGED <<override, heap, cancelled, lock, client, fault>>

\* A bug form: the round begins with the second call.
ThreadWakesLate(c) ==
    /\ ThreadAt(c, "sleep")
    /\ c \notin cancelled
    /\ thread' = [thread EXCEPT ![c].pc = "check", ![c].us = 0, ![c].i = 1]
    /\ UNCHANGED <<override, heap, cancelled, lock, client, fault>>

ThreadWakes(c) ==
    /\ ThreadAt(c, "sleep")
    /\ c \notin cancelled
    /\ thread' = [thread EXCEPT ![c].pc = "check", ![c].us = 0, ![c].i = 0]
    /\ UNCHANGED <<override, heap, cancelled, lock, client, fault>>

\* i < info->nr_functions
ThreadChecks(c) ==
    /\ ThreadAt(c, "check")
    /\ ~freed
    /\ thread' = [thread EXCEPT ![c].pc = IF thread[c].i < info[c].nr THEN "fetch" ELSE "period"]
    /\ UNCHANGED <<override, heap, cancelled, lock, client, fault>>

\* info->functions[i] and info->t[i]: a slot of the arrays as they are now.
ThreadFetches(c) ==
    /\ ThreadAt(c, "fetch")
    /\ ~freed
    /\ IF info[c].moved \/ thread[c].i >= Len(info[c].calls)
       THEN Fault("calls_freed")
       ELSE /\ thread' = [thread EXCEPT ![c].pc = "call",
                                        ![c].t = info[c].calls[thread[c].i + 1]]
            /\ UNCHANGED <<override, heap, cancelled, lock, client, fault>>

\* do_read(t) on a reader_def that is gone, or whose mutex is not set yet.
ThreadUsesFreedCounter(c) ==
    /\ \E pc \in {"call", "inside", "load"} : ThreadAt(c, pc)
    /\ def[thread[c].t].heap = "freed"
    /\ Fault("counter_freed")

ThreadLocksUnsetMutex(c) ==
    /\ ThreadAt(c, "call")
    /\ def[thread[c].t].heap = "live"
    /\ Locks /\ ~def[thread[c].t].mutex
    /\ Fault("mutex_unset")

ThreadEnters(c) ==
    LET k == thread[c].t IN
    /\ ThreadAt(c, "call")
    /\ def[k].heap = "live"
    /\ Locks => def[k].mutex /\ lock[k] = Nobody
    /\ lock' = IF Locks THEN [lock EXCEPT ![k] = c] ELSE lock
    /\ thread' = [thread EXCEPT ![c].pc = "inside"]
    /\ UNCHANGED <<override, heap, cancelled, client, fault>>

\* A bug form: do_read returns with the mutex held.
ThreadLeavesLocked(c) ==
    /\ ThreadAt(c, "inside")
    /\ def[thread[c].t].heap = "live"
    /\ c \notin cancelled
    /\ thread' = [thread EXCEPT ![c].pc = "load"]
    /\ UNCHANGED <<override, heap, cancelled, lock, client, fault>>

ThreadLeaves(c) ==
    LET k == thread[c].t IN
    /\ ThreadAt(c, "inside")
    /\ def[k].heap = "live"
    /\ c \notin cancelled
    /\ lock' = IF Locks THEN [lock EXCEPT ![k] = Nobody] ELSE lock
    /\ thread' = [thread EXCEPT ![c].pc = "load"]
    /\ UNCHANGED <<override, heap, cancelled, client, fault>>

\* def->unit * def->last_reading, and i++
ThreadReturns(c) ==
    /\ ThreadAt(c, "load")
    /\ def[thread[c].t].heap = "live"
    /\ thread' = [thread EXCEPT ![c].pc = "check", ![c].i = @ + 1, ![c].t = NoCounter]
    /\ UNCHANGED <<override, heap, cancelled, lock, client, fault>>

\* A cancelled thread ends in usleep(), or in the system call of do_read:
\* then it keeps the mutex.
ThreadDies(c) ==
    /\ \E pc \in {"sleep", "inside"} : ThreadAt(c, pc)
    /\ c \in cancelled
    /\ thread' = [thread EXCEPT ![c].pc = "dead"]
    /\ UNCHANGED <<override, heap, cancelled, lock, client, fault>>

-----------------------------------------------------------------------------

\* The program is inside a function of the library and runs on.
ClientStep ==
    \/ CreateDisabled \/ CreateFindsGarbage \/ CreateJoins \/ CreateAdds \/ CreateAddFails
    \/ AddCallFunctions \/ AddCallFunctionsFails \/ AddCallT \/ AddCallTFails
    \/ CreateStarts \/ CreateStartFails \/ CreateHasThread \/ CreateCopies
    \/ ReadUnsetMutex \/ ReadEnters \/ ReadLeaves
    \/ RemoveFindsGarbage \/ RemoveNothing \/ RemoveShifts \/ RemoveShortens \/ CloseFrees
    \/ KillFindsGarbage \/ KillWithoutThread \/ KillAll \/ FreeAll

\* The program calls a function of the library.
ClientCall ==
    \/ \E us \in Rates : SetRate(us)
    \/ \E k \in Counters : Setup(k) \/ Read(k) \/ Close(k)
    \/ Fini

ThreadStep(c) ==
    \/ UsesFreedInfo(c)
    \/ ThreadSleeps(c) \/ ThreadWakes(c) \/ ThreadChecks(c) \/ ThreadFetches(c)
    \/ ThreadUsesFreedCounter(c) \/ ThreadLocksUnsetMutex(c)
    \/ ThreadEnters(c) \/ ThreadLeaves(c) \/ ThreadReturns(c)
    \/ ThreadDies(c)

Next == ClientCall \/ ClientStep \/ \E c \in Cpus : ThreadStep(c)

Spec == Init /\ [][Next]_vars

\* Every thread is scheduled, and a mutex that is free again and again is
\* granted.  The program need not call anything.
Fairness ==
    /\ WF_vars(ClientStep) /\ SF_vars(ReadEnters)
    /\ \A c \in Cpus : WF_vars(ThreadStep(c)) /\ SF_vars(ThreadEnters(c))

FairSpec == Spec /\ Fairness

-----------------------------------------------------------------------------

ClientOps == {"ready", "create", "add_call", "add_t", "start", "copy", "read", "inside",
              "remove", "shorten", "free", "kill", "freeall", "done"}
Faults == {"none", "garbage_info", "mutex_unset", "calls_freed", "counter_freed",
           "info_freed", "bad_thread"}
ThreadInfos == [usleep : Nat, calls : Seq(Counters), nr : Nat, moved : BOOLEAN, thread : BOOLEAN]
Threads == [pc : {"none", "period", "sleep", "check", "fetch", "call", "inside", "load", "dead"},
            us : Nat, i : Nat, t : Counters \cup {NoCounter}]
ReaderDefs == [heap : {"none", "live", "freed"}, mutex : BOOLEAN, open : BOOLEAN, wanted : Nat]

\* Types; the list of calls always has room for nr calls.
TypeOK ==
    /\ override \in [on : BOOLEAN, us : Nat]
    /\ infos \in Seq(Cpus \cup {Garbage})
    /\ info \in [Cpus -> ThreadInfos]
    /\ \A c \in Cpus : info[c].nr <= Len(info[c].calls)
    /\ freed \in BOOLEAN
    /\ thread \in [Cpus -> Threads]
    /\ cancelled \subseteq Cpus
    /\ def \in [Counters -> ReaderDefs]
    /\ lock \in [Counters -> Cpus \cup {Program, Nobody}]
    /\ client \in [op : ClientOps, k : Counters \cup {NoCounter}]
    /\ fault \in Faults

\* The counters setup() has handed to an overflow thread and that are open.
Watched(c) == {k \in Counters : CpuOf[k] = c /\ def[k].open /\ def[k].mutex}
Calls(c) == {info[c].calls[i] : i \in 1 .. info[c].nr}

\* Between two calls of the library each thread_info lists the open counters
\* of its CPU, all of them, each once, and nothing else: what add_call and
\* remove_call do to the two arrays in several steps.
CallsExact ==
    client.op = "ready" =>
        \A c \in Cpus :
            /\ Calls(c) = Watched(c)
            /\ \A i, j \in 1 .. info[c].nr :
                  info[c].calls[i] = info[c].calls[j] => i = j

\* No list ever names a reader_def that has been freed, not even in the
\* middle of close().  It fails when pthread_create() fails: setup() frees the
\* reader_def and its call stays behind.
NoDanglingCall ==
    \A c \in Cpus : \A k \in Calls(c) : def[k].heap = "live"

\* The stored period is never longer than what an open counter of the CPU was
\* promised when it was set up, also when a later counter asked for less.
PeriodKept ==
    \A c \in Cpus : \A k \in Watched(c) : info[c].usleep <= def[k].wanted

\* Whatever the order of set-ups, closes and changes of the rate: when a thread
\* goes to sleep, none of the counters that it then serves was promised an
\* earlier read.  Not so for the sleep a new counter finds the thread in: that
\* one keeps the period it began with.
SleepsAsPromised ==
    [][\A c \in Cpus : thread[c].pc # "sleep" /\ thread'[c].pc = "sleep" =>
          \A k \in Watched(c) : thread'[c].us <= def[k].wanted]_vars

\* "Internal threads will take care of this": an open counter is read by its
\* overflow thread again and again, until it is closed.
KeptSampled ==
    \A k \in Counters :
        def[k].open /\ def[k].mutex ~>
            \/ \E c \in Cpus : thread[c].pc = "inside" /\ thread[c].t = k
            \/ ~def[k].open
            \/ fault # "none"

\* After fini() no overflow thread keeps running, although nobody joins them.
ThreadsStop ==
    client.op = "done" ~> \/ \A c \in Cpus : thread[c].pc \in {"none", "dead"}
                          \/ fault # "none"

\* Every function of the library returns: the program is not left waiting
\* for a mutex.
ClientReturns ==
    client.op \notin {"ready", "done"} ~>
        client.op \in {"ready", "done"} \/ fault # "none"

-----------------------------------------------------------------------------
(* What the comments and headers say and the code does not do *)

\* A counter is not used after close() has released it.  It holds for
\* likwid.c, which never frees a reader_def; in the other sources the overflow
\* thread may have fetched the counter just before close().
NoFreedCounter == fault # "counter_freed"

\* create() "sets thread and mutex" - before anyone locks the mutex, and also
\* when the update threads are disabled.
NoUnsetMutex == fault # "mutex_unset"

\* The lists an overflow thread walks are not freed under it.
NoFreedCalls == fault # "calls_freed"

\* No thread uses its thread_info after fini() has freed it: "will be
\* canceled anyway".
NoFreedInfo == fault # "info_freed"

\* "the new update rate in us": a thread's period is one that was asked for.
PeriodAsRequested ==
    \A c \in Cpus : Watched(c) # {} =>
        \E k \in Counters : CpuOf[k] = c /\ info[c].usleep = def[k].wanted

\* "take care of this": no counter is left unread for longer than its source
\* or the program asked for.  It fails for a counter that joins a thread in
\* the middle of a longer sleep.
NeverTooSlow ==
    \A c \in Cpus : thread[c].pc = "sleep" =>
        \A k \in Watched(c) : thread[c].us <= def[k].wanted

\* "This will not influence existing threads".
ExistingThreadsKeepPeriod ==
    [][\A c \in Cpus : info[c].thread => info'[c].usleep = info[c].usleep]_vars

\* setup() "will return NULL on error": a counter it returns with the update
\* threads enabled is one that a thread takes care of.
OpenIsWatched ==
    client.op = "ready" => \A c \in Cpus : Watched(c) \subseteq Calls(c)
=============================================================================
