-------------------------- MODULE MsrSourceProofs --------------------------
(***************************************************************************)
(* The descriptors kept in fds are never stale, for any number of CPUs,    *)
(* counters and descriptors and whatever fails.  The invariant is          *)
(* inductive together with the types: a new number is free, so that it is  *)
(* in no other entry, and a number above 0 stands in one entry only, since *)
(* it refers to the CPU of its entry; closing it touches no other.         *)
(***************************************************************************)
EXTENDS MsrSource, TLAPS

MsrInv == Types /\ NumbersNotStale

LEMMA MsrInit == Init => MsrInv
  <1> SUFFICES ASSUME Init PROVE MsrInv
    OBVIOUS
  <1>1. 0 \in Descriptors
    BY MaxFdAssumption DEF Descriptors
  <1>2. fds \in [Cpus -> {-1} \cup Descriptors] /\ NumbersNotStale
    BY <1>1 DEF Init, NumbersNotStale
  <1>3. file \in [Descriptors -> Cpus \cup {Stdin, Closed}]
    BY DEF Init
  <1>4. counter \in [Counters -> [open : BOOLEAN, unit : {"none", "good", "bad"}]]
    BY DEF Init, Fresh
  <1>5. client \in [op : {"ready", "unit", "pread", "create"}, k : Counters]
    BY DEF Init, NoOp
  <1> QED BY <1>2, <1>3, <1>4, <1>5 DEF Init, MsrInv, Types

\* Closing the descriptor of one CPU, and forgetting its number, leaves the
\* numbers of the other CPUs valid.
LEMMA ReleaseKeeps ==
  ASSUME MsrInv, NEW c \in Cpus, Release(c)
  PROVE  /\ fds' \in [Cpus -> {-1} \cup Descriptors]
         /\ file' \in [Descriptors -> Cpus \cup {Stdin, Closed}]
         /\ NumbersNotStale'
  <1>1. fds' = [fds EXCEPT ![c] = 0] /\ 0 \in Descriptors
    BY MaxFdAssumption DEF Release, Descriptors
  <1>2. file' = IF fds[c] \in Descriptors THEN [file EXCEPT ![fds[c]] = Closed] ELSE file
    BY DEF Release, Closing
  <1>3. fds' \in [Cpus -> {-1} \cup Descriptors]
    BY <1>1 DEF MsrInv, Types
  <1>4. file' \in [Descriptors -> Cpus \cup {Stdin, Closed}]
    BY <1>2 DEF MsrInv, Types
  <1>5. ASSUME NEW e \in Cpus, fds'[e] > 0
        PROVE  file'[fds'[e]] = e
    <2>1. e # c /\ fds'[e] = fds[e] /\ fds[e] \in Descriptors
      BY <1>1, <1>5 DEF MsrInv, Types, Descriptors
    <2>2. file[fds[e]] = e
      BY <1>5, <2>1 DEF MsrInv, NumbersNotStale
    <2>3. fds[c] # fds[e]
      BY <1>5, <2>1, <2>2 DEF MsrInv, NumbersNotStale
    <2> QED BY <1>2, <2>1, <2>2, <2>3 DEF MsrInv, Types
  <1> QED BY <1>3, <1>4, <1>5 DEF NumbersNotStale

LEMMA MsrNext == MsrInv /\ [Next]_vars => MsrInv'
  <1> SUFFICES ASSUME MsrInv, [Next]_vars PROVE MsrInv'
    OBVIOUS
  <1> USE DEF MsrInv
  <1>c. client.k \in Counters /\ CpuOf[client.k] \in Cpus
    BY MsrCpuOfAssumption DEF Types
  <1>d. 0 \in Descriptors /\ Descriptors \subseteq Int
    BY MaxFdAssumption DEF Descriptors
  <1>1. CASE InitSource
    BY <1>1, <1>d DEF InitSource, Types, NumbersNotStale
  <1>2. ASSUME NEW k \in Counters, SetupOpens(k)
        PROVE  MsrInv'
    <2>1. PICK d \in Free(file) :
             /\ file' = [file EXCEPT ![d] = CpuOf[k]]
             /\ fds' = [fds EXCEPT ![CpuOf[k]] = d]
      BY <1>2 DEF SetupOpens
    <2>2. d \in Descriptors /\ file[d] = Closed /\ CpuOf[k] \in Cpus
      BY <2>1, MsrCpuOfAssumption DEF Free
    <2>3. NumbersNotStale'
      <3> SUFFICES ASSUME NEW e \in Cpus, fds'[e] > 0
                   PROVE  file'[fds'[e]] = e
        BY DEF NumbersNotStale
      <3>1. CASE e = CpuOf[k]
        BY <3>1, <2>1, <2>2 DEF Types
      <3>2. CASE e # CpuOf[k]
        <4>1. fds'[e] = fds[e] /\ fds[e] \in Descriptors /\ file[fds[e]] = e
          BY <3>2, <2>1, <2>2, <1>d DEF Types, NumbersNotStale, Descriptors
        <4>2. fds[e] # d
          BY <4>1, <2>2, MsrNamesAssumption
        <4> QED BY <4>1, <4>2, <2>1, <2>2 DEF Types
      <3> QED BY <3>1, <3>2
    <2>4. Types'
      BY <1>2, <2>1, <2>2 DEF SetupOpens, Types
    <2> QED BY <2>3, <2>4
  <1>3. ASSUME NEW k \in Counters, SetupOpenFails(k)
        PROVE  MsrInv'
    BY <1>3, <1>d, MsrCpuOfAssumption DEF SetupOpenFails, Types, NumbersNotStale
  <1>4. ASSUME NEW k \in Counters, SetupShares(k)
        PROVE  MsrInv'
    BY <1>4 DEF SetupShares, Types, NumbersNotStale
  <1>5. ASSUME NEW k \in Counters, Close(k)
        PROVE  MsrInv'
    <2>1. Release(CpuOf[k]) /\ CpuOf[k] \in Cpus
      BY <1>5, MsrCpuOfAssumption DEF Close
    <2> QED BY <1>5, <2>1, ReleaseKeeps DEF Close, Types, Fresh
  <1>6. CASE SetupUnhandled
    BY <1>6, <1>c DEF SetupUnhandled, Types, NumbersNotStale, NoOp, K
  <1>7. CASE UnitFound
    BY <1>7, <1>c DEF UnitFound, Types, NumbersNotStale, Goto, K
  <1>8. CASE UnitFails
    BY <1>8, <1>c DEF UnitFails, Types, NumbersNotStale, Goto, K
  <1>9. CASE UnitReopens
    <2>1. fds' = [fds EXCEPT ![CpuOf[client.k]] = -1] /\ file' = file
      BY <1>9 DEF UnitReopens, C
    <2>2. NumbersNotStale'
      BY <2>1, <1>c, <1>d DEF NumbersNotStale, Types
    <2>3. Types'
      <3>1. fds' \in [Cpus -> {-1} \cup Descriptors]
        BY <2>1, <1>c DEF Types
      <3>2. unitCached' \in BOOLEAN
        BY <1>9 DEF UnitReopens, Types
      <3>3. counter' \in [Counters -> [open : BOOLEAN, unit : {"none", "good", "bad"}]]
        <4>1. \E u \in {"good", "bad"} : counter' = [counter EXCEPT ![client.k].unit = u]
          BY <1>9 DEF UnitReopens, K
        <4> QED BY <4>1, <1>c DEF Types
      <3>4. client' \in [op : {"ready", "unit", "pread", "create"}, k : Counters]
        BY <1>9 DEF UnitReopens, Types, Goto
      <3> QED BY <1>9, <2>1, <3>1, <3>2, <3>3, <3>4 DEF UnitReopens, Types
    <2> QED BY <2>2, <2>3
  <1>10. CASE SetupReads
    BY <1>10, <1>c DEF SetupReads, Types, NumbersNotStale, Goto
  <1>11. CASE SetupReadFails
    BY <1>11, <1>c, ReleaseKeeps DEF SetupReadFails, Types, Fresh, NoOp, K, C
  <1>12. CASE SetupReturns
    BY <1>12, <1>c DEF SetupReturns, Types, NumbersNotStale, NoOp, K
  <1>13. CASE SetupCreateFails
    BY <1>13, <1>c, ReleaseKeeps DEF SetupCreateFails, Types, Fresh, NoOp, K, C
  <1>14. CASE Fini
    BY <1>14 DEF Fini, Types, NumbersNotStale
  <1>15. CASE UNCHANGED vars
    BY <1>15 DEF vars, Types, NumbersNotStale
  <1> QED BY <1>1, <1>2, <1>3, <1>4, <1>5, <1>6, <1>7, <1>8, <1>9, <1>10, <1>11, <1>12,
             <1>13, <1>14, <1>15 DEF Next

\* Every state of the source has the types of TypeOK: above all, every number
\* kept in fds is a descriptor, 0 or -1, and the operation in progress has a
\* counter.
THEOREM MsrTypeCorrect == Spec => []TypeOK
  <1> DEFINE Source == source \in {"msr", "fam23"}
  <1>1. Init => Source
    BY DEF Init
  <1>2. Source /\ [Next]_vars => Source'
    BY DEF Next, vars
  <1>3. Source /\ MsrInv => TypeOK
    BY DEF MsrInv, TypeOK
  <1> HIDE DEF Source
  <1> QED BY <1>1, <1>2, <1>3, MsrInit, MsrNext, PTL DEF Spec

\* A number above 0 in fds is the descriptor of this CPU's msr, through every
\* order of init, setup, failure, close and fini (msr.c, msr_fam23.c).
THEOREM NeverStale == Spec => []NumbersNotStale
  <1>1. MsrInv => NumbersNotStale
    BY DEF MsrInv
  <1> QED BY <1>1, MsrInit, MsrNext, PTL DEF Spec

-----------------------------------------------------------------------------
\* From here on: one counter per CPU.

\* Giving back a descriptor that was the CPU's own, or none, leaves those of
\* the other CPUs and standard input alone.
LEMMA ReleaseOwn ==
  ASSUME MsrInv, NEW c \in Cpus, Release(c), Owns(c) \/ fds[c] = -1
  PROVE  /\ \A e \in Cpus \ {c} : Owns(e) => Owns(e)'
         /\ file[0] = Stdin => file'[0] = Stdin
  <1> USE DEF MsrInv
  <1>1. fds' = [fds EXCEPT ![c] = 0]
    BY DEF Release
  <1>2. CASE fds[c] = -1
    <2>1. file' = file
      BY <1>2, MaxFdAssumption DEF Release, Closing, Descriptors
    <2> QED BY <1>1, <2>1 DEF Owns, Types
  <1>3. CASE Owns(c)
    <2>1. file' = [file EXCEPT ![fds[c]] = Closed]
      BY <1>3 DEF Owns, Release, Closing
    <2>2. \A e \in Cpus \ {c} : Owns(e) => fds[e] # fds[c]
      BY <1>3 DEF Owns
    <2>3. file[fds[c]] # Stdin
      BY <1>3, MsrNamesAssumption DEF Owns
    <2> QED BY <1>1, <2>1, <2>2, <2>3 DEF Owns, Types
  <1> QED BY <1>2, <1>3

LEMMA OwnInit == Init => OwnInv
  BY DEF Init, OwnInv, NoOp, Fresh, At

\* A step preserves the ownership and does not touch standard input.
LEMMA OwnNext ==
  ASSUME OneCounterPerCpu, MsrInv, OwnInv, [Next]_vars
  PROVE  OwnInv' /\ (file[0] = Stdin => file'[0] = Stdin)
  <1> USE DEF MsrInv
  <1>c. client.k \in Counters /\ CpuOf[client.k] \in Cpus /\ \A k \in Counters : CpuOf[k] \in Cpus
    BY MsrCpuOfAssumption DEF Types
  <1>d. 0 \in Descriptors /\ -1 \notin Descriptors /\ \A x \in Descriptors : x > 0 \/ x = 0
    BY MaxFdAssumption DEF Descriptors
  <1>1. CASE InitSource
    BY <1>1 DEF InitSource, OwnInv, At, Owns
  <1>2. ASSUME NEW k \in Counters, SetupOpens(k)
        PROVE  OwnInv' /\ (file[0] = Stdin => file'[0] = Stdin)
    <2>1. PICK d \in Descriptors :
             /\ file[d] = Closed
             /\ file' = [file EXCEPT ![d] = CpuOf[k]]
             /\ fds' = [fds EXCEPT ![CpuOf[k]] = d]
      BY <1>2 DEF SetupOpens, Free
    <2>2. \A j \in Counters : counter[j].open => j # k /\ CpuOf[j] # CpuOf[k]
      BY <1>2 DEF SetupOpens, OneCounterPerCpu
    <2>3. \A c \in Cpus : Owns(c) => fds[c] # d
      BY <2>1, MsrNamesAssumption DEF Owns
    <2>4. \A j \in Counters : counter[j].open => Owns(CpuOf[j])'
      BY <1>c, <2>1, <2>2, <2>3 DEF OwnInv, Owns, Types
    <2>5. client' = [op |-> "unit", k |-> k] /\ counter' = counter /\ session' = session
          /\ session /\ ~counter[k].open
      BY <1>2 DEF SetupOpens
    <2>6. fds'[CpuOf[k]] = d /\ file'[d] = CpuOf[k]
      BY <1>c, <2>1 DEF Types
    <2> QED BY <2>1, <2>4, <2>5, <2>6, MsrNamesAssumption DEF OwnInv, At, K, C, Types
  <1>3. ASSUME NEW k \in Counters, SetupOpenFails(k)
        PROVE  OwnInv' /\ (file[0] = Stdin => file'[0] = Stdin)
    <2>1. \A j \in Counters : counter[j].open => CpuOf[j] # CpuOf[k]
      BY <1>3 DEF SetupOpenFails, OneCounterPerCpu
    <2> QED BY <1>3, <1>c, <2>1 DEF SetupOpenFails, OwnInv, Owns, Types, At
  <1>4. ASSUME NEW k \in Counters, SetupShares(k)
        PROVE  OwnInv' /\ (file[0] = Stdin => file'[0] = Stdin)
    BY <1>4, <1>c DEF SetupShares, OwnInv, Owns, At, K, C
  <1>5. ASSUME NEW k \in Counters, Close(k)
        PROVE  OwnInv' /\ (file[0] = Stdin => file'[0] = Stdin)
    <2>1. Release(CpuOf[k]) /\ Owns(CpuOf[k]) /\ CpuOf[k] \in Cpus
      BY <1>5, <1>c DEF Close, OwnInv
    <2>2. /\ \A e \in Cpus \ {CpuOf[k]} : Owns(e) => Owns(e)'
          /\ file[0] = Stdin => file'[0] = Stdin
      BY <2>1, ReleaseOwn
    <2>3. \A j \in Counters : counter'[j].open => j # k /\ counter[j].open /\ CpuOf[j] # CpuOf[k]
      BY <1>5 DEF Close, OneCounterPerCpu, Fresh, Types
    <2> QED BY <1>5, <1>c, <2>2, <2>3 DEF Close, OwnInv, At
  <1>6. CASE SetupUnhandled
    BY <1>6 DEF SetupUnhandled, OwnInv, Owns, NoOp, At
  <1>7. CASE UnitFound \/ UnitFails
    <2>1. \A j \in Counters : counter'[j].open = counter[j].open
      BY <1>7, <1>c DEF UnitFound, UnitFails, Types, K
    <2>2. client' = [client EXCEPT !.op = "pread"] /\ client'.k = client.k /\ client'.op = "pread"
      BY <1>7 DEF UnitFound, UnitFails, Goto, Types
    <2> QED BY <1>7, <1>c, <2>1, <2>2 DEF UnitFound, UnitFails, OwnInv, Owns, At, K, C
  <1>8. CASE UnitReopens
    <2>1. \A j \in Counters : counter'[j].open = counter[j].open
      BY <1>8, <1>c DEF UnitReopens, Types, K
    <2>2. client'.k = client.k /\ client'.op = "pread"
      BY <1>8 DEF UnitReopens, Goto, Types
    <2>3. fds' = [fds EXCEPT ![CpuOf[client.k]] = -1] /\ file' = file /\ session' = session
      BY <1>8 DEF UnitReopens, C
    <2>4. \A j \in Counters : counter[j].open => CpuOf[j] # CpuOf[client.k]
      BY <1>8, <1>c DEF UnitReopens, OwnInv, OneCounterPerCpu, At, K
    <2>5. fds'[CpuOf[client.k]] = -1
      BY <2>3, <1>c DEF Types
    <2>6. \A j \in Counters : counter'[j].open => session' /\ Owns(CpuOf[j])'
      BY <2>1, <2>3, <2>4, <1>c DEF OwnInv, Owns, Types
    <2>7. session /\ ~counter[client.k].open
      BY <1>8 DEF UnitReopens, OwnInv, At, K
    <2> QED BY <1>c, <2>1, <2>2, <2>3, <2>5, <2>6, <2>7 DEF OwnInv, At, K, C
  <1>9. CASE SetupReads
    <2>1. client'.k = client.k /\ client'.op = "create"
      BY <1>9 DEF SetupReads, Goto, Types
    <2>2. Owns(CpuOf[client.k])
      BY <1>9, <1>c, <1>d DEF SetupReads, Readable, Owns, OwnInv, NumbersNotStale, At, K, C
    <2> QED BY <1>9, <1>c, <2>1, <2>2 DEF SetupReads, OwnInv, Owns, At, K, C
  <1>10. CASE SetupReadFails \/ SetupCreateFails
    <2>1. Release(CpuOf[client.k])
      BY <1>10 DEF SetupReadFails, SetupCreateFails, C
    <2>2. Owns(CpuOf[client.k]) \/ fds[CpuOf[client.k]] = -1
      BY <1>10, <1>c, <1>d DEF SetupReadFails, SetupCreateFails, OwnInv, Owns,
         NumbersNotStale, At, C, Types
    <2>3. /\ \A e \in Cpus \ {CpuOf[client.k]} : Owns(e) => Owns(e)'
          /\ file[0] = Stdin => file'[0] = Stdin
      BY <1>c, <2>1, <2>2, ReleaseOwn
    <2>4. \A j \in Counters : counter'[j].open => j # client.k /\ counter[j].open
      BY <1>10, <1>c DEF SetupReadFails, SetupCreateFails, Fresh, Types, K
    <2>5. client'.op = "ready" /\ session' = session
      BY <1>10 DEF SetupReadFails, SetupCreateFails, NoOp
    <2> QED BY <1>c, <2>3, <2>4, <2>5 DEF OwnInv, OneCounterPerCpu, At
  <1>11. CASE SetupReturns
    <2>1. \A j \in Counters : counter'[j].open => counter[j].open \/ j = client.k
      BY <1>11, <1>c DEF SetupReturns, Types, K
    <2>2. client'.op = "ready" /\ UNCHANGED <<session, fds, file>>
      BY <1>11 DEF SetupReturns, NoOp
    <2>3. session /\ Owns(CpuOf[client.k])
      BY <1>11 DEF SetupReturns, OwnInv, At, C
    <2> QED BY <2>1, <2>2, <2>3 DEF OwnInv, Owns, At
  <1>12. CASE Fini
    BY <1>12 DEF Fini, OwnInv, Owns, At
  <1>13. CASE UNCHANGED vars
    BY <1>13 DEF vars, OwnInv, Owns, At, K, C
  <1> QED BY <1>1, <1>2, <1>3, <1>4, <1>5, <1>6, <1>7, <1>8, <1>9, <1>10, <1>11, <1>12,
             <1>13 DEF Next

\* With one counter per CPU an open counter reads the msr of its own CPU,
\* whatever fails and however often counters are set up and closed.
THEOREM OwnCorrect ==
  ASSUME OneCounterPerCpu
  PROVE  Spec => []OpenReadsOwn
  <1>1. MsrInv /\ OwnInv => OpenReadsOwn
    BY MsrCpuOfAssumption DEF MsrInv, Types, OwnInv, OpenReadsOwn, Outcome, Readable, Owns
  <1>2. MsrInv /\ OwnInv /\ [Next]_vars => OwnInv'
    BY OwnNext
  <1> QED BY <1>1, <1>2, OwnInit, MsrInit, MsrNext, PTL DEF Spec

\* With one counter per CPU the source never closes standard input.
THEOREM StdinCorrect ==
  ASSUME OneCounterPerCpu
  PROVE  Spec => StdinUntouched
  <1>1. MsrInv /\ OwnInv /\ [Next]_vars => [file[0] = Stdin => file'[0] = Stdin]_vars
    BY OwnNext
  <1>2. MsrInv /\ OwnInv /\ [Next]_vars => OwnInv'
    BY OwnNext
  <1> QED BY <1>1, <1>2, OwnInit, MsrInit, MsrNext, PTL DEF Spec, StdinUntouched

-----------------------------------------------------------------------------
\* No descriptor is lost, with any number of counters per CPU.

\* What happens to the descriptors that are kept when those of one CPU, c,
\* are given back: the others stay, and stay accounted for.
LEMMA ReleaseLeavesNone ==
  ASSUME MsrInv, LeakInv, NEW c \in Cpus, Release(c), UNCHANGED source,
         \A j \in Counters : counter[j].open /\ CpuOf[j] # c => counter'[j].open,
         client.op = "ready" \/ C = c,
         NEW d \in Descriptors \ {0}, file'[d] \in Cpus
  PROVE  Kept(d)'
  <1>1. file'[d] = file[d] /\ d # fds[c] /\ file[d] \in Cpus
    BY MsrNamesAssumption DEF Release, Closing, MsrInv, Types
  <1>2. Kept(d)
    BY <1>1 DEF LeakInv
  <1>3. CASE source = "msr" /\ \E k \in Unhandled : CpuOf[k] = file[d]
    BY <1>1, <1>3 DEF Kept
  <1>4. ASSUME fds[file[d]] = d, NEW k \in Counters, CpuOf[k] = file[d],
               counter[k].open \/ (client.op # "ready" /\ k = K)
        PROVE  Kept(d)'
    <2>1. file[d] # c
      BY <1>1, <1>4
    <2>2. counter[k].open
      BY <1>4, <2>1 DEF C, K
    <2>3. fds'[file[d]] = d
      BY <1>1, <1>4, <2>1 DEF Release, MsrInv, Types
    <2>. QED  BY <1>1, <1>4, <2>1, <2>2, <2>3 DEF Kept
  <1>. QED  BY <1>2, <1>3, <1>4 DEF Kept

LEMMA LeakInit == Init => LeakInv
  BY MsrNamesAssumption DEF Init, LeakInv, Fresh, NoOp

LEMMA LeakNext == TypeOK /\ MsrInv /\ LeakInv /\ [Next]_vars => LeakInv'
  <1>. SUFFICES ASSUME TypeOK, MsrInv, LeakInv, [Next]_vars PROVE LeakInv'
    OBVIOUS
  <1>1. client.k \in Counters /\ CpuOf[client.k] \in Cpus /\ \A k \in Counters : CpuOf[k] \in Cpus
    BY MsrCpuOfAssumption DEF MsrInv, Types
  <1>2. source' = source /\ \A k : Refused(k)' <=> Refused(k)
    BY DEF Next, vars, Refused
  <1>3. 0 \in Descriptors /\ Descriptors \subseteq Int /\ \A d \in Descriptors \ {0} : d > 0
    BY MaxFdAssumption DEF Descriptors
  <1>4. CASE InitSource
    <2>1. \A k \in Counters : ~counter[k].open
      BY <1>4 DEF InitSource, LeakInv
    <2>2. \A d \in Descriptors \ {0} : file[d] \in Cpus => Kept(d)'
      BY <1>2, <1>4, <2>1 DEF InitSource, LeakInv, Kept, At
    <2>. QED  BY <1>4, <2>1, <2>2 DEF InitSource, LeakInv, At
  <1>5. ASSUME NEW k \in Counters, SetupOpens(k) PROVE LeakInv'
    <2>1. PICK n \in Descriptors :
             file[n] = Closed /\ file' = [file EXCEPT ![n] = CpuOf[k]]
             /\ fds' = [fds EXCEPT ![CpuOf[k]] = n]
      BY <1>5 DEF SetupOpens, Free
    <2>2. /\ session' = session /\ session /\ counter' = counter /\ ~counter[k].open /\ ~Refused(k)
          /\ client.op = "ready" /\ client' = [op |-> "unit", k |-> k] /\ fds[CpuOf[k]] <= 0
      BY <1>5 DEF SetupOpens, At
    <2>3. ASSUME NEW d \in Descriptors \ {0}, file'[d] \in Cpus PROVE Kept(d)'
      <3>1. CASE d = n
        <4>1. file'[d] = CpuOf[k] /\ fds'[CpuOf[k]] = d
          BY <1>1, <2>1, <3>1 DEF MsrInv, Types
        <4>. QED  BY <2>2, <4>1 DEF Kept, K
      <3>2. CASE d # n
        <4>1. file'[d] = file[d]
          BY <2>1, <3>2 DEF MsrInv, Types
        <4>2. Kept(d)
          BY <2>3, <4>1 DEF LeakInv
        <4>3. fds[file[d]] = d => fds'[file[d]] = d
          BY <1>1, <1>3, <2>1, <2>2, <2>3, <4>1 DEF MsrInv, Types
        <4>. QED  BY <1>2, <2>2, <4>1, <4>2, <4>3 DEF Kept
      <3>. QED  BY <3>1, <3>2
    <2>. QED  BY <1>2, <2>2, <2>3 DEF LeakInv, K
  <1>6. ASSUME NEW k \in Counters, SetupOpenFails(k) PROVE LeakInv'
    <2>1. /\ fds[CpuOf[k]] <= 0 /\ fds' = [fds EXCEPT ![CpuOf[k]] = -1]
          /\ UNCHANGED <<session, file, unitCached, counter, client>>
      BY <1>6 DEF SetupOpenFails
    <2>2. \A d \in Descriptors \ {0} : file[d] \in Cpus /\ fds[file[d]] = d => fds'[file[d]] = d
      BY <1>1, <1>3, <2>1 DEF MsrInv, Types
    <2>3. \A d \in Descriptors \ {0} : file[d] \in Cpus => Kept(d)'
      BY <1>2, <2>1, <2>2 DEF LeakInv, Kept, K
    <2>. QED  BY <1>2, <2>1, <2>3 DEF LeakInv, K
  <1>7. ASSUME NEW k \in Counters, SetupShares(k) PROVE LeakInv'
    <2>1. /\ client.op = "ready" /\ client' = [op |-> "unit", k |-> k] /\ session
          /\ ~counter[k].open /\ ~Refused(k) /\ UNCHANGED <<session, fds, file, counter>>
      BY <1>7 DEF SetupShares, At
    <2>2. \A d \in Descriptors \ {0} : file[d] \in Cpus => Kept(d)'
      BY <1>2, <2>1 DEF LeakInv, Kept
    <2>. QED  BY <1>2, <2>1, <2>2 DEF LeakInv, K
  <1>8. ASSUME NEW k \in Counters, Close(k) PROVE LeakInv'
    <2>1. /\ Release(CpuOf[k]) /\ client.op = "ready" /\ session' = session /\ client' = client
          /\ counter' = [counter EXCEPT ![k] = Fresh]
      BY <1>8 DEF Close, At
    <2>2. \A j \in Counters : counter'[j].open <=> counter[j].open /\ j # k
      BY <2>1 DEF MsrInv, Types, Fresh
    <2>3. ASSUME NEW d \in Descriptors \ {0}, file'[d] \in Cpus PROVE Kept(d)'
      BY <1>1, <1>2, <2>1, <2>2, <2>3, ReleaseLeavesNone
    <2>. QED  BY <2>1, <2>2, <2>3 DEF LeakInv
  <1>9. CASE SetupUnhandled
    <2>1. /\ client.op = "unit" /\ client.k \in Unhandled /\ client'.op = "ready"
          /\ UNCHANGED <<session, fds, file, counter>>
      BY <1>9 DEF SetupUnhandled, At, NoOp, K
    <2>2. source = "msr"
      BY <2>1 DEF LeakInv, Refused, K, TypeOK
    <2>3. \A d \in Descriptors \ {0} : file[d] \in Cpus => Kept(d)'
      BY <1>2, <2>1, <2>2 DEF LeakInv, Kept, K
    <2>. QED  BY <2>1, <2>3 DEF LeakInv
  <1>10. CASE UnitFound \/ UnitFails \/ UnitReopens \/ SetupReads
    <2>1. /\ client.op # "ready" /\ client'.op # "ready" /\ client'.k = client.k
          /\ UNCHANGED <<session, file>>
      BY <1>10 DEF UnitFound, UnitFails, UnitReopens, SetupReads, At, Goto, MsrInv, Types
    <2>2. \A j \in Counters : counter'[j].open = counter[j].open
      BY <1>1, <1>10 DEF UnitFound, UnitFails, UnitReopens, SetupReads, K, MsrInv, Types
    <2>3. \A d \in Descriptors \ {0} : file[d] \in Cpus /\ fds[file[d]] = d => fds'[file[d]] = d
      BY <1>1, <1>3, <1>10 DEF UnitFound, UnitFails, UnitReopens, SetupReads, C, MsrInv, Types
    <2>4. \A d \in Descriptors \ {0} : file[d] \in Cpus => Kept(d)'
      BY <1>2, <2>1, <2>2, <2>3 DEF LeakInv, Kept, K
    <2>. QED  BY <1>1, <1>2, <2>1, <2>2, <2>4 DEF LeakInv, K
  <1>11. CASE SetupReadFails \/ SetupCreateFails
    <2>1. /\ Release(CpuOf[client.k]) /\ client'.op = "ready" /\ session' = session
          /\ counter' = [counter EXCEPT ![client.k] = Fresh]
      BY <1>11 DEF SetupReadFails, SetupCreateFails, NoOp, C, K
    <2>2. \A j \in Counters : counter'[j].open <=> counter[j].open /\ j # client.k
      BY <2>1 DEF MsrInv, Types, Fresh
    <2>3. ASSUME NEW d \in Descriptors \ {0}, file'[d] \in Cpus PROVE Kept(d)'
      BY <1>1, <1>2, <2>1, <2>2, <2>3, ReleaseLeavesNone DEF C
    <2>. QED  BY <2>1, <2>2, <2>3 DEF LeakInv
  <1>12. CASE SetupReturns
    <2>1. /\ client.op # "ready" /\ client'.op = "ready" /\ UNCHANGED <<session, fds, file>>
      BY <1>12 DEF SetupReturns, At, NoOp
    <2>2. \A j \in Counters : counter'[j].open <=> counter[j].open \/ j = client.k
      BY <1>12 DEF SetupReturns, K, MsrInv, Types
    <2>3. \A d \in Descriptors \ {0} : file[d] \in Cpus => Kept(d)'
      BY <1>2, <2>1, <2>2 DEF LeakInv, Kept, K
    <2>. QED  BY <2>1, <2>2, <2>3 DEF LeakInv
  <1>13. CASE Fini
    <2>1. client.op = "ready" /\ UNCHANGED <<fds, file, counter, client>> /\ \A k \in Counters : ~counter[k].open
      BY <1>13 DEF Fini, At
    <2>2. \A d \in Descriptors \ {0} : file[d] \in Cpus => Kept(d)'
      BY <1>2, <2>1 DEF LeakInv, Kept, K
    <2>. QED  BY <2>1, <2>2 DEF LeakInv
  <1>14. CASE UNCHANGED vars
    BY <1>2, <1>14 DEF vars, LeakInv, Kept, K
  <1>. QED
    BY <1>4, <1>5, <1>6, <1>7, <1>8, <1>9, <1>10, <1>11, <1>12, <1>13, <1>14 DEF Next

\* Between two calls every descriptor of an msr belongs to a counter that can
\* close it, but for what msr.c leaves for a counter type it refuses.
THEOREM NoLeakCorrect == Spec => []NoLeak
  <1>1. LeakInv => NoLeak
    BY UnhandledAssumption DEF LeakInv, Kept, NoLeak, At
  <1>. QED  BY <1>1, MsrTypeCorrect, MsrInit, MsrNext, LeakInit, LeakNext, PTL DEF Spec
=============================================================================
