-------------------------- MODULE MechanismProofs --------------------------
(***************************************************************************)
(* Mechanism for every set of processors, every value of the environment   *)
(* variable and both build options: what the two passes over the sources   *)
(* have picked at each of their steps, and hence what a call returns.      *)
(***************************************************************************)
EXTENDS Mechanism, SequenceTheorems, TLAPS

Sources == {"sysfs", "perf", "msr", "likwid", "x86a", "msr_fam23", "x86a_fam23", "sysfs_fam15"}
All == Len(Offers)

\* The first n sources, as far as the variable selects them.  No source is
\* offered twice, so that a name selects at most one.
Picked(name, n) ==
    CASE name = Unset -> SubSeq(Offers, 1, n)
      [] name # Unset /\ (\E i \in 1 .. n : Offers[i] = name) -> <<name>>
      [] OTHER -> << >>

Chosen == Picked(cached.name, All)

\* What a call returns that finds a mechanism.
Result == [nr |-> Len(Chosen), sources |-> Chosen,
           granularities |-> [k \in COUNTERS |-> Granularity(cpu, k)]]

\* The variable is kept from the first source on that is counted.
CountInv ==
    step = "count" =>
        /\ Kind(cpu) # "unsupported"
        /\ at > 1 => cached.known
        /\ t = [nr |-> Len(Picked(cached.name, at - 1)), room |-> 0, sources |-> << >>]

FillInv ==
    step = "fill" =>
        /\ Kind(cpu) # "unsupported" /\ cached.known /\ Chosen # << >>
        /\ t = [nr |-> Len(Chosen), room |-> Len(Chosen), sources |-> Picked(cached.name, at - 1)]

AnswerInv ==
    \A a \in answers \ {NULL} :
        a = Result /\ Kind(cpu) # "unsupported" /\ cached.known /\ Chosen # << >>

MechanismInv ==
    /\ step \in {"ready", "single", "count", "fill"}
    /\ at \in 1 .. All + 1
    /\ cached.known \in BOOLEAN
    /\ step \in {"ready", "single"} => t = NoMechanism
    /\ step = "single" => Kind(cpu) = "AMD APM" /\ at = 1
    /\ CountInv /\ FillInv /\ AnswerInv

-----------------------------------------------------------------------------
(* The sources that are offered *)

Listed(s) ==
    /\ s \in Seq(Sources)
    /\ Len(s) \in 1 .. 5
    /\ \A i, j \in 1 .. Len(s) : s[i] = s[j] => i = j

\* A build option puts one more source at the end.
LEMMA ListedConcat ==
    ASSUME NEW s, Listed(s), Len(s) < 5, NEW x \in Sources,
           \A i \in 1 .. Len(s) : s[i] # x, NEW b
    PROVE  LET u == s \o (IF b THEN <<x>> ELSE << >>) IN
           /\ Listed(u)
           /\ Len(s) <= Len(u) /\ Len(u) <= Len(s) + 1
           /\ \A i \in 1 .. Len(s) : u[i] = s[i]
           /\ \A i \in 1 .. Len(u) : u[i] = x \/ \E j \in 1 .. Len(s) : u[i] = s[j]
<1>. DEFINE u == s \o (IF b THEN <<x>> ELSE << >>)
<1>1. CASE b
  <2>1. <<x>> \in Seq(Sources) /\ Len(<<x>>) = 1 /\ <<x>>[1] = x
    OBVIOUS
  <2>2. u = s \o <<x>>
    BY <1>1
  <2>3. /\ u \in Seq(Sources) /\ Len(u) = Len(s) + 1
        /\ \A i \in 1 .. Len(s) + 1 : u[i] = IF i <= Len(s) THEN s[i] ELSE <<x>>[i - Len(s)]
    BY <2>1, <2>2, ConcatProperties DEF Listed
  <2>4. u[Len(s) + 1] = x /\ \A i \in 1 .. Len(s) : u[i] = s[i]
    BY <2>1, <2>3 DEF Listed
  <2>. HIDE DEF u
  <2>. QED  BY <2>3, <2>4 DEF Listed, u
<1>2. CASE ~b
  <2>1. u = s
    BY <1>2, ConcatEmptySeq DEF Listed
  <2>2. Len(s) <= Len(s) /\ Len(s) <= Len(s) + 1
    BY DEF Listed
  <2>. QED  BY <2>1, <2>2
<1>. QED  BY <1>1, <1>2

LEMMA IntelListed == Listed(IntelOffers) /\ IntelOffers[1] = "sysfs"
<1>. DEFINE first == <<"sysfs", "perf", "msr">>
            second == first \o (IF UseLikwid THEN <<"likwid">> ELSE << >>)
<1>1. /\ Listed(first) /\ Len(first) < 5
      /\ \A i \in 1 .. Len(first) : first[i] \in {"sysfs", "perf", "msr"}
  BY DEF Listed, Sources
<1>2. Len(first) = 3 /\ first[1] = "sysfs"
  OBVIOUS
<1>3. IntelOffers = second \o (IF UseX86Adapt THEN <<"x86a">> ELSE << >>)
  BY DEF IntelOffers
<1>4. "likwid" \in Sources /\ "x86a" \in Sources
  BY DEF Sources
<1>. HIDE DEF first
<1>5. /\ Listed(second) /\ Len(first) <= Len(second) /\ Len(second) <= Len(first) + 1
      /\ \A i \in 1 .. Len(second) : second[i] \in {"sysfs", "perf", "msr", "likwid"}
      /\ \A i \in 1 .. Len(first) : second[i] = first[i]
  BY <1>1, <1>4, ListedConcat
<1>. HIDE DEF second
<1>6. Len(second) < 5 /\ 1 \in 1 .. Len(second) /\ second[1] = "sysfs"
  BY <1>2, <1>5 DEF Listed
<1>. QED  BY <1>3, <1>4, <1>5, <1>6, ListedConcat

LEMMA AmdListed == Listed(AmdOffers) /\ 2 <= Len(AmdOffers) /\ AmdOffers[2] = "sysfs"
<1>. DEFINE first == <<"msr_fam23", "sysfs", "perf">>
<1>1. /\ Listed(first) /\ Len(first) < 5
      /\ \A i \in 1 .. Len(first) : first[i] # "x86a_fam23"
  BY DEF Listed, Sources
<1>2. Len(first) = 3 /\ first[2] = "sysfs"
  OBVIOUS
<1>3. AmdOffers = first \o (IF UseX86Adapt THEN <<"x86a_fam23">> ELSE << >>)
  BY DEF AmdOffers
<1>4. "x86a_fam23" \in Sources
  BY DEF Sources
<1>. HIDE DEF first
<1>5. /\ Listed(AmdOffers) /\ Len(first) <= Len(AmdOffers)
      /\ \A i \in 1 .. Len(first) : AmdOffers[i] = first[i]
  BY <1>1, <1>3, <1>4, ListedConcat
<1>. QED  BY <1>2, <1>5 DEF Listed

LEMMA OffersDistinct == Listed(Offers)
<1>1. Listed(<<"sysfs_fam15">>)
  BY DEF Listed, Sources
<1>. QED  BY <1>1, IntelListed, AmdListed DEF Offers

\* RAPL is read from sysfs, too.
LEMMA SysfsOffered ==
    Kind(cpu) \in {"Intel RAPL", "AMD RAPL"} =>
        \E i \in 1 .. Len(Offers) : Offers[i] = "sysfs"
<1>1. \E i \in 1 .. Len(IntelOffers) : IntelOffers[i] = "sysfs"
  BY IntelListed DEF Listed
<1>2. \E i \in 1 .. Len(AmdOffers) : AmdOffers[i] = "sysfs"
  BY AmdListed DEF Listed
<1>. QED  BY <1>1, <1>2, Zenon DEF Offers

\* The APM has one source.
LEMMA ApmOffer == Kind(cpu) = "AMD APM" => Offers = <<"sysfs_fam15">>
BY DEF Offers

\* What a pass adds with the next source: the choice is_selected_source()
\* makes for each of them comes to Picked.
LEMMA PickedNext ==
    ASSUME NEW name, NEW n \in 0 .. All - 1
    PROVE  Picked(name, n + 1) = IF name \in {Unset, Offers[n + 1]}
                           THEN Append(Picked(name, n), Offers[n + 1])
                           ELSE Picked(name, n)
<1>1. Offers \in Seq(Sources) /\ All = Len(Offers) /\ n + 1 \in 1 .. All
      /\ \A i, j \in 1 .. All : Offers[i] = Offers[j] => i = j
  <2>1. All = Len(Offers)
    BY DEF All
  <2>. QED  BY <2>1, OffersDistinct DEF Listed
<1>2. CASE name = Unset
  <2>1. SubSeq(Offers, 1, n + 1) = Append(SubSeq(Offers, 1, n), Offers[n + 1])
    BY <1>1, SMTT(30)
  <2>. QED  BY <1>2, <2>1 DEF Picked
<1>3. CASE name # Unset /\ name = Offers[n + 1]
  <2>1. ~ \E i \in 1 .. n : Offers[i] = name
    BY <1>1, <1>3
  <2>2. \E i \in 1 .. n + 1 : Offers[i] = name
    BY <1>1, <1>3
  <2>3. Picked(name, n) = << >> /\ Picked(name, n + 1) = <<name>>
    BY <1>3, <2>1, <2>2 DEF Picked
  <2>. QED  BY <1>3, <2>3
<1>4. CASE name # Unset /\ name # Offers[n + 1]
  <2>1. (\E i \in 1 .. n + 1 : Offers[i] = name) <=> (\E i \in 1 .. n : Offers[i] = name)
    BY <1>1, <1>4
  <2>. QED  BY <1>4, <2>1 DEF Picked
<1>. QED  BY <1>2, <1>3, <1>4

LEMMA PickedTypes ==
    ASSUME NEW name
    PROVE  /\ Picked(name, 0) = << >>
           /\ \A n \in 0 .. All : /\ Picked(name, n) \in Seq(Sources)
                                  /\ Len(Picked(name, n)) <= Len(Picked(name, All))
<1>1. Offers \in Seq(Sources) /\ All = Len(Offers) /\ All \in Nat
  <2>1. All = Len(Offers)
    BY DEF All
  <2>. QED  BY <2>1, OffersDistinct DEF Listed
<1>2. Picked(name, 0) = << >>
  <2>1. SubSeq(Offers, 1, 0) = << >>
    BY <1>1
  <2>. QED  BY <2>1 DEF Picked
<1>3. ASSUME NEW n \in 0 .. All
      PROVE  Picked(name, n) \in Seq(Sources) /\ Len(Picked(name, n)) <= Len(Picked(name, All))
  <2>1. CASE name = Unset
    <3>1. /\ SubSeq(Offers, 1, n) \in Seq(Sources) /\ Len(SubSeq(Offers, 1, n)) = n
          /\ Len(SubSeq(Offers, 1, All)) = All
      BY <1>1, SMTT(30)
    <3>2. Picked(name, n) = SubSeq(Offers, 1, n) /\ Picked(name, All) = SubSeq(Offers, 1, All)
      BY <2>1 DEF Picked
    <3>. QED  BY <1>1, <3>1, <3>2
  <2>2. CASE name # Unset /\ \E i \in 1 .. n : Offers[i] = name
    <3>1. PICK i \in 1 .. n : Offers[i] = name
      BY <2>2
    <3>2. i \in 1 .. All /\ name \in Sources
      BY <1>1, <3>1, ElementOfSeq
    <3>3. Picked(name, n) = <<name>> /\ Picked(name, All) = <<name>>
      BY <2>2, <3>1, <3>2 DEF Picked
    <3>. QED  BY <3>2, <3>3
  <2>3. CASE name # Unset /\ ~ \E i \in 1 .. n : Offers[i] = name
    <3>1. Picked(name, n) = << >>
      BY <2>3 DEF Picked
    <3>2. Len(Picked(name, All)) \in {1, 0}
      BY <2>3 DEF Picked
    <3>. QED  BY <3>1, <3>2
  <2>. QED  BY <2>1, <2>2, <2>3
<1>. QED  BY <1>2, <1>3

-----------------------------------------------------------------------------
(* The two passes *)

\* While the processor and the variable are the same, so are the results.
LEMMA Stays ==
    ASSUME UNCHANGED cpu
    PROVE  /\ All' = All /\ Offers' = Offers
           /\ \A name, n : Picked(name, n)' = Picked(name, n)
           /\ cached'.name = cached.name => Chosen' = Chosen /\ Result' = Result
<1>1. All' = All /\ Offers' = Offers
  BY DEF All, Offers
<1>2. \A name, n : Picked(name, n)' = Picked(name, n)
  BY <1>1 DEF Picked
<1>3. ASSUME cached'.name = cached.name PROVE Chosen' = Chosen
  BY <1>1, <1>2, <1>3 DEF Chosen, Picked
<1>. QED  BY <1>1, <1>2, <1>3 DEF Result

LEMMA MechanismInit == Init => MechanismInv
<1>1. All \in 1 .. 5
  BY OffersDistinct DEF Listed, All
<1>. QED
  BY <1>1 DEF Init, MechanismInv, CountInv, FillInv, AnswerInv, NoEnv, NoMechanism

\* A step that leaves the variable, or the first that asks for it.
LEMMA AnswersStay ==
    ASSUME MechanismInv, UNCHANGED <<cpu, answers>>, cached' = cached \/ cached' = LookedUp
    PROVE  AnswerInv'
<1>1. CASE cached'.name = cached.name /\ (cached.known => cached'.known)
  BY <1>1, Stays DEF MechanismInv, AnswerInv
<1>2. CASE ~cached.known
  BY <1>2 DEF MechanismInv, AnswerInv
<1>. QED  BY <1>1, <1>2 DEF LookedUp

LEMMA CountKeeps == ASSUME MechanismInv, CountSource PROVE MechanismInv'
<1>1. PICK name : name = LookedUp.name
  OBVIOUS
<1>2. /\ step = "count" /\ step' = "count" /\ at' = at + 1 /\ cpu' = cpu
      /\ cached'.known = TRUE /\ cached'.name = name
      /\ All \in Nat /\ at \in 1 .. All /\ at - 1 \in 0 .. All - 1
      /\ t' = [t EXCEPT !.nr = IF name \in {Unset, Offers[at]} THEN @ + 1 ELSE @]
  <2>1. cached'.known = TRUE
    BY DEF CountSource, LookedUp, MechanismInv
  <2>2. All \in 1 .. 5
    BY OffersDistinct DEF Listed, All
  <2>. QED  BY <1>1, <2>1, <2>2 DEF CountSource, Selected, MechanismInv, All
<1>3. Kind(cpu) # "unsupported"
      /\ t = [nr |-> Len(Picked(cached.name, at - 1)), room |-> 0, sources |-> << >>]
  BY <1>2 DEF MechanismInv, CountInv
<1>4. Picked(cached.name, at - 1) = Picked(name, at - 1)
  <2>1. CASE cached.known
    BY <1>1, <2>1 DEF LookedUp
  <2>2. CASE ~cached.known
    <3>1. at - 1 = 0
      BY <1>2, <2>2 DEF MechanismInv, CountInv
    <3>. QED  BY <3>1, PickedTypes
  <2>. QED  BY <2>1, <2>2
<1>5. Picked(name, at) = IF name \in {Unset, Offers[at]}
                         THEN Append(Picked(name, at - 1), Offers[at])
                         ELSE Picked(name, at - 1)
  <2>1. PICK m \in 0 .. All - 1 : m = at - 1
    BY <1>2
  <2>2. m + 1 = at
    BY <1>2, <2>1
  <2>. QED  BY <2>1, <2>2, PickedNext
<1>6. Picked(name, at - 1) \in Seq(Sources)
  <2>1. at - 1 \in 0 .. All
    BY <1>2
  <2>. QED  BY <2>1, PickedTypes
<1>7. t' = [nr |-> Len(Picked(name, at)), room |-> 0, sources |-> << >>]
  <2>1. Offers[at] \in Sources
    BY <1>2, OffersDistinct, ElementOfSeq DEF Listed, All
  <2>2. Len(Append(Picked(name, at - 1), Offers[at])) = Len(Picked(name, at - 1)) + 1
    BY <1>6, <2>1, AppendProperties
  <2>. QED  BY <1>2, <1>3, <1>4, <1>5, <2>2
<1>8. AnswerInv'
  BY AnswersStay DEF CountSource
<1>9. Kind(cpu)' = Kind(cpu) /\ All' = All
  BY <1>2, Stays
<1>10. CountInv'
  <2>1. at' - 1 = at
    BY <1>2
  <2>2. Picked(cached.name, at - 1)' = Picked(name, at)
    BY <1>2, <2>1, Stays DEF Picked
  <2>. QED  BY <1>2, <1>3, <1>7, <1>9, <2>2 DEF CountInv
<1>11. at' \in 1 .. All' + 1
  BY <1>2, <1>9
<1>. QED  BY <1>2, <1>8, <1>10, <1>11 DEF MechanismInv, FillInv

LEMMA TakeSingleKeeps == ASSUME MechanismInv, TakeSingle PROVE MechanismInv'
<1>1. PICK name : name = LookedUp.name
  OBVIOUS
<1>2. /\ step = "single" /\ step' = "count" /\ at' = 2 /\ cpu' = cpu
      /\ cached'.known = TRUE /\ cached'.name = name
      /\ Offers = <<"sysfs_fam15">> /\ All = 1
      /\ Kind(cpu) = "AMD APM"
      /\ t' = IF name \in {Unset, Offers[1]} THEN [NoMechanism EXCEPT !.nr = 1] ELSE NoMechanism
  <2>1. cached'.known = TRUE
    BY DEF TakeSingle, LookedUp, MechanismInv
  <2>2. step = "single" /\ t = NoMechanism /\ Kind(cpu) = "AMD APM"
    BY DEF TakeSingle, MechanismInv
  <2>3. Offers = <<"sysfs_fam15">> /\ All = 1
    BY <2>2, ApmOffer DEF All
  <2>. QED  BY <1>1, <2>1, <2>2, <2>3 DEF TakeSingle, Selected
<1>3. Picked(name, 1) = IF name \in {Unset, Offers[1]} THEN <<Offers[1]>> ELSE << >>
  <2>1. All = 1
    BY <1>2
  <2>2. 0 \in 0 .. All - 1
    BY <2>1
  <2>3. PICK m, k : m = 0 /\ k = 1 /\ k = m + 1
    OBVIOUS
  <2>4. Picked(name, m + 1) = IF name \in {Unset, Offers[m + 1]}
                              THEN Append(Picked(name, m), Offers[m + 1])
                              ELSE Picked(name, m)
    BY <2>2, <2>3, PickedNext
  <2>5. Picked(name, k) = IF name \in {Unset, Offers[k]} THEN Append(<< >>, Offers[k]) ELSE << >>
    BY <2>3, <2>4, PickedTypes
  <2>. QED  BY <2>3, <2>5
<1>4. t' = [nr |-> Len(Picked(name, 1)), room |-> 0, sources |-> << >>]
  BY <1>2, <1>3 DEF NoMechanism
<1>5. CountInv'
  <2>1. UNCHANGED cpu /\ at' - 1 = 1 /\ cached'.name = name
    <3>1. UNCHANGED cpu /\ at' = 2 /\ cached'.name = name
      BY <1>2
    <3>. QED  BY <3>1
  <2>2. Picked(cached.name, at - 1)' = Picked(name, 1)
    BY <2>1, Stays DEF Picked
  <2>3. Kind(cpu)' = Kind(cpu)
    BY <1>2
  <2>. QED  BY <1>2, <1>4, <2>2, <2>3 DEF CountInv
<1>6. AnswerInv'
  BY AnswersStay DEF TakeSingle
<1>7. at' \in 1 .. All' + 1
  <2>1. All' = 1 /\ at' = 2
    BY <1>2, Stays
  <2>. QED  BY <2>1
<1>. QED  BY <1>2, <1>5, <1>6, <1>7 DEF MechanismInv, FillInv

\* The one source of the APM is stored unasked: it had been selected when the
\* array was allocated.
LEMMA FillKeeps == ASSUME MechanismInv, FillSource PROVE MechanismInv'
<1>1. /\ step = "fill" /\ step' = "fill" /\ at' = at + 1 /\ cpu' = cpu
      /\ All \in Nat /\ at \in 1 .. All /\ cached' = cached
      /\ Kind(cpu) # "unsupported" /\ cached.known /\ Chosen # << >>
      /\ t = [nr |-> Len(Chosen), room |-> Len(Chosen), sources |-> Picked(cached.name, at - 1)]
  <2>1. All \in 1 .. 5
    BY OffersDistinct DEF Listed, All
  <2>2. step = "fill" /\ at <= All
    BY DEF FillSource, All
  <2>3. /\ at \in 1 .. All + 1
        /\ Kind(cpu) # "unsupported" /\ cached.known /\ Chosen # << >>
        /\ t = [nr |-> Len(Chosen), room |-> Len(Chosen), sources |-> Picked(cached.name, at - 1)]
    BY <2>2 DEF MechanismInv, FillInv
  <2>4. cached' = cached
    BY <2>3 DEF FillSource, LookedUp
  <2>5. at \in 1 .. All /\ All \in Nat
    BY <2>1, <2>2, <2>3
  <2>6. step' = "fill" /\ at' = at + 1 /\ cpu' = cpu
    BY <2>2 DEF FillSource
  <2>. QED  BY <2>2, <2>3, <2>4, <2>5, <2>6
<1>2. t'.sources = Picked(cached.name, at) /\ t' = [t EXCEPT !.sources = Picked(cached.name, at)]
  <2>1. PICK m \in 0 .. All - 1 : m = at - 1
    BY <1>1
  <2>2. m + 1 = at
    BY <1>1, <2>1
  <2>3. CASE Kind(cpu) = "AMD APM"
    <3>1. Offers = <<"sysfs_fam15">>
      BY <2>3, ApmOffer
    <3>2. All = 1
      BY <3>1 DEF All
    <3>3. Offers = <<"sysfs_fam15">> /\ All = 1 /\ at = 1
      BY <1>1, <3>1, <3>2
    <3>4. Picked(cached.name, 1) = IF cached.name \in {Unset, Offers[1]} THEN <<Offers[1]>> ELSE << >>
      BY <2>1, <2>2, <3>3, PickedNext, PickedTypes
    <3>5. Picked(cached.name, 1) = Offers
      BY <1>1, <3>3, <3>4 DEF Chosen
    <3>. QED  BY <1>1, <2>3, <3>3, <3>5 DEF FillSource
  <2>4. CASE Kind(cpu) # "AMD APM"
    <3>1. t' = IF cached.name \in {Unset, Offers[at]}
               THEN [t EXCEPT !.sources = Append(@, Offers[at])] ELSE t
      BY <1>1, <2>4 DEF FillSource, Selected, LookedUp
    <3>2. Picked(cached.name, at) = IF cached.name \in {Unset, Offers[at]}
                                    THEN Append(t.sources, Offers[at]) ELSE t.sources
      BY <1>1, <2>1, <2>2, PickedNext
    <3>. QED  BY <1>1, <3>1, <3>2
  <2>. QED  BY <2>3, <2>4
<1>3. FillInv'
  <2>1. Picked(cached.name, at - 1)' = Picked(cached.name, at)
    <3>1. at' - 1 = at
      BY <1>1
    <3>. QED  BY <1>1, <3>1, Stays DEF Picked
  <2>2. Kind(cpu)' = Kind(cpu) /\ Chosen' = Chosen
    BY <1>1, Stays
  <2>3. t' = [nr |-> Len(Chosen), room |-> Len(Chosen), sources |-> Picked(cached.name, at)]
    BY <1>1, <1>2
  <2>. QED  BY <1>1, <2>1, <2>2, <2>3 DEF FillInv
<1>4. AnswerInv'
  BY <1>1, AnswersStay DEF FillSource
<1>5. at' \in 1 .. All' + 1
  BY <1>1, Stays
<1>. QED  BY <1>1, <1>3, <1>4, <1>5 DEF MechanismInv, CountInv

LEMMA ReturnKeeps == ASSUME MechanismInv, Return PROVE MechanismInv'
<1>1. /\ step = "fill" /\ step' = "ready" /\ UNCHANGED <<cpu, cached, at>> /\ t' = NoMechanism
      /\ Kind(cpu) # "unsupported" /\ cached.known /\ Chosen # << >>
      /\ at = All + 1 /\ All \in Nat
      /\ t = [nr |-> Len(Chosen), room |-> Len(Chosen), sources |-> Picked(cached.name, at - 1)]
  <2>1. All \in 1 .. 5
    BY OffersDistinct DEF Listed, All
  <2>. QED  BY <2>1 DEF Return, Answer, MechanismInv, FillInv, All
<1>2. answers' = answers \cup {Result}
  <2>1. at - 1 = All
    BY <1>1
  <2>2. t.nr = Len(Chosen) /\ t.sources = Chosen
    BY <1>1, <2>1 DEF Chosen
  <2>. QED  BY <2>2 DEF Return, Answer, Result
<1>3. AnswerInv'
  BY <1>1, <1>2, Stays DEF MechanismInv, AnswerInv
<1>. QED  BY <1>1, <1>3, Stays DEF MechanismInv, CountInv, FillInv

LEMMA MechanismNext == MechanismInv /\ [Next]_vars => MechanismInv'
<1>. SUFFICES ASSUME MechanismInv, [Next]_vars PROVE MechanismInv'
  OBVIOUS
<1>1. CASE UNCHANGED <<cpu, cached, step, at, t, answers>>
  <2>1. CountInv' /\ FillInv'
    BY <1>1, Stays DEF MechanismInv, CountInv, FillInv, Picked
  <2>2. AnswerInv'
    BY <1>1, AnswersStay
  <2>. QED  BY <1>1, <2>1, <2>2, Stays DEF MechanismInv
<1>2. CASE CallFails \/ AllocateFails
  <2>1. UNCHANGED <<cpu, cached, at>> /\ step' = "ready" /\ t' = NoMechanism
        /\ answers' = answers \cup {NULL}
    BY <1>2 DEF CallFails, AllocateFails, Answer
  <2>2. AnswerInv'
    BY <2>1, Stays DEF MechanismInv, AnswerInv
  <2>. QED  BY <2>1, <2>2, Stays DEF MechanismInv, CountInv, FillInv
<1>3. CASE Identify
  <2>1. /\ step' \in {"single", "count"} /\ (step' = "single" => Kind(cpu) = "AMD APM")
        /\ at' = 1 /\ t' = NoMechanism /\ UNCHANGED <<cpu, cached, answers>>
        /\ Kind(cpu) # "unsupported"
    BY <1>3 DEF Identify
  <2>2. CountInv'
    <3>1. Picked(cached.name, at - 1)' = Picked(cached.name, 0)
      <4>1. UNCHANGED <<cpu, cached>> /\ at' - 1 = 0
        <5>1. UNCHANGED <<cpu, cached>> /\ at' = 1
          BY <2>1
        <5>. QED  BY <5>1
      <4>. QED  BY <4>1, Stays DEF Picked
    <3>2. Picked(cached.name, 0) = << >>
      BY PickedTypes
    <3>3. Kind(cpu)' = Kind(cpu)
      BY <2>1
    <3>. QED  BY <2>1, <3>1, <3>2, <3>3 DEF CountInv, NoMechanism
  <2>3. AnswerInv'
    BY <2>1, AnswersStay
  <2>4. Kind(cpu)' = Kind(cpu) /\ 1 \in 1 .. All' + 1
    <3>1. All' = All
      BY <2>1, Stays
    <3>2. All \in 1 .. 5
      BY OffersDistinct DEF Listed, All
    <3>3. 1 \in 1 .. All' + 1
      BY <3>1, <3>2
    <3>. QED  BY <2>1, <3>3
  <2>. QED  BY <2>1, <2>2, <2>3, <2>4 DEF MechanismInv, FillInv
<1>4. CASE Allocate
  <2>1. /\ step = "count" /\ step' = "fill" /\ at' = 1 /\ UNCHANGED <<cpu, cached, answers>>
        /\ t' = [t EXCEPT !.room = t.nr] /\ t.nr > 0 /\ at = All + 1 /\ All \in 1 .. 5
    <3>1. All \in 1 .. 5
      BY OffersDistinct DEF Listed, All
    <3>. QED  BY <1>4, <3>1 DEF Allocate, MechanismInv, All
  <2>2. /\ Kind(cpu) # "unsupported" /\ cached.known
        /\ t = [nr |-> Len(Chosen), room |-> 0, sources |-> << >>]
    <3>1. at > 1 /\ at - 1 = All
      BY <2>1
    <3>. QED  BY <2>1, <3>1 DEF MechanismInv, CountInv, Chosen
  <2>3. Picked(cached.name, at - 1)' = << >>
    <3>1. Picked(cached.name, at - 1)' = Picked(cached.name, 0)
      BY <2>1, Stays DEF Picked
    <3>. QED  BY <3>1, PickedTypes
  <2>4. Chosen # << >> /\ Chosen' = Chosen /\ Kind(cpu)' = Kind(cpu)
    <3>1. Len(Chosen) > 0
      BY <2>1, <2>2
    <3>. QED  BY <2>1, <3>1, Stays
  <2>5. t' = [nr |-> Len(Chosen), room |-> Len(Chosen), sources |-> << >>]
    BY <2>1, <2>2
  <2>6. FillInv'
    BY <2>1, <2>2, <2>3, <2>4, <2>5 DEF FillInv
  <2>7. AnswerInv'
    BY <2>1, AnswersStay
  <2>. QED  BY <2>1, <2>6, <2>7, Stays DEF MechanismInv, CountInv
<1>. QED
  BY <1>1, <1>2, <1>3, <1>4, CountKeeps, TakeSingleKeeps, FillKeeps, ReturnKeeps
     DEF Next, SetEnv, vars

LEMMA Mechanisms == Spec => []MechanismInv
BY MechanismInit, MechanismNext, PTL DEF Spec

-----------------------------------------------------------------------------
(* What the calls return *)

\* The array that was allocated for the sources of the first pass is filled by
\* the second one, exactly and never behind its end, whatever other threads
\* do to the environment in between.
THEOREM FillFitsCorrect == Spec => []FillFits
<1>1. MechanismInv => FillFits
  <2>. SUFFICES ASSUME MechanismInv PROVE FillFits
    OBVIOUS
  <2>1. All \in 1 .. 5 /\ All = Len(Offers)
    BY OffersDistinct DEF Listed, All
  <2>2. CASE step = "fill"
    <3>1. /\ t.room = Len(Chosen) /\ t.nr = Len(Chosen) /\ t.sources = Picked(cached.name, at - 1)
          /\ at - 1 \in 0 .. All
      BY <2>1, <2>2 DEF MechanismInv, FillInv
    <3>2. Len(t.sources) <= t.room
      BY <3>1, PickedTypes DEF Chosen
    <3>3. ASSUME at > All PROVE Len(t.sources) = t.nr
      <4>1. at \in 1 .. All + 1
        BY DEF MechanismInv
      <4>2. at - 1 = All
        BY <2>1, <3>3, <4>1
      <4>. QED  BY <3>1, <4>2 DEF Chosen
    <3>. QED  BY <2>1, <3>2, <3>3 DEF FillFits
  <2>3. CASE step # "fill"
    <3>1. t.sources = << >> /\ t.room = 0
      <4>1. step \in {"ready", "single"} => t = NoMechanism
        BY DEF MechanismInv
      <4>2. step = "count" =>
               t = [nr |-> Len(Picked(cached.name, at - 1)), room |-> 0, sources |-> << >>]
        BY DEF MechanismInv, CountInv
      <4>3. step \in {"ready", "single", "count"}
        BY <2>3 DEF MechanismInv
      <4>. QED  BY <4>1, <4>2, <4>3 DEF NoMechanism
    <3>. QED  BY <2>3, <3>1 DEF FillFits
  <2>. QED  BY <2>2, <2>3
<1>. QED  BY <1>1, Mechanisms, PTL

\* All the calls of a process that find a mechanism find the same.
THEOREM OneMechanismCorrect == Spec => []OneMechanism
<1>1. MechanismInv => OneMechanism
  BY DEF MechanismInv, AnswerInv, OneMechanism
<1>. QED  BY <1>1, Mechanisms, PTL

\* A mechanism has a source, and all its sources read the package counter,
\* which it has: for every processor that cpuid can name.
THEOREM UsableCorrect == Spec => []Usable
<1>1. MechanismInv => Usable
  <2>. SUFFICES ASSUME MechanismInv, NEW a \in answers \ {NULL}
                PROVE  /\ a.sources # << >>
                       /\ a.granularities["PCKG"] = "SOCKET"
                       /\ \A i \in DOMAIN a.sources : "PCKG" \in Handles(a.sources[i])
    BY DEF Usable
  <2>1. a = Result /\ Kind(cpu) # "unsupported" /\ Chosen # << >>
    BY DEF MechanismInv, AnswerInv
  <2>2. a.sources = Chosen /\ a.granularities = [k \in COUNTERS |-> Granularity(cpu, k)]
    BY <2>1 DEF Result
  <2>3. "PCKG" \in Supported(cpu)
    <3>1. \A m : IntelSupported(m) # {} => "PCKG" \in IntelSupported(m)
      BY DEF IntelSupported, Client, Server, Simple
    <3>2. CASE cpu.vendor = "Intel"
      BY <2>1, <3>1, <3>2 DEF Kind, Supported
    <3>3. CASE cpu.vendor # "Intel"
      <4>1. Family(cpu) \in {\h15, \h17, \h19}
        BY <2>1, <3>3 DEF Kind
      <4>. QED  BY <3>3, <4>1 DEF Supported, AmdSupported
    <3>. QED  BY <3>2, <3>3
  <2>4. a.granularities["PCKG"] = "SOCKET"
    BY <2>2, <2>3 DEF COUNTERS, Granularity
  <2>5. Chosen \in Seq(Sources)
    <3>1. All \in 0 .. All
      BY OffersDistinct DEF Listed, All
    <3>. QED  BY <3>1, PickedTypes DEF Chosen
  <2>6. \A s \in Sources : "PCKG" \in Handles(s)
    BY DEF Sources, Handles, COUNTERS
  <2>7. \A i \in DOMAIN a.sources : a.sources[i] \in Sources
    BY <2>2, <2>5, ElementOfSeq
  <2>. QED  BY <2>1, <2>2, <2>4, <2>6, <2>7
<1>. QED  BY <1>1, Mechanisms, PTL

\* As long as X86_ENERGY_SOURCE is not set, a counter that is announced can be
\* set up with some source: where it fails it is the selection that takes the
\* sources away.
THEOREM HandledUnlessSelected ==
    ASSUME Names = {}
    PROVE  Spec => []AnnouncedIsHandled
<1>. DEFINE NotSet == env = Unset /\ cached.name = Unset
<1>1. Init => NotSet
  BY DEF Init, NoEnv
<1>2. NotSet /\ [Next]_vars => NotSet'
  <2>. SUFFICES ASSUME NotSet, [Next]_vars PROVE NotSet'
    OBVIOUS
  <2>1. env' = Unset
    BY DEF Next, vars, SetEnv, CallFails, Identify, CountSource, TakeSingle, Allocate,
           AllocateFails, FillSource, Return
  <2>2. cached' = cached \/ cached' = LookedUp
    BY DEF Next, vars, SetEnv, CallFails, Identify, CountSource, TakeSingle, Allocate,
           AllocateFails, FillSource, Return
  <2>3. LookedUp.name = Unset
    BY DEF LookedUp
  <2>. QED  BY <2>1, <2>2, <2>3
<1>3. MechanismInv /\ NotSet => AnnouncedIsHandled
  <2>. SUFFICES ASSUME MechanismInv, NotSet, NEW a \in answers \ {NULL}, NEW k \in COUNTERS,
                       a.granularities[k] # "SIZE"
                PROVE  \E i \in DOMAIN a.sources : k \in Handles(a.sources[i])
    BY DEF AnnouncedIsHandled
  <2>1. /\ a.sources = Chosen /\ a.granularities[k] = Granularity(cpu, k)
        /\ Kind(cpu) # "unsupported"
    <3>1. a = Result /\ Kind(cpu) # "unsupported"
      BY DEF MechanismInv, AnswerInv
    <3>. QED  BY <3>1 DEF Result
  <2>2. k \in Supported(cpu)
    BY <2>1 DEF Granularity
  <2>3. Offers \in Seq(Sources) /\ Len(Offers) \in Nat
    BY OffersDistinct DEF Listed
  <2>4. Chosen = Offers
    <3>1. SubSeq(Offers, 1, Len(Offers)) = Offers
      BY <2>3
    <3>. QED  BY <3>1 DEF Chosen, Picked, All
  <2>5. \E i \in 1 .. Len(Offers) : k \in Handles(Offers[i])
    <3>1. CASE Kind(cpu) = "AMD APM"
      BY <2>2, <3>1, ApmOffer DEF Kind, Supported, AmdSupported, Handles
    <3>2. CASE Kind(cpu) # "AMD APM"
      <4>1. Kind(cpu) \in {"Intel RAPL", "AMD RAPL"}
        BY <2>1, <3>2 DEF Kind
      <4>. QED  BY <4>1, SysfsOffered DEF Handles
    <3>. QED  BY <3>1, <3>2
  <2>. QED  BY <2>1, <2>3, <2>4, <2>5
<1>. QED  BY <1>1, <1>2, <1>3, Mechanisms, PTL DEF Spec
=============================================================================
