----------------------------- MODULE Mechanism -----------------------------
(***************************************************************************)
(* x86_energy_get_avail_mechanism(): what the processor can measure and    *)
(* which access sources are offered for it.  The sources are passed twice, *)
(* once to count those the environment variable X86_ENERGY_SOURCE selects  *)
(* and once to store them into an array of that size; meanwhile, and       *)
(* between two calls, some other thread may change the environment.  The   *)
(* variable is looked up once in the life of the process.                  *)
(***************************************************************************)
EXTENDS Integers, Sequences, SequencesExt

CONSTANTS CpuIds,       \* the processors: what cpuid says
          Names,        \* values X86_ENERGY_SOURCE may be given
          UseLikwid, UseX86Adapt,       \* the build options
          Unset,        \* the variable is not set
          NULL          \* no mechanism

ASSUME BuildAssumption == UseLikwid \in BOOLEAN /\ UseX86Adapt \in BOOLEAN

VARIABLES cpu,          \* the processor
          env,          \* X86_ENERGY_SOURCE in the environment
          cached,       \* env_initialized and env_string
          step,         \* where get_avail_mechanism() stands
          at,           \* the next source of the current pass
          t,            \* the mechanism being built; room: its allocated entries
          answers       \* what the calls have returned so far

vars == <<cpu, env, cached, step, at, t, answers>>

COUNTERS == {"PCKG", "CORES", "DRAM", "GPU", "PLATFORM", "SINGLE_CORE"}

-----------------------------------------------------------------------------
(* The processor *)

\* Family and model as cpuid spreads them over its fields.
Family(id) == IF id.base_family = 15 THEN id.ext_family + 15 ELSE id.base_family
Model(id) ==
    IF id.base_family \in {6, 15} THEN id.ext_model * 16 + id.base_model ELSE id.base_model

Client == {"PCKG", "CORES", "GPU"}
Server == {"PCKG", "CORES", "DRAM"}
Simple == {"PCKG", "DRAM"}

\* switch (cpu_model): the counters of the Intel models.
IntelSupported(model) ==
    CASE model \in {\h2a, \h3a, \h97, \h9a, \hbf} -> Client
      [] model \in {\h2d, \h3e, \h45, \h46, \h47} -> Server
      [] model \in {\h3c, \h3d} -> Client \cup Server
      [] model \in {\h3f, \h56, \h4f, \h55, \h5e, \h8f} -> Simple
      [] model = \h4e -> {"PCKG"}
      [] model = \h8e -> Client \cup Server \cup {"PLATFORM"}
      [] OTHER -> {}

\* "currently only Fam15h", and what came later.
AmdSupported(family) ==
    CASE family = \h15 -> {"PCKG"}
      [] family = \h17 -> {"PCKG", "SINGLE_CORE"}
      [] family = \h19 -> {"PCKG", "CORES"}
      [] OTHER -> {}

Kind(id) ==
    CASE id.vendor = "Intel" /\ Family(id) = 6 /\ IntelSupported(Model(id)) # {} -> "Intel RAPL"
      [] id.vendor = "AMD" /\ Family(id) = \h15 -> "AMD APM"
      [] id.vendor = "AMD" /\ Family(id) \in {\h17, \h19} -> "AMD RAPL"
      [] OTHER -> "unsupported"

Supported(id) == IF id.vendor = "Intel" THEN IntelSupported(Model(id)) ELSE AmdSupported(Family(id))

\* source_granularities[counter]
Granularity(id, counter) ==
    IF counter \notin Supported(id) THEN "SIZE"
    ELSE CASE counter = "PLATFORM" -> "SYSTEM"
           [] counter = "SINGLE_CORE" -> "CORE"
           [] OTHER -> "SOCKET"

-----------------------------------------------------------------------------
(* The sources, in the order both passes ask for them *)
IntelOffers ==
    <<"sysfs", "perf", "msr">> \o (IF UseLikwid THEN <<"likwid">> ELSE << >>)
                               \o (IF UseX86Adapt THEN <<"x86a">> ELSE << >>)
AmdOffers ==
    <<"msr_fam23", "sysfs", "perf">> \o (IF UseX86Adapt THEN <<"x86a_fam23">> ELSE << >>)

Offers ==
    CASE Kind(cpu) = "Intel RAPL" -> IntelOffers
      [] Kind(cpu) = "AMD RAPL" -> AmdOffers
      [] OTHER -> <<"sysfs_fam15">>

\* What the setup() functions do not refuse.
Handles(source) ==
    CASE source \in {"perf", "msr", "likwid"} -> COUNTERS \ {"SINGLE_CORE"}
      [] source = "x86a" -> {"PCKG", "CORES", "DRAM", "GPU"}
      [] source = "sysfs" -> COUNTERS
      [] source = "sysfs_fam15" -> {"PCKG"}
      [] source \in {"msr_fam23", "x86a_fam23"} -> {"PCKG", "SINGLE_CORE"}

-----------------------------------------------------------------------------
NoEnv == [known |-> FALSE, name |-> Unset]
NoMechanism == [nr |-> 0, room |-> 0, sources |-> << >>]

Init ==
    /\ cpu \in CpuIds
    /\ env \in Names \cup {Unset}
    /\ cached = NoEnv
    /\ step = "ready"
    /\ at = 1
    /\ t = NoMechanism
    /\ answers = {}

\* setenv() or unsetenv() somewhere in the program
SetEnv(name) ==
    /\ env' = name
    /\ UNCHANGED <<cpu, cached, step, at, t, answers>>

\* A bug form: the environment is asked every time.
LookedUpAlways == [known |-> TRUE, name |-> env]

\* The variable as is_selected_source() sees it: the first call keeps it.
LookedUp == IF cached.known THEN cached ELSE [known |-> TRUE, name |-> env]

Selected(source) == LookedUp.name \in {Unset, source}

Answer(a) == answers' = answers \cup {a} /\ step' = "ready" /\ t' = NoMechanism

\* The tree cannot be built or has no package, or the processor is none of
\* those that are known.
CallFails ==
    /\ step = "ready"
    /\ Answer(NULL)
    /\ UNCHANGED <<cpu, env, cached, at>>

Identify ==
    /\ step = "ready"
    /\ Kind(cpu) # "unsupported"
    /\ step' = IF Kind(cpu) = "AMD APM" THEN "single" ELSE "count"
    /\ at' = 1
    /\ t' = NoMechanism
    /\ UNCHANGED <<cpu, env, cached, answers>>

\* if (is_selected_source(...)) t->nr_avail_sources += 1;
CountSource ==
    /\ step = "count" /\ at <= Len(Offers)
    /\ cached' = LookedUp
    /\ t' = [t EXCEPT !.nr = IF Selected(Offers[at]) THEN @ + 1 ELSE @]
    /\ at' = at + 1
    /\ UNCHANGED <<cpu, env, step, answers>>

\* The only source for the APM.
TakeSingle ==
    /\ step = "single"
    /\ cached' = LookedUp
    /\ t' = IF Selected(Offers[1]) THEN [t EXCEPT !.nr = 1] ELSE t
    /\ step' = "count"
    /\ at' = 2
    /\ UNCHANGED <<cpu, env, answers>>

\* A bug form: a list of no source is allocated, too.
AllocateAny ==
    /\ step = "count" /\ at > Len(Offers)
    /\ t' = [t EXCEPT !.room = t.nr]
    /\ step' = "fill"
    /\ at' = 1
    /\ UNCHANGED <<cpu, env, cached, answers>>

Allocate ==
    /\ step = "count" /\ at > Len(Offers)
    /\ t.nr > 0
    /\ t' = [t EXCEPT !.room = t.nr]
    /\ step' = "fill"
    /\ at' = 1
    /\ UNCHANGED <<cpu, env, cached, answers>>

\* "No available source selected", or malloc() fails.
AllocateFails ==
    /\ step = "count" /\ at > Len(Offers)
    /\ Answer(NULL)
    /\ UNCHANGED <<cpu, env, cached, at>>

\* if (is_selected_source(...)) t->avail_sources[current++] = ...;
\* The one source of the APM is stored without being asked for again.
FillSource ==
    /\ step = "fill" /\ at <= Len(Offers)
    /\ IF Kind(cpu) = "AMD APM"
       THEN t' = [t EXCEPT !.sources = Offers] /\ UNCHANGED cached
       ELSE /\ cached' = LookedUp
            /\ t' = IF Selected(Offers[at]) THEN [t EXCEPT !.sources = Append(@, Offers[at])] ELSE t
    /\ at' = at + 1
    /\ UNCHANGED <<cpu, env, step, answers>>

Return ==
    /\ step = "fill" /\ at > Len(Offers)
    /\ Answer([nr |-> t.nr, sources |-> t.sources,
               granularities |-> [k \in COUNTERS |-> Granularity(cpu, k)]])
    /\ UNCHANGED <<cpu, env, cached, at>>

Next ==
    \/ \E name \in Names \cup {Unset} : SetEnv(name)
    \/ CallFails \/ Identify
    \/ CountSource \/ TakeSingle \/ Allocate \/ AllocateFails
    \/ FillSource \/ Return

Spec == Init /\ [][Next]_vars

-----------------------------------------------------------------------------

\* The second pass writes into the array what the first pass made room for:
\* never behind its end, and all of it before the mechanism is returned,
\* whatever happens to the environment in between.
FillFits ==
    /\ Len(t.sources) <= t.room
    /\ step = "fill" /\ at > Len(Offers) => Len(t.sources) = t.nr

\* All calls of one process that find a mechanism find the same one, so that
\* indices into avail_sources keep their meaning.
OneMechanism == \A a, b \in answers \ {NULL} : a = b

\* "just try them": a mechanism has a source, and every source of it takes
\* the package counter that the mechanism has.
Usable ==
    \A a \in answers \ {NULL} :
        /\ a.sources # << >>
        /\ a.granularities["PCKG"] = "SOCKET"
        /\ \A i \in DOMAIN a.sources : "PCKG" \in Handles(a.sources[i])

\* "if it is >= X86_ENERGY_GRANULARITY_SIZE, it is not available": a counter
\* that is announced can be set up with some source of the mechanism.  It
\* fails when X86_ENERGY_SOURCE leaves only sources that do not know it.
AnnouncedIsHandled ==
    \A a \in answers \ {NULL} : \A k \in COUNTERS :
        a.granularities[k] # "SIZE" =>
            \E i \in DOMAIN a.sources : k \in Handles(a.sources[i])

\* "Option 3 and 4 are provided for AMD RAPL": msr and x86_adapt.
AmdSourcesAsDocumented ==
    Kind(cpu) = "AMD RAPL" =>
        \A a \in answers \ {NULL} : ToSet(a.sources) \subseteq {"msr_fam23", "x86a_fam23"}
=============================================================================
