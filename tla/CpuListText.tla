---------------------------- MODULE CpuListText ----------------------------
(***************************************************************************)
(* The lists of CPUs in sysfs, such as "0-3,8-11,16": what the kernel      *)
(* writes for a set of CPUs and what the set is that a reader recovers     *)
(* with read_file_long_list().  A list is a sequence of items <<lo, hi>>;  *)
(* an item with lo = hi is written as a single number.                     *)
(***************************************************************************)
EXTENDS Integers, Sequences, SequencesExt

\* What the text means.
Span(item) == item[1] .. item[2]
Meaning(items) == UNION {Span(items[i]) : i \in DOMAIN items}

\* The items of the text the kernel writes for S: maximal runs, in order.
RunStarts(S) == {n \in S : n - 1 \notin S}
RunEnd(S, n) == CHOOSE m \in S : m >= n /\ n .. m \subseteq S /\ m + 1 \notin S
KernelList(S) ==
    LET starts == SetToSortSeq(RunStarts(S), <)
    IN  [i \in DOMAIN starts |-> <<starts[i], RunEnd(S, starts[i])>>]

\* What read_file_long_list() stores for the items: a single number is only
\* stored when it reaches the ',' behind it.
Stored(items) ==
    IF items # << >> /\ Last(items)[1] = Last(items)[2] THEN Front(items) ELSE items

\* The numbers of an item, in ascending order.
Counting(item) == [i \in 1 .. item[2] - item[1] + 1 |-> item[1] + i - 1]

\* *result, as a sequence of *length numbers.
ReadList(items) ==
    FlattenSeq([i \in DOMAIN Stored(items) |-> Counting(items[i])])
=============================================================================
