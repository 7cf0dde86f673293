------------------------------ MODULE CpuList ------------------------------
(***************************************************************************)
(* read_file_long_list() of parse_architecture.c, one action per way       *)
(* through its loop.  The text is a sequence of tokens: a number stands    *)
(* for the digits that strtol() converts at once.  sysfs ends a text with a*)
(* newline (a file of 0 bytes is left out); the buffer is on the stack and *)
(* no 0 byte is put behind the text.  A newline is white space to strtol(),*)
(* which skips it and converts what some earlier call has left there.  What*)
(* the function makes of such bytes is not followed (status "stale").      *)
(***************************************************************************)
EXTENDS CpuListText

CONSTANTS Lists         \* the lists of items the file may hold

ASSUME ListsAssumption == Lists \subseteq Seq(Nat \X Nat)

COMMA == -1
DASH == -2
JUNK == -3              \* any other character but white space and a sign
END == -4               \* the newline that ends the text

VARIABLES items,        \* what the kernel wrote, as items
          tail,         \* << >>, or what follows them in a damaged file
          stale,        \* behind the newline, white space and a sign
                        \* skipped, there are digits in the buffer
          text,         \* the tokens in the buffer
          pos,          \* current_ptr
          list,         \* *result and *length
          status        \* "parsing"; 0: "ok"; 1: "error" for the text and
                        \* "failed" for a call; or "stale"

file == <<items, tail, stale, text>>
vars == <<file, pos, list, status>>

ItemText(item) ==
    IF item[1] = item[2] THEN <<item[1]>> ELSE <<item[1], DASH, item[2]>>

Text(its) ==
    FlattenSeq([i \in DOMAIN its |->
        IF i = 1 THEN ItemText(its[i]) ELSE <<COMMA>> \o ItemText(its[i])])

Init ==
    /\ items \in Lists
    /\ tail \in {<< >>, <<COMMA>>, <<DASH>>, <<JUNK>>}
    /\ stale \in BOOLEAN
    /\ text = Text(items) \o tail \o <<END>>
    /\ pos = 1
    /\ list = << >>
    /\ status = "parsing"

Token(i) == IF i \in DOMAIN text THEN text[i] ELSE END

\* strtol() converts a number of the text, or one behind the newline.
Number(i) == i \in DOMAIN text /\ text[i] >= 0
StaleNumber(i) == stale /\ Token(i) = END

\* open() or read() fails, the text fills the buffer, or realloc() fails.
CallFails ==
    /\ status = "parsing"
    /\ \/ pos = 1
       \/ Number(pos) /\ Token(pos + 1) = COMMA
       \/ Number(pos) /\ Token(pos + 1) = DASH /\ Number(pos + 2)
    /\ list' = << >>
    /\ status' = "failed"
    /\ UNCHANGED <<file, pos>>

\* "maybe it's just an empty file?"
Empty ==
    /\ status = "parsing" /\ pos = 1
    /\ Token(1) = END
    /\ status' = "ok"
    /\ UNCHANGED <<file, pos, list>>

\* A number and ','.
AddSingle ==
    /\ status = "parsing"
    /\ Number(pos) /\ Token(pos + 1) = COMMA
    /\ list' = Append(list, Token(pos))
    /\ pos' = pos + 2
    /\ UNCHANGED <<file, status>>

\* A number and the end: "just return on end".
EndAfterNumber ==
    /\ status = "parsing"
    /\ Number(pos) /\ Token(pos + 1) = END
    /\ status' = "ok"
    /\ UNCHANGED <<file, pos, list>>

\* A bug form: the upper end of a range is left out.
AddRangeOpen ==
    /\ status = "parsing"
    /\ Number(pos) /\ Token(pos + 1) = DASH /\ Number(pos + 2)
    /\ Token(pos + 3) \in {COMMA, END}
    /\ list' = list \o Counting(<<Token(pos), Token(pos + 2) - 1>>)
    /\ pos' = pos + 4
    /\ status' = IF Token(pos + 3) = END THEN "ok" ELSE "parsing"
    /\ UNCHANGED file

\* A range and ',' or the end.
AddRange ==
    /\ status = "parsing"
    /\ Number(pos) /\ Token(pos + 1) = DASH /\ Number(pos + 2)
    /\ Token(pos + 3) \in {COMMA, END}
    /\ list' = list \o Counting(<<Token(pos), Token(pos + 2)>>)
    /\ pos' = pos + 4
    /\ status' = IF Token(pos + 3) = END THEN "ok" ELSE "parsing"
    /\ UNCHANGED file

\* The text ends where a number has to be, and strtol() finds one behind it.
RunsOn ==
    /\ status = "parsing"
    /\ ~(pos = 1 /\ Token(1) = END)
    /\ \/ StaleNumber(pos)
       \/ Number(pos) /\ Token(pos + 1) = DASH /\ StaleNumber(pos + 2)
    /\ status' = "stale"
    /\ UNCHANGED <<file, pos, list>>

\* No number where one has to be, or something else behind a number or a
\* range: the list is freed and 1 returned.
NotAList ==
    \/ ~Number(pos) /\ ~StaleNumber(pos)
    \/ Number(pos) /\ Token(pos + 1) = JUNK
    \/ Number(pos) /\ Token(pos + 1) = DASH /\ ~Number(pos + 2) /\ ~StaleNumber(pos + 2)
    \/ Number(pos) /\ Token(pos + 1) = DASH /\ Number(pos + 2)
       /\ Token(pos + 3) \in {DASH, JUNK}

\* A bug form: what was read so far is handed out.
FailKeepingList ==
    /\ status = "parsing"
    /\ ~(pos = 1 /\ Token(1) = END)
    /\ NotAList
    /\ status' = "error"
    /\ UNCHANGED <<file, pos, list>>

\* A bug form: the loop looks at the same text again.
FailRetrying ==
    /\ status = "parsing"
    /\ ~(pos = 1 /\ Token(1) = END)
    /\ NotAList
    /\ list' = << >>
    /\ UNCHANGED <<file, pos, status>>

Fail ==
    /\ status = "parsing"
    /\ ~(pos = 1 /\ Token(1) = END)
    /\ NotAList
    /\ list' = << >>
    /\ status' = "error"
    /\ UNCHANGED <<file, pos>>

Next == CallFails \/ Empty \/ AddSingle \/ EndAfterNumber \/ AddRange \/ RunsOn \/ Fail

Spec == Init /\ [][Next]_vars /\ WF_vars(Next)

-----------------------------------------------------------------------------

\* The loop computes ReadList for every list the kernel writes, in the
\* order of the text.
ReadsList == status = "ok" /\ tail = << >> => list = ReadList(items)

\* A damaged file is noticed, however much of it was a list, and no part of
\* it is handed out, unless it breaks off where a number has to follow and the
\* buffer has one behind the newline.  A list of the kernel is never refused,
\* and never read past its newline, whatever the buffer has behind it.
\* (A file that breaks off between two items, or in a number, is a list.)
DamageNoticed ==
    /\ status = "ok" => tail = << >>
    /\ status = "error" => tail # << >> /\ list = << >>
    /\ status = "failed" => list = << >>
    /\ status = "stale" => stale /\ tail \in {<<COMMA>>, <<DASH>>}

\* The function returns, or leaves its text.
Terminates == <>(status # "parsing")

\* The parser stays inside the text it has read.  It fails for "0-3," and
\* "0-" in front of an old number.
StaysInText == status # "stale"

\* The list read from sysfs is the set of CPUs the kernel wrote.  It fails
\* for every list that ends with a single number.
ReadsAll == status = "ok" => ToSet(list) = Meaning(items)

\* The inductive invariant of the loop: after k items it stands behind the
\* ',' that follows them, and has stored their numbers.
Piece(i) == IF i = 1 THEN ItemText(items[i]) ELSE <<COMMA>> \o ItemText(items[i])
TextTo(k) == FlattenSeq([i \in 1 .. k |-> Piece(i)])
ReadTo(k) == FlattenSeq([i \in 1 .. k |-> Counting(items[i])])
Start(k) == IF k = 0 THEN 1 ELSE Len(TextTo(k)) + 2

Passed(k) ==
    /\ pos = Start(k) /\ list = ReadTo(k)
    /\ 0 < k /\ k = Len(items) => tail = <<COMMA>>

LoopInv ==
    /\ items \in Lists
    /\ tail \in {<< >>, <<COMMA>>, <<DASH>>, <<JUNK>>}
    /\ stale \in BOOLEAN
    /\ text = Text(items) \o tail \o <<END>>
    /\ status \in {"parsing", "ok", "error", "failed", "stale"}
    /\ status = "parsing" => \E k \in 0 .. Len(items) : Passed(k)
    /\ ReadsList /\ DamageNoticed
=============================================================================
