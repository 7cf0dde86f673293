---------------------- MODULE ParseArchitectureProofs ----------------------
(***************************************************************************)
(* Proofs about parse_architecture.c.  CpuList: for every list of items,   *)
(* however long, the loop of read_file_long_list() computes ReadList, and  *)
(* it tells a damaged file from a list.  CoreNumbers: for every tree the   *)
(* renumbering makes the ids of the cores unique.  Both are about          *)
(* recursive functions (FlattenSeq, Counter), so the module starts with an *)
(* induction over the numbers.                                             *)
(***************************************************************************)
EXTENDS CpuList, CoreNumbers, SequenceTheorems, FiniteSetTheorems, FunctionTheorems,
        WellFoundedInduction, TLAPS

(* Induction for a set of numbers: a least number outside it would be      *)
(* neither 0 nor the successor of one inside.                              *)
LEMMA SetInduction ==
    ASSUME NEW S, 0 \in S, \A n \in Nat : n \in S => n + 1 \in S
    PROVE  Nat \subseteq S
<1>. DEFINE T == Nat \ S
<1>1. ASSUME T # {} PROVE FALSE
  <2>1. PICK x \in T : \A y \in T : ~(<<y, x>> \in OpToRel(<, Nat))
    BY <1>1, WFMin, NatLessThanWellFounded
  <2>2. \A y \in T : ~(y < x)
    BY <2>1 DEF OpToRel
  <2>3. x # 0 /\ x - 1 \in Nat /\ x - 1 < x
    OBVIOUS
  <2>. QED  BY <2>2, <2>3
<1>. QED  BY <1>1

-----------------------------------------------------------------------------
(***************************************************************************)
(* FlattenSeq of one more sequence is one concatenation.                   *)
(***************************************************************************)

\* The recursive function inside FlattenSeq, for the first n sequences of s.
Unfolds(f, s, n) ==
    f = [i \in 1 .. n |-> IF i = 1 THEN s[i] ELSE f[i - 1] \o s[i]]

(* FlattenSeq is the last value of the function that unfolds its argument. *)
LEMMA FlattenIsLast ==
    ASSUME NEW s, Len(s) # 0
    PROVE  FlattenSeq(s) = (CHOOSE f : Unfolds(f, s, Len(s)))[Len(s)]
BY DEF FlattenSeq, Unfolds

(* Its values, one by one.                                                 *)
Values(f, s, n) ==
    \A i \in 1 .. n : f[i] = IF i = 1 THEN s[i] ELSE f[i - 1] \o s[i]

(* The function that unfolds takes those values.                           *)
LEMMA UnfoldsAt ==
    ASSUME NEW s, NEW n, NEW f, Unfolds(f, s, n)
    PROVE  Values(f, s, n)
<1>. DEFINE h == [j \in 1 .. n |-> IF j = 1 THEN s[j] ELSE f[j - 1] \o s[j]]
<1>1. \A i \in 1 .. n : h[i] = IF i = 1 THEN s[i] ELSE f[i - 1] \o s[i]
  OBVIOUS
<1>2. f = h
  BY DEF Unfolds
<1>. HIDE DEF h
<1>3. \A i \in 1 .. n : f[i] = h[i]
  BY <1>2
<1>. QED  BY <1>1, <1>3 DEF Values

(* The last value is the one before it and one sequence more.              *)
LEMMA LastValue ==
    ASSUME NEW s, NEW n \in Nat \ {0}, NEW f, Values(f, s, n + 1)
    PROVE  f[n + 1] = f[n] \o s[n + 1]
<1>1. ASSUME NEW k, k \in 1 .. n + 1, k # 1
      PROVE  f[k] = f[k - 1] \o s[k]
  BY <1>1 DEF Values
<1>2. PICK k : k = n + 1
  OBVIOUS
<1>3. k \in 1 .. n + 1 /\ k # 1 /\ k - 1 = n
  BY <1>2
<1>4. f[k] = f[k - 1] \o s[k]
  BY <1>1, <1>3
<1>. QED  BY <1>2, <1>3, <1>4

(* There is such a function.                                               *)
LEMMA UnfoldsExists ==
    ASSUME NEW S, NEW n \in Nat, NEW s, \A i \in 1 .. n : s[i] \in Seq(S)
    PROVE  \E f \in [1 .. n -> Seq(S)] : Unfolds(f, s, n)
<1>. DEFINE G == {m \in Nat : m <= n => \E f \in [1 .. m -> Seq(S)] : Unfolds(f, s, m)}
<1>1. 0 \in G
  <2>. DEFINE f == [i \in 1 .. 0 |-> << >>]
  <2>1. f \in [1 .. 0 -> Seq(S)] /\ Unfolds(f, s, 0)
    BY DEF Unfolds
  <2>. QED  BY <2>1
<1>2. ASSUME NEW m \in Nat, m \in G PROVE m + 1 \in G
  <2>1. SUFFICES ASSUME m + 1 <= n
                 PROVE  \E f \in [1 .. m + 1 -> Seq(S)] : Unfolds(f, s, m + 1)
    OBVIOUS
  <2>2. PICK f \in [1 .. m -> Seq(S)] : Unfolds(f, s, m)
    BY <1>2, <2>1
  <2>. DEFINE new == IF m = 0 THEN s[1] ELSE f[m] \o s[m + 1]
              g == [i \in 1 .. m + 1 |-> IF i = m + 1 THEN new ELSE f[i]]
  <2>3. new \in Seq(S)
    <3>1. s[m + 1] \in Seq(S)
      BY <2>1
    <3>2. CASE m = 0
      BY <3>1, <3>2
    <3>3. CASE m # 0
      BY <3>1, <3>3, ConcatProperties
    <3>. QED  BY <3>2, <3>3
  <2>4. g \in [1 .. m + 1 -> Seq(S)]
    BY <2>3
  <2>5. ASSUME NEW i \in 1 .. m + 1
        PROVE  g[i] = IF i = 1 THEN s[i] ELSE g[i - 1] \o s[i]
    <3>1. CASE i = m + 1
      BY <3>1
    <3>2. CASE i # m + 1
      <4>1. i \in 1 .. m /\ i # m + 1 /\ i - 1 # m + 1
        BY <3>2
      <4>2. f[i] = IF i = 1 THEN s[i] ELSE f[i - 1] \o s[i]
        <5>1. Values(f, s, m)
          BY <2>2, UnfoldsAt
        <5>. QED  BY <4>1, <5>1 DEF Values
      <4>3. g[i] = f[i] /\ (i # 1 => g[i - 1] = f[i - 1])
        BY <4>1
      <4>. QED  BY <4>2, <4>3
    <3>. QED  BY <3>1, <3>2
  <2>6. Unfolds(g, s, m + 1)
    BY <2>5 DEF Unfolds
  <2>. QED  BY <2>4, <2>6
<1>. HIDE DEF G
<1>3. Nat \subseteq G
  BY <1>1, <1>2, SetInduction
<1>. QED  BY <1>3 DEF G

(* Two such functions agree wherever both are defined.                     *)
LEMMA UnfoldsUnique ==
    ASSUME NEW s, NEW m \in Nat, NEW n \in Nat, NEW f, NEW g,
           Unfolds(f, s, m), Unfolds(g, s, n), m <= n
    PROVE  \A i \in 1 .. m : f[i] = g[i]
<1>. DEFINE G == {i \in Nat : i \in 1 .. m => f[i] = g[i]}
<1>1. 0 \in G
  OBVIOUS
<1>2. ASSUME NEW i \in Nat, i \in G PROVE i + 1 \in G
  <2>1. SUFFICES ASSUME i + 1 \in 1 .. m PROVE f[i + 1] = g[i + 1]
    OBVIOUS
  <2>2. i + 1 \in 1 .. m /\ i + 1 \in 1 .. n /\ i + 1 - 1 = i
    BY <2>1
  <2>3. f[i + 1] = IF i + 1 = 1 THEN s[i + 1] ELSE f[i] \o s[i + 1]
    BY <2>2, UnfoldsAt DEF Values
  <2>4. g[i + 1] = IF i + 1 = 1 THEN s[i + 1] ELSE g[i] \o s[i + 1]
    BY <2>2, UnfoldsAt DEF Values
  <2>. QED  BY <1>2, <2>1, <2>3, <2>4
<1>. HIDE DEF G
<1>3. Nat \subseteq G
  BY <1>1, <1>2, SetInduction
<1>. QED  BY <1>3 DEF G

(* The step the loops over lists need: flattening n + 1 sequences appends  *)
(* the last of them to what the first n give.                              *)
LEMMA FlattenStep ==
    ASSUME NEW S, NEW n \in Nat, NEW s \in [1 .. n + 1 -> Seq(S)]
    PROVE  LET before == FlattenSeq([i \in 1 .. n |-> s[i]])
           IN  before \in Seq(S) /\ FlattenSeq(s) = before \o s[n + 1]
<1>. DEFINE r == [i \in 1 .. n |-> s[i]]
            F == CHOOSE f : Unfolds(f, s, n + 1)
            R == CHOOSE f : Unfolds(f, r, n)
<1>. SUFFICES FlattenSeq(r) \in Seq(S) /\ FlattenSeq(s) = FlattenSeq(r) \o s[n + 1]
  OBVIOUS
<1>1. Len(s) = n + 1 /\ Len(r) = n
  OBVIOUS
<1>2. PICK f \in [1 .. n + 1 -> Seq(S)] : Unfolds(f, s, n + 1)
  BY UnfoldsExists
<1>3. PICK g \in [1 .. n -> Seq(S)] : Unfolds(g, r, n)
  <2>1. \A i \in 1 .. n : r[i] \in Seq(S)
    OBVIOUS
  <2>. HIDE DEF r
  <2>. QED  BY <2>1, UnfoldsExists
<1>4. Unfolds(F, s, n + 1) /\ Unfolds(R, r, n)
  BY <1>2, <1>3
<1>5. FlattenSeq(s) = F[n + 1]
  BY <1>1, FlattenIsLast
<1>6. CASE n = 0
  <2>1. FlattenSeq(r) = << >>
    BY <1>1, <1>6 DEF FlattenSeq
  <2>2. F[1] = s[1]
    BY <1>4, <1>6, UnfoldsAt DEF Values
  <2>3. s[1] \in Seq(S) /\ << >> \in Seq(S)
    OBVIOUS
  <2>. HIDE DEF F, r
  <2>4. << >> \o s[1] = s[1]
    BY <2>3, ConcatEmptySeq
  <2>. QED  BY <1>5, <1>6, <2>1, <2>2, <2>3, <2>4
<1>7. CASE n # 0
  <2>1. FlattenSeq(r) = R[n]
    BY <1>1, <1>7, FlattenIsLast
  <2>2. Unfolds(R, s, n) /\ Unfolds(g, s, n)
    BY <1>3, <1>4 DEF Unfolds
  <2>3. R[n] = F[n] /\ R[n] = g[n]
    <3>. HIDE DEF F, R, r
    <3>1. R[n] = F[n]
      <4>1. \A i \in 1 .. n : R[i] = F[i]
        BY <1>4, <2>2, UnfoldsUnique
      <4>. QED  BY <1>7, <4>1
    <3>2. R[n] = g[n]
      <4>1. \A i \in 1 .. n : R[i] = g[i]
        BY <2>2, UnfoldsUnique
      <4>. QED  BY <1>7, <4>1
    <3>. QED  BY <3>1, <3>2
  <2>4. F[n + 1] = F[n] \o s[n + 1]
    <3>1. Values(F, s, n + 1)
      BY <1>4, UnfoldsAt
    <3>. HIDE DEF F
    <3>. QED  BY <1>7, <3>1, LastValue
  <2>5. g[n] \in Seq(S)
    BY <1>7
  <2>. HIDE DEF F, R, r
  <2>. QED  BY <1>5, <2>1, <2>3, <2>4, <2>5
<1>. QED  BY <1>6, <1>7

-----------------------------------------------------------------------------
(***************************************************************************)
(* The text and what is read of it, item by item.                          *)
(***************************************************************************)

(* The items are pairs of CPU numbers.                                     *)
Listed == items \in Seq(Nat \X Nat)

(* What is where in a concatenation.                                       *)
LEMMA ConcatParts ==
    ASSUME NEW S, NEW s \in Seq(S), NEW t \in Seq(S), NEW u, u = s \o t
    PROVE  /\ u \in Seq(S) /\ Len(u) = Len(s) + Len(t)
           /\ \A i \in 1 .. Len(s) : u[i] = s[i]
           /\ \A i \in 1 .. Len(t) : u[Len(s) + i] = t[i]
<1>1. Len(s) \in Nat /\ Len(t) \in Nat
  OBVIOUS
<1>. QED  BY <1>1, ConcatProperties

(* The tokens of an item: a number, or two around a DASH.                  *)
LEMMA ItemTokens ==
    ASSUME NEW item \in Nat \X Nat
    PROVE  /\ ItemText(item) \in Seq(Int)
           /\ ItemText(item)[1] = item[1]
           /\ item[1] = item[2] => Len(ItemText(item)) = 1
           /\ item[1] # item[2] => /\ Len(ItemText(item)) = 3
                                   /\ ItemText(item)[2] = DASH
                                   /\ ItemText(item)[3] = item[2]
BY DEF ItemText, DASH

(* The tokens of an item and the COMMA before it.                          *)
LEMMA PieceTokens ==
    ASSUME Listed, NEW i \in 1 .. Len(items)
    PROVE  /\ Piece(i) \in Seq(Int)
           /\ i = 1 => Piece(i) = ItemText(items[i])
           /\ i # 1 => /\ Len(Piece(i)) = Len(ItemText(items[i])) + 1
                       /\ Piece(i)[1] = COMMA
                       /\ \A j \in 1 .. Len(ItemText(items[i])) :
                              Piece(i)[j + 1] = ItemText(items[i])[j]
<1>1. items[i] \in Nat \X Nat
  BY DEF Listed
<1>2. ItemText(items[i]) \in Seq(Int)
  BY <1>1, ItemTokens
<1>3. <<COMMA>> \in Seq(Int) /\ Len(<<COMMA>>) = 1 /\ <<COMMA>>[1] = COMMA
  BY DEF COMMA
<1>. QED  BY <1>2, <1>3, ConcatProperties DEF Piece

(* The numbers an item adds to the list.                                   *)
LEMMA CountingIsSeq ==
    ASSUME NEW item \in Nat \X Nat
    PROVE  Counting(item) \in Seq(Int)
<1>. DEFINE n == IF item[2] >= item[1] THEN item[2] - item[1] + 1 ELSE 0
<1>1. n \in Nat /\ 1 .. item[2] - item[1] + 1 = 1 .. n
  OBVIOUS
<1>2. Counting(item) \in [1 .. n -> Int]
  BY <1>1 DEF Counting
<1>. HIDE DEF n
<1>. QED  BY <1>1, <1>2, SeqDef

(* The text up to item k + 1 is the text up to item k and one piece more.  *)
LEMMA TextStep ==
    ASSUME Listed, NEW k \in 0 .. Len(items) - 1
    PROVE  TextTo(k) \in Seq(Int) /\ TextTo(k + 1) = TextTo(k) \o Piece(k + 1)
<1>. DEFINE s == [i \in 1 .. k + 1 |-> Piece(i)]
<1>1. k \in Nat /\ Len(items) \in Nat
  BY DEF Listed
<1>2. s \in [1 .. k + 1 -> Seq(Int)]
  BY <1>1, PieceTokens
<1>3. [i \in 1 .. k |-> s[i]] = [i \in 1 .. k |-> Piece(i)] /\ s[k + 1] = Piece(k + 1)
  BY <1>1
<1>. HIDE DEF s
<1>4. /\ FlattenSeq([i \in 1 .. k |-> s[i]]) \in Seq(Int)
      /\ FlattenSeq(s) = FlattenSeq([i \in 1 .. k |-> s[i]]) \o s[k + 1]
  BY <1>1, <1>2, FlattenStep
<1>. QED  BY <1>3, <1>4 DEF TextTo, s

(* The same for the list that is read of it.                               *)
LEMMA ReadStep ==
    ASSUME Listed, NEW k \in 0 .. Len(items) - 1
    PROVE  /\ ReadTo(k) \in Seq(Int)
           /\ ReadTo(k + 1) = ReadTo(k) \o Counting(items[k + 1])
<1>. DEFINE s == [i \in 1 .. k + 1 |-> Counting(items[i])]
<1>1. k \in Nat /\ Len(items) \in Nat
  BY DEF Listed
<1>2. ASSUME NEW i \in 1 .. k + 1 PROVE Counting(items[i]) \in Seq(Int)
  <2>1. items[i] \in Nat \X Nat
    BY <1>1 DEF Listed
  <2>. QED  BY <2>1, CountingIsSeq
<1>3. s \in [1 .. k + 1 -> Seq(Int)]
  BY <1>2
<1>4. /\ [i \in 1 .. k |-> s[i]] = [i \in 1 .. k |-> Counting(items[i])]
      /\ s[k + 1] = Counting(items[k + 1])
  BY <1>1
<1>. HIDE DEF s
<1>5. /\ FlattenSeq([i \in 1 .. k |-> s[i]]) \in Seq(Int)
      /\ FlattenSeq(s) = FlattenSeq([i \in 1 .. k |-> s[i]]) \o s[k + 1]
  BY <1>1, <1>3, FlattenStep
<1>. QED  BY <1>4, <1>5 DEF ReadTo, s

(* Before the first item both are empty, and behind the last one they are  *)
(* the text and the numbers of all items.                                  *)
LEMMA TextEnds ==
    ASSUME Listed
    PROVE  /\ TextTo(0) = << >> /\ ReadTo(0) = << >>
           /\ TextTo(Len(items)) = Text(items)
           /\ TextTo(Len(items)) \in Seq(Int)
<1>1. TextTo(0) = << >> /\ ReadTo(0) = << >>
  BY DEF FlattenSeq, TextTo, ReadTo
<1>2. TextTo(Len(items)) = Text(items)
  <2>1. DOMAIN items = 1 .. Len(items)
    BY DEF Listed
  <2>. QED  BY <2>1, Zenon DEF TextTo, Text, Piece
<1>3. TextTo(Len(items)) \in Seq(Int)
  <2>1. CASE Len(items) = 0
    <3>1. << >> \in Seq(Int)
      OBVIOUS
    <3>. QED  BY <1>1, <2>1, <3>1, Zenon
  <2>2. CASE Len(items) # 0
    <3>. DEFINE k == Len(items) - 1
    <3>1. k \in 0 .. Len(items) - 1 /\ k + 1 = Len(items) /\ k + 1 \in 1 .. Len(items)
      BY <2>2 DEF Listed
    <3>2. TextTo(k) \in Seq(Int) /\ TextTo(k + 1) = TextTo(k) \o Piece(k + 1)
      BY <3>1, TextStep
    <3>3. Piece(k + 1) \in Seq(Int)
      BY <3>1, PieceTokens
    <3>. QED  BY <3>1, <3>2, <3>3, ConcatProperties
  <2>. QED  BY <2>1, <2>2
<1>. QED  BY <1>1, <1>2, <1>3

(* What has been read up to an item stays where it is.                     *)
LEMMA TextPrefix ==
    ASSUME Listed, NEW k \in 0 .. Len(items)
    PROVE  /\ TextTo(k) \in Seq(Int)
           /\ Len(TextTo(k)) <= Len(TextTo(Len(items)))
           /\ \A i \in 1 .. Len(TextTo(k)) : TextTo(Len(items))[i] = TextTo(k)[i]
<1>. DEFINE Extends(m) == /\ TextTo(m) \in Seq(Int)
                          /\ Len(TextTo(k)) <= Len(TextTo(m))
                          /\ \A i \in 1 .. Len(TextTo(k)) : TextTo(m)[i] = TextTo(k)[i]
            G == {d \in Nat : k + d <= Len(items) => Extends(k + d)}
<1>1. k \in Nat /\ Len(items) \in Nat /\ k <= Len(items)
  BY DEF Listed
<1>2. TextTo(k) \in Seq(Int)
  <2>1. CASE k = Len(items)
    BY <2>1, TextEnds
  <2>2. CASE k # Len(items)
    <3>1. k \in 0 .. Len(items) - 1
      BY <1>1, <2>2
    <3>. QED  BY <3>1, TextStep
  <2>. QED  BY <2>1, <2>2
<1>3. 0 \in G
  <2>1. k + 0 = k
    BY <1>1
  <2>2. Extends(k)
    BY <1>2, LenProperties
  <2>. QED  BY <2>1, <2>2
<1>4. ASSUME NEW d \in Nat, d \in G PROVE d + 1 \in G
  <2>1. SUFFICES ASSUME k + (d + 1) <= Len(items) PROVE Extends(k + (d + 1))
    OBVIOUS
  <2>. DEFINE m == k + d
  <2>2. m \in 0 .. Len(items) - 1 /\ m + 1 \in 1 .. Len(items) /\ k + (d + 1) = m + 1
    BY <1>1, <2>1
  <2>3. Extends(m)
    BY <1>1, <1>4, <2>1
  <2>4. TextTo(m) \in Seq(Int) /\ TextTo(m + 1) = TextTo(m) \o Piece(m + 1)
    BY <2>2, TextStep
  <2>5. Piece(m + 1) \in Seq(Int)
    BY <2>2, PieceTokens
  <2>6. /\ TextTo(m + 1) \in Seq(Int)
        /\ Len(TextTo(m + 1)) = Len(TextTo(m)) + Len(Piece(m + 1))
        /\ \A i \in 1 .. Len(TextTo(m)) : TextTo(m + 1)[i] = TextTo(m)[i]
    <3>. HIDE DEF m
    <3>. DEFINE u == TextTo(m + 1)
                a == TextTo(m)
                b == Piece(m + 1)
    <3>1. a \in Seq(Int) /\ b \in Seq(Int) /\ u = a \o b
      BY <2>4, <2>5
    <3>. HIDE DEF u, a, b
    <3>2. /\ u \in Seq(Int) /\ Len(u) = Len(a) + Len(b)
          /\ \A i \in 1 .. Len(a) : u[i] = a[i]
      BY <3>1, ConcatParts
    <3>. QED  BY <3>2 DEF u, a, b
  <2>7. /\ Len(TextTo(m)) \in Nat /\ Len(Piece(m + 1)) \in Nat
        /\ Len(TextTo(k)) \in Nat
    BY <1>2, <2>4, <2>5, LenProperties
  <2>8. Extends(m + 1)
    <3>. HIDE DEF m
    <3>. QED  BY <2>3, <2>6, <2>7
  <2>. QED  BY <2>2, <2>8
<1>. HIDE DEF G
<1>5. Nat \subseteq G
  BY <1>3, <1>4, SetInduction
<1>6. Len(items) - k \in Nat /\ k + (Len(items) - k) = Len(items)
  BY <1>1
<1>7. Extends(Len(items))
  <2>1. Len(items) - k \in G /\ k + (Len(items) - k) <= Len(items)
    BY <1>1, <1>5, <1>6
  <2>. HIDE DEF Extends
  <2>2. Extends(k + (Len(items) - k))
    BY <2>1 DEF G
  <2>. QED  BY <1>6, <2>2, Zenon
<1>. QED  BY <1>2, <1>7

(* Where item k + 1 is in the text, and that the next one starts behind    *)
(* the token that follows it.                                              *)
LEMMA ItemInText ==
    ASSUME Listed, NEW k \in 0 .. Len(items) - 1
    PROVE  LET w == Len(ItemText(items[k + 1])) IN
           /\ Start(k) \in Nat \ {0}
           /\ Len(TextTo(k + 1)) = Start(k) + w - 1
           /\ Start(k + 1) = Start(k) + w + 1
           /\ \A j \in 1 .. w :
                  TextTo(k + 1)[Start(k) + j - 1] = ItemText(items[k + 1])[j]
<1>. DEFINE T == ItemText(items[k + 1])
            B == TextTo(k)
            P == Piece(k + 1)
<1>1. k \in Nat /\ k + 1 \in 1 .. Len(items) /\ k + 1 # 0 /\ items[k + 1] \in Nat \X Nat
  BY DEF Listed
<1>2. T \in Seq(Int) /\ Len(T) \in Nat
  BY <1>1, ItemTokens, LenProperties
<1>3. B \in Seq(Int) /\ TextTo(k + 1) = B \o P
  BY TextStep
<1>4. /\ P \in Seq(Int)
      /\ k = 0 => P = T
      /\ k # 0 => /\ Len(P) = Len(T) + 1
                  /\ \A j \in 1 .. Len(T) : P[j + 1] = T[j]
  BY <1>1, PieceTokens
<1>5. Len(B) \in Nat /\ Len(P) \in Nat
  BY <1>3, <1>4, LenProperties
<1>6. Start(k + 1) = Len(TextTo(k + 1)) + 2
  BY <1>1 DEF Start
<1>. HIDE DEF T, P
<1>7. CASE k = 0
  <2>1. B = << >> /\ P = T
    BY <1>4, <1>7, TextEnds
  <2>2. TextTo(k + 1) = T
    BY <1>2, <1>3, <2>1, ConcatEmptySeq
  <2>3. Start(k) = 1
    BY <1>7 DEF Start
  <2>. QED  BY <1>2, <1>6, <2>2, <2>3 DEF T
<1>8. CASE k # 0
  <2>1. Start(k) = Len(B) + 2
    BY <1>8 DEF Start
  <2>. HIDE DEF B
  <2>2. /\ Len(TextTo(k + 1)) = Len(B) + Len(P)
        /\ \A i \in 1 .. Len(P) : TextTo(k + 1)[Len(B) + i] = P[i]
    BY <1>3, <1>4, ConcatParts
  <2>3. Len(P) = Len(T) + 1
    BY <1>4, <1>8
  <2>4. ASSUME NEW j \in 1 .. Len(T) PROVE TextTo(k + 1)[Start(k) + j - 1] = T[j]
    <3>1. Start(k) + j - 1 = Len(B) + (j + 1) /\ j + 1 \in 1 .. Len(P)
      BY <1>2, <1>5, <2>1, <2>3
    <3>2. P[j + 1] = T[j]
      BY <1>4, <1>8
    <3>3. TextTo(k + 1)[Len(B) + (j + 1)] = P[j + 1]
      BY <2>2, <3>1
    <3>. QED  BY <3>1, <3>2, <3>3
  <2>5. /\ Start(k) \in Nat \ {0}
        /\ Len(TextTo(k + 1)) = Start(k) + Len(T) - 1
        /\ Start(k + 1) = Start(k) + Len(T) + 1
    <3>1. Len(TextTo(k + 1)) = Len(B) + (Len(T) + 1)
      BY <2>2, <2>3
    <3>2. Start(k) \in Nat \ {0} /\ Len(B) = Start(k) - 2
      BY <1>5, <2>1
    <3>3. Len(TextTo(k + 1)) = Start(k) + Len(T) - 1
      BY <1>2, <3>1, <3>2
    <3>4. Start(k + 1) = Start(k) + Len(T) + 1
      BY <1>2, <1>6, <3>2, <3>3
    <3>. QED  BY <3>2, <3>3, <3>4
  <2>. QED  BY <2>4, <2>5 DEF T
<1>. QED  BY <1>7, <1>8

(* The text behind the items: what follows them in a damaged file, and the *)
(* end.                                                                    *)
Held ==
    /\ Listed
    /\ tail \in {<< >>, <<COMMA>>, <<DASH>>, <<JUNK>>}
    /\ text = Text(items) \o tail \o <<END>>

(* A token is one of the items, of the tail, or the END.                   *)
LEMMA TextTail ==
    ASSUME Held
    PROVE  LET n == Len(TextTo(Len(items))) IN
           /\ n \in Nat
           /\ \A i \in 1 .. n : Token(i) = TextTo(Len(items))[i] /\ i \in DOMAIN text
           /\ n + 1 \in DOMAIN text
           /\ tail = << >> => Token(n + 1) = END
           /\ tail # << >> => Token(n + 1) = tail[1] /\ Token(n + 2) = END
<1>. DEFINE A == TextTo(Len(items))
            n == Len(A)
            b == A \o tail
<1>1. A \in Seq(Int) /\ A = Text(items)
  BY TextEnds DEF Held
<1>2. n \in Nat
  BY <1>1, LenProperties
<1>3. tail \in Seq(Int) /\ (tail = << >> \/ Len(tail) = 1)
  <2>1. tail = << >> \/ \E c \in Int : tail = <<c>>
    <3>1. COMMA \in Int /\ DASH \in Int /\ JUNK \in Int
      BY DEF COMMA, DASH, JUNK
    <3>. QED  BY <3>1 DEF Held
  <2>2. CASE tail = << >>
    BY <2>2
  <2>3. ASSUME NEW c \in Int, tail = <<c>> PROVE tail \in Seq(Int) /\ Len(tail) = 1
    BY <2>3
  <2>. QED  BY <2>1, <2>2, <2>3
<1>4. <<END>> \in Seq(Int) /\ Len(<<END>>) = 1 /\ <<END>>[1] = END
  BY DEF END
<1>5. text = b \o <<END>>
  BY <1>1 DEF Held
<1>. HIDE DEF A
<1>6. /\ b \in Seq(Int) /\ Len(b) = n + Len(tail)
      /\ \A i \in 1 .. n : b[i] = A[i]
      /\ \A i \in 1 .. Len(tail) : b[n + i] = tail[i]
  BY <1>1, <1>3, ConcatParts
<1>. HIDE DEF b, n
<1>7. /\ text \in Seq(Int) /\ Len(text) = Len(b) + 1
      /\ \A i \in 1 .. Len(b) : text[i] = b[i]
      /\ text[Len(b) + 1] = END
  <2>. DEFINE e == <<END>>
  <2>1. e \in Seq(Int) /\ Len(e) = 1 /\ e[1] = END /\ text = b \o e
    BY <1>4, <1>5
  <2>. HIDE DEF e
  <2>2. /\ text \in Seq(Int) /\ Len(text) = Len(b) + Len(e)
        /\ \A i \in 1 .. Len(b) : text[i] = b[i]
        /\ \A i \in 1 .. Len(e) : text[Len(b) + i] = e[i]
    <3>1. b \in Seq(Int)
      BY <1>6
    <3>2. e \in Seq(Int) /\ text = b \o e
      BY <2>1
    <3>. QED  BY <3>1, <3>2, ConcatParts
  <2>. QED  BY <2>1, <2>2
<1>8. Len(tail) \in Nat /\ DOMAIN text = 1 .. Len(b) + 1
  BY <1>3, <1>7
<1>9. ASSUME NEW i \in 1 .. n PROVE Token(i) = A[i] /\ i \in DOMAIN text
  <2>1. i \in 1 .. Len(b) /\ i \in 1 .. Len(b) + 1
    BY <1>2, <1>6, <1>8
  <2>2. text[i] = b[i] /\ b[i] = A[i] /\ i \in DOMAIN text
    BY <1>6, <1>7, <1>8, <2>1
  <2>. QED  BY <2>2 DEF Token
<1>10. n + 1 \in DOMAIN text
  BY <1>2, <1>6, <1>8
<1>11. ASSUME tail = << >> PROVE Token(n + 1) = END
  <2>1. Len(b) = n
    BY <1>2, <1>6, <1>11
  <2>. QED  BY <1>7, <1>10, <2>1 DEF Token
<1>12. ASSUME tail # << >> PROVE Token(n + 1) = tail[1] /\ Token(n + 2) = END
  <2>1. Len(tail) = 1 /\ Len(b) = n + 1 /\ n + 1 \in 1 .. Len(b)
    <3>1. Len(tail) = 1
      BY <1>3, <1>12
    <3>2. Len(b) = n + 1
      BY <1>6, <3>1
    <3>. QED  BY <1>2, <3>1, <3>2
  <2>2. text[n + 1] = b[n + 1] /\ b[n + 1] = tail[1]
    BY <1>6, <1>7, <2>1
  <2>3. n + 2 = Len(b) + 1 /\ n + 2 \in DOMAIN text
    BY <1>2, <1>8, <2>1
  <2>4. text[n + 2] = END
    BY <1>7, <2>3
  <2>. QED  BY <1>10, <2>2, <2>3, <2>4 DEF Token
<1>. QED  BY <1>2, <1>9, <1>10, <1>11, <1>12 DEF n, A

(* The token behind item k: the ',' before the next one, or what follows   *)
(* the last one.                                                           *)
Behind(k, c) ==
    /\ k < Len(items) => c = COMMA
    /\ k = Len(items) => c = IF tail = << >> THEN END ELSE tail[1]

(* strtol() finds no number at a separator, at other text, or at the end.  *)
LEMMA NotNumber ==
    ASSUME NEW i, Token(i) \in {COMMA, DASH, JUNK, END}
    PROVE  ~Number(i)
BY DEF Number, Token, COMMA, DASH, JUNK, END

(* What the loop finds at item k + 1.                                      *)
LEMMA AtItem ==
    ASSUME Held, NEW k \in 0 .. Len(items) - 1, pos = Start(k)
    PROVE  LET item == items[k + 1] IN
           /\ item \in Nat \X Nat
           /\ pos \in Nat \ {0}
           /\ Number(pos) /\ Token(pos) = item[1]
           /\ item[1] = item[2] =>
                  /\ Behind(k + 1, Token(pos + 1)) /\ Start(k + 1) = pos + 2
                  /\ k + 1 = Len(items) /\ tail # << >> => Token(pos + 2) = END
           /\ item[1] # item[2] =>
                  /\ Token(pos + 1) = DASH
                  /\ Number(pos + 2) /\ Token(pos + 2) = item[2]
                  /\ Behind(k + 1, Token(pos + 3)) /\ Start(k + 1) = pos + 4
<1>. DEFINE item == items[k + 1]
            T == ItemText(item)
            w == Len(T)
            A == TextTo(Len(items))
            B == TextTo(k + 1)
<1>1. /\ Listed /\ item \in Nat \X Nat
      /\ k \in Nat /\ k + 1 \in 1 .. Len(items) /\ k + 1 \in 0 .. Len(items)
      /\ Len(items) \in Nat
  BY DEF Held, Listed
<1>2. /\ pos \in Nat \ {0}
      /\ Len(B) = pos + w - 1
      /\ Start(k + 1) = pos + w + 1
      /\ \A j \in 1 .. w : B[pos + j - 1] = T[j]
  BY <1>1, ItemInText
<1>3. /\ T[1] = item[1]
      /\ item[1] = item[2] => w = 1
      /\ item[1] # item[2] => w = 3 /\ T[2] = DASH /\ T[3] = item[2]
  BY <1>1, ItemTokens
<1>4. /\ B \in Seq(Int) /\ Len(B) <= Len(A)
      /\ \A i \in 1 .. Len(B) : A[i] = B[i]
  BY <1>1, TextPrefix
<1>5. /\ Len(A) \in Nat
      /\ \A i \in 1 .. Len(A) : Token(i) = A[i] /\ i \in DOMAIN text
      /\ tail = << >> => Token(Len(A) + 1) = END
      /\ tail # << >> => Token(Len(A) + 1) = tail[1] /\ Token(Len(A) + 2) = END
  BY TextTail
<1>6. w \in Nat \ {0}
  BY <1>3
<1>7. ASSUME NEW j \in 1 .. w
      PROVE  Token(pos + j - 1) = T[j] /\ pos + j - 1 \in DOMAIN text
  <2>1. pos + j - 1 \in 1 .. Len(B)
    <3>1. pos \in Nat \ {0} /\ Len(B) = pos + w - 1
      BY <1>2
    <3>. HIDE DEF B, w
    <3>. QED  BY <1>6, <3>1
  <2>2. pos + j - 1 \in 1 .. Len(A)
    BY <1>4, <1>5, <2>1
  <2>3. A[pos + j - 1] = B[pos + j - 1]
    BY <1>4, <2>1
  <2>4. Token(pos + j - 1) = A[pos + j - 1] /\ pos + j - 1 \in DOMAIN text
    BY <1>5, <2>2
  <2>. QED  BY <1>2, <2>3, <2>4
<1>8. Behind(k + 1, Token(pos + w))
  <2>1. pos + w = Len(B) + 1
    <3>1. pos \in Nat \ {0} /\ Len(B) = pos + w - 1
      BY <1>2
    <3>. HIDE DEF B, w
    <3>. QED  BY <1>6, <3>1
  <2>2. CASE k + 1 = Len(items)
    <3>1. Token(pos + w) = Token(Len(A) + 1)
      BY <2>1, <2>2
    <3>. QED  BY <1>5, <2>2, <3>1 DEF Behind
  <2>3. CASE k + 1 # Len(items)
    <3>. DEFINE C == TextTo(k + 1 + 1)
                P == Piece(k + 1 + 1)
    <3>1. /\ k + 1 \in 0 .. Len(items) - 1 /\ k + 1 + 1 \in 1 .. Len(items)
          /\ k + 1 + 1 \in 0 .. Len(items) /\ k + 1 + 1 # 1 /\ k + 1 < Len(items)
      BY <1>1, <2>3
    <3>2. C = B \o P
      BY <1>1, <3>1, TextStep
    <3>3. P \in Seq(Int) /\ P[1] = COMMA /\ 1 \in 1 .. Len(P)
      <4>1. items[k + 1 + 1] \in Nat \X Nat
        BY <1>1, <3>1 DEF Listed
      <4>2. Len(ItemText(items[k + 1 + 1])) \in Nat
        BY <4>1, ItemTokens
      <4>3. /\ P \in Seq(Int) /\ P[1] = COMMA
            /\ Len(P) = Len(ItemText(items[k + 1 + 1])) + 1
        BY <1>1, <3>1, PieceTokens
      <4>. HIDE DEF P
      <4>. QED  BY <4>2, <4>3
    <3>4. /\ C \in Seq(Int) /\ Len(C) <= Len(A)
          /\ \A i \in 1 .. Len(C) : A[i] = C[i]
      BY <1>1, <3>1, TextPrefix
    <3>. HIDE DEF A, B, C, P
    <3>5. Len(C) = Len(B) + Len(P) /\ \A i \in 1 .. Len(P) : C[Len(B) + i] = P[i]
      BY <1>4, <3>2, <3>3, ConcatParts
    <3>6. C[Len(B) + 1] = COMMA
      BY <3>3, <3>5
    <3>7. Len(B) + 1 \in 1 .. Len(C)
      BY <1>4, <3>3, <3>5
    <3>8. Len(B) + 1 \in 1 .. Len(A)
      BY <1>5, <3>4, <3>7
    <3>9. Token(Len(B) + 1) = COMMA
      BY <1>5, <3>4, <3>6, <3>7, <3>8
    <3>. QED  BY <2>1, <3>1, <3>9 DEF Behind
  <2>. QED  BY <2>2, <2>3
<1>. HIDE DEF item, T, w
<1>9. 1 \in 1 .. w /\ pos + 1 - 1 = pos
  BY <1>2, <1>6
<1>10. Token(pos) = item[1] /\ pos \in DOMAIN text
  BY <1>3, <1>7, <1>9
<1>11. Number(pos)
  BY <1>1, <1>10 DEF Number, Token
<1>12. ASSUME item[1] = item[2]
       PROVE  /\ Behind(k + 1, Token(pos + 1)) /\ Start(k + 1) = pos + 2
              /\ k + 1 = Len(items) /\ tail # << >> => Token(pos + 2) = END
  <2>1. w = 1
    BY <1>3, <1>12
  <2>2. ASSUME k + 1 = Len(items), tail # << >> PROVE Token(pos + 2) = END
    <3>1. Len(A) = pos
      BY <1>2, <2>1, <2>2
    <3>. QED  BY <1>5, <2>2, <3>1
  <2>. QED  BY <1>2, <1>8, <2>1, <2>2
<1>13. ASSUME item[1] # item[2]
       PROVE  /\ Token(pos + 1) = DASH
              /\ Number(pos + 2) /\ Token(pos + 2) = item[2]
              /\ Behind(k + 1, Token(pos + 3)) /\ Start(k + 1) = pos + 4
  <2>1. w = 3 /\ T[2] = DASH /\ T[3] = item[2]
    BY <1>3, <1>13
  <2>2. Behind(k + 1, Token(pos + 3)) /\ Start(k + 1) = pos + 4
    BY <1>2, <1>8, <2>1
  <2>3. /\ 2 \in 1 .. w /\ 3 \in 1 .. w
        /\ pos + 2 - 1 = pos + 1 /\ pos + 3 - 1 = pos + 2
    BY <1>2, <2>1
  <2>4. Token(pos + 1) = DASH
    BY <1>7, <2>1, <2>3
  <2>5. Token(pos + 2) = item[2] /\ pos + 2 \in DOMAIN text
    BY <1>7, <2>1, <2>3
  <2>6. Number(pos + 2)
    BY <1>1, <2>5 DEF Number, Token
  <2>. QED  BY <2>2, <2>4, <2>5, <2>6
<1>. QED  BY <1>1, <1>2, <1>10, <1>11, <1>12, <1>13 DEF item

(* Behind the last item, when the loop gets there, is the end.             *)
LEMMA AtEnd ==
    ASSUME Held, Passed(Len(items))
    PROVE  /\ ~Number(pos)
           /\ pos = 1 => Len(items) = 0
           /\ pos = 1 /\ Token(1) = END => tail = << >>
           /\ ~(pos = 1 /\ Token(1) = END) => tail # << >>
<1>. DEFINE A == TextTo(Len(items))
<1>1. /\ Len(A) \in Nat
      /\ tail = << >> => Token(Len(A) + 1) = END
      /\ tail # << >> => Token(Len(A) + 1) = tail[1] /\ Token(Len(A) + 2) = END
  BY TextTail
<1>2. Len(items) \in Nat /\ pos = Start(Len(items))
  BY DEF Held, Listed, Passed
<1>3. tail # << >> => tail[1] \in {COMMA, DASH, JUNK}
  BY DEF Held
<1>4. END \notin {COMMA, DASH, JUNK}
  BY DEF COMMA, DASH, JUNK, END
<1>5. CASE Len(items) = 0
  <2>1. Len(A) = 0
    BY <1>5, TextEnds DEF Held
  <2>2. pos = 1
    BY <1>2, <1>5 DEF Start
  <2>3. /\ tail = << >> => Token(1) = END
        /\ tail # << >> => Token(1) = tail[1]
    BY <1>1, <2>1
  <2>4. Token(1) \in {END, COMMA, DASH, JUNK} /\ (Token(1) = END <=> tail = << >>)
    BY <1>3, <1>4, <2>3
  <2>5. ~Number(1)
    BY <2>4, NotNumber
  <2>. QED  BY <1>5, <2>2, <2>4, <2>5
<1>6. CASE Len(items) # 0
  <2>1. tail = <<COMMA>>
    BY <1>2, <1>6 DEF Passed
  <2>2. tail # << >>
    BY <2>1
  <2>3. pos = Len(A) + 2
    BY <1>2, <1>6 DEF Start
  <2>4. Token(pos) = END
    BY <1>1, <2>2, <2>3
  <2>5. ~Number(pos)
    BY <2>4, NotNumber
  <2>6. pos # 1
    BY <1>1, <2>3
  <2>. QED  BY <2>2, <2>5, <2>6
<1>. QED  BY <1>5, <1>6

(* ReadList in terms of the loop: all items, or all but a last single one. *)
LEMMA ReadListIs ==
    ASSUME Listed
    PROVE  LET n == Len(items) IN
           ReadList(items) =
               IF n # 0 /\ items[n][1] = items[n][2] THEN ReadTo(n - 1) ELSE ReadTo(n)
<1>. DEFINE n == Len(items)
<1>1. n \in Nat /\ DOMAIN items = 1 .. n /\ (items = << >> <=> n = 0)
  BY EmptySeq DEF Listed
<1>2. CASE n # 0 /\ items[n][1] = items[n][2]
  <2>1. Stored(items) = SubSeq(items, 1, n - 1)
    BY <1>1, <1>2 DEF Stored, Last, Front
  <2>2. DOMAIN SubSeq(items, 1, n - 1) = 1 .. n - 1
    BY <1>1, <1>2 DEF Listed
  <2>. HIDE DEF n
  <2>. QED  BY <1>2, <2>1, <2>2, Zenon DEF ReadList, ReadTo, n
<1>3. CASE ~(n # 0 /\ items[n][1] = items[n][2])
  <2>1. Stored(items) = items
    BY <1>1, <1>3 DEF Stored, Last
  <2>2. ReadList(items) = ReadTo(n)
    BY <1>1, <2>1, Zenon DEF ReadList, ReadTo
  <2>. QED  BY <1>3, <2>2
<1>. QED  BY <1>2, <1>3

(* Only items matters for where an item is and what was read.              *)
LEMMA Frozen ==
    ASSUME UNCHANGED items
    PROVE  /\ \A k : Start(k)' = Start(k) /\ ReadTo(k)' = ReadTo(k)
           /\ Text(items)' = Text(items) /\ ReadList(items)' = ReadList(items)
<1>1. ASSUME NEW k PROVE TextTo(k)' = TextTo(k)
  BY Zenon DEF TextTo, Piece
<1>2. ASSUME NEW k PROVE ReadTo(k)' = ReadTo(k)
  BY Zenon DEF ReadTo
<1>. QED  BY <1>1, <1>2 DEF Start

-----------------------------------------------------------------------------
(***************************************************************************)
(* The invariant of the loop.                                              *)
(***************************************************************************)

(* No item is passed at the beginning.                                     *)
LEMMA InitInv == Init => LoopInv
<1>. SUFFICES ASSUME Init PROVE LoopInv
  OBVIOUS
<1>1. Listed /\ 0 \in 0 .. Len(items)
  BY ListsAssumption DEF Init, Listed
<1>2. Passed(0)
  BY <1>1, TextEnds DEF Init, Passed, Start
<1>. QED  BY <1>1, <1>2 DEF Init, LoopInv, ReadsList, DamageNoticed

(* What the lemmas on the text need.                                       *)
LEMMA InvHeld == LoopInv => Held
BY ListsAssumption DEF LoopInv, Held, Listed

(* A step that goes on or returns a list, in terms of items.               *)
LEMMA GoesOn ==
    ASSUME LoopInv, UNCHANGED <<file, status>>, status = "parsing",
           NEW k \in 0 .. Len(items), Start(k) = pos', ReadTo(k) = list',
           0 < k /\ k = Len(items) => tail = <<COMMA>>
    PROVE  LoopInv'
<1>1. Passed(k)' /\ Text(items)' = Text(items)
  BY Frozen DEF Passed, file
<1>. QED  BY <1>1 DEF LoopInv, ReadsList, DamageNoticed, file

(* A return with a list, one without, and the step out of the text.        *)
LEMMA Returns ==
    ASSUME LoopInv, UNCHANGED file, status' = "ok",
           tail = << >>, list' = ReadList(items)
    PROVE  LoopInv'
<1>1. ReadList(items)' = ReadList(items) /\ Text(items)' = Text(items)
  BY Frozen DEF file
<1>. QED  BY <1>1 DEF LoopInv, ReadsList, DamageNoticed, file

LEMMA Fails ==
    ASSUME LoopInv, UNCHANGED file, status' = "error",
           tail # << >>, list' = << >>
    PROVE  LoopInv'
<1>1. Text(items)' = Text(items)
  BY Frozen DEF file
<1>. QED  BY <1>1 DEF LoopInv, ReadsList, DamageNoticed, file

LEMMA Leaves ==
    ASSUME LoopInv, UNCHANGED file,
           \/ status' = "failed" /\ list' = << >>
           \/ status' = "stale" /\ stale /\ tail \in {<<COMMA>>, <<DASH>>}
    PROVE  LoopInv'
<1>1. Text(items)' = Text(items)
  BY Frozen DEF file
<1>. QED  BY <1>1 DEF LoopInv, ReadsList, DamageNoticed, file

(* One case for every way through the loop: no items, a number before a    *)
(* COMMA, a number at the end, a range, text that is no list, bytes that   *)
(* are no text, and a call that fails.                                     *)
LEMMA NextInv == LoopInv /\ [Next]_vars => LoopInv'
<1>. SUFFICES ASSUME LoopInv, [Next]_vars PROVE LoopInv'
  OBVIOUS
<1>1. Held /\ Listed /\ Len(items) \in Nat
  BY InvHeld DEF Held, Listed
<1>2. CASE UNCHANGED vars
  <2>1. \A k : Passed(k)' <=> Passed(k)
    BY <1>2, Frozen DEF vars, file, Passed
  <2>2. ReadList(items)' = ReadList(items) /\ Text(items)' = Text(items)
    BY <1>2, Frozen DEF vars, file
  <2>. QED  BY <1>2, <2>1, <2>2 DEF vars, file, LoopInv, ReadsList, DamageNoticed
<1>. SUFFICES ASSUME Next PROVE LoopInv'
  BY <1>2
<1>3. status = "parsing"
  BY DEF Next, CallFails, Empty, AddSingle, EndAfterNumber, AddRange, RunsOn, Fail
<1>4. PICK k \in 0 .. Len(items) : Passed(k)
  BY <1>3 DEF LoopInv
<1>5. pos = Start(k) /\ list = ReadTo(k)
  BY <1>4 DEF Passed
<1>6. k = Len(items) =>
         /\ ~Number(pos)
         /\ pos = 1 => Len(items) = 0
         /\ pos = 1 /\ Token(1) = END => tail = << >>
         /\ ~(pos = 1 /\ Token(1) = END) => tail # << >>
  BY <1>1, <1>4, AtEnd
<1>. DEFINE item == items[k + 1]
<1>7. k # Len(items) =>
         /\ item \in Nat \X Nat /\ pos \in Nat \ {0}
         /\ Number(pos) /\ Token(pos) = item[1]
         /\ item[1] = item[2] =>
                /\ Behind(k + 1, Token(pos + 1)) /\ Start(k + 1) = pos + 2
                /\ k + 1 = Len(items) /\ tail # << >> => Token(pos + 2) = END
         /\ item[1] # item[2] =>
                /\ Token(pos + 1) = DASH
                /\ Number(pos + 2) /\ Token(pos + 2) = item[2]
                /\ Behind(k + 1, Token(pos + 3)) /\ Start(k + 1) = pos + 4
  <2>. SUFFICES ASSUME k # Len(items)
                PROVE  k \in 0 .. Len(items) - 1 /\ pos = Start(k)
    BY <1>1, AtItem
  <2>. QED  BY <1>1, <1>5
<1>8. k # Len(items) =>
         /\ k + 1 \in 0 .. Len(items) /\ k + 1 \in Nat \ {0} /\ k + 1 - 1 = k
         /\ list \in Seq(Int) /\ ReadTo(k + 1) = list \o Counting(item)
  <2>. SUFFICES ASSUME k # Len(items)
                PROVE  /\ k + 1 \in 0 .. Len(items) /\ k + 1 \in Nat \ {0}
                       /\ k + 1 - 1 = k /\ k \in 0 .. Len(items) - 1
    BY <1>1, <1>5, ReadStep
  <2>. QED  BY <1>1
<1>9. /\ COMMA # DASH /\ COMMA # END /\ COMMA # JUNK
      /\ DASH # END /\ DASH # JUNK /\ JUNK # END
  BY DEF COMMA, DASH, JUNK, END
<1>10. tail = << >> \/ \E c \in {COMMA, DASH, JUNK} : tail = <<c>> /\ tail[1] = c
  BY DEF LoopInv
<1>. HIDE DEF item
<1>11. CASE Empty
  <2>1. pos = 1 /\ Token(1) = END /\ ~Number(pos)
    BY <1>11, NotNumber DEF Empty
  <2>2. k = Len(items) /\ Len(items) = 0 /\ tail = << >>
    BY <1>6, <1>7, <2>1
  <2>3. list' = ReadList(items)
    BY <1>1, <1>5, <1>11, <2>2, ReadListIs DEF Empty
  <2>. QED  BY <1>11, <2>2, <2>3, Returns DEF Empty
<1>12. CASE AddSingle
  <2>1. Number(pos) /\ k # Len(items) /\ Token(pos + 1) = COMMA
    BY <1>6, <1>12 DEF AddSingle
  <2>2. item[1] = item[2] /\ Start(k + 1) = pos + 2 /\ Behind(k + 1, COMMA)
    BY <1>7, <1>9, <2>1
  <2>3. k + 1 = Len(items) => tail = <<COMMA>>
    BY <1>9, <1>10, <2>2 DEF Behind
  <2>4. Counting(item) = <<item[1]>>
    <3>1. item[2] - item[1] + 1 = 1 /\ item[1] \in Nat
      BY <1>7, <2>1, <2>2
    <3>. QED  BY <3>1 DEF Counting
  <2>5. list' = ReadTo(k + 1)
    <3>1. list' = Append(list, item[1]) /\ item[1] \in Int
      BY <1>7, <1>12, <2>1 DEF AddSingle
    <3>2. Append(list, item[1]) = list \o <<item[1]>>
      BY <1>8, <2>1, <3>1, AppendIsConcat
    <3>. QED  BY <1>8, <2>1, <2>4, <3>1, <3>2
  <2>. QED  BY <1>3, <1>8, <1>12, <2>1, <2>2, <2>3, <2>5, GoesOn DEF AddSingle
<1>13. CASE EndAfterNumber
  <2>1. Number(pos) /\ k # Len(items) /\ Token(pos + 1) = END
    BY <1>6, <1>13 DEF EndAfterNumber
  <2>2. item[1] = item[2] /\ Behind(k + 1, END)
    BY <1>7, <1>9, <2>1
  <2>3. k + 1 = Len(items) /\ tail = << >>
    BY <1>1, <1>8, <1>9, <1>10, <2>1, <2>2 DEF Behind
  <2>4. list' = ReadList(items)
    <3>1. Len(items) # 0 /\ Len(items) - 1 = k
      BY <1>8, <2>1, <2>3
    <3>2. items[Len(items)] = item
      BY <2>3 DEF item
    <3>3. ReadList(items) = ReadTo(k)
      BY <1>1, <2>2, <3>1, <3>2, ReadListIs
    <3>. QED  BY <1>5, <1>13, <3>3 DEF EndAfterNumber
  <2>. QED  BY <1>13, <2>3, <2>4, Returns DEF EndAfterNumber
<1>14. CASE AddRange
  <2>1. Number(pos) /\ k # Len(items) /\ Token(pos + 1) = DASH
    BY <1>6, <1>14 DEF AddRange
  <2>2. item[1] # item[2]
    <3>. SUFFICES ASSUME item[1] = item[2] PROVE FALSE
      OBVIOUS
    <3>1. /\ Behind(k + 1, DASH)
          /\ k + 1 = Len(items) /\ tail # << >> => Token(pos + 2) = END
      BY <1>7, <2>1
    <3>2. k + 1 = Len(items) /\ tail # << >>
      BY <1>1, <1>8, <1>9, <2>1, <3>1 DEF Behind
    <3>3. Number(pos + 2)
      BY <1>14 DEF AddRange
    <3>. QED  BY <3>1, <3>2, <3>3, NotNumber
  <2>3. /\ Token(pos + 2) = item[2] /\ Token(pos) = item[1]
        /\ Behind(k + 1, Token(pos + 3)) /\ Start(k + 1) = pos + 4
    BY <1>7, <2>1, <2>2
  <2>4. list' = ReadTo(k + 1)
    <3>1. <<item[1], item[2]>> = item
      BY <1>7, <2>1
    <3>2. list' = list \o Counting(<<item[1], item[2]>>)
      BY <1>14, <2>3 DEF AddRange
    <3>. QED  BY <1>8, <2>1, <3>1, <3>2
  <2>5. CASE Token(pos + 3) = COMMA
    <3>1. k + 1 = Len(items) => tail = <<COMMA>>
      BY <1>9, <1>10, <2>3, <2>5 DEF Behind
    <3>2. status' = status /\ pos' = pos + 4
      BY <1>3, <1>9, <1>14, <2>5 DEF AddRange
    <3>. QED  BY <1>3, <1>8, <1>14, <2>1, <2>3, <2>4, <3>1, <3>2, GoesOn DEF AddRange
  <2>6. CASE Token(pos + 3) = END
    <3>1. k + 1 = Len(items) /\ tail = << >>
      BY <1>1, <1>8, <1>9, <1>10, <2>1, <2>3, <2>6 DEF Behind
    <3>2. status' = "ok"
      BY <1>14, <2>6 DEF AddRange
    <3>3. ReadList(items) = ReadTo(Len(items))
      BY <1>1, <2>2, <3>1, ReadListIs DEF item
    <3>. QED  BY <1>14, <2>4, <3>1, <3>2, <3>3, Returns DEF AddRange
  <2>. QED  BY <1>14, <2>5, <2>6 DEF AddRange
<1>15. CASE Fail
  <2>1. tail # << >>
    <3>1. CASE k = Len(items)
      BY <1>6, <1>15, <3>1 DEF Fail
    <3>2. CASE k # Len(items)
      <4>. SUFFICES ASSUME tail = << >> PROVE FALSE
        OBVIOUS
      <4>1. ASSUME NEW c, Behind(k + 1, c) PROVE c \in {COMMA, END}
        BY <1>1, <1>8, <3>2, <4>1 DEF Behind
      <4>2. NotAList
        BY <1>15 DEF Fail
      <4>3. CASE item[1] = item[2]
        BY <1>7, <1>9, <3>2, <4>1, <4>2, <4>3 DEF NotAList
      <4>4. CASE item[1] # item[2]
        BY <1>7, <1>9, <3>2, <4>1, <4>2, <4>4 DEF NotAList
      <4>. QED  BY <4>3, <4>4
    <3>. QED  BY <3>1, <3>2
  <2>. QED  BY <1>15, <2>1, Fails DEF Fail
<1>16. CASE RunsOn
  <2>1. tail \in {<<COMMA>>, <<DASH>>} /\ stale
    <3>1. CASE k = Len(items)
      <4>1. stale /\ ~(pos = 1 /\ Token(1) = END) /\ Token(pos) = END
        BY <1>6, <1>16, <3>1 DEF RunsOn, StaleNumber
      <4>2. k # 0
        BY <1>5, <4>1 DEF Start
      <4>. QED  BY <1>4, <3>1, <4>1, <4>2 DEF Passed
    <3>2. CASE k # Len(items)
      <4>1. Token(pos) # END
        BY <1>7, <3>2 DEF END
      <4>2. stale /\ Token(pos + 1) = DASH /\ Token(pos + 2) = END
        BY <1>16, <4>1 DEF RunsOn, StaleNumber
      <4>3. CASE item[1] = item[2]
        <5>1. Behind(k + 1, DASH)
          BY <1>7, <3>2, <4>2, <4>3
        <5>. QED  BY <1>1, <1>8, <1>9, <1>10, <3>2, <4>2, <5>1 DEF Behind
      <4>4. CASE item[1] # item[2]
        <5>1. Number(pos + 2)
          BY <1>7, <3>2, <4>4
        <5>. QED  BY <4>2, <5>1, NotNumber
      <4>. QED  BY <4>3, <4>4
    <3>. QED  BY <3>1, <3>2
  <2>. QED  BY <1>16, <2>1, Leaves DEF RunsOn
<1>17. CASE CallFails
  BY <1>17, Leaves DEF CallFails
<1>. QED  BY <1>11, <1>12, <1>13, <1>14, <1>15, <1>16, <1>17 DEF Next

(* The invariant holds in every reachable state: between two turns of the  *)
(* loop of read_file_long_list(), current_ptr stands at an item, and the   *)
(* numbers of all items before it have been stored.                        *)
THEOREM LoopInvariant == Spec => []LoopInv
<1>. QED  BY InitInv, NextInv, PTL DEF Spec

(* read_file_long_list() stores the numbers of the items of every list, in *)
(* the order of the text, except for a last item that is a single number.  *)
THEOREM ReadsListCorrect == Spec => []ReadsList
<1>1. LoopInv => ReadsList
  BY DEF LoopInv
<1>. QED  BY <1>1, LoopInvariant, PTL

(* Whatever the items are and whatever lies behind them in the buffer: a   *)
(* text that is not a list gives an error and no numbers, or breaks off in *)
(* front of an old number; a list never gives an error, and the parser     *)
(* never leaves it.                                                        *)
THEOREM DamageNoticedCorrect == Spec => []DamageNoticed
<1>1. LoopInv => DamageNoticed
  BY DEF LoopInv
<1>. QED  BY <1>1, LoopInvariant, PTL

-----------------------------------------------------------------------------
(***************************************************************************)
(* Which CPUs are read.                                                    *)
(***************************************************************************)

(* An item adds its CPUs, all of them.                                     *)
LEMMA CountingIsSpan ==
    ASSUME NEW item \in Nat \X Nat
    PROVE  ToSet(Counting(item)) = Span(item)
<1>. DEFINE lo == item[1]
            hi == item[2]
            c == Counting(item)
<1>1. /\ lo \in Nat /\ hi \in Nat
      /\ c = [i \in 1 .. hi - lo + 1 |-> lo + i - 1]
  BY DEF Counting
<1>. HIDE DEF lo, hi, c
<1>2. DOMAIN c = 1 .. hi - lo + 1 /\ \A i \in 1 .. hi - lo + 1 : c[i] = lo + i - 1
  BY <1>1
<1>3. ASSUME NEW x \in ToSet(c) PROVE x \in lo .. hi
  <2>1. PICK i \in 1 .. hi - lo + 1 : x = lo + i - 1
    BY <1>2 DEF ToSet
  <2>. QED  BY <1>1, <2>1
<1>4. ASSUME NEW x \in lo .. hi PROVE x \in ToSet(c)
  <2>. DEFINE i == x - lo + 1
  <2>1. i \in 1 .. hi - lo + 1 /\ lo + i - 1 = x
    BY <1>1
  <2>. HIDE DEF i
  <2>. QED  BY <1>2, <2>1 DEF ToSet
<1>. QED  BY <1>3, <1>4 DEF Span, lo, hi, c

(* ToSet, element by element, and of a concatenation.                      *)
LEMMA InToSet == \A s, x : x \in ToSet(s) <=> \E i \in DOMAIN s : x = s[i]
BY DEF ToSet

LEMMA ToSetConcat ==
    ASSUME NEW s \in Seq(Int), NEW t \in Seq(Int), NEW u, u = s \o t
    PROVE  ToSet(u) = ToSet(s) \union ToSet(t)
<1>1. /\ u \in Seq(Int) /\ Len(u) = Len(s) + Len(t)
      /\ \A i \in 1 .. Len(s) : u[i] = s[i]
      /\ \A i \in 1 .. Len(t) : u[Len(s) + i] = t[i]
  BY ConcatParts
<1>2. /\ Len(s) \in Nat /\ Len(t) \in Nat
      /\ DOMAIN u = 1 .. Len(s) + Len(t)
      /\ DOMAIN s = 1 .. Len(s) /\ DOMAIN t = 1 .. Len(t)
  BY <1>1, LenProperties
<1>3. ASSUME NEW x, x \in ToSet(u) PROVE x \in ToSet(s) \/ x \in ToSet(t)
  <2>1. PICK i \in 1 .. Len(s) + Len(t) : x = u[i]
    BY <1>2, <1>3, InToSet
  <2>2. CASE i <= Len(s)
    <3>1. i \in DOMAIN s /\ x = s[i]
      BY <1>1, <1>2, <2>1, <2>2
    <3>. QED  BY <3>1, InToSet
  <2>3. CASE ~(i <= Len(s))
    <3>1. i - Len(s) \in 1 .. Len(t) /\ i = Len(s) + (i - Len(s))
      BY <1>2, <2>3
    <3>2. u[Len(s) + (i - Len(s))] = t[i - Len(s)]
      BY <1>1, <3>1
    <3>3. i - Len(s) \in DOMAIN t /\ x = t[i - Len(s)]
      BY <1>2, <2>1, <3>1, <3>2
    <3>. QED  BY <3>3, InToSet
  <2>. QED  BY <2>2, <2>3
<1>4. ASSUME NEW x, x \in ToSet(s) PROVE x \in ToSet(u)
  <2>1. PICK i \in 1 .. Len(s) : x = s[i]
    BY <1>2, <1>4, InToSet
  <2>2. i \in DOMAIN u /\ x = u[i]
    BY <1>1, <1>2, <2>1
  <2>. QED  BY <2>2, InToSet
<1>5. ASSUME NEW x, x \in ToSet(t) PROVE x \in ToSet(u)
  <2>1. PICK i \in 1 .. Len(t) : x = t[i]
    BY <1>2, <1>5, InToSet
  <2>2. Len(s) + i \in DOMAIN u /\ x = u[Len(s) + i]
    BY <1>1, <1>2, <2>1
  <2>. QED  BY <2>2, InToSet
<1>. QED  BY <1>3, <1>4, <1>5

(* The numbers of the first k items are the CPUs they stand for.           *)
LEMMA ReadMeans ==
    ASSUME Listed, NEW k \in 0 .. Len(items)
    PROVE  ToSet(ReadTo(k)) = UNION {Span(items[i]) : i \in 1 .. k}
<1>. DEFINE U(m) == UNION {Span(items[i]) : i \in 1 .. m}
            G == {m \in Nat : m <= Len(items) => ToSet(ReadTo(m)) = U(m)}
<1>1. Len(items) \in Nat
  BY DEF Listed
<1>2. 0 \in G
  <2>1. ToSet(<< >>) = {}
    BY DEF ToSet
  <2>. QED  BY <2>1, TextEnds
<1>3. ASSUME NEW m \in Nat, m \in G PROVE m + 1 \in G
  <2>1. SUFFICES ASSUME m + 1 <= Len(items) PROVE ToSet(ReadTo(m + 1)) = U(m + 1)
    OBVIOUS
  <2>. DEFINE u == ReadTo(m + 1)
              a == ReadTo(m)
              b == Counting(items[m + 1])
  <2>2. m \in 0 .. Len(items) - 1 /\ items[m + 1] \in Nat \X Nat
    BY <1>1, <2>1 DEF Listed
  <2>3. ToSet(a) = U(m)
    BY <1>1, <1>3, <2>1
  <2>4. a \in Seq(Int) /\ b \in Seq(Int) /\ u = a \o b
    BY <2>2, ReadStep, CountingIsSeq
  <2>5. ToSet(b) = Span(items[m + 1])
    BY <2>2, CountingIsSpan
  <2>6. U(m + 1) = U(m) \union Span(items[m + 1])
    <3>1. 1 .. m + 1 = (1 .. m) \union {m + 1}
      OBVIOUS
    <3>. QED  BY <3>1
  <2>. HIDE DEF u, a, b, U
  <2>7. ToSet(u) = ToSet(a) \union ToSet(b)
    <3>1. a \in Seq(Int)
      BY <2>4
    <3>2. b \in Seq(Int)
      BY <2>4
    <3>3. u = a \o b
      BY <2>4
    <3>. QED  BY <3>1, <3>2, <3>3, ToSetConcat
  <2>8. ToSet(u) = U(m + 1)
    BY <2>3, <2>5, <2>6, <2>7
  <2>. QED  BY <2>8 DEF u
<1>. HIDE DEF G
<1>4. Nat \subseteq G
  BY <1>2, <1>3, SetInduction
<1>. QED  BY <1>1, <1>4 DEF G

(* The CPUs read are exactly those of the items stored.                    *)
ReadsStored == status = "ok" => ToSet(list) = Meaning(Stored(items))

(* What the finding on ReadsAll leaves: whenever read_file_long_list()     *)
(* returns a list, it has every CPU of the text but a single number at its *)
(* end, and no other.                                                      *)
THEOREM ReadsStoredCorrect == Spec => []ReadsStored
<1>1. ASSUME LoopInv PROVE ReadsStored
  <2>. SUFFICES ASSUME status = "ok" PROVE ToSet(list) = Meaning(Stored(items))
    BY DEF ReadsStored
  <2>. DEFINE n == Len(items)
  <2>1. Listed /\ n \in Nat /\ DOMAIN items = 1 .. n /\ (items = << >> <=> n = 0)
    BY <1>1, InvHeld, EmptySeq DEF Held, Listed
  <2>2. list = ReadList(items)
    BY <1>1 DEF LoopInv, ReadsList, DamageNoticed
  <2>3. CASE n # 0 /\ items[n][1] = items[n][2]
    <3>1. list = ReadTo(n - 1) /\ n - 1 \in 0 .. n
      BY <2>1, <2>2, <2>3, ReadListIs
    <3>2. Stored(items) = SubSeq(items, 1, n - 1)
      BY <2>1, <2>3 DEF Stored, Last, Front
    <3>3. /\ DOMAIN Stored(items) = 1 .. n - 1
          /\ \A i \in 1 .. n - 1 : Stored(items)[i] = items[i]
      BY <2>1, <2>3, <3>2 DEF Listed
    <3>4. Meaning(Stored(items)) = UNION {Span(items[i]) : i \in 1 .. n - 1}
      BY <3>3 DEF Meaning
    <3>. QED  BY <2>1, <3>1, <3>4, ReadMeans
  <2>4. CASE ~(n # 0 /\ items[n][1] = items[n][2])
    <3>1. list = ReadTo(n) /\ n \in 0 .. n
      BY <2>1, <2>2, <2>4, ReadListIs
    <3>2. Stored(items) = items
      BY <2>1, <2>4 DEF Stored, Last
    <3>3. Meaning(Stored(items)) = UNION {Span(items[i]) : i \in 1 .. n}
      BY <2>1, <3>2 DEF Meaning
    <3>. QED  BY <2>1, <3>1, <3>3, ReadMeans
  <2>. QED  BY <2>3, <2>4
<1>. QED  BY <1>1, LoopInvariant, PTL

-----------------------------------------------------------------------------
(***************************************************************************)
(* The numbers of the cores.                                               *)
(***************************************************************************)

(* What the recursive function inside Counter is, up to element m.         *)
Counts(f, n, m) ==
    f = [i \in 1 .. m |-> IF i = 1 THEN 0 ELSE f[i - 1] + n[i - 1]]

(* Such a function exists up to every element: one more value is one more  *)
(* step of the loop.                                                       *)
LEMMA CountsExists ==
    ASSUME NEW n \in Seq(Nat), NEW m \in 1 .. Len(n) + 1
    PROVE  \E f \in [1 .. m -> Nat] : Counts(f, n, m)
<1>. DEFINE G == {k \in Nat : k < m => \E f \in [1 .. k + 1 -> Nat] : Counts(f, n, k + 1)}
<1>1. 0 \in G
  <2>. DEFINE f == [i \in 1 .. 1 |-> 0]
  <2>1. f \in [1 .. 0 + 1 -> Nat] /\ Counts(f, n, 0 + 1)
    BY DEF Counts
  <2>. QED  BY <2>1
<1>2. ASSUME NEW k \in Nat, k \in G PROVE k + 1 \in G
  <2>1. ASSUME k + 1 < m
        PROVE  \E f \in [1 .. k + 1 + 1 -> Nat] : Counts(f, n, k + 1 + 1)
    <3>1. PICK f \in [1 .. k + 1 -> Nat] : Counts(f, n, k + 1)
      BY <1>2, <2>1
    <3>. k + 1 <= Len(n) /\ Len(n) \in Nat
      BY <2>1
    <3>. DEFINE h == [i \in 1 .. k + 1 + 1 |-> IF i = 1 THEN 0 ELSE f[i - 1] + n[i - 1]]
    <3>2. \A i \in 1 .. k + 1 : n[i] \in Nat
      OBVIOUS
    <3>3. h \in [1 .. k + 1 + 1 -> Nat]
      BY <3>2
    <3>4. \A i \in 1 .. k + 1 : h[i] = f[i]
      BY <3>1 DEF Counts
    <3>5. Counts(h, n, k + 1 + 1)
      <4>1. ASSUME NEW i \in 1 .. k + 1 + 1, i # 1 PROVE f[i - 1] = h[i - 1]
        <5>1. i - 1 \in 1 .. k + 1
          BY <4>1
        <5>. QED  BY <3>4, <5>1
      <4>. QED  BY <4>1 DEF Counts
    <3>. QED  BY <3>3, <3>5
  <2>. QED
    <3>1. k + 1 \in Nat
      OBVIOUS
    <3>. QED  BY <2>1, <3>1
<1>. HIDE DEF G
<1>3. Nat \subseteq G
  BY <1>1, <1>2, SetInduction
<1>4. m - 1 \in G /\ m - 1 + 1 = m
  BY <1>3
<1>. QED  BY <1>4 DEF G

(* The counter starts at 0 and element i adds n[i].                        *)
LEMMA CounterSteps ==
    ASSUME NEW n \in Seq(Nat)
    PROVE  /\ Counter(n) \in [1 .. Len(n) + 1 -> Nat]
           /\ \A i \in 1 .. Len(n) + 1 : Counter(n)[i] \in Nat
           /\ Counter(n)[1] = 0
           /\ \A i \in 1 .. Len(n) : Counter(n)[i + 1] = Counter(n)[i] + n[i]
<1>. DEFINE m == Len(n) + 1
            f == Counter(n)
<1>1. f = CHOOSE g : Counts(g, n, m)
  BY DEF Counter, Counts
<1>2. \E g : Counts(g, n, m)
  <2>1. m \in 1 .. Len(n) + 1
    OBVIOUS
  <2>. QED  BY <2>1, CountsExists
<1>3. Counts(f, n, m)
  BY <1>1, <1>2
<1>4. PICK g \in [1 .. m -> Nat] : Counts(g, n, m)
  BY CountsExists
<1>. DEFINE A == {k \in Nat : k < m => f[k + 1] = g[k + 1]}
            s(k, w) == IF k = 1 THEN 0 ELSE w[k - 1] + n[k - 1]
<1>. HIDE DEF f
<1>5. \A i \in 1 .. m : f[i] = s(i, f) /\ g[i] = s(i, g)
  BY <1>3, <1>4 DEF Counts
<1>6. 0 \in A
  BY <1>5
<1>7. ASSUME NEW k \in Nat, k \in A PROVE k + 1 \in A
  <2>. SUFFICES ASSUME k + 1 < m PROVE f[k + 2] = g[k + 2]
    OBVIOUS
  <2>1. f[k + 1] = g[k + 1]
    BY <1>7
  <2>2. k + 2 \in 1 .. m /\ k + 2 # 1 /\ k + 2 - 1 = k + 1
    OBVIOUS
  <2>. QED  BY <1>5, <2>1, <2>2
<1>. HIDE DEF A
<1>8. Nat \subseteq A
  BY <1>6, <1>7, SetInduction
<1>9. \A i \in 1 .. m : f[i] = g[i]
  <2>1. \A i \in 1 .. m : i - 1 \in A /\ i - 1 < m /\ i - 1 + 1 = i
    BY <1>8
  <2>. QED  BY <2>1 DEF A
<1>10. f \in [1 .. m -> Nat]
  <2>1. f = [i \in 1 .. m |-> s(i, f)]
    BY <1>3 DEF Counts
  <2>2. ASSUME NEW i \in 1 .. m PROVE s(i, f) \in Nat
    <3>1. g[i] \in Nat /\ f[i] = g[i]
      BY <1>4, <1>9
    <3>. HIDE DEF s
    <3>. QED  BY <1>5, <3>1
  <2>. HIDE DEF s
  <2>. QED  BY <2>1, <2>2
<1>11. \A i \in 1 .. Len(n) : f[i + 1] = f[i] + n[i]
  <2>. SUFFICES ASSUME NEW i \in 1 .. Len(n) PROVE f[i + 1] = f[i] + n[i]
    OBVIOUS
  <2>1. i + 1 \in 1 .. m /\ i + 1 # 1 /\ i + 1 - 1 = i
    OBVIOUS
  <2>2. f[i + 1] = s(i + 1, f)
    BY <1>5, <2>1
  <2>. QED  BY <2>1, <2>2
<1>12. f[1] = 0 /\ \A i \in 1 .. m : f[i] \in Nat
  <2>1. 1 \in 1 .. m
    OBVIOUS
  <2>. QED  BY <1>5, <1>10, <2>1
<1>. QED  BY <1>10, <1>11, <1>12 DEF f

(* The total is a number, as is the counter at every element.              *)
LEMMA TotalIsNat ==
    ASSUME NEW n \in Seq(Nat)
    PROVE  Total(n) \in Nat /\ \A i \in 1 .. Len(n) : Counter(n)[i] \in Nat
<1>1. /\ Len(n) + 1 \in 1 .. Len(n) + 1
      /\ \A i \in 1 .. Len(n) : i \in 1 .. Len(n) + 1
  OBVIOUS
<1>. QED  BY <1>1, CounterSteps DEF Total

(* It never goes back.                                                     *)
LEMMA CounterGrows ==
    ASSUME NEW n \in Seq(Nat), NEW i \in 1 .. Len(n) + 1, NEW j \in i .. Len(n) + 1
    PROVE  Counter(n)[i] <= Counter(n)[j]
<1>. DEFINE f == Counter(n)
            A == {k \in Nat : i + k <= Len(n) + 1 => f[i] <= f[i + k]}
<1>1. f \in [1 .. Len(n) + 1 -> Nat] /\ \A k \in 1 .. Len(n) : f[k + 1] = f[k] + n[k]
  BY CounterSteps
<1>. HIDE DEF f
<1>2. 0 \in A
  BY <1>1
<1>3. ASSUME NEW k \in Nat, k \in A PROVE k + 1 \in A
  <2>. SUFFICES ASSUME i + k + 1 <= Len(n) + 1 PROVE f[i] <= f[i + k + 1]
    OBVIOUS
  <2>1. i + k \in 1 .. Len(n) /\ f[i] <= f[i + k]
    BY <1>3
  <2>2. f[i + k + 1] = f[i + k] + n[i + k] /\ n[i + k] \in Nat
    <3>. DEFINE p == i + k
    <3>1. p \in 1 .. Len(n)
      BY <2>1
    <3>. HIDE DEF p
    <3>2. f[p + 1] = f[p] + n[p] /\ n[p] \in Nat
      BY <1>1, <3>1
    <3>. QED  BY <3>2 DEF p
  <2>3. f[i] \in Nat /\ f[i + k] \in Nat
    <3>1. i \in 1 .. Len(n) + 1 /\ i + k \in 1 .. Len(n) + 1
      BY <2>1
    <3>. QED  BY <1>1, <3>1
  <2>. QED  BY <2>1, <2>2, <2>3
<1>. HIDE DEF A
<1>4. Nat \subseteq A
  BY <1>2, <1>3, SetInduction
<1>5. j - i \in A /\ i + (j - i) = j
  BY <1>4
<1>. QED  BY <1>5 DEF A, f

(* Every number below the total belongs to one element.                    *)
LEMMA CounterCovers ==
    ASSUME NEW n \in Seq(Nat), NEW x \in 0 .. Total(n) - 1
    PROVE  \E i \in 1 .. Len(n) : Counter(n)[i] <= x /\ x < Counter(n)[i + 1]
<1>. DEFINE f == Counter(n)
            A == {k \in Nat : k <= Len(n) /\ x < f[k + 1] =>
                      \E i \in 1 .. Len(n) : f[i] <= x /\ x < f[i + 1]}
<1>1. f \in [1 .. Len(n) + 1 -> Nat] /\ f[1] = 0
  BY CounterSteps
<1>2. x \in Nat /\ x < f[Len(n) + 1] /\ Len(n) \in Nat
  BY <1>1 DEF Total
<1>. HIDE DEF f
<1>3. 0 \in A
  BY <1>1, <1>2
<1>4. ASSUME NEW k \in Nat, k \in A PROVE k + 1 \in A
  <2>. SUFFICES ASSUME k + 1 <= Len(n), x < f[k + 2]
                PROVE  \E i \in 1 .. Len(n) : f[i] <= x /\ x < f[i + 1]
    OBVIOUS
  <2>1. CASE x < f[k + 1]
    BY <1>2, <1>4, <2>1
  <2>2. CASE ~(x < f[k + 1])
    <3>1. f[k + 1] \in Nat /\ k + 1 \in 1 .. Len(n) /\ k + 1 + 1 = k + 2
      BY <1>1, <1>2
    <3>. QED  BY <1>2, <2>2, <3>1
  <2>. QED  BY <2>1, <2>2
<1>. HIDE DEF A
<1>5. Nat \subseteq A
  BY <1>3, <1>4, SetInduction
<1>6. Len(n) \in A
  BY <1>2, <1>5
<1>. QED  BY <1>2, <1>6 DEF A, f

(* Numbered, in terms of its parts.                                        *)
LEMMA IsNumbered ==
    ASSUME NEW S, NEW a, NEW b,
           \A c \in S : c.id \in a .. b - 1,
           \A x \in a .. b - 1 : \E c \in S : c.id = x,
           \A c \in S : \A e \in S : c.id = e.id => c = e
    PROVE  Numbered(S, a, b)
BY DEF Numbered

(* And what it says of them.                                               *)
LEMMA NumberedIs ==
    ASSUME NEW S, NEW a, NEW b, Numbered(S, a, b)
    PROVE  /\ \A c \in S : c.id \in a .. b - 1
           /\ \A x \in a .. b - 1 : \E c \in S : c.id = x
           /\ \A c \in S : \A e \in S : c.id = e.id => c = e
BY DEF Numbered

(* A loop over elements whose cores are numbered numbers their cores.      *)
LEMMA NumberedLoop ==
    ASSUME NEW n \in Seq(Nat), NEW a \in Nat, NEW C,
           \A i \in 1 .. Len(n) :
               Numbered(C[i], a + Counter(n)[i], (a + Counter(n)[i]) + n[i])
    PROVE  Numbered(UNION {C[i] : i \in 1 .. Len(n)}, a, a + Total(n))
<1>. DEFINE f == Counter(n)
            S == UNION {C[i] : i \in 1 .. Len(n)}
            t == Total(n)
<1>1. f \in [1 .. Len(n) + 1 -> Nat] /\ f[1] = 0 /\ t = f[Len(n) + 1] /\ Len(n) \in Nat
  BY CounterSteps DEF Total
<1>2. ASSUME NEW i \in 1 .. Len(n)
      PROVE  /\ \A c \in C[i] : c.id \in a + f[i] .. (a + f[i + 1]) - 1
             /\ \A x \in a + f[i] .. (a + f[i + 1]) - 1 : \E c \in C[i] : c.id = x
             /\ \A c, e \in C[i] : c.id = e.id => c = e
             /\ f[i] \in Nat /\ f[i + 1] \in Nat
  <2>1. Numbered(C[i], a + f[i], a + f[i + 1])
    <3>1. (a + f[i]) + n[i] = a + f[i + 1]
      <4>1. f[i + 1] = f[i] + n[i] /\ f[i] \in Nat /\ n[i] \in Nat
        BY CounterSteps
      <4>. HIDE DEF f
      <4>. QED  BY <4>1
    <3>. QED  BY <3>1
  <2>2. i \in 1 .. Len(n) + 1 /\ i + 1 \in 1 .. Len(n) + 1
    OBVIOUS
  <2>3. f[i] \in Nat /\ f[i + 1] \in Nat
    <3>. HIDE DEF f
    <3>. QED  BY <1>1, <2>2
  <2>. HIDE DEF f
  <2>. QED  BY <2>1, <2>3, NumberedIs
<1>3. \A i \in 1 .. Len(n) + 1, j \in 1 .. Len(n) + 1 : i <= j => f[i] <= f[j]
  BY CounterGrows, <1>1
<1>4. \A x \in 0 .. t - 1 : \E i \in 1 .. Len(n) : f[i] <= x /\ x < f[i + 1]
  BY CounterCovers
<1>. HIDE DEF f, t
<1>5. ASSUME NEW i \in 1 .. Len(n), NEW c \in C[i]
      PROVE  c.id \in Int /\ a + f[i] <= c.id /\ c.id < a + f[i + 1]
  <2>1. c.id \in a + f[i] .. (a + f[i + 1]) - 1
    BY <1>2
  <2>2. f[i] \in Nat /\ f[i + 1] \in Nat
    BY <1>2
  <2>. QED  BY <2>1, <2>2
<1>6. ASSUME NEW c \in S PROVE c.id \in a .. (a + t) - 1
  <2>1. PICK i \in 1 .. Len(n) : c \in C[i]
    OBVIOUS
  <2>2. /\ f[1] <= f[i] /\ f[i + 1] <= f[Len(n) + 1]
        /\ f[i] \in Nat /\ f[i + 1] \in Nat /\ t \in Nat
    <3>1. i \in 1 .. Len(n) + 1 /\ i + 1 \in 1 .. Len(n) + 1
      BY <1>1
    <3>2. f[1] <= f[i] /\ f[i + 1] <= f[Len(n) + 1]
      <4>1. 1 \in 1 .. Len(n) + 1 /\ Len(n) + 1 \in 1 .. Len(n) + 1 /\ 1 <= i /\ i + 1 <= Len(n) + 1
        BY <1>1, <3>1
      <4>. QED  BY <1>3, <3>1, <4>1
    <3>3. f[i] \in Nat /\ f[i + 1] \in Nat
      BY <1>2
    <3>4. t \in Nat
      <4>1. Len(n) + 1 \in 1 .. Len(n) + 1
        BY <1>1
      <4>. QED  BY <1>1, <4>1
    <3>. QED  BY <3>2, <3>3, <3>4
  <2>3. c.id \in Int /\ a + f[i] <= c.id /\ c.id < a + f[i + 1]
    BY <1>5, <2>1
  <2>4. a <= a + f[i] /\ a + f[i + 1] <= a + t
    BY <1>1, <2>2
  <2>5. c.id \in Int /\ a <= c.id /\ c.id < a + t /\ t \in Nat
    <3>. DEFINE x == c.id
                p == a + f[i]
                q == a + f[i + 1]
                e == a + t
    <3>1. x \in Int /\ p \in Int /\ q \in Int /\ e \in Int
      <4>. HIDE DEF f, t
      <4>. QED  BY <2>2, <2>3
    <3>2. a <= p /\ p <= x /\ x < q /\ q <= e
      BY <2>3, <2>4
    <3>. HIDE DEF x, p, q, e
    <3>3. a <= x /\ x < e
      BY <3>1, <3>2
    <3>. QED  BY <2>2, <3>1, <3>3 DEF x, e
  <2>. QED  BY <2>5
<1>7. ASSUME NEW x \in a .. (a + t) - 1 PROVE \E c \in S : c.id = x
  <2>1. t \in Nat /\ x - a \in 0 .. t - 1
    BY <1>1
  <2>2. PICK i \in 1 .. Len(n) : f[i] <= x - a /\ x - a < f[i + 1]
    BY <1>4, <2>1
  <2>3. f[i] \in Nat /\ f[i + 1] \in Nat
    BY <1>2
  <2>4. x \in a + f[i] .. (a + f[i + 1]) - 1
    BY <2>1, <2>2, <2>3
  <2>5. PICK c \in C[i] : c.id = x
    BY <1>2, <2>4
  <2>. QED  BY <2>5
<1>8. ASSUME NEW c \in S, NEW e \in S, c.id = e.id PROVE c = e
  <2>1. PICK i \in 1 .. Len(n) : c \in C[i]
    OBVIOUS
  <2>2. PICK j \in 1 .. Len(n) : e \in C[j]
    OBVIOUS
  <2>3. /\ c.id \in Int /\ a + f[i] <= c.id /\ c.id < a + f[i + 1]
        /\ a + f[j] <= c.id /\ c.id < a + f[j + 1]
    BY <1>5, <1>8, <2>1, <2>2
  <2>4. /\ f[i] \in Nat /\ f[i + 1] \in Nat /\ f[j] \in Nat /\ f[j + 1] \in Nat
        /\ i < j => f[i + 1] <= f[j]
        /\ j < i => f[j + 1] <= f[i]
    <3>1. /\ i \in 1 .. Len(n) + 1 /\ i + 1 \in 1 .. Len(n) + 1
          /\ j \in 1 .. Len(n) + 1 /\ j + 1 \in 1 .. Len(n) + 1
          /\ i < j => i + 1 <= j
          /\ j < i => j + 1 <= i
      BY <1>1
    <3>. QED  BY <1>2, <1>3, <3>1
  <2>5. i = j
    <3>1. ~(i < j) /\ ~(j < i)
      <4>. DEFINE x == c.id
                  p == f[i]  q == f[i + 1]
                  u == f[j]  v == f[j + 1]
      <4>. x \in Int /\ a + p <= x /\ x < a + q /\ a + u <= x /\ x < a + v
        BY <2>3
      <4>. p \in Nat /\ q \in Nat /\ u \in Nat /\ v \in Nat /\ (i < j => q <= u) /\ (j < i => v <= p)
        BY <2>4
      <4>. HIDE DEF x, p, q, u, v
      <4>. QED  OBVIOUS
    <3>. QED  BY <3>1
  <2>. QED  BY <1>2, <1>8, <2>1, <2>2, <2>5
<1>. HIDE DEF S
<1>10. Numbered(S, a, a + t)
  BY <1>6, <1>7, <1>8, IsNumbered
<1>. QED  BY <1>10 DEF S, t

(* A core gets the next number, the children of a module the next ones.    *)
LEMMA KidNumbered ==
    ASSUME NEW Below, NEW kid \in CoreNodes(Below) \cup ModuleNodes(Below), NEW a \in Nat
    PROVE  /\ KidCores(kid) \in Nat
           /\ Numbered(CoresOfKid(NumberKid(kid, a)), a, a + KidCores(kid))
<1>1. CASE kid \in CoreNodes(Below)
  <2>1. kid.g = CORE /\ KidCores(kid) = 1
    BY <1>1 DEF CoreNodes, KidCores
  <2>2. NumberKid(kid, a) = [kid EXCEPT !.id = a]
    BY <2>1 DEF NumberKid
  <2>3. NumberKid(kid, a).g = CORE /\ NumberKid(kid, a).id = a
    BY <1>1, <2>1, <2>2 DEF CoreNodes
  <2>4. CoresOfKid(NumberKid(kid, a)) = {NumberKid(kid, a)}
    BY <2>3 DEF CoresOfKid
  <2>. QED  BY <2>1, <2>3, <2>4 DEF Numbered
<1>2. CASE kid \in ModuleNodes(Below)
  <2>. DEFINE m == Len(kid.kids)
              new == NumberKid(kid, a)
              out == [l \in 1 .. m |-> [kid.kids[l] EXCEPT !.id = a + l - 1]]
  <2>1. /\ kid.g = MODULE_ /\ MODULE_ # CORE /\ m \in Nat
        /\ \A l \in 1 .. m : kid.kids[l] \in CoreNodes(Below)
    BY <1>2 DEF ModuleNodes, MODULE_, CORE
  <2>2. KidCores(kid) = m
    BY <2>1 DEF KidCores
  <2>3. new = [kid EXCEPT !.kids = out]
    BY <2>1 DEF NumberKid
  <2>4. new.g = MODULE_ /\ new.kids = out
    BY <1>2, <2>3 DEF ModuleNodes
  <2>5. Len(out) = m
    BY <2>1
  <2>6. \A l \in 1 .. m : out[l].id = a + l - 1
    BY <2>1 DEF CoreNodes
  <2>. HIDE DEF new, out, m
  <2>7. CoresOfKid(new) = {out[l] : l \in 1 .. m}
    BY <2>1, <2>4, <2>5 DEF CoresOfKid
  <2>8. Numbered({out[l] : l \in 1 .. m}, a, a + m)
    <3>1. \A x \in a .. (a + m) - 1 : x - a + 1 \in 1 .. m /\ x = a + (x - a + 1) - 1
      BY <2>1
    <3>. DEFINE L == {out[l] : l \in 1 .. m}
    <3>2. \A c \in L : c.id \in a .. (a + m) - 1
      BY <2>1, <2>6
    <3>4. \A x \in a .. (a + m) - 1 : \E c \in L : c.id = x
      BY <2>6, <3>1
    <3>3. ASSUME NEW c \in L, NEW e \in L, c.id = e.id PROVE c = e
      <4>1. PICK l \in 1 .. m : c = out[l]
        OBVIOUS
      <4>2. PICK k \in 1 .. m : e = out[k]
        OBVIOUS
      <4>3. a + l - 1 = a + k - 1
        BY <2>6, <3>3, <4>1, <4>2
      <4>4. l = k
        BY <4>3
      <4>. QED  BY <4>1, <4>2, <4>4
    <3>. HIDE DEF L
    <3>5. Numbered(L, a, a + m)
      BY <3>2, <3>3, <3>4, IsNumbered
    <3>. QED  BY <3>5 DEF L
  <2>. QED  BY <2>1, <2>2, <2>7, <2>8 DEF new
<1>. QED  BY <1>1, <1>2

(* The children of a die, one after the other.                             *)
LEMMA DieNumbered ==
    ASSUME NEW Below, NEW d \in DieNodes(Below), NEW a \in Nat
    PROVE  /\ Total(CoresPerKid(d)) \in Nat
           /\ Numbered(CoresOfDie(NumberDie(d, a)), a, a + Total(CoresPerKid(d)))
<1>. DEFINE n == CoresPerKid(d)
            m == Len(d.kids)
            new == NumberDie(d, a)
            out == [k \in 1 .. m |-> NumberKid(d.kids[k], a + Counter(n)[k])]
            C == [k \in 1 .. m |-> CoresOfKid(out[k])]
<1>1. m \in Nat /\ \A k \in 1 .. m : d.kids[k] \in CoreNodes(Below) \cup ModuleNodes(Below)
  BY DEF DieNodes
<1>2. n = [k \in 1 .. m |-> KidCores(d.kids[k])]
  BY DEF CoresPerKid
<1>3. \A k \in 1 .. m : KidCores(d.kids[k]) \in Nat
  BY <1>1, KidNumbered
<1>. HIDE DEF n, m
<1>4. n \in Seq(Nat) /\ Len(n) = m
  BY <1>1, <1>2, <1>3
<1>5. Total(n) \in Nat /\ \A k \in 1 .. m : Counter(n)[k] \in Nat
  BY <1>4, TotalIsNat
<1>6. new.kids = out /\ Len(out) = m
  BY <1>1 DEF NumberDie, DieNodes, n, m
<1>. HIDE DEF new
<1>7. ASSUME NEW k \in 1 .. m
      PROVE  Numbered(C[k], a + Counter(n)[k], (a + Counter(n)[k]) + n[k])
  <2>1. a + Counter(n)[k] \in Nat
    BY <1>5
  <2>. QED  BY <1>1, <1>2, <2>1, KidNumbered
<1>. HIDE DEF out
<1>8. CoresOfDie(new) = UNION {C[k] : k \in 1 .. m}
  BY <1>6 DEF CoresOfDie
<1>. HIDE DEF C
<1>9. Numbered(UNION {C[k] : k \in 1 .. m}, a, a + Total(n))
  BY <1>4, <1>7, NumberedLoop
<1>. QED  BY <1>5, <1>8, <1>9 DEF n, new

(* The dies of a socket.                                                   *)
LEMMA SocketNumbered ==
    ASSUME NEW Below, NEW s \in SocketNodes(Below), NEW a \in Nat
    PROVE  /\ Total(CoresPerDie(s)) \in Nat
           /\ Numbered(CoresOfSocket(NumberSocket(s, a)), a, a + Total(CoresPerDie(s)))
<1>. DEFINE n == CoresPerDie(s)
            m == Len(s.kids)
            new == NumberSocket(s, a)
            out == [k \in 1 .. m |-> NumberDie(s.kids[k], a + Counter(n)[k])]
            C == [k \in 1 .. m |-> CoresOfDie(out[k])]
<1>1. m \in Nat /\ \A k \in 1 .. m : s.kids[k] \in DieNodes(Below)
  BY DEF SocketNodes
<1>2. n = [k \in 1 .. m |-> Total(CoresPerKid(s.kids[k]))]
  BY DEF CoresPerDie
<1>3. \A k \in 1 .. m : Total(CoresPerKid(s.kids[k])) \in Nat
  BY <1>1, DieNumbered
<1>. HIDE DEF n, m
<1>4. n \in Seq(Nat) /\ Len(n) = m
  BY <1>1, <1>2, <1>3
<1>5. Total(n) \in Nat /\ \A k \in 1 .. m : Counter(n)[k] \in Nat
  BY <1>4, TotalIsNat
<1>6. new.kids = out /\ Len(out) = m
  BY <1>1 DEF NumberSocket, SocketNodes, n, m
<1>. HIDE DEF new
<1>7. ASSUME NEW k \in 1 .. m
      PROVE  Numbered(C[k], a + Counter(n)[k], (a + Counter(n)[k]) + n[k])
  <2>1. a + Counter(n)[k] \in Nat
    BY <1>5
  <2>. QED  BY <1>1, <1>2, <2>1, DieNumbered
<1>. HIDE DEF out
<1>8. CoresOfSocket(new) = UNION {C[k] : k \in 1 .. m}
  BY <1>6 DEF CoresOfSocket
<1>. HIDE DEF C
<1>9. Numbered(UNION {C[k] : k \in 1 .. m}, a, a + Total(n))
  BY <1>4, <1>7, NumberedLoop
<1>. QED  BY <1>5, <1>8, <1>9 DEF n, new

(* The sockets of the system.                                              *)
LEMMA SystemNumbered ==
    ASSUME NEW Below, NEW socks \in Seq(SocketNodes(Below))
    PROVE  /\ Total(CoresPerSocket(socks)) \in Nat
           /\ Numbered(CoresOf(Renumbered(socks)), 0, Total(CoresPerSocket(socks)))
<1>. DEFINE n == CoresPerSocket(socks)
            m == Len(socks)
            out == [k \in 1 .. m |-> NumberSocket(socks[k], Counter(n)[k])]
            C == [k \in 1 .. m |-> CoresOfSocket(out[k])]
<1>1. m \in Nat /\ \A k \in 1 .. m : socks[k] \in SocketNodes(Below)
  OBVIOUS
<1>2. n = [k \in 1 .. m |-> Total(CoresPerDie(socks[k]))]
  BY DEF CoresPerSocket
<1>3. \A k \in 1 .. m : Total(CoresPerDie(socks[k])) \in Nat
  BY <1>1, SocketNumbered
<1>4. Renumbered(socks) = out
  BY DEF Renumbered
<1>. HIDE DEF n, m
<1>5. n \in Seq(Nat) /\ Len(n) = m
  BY <1>1, <1>2, <1>3
<1>6. Total(n) \in Nat /\ \A k \in 1 .. m : Counter(n)[k] \in Nat
  BY <1>5, TotalIsNat
<1>7. ASSUME NEW k \in 1 .. m
      PROVE  Numbered(C[k], 0 + Counter(n)[k], (0 + Counter(n)[k]) + n[k])
  <2>1. Counter(n)[k] \in Nat /\ 0 + Counter(n)[k] = Counter(n)[k]
    BY <1>6
  <2>. QED  BY <1>1, <1>2, <2>1, SocketNumbered
<1>8. Len(out) = m
  BY <1>1
<1>. HIDE DEF out
<1>9. CoresOf(out) = UNION {C[k] : k \in 1 .. m}
  BY <1>8 DEF CoresOf
<1>. HIDE DEF C
<1>10. Numbered(UNION {C[k] : k \in 1 .. m}, 0, 0 + Total(n))
  BY <1>5, <1>7, NumberedLoop
<1>11. 0 + Total(n) = Total(n)
  BY <1>6
<1>. QED  BY <1>4, <1>6, <1>9, <1>10, <1>11 DEF n

(* Whatever ids the kernel gave them, and however many sockets, dies,      *)
(* modules and cores there are: after the renumbering the cores of the     *)
(* system are 0, 1, 2 ... up to their number, and an id names one core.    *)
THEOREM CoresUnique ==
    ASSUME NEW Below, NEW socks \in Seq(SocketNodes(Below))
    PROVE  LET n == Total(CoresPerSocket(socks))
               cores == CoresOf(Renumbered(socks))
           IN  /\ {c.id : c \in cores} = 0 .. n - 1
               /\ \A c, e \in cores : c.id = e.id => c = e
               /\ IsFiniteSet(cores) /\ Cardinality(cores) = n
<1>. DEFINE n == Total(CoresPerSocket(socks))
            cores == CoresOf(Renumbered(socks))
            id == [c \in cores |-> c.id]
<1>1. n \in Nat /\ Numbered(cores, 0, n)
  BY SystemNumbered
<1>. HIDE DEF n, cores
<1>2. /\ \A c \in cores : c.id \in 0 .. n - 1
      /\ \A x \in 0 .. n - 1 : \E c \in cores : c.id = x
      /\ \A c \in cores : \A e \in cores : c.id = e.id => c = e
  BY <1>1, NumberedIs
<1>3. id \in Bijection(cores, 0 .. n - 1)
  <2>1. id \in [cores -> 0 .. n - 1]
    BY <1>2
  <2>2. \A c \in cores : id[c] = c.id
    OBVIOUS
  <2>. HIDE DEF id
  <2>3. id \in Injection(cores, 0 .. n - 1)
    <3>1. \A c, e \in cores : id[c] = id[e] => c = e
      BY <1>2, <2>2
    <3>. QED  BY <2>1, <3>1, Fun_IsInj
  <2>4. id \in Surjection(cores, 0 .. n - 1)
    <3>1. \A x \in 0 .. n - 1 : \E c \in cores : id[c] = x
      BY <1>2, <2>2
    <3>. QED  BY <2>1, <3>1, Fun_IsSurj
  <2>. QED  BY <2>3, <2>4, Fun_IsBij
<1>4. IsFiniteSet(0 .. n - 1) /\ Cardinality(0 .. n - 1) = n
  <2>1. 0 \in Int /\ n - 1 \in Int
    BY <1>1
  <2>2. (IF 0 > n - 1 THEN 0 ELSE (n - 1) - 0 + 1) = n
    BY <1>1
  <2>. QED  BY <2>1, <2>2, FS_Interval
<1>5. ExistsBijection(cores, 0 .. n - 1)
  BY <1>3 DEF ExistsBijection
<1>6. IsFiniteSet(cores) /\ Cardinality(cores) = n
  <2>1. ExistsBijection(0 .. n - 1, cores)
    BY <1>5, Fun_ExistsBijSymmetric
  <2>. QED  BY <1>4, <2>1, FS_Bijection, FS_CountingElements
<1>7. {c.id : c \in cores} = 0 .. n - 1
  BY <1>2
<1>. QED  BY <1>2, <1>6, <1>7 DEF n, cores
=============================================================================
