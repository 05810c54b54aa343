------------------------- MODULE LookupPlanning_proofs -------------------------
(***************************************************************************)
(* Proofs about LookupPlanning, for any files, edits, messages, answers,   *)
(* artifacts, hints and outcomes within its assumptions: the steps of a    *)
(* turn are well formed, lookups and what is injected follow the rules the *)
(* turn resolved, the budget takes from the end, the summary tells why,    *)
(* and the engines follow the needs of the plan.                           *)
(*                                                                         *)
(* What recursive functions compute is proved from their equations, by     *)
(* induction on the numbers in a set (NaturalsOf).                         *)
(***************************************************************************)
EXTENDS LookupPlanning, FiniteSetTheorems, SequenceTheorems, WellFoundedInduction, TLAPS

--------------------------------------------------------------------------------
(* Induction, and what is defined by recursion. *)

\* A set of numbers that is not empty has a least.
LEMMA LeastNumber ==
    ASSUME NEW S \in SUBSET Nat, S # {}
    PROVE  \E x \in S : \A y \in S : x <= y
<1>1. PICK x \in S : \A y \in S : ~(<<y, x>> \in OpToRel(<, Nat))
  BY NatLessThanWellFounded, WFMin
<1>2. \A y \in S : x <= y
  <2> SUFFICES ASSUME NEW y \in S PROVE x <= y
    OBVIOUS
  <2>1. ~(<<y, x>> \in OpToRel(<, Nat))
    BY <1>1
  <2>2. ~(y < x)
    BY <2>1 DEF OpToRel
  <2> QED
    BY <2>2
<1> QED
  BY <1>2

\* A set of numbers with 0 and the successor of each of its numbers has all.
LEMMA NaturalsOf ==
    ASSUME NEW S, 0 \in S, \A n \in Nat : n \in S => n + 1 \in S
    PROVE  \A n \in Nat : n \in S
<1> SUFFICES ASSUME {n \in Nat : n \notin S} # {} PROVE FALSE
  OBVIOUS
<1>1. PICK x \in Nat : x \notin S /\ \A y \in Nat : y \notin S => x <= y
  BY LeastNumber, {n \in Nat : n \notin S} \in SUBSET Nat
<1>2. x # 0 /\ x - 1 \in Nat
  BY <1>1
<1>3. x - 1 \in S
  BY <1>1, <1>2
<1> QED
  BY <1>1, <1>2, <1>3, x - 1 + 1 = x

\* The same up to a bound.
LEMMA NumbersUpTo ==
    ASSUME NEW m \in Nat, NEW S, 0 \in S, \A n \in 0 .. m - 1 : n \in S => n + 1 \in S
    PROVE  \A n \in 0 .. m : n \in S
<1> DEFINE T == {n \in Nat : n <= m => n \in S}
<1>1. 0 \in T
  OBVIOUS
<1>2. ASSUME NEW n \in Nat, n \in T PROVE n + 1 \in T
  <2> SUFFICES ASSUME n + 1 <= m PROVE n + 1 \in S
    OBVIOUS
  <2> QED
    BY <1>2, n \in 0 .. m - 1
<1> HIDE DEF T
<1>3. \A n \in Nat : n \in T
  BY <1>1, <1>2, NaturalsOf
<1> QED
  BY <1>3 DEF T

\* A set of numbers up to a bound has a greatest.
LEMMA GreatestNumber ==
    ASSUME NEW m \in Nat, NEW S \in SUBSET (0 .. m), S # {}
    PROVE  \E x \in S : \A y \in S : x >= y
<1> DEFINE T == {n \in 0 .. m : m - n \in S}
<1>1. T # {} /\ T \in SUBSET Nat
  <2>1. PICK x \in S : TRUE
    OBVIOUS
  <2>2. m - x \in 0 .. m /\ m - (m - x) = x
    OBVIOUS
  <2>3. m - x \in T
    BY <2>2
  <2>4. \A n \in T : n \in Nat
    OBVIOUS
  <2> HIDE DEF T
  <2> QED
    BY <2>3, <2>4
<1>2. PICK x \in T : \A y \in T : x <= y
  BY <1>1, LeastNumber
<1>3. ASSUME NEW y \in S PROVE m - x >= y
  <2>1. m - y \in 0 .. m /\ m - (m - y) = y
    OBVIOUS
  <2>2. m - y \in T
    BY <2>1
  <2>3. x <= m - y /\ x \in 0 .. m
    BY <1>2, <2>2
  <2> HIDE DEF T
  <2> QED
    BY <2>1, <2>3
<1> QED
  BY <1>2, <1>3

\* s starts at start, and goes from each value to the next by step.
Unrolls(s, N, S, start, step) ==
    s \in [0 .. N -> S] /\ s[0] = start /\ \A n \in 1 .. N : s[n] = step[<<n, s[n - 1]>>]

\* Recursion up to N: there is such a function.
LEMMA Recursion ==
    ASSUME NEW N \in Nat, NEW S, NEW start \in S, NEW step \in [Nat \X S -> S]
    PROVE  \E s : Unrolls(s, N, S, start, step)
<1> DEFINE Good == {m \in Nat : \E s : Unrolls(s, m, S, start, step)}
<1>1. 0 \in Good
  <2> DEFINE s == [i \in 0 .. 0 |-> start]
  <2>1. Unrolls(s, 0, S, start, step)
    BY DEF Unrolls
  <2> QED
    BY <2>1
<1>2. ASSUME NEW m \in Nat, m \in Good PROVE m + 1 \in Good
  <2>1. PICK h : Unrolls(h, m, S, start, step)
    BY <1>2
  <2>2. h[m] \in S /\ step[<<m + 1, h[m]>>] \in S
    BY <2>1 DEF Unrolls
  <2> DEFINE s == [i \in 0 .. m + 1 |-> IF i = m + 1 THEN step[<<m + 1, h[m]>>] ELSE h[i]]
  <2>3. s \in [0 .. m + 1 -> S]
    BY <2>1, <2>2 DEF Unrolls
  <2>4. s[0] = start
    BY <2>1 DEF Unrolls
  <2>5. ASSUME NEW n \in 1 .. m + 1 PROVE s[n] = step[<<n, s[n - 1]>>]
    <3>1. n - 1 \in 0 .. m + 1 /\ n - 1 # m + 1 /\ n \in 0 .. m + 1
      OBVIOUS
    <3>2. s[n - 1] = h[n - 1]
      BY <3>1
    <3>3. CASE n = m + 1
      BY <3>1, <3>2, <3>3, n - 1 = m
    <3>4. CASE n # m + 1
      BY <2>1, <3>1, <3>2, <3>4, n \in 1 .. m DEF Unrolls
    <3> QED
      BY <3>3, <3>4
  <2> HIDE DEF s
  <2>6. Unrolls(s, m + 1, S, start, step)
    BY <2>3, <2>4, <2>5 DEF Unrolls
  <2> QED
    BY <2>6
<1> HIDE DEF Good
<1>3. N \in Good
  BY <1>1, <1>2, NaturalsOf
<1> QED
  BY <1>3 DEF Good

--------------------------------------------------------------------------------
(* Sequences. *)

\* A function on 1 .. n is a sequence of length n.
LEMMA FunctionSeq ==
    ASSUME NEW S, NEW n \in Nat, NEW f \in [1 .. n -> S]
    PROVE  f \in Seq(S) /\ Len(f) = n
BY SeqDef

\* Adds up the first n of the numbers.
Sums(s, numbers) ==
    /\ s \in [0 .. Len(numbers) -> Nat] /\ s[0] = 0
    /\ \A n \in 1 .. Len(numbers) : s[n] = s[n - 1] + numbers[n]

\* Total is the last of the sums.
LEMMA TotalSums ==
    ASSUME NEW numbers \in Seq(Nat)
    PROVE  \E s : Sums(s, numbers) /\ Total(numbers) = s[Len(numbers)]
<1> DEFINE N == Len(numbers)
           step == [p \in Nat \X Nat |->
                       p[2] + (IF p[1] \in 1 .. N THEN numbers[p[1]] ELSE 0)]
           Sum(s) == s = [n \in 0 .. N |-> IF n = 0 THEN 0 ELSE s[n - 1] + numbers[n]]
<1>1. N \in Nat /\ \A n \in 1 .. N : numbers[n] \in Nat
  OBVIOUS
<1>2. step \in [Nat \X Nat -> Nat]
  BY <1>1
<1> HIDE DEF step
<1>3. PICK s : Unrolls(s, N, Nat, 0, step)
  BY <1>1, <1>2, Recursion
<1>4. Sums(s, numbers)
  <2>1. s \in [0 .. N -> Nat] /\ s[0] = 0
    BY <1>3 DEF Unrolls
  <2>2. ASSUME NEW n \in 1 .. N PROVE s[n] = s[n - 1] + numbers[n]
    <3>1. n \in Nat /\ n - 1 \in 0 .. N
      BY <1>1
    <3>2. s[n - 1] \in Nat
      BY <2>1, <3>1
    <3>3. s[n] = step[<<n, s[n - 1]>>]
      BY <1>3 DEF Unrolls
    <3>4. step[<<n, s[n - 1]>>] = s[n - 1] + numbers[n]
      <4>1. ASSUME NEW x \in Nat PROVE step[<<n, x>>] = x + numbers[n]
        BY <1>1, <3>1 DEF step
      <4> QED
        BY <3>2, <4>1
    <3> QED
      BY <3>3, <3>4
  <2> QED
    BY <2>1, <2>2 DEF Sums
<1>5. Sum(s)
  <2> SUFFICES s = [n \in 0 .. N |-> IF n = 0 THEN 0 ELSE s[n - 1] + numbers[n]]
    OBVIOUS
  <2> QED
    BY <1>1, <1>4 DEF Sums
<1> DEFINE chosen == CHOOSE x : Sum(x)
<1>6. Sum(chosen)
  <2> HIDE DEF Sum
  <2> QED
    BY <1>5
<1>7. Total(numbers) = chosen[N]
  BY DEF Total
<1>8. chosen = s
  <2> DEFINE Same == {n \in 0 .. N : chosen[n] = s[n]}
  <2> HIDE DEF chosen
  <2>1. chosen = [n \in 0 .. N |-> IF n = 0 THEN 0 ELSE chosen[n - 1] + numbers[n]]
    BY <1>6
  <2>2. 0 \in Same
    BY <1>1, <1>4, <2>1 DEF Sums
  <2>3. ASSUME NEW n \in 0 .. N - 1, n \in Same PROVE n + 1 \in Same
    <3>1. n + 1 \in 1 .. N /\ (n + 1) - 1 = n /\ n + 1 \in 0 .. N /\ n + 1 # 0
      BY <1>1
    <3>2. chosen[n + 1] = chosen[n] + numbers[n + 1]
      BY <2>1, <3>1
    <3>3. s[n + 1] = s[n] + numbers[n + 1]
      BY <1>4, <3>1 DEF Sums
    <3> QED
      BY <2>3, <3>1, <3>2, <3>3
  <2>4. \A n \in 0 .. N : n \in Same
    <3> HIDE DEF Same
    <3> QED
      BY <1>1, <2>2, <2>3, NumbersUpTo
  <2> QED
    BY <1>4, <2>1, <2>4 DEF Sums
<1> HIDE DEF chosen
<1> QED
  BY <1>4, <1>7, <1>8

\* A total of numbers is a number.
LEMMA TotalType ==
    ASSUME NEW numbers \in Seq(Nat)
    PROVE  Total(numbers) \in Nat
<1>1. PICK s : Sums(s, numbers) /\ Total(numbers) = s[Len(numbers)]
  BY TotalSums
<1>2. Len(numbers) \in Nat
  OBVIOUS
<1> QED
  BY <1>1, <1>2 DEF Sums

\* The total of ones is how many they are.
LEMMA TotalOfOnes ==
    ASSUME NEW numbers \in Seq(Nat), \A n \in 1 .. Len(numbers) : numbers[n] = 1
    PROVE  Total(numbers) = Len(numbers)
<1>1. PICK s : Sums(s, numbers) /\ Total(numbers) = s[Len(numbers)]
  BY TotalSums
<1> DEFINE N == Len(numbers)
           Counted == {n \in 0 .. N : s[n] = n}
<1>2. N \in Nat
  OBVIOUS
<1>3. 0 \in Counted
  BY <1>1, <1>2 DEF Sums
<1>4. ASSUME NEW n \in 0 .. N - 1, n \in Counted PROVE n + 1 \in Counted
  <2>1. n + 1 \in 1 .. N /\ (n + 1) - 1 = n /\ n + 1 \in 0 .. N
    BY <1>2
  <2>2. s[n + 1] = s[n] + numbers[n + 1]
    BY <1>1, <2>1 DEF Sums
  <2> QED
    BY <1>4, <2>1, <2>2
<1>5. \A n \in 0 .. N : n \in Counted
  <2> HIDE DEF Counted
  <2> QED
    BY <1>2, <1>3, <1>4, NumbersUpTo
<1> QED
  BY <1>1, <1>2, <1>5


\* The first n of the sequences, one after another.
Joins(s, seqs, S) ==
    /\ s \in [0 .. Len(seqs) -> Seq(S)] /\ s[0] = <<>>
    /\ \A n \in 1 .. Len(seqs) : s[n] = s[n - 1] \o seqs[n]

\* FlattenSeq is all of them.
LEMMA Flattened ==
    ASSUME NEW S, NEW seqs \in Seq(Seq(S))
    PROVE  \E s : Joins(s, seqs, S) /\ FlattenSeq(seqs) = s[Len(seqs)]
<1> DEFINE N == Len(seqs)
           step == [p \in Nat \X Seq(S) |->
                       p[2] \o (IF p[1] \in 1 .. N THEN seqs[p[1]] ELSE <<>>)]
           Flat(s) == s = [i \in 1 .. N |-> IF i = 1 THEN seqs[i] ELSE s[i - 1] \o seqs[i]]
<1>1. N \in Nat /\ \A n \in 1 .. N : seqs[n] \in Seq(S)
  OBVIOUS
<1>2. step \in [Nat \X Seq(S) -> Seq(S)] /\ <<>> \in Seq(S)
  <2>1. ASSUME NEW p \in Nat \X Seq(S)
        PROVE  p[2] \o (IF p[1] \in 1 .. N THEN seqs[p[1]] ELSE <<>>) \in Seq(S)
    <3>1. p[2] \in Seq(S) /\ <<>> \in Seq(S)
      OBVIOUS
    <3>2. (IF p[1] \in 1 .. N THEN seqs[p[1]] ELSE <<>>) \in Seq(S)
      BY <1>1, <3>1
    <3> QED
      BY <3>1, <3>2, ConcatProperties
  <2>2. \A p \in Nat \X Seq(S) : step[p] \in Seq(S)
    BY <2>1
  <2>3. DOMAIN step = Nat \X Seq(S) /\ step = [p \in DOMAIN step |-> step[p]]
    OBVIOUS
  <2> HIDE DEF step
  <2>4. step \in [Nat \X Seq(S) -> Seq(S)]
    BY <2>2, <2>3
  <2> QED
    BY <2>4
<1>step. ASSUME NEW n \in 1 .. N, NEW x \in Seq(S) PROVE step[<<n, x>>] = x \o seqs[n]
  <2> DEFINE p == <<n, x>>
  <2>1. p \in Nat \X Seq(S) /\ p[1] = n /\ p[2] = x
    OBVIOUS
  <2> HIDE DEF p
  <2>2. step[p] = p[2] \o (IF p[1] \in 1 .. N THEN seqs[p[1]] ELSE <<>>)
    BY <2>1
  <2>3. step[p] = x \o seqs[n]
    <3> HIDE DEF step, N
    <3> QED
      BY <2>1, <2>2
  <2> QED
    BY <2>3 DEF p
<1> HIDE DEF step
<1>3. PICK s : Unrolls(s, N, Seq(S), <<>>, step)
  BY <1>1, <1>2, Recursion
<1>4. Joins(s, seqs, S)
  <2>1. s \in [0 .. N -> Seq(S)] /\ s[0] = <<>>
    BY <1>3 DEF Unrolls
  <2>2. ASSUME NEW n \in 1 .. N PROVE s[n] = s[n - 1] \o seqs[n]
    <3>1. n \in Nat /\ n - 1 \in 0 .. N
      BY <1>1
    <3>2. s[n - 1] \in Seq(S)
      BY <2>1, <3>1
    <3>3. s[n] = step[<<n, s[n - 1]>>]
      BY <1>3 DEF Unrolls
    <3> QED
      BY <1>step, <3>2, <3>3
  <2> QED
    BY <2>1, <2>2 DEF Joins
<1>5. CASE N = 0
  <2>1. FlattenSeq(seqs) = seqs /\ seqs = <<>>
    BY <1>5 DEF FlattenSeq
  <2> QED
    BY <1>4, <1>5, <2>1 DEF Joins
<1>6. CASE N # 0
  <2> DEFINE flat == [i \in 1 .. N |-> s[i]]
             chosen == CHOOSE x : Flat(x)
  <2>1. Flat(flat)
    <3>1. ASSUME NEW i \in 1 .. N
          PROVE  s[i] = IF i = 1 THEN seqs[i] ELSE flat[i - 1] \o seqs[i]
      <4>1. CASE i = 1
        <5>1. s[1] = s[0] \o seqs[1] /\ s[0] = <<>> /\ seqs[1] \in Seq(S)
          BY <1>1, <1>4, <4>1, 1 - 1 = 0 DEF Joins
        <5>2. <<>> \o seqs[1] = seqs[1]
          BY <5>1, ConcatEmptySeq
        <5> QED
          BY <4>1, <5>1, <5>2
      <4>2. CASE i # 1
        <5>1. i - 1 \in 1 .. N
          BY <1>1, <4>2
        <5> QED
          BY <1>4, <4>2, <5>1 DEF Joins
      <4> QED
        BY <4>1, <4>2
    <3> QED
      BY <3>1
  <2>2. Flat(chosen)
    <3> HIDE DEF Flat, flat
    <3> QED
      BY <2>1
  <2>3. FlattenSeq(seqs) = chosen[N]
    BY <1>6 DEF FlattenSeq
  <2> HIDE DEF chosen
  <2> DEFINE Same == {n \in 0 .. N : n # 0 => chosen[n] = s[n]}
  <2>4. 0 \in Same
    BY <1>1
  <2>5. ASSUME NEW n \in 0 .. N - 1, n \in Same PROVE n + 1 \in Same
    <3>1. n + 1 \in 1 .. N /\ (n + 1) - 1 = n /\ n + 1 \in 0 .. N
      BY <1>1
    <3>2. chosen[n + 1] = IF n + 1 = 1 THEN seqs[n + 1] ELSE chosen[n] \o seqs[n + 1]
      BY <2>2, <3>1
    <3>3. flat[n + 1] = IF n + 1 = 1 THEN seqs[n + 1] ELSE flat[n] \o seqs[n + 1]
      <4> HIDE DEF flat
      <4> QED
        BY <2>1, <3>1
    <3>4. flat[n + 1] = s[n + 1] /\ (n # 0 => flat[n] = s[n])
      BY <1>1, <3>1
    <3>5. n # 0 => chosen[n] = s[n]
      BY <2>5
    <3>6. chosen[n + 1] = s[n + 1]
      <4> HIDE DEF flat, Same
      <4> QED
        BY <3>2, <3>3, <3>4, <3>5
    <3> QED
      BY <3>1, <3>6
  <2>6. \A n \in 0 .. N : n \in Same
    <3> HIDE DEF Same
    <3> QED
      BY <1>1, <2>4, <2>5, NumbersUpTo
  <2>7. chosen[N] = s[N]
    BY <1>1, <1>6, <2>6
  <2> QED
    BY <1>4, <2>3, <2>7
<1> QED
  BY <1>5, <1>6

\* What is flattened is a sequence of what is in the sequences.
LEMMA FlattenType ==
    ASSUME NEW S, NEW seqs \in Seq(Seq(S))
    PROVE  FlattenSeq(seqs) \in Seq(S)
<1>1. PICK s : Joins(s, seqs, S) /\ FlattenSeq(seqs) = s[Len(seqs)]
  BY Flattened
<1>2. Len(seqs) \in Nat
  OBVIOUS
<1> QED
  BY <1>1, <1>2 DEF Joins

\* What is wanted of a sequence is on it and wanted, and as often as it is on it.
LEMMA WantedType ==
    ASSUME NEW T, NEW seq \in Seq(T), NEW wanted
    PROVE  Wanted(seq, wanted) \in Seq(Range(seq) \intersect wanted)
<1> DEFINE S == Range(seq) \intersect wanted
           seqs == [i \in DOMAIN seq |-> IF seq[i] \in wanted THEN <<seq[i]>> ELSE <<>>]
<1>1. \A i \in DOMAIN seq : seqs[i] \in Seq(S)
  <2> SUFFICES ASSUME NEW i \in DOMAIN seq PROVE seqs[i] \in Seq(S)
    OBVIOUS
  <2>1. seq[i] \in Range(seq)
    BY DEF Range
  <2>2. CASE seq[i] \in wanted
    BY <2>1, <2>2
  <2>3. CASE seq[i] \notin wanted
    BY <2>3
  <2> QED
    BY <2>2, <2>3
<1>2. seqs \in Seq(Seq(S))
  <2>1. DOMAIN seq = 1 .. Len(seq) /\ Len(seq) \in Nat
    OBVIOUS
  <2>2. seqs \in [1 .. Len(seq) -> Seq(S)]
    BY <1>1, <2>1
  <2> HIDE DEF seqs, S
  <2> QED
    BY <2>1, <2>2, FunctionSeq
<1> HIDE DEF S, seqs
<1>3. FlattenSeq(seqs) \in Seq(S)
  BY <1>2, FlattenType
<1> QED
  BY <1>3 DEF Wanted, S, seqs

\* It names nothing twice if the sequence does not.
LEMMA WantedInjective ==
    ASSUME NEW T, NEW seq \in Seq(T), NEW wanted, IsInjective(seq)
    PROVE  IsInjective(Wanted(seq, wanted))
<1> DEFINE N == Len(seq)
           seqs == [i \in DOMAIN seq |-> IF seq[i] \in wanted THEN <<seq[i]>> ELSE <<>>]
<1>1. N \in Nat /\ DOMAIN seq = 1 .. N /\ \A i \in 1 .. N : seq[i] \in T
  OBVIOUS
<1>2. \A i \in 1 .. N : seqs[i] = IF seq[i] \in wanted THEN <<seq[i]>> ELSE <<>>
  BY <1>1
<1>3. seqs \in Seq(Seq(T)) /\ Len(seqs) = N
  <2>1. \A i \in 1 .. N : seqs[i] \in Seq(T)
    BY <1>1, <1>2
  <2>2. seqs \in [1 .. N -> Seq(T)]
    <3> SUFFICES \A i \in 1 .. N : seqs[i] \in Seq(T)
      BY <1>1
    <3> QED
      BY <2>1
  <2> HIDE DEF seqs
  <2> QED
    BY <1>1, <2>2, FunctionSeq
<1> HIDE DEF seqs
<1>4. PICK s : Joins(s, seqs, T) /\ FlattenSeq(seqs) = s[Len(seqs)]
  BY <1>3, Flattened
<1> DEFINE Once(n) == /\ \A a, b \in 1 .. Len(s[n]) : s[n][a] = s[n][b] => a = b
                      /\ \A a \in 1 .. Len(s[n]) : \E i \in 1 .. n : s[n][a] = seq[i]
           Good == {n \in 0 .. N : Once(n)}
<1>5. 0 \in Good
  BY <1>1, <1>4, Len(s[0]) = 0 DEF Joins
<1>6. ASSUME NEW n \in 0 .. N - 1, n \in Good PROVE n + 1 \in Good
  <2> DEFINE t == s[n]
             m == n + 1
  <2>1. m \in 1 .. N /\ m - 1 = n /\ m \in 0 .. N /\ n \in 0 .. N /\ 1 .. n \subseteq 1 .. m
    BY <1>1
  <2>2. t \in Seq(T) /\ Len(t) \in Nat /\ seqs[m] \in Seq(T)
    <3>1. t \in Seq(T)
      BY <1>3, <1>4, <2>1 DEF Joins
    <3>2. seqs[m] \in Seq(T)
      BY <1>3, <2>1
    <3> HIDE DEF t
    <3> QED
      BY <3>1, <3>2
  <2>3. s[m] = t \o seqs[m]
    <3>1. \A k \in 1 .. N : s[k] = s[k - 1] \o seqs[k]
      BY <1>3, <1>4 DEF Joins
    <3> HIDE DEF m
    <3> QED
      BY <2>1, <3>1
  <2>4. CASE seq[m] \notin wanted
    <3>1. s[m] = t
      BY <1>2, <2>1, <2>2, <2>3, <2>4, ConcatEmptySeq
    <3>2. Once(m)
      BY <1>6, <2>1, <3>1
    <3> QED
      BY <2>1, <3>2
  <2>5. CASE seq[m] \in wanted
    <3>1. seqs[m] = <<seq[m]>> /\ Len(seqs[m]) = 1 /\ seqs[m][1] = seq[m]
      <4>1. seqs[m] = <<seq[m]>>
        BY <1>2, <2>1, <2>5
      <4> HIDE DEF m
      <4> QED
        BY <4>1
    <3>2. Len(s[m]) = Len(t) + 1
      BY <2>2, <2>3, <3>1, ConcatProperties
    <3>3. \A a \in 1 .. Len(t) + 1 :
             s[m][a] = IF a <= Len(t) THEN t[a] ELSE seqs[m][a - Len(t)]
      <4> HIDE DEF t
      <4> QED
        BY <2>2, <2>3, <3>1, ConcatProperties
    <3>4. s[m][Len(t) + 1] = seq[m]
      <4>1. Len(t) + 1 \in 1 .. Len(t) + 1 /\ ~(Len(t) + 1 <= Len(t)) /\ (Len(t) + 1) - Len(t) = 1
        BY <2>2
      <4> HIDE DEF t, m
      <4> QED
        BY <3>1, <3>3, <4>1
    <3>5. \A a \in 1 .. Len(t) : s[m][a] = t[a]
      BY <2>2, <3>3
    <3>6. ASSUME NEW a \in 1 .. Len(t) PROVE t[a] # seq[m]
      <4>1. PICK i \in 1 .. n : t[a] = seq[i]
        BY <1>6
      <4>2. i \in DOMAIN seq /\ m \in DOMAIN seq /\ i # m
        BY <1>1, <2>1
      <4> QED
        BY <4>1, <4>2 DEF IsInjective
    <3>7. ASSUME NEW a \in 1 .. Len(s[m]), NEW b \in 1 .. Len(s[m]), s[m][a] = s[m][b]
          PROVE  a = b
      <4>1. (a \in 1 .. Len(t) \/ a = Len(t) + 1) /\ (b \in 1 .. Len(t) \/ b = Len(t) + 1)
        BY <2>2, <3>2
      <4>2. CASE a \in 1 .. Len(t) /\ b \in 1 .. Len(t)
        BY <1>6, <3>5, <3>7, <4>2
      <4>3. CASE ~(a \in 1 .. Len(t) /\ b \in 1 .. Len(t))
        <5> HIDE DEF t, m
        <5> QED
          BY <3>4, <3>5, <3>6, <3>7, <4>1, <4>3
      <4> QED
        BY <4>2, <4>3
    <3>8. ASSUME NEW a \in 1 .. Len(s[m]) PROVE \E i \in 1 .. m : s[m][a] = seq[i]
      <4>1. a \in 1 .. Len(t) \/ a = Len(t) + 1
        BY <2>2, <3>2
      <4>2. CASE a \in 1 .. Len(t)
        BY <1>6, <2>1, <3>5, <4>2
      <4>3. CASE a = Len(t) + 1
        BY <2>1, <3>4, <4>3
      <4> QED
        BY <4>1, <4>2, <4>3
    <3> QED
      BY <2>1, <3>7, <3>8
  <2> QED
    BY <2>4, <2>5
<1>7. \A n \in 0 .. N : n \in Good
  <2> HIDE DEF Good
  <2> QED
    BY <1>1, <1>5, <1>6, NumbersUpTo
<1>8. Once(N) /\ s[N] \in Seq(T)
  <2>0. N \in 0 .. N
    BY <1>1
  <2>1. N \in Good
    <3> HIDE DEF Good, N
    <3> QED
      BY <1>7, <2>0
  <2>2. s[N] \in Seq(T)
    <3>1. s \in [0 .. N -> Seq(T)]
      BY <1>3, <1>4 DEF Joins
    <3> HIDE DEF N
    <3> QED
      BY <2>0, <3>1
  <2> QED
    BY <2>1, <2>2
<1>9. Wanted(seq, wanted) = s[N]
  BY <1>3, <1>4 DEF Wanted, seqs
<1>10. DOMAIN s[N] = 1 .. Len(s[N])
  BY <1>8
<1> QED
  BY <1>8, <1>9, <1>10 DEF IsInjective

\* The first n of a sequence begin it.
LEMMA FirstOfType ==
    ASSUME NEW T, NEW seq \in Seq(T), NEW n \in Nat
    PROVE  /\ FirstOf(seq, n) \in Seq(T)
           /\ Len(FirstOf(seq, n)) = IF Len(seq) < n THEN Len(seq) ELSE n
           /\ \A i \in 1 .. Len(FirstOf(seq, n)) : FirstOf(seq, n)[i] = seq[i]
<1> DEFINE m == IF Len(seq) < n THEN Len(seq) ELSE n
<1>1. m \in Nat /\ m <= Len(seq) /\ Len(seq) \in Nat
  OBVIOUS
<1>2. \A i \in 1 .. m : seq[i] \in T
  BY <1>1
<1> HIDE DEF m
<1>3. /\ SubSeq(seq, 1, m) \in Seq(T)
      /\ Len(SubSeq(seq, 1, m)) = IF 1 <= m THEN m - 1 + 1 ELSE 0
      /\ \A i \in 1 .. m - 1 + 1 : SubSeq(seq, 1, m)[i] = seq[1 + i - 1]
  BY <1>1, <1>2, SubSeqProperties
<1>4. Len(SubSeq(seq, 1, m)) = m
  BY <1>1, <1>3
<1>5. ASSUME NEW i \in 1 .. m PROVE SubSeq(seq, 1, m)[i] = seq[i]
  BY <1>1, <1>3, i \in 1 .. m - 1 + 1, 1 + i - 1 = i
<1> QED
  BY <1>3, <1>4, <1>5 DEF FirstOf, m

--------------------------------------------------------------------------------
(* Engines. *)

Pairs(score) == {<<score[i], i>> : i \in DOMAIN score}
Ahead(score, e) ==
    {f \in Pairs(score) : f[1] > e[1] \/ (f[1] = e[1] /\ f[2] < e[2])}

\* Whatever the scores, each rank is someone's.
LEMMA Ranking ==
    ASSUME NEW N \in Nat, NEW score \in [1 .. N -> Int]
    PROVE  \A n \in 1 .. N : \E e \in Pairs(score) : Cardinality(Ahead(score, e)) = n - 1
<1> DEFINE P == Pairs(score)
           rank == [i \in 1 .. N |-> Cardinality(Ahead(score, <<score[i], i>>))]
           place == [i \in 1 .. N |-> <<score[i], i>>]
<1>1. IsFiniteSet(P) /\ Cardinality(P) = N
  <2>1. IsFiniteSet(1 .. N) /\ Cardinality(1 .. N) = N
    BY FS_Interval
  <2>2. place \in Surjection(1 .. N, P)
    BY DEF Surjection, Pairs
  <2>3. place \in Injection(1 .. N, P)
    <3>1. place \in [1 .. N -> P]
      BY DEF Pairs
    <3>2. IsInjective(place)
      BY DEF IsInjective
    <3> QED
      BY <3>1, <3>2 DEF Injection
  <2> HIDE DEF place, P
  <2> QED
    BY <2>1, <2>2, <2>3, FS_Surjection
<1>2. \A i \in 1 .. N : place[i] \in P /\ place[i][1] = score[i] /\ place[i][2] = i
  BY DEF Pairs
<1>3. \A e \in P : \E i \in 1 .. N : e = place[i]
  BY DEF Pairs
<1>rank. \A i \in 1 .. N : rank[i] = Cardinality(Ahead(score, place[i]))
  OBVIOUS
<1>range. rank = [i \in 1 .. N |-> rank[i]]
  OBVIOUS
<1> HIDE DEF rank, place
<1> DEFINE Before(i, j) == score[i] > score[j] \/ (score[i] = score[j] /\ i < j)
<1>4. \A i, j \in 1 .. N : place[i] \in Ahead(score, place[j]) <=> Before(i, j)
  BY <1>2 DEF Ahead
<1>5. ASSUME NEW i \in 1 .. N, NEW j \in 1 .. N, Before(i, j) PROVE rank[i] < rank[j]
  <2> DEFINE A == Ahead(score, place[i])
             B == Ahead(score, place[j])
  <2>1. A \subseteq P /\ B \subseteq P
    BY DEF Ahead
  <2>2. place[i] \in B /\ place[i] \notin A
    BY <1>4, <1>5
  <2>3. A \subseteq B
    <3> SUFFICES ASSUME NEW e \in A PROVE e \in B
      OBVIOUS
    <3>1. PICK k \in 1 .. N : e = place[k]
      BY <1>3, <2>1
    <3>2. Before(k, i)
      BY <1>4, <3>1
    <3>3. Before(k, j)
      BY <1>5, <3>2
    <3> QED
      BY <1>4, <3>1, <3>3
  <2> HIDE DEF A, B
  <2>4. IsFiniteSet(A) /\ IsFiniteSet(B)
    BY <1>1, <2>1, FS_Subset
  <2>5. Cardinality(A) \in Nat /\ Cardinality(B) \in Nat
    BY <2>4, FS_CardinalityType
  <2>6. Cardinality(A) <= Cardinality(B) /\ (Cardinality(B) = Cardinality(A) => B = A)
    BY <2>3, <2>4, FS_Subset
  <2>7. Cardinality(A) < Cardinality(B)
    BY <2>2, <2>5, <2>6
  <2> QED
    BY <1>rank, <2>7 DEF A, B
<1>6. ASSUME NEW i \in 1 .. N PROVE rank[i] \in 0 .. N - 1
  <2> DEFINE A == Ahead(score, place[i])
  <2>1. A \subseteq P /\ place[i] \notin A /\ place[i] \in P
    BY <1>2, <1>4 DEF Ahead
  <2> HIDE DEF A
  <2>2. IsFiniteSet(A) /\ Cardinality(A) <= N /\ (N = Cardinality(A) => P = A)
    BY <1>1, <2>1, FS_Subset
  <2>3. Cardinality(A) \in Nat
    BY <2>2, FS_CardinalityType
  <2>4. Cardinality(A) \in 0 .. N - 1
    BY <2>1, <2>2, <2>3
  <2> QED
    BY <1>rank, <2>4 DEF A
<1>7. rank \in Injection(1 .. N, 0 .. N - 1)
  <2>1. rank \in [1 .. N -> 0 .. N - 1]
    BY <1>6, <1>range
  <2>2. ASSUME NEW i \in 1 .. N, NEW j \in 1 .. N, rank[i] = rank[j] PROVE i = j
    <3>1. Before(i, j) \/ Before(j, i) \/ i = j
      OBVIOUS
    <3>2. rank[i] \in Int /\ rank[j] \in Int
      BY <1>6
    <3>3. ~Before(i, j) /\ ~Before(j, i)
      <4> HIDE DEF Before
      <4> QED
        BY <1>5, <2>2, <3>2
    <3> HIDE DEF Before
    <3> QED
      BY <3>1, <3>3
  <2> QED
    BY <2>1, <2>2 DEF Injection, IsInjective
<1>8. /\ IsFiniteSet(1 .. N) /\ Cardinality(1 .. N) = N
      /\ IsFiniteSet(0 .. N - 1) /\ Cardinality(0 .. N - 1) = N
  <2>1. Cardinality(0 .. N - 1) = IF 0 > N - 1 THEN 0 ELSE N - 1 - 0 + 1
    BY FS_Interval
  <2>2. (IF 0 > N - 1 THEN 0 ELSE N - 1 - 0 + 1) = N
    OBVIOUS
  <2>3. IsFiniteSet(1 .. N) /\ IsFiniteSet(0 .. N - 1)
    BY FS_Interval
  <2>4. Cardinality(1 .. N) = N
    BY FS_Interval
  <2> QED
    BY <2>1, <2>2, <2>3, <2>4
<1>9. rank \in Surjection(1 .. N, 0 .. N - 1)
  BY <1>7, <1>8, FS_Injection
<1>10. ASSUME NEW n \in 1 .. N PROVE \E e \in Pairs(score) : Cardinality(Ahead(score, e)) = n - 1
  <2>1. n - 1 \in 0 .. N - 1
    OBVIOUS
  <2>2. PICK i \in 1 .. N : rank[i] = n - 1
    BY <1>9, <2>1 DEF Surjection
  <2> QED
    BY <1>2, <1>rank, <2>2
<1> QED
  BY <1>10

Local == {"local_router_primary", "local_agent", "local_reasoner_fallback", "cloud_fast",
          "cloud_deep"}

\* The registry: seven engines, of seven names; the last two are of the web.
LEMMA EngineFacts ==
    /\ DOMAIN Engines = 1 .. 7 /\ Len(Engines) = 7 /\ Engines \in Seq(Range(Engines))
    /\ \A i, j \in 1 .. 7 : Engines[i].name = Engines[j].name => i = j
    /\ \A i \in 1 .. 7 : Engines[i].web <=> i \in {6, 7}
    /\ \A i \in 1 .. 7 : Engines[i].name \in WebEngines <=> i \in {6, 7}
    /\ WebEngines = {"cloud_web_fast", "cloud_web_deep"}
    /\ EngineNames = WebEngines \union Local
<1>1. DOMAIN Engines = 1 .. 7 /\ Len(Engines) = 7
  BY DEF Engines
<1>2. \A e : e \in Range(Engines) <=> \E i \in 1 .. 7 : e = Engines[i]
  BY <1>1 DEF Range
<1>3. /\ Engines[1] = EngineOf("local_router_primary",    FALSE, FALSE, 1, 1, 0, 0)
      /\ Engines[2] = EngineOf("local_agent",             FALSE, FALSE, 1, 2, 0, 0)
      /\ Engines[3] = EngineOf("local_reasoner_fallback", FALSE, FALSE, 4, 4, 3, 1)
      /\ Engines[4] = EngineOf("cloud_fast",              TRUE,  FALSE, 4, 4, 5, 3)
      /\ Engines[5] = EngineOf("cloud_deep",              TRUE,  FALSE, 5, 5, 5, 1)
      /\ Engines[6] = EngineOf("cloud_web_fast",          TRUE,  TRUE,  4, 4, 4, 2)
      /\ Engines[7] = EngineOf("cloud_web_deep",          TRUE,  TRUE,  5, 5, 4, 1)
  BY DEF Engines
<1>4. /\ Engines[1].name = "local_router_primary" /\ Engines[2].name = "local_agent"
      /\ Engines[3].name = "local_reasoner_fallback" /\ Engines[4].name = "cloud_fast"
      /\ Engines[5].name = "cloud_deep" /\ Engines[6].name = "cloud_web_fast"
      /\ Engines[7].name = "cloud_web_deep"
  BY <1>3 DEF EngineOf
<1>5. /\ ~Engines[1].web /\ ~Engines[2].web /\ ~Engines[3].web /\ ~Engines[4].web
      /\ ~Engines[5].web /\ Engines[6].web /\ Engines[7].web
  BY <1>3 DEF EngineOf
<1>6. \A i \in 1 .. 7 : i = 1 \/ i = 2 \/ i = 3 \/ i = 4 \/ i = 5 \/ i = 6 \/ i = 7
  OBVIOUS
<1>7. \A i, j \in 1 .. 7 : Engines[i].name = Engines[j].name => i = j
  BY <1>4, <1>6
<1>8. \A i \in 1 .. 7 : Engines[i].web <=> i \in {6, 7}
  BY <1>5, <1>6
<1>9. WebEngines = {"cloud_web_fast", "cloud_web_deep"}
  <2>1. \A x : x \in WebEngines <=> \E i \in 1 .. 7 : Engines[i].web /\ x = Engines[i].name
    BY <1>2 DEF WebEngines
  <2>2. \A x : x \in WebEngines <=> x = Engines[6].name \/ x = Engines[7].name
    BY <1>8, <2>1
  <2> QED
    BY <1>4, <2>2
<1>10. EngineNames = WebEngines \union Local
  <2>1. \A x : x \in EngineNames <=> \E i \in 1 .. 7 : x = Engines[i].name
    BY <1>2 DEF EngineNames
  <2> QED
    BY <1>4, <1>6, <1>9, <2>1 DEF Local
<1>11. \A i \in 1 .. 7 : Engines[i].name \in WebEngines <=> i \in {6, 7}
  BY <1>4, <1>6, <1>9
<1>12. Engines \in Seq(Range(Engines))
  <2>1. Engines \in [1 .. 7 -> Range(Engines)]
    <3>1. \A i \in 1 .. 7 : Engines[i] \in Range(Engines)
      BY <1>2
    <3>2. Engines = [i \in 1 .. 7 |-> Engines[i]]
      BY DEF Engines
    <3> QED
      BY <3>1, <3>2
  <2> QED
    BY <2>1, FunctionSeq
<1> QED
  BY <1>1, <1>7, <1>8, <1>9, <1>10, <1>11, <1>12

\* Scores are numbers.
LEMMA ScoreType ==
    ASSUME NEW needs, NEW i \in 1 .. 7
    PROVE  Score(Engines[i], needs) \in Int
<1> DEFINE e == Engines[i]
<1>1. e.reasoning \in Int /\ e.creative \in Int /\ e.translation \in Int /\ e.speed \in Int
  BY DEF Engines, EngineOf
<1> HIDE DEF e
<1>2. \A c, p : p \in Int => If(c, p) \in Int
  BY DEF If
<1>3. \A r, q \in Int : Lacking(r, q) \in Int
  BY DEF If, Lacking
<1>4. \A l : RequiredQuality(l) \in Int
  BY DEF RequiredQuality
<1>5. Score(e, needs) \in Int
  <2>1. Lacking(RequiredQuality(needs.style), e.creative) \in Int
    BY <1>1, <1>3, <1>4
  <2>2. Lacking(RequiredQuality(needs.depth), e.reasoning) \in Int
    BY <1>1, <1>3, <1>4
  <2> HIDE DEF Lacking
  <2> QED
    BY <1>1, <2>1, <2>2 DEF Score, If
<1> QED
  BY <1>5 DEF e

\* With a need of the web, one engine of the web scores more than any other.
LEMMA WebScoresBest ==
    ASSUME NEW needs, OfTheWeb(needs), NEW i \in 1 .. 5
    PROVE  Score(Engines[7], needs) > Score(Engines[i], needs)
<1>1. NeedsCloud(needs)
  BY DEF NeedsCloud
<1>2. RequiredQuality(needs.style) \in {1, 3, 5} /\ RequiredQuality(needs.depth) \in {1, 3, 5}
  BY DEF RequiredQuality
<1>3. CASE i = 1
  <2>1. CASE needs.depth = "deep" /\ needs.output = "artifact"
    BY <1>1, <1>2, <1>3, <2>1 DEF Score, If, Lacking, Engines, EngineOf
  <2>2. CASE needs.depth = "deep" /\ needs.output # "artifact"
    BY <1>1, <1>2, <1>3, <2>2 DEF Score, If, Lacking, Engines, EngineOf
  <2>3. CASE needs.depth # "deep" /\ needs.output = "artifact"
    BY <1>1, <1>2, <1>3, <2>3 DEF Score, If, Lacking, Engines, EngineOf
  <2>4. CASE needs.depth # "deep" /\ needs.output # "artifact"
    BY <1>1, <1>2, <1>3, <2>4 DEF Score, If, Lacking, Engines, EngineOf
  <2> QED
    BY <2>1, <2>2, <2>3, <2>4
<1>4. CASE i = 2
  BY <1>1, <1>2, <1>4 DEF Score, If, Lacking, Engines, EngineOf
<1>5. CASE i = 3
  BY <1>1, <1>2, <1>5 DEF Score, If, Lacking, Engines, EngineOf
<1>6. CASE i = 4
  BY <1>1, <1>2, <1>6 DEF Score, If, Lacking, Engines, EngineOf
<1>7. CASE i = 5
  BY <1>1, <1>2, <1>7 DEF Score, If, Lacking, Engines, EngineOf
<1> QED
  BY <1>3, <1>4, <1>5, <1>6, <1>7

\* ByScore orders all seven engines, with one of the web first if one is needed.
LEMMA ByScoreOrders ==
    ASSUME NEW needs
    PROVE  /\ ByScore(needs) \in Seq(Range(Engines)) /\ Len(ByScore(needs)) = 7
           /\ \A m, n \in 1 .. 7 : ByScore(needs)[m].name = ByScore(needs)[n].name => m = n
           /\ OfTheWeb(needs) => ByScore(needs)[1].web
<1> DEFINE scored == {<<Score(Engines[i], needs), i>> : i \in DOMAIN Engines}
           ahead(e) == {f \in scored : f[1] > e[1] \/ (f[1] = e[1] /\ f[2] < e[2])}
           chosen(n) == CHOOSE e \in scored : Cardinality(ahead(e)) = n - 1
           score == [i \in 1 .. 7 |-> Score(Engines[i], needs)]
           Place(n, e) == e \in scored /\ Cardinality(ahead(e)) = n - 1
<1>1. ByScore(needs) = [n \in DOMAIN Engines |-> Engines[chosen(n)[2]]]
  BY DEF ByScore
<1>2. DOMAIN Engines = 1 .. 7 /\ \A i, j \in 1 .. 7 : Engines[i].name = Engines[j].name => i = j
  BY EngineFacts
<1>3. score \in [1 .. 7 -> Int] /\ \A i \in 1 .. 7 : score[i] = Score(Engines[i], needs)
  BY ScoreType
<1>4. scored = Pairs(score)
  <2>1. DOMAIN score = 1 .. 7 /\ \A i \in 1 .. 7 : score[i] = Score(Engines[i], needs)
    OBVIOUS
  <2> HIDE DEF score
  <2> QED
    BY <1>2, <2>1 DEF Pairs
<1>5. \A e : ahead(e) = Ahead(score, e)
  <2> HIDE DEF scored, score
  <2> QED
    BY <1>4 DEF Ahead
<1>6. ASSUME NEW n \in 1 .. 7 PROVE Place(n, chosen(n))
  <2>1. \E e \in Pairs(score) : Cardinality(Ahead(score, e)) = n - 1
    <3> HIDE DEF score
    <3> QED
      BY <1>3, Ranking
  <2>2. \E e \in scored : Cardinality(ahead(e)) = n - 1
    <3> HIDE DEF scored, score, ahead
    <3> QED
      BY <1>4, <1>5, <2>1
  <2> HIDE DEF scored, ahead
  <2> QED
    BY <2>2
<1> HIDE DEF chosen, score, ahead
<1>7. ASSUME NEW n \in 1 .. 7
      PROVE  chosen(n)[2] \in 1 .. 7 /\ chosen(n) = <<score[chosen(n)[2]], chosen(n)[2]>>
  <2>1. chosen(n) \in scored
    BY <1>6
  <2>2. PICK i \in 1 .. 7 : chosen(n) = <<score[i], i>>
    BY <1>2, <1>3, <2>1
  <2> QED
    BY <2>2
<1>8. ASSUME NEW m \in 1 .. 7, NEW n \in 1 .. 7, chosen(m)[2] = chosen(n)[2] PROVE m = n
  <2>1. chosen(m) = chosen(n)
    BY <1>7, <1>8
  <2>2. Cardinality(ahead(chosen(m))) = m - 1 /\ Cardinality(ahead(chosen(n))) = n - 1
    BY <1>6
  <2> QED
    BY <2>1, <2>2
<1>9. \A n \in 1 .. 7 : ByScore(needs)[n] = Engines[chosen(n)[2]]
  BY <1>1, <1>2
<1>10. ByScore(needs) \in Seq(Range(Engines)) /\ Len(ByScore(needs)) = 7
  <2>1. \A i \in 1 .. 7 : Engines[i] \in Range(Engines)
    BY <1>2 DEF Range
  <2>2. ByScore(needs) \in [1 .. 7 -> Range(Engines)]
    <3> DEFINE r == ByScore(needs)
    <3>1. \A n \in 1 .. 7 : r[n] \in Range(Engines)
      BY <1>7, <1>9, <2>1
    <3>2. r = [n \in 1 .. 7 |-> r[n]]
      BY <1>1, <1>2
    <3> HIDE DEF r
    <3>3. r \in [1 .. 7 -> Range(Engines)]
      BY <3>1, <3>2
    <3> QED
      BY <3>3 DEF r
  <2> QED
    BY <2>2, FunctionSeq
<1>11. ASSUME NEW m \in 1 .. 7, NEW n \in 1 .. 7, ByScore(needs)[m].name = ByScore(needs)[n].name
       PROVE  m = n
  BY <1>2, <1>7, <1>8, <1>9, <1>11
<1>12. ASSUME OfTheWeb(needs) PROVE ByScore(needs)[1].web
  <2> DEFINE k == chosen(1)[2]
  <2>1. k \in 1 .. 7 /\ chosen(1) = <<score[k], k>>
    BY <1>7
  <2>2. ahead(chosen(1)) = {}
    <3>1. Cardinality(ahead(chosen(1))) = 0
      BY <1>6
    <3>2. ahead(chosen(1)) \subseteq scored
      BY DEF ahead
    <3>3. IsFiniteSet(scored)
      <4> DEFINE place == [i \in 1 .. 7 |-> <<score[i], i>>]
      <4>1. place \in Surjection(1 .. 7, scored)
        BY <1>2, <1>3 DEF Surjection
      <4>2. IsFiniteSet(1 .. 7)
        <5>1. \A n \in Nat : IsFiniteSet(1 .. n)
          BY FS_Interval
        <5> QED
          BY <5>1
      <4> HIDE DEF place, scored
      <4> QED
        BY <4>1, <4>2, FS_Surjection
    <3> HIDE DEF scored
    <3>4. IsFiniteSet(ahead(chosen(1)))
      BY <3>2, <3>3, FS_Subset
    <3> QED
      BY <3>1, <3>4, FS_EmptySet
  <2>3. <<score[7], 7>> \in scored
    BY <1>2, <1>3
  <2>4. ~(score[7] > score[k])
    <3>1. <<score[7], 7>> \notin ahead(chosen(1))
      BY <2>2
    <3>2. chosen(1)[1] = score[k]
      <4> HIDE DEF k
      <4> QED
        BY <2>1
    <3> HIDE DEF k, scored
    <3> QED
      BY <2>3, <3>1, <3>2 DEF ahead
  <2>5. k \notin 1 .. 5
    BY <1>3, <1>12, <2>1, <2>4, WebScoresBest
  <2> HIDE DEF k
  <2>6. k \in {6, 7}
    BY <2>1, <2>5
  <2> QED
    BY <1>9, <2>1, <2>6, EngineFacts DEF k
<1> QED
  BY <1>10, <1>11, <1>12

\* An engine that is not among the fallbacks, and no fallback twice: no engine is
\* tried twice.
LEMMA SoundChain ==
    ASSUME NEW engine, NEW S, NEW fallbacks \in Seq(S), engine \notin S,
           IsInjective(fallbacks)
    PROVE  /\ IsInjective(<<engine>> \o fallbacks)
           /\ Range(<<engine>> \o fallbacks) = {engine} \union Range(fallbacks)
<1> DEFINE T == S \union {engine}
           one == <<engine>>
           all == one \o fallbacks
<1>1. one \in Seq(T) /\ Len(one) = 1 /\ one[1] = engine
  OBVIOUS
<1>2. fallbacks \in Seq(T) /\ Len(fallbacks) \in Nat /\ DOMAIN fallbacks = 1 .. Len(fallbacks)
  <2>1. S \subseteq T
    OBVIOUS
  <2> HIDE DEF T
  <2> QED
    BY <2>1, SeqMonotonic, LenProperties
<1> HIDE DEF one, T
<1>3. all \in Seq(T) /\ Len(all) = 1 + Len(fallbacks)
  <2>1. all \in Seq(T) /\ Len(all) = Len(one) + Len(fallbacks)
    <3>1. one \in Seq(T) /\ fallbacks \in Seq(T)
      BY <1>1, <1>2
    <3> QED
      BY <3>1, ConcatProperties
  <2> QED
    BY <1>1, <2>1
<1>4. all[1] = engine /\ \A i \in 1 .. 1 + Len(fallbacks) : i # 1 => all[i] = fallbacks[i - 1]
  <2>1. \A i \in 1 .. Len(one) + Len(fallbacks) :
           all[i] = IF i <= Len(one) THEN one[i] ELSE fallbacks[i - Len(one)]
    BY <1>1, <1>2, ConcatProperties
  <2> HIDE DEF all
  <2>2. \A i \in 1 .. 1 + Len(fallbacks) :
           all[i] = IF i <= 1 THEN one[i] ELSE fallbacks[i - 1]
    BY <1>1, <2>1
  <2>3. 1 \in 1 .. 1 + Len(fallbacks)
    BY <1>2
  <2> QED
    BY <1>1, <1>2, <2>2, <2>3
<1>5. Range(all) = {engine} \union Range(fallbacks)
  <2>1. Range(all) = Range(one) \union Range(fallbacks)
    BY <1>1, <1>2, RangeConcatenation
  <2>2. Range(one) = {engine}
    BY DEF Range, one
  <2> QED
    BY <2>1, <2>2
<1> HIDE DEF all
<1>6. ASSUME NEW a \in 1 .. 1 + Len(fallbacks), NEW b \in 1 .. 1 + Len(fallbacks), all[a] = all[b]
      PROVE  a = b
  <2>1. \/ a = 1 /\ all[a] = engine
        \/ a - 1 \in 1 .. Len(fallbacks) /\ all[a] = fallbacks[a - 1]
    BY <1>2, <1>4
  <2>2. \/ b = 1 /\ all[b] = engine
        \/ b - 1 \in 1 .. Len(fallbacks) /\ all[b] = fallbacks[b - 1]
    BY <1>2, <1>4
  <2>3. \A i \in 1 .. Len(fallbacks) : fallbacks[i] # engine
    BY <1>2
  <2>4. \A i, j \in 1 .. Len(fallbacks) : fallbacks[i] = fallbacks[j] => i = j
    BY <1>2 DEF IsInjective
  <2>5. a = b \/ a - 1 = b - 1
    BY <1>6, <2>1, <2>2, <2>3, <2>4
  <2> QED
    BY <1>2, <2>5
<1>7. IsInjective(all)
  BY <1>2, <1>3, <1>6 DEF IsInjective
<1> QED
  BY <1>5, <1>7 DEF all, one

\* What is selected: an engine, and others to fall back to.
Sound(selected) ==
    /\ selected.fallbacks \in Seq(EngineNames \ {selected.engine})
    /\ IsInjective(selected.fallbacks)

OnTheWeb(selected) ==
    selected.engine \in WebEngines /\ selected.fallbacks \in Seq(WebEngines)

\* Engines are selected so, and with a need of the web they are all of the web.
LEMMA SelectEngineSound ==
    ASSUME NEW needs
    PROVE  /\ Sound(SelectEngine(needs))
           /\ needs.web => OnTheWeb(SelectEngine(needs))
<1> DEFINE offline == /\ \/ needs.output \in {"artifact", "translation", "summary"}
                         \/ needs.semantic
                      /\ ~needs.web
           s == SelectEngine(needs)
<1>1. CASE offline
  <2>1. s.engine = "local_agent"
        /\ s.fallbacks = <<"local_router_primary", "cloud_fast", "cloud_deep">>
    BY <1>1 DEF SelectEngine
  <2>2. {"local_router_primary", "cloud_fast", "cloud_deep"} \subseteq EngineNames \ {"local_agent"}
    BY EngineFacts DEF Local
  <2>3. <<"local_router_primary", "cloud_fast", "cloud_deep">>
           \in Seq({"local_router_primary", "cloud_fast", "cloud_deep"})
    OBVIOUS
  <2>4. IsInjective(<<"local_router_primary", "cloud_fast", "cloud_deep">>)
    BY DEF IsInjective
  <2>5. <<"local_router_primary", "cloud_fast", "cloud_deep">>
           \in Seq(EngineNames \ {"local_agent"})
    BY <2>2, <2>3, SeqMonotonic
  <2> QED
    BY <1>1, <2>1, <2>4, <2>5 DEF Sound
<1>2. CASE ~offline
  <2> DEFINE r == ByScore(needs)
             W == {e \in Range(Engines) : OfTheWeb(needs) => e.web}
             rest == Wanted(Tail(r), W)
             kept == FirstOf(rest, 3)
             R == Range(Tail(r)) \intersect W
  <2>1. s.engine = r[1].name /\ s.fallbacks = Names(kept)
    BY <1>2 DEF SelectEngine
  <2>2. /\ r \in Seq(Range(Engines)) /\ Len(r) = 7 /\ r # <<>>
        /\ \A m, n \in 1 .. 7 : r[m].name = r[n].name => m = n
    BY ByScoreOrders
  <2>web. OfTheWeb(needs) => r[1].web
    BY ByScoreOrders
  <2> HIDE DEF r
  <2>3. /\ Tail(r) \in Seq(Range(Engines)) /\ Len(Tail(r)) = 6
        /\ \A i \in 1 .. 6 : Tail(r)[i] = r[i + 1]
    <3>1. /\ Tail(r) \in Seq(Range(Engines)) /\ Len(Tail(r)) = Len(r) - 1
          /\ \A i \in 1 .. Len(Tail(r)) : Tail(r)[i] = r[i + 1]
      BY <2>2, HeadTailProperties
    <3>2. Len(Tail(r)) = 6
      BY <2>2, <3>1
    <3> QED
      BY <3>1, <3>2
  <2>4. DOMAIN Tail(r) = 1 .. 6
    <3>1. DOMAIN Tail(r) = 1 .. Len(Tail(r))
      BY <2>3, LenProperties
    <3> QED
      BY <2>3, <3>1
  <2>5. IsInjective(Tail(r))
    <3> SUFFICES ASSUME NEW a \in 1 .. 6, NEW b \in 1 .. 6, Tail(r)[a] = Tail(r)[b] PROVE a = b
      BY <2>4 DEF IsInjective
    <3>1. Tail(r)[a] = r[a + 1] /\ Tail(r)[b] = r[b + 1]
      BY <2>3
    <3>2. a + 1 \in 1 .. 7 /\ b + 1 \in 1 .. 7
      OBVIOUS
    <3>3. a + 1 = b + 1
      BY <2>2, <3>1, <3>2
    <3> QED
      BY <3>3
  <2>6. rest \in Seq(R) /\ IsInjective(rest)
    BY <2>3, <2>5, WantedType, WantedInjective
  <2> HIDE DEF rest, R
  <2>7. /\ kept \in Seq(R)
        /\ \A i \in 1 .. Len(kept) : kept[i] = rest[i]
        /\ Len(kept) \in Nat /\ Len(kept) <= Len(rest) /\ Len(rest) \in Nat
    <3>1. /\ kept \in Seq(R)
          /\ \A i \in 1 .. Len(kept) : kept[i] = rest[i]
          /\ Len(kept) = IF Len(rest) < 3 THEN Len(rest) ELSE 3
      BY <2>6, FirstOfType, 3 \in Nat
    <3>2. Len(rest) \in Nat
      BY <2>6
    <3> QED
      BY <3>1, <3>2
  <2>8. DOMAIN kept = 1 .. Len(kept) /\ DOMAIN rest = 1 .. Len(rest)
    BY <2>6, <2>7, LenProperties
  <2> HIDE DEF kept
  <2>9. \A i \in 1 .. Len(kept) : kept[i] \in R
    BY <2>7
  <2>10. \A e \in R : e.name \in EngineNames \ {r[1].name} /\ e \in W
    <3> SUFFICES ASSUME NEW e \in R PROVE e.name \in EngineNames \ {r[1].name} /\ e \in W
      OBVIOUS
    <3>1. e \in W /\ e \in Range(Engines)
      BY DEF R
    <3>2. PICK i \in 1 .. 6 : e = r[i + 1]
      BY <2>3, <2>4 DEF R, Range
    <3>3. e.name # r[1].name
      BY <2>2, <3>2, 1 \in 1 .. 7, i + 1 \in 1 .. 7, i + 1 # 1
    <3>4. e.name \in EngineNames
      BY <3>1 DEF EngineNames
    <3> QED
      BY <3>1, <3>3, <3>4
  <2>11. \A e, f \in Range(Engines) : e.name = f.name => e = f
    <3> SUFFICES ASSUME NEW e \in Range(Engines), NEW f \in Range(Engines), e.name = f.name
                 PROVE  e = f
      OBVIOUS
    <3>1. PICK i \in 1 .. 7 : e = Engines[i]
      BY EngineFacts DEF Range
    <3>2. PICK j \in 1 .. 7 : f = Engines[j]
      BY EngineFacts DEF Range
    <3> QED
      BY <3>1, <3>2, EngineFacts
  <2> DEFINE names == Names(kept)
  <2>12. DOMAIN names = 1 .. Len(kept) /\ \A i \in 1 .. Len(kept) : names[i] = kept[i].name
    BY <2>8 DEF Names
  <2>13. names = [i \in 1 .. Len(kept) |-> names[i]]
    BY <2>8 DEF Names
  <2> HIDE DEF names
  <2>14. IsInjective(names)
    <3> SUFFICES ASSUME NEW a \in 1 .. Len(kept), NEW b \in 1 .. Len(kept), names[a] = names[b]
                 PROVE  a = b
      BY <2>12 DEF IsInjective
    <3>1. kept[a].name = kept[b].name /\ kept[a] \in Range(Engines) /\ kept[b] \in Range(Engines)
      BY <2>9, <2>10, <2>12
    <3>2. kept[a] = kept[b]
      BY <2>11, <3>1
    <3>3. a \in DOMAIN rest /\ b \in DOMAIN rest /\ rest[a] = rest[b]
      BY <2>7, <2>8, <3>2
    <3> QED
      BY <2>6, <3>3 DEF IsInjective
  <2>15. names \in Seq(EngineNames \ {r[1].name})
    <3> DEFINE T == EngineNames \ {r[1].name}
    <3>1. \A i \in 1 .. Len(kept) : names[i] \in T
      BY <2>9, <2>10, <2>12
    <3> HIDE DEF T
    <3>2. names \in [1 .. Len(kept) -> T]
      BY <2>13, <3>1
    <3>3. names \in Seq(T)
      BY <2>7, <3>2, FunctionSeq
    <3> QED
      BY <3>3 DEF T
  <2>16. Sound(s)
    BY <2>1, <2>14, <2>15 DEF Sound, names
  <2>17. ASSUME needs.web PROVE OnTheWeb(s)
    <3>1. OfTheWeb(needs)
      BY <2>17 DEF OfTheWeb
    <3>2. \A e \in Range(Engines) : e.web => e.name \in WebEngines
      BY DEF WebEngines
    <3>3. r[1] \in Range(Engines) /\ r[1].web
      BY <2>2, <2>web, <3>1
    <3>4. \A i \in 1 .. Len(kept) : names[i] \in WebEngines
      <4> SUFFICES ASSUME NEW i \in 1 .. Len(kept) PROVE names[i] \in WebEngines
        OBVIOUS
      <4>1. kept[i] \in W /\ names[i] = kept[i].name
        BY <2>9, <2>10, <2>12
      <4> QED
        BY <3>1, <3>2, <4>1
    <3>5. names \in [1 .. Len(kept) -> WebEngines]
      BY <2>13, <3>4
    <3>6. names \in Seq(WebEngines)
      BY <2>7, <3>5, FunctionSeq
    <3>7. r[1].name \in WebEngines
      BY <3>2, <3>3
    <3> QED
      BY <2>1, <3>6, <3>7 DEF OnTheWeb, names
  <2> QED
    BY <2>16, <2>17
<1> QED
  BY <1>1, <1>2

\* Of a sound choice, what is wanted is sound again beside any other engine that
\* is not wanted.
LEMMA ChainWanted ==
    ASSUME NEW s, Sound(s), s.engine \in EngineNames, NEW wanted
    PROVE  /\ Wanted(<<s.engine>> \o s.fallbacks, wanted) \in Seq(EngineNames \intersect wanted)
           /\ IsInjective(Wanted(<<s.engine>> \o s.fallbacks, wanted))
           /\ OnTheWeb(s) =>
                 Wanted(<<s.engine>> \o s.fallbacks, wanted) \in Seq(WebEngines)
<1> DEFINE chain == <<s.engine>> \o s.fallbacks
           S == EngineNames \ {s.engine}
<1>1. s.fallbacks \in Seq(S) /\ s.engine \notin S /\ IsInjective(s.fallbacks)
  BY DEF Sound
<1>2. IsInjective(chain) /\ Range(chain) = {s.engine} \union Range(s.fallbacks)
  <2> HIDE DEF S
  <2> QED
    BY <1>1, SoundChain
<1>3. chain \in Seq(EngineNames)
  <2>1. S \subseteq EngineNames
    OBVIOUS
  <2> HIDE DEF S
  <2>2. s.fallbacks \in Seq(EngineNames)
    BY <1>1, <2>1, SeqMonotonic
  <2>3. <<s.engine>> \in Seq(EngineNames)
    OBVIOUS
  <2> QED
    BY <2>2, <2>3, ConcatProperties
<1>4. Range(chain) \subseteq EngineNames
  BY <1>3, RangeOfSeq
<1>5. ASSUME OnTheWeb(s) PROVE Range(chain) \subseteq WebEngines
  <2>1. Range(s.fallbacks) \subseteq WebEngines /\ s.engine \in WebEngines
    BY <1>5, RangeOfSeq DEF OnTheWeb
  <2> QED
    BY <1>2, <2>1
<1> HIDE DEF chain
<1>6. /\ Wanted(chain, wanted) \in Seq(Range(chain) \intersect wanted)
      /\ IsInjective(Wanted(chain, wanted))
  BY <1>2, <1>3, WantedType, WantedInjective
<1>7. Wanted(chain, wanted) \in Seq(EngineNames \intersect wanted)
  <2> DEFINE A == Range(chain) \intersect wanted
             B == EngineNames \intersect wanted
  <2>1. A \subseteq B
    BY <1>4
  <2>2. Wanted(chain, wanted) \in Seq(A)
    BY <1>6
  <2> HIDE DEF A, B
  <2>3. Wanted(chain, wanted) \in Seq(B)
    BY <2>1, <2>2, SeqMonotonic
  <2> QED
    BY <2>3 DEF B
<1>8. ASSUME OnTheWeb(s) PROVE Wanted(chain, wanted) \in Seq(WebEngines)
  <2> DEFINE A == Range(chain) \intersect wanted
  <2>1. A \subseteq WebEngines
    BY <1>5, <1>8
  <2>2. Wanted(chain, wanted) \in Seq(A)
    BY <1>6
  <2> HIDE DEF A
  <2> QED
    BY <2>1, <2>2, SeqMonotonic
<1> QED
  BY <1>6, <1>7, <1>8 DEF chain

\* Only an engine of the web is taken to be on the web.
LEMMA SelectEngineName ==
    ASSUME NEW needs
    PROVE  SelectEngine(needs).engine \in EngineNames
<1>1. "local_agent" \in EngineNames
  BY EngineFacts DEF Local
<1>2. ByScore(needs)[1].name \in EngineNames
  BY ByScoreOrders DEF EngineNames
<1> QED
  BY <1>1, <1>2 DEF SelectEngine

\* An agent's own engine first, and the choice stays sound; of the web if it was
\* and the agent's is.
LEMMA AtLeastSound ==
    ASSUME NEW tier, NEW s, Sound(s), s.engine \in EngineNames
    PROVE  /\ Sound(AtLeast(tier, s))
           /\ OnTheWeb(s) /\ (tier \in EngineNames => tier \in WebEngines)
                 => OnTheWeb(AtLeast(tier, s))
<1>1. CASE tier \notin EngineNames \/ tier = s.engine
  BY <1>1 DEF AtLeast
<1>2. CASE ~(tier \notin EngineNames \/ tier = s.engine)
  <2> DEFINE fallbacks == Wanted(<<s.engine>> \o s.fallbacks, EngineNames \ {tier})
             B == EngineNames \intersect (EngineNames \ {tier})
  <2>1. /\ fallbacks \in Seq(B) /\ IsInjective(fallbacks)
        /\ OnTheWeb(s) => fallbacks \in Seq(WebEngines)
    BY ChainWanted
  <2> HIDE DEF fallbacks
  <2>2. B = EngineNames \ {tier}
    OBVIOUS
  <2>3. AtLeast(tier, s) = [engine |-> tier, fallbacks |-> fallbacks]
    BY <1>2 DEF AtLeast, fallbacks
  <2> HIDE DEF B
  <2>4. AtLeast(tier, s).engine = tier /\ AtLeast(tier, s).fallbacks = fallbacks
    BY <2>3
  <2> QED
    BY <1>2, <2>1, <2>2, <2>4 DEF Sound, OnTheWeb
<1> QED
  BY <1>1, <1>2

\* What EnginesFollowNeeds says of a plan.
FollowsNeeds(plan) ==
    /\ IsInjective(<<plan.engine>> \o plan.fallbacks)
    /\ plan.web => Range(<<plan.engine>> \o plan.fallbacks) \subseteq WebEngines
    /\ plan.output = "artifact" /\ ~plan.online =>
          Range(<<plan.engine>> \o plan.fallbacks) \intersect WebEngines = {}

\* A plan of what was soundly selected follows the needs once it is locked.
LEMMA LockedFollows ==
    ASSUME NEW c, NEW metadata, NEW needs, NEW s, Sound(s), needs.web => OnTheWeb(s)
    PROVE  FollowsNeeds(LockOffTheWeb(Plan(c, metadata, needs, s)))
<1> DEFINE p == Plan(c, metadata, needs, s)
           S == EngineNames \ {s.engine}
<1>1. /\ p.engine = s.engine /\ p.web = needs.web /\ p.output = needs.output
      /\ p.online = (OfTheWeb(needs) \/ needs.fidelity)
      /\ p.fallbacks = IF FallbacksDisabled THEN <<>> ELSE s.fallbacks
  BY DEF Plan
<1>2. p.fallbacks \in Seq(S) /\ IsInjective(p.fallbacks) /\ p.engine \notin S
  <2>1. <<>> \in Seq(S) /\ IsInjective(<<>>)
    BY DEF IsInjective
  <2> HIDE DEF p
  <2> QED
    BY <1>1, <2>1 DEF Sound
<1>3. needs.web => p.online
  BY <1>1 DEF OfTheWeb
<1>4. CASE p.output # "artifact" \/ p.online
  <2>1. LockOffTheWeb(p) = p
    BY <1>4 DEF LockOffTheWeb
  <2>2. /\ IsInjective(<<p.engine>> \o p.fallbacks)
        /\ Range(<<p.engine>> \o p.fallbacks) = {p.engine} \union Range(p.fallbacks)
    <3> HIDE DEF p, S
    <3> QED
      BY <1>2, SoundChain
  <2>3. ASSUME p.web PROVE Range(<<p.engine>> \o p.fallbacks) \subseteq WebEngines
    <3>1. s.engine \in WebEngines /\ s.fallbacks \in Seq(WebEngines)
      BY <1>1, <2>3 DEF OnTheWeb
    <3>2. p.fallbacks \in Seq(WebEngines)
      BY <1>1, <3>1
    <3>3. Range(p.fallbacks) \subseteq WebEngines
      BY <3>2, RangeOfSeq
    <3> QED
      BY <1>1, <2>2, <3>1, <3>3
  <2> HIDE DEF p
  <2>4. FollowsNeeds(p)
    BY <1>4, <2>2, <2>3 DEF FollowsNeeds
  <2> QED
    BY <2>1, <2>4 DEF p
<1>5. CASE p.output = "artifact" /\ ~p.online
  <2> DEFINE engine == CASE p.engine = "cloud_web_fast" -> "cloud_fast"
                         [] p.engine = "cloud_web_deep" -> "cloud_deep"
                         [] OTHER                       -> p.engine
             fallbacks == Wanted(p.fallbacks, Range(p.fallbacks) \ (WebEngines \union {engine}))
             q == LockOffTheWeb(p)
             R == Range(p.fallbacks) \intersect
                     (Range(p.fallbacks) \ (WebEngines \union {engine}))
  <2>1. q.engine = engine /\ q.fallbacks = fallbacks /\ q.web = p.web
    BY <1>5 DEF LockOffTheWeb, Plan
  <2>2. engine \notin WebEngines
    BY EngineFacts
  <2>3. fallbacks \in Seq(R) /\ IsInjective(fallbacks)
    <3> HIDE DEF p, engine, S
    <3> QED
      BY <1>2, WantedType, WantedInjective
  <2>4. engine \notin R /\ R \intersect WebEngines = {}
    OBVIOUS
  <2>5. ~q.web
    BY <1>1, <1>3, <1>5, <2>1
  <2> HIDE DEF engine, fallbacks, q, R, p
  <2>6. /\ IsInjective(<<engine>> \o fallbacks)
        /\ Range(<<engine>> \o fallbacks) = {engine} \union Range(fallbacks)
    BY <2>3, <2>4, SoundChain
  <2>7. Range(fallbacks) \subseteq R
    BY <2>3, RangeOfSeq
  <2>8. FollowsNeeds(q)
    BY <2>1, <2>2, <2>4, <2>5, <2>6, <2>7 DEF FollowsNeeds
  <2> QED
    BY <2>8 DEF q, p
<1> QED
  BY <1>4, <1>5

\* The ways a plan comes about.
LEMMA PlanCases ==
    ASSUME NEW gate, NEW artifact, NEW message, NEW followup, NEW intent, NEW said, NEW files,
           NEW plan, plan = BuildExecutionPlan(gate, artifact, message, followup, intent, said,
                                               files)
    PROVE  \/ plan = <<>>
           \/ gate.direct /\ plan = <<DirectPlan(gate.direct_type)>>
           \/ ~gate.direct /\ \E c : plan = <<ContinuePlan(c)>>
           \/ ~gate.direct /\ \E engine : plan = <<TransformPlan(engine)>>
           \/ ~gate.direct /\ \E type, c : plan = <<SemanticPlan(type, c, <<>>, message, files)>>
           \/ ~gate.direct /\ intent # <<>>
              /\ \E type, c : plan = <<SemanticPlan(type, c, intent, message, files)>>
           \/ ~gate.direct /\ said # <<>> /\ plan = <<ModelPlan(said[1])>>
<1> DEFINE asked == gate.mode = "NEW_REQUEST" /\ gate.explicit = ""
           told == IF asked THEN intent ELSE <<>>
           capability == IF told # <<>> /\ told[1].capability # "" THEN told[1].capability
                         ELSE gate.capability
           transform == IF ArtifactOperation(gate.mode) THEN message.transform ELSE "none"
           type == SemanticType(gate, artifact, message, told)
           made == IF type # "" THEN type ELSE message.inferred
           Other == IF made # ""
                    THEN IF told # <<>> /\ GovernanceIntrudes(told[1].said) THEN <<>>
                         ELSE <<SemanticPlan(made, capability, told, message, files)>>
                    ELSE IF said = <<>> \/ GovernanceIntrudes(said[1].said) THEN <<>>
                         ELSE <<ModelPlan(said[1])>>
           A == gate.direct
           B == ~gate.direct /\ Continues(gate, artifact, followup)
           C == ~gate.direct /\ transform # "none" /\ type = ""
           D == ~gate.direct /\ transform \notin {"none", "unplanned"} /\ type # ""
<1>1. plan = CASE A -> <<DirectPlan(gate.direct_type)>> [] B -> <<ContinuePlan(capability)>>
                [] C -> <<>> [] D -> <<TransformPlan(transform)>> [] OTHER -> Other
  BY DEF BuildExecutionPlan
<1>2. told = <<>> \/ told = intent
  OBVIOUS
<1>3. \/ A /\ plan = <<DirectPlan(gate.direct_type)>>
      \/ B /\ plan = <<ContinuePlan(capability)>>
      \/ plan = <<>>
      \/ D /\ plan = <<TransformPlan(transform)>>
      \/ ~A /\ plan = Other
  <2> HIDE DEF Other, A, B, C, D, capability, transform
  <2> QED
    BY <1>1
<1>4. ASSUME ~A, plan = Other
      PROVE  \/ plan = <<>> \/ plan = <<SemanticPlan(made, capability, told, message, files)>>
             \/ said # <<>> /\ plan = <<ModelPlan(said[1])>>
  <2> HIDE DEF made, capability, told
  <2> QED
    BY <1>4
<1> HIDE DEF made, capability, told, transform, Other, type
<1> QED
  BY <1>2, <1>3, <1>4

\* Whatever is planned, its engines follow its needs once it is locked.
LEMMA PlanFollowsNeeds ==
    ASSUME NEW gate, NEW artifact, NEW message, NEW hint \in Hints, NEW files, NEW plan,
           plan = BuildExecutionPlan(gate, artifact, message, hint.followup, hint.intent,
                                     hint.said, files),
           plan # <<>>
    PROVE  FollowsNeeds(LockOffTheWeb(plan[1]))
<1> DEFINE Goal == FollowsNeeds(LockOffTheWeb(plan[1]))
<1>0. IsInjective(<<>>) /\ \A S : <<>> \in Seq(S)
  BY DEF IsInjective
<1>1. ASSUME plan = <<DirectPlan(gate.direct_type)>> PROVE Goal
  <2> DEFINE p == DirectPlan(gate.direct_type)
  <2>1. /\ p.output = "general_answer" /\ p.engine = "fast_path_direct_response"
        /\ p.fallbacks = <<>> /\ p.web = FALSE
    BY DEF DirectPlan, Plan, DefaultNeeds
  <2>2. plan[1] = p
    BY <1>1
  <2> HIDE DEF p
  <2>3. LockOffTheWeb(p) = p
    BY <2>1 DEF LockOffTheWeb
  <2>4. IsInjective(<<p.engine>> \o p.fallbacks)
    <3>1. \A S : p.engine \notin S => IsInjective(<<p.engine>> \o p.fallbacks)
      BY <1>0, <2>1, SoundChain
    <3> QED
      BY <3>1, p.engine \notin {}
  <2>5. FollowsNeeds(p)
    BY <2>1, <2>4 DEF FollowsNeeds
  <2> QED
    BY <2>2, <2>3, <2>5
<1>2. ASSUME NEW c, plan = <<ContinuePlan(c)>> PROVE Goal
  <2> DEFINE needs == [DefaultNeeds EXCEPT !.output = "action", !.semantic = FALSE,
                                          !.style = "medium"]
             known == PlannedCapability("ACTION", "", c)
  <2>1. plan[1] = Plan(known, NoMetadata, needs, SelectEngine(needs))
    <3>1. plan[1] = ContinuePlan(c)
      BY <1>2
    <3> QED
      BY <3>1 DEF ContinuePlan
  <2> HIDE DEF needs, known
  <2> QED
    BY <2>1, SelectEngineSound, LockedFollows
<1>3. ASSUME NEW engine, plan = <<TransformPlan(engine)>> PROVE Goal
  <2> DEFINE some == <<"local_agent", "cloud_deep">>
             others == {"local_agent", "cloud_deep"} \ {engine}
             s == [engine |-> engine, fallbacks |-> Wanted(some, others)]
             R == Range(some) \intersect others
  <2>1. plan[1] = Plan("", NoMetadata, DefaultNeeds, s)
    <3>1. plan[1] = TransformPlan(engine)
      BY <1>3
    <3> QED
      BY <3>1 DEF TransformPlan
  <2>2. some \in Seq({"local_agent", "cloud_deep"}) /\ IsInjective(some)
    BY DEF IsInjective
  <2> HIDE DEF some
  <2>3. Wanted(some, others) \in Seq(R) /\ IsInjective(Wanted(some, others))
    BY <2>2, WantedType, WantedInjective
  <2>4. R \subseteq EngineNames \ {engine}
    BY EngineFacts DEF Local
  <2> HIDE DEF others, R
  <2>5. s.engine = engine /\ s.fallbacks = Wanted(some, others)
    OBVIOUS
  <2> HIDE DEF s
  <2>6. Sound(s)
    BY <2>3, <2>4, <2>5, SeqMonotonic DEF Sound
  <2>7. ~DefaultNeeds.web
    BY DEF DefaultNeeds
  <2> QED
    BY <2>1, <2>6, <2>7, LockedFollows
<1>4. ASSUME NEW type, NEW c, NEW told, told = <<>> \/ (hint.intent # <<>> /\ told = hint.intent),
             plan = <<SemanticPlan(type, c, told, message, files)>>
      PROVE  Goal
  <2> DEFINE needs == IF told = <<>> THEN DefaultNeeds ELSE Over(told[1].needs, DefaultNeeds)
             tier == IF told = <<>> THEN "" ELSE told[1].tier
             planned == PlannedCapability("NEW_REQUEST", type, c)
             metadata == DeclareLookupMetadata(AgentBinding(files, planned, Capabilities), message)
             s == AtLeast(tier, SelectEngine(needs))
  <2>1. plan[1] = Plan(planned, metadata, needs, s)
    <3>1. plan[1] = SemanticPlan(type, c, told, message, files)
      BY <1>4
    <3> QED
      BY <3>1 DEF SemanticPlan
  <2>2. needs.web /\ tier \in EngineNames => tier \in WebEngines
    <3>1. CASE told = <<>>
      BY <3>1 DEF DefaultNeeds
    <3>2. CASE told # <<>>
      BY <1>4, <3>2, HintsAssumption
    <3> QED
      BY <3>1, <3>2
  <2>3. Sound(SelectEngine(needs)) /\ SelectEngine(needs).engine \in EngineNames
    BY SelectEngineSound, SelectEngineName
  <2>4. needs.web => OnTheWeb(SelectEngine(needs))
    BY SelectEngineSound
  <2> HIDE DEF needs, tier, planned, metadata
  <2>5. Sound(s) /\ (needs.web => OnTheWeb(s))
    BY <2>2, <2>3, <2>4, AtLeastSound
  <2> HIDE DEF s
  <2> QED
    BY <2>1, <2>5, LockedFollows
<1>5. ASSUME plan = <<ModelPlan(hint.said[1])>> PROVE Goal
  <2> DEFINE needs == [hint.said[1].needs EXCEPT !.semantic = FALSE]
             metadata == hint.said[1].metadata
  <2>1. plan[1] = Plan("", metadata, needs, SelectEngine(needs))
    <3>1. plan[1] = ModelPlan(hint.said[1])
      BY <1>5
    <3> QED
      BY <3>1 DEF ModelPlan
  <2> HIDE DEF needs, metadata
  <2> QED
    BY <2>1, SelectEngineSound, LockedFollows
<1> HIDE DEF Goal
<1>6. \/ plan = <<DirectPlan(gate.direct_type)>>
      \/ \E c : plan = <<ContinuePlan(c)>>
      \/ \E engine : plan = <<TransformPlan(engine)>>
      \/ \E type, c : plan = <<SemanticPlan(type, c, <<>>, message, files)>>
      \/ hint.intent # <<>>
         /\ \E type, c : plan = <<SemanticPlan(type, c, hint.intent, message, files)>>
      \/ plan = <<ModelPlan(hint.said[1])>>
  BY PlanCases
<1>7. Goal
  <2>1. ASSUME NEW type, NEW c, plan = <<SemanticPlan(type, c, <<>>, message, files)>> PROVE Goal
    <3>1. PICK told : told = <<>>
      OBVIOUS
    <3>2. plan = <<SemanticPlan(type, c, told, message, files)>>
      BY <2>1, <3>1
    <3> QED
      BY <1>4, <3>1, <3>2
  <2>2. ASSUME NEW type, NEW c, hint.intent # <<>>,
               plan = <<SemanticPlan(type, c, hint.intent, message, files)>>
        PROVE  Goal
    BY <1>4, <2>2
  <2> QED
    BY <1>1, <1>2, <1>3, <1>5, <1>6, <2>1, <2>2
<1> QED
  BY <1>7 DEF Goal

--------------------------------------------------------------------------------
(* The steps of a turn, field by field. *)

TurnFields ==
    {"pc", "message", "gate", "artifact", "plan", "bundle", "todo", "traces", "requests",
     "results", "packets", "decision", "rendered", "injection", "summary"}

\* The turn has its fields, and so has what the process has read.
Shape ==
    /\ DOMAIN turn = TurnFields
    /\ DOMAIN cache = {"contract", "exact", "bounded"}

\* The fields that are not named keep their values.
Keeps(t, u, changed) == \A f \in TurnFields \ changed : u[f] = t[f]
\* What each step does to the turn.
TakesMessage(t, u) ==
    /\ t.pc \in {"idle", "done", "failed"}
    /\ u.pc = "gated" /\ Len(u.message) = 1 /\ u.message[1] \in Messages
    /\ \E history \in BOOLEAN, answer \in Answers :
          u.gate = AnalyzeRequestGate(u.message[1], history, answer)
    /\ Keeps(NoTurn, u, {"pc", "message", "gate"})

Fails(t, u) == t.pc = "gated" /\ u.pc = "failed" /\ Keeps(t, u, {"pc"})

MakesPlan(t, u) ==
    /\ t.pc = "gated" /\ u.pc = "planned"
    /\ \E artifact, plan : \E hint \in Hints :
          /\ plan = BuildExecutionPlan(t.gate, artifact, t.message[1], hint.followup,
                                       hint.intent, hint.said, agent)
          /\ plan # <<>> /\ u.plan = <<LockOffTheWeb(plan[1])>>
    /\ Keeps(t, u, {"pc", "artifact", "plan"})

Resolves(t, u) ==
    /\ t.pc = "planned" /\ u.pc = "creating"
    /\ u.bundle = Resolve(t.plan[1].capability) /\ u.todo = Todo(t.plan[1].metadata)
    /\ Keeps(t, u, {"pc", "bundle", "todo"})

CreatesRequest(t, u) ==
    /\ t.pc = "creating" /\ t.todo # <<>> /\ u.todo = Tail(t.todo)
    /\ \E resolved, ordinal :
          LET planned == CreateRequest(t.plan[1].capability, Head(t.todo).item, resolved,
                                       Registries, ordinal, Len(t.requests) + 1)
          IN /\ u.requests = t.requests \o planned.request
             /\ u.traces = IF planned.status = "lookup_not_declared" THEN t.traces
                           ELSE Append(t.traces, [reasons |-> planned.reasons])
    /\ Keeps(t, u, {"todo", "requests", "traces"})

HasSummary(u) ==
    u.summary = <<Summary(u.traces, u.requests, u.results, u.packets, u.decision, u.injection)>>

StartsExecuting(t, u) ==
    /\ t.pc = "creating" /\ t.todo = <<>> /\ u.pc = "executing"
    /\ Keeps(t, u, {"pc", "summary"})

ExecutesRequest(t, u) ==
    /\ t.pc = "executing" /\ Len(t.results) < Len(t.requests)
    /\ LET request == t.requests[Len(t.results) + 1]
           refused == Refused(request, t.bundle, Registries)
       IN \E outcome \in Outcomes[request.lookup_type] :
             u.results = Append(t.results, IF refused # {} THEN Result(request, FALSE, <<>>, refused)
                                           ELSE FromExecutor(request, outcome))
    /\ Keeps(t, u, {"results"})

\* What is attached comes of the results and of the policies of the turn.
Attached(u) ==
    /\ u.packets = Materialize(u.results, ContextPolicy(u.bundle, "materialization"))
    /\ u.decision = RenderGate(u.packets, ContextPolicy(u.bundle, "render"))
    /\ u.rendered = Render(u.packets, u.decision, ContextPolicy(u.bundle, "render"))

Attaches(t, u) ==
    /\ t.pc = "executing" /\ Len(t.results) = Len(t.requests) /\ u.pc = "attached"
    /\ Attached(u) /\ HasSummary(u)
    /\ Keeps(t, u, {"pc", "packets", "decision", "rendered", "summary"})

Replies(t, u) ==
    t.pc = "attached" /\ DirectReply(t) /\ u.pc = "done" /\ Keeps(t, u, {"pc"})

Injected(u) ==
    u.injection = <<Inject(u.rendered, u.decision, ContextPolicy(u.bundle, "injection"))>>

Injects(t, u) ==
    /\ t.pc = "attached" /\ u.pc = "done" /\ Injected(u) /\ HasSummary(u)
    /\ Keeps(t, u, {"pc", "injection", "summary"})

Begins(u) == u = NoTurn

TurnSteps(t, u) ==
    \/ TakesMessage(t, u) \/ Fails(t, u) \/ MakesPlan(t, u) \/ Resolves(t, u)
    \/ CreatesRequest(t, u) \/ StartsExecuting(t, u) \/ ExecutesRequest(t, u)
    \/ Attaches(t, u) \/ Replies(t, u) \/ Injects(t, u) \/ Begins(u) \/ u = t

\* What a step changes besides.
ReadsMore(kept, next) ==
    \A name \in DOMAIN kept : next[name] = kept[name] \/ Len(next[name]) \in {0, 1}

\* Between turns there is a turn too, with nothing in any field.
LEMMA NoTurnShape == DOMAIN NoTurn = TurnFields
BY DEF NoTurn, TurnFields

\* Whatever a step does, it is one of TurnSteps to the turn, and leaves each
\* cache as it was or with what was read: one value, or none.
LEMMA ShapeStep ==
    ASSUME Shape, [Next]_vars
    PROVE  Shape' /\ TurnSteps(turn, turn') /\ ReadsMore(cache, cache')
<1> USE DEF Shape
<1>fields. \A f \in {"pc", "message", "gate", "artifact", "plan", "bundle", "todo", "traces",
                     "requests", "results", "packets", "decision", "rendered", "injection",
                     "summary"} : f \in TurnFields
  BY DEF TurnFields
<1>kept. cache' = cache => DOMAIN cache' = DOMAIN cache /\ ReadsMore(cache, cache')
  BY DEF ReadsMore
<1>contract. ASSUME NEW capability
             PROVE  /\ DOMAIN WithContract(cache, capability) = DOMAIN cache
                    /\ ReadsMore(cache, WithContract(cache, capability))
  BY DEF WithContract, Cached, ReadsMore
<1>registry. ASSUME NEW kept, DOMAIN kept = DOMAIN cache, ReadsMore(cache, kept), NEW type
             PROVE  /\ DOMAIN WithRegistry(kept, type) = DOMAIN cache
                    /\ ReadsMore(cache, WithRegistry(kept, type))
  BY <1>registry DEF WithRegistry, Cached, ReadsMore
<1>1. CASE TakeMessage
  <2>1. PICK message \in Messages, history \in BOOLEAN, answer \in Answers :
           turn' = [NoTurn EXCEPT !.pc = "gated", !.message = <<message>>,
                       !.gate = AnalyzeRequestGate(message, history, answer)]
    BY <1>1 DEF TakeMessage
  <2> DEFINE gate == AnalyzeRequestGate(message, history, answer)
  <2>2. turn' = [NoTurn EXCEPT !.pc = "gated", !.message = <<message>>, !.gate = gate]
    BY <2>1
  <2> HIDE DEF gate
  <2>3. /\ DOMAIN turn' = TurnFields /\ turn'.pc = "gated" /\ turn'.message = <<message>>
        /\ turn'.gate = gate /\ Keeps(NoTurn, turn', {"pc", "message", "gate"})
    BY <2>2, <1>fields, NoTurnShape DEF Keeps
  <2>4. turn'.message[1] = message /\ Len(turn'.message) = 1
    BY <2>3
  <2>5. TakesMessage(turn, turn')
    BY <1>1, <2>3, <2>4 DEF TakesMessage, TakeMessage, gate
  <2>6. cache' = cache
    BY <1>1 DEF TakeMessage
  <2> QED
    BY <1>kept, <2>3, <2>5, <2>6 DEF TurnSteps
<1>2. CASE MakePlan
  <2>1. PICK artifact \in Artifacts, hint \in Hints :
          LET loaded == LoadedArtifact(turn.gate, artifact)
              plan == BuildExecutionPlan(turn.gate, loaded, turn.message[1],
                                         hint.followup, hint.intent, hint.said, agent)
              resolves == turn.gate.followup /\ ~ArtifactOperation(turn.gate.mode)
          IN turn' = IF ~MayGround(loaded) \/ (resolves /\ hint.followup = "raises") \/ plan = <<>>
                     THEN [turn EXCEPT !.pc = "failed"]
                     ELSE [turn EXCEPT !.pc = "planned", !.artifact = loaded,
                              !.plan = <<LockOffTheWeb(plan[1])>>]
    BY <1>2 DEF MakePlan
  <2> DEFINE loaded == LoadedArtifact(turn.gate, artifact)
             plan == BuildExecutionPlan(turn.gate, loaded, turn.message[1],
                                        hint.followup, hint.intent, hint.said, agent)
             locked == LockOffTheWeb(plan[1])
  <2>2. \/ turn' = [turn EXCEPT !.pc = "failed"]
        \/ plan # <<>> /\ turn' = [turn EXCEPT !.pc = "planned", !.artifact = loaded,
                                      !.plan = <<locked>>]
    BY <2>1
  <2>3. cache' = cache /\ turn.pc = "gated"
    BY <1>2 DEF MakePlan
  <2> HIDE DEF plan, locked, loaded
  <2>4. CASE turn' = [turn EXCEPT !.pc = "failed"]
    <3>1. DOMAIN turn' = TurnFields /\ turn'.pc = "failed" /\ Keeps(turn, turn', {"pc"})
      BY <2>4, <1>fields DEF Keeps
    <3> QED
      BY <1>kept, <2>3, <3>1 DEF Fails, TurnSteps
  <2>5. CASE plan # <<>> /\ turn' = [turn EXCEPT !.pc = "planned", !.artifact = loaded,
                                        !.plan = <<locked>>]
    <3>1. /\ DOMAIN turn' = TurnFields /\ turn'.pc = "planned" /\ turn'.plan = <<locked>>
          /\ Keeps(turn, turn', {"pc", "artifact", "plan"})
      BY <2>5, <1>fields DEF Keeps
    <3>2. MakesPlan(turn, turn')
      BY <2>3, <2>5, <3>1 DEF MakesPlan, plan, locked
    <3> QED
      BY <1>kept, <2>3, <3>1, <3>2 DEF TurnSteps
  <2> QED
    BY <2>2, <2>4, <2>5
<1>3. CASE ResolveCapability
  <2> DEFINE bundle == Resolve(turn.plan[1].capability)
             todo == Todo(turn.plan[1].metadata)
             read == WithContract(cache, turn.plan[1].capability)
  <2>1. /\ turn.pc = "planned" /\ cache' = read
        /\ turn' = [turn EXCEPT !.pc = "creating", !.bundle = bundle, !.todo = todo]
    BY <1>3 DEF ResolveCapability
  <2>2. DOMAIN read = DOMAIN cache /\ ReadsMore(cache, read)
    BY <1>contract
  <2> HIDE DEF bundle, todo, read
  <2>3. /\ DOMAIN turn' = TurnFields /\ turn'.pc = "creating" /\ turn'.bundle = bundle
        /\ turn'.todo = todo /\ Keeps(turn, turn', {"pc", "bundle", "todo"})
    BY <2>1, <1>fields DEF Keeps
  <2>4. Resolves(turn, turn')
    BY <2>1, <2>3 DEF Resolves, bundle, todo
  <2> QED
    BY <2>1, <2>2, <2>3, <2>4 DEF TurnSteps
<1>4. CASE CreateLookupRequest
  <2> DEFINE capability == turn.plan[1].capability
             resolved == IF turn.bundle # <<>> THEN turn.bundle ELSE Resolve(capability)
             planned == CreateRequest(capability, Head(turn.todo).item, resolved, Registries,
                                      Head(turn.todo).ordinal, Len(turn.requests) + 1)
             read == IF turn.bundle # <<>> THEN cache ELSE WithContract(cache, capability)
             todo == Tail(turn.todo)
             requests == turn.requests \o planned.request
             traces == IF planned.status = "lookup_not_declared" THEN turn.traces
                       ELSE Append(turn.traces, [reasons |-> planned.reasons])
  <2>1. /\ turn.pc = "creating" /\ turn.todo # <<>>
        /\ cache' = read \/ cache' = WithRegistry(read, resolved[1].request.lookup_type)
        /\ turn' = [turn EXCEPT !.todo = Tail(@), !.requests = @ \o planned.request,
                       !.traces = IF planned.status = "lookup_not_declared" THEN @
                                  ELSE Append(@, [reasons |-> planned.reasons])]
    BY <1>4 DEF CreateLookupRequest
  <2>2. turn' = [turn EXCEPT !.todo = todo, !.requests = requests, !.traces = traces]
    <3> HIDE DEF planned
    <3> QED
      BY <2>1, <1>fields
  <2>3. DOMAIN read = DOMAIN cache /\ ReadsMore(cache, read)
    BY <1>contract DEF ReadsMore
  <2>4. DOMAIN cache' = DOMAIN cache /\ ReadsMore(cache, cache')
    <3> HIDE DEF read, resolved
    <3> QED
      BY <1>registry, <2>1, <2>3
  <2> HIDE DEF todo, requests, traces
  <2>5. /\ DOMAIN turn' = TurnFields /\ turn'.todo = todo /\ turn'.requests = requests
        /\ turn'.traces = traces /\ Keeps(turn, turn', {"todo", "requests", "traces"})
    BY <2>2, <1>fields DEF Keeps
  <2>6. CreatesRequest(turn, turn')
    <3> HIDE DEF resolved
    <3> QED
      BY <2>1, <2>5 DEF CreatesRequest, todo, requests, traces
  <2> QED
    BY <2>4, <2>5, <2>6 DEF TurnSteps
<1>5. CASE AllCreated
  <2> DEFINE summary == <<Summary(turn.traces, turn.requests, turn.results, turn.packets,
                                  turn.decision, turn.injection)>>
             next == [turn EXCEPT !.pc = "executing"]
  <2>1. turn.pc = "creating" /\ turn.todo = <<>> /\ cache' = cache /\ turn' = Summarized(next)
    BY <1>5 DEF AllCreated
  <2>2. DOMAIN next = TurnFields /\ next.pc = "executing" /\ Keeps(turn, next, {"pc"})
    BY <1>fields DEF Keeps
  <2> HIDE DEF next
  <2>3. \E v : turn' = [next EXCEPT !.summary = v]
    BY <2>1 DEF Summarized
  <2>4. DOMAIN turn' = TurnFields /\ Keeps(next, turn', {"summary"})
    BY <2>2, <2>3, <1>fields DEF Keeps
  <2>5. turn'.pc = "executing" /\ Keeps(turn, turn', {"pc", "summary"})
    BY <2>2, <2>4, <1>fields DEF Keeps
  <2> QED
    BY <1>kept, <2>1, <2>4, <2>5 DEF StartsExecuting, TurnSteps
<1>6. CASE ExecuteLookupRequest
  <2> DEFINE request == turn.requests[Len(turn.results) + 1]
             refused == Refused(request, turn.bundle, Registries)
             read == WithRegistry(cache, request.lookup_type)
             result(outcome) == IF refused # {} THEN Result(request, FALSE, <<>>, refused)
                                ELSE FromExecutor(request, outcome)
  <2>1. /\ turn.pc = "executing" /\ Len(turn.results) < Len(turn.requests) /\ cache' = read
        /\ \E outcome \in Outcomes[request.lookup_type] :
              turn' = [turn EXCEPT !.results = Append(@, result(outcome))]
    BY <1>6 DEF ExecuteLookupRequest
  <2>2. DOMAIN read = DOMAIN cache /\ ReadsMore(cache, read)
    BY <1>registry DEF ReadsMore
  <2>3. PICK outcome \in Outcomes[request.lookup_type] :
           turn' = [turn EXCEPT !.results = Append(turn.results, result(outcome))]
    <3> HIDE DEF request, refused, result
    <3> QED
      BY <2>1, <1>fields
  <2> DEFINE results == Append(turn.results, result(outcome))
  <2>4. turn' = [turn EXCEPT !.results = results]
    BY <2>3
  <2> HIDE DEF results
  <2>5. DOMAIN turn' = TurnFields /\ turn'.results = results /\ Keeps(turn, turn', {"results"})
    BY <2>4, <1>fields DEF Keeps
  <2>6. ExecutesRequest(turn, turn')
    BY <2>1, <2>3, <2>5 DEF ExecutesRequest, results
  <2> HIDE DEF read
  <2> QED
    BY <2>1, <2>2, <2>5, <2>6 DEF TurnSteps
<1>7. CASE AttachResults
  <2> DEFINE packets == Materialize(turn.results, ContextPolicy(turn.bundle, "materialization"))
             policy == ContextPolicy(turn.bundle, "render")
             decision == RenderGate(packets, policy)
             rendered == Render(packets, decision, policy)
             next == [turn EXCEPT !.pc = "attached", !.packets = packets,
                         !.decision = decision, !.rendered = rendered]
  <2>1. /\ turn.pc = "executing" /\ Len(turn.results) = Len(turn.requests) /\ cache' = cache
        /\ turn' = Summarized(next)
    BY <1>7 DEF AttachResults
  <2> HIDE DEF packets, decision, rendered, policy
  <2>2. /\ DOMAIN next = TurnFields /\ next.pc = "attached" /\ next.packets = packets
        /\ next.decision = decision /\ next.rendered = rendered
        /\ Keeps(turn, next, {"pc", "packets", "decision", "rendered"})
    BY <1>fields DEF Keeps
  <2> HIDE DEF next
  <2> DEFINE summary == Summary(next.traces, next.requests, next.results, next.packets,
                                next.decision, next.injection)
  <2>3. turn' = [next EXCEPT !.summary = <<summary>>]
    BY <2>1 DEF Summarized
  <2> HIDE DEF summary
  <2>4. DOMAIN turn' = TurnFields /\ turn'.summary = <<summary>> /\ Keeps(next, turn', {"summary"})
    BY <2>2, <2>3, <1>fields DEF Keeps
  <2>5. /\ turn'.pc = "attached" /\ turn'.packets = packets
        /\ turn'.decision = decision /\ turn'.rendered = rendered
        /\ turn'.results = turn.results /\ turn'.bundle = turn.bundle
        /\ Keeps(turn, turn', {"pc", "packets", "decision", "rendered", "summary"})
    BY <2>2, <2>4, <1>fields DEF Keeps
  <2>6. HasSummary(turn')
    <3>1. /\ turn'.traces = next.traces /\ turn'.requests = next.requests
          /\ turn'.results = next.results /\ turn'.packets = next.packets
          /\ turn'.decision = next.decision /\ turn'.injection = next.injection
      BY <2>4, <1>fields DEF Keeps
    <3> QED
      BY <2>4, <3>1 DEF HasSummary, summary
  <2>7. Attached(turn')
    BY <2>5 DEF Attached, packets, decision, rendered, policy
  <2> QED
    BY <1>kept, <2>1, <2>4, <2>5, <2>6, <2>7 DEF Attaches, TurnSteps
<1>8. CASE ReplyDirectly
  <2>1. /\ turn.pc = "attached" /\ DirectReply(turn) /\ cache' = cache
        /\ turn' = [turn EXCEPT !.pc = "done"]
    BY <1>8 DEF ReplyDirectly
  <2>2. DOMAIN turn' = TurnFields /\ turn'.pc = "done" /\ Keeps(turn, turn', {"pc"})
    BY <2>1, <1>fields DEF Keeps
  <2> QED
    BY <1>kept, <2>1, <2>2 DEF Replies, TurnSteps
<1>9. CASE InjectLookupContext
  <2> DEFINE injection == Inject(turn.rendered, turn.decision,
                                 ContextPolicy(turn.bundle, "injection"))
             next == [turn EXCEPT !.pc = "done", !.injection = <<injection>>]
  <2>1. turn.pc = "attached" /\ cache' = cache /\ turn' = Summarized(next)
    BY <1>9 DEF InjectLookupContext
  <2> HIDE DEF injection
  <2>2. /\ DOMAIN next = TurnFields /\ next.pc = "done" /\ next.injection = <<injection>>
        /\ Keeps(turn, next, {"pc", "injection"})
    BY <1>fields DEF Keeps
  <2> HIDE DEF next
  <2> DEFINE summary == Summary(next.traces, next.requests, next.results, next.packets,
                                next.decision, next.injection)
  <2>3. turn' = [next EXCEPT !.summary = <<summary>>]
    BY <2>1 DEF Summarized
  <2> HIDE DEF summary
  <2>4. DOMAIN turn' = TurnFields /\ turn'.summary = <<summary>> /\ Keeps(next, turn', {"summary"})
    BY <2>2, <2>3, <1>fields DEF Keeps
  <2>5. /\ turn'.pc = "done" /\ turn'.injection = <<injection>>
        /\ turn'.rendered = turn.rendered /\ turn'.decision = turn.decision
        /\ turn'.bundle = turn.bundle
        /\ Keeps(turn, turn', {"pc", "injection", "summary"})
    BY <2>2, <2>4, <1>fields DEF Keeps
  <2>6. HasSummary(turn')
    <3>1. /\ turn'.traces = next.traces /\ turn'.requests = next.requests
          /\ turn'.results = next.results /\ turn'.packets = next.packets
          /\ turn'.decision = next.decision /\ turn'.injection = next.injection
      BY <2>4, <1>fields DEF Keeps
    <3> QED
      BY <2>4, <3>1 DEF HasSummary, summary
  <2>7. Injected(turn')
    BY <2>5 DEF Injected, injection
  <2> QED
    BY <1>kept, <2>1, <2>4, <2>5, <2>6, <2>7 DEF Injects, TurnSteps
<1>10. CASE Restart
  <2>1. turn' = NoTurn /\ cache' = NothingRead
    BY <1>10 DEF Restart
  <2>2. DOMAIN cache' = DOMAIN cache /\ \A name \in DOMAIN cache : cache'[name] = <<>>
    BY <2>1 DEF NothingRead
  <2>3. ReadsMore(cache, cache')
    BY <2>2, Len(<<>>) = 0 DEF ReadsMore
  <2> QED
    BY <2>1, <2>2, <2>3, NoTurnShape DEF Begins, TurnSteps
<1>11. CASE EditAgent \/ EditShared \/ UNCHANGED vars
  BY <1>kept, <1>11 DEF EditAgent, EditShared, vars, TurnSteps
<1> QED
  BY <1>1, <1>2, <1>3, <1>4, <1>5, <1>6, <1>7, <1>8, <1>9, <1>10, <1>11 DEF Next

\* So the variables keep their shape.
LEMMA ShapeInvariant == Spec => []Shape
<1>1. Init => Shape
  <2>1. DOMAIN NothingRead = {"contract", "exact", "bounded"}
    BY DEF NothingRead
  <2> QED
    BY <2>1, NoTurnShape DEF Init, Shape
<1>2. Shape /\ [Next]_vars => Shape'
  BY ShapeStep
<1> QED
  BY <1>1, <1>2, PTL DEF Spec

--------------------------------------------------------------------------------
(* The engines of a plan. *)

\* A turn that has a plan has one whose engines follow its needs.
EnginesInv == turn.plan # <<>> => FollowsNeeds(turn.plan[1])

\* A plan keeps the engines it was made with, and they follow its needs: one
\* that asks for the web has engines of the web and no others, one that makes
\* an artifact offline has none of them, and no plan falls back to an engine it
\* has tried (policies/model_selector.py, runtime/request_planner.py).
THEOREM EnginesTheorem == Spec => []EnginesFollowNeeds
<1>1. Init => EnginesInv
  BY DEF Init, NoTurn, EnginesInv
<1>2. Shape /\ EnginesInv /\ [Next]_vars => EnginesInv'
  <2> SUFFICES ASSUME Shape, EnginesInv, [Next]_vars PROVE EnginesInv'
    OBVIOUS
  <2>1. TurnSteps(turn, turn')
    BY ShapeStep
  <2>2. ASSUME turn'.plan = turn.plan \/ turn'.plan = <<>> PROVE EnginesInv'
    BY <2>2 DEF EnginesInv
  <2>3. CASE MakesPlan(turn, turn')
    <3>0. PICK artifact, plan : \E hint \in Hints :
          /\ plan = BuildExecutionPlan(turn.gate, artifact, turn.message[1], hint.followup,
                                       hint.intent, hint.said, agent)
          /\ plan # <<>> /\ turn'.plan = <<LockOffTheWeb(plan[1])>>
      BY <2>3 DEF MakesPlan
    <3>1. PICK hint \in Hints :
          /\ plan = BuildExecutionPlan(turn.gate, artifact, turn.message[1], hint.followup,
                                       hint.intent, hint.said, agent)
          /\ plan # <<>> /\ turn'.plan = <<LockOffTheWeb(plan[1])>>
      BY <3>0
    <3>2. FollowsNeeds(LockOffTheWeb(plan[1]))
      BY <3>1, PlanFollowsNeeds
    <3> DEFINE locked == LockOffTheWeb(plan[1])
    <3>3. turn'.plan[1] = locked
      BY <3>1
    <3> QED
      BY <3>2, <3>3 DEF EnginesInv
  <2>4. CASE ~MakesPlan(turn, turn')
    <3>1. turn'.plan = turn.plan \/ turn'.plan = NoTurn.plan
      BY <2>1, <2>4 DEF TurnSteps, TakesMessage, Fails, Resolves, CreatesRequest,
                        StartsExecuting, ExecutesRequest, Attaches, Replies, Injects, Begins,
                        Keeps, TurnFields
    <3>2. NoTurn.plan = <<>>
      BY DEF NoTurn
    <3> QED
      BY <2>2, <3>1, <3>2
  <2> QED
    BY <2>3, <2>4
<1>3. EnginesInv => EnginesFollowNeeds
  BY DEF EnginesInv, EnginesFollowNeeds, FollowsNeeds
<1> QED
  BY <1>1, <1>2, <1>3, ShapeInvariant, PTL DEF Spec

--------------------------------------------------------------------------------
(* The gate has a mode. *)

\* Whatever the model answers, the gate takes one of the modes it knows.
LEMMA DeriveGateMode ==
    ASSUME NEW answer, "mode" \in DOMAIN answer
    PROVE  DeriveGate(answer).mode \in Modes
<1> DEFINE Keeping(g, h) == "mode" \in DOMAIN h /\ h.mode = g.mode
           g == [answer EXCEPT !.capability = Known(@)]
<1>1. "mode" \in DOMAIN g
  OBVIOUS
<1> HIDE DEF g
<1>2. ASSUME NEW h, "mode" \in DOMAIN h PROVE Keeping(h, NotDirect(h))
  BY <1>2 DEF NotDirect
<1>3. ASSUME NEW h, "mode" \in DOMAIN h
      PROVE  /\ Keeping(h, OnArtifact(h)) /\ Keeping(h, OnWorkflow(h))
             /\ Keeping(h, OnQuestion(h)) /\ Keeping(h, OnNewRequest(h))
  <2>1. Keeping(h, NotDirect(h))
    BY <1>2, <1>3
  <2>2. Keeping(h, OnArtifact(h))
    BY <2>1 DEF OnArtifact
  <2>3. Keeping(h, OnWorkflow(h))
    BY <2>1 DEF OnWorkflow
  <2>4. Keeping(h, OnQuestion(h))
    BY <1>3 DEF OnQuestion
  <2>5. Keeping(h, OnNewRequest(h))
    BY <2>1 DEF OnNewRequest
  <2> QED
    BY <2>2, <2>3, <2>4, <2>5
<1>4. "mode" \in DOMAIN ByMode(g) /\ ByMode(g).mode \in Modes
  <2>1. CASE ArtifactOperation(g.mode)
    <3>1. ByMode(g) = OnArtifact(g)
      BY <2>1 DEF ByMode, ArtifactOperation
    <3> QED
      BY <1>1, <1>3, <2>1, <3>1 DEF ArtifactOperation, Modes
  <2>2. CASE g.mode = "CONTINUE_WORKFLOW"
    <3>1. ByMode(g) = OnWorkflow(g)
      BY <2>2 DEF ByMode, ArtifactOperation
    <3> QED
      BY <1>1, <1>3, <2>2, <3>1 DEF Modes
  <2>3. CASE g.mode = "ANSWER_QUESTION"
    <3>1. ByMode(g) = OnQuestion(g)
      BY <2>3 DEF ByMode, ArtifactOperation
    <3> QED
      BY <1>1, <1>3, <2>3, <3>1 DEF Modes
  <2>4. CASE /\ ~ArtifactOperation(g.mode) /\ g.mode # "CONTINUE_WORKFLOW"
             /\ g.mode # "ANSWER_QUESTION"
    <3> DEFINE n == [g EXCEPT !.mode = "NEW_REQUEST"]
    <3>1. ByMode(g) = OnNewRequest(n)
      BY <2>4 DEF ByMode
    <3>2. "mode" \in DOMAIN n /\ n.mode = "NEW_REQUEST"
      BY <1>1
    <3> HIDE DEF n
    <3> QED
      BY <1>3, <3>1, <3>2 DEF Modes
  <2> QED
    BY <2>1, <2>2, <2>3, <2>4
<1>5. ASSUME NEW h, "mode" \in DOMAIN h PROVE Settled(h).mode = h.mode
  <2> DEFINE busy == h.needs_capability \/ h.needs_full \/ h.requires_context
             kept == IF busy THEN [NotDirect(h) EXCEPT !.fast = FALSE] ELSE h
  <2>1. Keeping(h, NotDirect(h))
    BY <1>2, <1>5
  <2>2. Keeping(NotDirect(h), [NotDirect(h) EXCEPT !.fast = FALSE])
    BY <2>1
  <2>3. Keeping(h, kept)
    BY <1>5, <2>1, <2>2
  <2>4. Settled(h) = LET direct == kept.direct /\ kept.direct_type # "" IN
           [kept EXCEPT !.direct = direct, !.fast = @ \/ direct, !.model = @ /\ ~direct,
              !.lookup = @ /\ ~direct, !.workflow = @ /\ ~direct]
    BY DEF Settled
  <2> HIDE DEF kept
  <2>5. Keeping(kept, Settled(h))
    BY <2>3, <2>4
  <2> QED
    BY <2>3, <2>5
<1> QED
  BY <1>4, <1>5 DEF DeriveGate, g

\* Whatever the message and the answer, the gate has one of the modes.
LEMMA GateMode ==
    ASSUME NEW message, NEW history, NEW answer
    PROVE  AnalyzeRequestGate(message, history, answer).mode \in Modes
<1>1. "mode" \in DOMAIN DefaultGate
  BY DEF DefaultGate
<1>2. "mode" \in DOMAIN Over(answer[1], DefaultGate)
  <2> DEFINE both == Over(answer[1], DefaultGate)
  <2>1. DOMAIN both = (DOMAIN answer[1]) \union (DOMAIN DefaultGate)
    BY DEF Over
  <2> QED
    BY <1>1, <2>1
<1> DEFINE given ==
        IF message.empty THEN DefaultGate
        ELSE IF message.direct # ""
        THEN [DefaultGate EXCEPT !.mode = "ANSWER_QUESTION", !.fast = TRUE,
                 !.direct = TRUE, !.direct_type = message.direct, !.model = FALSE,
                 !.lookup = FALSE, !.workflow = FALSE]
        ELSE IF ~history /\ message.simple THEN [DefaultGate EXCEPT !.fast = TRUE]
        ELSE IF message.explicit # "" THEN [DefaultGate EXCEPT !.explicit = message.explicit]
        ELSE IF message.long
        THEN [DefaultGate EXCEPT !.needs_capability = TRUE, !.needs_full = TRUE]
        ELSE IF answer = <<>> THEN [DefaultGate EXCEPT !.needs_full = TRUE]
        ELSE Over(answer[1], DefaultGate)
<1>3. "mode" \in DOMAIN given
  <2> DEFINE both == Over(answer[1], DefaultGate)
  <2>1. "mode" \in DOMAIN both
    BY <1>2
  <2> HIDE DEF both
  <2>2. DOMAIN [DefaultGate EXCEPT !.mode = "ANSWER_QUESTION", !.fast = TRUE,
                 !.direct = TRUE, !.direct_type = message.direct, !.model = FALSE,
                 !.lookup = FALSE, !.workflow = FALSE] = DOMAIN DefaultGate
    OBVIOUS
  <2>3. DOMAIN [DefaultGate EXCEPT !.explicit = message.explicit] = DOMAIN DefaultGate
    OBVIOUS
  <2>4. DOMAIN [DefaultGate EXCEPT !.needs_capability = TRUE, !.needs_full = TRUE]
           = DOMAIN DefaultGate
    OBVIOUS
  <2>5. /\ DOMAIN [DefaultGate EXCEPT !.needs_full = TRUE] = DOMAIN DefaultGate
        /\ DOMAIN [DefaultGate EXCEPT !.fast = TRUE] = DOMAIN DefaultGate
    OBVIOUS
  <2> QED
    BY <1>1, <2>1, <2>2, <2>3, <2>4, <2>5 DEF both
<1>4. AnalyzeRequestGate(message, history, answer) = DeriveGate(given)
  BY DEF AnalyzeRequestGate
<1> HIDE DEF given
<1> QED
  BY <1>3, <1>4, DeriveGateMode

--------------------------------------------------------------------------------
(* The steps of a turn have what they need. *)

IsSeq(s) == s \in Seq(Range(s))

\* A sequence with one more.
LEMMA OneMore ==
    ASSUME NEW s, IsSeq(s), NEW e
    PROVE  /\ IsSeq(Append(s, e)) /\ Len(Append(s, e)) = Len(s) + 1
           /\ s \o <<e>> = Append(s, e) /\ s \o <<>> = s
           /\ \A i \in 1 .. Len(s) : Append(s, e)[i] = s[i]
           /\ Append(s, e)[Len(s) + 1] = e
<1> DEFINE S == Range(s) \union {e}
<1>1. s \in Seq(S) /\ e \in S
  <2>1. Range(s) \subseteq S
    OBVIOUS
  <2> HIDE DEF S
  <2>2. s \in Seq(S)
    BY <2>1, SeqMonotonic DEF IsSeq
  <2> QED
    BY <2>2 DEF S
<1> HIDE DEF S
<1>2. Append(s, e) \in Seq(S) /\ Len(Append(s, e)) = Len(s) + 1
  BY <1>1, AppendProperties
<1>3. IsSeq(Append(s, e))
  BY <1>2, SeqOfRange DEF IsSeq
<1>4. s \o <<e>> = Append(s, e)
  BY <1>1
<1>5. s \o <<>> = s
  BY <1>1, ConcatEmptySeq
<1>6. /\ \A i \in 1 .. Len(s) : Append(s, e)[i] = s[i]
      /\ Append(s, e)[Len(s) + 1] = e
  BY <1>1, AppendProperties
<1> QED
  BY <1>2, <1>3, <1>4, <1>5, <1>6

\* A request that is created is of a capability, its root is the one it is
\* given, and by what a text names it is an exact lookup.
CreatedWell(planned, capability, item, root) ==
    /\ capability = "" => planned.request = <<>> /\ planned.status = "lookup_not_declared"
    /\ planned.request # <<>> =>
          /\ planned.request = <<planned.request[1]>>
          /\ planned.request[1].root = root
          /\ item = <<>> \/ DOMAIN item[1] \subseteq {"entity_name", "workflow_topic"}
                => planned.request[1].lookup_type = "exact_entity_lookup"

\* Whatever the rules say, a request is its own root and there is none without a
\* capability; one for what a text mentions looks it up by its name.
LEMMA CreateCases ==
    ASSUME NEW capability, NEW item, NEW resolved, NEW registries, NEW ordinal, NEW root
    PROVE  CreatedWell(CreateRequest(capability, item, resolved, registries, ordinal, root),
                       capability, item, root)
<1> SUFFICES ASSUME NEW planned,
                    planned = CreateRequest(capability, item, resolved, registries, ordinal, root)
             PROVE  /\ capability = "" =>
                          planned.request = <<>> /\ planned.status = "lookup_not_declared"
                    /\ planned.request # <<>> =>
                          /\ planned.request = <<planned.request[1]>>
                          /\ planned.request[1].root = root
                          /\ item = <<>> \/ DOMAIN item[1] \subseteq {"entity_name", "workflow_topic"}
                                => planned.request[1].lookup_type = "exact_entity_lookup"
  BY DEF CreatedWell
<1> DEFINE policy == resolved[1].request
           it == item[1]
           Text == DOMAIN it \subseteq {"entity_name", "workflow_topic"}
<1>closed. \A status, reason : Closed(status, reason).request = <<>>
                               /\ Closed(status, reason).status = status
  BY DEF Closed, Planned
<1>1. CASE capability = ""
  BY <1>1, <1>closed DEF CreateRequest
<1>2. ASSUME capability # "", planned.request # <<>>
      PROVE  /\ PolicySound(policy) /\ item # <<>>
             /\ planned = IF policy.lookup_type = "bounded_entity_search"
                          THEN BoundedRequest(capability, policy, it, registries, ordinal, root)
                          ELSE ExactRequest(capability, policy, it, registries, ordinal, root)
  <2> HIDE DEF policy, it
  <2> QED
    BY <1>2, <1>closed DEF CreateRequest, policy, it
<1> HIDE DEF policy, it
<1>3. ASSUME NEW fields, planned = Planned("lookup_request_created", {},
                                           <<Request(capability, policy, ordinal, root, fields)>>)
      PROVE  /\ planned.request = <<planned.request[1]>>
             /\ planned.request[1].root = root
             /\ planned.request[1].lookup_type = policy.lookup_type
  <2> DEFINE r == Request(capability, policy, ordinal, root, fields)
  <2>1. planned.request = <<r>>
    BY <1>3 DEF Planned
  <2>2. r.root = root /\ r.lookup_type = policy.lookup_type
    BY DEF Request
  <2> HIDE DEF r
  <2> QED
    BY <2>1, <2>2
<1>4. CASE capability # "" /\ policy.lookup_type = "bounded_entity_search"
  <2> SUFFICES ASSUME planned.request # <<>>
               PROVE  /\ planned.request = <<planned.request[1]>>
                      /\ planned.request[1].root = root
                      /\ ~Text
    BY <1>2, <1>4 DEF it
  <2>1. planned = BoundedRequest(capability, policy, it, registries, ordinal, root)
    BY <1>2, <1>4
  <2>2. ~(\A f \in {"search_topic", "query_intent"} : Field(it, f, "") = "")
    BY <1>closed, <2>1 DEF BoundedRequest
  <2>3. ~Text
    BY <2>2 DEF Field
  <2>4. \E fields : planned = Planned("lookup_request_created", {},
                                      <<Request(capability, policy, ordinal, root, fields)>>)
    <3> DEFINE own == [entity_type |-> Field(policy, "entity_type", ""),
                       source_scope |-> policy.source_scope,
                       max_results |-> Field(it, "max_results", policy.max_results)]
               given == DOMAIN it \intersect {"search_topic", "query_intent", "constraints"}
               fields == Over(own, Restrict(it, given))
               request == Request(capability, policy, ordinal, root, fields)
    <3>1. \/ planned.request = <<>>
          \/ planned = Planned("lookup_request_created", {}, <<request>>)
      <4>1. \/ planned = Closed("lookup_request_not_created", "missing_search_topic_or_query_intent")
            \/ planned = Closed("lookup_request_not_created", "planner_policy_field_not_allowed")
            \/ planned = Closed("lookup_request_not_created", "invalid_bounded_entity_search_request")
            \/ planned = Planned("lookup_request_created", {}, <<request>>)
        BY <2>1 DEF BoundedRequest
      <4> HIDE DEF request
      <4> QED
        BY <4>1, <1>closed
    <3> QED
      BY <3>1
  <2> QED
    BY <1>3, <2>3, <2>4
<1>5. CASE capability # "" /\ policy.lookup_type # "bounded_entity_search"
  <2> SUFFICES ASSUME planned.request # <<>>
               PROVE  /\ planned.request = <<planned.request[1]>>
                      /\ planned.request[1].root = root
                      /\ planned.request[1].lookup_type = "exact_entity_lookup"
    BY <1>5
  <2>1. planned = ExactRequest(capability, policy, it, registries, ordinal, root)
    BY <1>2, <1>5
  <2>2. policy.lookup_type = "exact_entity_lookup"
    BY <1>2, <1>5 DEF PolicySound, LookupTypes
  <2>3. \E fields : planned = Planned("lookup_request_created", {},
                                      <<Request(capability, policy, ordinal, root, fields)>>)
    <3> DEFINE fields == [entity_name |-> it.entity_name,
                          entity_type |-> Field(policy, "entity_type", ""),
                          workflow_topic |-> Field(it, "workflow_topic", ""),
                          source_scope |-> policy.source_scope]
               request == Request(capability, policy, ordinal, root, fields)
    <3>1. \/ planned = Closed("lookup_request_not_created", "missing_entity_name")
          \/ planned = Closed("lookup_request_not_created", "planner_policy_field_not_allowed")
          \/ planned = Closed("lookup_request_not_created", "invalid_exact_entity_lookup_request")
          \/ planned = Planned("lookup_request_created", {}, <<request>>)
      BY <2>1 DEF ExactRequest
    <3> HIDE DEF request
    <3>2. planned = Planned("lookup_request_created", {}, <<request>>)
      BY <3>1, <1>closed
    <3> QED
      BY <3>2 DEF request
  <2> QED
    BY <1>3, <2>2, <2>3
<1> QED
  BY <1>1, <1>4, <1>5

\* What a request that is created adds to those of its turn.
LEMMA Created ==
    ASSUME NEW t, NEW u, CreatesRequest(t, u)
    PROVE  /\ \/ u.requests = t.requests \o <<>>
              \/ \E request :
                    /\ u.requests = t.requests \o <<request>>
                    /\ t.plan[1].capability # "" /\ request.root = Len(t.requests) + 1
                    /\ Head(t.todo).item = <<>>
                       \/ DOMAIN Head(t.todo).item[1] \subseteq {"entity_name", "workflow_topic"}
                          => request.lookup_type = "exact_entity_lookup"
           /\ t.plan[1].capability = "" =>
                 u.requests = t.requests \o <<>> /\ u.traces = t.traces
<1> DEFINE capability == t.plan[1].capability
           item == Head(t.todo).item
           root == Len(t.requests) + 1
<1>1. PICK resolved, registries, ordinal, planned :
        /\ planned = CreateRequest(capability, item, resolved, registries, ordinal, root)
        /\ u.requests = t.requests \o planned.request
        /\ planned.status = "lookup_not_declared" => u.traces = t.traces
  BY DEF CreatesRequest
<1> HIDE DEF capability, item, root
<1>2. planned = CreateRequest(capability, item, resolved, registries, ordinal, root)
  BY <1>1
<1>3. CreatedWell(planned, capability, item, root)
  BY <1>2, CreateCases
<1>6. capability = "" => u.requests = t.requests \o <<>> /\ u.traces = t.traces
  BY <1>1, <1>3 DEF CreatedWell
<1>4. CASE planned.request = <<>>
  BY <1>1, <1>4, <1>6 DEF capability
<1>5. CASE planned.request # <<>>
  <2>1. PICK request : request = planned.request[1]
    OBVIOUS
  <2>2. /\ u.requests = t.requests \o <<request>> /\ capability # ""
        /\ request.root = root
        /\ item = <<>> \/ DOMAIN item[1] \subseteq {"entity_name", "workflow_topic"}
              => request.lookup_type = "exact_entity_lookup"
    BY <1>1, <1>3, <1>5, <2>1 DEF CreatedWell
  <2> QED
    BY <1>6, <2>2 DEF capability, item, root
<1> QED
  BY <1>4, <1>5

\* What a step of a turn has of the steps before it.
StepsInv ==
    /\ turn.pc \in Steps
    /\ (turn.message = <<>>) <=> (turn.pc = "idle")
    /\ (turn.plan = <<>>) <=> (turn.pc \in {"idle", "gated", "failed"})
    /\ turn.gate.mode \in Modes
    /\ IsSeq(turn.requests) /\ IsSeq(turn.results)
    /\ Len(turn.results) <= Len(turn.requests)
    /\ turn.pc \in {"executing", "attached", "done"} => turn.todo = <<>>
    /\ turn.pc \in {"idle", "gated", "planned", "failed"} =>
          turn.requests = <<>> /\ turn.traces = <<>> /\ turn.bundle = <<>> /\ turn.todo = <<>>
    /\ turn.pc \notin {"executing", "attached", "done"} => turn.results = <<>>
    /\ turn.pc # "done" => turn.injection = <<>>

ReadInv == \A name \in DOMAIN cache : Len(cache[name]) \in {0, 1}

CountsInv == turns \in 0 .. MaxTurns /\ edits \in 0 .. MaxEdits

\* Nothing is a sequence too.
LEMMA EmptyIsSeq == IsSeq(<<>>) /\ Len(<<>>) = 0
BY DEF IsSeq

\* A turn that is about to begin has nothing it could need.
LEMMA NoTurnSteps ==
    ASSUME turn = NoTurn
    PROVE  StepsInv
<1>1. /\ turn.pc = "idle" /\ turn.message = <<>> /\ turn.plan = <<>> /\ turn.gate = DefaultGate
      /\ turn.requests = <<>> /\ turn.results = <<>> /\ turn.todo = <<>> /\ turn.traces = <<>>
      /\ turn.bundle = <<>> /\ turn.injection = <<>>
  BY DEF NoTurn
<1>2. turn.gate.mode \in Modes
  <2>1. DefaultGate.mode = "NEW_REQUEST"
    BY DEF DefaultGate
  <2> QED
    BY <1>1, <2>1 DEF Modes
<1> QED
  BY <1>1, <1>2, EmptyIsSeq DEF StepsInv, Steps

\* Every step leaves a turn with what its next steps need.
LEMMA StepsInvStep ==
    ASSUME Shape, StepsInv, [Next]_vars
    PROVE  StepsInv'
<1> DEFINE t == turn
           u == turn'
           Same == /\ u.message = t.message /\ u.plan = t.plan /\ u.gate = t.gate
                   /\ u.requests = t.requests /\ u.traces = t.traces /\ u.bundle = t.bundle
<1>1. TurnSteps(t, u)
  BY ShapeStep
<1>2. CASE TakesMessage(t, u)
  <2>1. u.pc = "gated" /\ Len(u.message) = 1
    BY <1>2 DEF TakesMessage
  <2>2. u.gate.mode \in Modes
    BY <1>2, GateMode DEF TakesMessage
  <2>3. /\ u.plan = <<>> /\ u.requests = <<>> /\ u.results = <<>> /\ u.todo = <<>>
        /\ u.traces = <<>> /\ u.bundle = <<>> /\ u.injection = <<>>
    BY <1>2 DEF TakesMessage, Keeps, TurnFields, NoTurn
  <2>4. u.message # <<>>
    BY <2>1, EmptyIsSeq
  <2> QED
    BY <2>1, <2>2, <2>3, <2>4, EmptyIsSeq DEF StepsInv, Steps
<1>3. CASE Fails(t, u)
  <2>1. /\ t.pc = "gated" /\ u.pc = "failed" /\ Same /\ u.results = t.results /\ u.todo = t.todo
        /\ u.injection = t.injection
    BY <1>3 DEF Fails, Keeps, TurnFields
  <2> QED
    BY <2>1 DEF StepsInv, Steps
<1>4. CASE MakesPlan(t, u)
  <2>1. /\ t.pc = "gated" /\ u.pc = "planned" /\ u.message = t.message /\ u.gate = t.gate
        /\ u.requests = t.requests /\ u.results = t.results /\ u.traces = t.traces
        /\ u.bundle = t.bundle /\ u.todo = t.todo /\ u.injection = t.injection
    BY <1>4 DEF MakesPlan, Keeps, TurnFields
  <2>2. u.plan # <<>>
    BY <1>4 DEF MakesPlan
  <2> QED
    BY <2>1, <2>2 DEF StepsInv, Steps
<1>5. CASE Resolves(t, u)
  <2>1. /\ t.pc = "planned" /\ u.pc = "creating" /\ u.message = t.message /\ u.plan = t.plan
        /\ u.gate = t.gate /\ u.requests = t.requests /\ u.results = t.results
        /\ u.traces = t.traces /\ u.injection = t.injection
    BY <1>5 DEF Resolves, Keeps, TurnFields
  <2> QED
    BY <2>1 DEF StepsInv, Steps
<1>6. CASE CreatesRequest(t, u)
  <2>1. /\ t.pc = "creating" /\ u.pc = t.pc /\ u.message = t.message /\ u.plan = t.plan
        /\ u.gate = t.gate /\ u.results = t.results /\ u.injection = t.injection
    BY <1>6 DEF CreatesRequest, Keeps, TurnFields
  <2>2. u.requests = t.requests \o <<>> \/ \E r : u.requests = t.requests \o <<r>>
    BY <1>6, Created
  <2>3. IsSeq(t.requests) /\ t.results = <<>>
    BY <2>1 DEF StepsInv
  <2>4. IsSeq(u.requests) /\ Len(u.requests) \in Nat
    <3>1. IsSeq(u.requests)
      <4>1. CASE u.requests = t.requests \o <<>>
        BY <2>3, <4>1, ConcatEmptySeq DEF IsSeq
      <4>2. ASSUME NEW r, u.requests = t.requests \o <<r>> PROVE IsSeq(u.requests)
        <5>1. t.requests \o <<r>> = Append(t.requests, r) /\ IsSeq(Append(t.requests, r))
          BY <2>3, OneMore
        <5> QED
          BY <4>2, <5>1
      <4> QED
        BY <2>2, <4>1, <4>2
    <3> QED
      BY <3>1, LenProperties DEF IsSeq
  <2> QED
    BY <2>1, <2>3, <2>4, EmptyIsSeq DEF StepsInv
<1>7. CASE StartsExecuting(t, u)
  <2>1. /\ t.pc = "creating" /\ u.pc = "executing" /\ u.todo = <<>> /\ Same
        /\ u.results = t.results /\ u.injection = t.injection
    BY <1>7 DEF StartsExecuting, Keeps, TurnFields
  <2> QED
    BY <2>1 DEF StepsInv, Steps
<1>8. CASE ExecutesRequest(t, u)
  <2>1. /\ t.pc = "executing" /\ u.pc = t.pc /\ Len(t.results) < Len(t.requests) /\ Same
        /\ u.todo = t.todo /\ u.injection = t.injection
    BY <1>8 DEF ExecutesRequest, Keeps, TurnFields
  <2>2. PICK r : u.results = Append(t.results, r)
    BY <1>8 DEF ExecutesRequest
  <2>3. IsSeq(u.results) /\ Len(u.results) = Len(t.results) + 1
    BY <2>2, OneMore DEF StepsInv
  <2>4. Len(t.results) \in Nat /\ Len(t.requests) \in Nat
    BY LenProperties DEF StepsInv, IsSeq
  <2>5. Len(u.results) <= Len(u.requests)
    BY <2>1, <2>3, <2>4
  <2> QED
    BY <2>1, <2>3, <2>5 DEF StepsInv
<1>9. CASE Attaches(t, u)
  <2>1. /\ t.pc = "executing" /\ u.pc = "attached" /\ Same /\ u.results = t.results
        /\ u.todo = t.todo /\ u.injection = t.injection
    BY <1>9 DEF Attaches, Keeps, TurnFields
  <2> QED
    BY <2>1 DEF StepsInv, Steps
<1>10. CASE Replies(t, u) \/ Injects(t, u)
  <2>1. /\ t.pc = "attached" /\ u.pc = "done" /\ Same /\ u.results = t.results
        /\ u.todo = t.todo
    BY <1>10 DEF Replies, Injects, Keeps, TurnFields
  <2> QED
    BY <2>1 DEF StepsInv, Steps
<1>11. CASE Begins(u)
  <2>1. (turn = NoTurn)' => StepsInv'
    BY NoTurnSteps, PTL
  <2> QED
    BY <1>11, <2>1 DEF Begins
<1>12. CASE u = t
  BY <1>12 DEF StepsInv
<1> QED
  BY <1>1, <1>2, <1>3, <1>4, <1>5, <1>6, <1>7, <1>8, <1>9, <1>10, <1>11, <1>12 DEF TurnSteps

\* So a turn has, at every step, what the steps before it have made.
LEMMA StepsInvariant == Spec => []StepsInv
<1>1. Init => StepsInv
  BY NoTurnSteps DEF Init
<1>2. Shape /\ StepsInv /\ [Next]_vars => StepsInv'
  BY StepsInvStep
<1> QED
  BY <1>1, <1>2, ShapeInvariant, PTL DEF Spec

\* The variables keep their shape, and a step of a turn has what it needs of the
\* steps before it: a plan before it resolves, its requests before their
\* results, everything created before anything runs
\* (runtime/request_runner.py).
THEOREM TypeTheorem == Spec => []TypeOK
<1>1. Init => ReadInv /\ CountsInv
  BY BoundsAssumption, EmptyIsSeq DEF Init, NothingRead, ReadInv, CountsInv
<1>2. Shape /\ ReadInv /\ CountsInv /\ [Next]_vars => ReadInv' /\ CountsInv'
  <2> SUFFICES ASSUME Shape, ReadInv, CountsInv, [Next]_vars PROVE ReadInv' /\ CountsInv'
    OBVIOUS
  <2>1. ReadInv'
    <3>1. DOMAIN cache' = DOMAIN cache
      BY ShapeStep DEF Shape
    <3> QED
      BY <3>1, ShapeStep DEF ReadInv, ReadsMore
  <2>2. /\ turns' = turns \/ (turns < MaxTurns /\ turns' = turns + 1)
        /\ edits' = edits \/ (edits < MaxEdits /\ edits' = edits + 1)
    BY DEF Next, vars, Environment, TakeMessage, MakePlan, ResolveCapability,
           CreateLookupRequest, AllCreated, ExecuteLookupRequest, AttachResults, ReplyDirectly,
           InjectLookupContext, EditAgent, EditShared, Restart
  <2>3. CountsInv'
    BY <2>2, BoundsAssumption DEF CountsInv
  <2> QED
    BY <2>1, <2>3
<1>3. StepsInv /\ ReadInv /\ CountsInv => TypeOK
  <2>1. ASSUME ReadInv, NEW name \in DOMAIN cache PROVE Len(cache[name]) <= 1
    <3>1. PICK n \in 0 .. 1 : Len(cache[name]) = n
      BY <2>1 DEF ReadInv
    <3>2. n <= 1
      OBVIOUS
    <3> QED
      BY <3>1, <3>2
  <2> QED
    BY <2>1 DEF StepsInv, CountsInv, TypeOK
<1> QED
  BY <1>1, <1>2, <1>3, ShapeInvariant, StepsInvariant, PTL DEF Spec

--------------------------------------------------------------------------------
(* Plans and what they declare. *)

TextItem(item) == DOMAIN item \subseteq {"entity_name", "workflow_topic"}

\* What a text declares: nothing, or names.
TextMetadata(metadata) ==
    /\ metadata.form \in {"none", "single", "targets"}
    /\ metadata.form # "none" => \E n \in Nat \ {0} : DOMAIN metadata.items = 1 .. n
    /\ \A i \in DOMAIN metadata.items : TextItem(metadata.items[i])

\* A direct response has no capability, and what is looked up by one comes of
\* the text.
DeclaresWell(plan, direct) ==
    /\ direct => plan.capability = ""
    /\ plan.capability # "" => TextMetadata(plan.metadata)

\* Metadata that declare nothing come of any text.
LEMMA NoMetadataText == TextMetadata(NoMetadata)
BY DEF TextMetadata, NoMetadata

\* The metadata taken from a text look up the names it mentions.
LEMMA FromText ==
    ASSUME NEW text, text.names \in Seq(STRING)
    PROVE  TextMetadata(MetadataFromText(text))
<1> DEFINE item(name) == IF text.topic = "" THEN [entity_name |-> name]
                         ELSE [entity_name |-> name, workflow_topic |-> text.topic]
           items == [i \in DOMAIN text.names |-> item(text.names[i])]
           form == IF Len(text.names) > 1 THEN "targets" ELSE "single"
           m == [form |-> form, items |-> items]
<1>1. CASE text.names = <<>>
  BY <1>1, NoMetadataText DEF MetadataFromText
<1>2. CASE text.names # <<>>
  <2>1. MetadataFromText(text) = m
    BY <1>2 DEF MetadataFromText
  <2>2. m.form \in {"single", "targets"} /\ m.items = items
    OBVIOUS
  <2>3. DOMAIN items = 1 .. Len(text.names) /\ Len(text.names) \in Nat \ {0}
    BY <1>2
  <2>4. ASSUME NEW i \in DOMAIN items PROVE TextItem(items[i])
    <3>1. \A name : TextItem(item(name))
      BY DEF TextItem
    <3>2. items[i] = item(text.names[i])
      OBVIOUS
    <3> HIDE DEF item
    <3> QED
      BY <3>1, <3>2
  <2> HIDE DEF m, items
  <2> QED
    BY <2>1, <2>2, <2>3, <2>4 DEF TextMetadata
<1> QED
  BY <1>1, <1>2

Declares(plan, c, metadata) == plan.capability = c /\ plan.metadata = metadata

\* Locking a plan off the web changes its engines, not what it declares.
LEMMA LockedPlan ==
    ASSUME NEW c, NEW metadata, NEW needs, NEW selected
    PROVE  Declares(LockOffTheWeb(Plan(c, metadata, needs, selected)), c, metadata)
<1> SUFFICES ASSUME NEW p, p = LockOffTheWeb(Plan(c, metadata, needs, selected))
             PROVE  p.capability = c /\ p.metadata = metadata
  BY DEF Declares
<1> DEFINE q == Plan(c, metadata, needs, selected)
<1>1. q.capability = c /\ q.metadata = metadata
  BY DEF Plan
<1>2. DOMAIN q = {"capability", "metadata", "direct", "output", "online", "web", "engine",
                  "fallbacks"}
  BY DEF Plan
<1> HIDE DEF q
<1>4. p = q \/ \E e, f : p = [q EXCEPT !.engine = e, !.fallbacks = f]
  <2> DEFINE engine == CASE q.engine = "cloud_web_fast" -> "cloud_fast"
                         [] q.engine = "cloud_web_deep" -> "cloud_deep"
                         [] OTHER                       -> q.engine
             others == Wanted(q.fallbacks, Range(q.fallbacks) \ (WebEngines \union {engine}))
  <2>1. p = LockOffTheWeb(q)
    BY DEF q
  <2>2. p = IF q.output # "artifact" \/ q.online THEN q
            ELSE [q EXCEPT !.engine = engine, !.fallbacks = others]
    BY <2>1 DEF LockOffTheWeb
  <2> HIDE DEF engine, others
  <2> QED
    BY <2>2
<1>5. ASSUME NEW e, NEW f, p = [q EXCEPT !.engine = e, !.fallbacks = f]
      PROVE  p.capability = q.capability /\ p.metadata = q.metadata
  BY <1>2, <1>5
<1>6. p.capability = q.capability /\ p.metadata = q.metadata
  BY <1>4, <1>5
<1> QED
  BY <1>1, <1>6

\* A plan declares lookups as its gate and its capability let it, by any of the
\* ways to make one.
LEMMA PlanDeclaresWell ==
    ASSUME NEW gate, NEW artifact, NEW message \in Messages, NEW hint \in Hints, NEW files,
           NEW plan,
           plan = BuildExecutionPlan(gate, artifact, message, hint.followup, hint.intent,
                                     hint.said, files),
           plan # <<>>
    PROVE  DeclaresWell(LockOffTheWeb(plan[1]), gate.direct)
<1> DEFINE locked == LockOffTheWeb(plan[1])
<1>1. CASE plan = <<DirectPlan(gate.direct_type)>>
  <2> DEFINE p == DirectPlan(gate.direct_type)
  <2>1. p.output = "general_answer" /\ p.capability = ""
    BY DEF DirectPlan, Plan, DefaultNeeds
  <2>2. plan[1] = p
    BY <1>1
  <2> HIDE DEF p
  <2>3. LockOffTheWeb(p) = p
    BY <2>1 DEF LockOffTheWeb
  <2> QED
    BY <2>1, <2>2, <2>3 DEF DeclaresWell
<1> HIDE DEF locked
<1>2. ASSUME NEW c, ~gate.direct, plan = <<ContinuePlan(c)>>
      PROVE  DeclaresWell(locked, gate.direct)
  <2>1. plan[1] = ContinuePlan(c)
    BY <1>2
  <2>2. PICK known, needs, selected : plan[1] = Plan(known, NoMetadata, needs, selected)
    BY <2>1 DEF ContinuePlan
  <2>3. Declares(locked, known, NoMetadata)
    BY <2>2, LockedPlan DEF locked
  <2> QED
    BY <1>2, <2>3, NoMetadataText DEF Declares, DeclaresWell
<1>3. ASSUME NEW engine, ~gate.direct, plan = <<TransformPlan(engine)>>
      PROVE  DeclaresWell(locked, gate.direct)
  <2>1. plan[1] = TransformPlan(engine)
    BY <1>3
  <2>2. PICK needs, selected : plan[1] = Plan("", NoMetadata, needs, selected)
    BY <2>1 DEF TransformPlan
  <2>3. Declares(locked, "", NoMetadata)
    BY <2>2, LockedPlan DEF locked
  <2> QED
    BY <1>3, <2>3 DEF Declares, DeclaresWell
<1>4. ASSUME NEW type, NEW c, NEW said, ~gate.direct,
             plan = <<SemanticPlan(type, c, said, message, files)>>
      PROVE  DeclaresWell(locked, gate.direct)
  <2>1. plan[1] = SemanticPlan(type, c, said, message, files)
    BY <1>4
  <2>2. PICK known, binding, needs, selected :
          plan[1] = Plan(known, DeclareLookupMetadata(binding, message), needs, selected)
    BY <2>1 DEF SemanticPlan
  <2>3. Declares(locked, known, DeclareLookupMetadata(binding, message))
    BY <2>2, LockedPlan DEF locked
  <2>4. TextMetadata(MetadataFromText(message))
    BY MessagesAssumption, FromText
  <2>5. TextMetadata(locked.metadata)
    <3>1. \/ DeclareLookupMetadata(binding, message) = MetadataFromText(message)
          \/ DeclareLookupMetadata(binding, message) = NoMetadata
      BY DEF DeclareLookupMetadata
    <3> QED
      BY <2>3, <2>4, <3>1, NoMetadataText DEF Declares
  <2> QED
    BY <1>4, <2>5 DEF DeclaresWell
<1>5. ASSUME NEW said, ~gate.direct, plan = <<ModelPlan(said)>>
      PROVE  DeclaresWell(locked, gate.direct)
  <2>1. plan[1] = ModelPlan(said)
    BY <1>5
  <2>2. PICK metadata, needs, selected : plan[1] = Plan("", metadata, needs, selected)
    BY <2>1 DEF ModelPlan
  <2>3. Declares(locked, "", metadata)
    BY <2>2, LockedPlan DEF locked
  <2> QED
    BY <1>5, <2>3 DEF Declares, DeclaresWell
<1> QED
  <2>1. \/ gate.direct /\ plan = <<DirectPlan(gate.direct_type)>>
        \/ ~gate.direct /\ \E c : plan = <<ContinuePlan(c)>>
        \/ ~gate.direct /\ \E engine : plan = <<TransformPlan(engine)>>
        \/ ~gate.direct /\ \E type, c, said : plan = <<SemanticPlan(type, c, said, message, files)>>
        \/ ~gate.direct /\ \E said : plan = <<ModelPlan(said)>>
    BY PlanCases
  <2> QED
    BY <1>1, <1>2, <1>3, <1>4, <1>5, <2>1 DEF locked

\* A turn takes one of the messages, and its plan declares well.
PlanInv ==
    /\ turn.message # <<>> => turn.message[1] \in Messages
    /\ turn.plan # <<>> => DeclaresWell(turn.plan[1], turn.gate.direct)

\* A plan is made once, and kept as it was made.
LEMMA PlanInvStep ==
    ASSUME Shape, StepsInv, PlanInv, [Next]_vars
    PROVE  PlanInv'
<1>1. TurnSteps(turn, turn')
  BY ShapeStep
<1>2. CASE TakesMessage(turn, turn')
  <2>1. turn'.message[1] \in Messages
    BY <1>2 DEF TakesMessage
  <2>2. turn'.plan = <<>>
    BY <1>2 DEF TakesMessage, Keeps, TurnFields, NoTurn
  <2> QED
    BY <2>1, <2>2 DEF PlanInv
<1>3. CASE MakesPlan(turn, turn')
  <2>1. turn'.message = turn.message /\ turn'.gate = turn.gate /\ turn.pc = "gated"
    BY <1>3 DEF MakesPlan, Keeps, TurnFields
  <2>2. turn.message[1] \in Messages
    BY <2>1 DEF PlanInv, StepsInv
  <2>3. PICK artifact, plan : \E hint \in Hints :
          /\ plan = BuildExecutionPlan(turn.gate, artifact, turn.message[1], hint.followup,
                                       hint.intent, hint.said, agent)
          /\ plan # <<>> /\ turn'.plan = <<LockOffTheWeb(plan[1])>>
    BY <1>3 DEF MakesPlan
  <2>4. DeclaresWell(LockOffTheWeb(plan[1]), turn.gate.direct)
    BY <2>2, <2>3, PlanDeclaresWell
  <2> DEFINE locked == LockOffTheWeb(plan[1])
  <2>5. turn'.plan[1] = locked
    BY <2>3
  <2> QED
    BY <2>1, <2>2, <2>4, <2>5 DEF PlanInv
<1>4. CASE Begins(turn')
  <2>1. turn'.message = <<>> /\ turn'.plan = <<>>
    BY <1>4 DEF Begins, NoTurn
  <2> QED
    BY <2>1 DEF PlanInv
<1>5. CASE ~TakesMessage(turn, turn') /\ ~MakesPlan(turn, turn') /\ ~Begins(turn')
  <2>1. /\ turn'.message = turn.message /\ turn'.plan = turn.plan /\ turn'.gate = turn.gate
    BY <1>1, <1>5 DEF TurnSteps, Fails, Resolves, CreatesRequest, StartsExecuting,
                      ExecutesRequest, Attaches, Replies, Injects, Keeps, TurnFields
  <2> QED
    BY <2>1 DEF PlanInv
<1> QED
  BY <1>2, <1>3, <1>4, <1>5

\* So at every step the plan declares no more than it may.
LEMMA PlanInvariant == Spec => []PlanInv
<1>1. Init => PlanInv
  <2>1. NoTurn.message = <<>> /\ NoTurn.plan = <<>>
    BY DEF NoTurn
  <2> QED
    BY <2>1 DEF Init, PlanInv
<1>2. Shape /\ StepsInv /\ PlanInv /\ [Next]_vars => PlanInv'
  BY PlanInvStep
<1> QED
  BY <1>1, <1>2, ShapeInvariant, StepsInvariant, PTL DEF Spec

--------------------------------------------------------------------------------
(* Requests, the rules of the turn, and results. *)

TodoWell(todo) ==
    /\ IsSeq(todo)
    /\ \A i \in 1 .. Len(todo) : todo[i].item = <<>> \/ TextItem(todo[i].item[1])

\* What there is to look up, by metadata taken from a text, comes of that text.
LEMMA TodoOfText ==
    ASSUME NEW metadata, TextMetadata(metadata)
    PROVE  TodoWell(Todo(metadata))
<1>1. CASE metadata.form = "none"
  <2> DEFINE e == [item |-> <<>>, ordinal |-> 0]
  <2>1. Todo(metadata) = <<e>> /\ e.item = <<>>
    BY <1>1 DEF Todo
  <2> HIDE DEF e
  <2>2. IsSeq(<<e>>) /\ Len(<<e>>) = 1 /\ <<e>>[1] = e
    BY DEF IsSeq, Range
  <2> QED
    BY <2>1, <2>2 DEF TodoWell
<1>2. CASE metadata.form = "single"
  <2> DEFINE e == [item |-> metadata.items, ordinal |-> 0]
  <2>1. Todo(metadata) = <<e>> /\ e.item = metadata.items
    BY <1>2 DEF Todo
  <2>2. TextItem(metadata.items[1])
    BY <1>2 DEF TextMetadata
  <2> HIDE DEF e
  <2>3. IsSeq(<<e>>) /\ Len(<<e>>) = 1 /\ <<e>>[1] = e
    BY DEF IsSeq, Range
  <2> QED
    BY <2>1, <2>2, <2>3 DEF TodoWell
<1>3. CASE metadata.form = "targets"
  <2> DEFINE todo == [i \in DOMAIN metadata.items |->
                         [item |-> <<metadata.items[i]>>, ordinal |-> i]]
  <2>1. Todo(metadata) = todo
    BY <1>3 DEF Todo
  <2>2. PICK n \in Nat : DOMAIN metadata.items = 1 .. n
    BY <1>3 DEF TextMetadata
  <2>3. ASSUME NEW i \in 1 .. n PROVE TextItem(todo[i].item[1])
    <3>1. todo[i].item = <<metadata.items[i]>>
      BY <2>2
    <3> HIDE DEF todo
    <3>2. todo[i].item[1] = metadata.items[i]
      BY <3>1
    <3> QED
      BY <2>2, <3>2 DEF TextMetadata
  <2>4. todo \in [1 .. n -> Range(todo)]
    BY <2>2 DEF Range
  <2> HIDE DEF todo
  <2>5. IsSeq(todo) /\ Len(todo) = n
    BY <2>4, FunctionSeq DEF IsSeq
  <2> QED
    BY <2>1, <2>3, <2>5 DEF TodoWell
<1> QED
  BY <1>1, <1>2, <1>3 DEF TextMetadata

\* The first of it and the rest of it do so as well.
LEMMA TodoTail ==
    ASSUME NEW todo, TodoWell(todo), todo # <<>>
    PROVE  /\ TodoWell(Tail(todo))
           /\ Head(todo).item = <<>> \/ TextItem(Head(todo).item[1])
<1> DEFINE S == Range(todo)
<1>1. todo \in Seq(S) /\ Len(todo) \in Nat \ {0}
  BY EmptySeq DEF TodoWell, IsSeq
<1> HIDE DEF S
<1>2. /\ Head(todo) = todo[1] /\ Tail(todo) \in Seq(S) /\ Len(Tail(todo)) = Len(todo) - 1
      /\ \A i \in 1 .. Len(Tail(todo)) : Tail(todo)[i] = todo[i + 1]
  BY <1>1, HeadTailProperties
<1>3. IsSeq(Tail(todo))
  BY <1>2, SeqOfRange DEF IsSeq
<1>4. ASSUME NEW i \in 1 .. Len(Tail(todo))
      PROVE  Tail(todo)[i].item = <<>> \/ TextItem(Tail(todo)[i].item[1])
  <2>1. i + 1 \in 1 .. Len(todo)
    BY <1>1, <1>2
  <2> QED
    BY <1>2, <2>1 DEF TodoWell
<1>5. 1 \in 1 .. Len(todo)
  BY <1>1
<1> QED
  BY <1>2, <1>3, <1>4, <1>5 DEF TodoWell

\* What a turn looks up, by the capability of its plan: requests of exact
\* lookups, each with its own root.
RequestsInv ==
    /\ turn.plan # <<>> /\ turn.plan[1].capability # "" => TodoWell(turn.todo)
    /\ turn.plan # <<>> /\ turn.plan[1].capability = "" =>
          turn.requests = <<>> /\ turn.traces = <<>>
    /\ \A i \in 1 .. Len(turn.requests) :
          /\ turn.requests[i].root = i
          /\ turn.requests[i].lookup_type = "exact_entity_lookup"

\* Each request created takes the next place, and is the root of its lineage.
LEMMA RequestsInvStep ==
    ASSUME Shape, StepsInv, PlanInv, RequestsInv, [Next]_vars
    PROVE  RequestsInv'
<1> DEFINE t == turn
           u == turn'
<1>0. TodoWell(<<>>) /\ \A i \in 1 .. Len(<<>>) : FALSE
  BY EmptyIsSeq DEF TodoWell
<1>1. TurnSteps(t, u)
  BY ShapeStep
<1>2. CASE TakesMessage(t, u)
  <2>1. u.plan = <<>> /\ u.requests = <<>>
    BY <1>2 DEF TakesMessage, Keeps, TurnFields, NoTurn
  <2> QED
    BY <1>0, <2>1 DEF RequestsInv
<1>3. CASE MakesPlan(t, u)
  <2>1. u.requests = <<>> /\ u.traces = <<>> /\ u.todo = <<>>
    BY <1>3 DEF MakesPlan, Keeps, TurnFields, StepsInv
  <2> QED
    BY <1>0, <2>1 DEF RequestsInv
<1>4. CASE Resolves(t, u)
  <2>1. /\ u.plan = t.plan /\ t.plan # <<>> /\ u.requests = t.requests /\ u.traces = t.traces
        /\ u.todo = Todo(t.plan[1].metadata)
    BY <1>4 DEF Resolves, Keeps, TurnFields, StepsInv
  <2>2. t.plan[1].capability # "" => TodoWell(u.todo)
    BY <2>1, TodoOfText DEF PlanInv, DeclaresWell
  <2> QED
    BY <2>1, <2>2 DEF RequestsInv
<1>5. CASE CreatesRequest(t, u)
  <2>1. /\ u.plan = t.plan /\ t.plan # <<>> /\ t.todo # <<>> /\ u.todo = Tail(t.todo)
        /\ IsSeq(t.requests)
    BY <1>5 DEF CreatesRequest, Keeps, TurnFields, StepsInv
  <2>2. CASE t.plan[1].capability = ""
    <3>1. u.requests = t.requests \o <<>> /\ u.traces = t.traces
      BY <1>5, <2>2, Created
    <3>2. u.requests = t.requests
      BY <2>1, <3>1, ConcatEmptySeq DEF IsSeq
    <3> QED
      BY <2>1, <2>2, <3>1, <3>2 DEF RequestsInv
  <2>3. CASE t.plan[1].capability # ""
    <3>1. /\ TodoWell(u.todo)
          /\ Head(t.todo).item = <<>> \/ TextItem(Head(t.todo).item[1])
      BY <2>1, <2>3, TodoTail DEF RequestsInv
    <3>2. CASE u.requests = t.requests \o <<>>
      <4>1. u.requests = t.requests
        BY <2>1, <3>2, ConcatEmptySeq DEF IsSeq
      <4> QED
        BY <2>1, <2>3, <3>1, <4>1 DEF RequestsInv
    <3>3. ASSUME NEW request, u.requests = t.requests \o <<request>>,
                 request.root = Len(t.requests) + 1,
                 request.lookup_type = "exact_entity_lookup"
          PROVE  RequestsInv'
      <4> DEFINE n == Len(t.requests)
      <4>1. /\ Len(u.requests) = n + 1 /\ n \in Nat /\ u.requests[n + 1] = request
            /\ \A i \in 1 .. n : u.requests[i] = t.requests[i]
        <5>1. u.requests = Append(t.requests, request)
          BY <2>1, <3>3, OneMore
        <5>2. n \in Nat
          BY <2>1, LenProperties DEF IsSeq
        <5> QED
          BY <2>1, <5>1, <5>2, OneMore
      <4>2. ASSUME NEW i \in 1 .. n + 1
            PROVE  /\ u.requests[i].root = i
                   /\ u.requests[i].lookup_type = "exact_entity_lookup"
        <5>1. CASE i = n + 1
          BY <3>3, <4>1, <5>1
        <5>2. CASE i # n + 1
          <6>1. i \in 1 .. n
            BY <4>1, <5>2
          <6> QED
            BY <4>1, <6>1 DEF RequestsInv
        <5> QED
          BY <5>1, <5>2
      <4> QED
        BY <2>1, <2>3, <3>1, <4>1, <4>2 DEF RequestsInv
    <3>4. \/ u.requests = t.requests \o <<>>
          \/ \E request : /\ u.requests = t.requests \o <<request>>
                          /\ request.root = Len(t.requests) + 1
                          /\ request.lookup_type = "exact_entity_lookup"
      <4>1. CreatesRequest(t, u)
        BY <1>5
      <4>2. \/ Head(t.todo).item = <<>>
            \/ DOMAIN Head(t.todo).item[1] \subseteq {"entity_name", "workflow_topic"}
        BY <3>1 DEF TextItem
      <4> HIDE DEF t, u
      <4>3. \/ u.requests = t.requests \o <<>>
            \/ \E request :
                  /\ u.requests = t.requests \o <<request>>
                  /\ t.plan[1].capability # "" /\ request.root = Len(t.requests) + 1
                  /\ Head(t.todo).item = <<>>
                     \/ DOMAIN Head(t.todo).item[1] \subseteq {"entity_name", "workflow_topic"}
                        => request.lookup_type = "exact_entity_lookup"
        BY <4>1, Created
      <4> QED
        BY <4>2, <4>3
    <3> QED
      BY <3>2, <3>3, <3>4
  <2> QED
    BY <2>2, <2>3
<1>6. CASE Begins(u)
  <2>1. u.plan = <<>> /\ u.requests = <<>>
    BY <1>6 DEF Begins, NoTurn
  <2> QED
    BY <1>0, <2>1 DEF RequestsInv
<1>7. CASE \/ Fails(t, u) \/ StartsExecuting(t, u) \/ ExecutesRequest(t, u) \/ Attaches(t, u)
           \/ Replies(t, u) \/ Injects(t, u) \/ u = t
  <2>1. u.plan = t.plan /\ u.requests = t.requests /\ u.traces = t.traces /\ u.todo = t.todo
    BY <1>7 DEF Fails, StartsExecuting, ExecutesRequest, Attaches, Replies, Injects, Keeps,
                TurnFields
  <2> QED
    BY <2>1 DEF RequestsInv
<1> QED
  BY <1>1, <1>2, <1>3, <1>4, <1>5, <1>6, <1>7 DEF TurnSteps

\* So requests are roots, in the order in which they were created.
LEMMA RequestsInvariant == Spec => []RequestsInv
<1>1. Init => RequestsInv
  <2>1. NoTurn.plan = <<>> /\ NoTurn.requests = <<>>
    BY DEF NoTurn
  <2>2. \A i \in 1 .. Len(<<>>) : FALSE
    BY EmptyIsSeq
  <2> QED
    BY <2>1, <2>2 DEF Init, RequestsInv
<1>2. Shape /\ StepsInv /\ PlanInv /\ RequestsInv /\ [Next]_vars => RequestsInv'
  BY RequestsInvStep
<1> QED
  BY <1>1, <1>2, ShapeInvariant, StepsInvariant, PlanInvariant, PTL DEF Spec

\* The rules of a capability that was resolved are well formed.
BundleWell(b) ==
    /\ b.materialization.allowed_fields \in Seq(STRING) /\ b.materialization.max_fields \in Nat
    /\ b.render.field_order \in Seq(STRING)
    /\ b.injection.max_blocks \in Nat \ {0} /\ b.injection.max_facts_per_block \in Nat \ {0}

\* A capability that registers has policies that were validated.
LEMMA RegistrationWell ==
    ASSUME NEW binding, NEW contract, Registration(binding, contract) # <<>>
    PROVE  /\ Registration(binding, contract) = <<Registration(binding, contract)[1]>>
           /\ BundleWell(Registration(binding, contract)[1])
<1> DEFINE b == [governance |-> Governance(binding), execution |-> Execution(binding),
                 request |-> binding.request, materialization |-> binding.materialization,
                 render |-> binding.render, injection |-> binding.injection]
           m == Field(binding, "materialization", <<>>)
           r == Field(binding, "render", <<>>)
           j == Field(binding, "injection", <<>>)
           k == Head(contract)
<1>1. Registration(binding, contract) = <<b>> /\ PoliciesValid(binding, contract)
  BY DEF Registration
<1>2. /\ MaterializationPolicyValid(m, k) /\ RenderPolicyValid(r, k)
      /\ InjectionPolicyValid(j, k)
  BY <1>1 DEF PoliciesValid
<1>3. m # <<>> /\ r # <<>> /\ j # <<>>
  BY <1>2 DEF MaterializationPolicyValid, RenderPolicyValid, InjectionPolicyValid, IsObject
<1>4. m = binding.materialization /\ r = binding.render /\ j = binding.injection
  BY <1>3 DEF Field
<1>5. b.materialization = m /\ b.render = r /\ b.injection = j
  BY <1>4
<1> HIDE DEF b, m, r, j, k
<1>6. m.allowed_fields \in Seq(STRING) /\ m.max_fields \in Nat
  <2>1. m.allowed_fields \in Seq(STRING) /\ m.max_fields \in 1 .. Len(m.allowed_fields)
    BY <1>2 DEF MaterializationPolicyValid, Strings
  <2>2. Len(m.allowed_fields) \in Nat
    BY <2>1, LenProperties
  <2> QED
    BY <2>1, <2>2
<1>7. r.field_order \in Seq(STRING)
  BY <1>2 DEF RenderPolicyValid, Strings
<1>8. j.max_blocks \in Nat \ {0} /\ j.max_facts_per_block \in Nat \ {0}
  BY <1>2 DEF InjectionPolicyValid, BudgetPolicyValid, Positive
<1>9. BundleWell(b)
  BY <1>5, <1>6, <1>7, <1>8 DEF BundleWell
<1>10. <<b>>[1] = b
  OBVIOUS
<1> QED
  BY <1>1, <1>9, <1>10

BundleInv ==
    turn.bundle # <<>> => turn.bundle = <<turn.bundle[1]>> /\ BundleWell(turn.bundle[1])

\* A turn resolves its capability once, and keeps what it resolved.
LEMMA BundleInvStep ==
    ASSUME Shape, BundleInv, [Next]_vars
    PROVE  BundleInv'
<1>1. TurnSteps(turn, turn')
  BY ShapeStep
<1>2. CASE Resolves(turn, turn')
  <2> DEFINE resolved == Resolve(turn.plan[1].capability)
  <2>1. turn'.bundle = resolved
    BY <1>2 DEF Resolves
  <2>2. resolved = <<>> \/ \E binding, contract : resolved = Registration(binding, contract)
    BY DEF Resolve, ResolveLookupCapability
  <2> HIDE DEF resolved
  <2>3. ASSUME resolved # <<>>
        PROVE  resolved = <<resolved[1]>> /\ BundleWell(resolved[1])
    <3>1. PICK binding, contract : resolved = Registration(binding, contract)
      BY <2>2, <2>3
    <3> QED
      BY <2>3, <3>1, RegistrationWell
  <2> QED
    BY <2>1, <2>3 DEF BundleInv
<1>3. CASE ~Resolves(turn, turn')
  <2>1. turn'.bundle = turn.bundle \/ turn'.bundle = NoTurn.bundle
    BY <1>1, <1>3 DEF TurnSteps, TakesMessage, Fails, MakesPlan, CreatesRequest,
                      StartsExecuting, ExecutesRequest, Attaches, Replies, Injects, Begins,
                      Keeps, TurnFields
  <2>2. NoTurn.bundle = <<>>
    BY DEF NoTurn
  <2> QED
    BY <2>1, <2>2 DEF BundleInv
<1> QED
  BY <1>2, <1>3

\* So a turn's policies are, at every step, those that were validated.
LEMMA BundleInvariant == Spec => []BundleInv
<1>1. Init => BundleInv
  BY DEF Init, NoTurn, BundleInv
<1>2. Shape /\ BundleInv /\ [Next]_vars => BundleInv'
  BY BundleInvStep
<1> QED
  BY <1>1, <1>2, ShapeInvariant, PTL DEF Spec

\* What the rules of a turn must be for a request to run under them.
RunsUnder(request, bundle) ==
    /\ bundle # <<>>
    /\ bundle[1].governance = "enabled"
    /\ request.lookup_type = bundle[1].request.lookup_type
    /\ request.fields.source_scope \in bundle[1].request.allowed_source_scopes

\* A result is that of its request; it has run under the rules, and what it
\* found is one record, without a reason.
ResultWell(result, request, bundle) ==
    /\ result.request = request
    /\ result.executed => RunsUnder(request, bundle)
    /\ result.records = Len(result.payloads)
    /\ \/ result.payloads = <<>>
       \/ /\ result.payloads = <<result.payloads[1]>>
          /\ result.executed /\ result.reasons = {}

\* A request that is not refused is enabled and of its capability's scope.
LEMMA NotRefused ==
    ASSUME NEW request, NEW bundle, NEW registries, Refused(request, bundle, registries) = {}
    PROVE  RunsUnder(request, bundle)
<1>1. \A x : {x} # {}
  OBVIOUS
<1>2. RequestValid(request, registries) /\ bundle # <<>>
  BY <1>1 DEF Refused
<1>3. ExecutionAllowed(bundle[1].governance)
  BY <1>1, <1>2 DEF Refused
<1>4. MismatchReasons(request, bundle[1]) = {}
  BY <1>2, <1>3 DEF Refused
<1> QED
  BY <1>2, <1>3, <1>4 DEF ExecutionAllowed, MismatchReasons, RunsUnder

\* A lookup that was refused, or failed, found nothing.
LEMMA NothingFound ==
    ASSUME NEW request, NEW bundle, NEW executed, NEW reasons,
           executed => RunsUnder(request, bundle)
    PROVE  ResultWell(Result(request, executed, <<>>, reasons), request, bundle)
BY DEF Result, ResultWell

\* What an executor answers is taken over as one record with its fields, or none.
LEMMA AnswerWell ==
    ASSUME NEW request, NEW bundle, NEW outcome \in Outcomes["exact_entity_lookup"],
           RunsUnder(request, bundle)
    PROVE  ResultWell(FromExecutor(request, outcome), request, bundle)
<1> DEFINE unavailable ==
               {IF request.lookup_type = "bounded_entity_search"
                THEN "bounded_entity_search_not_implemented" ELSE "lookup_executor_unavailable"}
           stopped == {"lookup_execution_" \o outcome.kind}
           answer == IF outcome.ok /\ outcome.payloads = <<>>
                     THEN Result(request, outcome.executed, <<>>, {"malformed_lookup_payload"})
                     ELSE Result(request, outcome.executed,
                                 IF outcome.ok THEN outcome.payloads ELSE <<>>, outcome.reasons)
           result == FromExecutor(request, outcome)
<1>1. result = CASE outcome.kind = "unavailable" -> Result(request, FALSE, <<>>, unavailable)
                 [] outcome.kind = "exception" ->
                        Result(request, FALSE, <<>>, {"lookup_executor_exception"})
                 [] outcome.kind \in {"timeout", "cancelled"} ->
                        Result(request, FALSE, <<>>, stopped)
                 [] OTHER -> answer
  BY DEF FromExecutor
<1>2. outcome.kind \in OutcomeKinds
  BY OutcomesAssumption
<1> HIDE DEF unavailable, stopped, answer, result
<1>3. CASE outcome.kind # "answer"
  <2>1. \E reasons : result = Result(request, FALSE, <<>>, reasons)
    BY <1>1, <1>2, <1>3 DEF OutcomeKinds
  <2> QED
    BY <2>1, NothingFound DEF result
<1>4. CASE outcome.kind = "answer"
  <2>1. result = answer
    BY <1>1, <1>4
  <2>2. CASE outcome.ok /\ outcome.payloads # <<>>
    <3>1. answer = Result(request, outcome.executed, outcome.payloads, outcome.reasons)
      BY <2>2 DEF answer
    <3>2. /\ outcome.executed /\ outcome.reasons = {}
          /\ outcome.payloads = <<outcome.payloads[1]>>
      BY <1>4, <2>2, OutcomesAssumption
    <3> QED
      BY <2>1, <3>1, <3>2 DEF Result, ResultWell, result
  <2>3. CASE ~(outcome.ok /\ outcome.payloads # <<>>)
    <3>1. \E reasons : answer = Result(request, outcome.executed, <<>>, reasons)
      BY <2>3 DEF answer
    <3> QED
      BY <2>1, <3>1, NothingFound DEF result
  <2> QED
    BY <2>2, <2>3
<1> QED
  BY <1>3, <1>4 DEF result

ResultsInv ==
    \A i \in 1 .. Len(turn.results) :
        ResultWell(turn.results[i], turn.requests[i], turn.bundle)

\* Each lookup executed adds its result, under the rules of its turn.
LEMMA ResultsInvStep ==
    ASSUME Shape, StepsInv, RequestsInv, ResultsInv, [Next]_vars
    PROVE  ResultsInv'
<1> DEFINE t == turn
           u == turn'
<1>1. TurnSteps(t, u)
  BY ShapeStep
<1>2. CASE ExecutesRequest(t, u)
  <2> DEFINE n == Len(t.results)
             request == t.requests[n + 1]
             refused == Refused(request, t.bundle, Registries)
  <2>1. /\ u.requests = t.requests /\ u.bundle = t.bundle /\ n < Len(t.requests)
        /\ IsSeq(t.results) /\ IsSeq(t.requests)
    BY <1>2 DEF ExecutesRequest, Keeps, TurnFields, StepsInv
  <2>2. n \in Nat /\ n + 1 \in 1 .. Len(t.requests)
    BY <2>1, LenProperties DEF IsSeq
  <2>3. request.lookup_type = "exact_entity_lookup"
    BY <2>2 DEF RequestsInv
  <2>4. PICK result :
          /\ u.results = Append(t.results, result)
          /\ \E outcome \in Outcomes["exact_entity_lookup"] :
                result = IF refused # {} THEN Result(request, FALSE, <<>>, refused)
                         ELSE FromExecutor(request, outcome)
    BY <1>2, <2>3 DEF ExecutesRequest
  <2>5. ResultWell(result, request, t.bundle)
    <3> HIDE DEF request
    <3>1. CASE refused # {}
      <4>1. \E reasons : result = Result(request, FALSE, <<>>, reasons)
        BY <2>4, <3>1
      <4> QED
        BY <4>1, NothingFound
    <3>2. CASE refused = {}
      <4>1. RunsUnder(request, t.bundle)
        BY <3>2, NotRefused
      <4>2. \E outcome \in Outcomes["exact_entity_lookup"] :
               result = FromExecutor(request, outcome)
        BY <2>4, <3>2
      <4> QED
        BY <4>1, <4>2, AnswerWell
    <3> QED
      BY <3>1, <3>2
  <2>6. /\ Len(u.results) = n + 1 /\ u.results[n + 1] = result
        /\ \A i \in 1 .. n : u.results[i] = t.results[i]
    <3>1. u.results = Append(t.results, result) /\ IsSeq(t.results)
      BY <2>1, <2>4
    <3> HIDE DEF request, refused
    <3>2. /\ Len(Append(t.results, result)) = Len(t.results) + 1
          /\ Append(t.results, result)[Len(t.results) + 1] = result
          /\ \A i \in 1 .. Len(t.results) : Append(t.results, result)[i] = t.results[i]
      BY <3>1, OneMore
    <3> QED
      BY <3>1, <3>2
  <2>7. ASSUME NEW i \in 1 .. n + 1
        PROVE  ResultWell(u.results[i], u.requests[i], u.bundle)
    <3>1. CASE i = n + 1
      BY <2>1, <2>5, <2>6, <3>1
    <3>2. CASE i # n + 1
      <4>1. i \in 1 .. n
        BY <2>2, <3>2
      <4> QED
        BY <2>1, <2>6, <4>1 DEF ResultsInv
    <3> QED
      BY <3>1, <3>2
  <2> QED
    BY <2>6, <2>7 DEF ResultsInv
<1>3. CASE \/ TakesMessage(t, u) \/ MakesPlan(t, u) \/ Fails(t, u) \/ Resolves(t, u)
           \/ CreatesRequest(t, u) \/ Begins(u)
  <2>1. u.results = <<>>
    <3>1. CASE TakesMessage(t, u) \/ Begins(u)
      BY <3>1 DEF TakesMessage, Begins, Keeps, TurnFields, NoTurn
    <3>2. CASE MakesPlan(t, u) \/ Fails(t, u) \/ Resolves(t, u) \/ CreatesRequest(t, u)
      <4>1. u.results = t.results /\ t.pc \in {"gated", "planned", "creating"}
        BY <3>2 DEF MakesPlan, Fails, Resolves, CreatesRequest, Keeps, TurnFields
      <4> QED
        BY <4>1 DEF StepsInv
    <3> QED
      BY <1>3, <3>1, <3>2
  <2>2. \A i \in 1 .. Len(<<>>) : FALSE
    BY EmptyIsSeq
  <2> QED
    BY <2>1, <2>2 DEF ResultsInv
<1>4. CASE \/ StartsExecuting(t, u) \/ Attaches(t, u) \/ Replies(t, u) \/ Injects(t, u) \/ u = t
  <2>1. u.results = t.results /\ u.requests = t.requests /\ u.bundle = t.bundle
    BY <1>4 DEF StartsExecuting, Attaches, Replies, Injects, Keeps, TurnFields
  <2> QED
    BY <2>1 DEF ResultsInv
<1> QED
  BY <1>1, <1>2, <1>3, <1>4 DEF TurnSteps

\* So every result is one of a request that ran, or was refused, by those rules.
LEMMA ResultsInvariant == Spec => []ResultsInv
<1>1. Init => ResultsInv
  <2>1. NoTurn.results = <<>>
    BY DEF NoTurn
  <2>2. \A i \in 1 .. Len(<<>>) : FALSE
    BY EmptyIsSeq
  <2> QED
    BY <2>1, <2>2 DEF Init, ResultsInv
<1>2. Shape /\ StepsInv /\ RequestsInv /\ ResultsInv /\ [Next]_vars => ResultsInv'
  BY ResultsInvStep
<1> QED
  BY <1>1, <1>2, ShapeInvariant, StepsInvariant, RequestsInvariant, PTL DEF Spec

--------------------------------------------------------------------------------
(* The summary. *)

\* What is attached comes of the results, of which there is one for each
\* request; what is injected, of what is attached; and the summary tells of all
\* that the turn has.
AttachedInv ==
    /\ turn.pc \in {"attached", "done"} =>
          Attached(turn) /\ HasSummary(turn) /\ Len(turn.results) = Len(turn.requests)
    /\ turn.pc = "done" =>
          \/ Injected(turn)
          \/ turn.injection = <<>> /\ turn.gate.direct

\* The packets, the gate's decision and the rendered context are made at once.
LEMMA AttachedInvStep ==
    ASSUME Shape, StepsInv, AttachedInv, [Next]_vars
    PROVE  AttachedInv'
<1> DEFINE t == turn
           u == turn'
           Same == /\ u.requests = t.requests /\ u.results = t.results /\ u.traces = t.traces
                   /\ u.bundle = t.bundle /\ u.gate = t.gate
           SameContext == /\ u.packets = t.packets /\ u.decision = t.decision
                          /\ u.rendered = t.rendered
<1>1. TurnSteps(t, u)
  BY ShapeStep
<1>2. CASE Attaches(t, u)
  <2>1. /\ u.pc = "attached" /\ Attached(u) /\ HasSummary(u)
        /\ u.results = t.results /\ u.requests = t.requests /\ Len(t.results) = Len(t.requests)
    BY <1>2 DEF Attaches, Keeps, TurnFields
  <2> QED
    BY <2>1 DEF AttachedInv, Attached, HasSummary
<1>3. CASE Replies(t, u)
  <2>1. /\ t.pc = "attached" /\ u.pc = "done" /\ t.gate.direct /\ Same /\ SameContext
        /\ u.injection = t.injection /\ u.summary = t.summary
    BY <1>3 DEF Replies, Keeps, TurnFields, DirectReply
  <2>2. t.injection = <<>>
    BY <2>1 DEF StepsInv
  <2>3. Attached(t) /\ HasSummary(t) /\ Len(t.results) = Len(t.requests)
    BY <2>1 DEF AttachedInv
  <2>4. Attached(u) /\ HasSummary(u)
    BY <2>1, <2>3 DEF Attached, HasSummary
  <2> QED
    BY <2>1, <2>2, <2>3, <2>4 DEF AttachedInv, Attached, HasSummary
<1>4. CASE Injects(t, u)
  <2>1. /\ t.pc = "attached" /\ u.pc = "done" /\ Injected(u) /\ HasSummary(u)
        /\ Same /\ SameContext
    BY <1>4 DEF Injects, Keeps, TurnFields
  <2>2. Attached(t) /\ Len(t.results) = Len(t.requests)
    BY <2>1 DEF AttachedInv
  <2>3. Attached(u)
    BY <2>1, <2>2 DEF Attached
  <2> QED
    BY <2>1, <2>2, <2>3 DEF AttachedInv, Attached, HasSummary, Injected
<1>5. CASE u = t
  BY <1>5 DEF AttachedInv, Attached, HasSummary, Injected
<1>6. CASE \/ TakesMessage(t, u) \/ MakesPlan(t, u) \/ Fails(t, u) \/ Resolves(t, u)
           \/ CreatesRequest(t, u) \/ StartsExecuting(t, u) \/ ExecutesRequest(t, u) \/ Begins(u)
  <2>1. u.pc \notin {"attached", "done"}
    <3>1. CASE TakesMessage(t, u) \/ MakesPlan(t, u) \/ Fails(t, u) \/ Resolves(t, u)
               \/ StartsExecuting(t, u)
      BY <3>1 DEF TakesMessage, MakesPlan, Fails, Resolves, StartsExecuting
    <3>2. CASE CreatesRequest(t, u) \/ ExecutesRequest(t, u)
      BY <3>2 DEF CreatesRequest, ExecutesRequest, Keeps, TurnFields
    <3>3. CASE Begins(u)
      BY <3>3 DEF Begins, NoTurn
    <3> QED
      BY <1>6, <3>1, <3>2, <3>3
  <2> QED
    BY <2>1 DEF AttachedInv
<1> QED
  BY <1>1, <1>2, <1>3, <1>4, <1>5, <1>6 DEF TurnSteps

\* So each of them is what comes of the results and policies of the turn.
LEMMA AttachedInvariant == Spec => []AttachedInv
<1>1. Init => AttachedInv
  <2>1. NoTurn.pc = "idle"
    BY DEF NoTurn
  <2> QED
    BY <2>1 DEF Init, AttachedInv
<1>2. Shape /\ StepsInv /\ AttachedInv /\ [Next]_vars => AttachedInv'
  BY AttachedInvStep
<1> QED
  BY <1>1, <1>2, ShapeInvariant, StepsInvariant, PTL DEF Spec

\* A lookup has succeeded only with one record and without a reason.
LEMMA StatusSuccess ==
    ASSUME NEW r
    PROVE  Status(r) = "success" <=> r.executed /\ r.records = 1 /\ r.reasons = {}
BY DEF Status

\* All of the lookups of a turn have succeeded if that is its status, and one of
\* them is enough for part of it.
LEMMA ExecutionSuccess ==
    ASSUME NEW attempted, NEW created, NEW results
    PROVE  /\ ExecutionStatus(attempted, created, results) = "success" =>
                 \A r \in Range(results) : Status(r) = "success"
           /\ attempted /\ created /\ results # <<>>
              /\ (\E r \in Range(results) : Status(r) = "success") =>
                 ExecutionStatus(attempted, created, results) \in {"success", "partial_success"}
<1> DEFINE statuses == {Status(r) : r \in Range(results)}
           common == CHOOSE s \in statuses : TRUE
           ran == \E r \in Range(results) : r.executed
           status == ExecutionStatus(attempted, created, results)
<1>1. status = IF ~attempted                      THEN "not_attempted"
               ELSE IF ~created                   THEN "request_not_created"
               ELSE IF results = <<>>             THEN "not_executed"
               ELSE IF statuses = {"success"}     THEN "success"
               ELSE IF "success" \in statuses     THEN "partial_success"
               ELSE IF statuses \in {{"unauthorized"}, {"duplicate_match"}, {"timeout"},
                                     {"cancelled"}}
                    THEN common
               ELSE IF statuses = {"no_match"} \/ ran THEN "failed" ELSE "skipped"
  BY DEF ExecutionStatus
<1>2. statuses # {} => common \in statuses
  OBVIOUS
<1>3. \A r \in Range(results) : Status(r) \in statuses
  OBVIOUS
<1> HIDE DEF statuses, common, ran, status
<1>4. status = "success" => statuses = {"success"}
  <2>1. ASSUME statuses \in {{"unauthorized"}, {"duplicate_match"}, {"timeout"}, {"cancelled"}}
        PROVE  common # "success"
    BY <1>2, <2>1
  <2> QED
    BY <1>1, <2>1
<1>5. attempted /\ created /\ results # <<>> /\ "success" \in statuses =>
         status \in {"success", "partial_success"}
  BY <1>1
<1> QED
  BY <1>3, <1>4, <1>5 DEF status

\* Whatever is shown comes of a lookup that has found something.
LEMMA PacketsOfSome ==
    ASSUME NEW results, IsSeq(results), NEW policy, Materialize(results, policy) # <<>>
    PROVE  \E i \in 1 .. Len(results) :
              results[i].executed /\ results[i].payloads # <<>>
<1> SUFFICES ASSUME \A i \in 1 .. Len(results) :
                       ~(results[i].executed /\ results[i].payloads # <<>>)
             PROVE  FALSE
  OBVIOUS
<1> DEFINE seqs == [i \in DOMAIN results |-> PacketsOf(results[i], policy[1])]
<1>1. Len(results) \in Nat /\ DOMAIN results = 1 .. Len(results)
  BY LenProperties DEF IsSeq
<1>2. ASSUME NEW i \in DOMAIN results PROVE seqs[i] \in Seq({})
  <2>1. PacketsOf(results[i], policy[1]) = <<>>
    <3>1. Len(<<>>) = 0 /\ ~(0 >= 1)
      BY EmptyIsSeq
    <3>2. ~(results[i].executed /\ results[i].payloads # <<>>)
      BY <1>1
    <3>3. CASE ~results[i].executed
      BY <3>3 DEF PacketsOf
    <3>4. CASE results[i].payloads = <<>>
      BY <3>1, <3>4 DEF PacketsOf
    <3> QED
      BY <3>2, <3>3, <3>4
  <2>2. seqs[i] = <<>>
    BY <2>1
  <2>3. <<>> \in Seq({})
    OBVIOUS
  <2> HIDE DEF seqs
  <2> QED
    BY <2>2, <2>3
<1>3. seqs \in Seq(Seq({}))
  <2>1. seqs \in [1 .. Len(results) -> Seq({})]
    BY <1>1, <1>2
  <2> HIDE DEF seqs
  <2> QED
    BY <1>1, <2>1, FunctionSeq
<1>4. Materialize(results, policy) = <<>> \/ Materialize(results, policy) = FlattenSeq(seqs)
  BY DEF Materialize
<1> HIDE DEF seqs
<1>5. FlattenSeq(seqs) \in Seq({})
  BY <1>3, FlattenType
<1>6. \A s \in Seq({}) : s = <<>>
  OBVIOUS
<1> QED
  BY <1>4, <1>5, <1>6

\* The roots of requests that are each the root of their place are as many as
\* the requests.
LEMMA RootsAsMany ==
    ASSUME NEW requests, IsSeq(requests),
           \A i \in 1 .. Len(requests) : requests[i].root = i
    PROVE  Cardinality({r.root : r \in Range(requests)}) = Len(requests)
<1>1. Len(requests) \in Nat /\ DOMAIN requests = 1 .. Len(requests)
  BY LenProperties DEF IsSeq
<1>2. {r.root : r \in Range(requests)} = 1 .. Len(requests)
  BY <1>1 DEF Range
<1>3. Cardinality(1 .. Len(requests)) = Len(requests)
  <2>1. 1 \in Int /\ Len(requests) \in Int
    BY <1>1
  <2>2. Cardinality(1 .. Len(requests)) =
           IF 1 > Len(requests) THEN 0 ELSE Len(requests) - 1 + 1
    BY <2>1, FS_Interval
  <2> QED
    BY <1>1, <2>2
<1> QED
  BY <1>2, <1>3

\* How many have succeeded is a number, and all of them if each of them has.
LEMMA SuccessfulType ==
    ASSUME NEW results, IsSeq(results)
    PROVE  /\ Successful(results) \in Nat
           /\ (\A r \in Range(results) : Status(r) = "success") =>
                 Successful(results) = Len(results)
<1> DEFINE S == {i \in DOMAIN results : Status(results[i]) = "success"}
           n == Len(results)
<1>1. n \in Nat /\ DOMAIN results = 1 .. n
  BY LenProperties DEF IsSeq
<1>2. IsFiniteSet(1 .. n) /\ Cardinality(1 .. n) = n
  <2>1. 1 \in Int /\ n \in Int
    BY <1>1
  <2>2. IsFiniteSet(1 .. n) /\ Cardinality(1 .. n) = IF 1 > n THEN 0 ELSE n - 1 + 1
    BY <2>1, FS_Interval
  <2> QED
    BY <1>1, <2>2
<1>3. S \subseteq 1 .. n
  BY <1>1
<1>4. Successful(results) = Cardinality(S)
  BY DEF Successful
<1>5. (\A r \in Range(results) : Status(r) = "success") => S = 1 .. n
  BY <1>1 DEF Range
<1> HIDE DEF S, n
<1>6. Cardinality(S) \in Nat
  BY <1>2, <1>3, FS_Subset, FS_CardinalityType
<1> QED
  BY <1>2, <1>4, <1>5, <1>6 DEF n

\* A turn that set out to look something up and injected nothing says why, one
\* that injected something reports a success, and the summary counts each
\* lookup once, as the root of its own lineage (lookup/pipeline_summary.py).
THEOREM SummaryTheorem == Spec => []SummaryTellsWhy
<1>1. StepsInv /\ PlanInv /\ RequestsInv /\ ResultsInv /\ AttachedInv => SummaryTellsWhy
  <2> SUFFICES ASSUME StepsInv, PlanInv, RequestsInv, ResultsInv, AttachedInv,
                      turn.pc = "done", NEW s, s = turn.summary[1]
               PROVE  /\ s.attempted /\ s.injected = 0 => s.reasons # {}
                      /\ s.injected > 0 => s.status \in {"success", "partial_success"}
                      /\ s.successful + s.failed = Cardinality(s.roots)
                      /\ s.status = "success" => s.failed = 0 /\ s.records = Cardinality(s.roots)
    BY DEF SummaryTellsWhy
  <2> DEFINE n == Len(turn.results)
             injection == turn.injection
             attempted == turn.traces # <<>> \/ turn.requests # <<>>
             records == [i \in DOMAIN turn.results |-> turn.results[i].records]
             roots == {r.root : r \in Range(turn.requests)}
             others == (UNION {r.reasons : r \in Range(turn.traces)})
                       \union (UNION {r.reasons : r \in Range(turn.results)})
                       \union turn.decision.reasons
             last == IF injection = <<>> THEN {} ELSE injection[1].reasons
             told == others \union last
             injected == IF injection = <<>> \/ ~injection[1].allowed THEN 0
                         ELSE Len(injection[1].fragment[1].blocks)
             status == ExecutionStatus(attempted, turn.requests # <<>>, turn.results)
  <2>1. /\ IsSeq(turn.results) /\ IsSeq(turn.requests) /\ n = Len(turn.requests)
        /\ turn.plan # <<>> /\ Attached(turn) /\ HasSummary(turn)
        /\ Injected(turn) \/ (injection = <<>> /\ turn.gate.direct)
    BY DEF StepsInv, AttachedInv
  <2>2. n \in Nat /\ DOMAIN turn.results = 1 .. n
    BY <2>1, LenProperties DEF IsSeq
  <2>3. /\ s.attempted = attempted /\ s.injected = injected /\ s.reasons = told
        /\ s.status = status /\ s.successful = Successful(turn.results)
        /\ s.failed = n - Successful(turn.results) /\ s.records = Total(records)
        /\ s.roots = roots
    <3> DEFINE summary == Summary(turn.traces, turn.requests, turn.results, turn.packets,
                                  turn.decision, turn.injection)
    <3>1. s = summary
      <4>1. turn.summary = <<summary>>
        BY <2>1 DEF HasSummary
      <4> HIDE DEF summary
      <4> QED
        BY <4>1
    <3>2. summary = [attempted |-> attempted, created |-> turn.requests # <<>>,
                     status |-> status, successful |-> Successful(turn.results),
                     failed |-> n - Successful(turn.results), records |-> Total(records),
                     materialized |-> turn.packets # <<>>,
                     render_allowed |-> turn.decision.allowed, injected |-> injected,
                     roots |-> roots, reasons |-> told]
      BY DEF Summary
    <3> HIDE DEF summary, attempted, status, n, records, injected, roots, told
    <3> QED
      BY <3>1, <3>2
  <2>4. Cardinality(roots) = n
    BY <2>1, RootsAsMany DEF RequestsInv
  <2>5. /\ Successful(turn.results) \in Nat
        /\ (\A r \in Range(turn.results) : Status(r) = "success") =>
              Successful(turn.results) = n
    BY <2>1, SuccessfulType
  <2> HIDE DEF n, attempted, records, roots, others, last, told, injected, status
  <2>6. ASSUME attempted, injected = 0 PROVE told # {}
    <3>1. CASE injection = <<>> /\ turn.gate.direct
      <4>1. turn.plan[1].capability = ""
        BY <2>1, <3>1 DEF PlanInv, DeclaresWell
      <4> QED
        BY <2>1, <2>6, <4>1 DEF RequestsInv, attempted
    <3>2. CASE Injected(turn)
      <4> DEFINE policy == ContextPolicy(turn.bundle, "injection")
                 j == Inject(turn.rendered, turn.decision, policy)
      <4>1. injection = <<j>>
        BY <3>2 DEF Injected
      <4>2. (\E reason : j = NotInjected(reason)) \/ Len(j.fragment[1].blocks) # 0
        <5> DEFINE budgeted == Budgeted(turn.rendered[1], policy[1])
        <5> HIDE DEF policy
        <5>1. \/ \E reason : j = NotInjected(reason)
              \/ /\ j = [allowed |-> TRUE, reasons |-> {}, fragment |-> budgeted]
                 /\ Injectable(budgeted[1], policy[1])
          <6> HIDE DEF budgeted
          <6> QED
            BY DEF Inject, budgeted
        <5>2. ASSUME Injectable(budgeted[1], policy[1]) PROVE Len(budgeted[1].blocks) # 0
          BY <5>2 DEF Injectable
        <5> HIDE DEF budgeted
        <5> QED
          BY <5>1, <5>2
      <4> HIDE DEF j
      <4>3. injection # <<>> /\ injection[1] = j
        BY <4>1
      <4>4. CASE \E reason : j = NotInjected(reason)
        <5>1. j.reasons # {}
          BY <4>4 DEF NotInjected
        <5> QED
          <6>1. PICK x : x \in j.reasons
            BY <5>1
          <6>2. x \in injection[1].reasons /\ injection # <<>>
            BY <4>3, <6>1
          <6>3. x \in last
            BY <6>2 DEF last
          <6> QED
            BY <6>3 DEF told
      <4>5. CASE Len(j.fragment[1].blocks) # 0 /\ ~\E reason : j = NotInjected(reason)
        <5>1. j.allowed
          BY <4>5 DEF j, Inject
        <5> QED
          BY <2>6, <4>3, <4>5, <5>1 DEF injected
      <4> QED
        BY <4>2, <4>4, <4>5
    <3> QED
      BY <2>1, <3>1, <3>2
  <2>7. ASSUME injected > 0 PROVE status \in {"success", "partial_success"}
    <3>1. injection # <<>> /\ injection[1].allowed
      BY <2>7 DEF injected
    <3>2. turn.decision.allowed
      <4> DEFINE policy == ContextPolicy(turn.bundle, "injection")
                 j == Inject(turn.rendered, turn.decision, policy)
      <4>1. injection = <<j>>
        BY <2>1, <3>1 DEF Injected
      <4>2. \A reason : ~NotInjected(reason).allowed
        BY DEF NotInjected
      <4>3. ~turn.decision.allowed => \E reason : j = NotInjected(reason)
        BY DEF Inject
      <4> HIDE DEF j
      <4>4. j.allowed
        BY <3>1, <4>1
      <4> QED
        BY <4>2, <4>3, <4>4
    <3>3. turn.packets # <<>>
      <4> DEFINE policy == ContextPolicy(turn.bundle, "render")
      <4>1. turn.decision = RenderGate(turn.packets, policy)
        BY <2>1 DEF Attached
      <4> HIDE DEF policy
      <4>2. GateReasons(turn.packets, policy) = {}
        <5> DEFINE reasons == GateReasons(turn.packets, policy)
        <5>1. RenderGate(turn.packets, policy).allowed <=> reasons = {}
          <6> HIDE DEF reasons
          <6>1. \A mode, ids : [allowed |-> reasons = {}, reasons |-> reasons, mode |-> mode,
                                ids |-> ids].allowed <=> reasons = {}
            OBVIOUS
          <6> QED
            BY <6>1 DEF RenderGate, reasons
        <5> QED
          BY <3>2, <4>1, <5>1
      <4> QED
        BY <4>2 DEF GateReasons
    <3>4. PICK i \in 1 .. n : turn.results[i].executed /\ turn.results[i].payloads # <<>>
      <4> DEFINE policy == ContextPolicy(turn.bundle, "materialization")
      <4>1. Materialize(turn.results, policy) # <<>>
        BY <2>1, <3>3 DEF Attached
      <4> HIDE DEF policy
      <4> QED
        BY <2>1, <4>1, PacketsOfSome DEF n
    <3>5. Status(turn.results[i]) = "success"
      <4> DEFINE r == turn.results[i]
      <4>1. /\ r.records = Len(r.payloads) /\ r.payloads = <<r.payloads[1]>> /\ r.reasons = {}
            /\ r.executed
        BY <3>4 DEF ResultsInv, ResultWell, n
      <4> HIDE DEF r
      <4>2. r.records = 1
        <5>1. PICK p : r.payloads = <<p>>
          BY <4>1
        <5> QED
          BY <4>1, <5>1
      <4>3. Status(r) = "success"
        BY <4>1, <4>2, StatusSuccess
      <4> QED
        BY <4>3 DEF r
    <3>6. turn.results[i] \in Range(turn.results) /\ turn.results # <<>>
      <4>1. n > 0
        BY <2>2, <3>4
      <4>2. turn.results # <<>>
        BY <4>1, EmptyIsSeq DEF n
      <4> QED
        BY <2>2, <3>4, <4>2 DEF Range
    <3>7. turn.requests # <<>>
      <4>1. n # 0
        BY <2>2, <3>4
      <4> QED
        BY <2>1, <4>1, EmptyIsSeq
    <3> QED
      BY <3>5, <3>6, <3>7, ExecutionSuccess DEF attempted, status
  <2>8. Successful(turn.results) + (n - Successful(turn.results)) = n
    BY <2>2, <2>5
  <2>9. ASSUME status = "success"
        PROVE  n - Successful(turn.results) = 0 /\ Total(records) = n
    <3>1. \A r \in Range(turn.results) : Status(r) = "success"
      BY <2>9, ExecutionSuccess DEF status
    <3>2. ASSUME NEW i \in 1 .. n PROVE records[i] = 1
      <4>1. turn.results[i] \in Range(turn.results) /\ i \in DOMAIN turn.results
        BY <2>2 DEF Range
      <4>2. turn.results[i].records = 1
        BY <3>1, <4>1, StatusSuccess
      <4> QED
        BY <4>1, <4>2 DEF records
    <3>3. records \in Seq(Nat) /\ Len(records) = n
      <4>1. DOMAIN records = 1 .. n
        BY <2>2 DEF records
      <4>2. records = [i \in 1 .. n |-> records[i]]
        BY <2>2 DEF records
      <4>3. records \in [1 .. n -> Nat]
        BY <3>2, <4>2
      <4> QED
        BY <2>2, <4>3, FunctionSeq
    <3>4. Total(records) = n
      BY <3>2, <3>3, TotalOfOnes
    <3>5. n - Successful(turn.results) = 0
      BY <2>2, <2>5, <3>1
    <3> QED
      BY <3>4, <3>5
  <2> QED
    BY <2>3, <2>4, <2>6, <2>7, <2>8, <2>9
<1> QED
  BY <1>1, StepsInvariant, PlanInvariant, RequestsInvariant, ResultsInvariant,
     AttachedInvariant, PTL

--------------------------------------------------------------------------------
(* The budget. *)

BlockSet(I, R, F) == [id : I, root : R, facts : Seq(F)]

\* The block with other facts.
LEMMA OtherFacts ==
    ASSUME NEW I, NEW R, NEW F, NEW block \in BlockSet(I, R, F), NEW facts \in Seq(F),
           NEW next, next = [block EXCEPT !.facts = facts]
    PROVE  /\ next \in BlockSet(I, R, F) /\ next.facts = facts
           /\ next.id = block.id /\ next.root = block.root
BY DEF BlockSet

\* A sequence without its last element.
LEMMA FrontOf ==
    ASSUME NEW T, NEW s \in Seq(T), Len(s) > 1
    PROVE  /\ Front(s) \in Seq(T) /\ Len(Front(s)) = Len(s) - 1
           /\ \A i \in 1 .. Len(s) - 1 : Front(s)[i] = s[i]
<1> DEFINE m == Len(s) - 1
<1>1. m \in Nat /\ m <= Len(s) /\ m >= 1
  OBVIOUS
<1>2. \A i \in 1 .. m : s[i] \in T
  OBVIOUS
<1>3. Front(s) = SubSeq(s, 1, m)
  BY DEF Front
<1> HIDE DEF m
<1>4. /\ SubSeq(s, 1, m) \in Seq(T)
      /\ Len(SubSeq(s, 1, m)) = IF 1 <= m THEN m - 1 + 1 ELSE 0
      /\ \A i \in 1 .. m - 1 + 1 : SubSeq(s, 1, m)[i] = s[1 + i - 1]
  BY <1>1, <1>2, SubSeqProperties
<1>5. Len(SubSeq(s, 1, m)) = m
  BY <1>1, <1>4
<1>6. ASSUME NEW i \in 1 .. m PROVE SubSeq(s, 1, m)[i] = s[i]
  BY <1>1, <1>4, i \in 1 .. m - 1 + 1, 1 + i - 1 = i
<1> QED
  BY <1>3, <1>4, <1>5, <1>6 DEF m

\* A shorter sequence that agrees with a longer one is a prefix of it.
LEMMA PrefixOf ==
    ASSUME NEW T, NEW s \in Seq(T), NEW t \in Seq(T), Len(s) <= Len(t),
           \A i \in 1 .. Len(s) : s[i] = t[i]
    PROVE  IsPrefix(s, t)
<1> DEFINE n == Len(s)
<1>1. n \in Nat /\ n <= Len(t)
  OBVIOUS
<1>2. SubSeq(s, 1, n) = s
  OBVIOUS
<1>3. SubSeq(t, 1, n) = s
  <2>1. \A i \in 1 .. n : t[i] \in T
    BY <1>1
  <2> HIDE DEF n
  <2>2. /\ SubSeq(t, 1, n) \in Seq(T)
        /\ Len(SubSeq(t, 1, n)) = IF 1 <= n THEN n - 1 + 1 ELSE 0
        /\ \A i \in 1 .. n - 1 + 1 : SubSeq(t, 1, n)[i] = t[1 + i - 1]
    BY <1>1, <2>1, SubSeqProperties
  <2>3. Len(SubSeq(t, 1, n)) = n
    BY <1>1, <2>2
  <2>4. ASSUME NEW i \in 1 .. n PROVE SubSeq(t, 1, n)[i] = s[i]
    BY <1>1, <2>2, i \in 1 .. n - 1 + 1, 1 + i - 1 = i DEF n
  <2> DEFINE u == SubSeq(t, 1, n)
  <2>5. u \in Seq(T) /\ Len(u) = Len(s) /\ \A i \in 1 .. Len(s) : u[i] = s[i]
    BY <2>2, <2>3, <2>4 DEF n
  <2> HIDE DEF u
  <2>6. u = s
    BY <2>5
  <2> QED
    BY <2>6 DEF u
<1> QED
  BY <1>1, <1>2, <1>3 DEF IsPrefix

\* to is from without its tail: it begins as from does, block by block and fact
\* by fact; a block is shortened only when those after it have one fact, and a
\* block is dropped only when all have.
TailDropped(from, to) ==
    /\ Len(to) \in 1 .. Len(from)
    /\ \A i \in 1 .. Len(to) :
          /\ to[i].id = from[i].id /\ to[i].root = from[i].root
          /\ Len(to[i].facts) \in 1 .. Len(from[i].facts)
          /\ \A k \in 1 .. Len(to[i].facts) : to[i].facts[k] = from[i].facts[k]
          /\ Len(to[i].facts) < Len(from[i].facts) =>
                \A j \in i + 1 .. Len(to) : Len(to[j].facts) = 1
    /\ Len(to) < Len(from) => \A i \in 1 .. Len(to) : Len(to[i].facts) = 1

\* A number that is not zero is one, or more.
LEMMA OneOrMore ==
    ASSUME NEW n \in Nat, n >= 1
    PROVE  (n > 1) \/ (n = 1)
OBVIOUS

\* Nothing has been dropped, to begin with.
LEMMA NothingDropped ==
    ASSUME NEW I, NEW R, NEW F, NEW from \in Seq(BlockSet(I, R, F)), from # <<>>,
           \A i \in 1 .. Len(from) : from[i].facts # <<>>
    PROVE  TailDropped(from, from)
<1>1. Len(from) \in Nat \ {0}
  BY EmptySeq
<1>2. ASSUME NEW i \in 1 .. Len(from) PROVE Len(from[i].facts) \in Nat \ {0}
  <2>1. from[i] \in BlockSet(I, R, F)
    OBVIOUS
  <2>2. from[i].facts \in Seq(F) /\ from[i].facts # <<>>
    BY <2>1 DEF BlockSet
  <2> QED
    BY <2>2, EmptySeq
<1>3. ASSUME NEW i \in 1 .. Len(from)
      PROVE  /\ Len(from[i].facts) \in 1 .. Len(from[i].facts)
             /\ ~(Len(from[i].facts) < Len(from[i].facts))
  BY <1>2
<1> QED
  BY <1>1, <1>3 DEF TailDropped

\* Dropping more of the tail leaves it so.
LEMMA DropTailStep ==
    ASSUME NEW I, NEW R, NEW F, NEW from \in Seq(BlockSet(I, R, F)),
           NEW to \in Seq(BlockSet(I, R, F)), TailDropped(from, to)
    PROVE  DropTail(to) \in Seq(BlockSet(I, R, F)) /\ TailDropped(from, DropTail(to))
<1> DEFINE B == BlockSet(I, R, F)
           n == Len(to)
           long == {i \in DOMAIN to : Len(to[i].facts) > 1}
           next == DropTail(to)
<1>1. n \in Nat /\ n >= 1 /\ DOMAIN to = 1 .. n /\ n <= Len(from) /\ Len(from) \in Nat
  BY DEF TailDropped
<1>2. ASSUME NEW i \in 1 .. n
      PROVE  /\ to[i] \in B /\ to[i].facts \in Seq(F) /\ Len(to[i].facts) \in Nat
             /\ Len(to[i].facts) >= 1 /\ Len(from[i].facts) \in Nat
             /\ (Len(to[i].facts) > 1) \/ (Len(to[i].facts) = 1)
  <2>1. to[i] \in B /\ from[i] \in B
    BY <1>1
  <2>2. to[i].facts \in Seq(F) /\ from[i].facts \in Seq(F)
    BY <2>1 DEF BlockSet
  <2>3. Len(to[i].facts) \in Nat /\ Len(to[i].facts) >= 1 /\ Len(from[i].facts) \in Nat
    BY <2>2 DEF TailDropped
  <2> QED
    BY <2>1, <2>2, <2>3, OneOrMore
<1>3. next = IF long # {} THEN [to EXCEPT ![Max(long)].facts = Front(@)]
             ELSE IF n > 1 THEN Front(to) ELSE to
  BY DEF DropTail
<1>4. CASE long # {}
  <2> DEFINE m == Max(long)
             cut == Front(to[m].facts)
  <2>1. m \in 1 .. n /\ Len(to[m].facts) > 1 /\ \A j \in 1 .. n : Len(to[j].facts) > 1 => j <= m
    <3>1. long \in SUBSET (0 .. n)
      BY <1>1
    <3>2. \E x \in long : \A y \in long : x >= y
      <4> HIDE DEF long
      <4> QED
        BY <1>1, <1>4, <3>1, GreatestNumber
    <3>3. m \in long /\ \A y \in long : m >= y
      <4> HIDE DEF long
      <4> QED
        BY <3>2 DEF Max
    <3>4. m \in 1 .. n /\ Len(to[m].facts) > 1
      BY <1>1, <3>3
    <3>5. ASSUME NEW j \in 1 .. n, Len(to[j].facts) > 1 PROVE j <= m
      <4>1. j \in long
        BY <1>1, <3>5
      <4>2. m >= j /\ m \in Int /\ j \in Int
        BY <1>1, <3>3, <3>4, <4>1
      <4> HIDE DEF long, m
      <4> QED
        BY <4>2
    <3> HIDE DEF long, m
    <3> QED
      BY <3>4, <3>5
  <2> HIDE DEF m, long
  <2>2. /\ cut \in Seq(F) /\ Len(cut) = Len(to[m].facts) - 1
        /\ \A k \in 1 .. Len(to[m].facts) - 1 : cut[k] = to[m].facts[k]
    BY <1>2, <2>1, FrontOf
  <2>3. next = [to EXCEPT ![m] = [to[m] EXCEPT !.facts = cut]]
    BY <1>3, <1>4 DEF m, long
  <2> HIDE DEF cut, next
  <2> DEFINE shorter == [to[m] EXCEPT !.facts = cut]
  <2>4. /\ shorter \in B /\ shorter.facts = cut
        /\ shorter.id = to[m].id /\ shorter.root = to[m].root
    <3>1. to[m] \in BlockSet(I, R, F)
      BY <1>2, <2>1
    <3> QED
      BY <2>2, <3>1, OtherFacts
  <2> HIDE DEF shorter
  <2>5. next = [to EXCEPT ![m] = shorter]
    BY <2>3 DEF shorter
  <2> HIDE DEF B
  <2>6. /\ next \in Seq(B) /\ Len(next) = n
        /\ next[m] = shorter /\ \A i \in 1 .. n : i # m => next[i] = to[i]
    <3>1. to \in Seq(B)
      BY DEF B
    <3> QED
      BY <1>1, <2>1, <2>4, <2>5, <3>1
  <2>7. ASSUME n < Len(from) PROVE FALSE
    <3>1. Len(to[m].facts) = 1
      BY <2>1, <2>7 DEF TailDropped
    <3> QED
      BY <2>1, <3>1
  <2>8. ASSUME NEW i \in 1 .. n
        PROVE  /\ next[i].id = from[i].id /\ next[i].root = from[i].root
               /\ Len(next[i].facts) \in 1 .. Len(from[i].facts)
               /\ \A k \in 1 .. Len(next[i].facts) : next[i].facts[k] = from[i].facts[k]
               /\ Len(next[i].facts) < Len(from[i].facts) =>
                     \A j \in i + 1 .. n : Len(next[j].facts) = 1
    <3>1. \A j \in 1 .. n : j > m => Len(next[j].facts) = 1
      <4> SUFFICES ASSUME NEW j \in 1 .. n, j > m PROVE Len(next[j].facts) = 1
        OBVIOUS
      <4>1. ~(Len(to[j].facts) > 1)
        <5>1. ~(j <= m)
          BY <1>1, <2>1
        <5> QED
          BY <2>1, <5>1
      <4>2. Len(to[j].facts) = 1
        BY <1>2, <4>1
      <4>3. j # m
        BY <1>1, <2>1
      <4> QED
        BY <2>6, <4>2, <4>3
    <3>2. /\ to[i].id = from[i].id /\ to[i].root = from[i].root
          /\ Len(to[i].facts) \in 1 .. Len(from[i].facts)
          /\ \A k \in 1 .. Len(to[i].facts) : to[i].facts[k] = from[i].facts[k]
          /\ Len(to[i].facts) < Len(from[i].facts) =>
                \A j \in i + 1 .. n : Len(to[j].facts) = 1
      BY DEF TailDropped
    <3>3. CASE i = m
      <4>1. next[i].facts = cut /\ next[i].id = to[i].id /\ next[i].root = to[i].root
        <5>1. next[i] = shorter /\ to[i] = to[m]
          BY <2>6, <3>3
        <5> QED
          BY <2>4, <5>1
      <4>2. Len(cut) \in 1 .. Len(from[i].facts)
        <5> DEFINE old == Len(to[m].facts)
                   most == Len(from[i].facts)
        <5>1. old \in Nat /\ old > 1 /\ most \in Nat /\ Len(cut) = old - 1
          BY <1>2, <2>1, <2>2
        <5>2. old \in 1 .. most
          BY <3>2, <3>3
        <5> HIDE DEF old, most
        <5>3. Len(cut) \in 1 .. most
          BY <5>1, <5>2
        <5> QED
          BY <5>3 DEF most
      <4>3. ASSUME NEW k \in 1 .. Len(cut) PROVE cut[k] = from[i].facts[k]
        <5>1. k \in 1 .. Len(to[m].facts) - 1 /\ k \in 1 .. Len(to[m].facts)
          BY <1>2, <2>1, <2>2
        <5> QED
          BY <2>2, <3>2, <3>3, <5>1
      <4>4. \A j \in i + 1 .. n : j \in 1 .. n /\ j > m
        BY <1>1, <3>3
      <4> QED
        BY <3>1, <3>2, <4>1, <4>2, <4>3, <4>4
    <3>4. CASE i # m
      <4>1. next[i] = to[i]
        BY <2>6, <3>4
      <4>2. ASSUME Len(to[i].facts) < Len(from[i].facts), NEW j \in i + 1 .. n
            PROVE  Len(next[j].facts) = 1
        <5>1. \A l \in i + 1 .. n : Len(to[l].facts) = 1
          BY <3>2, <4>2
        <5>2. m \notin i + 1 .. n
          <6>1. ASSUME Len(to[m].facts) = 1 PROVE FALSE
            <7>1. 1 > 1
              BY <2>1, <6>1
            <7> QED
              BY <7>1
          <6> QED
            BY <5>1, <6>1
        <5>3. j \in 1 .. n /\ j > m
          BY <1>1, <2>1, <3>4, <5>2
        <5> QED
          BY <3>1, <5>3
      <4> QED
        BY <3>2, <4>1, <4>2
    <3> QED
      BY <3>3, <3>4
  <2>9. Len(next) \in 1 .. Len(from)
    BY <1>1, <2>6
  <2>10. TailDropped(from, next)
    BY <2>6, <2>7, <2>8, <2>9 DEF TailDropped
  <2> QED
    BY <2>6, <2>10 DEF B, next
<1>5. CASE long = {}
  <2>1. \A i \in 1 .. n : Len(to[i].facts) = 1
    <3> SUFFICES ASSUME NEW i \in 1 .. n PROVE Len(to[i].facts) = 1
      OBVIOUS
    <3>1. ~(Len(to[i].facts) > 1)
      BY <1>1, <1>5
    <3> QED
      BY <1>2, <3>1
  <2>2. CASE n > 1
    <3>1. next = Front(to)
      BY <1>3, <1>5, <2>2
    <3> HIDE DEF next, long, B
    <3>2. /\ next \in Seq(B) /\ Len(next) = n - 1
          /\ \A i \in 1 .. n - 1 : next[i] = to[i]
      BY <2>2, <3>1, FrontOf DEF B
    <3>3. Len(next) \in 1 .. Len(from)
      BY <1>1, <2>2, <3>2
    <3>4. \A i \in 1 .. n - 1 : i \in 1 .. n
      BY <1>1
    <3>5. \A i \in 1 .. n - 1 : Len(next[i].facts) = 1
      BY <2>1, <3>2, <3>4
    <3>6. ASSUME NEW i \in 1 .. n - 1
          PROVE  /\ next[i].id = from[i].id /\ next[i].root = from[i].root
                 /\ Len(next[i].facts) \in 1 .. Len(from[i].facts)
                 /\ \A k \in 1 .. Len(next[i].facts) : next[i].facts[k] = from[i].facts[k]
                 /\ \A j \in i + 1 .. n - 1 : Len(next[j].facts) = 1
      <4>1. next[i] = to[i] /\ i \in 1 .. n
        BY <3>2, <3>4
      <4>2. \A j \in i + 1 .. n - 1 : j \in 1 .. n - 1
        BY <1>1
      <4> QED
        BY <3>5, <4>1, <4>2 DEF TailDropped
    <3>7. TailDropped(from, next)
      BY <3>2, <3>3, <3>5, <3>6 DEF TailDropped
    <3> QED
      BY <3>2, <3>7 DEF B, next
  <2>3. CASE ~(n > 1)
    <3>1. next = to
      BY <1>3, <1>5, <2>3
    <3> QED
      BY <3>1
  <2> QED
    BY <2>2, <2>3
<1> QED
  BY <1>4, <1>5

\* What the counts leave begins as the blocks do.
Counted(c, blocks, policy) ==
    /\ Len(c) \in 1 .. Len(blocks) /\ Len(c) <= policy.max_blocks
    /\ \A i \in 1 .. Len(c) :
          /\ c[i].id = blocks[i].id /\ c[i].root = blocks[i].root
          /\ Len(c[i].facts) \in 1 .. Len(blocks[i].facts)
          /\ Len(c[i].facts) <= policy.max_facts_per_block
          /\ \A k \in 1 .. Len(c[i].facts) : c[i].facts[k] = blocks[i].facts[k]

\* The counts leave as many blocks and facts as the policy allows, the first ones.
LEMMA CountsWithin ==
    ASSUME NEW I, NEW R, NEW F, NEW blocks \in Seq(BlockSet(I, R, F)), blocks # <<>>,
           \A i \in 1 .. Len(blocks) : blocks[i].facts # <<>>,
           NEW policy, policy.max_blocks \in Nat \ {0},
           policy.max_facts_per_block \in Nat \ {0}
    PROVE  /\ WithinCounts(blocks, policy) \in Seq(BlockSet(I, R, F))
           /\ Counted(WithinCounts(blocks, policy), blocks, policy)
<1> DEFINE B == BlockSet(I, R, F)
           kept == FirstOf(blocks, policy.max_blocks)
           most == policy.max_facts_per_block
           cut(i) == FirstOf(kept[i].facts, most)
           c == [i \in DOMAIN kept |-> [kept[i] EXCEPT !.facts = cut(i)]]
           n == Len(kept)
<1>1. Len(blocks) \in Nat \ {0}
  BY EmptySeq
<1> HIDE DEF B
<1>2. /\ kept \in Seq(B) /\ n = IF Len(blocks) < policy.max_blocks THEN Len(blocks)
                                ELSE policy.max_blocks
      /\ \A i \in 1 .. n : kept[i] = blocks[i]
  BY FirstOfType DEF B
<1>3. WithinCounts(blocks, policy) = c
  BY DEF WithinCounts
<1> HIDE DEF kept
<1>4. n \in 1 .. Len(blocks) /\ n <= policy.max_blocks /\ n \in Nat /\ DOMAIN kept = 1 .. n
  BY <1>1, <1>2
<1>5. ASSUME NEW i \in 1 .. n
      PROVE  /\ kept[i] \in B /\ kept[i] = blocks[i] /\ blocks[i].facts \in Seq(F)
             /\ Len(blocks[i].facts) \in Nat \ {0}
  <2>1. kept[i] \in B /\ kept[i] = blocks[i] /\ i \in 1 .. Len(blocks)
    BY <1>1, <1>2, <1>4
  <2>2. blocks[i].facts \in Seq(F) /\ blocks[i].facts # <<>>
    BY <2>1 DEF B, BlockSet
  <2> QED
    BY <2>1, <2>2, EmptySeq
<1>6. ASSUME NEW i \in 1 .. n
      PROVE  /\ cut(i) \in Seq(F)
             /\ Len(cut(i)) \in 1 .. Len(blocks[i].facts) /\ Len(cut(i)) <= most
             /\ \A k \in 1 .. Len(cut(i)) : cut(i)[k] = blocks[i].facts[k]
  <2> DEFINE facts == blocks[i].facts
  <2>1. facts \in Seq(F) /\ Len(facts) \in Nat \ {0} /\ most \in Nat \ {0}
    BY <1>5
  <2>2. cut(i) = FirstOf(facts, most)
    BY <1>5
  <2> HIDE DEF facts, cut, most
  <2>3. /\ cut(i) \in Seq(F)
        /\ Len(cut(i)) = IF Len(facts) < most THEN Len(facts) ELSE most
        /\ \A k \in 1 .. Len(cut(i)) : cut(i)[k] = facts[k]
    BY <2>1, <2>2, FirstOfType
  <2>4. Len(cut(i)) \in 1 .. Len(facts) /\ Len(cut(i)) <= most
    BY <2>1, <2>3
  <2> QED
    BY <2>3, <2>4 DEF facts
<1>7. ASSUME NEW i \in 1 .. n
      PROVE  /\ c[i] \in B /\ c[i].facts = cut(i)
             /\ c[i].id = blocks[i].id /\ c[i].root = blocks[i].root
  <2>1. c[i] = [kept[i] EXCEPT !.facts = cut(i)]
    BY <1>4
  <2> HIDE DEF c, cut
  <2>2. kept[i] \in BlockSet(I, R, F) /\ cut(i) \in Seq(F)
    BY <1>5, <1>6 DEF B
  <2> QED
    BY <1>5, <2>1, <2>2, OtherFacts DEF B
<1>8. c \in Seq(B) /\ Len(c) = n
  <2>1. DOMAIN c = 1 .. n
    BY <1>4
  <2>2. c = [i \in 1 .. n |-> c[i]]
    BY <1>4
  <2> HIDE DEF c
  <2>3. c \in [1 .. n -> B]
    BY <1>7, <2>2
  <2> QED
    BY <1>4, <2>3, FunctionSeq
<1> HIDE DEF c, cut
<1>9. Counted(c, blocks, policy)
  <2>1. ASSUME NEW i \in 1 .. Len(c)
        PROVE  /\ c[i].id = blocks[i].id /\ c[i].root = blocks[i].root
               /\ Len(c[i].facts) \in 1 .. Len(blocks[i].facts)
               /\ Len(c[i].facts) <= policy.max_facts_per_block
               /\ \A k \in 1 .. Len(c[i].facts) : c[i].facts[k] = blocks[i].facts[k]
    <3>1. i \in 1 .. n
      BY <1>8
    <3>2. c[i].facts = cut(i) /\ c[i].id = blocks[i].id /\ c[i].root = blocks[i].root
      BY <1>7, <3>1
    <3>3. /\ Len(cut(i)) \in 1 .. Len(blocks[i].facts) /\ Len(cut(i)) <= most
          /\ \A k \in 1 .. Len(cut(i)) : cut(i)[k] = blocks[i].facts[k]
      BY <1>6, <3>1
    <3> QED
      BY <3>2, <3>3
  <2>2. Len(c) \in 1 .. Len(blocks) /\ Len(c) <= policy.max_blocks
    BY <1>4, <1>8
  <2> QED
    BY <2>1, <2>2 DEF Counted
<1> QED
  BY <1>3, <1>8, <1>9 DEF B

\* What the budget leaves of blocks: all of them if they fit.
LEMMA LengthWithin ==
    ASSUME NEW I, NEW R, NEW F, NEW from \in Seq(BlockSet(I, R, F)), from # <<>>,
           \A i \in 1 .. Len(from) : from[i].facts # <<>>, NEW policy
    PROVE  /\ WithinLength(from, policy) \in Seq(BlockSet(I, R, F))
           /\ TailDropped(from, WithinLength(from, policy))
           /\ LengthOf(from) <= policy.max_total_characters =>
                 WithinLength(from, policy) = from
<1> DEFINE B == BlockSet(I, R, F)
           N == FactsIn(from) + Len(from)
           Fits(b) == LengthOf(b) <= policy.max_total_characters
           S == {b \in Seq(B) : TailDropped(from, b) /\ (Fits(from) => b = from)}
           Shorter(b) == IF Fits(b) THEN b ELSE DropTail(b)
           step == [p \in Nat \X S |-> Shorter(p[2])]
           Keeps_(f) == f = [n \in 0 .. N |-> IF n = 0 THEN from ELSE Shorter(f[n - 1])]
<1>1. N \in Nat
  <2> DEFINE counts == [i \in DOMAIN from |-> Len(from[i].facts)]
  <2>1. Len(from) \in Nat /\ DOMAIN from = 1 .. Len(from)
    OBVIOUS
  <2>2. ASSUME NEW i \in 1 .. Len(from) PROVE Len(from[i].facts) \in Nat
    <3>1. from[i] \in BlockSet(I, R, F)
      OBVIOUS
    <3>2. from[i].facts \in Seq(F)
      BY <3>1 DEF BlockSet
    <3> QED
      BY <3>2
  <2>3. counts \in [1 .. Len(from) -> Nat]
    BY <2>1, <2>2
  <2>4. FactsIn(from) = Total(counts)
    BY DEF FactsIn
  <2> HIDE DEF counts
  <2>5. Total(counts) \in Nat
    BY <2>1, <2>3, FunctionSeq, TotalType
  <2> QED
    BY <2>1, <2>4, <2>5
<1>2. from \in S
  <2>1. TailDropped(from, from)
    BY NothingDropped
  <2> QED
    BY <2>1
<1>3. ASSUME NEW b \in S PROVE Shorter(b) \in S
  <2>1. CASE Fits(b)
    BY <2>1
  <2>2. CASE ~Fits(b)
    <3>1. ~Fits(from)
      BY <2>2
    <3>2. b \in Seq(BlockSet(I, R, F)) /\ TailDropped(from, b)
      OBVIOUS
    <3>3. DropTail(b) \in Seq(BlockSet(I, R, F)) /\ TailDropped(from, DropTail(b))
      BY <3>2, DropTailStep
    <3>4. Shorter(b) = DropTail(b)
      BY <2>2
    <3> QED
      BY <3>1, <3>3, <3>4
  <2> QED
    BY <2>1, <2>2
<1> HIDE DEF S, N
<1>4. step \in [Nat \X S -> S]
  <2> HIDE DEF Shorter
  <2> QED
    BY <1>3
<1>5. \A n \in Nat, b \in S : step[<<n, b>>] = Shorter(b)
  <2> HIDE DEF Shorter
  <2> QED
    OBVIOUS
<1> HIDE DEF step
<1>6. PICK s : Unrolls(s, N, S, from, step)
  BY <1>1, <1>2, <1>4, Recursion
<1>7. ASSUME NEW n \in 1 .. N PROVE s[n] = Shorter(s[n - 1])
  <2>1. n \in Nat /\ n - 1 \in 0 .. N
    BY <1>1
  <2>2. s[n - 1] \in S /\ s[n] = step[<<n, s[n - 1]>>]
    BY <1>6, <2>1 DEF Unrolls
  <2> HIDE DEF Shorter
  <2> QED
    BY <1>5, <2>1, <2>2
<1>8. Keeps_(s)
  <2> HIDE DEF Shorter
  <2> SUFFICES s = [n \in 0 .. N |-> IF n = 0 THEN from ELSE Shorter(s[n - 1])]
    OBVIOUS
  <2> QED
    BY <1>1, <1>6, <1>7 DEF Unrolls
<1> DEFINE chosen == CHOOSE f : Keeps_(f)
<1>9. Keeps_(chosen)
  <2> HIDE DEF Keeps_
  <2> QED
    BY <1>8
<1>10. WithinLength(from, policy) = chosen[N]
  BY DEF WithinLength, N
<1> HIDE DEF Shorter
<1>11. chosen = s
  <2> DEFINE Same == {n \in 0 .. N : chosen[n] = s[n]}
  <2> HIDE DEF chosen
  <2>1. chosen = [n \in 0 .. N |-> IF n = 0 THEN from ELSE Shorter(chosen[n - 1])]
    BY <1>9
  <2>2. 0 \in Same
    BY <1>1, <1>6, <2>1 DEF Unrolls
  <2>3. ASSUME NEW n \in 0 .. N - 1, n \in Same PROVE n + 1 \in Same
    <3>1. n + 1 \in 1 .. N /\ (n + 1) - 1 = n /\ n + 1 \in 0 .. N /\ n + 1 # 0
      BY <1>1
    <3>2. chosen[n + 1] = Shorter(chosen[n])
      BY <2>1, <3>1
    <3>3. s[n + 1] = Shorter(s[n])
      BY <1>7, <3>1
    <3> QED
      BY <2>3, <3>1, <3>2, <3>3
  <2>4. \A n \in 0 .. N : n \in Same
    <3> HIDE DEF Same
    <3> QED
      BY <1>1, <2>2, <2>3, NumbersUpTo
  <2> QED
    BY <1>6, <2>1, <2>4 DEF Unrolls
<1> HIDE DEF chosen
<1>12. s[N] \in S
  BY <1>1, <1>6 DEF Unrolls
<1> QED
  BY <1>10, <1>11, <1>12 DEF S

--------------------------------------------------------------------------------
(* What is injected. *)

\* The packets of what was found, of which there is one for a result.
PacketSet(results, policy) ==
    {Packet(results[i], results[i].payloads[1], policy) :
        i \in {j \in 1 .. Len(results) : results[j].executed}}

\* Every packet is one that a result makes under the policy.
LEMMA PacketsType ==
    ASSUME NEW results, IsSeq(results),
           \A i \in 1 .. Len(results) :
               \/ results[i].payloads = <<>>
               \/ results[i].payloads = <<results[i].payloads[1]>>,
           NEW policy
    PROVE  Materialize(results, <<policy>>) \in Seq(PacketSet(results, policy))
<1> DEFINE P == PacketSet(results, policy)
           seqs == [i \in DOMAIN results |-> PacketsOf(results[i], policy)]
<1>1. Len(results) \in Nat /\ DOMAIN results = 1 .. Len(results)
  BY LenProperties DEF IsSeq
<1>2. ASSUME NEW i \in 1 .. Len(results) PROVE PacketsOf(results[i], policy) \in Seq(P)
  <2> DEFINE r == results[i]
             packets == [k \in DOMAIN r.payloads |-> Packet(r, r.payloads[k], policy)]
  <2>0. \A S : <<>> \in Seq(S)
    OBVIOUS
  <2>1. CASE PacketsOf(r, policy) = <<>>
    BY <2>0, <2>1
  <2>2. CASE PacketsOf(r, policy) # <<>>
    <3>1. PacketsOf(r, policy) = packets /\ r.executed
      BY <2>2 DEF PacketsOf
    <3>2. r.payloads # <<>>
      <4>1. Len(<<>>) = 0 /\ ~(0 >= 1)
        BY EmptyIsSeq
      <4> QED
        BY <2>2, <4>1 DEF PacketsOf
    <3>3. r.payloads = <<r.payloads[1]>>
      BY <3>2
    <3>4. DOMAIN r.payloads = 1 .. 1
      <4>1. PICK x : r.payloads = <<x>>
        BY <3>3
      <4> QED
        BY <4>1
    <3>5. Packet(r, r.payloads[1], policy) \in P
      BY <3>1 DEF PacketSet
    <3> HIDE DEF P
    <3>6. packets \in [1 .. 1 -> P]
      BY <3>4, <3>5
    <3> HIDE DEF packets
    <3>7. packets \in Seq(P)
      BY <3>6, FunctionSeq, 1 \in Nat
    <3> QED
      BY <3>1, <3>7
  <2> QED
    BY <2>1, <2>2
<1> HIDE DEF P
<1>3. seqs \in Seq(Seq(P))
  <2>1. seqs \in [1 .. Len(results) -> Seq(P)]
    BY <1>1, <1>2
  <2> HIDE DEF seqs
  <2> QED
    BY <1>1, <2>1, FunctionSeq
<1>4. Materialize(results, <<policy>>) = FlattenSeq(seqs)
  <2>1. <<policy>> # <<>> /\ <<policy>>[1] = policy
    OBVIOUS
  <2> QED
    BY <2>1 DEF Materialize
<1> HIDE DEF seqs
<1> QED
  BY <1>3, <1>4, FlattenType DEF P

\* A packet is of its result, and has only allowed fields.
LEMMA PacketFields ==
    ASSUME NEW result, NEW payload, NEW policy, policy.allowed_fields \in Seq(STRING),
           policy.max_fields \in Nat, NEW p, p = Packet(result, payload, policy)
    PROVE  /\ p.id = result.request.id /\ p.root = result.request.root
           /\ DOMAIN p.fields \subseteq Range(policy.allowed_fields)
<1> DEFINE wanted == Wanted(policy.allowed_fields, DOMAIN payload)
           fields == AllowlistedFields(payload, policy)
           A == Range(policy.allowed_fields) \intersect DOMAIN payload
<1>1. wanted \in Seq(A)
  BY WantedType
<1>2. fields = FirstOf(wanted, policy.max_fields)
  BY DEF AllowlistedFields
<1> HIDE DEF wanted, fields
<1>3. fields \in Seq(A)
  BY <1>1, <1>2, FirstOfType
<1>4. Range(fields) \subseteq Range(policy.allowed_fields)
  <2>1. Range(fields) \subseteq A
    <3> HIDE DEF A
    <3> QED
      BY <1>3, RangeOfSeq
  <2> QED
    BY <2>1
<1>5. DOMAIN p.fields = Range(fields)
  BY DEF Packet, Restrict, fields
<1>6. p.id = result.request.id /\ p.root = result.request.root
  BY DEF Packet
<1> QED
  BY <1>4, <1>5, <1>6

\* A block that is rendered is of one of the packets, and shows some of its
\* fields.
ShowsPacket(block, P) ==
    /\ block.facts # <<>>
    /\ \E p \in P : /\ block.id = p.id /\ block.root = p.root
                    /\ \A k \in 1 .. Len(block.facts) : block.facts[k].field \in DOMAIN p.fields

Ids(P) == {p.id : p \in P}
Roots(P) == {p.root : p \in P}
FactSet(P, policy) == UNION {Range(Facts(p, policy)) : p \in P}

ShowsPackets(rendered, P, policy) ==
    /\ DOMAIN rendered[1] = {"mode", "blocks"}
    /\ rendered[1].blocks \in Seq(BlockSet(Ids(P), Roots(P), FactSet(P, policy)))
    /\ rendered[1].blocks # <<>>
    /\ \A i \in 1 .. Len(rendered[1].blocks) : ShowsPacket(rendered[1].blocks[i], P)

\* The facts of a packet are fields it has.
LEMMA FactsType ==
    ASSUME NEW p, NEW policy, policy.field_order \in Seq(STRING)
    PROVE  /\ IsSeq(Facts(p, policy))
           /\ \A k \in 1 .. Len(Facts(p, policy)) : Facts(p, policy)[k].field \in DOMAIN p.fields
<1> DEFINE D == DOMAIN p.fields
           shown == Wanted(policy.field_order, D)
           facts == [i \in DOMAIN shown |-> [field |-> shown[i], length |-> p.fields[shown[i]]]]
           n == Len(shown)
<1>1. shown \in Seq(Range(policy.field_order) \intersect D)
  BY WantedType
<1>2. Facts(p, policy) = facts
  BY DEF Facts
<1> HIDE DEF shown
<1>3. n \in Nat /\ DOMAIN shown = 1 .. n /\ \A i \in 1 .. n : shown[i] \in D
  BY <1>1
<1>4. facts \in [1 .. n -> Range(facts)]
  BY <1>3 DEF Range
<1>5. \A i \in 1 .. n : facts[i].field = shown[i]
  BY <1>3
<1> HIDE DEF facts, D, n
<1>6. IsSeq(facts) /\ Len(facts) = n
  BY <1>3, <1>4, FunctionSeq DEF IsSeq
<1>7. \A k \in 1 .. n : facts[k].field \in D
  BY <1>3, <1>5
<1> QED
  BY <1>2, <1>6, <1>7 DEF D

\* What is rendered shows packets, and each of its blocks has facts.
LEMMA RenderedShows ==
    ASSUME NEW P, NEW packets \in Seq(P), NEW decision, NEW policy,
           policy.field_order \in Seq(STRING),
           Render(packets, decision, <<policy>>) # <<>>
    PROVE  ShowsPackets(Render(packets, decision, <<policy>>), P, policy)
<1> DEFINE some == {p \in Range(packets) : p.id \in decision.ids /\ Facts(p, policy) # <<>>}
           chosen == Wanted(packets, some)
           blocks == [i \in DOMAIN chosen |-> Block(chosen[i], policy)]
           B == BlockSet(Ids(P), Roots(P), FactSet(P, policy))
           n == Len(chosen)
           r == Render(packets, decision, <<policy>>)
<1>1. /\ r = <<[mode |-> decision.mode, blocks |-> blocks]>> /\ chosen # <<>>
  <2>1. <<policy>>[1] = policy
    OBVIOUS
  <2> QED
    BY <2>1 DEF Render
<1>2. r[1] = [mode |-> decision.mode, blocks |-> blocks]
  BY <1>1
<1>3. chosen \in Seq(Range(packets) \intersect some)
  BY WantedType
<1> HIDE DEF chosen
<1>4. n \in Nat \ {0} /\ DOMAIN chosen = 1 .. n
  BY <1>1, <1>3, EmptySeq
<1>5. ASSUME NEW i \in 1 .. n PROVE chosen[i] \in P /\ Facts(chosen[i], policy) # <<>>
  <2>1. chosen[i] \in Range(packets) /\ Facts(chosen[i], policy) # <<>>
    BY <1>3, <1>4
  <2>2. Range(packets) \subseteq P
    BY RangeOfSeq
  <2> QED
    BY <2>1, <2>2
<1>6. ASSUME NEW i \in 1 .. n PROVE blocks[i] \in B /\ ShowsPacket(blocks[i], P)
  <2> DEFINE p == chosen[i]
             facts == Facts(p, policy)
  <2>1. blocks[i] = [id |-> p.id, root |-> p.root, facts |-> facts]
    BY <1>4 DEF Block
  <2>2. p \in P /\ facts # <<>>
    BY <1>5
  <2>3. /\ IsSeq(facts) /\ \A k \in 1 .. Len(facts) : facts[k].field \in DOMAIN p.fields
    BY FactsType
  <2>4. Range(facts) \subseteq FactSet(P, policy)
    BY <2>2 DEF FactSet
  <2> HIDE DEF p, facts, blocks
  <2>5. facts \in Seq(FactSet(P, policy))
    BY <2>3, <2>4, SeqMonotonic DEF IsSeq
  <2>6. p.id \in Ids(P) /\ p.root \in Roots(P)
    BY <2>2 DEF Ids, Roots
  <2>7. blocks[i] \in B
    BY <2>1, <2>5, <2>6 DEF BlockSet
  <2>8. blocks[i].facts = facts /\ blocks[i].id = p.id /\ blocks[i].root = p.root
    BY <2>1
  <2> QED
    BY <2>2, <2>3, <2>7, <2>8 DEF ShowsPacket
<1>7. blocks \in [1 .. n -> B]
  <2>1. blocks = [i \in 1 .. n |-> blocks[i]]
    BY <1>4
  <2> HIDE DEF blocks, B
  <2> QED
    BY <1>6, <2>1
<1>8. DOMAIN r[1] = {"mode", "blocks"} /\ r[1].blocks = blocks
  BY <1>2
<1> HIDE DEF blocks, B, r, n
<1>9. blocks \in Seq(B) /\ Len(blocks) = n
  BY <1>4, <1>7, FunctionSeq
<1>10. blocks # <<>>
  BY <1>4, <1>9, EmptyIsSeq
<1> QED
  BY <1>6, <1>8, <1>9, <1>10 DEF ShowsPackets, B, r

\* Nothing is injected without a policy, a decision and something rendered.
LEMMA InjectsUnderPolicy ==
    ASSUME NEW rendered, NEW decision, NEW policy, Inject(rendered, decision, policy).allowed
    PROVE  /\ policy # <<>> /\ decision.allowed /\ rendered # <<>>
           /\ Inject(rendered, decision, policy) =
                 [allowed |-> TRUE, reasons |-> {}, fragment |-> Budgeted(rendered[1], policy[1])]
           /\ Budgeted(rendered[1], policy[1]) # <<>>
<1> DEFINE budgeted == Budgeted(rendered[1], policy[1])
           j == Inject(rendered, decision, policy)
           done == [allowed |-> TRUE, reasons |-> {}, fragment |-> budgeted]
<1>1. \A reason : ~NotInjected(reason).allowed
  BY DEF NotInjected
<1> HIDE DEF budgeted
<1>2. \/ \E reason : j = NotInjected(reason)
      \/ /\ policy # <<>> /\ decision.allowed /\ rendered # <<>> /\ budgeted # <<>>
         /\ j = done
  BY DEF Inject, budgeted
<1>3. j.allowed
  OBVIOUS
<1> HIDE DEF j
<1>4. /\ policy # <<>> /\ decision.allowed /\ rendered # <<>> /\ budgeted # <<>>
      /\ j = done
  BY <1>1, <1>2, <1>3
<1> QED
  BY <1>4 DEF j, budgeted

\* What is injected is what was rendered, within the budget.
LEMMA InjectsBudgeted ==
    ASSUME NEW rendered, NEW decision, NEW policy,
           Inject(rendered, decision, policy).allowed, NEW blocks,
           blocks = WithinLength(WithinCounts(rendered[1].blocks, policy[1]), policy[1])
    PROVE  /\ policy # <<>> /\ decision.allowed /\ rendered # <<>>
           /\ LengthOf(blocks) <= policy[1].max_total_characters
           /\ Inject(rendered, decision, policy).fragment =
                 <<[rendered[1] EXCEPT !.blocks = blocks]>>
<1> DEFINE budgeted == Budgeted(rendered[1], policy[1])
           j == Inject(rendered, decision, policy)
           done == [allowed |-> TRUE, reasons |-> {}, fragment |-> budgeted]
<1>2. /\ policy # <<>> /\ decision.allowed /\ rendered # <<>> /\ budgeted # <<>>
      /\ j = done
  BY InjectsUnderPolicy
<1>3. j.fragment = budgeted
  <2> HIDE DEF budgeted, j
  <2> QED
    BY <1>2
<1>4. /\ budgeted = <<[rendered[1] EXCEPT !.blocks = blocks]>>
      /\ LengthOf(blocks) <= policy[1].max_total_characters
  BY <1>2 DEF Budgeted
<1> QED
  BY <1>2, <1>3, <1>4

\* All that is known of what is injected: the rules of the turn are those of an
\* enabled capability, the blocks are those rendered of the packets, and they
\* are what the counts and then the length leave of them.
InjectionWell ==
    LET b == turn.bundle[1]
        P == PacketSet(turn.results, b.materialization)
        B == BlockSet(Ids(P), Roots(P), FactSet(P, b.render))
        counted == WithinCounts(turn.rendered[1].blocks, b.injection)
        blocks == turn.injection[1].fragment[1].blocks
    IN /\ turn.bundle # <<>> /\ b.governance = "enabled" /\ BundleWell(b)
       /\ ShowsPackets(turn.rendered, P, b.render)
       /\ counted \in Seq(B) /\ Counted(counted, turn.rendered[1].blocks, b.injection)
       /\ blocks \in Seq(B) /\ TailDropped(counted, blocks)
       /\ LengthOf(counted) <= b.injection.max_total_characters => blocks = counted
       /\ LengthOf(blocks) <= b.injection.max_total_characters

\* What is injected shows packets of the turn's results, within its policies.
LEMMA InjectionIsWell ==
    ASSUME StepsInv, BundleInv, ResultsInv, AttachedInv,
           turn.injection # <<>>, turn.injection[1].allowed
    PROVE  InjectionWell
<1> DEFINE b == turn.bundle[1]
           P == PacketSet(turn.results, b.materialization)
           B == BlockSet(Ids(P), Roots(P), FactSet(P, b.render))
           rendered == turn.rendered[1].blocks
           counted == WithinCounts(rendered, b.injection)
           kept == WithinLength(counted, b.injection)
           policy == ContextPolicy(turn.bundle, "injection")
           j == Inject(turn.rendered, turn.decision, policy)
<1>1. turn.pc = "done" /\ IsSeq(turn.results)
  BY DEF StepsInv
<1>2. Attached(turn) /\ turn.injection = <<j>>
  BY <1>1 DEF AttachedInv, Injected
<1>3. turn.injection[1] = j /\ j.allowed
  <2>1. turn.injection[1] = j
    <3> HIDE DEF j
    <3> QED
      BY <1>2
  <2> QED
    BY <2>1
<1>4. policy # <<>>
  <2>1. Inject(turn.rendered, turn.decision, policy).allowed
    BY <1>3
  <2> HIDE DEF policy, j
  <2> QED
    BY <2>1, InjectsUnderPolicy
<1>5. turn.bundle # <<>> /\ ContextAllowed(b.governance)
  BY <1>4 DEF ContextPolicy
<1>6. b.governance = "enabled"
  BY <1>5 DEF ContextAllowed
<1>7. /\ ContextPolicy(turn.bundle, "materialization") = <<b.materialization>>
      /\ ContextPolicy(turn.bundle, "render") = <<b.render>>
      /\ policy = <<b.injection>>
  BY <1>5 DEF ContextPolicy
<1>8. BundleWell(b)
  BY <1>5 DEF BundleInv
<1> HIDE DEF policy, b
<1>9. policy[1] = b.injection
  BY <1>7
<1>10. /\ turn.rendered # <<>> /\ LengthOf(kept) <= b.injection.max_total_characters
       /\ j.fragment = <<[turn.rendered[1] EXCEPT !.blocks = kept]>>
  <2>1. kept = WithinLength(WithinCounts(turn.rendered[1].blocks, policy[1]), policy[1])
    BY <1>9
  <2> HIDE DEF kept
  <2>2. /\ turn.rendered # <<>> /\ LengthOf(kept) <= policy[1].max_total_characters
        /\ j.fragment = <<[turn.rendered[1] EXCEPT !.blocks = kept]>>
    BY <1>3, <2>1, InjectsBudgeted
  <2> QED
    BY <1>9, <2>2
<1>11. turn.packets \in Seq(P)
  <2>1. turn.packets = Materialize(turn.results, <<b.materialization>>)
    BY <1>2, <1>7 DEF Attached, b
  <2>2. ASSUME NEW i \in 1 .. Len(turn.results)
        PROVE  \/ turn.results[i].payloads = <<>>
               \/ turn.results[i].payloads = <<turn.results[i].payloads[1]>>
    BY DEF ResultsInv, ResultWell
  <2> QED
    BY <1>1, <2>1, <2>2, PacketsType
<1> HIDE DEF P
<1>12. ShowsPackets(turn.rendered, P, b.render)
  <2>1. turn.rendered = Render(turn.packets, turn.decision, <<b.render>>)
    BY <1>2, <1>7 DEF Attached, b
  <2>2. b.render.field_order \in Seq(STRING)
    BY <1>8 DEF BundleWell
  <2> QED
    BY <1>10, <1>11, <2>1, <2>2, RenderedShows
<1>13. /\ rendered \in Seq(B) /\ rendered # <<>>
       /\ \A i \in 1 .. Len(rendered) : rendered[i].facts # <<>>
  BY <1>12 DEF ShowsPackets, ShowsPacket
<1> DEFINE I == Ids(P)
           R == Roots(P)
           F == FactSet(P, b.render)
<1> HIDE DEF rendered, I, R, F
<1>14. B = BlockSet(I, R, F)
  BY DEF I, R, F
<1> HIDE DEF B
<1>15. counted \in Seq(B) /\ Counted(counted, rendered, b.injection)
  <2>1. b.injection.max_blocks \in Nat \ {0} /\ b.injection.max_facts_per_block \in Nat \ {0}
    BY <1>8 DEF BundleWell
  <2> QED
    BY <1>13, <1>14, <2>1, CountsWithin
<1> HIDE DEF counted
<1>16. counted # <<>> /\ \A i \in 1 .. Len(counted) : counted[i].facts # <<>>
  <2>1. Len(counted) \in 1 .. Len(rendered) /\ ~(0 \in 1 .. Len(rendered))
    BY <1>15 DEF Counted
  <2>2. counted # <<>>
    BY <2>1, EmptyIsSeq
  <2>3. ASSUME NEW i \in 1 .. Len(counted) PROVE counted[i].facts # <<>>
    <3>1. Len(counted[i].facts) \in 1 .. Len(rendered[i].facts)
      BY <1>15 DEF Counted
    <3>2. ~(0 \in 1 .. Len(rendered[i].facts))
      OBVIOUS
    <3> QED
      BY <3>1, <3>2, EmptyIsSeq
  <2> QED
    BY <2>2, <2>3
<1>17. /\ kept \in Seq(B) /\ TailDropped(counted, kept)
       /\ LengthOf(counted) <= b.injection.max_total_characters => kept = counted
  BY <1>14, <1>15, <1>16, LengthWithin
<1> HIDE DEF kept, j
<1>18. turn.injection[1].fragment[1].blocks = kept
  <2>1. "blocks" \in DOMAIN turn.rendered[1]
    BY <1>12 DEF ShowsPackets
  <2> DEFINE fragment == [turn.rendered[1] EXCEPT !.blocks = kept]
  <2>2. fragment.blocks = kept
    BY <2>1
  <2> HIDE DEF fragment
  <2>3. j.fragment = <<fragment>>
    BY <1>10 DEF fragment
  <2> QED
    BY <1>3, <2>2, <2>3
<1> QED
  BY <1>5, <1>6, <1>8, <1>10, <1>12, <1>15, <1>17, <1>18
  DEF InjectionWell, b, P, B, counted, rendered

\* The budget takes from the end: what is injected begins as what was rendered
\* begins, block by block and fact by fact; a block is shortened below what the
\* policy counts only when those after it are down to one fact each, and one is
\* dropped for its length only when all are (lookup/context_budgeting.py).
THEOREM BudgetTheorem == Spec => []BudgetDropsTheTail
<1>1. StepsInv /\ BundleInv /\ ResultsInv /\ AttachedInv => BudgetDropsTheTail
  <2> DEFINE policy == turn.bundle[1].injection
             counted == WithinCounts(turn.rendered[1].blocks, policy)
             blocks == turn.injection[1].fragment[1].blocks
  <2> SUFFICES ASSUME StepsInv, BundleInv, ResultsInv, AttachedInv,
                      turn.injection # <<>>, turn.injection[1].allowed
               PROVE  /\ LengthOf(counted) <= policy.max_total_characters => blocks = counted
                      /\ Len(blocks) \in 1 .. Len(counted)
                      /\ \A i \in DOMAIN blocks :
                            /\ blocks[i].root = counted[i].root
                            /\ blocks[i].facts # <<>>
                            /\ IsPrefix(blocks[i].facts, counted[i].facts)
                            /\ Len(blocks[i].facts) < Len(counted[i].facts) =>
                                  \A j \in i + 1 .. Len(blocks) : Len(blocks[j].facts) = 1
                      /\ Len(blocks) < Len(counted) =>
                            \A i \in DOMAIN blocks : Len(blocks[i].facts) = 1
    BY DEF BudgetDropsTheTail
  <2>1. InjectionWell
    BY InjectionIsWell
  <2>2. PICK I, R, F : counted \in Seq(BlockSet(I, R, F)) /\ blocks \in Seq(BlockSet(I, R, F))
    BY <2>1 DEF InjectionWell
  <2>6. Len(counted) \in Nat /\ Len(blocks) \in Nat
    <3> HIDE DEF counted, blocks
    <3> QED
      BY <2>2, LenProperties
  <2>3. /\ TailDropped(counted, blocks)
        /\ LengthOf(counted) <= policy.max_total_characters => blocks = counted
    BY <2>1 DEF InjectionWell
  <2> HIDE DEF policy, counted, blocks
  <2>4. /\ DOMAIN blocks = 1 .. Len(blocks) /\ Len(blocks) \in Nat
        /\ DOMAIN counted = 1 .. Len(counted) /\ Len(counted) \in Nat
    BY <2>2, <2>6
  <2>5. ASSUME NEW i \in 1 .. Len(blocks)
        PROVE  blocks[i].facts # <<>> /\ IsPrefix(blocks[i].facts, counted[i].facts)
    <3>1. i \in 1 .. Len(counted)
      BY <2>3, <2>4 DEF TailDropped
    <3>2. blocks[i] \in BlockSet(I, R, F) /\ counted[i] \in BlockSet(I, R, F)
      BY <2>2, <3>1
    <3>3. blocks[i].facts \in Seq(F) /\ counted[i].facts \in Seq(F)
      BY <3>2 DEF BlockSet
    <3>4. /\ Len(blocks[i].facts) \in 1 .. Len(counted[i].facts)
          /\ \A k \in 1 .. Len(blocks[i].facts) : blocks[i].facts[k] = counted[i].facts[k]
      BY <2>3 DEF TailDropped
    <3>5. Len(blocks[i].facts) <= Len(counted[i].facts) /\ Len(blocks[i].facts) # 0
      <4>1. Len(blocks[i].facts) \in Nat /\ Len(counted[i].facts) \in Nat
        BY <3>3, LenProperties
      <4> QED
        BY <3>4, <4>1
    <3> QED
      BY <3>3, <3>4, <3>5, PrefixOf, EmptyIsSeq
  <2> QED
    BY <2>3, <2>4, <2>5 DEF TailDropped
<1> QED
  BY <1>1, StepsInvariant, BundleInvariant, ResultsInvariant, AttachedInvariant, PTL

\* Whatever becomes of the files during a turn, a lookup runs only under the
\* capability the turn resolved when it was planned, enabled and of its scope,
\* and what is injected are allowed fields of what such a lookup found, in no
\* more blocks, facts and characters than that capability has
\* (lookup/execution.py, context_materializer.py, context_budgeting.py).
THEOREM RulesTheorem == Spec => []LookupsFollowTurnsRules
<1>1. StepsInv /\ RequestsInv /\ BundleInv /\ ResultsInv /\ AttachedInv
         => LookupsFollowTurnsRules
  <2> SUFFICES ASSUME StepsInv, RequestsInv, BundleInv, ResultsInv, AttachedInv
               PROVE  LookupsFollowTurnsRules
    OBVIOUS
  <2> DEFINE n == Len(turn.results)
  <2>1. n \in Nat /\ DOMAIN turn.results = 1 .. n
    BY LenProperties DEF StepsInv, IsSeq
  <2>2. ASSUME NEW r \in Range(turn.results), r.executed
        PROVE  RunsUnder(r.request, turn.bundle)
    <3>1. PICK i \in 1 .. n : r = turn.results[i]
      BY <2>1 DEF Range
    <3> QED
      BY <2>2, <3>1 DEF ResultsInv, ResultWell
  <2>3. ASSUME turn.injection # <<>>, turn.injection[1].allowed,
               NEW b, b = turn.bundle[1],
               NEW blocks, blocks = turn.injection[1].fragment[1].blocks
        PROVE  /\ b.governance = "enabled"
               /\ Len(blocks) <= b.injection.max_blocks
               /\ LengthOf(blocks) <= b.injection.max_total_characters
               /\ \A block \in Range(blocks) :
                     /\ Len(block.facts) <= b.injection.max_facts_per_block
                     /\ {fact.field : fact \in Range(block.facts)}
                           \subseteq Range(b.materialization.allowed_fields)
                     /\ \E r \in Range(turn.results) :
                           r.executed /\ r.request.id = block.id /\ r.request.root = block.root
    <3> DEFINE P == PacketSet(turn.results, b.materialization)
               rendered == turn.rendered[1].blocks
               counted == WithinCounts(rendered, b.injection)
               most == b.injection.max_facts_per_block
    <3>1. InjectionWell
      BY <2>3, InjectionIsWell
    <3>2. PICK I, R, F : /\ rendered \in Seq(BlockSet(I, R, F))
                         /\ counted \in Seq(BlockSet(I, R, F))
                         /\ blocks \in Seq(BlockSet(I, R, F))
      BY <2>3, <3>1 DEF InjectionWell, ShowsPackets
    <3>3. /\ b.governance = "enabled" /\ BundleWell(b)
          /\ Counted(counted, rendered, b.injection) /\ TailDropped(counted, blocks)
          /\ LengthOf(blocks) <= b.injection.max_total_characters
          /\ \A i \in 1 .. Len(rendered) : ShowsPacket(rendered[i], P)
      BY <2>3, <3>1 DEF InjectionWell, ShowsPackets
    <3> HIDE DEF P, rendered, counted
    <3>4. /\ Len(blocks) \in Nat /\ Len(counted) \in Nat /\ Len(rendered) \in Nat
          /\ DOMAIN blocks = 1 .. Len(blocks)
          /\ b.injection.max_blocks \in Nat /\ most \in Nat
      BY <3>2, <3>3 DEF BundleWell
    <3>5. Len(blocks) <= b.injection.max_blocks
      <4>1. Len(blocks) <= Len(counted) /\ Len(counted) <= b.injection.max_blocks
        BY <3>3, <3>4 DEF TailDropped, Counted
      <4> QED
        BY <3>4, <4>1
    <3>6. ASSUME NEW i \in 1 .. Len(blocks)
          PROVE  /\ Len(blocks[i].facts) <= most
                 /\ {fact.field : fact \in Range(blocks[i].facts)}
                       \subseteq Range(b.materialization.allowed_fields)
                 /\ \E r \in Range(turn.results) :
                       r.executed /\ r.request.id = blocks[i].id /\ r.request.root = blocks[i].root
      <4> DEFINE m == Len(blocks[i].facts)
      <4>1. i \in 1 .. Len(counted) /\ i \in 1 .. Len(rendered)
        BY <3>3, <3>4 DEF TailDropped, Counted
      <4>2. /\ blocks[i].facts \in Seq(F) /\ counted[i].facts \in Seq(F)
            /\ rendered[i].facts \in Seq(F)
        <5>1. /\ blocks[i] \in BlockSet(I, R, F) /\ counted[i] \in BlockSet(I, R, F)
              /\ rendered[i] \in BlockSet(I, R, F)
          BY <3>2, <4>1
        <5> QED
          BY <5>1 DEF BlockSet
      <4>3. /\ m \in 1 .. Len(counted[i].facts)
            /\ \A k \in 1 .. m : blocks[i].facts[k] = counted[i].facts[k]
            /\ blocks[i].id = counted[i].id /\ blocks[i].root = counted[i].root
        BY <3>3 DEF TailDropped
      <4>4. /\ Len(counted[i].facts) \in 1 .. Len(rendered[i].facts)
            /\ Len(counted[i].facts) <= most
            /\ \A k \in 1 .. Len(counted[i].facts) : counted[i].facts[k] = rendered[i].facts[k]
            /\ counted[i].id = rendered[i].id /\ counted[i].root = rendered[i].root
        BY <3>3, <4>1 DEF Counted
      <4>5. /\ m \in Nat /\ Len(counted[i].facts) \in Nat /\ Len(rendered[i].facts) \in Nat
            /\ DOMAIN blocks[i].facts = 1 .. m
        BY <4>2
      <4> HIDE DEF m
      <4>6. m <= most
        <5>1. m <= Len(counted[i].facts)
          BY <4>3
        <5> QED
          BY <3>4, <4>4, <4>5, <5>1
      <4>7. PICK p \in P :
              /\ rendered[i].id = p.id /\ rendered[i].root = p.root
              /\ \A k \in 1 .. Len(rendered[i].facts) :
                    rendered[i].facts[k].field \in DOMAIN p.fields
        BY <3>3, <4>1 DEF ShowsPacket
      <4>8. PICK l \in 1 .. n :
              /\ turn.results[l].executed
              /\ p = Packet(turn.results[l], turn.results[l].payloads[1], b.materialization)
        BY DEF P, PacketSet
      <4>9. /\ p.id = turn.results[l].request.id /\ p.root = turn.results[l].request.root
            /\ DOMAIN p.fields \subseteq Range(b.materialization.allowed_fields)
        BY <3>3, <4>8, PacketFields DEF BundleWell
      <4>10. ASSUME NEW k \in 1 .. m
             PROVE  blocks[i].facts[k].field \in Range(b.materialization.allowed_fields)
        <5>1. k \in 1 .. Len(counted[i].facts) /\ k \in 1 .. Len(rendered[i].facts)
          BY <4>3, <4>4, <4>5
        <5>2. blocks[i].facts[k] = rendered[i].facts[k]
          BY <4>3, <4>4, <5>1
        <5> QED
          BY <4>7, <4>9, <5>1, <5>2
      <4>11. {fact.field : fact \in Range(blocks[i].facts)}
                \subseteq Range(b.materialization.allowed_fields)
        BY <4>5, <4>10 DEF Range
      <4>12. turn.results[l] \in Range(turn.results)
        BY <2>1 DEF Range
      <4>13. blocks[i].id = p.id /\ blocks[i].root = p.root
        BY <4>3, <4>4, <4>7
      <4>14. \E r \in Range(turn.results) :
                r.executed /\ r.request.id = blocks[i].id /\ r.request.root = blocks[i].root
        BY <4>8, <4>9, <4>12, <4>13
      <4> QED
        BY <4>6, <4>11, <4>14 DEF m
    <3>7. \A block \in Range(blocks) : \E i \in 1 .. Len(blocks) : block = blocks[i]
      BY <3>4 DEF Range
    <3> QED
      BY <3>3, <3>5, <3>6, <3>7
  <2> QED
    BY <2>2, <2>3 DEF LookupsFollowTurnsRules, RunsUnder
<1> QED
  BY <1>1, StepsInvariant, RequestsInvariant, BundleInvariant, ResultsInvariant,
     AttachedInvariant, PTL

================================================================================
