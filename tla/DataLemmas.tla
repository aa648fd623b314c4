------------------------------ MODULE DataLemmas ------------------------------
(***************************************************************************)
(* Lemmas about numbers and sequences that the proofs about the components *)
(* share, first of all induction over the naturals in a form they can use. *)
(* The library states induction for a predicate P(_); here it is stated    *)
(* for a set, and derived from the library's theorem that the naturals are *)
(* well founded.  A predicate becomes the set of the numbers that satisfy  *)
(* it, a recursive definition the functions of its steps.                  *)
(***************************************************************************)
EXTENDS Integers, SequencesExt, WellFoundedInduction, FiniteSetTheorems, FunctionTheorems,
        SequenceTheorems, TLAPS

(* A set of naturals that is not empty has a least element.                *)
LEMMA LeastNatural ==
  ASSUME NEW T \in SUBSET Nat, T # {}
  PROVE  \E m \in T : \A k \in T : m <= k
<1>1. PICK m \in T : \A k \in T : ~(<<k, m>> \in OpToRel(<, Nat))
  <2>1. \E m \in T : \A k \in T : ~(<<k, m>> \in OpToRel(<, Nat))
    BY WFMin, NatLessThanWellFounded
  <2>2. QED BY <2>1
<1>2. ASSUME NEW k \in T, k < m PROVE FALSE
  <2>1. <<k, m>> \in OpToRel(<, Nat) BY <1>2, k \in Nat, m \in Nat DEF OpToRel
  <2>2. QED BY <1>1, <2>1
<1>3. QED BY <1>2

(* A set that holds 0 and with every number the next one holds them all.   *)
LEMMA SetInduction ==
  ASSUME NEW T \in SUBSET Nat, 0 \in T, \A n \in T : n + 1 \in T
  PROVE  T = Nat
<1>1. SUFFICES ASSUME Nat \ T # {} PROVE FALSE OBVIOUS
<1>2. PICK m \in Nat \ T : \A k \in Nat \ T : m <= k BY <1>1, LeastNatural
<1>3. m # 0 /\ m - 1 \in Nat BY <1>2
<1>4. m - 1 \in T BY <1>2, <1>3
<1>5. QED BY <1>2, <1>3, <1>4

(* The same up to a number n.                                              *)
LEMMA IntervalInduction ==
  ASSUME NEW n \in Nat, NEW T, 0 \in T, \A i \in 1 .. n : i - 1 \in T => i \in T
  PROVE  0 .. n \subseteq T
<1> DEFINE U == {i \in Nat : i <= n => i \in T}
<1>1. 0 \in U OBVIOUS
<1>2. \A i \in U : i + 1 \in U OBVIOUS
<1>3. U = Nat
  <2> HIDE DEF U
  <2>1. U \in SUBSET Nat BY DEF U
  <2>2. QED BY <1>1, <1>2, <2>1, SetInduction
<1>4. QED BY <1>3

(* The functions on 0 .. n that begin with base and take each step from    *)
(* the value before.                                                       *)
Recursive(n, S, base, step) ==
  {f \in [0 .. n -> S] : f[0] = base /\ \A i \in 1 .. n : f[i] = step[i][f[i - 1]]}

(* There is a function for every recursive definition.                     *)
LEMMA Recursion ==
  ASSUME NEW n \in Nat, NEW S, NEW base \in S, NEW step \in [1 .. n -> [S -> S]]
  PROVE  Recursive(n, S, base, step) # {}
<1> DEFINE Follows(f, m) == f[0] = base /\ \A i \in 1 .. m : f[i] = step[i][f[i - 1]]
           T == {m \in 0 .. n : \E f \in [0 .. m -> S] : Follows(f, m)}
<1>1. 0 \in T
  <2> DEFINE g == [i \in 0 .. 0 |-> base]
  <2>1. g \in [0 .. 0 -> S] /\ Follows(g, 0) OBVIOUS
  <2> HIDE DEF g, Follows
  <2>2. QED BY <2>1
<1>2. ASSUME NEW m \in 1 .. n, m - 1 \in T PROVE m \in T
  <2>1. PICK f \in [0 .. m - 1 -> S] : Follows(f, m - 1) BY <1>2
  <2> DEFINE g == [i \in 0 .. m |-> IF i = m THEN step[m][f[m - 1]] ELSE f[i]]
  <2>2. step[m] \in [S -> S] /\ f[m - 1] \in S OBVIOUS
  <2>3. g \in [0 .. m -> S] BY <2>2
  <2>4. g[0] = base BY <2>1
  <2>5. ASSUME NEW i \in 1 .. m PROVE g[i] = step[i][g[i - 1]]
    <3>1. CASE i = m BY <3>1
    <3>2. CASE i # m
      <4>1. i \in 1 .. m - 1 BY <3>2
      <4>2. f[i] = step[i][f[i - 1]] BY <2>1, <4>1
      <4>3. g[i] = f[i] /\ g[i - 1] = f[i - 1] BY <4>1
      <4>4. QED BY <4>2, <4>3
    <3>3. QED BY <3>1, <3>2
  <2>6. Follows(g, m) BY <2>4, <2>5
  <2> HIDE DEF g, Follows
  <2>7. QED BY <2>3, <2>6
<1>3. 0 .. n \subseteq T
  <2> HIDE DEF T
  <2>1. QED BY <1>1, <1>2, IntervalInduction
<1>4. QED BY <1>3 DEF Recursive

-----------------------------------------------------------------------------
(* Sequences *)

LEMMA SeqMonotone ==
  ASSUME NEW S, NEW T, S \subseteq T
  PROVE  Seq(S) \subseteq Seq(T)
<1>1. SUFFICES ASSUME NEW s \in Seq(S) PROVE s \in Seq(T)
  OBVIOUS
<1>2. \A i \in 1 .. Len(s) : s[i] \in T OBVIOUS
<1>3. QED BY <1>2

LEMMA ConcatThree ==
  ASSUME NEW S, NEW r \in Seq(S), NEW s \in Seq(S), NEW t \in Seq(S)
  PROVE  (r \o s) \o t = r \o (s \o t)
BY ConcatAssociative

Increasing(s) == \A i, j \in 1 .. Len(s) : i < j => s[i] < s[j]

LEMMA AppendIncreasing ==
  ASSUME NEW s \in Seq(Nat), Increasing(s), NEW n \in Nat, \A i \in 1 .. Len(s) : s[i] < n
  PROVE  Increasing(Append(s, n))
<1> DEFINE t == Append(s, n)
<1>1. /\ Len(s) \in Nat /\ Len(t) = Len(s) + 1 /\ t[Len(s) + 1] = n
      /\ \A i \in 1 .. Len(s) : t[i] = s[i]
  OBVIOUS
<1> HIDE DEF t
<1>2. ASSUME NEW i \in 1 .. Len(t), NEW j \in 1 .. Len(t), i < j PROVE t[i] < t[j]
  <2>1. i \in 1 .. Len(s) /\ t[i] = s[i] BY <1>1, <1>2
  <2>2. CASE j = Len(s) + 1 BY <1>1, <2>1, <2>2
  <2>3. CASE j \in 1 .. Len(s) BY <1>1, <1>2, <2>1, <2>3 DEF Increasing
  <2>4. QED BY <1>1, <2>2, <2>3
<1>3. QED BY <1>2 DEF Increasing, t

-----------------------------------------------------------------------------
(* What is collected from the elements of a sequence *)

(* FlattenSeq is a recursive function: f[i] is what the first i sequences  *)
(* make together.                                                          *)
LEMMA FlattenSteps ==
  ASSUME NEW S, NEW seqs \in Seq(Seq(S))
  PROVE  \E f \in [0 .. Len(seqs) -> Seq(S)] :
           /\ f[0] = <<>>
           /\ \A i \in 1 .. Len(seqs) : f[i] = f[i - 1] \o seqs[i]
           /\ FlattenSeq(seqs) = f[Len(seqs)]
<1> DEFINE N == Len(seqs)
           Flattens(f) == f = [i \in 1 .. N |-> IF i = 1 THEN seqs[i] ELSE f[i - 1] \o seqs[i]]
           step == [i \in 1 .. N |-> [s \in Seq(S) |-> s \o seqs[i]]]
<1>1. N \in Nat /\ \A i \in 1 .. N : seqs[i] \in Seq(S) OBVIOUS
<1>2. PICK f \in [0 .. N -> Seq(S)] : f[0] = <<>> /\ \A i \in 1 .. N : f[i] = step[i][f[i - 1]]
  <2>1. step \in [1 .. N -> [Seq(S) -> Seq(S)]] BY <1>1
  <2>2. <<>> \in Seq(S) OBVIOUS
  <2> DEFINE Q == Seq(S)
             empty == <<>>
  <2>3. empty \in Q /\ step \in [1 .. N -> [Q -> Q]] BY <2>1, <2>2
  <2> HIDE DEF step, N, Q, empty
  <2>4. Recursive(N, Q, empty, step) # {} BY <1>1, <2>3, Recursion
  <2>5. QED BY <2>4 DEF Q, empty, Recursive
<1>3. ASSUME NEW i \in 1 .. N PROVE f[i] = f[i - 1] \o seqs[i]
  <2>1. i - 1 \in 0 .. N BY <1>1
  <2>2. f[i - 1] \in Seq(S) BY <2>1
  <2>3. QED BY <1>2, <2>2
<1>4. \E g : Flattens(g)
  <2> DEFINE g == [i \in 1 .. N |-> f[i]]
  <2>1. ASSUME NEW i \in 1 .. N
        PROVE  g[i] = IF i = 1 THEN seqs[i] ELSE g[i - 1] \o seqs[i]
    <3>1. f[i] = f[i - 1] \o seqs[i] BY <1>3
    <3>2. seqs[i] \in Seq(S) BY <1>1
    <3>3. <<>> \o seqs[i] = seqs[i] BY <3>2
    <3>4. i = 1 => f[i - 1] = <<>> BY <1>2
    <3>5. g[i] = f[i] OBVIOUS
    <3>6. i # 1 => g[i - 1] = f[i - 1] BY <1>1
    <3>7. QED BY <3>1, <3>3, <3>4, <3>5, <3>6
  <2>2. Flattens(g)
    <3>1. g = [i \in 1 .. N |-> g[i]] OBVIOUS
    <3> HIDE DEF g, N
    <3>2. QED BY <2>1, <3>1
  <2>3. QED BY <2>2
<1> DEFINE chosen == CHOOSE g : Flattens(g)
<1>5. Flattens(chosen)
  <2> HIDE DEF Flattens
  <2>1. QED BY <1>4
<1>6. FlattenSeq(seqs) = f[N]
  <2>1. CASE N = 0
    <3>1. seqs = <<>> BY <2>1
    <3>2. QED BY <1>2, <2>1, <3>1 DEF FlattenSeq
  <2>2. CASE N # 0
    <3>1. FlattenSeq(seqs) = chosen[N] BY <2>2 DEF FlattenSeq
    <3> DEFINE T == {i \in 0 .. N : i # 0 => chosen[i] = f[i]}
    <3> HIDE DEF chosen
    <3>2. ASSUME NEW i \in 1 .. N, i - 1 \in T PROVE i \in T
      <4>1. chosen[i] = IF i = 1 THEN seqs[i] ELSE chosen[i - 1] \o seqs[i] BY <1>5
      <4>2. i # 1 => chosen[i - 1] = f[i - 1] BY <3>2
      <4>3. f[i] = f[i - 1] \o seqs[i] BY <1>3
      <4>4. seqs[i] \in Seq(S) BY <1>1
      <4>5. <<>> \o seqs[i] = seqs[i] BY <4>4
      <4>6. i = 1 => f[i - 1] = <<>> BY <1>2
      <4>7. chosen[i] = f[i] BY <4>1, <4>2, <4>3, <4>5, <4>6
      <4>8. QED BY <1>1, <4>7
    <3>3. 0 \in T BY <1>1
    <3>4. 0 .. N \subseteq T
      <4> HIDE DEF T, N
      <4>1. QED BY <1>1, <3>2, <3>3, IntervalInduction
    <3>5. N \in T BY <1>1, <3>4
    <3>6. QED BY <2>2, <3>1, <3>5
  <2>3. QED BY <2>1, <2>2
<1> HIDE DEF step
<1>7. QED BY <1>2, <1>3, <1>6

LEMMA FlattenSeqType ==
  ASSUME NEW S, NEW seqs \in Seq(Seq(S))
  PROVE  FlattenSeq(seqs) \in Seq(S)
<1>1. Len(seqs) \in 0 .. Len(seqs) OBVIOUS
<1>2. PICK f \in [0 .. Len(seqs) -> Seq(S)] : FlattenSeq(seqs) = f[Len(seqs)]
  BY FlattenSteps
<1>3. QED BY <1>1, <1>2

LEMMA FlattenConcat ==
  ASSUME NEW S, NEW a \in Seq(Seq(S)), NEW b \in Seq(Seq(S))
  PROVE  FlattenSeq(a \o b) = FlattenSeq(a) \o FlattenSeq(b)
<1> DEFINE c == a \o b
           M == Len(a)
           N == Len(b)
<1>1. /\ M \in Nat /\ N \in Nat /\ c \in Seq(Seq(S)) /\ Len(c) = M + N
      /\ \A i \in 1 .. M + N : c[i] = IF i <= M THEN a[i] ELSE b[i - M]
      /\ \A i \in 1 .. M : a[i] \in Seq(S)
      /\ \A i \in 1 .. N : b[i] \in Seq(S)
  BY ConcatProperties
<1> HIDE DEF c
<1>2. PICK f \in [0 .. M -> Seq(S)] :
        /\ f[0] = <<>> /\ \A i \in 1 .. M : f[i] = f[i - 1] \o a[i]
        /\ FlattenSeq(a) = f[M]
  BY FlattenSteps
<1>3. PICK g \in [0 .. N -> Seq(S)] :
        /\ g[0] = <<>> /\ \A i \in 1 .. N : g[i] = g[i - 1] \o b[i]
        /\ FlattenSeq(b) = g[N]
  BY FlattenSteps
<1>4. PICK h \in [0 .. M + N -> Seq(S)] :
        /\ h[0] = <<>> /\ \A i \in 1 .. M + N : h[i] = h[i - 1] \o c[i]
        /\ FlattenSeq(c) = h[M + N]
  <2> DEFINE Q == Seq(S)
  <2>1. c \in Seq(Seq(S)) BY <1>1
  <2>2. \E h \in [0 .. Len(c) -> Seq(S)] :
          /\ h[0] = <<>> /\ \A i \in 1 .. Len(c) : h[i] = h[i - 1] \o c[i]
          /\ FlattenSeq(c) = h[Len(c)]
    BY <2>1, FlattenSteps
  <2>3. QED BY <1>1, <2>2
<1> HIDE DEF M, N
<1>5. h[M] = f[M]
  <2> DEFINE T == {i \in 0 .. M : h[i] = f[i]}
  <2>1. 0 \in T BY <1>1, <1>2, <1>4
  <2>2. ASSUME NEW i \in 1 .. M, i - 1 \in T PROVE i \in T
    <3>1. i \in 1 .. M + N /\ i <= M BY <1>1
    <3>2. c[i] = a[i] BY <1>1, <3>1
    <3>3. h[i] = h[i - 1] \o c[i] /\ f[i] = f[i - 1] \o a[i] BY <1>2, <1>4, <3>1
    <3>4. h[i - 1] = f[i - 1] BY <2>2
    <3>5. h[i] = f[i] BY <3>2, <3>3, <3>4
    <3>6. i \in 0 .. M OBVIOUS
    <3>7. QED BY <3>5, <3>6
  <2>3. 0 .. M \subseteq T
    <3> HIDE DEF T
    <3>1. QED BY <1>1, <2>1, <2>2, IntervalInduction
  <2>4. QED BY <1>1, <2>3
<1>6. h[M + N] = f[M] \o g[N]
  <2> DEFINE T == {i \in 0 .. N : h[M + i] = f[M] \o g[i]}
  <2>1. f[M] \in Seq(S) BY <1>1, <1>2
  <2>2. 0 \in T
    <3>1. f[M] \o <<>> = f[M] BY <2>1
    <3>2. M + 0 = M BY <1>1
    <3>3. h[M + 0] = f[M] \o g[0] BY <1>3, <1>5, <3>1, <3>2
    <3>4. 0 \in 0 .. N BY <1>1
    <3>5. QED BY <3>3, <3>4
  <2>3. ASSUME NEW i \in 1 .. N, i - 1 \in T PROVE i \in T
    <3>1. M + i \in 1 .. M + N /\ ~(M + i <= M) /\ (M + i) - M = i
          /\ (M + i) - 1 = M + (i - 1)
      BY <1>1
    <3>2. c[M + i] = b[i] BY <1>1, <3>1
    <3>3. h[M + i] = h[M + (i - 1)] \o c[M + i] BY <1>4, <3>1
    <3>4. h[M + (i - 1)] = f[M] \o g[i - 1] BY <2>3
    <3>5. g[i] = g[i - 1] \o b[i] BY <1>3
    <3>6. g[i - 1] \in Seq(S) /\ b[i] \in Seq(S)
      <4>0. N \in Nat BY <1>1
      <4>1. i - 1 \in 0 .. N BY <4>0
      <4>2. g[i - 1] \in Seq(S) BY <1>3, <4>1
      <4>3. QED BY <1>1, <4>2
    <3>7. (f[M] \o g[i - 1]) \o b[i] = f[M] \o (g[i - 1] \o b[i])
      <4>1. \A r, s, t \in Seq(S) : (r \o s) \o t = r \o (s \o t) BY ConcatAssociative
      <4>2. QED BY <2>1, <3>6, <4>1
    <3>8. h[M + i] = f[M] \o g[i] BY <3>2, <3>3, <3>4, <3>5, <3>7
    <3>9. i \in 0 .. N OBVIOUS
    <3>10. QED BY <3>8, <3>9
  <2>4. 0 .. N \subseteq T
    <3> HIDE DEF T
    <3>1. QED BY <1>1, <2>2, <2>3, IntervalInduction
  <2>5. QED BY <1>1, <2>4
<1>7. QED BY <1>2, <1>3, <1>4, <1>6 DEF c

(* The parts that the elements of s contribute, one after the other.       *)
PartsOf(S, T) == [S -> Seq(T)]
Collected(s, part) == FlattenSeq([i \in 1 .. Len(s) |-> part[s[i]]])

LEMMA CollectedConcat ==
  ASSUME NEW S, NEW T, NEW part \in PartsOf(S, T), NEW s \in Seq(S), NEW t \in Seq(S)
  PROVE  /\ Collected(s \o t, part) = Collected(s, part) \o Collected(t, part)
         /\ Collected(s, part) \in Seq(T)
<1> DEFINE parts(r) == [i \in 1 .. Len(r) |-> part[r[i]]]
<1>1. \A r \in Seq(S) : parts(r) \in Seq(Seq(T)) BY DEF PartsOf
<1>2. /\ Len(s) \in Nat /\ Len(t) \in Nat /\ Len(s \o t) = Len(s) + Len(t)
      /\ s \o t \in Seq(S)
      /\ \A i \in 1 .. Len(s) + Len(t) :
           (s \o t)[i] = IF i <= Len(s) THEN s[i] ELSE t[i - Len(s)]
  BY ConcatProperties
<1>3. parts(s \o t) = parts(s) \o parts(t)
  <2> DEFINE p == parts(s)
             q == parts(t)
             both == parts(s \o t)
  <2>1. p \in Seq(Seq(T)) /\ q \in Seq(Seq(T)) /\ both \in Seq(Seq(T)) BY <1>1, <1>2
  <2>2. Len(p) = Len(s) /\ Len(q) = Len(t) /\ Len(both) = Len(s) + Len(t) BY <1>2
  <2>3. /\ p \o q \in Seq(Seq(T)) /\ Len(p \o q) = Len(p) + Len(q)
        /\ \A i \in 1 .. Len(p) + Len(q) :
             (p \o q)[i] = IF i <= Len(p) THEN p[i] ELSE q[i - Len(p)]
    <3> HIDE DEF p, q
    <3>1. QED BY <2>1, ConcatProperties
  <2>4. ASSUME NEW i \in 1 .. Len(s) + Len(t) PROVE both[i] = (p \o q)[i]
    <3>1. both[i] = part[(s \o t)[i]] BY <1>2
    <3>2. CASE i <= Len(s)
      <4>1. i \in 1 .. Len(s) BY <1>2, <3>2
      <4>2. p[i] = part[s[i]] BY <4>1
      <4>3. (p \o q)[i] = p[i] BY <2>2, <2>3, <3>2
      <4>4. (s \o t)[i] = s[i] BY <1>2, <3>2
      <4>5. QED BY <3>1, <4>2, <4>3, <4>4
    <3>3. CASE ~(i <= Len(s))
      <4>1. i - Len(s) \in 1 .. Len(t) BY <1>2, <3>3
      <4>2. q[i - Len(s)] = part[t[i - Len(s)]] BY <4>1
      <4>3. (p \o q)[i] = q[i - Len(s)] BY <2>2, <2>3, <3>3
      <4>4. (s \o t)[i] = t[i - Len(s)] BY <1>2, <3>3
      <4>5. QED BY <3>1, <4>2, <4>3, <4>4
    <3>4. QED BY <3>2, <3>3
  <2> HIDE DEF p, q, both
  <2>5. both = p \o q BY <1>2, <2>1, <2>2, <2>3, <2>4, SeqEqual
  <2>6. QED BY <2>5 DEF p, q, both
<1>4. parts(s) \in Seq(Seq(T)) /\ parts(t) \in Seq(Seq(T)) BY <1>1
<1>5. /\ Collected(s, part) = FlattenSeq(parts(s))
      /\ Collected(t, part) = FlattenSeq(parts(t))
      /\ Collected(s \o t, part) = FlattenSeq(parts(s \o t))
  BY DEF Collected
<1> HIDE DEF parts
<1>6. FlattenSeq(parts(s) \o parts(t)) = FlattenSeq(parts(s)) \o FlattenSeq(parts(t))
  BY <1>4, FlattenConcat
<1>7. FlattenSeq(parts(s)) \in Seq(T) BY <1>4, FlattenSeqType
<1>8. QED BY <1>3, <1>5, <1>6, <1>7

LEMMA CollectedOne ==
  ASSUME NEW S, NEW T, NEW part \in PartsOf(S, T), NEW x \in S
  PROVE  Collected(<<x>>, part) = part[x]
<1> DEFINE seqs == [i \in 1 .. Len(<<x>>) |-> part[<<x>>[i]]]
<1>1. Len(<<x>>) = 1 /\ <<x>>[1] = x OBVIOUS
<1>2. part[x] \in Seq(T) BY DEF PartsOf
<1>3. seqs \in Seq(Seq(T)) /\ Len(seqs) = 1 /\ seqs[1] = part[x] BY <1>1, <1>2
<1> HIDE DEF seqs
<1>4. PICK f \in [0 .. Len(seqs) -> Seq(T)] :
        /\ f[0] = <<>> /\ \A i \in 1 .. Len(seqs) : f[i] = f[i - 1] \o seqs[i]
        /\ FlattenSeq(seqs) = f[Len(seqs)]
  BY <1>3, FlattenSteps
<1>5. f[1] = f[1 - 1] \o seqs[1] BY <1>3, <1>4
<1>6. f[1 - 1] = <<>> BY <1>4
<1>7. <<>> \o part[x] = part[x] BY <1>2
<1>8. FlattenSeq(seqs) = part[x] BY <1>3, <1>4, <1>5, <1>6, <1>7
<1>9. QED BY <1>8 DEF Collected, seqs

LEMMA CollectedNone ==
  ASSUME NEW part
  PROVE  Collected(<<>>, part) = <<>>
<1> DEFINE seqs == [i \in 1 .. Len(<<>>) |-> part[<<>>[i]]]
<1>1. Len(<<>>) = 0 OBVIOUS
<1>2. seqs = <<>> /\ Len(seqs) = 0 BY <1>1
<1> HIDE DEF seqs
<1>3. FlattenSeq(seqs) = <<>> BY <1>2 DEF FlattenSeq
<1>4. QED BY <1>3 DEF Collected, seqs

LEMMA CollectedAppend ==
  ASSUME NEW S, NEW T, NEW part \in PartsOf(S, T), NEW s \in Seq(S), NEW x \in S
  PROVE  Collected(Append(s, x), part) = Collected(s, part) \o part[x]
<1>1. Append(s, x) = s \o <<x>> /\ <<x>> \in Seq(S) OBVIOUS
<1>2. Collected(s \o <<x>>, part) = Collected(s, part) \o Collected(<<x>>, part)
  <2> DEFINE last == <<x>>
  <2>1. last \in Seq(S) BY <1>1
  <2> HIDE DEF last
  <2>2. Collected(s \o last, part) = Collected(s, part) \o Collected(last, part)
    BY <2>1, CollectedConcat
  <2>3. QED BY <2>2 DEF last
<1>3. QED BY <1>1, <1>2, CollectedOne

LEMMA CollectedPrefix ==
  ASSUME NEW S, NEW T, NEW part \in PartsOf(S, T), NEW s \in Seq(S), NEW x \in S
  PROVE  Collected(<<x>> \o s, part) = part[x] \o Collected(s, part)
<1> DEFINE first == <<x>>
<1>1. first \in Seq(S) OBVIOUS
<1>2. Collected(first, part) = part[x] BY CollectedOne
<1> HIDE DEF first
<1>3. Collected(first \o s, part) = Collected(first, part) \o Collected(s, part)
  BY <1>1, CollectedConcat
<1>4. QED BY <1>2, <1>3 DEF first

LEMMA CollectedTail ==
  ASSUME NEW S, NEW T, NEW part \in PartsOf(S, T), NEW s \in Seq(S), s # <<>>
  PROVE  Collected(s, part) = part[Head(s)] \o Collected(Tail(s), part)
<1>1. s = <<Head(s)>> \o Tail(s) /\ Head(s) \in S /\ Tail(s) \in Seq(S)
  OBVIOUS
<1> DEFINE x == Head(s)
           rest == Tail(s)
<1>2. x \in S /\ rest \in Seq(S) BY <1>1
<1> HIDE DEF x, rest
<1>3. Collected(<<x>> \o rest, part) = part[x] \o Collected(rest, part)
  BY <1>2, CollectedPrefix
<1>4. QED BY <1>1, <1>3 DEF x, rest

-----------------------------------------------------------------------------
(* How many elements of a sequence are in a set *)

One(condition) == IF condition THEN 1 ELSE 0
PlacesOf(s, S) == {i \in 1 .. Len(s) : s[i] \in S}
CountIn(s, S) == Cardinality(PlacesOf(s, S))

LEMMA CountIsNat ==
  ASSUME NEW T, NEW s \in Seq(T), NEW S
  PROVE  CountIn(s, S) \in Nat /\ IsFiniteSet(PlacesOf(s, S))
<1>1. Len(s) \in Nat OBVIOUS
<1>2. IsFiniteSet(1 .. Len(s)) BY <1>1, 1 \in Int, Len(s) \in Int, FS_Interval
<1>3. PlacesOf(s, S) \subseteq 1 .. Len(s) BY DEF PlacesOf
<1>4. IsFiniteSet(PlacesOf(s, S)) BY <1>2, <1>3, FS_Subset
<1>5. QED BY <1>4, FS_CardinalityType DEF CountIn

LEMMA CountPositive ==
  ASSUME NEW T, NEW s \in Seq(T), NEW S
  PROVE  /\ CountIn(s, S) > 0 <=> \E i \in 1 .. Len(s) : s[i] \in S
         /\ CountIn(s, S) = 0 <=> \A i \in 1 .. Len(s) : s[i] \notin S
<1>1. CountIn(s, S) \in Nat /\ IsFiniteSet(PlacesOf(s, S)) BY CountIsNat
<1>2. CountIn(s, S) = 0 <=> PlacesOf(s, S) = {} BY <1>1, FS_EmptySet DEF CountIn
<1>3. PlacesOf(s, S) = {} <=> \A i \in 1 .. Len(s) : s[i] \notin S BY DEF PlacesOf
<1>4. QED BY <1>1, <1>2, <1>3

LEMMA CountConcat ==
  ASSUME NEW T, NEW s \in Seq(T), NEW t \in Seq(T), NEW S
  PROVE  CountIn(s \o t, S) = CountIn(s, S) + CountIn(t, S)
<1> DEFINE J == {i \in Len(s) + 1 .. Len(s) + Len(t) : t[i - Len(s)] \in S}
           f == [j \in PlacesOf(t, S) |-> j + Len(s)]
<1>1. /\ Len(s) \in Nat /\ Len(t) \in Nat /\ Len(s \o t) = Len(s) + Len(t)
      /\ \A i \in 1 .. Len(s) + Len(t) :
           (s \o t)[i] = IF i <= Len(s) THEN s[i] ELSE t[i - Len(s)]
  BY ConcatProperties
<1>2. PlacesOf(s \o t, S) = PlacesOf(s, S) \cup J BY <1>1 DEF PlacesOf
<1>3. PlacesOf(s, S) \cap J = {} BY <1>1 DEF PlacesOf
<1>4. f \in Bijection(PlacesOf(t, S), J)
  <2>1. \A j \in PlacesOf(t, S) : j \in 1 .. Len(t) BY DEF PlacesOf
  <2>2. f \in [PlacesOf(t, S) -> J] BY <1>1, <2>1 DEF PlacesOf
  <2>3. \A i, j \in PlacesOf(t, S) : f[i] = f[j] => i = j BY <1>1, <2>1
  <2>4. ASSUME NEW i \in J PROVE \E j \in PlacesOf(t, S) : f[j] = i
    <3>1. i - Len(s) \in PlacesOf(t, S) BY <1>1 DEF PlacesOf
    <3>2. f[i - Len(s)] = i BY <1>1, <3>1
    <3>3. QED BY <3>1, <3>2
  <2> HIDE DEF f, J
  <2>5. QED BY <2>2, <2>3, <2>4, Fun_IsBij
<1> HIDE DEF f
<1>5. IsFiniteSet(PlacesOf(s, S)) /\ IsFiniteSet(PlacesOf(t, S)) BY CountIsNat
<1>6. ExistsBijection(PlacesOf(t, S), J) BY <1>4, Fun_ExistsBij
<1>7. IsFiniteSet(J) /\ Cardinality(J) = Cardinality(PlacesOf(t, S))
  <2> HIDE DEF J
  <2>1. QED BY <1>5, <1>6, FS_Bijection
<1> HIDE DEF J
<1>8. Cardinality(PlacesOf(s, S) \cap J) = 0 BY <1>3, FS_EmptySet
<1>9. Cardinality(PlacesOf(s, S) \cup J) =
        Cardinality(PlacesOf(s, S)) + Cardinality(J) - Cardinality(PlacesOf(s, S) \cap J)
  BY <1>5, <1>7, FS_Union
<1>10. Cardinality(PlacesOf(s, S)) \in Nat /\ Cardinality(J) \in Nat
  BY <1>5, <1>7, FS_CardinalityType
<1>11. QED BY <1>2, <1>7, <1>8, <1>9, <1>10 DEF CountIn

LEMMA CountOne ==
  ASSUME NEW x, NEW S
  PROVE  CountIn(<<x>>, S) = One(x \in S)
<1>1. Len(<<x>>) = 1 /\ <<x>>[1] = x OBVIOUS
<1>2. CASE x \in S
  <2>1. PlacesOf(<<x>>, S) = {1} BY <1>1, <1>2 DEF PlacesOf
  <2>2. QED BY <1>2, <2>1, FS_Singleton DEF CountIn, One
<1>3. CASE x \notin S
  <2>1. PlacesOf(<<x>>, S) = {} BY <1>1, <1>3 DEF PlacesOf
  <2>2. QED BY <1>3, <2>1, FS_EmptySet DEF CountIn, One
<1>4. QED BY <1>2, <1>3

LEMMA CountNone ==
  ASSUME NEW S
  PROVE  CountIn(<<>>, S) = 0
<1>1. Len(<<>>) = 0 OBVIOUS
<1>2. PlacesOf(<<>>, S) = {} BY <1>1 DEF PlacesOf
<1>3. QED BY <1>2, FS_EmptySet DEF CountIn

LEMMA CountAppend ==
  ASSUME NEW T, NEW s \in Seq(T), NEW x \in T, NEW S
  PROVE  CountIn(Append(s, x), S) = CountIn(s, S) + One(x \in S)
<1>1. Append(s, x) = s \o <<x>> /\ <<x>> \in Seq(T) OBVIOUS
<1>2. CountIn(s \o <<x>>, S) = CountIn(s, S) + CountIn(<<x>>, S) BY <1>1, CountConcat
<1>3. QED BY <1>1, <1>2, CountOne

LEMMA CountTail ==
  ASSUME NEW T, NEW s \in Seq(T), s # <<>>, NEW S
  PROVE  CountIn(Tail(s), S) = CountIn(s, S) - One(Head(s) \in S)
<1>1. Tail(s) \in Seq(T) /\ <<Head(s)>> \in Seq(T) /\ s = <<Head(s)>> \o Tail(s)
  OBVIOUS
<1>2. CountIn(s, S) = CountIn(<<Head(s)>>, S) + CountIn(Tail(s), S)
  BY <1>1, CountConcat
<1>3. CountIn(Tail(s), S) \in Nat BY <1>1, CountIsNat
<1>4. CountIn(<<Head(s)>>, S) = One(Head(s) \in S) BY CountOne
<1>5. One(Head(s) \in S) \in Nat BY DEF One
<1>6. QED BY <1>2, <1>3, <1>4, <1>5

LEMMA CountWithout ==
  ASSUME NEW T, NEW s \in Seq(T), NEW i \in 1 .. Len(s), NEW S
  PROVE  CountIn(SubSeq(s, 1, i - 1) \o SubSeq(s, i + 1, Len(s)), S) =
           CountIn(s, S) - One(s[i] \in S)
<1> DEFINE front == SubSeq(s, 1, i - 1)
           back == SubSeq(s, i + 1, Len(s))
<1>1. front \in Seq(T) /\ back \in Seq(T) /\ <<s[i]>> \in Seq(T) OBVIOUS
<1>2. s = (front \o <<s[i]>>) \o back
  <2>1. Len(s) \in Nat /\ Len(front) = i - 1 /\ Len(back) = Len(s) - i OBVIOUS
  <2>2. /\ \A j \in 1 .. i - 1 : front[j] = s[j]
        /\ \A j \in 1 .. Len(s) - i : back[j] = s[j + i]
    OBVIOUS
  <2> HIDE DEF front, back
  <2>3. /\ front \o <<s[i]>> \in Seq(T) /\ Len(front \o <<s[i]>>) = i
        /\ \A j \in 1 .. i : (front \o <<s[i]>>)[j] = s[j]
    BY <1>1, <2>1, <2>2
  <2> DEFINE both == front \o <<s[i]>>
  <2>6. both \in Seq(T) /\ Len(both) = i /\ \A j \in 1 .. i : both[j] = s[j] BY <2>3
  <2> HIDE DEF both
  <2>7. /\ both \o back \in Seq(T) /\ Len(both \o back) = Len(both) + Len(back)
        /\ \A j \in 1 .. Len(both) + Len(back) :
             (both \o back)[j] = IF j <= Len(both) THEN both[j] ELSE back[j - Len(both)]
    BY <1>1, <2>6, ConcatProperties
  <2>4. /\ both \o back \in Seq(T) /\ Len(both \o back) = Len(s)
        /\ \A j \in 1 .. Len(s) : (both \o back)[j] = s[j]
    <3>1. /\ both \o back \in Seq(T) /\ Len(both \o back) = Len(s)
          /\ \A j \in 1 .. Len(s) :
               (both \o back)[j] = IF j <= i THEN both[j] ELSE back[j - i]
      BY <2>1, <2>6, <2>7
    <3>2. ASSUME NEW j \in 1 .. Len(s) PROVE (both \o back)[j] = s[j]
      <4>1. CASE j <= i BY <2>1, <2>6, <3>1, <4>1
      <4>2. CASE j > i
        <5>1. back[j - i] = s[(j - i) + i] BY <2>1, <2>2, <4>2
        <5>2. (j - i) + i = j OBVIOUS
        <5>3. QED BY <3>1, <4>2, <5>1, <5>2
      <4>3. i \in Int /\ j \in Int BY <2>1
      <4>4. j <= i \/ j > i BY <4>3
      <4>5. QED BY <4>1, <4>2, <4>4
    <3>3. QED BY <3>1, <3>2
  <2>5. both \o back = s BY <2>4, SeqEqual
  <2>8. QED BY <2>5 DEF both
<1> HIDE DEF front, back
<1>3. front \o <<s[i]>> \in Seq(T) BY <1>1
<1>4. CountIn((front \o <<s[i]>>) \o back, S) =
        CountIn(front \o <<s[i]>>, S) + CountIn(back, S)
  BY <1>1, <1>3, CountConcat
<1>5. CountIn(front \o <<s[i]>>, S) = CountIn(front, S) + CountIn(<<s[i]>>, S)
  BY <1>1, CountConcat
<1>6. CountIn(front \o back, S) = CountIn(front, S) + CountIn(back, S)
  BY <1>1, CountConcat
<1>7. CountIn(<<s[i]>>, S) = One(s[i] \in S) BY CountOne
<1>8. CountIn(front, S) \in Nat /\ CountIn(back, S) \in Nat /\ One(s[i] \in S) \in Nat
  BY <1>1, CountIsNat DEF One
<1>9. CountIn(s, S) = CountIn((front \o <<s[i]>>) \o back, S) BY <1>2
<1>10. QED BY <1>4, <1>5, <1>6, <1>7, <1>8, <1>9 DEF front, back
=============================================================================
