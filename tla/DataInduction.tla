---------------------------- MODULE DataInduction ----------------------------
(***************************************************************************)
(* Induction over data for the proofs of this project: an induction is the *)
(* absence of a least counterexample, and a function defined by recursion  *)
(* on 0..n is built value by value.  The step of a recursion is a function *)
(* G of the index and the value before.  Then what filtering a sequence    *)
(* with Among keeps.                                                       *)
(***************************************************************************)
EXTENDS Integers, FilterSeq, SequenceTheorems, WellFoundedInduction, TLAPS

(* A set of naturals that is not empty has a least element. *)
LEMMA LeastElement ==
    ASSUME NEW T \in SUBSET Nat, T # {}
    PROVE  \E m \in T : \A k \in T : m <= k
<1>1. PICK m \in T : \A y \in T : ~ (<<y, m>> \in OpToRel(<, Nat))
  BY NatLessThanWellFounded, WFMin, Zenon
<1>2. \A y \in T : ~(y < m)
  BY <1>1, Zenon DEF OpToRel
<1>3. QED
  BY <1>2

(* A set of naturals up to n that is not empty has a greatest element. *)
LEMMA GreatestElement ==
    ASSUME NEW n \in Nat, NEW T \in SUBSET (0 .. n), T # {}
    PROVE  \E m \in T : \A k \in T : k <= m
<1> DEFINE D == {n - k : k \in T}
<1>1. D \in SUBSET Nat /\ D # {}
  <2>1. \A k \in T : n - k \in Nat
    OBVIOUS
  <2>2. PICK k \in T : TRUE
    OBVIOUS
  <2>3. n - k \in D
    OBVIOUS
  <2> QED
    BY <2>1, <2>3
<1>2. PICK d \in D : \A k \in D : d <= k
  BY <1>1, LeastElement
<1>3. PICK m \in T : d = n - m
  BY <1>2
<1>4. \A k \in T : n - k \in D
  OBVIOUS
<1>5. \A k \in T : n - m <= n - k
  BY <1>2, <1>3, <1>4
<1> QED
  BY <1>5

(* What holds of 0 and passes from each number to the next holds up to n. *)
LEMMA Induction ==
    ASSUME NEW n \in Nat, NEW P, 0 \in P, \A k \in 0 .. (n - 1) : k \in P => k + 1 \in P
    PROVE  \A k \in 0 .. n : k \in P
<1> DEFINE T == {k \in 0 .. n : k \notin P}
<1>1. SUFFICES ASSUME T # {} PROVE FALSE
  OBVIOUS
<1>2. T \in SUBSET Nat
  OBVIOUS
<1>3. PICK m \in T : \A k \in T : m <= k
  BY <1>1, <1>2, LeastElement
<1>4. m \in 0 .. n /\ m \notin P /\ m # 0
  BY <1>3
<1>5. m - 1 \in 0 .. (n - 1) /\ m - 1 \notin T
  BY <1>3, <1>4
<1>6. m - 1 \in P
  BY <1>5
<1>7. (m - 1) + 1 \in P
  BY <1>5, <1>6
<1> QED
  BY <1>4, <1>7

(* f has the values in S of the recursion from a with step G up to n. *)
Recurses(S, a, G, n, f) ==
    f \in [0 .. n -> S] /\ f[0] = a /\ \A i \in 1 .. n : f[i] = G[<<i, f[i - 1]>>]

(* A recursion has a value at every index up to n. *)
LEMMA RecursionExists ==
    ASSUME NEW S, NEW a \in S, NEW G \in [Nat \X S -> S], NEW n \in Nat
    PROVE  \E f : Recurses(S, a, G, n, f)
<1> DEFINE P == {m \in Nat : \E f : Recurses(S, a, G, m, f)}
<1>1. 0 \in P
  <2> DEFINE f == [i \in 0 .. 0 |-> a]
  <2>1. Recurses(S, a, G, 0, f)
    BY DEF Recurses
  <2> QED
    BY <2>1
<1>2. ASSUME NEW m \in 0 .. (n - 1), m \in P PROVE m + 1 \in P
  <2>1. PICK f : Recurses(S, a, G, m, f)
    BY <1>2
  <2>2. m \in Nat /\ f \in [0 .. m -> S] /\ f[0] = a /\ \A i \in 1 .. m : f[i] = G[<<i, f[i - 1]>>]
    BY <2>1 DEF Recurses
  <2> DEFINE v == G[<<m + 1, f[m]>>]
             g == [i \in 0 .. (m + 1) |-> IF i <= m THEN f[i] ELSE v]
  <2>3. v \in S
    BY <2>2
  <2>4. g \in [0 .. (m + 1) -> S] /\ g[0] = a
    BY <2>2, <2>3
  <2>5. ASSUME NEW i \in 1 .. (m + 1) PROVE g[i] = G[<<i, g[i - 1]>>]
    <3>1. CASE i <= m
      <4>1. g[i] = f[i] /\ g[i - 1] = f[i - 1] /\ i \in 1 .. m
        BY <2>2, <3>1
      <4> QED
        BY <2>2, <4>1
    <3>2. CASE i = m + 1
      <4>1. g[i] = v /\ g[i - 1] = f[m]
        BY <2>2, <3>2
      <4> QED
        BY <3>2, <4>1
    <3> QED
      BY <2>2, <3>1, <3>2
  <2>6. Recurses(S, a, G, m + 1, g)
    BY <2>4, <2>5 DEF Recurses
  <2> QED
    BY <2>2, <2>6
<1> HIDE DEF P
<1>3. n \in P
  BY <1>1, <1>2, Induction
<1> QED
  BY <1>3 DEF P

(* Two recursions with the same start and the same steps agree. *)
LEMMA RecursionUnique ==
    ASSUME NEW S, NEW a, NEW G, NEW n \in Nat, NEW f, NEW g,
           Recurses(S, a, G, n, f), Recurses(S, a, G, n, g)
    PROVE  \A i \in 0 .. n : f[i] = g[i]
<1> DEFINE P == {i \in 0 .. n : f[i] = g[i]}
<1>1. 0 \in P
  BY DEF Recurses
<1>2. ASSUME NEW k \in 0 .. (n - 1), k \in P PROVE k + 1 \in P
  <2>1. f[k] = g[k] /\ k + 1 \in 1 .. n /\ k + 1 \in 0 .. n /\ (k + 1) - 1 = k
    BY <1>2
  <2>2. f[k + 1] = G[<<k + 1, f[k]>>] /\ g[k + 1] = G[<<k + 1, g[k]>>]
    BY <2>1 DEF Recurses
  <2> QED
    BY <2>1, <2>2
<1> HIDE DEF P
<1>3. \A i \in 0 .. n : i \in P
  BY <1>1, <1>2, Induction
<1> QED
  BY <1>3 DEF P

(* What holds of the empty sequence, and of a longer one if it holds of    *)
(* the one before its last element, holds of every sequence.               *)
LEMMA SeqInduction ==
    ASSUME NEW S, NEW P, <<>> \in P, \A s \in Seq(S) : \A e \in S : s \in P => Append(s, e) \in P
    PROVE  \A s \in Seq(S) : s \in P
<1> SUFFICES ASSUME NEW t \in Seq(S) PROVE t \in P
  OBVIOUS
<1> DEFINE L == {k \in Nat : \A s \in Seq(S) : Len(s) = k => s \in P}
<1>1. 0 \in L
  <2>1. \A s \in Seq(S) : Len(s) = 0 => s = <<>>
    BY EmptySeq
  <2> QED
    BY <2>1
<1>2. ASSUME NEW k \in 0 .. (Len(t) - 1), k \in L PROVE k + 1 \in L
  <2>1. k \in Nat /\ k + 1 \in Nat /\ k + 1 # 0
    OBVIOUS
  <2>2. ASSUME NEW s \in Seq(S), Len(s) = k + 1 PROVE s \in P
    <3>1. s # <<>>
      BY <2>1, <2>2
    <3>2. PICK u \in Seq(S), e \in S : s = Append(u, e)
      BY <3>1, SequenceEmptyOrAppend
    <3>3. Len(s) = Len(u) + 1 /\ Len(u) \in Nat
      BY <3>2, AppendProperties, LenProperties
    <3>4. Len(u) = k
      BY <2>1, <2>2, <3>3
    <3>5. u \in P
      BY <1>2, <3>4
    <3> QED
      BY <3>2, <3>5
  <2> QED
    BY <2>1, <2>2
<1>3. Len(t) \in Nat
  BY LenProperties
<1> HIDE DEF L
<1>4. \A k \in 0 .. (Len(t) - 1) : k \in L => k + 1 \in L
  BY <1>2
<1>5. \A k \in 0 .. Len(t) : k \in L
  BY <1>1, <1>3, <1>4, Induction, Zenon
<1>6. Len(t) \in L
  BY <1>3, <1>5
<1> QED
  BY <1>6 DEF L

------------------------------------------------------------------------------
(* Filtering a sequence *)

(* The recursion of Among, as an equation for its function. *)
Keeps(s, A, f, i) == IF i = 0 THEN <<>> ELSE IF s[i] \in A THEN Append(f[i - 1], s[i]) ELSE f[i - 1]

Filters(s, A, f) == f = [i \in 0 .. Len(s) |-> Keeps(s, A, f, i)]

(* Its step, as a function of the place and of what was kept before it. *)
KeepStep(s, A, T) == [p \in Nat \X Seq(T) |-> IF p[1] \in 1 .. Len(s) /\ s[p[1]] \in A
                                               THEN Append(p[2], s[p[1]]) ELSE p[2]]

(* What was kept at each place is a recursion with that step. *)
KeptAlong(s, A, T, f) == Recurses(Seq(T), <<>>, KeepStep(s, A, T), Len(s), f)

(* The value of the step at a place of the sequence. *)
LEMMA KeepStepAt ==
    ASSUME NEW T, NEW s \in Seq(T), NEW A, NEW i \in 1 .. Len(s), NEW v \in Seq(T)
    PROVE  KeepStep(s, A, T)[<<i, v>>] = IF s[i] \in A THEN Append(v, s[i]) ELSE v
<1>1. <<i, v>> \in Nat \X Seq(T)
  BY LenProperties
<1> QED
  BY <1>1 DEF KeepStep

(* The step yields sequences of the same elements. *)
LEMMA KeepStepType ==
    ASSUME NEW T, NEW s \in Seq(T), NEW A
    PROVE  KeepStep(s, A, T) \in [Nat \X Seq(T) -> Seq(T)]
<1>1. ASSUME NEW i \in Nat, NEW v \in Seq(T)
      PROVE  (IF i \in 1 .. Len(s) /\ s[i] \in A THEN Append(v, s[i]) ELSE v) \in Seq(T)
  BY ElementOfSeq, AppendProperties
<1> QED
  BY <1>1 DEF KeepStep

(* There is such a function. *)
LEMMA KeptExists ==
    ASSUME NEW T, NEW s \in Seq(T), NEW A
    PROVE  \E f : KeptAlong(s, A, T, f)
<1>1. Len(s) \in Nat /\ <<>> \in Seq(T)
  BY LenProperties, EmptySeq
<1> QED
  BY <1>1, KeepStepType, RecursionExists, Zenon DEF KeptAlong

(* Such a function solves the equation of Among ... *)
LEMMA KeptFilters ==
    ASSUME NEW T, NEW s \in Seq(T), NEW A, NEW f, KeptAlong(s, A, T, f)
    PROVE  Filters(s, A, f)
<1>1. ASSUME NEW i \in 0 .. Len(s) PROVE f[i] = Keeps(s, A, f, i)
  <2>1. CASE i = 0
    BY <2>1 DEF KeptAlong, Keeps, Recurses
  <2>2. CASE i # 0
    <3>1. i \in 1 .. Len(s) /\ i - 1 \in 0 .. Len(s)
      BY <2>2, LenProperties
    <3>2. f[i - 1] \in Seq(T) /\ f[i] = KeepStep(s, A, T)[<<i, f[i - 1]>>]
      BY <3>1 DEF KeptAlong, Recurses
    <3> QED
      BY <2>2, <3>1, <3>2, KeepStepAt DEF Keeps
  <2> QED
    BY <2>1, <2>2
<1>2. f = [i \in 0 .. Len(s) |-> f[i]]
  BY DEF KeptAlong, Recurses
<1> QED
  BY <1>1, <1>2 DEF Filters

(* ... and is the only one. *)
LEMMA FiltersKept ==
    ASSUME NEW T, NEW s \in Seq(T), NEW A, NEW f, Filters(s, A, f)
    PROVE  KeptAlong(s, A, T, f)
<1> DEFINE g == [i \in 0 .. Len(s) |-> Keeps(s, A, f, i)]
<1>1. f = g
  BY DEF Filters
<1>2. Len(s) \in Nat
  BY LenProperties
<1>3. ASSUME NEW i \in 0 .. Len(s) PROVE f[i] = Keeps(s, A, f, i)
  <2>1. g[i] = Keeps(s, A, f, i)
    OBVIOUS
  <2> HIDE DEF g
  <2> QED
    BY <1>1, <2>1, Zenon
<1>4. DOMAIN f = 0 .. Len(s) /\ f = [i \in 0 .. Len(s) |-> f[i]]
  <2>1. DOMAIN g = 0 .. Len(s) /\ g = [i \in 0 .. Len(s) |-> g[i]]
    OBVIOUS
  <2> HIDE DEF g
  <2> QED
    BY <1>1, <2>1, Zenon
<1> DEFINE P == {i \in 0 .. Len(s) : f[i] \in Seq(T)}
<1>5. 0 \in P
  <2>1. f[0] = <<>>
    BY <1>2, <1>3 DEF Keeps
  <2>2. f[0] \in Seq(T)
    BY <2>1, EmptySeq, Zenon
  <2>3. 0 \in 0 .. Len(s)
    BY <1>2
  <2> QED
    BY <2>2, <2>3, Zenon
<1>6. ASSUME NEW k \in 0 .. (Len(s) - 1), k \in P PROVE k + 1 \in P
  <2>1. k + 1 \in 0 .. Len(s) /\ k + 1 \in 1 .. Len(s) /\ k + 1 # 0 /\ (k + 1) - 1 = k
    BY <1>2
  <2>2. f[k + 1] = IF s[k + 1] \in A THEN Append(f[k], s[k + 1]) ELSE f[k]
    BY <1>3, <2>1 DEF Keeps
  <2>3. s[k + 1] \in T /\ f[k] \in Seq(T)
    BY <1>6, <2>1, ElementOfSeq
  <2>4. Append(f[k], s[k + 1]) \in Seq(T)
    BY <2>3, AppendProperties
  <2> QED
    BY <2>1, <2>2, <2>3, <2>4
<1> HIDE DEF P
<1>7. \A i \in 0 .. Len(s) : i \in P
  BY <1>2, <1>5, <1>6, Induction
<1>8. \A i \in 0 .. Len(s) : f[i] \in Seq(T)
  BY <1>7 DEF P
<1>9. f \in [0 .. Len(s) -> Seq(T)]
  BY <1>4, <1>8
<1>10. ASSUME NEW i \in 1 .. Len(s) PROVE f[i] = KeepStep(s, A, T)[<<i, f[i - 1]>>]
  <2>1. i \in 0 .. Len(s) /\ i # 0 /\ i - 1 \in 0 .. Len(s)
    BY <1>2
  <2>2. f[i] = IF s[i] \in A THEN Append(f[i - 1], s[i]) ELSE f[i - 1]
    BY <1>3, <2>1 DEF Keeps
  <2>3. f[i - 1] \in Seq(T)
    BY <1>8, <2>1
  <2> QED
    BY <2>2, <2>3, KeepStepAt
<1>11. f[0] = <<>>
  BY <1>2, <1>3 DEF Keeps
<1> QED
  BY <1>9, <1>10, <1>11 DEF KeptAlong, Recurses

(* So Among is the last value of every such function. *)
LEMMA AmongIsKept ==
    ASSUME NEW T, NEW s \in Seq(T), NEW A, NEW f, KeptAlong(s, A, T, f)
    PROVE  Among(s, A) = f[Len(s)]
<1> DEFINE h == CHOOSE g : Filters(s, A, g)
<1>1. Filters(s, A, h)
  BY KeptFilters, Zenon
<1>2. Among(s, A) = h[Len(s)]
  BY Zenon DEF Among, Filters, Keeps
<1> HIDE DEF h
<1>3. KeptAlong(s, A, T, h)
  BY <1>1, FiltersKept
<1>4. Len(s) \in Nat /\ Len(s) \in 0 .. Len(s)
  BY LenProperties
<1>5. \A i \in 0 .. Len(s) : h[i] = f[i]
  <2> DEFINE S == Seq(T)
             a == <<>>
             G == KeepStep(s, A, T)
             n == Len(s)
  <2>1. n \in Nat /\ Recurses(S, a, G, n, f) /\ Recurses(S, a, G, n, h)
    BY <1>3, <1>4, Zenon DEF KeptAlong
  <2> HIDE DEF S, a, G, n
  <2>2. \A i \in 0 .. n : h[i] = f[i]
    BY <2>1, RecursionUnique
  <2> QED
    BY <2>2 DEF n
<1> QED
  BY <1>2, <1>4, <1>5

(* Nothing is kept of the empty sequence. *)
LEMMA AmongEmpty ==
    ASSUME NEW A
    PROVE  Among(<<>>, A) = <<>>
<1>1. <<>> \in Seq({}) /\ Len(<<>>) = 0
  BY EmptySeq
<1>2. PICK f : KeptAlong(<<>>, A, {}, f)
  BY <1>1, KeptExists
<1>3. Among(<<>>, A) = f[0]
  BY <1>1, <1>2, AmongIsKept
<1>4. f[0] = <<>>
  BY <1>2, Zenon DEF KeptAlong, Recurses
<1> QED
  BY <1>3, <1>4

(* One more element is kept or not. *)
LEMMA AmongAppend ==
    ASSUME NEW T, NEW s \in Seq(T), NEW e \in T, NEW A
    PROVE  Among(Append(s, e), A) = IF e \in A THEN Append(Among(s, A), e) ELSE Among(s, A)
<1> DEFINE n == Len(s)
           t == Append(s, e)
<1>1. /\ n \in Nat /\ t \in Seq(T) /\ Len(t) = n + 1 /\ t[n + 1] = e
      /\ \A i \in 1 .. n : t[i] = s[i]
  BY LenProperties, AppendProperties
<1>2. PICK f : KeptAlong(t, A, T, f)
  BY <1>1, KeptExists
<1> HIDE DEF n, t
<1> DEFINE g == [i \in 0 .. n |-> f[i]]
<1>3. \A i \in 0 .. n : g[i] = f[i] /\ f[i] \in Seq(T)
  BY <1>1, <1>2 DEF KeptAlong, Recurses
<1>4. g \in [0 .. n -> Seq(T)]
  BY <1>3
<1> HIDE DEF g
<1>5. g[0] = <<>>
  BY <1>1, <1>2, <1>3 DEF KeptAlong, Recurses
<1>6. ASSUME NEW i \in 1 .. n PROVE g[i] = KeepStep(s, A, T)[<<i, g[i - 1]>>]
  <2>1. i \in 1 .. Len(t) /\ i \in 0 .. n /\ i - 1 \in 0 .. n /\ i \in 1 .. Len(s)
    BY <1>1 DEF n
  <2>2. f[i] = KeepStep(t, A, T)[<<i, f[i - 1]>>]
    BY <1>2, <2>1 DEF KeptAlong, Recurses
  <2>3. g[i] = f[i] /\ g[i - 1] = f[i - 1] /\ f[i - 1] \in Seq(T) /\ t[i] = s[i]
    BY <1>1, <1>3, <2>1
  <2>4. KeepStep(t, A, T)[<<i, f[i - 1]>>] = IF t[i] \in A THEN Append(f[i - 1], t[i]) ELSE f[i - 1]
    BY <1>1, <2>1, <2>3, KeepStepAt
  <2>5. KeepStep(s, A, T)[<<i, f[i - 1]>>] = IF s[i] \in A THEN Append(f[i - 1], s[i]) ELSE f[i - 1]
    BY <2>1, <2>3, KeepStepAt
  <2> QED
    BY <2>2, <2>3, <2>4, <2>5
<1>7. KeptAlong(s, A, T, g)
  BY <1>4, <1>5, <1>6 DEF KeptAlong, Recurses, n
<1>8. Among(s, A) = f[n] /\ f[n] \in Seq(T)
  BY <1>1, <1>3, <1>7, AmongIsKept DEF n
<1>9. Among(t, A) = f[n + 1]
  BY <1>1, <1>2, AmongIsKept
<1>10. f[n + 1] = IF e \in A THEN Append(f[n], e) ELSE f[n]
  <2>1. n + 1 \in 1 .. Len(t) /\ (n + 1) - 1 = n
    BY <1>1
  <2>2. f[n + 1] = KeepStep(t, A, T)[<<n + 1, f[n]>>]
    BY <1>2, <2>1 DEF KeptAlong, Recurses
  <2> QED
    BY <1>1, <1>8, <2>1, <2>2, KeepStepAt
<1> QED
  BY <1>8, <1>9, <1>10 DEF t

(* A kept element is one of the sequence. *)
LEMMA AmongType ==
    ASSUME NEW T, NEW s \in Seq(T), NEW A
    PROVE  Among(s, A) \in Seq(T)
<1>1. PICK f : KeptAlong(s, A, T, f)
  BY KeptExists
<1>2. Among(s, A) = f[Len(s)] /\ Len(s) \in Nat
  BY <1>1, AmongIsKept, LenProperties
<1>3. f \in [0 .. Len(s) -> Seq(T)]
  BY <1>1, Zenon DEF KeptAlong, Recurses
<1> QED
  BY <1>2, <1>3

(* Appending to the second of two sequences is appending to both. *)
LEMMA ConcatAppend ==
    ASSUME NEW T, NEW s \in Seq(T), NEW u \in Seq(T), NEW e \in T
    PROVE  s \o Append(u, e) = Append(s \o u, e)
<1>1. <<e>> \in Seq(T)
  OBVIOUS
<1>2. Append(u, e) = u \o <<e>> /\ s \o u \in Seq(T)
  BY AppendIsConcat, ConcatProperties
<1>3. Append(s \o u, e) = (s \o u) \o <<e>>
  BY <1>2, AppendIsConcat
<1> QED
  BY <1>1, <1>2, <1>3, ConcatAssociative

(* Filtering two sequences one after the other. *)
LEMMA AmongConcat ==
    ASSUME NEW T, NEW s \in Seq(T), NEW u \in Seq(T), NEW A
    PROVE  Among(s \o u, A) = Among(s, A) \o Among(u, A)
<1> DEFINE P == {v \in Seq(T) : Among(s \o v, A) = Among(s, A) \o Among(v, A)}
<1>0. Among(s, A) \in Seq(T)
  BY AmongType
<1>1. <<>> \in P
  <2>1. <<>> \in Seq(T) /\ s \o <<>> = s /\ Among(s, A) \o <<>> = Among(s, A)
    BY <1>0, EmptySeq, ConcatEmptySeq
  <2> QED
    BY <2>1, AmongEmpty
<1>2. ASSUME NEW v \in Seq(T), NEW e \in T, v \in P PROVE Append(v, e) \in P
  <2> DEFINE a == Among(s, A)
             b == Among(v, A)
             c == s \o v
  <2>1. a \in Seq(T) /\ b \in Seq(T) /\ c \in Seq(T) /\ Append(v, e) \in Seq(T)
    BY AmongType, ConcatProperties, AppendProperties
  <2>2. s \o Append(v, e) = Append(c, e)
    BY ConcatAppend
  <2>3. Among(c, A) = a \o b
    BY <1>2
  <2>4. Among(Append(c, e), A) = IF e \in A THEN Append(a \o b, e) ELSE a \o b
    <3>0. e \in T /\ c \in Seq(T)
      BY <1>2, <2>1
    <3> HIDE DEF a, b, c, P
    <3>1. Among(Append(c, e), A) = IF e \in A THEN Append(Among(c, A), e) ELSE Among(c, A)
      BY <3>0, AmongAppend, Zenon
    <3> QED
      BY <2>3, <3>1, Zenon
  <2>5. Among(Append(v, e), A) = IF e \in A THEN Append(b, e) ELSE b
    BY AmongAppend
  <2>6. a \o Append(b, e) = Append(a \o b, e)
    BY <2>1, ConcatAppend
  <2> HIDE DEF a, b, c
  <2>7. Among(s \o Append(v, e), A) = a \o Among(Append(v, e), A)
    BY <2>2, <2>4, <2>5, <2>6
  <2> QED
    BY <2>1, <2>7, Zenon DEF a
<1> HIDE DEF P
<1>3. u \in P
  BY <1>1, <1>2, SeqInduction
<1> QED
  BY <1>3 DEF P

(* Filtering twice is filtering once by the smaller set. *)
LEMMA AmongAmong ==
    ASSUME NEW T, NEW s \in Seq(T), NEW A, NEW B, \A e \in T : e \in B => e \in A
    PROVE  Among(Among(s, A), B) = Among(s, B)
<1> DEFINE P == {v \in Seq(T) : Among(Among(v, A), B) = Among(v, B)}
<1>1. <<>> \in P
  BY EmptySeq, AmongEmpty
<1>2. ASSUME NEW v \in Seq(T), NEW e \in T, v \in P PROVE Append(v, e) \in P
  <2> DEFINE a == Among(v, A)
             w == Append(v, e)
  <2>1. a \in Seq(T) /\ w \in Seq(T)
    BY AmongType, AppendProperties
  <2>2. Among(a, B) = Among(v, B)
    BY <1>2
  <2>3. Among(w, A) = IF e \in A THEN Append(a, e) ELSE a
    BY AmongAppend
  <2>4. Among(w, B) = IF e \in B THEN Append(Among(v, B), e) ELSE Among(v, B)
    BY AmongAppend
  <2> HIDE DEF a, w
  <2>5. Among(Append(a, e), B) = IF e \in B THEN Append(Among(a, B), e) ELSE Among(a, B)
    BY <2>1, AmongAppend
  <2>6. Among(Among(w, A), B) = Among(w, B)
    BY <2>2, <2>3, <2>4, <2>5
  <2> QED
    BY <2>1, <2>6, Zenon DEF w
<1> HIDE DEF P
<1>3. s \in P
  BY <1>1, <1>2, SeqInduction
<1> QED
  BY <1>3 DEF P

(* What is kept is in the set. *)
LEMMA AmongMember ==
    ASSUME NEW T, NEW s \in Seq(T), NEW A
    PROVE  Among(s, A) \in Seq(A)
<1> DEFINE P == {v \in Seq(T) : Among(v, A) \in Seq(A)}
<1>1. <<>> \in P
  BY EmptySeq, AmongEmpty
<1>2. ASSUME NEW v \in Seq(T), NEW e \in T, v \in P PROVE Append(v, e) \in P
  <2>1. Append(v, e) \in Seq(T) /\ Among(v, A) \in Seq(A)
    BY <1>2, AppendProperties
  <2>2. Among(Append(v, e), A) = IF e \in A THEN Append(Among(v, A), e) ELSE Among(v, A)
    BY AmongAppend
  <2>3. Among(Append(v, e), A) \in Seq(A)
    BY <2>1, <2>2, AppendProperties
  <2> QED
    BY <2>1, <2>3, Zenon
<1> HIDE DEF P
<1>3. s \in P
  BY <1>1, <1>2, SeqInduction
<1> QED
  BY <1>3 DEF P

(* What is left of the first part of a concatenation. *)
LEMMA FirstPart ==
    ASSUME NEW T, NEW s \in Seq(T), NEW u \in Seq(T)
    PROVE  SubSeq(s \o u, 1, Len(s \o u) - Len(u)) = s
<1>1. Len(s) \in Nat /\ Len(u) \in Nat /\ Len(s \o u) = Len(s) + Len(u) /\ s \o u \in Seq(T)
  BY LenProperties, ConcatProperties
<1>2. Len(s \o u) - Len(u) = Len(s)
  BY <1>1
<1>3. CASE s = <<>>
  <2>1. Len(s) = 0
    BY <1>3, EmptySeq
  <2>2. SubSeq(s \o u, 1, 0) = <<>>
    BY SubSeqEmpty
  <2> QED
    BY <1>2, <1>3, <2>1, <2>2
<1>4. CASE s # <<>>
  <2>1. Len(s) \in 1 .. Len(s) /\ 1 \in 1 .. Len(s)
    BY <1>1, <1>4, EmptySeq
  <2>2. SubSeq(s \o u, 1, Len(s)) = SubSeq(s, 1, Len(s))
    BY <2>1, SubSeqOfConcat1
  <2> QED
    BY <1>2, <2>2, SubSeqFull
<1> QED
  BY <1>3, <1>4

(* The bounded sequences are sequences. *)
LEMMA SeqUpToSeq == ASSUME NEW S, NEW max \in Nat PROVE SeqUpTo(S, max) \subseteq Seq(S)
BY DEF SeqUpTo

==============================================================================
