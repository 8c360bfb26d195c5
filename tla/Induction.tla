------------------------------ MODULE Induction ------------------------------
(***************************************************************************)
(* Induction over the natural numbers, stated for sets, and what it gives  *)
(* of recursive functions and of sequences.  The library's NatInduction    *)
(* takes a predicate as a parameter; a set can be given to every prover.   *)
(***************************************************************************)
EXTENDS Naturals, SequencesExt, WellFoundedInduction, TLAPS

\* A set of naturals that is not empty has a least element.
LEMMA LeastElement ==
  ASSUME NEW T, T \subseteq Nat, T # {}
  PROVE  \E n \in T : \A m \in T : n <= m
  <1> DEFINE R == {p \in Nat \X Nat : p[1] < p[2]}
  <1>1. IsWellFoundedOn(R, Nat)
    BY NatLessThanWellFounded DEF OpToRel
  <1>2. PICK n \in T : \A m \in T : <<m, n>> \notin R
    <2> HIDE DEF R
    <2> QED
      BY <1>1, WFMin
  <1>3. ASSUME NEW m \in T PROVE n <= m
    <2>1. m \in Nat /\ n \in Nat /\ (m < n => <<m, n>> \in R)
      OBVIOUS
    <2> QED
      BY <1>2, <2>1
  <1> QED
    BY <1>3

\* A set that holds 0, and with a number the next one, holds every natural number.
LEMMA SetInduction ==
  ASSUME NEW S, 0 \in S, \A n \in Nat : n \in S => n + 1 \in S
  PROVE  Nat \subseteq S
  <1> SUFFICES ASSUME Nat \ S # {} PROVE FALSE
    OBVIOUS
  <1>1. PICK n \in Nat \ S : \A m \in Nat \ S : n <= m
    BY LeastElement
  <1>2. n # 0 /\ n - 1 \in Nat
    BY <1>1
  <1>3. n - 1 \in S
    BY <1>1, <1>2
  <1> QED
    BY <1>2, <1>3

-----------------------------------------------------------------------------
(* Recursive functions.                                                     *)

\* The functions that make, of n and of what was made before, what is made by step n.
Steps(N, V) == [(1..N) \X V -> V]

\* A function is made in N steps, each from what the one before it made.
LEMMA StepByStep ==
  ASSUME NEW N \in Nat, NEW V, NEW base \in V, NEW step \in Steps(N, V)
  PROVE  \E f \in [0..N -> V] : f[0] = base /\ \A n \in 1..N : f[n] = step[<<n, f[n - 1]>>]
  <1> DEFINE Upto(n) == \E f \in [0..n -> V] :
                          f[0] = base /\ \A i \in 1..n : f[i] = step[<<i, f[i - 1]>>]
             T == {n \in Nat : n <= N => Upto(n)}
  <1>1. 0 \in T
    <2> DEFINE g == [i \in 0..0 |-> base]
    <2>1. g \in [0..0 -> V] /\ g[0] = base
      OBVIOUS
    <2>2. \A i \in 1..0 : FALSE
      OBVIOUS
    <2> HIDE DEF g
    <2>3. Upto(0)
      <3>1. \A i \in 1..0 : g[i] = step[<<i, g[i - 1]>>]
        BY <2>2
      <3> QED
        BY <2>1, <3>1
    <2> QED
      BY <2>3
  <1>2. ASSUME NEW n \in Nat, n \in T PROVE n + 1 \in T
    <2> SUFFICES ASSUME n + 1 <= N PROVE Upto(n + 1)
      OBVIOUS
    <2>1. PICK f \in [0..n -> V] : f[0] = base /\ \A i \in 1..n : f[i] = step[<<i, f[i - 1]>>]
      BY <1>2
    <2>2. n + 1 \in 1..N /\ f[n] \in V
      OBVIOUS
    <2>3. step[<<n + 1, f[n]>>] \in V
      BY <2>2 DEF Steps
    <2> DEFINE g == [i \in 0..(n + 1) |-> IF i = n + 1 THEN step[<<n + 1, f[n]>>] ELSE f[i]]
    <2>4. \A i \in 0..(n + 1) : i # n + 1 => i \in 0..n
      OBVIOUS
    <2>5. g \in [0..(n + 1) -> V]
      BY <2>3, <2>4
    <2>6. g[0] = base
      BY <2>1
    <2>7. ASSUME NEW i \in 1..(n + 1) PROVE g[i] = step[<<i, g[i - 1]>>]
      <3>1. i \in 0..(n + 1) /\ i - 1 \in 0..(n + 1) /\ i - 1 # n + 1
        OBVIOUS
      <3>2. g[i - 1] = f[i - 1] /\ g[i] = IF i = n + 1 THEN step[<<n + 1, f[n]>>] ELSE f[i]
        BY <3>1
      <3>3. CASE i = n + 1
        <4>1. i - 1 = n
          BY <3>3
        <4> QED
          BY <3>2, <3>3, <4>1
      <3>4. CASE i # n + 1
        <4>1. i \in 1..n
          BY <3>4
        <4> QED
          BY <2>1, <3>2, <3>4, <4>1
      <3> QED
        BY <3>3, <3>4
    <2> HIDE DEF g
    <2> QED
      BY <2>5, <2>6, <2>7
  <1> HIDE DEF T
  <1>3. N \in T
    BY <1>1, <1>2, SetInduction
  <1> QED
    BY <1>3 DEF T

-----------------------------------------------------------------------------
(* Sequences.                                                               *)

LEMMA ConcatElements ==
  ASSUME NEW S, NEW s \in Seq(S), NEW t \in Seq(S)
  PROVE  /\ s \o t \in Seq(S)
         /\ ToSet(s \o t) = ToSet(s) \cup ToSet(t)
         /\ IsInjective(s) /\ IsInjective(t) /\ ToSet(s) \cap ToSet(t) = {} => IsInjective(s \o t)
  <1>1. /\ s \o t \in Seq(S) /\ Len(s \o t) = Len(s) + Len(t) /\ Len(s) \in Nat /\ Len(t) \in Nat
        /\ \A i \in 1..(Len(s) + Len(t)) : (s \o t)[i] = IF i <= Len(s) THEN s[i] ELSE t[i - Len(s)]
        /\ DOMAIN (s \o t) = 1..(Len(s) + Len(t)) /\ DOMAIN s = 1..Len(s) /\ DOMAIN t = 1..Len(t)
    OBVIOUS
  <1> DEFINE c == s \o t
             m == Len(s)
             n == Len(t)
  <1>2. \A i \in 1..m : i \in 1..(m + n) /\ c[i] = s[i]
    BY <1>1
  <1>3. \A i \in 1..n : m + i \in 1..(m + n) /\ c[m + i] = t[i]
    BY <1>1
  <1>4. \A i \in 1..(m + n) : (i \in 1..m /\ c[i] = s[i]) \/ (i - m \in 1..n /\ c[i] = t[i - m])
    BY <1>1
  <1> HIDE DEF c, m, n
  <1>5. ToSet(c) = ToSet(s) \cup ToSet(t)
    <2>1. ToSet(c) \subseteq ToSet(s) \cup ToSet(t)
      BY <1>1, <1>4 DEF ToSet, c, m, n
    <2>2. ToSet(s) \subseteq ToSet(c)
      BY <1>1, <1>2 DEF ToSet, c, m, n
    <2>3. ToSet(t) \subseteq ToSet(c)
      <3> SUFFICES ASSUME NEW i \in 1..n PROVE t[i] \in ToSet(c)
        BY <1>1 DEF ToSet, n
      <3> QED
        BY <1>1, <1>3 DEF ToSet, c, m, n
    <2> QED
      BY <2>1, <2>2, <2>3
  <1>6. ASSUME IsInjective(s), IsInjective(t), ToSet(s) \cap ToSet(t) = {} PROVE IsInjective(c)
    <2> SUFFICES ASSUME NEW i \in 1..(m + n), NEW j \in 1..(m + n), c[i] = c[j] PROVE i = j
      BY <1>1 DEF IsInjective, c, m, n
    <2>1. CASE i \in 1..m /\ j \in 1..m /\ c[i] = s[i] /\ c[j] = s[j]
      BY <1>1, <1>6, <2>1 DEF IsInjective, m
    <2>2. CASE i - m \in 1..n /\ j - m \in 1..n /\ c[i] = t[i - m] /\ c[j] = t[j - m]
      <3>1. i - m = j - m
        BY <1>1, <1>6, <2>2 DEF IsInjective, n
      <3> QED
        BY <1>1, <3>1 DEF m, n
    <2>3. ASSUME NEW x \in 1..m, NEW y \in 1..n PROVE s[x] # t[y]
      BY <1>1, <1>6, <2>3 DEF ToSet, m, n
    <2> QED
      BY <1>4, <2>1, <2>2, <2>3
  <1> QED
    BY <1>1, <1>5, <1>6 DEF c

\* FlattenSeq, one sequence at a time.
LEMMA FlattenSteps ==
  ASSUME NEW S, NEW seqs \in Seq(Seq(S))
  PROVE  \E f \in [0..Len(seqs) -> Seq(S)] :
           /\ f[0] = <<>>
           /\ \A n \in 1..Len(seqs) : f[n] = f[n - 1] \o seqs[n]
           /\ FlattenSeq(seqs) = f[Len(seqs)]
  <1> DEFINE N == Len(seqs)
             V == Seq(S)
             step == [x \in (1..N) \X V |-> x[2] \o seqs[x[1]]]
  <1>1. N \in Nat /\ <<>> \in V /\ \A n \in 1..N : seqs[n] \in V
    OBVIOUS
  <1>3. \A n \in 1..N, v \in V : step[<<n, v>>] = v \o seqs[n]
    OBVIOUS
  <1>2. step \in Steps(N, V)
    BY <1>1 DEF Steps
  <1> HIDE DEF step
  <1>4. PICK f \in [0..N -> V] : f[0] = <<>> /\ \A n \in 1..N : f[n] = step[<<n, f[n - 1]>>]
    <2> DEFINE base == <<>>
    <2>1. N \in Nat /\ base \in V
      BY <1>1
    <2> HIDE DEF N, V, base
    <2>2. \E f \in [0..N -> V] : f[0] = base /\ \A n \in 1..N : f[n] = step[<<n, f[n - 1]>>]
      BY <2>1, <1>2, StepByStep, SMTT(30)
    <2> QED
      BY <2>2 DEF base
  <1>5. \A n \in 1..N : f[n - 1] \in V /\ f[n] = f[n - 1] \o seqs[n]
    <2> SUFFICES ASSUME NEW n \in 1..N PROVE f[n - 1] \in V /\ f[n] = f[n - 1] \o seqs[n]
      OBVIOUS
    <2>1. n - 1 \in 0..N
      BY <1>1
    <2> QED
      BY <1>3, <1>4, <2>1
  <1>6. FlattenSeq(seqs) = f[N]
    <2>1. CASE N = 0
      BY <1>4, <2>1 DEF FlattenSeq
    <2>2. CASE N # 0
      <3> DEFINE Def(g) == [i \in 1..N |-> IF i = 1 THEN seqs[i] ELSE g[i - 1] \o seqs[i]]
                 h == [i \in 1..N |-> f[i]]
                 flat == CHOOSE g : g = Def(g)
      <3>1. FlattenSeq(seqs) = flat[N]
        BY <2>2 DEF FlattenSeq
      <3>2. h = Def(h)
        <4> SUFFICES ASSUME NEW i \in 1..N PROVE h[i] = IF i = 1 THEN seqs[i] ELSE h[i - 1] \o seqs[i]
          OBVIOUS
        <4>1. CASE i = 1
          <5>0. f[i] = f[i - 1] \o seqs[i]
            BY <1>5
          <5>2. i - 1 = 0
            BY <4>1
          <5>1. f[1] = <<>> \o seqs[1]
            BY <1>4, <4>1, <5>0, <5>2
          <5> QED
            BY <1>1, <4>1, <5>1
        <4>2. CASE i # 1
          <5>1. i - 1 \in 1..N
            BY <1>1, <4>2
          <5> QED
            BY <1>5, <4>2, <5>1
        <4> QED
          BY <4>1, <4>2
      <3>3. flat = Def(flat)
        BY <3>2
      <3> HIDE DEF flat, h
      <3> DEFINE T == {n \in Nat : n + 1 \in 1..N => flat[n + 1] = f[n + 1]}
      <3>4. 0 \in T
        <4>1. flat[1] = seqs[1]
          BY <1>1, <2>2, <3>3
        <4>a. 1 \in 1..N /\ 1 - 1 = 0
          BY <1>1, <2>2
        <4>b. f[1] = f[1 - 1] \o seqs[1]
          BY <1>5, <4>a
        <4>2. f[1] = <<>> \o seqs[1]
          BY <1>4, <4>a, <4>b
        <4> QED
          BY <1>1, <2>2, <4>1, <4>2
      <3>5. ASSUME NEW n \in Nat, n \in T PROVE n + 1 \in T
        <4> SUFFICES ASSUME n + 1 + 1 \in 1..N PROVE flat[n + 1 + 1] = f[n + 1 + 1]
          OBVIOUS
        <4>1. n + 1 \in 1..N /\ n + 1 + 1 # 1 /\ (n + 1 + 1) - 1 = n + 1
          BY <1>1
        <4>2. flat[n + 1 + 1] = flat[n + 1] \o seqs[n + 1 + 1]
          BY <3>3, <4>1
        <4>3. f[n + 1 + 1] = f[n + 1] \o seqs[n + 1 + 1]
          BY <1>5, <4>1
        <4> QED
          BY <3>5, <4>1, <4>2, <4>3
      <3> HIDE DEF T
      <3>6. N - 1 \in T
        <4>1. Nat \subseteq T
          BY <3>4, <3>5, SetInduction
        <4> QED
          BY <1>1, <2>2, <4>1
      <3> QED
        BY <1>1, <2>2, <3>1, <3>6 DEF T
    <2> QED
      BY <2>1, <2>2
  <1>7. f \in [0..Len(seqs) -> Seq(S)] /\ f[0] = <<>> /\ FlattenSeq(seqs) = f[Len(seqs)]
    BY <1>4, <1>6
  <1>8. \A n \in 1..Len(seqs) : f[n] = f[n - 1] \o seqs[n]
    BY <1>5
  <1> HIDE DEF N, V
  <1> QED
    BY <1>7, <1>8

\* What FlattenSeq yields: the elements of the parts; each once, when no part has one twice and no
\* two parts share one.
LEMMA FlattenElements ==
  ASSUME NEW S, NEW seqs \in Seq(Seq(S))
  PROVE  /\ FlattenSeq(seqs) \in Seq(S)
         /\ \A x : x \in ToSet(FlattenSeq(seqs)) <=> \E i \in 1..Len(seqs) : x \in ToSet(seqs[i])
         /\ /\ \A i \in 1..Len(seqs) : IsInjective(seqs[i])
            /\ \A i, j \in 1..Len(seqs) : i # j => ToSet(seqs[i]) \cap ToSet(seqs[j]) = {}
            => IsInjective(FlattenSeq(seqs))
  <1> DEFINE N == Len(seqs)
             V == Seq(S)
             Apart == /\ \A i \in 1..Len(seqs) : IsInjective(seqs[i])
                      /\ \A i, j \in 1..Len(seqs) : i # j => ToSet(seqs[i]) \cap ToSet(seqs[j]) = {}
  <1>1. N \in Nat /\ \A n \in 1..N : seqs[n] \in V
    OBVIOUS
  <1>2. PICK f \in [0..N -> V] : /\ f[0] = <<>>
                                 /\ \A n \in 1..N : f[n] = f[n - 1] \o seqs[n]
                                 /\ FlattenSeq(seqs) = f[N]
    BY FlattenSteps
  <1> DEFINE Collects(n) == /\ \A x : x \in ToSet(f[n]) <=> \E i \in 1..n : x \in ToSet(seqs[i])
                            /\ Apart => IsInjective(f[n])
             T == {n \in Nat : n <= N => Collects(n)}
  <1>3. 0 \in T
    <2>1. ToSet(<<>>) = {} /\ IsInjective(<<>>)
      BY DEF ToSet, IsInjective
    <2>2. \A i \in 1..0 : FALSE
      OBVIOUS
    <2> HIDE DEF Apart
    <2>3. Collects(0)
      BY <1>2, <2>1, <2>2
    <2> QED
      BY <2>3
  <1> HIDE DEF Collects
  <1>4. ASSUME NEW n \in Nat, n \in T PROVE n + 1 \in T
    <2> SUFFICES ASSUME n + 1 <= N PROVE Collects(n + 1)
      OBVIOUS
    <2>1. n \in 0..N /\ n + 1 \in 1..N /\ (n + 1) - 1 = n
      BY <1>1
    <2>2. Collects(n)
      BY <1>4, <2>1
    <2>. USE DEF Collects
    <2>3. f[n] \in V /\ seqs[n + 1] \in V /\ f[n + 1] = f[n] \o seqs[n + 1]
      BY <1>1, <1>2, <2>1
    <2>4. /\ ToSet(f[n + 1]) = ToSet(f[n]) \cup ToSet(seqs[n + 1])
          /\ IsInjective(f[n]) /\ IsInjective(seqs[n + 1]) /\ ToSet(f[n]) \cap ToSet(seqs[n + 1]) = {}
             => IsInjective(f[n + 1])
      BY <2>3, ConcatElements
    <2>5. ASSUME NEW x PROVE x \in ToSet(f[n + 1]) <=> \E i \in 1..(n + 1) : x \in ToSet(seqs[i])
      <3>1. x \in ToSet(f[n + 1]) <=> (\E i \in 1..n : x \in ToSet(seqs[i])) \/ x \in ToSet(seqs[n + 1])
        BY <2>2, <2>4
      <3>2. \A i : i \in 1..(n + 1) <=> i \in 1..n \/ i = n + 1
        OBVIOUS
      <3> QED
        BY <3>1, <3>2, Zenon
    <2>6. ASSUME Apart PROVE IsInjective(f[n + 1])
      <3>1. ASSUME NEW x \in ToSet(f[n]), x \in ToSet(seqs[n + 1]) PROVE FALSE
        <4>1. PICK i \in 1..n : x \in ToSet(seqs[i])
          BY <2>2
        <4>2. i \in 1..N /\ i # n + 1
          BY <1>1, <2>1
        <4>3. ToSet(seqs[i]) \cap ToSet(seqs[n + 1]) = {}
          BY <2>1, <2>6, <4>2
        <4> QED
          BY <3>1, <4>1, <4>3
      <3>2. IsInjective(f[n])
        BY <2>2, <2>6
      <3>3. IsInjective(seqs[n + 1])
        BY <2>1, <2>6
      <3> QED
        BY <2>4, <3>1, <3>2, <3>3
    <2> HIDE DEF Apart
    <2> QED
      BY <2>5, <2>6
  <1> HIDE DEF T
  <1>5. N \in T
    BY <1>1, <1>3, <1>4, SetInduction
  <1>6. Collects(N)
    BY <1>1, <1>5 DEF T
  <1> USE DEF Collects
  <1>7. f[N] \in Seq(S)
    BY <1>1
  <1> QED
    BY <1>2, <1>6, <1>7

-----------------------------------------------------------------------------
(* Recursion over a set whose elements have a rank.                         *)

\* A set that holds each element whose elements of lower rank it holds is the whole set.
LEMMA RankInduction ==
  ASSUME NEW F, NEW rank \in [F -> Nat], NEW S,
         \A e \in F : (\A x \in F : rank[x] < rank[e] => x \in S) => e \in S
  PROVE  F \subseteq S
  <1> SUFFICES ASSUME NEW e \in F, e \notin S PROVE FALSE
    OBVIOUS
  <1> DEFINE T == {rank[x] : x \in F \ S}
  <1>1. T \subseteq Nat /\ rank[e] \in T
    OBVIOUS
  <1>2. PICK n \in T : \A m \in T : n <= m
    <2> HIDE DEF T
    <2> QED
      BY <1>1, LeastElement
  <1>3. PICK y \in F \ S : rank[y] = n
    BY <1>2
  <1>4. ASSUME NEW x \in F, rank[x] < rank[y] PROVE x \in S
    <2>1. ASSUME x \notin S PROVE FALSE
      <3>1. rank[x] \in T
        BY <2>1
      <3>2. rank[x] \in Nat /\ rank[y] \in Nat /\ rank[y] <= rank[x]
        BY <1>2, <1>3, <3>1
      <3> QED
        BY <1>4, <3>2
    <2> QED
      BY <2>1
  <1> QED
    BY <1>3, <1>4

\* The functions a recursive definition may have as its value.
Maps(F, V) == [F -> V]

\* A recursive definition, whose value at e depends on values at lower ranks only, defines a function.
LEMMA RankedRecursion ==
  ASSUME NEW F, NEW V, NEW some \in V, NEW rank \in [F -> Nat],
         NEW E \in [Maps(F, V) -> Maps(F, V)],
         \A f, g \in Maps(F, V), e \in F :
            (\A x \in F : rank[x] < rank[e] => f[x] = g[x]) => E[f][e] = E[g][e]
  PROVE  \E f \in Maps(F, V) : f = E[f]
  <1> DEFINE Upto(f, n) == \A e \in F : rank[e] < n => f[e] = E[f][e]
             T == {n \in Nat : \E f \in Maps(F, V) : Upto(f, n)}
  <1>1. 0 \in T
    <2> DEFINE c == [e \in F |-> some]
    <2>1. c \in Maps(F, V)
      BY DEF Maps
    <2>2. \A e \in F : ~(rank[e] < 0)
      OBVIOUS
    <2> QED
      BY <2>1, <2>2
  <1>2. ASSUME NEW n \in Nat, n \in T PROVE n + 1 \in T
    <2>1. PICK f \in Maps(F, V) : Upto(f, n)
      BY <1>2
    <2> DEFINE g == E[f]
    <2>2. g \in Maps(F, V)
      OBVIOUS
    <2>3. \A e \in F : rank[e] < n => g[e] = f[e]
      BY <2>1
    <2>4. ASSUME NEW e \in F, rank[e] < n + 1 PROVE g[e] = E[g][e]
      <3>1. \A x \in F : rank[x] < rank[e] => f[x] = g[x]
        <4> SUFFICES ASSUME NEW x \in F, rank[x] < rank[e] PROVE f[x] = g[x]
          OBVIOUS
        <4>1. rank[x] < n
          BY <2>4
        <4> QED
          BY <2>3, <4>1
      <3> HIDE DEF g
      <3>2. E[f][e] = E[g][e]
        BY <2>2, <3>1
      <3> QED
        BY <3>2 DEF g
    <2> HIDE DEF g
    <2>5. Upto(g, n + 1)
      BY <2>4
    <2> QED
      BY <2>2, <2>5
  <1> HIDE DEF T
  <1>3. Nat \subseteq T
    BY <1>1, <1>2, SetInduction
  <1>4. ASSUME NEW f \in Maps(F, V), NEW g \in Maps(F, V), NEW n \in Nat, Upto(f, n), Upto(g, n),
               NEW e \in F, rank[e] < n
        PROVE  f[e] = g[e]
    <2> DEFINE S == {x \in F : rank[x] < n => f[x] = g[x]}
    <2>1. ASSUME NEW y \in F, \A x \in F : rank[x] < rank[y] => x \in S PROVE y \in S
      <3> SUFFICES ASSUME rank[y] < n PROVE f[y] = g[y]
        OBVIOUS
      <3>1. \A x \in F : rank[x] < rank[y] => f[x] = g[x]
        <4> SUFFICES ASSUME NEW x \in F, rank[x] < rank[y] PROVE f[x] = g[x]
          OBVIOUS
        <4>1. rank[x] < n
          BY <2>1
        <4> QED
          BY <2>1, <4>1
      <3>2. E[f][y] = E[g][y]
        BY <3>1
      <3> QED
        BY <1>4, <3>2
    <2> HIDE DEF S
    <2>2. F \subseteq S
      BY <2>1, RankInduction
    <2> QED
      BY <1>4, <2>2 DEF S
  <1> DEFINE upTo == [n \in Nat |-> CHOOSE f : f \in Maps(F, V) /\ Upto(f, n)]
             limit == [e \in F |-> upTo[rank[e] + 1][e]]
  <1>5. ASSUME NEW n \in Nat PROVE upTo[n] \in Maps(F, V) /\ Upto(upTo[n], n)
    <2>1. \E f : f \in Maps(F, V) /\ Upto(f, n)
      BY <1>3 DEF T
    <2> HIDE DEF Upto
    <2> QED
      BY <2>1
  <1> HIDE DEF upTo
  <1>6. \A e \in F : limit[e] = upTo[rank[e] + 1][e] /\ rank[e] + 1 \in Nat
    OBVIOUS
  <1>7. limit \in Maps(F, V)
    BY <1>5 DEF Maps
  <1> HIDE DEF limit
  <1>8. ASSUME NEW e \in F PROVE limit[e] = E[limit][e]
    <2> DEFINE n == rank[e] + 1
               f == upTo[n]
    <2>1. n \in Nat /\ f \in Maps(F, V) /\ Upto(f, n)
      BY <1>5
    <2>2. ASSUME NEW x \in F, rank[x] < rank[e] PROVE limit[x] = f[x]
      <3> DEFINE m == rank[x] + 1
                 g == upTo[m]
      <3>1. m \in Nat /\ g \in Maps(F, V) /\ Upto(g, m)
        BY <1>5
      <3>2. \A y \in F : rank[y] < m => rank[y] < n
        BY <2>2
      <3>3. Upto(f, m)
        BY <2>1, <3>2
      <3>4. rank[x] < m
        OBVIOUS
      <3> HIDE DEF g, m, f, n
      <3>5. g[x] = f[x]
        BY <1>4, <2>1, <3>1, <3>3, <3>4
      <3> QED
        BY <1>6, <3>5 DEF g, m
    <2>3. rank[e] < n
      OBVIOUS
    <2> HIDE DEF n, f
    <2>4. E[limit][e] = E[f][e]
      BY <1>7, <2>1, <2>2
    <2>5. f[e] = E[f][e]
      BY <2>1, <2>3
    <2> QED
      BY <1>6, <2>4, <2>5 DEF f, n
  <1>9. limit \in [F -> V] /\ E[limit] \in [F -> V]
    BY <1>7 DEF Maps
  <1>10. limit = E[limit]
    BY <1>8, <1>9
  <1> QED
    BY <1>7, <1>10

-----------------------------------------------------------------------------
\* What is true of <<>>, and of s \o t when it is true of s and t, is true of what FlattenSeq makes.
LEMMA FlattenClosed ==
  ASSUME NEW S, NEW G, G \subseteq Seq(S), <<>> \in G, \A s, t \in G : s \o t \in G,
         NEW seqs \in Seq(Seq(S)), \A i \in 1..Len(seqs) : seqs[i] \in G
  PROVE  FlattenSeq(seqs) \in G
  <1> DEFINE N == Len(seqs)
  <1>1. N \in Nat
    OBVIOUS
  <1>2. PICK f \in [0..N -> Seq(S)] : /\ f[0] = <<>>
                                      /\ \A n \in 1..N : f[n] = f[n - 1] \o seqs[n]
                                      /\ FlattenSeq(seqs) = f[N]
    BY FlattenSteps
  <1> DEFINE T == {n \in Nat : n <= N => f[n] \in G}
  <1>3. 0 \in T
    BY <1>2
  <1>4. ASSUME NEW n \in Nat, n \in T PROVE n + 1 \in T
    <2> SUFFICES ASSUME n + 1 <= N PROVE f[n + 1] \in G
      OBVIOUS
    <2>1. n + 1 \in 1..N /\ (n + 1) - 1 = n /\ n <= N
      BY <1>1
    <2>2. f[n] \in G /\ seqs[n + 1] \in G
      BY <1>4, <2>1
    <2>3. f[n + 1] = f[n] \o seqs[n + 1]
      BY <1>2, <2>1
    <2> QED
      BY <2>2, <2>3
  <1> HIDE DEF T
  <1>5. N \in T
    BY <1>1, <1>3, <1>4, SetInduction
  <1> QED
    BY <1>1, <1>2, <1>5 DEF T
=============================================================================
