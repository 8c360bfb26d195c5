---------------------------- MODULE ServiceProofs ----------------------------
(***************************************************************************)
(* Proofs about one run of the copy command (Copy.tla) and about the       *)
(* readers of image layouts (OciDir.tla).                                  *)
(***************************************************************************)
EXTENDS Copy, OciDir, Induction, FiniteSetTheorems

-----------------------------------------------------------------------------
(* Sequences of images, of platforms and of pairs.                          *)

LEMMA ContainsIsIn ==
  ASSUME NEW S, NEW s \in Seq(S)
  PROVE  \A x : Contains(s, x) <=> x \in ToSet(s)
  BY DEF Contains, ToSet

\* Unique yields what is in a sequence, each once; what came before the first place of an element
\* comes before it in the result.
LEMMA UniqueOnce ==
  ASSUME NEW S, NEW given \in Seq(S)
  PROVE  /\ Unique(given) \in Seq(S)
         /\ IsInjective(Unique(given))
         /\ ToSet(Unique(given)) = ToSet(given)
         /\ \A i \in 1..Len(Unique(given)) : \E k \in 1..Len(given) :
              /\ Unique(given)[i] = given[k]
              /\ \A j \in 1..(k - 1) : \E l \in 1..(i - 1) : given[j] = Unique(given)[l]
  <1> DEFINE N == Len(given)
             V == Seq(S)
             Adds(n, s) == IF Contains(s, given[n]) THEN s ELSE Append(s, given[n])
             step == [x \in (1..N) \X V |-> Adds(x[1], x[2])]
             Def(g) == [n \in 0..N |-> IF n = 0 THEN <<>> ELSE Adds(n, g[n - 1])]
             seen == CHOOSE g : g = [n \in 0..N |-> IF n = 0 THEN <<>>
                                       ELSE IF Contains(g[n - 1], given[n]) THEN g[n - 1]
                                            ELSE Append(g[n - 1], given[n])]
  <1>1. N \in Nat /\ <<>> \in V /\ \A n \in 1..N : given[n] \in S
    OBVIOUS
  <1>2. \A n \in 1..N, s \in V : Adds(n, s) \in V
    BY <1>1
  <1>3. Unique(given) = seen[N]
    BY Zenon DEF Unique
  <1> HIDE DEF Adds
  <1>4. step \in Steps(N, V) /\ \A n \in 1..N, s \in V : step[<<n, s>>] = Adds(n, s)
    BY <1>2 DEF Steps
  <1>5. seen = Def(seen)
    <2> DEFINE base == <<>>
    <2>1. N \in Nat /\ base \in V
      BY <1>1
    <2> HIDE DEF N, V, base, step, seen
    <2>2. PICK f \in [0..N -> V] : f[0] = base /\ \A n \in 1..N : f[n] = step[<<n, f[n - 1]>>]
      BY <2>1, <1>4, StepByStep
    <2>3. ASSUME NEW n \in 0..N PROVE f[n] = IF n = 0 THEN <<>> ELSE Adds(n, f[n - 1])
      <3>1. CASE n = 0
        BY <2>2, <3>1 DEF base
      <3>2. CASE n # 0
        <4>1. n \in 1..N /\ n - 1 \in 0..N
          BY <2>1, <3>2
        <4> QED
          BY <1>4, <2>2, <3>2, <4>1
      <3> QED
        BY <3>1, <3>2
    <2>4. f = Def(f)
      BY <2>3
    <2> QED
      BY <2>4 DEF seen, Adds
  <1> HIDE DEF seen, Def
  <1>6. seen[0] = <<>> /\ \A n \in 1..N : seen[n] = Adds(n, seen[n - 1])
    <2>1. 0 \in 0..N /\ \A n \in 1..N : n \in 0..N /\ n # 0
      BY <1>1
    <2> QED
      BY <1>5, <2>1 DEF Def
  <1> DEFINE Good(n) == /\ seen[n] \in V
                        /\ IsInjective(seen[n])
                        /\ \A x : x \in ToSet(seen[n]) <=> \E i \in 1..n : x = given[i]
             T == {n \in Nat : n <= N => Good(n)}
  <1>7. 0 \in T
    <2>1. ToSet(<<>>) = {} /\ IsInjective(<<>>)
      BY DEF ToSet, IsInjective
    <2>2. \A i \in 1..0 : FALSE
      OBVIOUS
    <2>3. Good(0)
      BY <1>1, <1>6, <2>1, <2>2
    <2> QED
      BY <2>3
  <1> HIDE DEF Good
  <1>8. ASSUME NEW n \in Nat, n \in T PROVE n + 1 \in T
    <2> SUFFICES ASSUME n + 1 <= N PROVE Good(n + 1)
      OBVIOUS
    <2>1. n \in 0..N /\ n + 1 \in 1..N /\ (n + 1) - 1 = n
      BY <1>1
    <2>2. Good(n)
      BY <1>8, <2>1
    <2>3. seen[n + 1] = Adds(n + 1, seen[n])
      BY <1>6, <2>1
    <2>4. \A i : i \in 1..(n + 1) <=> i \in 1..n \/ i = n + 1
      OBVIOUS
    <2> DEFINE s == seen[n]
               x == given[n + 1]
    <2>5. s \in V /\ IsInjective(s) /\ \A y : y \in ToSet(s) <=> \E i \in 1..n : y = given[i]
      BY <2>2 DEF Good
    <2>6. x \in S
      BY <1>1, <2>1
    <2>7. seen[n + 1] \in V
      BY <1>2, <2>1, <2>3, <2>5
    <2>8. Contains(s, x) <=> x \in ToSet(s)
      BY <2>5 DEF Contains, ToSet
    <2>9. CASE Contains(s, x)
      <3>1. seen[n + 1] = s
        BY <2>3, <2>9 DEF Adds
      <3>2. \A y : y \in ToSet(s) <=> \E i \in 1..(n + 1) : y = given[i]
        <4> HIDE DEF s
        <4> QED
          BY <2>4, <2>5, <2>8, <2>9, Zenon
      <3> QED
        BY <2>5, <2>7, <3>1, <3>2 DEF Good
    <2>10. CASE ~Contains(s, x)
      <3> DEFINE one == <<x>>
      <3>1. seen[n + 1] = s \o one
        BY <2>3, <2>5, <2>6, <2>10 DEF Adds
      <3>2. one \in Seq(S) /\ IsInjective(one) /\ ToSet(one) = {x}
        BY <2>6 DEF IsInjective, ToSet
      <3> HIDE DEF one, s, x
      <3>3. ToSet(s) \cap ToSet(one) = {}
        BY <2>8, <2>10, <3>2
      <3>4. IsInjective(s \o one) /\ ToSet(s \o one) = ToSet(s) \cup {x}
        BY <2>5, <3>2, <3>3, ConcatElements
      <3>5. \A y : y \in ToSet(s \o one) <=> \E i \in 1..(n + 1) : y = given[i]
        <4>1. \A y : y \in ToSet(s \o one) <=> y \in ToSet(s) \/ y = x
          BY <3>4
        <4> QED
          BY <2>4, <2>5, <4>1, Zenon DEF x
      <3> QED
        BY <2>7, <3>1, <3>4, <3>5 DEF Good
    <2> QED
      BY <2>9, <2>10
  <1> HIDE DEF T
  <1>9. Nat \subseteq T
    BY <1>7, <1>8, SetInduction
  <1>10. \A n \in 0..N : Good(n)
    BY <1>1, <1>9 DEF T
  <1>17. Good(N)
    <2>1. N \in 0..N
      BY <1>1
    <2> QED
      BY <1>10, <2>1
  <1>11. ToSet(seen[N]) = ToSet(given)
    <2>1. \A y : y \in ToSet(given) <=> \E i \in 1..N : y = given[i]
      BY DEF ToSet
    <2> QED
      BY <1>17, <2>1 DEF Good
  <1> DEFINE Placed(n) == \A i \in 1..Len(seen[n]) : \E k \in 1..n :
                            /\ seen[n][i] = given[k]
                            /\ \A j \in 1..(k - 1) : \E l \in 1..(i - 1) : given[j] = seen[n][l]
             P == {n \in Nat : n <= N => Placed(n)}
  <1>12. 0 \in P
    <2>1. Len(seen[0]) = 0 /\ \A i \in 1..0 : FALSE
      BY <1>6
    <2> QED
      BY <2>1
  <1> HIDE DEF Placed
  <1>13. ASSUME NEW n \in Nat, n \in P PROVE n + 1 \in P
    <2> SUFFICES ASSUME n + 1 <= N PROVE Placed(n + 1)
      OBVIOUS
    <2>1. n \in 0..N /\ n + 1 \in 1..N /\ (n + 1) - 1 = n
      BY <1>1
    <2> DEFINE s == seen[n]
               x == given[n + 1]
               r == seen[n + 1]
    <2>2. Placed(n)
      BY <1>13, <2>1
    <2>3. /\ \A i \in 1..Len(s) : \E k \in 1..n :
                /\ s[i] = given[k]
                /\ \A j \in 1..(k - 1) : \E l \in 1..(i - 1) : given[j] = s[l]
          /\ s \in Seq(S) /\ x \in S /\ r = Adds(n + 1, s)
          /\ \A y : y \in ToSet(s) <=> \E i \in 1..n : y = given[i]
      BY <1>1, <1>6, <1>10, <2>1, <2>2 DEF Placed, Good
    <2>4. 1..n \subseteq 1..(n + 1) /\ n + 1 \in 1..(n + 1)
      OBVIOUS
    <2>5. CASE Contains(s, x)
      <3>1. r = s
        BY <2>3, <2>5 DEF Adds
      <3> HIDE DEF r, s, x
      <3>2. \A i \in 1..Len(r) : \E k \in 1..(n + 1) :
              /\ r[i] = given[k]
              /\ \A j \in 1..(k - 1) : \E l \in 1..(i - 1) : given[j] = r[l]
        <4> SUFFICES ASSUME NEW i \in 1..Len(s)
                     PROVE  \E k \in 1..(n + 1) :
                              /\ s[i] = given[k]
                              /\ \A j \in 1..(k - 1) : \E l \in 1..(i - 1) : given[j] = s[l]
          BY <3>1
        <4>1. PICK k \in 1..n : /\ s[i] = given[k]
                                /\ \A j \in 1..(k - 1) : \E l \in 1..(i - 1) : given[j] = s[l]
          BY <2>3
        <4>2. k \in 1..(n + 1)
          BY <2>4
        <4> QED
          BY <4>1, <4>2
      <3> QED
        BY <3>2 DEF Placed, r
    <2>6. CASE ~Contains(s, x)
      <3>1. r = Append(s, x)
        BY <2>3, <2>6 DEF Adds
      <3> HIDE DEF r, s, x
      <3>2. /\ Len(r) = Len(s) + 1 /\ Len(s) \in Nat /\ r[Len(s) + 1] = x
            /\ \A i \in 1..Len(s) : r[i] = s[i]
        BY <2>3, <3>1
      <3>3. ToSet(s) = {s[i] : i \in 1..Len(s)}
        BY <2>3 DEF ToSet
      <3> SUFFICES ASSUME NEW i \in 1..Len(r)
                   PROVE  \E k \in 1..(n + 1) :
                            /\ r[i] = given[k]
                            /\ \A j \in 1..(k - 1) : \E l \in 1..(i - 1) : given[j] = r[l]
        BY DEF Placed, r
      <3>4. CASE i = Len(s) + 1
        <4>1. r[i] = given[n + 1]
          BY <3>2, <3>4 DEF x
        <4>2. i - 1 = Len(s) /\ (n + 1) - 1 = n
          BY <3>2, <3>4
        <4>3. ASSUME NEW j \in 1..n PROVE \E l \in 1..Len(s) : given[j] = r[l]
          <5>1. given[j] \in ToSet(s)
            BY <2>3
          <5> QED
            BY <3>2, <3>3, <5>1
        <4> QED
          BY <2>4, <4>1, <4>2, <4>3
      <3>5. CASE i # Len(s) + 1
        <4>1. i \in 1..Len(s)
          BY <3>2, <3>5
        <4>2. PICK k \in 1..n : /\ s[i] = given[k]
                                /\ \A j \in 1..(k - 1) : \E l \in 1..(i - 1) : given[j] = s[l]
          BY <2>3, <4>1
        <4>3. \A l \in 1..(i - 1) : s[l] = r[l]
          <5>1. \A l \in 1..(i - 1) : l \in 1..Len(s)
            BY <3>2, <4>1
          <5> QED
            BY <3>2, <5>1
        <4>4. r[i] = given[k] /\ k \in 1..(n + 1)
          BY <2>4, <3>2, <4>1, <4>2
        <4> QED
          BY <4>2, <4>3, <4>4
      <3> QED
        BY <3>4, <3>5
    <2> QED
      BY <2>5, <2>6
  <1> HIDE DEF P
  <1>14. N \in P
    BY <1>1, <1>12, <1>13, SetInduction
  <1>15. Placed(N)
    BY <1>1, <1>14 DEF P
  <1>16. seen[N] \in Seq(S) /\ IsInjective(seen[N])
    BY <1>17 DEF Good
  <1> DEFINE r == seen[N]
  <1>18. Unique(given) = r
    BY <1>3
  <1>19. \A i \in 1..Len(r) : \E k \in 1..Len(given) :
           /\ r[i] = given[k]
           /\ \A j \in 1..(k - 1) : \E l \in 1..(i - 1) : given[j] = r[l]
    BY <1>15 DEF Placed
  <1> HIDE DEF r
  <1>20. r \in Seq(S) /\ IsInjective(r) /\ ToSet(r) = ToSet(given)
    BY <1>11, <1>16 DEF r
  <1> QED
    BY <1>18, <1>19, <1>20

\* parseSet yields what it was given, each once.
LEMMA ParseSetOnce ==
  ASSUME NEW S, NEW images \in Seq(S)
  PROVE  /\ ParseSet(images) \in Seq(S)
         /\ IsInjective(ParseSet(images))
         /\ ToSet(ParseSet(images)) = ToSet(images)
  <1>1. ParseSet(images) = Unique(images)
    BY Zenon DEF ParseSet, Unique
  <1> QED
    BY <1>1, UniqueOnce

PairsOf(R, P) == R \X P
AllPairs(refs, ps) == {<<refs[i], ps[j]>> : i \in 1..Len(refs), j \in 1..Len(ps)}

\* Every pair of an image and a platform is in a sequence of all pairs; each once, if each image and
\* each platform is there once.
LEMMA ByImageElements ==
  ASSUME NEW R, NEW P, NEW refs \in Seq(R), NEW ps \in Seq(P)
  PROVE  /\ ByImage(refs, ps) \in Seq(PairsOf(R, P))
         /\ ToSet(ByImage(refs, ps)) = AllPairs(refs, ps)
         /\ IsInjective(refs) /\ IsInjective(ps) => IsInjective(ByImage(refs, ps))
  <1> DEFINE S == R \X P
             M == Len(refs)
             N == Len(ps)
             part(i) == [j \in 1..N |-> <<refs[i], ps[j]>>]
             parts == [i \in 1..M |-> part(i)]
  <1>1. /\ M \in Nat /\ N \in Nat /\ DOMAIN refs = 1..M /\ DOMAIN ps = 1..N
        /\ \A i \in 1..M : refs[i] \in R
        /\ \A j \in 1..N : ps[j] \in P
    OBVIOUS
  <1>2. \A i \in 1..M : part(i) \in Seq(S) /\ Len(part(i)) = N /\ DOMAIN part(i) = 1..N
    BY <1>1
  <1>3. \A i \in 1..M : parts[i] = part(i)
    OBVIOUS
  <1>4. parts \in Seq(Seq(S)) /\ Len(parts) = M
    <2> HIDE DEF part, S
    <2> QED
      BY <1>1, <1>2
  <1>5. ByImage(refs, ps) = FlattenSeq(parts)
    BY <1>1, Zenon DEF ByImage
  <1>6. \A i \in 1..M : \A x : x \in ToSet(parts[i]) <=> \E j \in 1..N : x = <<refs[i], ps[j]>>
    BY <1>2, <1>3 DEF ToSet
  <1>7. ASSUME IsInjective(refs), IsInjective(ps), NEW i \in 1..M
        PROVE  IsInjective(parts[i])
    BY <1>1, <1>2, <1>3, <1>7 DEF IsInjective
  <1>8. ASSUME IsInjective(refs), NEW i \in 1..M, NEW k \in 1..M, i # k
        PROVE  ToSet(parts[i]) \cap ToSet(parts[k]) = {}
    <2> SUFFICES ASSUME NEW x \in ToSet(parts[i]), x \in ToSet(parts[k]) PROVE FALSE
      OBVIOUS
    <2> HIDE DEF parts
    <2>1. PICK j \in 1..N : x = <<refs[i], ps[j]>>
      BY <1>6
    <2>2. PICK l \in 1..N : x = <<refs[k], ps[l]>>
      BY <1>6
    <2>3. refs[i] = refs[k]
      BY <2>1, <2>2
    <2> QED
      BY <1>1, <1>8, <2>3 DEF IsInjective
  <1> HIDE DEF S, M, N, part, parts
  <1>9. /\ FlattenSeq(parts) \in Seq(S)
        /\ \A x : x \in ToSet(FlattenSeq(parts)) <=> \E i \in 1..M : x \in ToSet(parts[i])
        /\ /\ \A i \in 1..M : IsInjective(parts[i])
           /\ \A i, k \in 1..M : i # k => ToSet(parts[i]) \cap ToSet(parts[k]) = {}
           => IsInjective(FlattenSeq(parts))
    BY <1>4, FlattenElements
  <1>10. IsInjective(refs) /\ IsInjective(ps) => IsInjective(FlattenSeq(parts))
    BY <1>7, <1>8, <1>9
  <1>11. \A x : x \in ToSet(FlattenSeq(parts)) <=> \E i \in 1..M, j \in 1..N : x = <<refs[i], ps[j]>>
    BY <1>6, <1>9, Zenon
  <1> QED
    <2>1. ToSet(FlattenSeq(parts)) = AllPairs(refs, ps)
      BY <1>11 DEF AllPairs, M, N
    <2> QED
      BY <1>5, <1>9, <1>10, <2>1 DEF S, M, N, PairsOf

LEMMA ByPlatformElements ==
  ASSUME NEW R, NEW P, NEW refs \in Seq(R), NEW ps \in Seq(P)
  PROVE  /\ ByPlatform(refs, ps) \in Seq(PairsOf(R, P))
         /\ ToSet(ByPlatform(refs, ps)) = AllPairs(refs, ps)
         /\ IsInjective(refs) /\ IsInjective(ps) => IsInjective(ByPlatform(refs, ps))
  <1> DEFINE S == R \X P
             M == Len(refs)
             N == Len(ps)
             part(j) == [i \in 1..M |-> <<refs[i], ps[j]>>]
             parts == [j \in 1..N |-> part(j)]
  <1>1. /\ M \in Nat /\ N \in Nat /\ DOMAIN refs = 1..M /\ DOMAIN ps = 1..N
        /\ \A i \in 1..M : refs[i] \in R
        /\ \A j \in 1..N : ps[j] \in P
    OBVIOUS
  <1>2. \A j \in 1..N : part(j) \in Seq(S) /\ DOMAIN part(j) = 1..M
    BY <1>1
  <1>3. \A j \in 1..N : parts[j] = part(j)
    OBVIOUS
  <1>4. parts \in Seq(Seq(S)) /\ Len(parts) = N
    <2> HIDE DEF part, S
    <2> QED
      BY <1>1, <1>2
  <1>5. ByPlatform(refs, ps) = FlattenSeq(parts)
    BY <1>1, Zenon DEF ByPlatform
  <1>6. \A j \in 1..N : \A x : x \in ToSet(parts[j]) <=> \E i \in 1..M : x = <<refs[i], ps[j]>>
    BY <1>2, <1>3 DEF ToSet
  <1>9. ASSUME IsInjective(refs), IsInjective(ps), NEW j \in 1..N
        PROVE  IsInjective(parts[j])
    BY <1>1, <1>2, <1>3, <1>9 DEF IsInjective
  <1>10. ASSUME IsInjective(ps), NEW j \in 1..N, NEW k \in 1..N, j # k
         PROVE  ToSet(parts[j]) \cap ToSet(parts[k]) = {}
    <2> SUFFICES ASSUME NEW x \in ToSet(parts[j]), x \in ToSet(parts[k]) PROVE FALSE
      OBVIOUS
    <2> HIDE DEF parts
    <2>1. PICK i \in 1..M : x = <<refs[i], ps[j]>>
      BY <1>6
    <2>2. PICK l \in 1..M : x = <<refs[l], ps[k]>>
      BY <1>6
    <2>3. ps[j] = ps[k]
      BY <2>1, <2>2
    <2> QED
      BY <1>1, <1>10, <2>3 DEF IsInjective
  <1> HIDE DEF S, M, N, part, parts
  <1>7. /\ FlattenSeq(parts) \in Seq(S)
        /\ \A x : x \in ToSet(FlattenSeq(parts)) <=> \E j \in 1..N : x \in ToSet(parts[j])
        /\ /\ \A j \in 1..N : IsInjective(parts[j])
           /\ \A j, k \in 1..N : j # k => ToSet(parts[j]) \cap ToSet(parts[k]) = {}
           => IsInjective(FlattenSeq(parts))
    BY <1>4, FlattenElements
  <1>11. IsInjective(refs) /\ IsInjective(ps) => IsInjective(FlattenSeq(parts))
    BY <1>7, <1>9, <1>10
  <1>8. \A x : x \in ToSet(FlattenSeq(parts)) <=> \E i \in 1..M, j \in 1..N : x = <<refs[i], ps[j]>>
    <2> SUFFICES ASSUME NEW x
                 PROVE  x \in ToSet(FlattenSeq(parts)) <=> \E i \in 1..M, j \in 1..N : x = <<refs[i], ps[j]>>
      OBVIOUS
    <2>1. ASSUME x \in ToSet(FlattenSeq(parts))
          PROVE  \E i \in 1..M, j \in 1..N : x = <<refs[i], ps[j]>>
      <3>1. PICK j \in 1..N : x \in ToSet(parts[j])
        BY <1>7, <2>1
      <3>2. PICK i \in 1..M : x = <<refs[i], ps[j]>>
        BY <1>6, <3>1
      <3> QED
        BY <3>2
    <2>2. ASSUME NEW i \in 1..M, NEW j \in 1..N, x = <<refs[i], ps[j]>>
          PROVE  x \in ToSet(FlattenSeq(parts))
      <3>1. x \in ToSet(parts[j]) <=> \E k \in 1..M : x = <<refs[k], ps[j]>>
        BY <1>6
      <3>2. x \in ToSet(parts[j])
        BY <2>2, <3>1
      <3> QED
        BY <1>7, <3>2
    <2> QED
      BY <2>1, <2>2
  <1> QED
    <2>1. ToSet(FlattenSeq(parts)) = AllPairs(refs, ps)
      BY <1>8 DEF AllPairs, M, N
    <2> QED
      BY <1>5, <1>7, <1>11, <2>1 DEF S, M, N, PairsOf

\* What the request asks for, in the two orders in which it is planned.
LEMMA AskedOnce ==
  ASSUME req \in Requests
  PROVE  /\ Asked \in Seq((Refs \cup {Bad}) \X Platforms)
         /\ IsInjective(req.platforms) =>
              /\ IsInjective(Asked)
              /\ IsInjective(ByPlatform(ParseSet(req.images), req.platforms))
         /\ ToSet(ByPlatform(ParseSet(req.images), req.platforms)) = ToSet(Asked)
         /\ ~Usage(req) => /\ Asked \in Seq(Pairs)
                           /\ ByPlatform(ParseSet(req.images), req.platforms) \in Seq(Pairs)
  <1> DEFINE images == req.images
             ps == req.platforms
             refs == ParseSet(images)
  <1>1. images \in Seq(Refs \cup {Bad}) /\ ps \in Seq(Platforms)
    BY CopyAssumption
  <1>2. /\ refs \in Seq(Refs \cup {Bad})
        /\ IsInjective(refs)
    BY <1>1, ParseSetOnce
  <1>3. Asked = ByImage(refs, ps)
    BY DEF Asked
  <1>4. ToSet(ByPlatform(refs, ps)) = ToSet(Asked)
    <2> DEFINE R == Refs \cup {Bad}
    <2>0. refs \in Seq(R) /\ ps \in Seq(Platforms)
      BY <1>1, <1>2
    <2> HIDE DEF refs, ps, R
    <2>1. ByImage(refs, ps) \in Seq(PairsOf(R, Platforms)) /\ ByPlatform(refs, ps) \in Seq(PairsOf(R, Platforms))
      BY <2>0, ByImageElements, ByPlatformElements
    <2>2. ToSet(ByImage(refs, ps)) = AllPairs(refs, ps)
      BY <2>0, <2>1, ByImageElements
    <2>3. ToSet(ByPlatform(refs, ps)) = AllPairs(refs, ps)
      BY <2>0, <2>1, ByPlatformElements
    <2> QED
      BY <1>3, <2>2, <2>3
  <1>5. ASSUME ~Usage(req)
        PROVE  Asked \in Seq(Pairs) /\ ByPlatform(refs, ps) \in Seq(Pairs)
    <2>1. images \in Seq(Refs)
      <3>1. \A i \in 1..Len(images) : images[i] # Bad
        BY <1>5 DEF Usage, Contains
      <3> HIDE DEF images
      <3>2. \A i \in 1..Len(images) : images[i] \in Refs
        BY <1>1, <3>1
      <3> QED
        BY <1>1, <3>2
    <2>2. refs \in Seq(Refs)
      BY <2>1, ParseSetOnce
    <2>3. PairsOf(Refs, Platforms) = Pairs
      BY DEF PairsOf, Pairs
    <2> HIDE DEF refs, ps
    <2> QED
      BY <1>1, <1>3, <2>2, <2>3, ByImageElements, ByPlatformElements
  <1> HIDE DEF refs, ps
  <1>6. /\ Asked \in Seq((Refs \cup {Bad}) \X Platforms)
        /\ IsInjective(ps) => IsInjective(Asked) /\ IsInjective(ByPlatform(refs, ps))
    <2>1. PairsOf(Refs \cup {Bad}, Platforms) = (Refs \cup {Bad}) \X Platforms
      BY DEF PairsOf
    <2>2. IsInjective(ps) => IsInjective(ByPlatform(refs, ps))
      BY <1>1, <1>2, ByPlatformElements
    <2> QED
      BY <1>1, <1>2, <1>3, <2>1, <2>2, ByImageElements
  <1> QED
    BY <1>4, <1>5, <1>6 DEF refs, ps

-----------------------------------------------------------------------------
(* Recording.                                                               *)

Entries == Seq([ref : Refs, platform : Platforms, planned : BOOLEAN, fails : Nat])
PairOf(e) == <<e.ref, e.platform>>
Shows(es, pair) == \E j \in DOMAIN es : PairOf(es[j]) = pair /\ es[j].fails > 0

\* The entry of a pair is one that has it; there is none only when no entry has it.
LEMMA EntryIsOfPair ==
  ASSUME NEW es \in Entries, NEW pair \in Pairs
  PROVE  \/ EntryOf(es, pair) \in DOMAIN es /\ PairOf(es[EntryOf(es, pair)]) = pair
         \/ EntryOf(es, pair) = 0 /\ \A j \in DOMAIN es : PairOf(es[j]) # pair
  <1> DEFINE I == {j \in 1..Len(es) : es[j].ref = pair[1] /\ es[j].platform = pair[2]}
  <1>1. DOMAIN es = 1..Len(es) /\ I \subseteq Nat /\ pair = <<pair[1], pair[2]>>
    BY DEF Entries, Pairs
  <1>2. EntryOf(es, pair) = IF I # {} THEN Min(I) ELSE 0
    BY DEF EntryOf, SelectInSeq
  <1>3. I # {} => Min(I) \in I
    <2> HIDE DEF I
    <2> SUFFICES ASSUME I # {} PROVE Min(I) \in I
      OBVIOUS
    <2>1. \E n \in I : \A m \in I : n <= m
      BY <1>1, LeastElement
    <2> QED
      BY <2>1 DEF Min
  <1>4. \A j \in 1..Len(es) : j \in I <=> PairOf(es[j]) = pair
    BY <1>1 DEF PairOf
  <1> HIDE DEF I
  <1>5. CASE I = {}
    BY <1>1, <1>2, <1>4, <1>5
  <1>6. CASE I # {}
    <2>1. Min(I) \in 1..Len(es)
      BY <1>3, <1>6 DEF I
    <2> QED
      BY <1>1, <1>2, <1>3, <1>4, <1>6, <2>1
  <1> QED
    BY <1>5, <1>6

\* What record does: an entry fails that failed before, or that has the pair of an error; every error
\* whose pair an entry has makes such an entry fail.
LEMMA RecordMarks ==
  ASSUME NEW es \in Entries, NEW pairs \in Seq(Pairs)
  PROVE  /\ RecordAll(es, pairs) \in Entries
         /\ DOMAIN RecordAll(es, pairs) = DOMAIN es
         /\ \A j \in DOMAIN es :
              /\ RecordAll(es, pairs)[j].ref = es[j].ref
              /\ RecordAll(es, pairs)[j].platform = es[j].platform
              /\ RecordAll(es, pairs)[j].planned = es[j].planned
              /\ es[j].fails > 0 => RecordAll(es, pairs)[j].fails > 0
              /\ RecordAll(es, pairs)[j].fails > 0 => es[j].fails > 0 \/ Contains(pairs, PairOf(es[j]))
         /\ \A pair \in ToSet(pairs) :
              (\E j \in DOMAIN es : PairOf(es[j]) = pair) =>
                EntryOf(es, pair) # 0 /\ Shows(RecordAll(es, pairs), pair)
  <1> DEFINE hits(j) == {i \in DOMAIN pairs : EntryOf(es, pairs[i]) = j}
             after == RecordAll(es, pairs)
  <1>1. /\ DOMAIN es = 1..Len(es) /\ DOMAIN pairs = 1..Len(pairs) /\ Len(pairs) \in Nat /\ Len(es) \in Nat
        /\ \A i \in DOMAIN pairs : pairs[i] \in Pairs
        /\ \A j \in DOMAIN es :
             es[j] \in [ref : Refs, platform : Platforms, planned : BOOLEAN, fails : Nat]
    <2>1. DOMAIN pairs = 1..Len(pairs) /\ Len(pairs) \in Nat /\ \A i \in DOMAIN pairs : pairs[i] \in Pairs
      OBVIOUS
    <2> DEFINE E == [ref : Refs, platform : Platforms, planned : BOOLEAN, fails : Nat]
    <2>2. es \in Seq(E)
      BY DEF Entries
    <2> HIDE DEF E
    <2>3. DOMAIN es = 1..Len(es) /\ Len(es) \in Nat /\ \A j \in DOMAIN es : es[j] \in E
      BY <2>2
    <2> QED
      BY <2>1, <2>3 DEF E
  <1>2. \A j : IsFiniteSet(hits(j)) /\ Cardinality(hits(j)) \in Nat /\ (Cardinality(hits(j)) = 0 <=> hits(j) = {})
    <2> SUFFICES ASSUME NEW j
                 PROVE  IsFiniteSet(hits(j)) /\ Cardinality(hits(j)) \in Nat
                        /\ (Cardinality(hits(j)) = 0 <=> hits(j) = {})
      OBVIOUS
    <2>1. IsFiniteSet(1..Len(pairs))
      BY <1>1, FS_Interval
    <2>2. IsFiniteSet(hits(j))
      BY <1>1, <2>1, FS_Subset
    <2> HIDE DEF hits
    <2> QED
      BY <2>2, FS_EmptySet, FS_CardinalityType
  <1>3. after = [j \in DOMAIN es |-> [es[j] EXCEPT !.fails = @ + Cardinality(hits(j))]]
    BY DEF RecordAll
  <1> HIDE DEF after, hits
  <1>4. ASSUME NEW j \in DOMAIN es
        PROVE  /\ after[j] \in [ref : Refs, platform : Platforms, planned : BOOLEAN, fails : Nat]
               /\ after[j].ref = es[j].ref /\ after[j].platform = es[j].platform
               /\ after[j].planned = es[j].planned
               /\ after[j].fails = es[j].fails + Cardinality(hits(j))
    <2>1. after[j] = [es[j] EXCEPT !.fails = @ + Cardinality(hits(j))]
      BY <1>3
    <2>2. es[j] \in [ref : Refs, platform : Platforms, planned : BOOLEAN, fails : Nat]
      BY <1>1
    <2>3. Cardinality(hits(j)) \in Nat
      BY <1>2
    <2> QED
      BY <2>1, <2>2, <2>3
  <1>5. DOMAIN after = DOMAIN es
    BY <1>3
  <1>6. after \in Entries
    <2> DEFINE E == [ref : Refs, platform : Platforms, planned : BOOLEAN, fails : Nat]
    <2>1. \A j \in 1..Len(es) : after[j] \in E
      BY <1>1, <1>4
    <2>2. after = [j \in 1..Len(es) |-> after[j]]
      BY <1>1, <1>3
    <2> HIDE DEF E
    <2>3. after \in Seq(E)
      BY <1>1, <2>1, <2>2
    <2> QED
      BY <2>3 DEF E, Entries
  <1>7. ASSUME NEW j \in DOMAIN es
        PROVE  after[j].fails > 0 <=> es[j].fails > 0 \/ hits(j) # {}
    <2>1. es[j].fails \in Nat /\ Cardinality(hits(j)) \in Nat /\ (Cardinality(hits(j)) = 0 <=> hits(j) = {})
      BY <1>1, <1>2
    <2> QED
      BY <1>4, <2>1
  <1>8. ASSUME NEW j \in DOMAIN es, after[j].fails > 0
        PROVE  es[j].fails > 0 \/ Contains(pairs, PairOf(es[j]))
    <2> SUFFICES ASSUME hits(j) # {} PROVE Contains(pairs, PairOf(es[j]))
      BY <1>7, <1>8
    <2>1. PICK i \in DOMAIN pairs : EntryOf(es, pairs[i]) = j
      BY DEF hits
    <2>2. pairs[i] \in Pairs /\ j # 0
      BY <1>1
    <2>3. PairOf(es[j]) = pairs[i]
      BY <2>1, <2>2, EntryIsOfPair
    <2> QED
      BY <1>1, <2>3 DEF Contains
  <1>9. ASSUME NEW i \in DOMAIN pairs, \E j \in DOMAIN es : PairOf(es[j]) = pairs[i]
        PROVE  /\ EntryOf(es, pairs[i]) # 0
               /\ Shows(after, pairs[i])
    <2> DEFINE k == EntryOf(es, pairs[i])
    <2>1. pairs[i] \in Pairs
      BY <1>1
    <2>2. k \in DOMAIN es /\ PairOf(es[k]) = pairs[i]
      BY <1>9, <2>1, EntryIsOfPair
    <2>3. hits(k) # {}
      BY DEF hits
    <2>4. after[k].fails > 0
      BY <1>7, <2>2, <2>3
    <2>5. k # 0
      BY <1>1, <2>2
    <2>6. PairOf(after[k]) = pairs[i]
      BY <1>4, <2>2 DEF PairOf
    <2> HIDE DEF k
    <2>7. Shows(after, pairs[i])
      BY <1>5, <2>2, <2>4, <2>6 DEF Shows
    <2> QED
      BY <2>5, <2>7 DEF k
  <1>10. \A pair \in ToSet(pairs) : \E i \in DOMAIN pairs : pairs[i] = pair
    BY DEF ToSet
  <1> QED
    <2>1. \A j \in DOMAIN es : es[j].fails > 0 => after[j].fails > 0
      BY <1>7
    <2> QED
      BY <1>4, <1>5, <1>6, <1>8, <1>9, <1>10, <2>1 DEF after

-----------------------------------------------------------------------------
(* The invariant, first over what a sequence holds.                         *)

Fate == [pair : Pairs, ok : BOOLEAN]
HasFate(f, pair) == \E i \in DOMAIN f : f[i].pair = pair
HasFailed(f, pair) == \E i \in DOMAIN f : f[i].pair = pair /\ ~f[i].ok

LEMMA OneMore ==
  ASSUME NEW S, NEW s \in Seq(S), NEW x \in S
  PROVE  Append(s, x) \in Seq(S) /\ ToSet(Append(s, x)) = ToSet(s) \cup {x}
  <1> DEFINE one == <<x>>
  <1>1. one \in Seq(S) /\ ToSet(one) = {x} /\ Append(s, x) = s \o one
    BY DEF ToSet
  <1> HIDE DEF one
  <1> QED
    BY <1>1, ConcatElements

LEMMA OneLess ==
  ASSUME NEW S, NEW s \in Seq(S), s # <<>>
  PROVE  /\ Head(s) \in S /\ Tail(s) \in Seq(S)
         /\ ToSet(s) = ToSet(Tail(s)) \cup {Head(s)}
  <1>1. /\ Head(s) = s[1] /\ Head(s) \in S /\ Tail(s) \in Seq(S)
        /\ Len(s) \in Nat /\ Len(s) # 0 /\ Len(Tail(s)) = Len(s) - 1
        /\ DOMAIN s = 1..Len(s) /\ DOMAIN Tail(s) = 1..(Len(s) - 1)
        /\ \A i \in 1..(Len(s) - 1) : Tail(s)[i] = s[i + 1]
    OBVIOUS
  <1> DEFINE t == Tail(s)
             n == Len(s)
  <1> HIDE DEF t
  <1>2. ASSUME NEW x \in ToSet(s) PROVE x \in ToSet(t) \cup {Head(s)}
    <2>1. PICK i \in 1..n : s[i] = x
      BY <1>1 DEF ToSet
    <2>2. CASE i = 1
      BY <1>1, <2>1, <2>2
    <2>3. CASE i # 1
      <3>1. i - 1 \in 1..(n - 1) /\ (i - 1) + 1 = i
        BY <1>1, <2>3
      <3>2. t[i - 1] = x /\ DOMAIN t = 1..(n - 1)
        BY <1>1, <2>1, <3>1 DEF t
      <3> QED
        BY <3>1, <3>2 DEF ToSet
    <2> QED
      BY <2>2, <2>3
  <1>3. ASSUME NEW x \in ToSet(t) PROVE x \in ToSet(s)
    <2>1. PICK i \in 1..(n - 1) : t[i] = x
      BY <1>1 DEF ToSet, t
    <2>2. i + 1 \in 1..n
      BY <1>1
    <2> QED
      BY <1>1, <2>1, <2>2 DEF ToSet, t
  <1>4. Head(s) \in ToSet(s)
    BY <1>1 DEF ToSet
  <1> QED
    BY <1>1, <1>2, <1>3, <1>4 DEF t

\* A fate more.
LEMMA FateAdded ==
  ASSUME NEW f \in Seq(Fate), NEW r \in Fate
  PROVE  /\ Append(f, r) \in Seq(Fate)
         /\ \A p : HasFate(Append(f, r), p) <=> HasFate(f, p) \/ p = r.pair
         /\ \A p : HasFailed(Append(f, r), p) <=> HasFailed(f, p) \/ (p = r.pair /\ ~r.ok)
  <1> DEFINE g == Append(f, r)
  <1>1. /\ g \in Seq(Fate) /\ DOMAIN g = 1..(Len(f) + 1) /\ DOMAIN f = 1..Len(f) /\ Len(f) \in Nat
        /\ \A i \in 1..Len(f) : g[i] = f[i]
        /\ g[Len(f) + 1] = r
    OBVIOUS
  <1> HIDE DEF g
  <1>2. \A i : i \in DOMAIN g <=> i \in DOMAIN f \/ i = Len(f) + 1
    BY <1>1
  <1> HIDE DEF Fate
  <1>3. \A p : HasFate(g, p) <=> HasFate(f, p) \/ p = r.pair
    BY <1>1, <1>2 DEF HasFate
  <1>4. \A p : HasFailed(g, p) <=> HasFailed(f, p) \/ (p = r.pair /\ ~r.ok)
    BY <1>1, <1>2 DEF HasFailed
  <1> QED
    BY <1>1, <1>3, <1>4 DEF g

\* The fates of a plan that is not carried out.
LEMMA FatesAdded ==
  ASSUME NEW f \in Seq(Fate), NEW s \in Seq(Pairs),
         NEW g, g = f \o [i \in DOMAIN s |-> [pair |-> s[i], ok |-> TRUE]]
  PROVE  /\ g \in Seq(Fate)
         /\ \A p : HasFate(g, p) <=> HasFate(f, p) \/ p \in ToSet(s)
         /\ \A p : HasFailed(g, p) <=> HasFailed(f, p)
  <1> DEFINE t == [i \in DOMAIN s |-> [pair |-> s[i], ok |-> TRUE]]
  <1>1. DOMAIN s = 1..Len(s) /\ Len(s) \in Nat /\ \A i \in DOMAIN s : s[i] \in Pairs
    OBVIOUS
  <1>2. \A i \in DOMAIN s : t[i] \in Fate /\ t[i].pair = s[i] /\ t[i].ok
    BY <1>1 DEF Fate
  <1>3. DOMAIN t = 1..Len(s) /\ t = [i \in 1..Len(s) |-> t[i]]
    BY <1>1
  <1> HIDE DEF t
  <1> HIDE DEF Fate
  <1>4. t \in Seq(Fate) /\ Len(t) = Len(s)
    BY <1>1, <1>2, <1>3
  <1>5. g = f \o t
    BY DEF t
  <1>6. /\ g \in Seq(Fate) /\ DOMAIN g = 1..(Len(f) + Len(s)) /\ DOMAIN f = 1..Len(f) /\ Len(f) \in Nat
        /\ \A i \in 1..Len(f) : g[i] = f[i]
        /\ \A i \in 1..Len(s) : g[Len(f) + i] = t[i]
    BY <1>1, <1>4, <1>5
  <1>7. \A i \in DOMAIN g : i \in DOMAIN f \/ \E j \in DOMAIN s : i = Len(f) + j
    <2> SUFFICES ASSUME NEW i \in DOMAIN g, i \notin DOMAIN f PROVE \E j \in DOMAIN s : i = Len(f) + j
      OBVIOUS
    <2>1. i - Len(f) \in 1..Len(s) /\ i = Len(f) + (i - Len(f))
      BY <1>1, <1>6
    <2> QED
      BY <1>1, <2>1
  <1>8. (\A i \in DOMAIN f : i \in DOMAIN g) /\ (\A j \in DOMAIN s : Len(f) + j \in DOMAIN g)
    BY <1>1, <1>6
  <1>9. /\ \A i \in DOMAIN f : i \in DOMAIN g /\ g[i] = f[i]
        /\ \A j \in DOMAIN s : /\ Len(f) + j \in DOMAIN g
                              /\ g[Len(f) + j].pair = s[j] /\ g[Len(f) + j].ok
    BY <1>1, <1>2, <1>6, <1>8
  <1>10. ASSUME NEW p PROVE HasFate(g, p) <=> HasFate(f, p) \/ p \in ToSet(s)
    <2>1. ASSUME NEW i \in DOMAIN g, g[i].pair = p PROVE HasFate(f, p) \/ p \in ToSet(s)
      BY <1>7, <1>9, <2>1 DEF HasFate, ToSet
    <2>2. ASSUME HasFate(f, p) PROVE HasFate(g, p)
      BY <1>9, <2>2 DEF HasFate
    <2>3. ASSUME NEW j \in DOMAIN s, s[j] = p PROVE HasFate(g, p)
      BY <1>9, <2>3 DEF HasFate
    <2> QED
      BY <2>1, <2>2, <2>3 DEF HasFate, ToSet
  <1>11. ASSUME NEW p PROVE HasFailed(g, p) <=> HasFailed(f, p)
    <2>1. ASSUME NEW i \in DOMAIN g, g[i].pair = p, ~g[i].ok PROVE HasFailed(f, p)
      BY <1>7, <1>9, <2>1 DEF HasFailed
    <2>2. ASSUME HasFailed(f, p) PROVE HasFailed(g, p)
      BY <1>9, <2>2 DEF HasFailed
    <2> QED
      BY <2>1, <2>2 DEF HasFailed
  <1> QED
    BY <1>6, <1>10, <1>11

LEMMA FateForms ==
  /\ \A p : Fated(p) <=> HasFate(fate, p)
  /\ \A p : Failures(p) # {} <=> HasFailed(fate, p)
  /\ \A p : Fated(p)' <=> HasFate(fate', p)
  /\ \A p : (Failures(p) # {})' <=> HasFailed(fate', p)
  BY DEF Fated, Failures, HasFate, HasFailed

LEMMA AskedStays ==
  ASSUME req' = req
  PROVE  Asked' = Asked
  BY DEF Asked

\* The sequences of the type invariant, one by one.
LEMMA CopyTypes ==
  ASSUME CopyTypeOK
  PROVE  /\ todo \in Seq(Pairs) /\ plan \in Seq(Pairs) /\ errs \in Seq(Pairs)
         /\ dir \in BOOLEAN /\ memory \in BOOLEAN /\ outputLost \in BOOLEAN
         /\ opened \subseteq touched /\ touched \subseteq {"cs", "store"} /\ writes \subseteq Pairs
         /\ entries \in Entries
         /\ fate \in Seq(Fate)
  BY DEF CopyTypeOK, Entries, Fate

\* The same of the next state.
LEMMA CopyTypesThen ==
  ASSUME todo' \in Seq(Pairs), plan' \in Seq(Pairs), errs' \in Seq(Pairs),
         dir' \in BOOLEAN, memory' \in BOOLEAN, outputLost' \in BOOLEAN, writes' \subseteq Pairs,
         entries' \in Entries, fate' \in Seq(Fate),
         req' \in Requests, phase' \in {"check", "open", "locate", "plan", "transfer", "show", "exit"},
         opened' \subseteq touched', touched' \subseteq {"cs", "store"}, rest' = {},
         code' \in {Running, 0, 1, 2}
  PROVE  CopyTypeOK'
  BY DEF CopyTypeOK, Entries, Fate

LEMMA CopyStarts ==
  ASSUME CopyInit
  PROVE  CopyInv
  <1> USE DEF CopyInit
  <1>1. CopyTypeOK
    <2>1. todo \in Seq(Pairs) /\ plan \in Seq(Pairs) /\ errs \in Seq(Pairs)
      OBVIOUS
    <2>2. \A S : <<>> \in Seq(S)
      OBVIOUS
    <2> QED
      BY <2>1, <2>2, Zenon DEF CopyTypeOK
  <1>2. Opening
    BY CopyAssumption DEF Opening
  <1>3. ToSet(<<>>) = {}
    BY DEF ToSet
  <1>4. PairsKept
    BY <1>3 DEF PairsKept, Running
  <1>5. FailuresKept /\ EntriesOfPlan
    BY DEF FailuresKept, EntriesOfPlan
  <1>6. Exited
    BY DEF Exited, Running
  <1> QED
    BY <1>1, <1>2, <1>4, <1>5, <1>6 DEF CopyInv

LEMMA CopyUnchanged ==
  ASSUME CopyInv, UNCHANGED copyVars
  PROVE  CopyInv'
  <1> USE DEF copyVars, outcome
  <1>1. CopyTypeOK'
    BY DEF CopyInv, CopyTypeOK
  <1>2. Asked' = Asked
    BY AskedStays
  <1>3. Opening'
    BY DEF CopyInv, Opening
  <1>4. PairsKept'
    BY <1>2, FateForms DEF CopyInv, PairsKept
  <1>5. (\A p : Marked(p)' <=> Marked(p))
    BY DEF Marked
  <1>6. FailuresKept'
    BY <1>2, <1>5, FateForms DEF CopyInv, FailuresKept
  <1>7. EntriesOfPlan' /\ Exited'
    BY <1>2 DEF CopyInv, EntriesOfPlan, Exited
  <1> QED
    BY <1>1, <1>3, <1>4, <1>6, <1>7 DEF CopyInv

\* Before anything is planned: the copy goes on, or exits.
LEMMA StillOpening ==
  ASSUME CopyInv, phase \in {"check", "open", "locate"},
         UNCHANGED <<req, plan, errs, entries, rest, writes, fate, outputLost>>,
         todo' \in Seq(Pairs), phase' = "plan" => ToSet(todo') = ToSet(Asked),
         phase' # "plan" => todo' = todo /\ memory' = memory,
         phase' \in {"open", "locate", "plan", "exit"},
         phase' = "exit" => opened' = {} /\ code' \in {1, 2} /\ (Usage(req) => code' = 1),
         phase' = "exit" /\ code' = 1 => touched' = {} /\ (Usage(req) \/ ~req.cached),
         phase' = "open" => touched' = {},
         phase' # "exit" => code' = code /\ ~Usage(req),
         memory' => req.dryRun
  PROVE  Opening' /\ PairsKept' /\ FailuresKept' /\ EntriesOfPlan' /\ Exited'
  <1>1. /\ plan = <<>> /\ errs = <<>> /\ fate = <<>> /\ entries = <<>> /\ todo = <<>> /\ rest = {}
        /\ writes = {} /\ ~outputLost
    BY DEF CopyInv, Opening, FailuresKept
  <1>2. Asked' = Asked
    BY AskedStays
  <1>3. ToSet(<<>>) = {}
    BY DEF ToSet
  <1>4. code = Running
    BY DEF CopyInv, Exited
  <1>5. Opening'
    BY <1>1 DEF Opening
  <1>6. PairsKept'
    <2>1. (ToSet(todo) \cup ToSet(plan) \cup ToSet(errs) \subseteq ToSet(Asked))'
      BY <1>1, <1>2, <1>3
    <2>2. phase' # "transfer" /\ phase' # "show" /\ code' # 0
      BY <1>4 DEF Running
    <2>3. ASSUME phase' = "plan" PROVE \A pair \in ToSet(Asked') : Contains(todo, pair)'
      <3>1. \A x : Contains(todo', x) <=> x \in ToSet(todo')
        BY ContainsIsIn
      <3> QED
        BY <1>2, <2>3, <3>1
    <2> QED
      BY <2>1, <2>2, <2>3 DEF PairsKept
  <1>7. FailuresKept'
    BY <1>1, <1>3 DEF FailuresKept
  <1>8. EntriesOfPlan'
    BY <1>1 DEF EntriesOfPlan
  <1>9. Exited'
    BY <1>1, <1>4 DEF Exited, Running
  <1> QED
    BY <1>5, <1>6, <1>7, <1>8, <1>9

LEMMA CheckUsageKeeps ==
  ASSUME CopyInv, CheckUsage
  PROVE  CopyInv'
  <1>1. CopyTypeOK
    BY DEF CopyInv
  <1>2. /\ phase = "check" /\ touched = {}
        /\ UNCHANGED <<req, dir, touched, memory, todo, plan, errs, entries, rest, writes, fate, outputLost>>
    BY DEF CheckUsage, outcome, CopyInv, Opening
  <1>3. \/ Usage(req) /\ phase' = "exit" /\ code' = 1 /\ opened' = {}
        \/ ~Usage(req) /\ phase' = "open" /\ code' = code /\ opened' = opened
    BY DEF CheckUsage, Exits, ExitCode
  <1>4. memory => req.dryRun
    BY DEF CopyInv, Opening
  <1>5. todo \in Seq(Pairs)
    BY <1>1, CopyTypes
  <1>6. Opening' /\ PairsKept' /\ FailuresKept' /\ EntriesOfPlan' /\ Exited'
    BY <1>2, <1>3, <1>4, <1>5, StillOpening
  <1>7. CopyTypeOK'
    <2>1. req \in Requests /\ code \in {Running, 0, 1, 2} /\ rest = {}
      BY DEF CopyInv, CopyTypeOK, FailuresKept
    <2> QED
      BY <1>1, <1>2, <1>3, <2>1, CopyTypes, CopyTypesThen
  <1> QED
    BY <1>6, <1>7 DEF CopyInv

LEMMA OpenStorageKeeps ==
  ASSUME CopyInv, OpenStorage
  PROVE  CopyInv'
  <1>1. CopyTypeOK
    BY DEF CopyInv
  <1>2. /\ phase = "open" /\ touched = {}
        /\ UNCHANGED <<req, dir, memory, todo, plan, errs, entries, rest, writes, fate, outputLost>>
    BY DEF OpenStorage, outcome, CopyInv, Opening
  <1>3. \/ phase' = "locate" /\ code' = code /\ opened' = {"cs"} /\ touched' = {"cs"}
        \/ phase' = "exit" /\ code' = 2 /\ opened' = {} /\ touched' \in {{}, {"cs"}}
        \/ phase' = "exit" /\ code' = 1 /\ opened' = {} /\ touched' = {} /\ ~req.cached
    BY <1>2 DEF OpenStorage, Exits, ExitCode
  <1>4. (memory => req.dryRun) /\ ~Usage(req)
    BY <1>2 DEF CopyInv, Opening
  <1>5. todo \in Seq(Pairs)
    BY <1>1, CopyTypes
  <1>6. Opening' /\ PairsKept' /\ FailuresKept' /\ EntriesOfPlan' /\ Exited'
    BY <1>2, <1>3, <1>4, <1>5, StillOpening
  <1>7. CopyTypeOK'
    <2>1. req \in Requests /\ code \in {Running, 0, 1, 2} /\ rest = {}
      BY DEF CopyInv, CopyTypeOK, FailuresKept
    <2> QED
      BY <1>1, <1>2, <1>3, <2>1, CopyTypes, CopyTypesThen
  <1> QED
    BY <1>6, <1>7 DEF CopyInv

LEMMA OpenStoreKeeps ==
  ASSUME CopyInv, OpenStore
  PROVE  CopyInv'
  <1>1. CopyTypeOK /\ req \in Requests /\ phase = "locate"
    BY DEF CopyInv, CopyTypeOK, OpenStore
  <1>2. ~Usage(req) /\ (memory => req.dryRun)
    BY <1>1 DEF CopyInv, Opening
  <1>3. UNCHANGED <<req, plan, errs, entries, rest, writes, fate, outputLost>>
    BY DEF OpenStore, outcome
  <1> DEFINE order == IF IsPush(req) THEN Asked ELSE ByPlatform(ParseSet(req.images), req.platforms)
  <1>4. order \in Seq(Pairs) /\ ToSet(order) = ToSet(Asked)
    BY <1>1, <1>2, AskedOnce
  <1>5. dir \in BOOLEAN /\ memory \in BOOLEAN /\ todo \in Seq(Pairs)
    BY <1>1, CopyTypes
  <1> HIDE DEF order
  <1>6. \/ /\ phase' = "plan" /\ opened' = opened \cup {"store"} /\ code' = code /\ todo' = order
           /\ touched' = touched \cup {"store"}
           /\ memory' \in BOOLEAN /\ dir' \in BOOLEAN
           /\ memory' => req.dryRun
        \/ /\ phase' = "exit" /\ opened' = {} /\ code' = 2 /\ todo' = todo /\ memory' = memory
           /\ dir' \in BOOLEAN /\ touched' = touched
    <2>1. CASE /\ dir' = (dir \/ (StoreLocation = "file" /\ Mode = "create"))
               /\ memory' = (StoreLocation = "file" /\ ~dir /\ Mode = "emptyIfMissing")
               /\ phase' = "plan" /\ opened' = opened \cup {"store"} /\ todo' = order /\ code' = code
               /\ touched' = touched \cup {"store"}
      BY <2>1 DEF Mode
    <2>2. CASE /\ Exits("failure") /\ UNCHANGED <<touched, memory, todo>>
               /\ dir' \in {dir, dir \/ (StoreLocation = "file" /\ Mode = "create")}
      BY <1>5, <2>2 DEF Exits, ExitCode
    <2> QED
      BY <2>1, <2>2 DEF OpenStore, order
  <1>7. Opening' /\ PairsKept' /\ FailuresKept' /\ EntriesOfPlan' /\ Exited'
    BY <1>1, <1>2, <1>3, <1>4, <1>5, <1>6, StillOpening
  <1>8. CopyTypeOK'
    <2>1. code \in {Running, 0, 1, 2} /\ rest = {} /\ opened \subseteq touched
          /\ touched \subseteq {"cs", "store"}
      BY DEF CopyInv, CopyTypeOK, FailuresKept
    <2>2. opened' \subseteq touched' /\ touched' \subseteq {"cs", "store"} /\ code' \in {Running, 0, 1, 2} /\ todo' \in Seq(Pairs)
          /\ phase' \in {"plan", "exit"} /\ dir' \in BOOLEAN /\ memory' \in BOOLEAN
      BY <1>4, <1>5, <1>6, <2>1
    <2> QED
      BY <1>1, <1>3, <2>1, <2>2, CopyTypes, CopyTypesThen
  <1> QED
    BY <1>7, <1>8 DEF CopyInv

LEMMA ShowKeeps ==
  ASSUME CopyInv, Show
  PROVE  CopyInv'
  <1>1. CopyTypeOK /\ req \in Requests /\ phase = "show"
    BY DEF CopyInv, CopyTypeOK, Show
  <1>2. UNCHANGED <<req, dir, touched, memory, todo, plan, errs, entries, rest, writes, fate>>
    BY DEF Show
  <1>3. phase' = "exit" /\ opened' = {} /\ rest = {}
    BY DEF Show, Exits, CopyInv, FailuresKept
  <1>4. code' = (IF Failed = 0 /\ ~outputLost' THEN 0 ELSE 2) /\ outputLost' \in BOOLEAN
    BY <1>1, <1>3 DEF Show, Exits, ExitCode, CopyTypeOK, Renders
  <1>5. Failed = 0 <=> \A j \in DOMAIN entries : ~(entries[j].fails > 0)
    <2> DEFINE F == {j \in DOMAIN entries : entries[j].fails > 0}
    <2>1. entries \in Entries
      BY <1>1, CopyTypes
    <2>2. DOMAIN entries = 1..Len(entries) /\ Len(entries) \in Nat
      BY <2>1 DEF Entries
    <2>3. IsFiniteSet(F)
      <3>1. IsFiniteSet(1..Len(entries))
        BY <2>2, FS_Interval
      <3>2. F \subseteq 1..Len(entries)
        BY <2>2
      <3> QED
        BY <3>1, <3>2, FS_Subset
    <2>4. Failed = Cardinality(F)
      BY DEF Failed
    <2>5. Failed = 0 <=> F = {}
      <3> HIDE DEF F
      <3> QED
        BY <2>3, <2>4, FS_EmptySet
    <2> QED
      BY <2>5
  <1>6. \A j \in DOMAIN entries : entries[j].fails \in Nat
    <2> DEFINE E == [ref : Refs, platform : Platforms, planned : BOOLEAN, fails : Nat]
    <2>1. entries \in Seq(E)
      BY <1>1, CopyTypes DEF Entries
    <2> HIDE DEF E
    <2>2. \A j \in DOMAIN entries : entries[j] \in E
      BY <2>1
    <2> QED
      BY <2>2 DEF E
  <1>7. Asked' = Asked
    BY <1>2, AskedStays
  <1>8. Opening'
    BY <1>1, <1>2, <1>3 DEF CopyInv, Opening
  <1>9. PairsKept'
    <2>1. \A pair \in ToSet(Asked) : Fated(pair)
      BY <1>1 DEF CopyInv, PairsKept
    <2> QED
      BY <1>2, <1>3, <1>7, <2>1, FateForms DEF CopyInv, PairsKept
  <1>10. (\A p : Marked(p)' <=> Marked(p))
    BY <1>2 DEF Marked
  <1>11. FailuresKept'
    BY <1>1, <1>2, <1>3, <1>10, FateForms DEF CopyInv, FailuresKept
  <1>12. EntriesOfPlan'
    BY <1>1, <1>2, <1>7 DEF CopyInv, EntriesOfPlan
  <1>13. Exited'
    <2>1. ~Usage(req)
      BY <1>1 DEF CopyInv, Opening
    <2> QED
      BY <1>2, <1>3, <1>4, <1>5, <1>6, <2>1 DEF Exited, Running
  <1>14. CopyTypeOK'
    BY <1>1, <1>2, <1>3, <1>4, CopyTypes, CopyTypesThen
  <1> QED
    BY <1>8, <1>9, <1>11, <1>12, <1>13, <1>14 DEF CopyInv

LEMMA PlanEntryKeeps ==
  ASSUME CopyInv, PlanEntry
  PROVE  CopyInv'
  <1> DEFINE head == Head(todo)
  <1>1. CopyTypeOK /\ req \in Requests /\ phase = "plan"
    BY DEF CopyInv, CopyTypeOK, PlanEntry
  <1>2. /\ UNCHANGED <<req, phase, dir, opened, touched, memory, entries, rest, writes, outputLost, code>>
        /\ todo # <<>> /\ todo' = Tail(todo)
    BY DEF PlanEntry
  <1>3. \/ plan' = Append(plan, head) /\ errs' = errs /\ fate' = fate
        \/ /\ errs' = Append(errs, head) /\ plan' = plan
           /\ fate' = Append(fate, [pair |-> head, ok |-> FALSE])
    BY DEF PlanEntry
  <1>4. /\ todo \in Seq(Pairs) /\ plan \in Seq(Pairs) /\ errs \in Seq(Pairs)
        /\ fate \in Seq(Fate)
    BY <1>1, CopyTypes
  <1> HIDE DEF head
  <1>5. /\ head \in Pairs /\ todo' \in Seq(Pairs)
        /\ ToSet(todo) = ToSet(todo') \cup {head}
    BY <1>2, <1>4, OneLess DEF head
  <1>6. \/ /\ plan' \in Seq(Pairs) /\ ToSet(plan') = ToSet(plan) \cup {head}
           /\ errs' = errs /\ fate' = fate
        \/ /\ errs' \in Seq(Pairs) /\ ToSet(errs') = ToSet(errs) \cup {head}
           /\ plan' = plan /\ fate' \in Seq(Fate)
           /\ \A p : HasFate(fate', p) <=> HasFate(fate, p) \/ p = head
           /\ \A p : HasFailed(fate', p) <=> HasFailed(fate, p) \/ p = head
    <2>1. ASSUME plan' = Append(plan, head)
          PROVE  plan' \in Seq(Pairs) /\ ToSet(plan') = ToSet(plan) \cup {head}
      BY <1>4, <1>5, <2>1, OneMore
    <2>2. ASSUME errs' = Append(errs, head)
          PROVE  errs' \in Seq(Pairs) /\ ToSet(errs') = ToSet(errs) \cup {head}
      BY <1>4, <1>5, <2>2, OneMore
    <2>3. ASSUME fate' = Append(fate, [pair |-> head, ok |-> FALSE])
          PROVE  /\ fate' \in Seq(Fate)
                 /\ \A p : HasFate(fate', p) <=> HasFate(fate, p) \/ p = head
                 /\ \A p : HasFailed(fate', p) <=> HasFailed(fate, p) \/ p = head
      <3> DEFINE r == [pair |-> head, ok |-> FALSE]
      <3>1. r \in Fate /\ r.pair = head /\ ~r.ok
        BY <1>5 DEF Fate
      <3>2. fate' = Append(fate, r)
        BY <2>3
      <3> HIDE DEF r
      <3> QED
        BY <1>4, <3>1, <3>2, FateAdded
    <2> QED
      BY <1>3, <2>1, <2>2, <2>3
  <1>7. plan' \in Seq(Pairs) /\ errs' \in Seq(Pairs) /\ fate' \in Seq(Fate)
    BY <1>4, <1>6
  <1>8. /\ \A p : Contains(todo, p) <=> p \in ToSet(todo)
        /\ \A p : Contains(plan, p) <=> p \in ToSet(plan)
        /\ \A p : Contains(errs, p) <=> p \in ToSet(errs)
        /\ \A p : Contains(todo', p) <=> p \in ToSet(todo')
        /\ \A p : Contains(plan', p) <=> p \in ToSet(plan')
        /\ \A p : Contains(errs', p) <=> p \in ToSet(errs')
    BY <1>4, <1>5, <1>7, ContainsIsIn
  <1>9. Asked' = Asked
    BY <1>2, AskedStays
  <1>10. /\ entries = <<>> /\ rest = {} /\ code = Running /\ DOMAIN entries = {}
    BY <1>1 DEF CopyInv, Opening, FailuresKept, Exited
  <1>11. Opening'
    BY <1>1, <1>2 DEF CopyInv, Opening
  <1>12. PairsKept'
    <2>1. /\ ToSet(todo) \cup ToSet(plan) \cup ToSet(errs) \subseteq ToSet(Asked)
          /\ \A p \in ToSet(Asked) : p \in ToSet(todo) \/ p \in ToSet(plan) \/ HasFate(fate, p)
      BY <1>1, <1>8, FateForms DEF CopyInv, PairsKept
    <2>2. ToSet(todo') \cup ToSet(plan') \cup ToSet(errs') \subseteq ToSet(Asked)
      BY <1>5, <1>6, <2>1
    <2>3. \A p \in ToSet(Asked) : p \in ToSet(todo') \/ p \in ToSet(plan') \/ HasFate(fate', p)
      BY <1>5, <1>6, <2>1
    <2>4. phase' = "plan" /\ code' = Running
      BY <1>1, <1>2, <1>10
    <2> QED
      BY <1>8, <1>9, <2>2, <2>3, <2>4, FateForms DEF PairsKept, Running
  <1>13. FailuresKept'
    <2>1. \A p \in ToSet(errs) : HasFailed(fate, p)
      BY <1>1, FateForms DEF CopyInv, FailuresKept
    <2>2. \A p : ~Marked(p)
      BY <1>10 DEF Marked
    <2>3. ASSUME NEW p, HasFailed(fate, p) PROVE p \in ToSet(errs)
      <3>1. PICK i \in DOMAIN fate : fate[i].pair = p /\ ~fate[i].ok
        BY <2>3 DEF HasFailed
      <3> QED
        BY <1>8, <2>2, <3>1 DEF CopyInv, FailuresKept
    <2>4. \A p \in ToSet(errs') : HasFailed(fate', p)
      BY <1>6, <2>1
    <2>5. \A p : HasFailed(fate', p) => p \in ToSet(errs')
      BY <1>6, <2>3
    <2>6. \A i \in DOMAIN fate' : ~fate'[i].ok => Contains(errs', fate'[i].pair)
      BY <1>8, <2>5 DEF HasFailed
    <2>7. phase' = "plan" /\ rest' = {} /\ DOMAIN entries' = {}
      BY <1>1, <1>2, <1>10
    <2> QED
      BY <2>4, <2>6, <2>7, FateForms DEF FailuresKept
  <1>14. EntriesOfPlan'
    BY <1>1, <1>2, <1>10 DEF EntriesOfPlan
  <1>15. Exited'
    BY <1>1, <1>2, <1>10 DEF Exited, Running
  <1>16. CopyTypeOK'
    <2>1. code \in {Running, 0, 1, 2}
      BY <1>1 DEF CopyTypeOK
    <2> QED
      BY <1>1, <1>2, <1>5, <1>7, <1>10, <2>1, CopyTypes, CopyTypesThen
  <1> QED
    BY <1>11, <1>12, <1>13, <1>14, <1>15, <1>16 DEF CopyInv

\* newResult makes an entry of every pair asked for, in order, with no failure.
LEMMA NewResultShape ==
  ASSUME NEW asked \in Seq(Pairs), NEW p
  PROVE  /\ NewResult(asked, p) \in Entries
         /\ DOMAIN NewResult(asked, p) = DOMAIN asked
         /\ \A j \in DOMAIN asked :
              /\ PairOf(NewResult(asked, p)[j]) = asked[j]
              /\ NewResult(asked, p)[j].planned = (Count(p, asked[j]) >= Count(SubSeq(asked, 1, j), asked[j]))
              /\ NewResult(asked, p)[j].fails = 0
  <1> DEFINE es == NewResult(asked, p)
             enough(j) == Count(p, asked[j]) >= Count(SubSeq(asked, 1, j), asked[j])
             E == [ref : Refs, platform : Platforms, planned : BOOLEAN, fails : Nat]
  <1>1. /\ DOMAIN asked = 1..Len(asked) /\ Len(asked) \in Nat
        /\ \A j \in DOMAIN asked : asked[j] \in Pairs
    OBVIOUS
  <1>2. \A j : enough(j) \in BOOLEAN
    OBVIOUS
  <1>3. es = [j \in DOMAIN asked |-> [ref |-> asked[j][1], platform |-> asked[j][2], fails |-> 0,
                                      planned |-> enough(j)]]
    BY DEF NewResult
  <1> HIDE DEF es, enough
  <1>4. ASSUME NEW j \in DOMAIN asked
        PROVE  /\ es[j] \in E /\ PairOf(es[j]) = asked[j] /\ es[j].planned = enough(j) /\ es[j].fails = 0
    <2>1. /\ asked[j] = <<asked[j][1], asked[j][2]>>
          /\ asked[j][1] \in Refs /\ asked[j][2] \in Platforms
      BY <1>1 DEF Pairs
    <2>2. es[j] = [ref |-> asked[j][1], platform |-> asked[j][2], fails |-> 0, planned |-> enough(j)]
      BY <1>3
    <2> QED
      BY <1>2, <2>1, <2>2 DEF PairOf
  <1>5. DOMAIN es = DOMAIN asked /\ es = [j \in 1..Len(asked) |-> es[j]]
    BY <1>1, <1>3
  <1>6. es \in Entries
    <2> HIDE DEF E
    <2>1. es \in Seq(E)
      BY <1>1, <1>4, <1>5
    <2> QED
      BY <2>1 DEF E, Entries
  <1> QED
    BY <1>4, <1>5, <1>6 DEF es, enough

LEMMA PlannedKeeps ==
  ASSUME CopyInv, Planned
  PROVE  CopyInv'
  <1> DEFINE es == NewResult(Asked, plan)
             later == [i \in DOMAIN plan |-> [pair |-> plan[i], ok |-> TRUE]]
  <1>1. CopyTypeOK /\ req \in Requests /\ phase = "plan" /\ todo = <<>> /\ req.dryRun \in BOOLEAN
    BY CopyAssumption DEF CopyInv, CopyTypeOK, Planned
  <1>2. /\ UNCHANGED <<req, dir, opened, touched, memory, plan, writes, code>> /\ outputLost' \in BOOLEAN
        /\ entries' = RecordAll(es, errs) /\ rest' = Unmatched(es, errs) /\ errs' = <<>>
    BY DEF Planned
  <1>3. /\ plan \in Seq(Pairs) /\ errs \in Seq(Pairs) /\ todo \in Seq(Pairs)
        /\ fate \in Seq(Fate)
    BY <1>1, CopyTypes
  <1>4. Asked \in Seq(Pairs) /\ ~Usage(req)
    BY <1>1, AskedOnce DEF CopyInv, Opening
  <1>5. /\ es \in Entries /\ DOMAIN es = DOMAIN Asked
        /\ \A j \in DOMAIN Asked :
             /\ PairOf(es[j]) = Asked[j]
             /\ es[j].planned = (Count(plan, Asked[j]) >= Count(SubSeq(Asked, 1, j), Asked[j]))
             /\ es[j].fails = 0
    BY <1>4, NewResultShape
  <1> HIDE DEF es
  <1>6. /\ ToSet(plan) \cup ToSet(errs) \subseteq ToSet(Asked)
        /\ \A p \in ToSet(Asked) : p \in ToSet(plan) \/ HasFate(fate, p)
    <2>1. \A p : Contains(todo, p) <=> FALSE
      BY <1>1 DEF Contains
    <2>2. \A p : Contains(plan, p) <=> p \in ToSet(plan)
      BY <1>3, ContainsIsIn
    <2> QED
      BY <1>1, <2>1, <2>2, FateForms DEF CopyInv, PairsKept
  <1>7. \A p \in ToSet(errs) : \E j \in DOMAIN es : PairOf(es[j]) = p
    <2>1. \A p \in ToSet(Asked) : \E j \in DOMAIN Asked : Asked[j] = p
      BY DEF ToSet
    <2> QED
      BY <1>5, <1>6, <2>1
  <1>8. /\ entries' \in Entries /\ DOMAIN entries' = DOMAIN Asked
        /\ \A j \in DOMAIN Asked :
             /\ PairOf(entries'[j]) = Asked[j]
             /\ entries'[j].planned = (Count(plan, Asked[j]) >= Count(SubSeq(Asked, 1, j), Asked[j]))
             /\ entries'[j].fails > 0 => Contains(errs, Asked[j])
    <2>1. /\ entries' \in Entries /\ DOMAIN entries' = DOMAIN es
          /\ \A j \in DOMAIN es :
               /\ entries'[j].ref = es[j].ref /\ entries'[j].platform = es[j].platform
               /\ entries'[j].planned = es[j].planned
               /\ entries'[j].fails > 0 => es[j].fails > 0 \/ Contains(errs, PairOf(es[j]))
      BY <1>2, <1>3, <1>5, RecordMarks
    <2>2. \A j \in DOMAIN es : PairOf(entries'[j]) = PairOf(es[j])
      BY <2>1 DEF PairOf
    <2> QED
      BY <1>5, <2>1, <2>2
  <1>9. \A p \in ToSet(errs) : Marked(p)'
    <2> SUFFICES ASSUME NEW p \in ToSet(errs) PROVE Marked(p)'
      OBVIOUS
    <2>a. RecordAll(es, errs) \in Entries
      BY <1>2, <1>8
    <2>1. Shows(entries', p)
      BY <1>2, <1>3, <1>5, <1>7, <2>a, RecordMarks
    <2> QED
      BY <2>1 DEF Marked, Shows, PairOf
  <1>10. rest' = {}
    <2>1. \A p \in ToSet(errs) : EntryOf(es, p) # 0
      BY <1>3, <1>5, <1>7, RecordMarks
    <2> QED
      BY <1>2, <2>1 DEF Unmatched
  <1>11. \/ /\ ~req.dryRun /\ phase' = "transfer" /\ todo' = plan /\ fate' = fate
         \/ /\ req.dryRun /\ phase' = "show" /\ todo' = <<>> /\ fate' = fate \o later
    <2>1. /\ phase' = IF rest' # {} \/ req.dryRun THEN "show" ELSE "transfer"
          /\ todo' = IF phase' = "show" THEN <<>> ELSE plan
          /\ fate' = IF phase' = "show"
                     THEN fate \o [i \in DOMAIN plan |-> [pair |-> plan[i], ok |-> req.dryRun]] ELSE fate
      BY DEF Planned
    <2>2. CASE req.dryRun
      <3>1. req.dryRun = TRUE
        BY <1>1, <2>2
      <3>2. fate' = fate \o later
        BY <2>1, <2>2, <3>1
      <3> QED
        BY <2>1, <2>2, <3>2
    <2>3. CASE ~req.dryRun
      BY <1>10, <2>1, <2>3
    <2> QED
      BY <2>2, <2>3
  <1>12. /\ fate' \in Seq(Fate) /\ todo' \in Seq(Pairs) /\ ToSet(todo') \subseteq ToSet(plan)
         /\ \A p : HasFailed(fate', p) <=> HasFailed(fate, p)
         /\ \A p : HasFate(fate, p) => HasFate(fate', p)
         /\ phase' = "transfer" => ToSet(todo') = ToSet(plan)
         /\ phase' = "show" => \A p \in ToSet(plan) : HasFate(fate', p)
    <2>1. CASE fate' = fate /\ todo' = plan /\ phase' = "transfer"
      BY <1>3, <2>1
    <2>2. CASE fate' = fate \o later /\ todo' = <<>> /\ phase' = "show"
      <3>1. /\ fate' \in Seq(Fate)
            /\ \A p : HasFate(fate', p) <=> HasFate(fate, p) \/ p \in ToSet(plan)
            /\ \A p : HasFailed(fate', p) <=> HasFailed(fate, p)
        <4>1. /\ fate \o later \in Seq(Fate)
              /\ \A p : HasFate(fate \o later, p) <=> HasFate(fate, p) \/ p \in ToSet(plan)
              /\ \A p : HasFailed(fate \o later, p) <=> HasFailed(fate, p)
          BY <1>3, FatesAdded
        <4> HIDE DEF later
        <4> QED
          BY <2>2, <4>1
      <3>2. todo' \in Seq(Pairs) /\ ToSet(todo') = {}
        <4>1. <<>> \in Seq(Pairs) /\ ToSet(<<>>) = {}
          BY DEF ToSet
        <4> QED
          BY <2>2, <4>1
      <3>3. /\ \A p : HasFailed(fate', p) <=> HasFailed(fate, p)
            /\ \A p : HasFate(fate, p) => HasFate(fate', p)
            /\ \A p \in ToSet(plan) : HasFate(fate', p)
        BY <3>1, Zenon
      <3> QED
        BY <2>2, <3>1, <3>2, <3>3
    <2> QED
      BY <1>11, <2>1, <2>2
  <1>13. Asked' = Asked /\ phase' \in {"transfer", "show"} /\ code = Running /\ ToSet(<<>>) = {}
    BY <1>1, <1>2, <1>11, AskedStays DEF CopyInv, Exited, ToSet
  <1>14. Opening'
    BY <1>1, <1>2, <1>4, <1>11 DEF CopyInv, Opening
  <1>15. PairsKept'
    <2>1. \A p : Contains(todo', p) <=> p \in ToSet(todo')
      BY <1>12, ContainsIsIn
    <2>2. phase' = "transfer" => \A p \in ToSet(Asked) : p \in ToSet(todo') \/ HasFate(fate', p)
      BY <1>6, <1>12
    <2>3. phase' = "show" => \A p \in ToSet(Asked) : HasFate(fate', p)
      BY <1>6, <1>12
    <2>4. (ToSet(todo) \cup ToSet(plan) \cup ToSet(errs) \subseteq ToSet(Asked))'
      BY <1>2, <1>6, <1>12, <1>13
    <2>5. code' # 0 /\ phase' # "plan"
      BY <1>2, <1>13 DEF Running
    <2> QED
      BY <1>13, <2>1, <2>2, <2>3, <2>4, <2>5, FateForms DEF PairsKept
  <1>16. FailuresKept'
    <2>1. \A p \in ToSet(errs) : HasFailed(fate, p)
      BY <1>1, FateForms DEF CopyInv, FailuresKept
    <2>2. ASSUME NEW p, HasFailed(fate, p) PROVE p \in ToSet(errs)
      <3>1. PICK i \in DOMAIN fate : fate[i].pair = p /\ ~fate[i].ok
        BY <2>2 DEF HasFailed
      <3>2. ~Marked(p)
        BY <1>1 DEF CopyInv, Opening, Marked
      <3>3. Contains(errs, p)
        BY <3>1, <3>2 DEF CopyInv, FailuresKept
      <3> QED
        BY <1>3, <3>3, ContainsIsIn
    <2>3. \A i \in DOMAIN fate' : ~fate'[i].ok => Marked(fate[i].pair)'
      BY <1>9, <1>12, <2>2 DEF HasFailed
    <2>4. \A j \in DOMAIN entries' : entries'[j].fails > 0 => HasFailed(fate', PairOf(entries'[j]))
      <3>1. \A p : Contains(errs, p) <=> p \in ToSet(errs)
        BY <1>3, ContainsIsIn
      <3> QED
        BY <1>8, <1>12, <2>1, <3>1
    <2>5. \A j \in DOMAIN entries' :
            entries'[j].fails > 0 => HasFailed(fate', <<entries'[j].ref, entries'[j].platform>>)
      BY <2>4 DEF PairOf
    <2>6. phase' # "plan" /\ errs' = <<>> /\ ToSet(errs') = {}
      BY <1>2, <1>13
    <2> QED
      BY <1>10, <2>3, <2>5, <2>6, FateForms DEF FailuresKept
  <1>17. EntriesOfPlan'
    BY <1>2, <1>8, <1>13 DEF EntriesOfPlan, PairOf
  <1>18. Exited'
    BY <1>2, <1>13 DEF Exited, Running
  <1>19. CopyTypeOK'
    <2>1. code \in {Running, 0, 1, 2} /\ errs' \in Seq(Pairs)
      BY <1>1, <1>2 DEF CopyTypeOK
    <2> QED
      BY <1>1, <1>2, <1>8, <1>10, <1>12, <1>13, <2>1, CopyTypes, CopyTypesThen
  <1> QED
    BY <1>14, <1>15, <1>16, <1>17, <1>18, <1>19 DEF CopyInv

LEMMA UploadsFailKeeps ==
  ASSUME CopyInv, UploadsFail
  PROVE  CopyInv'
  <1>1. CopyTypeOK /\ req \in Requests /\ phase = "transfer" /\ todo = plan /\ errs = <<>>
    BY DEF CopyInv, CopyTypeOK, UploadsFail
  <1>2. UNCHANGED <<req, phase, dir, opened, touched, memory, todo, plan, entries, rest, writes, fate,
                    outputLost, code>>
    BY DEF UploadsFail, outcome
  <1>3. plan \in Seq(Pairs) /\ todo \in Seq(Pairs) /\ fate \in Seq(Fate)
    BY <1>1, CopyTypes
  <1>4. errs' \in Seq(Pairs) /\ ToSet(errs') \subseteq ToSet(plan)
    <2>1. PICK F \in SUBSET (DOMAIN plan) \ {{}} : \E s \in SetToSeqs(F) :
                 errs' = [i \in DOMAIN s |-> plan[s[i]]]
      BY DEF UploadsFail
    <2>2. PICK s \in SetToSeqs(F) : errs' = [i \in DOMAIN s |-> plan[s[i]]]
      BY <2>1
    <2>3. /\ DOMAIN plan = 1..Len(plan) /\ Len(plan) \in Nat
          /\ \A i \in DOMAIN plan : plan[i] \in Pairs
      BY <1>3
    <2>4. IsFiniteSet(F) /\ Cardinality(F) \in Nat
      <3>1. IsFiniteSet(1..Len(plan)) /\ F \subseteq 1..Len(plan)
        BY <2>1, <2>3, FS_Interval
      <3> QED
        BY <3>1, FS_Subset, FS_CardinalityType
    <2>5. s \in [1..Cardinality(F) -> F]
      BY <2>2 DEF SetToSeqs
    <2>6. \A i \in 1..Cardinality(F) : s[i] \in DOMAIN plan /\ errs'[i] = plan[s[i]]
      BY <2>1, <2>2, <2>5
    <2> DEFINE n == Cardinality(F)
    <2>7. DOMAIN errs' = 1..n /\ errs' = [i \in 1..n |-> errs'[i]]
      BY <2>2, <2>5
    <2> HIDE DEF n
    <2>8. errs' \in Seq(Pairs)
      BY <2>3, <2>4, <2>6, <2>7 DEF n
    <2> QED
      BY <2>6, <2>7, <2>8 DEF ToSet, n
  <1>5. Asked' = Asked
    BY <1>2, AskedStays
  <1>6. Opening'
    BY <1>1, <1>2 DEF CopyInv, Opening
  <1>7. PairsKept'
    <2>1. /\ ToSet(plan) \subseteq ToSet(Asked)
          /\ \A p \in ToSet(Asked) : Contains(todo, p) \/ Fated(p)
      BY <1>1 DEF CopyInv, PairsKept
    <2>2. code' # 0
      BY <1>1, <1>2 DEF CopyInv, Exited, Running
    <2>3. (ToSet(todo) \cup ToSet(plan) \cup ToSet(errs) \subseteq ToSet(Asked))'
      BY <1>1, <1>2, <1>4, <1>5, <2>1
    <2>4. \A p \in ToSet(Asked') : Contains(todo', p) \/ Fated(p)'
      BY <1>2, <1>5, <2>1, FateForms
    <2> QED
      BY <1>1, <1>2, <2>2, <2>3, <2>4 DEF PairsKept
  <1>8. FailuresKept'
    <2>1. \A i \in DOMAIN fate : ~fate[i].ok => Marked(fate[i].pair)
      <3>1. \A p : ~Contains(errs, p)
        BY <1>1 DEF Contains
      <3> QED
        BY <3>1 DEF CopyInv, FailuresKept
    <2>2. \A p : Marked(p)' <=> Marked(p)
      BY <1>2 DEF Marked
    <2>3. \A p \in ToSet(errs') : Contains(todo, p)
      BY <1>1, <1>3, <1>4, ContainsIsIn
    <2>4. /\ rest = {}
          /\ \A j \in DOMAIN entries :
               entries[j].fails > 0 => HasFailed(fate, <<entries[j].ref, entries[j].platform>>)
      BY FateForms DEF CopyInv, FailuresKept
    <2> QED
      BY <1>1, <1>2, <2>1, <2>2, <2>3, <2>4, FateForms DEF FailuresKept
  <1>9. EntriesOfPlan'
    BY <1>2, <1>5 DEF CopyInv, EntriesOfPlan
  <1>10. Exited'
    BY <1>1, <1>2 DEF CopyInv, Exited, Running
  <1>11. CopyTypeOK'
    <2>1. code \in {Running, 0, 1, 2} /\ rest = {}
      BY <1>1 DEF CopyInv, CopyTypeOK, FailuresKept
    <2> QED
      BY <1>1, <1>2, <1>4, <2>1, CopyTypes, CopyTypesThen
  <1> QED
    BY <1>6, <1>7, <1>8, <1>9, <1>10, <1>11 DEF CopyInv

LEMMA TransferEntryKeeps ==
  ASSUME CopyInv, TransferEntry
  PROVE  CopyInv'
  <1> DEFINE head == Head(todo)
             bad == Contains(errs, head)
  <1>1. CopyTypeOK /\ req \in Requests /\ phase = "transfer"
    BY DEF CopyInv, CopyTypeOK, TransferEntry
  <1>2. /\ UNCHANGED <<req, phase, dir, opened, touched, memory, plan, entries, rest, outputLost, code>>
        /\ todo # <<>> /\ todo' = Tail(todo)
    BY DEF TransferEntry
  <1>3. /\ todo \in Seq(Pairs) /\ plan \in Seq(Pairs) /\ errs \in Seq(Pairs)
        /\ fate \in Seq(Fate) /\ writes \subseteq Pairs
    BY <1>1, CopyTypes
  <1>4. /\ \/ errs' = errs /\ fate' = Append(fate, [pair |-> head, ok |-> ~bad])
           \/ errs' = Append(errs, head) /\ fate' = Append(fate, [pair |-> head, ok |-> FALSE])
        /\ writes' \subseteq writes \cup {head}
    BY <1>3 DEF TransferEntry
  <1> HIDE DEF head, bad
  <1>5. /\ head \in Pairs /\ todo' \in Seq(Pairs)
        /\ ToSet(todo) = ToSet(todo') \cup {head}
    BY <1>2, <1>3, OneLess DEF head
  <1>6. /\ \A p : Contains(todo, p) <=> p \in ToSet(todo)
        /\ \A p : Contains(todo', p) <=> p \in ToSet(todo')
        /\ \A p : Contains(errs, p) <=> p \in ToSet(errs)
    BY <1>3, <1>5, ContainsIsIn
  <1>7. /\ errs' \in Seq(Pairs) /\ fate' \in Seq(Fate) /\ writes' \subseteq Pairs
        /\ ToSet(errs) \subseteq ToSet(errs') /\ ToSet(errs') \subseteq ToSet(errs) \cup {head}
        /\ \A p : HasFate(fate', p) <=> HasFate(fate, p) \/ p = head
        /\ \A p : HasFailed(fate', p) <=> HasFailed(fate, p) \/ (p = head /\ head \in ToSet(errs'))
    <2>0. writes' \subseteq Pairs
      BY <1>3, <1>4, <1>5
    <2>1. CASE errs' = errs /\ fate' = Append(fate, [pair |-> head, ok |-> ~bad])
      <3> DEFINE r == [pair |-> head, ok |-> ~bad]
      <3>1. r \in Fate /\ r.pair = head /\ (r.ok <=> ~bad)
        BY <1>5 DEF Fate
      <3>2. fate' = Append(fate, r)
        BY <2>1
      <3>3. bad <=> head \in ToSet(errs')
        BY <1>6, <2>1 DEF bad
      <3> HIDE DEF r
      <3>4. /\ fate' \in Seq(Fate)
            /\ \A p : HasFate(fate', p) <=> HasFate(fate, p) \/ p = r.pair
            /\ \A p : HasFailed(fate', p) <=> HasFailed(fate, p) \/ (p = r.pair /\ ~r.ok)
        BY <1>3, <3>1, <3>2, FateAdded
      <3> QED
        BY <1>3, <2>0, <2>1, <3>1, <3>3, <3>4
    <2>2. CASE errs' = Append(errs, head) /\ fate' = Append(fate, [pair |-> head, ok |-> FALSE])
      <3> DEFINE r == [pair |-> head, ok |-> FALSE]
      <3>1. r \in Fate /\ r.pair = head /\ ~r.ok
        BY <1>5 DEF Fate
      <3>2. fate' = Append(fate, r)
        BY <2>2
      <3>3. errs' \in Seq(Pairs) /\ ToSet(errs') = ToSet(errs) \cup {head}
        BY <1>3, <1>5, <2>2, OneMore
      <3> HIDE DEF r
      <3>4. /\ fate' \in Seq(Fate)
            /\ \A p : HasFate(fate', p) <=> HasFate(fate, p) \/ p = r.pair
            /\ \A p : HasFailed(fate', p) <=> HasFailed(fate, p) \/ (p = r.pair /\ ~r.ok)
        BY <1>3, <3>1, <3>2, FateAdded
      <3> QED
        BY <2>0, <2>2, <3>1, <3>3, <3>4
    <2> QED
      BY <1>4, <2>1, <2>2
  <1>8. \A p : Contains(errs', p) <=> p \in ToSet(errs')
    BY <1>7, ContainsIsIn
  <1>9. Asked' = Asked /\ code = Running /\ rest = {}
    BY <1>1, <1>2, AskedStays DEF CopyInv, Exited, FailuresKept
  <1>10. Opening'
    BY <1>1, <1>2 DEF CopyInv, Opening
  <1>11. PairsKept'
    <2>1. /\ ToSet(todo) \cup ToSet(plan) \cup ToSet(errs) \subseteq ToSet(Asked)
          /\ \A p \in ToSet(Asked) : p \in ToSet(todo) \/ HasFate(fate, p)
      BY <1>1, <1>6, FateForms DEF CopyInv, PairsKept
    <2>2. (ToSet(todo) \cup ToSet(plan) \cup ToSet(errs) \subseteq ToSet(Asked))'
      BY <1>2, <1>5, <1>7, <1>9, <2>1
    <2>3. \A p \in ToSet(Asked) : p \in ToSet(todo') \/ HasFate(fate', p)
      BY <1>5, <1>7, <2>1
    <2>4. phase' = "transfer" /\ code' # 0
      BY <1>1, <1>2, <1>9 DEF Running
    <2> QED
      BY <1>6, <1>9, <2>2, <2>3, <2>4, FateForms DEF PairsKept
  <1>12. FailuresKept'
    <2>1. \A p : Marked(p)' <=> Marked(p)
      BY <1>2 DEF Marked
    <2>2. \A p \in ToSet(errs) : p \in ToSet(todo) \/ HasFailed(fate, p)
      BY <1>1, <1>6, FateForms DEF CopyInv, FailuresKept
    <2>3. \A p \in ToSet(errs') : p \in ToSet(todo') \/ HasFailed(fate', p)
      BY <1>5, <1>7, <2>2
    <2>4. ASSUME NEW p, HasFailed(fate, p) PROVE Marked(p) \/ p \in ToSet(errs)
      <3>1. PICK i \in DOMAIN fate : fate[i].pair = p /\ ~fate[i].ok
        BY <2>4 DEF HasFailed
      <3> QED
        BY <1>6, <3>1 DEF CopyInv, FailuresKept
    <2>5. \A p : HasFailed(fate', p) => Marked(p)' \/ Contains(errs', p)
      BY <1>7, <1>8, <2>1, <2>4
    <2>6. \A i \in DOMAIN fate' : ~fate'[i].ok => Marked(fate[i].pair)' \/ Contains(errs', fate'[i].pair)
      BY <2>5 DEF HasFailed
    <2>7. \A j \in DOMAIN entries' :
            entries'[j].fails > 0 => HasFailed(fate', <<entries'[j].ref, entries'[j].platform>>)
      BY <1>2, <1>7, FateForms DEF CopyInv, FailuresKept
    <2>8. phase' = "transfer" /\ rest' = {}
      BY <1>1, <1>2, <1>9
    <2> QED
      BY <1>6, <2>3, <2>6, <2>7, <2>8, FateForms DEF FailuresKept
  <1>13. EntriesOfPlan'
    BY <1>2, <1>9 DEF CopyInv, EntriesOfPlan
  <1>14. Exited'
    BY <1>1, <1>2, <1>9 DEF Exited, Running
  <1>15. CopyTypeOK'
    <2>1. code \in {Running, 0, 1, 2}
      BY <1>1 DEF CopyTypeOK
    <2> QED
      BY <1>1, <1>2, <1>5, <1>7, <1>9, <2>1, CopyTypes, CopyTypesThen
  <1> QED
    BY <1>10, <1>11, <1>12, <1>13, <1>14, <1>15 DEF CopyInv

LEMMA TransferredKeeps ==
  ASSUME CopyInv, Transferred
  PROVE  CopyInv'
  <1>1. CopyTypeOK /\ req \in Requests /\ phase = "transfer" /\ todo = <<>>
    BY DEF CopyInv, CopyTypeOK, Transferred
  <1>2. /\ UNCHANGED <<req, dir, opened, touched, memory, todo, plan, errs, writes, fate, outputLost, code>>
        /\ phase' = "show" /\ entries' = RecordAll(entries, errs) /\ rest' = Unmatched(entries, errs)
    BY DEF Transferred, outcome
  <1>3. /\ todo \in Seq(Pairs) /\ errs \in Seq(Pairs) /\ fate \in Seq(Fate) /\ entries \in Entries
    BY <1>1, CopyTypes
  <1>4. Asked' = Asked /\ code = Running
    BY <1>1, <1>2, AskedStays DEF CopyInv, Exited
  <1>5. /\ \A p : ~Contains(todo, p)
        /\ \A p : Contains(errs, p) <=> p \in ToSet(errs)
    <2>1. \A p : ~Contains(todo, p)
      BY <1>1 DEF Contains
    <2> QED
      BY <1>3, <2>1, ContainsIsIn
  <1>6. /\ ToSet(errs) \subseteq ToSet(Asked)
        /\ \A p \in ToSet(Asked) : Fated(p)
        /\ \A p \in ToSet(errs) : HasFailed(fate, p)
    BY <1>1, <1>5, FateForms DEF CopyInv, PairsKept, FailuresKept
  <1>7. /\ DOMAIN entries = DOMAIN Asked
        /\ \A j \in DOMAIN Asked :
             /\ PairOf(entries[j]) = Asked[j]
             /\ entries[j].planned <=> Count(plan, Asked[j]) >= Count(SubSeq(Asked, 1, j), Asked[j])
    BY <1>1 DEF CopyInv, EntriesOfPlan, PairOf
  <1>8. /\ entries' \in Entries /\ DOMAIN entries' = DOMAIN entries
        /\ \A j \in DOMAIN entries :
             /\ entries'[j].ref = entries[j].ref /\ entries'[j].platform = entries[j].platform
             /\ entries'[j].planned = entries[j].planned
             /\ entries[j].fails > 0 => entries'[j].fails > 0
             /\ entries'[j].fails > 0 => entries[j].fails > 0 \/ Contains(errs, PairOf(entries[j]))
    BY <1>2, <1>3, RecordMarks
  <1>9. \A p \in ToSet(errs) : EntryOf(entries, p) # 0 /\ Marked(p)'
    <2> SUFFICES ASSUME NEW p \in ToSet(errs) PROVE EntryOf(entries, p) # 0 /\ Marked(p)'
      OBVIOUS
    <2>1. \E j \in DOMAIN entries : PairOf(entries[j]) = p
      <3>1. \E j \in DOMAIN Asked : Asked[j] = p
        BY <1>6 DEF ToSet
      <3> QED
        BY <1>7, <3>1
    <2>2. RecordAll(entries, errs) \in Entries
      BY <1>2, <1>8
    <2>3. EntryOf(entries, p) # 0 /\ Shows(entries', p)
      BY <1>2, <1>3, <2>1, <2>2, RecordMarks
    <2> QED
      BY <2>3 DEF Marked, Shows, PairOf
  <1>10. rest' = {}
    BY <1>2, <1>9 DEF Unmatched
  <1>11. \A p : Marked(p) => Marked(p)'
    BY <1>8 DEF Marked
  <1>12. Opening'
    BY <1>1, <1>2 DEF CopyInv, Opening
  <1>13. PairsKept'
    <2>1. (ToSet(todo) \cup ToSet(plan) \cup ToSet(errs) \subseteq ToSet(Asked))'
      BY <1>2, <1>4 DEF CopyInv, PairsKept
    <2>2. \A p \in ToSet(Asked') : Fated(p)'
      BY <1>2, <1>4, <1>6, FateForms
    <2> QED
      BY <1>2, <2>1, <2>2 DEF PairsKept
  <1>14. FailuresKept'
    <2>1. \A i \in DOMAIN fate' : ~fate'[i].ok => Marked(fate[i].pair)'
      BY <1>2, <1>5, <1>9, <1>11 DEF CopyInv, FailuresKept
    <2>2. \A j \in DOMAIN entries :
            entries[j].fails > 0 => HasFailed(fate, PairOf(entries[j]))
      BY FateForms DEF CopyInv, FailuresKept, PairOf
    <2>3. \A j \in DOMAIN entries' :
            entries'[j].fails > 0 => HasFailed(fate', PairOf(entries[j]))
      BY <1>2, <1>5, <1>6, <1>8, <2>2
    <2>4. \A j \in DOMAIN entries' :
            entries'[j].fails > 0 => HasFailed(fate', <<entries'[j].ref, entries'[j].platform>>)
      BY <1>8, <2>3 DEF PairOf
    <2> QED
      BY <1>2, <1>10, <2>1, <2>4, FateForms DEF FailuresKept
  <1>15. EntriesOfPlan'
    BY <1>2, <1>4, <1>7, <1>8 DEF EntriesOfPlan, PairOf
  <1>16. Exited'
    BY <1>2, <1>4 DEF Exited, Running
  <1>17. CopyTypeOK'
    <2>1. code \in {Running, 0, 1, 2}
      BY <1>1 DEF CopyTypeOK
    <2> QED
      BY <1>1, <1>2, <1>8, <1>10, <2>1, CopyTypes, CopyTypesThen
  <1> QED
    BY <1>12, <1>13, <1>14, <1>15, <1>16, <1>17 DEF CopyInv

-----------------------------------------------------------------------------
(* Theorems.                                                                *)

\* At every point of a copy every pair asked for is still to be dealt with or has met its fate, and
\* every failure is collected or shown by an entry (service.go: Copy, newResult, record).
THEOREM CopyInvariant == CopySpec => []CopyInv
  <1>1. CopyInit => CopyInv
    BY CopyStarts
  <1>2. CopyInv /\ [CopyNext]_copyVars => CopyInv'
    <2> SUFFICES ASSUME CopyInv, [CopyNext]_copyVars PROVE CopyInv'
      OBVIOUS
    <2>1. CASE CheckUsage
      BY <2>1, CheckUsageKeeps
    <2>2. CASE OpenStorage
      BY <2>2, OpenStorageKeeps
    <2>3. CASE OpenStore
      BY <2>3, OpenStoreKeeps
    <2>4. CASE PlanEntry
      BY <2>4, PlanEntryKeeps
    <2>5. CASE Planned
      BY <2>5, PlannedKeeps
    <2>6. CASE UploadsFail
      BY <2>6, UploadsFailKeeps
    <2>7. CASE TransferEntry
      BY <2>7, TransferEntryKeeps
    <2>8. CASE Transferred
      BY <2>8, TransferredKeeps
    <2>9. CASE Show
      BY <2>9, ShowKeeps
    <2>10. CASE UNCHANGED copyVars
      BY <2>10, CopyUnchanged
    <2> QED
      BY <2>1, <2>2, <2>3, <2>4, <2>5, <2>6, <2>7, <2>8, <2>9, <2>10 DEF CopyNext
  <1> QED
    BY <1>1, <1>2, PTL DEF CopySpec

\* What Copy keeps between its steps is of the right types.
THEOREM CopyTypeCorrect == CopySpec => []CopyTypeOK
  <1>1. CopyInv => CopyTypeOK
    BY DEF CopyInv
  <1> QED
    BY <1>1, CopyInvariant, PTL

\* An entry of the result shows a failure when and only when its own image and platform failed,
\* whatever failed before, after or beside it (service.go: newResult, record).
THEOREM EntriesShow == CopySpec => []EntryShows
  <1>1. ASSUME CopyInv PROVE EntryShows
    <2> SUFFICES ASSUME phase = "exit", entries # <<>>, IsInjective(req.platforms)
                 PROVE  /\ rest = {}
                        /\ [j \in DOMAIN entries |-> <<entries[j].ref, entries[j].platform>>] = Asked
                        /\ \A j \in DOMAIN entries :
                             /\ entries[j].planned <=> Contains(plan, Asked[j])
                             /\ entries[j].fails > 0 <=> Failures(Asked[j]) # {}
      BY DEF EntryShows
    <2>1. CopyTypeOK /\ req \in Requests /\ rest = {}
      BY <1>1 DEF CopyInv, CopyTypeOK, FailuresKept
    <2>2. plan \in Seq(Pairs) /\ fate \in Seq(Fate)
      BY <2>1, CopyTypes
    <2>3. Asked \in Seq((Refs \cup {Bad}) \X Platforms) /\ IsInjective(Asked)
      BY <2>1, AskedOnce
    <2>4. /\ DOMAIN entries = DOMAIN Asked
          /\ \A j \in DOMAIN Asked :
               /\ <<entries[j].ref, entries[j].platform>> = Asked[j]
               /\ entries[j].planned <=> Count(plan, Asked[j]) >= Count(SubSeq(Asked, 1, j), Asked[j])
      BY <1>1 DEF CopyInv, EntriesOfPlan
    <2>5. [j \in DOMAIN entries |-> <<entries[j].ref, entries[j].platform>>] = Asked
      <3> DEFINE S == (Refs \cup {Bad}) \X Platforms
      <3>1. Asked \in Seq(S)
        BY <2>3
      <3> HIDE DEF S
      <3>2. Asked = [j \in DOMAIN Asked |-> Asked[j]]
        BY <3>1
      <3> QED
        BY <2>4, <3>2
    <2>6. ASSUME NEW j \in DOMAIN entries PROVE entries[j].planned <=> Contains(plan, Asked[j])
      <3> DEFINE x == Asked[j]
                 once == SubSeq(Asked, 1, j)
      <3>1. Count(once, x) = 1
        <4> DEFINE S == (Refs \cup {Bad}) \X Platforms
        <4>1. Asked \in Seq(S)
          BY <2>3
        <4> HIDE DEF S
        <4>2. /\ DOMAIN Asked = 1..Len(Asked) /\ Len(Asked) \in Nat /\ j \in 1..Len(Asked)
              /\ DOMAIN once = 1..j /\ \A i \in 1..j : once[i] = Asked[i]
          BY <2>4, <4>1
        <4>3. \A i \in 1..j : once[i] = x <=> i = j
          BY <2>3, <4>2 DEF IsInjective
        <4>4. {i \in DOMAIN once : once[i] = x} = {j}
          BY <4>2, <4>3
        <4> QED
          BY <4>4, FS_Singleton DEF Count
      <3>2. Count(plan, x) \in Nat /\ (Count(plan, x) = 0 <=> ~Contains(plan, x))
        <4> DEFINE H == {i \in DOMAIN plan : plan[i] = x}
        <4>1. DOMAIN plan = 1..Len(plan) /\ Len(plan) \in Nat
          BY <2>2
        <4>2. IsFiniteSet(H)
          <5>1. IsFiniteSet(1..Len(plan)) /\ H \subseteq 1..Len(plan)
            BY <4>1, FS_Interval
          <5> QED
            BY <5>1, FS_Subset
        <4>3. H = {} <=> ~Contains(plan, x)
          BY <4>1 DEF Contains
        <4>4. Count(plan, x) = Cardinality(H)
          BY DEF Count
        <4> HIDE DEF H
        <4> QED
          BY <4>2, <4>3, <4>4, FS_EmptySet, FS_CardinalityType
      <3>3. entries[j].planned <=> Count(plan, x) >= Count(once, x)
        BY <2>4
      <3> HIDE DEF x, once
      <3>4. entries[j].planned <=> Contains(plan, x)
        BY <3>1, <3>2, <3>3
      <3> QED
        BY <3>4 DEF x
    <2>7. ASSUME NEW j \in DOMAIN entries, entries[j].fails > 0 PROVE Failures(Asked[j]) # {}
      BY <1>1, <2>4, <2>7 DEF CopyInv, FailuresKept
    <2>8. ASSUME NEW j \in DOMAIN entries, Failures(Asked[j]) # {} PROVE entries[j].fails > 0
      <3>1. PICK i \in DOMAIN fate : fate[i].pair = Asked[j] /\ ~fate[i].ok
        BY <2>8 DEF Failures
      <3>2. Marked(Asked[j])
        BY <1>1, <3>1 DEF CopyInv, FailuresKept
      <3>3. PICK k \in DOMAIN entries : /\ <<entries[k].ref, entries[k].platform>> = Asked[j]
                                        /\ entries[k].fails > 0
        BY <3>2 DEF Marked
      <3>4. Asked[k] = Asked[j]
        BY <2>4, <3>3
      <3>5. k = j
        BY <2>3, <2>4, <3>4 DEF IsInjective
      <3> QED
        BY <3>3, <3>5
    <2> QED
      BY <2>1, <2>5, <2>6, <2>7, <2>8
  <1> QED
    BY <1>1, CopyInvariant, PTL

\* A fate that a step adds is of a pair that failed, or that it brought to its destination.
LEMMA DeliveredNext == CopyInv /\ Delivered /\ [CopyNext]_copyVars => Delivered'
  <1> SUFFICES ASSUME CopyInv, Delivered, [CopyNext]_copyVars PROVE Delivered'
    OBVIOUS
  <1>1. CopyTypeOK /\ todo \in Seq(Pairs) /\ plan \in Seq(Pairs) /\ fate \in Seq(Fate)
    BY CopyTypes DEF CopyInv
  <1> DEFINE There(p) == p \in writes \/ (req.dryRun /\ Contains(plan, p))
  <1>2. \A i \in DOMAIN fate : fate[i].ok => There(fate[i].pair)
    BY DEF Delivered
  <1>3. CASE \/ CheckUsage \/ OpenStorage \/ OpenStore \/ UploadsFail \/ Transferred \/ Show
             \/ UNCHANGED copyVars
    <2>1. UNCHANGED <<req, plan, writes, fate>>
      BY <1>3 DEF CheckUsage, OpenStorage, OpenStore, UploadsFail, Transferred, Show, copyVars, outcome
    <2> QED
      BY <1>2, <2>1 DEF Delivered
  <1>4. CASE PlanEntry
    <2>1. req' = req /\ writes' = writes
      BY <1>4 DEF PlanEntry
    <2>2. CASE plan' = Append(plan, Head(todo)) /\ fate' = fate
      <3>1. Head(todo) \in Pairs /\ \A p \in ToSet(plan) : p \in ToSet(plan')
        BY <1>1, <1>4, <2>2, OneMore, OneLess DEF PlanEntry
      <3>2. plan' \in Seq(Pairs)
        BY <1>1, <2>2, <3>1
      <3>3. \A p : Contains(plan, p) => Contains(plan', p)
        BY <1>1, <3>1, <3>2, ContainsIsIn
      <3> QED
        BY <1>2, <2>1, <2>2, <3>3 DEF Delivered
    <2>3. CASE plan' = plan /\ fate' = Append(fate, [pair |-> Head(todo), ok |-> FALSE])
      <3>1. \A i \in DOMAIN fate' : fate'[i].ok => i \in DOMAIN fate /\ fate'[i] = fate[i]
        BY <1>1, <2>3
      <3> QED
        BY <1>2, <2>1, <2>3, <3>1 DEF Delivered
    <2> QED
      BY <1>4, <2>2, <2>3 DEF PlanEntry
  <1>5. CASE Planned
    <2>1. UNCHANGED <<req, plan, writes>>
      BY <1>5 DEF Planned
    <2> DEFINE later == [i \in DOMAIN plan |-> [pair |-> plan[i], ok |-> req.dryRun]]
    <2>2. fate' = fate \/ fate' = fate \o later
      BY <1>5 DEF Planned
    <2>3. DOMAIN plan = 1..Len(plan) /\ Len(plan) \in Nat
      BY <1>1
    <2>4. ASSUME fate' = fate \o later, NEW i \in DOMAIN fate', fate'[i].ok PROVE There(fate'[i].pair)
      <3>1. later \in Seq({later[j] : j \in DOMAIN plan}) /\ Len(later) = Len(plan)
        BY <2>3
      <3>2. DOMAIN fate = 1..Len(fate) /\ Len(fate) \in Nat
        BY <1>1
      <3>3. \/ i \in DOMAIN fate /\ fate'[i] = fate[i]
            \/ \E j \in DOMAIN plan : fate'[i] = later[j]
        <4> HIDE DEF later
        <4>1. i \in 1..(Len(fate) + Len(plan))
          BY <1>1, <2>4, <3>1, <3>2
        <4>2. CASE i \in 1..Len(fate)
          BY <1>1, <2>4, <3>1, <3>2, <4>2
        <4>3. CASE i \notin 1..Len(fate)
          <5>1. i - Len(fate) \in DOMAIN plan
            BY <2>3, <3>2, <4>1, <4>3
          <5>2. fate'[i] = later[i - Len(fate)]
            BY <1>1, <2>4, <3>1, <3>2, <4>1, <4>3
          <5> QED
            BY <5>1, <5>2
        <4> QED
          BY <3>2, <4>2, <4>3
      <3>4. ASSUME NEW j \in DOMAIN plan, fate'[i] = later[j] PROVE There(fate'[i].pair)
        <4>1. fate'[i].pair = plan[j] /\ req.dryRun
          BY <2>4, <3>4
        <4>2. plan[j] \in ToSet(plan)
          BY DEF ToSet
        <4> QED
          BY <1>1, <4>1, <4>2, ContainsIsIn
      <3> QED
        BY <1>2, <2>4, <3>3, <3>4
    <2>5. \A i \in DOMAIN fate' : fate'[i].ok => There(fate'[i].pair)
      BY <1>2, <2>2, <2>4
    <2> QED
      BY <2>1, <2>5 DEF Delivered
  <1>6. CASE TransferEntry
    <2>1. req' = req /\ plan' = plan /\ writes \subseteq writes'
      BY <1>6 DEF TransferEntry
    <2>2. PICK r : /\ fate' = Append(fate, r) /\ r.pair = Head(todo)
                   /\ Head(todo) \in writes' \/ ~r.ok
      <3>1. CASE /\ writes' = writes \cup {Head(todo)}
                 /\ fate' = Append(fate, [pair |-> Head(todo), ok |-> ~Contains(errs, Head(todo))])
        BY <3>1
      <3>2. CASE fate' = Append(fate, [pair |-> Head(todo), ok |-> FALSE])
        BY <3>2
      <3> QED
        BY <1>6, <3>1, <3>2 DEF TransferEntry
    <2>3. /\ DOMAIN fate' = DOMAIN fate \cup {Len(fate) + 1} /\ fate'[Len(fate) + 1] = r
          /\ \A i \in DOMAIN fate : fate'[i] = fate[i]
      BY <1>1, <2>2
    <2>4. ASSUME NEW i \in DOMAIN fate', fate'[i].ok
          PROVE  fate'[i].pair \in writes' \/ (req.dryRun /\ Contains(plan, fate'[i].pair))
      <3>1. CASE i \in DOMAIN fate
        BY <1>2, <2>1, <2>3, <2>4, <3>1
      <3>2. CASE i = Len(fate) + 1
        BY <2>2, <2>3, <2>4, <3>2
      <3> QED
        BY <2>3, <3>1, <3>2
    <2> QED
      BY <2>1, <2>4 DEF Delivered
  <1> QED
    BY <1>3, <1>4, <1>5, <1>6 DEF CopyNext

\* The exit status is 0 when and only when all that was asked for is at the destination, or planned in
\* a dry run, without a failure, and the output was written; it is 1 for a usage error, and then
\* nothing was opened (cli/copy.go: Copy, cli/exit.go: ExitCode).
THEOREM ExitIsTrue == CopySpec => []ExitTells
  <1>1. ASSUME CopyInv, Delivered PROVE ExitTells
    <2> SUFFICES ASSUME phase = "exit"
                 PROVE  /\ code = 0 =>
                             /\ \A pair \in ToSet(Asked) :
                                  pair \in writes \/ (req.dryRun /\ Contains(plan, pair))
                             /\ \A i \in DOMAIN fate : fate[i].ok
                             /\ ~outputLost
                        /\ entries # <<>> /\ ~outputLost /\ (\A i \in DOMAIN fate : fate[i].ok) => code = 0
                        /\ code = 1 => touched = {} /\ (Usage(req) \/ ~req.cached)
                        /\ Usage(req) => code = 1
      BY DEF ExitTells
    <2>1. CopyTypeOK /\ code \in {0, 1, 2}
      BY <1>1 DEF CopyInv, CopyTypeOK, Exited
    <2>2. ASSUME code = 0, NEW i \in DOMAIN fate PROVE fate[i].ok
      <3> SUFFICES ASSUME ~fate[i].ok PROVE FALSE
        OBVIOUS
      <3>1. Marked(fate[i].pair)
        BY <1>1 DEF CopyInv, FailuresKept
      <3>2. \A j \in DOMAIN entries : entries[j].fails = 0
        BY <1>1, <2>2 DEF CopyInv, Exited
      <3> QED
        BY <3>1, <3>2 DEF Marked
    <2>3. ASSUME code = 0, NEW pair \in ToSet(Asked)
          PROVE  pair \in writes \/ (req.dryRun /\ Contains(plan, pair))
      <3>1. PICK i \in DOMAIN fate : fate[i].pair = pair
        BY <1>1, <2>3 DEF CopyInv, PairsKept, Fated
      <3> QED
        BY <1>1, <2>2, <2>3, <3>1 DEF Delivered
    <2>4. ASSUME entries # <<>>, ~outputLost, \A i \in DOMAIN fate : fate[i].ok, code # 0 PROVE FALSE
      <3>1. PICK j \in DOMAIN entries : entries[j].fails > 0
        BY <1>1, <2>1, <2>4 DEF CopyInv, Exited
      <3>2. Failures(<<entries[j].ref, entries[j].platform>>) # {}
        BY <1>1, <3>1 DEF CopyInv, FailuresKept
      <3> QED
        BY <2>4, <3>2 DEF Failures
    <2>5. /\ code = 0 => ~outputLost
          /\ code = 1 => touched = {} /\ (Usage(req) \/ ~req.cached)
          /\ Usage(req) => code = 1
      BY <1>1 DEF CopyInv, Exited
    <2> QED
      BY <2>2, <2>3, <2>4, <2>5
  <1>2. CopyInit => Delivered
    BY DEF CopyInit, Delivered
  <1> QED
    BY <1>1, <1>2, DeliveredNext, CopyInvariant, PTL DEF CopySpec

\* A usage error opens nothing; only a push that is no dry run makes the directory of a store, and only
\* a copy that is none writes; it never writes into the empty store in memory (service.go: openStore).
THEOREM OnlyAskedIsTouched == CopySpec => TouchesOnlyAsked
  <1>1. CopyInv /\ [CopyNext]_copyVars =>
          [ /\ touched' # touched => ~Usage(req)
            /\ dir' # dir => IsPush(req) /\ req.dst = "file" /\ ~req.dryRun
            /\ writes' # writes => ~req.dryRun /\ ~memory' ]_copyVars
    <2> SUFFICES ASSUME CopyInv, CopyNext
                 PROVE  /\ touched' # touched => ~Usage(req)
                        /\ dir' # dir => IsPush(req) /\ req.dst = "file" /\ ~req.dryRun
                        /\ writes' # writes => ~req.dryRun /\ ~memory'
      OBVIOUS
    <2>1. CASE OpenStore
      <3>1. dir \in BOOLEAN
        BY CopyTypes DEF CopyInv
      <3>2. ~Usage(req) /\ writes' = writes
        BY <2>1 DEF OpenStore, outcome, CopyInv, Opening
      <3> SUFFICES ASSUME dir' # dir PROVE IsPush(req) /\ req.dst = "file" /\ ~req.dryRun
        BY <3>2
      <3>3. StoreLocation = "file" /\ Mode = "create"
        BY <2>1, <3>1 DEF OpenStore
      <3> QED
        BY <3>3 DEF Mode, StoreLocation
    <2>2. CASE TransferEntry
      BY <2>2 DEF TransferEntry, CopyInv, Opening
    <2>3. CASE OpenStorage
      BY <2>3 DEF OpenStorage, outcome, CopyInv, Opening
    <2>4. CASE CheckUsage \/ PlanEntry \/ Planned \/ UploadsFail \/ Transferred \/ Show
      BY <2>4 DEF CheckUsage, PlanEntry, Planned, UploadsFail, Transferred, Show, outcome
    <2> QED
      BY <2>1, <2>2, <2>3, <2>4 DEF CopyNext
  <1> QED
    BY <1>1, CopyInvariant, PTL DEF CopySpec, TouchesOnlyAsked

-----------------------------------------------------------------------------
(* One fate for each pair.                                                  *)

\* An element more at the end of a sequence without repetitions, and one less at its head.
LEMMA OnceMore ==
  ASSUME NEW S, NEW s \in Seq(S), NEW x \in S, IsInjective(s), x \notin ToSet(s)
  PROVE  IsInjective(Append(s, x))
  <1> DEFINE one == <<x>>
  <1>1. one \in Seq(S) /\ ToSet(one) = {x} /\ IsInjective(one) /\ Append(s, x) = s \o one
    BY DEF ToSet, IsInjective
  <1> HIDE DEF one
  <1> QED
    BY <1>1, ConcatElements

LEMMA OnceLess ==
  ASSUME NEW S, NEW s \in Seq(S), s # <<>>, IsInjective(s)
  PROVE  IsInjective(Tail(s)) /\ Head(s) \notin ToSet(Tail(s))
  <1> DEFINE t == Tail(s)
             n == Len(s)
  <1>1. /\ Head(s) = s[1] /\ n \in Nat \ {0} /\ DOMAIN s = 1..n /\ DOMAIN t = 1..(n - 1)
        /\ \A i \in 1..(n - 1) : t[i] = s[i + 1]
    OBVIOUS
  <1> HIDE DEF t, n
  <1>2. IsInjective(t)
    <2> SUFFICES ASSUME NEW i \in 1..(n - 1), NEW j \in 1..(n - 1), t[i] = t[j] PROVE i = j
      BY <1>1 DEF IsInjective
    <2>1. i + 1 \in 1..n /\ j + 1 \in 1..n /\ s[i + 1] = s[j + 1]
      BY <1>1
    <2>2. i + 1 = j + 1
      BY <1>1, <2>1 DEF IsInjective
    <2> QED
      BY <1>1, <2>2
  <1>3. ASSUME NEW i \in 1..(n - 1), t[i] = Head(s) PROVE FALSE
    <2>1. i + 1 \in 1..n /\ 1 \in 1..n /\ s[i + 1] = s[1]
      BY <1>1, <1>3
    <2>2. i + 1 = 1
      BY <1>1, <2>1 DEF IsInjective
    <2> QED
      BY <2>2
  <1> QED
    BY <1>1, <1>2, <1>3 DEF ToSet, t

\* The pairs of the fates, as the fates are added.
LEMMA PairsInOne ==
  ASSUME NEW f \in Seq(Fate), NEW r \in Fate
  PROVE  /\ PairsIn(f) \in Seq(Pairs)
         /\ PairsIn(Append(f, r)) = Append(PairsIn(f), r.pair)
  <1>1. r.pair \in Pairs /\ \A i \in DOMAIN f : f[i].pair \in Pairs
    <2>1. \A i \in DOMAIN f : f[i] \in Fate
      OBVIOUS
    <2> QED
      BY <2>1 DEF Fate
  <1>2. DOMAIN f = 1..Len(f) /\ Len(f) \in Nat
    OBVIOUS
  <1>3. /\ DOMAIN Append(f, r) = 1..(Len(f) + 1)
        /\ \A i \in 1..(Len(f) + 1) : Append(f, r)[i] = IF i <= Len(f) THEN f[i] ELSE r
    OBVIOUS
  <1> DEFINE g == Append(f, r)
  <1> HIDE DEF g, Fate, Pairs
  <1>4. PairsIn(f) \in Seq(Pairs) /\ Len(PairsIn(f)) = Len(f)
    BY <1>1, <1>2 DEF PairsIn
  <1>5. /\ Append(PairsIn(f), r.pair) = [i \in 1..(Len(f) + 1) |-> IF i <= Len(f) THEN PairsIn(f)[i] ELSE r.pair]
    BY <1>1, <1>2, <1>4
  <1>6. PairsIn(g) = [i \in 1..(Len(f) + 1) |-> IF i <= Len(f) THEN PairsIn(f)[i] ELSE r.pair]
    BY <1>2, <1>3 DEF PairsIn, g
  <1> QED
    BY <1>4, <1>5, <1>6 DEF g

LEMMA PairsInMore ==
  ASSUME NEW f \in Seq(Fate), NEW s \in Seq(Pairs), NEW b \in BOOLEAN
  PROVE  PairsIn(f \o [i \in DOMAIN s |-> [pair |-> s[i], ok |-> b]]) = PairsIn(f) \o s
  <1> DEFINE t == [i \in DOMAIN s |-> [pair |-> s[i], ok |-> b]]
             m == Len(f)
             n == Len(s)
  <1>1. DOMAIN s = 1..n /\ n \in Nat /\ DOMAIN f = 1..m /\ m \in Nat /\ \A i \in 1..n : s[i] \in Pairs
    OBVIOUS
  <1>2. \A i \in 1..n : t[i] \in Fate /\ t[i].pair = s[i]
    BY <1>1 DEF Fate
  <1>3. DOMAIN t = 1..n /\ t = [i \in 1..n |-> t[i]]
    BY <1>1
  <1>4. PairsIn(f) \in Seq(Pairs) /\ Len(PairsIn(f)) = m
    <2>1. \A i \in 1..m : f[i] \in Fate
      BY <1>1
    <2>2. \A i \in 1..m : f[i].pair \in Pairs
      BY <2>1 DEF Fate
    <2> HIDE DEF Fate, Pairs, m, n
    <2>3. PairsIn(f) = [i \in 1..m |-> f[i].pair]
      BY <1>1 DEF PairsIn
    <2> QED
      BY <1>1, <2>2, <2>3
  <1> HIDE DEF t, Fate, m, n, Pairs
  <1>5. t \in Seq(Fate) /\ Len(t) = n
    BY <1>1, <1>2, <1>3
  <1> DEFINE g == f \o t
  <1>6. DOMAIN g = 1..(m + n) /\ \A i \in 1..(m + n) : g[i] = IF i <= m THEN f[i] ELSE t[i - m]
    BY <1>1, <1>5 DEF m, n
  <1> HIDE DEF g
  <1>7. PairsIn(f) \o s = [i \in 1..(m + n) |-> IF i <= m THEN PairsIn(f)[i] ELSE s[i - m]]
    <2> DEFINE e == PairsIn(f)
    <2>1. e \in Seq(Pairs) /\ Len(e) = m
      BY <1>4
    <2> HIDE DEF e
    <2>2. /\ e \o s \in Seq(Pairs) /\ Len(e \o s) = m + n
          /\ \A i \in 1..(m + n) : (e \o s)[i] = IF i <= m THEN e[i] ELSE s[i - m]
      BY <1>1, <2>1 DEF n
    <2> DEFINE c == e \o s
    <2> HIDE DEF c
    <2>3. c \in Seq(Pairs) /\ Len(c) = m + n
      BY <2>2 DEF c
    <2>4. c = [i \in 1..(m + n) |-> c[i]]
      BY <2>3
    <2> QED
      BY <2>2, <2>4 DEF e, c
  <1>8. ASSUME NEW i \in 1..(m + n) PROVE g[i].pair = IF i <= m THEN PairsIn(f)[i] ELSE s[i - m]
    <2>1. CASE i <= m
      BY <1>1, <1>6, <2>1 DEF PairsIn
    <2>2. CASE ~(i <= m)
      <3>1. i - m \in 1..n
        BY <1>1, <2>2
      <3> QED
        BY <1>2, <1>6, <2>2, <3>1
    <2> QED
      BY <2>1, <2>2
  <1>9. PairsIn(g) = [i \in 1..(m + n) |-> g[i].pair]
    BY <1>6 DEF PairsIn
  <1> QED
    BY <1>7, <1>8, <1>9 DEF g, t

\* The head of what waits meets its fate.
LEMMA HeadFated ==
  ASSUME OnceInv, CopyTypeOK, todo # <<>>, ToSet(todo) \subseteq ToSet(Asked),
         IsInjective(req.platforms), NEW ok \in BOOLEAN, todo' = Tail(todo),
         fate' = Append(fate, [pair |-> Head(todo), ok |-> ok])
  PROVE  /\ IsInjective(todo') /\ IsInjective(PairsIn(fate'))
         /\ ToSet(PairsIn(fate')) \subseteq ToSet(Asked) \ ToSet(todo')
         /\ ToSet(todo) = ToSet(todo') \cup {Head(todo)}
         /\ ToSet(PairsIn(fate')) = ToSet(PairsIn(fate)) \cup {Head(todo)}
  <1> DEFINE head == Head(todo)
             was == PairsIn(fate)
             r == [pair |-> head, ok |-> ok]
  <1>1. todo \in Seq(Pairs) /\ fate \in Seq(Fate)
    BY CopyTypes
  <1>2. head \in Pairs /\ ToSet(todo) = ToSet(todo') \cup {head}
    BY <1>1, OneLess
  <1>3. IsInjective(todo') /\ head \notin ToSet(todo')
    BY <1>1, OnceLess DEF OnceInv
  <1>4. r \in Fate /\ r.pair = head
    BY <1>2 DEF Fate
  <1>5. IsInjective(was) /\ ToSet(was) \subseteq ToSet(Asked) \ ToSet(todo)
    BY DEF OnceInv
  <1> HIDE DEF head, was, r
  <1>6. was \in Seq(Pairs) /\ PairsIn(fate') = Append(was, head)
    BY <1>1, <1>4, PairsInOne DEF was, r, head
  <1>7. IsInjective(PairsIn(fate')) /\ ToSet(PairsIn(fate')) = ToSet(was) \cup {head}
    <2> HIDE DEF Pairs
    <2>1. head \notin ToSet(was)
      BY <1>2, <1>5
    <2>2. IsInjective(Append(was, head))
      BY <1>2, <1>5, <1>6, <2>1, OnceMore
    <2>3. ToSet(Append(was, head)) = ToSet(was) \cup {head}
      BY <1>2, <1>6, OneMore
    <2> QED
      BY <1>6, <2>2, <2>3
  <1> QED
    BY <1>2, <1>3, <1>5, <1>7 DEF head, was

\* A pair is planned, or fails, for the only time.
LEMMA OnceNext == CopyInv /\ OnceInv /\ [CopyNext]_copyVars => OnceInv'
  <1> SUFFICES ASSUME CopyInv, OnceInv, [CopyNext]_copyVars, IsInjective(req.platforms)'
               PROVE  /\ IsInjective(todo') /\ IsInjective(plan') /\ IsInjective(PairsIn(fate'))
                      /\ ToSet(PairsIn(fate')) \subseteq ToSet(Asked') \ ToSet(todo')
                      /\ phase' = "plan" =>
                           ToSet(plan') \cap (ToSet(todo') \cup ToSet(PairsIn(fate'))) = {}
    BY DEF OnceInv
  <1>1. req' = req /\ Asked' = Asked
    BY DEF CopyNext, copyVars, CheckUsage, OpenStorage, OpenStore, PlanEntry, Planned, UploadsFail,
           TransferEntry, Transferred, Show, Asked, outcome
  <1>2. /\ IsInjective(todo) /\ IsInjective(plan) /\ IsInjective(PairsIn(fate))
        /\ ToSet(PairsIn(fate)) \subseteq ToSet(Asked) \ ToSet(todo)
        /\ phase = "plan" => ToSet(plan) \cap (ToSet(todo) \cup ToSet(PairsIn(fate))) = {}
        /\ IsInjective(req.platforms)
    BY <1>1 DEF OnceInv
  <1>3. /\ CopyTypeOK /\ req \in Requests
        /\ todo \in Seq(Pairs) /\ plan \in Seq(Pairs) /\ fate \in Seq(Fate)
    BY CopyTypes DEF CopyInv, CopyTypeOK
  <1>4. ToSet(todo) \subseteq ToSet(Asked) /\ ToSet(plan) \subseteq ToSet(Asked)
    BY DEF CopyInv, PairsKept
  <1>5. CASE CheckUsage \/ OpenStorage \/ UploadsFail \/ Transferred \/ Show \/ UNCHANGED copyVars
    <2>1. UNCHANGED <<todo, plan, fate>> /\ (phase' = "plan" => phase = "plan")
      BY <1>5 DEF CheckUsage, OpenStorage, UploadsFail, Transferred, Show, copyVars, outcome, Exits
    <2> QED
      BY <1>1, <1>2, <2>1
  <1>6. CASE OpenStore
    <2>1. /\ plan = <<>> /\ fate = <<>> /\ ~Usage(req)
      BY <1>6 DEF CopyInv, Opening, OpenStore
    <2>2. ToSet(plan) = {} /\ ToSet(PairsIn(fate)) = {}
      BY <2>1 DEF ToSet, PairsIn
    <2>3. IsInjective(todo')
      <3>1. todo' = todo \/ todo' = Asked
              \/ todo' = ByPlatform(ParseSet(req.images), req.platforms)
        BY <1>6 DEF OpenStore
      <3> QED
        BY <1>2, <1>3, <3>1, AskedOnce
    <2>4. plan' = plan /\ fate' = fate
      BY <1>6 DEF OpenStore, outcome
    <2> QED
      BY <1>2, <2>2, <2>3, <2>4
  <1>7. CASE PlanEntry
    <2>0. phase = "plan" /\ phase' = "plan" /\ todo # <<>> /\ todo' = Tail(todo)
      BY <1>7 DEF PlanEntry
    <2>1. CASE plan' = Append(plan, Head(todo)) /\ fate' = fate
      <3>1. Head(todo) \in Pairs /\ ToSet(todo) = ToSet(todo') \cup {Head(todo)}
        BY <1>3, <2>0, OneLess
      <3>2. IsInjective(todo') /\ Head(todo) \notin ToSet(todo')
        BY <1>2, <1>3, <2>0, OnceLess
      <3>3. Head(todo) \notin ToSet(plan)
        BY <1>2, <2>0, <3>1
      <3>4. IsInjective(plan') /\ ToSet(plan') = ToSet(plan) \cup {Head(todo)}
        BY <1>2, <1>3, <2>1, <3>1, <3>3, OnceMore, OneMore
      <3> QED
        BY <1>1, <1>2, <2>0, <2>1, <3>1, <3>2, <3>4
    <2>2. CASE plan' = plan /\ fate' = Append(fate, [pair |-> Head(todo), ok |-> FALSE])
      <3>1. /\ IsInjective(todo') /\ IsInjective(PairsIn(fate'))
            /\ ToSet(PairsIn(fate')) \subseteq ToSet(Asked) \ ToSet(todo')
            /\ ToSet(todo) = ToSet(todo') \cup {Head(todo)}
            /\ ToSet(PairsIn(fate')) = ToSet(PairsIn(fate)) \cup {Head(todo)}
        BY <1>2, <1>3, <1>4, <2>0, <2>2, HeadFated
      <3> QED
        BY <1>1, <1>2, <2>0, <2>2, <3>1
    <2> QED
      BY <1>7, <2>1, <2>2 DEF PlanEntry
  <1>8. CASE Planned
    <2>1. phase = "plan" /\ plan' = plan /\ phase' # "plan" /\ (todo' = <<>> \/ todo' = plan)
          /\ (phase' = "show" => todo' = <<>>)
      BY <1>8 DEF Planned
    <2>2. ToSet(<<>>) = {} /\ IsInjective(<<>>)
      BY DEF ToSet, IsInjective
    <2>3. CASE fate' = fate
      BY <1>1, <1>2, <2>1, <2>2, <2>3
    <2>4. CASE phase' = "show" /\ fate' = fate \o [i \in DOMAIN plan |-> [pair |-> plan[i], ok |-> req.dryRun]]
      <3>1. req.dryRun \in BOOLEAN
        BY <1>3, CopyAssumption
      <3>2. PairsIn(fate') = PairsIn(fate) \o plan
        BY <1>3, <2>4, <3>1, PairsInMore
      <3>3. PairsIn(fate) \in Seq(Pairs)
        <4>1. ASSUME NEW x \in Pairs PROVE PairsIn(fate) \in Seq(Pairs)
          <5>1. [pair |-> x, ok |-> TRUE] \in Fate
            BY DEF Fate
          <5> QED
            BY <1>3, <5>1, PairsInOne
        <4>2. CASE Pairs = {}
          <5>1. \A i \in DOMAIN fate : fate[i] \in Fate
            BY <1>3
          <5>2. DOMAIN fate = {}
            BY <4>2, <5>1 DEF Fate
          <5> QED
            BY <1>3, <5>2 DEF PairsIn
        <4> QED
          BY <4>1, <4>2
      <3>4. /\ IsInjective(PairsIn(fate'))
            /\ ToSet(PairsIn(fate')) = ToSet(PairsIn(fate)) \cup ToSet(plan)
        BY <1>2, <1>3, <2>1, <3>2, <3>3, ConcatElements
      <3> QED
        BY <1>1, <1>2, <1>4, <2>1, <2>2, <2>4, <3>4
    <2> QED
      BY <1>8, <2>3, <2>4 DEF Planned
  <1>9. CASE TransferEntry
    <2>1. todo # <<>> /\ todo' = Tail(todo) /\ plan' = plan /\ phase' # "plan"
      BY <1>9 DEF TransferEntry
    <2>2. PICK ok \in BOOLEAN : fate' = Append(fate, [pair |-> Head(todo), ok |-> ok])
      BY <1>9 DEF TransferEntry, Contains
    <2>3. /\ IsInjective(todo') /\ IsInjective(PairsIn(fate'))
          /\ ToSet(PairsIn(fate')) \subseteq ToSet(Asked) \ ToSet(todo')
      BY <1>2, <1>3, <1>4, <2>1, <2>2, HeadFated
    <2> QED
      BY <1>1, <1>2, <2>1, <2>3
  <1> QED
    BY <1>5, <1>6, <1>7, <1>8, <1>9 DEF CopyNext

\* As many fates of failure as entries that show one.
LEMMA CountsAgree ==
  ASSUME CopyInv, OnceInv, EntryShows, phase = "exit", entries # <<>>, IsInjective(req.platforms)
  PROVE  Failed = Cardinality({i \in DOMAIN fate : ~fate[i].ok})
  <1> DEFINE A == {j \in DOMAIN entries : entries[j].fails > 0}
             B == {i \in DOMAIN fate : ~fate[i].ok}
             f == [i \in B |-> CHOOSE j \in DOMAIN entries : Asked[j] = fate[i].pair]
  <1>1. /\ req \in Requests /\ fate \in Seq(Fate)
    BY CopyTypes DEF CopyInv, CopyTypeOK
  <1>2. IsInjective(Asked)
    BY <1>1, AskedOnce
  <1>3. DOMAIN entries = DOMAIN Asked
    <2>1. DOMAIN [j \in DOMAIN entries |-> <<entries[j].ref, entries[j].platform>>] = DOMAIN Asked
      BY DEF EntryShows
    <2> QED
      BY <2>1
  <1>4. \A j \in DOMAIN entries : entries[j].fails > 0 <=> \E i \in B : fate[i].pair = Asked[j]
    BY DEF EntryShows, Failures
  <1>5. \A i \in DOMAIN fate : \A k \in DOMAIN fate : fate[i].pair = fate[k].pair => i = k
    BY DEF OnceInv, PairsIn, IsInjective
  <1>6. \A i \in DOMAIN fate : \E j \in DOMAIN Asked : Asked[j] = fate[i].pair
    BY DEF OnceInv, PairsIn, ToSet
  <1>7. IsFiniteSet(B)
    <2>1. DOMAIN fate = 1..Len(fate) /\ Len(fate) \in Nat
      BY <1>1
    <2>2. IsFiniteSet(1..Len(fate)) /\ B \subseteq 1..Len(fate)
      BY <2>1, FS_Interval
    <2> QED
      BY <2>2, FS_Subset
  <1>8. \A i \in B : f[i] \in A /\ Asked[f[i]] = fate[i].pair
    BY <1>3, <1>4, <1>6
  <1>9. \A i \in B : \A k \in B : f[i] = f[k] => i = k
    <2> HIDE DEF A, f
    <2> QED
      BY <1>5, <1>8
  <1>10. \A j \in A : \E i \in B : f[i] = j
    <2> SUFFICES ASSUME NEW j \in A PROVE \E i \in B : f[i] = j
      OBVIOUS
    <2>1. PICK i \in B : fate[i].pair = Asked[j]
      BY <1>4
    <2>2. f[i] = j
      <3>1. f[i] \in DOMAIN entries /\ Asked[f[i]] = Asked[j]
        BY <1>8, <2>1
      <3> HIDE DEF f
      <3> QED
        BY <1>2, <1>3, <3>1 DEF IsInjective
    <2> QED
      BY <2>2
  <1>11. f \in [B -> A]
    BY <1>8
  <1> HIDE DEF A, B, f
  <1>12. ExistsBijection(B, A)
    BY <1>9, <1>10, <1>11 DEF ExistsBijection, Bijection, Injection, Surjection, IsInjective
  <1> QED
    BY <1>7, <1>12, FS_Bijection DEF Failed, A, B

\* When the request names no platform twice, the error that ends a copy counts as many entries as
\* there are images and platforms that failed (cli/copy.go:49, service.go: newResult, record): what
\* finding 5 refutes in general is due to the repeated platform alone.
THEOREM CountIsRight == CopySpec => [](IsInjective(req.platforms) => FailuresCounted)
  <1>1. CopyInit => OnceInv
    BY DEF CopyInit, OnceInv, PairsIn, IsInjective, ToSet
  <1>2. CopyInv /\ OnceInv /\ EntryShows => (IsInjective(req.platforms) => FailuresCounted)
    BY CountsAgree DEF FailuresCounted
  <1> QED
    BY <1>1, <1>2, OnceNext, CopyInvariant, EntriesShow, PTL DEF CopySpec

-----------------------------------------------------------------------------
(* Image layouts, and the recursive functions that walk them.               *)

\* What LayoutsAssumption says of the layout.
LEMMA LayoutShape ==
  ASSUME layout \in Layouts
  PROVE  /\ Top \in Files /\ Nil \notin Files /\ IsIndex(Top)
         /\ \A d \in Files : Type[d] \in {"index", "manifest", "other"} /\ Depth[d] \in Nat
         /\ \A d \in Files : IsIndex(d) =>
              /\ layout[d] \in Seq(ToSet(layout[d]))
              /\ DOMAIN layout[d] = 1..Len(layout[d]) /\ Len(layout[d]) \in Nat
              /\ \A i \in 1..Len(layout[d]) :
                   /\ layout[d][i].digest \in Files \ {Top}
                   /\ Depth[layout[d][i].digest] < Depth[d]
         /\ \A d \in Files : Type[d] = "manifest" =>
              /\ layout[d].layers \in Seq(Files) /\ layout[d].config \in Files
              /\ \A x \in ToSet(layout[d].layers) \cup {layout[d].config} : Type[x] = "other"
  <1>1. /\ Top \in DOMAIN layout /\ Nil \notin DOMAIN layout /\ Type[Top] = "index"
        /\ \A d \in DOMAIN layout :
             /\ Type[d] \in {"index", "manifest", "other"} /\ Depth[d] \in Nat
             /\ (Type[d] = "index" =>
                   /\ layout[d] \in Seq(ToSet(layout[d]))
                   /\ \A c \in ToSet(layout[d]) :
                        c.digest \in DOMAIN layout \ {Top} /\ Depth[c.digest] < Depth[d])
             /\ (Type[d] = "manifest" =>
                  LET others == {f \in DOMAIN layout : Type[f] = "other"}
                  IN  layout[d].layers \in Seq(others) /\ layout[d].config \in others)
    BY LayoutsAssumption
  <1>2. ASSUME NEW d \in Files, IsIndex(d)
        PROVE  /\ layout[d] \in Seq(ToSet(layout[d]))
               /\ DOMAIN layout[d] = 1..Len(layout[d]) /\ Len(layout[d]) \in Nat
               /\ \A i \in 1..Len(layout[d]) :
                    /\ layout[d][i].digest \in Files \ {Top}
                    /\ Depth[layout[d][i].digest] < Depth[d]
    <2>1. /\ layout[d] \in Seq(ToSet(layout[d]))
          /\ \A c \in ToSet(layout[d]) :
               c.digest \in DOMAIN layout \ {Top} /\ Depth[c.digest] < Depth[d]
      BY <1>1, <1>2 DEF Files, IsIndex
    <2>2. DOMAIN layout[d] = 1..Len(layout[d]) /\ Len(layout[d]) \in Nat
      BY <2>1
    <2>3. \A i \in 1..Len(layout[d]) : layout[d][i] \in ToSet(layout[d])
      BY <2>2 DEF ToSet
    <2> QED
      BY <2>1, <2>2, <2>3 DEF Files
  <1>3. ASSUME NEW d \in Files, Type[d] = "manifest"
        PROVE  /\ layout[d].layers \in Seq(Files) /\ layout[d].config \in Files
               /\ \A x \in ToSet(layout[d].layers) \cup {layout[d].config} : Type[x] = "other"
    <2> DEFINE others == {f \in Files : Type[f] = "other"}
               layers == layout[d].layers
    <2>1. layers \in Seq(others) /\ layout[d].config \in others
      BY <1>1, <1>3 DEF Files
    <2>2. layers \in Seq(Files) /\ \A i \in DOMAIN layers : Type[layers[i]] = "other"
      <3> HIDE DEF layers
      <3> QED
        BY <2>1
    <2> QED
      BY <2>1, <2>2 DEF ToSet
  <1> QED
    BY <1>1, <1>2, <1>3 DEF Files, IsIndex

\* What is in an index or a manifest is in the layout.
LEMMA DepsAreFiles ==
  ASSUME layout \in Layouts, NEW d \in Files
  PROVE  Deps(d) \subseteq Files
  <1>1. CASE Type[d] = "index"
    <2>1. IsIndex(d) /\ Deps(d) = {c.digest : c \in ToSet(layout[d])}
      BY <1>1 DEF Deps, IsIndex
    <2>2. /\ DOMAIN layout[d] = 1..Len(layout[d])
          /\ \A i \in 1..Len(layout[d]) : layout[d][i].digest \in Files
      BY <2>1, LayoutShape
    <2> QED
      BY <2>1, <2>2 DEF ToSet
  <1>2. CASE Type[d] = "manifest"
    <2>1. Deps(d) = ToSet(layout[d].layers) \cup {layout[d].config}
      BY <1>2 DEF Deps
    <2>2. layout[d].layers \in Seq(Files) /\ layout[d].config \in Files
      BY <1>2, LayoutShape
    <2>3. ToSet(layout[d].layers) \subseteq Files
      BY <2>2 DEF ToSet
    <2> QED
      BY <2>1, <2>2, <2>3
  <1>3. CASE Type[d] \notin {"index", "manifest"}
    BY <1>3 DEF Deps
  <1> QED
    BY <1>1, <1>2, <1>3

\* The depths of the files.
Rank == [e \in Files |-> Depth[e]]

LEMMA RankIs ==
  ASSUME layout \in Layouts
  PROVE  /\ Rank \in [Files -> Nat]
         /\ \A e \in Files : IsIndex(e) => \A i \in 1..Len(layout[e]) :
              layout[e][i].digest \in Files /\ Rank[layout[e][i].digest] < Rank[e]
  <1>1. \A e \in Files : Depth[e] \in Nat /\ Rank[e] = Depth[e]
    BY LayoutShape DEF Rank
  <1>2. Rank \in [Files -> Nat]
    BY <1>1 DEF Rank
  <1> QED
    BY <1>1, <1>2, LayoutShape

-----------------------------------------------------------------------------
\* A sequence of what can be read, or Nil.
Marks == Seq(Files \cup {Nil})
Below(W, e) == [i \in DOMAIN layout[e] |-> W[layout[e][i].digest]]
Inside(W, e) ==
  IF IsIndex(e) THEN FlattenSeq(Below(W, e)) ELSE layout[e].layers \o <<layout[e].config>>

LEMMA BelowIs ==
  ASSUME layout \in Layouts, NEW V, NEW W \in Maps(Files, V), NEW e \in Files, IsIndex(e)
  PROVE  /\ Below(W, e) \in Seq(V) /\ Len(Below(W, e)) = Len(layout[e])
         /\ \A i \in 1..Len(layout[e]) : Below(W, e)[i] = W[layout[e][i].digest]
  <1>1. /\ DOMAIN layout[e] = 1..Len(layout[e]) /\ Len(layout[e]) \in Nat
        /\ \A i \in 1..Len(layout[e]) : layout[e][i].digest \in Files
    BY LayoutShape
  <1> DEFINE n == Len(layout[e])
  <1>2. /\ Below(W, e) = [i \in 1..n |-> W[layout[e][i].digest]]
        /\ \A i \in 1..n : W[layout[e][i].digest] \in V
    BY <1>1 DEF Below, Maps
  <1>3. n \in Nat
    BY <1>1
  <1> HIDE DEF n
  <1>4. Below(W, e) \in Seq(V) /\ Len(Below(W, e)) = n
    BY <1>2, <1>3
  <1> QED
    BY <1>2, <1>4 DEF n

\* WalkBlobs is the function that its definition describes.
LEMMA WalkBlobsIs ==
  ASSUME layout \in Layouts
  PROVE  \E W \in Maps(Files, Marks) :
           /\ \A d : WalkBlobs(d) = W[d]
           /\ \A e \in Files : W[e] = IF Type[e] = "other" THEN <<e>>
                                      ELSE IF e \notin there THEN <<Nil>>
                                      ELSE Inside(W, e) \o <<e>>
  <1> DEFINE one(e) == <<e>>
             At(W, e) == IF Type[e] = "other" THEN one(e)
                         ELSE IF e \notin there THEN one(Nil)
                         ELSE Inside(W, e) \o one(e)
             Def(W) == [e \in Files |-> At(W, e)]
             E == [W \in Maps(Files, Marks) |-> Def(W)]
             walk == CHOOSE W : W = [e \in Files |->
                       IF Type[e] = "other" THEN <<e>>
                       ELSE IF e \notin there THEN <<Nil>>
                       ELSE WithParent(IF IsIndex(e)
                                       THEN FlattenSeq([i \in DOMAIN layout[e] |-> W[layout[e][i].digest]])
                                       ELSE layout[e].layers \o <<layout[e].config>>, e)]
  <1>1. \A d : WalkBlobs(d) = walk[d]
    BY Zenon DEF WalkBlobs
  <1>2. walk = CHOOSE W : W = Def(W)
    BY DEF Inside, Below, WithParent
  <1> HIDE DEF walk
  <1>3. \A e \in Files \cup {Nil} : one(e) \in Marks
    BY DEF Marks
  <1>4. ASSUME NEW W \in Maps(Files, Marks), NEW e \in Files, Type[e] # "other" PROVE Inside(W, e) \in Marks
    <2>1. CASE IsIndex(e)
      <3>1. Below(W, e) \in Seq(Marks)
        BY <2>1, BelowIs
      <3>2. FlattenSeq(Below(W, e)) \in Marks
        BY <3>1, FlattenElements DEF Marks
      <3> QED
        BY <2>1, <3>2 DEF Inside
    <2>2. CASE ~IsIndex(e)
      <3>1. layout[e].layers \in Seq(Files) /\ layout[e].config \in Files
        BY <1>4, <2>2, LayoutShape DEF IsIndex
      <3> DEFINE l == layout[e].layers
                 c == one(layout[e].config)
      <3>2. l \in Marks /\ c \in Marks
        BY <1>3, <3>1 DEF Marks
      <3>3. Inside(W, e) = l \o c
        BY <2>2 DEF Inside
      <3> HIDE DEF l, c
      <3> QED
        BY <3>2, <3>3 DEF Marks
    <2> QED
      BY <2>1, <2>2
  <1>5. ASSUME NEW W \in Maps(Files, Marks), NEW e \in Files PROVE At(W, e) \in Marks
    <2>1. one(e) \in Marks /\ one(Nil) \in Marks
      BY <1>3
    <2> HIDE DEF one
    <2>2. CASE Type[e] # "other"
      <3>1. Inside(W, e) \in Marks
        BY <1>4, <2>2
      <3>2. Inside(W, e) \o one(e) \in Marks
        BY <2>1, <3>1 DEF Marks
      <3> QED
        BY <2>1, <3>2
    <2> QED
      BY <2>1, <2>2
  <1>6. ASSUME NEW f \in Maps(Files, Marks), NEW g \in Maps(Files, Marks), NEW e \in Files,
               \A x \in Files : Rank[x] < Rank[e] => f[x] = g[x]
        PROVE  Inside(f, e) = Inside(g, e)
    <2>1. CASE IsIndex(e)
      <3>1. \A i \in DOMAIN layout[e] : f[layout[e][i].digest] = g[layout[e][i].digest]
        BY <1>6, <2>1, LayoutShape, RankIs
      <3>2. Below(f, e) = Below(g, e)
        BY <3>1 DEF Below
      <3> QED
        BY <2>1, <3>2 DEF Inside
    <2>2. CASE ~IsIndex(e)
      BY <2>2 DEF Inside
    <2> QED
      BY <2>1, <2>2
  <1>7. E \in [Maps(Files, Marks) -> Maps(Files, Marks)]
    <2> HIDE DEF At
    <2>1. ASSUME NEW W \in Maps(Files, Marks) PROVE Def(W) \in Maps(Files, Marks)
      BY <1>5 DEF Maps
    <2> QED
      BY <2>1
  <1>8. \A f \in Maps(Files, Marks), e \in Files : E[f][e] = At(f, e)
    <2> HIDE DEF At
    <2> QED
      OBVIOUS
  <1>9. \A f, g \in Maps(Files, Marks), e \in Files :
          (\A x \in Files : Rank[x] < Rank[e] => f[x] = g[x]) => E[f][e] = E[g][e]
    <2> SUFFICES ASSUME NEW f \in Maps(Files, Marks), NEW g \in Maps(Files, Marks), NEW e \in Files,
                        \A x \in Files : Rank[x] < Rank[e] => f[x] = g[x]
                 PROVE  At(f, e) = At(g, e)
      BY <1>8
    <2>1. Inside(f, e) = Inside(g, e)
      BY <1>6
    <2> QED
      BY <2>1
  <1>10. \E W \in Maps(Files, Marks) : W = E[W]
    <2> DEFINE none == <<>>
    <2>1. none \in Marks
      BY DEF Marks
    <2>2. Rank \in [Files -> Nat]
      BY RankIs
    <2> HIDE DEF E, none
    <2> QED
      BY <1>7, <1>9, <2>1, <2>2, RankedRecursion
  <1>11. PICK W \in Maps(Files, Marks) : W = Def(W)
    <2> HIDE DEF At
    <2> QED
      BY <1>10
  <1>12. walk = Def(walk)
    BY <1>2, <1>11
  <1> DEFINE S == {e \in Files : walk[e] \in Marks}
  <1>13. \A e \in Files : walk[e] = At(walk, e)
    <2> HIDE DEF At
    <2> QED
      BY <1>12
  <1>14. walk \in Maps(Files, Marks)
    <2> DEFINE same == {e \in Files : walk[e] = W[e]}
    <2>1. ASSUME NEW e \in Files, \A x \in Files : Rank[x] < Rank[e] => x \in same PROVE e \in same
      <3>1. Inside(walk, e) = Inside(W, e)
        <4>1. CASE IsIndex(e)
          <5>1. \A i \in DOMAIN layout[e] : walk[layout[e][i].digest] = W[layout[e][i].digest]
            BY <2>1, <4>1, LayoutShape, RankIs
          <5>2. Below(walk, e) = Below(W, e)
            BY <5>1 DEF Below
          <5> QED
            BY <4>1, <5>2 DEF Inside
        <4>2. CASE ~IsIndex(e)
          BY <4>2 DEF Inside
        <4> QED
          BY <4>1, <4>2
      <3>2. W[e] = At(W, e)
        <4> HIDE DEF At
        <4> QED
          BY <1>11
      <3> QED
        BY <1>13, <3>1, <3>2
    <2> HIDE DEF same
    <2>2. Files \subseteq same
      BY <2>1, RankIs, RankInduction
    <2>3. DOMAIN walk = Files /\ walk = [e \in Files |-> walk[e]]
      <3> HIDE DEF At
      <3> QED
        BY <1>12
    <2>4. \A e \in Files : walk[e] \in Marks
      BY <2>2 DEF same, Maps
    <2> QED
      BY <2>3, <2>4 DEF Maps
  <1> QED
    BY <1>1, <1>13, <1>14

-----------------------------------------------------------------------------
(* Walks: each blob after all that it refers to.                            *)

\* Each is one of R, or what another refers to.
RootedIn(s, R) == \A x \in ToSet(s) : x \in R \/ \E y \in ToSet(s) : x \in Deps(y)

\* The walks from R: those that stop at a file that cannot be read, and those that do not.
Walks(R) == {s \in Marks : Nil \in ToSet(s) \/ (s \in Seq(Files) /\ Follows(s) /\ RootedIn(s, R))}

LEMMA FollowsJoin ==
  ASSUME NEW S, NEW s \in Seq(S), NEW t \in Seq(S), Follows(s), Follows(t)
  PROVE  Follows(s \o t)
  <1> DEFINE m == Len(s)
             n == Len(t)
             c == s \o t
  <1>1. /\ m \in Nat /\ n \in Nat /\ Len(c) = m + n
        /\ \A i \in 1..(m + n) : c[i] = IF i <= m THEN s[i] ELSE t[i - m]
    OBVIOUS
  <1> SUFFICES ASSUME NEW i \in 1..(m + n), NEW x \in Deps(c[i]) PROVE \E j \in 1..(i - 1) : x = c[j]
    BY <1>1 DEF Follows
  <1> HIDE DEF m, n, c
  <1>2. CASE i <= m
    <2>1. c[i] = s[i] /\ i \in 1..m
      BY <1>1, <1>2
    <2>2. PICK j \in 1..(i - 1) : x = s[j]
      BY <2>1 DEF Follows, m
    <2>3. j \in 1..(m + n) /\ j <= m
      BY <1>1, <1>2
    <2> QED
      BY <1>1, <2>2, <2>3
  <1>3. CASE ~(i <= m)
    <2>1. c[i] = t[i - m] /\ i - m \in 1..n
      BY <1>1, <1>3
    <2>2. PICK j \in 1..(i - m - 1) : x = t[j]
      BY <2>1 DEF Follows, n
    <2>3. j + m \in 1..(m + n) /\ ~(j + m <= m) /\ (j + m) - m = j /\ j + m \in 1..(i - 1)
      BY <1>1, <1>3, <2>1
    <2> QED
      BY <1>1, <2>2, <2>3
  <1> QED
    BY <1>2, <1>3

LEMMA WalksJoin ==
  ASSUME NEW R
  PROVE  <<>> \in Walks(R) /\ \A s, t \in Walks(R) : s \o t \in Walks(R)
  <1>1. <<>> \in Walks(R)
    <2> DEFINE e == <<>>
    <2>1. e \in Marks /\ e \in Seq(Files) /\ ToSet(e) = {}
      BY DEF Marks, ToSet
    <2>2. Len(e) = 0 /\ \A i \in 1..0 : FALSE
      OBVIOUS
    <2> HIDE DEF e
    <2>3. Follows(e) /\ RootedIn(e, R)
      BY <2>1, <2>2 DEF Follows, RootedIn
    <2>4. e \in Walks(R)
      BY <2>1, <2>3 DEF Walks
    <2> QED
      BY <2>4 DEF e
  <1>2. ASSUME NEW s \in Walks(R), NEW t \in Walks(R) PROVE s \o t \in Walks(R)
    <2>1. s \in Marks /\ t \in Marks
      BY DEF Walks
    <2>2. s \o t \in Marks /\ ToSet(s \o t) = ToSet(s) \cup ToSet(t)
      BY <2>1, ConcatElements DEF Marks
    <2>3. CASE Nil \in ToSet(s) \/ Nil \in ToSet(t)
      BY <2>2, <2>3 DEF Walks
    <2>4. CASE Nil \notin ToSet(s) /\ Nil \notin ToSet(t)
      <3>1. /\ s \in Seq(Files) /\ Follows(s) /\ RootedIn(s, R)
            /\ t \in Seq(Files) /\ Follows(t) /\ RootedIn(t, R)
        BY <2>4 DEF Walks
      <3>2. s \o t \in Seq(Files) /\ Follows(s \o t)
        BY <3>1, FollowsJoin
      <3>3. RootedIn(s \o t, R)
        BY <2>2, <3>1 DEF RootedIn
      <3> QED
        BY <2>2, <3>2, <3>3 DEF Walks
    <2> QED
      BY <2>3, <2>4
  <1> QED
    BY <1>1, <1>2

\* A sequence of one blob.
LEMMA OneBlob ==
  ASSUME NEW S, NEW e \in S
  PROVE  \E s \in Seq(S) : s = <<e>> /\ Len(s) = 1 /\ s[1] = e /\ ToSet(s) = {e}
  <1> DEFINE s == <<e>>
  <1>1. s \in Seq(S) /\ s = <<e>> /\ Len(s) = 1 /\ s[1] = e /\ ToSet(s) = {e}
    BY DEF ToSet
  <1> HIDE DEF s
  <1> QED
    BY <1>1

LEMMA RootsGrow ==
  ASSUME NEW R, NEW Q, R \subseteq Q
  PROVE  Walks(R) \subseteq Walks(Q)
  BY DEF Walks, RootedIn

\* What is inside an index or a manifest: a walk from what it refers to, with all of that.
LEMMA InsideIs ==
  ASSUME layout \in Layouts, NEW W \in Maps(Files, Marks), NEW e \in Files, Type[e] # "other",
         IsIndex(e) => \A i \in 1..Len(layout[e]) :
           LET c == layout[e][i].digest
           IN  W[c] \in Walks({c}) /\ (Nil \in ToSet(W[c]) \/ c \in ToSet(W[c]))
  PROVE  /\ Inside(W, e) \in Walks(Deps(e))
         /\ Nil \in ToSet(Inside(W, e)) \/ Deps(e) \subseteq ToSet(Inside(W, e))
  <1>1. CASE IsIndex(e)
    <2> DEFINE n == Len(layout[e])
               c(i) == layout[e][i].digest
               below == Below(W, e)
    <2>1. /\ below \in Seq(Marks) /\ Len(below) = n
          /\ \A i \in 1..n : below[i] = W[c(i)]
      BY <1>1, BelowIs
    <2>2. Deps(e) = {c(i) : i \in 1..n}
      <3>1. DOMAIN layout[e] = 1..n
        BY <1>1, LayoutShape
      <3>2. Deps(e) = {d.digest : d \in ToSet(layout[e])}
        BY <1>1 DEF Deps, IsIndex
      <3> QED
        BY <3>1, <3>2 DEF ToSet
    <2>3. \A i \in 1..n : W[c(i)] \in Walks({c(i)}) /\ (Nil \in ToSet(W[c(i)]) \/ c(i) \in ToSet(W[c(i)]))
      BY <1>1
    <2> HIDE DEF below, c, n
    <2>4. \A i \in 1..Len(below) : below[i] \in Walks(Deps(e))
      <3> SUFFICES ASSUME NEW i \in 1..n PROVE W[c(i)] \in Walks(Deps(e))
        BY <2>1
      <3>1. Walks({c(i)}) \subseteq Walks(Deps(e))
        BY <2>2, RootsGrow
      <3> QED
        BY <2>3, <3>1
    <2> DEFINE G == Walks(Deps(e))
    <2>5. /\ G \subseteq Seq(Files \cup {Nil}) /\ <<>> \in G /\ \A s, t \in G : s \o t \in G
          /\ below \in Seq(Seq(Files \cup {Nil}))
      BY <2>1, WalksJoin DEF Walks, Marks
    <2>6. FlattenSeq(below) \in G
      <3> HIDE DEF G
      <3>1. \A i \in 1..Len(below) : below[i] \in G
        BY <2>4 DEF G
      <3> QED
        BY <2>5, <3>1, FlattenClosed
    <2>7. \A x : x \in ToSet(FlattenSeq(below)) <=> \E i \in 1..Len(below) : x \in ToSet(below[i])
      BY <2>5, FlattenElements
    <2>8. Nil \in ToSet(FlattenSeq(below)) \/ Deps(e) \subseteq ToSet(FlattenSeq(below))
      BY <2>1, <2>2, <2>3, <2>7
    <2>9. Inside(W, e) = FlattenSeq(below)
      BY <1>1 DEF Inside, below
    <2> QED
      BY <2>6, <2>8, <2>9
  <1>2. CASE ~IsIndex(e)
    <2> DEFINE l == layout[e].layers
               c == layout[e].config
    <2>1. Type[e] = "manifest"
      BY <1>2, LayoutShape DEF IsIndex
    <2>2. l \in Seq(Files) /\ c \in Files /\ \A x \in ToSet(l) \cup {c} : Type[x] = "other"
      BY <2>1, LayoutShape
    <2>3. Deps(e) = ToSet(l) \cup {c}
      BY <2>1 DEF Deps
    <2>4. Inside(W, e) = l \o <<c>>
      BY <1>2 DEF Inside
    <2> HIDE DEF l, c
    <2>5. PICK one \in Seq(Files) : one = <<c>> /\ ToSet(one) = {c}
      BY <2>2, OneBlob
    <2> DEFINE s == l \o one
    <2>6. s \in Seq(Files) /\ ToSet(s) = Deps(e) /\ s = Inside(W, e)
      <3>1. l \in Seq(Files) /\ one \in Seq(Files)
        BY <2>2, <2>5
      <3>2. l \o one \in Seq(Files) /\ ToSet(l \o one) = ToSet(l) \cup ToSet(one)
        BY <3>1, ConcatElements
      <3> QED
        BY <2>3, <2>4, <2>5, <3>2
    <2> HIDE DEF s
    <2>7. \A x \in ToSet(s) : Deps(x) = {}
      BY <2>2, <2>3, <2>6 DEF Deps
    <2>8. Follows(s)
      <3>1. \A i \in 1..Len(s) : s[i] \in ToSet(s)
        BY <2>6 DEF ToSet
      <3> QED
        BY <2>7, <3>1 DEF Follows
    <2>9. RootedIn(s, Deps(e)) /\ s \in Marks
      BY <2>6 DEF RootedIn, Marks
    <2> QED
      BY <2>6, <2>8, <2>9 DEF Walks
  <1> QED
    BY <1>1, <1>2

\* walkBlobs yields what is under a blob, dependencies first, and the blob.
LEMMA WalkBlobsWalks ==
  ASSUME layout \in Layouts, NEW d \in Files
  PROVE  WalkBlobs(d) \in Walks({d}) /\ (Nil \in ToSet(WalkBlobs(d)) \/ d \in ToSet(WalkBlobs(d)))
  <1>1. PICK W \in Maps(Files, Marks) :
           /\ \A x : WalkBlobs(x) = W[x]
           /\ \A e \in Files : W[e] = IF Type[e] = "other" THEN <<e>>
                                      ELSE IF e \notin there THEN <<Nil>>
                                      ELSE Inside(W, e) \o <<e>>
    BY WalkBlobsIs
  <1> DEFINE S == {e \in Files : W[e] \in Walks({e}) /\ (Nil \in ToSet(W[e]) \/ e \in ToSet(W[e]))}
  <1>2. ASSUME NEW e \in Files, \A x \in Files : Rank[x] < Rank[e] => x \in S PROVE e \in S
    <2>0. PICK one \in Seq(Files) : one = <<e>> /\ Len(one) = 1 /\ one[1] = e /\ ToSet(one) = {e}
      BY OneBlob
    <2>1. CASE Type[e] = "other"
      <3>1. W[e] = one
        BY <1>1, <2>0, <2>1
      <3>2. Deps(e) = {}
        BY <2>1 DEF Deps
      <3>3. \A i \in 1..1 : i = 1
        OBVIOUS
      <3>4. Follows(one)
        BY <2>0, <3>2, <3>3 DEF Follows
      <3>5. RootedIn(one, {e}) /\ one \in Marks
        BY <2>0 DEF RootedIn, Marks
      <3> QED
        BY <2>0, <3>1, <3>4, <3>5 DEF Walks
    <2>2. CASE Type[e] # "other" /\ e \notin there
      <3>1. PICK none \in Seq(Files \cup {Nil}) : none = <<Nil>> /\ ToSet(none) = {Nil}
        BY OneBlob
      <3>2. W[e] = none
        BY <1>1, <2>2, <3>1
      <3> QED
        BY <3>1, <3>2 DEF Walks, Marks
    <2>3. CASE Type[e] # "other" /\ e \in there
      <3> DEFINE s == Inside(W, e)
      <3>1. W[e] = s \o one
        BY <1>1, <2>0, <2>3
      <3>2. IsIndex(e) => \A i \in 1..Len(layout[e]) : layout[e][i].digest \in S
        BY <1>2, RankIs
      <3>3. s \in Walks(Deps(e)) /\ (Nil \in ToSet(s) \/ Deps(e) \subseteq ToSet(s))
        BY <2>3, <3>2, InsideIs
      <3> HIDE DEF s, S
      <3>4. s \in Marks /\ one \in Marks
        BY <2>0, <3>3 DEF Walks, Marks
      <3>5. s \o one \in Marks /\ ToSet(s \o one) = ToSet(s) \cup {e}
        <4>1. s \o one \in Marks /\ ToSet(s \o one) = ToSet(s) \cup ToSet(one)
          BY <3>4, ConcatElements DEF Marks
        <4> QED
          BY <2>0, <4>1
      <3>6. CASE Nil \in ToSet(s)
        BY <3>1, <3>5, <3>6 DEF Walks, S
      <3>7. CASE Nil \notin ToSet(s)
        <4>1. s \in Seq(Files) /\ Follows(s) /\ RootedIn(s, Deps(e)) /\ Deps(e) \subseteq ToSet(s)
          BY <3>3, <3>7 DEF Walks
        <4>2. s \o one \in Seq(Files)
          BY <2>0, <4>1
        <4>3. RootedIn(s \o one, {e})
          BY <3>5, <4>1 DEF RootedIn
        <4>4. Follows(s \o one)
          <5> DEFINE c == s \o one
                     m == Len(s)
          <5>1. /\ m \in Nat /\ Len(c) = m + 1 /\ c[m + 1] = e
                /\ \A i \in 1..m : c[i] = s[i]
            BY <2>0, <4>1
          <5>2. ToSet(s) = {s[i] : i \in 1..m}
            BY <4>1 DEF ToSet
          <5> SUFFICES ASSUME NEW i \in 1..(m + 1), NEW x \in Deps(c[i])
                       PROVE  \E j \in 1..(i - 1) : x = c[j]
            BY <5>1 DEF Follows
          <5> HIDE DEF c, m
          <5>3. CASE i = m + 1
            <6>1. PICK j \in 1..m : x = s[j]
              BY <4>1, <5>1, <5>2, <5>3
            <6>2. j \in 1..(i - 1)
              BY <5>1, <5>3
            <6> QED
              BY <5>1, <6>1, <6>2
          <5>4. CASE i # m + 1
            <6>1. i \in 1..m
              BY <5>1, <5>4
            <6>2. PICK j \in 1..(i - 1) : x = s[j]
              BY <4>1, <5>1, <6>1 DEF Follows, m
            <6>3. j \in 1..m
              BY <5>1, <6>1
            <6> QED
              BY <5>1, <6>2, <6>3
          <5> QED
            BY <5>3, <5>4
        <4> QED
          BY <3>1, <3>5, <4>2, <4>3, <4>4 DEF Walks, S
      <3> QED
        BY <3>6, <3>7
    <2> QED
      BY <2>1, <2>2, <2>3
  <1> HIDE DEF S
  <1>3. Files \subseteq S
    BY <1>2, RankIs, RankInduction
  <1> QED
    BY <1>1, <1>3 DEF S

LEMMA UniqueFollows ==
  ASSUME NEW s \in Seq(Files), Follows(s)
  PROVE  Follows(Unique(s))
  <1> DEFINE u == Unique(s)
  <1>1. /\ u \in Seq(Files)
        /\ \A i \in 1..Len(u) : \E k \in 1..Len(s) :
             /\ u[i] = s[k]
             /\ \A j \in 1..(k - 1) : \E l \in 1..(i - 1) : s[j] = u[l]
    BY UniqueOnce
  <1> HIDE DEF u
  <1> SUFFICES ASSUME NEW i \in 1..Len(u), NEW x \in Deps(u[i]) PROVE \E l \in 1..(i - 1) : x = u[l]
    BY DEF Follows, u
  <1>2. PICK k \in 1..Len(s) : /\ u[i] = s[k]
                              /\ \A j \in 1..(k - 1) : \E l \in 1..(i - 1) : s[j] = u[l]
    BY <1>1
  <1>3. PICK j \in 1..(k - 1) : x = s[j]
    BY <1>2 DEF Follows
  <1> QED
    BY <1>2, <1>3

\* What is known of a layout: its files, and whether some index cannot be read.
LEMMA KnownAreFiles ==
  ASSUME layout \in Layouts
  PROVE  Known \subseteq Files \cup {Nil}
  <1> DEFINE V == SUBSET (Files \cup {Nil})
             In(U, e) == UNION {{c.digest} \cup U[c.digest] : c \in ToSet(layout[e])}
             At(U, e) == IF ~IsIndex(e) THEN {} ELSE IF e \notin there THEN {Nil} ELSE In(U, e)
             Def(U) == [e \in Files |-> At(U, e)]
             E == [U \in Maps(Files, V) |-> Def(U)]
             under == CHOOSE U : U = [e \in Files |->
                        IF ~IsIndex(e) THEN {} ELSE IF e \notin there THEN {Nil}
                        ELSE UNION {{c.digest} \cup U[c.digest] : c \in ToSet(layout[e])}]
  <1>1. Known = under[Top]
    BY Zenon DEF Known
  <1>2. under = CHOOSE U : U = Def(U)
    OBVIOUS
  <1> HIDE DEF under
  <1>3. ASSUME NEW e \in Files, IsIndex(e), NEW c \in ToSet(layout[e])
        PROVE  c.digest \in Files /\ Rank[c.digest] < Rank[e]
    <2>1. PICK i \in 1..Len(layout[e]) : c = layout[e][i]
      BY <1>3, LayoutShape DEF ToSet
    <2> QED
      BY <1>3, <2>1, RankIs
  <1>4. ASSUME NEW U \in Maps(Files, V), NEW e \in Files PROVE At(U, e) \in V
    <2>1. ASSUME IsIndex(e) PROVE In(U, e) \subseteq Files \cup {Nil}
      <3>1. \A c \in ToSet(layout[e]) : {c.digest} \cup U[c.digest] \subseteq Files \cup {Nil}
        BY <1>3, <2>1 DEF Maps
      <3> QED
        BY <3>1
    <2> HIDE DEF In
    <2> QED
      BY <2>1
  <1>5. ASSUME NEW f, NEW g, NEW e \in Files, \A x \in Files : Rank[x] < Rank[e] => f[x] = g[x]
        PROVE  At(f, e) = At(g, e)
    <2>1. ASSUME IsIndex(e) PROVE In(f, e) = In(g, e)
      <3>1. \A c \in ToSet(layout[e]) : f[c.digest] = g[c.digest]
        BY <1>3, <1>5, <2>1
      <3> QED
        BY <3>1
    <2> HIDE DEF In
    <2> QED
      BY <2>1
  <1>6. E \in [Maps(Files, V) -> Maps(Files, V)]
    <2> HIDE DEF At
    <2>1. ASSUME NEW U \in Maps(Files, V) PROVE Def(U) \in Maps(Files, V)
      BY <1>4 DEF Maps
    <2> QED
      BY <2>1
  <1>7. \A f \in Maps(Files, V), e \in Files : E[f][e] = At(f, e)
    <2> HIDE DEF At
    <2> QED
      OBVIOUS
  <1> HIDE DEF At
  <1>8. \E U \in Maps(Files, V) : U = E[U]
    <2> DEFINE none == {}
    <2>1. none \in V
      OBVIOUS
    <2>2. Rank \in [Files -> Nat]
      BY RankIs
    <2>3. \A f, g \in Maps(Files, V), e \in Files :
            (\A x \in Files : Rank[x] < Rank[e] => f[x] = g[x]) => E[f][e] = E[g][e]
      BY <1>5, <1>7
    <2> HIDE DEF E, V, none
    <2> QED
      BY <1>6, <2>1, <2>2, <2>3, RankedRecursion
  <1>9. PICK U \in Maps(Files, V) : U = Def(U)
    BY <1>8
  <1>10. under = Def(under)
    BY <1>2, <1>9
  <1> DEFINE same == {e \in Files : under[e] = U[e]}
  <1>11. ASSUME NEW e \in Files, \A x \in Files : Rank[x] < Rank[e] => x \in same PROVE e \in same
    <2>1. under[e] = At(under, e) /\ U[e] = At(U, e)
      BY <1>9, <1>10
    <2>2. At(under, e) = At(U, e)
      BY <1>5, <1>11
    <2> QED
      BY <2>1, <2>2
  <1> HIDE DEF same
  <1>12. Files \subseteq same
    BY <1>11, RankIs, RankInduction
  <1>13. Top \in Files
    BY LayoutShape
  <1> QED
    BY <1>1, <1>12, <1>13 DEF same, Maps

\* What find does in index e, when L is what it did in the indexes below.
Hits(L, d, e, i) ==
  \/ layout[e][i].digest = d
  \/ IsIndex(layout[e][i].digest) /\ layout[e][i].digest \in there /\ L[layout[e][i].digest] = "found"
Shut(e, i) == IsIndex(layout[e][i].digest) /\ layout[e][i].digest \notin there
Ends(L, d, e) == {i \in DOMAIN layout[e] : Hits(L, d, e, i) \/ Shut(e, i)}
LookAt(L, d, e) ==
  IF Ends(L, d, e) = {} THEN "notexist"
  ELSE IF Hits(L, d, e, CHOOSE i \in Ends(L, d, e) : \A j \in Ends(L, d, e) : i <= j) THEN "found" ELSE "error"

\* Search is the function that its definition describes.
LEMMA SearchIs ==
  ASSUME layout \in Layouts, NEW d
  PROVE  \E L : Search(d) = L[Top] /\ \A e \in Indexes : L[e] = LookAt(L, d, e)
  <1> DEFINE F == Indexes
             R == [e \in F |-> Rank[e]]
             V == {"found", "notexist", "error"}
             At(L, e) == LookAt(L, d, e)
             Def(L) == [e \in F |-> At(L, e)]
             E == [L \in Maps(F, V) |-> Def(L)]
             look == CHOOSE L : L = [e \in Indexes |->
                       LET c == layout[e]
                           hit(i) == \/ c[i].digest = d
                                     \/ IsIndex(c[i].digest) /\ c[i].digest \in there /\ L[c[i].digest] = "found"
                           unreadable(i) == IsIndex(c[i].digest) /\ c[i].digest \notin there
                           last == {i \in DOMAIN c : hit(i) \/ unreadable(i)}
                       IN  IF last = {} THEN "notexist"
                           ELSE IF hit(CHOOSE i \in last : \A j \in last : i <= j) THEN "found" ELSE "error"]
  <1>1. Search(d) = look[Top]
    BY Zenon DEF Search
  <1>2. look = CHOOSE L : L = Def(L)
    BY Zenon DEF LookAt, Ends, Hits, Shut
  <1> HIDE DEF look
  <1>3. ASSUME NEW L, NEW e \in F PROVE At(L, e) \in V
    BY DEF LookAt
  <1>4. ASSUME NEW f, NEW g, NEW e \in F, \A x \in F : R[x] < R[e] => f[x] = g[x]
        PROVE  At(f, e) = At(g, e)
    <2> DEFINE ends == Ends(g, d, e)
    <2>1. \A i \in DOMAIN layout[e] : Hits(f, d, e, i) <=> Hits(g, d, e, i)
      <3> SUFFICES ASSUME NEW i \in DOMAIN layout[e], IsIndex(layout[e][i].digest)
                   PROVE  f[layout[e][i].digest] = g[layout[e][i].digest]
        BY DEF Hits
      <3>1. layout[e][i].digest \in F /\ R[layout[e][i].digest] < R[e]
        BY LayoutShape, RankIs DEF Indexes
      <3> HIDE DEF F, R
      <3> QED
        BY <1>4, <3>1
    <2>2. Ends(f, d, e) = ends
      BY <2>1 DEF Ends
    <2>3. ends \subseteq DOMAIN layout[e] /\ DOMAIN layout[e] \subseteq Nat
      BY LayoutShape DEF Ends, Indexes
    <2> HIDE DEF ends
    <2>4. ends # {} => (CHOOSE i \in ends : \A j \in ends : i <= j) \in ends
      BY <2>3, LeastElement
    <2> QED
      BY <2>1, <2>2, <2>3, <2>4 DEF LookAt, ends
  <1> HIDE DEF At
  <1>5. \A f \in Maps(F, V), e \in F : E[f][e] = At(f, e)
    BY Zenon DEF Maps
  <1>6. E \in [Maps(F, V) -> Maps(F, V)]
    BY <1>3 DEF Maps
  <1>7. R \in [F -> Nat]
    BY RankIs DEF Indexes
  <1>8. \E L \in Maps(F, V) : L = E[L]
    <2> DEFINE none == "notexist"
    <2>1. none \in V
      OBVIOUS
    <2>2. \A f, g \in Maps(F, V), e \in F :
            (\A x \in F : R[x] < R[e] => f[x] = g[x]) => E[f][e] = E[g][e]
      BY <1>4, <1>5
    <2> HIDE DEF E, V, F, R, none
    <2> QED
      BY <1>6, <1>7, <2>1, <2>2, RankedRecursion
  <1>9. PICK L \in Maps(F, V) : L = Def(L)
    BY <1>8
  <1>10. look = Def(look)
    BY <1>2, <1>9
  <1>11. \A e \in F : look[e] = At(look, e)
    BY <1>10
  <1> QED
    BY <1>1, <1>11 DEF At

\* Search finds, does not find, or cannot tell.
LEMMA SearchEnds ==
  ASSUME layout \in Layouts, NEW d
  PROVE  Search(d) \in {"found", "notexist", "error"}
  <1>1. Top \in Indexes
    BY LayoutShape DEF Indexes
  <1> QED
    BY <1>1, SearchIs DEF LookAt

-----------------------------------------------------------------------------
(* The readers.                                                             *)

\* What blobsFrom decides to yield, when it can read what is under every root.
LEMMA WholeIs ==
  ASSUME layout \in Layouts, NEW roots \in Seq(Files),
         NEW all, all = FlattenSeq([i \in DOMAIN roots |-> WalkBlobs(roots[i])])
  PROVE  /\ all \in Marks
         /\ ~Contains(all, Nil) =>
              /\ Unique(all) \in Seq(Files) /\ IsInjective(Unique(all)) /\ Follows(Unique(all))
              /\ RootedIn(Unique(all), ToSet(roots)) /\ ToSet(roots) \subseteq ToSet(Unique(all))
              /\ all = <<>> => Unique(all) = <<>>
  <1> DEFINE R == ToSet(roots)
             n == Len(roots)
             walks == [i \in DOMAIN roots |-> WalkBlobs(roots[i])]
             T == Files \cup {Nil}
             G == Walks(R)
  <1>1. n \in Nat /\ DOMAIN roots = 1..n /\ \A i \in 1..n : roots[i] \in Files /\ roots[i] \in R
    BY DEF ToSet
  <1>2. ASSUME NEW i \in 1..n
        PROVE  /\ WalkBlobs(roots[i]) \in G
               /\ Nil \in ToSet(WalkBlobs(roots[i])) \/ roots[i] \in ToSet(WalkBlobs(roots[i]))
    <2> DEFINE d == roots[i]
    <2>1. d \in Files /\ {d} \subseteq R
      BY <1>1
    <2> HIDE DEF d, R
    <2>2. WalkBlobs(d) \in Walks({d}) /\ (Nil \in ToSet(WalkBlobs(d)) \/ d \in ToSet(WalkBlobs(d)))
      BY <2>1, WalkBlobsWalks
    <2>3. Walks({d}) \subseteq Walks(R)
      BY <2>1, RootsGrow
    <2> QED
      BY <2>2, <2>3 DEF d
  <1>3. G \subseteq Seq(T) /\ <<>> \in G /\ \A s, t \in G : s \o t \in G
    BY WalksJoin DEF Walks, Marks
  <1>4. /\ walks \in Seq(Seq(T)) /\ Len(walks) = n
        /\ \A i \in 1..n : walks[i] = WalkBlobs(roots[i]) /\ walks[i] \in G
    <2> HIDE DEF G, n
    <2>1. walks = [i \in 1..n |-> WalkBlobs(roots[i])]
      BY <1>1
    <2>2. \A i \in 1..n : WalkBlobs(roots[i]) \in Seq(T) /\ WalkBlobs(roots[i]) \in G
      BY <1>2, <1>3
    <2> QED
      BY <1>1, <2>1, <2>2
  <1> HIDE DEF walks, G, n, T
  <1>5. all \in G
    BY <1>3, <1>4, FlattenClosed DEF walks
  <1>6. \A x : x \in ToSet(all) <=> \E i \in 1..n : x \in ToSet(walks[i])
    BY <1>4, FlattenElements DEF walks
  <1>7. all \in Marks
    BY <1>5 DEF G, Walks
  <1>8. ASSUME ~Contains(all, Nil)
        PROVE  /\ all \in Seq(Files) /\ Follows(all) /\ RootedIn(all, R)
               /\ R \subseteq ToSet(all)
    <2>1. Nil \notin ToSet(all)
      BY <1>7, <1>8, ContainsIsIn DEF Marks
    <2>2. all \in Seq(Files) /\ Follows(all) /\ RootedIn(all, R)
      BY <1>5, <2>1 DEF G, Walks
    <2>3. R = {roots[i] : i \in 1..n}
      BY <1>1 DEF ToSet
    <2>4. \A i \in 1..n : roots[i] \in ToSet(all)
      BY <1>2, <1>4, <1>6, <2>1
    <2> QED
      BY <2>2, <2>3, <2>4
  <1>9. ASSUME ~Contains(all, Nil)
        PROVE  /\ Unique(all) \in Seq(Files) /\ IsInjective(Unique(all)) /\ Follows(Unique(all))
               /\ RootedIn(Unique(all), R) /\ R \subseteq ToSet(Unique(all))
               /\ all = <<>> => Unique(all) = <<>>
    <2>1. /\ Unique(all) \in Seq(Files) /\ IsInjective(Unique(all))
          /\ ToSet(Unique(all)) = ToSet(all)
      BY <1>8, <1>9, UniqueOnce
    <2>2. Follows(Unique(all))
      BY <1>8, <1>9, UniqueFollows
    <2>3. ASSUME all = <<>> PROVE Unique(all) = <<>>
      <3> DEFINE u == Unique(all)
      <3>1. u \in Seq(Files) /\ ToSet(u) = {}
        <4>1. ToSet(<<>>) = {}
          BY DEF ToSet
        <4> QED
          BY <2>1, <2>3, <4>1
      <3> HIDE DEF u
      <3>2. \A i \in 1..Len(u) : u[i] \in ToSet(u)
        BY <3>1 DEF ToSet
      <3> QED
        BY <3>1, <3>2 DEF u
    <2> QED
      BY <1>8, <1>9, <2>1, <2>2, <2>3 DEF RootedIn
  <1> QED
    BY <1>7, <1>9

\* SelectInSeq gives the first of the positions where its test holds.
LEMMA FirstOf ==
  ASSUME NEW n \in Nat, NEW I, I \subseteq 1..n, NEW k, k = IF I # {} THEN Min(I) ELSE 0
  PROVE  \/ k = 0 /\ I = {}
         \/ k \in I /\ k \in 1..n /\ \A j \in 1..(k - 1) : j \notin I
  <1>1. CASE I = {}
    BY <1>1
  <1>2. CASE I # {}
    <2>1. I \subseteq Nat
      OBVIOUS
    <2>2. \E i \in I : \A j \in I : i <= j
      BY <1>2, <2>1, LeastElement
    <2>3. k \in I /\ \A j \in I : k <= j
      BY <1>2, <2>2 DEF Min
    <2> QED
      BY <2>3
  <1> QED
    BY <1>1, <1>2

\* The first entry of index.json with a name.
LEMMA FirstNamedIs ==
  ASSUME layout \in Layouts, NEW name
  PROVE  \/ /\ FirstNamed(name) = 0
            /\ \A i \in 1..Len(layout[Top]) : layout[Top][i].name # name
         \/ /\ FirstNamed(name) \in 1..Len(layout[Top])
            /\ layout[Top][FirstNamed(name)].name = name
            /\ \A j \in 1..(FirstNamed(name) - 1) : layout[Top][j].name # name
  <1> DEFINE n == Len(layout[Top])
             I == {i \in 1..n : layout[Top][i].name = name}
             k == FirstNamed(name)
  <1>1. n \in Nat /\ I \subseteq 1..n /\ \A i \in 1..n : i \in I <=> layout[Top][i].name = name
    BY LayoutShape
  <1>2. k = IF I # {} THEN Min(I) ELSE 0
    BY DEF FirstNamed, SelectInSeq
  <1> HIDE DEF n, I, k
  <1>3. \/ k = 0 /\ I = {}
        \/ k \in I /\ k \in 1..n /\ \A j \in 1..(k - 1) : j \notin I
    BY <1>1, <1>2, FirstOf
  <1>4. \A j \in 1..(k - 1) : k \in 1..n => j \in 1..n
    BY <1>1
  <1> QED
    BY <1>1, <1>3, <1>4 DEF n, k

\* What index.json lists.
LEMMA ListedAre ==
  ASSUME layout \in Layouts
  PROVE  /\ Listed \in Seq(Files) /\ Len(Listed) = Len(layout[Top]) /\ Len(Listed) \in Nat
         /\ DOMAIN layout[Top] = 1..Len(Listed)
         /\ \A i \in 1..Len(Listed) : Listed[i] = layout[Top][i].digest
  <1> DEFINE n == Len(layout[Top])
  <1>1. n \in Nat /\ DOMAIN layout[Top] = 1..n /\ \A i \in 1..n : layout[Top][i].digest \in Files
    BY LayoutShape
  <1>2. Listed = [i \in 1..n |-> layout[Top][i].digest]
    BY <1>1 DEF Listed
  <1> HIDE DEF n
  <1>3. Listed \in Seq(Files) /\ Len(Listed) = n
    BY <1>1, <1>2
  <1> QED
    BY <1>1, <1>2, <1>3 DEF n

-----------------------------------------------------------------------------
(* The invariant of the readers.                                            *)

\* What was yielded and is to be yielded, one by one.
Yields(F) == [digest : F, ok : BOOLEAN]
WholeOf(y, o) == [i \in DOMAIN y |-> y[i].digest] \o o

LEMMA WholeParts ==
  ASSUME NEW F, NEW y \in Seq(Yields(F)), NEW o \in Seq(F)
  PROVE  /\ WholeOf(y, o) \in Seq(F) /\ Len(WholeOf(y, o)) = Len(y) + Len(o) /\ Len(y) \in Nat /\ Len(o) \in Nat
         /\ \A i \in 1..Len(y) : WholeOf(y, o)[i] = y[i].digest
         /\ \A i \in 1..Len(o) : WholeOf(y, o)[Len(y) + i] = o[i]
  <1> DEFINE m == Len(y)
             n == Len(o)
             out == [i \in DOMAIN y |-> y[i].digest]
             w == WholeOf(y, o)
             D == Yields(F)
  <1>1. /\ m \in Nat /\ n \in Nat /\ DOMAIN y = 1..m
        /\ \A i \in 1..m : y[i] \in D
    <2>1. y \in Seq(D) /\ o \in Seq(F)
      OBVIOUS
    <2> HIDE DEF D
    <2>2. m \in Nat /\ DOMAIN y = 1..m /\ \A i \in 1..m : y[i] \in D
      BY <2>1
    <2>3. n \in Nat
      BY <2>1
    <2> QED
      BY <2>2, <2>3
  <1>2. \A i \in 1..m : y[i].digest \in F
    BY <1>1 DEF Yields
  <1>3. out = [i \in 1..m |-> y[i].digest]
    BY <1>1
  <1> HIDE DEF m, D
  <1>4. out \in Seq(F) /\ Len(out) = m /\ \A i \in 1..m : out[i] = y[i].digest
    BY <1>1, <1>2, <1>3
  <1> HIDE DEF out
  <1>5. w = out \o o /\ o \in Seq(F)
    BY DEF out, WholeOf
  <1> HIDE DEF w
  <1>6. /\ w \in Seq(F) /\ Len(w) = m + n
        /\ \A i \in 1..m : w[i] = out[i]
        /\ \A i \in 1..n : w[m + i] = o[i]
    <2> DEFINE c == out \o o
    <2>1. /\ c \in Seq(F) /\ Len(c) = m + n
          /\ \A i \in 1..(m + n) : c[i] = IF i <= m THEN out[i] ELSE o[i - m]
      <3>1. out \in Seq(F) /\ Len(out) = m /\ o \in Seq(F)
        BY <1>4, <1>5
      <3> HIDE DEF m
      <3> QED
        BY <3>1
    <2>4. w = c
      BY <1>5
    <2>2. \A i \in 1..n : m + i \in 1..(m + n) /\ ~(m + i <= m) /\ (m + i) - m = i
      BY <1>1
    <2>3. \A i \in 1..m : i \in 1..(m + n) /\ i <= m
      BY <1>1
    <2> HIDE DEF n, c
    <2> QED
      BY <2>1, <2>2, <2>3, <2>4
  <1> QED
    BY <1>1, <1>4, <1>6 DEF m, n, w

\* Whole, by its parts.
LEMMA WholeIsOf ==
  /\ Whole = WholeOf(yielded, ordered)
  /\ OciTypeOK => yielded \in Seq(Yields(Files)) /\ ordered \in Seq(Files)
  BY DEF Whole, WholeOf, OciTypeOK, Yields

LEMMA BetweenCalls ==
  ASSUME WholeInv, query = Nil
  PROVE  yielded = <<>> /\ ordered = <<>> /\ reply = NoReply
  <1>1. /\ Len(Whole) = Len(yielded) + Len(ordered) /\ Len(yielded) \in Nat /\ Len(ordered) \in Nat
        /\ Whole = <<>> /\ reply = NoReply
    BY WholeParts, WholeIsOf DEF WholeInv
  <1>2. Len(yielded) = 0 /\ Len(ordered) = 0
    <2>1. Len(<<>>) = 0
      OBVIOUS
    <2> QED
      BY <1>1, <2>1
  <1> QED
    BY <1>1, <1>2 DEF WholeInv, OciTypeOK

LEMMA EmptySequence ==
  ASSUME NEW w, w = <<>>
  PROVE  ToSet(w) = {} /\ IsInjective(w) /\ Len(w) = 0 /\ \A i \in 1..Len(w) : FALSE
  BY DEF ToSet, IsInjective

LEMMA WholeStarts == OciInit => WholeInv
  <1> SUFFICES ASSUME OciInit PROVE WholeInv
    OBVIOUS
  <1>1. OciTypeOK
    BY DEF OciInit, OciTypeOK, Files, NoReply
  <1>2. Whole = <<>> /\ IsInjective(Whole) /\ Follows(Whole) /\ Rooted(Whole)
    <2>1. Whole = <<>>
      BY DEF OciInit, Whole
    <2> QED
      BY <2>1, EmptySequence DEF Follows, Rooted
  <1>3. reply = NoReply /\ reply.kind # "blobs"
    BY DEF OciInit, NoReply
  <1> QED
    BY <1>1, <1>2, <1>3 DEF WholeInv

\* What a step that leaves the layout alone leaves alone.
LEMMA SameLayout ==
  ASSUME UNCHANGED layout
  PROVE  /\ Files' = Files /\ Listed' = Listed
         /\ \A d : Deps(d)' = Deps(d)
         /\ UNCHANGED query => \A d : Asks(d)' <=> Asks(d)
  <1>1. Files' = Files /\ Listed' = Listed /\ \A d : Deps(d)' = Deps(d)
    BY DEF Files, Listed, Deps
  <1> QED
    BY <1>1 DEF Asks

\* A step that leaves alone what is to be yielded.
LEMMA SameWhole ==
  ASSUME WholeInv, UNCHANGED <<layout, query>>, OciTypeOK', Whole' = Whole,
         reply' = reply \/ Whole # <<>>
  PROVE  WholeInv'
  <1>1. /\ IsInjective(Whole) /\ Follows(Whole) /\ Rooted(Whole)
        /\ Whole # <<>> \/ reply.kind = "blobs" => \A d \in Files : Asks(d) => d \in ToSet(Whole)
        /\ query = Nil => Whole = <<>> /\ reply = NoReply
    BY DEF WholeInv
  <1>2. Files' = Files /\ (\A d : Deps(d)' = Deps(d)) /\ (\A d : Asks(d)' <=> Asks(d))
    BY SameLayout
  <1>3. Follows(Whole)' /\ Rooted(Whole)' /\ IsInjective(Whole)'
    <2>1. IsInjective(Whole)'
      BY <1>1
    <2>2. Follows(Whole)'
      BY <1>1, <1>2 DEF Follows
    <2>3. Rooted(Whole)'
      BY <1>1, <1>2 DEF Rooted
    <2> QED
      BY <2>1, <2>2, <2>3
  <1>4. NoReply' = NoReply
    BY DEF NoReply
  <1> QED
    BY <1>1, <1>2, <1>3, <1>4 DEF WholeInv

LEMMA WholeUnchanged == WholeInv /\ UNCHANGED ociVars => WholeInv'
  <1> SUFFICES ASSUME WholeInv, UNCHANGED ociVars PROVE WholeInv'
    OBVIOUS
  <1>1. Whole' = Whole
    BY DEF Whole, ociVars
  <1>2. OciTypeOK'
    BY DEF WholeInv, ociVars, OciTypeOK, Files
  <1> QED
    BY <1>1, <1>2, SameWhole DEF ociVars

\* An answer that yields nothing.
LEMMA AnswerKeeps ==
  ASSUME WholeInv, query = Nil, query' \in Queries, UNCHANGED <<layout, there, yielded, ordered>>,
         reply'.kind \in {"images", "manifest", "notexist", "ambiguous", "error"}
  PROVE  WholeInv'
  <1>1. yielded' = <<>> /\ ordered' = <<>>
    BY BetweenCalls
  <1>2. Whole' = <<>> /\ IsInjective(Whole)' /\ Follows(Whole)' /\ Rooted(Whole)'
    <2>1. Whole' = <<>>
      BY <1>1 DEF Whole
    <2>2. ToSet(Whole') = {} /\ IsInjective(Whole') /\ \A i \in 1..Len(Whole') : FALSE
      BY <2>1, EmptySequence
    <2> QED
      BY <2>1, <2>2 DEF Follows, Rooted
  <1>3. OciTypeOK'
    BY DEF WholeInv, OciTypeOK, Files
  <1>4. query' # Nil
    BY LayoutsAssumption
  <1> QED
    BY <1>2, <1>3, <1>4 DEF WholeInv

LEMMA RefuseKeeps ==
  ASSUME WholeInv, NEW op, Begin(op), NEW k \in {"notexist", "error"}, Refuse(k)
  PROVE  WholeInv'
  BY AnswerKeeps DEF Begin, Refuse, Reply

\* What blobsFrom does, when the roots are what the call asks for.
LEMMA BlobsFromKeeps ==
  ASSUME WholeInv, NEW op, Begin(op), NEW roots \in Seq(Files), BlobsFrom(roots),
         \A d \in Files : Asks(d)' <=> d \in ToSet(roots)
  PROVE  WholeInv'
  <1>a. PICK all : all = FlattenSeq([i \in DOMAIN roots |-> WalkBlobs(roots[i])])
    OBVIOUS
  <1>b. PICK u : u = Unique(all)
    OBVIOUS
  <1>1. /\ query = Nil /\ query' \in Queries /\ UNCHANGED <<layout, there, yielded>>
        /\ ordered' = IF Contains(all, Nil) THEN <<>> ELSE u
        /\ reply' = IF Contains(all, Nil) THEN Reply("error", Nil)
                    ELSE IF all = <<>> THEN Reply("blobs", Nil) ELSE reply
    BY <1>a, <1>b DEF Begin, BlobsFrom
  <1>2. yielded = <<>> /\ ordered = <<>> /\ reply = NoReply /\ query' # Nil
    BY <1>1, BetweenCalls, LayoutsAssumption
  <1>3. layout \in Layouts
    BY DEF WholeInv, OciTypeOK
  <1>4. ~Contains(all, Nil) =>
          /\ u \in Seq(Files) /\ IsInjective(u) /\ Follows(u)
          /\ RootedIn(u, ToSet(roots)) /\ ToSet(roots) \subseteq ToSet(u)
    BY <1>3, <1>a, <1>b, WholeIs
  <1>5. CASE Contains(all, Nil)
    BY <1>1, <1>2, <1>5, AnswerKeeps DEF Reply
  <1>6. CASE ~Contains(all, Nil)
    <2>1. OciTypeOK'
      <3>1. ordered' \in Seq(Files) /\ Files' = Files
        BY <1>1, <1>4, <1>6 DEF Files
      <3>2. reply'.kind \in {"none", "blobs"}
        BY <1>1, <1>2, <1>6 DEF NoReply, Reply
      <3> QED
        BY <1>1, <3>1, <3>2 DEF WholeInv, OciTypeOK
    <2>2. Whole' = u
      <3>1. ordered' = u /\ yielded' = <<>> /\ u \in Seq(Files)
        BY <1>1, <1>2, <1>4, <1>6
      <3> QED
        BY <3>1 DEF Whole
    <2>3. ToSet(roots) \subseteq ToSet(u) /\ ToSet(u) \subseteq Files /\ ToSet(roots) \subseteq Files
      BY <1>4, <1>6 DEF ToSet
    <2>4. Files' = Files /\ \A d : Deps(d)' = Deps(d)
      BY <1>1, SameLayout
    <2>5. IsInjective(Whole)' /\ Follows(Whole)' /\ Rooted(Whole)'
      <3>1. IsInjective(u) /\ Follows(u) /\ RootedIn(u, ToSet(roots))
        BY <1>4, <1>6
      <3>2. IsInjective(Whole)'
        BY <2>2, <3>1
      <3>3. Follows(Whole)'
        BY <2>2, <2>4, <3>1 DEF Follows
      <3>4. Rooted(Whole)'
        BY <2>2, <2>3, <2>4, <3>1 DEF Rooted, RootedIn
      <3> QED
        BY <3>2, <3>3, <3>4
    <2>6. \A d \in Files' : Asks(d)' => d \in ToSet(Whole')
      BY <2>2, <2>3, <2>4
    <2> QED
      BY <1>2, <2>1, <2>5, <2>6 DEF WholeInv
  <1> QED
    BY <1>5, <1>6

LEMMA BlobsFromNamesKeeps == WholeInv /\ BlobsFromNames => WholeInv'
  <1> SUFFICES ASSUME WholeInv, BlobsFromNames PROVE WholeInv'
    OBVIOUS
  <1> DEFINE ns == query'.names
  <1>1. Begin("names") /\ query' \in Queries /\ query'.op = "names" /\ UNCHANGED layout
    BY DEF BlobsFromNames, Begin
  <1>2. ns \in Seq(ToSet(ns))
    BY <1>1, LayoutsAssumption
  <1>3. layout \in Layouts
    BY DEF WholeInv, OciTypeOK
  <1>4. Listed' = Listed /\ layout' = layout
    BY <1>1, SameLayout
  <1>5. CASE Top \notin there
    BY <1>1, <1>5, RefuseKeeps DEF BlobsFromNames
  <1>6. CASE Top \in there /\ \E i \in DOMAIN ns : FirstNamed(ns[i]) = 0
    BY <1>1, <1>6, RefuseKeeps DEF BlobsFromNames
  <1>7. CASE Top \in there /\ (\A i \in DOMAIN ns : FirstNamed(ns[i]) # 0) /\ ns = <<>>
    <2>1. BlobsFrom(Listed)
      BY <1>7 DEF BlobsFromNames
    <2>2. \A d : Asks(d)' <=> Contains(Listed, d)
      BY <1>1, <1>4, <1>7 DEF Asks
    <2>3. Listed \in Seq(Files)
      BY <1>3, ListedAre
    <2>4. \A d \in Files : Asks(d)' <=> d \in ToSet(Listed)
      BY <2>2, <2>3, ContainsIsIn
    <2> QED
      BY <1>1, <2>1, <2>3, <2>4, BlobsFromKeeps
  <1>8. CASE Top \in there /\ (\A i \in DOMAIN ns : FirstNamed(ns[i]) # 0) /\ ns # <<>>
    <2> DEFINE n == Len(ns)
    <2>1. n \in Nat /\ DOMAIN ns = 1..n
      BY <1>2
    <2>a. PICK roots : roots = [i \in DOMAIN ns |-> Listed[FirstNamed(ns[i])]]
      OBVIOUS
    <2>2. BlobsFrom(roots)
      BY <1>8, <2>a DEF BlobsFromNames
    <2>3. \A i \in 1..n : /\ FirstNamed(ns[i]) \in 1..Len(layout[Top])
                          /\ layout[Top][FirstNamed(ns[i])].name = ns[i]
                          /\ \A j \in 1..(FirstNamed(ns[i]) - 1) : layout[Top][j].name # ns[i]
      BY <1>3, <1>8, <2>1, FirstNamedIs
    <2>4. /\ Listed \in Seq(Files) /\ Len(Listed) = Len(layout[Top]) /\ Len(Listed) \in Nat
          /\ DOMAIN layout[Top] = 1..Len(Listed)
          /\ \A i \in 1..Len(Listed) : Listed[i] = layout[Top][i].digest
      BY <1>3, ListedAre
    <2>5. roots \in Seq(Files) /\ ToSet(roots) = {Listed[FirstNamed(ns[i])] : i \in 1..n}
      <3>1. \A i \in 1..n : Listed[FirstNamed(ns[i])] \in Files
        BY <2>3, <2>4
      <3>2. roots = [i \in 1..n |-> Listed[FirstNamed(ns[i])]]
        BY <2>1, <2>a
      <3> HIDE DEF n, ns
      <3> QED
        BY <2>1, <3>1, <3>2 DEF ToSet
    <2>6. \A d : Asks(d)' <=>
            \E i \in 1..Len(Listed) :
              /\ layout[Top][i].digest = d /\ Contains(ns, layout[Top][i].name)
              /\ \A j \in 1..(i - 1) : layout[Top][j].name # layout[Top][i].name
      BY <1>1, <1>4, <1>8, <2>4 DEF Asks
    <2>7. \A x : Contains(ns, x) <=> \E i \in 1..n : ns[i] = x
      BY DEF Contains
    <2> HIDE DEF ns, n
    <2>8. ASSUME NEW d \in Files, Asks(d)' PROVE d \in ToSet(roots)
      <3>1. PICK k \in 1..Len(Listed) :
              /\ layout[Top][k].digest = d /\ Contains(ns, layout[Top][k].name)
              /\ \A j \in 1..(k - 1) : layout[Top][j].name # layout[Top][k].name
        BY <2>6, <2>8
      <3>2. PICK i \in 1..n : ns[i] = layout[Top][k].name
        BY <2>7, <3>1
      <3> DEFINE f == FirstNamed(ns[i])
      <3>3. /\ f \in 1..Len(Listed) /\ layout[Top][f].name = layout[Top][k].name
            /\ \A j \in 1..(f - 1) : layout[Top][j].name # layout[Top][k].name
        BY <2>3, <2>4, <3>2
      <3> HIDE DEF f
      <3>4. f = k
        <4>1. ~(f < k) /\ ~(k < f)
          <5>1. f < k => f \in 1..(k - 1)
            BY <2>4, <3>3
          <5>2. k < f => k \in 1..(f - 1)
            BY <2>4, <3>3
          <5> QED
            BY <3>1, <3>3, <5>1, <5>2
        <4> QED
          BY <2>4, <3>3, <4>1
      <3>5. Listed[f] = d
        BY <2>4, <3>1, <3>4
      <3> QED
        BY <2>5, <3>5 DEF f
    <2>9. ASSUME NEW d \in Files, d \in ToSet(roots) PROVE Asks(d)'
      <3>1. PICK i \in 1..n : d = Listed[FirstNamed(ns[i])]
        BY <2>5, <2>9
      <3> DEFINE f == FirstNamed(ns[i])
      <3>2. /\ f \in 1..Len(Listed) /\ layout[Top][f].name = ns[i]
            /\ \A j \in 1..(f - 1) : layout[Top][j].name # ns[i]
        BY <2>3, <2>4
      <3> HIDE DEF f
      <3>3. layout[Top][f].digest = d
        BY <2>4, <3>1, <3>2 DEF f
      <3>4. Contains(ns, layout[Top][f].name)
        BY <2>7, <3>2
      <3>5. \A j \in 1..(f - 1) : layout[Top][j].name # layout[Top][f].name
        BY <3>2
      <3> QED
        BY <2>6, <3>2, <3>3, <3>4, <3>5
    <2> QED
      BY <1>1, <2>2, <2>5, <2>8, <2>9, BlobsFromKeeps
  <1> QED
    BY <1>5, <1>6, <1>7, <1>8

LEMMA BlobsFromDigestsKeeps == WholeInv /\ BlobsFromDigests => WholeInv'
  <1> SUFFICES ASSUME WholeInv, BlobsFromDigests PROVE WholeInv'
    OBVIOUS
  <1> DEFINE ds == query'.digests
  <1>1. Begin("digests") /\ query' \in Queries /\ query'.op = "digests" /\ UNCHANGED layout
    BY DEF BlobsFromDigests, Begin
  <1>2. ds \in Seq(ToSet(ds))
    BY <1>1, LayoutsAssumption
  <1>3. layout \in Layouts
    BY DEF WholeInv, OciTypeOK
  <1>4. Listed' = Listed
    BY <1>1, SameLayout
  <1>5. CASE Top \notin there \/ (ds # <<>> /\ Nil \in Known)
    BY <1>1, <1>5, RefuseKeeps DEF BlobsFromDigests
  <1>6. CASE ~(Top \notin there \/ (ds # <<>> /\ Nil \in Known)) /\ ~(ToSet(ds) \subseteq Known)
    BY <1>1, <1>6, RefuseKeeps DEF BlobsFromDigests
  <1>7. CASE ~(Top \notin there \/ (ds # <<>> /\ Nil \in Known)) /\ ToSet(ds) \subseteq Known
    <2>1. BlobsFrom(IF ds = <<>> THEN Listed ELSE ds)
      BY <1>7 DEF BlobsFromDigests
    <2>2. CASE ds = <<>>
      <3>1. BlobsFrom(Listed)
        BY <2>1, <2>2
      <3>2. \A d : Asks(d)' <=> Contains(Listed, d)
        BY <1>1, <1>4, <2>2 DEF Asks
      <3>3. Listed \in Seq(Files)
        BY <1>3, ListedAre
      <3>4. \A d \in Files : Asks(d)' <=> d \in ToSet(Listed)
        BY <3>2, <3>3, ContainsIsIn
      <3> QED
        BY <1>1, <3>1, <3>3, <3>4, BlobsFromKeeps
    <2>3. CASE ds # <<>>
      <3>a. PICK roots : roots = ds
        OBVIOUS
      <3>1. BlobsFrom(roots)
        BY <2>1, <2>3, <3>a
      <3>2. \A d : Asks(d)' <=> Contains(roots, d)
        BY <1>1, <2>3, <3>a DEF Asks
      <3>3. roots \in Seq(ToSet(roots)) /\ ToSet(roots) \subseteq Files
        BY <1>2, <1>3, <1>7, <2>3, <3>a, KnownAreFiles
      <3>4. roots \in Seq(Files)
        BY <3>3
      <3>5. \A d \in Files : Asks(d)' <=> d \in ToSet(roots)
        BY <3>2, <3>4, ContainsIsIn
      <3> QED
        BY <1>1, <3>1, <3>4, <3>5, BlobsFromKeeps
    <2> QED
      BY <2>2, <2>3
  <1> QED
    BY <1>5, <1>6, <1>7

LEMMA YieldBlobKeeps == WholeInv /\ YieldBlob => WholeInv'
  <1> SUFFICES ASSUME WholeInv, YieldBlob PROVE WholeInv'
    OBVIOUS
  <1> DEFINE m == Len(yielded)
             n == Len(ordered)
             D == Yields(Files)
  <1>1. PICK b : b = [digest |-> Head(ordered), ok |-> Head(ordered) \in there]
    OBVIOUS
  <1>2. /\ ordered # <<>> /\ reply = NoReply /\ yielded' = Append(yielded, b) /\ ordered' = Tail(ordered)
        /\ reply'.kind \in {"left", "blobs", "none"}
        /\ UNCHANGED <<layout, there, query>>
    <2>1. reply' \in {Reply("left", Nil), Reply("blobs", Nil), NoReply}
      BY DEF YieldBlob
    <2>2. reply'.kind \in {"left", "blobs", "none"}
      BY <2>1 DEF Reply, NoReply
    <2> QED
      BY <1>1, <2>2 DEF YieldBlob
  <1>3. OciTypeOK
    BY DEF WholeInv
  <1>4. /\ ordered \in Seq(Files) /\ yielded \in Seq(D) /\ n \in Nat /\ m \in Nat /\ n # 0
        /\ Head(ordered) = ordered[1] /\ ordered[1] \in Files
        /\ \A i \in 1..(n - 1) : ordered'[i] = ordered[i + 1]
        /\ ordered' \in Seq(Files) /\ Len(ordered') = n - 1
    BY <1>2, <1>3 DEF OciTypeOK, Yields
  <1>5. b \in D /\ b.digest = ordered[1]
    BY <1>1, <1>4 DEF Yields
  <1>6. /\ yielded' \in Seq(D) /\ Len(yielded') = m + 1 /\ yielded'[m + 1] = b
        /\ \A i \in 1..m : yielded'[i] = yielded[i]
    <2> HIDE DEF D
    <2> QED
      BY <1>2, <1>4, <1>5
  <1>7. OciTypeOK'
    <2>1. Files' = Files
      BY <1>2, SameLayout
    <2> QED
      BY <1>2, <1>3, <1>4, <1>6, <2>1 DEF OciTypeOK, Yields
  <1>8. /\ Whole \in Seq(Files) /\ Len(Whole) = m + n
        /\ \A i \in 1..m : Whole[i] = yielded[i].digest
        /\ \A i \in 1..n : Whole[m + i] = ordered[i]
    <2>1. yielded \in Seq(Yields(Files)) /\ ordered \in Seq(Files) /\ Whole = WholeOf(yielded, ordered)
      BY <1>3, WholeIsOf
    <2> QED
      BY <2>1, WholeParts
  <1>9. /\ Whole' \in Seq(Files) /\ Len(Whole') = (m + 1) + (n - 1)
        /\ \A i \in 1..(m + 1) : Whole'[i] = yielded'[i].digest
        /\ \A i \in 1..(n - 1) : Whole'[(m + 1) + i] = ordered'[i]
    <2> DEFINE y == yielded'
               o == ordered'
    <2>1. Whole' = WholeOf(y, o)
      BY DEF Whole, WholeOf
    <2>2. y \in Seq(Yields(Files)) /\ o \in Seq(Files) /\ Len(y) = m + 1 /\ Len(o) = n - 1
      BY <1>4, <1>6
    <2> HIDE DEF y, o, m, n
    <2>a. y \in Seq(Yields(Files)) /\ o \in Seq(Files)
      BY <2>2
    <2>b. /\ WholeOf(y, o) \in Seq(Files) /\ Len(WholeOf(y, o)) = Len(y) + Len(o)
          /\ \A i \in 1..Len(y) : WholeOf(y, o)[i] = y[i].digest
          /\ \A i \in 1..Len(o) : WholeOf(y, o)[Len(y) + i] = o[i]
      BY <2>a, WholeParts
    <2>3. /\ WholeOf(y, o) \in Seq(Files) /\ Len(WholeOf(y, o)) = (m + 1) + (n - 1)
          /\ \A i \in 1..(m + 1) : WholeOf(y, o)[i] = y[i].digest
          /\ \A i \in 1..(n - 1) : WholeOf(y, o)[(m + 1) + i] = o[i]
      BY <2>2, <2>b
    <2> QED
      BY <2>1, <2>3 DEF y, o
  <1> HIDE DEF m, n, D
  <1>10. Whole' = Whole
    <2> DEFINE w == Whole
               v == Whole'
    <2>1. \A i \in 1..(m + n) : v[i] = w[i]
      <3> SUFFICES ASSUME NEW i \in 1..(m + n) PROVE v[i] = w[i]
        OBVIOUS
      <3>1. CASE i \in 1..m
        <4>0. m \in Nat
          BY <1>4
        <4>1. i \in 1..(m + 1)
          BY <3>1, <4>0
        <4> QED
          BY <1>6, <1>8, <1>9, <3>1, <4>1
      <3>2. CASE i = m + 1
        <4>0. m \in Nat /\ n \in Nat /\ n # 0
          BY <1>4
        <4>1. 1 \in 1..n /\ m + 1 \in 1..(m + 1)
          BY <4>0
        <4> QED
          BY <1>5, <1>6, <1>8, <1>9, <3>2, <4>1
      <3>3. CASE i \notin 1..(m + 1)
        <4> DEFINE j == i - m - 1
        <4>1. j \in 1..(n - 1) /\ j + 1 \in 1..n /\ m + (j + 1) = i /\ (m + 1) + j = i
          BY <1>4, <3>3
        <4> HIDE DEF j
        <4>2. v[(m + 1) + j] = ordered'[j] /\ ordered'[j] = ordered[j + 1] /\ w[m + (j + 1)] = ordered[j + 1]
          BY <1>4, <1>8, <1>9, <4>1
        <4> QED
          BY <4>1, <4>2
      <3> QED
        BY <1>4, <3>1, <3>2, <3>3
    <2>2. w \in Seq(Files) /\ v \in Seq(Files) /\ Len(w) = m + n /\ Len(v) = m + n
      BY <1>4, <1>8, <1>9
    <2> HIDE DEF w, v
    <2>3. v = w
      BY <2>1, <2>2
    <2> QED
      BY <2>3 DEF v, w
  <1>11. Whole # <<>>
    <2>1. Len(Whole) # 0
      BY <1>4, <1>8
    <2>2. Len(<<>>) = 0
      OBVIOUS
    <2> QED
      BY <2>1, <2>2
  <1> QED
    BY <1>2, <1>7, <1>10, <1>11, SameWhole

LEMMA AllImagesKeeps == WholeInv /\ AllImages => WholeInv'
  <1> SUFFICES ASSUME WholeInv, AllImages PROVE WholeInv'
    OBVIOUS
  <1>1. Begin("images") /\ UNCHANGED ordered
    BY DEF AllImages
  <1>2. reply'.kind \in {"images", "error"}
    <2>1. reply' = Reply("error", Nil) \/ \E v : reply' = Reply("images", v)
      BY Zenon DEF AllImages
    <2> QED
      BY <2>1 DEF Reply
  <1> QED
    BY <1>1, <1>2, AnswerKeeps DEF Begin

LEMMA ResolveKinds ==
  ASSUME layout \in Layouts, Resolve
  PROVE  reply'.kind \in {"manifest", "notexist", "ambiguous", "error"}
  <1> DEFINE Answers == {"manifest", "notexist", "ambiguous", "error"}
  <1>1. \A c, fit : OneMatch(c, fit).kind \in Answers
    BY DEF OneMatch, Reply
  <1>2. \A d, q : SelectPlatform(d, q).kind \in Answers
    BY <1>1 DEF SelectPlatform, Reply
  <1>3. PICK found, d :
          found \in {"found", "notexist", "error"} /\
          reply' = IF Top \notin there THEN Reply("error", Nil)
                   ELSE IF found # "found" THEN Reply(found, Nil)
                   ELSE SelectPlatform(d, query'.platform)
    <2> DEFINE r == query'.ref
               i == SelectInSeq(layout[Top], LAMBDA c : NameMatches(c.name, r))
               found == IF r.digest # Nil THEN Search(r.digest) ELSE IF i = 0 THEN "notexist" ELSE "found"
               d == IF r.digest # Nil THEN r.digest ELSE Listed[i]
    <2>1. reply' = IF Top \notin there THEN Reply("error", Nil)
                   ELSE IF found # "found" THEN Reply(found, Nil)
                   ELSE SelectPlatform(d, query'.platform)
      BY Zenon DEF Resolve
    <2>2. found \in {"found", "notexist", "error"}
      <3> HIDE DEF r, i
      <3> QED
        BY SearchEnds
    <2> HIDE DEF r, i, found, d
    <2> QED
      BY <2>1, <2>2
  <1> QED
    BY <1>2, <1>3 DEF Reply

LEMMA ResolveKeeps == WholeInv /\ Resolve => WholeInv'
  <1> SUFFICES ASSUME WholeInv, Resolve PROVE WholeInv'
    OBVIOUS
  <1>1. Begin("resolve") /\ UNCHANGED ordered /\ layout \in Layouts
    BY DEF Resolve, WholeInv, OciTypeOK
  <1> QED
    BY <1>1, ResolveKinds, AnswerKeeps DEF Begin

LEMMA ReturnKeeps == WholeInv /\ Return => WholeInv'
  <1> SUFFICES ASSUME WholeInv, Return PROVE WholeInv'
    OBVIOUS
  <1>1. Whole' = <<>>
    BY DEF Return, Whole
  <1>2. ToSet(Whole') = {} /\ IsInjective(Whole') /\ \A i \in 1..Len(Whole') : FALSE
    BY <1>1, EmptySequence
  <1>3. IsInjective(Whole)' /\ Follows(Whole)' /\ Rooted(Whole)'
    BY <1>2 DEF Follows, Rooted
  <1>4. OciTypeOK' /\ reply' = NoReply' /\ reply'.kind # "blobs"
    BY DEF Return, WholeInv, OciTypeOK, NoReply, Files
  <1> QED
    BY <1>1, <1>3, <1>4 DEF WholeInv

LEMMA ArriveKeeps == WholeInv /\ Arrive => WholeInv'
  <1> SUFFICES ASSUME WholeInv, Arrive PROVE WholeInv'
    OBVIOUS
  <1>1. Whole' = Whole
    BY DEF Arrive, Whole
  <1>2. OciTypeOK'
    BY DEF Arrive, WholeInv, OciTypeOK, Files
  <1> QED
    BY <1>1, <1>2, SameWhole DEF Arrive

\* The invariant of the readers, with their types (helper.go:79).
THEOREM WholeInvariant == OciSpec => []WholeInv
  <1>1. WholeInv /\ [OciNext]_ociVars => WholeInv'
    BY WholeUnchanged, BlobsFromNamesKeeps, BlobsFromDigestsKeeps, YieldBlobKeeps, AllImagesKeeps,
       ResolveKeeps, ReturnKeeps, ArriveKeeps DEF OciNext
  <1> QED
    BY WholeStarts, <1>1, PTL DEF OciSpec

\* The variables of the readers stay in their types.
THEOREM OciTypeCorrect == OciSpec => []OciTypeOK
  <1>1. WholeInv => OciTypeOK
    BY DEF WholeInv
  <1> QED
    BY WholeInvariant, <1>1, PTL

\* BlobsInOrder: whatever the layout, and whatever of it has arrived when it is read, the blobs come
\* once each, what a blob refers to before it, and at the end they are those asked for and what they
\* depend on (blobsFrom and walkBlobs, helper.go:147).
THEOREM BlobsComeInOrder == OciSpec => []BlobsInOrder
  <1>1. WholeInv => BlobsInOrder
    <2> SUFFICES ASSUME WholeInv PROVE BlobsInOrder
      OBVIOUS
    <2> DEFINE out == [i \in DOMAIN yielded |-> yielded[i].digest]
    <2>1. out \o ordered = Whole
      BY DEF Whole
    <2>2. /\ Whole \in Seq(Files) /\ Len(Whole) = Len(yielded) + Len(ordered)
          /\ Len(yielded) \in Nat /\ Len(ordered) \in Nat
          /\ \A i \in 1..Len(yielded) : Whole[i] = yielded[i].digest
      BY WholeParts, WholeIsOf DEF WholeInv
    <2>3. DOMAIN yielded = 1..Len(yielded)
      BY DEF WholeInv, OciTypeOK
    <2>4. ASSUME NEW i \in DOMAIN out PROVE Deps(out[i]) \subseteq ToSet(SubSeq(out, 1, i - 1))
      <3> DEFINE m == Len(yielded)
      <3>1. m \in Nat /\ DOMAIN out = 1..m
        BY <2>2, <2>3
      <3>2. \A j \in 1..m : out[j] = Whole[j]
        BY <2>2, <2>3
      <3>3. out = [j \in 1..m |-> yielded[j].digest] /\ \A j \in 1..m : yielded[j].digest \in Files
        BY <2>2, <2>3, <3>2
      <3> HIDE DEF m
      <3>4. out \in Seq(Files) /\ Len(out) = m
        BY <3>1, <3>3
      <3> HIDE DEF out
      <3>5. i \in 1..Len(Whole)
        BY <2>2, <3>1 DEF m
      <3>6. \A x \in Deps(out[i]) : \E j \in 1..(i - 1) : x = Whole[j]
        BY <3>1, <3>2, <3>5 DEF WholeInv, Follows
      <3> DEFINE s == SubSeq(out, 1, i - 1)
      <3>7. s \in Seq(Files) /\ Len(s) = i - 1 /\ \A j \in 1..(i - 1) : s[j] = out[j]
        BY <3>1, <3>4
      <3> HIDE DEF s
      <3>8. ToSet(s) = {s[j] : j \in 1..(i - 1)}
        BY <3>7 DEF ToSet
      <3>9. \A j \in 1..(i - 1) : Whole[j] = s[j]
        BY <3>1, <3>2, <3>7
      <3> QED
        BY <3>6, <3>8, <3>9 DEF s
    <2> HIDE DEF out
    <2>5. /\ IsInjective(out \o ordered)
          /\ \A i \in DOMAIN out : Deps(out[i]) \subseteq ToSet(SubSeq(out, 1, i - 1))
          /\ \A d \in ToSet(out \o ordered) : Asks(d) \/ \E e \in ToSet(out \o ordered) : d \in Deps(e)
          /\ reply.kind = "blobs" => \A d \in Files : Asks(d) => d \in ToSet(out \o ordered)
      BY <2>1, <2>4 DEF WholeInv, Rooted
    <2> QED
      BY <2>5 DEF BlobsInOrder, out
  <1> QED
    BY WholeInvariant, <1>1, PTL

-----------------------------------------------------------------------------
(* What Resolve and AllImages answer.                                       *)

LEMMA ReachedDown ==
  ASSUME NEW e \in Indexes, Reached(e), NEW x \in Deps(e), x \in Indexes
  PROVE  Reached(x)
  BY DEF Reached, Closed

LEMMA IndexDeps ==
  ASSUME layout \in Layouts, NEW e \in Indexes
  PROVE  /\ Deps(e) = {layout[e][i].digest : i \in 1..Len(layout[e])}
         /\ Deps(e) \subseteq Files \ {Top}
         /\ DOMAIN layout[e] = 1..Len(layout[e]) /\ Len(layout[e]) \in Nat
         /\ \A i \in 1..Len(layout[e]) : layout[e][i].digest \in Files
         /\ Rank \in [Files -> Nat] /\ \A x \in Deps(e) : Rank[x] < Rank[e]
  <1>1. /\ DOMAIN layout[e] = 1..Len(layout[e]) /\ Len(layout[e]) \in Nat
        /\ \A i \in 1..Len(layout[e]) : layout[e][i].digest \in Files \ {Top}
    BY LayoutShape DEF Indexes
  <1>2. Deps(e) = {layout[e][i].digest : i \in 1..Len(layout[e])}
    BY <1>1 DEF Deps, ToSet, Indexes, IsIndex
  <1>3. Rank \in [Files -> Nat] /\ \A i \in 1..Len(layout[e]) : Rank[layout[e][i].digest] < Rank[e]
    BY RankIs DEF Indexes
  <1> QED
    BY <1>1, <1>2, <1>3

\* What find found is described under index.json; what it did not find is not, unless an index
\* nested in another cannot be read.
LEMMA SearchAnswers ==
  ASSUME layout \in Layouts, there \subseteq Files, NEW d
  PROVE  /\ Search(d) = "found" => \E e \in Indexes : Reached(e) /\ d \in Deps(e)
         /\ Search(d) = "notexist" =>
              \/ \A e \in Indexes : Reached(e) => d \notin Deps(e)
              \/ d \notin Deps(Top) /\ HalfNested
         /\ Search(d) = "error" => there # Files
  <1>1. PICK L : Search(d) = L[Top] /\ \A e \in Indexes : L[e] = LookAt(L, d, e)
    BY SearchIs
  <1>2. Top \in Indexes /\ Reached(Top)
    BY LayoutShape DEF Indexes, Reached, Closed
  <1> DEFINE first(e) == CHOOSE i \in Ends(L, d, e) : \A j \in Ends(L, d, e) : i <= j
  <1>3. ASSUME NEW e \in Indexes, Ends(L, d, e) # {} PROVE first(e) \in Ends(L, d, e)
    <2> DEFINE ends == Ends(L, d, e)
    <2>1. ends \subseteq Nat
      BY IndexDeps DEF Ends
    <2> HIDE DEF ends
    <2>2. ends # {} => (CHOOSE i \in ends : \A j \in ends : i <= j) \in ends
      BY <2>1, LeastElement
    <2> QED
      BY <1>3, <2>2 DEF ends
  <1>4. ASSUME NEW e \in Indexes, L[e] = "error" PROVE there # Files
    <2>1. Ends(L, d, e) # {} /\ ~Hits(L, d, e, first(e))
      BY <1>1, <1>4 DEF LookAt
    <2>2. first(e) \in DOMAIN layout[e] /\ Shut(e, first(e))
      BY <1>3, <2>1 DEF Ends
    <2> HIDE DEF first
    <2> QED
      BY <2>2, IndexDeps DEF Shut
  <1>5. ASSUME L[Top] = "notexist"
        PROVE  /\ d \notin Deps(Top) /\ Deps(Top) \cap Indexes \subseteq there
               /\ ~HalfNested => \A e \in Indexes : Reached(e) => d \notin Deps(e)
    <2>1. ASSUME NEW f \in Indexes, L[f] \notin {"found", "error"}
          PROVE  /\ d \notin Deps(f) /\ Deps(f) \cap Indexes \subseteq there
                 /\ \A x \in Deps(f) \cap Indexes : L[x] # "found"
      <3>1. L[f] = LookAt(L, d, f)
        BY <1>1
      <3>2. Ends(L, d, f) = {}
        BY <2>1, <3>1 DEF LookAt
      <3>3. \A i \in 1..Len(layout[f]) : ~Hits(L, d, f, i) /\ ~Shut(f, i)
        BY <3>2, IndexDeps DEF Ends
      <3>4. d \notin Deps(f)
        BY <3>3, IndexDeps DEF Hits
      <3>5. \A i \in 1..Len(layout[f]) :
              layout[f][i].digest \in Indexes =>
                layout[f][i].digest \in there /\ L[layout[f][i].digest] # "found"
        BY <3>3 DEF Hits, Shut, Indexes
      <3> QED
        BY <3>4, <3>5, IndexDeps
    <2>2. d \notin Deps(Top) /\ Deps(Top) \cap Indexes \subseteq there
      BY <1>2, <1>5, <2>1
    <2>3. ASSUME ~HalfNested, NEW e \in Indexes, Reached(e) PROVE d \notin Deps(e)
      <3> DEFINE S == {f \in Indexes : Reached(f) /\ L[f] # "found"}
      <3>1. ASSUME NEW f \in S PROVE d \notin Deps(f) /\ Deps(f) \cap Indexes \subseteq S
        <4>1. \A x \in Deps(f) \cap Indexes : Reached(x) /\ x \in there
          BY <2>2, <2>3, ReachedDown DEF HalfNested
        <4>2. L[f] # "error"
          <5>1. ASSUME L[f] = "error" PROVE FALSE
            <6>1. Ends(L, d, f) # {} /\ ~Hits(L, d, f, first(f))
              BY <1>1, <5>1 DEF LookAt
            <6>2. first(f) \in DOMAIN layout[f] /\ Shut(f, first(f))
              BY <1>3, <6>1 DEF Ends
            <6> HIDE DEF first
            <6>3. layout[f][first(f)].digest \in (Deps(f) \cap Indexes) \ there
              BY <6>2, IndexDeps DEF Shut, Indexes
            <6> QED
              BY <4>1, <6>3
          <5> QED
            BY <5>1
        <4> QED
          BY <2>1, <4>1, <4>2
      <3>2. Top \in S
        BY <1>2, <1>5
      <3>3. e \in S
        BY <2>3, <3>1, <3>2 DEF Reached, Closed
      <3> QED
        BY <3>1, <3>3
    <2> QED
      BY <2>2, <2>3
  <1>6. ASSUME \A e \in Indexes : Reached(e) => d \notin Deps(e) PROVE L[Top] # "found"
    <2> DEFINE S == {f \in Files : f \in Indexes /\ Reached(f) => L[f] # "found"}
    <2>1. ASSUME NEW f \in Files, \A x \in Files : Rank[x] < Rank[f] => x \in S PROVE f \in S
      <3> SUFFICES ASSUME f \in Indexes, Reached(f) PROVE L[f] # "found"
        OBVIOUS
      <3>1. ASSUME NEW i \in 1..Len(layout[f]) PROVE ~Hits(L, d, f, i)
        <4> DEFINE x == layout[f][i].digest
        <4>1. x \in Deps(f) /\ x \in Files /\ Rank[x] < Rank[f] /\ x # d
          BY <1>6, IndexDeps
        <4>2. x \in Indexes => Reached(x)
          BY <4>1, ReachedDown
        <4>3. x \in Indexes => L[x] # "found"
          BY <2>1, <4>1, <4>2
        <4> QED
          BY <4>1, <4>3 DEF Hits, Indexes
      <3>2. L[f] = LookAt(L, d, f)
        BY <1>1
      <3>3. Ends(L, d, f) # {} => first(f) \in 1..Len(layout[f])
        BY <1>3, IndexDeps DEF Ends
      <3> QED
        BY <3>1, <3>2, <3>3 DEF LookAt
    <2> HIDE DEF S
    <2>2. Files \subseteq S
      BY <2>1, RankIs, RankInduction
    <2> QED
      BY <1>2, <2>2, LayoutShape DEF S
  <1> QED
    BY <1>1, <1>2, <1>4, <1>5, <1>6

\* What Resolve may answer about a reference, in terms of the entry it names.
NamedBy(r, d) ==
  IF r.digest # Nil
  THEN d = r.digest /\ \E e \in Indexes : Reached(e) /\ d \in Deps(e)
  ELSE \E i \in DOMAIN layout[Top] :
         /\ layout[Top][i].digest = d /\ NameMatches(layout[Top][i].name, r)
         /\ \A j \in 1..(i - 1) : ~NameMatches(layout[Top][j].name, r)
Fit(d, p) == {m \in ImagesOf(d) : Matches(p, PlatformOf(m))}
Right(r, p, a) ==
  /\ a.kind = "manifest" => \E d \in Files : NamedBy(r, d) /\ Fit(d, p) = {a.value}
  /\ a.kind = "notexist" =>
       \A d \in Files : NamedBy(r, d) /\ Fit(d, p) # {} =>
         r.digest # Nil /\ d \notin Deps(Top) /\ HalfNested
  /\ a.kind = "ambiguous" => \E d \in Files : NamedBy(r, d) /\ Cardinality(Fit(d, p)) > 1
  /\ a.kind = "error" => there # Files

\* Of the entries of an index that match, each is another image.
LEMMA FitIs ==
  ASSUME Described, layout \in Layouts, NEW d \in Indexes, NEW p,
         NEW fit, fit = {i \in DOMAIN layout[d] : /\ layout[d][i].platform # Nil
                                                  /\ ~IsIndex(layout[d][i].digest)
                                                  /\ Matches(p, layout[d][i].platform)}
  PROVE  /\ Fit(d, p) = {layout[d][i].digest : i \in fit}
         /\ \A i, j \in fit : layout[d][i].digest = layout[d][j].digest => i = j
         /\ IsFiniteSet(fit) /\ IsFiniteSet(Fit(d, p))
  <1>1. d \in DOMAIN layout /\ Type[d] = "index" /\ DOMAIN layout[d] = 1..Len(layout[d])
        /\ Len(layout[d]) \in Nat
        /\ \A i \in 1..Len(layout[d]) : Type[layout[d][i].digest] \in {"index", "manifest", "other"}
    BY LayoutShape, IndexDeps DEF Indexes, Files, IsIndex
  <1>2. ToSet(layout[d]) = {layout[d][i] : i \in DOMAIN layout[d]}
    BY <1>1 DEF ToSet
  <1>3. /\ \A i \in DOMAIN layout[d] :
             /\ Type[layout[d][i].digest] # "other"
             /\ Type[layout[d][i].digest] = "manifest" /\ layout[d][i].platform # Nil =>
                  layout[d][i].platform = PlatformOf(layout[d][i].digest)
        /\ \A i, j \in DOMAIN layout[d] :
             layout[d][i].digest = layout[d][j].digest
               /\ Nil \notin {layout[d][i].platform, layout[d][j].platform} => i = j
    BY <1>1, <1>2 DEF Described, PlatformOf
  <1>4. \A i, j \in fit : layout[d][i].digest = layout[d][j].digest => i = j
    BY <1>3
  <1>5. \A i \in fit : Matches(p, PlatformOf(layout[d][i].digest))
    BY <1>1, <1>3 DEF IsIndex
  <1>6. \A i \in DOMAIN layout[d] :
          layout[d][i].platform # Nil /\ ~IsIndex(layout[d][i].digest)
            /\ Matches(p, PlatformOf(layout[d][i].digest)) => i \in fit
    BY <1>1, <1>3 DEF IsIndex
  <1>7. ImagesOf(d) = {layout[d][i].digest : i \in {i \in DOMAIN layout[d] :
                         layout[d][i].platform # Nil /\ ~IsIndex(layout[d][i].digest)}}
    BY <1>1, <1>2 DEF ImagesOf, IsIndex
  <1>8. Fit(d, p) = {layout[d][i].digest : i \in fit}
    BY <1>5, <1>6, <1>7 DEF Fit
  <1>9. IsFiniteSet(fit)
    <2>1. IsFiniteSet(1..Len(layout[d]))
      BY <1>1, FS_Interval
    <2>2. fit \subseteq 1..Len(layout[d])
      BY <1>1
    <2> QED
      BY <2>1, <2>2, FS_Subset
  <1>10. IsFiniteSet(Fit(d, p))
    <2> DEFINE of == [i \in fit |-> layout[d][i].digest]
    <2>1. Fit(d, p) = {of[i] : i \in fit}
      BY <1>8
    <2>2. of \in [fit -> Fit(d, p)]
      BY <2>1
    <2>3. of \in Surjection(fit, Fit(d, p))
      BY <2>1, <2>2 DEF Surjection
    <2> QED
      BY <1>9, <2>3, FS_Surjection
  <1> QED
    BY <1>4, <1>8, <1>9, <1>10

\* selectPlatform answers what it finds under the entry.
LEMMA SelectAnswers ==
  ASSUME Described, layout \in Layouts, there \subseteq Files, NEW d \in Files, Type[d] # "other", NEW p
  PROVE  /\ SelectPlatform(d, p).kind = "manifest" => Fit(d, p) = {SelectPlatform(d, p).value}
         /\ SelectPlatform(d, p).kind = "notexist" => Fit(d, p) = {}
         /\ SelectPlatform(d, p).kind = "ambiguous" => Cardinality(Fit(d, p)) > 1
         /\ SelectPlatform(d, p).kind = "error" => there # Files
  <1>1. CASE d \notin there
    BY <1>1 DEF SelectPlatform, Reply
  <1>2. CASE d \in there /\ ~IsIndex(d)
    <2>1. Type[d] = "manifest" /\ layout[d].config \in Files
      BY <1>2, LayoutShape DEF IsIndex
    <2>2. ImagesOf(d) = {d}
      BY <1>2 DEF ImagesOf
    <2>3. Fit(d, p) = IF Matches(p, layout[layout[d].config]) THEN {d} ELSE {}
      BY <2>2 DEF Fit, PlatformOf
    <2> QED
      BY <1>2, <2>1, <2>3 DEF SelectPlatform, Reply
  <1>3. CASE d \in there /\ IsIndex(d)
    <2> DEFINE fit == {i \in DOMAIN layout[d] : /\ layout[d][i].platform # Nil
                                                /\ ~IsIndex(layout[d][i].digest)
                                                /\ Matches(p, layout[d][i].platform)}
    <2>1. SelectPlatform(d, p) = OneMatch(layout[d], fit)
      BY <1>3 DEF SelectPlatform
    <2>2. d \in Indexes
      BY <1>3 DEF Indexes
    <2> HIDE DEF fit
    <2>3. /\ Fit(d, p) = {layout[d][i].digest : i \in fit}
          /\ \A i, j \in fit : layout[d][i].digest = layout[d][j].digest => i = j
          /\ IsFiniteSet(fit) /\ IsFiniteSet(Fit(d, p))
      BY <2>2, FitIs DEF fit
    <2>4. Cardinality(fit) \in Nat /\ Cardinality(Fit(d, p)) \in Nat
      BY <2>3, FS_CardinalityType
    <2>5. CASE Cardinality(fit) = 0
      <3>1. fit = {}
        BY <2>3, <2>5, FS_EmptySet
      <3> QED
        BY <2>1, <2>3, <2>5, <3>1 DEF OneMatch, Reply
    <2>6. CASE Cardinality(fit) = 1
      <3>1. PICK i : fit = {i}
        BY <2>3, <2>6, FS_Singleton
      <3>2. (CHOOSE x \in fit : TRUE) = i
        BY <3>1
      <3>3. Fit(d, p) = {layout[d][i].digest}
        BY <2>3, <3>1
      <3>4. SelectPlatform(d, p) = Reply("manifest", layout[d][CHOOSE x \in fit : TRUE].digest)
        <4>1. Cardinality(fit) # 0
          BY <2>6
        <4>2. OneMatch(layout[d], fit) = Reply("manifest", layout[d][CHOOSE x \in fit : TRUE].digest)
          BY <2>6, <4>1, Zenon DEF OneMatch
        <4> QED
          BY <2>1, <4>2
      <3>5. SelectPlatform(d, p) = Reply("manifest", layout[d][i].digest)
        BY <3>2, <3>4, Zenon
      <3> QED
        BY <3>3, <3>5 DEF Reply
    <2>7. CASE Cardinality(fit) \notin {0, 1}
      <3>1. fit # {} /\ \A x : fit # {x}
        BY <2>3, <2>7, FS_EmptySet, FS_Singleton
      <3>2. PICK i \in fit, j \in fit : i # j
        BY <3>1
      <3>3. layout[d][i].digest # layout[d][j].digest
            /\ layout[d][i].digest \in Fit(d, p) /\ layout[d][j].digest \in Fit(d, p)
        BY <2>3, <3>2
      <3>4. Fit(d, p) # {} /\ \A x : Fit(d, p) # {x}
        BY <3>3
      <3>5. Cardinality(Fit(d, p)) \notin {0, 1}
        BY <2>3, <3>4, FS_EmptySet, FS_Singleton
      <3>6. Cardinality(Fit(d, p)) > 1
        BY <2>4, <3>5
      <3>7. SelectPlatform(d, p) = Reply("ambiguous", Nil)
        BY <2>1, <2>7 DEF OneMatch
      <3> QED
        BY <3>6, <3>7 DEF Reply
    <2> QED
      BY <2>5, <2>6, <2>7
  <1> QED
    BY <1>1, <1>2, <1>3

LEMMA RightOfNamed ==
  ASSUME Described, layout \in Layouts, there \subseteq Files, NEW r, NEW p, NEW d \in Files,
         NamedBy(r, d), \A x \in Files : NamedBy(r, x) => x = d, Type[d] # "other",
         NEW a, a = SelectPlatform(d, p)
  PROVE  Right(r, p, a)
  BY SelectAnswers DEF Right

LEMMA RightOfNone ==
  ASSUME NEW r, NEW p,
         \A x \in Files : NamedBy(r, x) => r.digest # Nil /\ x \notin Deps(Top) /\ HalfNested
  PROVE  Right(r, p, Reply("notexist", Nil))
  BY DEF Right, Reply

LEMMA RightOfError ==
  ASSUME NEW r, NEW p, there # Files
  PROVE  Right(r, p, Reply("error", Nil))
  BY DEF Right, Reply

\* What an index describes is an index or a manifest.
LEMMA DescribedDeps ==
  ASSUME Described, layout \in Layouts, NEW e \in Indexes, NEW d \in Deps(e)
  PROVE  Type[d] # "other"
  <1>1. e \in DOMAIN layout /\ Type[e] = "index"
    BY DEF Indexes, Files, IsIndex
  <1>2. Deps(e) = {c.digest : c \in ToSet(layout[e])}
    BY <1>1 DEF Deps
  <1>3. \A c \in ToSet(layout[e]) : Type[c.digest] # "other"
    BY <1>1 DEF Described
  <1> QED
    BY <1>2, <1>3

LEMMA ResolveRight ==
  ASSUME Described, layout \in Layouts, there \subseteq Files, Resolve
  PROVE  Right(query'.ref, query'.platform, reply')
  <1> DEFINE r == query'.ref
             p == query'.platform
             i == SelectInSeq(layout[Top], LAMBDA c : NameMatches(c.name, r))
             found == IF r.digest # Nil THEN Search(r.digest) ELSE IF i = 0 THEN "notexist" ELSE "found"
             d == IF r.digest # Nil THEN r.digest ELSE Listed[i]
  <1>1. reply' = IF Top \notin there THEN Reply("error", Nil)
                 ELSE IF found # "found" THEN Reply(found, Nil)
                 ELSE SelectPlatform(d, p)
    BY Zenon DEF Resolve
  <1>2. Top \in Indexes /\ Top \in Files /\ DOMAIN layout[Top] = 1..Len(layout[Top])
        /\ Len(layout[Top]) \in Nat
    BY LayoutShape DEF Indexes
  <1>3. CASE Top \notin there
    BY <1>1, <1>2, <1>3, RightOfError
  <1>4. CASE Top \in there /\ r.digest # Nil
    <2>1. /\ found = "found" => \E e \in Indexes : Reached(e) /\ d \in Deps(e)
          /\ found = "notexist" =>
               \/ \A e \in Indexes : Reached(e) => d \notin Deps(e)
               \/ d \notin Deps(Top) /\ HalfNested
          /\ found = "error" => there # Files
          /\ found \in {"found", "notexist", "error"}
          /\ d = r.digest
      BY <1>4, SearchAnswers, SearchEnds
    <2>2. \A x : NamedBy(r, x) <=> x = d /\ \E e \in Indexes : Reached(e) /\ d \in Deps(e)
      BY <1>4 DEF NamedBy
    <2> HIDE DEF found, d, r, p
    <2>3. CASE found = "found"
      <3>1. PICK e \in Indexes : Reached(e) /\ d \in Deps(e)
        BY <2>1, <2>3
      <3>2. d \in Files /\ Type[d] # "other"
        BY <3>1, DescribedDeps, IndexDeps
      <3>3. NamedBy(r, d) /\ \A x \in Files : NamedBy(r, x) => x = d
        BY <2>2, <3>1
      <3> QED
        BY <1>1, <1>4, <2>3, <3>2, <3>3, RightOfNamed DEF r, p
    <2>4. CASE found = "notexist"
      <3>1. \A x \in Files : NamedBy(r, x) => r.digest # Nil /\ x \notin Deps(Top) /\ HalfNested
        BY <1>4, <2>1, <2>2, <2>4 DEF r
      <3>2. reply' = Reply("notexist", Nil)
        BY <1>1, <1>4, <2>4
      <3> QED
        BY <3>1, <3>2, RightOfNone DEF r
    <2>5. CASE found = "error"
      BY <1>1, <1>4, <2>1, <2>5, RightOfError
    <2> QED
      BY <2>1, <2>3, <2>4, <2>5
  <1>5. CASE Top \in there /\ r.digest = Nil
    <2> DEFINE n == Len(layout[Top])
               I == {j \in 1..n : NameMatches(layout[Top][j].name, r)}
               named(j) == NameMatches(layout[Top][j].name, r)
    <2>1. i = IF I # {} THEN Min(I) ELSE 0
      BY <1>2 DEF SelectInSeq
    <2>2. \A x : NamedBy(r, x) <=>
            \E j \in 1..n : layout[Top][j].digest = x /\ j \in I /\ \A h \in 1..(j - 1) : h \notin I
      <3>1. \A j \in 1..n : named(j) <=> j \in I
        OBVIOUS
      <3>2. \A j \in 1..n : \A h \in 1..(j - 1) : h \in 1..n
        BY <1>2
      <3> QED
        BY <1>2, <1>5, <3>1, <3>2 DEF NamedBy
    <2>3. found = (IF i = 0 THEN "notexist" ELSE "found") /\ d = Listed[i]
      BY <1>5
    <2>4. n \in Nat /\ I \subseteq 1..n
      BY <1>2
    <2>5. \A j \in 1..n : Listed[j] = layout[Top][j].digest /\ Listed[j] \in Deps(Top)
      BY <1>2, ListedAre, IndexDeps
    <2> HIDE DEF found, d, r, p, i, I, n
    <2>6. \/ i = 0 /\ I = {}
          \/ i \in I /\ i \in 1..n /\ \A j \in 1..(i - 1) : j \notin I
      BY <2>1, <2>4, FirstOf
    <2>7. CASE I = {}
      <3>1. \A x \in Files : ~NamedBy(r, x)
        BY <2>2, <2>7
      <3>2. reply' = Reply("notexist", Nil)
        BY <1>1, <1>5, <2>3, <2>6, <2>7
      <3> QED
        BY <3>1, <3>2, RightOfNone DEF r
    <2>8. CASE i \in I /\ i \in 1..n /\ \A j \in 1..(i - 1) : j \notin I
      <3>1. d \in Deps(Top) /\ d = layout[Top][i].digest
        BY <2>3, <2>5, <2>8
      <3>2. d \in Files /\ Type[d] # "other"
        BY <1>2, <3>1, DescribedDeps, IndexDeps
      <3>3. NamedBy(r, d)
        BY <2>2, <2>8, <3>1
      <3>4. ASSUME NEW x \in Files, NamedBy(r, x) PROVE x = d
        <4>1. PICK j \in 1..n : layout[Top][j].digest = x /\ j \in I /\ \A h \in 1..(j - 1) : h \notin I
          BY <2>2, <3>4
        <4>2. j = i
          BY <2>4, <2>8, <4>1
        <4> QED
          BY <3>1, <4>1, <4>2
      <3>5. found = "found"
        BY <2>3, <2>4, <2>8
      <3> QED
        BY <1>1, <1>5, <3>2, <3>3, <3>4, <3>5, RightOfNamed DEF r, p
    <2> QED
      BY <2>6, <2>7, <2>8
  <1> QED
    BY <1>3, <1>4, <1>5

\* WalkManifests is the function that its definition describes.
LEMMA WalkManifestsIs ==
  ASSUME layout \in Layouts
  PROVE  \E W \in Maps(Files, Marks) :
           /\ \A d : WalkManifests(d) = W[d]
           /\ \A e \in Files : W[e] = IF Type[e] = "other" THEN <<>>
                                      ELSE IF e \notin there THEN <<Nil>>
                                      ELSE IF IsIndex(e) THEN FlattenSeq(Below(W, e))
                                      ELSE <<e>>
  <1> DEFINE one(e) == <<e>>
             none == <<>>
             At(W, e) == IF Type[e] = "other" THEN none
                         ELSE IF e \notin there THEN one(Nil)
                         ELSE IF IsIndex(e) THEN FlattenSeq(Below(W, e))
                         ELSE one(e)
             Def(W) == [e \in Files |-> At(W, e)]
             E == [W \in Maps(Files, Marks) |-> Def(W)]
             walk == CHOOSE W : W = [e \in Files |->
                       IF Type[e] = "other" THEN <<>>
                       ELSE IF e \notin there THEN <<Nil>>
                       ELSE IF IsIndex(e)
                            THEN FlattenSeq([i \in DOMAIN layout[e] |-> W[layout[e][i].digest]])
                       ELSE <<e>>]
  <1>1. \A d : WalkManifests(d) = walk[d]
    BY Zenon DEF WalkManifests
  <1>2. walk = CHOOSE W : W = Def(W)
    BY DEF Below
  <1> HIDE DEF walk
  <1>3. none \in Marks /\ \A e \in Files \cup {Nil} : one(e) \in Marks
    BY DEF Marks
  <1> HIDE DEF one, none
  <1>4. ASSUME NEW W \in Maps(Files, Marks), NEW e \in Files PROVE At(W, e) \in Marks
    <2>1. IsIndex(e) => Below(W, e) \in Seq(Marks)
      BY BelowIs
    <2>2. IsIndex(e) => FlattenSeq(Below(W, e)) \in Marks
      BY <2>1, FlattenElements DEF Marks
    <2> QED
      BY <1>3, <2>2
  <1>5. ASSUME NEW f, NEW g, NEW e \in Files, \A x \in Files : Rank[x] < Rank[e] => f[x] = g[x]
        PROVE  At(f, e) = At(g, e)
    <2>1. IsIndex(e) => \A i \in DOMAIN layout[e] : f[layout[e][i].digest] = g[layout[e][i].digest]
      BY <1>5, LayoutShape, RankIs
    <2>2. IsIndex(e) => Below(f, e) = Below(g, e)
      BY <2>1 DEF Below
    <2> QED
      BY <2>2
  <1> HIDE DEF At
  <1>6. \A f \in Maps(Files, Marks), e \in Files : E[f][e] = At(f, e)
    OBVIOUS
  <1>7. E \in [Maps(Files, Marks) -> Maps(Files, Marks)]
    <2>1. ASSUME NEW W \in Maps(Files, Marks) PROVE Def(W) \in Maps(Files, Marks)
      BY <1>4 DEF Maps
    <2> QED
      BY <2>1
  <1>8. \E W \in Maps(Files, Marks) : W = E[W]
    <2>1. \A f, g \in Maps(Files, Marks), e \in Files :
            (\A x \in Files : Rank[x] < Rank[e] => f[x] = g[x]) => E[f][e] = E[g][e]
      BY <1>5, <1>6
    <2>2. Rank \in [Files -> Nat]
      BY RankIs
    <2> HIDE DEF E
    <2> QED
      BY <1>3, <1>7, <2>1, <2>2, RankedRecursion
  <1>9. PICK W \in Maps(Files, Marks) : W = Def(W)
    BY <1>8
  <1>10. walk = Def(walk)
    BY <1>2, <1>9
  <1>11. \A e \in Files : walk[e] = At(walk, e) /\ W[e] = At(W, e)
    BY <1>9, <1>10
  <1>12. walk \in Maps(Files, Marks)
    <2> DEFINE same == {e \in Files : walk[e] = W[e]}
    <2>1. ASSUME NEW e \in Files, \A x \in Files : Rank[x] < Rank[e] => x \in same PROVE e \in same
      BY <1>5, <1>11, <2>1
    <2> HIDE DEF same
    <2>2. Files \subseteq same
      BY <2>1, RankIs, RankInduction
    <2>3. \A e \in Files : walk[e] \in Marks
      BY <2>2 DEF same, Maps
    <2> QED
      BY <1>10, <2>3 DEF Maps
  <1> QED
    BY <1>1, <1>11, <1>12 DEF At, one, none

\* What a manifest refers to has nothing under it.
LEMMA ManifestParts ==
  ASSUME layout \in Layouts, NEW e \in Files, Type[e] = "manifest"
  PROVE  /\ layout[e].layers \in Seq(Files) /\ layout[e].config \in Files
         /\ Type[layout[e].config] = "other" /\ \A x \in ToSet(layout[e].layers) : Type[x] = "other"
  <1> DEFINE others == {f \in Files : Type[f] = "other"}
  <1>1. layout[e].layers \in Seq(others) /\ layout[e].config \in others
    BY LayoutsAssumption DEF Files
  <1>2. \A x \in ToSet(layout[e].layers) : x \in others
    BY <1>1 DEF ToSet
  <1>3. layout[e].layers \in Seq(Files)
    BY <1>1, LayoutShape
  <1> QED
    BY <1>1, <1>2, <1>3

\* The manifests under d are those among its blobs, when all of them can be read.
LEMMA ManifestsAre ==
  ASSUME layout \in Layouts, NEW d \in Files
  PROVE  /\ WalkManifests(d) \in Marks
         /\ Nil \notin ToSet(WalkManifests(d)) =>
              ToSet(WalkManifests(d)) = {m \in ToSet(WalkBlobs(d)) : Type[m] = "manifest"}
  <1>1. PICK W \in Maps(Files, Marks) :
           /\ \A x : WalkManifests(x) = W[x]
           /\ \A e \in Files : W[e] = IF Type[e] = "other" THEN <<>>
                                      ELSE IF e \notin there THEN <<Nil>>
                                      ELSE IF IsIndex(e) THEN FlattenSeq(Below(W, e))
                                      ELSE <<e>>
    BY WalkManifestsIs
  <1>2. PICK B \in Maps(Files, Marks) :
           /\ \A x : WalkBlobs(x) = B[x]
           /\ \A e \in Files : B[e] = IF Type[e] = "other" THEN <<e>>
                                      ELSE IF e \notin there THEN <<Nil>>
                                      ELSE Inside(B, e) \o <<e>>
    BY WalkBlobsIs
  <1> DEFINE Agree(e) == ToSet(W[e]) = {m \in ToSet(B[e]) : Type[m] = "manifest"}
             S == {e \in Files : Nil \notin ToSet(W[e]) => Agree(e)}
  <1>3. ASSUME NEW e \in Files, \A x \in Files : Rank[x] < Rank[e] => x \in S, Nil \notin ToSet(W[e])
        PROVE  Agree(e)
    <2>0. PICK one \in Seq(Files) : one = <<e>> /\ Len(one) = 1 /\ one[1] = e /\ ToSet(one) = {e}
      BY OneBlob
    <2>a. PICK nil \in Seq({Nil}) : nil = <<Nil>> /\ ToSet(nil) = {Nil}
      BY OneBlob
    <2>1. CASE Type[e] = "other"
      <3>1. W[e] = <<>> /\ B[e] = one
        BY <1>1, <1>2, <2>0, <2>1
      <3>2. ToSet(<<>>) = {}
        BY DEF ToSet
      <3> QED
        BY <2>0, <2>1, <3>1, <3>2
    <2>2. CASE Type[e] # "other" /\ e \notin there
      BY <1>1, <1>3, <2>2, <2>a
    <2>3. CASE Type[e] = "manifest" /\ e \in there
      <3>1. W[e] = one /\ B[e] = Inside(B, e) \o one
        BY <1>1, <1>2, <2>0, <2>3 DEF IsIndex
      <3>2. layout[e].layers \in Seq(Files) /\ layout[e].config \in Files
            /\ Type[layout[e].config] = "other" /\ \A x \in ToSet(layout[e].layers) : Type[x] = "other"
        BY <2>3, ManifestParts
      <3> DEFINE config == layout[e].config
                 ofConfig == <<config>>
      <3>3. PICK c \in Seq(Files) : c = ofConfig /\ ToSet(c) = {config}
        <4>1. config \in Files
          BY <3>2
        <4> HIDE DEF config
        <4>2. \E s \in Seq(Files) : s = <<config>> /\ Len(s) = 1 /\ s[1] = config /\ ToSet(s) = {config}
          BY <4>1, OneBlob
        <4> QED
          BY <4>2
      <3>4. Inside(B, e) = layout[e].layers \o c
        BY <2>3, <3>3 DEF Inside, IsIndex
      <3>5. /\ Inside(B, e) \in Seq(Files)
            /\ ToSet(Inside(B, e)) = ToSet(layout[e].layers) \cup ToSet(c)
        BY <3>2, <3>4, ConcatElements
      <3>6. ToSet(B[e]) = ToSet(Inside(B, e)) \cup ToSet(one)
        <4> DEFINE t == Inside(B, e)
        <4>1. t \in Seq(Files) /\ one \in Seq(Files)
          BY <2>0, <3>5
        <4> HIDE DEF t
        <4>2. ToSet(t \o one) = ToSet(t) \cup ToSet(one)
          BY <4>1, ConcatElements, Zenon
        <4> QED
          BY <3>1, <4>2, Zenon DEF t
      <3> QED
        BY <2>0, <2>3, <3>1, <3>2, <3>3, <3>5, <3>6
    <2>4. CASE IsIndex(e) /\ e \in there
      <3> DEFINE n == Len(layout[e])
                 x(i) == layout[e][i].digest
      <3>1. /\ W[e] = FlattenSeq(Below(W, e)) /\ B[e] = FlattenSeq(Below(B, e)) \o one
            /\ Type[e] # "manifest"
        BY <1>1, <1>2, <2>0, <2>4 DEF IsIndex, Inside
      <3>2. \A i \in 1..n : x(i) \in S
        BY <1>3, <2>4, RankIs
      <3>3. /\ Below(W, e) \in Seq(Marks) /\ Len(Below(W, e)) = n
            /\ Below(B, e) \in Seq(Marks) /\ Len(Below(B, e)) = n
            /\ \A i \in 1..n : Below(W, e)[i] = W[x(i)] /\ Below(B, e)[i] = B[x(i)]
        BY <2>4, BelowIs
      <3>4. /\ \A m : m \in ToSet(W[e]) <=> \E i \in 1..n : m \in ToSet(W[x(i)])
            /\ FlattenSeq(Below(B, e)) \in Marks
            /\ \A m : m \in ToSet(FlattenSeq(Below(B, e))) <=> \E i \in 1..n : m \in ToSet(B[x(i)])
        BY <3>1, <3>3, FlattenElements DEF Marks
      <3>5. ToSet(B[e]) = ToSet(FlattenSeq(Below(B, e))) \cup {e}
        <4> DEFINE t == FlattenSeq(Below(B, e))
                   all == Files \cup {Nil}
        <4>1. one \in Seq(all) /\ t \in Seq(all)
          BY <2>0, <3>4 DEF Marks
        <4> HIDE DEF t, all
        <4>2. ToSet(t \o one) = ToSet(t) \cup ToSet(one)
          BY <4>1, ConcatElements
        <4> QED
          BY <2>0, <3>1, <4>2, Zenon DEF t
      <3>6. \A i \in 1..n : ToSet(W[x(i)]) = {m \in ToSet(B[x(i)]) : Type[m] = "manifest"}
        BY <1>3, <3>2, <3>4
      <3> DEFINE I == 1..n
                 of(i) == ToSet(W[x(i)])
                 all(i) == ToSet(B[x(i)])
      <3>7. \A m : m \in ToSet(W[e]) <=> \E i \in I : m \in of(i)
        BY <3>4, Zenon
      <3>8. \A m : m \in ToSet(B[e]) <=> m = e \/ \E i \in I : m \in all(i)
        BY <3>4, <3>5, Zenon
      <3>9. \A i \in I : \A m : m \in of(i) <=> m \in all(i) /\ Type[m] = "manifest"
        BY <3>6, Zenon
      <3> HIDE DEF I, of, all
      <3>10. \A m : m \in ToSet(W[e]) <=> m \in ToSet(B[e]) /\ Type[m] = "manifest"
        BY <3>1, <3>7, <3>8, <3>9, Zenon
      <3> QED
        BY <3>10
    <2> QED
      BY <2>1, <2>2, <2>3, <2>4, LayoutShape DEF IsIndex
  <1>4. \A e \in Files : (\A x \in Files : Rank[x] < Rank[e] => x \in S) => e \in S
    BY <1>3
  <1> HIDE DEF S
  <1>5. Files \subseteq S
    BY <1>4, RankIs, RankInduction
  <1>6. W[d] \in Marks
    BY DEF Maps
  <1> QED
    BY <1>1, <1>2, <1>5, <1>6 DEF S

\* What AllImages tells of: the images under the named entries.
Told ==
  UNION {{<<c.name, PlatformOf(m)>> : m \in {m \in ToSet(WalkBlobs(c.digest)) : Type[m] = "manifest"}} :
           c \in {c \in ToSet(layout[Top]) : c.name # Nil}}

LEMMA ImagesRight ==
  ASSUME layout \in Layouts, AllImages, reply'.kind = "images"
  PROVE  ToSet(reply'.value) = Told
  <1> DEFINE n == Len(layout[Top])
             e(i) == layout[Top][i]
             under(i) == WalkManifests(e(i).digest)
             Names == {e(i).name : i \in 1..n}
             Found == Names \X (Files \cup {Nil})
             seqs == [i \in DOMAIN layout[Top] |-> ImagesNamed(layout[Top][i])]
             all == FlattenSeq(seqs)
             value == [i \in DOMAIN all |-> <<all[i][1], layout[layout[all[i][2]].config]>>]
             of(i) == {m \in ToSet(WalkBlobs(e(i).digest)) : Type[m] = "manifest"}
  <1>1. n \in Nat /\ DOMAIN layout[Top] = 1..n /\ \A i \in 1..n : e(i).digest \in Files
    BY LayoutShape
  <1>2. \A i \in 1..n : /\ under(i) \in Seq(Files \cup {Nil})
                        /\ Nil \notin ToSet(under(i)) => ToSet(under(i)) = of(i)
    BY <1>1, ManifestsAre DEF Marks
  <1>3. ASSUME NEW i \in 1..n
        PROVE  /\ ImagesNamed(e(i)) \in Seq(Found)
               /\ \A x : x \in ToSet(ImagesNamed(e(i))) <=>
                           e(i).name # Nil /\ \E m \in ToSet(under(i)) : x = <<e(i).name, m>>
    <2> DEFINE w == under(i)
               nm == e(i).name
               s == [j \in DOMAIN w |-> <<nm, w[j]>>]
    <2>1. w \in Seq(Files \cup {Nil}) /\ nm \in Names
      BY <1>2
    <2>2. ImagesNamed(e(i)) = IF nm = Nil THEN <<>> ELSE s
      BY DEF ImagesNamed
    <2>3. ToSet(<<>>) = {} /\ <<>> \in Seq(Found)
      BY DEF ToSet
    <2>4. s \in Seq(Found) /\ ToSet(s) = {<<nm, m>> : m \in ToSet(w)}
      <3> HIDE DEF w, nm, Names
      <3> QED
        BY <2>1 DEF ToSet
    <2> HIDE DEF w, s, nm, Found
    <2> QED
      BY <2>2, <2>3, <2>4 DEF w, nm
  <1>4. /\ seqs \in Seq(Seq(Found)) /\ Len(seqs) = n
        /\ \A i \in 1..n : seqs[i] = ImagesNamed(e(i))
    <2>1. seqs = [i \in 1..n |-> ImagesNamed(e(i))] /\ \A i \in 1..n : ImagesNamed(e(i)) \in Seq(Found)
      BY <1>1, <1>3
    <2> HIDE DEF n, seqs, Found
    <2> QED
      BY <1>1, <2>1
  <1>5. /\ all \in Seq(Found)
        /\ \A x : x \in ToSet(all) <=> \E i \in 1..n : x \in ToSet(ImagesNamed(e(i)))
    <2> HIDE DEF seqs, Found, n
    <2> QED
      BY <1>4, FlattenElements
  <1>6. reply' = Reply("images", value) /\ \A i \in DOMAIN all : all[i][2] # Nil
    <2> DEFINE read(x) == x[2] # Nil /\ layout[x[2]].config \in there
    <2>1. reply' = IF Top \in there /\ \A i \in DOMAIN all : read(all[i])
                   THEN Reply("images", value) ELSE Reply("error", Nil)
      BY Zenon DEF AllImages
    <2> HIDE DEF all, value
    <2> QED
      BY <2>1 DEF Reply
  <1> HIDE DEF seqs
  <1>7. ToSet(reply'.value) = {<<x[1], PlatformOf(x[2])>> : x \in ToSet(all)}
    <2>1. reply'.value = value
      BY <1>6 DEF Reply
    <2>2. ToSet(value) = {<<x[1], PlatformOf(x[2])>> : x \in ToSet(all)}
      <3> HIDE DEF all
      <3> QED
        BY DEF ToSet, PlatformOf
    <2> QED
      BY <2>1, <2>2
  <1> HIDE DEF all, value, Found, Names, e, n
  <1>8. \A x \in ToSet(all) : x[2] # Nil
    BY <1>6 DEF ToSet
  <1>9. \A i \in 1..n : e(i).name # Nil => Nil \notin ToSet(under(i))
    <2> SUFFICES ASSUME NEW i \in 1..n, e(i).name # Nil, Nil \in ToSet(under(i)) PROVE FALSE
      OBVIOUS
    <2>1. <<e(i).name, Nil>> \in ToSet(all)
      BY <1>3, <1>5
    <2> QED
      BY <1>8, <2>1
  <1>10. \A i \in 1..n : e(i).name # Nil => ToSet(under(i)) = of(i)
    BY <1>2, <1>9
  <1> HIDE DEF under, of
  <1>11. \A x : x \in ToSet(all) <=>
                  \E i \in 1..n : e(i).name # Nil /\ \E m \in of(i) : x = <<e(i).name, m>>
    BY <1>3, <1>5, <1>10
  <1>12. \A y : y \in ToSet(reply'.value) <=>
                  \E i \in 1..n : e(i).name # Nil /\ \E m \in of(i) : y = <<e(i).name, PlatformOf(m)>>
    <2>1. \A y : y \in ToSet(reply'.value) <=> \E x \in ToSet(all) : y = <<x[1], PlatformOf(x[2])>>
      BY <1>7
    <2>2. \A i \in 1..n : \A y : (\E m \in of(i) : y = <<e(i).name, PlatformOf(m)>>) <=>
                             \E x : (\E m \in of(i) : x = <<e(i).name, m>>) /\ y = <<x[1], PlatformOf(x[2])>>
      <3> SUFFICES ASSUME NEW i \in 1..n, NEW y
                   PROVE  (\E m \in of(i) : y = <<e(i).name, PlatformOf(m)>>) <=>
                          \E x : (\E m \in of(i) : x = <<e(i).name, m>>) /\ y = <<x[1], PlatformOf(x[2])>>
        OBVIOUS
      <3>1. \A m : <<e(i).name, m>>[1] = e(i).name /\ <<e(i).name, m>>[2] = m
        OBVIOUS
      <3>2. ASSUME NEW m \in of(i), y = <<e(i).name, PlatformOf(m)>>
            PROVE  \E x : (\E k \in of(i) : x = <<e(i).name, k>>) /\ y = <<x[1], PlatformOf(x[2])>>
        <4> WITNESS <<e(i).name, m>>
        <4> QED
          BY <3>1, <3>2
      <3> QED
        BY <3>1, <3>2
    <2>3. ASSUME NEW y, y \in ToSet(reply'.value)
          PROVE  \E i \in 1..n : e(i).name # Nil /\ \E m \in of(i) : y = <<e(i).name, PlatformOf(m)>>
      <3>1. PICK x \in ToSet(all) : y = <<x[1], PlatformOf(x[2])>>
        BY <2>1, <2>3
      <3>2. PICK i \in 1..n : e(i).name # Nil /\ \E m \in of(i) : x = <<e(i).name, m>>
        BY <1>11
      <3>3. \E m \in of(i) : y = <<e(i).name, PlatformOf(m)>>
        BY <2>2, <3>1, <3>2
      <3> QED
        BY <3>2, <3>3
    <2>4. ASSUME NEW y, NEW i \in 1..n, e(i).name # Nil, \E m \in of(i) : y = <<e(i).name, PlatformOf(m)>>
          PROVE  y \in ToSet(reply'.value)
      <3>1. PICK x : (\E m \in of(i) : x = <<e(i).name, m>>) /\ y = <<x[1], PlatformOf(x[2])>>
        BY <2>2, <2>4, Zenon
      <3>2. x \in ToSet(all)
        BY <1>11, <2>4, <3>1
      <3> QED
        BY <2>1, <3>1, <3>2
    <2> QED
      BY <2>3, <2>4
  <1>13. \A y : y \in Told <=>
                  \E i \in 1..n : e(i).name # Nil /\ \E m \in of(i) : y = <<e(i).name, PlatformOf(m)>>
    <2> DEFINE beneath(c) == {m \in ToSet(WalkBlobs(c.digest)) : Type[m] = "manifest"}
    <2>1. ToSet(layout[Top]) = {e(i) : i \in 1..n}
      BY <1>1 DEF ToSet, e
    <2>2. \A i \in 1..n : of(i) = beneath(e(i))
      BY Zenon DEF of
    <2>3. Told = UNION {{<<c.name, PlatformOf(m)>> : m \in beneath(c)} : c \in {c \in ToSet(layout[Top]) : c.name # Nil}}
      BY Zenon DEF Told
    <2> HIDE DEF beneath, of
    <2>4. \A y : y \in Told <=>
            \E c \in ToSet(layout[Top]) : c.name # Nil /\ \E m \in beneath(c) : y = <<c.name, PlatformOf(m)>>
      BY <2>3
    <2>5. \A y : y \in Told <=>
            \E i \in 1..n : e(i).name # Nil /\ \E m \in beneath(e(i)) : y = <<e(i).name, PlatformOf(m)>>
      BY <2>1, <2>4
    <2> QED
      BY <2>2, <2>5
  <1> QED
    BY <1>12, <1>13

\* While the layout and what is there of it stay, an answer stays right, and what it is right about.
LEMMA AnswersThen ==
  ASSUME layout' = layout, there' = there,
         query' # Nil /\ query'.op = "resolve" => Right(query'.ref, query'.platform, reply'),
         reply'.kind = "images" => ToSet(reply'.value) = Told
  PROVE  AnswersRight'
  <1>1. Files' = Files /\ Indexes' = Indexes /\ \A d : Deps(d)' = Deps(d)
    BY DEF Files, Indexes, Deps
  <1>2. \A e : Reached(e)' = Reached(e)
    BY <1>1 DEF Reached, Closed
  <1>3. \A m : PlatformOf(m)' = PlatformOf(m)
    BY DEF PlatformOf
  <1>4. \A d : ImagesOf(d)' = ImagesOf(d)
    BY DEF ImagesOf
  <1>5. \A d : WalkBlobs(d)' = WalkBlobs(d)
    BY <1>1 DEF WalkBlobs
  <1>9. HalfNested' <=> HalfNested
    BY <1>1, <1>2 DEF HalfNested
  <1>6. \A d : Named(d)' <=> NamedBy(query'.ref, d)
    BY <1>1, <1>2 DEF Named, NamedBy
  <1>7. \A d : {m \in ImagesOf(d)' : Matches(query'.platform, PlatformOf(m)')} = Fit(d, query'.platform)
    BY <1>3, <1>4 DEF Fit
  <1>8. Told' = Told
    BY <1>3, <1>5 DEF Told
  <1> QED
    BY <1>1, <1>6, <1>7, <1>8, <1>9 DEF AnswersRight, Right, Told

LEMMA AnswersNow ==
  ASSUME AnswersRight
  PROVE  /\ query # Nil /\ query.op = "resolve" => Right(query.ref, query.platform, reply)
         /\ reply.kind = "images" => ToSet(reply.value) = Told
  <1>1. \A d : Named(d) <=> NamedBy(query.ref, d)
    BY DEF Named, NamedBy
  <1> QED
    BY <1>1 DEF AnswersRight, Right, Fit, Told

\* Nothing is answered, or nothing that AnswersRight is about.
LEMMA AnswersNone ==
  ASSUME layout' = layout, there' = there, reply'.kind # "images",
         reply'.kind \in {"none", "blobs", "left"} \/ query' = Nil \/ query'.op # "resolve"
  PROVE  AnswersRight'
  BY AnswersThen DEF Right

\* AnswersRight: whatever is in the layout, and whatever of it can be read, a reference is answered with
\* the one image of its entry that runs on the platform, with "not found" only when there is none, or when
\* a digest is described in nested indexes only and an index nested in another is missing, and with
\* "ambiguous" only when there are several (Resolve and find, ocidir.go:57); and AllImages tells of
\* the images under the named entries and no others (helper.go:36).
THEOREM AnswersAreRight ==
  ASSUME Described
  PROVE  OciSpec => []AnswersRight
  <1> DEFINE None == /\ NoReply.kind = "none"
                     /\ \A k, v : Reply(k, v).kind = k
  <1>1. None
    BY DEF NoReply, Reply
  <1> HIDE DEF None
  <1>2. OciInit => AnswersRight
    BY <1>1 DEF OciInit, AnswersRight, None
  <1>3. ASSUME WholeInv, AnswersRight, [OciNext]_ociVars PROVE AnswersRight'
    <2> USE DEF None
    <2>1. layout \in Layouts /\ there \subseteq Files /\ (query = Nil => reply = NoReply)
      BY <1>3 DEF WholeInv, OciTypeOK
    <2>2. CASE BlobsFromNames
      <3>1. layout' = layout /\ there' = there /\ query'.op = "names"
        BY <2>2 DEF BlobsFromNames, Begin
      <3>2. reply'.kind # "images"
        BY <1>1, <2>1, <2>2 DEF BlobsFromNames, BlobsFrom, Refuse, Begin
      <3> QED
        BY <3>1, <3>2, AnswersNone
    <2>3. CASE BlobsFromDigests
      <3>1. layout' = layout /\ there' = there /\ query'.op = "digests"
        BY <2>3 DEF BlobsFromDigests, Begin
      <3>2. reply'.kind # "images"
        BY <1>1, <2>1, <2>3 DEF BlobsFromDigests, BlobsFrom, Refuse, Begin
      <3> QED
        BY <3>1, <3>2, AnswersNone
    <2>4. CASE YieldBlob
      <3>1. layout' = layout /\ there' = there
        BY <2>4 DEF YieldBlob
      <3>2. reply'.kind \in {"left", "blobs", "none"}
        BY <1>1, <2>4 DEF YieldBlob
      <3> QED
        BY <3>1, <3>2, AnswersNone
    <2>5. CASE AllImages
      <3>1. layout' = layout /\ there' = there /\ query'.op = "images"
        BY <2>5 DEF AllImages, Begin
      <3>2. reply'.kind = "images" => ToSet(reply'.value) = Told
        BY <2>1, <2>5, ImagesRight
      <3> QED
        BY <3>1, <3>2, AnswersThen
    <2>6. CASE Resolve
      <3>1. layout' = layout /\ there' = there /\ query'.op = "resolve"
        BY <2>6 DEF Resolve, Begin
      <3>2. Right(query'.ref, query'.platform, reply')
        BY <2>1, <2>6, ResolveRight
      <3>3. reply'.kind # "images"
        BY <1>1, <2>1, <2>6, ResolveKinds
      <3> QED
        BY <3>1, <3>2, <3>3, AnswersThen
    <2>7. CASE Return
      <3>1. layout' = layout /\ there' = there /\ query' = Nil /\ reply' = NoReply
        BY <2>7 DEF Return
      <3> QED
        BY <1>1, <3>1, AnswersNone
    <2>8. CASE Arrive
      <3>1. reply' = NoReply
        BY <2>8 DEF Arrive
      <3> QED
        BY <1>1, <3>1 DEF AnswersRight
    <2>9. CASE UNCHANGED ociVars
      <3>1. layout' = layout /\ there' = there /\ query' = query /\ reply' = reply
        BY <2>9 DEF ociVars
      <3> QED
        BY <1>3, <3>1, AnswersNow, AnswersThen
    <2> QED
      BY <1>3, <2>2, <2>3, <2>4, <2>5, <2>6, <2>7, <2>8, <2>9 DEF OciNext
  <1> QED
    BY WholeInvariant, <1>2, <1>3, PTL DEF OciSpec
=============================================================================
