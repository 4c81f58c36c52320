--------------------------- MODULE BenchmarkProofs ---------------------------
(***************************************************************************)
(* What is proved of FrameBenchmark for every number of trials and of      *)
(* presenting processes, and for every bound on the frames: a capture is   *)
(* over when its metrics are computed, and its frames are of its own trial *)
(* and of the target; its lows are in order, and the statistic of the      *)
(* rank-sum test counts the pairs of trials that the optimized side wins.  *)
(***************************************************************************)
EXTENDS FrameBenchmark, FiniteSetTheorems, WellFoundedInduction, TLAPS

-----------------------------------------------------------------------------
(* Induction, for sets of numbers and for iterated steps                   *)

\* A set that holds zero and with a number its successor holds every number.
LEMMA SetInduction ==
  ASSUME NEW S, 0 \in S, \A n \in Nat : n \in S => n + 1 \in S
  PROVE  Nat \subseteq S
  <1> DEFINE T == Nat \ S
  <1> SUFFICES ASSUME T # {} PROVE FALSE
    OBVIOUS
  <1>1. IsWellFoundedOn(OpToRel(<, Nat), Nat)
    BY NatLessThanWellFounded
  <1>2. T \subseteq Nat
    OBVIOUS
  <1> HIDE DEF T
  <1>3. PICK x \in T : \A y \in T : ~ (<<y, x>> \in OpToRel(<, Nat))
    BY <1>1, <1>2, WFMin
  <1>4. x \in Nat /\ x \notin S /\ x # 0
    BY DEF T
  <1>5. x - 1 \in Nat /\ x - 1 \notin S
    BY <1>4
  <1>6. x - 1 \in T
    BY <1>5 DEF T
  <1>7. <<x - 1, x>> \in OpToRel(<, Nat)
    BY <1>4, <1>5 DEF OpToRel
  <1> QED
    BY <1>3, <1>6, <1>7

\* N steps within a set of values, and the values they run through from a.
Steps(N, V) == [1 .. N -> [V -> V]]
Iterates(f, N, a, step) == f[0] = a /\ \A n \in 1 .. N : f[n] = step[n][f[n - 1]]

\* Steps can be iterated from any start.
LEMMA Iteration ==
  ASSUME NEW V, NEW a \in V, NEW N \in Nat, NEW step \in Steps(N, V)
  PROVE  \E f \in [0 .. N -> V] : Iterates(f, N, a, step)
  <1> USE DEF Steps, Iterates
  <1> DEFINE Upto(k) == \E f \in [0 .. k -> V] : f[0] = a /\ \A n \in 1 .. k : f[n] = step[n][f[n - 1]]
             S == {k \in Nat : k <= N => Upto(k)}
  <1>1. 0 \in S
    <2>1. [i \in 0 .. 0 |-> a] \in [0 .. 0 -> V]
      OBVIOUS
    <2>2. Upto(0)
      <3> WITNESS [i \in 0 .. 0 |-> a] \in [0 .. 0 -> V]
      <3> QED OBVIOUS
    <2> QED BY <2>2
  <1>2. ASSUME NEW k \in Nat, k \in S PROVE k + 1 \in S
    <2> SUFFICES ASSUME k + 1 <= N PROVE Upto(k + 1)
      OBVIOUS
    <2>1. Upto(k)
      BY <1>2
    <2>2. PICK f \in [0 .. k -> V] : f[0] = a /\ \A n \in 1 .. k : f[n] = step[n][f[n - 1]]
      BY <2>1
    <2> DEFINE g == [i \in 0 .. k + 1 |-> IF i = k + 1 THEN step[k + 1][f[k]] ELSE f[i]]
    <2>3. step[k + 1][f[k]] \in V
      OBVIOUS
    <2>4. g \in [0 .. k + 1 -> V]
      BY <2>3
    <2>5. g[0] = a
      BY <2>2
    <2>6. ASSUME NEW n \in 1 .. k + 1 PROVE g[n] = step[n][g[n - 1]]
      <3>1. CASE n = k + 1
        BY <3>1
      <3>2. CASE n # k + 1
        <4>1. n \in 1 .. k /\ g[n] = f[n] /\ g[n - 1] = f[n - 1]
          BY <3>2
        <4> QED BY <2>2, <4>1
      <3> QED BY <3>1, <3>2
    <2> HIDE DEF g
    <2> QED BY <2>4, <2>5, <2>6
  <1> HIDE DEF S
  <1>3. Nat \subseteq S
    BY <1>1, <1>2, SetInduction
  <1>4. N \in S
    BY <1>3
  <1> QED
    BY <1>4 DEF S

-----------------------------------------------------------------------------
(* The sorted times                                                        *)

\* A value of a set of whole numbers that none surpasses is its maximum.
LEMMA MaxIsGreatest ==
  ASSUME NEW S, S \subseteq Nat, NEW x \in S, \A y \in S : y <= x
  PROVE  Max(S) \in S /\ \A y \in S : y <= Max(S)
  <1>1. \E z \in S : \A y \in S : z >= y
    OBVIOUS
  <1>2. Max(S) \in S /\ \A y \in S : Max(S) >= y
    BY <1>1 DEF Max
  <1> QED BY <1>2

\* A set of whole numbers that is not empty has a minimum.
LEMMA MinIsLeast ==
  ASSUME NEW S, S \subseteq Nat, S # {}
  PROVE  Min(S) \in S /\ \A y \in S : Min(S) <= y
  <1>1. PICK x \in S : \A y \in S : ~(<<y, x>> \in OpToRel(<, Nat))
    BY NatLessThanWellFounded, WFMin
  <1>2. ASSUME NEW y \in S PROVE x <= y
    <2>1. x \in Nat /\ y \in Nat /\ ~(<<y, x>> \in OpToRel(<, Nat))
      BY <1>1
    <2> QED BY <2>1 DEF OpToRel
  <1> QED BY <1>2 DEF Min

\* Among some places of a sequence of numbers there is one whose value none surpasses.
LEMMA Greatest ==
  ASSUME NEW s \in Seq(Nat), NEW T \in SUBSET DOMAIN s, T # {}
  PROVE  \E j \in T : \A i \in T : s[i] <= s[j]
  <1> DEFINE Has(U) == \E j \in U : \A i \in U : s[i] <= s[j]
             S == {k \in Nat : \A U \in SUBSET DOMAIN s : U # {} /\ U \subseteq 1 .. k => Has(U)}
  <1>1. 0 \in S
    OBVIOUS
  <1>2. ASSUME NEW k \in Nat, k \in S PROVE k + 1 \in S
    <2> SUFFICES ASSUME NEW U \in SUBSET DOMAIN s, U # {}, U \subseteq 1 .. k + 1
                 PROVE  Has(U)
      <3> HIDE DEF Has
      <3> QED OBVIOUS
    <2>0. \A i \in U : s[i] \in Nat
      OBVIOUS
    <2> DEFINE W == U \ {k + 1}
    <2>1. CASE W = {}
      <3>1. U = {k + 1}
        BY <2>1
      <3> QED BY <2>0, <3>1
    <2>2. CASE W # {}
      <3>1. W \in SUBSET DOMAIN s /\ W \subseteq 1 .. k
        OBVIOUS
      <3>2. Has(W)
        BY <1>2, <2>2, <3>1
      <3>3. PICK j \in W : \A i \in W : s[i] <= s[j]
        BY <3>2
      <3>4. CASE k + 1 \in U /\ s[k + 1] > s[j]
        <4>1. ASSUME NEW i \in U PROVE s[i] <= s[k + 1]
          <5>1. CASE i = k + 1
            BY <2>0, <5>1
          <5>2. CASE i # k + 1
            BY <2>0, <3>3, <3>4, <5>2
          <5> QED BY <5>1, <5>2
        <4> QED BY <3>4, <4>1
      <3>5. CASE ~(k + 1 \in U /\ s[k + 1] > s[j])
        <4>1. ASSUME NEW i \in U PROVE s[i] <= s[j]
          BY <2>0, <3>3, <3>5
        <4> QED BY <4>1
      <3> QED BY <3>4, <3>5
    <2> QED BY <2>1, <2>2
  <1> HIDE DEF S
  <1>3. Len(s) \in S
    <2>1. Nat \subseteq S
      BY <1>1, <1>2, SetInduction
    <2> QED BY <2>1
  <1>4. T \subseteq 1 .. Len(s)
    OBVIOUS
  <1> QED BY <1>3, <1>4 DEF S

\* The places of the values up to v, and of those from v on.
UpTo(s, v) == {i \in DOMAIN s : s[i] <= v}
From(s, v) == {i \in DOMAIN s : s[i] >= v}

\* Places are finitely many.
LEMMA Places ==
  ASSUME NEW s \in Seq(Nat), NEW T \in SUBSET DOMAIN s
  PROVE  IsFiniteSet(T) /\ Cardinality(T) \in Nat /\ Cardinality(T) <= Len(s)
         /\ Cardinality(DOMAIN s) = Len(s) /\ IsFiniteSet(DOMAIN s)
  <1>1. DOMAIN s = 1 .. Len(s) /\ Len(s) \in Nat
    OBVIOUS
  <1>2. IsFiniteSet(DOMAIN s) /\ Cardinality(DOMAIN s) = Len(s)
    <2> DEFINE n == Len(s)
    <2>1. n \in Nat /\ DOMAIN s = 1 .. n
      BY <1>1
    <2> HIDE DEF n
    <2>2. IsFiniteSet(1 .. n) /\ Cardinality(1 .. n) = IF 1 > n THEN 0 ELSE n - 1 + 1
      BY <2>1, FS_Interval
    <2>3. Cardinality(1 .. n) = n
      BY <2>1, <2>2
    <2> QED BY <2>1, <2>2, <2>3 DEF n
  <1> QED BY <1>2, FS_Subset, FS_CardinalityType

\* The k-th of the sorted values is one of them; at least k of them do not exceed it, and
\* all from the k-th on do not fall below it.
LEMMA OrderStatistic ==
  ASSUME NEW s \in Seq(Nat), NEW k \in DOMAIN s
  PROVE  /\ SortedUp(s)[k] \in {s[i] : i \in DOMAIN s}
         /\ SortedUp(s)[k] \in Nat
         /\ Cardinality(UpTo(s, SortedUp(s)[k])) >= k
         /\ Cardinality(From(s, SortedUp(s)[k])) >= Len(s) - k + 1
         /\ \A l \in DOMAIN s : k <= l => SortedUp(s)[k] <= SortedUp(s)[l]
         /\ \A i \in DOMAIN s : Cardinality(UpTo(s, s[i])) >= k => SortedUp(s)[k] <= s[i]
  <1> DEFINE Values == {s[i] : i \in DOMAIN s}
             Cand(l) == {v \in Values : Cardinality(UpTo(s, v)) >= l}
             x(l) == SortedUp(s)[l]
  <1>0. /\ DOMAIN s = 1 .. Len(s) /\ Len(s) \in Nat /\ \A i \in DOMAIN s : s[i] \in Nat
        /\ Values \subseteq Nat
    OBVIOUS
  <1>1. \A l \in DOMAIN s : x(l) = Min(Cand(l))
    BY DEF SortedUp, UpTo
  <1>2. ASSUME NEW l \in DOMAIN s PROVE Cand(l) # {} /\ Cand(l) \subseteq Nat
    <2>1. PICK j \in DOMAIN s : \A i \in DOMAIN s : s[i] <= s[j]
      BY Greatest
    <2>2. UpTo(s, s[j]) = DOMAIN s
      BY <2>1 DEF UpTo
    <2>3. Cardinality(UpTo(s, s[j])) >= l
      BY <1>0, <2>2, Places
    <2> QED BY <1>0, <2>3
  <1>3. ASSUME NEW l \in DOMAIN s
        PROVE  x(l) \in Cand(l) /\ \A v \in Cand(l) : x(l) <= v
    <2> HIDE DEF Cand, x
    <2> QED BY <1>1, <1>2, MinIsLeast
  <1> HIDE DEF x
  <1>4. x(k) \in Values /\ x(k) \in Nat /\ Cardinality(UpTo(s, x(k))) >= k
    BY <1>0, <1>3
  <1>5. ASSUME NEW l \in DOMAIN s, k <= l PROVE x(k) <= x(l)
    <2>1. x(l) \in Values /\ Cardinality(UpTo(s, x(l))) >= l
      BY <1>3
    <2>2. Cardinality(UpTo(s, x(l))) \in Nat
      BY Places DEF UpTo
    <2>3. Cardinality(UpTo(s, x(l))) >= k
      BY <1>0, <1>5, <2>1, <2>2
    <2> QED BY <1>3, <2>1, <2>3
  <1>6. Cardinality(From(s, x(k))) >= Len(s) - k + 1
    <2> DEFINE less == DOMAIN s \ From(s, x(k))
    <2>1. /\ less \in SUBSET DOMAIN s /\ From(s, x(k)) \in SUBSET DOMAIN s
          /\ \A i \in less : s[i] < x(k)
      BY <1>0, <1>4 DEF From
    <2>2. Cardinality(less) \in Nat /\ Cardinality(From(s, x(k))) \in Nat
      BY <2>1, Places
    <2>3. Cardinality(less) = Len(s) - Cardinality(From(s, x(k)))
      <3>1. DOMAIN s \cap From(s, x(k)) = From(s, x(k))
        BY <2>1
      <3>2. IsFiniteSet(DOMAIN s) /\ Cardinality(DOMAIN s) = Len(s)
        BY Places
      <3>3. Cardinality(less) = Cardinality(DOMAIN s) - Cardinality(DOMAIN s \cap From(s, x(k)))
        BY <3>2, FS_Difference
      <3> QED BY <3>1, <3>2, <3>3
    <2>4. Cardinality(less) < k
      <3>1. CASE less = {}
        <4>1. Cardinality(less) = 0 /\ k \in 1 .. Len(s)
          BY <1>0, <3>1, FS_EmptySet
        <4> HIDE DEF less
        <4> QED BY <1>0, <4>1
      <3>2. CASE less # {}
        <4>1. PICK j \in less : \A i \in less : s[i] <= s[j]
          <5> HIDE DEF less
          <5> QED BY <2>1, <3>2, Greatest
        <4>2. UpTo(s, s[j]) = less
          <5>1. ASSUME NEW i \in DOMAIN s, s[i] <= s[j] PROVE i \in less
            <6>1. s[j] < x(k) /\ s[i] \in Nat /\ s[j] \in Nat /\ x(k) \in Nat
              BY <1>0, <1>4, <2>1, <4>1
            <6>2. ~(s[i] >= x(k))
              BY <5>1, <6>1
            <6> QED BY <6>2 DEF From
          <5> QED BY <2>1, <4>1, <5>1 DEF UpTo
        <4>3. s[j] \in Values /\ s[j] < x(k) /\ s[j] \in Nat
          BY <1>0, <2>1, <4>1
        <4>4. s[j] \notin Cand(k)
          <5>1. \A v \in Cand(k) : x(k) <= v
            BY <1>3
          <5> QED BY <1>4, <4>3, <5>1, SMTT(30)
        <4>5. ~(Cardinality(less) >= k)
          BY <4>2, <4>3, <4>4
        <4> QED BY <1>0, <2>2, <4>5
      <3> QED BY <3>1, <3>2
    <2> HIDE DEF less
    <2> QED BY <1>0, <2>2, <2>3, <2>4
  <1>7. \A i \in DOMAIN s : Cardinality(UpTo(s, s[i])) >= k => x(k) <= s[i]
    BY <1>3
  <1> QED BY <1>4, <1>5, <1>6, <1>7 DEF x

-----------------------------------------------------------------------------
(* Sums                                                                    *)

\* The sums of the first elements of a sequence.
PartialSums(S, s) ==
    S[0] = 0 /\ \A n \in 1 .. Len(s) : S[n] = S[n - 1] + s[n]

\* SumSeq is the last of them.
LEMMA SumSeqOf ==
  ASSUME NEW s \in Seq(Nat)
  PROVE  \E S \in [0 .. Len(s) -> Nat] : PartialSums(S, s) /\ SumSeq(s) = S[Len(s)]
  <1> DEFINE N == Len(s)
             E(S) == [n \in 0 .. Len(s) |-> IF n = 0 THEN 0 ELSE S[n - 1] + s[n]]
             S == CHOOSE S : S = E(S)
             step == [n \in 1 .. N |-> [v \in Nat |-> v + s[n]]]
  <1>1. SumSeq(s) = S[N]
    BY DEF SumSeq
  <1>2. N \in Nat /\ \A n \in 1 .. N : s[n] \in Nat
    OBVIOUS
  <1> HIDE DEF N
  <1>3. step \in Steps(N, Nat)
    BY <1>2 DEF Steps
  <1>4. \A n \in 1 .. N, v \in Nat : step[n][v] = v + s[n]
    OBVIOUS
  <1> HIDE DEF step
  <1>5. PICK f \in [0 .. N -> Nat] : Iterates(f, N, 0, step)
    BY <1>2, <1>3, Iteration
  <1>6. ASSUME NEW n \in 1 .. N PROVE n - 1 \in 0 .. N /\ f[n] = f[n - 1] + s[n]
    <2>1. n - 1 \in 0 .. N /\ f[n - 1] \in Nat
      BY <1>2
    <2> QED BY <1>4, <1>5, <2>1 DEF Iterates
  <1>7. f = E(f)
    <2>1. f[0] = 0
      BY <1>5 DEF Iterates
    <2>2. \A n \in 0 .. N : f[n] = IF n = 0 THEN 0 ELSE f[n - 1] + s[n]
      BY <1>2, <1>6, <2>1
    <2> QED BY <2>2 DEF N
  <1>8. S = E(S)
    <2> HIDE DEF E
    <2> QED BY <1>7, Zenon
  <1>9. \A n \in 0 .. N : S[n] = IF n = 0 THEN 0 ELSE S[n - 1] + s[n]
    <2> HIDE DEF S
    <2>1. \A n \in 0 .. N : E(S)[n] = IF n = 0 THEN 0 ELSE S[n - 1] + s[n]
      BY DEF N
    <2> HIDE DEF E
    <2> QED BY <1>8, <2>1
  <1> HIDE DEF S, E
  <1> DEFINE T == {n \in Nat : n <= N => S[n] = f[n]}
  <1>10. 0 \in T
    BY <1>2, <1>5, <1>9 DEF Iterates
  <1>11. ASSUME NEW n \in Nat, n \in T PROVE n + 1 \in T
    <2> SUFFICES ASSUME n + 1 <= N PROVE S[n + 1] = f[n + 1]
      OBVIOUS
    <2>1. n + 1 \in 1 .. N /\ (n + 1) - 1 = n /\ n + 1 # 0 /\ n + 1 \in 0 .. N
      BY <1>2
    <2>2. S[n] = f[n]
      BY <1>2, <1>11
    <2>3. f[n + 1] = f[n] + s[n + 1]
      BY <1>6, <2>1
    <2>4. S[n + 1] = S[n] + s[n + 1]
      BY <1>9, <2>1
    <2> QED BY <2>2, <2>3, <2>4
  <1> HIDE DEF T
  <1>12. N \in T
    BY <1>2, <1>10, <1>11, SetInduction
  <1>13. S[N] = f[N]
    BY <1>2, <1>12 DEF T
  <1>14. PartialSums(f, s)
    BY <1>5, <1>6 DEF PartialSums, Iterates, N
  <1> QED BY <1>1, <1>13, <1>14 DEF N

\* All elements of a sequence of numbers lie between a and b.
Within(t, a, b) == \A i \in DOMAIN t : a <= t[i] /\ t[i] <= b

\* Then the sum lies between as many times a and b.
LEMMA SumIsBounded ==
  ASSUME NEW s \in Seq(Nat), NEW a \in Nat, NEW b \in Nat, Within(s, a, b)
  PROVE  SumSeq(s) \in Nat /\ Len(s) * a <= SumSeq(s) /\ SumSeq(s) <= Len(s) * b
  <1> DEFINE N == Len(s)
  <1>1. PICK S \in [0 .. Len(s) -> Nat] : PartialSums(S, s) /\ SumSeq(s) = S[Len(s)]
    BY SumSeqOf
  <1>2. N \in Nat /\ \A n \in 1 .. N : s[n] \in Nat /\ a <= s[n] /\ s[n] <= b
    BY DEF Within
  <1>3. S \in [0 .. N -> Nat] /\ S[0] = 0 /\ \A n \in 1 .. N : S[n] = S[n - 1] + s[n]
    BY <1>1 DEF PartialSums
  <1> HIDE DEF N
  <1> DEFINE T == {n \in Nat : n <= N => n * a <= S[n] /\ S[n] <= n * b}
  <1>4. 0 \in T
    BY <1>3
  <1>5. ASSUME NEW n \in Nat, n \in T PROVE n + 1 \in T
    <2> SUFFICES ASSUME n + 1 <= N PROVE (n + 1) * a <= S[n + 1] /\ S[n + 1] <= (n + 1) * b
      OBVIOUS
    <2>1. n + 1 \in 1 .. N /\ (n + 1) - 1 = n /\ n \in 0 .. N
      BY <1>2
    <2>2. n * a <= S[n] /\ S[n] <= n * b /\ S[n] \in Nat
      BY <1>2, <1>3, <1>5, <2>1
    <2>3. S[n + 1] = S[n] + s[n + 1] /\ s[n + 1] \in Nat /\ a <= s[n + 1] /\ s[n + 1] <= b
      BY <1>2, <1>3, <2>1
    <2>4. (n + 1) * a = n * a + a /\ (n + 1) * b = n * b + b /\ n * a \in Nat /\ n * b \in Nat
      OBVIOUS
    <2> QED BY <2>2, <2>3, <2>4
  <1> HIDE DEF T
  <1>6. N \in T
    BY <1>2, <1>4, <1>5, SetInduction
  <1> QED BY <1>1, <1>2, <1>3, <1>6 DEF T, N

\* The elements of one sequence are the sums of those of two others.
IsSum(f, g, h) == Len(f) = Len(g) /\ Len(f) = Len(h) /\ \A i \in DOMAIN f : f[i] = g[i] + h[i]

\* Sums add up.
LEMMA SumsAdd ==
  ASSUME NEW f \in Seq(Nat), NEW g \in Seq(Nat), NEW h \in Seq(Nat), IsSum(f, g, h)
  PROVE  /\ SumSeq(f) = SumSeq(g) + SumSeq(h)
         /\ SumSeq(f) \in Nat /\ SumSeq(g) \in Nat /\ SumSeq(h) \in Nat
  <1> DEFINE N == Len(f)
  <1>1. PICK F \in [0 .. Len(f) -> Nat] : PartialSums(F, f) /\ SumSeq(f) = F[Len(f)]
    BY SumSeqOf
  <1>2. PICK G \in [0 .. Len(g) -> Nat] : PartialSums(G, g) /\ SumSeq(g) = G[Len(g)]
    BY SumSeqOf
  <1>3. PICK H \in [0 .. Len(h) -> Nat] : PartialSums(H, h) /\ SumSeq(h) = H[Len(h)]
    BY SumSeqOf
  <1>4. /\ N \in Nat /\ Len(g) = N /\ Len(h) = N
        /\ \A n \in 1 .. N : f[n] = g[n] + h[n] /\ g[n] \in Nat /\ h[n] \in Nat
    <2>1. /\ DOMAIN f = 1 .. Len(f) /\ DOMAIN g = 1 .. Len(g) /\ DOMAIN h = 1 .. Len(h)
          /\ Len(f) \in Nat
          /\ \A n \in DOMAIN g : g[n] \in Nat
          /\ \A n \in DOMAIN h : h[n] \in Nat
      OBVIOUS
    <2> QED BY <2>1 DEF IsSum
  <1>5. /\ F \in [0 .. N -> Nat] /\ G \in [0 .. N -> Nat] /\ H \in [0 .. N -> Nat]
        /\ F[0] = 0 /\ G[0] = 0 /\ H[0] = 0
        /\ \A n \in 1 .. N : /\ F[n] = F[n - 1] + f[n] /\ G[n] = G[n - 1] + g[n]
                             /\ H[n] = H[n - 1] + h[n]
    BY <1>1, <1>2, <1>3, <1>4 DEF PartialSums
  <1> HIDE DEF N
  <1> DEFINE T == {n \in Nat : n <= N => F[n] = G[n] + H[n]}
  <1>6. 0 \in T
    BY <1>5
  <1>7. ASSUME NEW n \in Nat, n \in T PROVE n + 1 \in T
    <2> SUFFICES ASSUME n + 1 <= N PROVE F[n + 1] = G[n + 1] + H[n + 1]
      OBVIOUS
    <2>1. n + 1 \in 1 .. N /\ (n + 1) - 1 = n /\ n \in 0 .. N
      BY <1>4
    <2>2. F[n] = G[n] + H[n] /\ F[n] \in Nat /\ G[n] \in Nat /\ H[n] \in Nat
      BY <1>4, <1>5, <1>7, <2>1
    <2>3. /\ F[n + 1] = F[n] + f[n + 1] /\ G[n + 1] = G[n] + g[n + 1]
          /\ H[n + 1] = H[n] + h[n + 1]
          /\ f[n + 1] = g[n + 1] + h[n + 1] /\ g[n + 1] \in Nat /\ h[n + 1] \in Nat
      BY <1>4, <1>5, <2>1
    <2> DEFINE x == G[n]
               y == H[n]
               u == g[n + 1]
               w == h[n + 1]
    <2>4. x \in Nat /\ y \in Nat /\ u \in Nat /\ w \in Nat
      BY <2>2, <2>3
    <2>5. F[n + 1] = (x + y) + (u + w) /\ G[n + 1] = x + u /\ H[n + 1] = y + w
      BY <2>2, <2>3
    <2> HIDE DEF x, y, u, w
    <2> QED BY <2>4, <2>5
  <1> HIDE DEF T
  <1>8. N \in T
    BY <1>4, <1>6, <1>7, SetInduction
  <1>9. F[N] = G[N] + H[N] /\ F[N] \in Nat /\ G[N] \in Nat /\ H[N] \in Nat
    BY <1>4, <1>5, <1>8 DEF T
  <1> QED BY <1>1, <1>2, <1>3, <1>4, <1>9 DEF N

-----------------------------------------------------------------------------
(* Ranks and pairs                                                         *)

\* The places of the values below v, and of those in a set of values.
Below(s, v) == {i \in DOMAIN s : s[i] < v}
Hits(s, W) == {i \in DOMAIN s : s[i] \in W}

\* As sets of values the two bounds are intervals.
LEMMA HitsOfBounds ==
  ASSUME NEW s \in Seq(Nat), NEW v \in Nat
  PROVE  UpTo(s, v) = Hits(s, 0 .. v) /\ Below(s, v) = Hits(s, 0 .. v - 1)
  <1>1. \A i \in DOMAIN s : s[i] \in Nat
    OBVIOUS
  <1> QED BY <1>1 DEF UpTo, Below, Hits

\* The mean rank of a value follows from how many values are below it and not above it.
LEMMA RankOf ==
  ASSUME NEW s \in Seq(Nat), NEW k \in DOMAIN s
  PROVE  MidRank(SortedUp(s), s[k]) = Cardinality(Below(s, s[k])) + 1 + Cardinality(UpTo(s, s[k]))
  <1> DEFINE v == s[k]
             z == SortedUp(s)
             m == Cardinality(Below(s, v))
             q == Cardinality(UpTo(s, v))
             tied == {j \in DOMAIN z : z[j] = v}
  <1>1. MidRank(z, v) = Min(tied) + Max(tied)
    BY DEF MidRank
  <1>2. DOMAIN z = DOMAIN s /\ DOMAIN s = 1 .. Len(s) /\ Len(s) \in Nat /\ v \in Nat
    BY DEF SortedUp
  <1>3. \A i \in DOMAIN s : s[i] \in Nat
    OBVIOUS
  <1>4. /\ Below(s, v) \in SUBSET DOMAIN s /\ UpTo(s, v) \in SUBSET DOMAIN s
        /\ From(s, v) \in SUBSET DOMAIN s
    BY DEF Below, UpTo, From
  <1>5. m \in Nat /\ q \in Nat /\ q <= Len(s) /\ IsFiniteSet(UpTo(s, v)) /\ IsFiniteSet(Below(s, v))
    BY <1>4, Places
  <1>6. m < q
    <2>1. Below(s, v) \in SUBSET UpTo(s, v) /\ k \in UpTo(s, v) /\ k \notin Below(s, v)
      BY <1>2, <1>3 DEF Below, UpTo
    <2>2. m <= q /\ (q = m => UpTo(s, v) = Below(s, v))
      BY <1>5, <2>1, FS_Subset
    <2> QED BY <1>5, <2>1, <2>2
  <1>7. m + Cardinality(From(s, v)) = Len(s) /\ Cardinality(From(s, v)) \in Nat
    <2>1. Below(s, v) = DOMAIN s \ From(s, v) /\ DOMAIN s \cap From(s, v) = From(s, v)
      BY <1>2, <1>3 DEF Below, From
    <2>2. IsFiniteSet(DOMAIN s) /\ Cardinality(DOMAIN s) = Len(s)
      BY <1>4, Places
    <2>3. m = Len(s) - Cardinality(From(s, v))
      BY <2>1, <2>2, FS_Difference, ZenonT(60)
    <2>4. Cardinality(From(s, v)) \in Nat
      BY <1>4, Places
    <2> QED BY <1>2, <1>5, <2>3, <2>4
  <1> HIDE DEF m, q, v
  <1>8. ASSUME NEW j \in DOMAIN s PROVE z[j] = v <=> m < j /\ j <= q
    <2>1. /\ z[j] \in Nat /\ Cardinality(UpTo(s, z[j])) >= j
          /\ Cardinality(From(s, z[j])) >= Len(s) - j + 1
          /\ \A i \in DOMAIN s : Cardinality(UpTo(s, s[i])) >= j => z[j] <= s[i]
      BY OrderStatistic
    <2> HIDE DEF z
    <2>2. ASSUME z[j] = v PROVE m < j /\ j <= q
      BY <1>2, <1>5, <1>7, <2>1, <2>2 DEF q
    <2>3. ASSUME m < j, j <= q PROVE z[j] = v
      <3>1. z[j] <= v
        <4>1. v = s[k] /\ Cardinality(UpTo(s, s[k])) >= j
          BY <1>2, <1>5, <2>3 DEF v, q
        <4> QED BY <2>1, <4>1
      <3>2. ~(z[j] < v)
        <4> SUFFICES ASSUME z[j] < v PROVE FALSE
          OBVIOUS
        <4>1. UpTo(s, z[j]) \in SUBSET Below(s, v)
          BY <1>2, <1>3, <2>1 DEF UpTo, Below
        <4>2. Cardinality(UpTo(s, z[j])) <= m
          BY <1>5, <4>1, FS_Subset DEF m
        <4>3. Cardinality(UpTo(s, z[j])) \in Nat
          BY Places DEF UpTo
        <4> QED BY <1>2, <1>5, <2>1, <2>3, <4>2, <4>3
      <3> QED BY <1>2, <2>1, <3>1, <3>2
    <2> QED BY <2>2, <2>3
  <1>9. tied = m + 1 .. q
    <2>1. \A j \in m + 1 .. q : j \in DOMAIN s /\ m < j /\ j <= q
      BY <1>2, <1>5
    <2>2. \A j \in DOMAIN s : m < j /\ j <= q => j \in m + 1 .. q
      BY <1>2, <1>5
    <2> HIDE DEF z
    <2> QED BY <1>2, <1>8, <2>1, <2>2
  <1> HIDE DEF tied
  <1>10. Min(tied) = m + 1
    <2>1. tied \subseteq Nat /\ m + 1 \in tied /\ \A j \in tied : m + 1 <= j
      BY <1>5, <1>6, <1>9
    <2>2. Min(tied) \in tied /\ \A y \in tied : Min(tied) <= y
      BY <2>1, MinIsLeast
    <2>3. Min(tied) \in Nat /\ Min(tied) <= m + 1 /\ m + 1 <= Min(tied)
      BY <2>1, <2>2
    <2> QED BY <1>5, <2>3
  <1>11. Max(tied) = q
    <2>1. tied \subseteq Nat /\ q \in tied /\ \A j \in tied : j <= q
      BY <1>5, <1>6, <1>9
    <2>2. Max(tied) \in tied /\ \A y \in tied : y <= Max(tied)
      BY <2>1, MaxIsGreatest
    <2>3. Max(tied) \in Nat /\ Max(tied) <= q /\ q <= Max(tied)
      BY <2>1, <2>2
    <2> QED BY <1>5, <2>3
  <1>12. Min(tied) + Max(tied) = m + 1 + q
    BY <1>5, <1>10, <1>11
  <1> QED BY <1>1, <1>12 DEF m, q, v, z

\* Values are counted in two sequences as in both together.
LEMMA JoinedHits ==
  ASSUME NEW a \in Seq(Nat), NEW b \in Seq(Nat), NEW W
  PROVE  Cardinality(Hits(a \o b, W)) = Cardinality(Hits(a, W)) + Cardinality(Hits(b, W))
  <1> DEFINE n == Len(a)
             A == Hits(a, W)
             B == Hits(b, W)
             C == {i \in n + 1 .. n + Len(b) : (a \o b)[i] \in W}
             f == [j \in B |-> n + j]
  <1>1. /\ n \in Nat /\ Len(b) \in Nat
        /\ DOMAIN a = 1 .. n /\ DOMAIN b = 1 .. Len(b) /\ DOMAIN (a \o b) = 1 .. n + Len(b)
        /\ \A i \in 1 .. n : (a \o b)[i] = a[i]
        /\ \A i \in 1 .. Len(b) : (a \o b)[n + i] = b[i]
    <2>1. a \o b \in Seq(Nat) /\ Len(a \o b) = Len(a) + Len(b)
      OBVIOUS
    <2>2. DOMAIN (a \o b) = 1 .. n + Len(b)
      BY <2>1
    <2>3. ASSUME NEW i \in 1 .. Len(b) PROVE (a \o b)[n + i] = b[i]
      <3>1. n + i \in 1 .. n + Len(b) /\ ~(n + i <= n) /\ (n + i) - n = i
        OBVIOUS
      <3> QED BY <3>1
    <2> QED BY <2>2, <2>3
  <1> HIDE DEF n
  <1>2. A \in SUBSET DOMAIN a /\ B \in SUBSET DOMAIN b
    BY DEF Hits
  <1>3. /\ IsFiniteSet(A) /\ Cardinality(A) \in Nat
        /\ IsFiniteSet(B) /\ Cardinality(B) \in Nat
    BY <1>2, Places
  <1>4. \A j \in C : j - n \in B /\ n + (j - n) = j
    BY <1>1 DEF Hits
  <1>5. \A j \in B : n + j \in C /\ j \in Nat
    BY <1>1 DEF Hits
  <1>6. ExistsBijection(B, C)
    <2>1. f \in [B -> C]
      BY <1>5
    <2>2. \A x, y \in B : f[x] = f[y] => x = y
      BY <1>1, <1>5
    <2>3. \A y \in C : \E x \in B : f[x] = y
      BY <1>4
    <2> HIDE DEF f, C
    <2>4. f \in Bijection(B, C)
      BY <2>1, <2>2, <2>3 DEF Bijection, Injection, Surjection, IsInjective
    <2> QED BY <2>4 DEF ExistsBijection
  <1>7. IsFiniteSet(C) /\ Cardinality(C) = Cardinality(B)
    BY <1>3, <1>6, FS_Bijection
  <1>8. Hits(a \o b, W) = A \cup C /\ A \cap C = {}
    BY <1>1 DEF Hits
  <1> HIDE DEF A, B, C
  <1>9. Cardinality(A \cup C) = Cardinality(A) + Cardinality(C) - Cardinality(A \cap C)
    BY <1>3, <1>7, FS_Union
  <1>10. Cardinality(A \cap C) = 0
    BY <1>8, FS_EmptySet
  <1>11. Cardinality(Hits(a \o b, W)) = Cardinality(A) + Cardinality(B)
    BY <1>3, <1>7, <1>8, <1>9, <1>10
  <1> QED BY <1>11 DEF A, B

\* The pairs of places whose second value is in the set that belongs to the first, and the
\* number of those pairs for each first place.
PairsIn(a, b, W) == {p \in (DOMAIN a) \X (DOMAIN b) : b[p[2]] \in W[p[1]]}
Counts(a, b, W) == [i \in DOMAIN a |-> Cardinality(Hits(b, W[i]))]

\* The counts add up to the pairs.
LEMMA PairsAreCounted ==
  ASSUME NEW a \in Seq(Nat), NEW b \in Seq(Nat), NEW W
  PROVE  /\ Counts(a, b, W) \in Seq(Nat) /\ Len(Counts(a, b, W)) = Len(a)
         /\ IsFiniteSet(PairsIn(a, b, W)) /\ Cardinality(PairsIn(a, b, W)) \in Nat
         /\ SumSeq(Counts(a, b, W)) = Cardinality(PairsIn(a, b, W))
  <1> DEFINE N == Len(a)
             c == Counts(a, b, W)
             P(k) == {p \in (1 .. k) \X (DOMAIN b) : b[p[2]] \in W[p[1]]}
  <1>1. N \in Nat /\ DOMAIN a = 1 .. N
    OBVIOUS
  <1>2. \A i \in 1 .. N : IsFiniteSet(Hits(b, W[i])) /\ Cardinality(Hits(b, W[i])) \in Nat
    BY Places DEF Hits
  <1>3. c \in Seq(Nat) /\ Len(c) = N /\ \A i \in 1 .. N : c[i] = Cardinality(Hits(b, W[i]))
    <2>1. c = [i \in 1 .. N |-> Cardinality(Hits(b, W[i]))]
      BY <1>1 DEF Counts
    <2> HIDE DEF c, N
    <2>2. c \in [1 .. N -> Nat]
      BY <1>2, <2>1
    <2> QED BY <1>1, <2>1, <2>2
  <1>4. PICK S \in [0 .. Len(c) -> Nat] : PartialSums(S, c) /\ SumSeq(c) = S[Len(c)]
    BY <1>3, SumSeqOf
  <1>5. S \in [0 .. N -> Nat] /\ S[0] = 0 /\ \A n \in 1 .. N : S[n] = S[n - 1] + c[n]
    BY <1>3, <1>4 DEF PartialSums
  <1> HIDE DEF N, c
  <1> DEFINE T == {k \in Nat : k <= N => IsFiniteSet(P(k)) /\ Cardinality(P(k)) = S[k]}
  <1>6. 0 \in T
    <2>1. P(0) = {}
      OBVIOUS
    <2> QED BY <1>5, <2>1, FS_EmptySet
  <1>7. ASSUME NEW k \in Nat, k \in T PROVE k + 1 \in T
    <2> SUFFICES ASSUME k + 1 <= N
                 PROVE  IsFiniteSet(P(k + 1)) /\ Cardinality(P(k + 1)) = S[k + 1]
      OBVIOUS
    <2> DEFINE H == Hits(b, W[k + 1])
               R == {k + 1} \X H
    <2>1. k + 1 \in 1 .. N /\ (k + 1) - 1 = k /\ k \in 0 .. N /\ k <= N
      BY <1>1
    <2>2. IsFiniteSet(P(k)) /\ Cardinality(P(k)) = S[k] /\ S[k] \in Nat
      BY <1>5, <1>7, <2>1
    <2>3. IsFiniteSet(H) /\ Cardinality(H) \in Nat /\ S[k + 1] = S[k] + Cardinality(H)
      BY <1>2, <1>3, <1>5, <2>1
    <2>4. IsFiniteSet(R) /\ Cardinality(R) = Cardinality(H)
      <3>1. IsFiniteSet({k + 1}) /\ Cardinality({k + 1}) = 1
        BY FS_Singleton
      <3> HIDE DEF H
      <3>2. IsFiniteSet(R) /\ Cardinality(R) = Cardinality({k + 1}) * Cardinality(H)
        BY <2>3, <3>1, FS_Product
      <3> QED BY <2>3, <3>1, <3>2
    <2>5. P(k + 1) = P(k) \cup R /\ P(k) \cap R = {}
      <3>1. ASSUME NEW p \in P(k + 1) PROVE p \in P(k) \cup R
        <4>1. PICK i \in 1 .. k + 1, j \in DOMAIN b : p = <<i, j>>
          OBVIOUS
        <4>2. b[j] \in W[i]
          BY <4>1
        <4>3. CASE i = k + 1
          BY <4>1, <4>2, <4>3 DEF Hits
        <4>4. CASE i # k + 1
          <5>1. i \in 1 .. k
            BY <4>4
          <5> QED BY <4>1, <4>2, <5>1
        <4> QED BY <4>3, <4>4
      <3>2. P(k) \subseteq P(k + 1)
        OBVIOUS
      <3>3. R \subseteq P(k + 1)
        BY DEF Hits
      <3>4. P(k) \cap R = {}
        OBVIOUS
      <3> QED BY <3>1, <3>2, <3>3, <3>4
    <2> HIDE DEF P, R, H
    <2>6. /\ IsFiniteSet(P(k) \cup R)
          /\ Cardinality(P(k) \cup R)
               = Cardinality(P(k)) + Cardinality(R) - Cardinality(P(k) \cap R)
      BY <2>2, <2>4, FS_Union
    <2>7. Cardinality(P(k) \cap R) = 0
      BY <2>5, FS_EmptySet
    <2>8. Cardinality(P(k) \cup R) = S[k] + Cardinality(H)
      BY <2>2, <2>3, <2>4, <2>6, <2>7
    <2>9. P(k + 1) = P(k) \cup R /\ S[k + 1] = S[k] + Cardinality(H)
      BY <2>3, <2>5
    <2> QED BY <2>6, <2>8, <2>9
  <1> HIDE DEF T
  <1>8. N \in T
    BY <1>1, <1>6, <1>7, SetInduction
  <1>9. P(N) = PairsIn(a, b, W)
    BY <1>1 DEF PairsIn
  <1> HIDE DEF P
  <1>10. IsFiniteSet(P(N)) /\ Cardinality(P(N)) = S[N] /\ S[N] \in Nat
    BY <1>1, <1>5, <1>8 DEF T
  <1> QED BY <1>3, <1>4, <1>9, <1>10 DEF c, N

\* A sequence against itself: as many pairs fall as rise.
LEMMA PairsWithinOne ==
  ASSUME NEW a \in Seq(Nat),
         NEW L, L = [i \in DOMAIN a |-> 0 .. a[i] - 1],
         NEW Q, Q = [i \in DOMAIN a |-> 0 .. a[i]]
  PROVE  Cardinality(PairsIn(a, a, L)) + Cardinality(PairsIn(a, a, Q)) = Len(a) * Len(a)
  <1> DEFINE D == DOMAIN a
             X == PairsIn(a, a, L)
             Y == PairsIn(a, a, Q)
             Z == {p \in D \X D : a[p[1]] < a[p[2]]}
             swap == [p \in X |-> <<p[2], p[1]>>]
  <1>1. \A i \in D : a[i] \in Nat
    OBVIOUS
  <1>2. X = {p \in D \X D : a[p[2]] < a[p[1]]}
    BY <1>1, SMTT(30) DEF PairsIn
  <1>3. Y = {p \in D \X D : a[p[2]] <= a[p[1]]}
    BY <1>1, SMTT(30) DEF PairsIn
  <1>4. IsFiniteSet(D) /\ Cardinality(D) = Len(a) /\ Len(a) \in Nat
    BY Places
  <1>5. IsFiniteSet(D \X D) /\ Cardinality(D \X D) = Len(a) * Len(a)
    BY <1>4, FS_Product, ZenonT(60)
  <1>6. /\ IsFiniteSet(X) /\ Cardinality(X) \in Nat
        /\ IsFiniteSet(Y) /\ Cardinality(Y) \in Nat
    BY PairsAreCounted
  <1> HIDE DEF X, Y, D
  <1>7. ExistsBijection(X, Z)
    <2>1. \A p \in X : /\ p[1] \in D /\ p[2] \in D /\ p = <<p[1], p[2]>>
                       /\ a[p[2]] < a[p[1]] /\ <<p[2], p[1]>> \in Z
      BY <1>2
    <2>2. \A p \in Z : /\ p[1] \in D /\ p[2] \in D /\ p = <<p[1], p[2]>>
                       /\ <<p[2], p[1]>> \in X
      BY <1>2
    <2>3. swap \in [X -> Z]
      BY <2>1
    <2>4. ASSUME NEW x \in X, NEW y \in X, swap[x] = swap[y] PROVE x = y
      <3>1. <<x[2], x[1]>> = <<y[2], y[1]>>
        BY <2>4
      <3>2. x[1] = y[1] /\ x[2] = y[2]
        BY <3>1
      <3> QED BY <2>1, <3>2
    <2>5. ASSUME NEW y \in Z PROVE \E x \in X : swap[x] = y
      <3> DEFINE x == <<y[2], y[1]>>
      <3>1. x \in X
        BY <2>2
      <3>2. swap[x] = y
        BY <2>2, <3>1
      <3> QED BY <3>1, <3>2
    <2> HIDE DEF swap, Z
    <2>6. swap \in Bijection(X, Z)
      BY <2>3, <2>4, <2>5 DEF Bijection, Injection, Surjection, IsInjective
    <2> QED BY <2>6 DEF ExistsBijection
  <1>8. IsFiniteSet(Z) /\ Cardinality(Z) = Cardinality(X)
    BY <1>6, <1>7, FS_Bijection
  <1>9. Y \cup Z = D \X D /\ Y \cap Z = {}
    <2>1. \A p \in D \X D : a[p[1]] \in Nat /\ a[p[2]] \in Nat
      BY <1>1
    <2> QED BY <1>3, <2>1
  <1> HIDE DEF Z
  <1>10. Cardinality(Y \cup Z) = Cardinality(Y) + Cardinality(Z) - Cardinality(Y \cap Z)
    BY <1>6, <1>8, FS_Union
  <1>11. Cardinality(Y \cap Z) = 0
    BY <1>9, FS_EmptySet
  <1>12. Cardinality(Y \cup Z) = Cardinality(Y) + Cardinality(X)
    BY <1>6, <1>8, <1>10, <1>11
  <1>13. Cardinality(X) + Cardinality(Y) = Len(a) * Len(a)
    <2>1. Cardinality(Y \cup Z) = Len(a) * Len(a)
      BY <1>5, <1>9, Zenon
    <2> QED BY <1>6, <1>12, <2>1
  <1> QED BY <1>13 DEF X, Y

\* Twice the rank sum of the first sequence among both: its own pairs, its length, and the
\* pairs it does not lose, those it wins counted twice.
LEMMA RankSumOf ==
  ASSUME NEW a \in Seq(Nat), NEW b \in Seq(Nat),
         NEW L, L = [i \in DOMAIN a |-> 0 .. a[i] - 1],
         NEW Q, Q = [i \in DOMAIN a |-> 0 .. a[i]]
  PROVE  SumSeq([i \in DOMAIN a |-> MidRank(SortedUp(a \o b), a[i])])
           = Len(a) * Len(a) + Len(a)
             + Cardinality(PairsIn(a, b, L)) + Cardinality(PairsIn(a, b, Q))
  <1> DEFINE n == Len(a)
             c == a \o b
             la == Counts(a, a, L)
             lb == Counts(a, b, L)
             qa == Counts(a, a, Q)
             qb == Counts(a, b, Q)
             own == [i \in 1 .. n |-> la[i] + qa[i]]
             other == [i \in 1 .. n |-> lb[i] + qb[i]]
             both == [i \in 1 .. n |-> own[i] + other[i]]
             one == [i \in 1 .. n |-> 1]
             ranks == [i \in DOMAIN a |-> MidRank(SortedUp(c), a[i])]
  <1>1. n \in Nat /\ DOMAIN a = 1 .. n /\ \A i \in 1 .. n : a[i] \in Nat
    OBVIOUS
  <1>2. c \in Seq(Nat) /\ \A i \in 1 .. n : i \in DOMAIN c /\ c[i] = a[i]
    <2>1. c \in Seq(Nat) /\ Len(c) = n + Len(b) /\ Len(b) \in Nat
      OBVIOUS
    <2>2. \A i \in 1 .. n : c[i] = a[i]
      OBVIOUS
    <2>3. DOMAIN c = 1 .. Len(c)
      BY <2>1
    <2> HIDE DEF c, n
    <2> QED BY <1>1, <2>1, <2>2, <2>3
  <1>3. /\ la \in Seq(Nat) /\ Len(la) = n /\ lb \in Seq(Nat) /\ Len(lb) = n
        /\ qa \in Seq(Nat) /\ Len(qa) = n /\ qb \in Seq(Nat) /\ Len(qb) = n
    BY PairsAreCounted
  <1>4. /\ \A i \in 1 .. n : la[i] = Cardinality(Below(a, a[i])) /\ qa[i] = Cardinality(UpTo(a, a[i]))
        /\ \A i \in 1 .. n : lb[i] = Cardinality(Below(b, a[i])) /\ qb[i] = Cardinality(UpTo(b, a[i]))
    BY <1>1, HitsOfBounds DEF Counts
  <1> HIDE DEF n, c, la, lb, qa, qb
  <1>5. \A i \in 1 .. n : la[i] \in Nat /\ lb[i] \in Nat /\ qa[i] \in Nat /\ qb[i] \in Nat
    <2>1. ASSUME NEW f \in Seq(Nat), Len(f) = n PROVE \A i \in 1 .. n : f[i] \in Nat
      BY <2>1
    <2> QED BY <1>3, <2>1
  <1>6. ASSUME NEW i \in 1 .. n
        PROVE  MidRank(SortedUp(c), a[i]) = ((la[i] + qa[i]) + (lb[i] + qb[i])) + 1
    <2>1. MidRank(SortedUp(c), a[i]) = Cardinality(Below(c, a[i])) + 1 + Cardinality(UpTo(c, a[i]))
      BY <1>2, RankOf
    <2>2. /\ Below(c, a[i]) = Hits(c, 0 .. a[i] - 1) /\ UpTo(c, a[i]) = Hits(c, 0 .. a[i])
          /\ Below(a, a[i]) = Hits(a, 0 .. a[i] - 1) /\ UpTo(a, a[i]) = Hits(a, 0 .. a[i])
          /\ Below(b, a[i]) = Hits(b, 0 .. a[i] - 1) /\ UpTo(b, a[i]) = Hits(b, 0 .. a[i])
      BY <1>1, <1>2, HitsOfBounds
    <2>3. Cardinality(Below(c, a[i])) = la[i] + lb[i]
      BY <1>4, <2>2, JoinedHits DEF c
    <2>4. Cardinality(UpTo(c, a[i])) = qa[i] + qb[i]
      BY <1>4, <2>2, JoinedHits DEF c
    <2>5. la[i] \in Nat /\ lb[i] \in Nat /\ qa[i] \in Nat /\ qb[i] \in Nat
      BY <1>5
    <2> DEFINE x == la[i]
               y == lb[i]
               u == qa[i]
               w == qb[i]
    <2>6. MidRank(SortedUp(c), a[i]) = (x + y) + 1 + (u + w)
      BY <2>1, <2>3, <2>4
    <2>7. x \in Nat /\ y \in Nat /\ u \in Nat /\ w \in Nat
      BY <2>5
    <2> HIDE DEF x, y, u, w
    <2>8. (x + y) + 1 + (u + w) = ((x + u) + (y + w)) + 1
      BY <2>7
    <2> QED BY <2>6, <2>8 DEF x, y, u, w
  <1>7. own \in [1 .. n -> Nat] /\ other \in [1 .. n -> Nat]
    BY <1>5
  <1>8. both \in [1 .. n -> Nat] /\ one \in [1 .. n -> Nat]
    <2> HIDE DEF own, other
    <2> QED BY <1>7
  <1>9. ranks = [i \in 1 .. n |-> both[i] + one[i]]
    BY <1>1, <1>6
  <1>10. ranks \in [1 .. n -> Nat]
    <2> HIDE DEF both, one, ranks
    <2> QED BY <1>8, <1>9
  <1>11. /\ own \in Seq(Nat) /\ Len(own) = n /\ other \in Seq(Nat) /\ Len(other) = n
         /\ both \in Seq(Nat) /\ Len(both) = n /\ one \in Seq(Nat) /\ Len(one) = n
         /\ ranks \in Seq(Nat) /\ Len(ranks) = n
    <2>1. ASSUME NEW f \in [1 .. n -> Nat] PROVE f \in Seq(Nat) /\ Len(f) = n
      BY <1>1
    <2> HIDE DEF own, other, both, one, ranks
    <2> QED BY <1>7, <1>8, <1>10, <2>1
  <1>12. /\ IsSum(own, la, qa) /\ IsSum(other, lb, qb) /\ IsSum(both, own, other)
    BY <1>3, <1>11 DEF IsSum
  <1>13. IsSum(ranks, both, one)
    <2> HIDE DEF both, one, ranks
    <2> QED BY <1>9, <1>11 DEF IsSum
  <1>14. SumSeq(one) = n
    <2>1. Within(one, 1, 1)
      BY DEF Within
    <2> HIDE DEF one
    <2>2. SumSeq(one) \in Nat /\ n * 1 <= SumSeq(one) /\ SumSeq(one) <= n * 1
      BY <1>11, <2>1, SumIsBounded
    <2> QED BY <1>1, <2>2
  <1> HIDE DEF own, other, both, one, ranks
  <1>15. /\ SumSeq(la) = Cardinality(PairsIn(a, a, L)) /\ SumSeq(qa) = Cardinality(PairsIn(a, a, Q))
         /\ SumSeq(lb) = Cardinality(PairsIn(a, b, L)) /\ SumSeq(qb) = Cardinality(PairsIn(a, b, Q))
         /\ SumSeq(la) \in Nat /\ SumSeq(qa) \in Nat /\ SumSeq(lb) \in Nat /\ SumSeq(qb) \in Nat
    BY PairsAreCounted DEF la, qa, lb, qb
  <1>16. SumSeq(own) = n * n
    <2>1. SumSeq(own) = SumSeq(la) + SumSeq(qa)
      BY <1>3, <1>11, <1>12, SumsAdd
    <2> QED BY <1>15, <2>1, PairsWithinOne DEF n
  <1>17. SumSeq(other) = SumSeq(lb) + SumSeq(qb)
    BY <1>3, <1>11, <1>12, SumsAdd
  <1>18. SumSeq(both) = SumSeq(own) + SumSeq(other)
    BY <1>11, <1>12, SumsAdd
  <1>19. SumSeq(ranks) = SumSeq(both) + SumSeq(one)
    BY <1>11, <1>13, SumsAdd
  <1>20. SumSeq(ranks) = n * n + n + SumSeq(lb) + SumSeq(qb)
    <2> DEFINE x == SumSeq(lb)
               y == SumSeq(qb)
               sq == n * n
    <2>1. SumSeq(ranks) = (sq + (x + y)) + n /\ x \in Nat /\ y \in Nat /\ sq \in Nat
      BY <1>1, <1>14, <1>15, <1>16, <1>17, <1>18, <1>19
    <2> HIDE DEF x, y, sq
    <2>2. (sq + (x + y)) + n = sq + n + x + y
      BY <1>1, <2>1
    <2> QED BY <2>1, <2>2 DEF x, y, sq
  <1> QED BY <1>15, <1>20 DEF ranks, n, c

\* The statistic of the rank-sum test counts the pairs the second sequence wins.
LEMMA RankSumCounts ==
  ASSUME NEW a \in Seq(Nat), NEW b \in Seq(Nat)
  PROVE  LET pairs == (DOMAIN a) \X (DOMAIN b)
         IN  RankSumU(a, b) = 2 * Cardinality({p \in pairs : a[p[1]] < b[p[2]]})
                              + Cardinality({p \in pairs : a[p[1]] = b[p[2]]})
  <1> DEFINE L == [i \in DOMAIN a |-> 0 .. a[i] - 1]
             Q == [i \in DOMAIN a |-> 0 .. a[i]]
             D == (DOMAIN a) \X (DOMAIN b)
             won == {p \in D : a[p[1]] < b[p[2]]}
             tie == {p \in D : a[p[1]] = b[p[2]]}
             lost == PairsIn(a, b, L)
             rest == PairsIn(a, b, Q)
             n1 == Len(a)
             n2 == Len(b)
  <1>1. /\ IsFiniteSet(lost) /\ Cardinality(lost) \in Nat
        /\ IsFiniteSet(rest) /\ Cardinality(rest) \in Nat
    BY PairsAreCounted
  <1>2. /\ IsFiniteSet(DOMAIN a) /\ Cardinality(DOMAIN a) = n1 /\ n1 \in Nat
        /\ IsFiniteSet(DOMAIN b) /\ Cardinality(DOMAIN b) = n2 /\ n2 \in Nat
    BY Places
  <1>3. IsFiniteSet(D) /\ Cardinality(D) = n1 * n2
    BY <1>2, FS_Product, ZenonT(60)
  <1>4. \A p \in D : a[p[1]] \in Nat /\ b[p[2]] \in Nat
    OBVIOUS
  <1>5. lost = {p \in D : b[p[2]] < a[p[1]]}
    BY <1>4, SMTT(30) DEF PairsIn
  <1>6. rest = {p \in D : b[p[2]] <= a[p[1]]}
    BY <1>4, SMTT(30) DEF PairsIn
  <1>7. SumSeq([i \in DOMAIN a |-> MidRank(SortedUp(a \o b), a[i])])
          = n1 * n1 + n1 + Cardinality(lost) + Cardinality(rest)
    BY RankSumOf
  <1>8. RankSumU(a, b) = 2 * n1 * n2 + n1 * (n1 + 1)
                         - SumSeq([i \in DOMAIN a |-> MidRank(SortedUp(a \o b), a[i])])
    BY DEF RankSumU
  <1>9. tie \subseteq D /\ lost \cap tie = {} /\ rest = lost \cup tie
    <2> HIDE DEF D, lost, rest
    <2>1. \A p \in D : b[p[2]] <= a[p[1]] <=> b[p[2]] < a[p[1]] \/ a[p[1]] = b[p[2]]
      BY <1>4
    <2>2. \A p \in D : ~(b[p[2]] < a[p[1]] /\ a[p[1]] = b[p[2]])
      BY <1>4
    <2> QED BY <1>5, <1>6, <2>1, <2>2, Zenon
  <1>10. won \cap rest = {} /\ D = won \cup rest /\ won \subseteq D
    <2> HIDE DEF D, rest
    <2>1. \A p \in D : b[p[2]] <= a[p[1]] <=> ~(a[p[1]] < b[p[2]])
      BY <1>4
    <2> QED BY <1>6, <2>1, Zenon
  <1> HIDE DEF D, won, tie, lost, rest, n1, n2
  <1>11. /\ IsFiniteSet(tie) /\ Cardinality(tie) \in Nat
         /\ IsFiniteSet(won) /\ Cardinality(won) \in Nat
    BY <1>3, <1>9, <1>10, FS_Subset, FS_CardinalityType
  <1>12. Cardinality(rest) = Cardinality(lost) + Cardinality(tie)
    <2>1. Cardinality(lost \cup tie) = Cardinality(lost) + Cardinality(tie) - Cardinality(lost \cap tie)
      BY <1>1, <1>11, FS_Union
    <2>2. Cardinality(lost \cap tie) = 0
      BY <1>9, FS_EmptySet
    <2>3. Cardinality(lost \cup tie) = Cardinality(lost) + Cardinality(tie)
      BY <1>1, <1>11, <2>1, <2>2
    <2> QED BY <1>9, <2>3
  <1>13. n1 * n2 = Cardinality(won) + Cardinality(rest)
    <2>1. Cardinality(won \cup rest) = Cardinality(won) + Cardinality(rest) - Cardinality(won \cap rest)
      BY <1>1, <1>11, FS_Union
    <2>2. Cardinality(won \cap rest) = 0
      BY <1>10, FS_EmptySet
    <2>3. Cardinality(won \cup rest) = Cardinality(won) + Cardinality(rest)
      BY <1>1, <1>11, <2>1, <2>2
    <2> QED BY <1>3, <1>10, <2>3
  <1>14. RankSumU(a, b) = 2 * Cardinality(won) + Cardinality(tie)
    <2> DEFINE w == Cardinality(won)
               t == Cardinality(tie)
               l == Cardinality(lost)
               nn == n1 * n2
               sq == n1 * n1
    <2>1. w \in Nat /\ t \in Nat /\ l \in Nat /\ nn \in Nat /\ sq \in Nat /\ n1 \in Nat
      BY <1>1, <1>2, <1>11
    <2>2. nn = w + (l + t)
      BY <1>12, <1>13
    <2>3. RankSumU(a, b) = 2 * n1 * n2 + n1 * (n1 + 1) - (sq + n1 + l + (l + t))
      BY <1>7, <1>8, <1>12
    <2>4. 2 * n1 * n2 = 2 * nn /\ n1 * (n1 + 1) = sq + n1
      BY <1>2
    <2> HIDE DEF w, t, l, nn, sq
    <2>5. 2 * nn + (sq + n1) - (sq + n1 + l + (l + t)) = 2 * w + t
      BY <2>1, <2>2
    <2>6. RankSumU(a, b) = 2 * w + t
      BY <2>3, <2>4, <2>5
    <2> QED BY <2>6 DEF w, t
  <1> QED BY <1>14 DEF won, tie, D

-----------------------------------------------------------------------------
(* Percentiles and rates                                                   *)

\* An ascending sequence.
Ascending(z) == \A i, j \in DOMAIN z : i <= j => z[i] <= z[j]

\* Sorting leaves an ascending sequence, whose ends enclose all values.
LEMMA SortedIsAscending ==
  ASSUME NEW t \in Seq(Nat), t # <<>>
  PROVE  /\ SortedUp(t) \in Seq(Nat) /\ Len(SortedUp(t)) = Len(t) /\ Len(t) \in Nat \ {0}
         /\ Ascending(SortedUp(t))
         /\ Within(t, SortedUp(t)[1], SortedUp(t)[Len(t)])
         /\ SortedUp(t)[1] \in {t[i] : i \in DOMAIN t}
  <1> DEFINE z == SortedUp(t)
             n == Len(t)
  <1>1. n \in Nat \ {0} /\ DOMAIN t = 1 .. n /\ \A i \in DOMAIN t : t[i] \in Nat
    OBVIOUS
  <1>2. z = [k \in 1 .. n |-> z[k]]
    BY <1>1 DEF SortedUp
  <1>3. \A k \in 1 .. n : z[k] \in Nat /\ z[k] \in {t[i] : i \in DOMAIN t}
    BY <1>1, OrderStatistic
  <1>4. \A k, l \in 1 .. n : k <= l => z[k] <= z[l]
    BY <1>1, OrderStatistic
  <1>5. Cardinality(From(t, z[1])) >= n - 1 + 1 /\ Cardinality(UpTo(t, z[n])) >= n
    <2>1. 1 \in DOMAIN t /\ n \in DOMAIN t
      BY <1>1
    <2> QED BY <2>1, OrderStatistic
  <1> HIDE DEF z, n
  <1>6. z \in [1 .. n -> Nat]
    BY <1>2, <1>3
  <1>7. z \in Seq(Nat) /\ Len(z) = n
    BY <1>1, <1>6
  <1>8. Ascending(z)
    BY <1>4, <1>6 DEF Ascending
  <1>9. /\ IsFiniteSet(DOMAIN t) /\ Cardinality(DOMAIN t) = n
        /\ From(t, z[1]) \in SUBSET DOMAIN t /\ UpTo(t, z[n]) \in SUBSET DOMAIN t
    BY Places DEF From, UpTo, n
  <1>10. /\ Cardinality(From(t, z[1])) \in Nat /\ Cardinality(From(t, z[1])) <= n
         /\ Cardinality(UpTo(t, z[n])) \in Nat /\ Cardinality(UpTo(t, z[n])) <= n
    BY <1>9, Places DEF n
  <1>11. Cardinality(From(t, z[1])) = n /\ Cardinality(UpTo(t, z[n])) = n
    BY <1>1, <1>5, <1>10
  <1>12. From(t, z[1]) = DOMAIN t /\ UpTo(t, z[n]) = DOMAIN t
    BY <1>9, <1>11, FS_Subset
  <1>13. 1 \in 1 .. n /\ n \in 1 .. n
    BY <1>1
  <1>14. Within(t, z[1], z[n])
    <2>1. z[1] \in Nat
      BY <1>3, <1>13
    <2>2. ASSUME NEW i \in DOMAIN t PROVE z[1] <= t[i] /\ t[i] <= z[n]
      <3>1. t[i] >= z[1] /\ t[i] <= z[n]
        BY <1>12 DEF From, UpTo
      <3> QED BY <1>1, <2>1, <3>1
    <2> QED BY <2>2 DEF Within
  <1> QED BY <1>1, <1>3, <1>7, <1>8, <1>13, <1>14 DEF z, n

\* The percentiles, in thousandths.
Permille == 0 .. 1000

\* The place after lo, if there is one.
After(z, lo) == IF lo + 1 > Len(z) - 1 THEN Len(z) - 1 ELSE lo + 1

\* The percentile p lies m thousandths of the way from one place to the next.
LiesAt(z, p, lo, m) ==
    LET v == calculate_percentile(z, p)
        x == z[lo + 1]
        y == z[After(z, lo) + 1]
    IN  /\ lo \in 0 .. Len(z) - 1 /\ m \in 0 .. 999 /\ p * (Len(z) - 1) = 1000 * lo + m
        /\ After(z, lo) \in 0 .. Len(z) - 1 /\ After(z, lo) <= lo + 1
        /\ x \in Nat /\ y \in Nat /\ x <= y
        /\ v \in Nat /\ v = 1000 * x + m * (y - x) /\ 1000 * x <= v /\ v <= 1000 * y

\* Every percentile of an ascending sequence has such a place.
LEMMA PercentileIsBetween ==
  ASSUME NEW z \in Seq(Nat), z # <<>>, Ascending(z), NEW p \in Permille
  PROVE  \E lo, m : LiesAt(z, p, lo, m)
  <1> DEFINE n == Len(z)
             last_ == n - 1
             r == p * (Len(z) - 1)
             lo == r \div 1000
             hi == After(z, lo)
             x == z[lo + 1]
             y == z[hi + 1]
             m == r % 1000
             v == calculate_percentile(z, p)
  <1>1. n \in Nat \ {0} /\ DOMAIN z = 1 .. n /\ (\A i \in DOMAIN z : z[i] \in Nat)
    OBVIOUS
  <1>2. v = 1000 * x + m * (y - x)
    BY DEF calculate_percentile, After
  <1>3. last_ \in Nat /\ n = last_ + 1
    BY <1>1
  <1>4. r = p * last_ /\ lo = r \div 1000 /\ hi = IF lo + 1 > last_ THEN last_ ELSE lo + 1
    BY DEF After
  <1> HIDE DEF v, n, last_, r, lo, hi
  <1>5. r \in Nat /\ r <= 1000 * last_
    <2>1. p * last_ <= 1000 * last_ /\ p * last_ \in Nat
      BY <1>3 DEF Permille
    <2> QED BY <1>4, <2>1
  <1>6. m \in 0 .. 999 /\ lo \in Nat /\ r = 1000 * lo + m
    <2>1. r % 1000 \in 0 .. 999 /\ r \div 1000 \in Nat /\ r = 1000 * (r \div 1000) + (r % 1000)
      BY <1>5
    <2> QED BY <1>4, <2>1
  <1> HIDE DEF m
  <1>7. lo <= last_
    BY <1>3, <1>5, <1>6
  <1>8. lo \in 0 .. last_ /\ hi \in 0 .. last_ /\ lo <= hi /\ hi <= lo + 1
    <2>1. hi = IF lo + 1 > last_ THEN last_ ELSE lo + 1
      BY <1>4
    <2>2. lo \in Nat
      BY <1>6
    <2> QED BY <1>3, <1>7, <2>1, <2>2
  <1>9. lo + 1 \in DOMAIN z /\ hi + 1 \in DOMAIN z /\ lo + 1 <= hi + 1
    BY <1>1, <1>3, <1>8
  <1>10. x \in Nat /\ y \in Nat /\ x <= y
    BY <1>1, <1>9 DEF Ascending
  <1> HIDE DEF x, y
  <1>11. y - x \in Nat /\ m * (y - x) <= 1000 * (y - x) /\ m * (y - x) \in Nat
    <2> DEFINE d == y - x
    <2>1. d \in Nat /\ m \in Nat /\ m <= 1000
      BY <1>6, <1>10
    <2> HIDE DEF d
    <2>2. m * d <= 1000 * d /\ m * d \in Nat
      BY <2>1
    <2> QED BY <2>1, <2>2 DEF d
  <1>12. v \in Nat /\ 1000 * x <= v /\ v <= 1000 * y
    <2> DEFINE d == y - x
               e == m * d
    <2>1. d \in Nat /\ e \in Nat /\ e <= 1000 * d /\ y = x + d /\ v = 1000 * x + e
      BY <1>2, <1>10, <1>11
    <2> HIDE DEF d, e
    <2> QED BY <1>10, <2>1
  <1>13. /\ lo \in 0 .. n - 1 /\ m \in 0 .. 999 /\ r = 1000 * lo + m
         /\ hi \in 0 .. n - 1 /\ hi <= lo + 1
         /\ x \in Nat /\ y \in Nat /\ x <= y
         /\ v \in Nat /\ v = 1000 * x + m * (y - x) /\ 1000 * x <= v /\ v <= 1000 * y
    <2>1. last_ = n - 1
      BY DEF last_
    <2> QED BY <1>2, <1>5, <1>6, <1>8, <1>10, <1>12, <2>1
  <1>14. LiesAt(z, p, lo, m)
    BY <1>13 DEF LiesAt, n, r, hi, x, y, v
  <1> QED BY <1>14

\* A higher percentile is not less.
LEMMA PercentileRises ==
  ASSUME NEW z \in Seq(Nat), z # <<>>, Ascending(z),
         NEW p \in Permille, NEW q \in Permille, p <= q
  PROVE  calculate_percentile(z, p) <= calculate_percentile(z, q)
  <1>1. Len(z) \in Nat \ {0} /\ DOMAIN z = 1 .. Len(z)
    OBVIOUS
  <1>2. PICK l, m : LiesAt(z, p, l, m)
    BY PercentileIsBetween
  <1>3. PICK k, o : LiesAt(z, q, k, o)
    BY PercentileIsBetween
  <1> DEFINE d == Len(z) - 1
             v == calculate_percentile(z, p)
             w == calculate_percentile(z, q)
             x == z[l + 1]
             y == z[After(z, l) + 1]
             xx == z[k + 1]
             yy == z[After(z, k) + 1]
             h == After(z, l)
  <1>4. /\ l \in 0 .. d /\ m \in 0 .. 999 /\ p * d = 1000 * l + m /\ h \in 0 .. d /\ h <= l + 1
        /\ x \in Nat /\ y \in Nat /\ x <= y
        /\ v \in Nat /\ v = 1000 * x + m * (y - x) /\ v <= 1000 * y
    BY <1>2 DEF LiesAt
  <1>5. /\ k \in 0 .. d /\ o \in 0 .. 999 /\ q * d = 1000 * k + o
        /\ xx \in Nat /\ yy \in Nat /\ xx <= yy
        /\ w \in Nat /\ w = 1000 * xx + o * (yy - xx) /\ 1000 * xx <= w
    BY <1>3 DEF LiesAt
  <1>6. d \in Nat /\ DOMAIN z = 1 .. d + 1
    BY <1>1
  <1>7. l = k => x = xx /\ y = yy
    OBVIOUS
  <1>8. h + 1 \in DOMAIN z /\ k + 1 \in DOMAIN z /\ h + 1 <= k + 1 => y <= xx
    BY DEF Ascending
  <1> HIDE DEF d, v, w, x, y, xx, yy, h
  <1>9. l < k \/ (l = k /\ m <= o)
    <2> DEFINE rp == p * d
               rq == q * d
    <2>1. rp <= rq
      BY <1>6 DEF Permille
    <2>2. /\ l \in Nat /\ k \in Nat /\ m \in 0 .. 999 /\ o \in 0 .. 999
          /\ rp = 1000 * l + m /\ rq = 1000 * k + o
      BY <1>4, <1>5, <1>6
    <2> HIDE DEF rp, rq
    <2>3. 1000 * l + m <= 1000 * k + o
      BY <2>1, <2>2
    <2> QED BY <2>2, <2>3
  <1>10. CASE l = k /\ m <= o
    <2> DEFINE e == y - x
    <2>1. e \in Nat /\ v = 1000 * x + m * e /\ w = 1000 * x + o * e
      BY <1>4, <1>5, <1>7, <1>10
    <2> HIDE DEF e
    <2>2. m * e <= o * e /\ m * e \in Nat /\ o * e \in Nat
      BY <1>4, <1>5, <1>10, <2>1
    <2>3. v <= w
      BY <1>4, <2>1, <2>2
    <2> QED BY <2>3 DEF v, w
  <1>11. CASE l < k
    <2>1. h + 1 \in 1 .. d + 1 /\ k + 1 \in 1 .. d + 1 /\ h + 1 <= k + 1
      BY <1>4, <1>5, <1>6, <1>11
    <2>2. y <= xx
      BY <1>6, <1>8, <2>1
    <2>3. /\ v \in Nat /\ y \in Nat /\ xx \in Nat /\ w \in Nat
          /\ v <= 1000 * y /\ 1000 * xx <= w
      BY <1>4, <1>5
    <2>4. v <= w
      <3> HIDE <1>4, <1>5, <1>9, <1>10
      <3> QED BY <2>2, <2>3
    <2> QED BY <2>4 DEF v, w
  <1> QED BY <1>9, <1>10, <1>11

\* All percentiles lie between the ends.
LEMMA PercentileIsWithin ==
  ASSUME NEW z \in Seq(Nat), z # <<>>, Ascending(z), NEW p \in Permille
  PROVE  /\ calculate_percentile(z, p) \in Nat
         /\ 1000 * z[1] <= calculate_percentile(z, p)
         /\ calculate_percentile(z, p) <= 1000 * z[Len(z)]
  <1>0. PICK i, m : LiesAt(z, p, i, m)
    BY PercentileIsBetween
  <1> DEFINE n == Len(z)
             v == calculate_percentile(z, p)
             j == After(z, i)
  <1>1. n \in Nat \ {0} /\ DOMAIN z = 1 .. n /\ \A k \in DOMAIN z : z[k] \in Nat
    OBVIOUS
  <1>2. /\ i \in 0 .. n - 1 /\ j \in 0 .. n - 1
        /\ v \in Nat /\ 1000 * z[i + 1] <= v /\ v <= 1000 * z[j + 1]
    BY <1>0 DEF LiesAt
  <1> HIDE DEF v, n, j
  <1>3. /\ 1 \in DOMAIN z /\ i + 1 \in DOMAIN z /\ j + 1 \in DOMAIN z /\ n \in DOMAIN z
        /\ 1 <= i + 1 /\ j + 1 <= n
    BY <1>1, <1>2
  <1>4. z[1] <= z[i + 1] /\ z[j + 1] <= z[n]
    BY <1>3 DEF Ascending
  <1> DEFINE a == z[1]
             b == z[i + 1]
             c == z[j + 1]
             d == z[n]
  <1>5. /\ a \in Nat /\ b \in Nat /\ c \in Nat /\ d \in Nat /\ a <= b /\ c <= d
        /\ v \in Nat /\ 1000 * b <= v /\ v <= 1000 * c
    BY <1>1, <1>2, <1>3, <1>4, SMTT(30)
  <1> HIDE DEF a, b, c, d
  <1>6. 1000 * a <= v /\ v <= 1000 * d
    BY <1>5
  <1> QED BY <1>5, <1>6 DEF v, n, a, d

\* What a quotient is.
LEMMA Quotient ==
  ASSUME NEW a \in Nat, NEW b \in Nat \ {0}
  PROVE  /\ a \div b \in Nat /\ (a \div b) * b <= a
         /\ \A q \in Nat : q * b <= a => q <= a \div b
  OBVIOUS

\* A longer frame time is not a higher rate.
LEMMA RateFalls ==
  ASSUME NEW x \in Nat \ {0}, NEW y \in Nat, x <= y
  PROVE  PerSecond(x) \in Nat /\ PerSecond(y) \in Nat /\ PerSecond(y) <= PerSecond(x)
  <1>1. y \in Nat \ {0} /\ PerSecond(x) = 1000000 \div x /\ PerSecond(y) = 1000000 \div y
    BY DEF PerSecond
  <1> DEFINE q == 1000000 \div y
  <1>2. q \in Nat /\ q * y <= 1000000
    BY <1>1, Quotient
  <1> HIDE DEF q
  <1>3. q * x <= q * y /\ q * x \in Nat /\ q * y \in Nat
    BY <1>2
  <1>4. q * x <= 1000000
    BY <1>2, <1>3
  <1>5. 1000000 \div x \in Nat /\ q <= 1000000 \div x
    BY <1>2, <1>4, Quotient
  <1> QED BY <1>1, <1>2, <1>5 DEF q

\* The times of n frames between a and b, and their mean rate between those of b and a.
TotalWithin(n, a, b, S) == n * a <= S /\ S <= n * b
MeanWithin(n, a, b, S) ==
    (1000 * n) \div S <= PerSecond(1000 * a) /\ PerSecond(1000 * b) <= (1000 * n) \div S

\* The mean rate of n frames lies between those of the longest and of the shortest.
LEMMA MeanRate ==
  ASSUME NEW n \in Nat \ {0}, NEW S \in Nat, NEW a \in Nat \ {0}, NEW b \in Nat,
         TotalWithin(n, a, b, S)
  PROVE  MeanWithin(n, a, b, S)
  <1>0. n * a <= S /\ S <= n * b
    BY DEF TotalWithin
  <1>1. n * a >= 1 /\ n * a \in Nat /\ n * b \in Nat
    OBVIOUS
  <1>2. S \in Nat \ {0} /\ b # 0
    BY <1>0, <1>1
  <1>3. (1000 * n) \div S <= PerSecond(1000 * a)
    <2> DEFINE q == (1000 * n) \div S
    <2>1. q \in Nat /\ q * S <= 1000 * n
      BY <1>2, Quotient
    <2> HIDE DEF q
    <2>2. q * (n * a) <= q * S /\ q * (n * a) \in Nat /\ q * S \in Nat
      BY <1>0, <1>1, <2>1
    <2>3. q * (n * a) = (q * a) * n /\ q * a \in Nat
      BY <2>1
    <2>4. (q * a) * n <= 1000 * n
      BY <2>1, <2>2, <2>3
    <2>5. q * a <= 1000
      <3> DEFINE w == q * a
      <3>1. w \in Nat /\ w * n <= 1000 * n
        BY <2>3, <2>4
      <3> HIDE DEF w
      <3>2. w <= 1000
        BY <3>1
      <3> QED BY <3>2 DEF w
    <2>6. q * (1000 * a) = 1000 * (q * a)
      BY <2>1
    <2>7. q * (1000 * a) <= 1000000
      BY <2>3, <2>5, <2>6
    <2>8. 1000 * a \in Nat \ {0}
      OBVIOUS
    <2>9. q <= 1000000 \div (1000 * a)
      BY <2>1, <2>7, <2>8, Quotient
    <2> QED BY <2>8, <2>9 DEF q, PerSecond
  <1>4. PerSecond(1000 * b) <= (1000 * n) \div S
    <2> DEFINE q == 1000000 \div (1000 * b)
    <2>1. 1000 * b \in Nat \ {0}
      BY <1>2
    <2>2. q \in Nat /\ q * (1000 * b) <= 1000000 /\ PerSecond(1000 * b) = q
      BY <2>1, Quotient DEF PerSecond
    <2> HIDE DEF q
    <2>3. q * (1000 * b) = 1000 * (q * b) /\ q * b \in Nat
      BY <2>2
    <2>4. q * b <= 1000
      BY <2>2, <2>3
    <2>5. q * (n * b) = (q * b) * n
      BY <2>2
    <2>6. (q * b) * n <= 1000 * n
      <3> DEFINE w == q * b
      <3>1. w \in Nat /\ w <= 1000
        BY <2>3, <2>4
      <3> HIDE DEF w
      <3>2. w * n <= 1000 * n
        BY <3>1
      <3> QED BY <3>2 DEF w
    <2>7. q * S <= q * (n * b) /\ q * S \in Nat /\ q * (n * b) \in Nat
      BY <1>0, <1>1, <2>2
    <2>8. q * S <= 1000 * n
      BY <2>5, <2>6, <2>7
    <2>9. 1000 * n \in Nat
      OBVIOUS
    <2>10. q <= (1000 * n) \div S
      <3> DEFINE K == 1000 * n
      <3>1. K \in Nat /\ q \in Nat /\ q * S <= K
        BY <2>2, <2>8, <2>9, SMTT(30)
      <3> HIDE DEF K
      <3>2. q <= K \div S
        BY <1>2, <3>1, Quotient, SMTT(30)
      <3> QED BY <3>2 DEF K
    <2> QED BY <2>2, <2>10
  <1> QED BY <1>3, <1>4 DEF MeanWithin

\* The figures of a capture are in order.
Ordered(m) ==
    /\ m.min_fps <= m.low01 /\ m.low01 <= m.low1
    /\ m.low1 <= PerSecond(m.p50) /\ PerSecond(m.p50) <= m.max_fps
    /\ m.min_fps <= m.avg_fps /\ m.avg_fps <= m.max_fps
    /\ m.stutter20 <= m.stutter15

\* A frame that stutters by the stricter measure does by the other.
LEMMA StuttersNest ==
  ASSUME NEW t \in Seq(Nat), SumSeq(t) \in Nat
  PROVE  Stutters(t, 20) <= Stutters(t, 15)
  <1> DEFINE X(h) == {i \in DOMAIN t : 10 * t[i] * Len(t) >= h * SumSeq(t)}
  <1>1. X(20) \in SUBSET X(15) /\ X(15) \in SUBSET DOMAIN t
    <2>1. 20 * SumSeq(t) >= 15 * SumSeq(t)
      OBVIOUS
    <2>2. \A i \in DOMAIN t : 10 * t[i] * Len(t) \in Nat
      OBVIOUS
    <2> QED BY <2>1, <2>2
  <1>2. IsFiniteSet(X(15))
    BY <1>1, Places
  <1> HIDE DEF X
  <1>3. Cardinality(X(20)) <= Cardinality(X(15))
    BY <1>1, <1>2, FS_Subset
  <1> QED BY <1>3 DEF X, Stutters

\* The figures of frame times that are all positive are in order.
LEMMA MetricsAreOrdered ==
  ASSUME NEW t \in Seq(Nat \ {0}), NEW warmup \in Nat, compute_metrics(t, warmup).ok
  PROVE  Ordered(compute_metrics(t, warmup)) /\ compute_metrics(t, warmup).low1 \in Nat
  <1> DEFINE m == compute_metrics(t, warmup)
             u == SubSeq(t, warmup + 1, Len(t))
             z == SortedUp(u)
             n == Len(u)
             pct(p) == calculate_percentile(z, p)
  <1>1. ~(Len(t) <= warmup)
    BY DEF compute_metrics, Failed
  <1>2. /\ m.avg_fps = (1000 * n) \div SumSeq(u)
        /\ m.max_fps = PerSecond(1000 * z[1]) /\ m.min_fps = PerSecond(1000 * z[Len(z)])
        /\ m.p50 = pct(500) /\ m.low1 = PerSecond(pct(990)) /\ m.low01 = PerSecond(pct(999))
        /\ m.stutter15 = Stutters(u, 15) /\ m.stutter20 = Stutters(u, 20)
    BY <1>1 DEF compute_metrics
  <1>3. u \in Seq(Nat) /\ u # <<>> /\ \A i \in DOMAIN u : u[i] \in Nat \ {0}
    <2>1. warmup + 1 \in 1 .. Len(t) /\ Len(t) \in 1 .. Len(t) /\ Len(t) \in Nat
      BY <1>1
    <2>2. u \in Seq(Nat \ {0}) /\ Len(u) = Len(t) - warmup
      BY <2>1
    <2> HIDE DEF u
    <2>3. u \in Seq(Nat) /\ \A i \in DOMAIN u : u[i] \in Nat \ {0}
      BY <2>2
    <2>4. u # <<>>
      BY <1>1, <2>1, <2>2
    <2> QED BY <2>3, <2>4
  <1> HIDE DEF u, m
  <1>4. /\ z \in Seq(Nat) /\ Len(z) = n /\ n \in Nat \ {0} /\ Ascending(z)
        /\ Within(u, z[1], z[n]) /\ z[1] \in {u[i] : i \in DOMAIN u}
    BY <1>3, SortedIsAscending
  <1>5. z[1] \in Nat \ {0}
    BY <1>3, <1>4
  <1> HIDE DEF z
  <1>6. z # <<>> /\ z[n] \in Nat
    BY <1>4
  <1> HIDE DEF n, pct
  <1>7. 500 \in Permille /\ 990 \in Permille /\ 999 \in Permille
    BY DEF Permille
  <1>8. \A p \in Permille : /\ pct(p) \in Nat /\ 1000 * z[1] <= pct(p) /\ pct(p) <= 1000 * z[n]
    BY <1>4, <1>6, PercentileIsWithin DEF pct
  <1>9. pct(500) <= pct(990) /\ pct(990) <= pct(999)
    BY <1>4, <1>6, <1>7, PercentileRises DEF pct
  <1>10. SumSeq(u) \in Nat /\ n * z[1] <= SumSeq(u) /\ SumSeq(u) <= n * z[n]
    <2>1. z[1] \in Nat
      BY <1>5
    <2> QED BY <1>3, <1>4, <1>6, <2>1, SumIsBounded DEF n
  <1> DEFINE a == z[1]
             b == z[n]
             f == 1000 * a
             l == 1000 * b
             p5 == pct(500)
             p9 == pct(990)
             pp == pct(999)
  <1>11. /\ f \in Nat \ {0} /\ l \in Nat /\ p5 \in Nat \ {0} /\ p9 \in Nat \ {0} /\ pp \in Nat \ {0}
         /\ f <= p5 /\ p5 <= p9 /\ p9 <= pp /\ pp <= l
    <2>1. p5 \in Nat /\ p9 \in Nat /\ pp \in Nat /\ f <= p5 /\ pp <= l
      BY <1>7, <1>8
    <2>2. f \in Nat /\ f # 0 /\ l \in Nat
      BY <1>5, <1>6
    <2>3. p5 <= p9 /\ p9 <= pp
      BY <1>9
    <2> HIDE DEF f, l, p5, p9, pp
    <2> QED BY <2>1, <2>2, <2>3
  <1>12. /\ (1000 * n) \div SumSeq(u) <= PerSecond(f) /\ PerSecond(l) <= (1000 * n) \div SumSeq(u)
    <2>1. a \in Nat \ {0} /\ b \in Nat /\ n * a <= SumSeq(u) /\ SumSeq(u) <= n * b
      BY <1>5, <1>6, <1>10
    <2> DEFINE S == SumSeq(u)
    <2>2. S \in Nat /\ n * a <= S /\ S <= n * b /\ n \in Nat \ {0}
      BY <1>4, <1>10
    <2> HIDE DEF a, b, S
    <2>3. TotalWithin(n, a, b, S)
      BY <2>2 DEF TotalWithin
    <2>4. MeanWithin(n, a, b, S)
      BY <2>1, <2>2, <2>3, MeanRate
    <2> QED BY <2>4 DEF S, MeanWithin
  <1>13. m.max_fps = PerSecond(f) /\ m.min_fps = PerSecond(l) /\ m.p50 = p5
         /\ m.low1 = PerSecond(p9) /\ m.low01 = PerSecond(pp)
    BY <1>2, <1>4
  <1> HIDE DEF f, l, p5, p9, pp
  <1>14. /\ PerSecond(p5) <= PerSecond(f) /\ PerSecond(p9) <= PerSecond(p5)
         /\ PerSecond(pp) <= PerSecond(p9) /\ PerSecond(l) <= PerSecond(pp)
         /\ PerSecond(p9) \in Nat
    BY <1>11, RateFalls
  <1>15. m.stutter20 <= m.stutter15
    BY <1>2, <1>3, <1>10, StuttersNest
  <1>16. m.min_fps <= m.avg_fps /\ m.avg_fps <= m.max_fps
    BY <1>2, <1>12, <1>13
  <1>17. Ordered(m) /\ m.low1 \in Nat
    BY <1>13, <1>14, <1>15, <1>16 DEF Ordered
  <1> QED BY <1>17 DEF m

-----------------------------------------------------------------------------
(* The inductive invariant                                                 *)

\* From the start of a capture to its metrics.
Capturing == {"sleep", "stop", "close", "end", "join"}

\* The worker of a capture that nobody has stopped yet ends only when its session is gone
\* or its trace failed, when it is opened or later; only then is is_active lowered.
\* Sessions of earlier captures are left only after such a failure.
CaptureInv ==
    /\ pc \notin Capturing => worker \in {"none", "ending", "ended"} /\ kernel \subseteq failed
    /\ pc \in Capturing \ {"join"} => kernel \subseteq failed \cup {Name}
    /\ pc = "join" => kernel \subseteq failed
    /\ pc = "sleep" =>
         /\ ~closed /\ worker # "none"
         /\ worker \in {"ending", "ended"} => Name \notin kernel \/ Name \in failed
         /\ ~active => worker = "ended"

\* A frame of the target process, or of any if there is none, under a side's settings.
FrameOf(f, s) ==
    /\ f.under = s
    /\ Target # None => f.from = Target /\ f.to = Target

\* The frames of the running capture are of its side, and so are those of the trials.
FrameInv ==
    /\ pc \in Capturing \cup {"start", "metrics"} => profile = side
    /\ pc \in Capturing \cup {"apply", "start", "metrics"} => mode = "live"
    /\ pc = "idle" => mode = "none"
    /\ pc = "synthetic" => mode = "synthetic"
    /\ Target # None => last \in {None, Target}
    /\ pc \in Capturing \cup {"metrics"} => \A i \in DOMAIN frames : FrameOf(frames[i], side)
    /\ FramesBelongToTheirTrial

\* A sequence over some set.
IsSeq(s) == \E S : s \in Seq(S)

\* The trials that are through.
TrialInv ==
    /\ runs = [s \in Sides |-> runs[s]]
    /\ \A s \in Sides : IsSeq(runs[s])
    /\ IsSeq(frames)
    /\ pc \in {"idle"} => \A s \in Sides : runs[s] = <<>>
    /\ pc \in Capturing \cup {"apply", "start", "metrics"} =>
         /\ Len(runs["A"]) = IF side = "A" THEN trial - 1 ELSE trial
         /\ Len(runs["B"]) = trial - 1
    /\ pc = "synthetic" =>
         Len(runs["A"]) = Len(runs["B"]) /\ Len(runs["A"]) < FixtureTrials

\* Recorded frames take time, and the figures of the trials are what they should be.
LowInv ==
    /\ \A i \in DOMAIN frames : frames[i].ms \in Nat \ {0}
    /\ \A s \in Sides : \A i \in DOMAIN runs[s] : runs[s][i].low \in Nat
    /\ mode = "live" =>
         \A s \in Sides : \A i \in DOMAIN runs[s] : Ordered(runs[s][i].all)

BenchmarkInv == TypeOK /\ CaptureInv /\ FrameInv /\ TrialInv /\ LowInv

-----------------------------------------------------------------------------
(* Every step keeps it                                                   *)

\* A sequence that is appended to.
LEMMA AppendAny ==
  ASSUME NEW s, IsSeq(s), NEW e
  PROVE  /\ IsSeq(Append(s, e)) /\ Len(s) \in Nat
         /\ DOMAIN s = 1 .. Len(s) /\ DOMAIN Append(s, e) = 1 .. Len(s) + 1
         /\ Len(Append(s, e)) = Len(s) + 1
         /\ \A i \in DOMAIN s : Append(s, e)[i] = s[i]
         /\ Append(s, e)[Len(s) + 1] = e
  <1>1. PICK S : s \in Seq(S)
    BY DEF IsSeq
  <1> DEFINE T == S \cup {e}
  <1>2. s \in Seq(T) /\ e \in T
    BY <1>1
  <1> HIDE DEF T
  <1>3. Append(s, e) \in Seq(T)
    BY <1>2
  <1> QED BY <1>2, <1>3 DEF IsSeq

\* The empty sequence is one.
LEMMA EmptyAny == IsSeq(<<>>)
  <1>1. <<>> \in Seq({})
    OBVIOUS
  <1> QED BY <1>1 DEF IsSeq

\* Neither bound on the trials is above the higher one.
LEMMA HigherBound ==
  /\ Max({Trials, FixtureTrials}) \in Nat
  /\ Trials <= Max({Trials, FixtureTrials}) /\ FixtureTrials <= Max({Trials, FixtureTrials})
  <1> USE BenchmarkAssumption
  <1>1. \E x \in {Trials, FixtureTrials} : \A y \in {Trials, FixtureTrials} : x >= y
    <2>1. CASE Trials >= FixtureTrials
      BY <2>1
    <2>2. CASE FixtureTrials >= Trials
      BY <2>2
    <2> QED BY <2>1, <2>2
  <1>2. /\ Max({Trials, FixtureTrials}) \in {Trials, FixtureTrials}
        /\ \A y \in {Trials, FixtureTrials} : Max({Trials, FixtureTrials}) >= y
    BY <1>1 DEF Max
  <1> QED BY <1>2

\* Whatever the statistics say, the comparison ends in one of the verdicts.
LEMMA ComparedVerdict == Compare => verdict' \in Verdicts
  BY DEF Compare, compare_ab_trials, Verdicts

\* The side's runs gain r.
Added(r) == runs' = [runs EXCEPT ![side] = Append(@, r)]

\* What that means for both sides.
LEMMA AddedFacts ==
  ASSUME runs = [s \in Sides |-> runs[s]], \A s \in Sides : IsSeq(runs[s]),
         side \in Sides, NEW r, Added(r)
  PROVE  /\ runs'[side] = Append(runs[side], r)
         /\ \A s \in Sides \ {side} : runs'[s] = runs[s]
         /\ runs' = [s \in Sides |-> runs'[s]]
         /\ IsSeq(runs'[side])
         /\ Len(runs[side]) \in Nat /\ Len(runs'[side]) = Len(runs[side]) + 1
  <1>1. /\ runs'[side] = Append(runs[side], r)
        /\ \A s \in Sides \ {side} : runs'[s] = runs[s]
        /\ runs' = [s \in Sides |-> runs'[s]]
    BY DEF Added
  <1> QED BY <1>1, AppendAny

\* What a trial's metrics add to the runs, and where the benchmark goes from there.
LEMMA MetricsFacts ==
  ASSUME TakeMetrics, TypeOK
  PROVE  /\ pc = "metrics" /\ UNCHANGED <<mode, profile, kernel, engine, failed>>
         /\ \/ /\ pc' = "done" /\ verdict' = "error"
               /\ UNCHANGED <<trial, side, runs>>
            \/ /\ \E r : r.of = frames /\ Added(r)
               /\ \/ /\ pc' = "done" /\ verdict' \in Verdicts /\ side = "B"
                     /\ UNCHANGED <<trial, side>>
                  \/ /\ pc' = "apply" /\ UNCHANGED verdict
                     /\ side' = (IF side = "A" THEN "B" ELSE "A")
                     /\ trial' = IF side = "B" THEN trial + 1 ELSE trial
                     /\ side = "B" => trial < Trials
  <1> USE BenchmarkAssumption
  <1> DEFINE m == compute_metrics(Millis(frames), Warmup)
             r == [avg |-> m.avg_fps, low |-> m.low1, all |-> m, of |-> frames]
  <1>1. /\ pc = "metrics" /\ UNCHANGED <<mode, profile, kernel, engine, failed>>
        /\ IF ~m.ok
           THEN pc' = "done" /\ verdict' = "error" /\ UNCHANGED <<trial, side, runs>>
           ELSE /\ Added(r)
                /\ IF Name = <<"B", Trials>>
                   THEN pc' = "done" /\ Compare /\ UNCHANGED <<trial, side>>
                   ELSE /\ pc' = "apply" /\ UNCHANGED verdict
                        /\ side' = (IF side = "A" THEN "B" ELSE "A")
                        /\ trial' = IF side = "B" THEN trial + 1 ELSE trial
    BY DEF TakeMetrics, Metrics, Added
  <1>2. r.of = frames
    OBVIOUS
  <1> HIDE DEF m, r
  <1>3. CASE ~m.ok
    BY <1>1, <1>3
  <1>4. CASE m.ok /\ Name = <<"B", Trials>>
    <2>1. side = "B"
      BY <1>4 DEF Name
    <2> QED BY <1>1, <1>2, <1>4, <2>1, ComparedVerdict
  <1>5. CASE m.ok /\ Name # <<"B", Trials>>
    <2>1. side = "B" => trial < Trials
      BY <1>5 DEF Name, TypeOK
    <2> QED BY <1>1, <1>2, <1>5, <2>1
  <1> QED BY <1>3, <1>4, <1>5

\* A present records at most one frame, between the last present of a process and this one.
LEMMA CallbackFacts ==
  ASSUME NEW p, NEW ms, Callback(p, ms)
  PROVE  /\ worker = "tracing" /\ ~closed /\ Target \in {None, p} /\ last' = p
         /\ UNCHANGED <<pc, place, kernel, active, recording, session, handle, closed, worker,
                        runs, verdict, failed>>
         /\ \/ frames' = frames
            \/ /\ last # None /\ Len(frames) < MaxFrames /\ ms \in Nat \ {0}
               /\ frames' =
                    Append(frames, [ms |-> ms, from |-> last, to |-> p, under |-> profile])
  <1> DEFINE f == [ms |-> ms, from |-> last, to |-> p, under |-> profile]
             range == 1 .. 4999
             rec == recording
  <1>1. /\ worker = "tracing" /\ ~closed /\ Target \in {None, p} /\ last' = p
        /\ frames' = IF last # None /\ rec /\ ms \in range /\ Len(frames) < MaxFrames
                     THEN Append(frames, f) ELSE frames
        /\ UNCHANGED <<pc, place, kernel, active, recording, session, handle, closed, worker,
                       runs, verdict, failed>>
    BY DEF Callback
  <1>2. ms \in range => ms \in Nat \ {0}
    BY SMTT(30)
  <1> HIDE DEF range, f, rec
  <1>3. \/ frames' = frames
        \/ /\ last # None /\ Len(frames) < MaxFrames /\ ms \in Nat \ {0}
           /\ frames' = Append(frames, f)
    BY <1>1, <1>2, Zenon
  <1> QED BY <1>1, <1>3, Zenon DEF f

\* The types without the lengths of the sequences.
PlainTypes ==
    /\ pc \in {"idle", "apply", "start", "sleep", "stop", "close", "end", "join",
               "metrics", "synthetic", "done"}
    /\ mode \in {"none", "live", "synthetic"}
    /\ trial \in 1 .. Trials /\ side \in Sides /\ profile \in Sides
    /\ kernel \subseteq Names /\ failed \subseteq Names
    /\ active \in BOOLEAN /\ recording \in BOOLEAN /\ session \in BOOLEAN
    /\ handle \in BOOLEAN /\ closed \in BOOLEAN
    /\ worker \in {"none", "opening", "storing", "tracing", "ending", "ended"}
    /\ last \in Pids \cup {None}
    /\ verdict \in Verdicts

\* The lengths of the sequences.
Lengths ==
    /\ Len(frames) <= MaxFrames
    /\ \A s \in Sides : Len(runs[s]) <= Max({Trials, FixtureTrials})

\* No capture and no benchmark outgrows its bound.
LEMMA LengthStep ==
  ASSUME TypeOK, PlainTypes, Lengths, TrialInv, [Next]_vars PROVE Lengths'
  <1> USE BenchmarkAssumption DEF PlainTypes, Lengths, Goto, engine, place
  <1>1. CASE RunLive
    BY <1>1 DEF RunLive
  <1>2. CASE Again
    BY <1>2, HigherBound DEF Again
  <1>3. CASE ApplyState
    BY <1>3 DEF ApplyState
  <1>4. CASE StartCapture
    <2>1. Len(frames') = 0 /\ runs' = runs
      BY <1>4 DEF StartCapture
    <2>2. Len(frames') <= MaxFrames
      BY <2>1
    <2> HIDE DEF PlainTypes
    <2> QED BY <2>1, <2>2
  <1>5. CASE StopCapture
    BY <1>5 DEF StopCapture
  <1>6. CASE StopCollector \/ CloseTrace
    BY <1>6 DEF StopCollector, CloseTrace
  <1>7. CASE StopSession
    BY <1>7 DEF StopSession
  <1>8. CASE JoinWorker
    BY <1>8 DEF JoinWorker
  <1>9. CASE TakeMetrics
    <2> HIDE DEF Lengths
    <2>1. frames' = frames
      BY <1>9, MetricsFacts DEF engine
    <2>2. \A s \in Sides : Len(runs'[s]) <= Max({Trials, FixtureTrials})
      <3> SUFFICES ASSUME NEW s \in Sides PROVE Len(runs'[s]) <= Max({Trials, FixtureTrials})
        OBVIOUS
      <3>1. CASE runs' = runs
        BY <3>1 DEF Lengths
      <3>2. CASE \E r : Added(r)
        <4>1. PICK r : Added(r)
          BY <3>2
        <4>2. CASE s = side
          <5>1. Len(runs'[s]) = Len(runs[s]) + 1 /\ Len(runs[s]) \in Nat
            BY <4>1, <4>2, AddedFacts DEF TrialInv
          <5>2. pc = "metrics"
            BY <1>9, MetricsFacts
          <5>3. Len(runs[s]) = trial - 1
            BY <4>2, <5>2 DEF TrialInv, Sides
          <5> QED BY <5>1, <5>3, HigherBound
        <4>3. CASE s # side
          BY <4>1, <4>3, AddedFacts DEF TrialInv, Lengths
        <4> QED BY <4>2, <4>3
      <3>3. runs' = runs \/ \E r : Added(r)
        BY <1>9, MetricsFacts
      <3> QED BY <3>1, <3>2, <3>3
    <2> QED BY <2>1, <2>2 DEF Lengths
  <1>10. CASE OpenTrace
    BY <1>10 DEF OpenTrace
  <1>11. CASE StoreHandle
    BY <1>11 DEF StoreHandle
  <1>12. CASE TraceReturns \/ TraceFails \/ WorkerEnds
    BY <1>12 DEF TraceReturns, TraceFails, WorkerEnds
  <1>13. ASSUME NEW p \in Pids, NEW ms \in Gaps, Callback(p, ms) PROVE Lengths'
    <2>1. /\ runs' = runs
          /\ \/ frames' = frames
             \/ Len(frames) < MaxFrames /\ \E f : frames' = Append(frames, f)
      BY <1>13, CallbackFacts
    <2>2. CASE frames' = frames
      BY <2>1, <2>2
    <2>3. CASE Len(frames) < MaxFrames /\ \E f : frames' = Append(frames, f)
      <3>1. Len(frames') = Len(frames) + 1 /\ Len(frames) \in Nat
        BY <2>3, AppendAny DEF TrialInv
      <3>2. Len(frames') <= MaxFrames
        BY <2>3, <3>1
      <3> QED BY <2>1, <3>2
    <2> QED BY <2>1, <2>2, <2>3
  <1>14. CASE Stolen
    BY <1>14 DEF Stolen
  <1>15. CASE RunSynthetic
    BY <1>15 DEF RunSynthetic
  <1>16. ASSUME NEW a \in Outcomes, NEW b \in Outcomes, SyntheticPair(a, b) PROVE Lengths'
    <2>1. /\ frames' = frames /\ Len(runs["A"]) < FixtureTrials
          /\ Len(runs["B"]) = Len(runs["A"])
      BY <1>16 DEF SyntheticPair, TrialInv
    <2>2. PICK x, y : runs' = [A |-> Append(runs["A"], x), B |-> Append(runs["B"], y)]
      BY <1>16 DEF SyntheticPair
    <2>3. \A s \in Sides : Len(runs'[s]) = Len(runs[s]) + 1 /\ Len(runs[s]) \in Nat
      <3>1. /\ runs'["A"] = Append(runs["A"], x) /\ runs'["B"] = Append(runs["B"], y)
            /\ IsSeq(runs["A"]) /\ IsSeq(runs["B"])
        BY <2>2 DEF TrialInv, Sides
      <3>2. /\ Len(runs'["A"]) = Len(runs["A"]) + 1 /\ Len(runs["A"]) \in Nat
            /\ Len(runs'["B"]) = Len(runs["B"]) + 1 /\ Len(runs["B"]) \in Nat
        BY <3>1, AppendAny
      <3> QED BY <3>2 DEF Sides
    <2> QED BY <2>1, <2>3, HigherBound, SMTT(60) DEF Sides
  <1>17. CASE SyntheticFails
    BY <1>17 DEF SyntheticFails
  <1>18. CASE UNCHANGED vars
    BY <1>18 DEF vars
  <1> QED
    BY <1>1, <1>2, <1>3, <1>4, <1>5, <1>6, <1>7, <1>8, <1>9, <1>10, <1>11, <1>12, <1>13,
       <1>14, <1>15, <1>16, <1>17, <1>18
    DEF Next, LiveNext, FixtureNext, Runner, Worker

\* The types are kept.
LEMMA PlainStep ==
  ASSUME TypeOK, PlainTypes, [Next]_vars PROVE PlainTypes'
  <1> USE BenchmarkAssumption DEF PlainTypes, Goto, engine, place
  <1>1. CASE RunLive
    BY <1>1 DEF RunLive, Sides, Verdicts
  <1>2. CASE Again
    <2>1. /\ profile' \in Sides /\ side' \in Sides /\ trial' \in 1 .. Trials
          /\ verdict' \in Verdicts /\ mode' = "none" /\ pc' = "idle" /\ worker' = "none"
          /\ last' = None /\ kernel' = kernel /\ failed' = failed
      BY <1>2 DEF Again, Sides, Verdicts
    <2>2. /\ recording' = FALSE /\ session' = FALSE /\ handle' = FALSE
          /\ closed' = FALSE /\ active' = FALSE
      BY <1>2 DEF Again
    <2> QED BY <2>1, <2>2
  <1>3. CASE ApplyState
    BY <1>3 DEF ApplyState, Verdicts
  <1>4. CASE StartCapture
    <2>1. Name \in Names
      BY DEF Name, Names
    <2>2. kernel' \subseteq Names /\ failed' \subseteq Names /\ verdict' \in Verdicts
      BY <1>4, <2>1 DEF StartCapture, Verdicts
    <2>3. /\ active' \in BOOLEAN /\ recording' \in BOOLEAN /\ session' \in BOOLEAN
          /\ handle' \in BOOLEAN /\ closed' \in BOOLEAN
          /\ worker' \in {"none", "opening"} /\ last' = None
      BY <1>4 DEF StartCapture
    <2>4. pc' \in {"sleep", "done"} /\ UNCHANGED <<mode, trial, side, profile>>
      BY <1>4 DEF StartCapture
    <2> QED BY <2>2, <2>3, <2>4
  <1>5. CASE StopCapture
    BY <1>5 DEF StopCapture
  <1>6. CASE StopCollector \/ CloseTrace
    BY <1>6, ZenonT(60) DEF StopCollector, CloseTrace
  <1>7. CASE StopSession
    BY <1>7 DEF StopSession
  <1>8. CASE JoinWorker
    BY <1>8 DEF JoinWorker
  <1>9. CASE TakeMetrics
    <2>1. /\ UNCHANGED <<mode, profile, kernel, engine, failed>>
          /\ pc' \in {"done", "apply"} /\ verdict' \in Verdicts
          /\ trial' \in 1 .. Trials /\ side' \in Sides
      BY <1>9, MetricsFacts DEF Sides, Verdicts
    <2> QED BY <2>1
  <1>10. CASE OpenTrace
    <2>1. Name \in Names
      BY DEF Name, Names
    <2> QED BY <1>10, <2>1 DEF OpenTrace
  <1>11. CASE StoreHandle
    BY <1>11 DEF StoreHandle
  <1>12. CASE TraceReturns \/ TraceFails \/ WorkerEnds
    <2>1. CASE TraceReturns \/ WorkerEnds
      BY <2>1, ZenonT(60) DEF TraceReturns, WorkerEnds
    <2>2. CASE TraceFails
      <3>1. Name \in Names
        BY DEF Name, Names
      <3> QED BY <2>2, <3>1 DEF TraceFails
    <2> QED BY <1>12, <2>1, <2>2
  <1>13. ASSUME NEW p \in Pids, NEW ms \in Gaps, Callback(p, ms) PROVE PlainTypes'
    BY <1>13 DEF Callback
  <1>14. CASE Stolen
    BY <1>14 DEF Stolen
  <1>15. CASE RunSynthetic
    BY <1>15 DEF RunSynthetic
  <1>16. ASSUME NEW a \in Outcomes, NEW b \in Outcomes, SyntheticPair(a, b) PROVE PlainTypes'
    <2>1. UNCHANGED <<place, kernel, engine, failed>> /\ pc' \in {"synthetic", "done"}
      BY <1>16 DEF SyntheticPair
    <2>2. verdict' \in Verdicts
      BY <1>16, ComparedVerdict DEF SyntheticPair
    <2> QED BY <2>1, <2>2
  <1>17. CASE SyntheticFails
    BY <1>17 DEF SyntheticFails, Verdicts
  <1>18. CASE UNCHANGED vars
    BY <1>18 DEF vars
  <1> QED
    BY <1>1, <1>2, <1>3, <1>4, <1>5, <1>6, <1>7, <1>8, <1>9, <1>10, <1>11, <1>12, <1>13,
       <1>14, <1>15, <1>16, <1>17, <1>18
    DEF Next, LiveNext, FixtureNext, Runner, Worker

\* Both together are the types.
LEMMA TypeStep ==
  ASSUME TypeOK, TrialInv, [Next]_vars PROVE TypeOK'
  <1>1. PlainTypes /\ Lengths
    BY DEF TypeOK, PlainTypes, Lengths
  <1>2. PlainTypes' /\ Lengths'
    BY <1>1, LengthStep, PlainStep
  <1> QED BY <1>2 DEF TypeOK, PlainTypes, Lengths

\* A capture that is stopped takes its worker and its session with it.
LEMMA CaptureStep ==
  ASSUME TypeOK, CaptureInv, [Next]_vars PROVE CaptureInv'
  <1> USE BenchmarkAssumption DEF TypeOK, CaptureInv, Capturing, Name, Goto, engine, place
  <1>1. CASE RunLive
    BY <1>1 DEF RunLive
  <1>2. CASE Again
    BY <1>2 DEF Again
  <1>3. CASE ApplyState
    BY <1>3 DEF ApplyState
  <1>4. CASE StartCapture
    BY <1>4 DEF StartCapture
  <1>5. CASE StopCapture
    BY <1>5 DEF StopCapture
  <1>6. CASE StopCollector \/ CloseTrace
    BY <1>6 DEF StopCollector, CloseTrace
  <1>7. CASE StopSession
    BY <1>7 DEF StopSession
  <1>8. CASE JoinWorker
    BY <1>8 DEF JoinWorker
  <1>9. CASE TakeMetrics
    <2>1. pc = "metrics" /\ pc' \in {"done", "apply"} /\ UNCHANGED <<kernel, failed, worker>>
      BY <1>9, MetricsFacts
    <2> QED BY <2>1
  <1>10. CASE OpenTrace
    BY <1>10 DEF OpenTrace
  <1>11. CASE StoreHandle
    BY <1>11 DEF StoreHandle
  <1>12. CASE TraceReturns \/ TraceFails \/ WorkerEnds
    BY <1>12 DEF TraceReturns, TraceFails, WorkerEnds
  <1>13. ASSUME NEW p \in Pids, NEW ms \in Gaps, Callback(p, ms) PROVE CaptureInv'
    BY <1>13 DEF Callback
  <1>14. CASE Stolen
    BY <1>14 DEF Stolen
  <1>15. CASE RunSynthetic
    BY <1>15 DEF RunSynthetic
  <1>16. ASSUME NEW a \in Outcomes, NEW b \in Outcomes, SyntheticPair(a, b) PROVE CaptureInv'
    BY <1>16 DEF SyntheticPair
  <1>17. CASE SyntheticFails
    BY <1>17 DEF SyntheticFails
  <1>18. CASE UNCHANGED vars
    BY <1>18 DEF vars
  <1> QED
    BY <1>1, <1>2, <1>3, <1>4, <1>5, <1>6, <1>7, <1>8, <1>9, <1>10, <1>11, <1>12, <1>13,
       <1>14, <1>15, <1>16, <1>17, <1>18
    DEF Next, LiveNext, FixtureNext, Runner, Worker

\* A frame is recorded in the trial that the metrics take it for.
LEMMA FrameStep ==
  ASSUME TypeOK, CaptureInv, FrameInv, TrialInv, [Next]_vars PROVE FrameInv'
  <1> USE BenchmarkAssumption DEF TypeOK, FrameInv, FramesBelongToTheirTrial, Capturing,
      Sides, Goto, engine, place
  <1>1. CASE RunLive
    <2>1. \A s \in Sides : runs'[s] = <<>>
      BY <1>1 DEF RunLive, TrialInv
    <2> QED BY <1>1, <2>1 DEF RunLive
  <1>2. CASE Again
    <2>1. \A s \in Sides : runs'[s] = <<>>
      BY <1>2 DEF Again
    <2> QED BY <1>2, <2>1 DEF Again
  <1>3. CASE ApplyState
    BY <1>3 DEF ApplyState
  <1>4. CASE StartCapture
    BY <1>4 DEF StartCapture
  <1>5. CASE StopCapture
    BY <1>5 DEF StopCapture
  <1>6. CASE StopCollector \/ CloseTrace
    BY <1>6 DEF StopCollector, CloseTrace
  <1>7. CASE StopSession
    BY <1>7 DEF StopSession
  <1>8. CASE JoinWorker
    BY <1>8 DEF JoinWorker
  <1>9. CASE TakeMetrics
    <2>1. /\ pc = "metrics" /\ pc' \in {"done", "apply"}
          /\ UNCHANGED <<mode, profile, frames, last>>
      BY <1>9, MetricsFacts
    <2>2. FramesBelongToTheirTrial'
      <3> SUFFICES ASSUME NEW s \in Sides, NEW i \in DOMAIN runs'[s],
                          NEW f \in Range(runs'[s][i].of)
                   PROVE  FrameOf(f, s)
        BY DEF FrameOf
      <3>1. CASE runs'[s] = runs[s]
        BY <2>1, <3>1 DEF FrameOf
      <3>2. CASE s = side /\ \E r : r.of = frames /\ runs'[s] = Append(runs[s], r)
        <4>1. PICK r : r.of = frames /\ runs'[s] = Append(runs[s], r)
          BY <3>2
        <4>2. CASE i \in DOMAIN runs[s]
          <5>1. runs'[s][i] = runs[s][i]
            BY <4>1, <4>2, AppendAny DEF TrialInv
          <5> QED BY <2>1, <4>2, <5>1 DEF FrameOf
        <4>3. CASE i \notin DOMAIN runs[s]
          <5>1. runs'[s][i].of = frames
            BY <4>1, <4>3, AppendAny DEF TrialInv
          <5>2. PICK j \in DOMAIN frames : f = frames[j]
            BY <5>1 DEF Range
          <5> QED BY <2>1, <3>2, <5>2
        <4> QED BY <4>2, <4>3
      <3>3. CASE \E r : r.of = frames /\ Added(r)
        <4>1. PICK r : r.of = frames /\ Added(r)
          BY <3>3
        <4>2. /\ runs'[side] = Append(runs[side], r)
              /\ \A q \in Sides \ {side} : runs'[q] = runs[q]
          BY <4>1, AddedFacts DEF TrialInv
        <4> QED BY <3>1, <3>2, <4>1, <4>2
      <3> QED BY <1>9, <3>1, <3>3, MetricsFacts
    <2> HIDE DEF FramesBelongToTheirTrial
    <2> QED BY <2>1, <2>2
  <1>10. CASE OpenTrace
    BY <1>10 DEF OpenTrace
  <1>11. CASE StoreHandle
    BY <1>11 DEF StoreHandle
  <1>12. CASE TraceReturns \/ TraceFails \/ WorkerEnds
    BY <1>12 DEF TraceReturns, TraceFails, WorkerEnds
  <1>13. ASSUME NEW p \in Pids, NEW ms \in Gaps, Callback(p, ms) PROVE FrameInv'
    <2>1. /\ pc \in Capturing /\ UNCHANGED <<pc, mode, profile, side, runs>>
          /\ last' = p /\ Target \in {None, p}
      BY <1>13 DEF Callback, CaptureInv
    <2>2. \A i \in DOMAIN frames' : FrameOf(frames'[i], side)
      <3>1. CASE frames' = frames
        BY <2>1, <3>1
      <3>2. CASE last # None /\ \E ms_ : frames' =
                    Append(frames, [ms |-> ms_, from |-> last, to |-> p, under |-> profile])
        <4>1. PICK ms_ : frames' =
                    Append(frames, [ms |-> ms_, from |-> last, to |-> p, under |-> profile])
          BY <3>2
        <4>2. FrameOf([ms |-> ms_, from |-> last, to |-> p, under |-> profile], side)
          BY <2>1, <3>2 DEF FrameOf
        <4> QED BY <2>1, <4>1, <4>2, AppendAny DEF TrialInv
      <3>3. \/ frames' = frames
            \/ /\ last # None
               /\ frames' =
                    Append(frames, [ms |-> ms, from |-> last, to |-> p, under |-> profile])
        BY <1>13, CallbackFacts
      <3> QED BY <3>1, <3>2, <3>3
    <2> QED BY <2>1, <2>2
  <1>14. CASE Stolen
    BY <1>14 DEF Stolen
  <1>15. CASE RunSynthetic
    BY <1>15 DEF RunSynthetic
  <1>16. ASSUME NEW a \in Outcomes, NEW b \in Outcomes, SyntheticPair(a, b) PROVE FrameInv'
    <2>1. /\ pc = "synthetic" /\ mode = "synthetic" /\ pc' \in {"synthetic", "done"}
          /\ UNCHANGED <<mode, profile, last, frames>>
      BY <1>16 DEF SyntheticPair
    <2> QED BY <2>1
  <1>17. CASE SyntheticFails
    BY <1>17 DEF SyntheticFails
  <1>18. CASE UNCHANGED vars
    BY <1>18 DEF vars
  <1> QED
    BY <1>1, <1>2, <1>3, <1>4, <1>5, <1>6, <1>7, <1>8, <1>9, <1>10, <1>11, <1>12, <1>13,
       <1>14, <1>15, <1>16, <1>17, <1>18
    DEF Next, LiveNext, FixtureNext, Runner, Worker

\* The trials are counted.
LEMMA TrialStep ==
  ASSUME TypeOK, FrameInv, TrialInv, [Next]_vars PROVE TrialInv'
  <1> USE BenchmarkAssumption DEF TypeOK, TrialInv, Capturing, Sides, Goto, engine, place
  <1>1. CASE RunLive
    BY <1>1 DEF RunLive
  <1>2. CASE Again
    BY <1>2, EmptyAny DEF Again
  <1>3. CASE ApplyState
    BY <1>3 DEF ApplyState
  <1>4. CASE StartCapture
    BY <1>4, EmptyAny DEF StartCapture
  <1>5. CASE StopCapture
    BY <1>5 DEF StopCapture
  <1>6. CASE StopCollector \/ CloseTrace
    BY <1>6 DEF StopCollector, CloseTrace
  <1>7. CASE StopSession
    BY <1>7 DEF StopSession
  <1>8. CASE JoinWorker
    BY <1>8 DEF JoinWorker
  <1>9. CASE TakeMetrics
    <2>1. CASE runs' = runs /\ pc' = "done"
      BY <1>9, <2>1, MetricsFacts
    <2>2. CASE \E r : Added(r)
      <3>1. PICK r : Added(r)
        BY <2>2
      <3>2. /\ IsSeq(runs'[side]) /\ Len(runs'[side]) = Len(runs[side]) + 1
            /\ Len(runs[side]) \in Nat
        BY <3>1, AddedFacts
      <3>3. \A s \in Sides \ {side} : runs'[s] = runs[s]
        BY <3>1, AddedFacts
      <3>4. runs' = [s \in Sides |-> runs'[s]]
        BY <3>1, AddedFacts
      <3>5. \A s \in Sides : IsSeq(runs'[s])
        BY <3>2, <3>3
      <3>6. pc = "metrics" /\ pc' \in {"done", "apply"} /\ frames' = frames
        BY <1>9, MetricsFacts
      <3>7. CASE pc' = "done"
        BY <3>4, <3>5, <3>6, <3>7
      <3>8. CASE pc' = "apply" /\ side = "A" /\ side' = "B" /\ trial' = trial
        <4>1. Len(runs["A"]) = trial - 1 /\ Len(runs["B"]) = trial - 1 /\ trial \in Nat
          BY <3>6, <3>8
        <4>2. Len(runs'["A"]) = trial' /\ Len(runs'["B"]) = trial' - 1
          <5>1. runs'["B"] = runs["B"]
            BY <3>3, <3>8
          <5>2. Len(runs'["A"]) = Len(runs["A"]) + 1
            BY <3>2, <3>8
          <5>3. trial' = trial
            BY <3>8
          <5> QED BY <4>1, <5>1, <5>2, <5>3
        <4> QED BY <3>4, <3>5, <3>6, <3>8, <4>2
      <3>9. CASE pc' = "apply" /\ side = "B" /\ side' = "A" /\ trial' = trial + 1
        <4>1. Len(runs["A"]) = trial /\ Len(runs["B"]) = trial - 1 /\ trial \in Nat
          BY <3>6, <3>9
        <4>2. Len(runs'["A"]) = trial' - 1 /\ Len(runs'["B"]) = trial' - 1
          <5>1. runs'["A"] = runs["A"]
            BY <3>3, <3>9
          <5>2. Len(runs'["B"]) = Len(runs["B"]) + 1
            BY <3>2, <3>9
          <5>3. trial' = trial + 1
            BY <3>9
          <5> QED BY <4>1, <5>1, <5>2, <5>3, SMTT(30)
        <4> QED BY <3>4, <3>5, <3>6, <3>9, <4>2
      <3> QED BY <1>9, <3>6, <3>7, <3>8, <3>9, MetricsFacts
    <2>3. \/ runs' = runs /\ pc' = "done"
          \/ \E r : Added(r)
      BY <1>9, MetricsFacts
    <2> QED BY <2>1, <2>2, <2>3
  <1>10. CASE OpenTrace
    BY <1>10 DEF OpenTrace
  <1>11. CASE StoreHandle
    BY <1>11 DEF StoreHandle
  <1>12. CASE TraceReturns \/ TraceFails \/ WorkerEnds
    BY <1>12 DEF TraceReturns, TraceFails, WorkerEnds
  <1>13. ASSUME NEW p \in Pids, NEW ms \in Gaps, Callback(p, ms) PROVE TrialInv'
    <2>1. frames' = frames \/ \E f : frames' = Append(frames, f)
      BY <1>13, CallbackFacts
    <2>2. IsSeq(frames')
      <3>1. IsSeq(frames)
        BY DEF TrialInv
      <3>2. ASSUME NEW f, frames' = Append(frames, f) PROVE IsSeq(frames')
        <4>1. IsSeq(Append(frames, f))
          BY <3>1, AppendAny
        <4> QED BY <3>2, <4>1
      <3> QED BY <2>1, <3>1, <3>2
    <2>3. UNCHANGED <<pc, trial, side, runs>>
      BY <1>13, CallbackFacts
    <2> QED BY <2>2, <2>3
  <1>14. CASE Stolen
    BY <1>14 DEF Stolen
  <1>15. CASE RunSynthetic
    BY <1>15 DEF RunSynthetic
  <1>16. ASSUME NEW a \in Outcomes, NEW b \in Outcomes, SyntheticPair(a, b) PROVE TrialInv'
    <2>1. PICK x, y : runs' = [A |-> Append(runs["A"], x), B |-> Append(runs["B"], y)]
      BY <1>16 DEF SyntheticPair
    <2>2. runs' = [s \in Sides |-> runs'[s]]
      BY <2>1
    <2>3. /\ IsSeq(runs'["A"]) /\ Len(runs'["A"]) = Len(runs["A"]) + 1 /\ Len(runs["A"]) \in Nat
          /\ IsSeq(runs'["B"]) /\ Len(runs'["B"]) = Len(runs["B"]) + 1
      BY <2>1, AppendAny
    <2>4. /\ pc = "synthetic" /\ frames' = frames
          /\ \/ pc' = "done"
             \/ Len(runs'["A"]) < FixtureTrials /\ pc' = pc
      BY <1>16 DEF SyntheticPair
    <2> QED BY <2>2, <2>3, <2>4
  <1>17. CASE SyntheticFails
    BY <1>17 DEF SyntheticFails
  <1>18. CASE UNCHANGED vars
    BY <1>18 DEF vars
  <1> QED
    BY <1>1, <1>2, <1>3, <1>4, <1>5, <1>6, <1>7, <1>8, <1>9, <1>10, <1>11, <1>12, <1>13,
       <1>14, <1>15, <1>16, <1>17, <1>18
    DEF Next, LiveNext, FixtureNext, Runner, Worker

\* Every figure that the metrics add is in order.
LEMMA MetricsAreSound ==
  ASSUME TakeMetrics, TrialInv, LowInv
  PROVE  runs' = runs \/ \E r : Added(r) /\ Ordered(r.all) /\ r.low \in Nat
  <1> DEFINE t == Millis(frames)
             m == compute_metrics(t, Warmup)
             r == [avg |-> m.avg_fps, low |-> m.low1, all |-> m, of |-> frames]
  <1>1. runs' = runs \/ (m.ok /\ Added(r))
    BY DEF TakeMetrics, Metrics, Added
  <1>2. t \in Seq(Nat \ {0})
    <2>1. DOMAIN frames = 1 .. Len(frames) /\ Len(frames) \in Nat
      BY AppendAny DEF TrialInv
    <2>2. t = [i \in 1 .. Len(frames) |-> frames[i].ms]
      BY <2>1 DEF Millis
    <2>3. \A i \in 1 .. Len(frames) : frames[i].ms \in Nat \ {0}
      BY <2>1 DEF LowInv
    <2> DEFINE n == Len(frames)
    <2> HIDE DEF t, n
    <2>4. t \in [1 .. n -> Nat \ {0}] /\ n \in Nat
      BY <2>1, <2>2, <2>3 DEF n
    <2> QED BY <2>4
  <1>3. r.all = m /\ r.low = m.low1
    OBVIOUS
  <1> HIDE DEF r, t
  <1>4. m.ok => Ordered(m) /\ m.low1 \in Nat
    BY <1>2, BenchmarkAssumption, MetricsAreOrdered
  <1> QED BY <1>1, <1>3, <1>4

\* The figures stay in order.
LEMMA LowStep ==
  ASSUME TypeOK, FrameInv, TrialInv, LowInv, [Next]_vars PROVE LowInv'
  <1> USE DEF LowInv, Goto, engine, place
  <1>1. CASE RunLive
    <2>1. \A s \in Sides : runs[s] = <<>>
      BY <1>1 DEF RunLive, TrialInv
    <2>2. runs' = runs /\ frames' = frames
      BY <1>1 DEF RunLive
    <2> QED BY <2>1, <2>2
  <1>2. CASE Again
    <2>1. (\A s \in Sides : runs'[s] = <<>>) /\ frames' = <<>>
      BY <1>2 DEF Again
    <2> QED BY <2>1
  <1>3. CASE ApplyState
    BY <1>3 DEF ApplyState
  <1>4. CASE StartCapture
    BY <1>4 DEF StartCapture
  <1>5. CASE StopCapture
    BY <1>5 DEF StopCapture
  <1>6. CASE StopCollector \/ CloseTrace
    BY <1>6 DEF StopCollector, CloseTrace
  <1>7. CASE StopSession
    BY <1>7 DEF StopSession
  <1>8. CASE JoinWorker
    BY <1>8 DEF JoinWorker
  <1>9. CASE TakeMetrics
    <2>1. UNCHANGED <<mode, frames>>
      BY <1>9, MetricsFacts
    <2>2. CASE runs' = runs
      BY <2>1, <2>2
    <2>3. ASSUME NEW r, Added(r), Ordered(r.all), r.low \in Nat PROVE LowInv'
      <3>1. /\ runs'[side] = Append(runs[side], r) /\ IsSeq(runs[side])
            /\ \A s \in Sides \ {side} : runs'[s] = runs[s]
        BY <2>3, AddedFacts DEF TypeOK, TrialInv
      <3>2. ASSUME NEW s \in Sides, NEW i \in DOMAIN runs'[s]
            PROVE  /\ runs'[s][i].low \in Nat
                   /\ mode = "live" => Ordered(runs'[s][i].all)
        <4>1. CASE i \in DOMAIN runs[s] /\ runs'[s][i] = runs[s][i]
          BY <4>1
        <4>2. CASE runs'[s][i] = r
          BY <2>3, <4>2
        <4>3. CASE s = side
          <5>1. (i \in DOMAIN runs[s] /\ runs'[s][i] = runs[s][i]) \/ runs'[s][i] = r
            BY <3>1, <4>3, AppendAny
          <5> QED BY <4>1, <4>2, <5>1
        <4>4. CASE s # side
          <5>1. runs'[s] = runs[s]
            BY <3>1, <4>4
          <5> QED BY <4>1, <5>1
        <4> QED BY <4>3, <4>4
      <3> QED BY <2>1, <3>2
    <2> QED BY <1>9, <2>2, <2>3, MetricsAreSound
  <1>10. CASE OpenTrace
    BY <1>10 DEF OpenTrace
  <1>11. CASE StoreHandle
    BY <1>11 DEF StoreHandle
  <1>12. CASE TraceReturns \/ TraceFails \/ WorkerEnds
    BY <1>12 DEF TraceReturns, TraceFails, WorkerEnds
  <1>13. ASSUME NEW p \in Pids, NEW ms \in Gaps, Callback(p, ms) PROVE LowInv'
    <2> DEFINE f == [ms |-> ms, from |-> last, to |-> p, under |-> profile]
    <2>1. /\ UNCHANGED <<mode, runs>>
          /\ frames' = frames \/ (ms \in Nat \ {0} /\ frames' = Append(frames, f))
      BY <1>13, CallbackFacts
    <2>2. CASE frames' = frames
      BY <2>1, <2>2
    <2>3. CASE ms \in Nat \ {0} /\ frames' = Append(frames, f)
      <3>1. f.ms \in Nat \ {0}
        BY <2>3
      <3> HIDE DEF f
      <3>2. ASSUME NEW i \in DOMAIN frames' PROVE frames'[i].ms \in Nat \ {0}
        <4>1. frames' = Append(frames, f) /\ IsSeq(frames)
          BY <2>3 DEF TrialInv
        <4>2. (i \in DOMAIN frames /\ frames'[i] = frames[i]) \/ frames'[i] = f
          BY <4>1, AppendAny
        <4> QED BY <3>1, <4>2
      <3> QED BY <2>1, <3>2
    <2> QED BY <2>1, <2>2, <2>3
  <1>14. CASE Stolen
    BY <1>14 DEF Stolen
  <1>15. CASE RunSynthetic
    BY <1>15 DEF RunSynthetic
  <1>16. ASSUME NEW a \in Outcomes, NEW b \in Outcomes, SyntheticPair(a, b) PROVE LowInv'
    <2> DEFINE x == [avg |-> a[1], low |-> a[2]]
               y == [avg |-> b[1], low |-> b[2]]
    <2>1. /\ UNCHANGED <<mode, frames>> /\ mode = "synthetic"
          /\ runs' = [A |-> Append(runs["A"], x), B |-> Append(runs["B"], y)]
      BY <1>16 DEF SyntheticPair, FrameInv
    <2>2. x.low \in Nat /\ y.low \in Nat
      BY BenchmarkAssumption
    <2> HIDE DEF x, y
    <2>3. /\ runs'["A"] = Append(runs["A"], x) /\ runs'["B"] = Append(runs["B"], y)
          /\ IsSeq(runs["A"]) /\ IsSeq(runs["B"])
      BY <2>1 DEF TrialInv, Sides
    <2>4. ASSUME NEW i \in DOMAIN runs'["A"] PROVE runs'["A"][i].low \in Nat
      <3>1. (i \in DOMAIN runs["A"] /\ runs'["A"][i] = runs["A"][i]) \/ runs'["A"][i] = x
        BY <2>3, AppendAny
      <3> QED BY <2>2, <3>1 DEF Sides
    <2>5. ASSUME NEW i \in DOMAIN runs'["B"] PROVE runs'["B"][i].low \in Nat
      <3>1. (i \in DOMAIN runs["B"] /\ runs'["B"][i] = runs["B"][i]) \/ runs'["B"][i] = y
        BY <2>3, AppendAny
      <3> QED BY <2>2, <3>1 DEF Sides
    <2> QED BY <2>1, <2>4, <2>5 DEF Sides
  <1>17. CASE SyntheticFails
    BY <1>17 DEF SyntheticFails
  <1>18. CASE UNCHANGED vars
    BY <1>18 DEF vars
  <1> QED
    BY <1>1, <1>2, <1>3, <1>4, <1>5, <1>6, <1>7, <1>8, <1>9, <1>10, <1>11, <1>12, <1>13,
       <1>14, <1>15, <1>16, <1>17, <1>18
    DEF Next, LiveNext, FixtureNext, Runner, Worker

\* The inductive invariant holds throughout.
LEMMA BenchmarkInvariant == Spec => []BenchmarkInv
  <1>1. Init => BenchmarkInv
    <2> SUFFICES ASSUME Init PROVE BenchmarkInv
      OBVIOUS
    <2>1. TypeOK
      <3>1. Len(frames) <= MaxFrames
        BY BenchmarkAssumption DEF Init
      <3>2. \A s \in Sides : Len(runs[s]) <= Max({Trials, FixtureTrials})
        BY HigherBound DEF Init
      <3>3. 1 \in 1 .. Trials /\ "A" \in Sides /\ "none" \in Verdicts
        BY BenchmarkAssumption DEF Sides, Verdicts
      <3> QED BY <3>1, <3>2, <3>3 DEF Init, TypeOK
    <2>2. CaptureInv
      BY DEF Init, CaptureInv, Capturing
    <2>3. FrameInv
      BY DEF Init, FrameInv, Capturing, FramesBelongToTheirTrial
    <2>4. TrialInv
      BY EmptyAny DEF Init, TrialInv, Capturing, Sides
    <2>5. LowInv
      BY DEF Init, LowInv, Sides
    <2> QED BY <2>1, <2>2, <2>3, <2>4, <2>5 DEF BenchmarkInv
  <1>2. BenchmarkInv /\ [Next]_vars => BenchmarkInv'
    BY TypeStep, CaptureStep, FrameStep, TrialStep, LowStep DEF BenchmarkInv
  <1> QED BY <1>1, <1>2, PTL DEF Spec

-----------------------------------------------------------------------------
(* The theorems                                                            *)

\* Every reachable state is well typed, and no side has more trials than it should.
THEOREM BenchmarkTypeCorrect == Spec => []TypeOK
  <1>1. BenchmarkInv => TypeOK
    BY DEF BenchmarkInv
  <1> QED BY <1>1, BenchmarkInvariant, PTL

\* Wherever the worker is when a capture is stopped, no callback runs once the metrics are
\* computed, and a session is left in the kernel only after a failed OpenTraceW or
\* ProcessTrace, the two calls whose failure stop_capture does not learn of.
THEOREM CapturesEnd == Spec => []StopEndsCapture
  <1>1. BenchmarkInv => StopEndsCapture
    BY DEF BenchmarkInv, CaptureInv, Capturing, StopEndsCapture
  <1> QED BY <1>1, BenchmarkInvariant, PTL

\* No frame is counted for the other side's settings or for another process.
THEOREM FramesAreOfTheirTrial == Spec => []FramesBelongToTheirTrial
  <1>1. BenchmarkInv => FramesBelongToTheirTrial
    BY DEF BenchmarkInv, FrameInv
  <1> QED BY <1>1, BenchmarkInvariant, PTL

\* However the frame times fall and wherever a percentile is interpolated, the lows of a
\* capture are in order.
THEOREM CaptureLowsAreOrdered == Spec => []LowsAreOrdered
  <1>1. BenchmarkInv => LowsAreOrdered
    BY DEF BenchmarkInv, LowInv, LowsAreOrdered, Ordered
  <1> QED BY <1>1, BenchmarkInvariant, PTL

\* The statistic of the rank-sum test, computed from mid-ranks of the sorted lows, counts
\* the pairs of trials that the optimized side wins, for any number of trials and of ties.
THEOREM RankSumIsExact == Spec => []RankSumCountsPairs
  <1>1. BenchmarkInv => RankSumCountsPairs
    <2> SUFFICES ASSUME BenchmarkInv PROVE RankSumCountsPairs
      OBVIOUS
    <2> DEFINE a == Lows("A")
               b == Lows("B")
               pairs == (DOMAIN a) \X (DOMAIN b)
    <2>1. ASSUME NEW s \in Sides
          PROVE  Lows(s) \in Seq(Nat) /\ DOMAIN Lows(s) = DOMAIN runs[s]
      <3> DEFINE n == Len(runs[s])
      <3>1. DOMAIN runs[s] = 1 .. n /\ n \in Nat
        BY AppendAny DEF BenchmarkInv, TrialInv
      <3>2. \A i \in DOMAIN runs[s] : runs[s][i].low \in Nat
        BY DEF BenchmarkInv, LowInv
      <3>3. Lows(s) = [i \in DOMAIN runs[s] |-> runs[s][i].low]
        BY DEF Lows
      <3> HIDE DEF n
      <3>4. Lows(s) \in [1 .. n -> Nat]
        BY <3>1, <3>2, <3>3
      <3> QED BY <3>1, <3>3, <3>4
    <2>2. /\ a \in Seq(Nat) /\ b \in Seq(Nat)
          /\ DOMAIN a = DOMAIN runs["A"] /\ DOMAIN b = DOMAIN runs["B"]
      BY <2>1 DEF Sides
    <2> HIDE DEF a, b
    <2>3. RankSumU(a, b) = 2 * Cardinality({p \in pairs : a[p[1]] < b[p[2]]})
                           + Cardinality({p \in pairs : a[p[1]] = b[p[2]]})
      BY <2>2, RankSumCounts
    <2>4. /\ {p \in pairs : a[p[1]] < b[p[2]]} = Won
          /\ {p \in pairs : a[p[1]] = b[p[2]]} = Tied
      BY <2>2 DEF Won, Tied, TrialPairs, a, b
    <2> QED BY <2>3, <2>4 DEF RankSumCountsPairs, a, b
  <1> QED BY <1>1, BenchmarkInvariant, PTL

=============================================================================
