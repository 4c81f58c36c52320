---------------------------- MODULE NetworkProofs ----------------------------
(***************************************************************************)
(* What is proved of NetworkDiagnostics for every number of packets and of *)
(* load threads: a sample is its packet's echo; the loss is exact on a     *)
(* network that only loses, the median is in the middle of the samples and *)
(* the jitter within their range; a grade is backed by echoes, and the     *)
(* load ends with the test.                                                *)
(***************************************************************************)
EXTENDS NetworkDiagnostics, FiniteSetTheorems, WellFoundedInduction, TLAPS

-----------------------------------------------------------------------------
(* Induction, for sets of numbers and for iterated steps                   *)

\* A set that holds zero and with a number its successor holds every number.
LEMMA SetInduction ==
  ASSUME NEW S, 0 \in S, \A n \in Nat : n \in S => n + 1 \in S
  PROVE  Nat \subseteq S
  <1> DEFINE T == Nat \ S
  <1> SUFFICES ASSUME T # {} PROVE FALSE
    OBVIOUS
  <1>1. IsWellFoundedOn(OpToRel(<, Nat), Nat)
    BY NatLessThanWellFounded
  <1>2. T \subseteq Nat
    OBVIOUS
  <1> HIDE DEF T
  <1>3. PICK x \in T : \A y \in T : ~ (<<y, x>> \in OpToRel(<, Nat))
    BY <1>1, <1>2, WFMin
  <1>4. x \in Nat /\ x \notin S /\ x # 0
    BY DEF T
  <1>5. x - 1 \in Nat /\ x - 1 \notin S
    BY <1>4
  <1>6. x - 1 \in T
    BY <1>5 DEF T
  <1>7. <<x - 1, x>> \in OpToRel(<, Nat)
    BY <1>4, <1>5 DEF OpToRel
  <1> QED
    BY <1>3, <1>6, <1>7

\* N steps within a set of values, and the values they run through from a.
Steps(N, V) == [1 .. N -> [V -> V]]
Iterates(f, N, a, step) == f[0] = a /\ \A n \in 1 .. N : f[n] = step[n][f[n - 1]]

\* Steps can be iterated from any start.
LEMMA Iteration ==
  ASSUME NEW V, NEW a \in V, NEW N \in Nat, NEW step \in Steps(N, V)
  PROVE  \E f \in [0 .. N -> V] : Iterates(f, N, a, step)
  <1> USE DEF Steps, Iterates
  <1> DEFINE Upto(k) == \E f \in [0 .. k -> V] : f[0] = a /\ \A n \in 1 .. k : f[n] = step[n][f[n - 1]]
             S == {k \in Nat : k <= N => Upto(k)}
  <1>1. 0 \in S
    <2>1. [i \in 0 .. 0 |-> a] \in [0 .. 0 -> V]
      OBVIOUS
    <2>2. Upto(0)
      <3> WITNESS [i \in 0 .. 0 |-> a] \in [0 .. 0 -> V]
      <3> QED OBVIOUS
    <2> QED BY <2>2
  <1>2. ASSUME NEW k \in Nat, k \in S PROVE k + 1 \in S
    <2> SUFFICES ASSUME k + 1 <= N PROVE Upto(k + 1)
      OBVIOUS
    <2>1. Upto(k)
      BY <1>2
    <2>2. PICK f \in [0 .. k -> V] : f[0] = a /\ \A n \in 1 .. k : f[n] = step[n][f[n - 1]]
      BY <2>1
    <2> DEFINE g == [i \in 0 .. k + 1 |-> IF i = k + 1 THEN step[k + 1][f[k]] ELSE f[i]]
    <2>3. step[k + 1][f[k]] \in V
      OBVIOUS
    <2>4. g \in [0 .. k + 1 -> V]
      BY <2>3
    <2>5. g[0] = a
      BY <2>2
    <2>6. ASSUME NEW n \in 1 .. k + 1 PROVE g[n] = step[n][g[n - 1]]
      <3>1. CASE n = k + 1
        BY <3>1
      <3>2. CASE n # k + 1
        <4>1. n \in 1 .. k /\ g[n] = f[n] /\ g[n - 1] = f[n - 1]
          BY <3>2
        <4> QED BY <2>2, <4>1
      <3> QED BY <3>1, <3>2
    <2> HIDE DEF g
    <2> QED BY <2>4, <2>5, <2>6
  <1> HIDE DEF S
  <1>3. Nat \subseteq S
    BY <1>1, <1>2, SetInduction
  <1>4. N \in S
    BY <1>3
  <1> QED
    BY <1>4 DEF S

-----------------------------------------------------------------------------
(* The sorted times                                                        *)

\* A value of a set of whole numbers that none surpasses is its maximum.
LEMMA MaxIsGreatest ==
  ASSUME NEW S, S \subseteq Nat, NEW x \in S, \A y \in S : y <= x
  PROVE  Max(S) \in S /\ \A y \in S : y <= Max(S)
  <1>1. \E z \in S : \A y \in S : z >= y
    OBVIOUS
  <1>2. Max(S) \in S /\ \A y \in S : Max(S) >= y
    BY <1>1 DEF Max
  <1> QED BY <1>2

\* A set of whole numbers that is not empty has a minimum.
LEMMA MinIsLeast ==
  ASSUME NEW S, S \subseteq Nat, S # {}
  PROVE  Min(S) \in S /\ \A y \in S : Min(S) <= y
  <1>1. PICK x \in S : \A y \in S : ~(<<y, x>> \in OpToRel(<, Nat))
    BY NatLessThanWellFounded, WFMin
  <1>2. ASSUME NEW y \in S PROVE x <= y
    <2>1. x \in Nat /\ y \in Nat /\ ~(<<y, x>> \in OpToRel(<, Nat))
      BY <1>1
    <2> QED BY <2>1 DEF OpToRel
  <1> QED BY <1>2 DEF Min

\* Among some places of a sequence of numbers there is one whose value none surpasses.
LEMMA Greatest ==
  ASSUME NEW s \in Seq(Nat), NEW T \in SUBSET DOMAIN s, T # {}
  PROVE  \E j \in T : \A i \in T : s[i] <= s[j]
  <1> DEFINE Has(U) == \E j \in U : \A i \in U : s[i] <= s[j]
             S == {k \in Nat : \A U \in SUBSET DOMAIN s : U # {} /\ U \subseteq 1 .. k => Has(U)}
  <1>1. 0 \in S
    OBVIOUS
  <1>2. ASSUME NEW k \in Nat, k \in S PROVE k + 1 \in S
    <2> SUFFICES ASSUME NEW U \in SUBSET DOMAIN s, U # {}, U \subseteq 1 .. k + 1
                 PROVE  Has(U)
      <3> HIDE DEF Has
      <3> QED OBVIOUS
    <2>0. \A i \in U : s[i] \in Nat
      OBVIOUS
    <2> DEFINE W == U \ {k + 1}
    <2>1. CASE W = {}
      <3>1. U = {k + 1}
        BY <2>1
      <3> QED BY <2>0, <3>1
    <2>2. CASE W # {}
      <3>1. W \in SUBSET DOMAIN s /\ W \subseteq 1 .. k
        OBVIOUS
      <3>2. Has(W)
        BY <1>2, <2>2, <3>1
      <3>3. PICK j \in W : \A i \in W : s[i] <= s[j]
        BY <3>2
      <3>4. CASE k + 1 \in U /\ s[k + 1] > s[j]
        <4>1. ASSUME NEW i \in U PROVE s[i] <= s[k + 1]
          <5>1. CASE i = k + 1
            BY <2>0, <5>1
          <5>2. CASE i # k + 1
            BY <2>0, <3>3, <3>4, <5>2
          <5> QED BY <5>1, <5>2
        <4> QED BY <3>4, <4>1
      <3>5. CASE ~(k + 1 \in U /\ s[k + 1] > s[j])
        <4>1. ASSUME NEW i \in U PROVE s[i] <= s[j]
          BY <2>0, <3>3, <3>5
        <4> QED BY <4>1
      <3> QED BY <3>4, <3>5
    <2> QED BY <2>1, <2>2
  <1> HIDE DEF S
  <1>3. Len(s) \in S
    <2>1. Nat \subseteq S
      BY <1>1, <1>2, SetInduction
    <2> QED BY <2>1
  <1>4. T \subseteq 1 .. Len(s)
    OBVIOUS
  <1> QED BY <1>3, <1>4 DEF S

\* The places of the values up to v, and of those from v on.
UpTo(s, v) == {i \in DOMAIN s : s[i] <= v}
From(s, v) == {i \in DOMAIN s : s[i] >= v}

\* Places are finitely many.
LEMMA Places ==
  ASSUME NEW s \in Seq(Nat), NEW T \in SUBSET DOMAIN s
  PROVE  IsFiniteSet(T) /\ Cardinality(T) \in Nat /\ Cardinality(T) <= Len(s)
         /\ Cardinality(DOMAIN s) = Len(s) /\ IsFiniteSet(DOMAIN s)
  <1>1. DOMAIN s = 1 .. Len(s) /\ Len(s) \in Nat
    OBVIOUS
  <1>2. IsFiniteSet(DOMAIN s) /\ Cardinality(DOMAIN s) = Len(s)
    <2> DEFINE n == Len(s)
    <2>1. n \in Nat /\ DOMAIN s = 1 .. n
      BY <1>1
    <2> HIDE DEF n
    <2>2. IsFiniteSet(1 .. n) /\ Cardinality(1 .. n) = IF 1 > n THEN 0 ELSE n - 1 + 1
      BY <2>1, FS_Interval
    <2>3. Cardinality(1 .. n) = n
      BY <2>1, <2>2
    <2> QED BY <2>1, <2>2, <2>3 DEF n
  <1> QED BY <1>2, FS_Subset, FS_CardinalityType

\* The k-th of the sorted values is one of them; at least k of them do not exceed it, and
\* all from the k-th on do not fall below it.
LEMMA OrderStatistic ==
  ASSUME NEW s \in Seq(Nat), NEW k \in DOMAIN s
  PROVE  /\ SortedUp(s)[k] \in {s[i] : i \in DOMAIN s}
         /\ SortedUp(s)[k] \in Nat
         /\ Cardinality(UpTo(s, SortedUp(s)[k])) >= k
         /\ Cardinality(From(s, SortedUp(s)[k])) >= Len(s) - k + 1
         /\ \A l \in DOMAIN s : k <= l => SortedUp(s)[k] <= SortedUp(s)[l]
  <1> DEFINE Values == {s[i] : i \in DOMAIN s}
             Cand(l) == {v \in Values : Cardinality(UpTo(s, v)) >= l}
             x(l) == SortedUp(s)[l]
  <1>0. /\ DOMAIN s = 1 .. Len(s) /\ Len(s) \in Nat /\ \A i \in DOMAIN s : s[i] \in Nat
        /\ Values \subseteq Nat
    OBVIOUS
  <1>1. \A l \in DOMAIN s : x(l) = Min(Cand(l))
    BY DEF SortedUp, UpTo
  <1>2. ASSUME NEW l \in DOMAIN s PROVE Cand(l) # {} /\ Cand(l) \subseteq Nat
    <2>1. PICK j \in DOMAIN s : \A i \in DOMAIN s : s[i] <= s[j]
      BY Greatest
    <2>2. UpTo(s, s[j]) = DOMAIN s
      BY <2>1 DEF UpTo
    <2>3. Cardinality(UpTo(s, s[j])) >= l
      BY <1>0, <2>2, Places
    <2> QED BY <1>0, <2>3
  <1>3. ASSUME NEW l \in DOMAIN s
        PROVE  x(l) \in Cand(l) /\ \A v \in Cand(l) : x(l) <= v
    <2> HIDE DEF Cand, x
    <2> QED BY <1>1, <1>2, MinIsLeast
  <1> HIDE DEF x
  <1>4. x(k) \in Values /\ x(k) \in Nat /\ Cardinality(UpTo(s, x(k))) >= k
    BY <1>0, <1>3
  <1>5. ASSUME NEW l \in DOMAIN s, k <= l PROVE x(k) <= x(l)
    <2>1. x(l) \in Values /\ Cardinality(UpTo(s, x(l))) >= l
      BY <1>3
    <2>2. Cardinality(UpTo(s, x(l))) \in Nat
      BY Places DEF UpTo
    <2>3. Cardinality(UpTo(s, x(l))) >= k
      BY <1>0, <1>5, <2>1, <2>2
    <2> QED BY <1>3, <2>1, <2>3
  <1>6. Cardinality(From(s, x(k))) >= Len(s) - k + 1
    <2> DEFINE less == DOMAIN s \ From(s, x(k))
    <2>1. /\ less \in SUBSET DOMAIN s /\ From(s, x(k)) \in SUBSET DOMAIN s
          /\ \A i \in less : s[i] < x(k)
      BY <1>0, <1>4 DEF From
    <2>2. Cardinality(less) \in Nat /\ Cardinality(From(s, x(k))) \in Nat
      BY <2>1, Places
    <2>3. Cardinality(less) = Len(s) - Cardinality(From(s, x(k)))
      <3>1. DOMAIN s \cap From(s, x(k)) = From(s, x(k))
        BY <2>1
      <3>2. IsFiniteSet(DOMAIN s) /\ Cardinality(DOMAIN s) = Len(s)
        BY Places
      <3>3. Cardinality(less) = Cardinality(DOMAIN s) - Cardinality(DOMAIN s \cap From(s, x(k)))
        BY <3>2, FS_Difference
      <3> QED BY <3>1, <3>2, <3>3
    <2>4. Cardinality(less) < k
      <3>1. CASE less = {}
        <4>1. Cardinality(less) = 0 /\ k \in 1 .. Len(s)
          BY <1>0, <3>1, FS_EmptySet
        <4> HIDE DEF less
        <4> QED BY <1>0, <4>1
      <3>2. CASE less # {}
        <4>1. PICK j \in less : \A i \in less : s[i] <= s[j]
          <5> HIDE DEF less
          <5> QED BY <2>1, <3>2, Greatest
        <4>2. UpTo(s, s[j]) = less
          <5>1. ASSUME NEW i \in DOMAIN s, s[i] <= s[j] PROVE i \in less
            <6>1. s[j] < x(k) /\ s[i] \in Nat /\ s[j] \in Nat /\ x(k) \in Nat
              BY <1>0, <1>4, <2>1, <4>1
            <6>2. ~(s[i] >= x(k))
              BY <5>1, <6>1
            <6> QED BY <6>2 DEF From
          <5> QED BY <2>1, <4>1, <5>1 DEF UpTo
        <4>3. s[j] \in Values /\ s[j] < x(k) /\ s[j] \in Nat
          BY <1>0, <2>1, <4>1
        <4>4. s[j] \notin Cand(k)
          <5>1. \A v \in Cand(k) : x(k) <= v
            BY <1>3
          <5> QED BY <1>4, <4>3, <5>1, SMTT(30)
        <4>5. ~(Cardinality(less) >= k)
          BY <4>2, <4>3, <4>4
        <4> QED BY <1>0, <2>2, <4>5
      <3> QED BY <3>1, <3>2
    <2> HIDE DEF less
    <2> QED BY <1>0, <2>2, <2>3, <2>4
  <1> QED BY <1>4, <1>5, <1>6 DEF x

-----------------------------------------------------------------------------
(* Median and jitter                                                       *)

\* The median of n times is the middle one, or lies between the two in the middle.
LEMMA MedianOf ==
  ASSUME NEW s \in Seq(Nat), s # <<>>
  PROVE  \E k \in DOMAIN s, l \in DOMAIN s :
            /\ 2 * k >= Len(s) /\ 2 * (Len(s) - l + 1) >= Len(s)
            /\ 1000 * SortedUp(s)[k] <= Median(s) /\ Median(s) <= 1000 * SortedUp(s)[l]
            /\ Median(s) \in Nat
  <1> DEFINE n == Len(s)
             z == SortedUp(s)
             rank == 500 * (n - 1)
             low == rank \div 1000
             high == IF low + 1 > n - 1 THEN n - 1 ELSE low + 1
  <1>1. n \in Nat /\ n >= 1 /\ DOMAIN s = 1 .. n
    OBVIOUS
  <1>2. \A k \in 1 .. n : z[k] \in Nat /\ \A l \in 1 .. n : k <= l => z[k] <= z[l]
    BY <1>1, OrderStatistic
  <1>3. z \in Seq(Nat) /\ Len(z) = n
    <2>1. z = [k \in 1 .. n |-> z[k]]
      BY <1>1 DEF SortedUp
    <2> HIDE DEF z, n
    <2> QED BY <1>1, <1>2, <2>1, SMTT(30)
  <1>4. Median(s) = 1000 * z[low + 1] + (rank % 1000) * (z[high + 1] - z[low + 1])
    <2>1. z # <<>> /\ Median(s) = calculate_percentile(z, 500)
      BY <1>1, <1>3 DEF Median
    <2> HIDE DEF z
    <2> QED BY <1>3, <2>1 DEF calculate_percentile
  <1> HIDE DEF n, z
  <1>5. \E m \in Nat : n = 2 * m + 1 \/ n = 2 * m + 2
    <2>1. (n - 1) \div 2 \in Nat /\ (n = 2 * ((n - 1) \div 2) + 1 \/ n = 2 * ((n - 1) \div 2) + 2)
      BY <1>1
    <2> QED BY <2>1
  <1>6. PICK m \in Nat : n = 2 * m + 1 \/ n = 2 * m + 2
    BY <1>5
  <1>7. CASE n = 2 * m + 1
    <2>1. low = m /\ rank % 1000 = 0 /\ m + 1 \in 1 .. n
      BY <1>6, <1>7
    <2>2. z[m + 1] \in Nat /\ z[high + 1] \in Nat
      <3>1. high + 1 \in 1 .. n
        BY <1>1, <1>7, <2>1
      <3> QED BY <1>2, <2>1, <3>1
    <2>3. Median(s) = 1000 * z[m + 1]
      <3> HIDE DEF high, low, rank
      <3> QED BY <1>4, <2>1, <2>2
    <2>4. 2 * (m + 1) >= n /\ 2 * (n - (m + 1) + 1) >= n
      BY <1>6, <1>7
    <2> DEFINE c == m + 1
    <2>5. c \in DOMAIN s
      BY <1>1, <2>1
    <2>6. /\ 2 * c >= Len(s) /\ 2 * (Len(s) - c + 1) >= Len(s)
          /\ 1000 * SortedUp(s)[c] <= Median(s) /\ Median(s) <= 1000 * SortedUp(s)[c]
          /\ Median(s) \in Nat
      BY <2>2, <2>3, <2>4, SMTT(30) DEF n, z
    <2> HIDE DEF c
    <2> QED BY <2>5, <2>6
  <1>8. CASE n = 2 * m + 2
    <2>1. low = m /\ rank % 1000 = 500 /\ high = m + 1 /\ m + 1 \in 1 .. n /\ m + 2 \in 1 .. n
      BY <1>6, <1>8
    <2>2. z[m + 1] \in Nat /\ z[m + 2] \in Nat /\ z[m + 1] <= z[m + 2]
      BY <1>2, <2>1
    <2>3. Median(s) = 1000 * z[m + 1] + 500 * (z[m + 2] - z[m + 1])
      <3>1. high + 1 = m + 2
        BY <2>1
      <3> HIDE DEF high, low, rank
      <3> QED BY <1>4, <2>1, <2>2, <3>1
    <2>4. 1000 * z[m + 1] <= Median(s) /\ Median(s) <= 1000 * z[m + 2] /\ Median(s) \in Nat
      BY <2>2, <2>3, SMTT(30)
    <2>5. 2 * (m + 1) >= n /\ 2 * (n - (m + 2) + 1) >= n
      BY <1>6, <1>8
    <2> DEFINE c == m + 1
               e == m + 2
    <2>6. c \in DOMAIN s /\ e \in DOMAIN s
      BY <1>1, <2>1
    <2>7. /\ 2 * c >= Len(s) /\ 2 * (Len(s) - e + 1) >= Len(s)
          /\ 1000 * SortedUp(s)[c] <= Median(s) /\ Median(s) <= 1000 * SortedUp(s)[e]
          /\ Median(s) \in Nat
      BY <2>4, <2>5 DEF n, z
    <2> HIDE DEF c, e
    <2> QED BY <2>6, <2>7
  <1> QED BY <1>6, <1>7, <1>8

\* At least half of the times do not exceed the median, and at least half do not fall
\* below it.
LEMMA MedianIsInTheMiddle ==
  ASSUME NEW s \in Seq(Nat), s # <<>>
  PROVE  /\ 2 * Cardinality({i \in DOMAIN s : 1000 * s[i] <= Median(s)}) >= Len(s)
         /\ 2 * Cardinality({i \in DOMAIN s : 1000 * s[i] >= Median(s)}) >= Len(s)
  <1> DEFINE below == {i \in DOMAIN s : 1000 * s[i] <= Median(s)}
             above == {i \in DOMAIN s : 1000 * s[i] >= Median(s)}
             med == Median(s)
  <1>1. PICK k \in DOMAIN s, l \in DOMAIN s :
            /\ 2 * k >= Len(s) /\ 2 * (Len(s) - l + 1) >= Len(s)
            /\ 1000 * SortedUp(s)[k] <= med /\ med <= 1000 * SortedUp(s)[l]
            /\ med \in Nat
    BY MedianOf
  <1>2. /\ below \in SUBSET DOMAIN s /\ above \in SUBSET DOMAIN s
        /\ Len(s) \in Nat /\ DOMAIN s = 1 .. Len(s) /\ \A i \in DOMAIN s : s[i] \in Nat
    OBVIOUS
  <1>3. /\ IsFiniteSet(below) /\ Cardinality(below) \in Nat
        /\ IsFiniteSet(above) /\ Cardinality(above) \in Nat
    <2> HIDE DEF below, above
    <2> QED BY <1>2, Places
  <1> DEFINE x == SortedUp(s)[k]
             y == SortedUp(s)[l]
  <1>4. /\ x \in Nat /\ Cardinality(UpTo(s, x)) >= k
        /\ y \in Nat /\ Cardinality(From(s, y)) >= Len(s) - l + 1
    BY OrderStatistic
  <1>5. 1000 * x <= med /\ med <= 1000 * y /\ med \in Nat
    BY <1>1
  <1> HIDE DEF x, y, med
  <1>6. UpTo(s, x) \subseteq below
    <2> SUFFICES ASSUME NEW i \in DOMAIN s, s[i] <= x PROVE 1000 * s[i] <= med
      BY DEF UpTo, med
    <2> QED BY <1>2, <1>4, <1>5, SMTT(30)
  <1>7. From(s, y) \subseteq above
    <2> SUFFICES ASSUME NEW i \in DOMAIN s, s[i] >= y PROVE 1000 * s[i] >= med
      BY DEF From, med
    <2> QED BY <1>2, <1>4, <1>5
  <1> HIDE DEF below, above
  <1>8. Cardinality(UpTo(s, x)) <= Cardinality(below) /\ Cardinality(From(s, y)) <= Cardinality(above)
    BY <1>3, <1>6, <1>7, FS_Subset
  <1>9. Cardinality(UpTo(s, x)) \in Nat /\ Cardinality(From(s, y)) \in Nat
    BY Places DEF UpTo, From
  <1>10. 2 * Cardinality(below) >= Len(s) /\ 2 * Cardinality(above) >= Len(s)
    <2> DEFINE p == Cardinality(UpTo(s, x))
               q == Cardinality(From(s, y))
               u == Cardinality(below)
               v == Cardinality(above)
               N == Len(s)
    <2>1. /\ p \in Nat /\ q \in Nat /\ u \in Nat /\ v \in Nat /\ N \in Nat
          /\ k \in Nat /\ l \in Nat
      BY <1>2, <1>3, <1>9
    <2>2. 2 * k >= N /\ 2 * (N - l + 1) >= N
      BY <1>1
    <2>3. p >= k /\ q >= N - l + 1 /\ p <= u /\ q <= v
      BY <1>4, <1>8
    <2> HIDE DEF p, q, u, v, N
    <2>4. 2 * u >= N /\ 2 * v >= N
      BY <2>1, <2>2, <2>3, SMTT(30)
    <2> QED BY <2>4 DEF u, v, N
  <1> QED BY <1>10 DEF below, above

\* One step of the smoothing stays between zero and a bound of the differences.
LEMMA SmoothingIsBounded ==
  ASSUME NEW B \in Nat, NEW j \in 0 .. B, NEW e \in 0 .. B
  PROVE  j + (e - j) \div 16 \in 0 .. B
  OBVIOUS

\* All times lie between a and b.
Within(t, a, b) == \A i \in DOMAIN t : a <= t[i] /\ t[i] <= b

\* The jitter lies between zero and the range of the times.
LEMMA JitterIsBounded ==
  ASSUME NEW t \in Seq(Nat), t # <<>>, NEW a \in Nat, NEW b \in Nat, Within(t, a, b)
  PROVE  Jitter(t) \in 0 .. 4096 * (b - a)
  <1> DEFINE B == 4096 * (b - a)
             n == Len(t)
             d(k) == 4096 * Distance(t[k], t[k - 1])
             E(J) == [k \in 1 .. Len(t) |->
                        IF k = 1 THEN 0
                        ELSE J[k - 1] + (4096 * Distance(t[k], t[k - 1]) - J[k - 1]) \div 16]
             J == CHOOSE J : J = E(J)
  <1>1. Jitter(t) = J[n]
    BY DEF Jitter
  <1>2. n \in Nat \ {0} /\ DOMAIN t = 1 .. n /\ \A i \in 1 .. n : t[i] \in Nat
    OBVIOUS
  <1>3. B \in Nat
    <2>1. a <= t[1] /\ t[1] <= b /\ t[1] \in Nat
      BY <1>2 DEF Within
    <2> QED BY <2>1
  <1> HIDE DEF n, B
  <1>4. ASSUME NEW k \in 2 .. n PROVE d(k) \in 0 .. B
    <2>1. k \in 1 .. n /\ k - 1 \in 1 .. n
      BY <1>2
    <2>2. /\ t[k] \in Nat /\ a <= t[k] /\ t[k] <= b
          /\ t[k - 1] \in Nat /\ a <= t[k - 1] /\ t[k - 1] <= b
      BY <1>2, <2>1 DEF Within
    <2> DEFINE p == t[k]
               q == t[k - 1]
    <2>3. d(k) = 4096 * (IF p > q THEN p - q ELSE q - p)
      BY DEF Distance
    <2>4. p \in a .. b /\ q \in a .. b
      BY <2>2
    <2> HIDE DEF p, q, d
    <2> QED BY <2>3, <2>4 DEF B
  <1> HIDE DEF d
  <1>5. \E K : K = E(K)
    <2> DEFINE V == 0 .. B
               step == [k \in 1 .. n - 1 |-> [x \in V |-> x + (d(k + 1) - x) \div 16]]
    <2>1. step \in [1 .. n - 1 -> [V -> V]]
      <3> SUFFICES ASSUME NEW k \in 1 .. n - 1, NEW x \in V
                   PROVE  x + (d(k + 1) - x) \div 16 \in V
        OBVIOUS
      <3>1. k + 1 \in 2 .. n
        BY <1>2
      <3>2. d(k + 1) \in 0 .. B
        BY <1>4, <3>1
      <3> QED BY <1>3, <3>2, SmoothingIsBounded
    <2>2. 0 \in V /\ n - 1 \in Nat
      BY <1>2, <1>3
    <2>3. \A k \in 1 .. n - 1, x \in V : step[k][x] = x + (d(k + 1) - x) \div 16
      OBVIOUS
    <2> HIDE DEF step, V
    <2>4. PICK f \in [0 .. n - 1 -> V] :
            f[0] = 0 /\ \A k \in 1 .. n - 1 : f[k] = step[k][f[k - 1]]
      <3> DEFINE N == n - 1
      <3>1. N \in Nat /\ step \in Steps(N, V)
        BY <2>1, <2>2 DEF Steps
      <3> HIDE DEF N
      <3>2. \E f \in [0 .. N -> V] : Iterates(f, N, 0, step)
        BY <2>2, <3>1, Iteration
      <3> QED BY <3>2 DEF N, Iterates
    <2> DEFINE K == [k \in 1 .. n |-> f[k - 1]]
    <2>5. ASSUME NEW k \in 1 .. n
          PROVE  K[k] = IF k = 1 THEN 0 ELSE K[k - 1] + (d(k) - K[k - 1]) \div 16
      <3>1. CASE k = 1
        BY <2>4, <3>1
      <3>2. CASE k # 1
        <4>1. k - 1 \in 1 .. n - 1 /\ (k - 1) - 1 \in 0 .. n - 1 /\ k - 1 \in 1 .. n
          BY <1>2, <3>2
        <4>2. f[k - 1] = step[k - 1][f[(k - 1) - 1]] /\ f[(k - 1) - 1] \in V
          BY <2>4, <4>1
        <4>3. f[k - 1] = f[(k - 1) - 1] + (d((k - 1) + 1) - f[(k - 1) - 1]) \div 16
          BY <2>3, <4>1, <4>2
        <4>4. (k - 1) + 1 = k
          OBVIOUS
        <4>5. K[k] = f[k - 1] /\ K[k - 1] = f[(k - 1) - 1]
          BY <4>1
        <4> HIDE DEF K
        <4> QED BY <3>2, <4>3, <4>4, <4>5
      <3> QED BY <3>1, <3>2
    <2>6. DOMAIN K = 1 .. n /\ K = [k \in 1 .. n |-> K[k]]
      OBVIOUS
    <2> HIDE DEF K
    <2>7. K = E(K)
      <3>1. \A k \in 1 .. n : K[k] = E(K)[k]
        BY <2>5 DEF d, n
      <3>2. DOMAIN E(K) = 1 .. n /\ E(K) = [k \in 1 .. n |-> E(K)[k]]
        BY DEF n
      <3> HIDE DEF E
      <3> QED BY <2>6, <3>1, <3>2
    <2> HIDE DEF E
    <2> QED BY <2>7
  <1>6. J = E(J)
    <2> HIDE DEF E
    <2> QED BY <1>5, Zenon
  <1>7. ASSUME NEW k \in 1 .. n
        PROVE  J[k] = IF k = 1 THEN 0 ELSE J[k - 1] + (d(k) - J[k - 1]) \div 16
    <2> HIDE DEF J
    <2>1. J[k] = E(J)[k]
      BY <1>6
    <2> QED BY <2>1 DEF n, d
  <1> HIDE DEF J, E
  <1> DEFINE S == {k \in Nat : k + 1 <= n => J[k + 1] \in 0 .. B}
  <1>8. 0 \in S
    <2>1. 0 + 1 \in 1 .. n /\ 0 + 1 = 1 /\ 0 \in 0 .. B
      BY <1>2, <1>3
    <2>2. J[1] = 0
      BY <1>7, <2>1
    <2> QED BY <2>1, <2>2
  <1>9. ASSUME NEW k \in Nat, k \in S PROVE k + 1 \in S
    <2> SUFFICES ASSUME (k + 1) + 1 <= n PROVE J[(k + 1) + 1] \in 0 .. B
      OBVIOUS
    <2>1. (k + 1) + 1 \in 2 .. n /\ (k + 1) + 1 \in 1 .. n /\ k + 1 <= n
          /\ ((k + 1) + 1) - 1 = k + 1
      BY <1>2
    <2>2. J[k + 1] \in 0 .. B /\ d((k + 1) + 1) \in 0 .. B
      BY <1>4, <1>9, <2>1
    <2>3. J[(k + 1) + 1] = J[k + 1] + (d((k + 1) + 1) - J[k + 1]) \div 16
      BY <1>7, <2>1
    <2> QED BY <1>3, <2>2, <2>3, SmoothingIsBounded
  <1> HIDE DEF S
  <1>10. n - 1 \in S
    <2>1. Nat \subseteq S
      BY <1>8, <1>9, SetInduction
    <2> QED BY <1>2, <2>1
  <1>11. (n - 1) + 1 = n /\ (n - 1) + 1 <= n
    BY <1>2
  <1>12. J[n] \in 0 .. B
    BY <1>10, <1>11 DEF S
  <1> QED BY <1>1, <1>12 DEF B

-----------------------------------------------------------------------------
(* The inductive invariant                                                 *)

\* Which probe runs is known from where the command is.
PlaceInv ==
    /\ pc \in {"idle", "load"} => phase = "unloaded"
    /\ pc \in {"quiet", "join"} => phase = "loaded"
    /\ pc \in {"idle", "bind"} => seq = 1
    /\ pc \in {"send", "receive"} => seq <= Packets
    /\ command = "ping-probe" => phase = "unloaded" /\ pc # "load"

\* The load threads run during the loaded probe only.
LoadInv ==
    /\ phase = "unloaded" \/ pc \in {"graded", "done"} =>
         ~loading /\ \A w \in Workers : worker[w] # "running"
    /\ pc = "join" => ~loading

\* The network holds datagrams of the running probe only, and none between two probes.
EchoInv ==
    /\ pc \notin {"send", "receive", "probed"} => air = {} /\ inbox = <<>>
    /\ \A d \in air : d.phase = phase
    /\ \A i \in DOMAIN inbox : inbox[i].phase = phase
    /\ SampleIsItsEcho

\* The packets that the loop is through with, or waits for.
Sent == IF pc = "receive" THEN seq ELSE seq - 1

\* Every datagram in the network was sent once, one of them perhaps doubled.
CountInv ==
    /\ IsFiniteSet(air)
    /\ dropped + Cardinality(air) <= Sent
    /\ Len(inbox) + Cardinality(air) <= Sent + (IF disorder THEN 1 ELSE 0)
    /\ Len(samples) <= seq - 1

\* While the network has only lost datagrams, every packet but the one the loop waits for
\* was either answered or dropped, and nothing else is under way.
LossInv ==
    ~disorder =>
        \/ /\ air = {} /\ inbox = <<>>
           /\ Len(samples) + dropped = Sent
        \/ /\ pc = "receive"
           /\ \/ air = {Datagram(seq)} /\ inbox = <<>>
              \/ air = {} /\ inbox = <<Datagram(seq)>>
           /\ Len(samples) + dropped = seq - 1

\* A report counts the samples that are still there; a running probe has none yet.
ReportInv ==
    /\ reports = [p \in Phases |-> reports[p]]
    /\ phase = "unloaded" => ~reports["loaded"].ok
    /\ pc \in {"idle", "bind", "send", "receive", "probed"} => ~reports[phase].ok
    /\ reports[phase].ok =>
         /\ seq = Packets + 1
         /\ reports[phase].lost = Packets - Len(samples)
         /\ reports[phase].median = Median(Times) /\ reports[phase].jitter = Jitter(Times)

\* There is a grade only at the end.
GradeInv ==
    /\ pc \notin {"graded", "done"} => grade = "none"
    /\ GoodGradeIsMeasured

NetworkInv ==
    /\ TypeOK /\ PlaceInv /\ LoadInv /\ EchoInv
    /\ CountInv /\ LossInv /\ ReportInv /\ GradeInv

-----------------------------------------------------------------------------
(* Every step keeps it                                                   *)

\* A grade is one of the grades, and F whenever more than 5% was lost.
LEMMA GradeOf ==
  ASSUME NEW delta, NEW lost
  PROVE  /\ from_latency_delta(delta, lost) \in Grades
         /\ 20 * lost > Packets => from_latency_delta(delta, lost) = "F"
  BY DEF from_latency_delta, Grades

\* A set that gains or loses a datagram.
LEMMA OneMore ==
  ASSUME NEW S, NEW x, IsFiniteSet(S)
  PROVE  /\ IsFiniteSet(S \cup {x})
         /\ Cardinality(S) \in Nat /\ Cardinality(S \cup {x}) \in Nat
         /\ Cardinality(S \cup {x}) <= Cardinality(S) + 1
  BY FS_AddElement, FS_CardinalityType

\* What Receive takes from the socket, and what it adds to the samples.
LEMMA ReceiveFacts ==
  ASSUME TypeOK, PlaceInv, Receive
  PROVE  /\ Head(inbox) \in Datagrams /\ inbox' \in Seq(Datagrams)
         /\ Len(inbox) \in Nat \ {0} /\ Len(inbox') = Len(inbox) - 1
         /\ \A i \in DOMAIN inbox' : i + 1 \in DOMAIN inbox /\ inbox'[i] = inbox[i + 1]
         /\ \/ Head(inbox).seq # seq /\ samples' = samples
            \/ /\ Head(inbox).seq = seq
               /\ Len(samples') = Len(samples) + 1 /\ samples' \in Seq(Echoes)
               /\ \A i \in DOMAIN samples : samples'[i] = samples[i]
               /\ samples'[Len(samples) + 1].seq = seq
               /\ samples'[Len(samples) + 1].echo = Head(inbox)
  <1> USE NetworkAssumption
  <1>1. inbox \in Seq(Datagrams) /\ inbox # <<>> /\ inbox' = Tail(inbox)
    BY DEF Receive, TypeOK
  <1>2. CASE Head(inbox).seq = seq
    <2>1. PICK rtt \in Rtts :
            samples' = Append(samples, [seq |-> seq, rtt |-> rtt, echo |-> Head(inbox)])
      BY <1>2 DEF Receive
    <2> DEFINE e == [seq |-> seq, rtt |-> rtt, echo |-> Head(inbox)]
    <2>2. e \in Echoes /\ e.seq = seq /\ e.echo = Head(inbox)
      BY <1>1 DEF Receive, PlaceInv, TypeOK, Echoes
    <2> HIDE DEF e
    <2>3. samples' = Append(samples, e) /\ samples \in Seq(Echoes)
      BY <2>1 DEF e, TypeOK
    <2> QED BY <1>1, <1>2, <2>2, <2>3
  <1>3. CASE Head(inbox).seq # seq
    BY <1>1, <1>3 DEF Receive
  <1> QED BY <1>2, <1>3

\* The report of a probe, field by field.
LEMMA ReportFields ==
  ASSUME NEW p \in Phases, AfterProbe, ReportInv
  PROVE  /\ reports' = [q \in Phases |-> reports'[q]]
         /\ p # phase => reports'[p] = reports[p]
         /\ phase \in Phases =>
              \/ /\ seq > Packets /\ reports'[phase].ok
                 /\ reports'[phase].received = Len(samples)
                 /\ reports'[phase].lost = Packets - Len(samples)
                 /\ reports'[phase].median = Median(Times)
                 /\ reports'[phase].jitter = Jitter(Times)
              \/ ~reports'[phase].ok
  BY DEF AfterProbe, ReportInv, Report, NoReport, Phases

\* The command goes from one probe to the next in order.
LEMMA PlaceStep ==
  ASSUME TypeOK, PlaceInv, [Next]_vars PROVE PlaceInv'
  <1> USE NetworkAssumption DEF TypeOK, PlaceInv, Phases, Goto, probeVars, loadVars, echoVars
  <1>1. ASSUME NEW c \in {"ping-probe", "bufferbloat"}, Begin(c) PROVE PlaceInv'
    BY <1>1 DEF Begin
  <1>2. CASE Bind
    BY <1>2 DEF Bind
  <1>3. CASE Send
    BY <1>3 DEF Send, NextSeq
  <1>4. CASE Receive
    BY <1>4 DEF Receive, NextSeq
  <1>5. CASE Timeout
    BY <1>5 DEF Timeout, NextSeq
  <1>6. CASE ProbeReturns
    BY <1>6 DEF ProbeReturns, AfterProbe
  <1>7. CASE StartLoad
    BY <1>7 DEF StartLoad
  <1>8. CASE StopLoad \/ Return \/ ServerEnds
    BY <1>8 DEF StopLoad, Return, ServerEnds
  <1>9. CASE JoinAndGrade
    BY <1>9 DEF JoinAndGrade
  <1>10. ASSUME NEW d \in air, Deliver(d) PROVE PlaceInv'
    BY <1>10 DEF Deliver
  <1>11. ASSUME NEW d \in air, Lose(d) PROVE PlaceInv'
    BY <1>11 DEF Lose
  <1>12. ASSUME NEW w \in Workers, WorkerEnds(w) PROVE PlaceInv'
    BY <1>12 DEF WorkerEnds
  <1>13. CASE UNCHANGED vars
    BY <1>13 DEF vars
  <1> QED
    BY <1>1, <1>2, <1>3, <1>4, <1>5, <1>6, <1>7, <1>8, <1>9, <1>10, <1>11, <1>12, <1>13
    DEF Next, Main, Probe, Command

\* The load threads are started and ended with the loaded probe.
LEMMA LoadStep ==
  ASSUME TypeOK, PlaceInv, LoadInv, [Next]_vars PROVE LoadInv'
  <1> USE NetworkAssumption DEF TypeOK, PlaceInv, LoadInv, Phases, Goto, probeVars,
        loadVars, echoVars
  <1>1. ASSUME NEW c \in {"ping-probe", "bufferbloat"}, Begin(c) PROVE LoadInv'
    BY <1>1 DEF Begin
  <1>2. CASE Bind
    BY <1>2 DEF Bind
  <1>3. CASE Send
    BY <1>3 DEF Send, NextSeq
  <1>4. CASE Receive
    BY <1>4 DEF Receive, NextSeq
  <1>5. CASE Timeout
    BY <1>5 DEF Timeout, NextSeq
  <1>6. CASE ProbeReturns
    BY <1>6 DEF ProbeReturns, AfterProbe
  <1>7. CASE StartLoad
    BY <1>7 DEF StartLoad
  <1>8. CASE StopLoad \/ Return \/ ServerEnds
    BY <1>8 DEF StopLoad, Return, ServerEnds
  <1>9. CASE JoinAndGrade
    BY <1>9 DEF JoinAndGrade
  <1>10. ASSUME NEW d \in air, Deliver(d) PROVE LoadInv'
    BY <1>10 DEF Deliver
  <1>11. ASSUME NEW d \in air, Lose(d) PROVE LoadInv'
    BY <1>11 DEF Lose
  <1>12. ASSUME NEW w \in Workers, WorkerEnds(w) PROVE LoadInv'
    BY <1>12 DEF WorkerEnds
  <1>13. CASE UNCHANGED vars
    BY <1>13 DEF vars
  <1> QED
    BY <1>1, <1>2, <1>3, <1>4, <1>5, <1>6, <1>7, <1>8, <1>9, <1>10, <1>11, <1>12, <1>13
    DEF Next, Main, Probe, Command

\* A probe ends with its socket, and takes a datagram only for the packet it answers.
LEMMA EchoStep ==
  ASSUME TypeOK, PlaceInv, EchoInv, [Next]_vars PROVE EchoInv'
  <1> USE NetworkAssumption DEF TypeOK, PlaceInv, EchoInv, SampleIsItsEcho, Phases,
        Datagram, Goto, probeVars, loadVars, echoVars
  <1>1. ASSUME NEW c \in {"ping-probe", "bufferbloat"}, Begin(c) PROVE EchoInv'
    BY <1>1 DEF Begin
  <1>2. CASE Bind
    BY <1>2 DEF Bind
  <1>3. CASE Send
    BY <1>3 DEF Send, NextSeq
  <1>4. CASE Receive
    <2>1. /\ phase' = phase /\ air' = air /\ Head(inbox).phase = phase
          /\ inbox # <<>> /\ pc' \in {"send", "probed"}
      BY <1>4 DEF Receive, NextSeq
    <2>2. \A i \in DOMAIN inbox' : inbox'[i].phase = phase
      BY <1>4, ReceiveFacts
    <2>3. SampleIsItsEcho'
      <3> SUFFICES ASSUME NEW i \in DOMAIN samples'
                   PROVE  samples'[i].echo.seq = samples'[i].seq /\ samples'[i].echo.phase = phase
        BY <2>1
      <3>1. CASE i \in DOMAIN samples
        BY <1>4, <3>1, ReceiveFacts
      <3>2. CASE i \notin DOMAIN samples
        <4>1. i = Len(samples) + 1 /\ samples' # samples
          BY <1>4, <3>2, ReceiveFacts
        <4> QED BY <1>4, <2>1, <4>1, ReceiveFacts
      <3> QED BY <3>1, <3>2
    <2> QED BY <2>1, <2>2, <2>3
  <1>5. CASE Timeout
    BY <1>5 DEF Timeout, NextSeq
  <1>6. CASE ProbeReturns
    BY <1>6 DEF ProbeReturns, AfterProbe
  <1>7. CASE StartLoad
    BY <1>7 DEF StartLoad
  <1>8. CASE StopLoad \/ Return \/ ServerEnds
    BY <1>8 DEF StopLoad, Return, ServerEnds
  <1>9. CASE JoinAndGrade
    BY <1>9 DEF JoinAndGrade
  <1>10. ASSUME NEW d \in air, Deliver(d) PROVE EchoInv'
    BY <1>10 DEF Deliver
  <1>11. ASSUME NEW d \in air, Lose(d) PROVE EchoInv'
    BY <1>11 DEF Lose
  <1>12. ASSUME NEW w \in Workers, WorkerEnds(w) PROVE EchoInv'
    BY <1>12 DEF WorkerEnds
  <1>13. CASE UNCHANGED vars
    BY <1>13 DEF vars
  <1> QED
    BY <1>1, <1>2, <1>3, <1>4, <1>5, <1>6, <1>7, <1>8, <1>9, <1>10, <1>11, <1>12, <1>13
    DEF Next, Main, Probe, Command

\* A datagram is delivered once, or doubled once, or lost.
LEMMA CountStep ==
  ASSUME TypeOK, PlaceInv, CountInv, EchoInv, [Next]_vars PROVE CountInv'
  <1> USE NetworkAssumption DEF TypeOK, PlaceInv, CountInv, Sent, Goto, probeVars, loadVars,
        echoVars
  <1>1. ASSUME NEW c \in {"ping-probe", "bufferbloat"}, Begin(c) PROVE CountInv'
    BY <1>1 DEF Begin
  <1>2. CASE Bind
    BY <1>2 DEF Bind
  <1>3. CASE Send
    <2>1. CASE air' = air \cup {Datagram(seq)}
      <3>1. IsFiniteSet(air) /\ Cardinality(air) \in Nat
        BY FS_CardinalityType
      <3>2. /\ IsFiniteSet(air') /\ Cardinality(air') \in Nat
            /\ Cardinality(air') <= Cardinality(air) + 1
        <4> HIDE DEF TypeOK, CountInv, PlaceInv
        <4> QED BY <2>1, <3>1, OneMore
      <3>3. pc = "send" /\ pc' \in {"receive", "send", "probed"}
        BY <1>3 DEF Send, NextSeq
      <3>4. CASE pc' = "receive"
        BY <1>3, <3>1, <3>2, <3>3, <3>4, SMTT(30) DEF Send, NextSeq
      <3>5. CASE pc' # "receive"
        BY <1>3, <3>1, <3>2, <3>3, <3>5, SMTT(30) DEF Send, NextSeq
      <3> QED BY <3>4, <3>5
    <2>2. CASE air' = air
      BY <1>3, <2>2, FS_CardinalityType, SMTT(30) DEF Send, NextSeq
    <2> QED BY <1>3, <2>1, <2>2 DEF Send
  <1>4. CASE Receive
    <2>1. air' = air /\ dropped' = dropped /\ disorder' = disorder
      BY <1>4 DEF Receive
    <2>2. Len(inbox') = Len(inbox) - 1 /\ Len(samples') <= Len(samples) + 1 /\ Len(samples') \in Nat
      BY <1>4, ReceiveFacts
    <2>3. seq' = seq + 1 /\ pc = "receive" /\ pc' # "receive"
      BY <1>4 DEF Receive, NextSeq
    <2>4. Sent' = Sent
      BY <2>3 DEF Sent
    <2>5. Len(inbox) \in Nat /\ Len(samples) \in Nat /\ Cardinality(air) \in Nat
      BY FS_CardinalityType
    <2> QED BY <2>1, <2>2, <2>3, <2>4, <2>5, SMTT(30)
  <1>5. CASE Timeout
    BY <1>5, FS_CardinalityType DEF Timeout, NextSeq
  <1>6. CASE ProbeReturns
    <2>1. air' = {} /\ inbox' = <<>> /\ pc' # "receive" /\ pc = "probed"
      BY <1>6 DEF ProbeReturns, AfterProbe
    <2> QED BY <1>6, <2>1, FS_EmptySet, FS_CardinalityType DEF ProbeReturns
  <1>7. CASE StartLoad
    BY <1>7, FS_EmptySet DEF StartLoad, EchoInv
  <1>8. CASE StopLoad \/ Return \/ ServerEnds
    BY <1>8 DEF StopLoad, Return, ServerEnds
  <1>9. CASE JoinAndGrade
    BY <1>9 DEF JoinAndGrade
  <1>10. ASSUME NEW d \in air, Deliver(d) PROVE CountInv'
    <2>1. Len(inbox') = Len(inbox) + 1 /\ Len(inbox) \in Nat
      BY <1>10 DEF Deliver
    <2>2. /\ IsFiniteSet(air \ {d}) /\ Cardinality(air) \in Nat
          /\ Cardinality(air \ {d}) = Cardinality(air) - 1
      BY <1>10, FS_RemoveElement, FS_CardinalityType DEF Deliver
    <2>3. Sent' = Sent /\ Sent \in Int /\ dropped' = dropped /\ samples' = samples /\ seq' = seq
      BY <1>10 DEF Deliver, Sent
    <2>4. \/ air' = air \ {d} /\ disorder' = disorder
          \/ air' = air /\ ~disorder /\ disorder'
      BY <1>10 DEF Deliver
    <2>5. dropped \in Int /\ Len(samples) <= seq - 1
      OBVIOUS
    <2>6. IsFiniteSet(air') /\ dropped' + Cardinality(air') <= Sent'
      <3> HIDE DEF TypeOK, PlaceInv, Sent
      <3>1. CASE air' = air \ {d}
        BY <2>2, <2>3, <2>5, <3>1
      <3>2. CASE air' = air
        BY <2>2, <2>3, <2>5, <3>2
      <3> QED BY <2>4, <3>1, <3>2
    <2>7. Len(inbox') + Cardinality(air') <= Sent' + (IF disorder' THEN 1 ELSE 0)
      <3> HIDE DEF TypeOK, PlaceInv, Sent
      <3>1. CASE air' = air \ {d} /\ disorder' = disorder
        BY <2>1, <2>2, <2>3, <3>1
      <3>2. CASE air' = air /\ ~disorder /\ disorder'
        BY <2>1, <2>2, <2>3, <3>2
      <3> QED BY <2>4, <3>1, <3>2
    <2>8. Len(samples') <= seq' - 1
      BY <2>3, <2>5
    <2> HIDE DEF TypeOK, PlaceInv, Sent
    <2> QED BY <2>6, <2>7, <2>8
  <1>11. ASSUME NEW d \in air, Lose(d) PROVE CountInv'
    <2>1. /\ IsFiniteSet(air \ {d}) /\ Cardinality(air) \in Nat
          /\ Cardinality(air \ {d}) = Cardinality(air) - 1
      BY <1>11, FS_RemoveElement, FS_CardinalityType DEF Lose
    <2> QED BY <1>11, <2>1, SMTT(30) DEF Lose
  <1>12. ASSUME NEW w \in Workers, WorkerEnds(w) PROVE CountInv'
    BY <1>12 DEF WorkerEnds
  <1>13. CASE UNCHANGED vars
    BY <1>13 DEF vars
  <1> QED
    BY <1>1, <1>2, <1>3, <1>4, <1>5, <1>6, <1>7, <1>8, <1>9, <1>10, <1>11, <1>12, <1>13
    DEF Next, Main, Probe, Command

\* While nothing comes late or twice, each packet is answered or dropped.
LEMMA LossStep ==
  ASSUME TypeOK, PlaceInv, EchoInv, LossInv, [Next]_vars PROVE LossInv'
  <1> USE NetworkAssumption DEF TypeOK, PlaceInv, LossInv, Sent, Datagram, Goto, probeVars,
        loadVars, echoVars
  <1>1. ASSUME NEW c \in {"ping-probe", "bufferbloat"}, Begin(c) PROVE LossInv'
    BY <1>1 DEF Begin
  <1>2. CASE Bind
    BY <1>2 DEF Bind
  <1>3. CASE Send
    BY <1>3 DEF Send, NextSeq
  <1>4. CASE Receive
    <2> SUFFICES ASSUME ~disorder' PROVE LossInv'
      OBVIOUS
    <2>1. ~disorder /\ inbox # <<>> /\ pc = "receive"
      BY <1>4 DEF Receive
    <2>2. /\ air = {} /\ inbox = <<Datagram(seq)>>
          /\ Len(samples) + dropped = seq - 1
      BY <2>1
    <2>3. Head(inbox).seq = seq /\ Tail(inbox) = <<>>
      BY <2>2
    <2>4. Len(samples') = Len(samples) + 1
      BY <1>4, <2>3, ReceiveFacts
    <2>5. /\ seq' = seq + 1 /\ air' = air /\ inbox' = Tail(inbox) /\ dropped' = dropped
          /\ pc' # "receive"
      BY <1>4 DEF Receive, NextSeq
    <2>6. /\ seq \in Nat /\ dropped \in Nat /\ Len(samples) \in Nat
          /\ Sent' = seq' - 1
      BY <2>5
    <2>7. Len(samples') + dropped' = Sent'
      <3> HIDE DEF TypeOK, PlaceInv, LossInv, Sent
      <3> QED BY <2>2, <2>4, <2>5, <2>6
    <2>8. air' = {} /\ inbox' = <<>>
      BY <2>2, <2>3, <2>5
    <2> QED BY <2>7, <2>8 DEF LossInv
  <1>5. CASE Timeout
    <2>1. CASE Datagram(seq) \in air
      BY <1>5, <2>1 DEF Timeout
    <2>2. CASE Datagram(seq) \notin air
      <3>1. disorder' = disorder /\ pc = "receive" /\ inbox = <<>>
        BY <1>5, <2>2 DEF Timeout
      <3>2. ~disorder => air = {} /\ Len(samples) + dropped = seq
        BY <2>2, <3>1
      <3> QED BY <1>5, <3>1, <3>2 DEF Timeout, NextSeq
    <2> QED BY <2>1, <2>2
  <1>6. CASE ProbeReturns
    BY <1>6 DEF ProbeReturns, AfterProbe
  <1>7. CASE StartLoad
    BY <1>7 DEF StartLoad, EchoInv
  <1>8. CASE StopLoad \/ Return \/ ServerEnds
    BY <1>8 DEF StopLoad, Return, ServerEnds
  <1>9. CASE JoinAndGrade
    BY <1>9 DEF JoinAndGrade
  <1>10. ASSUME NEW d \in air, Deliver(d) PROVE LossInv'
    <2> SUFFICES ASSUME ~disorder' PROVE LossInv'
      OBVIOUS
    <2>1. ~disorder /\ air' = air \ {d} /\ inbox' = Append(inbox, d)
      BY <1>10 DEF Deliver
    <2>2. air = {Datagram(seq)} /\ inbox = <<>> /\ pc = "receive"
      BY <2>1
    <2>3. d = Datagram(seq) /\ air' = {} /\ inbox' = <<Datagram(seq)>>
      BY <2>1, <2>2
    <2> QED BY <1>10, <2>1, <2>2, <2>3 DEF Deliver
  <1>11. ASSUME NEW d \in air, Lose(d) PROVE LossInv'
    <2> SUFFICES ASSUME ~disorder' PROVE LossInv'
      OBVIOUS
    <2>1. ~disorder /\ air' = air \ {d} /\ inbox' = inbox /\ dropped' = dropped + 1
      BY <1>11 DEF Lose
    <2>2. air = {Datagram(seq)} /\ inbox = <<>> /\ pc = "receive"
      BY <2>1
    <2>3. air' = {} /\ Len(samples) + dropped = seq - 1
      BY <2>1, <2>2
    <2> QED BY <1>11, <2>1, <2>2, <2>3, SMTT(30) DEF Lose
  <1>12. ASSUME NEW w \in Workers, WorkerEnds(w) PROVE LossInv'
    BY <1>12 DEF WorkerEnds
  <1>13. CASE UNCHANGED vars
    BY <1>13 DEF vars
  <1> QED
    BY <1>1, <1>2, <1>3, <1>4, <1>5, <1>6, <1>7, <1>8, <1>9, <1>10, <1>11, <1>12, <1>13
    DEF Next, Main, Probe, Command

\* A report is made of the samples, which stay until the next probe.
LEMMA ReportStep ==
  ASSUME TypeOK, PlaceInv, CountInv, ReportInv, [Next]_vars PROVE ReportInv'
  <1> USE NetworkAssumption DEF TypeOK, PlaceInv, ReportInv, Times, Phases, Goto, probeVars,
        loadVars, echoVars
  <1>1. ASSUME NEW c \in {"ping-probe", "bufferbloat"}, Begin(c) PROVE ReportInv'
    BY <1>1 DEF Begin
  <1>2. CASE Bind
    BY <1>2 DEF Bind
  <1>3. CASE Send
    BY <1>3 DEF Send, NextSeq
  <1>4. CASE Receive
    BY <1>4 DEF Receive, NextSeq
  <1>5. CASE Timeout
    BY <1>5 DEF Timeout, NextSeq
  <1>6. CASE ProbeReturns
    <2>1. AfterProbe /\ phase' = phase /\ seq' = seq /\ samples' = samples
      BY <1>6 DEF ProbeReturns
    <2>2. pc = "probed" /\ pc' \notin {"idle", "bind", "send", "receive", "probed"}
      BY <2>1 DEF AfterProbe
    <2>3. phase = "unloaded" => reports'["loaded"] = reports["loaded"]
      BY <2>1, ReportFields
    <2>4. reports' = [q \in Phases |-> reports'[q]]
      BY <2>1, ReportFields
    <2>5. reports'[phase].ok => /\ seq > Packets /\ reports'[phase].lost = Packets - Len(samples)
                                /\ reports'[phase].median = Median(Times)
                                /\ reports'[phase].jitter = Jitter(Times)
      BY <2>1, ReportFields
    <2>6. reports'[phase].ok => seq = Packets + 1
      BY <2>5, SMTT(30)
    <2>7. phase' = "unloaded" => ~reports'["loaded"].ok
      BY <2>1, <2>3
    <2> HIDE DEF TypeOK, PlaceInv, Phases
    <2> QED BY <2>1, <2>2, <2>4, <2>5, <2>6, <2>7
  <1>7. CASE StartLoad
    BY <1>7 DEF StartLoad
  <1>8. CASE StopLoad \/ Return \/ ServerEnds
    BY <1>8 DEF StopLoad, Return, ServerEnds
  <1>9. CASE JoinAndGrade
    BY <1>9 DEF JoinAndGrade
  <1>10. ASSUME NEW d \in air, Deliver(d) PROVE ReportInv'
    BY <1>10 DEF Deliver
  <1>11. ASSUME NEW d \in air, Lose(d) PROVE ReportInv'
    BY <1>11 DEF Lose
  <1>12. ASSUME NEW w \in Workers, WorkerEnds(w) PROVE ReportInv'
    BY <1>12 DEF WorkerEnds
  <1>13. CASE UNCHANGED vars
    BY <1>13 DEF vars
  <1> QED
    BY <1>1, <1>2, <1>3, <1>4, <1>5, <1>6, <1>7, <1>8, <1>9, <1>10, <1>11, <1>12, <1>13
    DEF Next, Main, Probe, Command

\* The grade is given once, on the loss under load.
LEMMA GradeStep ==
  ASSUME TypeOK, PlaceInv, ReportInv, GradeInv, [Next]_vars PROVE GradeInv'
  <1> USE NetworkAssumption DEF TypeOK, PlaceInv, GradeInv, GoodGradeIsMeasured, Phases,
        Grades, Goto, probeVars, loadVars, echoVars
  <1>1. ASSUME NEW c \in {"ping-probe", "bufferbloat"}, Begin(c) PROVE GradeInv'
    BY <1>1 DEF Begin
  <1>2. CASE Bind
    BY <1>2 DEF Bind
  <1>3. CASE Send
    BY <1>3 DEF Send, NextSeq
  <1>4. CASE Receive
    BY <1>4 DEF Receive, NextSeq
  <1>5. CASE Timeout
    BY <1>5 DEF Timeout, NextSeq
  <1>6. CASE ProbeReturns
    BY <1>6 DEF ProbeReturns, AfterProbe
  <1>7. CASE StartLoad
    BY <1>7 DEF StartLoad
  <1>8. CASE StopLoad \/ Return \/ ServerEnds
    BY <1>8 DEF StopLoad, Return, ServerEnds
  <1>9. CASE JoinAndGrade
    <2>1. /\ phase = "loaded" /\ phase' = phase /\ samples' = samples
          /\ pc' = "graded"
      BY <1>9 DEF JoinAndGrade
    <2>2. CASE reports["loaded"].ok
      <3> DEFINE lost == reports["loaded"].lost
      <3>1. lost = Packets - Len(samples) /\ lost \in Int
        BY <2>1, <2>2 DEF ReportInv
      <3>2. grade' = from_latency_delta(Delta, lost)
        BY <1>9, <2>2 DEF JoinAndGrade
      <3>3. 20 * lost > Packets => grade' = "F"
        BY <3>2, GradeOf
      <3> QED BY <2>1, <3>1, <3>3
    <2>3. CASE ~reports["loaded"].ok
      BY <1>9, <2>1, <2>3 DEF JoinAndGrade
    <2> QED BY <2>2, <2>3
  <1>10. ASSUME NEW d \in air, Deliver(d) PROVE GradeInv'
    BY <1>10 DEF Deliver
  <1>11. ASSUME NEW d \in air, Lose(d) PROVE GradeInv'
    BY <1>11 DEF Lose
  <1>12. ASSUME NEW w \in Workers, WorkerEnds(w) PROVE GradeInv'
    BY <1>12 DEF WorkerEnds
  <1>13. CASE UNCHANGED vars
    BY <1>13 DEF vars
  <1> QED
    BY <1>1, <1>2, <1>3, <1>4, <1>5, <1>6, <1>7, <1>8, <1>9, <1>10, <1>11, <1>12, <1>13
    DEF Next, Main, Probe, Command

\* The types and the bounds are kept.
LEMMA TypeStep ==
  ASSUME TypeOK, PlaceInv, CountInv, ReportInv, CountInv', [Next]_vars PROVE TypeOK'
  <1> USE NetworkAssumption DEF TypeOK, PlaceInv, Phases, Goto, probeVars, loadVars, echoVars
  <1>1. ASSUME NEW c \in {"ping-probe", "bufferbloat"}, Begin(c) PROVE TypeOK'
    BY <1>1 DEF Begin
  <1>2. CASE Bind
    BY <1>2 DEF Bind
  <1>3. CASE Send
    <2>1. Datagram(seq) \in Datagrams
      BY <1>3 DEF Send, Datagram, Datagrams
    <2>2. dropped' <= Packets
      BY <1>3, FS_CardinalityType DEF Send, NextSeq, CountInv, Sent
    <2> QED BY <1>3, <2>1, <2>2 DEF Send, NextSeq
  <1>4. CASE Receive
    <2>1. inbox' \in Seq(Datagrams) /\ Len(inbox') <= Packets + 1
      BY <1>4, ReceiveFacts
    <2>2. samples' \in Seq(Echoes) /\ Len(samples') <= Packets
      <3>1. Len(samples) <= seq - 1 /\ seq <= Packets /\ Len(samples) \in Nat
        BY <1>4 DEF Receive, CountInv
      <3> QED BY <1>4, <3>1, ReceiveFacts
    <2> QED BY <1>4, <2>1, <2>2 DEF Receive, NextSeq
  <1>5. CASE Timeout
    BY <1>5 DEF Timeout, NextSeq
  <1>6. CASE ProbeReturns
    <2>1. AfterProbe
      BY <1>6 DEF ProbeReturns
    <2>2. \A p \in Phases : reports'[p].ok => reports'[p].received \in 0 .. Packets
      <3> SUFFICES ASSUME NEW p \in Phases, reports'[p].ok
                   PROVE  reports'[p].received \in 0 .. Packets
        OBVIOUS
      <3>1. CASE p = phase
        BY <2>1, <3>1, ReportFields
      <3>2. CASE p # phase
        BY <2>1, <3>2, ReportFields
      <3> QED BY <3>1, <3>2
    <2> QED BY <1>6, <2>1, <2>2 DEF ProbeReturns, AfterProbe
  <1>7. CASE StartLoad
    <2>1. <<>> \in Seq(Echoes) /\ Len(<<>>) = 0
      OBVIOUS
    <2>2. samples' \in Seq(Echoes) /\ Len(samples') <= Packets
      BY <1>7, <2>1 DEF StartLoad
    <2>3. worker' \in [Workers -> {"off", "running", "ended"}] /\ seq' \in 1 .. Packets + 1
      BY <1>7 DEF StartLoad
    <2>4. \A p \in Phases : reports'[p].ok => reports'[p].received \in 0 .. Packets
      BY <1>7 DEF StartLoad
    <2>5. /\ pc' = "bind" /\ phase' = "loaded" /\ loading' = TRUE
          /\ dropped' = 0 /\ disorder' = FALSE
          /\ UNCHANGED <<command, air, inbox, grade, serving, server>>
      BY <1>7 DEF StartLoad
    <2>6. 0 \in 0 .. Packets
      OBVIOUS
    <2> QED BY <2>2, <2>3, <2>4, <2>5, <2>6
  <1>8. CASE StopLoad \/ Return \/ ServerEnds
    BY <1>8 DEF StopLoad, Return, ServerEnds
  <1>9. CASE JoinAndGrade
    <2>1. grade' \in Grades \cup {"none"}
      BY <1>9, GradeOf DEF JoinAndGrade
    <2> QED BY <1>9, <2>1 DEF JoinAndGrade
  <1>10. ASSUME NEW d \in air, Deliver(d) PROVE TypeOK'
    <2>1. d \in Datagrams /\ inbox' = Append(inbox, d) /\ inbox' \in Seq(Datagrams)
      BY <1>10 DEF Deliver
    <2>2. Cardinality(air') \in Nat /\ Sent' \in Int /\ Sent' <= Packets /\ Len(inbox') \in Nat
      BY <1>10, <2>1, FS_CardinalityType, SMTT(30) DEF Deliver, CountInv, Sent
    <2>3. Len(inbox') <= Packets + 1
      <3>1. Len(inbox') + Cardinality(air') <= Sent' + (IF disorder' THEN 1 ELSE 0)
        BY DEF CountInv
      <3> HIDE DEF TypeOK, PlaceInv
      <3> QED BY <2>2, <3>1
    <2> QED BY <1>10, <2>1, <2>3, ZenonT(60) DEF Deliver
  <1>11. ASSUME NEW d \in air, Lose(d) PROVE TypeOK'
    <2>1. Cardinality(air') \in Nat /\ Sent' \in Int /\ Sent' <= Packets
      BY <1>11, FS_CardinalityType DEF Lose, CountInv, Sent
    <2>2. dropped' = dropped + 1 /\ dropped' <= Packets
      <3>1. dropped' = dropped + 1 /\ dropped' + Cardinality(air') <= Sent'
        BY <1>11 DEF Lose, CountInv
      <3> QED BY <2>1, <3>1
    <2> QED BY <1>11, <2>2 DEF Lose
  <1>12. ASSUME NEW w \in Workers, WorkerEnds(w) PROVE TypeOK'
    BY <1>12 DEF WorkerEnds
  <1>13. CASE UNCHANGED vars
    BY <1>13 DEF vars
  <1> QED
    BY <1>1, <1>2, <1>3, <1>4, <1>5, <1>6, <1>7, <1>8, <1>9, <1>10, <1>11, <1>12, <1>13
    DEF Next, Main, Probe, Command

\* The inductive invariant holds throughout.
LEMMA NetworkInvariant == Spec => []NetworkInv
  <1>1. Init => NetworkInv
    <2> SUFFICES ASSUME Init PROVE NetworkInv
      OBVIOUS
    <2>1. TypeOK
      <3>1. /\ inbox \in Seq(Datagrams) /\ Len(inbox) = 0
            /\ samples \in Seq(Echoes) /\ Len(samples) = 0
        BY DEF Init
      <3>2. \A p \in Phases : ~reports[p].ok
        BY DEF Init, NoReport
      <3>3. 1 \in 1 .. Packets + 1 /\ 0 \in 0 .. Packets /\ 0 <= Packets
        BY NetworkAssumption
      <3>4. worker \in [Workers -> {"off", "running", "ended"}]
        BY DEF Init
      <3>5. /\ inbox \in Seq(Datagrams) /\ Len(inbox) <= Packets + 1
            /\ samples \in Seq(Echoes) /\ Len(samples) <= Packets
        BY NetworkAssumption, <3>1
      <3>6. air \subseteq Datagrams
        BY DEF Init
      <3> QED BY <3>2, <3>3, <3>4, <3>5, <3>6 DEF Init, TypeOK, Phases
    <2>2. CountInv
      BY FS_EmptySet DEF Init, CountInv, Sent
    <2>3. PlaceInv /\ LoadInv /\ EchoInv
      BY NetworkAssumption DEF Init, PlaceInv, LoadInv, EchoInv, SampleIsItsEcho
    <2>4. LossInv /\ GradeInv
      BY DEF Init, LossInv, GradeInv, GoodGradeIsMeasured, Sent, Grades
    <2>5. ReportInv
      BY DEF Init, ReportInv, NoReport, Phases
    <2> QED BY <2>1, <2>2, <2>3, <2>4, <2>5 DEF NetworkInv
  <1>2. NetworkInv /\ [Next]_vars => NetworkInv'
    BY PlaceStep, LoadStep, EchoStep, CountStep, LossStep, ReportStep, GradeStep, TypeStep
    DEF NetworkInv
  <1> QED BY <1>1, <1>2, PTL DEF Spec

-----------------------------------------------------------------------------
(* The theorems                                                            *)

\* Every reachable state is well typed; in particular the socket never queues more than
\* one datagram beyond the packets of its probe.
THEOREM NetworkTypeCorrect == Spec => []TypeOK
  <1>1. NetworkInv => TypeOK
    BY DEF NetworkInv
  <1> QED BY <1>1, NetworkInvariant, PTL

\* A probe counts the time of a packet's own echo, whatever comes late or twice.
THEOREM SamplesAreEchoes == Spec => []SampleIsItsEcho
  <1>1. NetworkInv => SampleIsItsEcho
    BY DEF NetworkInv, EchoInv
  <1> QED BY <1>1, NetworkInvariant, PTL

\* On a network that only loses, the reported loss is the number of unanswered packets.
LEMMA ReportedLossIsExact == NetworkInv => LossIsExact
  BY NetworkAssumption
  DEF NetworkInv, TypeOK, PlaceInv, LossInv, ReportInv, Sent, LossIsExact

\* What a probe reports is of its samples: the loss is exact where nothing came late or
\* twice, at least half of the times lie on either side of the median, and the jitter is
\* within their range.
THEOREM ReportsAreOfTheProbe == Spec => []ReportIsOfTheProbe
  <1>1. NetworkInv => LossIsExact
    BY ReportedLossIsExact
  <1>2. ASSUME NetworkInv, reports[phase].ok, samples # <<>>
        PROVE  LET below == {i \in DOMAIN samples : 1000 * samples[i].rtt <= reports[phase].median}
                   above == {i \in DOMAIN samples : 1000 * samples[i].rtt >= reports[phase].median}
                   all   == {samples[i].rtt : i \in DOMAIN samples}
               IN  /\ 2 * Cardinality(below) >= Len(samples)
                   /\ 2 * Cardinality(above) >= Len(samples)
                   /\ reports[phase].jitter \in 0 .. 4096 * (Max(all) - Min(all))
    <2> DEFINE all == {samples[i].rtt : i \in DOMAIN samples}
               t == Times
    <2>1. /\ reports[phase].median = Median(t) /\ reports[phase].jitter = Jitter(t)
          /\ samples \in Seq(Echoes)
      BY <1>2 DEF NetworkInv, ReportInv, TypeOK
    <2>2. /\ t \in Seq(Nat) /\ DOMAIN t = DOMAIN samples /\ Len(t) = Len(samples) /\ t # <<>>
          /\ \A i \in DOMAIN samples : t[i] = samples[i].rtt
      <3>1. \A i \in DOMAIN samples : samples[i].rtt \in Nat
        <4>1. \A i \in DOMAIN samples : samples[i] \in Echoes
          BY <2>1
        <4>2. \A e \in Echoes : e.rtt \in Nat
          BY NetworkAssumption DEF Echoes
        <4> QED BY <4>1, <4>2
      <3> QED BY <1>2, <2>1, <3>1 DEF Times
    <2>3. /\ 2 * Cardinality({i \in DOMAIN samples : 1000 * samples[i].rtt <= Median(t)}) >= Len(samples)
          /\ 2 * Cardinality({i \in DOMAIN samples : 1000 * samples[i].rtt >= Median(t)}) >= Len(samples)
      <3>1. /\ {i \in DOMAIN samples : 1000 * samples[i].rtt <= Median(t)}
                 = {i \in DOMAIN t : 1000 * t[i] <= Median(t)}
            /\ {i \in DOMAIN samples : 1000 * samples[i].rtt >= Median(t)}
                 = {i \in DOMAIN t : 1000 * t[i] >= Median(t)}
        BY <2>2
      <3> HIDE DEF t
      <3>2. /\ 2 * Cardinality({i \in DOMAIN t : 1000 * t[i] <= Median(t)}) >= Len(t)
            /\ 2 * Cardinality({i \in DOMAIN t : 1000 * t[i] >= Median(t)}) >= Len(t)
        BY <2>2, MedianIsInTheMiddle
      <3> QED BY <2>2, <3>1, <3>2
    <2>4. all \subseteq Nat /\ all # {} /\ all = {t[i] : i \in DOMAIN t}
      BY <2>2
    <2>5. Min(all) \in all /\ \A y \in all : Min(all) <= y
      <3> HIDE DEF all
      <3> QED BY <2>4, MinIsLeast
    <2>6. Max(all) \in all /\ \A y \in all : y <= Max(all)
      <3>1. DOMAIN t # {}
        BY <2>2
      <3> HIDE DEF t
      <3>2. PICK j \in DOMAIN t : \A i \in DOMAIN t : t[i] <= t[j]
        BY <2>2, <3>1, Greatest
      <3>3. t[j] \in all /\ \A y \in all : y <= t[j]
        BY <2>4, <3>2
      <3> HIDE DEF all
      <3> QED BY <2>4, <3>3, MaxIsGreatest
    <2>7. Within(t, Min(all), Max(all))
      BY <2>4, <2>5, <2>6 DEF Within
    <2>8. Jitter(t) \in 0 .. 4096 * (Max(all) - Min(all))
      <3> HIDE DEF t, all
      <3> QED BY <2>2, <2>4, <2>5, <2>6, <2>7, JitterIsBounded
    <2> HIDE DEF t
    <2> QED BY <2>1, <2>3, <2>8
  <1>3. NetworkInv => ReportIsOfTheProbe
    BY <1>1, <1>2 DEF ReportIsOfTheProbe
  <1> QED BY <1>3, NetworkInvariant, PTL

\* A grade above F is given only for a loaded line that answered.
THEOREM GradesAreMeasured == Spec => []GoodGradeIsMeasured
  <1>1. NetworkInv => GoodGradeIsMeasured
    BY DEF NetworkInv, GradeInv
  <1> QED BY <1>1, NetworkInvariant, PTL

\* However the loaded probe ends, no load thread outlives the command.
THEOREM LoadEnds == Spec => []LoadEndsWithTest
  <1>1. NetworkInv => LoadEndsWithTest
    BY DEF NetworkInv, LoadInv, LoadEndsWithTest
  <1> QED BY <1>1, NetworkInvariant, PTL

=============================================================================
