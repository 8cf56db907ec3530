-------------------------------- MODULE Lemmas --------------------------------
(***************************************************************************)
(* What several proofs rest on: multiplication and division by a variable  *)
(* divisor; induction, stated of a set; what concatenating and summing     *)
(* along a sequence gives, which is where induction is needed; that a sort *)
(* has a result.                                                           *)
(***************************************************************************)
EXTENDS Integers, StableSort, SequencesExt, FiniteSetTheorems, WellFoundedInduction, TLAPS

\* Multiplying by the same natural keeps the order.
LEMMA TimesIsMonotonic ==
  ASSUME NEW x \in Int, NEW y \in Int, NEW z \in Nat, x <= y
  PROVE  x * z <= y * z
<1>1. (y - x) * z >= 0
  BY SMT
<1>2. (y - x) * z = y * z - x * z
  BY SMT
<1> QED
  BY <1>1, <1>2, SMT

\* A quotient is determined by a remainder in range.
LEMMA QuotientIsUnique ==
  ASSUME NEW a \in Int, NEW n \in Nat \ {0}, NEW q \in Int, NEW r \in 0..(n - 1),
         a = q * n + r
  PROVE  a \div n = q
<1> DEFINE p == a \div n
           s == a % n
<1>1. /\ p \in Int /\ s \in 0..(n - 1)
      /\ a = n * p + s
  BY Z3
<1>p. p = a \div n
  OBVIOUS
<1> HIDE DEF p, s
<1>2. CASE p < q
  <2>1. p + 1 <= q
    BY <1>1, <1>2
  <2>2. (p + 1) * n <= q * n
    BY <1>1, <2>1, TimesIsMonotonic
  <2> QED
    BY <1>1, <2>2, Z3
<1>3. CASE q < p
  <2>1. q + 1 <= p
    BY <1>1, <1>3
  <2>2. (q + 1) * n <= p * n
    BY <1>1, <2>1, TimesIsMonotonic
  <2> QED
    BY <1>1, <2>2, Z3
<1> QED
  BY <1>1, <1>2, <1>3, <1>p

\* Rounding up: a units fit in the items their ceiling counts, and no fewer.
LEMMA CeilingHoldsAll ==
  ASSUME NEW a \in Nat, NEW n \in Nat \ {0}
  PROVE  LET c == (a + n - 1) \div n IN
         /\ c \in Nat
         /\ a <= c * n
         /\ c * n < a + n
<1> DEFINE c == (a + n - 1) \div n
           r == (a + n - 1) % n
<1>1. /\ c \in Int /\ r \in 0..(n - 1)
      /\ a + n - 1 = n * c + r
  BY Z3
<1>c. c = (a + n - 1) \div n
  OBVIOUS
<1> HIDE DEF c, r
<1>2. n * c = c * n
  BY <1>1, Z3
<1>3. a <= c * n /\ c * n < a + n
  BY <1>1, <1>2
<1>4. c >= 0
  <2>1. CASE c <= -1
    <3>1. c * n <= (-1) * n
      BY <1>1, <2>1, TimesIsMonotonic
    <3> QED
      BY <1>1, <1>3, <3>1
  <2> QED
    BY <1>1, <2>1
<1> QED
  BY <1>1, <1>3, <1>4, <1>c

\* A quotient counts the whole items that fit, and one more would not.
LEMMA QuotientFits ==
  ASSUME NEW a \in Nat, NEW n \in Nat \ {0}
  PROVE  LET q == a \div n IN
         /\ q \in Nat
         /\ q * n <= a
         /\ a < (q + 1) * n
<1> DEFINE q == a \div n
           r == a % n
<1>1. /\ q \in Int /\ r \in 0..(n - 1)
      /\ a = n * q + r
  BY Z3
<1>q. q = a \div n
  OBVIOUS
<1> HIDE DEF q, r
<1>2. n * q = q * n /\ (q + 1) * n = q * n + n
  BY <1>1, Z3
<1>3. q >= 0
  <2>1. CASE q <= -1
    <3>1. q * n <= (-1) * n
      BY <1>1, <2>1, TimesIsMonotonic
    <3> QED
      BY <1>1, <1>2, <3>1
  <2> QED
    BY <1>1, <2>1
<1> QED
  BY <1>1, <1>2, <1>3, <1>q

\* Every set of naturals that has a member has a least one.
LEMMA LeastNumber == ASSUME NEW T, T \subseteq Nat, T # {} PROVE \E x \in T : \A y \in T : x <= y
<1> DEFINE R == {ss \in Nat \X Nat : ss[1] < ss[2]}
<1>1. IsWellFoundedOn(R, Nat)
  BY NatLessThanWellFounded DEF OpToRel
<1> HIDE DEF R
<1>2. \E x \in T : \A y \in T : ~(<<y, x>> \in R)
  BY <1>1, WFMin
<1>3. PICK x \in T : \A y \in T : ~(<<y, x>> \in R)
  BY <1>2
<1>4. ASSUME NEW y \in T PROVE x <= y
  <2>1. x \in Nat /\ y \in Nat /\ <<y, x>> \notin R
    BY <1>3
  <2>2. y < x => <<y, x>> \in R
    BY <2>1 DEF R
  <2> QED
    BY <2>1, <2>2
<1> QED
  BY <1>4

\* Induction, about a set and not a predicate, which no prover here could be
\* given: a set with 0 that is closed under successor has every natural.
LEMMA SetInduction == ASSUME NEW S, 0 \in S, \A n \in Nat : n \in S => n + 1 \in S PROVE Nat \subseteq S
<1> SUFFICES ASSUME Nat \ S # {} PROVE FALSE
  OBVIOUS
<1>1. PICK x \in Nat \ S : \A y \in Nat \ S : x <= y
  BY LeastNumber, Nat \ S \subseteq Nat
<1>2. x # 0 /\ x - 1 \in Nat /\ x - 1 \in S
  BY <1>1
<1> QED
  BY <1>1, <1>2

\* The same from 1 to a bound.
LEMMA InductionUpTo ==
  ASSUME NEW n \in Nat \ {0}, NEW S, 1 \in S, \A i \in 2..n : i - 1 \in S => i \in S
  PROVE  1..n \subseteq S
<1> DEFINE T == {k \in Nat : k + 1 \in 1..n => k + 1 \in S}
<1>1. 0 \in T
  OBVIOUS
<1>2. ASSUME NEW k \in Nat, k \in T
      PROVE  k + 1 \in T
  <2> DEFINE i == k + 1 + 1
  <2>1. i \in 2..n => i - 1 \in S
    BY <1>2
  <2> QED
    BY <2>1
<1> HIDE DEF T
<1>3. Nat \subseteq T
  BY <1>1, <1>2, SetInduction
<1>4. ASSUME NEW i \in 1..n
      PROVE  i \in S
  <2>1. i - 1 \in T /\ i - 1 + 1 = i
    BY <1>3
  <2> QED
    BY <2>1 DEF T
<1> QED
  BY <1>4

\* F holds the running concatenations of the first n sequences of s.
Cat(x, y) == x \o y
AreRuns(F, s, n) == F[1] = s[1] /\ \A i \in 2..n : F[i] = Cat(F[i - 1], s[i])

\* A flattening is the last of the running concatenations.
LEMMA FlattenIsLast ==
  ASSUME NEW n \in Nat \ {0}, NEW s, DOMAIN s = 1..n, Len(s) = n,
         NEW F, AreRuns(F, s, n)
  PROVE  FlattenSeq(s) = F[n]
<1> DEFINE Runs(g) == g = [i \in 1..n |-> IF i = 1 THEN s[i] ELSE Cat(g[i - 1], s[i])]
           G == CHOOSE g : Runs(g)
           H == [i \in 1..n |-> F[i]]
<1>1. FlattenSeq(s) = G[n]
  BY DEF FlattenSeq, Cat
<1>F. \A i \in 2..n : F[i] = Cat(F[i - 1], s[i])
  BY DEF AreRuns
<1>2. Runs(H)
  <2>1. ASSUME NEW i \in 1..n
        PROVE  H[i] = IF i = 1 THEN s[i] ELSE Cat(H[i - 1], s[i])
    <3>1. CASE i = 1
      BY <3>1 DEF AreRuns
    <3>2. CASE i # 1
      <4>1. i \in 2..n /\ i - 1 \in 1..n
        BY <3>2
      <4>2. H[i] = F[i] /\ H[i - 1] = F[i - 1]
        BY <4>1
      <4> HIDE DEF H
      <4> QED
        BY <3>2, <4>1, <4>2, <1>F
    <3> QED
      BY <3>1, <3>2
  <2>2. H = [i \in 1..n |-> H[i]]
    OBVIOUS
  <2> HIDE DEF H
  <2> QED
    BY <2>1, <2>2
<1> HIDE DEF H
<1>3. Runs(G)
  <2> HIDE DEF Runs
  <2> QED
    BY <1>2
<1> HIDE DEF G
<1>4. /\ G[1] = s[1]
      /\ \A i \in 2..n : G[i] = Cat(G[i - 1], s[i])
  <2>1. 1 \in 1..n
    OBVIOUS
  <2>2. ASSUME NEW i \in 2..n
        PROVE  i \in 1..n /\ i # 1
    OBVIOUS
  <2> QED
    BY <1>3, <2>1, <2>2
<1> HIDE DEF Runs
<1> DEFINE S == {i \in 1..n : G[i] = F[i]}
<1>5. 1 \in S
  BY <1>4 DEF AreRuns
<1>6. ASSUME NEW i \in 2..n, i - 1 \in S
      PROVE  i \in S
  <2>1. i \in 1..n /\ G[i - 1] = F[i - 1]
    BY <1>6
  <2>2. G[i] = F[i]
    BY <2>1, <1>4, <1>F
  <2> QED
    BY <2>1, <2>2
<1> HIDE DEF S
<1>7. n \in S
  <2>1. n \in 1..n
    OBVIOUS
  <2> QED
    BY <1>5, <1>6, <2>1, InductionUpTo
<1> QED
  BY <1>1, <1>7 DEF S

\* There are running concatenations of any n sequences.
LEMMA RunsExist ==
  ASSUME NEW X, NEW n \in Nat \ {0}, NEW s \in [1..n -> Seq(X)]
  PROVE  \E F \in [1..n -> Seq(X)] : AreRuns(F, s, n)
<1> DEFINE S == {k \in 1..n : \E F \in [1..k -> Seq(X)] : AreRuns(F, s, k)}
<1>C. ASSUME NEW x \in Seq(X), NEW y \in Seq(X)
      PROVE  Cat(x, y) \in Seq(X)
  BY DEF Cat
<1>0. 1 \in 1..n /\ n \in 1..n
  OBVIOUS
<1>1. 1 \in S
  <2> DEFINE H == [i \in 1..1 |-> s[1]]
  <2>1. H \in [1..1 -> Seq(X)]
    BY <1>0
  <2>2. AreRuns(H, s, 1)
    BY DEF AreRuns
  <2> HIDE DEF H
  <2> QED
    BY <1>0, <2>1, <2>2
<1>2. ASSUME NEW k \in 2..n, k - 1 \in S
      PROVE  k \in S
  <2>0. k \in 1..n /\ k - 1 \in 1..(k - 1)
    OBVIOUS
  <2>1. PICK F \in [1..(k - 1) -> Seq(X)] : AreRuns(F, s, k - 1)
    BY <1>2
  <2> DEFINE H == [i \in 1..k |-> IF i = k THEN Cat(F[k - 1], s[k]) ELSE F[i]]
  <2>2. Cat(F[k - 1], s[k]) \in Seq(X)
    BY <1>C, <2>0
  <2>3. H \in [1..k -> Seq(X)]
    <3>1. ASSUME NEW i \in 1..k, i # k
          PROVE  i \in 1..(k - 1)
      BY <3>1
    <3> QED
      BY <2>2, <3>1
  <2>4. H[1] = s[1]
    BY <2>1 DEF AreRuns
  <2>5. ASSUME NEW i \in 2..k
        PROVE  H[i] = Cat(H[i - 1], s[i])
    <3>1. i \in 1..k /\ i - 1 \in 1..k /\ i - 1 # k
      OBVIOUS
    <3>2. H[i - 1] = F[i - 1]
      BY <3>1
    <3>3. CASE i = k
      BY <3>1, <3>2, <3>3
    <3>4. CASE i # k
      <4>1. i \in 2..(k - 1) /\ H[i] = F[i]
        BY <3>1, <3>4
      <4> HIDE DEF H
      <4> QED
        BY <2>1, <3>2, <4>1 DEF AreRuns
    <3> QED
      BY <3>3, <3>4
  <2>6. AreRuns(H, s, k)
    <3> HIDE DEF H
    <3> QED
      BY <2>4, <2>5 DEF AreRuns
  <2> HIDE DEF H
  <2> QED
    BY <2>0, <2>3, <2>6
<1>3. n \in S
  <2> HIDE DEF S
  <2> QED
    BY <1>0, <1>1, <1>2, InductionUpTo
<1> QED
  BY <1>3

\* One sequence more to flatten is one more concatenation.
LEMMA FlattenOneMore ==
  ASSUME NEW X, NEW n \in Nat \ {0}, NEW s \in [1..n -> Seq(X)]
  PROVE  /\ FlattenSeq([i \in 1..(n - 1) |-> s[i]]) \in Seq(X)
         /\ FlattenSeq(s) = FlattenSeq([i \in 1..(n - 1) |-> s[i]]) \o s[n]
<1> DEFINE t == [i \in 1..(n - 1) |-> s[i]]
<1>s. Len(s) = n /\ DOMAIN s = 1..n
  OBVIOUS
<1>1. PICK F \in [1..n -> Seq(X)] : AreRuns(F, s, n)
  BY RunsExist
<1>2. FlattenSeq(s) = F[n]
  BY <1>1, <1>s, FlattenIsLast
<1>3. Len(t) = n - 1 /\ DOMAIN t = 1..(n - 1)
  OBVIOUS
<1>4. CASE n = 1
  <2>1. FlattenSeq(t) = t /\ t = <<>>
    BY <1>3, <1>4 DEF FlattenSeq
  <2>2. F[n] = s[n] /\ s[n] \in Seq(X)
    BY <1>1, <1>4 DEF AreRuns
  <2>3. s[n] = <<>> \o s[n]
    BY <2>2
  <2> QED
    BY <1>2, <2>1, <2>2, <2>3
<1>5. CASE n # 1
  <2>0. n - 1 \in Nat \ {0} /\ n - 1 \in 1..n /\ n \in 2..n
    BY <1>5
  <2>1. AreRuns(F, t, n - 1)
    <3>1. 1 \in 1..(n - 1) /\ \A i \in 2..(n - 1) : i \in 2..n /\ i \in 1..(n - 1)
      BY <2>0
    <3> QED
      BY <1>1, <3>1 DEF AreRuns
  <2>2. FlattenSeq(t) = F[n - 1]
    <3> HIDE DEF t
    <3> QED
      BY <1>3, <2>0, <2>1, FlattenIsLast
  <2>3. F[n] = F[n - 1] \o s[n] /\ F[n - 1] \in Seq(X)
    BY <1>1, <2>0 DEF AreRuns, Cat
  <2> QED
    BY <1>2, <2>2, <2>3
<1> QED
  BY <1>4, <1>5

\* F[i] is the sum of the first i numbers of s: what a function that is defined
\* by recursion on i satisfies, if there is one.
Sums(F, s, n) == F = [i \in 0..n |-> IF i = 0 THEN 0 ELSE F[i - 1] + s[i]]

\* There are sums of any n natural numbers.
LEMMA SumsExist ==
  ASSUME NEW n \in Nat, NEW s \in [1..n -> Nat]
  PROVE  \E F : Sums(F, s, n)
<1> DEFINE S == {k \in Nat : k <= n => \E F \in [0..k -> Nat] : Sums(F, s, k)}
<1>1. 0 \in S
  <2> DEFINE Z == [i \in 0..0 |-> 0]
  <2>1. Z \in [0..0 -> Nat] /\ Sums(Z, s, 0)
    BY DEF Sums
  <2> HIDE DEF Z
  <2> QED
    BY <2>1
<1>2. ASSUME NEW k \in Nat, k \in S
      PROVE  k + 1 \in S
  <2> SUFFICES ASSUME k + 1 <= n
               PROVE  \E F \in [0..(k + 1) -> Nat] : Sums(F, s, k + 1)
    OBVIOUS
  <2>1. PICK F \in [0..k -> Nat] : Sums(F, s, k)
    BY <1>2
  <2> DEFINE H == [i \in 0..(k + 1) |-> IF i = k + 1 THEN F[k] + s[k + 1] ELSE F[i]]
  <2>2. F[k] \in Nat /\ s[k + 1] \in Nat
    BY <2>1
  <2>3. /\ k + 1 \in 0..(k + 1) /\ k + 1 # 0
        /\ \A i \in 0..(k + 1) : i # k + 1 => i \in 0..k
        /\ \A i \in 0..(k + 1) : i # 0 => i - 1 \in 0..k
    OBVIOUS
  <2>4. H \in [0..(k + 1) -> Nat]
    BY <2>2, <2>3
  <2>5. \A i \in 0..k : H[i] = F[i]
    OBVIOUS
  <2>6. H[k + 1] = F[k] + s[k + 1]
    OBVIOUS
  <2> HIDE DEF H
  <2>7. ASSUME NEW i \in 0..(k + 1)
        PROVE  H[i] = IF i = 0 THEN 0 ELSE H[i - 1] + s[i]
    <3>1. CASE i = k + 1
      <4>1. i - 1 = k /\ i # 0 /\ k \in 0..k
        BY <3>1
      <4> QED
        BY <3>1, <4>1, <2>5, <2>6
    <3>2. CASE i # k + 1
      <4>1. i \in 0..k /\ F[i] = IF i = 0 THEN 0 ELSE F[i - 1] + s[i]
        BY <3>2, <2>1, <2>3 DEF Sums
      <4>2. i # 0 => H[i - 1] = F[i - 1]
        BY <2>3, <2>5
      <4> QED
        BY <4>1, <4>2, <2>5
    <3> QED
      BY <3>1, <3>2
  <2>8. Sums(H, s, k + 1)
    BY <2>4, <2>7 DEF Sums
  <2> QED
    BY <2>4, <2>8
<1> HIDE DEF S
<1>3. n \in S
  BY <1>1, <1>2, SetInduction
<1> QED
  BY <1>3 DEF S

\* Sums of natural numbers are natural numbers, and do not fall.
LEMMA SumsGrow ==
  ASSUME NEW n \in Nat, NEW s \in [1..n -> Nat], NEW F, Sums(F, s, n)
  PROVE  /\ F[0] = 0 /\ \A i \in 0..n : F[i] \in Nat
         /\ \A i \in 1..n : F[i] = F[i - 1] + s[i]
         /\ \A i, j \in 0..n : i <= j => F[i] <= F[j]
<1>1. /\ F[0] = 0
      /\ \A i \in 1..n : F[i] = F[i - 1] + s[i]
  BY DEF Sums
<1>2. ASSUME NEW k \in Nat, k + 1 <= n
      PROVE  F[k + 1] = F[k] + s[k + 1] /\ s[k + 1] \in Nat
  <2>1. k + 1 \in 1..n /\ k + 1 - 1 = k
    BY <1>2
  <2> QED
    BY <1>1, <2>1
<1> DEFINE S == {k \in Nat : k <= n => \A i \in 0..k : F[i] \in Nat /\ F[i] <= F[k]}
<1>3. 0 \in S
  BY <1>1
<1>4. ASSUME NEW k \in Nat, k \in S
      PROVE  k + 1 \in S
  <2> SUFFICES ASSUME k + 1 <= n
               PROVE  \A i \in 0..(k + 1) : F[i] \in Nat /\ F[i] <= F[k + 1]
    OBVIOUS
  <2>1. F[k + 1] = F[k] + s[k + 1] /\ s[k + 1] \in Nat
    BY <1>2
  <2>2. F[k] \in Nat /\ \A i \in 0..k : F[i] \in Nat /\ F[i] <= F[k]
    BY <1>4
  <2> DEFINE m == k + 1
  <2>3. \A i \in 0..m : i \in 0..k \/ i = m
    OBVIOUS
  <2>4. F[m] \in Nat /\ F[k] <= F[m]
    BY <2>1, <2>2
  <2> HIDE DEF m
  <2>5. ASSUME NEW i \in 0..m PROVE F[i] \in Nat /\ F[i] <= F[m]
    <3>1. CASE i \in 0..k
      <4>1. F[i] \in Nat /\ F[i] <= F[k]
        BY <3>1, <2>2
      <4> QED
        BY <4>1, <2>2, <2>4
    <3>2. CASE i = m
      BY <3>2, <2>4
    <3> QED
      BY <2>3, <3>1, <3>2
  <2> QED
    BY <2>4, <2>5 DEF m
<1> HIDE DEF S
<1>5. Nat \subseteq S
  BY <1>3, <1>4, SetInduction
<1>6. \A j \in 0..n : \A i \in 0..j : F[i] \in Nat /\ F[i] <= F[j]
  BY <1>5 DEF S
<1>7. \A i, j \in 0..n : i <= j => i \in 0..j
  OBVIOUS
<1> QED
  BY <1>1, <1>6, <1>7

\* Sums of numbers that begin alike agree as far as they do.
LEMMA SumsAgree ==
  ASSUME NEW p \in Nat, NEW s \in [1..p -> Nat], NEW F, Sums(F, s, p),
         NEW q \in Nat, NEW t \in [1..q -> Nat], NEW G, Sums(G, t, q),
         p <= q, \A j \in 1..p : s[j] = t[j]
  PROVE  \A j \in 0..p : F[j] = G[j]
<1>1. /\ F[0] = 0 /\ \A j \in 1..p : F[j] = F[j - 1] + s[j]
      /\ G[0] = 0 /\ \A j \in 1..q : G[j] = G[j - 1] + t[j]
  BY SumsGrow
<1> DEFINE S == {j \in Nat : j <= p => F[j] = G[j]}
<1>2. 0 \in S
  BY <1>1
<1>3. ASSUME NEW j \in Nat, j \in S PROVE j + 1 \in S
  <2> SUFFICES ASSUME j + 1 <= p PROVE F[j + 1] = G[j + 1]
    OBVIOUS
  <2>1. F[j] = G[j] /\ j + 1 \in 1..p /\ j + 1 \in 1..q /\ (j + 1) - 1 = j
    BY <1>3
  <2> QED
    BY <1>1, <2>1
<1> HIDE DEF S
<1>4. Nat \subseteq S
  BY <1>2, <1>3, SetInduction
<1> QED
  BY <1>4 DEF S

\* A set of places that holds every place below its own is a prefix.
LEMMA PrefixIsItsCount ==
    ASSUME NEW n \in Nat, NEW S \in SUBSET (1..n),
           \A j \in S : \A i \in 1..n : i <= j => i \in S
    PROVE  S = 1..Cardinality(S) /\ Cardinality(S) \in 0..n
<1> DEFINE T == {k \in Nat : k + 1 \notin S}
<1>1. n \in T /\ T \subseteq Nat
  OBVIOUS
<1>2. PICK k \in T : \A j \in T : k <= j
  <2> HIDE DEF T
  <2> QED BY <1>1, LeastNumber
<1>3. k \in Nat /\ k <= n /\ k + 1 \notin S
  BY <1>1, <1>2
<1>4. ASSUME NEW i \in 1..k PROVE i \in S
  <2>1. i - 1 \in Nat /\ i - 1 < k /\ (i - 1) + 1 = i
    BY <1>3
  <2> QED BY <2>1, <1>2, <1>3
<1>5. ASSUME NEW j \in S PROVE j \in 1..k
  <2>1. j \in 1..n
    OBVIOUS
  <2>2. CASE k + 1 <= j
    <3>1. k + 1 \in 1..n
      BY <1>3, <2>1, <2>2
    <3> QED BY <3>1, <2>2, <1>3
  <2> QED BY <1>3, <2>1, <2>2
<1>6. S = 1..k
  BY <1>4, <1>5
<1>7. Cardinality(1..k) = k
  BY <1>3, FS_Interval
<1> QED BY <1>3, <1>6, <1>7

\* g starts at b and goes on by the numbers of s.
AreTotals(g, b, s, n) ==
    /\ g \in [1..(n + 1) -> Nat]
    /\ g[1] = b /\ \A i \in 1..n : g[i + 1] = g[i] + s[i]
    /\ \A i, j \in 1..(n + 1) : i <= j => g[i] <= g[j]

\* There are running totals of any n numbers, from any start on.
LEMMA TotalsExist ==
  ASSUME NEW n \in Nat, NEW b \in Nat, NEW s \in [1..n -> Nat]
  PROVE  \E g : AreTotals(g, b, s, n)
<1>1. PICK F : Sums(F, s, n)
  BY SumsExist
<1>2. /\ F[0] = 0 /\ \A i \in 0..n : F[i] \in Nat
      /\ \A i \in 1..n : F[i] = F[i - 1] + s[i]
      /\ \A i, j \in 0..n : i <= j => F[i] <= F[j]
  BY <1>1, SumsGrow
<1> DEFINE g == [i \in 1..(n + 1) |-> b + F[i - 1]]
<1>3. \A i \in 1..(n + 1) : i - 1 \in 0..n
  OBVIOUS
<1>4. g \in [1..(n + 1) -> Nat] /\ g[1] = b
  BY <1>2, <1>3
<1>5. ASSUME NEW i \in 1..n PROVE g[i + 1] = g[i] + s[i]
  <2>1. i + 1 \in 1..(n + 1) /\ (i + 1) - 1 = i /\ i \in 1..(n + 1)
    OBVIOUS
  <2>2. F[i] = F[i - 1] + s[i] /\ F[i - 1] \in Nat /\ s[i] \in Nat
    BY <1>2, <1>3, <2>1
  <2>3. g[i + 1] = b + F[i] /\ g[i] = b + F[i - 1]
    BY <2>1
  <2> HIDE DEF g
  <2> QED BY <2>2, <2>3
<1>6. ASSUME NEW i \in 1..(n + 1), NEW j \in 1..(n + 1), i <= j PROVE g[i] <= g[j]
  <2>1. F[i - 1] <= F[j - 1] /\ F[i - 1] \in Nat /\ F[j - 1] \in Nat
    BY <1>2, <1>3, <1>6
  <2> QED BY <2>1
<1> HIDE DEF g
<1>7. \A i \in 1..n : g[i + 1] = g[i] + s[i]
  BY <1>5
<1>8. \A i, j \in 1..(n + 1) : i <= j => g[i] <= g[j]
  BY <1>6
<1> QED BY <1>4, <1>7, <1>8 DEF AreTotals

\* Running totals are numbers, and do not fall.
LEMMA TotalsGrow ==
  ASSUME NEW n \in Nat, NEW b \in Nat, NEW s \in [1..n -> Nat],
         NEW h, h[1] = b, \A i \in 1..n : h[i + 1] = h[i] + s[i]
  PROVE  /\ \A i \in 1..(n + 1) : h[i] \in Nat
         /\ \A i, j \in 1..(n + 1) : i <= j => h[i] <= h[j]
<1>0. PICK g : AreTotals(g, b, s, n)
  BY TotalsExist
<1>1. /\ g[1] = b /\ \A i \in 1..n : g[i + 1] = g[i] + s[i]
      /\ \A i \in 1..(n + 1) : g[i] \in Nat
      /\ \A i, j \in 1..(n + 1) : i <= j => g[i] <= g[j]
  BY <1>0 DEF AreTotals
<1> DEFINE S == {k \in Nat : k <= n => h[k + 1] = g[k + 1]}
<1>2. 0 \in S
  BY <1>1
<1>3. ASSUME NEW k \in Nat, k \in S PROVE k + 1 \in S
  <2> SUFFICES ASSUME k + 1 <= n PROVE h[(k + 1) + 1] = g[(k + 1) + 1]
    OBVIOUS
  <2>1. k + 1 \in 1..n /\ h[k + 1] = g[k + 1]
    BY <1>3
  <2> QED BY <1>1, <2>1
<1>4. Nat \subseteq S
  <2> HIDE DEF S
  <2> QED BY <1>2, <1>3, SetInduction
<1>5. \A i \in 1..(n + 1) : h[i] = g[i]
  <2>1. \A i \in 1..(n + 1) : i - 1 \in Nat /\ i - 1 <= n /\ (i - 1) + 1 = i
    OBVIOUS
  <2> QED BY <1>4, <2>1
<1> QED BY <1>1, <1>5

\* A flattening of sequences over a set is a sequence over it.
LEMMA FlattenIsSeq ==
  ASSUME NEW X, NEW n \in Nat, NEW s \in [1..n -> Seq(X)]
  PROVE  FlattenSeq(s) \in Seq(X)
<1>1. CASE n = 0
  <2>1. Len(s) = 0 /\ s = <<>>
    BY <1>1
  <2>2. FlattenSeq(s) = s
    BY <2>1 DEF FlattenSeq
  <2>3. <<>> \in Seq(X)
    OBVIOUS
  <2> QED
    BY <2>1, <2>2, <2>3, Zenon
<1>2. CASE n # 0
  <2>1. n \in Nat \ {0} /\ s[n] \in Seq(X)
    BY <1>2
  <2>2. /\ FlattenSeq([i \in 1..(n - 1) |-> s[i]]) \in Seq(X)
        /\ FlattenSeq(s) = FlattenSeq([i \in 1..(n - 1) |-> s[i]]) \o s[n]
    BY <2>1, FlattenOneMore
  <2>3. \A x, y \in Seq(X) : x \o y \in Seq(X)
    OBVIOUS
  <2> QED
    BY <2>1, <2>2, <2>3, Zenon
<1> QED
  BY <1>1, <1>2

\* Every set of naturals that has a member and a bound has a greatest one.
LEMMA GreatestNumber ==
  ASSUME NEW n \in Nat, NEW T, T \subseteq 0..n, T # {}
  PROVE  \E x \in T : \A y \in T : y <= x
<1> DEFINE S == {k \in Nat : k <= n /\ n - k \in T}
<1>1. S # {}
  <2>1. PICK y \in T : TRUE
    OBVIOUS
  <2>2. n - y \in S /\ n - (n - y) = y
    BY <2>1
  <2> QED
    BY <2>2
<1>2. PICK k \in S : \A l \in S : k <= l
  BY <1>1, LeastNumber, S \subseteq Nat
<1>3. \A y \in T : n - y \in S
  OBVIOUS
<1> QED
  BY <1>2, <1>3

\* A claim goes from those to come to those that have been added.
LEMMA HeadToDone ==
  ASSUME NEW X, NEW done \in Seq(X), NEW more \in Seq(X), more # <<>>
  PROVE  /\ Head(more) \in X /\ Tail(more) \in Seq(X)
         /\ Append(done, Head(more)) \in Seq(X)
         /\ Append(done, Head(more)) \o Tail(more) = done \o more
<1>1. more[1] \in X /\ Head(more) = more[1] /\ Tail(more) \in Seq(X) /\ Len(more) \in Nat \ {0}
  OBVIOUS
<1>2. Len(Tail(more)) = Len(more) - 1 /\ \A i \in 1..(Len(more) - 1) : Tail(more)[i] = more[i + 1]
  OBVIOUS
<1> DEFINE h == Head(more)
           t == Tail(more)
<1>3. h \in X /\ t \in Seq(X) /\ more = <<h>> \o t
  BY <1>1, <1>2
<1> HIDE DEF h, t
<1>4. Append(done, h) = done \o <<h>> /\ Append(done, h) \in Seq(X) /\ <<h>> \in Seq(X)
  BY <1>3
<1>5. \A x, y, z \in Seq(X) : (x \o y) \o z = x \o (y \o z)
  OBVIOUS
<1>6. Append(done, h) \o t = done \o more
  BY <1>3, <1>4, <1>5
<1> QED
  BY <1>3, <1>4, <1>6 DEF h, t

\* Where every claim of a phase has been added, the next phase's come.
LEMMA NextClaims ==
  ASSUME NEW X, NEW done \in Seq(X), NEW more \in Seq(X), NEW before,
         done \o <<>> = before
  PROVE  done = before /\ done \o more = before \o more
<1>1. done \o <<>> = done
  OBVIOUS
<1> QED
  BY <1>1

\* Keys that are compared as keys are: no pair both ways, and what is between
\* two keys or beside them is after the one or before the other.
Compares(n, before) ==
  /\ \A a, b \in 1..n : ~(<<a, b>> \in before /\ <<b, a>> \in before)
  /\ \A a, b, c \in 1..n : <<a, c>> \in before => <<a, b>> \in before \/ <<b, c>> \in before

IsOrder(order, n, before) == order \in StableOrders(n, before)

\* A stable sort of one position more puts it after the last that is not
\* greater.
LEMMA InsertStable ==
  ASSUME NEW n \in Nat, NEW before, Compares(n + 1, before),
         NEW o, IsOrder(o, n, before)
  PROVE  \E q : IsOrder(q, n + 1, before)
<1> DEFINE new == n + 1
           T == {p \in 0..n : \A j \in 1..n : j > p => <<new, o[j]>> \in before}
<1>o. /\ o \in [1..n -> 1..n]
      /\ \A k \in 1..n : \E i \in 1..n : o[i] = k
      /\ \A i, j \in 1..n : i < j =>
           /\ <<o[j], o[i]>> \notin before
           /\ <<o[i], o[j]>> \in before \/ o[i] < o[j]
  BY DEF IsOrder, StableOrders
<1>c. /\ \A a, b \in 1..new : ~(<<a, b>> \in before /\ <<b, a>> \in before)
      /\ \A a, b, c \in 1..new : <<a, c>> \in before => <<a, b>> \in before \/ <<b, c>> \in before
  BY DEF Compares
<1>1. PICK p \in T : \A x \in T : p <= x
  <2>1. n \in T
    OBVIOUS
  <2> QED
    BY <2>1, LeastNumber, T \subseteq Nat
<1>2. p \in 0..n /\ \A j \in 1..n : j > p => <<new, o[j]>> \in before
  BY <1>1
<1>3. ASSUME NEW i \in 1..n, i <= p
      PROVE  <<new, o[i]>> \notin before
  <2>1. p - 1 \in 0..n /\ p - 1 \notin T /\ p \in 1..n
    BY <1>1, <1>2, <1>3
  <2>2. PICK j \in 1..n : j > p - 1 /\ <<new, o[j]>> \notin before
    BY <2>1
  <2>3. j = p
    BY <2>2, <1>2, <2>1
  <2>4. CASE i = p
    BY <2>2, <2>3, <2>4
  <2>5. CASE i # p
    <3>0. p \in 1..n /\ i < p
      BY <2>5, <1>3, <2>1
    <3>1. <<o[p], o[i]>> \notin before
      BY <3>0, <1>o
    <3>2. o[i] \in 1..new /\ o[p] \in 1..new /\ new \in 1..new
      <4>1. o[i] \in 1..n /\ o[p] \in 1..n
        BY <1>o, <3>0
      <4> QED
        BY <4>1
    <3> QED
      BY <3>1, <3>2, <2>2, <2>3, <1>c
  <2> QED
    BY <2>4, <2>5
<1> HIDE DEF T
<1> DEFINE q == [i \in 1..new |-> IF i <= p THEN o[i] ELSE IF i = p + 1 THEN new ELSE o[i - 1]]
<1>4. /\ \A i \in 1..p : i \in 1..n /\ i \in 1..new /\ q[i] = o[i]
      /\ p + 1 \in 1..new /\ q[p + 1] = new
      /\ \A i \in (p + 2)..new : i - 1 \in 1..n /\ i \in 1..new /\ q[i] = o[i - 1] /\ i - 1 > p
  BY <1>2
<1>5. \A i \in 1..new : i \in 1..p \/ i = p + 1 \/ i \in (p + 2)..new
  BY <1>2
<1>q. q = [i \in 1..new |-> q[i]]
  OBVIOUS
<1> HIDE DEF q
<1>6. ASSUME NEW i \in 1..new
      PROVE  q[i] \in 1..new
  <2>1. \A k \in 1..n : o[k] \in 1..new
    BY <1>o
  <2>2. CASE i \in 1..p
    BY <2>1, <2>2, <1>4
  <2>3. CASE i = p + 1
    BY <2>3, <1>4
  <2>4. CASE i \in (p + 2)..new
    BY <2>1, <2>4, <1>4
  <2> QED
    BY <2>2, <2>3, <2>4, <1>5
<1>7. ASSUME NEW k \in 1..new
      PROVE  \E i \in 1..new : q[i] = k
  <2>1. CASE k = new
    BY <2>1, <1>4
  <2>2. CASE k # new
    <3>1. PICK i \in 1..n : o[i] = k
      BY <1>o, <2>2
    <3>2. CASE i <= p
      BY <3>1, <3>2, <1>4
    <3>3. CASE i > p
      <4>1. i + 1 \in (p + 2)..new /\ i + 1 - 1 = i
        BY <3>3, <1>2
      <4> QED
        BY <4>1, <1>4, <3>1
    <3> QED
      BY <3>2, <3>3, <1>2
  <2> QED
    BY <2>1, <2>2
<1>8. ASSUME NEW i \in 1..new, NEW j \in 1..new, i < j
      PROVE  /\ <<q[j], q[i]>> \notin before
             /\ <<q[i], q[j]>> \in before \/ q[i] < q[j]
  <2>1. CASE i \in 1..p /\ j \in 1..p
    BY <2>1, <1>4, <1>8, <1>o
  <2>2. CASE i \in 1..p /\ j = p + 1
    <3>1. i \in 1..n /\ q[i] = o[i] /\ q[j] = new /\ i <= p
      BY <2>2, <1>4
    <3>2. <<new, o[i]>> \notin before /\ o[i] \in 1..n
      BY <3>1, <1>3, <1>o
    <3> QED
      BY <3>1, <3>2
  <2>3. CASE i \in 1..p /\ j \in (p + 2)..new
    <3>1. i \in 1..n /\ j - 1 \in 1..n /\ i < j - 1 /\ q[i] = o[i] /\ q[j] = o[j - 1]
      BY <2>3, <1>4, <1>2
    <3> QED
      BY <3>1, <1>o
  <2>4. CASE i = p + 1 /\ j \in (p + 2)..new
    <3>1. j - 1 \in 1..n /\ q[i] = new /\ q[j] = o[j - 1] /\ <<new, o[j - 1]>> \in before
      BY <2>4, <1>4, <1>2
    <3>2. o[j - 1] \in 1..new /\ new \in 1..new
      BY <3>1, <1>o
    <3> QED
      BY <3>1, <3>2, <1>c
  <2>5. CASE i \in (p + 2)..new /\ j \in (p + 2)..new
    <3>1. i - 1 \in 1..n /\ j - 1 \in 1..n /\ i - 1 < j - 1 /\ q[i] = o[i - 1] /\ q[j] = o[j - 1]
      BY <2>5, <1>4, <1>8
    <3> QED
      BY <3>1, <1>o
  <2>6. /\ i \in 1..p \/ i = p + 1 \/ i \in (p + 2)..new
        /\ j \in 1..p \/ j = p + 1 \/ j \in (p + 2)..new
    BY <1>5
  <2>7. i = p + 1 => ~(j \in 1..p \/ j = p + 1)
    BY <1>8, <1>2
  <2>8. i \in (p + 2)..new => ~(j \in 1..p \/ j = p + 1)
    BY <1>8, <1>2
  <2>9. CASE i \in 1..p
    BY <2>1, <2>2, <2>3, <2>6, <2>9
  <2>10. CASE ~(i \in 1..p)
    BY <2>4, <2>5, <2>6, <2>7, <2>8, <2>10
  <2> QED
    BY <2>9, <2>10
<1>9. q \in StableOrders(new, before)
  <2>1. q \in [1..new -> 1..new]
    BY <1>6, <1>q
  <2> QED
    BY <2>1, <1>7, <1>8 DEF StableOrders
<1> QED
  BY <1>9 DEF IsOrder

\* Whatever the keys, there is a stable sort, and StableOrder is one.
LEMMA StableOrderSorts ==
  ASSUME NEW n \in Nat, NEW before, Compares(n, before)
  PROVE  IsOrder(StableOrder(n, before), n, before)
<1> DEFINE S == {k \in Nat : k <= n => \E o : IsOrder(o, k, before)}
<1>1. 0 \in S
  <2> DEFINE o == [i \in 1..0 |-> i]
  <2>1. o \in StableOrders(0, before)
    BY DEF StableOrders
  <2> HIDE DEF o
  <2> QED
    BY <2>1 DEF IsOrder
<1>2. ASSUME NEW k \in Nat, k \in S
      PROVE  k + 1 \in S
  <2> SUFFICES ASSUME k + 1 <= n PROVE \E o : IsOrder(o, k + 1, before)
    OBVIOUS
  <2>1. PICK o : IsOrder(o, k, before)
    BY <1>2
  <2>2. Compares(k + 1, before)
    <3>1. \A a \in 1..(k + 1) : a \in 1..n
      OBVIOUS
    <3> QED
      BY <3>1 DEF Compares
  <2> QED
    BY <2>1, <2>2, InsertStable
<1> HIDE DEF S
<1>3. n \in S
  BY <1>1, <1>2, SetInduction
<1>4. \E o : IsOrder(o, n, before)
  BY <1>3 DEF S
<1> QED
  BY <1>4 DEF IsOrder, StableOrder

\* What is at the places of a concatenation,
LEMMA PlacesOfConcat ==
  ASSUME NEW X, NEW s \in Seq(X), NEW t \in Seq(X)
  PROVE  /\ (s \o t) \in Seq(X) /\ Len(s \o t) = Len(s) + Len(t)
         /\ \A a \in 1..(Len(s) + Len(t)) :
              (s \o t)[a] = IF a <= Len(s) THEN s[a] ELSE t[a - Len(s)]
<1>1. (s \o t) \in Seq(X) /\ Len(s \o t) = Len(s) + Len(t)
  OBVIOUS
<1>2. ASSUME NEW a \in 1..(Len(s) + Len(t))
      PROVE  (s \o t)[a] = IF a <= Len(s) THEN s[a] ELSE t[a - Len(s)]
  OBVIOUS
<1> QED
  BY <1>1, <1>2

\* and at those of a sequence with one element taken out.
LEMMA PlacesOfRemoved ==
  ASSUME NEW X, NEW s \in Seq(X), NEW i \in 1..Len(s)
  PROVE  /\ RemoveAt(s, i) \in Seq(X) /\ Len(RemoveAt(s, i)) = Len(s) - 1
         /\ \A a \in 1..(Len(s) - 1) : RemoveAt(s, i)[a] = s[IF a < i THEN a ELSE a + 1]
<1> DEFINE n == Len(s)
           l == SubSeq(s, 1, i - 1)
           r == SubSeq(s, i + 1, n)
<1>1. i \in 1..n /\ n \in Nat
  OBVIOUS
<1>2. /\ l \in Seq(X) /\ Len(l) = i - 1
      /\ \A a \in 1..(i - 1) : l[a] = s[a]
  BY <1>1
<1>3. /\ r \in Seq(X) /\ Len(r) = IF i + 1 <= n THEN n - (i + 1) + 1 ELSE 0
      /\ \A a \in 1..(n - (i + 1) + 1) : r[a] = s[(i + 1) + a - 1]
  BY <1>1
<1> HIDE DEF l, r, n
<1>4. Len(r) = n - i /\ \A a \in 1..(n - i) : r[a] = s[a + i]
  <2>1. n - (i + 1) + 1 = n - i /\ (i + 1 <= n <=> i < n)
    BY <1>1
  <2>2. ASSUME NEW a \in 1..(n - i) PROVE (i + 1) + a - 1 = a + i
    BY <1>1
  <2> QED
    BY <1>1, <1>3, <2>1, <2>2
<1>5. (l \o r) \in Seq(X) /\ Len(l \o r) = n - 1
  <2>1. (l \o r) \in Seq(X) /\ Len(l \o r) = Len(l) + Len(r)
    BY <1>2, <1>3, PlacesOfConcat
  <2> QED
    BY <2>1, <1>1, <1>2, <1>4
<1>6. ASSUME NEW a \in 1..(n - 1) PROVE (l \o r)[a] = s[IF a < i THEN a ELSE a + 1]
  <2>1. a \in 1..(Len(l) + Len(r))
    BY <1>1, <1>2, <1>4
  <2>2. (l \o r)[a] = IF a <= Len(l) THEN l[a] ELSE r[a - Len(l)]
    BY <1>2, <1>3, <2>1, PlacesOfConcat
  <2>3. CASE a < i
    <3>1. a \in 1..(i - 1) /\ a <= i - 1
      BY <2>3, <1>1
    <3> QED
      BY <2>2, <2>3, <3>1, <1>2
  <2>4. CASE ~(a < i)
    <3>1. a - (i - 1) \in 1..(n - i) /\ a - (i - 1) + i = a + 1 /\ ~(a <= i - 1)
      BY <2>4, <1>1
    <3> QED
      BY <2>2, <2>4, <3>1, <1>2, <1>4
  <2> QED
    BY <2>3, <2>4
<1> QED
  BY <1>5, <1>6 DEF RemoveAt, l, r, n

\* A sort by keys that are numbers: every element, by ascending keys.
SortsBy(order, n, key) ==
  /\ order \in [1..n -> 1..n]
  /\ \A k \in 1..n : \E i \in 1..n : order[i] = k
  /\ \A i, j \in 1..n : i < j => key[order[i]] <= key[order[j]]

\* Python's sort is one.
LEMMA StableOrderByKey ==
  ASSUME NEW n \in Nat, NEW key \in [1..n -> Int]
  PROVE  SortsBy(StableOrder(n, {p \in (1..n) \X (1..n) : key[p[1]] < key[p[2]]}), n, key)
<1> DEFINE before == {p \in (1..n) \X (1..n) : key[p[1]] < key[p[2]]}
           o == StableOrder(n, before)
<1>1. ASSUME NEW a \in 1..n, NEW b \in 1..n PROVE <<a, b>> \in before <=> key[a] < key[b]
  <2>1. <<a, b>> \in (1..n) \X (1..n)
    OBVIOUS
  <2> QED
    BY <2>1
<1>2. \A a \in 1..n : key[a] \in Int
  OBVIOUS
<1> HIDE DEF before
<1>3. Compares(n, before)
  <2>1. ASSUME NEW a \in 1..n, NEW b \in 1..n
        PROVE  ~(<<a, b>> \in before /\ <<b, a>> \in before)
    <3>1. key[a] \in Int /\ key[b] \in Int
      BY <1>2
    <3> QED
      BY <1>1, <3>1
  <2>2. ASSUME NEW a \in 1..n, NEW b \in 1..n, NEW c \in 1..n, <<a, c>> \in before
        PROVE  <<a, b>> \in before \/ <<b, c>> \in before
    <3>1. key[a] \in Int /\ key[b] \in Int /\ key[c] \in Int
      BY <1>2
    <3>2. key[a] < key[b] \/ key[b] < key[c]
      BY <1>1, <2>2, <3>1
    <3> QED
      BY <1>1, <3>2
  <2> QED
    BY <2>1, <2>2 DEF Compares
<1>4. o \in StableOrders(n, before)
  BY <1>3, StableOrderSorts DEF IsOrder
<1> HIDE DEF o
<1>5. /\ o \in [1..n -> 1..n]
      /\ \A k \in 1..n : \E i \in 1..n : o[i] = k
      /\ \A i, j \in 1..n : i < j => <<o[j], o[i]>> \notin before
  BY <1>4 DEF StableOrders
<1>6. ASSUME NEW i \in 1..n, NEW j \in 1..n, i < j PROVE key[o[i]] <= key[o[j]]
  <2>1. o[i] \in 1..n /\ o[j] \in 1..n /\ <<o[j], o[i]>> \notin before
    BY <1>5, <1>6
  <2> QED
    BY <2>1, <1>1, <1>2
<1> QED
  BY <1>5, <1>6 DEF SortsBy, o, before

-----------------------------------------------------------------------------
\* A set of numbers in order.
InOrder(s, S) ==
  /\ IsFiniteSet(S) /\ Cardinality(S) \in Nat
  /\ s \in [1..Cardinality(S) -> S]
  /\ \A x \in S : \E i \in 1..Cardinality(S) : s[i] = x
  /\ \A i, j \in 1..Cardinality(S) : i < j => s[i] < s[j]

\* An order is a sequence, and one more number, greater than all, goes last.
LEMMA OneMoreInOrder ==
  ASSUME NEW S, S \subseteq Nat, NEW s, InOrder(s, S), NEW x \in Nat, \A y \in S : y < x
  PROVE  InOrder(Append(s, x), S \cup {x})
<1> DEFINE n == Cardinality(S)
           t == [i \in 1..(n + 1) |-> IF i <= n THEN s[i] ELSE x]
<1>1. /\ n \in Nat /\ s \in [1..n -> S] /\ IsFiniteSet(S)
      /\ \A y \in S : \E i \in 1..n : s[i] = y
      /\ \A i, j \in 1..n : i < j => s[i] < s[j]
  BY DEF InOrder
<1>2. x \notin S
  BY <1>1
<1>3. IsFiniteSet(S \cup {x}) /\ Cardinality(S \cup {x}) = n + 1
  BY <1>1, <1>2, FS_AddElement
<1> HIDE DEF n
<1>4. Append(s, x) = t
  <2>0. s \in [1..n -> Nat]
    BY <1>1
  <2>1. s \in Seq(Nat) /\ Len(s) = n
    BY <2>0, <1>1
  <2>2. Append(s, x) \in Seq(Nat) /\ Len(Append(s, x)) = n + 1
    BY <2>1
  <2>3. ASSUME NEW i \in 1..(n + 1) PROVE Append(s, x)[i] = IF i <= n THEN s[i] ELSE x
    BY <2>1, <1>1
  <2>4. PICK q : q = Append(s, x)
    OBVIOUS
  <2>5. q \in [1..(n + 1) -> Nat]
    <3>1. q \in Seq(Nat) /\ Len(q) = n + 1
      BY <2>2, <2>4
    <3> QED
      BY <3>1
  <2>6. t \in [1..(n + 1) -> Nat]
    <3>1. \A i \in 1..n : s[i] \in Nat
      BY <2>0
    <3>2. \A i \in 1..(n + 1) : i <= n => i \in 1..n
      BY <1>1
    <3> QED
      BY <3>1, <3>2
  <2>7. \A i \in 1..(n + 1) : q[i] = t[i]
    BY <2>3, <2>4
  <2> HIDE DEF t
  <2>8. q = t
    <3>1. q = [i \in 1..(n + 1) |-> q[i]] /\ t = [i \in 1..(n + 1) |-> t[i]]
      BY <2>5, <2>6
    <3> QED
      BY <3>1, <2>7, Zenon
  <2> QED
    BY <2>4, <2>8
<1>5. t \in [1..(n + 1) -> S \cup {x}]
  BY <1>1
<1>6. \A y \in S \cup {x} : \E i \in 1..(n + 1) : t[i] = y
  <2>1. t[n + 1] = x /\ n + 1 \in 1..(n + 1)
    BY <1>1
  <2>2. ASSUME NEW y \in S PROVE \E i \in 1..(n + 1) : t[i] = y
    <3>1. PICK i \in 1..n : s[i] = y
      BY <1>1
    <3>2. i \in 1..(n + 1) /\ t[i] = y
      BY <3>1, <1>1
    <3> QED
      BY <3>2
  <2> QED
    BY <2>1, <2>2
<1>7. ASSUME NEW i \in 1..(n + 1), NEW j \in 1..(n + 1), i < j PROVE t[i] < t[j]
  <2>1. i \in 1..n /\ i <= n
    BY <1>1, <1>7
  <2>0. t[i] = s[i] /\ s[i] \in S
    BY <1>1, <2>1
  <2>2. CASE j = n + 1
    <3>1. t[j] = x
      BY <2>2, <1>1
    <3> QED
      BY <2>0, <3>1
  <2>3. CASE j # n + 1
    <3>1. j \in 1..n /\ t[j] = s[j]
      BY <2>3, <1>1
    <3> QED
      BY <3>1, <2>0, <2>1, <1>1, <1>7
  <2> QED
    BY <2>2, <2>3
<1> HIDE DEF t
<1> QED
  <2> DEFINE R == S \cup {x}
  <2>1. IsFiniteSet(R) /\ Cardinality(R) = n + 1 /\ n + 1 \in Nat
    BY <1>1, <1>3
  <2>2. t \in [1..(n + 1) -> R] /\ \A y \in R : \E i \in 1..(n + 1) : t[i] = y
    BY <1>5, <1>6
  <2> HIDE DEF R
  <2>3. InOrder(t, R)
    BY <2>1, <2>2, <1>7 DEF InOrder
  <2> QED
    BY <2>3, <1>4 DEF R

\* Ascending puts a set in order.
LEMMA AscendingIsInOrder ==
  ASSUME NEW n \in Nat, NEW S, S \subseteq 1..n
  PROVE  InOrder(Ascending(S), S)
<1> DEFINE T == {k \in Nat : \A R \in SUBSET (1..k) : \E s : InOrder(s, R)}
<1>1. 0 \in T
  <2>1. ASSUME NEW R \in SUBSET (1..0) PROVE InOrder(<<>>, R)
    <3>1. R = {}
      OBVIOUS
    <3>2. IsFiniteSet(R) /\ Cardinality(R) = 0
      BY <3>1, FS_EmptySet
    <3>3. <<>> \in [1..0 -> R] /\ 1..0 = {}
      BY <3>1
    <3> QED
      BY <3>1, <3>2, <3>3 DEF InOrder
  <2> QED
    BY <2>1
<1>2. ASSUME NEW k \in Nat, k \in T PROVE k + 1 \in T
  <2>1. ASSUME NEW R \in SUBSET (1..(k + 1)) PROVE \E s : InOrder(s, R)
    <3>1. R \ {k + 1} \in SUBSET (1..k)
      OBVIOUS
    <3>2. PICK s : InOrder(s, R \ {k + 1})
      BY <3>1, <1>2
    <3>3. CASE k + 1 \in R
      <4>1. R = (R \ {k + 1}) \cup {k + 1} /\ R \ {k + 1} \subseteq Nat /\ k + 1 \in Nat
            /\ \A y \in R \ {k + 1} : y < k + 1
        BY <3>1, <3>3
      <4>2. InOrder(Append(s, k + 1), (R \ {k + 1}) \cup {k + 1})
        BY <3>2, <4>1, OneMoreInOrder
      <4> QED
        BY <4>1, <4>2
    <3>4. CASE k + 1 \notin R
      <4>1. R \ {k + 1} = R
        BY <3>4
      <4> QED
        BY <3>2, <4>1
    <3> QED
      BY <3>3, <3>4
  <2> QED
    BY <2>1
<1> HIDE DEF T
<1>3. n \in T
  BY <1>1, <1>2, SetInduction
<1>4. PICK s : InOrder(s, S)
  BY <1>3 DEF T
<1> QED
  BY <1>4 DEF InOrder, Ascending

\* There is one order of a set.
LEMMA OrderIsUnique ==
  ASSUME NEW S, S \subseteq Nat, NEW s, InOrder(s, S), NEW t, InOrder(t, S)
  PROVE  s = t
<1> DEFINE n == Cardinality(S)
           D == {i \in 1..n : s[i] # t[i]}
<1>1. /\ n \in Nat
      /\ s \in [1..n -> S] /\ t \in [1..n -> S]
      /\ \A x \in S : \E i \in 1..n : s[i] = x
      /\ \A x \in S : \E i \in 1..n : t[i] = x
      /\ \A i, j \in 1..n : i < j => s[i] < s[j]
      /\ \A i, j \in 1..n : i < j => t[i] < t[j]
  BY DEF InOrder
<1> HIDE DEF n
<1>2. ASSUME D # {} PROVE FALSE
  <2>1. PICK i \in D : \A j \in D : i <= j
    <3>1. D \subseteq Nat
      BY <1>1
    <3> QED
      BY <1>2, <3>1, LeastNumber
  <2>2. i \in 1..n /\ s[i] \in S /\ t[i] \in S /\ s[i] # t[i] /\ s[i] \in Nat /\ t[i] \in Nat
    BY <1>1, <2>1
  <2>3. \A j \in 1..n : j < i => s[j] = t[j]
    BY <2>1
  <2> HIDE DEF D
  <2>4. CASE s[i] < t[i]
    <3>1. PICK j \in 1..n : t[j] = s[i]
      BY <1>1, <2>2
    <3>2. j < i
      <4>1. t[j] < t[i] /\ j # i
        BY <3>1, <2>4, <2>2
      <4>2. ~(i < j)
        BY <1>1, <2>2, <3>1, <4>1
      <4> QED
        BY <4>1, <4>2, <2>2, <1>1
    <3>3. s[j] = s[i] /\ s[j] < s[i]
      BY <1>1, <2>2, <2>3, <3>1, <3>2
    <3> QED
      BY <3>3, <2>2
  <2>5. CASE t[i] < s[i]
    <3>1. PICK j \in 1..n : s[j] = t[i]
      BY <1>1, <2>2
    <3>2. j < i
      <4>1. s[j] < s[i] /\ j # i
        BY <3>1, <2>5, <2>2
      <4>2. ~(i < j)
        BY <1>1, <2>2, <3>1, <4>1
      <4> QED
        BY <4>1, <4>2, <2>2, <1>1
    <3>3. t[j] = t[i] /\ t[j] < t[i]
      BY <1>1, <2>2, <2>3, <3>1, <3>2
    <3> QED
      BY <3>3, <2>2
  <2> QED
    BY <2>2, <2>4, <2>5
<1> QED
  BY <1>1, <1>2

\* An order names each member once.
LEMMA OrderIsOnce ==
  ASSUME NEW S, S \subseteq Nat, NEW s, InOrder(s, S)
  PROVE  /\ s \in Seq(S) /\ DOMAIN s = 1..Len(s) /\ Len(s) \in Nat
         /\ \A i \in DOMAIN s : s[i] \in S
         /\ \A x \in S : \E i \in DOMAIN s : s[i] = x
         /\ \A i, j \in DOMAIN s : s[i] = s[j] => i = j
<1> DEFINE n == Cardinality(S)
<1>1. /\ n \in Nat /\ s \in [1..n -> S]
      /\ \A x \in S : \E i \in 1..n : s[i] = x
      /\ \A i, j \in 1..n : i < j => s[i] < s[j]
  BY DEF InOrder
<1> HIDE DEF n
<1>2. ASSUME NEW i \in 1..n, NEW j \in 1..n, s[i] = s[j] PROVE i = j
  <2>1. s[i] \in Nat /\ s[j] \in Nat
    BY <1>1
  <2>2. ~(i < j) /\ ~(j < i)
    BY <1>1, <1>2, <2>1
  <2> QED
    BY <2>2
<1>3. s \in Seq(S) /\ DOMAIN s = 1..n /\ Len(s) = n
  BY <1>1
<1> QED
  BY <1>1, <1>2, <1>3 DEF n

\* The greatest of some numbers up to one.
LEMMA MaxIsGreatest ==
  ASSUME NEW n \in Nat, NEW T, T \subseteq 0..n, T # {}
  PROVE  Max(T) \in T /\ \A y \in T : y <= Max(T)
<1>1. \E x \in T : \A y \in T : y <= x
  BY GreatestNumber
<1>2. \E x \in T : \A y \in T : x >= y
  BY <1>1
<1>3. Max(T) \in T /\ \A y \in T : Max(T) >= y
  BY <1>2 DEF Max
<1> QED
  BY <1>3

\* What an appended element adds.
LEMMA AppendedSet ==
  ASSUME NEW X, NEW s \in Seq(X), NEW x \in X
  PROVE  Append(s, x) \in Seq(X) /\ ToSet(Append(s, x)) = ToSet(s) \cup {x}
<1>1. /\ Append(s, x) \in Seq(X) /\ Len(s) \in Nat /\ DOMAIN s = 1..Len(s)
      /\ DOMAIN Append(s, x) = 1..(Len(s) + 1)
      /\ Append(s, x)[Len(s) + 1] = x
      /\ \A i \in 1..Len(s) : Append(s, x)[i] = s[i]
  OBVIOUS
<1> QED
  BY <1>1 DEF ToSet

\* A sequence is one over what is in it.
LEMMA SeqOfItsElements ==
  ASSUME NEW X, NEW s \in Seq(X)
  PROVE  s \in Seq(ToSet(s)) /\ DOMAIN s = 1..Len(s) /\ Len(s) \in Nat
<1>1. DOMAIN s = 1..Len(s) /\ Len(s) \in Nat
  OBVIOUS
<1>2. \A n \in 1..Len(s) : s[n] \in ToSet(s)
  BY <1>1 DEF ToSet
<1>3. s = [n \in 1..Len(s) |-> s[n]]
  OBVIOUS
<1> DEFINE T == ToSet(s)
<1> HIDE DEF T
<1>4. [n \in 1..Len(s) |-> s[n]] \in Seq(T)
  BY <1>1, <1>2 DEF T
<1> QED
  BY <1>1, <1>3, <1>4 DEF T

\* A count of some members of a set, when the set gains one.
LEMMA CountOneMore ==
  ASSUME NEW V, IsFiniteSet(V), NEW x, x \notin V, NEW S, S \subseteq V,
         NEW T, T \subseteq V \cup {x}, \A y \in V : y \in T <=> y \in S
  PROVE  Cardinality(T) = Cardinality(S) + (IF x \in T THEN 1 ELSE 0)
<1>1. IsFiniteSet(S) /\ Cardinality(S) \in Nat /\ x \notin S
  BY FS_Subset, FS_CardinalityType
<1>2. CASE x \in T
  <2>1. T = S \cup {x}
    BY <1>2
  <2> QED
    BY <1>1, <1>2, <2>1, FS_AddElement
<1>3. CASE x \notin T
  <2>1. T = S
    BY <1>3
  <2> QED
    BY <1>1, <1>3, <2>1
<1> QED
  BY <1>2, <1>3

\* A number above all goes last in the order.
LEMMA AscendingOneMore ==
  ASSUME NEW c \in Nat, NEW S, S \subseteq 1..c
  PROVE  /\ Ascending(S) \in Seq(1..c)
         /\ Ascending(S \cup {c + 1}) = Append(Ascending(S), c + 1)
<1>1. InOrder(Ascending(S), S)
  BY AscendingIsInOrder
<1>2. S \subseteq Nat /\ \A y \in S : y < c + 1
  OBVIOUS
<1>3. InOrder(Append(Ascending(S), c + 1), S \cup {c + 1})
  <2>1. c + 1 \in Nat
    OBVIOUS
  <2> QED
    BY <1>1, <1>2, <2>1, OneMoreInOrder
<1>4. S \cup {c + 1} \subseteq 1..(c + 1) /\ S \cup {c + 1} \subseteq Nat /\ c + 1 \in Nat
  OBVIOUS
<1>5. InOrder(Ascending(S \cup {c + 1}), S \cup {c + 1})
  BY <1>4, AscendingIsInOrder
<1>6. Ascending(S \cup {c + 1}) = Append(Ascending(S), c + 1)
  <2> DEFINE R == S \cup {c + 1}
             x == Ascending(R)
             y == Append(Ascending(S), c + 1)
  <2>1. InOrder(x, R) /\ InOrder(y, R) /\ R \subseteq Nat
    BY <1>3, <1>4, <1>5
  <2> HIDE DEF R, x, y
  <2>2. x = y
    BY <2>1, OrderIsUnique
  <2> QED
    BY <2>2 DEF R, x, y
<1>7. Ascending(S) \in Seq(S)
  BY <1>1, <1>2, OrderIsOnce
<1>8. ASSUME NEW s \in Seq(S) PROVE s \in Seq(1..c)
  <2>1. s = [j \in 1..Len(s) |-> s[j]] /\ Len(s) \in Nat /\ \A j \in 1..Len(s) : s[j] \in S
    OBVIOUS
  <2>2. \A j \in 1..Len(s) : s[j] \in 1..c
    BY <2>1
  <2>3. [j \in 1..Len(s) |-> s[j]] \in Seq(1..c)
    BY <2>1, <2>2
  <2> QED
    BY <2>1, <2>3
<1> QED
  BY <1>6, <1>7, <1>8

\* What is made of each element of a sequence,
Mapped(f, s) == [j \in DOMAIN s |-> f[s[j]]]

\* when it gains one.
LEMMA MappedOneMore ==
  ASSUME NEW c \in Nat, NEW s \in Seq(1..c), NEW f, NEW g, \A p \in 1..c : f[p] = g[p]
  PROVE  /\ Mapped(g, Append(s, c + 1)) = Append(Mapped(f, s), g[c + 1])
         /\ Mapped(g, s) = Mapped(f, s)
<1> DEFINE t == Append(s, c + 1)
           Z == {g[p] : p \in 1..(c + 1)}
           u == [j \in DOMAIN t |-> g[t[j]]]
           v == [j \in DOMAIN s |-> f[s[j]]]
           w == Append(v, g[c + 1])
           m == Len(s)
<1>1. /\ DOMAIN s = 1..m /\ m \in Nat /\ DOMAIN t = 1..(m + 1)
      /\ t[m + 1] = c + 1 /\ \A j \in 1..m : t[j] = s[j] /\ s[j] \in 1..c
  OBVIOUS
<1> HIDE DEF t, m
<1>2. \A p \in 1..(c + 1) : g[p] \in Z
  OBVIOUS
<1>3. \A p \in 1..c : p \in 1..(c + 1) /\ f[p] \in Z /\ f[p] = g[p]
  BY <1>2
<1>4. c + 1 \in 1..(c + 1) /\ g[c + 1] \in Z
  BY <1>2
<1> HIDE DEF Z
<1>5. v \in Seq(Z) /\ Len(v) = m /\ \A j \in 1..m : v[j] = f[s[j]]
  BY <1>1, <1>3
<1>6. \A j \in DOMAIN s : g[s[j]] = f[s[j]]
  BY <1>1, <1>3
<1>7. u \in [1..(m + 1) -> Z]
  <2>1. \A j \in 1..(m + 1) : t[j] \in 1..(c + 1)
    <3>1. \A j \in 1..(m + 1) : j \in 1..m \/ j = m + 1
      BY <1>1
    <3> QED
      BY <3>1, <1>1, <1>3, <1>4
  <2> QED
    BY <2>1, <1>1, <1>2
<1>8. \A j \in 1..(m + 1) : u[j] = g[t[j]]
  BY <1>1
<1> HIDE DEF u, v
<1>9. /\ w \in Seq(Z) /\ Len(w) = m + 1 /\ w[m + 1] = g[c + 1]
      /\ \A j \in 1..m : w[j] = v[j]
  BY <1>4, <1>5
<1> HIDE DEF w
<1>10. w \in [1..(m + 1) -> Z]
  BY <1>9
<1>11. \A j \in 1..(m + 1) : u[j] = w[j]
  <2>1. \A j \in 1..(m + 1) : j \in 1..m \/ j = m + 1
    BY <1>1
  <2>2. m + 1 \in 1..(m + 1)
    BY <1>1
  <2>3. \A j \in 1..m : j \in DOMAIN s /\ j \in 1..(m + 1)
    BY <1>1
  <2> QED
    BY <2>1, <2>2, <2>3, <1>1, <1>3, <1>5, <1>8, <1>9
<1>12. u = w
  <2>1. u = [j \in 1..(m + 1) |-> u[j]] /\ w = [j \in 1..(m + 1) |-> w[j]]
    BY <1>7, <1>10
  <2> QED
    BY <2>1, <1>11, Zenon
<1>13. [j \in DOMAIN s |-> g[s[j]]] = [j \in DOMAIN s |-> f[s[j]]]
  BY <1>6, Zenon
<1> QED
  BY <1>12, <1>13 DEF Mapped, u, v, w, t
=============================================================================
