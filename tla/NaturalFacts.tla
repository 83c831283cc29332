----------------------------- MODULE NaturalFacts -----------------------------
(***************************************************************************)
(* Natural numbers: induction, division, and lists of them in ascending    *)
(* order.                                                                  *)
(*                                                                         *)
(* Induction is stated for sets of numbers: a set is a value, so the       *)
(* provers can instantiate these where they cannot instantiate a theorem   *)
(* about every operator.  To prove P(n) for every n, take the set of the n *)
(* that have P.                                                            *)
(***************************************************************************)
EXTENDS Listing, WellFoundedInduction, TLAPS

Below == {p \in Nat \X Nat : p[1] < p[2]}

LEMMA LeastNatural ==
    ASSUME NEW S \in SUBSET Nat, S # {}
    PROVE  \E n \in S : \A m \in S : n <= m
<1>1. IsWellFoundedOn(Below, Nat)
  BY NatLessThanWellFounded DEF OpToRel, Below
<1>2. PICK n \in S : \A m \in S : ~(<<m, n>> \in Below)
  BY <1>1, WFMin
<1>3. \A m, k \in Nat : m < k => <<m, k>> \in Below
  BY DEF Below
<1>4. \A m \in S : ~(m < n)
  BY <1>2, <1>3
<1> QED BY <1>4

LEMMA StrongInduction ==
    ASSUME NEW S \in SUBSET Nat,
           \A n \in Nat : (\A m \in Nat : m < n => m \in S) => n \in S
    PROVE  S = Nat
<1> SUFFICES ASSUME Nat \ S # {}
             PROVE  FALSE
  OBVIOUS
<1>1. PICK n \in Nat \ S : \A m \in Nat \ S : n <= m
  BY LeastNatural
<1>2. \A m \in Nat : m < n => m \in S
  BY <1>1
<1> QED BY <1>1, <1>2

LEMMA Induction ==
    ASSUME NEW S \in SUBSET Nat, 0 \in S,
           \A n \in S : n + 1 \in S
    PROVE  S = Nat
<1>1. ASSUME NEW n \in Nat, \A m \in Nat : m < n => m \in S
      PROVE  n \in S
  <2>1. CASE n = 0
    BY <2>1
  <2>2. CASE n # 0
    <3>1. n - 1 \in S
      BY <1>1, <2>2
    <3> QED BY <3>1, <2>2
  <2> QED BY <2>1, <2>2
<1> QED BY <1>1, StrongInduction

\* A bounded set has a greatest member.
LEMMA GreatestNatural ==
    ASSUME NEW S \in SUBSET Nat, S # {}, NEW b \in Nat, \A n \in S : n <= b
    PROVE  \E n \in S : \A m \in S : m <= n
<1> DEFINE T == {b - n : n \in S}
<1>1. T \in SUBSET Nat /\ T # {}
  <2>1. \A n \in S : b - n \in Nat
    OBVIOUS
  <2> QED BY <2>1
<1>2. PICK d \in T : \A e \in T : d <= e
  BY <1>1, LeastNatural
<1>3. PICK n \in S : d = b - n
  BY <1>2
<1>4. \A m \in S : b - n <= b - m
  BY <1>2, <1>3
<1> QED BY <1>3, <1>4

----------------------------------------------------------------------------
(* Products, quotients and rests.                                          *)

LEMMA ProductPositive ==
    ASSUME NEW n \in Nat \ {0}, NEW k \in Nat \ {0}
    PROVE  n * k \in Nat \ {0}
OBVIOUS

LEMMA QuotientNat ==
    ASSUME NEW n \in Nat, NEW k \in Nat \ {0}
    PROVE  n \div k \in Nat /\ n \div k =< n
OBVIOUS

LEMMA Division ==
    ASSUME NEW n \in Nat, NEW k \in Nat \ {0}
    PROVE  n \div k \in Int /\ n = k * (n \div k) + (n % k)
OBVIOUS

LEMMA QuotientAndRest ==
    ASSUME NEW n \in Nat, NEW k \in Nat \ {0}
    PROVE  \E q, r \in Nat : n = k * q + r /\ r < k
<1>1. n \div k \in Nat /\ n = k * (n \div k) + (n % k)
  BY QuotientNat, Division
<1>2. n % k \in Nat /\ n % k < k
  OBVIOUS
<1> QED BY <1>1, <1>2

LEMMA NextMultiple ==
    ASSUME NEW a \in Nat, NEW b \in Nat, NEW k \in Nat, a < b
    PROVE  a * k + k <= b * k
<1> DEFINE e == b - a - 1
<1>1. e \in Nat /\ b = a + 1 + e
  OBVIOUS
<1> HIDE DEF e
<1>2. b * k = a * k + k + e * k
  BY <1>1
<1>3. e * k \in Nat /\ a * k \in Nat
  BY <1>1
<1> QED BY <1>2, <1>3

LEMMA ChunksCover ==
    ASSUME NEW n \in Nat, NEW k \in Nat \ {0}
    PROVE  /\ (n + k - 1) \div k \in Nat
           /\ n <= ((n + k - 1) \div k) * k
<1> DEFINE q == (n + k - 1) \div k
           r == (n + k - 1) % k
<1>1. n + k - 1 \in Nat
  OBVIOUS
<1>2. q \in Nat
  BY <1>1, QuotientNat
<1>3. n + k - 1 = k * q + r
  BY <1>1, Division
<1>4. r \in Nat /\ r < k
  BY <1>1
<1> HIDE DEF q, r
<1>5. k * q \in Int /\ k * q = q * k
  BY <1>2
<1>6. n <= q * k
  BY <1>3, <1>4, <1>5
<1> QED BY <1>2, <1>6 DEF q

\* Numbers of two digits are told apart by their digits, and stay below the
\* number of the first digits times the second's base.
LEMMA TwoDigits ==
    ASSUME NEW k \in Nat \ {0}, NEW a \in Nat, NEW x \in 0..(k - 1)
    PROVE  /\ a * k + x \in Nat
           /\ \A m \in Nat : a < m => a * k + x < m * k
           /\ \A b \in Nat, y \in 0..(k - 1) : a * k + x = b * k + y => a = b /\ x = y
<1>1. a * k \in Nat
  OBVIOUS
<1>2. ASSUME NEW m \in Nat, a < m
      PROVE  a * k + x < m * k
  <2>1. a * k + k <= m * k /\ m * k \in Nat
    BY <1>2, NextMultiple
  <2> QED BY <1>1, <2>1
<1>3. ASSUME NEW b \in Nat, NEW y \in 0..(k - 1), a * k + x = b * k + y
      PROVE  a = b /\ x = y
  <2>1. b * k \in Nat
    OBVIOUS
  <2>2. CASE a < b
    <3>1. a * k + k <= b * k
      BY <2>2, NextMultiple
    <3> QED BY <1>1, <1>3, <2>1, <3>1
  <2>3. CASE b < a
    <3>1. b * k + k <= a * k
      BY <2>3, NextMultiple
    <3> QED BY <1>1, <1>3, <2>1, <3>1
  <2>4. CASE a = b
    BY <1>1, <1>3, <2>4
  <2> QED BY <2>2, <2>3, <2>4
<1>4. a * k + x \in Nat
  BY <1>1
<1> QED BY <1>2, <1>3, <1>4

\* Division takes a number of two digits apart.
LEMMA DivisionIs ==
    ASSUME NEW k \in Nat \ {0}, NEW a \in Nat, NEW x \in 0..(k - 1)
    PROVE  (a * k + x) \div k = a /\ (a * k + x) % k = x
<1> DEFINE n == a * k + x
           q == n \div k
           r == n % k
<1>1. n \in Nat
  OBVIOUS
<1>2. q \in Nat /\ n = k * q + r
  BY <1>1, QuotientNat, Division
<1>3. r \in 0..(k - 1)
  BY <1>1
<1>4. a * k + x = q * k + r
  BY <1>2
<1> HIDE DEF q, r
<1>5. a = q /\ x = r
  BY <1>2, <1>3, <1>4, TwoDigits
<1> QED BY <1>5 DEF q, r

\* What is left does not change when multiples of the base come off.
LEMMA RestRepeats ==
    ASSUME NEW n \in Nat, NEW k \in Nat \ {0}, NEW a \in Nat
    PROVE  (n + a * k) % k = n % k
<1> DEFINE q == n \div k
           r == n % k
<1>1. q \in Nat /\ n = k * q + r
  BY QuotientNat, Division
<1>2. r \in 0..(k - 1)
  OBVIOUS
<1> HIDE DEF q, r
<1>3. n + a * k = (q + a) * k + r /\ q + a \in Nat
  BY <1>1, <1>2
<1>4. ((q + a) * k + r) % k = r
  BY <1>2, <1>3, DivisionIs
<1>5. (n + a * k) % k = r
  BY <1>3, <1>4
<1> QED BY <1>5 DEF r

LEMMA SmallRest ==
    ASSUME NEW k \in Nat \ {0}, NEW n \in Nat, n < k
    PROVE  n % k = n
<1>1. 0 * k + n = n /\ n \in 0..(k - 1)
  OBVIOUS
<1>2. 0 \in Nat
  OBVIOUS
<1>3. (0 * k + n) % k = n
  BY <1>1, <1>2, DivisionIs
<1> QED BY <1>1, <1>3

----------------------------------------------------------------------------
(* Lists in ascending order.                                               *)

\* There is one list of a set.
LEMMA FirstAgree ==
    ASSUME NEW S, NEW s \in Seq(Nat), NEW t \in Seq(Nat), Lists(s, S), Lists(t, S)
    PROVE  \A i \in 1..Len(s) : i <= Len(t) /\ s[i] = t[i]
<1> DEFINE P == {i \in Nat : i \in 1..Len(s) => i <= Len(t) /\ s[i] = t[i]}
<1>1. /\ DOMAIN s = 1..Len(s) /\ DOMAIN t = 1..Len(t)
      /\ Len(s) \in Nat /\ Len(t) \in Nat
      /\ \A i \in 1..Len(s) : s[i] \in Nat
      /\ \A i \in 1..Len(t) : t[i] \in Nat
  OBVIOUS
<1>2. /\ \A i, j \in 1..Len(s) : i < j => s[i] < s[j]
      /\ \A i, j \in 1..Len(t) : i < j => t[i] < t[j]
      /\ \A i \in 1..Len(s) : \E j \in 1..Len(t) : s[i] = t[j]
      /\ \A j \in 1..Len(t) : \E i \in 1..Len(s) : s[i] = t[j]
  <2>1. \A i, j \in 1..Len(s) : i < j => s[i] < s[j]
    BY <1>1 DEF Lists
  <2>2. \A i, j \in 1..Len(t) : i < j => t[i] < t[j]
    BY <1>1 DEF Lists
  <2>3. {s[i] : i \in 1..Len(s)} = {t[i] : i \in 1..Len(t)}
    BY <1>1 DEF Lists
  <2> QED BY <2>1, <2>2, <2>3
<1>3. ASSUME NEW n \in Nat, \A m \in Nat : m < n => m \in P
      PROVE  n \in P
  <2> SUFFICES ASSUME n \in 1..Len(s)
               PROVE  n <= Len(t) /\ s[n] = t[n]
    OBVIOUS
  <2>1. \A m \in 1..Len(s) : m < n => m <= Len(t) /\ s[m] = t[m]
    BY <1>3
  <2>2. PICK j \in 1..Len(t) : s[n] = t[j]
    BY <1>2
  <2>3. ~(j < n)
    <3> SUFFICES ASSUME j < n
                 PROVE  FALSE
      OBVIOUS
    <3>1. j \in 1..Len(s)
      BY <1>1
    <3>2. s[j] = t[j] /\ s[j] < s[n]
      BY <1>2, <2>1, <3>1
    <3>3. s[n] \in Nat
      BY <1>1
    <3> QED BY <2>2, <3>2, <3>3
  <2>4. n <= Len(t) /\ t[n] <= s[n]
    <3>1. n \in 1..Len(t)
      BY <1>1, <2>2, <2>3
    <3>2. n = j \/ t[n] < t[j]
      BY <1>1, <1>2, <2>2, <2>3, <3>1
    <3> QED BY <1>1, <2>2, <3>1, <3>2
  <2>5. PICK k \in 1..Len(s) : s[k] = t[n]
    BY <1>2, <2>4
  <2>6. ~(k < n)
    <3> SUFFICES ASSUME k < n
                 PROVE  FALSE
      OBVIOUS
    <3>1. n \in 1..Len(t)
      BY <1>1, <2>4
    <3>2. k \in 1..Len(t)
      BY <1>1, <3>1
    <3>3. s[k] = t[k] /\ t[k] < t[n]
      BY <1>2, <2>1, <3>1, <3>2
    <3>4. t[n] \in Nat
      BY <1>1, <3>1
    <3> QED BY <2>5, <3>3, <3>4
  <2>7. n = k \/ s[n] < s[k]
    <3>1. n = k \/ n < k
      BY <1>1, <2>6
    <3> QED BY <1>2, <3>1
  <2>8. s[n] <= t[n] /\ s[n] \in Nat /\ t[n] \in Nat
    BY <1>1, <2>4, <2>5, <2>7
  <2> QED BY <2>4, <2>8
<1> HIDE DEF P
<1>4. P = Nat
  <2>1. P \in SUBSET Nat
    BY DEF P
  <2>2. \A n \in Nat : (\A m \in Nat : m < n => m \in P) => n \in P
    BY <1>3, Zenon
  <2> QED BY <2>1, <2>2, StrongInduction, Zenon
<1> QED BY <1>1, <1>4 DEF P

LEMMA OneList ==
    ASSUME NEW S, NEW s \in Seq(Nat), NEW t \in Seq(Nat), Lists(s, S), Lists(t, S)
    PROVE  s = t
<1>1. /\ \A i \in 1..Len(s) : i <= Len(t) /\ s[i] = t[i]
      /\ \A i \in 1..Len(t) : i <= Len(s) /\ t[i] = s[i]
  BY FirstAgree
<1>2. Len(s) \in Nat /\ Len(t) \in Nat
  OBVIOUS
<1>3. Len(s) <= Len(t) /\ Len(t) <= Len(s)
  <2>1. Len(s) = 0 \/ Len(s) \in 1..Len(s)
    BY <1>2
  <2>2. Len(t) = 0 \/ Len(t) \in 1..Len(t)
    BY <1>2
  <2> QED BY <1>1, <1>2, <2>1, <2>2
<1>4. Len(s) = Len(t)
  BY <1>2, <1>3
<1> QED BY <1>1, <1>4

LEMMA EmptyList == <<>> \in Seq(Nat) /\ Lists(<<>>, {})
BY DEF Lists

LEMMA ListOfOne ==
    ASSUME NEW x \in Nat
    PROVE  <<x>> \in Seq(Nat) /\ Lists(<<x>>, {x})
<1>1. DOMAIN <<x>> = {1} /\ <<x>>[1] = x
  OBVIOUS
<1> QED BY <1>1 DEF Lists

\* A list and a list of greater numbers.
LEMMA JoinLists ==
    ASSUME NEW S, NEW T, NEW s \in Seq(Nat), NEW t \in Seq(Nat), Lists(s, S), Lists(t, T),
           \A x \in S, y \in T : x < y
    PROVE  s \o t \in Seq(Nat) /\ Lists(s \o t, S \cup T)
<1> DEFINE j == s \o t
<1>1. /\ DOMAIN s = 1..Len(s) /\ DOMAIN t = 1..Len(t)
      /\ Len(s) \in Nat /\ Len(t) \in Nat
  OBVIOUS
<1>2. /\ j \in Seq(Nat) /\ DOMAIN j = 1..(Len(s) + Len(t))
      /\ \A i \in 1..(Len(s) + Len(t)) : j[i] = IF i <= Len(s) THEN s[i] ELSE t[i - Len(s)]
  OBVIOUS
<1>3. /\ \A i, k \in 1..Len(s) : i < k => s[i] < s[k]
      /\ \A i, k \in 1..Len(t) : i < k => t[i] < t[k]
      /\ \A i \in 1..Len(s) : s[i] \in S
      /\ \A i \in 1..Len(t) : t[i] \in T
      /\ \A x \in S : \E i \in 1..Len(s) : x = s[i]
      /\ \A x \in T : \E i \in 1..Len(t) : x = t[i]
  <2>1. \A i, k \in 1..Len(s) : i < k => s[i] < s[k]
    BY <1>1 DEF Lists
  <2>2. \A i, k \in 1..Len(t) : i < k => t[i] < t[k]
    BY <1>1 DEF Lists
  <2>3. S = {s[i] : i \in 1..Len(s)} /\ T = {t[i] : i \in 1..Len(t)}
    BY <1>1 DEF Lists
  <2> QED BY <2>1, <2>2, <2>3
<1> HIDE DEF j
<1>4. ASSUME NEW i \in DOMAIN j, NEW k \in DOMAIN j, i < k
      PROVE  j[i] < j[k]
  <2>1. CASE k <= Len(s)
    BY <1>1, <1>2, <1>3, <1>4, <2>1
  <2>2. CASE i <= Len(s) /\ ~(k <= Len(s))
    <3>0. i \in Nat /\ k \in Nat /\ 1 <= i /\ k <= Len(s) + Len(t)
      BY <1>1, <1>2
    <3>1. i \in 1..Len(s) /\ k - Len(s) \in 1..Len(t)
      BY <1>1, <2>2, <3>0
    <3>2. j[i] = s[i] /\ j[k] = t[k - Len(s)]
      BY <1>2, <2>2
    <3> QED BY <1>3, <3>1, <3>2
  <2>3. CASE ~(i <= Len(s)) /\ ~(k <= Len(s))
    <3>0. i \in 1..(Len(s) + Len(t)) /\ k \in 1..(Len(s) + Len(t))
      BY <1>2
    <3>1. i - Len(s) \in 1..Len(t) /\ k - Len(s) \in 1..Len(t) /\ i - Len(s) < k - Len(s)
      BY <1>1, <1>4, <2>3, <3>0
    <3>2. j[i] = t[i - Len(s)] /\ j[k] = t[k - Len(s)]
      BY <1>2, <2>3, <3>0
    <3> QED BY <1>3, <3>1, <3>2
  <2>4. i \in Nat /\ k \in Nat
    BY <1>1, <1>2
  <2> QED BY <1>1, <1>4, <2>1, <2>2, <2>3, <2>4
<1>5. {j[i] : i \in DOMAIN j} = S \cup T
  <2>1. ASSUME NEW i \in DOMAIN j
        PROVE  j[i] \in S \cup T
    <3>1. CASE i <= Len(s)
      BY <1>1, <1>2, <1>3, <3>1
    <3>2. CASE ~(i <= Len(s))
      <4>1. i - Len(s) \in 1..Len(t)
        BY <1>1, <1>2, <3>2
      <4> QED BY <1>2, <1>3, <3>2, <4>1
    <3> QED BY <3>1, <3>2
  <2>2. ASSUME NEW x \in S
        PROVE  \E i \in DOMAIN j : j[i] = x
    <3>1. PICK i \in 1..Len(s) : x = s[i]
      BY <1>3
    <3>2. i \in DOMAIN j /\ j[i] = s[i]
      BY <1>1, <1>2, <3>1
    <3> QED BY <3>1, <3>2
  <2>3. ASSUME NEW x \in T
        PROVE  \E i \in DOMAIN j : j[i] = x
    <3>1. PICK i \in 1..Len(t) : x = t[i]
      BY <1>3
    <3>2. /\ Len(s) + i \in 1..(Len(s) + Len(t)) /\ ~(Len(s) + i <= Len(s))
          /\ (Len(s) + i) - Len(s) = i
      BY <1>1, <3>1
    <3>3. j[Len(s) + i] = t[i]
      BY <1>2, <3>2
    <3> QED BY <1>2, <3>1, <3>2, <3>3
  <2> QED BY <2>1, <2>2, <2>3
<1>6. Lists(j, S \cup T)
  BY <1>4, <1>5 DEF Lists
<1> QED BY <1>2, <1>6 DEF j

LEMMA FromLists ==
    ASSUME NEW first \in Nat, NEW n \in Nat
    PROVE  From(first, n) \in Seq(Nat) /\ Lists(From(first, n), first..(first + n - 1))
<1> DEFINE f == From(first, n)
<1>1. /\ f \in Seq(Nat) /\ DOMAIN f = 1..n
      /\ \A i \in 1..n : f[i] = first + i - 1
  BY DEF From
<1> HIDE DEF f
<1>2. \A x \in first..(first + n - 1) : x - first + 1 \in 1..n /\ first + (x - first + 1) - 1 = x
  OBVIOUS
<1>3. {f[i] : i \in DOMAIN f} = first..(first + n - 1)
  <2>1. \A i \in 1..n : f[i] \in first..(first + n - 1)
    BY <1>1
  <2>2. \A x \in first..(first + n - 1) : \E i \in 1..n : f[i] = x
    BY <1>1, <1>2
  <2> QED BY <1>1, <2>1, <2>2
<1>4. \A i, j \in DOMAIN f : i < j => f[i] < f[j]
  BY <1>1
<1>5. Lists(f, first..(first + n - 1))
  BY <1>3, <1>4 DEF Lists
<1> QED BY <1>1, <1>5 DEF f

LEMMA ListExists ==
    ASSUME NEW b \in Nat, NEW S \in SUBSET (0..b)
    PROVE  \E s \in Seq(Nat) : Lists(s, S)
<1> DEFINE P == {n \in Nat : \A T \in SUBSET (0..b) :
                    (\A x \in T : x < n) => \E s \in Seq(Nat) : Lists(s, T)}
<1>0. /\ P \in SUBSET Nat
      /\ \A n \in Nat : n \in P <=> \A T \in SUBSET (0..b) :
            (\A x \in T : x < n) => \E s \in Seq(Nat) : Lists(s, T)
  OBVIOUS
<1> HIDE DEF P
<1>1. 0 \in P
  <2> SUFFICES ASSUME NEW T \in SUBSET (0..b), \A x \in T : x < 0
               PROVE  \E s \in Seq(Nat) : Lists(s, T)
    BY <1>0
  <2>1. T = {}
    OBVIOUS
  <2> QED BY <2>1, EmptyList
<1>2. ASSUME NEW n \in P
      PROVE  n + 1 \in P
  <2> SUFFICES ASSUME NEW T \in SUBSET (0..b), \A x \in T : x < n + 1
               PROVE  \E s \in Seq(Nat) : Lists(s, T)
    <3>1. n + 1 \in Nat
      BY <1>0
    <3> QED BY <1>0, <3>1
  <2>1. n \in Nat /\ T \ {n} \in SUBSET (0..b) /\ \A x \in T \ {n} : x < n
    BY <1>0
  <2>2. PICK s \in Seq(Nat) : Lists(s, T \ {n})
    BY <1>0, <2>1
  <2>3. CASE n \in T
    <3>1. <<n>> \in Seq(Nat) /\ Lists(<<n>>, {n})
      BY <2>1, ListOfOne
    <3>2. \A x \in T \ {n}, y \in {n} : x < y
      BY <2>1
    <3>3. s \o <<n>> \in Seq(Nat) /\ Lists(s \o <<n>>, (T \ {n}) \cup {n})
      BY <2>2, <3>1, <3>2, JoinLists
    <3>4. (T \ {n}) \cup {n} = T
      BY <2>3
    <3> QED BY <3>3, <3>4
  <2>4. CASE n \notin T
    <3>1. T \ {n} = T
      BY <2>4
    <3> QED BY <2>2, <3>1
  <2> QED BY <2>3, <2>4
<1>3. b + 1 \in P
  BY <1>0, <1>1, <1>2, Induction
<1>4. \A x \in S : x < b + 1
  OBVIOUS
<1> QED BY <1>0, <1>3, <1>4

----------------------------------------------------------------------------
(* A loop that goes through numbers list by list: h[i] from i on, as long  *)
(* as i is before the end, and what r has then.                            *)

Loop(f, end, step, h, r) ==
    f = [i \in Nat |-> IF i < end THEN h[i] \o f[i + step] ELSE r[i]]

\* A is what the loop is to list from i on, B what h lists of it.
LEMMA LoopLists ==
    ASSUME NEW end \in Int, NEW step \in Nat \ {0}, NEW h, NEW r, NEW A, NEW B, NEW b \in Nat,
           \A i \in Nat : A[i] \in SUBSET (0..b),
           \A i \in Nat : i < end =>
                /\ h[i] \in Seq(Nat) /\ Lists(h[i], B[i])
                /\ A[i] = B[i] \cup A[i + step]
                /\ \A x \in B[i], y \in A[i + step] : x < y,
           \A i \in Nat : ~(i < end) => r[i] \in Seq(Nat) /\ Lists(r[i], A[i])
    PROVE  /\ \E f : Loop(f, end, step, h, r)
           /\ \A f : Loop(f, end, step, h, r) =>
                \A i \in Nat : f[i] \in Seq(Nat) /\ Lists(f[i], A[i])
<1> DEFINE ListOf(S) == CHOOSE s : s \in Seq(Nat) /\ Lists(s, S)
           f == [i \in Nat |-> ListOf(A[i])]
<1>1. ASSUME NEW i \in Nat
      PROVE  ListOf(A[i]) \in Seq(Nat) /\ Lists(ListOf(A[i]), A[i])
  <2>1. \E s : s \in Seq(Nat) /\ Lists(s, A[i])
    BY ListExists
  <2> QED BY <2>1
<1> HIDE DEF ListOf
<1>2. ASSUME NEW i \in Nat
      PROVE  f[i] = IF i < end THEN h[i] \o f[i + step] ELSE r[i]
  <2>1. f[i] = ListOf(A[i]) /\ i + step \in Nat /\ f[i + step] = ListOf(A[i + step])
    OBVIOUS
  <2> HIDE DEF f
  <2>2. f[i] \in Seq(Nat) /\ Lists(f[i], A[i])
    BY <1>1, <2>1
  <2>3. CASE i < end
    <3>1. f[i + step] \in Seq(Nat) /\ Lists(f[i + step], A[i + step])
      BY <1>1, <2>1
    <3>2. /\ h[i] \in Seq(Nat) /\ Lists(h[i], B[i])
          /\ A[i] = B[i] \cup A[i + step]
          /\ \A x \in B[i], y \in A[i + step] : x < y
      BY <2>3
    <3>3. h[i] \o f[i + step] \in Seq(Nat) /\ Lists(h[i] \o f[i + step], B[i] \cup A[i + step])
      BY <3>1, <3>2, JoinLists
    <3>4. Lists(h[i] \o f[i + step], A[i])
      BY <3>2, <3>3
    <3>5. f[i] = h[i] \o f[i + step]
      BY <2>2, <3>3, <3>4, OneList
    <3> QED BY <2>3, <3>5
  <2>4. CASE ~(i < end)
    <3>1. r[i] \in Seq(Nat) /\ Lists(r[i], A[i])
      BY <2>4
    <3>2. f[i] = r[i]
      BY <2>2, <3>1, OneList
    <3> QED BY <2>4, <3>2
  <2> QED BY <2>3, <2>4
<1>3. Loop(f, end, step, h, r)
  <2>1. f = [i \in Nat |-> f[i]]
    OBVIOUS
  <2> HIDE DEF f
  <2>2. [i \in Nat |-> f[i]] = [i \in Nat |-> IF i < end THEN h[i] \o f[i + step] ELSE r[i]]
    BY <1>2
  <2> QED BY <2>1, <2>2 DEF Loop
<1>4. ASSUME NEW g, Loop(g, end, step, h, r)
      PROVE  \A i \in Nat : g[i] \in Seq(Nat) /\ Lists(g[i], A[i])
  <2> DEFINE P == {n \in Nat : \A i \in Nat : end - i <= n =>
                                 g[i] \in Seq(Nat) /\ Lists(g[i], A[i])}
  <2>0. /\ P \in SUBSET Nat
        /\ \A n \in Nat : n \in P <=> \A i \in Nat : end - i <= n =>
                                        g[i] \in Seq(Nat) /\ Lists(g[i], A[i])
    OBVIOUS
  <2> HIDE DEF P
  <2>1. \A i \in Nat : g[i] = IF i < end THEN h[i] \o g[i + step] ELSE r[i]
    BY <1>4, Zenon DEF Loop
  <2>2. 0 \in P
    <3>1. \A i \in Nat : end - i <= 0 => ~(i < end)
      OBVIOUS
    <3> QED BY <2>0, <2>1, <3>1
  <2>3. ASSUME NEW n \in P
        PROVE  n + 1 \in P
    <3> SUFFICES ASSUME NEW i \in Nat, end - i <= n + 1
                 PROVE  g[i] \in Seq(Nat) /\ Lists(g[i], A[i])
      <4>1. n + 1 \in Nat
        BY <2>0
      <4> QED BY <2>0, <4>1
    <3>1. CASE i < end
      <4>1. i + step \in Nat /\ end - (i + step) <= n
        BY <2>0
      <4>2. g[i + step] \in Seq(Nat) /\ Lists(g[i + step], A[i + step])
        BY <2>0, <4>1
      <4>3. /\ h[i] \in Seq(Nat) /\ Lists(h[i], B[i])
            /\ A[i] = B[i] \cup A[i + step]
            /\ \A x \in B[i], y \in A[i + step] : x < y
        BY <3>1
      <4>4. /\ h[i] \o g[i + step] \in Seq(Nat)
            /\ Lists(h[i] \o g[i + step], B[i] \cup A[i + step])
        BY <4>2, <4>3, JoinLists
      <4> QED BY <2>1, <3>1, <4>3, <4>4
    <3>2. CASE ~(i < end)
      BY <2>1, <3>2
    <3> QED BY <3>1, <3>2
  <2>4. P = Nat
    BY <2>0, <2>2, <2>3, Induction
  <2>5. ASSUME NEW i \in Nat
        PROVE  \E n \in Nat : end - i <= n
    <3>1. CASE end - i \in Nat
      BY <3>1
    <3>2. CASE end - i \notin Nat
      BY <3>2
    <3> QED BY <3>1, <3>2
  <2> QED BY <2>0, <2>4, <2>5
<1> HIDE DEF f
<1> QED BY <1>3, <1>4
=============================================================================
