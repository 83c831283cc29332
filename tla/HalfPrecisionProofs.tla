------------------------- MODULE HalfPrecisionProofs -------------------------
(***************************************************************************)
(* The conversions between f32 and its two halves, for formats of any      *)
(* widths: widening loses nothing, narrowing goes to the nearest, ties to  *)
(* even.                                                                   *)
(*                                                                         *)
(* The patterns of a sign, NaN left out, are the numbers from 0 to Top in  *)
(* the order of their values, each a Gap below the next.  So the nearest   *)
(* to a value is one of the two patterns it lies between, and each case of *)
(* a conversion is shown to round to one of them: RoundsToNearest.         *)
(***************************************************************************)
EXTENDS HalfPrecision, NaturalFacts, FiniteSetTheorems, FunctionTheorems, TLAPS

----------------------------------------------------------------------------
(* Powers of two.                                                          *)

\* 2^n is known by the subsets of a set of n: each of n + 1 is one of n, or
\* one with the last added.
LEMMA TwiceThePower ==
    ASSUME NEW n \in Nat
    PROVE  2^n \in Nat /\ 2^(n + 1) = 2 * 2^n
<1> DEFINE S == 1..n
           new == n + 1
           Old == SUBSET S
           With == {X \cup {new} : X \in Old}
<1>1. IsFiniteSet(S) /\ Cardinality(S) = n /\ new \notin S
  BY FS_Interval
<1>2. IsFiniteSet(S \cup {new}) /\ Cardinality(S \cup {new}) = n + 1
  <2> HIDE DEF S, new
  <2> QED BY <1>1, FS_AddElement
<1> HIDE DEF S, new
<1>3. IsFiniteSet(Old) /\ Cardinality(Old) = 2^n
  BY <1>1, FS_SUBSET
<1>4. SUBSET (S \cup {new}) = Old \cup With
  <2>1. ASSUME NEW Y \in SUBSET (S \cup {new})
        PROVE  Y \in Old \cup With
    <3>1. CASE new \in Y
      <4>1. Y \ {new} \in Old /\ Y = (Y \ {new}) \cup {new}
        BY <3>1
      <4> QED BY <4>1
    <3>2. CASE new \notin Y
      BY <3>2
    <3> QED BY <3>1, <3>2
  <2> QED BY <2>1
<1>5. Old \cap With = {}
  BY <1>1
<1>6. ExistsBijection(Old, With)
  <2> DEFINE f == [X \in Old |-> X \cup {new}]
  <2>1. f \in [Old -> With]
    OBVIOUS
  <2>2. \A X, Y \in Old : f[X] = f[Y] => X = Y
    <3> SUFFICES ASSUME NEW X \in Old, NEW Y \in Old, X \cup {new} = Y \cup {new}
                 PROVE  X = Y
      OBVIOUS
    <3>1. new \notin X /\ new \notin Y
      BY <1>1
    <3> QED BY <3>1
  <2>3. \A Z \in With : \E X \in Old : f[X] = Z
    OBVIOUS
  <2> HIDE DEF f
  <2>4. f \in Bijection(Old, With)
    BY <2>1, <2>2, <2>3, Fun_IsBij
  <2> QED BY <2>4 DEF ExistsBijection
<1>7. IsFiniteSet(With) /\ Cardinality(With) = Cardinality(Old)
  BY <1>3, <1>6, FS_Bijection
<1>8. Cardinality(Old \cup With) = Cardinality(Old) + Cardinality(With) - Cardinality({})
  <2> HIDE DEF Old, With
  <2> QED BY <1>3, <1>5, <1>7, FS_Union
<1>9. Cardinality({}) = 0 /\ Cardinality(Old) \in Nat
  BY <1>3, FS_EmptySet, FS_CardinalityType
<1>10. Cardinality(SUBSET (S \cup {new})) = 2^(n + 1)
  BY <1>2, FS_SUBSET
<1> HIDE DEF Old, With
<1>11. 2^(n + 1) = Cardinality(Old) + Cardinality(Old)
  <2>1. Cardinality(Old \cup With) = 2^(n + 1)
    BY <1>4, <1>10
  <2>2. \A a, b, c, d : a \in Nat /\ b = a /\ c = 0 /\ d = a + b - c => d = a + a
    OBVIOUS
  <2>3. Cardinality(Old \cup With) = Cardinality(Old) + Cardinality(Old)
    BY <1>7, <1>8, <1>9, <2>2
  <2> QED BY <2>1, <2>3
<1> QED BY <1>3, <1>9, <1>11

LEMMA PowerOfNothing == 2^0 = 1
<1>1. IsFiniteSet({}) /\ Cardinality({}) = 0
  BY FS_EmptySet
<1>2. Cardinality(SUBSET {}) = 2^0
  BY <1>1, FS_SUBSET
<1>3. SUBSET {} = {{}}
  OBVIOUS
<1>4. Cardinality({{}}) = 1
  BY FS_Singleton
<1> QED BY <1>2, <1>3, <1>4

LEMMA PowerPositive ==
    ASSUME NEW n \in Nat
    PROVE  2^n \in Nat \ {0}
<1> DEFINE P == {k \in Nat : 2^k \in Nat \ {0}}
<1>1. 0 \in P
  BY PowerOfNothing
<1>2. ASSUME NEW k \in P
      PROVE  k + 1 \in P
  <2>1. k \in Nat /\ 2^k \in Nat \ {0} /\ 2^(k + 1) = 2 * 2^k
    BY TwiceThePower
  <2> QED BY <2>1
<1> HIDE DEF P
<1>3. P = Nat
  <2>1. P \in SUBSET Nat
    BY DEF P
  <2> QED BY <1>1, <1>2, <2>1, Induction
<1>4. n \in P
  BY <1>3
<1> QED BY <1>4 DEF P

LEMMA PowerOfSum ==
    ASSUME NEW n \in Nat, NEW k \in Nat
    PROVE  2^(n + k) = 2^n * 2^k
<1> DEFINE P == {j \in Nat : 2^(n + j) = 2^n * 2^j}
<1>1. 0 \in P
  BY PowerOfNothing, PowerPositive
<1>2. ASSUME NEW j \in P
      PROVE  j + 1 \in P
  <2>1. j \in Nat /\ n + j \in Nat /\ 2^(n + j) = 2^n * 2^j
    OBVIOUS
  <2>2. 2^j \in Nat /\ 2^(j + 1) = 2 * 2^j /\ 2^((n + j) + 1) = 2 * 2^(n + j) /\ 2^n \in Nat
    BY <2>1, TwiceThePower
  <2>3. (n + j) + 1 = n + (j + 1)
    BY <2>1
  <2>4. 2 * (2^n * 2^j) = 2^n * (2 * 2^j)
    BY <2>2
  <2> QED BY <2>1, <2>2, <2>3, <2>4
<1> HIDE DEF P
<1>3. P = Nat
  <2>1. P \in SUBSET Nat
    BY DEF P
  <2> QED BY <1>1, <1>2, <2>1, Induction
<1>4. k \in P
  BY <1>3
<1> QED BY <1>4 DEF P

LEMMA PowersGrow ==
    ASSUME NEW n \in Nat, NEW k \in Nat, n <= k
    PROVE  2^n <= 2^k
<1> DEFINE d == k - n
<1>1. d \in Nat /\ k = n + d
  OBVIOUS
<1> HIDE DEF d
<1>2. 2^k = 2^n * 2^d /\ 2^n \in Nat \ {0} /\ 2^d \in Nat \ {0}
  BY <1>1, PowerOfSum, PowerPositive
<1>3. \A a, b \in Nat \ {0} : a <= a * b
  OBVIOUS
<1> QED BY <1>2, <1>3

----------------------------------------------------------------------------
(* The fields of a pattern.                                                *)

IsFormat(f) == f.exponent \in Nat \ {0} /\ f.mantissa \in Nat \ {0} /\ Scale(f) \in Nat

\* The patterns of a sign, but for NaN, are the numbers from 0 to Top(f) with
\* the sign put before them.
Top(f) == AllOnes(f) * 2^f.mantissa
Signed(f, s, p) == s * 2^(f.mantissa + f.exponent) + p

LEMMA FormatPowers ==
    ASSUME NEW f, IsFormat(f)
    PROVE  /\ 2^f.exponent \in Nat \ {0} /\ 2^f.mantissa \in Nat \ {0}
           /\ 2^(f.mantissa + f.exponent) = 2^f.exponent * 2^f.mantissa
           /\ 2^(1 + f.exponent + f.mantissa) = 2 * (2^f.exponent * 2^f.mantissa)
           /\ \E h \in Nat \ {0} : 2^f.mantissa = 2 * h
           /\ Bias(f) \in Nat /\ AllOnes(f) = 2 * Bias(f) + 1 /\ 2^f.exponent = AllOnes(f) + 1
<1> DEFINE e == f.exponent
           m == f.mantissa
<1>1. e \in Nat \ {0} /\ m \in Nat \ {0}
  BY DEF IsFormat
<1>2. Bias(f) = 2^(e - 1) - 1 /\ AllOnes(f) = 2^e - 1
  BY DEF Bias, AllOnes
<1> HIDE DEF e, m
<1>3. /\ e - 1 \in Nat /\ m - 1 \in Nat /\ e + m \in Nat
      /\ (e - 1) + 1 = e /\ (m - 1) + 1 = m /\ (e + m) + 1 = 1 + e + m /\ e + m = m + e
  BY <1>1
<1>4. 2^e = 2 * 2^(e - 1) /\ 2^m = 2 * 2^(m - 1) /\ 2^(1 + e + m) = 2 * 2^(e + m)
  BY <1>3, TwiceThePower
<1>5. 2^(e - 1) \in Nat \ {0} /\ 2^(m - 1) \in Nat \ {0} /\ 2^e \in Nat \ {0} /\ 2^m \in Nat \ {0}
  BY <1>1, <1>3, PowerPositive
<1>6. 2^(e + m) = 2^e * 2^m
  BY <1>1, PowerOfSum
<1>7. 2^(m + e) = 2^e * 2^m /\ 2^(1 + e + m) = 2 * (2^e * 2^m)
  BY <1>3, <1>4, <1>6
<1>8. Bias(f) \in Nat /\ AllOnes(f) = 2 * Bias(f) + 1 /\ 2^e = AllOnes(f) + 1
  BY <1>2, <1>4, <1>5
<1> QED BY <1>4, <1>5, <1>7, <1>8 DEF e, m

\* The fields of a pattern are what was packed.
LEMMA Fields ==
    ASSUME NEW f, IsFormat(f), NEW s \in {0, 1}, NEW x \in 0..AllOnes(f), NEW y \in 0..(2^f.mantissa - 1)
    PROVE  LET bits == Pack(f, s, x, y)
           IN  /\ bits \in Patterns(f)
               /\ Sign(f, bits) = s /\ Exponent(f, bits) = x /\ Mantissa(f, bits) = y
               /\ bits = Signed(f, s, x * 2^f.mantissa + y)
<1> DEFINE E == 2^f.exponent
           M == 2^f.mantissa
           bits == Pack(f, s, x, y)
<1>1. /\ E \in Nat \ {0} /\ M \in Nat \ {0} /\ E = AllOnes(f) + 1
      /\ 2^(f.mantissa + f.exponent) = E * M
      /\ 2^(1 + f.exponent + f.mantissa) = 2 * (E * M)
  BY FormatPowers
<1>2. bits = (s * E + x) * M + y
  BY DEF Pack
<1>3. /\ Sign(f, bits) = bits \div (E * M) /\ Exponent(f, bits) = (bits \div M) % E
      /\ Mantissa(f, bits) = bits % M
  BY <1>1 DEF Sign, Exponent, Mantissa
<1>4. Patterns(f) = 0..(2 * (E * M) - 1) /\ Signed(f, s, x * M + y) = s * (E * M) + (x * M + y)
  BY <1>1 DEF Patterns, Signed
<1>5. y \in 0..(M - 1) /\ x \in 0..(E - 1) /\ x \in Nat /\ y \in Nat /\ s \in Nat
  <2>1. y \in 0..(M - 1)
    OBVIOUS
  <2> HIDE DEF E, M
  <2>2. AllOnes(f) = E - 1
    <3>1. AllOnes(f) \in Nat
      BY FormatPowers
    <3> QED BY <1>1, <3>1
  <2> QED BY <1>1, <2>1, <2>2
<1> HIDE DEF E, M, bits
<1>6. x * M + M <= E * M /\ E * M \in Nat \ {0} /\ x * M \in Nat
  BY <1>1, <1>5, NextMultiple, ProductPositive
<1>7. x * M + y \in 0..(E * M - 1)
  BY <1>1, <1>5, <1>6
<1>8. bits = s * (E * M) + (x * M + y)
  <2>1. (s * E + x) * M = s * (E * M) + x * M
    BY <1>1, <1>5
  <2>2. s * (E * M) \in Nat
    BY <1>5, <1>6
  <2> QED BY <1>2, <1>5, <1>6, <2>1, <2>2
<1>9. bits \in 0..(2 * (E * M) - 1)
  <2>1. s * (E * M) = 0 \/ s * (E * M) = E * M
    BY <1>6
  <2> QED BY <1>6, <1>7, <1>8, <2>1
<1>10. bits \div (E * M) = s
  BY <1>5, <1>6, <1>7, <1>8, DivisionIs
<1>11. bits \div M = s * E + x /\ bits % M = y
  <2>1. s * E + x \in Nat
    BY <1>1, <1>5
  <2> QED BY <1>1, <1>2, <1>5, <2>1, DivisionIs
<1>12. (s * E + x) % E = x
  BY <1>1, <1>5, DivisionIs
<1> QED BY <1>3, <1>4, <1>8, <1>9, <1>10, <1>11, <1>12 DEF bits, M

\* Every pattern is packed of its fields.
LEMMA Repacked ==
    ASSUME NEW f, IsFormat(f), NEW bits \in Patterns(f)
    PROVE  /\ Sign(f, bits) \in {0, 1} /\ Exponent(f, bits) \in 0..AllOnes(f)
           /\ Mantissa(f, bits) \in 0..(2^f.mantissa - 1)
           /\ bits = Pack(f, Sign(f, bits), Exponent(f, bits), Mantissa(f, bits))
<1> DEFINE E == 2^f.exponent
           M == 2^f.mantissa
           q == bits \div M
           s == q \div E
           x == q % E
           y == bits % M
<1>1. /\ E \in Nat \ {0} /\ M \in Nat \ {0} /\ E = AllOnes(f) + 1
      /\ 2^(f.mantissa + f.exponent) = E * M
      /\ 2^(1 + f.exponent + f.mantissa) = 2 * (E * M)
  BY FormatPowers
<1>2. /\ Sign(f, bits) = bits \div (E * M) /\ Exponent(f, bits) = x
      /\ Mantissa(f, bits) = y
  BY <1>1 DEF Sign, Exponent, Mantissa
<1>3. bits \in 0..(2 * (E * M) - 1)
  BY <1>1 DEF Patterns
<1>4. Pack(f, s, x, y) = (s * E + x) * M + y
  BY DEF Pack
<1> HIDE DEF E, M
<1>5. bits \in Nat /\ E * M \in Nat \ {0}
  BY <1>1, <1>3, ProductPositive
<1>6. q \in Nat /\ bits = M * q + y /\ y \in 0..(M - 1)
  BY <1>1, <1>5, QuotientNat, Division
<1> HIDE DEF q, y
<1>7. s \in Nat /\ q = E * s + x /\ x \in 0..(E - 1)
  BY <1>1, <1>6, QuotientNat, Division
<1> HIDE DEF s, x
<1>8. bits = s * (E * M) + (x * M + y)
  <2>1. M * (E * s + x) = s * (E * M) + x * M /\ s * (E * M) \in Nat /\ x * M \in Nat
    BY <1>1, <1>7
  <2> QED BY <1>6, <1>7, <2>1
<1>9. x * M + y \in 0..(E * M - 1)
  <2>1. x * M + M <= E * M /\ x * M \in Nat
    BY <1>1, <1>7, NextMultiple
  <2> QED BY <1>1, <1>5, <1>6, <2>1
<1>10. bits \div (E * M) = s
  BY <1>5, <1>7, <1>8, <1>9, DivisionIs
<1>11. s \in {0, 1}
  <2>1. CASE 2 <= s
    <3>1. 2 * (E * M) <= s * (E * M)
      BY <1>5, <1>7, <2>1
    <3> QED BY <1>3, <1>5, <1>7, <1>8, <1>9, <3>1
  <2> QED BY <1>7, <2>1
<1>12. bits = (s * E + x) * M + y
  <2>1. (s * E + x) * M = s * (E * M) + x * M /\ s * (E * M) \in Nat /\ x * M \in Nat
    BY <1>1, <1>7
  <2> QED BY <1>1, <1>6, <1>7, <1>8, <2>1
<1>13. 0..AllOnes(f) = 0..(E - 1)
  <2>1. AllOnes(f) \in Nat
    BY FormatPowers
  <2> QED BY <1>1, <2>1
<1>14. Sign(f, bits) = s /\ Exponent(f, bits) = x /\ Mantissa(f, bits) = y
  BY <1>2, <1>10
<1>15. bits = Pack(f, s, x, y)
  BY <1>4, <1>12
<1>16. 0..(2^f.mantissa - 1) = 0..(M - 1)
  BY DEF M
<1> QED BY <1>6, <1>7, <1>11, <1>13, <1>14, <1>15, <1>16

----------------------------------------------------------------------------
(* The values of the patterns of a sign, in their order.                   *)

\* How much the next pattern is worth more, after one with exponent x.
Gap(f, x) == 2^((IF x = 0 THEN 0 ELSE x - 1) + Scale(f))

LEMMA FieldsOfSigned ==
    ASSUME NEW f, IsFormat(f), NEW s \in {0, 1}, NEW p \in 0..Top(f)
    PROVE  \E x \in 0..AllOnes(f), y \in 0..(2^f.mantissa - 1) :
                /\ p = x * 2^f.mantissa + y /\ Signed(f, s, p) = Pack(f, s, x, y)
                /\ Signed(f, s, p) \in Patterns(f)
                /\ Sign(f, Signed(f, s, p)) = s
                /\ Exponent(f, Signed(f, s, p)) = x /\ Mantissa(f, Signed(f, s, p)) = y
                /\ x = AllOnes(f) => y = 0
<1> DEFINE M == 2^f.mantissa
           x == p \div M
           y == p % M
           N == AllOnes(f)
<1>1. M \in Nat \ {0} /\ N \in Nat /\ Top(f) = N * M
  BY FormatPowers DEF Top
<1> HIDE DEF M, N
<1>2. p \in Nat /\ p <= N * M
  BY <1>1
<1>3. x \in Nat /\ p = M * x + y /\ y \in 0..(M - 1)
  BY <1>1, <1>2, QuotientNat, Division
<1> HIDE DEF x, y
<1>4. p = x * M + y /\ x * M \in Nat
  BY <1>1, <1>3
<1>5. x <= N
  <2>1. CASE N < x
    <3>1. N * M + M <= x * M
      BY <1>1, <1>3, <2>1, NextMultiple
    <3> QED BY <1>1, <1>2, <1>3, <1>4, <3>1
  <2> QED BY <1>1, <1>3, <2>1
<1>6. x = N => y = 0
  BY <1>1, <1>2, <1>3, <1>4
<1>7. x \in 0..AllOnes(f) /\ y \in 0..(2^f.mantissa - 1)
  BY <1>1, <1>3, <1>5 DEF M, N
<1>8. LET bits == Pack(f, s, x, y)
      IN  /\ bits \in Patterns(f)
          /\ Sign(f, bits) = s /\ Exponent(f, bits) = x /\ Mantissa(f, bits) = y
          /\ bits = Signed(f, s, x * 2^f.mantissa + y)
  BY <1>7, Fields
<1>9. p = x * 2^f.mantissa + y
  BY <1>4 DEF M
<1>10. x = AllOnes(f) => y = 0
  BY <1>6 DEF N
<1> QED BY <1>7, <1>8, <1>9, <1>10

LEMMA ValueOfPack ==
    ASSUME NEW f, IsFormat(f), NEW s \in {0, 1}, NEW x \in 0..AllOnes(f), NEW y \in 0..(2^f.mantissa - 1)
    PROVE  Value(f, Pack(f, s, x, y)) =
                IF x = 0 THEN y * 2^Scale(f) ELSE (2^f.mantissa + y) * 2^(x - 1 + Scale(f))
<1>1. Exponent(f, Pack(f, s, x, y)) = x /\ Mantissa(f, Pack(f, s, x, y)) = y
  BY Fields
<1> QED BY <1>1 DEF Value

LEMMA NextValue ==
    ASSUME NEW f, IsFormat(f), NEW s \in {0, 1}, NEW p \in 0..(Top(f) - 1)
    PROVE  LET h == Signed(f, s, p)
           IN  /\ Value(f, h) \in Nat
               /\ Gap(f, Exponent(f, h)) \in Nat \ {0}
               /\ Value(f, Signed(f, s, p + 1)) = Value(f, h) + Gap(f, Exponent(f, h))
<1> DEFINE M == 2^f.mantissa
           N == AllOnes(f)
           h == Signed(f, s, p)
           next == Signed(f, s, p + 1)
<1>1. M \in Nat \ {0} /\ N \in Nat /\ Top(f) = N * M /\ Scale(f) \in Nat
  BY FormatPowers DEF Top, IsFormat
<1>2. p \in 0..Top(f) /\ p + 1 \in 0..Top(f) /\ p \in Nat /\ p < N * M
  <2>1. Top(f) \in Int
    BY <1>1
  <2> QED BY <1>1, <2>1
<1>3. PICK x \in 0..N, y \in 0..(M - 1) :
           p = x * M + y /\ h = Pack(f, s, x, y) /\ Exponent(f, h) = x
  BY <1>2, FieldsOfSigned
<1>4. x \in Nat /\ y \in Nat /\ y < M /\ x <= N /\ x * M \in Nat
  BY <1>1, <1>3
<1>5. /\ x = 0 => Value(f, h) = y * 2^Scale(f)
      /\ x # 0 => Value(f, h) = (M + y) * 2^(x - 1 + Scale(f))
  BY <1>3, ValueOfPack
<1> DEFINE g == 2^((IF x = 0 THEN 0 ELSE x - 1) + Scale(f))
<1>6. g = Gap(f, x) /\ g \in Nat \ {0}
  <2>1. (IF x = 0 THEN 0 ELSE x - 1) + Scale(f) \in Nat
    BY <1>1, <1>4
  <2> QED BY <2>1, PowerPositive DEF Gap
<1>7. /\ x = 0 => g = 2^Scale(f)
      /\ x # 0 => g = 2^(x - 1 + Scale(f))
  BY <1>1, <1>4
<1> HIDE DEF g
<1>8. /\ x = 0 => Value(f, h) = y * g
      /\ x # 0 => Value(f, h) = (M + y) * g
  BY <1>5, <1>7
<1>9. Value(f, next) = Value(f, h) + g
  <2>1. CASE y + 1 < M
    <3>1. y + 1 \in 0..(M - 1) /\ p + 1 = x * M + (y + 1)
      BY <1>1, <1>3, <1>4, <2>1
    <3>2. next = Pack(f, s, x, y + 1)
      BY <1>3, <3>1, Fields
    <3>3. Value(f, next) = IF x = 0 THEN (y + 1) * 2^Scale(f) ELSE (M + (y + 1)) * 2^(x - 1 + Scale(f))
      BY <1>3, <3>1, <3>2, ValueOfPack
    <3> HIDE DEF M, h, next
    <3>4. /\ x = 0 => Value(f, next) = (y + 1) * g
          /\ x # 0 => Value(f, next) = (M + (y + 1)) * g
      BY <1>7, <3>3
    <3>5. (y + 1) * g = y * g + g /\ (M + (y + 1)) * g = (M + y) * g + g
      BY <1>1, <1>4, <1>6
    <3> QED BY <1>8, <3>4, <3>5
  <2>2. CASE y + 1 = M
    <3>1. p + 1 = (x + 1) * M + 0 /\ p + 1 = x * M + M
      <4> HIDE DEF M
      <4> QED BY <1>1, <1>3, <1>4, <2>2
    <3>2. x + 1 \in 0..N /\ 0 \in 0..(M - 1)
      <4> HIDE DEF M, N
      <4>1. CASE x = N
        BY <1>1, <1>2, <1>3, <1>4, <4>1
      <4> QED BY <1>1, <1>4, <4>1
    <3>3. next = Pack(f, s, x + 1, 0)
      BY <3>1, <3>2, Fields
    <3>4. Value(f, next) = (M + 0) * 2^((x + 1) - 1 + Scale(f))
      BY <1>4, <3>2, <3>3, ValueOfPack
    <3> HIDE DEF M, N, h, next
    <3>5. (x + 1) - 1 + Scale(f) = x + Scale(f) /\ M + 0 = M
      BY <1>1, <1>4
    <3>6. Value(f, next) = M * 2^(x + Scale(f))
      BY <3>4, <3>5
    <3>7. CASE x = 0
      <4>1. x + Scale(f) = Scale(f)
        BY <1>1, <3>7
      <4>2. Value(f, next) = M * g
        BY <1>7, <3>6, <3>7, <4>1
      <4>3. M * g = y * g + g
        <5>1. (y + 1) * g = y * g + g
          BY <1>4, <1>6
        <5> QED BY <2>2, <5>1
      <4> QED BY <1>8, <3>7, <4>2, <4>3
    <3>8. CASE x # 0
      <4>1. x - 1 + Scale(f) \in Nat /\ (x - 1 + Scale(f)) + 1 = x + Scale(f)
        BY <1>1, <1>4, <3>8
      <4>2. 2^(x + Scale(f)) = 2 * g
        BY <1>7, <3>8, <4>1, TwiceThePower
      <4>3. M * (2 * g) = (M + y) * g + g
        <5>1. (y + 1) * (2 * g) = ((y + 1) + y) * g + g
          BY <1>4, <1>6
        <5> QED BY <2>2, <5>1
      <4> QED BY <1>8, <3>6, <3>8, <4>2, <4>3
    <3> QED BY <3>7, <3>8
  <2> QED BY <1>1, <1>4, <2>1, <2>2
<1>10. Value(f, h) \in Nat
  <2> HIDE DEF M, h
  <2>1. y * g \in Nat /\ (M + y) * g \in Nat
    BY <1>1, <1>4, <1>6
  <2> QED BY <1>8, <2>1
<1> QED BY <1>3, <1>6, <1>9, <1>10

LEMMA StepsGrow ==
    ASSUME NEW n \in Nat, NEW v, \A i \in 0..n : v[i] \in Int,
           \A i \in 0..(n - 1) : v[i] < v[i + 1]
    PROVE  \A i, j \in 0..n : i < j => v[i] < v[j]
<1> DEFINE P == {j \in Nat : j <= n => \A i \in 0..n : i < j => v[i] < v[j]}
<1>0. /\ P \in SUBSET Nat
      /\ \A j \in Nat : j \in P <=> (j <= n => \A i \in 0..n : i < j => v[i] < v[j])
  OBVIOUS
<1> HIDE DEF P
<1>1. 0 \in P
  BY <1>0
<1>2. ASSUME NEW j \in P
      PROVE  j + 1 \in P
  <2> SUFFICES ASSUME j + 1 <= n, NEW i \in 0..n, i < j + 1
               PROVE  v[i] < v[j + 1]
    BY <1>0
  <2>1. j \in 0..(n - 1) /\ j \in 0..n /\ j + 1 \in 0..n
    BY <1>0
  <2>2. v[j] < v[j + 1] /\ v[j] \in Int /\ v[j + 1] \in Int /\ v[i] \in Int
    BY <2>1
  <2>3. i = j \/ i < j
    BY <2>1
  <2>4. i < j => v[i] < v[j]
    BY <1>0, <2>1
  <2> QED BY <2>2, <2>3, <2>4
<1>3. P = Nat
  BY <1>0, <1>1, <1>2, Induction
<1> QED BY <1>0, <1>3

\* The greater of two patterns of a sign stands for the greater number.
LEMMA ValuesGrow ==
    ASSUME NEW f, IsFormat(f), NEW s \in {0, 1}
    PROVE  /\ Top(f) \in Nat
           /\ \A p \in 0..Top(f) : Value(f, Signed(f, s, p)) \in Nat
           /\ \A p, q \in 0..Top(f) : p < q => Value(f, Signed(f, s, p)) < Value(f, Signed(f, s, q))
<1> DEFINE v == [p \in 0..Top(f) |-> Value(f, Signed(f, s, p))]
<1>1. Top(f) \in Nat \ {0}
  <2>1. AllOnes(f) \in Nat \ {0} /\ 2^f.mantissa \in Nat \ {0}
    BY FormatPowers
  <2> QED BY <2>1, ProductPositive DEF Top
<1>2. ASSUME NEW p \in 0..(Top(f) - 1)
      PROVE  v[p] \in Nat /\ v[p + 1] \in Nat /\ v[p] < v[p + 1]
  <2>1. /\ p \in 0..Top(f) /\ p + 1 \in 0..Top(f)
    BY <1>1
  <2>2. v[p] = Value(f, Signed(f, s, p)) /\ v[p + 1] = Value(f, Signed(f, s, p + 1))
    BY <2>1
  <2> HIDE DEF v
  <2>3. /\ Value(f, Signed(f, s, p)) \in Nat
        /\ Gap(f, Exponent(f, Signed(f, s, p))) \in Nat \ {0}
        /\ Value(f, Signed(f, s, p + 1)) = Value(f, Signed(f, s, p)) + Gap(f, Exponent(f, Signed(f, s, p)))
    BY NextValue
  <2> QED BY <2>2, <2>3
<1>3. \A p \in 0..Top(f) : v[p] = Value(f, Signed(f, s, p))
  OBVIOUS
<1> HIDE DEF v
<1>4. \A p \in 0..Top(f) : v[p] \in Nat
  <2> SUFFICES ASSUME NEW p \in 0..Top(f)
               PROVE  v[p] \in Nat
    OBVIOUS
  <2>1. CASE p = Top(f)
    <3>1. Top(f) - 1 \in 0..(Top(f) - 1) /\ (Top(f) - 1) + 1 = p
      BY <1>1, <2>1
    <3> QED BY <1>2, <3>1
  <2>2. CASE p # Top(f)
    <3>1. p \in 0..(Top(f) - 1)
      BY <1>1, <2>2
    <3> QED BY <1>2, <3>1
  <2> QED BY <2>1, <2>2
<1>5. \A p, q \in 0..Top(f) : p < q => v[p] < v[q]
  <2>1. \A p \in 0..Top(f) : v[p] \in Int
    BY <1>4
  <2>2. \A p \in 0..(Top(f) - 1) : v[p] < v[p + 1]
    BY <1>2
  <2> QED BY <1>1, <2>1, <2>2, StepsGrow
<1> QED BY <1>1, <1>3, <1>4, <1>5

----------------------------------------------------------------------------
(* What is nearest.                                                        *)

LEMMA PatternsOfSign ==
    ASSUME NEW f, IsFormat(f), NEW s \in {0, 1}
    PROVE  {h \in Patterns(f) : ~IsNaN(f, h) /\ Sign(f, h) = s} = {Signed(f, s, p) : p \in 0..Top(f)}
<1> DEFINE M == 2^f.mantissa
           N == AllOnes(f)
<1>1. M \in Nat \ {0} /\ N \in Nat /\ Top(f) = N * M
  BY FormatPowers DEF Top
<1>2. ASSUME NEW h \in Patterns(f), ~IsNaN(f, h), Sign(f, h) = s
      PROVE  \E p \in 0..Top(f) : h = Signed(f, s, p)
  <2> DEFINE x == Exponent(f, h)
             y == Mantissa(f, h)
  <2>1. x \in 0..N /\ y \in 0..(M - 1) /\ h = Pack(f, s, x, y)
    BY <1>2, Repacked
  <2>2. x = N => y = 0
    BY <1>2 DEF IsNaN
  <2>3. h = Signed(f, s, x * M + y)
    BY <2>1, Fields
  <2> HIDE DEF x, y, M, N
  <2>4. x * M + y \in 0..Top(f)
    <3>1. x \in Nat /\ y \in Nat /\ y < M /\ x <= N /\ x * M \in Nat /\ N * M \in Nat
      BY <1>1, <2>1
    <3>2. CASE x = N
      BY <1>1, <2>2, <3>1, <3>2
    <3>3. CASE x < N
      <4>1. x * M + M <= N * M
        BY <1>1, <3>1, <3>3, NextMultiple
      <4> QED BY <1>1, <3>1, <4>1
    <3> QED BY <1>1, <3>1, <3>2, <3>3
  <2> QED BY <2>3, <2>4
<1>3. ASSUME NEW p \in 0..Top(f)
      PROVE  LET h == Signed(f, s, p) IN h \in Patterns(f) /\ ~IsNaN(f, h) /\ Sign(f, h) = s
  BY FieldsOfSigned DEF IsNaN
<1> QED BY <1>2, <1>3

LEMMA PatternsFinite ==
    ASSUME NEW f, IsFormat(f)
    PROVE  IsFiniteSet(Patterns(f))
<1>1. 2^(1 + f.exponent + f.mantissa) \in Int
  BY FormatPowers
<1> QED BY <1>1, FS_Interval DEF Patterns

\* The sign does not say whether a pattern is even.
LEMMA ParityOfSigned ==
    ASSUME NEW f, IsFormat(f), NEW s \in {0, 1}, NEW p \in Nat
    PROVE  Signed(f, s, p) % 2 = p % 2 /\ Signed(f, s, p + 1) = Signed(f, s, p) + 1
<1>1. PICK h \in Nat \ {0} : 2^f.mantissa = 2 * h
  BY FormatPowers
<1>2. 2^f.exponent \in Nat \ {0} /\ 2^(f.mantissa + f.exponent) = 2^f.exponent * 2^f.mantissa
  BY FormatPowers
<1> DEFINE E == 2^f.exponent
           a == s * (E * h)
<1>3. s * (E * (2 * h)) = a * 2 /\ a \in Nat
  <2> HIDE DEF E
  <2>1. E * h \in Nat
    BY <1>1, <1>2 DEF E
  <2>2. E * (2 * h) = (E * h) * 2
    BY <1>1, <1>2 DEF E
  <2> QED BY <2>1, <2>2
<1>4. Signed(f, s, p) = p + a * 2 /\ Signed(f, s, p + 1) = (p + 1) + a * 2
  BY <1>1, <1>2, <1>3 DEF Signed
<1> HIDE DEF a
<1>5. (p + a * 2) % 2 = p % 2
  BY <1>3, RestRepeats
<1> QED BY <1>3, <1>4, <1>5

LEMMA DistanceIs ==
    ASSUME NEW m \in Int, NEW n \in Int
    PROVE  /\ m <= n => Distance(m, n) = n - m
           /\ n <= m => Distance(m, n) = m - n
BY DEF Distance

\* Between two neighbours the nearer one is nearest, and of two as near the
\* even one.
LEMMA NearestOfTwo ==
    ASSUME NEW f, IsFormat(f), NEW s \in {0, 1}, NEW p \in 0..(Top(f) - 1), NEW v \in Nat,
           NEW h \in {p, p + 1},
           LET low == Value(f, Signed(f, s, p))
               high == Value(f, Signed(f, s, p + 1))
           IN  /\ low <= v /\ v <= high
               /\ h = p => v - low < high - v \/ (v - low = high - v /\ p % 2 = 0)
               /\ h = p + 1 => high - v < v - low \/ (v - low = high - v /\ p % 2 = 1)
    PROVE  Signed(f, s, h) \in Nearest(f, v, s)
<1> DEFINE V(i) == Value(f, Signed(f, s, i))
           d(g) == Distance(Value(f, g), v)
           patterns == {g \in Patterns(f) : ~IsNaN(f, g) /\ Sign(f, g) = s}
           near == {g \in patterns : \A k \in patterns : d(g) <= d(k)}
           low == V(p)
           high == V(p + 1)
           a == Signed(f, s, p)
           b == Signed(f, s, p + 1)
<1>1. Nearest(f, v, s) = IF Cardinality(near) = 1 THEN near ELSE {g \in near : g % 2 = 0}
  BY DEF Nearest
<1>2. patterns = {Signed(f, s, i) : i \in 0..Top(f)}
  BY PatternsOfSign
<1> HIDE DEF patterns
<1>3. /\ Top(f) \in Nat /\ \A i \in 0..Top(f) : V(i) \in Nat
      /\ \A i, j \in 0..Top(f) : i < j => V(i) < V(j)
  BY ValuesGrow
<1>4. p \in 0..Top(f) /\ p + 1 \in 0..Top(f) /\ p \in Nat
  BY <1>3
<1>5. low \in Nat /\ high \in Nat /\ low < high
  BY <1>3, <1>4
<1>6. low <= v /\ v <= high
  OBVIOUS
<1>7. d(a) = v - low /\ d(b) = high - v
  BY <1>5, <1>6, DistanceIs
<1>8. ASSUME NEW i \in 0..Top(f), i # p, i # p + 1
      PROVE  \/ v - low < d(Signed(f, s, i)) /\ i < p
             \/ high - v < d(Signed(f, s, i)) /\ p + 1 < i
  <2> HIDE DEF V
  <2>1. V(i) \in Nat /\ low \in Nat /\ high \in Nat
    BY <1>3, <1>5
  <2>2. CASE i < p
    <3>1. V(i) < low
      BY <1>3, <1>4, <2>2
    <3>2. d(Signed(f, s, i)) = v - V(i)
      BY <1>6, <2>1, <3>1, DistanceIs DEF V
    <3> HIDE DEF d
    <3> QED BY <1>6, <2>1, <2>2, <3>1, <3>2
  <2>3. CASE p + 1 < i
    <3>1. high < V(i)
      BY <1>3, <1>4, <2>3
    <3>2. d(Signed(f, s, i)) = V(i) - v
      BY <1>6, <2>1, <3>1, DistanceIs DEF V
    <3> HIDE DEF d
    <3> QED BY <1>6, <2>1, <2>3, <3>1, <3>2
  <2> QED BY <1>4, <1>8, <2>2, <2>3
<1>9. \A i \in 0..Top(f) : d(Signed(f, s, i)) \in Nat
  <2> SUFFICES ASSUME NEW i \in 0..Top(f)
               PROVE  d(Signed(f, s, i)) \in Nat
    OBVIOUS
  <2>1. V(i) \in Nat
    BY <1>3
  <2> QED BY <2>1 DEF Distance
<1>10. a \in patterns /\ b \in patterns
  BY <1>2, <1>4
<1>11. \A g \in patterns : g = a \/ g = b \/ v - low < d(g) \/ high - v < d(g)
  BY <1>2, <1>8
<1>12. \A g \in patterns : d(g) \in Nat
  BY <1>2, <1>9
<1>13. a # b /\ a % 2 = p % 2 /\ b % 2 = (p + 1) % 2
  <2>1. a % 2 = p % 2 /\ b = a + 1 /\ b % 2 = (p + 1) % 2
    BY <1>4, ParityOfSigned
  <2>2. d(a) # d(b) \/ V(p) # V(p + 1)
    BY <1>5
  <2>3. a # b
    BY <1>5
  <2> QED BY <2>1, <2>3
<1>14. \/ v - low < high - v /\ h = p
       \/ high - v < v - low /\ h = p + 1
       \/ v - low = high - v /\ p % 2 = 0 /\ h = p
       \/ v - low = high - v /\ p % 2 = 1 /\ h = p + 1
  <2>1. h = p \/ h = p + 1
    OBVIOUS
  <2> QED BY <2>1
<1> HIDE DEF d, V, low, high, a, b
<1>15. CASE v - low < high - v /\ h = p
  <2>1. \A g \in patterns : g # a => d(a) < d(g)
    <3>0. ~(high - v < v - low)
      BY <1>5, <1>6, <1>15
    <3>1. ASSUME NEW g \in patterns, g # a
          PROVE  d(a) < d(g)
      BY <1>5, <1>6, <1>7, <1>11, <1>12, <1>15, <3>1
    <3> QED BY <3>1
  <2>2. near = {a}
    BY <1>10, <1>12, <2>1
  <2>3. Cardinality(near) = 1
    BY <2>2, FS_Singleton
  <2> QED BY <1>1, <1>15, <2>2, <2>3 DEF a
<1>16. CASE high - v < v - low /\ h = p + 1
  <2>1. \A g \in patterns : g # b => d(b) < d(g)
    <3>1. ASSUME NEW g \in patterns, g # b
          PROVE  d(b) < d(g)
      BY <1>5, <1>6, <1>7, <1>11, <1>12, <1>16, <3>1
    <3> QED BY <3>1
  <2>2. near = {b}
    BY <1>10, <1>12, <2>1
  <2>3. Cardinality(near) = 1
    BY <2>2, FS_Singleton
  <2> QED BY <1>1, <1>16, <2>2, <2>3 DEF b
<1>17. CASE v - low = high - v
  <2>1. \A g \in patterns : d(a) <= d(g) /\ d(b) <= d(g)
    <3>1. ASSUME NEW g \in patterns
          PROVE  d(a) <= d(g) /\ d(b) <= d(g)
      BY <1>5, <1>6, <1>7, <1>11, <1>12, <1>17
    <3> QED BY <3>1
  <2>2. a \in near /\ b \in near
    BY <1>10, <2>1
  <2>3. Cardinality(near) # 1
    <3>1. SUFFICES ASSUME Cardinality(near) = 1
                   PROVE  FALSE
      OBVIOUS
    <3>2. IsFiniteSet(near)
      <4>1. IsFiniteSet(Patterns(f))
        BY PatternsFinite
      <4>2. near \subseteq Patterns(f)
        BY DEF patterns
      <4> QED BY <4>1, <4>2, FS_Subset
    <3>3. PICK x : near = {x}
      BY <3>1, <3>2, FS_Singleton
    <3> QED BY <1>13, <2>2, <3>3
  <2> HIDE DEF near
  <2>4. CASE h = p
    <3>1. p % 2 = 0
      BY <1>5, <1>6, <1>14, <1>17, <2>4
    <3>2. a % 2 = 0
      BY <1>13, <3>1
    <3> QED BY <1>1, <2>2, <2>3, <2>4, <3>2 DEF a
  <2>5. CASE h = p + 1
    <3>1. p % 2 = 1
      BY <1>4, <1>5, <1>6, <1>14, <1>17, <2>5
    <3>2. b % 2 = 0
      BY <1>4, <1>13, <3>1
    <3> QED BY <1>1, <2>2, <2>3, <2>5, <3>2 DEF b
  <2> QED BY <2>4, <2>5
<1> QED BY <1>14, <1>15, <1>16, <1>17

\* From infinity on, infinity is nearest.
LEMMA NearestOfLarge ==
    ASSUME NEW f, IsFormat(f), NEW s \in {0, 1}, NEW v \in Nat,
           Value(f, Signed(f, s, Top(f))) <= v
    PROVE  Signed(f, s, Top(f)) \in Nearest(f, v, s)
<1> DEFINE V(i) == Value(f, Signed(f, s, i))
           d(g) == Distance(Value(f, g), v)
           patterns == {g \in Patterns(f) : ~IsNaN(f, g) /\ Sign(f, g) = s}
           near == {g \in patterns : \A k \in patterns : d(g) <= d(k)}
           a == Signed(f, s, Top(f))
<1>1. Nearest(f, v, s) = IF Cardinality(near) = 1 THEN near ELSE {g \in near : g % 2 = 0}
  BY DEF Nearest
<1>2. patterns = {Signed(f, s, i) : i \in 0..Top(f)}
  BY PatternsOfSign
<1> HIDE DEF patterns
<1>3. /\ Top(f) \in Nat /\ \A i \in 0..Top(f) : V(i) \in Nat
      /\ \A i, j \in 0..Top(f) : i < j => V(i) < V(j)
  BY ValuesGrow
<1>4. Top(f) \in 0..Top(f) /\ V(Top(f)) \in Nat
  BY <1>3
<1>5. d(a) = v - V(Top(f))
  BY <1>4, DistanceIs
<1>6. ASSUME NEW i \in 0..Top(f), i # Top(f)
      PROVE  d(a) < d(Signed(f, s, i))
  <2>1. V(i) \in Nat /\ V(i) < V(Top(f))
    BY <1>3, <1>4, <1>6
  <2>2. d(Signed(f, s, i)) = v - V(i)
    BY <1>4, <2>1, DistanceIs
  <2> HIDE DEF V, d
  <2> QED BY <1>4, <1>5, <2>1, <2>2
<1>7. a \in patterns /\ d(a) <= d(a)
  <2>1. d(a) \in Int
    BY <1>4, <1>5
  <2> QED BY <1>2, <1>4, <2>1
<1>8. \A g \in patterns : g # a => d(a) < d(g) /\ d(g) \in Int
  <2>1. \A i \in 0..Top(f) : d(Signed(f, s, i)) \in Int
    BY <1>3 DEF Distance
  <2> QED BY <1>2, <1>6, <2>1
<1>9. d(a) \in Int
  BY <1>4, <1>5
<1> HIDE DEF d, V, a
<1>10. near = {a}
  BY <1>7, <1>8, <1>9
<1>11. Cardinality(near) = 1
  BY <1>10, FS_Singleton
<1> QED BY <1>1, <1>10, <1>11 DEF a

LEMMA RoundedIs ==
    ASSUME NEW n \in Nat, NEW shift \in Nat \ {0}
    PROVE  LET q == n \div 2^shift
               r == n % 2^shift
               rest == 2^shift - r
           IN  /\ q \in Nat /\ n = 2^shift * q + r /\ r \in 0..(2^shift - 1) /\ 2^shift \in Nat \ {0}
               /\ \/ Rounded(n, shift) = q /\ (r < rest \/ (r = rest /\ q % 2 = 0))
                  \/ Rounded(n, shift) = q + 1 /\ (rest < r \/ (r = rest /\ q % 2 = 1))
<1> DEFINE half == 2^(shift - 1)
           D == 2^shift
           q == n \div D
           r == n % D
<1>1. shift - 1 \in Nat /\ (shift - 1) + 1 = shift
  OBVIOUS
<1>2. half \in Nat \ {0} /\ D = 2 * half
  BY <1>1, TwiceThePower, PowerPositive
<1>3. Rounded(n, shift) = IF r > half \/ (r = half /\ q % 2 = 1) THEN q + 1 ELSE q
  BY DEF Rounded
<1> HIDE DEF half, D
<1>4. q \in Nat /\ n = D * q + r /\ r \in 0..(D - 1) /\ D \in Nat \ {0}
  <2>1. D \in Nat \ {0}
    BY <1>2
  <2>2. r \in 0..(D - 1)
    BY <2>1
  <2> QED BY <2>1, <2>2, QuotientNat, Division
<1> HIDE DEF q, r
<1>5. q % 2 = 0 \/ q % 2 = 1
  BY <1>4
<1>6. \/ Rounded(n, shift) = q /\ (r < D - r \/ (r = D - r /\ q % 2 = 0))
      \/ Rounded(n, shift) = q + 1 /\ (D - r < r \/ (r = D - r /\ q % 2 = 1))
  BY <1>2, <1>3, <1>4, <1>5
<1> QED BY <1>4, <1>6 DEF q, r, D

\* v lies between the values of p and its neighbour as n lies between two
\* multiples of 2^shift, and h is to them what n rounded is to those.
RoundedBetween(f, s, p, v, n, shift, c, h) ==
    LET low == Value(f, Signed(f, s, p))
        high == Value(f, Signed(f, s, p + 1))
    IN  /\ v = low + (n % 2^shift) * c /\ high = low + 2^shift * c
        /\ p % 2 = (n \div 2^shift) % 2
        /\ h - p = Rounded(n, shift) - (n \div 2^shift)

LEMMA RoundsToNearest ==
    ASSUME NEW f, IsFormat(f), NEW s \in {0, 1}, NEW p \in 0..(Top(f) - 1), NEW v \in Nat,
           NEW n \in Nat, NEW shift \in Nat \ {0}, NEW c \in Nat \ {0}, NEW h \in Nat,
           RoundedBetween(f, s, p, v, n, shift, c, h)
    PROVE  Signed(f, s, h) \in Nearest(f, v, s) /\ h \in {p, p + 1}
<1> DEFINE low == Value(f, Signed(f, s, p))
           high == Value(f, Signed(f, s, p + 1))
           D == 2^shift
           q == n \div D
           r == n % D
<1>1. /\ q \in Nat /\ n = D * q + r /\ r \in 0..(D - 1) /\ D \in Nat \ {0}
      /\ \/ Rounded(n, shift) = q /\ (r < D - r \/ (r = D - r /\ q % 2 = 0))
         \/ Rounded(n, shift) = q + 1 /\ (D - r < r \/ (r = D - r /\ q % 2 = 1))
  BY RoundedIs
<1>2. low \in Nat /\ high \in Nat /\ p \in Nat
  <2>1. Top(f) \in Nat /\ \A i \in 0..Top(f) : Value(f, Signed(f, s, i)) \in Nat
    BY ValuesGrow
  <2>2. p \in 0..Top(f) /\ p + 1 \in 0..Top(f) /\ p \in Nat
    BY <2>1
  <2> QED BY <2>1, <2>2
<1>3. v = low + r * c /\ high = low + D * c /\ p % 2 = q % 2 /\ h - p = Rounded(n, shift) - q
  BY DEF RoundedBetween
<1> HIDE DEF low, high, D, q, r
<1>4. r \in Nat /\ D - r \in Nat /\ r * c \in Nat /\ (D - r) * c \in Nat
  BY <1>1
<1>5. D * c = r * c + (D - r) * c
  BY <1>1, <1>4
<1>6. v - low = r * c /\ high - v = (D - r) * c /\ low <= v /\ v <= high
  BY <1>2, <1>3, <1>4, <1>5
<1>7. \A a, b \in Nat : a < b => a * c < b * c
  <2> SUFFICES ASSUME NEW a \in Nat, NEW b \in Nat, a < b
               PROVE  a * c < b * c
    OBVIOUS
  <2>1. a * c + c <= b * c /\ a * c \in Nat
    BY NextMultiple
  <2> QED BY <2>1
<1>8. \/ h = p /\ (v - low < high - v \/ (v - low = high - v /\ p % 2 = 0))
      \/ h = p + 1 /\ (high - v < v - low \/ (v - low = high - v /\ p % 2 = 1))
  <2>1. CASE Rounded(n, shift) = q /\ (r < D - r \/ (r = D - r /\ q % 2 = 0))
    <3>1. h = p
      BY <1>1, <1>2, <1>3, <2>1
    <3>2. v - low < high - v \/ (v - low = high - v /\ p % 2 = 0)
      BY <1>3, <1>4, <1>6, <1>7, <2>1
    <3> QED BY <3>1, <3>2
  <2>2. CASE Rounded(n, shift) = q + 1 /\ (D - r < r \/ (r = D - r /\ q % 2 = 1))
    <3>1. h = p + 1
      BY <1>1, <1>2, <1>3, <2>2
    <3>2. high - v < v - low \/ (v - low = high - v /\ p % 2 = 1)
      BY <1>3, <1>4, <1>6, <1>7, <2>2
    <3> QED BY <3>1, <3>2
  <2> QED BY <1>1, <2>1, <2>2
<1>9. h \in {p, p + 1} /\ p # p + 1
  BY <1>2, <1>8
<1>10. /\ h = p => v - low < high - v \/ (v - low = high - v /\ p % 2 = 0)
       /\ h = p + 1 => high - v < v - low \/ (v - low = high - v /\ p % 2 = 1)
  BY <1>8, <1>9
<1> QED BY <1>6, <1>9, <1>10, NearestOfTwo DEF low, high

----------------------------------------------------------------------------
(* The three formats.                                                      *)

LEMMA Formats ==
    /\ IsFormat(Wide) /\ IsFormat(Half) /\ IsFormat(Brain)
    /\ Wide.exponent = WideExponent /\ Wide.mantissa = WideMantissa
    /\ Half.exponent = HalfExponent /\ Half.mantissa = HalfMantissa
    /\ Brain.exponent = WideExponent /\ Brain.mantissa = BrainMantissa
    /\ Dropped \in Nat \ {0} /\ WideMantissa = HalfMantissa + Dropped
    /\ BrainDropped \in Nat \ {0} /\ WideMantissa = BrainMantissa + BrainDropped
    /\ Bias(Wide) \in Nat /\ Bias(Half) \in Nat /\ HalfMantissa < Bias(Wide) - Bias(Half)
    /\ Scale(Wide) = 0 /\ Scale(Brain) = BrainDropped
    /\ Scale(Half) = Bias(Wide) - Bias(Half) + Dropped
<1>1. /\ WideExponent \in Nat \ {0} /\ WideMantissa \in Nat \ {0} /\ HalfExponent \in Nat \ {0}
      /\ HalfMantissa \in Nat \ {0} /\ BrainMantissa \in Nat \ {0}
      /\ HalfMantissa < WideMantissa /\ BrainMantissa < WideMantissa
  BY WidthsOK
<1>2. /\ Wide.exponent = WideExponent /\ Wide.mantissa = WideMantissa
      /\ Half.exponent = HalfExponent /\ Half.mantissa = HalfMantissa
      /\ Brain.exponent = WideExponent /\ Brain.mantissa = BrainMantissa
  BY DEF Wide, Half, Brain, Format
<1>3. /\ Dropped \in Nat \ {0} /\ WideMantissa = HalfMantissa + Dropped
      /\ BrainDropped \in Nat \ {0} /\ WideMantissa = BrainMantissa + BrainDropped
  BY <1>1 DEF Dropped, BrainDropped
<1>4. Bias(Wide) \in Nat /\ Bias(Half) \in Nat /\ Bias(Brain) = Bias(Wide)
  <2>1. WideExponent - 1 \in Nat /\ HalfExponent - 1 \in Nat
    BY <1>1
  <2>2. 2^(WideExponent - 1) \in Nat \ {0} /\ 2^(HalfExponent - 1) \in Nat \ {0}
    BY <2>1, PowerPositive
  <2> QED BY <1>2, <2>2 DEF Bias
<1>5. HalfMantissa < Bias(Wide) - Bias(Half)
  BY RangesOK
<1>6. /\ Scale(Wide) = 0 /\ Scale(Brain) = BrainDropped
      /\ Scale(Half) = Bias(Wide) - Bias(Half) + Dropped
  BY <1>1, <1>2, <1>3, <1>4 DEF Scale
<1>7. Scale(Wide) \in Nat /\ Scale(Brain) \in Nat /\ Scale(Half) \in Nat
  BY <1>1, <1>3, <1>4, <1>5, <1>6
<1> QED BY <1>1, <1>2, <1>3, <1>4, <1>5, <1>6, <1>7 DEF IsFormat

----------------------------------------------------------------------------
(* Widening.                                                               *)

WidensExactly(f, bits, wide) ==
    IF IsNaN(f, bits) THEN IsNaN(Wide, wide)
    ELSE /\ Sign(Wide, wide) = Sign(f, bits)
         /\ IF Exponent(f, bits) = AllOnes(f)
            THEN Exponent(Wide, wide) = AllOnes(Wide) /\ Mantissa(Wide, wide) = 0
            ELSE Value(Wide, wide) = Value(f, bits)

\* A mantissa with zeros after it is one of the wider format.
LEMMA WiderMantissa ==
    ASSUME NEW m \in Nat, NEW d \in Nat, NEW y \in 0..(2^m - 1)
    PROVE  /\ y * 2^d \in 0..(2^(m + d) - 1) /\ (y # 0 => y * 2^d # 0)
           /\ 2^(m + d) = 2^m * 2^d
<1>1. 2^m \in Nat \ {0} /\ 2^d \in Nat \ {0} /\ 2^(m + d) = 2^m * 2^d
  BY PowerPositive, PowerOfSum
<1> DEFINE M == 2^m
           D == 2^d
<1>2. y \in Nat /\ y < M
  BY <1>1
<1>3. y * D + D <= M * D /\ y * D \in Nat /\ M * D \in Nat
  <2>1. M \in Nat \ {0} /\ D \in Nat \ {0}
    BY <1>1
  <2> HIDE DEF M, D
  <2> QED BY <1>2, <2>1, NextMultiple
<1>4. y # 0 => y * D # 0
  <2>1. M \in Nat \ {0} /\ D \in Nat \ {0}
    BY <1>1
  <2> HIDE DEF M, D
  <2> QED BY <1>2, <2>1, ProductPositive
<1>5. y * D \in 0..(M * D - 1)
  <2>1. M \in Nat \ {0} /\ D \in Nat \ {0}
    BY <1>1
  <2> HIDE DEF M, D
  <2> QED BY <1>3, <2>1
<1> QED BY <1>1, <1>4, <1>5

LEMMA BrainWidens ==
    ASSUME NEW bits \in Patterns(Brain)
    PROVE  WidensExactly(Brain, bits, BrainToWide(bits))
<1> DEFINE s == Sign(Brain, bits)
           x == Exponent(Brain, bits)
           y == Mantissa(Brain, bits)
           D == 2^BrainDropped
           M == 2^BrainMantissa
           E == 2^WideExponent
<1>1. /\ s \in {0, 1} /\ x \in 0..AllOnes(Brain) /\ y \in 0..(M - 1)
      /\ bits = Pack(Brain, s, x, y)
  BY Repacked, Formats
<1>2. AllOnes(Brain) = AllOnes(Wide) /\ AllOnes(Wide) \in Nat
  BY Formats, FormatPowers DEF AllOnes
<1>3. /\ y * D \in 0..(2^WideMantissa - 1) /\ (y # 0 => y * D # 0)
      /\ 2^WideMantissa = M * D /\ D \in Nat \ {0} /\ M \in Nat \ {0} /\ E \in Nat \ {0}
  <2>1. BrainMantissa \in Nat /\ BrainDropped \in Nat /\ WideMantissa = BrainMantissa + BrainDropped
        /\ WideExponent \in Nat
    BY Formats, WidthsOK
  <2>2. D \in Nat \ {0} /\ M \in Nat \ {0} /\ E \in Nat \ {0}
    BY <2>1, PowerPositive
  <2>3. /\ y * 2^BrainDropped \in 0..(2^(BrainMantissa + BrainDropped) - 1)
        /\ (y # 0 => y * 2^BrainDropped # 0)
        /\ 2^(BrainMantissa + BrainDropped) = 2^BrainMantissa * 2^BrainDropped
    BY <1>1, <2>1, WiderMantissa
  <2> QED BY <2>1, <2>2, <2>3
<1>4. BrainToWide(bits) = Pack(Wide, s, x, y * D)
  <2>1. BrainToWide(bits) = ((s * E + x) * M + y) * D
    BY <1>1, Formats DEF Pack, BrainToWide
  <2>2. Pack(Wide, s, x, y * D) = (s * E + x) * (M * D) + y * D
    BY <1>3, Formats DEF Pack
  <2>3. s * E + x \in Nat /\ y \in Nat
    <3>1. s \in Nat /\ x \in Nat /\ y \in Nat
      BY <1>1, <1>2, <1>3
    <3> HIDE DEF s, x, y, E
    <3> QED BY <1>3, <3>1
  <2> HIDE DEF E, M, D, s, x, y
  <2>4. \A a \in Nat : (a * M + y) * D = a * (M * D) + y * D
    BY <1>3, <2>3
  <2> QED BY <2>1, <2>2, <2>3, <2>4
<1> DEFINE wide == Pack(Wide, s, x, y * D)
<1>5. Sign(Wide, wide) = s /\ Exponent(Wide, wide) = x /\ Mantissa(Wide, wide) = y * D
  BY <1>1, <1>2, <1>3, Formats, Fields
<1>6. /\ Value(Wide, wide) = IF x = 0 THEN (y * D) * 2^Scale(Wide)
                             ELSE (2^WideMantissa + y * D) * 2^(x - 1 + Scale(Wide))
      /\ Value(Brain, bits) = IF x = 0 THEN y * 2^Scale(Brain)
                              ELSE (2^BrainMantissa + y) * 2^(x - 1 + Scale(Brain))
  <2>1. /\ IsFormat(Wide) /\ Wide.mantissa = WideMantissa /\ x \in 0..AllOnes(Wide)
        /\ y * D \in 0..(2^Wide.mantissa - 1)
        /\ IsFormat(Brain) /\ Brain.mantissa = BrainMantissa /\ x \in 0..AllOnes(Brain)
        /\ y \in 0..(2^Brain.mantissa - 1)
    BY <1>1, <1>2, <1>3, Formats
  <2>2. Value(Brain, bits) = Value(Brain, Pack(Brain, s, x, y)) /\ s \in {0, 1}
    BY <1>1
  <2> HIDE DEF s, x, y, D, M
  <2>3. Value(Wide, Pack(Wide, s, x, y * D)) =
            IF x = 0 THEN (y * D) * 2^Scale(Wide)
            ELSE (2^Wide.mantissa + y * D) * 2^(x - 1 + Scale(Wide))
    BY <2>1, <2>2, ValueOfPack
  <2>4. Value(Brain, Pack(Brain, s, x, y)) =
            IF x = 0 THEN y * 2^Scale(Brain)
            ELSE (2^Brain.mantissa + y) * 2^(x - 1 + Scale(Brain))
    BY <2>1, <2>2, ValueOfPack
  <2> QED BY <2>1, <2>2, <2>3, <2>4
<1>7. Value(Wide, wide) = Value(Brain, bits)
  <2>1. x \in Nat /\ y \in Nat /\ BrainDropped \in Nat /\ Scale(Wide) = 0 /\ Scale(Brain) = BrainDropped
    BY <1>1, <1>2, <1>3, Formats
  <2>2. CASE x = 0
    <3>1. Value(Wide, wide) = (y * D) * 1 /\ Value(Brain, bits) = y * D
      BY <1>6, <2>1, <2>2, PowerOfNothing
    <3>2. y * D \in Nat
      <4> HIDE DEF y, D
      <4> QED BY <1>3, <2>1
    <3> QED BY <3>1, <3>2
  <2>3. CASE x # 0
    <3>1. x - 1 \in Nat /\ x - 1 + 0 = x - 1
      BY <2>1, <2>3
    <3> DEFINE g == 2^(x - 1)
    <3>2. g \in Nat \ {0} /\ 2^(x - 1 + BrainDropped) = g * D
      BY <2>1, <3>1, PowerPositive, PowerOfSum
    <3>3. Value(Wide, wide) = (M * D + y * D) * g /\ Value(Brain, bits) = (M + y) * (g * D)
      BY <1>3, <1>6, <2>1, <2>3, <3>1, <3>2
    <3> HIDE DEF g, M, D, y
    <3>4. (M * D + y * D) * g = (M + y) * (g * D)
      BY <1>3, <2>1, <3>2
    <3> QED BY <3>3, <3>4
  <2> QED BY <2>2, <2>3
<1> HIDE DEF wide, s, x, y
<1> QED BY <1>2, <1>3, <1>4, <1>5, <1>7 DEF WidensExactly, IsNaN, wide, s, x, y

LEMMA HalfPowers ==
    /\ 2^HalfMantissa \in Nat \ {0} /\ 2^Dropped \in Nat \ {0}
    /\ 2^WideMantissa = 2^HalfMantissa * 2^Dropped
    /\ AllOnes(Half) = 2 * Bias(Half) + 1 /\ AllOnes(Wide) = 2 * Bias(Wide) + 1
<1>1. HalfMantissa \in Nat /\ Dropped \in Nat /\ WideMantissa = HalfMantissa + Dropped
  BY Formats, WidthsOK
<1>2. /\ 2^HalfMantissa \in Nat \ {0} /\ 2^Dropped \in Nat \ {0}
      /\ 2^(HalfMantissa + Dropped) = 2^HalfMantissa * 2^Dropped
  BY <1>1, PowerPositive, PowerOfSum
<1> QED BY <1>1, <1>2, Formats, FormatPowers

LEMMA LeastOf ==
    ASSUME NEW S \in SUBSET Nat, NEW n \in S, \A m \in S : n <= m
    PROVE  Min(S) = n
<1>1. Min(S) \in S /\ \A m \in S : Min(S) <= m
  BY Zenon DEF Min
<1>2. Min(S) <= n /\ n <= Min(S) /\ Min(S) \in Nat
  BY <1>1
<1> QED BY <1>2

\* The first shift that has a subnormal's leading bit where a normal has it.
LEMMA LeadingBit ==
    ASSUME NEW y \in 1..(2^HalfMantissa - 1)
    PROVE  LET shift == Min({n \in 0..HalfMantissa : y * 2^n >= 2^HalfMantissa})
           IN  /\ shift \in 0..HalfMantissa
               /\ (y * 2^shift) % 2^HalfMantissa \in 0..(2^HalfMantissa - 1)
               /\ y * 2^shift = 2^HalfMantissa + ((y * 2^shift) % 2^HalfMantissa)
<1> DEFINE M == 2^HalfMantissa
           S == {n \in 0..HalfMantissa : y * 2^n >= 2^HalfMantissa}
           shift == Min(S)
<1>1. M \in Nat \ {0} /\ HalfMantissa \in Nat
  BY HalfPowers, WidthsOK
<1>2. y \in Nat \ {0} /\ y < M
  BY <1>1
<1>3. HalfMantissa \in S
  <2>1. y * M >= M
    <3> HIDE DEF M
    <3> QED BY <1>1, <1>2
  <2> QED BY <1>1, <2>1
<1>4. S \in SUBSET Nat /\ S # {}
  <2>1. 0..HalfMantissa \in SUBSET Nat /\ S \subseteq 0..HalfMantissa
    BY <1>1
  <2> QED BY <1>3, <2>1
<1>5. PICK n \in S : \A k \in S : n <= k
  <2> HIDE DEF S
  <2> QED BY <1>4, LeastNatural
<1>6. shift = n
  <2> HIDE DEF S
  <2> QED BY <1>4, <1>5, LeastOf
<1>7. n \in 0..HalfMantissa /\ n \in Nat /\ y * 2^n >= M
  BY <1>1, <1>5
<1>8. n # 0
  <2>1. CASE n = 0
    <3>1. y * 1 >= M
      BY <1>7, <2>1, PowerOfNothing
    <3> HIDE DEF M
    <3> QED BY <1>1, <1>2, <3>1
  <2> QED BY <2>1
<1>9. n - 1 \in Nat /\ n - 1 \in 0..HalfMantissa /\ (n - 1) + 1 = n
  BY <1>1, <1>7, <1>8
<1>10. ~(n - 1 \in S)
  <2>1. ~(n <= n - 1)
    BY <1>7
  <2> HIDE DEF S
  <2> QED BY <1>5, <2>1
<1>11. ~(y * 2^(n - 1) >= M)
  BY <1>9, <1>10
<1> DEFINE h == 2^(n - 1)
           z == y * 2^n
<1>12. h \in Nat \ {0} /\ 2^n = 2 * h
  BY <1>9, TwiceThePower, PowerPositive
<1>13. z \in Nat /\ M <= z /\ z < 2 * M
  <2>1. z = y * (2 * h) /\ ~(y * h >= M) /\ z >= M
    BY <1>7, <1>11, <1>12
  <2> HIDE DEF h, z, M
  <2>2. y * h \in Nat /\ y * (2 * h) = 2 * (y * h)
    BY <1>2, <1>12
  <2> QED BY <1>1, <2>1, <2>2
<1> HIDE DEF z, M
<1>14. z = 1 * M + (z - M) /\ z - M \in 0..(M - 1) /\ 1 \in Nat
  BY <1>1, <1>13
<1>15. (1 * M + (z - M)) % M = z - M
  BY <1>1, <1>14, DivisionIs
<1>16. z % M = z - M
  BY <1>14, <1>15
<1>17. z % M \in 0..(M - 1) /\ z = M + (z % M)
  BY <1>1, <1>13, <1>14, <1>16
<1>18. y * 2^shift = z
  BY <1>6, Zenon DEF z
<1>19. shift \in 0..HalfMantissa
  BY <1>6, <1>7
<1> QED BY <1>17, <1>18, <1>19 DEF M

LEMMA HalfWidens ==
    ASSUME NEW bits \in Patterns(Half)
    PROVE  WidensExactly(Half, bits, HalfToWide(bits))
<1> DEFINE s == Sign(Half, bits)
           x == Exponent(Half, bits)
           y == Mantissa(Half, bits)
           D == 2^Dropped
           M == 2^HalfMantissa
           BW == Bias(Wide)
           BH == Bias(Half)
           wide == HalfToWide(bits)
           shift == Min({n \in 0..HalfMantissa : y * 2^n >= M})
           z == (y * 2^shift) % M
\* What the cases have in common: which fields are packed, and what they say.
<1>1. /\ s \in {0, 1} /\ x \in 0..AllOnes(Half) /\ y \in 0..(M - 1)
      /\ bits = Pack(Half, s, x, y)
  BY Repacked, Formats
<1>2. /\ D \in Nat \ {0} /\ M \in Nat \ {0} /\ 2^WideMantissa = M * D
      /\ AllOnes(Half) = 2 * BH + 1 /\ AllOnes(Wide) = 2 * BW + 1
  BY HalfPowers
<1>3. /\ BW \in Nat /\ BH \in Nat /\ HalfMantissa \in Nat \ {0} /\ HalfMantissa < BW - BH
      /\ Dropped \in Nat \ {0} /\ Scale(Wide) = 0 /\ Scale(Half) = BW - BH + Dropped
      /\ Wide.mantissa = WideMantissa /\ Half.mantissa = HalfMantissa
      /\ IsFormat(Wide) /\ IsFormat(Half) /\ WideMantissa = HalfMantissa + Dropped
  BY Formats, WidthsOK
<1>4. x \in Nat /\ y \in Nat /\ x <= 2 * BH + 1
  BY <1>1, <1>2, <1>3
<1>5. Value(Half, bits) = IF x = 0 THEN y * 2^(BW - BH + Dropped)
                         ELSE (M + y) * 2^(x - 1 + (BW - BH + Dropped))
  <2>1. Value(Half, Pack(Half, s, x, y)) =
            IF x = 0 THEN y * 2^Scale(Half) ELSE (2^Half.mantissa + y) * 2^(x - 1 + Scale(Half))
    <3> HIDE DEF s, x, y
    <3> QED BY <1>1, <1>3, ValueOfPack
  <2> HIDE DEF s, x, y
  <2> QED BY <1>1, <1>3, <2>1
<1>6. ASSUME NEW u \in 0..(M - 1)
      PROVE  /\ u * D \in 0..(2^WideMantissa - 1) /\ (u # 0 => u * D # 0) /\ u \in Nat
             /\ u * D \in Nat
  <2>1. HalfMantissa \in Nat /\ Dropped \in Nat
    BY <1>3
  <2>2. /\ u * 2^Dropped \in 0..(2^(HalfMantissa + Dropped) - 1)
        /\ (u # 0 => u * 2^Dropped # 0)
    BY <2>1, WiderMantissa
  <2>3. u \in Nat
    BY <1>2
  <2>4. u * D \in Nat
    <3> HIDE DEF D
    <3> QED BY <1>2, <2>3
  <2> QED BY <1>3, <2>2, <2>3, <2>4
<1>7. ASSUME NEW X \in 0..AllOnes(Wide), NEW Y \in 0..(2^WideMantissa - 1), wide = Pack(Wide, s, X, Y)
      PROVE  /\ Sign(Wide, wide) = s /\ Exponent(Wide, wide) = X /\ Mantissa(Wide, wide) = Y
             /\ Value(Wide, wide) = IF X = 0 THEN Y * 2^0 ELSE (M * D + Y) * 2^(X - 1 + 0)
  <2> HIDE DEF s, wide
  <2>1. Sign(Wide, wide) = s /\ Exponent(Wide, wide) = X /\ Mantissa(Wide, wide) = Y
    BY <1>1, <1>3, <1>7, Fields
  <2>2. Value(Wide, wide) = IF X = 0 THEN Y * 2^Scale(Wide) ELSE (2^Wide.mantissa + Y) * 2^(X - 1 + Scale(Wide))
    <3>1. Y \in 0..(2^Wide.mantissa - 1)
      BY <1>3
    <3>2. IsFormat(Wide) /\ s \in {0, 1}
      BY <1>1, <1>3
    <3>3. Value(Wide, Pack(Wide, s, X, Y)) =
            IF X = 0 THEN Y * 2^Scale(Wide) ELSE (2^Wide.mantissa + Y) * 2^(X - 1 + Scale(Wide))
      BY <3>1, <3>2, ValueOfPack
    <3> QED BY <1>7, <3>3
  <2> HIDE DEF D, M, BW, BH
  <2>3. 2^Scale(Wide) = 2^0 /\ 2^Wide.mantissa = M * D /\ X - 1 + Scale(Wide) = X - 1 + 0
    BY <1>2, <1>3
  <2> QED BY <2>1, <2>2, <2>3
<1>8. wide = IF x = 0 /\ y = 0 THEN Pack(Wide, s, 0, 0)
             ELSE IF x = 0 THEN Pack(Wide, s, BW - BH - shift + 1, z * D)
             ELSE Pack(Wide, s, IF x = AllOnes(Half) THEN AllOnes(Wide) ELSE x - BH + BW, y * D)
  BY DEF HalfToWide, SubnormalExponent
<1>9. /\ IsNaN(Half, bits) <=> x = AllOnes(Half) /\ y # 0
      /\ \A X, Y : Exponent(Wide, wide) = X /\ Mantissa(Wide, wide) = Y =>
                (IsNaN(Wide, wide) <=> X = AllOnes(Wide) /\ Y # 0)
  BY DEF IsNaN
<1>10. AllOnes(Half) # 0 /\ AllOnes(Wide) \in Nat
  BY <1>2, <1>3
<1> SUFFICES IF x = AllOnes(Half) /\ y # 0 THEN IsNaN(Wide, wide)
             ELSE /\ Sign(Wide, wide) = s
                  /\ IF x = AllOnes(Half)
                     THEN Exponent(Wide, wide) = AllOnes(Wide) /\ Mantissa(Wide, wide) = 0
                     ELSE Value(Wide, wide) = Value(Half, bits)
  BY <1>9 DEF WidensExactly
<1> HIDE DEF s, x, y, wide, z, BW, BH
<1>11. CASE x = 0 /\ y = 0
  <2>1. wide = Pack(Wide, s, 0, 0) /\ 0 \in 0..AllOnes(Wide) /\ 0 \in 0..(2^WideMantissa - 1)
    <3>1. 0 \in 0..(M - 1) /\ 0 * D = 0
      BY <1>2
    <3> QED BY <1>6, <1>8, <1>10, <1>11, <3>1
  <2>2. Sign(Wide, wide) = s /\ Value(Wide, wide) = 0 * 2^0
    BY <1>7, <2>1
  <2>3. Value(Half, bits) = 0 * 2^(BW - BH + Dropped)
    BY <1>5, <1>11
  <2>4. 2^0 \in Nat /\ 2^(BW - BH + Dropped) \in Nat
    <3>1. BW - BH + Dropped \in Nat /\ 0 \in Nat
      BY <1>3
    <3> QED BY <3>1, PowerPositive
  <2>5. Value(Wide, wide) = Value(Half, bits)
    BY <2>2, <2>3, <2>4
  <2> QED BY <1>10, <1>11, <2>2, <2>5
<1>12. CASE x = 0 /\ y # 0
  <2>1. /\ shift \in 0..HalfMantissa /\ z \in 0..(M - 1) /\ y * 2^shift = M + z
    <3>1. y \in 1..(M - 1)
      BY <1>1, <1>2, <1>4, <1>12
    <3>2. shift \in 0..HalfMantissa
      BY <3>1, LeadingBit
    <3>3. z \in 0..(M - 1)
      BY <3>1, LeadingBit DEF z
    <3>4. y * 2^shift = M + z
      BY <3>1, LeadingBit, Zenon DEF z
    <3> QED BY <3>2, <3>3, <3>4
  <2> HIDE DEF shift
  <2> DEFINE X == BW - BH - shift + 1
             u == z * D
             p == 2^shift
             g == 2^(BW - BH - shift)
  <2>2. X \in 0..AllOnes(Wide) /\ X # 0 /\ X - 1 + 0 = BW - BH - shift /\ BW - BH - shift \in Nat
        /\ shift \in Nat
    BY <1>2, <1>3, <2>1
  <2>3. wide = Pack(Wide, s, X, u) /\ u \in 0..(2^WideMantissa - 1)
    BY <1>6, <1>8, <1>12, <2>1
  <2>4. Sign(Wide, wide) = s /\ Value(Wide, wide) = (M * D + z * D) * g
    BY <1>7, <2>2, <2>3
  <2>5. p \in Nat \ {0} /\ g \in Nat \ {0} /\ 2^(BW - BH + Dropped) = p * g * D
    <3>1. shift + (BW - BH - shift) = BW - BH /\ BW - BH \in Nat /\ Dropped \in Nat
      BY <1>3, <2>2
    <3>2. 2^(BW - BH) = p * g
      BY <2>2, <3>1, PowerOfSum
    <3>3. 2^(BW - BH + Dropped) = 2^(BW - BH) * D
      BY <3>1, PowerOfSum
    <3> QED BY <2>2, <3>2, <3>3, PowerPositive
  <2>6. Value(Half, bits) = y * (p * g * D) /\ y * p = M + z
    BY <1>5, <1>12, <2>1, <2>5
  <2>7. z \in Nat
    BY <1>6, <2>1
  <2> HIDE DEF p, g, D, M
  <2>8. y * (p * g * D) = (y * p) * (g * D) /\ (M * D + z * D) * g = (M + z) * (g * D)
    BY <1>2, <1>4, <2>5, <2>7
  <2>9. Value(Wide, wide) = Value(Half, bits)
    BY <2>4, <2>6, <2>8
  <2> QED BY <1>10, <1>12, <2>4, <2>9
<1>13. CASE x # 0 /\ x = AllOnes(Half)
  <2>1. wide = Pack(Wide, s, AllOnes(Wide), y * D) /\ AllOnes(Wide) \in 0..AllOnes(Wide)
    BY <1>8, <1>10, <1>13
  <2>2. y * D \in 0..(2^WideMantissa - 1) /\ (y # 0 => y * D # 0) /\ 0 * D = 0
    BY <1>1, <1>2, <1>6
  <2> DEFINE u == y * D
  <2>3. u \in 0..(2^WideMantissa - 1) /\ (y # 0 <=> u # 0) /\ wide = Pack(Wide, s, AllOnes(Wide), u)
    BY <2>1, <2>2
  <2> HIDE DEF u
  <2>4. Sign(Wide, wide) = s /\ Exponent(Wide, wide) = AllOnes(Wide) /\ Mantissa(Wide, wide) = u
    BY <1>7, <2>1, <2>3
  <2> QED BY <1>9, <1>13, <2>3, <2>4
<1>14. CASE x # 0 /\ x # AllOnes(Half)
  <2> DEFINE X == x - BH + BW
             u == y * D
             g == 2^(X - 1)
  <2>1. X \in 0..AllOnes(Wide) /\ X # 0 /\ X - 1 + 0 = X - 1 /\ X - 1 \in Nat
    BY <1>2, <1>3, <1>4, <1>14
  <2>2. wide = Pack(Wide, s, X, u) /\ u \in 0..(2^WideMantissa - 1)
    BY <1>1, <1>6, <1>8, <1>14
  <2>3. Sign(Wide, wide) = s /\ Value(Wide, wide) = (M * D + y * D) * g
    BY <1>7, <2>1, <2>2
  <2>4. g \in Nat \ {0} /\ 2^(x - 1 + (BW - BH + Dropped)) = g * D
    <3>1. x - 1 + (BW - BH + Dropped) = (X - 1) + Dropped /\ Dropped \in Nat
      BY <1>3, <1>4
    <3> QED BY <2>1, <3>1, PowerPositive, PowerOfSum
  <2>5. Value(Half, bits) = (M + y) * (g * D)
    BY <1>5, <1>14, <2>4
  <2> HIDE DEF g, D, M
  <2>6. (M * D + y * D) * g = (M + y) * (g * D)
    BY <1>2, <1>4, <2>4
  <2>7. Value(Wide, wide) = Value(Half, bits)
    BY <2>3, <2>5, <2>6
  <2> QED BY <1>14, <2>3, <2>7
<1> QED BY <1>11, <1>12, <1>13, <1>14

----------------------------------------------------------------------------
(* Rounding.                                                               *)

LEMMA ValueOfWide ==
    ASSUME NEW s \in {0, 1}, NEW x \in 0..AllOnes(Wide), NEW y \in 0..(2^WideMantissa - 1)
    PROVE  /\ x = 0 => Value(Wide, Pack(Wide, s, x, y)) = y
           /\ x # 0 => Value(Wide, Pack(Wide, s, x, y)) = (2^WideMantissa + y) * 2^(x - 1)
<1>1. IsFormat(Wide) /\ Wide.mantissa = WideMantissa /\ Scale(Wide) = 0 /\ AllOnes(Wide) \in Nat
  BY Formats, FormatPowers
<1>2. y \in 0..(2^Wide.mantissa - 1)
  BY <1>1
<1>3. Value(Wide, Pack(Wide, s, x, y)) =
            IF x = 0 THEN y * 2^Scale(Wide) ELSE (2^Wide.mantissa + y) * 2^(x - 1 + Scale(Wide))
  <2>1. IsFormat(Wide)
    BY <1>1
  <2>2. ASSUME NEW f, f = Wide
        PROVE  Value(f, Pack(f, s, x, y)) =
                 IF x = 0 THEN y * 2^Scale(f) ELSE (2^f.mantissa + y) * 2^(x - 1 + Scale(f))
    <3>1. IsFormat(f) /\ x \in 0..AllOnes(f) /\ y \in 0..(2^f.mantissa - 1)
      BY <1>2, <2>1, <2>2
    <3> QED BY <3>1, ValueOfPack
  <2> QED BY <2>2
<1>4. 2^Scale(Wide) = 1 /\ x - 1 + Scale(Wide) = x - 1 /\ y * 1 = y
  <2>1. 2^Scale(Wide) = 1
    BY <1>1, PowerOfNothing
  <2>2. x \in Nat /\ y \in Int
    BY <1>1
  <2> QED BY <1>1, <2>1, <2>2
<1>5. CASE x = 0
  BY <1>3, <1>4, <1>5
<1>6. CASE x # 0
  BY <1>1, <1>3, <1>4, <1>6
<1> QED BY <1>5, <1>6

\* A mantissa of M * D values, and how far it is past a multiple of D.
LEMMA CutMantissa ==
    ASSUME NEW M \in Nat \ {0}, NEW D \in Nat \ {0}, NEW y \in 0..(M * D - 1)
    PROVE  \E u \in 0..(M - 1), r \in 0..(D - 1) :
                y = u * D + r /\ y \div D = u /\ y % D = r /\ u \in Nat /\ r \in Nat
<1>1. M * D \in Nat \ {0} /\ y \in Nat /\ y < M * D
  BY ProductPositive
<1>2. y \div D \in Nat /\ y = D * (y \div D) + (y % D) /\ y % D \in 0..(D - 1)
  BY <1>1, QuotientNat, Division
<1> DEFINE u == y \div D
           r == y % D
<1> HIDE DEF u, r
<1>3. u \in Nat /\ r \in 0..(D - 1) /\ y = u * D + r /\ u * D \in Nat
  BY <1>2 DEF u, r
<1>4. u < M
  <2>1. CASE M <= u
    <3>1. M * D <= u * D
      <4>1. u = M \/ M < u
        BY <1>3, <2>1
      <4>2. M < u => M * D + D <= u * D
        BY <1>3, NextMultiple
      <4> QED BY <1>1, <1>3, <4>1, <4>2
    <3> QED BY <1>1, <1>3, <3>1
  <2> QED BY <1>3, <2>1
<1>5. u \in 0..(M - 1) /\ r \in Nat
  BY <1>3, <1>4
<1> QED BY <1>3, <1>5 DEF u, r

LEMMA CutParts ==
    ASSUME NEW M \in Nat \ {0}, NEW D \in Nat \ {0}, NEW y \in Nat, y < M * D
    PROVE  /\ y \div D \in 0..(M - 1) /\ y % D \in 0..(D - 1)
           /\ y = (y \div D) * D + (y % D) /\ y \div D \in Nat /\ y % D \in Nat
<1>1. M * D \in Nat
  BY ProductPositive
<1>2. y \in 0..(M * D - 1)
  BY <1>1
<1>3. PICK u \in 0..(M - 1), r \in 0..(D - 1) :
           y = u * D + r /\ y \div D = u /\ y % D = r /\ u \in Nat /\ r \in Nat
  BY <1>2, CutMantissa
<1> QED BY <1>3

\* Adding half a step less one, and one if that makes it even, and cutting
\* off, is rounding to nearest, ties to even.
LEMMA BiasRounds ==
    ASSUME NEW top \in Nat, NEW shift \in Nat \ {0}, NEW r \in 0..(2^shift - 1)
    PROVE  LET n == top * 2^shift + r
               biased == n + (2^(shift - 1) - 1 + (top % 2))
           IN  /\ n \in Nat /\ n \div 2^shift = top /\ n % 2^shift = r
               /\ biased \in Nat /\ biased \div 2^shift = Rounded(n, shift)
               /\ Rounded(n, shift) \in {top, top + 1} /\ (r = 0 => Rounded(n, shift) = top)
               /\ biased < (Rounded(n, shift) + 1) * 2^shift
<1> DEFINE D == 2^shift
           half == 2^(shift - 1)
           n == top * D + r
           odd == top % 2
           biased == n + (half - 1 + odd)
<1>1. shift - 1 \in Nat /\ (shift - 1) + 1 = shift /\ odd \in {0, 1}
  BY DEF odd
<1>2. half \in Nat \ {0} /\ D = 2 * half
  BY <1>1, TwiceThePower, PowerPositive
<1>3. D \in Nat \ {0}
  BY <1>2
<1>4. n \div D = top /\ n % D = r /\ r \in Nat /\ r < D /\ n \in Nat
  <2>1. r \in 0..(D - 1)
    OBVIOUS
  <2> HIDE DEF D
  <2> QED BY <1>3, <2>1, DivisionIs
<1>5. Rounded(n, shift) = IF r > half \/ (r = half /\ odd = 1) THEN top + 1 ELSE top
  BY <1>4 DEF Rounded
<1> HIDE DEF D, half, odd
<1> DEFINE t == r + (half - 1 + odd)
<1>6. t \in Nat /\ biased = top * D + t /\ top * D \in Nat
  BY <1>1, <1>2, <1>3, <1>4
<1>7. CASE r > half \/ (r = half /\ odd = 1)
  <2>1. Rounded(n, shift) = top + 1 /\ t - D \in 0..(D - 1) /\ r # 0
    BY <1>1, <1>2, <1>3, <1>4, <1>5, <1>7
  <2> HIDE DEF t
  <2>2. (top + 1) * D = top * D + D
    BY <1>3
  <2>3. biased = (top + 1) * D + (t - D) /\ top + 1 \in Nat
    BY <1>3, <1>6, <2>1, <2>2
  <2>4. biased \div D = top + 1
    BY <1>3, <2>1, <2>3, DivisionIs
  <2>5. biased < ((top + 1) + 1) * D /\ biased \in Nat
    <3>1. ((top + 1) + 1) * D = (top + 1) * D + D /\ (top + 1) * D \in Nat
      BY <1>3
    <3> QED BY <1>3, <1>6, <2>1, <2>3, <3>1
  <2> QED BY <1>4, <2>1, <2>4, <2>5 DEF D, half, odd
<1>8. CASE ~(r > half \/ (r = half /\ odd = 1))
  <2>1. Rounded(n, shift) = top /\ t \in 0..(D - 1)
    BY <1>1, <1>2, <1>3, <1>4, <1>5, <1>8
  <2> HIDE DEF t
  <2>2. biased \div D = top
    BY <1>3, <1>6, <2>1, DivisionIs
  <2>3. biased < (top + 1) * D /\ biased \in Nat
    <3>1. (top + 1) * D = top * D + D
      BY <1>3
    <3> QED BY <1>3, <1>6, <2>1, <3>1
  <2> QED BY <1>4, <2>1, <2>2, <2>3 DEF D, half, odd
<1> QED BY <1>7, <1>8

LEMMA BrainIsNearest ==
    ASSUME NEW bits \in Patterns(Wide)
    PROVE  IF IsNaN(Wide, bits) THEN IsNaN(Brain, WideToBrain(bits))
           ELSE WideToBrain(bits) \in Nearest(Brain, Value(Wide, bits), Sign(Wide, bits))
<1> DEFINE s == Sign(Wide, bits)
           x == Exponent(Wide, bits)
           y == Mantissa(Wide, bits)
           D == 2^BrainDropped
           M == 2^BrainMantissa
           E == 2^WideExponent
           N == AllOnes(Wide)
           v == Value(Wide, bits)
           result == WideToBrain(bits)
<1>1. /\ s \in {0, 1} /\ x \in 0..N /\ y \in 0..(2^WideMantissa - 1)
      /\ bits = Pack(Wide, s, x, y)
  BY Repacked, Formats
<1>2. /\ BrainMantissa \in Nat \ {0} /\ BrainDropped \in Nat \ {0} /\ WideExponent \in Nat \ {0}
      /\ WideMantissa = BrainMantissa + BrainDropped /\ WideMantissa \in Nat \ {0}
      /\ IsFormat(Wide) /\ IsFormat(Brain) /\ Wide.mantissa = WideMantissa
      /\ Wide.exponent = WideExponent /\ Brain.exponent = WideExponent
      /\ Brain.mantissa = BrainMantissa /\ Scale(Brain) = BrainDropped
  BY Formats, WidthsOK
<1>3. /\ D \in Nat \ {0} /\ M \in Nat \ {0} /\ E \in Nat \ {0} /\ 2^WideMantissa = M * D
      /\ AllOnes(Brain) = N /\ E = N + 1 /\ N \in Nat \ {0}
  <2>1. D \in Nat \ {0} /\ M \in Nat \ {0} /\ E \in Nat \ {0}
    BY <1>2, PowerPositive
  <2>2. 2^(BrainMantissa + BrainDropped) = M * D
    BY <1>2, PowerOfSum
  <2>3. 2^WideMantissa = M * D
    BY <1>2, <2>2
  <2>4. AllOnes(Brain) = N
    BY <1>2 DEF AllOnes
  <2>5. E = N + 1 /\ N = 2 * Bias(Wide) + 1 /\ Bias(Wide) \in Nat
    BY <1>2, FormatPowers
  <2>6. N \in Nat \ {0}
    BY <2>5
  <2> QED BY <2>1, <2>3, <2>4, <2>5, <2>6
<1>4. y \in 0..(M * D - 1)
  BY <1>1, <1>3
<1>5. PICK u \in 0..(M - 1), r \in 0..(D - 1) :
           y = u * D + r /\ y \div D = u /\ y % D = r /\ u \in Nat /\ r \in Nat
  <2> HIDE DEF y, M, D
  <2>1. M \in Nat \ {0} /\ D \in Nat \ {0}
    BY <1>3
  <2> QED BY <1>4, <2>1, CutMantissa
<1> DEFINE top == (s * E + x) * M + u
           p == x * M + u
<1>6. s \in Nat /\ x \in Nat /\ y \in Nat /\ s * E + x \in Nat /\ top \in Nat
  <2>1. s \in Nat /\ x \in Nat /\ y \in Nat
    BY <1>1, <1>3, <1>4
  <2> HIDE DEF s, x, y, E, M
  <2>2. s * E + x \in Nat
    BY <1>3, <2>1
  <2>3. \A a \in Nat : a * M + u \in Nat
    <3>1. M \in Nat /\ u \in Nat
      BY <1>3, <1>5
    <3> QED BY <3>1
  <2> QED BY <2>1, <2>2, <2>3
<1>7. bits = top * D + r
  <2>1. bits = (s * E + x) * (M * D) + y
    BY <1>1, <1>2, <1>3 DEF Pack
  <2> HIDE DEF s, x, y, E, M, D
  <2>2. \A a \in Nat : a * (M * D) + (u * D + r) = (a * M + u) * D + r
    BY <1>3, <1>5
  <2> QED BY <1>5, <1>6, <2>1, <2>2
<1>8. top = Pack(Brain, s, x, u) /\ top = Signed(Brain, s, p)
  <2>1. top = Pack(Brain, s, x, u)
    BY <1>2 DEF Pack
  <2>2. x \in 0..AllOnes(Brain) /\ u \in 0..(2^Brain.mantissa - 1)
    BY <1>1, <1>2, <1>3, <1>5
  <2>3. Pack(Brain, s, x, u) = Signed(Brain, s, x * 2^Brain.mantissa + u)
    <3> HIDE DEF s, x
    <3> QED BY <1>1, <1>2, <2>2, Fields
  <2> QED BY <1>2, <2>1, <2>3
<1>9. /\ bits \in Nat /\ bits \div D = top /\ bits % D = r
      /\ bits + (2^(BrainDropped - 1) - 1 + (top % 2)) \in Nat
      /\ (bits + (2^(BrainDropped - 1) - 1 + (top % 2))) \div D = Rounded(bits, BrainDropped)
      /\ Rounded(bits, BrainDropped) \in {top, top + 1}
      /\ r = 0 => Rounded(bits, BrainDropped) = top
      /\ bits + (2^(BrainDropped - 1) - 1 + (top % 2)) < (Rounded(bits, BrainDropped) + 1) * D
  <2> HIDE DEF top
  <2> DEFINE n == top * 2^BrainDropped + r
             biased == n + (2^(BrainDropped - 1) - 1 + (top % 2))
  <2>1. r \in 0..(2^BrainDropped - 1)
    BY <1>5
  <2>2. /\ n \in Nat /\ n \div 2^BrainDropped = top /\ n % 2^BrainDropped = r
        /\ biased \in Nat /\ biased \div 2^BrainDropped = Rounded(n, BrainDropped)
        /\ Rounded(n, BrainDropped) \in {top, top + 1} /\ (r = 0 => Rounded(n, BrainDropped) = top)
        /\ biased < (Rounded(n, BrainDropped) + 1) * 2^BrainDropped
    <3>1. top \in Nat /\ BrainDropped \in Nat \ {0}
      BY <1>2, <1>6
    <3> HIDE DEF n, biased
    <3> QED BY <2>1, <3>1, BiasRounds DEF n, biased
  <2>3. n = bits
    BY <1>7
  <2> HIDE DEF n
  <2> QED BY <2>2, <2>3
<1>10. result = IF IsNaN(Wide, bits)
                THEN Pack(Brain, s, AllOnes(Brain), IF u = 0 THEN 2^(BrainMantissa - 1) ELSE u)
                ELSE ((bits + (2^(BrainDropped - 1) - 1 + (top % 2)))
                        % 2^(1 + WideExponent + WideMantissa)) \div D
  <2>1. top % M = u
    <3> HIDE DEF s, x, E, M
    <3> QED BY <1>3, <1>5, <1>6, DivisionIs
  <2>2. bits \div 2^BrainDropped = top /\ top % 2^BrainMantissa = u
    BY <1>9, <2>1
  <2> HIDE DEF top
  <2> QED BY <2>2 DEF WideToBrain
<1> HIDE DEF top
<1>11. CASE IsNaN(Wide, bits)
  <2> DEFINE w == IF u = 0 THEN 2^(BrainMantissa - 1) ELSE u
  <2>1. w \in 0..(M - 1) /\ w # 0
    <3>1. BrainMantissa - 1 \in Nat /\ (BrainMantissa - 1) + 1 = BrainMantissa
      BY <1>2
    <3>2. 2^(BrainMantissa - 1) \in Nat \ {0} /\ M = 2 * 2^(BrainMantissa - 1)
      BY <3>1, PowerPositive, TwiceThePower
    <3> HIDE DEF M
    <3> QED BY <1>5, <3>2
  <2>2. result = Pack(Brain, s, AllOnes(Brain), w)
    BY <1>10, <1>11
  <2> HIDE DEF w, result, s
  <2>3. AllOnes(Brain) \in 0..AllOnes(Brain) /\ w \in 0..(2^Brain.mantissa - 1)
    BY <1>2, <1>3, <2>1
  <2>4. Exponent(Brain, result) = AllOnes(Brain) /\ Mantissa(Brain, result) = w
    BY <1>1, <1>2, <2>2, <2>3, Fields
  <2>5. IsNaN(Brain, result)
    BY <2>1, <2>4 DEF IsNaN
  <2> QED BY <1>11, <2>5 DEF result
<1>12. CASE ~IsNaN(Wide, bits)
  <2> DEFINE rounded == Rounded(bits, BrainDropped)
  <2>1. x = N => y = 0
    BY <1>12 DEF IsNaN
  <2>2. /\ Top(Brain) = N * M /\ Top(Brain) \in Nat /\ p \in 0..Top(Brain)
        /\ (p = Top(Brain) => x = N /\ u = 0 /\ r = 0)
    <3>1. Top(Brain) = N * M
      BY <1>2, <1>3 DEF Top
    <3> HIDE DEF x, y, N, M, D
    <3>2. N * M \in Nat /\ x * M \in Nat /\ x <= N
      BY <1>1, <1>3, <1>6
    <3>3. CASE x = N
      <4>1. u = 0 /\ r = 0
        <5>1. u * D + r = 0 /\ u * D \in Nat
          BY <1>3, <1>5, <2>1, <3>3
        <5>2. u # 0 => u * D # 0
          BY <1>3, <1>5, ProductPositive
        <5> QED BY <1>5, <5>1, <5>2
      <4> QED BY <3>1, <3>2, <3>3, <4>1
    <3>4. CASE x < N
      <4>1. x * M + M <= N * M
        BY <1>3, <1>6, <3>4, NextMultiple
      <4> QED BY <1>3, <1>5, <3>1, <3>2, <4>1
    <3> QED BY <1>3, <1>6, <3>2, <3>3, <3>4
  <2>3. result = rounded
    <3> DEFINE biased == bits + (2^(BrainDropped - 1) - 1 + (top % 2))
               W == 2^(1 + WideExponent + WideMantissa)
    <3>1. W = (2 * (E * M)) * D /\ W \in Nat \ {0}
      <4>1. W = 2 * (E * (M * D))
        BY <1>2, <1>3, FormatPowers
      <4> HIDE DEF W, E, M, D
      <4>2. E * (M * D) \in Nat \ {0} /\ 2 * (E * (M * D)) = (2 * (E * M)) * D
        <5>1. M * D \in Nat \ {0}
          BY <1>3, ProductPositive
        <5>2. E * (M * D) \in Nat \ {0}
          BY <1>3, <5>1, ProductPositive
        <5> QED BY <1>3, <5>2
      <4> QED BY <4>1, <4>2
    <3>2. rounded + 1 <= 2 * (E * M) /\ rounded \in Nat
      <4>1. top = s * (E * M) + p
        BY <1>2, <1>3, <1>8, FormatPowers DEF Signed
      <4>2. p < E * M /\ (p = Top(Brain) => rounded = top) /\ p + 1 <= E * M /\ p \in Nat /\ E * M \in Nat
            /\ Top(Brain) < E * M
        <5>1. p <= N * M /\ p \in Nat /\ N * M \in Nat /\ (p = Top(Brain) => rounded = top)
          BY <1>9, <2>2
        <5> HIDE DEF p, rounded, E, M, N
        <5>2. E * M = N * M + M
          BY <1>3
        <5> QED BY <1>3, <2>2, <5>1, <5>2
      <4>3. rounded \in {top, top + 1}
        BY <1>9
      <4> HIDE DEF p, rounded, E, M, s
      <4>4. s * (E * M) = 0 \/ s * (E * M) = E * M
        BY <1>1, <4>2
      <4>5. rounded <= s * (E * M) + Top(Brain)
        BY <1>6, <2>2, <4>1, <4>2, <4>3, <4>4
      <4> QED BY <1>6, <2>2, <4>2, <4>3, <4>4, <4>5
    <3>3. biased < (rounded + 1) * D /\ biased \in Nat /\ biased \div D = rounded
      BY <1>9
    <3> HIDE DEF biased, W, rounded, E, M, D
    <3>4. (rounded + 1) * D <= (2 * (E * M)) * D
      <4>1. E * M \in Nat
        BY <1>3
      <4>2. \A a, b \in Nat : a <= b => a * D <= b * D
        <5> SUFFICES ASSUME NEW a \in Nat, NEW b \in Nat, a <= b
                     PROVE  a * D <= b * D
          OBVIOUS
        <5>1. a < b => a * D + D <= b * D
          BY <1>3, NextMultiple
        <5>2. a * D \in Nat /\ b * D \in Nat
          BY <1>3
        <5> QED BY <1>3, <5>1, <5>2
      <4>3. rounded + 1 \in Nat /\ 2 * (E * M) \in Nat
        BY <3>2, <4>1
      <4> QED BY <3>2, <4>2, <4>3
    <3>5. biased < W
      <4>1. (rounded + 1) * D \in Nat
        BY <1>3, <3>2
      <4> QED BY <3>1, <3>3, <3>4, <4>1
    <3>6. biased % W = biased
      BY <3>1, <3>3, <3>5, SmallRest
    <3>7. result = (biased % W) \div D
      BY <1>10, <1>12 DEF biased, W, D
    <3> QED BY <3>3, <3>6, <3>7
  <2>4. /\ x = 0 => v = y
        /\ x # 0 => v = (M * D + y) * 2^(x - 1)
    <3> HIDE DEF s, x, y
    <3> QED BY <1>1, <1>3, ValueOfWide
  <2>5. /\ x = 0 => Value(Brain, top) = u * D
        /\ x # 0 => Value(Brain, top) = (M + u) * 2^(x - 1 + BrainDropped)
    <3>1. x \in 0..AllOnes(Brain) /\ u \in 0..(2^Brain.mantissa - 1)
      BY <1>1, <1>2, <1>3, <1>5
    <3>2. top = Pack(Brain, s, x, u)
      BY <1>8
    <3> HIDE DEF s, x
    <3>3. Value(Brain, Pack(Brain, s, x, u)) =
                IF x = 0 THEN u * 2^Scale(Brain) ELSE (2^Brain.mantissa + u) * 2^(x - 1 + Scale(Brain))
      BY <1>1, <1>2, <3>1, ValueOfPack
    <3> QED BY <1>2, <3>2, <3>3
  <2> DEFINE c == 2^(IF x = 0 THEN 0 ELSE x - 1)
  <2>6. /\ c \in Nat \ {0} /\ (x = 0 => c = 1) /\ (x # 0 => c = 2^(x - 1))
        /\ (x # 0 => 2^(x - 1 + BrainDropped) = c * D)
        /\ Gap(Brain, x) = c * D
    <3>1. (IF x = 0 THEN 0 ELSE x - 1) \in Nat
      BY <1>6
    <3>2. c \in Nat \ {0}
      BY <3>1, PowerPositive
    <3>3. Gap(Brain, x) = c * D
      BY <1>2, <3>1, PowerOfSum DEF Gap
    <3>4. CASE x = 0
      BY <3>2, <3>3, <3>4, PowerOfNothing
    <3>5. CASE x # 0
      <4>1. x - 1 \in Nat
        BY <1>6, <3>5
      <4> QED BY <1>2, <3>2, <3>3, <3>5, <4>1, PowerOfSum
    <3> QED BY <3>4, <3>5
  <2> HIDE DEF c
  <2>7. v = Value(Brain, top) + r * c /\ v \in Nat /\ Value(Brain, top) \in Nat
    <3> HIDE DEF v, x, y, D, M
    <3>1. CASE x = 0
      <4>1. u * D \in Nat /\ r * 1 = r
        BY <1>3, <1>5
      <4> QED BY <1>5, <2>4, <2>5, <2>6, <3>1, <4>1
    <3>2. CASE x # 0
      <4>1. v = (M * D + (u * D + r)) * c /\ Value(Brain, top) = (M + u) * (c * D)
        BY <1>5, <2>4, <2>5, <2>6, <3>2
      <4>2. (M * D + (u * D + r)) * c = (M + u) * (c * D) + r * c
        BY <1>3, <1>5, <2>6
      <4>3. (M + u) * (c * D) \in Nat /\ r * c \in Nat
        BY <1>3, <1>5, <2>6
      <4> QED BY <4>1, <4>2, <4>3
    <3> QED BY <3>1, <3>2
  <2>8. CASE p = Top(Brain)
    <3>1. rounded = top /\ x = N /\ r = 0
      BY <1>9, <2>2, <2>8
    <3>2. v = Value(Brain, top)
      <4> HIDE DEF v, x
      <4>1. 0 * c = 0
        BY <2>6
      <4> QED BY <2>7, <3>1, <4>1
    <3>3. top = Signed(Brain, s, Top(Brain))
      BY <1>8, <2>8
    <3>4. Value(Brain, Signed(Brain, s, Top(Brain))) <= v
      BY <2>7, <3>2, <3>3
    <3> HIDE DEF v, s, result, rounded
    <3>5. Signed(Brain, s, Top(Brain)) \in Nearest(Brain, v, s)
      BY <1>1, <1>2, <2>7, <3>4, NearestOfLarge
    <3>6. result \in Nearest(Brain, v, s)
      BY <2>3, <3>1, <3>3, <3>5
    <3> QED BY <1>12, <3>6 DEF v, s, result
  <2>9. CASE p # Top(Brain)
    <3>1. p \in 0..(Top(Brain) - 1) /\ p \in Nat
      BY <2>2, <2>9
    <3>2. Exponent(Brain, top) = x
      <4>1. x \in 0..AllOnes(Brain) /\ u \in 0..(2^Brain.mantissa - 1)
        BY <1>1, <1>2, <1>3, <1>5
      <4>2. top = Pack(Brain, s, x, u)
        BY <1>8
      <4> HIDE DEF s, x
      <4> QED BY <1>1, <1>2, <4>1, <4>2, Fields
    <3>3. top = Signed(Brain, s, p)
      BY <1>8
    <3>4. rounded \in {top, top + 1}
      BY <1>9
    <3> DEFINE h == p + (rounded - top)
    <3> HIDE DEF p, s, x, v, D, rounded, result
    <3>5. Value(Brain, Signed(Brain, s, p + 1)) = Value(Brain, top) + D * c
      <4>1. Value(Brain, Signed(Brain, s, p + 1)) = Value(Brain, top) + Gap(Brain, Exponent(Brain, top))
        BY <1>1, <1>2, <3>1, <3>3, NextValue
      <4>2. c * D = D * c
        BY <1>3, <2>6
      <4> QED BY <2>6, <3>2, <4>1, <4>2
    <3>6. p % 2 = top % 2 /\ Signed(Brain, s, p + 1) = top + 1
      BY <1>1, <1>2, <3>1, <3>3, ParityOfSigned
    <3>7. h \in Nat /\ h - p = rounded - top /\ h \in {p, p + 1} /\ Signed(Brain, s, h) = rounded
      <4>1. CASE rounded = top
        <5>1. h = p
          BY <1>6, <3>1, <4>1
        <5> QED BY <1>6, <3>1, <3>3, <4>1, <5>1
      <4>2. CASE rounded = top + 1
        <5>1. h = p + 1
          BY <1>6, <3>1, <4>2
        <5> QED BY <1>6, <3>1, <3>6, <4>2, <5>1
      <4> QED BY <3>4, <4>1, <4>2
    <3> HIDE DEF h
    <3>8. RoundedBetween(Brain, s, p, v, bits, BrainDropped, c, h)
      BY <1>9, <2>7, <3>3, <3>5, <3>6, <3>7 DEF RoundedBetween, D, rounded
    <3>9. Signed(Brain, s, h) \in Nearest(Brain, v, s)
      <4>1. /\ IsFormat(Brain) /\ s \in {0, 1} /\ v \in Nat /\ bits \in Nat
            /\ BrainDropped \in Nat \ {0} /\ c \in Nat \ {0} /\ h \in Nat
        BY <1>1, <1>2, <1>9, <2>6, <2>7, <3>7
      <4> QED BY <3>1, <3>8, <4>1, RoundsToNearest
    <3>10. result \in Nearest(Brain, v, s)
      BY <2>3, <3>7, <3>9
    <3> QED BY <1>12, <3>10 DEF v, s, result
  <2> QED BY <2>8, <2>9
<1> QED BY <1>11, <1>12

\* What the cases of f32_to_f16 have in common: the fields of an f32.
LEMMA WideFields ==
    ASSUME NEW bits \in Patterns(Wide)
    PROVE  /\ Sign(Wide, bits) \in {0, 1}
           /\ Exponent(Wide, bits) \in Nat /\ Exponent(Wide, bits) <= 2 * Bias(Wide) + 1
           /\ Mantissa(Wide, bits) \in Nat /\ Mantissa(Wide, bits) < 2^WideMantissa
           /\ 2^WideMantissa \in Nat \ {0}
           /\ Value(Wide, bits) \in Nat
           /\ Exponent(Wide, bits) = 0 => Value(Wide, bits) = Mantissa(Wide, bits)
           /\ Exponent(Wide, bits) # 0 =>
                /\ Value(Wide, bits) = (2^WideMantissa + Mantissa(Wide, bits)) * 2^(Exponent(Wide, bits) - 1)
                /\ 2^(Exponent(Wide, bits) - 1) \in Nat \ {0}
<1> DEFINE s == Sign(Wide, bits)
           x == Exponent(Wide, bits)
           y == Mantissa(Wide, bits)
           W == 2^WideMantissa
           v == Value(Wide, bits)
<1>1. /\ s \in {0, 1} /\ x \in 0..AllOnes(Wide) /\ y \in 0..(W - 1)
      /\ bits = Pack(Wide, s, x, y)
  BY Repacked, Formats
<1>2. W \in Nat \ {0} /\ AllOnes(Wide) = 2 * Bias(Wide) + 1 /\ Bias(Wide) \in Nat
  BY Formats, WidthsOK, PowerPositive, HalfPowers
<1>3. /\ x = 0 => v = y
      /\ x # 0 => v = (W + y) * 2^(x - 1)
  <2> HIDE DEF s, x, y
  <2> QED BY <1>1, ValueOfWide
<1>4. x \in Nat /\ x <= 2 * Bias(Wide) + 1 /\ y \in Nat /\ y < W
  BY <1>1, <1>2
<1>5. x # 0 => 2^(x - 1) \in Nat \ {0}
  <2>1. x # 0 => x - 1 \in Nat
    BY <1>4
  <2> QED BY <2>1, PowerPositive
<1>6. v \in Nat
  <2> HIDE DEF x, y, W, v
  <2>1. CASE x = 0
    BY <1>3, <1>4, <2>1
  <2>2. CASE x # 0
    <3>1. (W + y) * 2^(x - 1) \in Nat
      BY <1>2, <1>4, <1>5, <2>2
    <3> QED BY <1>3, <2>2, <3>1
  <2> QED BY <2>1, <2>2
<1> QED BY <1>1, <1>2, <1>3, <1>4, <1>5, <1>6

\* The fields of f16: values of a pattern's number, and the gap to the next.
LEMMA HalfValues ==
    ASSUME NEW s \in {0, 1}, NEW x \in 0..AllOnes(Half), NEW y \in 0..(2^HalfMantissa - 1),
           x * 2^HalfMantissa + y < Top(Half)
    PROVE  LET p == x * 2^HalfMantissa + y
               scale == Bias(Wide) - Bias(Half) + Dropped
           IN  /\ p \in 0..(Top(Half) - 1) /\ p \in Nat
               /\ Signed(Half, s, p) = Pack(Half, s, x, y)
               /\ Value(Half, Signed(Half, s, p)) =
                        IF x = 0 THEN y * 2^scale ELSE (2^HalfMantissa + y) * 2^(x - 1 + scale)
               /\ Value(Half, Signed(Half, s, p + 1)) =
                        Value(Half, Signed(Half, s, p)) + 2^((IF x = 0 THEN 0 ELSE x - 1) + scale)
<1> DEFINE p == x * 2^HalfMantissa + y
           scale == Bias(Wide) - Bias(Half) + Dropped
<1>1. /\ IsFormat(Half) /\ Half.mantissa = HalfMantissa /\ Scale(Half) = scale
      /\ y \in 0..(2^Half.mantissa - 1)
  BY Formats
<1>2. /\ Signed(Half, s, p) = Pack(Half, s, x, y)
      /\ Exponent(Half, Signed(Half, s, p)) = x
  BY <1>1, Fields
<1>3. p \in Nat /\ p \in 0..(Top(Half) - 1)
  <2>1. Top(Half) \in Nat /\ AllOnes(Half) \in Nat /\ 2^HalfMantissa \in Nat \ {0}
    BY <1>1, ValuesGrow, HalfPowers, Formats
  <2>2. x \in Nat /\ y \in Nat
    BY <2>1
  <2>3. x * 2^HalfMantissa + y \in Nat
    BY <2>1, <2>2
  <2>4. x * 2^HalfMantissa + y < Top(Half)
    OBVIOUS
  <2> HIDE DEF p
  <2>5. p \in Nat /\ p < Top(Half)
    BY <2>3, <2>4 DEF p
  <2> QED BY <2>1, <2>5
<1>4. Value(Half, Pack(Half, s, x, y)) =
        IF x = 0 THEN y * 2^Scale(Half) ELSE (2^Half.mantissa + y) * 2^(x - 1 + Scale(Half))
  BY <1>1, ValueOfPack
<1>5. Value(Half, Signed(Half, s, p + 1)) = Value(Half, Signed(Half, s, p)) + Gap(Half, x)
  <2> HIDE DEF p
  <2> QED BY <1>1, <1>2, <1>3, NextValue
<1>6. Gap(Half, x) = 2^((IF x = 0 THEN 0 ELSE x - 1) + scale)
  BY <1>1 DEF Gap
<1> HIDE DEF p, scale
<1>7. Value(Half, Signed(Half, s, p)) =
        IF x = 0 THEN y * 2^scale ELSE (2^HalfMantissa + y) * 2^(x - 1 + scale)
  BY <1>1, <1>2, <1>4
<1> QED BY <1>2, <1>3, <1>5, <1>6, <1>7 DEF p, scale

\* Every case goes to the sign with a number put after it.
LEMMA HalfPacked ==
    ASSUME NEW s \in {0, 1}, NEW x \in Nat, NEW y \in Nat
    PROVE  Pack(Half, s, x, y) = Signed(Half, s, x * 2^HalfMantissa + y)
<1> DEFINE E == 2^HalfExponent
           M == 2^HalfMantissa
<1>1. /\ E \in Nat \ {0} /\ M \in Nat \ {0} /\ 2^(HalfMantissa + HalfExponent) = E * M
  BY Formats, FormatPowers
<1>2. Pack(Half, s, x, y) = (s * E + x) * M + y /\ Signed(Half, s, x * M + y) = s * (E * M) + (x * M + y)
  BY <1>1, Formats DEF Pack, Signed
<1> HIDE DEF E, M
<1>3. s \in Nat
  OBVIOUS
<1>4. (s * E + x) * M = s * (E * M) + x * M /\ s * (E * M) \in Nat /\ x * M \in Nat
  BY <1>1, <1>3
<1>5. (s * E + x) * M + y = s * (E * M) + (x * M + y)
  BY <1>4
<1> QED BY <1>2, <1>5 DEF M

----------------------------------------------------------------------------
(* The four cases of f32_to_f16.                                           *)

\* Infinity, and what is past the largest.
LEMMA LargeToInfinity ==
    ASSUME NEW bits \in Patterns(Wide), Bias(Half) < Exponent(Wide, bits) - Bias(Wide)
    PROVE  Pack(Half, Sign(Wide, bits), AllOnes(Half), 0)
                \in Nearest(Half, Value(Wide, bits), Sign(Wide, bits))
<1> DEFINE s == Sign(Wide, bits)
           x == Exponent(Wide, bits)
           y == Mantissa(Wide, bits)
           W == 2^WideMantissa
           v == Value(Wide, bits)
           BW == Bias(Wide)
           BH == Bias(Half)
           M == 2^HalfMantissa
           N == AllOnes(Half)
<1>1. /\ s \in {0, 1} /\ x \in Nat /\ y \in Nat /\ W \in Nat \ {0} /\ v \in Nat
      /\ x # 0 => v = (W + y) * 2^(x - 1) /\ 2^(x - 1) \in Nat \ {0}
  BY WideFields
<1>2. /\ BW \in Nat /\ BH \in Nat /\ HalfMantissa \in Nat \ {0} /\ HalfMantissa < BW - BH
      /\ Dropped \in Nat \ {0} /\ WideMantissa = HalfMantissa + Dropped /\ WideMantissa \in Nat
      /\ IsFormat(Half) /\ Half.mantissa = HalfMantissa /\ Scale(Half) = BW - BH + Dropped
      /\ N = 2 * BH + 1 /\ M \in Nat \ {0}
  BY Formats, WidthsOK, HalfPowers
<1> DEFINE top == Signed(Half, s, Top(Half))
<1>3. top = Pack(Half, s, N, 0) /\ N \in 0..AllOnes(Half) /\ 0 \in 0..(2^Half.mantissa - 1)
  <2>1. N \in 0..AllOnes(Half) /\ 0 \in 0..(2^Half.mantissa - 1)
    BY <1>2
  <2>2. Pack(Half, s, N, 0) = Signed(Half, s, N * 2^Half.mantissa + 0)
    <3> HIDE DEF s
    <3> QED BY <1>1, <1>2, <2>1, Fields
  <2>3. N * 2^Half.mantissa + 0 = Top(Half)
    BY <1>2, HalfPowers DEF Top
  <2> QED BY <2>1, <2>2, <2>3
<1>4. Value(Half, top) = M * 2^(BH + BH + (BW - BH + Dropped))
  <2> HIDE DEF s
  <2>1. Value(Half, Pack(Half, s, N, 0)) =
          IF N = 0 THEN 0 * 2^Scale(Half) ELSE (2^Half.mantissa + 0) * 2^(N - 1 + Scale(Half))
    BY <1>1, <1>2, <1>3, ValueOfPack
  <2>2. N # 0 /\ N - 1 + Scale(Half) = BH + BH + (BW - BH + Dropped) /\ M + 0 = M
    BY <1>2
  <2> QED BY <1>2, <1>3, <2>1, <2>2
<1>5. Value(Half, top) = 2^(WideMantissa + (BH + BW))
  <2>1. /\ HalfMantissa + (BH + BH + (BW - BH + Dropped)) = WideMantissa + (BH + BW)
        /\ BH + BH + (BW - BH + Dropped) \in Nat /\ HalfMantissa \in Nat
    BY <1>2
  <2>2. 2^(HalfMantissa + (BH + BH + (BW - BH + Dropped))) = M * 2^(BH + BH + (BW - BH + Dropped))
    BY <2>1, PowerOfSum
  <2> QED BY <1>4, <2>1, <2>2
<1>6. x # 0 /\ x - 1 \in Nat /\ BH + BW <= x - 1 /\ BH + BW \in Nat
  BY <1>1, <1>2
<1>7. 2^(WideMantissa + (BH + BW)) = W * 2^(BH + BW) /\ 2^(BH + BW) <= 2^(x - 1) /\ 2^(BH + BW) \in Nat \ {0}
  BY <1>2, <1>6, PowerOfSum, PowersGrow, PowerPositive
<1> DEFINE a == 2^(BH + BW)
           b == 2^(x - 1)
<1>8. v = (W + y) * b /\ b \in Nat \ {0} /\ a \in Nat \ {0} /\ a <= b /\ Value(Half, top) = W * a
  BY <1>1, <1>5, <1>6, <1>7
<1> HIDE DEF a, b, W, v, y, top
<1>9. W * a <= (W + y) * b
  <2>1. W * b = W * a + W * (b - a) /\ W * (b - a) \in Nat /\ W * a \in Nat
    BY <1>1, <1>8
  <2>2. (W + y) * b = W * b + y * b /\ y * b \in Nat
    BY <1>1, <1>8
  <2> QED BY <2>1, <2>2
<1>10. Value(Half, top) <= v
  BY <1>8, <1>9
<1> HIDE DEF s
<1>11. Signed(Half, s, Top(Half)) \in Nearest(Half, v, s)
  BY <1>1, <1>2, <1>10, NearestOfLarge DEF top
<1> QED BY <1>3, <1>11 DEF top, v, s

\* A normal half: the exponent moves along, the mantissa is rounded, and a
\* carry out of it goes into the exponent.
LEMMA NormalToHalf ==
    ASSUME NEW s \in {0, 1}, NEW e \in Nat \ {0}, e <= 2 * Bias(Half),
           NEW y \in Nat, y < 2^WideMantissa
    PROVE  LET v == (2^WideMantissa + y) * 2^(e + (Bias(Wide) - Bias(Half)) - 1)
               rounded == Rounded(y, Dropped)
           IN  /\ Signed(Half, s, e * 2^HalfMantissa + rounded) \in Nearest(Half, v, s)
               /\ rounded \in Nat /\ rounded <= 2^HalfMantissa
<1> DEFINE D == 2^Dropped
           M == 2^HalfMantissa
           N == AllOnes(Half)
           scale == Bias(Wide) - Bias(Half) + Dropped
           k == e + (Bias(Wide) - Bias(Half)) - 1
           c == 2^k
           rounded == Rounded(y, Dropped)
           v == (2^WideMantissa + y) * c
<1>1. /\ IsFormat(Half) /\ Half.mantissa = HalfMantissa /\ Dropped \in Nat \ {0}
      /\ Bias(Wide) \in Nat /\ Bias(Half) \in Nat /\ HalfMantissa < Bias(Wide) - Bias(Half)
      /\ HalfMantissa \in Nat
  BY Formats, WidthsOK
<1>2. D \in Nat \ {0} /\ M \in Nat \ {0} /\ 2^WideMantissa = M * D /\ N = 2 * Bias(Half) + 1 /\ N \in Nat
  BY <1>1, HalfPowers
<1>3. k \in Nat /\ c \in Nat \ {0} /\ 2^(k + Dropped) = c * D /\ e - 1 + scale = k + Dropped
  <2>1. k \in Nat /\ e - 1 + scale = k + Dropped /\ Dropped \in Nat
    BY <1>1
  <2> HIDE DEF k, scale
  <2> QED BY <2>1, PowerPositive, PowerOfSum
<1> DEFINE u == y \div D
           r == y % D
<1>4. /\ u \in 0..(M - 1) /\ r \in 0..(D - 1)
      /\ y = u * D + r /\ y \div D = u /\ y % D = r /\ u \in Nat /\ r \in Nat
  <2>1. D \in Nat \ {0} /\ M \in Nat \ {0}
    BY <1>2
  <2> HIDE DEF M, D, N, scale, k, c, rounded, v
  <2>2. y < M * D
    BY <1>2
  <2> QED BY <2>1, <2>2, CutParts
<1> HIDE DEF u, r
<1>5. u < M /\ rounded \in {u, u + 1}
  <2>1. u < M
    <3> HIDE DEF M, D
    <3> QED BY <1>2, <1>4
  <2>2. \/ rounded = y \div D \/ rounded = y \div D + 1
    BY <1>1, RoundedIs
  <2> QED BY <1>4, <2>1, <2>2
<1> DEFINE p == e * M + u
<1>6. p < Top(Half) /\ e \in 0..AllOnes(Half) /\ u \in 0..(2^HalfMantissa - 1) /\ p \in Nat
  <2>1. Top(Half) = N * M
    BY <1>1 DEF Top
  <2>2. e \in 0..N
    BY <1>1, <1>2
  <2>3. e * M + u < N * M /\ e * M + u \in Nat
    <3> HIDE DEF M, N, D
    <3>1. e < N
      BY <1>1, <1>2
    <3>2. e * M + M <= N * M /\ e * M \in Nat /\ N * M \in Nat
      BY <1>2, <3>1, NextMultiple
    <3> QED BY <1>2, <1>4, <1>5, <3>2
  <2> QED BY <1>4, <2>1, <2>2, <2>3
<1> DEFINE low == Value(Half, Signed(Half, s, p))
           high == Value(Half, Signed(Half, s, p + 1))
<1>7. /\ p \in 0..(Top(Half) - 1) /\ low = (M + u) * (c * D) /\ high = low + c * D
  <2>1. /\ p \in 0..(Top(Half) - 1)
        /\ low = IF e = 0 THEN u * 2^scale ELSE (M + u) * 2^(e - 1 + scale)
        /\ high = low + 2^((IF e = 0 THEN 0 ELSE e - 1) + scale)
    BY <1>6, HalfValues
  <2>2. e # 0 /\ (e - 1) + scale = e - 1 + scale
    OBVIOUS
  <2> HIDE DEF low, high, p, scale, c
  <2>3. low = (M + u) * 2^(e - 1 + scale) /\ high = low + 2^(e - 1 + scale)
    BY <2>1, <2>2
  <2> QED BY <1>3, <2>1, <2>3
<1>8. p % 2 = u % 2
  <2>1. PICK h \in Nat \ {0} : M = 2 * h
    BY <1>1, FormatPowers
  <2> HIDE DEF M
  <2>2. p = u + (e * h) * 2 /\ e * h \in Nat
    BY <1>4, <2>1
  <2> HIDE DEF p
  <2>3. (u + (e * h) * 2) % 2 = u % 2
    BY <1>4, <2>2, RestRepeats
  <2> QED BY <2>2, <2>3
<1> HIDE DEF low, high, scale, k
<1>9. v = low + r * c /\ high = low + D * c /\ v \in Nat
  <2>1. v = (M * D + (u * D + r)) * c
    BY <1>2, <1>4
  <2> HIDE DEF v, M, D, c, p, N, rounded
  <2>2. (M * D + (u * D + r)) * c = (M + u) * (c * D) + r * c /\ c * D = D * c
        /\ (M + u) * (c * D) \in Nat /\ r * c \in Nat
    BY <1>2, <1>3, <1>4
  <2> QED BY <1>7, <2>1, <2>2
<1> DEFINE h == e * M + rounded
<1>10. h \in Nat /\ h - p = rounded - u /\ rounded \in Nat /\ rounded <= M
  <2> HIDE DEF rounded, D, v, M
  <2>1. e * M \in Nat
    BY <1>2
  <2> QED BY <1>2, <1>4, <1>5, <2>1
<1>11. RoundedBetween(Half, s, p, v, y, Dropped, c, h)
  <2> HIDE DEF p, h, v, c
  <2> QED BY <1>4, <1>8, <1>9, <1>10 DEF RoundedBetween, low, high, D, rounded
<1>12. Signed(Half, s, h) \in Nearest(Half, v, s)
  <2> HIDE DEF p, h, v, c
  <2>1. /\ IsFormat(Half) /\ p \in 0..(Top(Half) - 1) /\ v \in Nat /\ Dropped \in Nat \ {0}
        /\ c \in Nat \ {0} /\ h \in Nat
    BY <1>1, <1>3, <1>7, <1>9, <1>10
  <2> QED BY <1>11, <2>1, RoundsToNearest
<1> QED BY <1>10, <1>12 DEF k

\* Nothing is left of a number shifted out.
LEMMA ShiftedOut ==
    ASSUME NEW n \in Nat, NEW shift \in Nat \ {0}, n < 2^(shift - 1)
    PROVE  Rounded(n, shift) = 0
<1> DEFINE half == 2^(shift - 1)
           D == 2^shift
<1>1. shift - 1 \in Nat /\ (shift - 1) + 1 = shift
  OBVIOUS
<1>2. half \in Nat \ {0} /\ D = 2 * half
  BY <1>1, TwiceThePower, PowerPositive
<1>3. Rounded(n, shift) = IF n % D > half \/ (n % D = half /\ (n \div D) % 2 = 1)
                          THEN n \div D + 1 ELSE n \div D
  BY DEF Rounded
<1>4. n < half
  OBVIOUS
<1> HIDE DEF half, D
<1>5. D \in Nat \ {0} /\ n < D /\ 0 * D + n = n /\ n \in 0..(D - 1) /\ 0 \in Nat
  BY <1>2, <1>4
<1>6. n % D = n /\ n \div D = 0
  BY <1>5, DivisionIs
<1> QED BY <1>2, <1>3, <1>4, <1>6

\* A subnormal half: the significand, leading bit and all, is shifted until
\* its last place is that of the subnormals, and rounded.
LEMMA SubnormalToHalf ==
    ASSUME NEW s \in {0, 1}, NEW x \in Nat \ {0}, x <= Bias(Wide) - Bias(Half),
           NEW y \in Nat, y < 2^WideMantissa
    PROVE  LET shift == Dropped + 1 + (Bias(Wide) - Bias(Half)) - x
               n == 2^WideMantissa + y
           IN  /\ shift \in Nat \ {0}
               /\ Signed(Half, s, Rounded(n, shift)) \in Nearest(Half, n * 2^(x - 1), s)
               /\ Rounded(n, shift) \in Nat
               /\ 1 + WideMantissa < shift => Rounded(n, shift) = 0
<1> DEFINE M == 2^HalfMantissa
           scale == Bias(Wide) - Bias(Half) + Dropped
           shift == Dropped + 1 + (Bias(Wide) - Bias(Half)) - x
           n == 2^WideMantissa + y
           c == 2^(x - 1)
           v == n * c
           p == n \div 2^shift
           r == n % 2^shift
           h == Rounded(n, shift)
<1>1. /\ IsFormat(Half) /\ Half.mantissa = HalfMantissa /\ Dropped \in Nat \ {0}
      /\ Bias(Wide) \in Nat /\ Bias(Half) \in Nat /\ HalfMantissa < Bias(Wide) - Bias(Half)
      /\ HalfMantissa \in Nat /\ WideMantissa = HalfMantissa + Dropped /\ WideMantissa \in Nat
  BY Formats, WidthsOK
<1>2. M \in Nat \ {0} /\ 2^WideMantissa \in Nat \ {0} /\ AllOnes(Half) = 2 * Bias(Half) + 1
  BY <1>1, HalfPowers, PowerPositive
<1>3. /\ shift \in Nat \ {0} /\ x - 1 \in Nat /\ shift + (x - 1) = scale /\ scale \in Nat
      /\ Dropped < shift
  BY <1>1
<1>4. c \in Nat \ {0} /\ 2^scale = 2^shift * c /\ 2^shift \in Nat \ {0}
  <2> HIDE DEF shift, scale
  <2> QED BY <1>3, PowerOfSum, PowerPositive
<1>5. n \in Nat /\ n < 2^(WideMantissa + 1) /\ v \in Nat
  <2>1. 2^(WideMantissa + 1) = 2 * 2^WideMantissa
    BY <1>1, TwiceThePower
  <2>2. n \in Nat /\ n < 2^(WideMantissa + 1)
    BY <1>2, <2>1
  <2> HIDE DEF n, c
  <2>3. v \in Nat
    BY <1>4, <2>2
  <2> QED BY <2>2, <2>3
<1>6. /\ p \in Nat /\ n = 2^shift * p + r /\ r \in Nat
      /\ h = p \/ h = p + 1
  <2> HIDE DEF shift, n
  <2>1. r \in 0..(2^shift - 1)
    BY <1>3, <1>5, RoundedIs
  <2>2. r \in Nat
    BY <1>4, <2>1
  <2> QED BY <1>3, <1>5, <2>2, RoundedIs
<1>7. p < M
  <2>1. 2^(WideMantissa + 1) <= M * 2^shift
    <3>1. WideMantissa + 1 <= HalfMantissa + shift /\ WideMantissa + 1 \in Nat /\ HalfMantissa + shift \in Nat
      BY <1>1, <1>3
    <3> HIDE DEF shift
    <3>2. 2^(HalfMantissa + shift) = M * 2^shift
      BY <1>1, <1>3, PowerOfSum
    <3> QED BY <3>1, <3>2, PowersGrow
  <2> DEFINE D == 2^shift
             W == 2^(WideMantissa + 1)
  <2>2. /\ D \in Nat \ {0} /\ W <= M * D /\ n < W /\ n \in Nat /\ p \in Nat /\ n = D * p + r
        /\ W \in Nat
    <3>1. W \in Nat
      BY <1>1, PowerPositive
    <3> QED BY <1>4, <1>5, <1>6, <2>1, <3>1
  <2> HIDE DEF D, W, n, p, r, M
  <2>3. ~(M <= p)
    <3>1. SUFFICES ASSUME M <= p
                   PROVE  FALSE
      OBVIOUS
    <3>2. M * D <= p * D
      <4>1. M = p \/ M < p
        BY <1>2, <2>2, <3>1
      <4>2. M < p => M * D + D <= p * D
        BY <1>2, <2>2, NextMultiple
      <4>3. M * D \in Nat /\ p * D \in Nat
        BY <1>2, <2>2
      <4> QED BY <2>2, <4>1, <4>2, <4>3
    <3>3. p * D = D * p /\ p * D \in Nat /\ M * D \in Nat
      BY <1>2, <2>2
    <3> QED BY <1>6, <2>2, <3>2, <3>3
  <2> QED BY <1>2, <2>2, <2>3
<1>8. 0 * M + p = p /\ p < Top(Half) /\ 0 \in 0..AllOnes(Half) /\ p \in 0..(2^HalfMantissa - 1)
  <2>1. Top(Half) = AllOnes(Half) * M
    BY <1>1 DEF Top
  <2> HIDE DEF p, M
  <2>2. M <= (2 * Bias(Half) + 1) * M
    BY <1>1, <1>2
  <2>3. p \in 0..(M - 1) /\ 0 * M = 0 /\ (2 * Bias(Half) + 1) * M \in Nat
    BY <1>1, <1>2, <1>6, <1>7
  <2> QED BY <1>1, <1>2, <1>6, <1>7, <2>1, <2>2, <2>3 DEF M
<1> DEFINE low == Value(Half, Signed(Half, s, p))
           high == Value(Half, Signed(Half, s, p + 1))
<1>9. p \in 0..(Top(Half) - 1) /\ low = p * 2^scale /\ high = low + 2^scale
  <2> HIDE DEF p
  <2>1. 0 * 2^HalfMantissa + p = p /\ 0 * 2^HalfMantissa + p < Top(Half)
    BY <1>8
  <2>2. LET q == 0 * 2^HalfMantissa + p
        IN  /\ q \in 0..(Top(Half) - 1)
            /\ Value(Half, Signed(Half, s, q)) = p * 2^scale
            /\ Value(Half, Signed(Half, s, q + 1)) = Value(Half, Signed(Half, s, q)) + 2^(0 + scale)
    BY <1>8, <2>1, HalfValues
  <2>3. 0 + scale = scale
    BY <1>3
  <2> QED BY <2>1, <2>2, <2>3
<1> HIDE DEF low, high
<1>10. v = low + r * c /\ high = low + 2^shift * c
  <2>1. n = 2^shift * p + r /\ low = p * (2^shift * c) /\ high = low + 2^shift * c
    BY <1>4, <1>6, <1>9
  <2> DEFINE D == 2^shift
  <2>2. D \in Nat \ {0} /\ n = D * p + r /\ low = p * (D * c)
    BY <1>4, <2>1
  <2> HIDE DEF n, p, r, c, D
  <2>3. (D * p + r) * c = p * (D * c) + r * c
    BY <1>4, <1>6, <2>2
  <2> QED BY <2>1, <2>2, <2>3
<1>11. h \in Nat /\ h - p = h - p
  BY <1>6
<1>12. Signed(Half, s, h) \in Nearest(Half, v, s)
  <2>1. RoundedBetween(Half, s, p, v, n, shift, c, h)
    <3> HIDE DEF v, n, shift, c
    <3> QED BY <1>10 DEF RoundedBetween, low, high
  <2> HIDE DEF p, h, v, c, n, shift
  <2>2. /\ IsFormat(Half) /\ p \in 0..(Top(Half) - 1) /\ v \in Nat /\ n \in Nat
        /\ shift \in Nat \ {0} /\ c \in Nat \ {0} /\ h \in Nat
    BY <1>1, <1>3, <1>4, <1>5, <1>9, <1>11
  <2> QED BY <2>1, <2>2, RoundsToNearest
<1>13. 1 + WideMantissa < shift => h = 0
  <2> SUFFICES ASSUME 1 + WideMantissa < shift
               PROVE  h = 0
    OBVIOUS
  <2> HIDE DEF shift, n
  <2>1. WideMantissa + 1 <= shift - 1 /\ WideMantissa + 1 \in Nat /\ shift - 1 \in Nat
    BY <1>1, <1>3
  <2>2. 2^(WideMantissa + 1) <= 2^(shift - 1)
    BY <2>1, PowersGrow
  <2>3. 2^(WideMantissa + 1) \in Nat /\ 2^(shift - 1) \in Nat
    BY <2>1, PowerPositive
  <2>4. n < 2^(shift - 1)
    BY <1>5, <2>2, <2>3
  <2> QED BY <1>3, <1>5, <2>4, ShiftedOut
<1> QED BY <1>3, <1>11, <1>12, <1>13

\* The subnormals of f32 are less than half the smallest half.
LEMMA ZeroToHalf ==
    ASSUME NEW s \in {0, 1}, NEW y \in Nat, y < 2^WideMantissa
    PROVE  /\ Signed(Half, s, 0) \in Nearest(Half, y, s)
           /\ Rounded(y, Dropped + 1 + (Bias(Wide) - Bias(Half))) = 0
<1> DEFINE M == 2^HalfMantissa
           W == 2^WideMantissa
           scale == Bias(Wide) - Bias(Half) + Dropped
           shift == Dropped + 1 + (Bias(Wide) - Bias(Half))
           S == 2^scale
<1>1. /\ IsFormat(Half) /\ Half.mantissa = HalfMantissa /\ Dropped \in Nat \ {0}
      /\ Bias(Wide) \in Nat /\ Bias(Half) \in Nat /\ HalfMantissa < Bias(Wide) - Bias(Half)
      /\ HalfMantissa \in Nat \ {0} /\ WideMantissa = HalfMantissa + Dropped /\ WideMantissa \in Nat
  BY Formats, WidthsOK
<1>2. /\ M \in Nat \ {0} /\ W \in Nat \ {0} /\ AllOnes(Half) = 2 * Bias(Half) + 1
      /\ scale \in Nat /\ WideMantissa + 1 <= scale /\ WideMantissa + 1 \in Nat
      /\ shift \in Nat \ {0} /\ shift - 1 = scale
  BY <1>1, HalfPowers, PowerPositive
<1>3. S \in Nat \ {0} /\ 2 * W <= S
  <2> HIDE DEF scale
  <2>1. 2^(WideMantissa + 1) <= S
    BY <1>2, PowersGrow
  <2> QED BY <1>1, <1>2, <2>1, TwiceThePower, PowerPositive
<1>4. Rounded(y, shift) = 0
  <2>1. y < 2^(shift - 1)
    <3>1. y < S
      <4> HIDE DEF S, W
      <4>1. y < W
        BY DEF W
      <4> QED BY <1>2, <1>3, <4>1
    <3> HIDE DEF shift, scale
    <3> QED BY <1>2, <3>1
  <2> HIDE DEF shift
  <2> QED BY <1>2, <2>1, ShiftedOut
<1>5. 0 * M + 0 = 0 /\ 0 < Top(Half) /\ 0 \in 0..AllOnes(Half) /\ 0 \in 0..(M - 1)
  <2>1. Top(Half) = AllOnes(Half) * M
    BY <1>1 DEF Top
  <2> HIDE DEF M
  <2>2. (2 * Bias(Half) + 1) * M \in Nat \ {0} /\ 0 * M + 0 = 0
    <3>1. 2 * Bias(Half) + 1 \in Nat \ {0}
      BY <1>1
    <3>2. (2 * Bias(Half) + 1) * M \in Nat \ {0}
      BY <1>2, <3>1, ProductPositive
    <3> QED BY <1>2, <3>2
  <2> QED BY <1>1, <1>2, <2>1, <2>2
<1> DEFINE low == Value(Half, Signed(Half, s, 0))
           high == Value(Half, Signed(Half, s, 0 + 1))
<1>6. 0 \in 0..(Top(Half) - 1) /\ low = 0 /\ high = S
  <2>1. LET q == 0 * M + 0
        IN  /\ q \in 0..(Top(Half) - 1)
            /\ Value(Half, Signed(Half, s, q)) = 0 * S
            /\ Value(Half, Signed(Half, s, q + 1)) = Value(Half, Signed(Half, s, q)) + 2^(0 + scale)
    BY <1>5, HalfValues
  <2>2. 0 + scale = scale /\ 0 * S = 0 /\ 0 + S = S
    <3>1. 0 + scale = scale
      BY <1>2
    <3> HIDE DEF S
    <3> QED BY <1>3, <3>1
  <2> QED BY <1>5, <2>1, <2>2
<1> HIDE DEF low, high
<1>7. low <= y /\ y <= high /\ y - low < high - y
  <2>1. y < W
    BY DEF W
  <2> HIDE DEF W, S
  <2> QED BY <1>2, <1>3, <1>6, <2>1
<1>8. Signed(Half, s, 0) \in Nearest(Half, y, s)
  <2>1. 0 # 0 + 1 /\ 0 \in {0, 0 + 1}
    OBVIOUS
  <2> QED BY <1>1, <1>6, <1>7, <2>1, NearestOfTwo DEF low, high
<1> QED BY <1>4, <1>8

\* A NaN stays one, whatever of its mantissa is cut off.
LEMMA NaNToHalf ==
    ASSUME NEW s \in {0, 1}, NEW y \in Nat \ {0}, y < 2^WideMantissa
    PROVE  LET payload == y \div 2^Dropped
           IN  IsNaN(Half, Pack(Half, s, AllOnes(Half), 0) + (IF payload = 0 THEN 1 ELSE payload))
<1> DEFINE D == 2^Dropped
           M == 2^HalfMantissa
           N == AllOnes(Half)
           cut == y \div D
           payload == IF cut = 0 THEN 1 ELSE cut
<1>1. IsFormat(Half) /\ Half.mantissa = HalfMantissa
  BY Formats
<1>2. D \in Nat \ {0} /\ M \in Nat \ {0} /\ 2^WideMantissa = M * D /\ N = 2 * Bias(Half) + 1 /\ N \in Nat
  BY Formats, HalfPowers
<1>3. PICK h \in Nat \ {0} : M = 2 * h
  BY <1>1, FormatPowers
<1>4. payload \in 1..(M - 1)
  <2>1. y \in 0..(M * D - 1)
    <3>1. M * D \in Nat
      BY <1>2, ProductPositive
    <3> QED BY <1>2, <3>1
  <2> HIDE DEF M, D
  <2>2. cut \in 0..(M - 1) /\ cut \in Nat
    BY <1>2, <2>1, CutMantissa
  <2> HIDE DEF cut
  <2> QED BY <1>2, <1>3, <2>2
<1>5. Pack(Half, s, N, 0) + payload = Pack(Half, s, N, payload)
  <2>1. /\ Pack(Half, s, N, 0) = (s * 2^Half.exponent + N) * M + 0
        /\ Pack(Half, s, N, payload) = (s * 2^Half.exponent + N) * M + payload
    BY <1>1 DEF Pack
  <2>2. 2^Half.exponent \in Nat /\ s \in Nat /\ payload \in Nat
    BY <1>1, <1>2, <1>4, FormatPowers
  <2> DEFINE a == (s * 2^Half.exponent + N) * M
  <2>3. a \in Nat
    <3> HIDE DEF M, N, payload
    <3> QED BY <1>2, <2>2
  <2> HIDE DEF a, payload
  <2> QED BY <2>1, <2>2, <2>3 DEF a
<1>6. LET bits == Pack(Half, s, N, payload)
      IN  Exponent(Half, bits) = N /\ Mantissa(Half, bits) = payload
  <2>1. N \in 0..AllOnes(Half) /\ payload \in 0..(2^Half.mantissa - 1)
    BY <1>1, <1>2, <1>4
  <2> HIDE DEF payload
  <2> QED BY <1>1, <2>1, Fields
<1>7. payload # 0
  BY <1>2, <1>4
<1> HIDE DEF payload
<1>8. IsNaN(Half, Pack(Half, s, N, 0) + payload)
  BY <1>5, <1>6, <1>7 DEF IsNaN
<1> QED BY <1>8 DEF payload

LEMMA HalfIsNearest ==
    ASSUME NEW bits \in Patterns(Wide)
    PROVE  IF IsNaN(Wide, bits) THEN IsNaN(Half, WideToHalf(bits))
           ELSE WideToHalf(bits) \in Nearest(Half, Value(Wide, bits), Sign(Wide, bits))
<1> DEFINE s == Sign(Wide, bits)
           x == Exponent(Wide, bits)
           y == Mantissa(Wide, bits)
           W == 2^WideMantissa
           M == 2^HalfMantissa
           v == Value(Wide, bits)
           BW == Bias(Wide)
           BH == Bias(Half)
           N == AllOnes(Half)
           result == WideToHalf(bits)
           unbiased == x - BW
           infinity == Pack(Half, s, N, 0)
           payload == y \div 2^Dropped
           significand == IF x = 0 THEN y ELSE y + W
           shift == Dropped + 1 - BH - unbiased
           rounded == Rounded(y, Dropped)
           exponent16 == unbiased + BH
<1>1. /\ s \in {0, 1} /\ x \in Nat /\ x <= 2 * BW + 1 /\ y \in Nat /\ y < W /\ W \in Nat \ {0} /\ v \in Nat
      /\ x = 0 => v = y
      /\ x # 0 => v = (W + y) * 2^(x - 1)
  BY WideFields
<1>2. /\ BW \in Nat /\ BH \in Nat /\ HalfMantissa < BW - BH /\ HalfMantissa \in Nat \ {0}
      /\ Dropped \in Nat \ {0} /\ WideMantissa = HalfMantissa + Dropped
      /\ N = 2 * BH + 1 /\ AllOnes(Wide) = 2 * BW + 1 /\ M \in Nat \ {0} /\ WideExponent \in Nat \ {0}
  BY Formats, WidthsOK, HalfPowers
<1>3. IsNaN(Wide, bits) <=> x = AllOnes(Wide) /\ y # 0
  BY DEF IsNaN
<1>4. result = IF x = AllOnes(Wide)
               THEN IF y = 0 THEN infinity ELSE infinity + (IF payload = 0 THEN 1 ELSE payload)
               ELSE IF unbiased > BH THEN infinity
               ELSE IF unbiased < 1 - BH
               THEN IF significand = 0 \/ shift >= 1 + WideExponent + WideMantissa
                    THEN Pack(Half, s, 0, 0)
                    ELSE Pack(Half, s, 0, Rounded(significand, shift))
               ELSE IF rounded = M
               THEN IF exponent16 + 1 >= N THEN infinity ELSE Pack(Half, s, exponent16 + 1, 0)
               ELSE Pack(Half, s, exponent16, rounded)
  BY DEF WideToHalf
<1>5. BH < unbiased => infinity \in Nearest(Half, v, s)
  BY LargeToInfinity
<1> HIDE DEF s, x, y, v, result, M, N, BW, BH
<1> SUFFICES IF x = AllOnes(Wide) /\ y # 0 THEN IsNaN(Half, result) ELSE result \in Nearest(Half, v, s)
  BY <1>3 DEF s, v, result
<1>6. \A m \in Nat : Pack(Half, s, 0, m) = Signed(Half, s, m)
  <2> SUFFICES ASSUME NEW m \in Nat
               PROVE  Pack(Half, s, 0, m) = Signed(Half, s, m)
    OBVIOUS
  <2>1. Pack(Half, s, 0, m) = Signed(Half, s, 0 * 2^HalfMantissa + m)
    BY <1>1, HalfPacked
  <2>2. 0 * M + m = m
    BY <1>2
  <2> QED BY <2>1, <2>2 DEF M
<1>7. CASE x = AllOnes(Wide) /\ y # 0
  <2>1. result = infinity + (IF payload = 0 THEN 1 ELSE payload)
    BY <1>4, <1>7
  <2>2. IsNaN(Half, infinity + (IF payload = 0 THEN 1 ELSE payload))
    BY <1>1, <1>7, NaNToHalf DEF N
  <2> HIDE DEF infinity, payload
  <2> QED BY <1>7, <2>1, <2>2
<1>8. CASE (x = AllOnes(Wide) /\ y = 0) \/ (x # AllOnes(Wide) /\ BH < unbiased)
  <2>1. BH < unbiased
    BY <1>2, <1>8
  <2>2. result = infinity
    <3>1. unbiased > BH
      BY <2>1
    <3> HIDE DEF infinity, unbiased, shift, significand, exponent16, rounded, payload
    <3> QED BY <1>4, <1>8, <3>1
  <2> QED BY <1>5, <1>8, <2>1, <2>2
<1>9. CASE x # AllOnes(Wide) /\ ~(BH < unbiased) /\ unbiased < 1 - BH
  <2>1. /\ unbiased < 1 - BH /\ ~(unbiased > BH)
        /\ shift = Dropped + 1 + (BW - BH) - x /\ x <= BW - BH
    BY <1>1, <1>2, <1>9
  <2>2. result = IF significand = 0 \/ shift >= 1 + WideExponent + WideMantissa
                 THEN Pack(Half, s, 0, 0)
                 ELSE Pack(Half, s, 0, Rounded(significand, shift))
    <3> HIDE DEF infinity, unbiased, shift, significand, exponent16, rounded, payload
    <3> QED BY <1>4, <1>9, <2>1
  <2>3. CASE x = 0
    <3>1. significand = y /\ shift = Dropped + 1 + (BW - BH)
      BY <1>1, <1>2, <2>1, <2>3
    <3>2. Signed(Half, s, 0) \in Nearest(Half, y, s) /\ Rounded(y, Dropped + 1 + (BW - BH)) = 0
      BY <1>1, ZeroToHalf DEF BW, BH
    <3>3. Pack(Half, s, 0, 0) = Signed(Half, s, 0)
      <4>1. 0 \in Nat
        OBVIOUS
      <4> QED BY <1>6, <4>1
    <3> HIDE DEF significand, shift
    <3>4. result = Signed(Half, s, 0)
      BY <2>2, <3>1, <3>2, <3>3
    <3> QED BY <1>1, <1>9, <2>3, <3>2, <3>4
  <2>4. CASE x # 0
    <3>1. significand = W + y /\ x \in Nat \ {0} /\ significand # 0
      BY <1>1, <2>4
    <3>2. /\ Signed(Half, s, Rounded(W + y, shift)) \in Nearest(Half, (W + y) * 2^(x - 1), s)
          /\ Rounded(W + y, shift) \in Nat
          /\ 1 + WideMantissa < shift => Rounded(W + y, shift) = 0
      BY <1>1, <2>1, <3>1, SubnormalToHalf DEF BW, BH
    <3>3. shift >= 1 + WideExponent + WideMantissa => 1 + WideMantissa < shift
      <4>1. shift \in Int /\ WideMantissa \in Nat
        BY <1>1, <1>2
      <4> HIDE DEF shift
      <4> QED BY <1>2, <4>1
    <3> HIDE DEF significand, shift, W
    <3>4. result = Signed(Half, s, Rounded(W + y, shift))
      <4>1. 0 \in Nat
        OBVIOUS
      <4> QED BY <1>6, <2>2, <3>1, <3>2, <3>3, <4>1
    <3> QED BY <1>1, <1>9, <2>4, <3>2, <3>4 DEF W
  <2> QED BY <2>3, <2>4
<1>10. CASE x # AllOnes(Wide) /\ ~(BH < unbiased) /\ ~(unbiased < 1 - BH)
  <2>1. /\ exponent16 \in Nat \ {0} /\ exponent16 <= 2 * BH /\ ~(unbiased > BH)
        /\ x - 1 = exponent16 + (BW - BH) - 1 /\ x # 0
    BY <1>1, <1>2, <1>10
  <2>2. result = IF rounded = M
                 THEN IF exponent16 + 1 >= N THEN infinity ELSE Pack(Half, s, exponent16 + 1, 0)
                 ELSE Pack(Half, s, exponent16, rounded)
    <3> HIDE DEF infinity, unbiased, shift, significand, exponent16, rounded, payload
    <3> QED BY <1>4, <1>10, <2>1
  <2> HIDE DEF exponent16
  <2>3. /\ Signed(Half, s, exponent16 * M + rounded)
                \in Nearest(Half, (W + y) * 2^(exponent16 + (BW - BH) - 1), s)
        /\ rounded \in Nat /\ rounded <= M
    BY <1>1, <2>1, NormalToHalf DEF M, BW, BH
  <2>4. v = (W + y) * 2^(exponent16 + (BW - BH) - 1)
    BY <1>1, <2>1
  <2> HIDE DEF rounded
  <2>5. result = Signed(Half, s, exponent16 * M + rounded)
    <3>1. CASE rounded = M
      <4>1. exponent16 * M + M = (exponent16 + 1) * M + 0 /\ exponent16 + 1 \in Nat /\ 0 \in Nat
        BY <1>2, <2>1
      <4>2. Pack(Half, s, exponent16 + 1, 0) = Signed(Half, s, (exponent16 + 1) * M + 0)
        BY <1>1, <4>1, HalfPacked DEF M
      <4>3. exponent16 + 1 >= N => exponent16 + 1 = N
        BY <1>2, <2>1
      <4> QED BY <2>2, <3>1, <4>1, <4>2, <4>3
    <3>2. CASE rounded # M
      <4>1. Pack(Half, s, exponent16, rounded) = Signed(Half, s, exponent16 * M + rounded)
        BY <1>1, <2>1, <2>3, HalfPacked DEF M
      <4> QED BY <2>2, <3>2, <4>1
    <3> QED BY <3>1, <3>2
  <2> QED BY <1>10, <2>3, <2>4, <2>5
<1> QED BY <1>7, <1>8, <1>9, <1>10

=============================================================================
