----------------------------- MODULE SumLemmas -----------------------------
(***************************************************************************)
(* The laws of SumOver that the invariance proofs use.                     *)
(***************************************************************************)
EXTENDS Sums, FiniteSetTheorems, TLAPS

\* The tokens of one row are finite and as many as the row's value.
LEMMA TokensCard ==
  ASSUME NEW f, NEW x, f[x] \in Nat
  PROVE  /\ IsFiniteSet(Tokens(f, x))
         /\ Cardinality(Tokens(f, x)) = f[x]
<1> DEFINE I == 1 .. f[x]
<1>1. /\ IsFiniteSet({x})
      /\ Cardinality({x}) = 1
  BY Zenon, FS_Singleton
<1>2. /\ IsFiniteSet(I)
      /\ Cardinality(I) = f[x]
  <2>1. \A b \in Int : /\ IsFiniteSet(1 .. b)
                       /\ Cardinality(1 .. b) = IF 1 > b THEN 0 ELSE b - 1 + 1
    BY FS_Interval
  <2> QED
    BY <2>1
<1>3. /\ IsFiniteSet({x} \X I)
      /\ Cardinality({x} \X I) = Cardinality({x}) * Cardinality(I)
  <2> HIDE DEF I
  <2> QED
    BY <1>1, <1>2, FS_Product, Zenon
<1>4. Cardinality({x} \X I) = f[x]
  <2> HIDE DEF I
  <2> QED
    BY <1>1, <1>2, <1>3
<1> QED
  BY <1>3, <1>4 DEF Tokens

\* The tokens of finitely many rows are finite, so a sum is a natural number.
LEMMA SumNat ==
  ASSUME NEW f, NEW S, IsFiniteSet(S), \A x \in S : f[x] \in Nat
  PROVE  /\ IsFiniteSet(UNION {Tokens(f, x) : x \in S})
         /\ SumOver(f, S) \in Nat
<1> DEFINE TS == {Tokens(f, x) : x \in S}
           g  == [x \in S |-> Tokens(f, x)]
<1>1. g \in Surjection(S, TS)
  BY DEF Surjection
<1>2. IsFiniteSet(TS)
  <2> HIDE DEF g, TS
  <2> QED
    BY <1>1, FS_Surjection
<1>3. \A t \in TS : IsFiniteSet(t)
  BY TokensCard
<1>4. IsFiniteSet(UNION TS)
  <2> HIDE DEF TS
  <2> QED
    BY <1>2, <1>3, FS_UNION
<1> QED
  BY <1>4, FS_CardinalityType DEF SumOver

\* The empty sum.
LEMMA SumEmpty ==
  ASSUME NEW f
  PROVE  SumOver(f, {}) = 0
<1>1. UNION {Tokens(f, x) : x \in {}} = {}
  OBVIOUS
<1> QED
  BY <1>1, FS_EmptySet DEF SumOver

\* A sum depends only on the summed values.
LEMMA SumSame ==
  ASSUME NEW f, NEW g, NEW S, \A x \in S : f[x] = g[x]
  PROVE  SumOver(f, S) = SumOver(g, S)
<1>1. \A x \in S : Tokens(f, x) = Tokens(g, x)
  BY DEF Tokens
<1>2. {Tokens(f, x) : x \in S} = {Tokens(g, x) : x \in S}
  BY <1>1
<1> QED
  BY <1>2 DEF SumOver

\* A sum of zeros.
LEMMA SumZero ==
  ASSUME NEW f, NEW S, \A x \in S : f[x] = 0
  PROVE  SumOver(f, S) = 0
<1>1. \A x \in S : Tokens(f, x) = {}
  <2>1. 1 .. 0 = {}
    OBVIOUS
  <2> QED
    BY <2>1 DEF Tokens
<1>2. UNION {Tokens(f, x) : x \in S} = {}
  BY <1>1
<1> QED
  BY <1>2, FS_EmptySet DEF SumOver

\* One row taken out of a sum.
LEMMA SumSplit ==
  ASSUME NEW f, NEW S, IsFiniteSet(S), \A x \in S : f[x] \in Nat, NEW y \in S
  PROVE  SumOver(f, S) = f[y] + SumOver(f, S \ {y})
<1> DEFINE A == UNION {Tokens(f, x) : x \in S \ {y}}
           B == Tokens(f, y)
<1>1. IsFiniteSet(S \ {y})
  BY FS_RemoveElement
<1>2. IsFiniteSet(A) /\ Cardinality(A) \in Nat /\ Cardinality(A) = SumOver(f, S \ {y})
  BY <1>1, SumNat DEF SumOver
<1>3. IsFiniteSet(B) /\ Cardinality(B) = f[y]
  BY TokensCard
<1>4. A \cap B = {}
  BY DEF Tokens
<1>5. UNION {Tokens(f, x) : x \in S} = A \cup B
  OBVIOUS
<1>6. Cardinality(A \cup B) = Cardinality(A) + Cardinality(B) - Cardinality(A \cap B)
  <2> HIDE DEF A, B
  <2> QED
    BY <1>2, <1>3, FS_Union
<1>7. Cardinality(A \cap B) = 0
  BY <1>4, FS_EmptySet
<1>8. SumOver(f, S) = Cardinality(A \cup B)
  BY Zenon, <1>5 DEF SumOver
<1> HIDE DEF A, B
<1> QED
  BY <1>2, <1>3, <1>6, <1>7, <1>8

\* Changing one row changes the sum by the difference.
LEMMA SumChange ==
  ASSUME NEW f, NEW g, NEW S, IsFiniteSet(S),
         \A x \in S : f[x] \in Nat /\ g[x] \in Nat,
         NEW y \in S, \A x \in S \ {y} : f[x] = g[x]
  PROVE  SumOver(g, S) = SumOver(f, S) - f[y] + g[y]
<1>1. SumOver(f, S \ {y}) = SumOver(g, S \ {y})
  BY SumSame
<1>2. SumOver(f, S) = f[y] + SumOver(f, S \ {y})
  <2>1. \A x \in S : f[x] \in Nat
    OBVIOUS
  <2> QED
    BY <2>1, SumSplit
<1>3. SumOver(g, S) = g[y] + SumOver(g, S \ {y})
  <2>1. \A x \in S : g[x] \in Nat
    OBVIOUS
  <2> QED
    BY <2>1, SumSplit
<1>4. SumOver(f, S \ {y}) \in Nat
  BY Zenon, FS_RemoveElement, SumNat
<1> QED
  BY <1>1, <1>2, <1>3, <1>4

\* T has row y besides the rows S, on which f and g agree.
AddsRow(f, g, S, T, y) ==
  /\ y \notin S /\ T = S \cup {y} /\ IsFiniteSet(S)
  /\ \A x \in S : f[x] \in Nat
  /\ \A x \in S : f[x] = g[x]
  /\ g[y] \in Nat

\* A row that is added adds its value.
LEMMA SumInsert ==
  ASSUME NEW f, NEW g, NEW S, NEW T, NEW y, AddsRow(f, g, S, T, y)
  PROVE  IsFiniteSet(T) /\ SumOver(g, T) = SumOver(f, S) + g[y]
<1>0. /\ y \notin S /\ T = S \cup {y} /\ IsFiniteSet(S)
      /\ \A x \in S : f[x] \in Nat
      /\ \A x \in S : f[x] = g[x]
      /\ g[y] \in Nat
  BY Zenon DEF AddsRow
<1> USE <1>0
<1>1. IsFiniteSet(T) /\ y \in T /\ T \ {y} = S
  BY FS_AddElement
<1>2. \A x \in T : g[x] \in Nat
  OBVIOUS
<1>3. SumOver(g, T) = g[y] + SumOver(g, T \ {y})
  BY <1>1, <1>2, SumSplit
<1>4. SumOver(f, S) = SumOver(g, S)
  BY Zenon, SumSame
<1>5. SumOver(f, S) \in Nat
  BY Zenon, SumNat
<1>6. SumOver(g, T) = g[y] + SumOver(f, S)
  BY Zenon, <1>1, <1>3, <1>4
<1> QED
  BY <1>1, <1>5, <1>6

\* Row y of the rows S is up by q.
RaisesRow(f, g, S, y, q) ==
  /\ y \in S /\ q \in Nat /\ IsFiniteSet(S)
  /\ \A x \in S : f[x] \in Nat
  /\ \A x \in S \ {y} : f[x] = g[x]
  /\ g[y] = f[y] + q

\* It raises the sum by q.
LEMMA SumRaise ==
  ASSUME NEW f, NEW g, NEW S, NEW y, NEW q, RaisesRow(f, g, S, y, q)
  PROVE  SumOver(g, S) = SumOver(f, S) + q
<1>0. /\ y \in S /\ q \in Nat /\ IsFiniteSet(S)
      /\ \A x \in S : f[x] \in Nat
      /\ \A x \in S \ {y} : f[x] = g[x]
      /\ g[y] = f[y] + q
  BY Zenon DEF RaisesRow
<1> USE <1>0
<1>1. SumOver(f, S) \in Nat /\ f[y] \in Nat
  BY SumNat
<1>2. \A x \in S : f[x] \in Nat /\ g[x] \in Nat
  OBVIOUS
<1>3. SumOver(g, S) = SumOver(f, S) - f[y] + g[y]
  BY <1>2, SumChange
<1> QED
  BY <1>1, <1>3

\* A sum is at least each of its terms.
LEMMA SumTerm ==
  ASSUME NEW f, NEW S, IsFiniteSet(S), \A x \in S : f[x] \in Nat, NEW y \in S
  PROVE  f[y] <= SumOver(f, S)
<1>1. SumOver(f, S) = f[y] + SumOver(f, S \ {y})
  BY SumSplit
<1>2. SumOver(f, S \ {y}) \in Nat
  BY Zenon, FS_RemoveElement, SumNat
<1> QED
  BY <1>1, <1>2

\* Sums are monotonic.
LEMMA SumMono ==
  ASSUME NEW f, NEW g, NEW S, IsFiniteSet(S),
         \A x \in S : f[x] \in Nat /\ g[x] \in Nat /\ f[x] <= g[x]
  PROVE  SumOver(f, S) <= SumOver(g, S)
<1> DEFINE A == UNION {Tokens(f, x) : x \in S}
           B == UNION {Tokens(g, x) : x \in S}
<1>1. \A x \in S : Tokens(f, x) \subseteq Tokens(g, x)
  <2> SUFFICES ASSUME NEW x \in S
               PROVE  1 .. f[x] \subseteq 1 .. g[x]
    BY DEF Tokens
  <2> QED
    OBVIOUS
<1>2. A \in SUBSET B
  BY <1>1
<1>3. IsFiniteSet(B)
  BY Zenon, SumNat
<1> QED
  <2> HIDE DEF A, B
  <2>1. Cardinality(A) <= Cardinality(B)
    BY <1>2, <1>3, FS_Subset
  <2> QED
    BY <2>1 DEF SumOver, A, B

-----------------------------------------------------------------------------
(* Rounding *)

\* A rounded natural number is a natural number.
LEMMA RoundNat ==
  ASSUME NEW n \in Nat, NEW unit \in Nat \ {0}
  PROVE  RoundTo(n, unit) \in Nat
BY DEF RoundTo

\* Rounding is monotonic.
LEMMA RoundMono ==
  ASSUME NEW m \in Nat, NEW n \in Nat, NEW unit \in Nat \ {0}, m <= n
  PROVE  RoundTo(m, unit) <= RoundTo(n, unit)
<1> DEFINE h == unit \div 2
           x == (m + h) \div unit
           y == (n + h) \div unit
<1>1. x \in Nat /\ y \in Nat /\ x <= y
  OBVIOUS
<1>2. unit * x <= unit * y
  <2> HIDE DEF x, y
  <2> QED
    BY <1>1
<1> QED
  BY <1>2 DEF RoundTo

\* A number near a multiple of the unit is rounded to it.
LEMMA RoundNear ==
  ASSUME NEW n \in Nat, NEW k \in Nat, NEW unit \in Nat \ {0},
         10 * (unit * k - n) <= unit, 10 * (n - unit * k) <= unit
  PROVE  RoundTo(n, unit) = unit * k
<1> DEFINE h == unit \div 2
           q == (n + h) \div unit
<1>1. h \in Nat /\ 2 * h <= unit /\ unit <= 2 * h + 1
  OBVIOUS
<1>2. q \in Nat /\ unit * q <= n + h /\ n + h < unit * q + unit
  OBVIOUS
<1> DEFINE a == unit * k
           b == unit * q
<1>3. a \in Nat /\ b \in Nat
  BY <1>2
<1>4. ~ (k <= q - 1)
  <2> SUFFICES ASSUME k <= q - 1
               PROVE  FALSE
    OBVIOUS
  <2>1. a <= b - unit
    BY <1>2
  <2> HIDE DEF a, b, h, q
  <2>2. 10 * (n - a) <= unit
    BY DEF a
  <2> QED
    BY <1>1, <1>2, <1>3, <2>1, <2>2 DEF b
<1>5. ~ (q <= k - 1)
  <2> SUFFICES ASSUME q <= k - 1
               PROVE  FALSE
    OBVIOUS
  <2>1. b <= a - unit
    BY <1>2
  <2>2. 10 * (a - n) <= unit
    OBVIOUS
  <2> HIDE DEF a, b, h, q
  <2> QED
    BY <1>1, <1>2, <1>3, <2>1, <2>2 DEF b
<1>6. q = k
  BY <1>2, <1>4, <1>5
<1> QED
  BY <1>6 DEF RoundTo

\* A multiple of the unit is stored exactly.
LEMMA RoundExact ==
  ASSUME NEW k \in Nat, NEW unit \in Nat \ {0}
  PROVE  RoundTo(unit * k, unit) = unit * k
<1>1. unit * k \in Nat
  OBVIOUS
<1>2. 10 * (unit * k - unit * k) <= unit
  BY <1>1
<1> QED
  BY <1>1, <1>2, RoundNear

\* Rounding moves a number by at most half a unit.
LEMMA RoundClose ==
  ASSUME NEW n \in Nat, NEW unit \in Nat \ {0}
  PROVE  2 * (RoundTo(n, unit) - n) <= unit /\ 2 * (n - RoundTo(n, unit)) <= unit
<1> DEFINE h == unit \div 2
           q == (n + h) \div unit
           b == unit * q
<1>1. h \in Nat /\ 2 * h <= unit /\ unit <= 2 * h + 1
  OBVIOUS
<1>2. q \in Nat /\ b <= n + h /\ n + h < b + unit
  OBVIOUS
<1>3. b \in Nat
  BY <1>2
<1>4. RoundTo(n, unit) = b
  BY DEF RoundTo
<1> HIDE DEF h, q, b
<1> QED
  BY <1>1, <1>2, <1>3, <1>4

\* What is stored is a multiple of the unit.
LEMMA RoundMultiple ==
  ASSUME NEW n \in Nat, NEW unit \in Nat \ {0}
  PROVE  \E k \in Nat : RoundTo(n, unit) = unit * k
<1>1. (n + unit \div 2) \div unit \in Nat
  OBVIOUS
<1> QED
  BY <1>1 DEF RoundTo

\* A multiple of the unit goes through the rounding of a sum unchanged.
LEMMA RoundShift ==
  ASSUME NEW k \in Nat, NEW n \in Nat, NEW unit \in Nat \ {0}
  PROVE  RoundTo(unit * k + n, unit) = unit * k + RoundTo(n, unit)
<1> DEFINE h == unit \div 2
           a == unit * k
           x == (n + h) \div unit
           y == (a + n + h) \div unit
           b == unit * x
           d == unit * y
<1>1. h \in Nat /\ a \in Nat
  OBVIOUS
<1>2. x \in Nat /\ b \in Nat /\ b <= n + h /\ n + h < b + unit
  <2> HIDE DEF h, a
  <2> QED
    BY <1>1
<1>3. y \in Nat /\ d \in Nat /\ d <= a + n + h /\ a + n + h < d + unit
  <2> HIDE DEF h, a
  <2> QED
    BY <1>1
<1>4. RoundTo(n, unit) = b /\ RoundTo(a + n, unit) = d
  BY DEF RoundTo
<1> DEFINE e == unit * (k + x)
<1> HIDE DEF h, x, y
<1>5. e = a + b
  BY <1>2
<1>6. ~ (y <= k + x - 1)
  <2> SUFFICES ASSUME y <= k + x - 1
               PROVE  FALSE
    OBVIOUS
  <2>1. d <= e - unit
    BY <1>2, <1>3
  <2> HIDE DEF a, b, d, e
  <2> QED
    BY <1>1, <1>2, <1>3, <1>5, <2>1
<1>7. ~ (k + x <= y - 1)
  <2> SUFFICES ASSUME k + x <= y - 1
               PROVE  FALSE
    OBVIOUS
  <2>1. e <= d - unit
    BY <1>2, <1>3
  <2> HIDE DEF a, b, d, e
  <2> QED
    BY <1>1, <1>2, <1>3, <1>5, <2>1
<1>8. y = k + x
  BY <1>2, <1>3, <1>6, <1>7
<1>9. d = a + b
  BY Zenon, <1>5, <1>8
<1> HIDE DEF a, b, d
<1> QED
  BY <1>4, <1>9 DEF a

\* A number rounded to a unit and to an even number of those units: the two
\* results differ by at most half the larger unit.
LEMMA RoundTwice ==
  ASSUME NEW n \in Nat, NEW tick \in Nat \ {0}, NEW j \in Nat \ {0}
  PROVE  LET cent == 2 * (tick * j)
             fine == RoundTo(n, tick)
             rough == RoundTo(n, cent)
         IN  2 * fine <= 2 * rough + cent /\ 2 * rough <= 2 * fine + cent
<1> DEFINE half == tick * j
           cent == 2 * half
           fine == RoundTo(n, tick)
           rough == RoundTo(n, cent)
<1>1. half \in Nat \ {0} /\ cent \in Nat \ {0}
  OBVIOUS
<1>2. fine \in Nat /\ rough \in Nat
  <2> HIDE DEF cent
  <2> QED
    BY <1>1, RoundNat
<1>3. 2 * (rough - n) <= cent /\ 2 * (n - rough) <= cent
  <2> HIDE DEF cent
  <2> QED
    BY <1>1, RoundClose
<1>4. PICK m \in Nat : rough = cent * m
  <2> HIDE DEF cent
  <2> QED
    BY <1>1, RoundMultiple
<1> DEFINE u == 2 * (j * m)
<1>5. u \in Nat /\ rough = tick * u
  <2>1. u \in Nat /\ cent * m = tick * u
    OBVIOUS
  <2> QED
    BY <1>4, <2>1
<1>6. fine <= rough + half
  <2>1. u + j \in Nat /\ tick * (u + j) = tick * u + half
    <3> HIDE DEF u
    <3> QED
      BY <1>5
  <2>2. tick * (u + j) = rough + half
    BY Zenon, <1>5, <2>1
  <2>3. tick * (u + j) \in Nat
    <3> HIDE DEF half, rough
    <3> QED
      BY <1>1, <1>2, <2>2
  <2>4. n <= tick * (u + j)
    <3> HIDE DEF half, rough, u
    <3> QED
      BY <1>1, <1>2, <1>3, <2>2
  <2>5. fine <= RoundTo(tick * (u + j), tick)
    BY Zenon, <2>3, <2>4, RoundMono
  <2>6. RoundTo(tick * (u + j), tick) = tick * (u + j)
    BY Zenon, <2>1, RoundExact
  <2> HIDE DEF fine, rough, half, u
  <2> QED
    BY <2>2, <2>5, <2>6
<1>7. rough <= fine + half
  <2>1. CASE rough <= half
    <3> HIDE DEF fine, rough, half
    <3> QED
      BY <1>1, <1>2, <2>1
  <2>2. CASE ~ (rough <= half)
    <3>1. m # 0
      <4>1. ASSUME m = 0 PROVE FALSE
        <5>1. rough = 0
          BY <1>4, <4>1
        <5> HIDE DEF rough, half
        <5> QED
          BY <1>1, <2>2, <5>1
      <4> QED
        BY Zenon, <4>1
    <3>2. u - j \in Nat /\ tick * (u - j) = tick * u - half
      <4>1. j * m >= j
        BY <3>1
      <4>2. u - j \in Nat
        BY <4>1
      <4> HIDE DEF u
      <4> QED
        BY <1>5, <4>2
    <3>3. tick * (u - j) = rough - half
      BY Zenon, <1>5, <3>2
    <3>4. tick * (u - j) \in Nat
      <4> HIDE DEF half, rough
      <4> QED
        BY <1>1, <1>2, <2>2, <3>3
    <3>5. tick * (u - j) <= n
      <4> HIDE DEF half, rough, u
      <4> QED
        BY <1>1, <1>2, <1>3, <3>3
    <3>6. RoundTo(tick * (u - j), tick) <= fine
      BY Zenon, <3>4, <3>5, RoundMono
    <3>7. RoundTo(tick * (u - j), tick) = tick * (u - j)
      BY Zenon, <3>2, RoundExact
    <3> HIDE DEF fine, rough, half, u
    <3> QED
      BY <1>1, <1>2, <3>3, <3>6, <3>7
  <2> QED
    BY Zenon, <2>1, <2>2
<1>8. 2 * fine <= 2 * rough + cent /\ 2 * rough <= 2 * fine + cent
  <2> HIDE DEF fine, rough, half
  <2> QED
    BY <1>1, <1>2, <1>6, <1>7
<1> QED
  BY Zenon, <1>8

\* Three parts of a multiple of the unit, rounded one by one, add up to it
\* or miss it by one unit.
LEMMA RoundParts ==
  ASSUME NEW unit \in Nat \ {0}, NEW k \in Nat,
         NEW a \in Nat, NEW b \in Nat, NEW d \in Nat, a + b + d = unit * k
  PROVE  LET sum == RoundTo(a, unit) + RoundTo(b, unit) + RoundTo(d, unit)
         IN  sum <= unit * k + unit /\ unit * k <= sum + unit
<1> DEFINE sum == RoundTo(a, unit) + RoundTo(b, unit) + RoundTo(d, unit)
           n == unit * k
<1>1. PICK x \in Nat : RoundTo(a, unit) = unit * x
  BY RoundMultiple
<1>2. PICK y \in Nat : RoundTo(b, unit) = unit * y
  BY RoundMultiple
<1>3. PICK z \in Nat : RoundTo(d, unit) = unit * z
  BY RoundMultiple
<1> DEFINE t == x + y + z
<1>4. t \in Nat /\ sum = unit * t
  <2>1. unit * x + unit * y + unit * z = unit * t
    OBVIOUS
  <2> QED
    BY <1>1, <1>2, <1>3, <2>1
<1>5. n \in Nat /\ sum \in Nat
  BY <1>4
<1>6. 2 * (sum - n) <= 3 * unit /\ 2 * (n - sum) <= 3 * unit
  <2>1. 2 * (RoundTo(a, unit) - a) <= unit /\ 2 * (a - RoundTo(a, unit)) <= unit
    BY RoundClose
  <2>2. 2 * (RoundTo(b, unit) - b) <= unit /\ 2 * (b - RoundTo(b, unit)) <= unit
    BY RoundClose
  <2>3. 2 * (RoundTo(d, unit) - d) <= unit /\ 2 * (d - RoundTo(d, unit)) <= unit
    BY RoundClose
  <2>4. /\ RoundTo(a, unit) \in Nat /\ RoundTo(b, unit) \in Nat
        /\ RoundTo(d, unit) \in Nat
    BY RoundNat
  <2>5. n = a + b + d
    OBVIOUS
  <2> HIDE DEF n
  <2> QED
    BY <2>1, <2>2, <2>3, <2>4, <2>5
<1> HIDE DEF t, sum
<1>7. t <= k + 1
  <2> SUFFICES ASSUME t >= k + 2
               PROVE  FALSE
    BY <1>4
  <2>1. unit * t >= n + 2 * unit
    BY <1>4
  <2> HIDE DEF n
  <2> QED
    BY <1>4, <1>5, <1>6, <2>1
<1>8. k <= t + 1
  <2> SUFFICES ASSUME k >= t + 2
               PROVE  FALSE
    BY <1>4
  <2>1. n >= unit * t + 2 * unit
    BY <1>4
  <2> HIDE DEF n
  <2> QED
    BY <1>4, <1>5, <1>6, <2>1
<1>9. unit * t <= n + unit
  BY <1>4, <1>7
<1>10. n <= unit * t + unit
  BY <1>4, <1>8
<1> QED
  BY Zenon, <1>4, <1>9, <1>10 DEF sum

=============================================================================
