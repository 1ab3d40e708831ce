-------------------------- MODULE NumericChecksProofs --------------------------
(***************************************************************************)
(* The numeric checks are right for every width of the integers, in particular *)
(* for the 2^31 of the code, and for every function.                           *)
(***************************************************************************)
EXTENDS NumericChecks, FiniteSetTheorems, TLAPS

NumericSpec == NumericInit /\ [][NumericNext]_numericVars

-------------------------------------------------------------------------------
(* Arithmetic of the machine. *)

\* The remainder is determined by a quotient.
LEMMA RemainderIs ==
  ASSUME NEW m \in Nat \ {0}, NEW x \in Int, NEW q \in Int, NEW r \in 0..(m - 1),
         x = m * q + r
  PROVE  x % m = r /\ x \div m = q
<1>1. x \div m \in Int /\ x % m \in 0..(m - 1) /\ x = m * (x \div m) + (x % m)
  OBVIOUS
<1>2. PICK d \in Int : d = q - (x \div m)
  BY <1>1
<1>3. m * d = (x % m) - r
  BY <1>1, <1>2
<1>4. m * d < m /\ m * d > -m
  BY <1>1, <1>3
<1>5. d = 0
  <2>1. CASE d >= 1
    <3>1. m * d >= m
      BY <2>1
    <3> QED BY <1>4, <3>1
  <2>2. CASE d <= -1
    <3>1. m * d <= -m
      BY <2>2
    <3> QED BY <1>4, <3>1
  <2> QED BY <1>2, <2>1, <2>2
<1> QED BY <1>1, <1>2, <1>3, <1>5

\* What Wrap does near the range.
LEMMA WrapNear ==
  /\ Modulus \in Nat /\ Modulus = 2 * Half /\ Half \in Nat /\ Half >= 2
  /\ \A x \in Value : Wrap(x) = x
  /\ \A x \in Value : Wrap(x + Modulus) = x
  /\ \A x \in Value : Wrap(x - Modulus) = x
<1>1. Modulus \in Nat \ {0} /\ Modulus = 2 * Half /\ Half \in Nat /\ Half >= 2
  BY NumericAssumption DEF Modulus
<1>2. ASSUME NEW x \in Value
      PROVE  Wrap(x) = x /\ Wrap(x + Modulus) = x /\ Wrap(x - Modulus) = x
  <2>1. x \in 0..(Modulus - 1) /\ x \in Int
    BY <1>1 DEF Value
  <2>2. x = Modulus * 0 + x /\ x + Modulus = Modulus * 1 + x /\ x - Modulus = Modulus * (-1) + x
    BY <1>1, <2>1
  <2> HIDE DEF Modulus
  <2>3. x % Modulus = x
    BY <1>1, <2>1, <2>2, RemainderIs
  <2>4. (x + Modulus) % Modulus = x
    BY <1>1, <2>1, <2>2, RemainderIs
  <2>5. (x - Modulus) % Modulus = x
    BY <1>1, <2>1, <2>2, RemainderIs
  <2> QED BY <2>3, <2>4, <2>5 DEF Wrap
<1> QED BY <1>1, <1>2

LEMMA WrapType ==
  ASSUME NEW x \in Int
  PROVE  Wrap(x) \in Value /\ \E k \in Int : x = Modulus * k + Wrap(x)
<1>1. PICK m \in Nat \ {0} : m = Modulus
  BY WrapNear
<1>2. x \div m \in Int /\ x % m \in 0..(m - 1) /\ x = m * (x \div m) + (x % m)
  OBVIOUS
<1> QED BY <1>1, <1>2 DEF Wrap, Value

LEMMA SignedType ==
  ASSUME NEW v \in Value
  PROVE  /\ v \in Int /\ SignedValue(v) \in -Half..(Half - 1)
         /\ \/ v < Half /\ SignedValue(v) = v
            \/ v >= Half /\ SignedValue(v) = v - Modulus
BY WrapNear DEF Value, SignedValue

LEMMA SignedCongruent ==
  ASSUME NEW v \in Value
  PROVE  \E k \in {0, 1} : v = SignedValue(v) + Modulus * k
<1>1. v = SignedValue(v) + Modulus * 0 \/ v = SignedValue(v) + Modulus * 1
  BY SignedType, WrapNear
<1> QED BY <1>1, Zenon

\* The check of an addition.
LEMMA AddExact ==
  ASSUME NEW a \in Value, NEW b \in Value
  PROVE  getAddOverflowCondition(a, b) <=> Overflow("Add", a, b)
<1>1. PICK x \in Int, y \in Int : x = SignedValue(a) /\ y = SignedValue(b)
  BY SignedType
<1>2. /\ a \in Int /\ b \in Int /\ 0 <= a /\ a < Modulus /\ 0 <= b /\ b < Modulus
      /\ Modulus \in Nat /\ Modulus = 2 * Half /\ Half \in Nat /\ Half >= 2
  BY WrapNear DEF Value
<1>3. /\ \/ a < Half /\ x = a
         \/ a >= Half /\ x = a - Modulus
      /\ \/ b < Half /\ y = b
         \/ b >= Half /\ y = b - Modulus
  BY <1>1, SignedType
<1>4. Wrap(a + b) < a <=> a + b >= Modulus
  <2>1. CASE a + b < Modulus
    <3>1. a + b \in Value
      BY <1>2, <2>1 DEF Value
    <3> QED BY <1>2, <2>1, <3>1, WrapNear
  <2>2. CASE a + b >= Modulus
    <3>1. (a + b) - Modulus \in Value /\ ((a + b) - Modulus) + Modulus = a + b
      BY <1>2, <2>2 DEF Value
    <3>2. Wrap(a + b) = (a + b) - Modulus
      BY <3>1, WrapNear
    <3> QED BY <1>2, <2>2, <3>2
  <2> QED BY <1>2, <2>1, <2>2
<1>5. y > 0 => SignedValue(Wrap(IntMax - b)) = (Half - 1) - y
  <2> SUFFICES ASSUME y > 0 PROVE SignedValue(Wrap(IntMax - b)) = (Half - 1) - y
    OBVIOUS
  <2>1. b < Half /\ y = b /\ (Half - 1) - b \in Value /\ (Half - 1) - b < Half
    BY <1>2, <1>3 DEF Value
  <2>2. Wrap(IntMax - b) = (Half - 1) - b
    BY <2>1, WrapNear DEF IntMax
  <2> QED BY <1>2, <2>1, <2>2 DEF SignedValue
<1>6. y < 0 => SignedValue(Wrap(IntMin - b)) = -Half - y
  <2> SUFFICES ASSUME y < 0 PROVE SignedValue(Wrap(IntMin - b)) = -Half - y
    OBVIOUS
  <2>1. b >= Half /\ y = b - Modulus
    BY <1>2, <1>3
  <2>2. CASE b = Half
    <3>1. IntMin - b = 0 /\ 0 \in Value
      BY <1>2, <2>2 DEF IntMin, Value
    <3>2. Wrap(IntMin - b) = 0
      BY <3>1, WrapNear
    <3> QED BY <1>2, <2>1, <2>2, <3>2 DEF SignedValue
  <2>3. CASE b > Half
    <3>1. (Half - b) + Modulus \in Value /\ ((Half - b) + Modulus) - Modulus = IntMin - b
      BY <1>2, <2>3 DEF IntMin, Value
    <3>2. Wrap(IntMin - b) = (Half - b) + Modulus
      BY <3>1, WrapNear
    <3> QED BY <1>2, <2>1, <2>3, <3>2 DEF SignedValue
  <2> QED BY <1>2, <2>1, <2>2, <2>3
<1>7. SignedValue(0) = 0
  BY <1>2 DEF SignedValue
<1>8. Overflow("Add", a, b) <=> a + b >= Modulus \/ x + y > Half - 1 \/ x + y < -Half
  BY <1>1, <1>2 DEF Overflow, Exact, Value
<1>9. getAddOverflowCondition(a, b)
        <=> \/ y > 0 /\ x > (Half - 1) - y
            \/ y < 0 /\ x < -Half - y
            \/ a + b >= Modulus
  BY <1>1, <1>4, <1>5, <1>6, <1>7 DEF getAddOverflowCondition, SGT, SLT
<1> QED BY <1>1, <1>2, <1>3, <1>8, <1>9

\* The check of a subtraction.
LEMMA SubExact ==
  ASSUME NEW a \in Value, NEW b \in Value
  PROVE  getSubOverflowCondition(a, b) <=> Overflow("Sub", a, b)
<1>1. PICK x \in Int, y \in Int : x = SignedValue(a) /\ y = SignedValue(b)
  BY SignedType
<1>2. /\ a \in Int /\ b \in Int /\ 0 <= a /\ a < Modulus /\ 0 <= b /\ b < Modulus
      /\ Modulus \in Nat /\ Modulus = 2 * Half /\ Half \in Nat /\ Half >= 2
  BY WrapNear DEF Value
<1>3. /\ \/ a < Half /\ x = a
         \/ a >= Half /\ x = a - Modulus
      /\ \/ b < Half /\ y = b
         \/ b >= Half /\ y = b - Modulus
  BY <1>1, SignedType
<1>4. y < 0 => SignedValue(Wrap(IntMax + b)) = (Half - 1) + y
  <2> SUFFICES ASSUME y < 0 PROVE SignedValue(Wrap(IntMax + b)) = (Half - 1) + y
    OBVIOUS
  <2>1. b >= Half /\ y = b - Modulus
    BY <1>2, <1>3
  <2>2. CASE b = Half
    <3>1. IntMax + b \in Value /\ IntMax + b >= Half
      BY <1>2, <2>2 DEF IntMax, Value
    <3>2. Wrap(IntMax + b) = IntMax + b
      BY <3>1, WrapNear
    <3> QED BY <1>2, <2>1, <2>2, <3>1, <3>2 DEF SignedValue, IntMax
  <2>3. CASE b > Half
    <3>1. (IntMax + b) - Modulus \in Value /\ ((IntMax + b) - Modulus) + Modulus = IntMax + b
      BY <1>2, <2>3 DEF IntMax, Value
    <3>2. Wrap(IntMax + b) = (IntMax + b) - Modulus
      BY <3>1, WrapNear
    <3> QED BY <1>2, <2>1, <2>3, <3>2 DEF SignedValue, IntMax
  <2> QED BY <1>2, <2>1, <2>2, <2>3
<1>5. y > 0 => SignedValue(Wrap(IntMin + b)) = -Half + y
  <2> SUFFICES ASSUME y > 0 PROVE SignedValue(Wrap(IntMin + b)) = -Half + y
    OBVIOUS
  <2>1. b < Half /\ y = b /\ IntMin + b \in Value /\ IntMin + b >= Half
    BY <1>2, <1>3 DEF IntMin, Value
  <2>2. Wrap(IntMin + b) = IntMin + b
    BY <2>1, WrapNear
  <2> QED BY <1>2, <2>1, <2>2 DEF SignedValue, IntMin
<1>6. SignedValue(0) = 0
  BY <1>2 DEF SignedValue
<1>7. Overflow("Sub", a, b) <=> a < b \/ x - y > Half - 1 \/ x - y < -Half
  BY <1>1, <1>2 DEF Overflow, Exact, Value
<1>8. getSubOverflowCondition(a, b)
        <=> \/ y < 0 /\ x > (Half - 1) + y
            \/ y > 0 /\ x < -Half + y
            \/ a < b
  BY <1>1, <1>4, <1>5, <1>6 DEF getSubOverflowCondition, SGT, SLT
<1> QED BY <1>1, <1>2, <1>3, <1>7, <1>8

-------------------------------------------------------------------------------
(* The check of a multiplication. *)

\* Multiplication by a natural number is monotonic.
LEMMA TimesMonotonic ==
  ASSUME NEW x \in Int, NEW y \in Int, NEW c \in Nat, x <= y
  PROVE  x * c <= y * c
<1>1. (y - x) * c >= 0
  OBVIOUS
<1>2. (y - x) * c = y * c - x * c
  OBVIOUS
<1> QED BY <1>1, <1>2

\* Its unsigned half compares one factor with the limit divided by the other.
LEMMA UnsignedMul ==
  ASSUME NEW a \in Nat, NEW b \in Nat \ {0}, NEW m \in Nat
  PROVE  a > m \div b <=> a * b > m
<1>1. PICK q \in Int, r \in Int : q = m \div b /\ m = b * q + r /\ 0 <= r /\ r < b
  <2>1. m \div b \in Int /\ m % b \in 0..(b - 1) /\ m = b * (m \div b) + (m % b)
    OBVIOUS
  <2> QED BY <2>1
<1>2. CASE a <= q
  <2>1. a * b <= q * b
    BY <1>2, TimesMonotonic
  <2> QED BY <1>1, <1>2, <2>1
<1>3. CASE a >= q + 1
  <2>1. (q + 1) * b <= a * b
    BY <1>3, TimesMonotonic
  <2>2. (q + 1) * b = b * q + b
    OBVIOUS
  <2> QED BY <1>1, <1>3, <2>1, <2>2
<1> QED BY <1>1, <1>2, <1>3

\* Division towards zero leaves a remainder smaller than the divisor.
LEMMA QuotientIs ==
  ASSUME NEW x \in Int, NEW y \in Int \ {0}
  PROVE  /\ Quotient(x, y) \in Int
         /\ \E r \in Int : /\ x = y * Quotient(x, y) + r
                           /\ -Abs(y) < r /\ r < Abs(y)
<1>1. Abs(x) \in Nat /\ Abs(y) \in Nat \ {0}
  BY DEF Abs
<1>2. PICK u \in Nat, v \in Nat \ {0} : u = Abs(x) /\ v = Abs(y)
  BY <1>1
<1>3. PICK q \in Int, r \in Int : q = u \div v /\ u = v * q + r /\ 0 <= r /\ r < v
  <2>1. u \div v \in Int /\ u % v \in 0..(v - 1) /\ u = v * (u \div v) + (u % v)
    OBVIOUS
  <2> QED BY <2>1
<1>4. Quotient(x, y) = IF (x < 0) <=> (y < 0) THEN q ELSE -q
  BY <1>2, <1>3 DEF Quotient
<1>5. /\ (-y) * q = -(y * q) /\ y * (-q) = -(y * q) /\ y * q \in Int
      /\ -r \in Int /\ -v < -r /\ -r < v /\ -v < r /\ r < v
  BY <1>2, <1>3
<1>6. ASSUME NEW p \in Int, NEW s \in Int, Quotient(x, y) = p, x = y * p + s,
             -v < s, s < v
      PROVE  /\ Quotient(x, y) \in Int
             /\ \E t \in Int : x = y * Quotient(x, y) + t /\ -Abs(y) < t /\ t < Abs(y)
  BY <1>2, <1>6
<1>7. PICK z \in Int : z = y * q /\ (-y) * q = -z /\ y * (-q) = -z
  BY <1>5
<1>8. CASE x < 0 /\ y < 0
  <2>1. u = -x /\ v = -y /\ Quotient(x, y) = q
    BY <1>2, <1>4, <1>8 DEF Abs
  <2>2. v * q = -z
    BY <1>7, <2>1
  <2>3. x = z + -r
    <3>1. u = -z + r
      BY <1>3, <2>2
    <3> QED BY <2>1, <3>1
  <2>4. x = y * q + -r
    BY <1>7, <2>3
  <2> QED BY <1>5, <1>6, <2>1, <2>4
<1>9. CASE x < 0 /\ ~(y < 0)
  <2>1. u = -x /\ v = y /\ Quotient(x, y) = -q
    BY <1>2, <1>4, <1>9 DEF Abs
  <2>2. v * q = z
    BY <1>7, <2>1
  <2>3. x = -z + -r
    <3>1. u = z + r
      BY <1>3, <2>2
    <3> QED BY <2>1, <3>1
  <2>4. x = y * (-q) + -r
    BY <1>7, <2>3
  <2> QED BY <1>5, <1>6, <2>1, <2>4
<1>10. CASE ~(x < 0) /\ y < 0
  <2>1. u = x /\ v = -y /\ Quotient(x, y) = -q
    BY <1>2, <1>4, <1>10 DEF Abs
  <2>2. v * q = -z
    BY <1>7, <2>1
  <2>3. x = -z + r
    <3>1. u = -z + r
      BY <1>3, <2>2
    <3> QED BY <2>1, <3>1
  <2>4. x = y * (-q) + r
    BY <1>7, <2>3
  <2> QED BY <1>5, <1>6, <2>1, <2>4
<1>11. CASE ~(x < 0) /\ ~(y < 0)
  <2>1. u = x /\ v = y /\ Quotient(x, y) = q
    BY <1>2, <1>4, <1>11 DEF Abs
  <2>2. v * q = z
    BY <1>7, <2>1
  <2>3. x = z + r
    <3>1. u = z + r
      BY <1>3, <2>2
    <3> QED BY <2>1, <3>1
  <2>4. x = y * q + r
    BY <1>7, <2>3
  <2> QED BY <1>5, <1>6, <2>1, <2>4
<1> QED BY <1>8, <1>9, <1>10, <1>11

\* No multiple of x but 0 is smaller than x.
LEMMA SmallMultiple ==
  ASSUME NEW x \in Int \ {0}, NEW d \in Int, -Abs(x) < x * d, x * d < Abs(x)
  PROVE  d = 0
<1>1. PICK v \in Nat \ {0} : v = Abs(x) /\ (x = v \/ x = -v)
  BY DEF Abs
<1>2. v * d < v /\ -v < v * d
  <2>1. CASE x = v
    BY <1>1, <2>1
  <2>2. CASE x = -v
    <3>1. x * d = -(v * d) /\ v * d \in Int
      BY <2>2
    <3> QED BY <1>1, <3>1
  <2> QED BY <1>1, <2>1, <2>2
<1>3. ASSUME d >= 1 PROVE FALSE
  <2>1. 1 * v <= d * v /\ d * v = v * d /\ 1 * v = v
    BY <1>3, TimesMonotonic
  <2> QED BY <1>2, <2>1
<1>4. ASSUME d <= -1 PROVE FALSE
  <2>1. d * v <= (-1) * v /\ d * v = v * d /\ (-1) * v = -v
    BY <1>4, TimesMonotonic
  <2> QED BY <1>2, <2>1
<1> QED BY <1>3, <1>4

\* z is the product x * y cut off to the range of h, and p its quotient by x.
CutOff(h, x, y, z, n, p, r) ==
  /\ h \in Nat /\ h >= 2
  /\ x \in -h..(h - 1) /\ y \in -h..(h - 1) /\ z \in -h..(h - 1)
  /\ x # 0 /\ n \in Int /\ z = x * y + (2 * h) * n
  /\ p \in Int /\ r \in Int /\ z = x * p + r /\ -Abs(x) < r /\ r < Abs(x)
  /\ ~(z = -h /\ x = -1)

\* Its signed half divides what is left of the product by the first factor: the
\* quotient p is the second factor y, modulo 2h, exactly if nothing was lost.
LEMMA SignedMul ==
  ASSUME NEW h, NEW x, NEW y, NEW z, NEW n, NEW p, NEW r, CutOff(h, x, y, z, n, p, r)
  PROVE  (\E k \in Int : p = y + (2 * h) * k) <=> x * y \in -h..(h - 1)
<1> USE DEF CutOff
<1> DEFINE m == 2 * h
<1>1. m \in Nat \ {0} /\ Abs(m) = m /\ Abs(x) \in Nat /\ Abs(x) <= h /\ Abs(x) < m /\ x \in Int
  BY DEF Abs
<1>2. ASSUME x * y \in -h..(h - 1) PROVE p = y + m * 0
  <2>1. x * y \in Int /\ m * n = z - x * y /\ -m < m * n /\ m * n < m
    BY <1>2
  <2>2. n = 0
    BY <1>1, <2>1, SmallMultiple
  <2>3. z = x * y
    BY <2>2
  <2>4. PICK d \in Int : d = y - p
    OBVIOUS
  <2>5. x * d = x * y - x * p /\ x * p \in Int
    BY <2>4
  <2>6. x * d = r
    BY <2>1, <2>3, <2>5
  <2>7. d = 0
    BY <1>1, <2>6, SmallMultiple
  <2> QED BY <1>1, <2>4, <2>7
<1>3. ASSUME NEW k \in Int, p = y + m * k PROVE x * y \in -h..(h - 1)
  <2>1. PICK e \in Int : e = n - x * k
    BY <1>1
  <2>2. x * p = x * y + m * (x * k)
    BY <1>1, <1>3
  <2>3. m * e = m * n - m * (x * k)
    BY <1>1, <2>1
  <2>4. m * e = r
    <3>1. PICK u \in Int, v \in Int, w \in Int : u = x * y /\ v = m * n /\ w = m * (x * k)
      BY <1>1
    <3>2. x * p = u + w /\ z = u + v /\ m * e = v - w
      BY <2>2, <2>3, <3>1
    <3> QED BY <3>1, <3>2
  <2>5. e = 0
    BY <1>1, <2>4, SmallMultiple
  <2>6. r = 0 /\ z = x * p
    BY <1>1, <2>4, <2>5
  <2>7. -h <= p /\ p <= h
    <3>1. ASSUME p > h PROVE FALSE
      <4>1. CASE x >= 1
        <5>1. 1 * p <= x * p
          BY <3>1, <4>1, TimesMonotonic
        <5> QED BY <2>6, <3>1, <5>1
      <4>2. CASE x <= -1
        <5>1. x * p <= (-1) * p
          BY <3>1, <4>2, TimesMonotonic
        <5> QED BY <2>6, <3>1, <5>1
      <4> QED BY <4>1, <4>2
    <3>2. ASSUME p < -h PROVE FALSE
      <4>1. PICK o \in Nat : o = -p
        BY <3>2
      <4>2. x * o = -z
        <5>1. x * (-p) = -(x * p)
          BY <1>1
        <5> QED BY <2>6, <4>1, <5>1
      <4>3. CASE x >= 1
        <5>1. 1 * o <= x * o
          BY <4>3, TimesMonotonic
        <5> QED BY <3>2, <4>1, <4>2, <5>1
      <4>4. CASE x <= -1
        <5>1. x * o <= (-1) * o
          BY <4>4, TimesMonotonic
        <5> QED BY <3>2, <4>1, <4>2, <5>1
      <4> QED BY <4>3, <4>4
    <3> QED BY <3>1, <3>2
  <2>8. p # h
    <3> SUFFICES ASSUME p = h PROVE FALSE
      OBVIOUS
    <3>1. CASE x >= 1
      <4>1. 1 * h <= x * h
        BY <3>1, TimesMonotonic
      <4> QED BY <2>6, <4>1
    <3>2. CASE x <= -2
      <4>1. x * h <= (-2) * h
        BY <3>2, TimesMonotonic
      <4> QED BY <2>6, <4>1
    <3>3. CASE x = -1
      BY <2>6, <3>3
    <3> QED BY <3>1, <3>2, <3>3
  <2>9. m * k = p - y /\ -m < m * k /\ m * k < m
    BY <1>1, <1>3, <2>7, <2>8
  <2>10. k = 0
    BY <1>1, <2>9, SmallMultiple
  <2>11. p = y
    BY <1>1, <1>3, <2>10
  <2> QED BY <2>6, <2>11
<1>4. ASSUME x * y \in -h..(h - 1) PROVE \E k \in Int : p = y + (2 * h) * k
  <2>1. 0 \in Int
    OBVIOUS
  <2> QED BY <1>2, <1>4, <2>1, Zenon
<1> QED BY <1>3, <1>4

\* The machine's product is that of the signed values modulo 2^32.
LEMMA ProductCongruent ==
  ASSUME NEW a \in Value, NEW b \in Value
  PROVE  \E n \in Int : SignedValue(Wrap(a * b))
                          = SignedValue(a) * SignedValue(b) + Modulus * n
<1>1. PICK m \in Nat : m = Modulus
  BY WrapNear
<1>2. PICK x \in Int, y \in Int : x = SignedValue(a) /\ y = SignedValue(b)
  BY SignedType
<1>3. PICK i \in {0, 1}, j \in {0, 1} : a = x + m * i /\ b = y + m * j
  BY <1>1, <1>2, SignedCongruent
<1>4. /\ x = SignedValue(a) /\ y = SignedValue(b) /\ a = x + m * i /\ b = y + m * j
      /\ i \in Int /\ j \in Int
  BY <1>2, <1>3
<1>5. a * b \in Int
  BY SignedType
<1>6. PICK k \in Int : a * b = m * k + Wrap(a * b)
  BY <1>1, <1>5, WrapType
<1>7. Wrap(a * b) \in Value
  BY <1>5, WrapType
<1>8. PICK z \in Int : z = SignedValue(Wrap(a * b))
  BY <1>7, SignedType
<1>9. PICK l \in {0, 1} : Wrap(a * b) = z + m * l
  BY <1>1, <1>7, <1>8, SignedCongruent
<1>10. z = SignedValue(Wrap(a * b)) /\ z = Wrap(a * b) - m * l /\ l \in Int
  <2>1. PICK w \in Int : w = Wrap(a * b)
    BY <1>7, SignedType
  <2>2. l \in Int /\ m * l \in Int
    OBVIOUS
  <2> QED BY <1>8, <1>9, <2>1, <2>2
<1>11. a * b = x * y + m * (x * j + i * y + m * (i * j))
  <2>1. (x + m * i) * (y + m * j) = x * y + m * (x * j + i * y + m * (i * j))
    OBVIOUS
  <2> QED BY <1>4, <2>1
<1>12. PICK c \in Int : c = x * j + i * y + m * (i * j)
  OBVIOUS
<1>13. z = x * y + m * (c - k - l)
  <2>1. m * (c - k - l) = m * c - m * k - m * l
    OBVIOUS
  <2>2. PICK A \in Int, B \in Int, C \in Int, D \in Int :
          A = m * c /\ B = m * k /\ C = m * l /\ D = x * y
    OBVIOUS
  <2>3. a * b = D + A /\ a * b = B + Wrap(a * b) /\ z = Wrap(a * b) - C
    BY <1>6, <1>10, <1>11, <1>12, <2>2
  <2>4. Wrap(a * b) \in Int
    BY <1>7, SignedType
  <2> QED BY <1>5, <2>1, <2>2, <2>3, <2>4
<1>14. /\ c - k - l \in Int
       /\ SignedValue(Wrap(a * b)) = SignedValue(a) * SignedValue(b) + Modulus * (c - k - l)
  BY <1>1, <1>4, <1>10, <1>13
<1> QED BY <1>14, Zenon

\* The check of a multiplication, whatever the division by -1 of the least integer
\* yields.
LEMMA MulExact ==
  ASSUME NEW a \in Value, NEW b \in Value,
         NEW q \in Results("SDiv", Wrap(a * b), MulDivisor(a))
  PROVE  getMulOverflowCondition(a, b, q) <=> Overflow("Mul", a, b)
<1>1. /\ Modulus \in Nat /\ Modulus = 2 * Half /\ Half \in Nat /\ Half >= 2
      /\ a \in Nat /\ b \in Nat /\ a < Modulus /\ b < Modulus
  BY WrapNear DEF Value
<1>2. PICK m \in Nat : m = Modulus
  BY <1>1
<1>3. PICK x \in -Half..(Half - 1), y \in -Half..(Half - 1) :
        x = SignedValue(a) /\ y = SignedValue(b)
  BY SignedType
<1>4. a * b \in Nat /\ x * y \in Int
  BY <1>1
<1>5. Overflow("Mul", a, b) <=> a * b > m - 1 \/ x * y \notin -Half..(Half - 1)
  BY <1>1, <1>2, <1>3, <1>4 DEF Overflow, Exact, Value
<1>6. (b # 0 /\ a > (m - 1) \div MulDivisor(b)) <=> a * b > m - 1
  <2>1. CASE b = 0
    <3>1. a * b = 0
      BY <1>1, <2>1
    <3> QED BY <1>1, <1>2, <2>1, <3>1
  <2>2. CASE b # 0
    <3>1. a > (m - 1) \div b <=> a * b > m - 1
      BY <1>1, <1>2, <2>2, UnsignedMul
    <3> QED BY <2>2, <3>1 DEF MulDivisor
  <2> QED BY <2>1, <2>2
<1>7. getMulOverflowCondition(a, b, q) <=> (a # 0 /\ q # b) \/ a * b > m - 1
  BY <1>2, <1>6 DEF getMulOverflowCondition
<1>8. CASE a = 0
  <2>1. x = 0
    BY <1>1, <1>3, <1>8 DEF SignedValue
  <2>2. a * b = 0 /\ x * y = 0
    BY <1>1, <1>3, <1>8, <2>1
  <2> QED BY <1>1, <1>2, <1>5, <1>7, <1>8, <2>2
<1>9. CASE a # 0 /\ DivisionTraps("SDiv", Wrap(a * b), a)
  <2>1. Wrap(a * b) = Half /\ a = m - 1
    BY <1>2, <1>9 DEF DivisionTraps
  <2>2. ASSUME a * b <= m - 1 PROVE FALSE
    <3>1. a * b \in Value
      BY <1>1, <1>2, <1>4, <2>2 DEF Value
    <3>2. a * b = Half
      BY <2>1, <3>1, WrapNear
    <3>3. CASE b = 0
      BY <1>1, <3>2, <3>3
    <3>4. CASE b >= 1
      <4>1. 1 * a <= b * a /\ b * a = a * b /\ 1 * a = a
        BY <1>1, <3>4, TimesMonotonic
      <4> QED BY <1>1, <1>2, <2>1, <3>2, <4>1
    <3> QED BY <1>1, <3>3, <3>4
  <2>3. a * b > m - 1
    BY <1>1, <1>2, <1>4, <2>2
  <2> QED BY <1>5, <1>7, <2>3
<1>10. CASE a # 0 /\ ~DivisionTraps("SDiv", Wrap(a * b), a)
  <2>1. Wrap(a * b) \in Value
    BY <1>4, WrapType
  <2>2. PICK z \in -Half..(Half - 1) : z = SignedValue(Wrap(a * b))
    BY <2>1, SignedType
  <2>3. q = Wrap(Quotient(z, x))
    BY <1>3, <1>10, <2>2 DEF Results, MulDivisor
  <2>4. x # 0 /\ x \in Int /\ z \in Int
    BY <1>1, <1>2, <1>3, <1>10 DEF SignedValue
  <2>5. PICK p \in Int, r \in Int :
          p = Quotient(z, x) /\ z = x * p + r /\ -Abs(x) < r /\ r < Abs(x)
    BY <2>4, QuotientIs
  <2>6. PICK n \in Int : z = x * y + m * n
    BY <1>2, <1>3, <2>2, ProductCongruent
  <2>7. ~(z = -Half /\ x = -1)
    <3> SUFFICES ASSUME z = -Half, x = -1 PROVE FALSE
      OBVIOUS
    <3>1. a = m - 1
      BY <1>1, <1>2, <1>3, SignedType
    <3>2. Wrap(a * b) = Half
      <4>1. PICK w \in Value : w = Wrap(a * b)
        BY <2>1
      <4>2. SignedValue(w) = -Half
        BY <2>2, <4>1
      <4> QED BY <1>1, <4>1, <4>2, SignedType DEF Value
    <3> QED BY <1>2, <1>10, <3>1, <3>2 DEF DivisionTraps
  <2>8. (\E k \in Int : p = y + m * k) <=> x * y \in -Half..(Half - 1)
    <3>1. m = 2 * Half
      BY <1>1, <1>2
    <3>2. z = x * y + (2 * Half) * n
      BY <2>6, <3>1
    <3>3. CutOff(Half, x, y, z, n, p, r)
      BY <1>1, <2>4, <2>5, <2>7, <3>2 DEF CutOff
    <3>4. (\E k \in Int : p = y + (2 * Half) * k) <=> x * y \in -Half..(Half - 1)
      BY <3>3, SignedMul
    <3> QED BY <3>1, <3>4, Zenon
  <2>9. q = b <=> \E k \in Int : p = y + m * k
    <3>1. PICK j \in Int : b = y + m * j
      <4>1. y = b \/ y = b - m
        BY <1>2, <1>3, SignedType
      <4>2. b = b + m * 0 /\ b = (b - m) + m * 1
        BY <1>1
      <4> QED BY <4>1, <4>2
    <3>2. PICK i \in Int : p = m * i + q
      BY <1>2, <2>3, <2>5, WrapType
    <3>3. ASSUME q = b PROVE \E k \in Int : p = y + m * k
      <4>1. m * (i + j) = m * i + m * j
        OBVIOUS
      <4>2. p = y + m * (i + j)
        <5>1. PICK A \in Int, B \in Int : A = m * i /\ B = m * j
          OBVIOUS
        <5>2. p = A + q /\ b = y + B /\ m * (i + j) = A + B
          BY <3>1, <3>2, <4>1, <5>1
        <5> QED BY <1>1, <3>3, <5>1, <5>2
      <4> QED BY <4>2
    <3>4. ASSUME NEW k \in Int, p = y + m * k PROVE q = b
      <4>1. m * (k - j) = m * k - m * j
        OBVIOUS
      <4>2. p = m * (k - j) + b
        <5>1. PICK A \in Int, B \in Int : A = m * k /\ B = m * j
          OBVIOUS
        <5>2. p = y + A /\ b = y + B /\ m * (k - j) = A - B
          BY <3>1, <3>4, <4>1, <5>1
        <5> QED BY <1>1, <5>1, <5>2
      <4>3. p % m = b
        <5>1. m \in Nat \ {0} /\ k - j \in Int /\ b \in 0..(m - 1)
          BY <1>1, <1>2
        <5> QED BY <4>2, <5>1, RemainderIs, Zenon
      <4> QED BY <1>2, <2>3, <2>5, <4>3 DEF Wrap
    <3> QED BY <3>3, <3>4
  <2> QED BY <1>5, <1>7, <1>10, <2>8, <2>9
<1> QED BY <1>8, <1>9, <1>10

\* The check of a multiplication traps only when the one factor is -1 and the other
\* the least integer.
LEMMA MulTraps ==
  ASSUME NEW a \in Value, NEW b \in Value, DivisionTraps("SDiv", Wrap(a * b), MulDivisor(a))
  PROVE  a = Modulus - 1 /\ b = Half
<1>1. /\ Modulus \in Nat /\ Modulus = 2 * Half /\ Half \in Nat /\ Half >= 2
      /\ a \in Nat /\ b \in Nat /\ a < Modulus /\ b < Modulus
  BY WrapNear DEF Value
<1>2. PICK m \in Nat : m = Modulus
  BY <1>1
<1>3. Wrap(a * b) = Half /\ a = m - 1
  BY <1>1, <1>2 DEF DivisionTraps, MulDivisor
<1>4. PICK k \in Int : a * b = m * k + Half
  <2>1. a * b \in Int
    BY <1>1
  <2> QED BY <1>2, <1>3, <2>1, WrapType
<1>5. a * b = m * b - b
  <2>1. (m - 1) * b = m * b - b
    BY <1>1
  <2> QED BY <1>3, <2>1
<1>6. PICK d \in Int : d = b - k - 1
  BY <1>1
<1>7. m * d = m * b - m * k - m
  BY <1>1, <1>6
<1>8. m * d = (b + Half) - m
  <2>1. PICK A \in Int, B \in Int : A = m * b /\ B = m * k
    BY <1>1
  <2>2. a * b = B + Half /\ a * b = A - b /\ m * d = A - B - m
    BY <1>4, <1>5, <1>7, <2>1
  <2> QED BY <1>1, <2>1, <2>2
<1>9. m \in Int \ {0} /\ Abs(m) = m /\ -m < m * d /\ m * d < m
  BY <1>1, <1>2, <1>8 DEF Abs
<1>10. d = 0
  BY <1>9, SmallMultiple
<1>11. m * d = 0
  BY <1>10
<1> QED BY <1>1, <1>2, <1>3, <1>8, <1>11

-------------------------------------------------------------------------------
(* The order of the blocks. *)

\* The checks that an instruction passes, and the block behind them.
Path(op) ==
  IF op \in IntOp
  THEN <<"overflow_check", "signed_bound_check", "unsigned_bound_check",
         "signed_minus_bound_check", "max_bound_check", "signed_max_bound_check",
         "signed_min_bound_check", "origin_cont">>
  ELSE <<"overflow_check", "bound_check", "devided_by_zero_check",
         "minus_bound_check", "max_bound_check", "min_bound_check", "origin_cont">>

\* The last position on it.
End(op) == IF op \in IntOp THEN 8 ELSE 7

LEMMA PathIs ==
  ASSUME NEW op \in IntOp \cup FPOp, NEW k \in 1..End(op)
  PROVE  /\ Path(op)[k] \notin {"none", "origin", "trap"}
         /\ Path(op)[k] = "overflow_check" <=> k = 1
         /\ Path(op)[k] = "origin_cont" <=> k = End(op)
         /\ k < End(op) => Successor(op, Path(op)[k]) = Path(op)[k + 1]
<1>1. CASE op \in IntOp
  <2>1. k \in 1..8
    BY <1>1 DEF End
  <2>2. k = 1 \/ k = 2 \/ k = 3 \/ k = 4 \/ k = 5 \/ k = 6 \/ k = 7 \/ k = 8
    BY <2>1
  <2> QED BY <1>1, <2>2 DEF Path, End, Successor
<1>2. CASE op \notin IntOp
  <2>1. k \in 1..7
    BY <1>2 DEF End
  <2>2. k = 1 \/ k = 2 \/ k = 3 \/ k = 4 \/ k = 5 \/ k = 6 \/ k = 7
    BY <2>1
  <2> QED BY <1>2, <2>2 DEF Path, End, Successor
<1> QED BY <1>1, <1>2

-------------------------------------------------------------------------------
(* The invariant. *)

\* An instruction that is executed, with a result that the machine may give.
Executed(i) ==
  \/ /\ i.op \in IntOp /\ i.a \in Value /\ i.b \in Value /\ i.res \in Results(i.op, i.a, i.b)
     /\ \/ i.constant = {}
        \/ i.op = "Mul" /\ i.constant \in {{"a"}, {"b"}}
  \/ i.op \in FPOp

\* The outcome of a check is right for the instruction.
Right(i, p) ==
  /\ i.op \in {"Add", "Sub", "Mul"} /\ p.check = "overflow_check" =>
       (p.taken <=> Overflow(i.op, i.a, i.b))
  /\ i.op \in {"UDiv", "SDiv"} /\ p.check = "overflow_check" /\ p.taken => i.b = 0
  /\ i.op \in FPOp /\ p.check = "overflow_check" =>
       (p.taken <=> i.res \in {-Infinity, Infinity})
  /\ i.op \in FPOp /\ i.res = NotANumber /\ p.taken =>
       p.check = "devided_by_zero_check" /\ i.op = "FDiv" /\ i.b = 0

IsSeq(s) == \E S : s \in Seq(S)

Idle ==
  /\ block \in {"none", "origin"} /\ inst = Nothing
  /\ selects = << >> /\ pushed = << >>

Trapped ==
  /\ block = "trap" /\ inst.op \in IntOp /\ pushed = << >>
  /\ \/ DivisionTraps(inst.op, inst.a, inst.b) /\ selects = << >>
     \/ /\ inst.op = "Mul" /\ inst.a = Modulus - 1 /\ inst.b = Half
        /\ \A k \in DOMAIN selects : k = 1 /\ selects[k]

\* How many selects an instruction has in front of its first check.
SelectCount(i) ==
  IF i.op \in IntOp /\ i.constant # {} THEN Selects("MulConst") ELSE Selects(i.op)

\* The checks that were passed so far are the first ones on the path, and the next
\* block is the next one on it.
Checking ==
  /\ Executed(inst) /\ IsSeq(pushed)
  /\ Len(pushed) < End(inst.op)
  /\ IF pushed = << >> THEN selects = << >> ELSE Len(selects) = SelectCount(inst)
  /\ block = Path(inst.op)[Len(pushed) + 1]
  /\ \A k \in 1..Len(pushed) :
       pushed[k].check = Path(inst.op)[k] /\ Right(inst, pushed[k])

NumericInv == body \in Seq(Instruction) /\ (Idle \/ Trapped \/ Checking)

\* In the block of a check the instruction is being checked.
LEMMA InCheck ==
  ASSUME NumericInv, block \notin {"none", "origin", "trap"}
  PROVE  /\ Checking /\ inst.op \in IntOp \cup FPOp
         /\ Len(pushed) + 1 \in 1..End(inst.op)
         /\ block = "overflow_check" <=> Len(pushed) = 0
         /\ block = "origin_cont" <=> Len(pushed) + 1 = End(inst.op)
<1>1. Checking
  BY DEF NumericInv, Idle, Trapped
<1>2. inst.op \in IntOp \cup FPOp
  BY <1>1 DEF Checking, Executed
<1>3. Len(pushed) + 1 \in 1..End(inst.op) /\ Len(pushed) \in Nat
  BY <1>1 DEF Checking, End, IsSeq
<1> QED BY <1>1, <1>2, <1>3, PathIs DEF Checking

\* A path has no other blocks than checks.
LEMMA InBlocks == Checking => block \notin {"none", "origin", "trap"}
<1> SUFFICES ASSUME Checking PROVE block \notin {"none", "origin", "trap"}
  OBVIOUS
<1>1. inst.op \in IntOp \cup FPOp
  BY DEF Checking, Executed
<1>2. Len(pushed) + 1 \in 1..End(inst.op)
  BY DEF Checking, End, IsSeq
<1> QED BY <1>1, <1>2, PathIs DEF Checking

\* A check that is passed with the right outcome leads to the next one.
LEMMA CheckedKeeps ==
  ASSUME NumericInv, block \notin {"none", "origin", "trap", "origin_cont"},
         NEW taken, Checked(taken),
         \/ UNCHANGED selects /\ (block = "overflow_check" => SelectCount(inst) = 0)
         \/ Len(selects') = SelectCount(inst),
         Right(inst, [check |-> block, taken |-> taken])
  PROVE  NumericInv'
<1>1. /\ Checking /\ inst.op \in IntOp \cup FPOp
      /\ Len(pushed) + 1 \in 1..End(inst.op) /\ Len(pushed) + 1 # End(inst.op)
  BY InCheck
<1>2. PICK n \in Nat : n = Len(pushed)
  BY <1>1 DEF Checking, IsSeq
<1>3. n + 1 < End(inst.op)
  BY <1>1, <1>2 DEF End
<1>4. PICK p : p = [check |-> block, taken |-> taken]
  OBVIOUS
<1>5. pushed' = Append(pushed, p) /\ UNCHANGED <<body, checker, inst>>
      /\ block' = Successor(inst.op, block)
  BY <1>4 DEF Checked
<1>6. block = Path(inst.op)[n + 1]
  BY <1>1, <1>2 DEF Checking
<1>7. block' = Path(inst.op)[n + 2]
  <2>1. n + 1 \in 1..End(inst.op) /\ (n + 1) + 1 = n + 2
    BY <1>1, <1>2
  <2> QED BY <1>1, <1>3, <1>5, <1>6, <2>1, PathIs
<1>8. PICK S : pushed \in Seq(S)
  BY <1>1 DEF Checking, IsSeq
<1>9. pushed \in Seq(S \cup {p})
  BY <1>8
<1>10. /\ pushed' \in Seq(S \cup {p}) /\ Len(pushed') = n + 1 /\ pushed'[n + 1] = p
       /\ \A k \in 1..n : pushed'[k] = pushed[k]
  BY <1>2, <1>5, <1>9
<1>11. p.check = Path(inst.op)[n + 1] /\ Right(inst, p)
  BY <1>4, <1>6
<1>12. \A k \in 1..n : pushed[k].check = Path(inst.op)[k] /\ Right(inst, pushed[k])
  BY <1>1, <1>2 DEF Checking
<1>13. \A k \in 1..(n + 1) :
         pushed'[k].check = Path(inst.op)[k] /\ Right(inst, pushed'[k])
  <2> SUFFICES ASSUME NEW k \in 1..(n + 1)
               PROVE  pushed'[k].check = Path(inst.op)[k] /\ Right(inst, pushed'[k])
    OBVIOUS
  <2>1. CASE k = n + 1
    BY <1>10, <1>11, <2>1
  <2>2. CASE k # n + 1
    <3>1. k \in 1..n
      BY <2>2
    <3> QED BY <1>10, <1>12, <3>1
  <2> QED BY <2>1, <2>2
<1>14. Executed(inst) /\ Len(pushed') + 1 = n + 2 /\ IsSeq(pushed')
  BY <1>1, <1>10 DEF Checking, IsSeq
<1>16. pushed' # << >> /\ Len(selects') = SelectCount(inst)
  <2>1. pushed' # << >>
    BY <1>10
  <2>2. CASE UNCHANGED selects /\ (block = "overflow_check" => SelectCount(inst) = 0)
    <3>1. CASE pushed = << >>
      <4>1. Len(pushed) = 0 /\ block = "overflow_check" /\ selects = << >>
        BY <3>1, <1>1, InCheck DEF Checking
      <4> QED BY <2>1, <2>2, <4>1
    <3>2. CASE pushed # << >>
      BY <1>1, <2>1, <2>2, <3>2 DEF Checking
    <3> QED BY <3>1, <3>2
  <2> QED BY <2>1, <2>2
<1>15. Checking'
  BY <1>3, <1>5, <1>7, <1>10, <1>13, <1>14, <1>16 DEF Checking
<1> QED BY <1>5, <1>15 DEF NumericInv

LEMMA PassKeeps ==
  ASSUME NumericInv, OverflowCheckerPass
  PROVE  NumericInv'
<1>1. block = "none" /\ block' = "origin" /\ body' \in Function /\ UNCHANGED <<inst, selects, pushed>>
  BY DEF OverflowCheckerPass
<1>2. body' \in Seq(Instruction)
  BY <1>1, NumericAssumption
<1>3. Idle
  BY <1>1, InBlocks DEF NumericInv, Trapped
<1> QED BY <1>1, <1>2, <1>3 DEF NumericInv, Idle

LEMMA ExecuteIntKeeps ==
  ASSUME NumericInv, ExecuteInt
  PROVE  NumericInv'
<1>1. PICK i \in DOMAIN body, a \in Value, b \in Value :
        /\ block = "origin" /\ body[i] \in IntInst
        /\ \E res \in Results(Operation(i), a, b), constant \in Constant(i) :
             inst' = [op |-> Operation(i), a |-> a, b |-> b, res |-> res,
                      constant |-> constant]
        /\ \/ block' = "overflow_check"
           \/ DivisionTraps(Operation(i), a, b) /\ block' = "trap"
        /\ UNCHANGED <<body, checker, selects, pushed>>
  BY DEF ExecuteInt
<1>2. /\ inst'.op = Operation(i) /\ inst'.a = a /\ inst'.b = b
      /\ inst'.res \in Results(Operation(i), a, b) /\ inst'.constant \in Constant(i)
  BY <1>1
<1>3. pushed' = << >> /\ selects' = << >>
  BY <1>1, InBlocks DEF NumericInv, Idle, Trapped
<1>6. /\ Operation(i) \in IntOp
      /\ \/ inst'.constant = {}
         \/ Operation(i) = "Mul" /\ inst'.constant \in {{"a"}, {"b"}}
  BY <1>1, <1>2 DEF Operation, Constant, IntInst, IntOp
<1>4. CASE block' = "overflow_check"
  <2>1. Executed(inst')
    BY <1>1, <1>2, <1>6 DEF Executed
  <2>2. 1 \in 1..End(inst'.op) /\ Len(pushed') = 0 /\ Len(pushed') + 1 = 1
        /\ IsSeq(pushed')
    BY <1>3 DEF End, IsSeq
  <2>3. block' = Path(inst'.op)[1]
    BY <1>1, <1>2, <1>4, <1>6, <2>2, PathIs
  <2>4. Checking'
    BY <1>3, <2>1, <2>2, <2>3 DEF Checking, End
  <2> QED BY <1>1, <2>4 DEF NumericInv
<1>5. CASE DivisionTraps(Operation(i), a, b) /\ block' = "trap"
  <2>1. Trapped'
    BY <1>1, <1>2, <1>3, <1>5, <1>6 DEF Trapped, DivisionTraps
  <2> QED BY <1>1, <2>1 DEF NumericInv
<1> QED BY <1>1, <1>4, <1>5

LEMMA ExecuteFPKeeps ==
  ASSUME NumericInv, ExecuteFP
  PROVE  NumericInv'
<1>1. PICK i \in DOMAIN body, divisor \in FPValue :
        /\ block = "origin" /\ body[i] \in FPOp
        /\ \E res \in FPResults(body[i], divisor) :
             inst' = [op |-> body[i], b |-> divisor, res |-> res]
        /\ block' = "overflow_check"
        /\ UNCHANGED <<body, checker, selects, pushed>>
  BY DEF ExecuteFP
<1>2. inst'.op \in FPOp
  BY <1>1
<1>3. pushed' = << >> /\ selects' = << >>
  BY <1>1, InBlocks DEF NumericInv, Idle, Trapped
<1>4. 1 \in 1..End(inst'.op) /\ Len(pushed') = 0 /\ Len(pushed') + 1 = 1
      /\ IsSeq(pushed')
  BY <1>3 DEF End, IsSeq
<1>5. block' = Path(inst'.op)[1]
  BY <1>1, <1>2, <1>4, PathIs
<1>6. Checking'
  BY <1>2, <1>3, <1>4, <1>5 DEF Checking, Executed, End
<1> QED BY <1>1, <1>6 DEF NumericInv

\* Only multiplications have selects in their check.
LEMMA NoSelects ==
  ASSUME Executed(inst), inst.op # "Mul"
  PROVE  SelectCount(inst) = 0
<1>1. ~(inst.op \in IntOp /\ inst.constant # {}) /\ inst.op # "MulConst"
  BY DEF Executed, IntOp, FPOp
<1> QED BY <1>1 DEF SelectCount, Selects

LEMMA CheckAddSubKeeps ==
  ASSUME NumericInv, CheckAddSub
  PROVE  NumericInv'
<1>1. block = "overflow_check" /\ inst.op \in {"Add", "Sub"}
  BY DEF CheckAddSub
<1>2. Executed(inst)
  BY <1>1, InCheck DEF Checking
<1>3. inst.a \in Value /\ inst.b \in Value
  BY <1>1, <1>2 DEF Executed, IntOp, FPOp
<1>4. PICK taken \in BOOLEAN :
        /\ taken <=> Overflow(inst.op, inst.a, inst.b)
        /\ Checked(taken)
  <2>1. CASE inst.op = "Add"
    <3>1. Checked(getAddOverflowCondition(inst.a, inst.b))
      BY <2>1 DEF CheckAddSub
    <3>2. getAddOverflowCondition(inst.a, inst.b) \in BOOLEAN
      BY DEF getAddOverflowCondition
    <3> QED BY <1>3, <2>1, <3>1, <3>2, AddExact, Zenon
  <2>2. CASE inst.op = "Sub"
    <3>1. Checked(getSubOverflowCondition(inst.a, inst.b))
      BY <2>2 DEF CheckAddSub
    <3>2. getSubOverflowCondition(inst.a, inst.b) \in BOOLEAN
      BY DEF getSubOverflowCondition
    <3> QED BY <1>3, <2>2, <3>1, <3>2, SubExact, Zenon
  <2> QED BY <1>1, <2>1, <2>2
<1>5. Right(inst, [check |-> block, taken |-> taken])
  BY <1>1, <1>4 DEF Right, FPOp
<1>6. UNCHANGED selects /\ SelectCount(inst) = 0
  BY <1>1, <1>2, NoSelects DEF CheckAddSub
<1> QED BY <1>1, <1>4, <1>5, <1>6, CheckedKeeps

LEMMA CheckMulKeeps ==
  ASSUME NumericInv, CheckMul
  PROVE  NumericInv'
<1>1. block = "overflow_check" /\ inst.op = "Mul"
  BY DEF CheckMul
<1>2. Executed(inst) /\ pushed = << >> /\ body \in Seq(Instruction)
  BY <1>1, InCheck DEF Checking, NumericInv
<1>3. inst.a \in Value /\ inst.b \in Value /\ inst.res = Wrap(inst.a * inst.b)
  BY <1>1, <1>2 DEF Executed, IntOp, FPOp, Results
<1>4. /\ SelectOn("a", inst.a) = IF "a" \in inst.constant THEN << >> ELSE <<inst.a # 0>>
      /\ SelectOn("b", inst.b) = IF "b" \in inst.constant THEN << >> ELSE <<inst.b # 0>>
  BY DEF SelectOn
<1>5. inst.constant \in {{}, {"a"}, {"b"}}
  BY <1>1, <1>2 DEF Executed, FPOp
<1>6. ASSUME NEW q \in Results("SDiv", inst.res, MulDivisor(inst.a)),
             Checked(getMulOverflowCondition(inst.a, inst.b, q)),
             selects' = SelectOn("a", inst.a) \o SelectOn("b", inst.b)
      PROVE  NumericInv'
  <2>1. PICK taken \in BOOLEAN :
          /\ taken <=> Overflow("Mul", inst.a, inst.b)
          /\ Checked(taken)
    <3>1. getMulOverflowCondition(inst.a, inst.b, q) \in BOOLEAN
      BY DEF getMulOverflowCondition
    <3>2. getMulOverflowCondition(inst.a, inst.b, q) <=> Overflow("Mul", inst.a, inst.b)
      BY <1>3, MulExact
    <3> QED BY <1>6, <3>1, <3>2, Zenon
  <2>2. Right(inst, [check |-> block, taken |-> taken])
    BY <1>1, <2>1 DEF Right, FPOp
  <2>3. Len(selects') = SelectCount(inst)
    <3>0. inst.op \in IntOp
      BY <1>1 DEF IntOp
    <3>1. CASE inst.constant = {}
      <4>1. selects' = <<inst.a # 0>> \o <<inst.b # 0>>
        BY <1>4, <1>6, <3>1
      <4>2. Len(selects') = 2
        BY <4>1
      <4> QED BY <1>1, <3>1, <4>2 DEF SelectCount, Selects
    <3>2. CASE inst.constant = {"a"}
      <4>1. selects' = << >> \o <<inst.b # 0>>
        BY <1>4, <1>6, <3>2
      <4>2. Len(selects') = 1
        BY <4>1
      <4> QED BY <3>0, <3>2, <4>2 DEF SelectCount, Selects
    <3>3. CASE inst.constant = {"b"}
      <4>1. selects' = <<inst.a # 0>> \o << >>
        BY <1>4, <1>6, <3>3
      <4>2. Len(selects') = 1
        BY <4>1
      <4> QED BY <3>0, <3>3, <4>2 DEF SelectCount, Selects
    <3> QED BY <1>5, <3>1, <3>2, <3>3
  <2> QED BY <1>1, <2>1, <2>2, <2>3, CheckedKeeps
<1>7. ASSUME DivisionTraps("SDiv", inst.res, MulDivisor(inst.a)), block' = "trap",
             selects' = SelectOn("a", inst.a), UNCHANGED <<body, checker, inst, pushed>>
      PROVE  NumericInv'
  <2>1. inst.a = Modulus - 1 /\ inst.b = Half
    BY <1>3, <1>7, MulTraps
  <2>2. inst.a # 0
    BY <2>1, WrapNear
  <2>3. \A k \in DOMAIN selects' : k = 1 /\ selects'[k]
    <3>1. \/ selects' = << >>
          \/ selects' = <<inst.a # 0>>
      BY <1>7 DEF SelectOn
    <3>2. CASE selects' = << >>
      <4>1. DOMAIN selects' = {}
        BY <3>2
      <4> QED BY <4>1
    <3>3. CASE selects' = <<inst.a # 0>>
      <4>1. DOMAIN selects' = {1} /\ selects'[1] = (inst.a # 0)
        BY <3>3
      <4> QED BY <2>2, <4>1
    <3> QED BY <3>1, <3>2, <3>3
  <2>4. Trapped'
    BY <1>1, <1>2, <1>7, <2>1, <2>3 DEF Trapped, IntOp
  <2> QED BY <1>2, <1>7, <2>4 DEF NumericInv
<1> QED BY <1>6, <1>7 DEF CheckMul

LEMMA CheckDivisorKeeps ==
  ASSUME NumericInv, CheckDivisor
  PROVE  NumericInv'
<1>1. block = "overflow_check" /\ inst.op \in {"UDiv", "SDiv"}
  BY DEF CheckDivisor
<1>2. PICK taken \in BOOLEAN : Checked(taken) /\ (taken => inst.b = 0)
  BY DEF CheckDivisor
<1>3. Right(inst, [check |-> block, taken |-> taken])
  BY <1>1, <1>2 DEF Right, FPOp
<1>4. UNCHANGED selects /\ SelectCount(inst) = 0
  BY <1>1, InCheck, NoSelects DEF CheckDivisor, Checking
<1> QED BY <1>1, <1>2, <1>3, <1>4, CheckedKeeps

LEMMA CheckBoundKeeps ==
  ASSUME NumericInv, CheckBound
  PROVE  NumericInv'
<1>1. /\ inst.op \in IntOp /\ Checked(BoundCondition(block, inst.res))
      /\ block \in {IntBlocks[k] : k \in 2..Len(IntBlocks)}
  BY DEF CheckBound
<1>2. block \in {"signed_bound_check", "unsigned_bound_check", "signed_minus_bound_check",
                 "max_bound_check", "min_bound_check", "signed_max_bound_check",
                 "signed_min_bound_check"}
  <2>1. Len(IntBlocks) = 8
    BY DEF IntBlocks
  <2>2. PICK k \in 2..8 : block = IntBlocks[k]
    BY <1>1, <2>1
  <2>3. k = 2 \/ k = 3 \/ k = 4 \/ k = 5 \/ k = 6 \/ k = 7 \/ k = 8
    OBVIOUS
  <2> QED BY <2>2, <2>3 DEF IntBlocks
<1>3. Right(inst, [check |-> block, taken |-> BoundCondition(block, inst.res)])
  BY <1>1, <1>2 DEF Right, FPOp, IntOp
<1>4. UNCHANGED selects
  BY DEF CheckBound
<1> QED BY <1>1, <1>2, <1>3, <1>4, CheckedKeeps

LEMMA CheckFPKeeps ==
  ASSUME NumericInv, CheckFP
  PROVE  NumericInv'
<1>1. /\ inst.op \in FPOp /\ Checked(FPCondition(block, inst.op, inst.b, inst.res))
      /\ block \in {FPBlocks[k] : k \in 1..Len(FPBlocks)}
  BY DEF CheckFP
<1>2. block \in {"overflow_check", "bound_check", "devided_by_zero_check",
                 "minus_bound_check", "max_bound_check", "min_bound_check"}
  <2>1. Len(FPBlocks) = 6
    BY DEF FPBlocks
  <2>2. PICK k \in 1..6 : block = FPBlocks[k]
    BY <1>1, <2>1
  <2>3. k = 1 \/ k = 2 \/ k = 3 \/ k = 4 \/ k = 5 \/ k = 6
    OBVIOUS
  <2> QED BY <2>2, <2>3 DEF FPBlocks
<1>3. PICK taken \in BOOLEAN : /\ Checked(taken)
                               /\ taken <=> FPCondition(block, inst.op, inst.b, inst.res)
  <2>1. FPCondition(block, inst.op, inst.b, inst.res) \in BOOLEAN
    BY <1>2 DEF FPCondition, getOverflowCond, OGT, OLT, OEQ
  <2> QED BY <1>1, <2>1, Zenon
<1>4. block = "overflow_check" => (taken <=> inst.res \in {-Infinity, Infinity})
  <2>1. Infinity # NotANumber /\ -Infinity # NotANumber
    BY NumericAssumption
  <2> QED BY <1>3, <2>1 DEF FPCondition, getOverflowCond, OEQ
<1>5. inst.res = NotANumber /\ taken
        => block = "devided_by_zero_check" /\ inst.op = "FDiv" /\ inst.b = 0
  BY <1>2, <1>3 DEF FPCondition, getOverflowCond, OGT, OLT, OEQ
<1>6. Right(inst, [check |-> block, taken |-> taken])
  BY <1>1, <1>4, <1>5 DEF Right, FPOp
<1>7. UNCHANGED selects /\ SelectCount(inst) = 0
  <2>1. inst.op # "Mul"
    BY <1>1 DEF FPOp
  <2> QED BY <1>2, <2>1, InCheck, NoSelects DEF CheckFP, Checking
<1> QED BY <1>2, <1>3, <1>6, <1>7, CheckedKeeps

LEMMA ContinueKeeps ==
  ASSUME NumericInv, Continue
  PROVE  NumericInv'
BY DEF NumericInv, Continue, Idle

LEMMA NumericStep ==
  ASSUME NumericInv, [NumericNext]_numericVars
  PROVE  NumericInv'
<1>1. CASE OverflowCheckerPass \/ ExecuteInt \/ ExecuteFP
  BY <1>1, PassKeeps, ExecuteIntKeeps, ExecuteFPKeeps
<1>2. CASE CheckAddSub \/ CheckMul \/ CheckDivisor \/ CheckBound \/ CheckFP
  BY <1>2, CheckAddSubKeeps, CheckMulKeeps, CheckDivisorKeeps, CheckBoundKeeps, CheckFPKeeps
<1>3. CASE Continue
  BY <1>3, ContinueKeeps
<1>4. CASE UNCHANGED numericVars
  BY <1>4 DEF numericVars, NumericInv, Idle, Trapped, Checking, SelectCount
<1> QED BY <1>1, <1>2, <1>3, <1>4 DEF NumericNext

LEMMA NumericInvariance == NumericSpec => []NumericInv
<1>1. NumericInit => NumericInv
  BY DEF NumericInit, NumericInv, Idle
<1>2. NumericInv /\ [NumericNext]_numericVars => NumericInv'
  BY NumericStep
<1> QED BY <1>1, <1>2, PTL DEF NumericSpec

\* The overflow checks agree with the mathematical result of the instruction, and
\* the floating-point checks with its class, for integers of every width.
THEOREM ChecksAreExactAlways == NumericSpec => []ChecksAreExact
<1>1. NumericInv => ChecksAreExact
  <2> SUFFICES ASSUME NumericInv PROVE ChecksAreExact
    OBVIOUS
  <2>1. \A k \in DOMAIN pushed : Right(inst, pushed[k])
    <3>1. CASE Idle \/ Trapped
      BY <3>1 DEF Idle, Trapped
    <3>2. CASE Checking
      <4>1. DOMAIN pushed = 1..Len(pushed)
        BY <3>2 DEF Checking, IsSeq
      <4> QED BY <3>2, <4>1 DEF Checking
    <3> QED BY <3>1, <3>2 DEF NumericInv
  <2>2. inst.op \in {"Add", "Sub", "Mul"} /\ Passed("overflow_check") =>
          (Taken("overflow_check") <=> Overflow(inst.op, inst.a, inst.b))
    BY <2>1 DEF Passed, Taken, Right
  <2>3. inst.op \in {"UDiv", "SDiv"} /\ Taken("overflow_check") => inst.b = 0
    BY <2>1 DEF Taken, Right
  <2>4. inst.op \in FPOp /\ Passed("overflow_check") =>
          (Taken("overflow_check") <=> inst.res \in {-Infinity, Infinity})
    BY <2>1 DEF Passed, Taken, Right
  <2>5. ASSUME inst.op \in FPOp, inst.res = NotANumber, NEW b, Taken(b)
        PROVE  b = "devided_by_zero_check" /\ inst.op = "FDiv" /\ inst.b = 0
    BY <2>1, <2>5 DEF Taken, Right
  <2> QED BY <2>2, <2>3, <2>4, <2>5 DEF ChecksAreExact
<1> QED BY <1>1, NumericInvariance, PTL

\* The checks on a path, as sets, and how many there are.
IntPassed == {"overflow_check", "signed_bound_check", "unsigned_bound_check",
              "signed_minus_bound_check", "max_bound_check",
              "signed_max_bound_check", "signed_min_bound_check"}
FPPassed == {"overflow_check", "bound_check", "devided_by_zero_check",
             "minus_bound_check", "max_bound_check", "min_bound_check"}

LEMMA IntPassedCount == IsFiniteSet(IntPassed) /\ Cardinality(IntPassed) = 7
<1> DEFINE c1 == {"overflow_check"}
           c2 == c1 \cup {"signed_bound_check"}
           c3 == c2 \cup {"unsigned_bound_check"}
           c4 == c3 \cup {"signed_minus_bound_check"}
           c5 == c4 \cup {"max_bound_check"}
           c6 == c5 \cup {"signed_max_bound_check"}
           c7 == c6 \cup {"signed_min_bound_check"}
<1>1. IsFiniteSet(c1) /\ Cardinality(c1) = 1
  BY FS_Singleton
<1>2. IsFiniteSet(c2) /\ Cardinality(c2) = 2
  <2>1. "signed_bound_check" \notin c1
    OBVIOUS
  <2> HIDE DEF c1
  <2> QED BY <1>1, <2>1, FS_AddElement
<1>3. IsFiniteSet(c3) /\ Cardinality(c3) = 3
  <2>1. "unsigned_bound_check" \notin c2
    OBVIOUS
  <2> HIDE DEF c2
  <2> QED BY <1>2, <2>1, FS_AddElement
<1>4. IsFiniteSet(c4) /\ Cardinality(c4) = 4
  <2>1. "signed_minus_bound_check" \notin c3
    OBVIOUS
  <2> HIDE DEF c3
  <2> QED BY <1>3, <2>1, FS_AddElement
<1>5. IsFiniteSet(c5) /\ Cardinality(c5) = 5
  <2>1. "max_bound_check" \notin c4
    OBVIOUS
  <2> HIDE DEF c4
  <2> QED BY <1>4, <2>1, FS_AddElement
<1>6. IsFiniteSet(c6) /\ Cardinality(c6) = 6
  <2>1. "signed_max_bound_check" \notin c5
    OBVIOUS
  <2> HIDE DEF c5
  <2> QED BY <1>5, <2>1, FS_AddElement
<1>7. IsFiniteSet(c7) /\ Cardinality(c7) = 7
  <2>1. "signed_min_bound_check" \notin c6
    OBVIOUS
  <2> HIDE DEF c6
  <2> QED BY <1>6, <2>1, FS_AddElement
<1>8. c7 = IntPassed
  BY DEF IntPassed
<1> HIDE DEF c7
<1> QED BY <1>7, <1>8

LEMMA FPPassedCount == IsFiniteSet(FPPassed) /\ Cardinality(FPPassed) = 6
<1> DEFINE c1 == {"overflow_check"}
           c2 == c1 \cup {"bound_check"}
           c3 == c2 \cup {"devided_by_zero_check"}
           c4 == c3 \cup {"minus_bound_check"}
           c5 == c4 \cup {"max_bound_check"}
           c6 == c5 \cup {"min_bound_check"}
<1>1. IsFiniteSet(c1) /\ Cardinality(c1) = 1
  BY FS_Singleton
<1>2. IsFiniteSet(c2) /\ Cardinality(c2) = 2
  <2>1. "bound_check" \notin c1
    OBVIOUS
  <2> HIDE DEF c1
  <2> QED BY <1>1, <2>1, FS_AddElement
<1>3. IsFiniteSet(c3) /\ Cardinality(c3) = 3
  <2>1. "devided_by_zero_check" \notin c2
    OBVIOUS
  <2> HIDE DEF c2
  <2> QED BY <1>2, <2>1, FS_AddElement
<1>4. IsFiniteSet(c4) /\ Cardinality(c4) = 4
  <2>1. "minus_bound_check" \notin c3
    OBVIOUS
  <2> HIDE DEF c3
  <2> QED BY <1>3, <2>1, FS_AddElement
<1>5. IsFiniteSet(c5) /\ Cardinality(c5) = 5
  <2>1. "max_bound_check" \notin c4
    OBVIOUS
  <2> HIDE DEF c4
  <2> QED BY <1>4, <2>1, FS_AddElement
<1>6. IsFiniteSet(c6) /\ Cardinality(c6) = 6
  <2>1. "min_bound_check" \notin c5
    OBVIOUS
  <2> HIDE DEF c5
  <2> QED BY <1>5, <2>1, FS_AddElement
<1>7. c6 = FPPassed
  BY DEF FPPassed
<1> HIDE DEF c6
<1> QED BY <1>6, <1>7

\* Apart from the trap that a multiplication of -1 and the least integer adds, the
\* checks change nothing, and the program goes on only behind all of them.
THEOREM ChecksAreTransparentAlways == NumericSpec => []ChecksAreTransparent
<1>1. NumericInv => ChecksAreTransparent
  <2> SUFFICES ASSUME NumericInv PROVE ChecksAreTransparent
    OBVIOUS
  <2>1. block = "trap" =>
          /\ pushed = << >>
          /\ \/ DivisionTraps(inst.op, inst.a, inst.b) /\ selects = << >>
             \/ /\ inst.op = "Mul" /\ inst.a = Modulus - 1 /\ inst.b = Half
                /\ \A k \in DOMAIN selects : k = 1 /\ selects[k]
    BY InBlocks DEF NumericInv, Idle, Trapped
  <2>2. ASSUME block = "origin_cont", NEW all, NEW skipped,
               all = {CheckedBy(inst.op)[k] : k \in DOMAIN CheckedBy(inst.op)},
               skipped = IF inst.op \in IntOp THEN {"min_bound_check"} ELSE {}
        PROVE  /\ {pushed[k].check : k \in DOMAIN pushed} = all \ skipped
               /\ Len(pushed) = Cardinality(all \ skipped)
    <3>1. Checking /\ inst.op \in IntOp \cup FPOp /\ Len(pushed) + 1 = End(inst.op)
      BY <2>2, InCheck
    <3>2. /\ DOMAIN pushed = 1..Len(pushed) /\ Len(pushed) \in Nat
          /\ \A k \in 1..Len(pushed) : pushed[k].check = Path(inst.op)[k]
      BY <3>1 DEF Checking, IsSeq
    <3>3. {pushed[k].check : k \in DOMAIN pushed} = {Path(inst.op)[k] : k \in 1..Len(pushed)}
      BY <3>2
    <3>4. CASE inst.op \in IntOp
      <4>1. Len(pushed) = 7
        BY <3>1, <3>2, <3>4 DEF End
      <4>2. {Path(inst.op)[k] : k \in 1..7} = IntPassed
        <5>1. 1..7 = {1, 2, 3, 4, 5, 6, 7}
          OBVIOUS
        <5> QED BY <3>4, <5>1 DEF Path, IntPassed
      <4>3. all = IntPassed \cup {"min_bound_check"}
        <5>1. CheckedBy(inst.op) = IntBlocks
          BY <3>4 DEF CheckedBy, IntInst, IntOp, FPOp
        <5>2. DOMAIN IntBlocks = {1, 2, 3, 4, 5, 6, 7, 8}
          BY DEF IntBlocks
        <5> QED BY <2>2, <5>1, <5>2 DEF IntBlocks, IntPassed
      <4>4. all \ skipped = IntPassed
        BY <2>2, <3>4, <4>3 DEF IntPassed
      <4> QED BY <3>3, <4>1, <4>2, <4>4, IntPassedCount
    <3>5. CASE inst.op \in FPOp
      <4>0. inst.op \notin IntOp
        BY <3>5 DEF IntOp, FPOp
      <4>1. Len(pushed) = 6
        BY <3>1, <3>2, <4>0 DEF End
      <4>2. {Path(inst.op)[k] : k \in 1..6} = FPPassed
        <5>1. 1..6 = {1, 2, 3, 4, 5, 6}
          OBVIOUS
        <5> QED BY <4>0, <5>1 DEF Path, FPPassed
      <4>3. all = FPPassed
        <5>1. CheckedBy(inst.op) = FPBlocks
          BY <3>5 DEF CheckedBy, IntInst, IntOp, FPOp
        <5>2. DOMAIN FPBlocks = {1, 2, 3, 4, 5, 6}
          BY DEF FPBlocks
        <5> QED BY <2>2, <5>1, <5>2 DEF FPBlocks, FPPassed
      <4>4. all \ skipped = FPPassed
        BY <2>2, <4>0, <4>3
      <4> QED BY <3>3, <4>1, <4>2, <4>4, FPPassedCount
    <3> QED BY <3>1, <3>4, <3>5
  <2>3. ASSUME block = "origin_cont" PROVE Len(selects) = SelectCount(inst)
    <3>1. Checking /\ inst.op \in IntOp \cup FPOp /\ Len(pushed) + 1 = End(inst.op)
      BY <2>3, InCheck
    <3>2. pushed # << >>
      BY <3>1 DEF End
    <3> QED BY <3>1, <3>2 DEF Checking
  <2> QED BY <2>1, <2>2, <2>3 DEF ChecksAreTransparent, SelectCount
<1> QED BY <1>1, NumericInvariance, PTL

-------------------------------------------------------------------------------
(* The slots of the branches. *)

\* Instructions of a kind are counted in their order.
LEMMA BeforeCounts ==
  ASSUME NEW ops, NEW i \in Nat, NEW j \in Nat, i <= j
  PROVE  /\ Before(i, ops) \in Nat /\ Before(j, ops) \in Nat
         /\ Before(i, ops) <= Before(j, ops)
         /\ i \in Nat \ {0} /\ i < j /\ body[i] \in ops => Before(i, ops) + 1 <= Before(j, ops)
<1> DEFINE S(n) == {x \in 1..(n - 1) : body[x] \in ops}
<1>1. \A n \in Nat : IsFiniteSet(S(n)) /\ Cardinality(S(n)) \in Nat
  <2> SUFFICES ASSUME NEW n \in Nat
               PROVE  IsFiniteSet(S(n)) /\ Cardinality(S(n)) \in Nat
    OBVIOUS
  <2>1. IsFiniteSet(1..(n - 1)) /\ S(n) \in SUBSET (1..(n - 1))
    BY FS_Interval
  <2> HIDE DEF S
  <2> QED BY <2>1, FS_Subset, FS_CardinalityType
<1>2. S(i) \in SUBSET S(j)
  OBVIOUS
<1>3. Cardinality(S(i)) <= Cardinality(S(j))
  <2> HIDE DEF S
  <2> QED BY <1>1, <1>2, FS_Subset
<1>4. ASSUME i \in Nat \ {0}, i < j, body[i] \in ops
      PROVE  Cardinality(S(i)) + 1 <= Cardinality(S(j))
  <2>1. i \notin S(i) /\ S(i) \cup {i} \in SUBSET S(j)
    BY <1>4
  <2> HIDE DEF S
  <2>2. Cardinality(S(i) \cup {i}) = Cardinality(S(i)) + 1
    BY <1>1, <2>1, FS_AddElement
  <2>3. Cardinality(S(i) \cup {i}) <= Cardinality(S(j))
    BY <1>1, <2>1, FS_Subset
  <2> QED BY <2>2, <2>3
<1>5. Before(i, ops) = Cardinality(S(i)) /\ Before(j, ops) = Cardinality(S(j))
  BY DEF Before
<1> QED BY <1>1, <1>3, <1>4, <1>5

\* The checks of an integer instruction take a number each, and so do its selects.
LEMMA IntNumbersCount ==
  ASSUME NEW i \in Nat, NEW j \in Nat, i <= j
  PROVE  /\ IntNumbers(i) \in Nat /\ IntNumbers(j) \in Nat
         /\ i \in Nat \ {0} /\ i < j /\ body[i] \in IntInst =>
              IntNumbers(i) + 8 + Selects(body[i]) <= IntNumbers(j)
<1>1. Len(IntBlocks) = 8
  BY DEF IntBlocks
<1>2. PICK ai \in Nat, aj \in Nat, mi \in Nat, mj \in Nat, ci \in Nat, cj \in Nat :
        /\ ai = Before(i, IntInst) /\ aj = Before(j, IntInst) /\ ai <= aj
        /\ mi = Before(i, {"Mul"}) /\ mj = Before(j, {"Mul"}) /\ mi <= mj
        /\ ci = Before(i, {"MulConst"}) /\ cj = Before(j, {"MulConst"}) /\ ci <= cj
        /\ i \in Nat \ {0} /\ i < j =>
             /\ body[i] \in IntInst => ai + 1 <= aj
             /\ body[i] \in {"Mul"} => mi + 1 <= mj
             /\ body[i] \in {"MulConst"} => ci + 1 <= cj
  <2>1. /\ Before(i, IntInst) \in Nat /\ Before(j, IntInst) \in Nat
        /\ Before(i, IntInst) <= Before(j, IntInst)
        /\ i \in Nat \ {0} /\ i < j /\ body[i] \in IntInst =>
             Before(i, IntInst) + 1 <= Before(j, IntInst)
    BY BeforeCounts
  <2>2. /\ Before(i, {"Mul"}) \in Nat /\ Before(j, {"Mul"}) \in Nat
        /\ Before(i, {"Mul"}) <= Before(j, {"Mul"})
        /\ i \in Nat \ {0} /\ i < j /\ body[i] \in {"Mul"} =>
             Before(i, {"Mul"}) + 1 <= Before(j, {"Mul"})
    BY BeforeCounts
  <2>3. /\ Before(i, {"MulConst"}) \in Nat /\ Before(j, {"MulConst"}) \in Nat
        /\ Before(i, {"MulConst"}) <= Before(j, {"MulConst"})
        /\ i \in Nat \ {0} /\ i < j /\ body[i] \in {"MulConst"} =>
             Before(i, {"MulConst"}) + 1 <= Before(j, {"MulConst"})
    BY BeforeCounts
  <2> QED BY <2>1, <2>2, <2>3
<1>3. IntNumbers(i) = 8 * ai + 2 * mi + ci /\ IntNumbers(j) = 8 * aj + 2 * mj + cj
  BY <1>1, <1>2 DEF IntNumbers
<1>4. CASE body[i] = "Mul"
  BY <1>2, <1>3, <1>4 DEF Selects
<1>5. CASE body[i] = "MulConst"
  BY <1>2, <1>3, <1>5 DEF Selects
<1>6. CASE body[i] \notin {"Mul", "MulConst"}
  BY <1>2, <1>3, <1>6 DEF Selects
<1> QED BY <1>4, <1>5, <1>6

\* The place of a site among the numbers of its instruction.
Place(s) == Selects(body[s[1]]) + (IF s[2] < 0 THEN s[2] ELSE s[2] - 1)

\* The sites: what they are, and where their numbers lie.
LEMMA SiteIs ==
  ASSUME body \in Seq(Instruction), NEW s \in Site
  PROVE  /\ s = <<s[1], s[2]>> /\ s[1] \in 1..Len(body) /\ s[2] \in -2..8
         /\ \/ body[s[1]] \in Own /\ s[2] = 0 /\ ID(s) = Before(s[1], Own)
            \/ /\ body[s[1]] \in IntInst /\ body[s[1]] \notin Own
               /\ s[2] # 0 /\ s[2] >= -Selects(body[s[1]])
               /\ ID(s) = All(Own) + IntNumbers(s[1]) + Place(s)
            \/ /\ body[s[1]] \in FPOp /\ body[s[1]] \notin Own \cup IntInst /\ s[2] \in 1..6
               /\ ID(s) = All(Own) + IntNumbers(Len(body) + 1)
                            + 6 * Before(s[1], FPOp) + (s[2] - 1)
<1>1. Len(IntBlocks) = 8 /\ Len(FPBlocks) = 6
  BY DEF IntBlocks, FPBlocks
<1>2. /\ s \in (1..Len(body)) \X (-2..8)
      /\ IF body[s[1]] \in Own THEN s[2] = 0
         ELSE \/ s[2] \in 1..Len(CheckedBy(body[s[1]]))
              \/ s[2] < 0 /\ s[2] >= -Selects(body[s[1]])
  BY <1>1 DEF Site
<1>3. s = <<s[1], s[2]>> /\ s[1] \in 1..Len(body) /\ s[2] \in -2..8
  BY <1>2
<1>4. CASE body[s[1]] \in Own
  <2>1. body[s[1]] \notin IntInst \cup FPOp
    BY <1>4 DEF Own, IntInst, IntOp, FPOp
  <2>2. ID(s) = Before(s[1], Own)
    BY <1>4, <2>1 DEF ID
  <2> QED BY <1>2, <1>3, <1>4, <2>2
<1>5. CASE body[s[1]] \in IntInst
  <2>1. body[s[1]] \notin Own /\ body[s[1]] \notin FPOp
    BY <1>5 DEF IntInst, IntOp, Own, FPOp
  <2>2. s[2] # 0 /\ s[2] >= -Selects(body[s[1]])
    <3>1. Selects(body[s[1]]) \in 0..2
      BY DEF Selects
    <3> QED BY <1>2, <1>3, <2>1, <3>1
  <2>3. ID(s) = All(Own) + IntNumbers(s[1]) + Selects(body[s[1]])
                  + (IF s[2] < 0 THEN s[2] ELSE s[2] - 1)
    BY <1>5, <2>1 DEF ID
  <2>4. All(Own) \in Nat /\ IntNumbers(s[1]) \in Nat /\ Selects(body[s[1]]) \in Nat
    <3>1. s[1] \in Nat /\ s[1] <= s[1] /\ Len(body) + 1 \in Nat /\ Len(body) + 1 <= Len(body) + 1
      BY <1>3
    <3>2. All(Own) \in Nat
      BY <3>1, BeforeCounts DEF All
    <3>3. IntNumbers(s[1]) \in Nat
      BY <3>1, IntNumbersCount
    <3> QED BY <3>2, <3>3 DEF Selects
  <2>5. ID(s) = All(Own) + IntNumbers(s[1]) + Place(s)
    BY <1>3, <2>3, <2>4 DEF Place
  <2> QED BY <1>3, <1>5, <2>1, <2>2, <2>5
<1>6. CASE body[s[1]] \in FPOp
  <2>1. body[s[1]] \notin Own \cup IntInst
    BY <1>6 DEF IntInst, IntOp, FPOp, Own
  <2>2. s[2] \in 1..6
    <3>1. Selects(body[s[1]]) = 0
      BY <1>6 DEF Selects, FPOp
    <3>2. CheckedBy(body[s[1]]) = FPBlocks
      BY <1>6, <2>1 DEF CheckedBy
    <3>3. s[2] \in 1..Len(FPBlocks) \/ (s[2] < 0 /\ s[2] >= 0)
      BY <1>2, <2>1, <3>1, <3>2
    <3> QED BY <1>1, <1>3, <3>3
  <2>3. ID(s) = All(Own) + IntNumbers(Len(body) + 1) + 6 * Before(s[1], FPOp) + (s[2] - 1)
    BY <1>1, <1>6, <2>1 DEF ID
  <2> QED BY <1>3, <1>6, <2>1, <2>2, <2>3
<1>7. CASE body[s[1]] \notin Own \cup IntInst \cup FPOp
  <2>1. CheckedBy(body[s[1]]) = << >> /\ Len(<< >>) = 0
    BY <1>7 DEF CheckedBy
  <2>2. Selects(body[s[1]]) = 0
    BY <1>7 DEF Selects, IntInst, IntOp
  <2> QED BY <1>2, <1>3, <1>7, <2>1, <2>2
<1> QED BY <1>4, <1>5, <1>6, <1>7

\* The numbers of the sites are below NextID, and no two have the same.
LEMMA IDsDiffer ==
  ASSUME body \in Seq(Instruction), NEW s \in Site, NEW t \in Site
  PROVE  /\ ID(s) \in Nat /\ ID(t) \in Nat /\ NextID \in Nat /\ ID(s) < NextID
         /\ ID(s) = ID(t) => s = t
<1>1. PICK i \in Nat \ {0}, j \in Nat \ {0}, k \in -2..8, l \in -2..8, n \in Nat :
        i = s[1] /\ j = t[1] /\ k = s[2] /\ l = t[2] /\ n = Len(body) /\ i <= n /\ j <= n
        /\ s = <<i, k>> /\ t = <<j, l>>
  <2>1. Len(body) \in Nat
    OBVIOUS
  <2>2. s = <<s[1], s[2]>> /\ s[1] \in 1..Len(body) /\ s[2] \in -2..8
    BY SiteIs
  <2>3. t = <<t[1], t[2]>> /\ t[1] \in 1..Len(body) /\ t[2] \in -2..8
    BY SiteIs
  <2>4. s[1] \in Nat \ {0} /\ t[1] \in Nat \ {0} /\ s[1] <= Len(body) /\ t[1] <= Len(body)
    BY <2>1, <2>2, <2>3
  <2> QED BY <2>1, <2>2, <2>3, <2>4, Zenon
<1>2. ASSUME NEW ops
      PROVE  /\ Before(i, ops) \in Nat /\ Before(j, ops) \in Nat /\ All(ops) \in Nat
             /\ body[i] \in ops => Before(i, ops) + 1 <= All(ops)
             /\ body[j] \in ops => Before(j, ops) + 1 <= All(ops)
             /\ i < j /\ body[i] \in ops => Before(i, ops) + 1 <= Before(j, ops)
             /\ j < i /\ body[j] \in ops => Before(j, ops) + 1 <= Before(i, ops)
  <2>1. All(ops) = Before(n + 1, ops) /\ n + 1 \in Nat /\ i <= n + 1 /\ j <= n + 1
        /\ i < n + 1 /\ j < n + 1
    BY <1>1 DEF All
  <2>2. CASE i <= j
    BY <2>1, <2>2, BeforeCounts
  <2>3. CASE j <= i
    BY <2>1, <2>3, BeforeCounts
  <2> QED BY <2>2, <2>3
<1>3. PICK o \in Nat, f \in Nat : o = All(Own) /\ f = All(FPOp)
  BY <1>2
<1>4. PICK a \in Nat, ai \in Nat, aj \in Nat, ci \in 0..2, cj \in 0..2 :
        /\ a = IntNumbers(n + 1) /\ ai = IntNumbers(i) /\ aj = IntNumbers(j)
        /\ ci = Selects(body[i]) /\ cj = Selects(body[j])
        /\ body[i] \in IntInst => /\ ai + 8 + ci <= a
                                  /\ i < j => ai + 8 + ci <= aj
        /\ body[j] \in IntInst => /\ aj + 8 + cj <= a
                                  /\ j < i => aj + 8 + cj <= ai
  <2>1. n + 1 \in Nat /\ i <= n + 1 /\ i < n + 1 /\ j <= n + 1 /\ j < n + 1
    BY <1>1
  <2>2. /\ IntNumbers(i) \in Nat /\ IntNumbers(n + 1) \in Nat
        /\ body[i] \in IntInst => IntNumbers(i) + 8 + Selects(body[i]) <= IntNumbers(n + 1)
    BY <2>1, IntNumbersCount
  <2>3. /\ IntNumbers(j) \in Nat
        /\ body[j] \in IntInst => IntNumbers(j) + 8 + Selects(body[j]) <= IntNumbers(n + 1)
    BY <2>1, IntNumbersCount
  <2>4. body[i] \in IntInst /\ i < j => IntNumbers(i) + 8 + Selects(body[i]) <= IntNumbers(j)
    <3>1. CASE i < j
      BY <3>1, i <= j, IntNumbersCount
    <3> QED BY <3>1
  <2>5. body[j] \in IntInst /\ j < i => IntNumbers(j) + 8 + Selects(body[j]) <= IntNumbers(i)
    <3>1. CASE j < i
      BY <3>1, j <= i, IntNumbersCount
    <3> QED BY <3>1
  <2>6. Selects(body[i]) \in 0..2 /\ Selects(body[j]) \in 0..2
    BY DEF Selects
  <2> QED BY <2>2, <2>3, <2>4, <2>5, <2>6
<1>5. NextID = o + a + 6 * f
  <2>1. Len(FPBlocks) = 6
    BY DEF FPBlocks
  <2> QED BY <1>1, <1>3, <1>4, <2>1 DEF NextID
<1>6. PICK oi \in Nat, oj \in Nat, fi \in Nat, fj \in Nat :
        /\ oi = Before(i, Own) /\ oj = Before(j, Own)
        /\ fi = Before(i, FPOp) /\ fj = Before(j, FPOp)
  BY <1>2
<1>7. /\ body[i] \in Own => oi + 1 <= o /\ (i < j => oi + 1 <= oj)
      /\ body[j] \in Own => oj + 1 <= o /\ (j < i => oj + 1 <= oi)
      /\ body[i] \in FPOp => fi + 1 <= f /\ (i < j => fi + 1 <= fj)
      /\ body[j] \in FPOp => fj + 1 <= f /\ (j < i => fj + 1 <= fi)
  BY <1>2, <1>3, <1>6
<1> DEFINE p == ci + (IF k < 0 THEN k ELSE k - 1)
           q == cj + (IF l < 0 THEN l ELSE l - 1)
<1>8. \/ body[i] \in Own /\ k = 0 /\ ID(s) = oi
      \/ body[i] \in IntInst /\ k # 0 /\ k >= -ci /\ ID(s) = o + ai + p
      \/ body[i] \in FPOp /\ k \in 1..6 /\ ID(s) = o + a + 6 * fi + (k - 1)
  BY <1>1, <1>3, <1>4, <1>6, SiteIs DEF Place
<1>9. \/ body[j] \in Own /\ l = 0 /\ ID(t) = oj
      \/ body[j] \in IntInst /\ l # 0 /\ l >= -cj /\ ID(t) = o + aj + q
      \/ body[j] \in FPOp /\ l \in 1..6 /\ ID(t) = o + a + 6 * fj + (l - 1)
  BY <1>1, <1>3, <1>4, <1>6, SiteIs DEF Place
<1>10. /\ p \in Int /\ (k # 0 /\ k >= -ci => p >= 0 /\ p < 8 + ci)
       /\ q \in Int /\ (l # 0 /\ l >= -cj => q >= 0 /\ q < 8 + cj)
       /\ ci = cj /\ k # 0 /\ l # 0 /\ p = q => k = l
  OBVIOUS
<1> HIDE DEF p, q
<1>11. \/ body[i] \in Own /\ k = 0 /\ ID(s) = oi /\ oi < o
       \/ body[i] \in IntInst /\ k # 0 /\ ID(s) = o + ai + p /\ p >= 0 /\ ai + p < a
       \/ body[i] \in FPOp /\ k \in 1..6 /\ ID(s) = o + a + 6 * fi + (k - 1) /\ fi < f
  <2>1. CASE body[i] \in Own /\ k = 0 /\ ID(s) = oi
    <3>1. oi + 1 <= o
      BY <1>7, <2>1
    <3>2. oi < o
      BY <3>1
    <3> QED BY <2>1, <3>2
  <2>2. CASE body[i] \in IntInst /\ k # 0 /\ k >= -ci /\ ID(s) = o + ai + p
    <3>1. ai + 8 + ci <= a
      BY <1>4, <2>2
    <3>2. p \in Int /\ p >= 0 /\ p < 8 + ci
      BY <1>10, <2>2
    <3>3. ai + p < a
      BY <3>1, <3>2
    <3> QED BY <2>2, <3>2, <3>3
  <2>3. CASE body[i] \in FPOp /\ k \in 1..6 /\ ID(s) = o + a + 6 * fi + (k - 1)
    <3>1. fi + 1 <= f
      BY <1>7, <2>3
    <3>2. fi < f
      BY <3>1
    <3> QED BY <2>3, <3>2
  <2> QED BY <1>8, <2>1, <2>2, <2>3
<1>12. \/ body[j] \in Own /\ l = 0 /\ ID(t) = oj /\ oj < o
       \/ body[j] \in IntInst /\ l # 0 /\ ID(t) = o + aj + q /\ q >= 0 /\ aj + q < a
       \/ body[j] \in FPOp /\ l \in 1..6 /\ ID(t) = o + a + 6 * fj + (l - 1) /\ fj < f
  <2>1. CASE body[j] \in Own /\ l = 0 /\ ID(t) = oj
    <3>1. oj + 1 <= o
      BY <1>7, <2>1
    <3>2. oj < o
      BY <3>1
    <3> QED BY <2>1, <3>2
  <2>2. CASE body[j] \in IntInst /\ l # 0 /\ l >= -cj /\ ID(t) = o + aj + q
    <3>1. aj + 8 + cj <= a
      BY <1>4, <2>2
    <3>2. q \in Int /\ q >= 0 /\ q < 8 + cj
      BY <1>10, <2>2
    <3>3. aj + q < a
      BY <3>1, <3>2
    <3> QED BY <2>2, <3>2, <3>3
  <2>3. CASE body[j] \in FPOp /\ l \in 1..6 /\ ID(t) = o + a + 6 * fj + (l - 1)
    <3>1. fj + 1 <= f
      BY <1>7, <2>3
    <3>2. fj < f
      BY <3>1
    <3> QED BY <2>3, <3>2
  <2> QED BY <1>9, <2>1, <2>2, <2>3
<1>13. ID(s) \in Nat /\ ID(t) \in Nat /\ NextID \in Nat /\ ID(s) < NextID
  BY <1>5, <1>10, <1>11, <1>12
<1>14. ASSUME ID(s) = ID(t) PROVE i = j /\ k = l
  <2>1. CASE body[i] \in Own /\ k = 0 /\ ID(s) = oi /\ oi < o
    <3>1. body[j] \in Own /\ l = 0 /\ ID(t) = oj
      BY <1>10, <1>12, <1>14, <2>1
    <3>2. oi = oj
      BY <1>14, <2>1, <3>1
    <3>3. ~(i < j)
      BY <1>7, <2>1, <3>2
    <3>4. ~(j < i)
      BY <1>7, <3>1, <3>2
    <3>5. i = j
      BY <3>3, <3>4
    <3> QED BY <2>1, <3>1, <3>5
  <2>2. CASE body[i] \in IntInst /\ k # 0 /\ ID(s) = o + ai + p /\ p >= 0 /\ ai + p < a
    <3>1. body[j] \in IntInst /\ l # 0 /\ ID(t) = o + aj + q /\ q >= 0
      BY <1>10, <1>12, <1>14, <2>2
    <3>2. ai + p = aj + q
      <4>1. o + ai + p = o + aj + q
        BY <1>14, <2>2, <3>1, Zenon
      <4> QED BY <1>10, <4>1
    <3>3. p < 8 + ci /\ q < 8 + cj
      <4>1. body[i] \notin Own \cup FPOp /\ body[j] \notin Own \cup FPOp
        BY <2>2, <3>1 DEF IntInst, IntOp, Own, FPOp
      <4>2. k >= -ci /\ l >= -cj
        BY <1>8, <1>9, <4>1, Zenon
      <4> QED BY <1>10, <2>2, <3>1, <4>2
    <3>4. i = j
      <4>1. ~(i < j)
        <5>1. ASSUME i < j PROVE ai + 8 + ci <= aj
          BY <1>4, <2>2, <5>1
        <5> QED BY <1>10, <3>1, <3>2, <3>3, <5>1
      <4>2. ~(j < i)
        <5>1. ASSUME j < i PROVE aj + 8 + cj <= ai
          BY <1>4, <3>1, <5>1
        <5> QED BY <1>10, <2>2, <3>2, <3>3, <5>1
      <4> QED BY <4>1, <4>2
    <3>5. ai = aj /\ ci = cj
      BY <1>4, <3>4
    <3>6. p = q
      BY <1>10, <3>2, <3>5
    <3> QED BY <1>10, <2>2, <3>1, <3>4, <3>5, <3>6
  <2>3. CASE body[i] \in FPOp /\ k \in 1..6 /\ ID(s) = o + a + 6 * fi + (k - 1) /\ fi < f
    <3>1. body[j] \in FPOp /\ l \in 1..6 /\ ID(t) = o + a + 6 * fj + (l - 1)
      BY <1>10, <1>12, <1>14, <2>3
    <3>2. 6 * fi + k = 6 * fj + l
      <4>1. o + a + 6 * fi + (k - 1) = o + a + 6 * fj + (l - 1)
        BY <1>14, <2>3, <3>1, Zenon
      <4> QED BY <4>1
    <3>3. ~(i < j)
      <4>1. ASSUME i < j PROVE fi + 1 <= fj
        BY <1>7, <2>3, <4>1
      <4> QED BY <2>3, <3>1, <3>2, <4>1
    <3>4. ~(j < i)
      <4>1. ASSUME j < i PROVE fj + 1 <= fi
        BY <1>7, <3>1, <4>1
      <4> QED BY <2>3, <3>1, <3>2, <4>1
    <3>5. i = j
      BY <3>3, <3>4
    <3> QED BY <1>6, <3>2, <3>5
  <2> QED BY <1>11, <2>1, <2>2, <2>3
<1> QED BY <1>1, <1>13, <1>14

\* The kind of a check is a natural number.
LEMMA CheckTypeIs ==
  /\ \A op \in IntInst, k \in 1..8 : CheckType(op, k) \in Nat
  /\ \A op \in FPOp, k \in 1..6 : CheckType(op, k) \in Nat
<1>1. ASSUME NEW op \in IntInst, NEW k \in 1..8 PROVE CheckType(op, k) \in Nat
  <2>1. k \in {1, 2, 3, 4, 5, 6, 7, 8}
    OBVIOUS
  <2> QED BY <2>1 DEF CheckType
<1>2. ASSUME NEW op \in FPOp, NEW k \in 1..6 PROVE CheckType(op, k) \in Nat
  <2>1. k \in {1, 2, 3, 4, 5, 6} /\ op \notin IntInst
    BY DEF IntInst, IntOp, FPOp
  <2> QED BY <2>1 DEF CheckType
<1> QED BY <1>1, <1>2

\* A slot is the number of the site and a multiple of the stride.
Kind(s) == IF s[2] <= 0 THEN 0 ELSE CheckType(body[s[1]], s[2])

LEMMA SlotIs ==
  ASSUME body \in Seq(Instruction), NEW s \in Site
  PROVE  /\ Kind(s) \in Nat
         /\ body[s[1]] = "Loop" => Slot(s) = -1
         /\ body[s[1]] # "Loop" => Slot(s) = ID(s) + Stride * Kind(s)
<1>1. /\ s[2] \in -2..8
      /\ \/ body[s[1]] \in Own /\ s[2] = 0
         \/ body[s[1]] \in IntInst /\ body[s[1]] \notin Own
         \/ body[s[1]] \in FPOp /\ body[s[1]] \notin Own \cup IntInst /\ s[2] \in 1..6
  BY SiteIs
<1>2. CASE body[s[1]] = "Loop"
  <2>1. s[2] = 0
    BY <1>1, <1>2 DEF Own, IntInst, IntOp, FPOp
  <2> QED BY <1>2, <2>1 DEF Slot, Kind
<1>3. CASE body[s[1]] # "Loop" /\ s[2] <= 0
  <2>1. Slot(s) = ID(s) /\ ID(s) \in Nat /\ Kind(s) = 0
    BY <1>1, <1>3, IDsDiffer DEF Slot, Kind
  <2>2. Stride * 0 = 0
    BY NumericAssumption
  <2> QED BY <1>3, <2>1, <2>2
<1>4. CASE body[s[1]] # "Loop" /\ ~(s[2] <= 0)
  <2>1. s[2] > 0 /\ s[2] \in 1..8 /\ s[2] # 0
    BY <1>1, <1>4
  <2>2. Kind(s) = CheckType(body[s[1]], s[2]) /\ Kind(s) \in Nat
    BY <1>1, <1>4, <2>1, CheckTypeIs DEF Kind
  <2>3. Slot(s) = ID(s) + Stride * CheckType(body[s[1]], s[2])
    BY <1>4, <2>1 DEF Slot
  <2> QED BY <1>4, <2>2, <2>3
<1> QED BY <1>2, <1>3, <1>4

\* The slots name the branches of every function, whatever the stride: two
\* branches share one only if they are loops or too many lie between them.
\* (Symbolizer::visitBranchInst)
THEOREM SlotsIdentifyBranchesAlways == NumericSpec => []SlotsIdentifyBranches
<1>1. NumericInv => SlotsIdentifyBranches
  <2> SUFFICES ASSUME NumericInv, NEW s \in Site, NEW t \in Site
               PROVE  /\ body[s[1]] # "Loop" /\ NextID <= Stride =>
                           /\ Slot(s) % Stride = ID(s) /\ Slot(s) \div Stride = Kind(s)
                      /\ s # t /\ Slot(s) = Slot(t) =>
                           \/ body[s[1]] = "Loop" /\ body[t[1]] = "Loop"
                           \/ ID(s) - ID(t) >= Stride \/ ID(t) - ID(s) >= Stride
    BY DEF SlotsIdentifyBranches, Kind
  <2>1. body \in Seq(Instruction)
    BY DEF NumericInv
  <2>2. PICK x \in Nat, y \in Nat, c \in Nat, d \in Nat, m \in Nat \ {0}, n \in Nat :
          /\ x = ID(s) /\ y = ID(t) /\ c = Kind(s) /\ d = Kind(t) /\ m = Stride /\ n = NextID
          /\ x < n /\ (x = y => s = t)
    <3>1. /\ ID(s) \in Nat /\ ID(t) \in Nat /\ NextID \in Nat /\ ID(s) < NextID
          /\ ID(s) = ID(t) => s = t
      BY <2>1, IDsDiffer
    <3>2. Kind(s) \in Nat /\ Kind(t) \in Nat /\ Stride \in Nat \ {0}
      BY <2>1, SlotIs, NumericAssumption
    <3> QED BY <3>1, <3>2, Zenon
  <2>3. /\ body[s[1]] = "Loop" => Slot(s) = -1
        /\ body[s[1]] # "Loop" => Slot(s) = x + m * c
        /\ body[t[1]] = "Loop" => Slot(t) = -1
        /\ body[t[1]] # "Loop" => Slot(t) = y + m * d
    BY <2>1, <2>2, SlotIs
  <2>4. ASSUME body[s[1]] # "Loop", n <= m
        PROVE  (x + m * c) % m = x /\ (x + m * c) \div m = c
    <3>1. x \in 0..(m - 1) /\ x + m * c = m * c + x /\ x + m * c \in Int
      BY <2>2, <2>4
    <3> QED BY <3>1, RemainderIs
  <2>5. m * c \in Nat /\ m * d \in Nat
    OBVIOUS
  <2>6. ASSUME s # t, Slot(s) = Slot(t), ~(body[s[1]] = "Loop" /\ body[t[1]] = "Loop")
        PROVE  x - y >= m \/ y - x >= m
    <3>1. x + m * c = y + m * d
      <4>1. x + m * c # -1 /\ y + m * d # -1
        BY <2>5
      <4> QED BY <2>3, <2>6, <4>1
    <3>2. PICK e \in Int : e = d - c
      OBVIOUS
    <3>3. m * e = x - y
      BY <3>1, <3>2
    <3>4. e # 0
      <4>1. ASSUME e = 0 PROVE x = y
        BY <3>3, <4>1
      <4> QED BY <2>2, <2>6, <4>1
    <3>5. m \in Int \ {0} /\ Abs(m) = m
      BY DEF Abs
    <3>6. ~(-m < m * e /\ m * e < m)
      BY <3>4, <3>5, SmallMultiple
    <3> QED BY <3>3, <3>6
  <2> QED BY <2>2, <2>3, <2>4, <2>6
<1> QED BY <1>1, NumericInvariance, PTL
================================================================================
