-------------------------- MODULE ExprBuildersProofs --------------------------
(***************************************************************************)
(* The derived expression builders return the right terms for integers of    *)
(* every width and structs of every layout.                                  *)
(*                                                                         *)
(* Each builder is a term over the solver's functions, and what these do is  *)
(* arithmetic modulo a power of two; the lemmas go from division with        *)
(* remainder and the powers of two over constants of w bits to each builder. *)
(* Aggregates are about bytes: Holds(t, n, f) says that term t has n bytes   *)
(* and which ones, and each builder of aggregates is shown to hold the image *)
(* of the object in memory.  The loops of the builders are recursive         *)
(* functions; what they compute is shown by induction over the number of     *)
(* iterations.                                                               *)
(***************************************************************************)
EXTENDS ExprBuilders, SequenceTheorems, WellFoundedInduction, TLAPS

-------------------------------------------------------------------------------
(* Induction, division and powers of two.                                     *)

\* Induction over the natural numbers: a set that holds 0 and the successor of
\* each of its elements has no least number missing.
LEMMA Induction ==
  ASSUME NEW S \in SUBSET Nat, 0 \in S, \A n \in S : n + 1 \in S
  PROVE  S = Nat
<1>1. SUFFICES ASSUME Nat \ S # {} PROVE FALSE
  OBVIOUS
<1>2. PICK x \in Nat \ S : \A y \in Nat \ S : ~(<<y, x>> \in OpToRel(<, Nat))
  BY <1>1, WFMin, NatLessThanWellFounded
<1>3. x # 0 /\ x - 1 \in Nat /\ x - 1 < x /\ (x - 1) + 1 = x
  OBVIOUS
<1>4. x - 1 \in S
  <2>1. <<x - 1, x>> \in OpToRel(<, Nat)
    BY <1>3 DEF OpToRel
  <2> QED BY <1>2, <1>3, <2>1
<1> QED BY <1>3, <1>4

Loop(n, f, base, step) ==
  f = [i \in 0..n |-> IF i = 0 THEN base ELSE step[i][f[i - 1]]]

\* A loop of n iterations has a value after each of them.
LEMMA LoopExists ==
  ASSUME NEW V, NEW base \in V, NEW N \in Nat, NEW step \in [1..N -> [V -> V]]
  PROVE  \E f \in [0..N -> V] : Loop(N, f, base, step)
<1> DEFINE S == {n \in Nat : n <= N => \E f \in [0..n -> V] : Loop(n, f, base, step)}
<1>1. 0 \in S
  <2> DEFINE f == [i \in 0..0 |-> base]
  <2>1. f \in [0..0 -> V]
    OBVIOUS
  <2>2. f = [i \in 0..0 |-> IF i = 0 THEN base ELSE step[i][f[i - 1]]]
    OBVIOUS
  <2> HIDE DEF f
  <2> QED BY <2>1, <2>2 DEF Loop
<1>2. ASSUME NEW n \in S PROVE n + 1 \in S
  <2>0. n \in Nat /\ n + 1 \in Nat
    OBVIOUS
  <2> SUFFICES ASSUME n + 1 <= N PROVE \E f \in [0..(n + 1) -> V] : Loop(n + 1, f, base, step)
    BY <2>0, Zenon
  <2>1. PICK f \in [0..n -> V] : f = [i \in 0..n |-> IF i = 0 THEN base ELSE step[i][f[i - 1]]]
    BY DEF Loop
  <2> DEFINE g == [i \in 0..(n + 1) |-> IF i = n + 1 THEN step[n + 1][f[n]] ELSE f[i]]
  <2>2. g \in [0..(n + 1) -> V]
    <3>1. n + 1 \in 1..N /\ n \in 0..n
      BY <2>0
    <3>2. step[n + 1][f[n]] \in V
      BY <3>1
    <3> QED BY <3>2
  <2>3. ASSUME NEW i \in 0..(n + 1) PROVE g[i] = IF i = 0 THEN base ELSE step[i][g[i - 1]]
    <3>1. CASE i = n + 1
      BY <3>1
    <3>2. CASE i # n + 1
      <4>1. i \in 0..n /\ (i # 0 => i - 1 \in 0..n /\ i - 1 \in 0..(n+1) /\ i - 1 # n + 1)
        BY <3>2
      <4>2. g[i] = f[i] /\ (i # 0 => g[i - 1] = f[i - 1])
        BY <4>1
      <4> HIDE DEF g
      <4> QED BY <2>1, <4>1, <4>2
    <3> QED BY <3>1, <3>2
  <2> HIDE DEF g
  <2>4. Loop(n + 1, g, base, step)
    BY <2>2, <2>3 DEF Loop
  <2> QED BY <2>2, <2>4
<1>3. S = Nat
  <2> HIDE DEF S
  <2>1. S \in SUBSET Nat
    BY DEF S
  <2> QED BY <1>1, <1>2, <2>1, Induction
<1> QED BY <1>3

\* The quotient and the remainder, from any way of writing a number with them.
LEMMA RemainderIs ==
  ASSUME NEW m \in Nat \ {0}, NEW x \in Int, NEW q \in Int, NEW r \in 0..(m - 1),
         x = m * q + r
  PROVE  x % m = r /\ x \div m = q
<1>1. x \div m \in Int /\ x % m \in 0..(m - 1) /\ x = m * (x \div m) + (x % m)
  OBVIOUS
<1>2. PICK d \in Int : d = q - (x \div m)
  BY <1>1
<1>3. m * d = (x % m) - r
  BY <1>1, <1>2
<1>4. m * d < m /\ m * d > -m
  BY <1>1, <1>3
<1>5. d = 0
  <2>1. CASE d >= 1
    <3>1. m * d >= m
      BY <2>1
    <3> QED BY <1>4, <3>1
  <2>2. CASE d <= -1
    <3>1. m * d <= -m
      BY <2>2
    <3> QED BY <1>4, <3>1
  <2> QED BY <1>2, <2>1, <2>2
<1> QED BY <1>1, <1>2, <1>3, <1>5

\* Every number has a quotient and a remainder.
LEMMA QuotientAndRemainder ==
  ASSUME NEW m \in Nat \ {0}, NEW x \in Int
  PROVE  /\ x \div m \in Int /\ x % m \in 0..(m - 1)
         /\ x = m * (x \div m) + (x % m)
  OBVIOUS

\* A multiple of the divisor changes the quotient and leaves the remainder.
LEMMA AddMultiple ==
  ASSUME NEW m \in Nat \ {0}, NEW x \in Int, NEW d \in Int
  PROVE  (x + m * d) % m = x % m /\ (x + m * d) \div m = (x \div m) + d
<1>1. PICK q \in Int, r \in 0..(m - 1) : q = x \div m /\ r = x % m /\ x = m * q + r
  BY QuotientAndRemainder
<1>2. x + m * d = m * (q + d) + r
  BY <1>1
<1>3. x + m * d \in Int /\ q + d \in Int
  <2>1. m * d \in Int
    OBVIOUS
  <2> QED BY <2>1
<1>4. PICK y \in Int, p \in Int : y = x + m * d /\ p = q + d
  BY <1>3
<1>5. y % m = r /\ y \div m = p
  BY <1>2, <1>4, RemainderIs
<1> QED BY <1>1, <1>4, <1>5

\* Dividing twice is dividing by the product.
LEMMA DivideTwice ==
  ASSUME NEW a \in Nat \ {0}, NEW b \in Nat \ {0}, NEW x \in Int
  PROVE  a * b \in Nat \ {0} /\ (x \div a) \div b = x \div (a * b)
<1>1. PICK q \in Int, r \in 0..(a - 1) : q = x \div a /\ x = a * q + r
  BY QuotientAndRemainder
<1>2. PICK p \in Int, s \in 0..(b - 1) : p = q \div b /\ q = b * p + s
  BY QuotientAndRemainder
<1>3. PICK m \in Nat \ {0} : m = a * b
  OBVIOUS
<1>4. PICK u \in Nat : u = a * s
  OBVIOUS
<1>5. u <= m - a
  <2>1. a * s <= a * (b - 1)
    OBVIOUS
  <2> QED BY <2>1, <1>3, <1>4
<1>6. x = m * p + (u + r)
  <2>1. a * (b * p + s) = (a * b) * p + a * s
    OBVIOUS
  <2>2. a * q = m * p + u
    BY <2>1, <1>2, <1>3, <1>4
  <2> QED BY <2>2, <1>1
<1>7. u + r \in 0..(m - 1)
  BY <1>5
<1>8. x \div m = p
  BY <1>6, <1>7, RemainderIs
<1> QED BY <1>1, <1>2, <1>3, <1>8, Zenon

\* Numbers with the same remainder less than the divisor apart are the same.
LEMMA SameRemainder ==
  ASSUME NEW m \in Nat \ {0}, NEW x \in Int, NEW y \in Int, NEW d \in Int,
         x - y = m * d, x - y < m, y - x < m
  PROVE  x = y
<1>1. CASE d >= 1
  <2>1. m * d >= m
    BY <1>1
  <2> QED BY <2>1
<1>2. CASE d <= -1
  <2>1. m * d <= -m
    BY <1>2
  <2> QED BY <2>1
<1> QED BY <1>1, <1>2

\* Numbers have the same remainder if they differ by a multiple.
LEMMA EqualRemainders ==
  ASSUME NEW m \in Nat \ {0}, NEW x \in Int, NEW y \in Int
  PROVE  x % m = y % m <=> \E d \in Int : x = y + m * d
<1>1. ASSUME x % m = y % m PROVE \E d \in Int : x = y + m * d
  <2>1. PICK q \in Int, r \in 0..(m - 1) : q = x \div m /\ r = x % m /\ x = m * q + r
    BY QuotientAndRemainder
  <2>2. PICK p \in Int, t \in 0..(m - 1) : p = y \div m /\ t = y % m /\ y = m * p + t
    BY QuotientAndRemainder
  <2>3. r = t
    BY <1>1, <2>1, <2>2
  <2>4. PICK d \in Int : d = q - p
    OBVIOUS
  <2>5. PICK u \in Int, v \in Int, e \in Int : u = m * q /\ v = m * p /\ e = m * d
    OBVIOUS
  <2>6. u = v + e
    BY <2>4, <2>5
  <2>7. x = y + e
    BY <2>1, <2>2, <2>3, <2>5, <2>6
  <2> QED BY <2>5, <2>7
<1>2. ASSUME NEW d \in Int, x = y + m * d PROVE x % m = y % m
  BY <1>2, AddMultiple
<1> QED BY <1>1, <1>2

IsPower(n, f) ==
  f \in [0..n -> Nat \ {0}] /\ \A i \in 0..n : f[i] = IF i = 0 THEN 1 ELSE 2 * f[i - 1]

\* The powers of two up to n exist and do not depend on n, ...
LEMMA PowersExist ==
  \A n \in Nat : \E f : IsPower(n, f)
<1> SUFFICES ASSUME NEW n \in Nat PROVE \E f : IsPower(n, f)
  OBVIOUS
<1> DEFINE V == Nat \ {0}
           step == [i \in 1..n |-> [v \in V |-> 2 * v]]
<1>1. step \in [1..n -> [V -> V]] /\ 1 \in V
  OBVIOUS
<1>2. PICK f \in [0..n -> V] : Loop(n, f, 1, step)
  <2> HIDE DEF V, step
  <2> QED BY <1>1, LoopExists
<1>3. ASSUME NEW i \in 0..n PROVE f[i] = IF i = 0 THEN 1 ELSE 2 * f[i - 1]
  <2>1. f[i] = IF i = 0 THEN 1 ELSE step[i][f[i - 1]]
    <3> HIDE DEF step, V
    <3> QED BY <1>2 DEF Loop
  <2>2. CASE i # 0
    <3>1. i \in 1..n /\ i - 1 \in 0..n
      BY <2>2
    <3>2. f[i - 1] \in V
      BY <3>1
    <3>3. step[i][f[i - 1]] = 2 * f[i - 1]
      BY <3>1, <3>2
    <3> HIDE DEF step, V
    <3> QED BY <2>1, <2>2, <3>3
  <2> QED BY <2>1, <2>2
<1> QED BY <1>2, <1>3 DEF IsPower

LEMMA PowersAgree ==
  ASSUME NEW m \in Nat, NEW n \in Nat, NEW f, NEW g, IsPower(m, f), IsPower(n, g)
  PROVE  \A i \in 0..m : i <= n => f[i] = g[i]
<1> DEFINE S == {i \in Nat : i <= m /\ i <= n => f[i] = g[i]}
<1>1. 0 \in S
  BY DEF IsPower
<1>2. ASSUME NEW i \in S PROVE i + 1 \in S
  <2>1. i + 1 \in Nat /\ i + 1 # 0 /\ (i + 1) - 1 = i
    OBVIOUS
  <2> SUFFICES ASSUME i + 1 <= m, i + 1 <= n PROVE f[i + 1] = g[i + 1]
    BY <2>1
  <2>2. f[i] = g[i] /\ i + 1 \in 0..m /\ i + 1 \in 0..n
    BY <2>1
  <2>3. f[i + 1] = 2 * f[i] /\ g[i + 1] = 2 * g[i]
    BY <2>1, <2>2 DEF IsPower
  <2> QED BY <2>2, <2>3
<1>3. S = Nat
  <2> HIDE DEF S
  <2>1. S \in SUBSET Nat
    BY DEF S
  <2> QED BY <1>1, <1>2, <2>1, Induction
<1> QED BY <1>3

\* ... so that Pow2 is the function that its definition describes.
LEMMA Pow2Defined ==
  Pow2 = [n \in Nat |-> IF n = 0 THEN 1 ELSE 2 * Pow2[n - 1]]
<1> DEFINE upTo(n) == CHOOSE f : IsPower(n, f)
           p == [n \in Nat |-> upTo(n)[n]]
<1>1. ASSUME NEW n \in Nat PROVE IsPower(n, upTo(n))
  BY PowersExist
<1>2. ASSUME NEW n \in Nat PROVE p[n] = IF n = 0 THEN 1 ELSE 2 * p[n - 1]
  <2> HIDE DEF upTo
  <2>1. n \in 0..n /\ upTo(n)[n] = IF n = 0 THEN 1 ELSE 2 * upTo(n)[n - 1]
    BY <1>1 DEF IsPower
  <2>2. CASE n # 0
    <3>1. n - 1 \in Nat /\ n - 1 \in 0..(n - 1) /\ n - 1 <= n
      BY <2>2
    <3>2. IsPower(n - 1, upTo(n - 1)) /\ IsPower(n, upTo(n))
      BY <1>1, <3>1
    <3>3. PICK f : f = upTo(n - 1)
      OBVIOUS
    <3>4. PICK g : g = upTo(n)
      OBVIOUS
    <3>5. PICK m \in Nat : m = n - 1
      BY <3>1
    <3>6. \A i \in 0..m : i <= n => f[i] = g[i]
      BY <3>2, <3>3, <3>4, <3>5, PowersAgree
    <3>7. upTo(n - 1)[n - 1] = upTo(n)[n - 1]
      BY <3>1, <3>3, <3>4, <3>5, <3>6
    <3>8. p[n - 1] = upTo(n - 1)[n - 1] /\ p[n] = upTo(n)[n]
      BY <3>1
    <3> QED BY <2>1, <2>2, <3>7, <3>8
  <2> QED BY <2>1, <2>2
<1> HIDE DEF p
<1>3. p = [n \in Nat |-> IF n = 0 THEN 1 ELSE 2 * p[n - 1]]
  <2>1. p = [n \in Nat |-> p[n]]
    BY DEF p
  <2> QED BY <1>2, <2>1
<1>4. \E q : q = [n \in Nat |-> IF n = 0 THEN 1 ELSE 2 * q[n - 1]]
  BY <1>3
<1> QED BY <1>4, Zenon DEF Pow2

LEMMA Pow2Step ==
  /\ Pow2[0] = 1
  /\ \A n \in Nat : Pow2[n] \in Nat \ {0} /\ Pow2[n + 1] = 2 * Pow2[n]
<1>1. ASSUME NEW n \in Nat PROVE Pow2[n] = IF n = 0 THEN 1 ELSE 2 * Pow2[n - 1]
  BY Pow2Defined
<1>2. Pow2[0] = 1
  BY <1>1
<1>3. ASSUME NEW n \in Nat PROVE Pow2[n + 1] = 2 * Pow2[n]
  <2>1. n + 1 \in Nat /\ n + 1 # 0 /\ (n + 1) - 1 = n
    OBVIOUS
  <2> QED BY <1>1, <2>1
<1> DEFINE S == {n \in Nat : Pow2[n] \in Nat \ {0}}
<1>4. 0 \in S
  BY <1>2
<1>5. ASSUME NEW n \in S PROVE n + 1 \in S
  BY <1>3
<1>6. S = Nat
  <2> HIDE DEF S
  <2>1. S \in SUBSET Nat
    BY DEF S
  <2> QED BY <1>4, <1>5, <2>1, Induction
<1> QED BY <1>2, <1>3, <1>6

LEMMA Pow2Sum ==
  ASSUME NEW m \in Nat, NEW n \in Nat
  PROVE  Pow2[m + n] = Pow2[m] * Pow2[n]
<1> DEFINE S == {k \in Nat : Pow2[m + k] = Pow2[m] * Pow2[k]}
<1>1. 0 \in S
  <2>1. m + 0 = m /\ Pow2[m] \in Nat /\ Pow2[0] = 1
    BY Pow2Step
  <2> QED BY <2>1
<1>2. ASSUME NEW k \in S PROVE k + 1 \in S
  <2>1. m + k \in Nat /\ m + (k + 1) = (m + k) + 1 /\ k \in Nat /\ k + 1 \in Nat
    OBVIOUS
  <2>2. PICK a \in Nat, b \in Nat : a = Pow2[m] /\ b = Pow2[k]
    BY <2>1, Pow2Step
  <2>3. Pow2[k + 1] = 2 * b /\ Pow2[m + (k + 1)] = 2 * Pow2[m + k]
    BY <2>1, <2>2, Pow2Step
  <2>4. Pow2[m + k] = a * b
    BY <2>2
  <2>5. 2 * (a * b) = a * (2 * b)
    OBVIOUS
  <2>6. Pow2[m + (k + 1)] = Pow2[m] * Pow2[k + 1]
    BY <2>2, <2>3, <2>4, <2>5
  <2> QED BY <2>1, <2>6
<1>3. S = Nat
  <2> HIDE DEF S
  <2>1. S \in SUBSET Nat
    BY DEF S
  <2> QED BY <1>1, <1>2, <2>1, Induction
<1> QED BY <1>3

-------------------------------------------------------------------------------
(* Numbers of w bits. *)

\* The powers that belong to a width.
LEMMA Powers ==
  ASSUME NEW w \in Nat \ {0}
  PROVE  /\ w - 1 \in Nat /\ w \in Nat /\ w + 1 \in Nat
         /\ Pow2[w - 1] \in Nat \ {0} /\ Pow2[w] \in Nat \ {0}
         /\ Pow2[w] = 2 * Pow2[w - 1] /\ Pow2[w + 1] = 2 * Pow2[w]
<1>1. w - 1 \in Nat /\ w \in Nat /\ w + 1 \in Nat /\ (w - 1) + 1 = w
  OBVIOUS
<1> QED BY <1>1, Pow2Step

\* A constant is the remainder of its number.
LEMMA IntegerIs ==
  ASSUME NEW w \in Nat, NEW x \in Int
  PROVE  /\ sym_build_integer(x, w) = [w |-> w, v |-> x % Pow2[w]]
         /\ sym_build_integer(x, w).w = w /\ sym_build_integer(x, w).v = x % Pow2[w]
         /\ sym_build_integer(x, w).v \in 0..(Pow2[w] - 1)
         /\ sym_build_integer(x, w) \in Term(w)
<1>1. x % Pow2[w] \in 0..(Pow2[w] - 1)
  BY Pow2Step, QuotientAndRemainder
<1> QED BY <1>1 DEF sym_build_integer, Term

\* A number that fits is its own remainder.
LEMMA IntegerFits ==
  ASSUME NEW w \in Nat, NEW x \in 0..(Pow2[w] - 1)
  PROVE  sym_build_integer(x, w) = [w |-> w, v |-> x] /\ x % Pow2[w] = x
<1>1. PICK m \in Nat \ {0} : m = Pow2[w]
  BY Pow2Step
<1>2. x \in Int /\ x = m * 0 + x /\ x \in 0..(m - 1)
  BY <1>1
<1>3. x % m = x
  BY <1>2, RemainderIs
<1> QED BY <1>1, <1>3 DEF sym_build_integer

\* Numbers that differ by a multiple have the same term, and no others do.
LEMMA IntegerSame ==
  ASSUME NEW w \in Nat, NEW x \in Int, NEW y \in Int, NEW m \in Nat, m = Pow2[w],
         NEW d \in Int, x = y + m * d
  PROVE  sym_build_integer(x, w) = sym_build_integer(y, w)
<1>1. m \in Nat \ {0}
  BY Pow2Step
<1>2. x % m = y % m
  BY <1>1, AddMultiple
<1> QED BY <1>2 DEF sym_build_integer

LEMMA IntegerEqual ==
  ASSUME NEW w \in Nat, NEW x \in Int, NEW y \in Int,
         sym_build_integer(x, w) = sym_build_integer(y, w)
  PROVE  \E d \in Int : x = y + Pow2[w] * d
<1>1. Pow2[w] \in Nat \ {0}
  BY Pow2Step
<1>2. x % Pow2[w] = y % Pow2[w]
  BY DEF sym_build_integer
<1> QED BY <1>1, <1>2, EqualRemainders

\* A remainder differs from its number by a multiple.
LEMMA IntegerMultiple ==
  ASSUME NEW w \in Nat, NEW x \in Int, NEW m \in Nat, m = Pow2[w]
  PROVE  \E d \in Int : sym_build_integer(x, w).v = x + m * d
<1>1. m \in Nat \ {0}
  BY Pow2Step
<1>2. PICK q \in Int, r \in 0..(m - 1) : r = x % m /\ x = m * q + r
  BY <1>1, QuotientAndRemainder
<1>3. PICK d \in Int : d = -q
  OBVIOUS
<1>4. r = x + m * d
  BY <1>2, <1>3
<1> QED BY <1>1, <1>2, <1>4 DEF sym_build_integer

\* A term is the constant that has its value.
LEMMA TermIs ==
  ASSUME NEW w \in Nat, NEW t \in Term(w)
  PROVE  t.w = w /\ t.v \in 0..(Pow2[w] - 1) /\ t = sym_build_integer(t.v, w)
<1>1. t.w = w /\ t.v \in 0..(Pow2[w] - 1) /\ t = [w |-> w, v |-> t.v]
  BY DEF Term
<1> QED BY <1>1, IntegerFits

\* A term as a signed number.
LEMMA SignedIs ==
  ASSUME NEW w \in Nat \ {0}, NEW t \in Term(w)
  PROVE  /\ Signed(t) \in -(Pow2[w - 1])..(Pow2[w - 1] - 1)
         /\ Signed(t) = t.v \/ Signed(t) = t.v - Pow2[w]
         /\ Signed(t) < 0 <=> t.v >= Pow2[w - 1]
         /\ t = sym_build_integer(Signed(t), w)
<1>1. PICK h \in Nat \ {0}, m \in Nat \ {0} : h = Pow2[w - 1] /\ m = Pow2[w] /\ m = 2 * h
  BY Powers
<1>2. t.w = w /\ t.v \in 0..(m - 1) /\ t = sym_build_integer(t.v, w)
  BY <1>1, TermIs
<1>3. PICK s \in Int : s = IF t.v >= h THEN t.v - m ELSE t.v
  BY <1>2
<1>4. s = Signed(t)
  BY <1>1, <1>2, <1>3 DEF Signed
<1>5. s \in -h..(h - 1) /\ (s = t.v \/ s = t.v - m) /\ (s < 0 <=> t.v >= h)
  BY <1>1, <1>2, <1>3
<1>6. t = sym_build_integer(s, w)
  <2>1. PICK d \in Int : t.v = s + m * d
    <3>1. CASE s = t.v
      <4>1. t.v = s + m * 0
        BY <1>2, <3>1
      <4> QED BY <4>1
    <3>2. CASE s = t.v - m
      <4>1. t.v = s + m * 1
        BY <1>2, <3>2
      <4> QED BY <4>1
    <3> QED BY <1>5, <3>1, <3>2
  <2>2. PICK x \in Int : x = t.v /\ x = s + m * d
    BY <1>2, <2>1
  <2>3. m \in Nat /\ w \in Nat
    OBVIOUS
  <2>4. sym_build_integer(x, w) = sym_build_integer(s, w)
    BY <1>1, <2>2, <2>3, IntegerSame
  <2> QED BY <1>2, <2>2, <2>4
<1> QED BY <1>1, <1>4, <1>5, <1>6

\* A number in the range of signed numbers is read back.
LEMMA SignedInteger ==
  ASSUME NEW w \in Nat \ {0}, NEW x \in -(Pow2[w - 1])..(Pow2[w - 1] - 1)
  PROVE  Signed(sym_build_integer(x, w)) = x
<1>1. PICK h \in Nat \ {0}, m \in Nat \ {0} : h = Pow2[w - 1] /\ m = Pow2[w] /\ m = 2 * h
  BY Powers
<1>2. PICK t \in Term(w) : t = sym_build_integer(x, w)
  BY <1>1, IntegerIs
<1>3. PICK s \in -h..(h - 1) : s = Signed(t) /\ t = sym_build_integer(s, w)
  BY <1>1, SignedIs
<1>4. PICK d \in Int : x = s + m * d
  <2>1. m \in Nat /\ w \in Nat /\ x \in Int /\ s \in Int
    BY <1>1
  <2>2. sym_build_integer(x, w) = sym_build_integer(s, w)
    BY <1>2, <1>3
  <2>3. PICK d \in Int : x = s + Pow2[w] * d
    BY <2>1, <2>2, IntegerEqual
  <2> QED BY <1>1, <2>3
<1>5. x - s = m * d /\ x - s < m /\ s - x < m /\ x \in Int /\ s \in Int
  BY <1>1, <1>4
<1>6. x = s
  BY <1>5, SameRemainder
<1> QED BY <1>2, <1>3, <1>6

\* The solver's arithmetic is that of the remainders.
LEMMA IntegerArithmetic ==
  ASSUME NEW w \in Nat, NEW x \in Int, NEW y \in Int
  PROVE  LET a == sym_build_integer(x, w)
             b == sym_build_integer(y, w)
         IN /\ sym_build_add(a, b) = sym_build_integer(x + y, w)
            /\ sym_build_sub(a, b) = sym_build_integer(x - y, w)
            /\ sym_build_mul(a, b) = sym_build_integer(x * y, w)
<1> DEFINE a == sym_build_integer(x, w)
           b == sym_build_integer(y, w)
<1>1. PICK m \in Nat \ {0} : m = Pow2[w]
  BY Pow2Step
<1>2. PICK u \in Int, d \in Int : u = a.v /\ u = x + m * d
  <2>1. PICK d \in Int : a.v = x + m * d
    BY <1>1, IntegerMultiple
  <2>2. a.v \in Int
    BY IntegerIs
  <2> QED BY <2>1, <2>2
<1>3. PICK v \in Int, e \in Int : v = b.v /\ v = y + m * e
  <2>1. PICK f \in Int : b.v = y + m * f
    BY <1>1, IntegerMultiple
  <2>2. b.v \in Int
    BY IntegerIs
  <2> QED BY <2>1, <2>2
<1>4. a.w = w
  BY IntegerIs
<1>5. PICK p \in Int, q \in Int : p = m * d /\ q = m * e
  OBVIOUS
<1>6. sym_build_integer(u + v, w) = sym_build_integer(x + y, w)
  <2>1. m * (d + e) = p + q
    BY <1>5
  <2>2. d + e \in Int /\ u + v = (x + y) + m * (d + e)
    BY <1>2, <1>3, <1>5, <2>1
  <2>3. u + v \in Int /\ x + y \in Int
    OBVIOUS
  <2> QED BY <1>1, <2>2, <2>3, IntegerSame
<1>7. sym_build_integer(u - v, w) = sym_build_integer(x - y, w)
  <2>1. m * (d - e) = p - q
    BY <1>5
  <2>2. d - e \in Int /\ u - v = (x - y) + m * (d - e)
    BY <1>2, <1>3, <1>5, <2>1
  <2>3. u - v \in Int /\ x - y \in Int
    OBVIOUS
  <2> QED BY <1>1, <2>2, <2>3, IntegerSame
<1>8. sym_build_integer(u * v, w) = sym_build_integer(x * y, w)
  <2>1. PICK k \in Int : k = x * e + d * y + m * (d * e)
    <3>1. x * e \in Int /\ d * y \in Int /\ m * (d * e) \in Int
      OBVIOUS
    <3> QED BY <3>1
  <2>2. (x + m * d) * (y + m * e) = x * y + m * (x * e + d * y + m * (d * e))
    OBVIOUS
  <2>3. u * v = x * y + m * k
    BY <1>2, <1>3, <2>1, <2>2
  <2>4. PICK g \in Int, h \in Int : g = u * v /\ h = x * y
    OBVIOUS
  <2>5. g = h + m * k
    BY <2>3, <2>4
  <2> QED BY <1>1, <2>4, <2>5, IntegerSame
<1> QED BY <1>2, <1>3, <1>4, <1>6, <1>7, <1>8
        DEF sym_build_add, sym_build_sub, sym_build_mul

\* The same, one operation at a time.
LEMMA IntegerAdd ==
  ASSUME NEW w \in Nat, NEW x \in Int, NEW y \in Int
  PROVE  sym_build_add(sym_build_integer(x, w), sym_build_integer(y, w))
           = sym_build_integer(x + y, w)
  BY IntegerArithmetic

LEMMA IntegerSub ==
  ASSUME NEW w \in Nat, NEW x \in Int, NEW y \in Int
  PROVE  sym_build_sub(sym_build_integer(x, w), sym_build_integer(y, w))
           = sym_build_integer(x - y, w)
  BY IntegerArithmetic

LEMMA IntegerMul ==
  ASSUME NEW w \in Nat, NEW x \in Int, NEW y \in Int
  PROVE  sym_build_mul(sym_build_integer(x, w), sym_build_integer(y, w))
           = sym_build_integer(x * y, w)
  BY IntegerArithmetic

-------------------------------------------------------------------------------
(* Saturating arithmetic. *)

LEMMA Pow2Monotone ==
  ASSUME NEW m \in Nat, NEW n \in Nat, m <= n
  PROVE  Pow2[m] <= Pow2[n]
<1>1. n - m \in Nat /\ m + (n - m) = n
  OBVIOUS
<1>2. PICK a \in Nat \ {0}, b \in Nat \ {0} : a = Pow2[m] /\ b = Pow2[n - m]
  BY <1>1, Pow2Step
<1>3. Pow2[n] = a * b
  BY <1>1, <1>2, Pow2Sum
<1>4. a * b >= a
  <2>1. b = 1 + (b - 1) /\ b - 1 \in Nat
    OBVIOUS
  <2>2. a * b = a + a * (b - 1) /\ a * (b - 1) \in Nat
    BY <2>1
  <2> QED BY <2>2
<1> QED BY <1>2, <1>3, <1>4

\* The mask is right as long as it is not shifted out.
LEMMA MaskIs ==
  ASSUME NEW w \in Width, NEW one \in {0, 1}, ~(w = HostBits /\ one = 1)
  PROVE  w \in Nat \ {0} /\ Mask(w, one) = Pow2[w] - 1
<1>1. w \in Nat \ {0} /\ HostBits \in Nat /\ w <= HostBits
  BY BuildersAssumption
<1>2. PICK m \in Nat \ {0}, n \in Nat \ {0} : m = Pow2[w] /\ n = Pow2[HostBits] /\ m <= n
  BY <1>1, Pow2Step, Pow2Monotone
<1>3. CASE w < HostBits
  <2>1. Mask(w, one) = (m - 1) % n
    BY <1>2, <1>3 DEF Mask, ShiftedOne
  <2>2. m - 1 \in Int /\ m - 1 \in 0..(n - 1) /\ m - 1 = n * 0 + (m - 1)
    BY <1>2
  <2>3. (m - 1) % n = m - 1
    BY <2>2, RemainderIs
  <2> QED BY <1>1, <1>2, <2>1, <2>3
<1>4. CASE w = HostBits
  <2>1. Mask(w, one) = (0 - 1) % n
    BY <1>1, <1>2, <1>4 DEF Mask, ShiftedOne
  <2>2. 0 - 1 \in Int /\ n - 1 \in 0..(n - 1) /\ 0 - 1 = n * (-1) + (n - 1) /\ -1 \in Int
    OBVIOUS
  <2>3. (0 - 1) % n = n - 1
    BY <2>2, RemainderIs
  <2> QED BY <1>1, <1>2, <1>4, <2>1, <2>3
<1> QED BY <1>1, <1>3, <1>4

\* The limits of the numbers of w bits.
LEMMA LimitsAre ==
  ASSUME NEW w \in Width, NEW one \in {0, 1}, ~(w = HostBits /\ one = 1)
  PROVE  /\ buildMinSignedInt(w) = sym_build_integer(-(Pow2[w - 1]), w)
         /\ buildMaxSignedInt(w, one) = sym_build_integer(Pow2[w - 1] - 1, w)
         /\ buildMaxUnsignedInt(w, one) = sym_build_integer(Pow2[w] - 1, w)
<1>1. w \in Nat \ {0} /\ Mask(w, one) = Pow2[w] - 1
  BY MaskIs
<1>2. PICK h \in Nat \ {0}, m \in Nat \ {0} : h = Pow2[w - 1] /\ m = Pow2[w] /\ m = 2 * h
  BY <1>1, Powers
<1>3. sym_build_integer(h, w) = sym_build_integer(-h, w)
  <2>1. PICK x \in Int, d \in Int : x = -h /\ d = 1
    OBVIOUS
  <2>2. h \in Int /\ h = x + m * d /\ w \in Nat /\ m \in Nat
    BY <1>1, <1>2, <2>1
  <2>3. sym_build_integer(h, w) = sym_build_integer(x, w)
    BY <1>2, <2>2, IntegerSame
  <2> QED BY <2>1, <2>3
<1>4. (m - 1) \div 2 = h - 1
  <2>1. m - 1 = 2 * (h - 1) + 1 /\ m - 1 \in Int /\ h - 1 \in Int /\ 1 \in 0..(2 - 1) /\ 2 \in Nat \ {0}
    BY <1>2
  <2> QED BY <2>1, RemainderIs
<1> QED BY <1>1, <1>2, <1>3, <1>4
        DEF buildMinSignedInt, buildMaxSignedInt, buildMaxUnsignedInt

\* The two comparisons of SignedSaturated clamp a result of one more bit.
LEMMA SaturatedIsClamped ==
  ASSUME NEW w \in Width, NEW one \in {0, 1}, ~(w = HostBits /\ one = 1),
         NEW s \in -(Pow2[w])..(Pow2[w] - 1)
  PROVE  SignedSaturated(sym_build_integer(s, w + 1), sym_build_integer(s, w), one)
           = ClampedSigned(s, w)
<1>1. w \in Nat \ {0}
  BY BuildersAssumption
<1>2. PICK h \in Nat \ {0}, m \in Nat \ {0} :
        h = Pow2[w - 1] /\ m = Pow2[w] /\ m = 2 * h /\ Pow2[w + 1] = 2 * m
  BY <1>1, Powers
<1>3. w + 1 \in Nat \ {0} /\ (w + 1) - 1 = w /\ s \in Int /\ s \in -m..(m - 1) /\ w \in Nat
  BY <1>1, <1>2
<1>4. PICK min, max : min = buildMinSignedInt(w) /\ max = buildMaxSignedInt(w, one)
  OBVIOUS
<1>5. min = sym_build_integer(-h, w) /\ max = sym_build_integer(h - 1, w)
  BY <1>2, <1>4, LimitsAre
<1>6. Signed(sym_build_integer(s, w + 1)) = s
  BY <1>2, <1>3, SignedInteger
<1>7. Signed(sym_build_sext(min, 1)) = -h
  <2>1. -h \in -h..(h - 1) /\ -h \in Int /\ -h \in -m..(m - 1)
    BY <1>2
  <2>2. Signed(min) = -h /\ min.w = w
    BY <1>1, <1>2, <1>3, <1>5, <2>1, SignedInteger, IntegerIs
  <2>3. sym_build_sext(min, 1) = sym_build_integer(-h, w + 1)
    BY <2>2 DEF sym_build_sext
  <2> QED BY <1>2, <1>3, <2>1, <2>3, SignedInteger
<1>8. Signed(sym_build_sext(max, 1)) = h - 1
  <2>1. h - 1 \in -h..(h - 1) /\ h - 1 \in Int /\ h - 1 \in -m..(m - 1)
    BY <1>2
  <2>2. Signed(max) = h - 1 /\ max.w = w
    BY <1>1, <1>2, <1>3, <1>5, <2>1, SignedInteger, IntegerIs
  <2>3. sym_build_sext(max, 1) = sym_build_integer(h - 1, w + 1)
    BY <2>2 DEF sym_build_sext
  <2> QED BY <1>2, <1>3, <2>1, <2>3, SignedInteger
<1>9. sym_build_integer(s, w).w = w
  BY <1>3, IntegerIs
<1>10. SignedSaturated(sym_build_integer(s, w + 1), sym_build_integer(s, w), one)
         = IF s <= -h THEN min ELSE IF s >= h - 1 THEN max ELSE sym_build_integer(s, w)
  BY <1>4, <1>6, <1>7, <1>8, <1>9
     DEF SignedSaturated, sym_build_ite, sym_build_signed_less_equal,
         sym_build_signed_greater_equal
<1>11. ClampedSigned(s, w)
         = sym_build_integer(IF s < -h THEN -h ELSE IF s > h - 1 THEN h - 1 ELSE s, w)
  BY <1>2 DEF ClampedSigned, Clamped
<1>12. CASE s <= -h
  BY <1>5, <1>10, <1>11, <1>12, <1>3
<1>13. CASE s >= h - 1 /\ ~(s <= -h)
  BY <1>5, <1>10, <1>11, <1>13, <1>3
<1>14. CASE ~(s >= h - 1) /\ ~(s <= -h)
  BY <1>10, <1>11, <1>14, <1>3
<1> QED BY <1>3, <1>12, <1>13, <1>14

\* _sym_build_sadd_sat and _sym_build_ssub_sat.
LEMMA SignedAddAndSub ==
  ASSUME NEW w \in Nat \ {0}, w \in Width, NEW one \in {0, 1}, ~(w = HostBits /\ one = 1),
         NEW a \in Term(w), NEW b \in Term(w)
  PROVE  /\ sym_build_sadd_sat(a, b, one) = ClampedSigned(Signed(a) + Signed(b), w)
         /\ sym_build_ssub_sat(a, b, one) = ClampedSigned(Signed(a) - Signed(b), w)
<1>1. w \in Nat \ {0} /\ w \in Nat /\ w + 1 \in Nat
  BY BuildersAssumption
<1>2. PICK h \in Nat \ {0}, m \in Nat \ {0} : h = Pow2[w - 1] /\ m = Pow2[w] /\ m = 2 * h
  BY <1>1, Powers
<1>3. PICK s \in Int : s \in -h..(h - 1) /\ s = Signed(a) /\ a = sym_build_integer(s, w) /\ a.w = w
  BY <1>1, <1>2, SignedIs, TermIs
<1>4. PICK r \in Int : r \in -h..(h - 1) /\ r = Signed(b) /\ b = sym_build_integer(r, w) /\ b.w = w
  BY <1>1, <1>2, SignedIs, TermIs
<1>5. s \in Int /\ r \in Int /\ s + r \in -m..(m - 1) /\ s - r \in -m..(m - 1)
  BY <1>2, <1>3, <1>4
<1>6. /\ sym_build_add(a, b) = sym_build_integer(s + r, w)
      /\ sym_build_sub(a, b) = sym_build_integer(s - r, w)
  <2>1. sym_build_add(a, b) = sym_build_integer(s + r, w)
    <3>1. sym_build_add(sym_build_integer(s, w), sym_build_integer(r, w))
            = sym_build_integer(s + r, w)
      BY <1>1, IntegerAdd
    <3> QED BY ONLY <1>3, <1>4, <3>1
  <2>2. sym_build_sub(a, b) = sym_build_integer(s - r, w)
    <3>1. sym_build_sub(sym_build_integer(s, w), sym_build_integer(r, w))
            = sym_build_integer(s - r, w)
      BY <1>1, IntegerSub
    <3> QED BY ONLY <1>3, <1>4, <3>1
  <2> QED BY <2>1, <2>2
<1>7. PICK x, y : /\ x = sym_build_sext(a, 1) /\ y = sym_build_sext(b, 1)
                  /\ x = sym_build_integer(s, w + 1) /\ y = sym_build_integer(r, w + 1)
  BY <1>3, <1>4 DEF sym_build_sext
<1>8. /\ sym_build_add(x, y) = sym_build_integer(s + r, w + 1)
      /\ sym_build_sub(x, y) = sym_build_integer(s - r, w + 1)
  <2>1. sym_build_add(x, y) = sym_build_integer(s + r, w + 1)
    BY <1>1, <1>5, <1>7, IntegerAdd
  <2>2. sym_build_sub(x, y) = sym_build_integer(s - r, w + 1)
    BY <1>1, <1>5, <1>7, IntegerSub
  <2> QED BY <2>1, <2>2
<1>9. SignedSaturated(sym_build_integer(s + r, w + 1), sym_build_integer(s + r, w), one)
        = ClampedSigned(s + r, w)
  BY <1>2, <1>5, SaturatedIsClamped
<1>10. SignedSaturated(sym_build_integer(s - r, w + 1), sym_build_integer(s - r, w), one)
        = ClampedSigned(s - r, w)
  BY <1>2, <1>5, SaturatedIsClamped
<1>11. sym_build_sadd_sat(a, b, one) = ClampedSigned(s + r, w)
  BY <1>6, <1>7, <1>8, <1>9 DEF sym_build_sadd_sat
<1>12. sym_build_ssub_sat(a, b, one) = ClampedSigned(s - r, w)
  BY <1>6, <1>7, <1>8, <1>10 DEF sym_build_ssub_sat
<1> QED BY <1>3, <1>4, <1>11, <1>12

\* A single bit, cut out and read as a Boolean.
LEMMA BitIs ==
  ASSUME NEW w \in Nat \ {0}, NEW t \in Term(w)
  PROVE  /\ sym_extract_helper(t, w - 1, w - 1) = sym_build_integer(IF t.v >= Pow2[w - 1] THEN 1 ELSE 0, 1)
         /\ sym_build_bit_to_bool(sym_extract_helper(t, w - 1, w - 1)) <=> t.v >= Pow2[w - 1]
         /\ sym_build_equal(sym_extract_helper(t, w - 1, w - 1), sym_build_integer(1, 1))
              <=> t.v >= Pow2[w - 1]
<1>1. PICK h \in Nat \ {0}, m \in Nat \ {0} : h = Pow2[w - 1] /\ m = Pow2[w] /\ m = 2 * h
  BY Powers
<1>2. t.w = w /\ t.v \in 0..(m - 1)
  BY <1>1, TermIs
<1>3. PICK v \in Int : v = t.v /\ v \in 0..(m - 1)
  BY <1>2
<1>4. PICK q \in 0..1 : q = IF v >= h THEN 1 ELSE 0
  OBVIOUS
<1>5. v \div h = q
  <2>1. CASE v >= h
    <3>1. v = h * 1 + (v - h) /\ v - h \in 0..(h - 1) /\ 1 \in Int
      BY <1>1, <1>3, <2>1
    <3>2. v \div h = 1
      BY <3>1, RemainderIs
    <3> QED BY <1>4, <2>1, <3>2
  <2>2. CASE ~(v >= h)
    <3>1. v = h * 0 + v /\ v \in 0..(h - 1) /\ 0 \in Int
      BY <1>1, <1>3, <2>2
    <3>2. v \div h = 0
      BY <3>1, RemainderIs
    <3> QED BY <1>4, <2>2, <3>2
  <2> QED BY <2>1, <2>2
<1>6. ~(w - 1 < w - 1 \/ w - 1 >= w) /\ ((w - 1) - (w - 1)) + 1 = 1
  OBVIOUS
<1>7. sym_extract_helper(t, w - 1, w - 1) = sym_build_integer(q, 1)
  BY <1>1, <1>2, <1>3, <1>5, <1>6 DEF sym_extract_helper
<1>8. Pow2[1] = 2
  <2>1. 0 + 1 = 1 /\ 0 \in Nat
    OBVIOUS
  <2> QED BY <2>1, Pow2Step
<1>9. /\ sym_build_integer(0, 1) = [w |-> 1, v |-> 0]
      /\ sym_build_integer(1, 1) = [w |-> 1, v |-> 1]
      /\ sym_build_integer(q, 1) = [w |-> 1, v |-> q]
  <2>1. 1 \in Nat /\ 0 \in 0..(Pow2[1] - 1) /\ 1 \in 0..(Pow2[1] - 1) /\ q \in 0..(Pow2[1] - 1)
    BY <1>8
  <2> QED BY <2>1, IntegerFits
<1>10. sym_build_bit_to_bool(sym_build_integer(q, 1)) <=> q # 0
  BY <1>9 DEF sym_build_bit_to_bool, sym_build_not_equal
<1>11. sym_build_equal(sym_build_integer(q, 1), sym_build_integer(1, 1)) <=> q = 1
  BY <1>9 DEF sym_build_equal
<1>12. q # 0 <=> t.v >= Pow2[w - 1]
  BY <1>1, <1>3, <1>4
<1>13. q = 1 <=> t.v >= Pow2[w - 1]
  BY <1>1, <1>3, <1>4
<1>14. q = IF t.v >= Pow2[w - 1] THEN 1 ELSE 0
  BY <1>1, <1>3, <1>4
<1> QED BY <1>7, <1>10, <1>11, <1>12, <1>13, <1>14

\* _sym_build_uadd_sat.
LEMMA UnsignedAdd ==
  ASSUME NEW w \in Nat \ {0}, w \in Width, NEW one \in {0, 1}, ~(w = HostBits /\ one = 1),
         NEW a \in Term(w), NEW b \in Term(w)
  PROVE  sym_build_uadd_sat(a, b, one) = ClampedUnsigned(a.v + b.v, w)
<1>1. w \in Nat \ {0} /\ w \in Nat /\ w + 1 \in Nat \ {0} /\ (w + 1) - 1 = w
  BY BuildersAssumption
<1>2. PICK m \in Nat \ {0} : m = Pow2[w] /\ Pow2[w + 1] = 2 * m
  BY <1>1, Powers
<1>3. PICK x \in Int : x \in 0..(m - 1) /\ x = a.v /\ a = sym_build_integer(x, w) /\ a.w = w
  BY <1>1, <1>2, TermIs
<1>4. PICK y \in Int : y \in 0..(m - 1) /\ y = b.v /\ b = sym_build_integer(y, w) /\ b.w = w
  BY <1>1, <1>2, TermIs
<1>5. PICK z \in Int : z = x + y /\ z \in 0..(Pow2[w + 1] - 1)
  BY <1>2, <1>3, <1>4
<1>6. sym_build_add(a, b) = sym_build_integer(z, w)
  <2>1. sym_build_add(sym_build_integer(x, w), sym_build_integer(y, w)) = sym_build_integer(x + y, w)
    BY <1>1, IntegerAdd
  <2>2. sym_build_add(a, b) = sym_build_integer(x + y, w)
    BY <1>3, <1>4, <2>1, Zenon
  <2> QED BY <1>5, <2>2
<1>7. PICK c, d : /\ c = sym_build_zext(a, 1) /\ d = sym_build_zext(b, 1)
                  /\ c = sym_build_integer(x, w + 1) /\ d = sym_build_integer(y, w + 1)
  BY <1>3, <1>4 DEF sym_build_zext
<1>8. sym_build_add(c, d) = sym_build_integer(z, w + 1)
  <2>1. w + 1 \in Nat
    BY <1>1
  <2>2. sym_build_add(sym_build_integer(x, w + 1), sym_build_integer(y, w + 1))
          = sym_build_integer(x + y, w + 1)
    BY <2>1, IntegerAdd
  <2> QED BY ONLY <1>5, <1>7, <2>2
<1>9. PICK wide \in Term(w + 1) : wide = sym_build_integer(z, w + 1) /\ wide.v = z
  <2>1. w + 1 \in Nat
    BY <1>1
  <2>2. sym_build_integer(z, w + 1) \in Term(w + 1)
    BY <1>5, <2>1, IntegerIs
  <2>3. sym_build_integer(z, w + 1) = [w |-> w + 1, v |-> z]
    BY <1>5, <2>1, IntegerFits
  <2> QED BY <2>2, <2>3
<1>10. sym_build_bit_to_bool(sym_extract_helper(wide, w, w)) <=> z >= m
  BY <1>1, <1>2, <1>9, BitIs
<1>11. buildMaxUnsignedInt(w, one) = sym_build_integer(m - 1, w)
  BY <1>2, LimitsAre
<1>12. sym_build_uadd_sat(a, b, one)
         = IF z >= m THEN sym_build_integer(m - 1, w) ELSE sym_build_integer(z, w)
  BY <1>3, <1>6, <1>7, <1>8, <1>9, <1>10, <1>11 DEF sym_build_uadd_sat, sym_build_ite
<1>13. ClampedUnsigned(z, w) = sym_build_integer(Clamped(z, 0, m - 1), w)
  BY <1>2 DEF ClampedUnsigned
<1>14. Clamped(z, 0, m - 1) = IF z >= m THEN m - 1 ELSE z
  BY <1>5 DEF Clamped
<1>15. sym_build_uadd_sat(a, b, one) = ClampedUnsigned(z, w)
  BY <1>12, <1>13, <1>14
<1> QED BY <1>3, <1>4, <1>5, <1>15

\* _sym_build_usub_sat.
LEMMA UnsignedSub ==
  ASSUME NEW w \in Nat \ {0}, w \in Width, NEW a \in Term(w), NEW b \in Term(w)
  PROVE  sym_build_usub_sat(a, b) = ClampedUnsigned(a.v - b.v, w)
<1>1. w \in Nat \ {0} /\ w \in Nat
  BY BuildersAssumption
<1>2. PICK m \in Nat \ {0} : m = Pow2[w]
  BY <1>1, Powers
<1>3. PICK x \in Int : x \in 0..(m - 1) /\ x = a.v /\ a = sym_build_integer(x, w) /\ a.w = w
  BY <1>1, <1>2, TermIs
<1>4. PICK y \in Int : y \in 0..(m - 1) /\ y = b.v /\ b = sym_build_integer(y, w)
  BY <1>1, <1>2, TermIs
<1>5. x \in Int /\ y \in Int
  OBVIOUS
<1>6. sym_build_sub(a, b) = sym_build_integer(x - y, w)
  <2>1. sym_build_sub(sym_build_integer(x, w), sym_build_integer(y, w))
          = sym_build_integer(x - y, w)
    BY <1>1, <1>5, IntegerSub
  <2> QED BY ONLY <1>3, <1>4, <2>1
<1>7. PICK z \in Int : z = x - y
  BY <1>5
<1>8. sym_build_usub_sat(a, b)
         = IF x >= y THEN sym_build_integer(z, w) ELSE sym_build_integer(0, w)
  BY <1>3, <1>4, <1>6, <1>7
     DEF sym_build_usub_sat, sym_build_ite, sym_build_unsigned_greater_equal
<1>9. ClampedUnsigned(z, w) = sym_build_integer(Clamped(z, 0, m - 1), w)
  BY <1>2 DEF ClampedUnsigned
<1>10. Clamped(z, 0, m - 1) = IF x >= y THEN z ELSE 0
  <2>0. x \in 0..(m - 1) /\ y \in 0..(m - 1)
    BY <1>3, <1>4
  <2>1. CASE x >= y
    <3>1. ~(z < 0) /\ ~(z > m - 1)
      BY <1>7, <2>0, <2>1
    <3> QED BY <2>1, <3>1 DEF Clamped
  <2>2. CASE ~(x >= y)
    <3>1. z < 0
      BY <1>7, <2>0, <2>2
    <3> QED BY <2>2, <3>1 DEF Clamped
  <2> QED BY <2>1, <2>2
<1>11. sym_build_usub_sat(a, b) = ClampedUnsigned(z, w)
  BY <1>8, <1>9, <1>10
<1> QED BY <1>3, <1>4, <1>7, <1>11

\* _sym_build_abs.
LEMMA AbsoluteValue ==
  ASSUME NEW w \in Nat \ {0}, w \in Width, NEW a \in Term(w)
  PROVE  sym_build_abs(a) = sym_build_integer(IF Signed(a) < 0 THEN -Signed(a) ELSE Signed(a), w)
<1>1. w \in Nat \ {0} /\ w \in Nat
  BY BuildersAssumption
<1>2. PICK h \in Nat \ {0} : h = Pow2[w - 1]
  BY <1>1, Powers
<1>3. PICK s \in Int : s \in -h..(h - 1) /\ s = Signed(a) /\ a = sym_build_integer(s, w) /\ a.w = w
  BY <1>1, <1>2, SignedIs, TermIs
<1>4. s \in Int /\ 0 \in Int /\ 0 \in -h..(h - 1) /\ 0 - s = -s
  OBVIOUS
<1>5. Signed(sym_build_integer(0, w)) = 0
  BY <1>1, <1>2, <1>4, SignedInteger
<1>6. PICK z \in Int : z = 0 - s /\ z = -s
  BY <1>4
<1>7. sym_build_sub(sym_build_integer(0, w), a) = sym_build_integer(z, w)
  <2>1. sym_build_sub(sym_build_integer(0, w), sym_build_integer(s, w))
          = sym_build_integer(0 - s, w)
    BY <1>1, <1>4, IntegerSub
  <2> QED BY ONLY <1>3, <1>6, <2>1
<1>8. sym_build_abs(a) = IF s >= 0 THEN a ELSE sym_build_integer(z, w)
  BY <1>3, <1>4, <1>5, <1>7 DEF sym_build_abs, sym_build_ite, sym_build_signed_greater_equal
<1>9. (IF Signed(a) < 0 THEN -Signed(a) ELSE Signed(a)) = IF s >= 0 THEN s ELSE z
  <2>1. s < 0 <=> ~(s >= 0)
    OBVIOUS
  <2> QED BY <1>3, <1>6, <2>1
<1> QED BY <1>3, <1>8, <1>9

\* A shift that stays in the range of signed numbers is undone by the shift to
\* the right, and no other is: the numbers that the two shifts start from and
\* end in are both in the range, and differ by a multiple of 2^(w - b.v).
ShiftedBy(h, m, p, q, s, x, d) ==
  /\ h \in Nat \ {0} /\ m \in Nat \ {0} /\ m = 2 * h
  /\ p \in Nat \ {0} /\ q \in Nat \ {0} /\ p * q = m
  /\ s \in Int /\ s \in -h..(h - 1) /\ x \in Int /\ x \in -h..(h - 1)
  /\ d \in Int /\ x = s * p + m * d

UndoneBy(h, m, p, q, s, x, d) ==
  /\ x \div p = s + q * d
  /\ \A e \in Int : s + q * d = s + m * e => d = 0
  /\ d = 0 <=> s * p \in -h..(h - 1)

LEMMA ShiftIsUndone ==
  ASSUME NEW h, NEW m, NEW p, NEW q, NEW s, NEW x, NEW d, ShiftedBy(h, m, p, q, s, x, d)
  PROVE  UndoneBy(h, m, p, q, s, x, d)
<1> USE DEF ShiftedBy
<1>1. PICK y \in Int : y = s + q * d
  <2>1. q * d \in Int
    OBVIOUS
  <2> QED BY <2>1
<1>2. x = p * y + 0
  <2>1. p * (s + q * d) = s * p + (p * q) * d
    OBVIOUS
  <2>2. p * y = s * p + m * d
    BY <1>1, <2>1
  <2> QED BY <2>2
<1>3. x \div p = y
  <2>1. 0 \in 0..(p - 1)
    OBVIOUS
  <2> QED BY <1>2, <2>1, RemainderIs
<1>4. y \in -h..(h - 1)
  <2>1. x = p * y
    BY <1>2
  <2>2. CASE y >= 0
    <3>1. p * y >= y
      <4>1. p - 1 \in Nat /\ (p - 1) * y >= 0
        BY <2>2
      <4>2. p * y = y + (p - 1) * y
        OBVIOUS
      <4> QED BY <4>1, <4>2
    <3> QED BY <2>1, <2>2, <3>1
  <2>3. CASE y < 0
    <3>1. p * y <= y
      <4>1. p - 1 \in Nat /\ (p - 1) * y <= 0
        BY <2>3
      <4>2. p * y = y + (p - 1) * y
        OBVIOUS
      <4> QED BY <4>1, <4>2
    <3> QED BY <2>1, <2>3, <3>1
  <2> QED BY <2>2, <2>3
<1>5. ASSUME NEW e \in Int, y = s + m * e PROVE d = 0
  <2>1. PICK f \in Int : f = m * e /\ y - s = f
    BY <1>5
  <2>2. y - s < m /\ s - y < m
    BY <1>4
  <2>3. y = s
    BY <2>1, <2>2, SameRemainder
  <2>4. q * d = 0
    BY <1>1, <2>3
  <2> QED BY <2>4
<1>6. d = 0 => s * p \in -h..(h - 1)
  OBVIOUS
<1>7. ASSUME s * p \in -h..(h - 1) PROVE d = 0
  <2>1. PICK z \in Int : z = s * p
    OBVIOUS
  <2>2. x - z = m * d /\ x - z < m /\ z - x < m
    BY <1>7, <2>1
  <2>3. x = z
    BY <2>2, SameRemainder
  <2>4. m * d = 0
    BY <2>2, <2>3
  <2> QED BY <2>4
<1> QED BY <1>1, <1>3, <1>5, <1>6, <1>7 DEF UndoneBy

\* Shifting multiplies, the number with its sign or without it.
LEMMA ShiftLeftIs ==
  ASSUME NEW w \in Nat \ {0}, NEW a \in Term(w), NEW b \in Term(w), b.v < w
  PROVE  /\ b.v \in Nat /\ Pow2[b.v] \in Nat \ {0}
         /\ sym_build_shift_left(a, b) = sym_build_integer(a.v * Pow2[b.v], w)
         /\ sym_build_shift_left(a, b) = sym_build_integer(Signed(a) * Pow2[b.v], w)
<1>1. PICK m \in Nat \ {0} : m = Pow2[w]
  BY Powers
<1>2. a.w = w /\ a.v \in 0..(m - 1) /\ b.v \in 0..(m - 1)
  BY <1>1, TermIs
<1>3. PICK v \in Int : v = a.v
  BY <1>2
<1>4. PICK k \in Nat : k = b.v
  BY <1>2
<1>5. PICK p \in Nat \ {0} : p = Pow2[k]
  BY Pow2Step
<1>6. sym_build_shift_left(a, b) = sym_build_integer(v * p, w)
  BY <1>2, <1>3, <1>4, <1>5 DEF sym_build_shift_left
<1>7. PICK s \in Int : s = Signed(a) /\ (s = v \/ s = v - m)
  BY <1>1, <1>2, <1>3, SignedIs
<1>8. PICK x \in Int, y \in Int, d \in Int : x = v * p /\ y = s * p /\ x = y + m * d
  <2>1. PICK x \in Int, y \in Int : x = v * p /\ y = s * p
    OBVIOUS
  <2>2. CASE s = v
    <3>1. x = y + m * 0
      BY <2>1, <2>2
    <3> QED BY <2>1, <3>1
  <2>3. CASE s = v - m
    <3>1. x = y + m * p
      BY <2>1, <2>3
    <3> QED BY <2>1, <3>1
  <2> QED BY <1>7, <2>2, <2>3
<1>9. sym_build_integer(x, w) = sym_build_integer(y, w)
  <2>1. w \in Nat /\ m \in Nat
    OBVIOUS
  <2> QED BY <1>1, <1>8, <2>1, IntegerSame
<1> QED BY <1>3, <1>4, <1>5, <1>6, <1>7, <1>8, <1>9

\* The overflow of a shift is that of the signed number.
LEMMA ShiftOverflowIs ==
  ASSUME NEW w \in Nat \ {0}, NEW a \in Term(w), NEW b \in Term(w), b.v < w
  PROVE  sym_build_shift_left_overflow(a, b)
           <=> ~(Signed(a) * Pow2[b.v] \in -(Pow2[w - 1])..(Pow2[w - 1] - 1))
<1>1. PICK h \in Nat \ {0}, m \in Nat \ {0} : h = Pow2[w - 1] /\ m = Pow2[w] /\ m = 2 * h
  BY Powers
<1>2. PICK k \in Nat : k = b.v /\ k < w
  BY ShiftLeftIs
<1>3. PICK p \in Nat \ {0}, q \in Nat \ {0} : p = Pow2[k] /\ q = Pow2[w - k] /\ p * q = m
  <2>1. w - k \in Nat /\ k + (w - k) = w
    BY <1>2
  <2>2. Pow2[k + (w - k)] = Pow2[k] * Pow2[w - k]
    BY <2>1, Pow2Sum
  <2> QED BY <1>1, <2>1, <2>2, Pow2Step
<1>4. PICK s \in Int : s = Signed(a) /\ s \in -h..(h - 1) /\ a = sym_build_integer(s, w) /\ a.w = w
  BY <1>1, SignedIs, TermIs
<1>5. PICK z \in Int : z = s * p
  OBVIOUS
<1>6. PICK t \in Term(w) : t = sym_build_shift_left(a, b) /\ t = sym_build_integer(z, w)
  <2>1. sym_build_integer(z, w) \in Term(w)
    BY IntegerIs
  <2>2. sym_build_shift_left(a, b) = sym_build_integer(z, w)
    <3>1. sym_build_shift_left(a, b) = sym_build_integer(Signed(a) * Pow2[b.v], w)
      BY ShiftLeftIs
    <3>2. Signed(a) * Pow2[b.v] = z
      BY <1>2, <1>3, <1>4, <1>5
    <3> QED BY <3>1, <3>2
  <2> QED BY <2>1, <2>2
<1>7. PICK x \in Int : x = Signed(t) /\ x \in -h..(h - 1) /\ t = sym_build_integer(x, w) /\ t.w = w
  BY <1>1, SignedIs, TermIs
<1>8. PICK d \in Int : x = z + m * d
  <2>1. sym_build_integer(x, w) = sym_build_integer(z, w) /\ w \in Nat
    BY <1>6, <1>7
  <2>2. PICK d \in Int : x = z + Pow2[w] * d
    BY <2>1, IntegerEqual
  <2> QED BY <1>1, <2>2
<1>9. /\ x \div p = s + q * d
      /\ \A e \in Int : s + q * d = s + m * e => d = 0
      /\ d = 0 <=> s * p \in -h..(h - 1)
  <2>1. x = s * p + m * d
    BY <1>5, <1>8
  <2>2. s \in -h..(h - 1) /\ x \in -h..(h - 1)
    BY <1>4, <1>7
  <2>3. ShiftedBy(h, m, p, q, s, x, d)
    BY <1>1, <1>3, <2>1, <2>2 DEF ShiftedBy
  <2>4. UndoneBy(h, m, p, q, s, x, d)
    BY <2>3, ShiftIsUndone, Zenon
  <2> QED BY <2>4 DEF UndoneBy
<1>10. PICK y \in Int : y = s + q * d
  <2>1. q * d \in Int
    OBVIOUS
  <2> QED BY <2>1
<1>11. sym_build_arithmetic_shift_right(t, b) = sym_build_integer(y, w)
  <2>1. (IF b.v >= t.w THEN t.w ELSE b.v) = k
    BY <1>2, <1>7
  <2>2. x \div p = y
    BY <1>9, <1>10
  <2> QED BY <1>3, <1>7, <2>1, <2>2 DEF sym_build_arithmetic_shift_right
<1>12. sym_build_shift_left_overflow(a, b) <=> sym_build_integer(y, w) # sym_build_integer(s, w)
  BY <1>4, <1>6, <1>11 DEF sym_build_shift_left_overflow, sym_build_not_equal
<1>13. sym_build_integer(y, w) = sym_build_integer(s, w) <=> d = 0
  <2>1. ASSUME d = 0 PROVE sym_build_integer(y, w) = sym_build_integer(s, w)
    <3>1. y = s
      BY <1>10, <2>1
    <3> QED BY <3>1
  <2>2. ASSUME sym_build_integer(y, w) = sym_build_integer(s, w) PROVE d = 0
    <3>1. PICK e \in Int : y = s + Pow2[w] * e
      BY <2>2, IntegerEqual
    <3>2. s + q * d = s + m * e
      BY <1>1, <1>10, <3>1
    <3> QED BY <1>9, <3>2
  <2> QED BY <2>1, <2>2
<1>14. d = 0 <=> Signed(a) * Pow2[b.v] \in -(Pow2[w - 1])..(Pow2[w - 1] - 1)
  <2>1. d = 0 <=> s * p \in -h..(h - 1)
    BY <1>9
  <2> QED BY <1>1, <1>2, <1>3, <1>4, <2>1
<1> QED BY <1>12, <1>13, <1>14

\* _sym_build_sshl_sat.
LEMMA SignedShift ==
  ASSUME NEW w \in Nat \ {0}, w \in Width, NEW one \in {0, 1}, ~(w = HostBits /\ one = 1),
         NEW a \in Term(w), NEW b \in Term(w), b.v < w
  PROVE  sym_build_sshl_sat(a, b, one) = ClampedSigned(Signed(a) * Pow2[b.v], w)
<1>1. PICK h \in Nat \ {0} : h = Pow2[w - 1]
  BY Powers
<1>2. PICK s \in Int : s = Signed(a) /\ s \in -h..(h - 1) /\ (s < 0 <=> a.v >= h) /\ a.w = w
  BY <1>1, SignedIs, TermIs
<1>3. PICK p \in Nat \ {0} : p = Pow2[b.v]
  BY ShiftLeftIs
<1>4. PICK z \in Int : z = s * p /\ z = Signed(a) * Pow2[b.v]
  BY <1>2, <1>3
<1>5. sym_build_shift_left(a, b) = sym_build_integer(z, w)
  <2>1. sym_build_shift_left(a, b) = sym_build_integer(Signed(a) * Pow2[b.v], w)
    BY ShiftLeftIs
  <2> QED BY <1>4, <2>1
<1>6. sym_build_shift_left_overflow(a, b) <=> ~(z \in -h..(h - 1))
  <2>1. sym_build_shift_left_overflow(a, b)
           <=> ~(Signed(a) * Pow2[b.v] \in -(Pow2[w - 1])..(Pow2[w - 1] - 1))
    BY ShiftOverflowIs
  <2> QED BY <1>1, <1>4, <2>1
<1>7. sym_build_bit_to_bool(sym_extract_helper(a, a.w - 1, a.w - 1)) <=> s < 0
  <2>1. sym_build_bit_to_bool(sym_extract_helper(a, w - 1, w - 1)) <=> a.v >= Pow2[w - 1]
    BY BitIs
  <2> QED BY <1>1, <1>2, <2>1
<1>8. /\ buildMinSignedInt(w) = sym_build_integer(-h, w)
      /\ buildMaxSignedInt(w, one) = sym_build_integer(h - 1, w)
  BY <1>1, LimitsAre
<1>9. ClampedSigned(z, w) = sym_build_integer(Clamped(z, -h, h - 1), w)
  BY <1>1 DEF ClampedSigned
<1>10. CASE z \in -h..(h - 1)
  <2>1. ~(z < -h) /\ ~(z > h - 1)
    BY <1>10
  <2>2. Clamped(z, -h, h - 1) = z
    BY <2>1 DEF Clamped
  <2>3. sym_build_sshl_sat(a, b, one) = sym_build_integer(z, w)
    BY <1>5, <1>6, <1>10 DEF sym_build_sshl_sat, sym_build_ite
  <2> QED BY <1>4, <1>9, <2>2, <2>3
<1>11. CASE ~(z \in -h..(h - 1)) /\ s < 0
  <2>1. z <= 0
    BY <1>4, <1>11
  <2>2. z < -h
    BY <1>11, <2>1
  <2>3. Clamped(z, -h, h - 1) = -h
    BY <2>2 DEF Clamped
  <2>4. sym_build_sshl_sat(a, b, one) = sym_build_integer(-h, w)
    BY <1>2, <1>6, <1>7, <1>8, <1>11 DEF sym_build_sshl_sat, sym_build_ite
  <2> QED BY <1>4, <1>9, <2>3, <2>4
<1>12. CASE ~(z \in -h..(h - 1)) /\ ~(s < 0)
  <2>1. z >= 0
    BY <1>4, <1>12
  <2>2. z > h - 1 /\ ~(z < -h)
    BY <1>12, <2>1
  <2>3. Clamped(z, -h, h - 1) = h - 1
    BY <2>2 DEF Clamped
  <2>4. sym_build_sshl_sat(a, b, one) = sym_build_integer(h - 1, w)
    BY <1>2, <1>6, <1>7, <1>8, <1>12 DEF sym_build_sshl_sat, sym_build_ite
  <2> QED BY <1>4, <1>9, <2>3, <2>4
<1> QED BY <1>10, <1>11, <1>12

\* _sym_build_ushl_sat, where unsigned and signed overflow are the same.
LEMMA UnsignedShift ==
  ASSUME NEW w \in Nat \ {0}, w \in Width, NEW one \in {0, 1}, ~(w = HostBits /\ one = 1),
         NEW a \in Term(w), NEW b \in Term(w), b.v < w,
         a.v * Pow2[b.v] >= Pow2[w]
           <=> ~(Signed(a) * Pow2[b.v] \in -(Pow2[w - 1])..(Pow2[w - 1] - 1))
  PROVE  sym_build_ushl_sat(a, b, one) = ClampedUnsigned(a.v * Pow2[b.v], w)
<1>1. PICK m \in Nat \ {0} : m = Pow2[w]
  BY Powers
<1>2. PICK v \in Int : v = a.v /\ v \in 0..(m - 1) /\ a.w = w
  BY <1>1, TermIs
<1>3. PICK p \in Nat \ {0} : p = Pow2[b.v]
  BY ShiftLeftIs
<1>4. PICK z \in Int : z = v * p /\ z = a.v * Pow2[b.v] /\ z >= 0
  <2>1. v * p \in Int /\ v * p >= 0
    BY <1>2
  <2> QED BY <1>2, <1>3, <2>1
<1>5. sym_build_shift_left(a, b) = sym_build_integer(z, w)
  <2>1. sym_build_shift_left(a, b) = sym_build_integer(a.v * Pow2[b.v], w)
    BY ShiftLeftIs
  <2> QED BY <1>4, <2>1
<1>6. sym_build_shift_left_overflow(a, b) <=> z >= m
  <2>1. sym_build_shift_left_overflow(a, b)
           <=> ~(Signed(a) * Pow2[b.v] \in -(Pow2[w - 1])..(Pow2[w - 1] - 1))
    BY ShiftOverflowIs
  <2>2. a.v * Pow2[b.v] >= Pow2[w] <=> z >= m
    BY <1>1, <1>4
  <2> QED BY <2>1, <2>2
<1>7. buildMaxUnsignedInt(w, one) = sym_build_integer(m - 1, w)
  BY <1>1, LimitsAre
<1>8. sym_build_ushl_sat(a, b, one)
         = IF z >= m THEN sym_build_integer(m - 1, w) ELSE sym_build_integer(z, w)
  BY <1>2, <1>5, <1>6, <1>7 DEF sym_build_ushl_sat, sym_build_ite
<1>9. ClampedUnsigned(z, w) = sym_build_integer(Clamped(z, 0, m - 1), w)
  BY <1>1 DEF ClampedUnsigned
<1>10. Clamped(z, 0, m - 1) = IF z >= m THEN m - 1 ELSE z
  <2>1. z >= m <=> z > m - 1
    OBVIOUS
  <2>2. ~(z < 0)
    BY <1>4
  <2> QED BY <2>1, <2>2 DEF Clamped
<1>11. sym_build_ushl_sat(a, b, one) = ClampedUnsigned(z, w)
  BY <1>8, <1>9, <1>10
<1> QED BY <1>4, <1>11

-------------------------------------------------------------------------------
(* Floating-point comparisons. *)

\* Two numbers are in one of four relations.
LEMMA OrderIs ==
  ASSUME NEW a \in Float, NEW b \in Float
  PROVE  /\ Order(a, b) \in {"u", "lt", "eq", "gt"}
         /\ Order(a, b) = "u" <=> (a = NaN \/ b = NaN)
         /\ Order(a, b) = "lt" <=> (a # NaN /\ b # NaN /\ a < b)
         /\ Order(a, b) = "eq" <=> (a # NaN /\ b # NaN /\ a = b)
         /\ Order(a, b) = "gt" <=> (a # NaN /\ b # NaN /\ a > b)
<1>1. CASE a = NaN \/ b = NaN
  BY <1>1 DEF Order
<1>2. CASE a # NaN /\ b # NaN
  <2>1. a \in Int /\ b \in Int
    BY <1>2, BuildersAssumption DEF Float
  <2> QED BY <1>2, <2>1 DEF Order
<1> QED BY <1>1, <1>2

\* Each of the predicates accepts the relations it should.
LEMMA ComparisonIs ==
  ASSUME NEW fn \in Comparison, NEW a \in Float, NEW b \in Float,
         ~(fn = "one" /\ NaN \in {a, b}), NEW c, c = [fn |-> fn, a |-> a, b |-> b]
  PROVE  ComparisonTerm(c) = (Order(a, b) \in Accepts[fn])
<1>1. c.fn = fn /\ c.a = a /\ c.b = b
  OBVIOUS
<1>2. a # NaN /\ b # NaN => a \in Int /\ b \in Int
  BY BuildersAssumption DEF Float
<1>3. CASE fn = "ogt"
  <2>1. ComparisonTerm(c) = float_ordered_greater_than(a, b)
    BY <1>1, <1>3 DEF ComparisonTerm
  <2>2. Order(a, b) \in Accepts[fn] <=> float_ordered_greater_than(a, b)
    BY <1>2, <1>3, OrderIs
       DEF Accepts, float_ordered_greater_than
  <2>3. float_ordered_greater_than(a, b) \in BOOLEAN
    BY DEF float_ordered_greater_than
  <2> QED BY <2>1, <2>2, <2>3
<1>4. CASE fn = "oge"
  <2>1. ComparisonTerm(c) = float_ordered_greater_equal(a, b)
    BY <1>1, <1>4 DEF ComparisonTerm
  <2>2. Order(a, b) \in Accepts[fn] <=> float_ordered_greater_equal(a, b)
    BY <1>2, <1>4, OrderIs
       DEF Accepts, float_ordered_greater_equal
  <2>3. float_ordered_greater_equal(a, b) \in BOOLEAN
    BY DEF float_ordered_greater_equal
  <2> QED BY <2>1, <2>2, <2>3
<1>5. CASE fn = "olt"
  <2>1. ComparisonTerm(c) = float_ordered_less_than(a, b)
    BY <1>1, <1>5 DEF ComparisonTerm
  <2>2. Order(a, b) \in Accepts[fn] <=> float_ordered_less_than(a, b)
    BY <1>2, <1>5, OrderIs
       DEF Accepts, float_ordered_less_than
  <2>3. float_ordered_less_than(a, b) \in BOOLEAN
    BY DEF float_ordered_less_than
  <2> QED BY <2>1, <2>2, <2>3
<1>6. CASE fn = "ole"
  <2>1. ComparisonTerm(c) = float_ordered_less_equal(a, b)
    BY <1>1, <1>6 DEF ComparisonTerm
  <2>2. Order(a, b) \in Accepts[fn] <=> float_ordered_less_equal(a, b)
    BY <1>2, <1>6, OrderIs
       DEF Accepts, float_ordered_less_equal
  <2>3. float_ordered_less_equal(a, b) \in BOOLEAN
    BY DEF float_ordered_less_equal
  <2> QED BY <2>1, <2>2, <2>3
<1>7. CASE fn = "oeq"
  <2>1. ComparisonTerm(c) = float_ordered_equal(a, b)
    BY <1>1, <1>7 DEF ComparisonTerm
  <2>2. Order(a, b) \in Accepts[fn] <=> float_ordered_equal(a, b)
    BY <1>2, <1>7, OrderIs
       DEF Accepts, float_ordered_equal
  <2>3. float_ordered_equal(a, b) \in BOOLEAN
    BY DEF float_ordered_equal
  <2> QED BY <2>1, <2>2, <2>3
<1>8. CASE fn = "one"
  <2>1. ComparisonTerm(c) = float_ordered_not_equal(a, b)
    BY <1>1, <1>8 DEF ComparisonTerm
  <2>2. Order(a, b) \in Accepts[fn] <=> float_ordered_not_equal(a, b)
    BY <1>2, <1>8, OrderIs
       DEF Accepts, float_ordered_not_equal, float_ordered_equal
  <2>3. float_ordered_not_equal(a, b) \in BOOLEAN
    BY DEF float_ordered_not_equal
  <2> QED BY <2>1, <2>2, <2>3
<1>9. CASE fn = "ord"
  <2>1. ComparisonTerm(c) = float_ordered(a, b)
    BY <1>1, <1>9 DEF ComparisonTerm
  <2>2. Order(a, b) \in Accepts[fn] <=> float_ordered(a, b)
    BY <1>2, <1>9, OrderIs
       DEF Accepts, float_ordered, float_unordered
  <2>3. float_ordered(a, b) \in BOOLEAN
    BY DEF float_ordered
  <2> QED BY <2>1, <2>2, <2>3
<1>10. CASE fn = "ugt"
  <2>1. ComparisonTerm(c) = float_unordered_greater_than(a, b)
    BY <1>1, <1>10 DEF ComparisonTerm
  <2>2. Order(a, b) \in Accepts[fn] <=> float_unordered_greater_than(a, b)
    BY <1>2, <1>10, OrderIs
       DEF Accepts, float_unordered_greater_than, float_ordered_greater_than
  <2>3. float_unordered_greater_than(a, b) \in BOOLEAN
    BY DEF float_unordered_greater_than
  <2> QED BY <2>1, <2>2, <2>3
<1>11. CASE fn = "uge"
  <2>1. ComparisonTerm(c) = float_unordered_greater_equal(a, b)
    BY <1>1, <1>11 DEF ComparisonTerm
  <2>2. Order(a, b) \in Accepts[fn] <=> float_unordered_greater_equal(a, b)
    BY <1>2, <1>11, OrderIs
       DEF Accepts, float_unordered_greater_equal, float_ordered_greater_equal
  <2>3. float_unordered_greater_equal(a, b) \in BOOLEAN
    BY DEF float_unordered_greater_equal
  <2> QED BY <2>1, <2>2, <2>3
<1>12. CASE fn = "ult"
  <2>1. ComparisonTerm(c) = float_unordered_less_than(a, b)
    BY <1>1, <1>12 DEF ComparisonTerm
  <2>2. Order(a, b) \in Accepts[fn] <=> float_unordered_less_than(a, b)
    BY <1>2, <1>12, OrderIs
       DEF Accepts, float_unordered_less_than, float_ordered_less_than
  <2>3. float_unordered_less_than(a, b) \in BOOLEAN
    BY DEF float_unordered_less_than
  <2> QED BY <2>1, <2>2, <2>3
<1>13. CASE fn = "ule"
  <2>1. ComparisonTerm(c) = float_unordered_less_equal(a, b)
    BY <1>1, <1>13 DEF ComparisonTerm
  <2>2. Order(a, b) \in Accepts[fn] <=> float_unordered_less_equal(a, b)
    BY <1>2, <1>13, OrderIs
       DEF Accepts, float_unordered_less_equal, float_ordered_less_equal
  <2>3. float_unordered_less_equal(a, b) \in BOOLEAN
    BY DEF float_unordered_less_equal
  <2> QED BY <2>1, <2>2, <2>3
<1>14. CASE fn = "ueq"
  <2>1. ComparisonTerm(c) = float_unordered_equal(a, b)
    BY <1>1, <1>14 DEF ComparisonTerm
  <2>2. Order(a, b) \in Accepts[fn] <=> float_unordered_equal(a, b)
    BY <1>2, <1>14, OrderIs
       DEF Accepts, float_unordered_equal, float_ordered_equal
  <2>3. float_unordered_equal(a, b) \in BOOLEAN
    BY DEF float_unordered_equal
  <2> QED BY <2>1, <2>2, <2>3
<1>15. CASE fn = "une"
  <2>1. ComparisonTerm(c) = float_unordered_not_equal(a, b)
    BY <1>1, <1>15 DEF ComparisonTerm
  <2>2. Order(a, b) \in Accepts[fn] <=> float_unordered_not_equal(a, b)
    BY <1>2, <1>15, OrderIs
       DEF Accepts, float_unordered_not_equal, float_ordered_not_equal, float_ordered_equal
  <2>3. float_unordered_not_equal(a, b) \in BOOLEAN
    BY DEF float_unordered_not_equal
  <2> QED BY <2>1, <2>2, <2>3
<1>16. CASE fn = "uno"
  <2>1. ComparisonTerm(c) = float_unordered(a, b)
    BY <1>1, <1>16 DEF ComparisonTerm
  <2>2. Order(a, b) \in Accepts[fn] <=> float_unordered(a, b)
    BY <1>2, <1>16, OrderIs
       DEF Accepts, float_unordered
  <2>3. float_unordered(a, b) \in BOOLEAN
    BY DEF float_unordered
  <2> QED BY <2>1, <2>2, <2>3
<1> QED BY <1>3, <1>4, <1>5, <1>6, <1>7, <1>8, <1>9, <1>10, <1>11, <1>12, <1>13, <1>14, <1>15, <1>16 DEF Comparison

-------------------------------------------------------------------------------
(* The overflow of an addition, a subtraction and a multiplication. *)

\* The number that an operand stands for.
Number(t, signed) == IF signed THEN Signed(t) ELSE t.v
Least(w, signed) == IF signed THEN -(Pow2[w - 1]) ELSE 0

\* The operands are extended to what they are.
LEMMA NumberIs ==
  ASSUME NEW w \in Nat \ {0}, NEW t \in Term(w), NEW signed \in BOOLEAN, NEW n \in Nat
  PROVE  /\ t.w = w /\ Number(t, signed) \in Int
         /\ signed => Number(t, signed) \in -(Pow2[w - 1])..(Pow2[w - 1] - 1)
         /\ ~signed => Number(t, signed) \in 0..(Pow2[w] - 1)
         /\ t = sym_build_integer(Number(t, signed), w)
         /\ Extended(t, signed, n) = sym_build_integer(Number(t, signed), w + n)
<1>1. t.w = w /\ t.v \in 0..(Pow2[w] - 1) /\ t = sym_build_integer(t.v, w)
  BY TermIs
<1>2. Signed(t) \in -(Pow2[w - 1])..(Pow2[w - 1] - 1) /\ t = sym_build_integer(Signed(t), w)
  BY SignedIs
<1>3. Pow2[w] \in Nat /\ Pow2[w - 1] \in Nat
  BY Powers
<1>4. CASE signed
  BY <1>1, <1>2, <1>3, <1>4 DEF Number, Extended, sym_build_sext
<1>5. CASE ~signed
  BY <1>1, <1>2, <1>3, <1>5 DEF Number, Extended, sym_build_zext
<1> QED BY <1>4, <1>5

\* The wide result is the extension of the narrow one if it fits.
LEMMA SignedOverflow ==
  ASSUME NEW w \in Nat \ {0}, NEW n \in Nat, NEW x \in Int,
         x \in -(Pow2[w + n - 1])..(Pow2[w + n - 1] - 1)
  PROVE  OverflowOf(sym_build_integer(x, w + n), sym_build_integer(x, w), TRUE)
           <=> ~(x \in -(Pow2[w - 1])..(Pow2[w - 1] - 1))
<1>1. PICK k \in Nat \ {0} : k = w + n /\ w <= k /\ k - w = n
  OBVIOUS
<1>2. PICK h \in Nat \ {0}, g \in Nat \ {0} : h = Pow2[w - 1] /\ g = Pow2[k - 1] /\ h <= g
  <2>1. w - 1 \in Nat /\ k - 1 \in Nat /\ w - 1 <= k - 1
    BY <1>1
  <2> QED BY <2>1, Pow2Step, Pow2Monotone
<1>3. PICK t \in Term(w) : t = sym_build_integer(x, w) /\ t.w = w
  BY IntegerIs
<1>4. PICK y \in Int : y = Signed(t) /\ y \in -h..(h - 1)
  BY <1>2, SignedIs
<1>5. sym_build_sext(t, n) = sym_build_integer(y, k)
  BY <1>1, <1>3, <1>4 DEF sym_build_sext
<1>6. sym_build_integer(x, k).w = k
  BY <1>1, IntegerIs
<1>7. OverflowOf(sym_build_integer(x, k), t, TRUE)
        <=> sym_build_integer(x, k) # sym_build_integer(y, k)
  BY <1>1, <1>3, <1>5, <1>6 DEF OverflowOf, sym_build_not_equal
<1>8. sym_build_integer(x, k) = sym_build_integer(y, k) => x = y
  <2>1. Signed(sym_build_integer(x, k)) = x
    BY <1>1, <1>2, SignedInteger
  <2>2. y \in -g..(g - 1)
    BY <1>2, <1>4
  <2>3. Signed(sym_build_integer(y, k)) = y
    BY <1>2, <2>2, SignedInteger
  <2> QED BY <2>1, <2>3
<1>9. x = y <=> x \in -h..(h - 1)
  <2>1. ASSUME x \in -h..(h - 1) PROVE x = y
    BY <1>2, <1>3, <1>4, <2>1, SignedInteger
  <2> QED BY <1>4, <2>1
<1>10. OverflowOf(sym_build_integer(x, k), t, TRUE) <=> ~(x \in -h..(h - 1))
  BY <1>7, <1>8, <1>9
<1> QED BY <1>1, <1>2, <1>3, <1>10

\* The topmost bit of the wide result.
LEMMA UnsignedOverflow ==
  ASSUME NEW w \in Nat \ {0}, NEW x \in Int, NEW narrow
  PROVE  OverflowOf(sym_build_integer(x, w), narrow, FALSE)
           <=> x % Pow2[w] >= Pow2[w - 1]
<1>1. PICK t \in Term(w) : t = sym_build_integer(x, w) /\ t.w = w /\ t.v = x % Pow2[w]
  BY IntegerIs
<1>2. sym_build_equal(sym_extract_helper(t, w - 1, w - 1), sym_build_integer(1, 1))
        <=> t.v >= Pow2[w - 1]
  BY BitIs
<1> QED BY <1>1, <1>2 DEF OverflowOf, TopBit

\* The range of the numbers of w bits.
InRange(x, w, signed) ==
  x \in Least(w, signed)..(Least(w, signed) + Pow2[w] - 1)

\* One more bit is enough for sums and differences.
LEMMA OneMoreBit ==
  ASSUME NEW w \in Nat \ {0}, NEW signed \in BOOLEAN, NEW x \in Int, NEW narrow,
         narrow = sym_build_integer(x, w),
         signed => x \in -(Pow2[w])..(Pow2[w] - 1),
         ~signed => x \in -(Pow2[w])..(2 * Pow2[w] - 1)
  PROVE  OverflowOf(sym_build_integer(x, w + 1), narrow, signed) <=> ~InRange(x, w, signed)
<1>1. PICK h \in Nat \ {0}, m \in Nat \ {0} :
        h = Pow2[w - 1] /\ m = Pow2[w] /\ m = 2 * h /\ Pow2[w + 1] = 2 * m
  BY Powers
<1>2. w + 1 \in Nat \ {0} /\ (w + 1) - 1 = w /\ w + 1 - 1 = w /\ 1 \in Nat
  OBVIOUS
<1>3. CASE signed
  <2>1. OverflowOf(sym_build_integer(x, w + 1), sym_build_integer(x, w), TRUE) <=> ~(x \in -h..(h - 1))
    <3>1. x \in -(Pow2[w + 1 - 1])..(Pow2[w + 1 - 1] - 1)
      BY <1>2, <1>3
    <3>2. OverflowOf(sym_build_integer(x, w + 1), sym_build_integer(x, w), TRUE)
           <=> ~(x \in -(Pow2[w - 1])..(Pow2[w - 1] - 1))
      BY <1>2, <3>1, SignedOverflow
    <3> QED BY <1>1, <3>2
  <2>2. InRange(x, w, signed) <=> x \in -h..(h - 1)
    <3>1. Least(w, signed) = -h
      BY <1>1, <1>3 DEF Least
    <3>2. -h + m - 1 = h - 1
      BY <1>1
    <3> QED BY <1>1, <3>1, <3>2 DEF InRange
  <2>3. signed = TRUE
    BY <1>3
  <2> QED BY <2>1, <2>2, <2>3
<1>4. CASE ~signed
  <2>1. OverflowOf(sym_build_integer(x, w + 1), narrow, FALSE) <=> x % (2 * m) >= m
    <3>1. OverflowOf(sym_build_integer(x, w + 1), narrow, FALSE)
           <=> x % Pow2[w + 1] >= Pow2[(w + 1) - 1]
      BY <1>2, UnsignedOverflow
    <3> QED BY <1>1, <1>2, <3>1
  <2>2. InRange(x, w, signed) <=> x \in 0..(m - 1)
    <3>1. Least(w, signed) = 0
      BY <1>4 DEF Least
    <3> QED BY <1>1, <3>1 DEF InRange
  <2>3. PICK n \in Nat \ {0} : n = 2 * m
    OBVIOUS
  <2>4. CASE x < 0
    <3>1. x + n \in 0..(n - 1) /\ x = n * (-1) + (x + n) /\ -1 \in Int
      BY <1>1, <1>4, <2>3, <2>4
    <3>2. x % n = x + n
      BY <3>1, RemainderIs
    <3>3. x + n >= m
      BY <1>1, <1>4, <2>3
    <3>4. x % (2 * m) >= m /\ ~(x \in 0..(m - 1)) /\ signed = FALSE
      BY <1>4, <2>3, <2>4, <3>2, <3>3
    <3> QED BY <2>1, <2>2, <3>4
  <2>5. CASE x >= 0
    <3>1. x \in 0..(n - 1) /\ x = n * 0 + x /\ 0 \in Int
      BY <1>1, <1>4, <2>3, <2>5
    <3>2. x % n = x
      BY <3>1, RemainderIs
    <3>3. x >= m <=> ~(x \in 0..(m - 1))
      BY <2>5
    <3>4. x % (2 * m) = x /\ signed = FALSE
      BY <1>4, <2>3, <3>2
    <3> QED BY <2>1, <2>2, <3>3, <3>4
  <2> QED BY <2>4, <2>5
<1> QED BY <1>3, <1>4

\* Twice the bits are enough for products, but the topmost bit of an unsigned one
\* shows less than what is lost.
LEMMA TwiceTheBits ==
  ASSUME NEW w \in Nat \ {0}, NEW signed \in BOOLEAN, NEW x \in Int, NEW narrow,
         narrow = sym_build_integer(x, w),
         signed => x \in -(Pow2[w - 1] * Pow2[w - 1])..(Pow2[w - 1] * Pow2[w - 1]),
         ~signed => x \in 0..(Pow2[w] * Pow2[w] - 1) /\ ~(x \in Pow2[w]..(Pow2[2 * w - 1] - 1))
  PROVE  OverflowOf(sym_build_integer(x, w + w), narrow, signed) <=> ~InRange(x, w, signed)
<1>1. PICK h \in Nat \ {0}, m \in Nat \ {0} : h = Pow2[w - 1] /\ m = Pow2[w] /\ m = 2 * h
  BY Powers
<1>2. /\ w + w \in Nat \ {0} /\ w + w - 1 = w + (w - 1) /\ 2 * w - 1 = w + (w - 1)
      /\ w \in Nat /\ w - 1 \in Nat /\ (w + w) - 1 = w + (w - 1)
  OBVIOUS
<1>3. PICK k \in Nat \ {0} : k = h * h
  OBVIOUS
<1>4. Pow2[w + (w - 1)] = 2 * k /\ Pow2[w + w] = 4 * k
  <2>1. Pow2[w + (w - 1)] = m * h /\ Pow2[w + w] = m * m
    BY <1>1, <1>2, Pow2Sum
  <2>2. m * h = 2 * k /\ m * m = 4 * k
    BY <1>1, <1>3
  <2> QED BY <2>1, <2>2
<1>5. m <= 2 * k
  <2>1. h * h >= h
    <3>1. h - 1 \in Nat /\ (h - 1) * h >= 0
      OBVIOUS
    <3>2. h * h = h + (h - 1) * h
      OBVIOUS
    <3> QED BY <3>1, <3>2
  <2> QED BY <1>1, <1>3, <2>1
<1>6. CASE signed
  <2>1. x \in -(2 * k)..(2 * k - 1)
    <3>1. Pow2[w - 1] * Pow2[w - 1] = k
      BY <1>1, <1>3
    <3> QED BY <1>6, <3>1
  <2>2. OverflowOf(sym_build_integer(x, w + w), sym_build_integer(x, w), TRUE) <=> ~(x \in -h..(h - 1))
    <3>1. x \in -(Pow2[w + w - 1])..(Pow2[w + w - 1] - 1)
      BY <1>2, <1>4, <2>1
    <3>2. OverflowOf(sym_build_integer(x, w + w), sym_build_integer(x, w), TRUE)
           <=> ~(x \in -(Pow2[w - 1])..(Pow2[w - 1] - 1))
      BY <1>2, <3>1, SignedOverflow
    <3> QED BY <1>1, <3>2
  <2>3. InRange(x, w, signed) <=> x \in -h..(h - 1)
    <3>1. Least(w, signed) = -h
      BY <1>1, <1>6 DEF Least
    <3>2. -h + m - 1 = h - 1
      BY <1>1
    <3> QED BY <1>1, <3>1, <3>2 DEF InRange
  <2>4. signed = TRUE
    BY <1>6
  <2> QED BY <2>2, <2>3, <2>4
<1>7. CASE ~signed
  <2>1. OverflowOf(sym_build_integer(x, w + w), narrow, FALSE) <=> x % (4 * k) >= 2 * k
    <3>1. OverflowOf(sym_build_integer(x, w + w), narrow, FALSE)
           <=> x % Pow2[w + w] >= Pow2[(w + w) - 1]
      BY <1>2, UnsignedOverflow
    <3> QED BY <1>2, <1>4, <3>1
  <2>2. InRange(x, w, signed) <=> x \in 0..(m - 1)
    <3>1. Least(w, signed) = 0
      BY <1>7 DEF Least
    <3> QED BY <1>1, <3>1 DEF InRange
  <2>3. x \in 0..(4 * k - 1) /\ ~(x \in m..(2 * k - 1))
    <3>1. Pow2[w] * Pow2[w] = 4 * k
      BY <1>1, <1>3
    <3> QED BY <1>1, <1>2, <1>4, <1>7, <3>1
  <2>4. PICK n \in Nat \ {0} : n = 4 * k
    OBVIOUS
  <2>5. x % n = x
    <3>1. x \in 0..(n - 1) /\ x = n * 0 + x /\ 0 \in Int
      BY <2>3, <2>4
    <3> QED BY <3>1, RemainderIs
  <2>6. x >= 2 * k <=> ~(x \in 0..(m - 1))
    BY <1>5, <2>3
  <2> QED BY <1>7, <2>1, <2>2, <2>4, <2>5, <2>6
<1> QED BY <1>6, <1>7

\* Products fit in twice the bits.
LEMMA SignedProduct ==
  ASSUME NEW h \in Nat \ {0}, NEW x \in Int, NEW y \in Int,
         x \in -h..(h - 1), y \in -h..(h - 1)
  PROVE  x * y \in -(h * h)..(h * h)
<1>1. x * y <= h * h
  <2>1. CASE x >= 0 /\ y >= 0
    <3>1. x * y <= h * y /\ h * y <= h * h
      BY <2>1
    <3> QED BY <3>1
  <2>2. CASE x < 0 /\ y < 0
    <3>1. PICK u \in Nat, v \in Nat : u = -x /\ v = -y /\ u <= h /\ v <= h
      BY <2>2
    <3>2. x * y = u * v
      BY <3>1
    <3>3. u * v <= h * v /\ h * v <= h * h
      BY <3>1
    <3> QED BY <3>2, <3>3
  <2>3. CASE (x >= 0 /\ y < 0) \/ (x < 0 /\ y >= 0)
    <3>1. x * y <= 0 /\ h * h >= 0
      BY <2>3
    <3> QED BY <3>1
  <2> QED BY <2>1, <2>2, <2>3
<1>2. x * y >= -(h * h)
  <2>1. CASE (x >= 0 /\ y >= 0) \/ (x < 0 /\ y < 0)
    <3>1. x * y >= 0 /\ h * h >= 0
      BY <2>1
    <3> QED BY <3>1
  <2>2. CASE x >= 0 /\ y < 0
    <3>1. PICK v \in Nat : v = -y /\ v <= h
      BY <2>2
    <3>2. x * y = -(x * v)
      BY <3>1
    <3>3. x * v <= h * v /\ h * v <= h * h
      BY <2>2, <3>1
    <3> QED BY <3>2, <3>3
  <2>3. CASE x < 0 /\ y >= 0
    <3>1. PICK u \in Nat : u = -x /\ u <= h
      BY <2>3
    <3>2. x * y = -(u * y)
      BY <3>1
    <3>3. u * y <= h * y /\ h * y <= h * h
      BY <2>3, <3>1
    <3> QED BY <3>2, <3>3
  <2> QED BY <2>1, <2>2, <2>3
<1>3. x * y \in Int /\ h * h \in Int
  OBVIOUS
<1> QED BY <1>1, <1>2, <1>3

LEMMA UnsignedProduct ==
  ASSUME NEW m \in Nat \ {0}, NEW x \in Int, NEW y \in Int,
         x \in 0..(m - 1), y \in 0..(m - 1)
  PROVE  x * y \in 0..(m * m - 1)
<1>1. x * y >= 0
  OBVIOUS
<1>2. x * y <= m * y /\ m * y <= m * (m - 1)
  OBVIOUS
<1>3. m * (m - 1) = m * m - m
  OBVIOUS
<1>4. x * y \in Int /\ m * m \in Int /\ m * y \in Int
  OBVIOUS
<1> QED BY <1>1, <1>2, <1>3, <1>4

\* The number and the flag that go into {iN, i1}.
LEMMA OverflowTermIs ==
  ASSUME NEW w \in Nat \ {0}, NEW a \in Term(w), NEW b \in Term(w),
         NEW signed \in BOOLEAN, NEW le \in BOOLEAN, NEW fn \in Overflowing,
         NEW c, c = [fn |-> fn, a |-> a, b |-> b, signed |-> signed, le |-> le],
         ~(fn = "mul_overflow" /\ ~signed /\ a.v * b.v \in Pow2[w]..(Pow2[2 * w - 1] - 1))
  PROVE  /\ ExactResult(c) \in Int /\ Overflows(c) \in BOOLEAN
         /\ OverflowTerm(c)
              = buildOverflowResult(sym_build_integer(ExactResult(c), w), Overflows(c), le)
<1>1. c.fn = fn /\ c.a = a /\ c.b = b /\ c.signed = signed /\ c.le = le /\ a.w = w /\ b.w = w
  BY TermIs
<1>2. PICK h \in Nat \ {0}, m \in Nat \ {0} : h = Pow2[w - 1] /\ m = Pow2[w] /\ m = 2 * h
  BY Powers
<1>3. PICK x \in Int : x = Number(a, signed)
  BY NumberIs
<1>4. PICK y \in Int : y = Number(b, signed)
  BY NumberIs
<1>5. /\ signed => x \in -h..(h - 1) /\ y \in -h..(h - 1)
      /\ ~signed => x \in 0..(m - 1) /\ y \in 0..(m - 1)
  BY <1>2, <1>3, <1>4, NumberIs
<1>6. a = sym_build_integer(x, w) /\ b = sym_build_integer(y, w)
  BY <1>3, <1>4, NumberIs
<1>7. ASSUME NEW n \in Nat
      PROVE  /\ Extended(a, signed, n) = sym_build_integer(x, w + n)
             /\ Extended(b, signed, n) = sym_build_integer(y, w + n)
  BY <1>3, <1>4, NumberIs
<1>8. 1 \in Nat /\ w \in Nat /\ w + 1 \in Nat /\ w + w \in Nat
  OBVIOUS
<1>9. Overflows(c) = ~InRange(ExactResult(c), w, signed)
  BY <1>1, Zenon DEF Overflows, InRange, Least
<1>10. ASSUME NEW z, NEW wide, NEW narrow, z \in Int, ExactResult(c) = z, narrow = sym_build_integer(z, w),
              OverflowOf(wide, narrow, signed) <=> ~InRange(z, w, signed),
              OverflowTerm(c) = buildOverflowResult(narrow, OverflowOf(wide, narrow, signed), le)
       PROVE  /\ ExactResult(c) \in Int /\ Overflows(c) \in BOOLEAN
              /\ OverflowTerm(c)
                   = buildOverflowResult(sym_build_integer(ExactResult(c), w), Overflows(c), le)
  <2>1. InRange(z, w, signed) \in BOOLEAN
    BY DEF InRange
  <2>2. OverflowOf(wide, narrow, signed) \in BOOLEAN
    BY DEF OverflowOf, sym_build_not_equal, sym_build_equal
  <2>3. OverflowOf(wide, narrow, signed) = Overflows(c)
    BY <1>9, <1>10, <2>1, <2>2
  <2> QED BY <1>9, <1>10, <2>1, <2>3
<1>11. CASE fn = "add_overflow"
  <2>1. PICK z \in Int : z = x + y
    OBVIOUS
  <2>2. ExactResult(c) = z
    BY <1>1, <1>3, <1>4, <1>11, <2>1 DEF ExactResult, Number
  <2>3. PICK wide, narrow : /\ wide = sym_build_add(Extended(a, signed, 1), Extended(b, signed, 1))
                            /\ narrow = sym_build_add(a, b)
    OBVIOUS
  <2>4. narrow = sym_build_integer(z, w)
    BY <1>6, <1>8, <2>1, <2>3, IntegerAdd
  <2>5. wide = sym_build_integer(z, w + 1)
    <3>1. Extended(a, signed, 1) = sym_build_integer(x, w + 1)
      BY <1>7, <1>8
    <3>2. Extended(b, signed, 1) = sym_build_integer(y, w + 1)
      BY <1>7, <1>8
    <3> QED BY <1>8, <2>1, <2>3, <3>1, <3>2, IntegerAdd
  <2>6. /\ signed => z \in -(Pow2[w])..(Pow2[w] - 1)
        /\ ~signed => z \in -(Pow2[w])..(2 * Pow2[w] - 1)
    BY <1>2, <1>5, <2>1
  <2>7. OverflowOf(wide, narrow, signed) <=> ~InRange(z, w, signed)
    BY <2>4, <2>5, <2>6, OneMoreBit
  <2>8. OverflowTerm(c) = buildOverflowResult(narrow, OverflowOf(wide, narrow, signed), le)
    BY <1>1, <1>11, <2>3 DEF OverflowTerm, sym_build_add_overflow
  <2> QED BY <1>10, <2>2, <2>4, <2>7, <2>8
<1>12. CASE fn = "sub_overflow"
  <2>1. PICK z \in Int : z = x - y
    OBVIOUS
  <2>2. ExactResult(c) = z
    BY <1>1, <1>3, <1>4, <1>12, <2>1 DEF ExactResult, Number
  <2>3. PICK wide, narrow : /\ wide = sym_build_sub(Extended(a, signed, 1), Extended(b, signed, 1))
                            /\ narrow = sym_build_sub(a, b)
    OBVIOUS
  <2>4. narrow = sym_build_integer(z, w)
    BY <1>6, <1>8, <2>1, <2>3, IntegerSub
  <2>5. wide = sym_build_integer(z, w + 1)
    <3>1. Extended(a, signed, 1) = sym_build_integer(x, w + 1)
      BY <1>7, <1>8
    <3>2. Extended(b, signed, 1) = sym_build_integer(y, w + 1)
      BY <1>7, <1>8
    <3> QED BY <1>8, <2>1, <2>3, <3>1, <3>2, IntegerSub
  <2>6. /\ signed => z \in -(Pow2[w])..(Pow2[w] - 1)
        /\ ~signed => z \in -(Pow2[w])..(2 * Pow2[w] - 1)
    BY <1>2, <1>5, <2>1
  <2>7. OverflowOf(wide, narrow, signed) <=> ~InRange(z, w, signed)
    BY <2>4, <2>5, <2>6, OneMoreBit
  <2>8. OverflowTerm(c) = buildOverflowResult(narrow, OverflowOf(wide, narrow, signed), le)
    BY <1>1, <1>12, <2>3 DEF OverflowTerm, sym_build_sub_overflow
  <2> QED BY <1>10, <2>2, <2>4, <2>7, <2>8
<1>13. CASE fn = "mul_overflow"
  <2>1. PICK z \in Int : z = x * y
    OBVIOUS
  <2>2. ExactResult(c) = z
    BY <1>1, <1>3, <1>4, <1>13, <2>1 DEF ExactResult, Number
  <2>3. PICK wide, narrow : /\ wide = sym_build_mul(Extended(a, signed, w), Extended(b, signed, w))
                            /\ narrow = sym_build_mul(a, b)
    OBVIOUS
  <2>4. narrow = sym_build_integer(z, w)
    BY <1>6, <1>8, <2>1, <2>3, IntegerMul
  <2>5. wide = sym_build_integer(z, w + w)
    <3>1. Extended(a, signed, w) = sym_build_integer(x, w + w)
      BY <1>7, <1>8
    <3>2. Extended(b, signed, w) = sym_build_integer(y, w + w)
      BY <1>7, <1>8
    <3> QED BY <1>8, <2>1, <2>3, <3>1, <3>2, IntegerMul
  <2>6. /\ signed => z \in -(Pow2[w - 1] * Pow2[w - 1])..(Pow2[w - 1] * Pow2[w - 1])
        /\ ~signed => z \in 0..(Pow2[w] * Pow2[w] - 1) /\ ~(z \in Pow2[w]..(Pow2[2 * w - 1] - 1))
    <3>1. ASSUME signed PROVE z \in -(h * h)..(h * h)
      BY <1>5, <2>1, <3>1, SignedProduct
    <3>2. ASSUME ~signed PROVE z \in 0..(m * m - 1) /\ z = a.v * b.v
      <4>1. z \in 0..(m * m - 1)
        BY <1>5, <2>1, <3>2, UnsignedProduct
      <4>2. x = a.v /\ y = b.v
        BY <1>3, <1>4, <3>2 DEF Number
      <4> QED BY <2>1, <4>1, <4>2
    <3> QED BY <1>2, <1>13, <3>1, <3>2
  <2>7. OverflowOf(wide, narrow, signed) <=> ~InRange(z, w, signed)
    BY <2>4, <2>5, <2>6, TwiceTheBits
  <2>8. OverflowTerm(c) = buildOverflowResult(narrow, OverflowOf(wide, narrow, signed), le)
    BY <1>1, <1>13, <2>3 DEF OverflowTerm, sym_build_mul_overflow
  <2> QED BY <1>10, <2>2, <2>4, <2>7, <2>8
<1> QED BY <1>11, <1>12, <1>13 DEF Overflowing

-------------------------------------------------------------------------------
(* Bytes. *)

\* The weight of byte k, counted from the least significant one, and its value.
Weight(k) == Pow2[ByteBits * k]
Byte(x, k) == (x \div Weight(k)) % Pow2[ByteBits]

\* The weights of the bytes.
LEMMA WeightIs ==
  /\ Weight(0) = 1 /\ Weight(1) = Pow2[ByteBits] /\ Pow2[ByteBits] \in Nat \ {0}
  /\ \A k \in Nat : Weight(k) \in Nat \ {0} /\ Pow2[k * ByteBits] = Weight(k)
  /\ \A j, k \in Nat : Weight(j + k) = Weight(j) * Weight(k)
<1>1. PICK b \in Nat \ {0} : b = ByteBits
  BY BuildersAssumption
<1>2. b * 0 = 0 /\ b * 1 = b
  OBVIOUS
<1>3. Weight(0) = 1 /\ Weight(1) = Pow2[ByteBits] /\ Pow2[ByteBits] \in Nat \ {0}
  BY <1>1, <1>2, Pow2Step DEF Weight
<1>4. ASSUME NEW k \in Nat PROVE Weight(k) \in Nat \ {0} /\ Pow2[k * ByteBits] = Weight(k)
  <2>1. b * k \in Nat /\ k * b = b * k
    OBVIOUS
  <2> QED BY <1>1, <2>1, Pow2Step DEF Weight
<1>5. ASSUME NEW j \in Nat, NEW k \in Nat PROVE Weight(j + k) = Weight(j) * Weight(k)
  <2>1. PICK p \in Nat, q \in Nat : p = b * j /\ q = b * k
    OBVIOUS
  <2>2. b * (j + k) = p + q
    BY <2>1
  <2>3. Pow2[p + q] = Pow2[p] * Pow2[q]
    BY Pow2Sum
  <2> QED BY <1>1, <2>1, <2>2, <2>3 DEF Weight
<1> QED BY <1>3, <1>4, <1>5

\* The bytes below byte n do not depend on multiples of its weight.
LEMMA ByteOfSum ==
  ASSUME NEW x \in Int, NEW d \in Int, NEW k \in Nat, NEW n \in Nat, k < n
  PROVE  Byte(x + Weight(n) * d, k) = Byte(x, k)
<1>1. n - k - 1 \in Nat /\ n - k \in Nat /\ k + (n - k) = n /\ 1 + (n - k - 1) = n - k /\ 1 \in Nat
  OBVIOUS
<1>2. PICK b \in Nat \ {0}, p \in Nat \ {0}, q \in Nat \ {0}, r \in Nat \ {0} :
        b = Pow2[ByteBits] /\ p = Weight(k) /\ q = Weight(n - k) /\ r = Weight(n - k - 1)
  BY <1>1, WeightIs
<1>3. Weight(n) = p * q /\ q = b * r
  <2>1. Weight(k + (n - k)) = Weight(k) * Weight(n - k)
    BY <1>1, WeightIs
  <2>2. Weight(1 + (n - k - 1)) = Weight(1) * Weight(n - k - 1)
    BY <1>1, WeightIs
  <2> QED BY <1>1, <1>2, <2>1, <2>2, WeightIs
<1>4. PICK e \in Int, f \in Int : e = q * d /\ f = r * d
  OBVIOUS
<1>5. Weight(n) * d = p * e /\ e = b * f
  <2>1. (p * q) * d = p * (q * d) /\ (b * r) * d = b * (r * d)
    OBVIOUS
  <2> QED BY <1>3, <1>4, <2>1
<1>6. PICK y \in Int : y = x \div p
  OBVIOUS
<1>7. (x + p * e) \div p = y + e
  BY <1>6, AddMultiple
<1>8. (y + b * f) % b = y % b
  BY AddMultiple
<1> QED BY <1>2, <1>5, <1>6, <1>7, <1>8 DEF Byte

\* Dividing by a weight drops the bytes below.
LEMMA ByteOfQuotient ==
  ASSUME NEW x \in Int, NEW j \in Nat, NEW k \in Nat
  PROVE  Byte(x \div Weight(j), k) = Byte(x, j + k)
<1>1. PICK p \in Nat \ {0}, q \in Nat \ {0} : p = Weight(j) /\ q = Weight(k)
  BY WeightIs
<1>2. Weight(j + k) = p * q
  BY <1>1, WeightIs
<1>3. (x \div p) \div q = x \div (p * q)
  BY DivideTwice
<1> QED BY <1>1, <1>2, <1>3 DEF Byte

\* The bytes of a number that is put together from two.
LEMMA ByteOfPair ==
  ASSUME NEW x \in Int, NEW n \in Nat, NEW y \in Int, y \in 0..(Weight(n) - 1), NEW k \in Nat,
         NEW z \in Int, z = x * Weight(n) + y
  PROVE  Byte(z, k) = IF k < n THEN Byte(y, k) ELSE Byte(x, k - n)
<1>1. PICK p \in Nat \ {0} : p = Weight(n)
  BY WeightIs
<1>2. CASE k < n
  <2>1. z = y + Weight(n) * x
    BY <1>1
  <2> QED BY <1>2, <2>1, ByteOfSum
<1>3. CASE ~(k < n)
  <2>1. PICK j \in Nat : j = k - n /\ n + j = k
    BY <1>3
  <2>2. z \div p = x
    <3>1. z = p * x + y /\ y \in 0..(p - 1)
      BY <1>1
    <3> QED BY <3>1, RemainderIs
  <2>3. Byte(z \div Weight(n), j) = Byte(z, n + j)
    BY ByteOfQuotient
  <2> QED BY <1>1, <1>3, <2>1, <2>2, <2>3
<1> QED BY <1>2, <1>3

\* A number is determined by its bytes.
LEMMA SameBytes ==
  ASSUME NEW n \in Nat, NEW x \in Int, NEW y \in Int,
         x \in 0..(Weight(n) - 1), y \in 0..(Weight(n) - 1),
         \A k \in 0..(n - 1) : Byte(x, k) = Byte(y, k)
  PROVE  x = y
<1> DEFINE Same(u, v, i) == \A k \in 0..(i - 1) : Byte(u, k) = Byte(v, k)
           S == {i \in Nat : \A u, v \in 0..(Weight(i) - 1) : Same(u, v, i) => u = v}
<1>1. 0 \in S
  <2>1. 0 \in Nat /\ Weight(0) = 1
    BY WeightIs
  <2>2. ASSUME NEW u \in 0..(Weight(0) - 1), NEW v \in 0..(Weight(0) - 1) PROVE u = v
    BY <2>1
  <2> QED BY <2>1, <2>2
<1>2. ASSUME NEW i \in S PROVE i + 1 \in S
  <2>1. i \in Nat /\ i + 1 \in Nat /\ 1 + i = i + 1
    OBVIOUS
  <2>2. SUFFICES ASSUME NEW u \in Int, NEW v \in Int,
                        u \in 0..(Weight(i + 1) - 1), v \in 0..(Weight(i + 1) - 1), Same(u, v, i + 1)
                 PROVE  u = v
    <3>1. Weight(i + 1) \in Nat
      BY <2>1, WeightIs
    <3> QED BY <2>1, <3>1
  <2>3. PICK b \in Nat \ {0}, p \in Nat \ {0} : b = Weight(1) /\ b = Pow2[ByteBits] /\ p = Weight(i) /\ Weight(i + 1) = b * p
    <3>1. Weight(1 + i) = Weight(1) * Weight(i)
      BY <2>1, WeightIs
    <3> QED BY <2>1, <3>1, WeightIs
  <2>4. PICK q \in Int, r \in 0..(b - 1) : q = u \div b /\ r = u % b /\ u = b * q + r
    <3> HIDE DEF S, Same
    <3> QED BY QuotientAndRemainder
  <2>5. PICK s \in Int, t \in 0..(b - 1) : s = v \div b /\ t = v % b /\ v = b * s + t
    <3> HIDE DEF S, Same
    <3> QED BY QuotientAndRemainder
  <2>6. ASSUME NEW x1 \in Int, x1 \in 0..(b * p - 1), NEW q1 \in Int, NEW r1 \in 0..(b - 1), x1 = b * q1 + r1
        PROVE  q1 \in 0..(p - 1)
    <3>1. q1 >= 0
      <4>1. CASE q1 <= -1
        <5>1. b * q1 <= -b
          BY <4>1
        <5> QED BY <2>6, <5>1
      <4> QED BY <4>1
    <3>2. q1 <= p - 1
      <4>1. CASE q1 >= p
        <5>1. b * q1 >= b * p
          BY <4>1
        <5> QED BY <2>6, <5>1
      <4> QED BY <4>1
    <3> QED BY <3>1, <3>2
  <2>7. q \in 0..(p - 1) /\ s \in 0..(p - 1)
    BY <2>2, <2>3, <2>4, <2>5, <2>6
  <2>8. r = t
    <3>1. 0 \in 0..((i + 1) - 1) /\ Weight(0) = 1
      BY <2>1, WeightIs
    <3>2. Byte(u, 0) = Byte(v, 0)
      BY <2>2, <3>1
    <3>3. u \div 1 = u /\ v \div 1 = v
      OBVIOUS
    <3> QED BY <2>3, <2>4, <2>5, <3>1, <3>2, <3>3 DEF Byte
  <2>9. Same(q, s, i)
    <3> SUFFICES ASSUME NEW k \in 0..(i - 1) PROVE Byte(q, k) = Byte(s, k)
      OBVIOUS
    <3>1. k \in Nat /\ 1 \in Nat /\ 1 + k \in 0..((i + 1) - 1)
      BY <2>1
    <3>2. Byte(u \div Weight(1), k) = Byte(u, 1 + k) /\ Byte(v \div Weight(1), k) = Byte(v, 1 + k)
      <4>1. Byte(u \div Weight(1), k) = Byte(u, 1 + k)
        BY <3>1, ByteOfQuotient
      <4>2. Byte(v \div Weight(1), k) = Byte(v, 1 + k)
        BY <3>1, ByteOfQuotient
      <4> QED BY ONLY <4>1, <4>2
    <3>3. Byte(u, 1 + k) = Byte(v, 1 + k)
      BY <2>2, <3>1
    <3> QED BY <2>3, <2>4, <2>5, <3>2, <3>3
  <2> HIDE DEF Same
  <2>10. q = s
    BY <2>3, <2>7, <2>9
  <2> QED BY <2>4, <2>5, <2>8, <2>10
<1>3. S = Nat
  <2> HIDE DEF S
  <2>1. S \in SUBSET Nat
    BY DEF S
  <2> QED BY <1>1, <1>2, <2>1, Induction
<1>4. Same(x, y, n)
  OBVIOUS
<1> HIDE DEF Same
<1> QED BY <1>3, <1>4

-------------------------------------------------------------------------------
(* Terms as sequences of bytes, in the order of memory. *)

\* t has n bytes, and those of f.
Holds(t, n, f) ==
  /\ t = [w |-> n * ByteBits, v |-> t.v] /\ t.v \in 0..(Weight(n) - 1)
  /\ \A k \in 0..(n - 1) : Byte(t.v, n - 1 - k) = f[k]

\* Another name for the same bytes.
LEMMA HoldsSame ==
  ASSUME NEW t, NEW n \in Nat, NEW f, NEW g, Holds(t, n, f), \A k \in 0..(n - 1) : g[k] = f[k]
  PROVE  Holds(t, n, g)
  BY DEF Holds

\* It is what the invariant says of aggregates, ...
LEMMA HoldsIsImage ==
  ASSUME NEW t, NEW n \in Nat, NEW f, Holds(t, n, f)
  PROVE  IsImage(t, n, f)
<1>1. ASSUME NEW k \in 0..(n - 1) PROVE ByteOf(t.v, n, k, FALSE) = f[k]
  BY DEF Holds, ByteOf, Byte, Weight
<1>2. t.w = n * ByteBits
  BY DEF Holds
<1> QED BY <1>1, <1>2 DEF IsImage

\* ... and there is one such term.
LEMMA HoldsUnique ==
  ASSUME NEW t, NEW u, NEW n \in Nat, NEW f, Holds(t, n, f), Holds(u, n, f)
  PROVE  t = u
<1>1. Weight(n) \in Nat \ {0}
  BY WeightIs
<1>2. PICK x \in Int : x = t.v /\ x \in 0..(Weight(n) - 1)
  BY <1>1 DEF Holds
<1>3. PICK y \in Int : y = u.v /\ y \in 0..(Weight(n) - 1)
  BY <1>1 DEF Holds
<1>4. ASSUME NEW k \in 0..(n - 1) PROVE Byte(x, k) = Byte(y, k)
  <2>1. n - 1 - k \in 0..(n - 1) /\ n - 1 - (n - 1 - k) = k
    OBVIOUS
  <2>2. Byte(t.v, n - 1 - (n - 1 - k)) = f[n - 1 - k]
    BY <2>1 DEF Holds
  <2>3. Byte(u.v, n - 1 - (n - 1 - k)) = f[n - 1 - k]
    BY <2>1 DEF Holds
  <2> QED BY <1>2, <1>3, <2>1, <2>2, <2>3
<1>5. x = y
  BY <1>2, <1>3, <1>4, SameBytes
<1>6. t = [w |-> n * ByteBits, v |-> t.v] /\ u = [w |-> n * ByteBits, v |-> u.v]
  BY DEF Holds
<1> QED BY <1>2, <1>3, <1>5, <1>6

\* A constant of n bytes holds the bytes of the number, also of a negative one.
LEMMA IntegerHolds ==
  ASSUME NEW x \in Int, NEW n \in Nat, NEW f,
         \A k \in 0..(n - 1) : f[k] = ByteOf(x, n, k, FALSE)
  PROVE  Holds(sym_build_integer(x, n * ByteBits), n, f)
<1>1. PICK m \in Nat \ {0} : m = Weight(n) /\ Pow2[n * ByteBits] = m
  BY WeightIs
<1>2. PICK q \in Int, r \in 0..(m - 1) : q = x \div m /\ r = x % m /\ x = m * q + r
  BY QuotientAndRemainder
<1>3. sym_build_integer(x, n * ByteBits) = [w |-> n * ByteBits, v |-> r]
  BY <1>1, <1>2 DEF sym_build_integer
<1>4. ASSUME NEW k \in 0..(n - 1) PROVE Byte(r, n - 1 - k) = f[k]
  <2>1. PICK j \in Nat : j = n - 1 - k /\ j < n
    OBVIOUS
  <2>2. r \in Int /\ x = r + Weight(n) * q
    BY <1>1, <1>2
  <2>3. Byte(r + Weight(n) * q, j) = Byte(r, j)
    BY <2>1, <2>2, ByteOfSum
  <2>4. f[k] = Byte(x, j)
    BY <2>1 DEF ByteOf, Byte, Weight
  <2> QED BY <2>1, <2>2, <2>3, <2>4
<1> QED BY <1>1, <1>3, <1>4 DEF Holds

\* Concatenation puts the bytes of one term after those of another.
LEMMA ConcatHolds ==
  ASSUME NEW a, NEW b, NEW m \in Nat, NEW n \in Nat, NEW f, NEW g, NEW h,
         Holds(a, m, f), Holds(b, n, g),
         \A k \in 0..(m - 1) : h[k] = f[k], \A k \in 0..(n - 1) : h[m + k] = g[k]
  PROVE  Holds(sym_concat_helper(a, b), m + n, h)
<1>1. PICK p \in Nat \ {0}, q \in Nat \ {0} : p = Weight(m) /\ q = Weight(n) /\ Weight(m + n) = p * q
  BY WeightIs
<1>2. PICK x \in Int : x = a.v /\ x \in 0..(p - 1) /\ a.w = m * ByteBits
  BY <1>1 DEF Holds
<1>3. PICK y \in Int : y = b.v /\ y \in 0..(q - 1) /\ b.w = n * ByteBits
  BY <1>1 DEF Holds
<1>4. PICK z \in Int : z = x * q + y
  <2>1. x * q \in Int
    OBVIOUS
  <2> QED BY <2>1
<1>5. m * ByteBits + n * ByteBits = (m + n) * ByteBits
  BY BuildersAssumption
<1>6. Pow2[n * ByteBits] = q
  BY <1>1, WeightIs
<1>7. sym_concat_helper(a, b) = [w |-> (m + n) * ByteBits, v |-> z]
  BY <1>2, <1>3, <1>4, <1>5, <1>6 DEF sym_concat_helper
<1>8. z \in 0..(p * q - 1)
  <2>1. x * q <= (p - 1) * q /\ x * q >= 0
    BY <1>2
  <2>2. (p - 1) * q = p * q - q
    OBVIOUS
  <2>3. PICK u \in Int, v \in Int : u = x * q /\ v = p * q
    OBVIOUS
  <2> QED BY <1>3, <1>4, <2>1, <2>2, <2>3
<1>9. ASSUME NEW k \in 0..(m + n - 1) PROVE Byte(z, m + n - 1 - k) = h[k]
  <2>1. PICK j \in Nat : j = m + n - 1 - k
    OBVIOUS
  <2>2. Byte(z, j) = IF j < n THEN Byte(y, j) ELSE Byte(x, j - n)
    <3>1. y \in 0..(Weight(n) - 1) /\ z = x * Weight(n) + y
      BY <1>1, <1>3, <1>4
    <3> QED BY <3>1, ByteOfPair
  <2>3. CASE j < n
    <3>1. k - m \in 0..(n - 1) /\ n - 1 - (k - m) = j /\ m + (k - m) = k
      BY <2>1, <2>3
    <3>2. Byte(b.v, n - 1 - (k - m)) = g[k - m]
      BY <3>1 DEF Holds
    <3>3. h[m + (k - m)] = g[k - m]
      BY <3>1
    <3> QED BY <1>3, <2>1, <2>2, <2>3, <3>1, <3>2, <3>3
  <2>4. CASE ~(j < n)
    <3>1. k \in 0..(m - 1) /\ m - 1 - k = j - n
      BY <2>1, <2>4
    <3>2. Byte(a.v, m - 1 - k) = f[k]
      BY <3>1 DEF Holds
    <3> QED BY <1>2, <2>1, <2>2, <2>4, <3>1, <3>2
  <2> QED BY <2>3, <2>4
<1>10. (m + n) \in Nat /\ [w |-> (m + n) * ByteBits, v |-> z].v = z
  OBVIOUS
<1> QED BY <1>1, <1>7, <1>8, <1>9, <1>10 DEF Holds

\* The n bytes from byte i on.
LEMMA RangeHolds ==
  ASSUME NEW t, NEW s \in Nat, NEW i \in Nat, NEW n \in Nat \ {0}, i + n <= s, NEW f, NEW g,
         Holds(t, s, f), \A k \in 0..(n - 1) : g[k] = f[i + k]
  PROVE  Holds(ByteRange(t, i, n), n, g)
<1>1. PICK b \in Nat \ {0} : b = ByteBits
  BY BuildersAssumption
<1>2. PICK j \in Nat : j = s - (i + n)
  OBVIOUS
<1>3. PICK l \in Nat, c \in Nat \ {0}, o \in Nat : l = j * b /\ c = n * b /\ o = i * b
  OBVIOUS
<1>4. s * b = o + c + l /\ (i + n) * b = o + c
  <2>1. s = i + n + j
    BY <1>2
  <2>2. (i + n + j) * b = i * b + n * b + j * b /\ (i + n) * b = i * b + n * b
    OBVIOUS
  <2> QED BY <1>3, <2>1, <2>2
<1>5. t.w = o + c + l /\ t.w - i * b - 1 = c + l - 1 /\ t.w - (i + n) * b = l
  <2>1. t.w = s * b
    BY <1>1 DEF Holds
  <2> QED BY <1>3, <1>4, <2>1
<1>6. ~(c + l - 1 < l \/ c + l - 1 >= o + c + l) /\ (c + l - 1 - l) + 1 = c
  OBVIOUS
<1>7. PICK x \in Int : x = t.v
  <2>1. Weight(s) \in Nat
    BY WeightIs
  <2> QED BY <2>1 DEF Holds
<1>8. ByteRange(t, i, n) = sym_extract_helper(t, c + l - 1, l)
  BY <1>1, <1>5 DEF ByteRange
<1>9. PICK y \in Int : y = x \div Weight(j)
  <2>1. Weight(j) \in Nat \ {0}
    BY WeightIs
  <2> QED BY <2>1
<1>10. ByteRange(t, i, n) = sym_build_integer(y, n * ByteBits)
  <2>1. Pow2[l] = Weight(j) /\ c = n * ByteBits
    BY <1>1, <1>3, WeightIs
  <2>2. sym_extract_helper(t, c + l - 1, l) = sym_build_integer(t.v \div Pow2[l], c)
    BY <1>5, <1>6 DEF sym_extract_helper
  <2> QED BY <1>7, <1>8, <1>9, <2>1, <2>2
<1>11. ASSUME NEW k \in 0..(n - 1) PROVE g[k] = ByteOf(y, n, k, FALSE)
  <2>1. PICK d \in Nat : d = n - 1 - k
    OBVIOUS
  <2>2. ByteOf(y, n, k, FALSE) = Byte(y, d)
    BY <2>1 DEF ByteOf, Byte, Weight
  <2>3. Byte(x \div Weight(j), d) = Byte(x, j + d)
    BY ByteOfQuotient
  <2>4. i + k \in 0..(s - 1) /\ s - 1 - (i + k) = j + d
    BY <1>2, <2>1
  <2>5. Byte(t.v, s - 1 - (i + k)) = f[i + k]
    BY <2>4 DEF Holds
  <2> QED BY <1>7, <1>9, <2>2, <2>3, <2>4, <2>5
<1> QED BY <1>10, <1>11, IntegerHolds

AnyTerm == [w : Nat, v : Nat]

\* What the loops compute.
LEMMA HoldsIsTerm ==
  ASSUME NEW t, NEW n \in Nat, NEW f, Holds(t, n, f)
  PROVE  t \in AnyTerm
<1>1. n * ByteBits \in Nat /\ Weight(n) \in Nat
  BY BuildersAssumption, WeightIs
<1> QED BY <1>1 DEF Holds, AnyTerm

LEMMA ConcatIsTerm ==
  ASSUME NEW a \in AnyTerm, NEW b \in AnyTerm
  PROVE  sym_concat_helper(a, b) \in AnyTerm
<1>1. PICK x \in Nat, y \in Nat, p \in Nat : x = a.v /\ y = b.v /\ p = Pow2[b.w]
  BY Pow2Step DEF AnyTerm
<1>2. x * p + y \in Nat
  <2>1. x * p \in Nat
    OBVIOUS
  <2> QED BY <2>1
<1> QED BY <1>1, <1>2 DEF AnyTerm, sym_concat_helper

\* The loop of _sym_build_extract.
Reversed(t, offset, n) ==
  LET reversed[i \in 0..n] ==
        IF i = 0 THEN ByteRange(t, offset, 1)
        ELSE sym_concat_helper(ByteRange(t, offset + i, 1), reversed[i - 1])
  IN reversed

LEMMA ReversedDefined ==
  ASSUME NEW t, NEW offset, NEW n \in Nat,
         \A i \in 0..n : ByteRange(t, offset + i, 1) \in AnyTerm,
         ByteRange(t, offset, 1) \in AnyTerm
  PROVE  \A i \in 0..n : Reversed(t, offset, n)[i] =
           IF i = 0 THEN ByteRange(t, offset, 1)
           ELSE sym_concat_helper(ByteRange(t, offset + i, 1), Reversed(t, offset, n)[i - 1])
<1> DEFINE base == ByteRange(t, offset, 1)
           step == [i \in 1..n |-> [e \in AnyTerm |-> sym_concat_helper(ByteRange(t, offset + i, 1), e)]]
<1>1. step \in [1..n -> [AnyTerm -> AnyTerm]]
  <2> SUFFICES ASSUME NEW i \in 1..n, NEW e \in AnyTerm
               PROVE  sym_concat_helper(ByteRange(t, offset + i, 1), e) \in AnyTerm
    OBVIOUS
  <2>1. ByteRange(t, offset + i, 1) \in AnyTerm
    OBVIOUS
  <2> QED BY <2>1, ConcatIsTerm
<1>2. PICK r \in [0..n -> AnyTerm] : Loop(n, r, base, step)
  <2> HIDE DEF base, step
  <2>1. base \in AnyTerm
    BY DEF base
  <2> QED BY <1>1, <2>1, LoopExists
<1>3. ASSUME NEW i \in 0..n
      PROVE  r[i] = IF i = 0 THEN ByteRange(t, offset, 1)
                    ELSE sym_concat_helper(ByteRange(t, offset + i, 1), r[i - 1])
  <2>1. r[i] = IF i = 0 THEN base ELSE step[i][r[i - 1]]
    <3> HIDE DEF base, step
    <3> QED BY <1>2 DEF Loop
  <2>2. CASE i # 0
    <3>1. i \in 1..n /\ r[i - 1] \in AnyTerm
      BY <2>2
    <3>2. step[i][r[i - 1]] = sym_concat_helper(ByteRange(t, offset + i, 1), r[i - 1])
      BY <3>1
    <3> HIDE DEF step
    <3> QED BY <2>1, <2>2, <3>2
  <2> QED BY <2>1, <2>2
<1>4. r = [i \in 0..n |-> IF i = 0 THEN ByteRange(t, offset, 1)
                          ELSE sym_concat_helper(ByteRange(t, offset + i, 1), r[i - 1])]
  <2>1. r = [i \in 0..n |-> r[i]]
    OBVIOUS
  <2> QED BY <1>3, <2>1
<1>5. \E q : q = [i \in 0..n |-> IF i = 0 THEN ByteRange(t, offset, 1)
                          ELSE sym_concat_helper(ByteRange(t, offset + i, 1), q[i - 1])]
  BY <1>4, Zenon
<1>6. Reversed(t, offset, n)
        = [i \in 0..n |-> IF i = 0 THEN ByteRange(t, offset, 1)
                          ELSE sym_concat_helper(ByteRange(t, offset + i, 1), Reversed(t, offset, n)[i - 1])]
  BY <1>5, Zenon DEF Reversed
<1> QED BY <1>6

\* Reading a field backwards.
LEMMA ReversedHolds ==
  ASSUME NEW t, NEW s \in Nat, NEW offset \in Nat, NEW n \in Nat \ {0}, offset + n <= s,
         NEW f, NEW g, Holds(t, s, f), \A k \in 0..(n - 1) : g[k] = f[offset + n - 1 - k]
  PROVE  Holds(sym_build_extract(t, offset, n, TRUE), n, g)
<1>1. PICK m \in Nat : m = n - 1 /\ n = m + 1
  OBVIOUS
<1> DEFINE byte(i) == [k \in 0..0 |-> f[offset + i]]
<1>2. ASSUME NEW i \in 0..m
      PROVE  Holds(ByteRange(t, offset + i, 1), 1, byte(i))
  <2>1. offset + i \in Nat /\ (offset + i) + 1 <= s /\ 1 \in Nat \ {0}
    BY <1>1
  <2>2. \A k \in 0..(1 - 1) : byte(i)[k] = f[(offset + i) + k]
    OBVIOUS
  <2> HIDE DEF byte
  <2> QED BY <2>1, <2>2, RangeHolds
<1> HIDE DEF byte
<1>3. ASSUME NEW i \in 0..m PROVE ByteRange(t, offset + i, 1) \in AnyTerm
  <2>1. 1 \in Nat
    OBVIOUS
  <2> QED BY <1>2, <2>1, HoldsIsTerm
<1>4. offset + 0 = offset /\ 0 \in 0..m
  OBVIOUS
<1>5. ByteRange(t, offset, 1) \in AnyTerm
  <2>1. ByteRange(t, offset + 0, 1) \in AnyTerm
    BY <1>3, <1>4
  <2> QED BY <1>4, <2>1
<1>6. PICK r : /\ r = Reversed(t, offset, m)
               /\ \A i \in 0..m : r[i] =
                    IF i = 0 THEN ByteRange(t, offset, 1)
                    ELSE sym_concat_helper(ByteRange(t, offset + i, 1), r[i - 1])
  BY <1>3, <1>5, ReversedDefined
<1>7. sym_build_extract(t, offset, n, TRUE) = r[m]
  <2>1. sym_build_extract(t, offset, n, TRUE) = Reversed(t, offset, n - 1)[n - 1]
    BY Zenon DEF sym_build_extract, Reversed
  <2> QED BY <1>1, <1>6, <2>1
<1> DEFINE bytes(i) == [k \in 0..i |-> f[offset + i - k]]
           S == {i \in Nat : i <= m => Holds(r[i], i + 1, bytes(i))}
<1>8. 0 \in S
  <2>1. r[0] = ByteRange(t, offset + 0, 1) /\ 0 + 1 = 1 /\ 1 \in Nat
    BY <1>4, <1>6
  <2>2. \A k \in 0..(1 - 1) : bytes(0)[k] = byte(0)[k]
    BY DEF byte
  <2>3. Holds(ByteRange(t, offset + 0, 1), 1, byte(0))
    BY <1>2, <1>4
  <2> HIDE DEF bytes
  <2>4. Holds(r[0], 0 + 1, bytes(0))
    BY <2>1, <2>2, <2>3, HoldsSame
  <2> QED BY <2>4
<1>9. ASSUME NEW i \in S PROVE i + 1 \in S
  <2>1. i \in Nat /\ i + 1 \in Nat /\ (i + 1) - 1 = i /\ 1 + (i + 1) = (i + 1) + 1 /\ 1 \in Nat
    OBVIOUS
  <2> SUFFICES ASSUME i + 1 <= m PROVE Holds(r[i + 1], (i + 1) + 1, bytes(i + 1))
    BY <2>1
  <2>2. i + 1 \in 0..m /\ i + 1 # 0 /\ i <= m
    BY <2>1
  <2>3. Holds(r[i], i + 1, bytes(i))
    BY <2>2
  <2>4. r[i + 1] = sym_concat_helper(ByteRange(t, offset + (i + 1), 1), r[i])
    BY <1>6, <2>1, <2>2
  <2>5. Holds(ByteRange(t, offset + (i + 1), 1), 1, byte(i + 1))
    BY <1>2, <2>2
  <2>6. \A k \in 0..(1 - 1) : bytes(i + 1)[k] = byte(i + 1)[k]
    BY <2>1 DEF byte
  <2>7. \A k \in 0..((i + 1) - 1) : bytes(i + 1)[1 + k] = bytes(i)[k]
    <3> SUFFICES ASSUME NEW k \in 0..((i + 1) - 1) PROVE bytes(i + 1)[1 + k] = bytes(i)[k]
      OBVIOUS
    <3>1. 1 + k \in 0..(i + 1) /\ k \in 0..i /\ offset + (i + 1) - (1 + k) = offset + i - k
      BY <2>1
    <3> QED BY <3>1
  <2> HIDE DEF bytes
  <2>8. Holds(sym_concat_helper(ByteRange(t, offset + (i + 1), 1), r[i]), 1 + (i + 1), bytes(i + 1))
    <3>1. PICK a, b, u, v, h : /\ a = ByteRange(t, offset + (i + 1), 1) /\ b = r[i]
                               /\ u = byte(i + 1) /\ v = bytes(i) /\ h = bytes(i + 1)
      OBVIOUS
    <3>2. PICK j \in Nat : j = i + 1
      BY <2>1
    <3>3. /\ Holds(a, 1, u) /\ Holds(b, j, v)
          /\ \A k \in 0..(1 - 1) : h[k] = u[k]
          /\ \A k \in 0..(j - 1) : h[1 + k] = v[k]
      BY <2>3, <2>5, <2>6, <2>7, <3>1, <3>2
    <3>4. Holds(sym_concat_helper(a, b), 1 + j, h)
      BY <2>1, <3>3, ConcatHolds
    <3> QED BY <3>1, <3>2, <3>4
  <2> QED BY <2>1, <2>4, <2>8
<1>10. S = Nat
  <2> HIDE DEF S
  <2>1. S \in SUBSET Nat
    BY DEF S
  <2> QED BY <1>8, <1>9, <2>1, Induction
<1>11. Holds(r[m], n, bytes(m))
  <2> HIDE DEF bytes
  <2>1. m \in S
    BY <1>10
  <2>2. Holds(r[m], m + 1, bytes(m))
    BY <2>1
  <2> QED BY <1>1, <2>2
<1>12. \A k \in 0..(n - 1) : g[k] = bytes(m)[k]
  <2> SUFFICES ASSUME NEW k \in 0..(n - 1) PROVE g[k] = bytes(m)[k]
    OBVIOUS
  <2>1. k \in 0..m /\ offset + n - 1 - k = offset + m - k
    BY <1>1
  <2> QED BY <2>1
<1> HIDE DEF bytes
<1>13. n \in Nat
  OBVIOUS
<1>14. Holds(r[m], n, g)
  BY <1>11, <1>12, <1>13, HoldsSame
<1> QED BY <1>7, <1>14

\* The loop of _sym_build_zero_bytes.
Zeros(n) ==
  LET zero == sym_build_integer(0, ByteBits)
      zeros[i \in 0..n] ==
        IF i = 0 THEN zero ELSE sym_concat_helper(zeros[i - 1], zero)
  IN zeros

ZeroByte == sym_build_integer(0, ByteBits)
NoBytes == [k \in Nat |-> 0]

\* _sym_build_zero_bytes.
LEMMA ByteOfZero ==
  ASSUME NEW n \in Nat, NEW k \in 0..(n - 1)
  PROVE  ByteOf(0, n, k, FALSE) = 0
<1>1. PICK p \in Nat \ {0}, b \in Nat \ {0} : p = Weight(n - 1 - k) /\ b = Pow2[ByteBits]
  <2>1. n - 1 - k \in Nat
    OBVIOUS
  <2> QED BY <2>1, WeightIs
<1>2. 0 \div p = 0
  <2>1. 0 = p * 0 + 0 /\ 0 \in 0..(p - 1) /\ 0 \in Int
    OBVIOUS
  <2> QED BY <2>1, RemainderIs
<1>3. 0 % b = 0
  <2>1. 0 = b * 0 + 0 /\ 0 \in 0..(b - 1) /\ 0 \in Int
    OBVIOUS
  <2> QED BY <2>1, RemainderIs
<1>4. ByteOf(0, n, k, FALSE) = (0 \div p) % b
  BY <1>1 DEF ByteOf, Weight
<1> QED BY <1>2, <1>3, <1>4

LEMMA ZeroByteHolds ==
  Holds(ZeroByte, 1, NoBytes) /\ ZeroByte \in AnyTerm
<1>1. \A k \in 0..(1 - 1) : NoBytes[k] = ByteOf(0, 1, k, FALSE)
  <2> SUFFICES ASSUME NEW k \in 0..(1 - 1) PROVE NoBytes[k] = ByteOf(0, 1, k, FALSE)
    OBVIOUS
  <2>1. 1 \in Nat /\ k \in Nat
    OBVIOUS
  <2>2. ByteOf(0, 1, k, FALSE) = 0
    BY <2>1, ByteOfZero
  <2> QED BY <2>1, <2>2 DEF NoBytes
<1>2. Holds(sym_build_integer(0, 1 * ByteBits), 1, NoBytes)
  <2>1. 0 \in Int /\ 1 \in Nat
    OBVIOUS
  <2> QED BY <1>1, <2>1, IntegerHolds
<1>3. 1 * ByteBits = ByteBits /\ 1 \in Nat
  BY BuildersAssumption
<1>4. Holds(ZeroByte, 1, NoBytes)
  BY <1>2, <1>3 DEF ZeroByte
<1> QED BY <1>3, <1>4, HoldsIsTerm

LEMMA ZerosDefined ==
  ASSUME NEW n \in Nat
  PROVE  \A i \in 0..n : Zeros(n)[i] =
           IF i = 0 THEN ZeroByte ELSE sym_concat_helper(Zeros(n)[i - 1], ZeroByte)
<1> DEFINE step == [i \in 1..n |-> [e \in AnyTerm |-> sym_concat_helper(e, ZeroByte)]]
<1>1. step \in [1..n -> [AnyTerm -> AnyTerm]]
  <2> SUFFICES ASSUME NEW e \in AnyTerm PROVE sym_concat_helper(e, ZeroByte) \in AnyTerm
    OBVIOUS
  <2> QED BY ZeroByteHolds, ConcatIsTerm
<1>2. PICK r \in [0..n -> AnyTerm] : Loop(n, r, ZeroByte, step)
  <2> HIDE DEF step
  <2> QED BY <1>1, ZeroByteHolds, LoopExists
<1>3. ASSUME NEW i \in 0..n
      PROVE  r[i] = IF i = 0 THEN ZeroByte ELSE sym_concat_helper(r[i - 1], ZeroByte)
  <2>1. r[i] = IF i = 0 THEN ZeroByte ELSE step[i][r[i - 1]]
    <3> HIDE DEF step
    <3> QED BY <1>2 DEF Loop
  <2>2. CASE i # 0
    <3>1. i \in 1..n /\ r[i - 1] \in AnyTerm
      BY <2>2
    <3>2. step[i][r[i - 1]] = sym_concat_helper(r[i - 1], ZeroByte)
      BY <3>1
    <3> HIDE DEF step
    <3> QED BY <2>1, <2>2, <3>2
  <2> QED BY <2>1, <2>2
<1>4. r = [i \in 0..n |-> IF i = 0 THEN ZeroByte ELSE sym_concat_helper(r[i - 1], ZeroByte)]
  <2>1. r = [i \in 0..n |-> r[i]]
    OBVIOUS
  <2> QED BY <1>3, <2>1
<1>5. \E q : q = [i \in 0..n |-> IF i = 0 THEN ZeroByte ELSE sym_concat_helper(q[i - 1], ZeroByte)]
  BY <1>4, Zenon
<1>6. Zeros(n) = [i \in 0..n |-> IF i = 0 THEN ZeroByte
                                 ELSE sym_concat_helper(Zeros(n)[i - 1], ZeroByte)]
  BY <1>5, Zenon DEF Zeros, ZeroByte
<1> QED BY <1>6

LEMMA ZerosHold ==
  ASSUME NEW n \in Nat \ {0}, NEW f, \A k \in 0..(n - 1) : f[k] = 0
  PROVE  Holds(sym_build_zero_bytes(n), n, f)
<1>1. PICK m \in Nat : m = n - 1 /\ n = m + 1
  OBVIOUS
<1>2. PICK r : /\ r = Zeros(m)
               /\ \A i \in 0..m : r[i] =
                    IF i = 0 THEN ZeroByte ELSE sym_concat_helper(r[i - 1], ZeroByte)
  BY ZerosDefined
<1>3. sym_build_zero_bytes(n) = r[m]
  <2>1. sym_build_zero_bytes(n) = Zeros(n - 1)[n - 1]
    BY Zenon DEF sym_build_zero_bytes, Zeros
  <2> QED BY <1>1, <1>2, <2>1
<1> DEFINE S == {i \in Nat : i <= m => Holds(r[i], i + 1, NoBytes)}
<1>4. 0 \in S
  <2>1. r[0] = ZeroByte /\ 0 + 1 = 1
    BY <1>2
  <2> QED BY <2>1, ZeroByteHolds
<1>5. ASSUME NEW i \in S PROVE i + 1 \in S
  <2>1. i \in Nat /\ i + 1 \in Nat /\ (i + 1) - 1 = i /\ 1 \in Nat
    OBVIOUS
  <2> SUFFICES ASSUME i + 1 <= m PROVE Holds(r[i + 1], (i + 1) + 1, NoBytes)
    BY <2>1
  <2>2. i + 1 \in 0..m /\ i + 1 # 0 /\ i <= m
    BY <2>1
  <2>0. PICK b : b = r[i]
    OBVIOUS
  <2>3. PICK j \in Nat : j = i + 1 /\ b = r[i] /\ Holds(b, j, NoBytes)
    BY <2>0, <2>1, <2>2
  <2>4. r[i + 1] = sym_concat_helper(b, ZeroByte)
    BY <1>2, <2>1, <2>2, <2>3
  <2>5. \A k \in 0..(j - 1) : NoBytes[k] = NoBytes[k]
    OBVIOUS
  <2>6. \A k \in 0..(1 - 1) : NoBytes[j + k] = NoBytes[k]
    BY DEF NoBytes
  <2>7. Holds(sym_concat_helper(b, ZeroByte), j + 1, NoBytes)
    BY <2>1, <2>3, <2>5, <2>6, ZeroByteHolds, ConcatHolds
  <2> QED BY <2>3, <2>4, <2>7
<1>6. S = Nat
  <2> HIDE DEF S
  <2>1. S \in SUBSET Nat
    BY DEF S
  <2> QED BY <1>4, <1>5, <2>1, Induction
<1>7. Holds(r[m], n, NoBytes)
  BY <1>1, <1>6
<1>8. \A k \in 0..(n - 1) : f[k] = NoBytes[k]
  BY DEF NoBytes
<1>9. n \in Nat
  OBVIOUS
<1>10. Holds(r[m], n, f)
  BY <1>7, <1>8, <1>9, HoldsSame
<1> QED BY <1>3, <1>10

\* The number of bytes of a term.
LEMMA WholeBytes ==
  ASSUME NEW t, NEW n \in Nat, NEW f, Holds(t, n, f)
  PROVE  t.w = n * ByteBits /\ t.w \div ByteBits = n
<1>1. PICK b \in Nat \ {0} : b = ByteBits
  BY BuildersAssumption
<1>2. t.w = n * b
  BY <1>1 DEF Holds
<1>3. PICK x \in Int : x = n * b /\ x = b * n + 0
  OBVIOUS
<1>4. 0 \in 0..(b - 1) /\ n \in Int
  OBVIOUS
<1>5. x \div b = n
  BY <1>3, <1>4, RemainderIs
<1> QED BY <1>1, <1>2, <1>3, <1>5

\* A number as it lies in memory: swapped on a little-endian machine.
LEMMA SwapHolds ==
  ASSUME NEW t, NEW n \in Nat \ {0}, NEW f, NEW g, Holds(t, n, f),
         \A k \in 0..(n - 1) : g[k] = f[n - 1 - k]
  PROVE  Holds(sym_build_bswap(t), n, g)
<1>1. n \in Nat
  OBVIOUS
<1>2. t.w \div ByteBits = n
  BY <1>1, WholeBytes
<1>3. /\ n \in Nat /\ 0 \in Nat /\ 0 + n <= n
      /\ \A k \in 0..(n - 1) : g[k] = f[0 + n - 1 - k]
  OBVIOUS
<1>4. Holds(sym_build_extract(t, 0, n, TRUE), n, g)
  BY <1>3, ReversedHolds
<1> QED BY <1>2, <1>4 DEF sym_build_bswap

\* A number as it lies in memory.
InMemoryOrder(t, le) == IF le THEN sym_build_bswap(t) ELSE t

LEMMA InMemoryHolds ==
  ASSUME NEW x \in Int, NEW n \in Nat \ {0}, NEW le \in BOOLEAN, NEW f,
         \A k \in 0..(n - 1) : f[k] = ByteOf(x, n, k, le)
  PROVE  Holds(InMemoryOrder(sym_build_integer(x, n * ByteBits), le), n, f)
<1>1. PICK t : t = sym_build_integer(x, n * ByteBits)
  OBVIOUS
<1>2. n \in Nat
  OBVIOUS
<1>3. CASE ~le
  <2>1. \A k \in 0..(n - 1) : f[k] = ByteOf(x, n, k, FALSE)
    BY <1>3
  <2>2. Holds(t, n, f)
    BY <1>1, <1>2, <2>1, IntegerHolds
  <2> QED BY <1>1, <1>3, <2>2 DEF InMemoryOrder
<1>4. CASE le
  <2> DEFINE g == [k \in 0..(n - 1) |-> ByteOf(x, n, k, FALSE)]
  <2>1. \A k \in 0..(n - 1) : g[k] = ByteOf(x, n, k, FALSE)
    OBVIOUS
  <2>2. ASSUME NEW k \in 0..(n - 1) PROVE f[k] = g[n - 1 - k]
    <3>1. n - 1 - k \in 0..(n - 1) /\ n - 1 - (n - 1 - k) = k
      OBVIOUS
    <3>2. g[n - 1 - k] = ByteOf(x, n, n - 1 - k, FALSE)
      BY <3>1
    <3>3. ByteOf(x, n, n - 1 - k, FALSE) = ByteOf(x, n, k, TRUE)
      BY <3>1 DEF ByteOf
    <3>4. f[k] = ByteOf(x, n, k, TRUE)
      BY <1>4
    <3> HIDE DEF g
    <3> QED BY <3>2, <3>3, <3>4
  <2> HIDE DEF g
  <2>3. Holds(t, n, g)
    BY <1>1, <1>2, <2>1, IntegerHolds
  <2>4. Holds(sym_build_bswap(t), n, f)
    BY <2>2, <2>3, SwapHolds
  <2> QED BY <1>1, <1>4, <2>4 DEF InMemoryOrder
<1> QED BY <1>3, <1>4

\* The flag, in a byte of its own.
LEMMA FlagHolds ==
  ASSUME NEW overflow \in BOOLEAN, NEW f, f[0] = IF overflow THEN 1 ELSE 0
  PROVE  Holds(sym_build_zext(sym_build_bool_to_bit(overflow), ByteBits - 1), 1, f)
<1>1. PICK b \in Nat \ {0} : b = ByteBits /\ 1 + (b - 1) = 1 * b
  BY BuildersAssumption
<1>2. PICK x \in 0..1 : x = IF overflow THEN 1 ELSE 0
  OBVIOUS
<1>3. Pow2[1] = 2
  <2>1. 0 + 1 = 1 /\ 0 \in Nat
    OBVIOUS
  <2> QED BY <2>1, Pow2Step
<1>4. sym_build_bool_to_bit(overflow) = [w |-> 1, v |-> x]
  <2>1. 1 \in Nat /\ 0 \in 0..(Pow2[1] - 1) /\ 1 \in 0..(Pow2[1] - 1)
    BY <1>3
  <2>2. sym_build_integer(0, 1) = [w |-> 1, v |-> 0] /\ sym_build_integer(1, 1) = [w |-> 1, v |-> 1]
    BY <2>1, IntegerFits
  <2> QED BY <1>2, <2>2 DEF sym_build_bool_to_bit, sym_build_ite
<1>5. sym_build_zext(sym_build_bool_to_bit(overflow), ByteBits - 1) = sym_build_integer(x, 1 * ByteBits)
  BY <1>1, <1>4 DEF sym_build_zext
<1>6. ByteOf(x, 1, 0, FALSE) = x
  <2>1. 1 - 1 - 0 = 0 /\ Weight(0) = 1 /\ x \div 1 = x
    BY WeightIs
  <2>2. PICK p \in Nat \ {0} : p = Pow2[ByteBits] /\ p >= 2
    <3>1. Pow2[b] \in Nat \ {0} /\ Pow2[1] <= Pow2[b]
      BY Pow2Step, Pow2Monotone
    <3> QED BY <1>1, <1>3, <3>1
  <2>3. x % p = x
    <3>1. x = p * 0 + x /\ x \in 0..(p - 1) /\ x \in Int /\ 0 \in Int
      BY <2>2
    <3> QED BY <3>1, RemainderIs
  <2>4. ByteOf(x, 1, 0, FALSE) = (x \div Weight(0)) % p
    BY <2>1, <2>2 DEF ByteOf, Weight
  <2> QED BY <2>1, <2>3, <2>4
<1>7. \A k \in 0..(1 - 1) : f[k] = ByteOf(x, 1, k, FALSE)
  <2> SUFFICES ASSUME NEW k \in 0..(1 - 1) PROVE f[k] = ByteOf(x, 1, k, FALSE)
    OBVIOUS
  <2>1. k = 0
    OBVIOUS
  <2>2. f[0] = ByteOf(x, 1, 0, FALSE)
    BY <1>2, <1>6
  <2> QED BY <2>1, <2>2
<1>8. x \in Int /\ 1 \in Nat
  OBVIOUS
<1>9. Holds(sym_build_integer(x, 1 * ByteBits), 1, f)
  BY <1>7, <1>8, IntegerHolds
<1> QED BY <1>5, <1>9

\* buildOverflowResult: the number, the flag and the padding.
LEMMA OverflowResultHolds ==
  ASSUME NEW x \in Int, NEW n \in Nat \ {0}, NEW overflow \in BOOLEAN, NEW le \in BOOLEAN,
         ~(~le /\ n > 1 /\ overflow), NEW f,
         \A k \in 0..(n - 1) : f[k] = ByteOf(x, n, k, le),
         f[n] = IF overflow THEN 1 ELSE 0,
         \A k \in (n + 1)..(2 * n - 1) : f[k] = 0
  PROVE  Holds(buildOverflowResult(sym_build_integer(x, n * ByteBits), overflow, le), 2 * n, f)
<1>1. PICK t : t = sym_build_integer(x, n * ByteBits)
  OBVIOUS
<1>2. n \in Nat /\ 1 \in Nat
  OBVIOUS
<1>3. t.w = n * ByteBits /\ t.w \div ByteBits = n
  <2> DEFINE g == [k \in 0..(n - 1) |-> ByteOf(x, n, k, FALSE)]
  <2>1. \A k \in 0..(n - 1) : g[k] = ByteOf(x, n, k, FALSE)
    OBVIOUS
  <2> HIDE DEF g
  <2>2. Holds(t, n, g)
    BY <1>1, <1>2, <2>1, IntegerHolds
  <2> QED BY <1>2, <2>2, WholeBytes
<1>4. PICK mem, flag, padding :
        /\ mem = InMemoryOrder(t, le)
        /\ flag = sym_build_zext(sym_build_bool_to_bit(overflow), ByteBits - 1)
        /\ padding = sym_build_zero_bytes(n - 1)
  OBVIOUS
<1>5. Holds(mem, n, f)
  BY <1>1, <1>4, InMemoryHolds
<1>6. buildOverflowResult(t, overflow, le) =
        sym_concat_helper(mem,
          CASE t.w = ByteBits        -> flag
            [] t.w # ByteBits /\ le  -> sym_concat_helper(flag, padding)
            [] t.w # ByteBits /\ ~le -> sym_concat_helper(padding, flag))
  BY <1>3, <1>4, Zenon DEF buildOverflowResult, InMemoryOrder
<1>7. t.w = ByteBits <=> n = 1
  <2>1. PICK b \in Nat \ {0} : b = ByteBits
    BY BuildersAssumption
  <2>2. n > 1 => n * b > b
    <3>1. ASSUME n > 1 PROVE n * b >= 2 * b
      BY <3>1
    <3> QED BY <3>1
  <2>3. n = 1 => n * b = b
    OBVIOUS
  <2> QED BY <1>3, <2>1, <2>2, <2>3
\* It is enough to look at what follows the number.
<1> DEFINE g == [k \in 0..(n - 1) |-> f[n + k]]
<1>8. ASSUME NEW rest, Holds(rest, n, g), buildOverflowResult(t, overflow, le) = sym_concat_helper(mem, rest)
      PROVE  Holds(buildOverflowResult(t, overflow, le), 2 * n, f)
  <2>1. \A k \in 0..(n - 1) : f[n + k] = g[k]
    OBVIOUS
  <2>2. \A k \in 0..(n - 1) : f[k] = f[k]
    OBVIOUS
  <2> HIDE DEF g
  <2>3. Holds(sym_concat_helper(mem, rest), n + n, f)
    BY <1>2, <1>5, <1>8, <2>1, <2>2, ConcatHolds
  <2>4. n + n = 2 * n
    OBVIOUS
  <2> QED BY <1>8, <2>3, <2>4
<1> DEFINE fl == [k \in 0..0 |-> IF overflow THEN 1 ELSE 0]
<1>9. Holds(flag, 1, fl)
  <2>1. fl[0] = IF overflow THEN 1 ELSE 0
    OBVIOUS
  <2> HIDE DEF fl
  <2> QED BY <1>4, <2>1, FlagHolds
<1>10. CASE n = 1
  <2>1. \A k \in 0..(1 - 1) : g[k] = fl[k]
    BY <1>10
  <2> HIDE DEF g, fl
  <2>2. Holds(flag, n, g)
    BY <1>2, <1>9, <1>10, <2>1, HoldsSame
  <2>3. buildOverflowResult(t, overflow, le) = sym_concat_helper(mem, flag)
    BY <1>6, <1>7, <1>10
  <2> QED BY <1>1, <1>8, <2>2, <2>3
<1>11. CASE n # 1
  <2>1. PICK m \in Nat \ {0} : m = n - 1 /\ 1 + m = n /\ m + 1 = n /\ m \in Nat
    BY <1>11
  <2> DEFINE z == [k \in 0..(m - 1) |-> 0]
  <2>2. Holds(padding, m, z)
    <3>1. \A k \in 0..(m - 1) : z[k] = 0
      OBVIOUS
    <3> HIDE DEF z
    <3> QED BY <1>4, <2>1, <3>1, ZerosHold
  <2>3. CASE le
    <3>1. \A k \in 0..(1 - 1) : g[k] = fl[k]
      OBVIOUS
    <3>2. \A k \in 0..(m - 1) : g[1 + k] = z[k]
      <4> SUFFICES ASSUME NEW k \in 0..(m - 1) PROVE g[1 + k] = 0
        OBVIOUS
      <4>1. 1 + k \in 0..(n - 1) /\ n + (1 + k) \in (n + 1)..(2 * n - 1)
        BY <2>1
      <4> QED BY <4>1
    <3> HIDE DEF g, fl, z
    <3>3. Holds(sym_concat_helper(flag, padding), 1 + m, g)
      BY <1>2, <1>9, <2>1, <2>2, <3>1, <3>2, ConcatHolds
    <3>4. buildOverflowResult(t, overflow, le) = sym_concat_helper(mem, sym_concat_helper(flag, padding))
      BY <1>6, <1>7, <1>11, <2>3
    <3> QED BY <1>1, <1>8, <2>1, <3>3, <3>4
  <2>4. CASE ~le
    <3>1. ~overflow
      BY <1>11, <2>4
    <3>2. ASSUME NEW k \in 0..(n - 1) PROVE g[k] = 0
      <4>1. CASE k = 0
        BY <3>1, <4>1
      <4>2. CASE k # 0
        <5>1. n + k \in (n + 1)..(2 * n - 1)
          BY <4>2
        <5> QED BY <5>1
      <4> QED BY <4>1, <4>2
    <3>3. \A k \in 0..(m - 1) : g[k] = z[k]
      BY <2>1, <3>2
    <3>4. \A k \in 0..(1 - 1) : g[m + k] = fl[k]
      BY <2>1, <3>1, <3>2
    <3> HIDE DEF g, fl, z
    <3>5. Holds(sym_concat_helper(padding, flag), m + 1, g)
      BY <1>2, <1>9, <2>1, <2>2, <3>3, <3>4, ConcatHolds
    <3>6. buildOverflowResult(t, overflow, le) = sym_concat_helper(mem, sym_concat_helper(padding, flag))
      BY <1>6, <1>7, <1>11, <2>4
    <3> QED BY <1>1, <1>8, <2>1, <3>5, <3>6
  <2> QED BY <2>3, <2>4
<1> QED BY <1>10, <1>11

-------------------------------------------------------------------------------
(* Insertion into and extraction from a term. *)

\* A single byte needs no swap.
LEMMA PieceHolds ==
  ASSUME NEW x \in Int, NEW n \in Nat \ {0}, NEW le \in BOOLEAN, NEW f, NEW swap \in BOOLEAN,
         \A k \in 0..(n - 1) : f[k] = ByteOf(x, n, k, le), swap <=> (le /\ n > 1)
  PROVE  Holds(InMemoryOrder(sym_build_integer(x, n * ByteBits), swap), n, f)
<1>1. ASSUME NEW k \in 0..(n - 1) PROVE f[k] = ByteOf(x, n, k, swap)
  <2>1. CASE n = 1
    <3>1. k = 0
      BY <2>1
    <3>2. n - 1 - k = k
      BY <2>1, <3>1
    <3>3. ByteOf(x, n, k, TRUE) = ByteOf(x, n, k, FALSE)
      BY <3>2 DEF ByteOf
    <3> QED BY <3>3
  <2>2. CASE n > 1
    <3>1. swap = le
      BY <2>2
    <3> QED BY <3>1
  <2> QED BY <2>1, <2>2
<1> QED BY <1>1, InMemoryHolds

\* _sym_build_insert replaces the bytes of the piece and no others.
LEMMA InsertHolds ==
  ASSUME NEW target, NEW s \in Nat, NEW f, Holds(target, s, f),
         NEW x \in Int, NEW n \in Nat \ {0}, NEW offset \in Nat, offset + n <= s,
         NEW le \in BOOLEAN, NEW g,
         \A k \in 0..(n - 1) : g[offset + k] = ByteOf(x, n, k, le),
         \A k \in 0..(s - 1) : (k < offset \/ k >= offset + n) => g[k] = f[k]
  PROVE  Holds(sym_build_insert(target, sym_build_integer(x, n * ByteBits), offset, le), s, g)
<1>1. PICK t : t = sym_build_integer(x, n * ByteBits)
  OBVIOUS
<1>2. PICK b \in Nat \ {0} : b = ByteBits
  BY BuildersAssumption
<1>3. n \in Nat
  OBVIOUS
<1>4. t.w = n * ByteBits /\ t.w \div ByteBits = n
  <2> DEFINE p == [k \in 0..(n - 1) |-> ByteOf(x, n, k, FALSE)]
  <2>1. \A k \in 0..(n - 1) : p[k] = ByteOf(x, n, k, FALSE)
    OBVIOUS
  <2> HIDE DEF p
  <2>2. Holds(t, n, p)
    BY <1>1, <1>3, <2>1, IntegerHolds
  <2> QED BY <1>3, <2>2, WholeBytes
<1>5. target.w \div ByteBits = s
  BY WholeBytes
<1>6. t.w > ByteBits <=> n > 1
  <2>1. n > 1 => n * b > b
    <3>1. ASSUME n > 1 PROVE n * b >= 2 * b
      BY <3>1
    <3> QED BY <3>1
  <2>2. n = 1 => n * b = b
    OBVIOUS
  <2> QED BY <1>2, <1>4, <2>1, <2>2
<1>7. PICK swap \in BOOLEAN : swap <=> (le /\ n > 1)
  OBVIOUS
<1>8. PICK piece : piece = InMemoryOrder(t, swap)
  OBVIOUS
<1> DEFINE h == [k \in 0..(n - 1) |-> g[offset + k]]
<1>9. Holds(piece, n, h)
  <2>1. \A k \in 0..(n - 1) : h[k] = ByteOf(x, n, k, le)
    OBVIOUS
  <2> HIDE DEF h
  <2> QED BY <1>1, <1>7, <1>8, <2>1, PieceHolds
<1>10. \A k \in 0..(n - 1) : g[offset + k] = h[k]
  OBVIOUS
<1> HIDE DEF h
<1>11. PICK front : front = IF offset = 0 THEN piece
                            ELSE sym_concat_helper(ByteRange(target, 0, offset), piece)
  OBVIOUS
<1>12. sym_build_insert(target, t, offset, le)
         = IF s - offset - n = 0 THEN front
           ELSE sym_concat_helper(front, ByteRange(target, offset + n, s - offset - n))
  <2>1. piece = IF le /\ t.w > ByteBits THEN sym_build_bswap(t) ELSE t
    BY <1>6, <1>7, <1>8 DEF InMemoryOrder
  <2> QED BY <1>4, <1>5, <1>11, <2>1 DEF sym_build_insert, sym_build_extract
<1>13. Holds(front, offset + n, g)
  <2>1. CASE offset = 0
    <3>1. \A k \in 0..(n - 1) : g[k] = h[k]
      BY <1>10, <2>1
    <3>2. offset + n = n
      BY <2>1
    <3>3. Holds(piece, n, g)
      BY <1>3, <1>9, <3>1, HoldsSame
    <3> QED BY <1>11, <2>1, <3>2, <3>3
  <2>2. CASE offset # 0
    <3>1. offset \in Nat \ {0} /\ 0 \in Nat /\ 0 + offset <= s
      BY <2>2
    <3>2. \A k \in 0..(offset - 1) : g[k] = f[0 + k]
      OBVIOUS
    <3>3. Holds(ByteRange(target, 0, offset), offset, g)
      BY <3>1, <3>2, RangeHolds
    <3>4. \A k \in 0..(offset - 1) : g[k] = g[k]
      OBVIOUS
    <3>5. Holds(sym_concat_helper(ByteRange(target, 0, offset), piece), offset + n, g)
      BY <1>3, <1>9, <1>10, <3>3, <3>4, ConcatHolds
    <3> QED BY <1>11, <2>2, <3>5
  <2> QED BY <2>1, <2>2
<1>14. CASE s - offset - n = 0
  <2>1. offset + n = s
    BY <1>14
  <2> QED BY <1>1, <1>12, <1>13, <1>14, <2>1
<1>15. CASE s - offset - n # 0
  <2>1. PICK i \in Nat, m \in Nat \ {0} : i = offset + n /\ m = s - offset - n /\ i + m <= s /\ i + m = s /\ m \in Nat
    BY <1>15
  <2> DEFINE q == [k \in 0..(m - 1) |-> f[i + k]]
  <2>2. \A k \in 0..(m - 1) : q[k] = f[i + k]
    OBVIOUS
  <2>3. \A k \in 0..(m - 1) : g[i + k] = q[k]
    <3> SUFFICES ASSUME NEW k \in 0..(m - 1) PROVE g[i + k] = f[i + k]
      OBVIOUS
    <3>1. i + k \in 0..(s - 1) /\ i + k >= offset + n
      BY <2>1
    <3> QED BY <3>1
  <2> HIDE DEF q
  <2>4. Holds(ByteRange(target, i, m), m, q)
    BY <2>1, <2>2, RangeHolds
  <2>5. \A k \in 0..(i - 1) : g[k] = g[k]
    OBVIOUS
  <2>6. Holds(front, i, g)
    BY <1>13, <2>1
  <2>7. Holds(sym_concat_helper(front, ByteRange(target, i, m)), i + m, g)
    BY <2>1, <2>3, <2>4, <2>5, <2>6, ConcatHolds
  <2> QED BY <1>1, <1>12, <1>15, <2>1, <2>7
<1> QED BY <1>14, <1>15

-------------------------------------------------------------------------------
(* Structs in registers. *)

\* The fields are in the order of memory and do not overlap.
IsLayout(size, fields, n) ==
  /\ size \in Nat /\ n \in Nat /\ n = Len(fields) /\ DOMAIN fields = 1..n
  /\ \A i \in 1..n : /\ fields[i].off \in Nat /\ fields[i].size \in Nat \ {0}
                     /\ fields[i].off + fields[i].size <= size
                     /\ \A j \in 1..n : i < j =>
                          fields[i].off + fields[i].size <= fields[j].off

LEMMA LayoutIs ==
  ASSUME NEW l \in Layout
  PROVE  IsLayout(l.size, l.fields, Len(l.fields))
<1>1. l \in [size : Nat, fields : Seq([off : Nat, size : Nat \ {0}])]
  BY BuildersAssumption
<1>2. l.size \in Nat /\ l.fields \in Seq([off : Nat, size : Nat \ {0}])
  BY <1>1
<1>3. PICK n \in Nat : n = Len(l.fields) /\ DOMAIN l.fields = 1..n
  BY <1>2
<1>4. ASSUME NEW i \in 1..n
      PROVE  l.fields[i].off \in Nat /\ l.fields[i].size \in Nat \ {0}
  <2> DEFINE R == [off : Nat, size : Nat \ {0}]
  <2>1. l.fields \in Seq(R) /\ i \in 1..Len(l.fields)
    BY <1>2, <1>3
  <2>2. l.fields[i] \in R
    <3> HIDE DEF R
    <3> QED BY <2>1, ElementOfSeq
  <2> QED BY <2>2
<1>5. ASSUME NEW i \in 1..n
      PROVE  /\ l.fields[i].off + l.fields[i].size <= l.size
             /\ \A j \in 1..n : i < j => l.fields[i].off + l.fields[i].size <= l.fields[j].off
  BY <1>3, BuildersAssumption
<1> QED BY <1>2, <1>3, <1>4, <1>5 DEF IsLayout

\* The bytes of a field are in its place, ...
LEMMA ImageOfField ==
  ASSUME NEW l \in Layout, NEW values, NEW le \in BOOLEAN, NEW i \in DOMAIN l.fields,
         NEW o \in Nat, o = l.fields[i].off, NEW s \in Nat, s = l.fields[i].size, NEW k \in 0..(s - 1)
  PROVE  StructImage(l, values, le)[o + k] = ByteOf(values[i], s, k, le)
<1>1. PICK n \in Nat : IsLayout(l.size, l.fields, n)
  BY LayoutIs DEF IsLayout
<1>2. PICK F : F = l.fields /\ DOMAIN F = 1..n
  BY <1>1 DEF IsLayout
<1>3. i \in 1..n /\ F[i].off \in Nat /\ F[i].size \in Nat \ {0} /\ F[i].off + F[i].size <= l.size /\ l.size \in Nat
  BY <1>1, <1>2 DEF IsLayout
<1>4. o \in Nat /\ s \in Nat \ {0} /\ o = F[i].off /\ s = F[i].size
  BY <1>2, <1>3
<1>5. PICK p \in Nat : p = o + k /\ p \in 0..(l.size - 1) /\ p - o = k /\ p < o + s
  <2>1. k \in 0..(s - 1)
    BY <1>2, <1>4
  <2>2. PICK z \in Nat : z = l.size /\ o + s <= z
    BY <1>3, <1>4
  <2>3. o + k \in Nat /\ o + k \in 0..(z - 1) /\ o + k - o = k /\ o + k < o + s
    BY <2>1, <2>2
  <2> QED BY <2>2, <2>3
<1> DEFINE at == {j \in DOMAIN F : p \in F[j].off..(F[j].off + F[j].size - 1)}
<1>6. at = {i}
  <2>1. i \in at
    <3>1. p \in o..(o + s - 1)
      <4>1. k \in 0..(s - 1)
        BY <1>2, <1>4
      <4> QED BY <1>5, <4>1
    <3> QED BY <1>2, <1>3, <1>4, <3>1
  <2>2. ASSUME NEW j \in 1..n, p \in F[j].off..(F[j].off + F[j].size - 1) PROVE j = i
    <3>1. PICK u \in Nat, v \in Nat : u = F[j].off /\ v = F[j].size
      BY <1>1, <1>2 DEF IsLayout
    <3>2. u <= p /\ p < u + v
      BY <2>2, <3>1
    <3>3. CASE i < j
      <4>1. o + s <= u
        BY <1>1, <1>2, <1>3, <1>4, <3>1, <3>3 DEF IsLayout
      <4> QED BY <1>5, <3>2, <4>1
    <3>4. CASE j < i
      <4>1. u + v <= o
        BY <1>1, <1>2, <1>3, <1>4, <3>1, <3>4 DEF IsLayout
      <4> QED BY <1>5, <3>2, <4>1
    <3> QED BY <1>3, <3>3, <3>4
  <2> QED BY <1>2, <2>1, <2>2
<1> DEFINE value(a, q) == IF a = {} THEN 0
                          ELSE LET j == CHOOSE j \in a : TRUE
                               IN ByteOf(values[j], F[j].size, q - F[j].off, le)
<1>7. StructImage(l, values, le)[p] = value(at, p)
  <2>1. StructImage(l, values, le) =
          [q \in 0..(l.size - 1) |->
             value({j \in DOMAIN F : q \in F[j].off..(F[j].off + F[j].size - 1)}, q)]
    <3> DEFINE Image(G) ==
          [q \in 0..(l.size - 1) |->
             LET a == {j \in DOMAIN G : q \in G[j].off..(G[j].off + G[j].size - 1)}
             IN IF a = {} THEN 0
                ELSE LET j == CHOOSE j \in a : TRUE
                     IN ByteOf(values[j], G[j].size, q - G[j].off, le)]
    <3>1. StructImage(l, values, le) = Image(l.fields)
      BY Zenon DEF StructImage
    <3>2. Image(F) = [q \in 0..(l.size - 1) |->
            value({j \in DOMAIN F : q \in F[j].off..(F[j].off + F[j].size - 1)}, q)]
      BY Zenon
    <3> HIDE DEF Image, value
    <3> QED BY <1>2, <3>1, <3>2
  <2> HIDE DEF value
  <2> QED BY <1>5, <2>1
<1>8. value({i}, p) = ByteOf(values[i], F[i].size, p - F[i].off, le)
  <2>1. (CHOOSE j \in {i} : TRUE) = i
    OBVIOUS
  <2> QED BY <2>1
<1> HIDE DEF at, value
<1>9. StructImage(l, values, le)[p] = ByteOf(values[i], F[i].size, p - F[i].off, le)
  BY <1>6, <1>7, <1>8
<1> QED BY <1>2, <1>4, <1>5, <1>9

\* ... and elsewhere there are zeros.
LEMMA ImageOfGap ==
  ASSUME NEW l \in Layout, NEW values, NEW le, NEW p \in 0..(l.size - 1),
         \A j \in DOMAIN l.fields : ~(p \in l.fields[j].off..(l.fields[j].off + l.fields[j].size - 1))
  PROVE  StructImage(l, values, le)[p] = 0
<1> DEFINE at == {j \in DOMAIN l.fields : p \in l.fields[j].off..(l.fields[j].off + l.fields[j].size - 1)}
<1>1. at = {}
  OBVIOUS
<1> DEFINE value(a, o) == IF a = {} THEN 0
                          ELSE LET j == CHOOSE j \in a : TRUE
                               IN ByteOf(values[j], l.fields[j].size, o - l.fields[j].off, le)
<1>2. StructImage(l, values, le)[p] = value(at, p)
  <2>1. StructImage(l, values, le) =
          [q \in 0..(l.size - 1) |->
             value({j \in DOMAIN l.fields : q \in l.fields[j].off..(l.fields[j].off + l.fields[j].size - 1)}, q)]
    BY Zenon DEF StructImage
  <2> HIDE DEF value
  <2> QED BY <2>1
<1>3. value({}, p) = 0
  OBVIOUS
<1> HIDE DEF at, value
<1> QED BY <1>1, <1>2, <1>3

\* The parts of createStructExpression.
AppendedTo(e, t) == IF e = NoTerm THEN t ELSE sym_concat_helper(e, t)
PaddedTo(e, n) == IF n > 0 THEN AppendedTo(e, sym_build_zero_bytes(n)) ELSE e
FieldTerm(f, x, le) ==
  IF le /\ f.size > 1
  THEN sym_build_bswap(sym_build_integer(x, f.size * ByteBits))
  ELSE sym_build_integer(x, f.size * ByteBits)
WithField(p, f, x, le) ==
  [e |-> AppendedTo(PaddedTo(p.e, f.off - p.off), FieldTerm(f, x, le)),
   off |-> f.off + f.size]
Built(l, values, le) ==
  LET built[i \in 0..Len(l.fields)] ==
        IF i = 0 THEN [e |-> NoTerm, off |-> 0]
        ELSE WithField(built[i - 1], l.fields[i], values[i], le)
  IN built

\* createValueExpression in terms of these.
LEMMA StructFromParts ==
  ASSUME NEW l, NEW values, NEW le
  PROVE  createStructExpression(l, values, le)
           = PaddedTo(Built(l, values, le)[Len(l.fields)].e,
                      l.size - Built(l, values, le)[Len(l.fields)].off)
  BY Zenon DEF createStructExpression, PaddedTo, AppendedTo, FieldTerm, WithField, Built

\* The null term is no bytes at all, so that appending is always concatenation.
LEMMA AppendedHolds ==
  ASSUME NEW a, NEW b, NEW m \in Nat, NEW n \in Nat, NEW f, NEW g,
         Holds(a, m, f), Holds(b, n, g), \A k \in 0..(n - 1) : f[m + k] = g[k]
  PROVE  Holds(AppendedTo(a, b), m + n, f)
<1>1. \A k \in 0..(m - 1) : f[k] = f[k]
  OBVIOUS
<1>2. Holds(sym_concat_helper(a, b), m + n, f)
  BY <1>1, ConcatHolds
<1>3. ASSUME a = NoTerm PROVE sym_concat_helper(a, b) = b
  <2>1. b \in AnyTerm
    BY HoldsIsTerm
  <2>2. PICK p \in Nat : p = Pow2[b.w]
    BY <2>1, Pow2Step DEF AnyTerm
  <2>3. 0 + b.w = b.w /\ 0 * p + b.v = b.v /\ b = [w |-> b.w, v |-> b.v]
    BY <2>1 DEF AnyTerm
  <2>4. a.w = 0 /\ a.v = 0
    BY <1>3 DEF NoTerm
  <2> QED BY <2>2, <2>3, <2>4 DEF sym_concat_helper
<1> QED BY <1>2, <1>3 DEF AppendedTo

\* A gap is filled with zeros.
LEMMA PaddedHolds ==
  ASSUME NEW a, NEW m \in Nat, NEW n \in Nat, NEW f, Holds(a, m, f),
         \A k \in 0..(n - 1) : f[m + k] = 0
  PROVE  Holds(PaddedTo(a, n), m + n, f)
<1>1. CASE n = 0
  <2>1. m + n = m /\ ~(n > 0)
    BY <1>1
  <2> QED BY <2>1 DEF PaddedTo
<1>2. CASE n # 0
  <2>1. n \in Nat \ {0} /\ n > 0
    BY <1>2
  <2> DEFINE z == [k \in 0..(n - 1) |-> 0]
  <2>2. \A k \in 0..(n - 1) : z[k] = 0
    OBVIOUS
  <2>3. \A k \in 0..(n - 1) : f[m + k] = z[k]
    OBVIOUS
  <2> HIDE DEF z
  <2>4. Holds(sym_build_zero_bytes(n), n, z)
    BY <2>1, <2>2, ZerosHold
  <2>5. Holds(AppendedTo(a, sym_build_zero_bytes(n)), m + n, f)
    BY <2>3, <2>4, AppendedHolds
  <2> QED BY <2>1, <2>5 DEF PaddedTo
<1> QED BY <1>1, <1>2

\* A field lies in memory as the machine stores it.
LEMMA FieldHolds ==
  ASSUME NEW f, NEW n \in Nat \ {0}, n = f.size, NEW x \in Int, NEW le \in BOOLEAN, NEW g,
         \A k \in 0..(n - 1) : g[k] = ByteOf(x, n, k, le)
  PROVE  Holds(FieldTerm(f, x, le), n, g)
<1>1. PICK swap \in BOOLEAN : swap <=> (le /\ n > 1)
  OBVIOUS
<1>2. Holds(InMemoryOrder(sym_build_integer(x, n * ByteBits), swap), n, g)
  BY <1>1, PieceHolds
<1>3. FieldTerm(f, x, le) = InMemoryOrder(sym_build_integer(x, n * ByteBits), swap)
  BY <1>1 DEF FieldTerm, InMemoryOrder
<1> QED BY <1>2, <1>3

\* Every iteration makes a term, whatever the ones before have made.
LEMMA IterationIsTerm ==
  ASSUME NEW e \in AnyTerm, NEW o \in Nat, NEW f, f.off \in Nat, f.size \in Nat \ {0},
         NEW x \in Int, NEW le \in BOOLEAN
  PROVE  WithField([e |-> e, off |-> o], f, x, le) \in [e : AnyTerm, off : Nat]
<1>1. PICK n \in Nat \ {0} : n = f.size
  OBVIOUS
<1>2. FieldTerm(f, x, le) \in AnyTerm
  <2> DEFINE g == [k \in 0..(n - 1) |-> ByteOf(x, n, k, le)]
  <2>1. \A k \in 0..(n - 1) : g[k] = ByteOf(x, n, k, le)
    OBVIOUS
  <2> HIDE DEF g
  <2>2. Holds(FieldTerm(f, x, le), n, g)
    BY <1>1, <2>1, FieldHolds
  <2>3. n \in Nat
    OBVIOUS
  <2> QED BY <2>2, <2>3, HoldsIsTerm
<1>3. ASSUME NEW a \in AnyTerm, NEW b \in AnyTerm PROVE AppendedTo(a, b) \in AnyTerm
  BY ConcatIsTerm DEF AppendedTo
<1>4. ASSUME NEW k \in Int PROVE PaddedTo(e, k) \in AnyTerm
  <2>1. CASE k > 0
    <3> DEFINE z == [j \in 0..(k - 1) |-> 0]
    <3>1. k \in Nat \ {0} /\ k \in Nat /\ \A j \in 0..(k - 1) : z[j] = 0
      BY <2>1
    <3> HIDE DEF z
    <3>2. Holds(sym_build_zero_bytes(k), k, z)
      BY <3>1, ZerosHold
    <3>3. sym_build_zero_bytes(k) \in AnyTerm
      BY <3>1, <3>2, HoldsIsTerm
    <3> QED BY <1>3, <2>1, <3>3 DEF PaddedTo
  <2>2. CASE ~(k > 0)
    BY <2>2 DEF PaddedTo
  <2> QED BY <2>1, <2>2
<1>5. f.off - o \in Int /\ f.off + f.size \in Nat
  OBVIOUS
<1>6. AppendedTo(PaddedTo(e, f.off - o), FieldTerm(f, x, le)) \in AnyTerm
  BY <1>2, <1>3, <1>4, <1>5
<1> QED BY <1>5, <1>6 DEF WithField

\* The loop of createValueExpression.
LEMMA BuiltDefined ==
  ASSUME NEW l \in Layout, NEW values, NEW le \in BOOLEAN,
         \A i \in DOMAIN l.fields : values[i] \in Int
  PROVE  \A i \in 0..Len(l.fields) : Built(l, values, le)[i] =
           IF i = 0 THEN [e |-> NoTerm, off |-> 0]
           ELSE WithField(Built(l, values, le)[i - 1], l.fields[i], values[i], le)
<1>1. PICK n \in Nat : IsLayout(l.size, l.fields, n) /\ n = Len(l.fields) /\ DOMAIN l.fields = 1..n
  BY LayoutIs DEF IsLayout
<1>2. \A i \in 1..n : l.fields[i].off \in Nat /\ l.fields[i].size \in Nat \ {0} /\ values[i] \in Int
  BY <1>1 DEF IsLayout
<1> DEFINE V == [e : AnyTerm, off : Nat]
           base == [e |-> NoTerm, off |-> 0]
           step == [i \in 1..n |-> [p \in V |-> WithField(p, l.fields[i], values[i], le)]]
<1>3. base \in V
  <2>1. NoTerm \in AnyTerm
    BY DEF NoTerm, AnyTerm
  <2> QED BY <2>1
<1>4. step \in [1..n -> [V -> V]]
  <2> SUFFICES ASSUME NEW i \in 1..n, NEW p \in V
               PROVE  WithField(p, l.fields[i], values[i], le) \in V
    OBVIOUS
  <2>1. PICK e \in AnyTerm, o \in Nat : p = [e |-> e, off |-> o]
    OBVIOUS
  <2>2. PICK f : f = l.fields[i]
    OBVIOUS
  <2>4. PICK x : x = values[i]
    OBVIOUS
  <2>5. x \in Int /\ f.off \in Nat /\ f.size \in Nat \ {0}
    BY <1>2, <2>2, <2>4
  <2>3. WithField([e |-> e, off |-> o], f, x, le) \in V
    BY <2>5, IterationIsTerm
  <2> QED BY <2>1, <2>2, <2>3, <2>4
<1>5. PICK r \in [0..n -> V] : Loop(n, r, base, step)
  <2> HIDE DEF V, base, step
  <2> QED BY <1>3, <1>4, LoopExists
<1>6. ASSUME NEW i \in 0..n
      PROVE  r[i] = IF i = 0 THEN base ELSE WithField(r[i - 1], l.fields[i], values[i], le)
  <2>1. r[i] = IF i = 0 THEN base ELSE step[i][r[i - 1]]
    <3> HIDE DEF V, base, step
    <3> QED BY <1>5 DEF Loop
  <2>2. CASE i # 0
    <3>1. i \in 1..n /\ r[i - 1] \in V
      <4> HIDE DEF V
      <4> QED BY <2>2
    <3>2. step[i][r[i - 1]] = WithField(r[i - 1], l.fields[i], values[i], le)
      <4> HIDE DEF V
      <4> QED BY <3>1
    <3> HIDE DEF step, base, V
    <3> QED BY <2>1, <2>2, <3>2
  <2> HIDE DEF base, V, step
  <2> QED BY <2>1, <2>2
<1>7. r = [i \in 0..n |-> IF i = 0 THEN base ELSE WithField(r[i - 1], l.fields[i], values[i], le)]
  <2> HIDE DEF base, V
  <2>1. r = [i \in 0..n |-> r[i]]
    OBVIOUS
  <2> QED BY <1>6, <2>1
<1>8. \E q : q = [i \in 0..n |-> IF i = 0 THEN base ELSE WithField(q[i - 1], l.fields[i], values[i], le)]
  <2> HIDE DEF base, V
  <2> QED BY <1>7, Zenon
<1>9. Built(l, values, le) =
        [i \in 0..Len(l.fields) |-> IF i = 0 THEN [e |-> NoTerm, off |-> 0]
             ELSE WithField(Built(l, values, le)[i - 1], l.fields[i], values[i], le)]
  <2>1. \E q : q = [i \in 0..Len(l.fields) |-> IF i = 0 THEN [e |-> NoTerm, off |-> 0]
             ELSE WithField(q[i - 1], l.fields[i], values[i], le)]
    <3>1. n = Len(l.fields)
      BY <1>1
    <3> QED BY <1>8, <3>1, Zenon
  <2> QED BY <2>1, Zenon DEF Built
<1> QED BY <1>9

\* The first i fields, with the gaps before them, are the beginning of the image.
LEMMA StructHolds ==
  ASSUME NEW l \in Layout, NEW values, NEW le \in BOOLEAN,
         \A i \in DOMAIN l.fields : values[i] \in Int
  PROVE  Holds(createStructExpression(l, values, le), l.size, StructImage(l, values, le))
<1>1. PICK n \in Nat : IsLayout(l.size, l.fields, n) /\ n = Len(l.fields) /\ DOMAIN l.fields = 1..n
  BY LayoutIs DEF IsLayout
<1>0. PICK size \in Nat : size = l.size
  BY <1>1 DEF IsLayout
<1>2. PICK F : F = l.fields /\ size = l.size
  BY <1>0
<1>3. ASSUME NEW i \in 1..n
      PROVE  /\ F[i].off \in Nat /\ F[i].size \in Nat \ {0} /\ F[i].off + F[i].size <= size
             /\ \A j \in 1..n : i < j => F[i].off + F[i].size <= F[j].off
             /\ values[i] \in Int
  BY <1>1, <1>2 DEF IsLayout
<1>4. PICK image : image = StructImage(l, values, le)
  OBVIOUS
<1>5. ASSUME NEW i \in 1..n, NEW k \in 0..(F[i].size - 1)
      PROVE  image[F[i].off + k] = ByteOf(values[i], F[i].size, k, le)
  <2>1. PICK o \in Nat, s \in Nat : o = F[i].off /\ s = F[i].size
    BY <1>3
  <2>2. i \in DOMAIN l.fields /\ o = l.fields[i].off /\ s = l.fields[i].size /\ k \in 0..(s - 1)
    BY <1>1, <1>2, <2>1
  <2>3. StructImage(l, values, le)[o + k] = ByteOf(values[i], s, k, le)
    BY <2>2, ImageOfField
  <2> QED BY ONLY <1>4, <2>1, <2>3
<1>6. ASSUME NEW p \in 0..(size - 1), \A j \in 1..n : p < F[j].off \/ p >= F[j].off + F[j].size
      PROVE  image[p] = 0
  <2>1. ASSUME NEW j \in 1..n PROVE ~(p \in F[j].off..(F[j].off + F[j].size - 1))
    <3>1. PICK o \in Nat, s \in Nat : o = F[j].off /\ s = F[j].size
      BY <1>3
    <3>2. p < o \/ p >= o + s
      BY <1>6, <3>1
    <3> QED BY <3>1, <3>2
  <2> QED BY <1>1, <1>2, <1>4, <2>1, ImageOfGap
<1>7. PICK r : /\ r = Built(l, values, le)
               /\ \A i \in 0..n : r[i] = IF i = 0 THEN [e |-> NoTerm, off |-> 0]
                                         ELSE WithField(r[i - 1], F[i], values[i], le)
  BY <1>1, <1>2, BuiltDefined
<1> DEFINE End(i) == IF i = 0 THEN 0 ELSE F[i].off + F[i].size
           S == {i \in Nat : i <= n => r[i].off = End(i) /\ Holds(r[i].e, End(i), image)}
<1>8. ASSUME NEW i \in 0..n
      PROVE  /\ End(i) \in Nat /\ End(i) <= size
             /\ \A j \in 1..n : j <= i => F[j].off + F[j].size <= End(i)
             /\ \A j \in 1..n : i < j => End(i) <= F[j].off
  <2>1. CASE i = 0
    BY <1>3, <2>1
  <2>2. CASE i # 0
    <3>1. i \in 1..n
      BY <2>2
    <3>2. PICK o \in Nat, s \in Nat \ {0} : o = F[i].off /\ s = F[i].size /\ End(i) = o + s /\ o + s <= size
      BY <1>3, <2>2, <3>1
    <3>3. ASSUME NEW j \in 1..n, j <= i PROVE F[j].off + F[j].size <= End(i)
      <4>1. CASE j = i
        BY <3>2, <4>1
      <4>2. CASE j < i
        <5>1. PICK u \in Nat : u = F[j].off + F[j].size
          BY <1>3
        <5>2. u <= o
          BY <1>3, <3>1, <3>2, <4>2, <5>1
        <5> QED BY <3>2, <5>1, <5>2
      <4> QED BY <3>3, <4>1, <4>2
    <3>4. ASSUME NEW j \in 1..n, i < j PROVE End(i) <= F[j].off
      BY <1>3, <2>2, <3>1, <3>4
    <3> HIDE DEF End
    <3> QED BY <3>2, <3>3, <3>4
  <2> QED BY <2>1, <2>2
<1>9. 0 \in S
  <2>1. r[0] = [e |-> NoTerm, off |-> 0] /\ End(0) = 0
    BY <1>7
  <2>2. Holds(NoTerm, 0, image)
    <3>1. 0 * ByteBits = 0 /\ Weight(0) = 1
      BY BuildersAssumption, WeightIs
    <3> QED BY <3>1 DEF Holds, NoTerm
  <2> HIDE DEF End
  <2> QED BY <2>1, <2>2
<1>10. ASSUME NEW i \in S PROVE i + 1 \in S
  <2>1. i \in Nat /\ i + 1 \in Nat /\ (i + 1) - 1 = i /\ i + 1 # 0
    OBVIOUS
  <2> SUFFICES ASSUME i + 1 <= n PROVE r[i + 1].off = End(i + 1) /\ Holds(r[i + 1].e, End(i + 1), image)
    BY <2>1
  <2>2. i + 1 \in 1..n /\ i + 1 \in 0..n /\ i \in 0..n /\ i <= n
    BY <2>1
  <2>3. PICK p \in Nat, o \in Nat, s \in Nat \ {0}, x \in Int :
          /\ p = End(i) /\ o = F[i + 1].off /\ s = F[i + 1].size /\ x = values[i + 1] /\ p <= o
    <3>1. End(i) \in Nat /\ End(i) <= F[i + 1].off
      BY <1>8, <2>1, <2>2
    <3> HIDE DEF End
    <3> QED BY <1>3, <2>2, <3>1
  <2>4. End(i + 1) = o + s
    BY <2>1, <2>3
  <2>5. PICK e : e = r[i].e /\ r[i].off = p /\ Holds(e, p, image)
    <3> HIDE DEF End
    <3> QED BY <2>2, <2>3
  <2>6. r[i + 1] = WithField(r[i], F[i + 1], values[i + 1], le)
    BY <1>7, <2>1, <2>2
  <2>7. /\ r[i + 1].off = o + s
        /\ r[i + 1].e = AppendedTo(PaddedTo(e, o - p), FieldTerm(F[i + 1], x, le))
    BY <2>3, <2>5, <2>6 DEF WithField
  <2>8. PICK d \in Nat : d = o - p /\ p + d = o
    BY <2>3
  <2>9. o + s <= size
    BY <1>3, <2>2, <2>3
  <2>10. ASSUME NEW k \in 0..(d - 1) PROVE image[p + k] = 0
    <3>1. p + k \in 0..(size - 1) /\ p <= p + k /\ p + k < o
      BY <2>8, <2>9
    <3>2. ASSUME NEW j \in 1..n PROVE p + k < F[j].off \/ p + k >= F[j].off + F[j].size
      <4>1. PICK u \in Nat, v \in Nat : u = F[j].off /\ v = F[j].size
        BY <1>3
      <4>2. CASE j <= i
        <5>1. u + v <= p
          BY <1>8, <2>2, <2>3, <4>1, <4>2
        <5> QED BY <3>1, <4>1, <5>1
      <4>3. CASE j = i + 1
        <5>1. u = o
          BY <2>3, <4>1, <4>3
        <5> QED BY <3>1, <4>1, <5>1
      <4>4. CASE i + 1 < j
        <5>1. o + s <= u
          BY <1>3, <2>2, <2>3, <4>1, <4>4
        <5> QED BY <3>1, <4>1, <5>1
      <4> QED BY <2>1, <4>2, <4>3, <4>4
    <3> QED BY <1>6, <3>1, <3>2
  <2>11. Holds(PaddedTo(e, d), p + d, image)
    BY <2>5, <2>10, PaddedHolds
  <2> DEFINE g == [k \in 0..(s - 1) |-> ByteOf(x, s, k, le)]
  <2>12. Holds(FieldTerm(F[i + 1], x, le), s, g)
    <3>1. \A k \in 0..(s - 1) : g[k] = ByteOf(x, s, k, le)
      OBVIOUS
    <3> HIDE DEF g
    <3> QED BY <2>3, <3>1, FieldHolds
  <2>13. \A k \in 0..(s - 1) : image[o + k] = g[k]
    BY <1>5, <2>2, <2>3
  <2> HIDE DEF g
  <2>14. s \in Nat /\ Holds(PaddedTo(e, d), o, image)
    BY <2>8, <2>11
  <2>15. Holds(AppendedTo(PaddedTo(e, d), FieldTerm(F[i + 1], x, le)), o + s, image)
    BY <2>12, <2>13, <2>14, AppendedHolds
  <2> HIDE DEF End
  <2> QED BY <2>4, <2>7, <2>8, <2>15
<1>11. S = Nat
  <2> HIDE DEF S
  <2>1. S \in SUBSET Nat
    BY DEF S
  <2> QED BY <1>9, <1>10, <2>1, Induction
<1>12. /\ End(n) \in Nat /\ End(n) <= size
       /\ r[n].off = End(n) /\ Holds(r[n].e, End(n), image)
  <2>1. n \in 0..n /\ n \in S /\ n <= n
    BY <1>11
  <2>2. End(n) \in Nat /\ End(n) <= size
    BY <1>8, <2>1
  <2> HIDE DEF End
  <2>3. r[n].off = End(n) /\ Holds(r[n].e, End(n), image)
    BY <2>1
  <2> QED BY <2>2, <2>3
<1>17. PICK e : e = r[n].e
  OBVIOUS
<1>18. PICK p \in Nat : p = End(n) /\ r[n].off = p /\ Holds(e, p, image) /\ p <= size
  <2> HIDE DEF End
  <2> QED BY <1>12, <1>17
<1>13. PICK d \in Nat : d = size - p /\ p + d = size
  <2>1. p <= size
    BY <1>18
  <2> QED BY ONLY <2>1, size \in Nat, p \in Nat
<1>14. ASSUME NEW k \in 0..(d - 1) PROVE image[p + k] = 0
  <2>1. p + k \in 0..(size - 1) /\ p <= p + k
    BY <1>13
  <2>2. ASSUME NEW j \in 1..n PROVE p + k >= F[j].off + F[j].size
    <3>1. PICK u \in Nat : u = F[j].off + F[j].size
      BY <1>3
    <3>2. u <= p
      <4>1. n \in 0..n /\ j <= n
        OBVIOUS
      <4>2. F[j].off + F[j].size <= End(n)
        BY <1>8, <4>1
      <4> HIDE DEF End
      <4> QED BY <1>18, <3>1, <4>2
    <3> QED BY <2>1, <3>1, <3>2
  <2> QED BY <1>6, <2>1, <2>2
<1>15. Holds(PaddedTo(e, d), p + d, image)
  BY <1>18, <1>14, PaddedHolds
<1>16. createStructExpression(l, values, le) = PaddedTo(e, d)
  <2>1. createStructExpression(l, values, le) = PaddedTo(r[n].e, l.size - r[n].off)
    BY <1>1, <1>7, StructFromParts
  <2> QED BY <1>2, <1>13, <1>17, <1>18, <2>1
<1> QED BY <1>2, <1>4, <1>13, <1>15, <1>16

\* A field of a struct that has been built is what has been put there.
LEMMA ExtractedIs ==
  ASSUME NEW l \in Layout, NEW values, NEW le \in BOOLEAN,
         \A j \in DOMAIN l.fields : values[j] \in Int, NEW i \in DOMAIN l.fields
  PROVE  visitExtractValueInst(createStructExpression(l, values, le), l.fields[i], le)
           = sym_build_integer(values[i], l.fields[i].size * ByteBits)
<1>1. PICK n \in Nat : IsLayout(l.size, l.fields, n) /\ DOMAIN l.fields = 1..n
  BY LayoutIs DEF IsLayout
<1>2. i \in 1..n /\ l.size \in Nat /\ l.fields[i].off \in Nat /\ l.fields[i].size \in Nat \ {0}
      /\ l.fields[i].off + l.fields[i].size <= l.size /\ values[i] \in Int
  BY <1>1 DEF IsLayout
<1>3. PICK s \in Nat, o \in Nat, m \in Nat \ {0}, x \in Int :
        s = l.size /\ o = l.fields[i].off /\ m = l.fields[i].size /\ x = values[i]
  BY <1>2
<1>4. o + m <= s /\ m \in Nat
  BY <1>2, <1>3
<1>5. PICK t, image : /\ t = createStructExpression(l, values, le)
                      /\ image = StructImage(l, values, le)
  OBVIOUS
<1>6. Holds(t, s, image)
  BY <1>3, <1>5, StructHolds
<1>7. ASSUME NEW k \in 0..(m - 1) PROVE image[o + k] = ByteOf(x, m, k, le)
  <2>1. StructImage(l, values, le)[o + k] = ByteOf(values[i], m, k, le)
    BY <1>3, ImageOfField
  <2> QED BY ONLY <1>3, <1>5, <2>1
<1> DEFINE g == [k \in 0..(m - 1) |-> ByteOf(x, m, k, FALSE)]
<1>8. \A k \in 0..(m - 1) : g[k] = ByteOf(x, m, k, FALSE)
  OBVIOUS
<1> HIDE DEF g
<1>9. Holds(sym_build_integer(x, m * ByteBits), m, g)
  BY <1>4, <1>8, IntegerHolds
<1>10. Holds(sym_build_extract(t, o, m, le), m, g)
  <2>1. CASE le
    <3>1. ASSUME NEW k \in 0..(m - 1) PROVE g[k] = image[o + m - 1 - k]
      <4>1. m - 1 - k \in 0..(m - 1) /\ o + (m - 1 - k) = o + m - 1 - k
        OBVIOUS
      <4>2. image[o + (m - 1 - k)] = ByteOf(x, m, m - 1 - k, le)
        BY <1>7, <4>1
      <4>3. ByteOf(x, m, m - 1 - k, le) = ByteOf(x, m, k, FALSE)
        BY <2>1 DEF ByteOf
      <4> QED BY <1>8, <4>1, <4>2, <4>3
    <3>2. Holds(sym_build_extract(t, o, m, TRUE), m, g)
      BY <1>4, <1>6, <3>1, ReversedHolds
    <3> QED BY <2>1, <3>2
  <2>2. CASE ~le
    <3>1. ASSUME NEW k \in 0..(m - 1) PROVE g[k] = image[o + k]
      <4>1. ByteOf(x, m, k, le) = ByteOf(x, m, k, FALSE)
        BY <2>2 DEF ByteOf
      <4> QED BY <1>7, <1>8, <4>1
    <3>2. Holds(ByteRange(t, o, m), m, g)
      BY <1>4, <1>6, <3>1, RangeHolds
    <3>3. sym_build_extract(t, o, m, le) = ByteRange(t, o, m)
      BY <2>2, Zenon DEF sym_build_extract
    <3> QED BY <3>2, <3>3
  <2> QED BY <2>1, <2>2
<1>11. sym_build_extract(t, o, m, le) = sym_build_integer(x, m * ByteBits)
  BY <1>4, <1>9, <1>10, HoldsUnique
<1>12. visitExtractValueInst(t, l.fields[i], le) = sym_build_extract(t, o, m, le)
  BY <1>3 DEF visitExtractValueInst
<1> QED BY <1>3, <1>5, <1>11, <1>12

\* A struct in which a field has been replaced is the one with the new value.
LEMMA InsertedHolds ==
  ASSUME NEW l \in Layout, NEW values, NEW le \in BOOLEAN,
         \A j \in DOMAIN l.fields : values[j] \in Int, DOMAIN values = DOMAIN l.fields,
         NEW i \in DOMAIN l.fields, NEW new \in Int
  PROVE  Holds(visitInsertValueInst(createStructExpression(l, values, le), new, l.fields[i], le),
               l.size, StructImage(l, [values EXCEPT ![i] = new], le))
<1>1. PICK n \in Nat : IsLayout(l.size, l.fields, n) /\ DOMAIN l.fields = 1..n
  BY LayoutIs DEF IsLayout
<1>2. i \in 1..n /\ l.size \in Nat /\ l.fields[i].off \in Nat /\ l.fields[i].size \in Nat \ {0}
      /\ l.fields[i].off + l.fields[i].size <= l.size
  BY <1>1 DEF IsLayout
<1>3. PICK s \in Nat, o \in Nat, m \in Nat \ {0} :
        s = l.size /\ o = l.fields[i].off /\ m = l.fields[i].size
  BY <1>2
<1>4. o + m <= s
  BY <1>2, <1>3
<1>5. PICK t, f, g, other :
        /\ t = createStructExpression(l, values, le)
        /\ f = StructImage(l, values, le)
        /\ g = StructImage(l, other, le)
        /\ other = [values EXCEPT ![i] = new]
  BY Zenon
<1>6. Holds(t, s, f)
  BY <1>3, <1>5, StructHolds
<1>7. other[i] = new /\ \A j \in DOMAIN l.fields : j # i => other[j] = values[j]
  BY <1>5
<1>8. ASSUME NEW k \in 0..(m - 1) PROVE g[o + k] = ByteOf(new, m, k, le)
  <2>1. StructImage(l, other, le)[o + k] = ByteOf(other[i], m, k, le)
    BY <1>3, ImageOfField
  <2> QED BY ONLY <1>5, <1>7, <2>1
<1>9. ASSUME NEW k \in 0..(s - 1), k < o \/ k >= o + m PROVE g[k] = f[k]
  <2>1. CASE \E j \in 1..n : k \in l.fields[j].off..(l.fields[j].off + l.fields[j].size - 1)
    <3>1. PICK j \in 1..n : k \in l.fields[j].off..(l.fields[j].off + l.fields[j].size - 1)
      BY <2>1
    <3>2. PICK u \in Nat, v \in Nat : u = l.fields[j].off /\ v = l.fields[j].size
      BY <1>1 DEF IsLayout
    <3>3. j \in DOMAIN l.fields
      BY <1>1
    <3>4. k \in u..(u + v - 1)
      BY <3>1, <3>2
    <3>5. j # i
      BY <1>3, <1>9, <3>2, <3>4
    <3>6. PICK d \in Nat : d = k - u /\ u + d = k /\ d \in 0..(v - 1)
      BY <3>4
    <3>7. StructImage(l, other, le)[u + d] = ByteOf(other[j], v, d, le)
      BY <3>2, <3>3, <3>6, ImageOfField
    <3>8. StructImage(l, values, le)[u + d] = ByteOf(values[j], v, d, le)
      BY <3>2, <3>3, <3>6, ImageOfField
    <3>9. other[j] = values[j]
      BY <1>7, <3>3, <3>5
    <3> QED BY ONLY <1>5, <3>6, <3>7, <3>8, <3>9
  <2>2. CASE \A j \in DOMAIN l.fields : ~(k \in l.fields[j].off..(l.fields[j].off + l.fields[j].size - 1))
    <3>1. k \in 0..(l.size - 1)
      BY <1>3
    <3>2. StructImage(l, other, le)[k] = 0
      BY <2>2, <3>1, ImageOfGap, Zenon
    <3>3. StructImage(l, values, le)[k] = 0
      BY <2>2, <3>1, ImageOfGap, Zenon
    <3> QED BY ONLY <1>5, <3>2, <3>3
  <2> QED BY <1>1, <2>1, <2>2, Zenon
<1>10. Holds(sym_build_insert(t, sym_build_integer(new, m * ByteBits), o, le), s, g)
  BY <1>4, <1>6, <1>8, <1>9, InsertHolds
<1>11. visitInsertValueInst(t, new, l.fields[i], le)
         = sym_build_insert(t, sym_build_integer(new, m * ByteBits), o, le)
  BY <1>3 DEF visitInsertValueInst
<1> QED BY <1>3, <1>5, <1>10, <1>11

-------------------------------------------------------------------------------
(* The calls.                                                                 *)

\* A call that is not one of the known deviations.
LEMMA NoDeviation ==
  ASSUME NEW c, ~KnownDeviation(c)
  PROVE  /\ ~(/\ c.fn \in {"sadd_sat", "ssub_sat", "uadd_sat", "sshl_sat", "ushl_sat"}
              /\ c.a.w = HostBits /\ c.one = 1)
         /\ ~(/\ c.fn = "ushl_sat"
              /\ (c.a.v * Pow2[c.b.v] >= Pow2[c.a.w])
                   <=> (Signed(c.a) * Pow2[c.b.v] \in -(Pow2[c.a.w - 1])..(Pow2[c.a.w - 1] - 1)))
         /\ ~(/\ c.fn = "mul_overflow" /\ ~c.signed
              /\ c.a.v * c.b.v \in Pow2[c.a.w]..(Pow2[2 * c.a.w - 1] - 1))
         /\ ~(c.fn \in Overflowing /\ c.le /\ ~BswapApplies(c.a))
         /\ ~(c.fn \in Overflowing /\ ~c.le /\ c.a.w > ByteBits /\ Overflows(c))
         /\ ~(c.fn = "one" /\ NaN \in {c.a, c.b})
  BY Zenon DEF KnownDeviation

LEMMA WidthIs == ASSUME NEW w \in Width PROVE w \in Nat \ {0}
  BY BuildersAssumption

\* A call of one of the saturating builders.
LEMMA SaturatingCall ==
  ASSUME NEW fn \in Saturating, NEW w \in Width, NEW one \in {0, 1},
         NEW a \in Term(w), NEW b \in Term(w),
         fn \in {"sshl_sat", "ushl_sat"} => b.v < w,
         NEW c, c = [fn |-> fn, a |-> a, b |-> b, one |-> one], ~KnownDeviation(c)
  PROVE  SaturatingTerm(c) = ExpectedSaturating(c)
<1>1. w \in Nat \ {0} /\ w \in Nat
  BY WidthIs
<1>2. c.fn = fn /\ c.a = a /\ c.b = b /\ c.one = one /\ a.w = w
  BY <1>1, TermIs
<1>3. fn # "usub_sat" /\ fn # "abs" => ~(w = HostBits /\ one = 1)
  BY <1>2, NoDeviation DEF Saturating
<1>4. CASE fn = "sadd_sat"
  <2>1. SaturatingTerm(c) = sym_build_sadd_sat(a, b, one)
    BY <1>2, <1>4 DEF SaturatingTerm
  <2>2. ExpectedSaturating(c) = ClampedSigned(Signed(a) + Signed(b), w)
    BY <1>2, <1>4 DEF ExpectedSaturating
  <2> QED BY <1>1, <1>3, <1>4, <2>1, <2>2, SignedAddAndSub
<1>5. CASE fn = "ssub_sat"
  <2>1. SaturatingTerm(c) = sym_build_ssub_sat(a, b, one)
    BY <1>2, <1>5 DEF SaturatingTerm
  <2>2. ExpectedSaturating(c) = ClampedSigned(Signed(a) - Signed(b), w)
    BY <1>2, <1>5 DEF ExpectedSaturating
  <2> QED BY <1>1, <1>3, <1>5, <2>1, <2>2, SignedAddAndSub
<1>6. CASE fn = "uadd_sat"
  <2>1. SaturatingTerm(c) = sym_build_uadd_sat(a, b, one)
    BY <1>2, <1>6 DEF SaturatingTerm
  <2>2. ExpectedSaturating(c) = ClampedUnsigned(a.v + b.v, w)
    BY <1>2, <1>6 DEF ExpectedSaturating
  <2> QED BY <1>1, <1>3, <1>6, <2>1, <2>2, UnsignedAdd
<1>7. CASE fn = "usub_sat"
  <2>1. SaturatingTerm(c) = sym_build_usub_sat(a, b)
    BY <1>2, <1>7 DEF SaturatingTerm
  <2>2. ExpectedSaturating(c) = ClampedUnsigned(a.v - b.v, w)
    BY <1>2, <1>7 DEF ExpectedSaturating
  <2> QED BY <1>1, <2>1, <2>2, UnsignedSub
<1>8. CASE fn = "sshl_sat"
  <2>1. SaturatingTerm(c) = sym_build_sshl_sat(a, b, one)
    BY <1>2, <1>8 DEF SaturatingTerm
  <2>2. ExpectedSaturating(c) = ClampedSigned(Signed(a) * Pow2[b.v], w)
    BY <1>2, <1>8 DEF ExpectedSaturating
  <2> QED BY <1>1, <1>3, <1>8, <2>1, <2>2, SignedShift
<1>9. CASE fn = "ushl_sat"
  <2>1. SaturatingTerm(c) = sym_build_ushl_sat(a, b, one)
    BY <1>2, <1>9 DEF SaturatingTerm
  <2>2. ExpectedSaturating(c) = ClampedUnsigned(a.v * Pow2[b.v], w)
    BY <1>2, <1>9 DEF ExpectedSaturating
  <2>3. a.v * Pow2[b.v] >= Pow2[w]
          <=> ~(Signed(a) * Pow2[b.v] \in -(Pow2[w - 1])..(Pow2[w - 1] - 1))
    <3>1. ~((c.a.v * Pow2[c.b.v] >= Pow2[c.a.w])
              <=> (Signed(c.a) * Pow2[c.b.v] \in -(Pow2[c.a.w - 1])..(Pow2[c.a.w - 1] - 1)))
      BY <1>2, <1>9, NoDeviation, Zenon
    <3> QED BY ONLY <1>2, <3>1, Zenon
  <2> QED BY <1>1, <1>3, <1>9, <2>1, <2>2, <2>3, UnsignedShift
<1>10. CASE fn = "abs"
  <2>1. SaturatingTerm(c) = sym_build_abs(a)
    BY <1>2, <1>10 DEF SaturatingTerm
  <2>2. ExpectedSaturating(c) = sym_build_integer(IF Signed(a) < 0 THEN -Signed(a) ELSE Signed(a), w)
    BY <1>2, <1>10 DEF ExpectedSaturating
  <2> QED BY <1>1, <2>1, <2>2, AbsoluteValue
<1> QED BY <1>4, <1>5, <1>6, <1>7, <1>8, <1>9, <1>10 DEF Saturating

\* A call of one of the builders with overflow.
LEMMA OverflowCall ==
  ASSUME NEW fn \in Overflowing, NEW w \in Width, NEW signed \in BOOLEAN, NEW le \in BOOLEAN,
         NEW a \in Term(w), NEW b \in Term(w), w % ByteBits = 0,
         NEW c, c = [fn |-> fn, a |-> a, b |-> b, signed |-> signed, le |-> le],
         ~KnownDeviation(c)
  PROVE  /\ ~(le /\ ~BswapApplies(a))
         /\ IsImage(OverflowTerm(c), 2 * (a.w \div ByteBits), OverflowImage(c))
<1>1. w \in Nat \ {0} /\ w \in Nat
  BY WidthIs
<1>2. c.fn = fn /\ c.a = a /\ c.b = b /\ c.signed = signed /\ c.le = le /\ a.w = w
  BY <1>1, TermIs
<1>3. ~(le /\ ~BswapApplies(a))
  BY <1>2, NoDeviation
<1>4. ~(fn = "mul_overflow" /\ ~signed /\ a.v * b.v \in Pow2[w]..(Pow2[2 * w - 1] - 1))
  <2>1. ~(/\ c.fn = "mul_overflow" /\ ~c.signed
          /\ c.a.v * c.b.v \in Pow2[c.a.w]..(Pow2[2 * c.a.w - 1] - 1))
    BY NoDeviation, Zenon
  <2> QED BY ONLY <1>2, <2>1, Zenon
<1>5. PICK x \in Int, overflow \in BOOLEAN : x = ExactResult(c) /\ overflow = Overflows(c)
  BY <1>1, <1>4, OverflowTermIs
<1>6. OverflowTerm(c) = buildOverflowResult(sym_build_integer(x, w), overflow, le)
  BY <1>1, <1>4, <1>5, OverflowTermIs
<1>7. PICK n \in Nat \ {0} : w = n * ByteBits /\ w \div ByteBits = n /\ (n > 1 => w > ByteBits)
  <2>1. PICK d \in Nat \ {0} : d = ByteBits
    BY BuildersAssumption
  <2>0. PICK u \in Int : u = w
    BY <1>1
  <2>2. PICK q \in Int, r \in 0..(d - 1) : q = u \div d /\ r = u % d /\ u = d * q + r
    BY QuotientAndRemainder
  <2>3. u = d * q /\ u > 0
    BY <1>1, <2>0, <2>1, <2>2
  <2>4. q > 0
    BY <2>3
  <2>5. u = q * d
    BY <2>3
  <2>6. q > 1 => u > d
    BY <2>3, <2>4
  <2> QED BY <2>0, <2>1, <2>2, <2>4, <2>5, <2>6
<1>8. ~(~le /\ n > 1 /\ overflow)
  BY <1>2, <1>5, <1>7, NoDeviation
<1>9. PICK f : f = OverflowImage(c)
  OBVIOUS
<1>10. f = [k \in 0..(2 * n - 1) |->
              CASE k < n -> ByteOf(x, n, k, le)
                [] k = n -> IF overflow THEN 1 ELSE 0
                [] k > n -> 0]
  <2> DEFINE Image(m, y, o, e) ==
        [k \in 0..(2 * m - 1) |->
           CASE k < m -> ByteOf(y, m, k, e)
             [] k = m -> IF o THEN 1 ELSE 0
             [] k > m -> 0]
  <2>1. OverflowImage(c) = Image(c.a.w \div ByteBits, ExactResult(c), Overflows(c), c.le)
    BY Zenon DEF OverflowImage
  <2>2. c.a.w \div ByteBits = n
    BY <1>2, <1>7
  <2>3. f = Image(n, x, overflow, le)
    <3> HIDE DEF Image
    <3> QED BY ONLY <1>2, <1>5, <1>9, <2>1, <2>2, Zenon
  <2> QED BY <2>3
<1>11. \A k \in 0..(n - 1) : f[k] = ByteOf(x, n, k, le)
  BY <1>10
<1>12. f[n] = IF overflow THEN 1 ELSE 0
  BY <1>10
<1>13. \A k \in (n + 1)..(2 * n - 1) : f[k] = 0
  BY <1>10
<1>14. Holds(buildOverflowResult(sym_build_integer(x, n * ByteBits), overflow, le), 2 * n, f)
  BY <1>8, <1>11, <1>12, <1>13, OverflowResultHolds
<1>15. IsImage(OverflowTerm(c), 2 * n, f)
  <2>1. 2 * n \in Nat
    OBVIOUS
  <2> QED BY <1>6, <1>7, <1>14, <2>1, HoldsIsImage
<1> QED BY <1>2, <1>3, <1>7, <1>9, <1>15

\* The values of the fields of a struct.
LEMMA StructValuesAre ==
  ASSUME NEW l \in Layout, NEW values \in StructValues(l)
  PROVE  DOMAIN values = DOMAIN l.fields /\ \A j \in DOMAIN l.fields : values[j] \in Int
  BY DEF StructValues, FieldValue

BuildersSpec == BuildersInit /\ [][BuildersNext]_builderVars

\* The initial state, a step that leaves everything alone, and each action.
LEMMA BuildersExactInitially == BuildersInit => BuildersAreExact
  BY Zenon DEF BuildersInit, BuildersAreExact

LEMMA BuildersExactUnchanged ==
  ASSUME BuildersAreExact, UNCHANGED builderVars
  PROVE  BuildersAreExact'
<1>1. call' = call /\ result' = result
  BY DEF builderVars
<1> QED BY <1>1, Zenon DEF BuildersAreExact, ExpectedAggregate

LEMMA BuildSaturatingExact ==
  ASSUME BuildSaturating
  PROVE  BuildersAreExact'
<1>0. PICK fn \in Saturating, w \in Width, one \in {0, 1} : \E a, b \in Term(w) :
        /\ fn \in {"sshl_sat", "ushl_sat"} => b.v < w
        /\ call' = [fn |-> fn, a |-> a, b |-> b, one |-> one]
        /\ result' = SaturatingTerm(call')
  BY ZenonT(30) DEF BuildSaturating
<1>1. PICK a \in Term(w), b \in Term(w) :
        /\ fn \in {"sshl_sat", "ushl_sat"} => b.v < w
        /\ call' = [fn |-> fn, a |-> a, b |-> b, one |-> one]
        /\ result' = SaturatingTerm(call')
  BY <1>0, Zenon
<1>2. PICK c : c = call'
  OBVIOUS
<1>3. c.fn \in Saturating
  BY <1>1, <1>2
<1>4. ~KnownDeviation(c) => SaturatingTerm(c) = ExpectedSaturating(c)
  BY <1>1, <1>2, SaturatingCall
<1> QED BY <1>1, <1>2, <1>3, <1>4, Zenon DEF BuildersAreExact

LEMMA BuildOverflowExact ==
  ASSUME BuildOverflow
  PROVE  BuildersAreExact'
<1>0. PICK fn \in Overflowing, w \in Width, signed \in BOOLEAN, le \in BOOLEAN :
      \E a, b \in Term(w) :
        /\ w % ByteBits = 0
        /\ call' = [fn |-> fn, a |-> a, b |-> b, signed |-> signed, le |-> le]
        /\ result' = IF le /\ ~BswapApplies(a) THEN Abort ELSE OverflowTerm(call')
  BY ZenonT(30) DEF BuildOverflow
<1>1. PICK a \in Term(w), b \in Term(w) :
        /\ w % ByteBits = 0
        /\ call' = [fn |-> fn, a |-> a, b |-> b, signed |-> signed, le |-> le]
        /\ result' = IF le /\ ~BswapApplies(a) THEN Abort ELSE OverflowTerm(call')
  BY <1>0, Zenon
<1>2. PICK c : c = call'
  OBVIOUS
<1>3. c.fn \in Overflowing /\ c.a = a
  BY <1>1, <1>2
<1>4. ~KnownDeviation(c) =>
        /\ ~(le /\ ~BswapApplies(a))
        /\ IsImage(OverflowTerm(c), 2 * (a.w \div ByteBits), OverflowImage(c))
  BY <1>1, <1>2, OverflowCall
<1> QED BY <1>1, <1>2, <1>3, <1>4, Zenon DEF BuildersAreExact

LEMMA BuildFunnelShiftKnown ==
  ASSUME BuildFunnelShift
  PROVE  BuildersAreExact'
<1>1. call'.fn \in {"fshl", "fshr"}
  BY DEF BuildFunnelShift
<1> QED BY <1>1, Zenon DEF BuildersAreExact, KnownDeviation

LEMMA BuildAggregateExact ==
  ASSUME BuildAggregate
  PROVE  BuildersAreExact'
<1> DEFINE Called(l, le, values) ==
        \/ /\ call' = [fn |-> "struct", l |-> l, values |-> values, le |-> le]
           /\ result' = createStructExpression(l, values, le)
        \/ \E i \in DOMAIN l.fields :
             /\ call' = [fn |-> "extractvalue", l |-> l, values |-> values,
                         le |-> le, i |-> i]
             /\ result' = visitExtractValueInst(createStructExpression(l, values, le),
                                                l.fields[i], le)
        \/ \E i \in DOMAIN l.fields : \E new \in FieldValue(l.fields[i]) :
             /\ call' = [fn |-> "insertvalue", l |-> l, values |-> values,
                         le |-> le, i |-> i, new |-> new]
             /\ result' = visitInsertValueInst(createStructExpression(l, values, le),
                                               new, l.fields[i], le)
<1>0. PICK l \in Layout, le \in BOOLEAN : \E values \in StructValues(l) : Called(l, le, values)
  BY ZenonT(30) DEF BuildAggregate
<1>1. PICK values \in StructValues(l) : Called(l, le, values)
  BY <1>0, Zenon
<1>2. DOMAIN values = DOMAIN l.fields /\ \A j \in DOMAIN l.fields : values[j] \in Int
  BY StructValuesAre
<1>3. l.size \in Nat
  BY LayoutIs DEF IsLayout
<1>4. PICK c : c = call'
  OBVIOUS
<1>5. CASE /\ call' = [fn |-> "struct", l |-> l, values |-> values, le |-> le]
           /\ result' = createStructExpression(l, values, le)
  <2>1. c.fn = "struct" /\ c.l = l /\ c.values = values /\ c.le = le
    BY <1>4, <1>5
  <2>2. IsImage(result', l.size, StructImage(l, values, le))
    BY <1>2, <1>3, <1>5, StructHolds, HoldsIsImage
  <2>3. ExpectedAggregate(call)'
    BY <1>4, <2>1, <2>2 DEF ExpectedAggregate
  <2> QED BY <1>4, <2>1, <2>3, Zenon DEF BuildersAreExact
<1>6. ASSUME NEW i \in DOMAIN l.fields,
             call' = [fn |-> "extractvalue", l |-> l, values |-> values,
                      le |-> le, i |-> i],
             result' = visitExtractValueInst(createStructExpression(l, values, le),
                                             l.fields[i], le)
      PROVE  BuildersAreExact'
  <2>1. c.fn = "extractvalue" /\ c.l = l /\ c.values = values /\ c.le = le /\ c.i = i
    BY <1>4, <1>6
  <2>2. result' = sym_build_integer(values[i], l.fields[i].size * ByteBits)
    BY <1>2, <1>6, ExtractedIs
  <2>3. ExpectedAggregate(call)'
    BY <1>4, <2>1, <2>2 DEF ExpectedAggregate
  <2> QED BY <1>4, <2>1, <2>3, Zenon DEF BuildersAreExact
<1>7. ASSUME NEW i \in DOMAIN l.fields, NEW new \in FieldValue(l.fields[i]),
             call' = [fn |-> "insertvalue", l |-> l, values |-> values,
                      le |-> le, i |-> i, new |-> new],
             result' = visitInsertValueInst(createStructExpression(l, values, le),
                                            new, l.fields[i], le)
      PROVE  BuildersAreExact'
  <2>1. /\ c.fn = "insertvalue" /\ c.l = l /\ c.values = values /\ c.le = le
        /\ c.i = i /\ c.new = new
    BY <1>4, <1>7
  <2>2. new \in Int
    BY DEF FieldValue
  <2>3. IsImage(result', l.size, StructImage(l, [values EXCEPT ![i] = new], le))
    BY <1>2, <1>3, <1>7, <2>2, InsertedHolds, HoldsIsImage
  <2>4. ExpectedAggregate(call)'
    BY <1>4, <2>1, <2>3 DEF ExpectedAggregate
  <2> QED BY <1>4, <2>1, <2>4, Zenon DEF BuildersAreExact
<1> QED BY <1>1, <1>5, <1>6, <1>7, Zenon

LEMMA CompareFloatsExact ==
  ASSUME CompareFloats
  PROVE  BuildersAreExact'
<1>1. PICK fn \in Comparison, a \in Float, b \in Float :
        /\ call' = [fn |-> fn, a |-> a, b |-> b]
        /\ result' = ComparisonTerm(call')
  BY Zenon DEF CompareFloats
<1>2. PICK c : c = call'
  OBVIOUS
<1>3. c.fn = fn /\ c.a = a /\ c.b = b
  BY <1>1, <1>2
<1>4. ~KnownDeviation(c) => ComparisonTerm(c) = (Order(a, b) \in Accepts[fn])
  <2> SUFFICES ASSUME ~KnownDeviation(c) PROVE ComparisonTerm(c) = (Order(a, b) \in Accepts[fn])
    OBVIOUS
  <2>1. ~(fn = "one" /\ NaN \in {a, b})
    BY <1>3, NoDeviation, Zenon
  <2> QED BY <1>1, <1>2, <2>1, ComparisonIs, Zenon
<1> QED BY <1>1, <1>2, <1>3, <1>4, Zenon DEF BuildersAreExact

\* For integers of every width, structs of every layout and all values, whatever
\* the size of a byte and of uint64_t, and whatever undefined shift the build
\* produces: apart from the known deviations each builder of RuntimeCommon.cpp
\* and each floating-point comparison of the simple backend returns the term
\* that has the value the program computes, the struct expressions of
\* createValueExpression and _sym_build_insert hold every byte in its place,
\* and _sym_build_extract gets back what has been put there.
THEOREM BuildersAreExactAlways == BuildersSpec => []BuildersAreExact
<1>1. BuildersInit => BuildersAreExact
  BY BuildersExactInitially
<1>2. BuildersAreExact /\ [BuildersNext]_builderVars => BuildersAreExact'
  <2> SUFFICES ASSUME BuildersAreExact, [BuildersNext]_builderVars
               PROVE  BuildersAreExact'
    OBVIOUS
  <2>1. CASE BuildSaturating
    BY <2>1, BuildSaturatingExact
  <2>2. CASE BuildOverflow
    BY <2>2, BuildOverflowExact
  <2>3. CASE BuildFunnelShift
    BY <2>3, BuildFunnelShiftKnown
  <2>4. CASE BuildAggregate
    BY <2>4, BuildAggregateExact
  <2>5. CASE CompareFloats
    BY <2>5, CompareFloatsExact
  <2>6. CASE BuilderReturns
    BY <2>6, Zenon DEF BuilderReturns, BuildersAreExact
  <2>7. CASE UNCHANGED builderVars
    BY <2>7, BuildersExactUnchanged
  <2> QED BY <2>1, <2>2, <2>3, <2>4, <2>5, <2>6, <2>7 DEF BuildersNext
<1> QED BY <1>1, <1>2, PTL DEF BuildersSpec
===============================================================================
