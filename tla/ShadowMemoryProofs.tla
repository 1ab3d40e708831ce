-------------------------- MODULE ShadowMemoryProofs --------------------------
(***************************************************************************)
(* Proofs about ShadowMemory for every page size, memory size and input.    *)
(***************************************************************************)
EXTENDS ShadowMemory, TLAPS

-------------------------------------------------------------------------------
(* Pages *)

\* Division with remainder by the page size.
LEMMA PageDivision ==
  ASSUME NEW a \in Nat
  PROVE  /\ (a % kPageSize) \in 0..(kPageSize - 1)
         /\ (a \div kPageSize) \in Nat
         /\ a = kPageSize * (a \div kPageSize) + (a % kPageSize)
  BY ShadowAssumption

\* A page starts at a multiple of the page size.
LEMMA PageStartMultiple ==
  ASSUME NEW a \in Nat
  PROVE  /\ pageStart(a) = kPageSize * (a \div kPageSize)
         /\ pageStart(a) \in Nat
         /\ pageStart(a) <= a /\ a < pageStart(a) + kPageSize
<1> DEFINE q == a \div kPageSize
           r == a % kPageSize
<1>1. q \in Nat /\ r \in Nat /\ r < kPageSize /\ a = kPageSize * q + r
  BY PageDivision, ShadowAssumption
<1>2. pageStart(a) = a - r
  BY DEF pageStart
<1>3. kPageSize * q \in Nat
  <2> HIDE DEF q
  <2> QED BY <1>1, ShadowAssumption
<1> HIDE DEF q, r
<1>4. pageStart(a) = kPageSize * q /\ pageStart(a) \in Nat
  BY <1>1, <1>2, <1>3, ShadowAssumption
<1> QED BY <1>1, <1>2, <1>3, <1>4, ShadowAssumption DEF q

\* A multiple of the page size is determined up to less than a page.
LEMMA MultiplesApart ==
  ASSUME NEW x \in Nat, NEW y \in Nat, x < y
  PROVE  kPageSize * x + kPageSize <= kPageSize * y
<1>1. PICK k \in Nat : y = x + 1 + k
  <2>1. y - x - 1 \in Nat /\ y = x + 1 + (y - x - 1)
    OBVIOUS
  <2> QED BY <2>1
<1>2. kPageSize * y = kPageSize * x + kPageSize + kPageSize * k
  BY <1>1, ShadowAssumption
<1>3. kPageSize * k \in Nat /\ kPageSize * x \in Nat
  BY ShadowAssumption
<1> QED BY <1>2, <1>3, ShadowAssumption

\* What lies between two addresses of one page is on that page.
LEMMA PageBetween ==
  ASSUME NEW a \in Nat, NEW b \in Nat, NEW c \in Nat,
         a <= b, b <= c, pageStart(a) = pageStart(c)
  PROVE  pageStart(b) = pageStart(a)
<1> DEFINE x == a \div kPageSize
           y == b \div kPageSize
<1>1. x \in Nat /\ y \in Nat
  BY PageDivision
<1>2. pageStart(a) = kPageSize * x /\ pageStart(b) = kPageSize * y
  BY PageStartMultiple
<1> HIDE DEF x, y
<1>0. /\ pageStart(a) \in Nat /\ pageStart(b) \in Nat
      /\ pageStart(a) <= a /\ b < pageStart(b) + kPageSize
      /\ pageStart(b) <= b /\ c < pageStart(a) + kPageSize
  BY PageStartMultiple
<1>3. kPageSize * x < kPageSize * y + kPageSize
  BY <1>2, <1>0, ShadowAssumption
<1>4. kPageSize * y < kPageSize * x + kPageSize
  BY <1>2, <1>0, ShadowAssumption
<1>5. kPageSize * x \in Nat /\ kPageSize * y \in Nat
  BY <1>2, <1>0
<1>6. ~(x < y)
  BY <1>1, <1>4, <1>5, MultiplesApart, ShadowAssumption
<1>7. ~(y < x)
  BY <1>1, <1>3, <1>5, MultiplesApart, ShadowAssumption
<1> QED BY <1>1, <1>2, <1>6, <1>7

LEMMA PageStartType ==
  ASSUME NEW a \in Addr
  PROVE  pageStart(a) \in Addr
<1>1. a \in Nat BY DEF Addr
<1> QED BY <1>1, PageStartMultiple, InputAssumption DEF Addr

-------------------------------------------------------------------------------
(* Shadow lookup, page creation and the byte maps *)

LEMMA GarbageIsEntry == Garbage \in Entry /\ Null \in Entry
  BY InputAssumption DEF Garbage, Entry, Expr, ByteExpr, Byte

LEMMA ViewType ==
  ASSUME NEW s \in ShadowState, NEW a \in Addr
  PROVE  View(s, a) \in Entry
  BY GarbageIsEntry DEF ShadowState, View

LEMMA VisibleType ==
  ASSUME NEW s \in ShadowState
  PROVE  Visible(s) \in [Addr -> Entry]
  BY ViewType DEF Visible

\* Creating a shadow page changes nothing that a reader sees.
LEMMA CreateShadow ==
  ASSUME NEW s \in ShadowState, NEW addr \in Addr
  PROVE  LET c == getOrCreateShadow(s, addr)
         IN  /\ c \in ShadowState
             /\ c.pages = s.pages \cup {pageStart(addr)}
             /\ \A a \in Addr : View(c, a) = View(s, a)
<1> DEFINE c == getOrCreateShadow(s, addr)
<1>1. c \in ShadowState
  BY PageStartType, GarbageIsEntry DEF getOrCreateShadow, ShadowState
<1>2. c.pages = s.pages \cup {pageStart(addr)}
  BY DEF getOrCreateShadow
<1>3. ASSUME NEW a \in Addr PROVE View(c, a) = View(s, a)
  <2>1. c.bytes[a] = IF pageStart(addr) \notin s.pages
                        /\ pageStart(a) = pageStart(addr)
                     THEN Null ELSE s.bytes[a]
    BY DEF getOrCreateShadow
  <2> QED BY <1>2, <2>1 DEF View
<1> QED BY <1>1, <1>2, <1>3

\* A write through an iterator that points into a shadow page changes exactly
\* the byte it points to.
LEMMA WriteThrough ==
  ASSUME NEW s \in ShadowState, NEW addr \in Addr, NEW e \in Entry,
         pageStart(addr) \in s.pages
  PROVE  LET w == SetShadow(s, addr, e)
         IN  /\ w \in ShadowState
             /\ w.pages = s.pages
             /\ \A a \in Addr : View(w, a) = IF a = addr THEN e ELSE View(s, a)
<1> DEFINE w == SetShadow(s, addr, e)
<1>1. w \in ShadowState /\ w.pages = s.pages
  BY DEF SetShadow, ShadowState
<1>2. ASSUME NEW a \in Addr
      PROVE  w.bytes[a] = IF a = addr THEN e ELSE s.bytes[a]
  BY DEF SetShadow, ShadowState
<1> QED BY <1>1, <1>2 DEF View

\* The fast path of isConcrete gives the answer of the loop over all bytes.
LEMMA IsConcreteCorrect ==
  ASSUME NEW s \in ShadowState, NEW addr \in Addr, NEW n \in Nat,
         IsRegion(addr, n)
  PROVE  isConcrete(s, addr, n) <=> \A i \in 0..(n - 1) : View(s, addr + i) = Null
<1>1. ASSUME pageStart(addr) = pageStart(addr + n),
             pageStart(addr) \notin s.pages,
             NEW i \in 0..(n - 1)
      PROVE  View(s, addr + i) = Null
  <2>1. addr \in Nat /\ addr + i \in Nat /\ addr + n \in Nat
        /\ addr <= addr + i /\ addr + i <= addr + n
    BY DEF Addr
  <2>2. pageStart(addr + i) = pageStart(addr)
    BY <2>1, <1>1, PageBetween
  <2> QED BY <2>2, <1>1 DEF View
<1> QED BY <1>1 DEF isConcrete

LEMMA CopiedType ==
  ASSUME NEW S, NEW f \in [Addr -> S], NEW d \in Addr, NEW s \in Addr,
         NEW n \in Nat, IsRegion(s, n)
  PROVE  Copied(f, d, s, n) \in [Addr -> S]
<1>1. ASSUME NEW a \in Addr, Within(a, d, n) PROVE s + (a - d) \in Addr
  BY <1>1, InputAssumption DEF Addr, Within, IsRegion
<1> QED BY <1>1 DEF Copied

LEMMA WrittenType ==
  ASSUME NEW S, NEW f \in [Addr -> S], NEW d \in Addr, NEW data \in Seq(S)
  PROVE  Written(f, d, data) \in [Addr -> S]
<1>1. ASSUME NEW a \in Addr, Within(a, d, Len(data))
      PROVE  data[(a - d) + 1] \in S
  <2>1. Len(data) \in Nat /\ (a - d) + 1 \in 1..Len(data)
    BY <1>1 DEF Addr, Within
  <2> QED BY <2>1
<1> QED BY <1>1 DEF Written

LEMMA FilledType ==
  ASSUME NEW S, NEW e \in S, NEW n \in Nat
  PROVE  Filled(e, n) \in Seq(S) /\ Len(Filled(e, n)) = n
  BY DEF Filled

-------------------------------------------------------------------------------
(* The shadow loops *)

\* A copy loop starts out satisfying the loop invariant.
LEMMA BeginCopyCorrect ==
  ASSUME TypeOK, NEW d \in Addr, NEW s \in Addr, NEW n \in Nat, NEW rest \in Nat,
         IsRegion(d, n + rest), IsRegion(s, n), d <= s \/ s + n <= d,
         goal' = Written(Copied(Visible(sm), d, s, n), d + n, Filled(Null, rest)),
         BeginCopy(d, s, n, rest)
  PROVE  /\ sm' \in ShadowState /\ op' \in Op /\ goal' \in [Addr -> Entry]
         /\ LoopInvariant'
<1>1. sm \in ShadowState
  BY DEF TypeOK
<1>2. /\ sm' \in ShadowState
      /\ sm'.pages = sm.pages \cup {pageStart(d)}
      /\ \A a \in Addr : View(sm', a) = View(sm, a)
  BY <1>1, CreateShadow DEF BeginCopy
<1>3. op' = [kind |-> "copy", dst |-> d, src |-> s, n |-> n, i |-> 0,
             cached |-> pageStart(s) \in sm.pages, data |-> <<>>, rest |-> rest]
  BY DEF BeginCopy
<1>4. op' \in Op
  BY <1>3 DEF Op
<1>5. d + n \in Addr /\ d \in Nat /\ s \in Nat /\ s + 0 = s /\ d + 0 = d
  BY InputAssumption DEF Addr, IsRegion
<1>6. goal' \in [Addr -> Entry]
  BY <1>1, <1>5, VisibleType, CopiedType, WrittenType, FilledType, GarbageIsEntry
<1>7. \A a \in Addr : goal'[a] = IF Within(a, d + n, rest) THEN Null
                               ELSE IF Within(a, d, n) THEN View(sm, s + (a - d))
                               ELSE View(sm, a)
  <2> SUFFICES ASSUME NEW a \in Addr
               PROVE  goal'[a] = IF Within(a, d + n, rest) THEN Null
                                 ELSE IF Within(a, d, n) THEN View(sm, s + (a - d))
                                 ELSE View(sm, a)
    OBVIOUS
  <2>1. CASE Within(a, d + n, rest)
    <3>1. Len(Filled(Null, rest)) = rest
      BY FilledType
    <3>2. (a - (d + n)) + 1 \in 1..rest
      BY <2>1, <1>5 DEF Within, Addr
    <3>3. Filled(Null, rest)[(a - (d + n)) + 1] = Null
      BY <3>2 DEF Filled
    <3> QED BY <2>1, <3>1, <3>3 DEF Written
  <2>2. CASE ~Within(a, d + n, rest)
    <3>1. Len(Filled(Null, rest)) = rest
      BY FilledType
    <3>2. goal'[a] = Copied(Visible(sm), d, s, n)[a]
      BY <2>2, <3>1 DEF Written
    <3>3. Within(a, d, n) => s + (a - d) \in Addr
      BY InputAssumption DEF Within, Addr, IsRegion
    <3> QED BY <3>2, <2>2, <3>3 DEF Copied, Visible
  <2> QED BY <2>1, <2>2
<1>8. LoopInvariant'
  <2>1. /\ op'.i <= op'.n /\ IsRegion(op'.dst, op'.n + op'.rest)
        /\ IsRegion(op'.src, op'.n)
        /\ op'.cached => pageStart(op'.src + op'.i) \in sm'.pages
        /\ op'.kind \in {"copy", "write"} => pageStart(op'.dst + op'.i) \in sm'.pages
        /\ op'.dst <= op'.src \/ op'.src + op'.n <= op'.dst
    <3>1. op'.src + op'.i = s /\ op'.dst + op'.i = d
      BY <1>3, <1>5
    <3>2. op'.n + op'.rest = n + rest /\ op'.i <= op'.n
      BY <1>3
    <3>3. op'.cached => pageStart(s) \in sm'.pages
      BY <1>2, <1>3
    <3>4. op'.src = s /\ op'.n = n /\ op'.dst = d
      BY <1>3
    <3> QED BY <1>2, <3>1, <3>2, <3>3, <3>4
  <2>2. ASSUME NEW a \in Addr \ Pending' PROVE goal'[a] = View(sm', a)
    <3>1. ~Within(a, d, n + rest)
      BY <2>2, <1>3, <1>5 DEF Pending
    <3>2. ~Within(a, d + n, rest) /\ ~Within(a, d, n)
      BY <3>1, <1>5 DEF Within, Addr
    <3> QED BY <3>2, <1>2, <1>7
  <2>3. ASSUME NEW j \in 0..(n - 1) PROVE goal'[d + j] = IterView(s + j)'
    <3>1. d + j \in Addr /\ s + j \in Addr /\ Within(d + j, d, n)
          /\ ~Within(d + j, d + n, rest) /\ s + ((d + j) - d) = s + j
      BY <1>5, InputAssumption DEF Addr, IsRegion, Within
    <3>2. goal'[d + j] = View(sm, s + j)
      BY <3>1, <1>7
    <3>3. IterView(s + j)' = View(sm, s + j)
      <4>1. op'.src + op'.i = s /\ op'.cached = (pageStart(s) \in sm.pages)
        BY <1>3, <1>5
      <4>2. View(sm', s + j) = View(sm, s + j)
        BY <1>2, <3>1
      <4> QED BY <4>1, <4>2 DEF IterView, View
    <3> QED BY <3>2, <3>3
  <2>4. ASSUME NEW j \in n..(n + rest - 1) PROVE goal'[d + j] = Null
    <3>1. d + j \in Addr /\ Within(d + j, d + n, rest)
      BY <1>5, InputAssumption DEF Addr, IsRegion, Within
    <3> QED BY <3>1, <1>7
  <2> QED BY <1>3, <2>1, <2>2, <2>3, <2>4 DEF LoopInvariant
<1> QED BY <1>2, <1>4, <1>6, <1>8

\* So does a backward copy loop.
LEMMA BeginCopyBackwardCorrect ==
  ASSUME TypeOK, NEW d \in Addr, NEW s \in Addr, NEW n \in Nat,
         IsRegion(d, n), IsRegion(s, n), d > s,
         goal' = Copied(Visible(sm), d, s, n),
         BeginCopyBackward(d, s, n)
  PROVE  /\ sm' \in ShadowState /\ op' \in Op /\ goal' \in [Addr -> Entry]
         /\ LoopInvariant'
<1>1. sm \in ShadowState
  BY DEF TypeOK
<1>2. d + n \in Addr /\ s + n \in Addr /\ d \in Nat /\ s \in Nat /\ n + 0 = n
  BY DEF IsRegion, Addr
<1>3. /\ sm' \in ShadowState
      /\ sm'.pages = sm.pages \cup {pageStart(d + n)}
      /\ \A a \in Addr : View(sm', a) = View(sm, a)
  BY <1>1, <1>2, CreateShadow DEF BeginCopyBackward
<1>4. op' = [kind |-> "copy_backward", dst |-> d, src |-> s, n |-> n, i |-> n,
             cached |-> pageStart(s + n) \in sm.pages, data |-> <<>>, rest |-> 0]
  BY DEF BeginCopyBackward
<1>5. op' \in Op
  BY <1>4 DEF Op
<1>6. goal' \in [Addr -> Entry]
  BY <1>1, VisibleType, CopiedType
<1>7. ASSUME NEW a \in Addr
      PROVE  goal'[a] = IF Within(a, d, n) THEN View(sm, s + (a - d)) ELSE View(sm, a)
  <2>1. Within(a, d, n) => s + (a - d) \in Addr
    BY InputAssumption DEF Within, Addr, IsRegion
  <2> QED BY <2>1 DEF Copied, Visible
<1>8. LoopInvariant'
  <2>1. /\ op'.i <= op'.n /\ op'.n + op'.rest = n /\ op'.src = s /\ op'.n = n
        /\ op'.dst = d /\ op'.rest = 0 /\ op'.kind = "copy_backward" /\ op'.i = n
    BY <1>4, <1>2
  <2>2. op'.cached => pageStart(op'.src + op'.i) \in sm'.pages
    BY <1>3, <1>4
  <2>3. ASSUME NEW a \in Addr \ Pending' PROVE goal'[a] = View(sm', a)
    <3>1. ~Within(a, d, n)
      BY <2>3, <2>1 DEF Pending
    <3> QED BY <3>1, <1>3, <1>7
  <2>4. ASSUME NEW j \in 0..(n - 1) PROVE goal'[d + j] = IterView(s + j)'
    <3>1. d + j \in Addr /\ s + j \in Addr /\ Within(d + j, d, n)
          /\ s + ((d + j) - d) = s + j
      BY <1>2, InputAssumption DEF Addr, IsRegion, Within
    <3>2. goal'[d + j] = View(sm, s + j)
      BY <3>1, <1>7
    <3>3. op'.cached = (pageStart(s + n) \in sm.pages) /\ op'.src + op'.i = s + n
      BY <1>4
    <3>4. View(sm', s + j) = View(sm, s + j)
      BY <1>3, <3>1
    <3> QED BY <3>2, <3>3, <3>4 DEF IterView, View
  <2> QED BY <2>1, <2>2, <2>3, <2>4 DEF LoopInvariant
<1> QED BY <1>3, <1>5, <1>6, <1>8

\* And a loop that stores given expressions.
LEMMA BeginWriteCorrect ==
  ASSUME sm \in ShadowState, NEW d \in Addr, NEW data \in Seq(Entry),
         IsRegion(d, Len(data)),
         \A a \in Addr : goal'[a] = IF Within(a, d, Len(data))
                                   THEN data[(a - d) + 1] ELSE View(sm, a),
         BeginWrite(d, data)
  PROVE  sm' \in ShadowState /\ op' \in Op /\ LoopInvariant'
<1> DEFINE n == Len(data)
           c == getOrCreateShadow(sm, d)
<1>1. n \in Nat /\ d + n \in Addr /\ d \in Nat /\ 0 \in Addr /\ 0 + n \in Addr
      /\ d + 0 = d
  BY InputAssumption DEF IsRegion, Addr
<1>2. c \in ShadowState /\ c.pages = sm.pages \cup {pageStart(d)}
      /\ \A a \in Addr : View(c, a) = View(sm, a)
  BY CreateShadow
<1>3. /\ sm' \in ShadowState
      /\ pageStart(d) \in sm'.pages
      /\ \A a \in Addr : View(sm', a) = View(sm, a)
  <2>1. sm' = getOrCreateShadow(c, d + n)
    BY DEF BeginWrite, BeginWriteOn
  <2> HIDE DEF c, n
  <2> QED BY <1>1, <1>2, <2>1, CreateShadow
<1>4. op' = [kind |-> "write", dst |-> d, src |-> 0, n |-> n, i |-> 0,
             cached |-> FALSE, data |-> data, rest |-> 0]
  BY DEF BeginWrite, BeginWriteOn
<1>5. op' \in Op
  BY <1>1, <1>4 DEF Op
<1>6. LoopInvariant'
  <2>1. /\ op'.i = 0 /\ op'.n = n /\ op'.dst = d /\ op'.src = 0 /\ op'.rest = 0
        /\ op'.kind = "write" /\ op'.data = data /\ op'.cached = FALSE
        /\ op'.n + op'.rest = n /\ op'.dst + op'.i = d /\ op'.i <= op'.n
        /\ op'.n - op'.i + op'.rest = n
    BY <1>1, <1>4
  <2>2. ASSUME NEW a \in Addr \ Pending' PROVE goal'[a] = View(sm', a)
    <3>1. ~Within(a, d, n)
      BY <2>1, <2>2 DEF Pending
    <3> QED BY <3>1, <1>3
  <2>3. ASSUME NEW j \in 0..(n - 1) PROVE goal'[d + j] = data[j + 1]
    <3>1. d + j \in Addr /\ Within(d + j, d, n) /\ ((d + j) - d) + 1 = j + 1
      BY <1>1, InputAssumption DEF Addr, Within
    <3> QED BY <3>1
  <2>4. IsRegion(op'.dst, op'.n + op'.rest) /\ IsRegion(op'.src, op'.n)
    BY <1>1, <2>1 DEF IsRegion
  <2> QED BY <1>3, <2>1, <2>2, <2>3, <2>4 DEF LoopInvariant
<1> QED BY <1>3, <1>5, <1>6

\* An iteration of a copy loop keeps the loop invariant: the byte it writes is
\* not one that is still to be read, and a page that it creates under the read
\* iterator is as empty as the null pointer that the iterator has cached.
LEMMA CopyStepCorrect ==
  ASSUME TypeOK, LoopInvariant, CopyStep
  PROVE  sm' \in ShadowState /\ op' \in Op /\ LoopInvariant'
<1> DEFINE rd == op.src + op.i
           wr == op.dst + op.i
           e  == IF op.cached THEN sm.bytes[rd] ELSE Null
           w  == SetShadow(sm, wr, e)
           c  == IF pageStart(rd + 1) = pageStart(rd) THEN op.cached
                 ELSE pageStart(rd + 1) \in sm'.pages
<1>1. /\ op \in Op /\ sm \in ShadowState /\ op.kind = "copy" /\ op.i < op.n
      /\ op.dst \in Nat /\ op.src \in Nat /\ op.i \in Nat /\ op.n \in Nat
      /\ op.rest \in Nat /\ op.cached \in BOOLEAN
  BY DEF TypeOK, CopyStep, Op, Addr
<1>2. /\ IsRegion(op.dst, op.n + op.rest) /\ IsRegion(op.src, op.n)
      /\ \A a \in Addr \ Pending : goal[a] = View(sm, a)
      /\ op.cached => pageStart(rd) \in sm.pages
      /\ pageStart(wr) \in sm.pages
      /\ \A j \in op.i..(op.n - 1) : goal[op.dst + j] = IterView(op.src + j)
      /\ \A j \in op.n..(op.n + op.rest - 1) : goal[op.dst + j] = Null
      /\ op.dst <= op.src \/ op.src + op.n <= op.dst
  BY <1>1 DEF LoopInvariant
<1>3. rd \in Addr /\ wr \in Addr /\ rd + 1 \in Addr /\ wr + 1 \in Addr
  BY <1>1, <1>2, InputAssumption DEF IsRegion, Addr
<1>4. e \in Entry /\ e = IterView(rd)
  BY <1>1, <1>2, <1>3, GarbageIsEntry DEF ShadowState, IterView, View
<1>5. w \in ShadowState /\ w.pages = sm.pages
      /\ \A a \in Addr : View(w, a) = IF a = wr THEN e ELSE View(sm, a)
  <2> HIDE DEF e, wr
  <2> QED BY <1>1, <1>2, <1>3, <1>4, WriteThrough
<1>6. /\ sm' = getOrCreateShadow(w, wr + 1)
      /\ op' = [op EXCEPT !.i = op.i + 1, !.cached = c]
      /\ goal' = goal
  BY DEF CopyStep
<1>7. /\ sm' \in ShadowState /\ sm'.pages = sm.pages \cup {pageStart(wr + 1)}
      /\ \A a \in Addr : View(sm', a) = IF a = wr THEN e ELSE View(sm, a)
  <2> HIDE DEF w, e, wr
  <2> QED BY <1>3, <1>5, <1>6, CreateShadow
<1>8. c \in BOOLEAN
  <2>1. (pageStart(rd + 1) \in sm'.pages) \in BOOLEAN
    OBVIOUS
  <2> QED BY <1>1, <2>1, Zenon
<1> HIDE DEF c, e, w
<1>9. /\ op' \in Op /\ op'.kind = "copy" /\ op'.dst = op.dst /\ op'.src = op.src
      /\ op'.n = op.n /\ op'.rest = op.rest /\ op'.i = op.i + 1 /\ op'.cached = c
      /\ op'.src + op'.i = rd + 1 /\ op'.dst + op'.i = wr + 1
  <2>1. op.i + 1 \in Nat
    BY <1>1
  <2>2. op' \in Op
    BY <1>1, <1>6, <1>8, <2>1 DEF Op
  <2>3. /\ op'.kind = "copy" /\ op'.dst = op.dst /\ op'.src = op.src
        /\ op'.n = op.n /\ op'.rest = op.rest /\ op'.i = op.i + 1 /\ op'.cached = c
    BY <1>1, <1>6 DEF Op
  <2>4. op.src + (op.i + 1) = rd + 1 /\ op.dst + (op.i + 1) = wr + 1
    BY <1>1
  <2> QED BY <2>2, <2>3, <2>4
<1>10. ASSUME NEW a \in Addr \ Pending' PROVE goal'[a] = View(sm', a)
  <2>1. CASE a = wr
    BY <2>1, <1>1, <1>2, <1>4, <1>6, <1>7
  <2>2. CASE a # wr
    <3>1. a \notin Pending
      BY <2>2, <1>1, <1>3, <1>9, <1>10 DEF Pending, Within, Addr
    <3> QED BY <2>2, <3>1, <1>2, <1>6, <1>7
  <2> QED BY <2>1, <2>2
<1>11. c => pageStart(rd + 1) \in sm'.pages
  BY <1>2, <1>7 DEF c
<1>12. ASSUME NEW j \in (op.i + 1)..(op.n - 1)
       PROVE  goal'[op.dst + j] = IterView(op.src + j)'
  <2> DEFINE x == op.src + j
  <2>1. j \in op.i..(op.n - 1) /\ x \in Addr /\ x # wr /\ rd < x /\ rd + 1 <= x
    BY <1>1, <1>2, InputAssumption DEF IsRegion, Addr
  <2>2. goal'[op.dst + j] = IterView(x)
    BY <2>1, <1>2, <1>6
  <2>3. View(sm', x) = View(sm, x)
    BY <2>1, <1>7
  <2>4. IterView(x)' = IF ~c /\ pageStart(x) = pageStart(rd + 1)
                       THEN Null ELSE View(sm', x)
    BY <1>9 DEF IterView
  <2>5. IterView(x) = IF ~op.cached /\ pageStart(x) = pageStart(rd)
                      THEN Null ELSE View(sm, x)
    BY DEF IterView
  <2>6. CASE pageStart(rd + 1) = pageStart(rd)
    BY <2>6, <2>2, <2>3, <2>4, <2>5 DEF c
  <2>7. CASE pageStart(rd + 1) # pageStart(rd)
    <3>1. pageStart(x) # pageStart(rd)
      <4>1. rd \in Nat /\ x \in Nat /\ rd + 1 \in Nat /\ rd <= rd + 1
        BY <1>1, <2>1 DEF Addr
      <4> QED BY <4>1, <2>1, <2>7, PageBetween
    <3>2. IterView(x) = View(sm', x)
      BY <3>1, <2>3, <2>5
    <3>3. ASSUME ~c, pageStart(x) = pageStart(rd + 1) PROVE View(sm', x) = Null
      BY <3>3, <2>7 DEF c, View
    <3> QED BY <2>2, <2>4, <3>2, <3>3
  <2> QED BY <2>6, <2>7
<1>13. ASSUME NEW j \in op.n..(op.n + op.rest - 1) PROVE goal'[op.dst + j] = Null
  BY <1>2, <1>6
<1>14. op'.i <= op'.n
  BY <1>1, <1>9
<1>15. LoopInvariant'
  <2>1. pageStart(op'.dst + op'.i) \in sm'.pages
    BY <1>7, <1>9
  <2>2. op'.cached => pageStart(op'.src + op'.i) \in sm'.pages
    BY <1>9, <1>11
  <2>3. IsRegion(op'.dst, op'.n + op'.rest) /\ IsRegion(op'.src, op'.n)
        /\ (op'.dst <= op'.src \/ op'.src + op'.n <= op'.dst)
    BY <1>2, <1>9
  <2>4. /\ \A j \in op'.i..(op'.n - 1) : goal'[op'.dst + j] = IterView(op.src + j)'
        /\ \A j \in op'.n..(op'.n + op'.rest - 1) : goal'[op'.dst + j] = Null
    <3>1. /\ op'.i = op.i + 1 /\ op'.n = op.n /\ op'.dst = op.dst
          /\ op'.src = op.src /\ op'.rest = op.rest
      BY <1>9
    <3> QED BY <3>1, <1>12, <1>13
  <2>5. op'.kind = "copy"
    BY <1>9
  <2> HIDE DEF rd, wr
  <2> QED BY <1>10, <1>14, <2>1, <2>2, <2>3, <2>4, <2>5 DEF LoopInvariant
<1> QED BY <1>7, <1>9, <1>15

\* The same for an iteration of a backward copy loop.
LEMMA CopyBackwardStepCorrect ==
  ASSUME TypeOK, LoopInvariant, CopyBackwardStep
  PROVE  sm' \in ShadowState /\ op' \in Op /\ LoopInvariant'
<1> DEFINE rd == op.src + op.i - 1
           wr == op.dst + op.i - 1
           c  == IF pageStart(rd) = pageStart(rd + 1) THEN op.cached
                 ELSE pageStart(rd) \in sm.pages
           e  == IF c THEN sm.bytes[rd] ELSE Null
           w  == getOrCreateShadow(sm, wr)
<1>1. /\ op \in Op /\ sm \in ShadowState /\ op.kind = "copy_backward" /\ op.i > 0
      /\ op.dst \in Nat /\ op.src \in Nat /\ op.i \in Nat /\ op.n \in Nat
      /\ op.cached \in BOOLEAN /\ op.n + 0 = op.n
  BY DEF TypeOK, CopyBackwardStep, Op, Addr
<1>2. /\ IsRegion(op.dst, op.n + op.rest) /\ IsRegion(op.src, op.n) /\ op.rest = 0
      /\ op.i <= op.n
      /\ \A a \in Addr \ Pending : goal[a] = View(sm, a)
      /\ op.cached => pageStart(op.src + op.i) \in sm.pages
      /\ \A j \in 0..(op.i - 1) : goal[op.dst + j] = IterView(op.src + j)
      /\ op.src < op.dst
  BY <1>1 DEF LoopInvariant
<1>3. /\ rd \in Addr /\ wr \in Addr /\ rd + 1 = op.src + op.i
      /\ op.i - 1 \in 0..(op.i - 1) /\ op.i - 1 \in Nat
      /\ op.src + (op.i - 1) = rd /\ op.dst + (op.i - 1) = wr
  BY <1>1, <1>2, InputAssumption DEF IsRegion, Addr
<1>4. c \in BOOLEAN
  <2>1. (pageStart(rd) \in sm.pages) \in BOOLEAN
    OBVIOUS
  <2> QED BY <1>1, <2>1, Zenon
<1>5. c => pageStart(rd) \in sm.pages
  BY <1>2, <1>3
<1>6. e \in Entry
  BY <1>1, <1>3, GarbageIsEntry DEF ShadowState
<1>7. e = IterView(rd)
  <2>1. IterView(rd) = IF ~op.cached /\ pageStart(rd) = pageStart(rd + 1)
                       THEN Null ELSE View(sm, rd)
    BY <1>3 DEF IterView
  <2> QED BY <2>1, <1>1, <1>5 DEF View
<1>8. w \in ShadowState /\ w.pages = sm.pages \cup {pageStart(wr)}
      /\ \A a \in Addr : View(w, a) = View(sm, a)
  <2> HIDE DEF wr
  <2> QED BY <1>1, <1>3, CreateShadow
<1>9. /\ sm' = SetShadow(w, wr, e)
      /\ op' = [op EXCEPT !.i = op.i - 1, !.cached = c]
      /\ goal' = goal
  BY DEF CopyBackwardStep
<1> HIDE DEF c, e, w
<1>10. /\ sm' \in ShadowState /\ sm'.pages = sm.pages \cup {pageStart(wr)}
       /\ \A a \in Addr : View(sm', a) = IF a = wr THEN e ELSE View(sm, a)
  <2> HIDE DEF wr
  <2> QED BY <1>3, <1>6, <1>8, <1>9, WriteThrough
<1>11. op' \in Op
  BY <1>1, <1>3, <1>4, <1>9 DEF Op
<1>12. /\ op'.kind = "copy_backward" /\ op'.dst = op.dst /\ op'.src = op.src
       /\ op'.n = op.n /\ op'.rest = op.rest /\ op'.i = op.i - 1 /\ op'.cached = c
  BY <1>1, <1>9 DEF Op
<1>13. ASSUME NEW a \in Addr \ Pending' PROVE goal'[a] = View(sm', a)
  <2>1. CASE a = wr
    BY <2>1, <1>2, <1>3, <1>7, <1>9, <1>10
  <2>2. CASE a # wr
    <3>1. a \notin Pending
      BY <2>2, <1>1, <1>3, <1>12, <1>13 DEF Pending, Within, Addr
    <3> QED BY <2>2, <3>1, <1>2, <1>9, <1>10
  <2> QED BY <2>1, <2>2
<1>14. ASSUME NEW j \in 0..(op.i - 2)
       PROVE  goal'[op.dst + j] = IterView(op.src + j)'
  <2> DEFINE x == op.src + j
  <2>1. j \in 0..(op.i - 1) /\ x \in Addr /\ x # wr /\ x < rd
    BY <1>1, <1>2, InputAssumption DEF IsRegion, Addr
  <2>2. goal'[op.dst + j] = IterView(x)
    BY <2>1, <1>2, <1>9
  <2>3. View(sm', x) = View(sm, x)
    BY <2>1, <1>10
  <2>4. IterView(x)' = IF ~c /\ pageStart(x) = pageStart(rd)
                       THEN Null ELSE View(sm', x)
    BY <1>12, <1>3 DEF IterView
  <2>5. IterView(x) = IF ~op.cached /\ pageStart(x) = pageStart(rd + 1)
                      THEN Null ELSE View(sm, x)
    BY <1>3 DEF IterView
  <2>6. CASE pageStart(rd) = pageStart(rd + 1)
    BY <2>6, <2>2, <2>3, <2>4, <2>5 DEF c
  <2>7. CASE pageStart(rd) # pageStart(rd + 1)
    <3>1. pageStart(x) # pageStart(rd + 1)
      <4>1. rd \in Nat /\ x \in Nat /\ rd + 1 \in Nat /\ rd <= rd + 1 /\ x <= rd
        BY <1>1, <1>3, <2>1 DEF Addr
      <4> QED BY <4>1, <2>7, PageBetween
    <3>2. IterView(x) = View(sm', x)
      BY <3>1, <2>3, <2>5
    <3>3. ASSUME ~c, pageStart(x) = pageStart(rd) PROVE View(sm, x) = Null
      BY <3>3, <2>7 DEF c, View
    <3> QED BY <2>2, <2>3, <2>4, <3>2, <3>3
  <2> QED BY <2>6, <2>7
<1>15. LoopInvariant'
  <2>1. op'.i <= op'.n /\ op'.kind = "copy_backward" /\ op'.rest = 0
        /\ op'.src < op'.dst
    BY <1>1, <1>2, <1>12
  <2>2. op'.cached => pageStart(op'.src + op'.i) \in sm'.pages
    BY <1>3, <1>5, <1>10, <1>12
  <2>3. IsRegion(op'.dst, op'.n + op'.rest) /\ IsRegion(op'.src, op'.n)
    BY <1>2, <1>12
  <2>4. \A j \in 0..(op'.i - 1) : goal'[op'.dst + j] = IterView(op.src + j)'
    <3>1. op'.i - 1 = op.i - 2 /\ op'.dst = op.dst
      BY <1>1, <1>12
    <3> QED BY <3>1, <1>14
  <2> HIDE DEF rd, wr
  <2> QED BY <1>13, <2>1, <2>2, <2>3, <2>4 DEF LoopInvariant
<1> QED BY <1>10, <1>11, <1>15

\* The same for an iteration that stores a given expression.
LEMMA WriteStepCorrect ==
  ASSUME TypeOK, LoopInvariant, WriteStep
  PROVE  sm' \in ShadowState /\ op' \in Op /\ LoopInvariant'
<1> DEFINE wr == op.dst + op.i
           e  == op.data[op.i + 1]
           w  == SetShadow(sm, wr, e)
<1>1. /\ op \in Op /\ sm \in ShadowState /\ op.kind = "write" /\ op.i < op.n
      /\ op.dst \in Nat /\ op.src \in Nat /\ op.i \in Nat /\ op.n \in Nat
      /\ op.data \in Seq(Entry) /\ op.i + 1 \in Nat
  BY DEF TypeOK, WriteStep, Op, Addr
<1>2. /\ IsRegion(op.dst, op.n + op.rest) /\ IsRegion(op.src, op.n)
      /\ op.rest = 0 /\ Len(op.data) = op.n
      /\ \A a \in Addr \ Pending : goal[a] = View(sm, a)
      /\ pageStart(wr) \in sm.pages
      /\ \A j \in op.i..(op.n - 1) : goal[op.dst + j] = op.data[j + 1]
  BY <1>1 DEF LoopInvariant
<1>3. wr \in Addr /\ wr + 1 \in Addr /\ op.i + 1 \in 1..Len(op.data)
      /\ op.i \in op.i..(op.n - 1)
  <2>1. IsRegion(op.dst, op.n + 0)
    BY <1>2
  <2>2. op.dst \in Nat /\ op.i \in Nat /\ op.n \in Nat /\ op.i < op.n
    BY <1>1
  <2>3. wr \in Addr /\ wr + 1 \in Addr /\ op.i + 1 \in 1..op.n
        /\ op.i \in op.i..(op.n - 1)
    BY <2>1, <2>2, InputAssumption DEF IsRegion, Addr
  <2> QED BY <2>3, <1>2
<1>4. e \in Entry /\ e = goal[wr]
  BY <1>1, <1>2, <1>3
<1>5. w \in ShadowState /\ w.pages = sm.pages
      /\ \A a \in Addr : View(w, a) = IF a = wr THEN e ELSE View(sm, a)
  <2> HIDE DEF e, wr
  <2> QED BY <1>1, <1>2, <1>3, <1>4, WriteThrough
<1>6. /\ sm' = getOrCreateShadow(w, wr + 1)
      /\ op' = [op EXCEPT !.i = op.i + 1]
      /\ goal' = goal
  BY DEF WriteStep
<1>7. /\ sm' \in ShadowState /\ sm'.pages = sm.pages \cup {pageStart(wr + 1)}
      /\ \A a \in Addr : View(sm', a) = IF a = wr THEN e ELSE View(sm, a)
  <2> HIDE DEF w, e, wr
  <2> QED BY <1>3, <1>5, <1>6, CreateShadow
<1>8. op' \in Op
  BY <1>1, <1>6 DEF Op
<1>9. /\ op'.kind = "write" /\ op'.dst = op.dst /\ op'.src = op.src /\ op'.n = op.n
      /\ op'.rest = op.rest /\ op'.i = op.i + 1 /\ op'.cached = op.cached
      /\ op'.data = op.data
  BY <1>1, <1>6 DEF Op
<1> HIDE DEF e, w
<1>10. ASSUME NEW a \in Addr \ Pending' PROVE goal'[a] = View(sm', a)
  <2>1. CASE a = wr
    BY <2>1, <1>4, <1>6, <1>7
  <2>2. CASE a # wr
    <3>1. op'.rest = 0 /\ op.rest = 0
      BY <1>2, <1>9
    <3>2. a \notin Pending
      BY <2>2, <3>1, <1>1, <1>9, <1>10 DEF Pending, Within, Addr
    <3> QED BY <2>2, <3>2, <1>2, <1>6, <1>7
  <2> QED BY <2>1, <2>2
<1>11. LoopInvariant'
  <2>1. op'.i <= op'.n /\ op'.kind = "write" /\ op'.rest = 0 /\ Len(op'.data) = op'.n
    BY <1>1, <1>2, <1>9
  <2>2. pageStart(op'.dst + op'.i) \in sm'.pages
    <3>1. op'.dst + op'.i = wr + 1
      BY <1>1, <1>9
    <3> QED BY <3>1, <1>7
  <2>3. IsRegion(op'.dst, op'.n + op'.rest) /\ IsRegion(op'.src, op'.n)
    BY <1>2, <1>9
  <2>4. ASSUME NEW j \in op'.i..(op'.n - 1)
        PROVE  goal'[op'.dst + j] = op'.data[j + 1]
    BY <1>1, <1>2, <1>6, <1>9
  <2>5. ~op'.cached
    BY <1>1, <1>9 DEF LoopInvariant
  <2> HIDE DEF wr
  <2> QED BY <1>10, <2>1, <2>2, <2>3, <2>4, <2>5 DEF LoopInvariant
<1> QED BY <1>7, <1>8, <1>11

\* strncpy's second loop starts where the first one ended.
LEMMA ClearRestCorrect ==
  ASSUME TypeOK, LoopInvariant, ClearRest
  PROVE  sm' \in ShadowState /\ op' \in Op /\ LoopInvariant'
<1> DEFINE d == op.dst + op.n
           data == Filled(Null, op.rest)
<1>1. /\ op.kind = "copy" /\ op.i = op.n /\ op.rest \in Nat /\ op.n \in Nat
      /\ op.dst \in Nat /\ sm \in ShadowState /\ op.i - op.n + op.rest = op.rest
  BY DEF TypeOK, ClearRest, Finished, Op, Addr
<1>2. /\ IsRegion(op.dst, op.n + op.rest)
      /\ \A a \in Addr \ Pending : goal[a] = View(sm, a)
      /\ \A j \in op.n..(op.n + op.rest - 1) : goal[op.dst + j] = Null
  BY <1>1 DEF LoopInvariant
<1>3. data \in Seq(Entry) /\ Len(data) = op.rest
  BY <1>1, FilledType, GarbageIsEntry
<1>4. d \in Addr /\ IsRegion(d, op.rest)
  BY <1>1, <1>2, InputAssumption DEF IsRegion, Addr
<1>5. ASSUME NEW a \in Addr
      PROVE  goal[a] = IF Within(a, d, op.rest) THEN data[(a - d) + 1] ELSE View(sm, a)
  <2>1. CASE Within(a, d, op.rest)
    <3>1. (a - d) + 1 \in 1..op.rest /\ a - op.dst \in op.n..(op.n + op.rest - 1)
          /\ op.dst + (a - op.dst) = a
      BY <2>1, <1>1 DEF Within, Addr
    <3>2. data[(a - d) + 1] = Null
      BY <3>1 DEF Filled
    <3>3. goal[op.dst + (a - op.dst)] = Null
      BY <3>1, <1>2
    <3> QED BY <2>1, <3>1, <3>2, <3>3
  <2>2. CASE ~Within(a, d, op.rest)
    <3>1. a \notin Pending
      BY <2>2, <1>1 DEF Pending, Within, Addr
    <3> QED BY <3>1, <2>2, <1>2
  <2> QED BY <2>1, <2>2
<1>6. goal' = goal /\ BeginWrite(d, data)
  BY DEF ClearRest
<1> HIDE DEF d, data
<1> QED BY <1>1, <1>3, <1>4, <1>5, <1>6, BeginWriteCorrect

\* When the loop is over, memory is shadowed as the call should leave it.
LEMMA FinishedIsGoal ==
  ASSUME TypeOK, LoopInvariant, Finished, op.rest = 0
  PROVE  Flat = Visible(sm)
<1>1. CASE op = Idle
  BY <1>1 DEF Flat
<1>2. CASE op # Idle
  <2>1. op.kind # "idle"
    BY <1>2 DEF LoopInvariant
  <2>2. op.dst \in Nat /\ op.n \in Nat /\ op.i \in Nat
    BY DEF TypeOK, Op, Addr
  <2>3. ASSUME NEW a \in Addr PROVE a \notin Pending
    BY <2>1, <2>2 DEF Pending, Finished, Within, Addr
  <2>4. ASSUME NEW a \in Addr PROVE goal[a] = Visible(sm)[a]
    BY <2>1, <2>3 DEF LoopInvariant, Visible
  <2>5. goal \in [Addr -> Entry] /\ Visible(sm) \in [Addr -> Entry]
    BY VisibleType DEF TypeOK
  <2>6. goal = Visible(sm)
    BY <2>4, <2>5
  <2> QED BY <1>2, <2>6 DEF Flat
<1> QED BY <1>1, <1>2

\* With no loop in progress the loop invariant says nothing.
LEMMA IdleLoopInvariant == op = Idle => LoopInvariant
<1> SUFFICES ASSUME op = Idle PROVE LoopInvariant
  OBVIOUS
<1>1. /\ op.kind = "idle" /\ op.i = 0 /\ op.n = 0 /\ op.dst = 0 /\ op.src = 0
      /\ op.rest = 0 /\ op.cached = FALSE
  BY DEF Idle
<1>2. IsRegion(0, 0) /\ 0 + 0 = 0
  BY InputAssumption DEF IsRegion, Addr
<1> QED BY <1>1, <1>2 DEF LoopInvariant

LEMMA IdleType == Idle \in Op /\ NoGoal \in [Addr -> Entry]
<1>1. 0 \in Addr
  BY InputAssumption DEF Addr
<1> QED BY <1>1, GarbageIsEntry DEF Idle, Op, NoGoal

-------------------------------------------------------------------------------
(* The calls.  A call either finds nothing symbolic and leaves the shadow     *)
(* alone, or starts a loop; both ways the shadow it is going to leave (Flat') *)
(* is the one the contract asks for.                                         *)

\* Copying concrete bytes over concrete bytes changes no expression.
LEMMA CopyConcrete ==
  ASSUME NEW t \in ShadowState, NEW d \in Addr, NEW s \in Addr, NEW n \in Nat,
         IsRegion(d, n), IsRegion(s, n), isConcrete(t, s, n), isConcrete(t, d, n)
  PROVE  Copied(Visible(t), d, s, n) = Visible(t)
<1>1. ASSUME NEW i \in 0..(n - 1)
      PROVE  View(t, s + i) = Null /\ View(t, d + i) = Null
  BY IsConcreteCorrect
<1>2. ASSUME NEW a \in Addr
      PROVE  Copied(Visible(t), d, s, n)[a] = Visible(t)[a]
  <2>1. CASE Within(a, d, n)
    <3>1. a - d \in 0..(n - 1) /\ d + (a - d) = a /\ s + (a - d) \in Addr
      BY <2>1, InputAssumption DEF Within, Addr, IsRegion
    <3>2. Visible(t)[s + (a - d)] = Null /\ Visible(t)[a] = Null
      BY <3>1, <1>1 DEF Visible
    <3> QED BY <2>1, <3>2 DEF Copied
  <2>2. CASE ~Within(a, d, n)
    BY <2>2 DEF Copied
  <2> QED BY <2>1, <2>2
<1>3. Copied(Visible(t), d, s, n) \in [Addr -> Entry] /\ Visible(t) \in [Addr -> Entry]
  BY VisibleType, CopiedType
<1> QED BY <1>2, <1>3

\* Making concrete bytes concrete changes no expression.
LEMMA ClearConcrete ==
  ASSUME NEW t \in ShadowState, NEW d \in Addr, NEW n \in Nat,
         IsRegion(d, n), isConcrete(t, d, n)
  PROVE  Written(Visible(t), d, Filled(Null, n)) = Visible(t)
<1>1. ASSUME NEW i \in 0..(n - 1) PROVE View(t, d + i) = Null
  BY IsConcreteCorrect
<1>2. Filled(Null, n) \in Seq(Entry) /\ Len(Filled(Null, n)) = n
  BY FilledType, GarbageIsEntry
<1>3. ASSUME NEW a \in Addr
      PROVE  Written(Visible(t), d, Filled(Null, n))[a] = Visible(t)[a]
  <2>1. CASE Within(a, d, n)
    <3>1. a - d \in 0..(n - 1) /\ d + (a - d) = a /\ (a - d) + 1 \in 1..n
      BY <2>1 DEF Within, Addr
    <3>2. Visible(t)[a] = Null
      BY <3>1, <1>1 DEF Visible
    <3>3. Filled(Null, n)[(a - d) + 1] = Null
      BY <3>1 DEF Filled
    <3> QED BY <2>1, <3>2, <3>3, <1>2 DEF Written
  <2>2. CASE ~Within(a, d, n)
    BY <2>2, <1>2 DEF Written
  <2> QED BY <2>1, <2>2
<1>4. Written(Visible(t), d, Filled(Null, n)) \in [Addr -> Entry]
      /\ Visible(t) \in [Addr -> Entry]
  BY <1>2, VisibleType, WrittenType
<1> QED BY <1>3, <1>4

\* Storing nothing changes nothing.
LEMMA WriteNothing ==
  ASSUME NEW S, NEW f \in [Addr -> S], NEW d \in Addr, NEW e
  PROVE  Written(f, d, Filled(e, 0)) = f
<1>1. Len(Filled(e, 0)) = 0
  BY DEF Filled
<1>2. ASSUME NEW a \in Addr PROVE ~Within(a, d, 0)
  BY DEF Within, Addr
<1>3. Written(f, d, Filled(e, 0)) = [a \in Addr |-> f[a]]
  BY <1>1, <1>2 DEF Written
<1> QED BY <1>3

\* The step leaves well-typed shadow memory and a loop that is on its way to a
\* shadow map f.
HeadsFor(f) ==
  /\ sm' \in ShadowState /\ op' \in Op /\ goal' \in [Addr -> Entry]
  /\ LoopInvariant'
  /\ Flat' = f

LEMMA NoChangeEffect ==
  ASSUME TypeOK, op = Idle, NoShadowChange
  PROVE  HeadsFor(Visible(sm))
<1>1. op' = Idle /\ sm' = sm /\ goal' = goal
  BY DEF NoShadowChange
<1>2. LoopInvariant'
  <2>1. (op = Idle => LoopInvariant)'
    BY IdleLoopInvariant, PTL
  <2> QED BY <1>1, <2>1 DEF Idle
<1>3. Flat' = Visible(sm)
  BY <1>1 DEF Flat, Visible, Idle
<1> QED BY <1>1, <1>2, <1>3 DEF HeadsFor, TypeOK

\* All the copying calls.
LEMMA CopyEffect ==
  ASSUME TypeOK, op = Idle, NEW d \in Addr, NEW s \in Addr, NEW n \in Nat,
         NEW rest \in Nat, IsRegion(d, n + rest), IsRegion(s, n),
         \/ /\ NoShadowChange
            /\ isConcrete(sm, s, n) /\ isConcrete(sm, d, n + rest)
         \/ /\ goal' = Written(Copied(Visible(sm), d, s, n), d + n, Filled(Null, rest))
            /\ d <= s \/ s + n <= d
            /\ BeginCopy(d, s, n, rest)
         \/ /\ goal' = Copied(Visible(sm), d, s, n)
            /\ rest = 0 /\ d > s
            /\ BeginCopyBackward(d, s, n)
  PROVE  HeadsFor(Written(Copied(Visible(sm), d, s, n), d + n, Filled(Null, rest)))
<1>1. sm \in ShadowState
  BY DEF TypeOK
<1>2. d + n \in Addr /\ IsRegion(d, n) /\ IsRegion(d + n, rest)
  BY InputAssumption DEF IsRegion, Addr
<1>3. CASE NoShadowChange /\ isConcrete(sm, s, n) /\ isConcrete(sm, d, n + rest)
  <2>1. ASSUME NEW i \in 0..(n + rest - 1) PROVE View(sm, d + i) = Null
    BY <1>1, <1>3, IsConcreteCorrect
  <2>2. isConcrete(sm, d, n)
    <3>1. \A i \in 0..(n - 1) : i \in 0..(n + rest - 1)
      OBVIOUS
    <3>2. \A i \in 0..(n - 1) : View(sm, d + i) = Null
      BY <2>1, <3>1
    <3> QED BY <3>2, <1>1, <1>2, IsConcreteCorrect
  <2>3. isConcrete(sm, d + n, rest)
    <3>1. ASSUME NEW i \in 0..(rest - 1) PROVE View(sm, (d + n) + i) = Null
      <4>1. n + i \in 0..(n + rest - 1) /\ d + (n + i) = (d + n) + i
        BY DEF Addr
      <4> QED BY <4>1, <2>1
    <3> QED BY <3>1, <1>1, <1>2, IsConcreteCorrect
  <2>4. Copied(Visible(sm), d, s, n) = Visible(sm)
    BY <1>1, <1>2, <1>3, <2>2, CopyConcrete
  <2>5. Written(Visible(sm), d + n, Filled(Null, rest)) = Visible(sm)
    BY <1>1, <1>2, <2>3, ClearConcrete
  <2> QED BY <1>3, <2>4, <2>5, NoChangeEffect
<1>4. CASE /\ goal' = Written(Copied(Visible(sm), d, s, n), d + n, Filled(Null, rest))
           /\ d <= s \/ s + n <= d
           /\ BeginCopy(d, s, n, rest)
  <2>1. op' # Idle
    BY <1>4 DEF BeginCopy, Idle
  <2>2. Flat' = goal'
    BY <2>1 DEF Flat, Idle
  <2> QED BY <1>4, <2>2, BeginCopyCorrect DEF HeadsFor
<1>5. CASE /\ goal' = Copied(Visible(sm), d, s, n)
           /\ rest = 0 /\ d > s
           /\ BeginCopyBackward(d, s, n)
  <2>1. op' # Idle
    BY <1>5 DEF BeginCopyBackward, Idle
  <2>2. Flat' = goal'
    BY <2>1 DEF Flat, Idle
  <2>3. Copied(Visible(sm), d, s, n) \in [Addr -> Entry]
    BY <1>1, VisibleType, CopiedType
  <2>4. Written(Copied(Visible(sm), d, s, n), d + n, Filled(Null, rest))
        = Copied(Visible(sm), d, s, n)
    BY <1>2, <1>5, <2>3, WriteNothing
  <2> QED BY <1>2, <1>5, <2>2, <2>4, BeginCopyBackwardCorrect DEF HeadsFor
<1> QED BY <1>3, <1>4, <1>5

\* All the calls that store given expressions.
LEMMA WriteEffect ==
  ASSUME TypeOK, op = Idle, NEW d \in Addr, NEW data \in Seq(Entry),
         IsRegion(d, Len(data)),
         \/ /\ NoShadowChange
            /\ data = Filled(Null, Len(data)) /\ isConcrete(sm, d, Len(data))
         \/ WriteShadow(d, data)
  PROVE  HeadsFor(Written(Visible(sm), d, data))
<1>1. sm \in ShadowState /\ Len(data) \in Nat
  BY DEF TypeOK
<1>2. CASE /\ NoShadowChange
           /\ data = Filled(Null, Len(data)) /\ isConcrete(sm, d, Len(data))
  <2>1. Written(Visible(sm), d, Filled(Null, Len(data))) = Visible(sm)
    BY <1>1, <1>2, ClearConcrete
  <2>2. Written(Visible(sm), d, data) = Visible(sm)
    BY <1>2, <2>1
  <2> QED BY <1>2, <2>2, NoChangeEffect
<1>3. CASE WriteShadow(d, data)
  <2>1. goal' = Written(Visible(sm), d, data) /\ BeginWrite(d, data)
    BY <1>3 DEF WriteShadow
  <2>2. op' # Idle
    BY <2>1 DEF BeginWrite, BeginWriteOn, Idle
  <2>3. Flat' = goal'
    BY <2>2 DEF Flat, Idle
  <2>4. goal' \in [Addr -> Entry]
    BY <1>1, <2>1, VisibleType, WrittenType
  <2>5. \A a \in Addr : goal'[a] = IF Within(a, d, Len(data))
                                   THEN data[(a - d) + 1] ELSE View(sm, a)
    BY <2>1 DEF Written, Visible
  <2> QED BY <1>1, <2>1, <2>3, <2>4, <2>5, BeginWriteCorrect DEF HeadsFor
<1> QED BY <1>2, <1>3

\* Bytes and expressions that move together stay consistent.
LEMMA CopiedAgrees ==
  ASSUME NEW f, NEW m, NEW d \in Addr, NEW s \in Addr, NEW n \in Nat, IsRegion(s, n),
         \A a \in Addr : Agrees(f[a], m[a])
  PROVE  \A a \in Addr : Agrees(Copied(f, d, s, n)[a], Copied(m, d, s, n)[a])
<1>1. ASSUME NEW a \in Addr, Within(a, d, n) PROVE s + (a - d) \in Addr
  BY <1>1, InputAssumption DEF Addr, Within, IsRegion
<1> QED BY <1>1 DEF Copied

LEMMA WrittenAgrees ==
  ASSUME NEW f, NEW m, NEW d \in Addr, NEW data, NEW val,
         Len(data) \in Nat, Len(val) = Len(data),
         \A a \in Addr : Agrees(f[a], m[a]),
         \A i \in 1..Len(data) : Agrees(data[i], val[i])
  PROVE  \A a \in Addr : Agrees(Written(f, d, data)[a], Written(m, d, val)[a])
<1>1. ASSUME NEW a \in Addr, Within(a, d, Len(data))
      PROVE  (a - d) + 1 \in 1..Len(data)
  BY <1>1 DEF Addr, Within
<1> QED BY <1>1 DEF Written

LEMMA InputByteFacts ==
  ASSUME NEW k \in Offset
  PROVE  /\ InputByte(k) \in Entry /\ WideByte(k) \in Entry /\ k \in Nat
         /\ Input[k] \in Byte
         /\ Agrees(InputByte(k), Input[k]) /\ Agrees(WideByte(k), Input[k])
  BY InputAssumption DEF Entry, Expr, ByteExpr, InputByte, WideByte, Agrees, Eval

LEMMA NullAgrees == \A v : Agrees(Null, v)
  BY DEF Agrees

\* memcpy, memmove and strncpy do what the contract says of a copy.
LEMMA TransferStep ==
  ASSUME IndInv, Transfer
  PROVE  \E d, s \in Addr, n, pad \in 0..MaxAddr :
           /\ call = NoCall /\ call' = CopyCall(d, s, n, pad)
           /\ IsRegion(d, n + pad) /\ IsRegion(s, n)
           /\ mem' = Written(Copied(mem, d, s, n), d + n, Filled(0, pad))
           /\ HeadsFor(Written(Copied(Flat, d, s, n), d + n, Filled(Null, pad)))
           /\ UNCHANGED <<reg, pushed>>
<1>1. PICK d \in Addr, s \in Addr, n \in 0..MaxLen :
        sym_memcpy(d, s, n) \/ sym_memmove(d, s, n) \/ strncpy(d, s, n)
  BY DEF Transfer
<1>2. IsRegion(d, n) /\ IsRegion(s, n)
  BY <1>1 DEF sym_memcpy, sym_memmove, strncpy
<1>3. n \in Nat /\ n \in 0..MaxAddr /\ n + 0 = n /\ d + n \in Addr /\ 0 \in 0..MaxAddr
  BY <1>2, ShadowAssumption, InputAssumption DEF IsRegion, Addr
<1>4. TypeOK
  BY DEF IndInv
<1>5. call = NoCall => op = Idle /\ Flat = Visible(sm)
  BY DEF IndInv, Flat
<1>6. CASE sym_memcpy(d, s, n) \/ sym_memmove(d, s, n)
  <2>1. /\ call = NoCall /\ call' = CopyCall(d, s, n, 0)
        /\ mem' = Copied(mem, d, s, n) /\ UNCHANGED <<reg, pushed>>
    BY <1>6 DEF sym_memcpy, sym_memmove, Enter
  <2>2. \/ NoShadowChange /\ isConcrete(sm, s, n) /\ isConcrete(sm, d, n)
        \/ /\ goal' = Copied(Visible(sm), d, s, n)
           /\ d <= s \/ s + n <= d
           /\ BeginCopy(d, s, n, 0)
        \/ /\ goal' = Copied(Visible(sm), d, s, n)
           /\ d > s
           /\ BeginCopyBackward(d, s, n)
    BY <1>3, <1>6 DEF sym_memcpy, sym_memmove, Disjoint, Addr
  <2>3. Copied(Visible(sm), d, s, n) \in [Addr -> Entry]
        /\ Copied(mem, d, s, n) \in [Addr -> Byte]
    BY <1>2, <1>3, <1>4, VisibleType, CopiedType DEF TypeOK
  <2>4. /\ Written(Copied(Visible(sm), d, s, n), d + n, Filled(Null, 0))
           = Copied(Visible(sm), d, s, n)
        /\ Written(Copied(mem, d, s, n), d + n, Filled(0, 0)) = Copied(mem, d, s, n)
    BY <1>3, <2>3, WriteNothing
  <2>5. HeadsFor(Written(Copied(Visible(sm), d, s, n), d + n, Filled(Null, 0)))
    BY <1>2, <1>3, <1>4, <1>5, <2>1, <2>2, <2>4, CopyEffect
  <2> QED BY <1>2, <1>3, <1>5, <2>1, <2>4, <2>5
<1>7. CASE strncpy(d, s, n)
  <2>1. PICK copied \in 0..n :
          /\ call = NoCall /\ call' = CopyCall(d, s, copied, n - copied)
          /\ mem' = Written(Copied(mem, d, s, copied), d + copied,
                            Filled(0, n - copied))
          /\ IF isConcrete(sm, s, copied) /\ isConcrete(sm, d, n)
             THEN NoShadowChange
             ELSE /\ goal' = Written(Copied(Visible(sm), d, s, copied),
                                     d + copied, Filled(Null, n - copied))
                  /\ BeginCopy(d, s, copied, n - copied)
          /\ UNCHANGED <<reg, pushed>>
    BY <1>7 DEF strncpy, Enter
  <2>2. /\ copied \in Nat /\ n - copied \in Nat /\ copied + (n - copied) = n
        /\ IsRegion(s, copied) /\ IsRegion(d, copied + (n - copied))
        /\ copied \in 0..MaxAddr /\ n - copied \in 0..MaxAddr
    BY <1>2, <1>3, InputAssumption DEF IsRegion, Addr
  <2>3. d <= s \/ s + copied <= d
    BY <1>3, <1>7 DEF strncpy, Disjoint, Addr
  <2>4. HeadsFor(Written(Copied(Visible(sm), d, s, copied), d + copied,
                         Filled(Null, n - copied)))
    BY <1>4, <1>5, <2>1, <2>2, <2>3, CopyEffect
  <2> QED BY <1>5, <2>1, <2>2, <2>4
<1> QED BY <1>1, <1>6, <1>7

\* A call that gives the region from a on the bytes val and the expressions
\* data, and is right to do so.
Assigns(a, data, val) ==
  /\ call = NoCall /\ call' = AssignCall(a, data)
  /\ IsRegion(a, Len(data)) /\ Len(val) = Len(data)
  /\ \A i \in 1..Len(data) : Agrees(data[i], val[i])
  /\ mem' = Written(mem, a, val)
  /\ HeadsFor(Written(Flat, a, data))
  /\ UNCHANGED <<reg, pushed>>

LEMMA MemsetStep ==
  ASSUME IndInv, NEW a \in Addr, NEW n \in Nat, NEW v \in Byte, NEW e \in Entry,
         Agrees(e, v), sym_memset(a, v, e, n)
  PROVE  Assigns(a, Filled(e, n), Filled(v, n))
<1>1. TypeOK /\ call = NoCall /\ op = Idle /\ Flat = Visible(sm)
  BY DEF IndInv, Flat, sym_memset, Enter
<1>2. Filled(e, n) \in Seq(Entry) /\ Len(Filled(e, n)) = n /\ Len(Filled(v, n)) = n
  BY FilledType
<1>3. IsRegion(a, n)
  BY DEF sym_memset
<1>4. HeadsFor(Written(Visible(sm), a, Filled(e, n)))
  BY <1>1, <1>2, <1>3, WriteEffect DEF sym_memset
<1>5. \A i \in 1..n : Agrees(Filled(e, n)[i], Filled(v, n)[i])
  BY DEF Filled
<1> QED BY <1>1, <1>2, <1>3, <1>4, <1>5 DEF Assigns, sym_memset, Enter

\* memset, bzero and read do what the contract says of an assignment.
LEMMA AssignStep ==
  ASSUME IndInv, Assign
  PROVE  \E a \in Addr, data \in Seq(Entry), val \in Seq(Byte) : Assigns(a, data, val)
<1>1. PICK a \in Addr, n \in 0..MaxLen :
        \/ MemsetIntrinsic(a, n)
        \/ memset(a, n)
        \/ bzero(a, n)
        \/ \E k \in Offset : sym_make_symbolic(a, n, k)
        \/ \E val \in [1..n -> Byte] : read_other(a, val)
  BY DEF Assign
<1>2. n \in Nat /\ 0 \in Byte
  BY ShadowAssumption, InputAssumption DEF Byte
<1>3. TypeOK
  BY DEF IndInv
<1>4. call = NoCall => op = Idle /\ Flat = Visible(sm)
  BY DEF IndInv, Flat
<1>5. ASSUME NEW v \in Byte, NEW e \in Entry, Agrees(e, v), sym_memset(a, v, e, n)
      PROVE  \E data \in Seq(Entry), val \in Seq(Byte) : Assigns(a, data, val)
  <2>1. Filled(e, n) \in Seq(Entry) /\ Filled(v, n) \in Seq(Byte)
    BY <1>2, FilledType
  <2> QED BY <1>2, <1>5, <2>1, MemsetStep
<1>6. CASE MemsetIntrinsic(a, n)
  <2>1. ASSUME NEW v \in Byte, sym_memset(a, v, Null, n)
        PROVE  \E data \in Seq(Entry), val \in Seq(Byte) : Assigns(a, data, val)
    BY <2>1, <1>5, GarbageIsEntry, NullAgrees
  <2>2. ASSUME NEW k \in Offset, sym_memset(a, Input[k], InputByte(k), n)
        PROVE  \E data \in Seq(Entry), val \in Seq(Byte) : Assigns(a, data, val)
    BY <2>2, <1>5, InputByteFacts
  <2> QED BY <1>6, <2>1, <2>2 DEF MemsetIntrinsic
<1>7. CASE memset(a, n)
  <2>1. PICK k \in Offset : sym_memset(a, Input[k], WideByte(k), n)
    BY <1>7 DEF memset
  <2> QED BY <2>1, <1>5, InputByteFacts
<1>8. CASE bzero(a, n)
  <2>1. /\ Filled(Null, n) \in Seq(Entry) /\ Filled(0, n) \in Seq(Byte)
        /\ Len(Filled(Null, n)) = n /\ Len(Filled(0, n)) = n
    BY <1>2, FilledType, GarbageIsEntry
  <2>2. IsRegion(a, n) /\ call = NoCall /\ WriteShadow(a, Filled(Null, n))
    BY <1>8 DEF bzero, Enter
  <2>3. HeadsFor(Written(Visible(sm), a, Filled(Null, n)))
    BY <1>3, <1>4, <2>1, <2>2, WriteEffect
  <2>4. \A i \in 1..n : Agrees(Filled(Null, n)[i], Filled(0, n)[i])
    BY NullAgrees DEF Filled
  <2>5. Assigns(a, Filled(Null, n), Filled(0, n))
    BY <1>4, <1>8, <2>1, <2>2, <2>3, <2>4 DEF Assigns, bzero, Enter
  <2> QED BY <2>1, <2>5
<1>9. ASSUME NEW k \in Offset, sym_make_symbolic(a, n, k)
      PROVE  \E data \in Seq(Entry), val \in Seq(Byte) : Assigns(a, data, val)
  <2> DEFINE data == [i \in 1..n |-> InputByte(k + i - 1)]
             val  == [i \in 1..n |-> Input[k + i - 1]]
  <2>1. \A i \in 1..n : k + i - 1 \in Offset
    BY <1>9 DEF sym_make_symbolic
  <2>2. /\ data \in Seq(Entry) /\ Len(data) = n
        /\ val \in Seq(Byte) /\ Len(val) = n
    BY <1>2, <2>1, InputByteFacts
  <2>3. \A i \in 1..n : Agrees(data[i], val[i])
    BY <2>1, InputByteFacts
  <2>4. /\ call = NoCall /\ call' = AssignCall(a, data) /\ IsRegion(a, n)
        /\ mem' = Written(mem, a, val) /\ WriteShadow(a, data)
        /\ UNCHANGED <<reg, pushed>>
    BY <1>9 DEF sym_make_symbolic, Enter
  <2> HIDE DEF data, val
  <2>5. HeadsFor(Written(Visible(sm), a, data))
    BY <1>3, <1>4, <2>2, <2>4, WriteEffect
  <2>6. Assigns(a, data, val)
    BY <1>4, <2>2, <2>3, <2>4, <2>5 DEF Assigns
  <2> QED BY <2>2, <2>6
<1>10. ASSUME NEW val \in [1..n -> Byte], read_other(a, val)
       PROVE  \E data \in Seq(Entry), w \in Seq(Byte) : Assigns(a, data, w)
  <2> DEFINE data == Filled(Null, n)
  <2>1. val \in Seq(Byte) /\ Len(val) = n
    BY <1>2
  <2>2. data \in Seq(Entry) /\ Len(data) = n
    BY <1>2, FilledType, GarbageIsEntry
  <2>3. /\ call = NoCall /\ call' = AssignCall(a, data) /\ IsRegion(a, n)
        /\ mem' = Written(mem, a, val) /\ UNCHANGED <<reg, pushed>>
        /\ \/ NoShadowChange /\ isConcrete(sm, a, n)
           \/ WriteShadow(a, data)
    BY <1>10, <2>1 DEF read_other, Enter
  <2>4. \A i \in 1..n : Agrees(data[i], val[i])
    BY NullAgrees DEF Filled
  <2>5. data = Filled(Null, Len(data))
    BY <2>2
  <2> HIDE DEF data
  <2>6. HeadsFor(Written(Visible(sm), a, data))
    BY <1>3, <1>4, <2>2, <2>3, <2>5, WriteEffect
  <2>7. Assigns(a, data, val)
    BY <1>4, <2>1, <2>2, <2>3, <2>4, <2>6 DEF Assigns
  <2> QED BY <2>1, <2>2, <2>7
<1> QED BY <1>1, <1>6, <1>7, <1>8, <1>9, <1>10

LEMMA InMemoryOrderType ==
  ASSUME NEW S, NEW f \in Seq(S), NEW le \in BOOLEAN
  PROVE  InMemoryOrder(f, le) \in Seq(S) /\ Len(InMemoryOrder(f, le)) = Len(f)
<1>1. Len(f) \in Nat
  OBVIOUS
<1>2. \A j \in 1..Len(f) : (IF le THEN f[j] ELSE f[Len(f) + 1 - j]) \in S
  <2> TAKE j \in 1..Len(f)
  <2>1. Len(f) + 1 - j \in 1..Len(f)
    BY <1>1
  <2> QED BY <2>1
<1> QED BY <1>1, <1>2 DEF InMemoryOrder

\* The expressions that a store puts into memory.
Stored == IF reg.expr = <<>> THEN Filled(Null, Len(reg.val))
          ELSE InMemoryOrder(reg.expr, reg.le)

\* A store does what the contract says.
LEMMA StoreStep ==
  ASSUME IndInv, NEW a \in Addr, sym_write_memory(a)
  PROVE  LET val == InMemoryOrder(reg.val, reg.le) IN
         /\ call = NoCall /\ call' = StoreCall(a)
         /\ IsRegion(a, Len(reg.val))
         /\ Stored \in Seq(Entry) /\ Len(Stored) = Len(reg.val)
         /\ val \in Seq(Byte) /\ Len(val) = Len(reg.val)
         /\ \A i \in 1..Len(reg.val) : Agrees(Stored[i], val[i])
         /\ mem' = Written(mem, a, val)
         /\ HeadsFor(Written(Flat, a, Stored))
         /\ UNCHANGED <<reg, pushed>>
<1> DEFINE val == InMemoryOrder(reg.val, reg.le)
           n == Len(reg.val)
<1>1. /\ call = NoCall /\ call' = StoreCall(a) /\ IsRegion(a, n)
      /\ mem' = Written(mem, a, val) /\ UNCHANGED <<reg, pushed>>
  BY DEF sym_write_memory, Enter
<1>2. /\ reg.val \in Seq(Byte) /\ reg.expr \in Seq(Expr) /\ reg.le \in BOOLEAN
      /\ n \in Nat /\ TypeOK /\ op = Idle /\ Flat = Visible(sm)
  BY <1>1 DEF IndInv, TypeOK, Flat
<1>3. val \in Seq(Byte) /\ Len(val) = n
  BY <1>2, InMemoryOrderType
<1>4. CASE reg.expr = <<>>
  <2>1. Stored = Filled(Null, n) /\ Stored \in Seq(Entry) /\ Len(Stored) = n
    BY <1>2, <1>4, FilledType, GarbageIsEntry DEF Stored
  <2>2. \A i \in 1..n : Agrees(Stored[i], val[i])
    BY <2>1, NullAgrees DEF Filled
  <2>3. \/ NoShadowChange /\ isConcrete(sm, a, n)
        \/ WriteShadow(a, Stored)
    BY <1>4, <2>1 DEF sym_write_memory
  <2>4. Stored = Filled(Null, Len(Stored))
    BY <2>1
  <2>5. HeadsFor(Written(Visible(sm), a, Stored))
    BY <1>1, <1>2, <2>1, <2>3, <2>4, WriteEffect
  <2> QED BY <1>1, <1>2, <1>3, <2>1, <2>2, <2>5
<1>5. CASE reg.expr # <<>>
  <2>1. Len(reg.expr) = n /\ \A i \in 1..n : Eval(reg.expr[i]) = reg.val[i]
    BY <1>5 DEF IndInv, RegisterConsistency
  <2>2. Stored = InMemoryOrder(reg.expr, reg.le)
    BY <1>5 DEF Stored
  <2>3. reg.expr \in Seq(Entry)
    BY <1>2 DEF Entry
  <2>4. Stored \in Seq(Entry) /\ Len(Stored) = n
    BY <1>2, <2>1, <2>2, <2>3, InMemoryOrderType
  <2>5. ASSUME NEW i \in 1..n PROVE Agrees(Stored[i], val[i])
    <3>1. n + 1 - i \in 1..n
      BY <1>2
    <3>2. Stored[i] = IF reg.le THEN reg.expr[i] ELSE reg.expr[n + 1 - i]
      BY <2>1, <2>2 DEF InMemoryOrder
    <3>3. val[i] = IF reg.le THEN reg.val[i] ELSE reg.val[n + 1 - i]
      BY DEF InMemoryOrder
    <3> QED BY <2>1, <3>1, <3>2, <3>3 DEF Agrees
  <2>6. WriteShadow(a, Stored)
    BY <1>5, <2>2 DEF sym_write_memory
  <2>7. HeadsFor(Written(Visible(sm), a, Stored))
    BY <1>1, <1>2, <2>4, <2>6, WriteEffect
  <2> QED BY <1>1, <1>2, <1>3, <2>4, <2>5, <2>7
<1> QED BY <1>4, <1>5

\* Reading a byte as an expression, concrete or not, gives the byte's value.
LEMMA NonNullFacts ==
  ASSUME IndInv, op = Idle, NEW x \in Addr
  PROVE  /\ NonNull(sm, mem, x) = IF Flat[x] = Null THEN ConstByte(mem[x]) ELSE Flat[x]
         /\ NonNull(sm, mem, x) \in Expr
         /\ Eval(NonNull(sm, mem, x)) = mem[x]
<1>1. Flat[x] = View(sm, x) /\ View(sm, x) \in Entry /\ mem[x] \in Byte
  BY ViewType DEF IndInv, TypeOK, Flat, Visible
<1>2. Agrees(View(sm, x), mem[x])
  BY <1>1 DEF IndInv
<1>3. ConstByte(mem[x]) \in Expr /\ Eval(ConstByte(mem[x])) = mem[x]
  BY <1>1 DEF Expr, ByteExpr, ConstByte, Eval
<1> QED BY <1>1, <1>2, <1>3 DEF NonNull, Agrees, Entry

\* isConcrete is the contract's notion of a concrete region.
LEMMA ConcreteFlat ==
  ASSUME IndInv, op = Idle, NEW a \in Addr, NEW n \in Nat, IsRegion(a, n)
  PROVE  isConcrete(sm, a, n) <=> \A i \in 0..(n - 1) : Flat[a + i] = Null
<1>1. \A i \in 0..(n - 1) : a + i \in Addr
  BY InputAssumption DEF IsRegion, Addr
<1>2. \A i \in 0..(n - 1) : Flat[a + i] = View(sm, a + i)
  BY <1>1 DEF Flat, Visible
<1> QED BY <1>2, IsConcreteCorrect DEF IndInv, TypeOK

\* A load does what the contract says, and yields an expression that agrees
\* with the loaded value.
LEMMA LoadStep ==
  ASSUME IndInv, NEW a \in Addr, NEW n \in Nat, NEW le \in BOOLEAN,
         sym_read_memory(a, n, le)
  PROVE  /\ call = NoCall /\ call' = LoadCall(a, n, le)
         /\ n > 0 /\ IsRegion(a, n)
         /\ reg' = [val  |-> [i \in 1..n |-> mem[ByteAddr(a, n, i, le)]],
                    expr |-> IF \A i \in 0..(n - 1) : Flat[a + i] = Null THEN <<>>
                             ELSE [i \in 1..n |->
                                     LET x == ByteAddr(a, n, i, le) IN
                                     IF Flat[x] = Null THEN ConstByte(mem[x])
                                     ELSE Flat[x]],
                    le   |-> le]
         /\ reg' \in [val : Seq(Byte), expr : Seq(Expr), le : BOOLEAN]
         /\ RegisterConsistency'
         /\ NoShadowChange /\ UNCHANGED <<mem, pushed>>
<1> DEFINE v == [i \in 1..n |-> mem[ByteAddr(a, n, i, le)]]
           e == [i \in 1..n |-> NonNull(sm, mem, ByteAddr(a, n, i, le))]
<1>1. /\ call = NoCall /\ call' = LoadCall(a, n, le) /\ n > 0 /\ IsRegion(a, n)
      /\ reg' = [val |-> v, expr |-> IF isConcrete(sm, a, n) THEN <<>> ELSE e, le |-> le]
      /\ NoShadowChange /\ UNCHANGED <<mem, pushed>>
  BY DEF sym_read_memory, Enter
<1>2. op = Idle /\ TypeOK
  BY <1>1 DEF IndInv
<1>3. ASSUME NEW i \in 1..n PROVE ByteAddr(a, n, i, le) \in Addr
  BY <1>1, InputAssumption DEF ByteAddr, IsRegion, Addr
<1>4. v \in Seq(Byte) /\ Len(v) = n
  BY <1>2, <1>3 DEF TypeOK
<1>5. e \in Seq(Expr) /\ Len(e) = n /\ \A i \in 1..n : Eval(e[i]) = v[i]
  BY <1>2, <1>3, NonNullFacts
<1>6. e = [i \in 1..n |-> LET x == ByteAddr(a, n, i, le) IN
                           IF Flat[x] = Null THEN ConstByte(mem[x]) ELSE Flat[x]]
  BY <1>2, <1>3, NonNullFacts
<1>7. isConcrete(sm, a, n) <=> \A i \in 0..(n - 1) : Flat[a + i] = Null
  BY <1>1, <1>2, ConcreteFlat
<1> HIDE DEF v, e
<1>8. reg' \in [val : Seq(Byte), expr : Seq(Expr), le : BOOLEAN]
  <2>1. <<>> \in Seq(Expr)
    OBVIOUS
  <2> QED BY <1>1, <1>4, <1>5, <2>1
<1>9. RegisterConsistency'
  <2>1. CASE isConcrete(sm, a, n)
    BY <1>1, <2>1 DEF RegisterConsistency
  <2>2. CASE ~isConcrete(sm, a, n)
    <3>1. reg'.expr = e /\ reg'.val = v
      BY <1>1, <2>2
    <3> QED BY <3>1, <1>4, <1>5 DEF RegisterConsistency
  <2> QED BY <2>1, <2>2
<1>10. reg' = [val |-> v,
               expr |-> IF \A i \in 0..(n - 1) : Flat[a + i] = Null THEN <<>> ELSE e,
               le |-> le]
  BY <1>1, <1>7
<1> QED BY <1>1, <1>6, <1>8, <1>9, <1>10 DEF v

\* memcmp pushes what the contract says, and it holds.
LEMMA MemcmpStep ==
  ASSUME IndInv, NEW a \in Addr, NEW b \in Addr, NEW n \in Nat, memcmp(a, b, n)
  PROVE  /\ call = NoCall /\ call' = CompareCall(a, b, n)
         /\ IsRegion(a, n) /\ IsRegion(b, n)
         /\ pushed' =
              IF /\ \A i \in 0..(n - 1) : Flat[a + i] = Null
                 /\ \A i \in 0..(n - 1) : Flat[b + i] = Null
              THEN <<>>
              ELSE <<[rel   |-> "eq",
                      l     |-> [i \in 1..n |-> LET x == a + (i - 1) IN
                                  IF Flat[x] = Null THEN ConstByte(mem[x]) ELSE Flat[x]],
                      r     |-> [i \in 1..n |-> LET x == b + (i - 1) IN
                                  IF Flat[x] = Null THEN ConstByte(mem[x]) ELSE Flat[x]],
                      taken |-> \A i \in 0..(n - 1) : mem[a + i] = mem[b + i]]>>
         /\ PathConstraintsHold'
         /\ NoShadowChange /\ UNCHANGED <<mem, reg>>
<1> DEFINE l == [i \in 1..n |-> NonNull(sm, mem, a + (i - 1))]
           r == [i \in 1..n |-> NonNull(sm, mem, b + (i - 1))]
           same == \A i \in 0..(n - 1) : mem[a + i] = mem[b + i]
           c == [rel |-> "eq", l |-> l, r |-> r, taken |-> same]
<1>1. /\ call = NoCall /\ call' = CompareCall(a, b, n) /\ IsRegion(a, n) /\ IsRegion(b, n)
      /\ pushed' = IF isConcrete(sm, a, n) /\ isConcrete(sm, b, n) THEN <<>> ELSE <<c>>
      /\ NoShadowChange /\ UNCHANGED <<mem, reg>>
  BY DEF memcmp, Enter
<1>2. op = Idle
  BY <1>1 DEF IndInv
<1>3. ASSUME NEW i \in 1..n PROVE a + (i - 1) \in Addr /\ b + (i - 1) \in Addr
  BY <1>1, InputAssumption DEF IsRegion, Addr
<1>4. /\ l = [i \in 1..n |-> LET x == a + (i - 1) IN
                IF Flat[x] = Null THEN ConstByte(mem[x]) ELSE Flat[x]]
      /\ r = [i \in 1..n |-> LET x == b + (i - 1) IN
                IF Flat[x] = Null THEN ConstByte(mem[x]) ELSE Flat[x]]
  BY <1>2, <1>3, NonNullFacts
<1>5. /\ isConcrete(sm, a, n) <=> \A i \in 0..(n - 1) : Flat[a + i] = Null
      /\ isConcrete(sm, b, n) <=> \A i \in 0..(n - 1) : Flat[b + i] = Null
  BY <1>1, <1>2, ConcreteFlat
<1>6. /\ DOMAIN l = 1..n
      /\ \A i \in 1..n : Eval(l[i]) = mem[a + (i - 1)] /\ Eval(r[i]) = mem[b + (i - 1)]
  BY <1>2, <1>3, NonNullFacts
<1>7. same <=> \A i \in 1..n : mem[a + (i - 1)] = mem[b + (i - 1)]
  <2>1. ASSUME same, NEW i \in 1..n PROVE mem[a + (i - 1)] = mem[b + (i - 1)]
    <3>1. i - 1 \in 0..(n - 1)
      OBVIOUS
    <3> QED BY <2>1, <3>1
  <2>2. ASSUME \A i \in 1..n : mem[a + (i - 1)] = mem[b + (i - 1)], NEW i \in 0..(n - 1)
        PROVE  mem[a + i] = mem[b + i]
    <3>1. i + 1 \in 1..n /\ (i + 1) - 1 = i
      OBVIOUS
    <3> QED BY <2>2, <3>1
  <2> QED BY <2>1, <2>2
<1>8. same \in BOOLEAN
  OBVIOUS
<1> HIDE DEF l, r, same
<1>9. Holds(c) = c.taken
  <2>1. Holds(c) <=> same
    BY <1>6, <1>7 DEF Holds
  <2>2. Holds(c) \in BOOLEAN /\ c.taken = same
    BY DEF Holds
  <2> QED BY <1>8, <2>1, <2>2
<1>10. PathConstraintsHold'
  <2>1. CASE pushed' = <<>>
    BY <2>1 DEF PathConstraintsHold
  <2>2. CASE pushed' = <<c>>
    <3> HIDE DEF c
    <3>1. DOMAIN pushed' = {1} /\ pushed'[1] = c
      BY <2>2
    <3> QED BY <3>1, <1>9 DEF PathConstraintsHold, Holds, Eval
  <2> QED BY <1>1, <2>1, <2>2
<1> QED BY <1>1, <1>4, <1>5, <1>10 DEF same

\* strchr pushes what the contract says, and it holds.
LEMMA StrchrStep ==
  ASSUME IndInv, NEW a \in Addr, NEW n \in Nat, NEW ch \in Byte, NEW e \in Entry,
         Agrees(e, ch), strchr(a, n, ch, e)
  PROVE  /\ call = NoCall /\ call' = SearchCall(a, n, ch, e)
         /\ IsRegion(a, n) /\ \A i \in 0..(n - 1) : mem[a + i] # ch
         /\ pushed' =
              IF (\A i \in 0..(n - 1) : Flat[a + i] = Null) /\ e = Null THEN <<>>
              ELSE [i \in 1..n |->
                      [rel |-> "ne",
                       l |-> <<LET x == a + (i - 1) IN
                               IF Flat[x] = Null THEN ConstByte(mem[x]) ELSE Flat[x]>>,
                       r |-> <<IF e = Null THEN ConstByte(ch) ELSE e>>,
                       taken |-> TRUE]]
         /\ PathConstraintsHold'
         /\ NoShadowChange /\ UNCHANGED <<mem, reg>>
<1> DEFINE ce == IF e = Null THEN ConstByte(ch) ELSE e
           p(i) == [rel |-> "ne", l |-> <<NonNull(sm, mem, a + (i - 1))>>,
                    r |-> <<ce>>, taken |-> TRUE]
           ps == [i \in 1..n |-> p(i)]
<1>1. /\ call = NoCall /\ call' = SearchCall(a, n, ch, e) /\ IsRegion(a, n)
      /\ \A i \in 0..(n - 1) : mem[a + i] # ch
      /\ pushed' = IF isConcrete(sm, a, n) /\ e = Null THEN <<>> ELSE ps
      /\ NoShadowChange /\ UNCHANGED <<mem, reg>>
  BY DEF strchr, Enter
<1>2. op = Idle
  BY <1>1 DEF IndInv
<1>3. ASSUME NEW i \in 1..n PROVE a + (i - 1) \in Addr /\ i - 1 \in 0..(n - 1)
  BY <1>1, InputAssumption DEF IsRegion, Addr
<1>4. ps = [i \in 1..n |->
              [rel |-> "ne",
               l |-> <<LET x == a + (i - 1) IN
                       IF Flat[x] = Null THEN ConstByte(mem[x]) ELSE Flat[x]>>,
               r |-> <<ce>>, taken |-> TRUE]]
  BY <1>2, <1>3, NonNullFacts
<1>5. isConcrete(sm, a, n) <=> \A i \in 0..(n - 1) : Flat[a + i] = Null
  BY <1>1, <1>2, ConcreteFlat
<1>6. Eval(ce) = ch
  BY DEF Agrees, Eval, ConstByte
<1>7. ASSUME NEW i \in 1..n PROVE Holds(p(i)) = p(i).taken
  <2> DEFINE nn == NonNull(sm, mem, a + (i - 1))
  <2>1. Eval(nn) # ch
    BY <1>1, <1>2, <1>3, NonNullFacts
  <2> HIDE DEF nn, ce
  <2>2. Eval(<<nn>>[1]) # Eval(<<ce>>[1]) /\ 1 \in DOMAIN <<nn>>
    BY <2>1, <1>6
  <2>3. p(i).rel # "eq" /\ p(i).l = <<nn>> /\ p(i).r = <<ce>> /\ p(i).taken = TRUE
    BY DEF nn
  <2>4. Holds(p(i)) <=> TRUE
    BY <2>2, <2>3 DEF Holds
  <2>5. Holds(p(i)) \in BOOLEAN
    BY DEF Holds
  <2> QED BY <2>3, <2>4, <2>5
<1>8. PathConstraintsHold'
  <2>1. CASE pushed' = <<>>
    BY <2>1 DEF PathConstraintsHold
  <2>2. CASE pushed' = ps
    <3>1. DOMAIN pushed' = 1..n /\ \A i \in 1..n : pushed'[i] = p(i)
      BY <2>2
    <3> HIDE DEF p
    <3> QED BY <3>1, <1>7 DEF PathConstraintsHold, Holds, Eval
  <2> QED BY <1>1, <2>1, <2>2
<1> QED BY <1>1, <1>4, <1>5, <1>8

-------------------------------------------------------------------------------
(* The invariant is inductive *)

\* A call is not NoCall.
LEMMA CallsAreCalls ==
  /\ \A d, s, n, pad : CopyCall(d, s, n, pad) # NoCall
  /\ \A a, data : AssignCall(a, data) # NoCall
  /\ \A a, n, le : LoadCall(a, n, le) # NoCall
  /\ \A a : StoreCall(a) # NoCall
  /\ \A a, b, n : CompareCall(a, b, n) # NoCall
  /\ \A a, n, c, e : SearchCall(a, n, c, e) # NoCall
<1>1. NoCall.f = "none"
  BY DEF NoCall
<1>2. \A d, s, n, pad : CopyCall(d, s, n, pad).f = "copy"
  BY DEF CopyCall
<1>3. \A a, data : AssignCall(a, data).f = "assign"
  BY DEF AssignCall
<1>4. \A a, n, le : LoadCall(a, n, le).f = "load"
  BY DEF LoadCall
<1>5. \A a : StoreCall(a).f = "store"
  BY DEF StoreCall
<1>6. \A a, b, n : CompareCall(a, b, n).f = "compare"
  BY DEF CompareCall
<1>7. \A a, n, c, e : SearchCall(a, n, c, e).f = "search"
  BY DEF SearchCall
<1> QED BY <1>1, <1>2, <1>3, <1>4, <1>5, <1>6, <1>7

\* What is left to show once a step is known to head for the map f.
LEMMA Reassemble ==
  ASSUME NEW f, HeadsFor(f), mem' \in [Addr -> Byte],
         reg' \in [val : Seq(Byte), expr : Seq(Expr), le : BOOLEAN],
         RegisterConsistency', call' # NoCall \/ op' = Idle,
         \A a \in Addr : Agrees(f[a], mem'[a])
  PROVE  IndInv'
<1>1. TypeOK' /\ LoopInvariant' /\ Flat' = f
  BY DEF HeadsFor, TypeOK
<1>2. (call = NoCall => op = Idle)'
  OBVIOUS
<1>3. (\A a \in Addr : Agrees(Flat[a], mem[a]))'
  BY <1>1
<1> QED BY <1>1, <1>2, <1>3 DEF IndInv

\* A copying call preserves the invariant.
LEMMA TransferInv ==
  ASSUME IndInv, PathConstraintsHold, Transfer
  PROVE  IndInv' /\ PathConstraintsHold'
<1>1. PICK d \in Addr, s \in Addr, n \in 0..MaxAddr, pad \in 0..MaxAddr :
           /\ call = NoCall /\ call' = CopyCall(d, s, n, pad)
           /\ IsRegion(d, n + pad) /\ IsRegion(s, n)
           /\ mem' = Written(Copied(mem, d, s, n), d + n, Filled(0, pad))
           /\ HeadsFor(Written(Copied(Flat, d, s, n), d + n, Filled(Null, pad)))
           /\ UNCHANGED <<reg, pushed>>
  BY TransferStep
<1> DEFINE m == Copied(mem, d, s, n)
           f == Copied(Flat, d, s, n)
<1>2. n \in Nat /\ pad \in Nat /\ d + n \in Addr /\ 0 \in Byte
  BY <1>1, InputAssumption DEF IsRegion, Addr, Byte
<1>3. m \in [Addr -> Byte] /\ \A a \in Addr : Agrees(f[a], m[a])
  BY <1>1, <1>2, CopiedType, CopiedAgrees DEF IndInv, TypeOK
<1>4. /\ Filled(0, pad) \in Seq(Byte) /\ Len(Filled(0, pad)) = pad
      /\ Len(Filled(Null, pad)) = pad
  BY <1>2, FilledType
<1>5. \A i \in 1..pad : Agrees(Filled(Null, pad)[i], Filled(0, pad)[i])
  BY NullAgrees DEF Filled
<1>6. PathConstraintsHold'
  BY <1>1 DEF PathConstraintsHold
<1>7. /\ reg' \in [val : Seq(Byte), expr : Seq(Expr), le : BOOLEAN]
      /\ RegisterConsistency' /\ call' # NoCall
  BY <1>1, CallsAreCalls DEF IndInv, TypeOK, RegisterConsistency
<1> HIDE DEF m, f
<1>8. Written(m, d + n, Filled(0, pad)) \in [Addr -> Byte]
  BY <1>2, <1>3, <1>4, WrittenType
<1>9. \A a \in Addr : Agrees(Written(f, d + n, Filled(Null, pad))[a],
                             Written(m, d + n, Filled(0, pad))[a])
  BY <1>2, <1>3, <1>4, <1>5, WrittenAgrees
<1> QED BY <1>1, <1>6, <1>7, <1>8, <1>9, Reassemble DEF m, f

\* So does a call that brings new bytes.
LEMMA AssignInv ==
  ASSUME IndInv, PathConstraintsHold, Assign
  PROVE  IndInv' /\ PathConstraintsHold'
<1>1. PICK a \in Addr, data \in Seq(Entry), val \in Seq(Byte) : Assigns(a, data, val)
  BY AssignStep
<1>2. /\ call' # NoCall /\ UNCHANGED <<reg, pushed>>
      /\ mem' = Written(mem, a, val) /\ HeadsFor(Written(Flat, a, data))
      /\ Len(val) = Len(data) /\ Len(data) \in Nat
      /\ \A i \in 1..Len(data) : Agrees(data[i], val[i])
  BY <1>1, CallsAreCalls DEF Assigns
<1>3. mem' \in [Addr -> Byte]
  BY <1>2, WrittenType DEF IndInv, TypeOK
<1>4. \A x \in Addr : Agrees(Written(Flat, a, data)[x], mem'[x])
  BY <1>2, WrittenAgrees DEF IndInv
<1>5. PathConstraintsHold'
  BY <1>2 DEF PathConstraintsHold
<1>6. /\ reg' \in [val : Seq(Byte), expr : Seq(Expr), le : BOOLEAN]
      /\ RegisterConsistency'
  BY <1>2 DEF IndInv, TypeOK, RegisterConsistency
<1> QED BY <1>2, <1>3, <1>4, <1>5, <1>6, Reassemble

\* A call that does not touch memory at all.
LEMMA QuietStep ==
  ASSUME IndInv, op = Idle, NoShadowChange, mem' = mem
  PROVE  /\ HeadsFor(Flat) /\ mem' \in [Addr -> Byte] /\ op' = Idle
         /\ \A a \in Addr : Agrees(Flat[a], mem'[a])
<1>1. TypeOK /\ Flat = Visible(sm) /\ \A a \in Addr : Agrees(Flat[a], mem[a])
  BY DEF IndInv, Flat
<1>2. HeadsFor(Visible(sm))
  BY <1>1, NoChangeEffect
<1> QED BY <1>1, <1>2 DEF TypeOK, NoShadowChange, Idle

\* So do loads and stores.
LEMMA AccessInv ==
  ASSUME IndInv, PathConstraintsHold, Access
  PROVE  IndInv' /\ PathConstraintsHold'
<1>1. CASE \E a \in Addr, n \in 1..MaxValue, le \in BOOLEAN : sym_read_memory(a, n, le)
  <2>1. PICK a \in Addr, n \in 1..MaxValue, le \in BOOLEAN : sym_read_memory(a, n, le)
    BY <1>1
  <2>2. n \in Nat
    BY ShadowAssumption
  <2>3. /\ call = NoCall
        /\ reg' \in [val : Seq(Byte), expr : Seq(Expr), le : BOOLEAN]
        /\ RegisterConsistency'
        /\ NoShadowChange /\ mem' = mem /\ pushed' = pushed
    BY <2>1, <2>2, LoadStep
  <2>4. op = Idle
    BY <2>3 DEF IndInv
  <2>5. PathConstraintsHold'
    BY <2>3 DEF PathConstraintsHold
  <2> QED BY <2>3, <2>4, <2>5, QuietStep, Reassemble
<1>2. CASE \E a \in Addr : sym_write_memory(a)
  <2>1. PICK a \in Addr : sym_write_memory(a)
    BY <1>2
  <2> DEFINE val == InMemoryOrder(reg.val, reg.le)
  <2>2. /\ call' # NoCall /\ UNCHANGED <<reg, pushed>>
        /\ Stored \in Seq(Entry) /\ Len(Stored) = Len(val) /\ val \in Seq(Byte)
        /\ \A i \in 1..Len(Stored) : Agrees(Stored[i], val[i])
        /\ mem' = Written(mem, a, val) /\ HeadsFor(Written(Flat, a, Stored))
    BY <2>1, StoreStep, CallsAreCalls
  <2> HIDE DEF val
  <2>3. mem' \in [Addr -> Byte]
    BY <2>2, WrittenType DEF IndInv, TypeOK
  <2>4. \A x \in Addr : Agrees(Written(Flat, a, Stored)[x], mem'[x])
    <3>1. Len(Stored) \in Nat /\ \A x \in Addr : Agrees(Flat[x], mem[x])
      BY <2>2 DEF IndInv
    <3> QED BY <2>2, <3>1, WrittenAgrees
  <2>5. PathConstraintsHold'
    BY <2>2 DEF PathConstraintsHold
  <2>6. /\ reg' \in [val : Seq(Byte), expr : Seq(Expr), le : BOOLEAN]
        /\ RegisterConsistency'
    BY <2>2 DEF IndInv, TypeOK, RegisterConsistency
  <2> QED BY <2>2, <2>3, <2>4, <2>5, <2>6, Reassemble
<1> QED BY <1>1, <1>2 DEF Access

\* The sought character of strchr agrees with its expression.
LEMMA CompareCases ==
  ASSUME Compare
  PROVE  \E a \in Addr, n \in Nat :
           \/ \E b \in Addr : memcmp(a, b, n)
           \/ \E ch \in Byte, e \in Entry : Agrees(e, ch) /\ strchr(a, n, ch, e)
<1>1. PICK a \in Addr, n \in 0..MaxLen :
        \/ \E b \in Addr : memcmp(a, b, n)
        \/ \E c \in Byte : strchr(a, n, c, Null)
        \/ \E k \in Offset : strchr(a, n, Input[k], InputByte(k))
  BY DEF Compare
<1>2. n \in Nat
  BY ShadowAssumption
<1>3. CASE \E c \in Byte : strchr(a, n, c, Null)
  BY <1>2, <1>3, NullAgrees, GarbageIsEntry
<1>4. CASE \E k \in Offset : strchr(a, n, Input[k], InputByte(k))
  BY <1>2, <1>4, InputByteFacts
<1> QED BY <1>1, <1>2, <1>3, <1>4

\* And so do the calls that only compare; what they push holds.
LEMMA CompareInv ==
  ASSUME IndInv, Compare
  PROVE  IndInv' /\ PathConstraintsHold'
<1>1. /\ call = NoCall /\ NoShadowChange /\ UNCHANGED <<mem, reg>>
      /\ PathConstraintsHold'
  BY CompareCases, MemcmpStep, StrchrStep
<1>2. op = Idle
  BY <1>1 DEF IndInv
<1>3. /\ reg' \in [val : Seq(Byte), expr : Seq(Expr), le : BOOLEAN]
      /\ RegisterConsistency'
  BY <1>1 DEF IndInv, TypeOK, RegisterConsistency
<1> QED BY <1>1, <1>2, <1>3, QuietStep, Reassemble

\* A step inside a loop changes nothing that the contract speaks of: the shadow
\* it is going to leave stays the same.
LEMMA LoopStep ==
  ASSUME IndInv, CopyStep \/ CopyBackwardStep \/ WriteStep \/ ClearRest
  PROVE  /\ HeadsFor(Flat) /\ UNCHANGED <<mem, call, reg, pushed>>
         /\ call # NoCall
<1>1. /\ op.kind \in {"copy", "copy_backward", "write"}
      /\ op'.kind \in {"copy", "copy_backward", "write"}
      /\ UNCHANGED <<mem, call, goal, reg, pushed>>
  <2>0. op \in Op
    BY DEF IndInv, TypeOK
  <2>1. CASE CopyStep
    BY <2>0, <2>1 DEF CopyStep, Op
  <2>2. CASE CopyBackwardStep
    BY <2>0, <2>2 DEF CopyBackwardStep, Op
  <2>3. CASE WriteStep
    BY <2>0, <2>3 DEF WriteStep, Op
  <2>4. CASE ClearRest
    BY <2>0, <2>4 DEF ClearRest, BeginWrite, BeginWriteOn
  <2> QED BY <2>1, <2>2, <2>3, <2>4
<1>2. op # Idle /\ op' # Idle
  BY <1>1 DEF Idle
<1>3. sm' \in ShadowState /\ op' \in Op /\ LoopInvariant'
  BY CopyStepCorrect, CopyBackwardStepCorrect, WriteStepCorrect, ClearRestCorrect
     DEF IndInv
<1>4. Flat = goal /\ Flat' = goal'
  BY <1>2 DEF Flat, Idle
<1>5. goal' \in [Addr -> Entry] /\ call # NoCall
  BY <1>1, <1>2 DEF IndInv, TypeOK
<1> QED BY <1>1, <1>3, <1>4, <1>5 DEF HeadsFor

\* When a call returns, the shadow is what the call was heading for.
LEMMA ReturnStep ==
  ASSUME IndInv, Return
  PROVE  HeadsFor(Flat)
<1>1. op' = Idle /\ goal' = NoGoal /\ sm' = sm /\ Finished /\ op.rest = 0
  BY DEF Return
<1>2. Flat = Visible(sm)
  BY <1>1, FinishedIsGoal DEF IndInv
<1>3. LoopInvariant'
  <2>1. (op = Idle => LoopInvariant)'
    BY IdleLoopInvariant, PTL
  <2> QED BY <1>1, <2>1 DEF Idle
<1>4. Flat' = Visible(sm)
  BY <1>1 DEF Flat, Visible, Idle
<1>5. sm' \in ShadowState /\ op' \in Op /\ goal' \in [Addr -> Entry]
  BY <1>1, IdleType DEF IndInv, TypeOK
<1> QED BY <1>2, <1>3, <1>4, <1>5 DEF HeadsFor

LEMMA LoopInv ==
  ASSUME IndInv, PathConstraintsHold, Loop
  PROVE  IndInv' /\ PathConstraintsHold'
<1>1. HeadsFor(Flat) /\ UNCHANGED <<mem, reg>> /\ (call' # NoCall \/ op' = Idle)
  BY LoopStep, ReturnStep DEF Loop, Return
<1>2. pushed' = pushed \/ pushed' = <<>>
  BY LoopStep DEF Loop, Return
<1>3. PathConstraintsHold'
  BY <1>2 DEF PathConstraintsHold
<1>4. /\ reg' \in [val : Seq(Byte), expr : Seq(Expr), le : BOOLEAN]
      /\ RegisterConsistency' /\ mem' \in [Addr -> Byte]
      /\ \A a \in Addr : Agrees(Flat[a], mem'[a])
  BY <1>1 DEF IndInv, TypeOK, RegisterConsistency
<1> QED BY <1>1, <1>3, <1>4, Reassemble

LEMMA StutterInv ==
  ASSUME IndInv, PathConstraintsHold, UNCHANGED vars
  PROVE  IndInv' /\ PathConstraintsHold' /\ Flat' = Flat
<1>1. /\ mem' = mem /\ sm' = sm /\ call' = call /\ op' = op /\ goal' = goal
      /\ reg' = reg /\ pushed' = pushed
  BY DEF vars
<1>2. TypeOK' /\ RegisterConsistency' /\ PathConstraintsHold'
  BY <1>1 DEF IndInv, TypeOK, RegisterConsistency, PathConstraintsHold
<1>3. Flat' = Flat
  BY <1>1 DEF Flat, Visible, Idle
<1>4. LoopInvariant'
  BY <1>1 DEF IndInv, LoopInvariant, Pending, IterView, Idle
<1> QED BY <1>1, <1>2, <1>3, <1>4 DEF IndInv

LEMMA InitInv ==
  ASSUME Init
  PROVE  IndInv /\ PathConstraintsHold /\ Flat = NoGoal
<1>1. op = Idle /\ LoopInvariant
  BY IdleLoopInvariant DEF Init
<1>2. Flat = NoGoal
  <2>1. \A a \in Addr : View(sm, a) = Null
    BY DEF Init, View
  <2> QED BY <1>1, <2>1 DEF Flat, Visible, NoGoal
<1>3. TypeOK
  <2>1. /\ mem \in [Addr -> Byte]
        /\ sm \in ShadowState
    BY InputAssumption, GarbageIsEntry DEF Init, Byte, ShadowState
  <2>2. op \in Op /\ goal \in [Addr -> Entry]
    BY IdleType DEF Init
  <2>3. reg \in [val : Seq(Byte), expr : Seq(Expr), le : BOOLEAN]
    BY InputAssumption DEF Init, Byte
  <2> QED BY <2>1, <2>2, <2>3 DEF TypeOK
<1>4. RegisterConsistency /\ PathConstraintsHold
  BY DEF Init, RegisterConsistency, PathConstraintsHold
<1>5. \A a \in Addr : Agrees(Flat[a], mem[a])
  BY <1>2, NullAgrees DEF NoGoal
<1> QED BY <1>1, <1>2, <1>3, <1>4, <1>5 DEF IndInv

LEMMA NextInv ==
  ASSUME IndInv, PathConstraintsHold, [Next]_vars
  PROVE  IndInv' /\ PathConstraintsHold'
  BY TransferInv, AssignInv, AccessInv, CompareInv, LoopInv, StutterInv DEF Next

\* The inductive invariant holds of every execution: whatever calls the program
\* makes, the page-wise iterator loops of the runtime keep the loop invariant,
\* and both the shadow and the last loaded value agree with concrete memory.
THEOREM Invariance == Spec => [](IndInv /\ PathConstraintsHold)
<1>1. Init => IndInv /\ PathConstraintsHold
  BY InitInv
<1>2. IndInv /\ PathConstraintsHold /\ [Next]_vars => IndInv' /\ PathConstraintsHold'
  BY NextInv
<1> QED BY <1>1, <1>2, PTL DEF Spec

\* Every variable of the runtime keeps its type.
THEOREM TypeCorrect == Spec => []TypeOK
<1>1. IndInv => TypeOK
  BY DEF IndInv
<1> QED BY <1>1, Invariance, PTL

\* Concolic consistency, for every memory and page size: whenever the program
\* runs, a symbolic byte evaluates, under the present input, to the byte that
\* is in memory.
THEOREM Consistency == Spec => []ConcolicConsistency
<1>1. IndInv => ConcolicConsistency
  BY DEF IndInv, ConcolicConsistency, Flat, Visible
<1> QED BY <1>1, Invariance, PTL

\* Path constraints, for every region and input: the direction that memcmp,
\* bcmp and strchr record is the one the pushed expression has.
THEOREM PushedConstraintsHold == Spec => []PathConstraintsHold
  BY Invariance, PTL

-------------------------------------------------------------------------------
(* Shadow memory implements FlatShadow *)

\* The definitions that the contract shares with the implementation.
LEMMA SharedDefinitions ==
  /\ FlatShadowMemory!Addr = Addr /\ FlatShadowMemory!Byte = Byte
  /\ FlatShadowMemory!Null = Null /\ FlatShadowMemory!NoCall = NoCall
  /\ \A v : FlatShadowMemory!ConstByte(v) = ConstByte(v)
  /\ \A a, n : FlatShadowMemory!IsRegion(a, n) <=> IsRegion(a, n)
  /\ \A x, a, n : FlatShadowMemory!Within(x, a, n) <=> Within(x, a, n)
  /\ \A e, v : FlatShadowMemory!Agrees(e, v) <=> Agrees(e, v)
  /\ \A e, n : FlatShadowMemory!Filled(e, n) = Filled(e, n)
  /\ \A a, n, i, le : FlatShadowMemory!ByteAddr(a, n, i, le) = ByteAddr(a, n, i, le)
  /\ \A f, le : FlatShadowMemory!InMemoryOrder(f, le) = InMemoryOrder(f, le)
  /\ \A f, d, s, n : FlatShadowMemory!Copied(f, d, s, n) = Copied(f, d, s, n)
  /\ \A f, d, data : FlatShadowMemory!Written(f, d, data) = Written(f, d, data)
<1>1. /\ FlatShadowMemory!Addr = Addr /\ FlatShadowMemory!Byte = Byte
      /\ FlatShadowMemory!Null = Null /\ FlatShadowMemory!NoCall = NoCall
      /\ \A v : FlatShadowMemory!ConstByte(v) = ConstByte(v)
      /\ \A x, a, n : FlatShadowMemory!Within(x, a, n) <=> Within(x, a, n)
      /\ \A e, n : FlatShadowMemory!Filled(e, n) = Filled(e, n)
      /\ \A a, n, i, le : FlatShadowMemory!ByteAddr(a, n, i, le) = ByteAddr(a, n, i, le)
      /\ \A f, le : FlatShadowMemory!InMemoryOrder(f, le) = InMemoryOrder(f, le)
  BY DEF FlatShadowMemory!Addr, Addr, FlatShadowMemory!Byte, Byte,
         FlatShadowMemory!Null, Null, FlatShadowMemory!NoCall, NoCall,
         FlatShadowMemory!ConstByte, ConstByte, FlatShadowMemory!Within, Within,
         FlatShadowMemory!Filled, Filled, FlatShadowMemory!ByteAddr, ByteAddr,
         FlatShadowMemory!InMemoryOrder, InMemoryOrder
<1>2. \A a, n : FlatShadowMemory!IsRegion(a, n) <=> IsRegion(a, n)
  BY <1>1 DEF FlatShadowMemory!IsRegion, IsRegion
<1>3. \A e, v : FlatShadowMemory!Agrees(e, v) <=> Agrees(e, v)
  BY <1>1 DEF FlatShadowMemory!Agrees, Agrees, FlatShadowMemory!Eval, Eval
<1>4. \A f, d, s, n : FlatShadowMemory!Copied(f, d, s, n) = Copied(f, d, s, n)
  BY <1>1 DEF FlatShadowMemory!Copied, Copied
<1>5. \A f, d, data : FlatShadowMemory!Written(f, d, data) = Written(f, d, data)
  BY <1>1 DEF FlatShadowMemory!Written, Written
<1> QED BY <1>1, <1>2, <1>3, <1>4, <1>5

\* The contract's reading of the map.
LEMMA SharedReading ==
  /\ \A a, n : FlatShadowMemory!Concrete(a, n)
              <=> \A i \in 0..(n - 1) : Flat[a + i] = Null
  /\ \A x : FlatShadowMemory!Expression(x)
            = IF Flat[x] = Null THEN ConstByte(mem[x]) ELSE Flat[x]
  BY SharedDefinitions DEF FlatShadowMemory!Concrete, FlatShadowMemory!Expression

LEMMA RefineTransfer ==
  ASSUME IndInv, Transfer
  PROVE  FlatShadowMemory!FlatEnter
<1>1. PICK d \in Addr, s \in Addr, n \in 0..MaxAddr, pad \in 0..MaxAddr :
           /\ call = NoCall /\ call' = CopyCall(d, s, n, pad)
           /\ IsRegion(d, n + pad) /\ IsRegion(s, n)
           /\ mem' = Written(Copied(mem, d, s, n), d + n, Filled(0, pad))
           /\ HeadsFor(Written(Copied(Flat, d, s, n), d + n, Filled(Null, pad)))
           /\ UNCHANGED <<reg, pushed>>
  BY TransferStep
<1>2. FlatShadowMemory!FlatCopy(d, s, n, pad)
  BY <1>1, SharedDefinitions DEF FlatShadowMemory!FlatCopy, HeadsFor
<1>3. /\ call'.f = "copy" /\ call'.d = d /\ call'.s = s
      /\ call'.n = n /\ call'.pad = pad
  BY <1>1 DEF CopyCall
<1>4. FlatShadowMemory!Perform(call')
  BY <1>2, <1>3 DEF FlatShadowMemory!Perform
<1> QED BY <1>1, <1>4, SharedDefinitions DEF FlatShadowMemory!FlatEnter

LEMMA RefineAssign ==
  ASSUME IndInv, Assign
  PROVE  FlatShadowMemory!FlatEnter
<1>1. PICK a \in Addr, data \in Seq(Entry), val \in Seq(Byte) : Assigns(a, data, val)
  BY AssignStep
<1>2. mem \in [Addr -> Byte] /\ Len(data) \in Nat
  BY DEF IndInv, TypeOK
<1>3. mem' \in [Addr -> Byte]
  BY <1>1, <1>2, WrittenType DEF Assigns
<1>4. ASSUME NEW x \in Addr
      PROVE  IF Within(x, a, Len(data)) THEN Agrees(data[(x - a) + 1], mem'[x])
             ELSE mem'[x] = mem[x]
  <2>1. mem'[x] = IF Within(x, a, Len(data)) THEN val[(x - a) + 1] ELSE mem[x]
    BY <1>1 DEF Assigns, Written
  <2>2. Within(x, a, Len(data)) => (x - a) + 1 \in 1..Len(data)
    BY <1>2 DEF Within, Addr
  <2> QED BY <1>1, <2>1, <2>2 DEF Assigns
<1>5. FlatShadowMemory!FlatAssign(a, data)
  BY <1>1, <1>3, <1>4, SharedDefinitions DEF FlatShadowMemory!FlatAssign, Assigns, HeadsFor
<1>6. call'.f = "assign" /\ call'.d = a /\ call'.data = data
  BY <1>1 DEF Assigns, AssignCall
<1>7. FlatShadowMemory!Perform(call')
  BY <1>5, <1>6 DEF FlatShadowMemory!Perform
<1> QED BY <1>1, <1>7, SharedDefinitions DEF FlatShadowMemory!FlatEnter, Assigns

\* A call that leaves memory alone leaves the contract's map alone.
LEMMA QuietFlat ==
  ASSUME IndInv, call = NoCall, NoShadowChange
  PROVE  Flat' = Flat
  BY DEF IndInv, NoShadowChange, Flat, Visible, Idle

LEMMA RefineLoad ==
  ASSUME IndInv, NEW a \in Addr, NEW n \in Nat, NEW le \in BOOLEAN,
         sym_read_memory(a, n, le)
  PROVE  FlatShadowMemory!FlatEnter
<1>1. /\ call = NoCall /\ call' = LoadCall(a, n, le)
      /\ n > 0 /\ IsRegion(a, n)
      /\ reg' = [val  |-> [i \in 1..n |-> mem[ByteAddr(a, n, i, le)]],
                 expr |-> IF \A i \in 0..(n - 1) : Flat[a + i] = Null THEN <<>>
                          ELSE [i \in 1..n |->
                                  LET x == ByteAddr(a, n, i, le) IN
                                  IF Flat[x] = Null THEN ConstByte(mem[x])
                                  ELSE Flat[x]],
                 le   |-> le]
      /\ NoShadowChange /\ UNCHANGED <<mem, pushed>>
  BY LoadStep
<1>2. Flat' = Flat
  BY <1>1, QuietFlat
<1>3. FlatShadowMemory!FlatLoad(a, n, le)
  BY <1>1, <1>2, SharedDefinitions, SharedReading DEF FlatShadowMemory!FlatLoad
<1>4. call'.f = "load" /\ call'.d = a /\ call'.n = n /\ call'.le = le
  BY <1>1 DEF LoadCall
<1>5. FlatShadowMemory!Perform(call')
  BY <1>3, <1>4 DEF FlatShadowMemory!Perform
<1> QED BY <1>1, <1>5, SharedDefinitions DEF FlatShadowMemory!FlatEnter

LEMMA RefineStore ==
  ASSUME IndInv, NEW a \in Addr, sym_write_memory(a)
  PROVE  FlatShadowMemory!FlatEnter
<1>1. /\ call = NoCall /\ call' = StoreCall(a) /\ IsRegion(a, Len(reg.val))
      /\ mem' = Written(mem, a, InMemoryOrder(reg.val, reg.le))
      /\ HeadsFor(Written(Flat, a, Stored)) /\ UNCHANGED <<reg, pushed>>
  BY StoreStep
<1>2. FlatShadowMemory!FlatStore(a)
  BY <1>1, SharedDefinitions DEF FlatShadowMemory!FlatStore, HeadsFor, Stored
<1>3. call'.f = "store" /\ call'.d = a
  BY <1>1 DEF StoreCall
<1>4. FlatShadowMemory!Perform(call')
  BY <1>2, <1>3 DEF FlatShadowMemory!Perform
<1> QED BY <1>1, <1>4, SharedDefinitions DEF FlatShadowMemory!FlatEnter

LEMMA RefineMemcmp ==
  ASSUME IndInv, NEW a \in Addr, NEW b \in Addr, NEW n \in Nat, memcmp(a, b, n)
  PROVE  FlatShadowMemory!FlatEnter
<1>1. /\ call = NoCall /\ call' = CompareCall(a, b, n)
      /\ IsRegion(a, n) /\ IsRegion(b, n)
      /\ pushed' =
           IF /\ \A i \in 0..(n - 1) : Flat[a + i] = Null
              /\ \A i \in 0..(n - 1) : Flat[b + i] = Null
           THEN <<>>
           ELSE <<[rel   |-> "eq",
                   l     |-> [i \in 1..n |-> LET x == a + (i - 1) IN
                               IF Flat[x] = Null THEN ConstByte(mem[x]) ELSE Flat[x]],
                   r     |-> [i \in 1..n |-> LET x == b + (i - 1) IN
                               IF Flat[x] = Null THEN ConstByte(mem[x]) ELSE Flat[x]],
                   taken |-> \A i \in 0..(n - 1) : mem[a + i] = mem[b + i]]>>
      /\ NoShadowChange /\ UNCHANGED <<mem, reg>>
  BY MemcmpStep
<1>2. Flat' = Flat
  BY <1>1, QuietFlat
<1>3. FlatShadowMemory!FlatCompare(a, b, n)
  BY <1>1, <1>2, SharedDefinitions, SharedReading DEF FlatShadowMemory!FlatCompare
<1>4. call'.f = "compare" /\ call'.d = a /\ call'.s = b /\ call'.n = n
  BY <1>1 DEF CompareCall
<1>5. FlatShadowMemory!Perform(call')
  BY <1>3, <1>4 DEF FlatShadowMemory!Perform
<1> QED BY <1>1, <1>5, SharedDefinitions DEF FlatShadowMemory!FlatEnter

LEMMA RefineStrchr ==
  ASSUME IndInv, NEW a \in Addr, NEW n \in Nat, NEW ch \in Byte, NEW e \in Entry,
         Agrees(e, ch), strchr(a, n, ch, e)
  PROVE  FlatShadowMemory!FlatEnter
<1>1. /\ call = NoCall /\ call' = SearchCall(a, n, ch, e)
      /\ IsRegion(a, n) /\ \A i \in 0..(n - 1) : mem[a + i] # ch
      /\ pushed' =
           IF (\A i \in 0..(n - 1) : Flat[a + i] = Null) /\ e = Null THEN <<>>
           ELSE [i \in 1..n |->
                   [rel |-> "ne",
                    l |-> <<LET x == a + (i - 1) IN
                            IF Flat[x] = Null THEN ConstByte(mem[x]) ELSE Flat[x]>>,
                    r |-> <<IF e = Null THEN ConstByte(ch) ELSE e>>,
                    taken |-> TRUE]]
      /\ NoShadowChange /\ UNCHANGED <<mem, reg>>
  BY StrchrStep
<1>2. Flat' = Flat
  BY <1>1, QuietFlat
<1>3. FlatShadowMemory!FlatSearch(a, n, ch, e)
  BY <1>1, <1>2, SharedDefinitions, SharedReading DEF FlatShadowMemory!FlatSearch
<1>4. call'.f = "search" /\ call'.d = a /\ call'.n = n /\ call'.c = ch /\ call'.e = e
  BY <1>1 DEF SearchCall
<1>5. FlatShadowMemory!Perform(call')
  BY <1>3, <1>4 DEF FlatShadowMemory!Perform
<1> QED BY <1>1, <1>5, SharedDefinitions DEF FlatShadowMemory!FlatEnter

\* Every step of the runtime is a step of the contract, or changes nothing that
\* the contract speaks of.
LEMMA RefineNext ==
  ASSUME IndInv, PathConstraintsHold, [Next]_vars
  PROVE  [FlatShadowMemory!FlatNext]_<<mem, Flat, call, reg, pushed>>
<1>1. CASE Transfer \/ Assign
  BY <1>1, RefineTransfer, RefineAssign DEF FlatShadowMemory!FlatNext
<1>2. CASE Access
  <2>1. CASE \E a \in Addr, n \in 1..MaxValue, le \in BOOLEAN : sym_read_memory(a, n, le)
    <3>1. 1..MaxValue \subseteq Nat
      BY ShadowAssumption
    <3> QED BY <2>1, <3>1, RefineLoad DEF FlatShadowMemory!FlatNext
  <2>2. CASE \E a \in Addr : sym_write_memory(a)
    BY <2>2, RefineStore DEF FlatShadowMemory!FlatNext
  <2> QED BY <1>2, <2>1, <2>2 DEF Access
<1>3. CASE Compare
  BY <1>3, CompareCases, RefineMemcmp, RefineStrchr DEF FlatShadowMemory!FlatNext
<1>4. CASE CopyStep \/ CopyBackwardStep \/ WriteStep \/ ClearRest
  BY <1>4, LoopStep DEF HeadsFor
<1>5. CASE Return
  <2>1. Flat' = Flat
    BY <1>5, ReturnStep DEF HeadsFor
  <2>2. FlatShadowMemory!FlatReturn
    BY <1>5, <2>1, SharedDefinitions DEF Return, FlatShadowMemory!FlatReturn
  <2> QED BY <2>2 DEF FlatShadowMemory!FlatNext
<1>6. CASE UNCHANGED vars
  BY <1>6, StutterInv DEF vars
<1> QED BY <1>1, <1>2, <1>3, <1>4, <1>5, <1>6 DEF Next, Loop

\* Refinement: the shadow pages created on demand, the iterators with their
\* cached page pointers and the byte-by-byte loops implement one flat map from
\* addresses to expressions that every call updates at once.
THEOREM Refinement == Spec => ImplementsFlatShadow
<1>1. Init => FlatShadowMemory!FlatInit
  <2> SUFFICES ASSUME Init PROVE FlatShadowMemory!FlatInit
    OBVIOUS
  <2>1. Flat = NoGoal
    BY InitInv
  <2> QED BY <2>1, SharedDefinitions DEF Init, NoGoal, FlatShadowMemory!FlatInit
<1>2. IndInv /\ PathConstraintsHold /\ [Next]_vars
        => [FlatShadowMemory!FlatNext]_(FlatShadowMemory!flatVars)
  BY RefineNext DEF FlatShadowMemory!flatVars
<1> QED BY <1>1, <1>2, Invariance, PTL
        DEF Spec, ImplementsFlatShadow, FlatShadowMemory!FlatSpec

-------------------------------------------------------------------------------
(* What a single step does to the shadow *)

\* The step creates pages at most, and a reader sees no difference.
Kept ==
  sm.pages \subseteq sm'.pages /\ \A a \in Addr : View(sm', a) = View(sm, a)

\* The step stores the expression e, and a reader sees no other difference.
Wrote(e) ==
  /\ sm.pages \subseteq sm'.pages
  /\ \E w \in Addr : \A a \in Addr : View(sm', a) = IF a = w THEN e ELSE View(sm, a)

LEMMA BeginCopyKeeps ==
  ASSUME sm \in ShadowState, NEW d \in Addr, NEW s, NEW n, NEW rest,
         \/ BeginCopy(d, s, n, rest)
         \/ d + n \in Addr /\ BeginCopyBackward(d, s, n)
  PROVE  Kept /\ op'.data = <<>>
<1>1. PICK x \in Addr : sm' = getOrCreateShadow(sm, x)
  BY DEF BeginCopy, BeginCopyBackward
<1>2. sm'.pages = sm.pages \cup {pageStart(x)} /\ \A a \in Addr : View(sm', a) = View(sm, a)
  BY <1>1, CreateShadow
<1> QED BY <1>2 DEF Kept, BeginCopy, BeginCopyBackward

LEMMA BeginWriteKeeps ==
  ASSUME sm \in ShadowState, NEW d \in Addr, NEW data, IsRegion(d, Len(data)),
         BeginWrite(d, data)
  PROVE  Kept /\ op'.data = data
<1> DEFINE c == getOrCreateShadow(sm, d)
<1>1. /\ c \in ShadowState /\ c.pages = sm.pages \cup {pageStart(d)}
      /\ \A a \in Addr : View(c, a) = View(sm, a)
  BY CreateShadow
<1>2. sm' = getOrCreateShadow(c, d + Len(data)) /\ op'.data = data
  BY DEF BeginWrite, BeginWriteOn
<1>3. d + Len(data) \in Addr
  BY DEF IsRegion
<1> HIDE DEF c
<1>4. /\ sm'.pages = c.pages \cup {pageStart(d + Len(data))}
      /\ \A a \in Addr : View(sm', a) = View(c, a)
  BY <1>1, <1>2, <1>3, CreateShadow
<1> QED BY <1>1, <1>2, <1>4 DEF Kept

LEMMA NoChangeKeeps ==
  ASSUME sm' = sm
  PROVE  Kept
  BY DEF Kept, View

\* A copying call leaves the shadow to the loop.
LEMMA TransferKeeps ==
  ASSUME IndInv, Transfer
  PROVE  Kept /\ (op' = op \/ op'.data = <<>>) /\ reg' = reg
<1>1. PICK d \in Addr, s \in Addr, n \in 0..MaxLen :
        sym_memcpy(d, s, n) \/ sym_memmove(d, s, n) \/ strncpy(d, s, n)
  BY DEF Transfer
<1>2. sm \in ShadowState /\ d + n \in Addr
  BY <1>1 DEF IndInv, TypeOK, sym_memcpy, sym_memmove, strncpy, IsRegion
<1>3. \/ NoShadowChange
      \/ \E m, rest : BeginCopy(d, s, m, rest)
      \/ BeginCopyBackward(d, s, n)
  <2>1. CASE sym_memcpy(d, s, n) \/ sym_memmove(d, s, n)
    BY <2>1 DEF sym_memcpy, sym_memmove
  <2>2. CASE strncpy(d, s, n)
    BY <2>2 DEF strncpy
  <2> QED BY <1>1, <2>1, <2>2
<1>4. reg' = reg
  BY <1>1 DEF sym_memcpy, sym_memmove, strncpy
<1> QED BY <1>2, <1>3, <1>4, BeginCopyKeeps, NoChangeKeeps DEF NoShadowChange

\* What shadow memory is meant to hold.
ByteEntry == ByteExpr \cup {Null}

\* So does a call that brings new bytes; it is about to store bytes unless it is
\* memset with a symbolic int.
LEMMA AssignKeeps ==
  ASSUME IndInv, Assign
  PROVE  /\ Kept /\ reg' = reg
         /\ SymbolicFill \/ op' = op \/ op'.data \in Seq(ByteEntry)
<1>1. PICK a \in Addr, n \in 0..MaxLen :
        \/ MemsetIntrinsic(a, n)
        \/ memset(a, n)
        \/ bzero(a, n)
        \/ \E k \in Offset : sym_make_symbolic(a, n, k)
        \/ \E val \in [1..n -> Byte] : read_other(a, val)
  BY DEF Assign
<1>2. n \in Nat /\ sm \in ShadowState
  BY ShadowAssumption DEF IndInv, TypeOK
<1>3. ASSUME NEW data, Len(data) = n, IsRegion(a, n), NoShadowChange \/ WriteShadow(a, data)
      PROVE  Kept /\ (op' = op \/ op'.data = data)
  BY <1>2, <1>3, BeginWriteKeeps, NoChangeKeeps DEF NoShadowChange, WriteShadow
<1>4. ASSUME NEW v, NEW e, sym_memset(a, v, e, n)
      PROVE  Kept /\ (op' = op \/ op'.data = Filled(e, n)) /\ reg' = reg
  <2>1. Len(Filled(e, n)) = n
    BY <1>2, FilledType
  <2> QED BY <1>3, <1>4, <2>1 DEF sym_memset
<1>5. ASSUME NEW e \in ByteEntry PROVE Filled(e, n) \in Seq(ByteEntry) /\ Len(Filled(e, n)) = n
  BY <1>2, FilledType
<1>6. Null \in ByteEntry /\ \A k \in Offset : InputByte(k) \in ByteEntry
  BY DEF ByteEntry, ByteExpr
<1>7. CASE MemsetIntrinsic(a, n)
  BY <1>4, <1>5, <1>6, <1>7 DEF MemsetIntrinsic
<1>8. CASE memset(a, n)
  BY <1>4, <1>8 DEF memset
<1>9. CASE bzero(a, n)
  BY <1>3, <1>5, <1>6, <1>9 DEF bzero
<1>10. ASSUME NEW k \in Offset, sym_make_symbolic(a, n, k)
       PROVE  Kept /\ reg' = reg /\ (op' = op \/ op'.data \in Seq(ByteEntry))
  <2> DEFINE data == [i \in 1..n |-> InputByte(k + i - 1)]
  <2>1. \A i \in 1..n : k + i - 1 \in Offset
    BY <1>10 DEF sym_make_symbolic
  <2>2. data \in Seq(ByteEntry) /\ Len(data) = n
    BY <1>2, <1>6, <2>1
  <2>3. IsRegion(a, n) /\ WriteShadow(a, data) /\ reg' = reg
    BY <1>10 DEF sym_make_symbolic
  <2> HIDE DEF data
  <2> QED BY <1>3, <2>2, <2>3
<1>11. ASSUME NEW val \in [1..n -> Byte], read_other(a, val)
       PROVE  Kept /\ reg' = reg /\ (op' = op \/ op'.data \in Seq(ByteEntry))
  <2>1. Len(val) = n
    BY <1>2
  <2> QED BY <1>3, <1>5, <1>6, <1>11, <2>1 DEF read_other
<1> QED BY <1>1, <1>7, <1>8, <1>9, <1>10, <1>11

\* So do loads and stores: they move bytes if there are only bytes to move.
LEMMA AccessKeeps ==
  ASSUME IndInv, Access
  PROVE  /\ Kept
         /\ ShadowsAreBytes /\ reg.expr \in Seq(ByteExpr) =>
              /\ op' = op \/ op'.data \in Seq(ByteEntry)
              /\ reg'.expr \in Seq(ByteExpr)
<1>1. ASSUME NEW a \in Addr, NEW n \in 1..MaxValue, NEW le \in BOOLEAN,
             sym_read_memory(a, n, le)
      PROVE  /\ Kept /\ op' = op
             /\ ShadowsAreBytes => reg'.expr \in Seq(ByteExpr)
  <2> DEFINE e == [i \in 1..n |-> NonNull(sm, mem, ByteAddr(a, n, i, le))]
  <2>1. n \in Nat /\ IsRegion(a, n) /\ mem \in [Addr -> Byte]
    BY <1>1, ShadowAssumption DEF sym_read_memory, IndInv, TypeOK
  <2>2. ASSUME ShadowsAreBytes PROVE e \in Seq(ByteExpr)
    <3>1. ASSUME NEW i \in 1..n PROVE NonNull(sm, mem, ByteAddr(a, n, i, le)) \in ByteExpr
      <4>1. ByteAddr(a, n, i, le) \in Addr
        BY <2>1, InputAssumption DEF ByteAddr, IsRegion, Addr
      <4>2. PICK x \in Addr : x = ByteAddr(a, n, i, le)
        BY <4>1
      <4>3. View(sm, x) \in ByteExpr \cup {Null} /\ mem[x] \in Byte
        BY <2>1, <2>2 DEF ShadowsAreBytes
      <4> QED BY <4>2, <4>3 DEF NonNull, ByteExpr
    <3> QED BY <2>1, <3>1
  <2>3. reg'.expr = <<>> \/ reg'.expr = e
    BY <1>1 DEF sym_read_memory
  <2>4. sm' = sm /\ op' = op
    BY <1>1 DEF sym_read_memory, NoShadowChange
  <2>5. <<>> \in Seq(ByteExpr)
    OBVIOUS
  <2> HIDE DEF e
  <2> QED BY <2>2, <2>3, <2>4, <2>5, NoChangeKeeps
<1>2. ASSUME NEW a \in Addr, sym_write_memory(a)
      PROVE  /\ Kept /\ reg' = reg
             /\ reg.expr \in Seq(ByteExpr) => op' = op \/ op'.data \in Seq(ByteEntry)
  <2>1. /\ IsRegion(a, Len(reg.val)) /\ Len(Stored) = Len(reg.val) /\ reg' = reg
        /\ sm \in ShadowState /\ reg.le \in BOOLEAN /\ reg.val \in Seq(Byte)
    BY <1>2, StoreStep DEF IndInv, TypeOK
  <2>2. NoShadowChange \/ WriteShadow(a, Stored)
    BY <1>2 DEF sym_write_memory, Stored
  <2>3. Kept /\ (op' = op \/ op'.data = Stored)
    BY <2>1, <2>2, BeginWriteKeeps, NoChangeKeeps DEF NoShadowChange, WriteShadow
  <2>4. ASSUME reg.expr \in Seq(ByteExpr) PROVE Stored \in Seq(ByteEntry)
    <3>1. Null \in ByteEntry /\ reg.expr \in Seq(ByteEntry)
      BY <2>4 DEF ByteEntry
    <3>2. Len(reg.val) \in Nat
      BY <2>1
    <3> QED BY <2>1, <3>1, <3>2, FilledType, InMemoryOrderType DEF Stored
  <2> QED BY <2>1, <2>3, <2>4
<1> QED BY <1>1, <1>2 DEF Access

LEMMA CompareKeeps ==
  ASSUME Compare
  PROVE  Kept /\ op' = op /\ reg' = reg
<1>1. NoShadowChange /\ reg' = reg
  BY DEF Compare, memcmp, strchr
<1> QED BY <1>1, NoChangeKeeps DEF NoShadowChange

\* A step of a loop that copies stores what is somewhere else already, or null.
LEMMA CopyWrites ==
  ASSUME IndInv, CopyStep \/ CopyBackwardStep
  PROVE  /\ \E b \in Addr : Wrote(Null) \/ Wrote(View(sm, b))
         /\ op'.data = op.data /\ reg' = reg
<1>1. /\ op \in Op /\ sm \in ShadowState /\ LoopInvariant
      /\ op.dst \in Nat /\ op.src \in Nat /\ op.i \in Nat /\ op.n \in Nat
      /\ op.rest \in Nat /\ op.cached \in BOOLEAN
  BY DEF IndInv, TypeOK, Op, Addr
<1>2. IsRegion(op.dst, op.n + op.rest) /\ IsRegion(op.src, op.n) /\ op.i <= op.n
      /\ (op.cached => pageStart(op.src + op.i) \in sm.pages)
  BY <1>1 DEF LoopInvariant
<1>3. ASSUME NEW wr \in Addr, NEW rd \in Addr, NEW e \in {Null, sm.bytes[rd]},
             e = sm.bytes[rd] => e = Null \/ pageStart(rd) \in sm.pages,
             sm.pages \subseteq sm'.pages,
             \A a \in Addr : View(sm', a) = IF a = wr THEN e ELSE View(sm, a)
      PROVE  \E b \in Addr : Wrote(Null) \/ Wrote(View(sm, b))
  <2>1. e = Null \/ e = View(sm, rd)
    BY <1>3 DEF View
  <2>2. Wrote(e)
    BY <1>3 DEF Wrote
  <2> QED BY <2>1, <2>2
<1>4. CASE CopyStep
  <2> DEFINE rd == op.src + op.i
             wr == op.dst + op.i
             e  == IF op.cached THEN sm.bytes[rd] ELSE Null
             w  == SetShadow(sm, wr, e)
  <2>1. op.i < op.n /\ op.kind = "copy" /\ pageStart(wr) \in sm.pages
    BY <1>1, <1>4 DEF CopyStep, LoopInvariant
  <2>2. rd \in Addr /\ wr \in Addr /\ wr + 1 \in Addr
    BY <1>1, <1>2, <2>1, InputAssumption DEF IsRegion, Addr
  <2>3. e \in Entry /\ e \in {Null, sm.bytes[rd]}
        /\ (e = sm.bytes[rd] => e = Null \/ pageStart(rd) \in sm.pages)
    BY <1>1, <1>2, <2>2, GarbageIsEntry DEF ShadowState
  <2>4. sm' = getOrCreateShadow(w, wr + 1)
    BY <1>4 DEF CopyStep
  <2>5. op'.data = op.data /\ reg' = reg
    BY <1>1, <1>4 DEF CopyStep, Op
  <2> HIDE DEF e, wr, rd
  <2>6. /\ w \in ShadowState /\ w.pages = sm.pages
        /\ \A a \in Addr : View(w, a) = IF a = wr THEN e ELSE View(sm, a)
    BY <1>1, <2>1, <2>2, <2>3, WriteThrough
  <2> HIDE DEF w
  <2>7. /\ sm.pages \subseteq sm'.pages
        /\ \A a \in Addr : View(sm', a) = IF a = wr THEN e ELSE View(sm, a)
    BY <2>2, <2>4, <2>6, CreateShadow
  <2> QED BY <1>3, <2>2, <2>3, <2>5, <2>7
<1>5. CASE CopyBackwardStep
  <2> DEFINE rd == op.src + op.i - 1
             wr == op.dst + op.i - 1
             c  == IF pageStart(rd) = pageStart(rd + 1) THEN op.cached
                   ELSE pageStart(rd) \in sm.pages
             e  == IF c THEN sm.bytes[rd] ELSE Null
             w  == getOrCreateShadow(sm, wr)
  <2>1. op.i > 0
    BY <1>5 DEF CopyBackwardStep
  <2>2. rd \in Addr /\ wr \in Addr /\ rd + 1 = op.src + op.i
    BY <1>1, <1>2, <2>1, InputAssumption DEF IsRegion, Addr
  <2>3. c => pageStart(rd) \in sm.pages
    BY <1>2, <2>2
  <2>4. sm' = SetShadow(w, wr, e)
    BY <1>5 DEF CopyBackwardStep
  <2>5. op'.data = op.data /\ reg' = reg
    BY <1>1, <1>5 DEF CopyBackwardStep, Op
  <2> HIDE DEF c
  <2>6. e \in Entry /\ e \in {Null, sm.bytes[rd]}
        /\ (e = sm.bytes[rd] => e = Null \/ pageStart(rd) \in sm.pages)
    BY <1>1, <2>2, <2>3, GarbageIsEntry DEF ShadowState
  <2> HIDE DEF e, wr, rd
  <2>7. /\ w \in ShadowState /\ w.pages = sm.pages \cup {pageStart(wr)}
        /\ \A a \in Addr : View(w, a) = View(sm, a)
    BY <1>1, <2>2, CreateShadow
  <2> HIDE DEF w
  <2>8. /\ sm.pages \subseteq sm'.pages
        /\ \A a \in Addr : View(sm', a) = IF a = wr THEN e ELSE View(sm, a)
    BY <2>2, <2>4, <2>6, <2>7, WriteThrough
  <2> QED BY <1>3, <2>2, <2>5, <2>6, <2>8
<1> QED BY <1>4, <1>5

\* A step of a loop that writes stores the next expression it was given.
LEMMA WriteWrites ==
  ASSUME IndInv, WriteStep
  PROVE  /\ op.i + 1 \in 1..Len(op.data) /\ Wrote(op.data[op.i + 1])
         /\ op'.data = op.data /\ reg' = reg
<1> DEFINE wr == op.dst + op.i
           e  == op.data[op.i + 1]
           w  == SetShadow(sm, wr, e)
<1>1. /\ op \in Op /\ sm \in ShadowState /\ op.kind = "write" /\ op.i < op.n
      /\ op.dst \in Nat /\ op.i \in Nat /\ op.n \in Nat /\ op.data \in Seq(Entry)
  BY DEF IndInv, TypeOK, WriteStep, Op, Addr
<1>2. /\ IsRegion(op.dst, op.n + 0) /\ Len(op.data) = op.n /\ pageStart(wr) \in sm.pages
  <2>1. /\ IsRegion(op.dst, op.n + op.rest) /\ op.rest = 0 /\ Len(op.data) = op.n
        /\ pageStart(wr) \in sm.pages
    BY <1>1 DEF IndInv, LoopInvariant
  <2> QED BY <2>1
<1>3. wr \in Addr /\ wr + 1 \in Addr /\ op.i + 1 \in 1..op.n
  BY <1>1, <1>2, InputAssumption DEF IsRegion, Addr
<1>4. e \in Entry
  BY <1>1, <1>2, <1>3
<1>5. sm' = getOrCreateShadow(w, wr + 1) /\ op'.data = op.data /\ reg' = reg
  BY <1>1 DEF WriteStep, Op
<1> HIDE DEF e, wr
<1>6. /\ w \in ShadowState /\ w.pages = sm.pages
      /\ \A a \in Addr : View(w, a) = IF a = wr THEN e ELSE View(sm, a)
  BY <1>1, <1>2, <1>3, <1>4, WriteThrough
<1> HIDE DEF w
<1>7. /\ sm.pages \subseteq sm'.pages
      /\ \A a \in Addr : View(sm', a) = IF a = wr THEN e ELSE View(sm, a)
  BY <1>3, <1>5, <1>6, CreateShadow
<1>8. Wrote(e)
  BY <1>3, <1>7 DEF Wrote
<1> QED BY <1>2, <1>3, <1>5, <1>8 DEF e

LEMMA ClearRestKeeps ==
  ASSUME IndInv, ClearRest
  PROVE  Kept /\ op'.data \in Seq(ByteEntry) /\ reg' = reg
<1>1. /\ op.rest \in Nat /\ op.n \in Nat /\ op.dst \in Nat /\ sm \in ShadowState
      /\ IsRegion(op.dst, op.n + op.rest)
  BY DEF IndInv, TypeOK, Op, Addr, LoopInvariant
<1>2. Filled(Null, op.rest) \in Seq(ByteEntry) /\ Len(Filled(Null, op.rest)) = op.rest
  BY <1>1, FilledType DEF ByteEntry
<1>3. op.dst + op.n \in Addr /\ IsRegion(op.dst + op.n, op.rest)
  BY <1>1, InputAssumption DEF IsRegion, Addr
<1>4. BeginWrite(op.dst + op.n, Filled(Null, op.rest)) /\ reg' = reg
  BY DEF ClearRest
<1> QED BY <1>1, <1>2, <1>3, <1>4, BeginWriteKeeps

LEMMA ReturnKeeps ==
  ASSUME Return
  PROVE  Kept /\ op'.data = <<>> /\ reg' = reg
  BY NoChangeKeeps DEF Return, Idle

\* The loaded value agrees with its expression at every width, in both byte
\* orders.  (_sym_read_memory)
THEOREM RegistersAgree == Spec => []RegisterConsistency
<1>1. IndInv => RegisterConsistency
  BY DEF IndInv
<1> QED BY <1>1, Invariance, PTL

\* However the pages lie, a step of the runtime changes the shadow of one byte at
\* most, and no page that it creates changes what a reader sees.
\* (getOrCreateShadow, WriteShadowIterator)
THEOREM OneByteAtATime == Spec => LoopStepsWriteOneByte
<1> DEFINE A == /\ sm.pages \subseteq sm'.pages
                /\ \E w \in Addr : \A a \in Addr \ {w} : View(sm', a) = View(sm, a)
<1>1. IndInv /\ [Next]_vars => [A]_sm
  <2> SUFFICES ASSUME IndInv, Next PROVE A
    BY DEF vars
  <2>1. 0 \in Addr
    BY InputAssumption DEF Addr
  <2>2. ASSUME Kept PROVE A
    BY <2>1, <2>2 DEF Kept
  <2>3. ASSUME NEW e, Wrote(e) PROVE A
    BY <2>3 DEF Wrote
  <2> HIDE DEF A
  <2>4. CASE Transfer \/ Assign \/ Access \/ Compare
    BY <2>2, <2>4, TransferKeeps, AssignKeeps, AccessKeeps, CompareKeeps
  <2>5. CASE Loop
    BY <2>2, <2>3, <2>5, CopyWrites, WriteWrites, ClearRestKeeps, ReturnKeeps DEF Loop
  <2> QED BY <2>4, <2>5 DEF Next
<1>2. IndInv /\ PathConstraintsHold => IndInv
  OBVIOUS
<1> QED BY <1>1, <1>2, Invariance, PTL DEF Spec, LoopStepsWriteOneByte

\* What makes ShadowsAreBytes inductive: the loop in progress writes bytes, and
\* the last loaded value consists of bytes.
BytesInv ==
  /\ ShadowsAreBytes
  /\ op.data \in Seq(ByteEntry)
  /\ reg.expr \in Seq(ByteExpr)

\* Every expression in shadow memory is a byte, as ReadShadowIterator asserts, as
\* long as the program does not call memset with a symbolic int.
THEOREM OnlyBytesAreStored == ~SymbolicFill => (Spec => []ShadowsAreBytes)
<1> SUFFICES ASSUME ~SymbolicFill PROVE Spec => []ShadowsAreBytes
  OBVIOUS
<1>1. Init => BytesInv
  <2> SUFFICES ASSUME Init PROVE BytesInv
    OBVIOUS
  <2>1. \A a \in Addr : View(sm, a) = Null
    BY DEF Init, View
  <2> QED BY <2>1 DEF Init, Idle, BytesInv, ShadowsAreBytes
<1>2. IndInv /\ BytesInv /\ [Next]_vars => BytesInv'
  <2> SUFFICES ASSUME IndInv, BytesInv, [Next]_vars PROVE BytesInv'
    OBVIOUS
  <2>1. /\ op.data \in Seq(ByteEntry) /\ reg.expr \in Seq(ByteExpr)
        /\ ShadowsAreBytes /\ \A a \in Addr : View(sm, a) \in ByteEntry
        /\ Null \in ByteEntry /\ <<>> \in Seq(ByteEntry)
    BY DEF BytesInv, ShadowsAreBytes, ByteEntry
  <2>2. ASSUME Kept PROVE ShadowsAreBytes'
    BY <2>1, <2>2 DEF Kept, ShadowsAreBytes, ByteEntry
  <2>3. ASSUME NEW e \in ByteEntry, Wrote(e) PROVE ShadowsAreBytes'
    BY <2>1, <2>3 DEF Wrote, ShadowsAreBytes, ByteEntry
  <2>4. CASE Transfer \/ Assign \/ Access \/ Compare
    <3>1. Kept
      BY <2>4, TransferKeeps, AssignKeeps, AccessKeeps, CompareKeeps
    <3>2. op' = op \/ op'.data \in Seq(ByteEntry)
      BY <2>1, <2>4, TransferKeeps, AssignKeeps, AccessKeeps, CompareKeeps
    <3>3. reg'.expr \in Seq(ByteExpr)
      BY <2>1, <2>4, TransferKeeps, AssignKeeps, AccessKeeps, CompareKeeps
    <3> QED BY <2>1, <2>2, <3>1, <3>2, <3>3 DEF BytesInv
  <2>5. CASE CopyStep \/ CopyBackwardStep
    <3>1. PICK b \in Addr : Wrote(Null) \/ Wrote(View(sm, b))
      BY <2>5, CopyWrites
    <3> QED BY <2>1, <2>3, <2>5, <3>1, CopyWrites DEF BytesInv
  <2>6. CASE WriteStep
    <3>1. op.data[op.i + 1] \in ByteEntry
      BY <2>1, <2>6, WriteWrites
    <3> QED BY <2>1, <2>3, <2>6, <3>1, WriteWrites DEF BytesInv
  <2>7. CASE ClearRest \/ Return
    BY <2>1, <2>2, <2>7, ClearRestKeeps, ReturnKeeps DEF BytesInv
  <2>8. CASE UNCHANGED vars
    BY <2>8 DEF vars, BytesInv, ShadowsAreBytes, View
  <2> QED BY <2>4, <2>5, <2>6, <2>7, <2>8 DEF Next, Loop
<1>3. IndInv /\ PathConstraintsHold => IndInv
  OBVIOUS
<1>4. BytesInv => ShadowsAreBytes
  BY DEF BytesInv
<1> QED BY <1>1, <1>2, <1>3, <1>4, Invariance, PTL DEF Spec
===============================================================================
