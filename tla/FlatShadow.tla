------------------------------ MODULE FlatShadow ------------------------------
(***************************************************************************)
(* What shadow memory promises: one map from addresses to expressions, with *)
(* no pages, no iterators and no loops, that every operation updates at     *)
(* once together with concrete memory.                                      *)
(***************************************************************************)
EXTENDS SymExpr

VARIABLES mem,      \* concrete memory
          flat,     \* the expression of every byte, Null where it is concrete
          call,     \* the runtime function the program is in
          reg,      \* the last value loaded
          pushed    \* the path constraints this call has pushed

flatVars == <<mem, flat, call, reg, pushed>>

Concrete(a, n) == \A i \in 0..(n - 1) : flat[a + i] = Null

Expression(a) == IF flat[a] = Null THEN ConstByte(mem[a]) ELSE flat[a]

\* Bytes and expressions move together; the source is read before anything
\* is overwritten.  What follows the first n bytes is padded with zeros.
FlatCopy(d, s, n, pad) ==
  /\ IsRegion(d, n + pad) /\ IsRegion(s, n)
  /\ mem' = Written(Copied(mem, d, s, n), d + n, Filled(0, pad))
  /\ flat' = Written(Copied(flat, d, s, n), d + n, Filled(Null, pad))
  /\ UNCHANGED <<reg, pushed>>

\* New bytes come with the expressions of the call, and agree with them.
FlatAssign(a, data) ==
  /\ IsRegion(a, Len(data))
  /\ mem' \in [Addr -> Byte]
  /\ \A x \in Addr : IF Within(x, a, Len(data))
                     THEN Agrees(data[(x - a) + 1], mem'[x])
                     ELSE mem'[x] = mem[x]
  /\ flat' = Written(flat, a, data)
  /\ UNCHANGED <<reg, pushed>>

\* A load has an expression exactly when some byte has one.
FlatLoad(a, n, le) ==
  /\ n > 0 /\ IsRegion(a, n)
  /\ reg' = [val  |-> [i \in 1..n |-> mem[ByteAddr(a, n, i, le)]],
             expr |-> IF Concrete(a, n) THEN <<>>
                      ELSE [i \in 1..n |-> Expression(ByteAddr(a, n, i, le))],
             le   |-> le]
  /\ UNCHANGED <<mem, flat, pushed>>

\* A store of a value without expression makes its bytes concrete.
FlatStore(a) ==
  /\ IsRegion(a, Len(reg.val))
  /\ mem' = Written(mem, a, InMemoryOrder(reg.val, reg.le))
  /\ flat' = Written(flat, a, IF reg.expr = <<>> THEN Filled(Null, Len(reg.val))
                              ELSE InMemoryOrder(reg.expr, reg.le))
  /\ UNCHANGED <<reg, pushed>>

\* A comparison of concrete bytes pushes nothing; any other one pushes that
\* the expressions of the two regions are, or are not, equal.
FlatCompare(a, b, n) ==
  /\ IsRegion(a, n) /\ IsRegion(b, n)
  /\ pushed' = IF Concrete(a, n) /\ Concrete(b, n) THEN <<>>
               ELSE <<[rel   |-> "eq",
                       l     |-> [i \in 1..n |-> Expression(a + (i - 1))],
                       r     |-> [i \in 1..n |-> Expression(b + (i - 1))],
                       taken |-> \A i \in 0..(n - 1) : mem[a + i] = mem[b + i]]>>
  /\ UNCHANGED <<mem, flat, reg>>

\* A search pushes, for each byte it passes, that it is not the one sought.
FlatSearch(a, n, c, e) ==
  /\ IsRegion(a, n)
  /\ \A i \in 0..(n - 1) : mem[a + i] # c
  /\ pushed' = IF Concrete(a, n) /\ e = Null THEN <<>>
               ELSE [i \in 1..n |->
                       [rel |-> "ne", l |-> <<Expression(a + (i - 1))>>,
                        r |-> <<IF e = Null THEN ConstByte(c) ELSE e>>,
                        taken |-> TRUE]]
  /\ UNCHANGED <<mem, flat, reg>>

\* The effect of a call, all at once.
Perform(c) ==
  \/ c.f = "copy" /\ FlatCopy(c.d, c.s, c.n, c.pad)
  \/ c.f = "assign" /\ FlatAssign(c.d, c.data)
  \/ c.f = "load" /\ FlatLoad(c.d, c.n, c.le)
  \/ c.f = "store" /\ FlatStore(c.d)
  \/ c.f = "compare" /\ FlatCompare(c.d, c.s, c.n)
  \/ c.f = "search" /\ FlatSearch(c.d, c.n, c.c, c.e)

FlatEnter == call = NoCall /\ Perform(call')

FlatReturn ==
  /\ call # NoCall
  /\ call' = NoCall /\ pushed' = <<>>
  /\ UNCHANGED <<mem, flat, reg>>

FlatInit ==
  /\ mem = [a \in Addr |-> 0]
  /\ flat = [a \in Addr |-> Null]
  /\ call = NoCall
  /\ reg = [val |-> <<0>>, expr |-> <<>>, le |-> TRUE]
  /\ pushed = <<>>

FlatNext == FlatEnter \/ FlatReturn

FlatSpec == FlatInit /\ [][FlatNext]_flatVars
===============================================================================
