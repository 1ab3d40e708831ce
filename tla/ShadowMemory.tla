----------------------------- MODULE ShadowMemory -----------------------------
(***************************************************************************)
(* The runtime's shadow memory: runtime/include/Shadow.h, the memory        *)
(* operations of runtime/src/RuntimeCommon.cpp and the libc wrappers of     *)
(* runtime/src/LibcWrappers.cpp that move or compare bytes.                 *)
(*                                                                         *)
(* Shadow pages are created on demand, and the operations walk over memory  *)
(* with iterators that cache a pointer into the current shadow page.  The   *)
(* model keeps both: a call sets up a loop (op) and every loop iteration is *)
(* a step, with the page creation and the pointer refresh of the code's     *)
(* operator++ and operator--.  Nothing else runs while a loop is active:    *)
(* the runtime is called synchronously by the single-threaded program.      *)
(***************************************************************************)
EXTENDS SymExpr

CONSTANTS kPageSize,      \* bytes per page
          MaxLen,         \* bound on the length of a region
          MaxValue,       \* bound on the width of a loaded value, in bytes
          SymbolicFill    \* does the program call memset(s, c, n) with a
                          \* symbolic c?

ASSUME ShadowAssumption ==
  /\ kPageSize \in Nat \ {0}
  /\ MaxLen \in Nat
  /\ MaxValue \in Nat
  /\ SymbolicFill \in BOOLEAN

VARIABLES mem,      \* concrete memory
          sm,       \* [pages: start addresses of the pages in g_shadow_pages,
                    \*  bytes: what the shadow array of each page holds]
          call,     \* the runtime function the program is in
          op,       \* the loop in progress
          goal,     \* history: the shadow the call in progress should leave
          reg,      \* the last value loaded: its bytes and its expression
          pushed    \* the path constraints this call has pushed

vars == <<mem, sm, call, op, goal, reg, pushed>>

\* What a shadow entry, and the shadow memory as a whole, can be.
Entry == Expr \cup {Null}
ShadowState == [pages : SUBSET Addr, bytes : [Addr -> Entry]]

\* What malloc'ed memory holds before it is cleared.
Garbage == ConstByte(MaxByte)

-------------------------------------------------------------------------------
(* Pages and shadow lookup *)

\* The address of the page that holds addr.
pageStart(addr) == addr - (addr % kPageSize)

\* getShadow followed by a read: null where there is no shadow page.
View(s, addr) == IF pageStart(addr) \in s.pages THEN s.bytes[addr] ELSE Null

\* The shadow of all of memory as a reader sees it.
Visible(s) == [a \in Addr |-> View(s, a)]

\* Mutant: the new page is not cleared.
MutantCreateUncleared(s, addr) ==
  [s EXCEPT !.pages = @ \cup {pageStart(addr)}]

\* A page that has no shadow gets one, cleared to null expressions.
getOrCreateShadow(s, addr) ==
  [pages |-> s.pages \cup {pageStart(addr)},
   bytes |-> [a \in Addr |->
                IF pageStart(addr) \notin s.pages /\ pageStart(a) = pageStart(addr)
                THEN Null ELSE s.bytes[a]]]

\* An assignment through a WriteShadowIterator that points to addr.
SetShadow(s, addr, e) == [s EXCEPT !.bytes[addr] = e]

\* Is there no symbolic byte in [addr, addr + n)?  The fast path looks at one
\* page only when the region, its end included, does not leave the page.
isConcrete(s, addr, n) ==
  \/ /\ pageStart(addr) = pageStart(addr + n)
     /\ pageStart(addr) \notin s.pages
  \/ \A i \in 0..(n - 1) : View(s, addr + i) = Null

\* NonNullReadShadowIterator: a concrete byte is read as a constant.
NonNull(s, m, addr) ==
  IF View(s, addr) = Null THEN ConstByte(m[addr]) ELSE View(s, addr)

-------------------------------------------------------------------------------
(* Loops.  dst and src are the starts of the regions, n the number of bytes, *)
(* i the position of the iterators, cached says whether the read iterator    *)
(* holds a shadow pointer (shadow_ != nullptr), data is what a write loop    *)
(* stores, and rest is the number of bytes that strncpy clears afterwards.   *)

Idle == [kind |-> "idle", dst |-> 0, src |-> 0, n |-> 0, i |-> 0,
         cached |-> FALSE, data |-> <<>>, rest |-> 0]

NoGoal == [a \in Addr |-> Null]

Op == [kind : {"idle", "copy", "copy_backward", "write"},
       dst : Addr, src : Addr, n : Nat, i : Nat, cached : BOOLEAN,
       data : Seq(Entry), rest : Nat]

\* std::copy from ReadOnlyShadow(s, n) to ReadWriteShadow(d, ...).begin(),
\* followed by a fill with null of the rest bytes after it.
BeginCopy(d, s, n, rest) ==
  /\ sm' = getOrCreateShadow(sm, d)
  /\ op' = [kind |-> "copy", dst |-> d, src |-> s, n |-> n, i |-> 0,
            cached |-> pageStart(s) \in sm.pages, data |-> <<>>, rest |-> rest]

\* std::copy_backward: all three iterators start at the ends of the regions.
BeginCopyBackward(d, s, n) ==
  /\ sm' = getOrCreateShadow(sm, d + n)
  /\ op' = [kind |-> "copy_backward", dst |-> d, src |-> s, n |-> n, i |-> n,
            cached |-> pageStart(s + n) \in sm.pages, data |-> <<>>, rest |-> 0]

\* std::fill, std::generate and the loop of _sym_write_memory: begin() and
\* end() are both write iterators, and both create their pages.
BeginWriteOn(s, d, data) ==
  /\ sm' = getOrCreateShadow(getOrCreateShadow(s, d), d + Len(data))
  /\ op' = [kind |-> "write", dst |-> d, src |-> 0, n |-> Len(data), i |-> 0,
            cached |-> FALSE, data |-> data, rest |-> 0]

BeginWrite(d, data) == BeginWriteOn(sm, d, data)

\* *result = *first; ++result, ++first
CopyStep ==
  /\ op.kind = "copy"
  /\ op.i < op.n
  /\ LET rd == op.src + op.i
         wr == op.dst + op.i
         e  == IF op.cached THEN sm.bytes[rd] ELSE Null
         s  == getOrCreateShadow(SetShadow(sm, wr, e), wr + 1)
     IN /\ sm' = s
        /\ op' = [op EXCEPT
             !.i = @ + 1,
             !.cached = IF pageStart(rd + 1) = pageStart(rd) THEN @
                        ELSE pageStart(rd + 1) \in s.pages]
  /\ UNCHANGED <<mem, call, goal, reg, pushed>>

\* *--result = *--last, the right-hand side first
CopyBackwardStep ==
  /\ op.kind = "copy_backward"
  /\ op.i > 0
  /\ LET rd == op.src + op.i - 1
         wr == op.dst + op.i - 1
         c  == IF pageStart(rd) = pageStart(rd + 1) THEN op.cached
               ELSE pageStart(rd) \in sm.pages
         e  == IF c THEN sm.bytes[rd] ELSE Null
     IN /\ sm' = SetShadow(getOrCreateShadow(sm, wr), wr, e)
        /\ op' = [op EXCEPT !.i = @ - 1, !.cached = c]
  /\ UNCHANGED <<mem, call, goal, reg, pushed>>

\* *first = value; ++first
WriteStep ==
  /\ op.kind = "write"
  /\ op.i < op.n
  /\ LET wr == op.dst + op.i
     IN sm' = getOrCreateShadow(SetShadow(sm, wr, op.data[op.i + 1]), wr + 1)
  /\ op' = [op EXCEPT !.i = @ + 1]
  /\ UNCHANGED <<mem, call, goal, reg, pushed>>

\* Mutant: a backward loop, too, is over when its iterator is at the end.
MutantFinishedAtEnd == op.i = op.n

\* The iterators have met.
Finished ==
  \/ op.kind \in {"idle", "copy", "write"} /\ op.i = op.n
  \/ op.kind = "copy_backward" /\ op.i = 0

\* strncpy has copied the string and clears the rest of its destination.
ClearRest ==
  /\ op.kind = "copy" /\ Finished /\ op.rest > 0
  /\ BeginWrite(op.dst + op.n, Filled(Null, op.rest))
  /\ UNCHANGED <<mem, call, goal, reg, pushed>>

\* The call returns to the program.
Return ==
  /\ call # NoCall
  /\ Finished /\ op.rest = 0
  /\ call' = NoCall /\ op' = Idle /\ goal' = NoGoal /\ pushed' = <<>>
  /\ UNCHANGED <<mem, sm, reg>>

-------------------------------------------------------------------------------
(* Calls.  The concrete effect on memory is part of the call; it happens in  *)
(* the same call of the program, before or after the shadow loop.            *)

NoShadowChange == UNCHANGED <<sm, op, goal>>

\* The program, in no call so far, makes the call c.
Enter(c) == call = NoCall /\ call' = c

\* A call that should leave the expressions data in the shadow from d on.
WriteShadow(d, data) ==
  /\ goal' = Written(Visible(sm), d, data)
  /\ BeginWrite(d, data)

\* _sym_memcpy, from the intrinsic and from the wrapper of memcpy.  The C
\* standard leaves overlapping regions undefined.
sym_memcpy(d, s, n) ==
  /\ Enter(CopyCall(d, s, n, 0))
  /\ IsRegion(d, n) /\ IsRegion(s, n) /\ Disjoint(d, n, s, n)
  /\ mem' = Copied(mem, d, s, n)
  /\ IF isConcrete(sm, s, n) /\ isConcrete(sm, d, n)
     THEN NoShadowChange
     ELSE goal' = Copied(Visible(sm), d, s, n) /\ BeginCopy(d, s, n, 0)
  /\ UNCHANGED <<reg, pushed>>

\* Mutant: overlapping regions are copied forward, whatever their order.
MutantMemmoveForward(d, s, n) ==
  /\ Enter(CopyCall(d, s, n, 0))
  /\ IsRegion(d, n) /\ IsRegion(s, n)
  /\ mem' = Copied(mem, d, s, n)
  /\ IF isConcrete(sm, s, n) /\ isConcrete(sm, d, n)
     THEN NoShadowChange
     ELSE goal' = Copied(Visible(sm), d, s, n) /\ BeginCopy(d, s, n, 0)
  /\ UNCHANGED <<reg, pushed>>

\* _sym_memmove, from the intrinsic and from the wrappers of memmove and bcopy.
sym_memmove(d, s, n) ==
  /\ Enter(CopyCall(d, s, n, 0))
  /\ IsRegion(d, n) /\ IsRegion(s, n)
  /\ mem' = Copied(mem, d, s, n)
  /\ IF isConcrete(sm, s, n) /\ isConcrete(sm, d, n)
     THEN NoShadowChange
     ELSE /\ goal' = Copied(Visible(sm), d, s, n)
          /\ IF d > s THEN BeginCopyBackward(d, s, n) ELSE BeginCopy(d, s, n, 0)
  /\ UNCHANGED <<reg, pushed>>

\* Mutant: a concrete fill never touches the shadow.
MutantMemsetKeepsShadow(a, v, e, n) ==
  /\ Enter(AssignCall(a, Filled(e, n)))
  /\ IsRegion(a, n)
  /\ mem' = Written(mem, a, Filled(v, n))
  /\ IF e = Null THEN NoShadowChange ELSE WriteShadow(a, Filled(e, n))
  /\ UNCHANGED <<reg, pushed>>

\* _sym_memset with the byte v and its expression e.
sym_memset(a, v, e, n) ==
  /\ Enter(AssignCall(a, Filled(e, n)))
  /\ IsRegion(a, n)
  /\ mem' = Written(mem, a, Filled(v, n))
  /\ IF e = Null /\ isConcrete(sm, a, n)
     THEN NoShadowChange
     ELSE WriteShadow(a, Filled(e, n))
  /\ UNCHANGED <<reg, pushed>>

\* Mutant: the fill value is not cut down to a byte.
MutantMemsetWide(a, n) ==
  \E k \in Offset : sym_memset(a, Input[k], WideByte(k), n)

\* The memset intrinsic fills with an i8, so its expression is a byte.
MemsetIntrinsic(a, n) ==
  \/ \E v \in Byte : sym_memset(a, v, Null, n)
  \/ \E k \in Offset : sym_memset(a, Input[k], InputByte(k), n)

\* The wrapper of memset passes on the expression of its int parameter.
memset(a, n) ==
  /\ SymbolicFill
  /\ \E k \in Offset : sym_memset(a, Input[k], WideByte(k), n)

\* bzero clears the shadow without asking whether there is one.
bzero(a, n) ==
  /\ Enter(AssignCall(a, Filled(Null, n)))
  /\ IsRegion(a, n)
  /\ mem' = Written(mem, a, Filled(0, n))
  /\ WriteShadow(a, Filled(Null, n))
  /\ UNCHANGED <<reg, pushed>>

\* strnlen(s, n) = len
StrNLen(s, n, len) ==
  /\ \A j \in 0..(len - 1) : mem[s + j] # 0
  /\ len < n => mem[s + len] = 0

\* strncpy copies up to the terminator and pads with zeros.
strncpy(d, s, n) ==
  /\ IsRegion(d, n) /\ IsRegion(s, n) /\ Disjoint(d, n, s, n)
  /\ \E copied \in 0..n :
       LET rest == n - copied IN
       /\ StrNLen(s, n, copied)
       /\ Enter(CopyCall(d, s, copied, rest))
       /\ mem' = Written(Copied(mem, d, s, copied), d + copied, Filled(0, rest))
       /\ IF isConcrete(sm, s, copied) /\ isConcrete(sm, d, n)
          THEN NoShadowChange
          ELSE /\ goal' = Written(Copied(Visible(sm), d, s, copied),
                                  d + copied, Filled(Null, rest))
               /\ BeginCopy(d, s, copied, rest)
  /\ UNCHANGED <<reg, pushed>>

\* read and friends on the input: the bytes at offset become input variables
\* (_sym_make_symbolic).
sym_make_symbolic(a, n, offset) ==
  /\ Enter(AssignCall(a, [i \in 1..n |-> InputByte(offset + i - 1)]))
  /\ IsRegion(a, n)
  /\ \A i \in 1..n : offset + i - 1 \in Offset
  /\ mem' = Written(mem, a, [i \in 1..n |-> Input[offset + i - 1]])
  /\ WriteShadow(a, [i \in 1..n |-> InputByte(offset + i - 1)])
  /\ UNCHANGED <<reg, pushed>>

\* read and mmap on any other file: the bytes are concrete.
read_other(a, val) ==
  /\ Enter(AssignCall(a, Filled(Null, Len(val))))
  /\ IsRegion(a, Len(val))
  /\ mem' = Written(mem, a, val)
  /\ IF isConcrete(sm, a, Len(val))
     THEN NoShadowChange
     ELSE WriteShadow(a, Filled(Null, Len(val)))
  /\ UNCHANGED <<reg, pushed>>

\* Mutant: the bytes are concatenated in little-endian order only.
MutantReadLittleEndian(a, n, le) ==
  /\ Enter(LoadCall(a, n, le))
  /\ n > 0 /\ IsRegion(a, n)
  /\ reg' = [val  |-> [i \in 1..n |-> mem[ByteAddr(a, n, i, le)]],
             expr |-> IF isConcrete(sm, a, n) THEN <<>>
                      ELSE [i \in 1..n |-> NonNull(sm, mem, ByteAddr(a, n, i, TRUE))],
             le   |-> le]
  /\ NoShadowChange /\ UNCHANGED <<mem, pushed>>

\* A load instruction: _sym_read_memory yields null for a concrete region and
\* concatenates all bytes otherwise.  Aggregates are read as big endian.
sym_read_memory(a, n, le) ==
  /\ Enter(LoadCall(a, n, le))
  /\ n > 0 /\ IsRegion(a, n)
  /\ reg' = [val  |-> [i \in 1..n |-> mem[ByteAddr(a, n, i, le)]],
             expr |-> IF isConcrete(sm, a, n) THEN <<>>
                      ELSE [i \in 1..n |-> NonNull(sm, mem, ByteAddr(a, n, i, le))],
             le   |-> le]
  /\ NoShadowChange /\ UNCHANGED <<mem, pushed>>

\* Mutant: storing a concrete value leaves the shadow alone.
MutantStoreKeepsShadow(a) ==
  LET n == Len(reg.val) IN
  /\ Enter(StoreCall(a))
  /\ IsRegion(a, n)
  /\ mem' = Written(mem, a, InMemoryOrder(reg.val, reg.le))
  /\ IF reg.expr = <<>> THEN NoShadowChange
     ELSE WriteShadow(a, InMemoryOrder(reg.expr, reg.le))
  /\ UNCHANGED <<reg, pushed>>

\* A store instruction: _sym_write_memory cuts the expression into bytes, or
\* makes the region concrete.
sym_write_memory(a) ==
  LET n == Len(reg.val) IN
  /\ Enter(StoreCall(a))
  /\ IsRegion(a, n)
  /\ mem' = Written(mem, a, InMemoryOrder(reg.val, reg.le))
  /\ IF reg.expr = <<>>
     THEN IF isConcrete(sm, a, n) THEN NoShadowChange
          ELSE WriteShadow(a, Filled(Null, n))
     ELSE WriteShadow(a, InMemoryOrder(reg.expr, reg.le))
  /\ UNCHANGED <<reg, pushed>>

\* Mutant: only the first byte decides the recorded outcome.
MutantMemcmpFirstByte(a, b, n) ==
  /\ Enter(CompareCall(a, b, n))
  /\ IsRegion(a, n) /\ IsRegion(b, n)
  /\ pushed' = IF isConcrete(sm, a, n) /\ isConcrete(sm, b, n) THEN <<>>
               ELSE <<[rel   |-> "eq",
                       l     |-> [i \in 1..n |-> NonNull(sm, mem, a + (i - 1))],
                       r     |-> [i \in 1..n |-> NonNull(sm, mem, b + (i - 1))],
                       taken |-> mem[a] = mem[b]]>>
  /\ NoShadowChange /\ UNCHANGED <<mem, reg>>

\* memcmp and bcmp: if anything is symbolic, all bytes are compared and the
\* outcome is pushed as a path constraint.
memcmp(a, b, n) ==
  /\ Enter(CompareCall(a, b, n))
  /\ IsRegion(a, n) /\ IsRegion(b, n)
  /\ pushed' = IF isConcrete(sm, a, n) /\ isConcrete(sm, b, n) THEN <<>>
               ELSE <<[rel   |-> "eq",
                       l     |-> [i \in 1..n |-> NonNull(sm, mem, a + (i - 1))],
                       r     |-> [i \in 1..n |-> NonNull(sm, mem, b + (i - 1))],
                       taken |-> \A i \in 0..(n - 1) : mem[a + i] = mem[b + i]]>>
  /\ NoShadowChange /\ UNCHANGED <<mem, reg>>

\* strchr: the characters before the match (or before the terminator) all
\* differ from c; e is the expression of c.
strchr(a, len, c, e) ==
  /\ Enter(SearchCall(a, len, c, e))
  /\ IsRegion(a, len)
  /\ \A i \in 0..(len - 1) : mem[a + i] \notin {0, c}
  /\ mem[a + len] \in {0, c}
  /\ LET ch == IF e = Null THEN ConstByte(c) ELSE e
     IN pushed' = IF isConcrete(sm, a, len) /\ e = Null THEN <<>>
                  ELSE [i \in 1..len |->
                          [rel |-> "ne", l |-> <<NonNull(sm, mem, a + (i - 1))>>,
                           r |-> <<ch>>, taken |-> TRUE]]
  /\ NoShadowChange /\ UNCHANGED <<mem, reg>>

Compare ==
  \E a \in Addr, n \in 0..MaxLen :
    \/ \E b \in Addr : memcmp(a, b, n)
    \/ \E c \in Byte : strchr(a, n, c, Null)
    \/ \E k \in Offset : strchr(a, n, Input[k], InputByte(k))

Access ==
  \E a \in Addr :
    \/ \E n \in 1..MaxValue, le \in BOOLEAN : sym_read_memory(a, n, le)
    \/ sym_write_memory(a)

Transfer ==
  \E d, s \in Addr, n \in 0..MaxLen :
    \/ sym_memcpy(d, s, n)
    \/ sym_memmove(d, s, n)
    \/ strncpy(d, s, n)

Assign ==
  \E a \in Addr, n \in 0..MaxLen :
    \/ MemsetIntrinsic(a, n)
    \/ memset(a, n)
    \/ bzero(a, n)
    \/ \E k \in Offset : sym_make_symbolic(a, n, k)
    \/ \E val \in [1..n -> Byte] : read_other(a, val)

Loop == CopyStep \/ CopyBackwardStep \/ WriteStep \/ ClearRest \/ Return

-------------------------------------------------------------------------------
Init ==
  /\ mem = [a \in Addr |-> 0]
  /\ sm = [pages |-> {}, bytes |-> [a \in Addr |-> Garbage]]
  /\ call = NoCall
  /\ op = Idle
  /\ goal = NoGoal
  /\ reg = [val |-> <<0>>, expr |-> <<>>, le |-> TRUE]
  /\ pushed = <<>>

Next == Transfer \/ Assign \/ Access \/ Compare \/ Loop

\* The runtime runs to completion once the program has called it.
Fairness == WF_vars(Loop)

Spec == Init /\ [][Next]_vars /\ Fairness

-------------------------------------------------------------------------------
(* Properties *)

TypeOK ==
  /\ mem \in [Addr -> Byte]
  /\ sm \in ShadowState
  /\ op \in Op
  /\ goal \in [Addr -> Entry]
  /\ reg \in [val : Seq(Byte), expr : Seq(Expr), le : BOOLEAN]

\* The shadow as the program finds it once the call in progress has returned.
Flat == IF op = Idle THEN Visible(sm) ELSE goal

\* What the read iterator of the loop in progress will return at address a: a
\* null pointer cached for the current page hides a shadow page that the loop
\* itself has created in the meantime.
IterView(a) ==
  IF ~op.cached /\ pageStart(a) = pageStart(op.src + op.i)
  THEN Null ELSE View(sm, a)

\* The addresses that the loop in progress still has to write.
Pending ==
  IF op.kind = "copy_backward"
  THEN {a \in Addr : Within(a, op.dst, op.i)}
  ELSE {a \in Addr : Within(a, op.dst + op.i, (op.n - op.i) + op.rest)}

\* Loop invariant of all shadow loops: outside of what is still to be written
\* the shadow is already as the call should leave it; a copy still finds every
\* pending expression at its source although it overwrites an overlapping
\* region and creates pages while it reads.  The write iterator of a forward
\* loop, and the read iterator unless it is null, point into a shadow page.
LoopInvariant ==
  /\ op.i <= op.n /\ IsRegion(op.dst, op.n + op.rest) /\ IsRegion(op.src, op.n)
  /\ op.kind = "idle" => op = Idle
  /\ op.kind # "idle" => \A a \in Addr \ Pending : goal[a] = View(sm, a)
  /\ op.cached => pageStart(op.src + op.i) \in sm.pages
  /\ op.kind \in {"copy", "write"} => pageStart(op.dst + op.i) \in sm.pages
  /\ op.kind = "copy" =>
       /\ \A j \in op.i..(op.n - 1) : goal[op.dst + j] = IterView(op.src + j)
       /\ \A j \in op.n..(op.n + op.rest - 1) : goal[op.dst + j] = Null
       /\ op.dst <= op.src \/ op.src + op.n <= op.dst
  /\ op.kind = "copy_backward" =>
       /\ \A j \in 0..(op.i - 1) : goal[op.dst + j] = IterView(op.src + j)
       /\ op.src < op.dst /\ op.rest = 0
  /\ op.kind = "write" =>
       /\ \A j \in op.i..(op.n - 1) : goal[op.dst + j] = op.data[j + 1]
       /\ op.rest = 0 /\ Len(op.data) = op.n /\ ~op.cached

\* Concolic consistency.  Whenever the program runs, every symbolic byte has,
\* under the input of this execution, the value that is in memory.  This is
\* what makes a path constraint built from loaded bytes true of the path that
\* is being executed.
ConcolicConsistency ==
  op = Idle => \A a \in Addr : Agrees(View(sm, a), mem[a])

\* A loaded value and its expression agree byte by byte, whatever the byte
\* order it was read in.
RegisterConsistency ==
  reg.expr # <<>> => /\ Len(reg.expr) = Len(reg.val)
                     /\ \A i \in 1..Len(reg.val) : Eval(reg.expr[i]) = reg.val[i]

\* The inductive invariant behind all of these: the loop invariant, no loop
\* between calls, and consistency of the shadow that the call in progress is
\* going to leave.
IndInv ==
  /\ TypeOK
  /\ LoopInvariant
  /\ call = NoCall => op = Idle
  /\ \A a \in Addr : Agrees(Flat[a], mem[a])
  /\ RegisterConsistency

\* The branch recorded with a path constraint is the one its expression takes
\* under the present input (the backend asserts that a branch that simplifies
\* to a constant was taken accordingly).
PathConstraintsHold ==
  \A i \in DOMAIN pushed : Holds(pushed[i]) = pushed[i].taken

\* "Shadow memory always represents bytes" (assertion of ReadShadowIterator).
ShadowsAreBytes ==
  \A a \in Addr : View(sm, a) \in ByteExpr \cup {Null}

\* Shadow memory behaves like one flat map that each call updates at once.
FlatShadowMemory == INSTANCE FlatShadow WITH flat <- Flat
ImplementsFlatShadow == FlatShadowMemory!FlatSpec

\* Shadow pages are never taken away, and creating one changes no expression
\* that a reader sees: in any step of a loop at most the byte under the write
\* iterator changes.
LoopStepsWriteOneByte ==
  [][/\ sm.pages \subseteq sm'.pages
     /\ \E w \in Addr : \A a \in Addr \ {w} : View(sm', a) = View(sm, a)]_sm

\* Every call returns to the program.
CallsReturn == (call # NoCall) ~> (call = NoCall)
===============================================================================
