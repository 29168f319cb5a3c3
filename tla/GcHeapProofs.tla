---------------------------- MODULE GcHeapProofs ----------------------------
(***************************************************************************)
(* Facts about reachability and about the operations on runtime values,    *)
(* for every address space and every type table.                           *)
(***************************************************************************)
EXTENDS GcHeap, FiniteSetTheorems, TLAPS

(* Reach contains where it starts. *)
LEMMA ReachStart ==
  ASSUME NEW from \in SUBSET Addr, NEW succ
  PROVE  from \subseteq Reach(from, succ)
  BY DEF Reach

(* Reach stays among the addresses. *)
LEMMA ReachAddr ==
  ASSUME NEW from, NEW succ
  PROVE  Reach(from, succ) \in SUBSET Addr
  BY DEF Reach

(* Reach is closed under following pointers. *)
LEMMA ReachClosed ==
  ASSUME NEW from, NEW succ \in [Addr -> SUBSET Addr]
  PROVE  ClosedUnder(Reach(from, succ), succ)
  BY DEF Reach, ClosedUnder

(* Reach is the least such set. *)
LEMMA ReachLeast ==
  ASSUME NEW from, NEW succ,
         NEW S \in SUBSET Addr, from \subseteq S, ClosedUnder(S, succ)
  PROVE  Reach(from, succ) \subseteq S
  BY DEF Reach

-----------------------------------------------------------------------------
LEMMA MarkedAddr ==
  ASSUME NEW r, NEW roots
  PROVE  Marked(r, roots) \in SUBSET Addr
  BY ReachAddr DEF Marked

(* A sweep turns a well-typed runtime into a well-typed runtime. *)
LEMMA SweepReadingType ==
  ASSUME NEW r, IsRuntime(r), NEW roots, NEW words
  PROVE  IsRuntime(SweepReading(r, roots, words))
<1> DEFINE live == Marked(r, roots \cup words)
<1>1. CASE live \subseteq DOMAIN r.heap /\ Wild \notin words
  <2>1. SweepReading(r, roots, words) =
          WithBlocks(r, Restrict(r.heap, live), Restrict(r.mem, live))
    BY <1>1 DEF SweepReading
  <2>2. /\ live \subseteq Addr
        /\ Restrict(r.heap, live) \in [live -> RtType]
        /\ \A a \in live : /\ Restrict(r.heap, live)[a] = r.heap[a]
                           /\ Restrict(r.mem, live)[a] = r.mem[a]
        /\ Restrict(r.mem, live) = [a \in live |-> Restrict(r.mem, live)[a]]
    BY <1>1 DEF IsRuntime, Restrict
  <2> DEFINE heap == Restrict(r.heap, live)
             mem  == Restrict(r.mem, live)
  <2> HIDE DEF live, heap, mem
  <2>3. IsRuntime(WithBlocks(r, heap, mem))
    BY <1>1, <2>2 DEF IsRuntime, WithBlocks, heap, mem
  <2> QED  BY <2>1, <2>3 DEF live, heap, mem
<1>2. CASE ~(live \subseteq DOMAIN r.heap /\ Wild \notin words)
  <2>1. SweepReading(r, roots, words) = [r EXCEPT !.panicked = TRUE]
    BY <1>2 DEF SweepReading
  <2> QED  BY <2>1 DEF IsRuntime
<1> QED  BY <1>1, <1>2

LEMMA SafepointType ==
  ASSUME NEW r, IsRuntime(r), NEW stackRoots, NEW s \in Safepoint(r, stackRoots)
  PROVE  IsRuntime(s)
  BY SweepReadingType DEF Safepoint, Sweep

LEMMA AllocGcType ==
  ASSUME GcHeapAssumption, NEW r, IsRuntime(r), NEW p \in Addr, NEW ty \in RtType
  PROVE  IsRuntime(AllocGc(r, p, ty))
  BY DEF AllocGc, WithBlocks, IsRuntime, Ptr, GcHeapAssumption

LEMMA StoreFieldType ==
  ASSUME NEW r, IsRuntime(r), NEW a \in DOMAIN r.heap,
         NEW f \in PtrFields(r.heap[a]), NEW v \in Ptr
  PROVE  IsRuntime([r EXCEPT !.mem[a][f] = v])
<1> DEFINE mem == [r.mem EXCEPT ![a][f] = v]
<1>1. [r EXCEPT !.mem[a][f] = v] = WithBlocks(r, r.heap, mem)
  BY DEF IsRuntime, WithBlocks
<1>2. /\ mem = [b \in DOMAIN r.heap |-> mem[b]]
      /\ \A b \in DOMAIN r.heap : mem[b] \in [PtrFields(r.heap[b]) -> Ptr]
  BY DEF IsRuntime
<1> HIDE DEF mem
<1> QED  BY <1>1, <1>2 DEF IsRuntime, WithBlocks

LEMMA RefcountType ==
  ASSUME NEW r, IsRuntime(r), NEW p
  PROVE  /\ Refcount(r, p) \in Nat
         /\ Refcount(r, p) = 0 <=> p \notin DOMAIN r.extern_refcount
  BY DEF Refcount, IsRuntime

LEMMA RefcountIncrementType ==
  ASSUME NEW r, IsRuntime(r), NEW p \in Addr \cup {Null}
  PROVE  IsRuntime(RefcountIncrement(r, p))
  BY RefcountType DEF RefcountIncrement, IsRuntime

LEMMA RefcountDecrementType ==
  ASSUME NEW r, IsRuntime(r), NEW p, NEW stackRoots,
         NEW s \in RefcountDecrement(r, p, stackRoots)
  PROVE  IsRuntime(s)
<1>1. CASE Refcount(r, p) = 0
  BY <1>1 DEF RefcountDecrement
<1>2. CASE Refcount(r, p) = 1
  <2> DEFINE t == [r EXCEPT !.extern_refcount =
                     Restrict(r.extern_refcount, DOMAIN r.extern_refcount \ {p})]
  <2>1. s \in Safepoint(t, stackRoots)
    BY <1>2 DEF RefcountDecrement
  <2>2. IsRuntime(t)
    BY DEF IsRuntime, Restrict
  <2> QED  BY <2>1, <2>2, SafepointType
<1>3. CASE Refcount(r, p) \notin {0, 1}
  <2>1. s = [r EXCEPT !.extern_refcount[p] = @ - 1]
    BY <1>3 DEF RefcountDecrement
  <2>2. Refcount(r, p) \in Nat \ {0, 1} /\ p \in DOMAIN r.extern_refcount
    BY <1>3, RefcountType
  <2>3. r.extern_refcount[p] - 1 \in Nat \ {0}
    BY <2>2 DEF Refcount
  <2> QED  BY <2>1, <2>2, <2>3 DEF IsRuntime
<1> QED  BY <1>1, <1>2, <1>3

-----------------------------------------------------------------------------
(* Sweeping a heap in which no pointer dangles.                            *)

LEMMA LinkedType ==
  ASSUME NEW r
  PROVE  Linked(r) \in [Addr -> SUBSET Addr] /\ Traced(r) \in [Addr -> SUBSET Addr]
  BY DEF Linked, Traced

(* The program reaches allocated blocks only. *)
LEMMA ReachableLive ==
  ASSUME NEW r, IsRuntime(r), HeapClosed(r),
         NEW held, held \cap Addr \subseteq DOMAIN r.heap
  PROVE  ReachableFrom(r, held) \subseteq DOMAIN r.heap
<1>1. DOMAIN r.heap \in SUBSET Addr
  BY DEF IsRuntime
<1>2. ClosedUnder(DOMAIN r.heap, Linked(r))
  BY <1>1 DEF ClosedUnder, Linked, HeapClosed
<1> QED  BY <1>1, <1>2, ReachLeast DEF ReachableFrom

LEMMA TracedInRange ==
  ASSUME NEW r, IsRuntime(r), NEW a \in DOMAIN r.heap
  PROVE  TracedWords(r, a) \subseteq Range(r.mem[a])
  BY DEF TracedWords, gc_ptr_fields, Range, IsRuntime

(* Marking meets allocated blocks only. *)
LEMMA MarkedLive ==
  ASSUME NEW r, IsRuntime(r), HeapClosed(r),
         NEW roots, roots \cap Addr \subseteq DOMAIN r.heap
  PROVE  Marked(r, roots) \subseteq DOMAIN r.heap
<1>1. DOMAIN r.heap \in SUBSET Addr
  BY DEF IsRuntime
<1>2. ClosedUnder(DOMAIN r.heap, Traced(r))
  BY <1>1, TracedInRange DEF ClosedUnder, Traced, HeapClosed
<1> QED  BY <1>1, <1>2, ReachLeast DEF Marked

(* Fewer roots mark fewer blocks and read fewer words. *)
LEMMA ReadsWildMono ==
  ASSUME NEW r, NEW s, r.heap = s.heap, r.mem = s.mem,
         NEW few, NEW many, few \cap Addr \subseteq many, Wild \notin few,
         ~ReadsWild(s, many)
  PROVE  ~ReadsWild(r, few)
<1>1. Traced(r) = Traced(s) /\ \A a : TracedWords(r, a) = TracedWords(s, a)
  BY DEF Traced, TracedWords
<1>2. few \cap Addr \subseteq Marked(s, many)
  BY ReachStart DEF Marked
<1>3. Marked(r, few) \subseteq Marked(s, many)
  <2>1. ClosedUnder(Marked(s, many), Traced(s)) /\ Marked(s, many) \in SUBSET Addr
    BY ReachClosed, ReachAddr, LinkedType DEF Marked
  <2> QED  BY <1>1, <1>2, <2>1, ReachLeast DEF Marked
<1> QED  BY <1>1, <1>3 DEF ReadsWild

(* If the type table names every pointer field, marking follows them all. *)
LEMMA TracesAll ==
  ASSUME NEW r, IsRuntime(r), \A ty \in RtType : NestedFields[ty] = {},
         NEW a \in DOMAIN r.heap
  PROVE  TracedWords(r, a) = Range(r.mem[a])
  BY DEF TracedWords, gc_ptr_fields, Range, IsRuntime

(* What a safepoint may do in such a heap: nothing is touched but blocks   *)
(* that no root reaches.                                                   *)
LEMMA SafepointSafe ==
  ASSUME NEW r, IsRuntime(r), HeapClosed(r), NEW stackRoots,
         (stackRoots \cup DOMAIN r.extern_refcount) \cap Addr \subseteq DOMAIN r.heap,
         ~ReadsWild(r, stackRoots \cup DOMAIN r.extern_refcount),
         \A ty \in RtType : NestedFields[ty] = {},
         NEW s \in Safepoint(r, stackRoots)
  PROVE  /\ s.panicked = r.panicked
         /\ s.extern_refcount = r.extern_refcount
         /\ HeapClosed(s)
         /\ (stackRoots \cup DOMAIN r.extern_refcount) \cap Addr \subseteq DOMAIN s.heap
<1> DEFINE roots == stackRoots \cup DOMAIN r.extern_refcount
           live  == Marked(r, roots)
<1>1. CASE s = r
  BY <1>1
<1>2. CASE s # r
  <2>1. s = SweepReading(r, roots, {})
    BY <1>2 DEF Safepoint, Sweep
  <2>2. live \subseteq DOMAIN r.heap /\ roots \cup {} = roots
    BY MarkedLive
  <2>3. s = WithBlocks(r, Restrict(r.heap, live), Restrict(r.mem, live))
    BY <2>1, <2>2 DEF SweepReading
  <2>4. /\ s.panicked = r.panicked
        /\ s.extern_refcount = r.extern_refcount
        /\ DOMAIN s.heap = live
        /\ \A a \in live : s.mem[a] = r.mem[a]
    BY <2>3 DEF WithBlocks, Restrict
  <2>5. roots \cap Addr \subseteq live
    BY ReachStart DEF Marked
  <2>6. ASSUME NEW a \in live
        PROVE  Range(r.mem[a]) \cap Addr \subseteq live
    <3>1. ClosedUnder(live, Traced(r))
      BY ReachClosed, LinkedType DEF Marked
    <3>2. a \in DOMAIN r.heap /\ a \in Addr
      BY <2>2, MarkedAddr
    <3>3. Traced(r)[a] = Range(r.mem[a]) \cap Addr
      BY <3>2, TracesAll DEF Traced
    <3> QED  BY <3>1, <3>3 DEF ClosedUnder
  <2> HIDE DEF live
  <2>7. HeapClosed(s)
    BY <2>4, <2>6 DEF HeapClosed
  <2> QED  BY <2>4, <2>5, <2>7
<1> QED  BY <1>1, <1>2

-----------------------------------------------------------------------------
(* The other operations on such a heap.                                    *)

LEMMA StoreFieldSafe ==
  ASSUME NEW r, IsRuntime(r), HeapClosed(r), NEW a \in DOMAIN r.heap,
         NEW f \in PtrFields(r.heap[a]), NEW v, v \in Addr => v \in DOMAIN r.heap
  PROVE  LET s == [r EXCEPT !.mem[a][f] = v]
         IN  /\ HeapClosed(s)
             /\ s.heap = r.heap
             /\ s.extern_refcount = r.extern_refcount
             /\ s.panicked = r.panicked
<1> DEFINE mem == [r.mem EXCEPT ![a][f] = v]
<1>1. [r EXCEPT !.mem[a][f] = v] = WithBlocks(r, r.heap, mem)
  BY DEF IsRuntime, WithBlocks
<1>2. \A b \in DOMAIN r.heap : Range(mem[b]) \subseteq Range(r.mem[b]) \cup {v}
  BY DEF IsRuntime, Range
<1> HIDE DEF mem
<1> QED  BY <1>1, <1>2 DEF WithBlocks, HeapClosed

LEMMA AllocGcSafe ==
  ASSUME GcHeapAssumption, NEW r, IsRuntime(r), HeapClosed(r),
         NEW p \in Addr, p \notin DOMAIN r.heap, NEW ty
  PROVE  LET s == AllocGc(r, p, ty)
         IN  /\ HeapClosed(s)
             /\ DOMAIN s.heap = DOMAIN r.heap \cup {p}
             /\ \A a \in DOMAIN r.heap : s.heap[a] = r.heap[a] /\ s.mem[a] = r.mem[a]
             /\ s.extern_refcount = r.extern_refcount
             /\ s.panicked = r.panicked
<1> DEFINE s == AllocGc(r, p, ty)
<1>1. /\ DOMAIN s.heap = DOMAIN r.heap \cup {p}
      /\ \A a \in DOMAIN r.heap : s.heap[a] = r.heap[a] /\ s.mem[a] = r.mem[a]
      /\ s.mem[p] = [f \in PtrFields(ty) |-> Wild]
      /\ s.extern_refcount = r.extern_refcount
      /\ s.panicked = r.panicked
  BY DEF AllocGc, WithBlocks
<1>2. Range(s.mem[p]) \cap Addr = {}
  BY <1>1, GcHeapAssumption DEF Range
<1> HIDE DEF s
<1>3. HeapClosed(s)
  BY <1>1, <1>2 DEF HeapClosed
<1> QED  BY <1>1, <1>3 DEF s

LEMMA RefcountIncrementExact ==
  ASSUME NEW r, IsRuntime(r), NEW p
  PROVE  LET s == RefcountIncrement(r, p)
         IN  /\ s.heap = r.heap /\ s.mem = r.mem /\ s.panicked = r.panicked
             /\ \A a : Refcount(s, a) = IF a = p THEN Refcount(r, a) + 1
                                                 ELSE Refcount(r, a)
  BY DEF RefcountIncrement, Refcount, IsRuntime

(* Dropping the last handle of an address takes it out of the table, and   *)
(* what is left of the table is what the sweep uses.                       *)
LEMMA RemoveCountExact ==
  ASSUME NEW r, IsRuntime(r), NEW p
  PROVE  LET s == [r EXCEPT !.extern_refcount =
                     Restrict(r.extern_refcount, DOMAIN r.extern_refcount \ {p})]
         IN  /\ IsRuntime(s)
             /\ s.heap = r.heap /\ s.mem = r.mem /\ s.panicked = r.panicked
             /\ \A a : Refcount(s, a) = IF a = p THEN 0 ELSE Refcount(r, a)
  BY DEF Refcount, IsRuntime, Restrict

LEMMA LowerCountExact ==
  ASSUME NEW r, IsRuntime(r), NEW p, Refcount(r, p) # 0
  PROVE  LET s == [r EXCEPT !.extern_refcount[p] = @ - 1]
         IN  /\ s.heap = r.heap /\ s.mem = r.mem /\ s.panicked = r.panicked
             /\ \A a : Refcount(s, a) = IF a = p THEN Refcount(r, a) - 1
                                                 ELSE Refcount(r, a)
  BY DEF Refcount, IsRuntime

LEMMA RefcountDecrementSafe ==
  ASSUME NEW r, IsRuntime(r), HeapClosed(r), NEW stackRoots,
         (stackRoots \cup DOMAIN r.extern_refcount) \cap Addr \subseteq DOMAIN r.heap,
         ~ReadsWild(r, stackRoots \cup DOMAIN r.extern_refcount),
         \A ty \in RtType : NestedFields[ty] = {},
         NEW p, Refcount(r, p) # 0,
         NEW s \in RefcountDecrement(r, p, stackRoots)
  PROVE  /\ s.panicked = r.panicked
         /\ HeapClosed(s)
         /\ \A a : Refcount(s, a) = IF a = p THEN Refcount(r, a) - 1
                                             ELSE Refcount(r, a)
         /\ (stackRoots \cup DOMAIN s.extern_refcount) \cap Addr \subseteq DOMAIN s.heap
<1>1. CASE Refcount(r, p) = 1
  <2> DEFINE t == [r EXCEPT !.extern_refcount =
                     Restrict(r.extern_refcount, DOMAIN r.extern_refcount \ {p})]
  <2>1. s \in Safepoint(t, stackRoots)
    BY <1>1 DEF RefcountDecrement
  <2>2. /\ IsRuntime(t)
        /\ t.heap = r.heap /\ t.mem = r.mem /\ t.panicked = r.panicked
        /\ \A a : Refcount(t, a) = IF a = p THEN 0 ELSE Refcount(r, a)
    BY RemoveCountExact
  <2>3. DOMAIN t.extern_refcount \subseteq DOMAIN r.extern_refcount
    BY DEF IsRuntime, Restrict
  <2> HIDE DEF t
  <2>4. HeapClosed(t)
    BY <2>2 DEF HeapClosed
  <2>5. ~ReadsWild(t, stackRoots \cup DOMAIN t.extern_refcount)
    <3>1. Wild \notin stackRoots \cup DOMAIN t.extern_refcount
      BY <2>3 DEF ReadsWild
    <3> QED  BY <2>2, <2>3, <3>1, ReadsWildMono
  <2>6. /\ s.panicked = t.panicked
        /\ s.extern_refcount = t.extern_refcount
        /\ HeapClosed(s)
        /\ (stackRoots \cup DOMAIN t.extern_refcount) \cap Addr \subseteq DOMAIN s.heap
    <3>1. (stackRoots \cup DOMAIN t.extern_refcount) \cap Addr \subseteq DOMAIN t.heap
      BY <2>2, <2>3
    <3> QED  BY <2>1, <2>2, <2>4, <2>5, <3>1, SafepointSafe
  <2>7. \A a : Refcount(s, a) = IF a = p THEN Refcount(r, a) - 1
                                         ELSE Refcount(r, a)
    BY <1>1, <2>2, <2>6 DEF Refcount
  <2> QED  BY <2>2, <2>6, <2>7
<1>2. CASE Refcount(r, p) # 1
  <2>1. s = [r EXCEPT !.extern_refcount[p] = @ - 1]
    BY <1>2 DEF RefcountDecrement
  <2>2. DOMAIN s.extern_refcount = DOMAIN r.extern_refcount
    BY <2>1 DEF IsRuntime
  <2>3. /\ s.heap = r.heap /\ s.mem = r.mem /\ s.panicked = r.panicked
        /\ \A a : Refcount(s, a) = IF a = p THEN Refcount(r, a) - 1
                                            ELSE Refcount(r, a)
    BY <2>1, LowerCountExact
  <2> QED  BY <2>2, <2>3 DEF HeapClosed
<1> QED  BY <1>1, <1>2

-----------------------------------------------------------------------------
(* Safepoints either do nothing or free exactly the garbage.               *)

LEMMA LinkedIsTraced ==
  ASSUME NEW r, IsRuntime(r), \A ty \in RtType : NestedFields[ty] = {}
  PROVE  Linked(r) = Traced(r)
<1>1. \A a \in DOMAIN r.heap : TracedWords(r, a) = Range(r.mem[a])
  BY TracesAll
<1> QED  BY <1>1 DEF Linked, Traced

LEMMA SweepExact ==
  ASSUME NEW r, IsRuntime(r), HeapClosed(r), NEW stackRoots,
         (stackRoots \cup DOMAIN r.extern_refcount) \cap Addr \subseteq DOMAIN r.heap,
         ~ReadsWild(r, stackRoots \cup DOMAIN r.extern_refcount),
         \A ty \in RtType : NestedFields[ty] = {},
         NEW held,
         held \cap Addr = (stackRoots \cup DOMAIN r.extern_refcount) \cap Addr,
         NEW s \in Safepoint(r, stackRoots), s # r
  PROVE  DOMAIN s.heap = ReachableFrom(s, held)
<1> DEFINE roots == stackRoots \cup DOMAIN r.extern_refcount
           live  == Marked(r, roots)
<1>1. s = SweepReading(r, roots, {})
  BY DEF Safepoint, Sweep
<1>2. live \subseteq DOMAIN r.heap /\ roots \cup {} = roots
  BY MarkedLive
<1>3. s = WithBlocks(r, Restrict(r.heap, live), Restrict(r.mem, live))
  BY <1>1, <1>2 DEF SweepReading
<1>4. DOMAIN s.heap = live /\ \A a \in live : s.mem[a] = r.mem[a]
  BY <1>3 DEF WithBlocks, Restrict
<1>5. live \in SUBSET Addr /\ held \cap Addr \subseteq live /\ ClosedUnder(live, Linked(r))
  BY MarkedAddr, ReachStart, ReachClosed, LinkedType, LinkedIsTraced DEF Marked
<1>6. live = Reach(held \cap Addr, Linked(r))
  BY LinkedIsTraced DEF Marked
<1> HIDE DEF live
<1>7. \A a \in live : Linked(s)[a] = Linked(r)[a]
  BY <1>2, <1>4, <1>5 DEF Linked
<1> DEFINE seen == Reach(held \cap Addr, Linked(s))
<1>8. seen \subseteq live
  BY <1>5, <1>7, ReachLeast DEF ClosedUnder
<1>9. held \cap Addr \subseteq seen /\ ClosedUnder(seen, Linked(s)) /\ seen \in SUBSET Addr
  BY ReachStart, ReachClosed, ReachAddr, LinkedType
<1> HIDE DEF seen
<1>10. live \subseteq seen
  <2>1. ClosedUnder(seen, Linked(r))
    BY <1>7, <1>8, <1>9 DEF ClosedUnder
  <2> QED  BY <1>6, <1>9, <2>1, ReachLeast
<1> QED  BY <1>4, <1>8, <1>10 DEF ReachableFrom, seen

(* A safepoint leaves the blocks it keeps as they are. *)
LEMMA SafepointKeeps ==
  ASSUME NEW r, IsRuntime(r), NEW stackRoots, NEW s \in Safepoint(r, stackRoots)
  PROVE  /\ DOMAIN s.heap \subseteq DOMAIN r.heap
         /\ \A a \in DOMAIN s.heap : s.heap[a] = r.heap[a] /\ s.mem[a] = r.mem[a]
<1>1. ASSUME NEW roots, NEW words, s = SweepReading(r, roots, words)
      PROVE  /\ DOMAIN s.heap \subseteq DOMAIN r.heap
             /\ \A a \in DOMAIN s.heap : s.heap[a] = r.heap[a] /\ s.mem[a] = r.mem[a]
  <2> DEFINE live == Marked(r, roots \cup words)
  <2>1. CASE live \subseteq DOMAIN r.heap /\ Wild \notin words
    <3>1. s = WithBlocks(r, Restrict(r.heap, live), Restrict(r.mem, live))
      BY <1>1, <2>1 DEF SweepReading
    <3> HIDE DEF live
    <3> QED  BY <2>1, <3>1 DEF WithBlocks, Restrict
  <2>2. CASE ~(live \subseteq DOMAIN r.heap /\ Wild \notin words)
    <3>1. s = [r EXCEPT !.panicked = TRUE]
      BY <1>1, <2>2 DEF SweepReading
    <3> QED  BY <3>1 DEF IsRuntime
  <2> QED  BY <2>1, <2>2
<1>2. CASE s = r
  BY <1>2
<1>3. CASE s # r
  <2>1. PICK words : s = SweepReading(r, stackRoots \cup DOMAIN r.extern_refcount, words)
    BY <1>3 DEF Safepoint, Sweep
  <2> QED  BY <1>1, <2>1
<1> QED  BY <1>2, <1>3

(* So does a decrement. *)
LEMMA DecrementKeeps ==
  ASSUME NEW r, IsRuntime(r), NEW p, NEW stackRoots,
         NEW s \in RefcountDecrement(r, p, stackRoots)
  PROVE  \A a \in DOMAIN s.heap : /\ a \in DOMAIN r.heap
                                  /\ s.heap[a] = r.heap[a] /\ s.mem[a] = r.mem[a]
<1>1. CASE Refcount(r, p) = 0
  BY <1>1 DEF RefcountDecrement
<1>2. CASE Refcount(r, p) = 1
  <2> DEFINE t == [r EXCEPT !.extern_refcount =
                     Restrict(r.extern_refcount, DOMAIN r.extern_refcount \ {p})]
  <2>1. s \in Safepoint(t, stackRoots)
    BY <1>2 DEF RefcountDecrement
  <2>2. IsRuntime(t) /\ t.heap = r.heap /\ t.mem = r.mem
    BY RemoveCountExact
  <2> HIDE DEF t
  <2> QED  BY <2>1, <2>2, SafepointKeeps
<1>3. CASE Refcount(r, p) \notin {0, 1}
  <2>1. s = [r EXCEPT !.extern_refcount[p] = @ - 1]
    BY <1>3 DEF RefcountDecrement
  <2>2. s.heap = r.heap /\ s.mem = r.mem
    BY <1>3, <2>1, LowerCountExact
  <2> QED  BY <2>2
<1> QED  BY <1>1, <1>2, <1>3

(* A decrement frees nothing, or exactly what the roots that are left do   *)
(* not reach.                                                              *)
LEMMA DecrementExact ==
  ASSUME NEW r, IsRuntime(r), HeapClosed(r), NEW stackRoots,
         (stackRoots \cup DOMAIN r.extern_refcount) \cap Addr \subseteq DOMAIN r.heap,
         ~ReadsWild(r, stackRoots \cup DOMAIN r.extern_refcount),
         \A ty \in RtType : NestedFields[ty] = {},
         NEW p, NEW s \in RefcountDecrement(r, p, stackRoots)
  PROVE  \/ s.heap = r.heap
         \/ DOMAIN s.heap = ReachableFrom(s, stackRoots \cup DOMAIN s.extern_refcount)
<1>1. CASE Refcount(r, p) = 1
  <2> DEFINE t == [r EXCEPT !.extern_refcount =
                     Restrict(r.extern_refcount, DOMAIN r.extern_refcount \ {p})]
  <2>1. s \in Safepoint(t, stackRoots)
    BY <1>1 DEF RefcountDecrement
  <2>2. IsRuntime(t) /\ t.heap = r.heap /\ t.mem = r.mem
    BY RemoveCountExact
  <2>3. DOMAIN t.extern_refcount \subseteq DOMAIN r.extern_refcount
    BY DEF IsRuntime, Restrict
  <2> HIDE DEF t
  <2> DEFINE roots == stackRoots \cup DOMAIN t.extern_refcount
  <2>4. HeapClosed(t) /\ roots \cap Addr \subseteq DOMAIN t.heap
    BY <2>2, <2>3 DEF HeapClosed
  <2>5. ~ReadsWild(t, roots)
    <3>1. Wild \notin roots
      BY <2>3 DEF ReadsWild
    <3> QED  BY <2>2, <2>3, <3>1, ReadsWildMono
  <2>6. s.extern_refcount = t.extern_refcount
    BY <2>1, <2>2, <2>4, <2>5, SafepointSafe
  <2>7. s = t \/ DOMAIN s.heap = ReachableFrom(s, roots)
    BY <2>1, <2>2, <2>4, <2>5, SweepExact
  <2> QED  BY <2>2, <2>6, <2>7
<1>2. CASE Refcount(r, p) # 1
  <2>1. CASE Refcount(r, p) = 0
    BY <2>1 DEF RefcountDecrement
  <2>2. CASE Refcount(r, p) # 0
    <3>1. s = [r EXCEPT !.extern_refcount[p] = @ - 1]
      BY <1>2, <2>2 DEF RefcountDecrement
    <3> QED  BY <2>2, <3>1, LowerCountExact
  <2> QED  BY <2>1, <2>2
<1> QED  BY <1>1, <1>2

-----------------------------------------------------------------------------
(* Counting the variables of H that hold an address.                       *)

Holders(H, u, a) == {h \in H : u[h] = a}

LEMMA HoldersCount ==
  ASSUME NEW H, IsFiniteSet(H), NEW u, NEW a
  PROVE  /\ IsFiniteSet(Holders(H, u, a))
         /\ Cardinality(Holders(H, u, a)) \in Nat
         /\ Cardinality(Holders(H, u, a)) = 0 <=> \A h \in H : u[h] # a
<1>1. Holders(H, u, a) \in SUBSET H
  BY DEF Holders
<1>2. IsFiniteSet(Holders(H, u, a))
  BY <1>1, FS_Subset
<1> QED  BY <1>2, FS_CardinalityType, FS_EmptySet DEF Holders

(* h gives up what it held for something else. *)
LEMMA HoldersMove ==
  ASSUME NEW H, IsFiniteSet(H), NEW u, NEW w, NEW h \in H, u[h] # w[h],
         \A g \in H \ {h} : w[g] = u[g], NEW a
  PROVE  Cardinality(Holders(H, w, a)) =
           IF a = w[h] THEN Cardinality(Holders(H, u, a)) + 1
           ELSE IF a = u[h] THEN Cardinality(Holders(H, u, a)) - 1
           ELSE Cardinality(Holders(H, u, a))
<1>1. /\ IsFiniteSet(Holders(H, u, a)) /\ IsFiniteSet(Holders(H, w, a))
      /\ Cardinality(Holders(H, u, a)) \in Nat
  BY HoldersCount
<1>2. CASE a = w[h]
  <2>1. h \notin Holders(H, u, a) /\ Holders(H, w, a) = Holders(H, u, a) \cup {h}
    BY <1>2 DEF Holders
  <2> QED  BY <1>1, <1>2, <2>1, FS_AddElement
<1>3. CASE a # w[h] /\ a = u[h]
  <2>1. h \in Holders(H, u, a) /\ Holders(H, w, a) = Holders(H, u, a) \ {h}
    BY <1>3 DEF Holders
  <2> QED  BY <1>1, <1>3, <2>1, FS_RemoveElement
<1>4. CASE a # w[h] /\ a # u[h]
  <2>1. Holders(H, w, a) = Holders(H, u, a)
    BY <1>4 DEF Holders
  <2> QED  BY <1>4, <2>1
<1> QED  BY <1>2, <1>3, <1>4

(* The keys of a table of counts are the addresses that variables hold. *)
LEMMA CountedHolders ==
  ASSUME NEW r, IsRuntime(r), NEW H, IsFiniteSet(H), NEW S, NEW u \in [H -> S],
         \A a \in Addr : Refcount(r, a) = Cardinality(Holders(H, u, a))
  PROVE  DOMAIN r.extern_refcount \cap Addr = Range(u) \cap Addr
<1> SUFFICES ASSUME NEW a \in Addr
             PROVE  a \in DOMAIN r.extern_refcount <=> a \in Range(u)
  OBVIOUS
<1>1. a \in DOMAIN r.extern_refcount <=> Refcount(r, a) # 0
  BY RefcountType
<1> QED  BY <1>1, HoldersCount DEF Range

=============================================================================
