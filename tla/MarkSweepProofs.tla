--------------------------- MODULE MarkSweepProofs --------------------------
(***************************************************************************)
(* The loops of sweep are correct for every heap, every type table and     *)
(* every order in which the hash tables yield their entries.               *)
(***************************************************************************)
EXTENDS MarkSweep, GcHeapProofs, SequenceTheorems, FiniteSetTheorems

(* What marking starts from. *)
Roots == Range(slots) \cup DOMAIN before.extern_refcount

(* The runtime sweep was called on: nothing in it dangles. *)
Begun ==
  /\ HeapClosed(before) /\ ~before.panicked
  /\ Roots \subseteq DOMAIN before.heap \cup {Null}
  /\ DOMAIN before.extern_refcount \subseteq Addr
  /\ phase \in {"roots", "mark"} => rt = before

(* Every root is on the visit stack or has yet to be pushed. *)
Collecting ==
  phase = "roots" => reachable = {} /\ Range(visit_stack) \cup pending = Roots

(* Every root is marked or still to visit; if no unwritten word is read,   *)
(* nothing is visited that the roots do not reach.                         *)
Marking ==
  phase = "mark" =>
    /\ reachable \subseteq DOMAIN before.heap
    /\ Roots \subseteq reachable \cup Range(visit_stack) \cup {Null}
    /\ ~ReadsWild(before, Roots) =>
         reachable \cup Range(visit_stack) \subseteq Marked(before, Roots) \cup {Null}

(* A set that marking may end with. *)
Answer(S) ==
  /\ S \subseteq DOMAIN before.heap
  /\ Roots \subseteq S \cup {Null}
  /\ ClosedUnder(S, Traced(before))
  /\ ~ReadsWild(before, Roots) => S \subseteq Marked(before, Roots)

Keeping(kept) ==
  WithBlocks(before, Restrict(before.heap, kept), Restrict(before.mem, kept))

(* The blocks that are marked or not looked at yet are still there. *)
Retaining ==
  phase = "retain" =>
    /\ Answer(reachable)
    /\ pending \subseteq DOMAIN before.heap
    /\ rt = Keeping(reachable \cup pending)

Inv ==
  /\ TypeOK
  /\ Begun
  /\ Collecting
  /\ Marking
  /\ NothingForgotten
  /\ Retaining
  /\ ComputesSweep

-----------------------------------------------------------------------------
(* Sequences as stacks.                                                    *)

LEMMA SeqRange ==
  ASSUME NEW S, NEW s \in Seq(S)
  PROVE  Range(s) \subseteq S
<1>1. \A i \in DOMAIN s : s[i] \in S
  OBVIOUS
<1> QED  BY <1>1 DEF Range

LEMMA SeqOfWords ==
  ASSUME NEW S, NEW n \in Nat, NEW s \in [1..n -> S]
  PROVE  s \in Seq(S)
  OBVIOUS

LEMMA PushRange ==
  ASSUME NEW S, NEW s \in Seq(S), NEW e \in S
  PROVE  Append(s, e) \in Seq(S) /\ Range(Append(s, e)) = Range(s) \cup {e}
<1>1. /\ Append(s, e) \in Seq(S)
      /\ DOMAIN Append(s, e) = 1..(Len(s) + 1)
      /\ DOMAIN s = 1..Len(s) /\ Len(s) \in Nat
      /\ \A i \in 1..Len(s) : Append(s, e)[i] = s[i]
      /\ Append(s, e)[Len(s) + 1] = e
  OBVIOUS
<1> QED  BY <1>1 DEF Range

LEMMA PopRange ==
  ASSUME NEW S, NEW s \in Seq(S), s # << >>
  PROVE  LET top  == s[Len(s)]
             rest == SubSeq(s, 1, Len(s) - 1)
         IN  /\ top \in S /\ rest \in Seq(S)
             /\ Range(s) = Range(rest) \cup {top}
<1> DEFINE top  == s[Len(s)]
           rest == SubSeq(s, 1, Len(s) - 1)
<1>1. Len(s) \in Nat \ {0} /\ DOMAIN s = 1..Len(s)
  OBVIOUS
<1>2. /\ rest \in Seq(S) /\ DOMAIN rest = 1..(Len(s) - 1)
      /\ \A i \in 1..(Len(s) - 1) : rest[i] = s[i]
  BY <1>1
<1> HIDE DEF rest
<1>3. Range(s) = Range(rest) \cup {top}
  BY <1>1, <1>2 DEF Range
<1>4. top \in S
  BY <1>1
<1> QED  BY <1>2, <1>3, <1>4 DEF rest

LEMMA ConcatRange ==
  ASSUME NEW S, NEW s \in Seq(S), NEW t \in Seq(S)
  PROVE  s \o t \in Seq(S) /\ Range(s \o t) = Range(s) \cup Range(t)
<1>1. /\ s \o t \in Seq(S)
      /\ DOMAIN (s \o t) = 1..(Len(s) + Len(t))
      /\ DOMAIN s = 1..Len(s) /\ DOMAIN t = 1..Len(t)
      /\ Len(s) \in Nat /\ Len(t) \in Nat
      /\ \A i \in 1..Len(s) : (s \o t)[i] = s[i]
      /\ \A i \in 1..Len(t) : (s \o t)[Len(s) + i] = t[i]
  OBVIOUS
<1>2. \A i \in 1..(Len(s) + Len(t)) :
         i \in 1..Len(s) \/ (i - Len(s) \in 1..Len(t) /\ i = Len(s) + (i - Len(s)))
  BY <1>1
<1>3. Range(s \o t) \subseteq Range(s) \cup Range(t)
  BY <1>1, <1>2 DEF Range
<1>4. /\ \A i \in 1..Len(s) : i \in 1..(Len(s) + Len(t))
      /\ \A i \in 1..Len(t) : Len(s) + i \in 1..(Len(s) + Len(t))
  BY <1>1
<1>5. Range(s) \cup Range(t) \subseteq Range(s \o t)
  <2>1. ASSUME NEW i \in DOMAIN s  PROVE s[i] \in Range(s \o t)
    BY <1>1, <1>4 DEF Range
  <2>2. ASSUME NEW i \in DOMAIN t  PROVE t[i] \in Range(s \o t)
    BY <1>1, <1>4 DEF Range
  <2> QED  BY <2>1, <2>2 DEF Range
<1> QED  BY <1>1, <1>3, <1>5

-----------------------------------------------------------------------------
(* The runtime sweep is called on.                                         *)

LEMMA NilRange == Range(<< >>) = {}
  BY DEF Range

LEMMA MemsType ==
  ASSUME NEW heap \in Heaps, NEW mem \in Mems(heap),
         NEW counted \in SUBSET DOMAIN heap,
         NEW r, r = [heap |-> heap, mem |-> mem, panicked |-> FALSE,
                     extern_refcount |-> [a \in counted |-> 1]]
  PROVE  /\ IsRuntime(r) /\ HeapClosed(r)
         /\ DOMAIN heap \subseteq Addr
         /\ DOMAIN r.extern_refcount = counted
<1>1. DOMAIN heap \subseteq Addr /\ heap \in [DOMAIN heap -> RtType]
  BY DEF Heaps
<1>2. mem = [a \in DOMAIN heap |-> mem[a]]
  BY DEF Mems
<1>3. ASSUME NEW a \in DOMAIN heap
      PROVE  mem[a] \in [PtrFields(heap[a]) -> Ptr]
  <2>1. PICK ty \in RtType : mem[a] \in [PtrFields(ty) -> Contents]
    BY DEF Mems
  <2>2. DOMAIN mem[a] = PtrFields(heap[a])
    BY DEF Mems
  <2> QED  BY <2>1, <2>2, MarkSweepAssumption
<1>4. \A a \in DOMAIN heap : Range(mem[a]) \cap Addr \subseteq DOMAIN heap
  BY DEF Mems
<1> QED  BY <1>1, <1>2, <1>3, <1>4 DEF IsRuntime, HeapClosed

LEMMA InitInv == Init => Inv
<1> SUFFICES ASSUME Init PROVE Inv
  OBVIOUS
<1>1. PICK heap \in Heaps :
      \E mem \in Mems(heap), counted \in SUBSET DOMAIN heap, n \in 0..MaxRoots :
        /\ rt = [heap |-> heap, mem |-> mem, panicked |-> FALSE,
                 extern_refcount |-> [a \in counted |-> 1]]
        /\ before = rt
        /\ slots \in [1..n -> DOMAIN heap \cup {Null}]
        /\ visit_stack = slots
        /\ reachable = {}
        /\ pending = counted
        /\ phase = "roots"
  BY DEF Init
<1>2. PICK mem \in Mems(heap), counted \in SUBSET DOMAIN heap, n \in 0..MaxRoots :
        /\ rt = [heap |-> heap, mem |-> mem, panicked |-> FALSE,
                 extern_refcount |-> [a \in counted |-> 1]]
        /\ before = rt
        /\ slots \in [1..n -> DOMAIN heap \cup {Null}]
        /\ visit_stack = slots
        /\ reachable = {}
        /\ pending = counted
        /\ phase = "roots"
  BY <1>1
<1>3. /\ IsRuntime(rt) /\ HeapClosed(rt)
      /\ DOMAIN heap \subseteq Addr
      /\ DOMAIN rt.extern_refcount = counted
  BY <1>2, MemsType
<1>4. slots \in Seq(Ptr) /\ Range(slots) \subseteq DOMAIN heap \cup {Null}
  <2>1. n \in Nat
    BY <1>2, MarkSweepAssumption
  <2>2. slots \in Seq(DOMAIN heap \cup {Null})
    BY <1>2, <2>1
  <2>3. DOMAIN heap \cup {Null} \subseteq Ptr
    BY <1>3 DEF Ptr
  <2> QED  BY <2>2, <2>3, SeqRange
<1>5. TypeOK
  BY <1>2, <1>3, <1>4 DEF TypeOK
<1>6. Begun
  BY <1>2, <1>3, <1>4 DEF Begun, Roots
<1>7. Collecting
  BY <1>2, <1>3 DEF Collecting, Roots
<1> QED
  BY <1>2, <1>5, <1>6, <1>7
     DEF Inv, Marking, NothingForgotten, Retaining, ComputesSweep

-----------------------------------------------------------------------------
(* The roots.                                                              *)

LEMMA PushCountedInv ==
  ASSUME Inv, NEW p \in Addr, PushCounted(p)
  PROVE  Inv'
<1>1. p \in Ptr /\ visit_stack \in Seq(Ptr)
  BY DEF Ptr, Inv, TypeOK
<1>2. /\ visit_stack' \in Seq(Ptr)
      /\ Range(visit_stack') = Range(visit_stack) \cup {p}
  BY <1>1, PushRange DEF PushCounted
<1>3. TypeOK'
  BY <1>2 DEF Inv, TypeOK, PushCounted
<1>4. Begun'
  BY DEF Inv, Begun, Roots, PushCounted
<1>5. Collecting'
  BY <1>2 DEF Inv, Collecting, Roots, PushCounted
<1> QED
  BY <1>3, <1>4, <1>5
     DEF Inv, PushCounted, Marking, NothingForgotten, Retaining, ComputesSweep

LEMMA MarkedType ==
  ASSUME NEW r, NEW roots
  PROVE  /\ Marked(r, roots) \in SUBSET Addr
         /\ roots \cap Addr \subseteq Marked(r, roots)
         /\ ClosedUnder(Marked(r, roots), Traced(r))
  BY ReachStart, ReachClosed, LinkedType, MarkedAddr DEF Marked

LEMMA StartMarkingInv ==
  ASSUME Inv, StartMarking
  PROVE  Inv'
<1>1. TypeOK' /\ Begun'
  BY DEF Inv, TypeOK, Begun, Roots, StartMarking
<1>2. reachable = {} /\ Range(visit_stack) = Roots
  BY DEF Inv, Collecting, StartMarking
<1>3. Roots \subseteq Marked(before, Roots) \cup {Null}
  BY MarkedType DEF Inv, Begun, TypeOK, IsRuntime
<1>4. Marking'
  BY <1>2, <1>3 DEF Marking, Roots, StartMarking
<1>5. NothingForgotten'
  BY <1>2 DEF NothingForgotten, StartMarking
<1> QED
  BY <1>1, <1>4, <1>5 DEF Inv, StartMarking, Collecting, Retaining, ComputesSweep

-----------------------------------------------------------------------------
(* Marking.                                                                *)

LEMMA Top ==
  ASSUME Inv, visit_stack # << >>
  PROVE  /\ base_ptr \in Ptr /\ Popped \in Seq(Ptr)
         /\ Range(visit_stack) = Range(Popped) \cup {base_ptr}
  BY PopRange DEF Inv, TypeOK, base_ptr, Popped

LEMMA SkipInv ==
  ASSUME Inv, Skip
  PROVE  Inv'
<1>1. /\ visit_stack' \in Seq(Ptr)
      /\ Range(visit_stack) = Range(visit_stack') \cup {base_ptr}
      /\ base_ptr \in reachable \cup {Null}
  BY Top DEF Skip
<1>2. TypeOK' /\ Begun'
  BY <1>1 DEF Inv, TypeOK, Begun, Roots, Skip
<1>3. Marking'
  BY <1>1 DEF Inv, Marking, Roots, Skip
<1>4. NothingForgotten'
  BY <1>1 DEF Inv, NothingForgotten, TracedWords, Skip
<1> QED
  BY <1>2, <1>3, <1>4 DEF Inv, Skip, Collecting, Retaining, ComputesSweep

LEMMA VisitInv ==
  ASSUME Inv, Visit
  PROVE  Inv'
<1> DEFINE fields == gc_ptr_fields(rt.heap[base_ptr])
           n      == Cardinality(fields)
<1>1. /\ phase = "mark" /\ phase' = "mark" /\ visit_stack # << >>
      /\ base_ptr \in DOMAIN rt.heap \ reachable
      /\ reachable' = reachable \cup {base_ptr}
      /\ UNCHANGED <<rt, pending, before, slots>>
      /\ rt = before
  BY DEF Visit, Inv, Begun
<1>2. PICK order \in {o \in [1..n -> fields] : Range(o) = fields},
           words \in [1..n -> Ptr] :
        /\ \A i \in 1..n : words[i] \in FieldReads(base_ptr, order[i])
        /\ visit_stack' = Popped \o words
  BY DEF Visit
<1>3. n \in Nat
  <2>1. rt.heap[base_ptr] \in RtType
    BY <1>1 DEF Inv, TypeOK, IsRuntime
  <2>2. fields \subseteq Field
    BY <2>1, GcHeapAssumption DEF gc_ptr_fields, PtrFields
  <2> QED  BY <2>2, MarkSweepAssumption, FS_Subset, FS_CardinalityType
<1>4. /\ base_ptr \in Ptr /\ base_ptr \in Addr
      /\ Range(visit_stack) = Range(Popped) \cup {base_ptr}
      /\ visit_stack' \in Seq(Ptr)
      /\ Range(visit_stack') = Range(Popped) \cup Range(words)
  <2>1. words \in Seq(Ptr)
    BY <1>2, <1>3, SeqOfWords
  <2>2. DOMAIN rt.heap \subseteq Addr
    BY DEF Inv, TypeOK, IsRuntime
  <2> QED  BY <1>1, <1>2, <2>1, <2>2, Top, ConcatRange
<1>5. TracedWords(rt, base_ptr) \subseteq Range(words) \cup {Wild}
  <2> SUFFICES ASSUME NEW f \in fields, rt.mem[base_ptr][f] # Wild
               PROVE  rt.mem[base_ptr][f] \in Range(words)
    BY DEF TracedWords
  <2>1. PICK i \in 1..n : order[i] = f
    BY <1>2 DEF Range
  <2>2. words[i] = rt.mem[base_ptr][f]
    BY <1>2, <2>1 DEF FieldReads
  <2> QED  BY <1>2, <2>2 DEF Range
<1>6. TypeOK' /\ Begun'
  BY <1>1, <1>4 DEF Inv, TypeOK, Begun, Roots
<1>7. NothingForgotten'
  <2> SUFFICES ASSUME NEW a \in reachable'
               PROVE  TracedWords(rt, a) \subseteq
                        reachable' \cup Range(visit_stack') \cup {Null, Wild}
    BY <1>1 DEF NothingForgotten, TracedWords
  <2>1. CASE a = base_ptr
    BY <2>1, <1>4, <1>5
  <2>2. CASE a \in reachable
    BY <2>2, <1>1, <1>4 DEF Inv, NothingForgotten
  <2> QED  BY <1>1, <2>1, <2>2
<1>8. ASSUME ~ReadsWild(before, Roots)
      PROVE  reachable' \cup Range(visit_stack') \subseteq
               Marked(before, Roots) \cup {Null}
  <2>1. /\ reachable \cup Range(visit_stack) \subseteq Marked(before, Roots) \cup {Null}
        /\ base_ptr \in Marked(before, Roots)
    BY <1>1, <1>4, <1>8, GcHeapAssumption DEF Inv, Marking
  <2>2. Wild \notin TracedWords(before, base_ptr)
    BY <1>1, <1>8, <2>1 DEF ReadsWild
  <2>3. Traced(before)[base_ptr] \subseteq Marked(before, Roots)
    BY <1>4, <2>1, MarkedType DEF ClosedUnder
  <2>4. Traced(before)[base_ptr] = TracedWords(before, base_ptr) \cap Addr
    BY <1>1, <1>4 DEF Traced
  <2>5. Range(words) \subseteq TracedWords(before, base_ptr) \cap Ptr
    <3> SUFFICES ASSUME NEW i \in 1..n
                 PROVE  words[i] \in TracedWords(before, base_ptr) \cap Ptr
      BY <1>2 DEF Range
    <3>1. order[i] \in fields /\ words[i] \in Ptr
      BY <1>2
    <3>2. rt.mem[base_ptr][order[i]] \in TracedWords(before, base_ptr)
      BY <1>1, <3>1 DEF TracedWords
    <3>3. words[i] = rt.mem[base_ptr][order[i]]
      BY <1>2, <2>2, <3>2 DEF FieldReads
    <3> QED  BY <3>1, <3>2, <3>3
  <2>6. Range(words) \subseteq Marked(before, Roots) \cup {Null}
    BY <2>2, <2>3, <2>4, <2>5 DEF Ptr
  <2> QED  BY <1>1, <1>4, <2>1, <2>6
<1>9. Marking'
  <2>1. /\ reachable \subseteq DOMAIN before.heap
        /\ Roots \subseteq reachable \cup Range(visit_stack) \cup {Null}
    BY <1>1 DEF Inv, Marking
  <2>2. Roots' = Roots
    BY <1>1 DEF Roots
  <2> QED  BY <1>1, <1>4, <1>8, <2>1, <2>2 DEF Marking
<1> QED
  BY <1>1, <1>6, <1>7, <1>9 DEF Inv, Collecting, Retaining, ComputesSweep

-----------------------------------------------------------------------------
(* What the loops end with is what Sweep may answer.                       *)

(* Marking from the roots and from words that are marked in the end gives  *)
(* the marked set: whatever an unwritten field held led to one of them.    *)
LEMMA AnswerMarked ==
  ASSUME Inv, NEW S, Answer(S)
  PROVE  \E words \in IF ReadsWild(before, Roots) THEN SUBSET Ptr ELSE {{}} :
           Wild \notin words /\ Marked(before, Roots \cup words) = S
<1>1. DOMAIN before.heap \subseteq Addr /\ S \subseteq DOMAIN before.heap
  BY DEF Inv, TypeOK, IsRuntime, Answer
<1>2. ASSUME NEW words, words \subseteq S
      PROVE  Marked(before, Roots \cup words) \subseteq S
  <2>1. (Roots \cup words) \cap Addr \subseteq S
    BY <1>2, GcHeapAssumption DEF Answer
  <2> QED  BY <1>1, <2>1, ReachLeast DEF Marked, Answer
<1>3. CASE ReadsWild(before, Roots)
  <2>1. S \subseteq Marked(before, Roots \cup S)
    BY <1>1, MarkedType
  <2>2. S \in SUBSET Ptr /\ Wild \notin S
    BY <1>1, GcHeapAssumption DEF Ptr
  <2> QED  BY <1>2, <1>3, <2>1, <2>2
<1>4. CASE ~ReadsWild(before, Roots)
  <2>1. Roots \cup {} = Roots
    OBVIOUS
  <2>2. Marked(before, Roots) = S
    BY <1>2, <1>4, <2>1 DEF Answer
  <2> QED  BY <1>4, <2>1, <2>2
<1> QED  BY <1>3, <1>4

LEMMA SweepAnswer ==
  ASSUME Inv, NEW S, Answer(S)
  PROVE  Keeping(S) \in Sweep(before, Range(slots))
<1>1. PICK words \in IF ReadsWild(before, Roots) THEN SUBSET Ptr ELSE {{}} :
        Wild \notin words /\ Marked(before, Roots \cup words) = S
  BY AnswerMarked
<1>2. SweepReading(before, Roots, words) = Keeping(S)
  BY <1>1 DEF SweepReading, Keeping, Answer
<1> QED  BY <1>1, <1>2 DEF Sweep, Roots

LEMMA SweepPanic ==
  ASSUME Inv, ReadsWild(before, Roots)
  PROVE  [before EXCEPT !.panicked = TRUE] \in Sweep(before, Range(slots))
<1>1. {Wild} \in SUBSET Ptr
  BY DEF Ptr
<1>2. SweepReading(before, Roots, {Wild}) = [before EXCEPT !.panicked = TRUE]
  BY DEF SweepReading
<1> QED  BY <1>1, <1>2 DEF Sweep, Roots

(* A pointer that is not in the table came from an unwritten field. *)
LEMMA PanicInv ==
  ASSUME Inv, Panic
  PROVE  Inv'
<1>1. /\ phase = "mark" /\ phase' = "done" /\ visit_stack # << >>
      /\ base_ptr \notin DOMAIN rt.heap \cup reachable \cup {Null}
      /\ rt = before
      /\ rt' = [rt EXCEPT !.panicked = TRUE]
      /\ UNCHANGED <<visit_stack, reachable, pending, before, slots>>
  BY DEF Panic, Inv, Begun
<1>2. ReadsWild(before, Roots)
  <2> SUFFICES ASSUME ~ReadsWild(before, Roots) PROVE FALSE
    OBVIOUS
  <2>1. base_ptr \in Marked(before, Roots) \cup {Null}
    BY <1>1, Top DEF Inv, Marking
  <2>2. Roots \cap Addr \subseteq DOMAIN before.heap
    BY GcHeapAssumption DEF Inv, Begun
  <2>3. Marked(before, Roots) \subseteq DOMAIN before.heap
    BY <2>2, MarkedLive DEF Inv, TypeOK, Begun
  <2> QED  BY <1>1, <2>1, <2>3
<1>3. rt' \in Sweep(before, Range(slots))
  BY <1>1, <1>2, SweepPanic
<1>4. ComputesSweep'
  BY <1>1, <1>3 DEF ComputesSweep, Sweep
<1>5. IsRuntime(rt)'
  BY <1>1 DEF Inv, TypeOK, IsRuntime
<1>6. TypeOK' /\ Begun'
  BY <1>1, <1>5 DEF Inv, TypeOK, Begun, Roots
<1> QED
  BY <1>1, <1>4, <1>6 DEF Inv, Collecting, Marking, NothingForgotten, Retaining

LEMMA KeepingType ==
  ASSUME Inv, NEW kept, kept \subseteq DOMAIN before.heap
  PROVE  /\ DOMAIN Keeping(kept).heap = kept
         /\ IsRuntime(Keeping(kept))
         /\ \A less \in SUBSET kept :
              WithBlocks(Keeping(kept), Restrict(Keeping(kept).heap, less),
                                        Restrict(Keeping(kept).mem, less))
                = Keeping(less)
<1> DEFINE heap == Restrict(before.heap, kept)
           mem  == Restrict(before.mem, kept)
<1>1. IsRuntime(before)
  BY DEF Inv, TypeOK
<1>2. /\ DOMAIN heap = kept /\ heap \in [kept -> RtType]
      /\ mem = [a \in kept |-> mem[a]]
      /\ \A a \in kept : heap[a] = before.heap[a] /\ mem[a] = before.mem[a]
  BY <1>1 DEF Restrict, IsRuntime
<1>3. ASSUME NEW less \in SUBSET kept
      PROVE  /\ Restrict(heap, less) = Restrict(before.heap, less)
             /\ Restrict(mem, less) = Restrict(before.mem, less)
  BY <1>2 DEF Restrict
<1>4. /\ Keeping(kept) = WithBlocks(before, heap, mem)
      /\ Keeping(kept).heap = heap /\ Keeping(kept).mem = mem
      /\ Keeping(kept).extern_refcount = before.extern_refcount
      /\ Keeping(kept).panicked = before.panicked
  BY DEF Keeping, WithBlocks
<1> HIDE DEF heap, mem
<1>5. IsRuntime(WithBlocks(before, heap, mem))
  BY <1>1, <1>2 DEF IsRuntime, WithBlocks
<1>6. ASSUME NEW less \in SUBSET kept
      PROVE  WithBlocks(Keeping(kept), Restrict(heap, less), Restrict(mem, less))
               = Keeping(less)
  BY <1>3, <1>4 DEF WithBlocks, Keeping
<1> QED  BY <1>2, <1>4, <1>5, <1>6

LEMMA StartRetainingInv ==
  ASSUME Inv, StartRetaining
  PROVE  Inv'
<1>1. /\ phase = "mark" /\ phase' = "retain" /\ rt = before
      /\ Range(visit_stack) = {}
      /\ pending' = DOMAIN before.heap
      /\ UNCHANGED <<rt, visit_stack, reachable, before, slots>>
  BY NilRange DEF StartRetaining, Inv, Begun
<1>2. reachable \subseteq DOMAIN before.heap /\ DOMAIN before.heap \subseteq Addr
  BY <1>1 DEF Inv, Marking, TypeOK, IsRuntime
<1>3. Answer(reachable)
  <2>1. ClosedUnder(reachable, Traced(before))
    <3> SUFFICES ASSUME NEW a \in reachable
                 PROVE  Traced(before)[a] \subseteq reachable
      BY DEF ClosedUnder
    <3>1. TracedWords(before, a) \subseteq reachable \cup {Null, Wild}
      BY <1>1 DEF Inv, NothingForgotten
    <3>2. Traced(before)[a] = TracedWords(before, a) \cap Addr
      BY <1>2 DEF Traced
    <3> QED  BY <3>1, <3>2, GcHeapAssumption
  <2>2. ~ReadsWild(before, Roots) => reachable \subseteq Marked(before, Roots)
    BY <1>1, <1>2, GcHeapAssumption DEF Inv, Marking
  <2> QED  BY <1>1, <1>2, <2>1, <2>2 DEF Inv, Marking, Answer
<1>4. rt = Keeping(DOMAIN before.heap)
  <2>1. /\ Restrict(before.heap, DOMAIN before.heap) = before.heap
        /\ Restrict(before.mem, DOMAIN before.heap) = before.mem
    BY DEF Inv, TypeOK, IsRuntime, Restrict
  <2> QED  BY <1>1, <2>1 DEF Inv, TypeOK, IsRuntime, Keeping, WithBlocks
<1>5. reachable \cup DOMAIN before.heap = DOMAIN before.heap
  BY <1>2
<1>6. Retaining'
  BY <1>1, <1>3, <1>4, <1>5 DEF Retaining, Answer, Roots, Keeping
<1>7. TypeOK' /\ Begun'
  BY <1>1, <1>2 DEF Inv, TypeOK, Begun, Roots
<1> QED
  BY <1>1, <1>6, <1>7 DEF Inv, Collecting, Marking, NothingForgotten, ComputesSweep

LEMMA RetainInv ==
  ASSUME Inv, NEW p \in Addr, Retain(p)
  PROVE  Inv'
<1> DEFINE kept == reachable \cup pending
           less == reachable \cup (pending \ {p})
<1>1. /\ phase = "retain" /\ phase' = "retain" /\ p \in pending
      /\ pending' = pending \ {p}
      /\ UNCHANGED <<visit_stack, reachable, before, slots>>
      /\ Answer(reachable) /\ pending \subseteq DOMAIN before.heap
      /\ rt = Keeping(kept)
  BY DEF Retain, Inv, Retaining
<1>2. kept \subseteq DOMAIN before.heap /\ less \subseteq kept
  BY <1>1 DEF Answer
<1>3. less = IF p \in reachable THEN DOMAIN rt.heap ELSE DOMAIN rt.heap \ {p}
  BY <1>1, <1>2, KeepingType
<1>4. rt' = Keeping(less) /\ IsRuntime(Keeping(less))
  <2>1. rt' = WithBlocks(rt, Restrict(rt.heap, less), Restrict(rt.mem, less))
    BY <1>3 DEF Retain
  <2> QED  BY <1>1, <1>2, <2>1, KeepingType
<1>5. TypeOK' /\ Begun'
  BY <1>1, <1>4 DEF Inv, TypeOK, Begun, Roots
<1>6. Retaining'
  BY <1>1, <1>4 DEF Retaining, Answer, Roots, Keeping
<1> QED
  BY <1>1, <1>5, <1>6 DEF Inv, Collecting, Marking, NothingForgotten, ComputesSweep

LEMMA FinishInv ==
  ASSUME Inv, Finish
  PROVE  Inv'
<1>1. /\ phase = "retain" /\ phase' = "done"
      /\ UNCHANGED <<rt, visit_stack, reachable, pending, before, slots>>
      /\ Answer(reachable)
      /\ rt = Keeping(reachable)
  <2>1. pending = {} /\ reachable \cup {} = reachable
    BY DEF Finish
  <2> QED  BY <2>1 DEF Finish, Inv, Retaining
<1>2. rt \in Sweep(before, Range(slots))
  BY <1>1, SweepAnswer
<1>3. ComputesSweep'
  BY <1>1, <1>2 DEF ComputesSweep
<1>4. TypeOK' /\ Begun'
  BY <1>1 DEF Inv, TypeOK, Begun, Roots
<1> QED
  BY <1>1, <1>3, <1>4 DEF Inv, Collecting, Marking, NothingForgotten, Retaining

-----------------------------------------------------------------------------
LEMMA Step == Inv /\ [Next]_vars => Inv'
<1> SUFFICES ASSUME Inv, [Next]_vars PROVE Inv'
  OBVIOUS
<1>1. CASE \E p \in Addr : PushCounted(p)
  BY <1>1, PushCountedInv
<1>2. CASE StartMarking
  BY <1>2, StartMarkingInv
<1>3. CASE Skip
  BY <1>3, SkipInv
<1>4. CASE Visit
  BY <1>4, VisitInv
<1>5. CASE Panic
  BY <1>5, PanicInv
<1>6. CASE StartRetaining
  BY <1>6, StartRetainingInv
<1>7. CASE \E p \in Addr : Retain(p)
  BY <1>7, RetainInv
<1>8. CASE Finish
  BY <1>8, FinishInv
<1>9. CASE UNCHANGED vars
  <2>1. UNCHANGED <<rt, visit_stack, reachable, pending, phase, before, slots>>
    BY <1>9 DEF vars
  <2>2. TypeOK' /\ Begun' /\ Collecting'
    BY <2>1 DEF Inv, TypeOK, Begun, Collecting, Roots
  <2>3. Marking' /\ NothingForgotten'
    BY <2>1 DEF Inv, Marking, NothingForgotten, Roots
  <2>4. Retaining'
    BY <2>1 DEF Inv, Retaining, Answer, Keeping, Roots
  <2>5. ComputesSweep'
    BY <2>1 DEF Inv, ComputesSweep
  <2> QED  BY <2>2, <2>3, <2>4, <2>5 DEF Inv
<1> QED
  BY <1>1, <1>2, <1>3, <1>4, <1>5, <1>6, <1>7, <1>8, <1>9 DEF Next

THEOREM Invariance == Spec => []Inv
  BY InitInv, Step, PTL DEF Spec

(* The visit stack, the marks and the table stay what their Rust types     *)
(* say, on every heap.                                                     *)
THEOREM TypeCorrect == Spec => []TypeOK
<1>1. Inv => TypeOK
  BY DEF Inv
<1> QED  BY <1>1, Invariance, PTL

(* While the visit_stack loop runs, a marked block never points to one     *)
(* that is neither marked nor still to be visited.                         *)
THEOREM TriColour == Spec => []NothingForgotten
<1>1. Inv => NothingForgotten
  BY DEF Inv
<1> QED  BY <1>1, Invariance, PTL

(* When sweep returns, or panics, the runtime is one the one-step Sweep of *)
(* the rest of the project may answer: whatever the heap, its unwritten    *)
(* fields, and the order roots, fields and table entries come up in.       *)
THEOREM SweepCorrect == Spec => []ComputesSweep
<1>1. Inv => ComputesSweep
  BY DEF Inv
<1> QED  BY <1>1, Invariance, PTL

=============================================================================
