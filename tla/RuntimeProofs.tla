---------------------------- MODULE RuntimeProofs ---------------------------
(***************************************************************************)
(* Theorems about module Runtime, for any number of addresses, types,      *)
(* functions, locals and handles, and any call depth.  In three parts:     *)
(* types; why programs that respect the contract never see a freed block   *)
(* (GcInv is inductive: a lemma per action of Next); and why they see an   *)
(* ideal collector, each step being one of AbstractGc.                     *)
(***************************************************************************)
EXTENDS Runtime, GcHeapProofs, SequenceTheorems

-----------------------------------------------------------------------------
(* Frames and places are well typed.                                       *)

LEMMA FrameParts ==
  ASSUME NEW fr \in Frame
  PROVE  /\ fr.fn \in Func
         /\ fr.slots \in [FuncLocals[fr.fn] -> Ptr]
         /\ fr = [fn |-> fr.fn, slots |-> fr.slots]
  BY DEF Frame

LEMMA FrameOf ==
  ASSUME NEW fn \in Func, NEW slots \in [FuncLocals[fn] -> Ptr]
  PROVE  [fn |-> fn, slots |-> slots] \in Frame
  BY DEF Frame

LEMMA TopType ==
  ASSUME TypeOK, stack # << >>
  PROVE  Top \in Frame /\ Len(stack) \in 1..Len(stack)
  BY DEF TypeOK, Top

LEMMA FrameExcept ==
  ASSUME NEW fr \in Frame, NEW l, NEW v
  PROVE  [fr EXCEPT !.slots[l] = v] =
           [fn |-> fr.fn, slots |-> [fr.slots EXCEPT ![l] = v]]
  BY FrameParts

LEMMA SetLocalType ==
  ASSUME TypeOK, stack # << >>, NEW l \in DOMAIN Top.slots, NEW v \in Ptr,
         SetLocal(l, v)
  PROVE  stack' \in Seq(Frame)
<1> DEFINE top == [fn |-> Top.fn, slots |-> [Top.slots EXCEPT ![l] = v]]
<1>1. top \in Frame
  BY TopType, FrameParts, FrameOf
<1>2. stack' = [stack EXCEPT ![Len(stack)] = top]
  <2>1. stack' = [stack EXCEPT ![Len(stack)] = [Top EXCEPT !.slots[l] = v]]
    BY DEF SetLocal, Top
  <2> QED  BY <2>1, TopType, FrameExcept
<1> HIDE DEF top
<1>3. stack \in Seq(Frame) /\ Len(stack) \in 1..Len(stack)
  BY TopType DEF TypeOK
<1>4. [stack EXCEPT ![Len(stack)] = top] \in Seq(Frame)
  BY <1>1, <1>3, ExceptSeq
<1> QED  BY <1>2, <1>4

LEMMA ReadPlaceType ==
  ASSUME TypeOK, stack # << >>, NEW l, NEW f, IsPlace(l, f)
  PROVE  ReadPlace(l, f) \in Ptr
  BY TopType, FrameParts DEF TypeOK, IsPlace, ReadPlace, IsRuntime

LEMMA StorePlaceType ==
  ASSUME TypeOK, stack # << >>, NEW l, NEW f, IsPlace(l, f),
         NEW r, IsRuntime(r),
         \A a \in DOMAIN rt.heap : a \in DOMAIN r.heap /\ r.heap[a] = rt.heap[a],
         NEW v \in Ptr, StorePlace(r, l, f, v)
  PROVE  IsRuntime(rt') /\ stack' \in Seq(Frame)
<1>1. CASE f = None
  BY <1>1, SetLocalType DEF StorePlace, IsPlace
<1>2. CASE f # None
  BY <1>2, StoreFieldType DEF StorePlace, IsPlace, TypeOK
<1> QED  BY <1>1, <1>2

-----------------------------------------------------------------------------
(* Entry and exit of functions.                                            *)

LEMMA PushStackFrameType ==
  ASSUME TypeOK, NEW fn \in Func, NEW actual \in Ptr, PushStackFrame(fn, actual)
  PROVE  IsRuntime(rt') /\ stack' \in Seq(Frame)
<1> DEFINE nulled == [l \in FuncLocals[fn] |->
                        IF l \in Roots(fn) THEN Null ELSE EntrySlots(fn, actual)[l]]
           pushed == [fn |-> fn, slots |-> nulled]
<1>1. pushed \in Frame
  BY FrameOf DEF EntrySlots, Ptr
<1>2. stack' = Append(stack, pushed)
  BY DEF PushStackFrame
<1>3. rt' \in Safepoint(rt, StackRoots(stack'))
  BY DEF PushStackFrame
<1> HIDE DEF pushed
<1>4. stack' \in Seq(Frame)
  BY <1>1, <1>2, AppendProperties DEF TypeOK
<1> QED  BY <1>3, <1>4, SafepointType DEF TypeOK

LEMMA PopType ==
  ASSUME TypeOK, stack # << >>, stack' = SubSeq(stack, 1, Len(stack) - 1)
  PROVE  stack' \in Seq(Frame)
<1>1. Len(stack) \in Nat /\ \A i \in 1..(Len(stack) - 1) : stack[i] \in Frame
  BY DEF TypeOK
<1> QED  BY <1>1, SubSeqProperties

-----------------------------------------------------------------------------
(* Type correctness.                                                       *)

LEMMA InitType == Init => TypeOK
<1> SUFFICES ASSUME Init PROVE TypeOK
  OBVIOUS
<1>1. IsRuntime(rt)
  BY DEF Init, EmptyRuntime, IsRuntime
<1> QED  BY <1>1 DEF Init, TypeOK

LEMMA StepType == TypeOK /\ [Next]_vars => TypeOK'
<1> SUFFICES ASSUME TypeOK, [Next]_vars PROVE TypeOK'
  OBVIOUS
<1> USE DEF Executing, InRust
<1>1. ASSUME NEW l \in Local, NEW k \in Local,
             NEW f \in Field \cup {None}, NEW g \in Field \cup {None},
             Assign(l, f, k, g)
      PROVE  TypeOK'
  <2>1. ReadPlace(k, g) \in Ptr
    BY <1>1, ReadPlaceType DEF Assign
  <2>2. IsRuntime(rt') /\ stack' \in Seq(Frame)
    BY <1>1, <2>1, StorePlaceType DEF Assign, TypeOK
  <2> QED  BY <1>1, <2>2 DEF Assign, TypeOK
<1>2. ASSUME NEW l \in Local, NEW f \in Field \cup {None}, NEW p \in Addr,
             AllocPlace(l, f, p)
      PROVE  TypeOK'
  <2>1. Pointee(l, f) \in RtType
    BY <1>2, GcHeapAssumption, RuntimeAssumption
       DEF AllocPlace, IsPlace, Pointee, PtrFields
  <2>2. IsRuntime(AllocGc(rt, p, Pointee(l, f)))
    BY <2>1, AllocGcType, GcHeapAssumption DEF TypeOK
  <2>3. \A a \in DOMAIN rt.heap :
           /\ a \in DOMAIN AllocGc(rt, p, Pointee(l, f)).heap
           /\ AllocGc(rt, p, Pointee(l, f)).heap[a] = rt.heap[a]
    BY <1>2 DEF AllocPlace, AllocGc, WithBlocks
  <2>4. IsRuntime(rt') /\ stack' \in Seq(Frame)
    BY <1>2, <2>2, <2>3, StorePlaceType DEF AllocPlace, Ptr
  <2> QED  BY <1>2, <2>4 DEF AllocPlace, TypeOK
<1>3. ASSUME NEW fn \in Func, NEW k \in Local \cup {None}, Call(fn, k)
      PROVE  TypeOK'
  <2>1. (IF k = None THEN Null ELSE Top.slots[k]) \in Ptr
    BY <1>3, TopType, FrameParts DEF Call, Ptr
  <2>2. IsRuntime(rt') /\ stack' \in Seq(Frame)
    BY <1>3, <2>1, PushStackFrameType DEF Call
  <2> QED  BY <1>3, <2>2 DEF Call, TypeOK
<1>4. ASSUME NEW l \in Local \cup {None}, Return(l)
      PROVE  TypeOK'
  <2>1. stack' \in Seq(Frame)
    BY <1>4, PopType DEF Return, PopStackFrame
  <2>2. ret' \in Ptr \cup {None}
    BY <1>4, TopType, FrameParts DEF Return, PopStackFrame
  <2> QED  BY <1>4, <2>1, <2>2 DEF Return, PopStackFrame, TypeOK
<1>5. ASSUME NEW l \in Local \cup {None}, StoreRet(l)
      PROVE  TypeOK'
  <2>1. stack' \in Seq(Frame)
    BY <1>5, SetLocalType DEF StoreRet, TypeOK
  <2> QED  BY <1>5, <2>1 DEF StoreRet, TypeOK
<1>6. ASSUME NEW fn \in Func, NEW h \in Handle \cup {None}, CallFromRust(fn, h)
      PROVE  TypeOK'
  <2>1. (IF h = None THEN Null ELSE handles[h]) \in Ptr
    BY <1>6, RuntimeAssumption DEF CallFromRust, TypeOK, IsRuntime, Ptr
  <2>2. IsRuntime(rt') /\ stack' \in Seq(Frame)
    BY <1>6, <2>1, PushStackFrameType DEF CallFromRust
  <2> QED  BY <1>6, <2>2 DEF CallFromRust, TypeOK
<1>7. ASSUME NEW h \in Handle, NEW p, GcNew(h, p)
      PROVE  TypeOK'
  <2>1. p \in Addr
    BY <1>7 DEF GcNew, TypeOK, IsRuntime
  <2>2. IsRuntime(rt')
    BY <1>7, <2>1, RefcountIncrementType DEF GcNew, TypeOK
  <2> QED  BY <1>7, <2>1, <2>2 DEF GcNew, TypeOK
<1>8. ASSUME NEW h \in Handle, NEW from \in Handle \cup {None}, NEW f \in Field,
             GcStoreField(h, f, from)
      PROVE  TypeOK'
  <2>1. (IF from = None THEN Null ELSE handles[from]) \in Ptr
    BY <1>8 DEF GcStoreField, TypeOK, IsRuntime, Ptr
  <2>2. IsRuntime(rt')
    BY <1>8, <2>1, StoreFieldType DEF GcStoreField, TypeOK
  <2> QED  BY <1>8, <2>2 DEF GcStoreField, TypeOK
<1>9. ASSUME NEW h \in Handle, GcDrop(h)
      PROVE  TypeOK'
  <2>1. IsRuntime(rt')
    BY <1>9, RefcountDecrementType DEF GcDrop, TypeOK
  <2> QED  BY <1>9, <2>1 DEF GcDrop, TypeOK
<1>10. CASE UNCHANGED vars
  BY <1>10 DEF vars, TypeOK
<1> QED
  BY <1>1, <1>2, <1>3, <1>4, <1>5, <1>6, <1>7, <1>8, <1>9, <1>10
     DEF Next, Emscript, Rust, GcNewFromReturn, GcClone, GcNewFromField

(* Whatever the program does, the runtime's tables stay consistent with    *)
(* each other and with the type table: every block has a registered type,  *)
(* exactly the pointer fields of that type, and no count reaches zero      *)
(* while its entry stays (the debug_assert of sweep).                      *)
THEOREM TypeCorrect == Spec => []TypeOK
  BY InitType, StepType, PTL DEF Spec

-----------------------------------------------------------------------------
(* The pieces of Held.                                                     *)

HeldIn(D) ==
  /\ \A i \in DOMAIN stack : Range(stack[i].slots) \cap Addr \subseteq D
  /\ Range(handles) \cap Addr \subseteq D
  /\ ret \in Addr => ret \in D

LEMMA HeldParts ==
  ASSUME NEW D, Held \cap Addr \subseteq D
  PROVE  HeldIn(D)
<1>1. \A i \in DOMAIN stack : Range(stack[i].slots) \subseteq InLocals
  BY DEF InLocals
<1> QED  BY <1>1 DEF Held, HeldIn

LEMMA HeldPartsPrime ==
  ASSUME NEW D, HeldIn(D)'
  PROVE  Held' \cap Addr \subseteq D
<1>1. InLocals' \cap Addr \subseteq D
  BY DEF InLocals, HeldIn
<1> QED  BY <1>1 DEF Held, HeldIn

-----------------------------------------------------------------------------
(* Counting the handles on an address.                                     *)

Owners(u, a) == Holders(Handle, u, a)

LEMMA OwnersCount ==
  ASSUME NEW u, NEW a
  PROVE  /\ Cardinality(Owners(u, a)) \in Nat
         /\ Cardinality(Owners(u, a)) = 0 <=> \A h \in Handle : u[h] # a
  BY HoldersCount, RuntimeAssumption DEF Owners

LEMMA OwnersAdd ==
  ASSUME NEW u \in [Handle -> Addr \cup {None}], NEW h \in Handle, u[h] = None,
         NEW p \in Addr, NEW a \in Addr
  PROVE  Cardinality(Owners([u EXCEPT ![h] = p], a)) =
           Cardinality(Owners(u, a)) + (IF a = p THEN 1 ELSE 0)
<1>1. None \notin Addr /\ IsFiniteSet(Handle)
  BY RuntimeAssumption DEF Ptr
<1>2. Cardinality(Owners(u, a)) \in Nat
  BY OwnersCount
<1> DEFINE w == [u EXCEPT ![h] = p]
<1>3. w[h] = p /\ \A g \in Handle \ {h} : w[g] = u[g]
  OBVIOUS
<1> HIDE DEF w
<1>4. a # u[h] /\ u[h] # p
  BY <1>1
<1>5. Cardinality(Owners(w, a)) = Cardinality(Owners(u, a)) + (IF a = p THEN 1 ELSE 0)
  BY <1>1, <1>2, <1>3, <1>4, HoldersMove DEF Owners
<1> QED  BY <1>5 DEF w

LEMMA OwnersRemove ==
  ASSUME NEW u \in [Handle -> Addr \cup {None}], NEW h \in Handle, u[h] # None,
         NEW a \in Addr
  PROVE  Cardinality(Owners([u EXCEPT ![h] = None], a)) =
           Cardinality(Owners(u, a)) - (IF a = u[h] THEN 1 ELSE 0)
<1>1. None \notin Addr /\ IsFiniteSet(Handle)
  BY RuntimeAssumption DEF Ptr
<1>2. Cardinality(Owners(u, a)) \in Nat
  BY OwnersCount
<1> DEFINE w == [u EXCEPT ![h] = None]
<1>3. w[h] = None /\ \A g \in Handle \ {h} : w[g] = u[g]
  OBVIOUS
<1> HIDE DEF w
<1>4. u[h] # w[h] /\ a # w[h]
  BY <1>1, <1>3
<1>5. Cardinality(Owners(w, a)) = Cardinality(Owners(u, a)) - (IF a = u[h] THEN 1 ELSE 0)
  BY <1>1, <1>2, <1>3, <1>4, HoldersMove DEF Owners
<1> QED  BY <1>5 DEF w

(* The keys of a table of counts are what the handles point to. *)
LEMMA CountedOwners ==
  ASSUME NEW r, IsRuntime(r), NEW u \in [Handle -> Addr \cup {None}],
         \A a \in Addr : Refcount(r, a) = Cardinality(Owners(u, a))
  PROVE  DOMAIN r.extern_refcount \cap Addr = Range(u) \cap Addr
  BY CountedHolders, RuntimeAssumption DEF Owners

LEMMA CountedAreHandles ==
  ASSUME TypeOK, RefcountExact
  PROVE  DOMAIN rt.extern_refcount \cap Addr = Range(handles) \cap Addr
  BY CountedOwners DEF TypeOK, RefcountExact, Owners, Holders

-----------------------------------------------------------------------------
(* Stores into locals and fields.                                          *)

LEMMA SetLocalHeld ==
  ASSUME TypeOK, stack # << >>, NEW l \in DOMAIN Top.slots, NEW v,
         NEW D, HeldIn(D), v \in Addr => v \in D, SetLocal(l, v)
  PROVE  \A i \in DOMAIN stack' : Range(stack'[i].slots) \cap Addr \subseteq D
<1> DEFINE n   == Len(stack)
           top == [fn |-> Top.fn, slots |-> [Top.slots EXCEPT ![l] = v]]
<1>1. stack' = [stack EXCEPT ![n] = top]
  <2>1. stack' = [stack EXCEPT ![n] = [Top EXCEPT !.slots[l] = v]]
    BY DEF SetLocal, Top
  <2> QED  BY <2>1, TopType, FrameExcept
<1>2. n \in DOMAIN stack /\ DOMAIN stack' = DOMAIN stack
  BY <1>1, TopType DEF TypeOK
<1>3. Range(top.slots) \subseteq Range(Top.slots) \cup {v}
  BY DEF Range
<1>4. Range(Top.slots) \cap Addr \subseteq D
  BY <1>2 DEF HeldIn, Top
<1> HIDE DEF top
<1>5. \A i \in DOMAIN stack : stack'[i] = IF i = n THEN top ELSE stack[i]
  BY <1>1
<1> QED  BY <1>2, <1>3, <1>4, <1>5 DEF HeldIn

LEMMA StorePlaceSafe ==
  ASSUME Sound, stack # << >>, NEW l, NEW f, IsPlace(l, f),
         NEW r, IsRuntime(r), HeapClosed(r),
         \A a \in DOMAIN rt.heap : a \in DOMAIN r.heap /\ r.heap[a] = rt.heap[a],
         NEW v, v \in Addr => v \in DOMAIN r.heap, StorePlace(r, l, f, v)
  PROVE  /\ HeapClosed(rt')
         /\ DOMAIN rt'.heap = DOMAIN r.heap
         /\ rt'.extern_refcount = r.extern_refcount
         /\ rt'.panicked = r.panicked
         /\ \A i \in DOMAIN stack' :
               Range(stack'[i].slots) \cap Addr \subseteq DOMAIN r.heap
<1>1. DOMAIN rt.heap \subseteq DOMAIN r.heap
  OBVIOUS
<1>2. HeldIn(DOMAIN r.heap)
  <2>1. HeldIn(DOMAIN rt.heap)
    BY HeldParts DEF Sound
  <2> QED  BY <1>1, <2>1 DEF HeldIn
<1>3. CASE f = None
  <2>1. rt' = r /\ SetLocal(l, v) /\ l \in DOMAIN Top.slots
    BY <1>3 DEF StorePlace, IsPlace
  <2> QED  BY <1>2, <2>1, SetLocalHeld DEF Sound
<1>4. CASE f # None
  <2>1. /\ rt' = [r EXCEPT !.mem[Top.slots[l]][f] = v]
        /\ stack' = stack
        /\ Top.slots[l] \in DOMAIN r.heap
        /\ f \in PtrFields(r.heap[Top.slots[l]])
    <3>1. Top.slots[l] \in DOMAIN rt.heap /\ f \in PtrFields(rt.heap[Top.slots[l]])
      BY <1>4 DEF IsPlace
    <3>2. rt' = [r EXCEPT !.mem[Top.slots[l]][f] = v] /\ stack' = stack
      BY <1>4 DEF StorePlace
    <3>3. Top.slots[l] \in DOMAIN r.heap /\ r.heap[Top.slots[l]] = rt.heap[Top.slots[l]]
      BY <3>1
    <3> QED  BY <3>1, <3>2, <3>3
  <2>2. /\ HeapClosed(rt')
        /\ rt'.heap = r.heap
        /\ rt'.extern_refcount = r.extern_refcount
        /\ rt'.panicked = r.panicked
    <3> DEFINE a == Top.slots[l]
               s == [r EXCEPT !.mem[a][f] = v]
    <3>1. a \in DOMAIN r.heap /\ f \in PtrFields(r.heap[a])
      BY <2>1
    <3> HIDE DEF a
    <3>2. /\ HeapClosed(s)
          /\ s.heap = r.heap
          /\ s.extern_refcount = r.extern_refcount
          /\ s.panicked = r.panicked
      BY <3>1, StoreFieldSafe
    <3>3. rt' = s
      BY <2>1 DEF a
    <3> HIDE DEF s
    <3> QED  BY <3>2, <3>3
  <2> QED  BY <1>2, <2>1, <2>2 DEF HeldIn
<1> QED  BY <1>3, <1>4

(* What is read from a place is null, unwritten or allocated. *)
LEMMA ReadPlaceSafe ==
  ASSUME Sound, stack # << >>, NEW l, NEW f, IsPlace(l, f), ReadPlace(l, f) \in Addr
  PROVE  ReadPlace(l, f) \in DOMAIN rt.heap
<1>1. CASE f = None
  <2>1. Len(stack) \in DOMAIN stack
    BY TopType DEF Sound, TypeOK
  <2>2. Range(Top.slots) \cap Addr \subseteq DOMAIN rt.heap
    BY <2>1, HeldParts DEF Sound, HeldIn, Top
  <2> QED  BY <1>1, <2>2 DEF ReadPlace, IsPlace, Range
<1>2. CASE f # None
  BY <1>2 DEF ReadPlace, IsPlace, Sound, TypeOK, IsRuntime, HeapClosed, Range
<1> QED  BY <1>1, <1>2

(* When the counts and handles are as before, exactness stays. *)
LEMMA SameCounts ==
  ASSUME RefcountExact, rt'.extern_refcount = rt.extern_refcount, handles' = handles
  PROVE  RefcountExact'
  BY DEF RefcountExact, Refcount

LEMMA AssignSafe ==
  ASSUME Sound, TypeOK', NEW l, NEW f, NEW k, NEW g, Assign(l, f, k, g)
  PROVE  Sound'
<1> USE DEF Executing
<1>1. ReadPlace(k, g) \in Addr => ReadPlace(k, g) \in DOMAIN rt.heap
  BY ReadPlaceSafe DEF Assign
<1>2. /\ HeapClosed(rt')
      /\ DOMAIN rt'.heap = DOMAIN rt.heap
      /\ rt'.extern_refcount = rt.extern_refcount
      /\ rt'.panicked = rt.panicked
      /\ \A i \in DOMAIN stack' :
            Range(stack'[i].slots) \cap Addr \subseteq DOMAIN rt.heap
  BY <1>1, StorePlaceSafe DEF Assign, Sound, TypeOK
<1>3. HeldIn(DOMAIN rt.heap)'
  BY <1>2, HeldParts DEF HeldIn, Assign, Sound
<1> QED
  BY <1>2, <1>3, HeldPartsPrime, SameCounts DEF Sound, NeverPanics, Assign

LEMMA AllocPlaceSafe ==
  ASSUME Sound, TypeOK', NEW l \in Local, NEW f \in Field \cup {None}, NEW p \in Addr,
         AllocPlace(l, f, p)
  PROVE  Sound'
<1> USE DEF Executing
<1> DEFINE r == AllocGc(rt, p, Pointee(l, f))
<1>1. Pointee(l, f) \in RtType
  BY GcHeapAssumption, RuntimeAssumption DEF AllocPlace, IsPlace, Pointee, PtrFields
<1>2. IsRuntime(r)
  BY <1>1, AllocGcType, GcHeapAssumption DEF Sound, TypeOK
<1>3. /\ HeapClosed(r)
      /\ DOMAIN r.heap = DOMAIN rt.heap \cup {p}
      /\ \A a \in DOMAIN rt.heap : r.heap[a] = rt.heap[a] /\ r.mem[a] = rt.mem[a]
      /\ r.extern_refcount = rt.extern_refcount
      /\ r.panicked = rt.panicked
  BY AllocGcSafe, GcHeapAssumption DEF AllocPlace, Sound, TypeOK
<1>4. StorePlace(r, l, f, p) /\ IsPlace(l, f) /\ stack # << >>
  BY DEF AllocPlace
<1> HIDE DEF r
<1>5. /\ HeapClosed(rt')
      /\ DOMAIN rt'.heap = DOMAIN r.heap
      /\ rt'.extern_refcount = r.extern_refcount
      /\ rt'.panicked = r.panicked
      /\ \A i \in DOMAIN stack' :
            Range(stack'[i].slots) \cap Addr \subseteq DOMAIN r.heap
  BY <1>2, <1>3, <1>4, StorePlaceSafe
<1>6. HeldIn(DOMAIN rt.heap)' /\ DOMAIN rt.heap \subseteq DOMAIN rt'.heap
  BY <1>3, <1>5, HeldParts DEF HeldIn, AllocPlace, Sound
<1> QED
  BY <1>3, <1>5, <1>6, HeldPartsPrime, SameCounts DEF Sound, NeverPanics, AllocPlace

LEMMA StoreRetSafe ==
  ASSUME Sound, TypeOK', NEW l, StoreRet(l)
  PROVE  Sound'
<1>1. HeldIn(DOMAIN rt.heap) /\ TypeOK /\ stack # << >>
  BY HeldParts DEF Sound, StoreRet
<1>2. \A i \in DOMAIN stack' : Range(stack'[i].slots) \cap Addr \subseteq DOMAIN rt.heap
  <2>1. CASE l \in DOMAIN Top.slots /\ SetLocal(l, ret)
    BY <1>1, <2>1, SetLocalHeld DEF HeldIn
  <2>2. CASE UNCHANGED stack
    BY <1>1, <2>2 DEF HeldIn
  <2> QED  BY <2>1, <2>2 DEF StoreRet
<1>3. HeldIn(DOMAIN rt.heap)'
  BY <1>1, <1>2, RuntimeAssumption DEF HeldIn, StoreRet, Ptr
<1> QED
  BY <1>3, HeldPartsPrime, SameCounts DEF Sound, NeverPanics, StoreRet

LEMMA ReturnSafe ==
  ASSUME Sound, TypeOK', NEW l, Return(l)
  PROVE  Sound'
<1> USE DEF Executing
<1>1. HeldIn(DOMAIN rt.heap) /\ TypeOK /\ stack # << >>
  BY HeldParts DEF Sound, Return, PopStackFrame
<1>2. Len(stack) \in DOMAIN stack
  BY <1>1, TopType DEF TypeOK
<1>3. \A i \in DOMAIN stack' : Range(stack'[i].slots) \cap Addr \subseteq DOMAIN rt.heap
  <2>1. \A i \in DOMAIN stack' : i \in DOMAIN stack /\ stack'[i] = stack[i]
    BY <1>1, <1>2, SubSeqProperties DEF Return, PopStackFrame, TypeOK
  <2> QED  BY <1>1, <2>1 DEF HeldIn
<1>4. ret' \in Addr => ret' \in DOMAIN rt.heap
  BY <1>1, <1>2, RuntimeAssumption DEF Return, PopStackFrame, HeldIn, Top, Range, Ptr
<1>5. HeldIn(DOMAIN rt.heap)'
  BY <1>1, <1>3, <1>4 DEF HeldIn, Return, PopStackFrame
<1> QED
  BY <1>5, HeldPartsPrime, SameCounts DEF Sound, NeverPanics, Return, PopStackFrame

LEMMA GcNewSafe ==
  ASSUME Sound, TypeOK', NEW h \in Handle, NEW p, GcNew(h, p)
  PROVE  Sound'
<1>1. HeldIn(DOMAIN rt.heap) /\ TypeOK /\ p \in DOMAIN rt.heap /\ p \in Addr
  BY HeldParts DEF Sound, GcNew, TypeOK, IsRuntime
<1>2. /\ rt'.heap = rt.heap /\ rt'.mem = rt.mem /\ rt'.panicked = rt.panicked
      /\ \A a : Refcount(rt', a) = IF a = p THEN Refcount(rt, a) + 1
                                            ELSE Refcount(rt, a)
  BY <1>1, RefcountIncrementExact DEF GcNew, TypeOK
<1>3. RefcountExact'
  <2> SUFFICES ASSUME NEW a \in Addr
               PROVE  Refcount(rt', a) = Cardinality(Owners(handles', a))
    BY DEF RefcountExact, Owners, Holders
  <2>1. Refcount(rt, a) = Cardinality(Owners(handles, a))
    BY DEF Sound, RefcountExact, Owners, Holders
  <2>2. Cardinality(Owners(handles', a)) =
          Cardinality(Owners(handles, a)) + (IF a = p THEN 1 ELSE 0)
    <3>1. handles \in [Handle -> Addr \cup {None}] /\ handles[h] = None
      BY <1>1 DEF GcNew, TypeOK
    <3>2. handles' = [handles EXCEPT ![h] = p]
      BY DEF GcNew
    <3> QED  BY <1>1, <3>1, <3>2, OwnersAdd
  <2>3. Cardinality(Owners(handles, a)) \in Nat
    BY OwnersCount
  <2> QED  BY <1>2, <2>1, <2>2, <2>3
<1>4. HeapClosed(rt')
  BY <1>2 DEF HeapClosed, Sound
<1>5. HeldIn(DOMAIN rt.heap)'
  <2>1. Range(handles') \subseteq Range(handles) \cup {p}
    BY <1>1 DEF GcNew, TypeOK, Range
  <2> QED  BY <1>1, <1>2, <2>1, RuntimeAssumption DEF HeldIn, GcNew, Ptr
<1> QED  BY <1>2, <1>3, <1>4, <1>5, HeldPartsPrime DEF Sound, NeverPanics

LEMMA GcStoreFieldSafe ==
  ASSUME Sound, TypeOK', NEW h \in Handle, NEW f, NEW from, GcStoreField(h, f, from)
  PROVE  Sound'
<1> DEFINE v == IF from = None THEN Null ELSE handles[from]
<1>1. v \in Addr => v \in DOMAIN rt.heap
  BY GcHeapAssumption DEF GcStoreField
<1>2. /\ HeapClosed(rt')
      /\ rt'.heap = rt.heap
      /\ rt'.extern_refcount = rt.extern_refcount
      /\ rt'.panicked = rt.panicked
  <2>1. /\ rt' = [rt EXCEPT !.mem[handles[h]][f] = v]
        /\ handles[h] \in DOMAIN rt.heap
        /\ f \in PtrFields(rt.heap[handles[h]])
    BY DEF GcStoreField
  <2>2. IsRuntime(rt) /\ HeapClosed(rt)
    BY DEF Sound, TypeOK
  <2> HIDE DEF v
  <2> QED  BY <1>1, <2>1, <2>2, StoreFieldSafe
<1>3. HeldIn(DOMAIN rt.heap)'
  BY <1>2, HeldParts DEF HeldIn, GcStoreField, Sound
<1> QED
  BY <1>2, <1>3, HeldPartsPrime, SameCounts DEF Sound, NeverPanics, GcStoreField

-----------------------------------------------------------------------------
(* Safepoints.                                                             *)

(* With a complete root map sweep sees every local of every frame. *)
LEMMA RootsCover ==
  ASSUME RootMapComplete, NEW frames \in Seq(Frame), NEW i \in DOMAIN frames
  PROVE  Range(frames[i].slots) \subseteq StackRoots(frames)
<1>1. frames[i] \in Frame
  OBVIOUS
<1>2. Roots(frames[i].fn) = DOMAIN frames[i].slots
  BY <1>1, FrameParts DEF Roots, RootMapComplete
<1> QED  BY <1>2 DEF StackRoots, Range

LEMMA RootsInLocals ==
  ASSUME TypeOK
  PROVE  StackRoots(stack) \subseteq InLocals
<1>1. ASSUME NEW i \in DOMAIN stack, NEW l \in Roots(stack[i].fn)
      PROVE  stack[i].slots[l] \in Range(stack[i].slots)
  <2>1. stack[i] \in Frame
    BY DEF TypeOK
  <2> QED  BY <2>1, FrameParts DEF Roots, Range
<1> QED  BY <1>1 DEF StackRoots, InLocals

(* The frame pushed on entry holds nothing that sweep could follow. *)
LEMMA PushedRoots ==
  ASSUME TypeOK, NEW fn \in Func, NEW actual, PushStackFrame(fn, actual)
  PROVE  /\ Len(stack') > Len(stack)
         /\ StackRoots(stack') \subseteq StackRoots(stack) \cup {Null}
<1> DEFINE nulled == [l \in FuncLocals[fn] |->
                        IF l \in Roots(fn) THEN Null ELSE EntrySlots(fn, actual)[l]]
           pushed == [fn |-> fn, slots |-> nulled]
<1>1. stack' = Append(stack, pushed)
  BY DEF PushStackFrame
<1>2. \A l \in Roots(pushed.fn) : pushed.slots[l] = Null
  BY DEF Roots
<1> HIDE DEF pushed
<1>3. /\ Len(stack) \in Nat /\ Len(stack') = Len(stack) + 1
      /\ DOMAIN stack = 1..Len(stack) /\ DOMAIN stack' = 1..(Len(stack) + 1)
      /\ stack'[Len(stack) + 1] = pushed
      /\ \A i \in 1..Len(stack) : stack'[i] = stack[i]
  BY <1>1 DEF TypeOK
<1>4. ASSUME NEW i \in DOMAIN stack', NEW l \in Roots(stack'[i].fn)
      PROVE  stack'[i].slots[l] \in StackRoots(stack) \cup {Null}
  <2>1. CASE i = Len(stack) + 1
    BY <1>2, <1>3, <1>4, <2>1
  <2>2. CASE i \in 1..Len(stack)
    BY <1>3, <1>4, <2>2 DEF StackRoots
  <2> QED  BY <1>3, <2>1, <2>2
<1>5. StackRoots(stack') \subseteq StackRoots(stack) \cup {Null}
  BY <1>4 DEF StackRoots
<1> QED  BY <1>3, <1>5

(* Every root leads to an allocated block. *)
LEMMA RootsLive ==
  ASSUME Sound
  PROVE  (StackRoots(stack) \cup DOMAIN rt.extern_refcount) \cap Addr \subseteq DOMAIN rt.heap
<1>1. InLocals \cap Addr \subseteq DOMAIN rt.heap /\ Range(handles) \cap Addr \subseteq DOMAIN rt.heap
  BY DEF Sound, Held
<1> QED  BY <1>1, RootsInLocals, CountedAreHandles DEF Sound

(* What the contract says of blocks, said of the sweep. *)
LEMMA SafeToSweep ==
  ASSUME TypeOK, WritesBeforeReads, AtSafepoint, Wild \notin StackRoots(stack)
  PROVE  ~ReadsWild(rt, StackRoots(stack) \cup DOMAIN rt.extern_refcount)
<1>1. Wild \notin DOMAIN rt.extern_refcount
  BY GcHeapAssumption DEF TypeOK, IsRuntime
<1> QED  BY <1>1 DEF WritesBeforeReads, ReadsWild

LEMMA PushSafe ==
  ASSUME RootMapComplete, Sound, TypeOK', WritesBeforeReads, Wild \notin StackRoots(stack),
         NEW fn \in Func, NEW actual, PushStackFrame(fn, actual),
         handles' = handles, ret' = None
  PROVE  Sound'
<1> DEFINE many == StackRoots(stack) \cup DOMAIN rt.extern_refcount
           few  == StackRoots(stack') \cup DOMAIN rt.extern_refcount
<1>1. IsRuntime(rt) /\ HeapClosed(rt) /\ TypeOK
  BY DEF Sound, TypeOK
<1>2. ~ReadsWild(rt, many)
  BY <1>1, PushedRoots, SafeToSweep DEF AtSafepoint
<1>3. few \cap Addr \subseteq many
  BY <1>1, PushedRoots, GcHeapAssumption
<1>4. Wild \notin few
  BY <1>1, <1>2, PushedRoots, GcHeapAssumption DEF ReadsWild
<1>5. ~ReadsWild(rt, few)
  BY <1>2, <1>3, <1>4, ReadsWildMono
<1>6. few \cap Addr \subseteq DOMAIN rt.heap
  BY <1>3, RootsLive
<1>7. rt' \in Safepoint(rt, StackRoots(stack'))
  BY DEF PushStackFrame
<1>8. /\ rt'.panicked = rt.panicked
      /\ rt'.extern_refcount = rt.extern_refcount
      /\ HeapClosed(rt')
      /\ few \cap Addr \subseteq DOMAIN rt'.heap
  BY <1>1, <1>5, <1>6, <1>7, SafepointSafe DEF RootMapComplete
<1>9. HeldIn(DOMAIN rt.heap)'
  <2>1. \A i \in DOMAIN stack' : Range(stack'[i].slots) \subseteq StackRoots(stack')
    BY RootsCover DEF TypeOK
  <2>2. Range(handles) \cap Addr \subseteq DOMAIN rt'.heap
    BY <1>8, CountedAreHandles DEF Sound
  <2> QED  BY <1>8, <2>1, <2>2, RuntimeAssumption DEF HeldIn, Ptr
<1> QED  BY <1>8, <1>9, HeldPartsPrime, SameCounts DEF Sound, NeverPanics

LEMMA GcDropSafe ==
  ASSUME RootMapComplete, Sound, TypeOK', WritesBeforeReads, NEW h \in Handle, GcDrop(h)
  PROVE  Sound'
<1> DEFINE p == handles[h]
<1>1. /\ IsRuntime(rt) /\ HeapClosed(rt) /\ TypeOK
      /\ handles \in [Handle -> Addr \cup {None}] /\ p \in Addr /\ p # None
      /\ handles' = [handles EXCEPT ![h] = None]
      /\ stack = << >> /\ stack' = stack /\ ret' = None
      /\ rt' \in RefcountDecrement(rt, p, StackRoots(stack))
  BY DEF Sound, TypeOK, GcDrop, InRust
<1>2. ~ReadsWild(rt, StackRoots(stack) \cup DOMAIN rt.extern_refcount)
  <2>1. AtSafepoint /\ Wild \notin StackRoots(stack)
    BY <1>1 DEF AtSafepoint, StackRoots
  <2> QED  BY <1>1, <2>1, SafeToSweep
<1>3. Refcount(rt, p) = Cardinality(Owners(handles, p)) /\ Refcount(rt, p) # 0
  <2>1. Refcount(rt, p) = Cardinality(Owners(handles, p))
    BY <1>1 DEF Sound, RefcountExact, Owners, Holders
  <2> QED  BY <2>1, OwnersCount
<1> HIDE DEF p
<1>4. /\ rt'.panicked = rt.panicked
      /\ HeapClosed(rt')
      /\ \A a : Refcount(rt', a) = IF a = p THEN Refcount(rt, a) - 1
                                            ELSE Refcount(rt, a)
      /\ (StackRoots(stack) \cup DOMAIN rt'.extern_refcount) \cap Addr
           \subseteq DOMAIN rt'.heap
  BY <1>1, <1>2, <1>3, RootsLive, RefcountDecrementSafe DEF RootMapComplete
<1>5. RefcountExact'
  <2> SUFFICES ASSUME NEW a \in Addr
               PROVE  Refcount(rt', a) = Cardinality(Owners(handles', a))
    BY DEF RefcountExact, Owners, Holders
  <2>1. Refcount(rt, a) = Cardinality(Owners(handles, a))
    BY DEF Sound, RefcountExact, Owners, Holders
  <2>2. Cardinality(Owners(handles', a)) =
          Cardinality(Owners(handles, a)) - (IF a = p THEN 1 ELSE 0)
    BY <1>1, OwnersRemove DEF p
  <2>3. Cardinality(Owners(handles, a)) \in Nat
    BY OwnersCount
  <2> QED  BY <1>4, <2>1, <2>2, <2>3
<1>6. (DOMAIN rt.extern_refcount \cap Addr)' = (Range(handles) \cap Addr)'
  <2>1. IsRuntime(rt') /\ handles' \in [Handle -> Addr \cup {None}]
    BY DEF TypeOK
  <2>2. \A a \in Addr : Refcount(rt', a) = Cardinality(Owners(handles', a))
    BY <1>5 DEF RefcountExact, Owners, Holders
  <2> QED  BY <2>1, <2>2, CountedOwners
<1>7. HeldIn(DOMAIN rt.heap)'
  <2>1. DOMAIN stack' = {}
    BY <1>1
  <2>2. ret' \notin Addr
    BY <1>1, RuntimeAssumption DEF Ptr
  <2>3. Range(handles') \cap Addr \subseteq DOMAIN rt'.heap
    BY <1>4, <1>6
  <2> QED  BY <2>1, <2>2, <2>3 DEF HeldIn
<1> QED  BY <1>4, <1>5, <1>7, HeldPartsPrime DEF Sound, NeverPanics

-----------------------------------------------------------------------------
(* Root slots.  Every step either pushes a frame, whose roots are null, or *)
(* leaves each frame there is with its function.                           *)

FramesStay ==
  \A i \in DOMAIN stack' : i \in DOMAIN stack /\ stack'[i].fn = stack[i].fn

LEMMA StaysWritten ==
  ASSUME WritesBeforeReads, Wild \notin StackRoots(stack), FramesStay
  PROVE  Wild \notin StackRoots(stack')
<1> SUFFICES ASSUME NEW i \in DOMAIN stack', NEW l \in Roots(stack'[i].fn)
             PROVE  stack'[i].slots[l] # Wild
  BY DEF StackRoots
<1>1. i \in DOMAIN stack \cap DOMAIN stack' /\ l \in Roots(stack[i].fn)
  BY DEF FramesStay
<1>2. stack[i].slots[l] # Wild
  BY <1>1 DEF StackRoots
<1> QED  BY <1>1, <1>2 DEF WritesBeforeReads

LEMMA SetLocalStays ==
  ASSUME NEW l, NEW v, SetLocal(l, v)
  PROVE  FramesStay
<1>1. ASSUME NEW i \in DOMAIN stack
      PROVE  stack'[i].fn = stack[i].fn
  BY DEF SetLocal
<1> QED  BY <1>1 DEF SetLocal, FramesStay

LEMMA StorePlaceStays ==
  ASSUME NEW r, NEW l, NEW f, NEW v, StorePlace(r, l, f, v)
  PROVE  FramesStay
  BY SetLocalStays DEF StorePlace, FramesStay

LEMMA ReturnStays ==
  ASSUME TypeOK, NEW l, Return(l)
  PROVE  FramesStay
<1>1. stack \in Seq(Frame) /\ stack # << >> /\ stack' = SubSeq(stack, 1, Len(stack) - 1)
  BY DEF TypeOK, Return, Executing, PopStackFrame
<1>2. Len(stack) \in DOMAIN stack
  BY <1>1, TopType
<1> QED  BY <1>1, <1>2, SubSeqProperties DEF FramesStay

LEMMA RootsWritten ==
  ASSUME TypeOK, Next, WritesBeforeReads, Wild \notin StackRoots(stack)
  PROVE  Wild \notin StackRoots(stack')
<1>1. ASSUME NEW fn \in Func, NEW actual, PushStackFrame(fn, actual)
      PROVE  Wild \notin StackRoots(stack')
  BY <1>1, PushedRoots, GcHeapAssumption
<1>2. CASE Emscript
  <2>1. ASSUME NEW l, NEW k, NEW f, NEW g, Assign(l, f, k, g)
        PROVE  FramesStay
    BY <2>1, StorePlaceStays DEF Assign
  <2>2. ASSUME NEW l, NEW f, NEW p, AllocPlace(l, f, p)
        PROVE  FramesStay
    BY <2>2, StorePlaceStays DEF AllocPlace
  <2>3. ASSUME NEW l, StoreRet(l)
        PROVE  FramesStay
    BY <2>3, SetLocalStays DEF StoreRet, FramesStay
  <2>4. ASSUME NEW fn \in Func, NEW k, Call(fn, k)
        PROVE  Wild \notin StackRoots(stack')
    BY <1>1, <2>4 DEF Call
  <2> QED  BY <1>2, <2>1, <2>2, <2>3, <2>4, ReturnStays, StaysWritten DEF Emscript
<1>3. CASE Rust
  <2>1. ASSUME NEW fn \in Func, NEW h, CallFromRust(fn, h)
        PROVE  Wild \notin StackRoots(stack')
    BY <1>1, <2>1 DEF CallFromRust
  <2>2. ASSUME stack' = stack
        PROVE  Wild \notin StackRoots(stack')
    BY <2>2
  <2> QED
    BY <1>3, <2>1, <2>2
       DEF Rust, GcNewFromReturn, GcClone, GcNewFromField, GcNew, GcStoreField, GcDrop
<1> QED  BY <1>2, <1>3 DEF Next

-----------------------------------------------------------------------------
(* The invariant and what follows from it.                                 *)

LEMMA InitSafe == Init => GcInv
<1> SUFFICES ASSUME Init PROVE GcInv
  OBVIOUS
<1>1. TypeOK
  BY InitType
<1>2. RefcountExact
  <2> SUFFICES ASSUME NEW a \in Addr
               PROVE  Refcount(rt, a) = Cardinality(Owners(handles, a))
    BY DEF RefcountExact, Owners, Holders
  <2>1. \A h \in Handle : handles[h] # a
    BY RuntimeAssumption DEF Init, Ptr
  <2> QED  BY <2>1, OwnersCount DEF Init, EmptyRuntime, Refcount
<1>3. Held \cap Addr = {}
  BY RuntimeAssumption DEF Init, Held, InLocals, Range, Ptr
<1>4. NeverPanics /\ HeapClosed(rt)
  BY DEF Init, EmptyRuntime, NeverPanics, HeapClosed
<1>5. Wild \notin StackRoots(stack)
  BY DEF Init, StackRoots
<1> QED  BY <1>1, <1>2, <1>3, <1>4, <1>5 DEF GcInv, Sound

LEMMA StepSound ==
  ASSUME RootMapComplete
  PROVE  GcInv /\ [Next /\ WritesBeforeReads]_vars => Sound'
<1> SUFFICES ASSUME GcInv, [Next /\ WritesBeforeReads]_vars PROVE Sound'
  OBVIOUS
<1>0. Sound /\ Wild \notin StackRoots(stack)
  BY DEF GcInv
<1>1. TypeOK'
  BY <1>0, StepType DEF Sound
<1>2. CASE UNCHANGED vars
  BY <1>0, <1>2 DEF vars, Sound, TypeOK, NeverPanics, HeapClosed, Held, InLocals,
              RefcountExact, Refcount
<1>3. CASE WritesBeforeReads /\ Emscript
  <2>1. ASSUME NEW fn \in Func, NEW k \in Local \cup {None}, Call(fn, k)
        PROVE  Sound'
    <3>1. ret' = None /\ handles' = handles
      BY <2>1 DEF Call, Executing
    <3>2. PushStackFrame(fn, IF k = None THEN Null ELSE Top.slots[k])
      BY <2>1 DEF Call
    <3> QED  BY <1>0, <1>1, <1>3, <3>1, <3>2, PushSafe
  <2> QED
    BY <1>0, <1>1, <1>3, <2>1, AssignSafe, AllocPlaceSafe, ReturnSafe, StoreRetSafe
       DEF Emscript
<1>4. CASE WritesBeforeReads /\ Rust
  <2>1. ASSUME NEW fn \in Func, NEW h \in Handle \cup {None}, CallFromRust(fn, h)
        PROVE  Sound'
    <3>1. ret' = None /\ handles' = handles
      BY <2>1 DEF CallFromRust
    <3>2. PushStackFrame(fn, IF h = None THEN Null ELSE handles[h])
      BY <2>1 DEF CallFromRust
    <3> QED  BY <1>0, <1>1, <1>4, <3>1, <3>2, PushSafe
  <2> QED
    BY <1>0, <1>1, <1>4, <2>1, GcNewSafe, GcStoreFieldSafe, GcDropSafe
       DEF Rust, GcNewFromReturn, GcClone, GcNewFromField
<1> QED  BY <1>2, <1>3, <1>4 DEF Next

LEMMA StepSafe ==
  ASSUME RootMapComplete
  PROVE  GcInv /\ [Next /\ WritesBeforeReads]_vars => GcInv'
<1> SUFFICES ASSUME GcInv, [Next /\ WritesBeforeReads]_vars
             PROVE  Sound' /\ Wild \notin StackRoots(stack')
  BY DEF GcInv
<1>1. CASE UNCHANGED vars
  BY <1>1, StepSound DEF vars, GcInv
<1>2. CASE Next /\ WritesBeforeReads
  BY <1>2, StepSound, RootsWritten DEF GcInv, Sound
<1> QED  BY <1>1, <1>2

(* The collector's invariant holds in every program that respects the      *)
(* contract, at every call depth and with any number of objects.           *)
THEOREM Invariant ==
  ASSUME RootMapComplete
  PROVE  DisciplinedSpec => []GcInv
  BY InitSafe, StepSafe, PTL DEF DisciplinedSpec

(* No use after free: what the program can reach from its locals, handles  *)
(* and return register is never deallocated (sweep).                       *)
THEOREM Safety ==
  ASSUME RootMapComplete
  PROVE  DisciplinedSpec => []NoDangling
<1>1. GcInv => NoDangling
  BY ReachableLive DEF GcInv, Sound, TypeOK, NoDangling, Usable
<1> QED  BY <1>1, Invariant, PTL

(* Marking never looks up an address that is not in the heap table, so no  *)
(* builtin called from compiled code panics.                               *)
THEOREM NoPanic ==
  ASSUME RootMapComplete
  PROVE  DisciplinedSpec => []NeverPanics
<1>1. GcInv => NeverPanics
  BY DEF GcInv, Sound
<1> QED  BY <1>1, Invariant, PTL

(* extern_refcount has exactly one count per Gc<T> in existence.           *)
THEOREM CountsExact ==
  ASSUME RootMapComplete
  PROVE  DisciplinedSpec => []RefcountExact
<1>1. GcInv => RefcountExact
  BY DEF GcInv, Sound
<1> QED  BY <1>1, Invariant, PTL

-----------------------------------------------------------------------------
(* What a step may make reachable.                                         *)

LEMMA UsableType ==
  /\ Usable \in SUBSET Addr
  /\ Held \cap Addr \subseteq Usable
  /\ ClosedUnder(Usable, Linked(rt))
  BY ReachAddr, ReachStart, ReachClosed, LinkedType DEF Usable, ReachableFrom

(* Nothing is reachable that was not, but for the addresses in X, if       *)
(* neither a variable nor a block that was reachable gets to more.         *)
LEMMA UsableStep ==
  ASSUME NEW X \in SUBSET Addr,
         Held' \cap Addr \subseteq Usable \cup X,
         \A a \in Usable \cup X : Linked(rt')[a] \subseteq Usable \cup X
  PROVE  Usable' \subseteq Usable \cup X
<1>1. Usable \cup X \in SUBSET Addr
  BY UsableType
<1>2. ClosedUnder(Usable \cup X, Linked(rt'))
  BY DEF ClosedUnder
<1> HIDE DEF Held
<1>3. Usable' = Reach(Held' \cap Addr, Linked(rt'))
  BY DEF Usable, ReachableFrom
<1> QED  BY <1>1, <1>2, <1>3, ReachLeast

(* Moving pointers about in the same blocks finds nothing new. *)
LEMMA MutateStep ==
  ASSUME Sound, Sound',
         DOMAIN rt'.heap = DOMAIN rt.heap,
         Held' \cap Addr \subseteq Usable,
         \A a \in Usable \cap DOMAIN rt.heap :
            Range(rt'.mem[a]) \cap Addr \subseteq Usable
  PROVE  Collector!Mutate
<1>1. \A a \in Usable : Linked(rt')[a] \subseteq Usable
  BY UsableType DEF Linked
<1>2. Usable \cup {} = Usable
  OBVIOUS
<1>3. Usable' \subseteq Usable
  BY <1>1, <1>2, UsableStep
<1> QED  BY <1>3 DEF Collector!Mutate

LEMMA LinkedUsable ==
  ASSUME NEW a \in Usable \cap DOMAIN rt.heap
  PROVE  Range(rt.mem[a]) \cap Addr \subseteq Usable
<1>1. Linked(rt)[a] \subseteq Usable /\ a \in Addr
  BY UsableType DEF ClosedUnder
<1> QED  BY <1>1 DEF Linked

(* Variables change, blocks do not. *)
LEMMA MoveStep ==
  ASSUME Sound, Sound', rt'.heap = rt.heap, rt'.mem = rt.mem,
         Held' \cap Addr \subseteq Usable
  PROVE  Collector!Mutate
  BY LinkedUsable, MutateStep

(* The pieces of Held after a step. *)
LEMMA HeldNext ==
  ASSUME NEW D,
         \A i \in DOMAIN stack' : Range(stack'[i].slots) \cap Addr \subseteq D,
         Range(handles') \cap Addr \subseteq D,
         ret' \in Addr => ret' \in D
  PROVE  Held' \cap Addr \subseteq D
<1>1. InLocals' \cap Addr \subseteq D
  BY DEF InLocals
<1> QED  BY <1>1 DEF Held

LEMMA HeldUsable ==
  /\ \A i \in DOMAIN stack : Range(stack[i].slots) \cap Addr \subseteq Usable
  /\ Range(handles) \cap Addr \subseteq Usable
  /\ ret \in Addr => ret \in Usable
  BY UsableType, HeldParts DEF HeldIn

LEMMA LocalUsable ==
  ASSUME TypeOK, stack # << >>, NEW l \in DOMAIN Top.slots, Top.slots[l] \in Addr
  PROVE  Top.slots[l] \in Usable
<1>1. Len(stack) \in DOMAIN stack
  BY TopType DEF TypeOK
<1> QED  BY <1>1, HeldUsable DEF Top, Range

LEMMA ReadPlaceUsable ==
  ASSUME Sound, stack # << >>, NEW l, NEW f, IsPlace(l, f), ReadPlace(l, f) \in Addr
  PROVE  ReadPlace(l, f) \in Usable
<1>1. CASE f = None
  BY <1>1, LocalUsable DEF ReadPlace, IsPlace, Sound
<1>2. CASE f # None
  <2> DEFINE a == Top.slots[l]
  <2>1. a \in DOMAIN rt.heap /\ f \in DOMAIN rt.mem[a] /\ a \in Addr
    BY <1>2 DEF IsPlace, Sound, TypeOK, IsRuntime
  <2>2. a \in Usable
    BY <2>1, LocalUsable DEF IsPlace, Sound
  <2>3. rt.mem[a][f] \in Range(rt.mem[a])
    BY <2>1 DEF Range
  <2> QED  BY <1>2, <2>1, <2>2, <2>3, LinkedUsable DEF ReadPlace
<1> QED  BY <1>1, <1>2

LEMMA SetLocalUsable ==
  ASSUME TypeOK, stack # << >>, NEW l \in DOMAIN Top.slots, NEW v,
         NEW D, Usable \subseteq D, v \in Addr => v \in D, SetLocal(l, v)
  PROVE  \A i \in DOMAIN stack' : Range(stack'[i].slots) \cap Addr \subseteq D
<1>1. HeldIn(D)
  BY HeldUsable DEF HeldIn
<1> QED  BY <1>1, SetLocalHeld

(* Storing v through the place in runtime r. *)
LEMMA StorePlaceReach ==
  ASSUME Sound, stack # << >>, NEW l, NEW f, IsPlace(l, f),
         NEW r, IsRuntime(r),
         \A a \in DOMAIN rt.heap : a \in DOMAIN r.heap /\ r.heap[a] = rt.heap[a],
         NEW v, StorePlace(r, l, f, v),
         NEW D, Usable \subseteq D, v \in Addr => v \in D
  PROVE  /\ rt'.heap = r.heap
         /\ \A a \in DOMAIN r.heap : Range(rt'.mem[a]) \subseteq Range(r.mem[a]) \cup {v}
         /\ \A i \in DOMAIN stack' : Range(stack'[i].slots) \cap Addr \subseteq D
<1>1. CASE f = None
  BY <1>1, SetLocalUsable DEF StorePlace, IsPlace, Sound
<1>2. CASE f # None
  <2> DEFINE mem == [r.mem EXCEPT ![Top.slots[l]][f] = v]
  <2>1. rt' = [r EXCEPT !.mem = mem] /\ stack' = stack
    BY <1>2 DEF StorePlace
  <2>2. rt'.heap = r.heap /\ rt'.mem = mem
    BY <2>1 DEF IsRuntime
  <2>3. \A a \in DOMAIN r.heap : Range(mem[a]) \subseteq Range(r.mem[a]) \cup {v}
    BY DEF IsRuntime, Range
  <2> HIDE DEF mem
  <2> QED  BY <2>1, <2>2, <2>3, HeldUsable
<1> QED  BY <1>1, <1>2

-----------------------------------------------------------------------------
(* Each action as a step of the abstract collector.                        *)

LEMMA AssignRefines ==
  ASSUME Sound, Sound', NEW l, NEW f, NEW k, NEW g, Assign(l, f, k, g)
  PROVE  Collector!Mutate
<1> USE DEF Executing
<1> DEFINE v == ReadPlace(k, g)
<1>1. v \in Addr => v \in Usable
  BY ReadPlaceUsable DEF Assign
<1>2. /\ StorePlace(rt, l, f, v) /\ IsPlace(l, f) /\ stack # << >>
      /\ ret' = ret /\ handles' = handles
      /\ IsRuntime(rt)
  BY DEF Assign, Sound, TypeOK
<1> HIDE DEF v
<1>3. /\ rt'.heap = rt.heap
      /\ \A a \in DOMAIN rt.heap : Range(rt'.mem[a]) \subseteq Range(rt.mem[a]) \cup {v}
      /\ \A i \in DOMAIN stack' : Range(stack'[i].slots) \cap Addr \subseteq Usable
  BY <1>1, <1>2, StorePlaceReach
<1>4. Held' \cap Addr \subseteq Usable
  BY <1>2, <1>3, HeldNext, HeldUsable
<1>5. \A a \in Usable \cap DOMAIN rt.heap : Range(rt'.mem[a]) \cap Addr \subseteq Usable
  BY <1>1, <1>3, LinkedUsable
<1> QED  BY <1>3, <1>4, <1>5, MutateStep

LEMMA AllocPlaceRefines ==
  ASSUME Sound, Sound', NEW l \in Local, NEW f \in Field \cup {None}, NEW p \in Addr,
         AllocPlace(l, f, p)
  PROVE  Collector!Alloc(p)
<1> USE DEF Executing
<1> DEFINE r == AllocGc(rt, p, Pointee(l, f))
           D == Usable \cup {p}
<1>1. Pointee(l, f) \in RtType
  BY GcHeapAssumption, RuntimeAssumption DEF AllocPlace, IsPlace, Pointee, PtrFields
<1>2. IsRuntime(r)
  BY <1>1, AllocGcType, GcHeapAssumption DEF Sound, TypeOK
<1>3. /\ DOMAIN r.heap = DOMAIN rt.heap \cup {p} /\ p \notin DOMAIN rt.heap
      /\ \A a \in DOMAIN rt.heap : r.heap[a] = rt.heap[a] /\ r.mem[a] = rt.mem[a]
      /\ Range(r.mem[p]) \subseteq {Wild}
  BY DEF r, AllocPlace, AllocGc, WithBlocks, Range
<1>4. /\ StorePlace(r, l, f, p) /\ IsPlace(l, f) /\ stack # << >>
      /\ ret' = ret /\ handles' = handles
  BY DEF AllocPlace
<1> HIDE DEF r
<1>5. /\ rt'.heap = r.heap
      /\ \A a \in DOMAIN r.heap : Range(rt'.mem[a]) \subseteq Range(r.mem[a]) \cup {p}
      /\ \A i \in DOMAIN stack' : Range(stack'[i].slots) \cap Addr \subseteq D
  <2>1. \A a \in DOMAIN rt.heap : a \in DOMAIN r.heap /\ r.heap[a] = rt.heap[a]
    BY <1>3
  <2>2. Usable \subseteq D /\ (p \in Addr => p \in D)
    OBVIOUS
  <2> HIDE DEF D
  <2> QED  BY <1>2, <1>4, <2>1, <2>2, StorePlaceReach
<1>6. Held' \cap Addr \subseteq D
  BY <1>4, <1>5, HeldNext, HeldUsable
<1>7. \A a \in D : Linked(rt')[a] \subseteq D
  <2> SUFFICES ASSUME NEW a \in D  PROVE Linked(rt')[a] \subseteq D
    OBVIOUS
  <2>0. a \in Addr
    BY UsableType
  <2>1. CASE a \in DOMAIN rt.heap
    <3>1. a \in Usable
      BY <1>3, <2>1
    <3>2. Range(rt'.mem[a]) \cap Addr \subseteq D
      BY <1>3, <1>5, <2>1, <3>1, LinkedUsable
    <3> QED  BY <2>0, <3>2 DEF Linked
  <2>2. CASE a = p
    BY <1>3, <1>5, <2>0, <2>2, GcHeapAssumption DEF Linked
  <2>3. CASE a \notin DOMAIN rt'.heap
    BY <2>0, <2>3 DEF Linked
  <2> QED  BY <1>3, <1>5, <2>1, <2>2, <2>3
<1>8. Usable' \subseteq D
  <2>1. /\ Held' \cap Addr \subseteq Usable \cup {p}
        /\ \A a \in Usable \cup {p} : Linked(rt')[a] \subseteq Usable \cup {p}
    BY <1>6, <1>7
  <2>2. {p} \in SUBSET Addr
    OBVIOUS
  <2> QED  BY <2>1, <2>2, UsableStep
<1> QED  BY <1>3, <1>5, <1>8 DEF Collector!Alloc

LEMMA ReturnRefines ==
  ASSUME Sound, Sound', NEW l, Return(l)
  PROVE  Collector!Mutate
<1> USE DEF Executing
<1>1. TypeOK /\ stack # << >> /\ rt' = rt /\ handles' = handles
  BY DEF Sound, Return, PopStackFrame
<1>2. \A i \in DOMAIN stack' : i \in DOMAIN stack /\ stack'[i] = stack[i]
  BY <1>1, SubSeqProperties DEF Return, PopStackFrame, TypeOK
<1>3. ret' \in Addr => ret' \in Usable
  BY <1>1, LocalUsable, RuntimeAssumption DEF Return, Ptr
<1>4. Held' \cap Addr \subseteq Usable
  BY <1>1, <1>2, <1>3, HeldNext, HeldUsable
<1> QED  BY <1>1, <1>4, MoveStep

LEMMA StoreRetRefines ==
  ASSUME Sound, Sound', NEW l, StoreRet(l)
  PROVE  Collector!Mutate
<1>1. TypeOK /\ stack # << >> /\ rt' = rt /\ handles' = handles /\ ret' = None
  BY DEF Sound, StoreRet
<1>2. \A i \in DOMAIN stack' : Range(stack'[i].slots) \cap Addr \subseteq Usable
  <2>1. CASE l \in DOMAIN Top.slots /\ SetLocal(l, ret)
    BY <1>1, <2>1, SetLocalUsable, HeldUsable
  <2>2. CASE UNCHANGED stack
    BY <2>2, HeldUsable
  <2> QED  BY <2>1, <2>2 DEF StoreRet
<1>3. Held' \cap Addr \subseteq Usable
  BY <1>1, <1>2, HeldNext, HeldUsable, RuntimeAssumption DEF Ptr
<1> QED  BY <1>1, <1>3, MoveStep

LEMMA GcNewRefines ==
  ASSUME Sound, Sound', NEW h \in Handle, NEW p, p \in Addr => p \in Usable, GcNew(h, p)
  PROVE  Collector!Mutate
<1>1. TypeOK /\ ret' = None /\ stack' = stack /\ p \in Usable
  BY DEF Sound, GcNew, TypeOK, IsRuntime
<1>2. rt'.heap = rt.heap /\ rt'.mem = rt.mem
  BY <1>1, RefcountIncrementExact DEF GcNew, TypeOK
<1>3. Range(handles') \subseteq Range(handles) \cup {p}
  BY <1>1 DEF GcNew, TypeOK, Range
<1>4. Held' \cap Addr \subseteq Usable
  BY <1>1, <1>3, HeldNext, HeldUsable, RuntimeAssumption DEF Ptr
<1> QED  BY <1>2, <1>4, MoveStep

LEMMA HandleUsable ==
  ASSUME TypeOK, NEW h \in Handle, handles[h] \in Addr
  PROVE  handles[h] \in Usable
  BY HeldUsable DEF TypeOK, Range

LEMMA GcNewFromFieldRefines ==
  ASSUME Sound, Sound', NEW h \in Handle, NEW from \in Handle, NEW f,
         GcNewFromField(h, from, f)
  PROVE  Collector!Mutate
<1> DEFINE a == handles[from]
<1>1. a \in DOMAIN rt.heap /\ f \in DOMAIN rt.mem[a] /\ a \in Addr /\ TypeOK
  BY DEF GcNewFromField, Sound, TypeOK, IsRuntime
<1>2. a \in Usable
  BY <1>1, HandleUsable
<1>3. rt.mem[a][f] \in Range(rt.mem[a])
  BY <1>1 DEF Range
<1>4. rt.mem[a][f] \in Addr => rt.mem[a][f] \in Usable
  BY <1>1, <1>2, <1>3, LinkedUsable
<1> QED  BY <1>4, GcNewRefines DEF GcNewFromField

LEMMA GcStoreFieldRefines ==
  ASSUME Sound, Sound', NEW h \in Handle, NEW f, NEW from \in Handle \cup {None},
         GcStoreField(h, f, from)
  PROVE  Collector!Mutate
<1> DEFINE v   == IF from = None THEN Null ELSE handles[from]
           mem == [rt.mem EXCEPT ![handles[h]][f] = v]
<1>1. IsRuntime(rt) /\ TypeOK /\ stack' = stack /\ ret' = ret /\ handles' = handles
  BY DEF Sound, TypeOK, GcStoreField
<1>2. v \in Addr => v \in Usable
  BY <1>1, HandleUsable, GcHeapAssumption
<1>3. rt' = [rt EXCEPT !.mem = mem]
  BY DEF GcStoreField
<1> HIDE DEF v
<1>4. \A a \in DOMAIN rt.heap : Range(mem[a]) \subseteq Range(rt.mem[a]) \cup {v}
  BY <1>1 DEF IsRuntime, Range
<1> HIDE DEF mem
<1>5. rt'.heap = rt.heap /\ rt'.mem = mem
  BY <1>1, <1>3 DEF IsRuntime
<1>6. Held' \cap Addr \subseteq Usable
  BY <1>1, HeldNext, HeldUsable
<1>7. \A a \in Usable \cap DOMAIN rt.heap : Range(rt'.mem[a]) \cap Addr \subseteq Usable
  BY <1>2, <1>4, <1>5, LinkedUsable
<1> QED  BY <1>5, <1>6, <1>7, MutateStep

-----------------------------------------------------------------------------
(* Safepoints as steps of the abstract collector.                          *)

LEMMA SafepointRefines ==
  ASSUME RootMapComplete, Sound, Sound',
         NEW r, IsRuntime(r), r.heap = rt.heap, r.mem = rt.mem, NEW stackRoots,
         (stackRoots \cup DOMAIN r.extern_refcount) \cap Addr \subseteq DOMAIN r.heap,
         ~ReadsWild(r, stackRoots \cup DOMAIN r.extern_refcount),
         Held' \cap Addr = (stackRoots \cup DOMAIN r.extern_refcount) \cap Addr,
         Held' \cap Addr \subseteq Usable,
         rt' \in Safepoint(r, stackRoots)
  PROVE  Collector!Mutate \/ Collector!Collect
<1>0. HeapClosed(r)
  BY DEF Sound, HeapClosed
<1>1. CASE rt' = r
  BY <1>1, MoveStep
<1>2. CASE rt' # r
  <2>1. DOMAIN rt'.heap = ReachableFrom(rt', Held')
    BY <1>0, <1>2, SweepExact DEF RootMapComplete
  <2>2. DOMAIN rt'.heap = Usable'
    BY <2>1 DEF Usable
  <2>3. \A a \in DOMAIN rt'.heap : a \in DOMAIN rt.heap /\ rt'.mem[a] = rt.mem[a]
    <3> DEFINE roots == stackRoots \cup DOMAIN r.extern_refcount
               live  == Marked(r, roots)
    <3>1. rt' = SweepReading(r, roots, {})
      BY <1>2 DEF Safepoint, Sweep
    <3>2. live \subseteq DOMAIN r.heap /\ roots \cup {} = roots
      BY <1>0, MarkedLive
    <3>3. rt' = WithBlocks(r, Restrict(r.heap, live), Restrict(r.mem, live))
      BY <3>1, <3>2 DEF SweepReading
    <3> HIDE DEF live
    <3> QED  BY <3>2, <3>3 DEF WithBlocks, Restrict
  <2>4. \A a \in Usable : Linked(rt')[a] \subseteq Usable
    <3> SUFFICES ASSUME NEW a \in Usable  PROVE Linked(rt')[a] \subseteq Usable
      OBVIOUS
    <3>1. a \in Addr
      BY UsableType
    <3>2. CASE a \in DOMAIN rt'.heap
      BY <2>3, <3>1, <3>2, LinkedUsable DEF Linked
    <3>3. CASE a \notin DOMAIN rt'.heap
      BY <3>1, <3>3 DEF Linked
    <3> QED  BY <3>2, <3>3
  <2>5. Usable \cup {} = Usable
    OBVIOUS
  <2>6. Usable' \subseteq Usable
    BY <2>4, <2>5, UsableStep
  <2> QED  BY <2>2, <2>6 DEF Collector!Collect
<1> QED  BY <1>1, <1>2

(* With a complete root map, what sweep reads is what the locals hold. *)
LEMMA RootsAreLocals ==
  ASSUME RootMapComplete, NEW frames \in Seq(Frame)
  PROVE  StackRoots(frames) = UNION {Range(frames[i].slots) : i \in DOMAIN frames}
<1>1. ASSUME NEW i \in DOMAIN frames
      PROVE  Range(frames[i].slots) = {frames[i].slots[l] : l \in Roots(frames[i].fn)}
  <2>1. frames[i] \in Frame
    OBVIOUS
  <2>2. Roots(frames[i].fn) = DOMAIN frames[i].slots
    BY <2>1, FrameParts DEF Roots, RootMapComplete
  <2> QED  BY <2>2 DEF Range
<1> DEFINE read(i) == {frames[i].slots[l] : l \in Roots(frames[i].fn)}
           held(i) == Range(frames[i].slots)
<1>2. \A i \in DOMAIN frames : held(i) = read(i)
  BY <1>1
<1> HIDE DEF read, held
<1>3. {read(i) : i \in DOMAIN frames} = {held(i) : i \in DOMAIN frames}
  BY <1>2
<1> QED  BY <1>3 DEF StackRoots, read, held

LEMMA PushRefines ==
  ASSUME RootMapComplete, Sound, Sound', WritesBeforeReads, Wild \notin StackRoots(stack),
         NEW fn \in Func, NEW actual, PushStackFrame(fn, actual),
         handles' = handles, ret' = None
  PROVE  Collector!Mutate \/ Collector!Collect
<1> DEFINE many == StackRoots(stack) \cup DOMAIN rt.extern_refcount
           few  == StackRoots(stack') \cup DOMAIN rt.extern_refcount
<1>1. IsRuntime(rt) /\ HeapClosed(rt) /\ TypeOK /\ RefcountExact /\ stack' \in Seq(Frame)
  BY DEF Sound, TypeOK
<1>2. ~ReadsWild(rt, many)
  BY <1>1, PushedRoots, SafeToSweep DEF AtSafepoint
<1>3. few \cap Addr \subseteq many
  BY <1>1, PushedRoots, GcHeapAssumption
<1>4. Wild \notin few
  BY <1>1, <1>2, PushedRoots, GcHeapAssumption DEF ReadsWild
<1>5. ~ReadsWild(rt, few)
  BY <1>2, <1>3, <1>4, ReadsWildMono
<1>6. few \cap Addr \subseteq DOMAIN rt.heap
  BY <1>3, RootsLive
<1>7. Held' \cap Addr = few \cap Addr
  <2>1. InLocals' = StackRoots(stack')
    BY <1>1, RootsAreLocals DEF InLocals
  <2>2. DOMAIN rt.extern_refcount \cap Addr = Range(handles) \cap Addr
    BY <1>1, CountedAreHandles
  <2>3. None \notin Addr
    BY RuntimeAssumption DEF Ptr
  <2>4. Held' = InLocals' \cup Range(handles) \cup {None}
    BY DEF Held
  <2> QED  BY <2>1, <2>2, <2>3, <2>4
<1>8. Held' \cap Addr \subseteq Usable
  <2>1. many \cap Addr \subseteq Held
    BY <1>1, RootsInLocals, CountedAreHandles DEF Held
  <2> QED  BY <1>3, <1>7, <2>1, UsableType
<1>9. rt' \in Safepoint(rt, StackRoots(stack'))
  BY DEF PushStackFrame
<1> QED  BY <1>1, <1>5, <1>6, <1>7, <1>8, <1>9, SafepointRefines

LEMMA GcDropRefines ==
  ASSUME RootMapComplete, Sound, Sound', WritesBeforeReads, NEW h \in Handle, GcDrop(h)
  PROVE  Collector!Mutate \/ Collector!Collect
<1> DEFINE p == handles[h]
<1>1. /\ IsRuntime(rt) /\ TypeOK
      /\ handles \in [Handle -> Addr \cup {None}] /\ p \in Addr /\ p # None
      /\ handles' = [handles EXCEPT ![h] = None]
      /\ stack = << >> /\ stack' = stack /\ ret' = None
      /\ rt' \in RefcountDecrement(rt, p, StackRoots(stack))
  BY DEF Sound, TypeOK, GcDrop, InRust
<1>2. ~ReadsWild(rt, StackRoots(stack) \cup DOMAIN rt.extern_refcount)
  <2>1. AtSafepoint /\ Wild \notin StackRoots(stack)
    BY <1>1 DEF AtSafepoint, StackRoots
  <2> QED  BY <1>1, <2>1, SafeToSweep
<1>3. StackRoots(stack) = {}
  BY <1>1 DEF StackRoots
<1>4. Held' \cap Addr = Range(handles') \cap Addr
  <2>1. InLocals' = {}
    BY <1>1 DEF InLocals
  <2> QED  BY <1>1, <2>1, RuntimeAssumption DEF Held, Ptr
<1>5. Held' \cap Addr \subseteq Usable
  <2>1. Range(handles') \subseteq Range(handles) \cup {None}
    BY <1>1 DEF Range
  <2> QED  BY <1>4, <2>1, HeldUsable, RuntimeAssumption DEF Ptr
<1>6. Refcount(rt, p) \in Nat \ {0}
  <2>1. Refcount(rt, p) = Cardinality(Owners(handles, p))
    BY <1>1 DEF Sound, RefcountExact, Owners, Holders
  <2> QED  BY <1>1, <2>1, OwnersCount
<1> HIDE DEF p
<1>7. CASE Refcount(rt, p) = 1
  <2> DEFINE t == [rt EXCEPT !.extern_refcount =
                     Restrict(rt.extern_refcount, DOMAIN rt.extern_refcount \ {p})]
  <2>1. rt' \in Safepoint(t, StackRoots(stack))
    BY <1>1, <1>7 DEF RefcountDecrement
  <2>2. /\ IsRuntime(t) /\ t.heap = rt.heap /\ t.mem = rt.mem
        /\ \A a : Refcount(t, a) = IF a = p THEN 0 ELSE Refcount(rt, a)
    BY <1>1, RemoveCountExact
  <2>3. DOMAIN t.extern_refcount \subseteq DOMAIN rt.extern_refcount
    BY <1>1 DEF IsRuntime, Restrict
  <2> HIDE DEF t
  <2>4. Wild \notin StackRoots(stack) \cup DOMAIN t.extern_refcount
    BY <1>2, <2>3 DEF ReadsWild
  <2>5. ~ReadsWild(t, StackRoots(stack) \cup DOMAIN t.extern_refcount)
    BY <1>2, <2>2, <2>3, <2>4, ReadsWildMono
  <2>6. (StackRoots(stack) \cup DOMAIN t.extern_refcount) \cap Addr \subseteq DOMAIN t.heap
    BY <2>2, <2>3, RootsLive
  <2>7. DOMAIN t.extern_refcount \cap Addr = Range(handles') \cap Addr
    <3>1. handles' \in [Handle -> Addr \cup {None}]
      BY <1>1
    <3>2. ASSUME NEW a \in Addr
          PROVE  Refcount(t, a) = Cardinality(Owners(handles', a))
      <4>1. Refcount(rt, a) = Cardinality(Owners(handles, a))
        BY DEF Sound, RefcountExact, Owners, Holders
      <4>2. Cardinality(Owners(handles', a)) =
              Cardinality(Owners(handles, a)) - (IF a = p THEN 1 ELSE 0)
        BY <1>1, OwnersRemove DEF p
      <4>3. Cardinality(Owners(handles, a)) \in Nat
        BY OwnersCount
      <4> QED  BY <1>7, <2>2, <4>1, <4>2, <4>3
    <3> QED  BY <2>2, <3>1, <3>2, CountedOwners
  <2>8. Held' \cap Addr = (StackRoots(stack) \cup DOMAIN t.extern_refcount) \cap Addr
    BY <1>3, <1>4, <2>7
  <2> QED  BY <1>5, <2>1, <2>2, <2>5, <2>6, <2>8, SafepointRefines
<1>8. CASE Refcount(rt, p) # 1
  <2>1. rt' = [rt EXCEPT !.extern_refcount[p] = @ - 1]
    BY <1>1, <1>6, <1>8 DEF RefcountDecrement
  <2>2. rt'.heap = rt.heap /\ rt'.mem = rt.mem
    BY <1>1, <1>6, <2>1, LowerCountExact
  <2> QED  BY <1>5, <2>2, MoveStep
<1> QED  BY <1>7, <1>8

-----------------------------------------------------------------------------
LEMMA InitRefines == Init => Collector!Init
<1> SUFFICES ASSUME Init PROVE Collector!Init
  OBVIOUS
<1>1. Sound /\ DOMAIN rt.heap = {}
  BY InitSafe DEF GcInv, Init, EmptyRuntime
<1>2. Usable \subseteq DOMAIN rt.heap
  BY <1>1, ReachableLive DEF Sound, TypeOK, Usable
<1> QED  BY <1>1, <1>2 DEF Collector!Init

LEMMA StepRefines ==
  ASSUME RootMapComplete
  PROVE  GcInv /\ GcInv' /\ [Next /\ WritesBeforeReads]_vars
           => [Collector!Next]_(Collector!vars)
<1> SUFFICES ASSUME GcInv, GcInv', [Next /\ WritesBeforeReads]_vars
             PROVE  [Collector!Next]_(Collector!vars)
  OBVIOUS
<1>0. Sound /\ Sound' /\ Wild \notin StackRoots(stack)
  BY DEF GcInv
<1>1. CASE UNCHANGED vars
  <2>1. UNCHANGED <<DOMAIN rt.heap, Usable>>
    BY <1>1 DEF vars, Usable, Held, InLocals
  <2> QED  BY <2>1 DEF Collector!vars
<1>2. CASE WritesBeforeReads /\ Emscript
  <2>1. ASSUME NEW fn \in Func, NEW k \in Local \cup {None}, Call(fn, k)
        PROVE  Collector!Mutate \/ Collector!Collect
    <3>1. ret' = None /\ handles' = handles
      BY <2>1 DEF Call, Executing
    <3>2. PushStackFrame(fn, IF k = None THEN Null ELSE Top.slots[k])
      BY <2>1 DEF Call
    <3> QED  BY <1>0, <1>2, <3>1, <3>2, PushRefines
  <2>2. Collector!Next
    BY <1>0, <1>2, <2>1, AssignRefines, AllocPlaceRefines, ReturnRefines, StoreRetRefines
       DEF Emscript, Collector!Next
  <2> QED  BY <2>2
<1>3. CASE WritesBeforeReads /\ Rust
  <2>1. ASSUME NEW fn \in Func, NEW h \in Handle \cup {None}, CallFromRust(fn, h)
        PROVE  Collector!Mutate \/ Collector!Collect
    <3>1. ret' = None /\ handles' = handles
      BY <2>1 DEF CallFromRust
    <3>2. PushStackFrame(fn, IF h = None THEN Null ELSE handles[h])
      BY <2>1 DEF CallFromRust
    <3> QED  BY <1>0, <1>3, <3>1, <3>2, PushRefines
  <2>2. ASSUME NEW h \in Handle, GcNewFromReturn(h)
        PROVE  Collector!Mutate
    BY <1>0, <2>2, HeldUsable, GcNewRefines DEF GcNewFromReturn
  <2>3. ASSUME NEW h \in Handle, NEW from \in Handle, GcClone(h, from)
        PROVE  Collector!Mutate
    BY <1>0, <2>3, HandleUsable, GcNewRefines DEF GcClone, Sound
  <2>4. Collector!Next
    BY <1>0, <1>3, <2>1, <2>2, <2>3, GcNewFromFieldRefines, GcStoreFieldRefines,
       GcDropRefines
       DEF Rust, Collector!Next
  <2> QED  BY <2>4
<1> QED  BY <1>1, <1>2, <1>3 DEF Next

(* A program that respects the contract sees a collector that frees all of *)
(* its garbage at once and nothing but garbage, and finds nothing again    *)
(* that was lost: the runtime with its frames, counts and marking          *)
(* implements AbstractGc.                                                  *)
THEOREM Refinement ==
  ASSUME RootMapComplete
  PROVE  DisciplinedSpec => ImplementsCollector
  BY InitRefines, StepRefines, InitSafe, StepSafe, PTL
     DEF DisciplinedSpec, ImplementsCollector, Collector!Spec

-----------------------------------------------------------------------------
(* Types.  WellTyped speaks of the blocks the program can reach; what the  *)
(* steps preserve holds of the garbage as well.                            *)

SlotsTyped(heap, slots) ==
  \A l \in DOMAIN slots : slots[l] \in Addr => heap[slots[l]] = LocalType[l]

FramesTyped(heap, frames) ==
  \A i \in DOMAIN frames : SlotsTyped(heap, frames[i].slots)

FieldsTyped(r) ==
  \A a \in DOMAIN r.heap : \A f \in DOMAIN r.mem[a] :
     r.mem[a][f] \in Addr => r.heap[r.mem[a][f]] = FieldType[r.heap[a]][f]

Typed == Sound /\ FramesTyped(rt.heap, stack) /\ FieldsTyped(rt)

LEMMA SlotLive ==
  ASSUME Sound, NEW i \in DOMAIN stack, NEW l \in DOMAIN stack[i].slots,
         stack[i].slots[l] \in Addr
  PROVE  stack[i].slots[l] \in DOMAIN rt.heap
<1>1. stack[i].slots[l] \in Range(stack[i].slots)
  BY DEF Range
<1> QED  BY <1>1, HeldParts DEF Sound, HeldIn

LEMMA FieldLive ==
  ASSUME NEW r, IsRuntime(r), HeapClosed(r), NEW a \in DOMAIN r.heap,
         NEW f \in DOMAIN r.mem[a], r.mem[a][f] \in Addr
  PROVE  r.mem[a][f] \in DOMAIN r.heap
  BY DEF HeapClosed, Range

LEMMA TopSlot ==
  ASSUME Typed, stack # << >>, NEW l \in DOMAIN Top.slots, Top.slots[l] \in Addr
  PROVE  Top.slots[l] \in DOMAIN rt.heap /\ rt.heap[Top.slots[l]] = LocalType[l]
<1>1. Len(stack) \in DOMAIN stack /\ Top = stack[Len(stack)]
  BY TopType DEF Typed, Sound, TypeOK, Top
<1> QED  BY <1>1, SlotLive DEF Typed, FramesTyped, SlotsTyped

(* A place yields pointers of the type it declares. *)
LEMMA ReadPlaceTyped ==
  ASSUME Typed, stack # << >>, NEW l, NEW f, IsPlace(l, f), ReadPlace(l, f) \in Addr
  PROVE  /\ ReadPlace(l, f) \in DOMAIN rt.heap
         /\ rt.heap[ReadPlace(l, f)] = Pointee(l, f)
<1>1. CASE f = None
  BY <1>1, TopSlot DEF IsPlace, ReadPlace, Pointee
<1>2. CASE f # None
  <2> DEFINE a == Top.slots[l]
  <2>1. /\ a \in DOMAIN rt.heap /\ a \in Addr /\ f \in DOMAIN rt.mem[a]
        /\ IsRuntime(rt) /\ HeapClosed(rt)
    BY <1>2 DEF IsPlace, Typed, Sound, TypeOK, IsRuntime
  <2>2. rt.heap[a] = LocalType[l]
    BY <2>1, TopSlot DEF IsPlace
  <2>3. ReadPlace(l, f) = rt.mem[a][f] /\ Pointee(l, f) = FieldType[LocalType[l]][f]
    BY <1>2 DEF ReadPlace, Pointee
  <2>4. rt.mem[a][f] \in DOMAIN rt.heap
    BY <2>1, <2>3, FieldLive
  <2> QED  BY <2>1, <2>2, <2>3, <2>4 DEF Typed, FieldsTyped
<1> QED  BY <1>1, <1>2

LEMMA SetLocalTyped ==
  ASSUME TypeOK, stack # << >>, NEW l \in DOMAIN Top.slots, NEW v, NEW heap,
         FramesTyped(heap, stack), v \in Addr => heap[v] = LocalType[l],
         SetLocal(l, v)
  PROVE  FramesTyped(heap, stack')
<1> DEFINE n   == Len(stack)
           top == [fn |-> Top.fn, slots |-> [Top.slots EXCEPT ![l] = v]]
<1>1. stack' = [stack EXCEPT ![n] = top]
  <2>1. stack' = [stack EXCEPT ![n] = [Top EXCEPT !.slots[l] = v]]
    BY DEF SetLocal, Top
  <2> QED  BY <2>1, TopType, FrameExcept
<1>2. n \in DOMAIN stack /\ DOMAIN stack' = DOMAIN stack
  BY <1>1, TopType DEF TypeOK
<1>3. SlotsTyped(heap, Top.slots)
  BY <1>2 DEF FramesTyped, Top
<1>4. SlotsTyped(heap, top.slots)
  BY <1>3 DEF SlotsTyped
<1> HIDE DEF top
<1>5. \A i \in DOMAIN stack : stack'[i] = IF i = n THEN top ELSE stack[i]
  BY <1>1
<1> QED  BY <1>2, <1>4, <1>5 DEF FramesTyped

(* s is r with v stored in field f of block a. *)
Stored(r, a, f, v, s) ==
  /\ s.heap = r.heap
  /\ \A b \in DOMAIN r.heap :
        /\ DOMAIN s.mem[b] = DOMAIN r.mem[b]
        /\ \A g \in DOMAIN r.mem[b] :
              s.mem[b][g] = IF b = a /\ g = f THEN v ELSE r.mem[b][g]

LEMMA StoreFieldIs ==
  ASSUME NEW r, IsRuntime(r), NEW a \in DOMAIN r.heap, NEW f, NEW v
  PROVE  Stored(r, a, f, v, [r EXCEPT !.mem[a][f] = v])
<1> DEFINE mem == [r.mem EXCEPT ![a][f] = v]
           s   == [r EXCEPT !.mem = mem]
<1>1. s.heap = r.heap /\ s.mem = mem
  BY DEF IsRuntime
<1>2. \A b \in DOMAIN r.heap :
        /\ DOMAIN mem[b] = DOMAIN r.mem[b]
        /\ \A g \in DOMAIN r.mem[b] :
              mem[b][g] = IF b = a /\ g = f THEN v ELSE r.mem[b][g]
  BY DEF IsRuntime
<1>3. s = [r EXCEPT !.mem[a][f] = v]
  OBVIOUS
<1> HIDE DEF mem, s
<1>4. Stored(r, a, f, v, s)
  BY <1>1, <1>2 DEF Stored
<1> QED  BY <1>3, <1>4

LEMMA StoreFieldTyped ==
  ASSUME NEW r, FieldsTyped(r), NEW a, NEW f,
         NEW v, v \in Addr => r.heap[v] = FieldType[r.heap[a]][f],
         Stored(r, a, f, v, rt')
  PROVE  FieldsTyped(rt') /\ rt'.heap = r.heap
<1>1. ASSUME NEW b \in DOMAIN r.heap, NEW g \in DOMAIN r.mem[b],
             rt'.mem[b][g] \in Addr
      PROVE  r.heap[rt'.mem[b][g]] = FieldType[r.heap[b]][g]
  BY <1>1 DEF FieldsTyped, Stored
<1> QED  BY <1>1 DEF FieldsTyped, Stored

LEMMA StorePlaceTyped ==
  ASSUME Typed, stack # << >>, NEW l, NEW f, IsPlace(l, f),
         NEW r, IsRuntime(r), FieldsTyped(r),
         \A a \in DOMAIN rt.heap : a \in DOMAIN r.heap /\ r.heap[a] = rt.heap[a],
         NEW v, v \in Addr => r.heap[v] = Pointee(l, f),
         StorePlace(r, l, f, v)
  PROVE  FieldsTyped(rt') /\ FramesTyped(rt'.heap, stack')
<1>1. FramesTyped(r.heap, stack)
  BY SlotLive DEF Typed, FramesTyped, SlotsTyped
<1>2. CASE f = None
  <2>1. rt' = r /\ SetLocal(l, v) /\ l \in DOMAIN Top.slots /\ Pointee(l, f) = LocalType[l]
    BY <1>2 DEF StorePlace, IsPlace, Pointee
  <2> QED  BY <1>1, <2>1, SetLocalTyped DEF Typed, Sound
<1>3. CASE f # None
  <2> DEFINE a == Top.slots[l]
  <2>1. /\ rt' = [r EXCEPT !.mem[a][f] = v] /\ stack' = stack
        /\ a \in DOMAIN rt.heap /\ a \in DOMAIN r.heap /\ r.heap[a] = rt.heap[a]
        /\ Pointee(l, f) = FieldType[LocalType[l]][f]
    BY <1>3 DEF StorePlace, IsPlace, Pointee
  <2>2. rt.heap[a] = LocalType[l]
    BY <2>1, TopSlot DEF IsPlace, Typed, Sound, TypeOK, IsRuntime
  <2>3. v \in Addr => r.heap[v] = FieldType[r.heap[a]][f]
    BY <2>1, <2>2
  <2>4. Stored(r, a, f, v, rt')
    BY <2>1, StoreFieldIs
  <2> HIDE DEF a
  <2>5. FieldsTyped(rt') /\ rt'.heap = r.heap
    BY <2>3, <2>4, StoreFieldTyped
  <2> QED  BY <1>1, <2>1, <2>5
<1> QED  BY <1>2, <1>3

LEMMA AllocTyped ==
  ASSUME GcHeapAssumption, NEW r, IsRuntime(r), HeapClosed(r), FieldsTyped(r),
         NEW p \in Addr, p \notin DOMAIN r.heap, NEW ty
  PROVE  FieldsTyped(AllocGc(r, p, ty)) /\ AllocGc(r, p, ty).heap[p] = ty
<1> DEFINE s == AllocGc(r, p, ty)
<1>1. /\ DOMAIN s.heap = DOMAIN r.heap \cup {p}
      /\ \A a \in DOMAIN r.heap : s.heap[a] = r.heap[a] /\ s.mem[a] = r.mem[a]
      /\ s.heap[p] = ty
      /\ \A f \in DOMAIN s.mem[p] : s.mem[p][f] = Wild
  BY DEF AllocGc, WithBlocks
<1> HIDE DEF s
<1>2. ASSUME NEW a \in DOMAIN r.heap, NEW f \in DOMAIN r.mem[a], r.mem[a][f] \in Addr
      PROVE  s.heap[s.mem[a][f]] = FieldType[s.heap[a]][f]
  <2>1. r.mem[a][f] \in DOMAIN r.heap
    BY <1>2, FieldLive
  <2> QED  BY <1>1, <1>2, <2>1 DEF FieldsTyped
<1> QED  BY <1>1, <1>2, GcHeapAssumption DEF FieldsTyped, s

LEMMA KeptFieldsTyped ==
  ASSUME NEW r, FieldsTyped(r), NEW s, IsRuntime(s), HeapClosed(s),
         \A a \in DOMAIN s.heap : /\ a \in DOMAIN r.heap
                                  /\ s.heap[a] = r.heap[a] /\ s.mem[a] = r.mem[a]
  PROVE  FieldsTyped(s)
<1> SUFFICES ASSUME NEW a \in DOMAIN s.heap, NEW f \in DOMAIN s.mem[a],
                    s.mem[a][f] \in Addr
             PROVE  s.heap[s.mem[a][f]] = FieldType[s.heap[a]][f]
  BY DEF FieldsTyped
<1>1. s.mem[a][f] \in DOMAIN s.heap
  BY FieldLive
<1> QED  BY <1>1 DEF FieldsTyped

-----------------------------------------------------------------------------
(* Each action keeps Typed, in a program whose assignments are well typed. *)

LEMMA AssignTyped ==
  ASSUME TypesAgree, Typed, Sound', NEW l, NEW f, NEW k, NEW g, Assign(l, f, k, g)
  PROVE  Typed'
<1> USE DEF Executing
<1> DEFINE v == ReadPlace(k, g)
<1>1. v \in Addr => rt.heap[v] = Pointee(l, f)
  <2>1. <<Pointee(l, f), Pointee(k, g)>> \in Assignable
    BY DEF Assign
  <2>2. Pointee(l, f) = Pointee(k, g)
    BY <2>1 DEF TypesAgree
  <2> QED  BY <2>2, ReadPlaceTyped DEF Assign
<1>2. StorePlace(rt, l, f, v) /\ IsPlace(l, f) /\ stack # << >> /\ IsRuntime(rt)
  BY DEF Assign, Typed, Sound, TypeOK
<1> HIDE DEF v
<1>3. FieldsTyped(rt') /\ FramesTyped(rt'.heap, stack')
  BY <1>1, <1>2, StorePlaceTyped DEF Typed
<1> QED  BY <1>3 DEF Typed, FramesTyped, SlotsTyped, FieldsTyped

LEMMA AllocPlaceTyped ==
  ASSUME Typed, Sound', NEW l \in Local, NEW f \in Field \cup {None}, NEW p \in Addr,
         AllocPlace(l, f, p)
  PROVE  Typed'
<1> USE DEF Executing
<1> DEFINE r == AllocGc(rt, p, Pointee(l, f))
<1>1. Pointee(l, f) \in RtType
  BY GcHeapAssumption, RuntimeAssumption DEF AllocPlace, IsPlace, Pointee, PtrFields
<1>2. IsRuntime(r)
  BY <1>1, AllocGcType, GcHeapAssumption DEF Typed, Sound, TypeOK
<1>3. \A a \in DOMAIN rt.heap : a \in DOMAIN r.heap /\ r.heap[a] = rt.heap[a]
  BY DEF AllocPlace, AllocGc, WithBlocks
<1>4. FieldsTyped(r) /\ r.heap[p] = Pointee(l, f)
  BY AllocTyped, GcHeapAssumption DEF AllocPlace, Typed, Sound, TypeOK
<1>5. StorePlace(r, l, f, p) /\ IsPlace(l, f) /\ stack # << >>
  BY DEF AllocPlace
<1> HIDE DEF r
<1>6. FieldsTyped(rt') /\ FramesTyped(rt'.heap, stack')
  BY <1>2, <1>3, <1>4, <1>5, StorePlaceTyped
<1> QED  BY <1>6 DEF Typed, FramesTyped, SlotsTyped, FieldsTyped

LEMMA PushTyped ==
  ASSUME RootMapComplete, Typed, Sound', NEW fn \in Func, NEW actual,
         PushStackFrame(fn, actual)
  PROVE  Typed'
<1> DEFINE nulled == [l \in FuncLocals[fn] |->
                        IF l \in Roots(fn) THEN Null ELSE EntrySlots(fn, actual)[l]]
           pushed == [fn |-> fn, slots |-> nulled]
<1>1. stack' = Append(stack, pushed) /\ rt' \in Safepoint(rt, StackRoots(stack'))
  BY DEF PushStackFrame
<1>2. \A l \in DOMAIN pushed.slots : pushed.slots[l] \notin Addr
  BY GcHeapAssumption DEF RootMapComplete, Roots
<1> HIDE DEF pushed
<1>3. /\ DOMAIN rt'.heap \subseteq DOMAIN rt.heap
      /\ \A a \in DOMAIN rt'.heap : rt'.heap[a] = rt.heap[a] /\ rt'.mem[a] = rt.mem[a]
  BY <1>1, SafepointKeeps DEF Typed, Sound, TypeOK
<1>4. FieldsTyped(rt')
  BY <1>3, KeptFieldsTyped DEF Typed, Sound, TypeOK
<1>5. ASSUME NEW i \in DOMAIN stack', NEW l \in DOMAIN stack'[i].slots,
             stack'[i].slots[l] \in Addr
      PROVE  rt'.heap[stack'[i].slots[l]] = LocalType[l]
  <2>1. i \in DOMAIN stack /\ stack'[i] = stack[i]
    BY <1>1, <1>2, <1>5 DEF Typed, Sound, TypeOK
  <2>2. Range(stack'[i].slots) \cap Addr \subseteq DOMAIN rt'.heap
    <3>1. Range(stack'[i].slots) \subseteq InLocals'
      BY DEF InLocals
    <3> QED  BY <3>1 DEF Sound, Held
  <2>3. stack'[i].slots[l] \in DOMAIN rt'.heap
    BY <1>5, <2>2 DEF Range
  <2> QED  BY <1>3, <1>5, <2>1, <2>3 DEF Typed, FramesTyped, SlotsTyped
<1> QED  BY <1>4, <1>5 DEF Typed, FramesTyped, SlotsTyped, FieldsTyped

LEMMA ReturnTyped ==
  ASSUME Typed, Sound', NEW l, Return(l)
  PROVE  Typed'
<1> USE DEF Executing
<1>1. TypeOK /\ stack # << >> /\ rt' = rt
  BY DEF Typed, Sound, Return, PopStackFrame
<1>2. \A i \in DOMAIN stack' : i \in DOMAIN stack /\ stack'[i] = stack[i]
  BY <1>1, SubSeqProperties DEF Return, PopStackFrame, TypeOK
<1> QED  BY <1>1, <1>2 DEF Typed, FramesTyped, SlotsTyped, FieldsTyped

LEMMA StoreRetTyped ==
  ASSUME TypesAgree, Typed, Sound', NEW l, StoreRet(l)
  PROVE  Typed'
<1>1. TypeOK /\ stack # << >> /\ rt' = rt
  BY DEF Typed, Sound, StoreRet
<1>2. FramesTyped(rt.heap, stack')
  <2>1. CASE UNCHANGED stack
    BY <2>1 DEF Typed, FramesTyped, SlotsTyped
  <2>2. CASE /\ l \in DOMAIN Top.slots
             /\ ret \in DOMAIN rt.heap => <<LocalType[l], rt.heap[ret]>> \in Assignable
             /\ SetLocal(l, ret)
    <3>1. ret \in Addr => rt.heap[ret] = LocalType[l]
      BY <2>2 DEF TypesAgree, Typed, Sound, Held
    <3> QED  BY <1>1, <2>2, <3>1, SetLocalTyped DEF Typed
  <2> QED  BY <2>1, <2>2 DEF StoreRet
<1> QED  BY <1>1, <1>2 DEF Typed, FramesTyped, SlotsTyped, FieldsTyped

LEMMA GcNewTyped ==
  ASSUME Typed, Sound', NEW h \in Handle, NEW p, GcNew(h, p)
  PROVE  Typed'
<1>1. rt'.heap = rt.heap /\ rt'.mem = rt.mem /\ stack' = stack
  BY RefcountIncrementExact DEF Typed, Sound, TypeOK, GcNew
<1> QED  BY <1>1 DEF Typed, FramesTyped, SlotsTyped, FieldsTyped

LEMMA GcStoreFieldIsTyped ==
  ASSUME Typed, Sound', NEW h \in Handle, NEW f, NEW from, GcStoreField(h, f, from)
  PROVE  Typed'
<1> DEFINE a == handles[h]
           v == IF from = None THEN Null ELSE handles[from]
<1>1. /\ rt' = [rt EXCEPT !.mem[a][f] = v] /\ stack' = stack
      /\ a \in DOMAIN rt.heap /\ IsRuntime(rt)
  BY DEF GcStoreField, Typed, Sound, TypeOK
<1>2. v \in Addr => rt.heap[v] = FieldType[rt.heap[a]][f]
  BY GcHeapAssumption DEF GcStoreField
<1> HIDE DEF a, v
<1>3. Stored(rt, a, f, v, rt')
  BY <1>1, StoreFieldIs
<1>4. FieldsTyped(rt') /\ rt'.heap = rt.heap
  BY <1>2, <1>3, StoreFieldTyped DEF Typed
<1> QED  BY <1>1, <1>4 DEF Typed, FramesTyped, SlotsTyped, FieldsTyped

LEMMA GcDropTyped ==
  ASSUME Typed, Sound', NEW h \in Handle, GcDrop(h)
  PROVE  Typed'
<1> DEFINE p == handles[h]
<1>1. /\ IsRuntime(rt) /\ stack = << >> /\ stack' = stack
      /\ rt' \in RefcountDecrement(rt, p, StackRoots(stack))
  BY DEF GcDrop, InRust, Typed, Sound, TypeOK
<1> HIDE DEF p
<1>2. \A a \in DOMAIN rt'.heap : /\ a \in DOMAIN rt.heap
                                 /\ rt'.heap[a] = rt.heap[a] /\ rt'.mem[a] = rt.mem[a]
  BY <1>1, DecrementKeeps
<1>3. FieldsTyped(rt')
  BY <1>2, KeptFieldsTyped DEF Typed, Sound, TypeOK
<1> QED  BY <1>1, <1>3 DEF Typed, FramesTyped, SlotsTyped, FieldsTyped

LEMMA InitTyped == Init => Typed
  BY InitSafe DEF GcInv, Init, EmptyRuntime, Typed, FramesTyped, FieldsTyped

LEMMA StepTyped ==
  ASSUME RootMapComplete, TypesAgree
  PROVE  GcInv /\ Typed /\ [Next /\ WritesBeforeReads]_vars => Typed'
<1> SUFFICES ASSUME GcInv, Typed, [Next /\ WritesBeforeReads]_vars PROVE Typed'
  OBVIOUS
<1>1. Sound'
  BY StepSound
<1>2. CASE UNCHANGED vars
  BY <1>1, <1>2 DEF vars, Typed, FramesTyped, SlotsTyped, FieldsTyped
<1>3. CASE Emscript
  <2>1. ASSUME NEW fn \in Func, NEW k \in Local \cup {None}, Call(fn, k)
        PROVE  Typed'
    BY <1>1, <2>1, PushTyped DEF Call
  <2> QED
    BY <1>1, <1>3, <2>1, AssignTyped, AllocPlaceTyped, ReturnTyped, StoreRetTyped
       DEF Emscript
<1>4. CASE Rust
  <2>1. ASSUME NEW fn \in Func, NEW h \in Handle \cup {None}, CallFromRust(fn, h)
        PROVE  Typed'
    BY <1>1, <2>1, PushTyped DEF CallFromRust
  <2> QED
    BY <1>1, <1>4, <2>1, GcNewTyped, GcStoreFieldIsTyped, GcDropTyped
       DEF Rust, GcNewFromReturn, GcClone, GcNewFromField
<1> QED  BY <1>2, <1>3, <1>4 DEF Next

(* Reused addresses: in a well-typed program that respects the contract,   *)
(* every pointer the program can get at finds a block of the type its      *)
(* place declares, however often that address was freed and handed out.    *)
THEOREM PointersTyped ==
  ASSUME RootMapComplete, TypesAgree
  PROVE  DisciplinedSpec => []WellTyped
<1>1. Typed => WellTyped
  <2> SUFFICES ASSUME Typed PROVE WellTyped
    OBVIOUS
  <2>1. Usable \subseteq DOMAIN rt.heap
    BY ReachableLive DEF Typed, Sound, TypeOK, Usable
  <2>2. ASSUME NEW a \in Usable, NEW f \in DOMAIN rt.mem[a], rt.mem[a][f] \in Addr
        PROVE  /\ rt.mem[a][f] \in DOMAIN rt.heap
               /\ rt.heap[rt.mem[a][f]] = FieldType[rt.heap[a]][f]
    BY <2>1, <2>2, FieldLive DEF Typed, Sound, TypeOK, FieldsTyped
  <2>3. ASSUME NEW i \in DOMAIN stack, NEW l \in DOMAIN stack[i].slots,
               stack[i].slots[l] \in Addr
        PROVE  /\ stack[i].slots[l] \in DOMAIN rt.heap
               /\ rt.heap[stack[i].slots[l]] = LocalType[l]
    BY <2>3, SlotLive DEF Typed, FramesTyped, SlotsTyped
  <2> QED  BY <2>2, <2>3 DEF WellTyped
<1> QED  BY <1>1, InitTyped, StepTyped, Invariant, PTL DEF DisciplinedSpec

=============================================================================
