------------------------------- MODULE Runtime ------------------------------
(***************************************************************************)
(* The garbage-collected runtime at work: compiled Emscript functions      *)
(* calling the builtins push_stack_frame, pop_stack_frame and alloc_gc,    *)
(* and the embedding Rust program holding Gc<T> handles.  One thread:      *)
(* while an Emscript function runs the embedder is suspended in the call.  *)
(*                                                                         *)
(* What functions do between calls is left open: any sequence of the MIR   *)
(* instructions of cf_build.rs over gc pointers.  Where a program mixes    *)
(* pointer types, accesses beyond the block a pointer really finds are     *)
(* left out.                                                               *)
(*                                                                         *)
(* A root is the slot of its local; FrameRoots has the addresses.          *)
(***************************************************************************)
EXTENDS GcHeap, Sequences, FiniteSets

CONSTANTS
  Func,          \* compiled functions
  Local,         \* names of locals that hold a gc pointer
  LocalType,     \* LocalType[l]: the type of the block l may point to
  FuncLocals,    \* FuncLocals[fn]: the locals fn declares
  Untracked,     \* locals not of type GcRef: structs with a gc pointer as a
                 \* field, plain references into a block (Ref)
  Assignable,    \* <<to, from>>: pointer types a program assigns to each
                 \* other; the compiler compares none
  Param,         \* Param[fn]: the local that receives fn's gc argument, or None
  Handle,        \* Rust variables that may own a Gc<T>
  None,          \* no parameter / no value in the return register / no Gc<T>
  MaxDepth       \* bound: Emscript call depth

ASSUME RuntimeAssumption ==
  /\ LocalType \in [Local -> RtType]
  /\ FuncLocals \in [Func -> SUBSET Local]
  /\ Untracked \subseteq Local
  /\ Assignable \subseteq RtType \X RtType
  /\ Param \in [Func -> Local \cup {None}]
  /\ \A fn \in Func : Param[fn] # None => Param[fn] \in FuncLocals[fn]
  /\ None \notin Local \cup Ptr \cup Field
  /\ IsFiniteSet(Handle)
  /\ MaxDepth \in Nat

VARIABLES
  rt,       \* the Runtime instance, see GcHeap
  stack,    \* machine frames, outermost first; rt.stack lists their roots
  ret,      \* gc pointer in the return register, not stored anywhere yet
  handles   \* handles[h]: what the Gc<T> in h points to

vars == <<rt, stack, ret, handles>>

-----------------------------------------------------------------------------
(* function_to_cranelift collects as roots the stack slots of the locals   *)
(* whose type is GcRef, and compile_program registers their offsets.       *)
Roots(fn) == FuncLocals[fn] \ Untracked

(* Mutant: only the frame on top of rt.stack is read. *)
StackRootsOnTop(frames) ==
  IF frames = << >> THEN {}
  ELSE {frames[Len(frames)].slots[l] : l \in Roots(frames[Len(frames)].fn)}

(* What sweep reads through the root addresses of all registered frames.   *)
StackRoots(frames) ==
  UNION {{frames[i].slots[l] : l \in Roots(frames[i].fn)} : i \in DOMAIN frames}

Top == stack[Len(stack)]

SetLocal(l, v) == stack' = [stack EXCEPT ![Len(stack)].slots[l] = v]

(* An Emscript function has control and its last call's result is stored.  *)
Executing == ~rt.panicked /\ stack # << >> /\ ret = None

(* The embedder has control. *)
InRust == ~rt.panicked /\ stack = << >>

Init ==
  /\ rt = EmptyRuntime
  /\ stack = << >>
  /\ ret = None
  /\ handles = [h \in Handle |-> None]

-----------------------------------------------------------------------------
(* MIR places: the local l itself, <<l, None>>, or field f of the block it *)
(* points to, <<l, f>>.  Dereferencing null traps the process and is left  *)
(* out.  Longer projections decompose into these through other locals.     *)

IsPlace(l, f) ==
  /\ l \in DOMAIN Top.slots
  /\ f # None => /\ Top.slots[l] \in DOMAIN rt.heap
                 /\ f \in PtrFields(rt.heap[Top.slots[l]])
                 /\ f \in PtrFields(LocalType[l])

(* Mutant: the type of the place before its last projection. *)
PointeeOfBase(l, f) == LocalType[l]

(* PlaceExpr::get_final_type, down to the pointee *)
Pointee(l, f) == IF f = None THEN LocalType[l] ELSE FieldType[LocalType[l]][f]

ReadPlace(l, f) == IF f = None THEN Top.slots[l] ELSE rt.mem[Top.slots[l]][f]

(* Store v in the place and leave the runtime otherwise as r. *)
StorePlace(r, l, f, v) ==
  IF f = None
  THEN SetLocal(l, v) /\ rt' = r
  ELSE rt' = [r EXCEPT !.mem[Top.slots[l]][f] = v] /\ UNCHANGED stack

(* Ins::Assign with ValueExpr::Read *)
Assign(l, f, k, g) ==
  /\ Executing /\ IsPlace(l, f) /\ IsPlace(k, g)
  /\ <<Pointee(l, f), Pointee(k, g)>> \in Assignable
  /\ StorePlace(rt, l, f, ReadPlace(k, g))
  /\ UNCHANGED <<ret, handles>>

(* Ins::AllocGc: the place is evaluated, alloc_gc called, the result stored *)
AllocPlace(l, f, p) ==
  /\ Executing /\ IsPlace(l, f)
  /\ p \notin DOMAIN rt.heap
  /\ StorePlace(AllocGc(rt, p, Pointee(l, f)), l, f, p)
  /\ UNCHANGED <<ret, handles>>

-----------------------------------------------------------------------------
(* Mutant: push_stack_frame leaves the root slots as they are. *)
PushUncleared(fn, actual) ==
  LET frames == Append(stack, [fn    |-> fn,
                               slots |-> [l \in FuncLocals[fn] |->
                                            IF l = Param[fn] THEN actual ELSE Wild]])
  IN  /\ Len(stack) < MaxDepth
      /\ rt' \in Safepoint(rt, StackRoots(frames))
      /\ stack' = frames

(* Entry block of fn called with gc argument `actual`: arguments are       *)
(* stored in their slots, then push_stack_frame writes null to every root  *)
(* slot, registers the frame and runs a safepoint.                         *)
EntrySlots(fn, actual) ==
  [l \in FuncLocals[fn] |-> IF l = Param[fn] THEN actual ELSE Wild]

PushStackFrame(fn, actual) ==
  LET stored == EntrySlots(fn, actual)
      nulled == [l \in FuncLocals[fn] |-> IF l \in Roots(fn) THEN Null ELSE stored[l]]
      frames == Append(stack, [fn |-> fn, slots |-> nulled])
  IN  /\ Len(stack) < MaxDepth
      /\ rt' \in Safepoint(rt, StackRoots(frames))
      /\ stack' = frames

(* InsFinal::Call: the callee's gc argument is loaded from a local k. *)
Call(fn, k) ==
  /\ Executing
  /\ IF Param[fn] = None
     THEN k = None
     ELSE k \in DOMAIN Top.slots /\ <<LocalType[Param[fn]], LocalType[k]>> \in Assignable
  /\ PushStackFrame(fn, IF k = None THEN Null ELSE Top.slots[k])
  /\ UNCHANGED <<ret, handles>>

(* Mutant: pop_stack_frame is a safepoint. *)
PopCollecting ==
  /\ stack' = SubSeq(stack, 1, Len(stack) - 1)
  /\ rt' \in Safepoint(rt, StackRoots(stack'))

(* pop_stack_frame: not a safepoint, since the value being returned is not *)
(* in any root slot yet.                                                   *)
PopStackFrame ==
  /\ stack' = SubSeq(stack, 1, Len(stack) - 1)
  /\ UNCHANGED rt

(* InsFinal::Return: pop_stack_frame, then the value of l is loaded into   *)
(* the return register.                                                    *)
Return(l) ==
  /\ Executing
  /\ l \in DOMAIN Top.slots \cup {None}
  /\ ret' = IF l = None THEN None ELSE Top.slots[l]
  /\ PopStackFrame
  /\ UNCHANGED handles

(* The tail of InsFinal::Call in the caller: the result goes to store_ret, *)
(* or nowhere when the call names none.                                    *)
StoreRet(l) ==
  /\ ~rt.panicked /\ stack # << >> /\ ret # None
  /\ \/ /\ l \in DOMAIN Top.slots
        /\ ret \in DOMAIN rt.heap => <<LocalType[l], rt.heap[ret]>> \in Assignable
        /\ SetLocal(l, ret)
     \/ l = None /\ UNCHANGED stack
  /\ ret' = None
  /\ UNCHANGED <<rt, handles>>

-----------------------------------------------------------------------------
(* The embedder.  A raw address returned by Emscript is wrapped at once or *)
(* given up: Gc::new must get a runtime-tracked value, and after another   *)
(* call or drop the address need not be one.                               *)

CallFromRust(fn, h) ==
  /\ InRust
  /\ IF Param[fn] = None
     THEN h = None
     ELSE /\ h \in Handle
          /\ handles[h] \in DOMAIN rt.heap
          /\ rt.heap[handles[h]] = LocalType[Param[fn]]
  /\ PushStackFrame(fn, IF h = None THEN Null ELSE handles[h])
  /\ ret' = None
  /\ UNCHANGED handles

(* Gc::new on a tracked address p, owned by the unused variable h. *)
GcNew(h, p) ==
  /\ handles[h] = None /\ p \in DOMAIN rt.heap
  /\ handles' = [handles EXCEPT ![h] = p]
  /\ rt' = RefcountIncrement(rt, p)
  /\ ret' = None
  /\ UNCHANGED stack

GcNewFromReturn(h) == InRust /\ ret # None /\ GcNew(h, ret)

GcClone(h, from) == InRust /\ handles[from] # None /\ GcNew(h, handles[from])

(* Gc::new on a pointer found in a field of an object the embedder holds.  *)
GcNewFromField(h, from, f) ==
  /\ InRust
  /\ handles[from] \in DOMAIN rt.heap
  /\ f \in PtrFields(rt.heap[handles[from]])
  /\ GcNew(h, rt.mem[handles[from]][f])

(* A write through Gc::as_ptr: the pointer held by `from`, or null, goes    *)
(* into a field of the object held by h.                                   *)
GcStoreField(h, f, from) ==
  /\ InRust
  /\ handles[h] \in DOMAIN rt.heap
  /\ LET ty == rt.heap[handles[h]]
         v  == IF from = None THEN Null ELSE handles[from]
     IN  /\ f \in PtrFields(ty)
         /\ from # None => /\ v \in DOMAIN rt.heap
                           /\ rt.heap[v] = FieldType[ty][f]
         /\ rt' = [rt EXCEPT !.mem[handles[h]][f] = v]
  /\ UNCHANGED <<stack, ret, handles>>

GcDrop(h) ==
  /\ InRust
  /\ handles[h] # None
  /\ handles' = [handles EXCEPT ![h] = None]
  /\ rt' \in RefcountDecrement(rt, handles[h], StackRoots(stack))
  /\ ret' = None
  /\ UNCHANGED stack

-----------------------------------------------------------------------------
Emscript ==
  \/ \E l, k \in Local, f, g \in Field \cup {None} : Assign(l, f, k, g)
  \/ \E l \in Local, f \in Field \cup {None}, p \in Addr : AllocPlace(l, f, p)
  \/ \E fn \in Func, k \in Local \cup {None} : Call(fn, k)
  \/ \E l \in Local \cup {None} : Return(l)
  \/ \E l \in Local \cup {None} : StoreRet(l)

Rust ==
  \/ \E fn \in Func, h \in Handle \cup {None} : CallFromRust(fn, h)
  \/ \E h \in Handle : GcNewFromReturn(h)
  \/ \E h, from \in Handle : GcClone(h, from)
  \/ \E h, from \in Handle, f \in Field : GcNewFromField(h, from, f)
  \/ \E h \in Handle, from \in Handle \cup {None}, f \in Field : GcStoreField(h, f, from)
  \/ \E h \in Handle : GcDrop(h)

Next == Emscript \/ Rust

(* Every program the compiler accepts. *)
Spec == Init /\ [][Next]_vars

-----------------------------------------------------------------------------
(* Everything the program can still get at: from its locals, the return    *)
(* register and its handles, through every pointer field, whether or not   *)
(* the runtime knows about them.                                           *)
InLocals == UNION {Range(stack[i].slots) : i \in DOMAIN stack}

Held == InLocals \cup Range(handles) \cup {ret}

Usable == ReachableFrom(rt, Held)

-----------------------------------------------------------------------------
(* What a program must respect for the collector to be exact, and nothing  *)
(* in the compiler enforces.                                               *)

(* The root map and the type table name every gc pointer: no local is a    *)
(* struct with a gc pointer in it, no type embeds such a struct.           *)
RootMapComplete ==
  /\ Untracked = {}
  /\ \A ty \in RtType : NestedFields[ty] = {}

(* The program is well typed. *)
TypesAgree == \A pair \in Assignable : pair[1] = pair[2]

(* Blocks are written before they are read: at a safepoint no block that   *)
(* marking may visit has an unwritten pointer field, and no such field is  *)
(* loaded into a root slot.  What a new frame's slots hold is the          *)
(* runtime's affair, not the program's.                                    *)
AtSafepoint ==
  \/ Len(stack') > Len(stack)
  \/ \E h \in Handle : handles[h] # None /\ handles'[h] = None

WritesBeforeReads ==
  /\ AtSafepoint =>
       \A a \in Marked(rt, StackRoots(stack) \cup DOMAIN rt.extern_refcount) \cap DOMAIN rt.heap :
         Wild \notin TracedWords(rt, a)
  /\ \A i \in DOMAIN stack \cap DOMAIN stack' : \A l \in Roots(stack[i].fn) :
       stack'[i].slots[l] = Wild => stack[i].slots[l] = Wild

DisciplinedSpec == Init /\ [][Next /\ WritesBeforeReads]_vars

-----------------------------------------------------------------------------
Frame == UNION {[fn : {fn}, slots : [FuncLocals[fn] -> Ptr]] : fn \in Func}

TypeOK ==
  /\ IsRuntime(rt)
  /\ stack \in Seq(Frame)
  /\ ret \in Ptr \cup {None}
  /\ handles \in [Handle -> Addr \cup {None}]

(* No use after free: every block the program can still get at is          *)
(* allocated.  The collector may not free what a frame of any depth, the   *)
(* return register or a Gc<T> leads to (sweep; the comment in              *)
(* pop_stack_frame on why it is not a safepoint).                          *)
NoDangling == Usable \subseteq DOMAIN rt.heap

(* A pointer finds a block of the type its place declares, so that sweep   *)
(* and field accesses use the right offsets: freed addresses that the      *)
(* allocator hands out again are known to nobody under their old type.     *)
WellTyped ==
  /\ \A i \in DOMAIN stack : \A l \in DOMAIN stack[i].slots :
        stack[i].slots[l] \in Addr =>
          /\ stack[i].slots[l] \in DOMAIN rt.heap
          /\ rt.heap[stack[i].slots[l]] = LocalType[l]
  /\ \A a \in Usable : \A f \in DOMAIN rt.mem[a] :
        rt.mem[a][f] \in Addr =>
          /\ rt.mem[a][f] \in DOMAIN rt.heap
          /\ rt.heap[rt.mem[a][f]] = FieldType[rt.heap[a]][f]

(* Marking never indexes the heap table with an address that is not in it  *)
(* (`self.heap[&base_ptr]` in sweep), so no builtin aborts the process and *)
(* no Gc::drop poisons the runtime's mutex.                                *)
NeverPanics == ~rt.panicked

(* extern_refcount counts exactly the Gc<T> values in existence.           *)
RefcountExact ==
  \A a \in Addr : Refcount(rt, a) = Cardinality({h \in Handle : handles[h] = a})

(* Pointers lead to allocated blocks only, from the program and from the   *)
(* heap, and each Gc<T> is a root.                                         *)
Sound ==
  /\ TypeOK
  /\ NeverPanics
  /\ HeapClosed(rt)
  /\ Held \cap Addr \subseteq DOMAIN rt.heap
  /\ RefcountExact

(* Why the collector is safe, as an inductive invariant of programs that   *)
(* respect the contract: pointers are sound, and what a sweep finds in a   *)
(* root slot, of a frame just pushed as well, has been written.            *)
GcInv == Sound /\ Wild \notin StackRoots(stack)

(* The program sees an ideal collector: see AbstractGc. *)
Collector == INSTANCE AbstractGc WITH live <- DOMAIN rt.heap, usable <- Usable
ImplementsCollector == Collector!Spec

(* A gc argument reaches the callee: when an Emscript function calls       *)
(* another one, the callee starts with the pointer the caller passed.      *)
(* README.md lists only passing between Rust and Emscript as unfinished.   *)
ArgumentDelivered ==
  [][\A fn \in Func, k \in Local :
       Call(fn, k) => stack'[Len(stack')].slots[Param[fn]] = Top.slots[k]]_vars

=============================================================================
