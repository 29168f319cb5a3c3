------------------------------- MODULE GcHeap -------------------------------
(***************************************************************************)
(* The heap half of `struct Runtime` (runtime/mod.rs): the table of live   *)
(* allocations, the reference counts of Rust's Gc<T> handles, and the      *)
(* allocator, reference-count and mark-and-sweep operations over them.     *)
(*                                                                         *)
(* Several of these operations run inside one Runtime::with_instance       *)
(* critical section, one after the other (a decrement may sweep and an     *)
(* allocation may follow), so each is an operator from a runtime value to  *)
(* a runtime value, or to the set of those it may end in.  The modules     *)
(* that hold a runtime in a variable compose them.                         *)
(*                                                                         *)
(* A runtime value is a record:                                            *)
(*   heap             live address -> type the block was allocated with    *)
(*   mem              live address -> contents of its pointer fields       *)
(*   extern_refcount  address or Null -> number of Gc<T> counted on it   *)
(*   panicked         a with_instance body panicked: in Gc::drop the mutex *)
(*                    is poisoned, in a builtin the process aborts         *)
(***************************************************************************)
EXTENDS Naturals, Functions, Reachability

CONSTANTS
  Null,         \* the null pointer
  Wild,         \* a word nobody has written yet: its bits are indeterminate
  RtType,       \* entries of the runtime's type table
  Field,        \* offsets at which a block may hold a gc pointer
  FieldType,    \* FieldType[ty]: what the pointer at each such offset points to
  NestedFields  \* NestedFields[ty]: offsets inside a struct embedded in ty

ASSUME GcHeapAssumption ==
  /\ Null \notin Addr /\ Wild \notin Addr /\ Null # Wild
  /\ DOMAIN FieldType = RtType
  /\ \A ty \in RtType : /\ DOMAIN FieldType[ty] \subseteq Field
                        /\ FieldType[ty] \in [DOMAIN FieldType[ty] -> RtType]
  /\ DOMAIN NestedFields = RtType

Ptr == Addr \cup {Null, Wild}

(* The same runtime with other blocks. *)
WithBlocks(rt, heap, mem) ==
  [heap |-> heap, mem |-> mem,
   extern_refcount |-> rt.extern_refcount, panicked |-> rt.panicked]

PtrFields(ty) == DOMAIN FieldType[ty]

(* The offsets compile_program registers for a type: those of the fields   *)
(* whose own type is GcRef.  A field that is itself a struct contributes   *)
(* nothing, whatever that struct contains.                                 *)
gc_ptr_fields(ty) == PtrFields(ty) \ NestedFields[ty]

IsRuntime(rt) ==
  /\ rt = [heap            |-> rt.heap,
           mem             |-> rt.mem,
           extern_refcount |-> rt.extern_refcount,
           panicked        |-> rt.panicked]
  /\ DOMAIN rt.heap \subseteq Addr
  /\ rt.heap \in [DOMAIN rt.heap -> RtType]
  /\ rt.mem = [a \in DOMAIN rt.heap |-> rt.mem[a]]
  /\ \A a \in DOMAIN rt.heap : rt.mem[a] \in [PtrFields(rt.heap[a]) -> Ptr]
  /\ DOMAIN rt.extern_refcount \subseteq Addr \cup {Null}
  /\ rt.extern_refcount \in [DOMAIN rt.extern_refcount -> Nat \ {0}]
  /\ rt.panicked \in BOOLEAN

EmptyRuntime ==
  [heap |-> << >>, mem |-> << >>, extern_refcount |-> << >>, panicked |-> FALSE]

-----------------------------------------------------------------------------
(* What a program that holds the pointers in `held` can reach, whether or  *)
(* not the type table names the fields in between.                         *)

Linked(rt) ==
  [a \in Addr |-> IF a \in DOMAIN rt.heap THEN Range(rt.mem[a]) \cap Addr ELSE {}]

ReachableFrom(rt, held) == Reach(held \cap Addr, Linked(rt))

(* No block, garbage or not, points to a freed one. *)
HeapClosed(rt) ==
  \A a \in DOMAIN rt.heap : Range(rt.mem[a]) \cap Addr \subseteq DOMAIN rt.heap

-----------------------------------------------------------------------------
(* Marking: what the visit_stack loop of sweep puts into `reachable`.      *)
(* Module MarkSweep has the loop itself.                                   *)

TracedWords(rt, a) == {rt.mem[a][f] : f \in gc_ptr_fields(rt.heap[a])}

Traced(rt) ==
  [a \in Addr |-> IF a \in DOMAIN rt.heap THEN TracedWords(rt, a) \cap Addr
                                          ELSE {}]

Marked(rt, roots) == Reach(roots \cap Addr, Traced(rt))

ReadsWild(rt, roots) ==
  \/ Wild \in roots
  \/ \E a \in Marked(rt, roots) \cap DOMAIN rt.heap : Wild \in TracedWords(rt, a)

(* A sweep whose reads of indeterminate words, if any, yield the given     *)
(* ones.  Marking indexes the heap table with each pointer it visits and   *)
(* panics on one that is not there; otherwise every unmarked block is      *)
(* deallocated.                                                            *)
SweepReading(rt, roots, words) ==
  LET live == Marked(rt, roots \cup words)
  IN  IF live \subseteq DOMAIN rt.heap /\ Wild \notin words
      THEN WithBlocks(rt, Restrict(rt.heap, live), Restrict(rt.mem, live))
      ELSE [rt EXCEPT !.panicked = TRUE]

Sweep(rt, stackRoots) ==
  LET roots == stackRoots \cup DOMAIN rt.extern_refcount
  IN  {SweepReading(rt, roots, words) :
         words \in IF ReadsWild(rt, roots) THEN SUBSET Ptr ELSE {{}}}

(* A safepoint sweeps unless the clock still shows the instant of the last *)
(* sweep; the clock is not modelled, so either may happen.                 *)
Safepoint(rt, stackRoots) == {rt} \cup Sweep(rt, stackRoots)

-----------------------------------------------------------------------------
(* alloc_gc registers a block at an address p that is not in use.  The     *)
(* system allocator does not clear it.  Not a safepoint.                   *)
AllocGc(rt, p, ty) ==
  LET fresh == [f \in PtrFields(ty) |-> Wild]
      all   == DOMAIN rt.heap \cup {p}
  IN  WithBlocks(rt, [a \in all |-> IF a = p THEN ty ELSE rt.heap[a]],
                     [a \in all |-> IF a = p THEN fresh ELSE rt.mem[a]])

Refcount(rt, p) ==
  IF p \in DOMAIN rt.extern_refcount THEN rt.extern_refcount[p] ELSE 0

(* Mutant: `insert(ptr, 1)` for `*ct += 1`. *)
RefcountRestarted(rt, p) ==
  [rt EXCEPT !.extern_refcount =
     [a \in DOMAIN @ \cup {p} |-> IF a = p THEN 1 ELSE @[a]]]

RefcountIncrement(rt, p) ==
  [rt EXCEPT !.extern_refcount =
     [a \in DOMAIN @ \cup {p} |-> IF a = p THEN Refcount(rt, p) + 1 ELSE @[a]]]

(* Mutant: the entry of an address nobody counts on stays, at zero. *)
RefcountDownToZero(rt, p, stackRoots) ==
  IF Refcount(rt, p) = 0 THEN {rt}
  ELSE LET counted == [rt EXCEPT !.extern_refcount[p] = @ - 1]
       IN  IF Refcount(rt, p) = 1 THEN Safepoint(counted, stackRoots) ELSE {counted}

(* Mutant: reference counting without a collector. *)
RefcountFreeing(rt, p, stackRoots) ==
  LET others == DOMAIN rt.heap \ {p}
  IN  IF Refcount(rt, p) = 0 THEN {rt}
      ELSE IF Refcount(rt, p) = 1
      THEN {WithBlocks([rt EXCEPT !.extern_refcount = Restrict(@, DOMAIN @ \ {p})],
                       Restrict(rt.heap, others), Restrict(rt.mem, others))}
      ELSE {[rt EXCEPT !.extern_refcount[p] = @ - 1]}

(* The last decrement of an address removes its entry and is a safepoint;  *)
(* a decrement of an address without an entry only logs a warning.         *)
RefcountDecrement(rt, p, stackRoots) ==
  IF Refcount(rt, p) = 0 THEN {rt}
  ELSE IF Refcount(rt, p) = 1
  THEN Safepoint([rt EXCEPT !.extern_refcount = Restrict(@, DOMAIN @ \ {p})],
                 stackRoots)
  ELSE {[rt EXCEPT !.extern_refcount[p] = @ - 1]}

=============================================================================
