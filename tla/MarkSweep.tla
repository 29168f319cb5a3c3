------------------------------ MODULE MarkSweep -----------------------------
(***************************************************************************)
(* The loops of Runtime::sweep (runtime/mod.rs), one iteration per step:   *)
(* collecting roots, marking with an explicit visit_stack, and retaining   *)
(* or deallocating each entry of the heap table.  GcHeap has the result    *)
(* of a whole sweep in one step; here that result is what the loops must   *)
(* arrive at, whatever the pointer graph and whatever order the hash       *)
(* tables are iterated in.                                                 *)
(***************************************************************************)
EXTENDS GcHeap, Sequences, FiniteSets

CONSTANTS
  Contents,  \* words a pointer field may hold when the sweep begins
  MaxRoots   \* bound: root slots in all frames; addresses with a count

ASSUME MarkSweepAssumption ==
  /\ Contents \subseteq Ptr /\ MaxRoots \in Nat
  /\ IsFiniteSet(Addr) /\ IsFiniteSet(Field)

VARIABLES
  rt,           \* the runtime, see GcHeap; its heap shrinks at the end
  visit_stack,  \* pointers still to visit, the top at the end
  reachable,    \* addresses marked so far
  pending,      \* entries the current loop over a hash table has not reached
  phase,        \* the loop that runs
  before,       \* the runtime when the sweep began
  slots         \* what the root slots hold, frame by frame

vars == <<rt, visit_stack, reachable, pending, phase, before, slots>>

-----------------------------------------------------------------------------
Heaps == UNION {[S -> RtType] : S \in SUBSET Addr}

Mems(heap) ==
  {m \in [DOMAIN heap -> UNION {[PtrFields(ty) -> Contents] : ty \in RtType}] :
     \A a \in DOMAIN heap :
        /\ DOMAIN m[a] = PtrFields(heap[a])
        /\ Range(m[a]) \cap Addr \subseteq DOMAIN heap}

(* The runtimes a program that has not lost track of its heap can hand to  *)
(* sweep: no root and no field dangles.  Fields may be unwritten.          *)
Init ==
  \E heap \in Heaps :
  \E mem \in Mems(heap), counted \in SUBSET DOMAIN heap, n \in 0..MaxRoots :
    /\ Cardinality(counted) <= MaxRoots
    /\ rt = [heap |-> heap, mem |-> mem, panicked |-> FALSE,
             extern_refcount |-> [a \in counted |-> 1]]
    /\ before = rt
    /\ slots \in [1..n -> DOMAIN heap \cup {Null}]
    /\ visit_stack = slots
    /\ reachable = {}
    /\ pending = counted
    /\ phase = "roots"

(* One entry of `for (ptr, ct) in &self.extern_refcount`. *)
PushCounted(p) ==
  /\ phase = "roots" /\ p \in pending
  /\ visit_stack' = Append(visit_stack, p)
  /\ pending' = pending \ {p}
  /\ UNCHANGED <<rt, reachable, phase, before, slots>>

(* Mutant: marking begins before every counted address is a root. *)
StartMarkingEarly ==
  /\ phase = "roots"
  /\ phase' = "mark"
  /\ UNCHANGED <<rt, visit_stack, reachable, pending, before, slots>>

StartMarking ==
  /\ phase = "roots" /\ pending = {}
  /\ phase' = "mark"
  /\ UNCHANGED <<rt, visit_stack, reachable, pending, before, slots>>

base_ptr == visit_stack[Len(visit_stack)]

Popped == SubSeq(visit_stack, 1, Len(visit_stack) - 1)

(* The two `continue`s: null, or marked already. *)
Skip ==
  /\ phase = "mark" /\ visit_stack # << >>
  /\ base_ptr \in reachable \cup {Null}
  /\ visit_stack' = Popped
  /\ UNCHANGED <<rt, reachable, pending, phase, before, slots>>

(* What reading the field may yield: an unwritten one, any word. *)
FieldReads(a, f) == IF rt.mem[a][f] = Wild THEN Ptr ELSE {rt.mem[a][f]}

(* Mutant: a marked block is visited again. *)
VisitAgain ==
  /\ phase = "mark" /\ visit_stack # << >>
  /\ base_ptr \in DOMAIN rt.heap
  /\ reachable' = reachable \cup {base_ptr}
  /\ LET fields == gc_ptr_fields(rt.heap[base_ptr])
         n      == Cardinality(fields)
     IN  \E order \in {o \in [1..n -> fields] : Range(o) = fields} :
         \E words \in [1..n -> Ptr] :
           /\ \A i \in 1..n : words[i] \in FieldReads(base_ptr, order[i])
           /\ visit_stack' = Popped \o words
  /\ UNCHANGED <<rt, pending, phase, before, slots>>

(* Mutant: the fields of a block replace what was still to visit. *)
VisitForgetting ==
  /\ phase = "mark" /\ visit_stack # << >>
  /\ base_ptr \in DOMAIN rt.heap \ reachable
  /\ reachable' = reachable \cup {base_ptr}
  /\ LET fields == gc_ptr_fields(rt.heap[base_ptr])
         n      == Cardinality(fields)
     IN  \E order \in {o \in [1..n -> fields] : Range(o) = fields} :
         \E words \in [1..n -> Ptr] :
           /\ \A i \in 1..n : words[i] \in FieldReads(base_ptr, order[i])
           /\ visit_stack' = words
  /\ UNCHANGED <<rt, pending, phase, before, slots>>

(* Mark a block and push its pointer fields, in the order of the type      *)
(* table's list.                                                           *)
Visit ==
  /\ phase = "mark" /\ visit_stack # << >>
  /\ base_ptr \in DOMAIN rt.heap \ reachable
  /\ reachable' = reachable \cup {base_ptr}
  /\ LET fields == gc_ptr_fields(rt.heap[base_ptr])
         n      == Cardinality(fields)
     IN  \E order \in {o \in [1..n -> fields] : Range(o) = fields} :
         \E words \in [1..n -> Ptr] :
           /\ \A i \in 1..n : words[i] \in FieldReads(base_ptr, order[i])
           /\ visit_stack' = Popped \o words
  /\ UNCHANGED <<rt, pending, phase, before, slots>>

(* `self.heap[&base_ptr]` of an address that is not there. *)
Panic ==
  /\ phase = "mark" /\ visit_stack # << >>
  /\ base_ptr \notin DOMAIN rt.heap \cup reachable \cup {Null}
  /\ rt' = [rt EXCEPT !.panicked = TRUE]
  /\ phase' = "done"
  /\ UNCHANGED <<visit_stack, reachable, pending, before, slots>>

StartRetaining ==
  /\ phase = "mark" /\ visit_stack = << >>
  /\ phase' = "retain"
  /\ pending' = DOMAIN rt.heap
  /\ UNCHANGED <<rt, visit_stack, reachable, before, slots>>

(* Mutant: an unmarked block leaves the table and is not deallocated. *)
RetainLeaking(p) ==
  /\ phase = "retain" /\ p \in pending
  /\ pending' = pending \ {p}
  /\ LET kept == IF p \in reachable THEN DOMAIN rt.heap ELSE DOMAIN rt.heap \ {p}
     IN  rt' = WithBlocks(rt, Restrict(rt.heap, kept), rt.mem)
  /\ UNCHANGED <<visit_stack, reachable, phase, before, slots>>

(* One call of the closure given to HashMap::retain. *)
Retain(p) ==
  /\ phase = "retain" /\ p \in pending
  /\ pending' = pending \ {p}
  /\ LET kept == IF p \in reachable THEN DOMAIN rt.heap ELSE DOMAIN rt.heap \ {p}
     IN  rt' = WithBlocks(rt, Restrict(rt.heap, kept), Restrict(rt.mem, kept))
  /\ UNCHANGED <<visit_stack, reachable, phase, before, slots>>

Finish ==
  /\ phase = "retain" /\ pending = {}
  /\ phase' = "done"
  /\ UNCHANGED <<rt, visit_stack, reachable, pending, before, slots>>

Next ==
  \/ \E p \in Addr : PushCounted(p)
  \/ StartMarking
  \/ Skip
  \/ Visit
  \/ Panic
  \/ StartRetaining
  \/ \E p \in Addr : Retain(p)
  \/ Finish

(* A loop does not pause: the runtime's lock is held until sweep returns.  *)
Spec == Init /\ [][Next]_vars /\ WF_vars(Next)

-----------------------------------------------------------------------------
TypeOK ==
  /\ IsRuntime(rt) /\ IsRuntime(before)
  /\ visit_stack \in Seq(Ptr)
  /\ reachable \subseteq Addr
  /\ pending \subseteq Addr
  /\ phase \in {"roots", "mark", "retain", "done"}
  /\ slots \in Seq(Ptr)

(* Tri-colour invariant: a marked block points to marked blocks, or to     *)
(* ones still on the visit stack.  (Unwritten fields are read as anything.)*)
NothingForgotten ==
  phase = "mark" =>
    \A a \in reachable :
      TracedWords(rt, a) \subseteq reachable \cup Range(visit_stack) \cup {Null, Wild}

(* The loops compute the collector's one-step Sweep: without unwritten     *)
(* fields, exactly the blocks that roots reach through registered fields   *)
(* survive, in whatever order roots, fields and table entries come up.     *)
ComputesSweep == phase = "done" => rt \in Sweep(before, Range(slots))

(* Marking reaches an end on cyclic and shared structures. *)
Terminates == <>(phase = "done")

=============================================================================
