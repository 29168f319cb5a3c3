------------------------------ MODULE RootedApi -----------------------------
(***************************************************************************)
(* The prototype of a safe Rust interface to the collector, module         *)
(* `testing` of runtime/mod.rs: Rooted<T> on the Rust stack, counted in    *)
(* extern_refcount like Gc<T>, and NonRooted<T> inside heap objects, not   *)
(* counted.  The heap objects are LinkedListNonRooted, with one pointer    *)
(* field, and a LinkedList about to move to the heap carries one Rooted.   *)
(* No Emscript function is running, so no frame is registered.             *)
(***************************************************************************)
EXTENDS GcHeap, FiniteSets

CONSTANTS
  List,  \* the type LinkedListNonRooted
  next,  \* its pointer field
  Var,   \* Rust variables of type Rooted<LinkedListNonRooted>
  None   \* a variable that is not initialised, or moved out of

ASSUME RootedAssumption ==
  /\ RtType = {List} /\ NestedFields[List] = {}
  /\ FieldType[List] = [f \in {next} |-> List]
  /\ None \notin Ptr
  /\ IsFiniteSet(Var)

VARIABLES
  rt,     \* the Runtime instance, see GcHeap
  rooted  \* rooted[v]: the ptr of the Rooted in v

vars == <<rt, rooted>>

Init == rt = EmptyRuntime /\ rooted = [v \in Var |-> None]

(* Runtime::with_instance unwraps the mutex: nothing works after a panic. *)
Free(v)  == ~rt.panicked /\ rooted[v] = None
Owned(v) == ~rt.panicked /\ rooted[v] # None

-----------------------------------------------------------------------------
(* Rooted::null: not counted. *)
MakeNull(v) ==
  /\ Free(v)
  /\ rooted' = [rooted EXCEPT ![v] = Null]
  /\ UNCHANGED rt

(* Rooted::new(LinkedList { next: tail }) into v, starting from runtime r: *)
(* in one critical section the tail is unrooted, the object allocated, the *)
(* unrooted value written and the new Rooted counted.                      *)
New(r, v, tail, moved) ==
  \E unrooted \in RefcountDecrement(r, tail, {}) :
    IF unrooted.panicked
    THEN rt' = unrooted /\ rooted' = moved
    ELSE \E p \in Addr \ DOMAIN unrooted.heap :
           LET allocated == AllocGc(unrooted, p, List)
           IN  /\ rt' = RefcountIncrement(
                          [allocated EXCEPT !.mem[p][next] = tail], p)
               /\ rooted' = [moved EXCEPT ![v] = p]

(* v = Rooted::new(LinkedList { next: Rooted::null() }) *)
NewLast(v) == Free(v) /\ New(rt, v, Null, rooted)

(* v = Rooted::new(LinkedList { next: w.clone() }), as test_runtime_gc does *)
NewClone(v, w) ==
  /\ Free(v) /\ Owned(w)
  /\ New(RefcountIncrement(rt, rooted[w]), v, rooted[w], rooted)

(* v = Rooted::new(LinkedList { next: w }): w is moved into the value. *)
NewMove(v, w) ==
  /\ Free(v) /\ Owned(w)
  /\ New(rt, v, rooted[w], [rooted EXCEPT ![w] = None])

(* Mutant: a derived Clone. *)
CloneUncounted(v, w) ==
  /\ Free(v) /\ Owned(w)
  /\ rooted' = [rooted EXCEPT ![v] = rooted[w]]
  /\ UNCHANGED rt

(* v = w.clone() *)
Clone(v, w) ==
  /\ Free(v) /\ Owned(w)
  /\ rooted' = [rooted EXCEPT ![v] = rooted[w]]
  /\ rt' = RefcountIncrement(rt, rooted[w])

(* Mutant: promotion to Rooted without a count. *)
AsRootedUncounted(v, w) ==
  /\ Free(v) /\ Owned(w) /\ rooted[w] \in DOMAIN rt.heap
  /\ rooted' = [rooted EXCEPT ![v] = rt.mem[rooted[w]][next]]
  /\ UNCHANGED rt

(* v = w.next.as_rooted() *)
AsRooted(v, w) ==
  /\ Free(v) /\ Owned(w) /\ rooted[w] \in DOMAIN rt.heap
  /\ rooted' = [rooted EXCEPT ![v] = rt.mem[rooted[w]][next]]
  /\ rt' = RefcountIncrement(rt, rt.mem[rooted[w]][next])

(* w.next.set(&v) *)
SetNext(w, v) ==
  /\ Owned(v) /\ Owned(w) /\ rooted[w] \in DOMAIN rt.heap
  /\ rt' = [rt EXCEPT !.mem[rooted[w]][next] = rooted[v]]
  /\ UNCHANGED rooted

(* The scope of v ends. *)
Drop(v) ==
  /\ Owned(v)
  /\ rooted' = [rooted EXCEPT ![v] = None]
  /\ rt' \in RefcountDecrement(rt, rooted[v], {})

(* What test_runtime_gc uses, and the rest of the interface but for moving *)
(* a Rooted into a new object.                                             *)
NextCloning ==
  \/ \E v \in Var : MakeNull(v) \/ NewLast(v) \/ Drop(v)
  \/ \E v, w \in Var : \/ NewClone(v, w)
                       \/ Clone(v, w)
                       \/ AsRooted(v, w)
                       \/ SetNext(w, v)

CloningSpec == Init /\ [][NextCloning]_vars

(* The whole interface. *)
Next == NextCloning \/ \E v, w \in Var : NewMove(v, w)

Spec == Init /\ [][Next]_vars

-----------------------------------------------------------------------------
TypeOK == IsRuntime(rt) /\ rooted \in [Var -> Addr \cup {Null, None}]

Usable == ReachableFrom(rt, Range(rooted))

(* Dereferencing a Rooted, or any NonRooted read through it, finds an      *)
(* allocated object: "Our heap values are well formed" (comment in sweep). *)
HeapWellFormed == Usable \subseteq DOMAIN rt.heap

(* Unrooting, cloning and dropping keep the count of an object equal to    *)
(* the number of Rooted on it, although NonRooted pointers to it are made, *)
(* overwritten and promoted without any count.  Rooted::null() is not      *)
(* counted and its clones are: the count of null only never exceeds them.  *)
RootedCounted ==
  LET owners(p) == Cardinality({v \in Var : rooted[v] = p})
  IN  /\ \A a \in Addr : Refcount(rt, a) = owners(a)
      /\ Refcount(rt, Null) <= owners(Null)

(* When an operation frees objects, it frees all that no Rooted leads to,  *)
(* cycles among NonRooted pointers included, and nothing else.             *)
FreesExactlyGarbage ==
  [][DOMAIN rt.heap \subseteq DOMAIN rt'.heap \/ DOMAIN rt'.heap = Usable']_vars

=============================================================================
