------------------------------ MODULE MCRuntime -----------------------------
(***************************************************************************)
(* Instances of Runtime for TLC, over the program skeleton                 *)
(*                                                                         *)
(*   struct Node { next: gc Node, item: gc Leaf }   struct Leaf { i32 }    *)
(*   fn work(x: gc Node) { let y: gc Leaf; .. }                            *)
(*   fn make() { let z: gc Node, w: gc Node; .. }                          *)
(***************************************************************************)
EXTENDS Runtime, TLC

CONSTANTS Node, Leaf, next, item, work, make, w, x, y, z

MCFieldType ==
  [ty \in RtType |-> IF ty = Node THEN next :> Node @@ item :> Leaf ELSE << >>]

NoNesting == [ty \in RtType |-> {}]

(* `next` lies in a struct embedded in Node. *)
NextNested == [ty \in RtType |-> IF ty = Node THEN {next} ELSE {}]

MCLocalType == [l \in Local |-> IF l = y THEN Leaf ELSE Node]

MCFuncLocals == work :> {x, y} @@ make :> {z, w}

SameType == {<<ty, ty>> : ty \in RtType}

MCParam == work :> x @@ make :> None

Symm == Permutations(Addr) \cup Permutations(Handle)

=============================================================================
