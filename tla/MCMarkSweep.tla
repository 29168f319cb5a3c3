----------------------------- MODULE MCMarkSweep ----------------------------
(***************************************************************************)
(* Instances of MarkSweep for TLC: every graph of up to three Pairs, each  *)
(* with two pointers, shared and cyclic ones included; and every list of   *)
(* up to three Nodes, whose one pointer may also be unwritten.             *)
(***************************************************************************)
EXTENDS MarkSweep, TLC

CONSTANTS a1, a2, a3, Pair, Node, left, right

FieldTypes == Pair :> (left :> Pair @@ right :> Pair) @@ Node :> (left :> Node)

NoNesting == [ty \in RtType |-> {}]

(* Blocks are all Pairs, and written, or all Nodes.                        *)
OneType ==
  \/ \A a \in DOMAIN rt.heap : rt.heap[a] = Pair /\ Wild \notin Range(rt.mem[a])
  \/ \A a \in DOMAIN rt.heap : rt.heap[a] = Node

(* Addresses are interchangeable, but TLC finds liveness properties only   *)
(* without a SYMMETRY. So of the initial states that differ in the names   *)
(* of addresses, those are kept whose root in a frame is a1, and whose     *)
(* counted address is a1 or the next one.                                  *)
Canonical ==
  LET counted  == DOMAIN rt.extern_refcount
      inFrames == Range(slots) \cap Addr
  IN  /\ inFrames \subseteq {a1}
      /\ counted \subseteq {a1} \cup (IF inFrames = {} THEN {} ELSE {a2})

MCInit == Init /\ OneType /\ Canonical

MCSpec == MCInit /\ [][Next]_vars /\ WF_vars(Next)

=============================================================================
