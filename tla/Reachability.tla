---------------------------- MODULE Reachability ----------------------------
(***************************************************************************)
(* What a pointer graph makes reachable.  Reach is a definition to measure *)
(* code against, not a translation of any code: the least set of addresses *)
(* that contains the starting addresses and is closed under the successor  *)
(* function.  Defined as an intersection of closed sets rather than by     *)
(* recursion, so that theorems about it need no induction.                 *)
(***************************************************************************)

CONSTANT Addr  \* addresses the allocator can hand out

ClosedUnder(S, succ) == \A a \in S : succ[a] \subseteq S

(* from \subseteq Addr, succ \in [Addr -> SUBSET Addr] *)
Reach(from, succ) ==
  LET covers == {S \in SUBSET Addr : from \subseteq S /\ ClosedUnder(S, succ)}
  IN  {a \in Addr : \A S \in covers : a \in S}

=============================================================================
