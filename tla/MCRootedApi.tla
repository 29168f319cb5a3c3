----------------------------- MODULE MCRootedApi ----------------------------
(* Instances of RootedApi for TLC. *)
EXTENDS RootedApi, TLC

ListFields == [ty \in RtType |-> next :> List]

NoNesting == [ty \in RtType |-> {}]

Symm == Permutations(Addr) \cup Permutations(Var)

=============================================================================
