----------------------------- MODULE AbstractGc -----------------------------
(***************************************************************************)
(* What a garbage collector promises the program above it, with no roots,  *)
(* frames, counts or marking: blocks the program can get at stay           *)
(* allocated, what it has lost never comes back, and a collection frees    *)
(* all of the garbage and nothing else.                                    *)
(***************************************************************************)
CONSTANT Addr

VARIABLES
  live,    \* allocated blocks
  usable   \* blocks the program can get at

vars == <<live, usable>>

TypeOK == live \subseteq Addr /\ usable \subseteq live

Init == live = {} /\ usable = {}

(* A block at a free address; the program may lose others by storing it. *)
Alloc(p) ==
  /\ p \in Addr \ live
  /\ live' = live \cup {p}
  /\ usable' \subseteq usable \cup {p}

(* Moving pointers about can lose blocks and cannot find any. *)
Mutate ==
  /\ usable' \subseteq usable
  /\ UNCHANGED live

(* The program loses some blocks (a local, a handle), then all of the      *)
(* garbage is freed.                                                       *)
Collect ==
  /\ usable' \subseteq usable
  /\ live' = usable'

Next == (\E p \in Addr : Alloc(p)) \/ Mutate \/ Collect

Spec == Init /\ [][Next]_vars

=============================================================================
