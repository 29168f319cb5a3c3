------------------------------ MODULE MirValues -----------------------------
(***************************************************************************)
(* Types and values of MIR locals that are not structs, as function bodies *)
(* see them, and BinOp on them (cf_build.rs).  A bool is the byte in its   *)
(* slot, a gc pointer 0 for null and 1 for any block, and a slot that      *)
(* nothing has been stored to holds Undef.                                 *)
(***************************************************************************)
EXTENDS Integers

CONSTANTS
  None,     \* no return type, no operand, no value
  Undef,    \* indeterminate contents: any value
  IntMax    \* largest i32; a small one keeps TLC's numbers small

Type == {"i32", "bool", "gc"}

ASSUME ValuesAssumption ==
  /\ None \notin STRING \cup Int /\ Undef \notin Int /\ None # Undef
  /\ IntMax \in Nat /\ IntMax >= 127

(* Bytes of a slot, and of a load or store (translate_ssa_type). *)
Size == [t \in Type |-> CASE t = "bool" -> 1 [] t = "i32" -> 4 [] t = "gc" -> 8]

IntMin  == -IntMax - 1
Wrap(n) == ((n - IntMin) % (2 * IntMax + 2)) + IntMin

(* A slot of type t read at another type: the low byte of a wider one, or  *)
(* bytes from outside a narrower one.                                      *)
LoadAs(as, t, v) ==
  IF as = t \/ v = Undef THEN v
  ELSE IF as = "bool" THEN v % 256
  ELSE Undef

(* A value of type t in a slot of type `slot`; where the slot is wider its *)
(* upper bytes stay as they were.                                          *)
StoredIn(slot, t, v) == IF slot = t THEN v ELSE Undef

Comparisons == {"eq", "le", "lt"}
Arithmetic  == {"add", "sub", "mul", "div"}

Magnitude(n) == IF n < 0 THEN -n ELSE n

(* sdiv rounds towards zero *)
Quotient(m, n) ==
  LET q == Magnitude(m) \div Magnitude(n)
  IN  IF (m < 0) = (n < 0) THEN q ELSE -q

(* ... and traps. *)
DivTraps(m, n) == n = 0 \/ (m = IntMin /\ n = -1)

(* Mutant: lt is translated to the condition code of le. *)
LessOrEqual(op, m, n) == IF op = "eq" THEN m = n ELSE m <= n

Compare(op, m, n) ==
  CASE op = "eq" -> m = n
    [] op = "le" -> m <= n
    [] op = "lt" -> m < n

(* Operands of type t; arithmetic on other types than i32 is at their own  *)
(* width, and its outcome is left open.                                    *)
BinOp(op, t, m, n) ==
  IF m = Undef \/ n = Undef \/ (op \in Arithmetic /\ t # "i32") THEN Undef
  ELSE CASE op \in Comparisons -> IF Compare(op, m, n) THEN 1 ELSE 0
         [] op = "add" -> Wrap(m + n)
         [] op = "sub" -> Wrap(m - n)
         [] op = "mul" -> Wrap(m * n)
         [] op = "div" -> Quotient(m, n)

(* The (operator, output, input) combinations the compiler translates; any *)
(* other one is a panic.                                                   *)
BinOpTyped(op, output, input) ==
  \/ op = "eq" /\ output = "bool" /\ input \in {"i32", "bool"}
  \/ op \in {"le", "lt"} /\ output = "bool" /\ input = "i32"
  \/ op \in Arithmetic /\ output = "i32"

BinOpResult(op, input) == IF op \in Comparisons THEN "bool" ELSE input

=============================================================================
