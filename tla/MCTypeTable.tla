----------------------------- MODULE MCTypeTable ----------------------------
(***************************************************************************)
(* Instances of TypeTable for TLC: every text of one struct with up to     *)
(* three fields, of two structs with up to two and one, which may share a  *)
(* name or take that of a primitive type; and one text on which the code   *)
(* goes wrong.                                                             *)
(***************************************************************************)
EXTENDS TypeTable

Path(refs, name) == [refs |-> refs, name |-> name]

Struct(name, fields) == [name |-> name, fields |-> fields]

(* Fields by value, gc pointers, plain references and pointers to those. *)
Paths == {Path(<< >>, n) : n \in {"A", "B", "bool", "i64"}}
         \cup {Path(<<"GcRef">>, n) : n \in {"A", "B"}}
         \cup {Path(<<"Ref">>, "i32"), Path(<<"GcRef", "Ref">>, "bool")}

PathsOver(names) == {p \in Paths : p.name \in Prim \cup names}

FieldLists(names, n) == UNION {[1..k -> PathsOver(names)] : k \in 0..n}

OneStruct == {<<Struct("A", fs)>> : fs \in FieldLists({"A"}, 3)}

TwoStructs ==
  {<<Struct("A", fs), Struct(n, gs)>> :
      n \in {"A", "B", "bool"}, fs \in FieldLists({"A", "B"}, 2), gs \in FieldLists({"A", "B"}, 1)}

Texts == {t \in OneStruct \cup TwoStructs :
            \A i \in DOMAIN t : \A f \in DOMAIN t[i].fields :
               t[i].fields[f].name \in Declared(t)}

(* Eight fields to a level: D has 2^15 bytes, S two of it and one i64. *)
Eight(p) == [i \in 1..8 |-> Path(<< >>, p)]

LargeStruct ==
  {<<Struct("A", Eight("i64")), Struct("B", Eight("A")), Struct("C", Eight("B")),
     Struct("D", Eight("C")),
     Struct("S", <<Path(<< >>, "D"), Path(<< >>, "D"), Path(<< >>, "i64")>>)>>}

=============================================================================
