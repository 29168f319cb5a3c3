------------------------------- MODULE MirRules -----------------------------
(***************************************************************************)
(* What a MIR text says, read by its names: which names and types fit      *)
(* together.  A reference for the parser and the compiler, which work with *)
(* ids and check the same things in many places, some of them not at all.  *)
(***************************************************************************)
EXTENDS MirValues, Sequences, SequencesExt

NamesIn(decls) == {decls[i].name : i \in DOMAIN decls}

Named(decls, n) == CHOOSE d \in Range(decls) : d.name = n

Distinct(decls) == \A i, j \in DOMAIN decls : decls[i].name = decls[j].name => i = j

(* A local declared again has the type of its last declaration. *)
LocalType(item, n) ==
  LET last == CHOOSE i \in DOMAIN item.lets :
                /\ item.lets[i].name = n
                /\ \A j \in DOMAIN item.lets : item.lets[j].name = n => j <= i
  IN  item.lets[last].ty

IsLocal(item, n, ty) == n \in NamesIn(item.lets) /\ LocalType(item, n) = ty

(* `call f r b x y`: f is called with x and y, its result goes to r, and b *)
(* is next.  Without r nothing is kept.  The next block is the first       *)
(* operand that names a block.                                             *)
CallReading(item, operands) ==
  LET blocksAt == {k \in 2..Len(operands) : operands[k] \in NamesIn(item.blocks)}
      at       == CHOOSE k \in blocksAt : \A j \in blocksAt : k <= j
  IN  IF blocksAt = {} THEN [store |-> << >>, next |-> None, args |-> << >>]
      ELSE [store |-> SubSeq(operands, 2, at - 1),
            next  |-> operands[at],
            args  |-> SubSeq(operands, at + 1, Len(operands))]

IsOperand(item, o, ty) == IF o.kind = "place" THEN IsLocal(item, o.name, ty) ELSE o.kind = ty

(* Fits(to, from) says which types may be stored where no operation of the *)
(* compiler looks at both: it is equality for a program that makes sense.  *)
LineWellFormed(item, line, Fits(_, _)) ==
  LET Place(ty) == IsLocal(item, line.place, ty)
      All(ty)   == \A k \in DOMAIN line.operands : IsOperand(item, line.operands[k], ty)
  IN  CASE line.op = "alloc" -> Place("gc")
        [] line.op = "read"  -> \E to, from \in Type : Place(to) /\ All(from) /\ Fits(to, from)
        [] line.op = "eq"    -> Place("bool") /\ (All("i32") \/ All("bool"))
        [] line.op \in {"le", "lt"} -> Place("bool") /\ All("i32")
        [] line.op \in Arithmetic   -> Place("i32") /\ \E ty \in Type : All(ty) /\ Fits("i32", ty)

(* The first block is where a function starts, and only that. *)
IsTarget(item, n) == n \in NamesIn(item.blocks) /\ n # item.blocks[1].name

CallWellFormed(items, item, operands, Fits(_, _)) ==
  LET reading == CallReading(item, operands)
      callee  == Named(items, operands[1])
  IN  /\ operands # << >> /\ operands[1] \in NamesIn(items)
      /\ IsTarget(item, reading.next)
      /\ Len(reading.store) <= 1
      /\ reading.store # << >> =>
           /\ callee.ret # None
           /\ \E to \in Type : IsLocal(item, reading.store[1], to) /\ Fits(to, callee.ret)
      /\ Len(reading.args) = Len(callee.args)
      /\ \A i \in DOMAIN reading.args : \E ty \in Type :
           IsLocal(item, reading.args[i], ty) /\ IsLocal(callee, callee.args[i], ty)

ReturnWellFormed(item, operands, Fits(_, _)) ==
  IF item.ret = None THEN operands = << >>
  ELSE /\ operands # << >>
       /\ \E from \in Type : IsLocal(item, operands[1], from) /\ Fits(item.ret, from)

TerminatorWellFormed(items, item, block, Fits(_, _)) ==
  LET op == block.operands
  IN  CASE block.ins = "br"     -> op # << >> /\ IsTarget(item, op[1])
        [] block.ins = "brif"   -> /\ Len(op) >= 3
                                   /\ IsLocal(item, op[1], "bool")
                                   /\ IsTarget(item, op[2]) /\ IsTarget(item, op[3])
        [] block.ins = "call"   -> CallWellFormed(items, item, op, Fits)
        [] block.ins = "return" -> ReturnWellFormed(item, op, Fits)

WellFormed(items, Fits(_, _)) ==
  \A f \in DOMAIN items :
    LET item == items[f]
    IN  /\ Distinct(item.blocks)
        /\ \A i \in DOMAIN item.args : item.args[i] \in NamesIn(item.lets)
        /\ \A b \in DOMAIN item.blocks :
             /\ TerminatorWellFormed(items, item, item.blocks[b], Fits)
             /\ \A i \in DOMAIN item.blocks[b].body :
                  LineWellFormed(item, item.blocks[b].body[i], Fits)

(* Well formed up to mixed types in stores, and with types that agree. *)
FitsTogether(items) == WellFormed(items, LAMBDA to, from : TRUE)
WellTyped(items)    == WellFormed(items, LAMBDA to, from : to = from)

(* A name means one thing: no function has a local and a block of one name.*)
Unambiguous(items) ==
  \A f \in DOMAIN items : NamesIn(items[f].lets) \cap NamesIn(items[f].blocks) = {}

(* No function has a gc parameter, whose argument push_stack_frame wipes.  *)
NoGcParameters(items) ==
  \A f \in DOMAIN items : \A i \in DOMAIN items[f].args : ~IsLocal(items[f], items[f].args[i], "gc")

=============================================================================
