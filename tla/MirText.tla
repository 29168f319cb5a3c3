------------------------------- MODULE MirText ------------------------------
(***************************************************************************)
(* From the text of MIR functions to a Program: the function half of       *)
(* parse_mir_program (human_format.rs).  Types are given, see TypeTable;   *)
(* places are locals, see Runtime and TypeTable for projections.           *)
(*                                                                         *)
(* A text is a sequence of items, each a function.  Locals and blocks are  *)
(* declared in passes of their own and in tables of their own, so how      *)
(* `let`s and blocks mix does not matter.                                  *)
(***************************************************************************)
EXTENDS MirValues, Sequences, SequencesExt

(* What the grammar makes of a text; a literal has a value, a place a name.*)
OperandForms == [kind : {"place", "i32", "bool"}, name : STRING, val : Int]

LineForms ==
  [place : STRING, op : {"alloc"}, operands : {<< >>}]
  \cup [place : STRING, op : {"read"}, operands : [1..1 -> OperandForms]]
  \cup [place : STRING, op : Comparisons \cup Arithmetic, operands : [1..2 -> OperandForms]]

BlockForms ==
  [name : STRING, body : Seq(LineForms),
   ins : {"br", "brif", "call", "return"}, operands : Seq(STRING)]

ItemForms ==
  [name : STRING, args : Seq(STRING), ret : Type \cup {None},
   lets : Seq([name : STRING, ty : Type]), blocks : Seq(BlockForms)]

-----------------------------------------------------------------------------
(* A name table filled front to back: the last declaration of a name wins. *)
(* Ids count from 1; 0 stands for a name that is not there, on which the   *)
(* code's indexing panics, and for BasicBlockId::null().                   *)
IdOf(names, n) == Max({0} \cup {i \in DOMAIN names : names[i] = n})

NamesOf(decls) == [i \in DOMAIN decls |-> decls[i].name]

FuncId(items, n)  == IdOf(NamesOf(items), n)
LocalId(item, n) == IdOf(NamesOf(item.lets), n)
BlockId(item, n) == IdOf(NamesOf(item.blocks), n)

(* The k-th operand of a terminator; indexing past the end panics as well. *)
Nth(operands, k) == IF k <= Len(operands) THEN operands[k] ELSE None

(* Mutant: the operand after the function is always the next block. *)
NoPlaceForResult(item, operands) == None

(* `peeking_next`: the operand after the function is the place for the     *)
(* result if it is the name of a local.                                    *)
StoreRet(item, operands) ==
  LET id == LocalId(item, Nth(operands, 2)) IN IF id = 0 THEN None ELSE id

Br(next) == [kind |-> "Br", next |-> next]

Call(items, item, operands) ==
  LET store_ret == StoreRet(item, operands)
      rest      == SubSeq(operands, IF store_ret = None THEN 2 ELSE 3, Len(operands))
  IN  [kind      |-> "Call",
       func      |-> FuncId(items, Nth(operands, 1)),
       store_ret |-> store_ret,
       next      |-> BlockId(item, Nth(rest, 1)),
       args      |-> [i \in 1..(Len(rest) - 1) |-> LocalId(item, rest[i + 1])]]

BrIf(item, operands) ==
  [kind     |-> "BrIf",
   cond     |-> LocalId(item, Nth(operands, 1)),
   is_true  |-> BlockId(item, Nth(operands, 2)),
   is_false |-> BlockId(item, Nth(operands, 3))]

Return(item, operands) ==
  [kind  |-> "Return",
   value |-> IF operands = << >> THEN None ELSE LocalId(item, operands[1])]

(* Operands that a terminator does not read are ignored. *)
Terminator(items, item, block) ==
  CASE block.ins = "br"     -> Br(BlockId(item, Nth(block.operands, 1)))
    [] block.ins = "brif"   -> BrIf(item, block.operands)
    [] block.ins = "call"   -> Call(items, item, block.operands)
    [] block.ins = "return" -> Return(item, block.operands)

Operand(item, o) ==
  [kind |-> o.kind, val |-> o.val, local |-> IF o.kind = "place" THEN LocalId(item, o.name) ELSE None]

Instruction(item, line) ==
  [place    |-> LocalId(item, line.place),
   op       |-> line.op,
   operands |-> [i \in DOMAIN line.operands |-> Operand(item, line.operands[i])]]

(* Every block line declares a block that branches to null; its definition *)
(* goes to the block the name now stands for.  Bodies that end up in one   *)
(* block are appended in the code and the last one is kept here: the block *)
(* left without a definition still branches to null, and such a program    *)
(* does not compile.                                                       *)
BasicBlock(items, item, id) ==
  LET block == item.blocks[id]
  IN  IF BlockId(item, block.name) = id
      THEN [instructions |-> [i \in DOMAIN block.body |-> Instruction(item, block.body[i])],
            ins_final    |-> Terminator(items, item, block)]
      ELSE [instructions |-> << >>, ins_final |-> Br(0)]

(* The entrypoint is the first block defined. *)
Func(items, item) ==
  [return_type |-> item.ret,
   locals      |-> [i \in DOMAIN item.lets |-> item.lets[i].ty],
   args        |-> [i \in DOMAIN item.args |-> LocalId(item, item.args[i])],
   blocks      |-> [id \in DOMAIN item.blocks |-> BasicBlock(items, item, id)],
   entrypoint  |-> BlockId(item, item.blocks[1].name)]

Functions(items) == [f \in DOMAIN items |-> Func(items, items[f])]

-----------------------------------------------------------------------------
(* The names a terminator's arm looks up before it is built. *)
Resolved(term) ==
  CASE term.kind = "Br"     -> term.next # 0
    [] term.kind = "BrIf"   -> 0 \notin {term.cond, term.is_true, term.is_false}
    [] term.kind = "Call"   -> 0 \notin {term.func, term.next} \cup Range(term.args)
    [] term.kind = "Return" -> term.value # 0

(* Every name a function mentions is declared; otherwise the parser panics. *)
NamesResolve(items) ==
  \A f \in DOMAIN items :
    LET item == items[f]
    IN  /\ \A i \in DOMAIN item.args : LocalId(item, item.args[i]) # 0
        /\ \A b \in DOMAIN item.blocks :
             /\ Resolved(Terminator(items, item, item.blocks[b]))
             /\ \A i \in DOMAIN item.blocks[b].body :
                  LET ins == Instruction(item, item.blocks[b].body[i])
                  IN  /\ ins.place # 0
                      /\ \A o \in DOMAIN ins.operands : ins.operands[o].local # 0

=============================================================================
