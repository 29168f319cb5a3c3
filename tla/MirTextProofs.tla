---------------------------- MODULE MirTextProofs ---------------------------
(***************************************************************************)
(* What parse_mir_program and compile_program guarantee of the program     *)
(* they accept, for every text: name tables hold the last declaration of a *)
(* name, no id in a compiled program is out of range, and what is accepted *)
(* is what the rules by name allow.                                        *)
(***************************************************************************)
EXTENDS MirMachine, SequenceTheorems, WellFoundedInduction, TLAPS

-----------------------------------------------------------------------------
(* Name tables.                                                            *)

(* A set of numbers up to n has a greatest element. *)
LEMMA Greatest ==
  ASSUME NEW n \in Nat, NEW T \in SUBSET (0..n), T # {}
  PROVE  Max(T) \in T /\ \A y \in T : y <= Max(T)
<1> DEFINE R == {ss \in Nat \X Nat : ss[1] < ss[2]}
           D == {n - x : x \in T}
<1>1. IsWellFoundedOn(R, Nat)
  BY NatLessThanWellFounded DEF OpToRel
<1>2. D \subseteq Nat
  OBVIOUS
<1>3. D # {}
  <2>1. PICK x \in T : TRUE
    OBVIOUS
  <2>2. n - x \in D
    OBVIOUS
  <2> QED  BY <2>2
<1>4. \E d \in D : \A e \in D : <<e, d>> \notin R
  <2> HIDE DEF R, D
  <2> QED  BY <1>1, <1>2, <1>3, WFMin
<1>5. PICK d \in D : \A e \in D : ~ (e < d)
  BY <1>2, <1>4
<1>6. PICK x \in T : d = n - x
  OBVIOUS
<1>7. \A y \in T : x >= y
  BY <1>5, <1>6
<1> QED  BY <1>7 DEF Max

(* The id of a name is the last index it is declared at, 0 if there is     *)
(* none.                                                                   *)
LEMMA IdOfName ==
  ASSUME NEW S, NEW names \in Seq(S), NEW n
  PROVE  /\ IdOf(names, n) \in {0} \cup DOMAIN names
         /\ IdOf(names, n) # 0 => names[IdOf(names, n)] = n
         /\ \A i \in DOMAIN names : names[i] = n => i <= IdOf(names, n)
<1> DEFINE at == {i \in DOMAIN names : names[i] = n}
<1>1. Len(names) \in Nat /\ DOMAIN names = 1..Len(names)
  BY LenProperties
<1>2. /\ {0} \cup at \in SUBSET (0..Len(names))
      /\ {0} \cup at # {}
  BY <1>1
<1>3. /\ IdOf(names, n) \in {0} \cup at
      /\ \A y \in {0} \cup at : y <= IdOf(names, n)
  BY <1>1, <1>2, Greatest DEF IdOf
<1> QED  BY <1>3

(* 0 is not the index of a declaration. *)
LEMMA IdOfDeclared ==
  ASSUME NEW S, NEW names \in Seq(S), NEW n
  PROVE  /\ IdOf(names, n) # 0 <=> IdOf(names, n) \in DOMAIN names
         /\ IdOf(names, n) # 0 <=> \E i \in DOMAIN names : names[i] = n
<1>1. Len(names) \in Nat /\ DOMAIN names = 1..Len(names)
  BY LenProperties
<1> QED  BY <1>1, IdOfName

(* A table of distinct names gives every name its own index. *)
LEMMA IdOfDistinct ==
  ASSUME NEW S, NEW names \in Seq(S), NEW i \in DOMAIN names,
         \A j \in DOMAIN names : names[j] = names[i] => j = i
  PROVE  IdOf(names, names[i]) = i
BY IdOfName, IdOfDeclared

(* The names of a table of declarations, in its order. *)
LEMMA NamesOfSeq ==
  ASSUME NEW S, NEW decls \in Seq(S)
  PROVE  /\ NamesOf(decls) \in Seq({decls[i].name : i \in DOMAIN decls})
         /\ DOMAIN NamesOf(decls) = DOMAIN decls
         /\ \A i \in DOMAIN decls : NamesOf(decls)[i] = decls[i].name
<1>1. Len(decls) \in Nat /\ DOMAIN decls = 1..Len(decls)
  BY LenProperties
<1> QED  BY <1>1 DEF NamesOf

(* The same for a table of declarations. *)
LEMMA IdOfDeclaration ==
  ASSUME NEW S, NEW decls \in Seq(S), NEW n
  PROVE  LET id == IdOf(NamesOf(decls), n)
         IN  /\ id \in {0} \cup DOMAIN decls
             /\ id # 0 <=> id \in DOMAIN decls
             /\ id # 0 <=> \E i \in DOMAIN decls : decls[i].name = n
             /\ id # 0 => decls[id].name = n
             /\ \A i \in DOMAIN decls : decls[i].name = n => i <= id
<1> DEFINE names == NamesOf(decls)
           id    == IdOf(names, n)
<1>1. PICK N : names \in Seq(N)
  BY NamesOfSeq
<1>2. DOMAIN names = DOMAIN decls /\ \A i \in DOMAIN decls : names[i] = decls[i].name
  BY NamesOfSeq
<1>3. /\ id \in {0} \cup DOMAIN names
      /\ id # 0 => names[id] = n
      /\ \A i \in DOMAIN names : names[i] = n => i <= id
  <2> HIDE DEF names
  <2> QED  BY <1>1, IdOfName
<1>4. /\ id # 0 <=> id \in DOMAIN names
      /\ id # 0 <=> \E i \in DOMAIN names : names[i] = n
  <2> HIDE DEF names
  <2> QED  BY <1>1, IdOfDeclared
<1> HIDE DEF names, id
<1>5. /\ id \in {0} \cup DOMAIN decls
      /\ id # 0 <=> id \in DOMAIN decls
      /\ id # 0 <=> \E i \in DOMAIN decls : decls[i].name = n
      /\ id # 0 => decls[id].name = n
      /\ \A i \in DOMAIN decls : decls[i].name = n => i <= id
  BY <1>2, <1>3, <1>4
<1> QED  BY <1>5 DEF id, names

-----------------------------------------------------------------------------
(* Ids in range.                                                           *)

OperandTyped(func, o) == IF o.kind = "place" THEN o.local \in DOMAIN func.locals ELSE o.val \in Int

InstructionTyped(func, ins) ==
  /\ ins.place \in DOMAIN func.locals
  /\ ins.op \in {"alloc", "read"} \cup Comparisons \cup Arithmetic
  /\ ins.op # "alloc" => OperandTyped(func, ins.operands[1])
  /\ ins.op \in Comparisons \cup Arithmetic => OperandTyped(func, ins.operands[2])

CallTyped(functions, func, term) ==
  LET callee == functions[term.func]
  IN  /\ term.func \in DOMAIN functions
      /\ term.next \in DOMAIN func.blocks
      /\ term.args \in Seq(DOMAIN func.locals)
      /\ DOMAIN term.args = DOMAIN callee.args
      /\ term.store_ret # None =>
           term.store_ret \in DOMAIN func.locals /\ callee.return_type # None

TerminatorTyped(functions, func, term) ==
  \/ term.kind = "Br" /\ term.next \in DOMAIN func.blocks
  \/ /\ term.kind = "BrIf"
     /\ term.cond \in DOMAIN func.locals
     /\ {term.is_true, term.is_false} \subseteq DOMAIN func.blocks
  \/ term.kind = "Call" /\ CallTyped(functions, func, term)
  \/ /\ term.kind = "Return"
     /\ term.value # None => term.value \in DOMAIN func.locals
     /\ term.value # None <=> func.return_type # None

BlockTyped(functions, func, block) ==
  /\ Len(block.instructions) \in Nat
  /\ DOMAIN block.instructions = 1..Len(block.instructions)
  /\ \A i \in DOMAIN block.instructions : InstructionTyped(func, block.instructions[i])
  /\ TerminatorTyped(functions, func, block.ins_final)

FuncTyped(functions, func) ==
  /\ func.locals \in Seq(Type)
  /\ func.args \in Seq(DOMAIN func.locals)
  /\ func.return_type \in Type \cup {None}
  /\ func.entrypoint \in DOMAIN func.blocks
  /\ DOMAIN func.blocks \subseteq Nat
  /\ \A b \in DOMAIN func.blocks : BlockTyped(functions, func, func.blocks[b])

ProgramTyped(functions) == \A f \in DOMAIN functions : FuncTyped(functions, functions[f])

-----------------------------------------------------------------------------
(* The fields of an item. *)
LEMMA ItemParts ==
  ASSUME NEW item \in ItemForms
  PROVE  /\ item.args \in Seq(STRING)
         /\ item.ret \in Type \cup {None}
         /\ item.lets \in Seq([name : STRING, ty : Type])
         /\ item.blocks \in Seq(BlockForms)
BY DEF ItemForms

(* Ids of locals, of blocks and of functions are 0 or in their table. *)
LEMMA LocalIdRange ==
  ASSUME NEW item \in ItemForms, NEW n
  PROVE  /\ LocalId(item, n) \in {0} \cup DOMAIN item.lets
         /\ LocalId(item, n) # 0 <=> LocalId(item, n) \in DOMAIN item.lets
BY ItemParts, IdOfDeclaration DEF LocalId

LEMMA BlockIdRange ==
  ASSUME NEW item \in ItemForms, NEW n
  PROVE  /\ BlockId(item, n) \in {0} \cup DOMAIN item.blocks
         /\ BlockId(item, n) # 0 <=> BlockId(item, n) \in DOMAIN item.blocks
BY ItemParts, IdOfDeclaration DEF BlockId

LEMMA FuncIdRange ==
  ASSUME NEW items \in Seq(ItemForms), NEW n
  PROVE  /\ FuncId(items, n) \in {0} \cup DOMAIN items
         /\ FuncId(items, n) # 0 <=> FuncId(items, n) \in DOMAIN items
BY IdOfDeclaration DEF FuncId

(* A function of the program, from its item. *)
LEMMA FuncParts ==
  ASSUME NEW items \in Seq(ItemForms), NEW f \in DOMAIN items
  PROVE  LET item == items[f]
             func == Functions(items)[f]
         IN  /\ item \in ItemForms
             /\ DOMAIN Functions(items) = DOMAIN items
             /\ func = Func(items, item)
             /\ func.return_type = item.ret
             /\ DOMAIN func.locals = DOMAIN item.lets
             /\ \A l \in DOMAIN item.lets : func.locals[l] = item.lets[l].ty
             /\ DOMAIN func.args = DOMAIN item.args
             /\ \A i \in DOMAIN item.args : func.args[i] = LocalId(item, item.args[i])
             /\ DOMAIN func.blocks = DOMAIN item.blocks
             /\ \A b \in DOMAIN item.blocks : func.blocks[b] = BasicBlock(items, item, b)
             /\ func.entrypoint = BlockId(item, item.blocks[1].name)
BY ElementOfSeq, LenProperties DEF Functions, Func

-----------------------------------------------------------------------------
(* A line of a text as an instruction. *)
LEMMA InstructionParts ==
  ASSUME NEW item \in ItemForms, NEW line \in LineForms
  PROVE  LET ins == Instruction(item, line)
         IN  /\ ins.place = LocalId(item, line.place)
             /\ ins.op = line.op
             /\ line.op \in {"alloc", "read"} \cup Comparisons \cup Arithmetic
             /\ DOMAIN ins.operands = DOMAIN line.operands
             /\ line.op = "alloc" => DOMAIN line.operands = {}
             /\ line.op = "read" => DOMAIN line.operands = {1}
             /\ line.op \in Comparisons \cup Arithmetic => DOMAIN line.operands = {1, 2}
             /\ \A o \in DOMAIN line.operands :
                  /\ line.operands[o] \in OperandForms
                  /\ ins.operands[o] = Operand(item, line.operands[o])
BY DEF LineForms, Instruction, Comparisons, Arithmetic

(* A line whose names resolve becomes an instruction with ids in range. *)
LEMMA InstructionsTyped ==
  ASSUME NEW items \in Seq(ItemForms), NEW f \in DOMAIN items, NEW line \in LineForms,
         Instruction(items[f], line).place # 0,
         \A o \in DOMAIN Instruction(items[f], line).operands :
           Instruction(items[f], line).operands[o].local # 0
  PROVE  InstructionTyped(Functions(items)[f], Instruction(items[f], line))
<1> DEFINE item == items[f]
           func == Functions(items)[f]
           ins  == Instruction(item, line)
<1>1. item \in ItemForms /\ DOMAIN func.locals = DOMAIN item.lets
  BY FuncParts
<1>2. ins.place \in DOMAIN func.locals
  BY <1>1, InstructionParts, LocalIdRange
<1>3. ASSUME NEW o \in DOMAIN line.operands
      PROVE  OperandTyped(func, ins.operands[o])
  <2>1. /\ line.operands[o] \in OperandForms
        /\ ins.operands[o] = Operand(item, line.operands[o])
        /\ ins.operands[o].local # 0
    BY <1>1, InstructionParts
  <2> QED  BY <1>1, <2>1, LocalIdRange DEF OperandTyped, Operand, OperandForms
<1>4. /\ ins.op \in {"alloc", "read"} \cup Comparisons \cup Arithmetic
      /\ ins.op # "alloc" => 1 \in DOMAIN line.operands
      /\ ins.op \in Comparisons \cup Arithmetic => 2 \in DOMAIN line.operands
  BY <1>1, InstructionParts
<1> HIDE DEF func, ins
<1> QED  BY <1>2, <1>3, <1>4 DEF InstructionTyped, func, ins

(* What the rest of a call's operands is taken for. *)
LEMMA CallArgs ==
  ASSUME NEW items \in Seq(ItemForms), NEW item \in ItemForms, NEW operands \in Seq(STRING),
         0 \notin Range(Call(items, item, operands).args)
  PROVE  Call(items, item, operands).args \in Seq(DOMAIN item.lets)
<1> DEFINE term == Call(items, item, operands)
           rest == SubSeq(operands, IF StoreRet(item, operands) = None THEN 2 ELSE 3, Len(operands))
           n    == Len(rest) - 1
<1>1. rest \in Seq(STRING)
  BY LenProperties
<1>2. term.args = [i \in 1..n |-> LocalId(item, rest[i + 1])]
  BY DEF Call
<1>3. n \in Int
  <2> HIDE DEF rest
  <2> QED  BY <1>1, LenProperties
<1>4. 0 \notin {term.args[i] : i \in DOMAIN term.args}
  BY DEF Range
<1> HIDE DEF rest, n, term
<1>5. \A i \in 1..n : term.args[i] \in DOMAIN item.lets
  <2> TAKE i \in 1..n
  <2>1. term.args[i] = LocalId(item, rest[i + 1]) /\ i \in DOMAIN term.args
    BY <1>2
  <2> QED  BY <1>4, <2>1, LocalIdRange
<1>6. CASE n < 0
  <2>1. 1..n = {} /\ 1..0 = {}
    BY <1>3, <1>6
  <2>2. term.args \in [1..0 -> DOMAIN item.lets]
    BY <1>2, <2>1
  <2> QED  BY <2>2, SeqDef DEF term
<1>7. CASE n >= 0
  <2>1. term.args \in [1..n -> DOMAIN item.lets] /\ n \in Nat
    BY <1>2, <1>3, <1>5, <1>7
  <2> QED  BY <2>1, SeqDef DEF term
<1> QED  BY <1>3, <1>6, <1>7

(* The fields of a block. *)
LEMMA BlockParts ==
  ASSUME NEW items \in Seq(ItemForms), NEW f \in DOMAIN items,
         NEW b \in DOMAIN items[f].blocks
  PROVE  LET block == items[f].blocks[b]
         IN  /\ block \in BlockForms
             /\ block.body \in Seq(LineForms)
             /\ block.ins \in {"br", "brif", "call", "return"}
             /\ block.operands \in Seq(STRING)
<1>1. items[f] \in ItemForms
  BY FuncParts
<1>2. items[f].blocks[b] \in BlockForms
  BY <1>1, ItemParts, ElementOfSeq, LenProperties
<1> QED  BY <1>2 DEF BlockForms

(* A terminator whose names resolve and that compiles has ids in range. *)
LEMMA TerminatorsTyped ==
  ASSUME ValuesAssumption,
         NEW items \in Seq(ItemForms), NEW f \in DOMAIN items, NEW block \in BlockForms,
         Resolved(Terminator(items, items[f], block)),
         TerminatorCompiles(Functions(items), Functions(items)[f],
                            Terminator(items, items[f], block)),
         TerminatorVerified(Functions(items), Functions(items)[f],
                            Terminator(items, items[f], block))
  PROVE  TerminatorTyped(Functions(items), Functions(items)[f],
                         Terminator(items, items[f], block))
<1> DEFINE item      == items[f]
           functions == Functions(items)
           func      == functions[f]
           op        == block.operands
           term      == Terminator(items, item, block)
<1>1. /\ item \in ItemForms
      /\ DOMAIN functions = DOMAIN items
      /\ DOMAIN func.locals = DOMAIN item.lets
      /\ DOMAIN func.blocks = DOMAIN item.blocks
  BY FuncParts
<1>2. block.ins \in {"br", "brif", "call", "return"} /\ op \in Seq(STRING)
  BY DEF BlockForms
<1>3. CASE block.ins = "br"
  <2>1. term = Br(BlockId(item, Nth(op, 1)))
    BY <1>3 DEF Terminator
  <2>2. term.kind = "Br" /\ term.next \in DOMAIN func.blocks
    BY <1>1, <2>1, BlockIdRange DEF Br, Resolved
  <2> QED  BY <2>2 DEF TerminatorTyped
<1>4. CASE block.ins = "brif"
  <2>1. term = BrIf(item, op)
    BY <1>4 DEF Terminator
  <2>2. term.kind = "BrIf" /\ 0 \notin {term.cond, term.is_true, term.is_false}
    BY <2>1 DEF BrIf, Resolved
  <2>3. /\ term.cond = LocalId(item, Nth(op, 1))
        /\ term.is_true = BlockId(item, Nth(op, 2))
        /\ term.is_false = BlockId(item, Nth(op, 3))
    BY <2>1 DEF BrIf
  <2>4. term.cond \in DOMAIN func.locals
    BY <1>1, <2>2, <2>3, LocalIdRange
  <2>5. {term.is_true, term.is_false} \subseteq DOMAIN func.blocks
    BY <1>1, <2>2, <2>3, BlockIdRange
  <2> HIDE DEF func, term
  <2> QED  BY <2>2, <2>4, <2>5 DEF TerminatorTyped, func, term
<1>5. CASE block.ins = "call"
  <2>1. term = Call(items, item, op)
    BY <1>5 DEF Terminator
  <2>2. /\ term.kind = "Call"
        /\ term.func = FuncId(items, Nth(op, 1))
        /\ term.store_ret = StoreRet(item, op)
        /\ \E n : term.next = BlockId(item, n)
    BY <2>1 DEF Call
  <2>3. 0 \notin {term.func, term.next} \cup Range(term.args)
    BY <2>2 DEF Resolved
  <2>4. term.func \in DOMAIN functions /\ term.next \in DOMAIN func.blocks
    BY <1>1, <2>2, <2>3, FuncIdRange, BlockIdRange
  <2>5. term.args \in Seq(DOMAIN func.locals)
    BY <1>1, <1>2, <2>1, <2>3, CallArgs
  <2>6. DOMAIN term.args = DOMAIN functions[term.func].args
    <3> DEFINE callee == functions[term.func]
    <3>1. [i \in DOMAIN term.args |-> func.locals[term.args[i]]]
            = [i \in DOMAIN callee.args |-> callee.locals[callee.args[i]]]
      BY <2>2 DEF TerminatorVerified
    <3> HIDE DEF callee, func, term
    <3> QED  BY <3>1 DEF callee
  <2>7. term.store_ret # None =>
          term.store_ret \in DOMAIN func.locals /\ functions[term.func].return_type # None
    <3>1. term.store_ret # None => functions[term.func].return_type # None
      BY <2>2 DEF TerminatorCompiles
    <3>2. term.store_ret # None => term.store_ret \in DOMAIN func.locals
      BY <1>1, <2>2, LocalIdRange DEF StoreRet
    <3> QED  BY <3>1, <3>2
  <2> HIDE DEF func, term, functions
  <2>8. CallTyped(functions, func, term)
    BY <2>4, <2>5, <2>6, <2>7 DEF CallTyped
  <2> QED  BY <2>2, <2>8 DEF TerminatorTyped, func, term, functions
<1>6. CASE block.ins = "return"
  <2>1. term = Return(item, op)
    BY <1>6 DEF Terminator
  <2>2. term.kind = "Return" /\ term.value # 0
    BY <2>1 DEF Return, Resolved
  <2>3. term.value # None => term.value \in DOMAIN func.locals
    BY <1>1, <2>1, <2>2, LocalIdRange DEF Return
  <2>4. term.value # None <=> func.return_type # None
    BY <2>2 DEF TerminatorCompiles, TerminatorVerified
  <2> HIDE DEF func, term
  <2> QED  BY <2>2, <2>3, <2>4 DEF TerminatorTyped, func, term
<1> QED  BY <1>2, <1>3, <1>4, <1>5, <1>6

(* Every block of a program that compiles. *)
LEMMA BlocksTyped ==
  ASSUME ValuesAssumption,
         NEW items \in Seq(ItemForms), NEW f \in DOMAIN items,
         NamesResolve(items), Compiles(Functions(items)),
         NEW b \in DOMAIN items[f].blocks
  PROVE  BlockTyped(Functions(items), Functions(items)[f], Functions(items)[f].blocks[b])
<1> DEFINE item  == items[f]
           func  == Functions(items)[f]
           block == func.blocks[b]
           body  == item.blocks[b].body
<1>1. /\ DOMAIN Functions(items) = DOMAIN items
      /\ DOMAIN func.blocks = DOMAIN item.blocks
      /\ block = BasicBlock(items, item, b)
  BY FuncParts
<1>2. /\ TerminatorCompiles(Functions(items), func, block.ins_final)
      /\ TerminatorVerified(Functions(items), func, block.ins_final)
  BY <1>1 DEF Compiles
<1>3. BlockId(item, item.blocks[b].name) = b
  <2>1. SUFFICES ASSUME BlockId(item, item.blocks[b].name) # b
                 PROVE  FALSE
    OBVIOUS
  <2>2. block.ins_final = Br(0)
    BY <1>1, <2>1 DEF BasicBlock
  <2> QED  BY <1>2, <2>2 DEF Br, TerminatorCompiles
<1>4. block = [instructions |-> [i \in DOMAIN body |-> Instruction(item, body[i])],
               ins_final    |-> Terminator(items, item, item.blocks[b])]
  BY <1>1, <1>3 DEF BasicBlock
<1>5. body \in Seq(LineForms) /\ item.blocks[b] \in BlockForms
  BY BlockParts
<1>6. /\ Len(block.instructions) \in Nat
      /\ DOMAIN block.instructions = 1..Len(block.instructions)
      /\ DOMAIN block.instructions = DOMAIN body
  BY <1>4, <1>5, LenProperties
<1>7. ASSUME NEW i \in DOMAIN block.instructions
      PROVE  InstructionTyped(func, block.instructions[i])
  <2>1. body[i] \in LineForms /\ block.instructions[i] = Instruction(item, body[i])
    BY <1>4, <1>5, <1>6, LenProperties, ElementOfSeq
  <2>2. LET ins == Instruction(item, body[i])
        IN  ins.place # 0 /\ \A o \in DOMAIN ins.operands : ins.operands[o].local # 0
    BY <1>6 DEF NamesResolve
  <2> QED  BY <2>1, <2>2, InstructionsTyped
<1>8. TerminatorTyped(Functions(items), func, block.ins_final)
  <2>1. Resolved(Terminator(items, item, item.blocks[b]))
    BY DEF NamesResolve
  <2>2. block.ins_final = Terminator(items, item, item.blocks[b])
    BY <1>4
  <2> QED  BY <1>2, <1>5, <2>1, <2>2, TerminatorsTyped
<1> HIDE DEF func, block
<1> QED  BY <1>6, <1>7, <1>8 DEF BlockTyped, func, block

(* No id of a compiled program is out of range. *)
LEMMA CompiledTyped ==
  ASSUME ValuesAssumption, MachineAssumption, NEW items \in Texts,
         NamesResolve(items), Compiles(Functions(items))
  PROVE  ProgramTyped(Functions(items))
<1>1. items \in Seq(ItemForms)
  BY DEF MachineAssumption
<1> SUFFICES ASSUME NEW f \in DOMAIN items
             PROVE  FuncTyped(Functions(items), Functions(items)[f])
  BY DEF ProgramTyped, Functions
<1> DEFINE item == items[f]
           func == Functions(items)[f]
<1>2. /\ item \in ItemForms
      /\ func.return_type = item.ret
      /\ DOMAIN func.locals = DOMAIN item.lets
      /\ \A l \in DOMAIN item.lets : func.locals[l] = item.lets[l].ty
      /\ DOMAIN func.args = DOMAIN item.args
      /\ \A i \in DOMAIN item.args : func.args[i] = LocalId(item, item.args[i])
      /\ DOMAIN func.blocks = DOMAIN item.blocks
      /\ func.entrypoint = BlockId(item, item.blocks[1].name)
      /\ func = Func(items, item)
  BY <1>1, FuncParts
<1>3. func.locals \in Seq(Type)
  <2>1. func.locals = [l \in DOMAIN item.lets |-> item.lets[l].ty]
    BY <1>2 DEF Func
  <2>2. item.lets \in Seq([name : STRING, ty : Type])
    BY <1>2, ItemParts
  <2>3. Len(item.lets) \in Nat /\ DOMAIN item.lets = 1..Len(item.lets)
    BY <2>2, LenProperties
  <2>4. \A l \in DOMAIN item.lets : item.lets[l] \in [name : STRING, ty : Type]
    BY <2>2, <2>3, ElementOfSeq
  <2>5. \A l \in DOMAIN item.lets : item.lets[l].ty \in Type
    BY <2>4
  <2> QED  BY <2>1, <2>3, <2>5, SeqDef
<1>4. func.args \in Seq(DOMAIN func.locals)
  <2>1. \A i \in DOMAIN item.args : LocalId(item, item.args[i]) \in DOMAIN item.lets
    BY <1>2, LocalIdRange DEF NamesResolve
  <2>2. func.args = [i \in DOMAIN item.args |-> LocalId(item, item.args[i])]
    BY <1>2 DEF Func
  <2>3. Len(item.args) \in Nat /\ DOMAIN item.args = 1..Len(item.args)
    BY <1>2, ItemParts, LenProperties
  <2> QED  BY <1>2, <2>1, <2>2, <2>3, SeqDef
<1>5. func.entrypoint \in DOMAIN func.blocks
  <2>1. 1 \in DOMAIN item.blocks
    BY <1>2, ItemParts, LenProperties, EmptySeq DEF MachineAssumption
  <2>2. BlockId(item, item.blocks[1].name) # 0
    BY <1>2, <2>1, ItemParts, IdOfDeclaration DEF BlockId
  <2> QED  BY <1>2, <2>2, BlockIdRange
<1>6. \A b \in DOMAIN func.blocks : BlockTyped(Functions(items), func, func.blocks[b])
  BY <1>1, <1>2, BlocksTyped
<1>7. func.return_type \in Type \cup {None}
  BY <1>2, ItemParts
<1>8. DOMAIN func.blocks \subseteq Nat
  BY <1>2, ItemParts, LenProperties
<1> HIDE DEF func
<1> QED  BY <1>3, <1>4, <1>5, <1>6, <1>7, <1>8 DEF FuncTyped, func

-----------------------------------------------------------------------------
(* The checks of parser and compiler against the rules by name.            *)

(* A local is known by its last declaration. *)
LEMMA LocalFits ==
  ASSUME NEW item \in ItemForms, NEW n
  PROVE  LET id == LocalId(item, n)
         IN  /\ id # 0 <=> n \in NamesIn(item.lets)
             /\ id # 0 => id \in DOMAIN item.lets /\ item.lets[id].ty \in Type
             /\ \A ty : IsLocal(item, n, ty) <=> id # 0 /\ item.lets[id].ty = ty
<1> DEFINE id == LocalId(item, n)
           lets == item.lets
           Latest(i) == /\ lets[i].name = n
                      /\ \A j \in DOMAIN lets : lets[j].name = n => j <= i
<1>1. lets \in Seq([name : STRING, ty : Type])
  BY ItemParts
<1>2. /\ id # 0 <=> id \in DOMAIN lets
      /\ id # 0 <=> \E i \in DOMAIN lets : lets[i].name = n
      /\ id # 0 => lets[id].name = n
      /\ \A i \in DOMAIN lets : lets[i].name = n => i <= id
  BY <1>1, IdOfDeclaration DEF LocalId
<1>3. DOMAIN lets \subseteq Nat
  BY <1>1, LenProperties
<1>4. \A i \in DOMAIN lets : lets[i] \in [name : STRING, ty : Type]
  BY <1>1, ElementOfSeq, LenProperties
<1>5. id # 0 <=> n \in NamesIn(lets)
  BY <1>2 DEF NamesIn
<1>6. LocalType(item, n) = lets[CHOOSE i \in DOMAIN lets : Latest(i)].ty
  BY DEF LocalType
<1> HIDE DEF id, lets
<1>7. ASSUME id # 0
      PROVE  LocalType(item, n) = lets[id].ty
  <2>1. id \in DOMAIN lets /\ Latest(id)
    BY <1>2, <1>7
  <2>2. \A i \in DOMAIN lets : Latest(i) => i = id
    BY <1>2, <1>3, <2>1
  <2>3. (CHOOSE i \in DOMAIN lets : Latest(i)) = id
    BY <2>1, <2>2
  <2> QED  BY <1>6, <2>3
<1>8. id # 0 => lets[id].ty \in Type
  BY <1>2, <1>4
<1> QED  BY <1>2, <1>5, <1>7, <1>8 DEF IsLocal, id, lets

(* An operand has the type the rules see. *)
LEMMA OperandFits ==
  ASSUME ValuesAssumption, NEW items \in Seq(ItemForms), NEW f \in DOMAIN items,
         NEW o \in OperandForms
  PROVE  LET id == Operand(items[f], o)
             ty == OperandType(Functions(items)[f], id)
         IN  /\ id.local # 0 => ty \in Type
             /\ \A t : IsOperand(items[f], o, t) <=> id.local # 0 /\ ty = t
<1>1. /\ items[f] \in ItemForms
      /\ \A l \in DOMAIN items[f].lets : Functions(items)[f].locals[l] = items[f].lets[l].ty
  BY FuncParts
<1>2. CASE o.kind = "place"
  BY <1>1, <1>2, LocalFits DEF Operand, OperandType, IsOperand
<1>3. CASE o.kind # "place"
  BY <1>3 DEF Operand, OperandType, IsOperand, OperandForms, ValuesAssumption, Type
<1> QED  BY <1>2, <1>3

(* All names of an instruction were found. *)
AllNamed(ins) == ins.place # 0 /\ \A o \in DOMAIN ins.operands : ins.operands[o].local # 0

(* What parser and compiler ask of a line, and what the rules ask. *)
LineGood(items, f, line) ==
  LET ins == Instruction(items[f], line)
  IN  AllNamed(ins) /\ InstructionCompiles(Functions(items)[f], ins)
                    /\ InstructionVerified(Functions(items)[f], ins)

LineFit(item, line) == LineWellFormed(item, line, LAMBDA to, from : TRUE)

EndFit(items, item, block) == TerminatorWellFormed(items, item, block, LAMBDA to, from : TRUE)

(* A line passes parser and compiler exactly if it is well formed. *)
LEMMA LineFits ==
  ASSUME ValuesAssumption, NEW items \in Seq(ItemForms), NEW f \in DOMAIN items,
         NEW line \in LineForms
  PROVE  LineGood(items, f, line) <=> LineFit(items[f], line)
<1> DEFINE item == items[f]
           func == Functions(items)[f]
           ins  == Instruction(items[f], line)
           Place(ty) == IsLocal(item, line.place, ty)
           All(ty) == \A k \in DOMAIN line.operands : IsOperand(item, line.operands[k], ty)
           ty(k) == OperandType(func, ins.operands[k])
           L == AllNamed(ins) /\ InstructionCompiles(func, ins) /\ InstructionVerified(func, ins)
           R == LineWellFormed(items[f], line, LAMBDA to, from : TRUE)
<1> SUFFICES L <=> R
  BY DEF LineGood, LineFit
<1>1. /\ item \in ItemForms
      /\ \A l \in DOMAIN item.lets : func.locals[l] = item.lets[l].ty
  BY FuncParts
<1>2. /\ ins.place = LocalId(item, line.place)
      /\ ins.op = line.op
      /\ line.op \in {"alloc", "read"} \cup Comparisons \cup Arithmetic
      /\ DOMAIN ins.operands = DOMAIN line.operands
      /\ line.op = "alloc" => DOMAIN line.operands = {}
      /\ line.op = "read" => DOMAIN line.operands = {1}
      /\ line.op \in Comparisons \cup Arithmetic => DOMAIN line.operands = {1, 2}
      /\ \A o \in DOMAIN line.operands :
                  /\ line.operands[o] \in OperandForms
                  /\ ins.operands[o] = Operand(item, line.operands[o])
  BY <1>1, InstructionParts
<1>3. /\ ins.place # 0 => func.locals[ins.place] \in Type
      /\ \A t : Place(t) <=> ins.place # 0 /\ func.locals[ins.place] = t
  BY <1>1, <1>2, LocalFits
<1>4. \A k \in DOMAIN line.operands :
        /\ ins.operands[k].local # 0 => ty(k) \in Type
        /\ \A t : IsOperand(item, line.operands[k], t) <=> ins.operands[k].local # 0 /\ ty(k) = t
  BY <1>2, OperandFits
<1>5. /\ line.op = "alloc" => (R <=> Place("gc"))
      /\ line.op = "read" => (R <=> \E to, from \in Type : Place(to) /\ All(from))
      /\ line.op = "eq" => (R <=> Place("bool") /\ (All("i32") \/ All("bool")))
      /\ line.op \in {"le", "lt"} => (R <=> Place("bool") /\ All("i32"))
      /\ line.op \in Arithmetic => (R <=> Place("i32") /\ \E t \in Type : All(t))
  BY DEF LineWellFormed, Arithmetic
<1>6. AllNamed(ins) <=> ins.place # 0 /\ \A k \in DOMAIN line.operands : ins.operands[k].local # 0
  BY <1>2 DEF AllNamed
<1>7. InstructionVerified(func, ins) <=> \A k \in DOMAIN line.operands : ty(k) = ty(1)
  BY <1>2 DEF InstructionVerified
<1>8. InstructionCompiles(func, ins) <=>
        CASE line.op = "alloc" -> func.locals[ins.place] = "gc"
          [] line.op = "read"  -> TRUE
          [] OTHER -> BinOpTyped(line.op, func.locals[ins.place], ty(1))
  BY <1>2 DEF InstructionCompiles
<1> HIDE DEF ty, Place, func, ins, item
<1>9. \A t : AllNamed(ins) => (All(t) <=> \A k \in DOMAIN line.operands : ty(k) = t)
  BY <1>4, <1>6 DEF All
<1>10. \A t : DOMAIN line.operands # {} /\ All(t) =>
         \A k \in DOMAIN line.operands : ins.operands[k].local # 0 /\ ty(k) = t
  BY <1>4
<1>11. \A k \in DOMAIN line.operands : AllNamed(ins) => ty(k) \in Type
  BY <1>4, <1>6
<1> HIDE DEF All, L, R
<1>12. CASE line.op = "alloc"
  BY <1>2, <1>3, <1>5, <1>6, <1>7, <1>8, <1>12 DEF L, R
<1>13. CASE line.op = "read"
  <2>1. DOMAIN line.operands = {1}
    BY <1>2, <1>13
  <2>5. R <=> \E to, from \in Type : Place(to) /\ All(from)
    BY <1>5, <1>13
  <2>2. L <=> AllNamed(ins)
    BY <1>7, <1>8, <1>13, <2>1 DEF L
  <2>3. ASSUME AllNamed(ins)
        PROVE  R
    <3>1. Place(func.locals[ins.place]) /\ func.locals[ins.place] \in Type
      BY <1>3, <1>6, <2>3
    <3>2. All(ty(1)) /\ ty(1) \in Type
      BY <1>9, <1>11, <2>1, <2>3
    <3> QED  BY <2>5, <3>1, <3>2
  <2>4. ASSUME R
        PROVE  AllNamed(ins)
    BY <1>3, <1>6, <1>10, <2>1, <2>5, <2>4
  <2> QED  BY <2>2, <2>3, <2>4
<1>14. CASE line.op \in Comparisons
  BY <1>2, <1>3, <1>5, <1>6, <1>7, <1>8, <1>9, <1>10, <1>14
     DEF L, R, BinOpTyped, Comparisons, Arithmetic
<1>15. CASE line.op \in Arithmetic
  BY <1>2, <1>3, <1>5, <1>6, <1>7, <1>8, <1>9, <1>10, <1>11, <1>15
     DEF L, R, BinOpTyped, Comparisons, Arithmetic
<1> QED  BY <1>2, <1>12, <1>13, <1>14, <1>15

-----------------------------------------------------------------------------
(* An operand that is there is a name; one that is not stands for no name. *)
LEMMA NthName ==
  ASSUME ValuesAssumption, NEW op \in Seq(STRING), NEW k \in Nat \ {0}
  PROVE  /\ Len(op) \in Nat /\ DOMAIN op = 1..Len(op)
         /\ Nth(op, k) \in STRING <=> k <= Len(op)
         /\ k <= Len(op) => Nth(op, k) = op[k] /\ op[k] \in STRING
<1>1. Len(op) \in Nat /\ DOMAIN op = 1..Len(op)
  BY LenProperties
<1>2. ASSUME k <= Len(op)
      PROVE  op[k] \in STRING
  BY <1>1, <1>2, ElementOfSeq
<1> QED  BY <1>1, <1>2 DEF Nth, ValuesAssumption

(* A block is known by its last declaration; the entry block is that of    *)
(* the first name.                                                         *)
LEMMA BlockFits ==
  ASSUME NEW item \in ItemForms, item.blocks # << >>, NEW n
  PROVE  LET id == BlockId(item, n)
         IN  /\ id # 0 <=> n \in NamesIn(item.blocks)
             /\ id # 0 => n \in STRING
             /\ IsTarget(item, n) <=> id # 0 /\ id # BlockId(item, item.blocks[1].name)
<1> DEFINE blocks == item.blocks
           id(m) == BlockId(item, m)
<1>1. blocks \in Seq(BlockForms)
  BY ItemParts
<1>2. Len(blocks) \in Nat /\ DOMAIN blocks = 1..Len(blocks) /\ 1 \in DOMAIN blocks
  BY <1>1, LenProperties, EmptySeq
<1>3. \A m : /\ id(m) # 0 <=> id(m) \in DOMAIN blocks
             /\ id(m) # 0 <=> \E i \in DOMAIN blocks : blocks[i].name = m
             /\ id(m) # 0 => blocks[id(m)].name = m
  BY <1>1, IdOfDeclaration DEF BlockId
<1>4. \A i \in DOMAIN blocks : blocks[i].name \in STRING
  <2>1. \A i \in DOMAIN blocks : blocks[i] \in BlockForms
    BY <1>1, <1>2, ElementOfSeq
  <2> QED  BY <2>1 DEF BlockForms
<1>5. id(n) # 0 <=> n \in NamesIn(blocks)
  BY <1>3 DEF NamesIn
<1>6. id(n) # 0 => n \in STRING
  BY <1>3, <1>4
<1>7. IsTarget(item, n) <=> id(n) # 0 /\ n # blocks[1].name
  BY <1>5 DEF IsTarget
<1>8. id(blocks[1].name) # 0
  BY <1>2, <1>3
<1> HIDE DEF id
<1>9. IsTarget(item, n) <=> id(n) # 0 /\ id(n) # id(blocks[1].name)
  BY <1>3, <1>7, <1>8
<1> QED  BY <1>5, <1>6, <1>9 DEF id

(* A function is known by its name. *)
LEMMA FuncFits ==
  ASSUME ValuesAssumption, NEW items \in Seq(ItemForms),
         \A f, g \in DOMAIN items : items[f].name = items[g].name => f = g, NEW n
  PROVE  LET id == FuncId(items, n)
         IN  /\ id # 0 <=> n \in NamesIn(items)
             /\ id # 0 => id \in DOMAIN items /\ Named(items, n) = items[id] /\ n \in STRING
<1> DEFINE id == FuncId(items, n)
<1>1. /\ id # 0 <=> id \in DOMAIN items
      /\ id # 0 <=> \E i \in DOMAIN items : items[i].name = n
      /\ id # 0 => items[id].name = n
  BY IdOfDeclaration DEF FuncId
<1> HIDE DEF id
<1>2. ASSUME id # 0
      PROVE  Named(items, n) = items[id] /\ n \in STRING
  <2>1. items[id] \in Range(items) /\ items[id].name = n
    BY <1>1, <1>2 DEF Range
  <2>2. \A d \in Range(items) : d.name = n => d = items[id]
    BY <1>1, <1>2 DEF Range
  <2>3. items[id] \in ItemForms
    BY <1>1, <1>2, ElementOfSeq, LenProperties
  <2> QED  BY <2>1, <2>2, <2>3 DEF Named, ItemForms
<1> QED  BY <1>1, <1>2 DEF NamesIn, id

-----------------------------------------------------------------------------
(* What a terminator must satisfy to be accepted. *)
Good(items, f, term) ==
  /\ Resolved(term)
  /\ TerminatorCompiles(Functions(items), Functions(items)[f], term)
  /\ TerminatorVerified(Functions(items), Functions(items)[f], term)

(* Each terminator passes exactly if it is well formed. *)
LEMMA BrFits ==
  ASSUME ValuesAssumption, NEW items \in Seq(ItemForms), NEW f \in DOMAIN items,
         items[f].blocks # << >>, NEW op \in Seq(STRING)
  PROVE  Good(items, f, Br(BlockId(items[f], Nth(op, 1))))
           <=> op # << >> /\ IsTarget(items[f], op[1])
<1> DEFINE item == items[f]
           term == Br(BlockId(item, Nth(op, 1)))
<1>1. item \in ItemForms /\ Functions(items)[f].entrypoint = BlockId(item, item.blocks[1].name)
  BY FuncParts
<1>2. term.kind = "Br" /\ term.next = BlockId(item, Nth(op, 1))
  BY DEF Br
<1> HIDE DEF term
<1>3. Good(items, f, term) <=> term.next # 0 /\ term.next # BlockId(item, item.blocks[1].name)
  BY <1>1, <1>2 DEF Good, Resolved, TerminatorCompiles, TerminatorVerified
<1>4. Good(items, f, term) <=> IsTarget(item, Nth(op, 1))
  BY <1>1, <1>2, <1>3, BlockFits
<1>5. IsTarget(item, Nth(op, 1)) => Nth(op, 1) \in STRING
  BY <1>1, BlockFits
<1>6. op # << >> <=> 1 <= Len(op)
  BY NthName, EmptySeq
<1>7. /\ Nth(op, 1) \in STRING <=> 1 <= Len(op)
      /\ 1 <= Len(op) => Nth(op, 1) = op[1]
  BY NthName
<1> QED  BY <1>4, <1>5, <1>6, <1>7 DEF term

LEMMA BrIfFits ==
  ASSUME ValuesAssumption, NEW items \in Seq(ItemForms), NEW f \in DOMAIN items,
         items[f].blocks # << >>, NEW op \in Seq(STRING)
  PROVE  Good(items, f, BrIf(items[f], op))
           <=> /\ Len(op) >= 3
               /\ IsLocal(items[f], op[1], "bool")
               /\ IsTarget(items[f], op[2]) /\ IsTarget(items[f], op[3])
<1> DEFINE item == items[f]
           func == Functions(items)[f]
           term == BrIf(item, op)
<1>1. /\ item \in ItemForms /\ func.entrypoint = BlockId(item, item.blocks[1].name)
      /\ \A l \in DOMAIN item.lets : func.locals[l] = item.lets[l].ty
  BY FuncParts
<1>2. /\ term.kind = "BrIf"
      /\ term.cond = LocalId(item, Nth(op, 1))
      /\ term.is_true = BlockId(item, Nth(op, 2))
      /\ term.is_false = BlockId(item, Nth(op, 3))
  BY DEF BrIf
<1> HIDE DEF term, func
<1>3. Good(items, f, term) <=>
        /\ 0 \notin {term.cond, term.is_true, term.is_false}
        /\ func.locals[term.cond] = "bool"
        /\ func.entrypoint \notin {term.is_true, term.is_false}
  BY <1>2 DEF Good, Resolved, TerminatorCompiles, TerminatorVerified, func
<1>4. /\ IsTarget(item, Nth(op, 2)) <=> term.is_true # 0 /\ term.is_true # func.entrypoint
      /\ IsTarget(item, Nth(op, 3)) <=> term.is_false # 0 /\ term.is_false # func.entrypoint
      /\ IsTarget(item, Nth(op, 3)) => Nth(op, 3) \in STRING
  BY <1>1, <1>2, BlockFits
<1>5. IsLocal(item, Nth(op, 1), "bool") <=> term.cond # 0 /\ func.locals[term.cond] = "bool"
  BY <1>1, <1>2, LocalFits
<1>6. Good(items, f, term) <=>
        IsLocal(item, Nth(op, 1), "bool") /\ IsTarget(item, Nth(op, 2)) /\ IsTarget(item, Nth(op, 3))
  BY <1>3, <1>4, <1>5
<1>7. /\ Len(op) \in Nat
      /\ Nth(op, 3) \in STRING <=> 3 <= Len(op)
      /\ \A k \in {1, 2, 3} : k <= Len(op) => Nth(op, k) = op[k]
  BY NthName
<1> QED  BY <1>4, <1>6, <1>7 DEF term

LEMMA ReturnFits ==
  ASSUME ValuesAssumption, NEW items \in Seq(ItemForms), NEW f \in DOMAIN items,
         NEW op \in Seq(STRING)
  PROVE  Good(items, f, Return(items[f], op))
           <=> ReturnWellFormed(items[f], op, LAMBDA to, from : TRUE)
<1> DEFINE item == items[f]
           func == Functions(items)[f]
           term == Return(item, op)
<1>1. item \in ItemForms /\ func.return_type = item.ret
  BY FuncParts
<1>2. term.kind = "Return" /\ term.value = (IF op = << >> THEN None ELSE LocalId(item, op[1]))
  BY DEF Return
<1> HIDE DEF term, func
<1>3. Good(items, f, term) <=> /\ term.value # 0
                               /\ term.value # None <=> item.ret # None
  BY <1>1, <1>2 DEF Good, Resolved, TerminatorCompiles, TerminatorVerified, func
<1>4. ReturnWellFormed(item, op, LAMBDA to, from : TRUE) <=>
        IF item.ret = None THEN op = << >>
        ELSE op # << >> /\ \E from \in Type : IsLocal(item, op[1], from)
  BY DEF ReturnWellFormed
<1>5. /\ (\E from \in Type : IsLocal(item, op[1], from)) <=> LocalId(item, op[1]) # 0
      /\ LocalId(item, op[1]) # None
  <2>1. LocalId(item, op[1]) \in {0} \cup DOMAIN item.lets /\ DOMAIN item.lets \subseteq Nat
    BY <1>1, LocalIdRange, ItemParts, LenProperties
  <2>2. LocalId(item, op[1]) # None
    BY <2>1 DEF ValuesAssumption
  <2> QED  BY <1>1, <2>2, LocalFits
<1>6. None # 0
  BY DEF ValuesAssumption
<1> QED  BY <1>2, <1>3, <1>4, <1>5, <1>6 DEF term

-----------------------------------------------------------------------------
(* Calls: where the operands split.                                        *)

(* The rest of a sequence. *)
LEMMA SubSeqParts ==
  ASSUME NEW S, NEW s \in Seq(S), NEW k \in Nat \ {0}, k <= Len(s) + 1
  PROVE  /\ Len(SubSeq(s, k, Len(s))) = Len(s) - k + 1
         /\ DOMAIN SubSeq(s, k, Len(s)) = 1..(Len(s) - k + 1)
         /\ \A i \in 1..(Len(s) - k + 1) : SubSeq(s, k, Len(s))[i] = s[k + i - 1]
BY SubSeqProperties, LenProperties

(* The position of the next block, as the parser reads the operands. *)
NextAt(item, op) == IF StoreRet(item, op) = None THEN 2 ELSE 3

(* A call keeps its result exactly if its second operand names a local. *)
LEMMA StoreFits ==
  ASSUME ValuesAssumption, NEW item \in ItemForms, NEW op \in Seq(STRING)
  PROVE  LET l == StoreRet(item, op)
         IN  /\ l # None <=> Len(op) >= 2 /\ op[2] \in NamesIn(item.lets)
             /\ l # None => l = LocalId(item, op[2]) /\ l # 0
<1> DEFINE id == LocalId(item, Nth(op, 2))
<1>1. /\ id # 0 <=> Nth(op, 2) \in NamesIn(item.lets)
      /\ id \in {0} \cup DOMAIN item.lets
  BY LocalFits, LocalIdRange
<1>2. DOMAIN item.lets \subseteq Nat
  BY ItemParts, LenProperties
<1>3. NamesIn(item.lets) \subseteq STRING
  <2>1. \A i \in DOMAIN item.lets : item.lets[i] \in [name : STRING, ty : Type]
    BY ItemParts, ElementOfSeq, LenProperties
  <2> QED  BY <2>1 DEF NamesIn
<1>4. /\ Nth(op, 2) \in STRING <=> 2 <= Len(op)
      /\ 2 <= Len(op) => Nth(op, 2) = op[2]
      /\ Len(op) \in Nat
  BY NthName
<1>5. id # None
  BY <1>1, <1>2 DEF ValuesAssumption
<1>6. StoreRet(item, op) = IF id = 0 THEN None ELSE id
  BY DEF StoreRet
<1> HIDE DEF id
<1>7. StoreRet(item, op) # None <=> id # 0
  BY <1>5, <1>6
<1>8. id # 0 <=> Len(op) >= 2 /\ op[2] \in NamesIn(item.lets)
  BY <1>1, <1>3, <1>4
<1>9. id # 0 => id = LocalId(item, op[2])
  BY <1>4, <1>8 DEF id
<1> QED  BY <1>6, <1>7, <1>8, <1>9

(* The parser's reading. *)
LEMMA CallAt ==
  ASSUME ValuesAssumption, NEW items, NEW item \in ItemForms, NEW op \in Seq(STRING),
         NextAt(item, op) <= Len(op)
  PROVE  LET term == Call(items, item, op)
             k    == NextAt(item, op)
         IN  /\ term.next = BlockId(item, op[k])
             /\ term.args = [i \in 1..(Len(op) - k) |-> LocalId(item, op[k + i])]
<1> DEFINE k    == NextAt(item, op)
           rest == SubSeq(op, k, Len(op))
           term == Call(items, item, op)
<1>1. k \in {2, 3} /\ k <= Len(op) /\ Len(op) \in Nat
  BY LenProperties DEF NextAt
<1>2. /\ term.next = BlockId(item, Nth(rest, 1))
      /\ term.args = [i \in 1..(Len(rest) - 1) |-> LocalId(item, rest[i + 1])]
  BY DEF Call, NextAt
<1> HIDE DEF k, term
<1>3. /\ Len(rest) = Len(op) - k + 1
      /\ \A i \in 1..(Len(op) - k + 1) : rest[i] = op[k + i - 1]
  BY <1>1, SubSeqParts
<1> HIDE DEF rest
<1>4. Nth(rest, 1) = op[k]
  BY <1>1, <1>3 DEF Nth
<1>5. Len(rest) - 1 = Len(op) - k /\ \A i \in 1..(Len(op) - k) : rest[i + 1] = op[k + i]
  BY <1>1, <1>3
<1>6. term.args = [i \in 1..(Len(op) - k) |-> LocalId(item, op[k + i])]
  BY <1>2, <1>5
<1> QED  BY <1>2, <1>4, <1>6 DEF k, term

(* The reading by the rules. *)
LEMMA ReadingAt ==
  ASSUME NEW item, NEW op \in Seq(STRING), NEW k \in 2..Len(op),
         op[k] \in NamesIn(item.blocks),
         \A j \in 2..Len(op) : j < k => op[j] \notin NamesIn(item.blocks)
  PROVE  CallReading(item, op) = [store |-> SubSeq(op, 2, k - 1),
                                  next  |-> op[k],
                                  args  |-> SubSeq(op, k + 1, Len(op))]
<1> DEFINE at == {i \in 2..Len(op) : op[i] \in NamesIn(item.blocks)}
<1>1. k \in at /\ \A j \in at : k <= j
  BY LenProperties
<1>2. \A i \in at : (\A j \in at : i <= j) => i = k
  BY <1>1, LenProperties
<1>3. CallReading(item, op) =
        IF at = {} THEN [store |-> << >>, next |-> None, args |-> << >>]
        ELSE LET a == CHOOSE i \in at : \A j \in at : i <= j
             IN  [store |-> SubSeq(op, 2, a - 1), next |-> op[a],
                  args |-> SubSeq(op, a + 1, Len(op))]
  BY DEF CallReading
<1> HIDE DEF at
<1>4. (CHOOSE i \in at : \A j \in at : i <= j) = k
  BY <1>1, <1>2
<1> QED  BY <1>1, <1>3, <1>4

(* Where there is a block among the operands, there is a first one. *)
LEMMA FirstBlock ==
  ASSUME NEW op \in Seq(STRING), NEW B, NEW i \in 2..Len(op), op[i] \in B
  PROVE  \E k \in 2..Len(op) : op[k] \in B /\ \A j \in 2..Len(op) : j < k => op[j] \notin B
<1> DEFINE n == Len(op)
           T == {n - j : j \in {m \in 2..n : op[m] \in B}}
<1>1. n \in Nat
  BY LenProperties
<1>2. T \in SUBSET (0..n) /\ n - i \in T
  BY <1>1
<1>3. Max(T) \in T /\ \A y \in T : y <= Max(T)
  <2> HIDE DEF T, n
  <2> QED  BY <1>1, <1>2, Greatest
<1>4. PICK k \in 2..n : op[k] \in B /\ Max(T) = n - k
  BY <1>3
<1>5. \A j \in 2..n : op[j] \in B => n - j <= n - k
  BY <1>3, <1>4
<1> QED  BY <1>1, <1>4, <1>5

(* A call that the parser and compiler accept splits where the rules say.  *)
LEMMA GoodSplit ==
  ASSUME ValuesAssumption, NEW items \in Seq(ItemForms), NEW item \in ItemForms,
         item.blocks # << >>, NEW op \in Seq(STRING),
         Resolved(Call(items, item, op))
  PROVE  /\ NextAt(item, op) <= Len(op)
         /\ op[NextAt(item, op)] \in NamesIn(item.blocks)
         /\ FuncId(items, op[1]) # 0
<1> DEFINE term == Call(items, item, op)
           k    == NextAt(item, op)
           rest == SubSeq(op, k, Len(op))
<1>1. /\ term.kind = "Call" /\ term.func = FuncId(items, Nth(op, 1))
      /\ term.next = BlockId(item, Nth(rest, 1))
  BY DEF Call, NextAt
<1>2. term.func # 0 /\ term.next # 0
  BY <1>1 DEF Resolved
<1>3. k \in {2, 3} /\ Len(op) \in Nat
  BY LenProperties DEF NextAt
<1> HIDE DEF term, k
<1>4. Nth(rest, 1) \in NamesIn(item.blocks) /\ Nth(rest, 1) \in STRING
  BY <1>1, <1>2, BlockFits
<1>5. rest \in Seq(STRING)
  BY <1>3, LenProperties
<1>6. 1 <= Len(rest) /\ Nth(rest, 1) = rest[1]
  <2> HIDE DEF rest
  <2> QED  BY <1>4, <1>5, NthName
<1>7. k <= Len(op)
  BY <1>3, <1>6, SubSeqProperties
<1>8. rest[1] = op[k]
  BY <1>3, <1>7, SubSeqParts
<1>9. Nth(op, 1) = op[1]
  BY <1>3, <1>7, NthName
<1> QED  BY <1>1, <1>2, <1>4, <1>6, <1>7, <1>8, <1>9 DEF k

(* A call that the rules accept splits where the parser does.              *)
LEMMA RulesSplit ==
  ASSUME ValuesAssumption, NEW items \in Seq(ItemForms), NEW item \in ItemForms,
         item.blocks # << >>, NEW op \in Seq(STRING),
         NamesIn(item.lets) \cap NamesIn(item.blocks) = {},
         LET reading == CallReading(item, op)
         IN  /\ IsTarget(item, reading.next)
             /\ Len(reading.store) <= 1
             /\ reading.store # << >> => \E to \in Type : IsLocal(item, reading.store[1], to)
  PROVE  /\ NextAt(item, op) <= Len(op)
         /\ op[NextAt(item, op)] \in NamesIn(item.blocks)
<1> DEFINE B == NamesIn(item.blocks)
           reading == CallReading(item, op)
<1>1. Len(op) \in Nat
  BY LenProperties
<1>2. reading.next \in B /\ reading.next \in STRING
  BY BlockFits
<1>3. PICK i \in 2..Len(op) : op[i] \in B
  <2>1. SUFFICES ASSUME \A i \in 2..Len(op) : op[i] \notin B
                 PROVE  FALSE
    OBVIOUS
  <2>2. reading.next = None
    BY <2>1 DEF CallReading
  <2> QED  BY <1>2, <2>2 DEF ValuesAssumption
<1>4. PICK k \in 2..Len(op) : op[k] \in B /\ \A j \in 2..Len(op) : j < k => op[j] \notin B
  <2> HIDE DEF B
  <2> QED  BY <1>3, FirstBlock
<1>5. reading.store = SubSeq(op, 2, k - 1)
  BY <1>4, ReadingAt
<1>6. Len(SubSeq(op, 2, k - 1)) = k - 2
  BY <1>1, <1>4, SubSeqProperties, LenProperties
<1>7. k \in {2, 3}
  BY <1>1, <1>4, <1>5, <1>6
<1>8. CASE k = 2
  <2>1. op[2] \notin NamesIn(item.lets)
    BY <1>4, <1>8
  <2>2. NextAt(item, op) = 2
    BY <2>1, StoreFits DEF NextAt
  <2> QED  BY <1>1, <1>4, <1>8, <2>2
<1>9. CASE k = 3
  <2>1. reading.store # << >> /\ reading.store[1] = op[2]
    BY <1>1, <1>4, <1>5, <1>6, <1>9, SubSeqProperties, LenProperties, EmptySeq
  <2>2. op[2] \in NamesIn(item.lets)
    BY <2>1 DEF IsLocal
  <2>3. NextAt(item, op) = 3
    BY <1>1, <1>4, <1>9, <2>2, StoreFits DEF NextAt
  <2> QED  BY <1>1, <1>4, <1>9, <2>3
<1> QED  BY <1>7, <1>8, <1>9

(* Arguments match parameters: as ids, and by name. *)
IdsOf(item, names, n) == [i \in 1..n |-> LocalId(item, names[i])]

Matches(items, f, g, ids) ==
  LET func  == Functions(items)[f]
      cfunc == Functions(items)[g]
  IN  /\ 0 \notin Range(ids)
      /\ [i \in DOMAIN ids |-> func.locals[ids[i]]]
           = [i \in DOMAIN cfunc.args |-> cfunc.locals[cfunc.args[i]]]

Suits(items, f, g, names, n) ==
  /\ n = Len(items[g].args)
  /\ \A i \in 1..n : \E ty \in Type :
       IsLocal(items[f], names[i], ty) /\ IsLocal(items[g], items[g].args[i], ty)

(* The two agree. *)
LEMMA ArgsFit ==
  ASSUME NEW items \in Seq(ItemForms), NEW f \in DOMAIN items, NEW g \in DOMAIN items,
         \A i \in DOMAIN items[g].args : LocalId(items[g], items[g].args[i]) # 0,
         NEW n \in Nat, NEW names
  PROVE  Matches(items, f, g, IdsOf(items[f], names, n)) <=> Suits(items, f, g, names, n)
<1> DEFINE item    == items[f]
           callee  == items[g]
           func    == Functions(items)[f]
           cfunc   == Functions(items)[g]
           ids     == [i \in 1..n |-> LocalId(item, names[i])]
           m       == Len(callee.args)
           Fit(i)  == \E ty \in Type : IsLocal(item, names[i], ty) /\ IsLocal(callee, callee.args[i], ty)
           cids(i) == LocalId(callee, callee.args[i])
<1>1. /\ item \in ItemForms /\ callee \in ItemForms
      /\ \A l \in DOMAIN item.lets : func.locals[l] = item.lets[l].ty
      /\ \A l \in DOMAIN callee.lets : cfunc.locals[l] = callee.lets[l].ty
      /\ DOMAIN cfunc.args = DOMAIN callee.args
      /\ \A i \in DOMAIN callee.args : cfunc.args[i] = cids(i)
  BY FuncParts
<1>2. m \in Nat /\ DOMAIN callee.args = 1..m
  BY <1>1, ItemParts, LenProperties
<1>3. \A i \in 1..n : LocalId(item, names[i]) = ids[i]
  OBVIOUS
<1>4. \A i \in 1..n : /\ ids[i] # 0 => func.locals[ids[i]] \in Type
                      /\ \A ty : IsLocal(item, names[i], ty) <=> ids[i] # 0 /\ func.locals[ids[i]] = ty
  BY <1>1, <1>3, LocalFits
<1>5. \A i \in 1..m : /\ cids(i) # 0 /\ cfunc.args[i] = cids(i)
                      /\ \A ty : IsLocal(callee, callee.args[i], ty) <=> cfunc.locals[cids(i)] = ty
  BY <1>1, <1>2, LocalFits
<1>6. DOMAIN ids = 1..n /\ Range(ids) = {ids[i] : i \in 1..n}
  BY DEF Range
<1> DEFINE L == /\ 0 \notin Range(ids)
                /\ [i \in DOMAIN ids |-> func.locals[ids[i]]]
                     = [i \in DOMAIN cfunc.args |-> cfunc.locals[cfunc.args[i]]]
<1>7. L <=> /\ \A i \in 1..n : ids[i] # 0
            /\ [i \in 1..n |-> func.locals[ids[i]]]
                 = [i \in 1..m |-> cfunc.locals[cfunc.args[i]]]
  BY <1>1, <1>2, <1>6
<1> HIDE DEF L, ids, func, cfunc, cids
<1>8. ([i \in 1..n |-> func.locals[ids[i]]] = [i \in 1..m |-> cfunc.locals[cfunc.args[i]]])
        <=> n = m /\ \A i \in 1..n : func.locals[ids[i]] = cfunc.locals[cfunc.args[i]]
  <2> DEFINE a == [i \in 1..n |-> func.locals[ids[i]]]
             b == [i \in 1..m |-> cfunc.locals[cfunc.args[i]]]
  <2>1. ASSUME a = b
        PROVE  n = m /\ \A i \in 1..n : func.locals[ids[i]] = cfunc.locals[cfunc.args[i]]
    <3>1. DOMAIN a = DOMAIN b
      BY <2>1
    <3>2. DOMAIN a = 1..n /\ DOMAIN b = 1..m
      OBVIOUS
    <3>3. 1..n = 1..m
      BY <3>1, <3>2
    <3>4. n = m
      BY <1>2, <3>3
    <3>5. \A i \in 1..n : a[i] = b[i]
      BY <2>1
    <3> QED  BY <3>3, <3>4, <3>5
  <2> QED  BY <2>1
<1>9. L <=> n = m /\ \A i \in 1..n : Fit(i)
  <2>1. ASSUME NEW i \in 1..n, n = m
        PROVE  Fit(i) <=> ids[i] # 0 /\ func.locals[ids[i]] = cfunc.locals[cfunc.args[i]]
    <3>1. i \in 1..m
      BY <2>1
    <3>2. \A ty : IsLocal(callee, callee.args[i], ty) <=> cfunc.locals[cfunc.args[i]] = ty
      BY <1>5, <3>1
    <3>3. /\ ids[i] # 0 => func.locals[ids[i]] \in Type
          /\ \A ty : IsLocal(item, names[i], ty) <=> ids[i] # 0 /\ func.locals[ids[i]] = ty
      BY <1>4
    <3> HIDE DEF item, callee
    <3> QED  BY <3>2, <3>3
  <2> HIDE DEF Fit
  <2> QED  BY <1>7, <1>8, <2>1
<1> QED  BY <1>9 DEF L, ids, func, cfunc, Matches, Suits, IdsOf

(* A call passes exactly if it is well formed: where no name is both a     *)
(* local and a block, looking for the local that gets the result finds the *)
(* same next block as looking for the first block.                         *)
LEMMA CallFits ==
  ASSUME ValuesAssumption, NEW items \in Seq(ItemForms), NEW f \in DOMAIN items,
         \A g, h \in DOMAIN items : items[g].name = items[h].name => g = h,
         \A g \in DOMAIN items : \A i \in DOMAIN items[g].args :
           LocalId(items[g], items[g].args[i]) # 0,
         items[f].blocks # << >>, NEW op \in Seq(STRING),
         NamesIn(items[f].lets) \cap NamesIn(items[f].blocks) = {}
  PROVE  Good(items, f, Call(items, items[f], op))
           <=> CallWellFormed(items, items[f], op, LAMBDA to, from : TRUE)
<1> DEFINE item == items[f]
           func == Functions(items)[f]
           term == Call(items, item, op)
           reading == CallReading(item, op)
           callee == Named(items, op[1])
           k == NextAt(item, op)
           L == Good(items, f, term)
           R == CallWellFormed(items, item, op, LAMBDA to, from : TRUE)
           Splits == /\ k <= Len(op) /\ op[k] \in NamesIn(item.blocks)
                     /\ op[1] \in NamesIn(items)
<1> SUFFICES L <=> R
  OBVIOUS
<1>1. /\ item \in ItemForms /\ func.entrypoint = BlockId(item, item.blocks[1].name)
      /\ DOMAIN Functions(items) = DOMAIN items
  BY FuncParts
<1>2. R <=> /\ op # << >> /\ op[1] \in NamesIn(items)
            /\ IsTarget(item, reading.next)
            /\ Len(reading.store) <= 1
            /\ reading.store # << >> =>
                 /\ callee.ret # None
                 /\ \E to \in Type : IsLocal(item, reading.store[1], to)
            /\ Len(reading.args) = Len(callee.args)
            /\ \A i \in DOMAIN reading.args : \E ty \in Type :
                 IsLocal(item, reading.args[i], ty) /\ IsLocal(callee, callee.args[i], ty)
  BY DEF CallWellFormed
<1>3. /\ term.kind = "Call" /\ term.func = FuncId(items, Nth(op, 1))
      /\ term.store_ret = StoreRet(item, op)
  BY DEF Call
<1>4. L => Splits
  <2> HIDE DEF item
  <2>1. L => Resolved(term)
    BY DEF Good
  <2> QED  BY <1>1, <2>1, GoodSplit, FuncFits DEF item
<1>5. R => Splits
  <2> HIDE DEF item, R, reading
  <2> QED  BY <1>1, <1>2, RulesSplit DEF item, reading
<1>6. ASSUME Splits
      PROVE  L <=> R
  <2> DEFINE g == FuncId(items, op[1])
             n == Len(op) - k
  <2>1. k \in {2, 3} /\ k <= Len(op) /\ Len(op) \in Nat /\ n \in Nat
    BY <1>6, LenProperties DEF NextAt
  <2>2. g \in DOMAIN items /\ callee = items[g] /\ g # 0
    BY <1>6, FuncFits
  <2>3. term.func = g
    BY <1>3, <2>1, NthName
  <2>4. /\ term.next = BlockId(item, op[k])
        /\ term.args = [i \in 1..n |-> LocalId(item, op[k + i])]
    BY <1>1, <1>6, CallAt
  <2>5. /\ StoreRet(item, op) # None <=> k = 3
        /\ k = 3 => op[2] \in NamesIn(item.lets) /\ LocalId(item, op[2]) # 0
    BY <1>1, StoreFits DEF NextAt
  <2>6. reading = [store |-> SubSeq(op, 2, k - 1), next |-> op[k],
                   args |-> SubSeq(op, k + 1, Len(op))]
    <3>1. \A j \in 2..Len(op) : j < k => op[j] \notin NamesIn(item.blocks)
      BY <2>1, <2>5
    <3>2. k \in 2..Len(op) /\ op[k] \in NamesIn(item.blocks)
      BY <1>6, <2>1
    <3> HIDE DEF k, item
    <3> QED  BY <3>1, <3>2, ReadingAt
  <2>7. /\ Len(reading.args) = n /\ DOMAIN reading.args = 1..n
        /\ \A i \in 1..n : reading.args[i] = op[k + i]
    <3>1. /\ Len(SubSeq(op, k + 1, Len(op))) = Len(op) - (k + 1) + 1
          /\ DOMAIN SubSeq(op, k + 1, Len(op)) = 1..(Len(op) - (k + 1) + 1)
          /\ \A i \in 1..(Len(op) - (k + 1) + 1) : SubSeq(op, k + 1, Len(op))[i] = op[k + 1 + i - 1]
      BY <2>1, SubSeqParts
    <3>2. Len(op) - (k + 1) + 1 = n /\ \A i \in 1..n : k + 1 + i - 1 = k + i
      BY <2>1
    <3> HIDE DEF reading, n, k
    <3>3. reading.args = SubSeq(op, k + 1, Len(op))
      BY <2>6
    <3>4. \A i \in 1..n : SubSeq(op, k + 1, Len(op))[i] = op[k + i]
      BY <3>1, <3>2
    <3> QED  BY <3>1, <3>2, <3>3, <3>4
  <2>8. /\ Len(reading.store) <= 1
        /\ reading.store # << >> <=> k = 3
        /\ k = 3 => reading.store[1] = op[2]
    <3>1. Len(SubSeq(op, 2, k - 1)) = k - 2
      BY <2>1, SubSeqProperties, LenProperties
    <3>2. k = 3 => SubSeq(op, 2, k - 1)[1] = op[2]
      BY <2>1, SubSeqProperties, LenProperties
    <3>3. SubSeq(op, 2, k - 1) \in Seq(STRING)
      BY <2>1, LenProperties
    <3> QED  BY <2>1, <2>6, <3>1, <3>2, <3>3, EmptySeq
  <2>9. k = 3 => \E to \in Type : IsLocal(item, op[2], to)
    BY <1>1, <2>5, LocalFits
  <2>10. /\ Functions(items)[g].return_type = items[g].ret
         /\ \A i \in DOMAIN items[g].args : LocalId(items[g], items[g].args[i]) # 0
    BY <2>2, FuncParts
  <2> DEFINE names == [i \in 1..n |-> op[k + i]]
  <2>11. L <=> /\ IsTarget(item, op[k])
               /\ k = 3 => items[g].ret # None
               /\ Matches(items, f, g, term.args)
    <3>1. IsTarget(item, op[k]) <=> term.next # 0 /\ term.next # func.entrypoint
      BY <1>1, <2>4, BlockFits
    <3>2. Matches(items, f, g, term.args) <=>
            /\ 0 \notin Range(term.args)
            /\ [i \in DOMAIN term.args |-> func.locals[term.args[i]]]
                 = [i \in DOMAIN Functions(items)[g].args |->
                      Functions(items)[g].locals[Functions(items)[g].args[i]]]
      BY DEF Matches
    <3> HIDE DEF term, g, func, k, item
    <3> QED  BY <1>3, <2>2, <2>3, <2>5, <2>10, <3>1, <3>2
             DEF Good, Resolved, TerminatorCompiles, TerminatorVerified, func
  <2>12. R <=> /\ IsTarget(item, op[k])
               /\ k = 3 => items[g].ret # None
               /\ Suits(items, f, g, names, n)
    <3>1. reading.next = op[k]
      BY <2>6
    <3>2. op # << >> /\ op[1] \in NamesIn(items)
      BY <1>6, <2>1, EmptySeq
    <3>3. \A i \in 1..n : names[i] = op[k + i]
      OBVIOUS
    <3> HIDE DEF R, reading, callee, k, n, g, item, names
    <3>4. (\A i \in DOMAIN reading.args : \E ty \in Type :
             IsLocal(item, reading.args[i], ty) /\ IsLocal(callee, callee.args[i], ty))
          <=> (\A i \in 1..n : \E ty \in Type :
                 IsLocal(item, names[i], ty) /\ IsLocal(items[g], items[g].args[i], ty))
      <4>1. DOMAIN reading.args = 1..n
        BY <2>7
      <4>2. \A i \in 1..n : reading.args[i] = names[i]
        BY <2>7, <3>3
      <4> QED  BY <2>2, <4>1, <4>2
    <3>5. (reading.store # << >> =>
             callee.ret # None /\ \E to \in Type : IsLocal(item, reading.store[1], to))
          <=> (k = 3 => items[g].ret # None)
      BY <2>2, <2>8, <2>9
    <3>6. Suits(items, f, g, names, n) <=>
            /\ n = Len(items[g].args)
            /\ \A i \in 1..n : \E ty \in Type :
                 IsLocal(item, names[i], ty) /\ IsLocal(items[g], items[g].args[i], ty)
      BY DEF Suits, item
    <3> QED  BY <1>2, <2>2, <2>7, <2>8, <3>1, <3>2, <3>4, <3>5, <3>6
  <2>13. Matches(items, f, g, term.args) <=> Suits(items, f, g, names, n)
    <3>1. \A i \in 1..n : names[i] = op[k + i]
      OBVIOUS
    <3>2. term.args = IdsOf(items[f], names, n)
      BY <2>4, <3>1 DEF IdsOf
    <3> HIDE DEF names, n, g, term, k
    <3> QED  BY <2>1, <2>2, <2>10, <3>2, ArgsFit
  <2> HIDE DEF L, R, term, n, g, func, item, k, names
  <2> QED  BY <2>11, <2>12, <2>13
<1> HIDE DEF L, R, Splits
<1> QED  BY <1>4, <1>5, <1>6

-----------------------------------------------------------------------------
(* A whole text.                                                           *)

(* Any terminator. *)
LEMMA TerminatorFits ==
  ASSUME ValuesAssumption, NEW items \in Seq(ItemForms), NEW f \in DOMAIN items,
         \A g, h \in DOMAIN items : items[g].name = items[h].name => g = h,
         \A g \in DOMAIN items : \A i \in DOMAIN items[g].args :
           LocalId(items[g], items[g].args[i]) # 0,
         items[f].blocks # << >>,
         NamesIn(items[f].lets) \cap NamesIn(items[f].blocks) = {},
         NEW block \in BlockForms
  PROVE  Good(items, f, Terminator(items, items[f], block)) <=> EndFit(items, items[f], block)
<1> DEFINE item == items[f]
           op   == block.operands
           L    == Good(items, f, Terminator(items, item, block))
           R    == TerminatorWellFormed(items, item, block, LAMBDA to, from : TRUE)
<1> SUFFICES L <=> R
  BY DEF EndFit
<1>1. op \in Seq(STRING) /\ block.ins \in {"br", "brif", "call", "return"}
  BY DEF BlockForms
<1>2. /\ block.ins = "br" => Terminator(items, item, block) = Br(BlockId(item, Nth(op, 1)))
      /\ block.ins = "brif" => Terminator(items, item, block) = BrIf(item, op)
      /\ block.ins = "call" => Terminator(items, item, block) = Call(items, item, op)
      /\ block.ins = "return" => Terminator(items, item, block) = Return(item, op)
  BY DEF Terminator
<1>3. /\ block.ins = "br" => (R <=> op # << >> /\ IsTarget(item, op[1]))
      /\ block.ins = "brif" => (R <=> /\ Len(op) >= 3
                                     /\ IsLocal(item, op[1], "bool")
                                     /\ IsTarget(item, op[2]) /\ IsTarget(item, op[3]))
      /\ block.ins = "call" => (R <=> CallWellFormed(items, item, op, LAMBDA to, from : TRUE))
      /\ block.ins = "return" => (R <=> ReturnWellFormed(item, op, LAMBDA to, from : TRUE))
  BY DEF TerminatorWellFormed
<1>4. CASE block.ins = "br"
  <2>1. Good(items, f, Br(BlockId(item, Nth(op, 1)))) <=> op # << >> /\ IsTarget(item, op[1])
    BY <1>1, BrFits
  <2> HIDE DEF item, op, R
  <2> QED  BY <1>2, <1>3, <1>4, <2>1
<1>5. CASE block.ins = "brif"
  <2>1. Good(items, f, BrIf(item, op)) <=> /\ Len(op) >= 3
                                     /\ IsLocal(item, op[1], "bool")
                                     /\ IsTarget(item, op[2]) /\ IsTarget(item, op[3])
    BY <1>1, BrIfFits
  <2> HIDE DEF item, op, R
  <2> QED  BY <1>2, <1>3, <1>5, <2>1
<1>6. CASE block.ins = "call"
  <2>1. Good(items, f, Call(items, item, op))
          <=> CallWellFormed(items, item, op, LAMBDA to, from : TRUE)
    BY <1>1, CallFits
  <2> HIDE DEF item, op, R
  <2> QED  BY <1>2, <1>3, <1>6, <2>1
<1>7. CASE block.ins = "return"
  <2>1. Good(items, f, Return(item, op))
          <=> ReturnWellFormed(item, op, LAMBDA to, from : TRUE)
    BY <1>1, ReturnFits
  <2> HIDE DEF item, op, R
  <2> QED  BY <1>2, <1>3, <1>7, <2>1
<1> QED  BY <1>1, <1>4, <1>5, <1>6, <1>7

(* What parser and compiler ask of a function. *)
BlocksGood(items, f) ==
  \A b \in DOMAIN items[f].blocks :
    LET block == items[f].blocks[b]
    IN  /\ Good(items, f, Terminator(items, items[f], block))
        /\ \A i \in DOMAIN block.body : LineGood(items, f, block.body[i])

ArgsDeclared(item) == \A i \in DOMAIN item.args : LocalId(item, item.args[i]) # 0

(* Blocks of distinct names are translated each to its own. *)
LEMMA OwnBlock ==
  ASSUME NEW items \in Seq(ItemForms), NEW f \in DOMAIN items, Distinct(items[f].blocks),
         NEW b \in DOMAIN items[f].blocks
  PROVE  BlockId(items[f], items[f].blocks[b].name) = b
<1>1. items[f].blocks \in Seq(BlockForms)
  BY FuncParts, ItemParts
<1> DEFINE id == BlockId(items[f], items[f].blocks[b].name)
<1>2. /\ id # 0 <=> id \in DOMAIN items[f].blocks
      /\ id # 0
      /\ items[f].blocks[id].name = items[f].blocks[b].name
  BY <1>1, IdOfDeclaration DEF BlockId
<1> HIDE DEF id
<1>3. id = b
  BY <1>2 DEF Distinct
<1> QED  BY <1>3 DEF id

(* A block whose name was taken is left branching to null. *)
LEMMA TakenName ==
  ASSUME NEW items \in Seq(ItemForms), NEW f \in DOMAIN items, Compiles(Functions(items))
  PROVE  Distinct(items[f].blocks)
<1> DEFINE item == items[f]
           func == Functions(items)[f]
<1>1. \A b \in DOMAIN item.blocks : BlockId(item, item.blocks[b].name) = b
  <2> SUFFICES ASSUME NEW b \in DOMAIN item.blocks, BlockId(item, item.blocks[b].name) # b
               PROVE  FALSE
    OBVIOUS
  <2>1. /\ DOMAIN Functions(items) = DOMAIN items
        /\ DOMAIN func.blocks = DOMAIN item.blocks
        /\ func.blocks[b] = BasicBlock(items, item, b)
    BY FuncParts
  <2>2. func.blocks[b].ins_final = Br(0)
    BY <2>1 DEF BasicBlock
  <2>3. TerminatorCompiles(Functions(items), func, func.blocks[b].ins_final)
    BY <2>1 DEF Compiles
  <2> QED  BY <2>2, <2>3 DEF Br, TerminatorCompiles
<1> QED  BY <1>1 DEF Distinct

(* The code of a block, if its name is its own. *)
LEMMA BlockTranslated ==
  ASSUME NEW items \in Seq(ItemForms), NEW f \in DOMAIN items, Distinct(items[f].blocks),
         NEW b \in DOMAIN items[f].blocks
  PROVE  LET block == items[f].blocks[b]
             code  == Functions(items)[f].blocks[b]
         IN  /\ code.ins_final = Terminator(items, items[f], block)
             /\ DOMAIN code.instructions = DOMAIN block.body
             /\ \A i \in DOMAIN block.body :
                  code.instructions[i] = Instruction(items[f], block.body[i])
<1> DEFINE block == items[f].blocks[b]
           code  == Functions(items)[f].blocks[b]
<1>1. code = BasicBlock(items, items[f], b)
  BY FuncParts
<1>2. BlockId(items[f], block.name) = b
  BY OwnBlock
<1>3. code = [instructions |-> [i \in DOMAIN block.body |-> Instruction(items[f], block.body[i])],
              ins_final    |-> Terminator(items, items[f], block)]
  BY <1>1, <1>2 DEF BasicBlock
<1> HIDE DEF code
<1> QED  BY <1>3 DEF code

(* The checks of parser and compiler, function by function. *)
LEMMA AcceptsParts ==
  ASSUME NEW items \in Seq(ItemForms)
  PROVE  NamesResolve(items) /\ Compiles(Functions(items))
           <=> \A f \in DOMAIN items :
                 /\ Distinct(items[f].blocks) /\ ArgsDeclared(items[f])
                 /\ BlocksGood(items, f)
<1> DEFINE Target(f) == Functions(items)[f]
           Body(f, b) == items[f].blocks[b].body
           End(f, b) == Terminator(items, items[f], items[f].blocks[b])
           Ins(f, b, i) == Instruction(items[f], Body(f, b)[i])
           Checked(f, b) == /\ TerminatorCompiles(Functions(items), Target(f), End(f, b))
                            /\ TerminatorVerified(Functions(items), Target(f), End(f, b))
                            /\ \A i \in DOMAIN Body(f, b) :
                                 /\ InstructionCompiles(Target(f), Ins(f, b, i))
                                 /\ InstructionVerified(Target(f), Ins(f, b, i))
           Resolves(f, b) == /\ Resolved(End(f, b))
                             /\ \A i \in DOMAIN Body(f, b) : AllNamed(Ins(f, b, i))
<1>1. /\ DOMAIN Functions(items) = DOMAIN items
      /\ \A f \in DOMAIN items : DOMAIN Target(f).blocks = DOMAIN items[f].blocks
  BY FuncParts DEF Functions
<1>2. Compiles(Functions(items)) => \A f \in DOMAIN items : Distinct(items[f].blocks)
  BY TakenName
<1>3. ASSUME \A f \in DOMAIN items : Distinct(items[f].blocks)
      PROVE  Compiles(Functions(items))
               <=> \A f \in DOMAIN items : \A b \in DOMAIN items[f].blocks : Checked(f, b)
  <2>1. \A f \in DOMAIN items : \A b \in DOMAIN items[f].blocks :
          /\ Target(f).blocks[b].ins_final = End(f, b)
          /\ DOMAIN Target(f).blocks[b].instructions = DOMAIN Body(f, b)
          /\ \A i \in DOMAIN Body(f, b) : Target(f).blocks[b].instructions[i] = Ins(f, b, i)
    BY <1>3, BlockTranslated
  <2>2. Compiles(Functions(items)) <=>
          \A f \in DOMAIN items : \A b \in DOMAIN items[f].blocks :
            /\ TerminatorCompiles(Functions(items), Target(f), Target(f).blocks[b].ins_final)
            /\ TerminatorVerified(Functions(items), Target(f), Target(f).blocks[b].ins_final)
            /\ \A i \in DOMAIN Target(f).blocks[b].instructions :
                 /\ InstructionCompiles(Target(f), Target(f).blocks[b].instructions[i])
                 /\ InstructionVerified(Target(f), Target(f).blocks[b].instructions[i])
    BY <1>1 DEF Compiles
  <2> HIDE DEF Code, Body, End, Ins
  <2> QED  BY <2>1, <2>2
<1>4. NamesResolve(items) <=>
        \A f \in DOMAIN items :
          ArgsDeclared(items[f]) /\ \A b \in DOMAIN items[f].blocks : Resolves(f, b)
  BY DEF NamesResolve, ArgsDeclared, AllNamed
<1>5. \A f \in DOMAIN items :
        BlocksGood(items, f) <=>
          \A b \in DOMAIN items[f].blocks : Resolves(f, b) /\ Checked(f, b)
  BY DEF BlocksGood, Good, LineGood
<1> HIDE DEF Checked, Resolves
<1> QED  BY <1>2, <1>3, <1>4, <1>5

(* Parser and compiler accept a text of unambiguous names exactly when its *)
(* names and types fit together.                                           *)
LEMMA AcceptsFitting ==
  ASSUME ValuesAssumption, MachineAssumption, NEW items \in Texts, Unambiguous(items)
  PROVE  NamesResolve(items) /\ Compiles(Functions(items)) <=> FitsTogether(items)
<1>1. /\ items \in Seq(ItemForms)
      /\ \A g, h \in DOMAIN items : items[g].name = items[h].name => g = h
      /\ \A f \in DOMAIN items : items[f].blocks # << >>
  BY DEF MachineAssumption
<1> DEFINE Declared(item) == \A i \in DOMAIN item.args : item.args[i] \in NamesIn(item.lets)
           BlockFit(f, b) ==
             /\ EndFit(items, items[f], items[f].blocks[b])
             /\ \A i \in DOMAIN items[f].blocks[b].body :
                  LineFit(items[f], items[f].blocks[b].body[i])
<1>2. FitsTogether(items) <=>
        \A f \in DOMAIN items :
          /\ Distinct(items[f].blocks) /\ Declared(items[f])
          /\ \A b \in DOMAIN items[f].blocks : BlockFit(f, b)
  BY DEF FitsTogether, WellFormed, EndFit, LineFit
<1>3. \A f \in DOMAIN items : ArgsDeclared(items[f]) <=> Declared(items[f])
  BY <1>1, FuncParts, LocalFits DEF ArgsDeclared
<1>4. ASSUME \A f \in DOMAIN items : ArgsDeclared(items[f])
      PROVE  \A f \in DOMAIN items :
               BlocksGood(items, f) <=> \A b \in DOMAIN items[f].blocks : BlockFit(f, b)
  <2> SUFFICES ASSUME NEW f \in DOMAIN items, NEW b \in DOMAIN items[f].blocks
               PROVE  (/\ Good(items, f, Terminator(items, items[f], items[f].blocks[b]))
                       /\ \A i \in DOMAIN items[f].blocks[b].body :
                            LineGood(items, f, items[f].blocks[b].body[i]))
                        <=> BlockFit(f, b)
    <3> HIDE DEF BlockFit
    <3> QED  BY DEF BlocksGood
  <2> DEFINE block == items[f].blocks[b]
  <2>1. block \in BlockForms /\ block.body \in Seq(LineForms)
    BY <1>1, BlockParts
  <2>2. NamesIn(items[f].lets) \cap NamesIn(items[f].blocks) = {}
    BY DEF Unambiguous
  <2>3. Good(items, f, Terminator(items, items[f], block)) <=> EndFit(items, items[f], block)
    <3>1. \A g \in DOMAIN items : \A i \in DOMAIN items[g].args :
            LocalId(items[g], items[g].args[i]) # 0
      BY <1>4 DEF ArgsDeclared
    <3> HIDE DEF block, BlockFit, Declared
    <3> QED  BY <1>1, <2>1, <2>2, <3>1, TerminatorFits
  <2>4. ASSUME NEW i \in DOMAIN block.body
        PROVE  LineGood(items, f, block.body[i]) <=> LineFit(items[f], block.body[i])
    <3>1. block.body[i] \in LineForms
      BY <2>1, ElementOfSeq, LenProperties
    <3> HIDE DEF block, BlockFit, Declared
    <3> QED  BY <1>1, <3>1, LineFits
  <2> QED  BY <2>3, <2>4
<1>5. NamesResolve(items) /\ Compiles(Functions(items))
        <=> \A f \in DOMAIN items :
              /\ Distinct(items[f].blocks) /\ ArgsDeclared(items[f])
              /\ BlocksGood(items, f)
  BY <1>1, AcceptsParts
<1> HIDE DEF Declared, BlockFit
<1> QED  BY <1>2, <1>3, <1>4, <1>5

=============================================================================
