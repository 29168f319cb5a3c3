------------------------------ MODULE MirProofs -----------------------------
(***************************************************************************)
(* Theorems about module MirMachine, for every set of texts, any           *)
(* arguments, any width of an i32 and any depth of calls: compiled code    *)
(* uses no id out of range, the runtime's stack lists the frames of the    *)
(* machine stack, what is rejected is what does not fit together, and      *)
(* compiled code does what its text says (module MirMeaning).              *)
(***************************************************************************)
EXTENDS MirTextProofs

-----------------------------------------------------------------------------
(* The inductive invariant.                                                *)

BlockAt(fr) == program[fr.fn].blocks[fr.block]

(* A frame that waits for the call in its terminator. *)
Waits(fr) ==
  /\ fr.pc = Len(BlockAt(fr).instructions) + 2
  /\ BlockAt(fr).ins_final.kind = "Call"

Callee(fr) == BlockAt(fr).ins_final.func

Accepted ==
  /\ phase \notin {"text", "rejected"} => program = Functions(text) /\ NamesResolve(text)
  /\ phase \notin {"text", "rejected", "parsed"} => Compiles(program)

Idle == phase \in {"text", "rejected", "parsed", "compiled"} => frames = << >>

(* All frames but the last wait for the next one. *)
Nested ==
  \A i \in 1..(Depth - 1) : Waits(frames[i]) /\ frames[i + 1].fn = Callee(frames[i])

(* The last frame waits only when its callee has just returned. *)
Answered ==
  phase = "running" =>
    /\ Depth > 0
    /\ Top.pc = Len(Block.instructions) + 2 =>
         /\ Waits(Top)
         /\ program[Callee(Top)].return_type # None => ret # None

Stacked == rt_stack = [i \in 1..Registered |-> {<<i, l>> : l \in Roots(frames[i].fn)}]

Inv ==
  /\ TypeOK
  /\ Accepted
  /\ Idle
  /\ Nested
  /\ Answered
  /\ Stacked

-----------------------------------------------------------------------------
LEMMA FrameParts ==
  ASSUME NEW fr \in Frame
  PROVE  /\ fr = [fn |-> fr.fn, block |-> fr.block, pc |-> fr.pc, slots |-> fr.slots]
         /\ fr.fn \in DOMAIN program
         /\ fr.block \in DOMAIN program[fr.fn].blocks
         /\ fr.pc \in Nat /\ fr.pc <= Len(BlockAt(fr).instructions) + 2
         /\ fr.slots \in [DOMAIN program[fr.fn].locals -> Int \cup {Undef}]
<1>1. fr \in [fn : DOMAIN program, block : Nat, pc : Nat, slots : Seq(Int \cup {Undef})]
  BY DEF Frame
<1>2. fr.slots \in [DOMAIN fr.slots -> Int \cup {Undef}]
  BY <1>1, LenProperties
<1> QED  BY <1>1, <1>2 DEF Frame, BlockAt

LEMMA FrameFrom ==
  ASSUME NEW f \in DOMAIN program, FuncTyped(program, program[f]),
         NEW b \in DOMAIN program[f].blocks,
         NEW pc \in Nat, pc <= Len(program[f].blocks[b].instructions) + 2,
         NEW slots \in [DOMAIN program[f].locals -> Int \cup {Undef}]
  PROVE  [fn |-> f, block |-> b, pc |-> pc, slots |-> slots] \in Frame
<1>1. DOMAIN program[f].locals = 1..Len(program[f].locals) /\ Len(program[f].locals) \in Nat
  BY LenProperties DEF FuncTyped
<1>2. slots \in Seq(Int \cup {Undef})
  BY <1>1, SeqDef
<1> QED  BY <1>2 DEF Frame, FuncTyped

(* What holds of the code while it runs. *)
LEMMA Running ==
  ASSUME ValuesAssumption, MachineAssumption, Inv, phase = "running"
  PROVE  /\ Depth \in Nat \ {0}
         /\ DOMAIN frames = 1..Depth
         /\ frames \in Seq(Frame)
         /\ Top \in Frame
         /\ ProgramTyped(program)
         /\ FuncTyped(program, Code)
         /\ BlockTyped(program, Code, Block)
         /\ Block = BlockAt(Top)
<1>1. frames \in Seq(Frame) /\ Depth > 0
  BY DEF Inv, TypeOK, Answered
<1>2. Depth \in Nat \ {0} /\ DOMAIN frames = 1..Depth
  BY <1>1, LenProperties DEF Depth
<1>3. Top \in Frame
  BY <1>1, <1>2, ElementOfSeq DEF Top, Depth
<1>4. ProgramTyped(program)
  <2>1. text \in Texts /\ program = Functions(text) /\ NamesResolve(text) /\ Compiles(program)
    BY DEF Inv, TypeOK, Accepted
  <2> QED  BY <2>1, CompiledTyped
<1>5. FuncTyped(program, Code)
  BY <1>3, <1>4, FrameParts DEF ProgramTyped, Code
<1>6. BlockTyped(program, Code, Block)
  BY <1>3, <1>5, FrameParts DEF FuncTyped, Code, Block
<1>7. Block = BlockAt(Top)
  BY DEF Block, Code, BlockAt
<1> QED  BY <1>1, <1>2, <1>3, <1>4, <1>5, <1>6, <1>7

(* A step of the top frame inside its function. *)
LEMMA TopMoves ==
  ASSUME ValuesAssumption, MachineAssumption, Inv, phase = "running",
         NEW fr \in Frame, fr.fn = Top.fn, fr.pc # 0, Top.pc # 0,
         fr.pc # Len(BlockAt(fr).instructions) + 2,
         frames' = [frames EXCEPT ![Depth] = fr],
         UNCHANGED <<text, program, phase, rt_stack>>,
         ret' \in Int \cup {Undef, None}
  PROVE  Inv'
<1>1. /\ Depth \in Nat \ {0} /\ DOMAIN frames = 1..Depth
      /\ frames \in Seq(Frame) /\ Top \in Frame
  BY Running
<1>2. Frame' = Frame
  BY DEF Frame
<1>3. /\ frames' \in Seq(Frame) /\ Depth' = Depth
      /\ \A i \in 1..Depth : frames'[i] = IF i = Depth THEN fr ELSE frames[i]
  BY <1>1, ExceptSeq DEF Depth
<1>4. Top' = fr
  BY <1>1, <1>3 DEF Top
<1>5. TypeOK'
  BY <1>2, <1>3 DEF Inv, TypeOK
<1>6. Accepted' /\ Idle'
  BY DEF Inv, Accepted, Idle
<1>7. \A i \in 1..Depth : frames'[i].fn = frames[i].fn
  BY <1>3 DEF Top
<1>8. Nested'
  <2> SUFFICES ASSUME NEW i \in 1..(Depth - 1)
               PROVE  Waits(frames[i])' /\ frames'[i + 1].fn = Callee(frames[i])'
    BY <1>3 DEF Nested
  <2>1. frames'[i] = frames[i] /\ i + 1 \in 1..Depth
    BY <1>1, <1>3
  <2>2. Waits(frames[i]) /\ frames[i + 1].fn = Callee(frames[i])
    BY DEF Inv, Nested
  <2> QED  BY <1>7, <2>1, <2>2 DEF Waits, Callee, BlockAt
<1>9. Answered'
  <2>1. Block' = BlockAt(fr)
    BY <1>4 DEF Block, Code, BlockAt
  <2> QED  BY <1>1, <1>3, <1>4, <2>1 DEF Answered
<1>10. Stacked'
  <2>1. Registered = Depth /\ Registered' = Depth
    BY <1>1, <1>3, <1>4 DEF Registered
  <2>2. \A i \in 1..Depth : Roots(frames[i].fn)' = Roots(frames[i].fn)
    BY <1>7 DEF Roots
  <2> QED  BY <2>1, <2>2 DEF Inv, Stacked
<1> QED  BY <1>5, <1>6, <1>8, <1>9, <1>10 DEF Inv

LEMMA TopFrame ==
  ASSUME ValuesAssumption, MachineAssumption, Inv, phase = "running"
  PROVE  /\ Top = [fn |-> Top.fn, block |-> Top.block, pc |-> Top.pc, slots |-> Top.slots]
         /\ Top.fn \in DOMAIN program
         /\ Top.block \in DOMAIN Code.blocks
         /\ Top.pc \in Nat
         /\ Top.slots \in [DOMAIN Code.locals -> Int \cup {Undef}]
         /\ Block = Code.blocks[Top.block]
         /\ Code = program[Top.fn]
BY Running, FrameParts DEF Code, Block

LEMMA SetTopInv ==
  ASSUME ValuesAssumption, MachineAssumption, Inv, phase = "running", Top.pc # 0,
         NEW b \in DOMAIN Code.blocks,
         NEW pc \in 1..(Len(Code.blocks[b].instructions) + 1),
         NEW slots \in [DOMAIN Code.locals -> Int \cup {Undef}],
         SetTop(b, pc, slots),
         UNCHANGED <<text, program, phase, rt_stack>>,
         ret' \in Int \cup {Undef, None}
  PROVE  Inv'
<1> DEFINE fr == [fn |-> Top.fn, block |-> b, pc |-> pc, slots |-> slots]
<1>1. FuncTyped(program, Code) /\ Code = program[Top.fn] /\ Top.fn \in DOMAIN program
  BY Running, TopFrame
<1>2. Len(Code.blocks[b].instructions) \in Nat
  BY <1>1 DEF FuncTyped, BlockTyped
<1>3. fr \in Frame
  BY <1>1, <1>2, FrameFrom
<1>4. fr.pc # 0 /\ fr.fn = Top.fn /\ fr.pc # Len(BlockAt(fr).instructions) + 2
  BY <1>1, <1>2 DEF BlockAt
<1>5. frames' = [frames EXCEPT ![Depth] = fr]
  BY DEF SetTop
<1> HIDE DEF fr
<1> QED  BY <1>3, <1>4, <1>5, TopMoves

(* Entering a block from its start. *)
LEMMA GoToInv ==
  ASSUME ValuesAssumption, MachineAssumption, Inv, phase = "running", Top.pc # 0,
         NEW b \in DOMAIN Code.blocks,
         NEW slots \in [DOMAIN Code.locals -> Int \cup {Undef}],
         GoTo(b, slots),
         UNCHANGED <<text, program, phase, rt_stack>>,
         ret' \in Int \cup {Undef, None}
  PROVE  Inv'
<1>1. Len(Code.blocks[b].instructions) \in Nat
  BY Running DEF FuncTyped, BlockTyped
<1>2. SetTop(b, 1, slots) /\ 1 \in 1..(Len(Code.blocks[b].instructions) + 1)
  BY <1>1 DEF GoTo, StartOf
<1> QED  BY <1>2, SetTopInv

-----------------------------------------------------------------------------
(* What instructions compute.                                              *)

LEMMA BinOpType ==
  ASSUME ValuesAssumption, NEW op \in Comparisons \cup Arithmetic, NEW t,
         NEW m \in Int \cup {Undef}, NEW n \in Int \cup {Undef},
         op = "div" /\ m # Undef /\ n # Undef => n # 0
  PROVE  BinOp(op, t, m, n) \in Int \cup {Undef}
<1>1. CASE m = Undef \/ n = Undef
  BY <1>1 DEF BinOp
<1>2. CASE m \in Int /\ n \in Int
  <2>1. Wrap(m + n) \in Int /\ Wrap(m - n) \in Int
    BY <1>2 DEF Wrap, IntMin, ValuesAssumption
  <2>2. Wrap(m * n) \in Int
    <3>1. m * n \in Int
      BY <1>2
    <3> QED  BY <3>1 DEF Wrap, IntMin, ValuesAssumption
  <2>3. op = "div" => Quotient(m, n) \in Int
    <3>1. Magnitude(m) \in Nat /\ (n # 0 => Magnitude(n) \in Nat \ {0})
      BY <1>2 DEF Magnitude
    <3>2. n # 0 => Magnitude(m) \div Magnitude(n) \in Int
      BY <3>1
    <3> QED  BY <1>2, <3>2, ValuesAssumption DEF Quotient, ValuesAssumption
  <2> QED  BY <2>1, <2>2, <2>3 DEF BinOp, Comparisons, Arithmetic
<1> QED  BY <1>1, <1>2

LEMMA ValueOf ==
  ASSUME ValuesAssumption, MachineAssumption, Inv, phase = "running",
         NEW o, OperandTyped(Code, o)
  PROVE  Value(o) \in Int \cup {Undef}
<1>1. Top.slots \in [DOMAIN Code.locals -> Int \cup {Undef}]
  BY Running, FrameParts DEF Code
<1> QED  BY <1>1 DEF Value, OperandTyped

LEMMA EvaluateType ==
  ASSUME ValuesAssumption, MachineAssumption, Inv, phase = "running",
         NEW ins, InstructionTyped(Code, ins), ~Traps(ins)
  PROVE  Evaluate(ins) \in Int \cup {Undef}
<1>1. CASE ins.op = "alloc"
  BY <1>1 DEF Evaluate
<1>2. CASE ins.op = "read"
  BY <1>2, ValueOf DEF Evaluate, InstructionTyped
<1>3. CASE ins.op \in Comparisons \cup Arithmetic
  <2> DEFINE m == Value(ins.operands[1])
             n == Value(ins.operands[2])
  <2>1. m \in Int \cup {Undef} /\ n \in Int \cup {Undef}
    BY <1>3, ValueOf DEF InstructionTyped, Comparisons, Arithmetic
  <2>2. ins.op = "div" => n # 0
    BY DEF Traps, DivTraps
  <2>3. Evaluate(ins) = BinOp(ins.op, OperandType(Code, ins.operands[1]), m, n)
    BY <1>3 DEF Evaluate, Comparisons, Arithmetic
  <2> HIDE DEF m, n
  <2> QED  BY <1>3, <2>1, <2>2, <2>3, BinOpType
<1> QED  BY <1>1, <1>2, <1>3 DEF InstructionTyped

-----------------------------------------------------------------------------
(* Steps of compiled code.                                                 *)

LEMMA ExecuteInv ==
  ASSUME ValuesAssumption, MachineAssumption, Inv, Execute
  PROVE  Inv'
<1> DEFINE ins   == Block.instructions[Top.pc]
           v     == StoredIn(Code.locals[ins.place], ValueType(Code, ins), Evaluate(ins))
           slots == [Top.slots EXCEPT ![ins.place] = v]
<1>1. phase = "running" /\ Top.pc \in DOMAIN Block.instructions /\ ~Traps(ins)
  BY DEF Execute, AtInstruction
<1>2. /\ DOMAIN Block.instructions = 1..Len(Block.instructions)
      /\ Len(Block.instructions) \in Nat
      /\ InstructionTyped(Code, ins)
  BY <1>1, Running DEF BlockTyped
<1>3. v \in Int \cup {Undef}
  BY <1>1, <1>2, EvaluateType DEF StoredIn
<1>4. /\ Top.block \in DOMAIN Code.blocks
      /\ Top.slots \in [DOMAIN Code.locals -> Int \cup {Undef}]
      /\ Block = Code.blocks[Top.block]
  BY <1>1, TopFrame
<1>5. SetTop(Top.block, Top.pc + 1, slots)
  BY DEF Execute
<1>6. UNCHANGED <<text, program, phase, rt_stack>> /\ ret' \in Int \cup {Undef, None}
  BY DEF Execute, Inv, TypeOK
<1> HIDE DEF ins, v
<1>7. slots \in [DOMAIN Code.locals -> Int \cup {Undef}]
  BY <1>3, <1>4
<1>8. Top.pc # 0 /\ Top.pc + 1 \in 1..(Len(Code.blocks[Top.block].instructions) + 1)
  BY <1>1, <1>2, <1>4
<1> HIDE DEF slots
<1> QED  BY <1>1, <1>4, <1>5, <1>6, <1>7, <1>8, SetTopInv

LEMMA JumpInv ==
  ASSUME ValuesAssumption, MachineAssumption, Inv, Jump
  PROVE  Inv'
<1>1. phase = "running" /\ Top.pc = Len(Block.instructions) + 1 /\ Block.ins_final.kind = "Br"
  BY DEF Jump, AtTerminator
<1>2. BlockTyped(program, Code, Block)
  BY <1>1, Running
<1>3. Top.pc # 0 /\ Block.ins_final.next \in DOMAIN Code.blocks
  BY <1>1, <1>2 DEF BlockTyped, TerminatorTyped
<1>4. GoTo(Block.ins_final.next, Top.slots) /\ UNCHANGED <<text, program, phase, rt_stack, ret>>
  BY DEF Jump
<1> QED  BY <1>1, <1>3, <1>4, TopFrame, GoToInv DEF Inv, TypeOK

LEMMA BranchInv ==
  ASSUME ValuesAssumption, MachineAssumption, Inv, Branch
  PROVE  Inv'
<1>1. phase = "running" /\ Top.pc = Len(Block.instructions) + 1 /\ Block.ins_final.kind = "BrIf"
  BY DEF Branch, AtTerminator
<1>2. BlockTyped(program, Code, Block)
  BY <1>1, Running
<1>3. Top.pc # 0 /\ {Block.ins_final.is_true, Block.ins_final.is_false} \subseteq DOMAIN Code.blocks
  BY <1>1, <1>2 DEF BlockTyped, TerminatorTyped
<1>4. PICK b \in Taken(Block.ins_final, Top.slots[Block.ins_final.cond]) : GoTo(b, Top.slots)
  BY DEF Branch
<1>5. b \in DOMAIN Code.blocks
  BY <1>3 DEF Taken
<1>6. UNCHANGED <<text, program, phase, rt_stack, ret>>
  BY DEF Branch
<1> QED  BY <1>1, <1>3, <1>4, <1>5, <1>6, TopFrame, GoToInv DEF Inv, TypeOK

LEMMA ResumeInv ==
  ASSUME ValuesAssumption, MachineAssumption, Inv, Resume
  PROVE  Inv'
<1> DEFINE term  == Block.ins_final
           l     == term.store_ret
           slots == IF l = None THEN Top.slots
                    ELSE [Top.slots EXCEPT
                            ![l] = StoredIn(Code.locals[l], program[term.func].return_type, ret)]
<1>1. phase = "running" /\ Top.pc = Len(Block.instructions) + 2
  BY DEF Resume, AfterCall
<1>2. BlockTyped(program, Code, Block) /\ Block = BlockAt(Top)
  BY <1>1, Running
<1>3. /\ term.kind = "Call"
      /\ program[term.func].return_type # None => ret # None
  BY <1>1, <1>2 DEF Inv, Answered, Waits, Callee
<1>4. CallTyped(program, Code, term)
  BY <1>2, <1>3 DEF BlockTyped, TerminatorTyped
<1>5. Top.slots \in [DOMAIN Code.locals -> Int \cup {Undef}] /\ Top.pc # 0
  BY <1>1, <1>2, TopFrame DEF BlockTyped
<1>6. slots \in [DOMAIN Code.locals -> Int \cup {Undef}]
  <2>1. CASE l = None
    BY <1>5, <2>1
  <2>2. CASE l # None
    <3>1. ret \in Int \cup {Undef} /\ l \in DOMAIN Code.locals
      BY <1>3, <1>4, <2>2 DEF CallTyped, Inv, TypeOK
    <3> DEFINE v == StoredIn(Code.locals[l], program[term.func].return_type, ret)
    <3>2. v \in Int \cup {Undef}
      BY <3>1 DEF StoredIn
    <3>3. slots = [Top.slots EXCEPT ![l] = v]
      BY <2>2
    <3> HIDE DEF v, slots
    <3> QED  BY <1>5, <3>1, <3>2, <3>3
  <2> QED  BY <2>1, <2>2
<1>7. GoTo(term.next, slots) /\ UNCHANGED <<text, program, phase, rt_stack>> /\ ret' = None
  BY DEF Resume
<1>8. term.next \in DOMAIN Code.blocks
  BY <1>4 DEF CallTyped
<1> HIDE DEF slots, term
<1> QED  BY <1>1, <1>5, <1>6, <1>7, <1>8, GoToInv

LEMMA PrologueInv ==
  ASSUME ValuesAssumption, MachineAssumption, Inv, Prologue
  PROVE  Inv'
<1> DEFINE slots == [l \in DOMAIN Top.slots |-> IF l \in Roots(Top.fn) THEN 0 ELSE Top.slots[l]]
           fr    == [fn |-> Top.fn, block |-> Top.block, pc |-> 1, slots |-> slots]
<1>1. phase = "running" /\ Top.pc = 0
  BY DEF Prologue
<1>2. /\ Depth \in Nat \ {0} /\ DOMAIN frames = 1..Depth
      /\ frames \in Seq(Frame) /\ FuncTyped(program, Code)
      /\ Len(Block.instructions) \in Nat
  BY <1>1, Running DEF BlockTyped
<1>3. /\ Top.fn \in DOMAIN program /\ Top.block \in DOMAIN Code.blocks
      /\ Top.slots \in [DOMAIN Code.locals -> Int \cup {Undef}]
      /\ Block = Code.blocks[Top.block] /\ Code = program[Top.fn]
  BY <1>1, TopFrame
<1>4. fr \in Frame
  <2>1. slots \in [DOMAIN Code.locals -> Int \cup {Undef}]
    <3>1. /\ DOMAIN Top.slots = DOMAIN Code.locals
          /\ \A l \in DOMAIN Code.locals : Top.slots[l] \in Int \cup {Undef}
      BY <1>3
    <3> QED  BY <3>1
  <2>2. 1 \in Nat /\ 1 <= Len(program[Top.fn].blocks[Top.block].instructions) + 2
    <3> DEFINE n == Len(Block.instructions)
    <3>1. n \in Nat
      BY <1>2
    <3>2. program[Top.fn].blocks[Top.block].instructions = Block.instructions
      BY <1>3
    <3> HIDE DEF n
    <3>3. 1 <= n + 2
      BY <3>1
    <3> QED  BY <3>2, <3>3 DEF n
  <2>3. FuncTyped(program, program[Top.fn]) /\ Top.block \in DOMAIN program[Top.fn].blocks
        /\ slots \in [DOMAIN program[Top.fn].locals -> Int \cup {Undef}]
    BY <1>2, <1>3, <2>1
  <2> HIDE DEF slots
  <2> QED  BY <1>3, <2>2, <2>3, FrameFrom
<1>5. /\ frames' = [frames EXCEPT ![Depth] = fr]
      /\ rt_stack' = Append(rt_stack, {<<Depth, l>> : l \in Roots(Top.fn)})
      /\ UNCHANGED <<text, program, phase, ret>>
  BY DEF Prologue, SetTop
<1>6. fr.fn = Top.fn /\ fr.pc = 1
  OBVIOUS
<1> HIDE DEF fr
<1>7. /\ frames' \in Seq(Frame) /\ Depth' = Depth
      /\ \A i \in 1..Depth : frames'[i] = IF i = Depth THEN fr ELSE frames[i]
  BY <1>2, <1>4, <1>5, ExceptSeq DEF Depth
<1>8. /\ Top' = fr /\ Frame' = Frame
      /\ \A i \in 1..Depth : frames'[i].fn = frames[i].fn
  <2>1. Frame' = Frame
    BY <1>5 DEF Frame
  <2>2. Top' = fr
    BY <1>2, <1>7 DEF Top
  <2>3. \A i \in 1..Depth : frames'[i].fn = frames[i].fn
    BY <1>6, <1>7 DEF Top
  <2> QED  BY <2>1, <2>2, <2>3
<1>9. TypeOK' /\ Accepted' /\ Idle'
  BY <1>1, <1>5, <1>7, <1>8 DEF Inv, TypeOK, Accepted, Idle
<1>10. Nested'
  <2> SUFFICES ASSUME NEW i \in 1..(Depth - 1)
               PROVE  Waits(frames[i])' /\ frames'[i + 1].fn = Callee(frames[i])'
    BY <1>7 DEF Nested
  <2>1. frames'[i] = frames[i] /\ i + 1 \in 1..Depth
    BY <1>2, <1>7
  <2>2. Waits(frames[i]) /\ frames[i + 1].fn = Callee(frames[i])
    BY DEF Inv, Nested
  <2> QED  BY <1>5, <1>8, <2>1, <2>2 DEF Waits, Callee, BlockAt
<1>11. Answered'
  <2>1. Block' = Block
    BY <1>3, <1>5, <1>8 DEF Block, Code, fr
  <2> QED  BY <1>2, <1>6, <1>7, <1>8, <2>1 DEF Answered
<1>12. Stacked'
  <2>1. Registered = Depth - 1 /\ Registered' = Depth
    BY <1>1, <1>2, <1>6, <1>7, <1>8 DEF Registered
  <2>2. rt_stack = [i \in 1..(Depth - 1) |-> {<<i, l>> : l \in Roots(frames[i].fn)}]
    BY <2>1 DEF Inv, Stacked
  <2> DEFINE roots(i) == {<<i, l>> : l \in Roots(frames[i].fn)}
  <2>3. \A i \in 1..Depth : roots(i) = {<<i, l>> : l \in Roots(frames[i].fn)'}
    BY <1>5, <1>8 DEF Roots
  <2>4. rt_stack' = Append([i \in 1..(Depth - 1) |-> roots(i)], roots(Depth))
    BY <1>5, <2>2 DEF Top
  <2>5. Append([i \in 1..(Depth - 1) |-> roots(i)], roots(Depth)) = [i \in 1..Depth |-> roots(i)]
    <3> HIDE DEF roots
    <3> QED  BY <1>2
  <2>6. rt_stack' = [i \in 1..Depth |-> {<<i, l>> : l \in Roots(frames[i].fn)'}]
    BY <2>3, <2>4, <2>5
  <2> QED  BY <2>1, <2>6, <1>7 DEF Stacked
<1> QED  BY <1>9, <1>10, <1>11, <1>12 DEF Inv

LEMMA NewFrameType ==
  ASSUME ValuesAssumption, MachineAssumption, ProgramTyped(program), NEW f \in DOMAIN program,
         NEW actuals, \A i \in DOMAIN program[f].args : actuals[i] \in Int \cup {Undef}
  PROVE  NewFrame(f, actuals) \in Frame /\ NewFrame(f, actuals).fn = f /\ NewFrame(f, actuals).pc = 0
<1> DEFINE func  == program[f]
           slots == [l \in DOMAIN func.locals |->
                       LET i == IdOf(func.args, l) IN IF i = 0 THEN Undef ELSE actuals[i]]
<1>1. FuncTyped(program, func)
  BY DEF ProgramTyped
<1>2. \A l \in DOMAIN func.locals : slots[l] \in Int \cup {Undef}
  BY <1>1, IdOfDeclared DEF FuncTyped
<1>3. func.entrypoint \in DOMAIN func.blocks /\ Len(func.blocks[func.entrypoint].instructions) \in Nat
  BY <1>1 DEF FuncTyped, BlockTyped
<1>4. NewFrame(f, actuals) = [fn |-> f, block |-> func.entrypoint, pc |-> 0, slots |-> slots]
  BY DEF NewFrame
<1>5. slots \in [DOMAIN func.locals -> Int \cup {Undef}]
  BY <1>2
<1> HIDE DEF slots
<1>6. 0 \in Nat /\ 0 <= Len(program[f].blocks[func.entrypoint].instructions) + 2
  BY <1>3
<1>7. [fn |-> f, block |-> func.entrypoint, pc |-> 0, slots |-> slots] \in Frame
  BY <1>1, <1>3, <1>5, <1>6, FrameFrom
<1> QED  BY <1>4, <1>7

LEMMA StopInv ==
  ASSUME Inv, phase = "running", phase' \in {"trapped", "wild"},
         UNCHANGED <<text, program, frames, rt_stack, ret>>
  PROVE  Inv'
<1>1. Frame' = Frame /\ Depth' = Depth /\ Top' = Top /\ Registered' = Registered
  BY DEF Frame, Depth, Top, Registered
<1>2. TypeOK' /\ Accepted' /\ Idle' /\ Answered'
  BY <1>1 DEF Inv, TypeOK, Accepted, Idle, Answered
<1>3. Nested' /\ Stacked'
  BY <1>1 DEF Inv, Nested, Stacked, Waits, Callee, BlockAt, Roots
<1> QED  BY <1>2, <1>3 DEF Inv

LEMMA InvokeInv ==
  ASSUME ValuesAssumption, MachineAssumption, Inv, Invoke
  PROVE  Inv'
<1> DEFINE term    == Block.ins_final
           actuals == [i \in DOMAIN term.args |-> Top.slots[term.args[i]]]
           new     == NewFrame(term.func, actuals)
           waiting == [fn |-> Top.fn, block |-> Top.block, pc |-> Top.pc + 1, slots |-> Top.slots]
           halted  == [frames EXCEPT ![Depth] = waiting]
<1>1. phase = "running" /\ Top.pc = Len(Block.instructions) + 1 /\ term.kind = "Call"
  BY DEF Invoke, AtTerminator
<1>2. /\ Depth \in Nat \ {0} /\ DOMAIN frames = 1..Depth
      /\ frames \in Seq(Frame) /\ ProgramTyped(program) /\ FuncTyped(program, Code)
      /\ BlockTyped(program, Code, Block) /\ Block = BlockAt(Top)
      /\ Len(Block.instructions) \in Nat
  BY <1>1, Running DEF BlockTyped
<1>3. /\ Top = [fn |-> Top.fn, block |-> Top.block, pc |-> Top.pc, slots |-> Top.slots]
      /\ Top.fn \in DOMAIN program /\ Top.block \in DOMAIN Code.blocks
      /\ Top.slots \in [DOMAIN Code.locals -> Int \cup {Undef}]
      /\ Block = Code.blocks[Top.block] /\ Code = program[Top.fn]
  BY <1>1, TopFrame
<1>4. CallTyped(program, Code, term)
  BY <1>1, <1>2 DEF BlockTyped, TerminatorTyped
<1>5. new \in Frame /\ new.fn = term.func /\ new.pc = 0
  <2>1. \A i \in DOMAIN program[term.func].args : actuals[i] \in Int \cup {Undef}
    <3>1. term.args \in [DOMAIN term.args -> DOMAIN Code.locals]
      BY <1>4, LenProperties DEF CallTyped
    <3> QED  BY <1>3, <1>4, <3>1 DEF CallTyped
  <2> HIDE DEF actuals
  <2> QED  BY <1>2, <1>4, <2>1, NewFrameType DEF CallTyped
<1>6. waiting \in Frame
  <2>1. Top.pc + 1 \in Nat /\ Top.pc + 1 <= Len(program[Top.fn].blocks[Top.block].instructions) + 2
    BY <1>1, <1>2, <1>3
  <2>2. FuncTyped(program, program[Top.fn])
    BY <1>2, <1>3
  <2> QED  BY <1>3, <2>1, <2>2, FrameFrom
<1>7. /\ frames' = Append(halted, new)
      /\ UNCHANGED <<text, program, phase, rt_stack, ret>>
  <2>1. [Top EXCEPT !.pc = @ + 1] = waiting
    BY <1>3
  <2> QED  BY <2>1 DEF Invoke
<1>8. waiting.fn = Top.fn /\ waiting.block = Top.block /\ waiting.pc = Len(Block.instructions) + 2
  BY <1>1, <1>2
<1> HIDE DEF waiting, new
<1>9. /\ halted \in Seq(Frame) /\ Len(halted) = Depth
      /\ \A i \in 1..Depth : halted[i] = IF i = Depth THEN waiting ELSE frames[i]
  BY <1>2, <1>6, ExceptSeq DEF Depth
<1> HIDE DEF halted
<1>10. /\ frames' \in Seq(Frame) /\ Depth' = Depth + 1 /\ frames'[Depth + 1] = new
       /\ \A i \in 1..Depth : frames'[i] = IF i = Depth THEN waiting ELSE frames[i]
  <2>1. /\ Append(halted, new) \in Seq(Frame) /\ Len(Append(halted, new)) = Depth + 1
        /\ \A i \in 1..Depth : Append(halted, new)[i] = halted[i]
        /\ Append(halted, new)[Depth + 1] = new
    BY <1>5, <1>9, AppendProperties
  <2>2. Depth' = Len(Append(halted, new))
    BY <1>7 DEF Depth
  <2> QED  BY <1>7, <1>9, <2>1, <2>2
<1>11. /\ Top' = new /\ Frame' = Frame
       /\ \A i \in 1..Depth : frames'[i].fn = frames[i].fn
  BY <1>7, <1>8, <1>10 DEF Top, Frame
<1>12. TypeOK' /\ Accepted' /\ Idle'
  BY <1>1, <1>7, <1>10, <1>11 DEF Inv, TypeOK, Accepted, Idle
<1>13. Nested'
  <2> SUFFICES ASSUME NEW i \in 1..Depth
               PROVE  Waits(frames[i])' /\ frames'[i + 1].fn = Callee(frames[i])'
    BY <1>2, <1>10 DEF Nested
  <2>1. CASE i = Depth
    <3>1. frames'[i] = waiting /\ frames'[i + 1] = new
      BY <1>10, <2>1
    <3> QED  BY <1>1, <1>2, <1>5, <1>7, <1>8, <3>1 DEF Waits, Callee, BlockAt
  <2>2. CASE i # Depth
    <3>1. i \in 1..(Depth - 1) /\ frames'[i] = frames[i] /\ i + 1 \in 1..Depth
      BY <1>2, <1>10, <2>2
    <3>2. Waits(frames[i]) /\ frames[i + 1].fn = Callee(frames[i])
      BY <3>1 DEF Inv, Nested
    <3> QED  BY <1>7, <1>11, <3>1, <3>2 DEF Waits, Callee, BlockAt
  <2> QED  BY <2>1, <2>2
<1>14. Answered'
  <2>1. Block' = BlockAt(new)
    BY <1>7, <1>11 DEF Block, Code, BlockAt
  <2>2. Len(BlockAt(new).instructions) \in Nat
    BY <1>2, <1>5, FrameParts DEF ProgramTyped, FuncTyped, BlockTyped, BlockAt
  <2> QED  BY <1>2, <1>5, <1>10, <1>11, <2>1, <2>2 DEF Answered
<1>15. Stacked'
  <2>1. Registered = Depth /\ Registered' = Depth
    BY <1>1, <1>2, <1>5, <1>10, <1>11 DEF Registered
  <2>2. \A i \in 1..Depth : Roots(frames[i].fn)' = Roots(frames[i].fn)
    BY <1>7, <1>11 DEF Roots
  <2> QED  BY <1>7, <2>1, <2>2 DEF Inv, Stacked
<1> QED  BY <1>12, <1>13, <1>14, <1>15 DEF Inv

LEMMA LeaveInv ==
  ASSUME ValuesAssumption, MachineAssumption, Inv, Leave
  PROVE  Inv'
<1> DEFINE l == Block.ins_final.value
<1>1. /\ phase = "running" /\ Top.pc = Len(Block.instructions) + 1
      /\ Block.ins_final.kind = "Return"
  BY DEF Leave, AtTerminator
<1>2. /\ Depth \in Nat \ {0} /\ DOMAIN frames = 1..Depth
      /\ frames \in Seq(Frame) /\ BlockTyped(program, Code, Block)
      /\ Len(Block.instructions) \in Nat
  BY <1>1, Running DEF BlockTyped
<1>3. /\ l # None => l \in DOMAIN Code.locals
      /\ l # None <=> Code.return_type # None
  BY <1>1, <1>2 DEF BlockTyped, TerminatorTyped
<1>4. /\ frames' = SubSeq(frames, 1, Depth - 1)
      /\ rt_stack' = SubSeq(rt_stack, 1, Len(rt_stack) - 1)
      /\ phase' = IF Depth = 1 THEN "returned" ELSE "running"
      /\ UNCHANGED <<text, program>>
  BY <1>1 DEF Leave
<1>5. ret' \in Int \cup {Undef, None} /\ (Code.return_type # None => ret' # None)
  <2>1. CASE l = None
    BY <1>3, <2>1 DEF Leave
  <2>2. CASE l # None
    <3> DEFINE v == Top.slots[l]
    <3>1. v \in Int \cup {Undef}
      BY <1>1, <1>3, <2>2, TopFrame
    <3>2. ret' = LoadAs(Code.return_type, Code.locals[l], v)
      BY <2>2 DEF Leave
    <3> HIDE DEF v
    <3> QED  BY <3>1, <3>2 DEF LoadAs, ValuesAssumption
  <2> QED  BY <2>1, <2>2
<1>6. /\ frames' \in Seq(Frame) /\ Depth' = Depth - 1
      /\ \A i \in 1..(Depth - 1) : frames'[i] = frames[i]
  BY <1>2, <1>4, SubSeqProperties DEF Depth
<1>7. Frame' = Frame
  BY <1>4 DEF Frame
<1>8. TypeOK' /\ Accepted' /\ Idle'
  BY <1>1, <1>4, <1>5, <1>6, <1>7 DEF Inv, TypeOK, Accepted, Idle
<1>9. \A i \in 1..(Depth - 1) : Waits(frames[i]) /\ frames[i + 1].fn = Callee(frames[i])
  BY DEF Inv, Nested
<1>10. Nested'
  <2> SUFFICES ASSUME NEW i \in 1..(Depth - 2)
               PROVE  Waits(frames[i])' /\ frames'[i + 1].fn = Callee(frames[i])'
    BY <1>2, <1>6 DEF Nested
  <2>1. i \in 1..(Depth - 1) /\ i + 1 \in 1..(Depth - 1)
    BY <1>2
  <2> QED  BY <1>4, <1>6, <1>9, <2>1 DEF Waits, Callee, BlockAt
<1>11. Depth > 1 => Top' = frames[Depth - 1] /\ Waits(frames[Depth - 1])
                    /\ Callee(frames[Depth - 1]) = Top.fn
  <2> SUFFICES ASSUME Depth > 1
               PROVE  Top' = frames[Depth - 1] /\ Waits(frames[Depth - 1])
                      /\ Callee(frames[Depth - 1]) = Top.fn
    OBVIOUS
  <2>1. Depth - 1 \in 1..(Depth - 1) /\ (Depth - 1) + 1 = Depth
    BY <1>2
  <2> QED  BY <1>6, <1>9, <2>1 DEF Top
<1>12. Answered'
  <2> SUFFICES ASSUME Depth > 1
               PROVE  /\ Depth' > 0
                      /\ Waits(Top)'
                      /\ program'[Callee(Top)'].return_type # None => ret' # None
    BY <1>2, <1>4 DEF Answered
  <2>1. Waits(Top)' /\ Callee(Top)' = Top.fn
    BY <1>4, <1>11 DEF Waits, Callee, BlockAt
  <2> QED  BY <1>2, <1>4, <1>5, <1>6, <2>1 DEF Code
<1>13. Stacked'
  <2>1. Registered = Depth
    BY <1>1, <1>2 DEF Registered
  <2>2. Registered' = Depth - 1
    <3>1. CASE Depth = 1
      BY <1>6, <3>1 DEF Registered
    <3>2. CASE Depth > 1
      <4>1. Top'.pc # 0
        <5>1. frames[Depth - 1] \in Frame
          BY <1>2, <3>2, ElementOfSeq DEF Depth
        <5>2. Len(BlockAt(frames[Depth - 1]).instructions) \in Nat
          <6>1. ProgramTyped(program)
            BY <1>1, Running
          <6> QED  BY <5>1, <6>1, FrameParts DEF ProgramTyped, FuncTyped, BlockTyped, BlockAt
        <5> QED  BY <1>11, <3>2, <5>2 DEF Waits
      <4> QED  BY <1>6, <4>1 DEF Registered
    <3> QED  BY <1>2, <3>1, <3>2
  <2> DEFINE roots(i) == {<<i, k>> : k \in Roots(frames[i].fn)}
  <2>3. rt_stack = [i \in 1..Depth |-> roots(i)]
    BY <2>1 DEF Inv, Stacked
  <2>4. rt_stack' = [i \in 1..(Depth - 1) |-> roots(i)]
    <3> HIDE DEF roots
    <3>1. Len(rt_stack) = Depth
      BY <1>2, <2>3
    <3>2. rt_stack' = SubSeq([i \in 1..Depth |-> roots(i)], 1, Depth - 1)
      BY <1>4, <2>3, <3>1
    <3> QED  BY <1>2, <3>2
  <2>5. \A i \in 1..(Depth - 1) : roots(i) = {<<i, k>> : k \in Roots(frames[i].fn)'}
    BY <1>4, <1>6 DEF Roots
  <2> HIDE DEF roots
  <2> QED  BY <2>2, <2>4, <2>5 DEF Stacked
<1> QED  BY <1>8, <1>10, <1>12, <1>13 DEF Inv

-----------------------------------------------------------------------------
(* The other steps.                                                        *)

LEMMA CallFromRustInv ==
  ASSUME ValuesAssumption, MachineAssumption, Inv,
         NEW f \in DOMAIN program, NEW actuals \in [DOMAIN program[f].args -> Actuals],
         CallFromRust(f, actuals)
  PROVE  Inv'
<1> DEFINE new == NewFrame(f, actuals)
<1>1. /\ phase = "compiled" /\ phase' = "running" /\ frames' = <<new>>
      /\ UNCHANGED <<text, program, rt_stack, ret>>
  BY DEF CallFromRust
<1>2. ProgramTyped(program)
  <2>1. text \in Texts /\ program = Functions(text) /\ NamesResolve(text) /\ Compiles(program)
    BY <1>1 DEF Inv, TypeOK, Accepted
  <2> QED  BY <2>1, CompiledTyped
<1>3. new \in Frame /\ new.fn = f /\ new.pc = 0
  <2>1. \A i \in DOMAIN program[f].args : actuals[i] \in Int \cup {Undef}
    BY DEF MachineAssumption
  <2> QED  BY <1>2, <2>1, NewFrameType
<1> HIDE DEF new
<1>4. frames' \in Seq(Frame) /\ Depth' = 1 /\ Top' = new /\ Frame' = Frame
  BY <1>1, <1>3 DEF Depth, Top, Frame
<1>5. TypeOK' /\ Accepted' /\ Idle' /\ Nested'
  BY <1>1, <1>4 DEF Inv, TypeOK, Accepted, Idle, Nested
<1>6. Answered'
  <2>1. Block' = BlockAt(new)
    BY <1>1, <1>4 DEF Block, Code, BlockAt
  <2>2. Len(BlockAt(new).instructions) \in Nat
    BY <1>2, <1>3, FrameParts DEF ProgramTyped, FuncTyped, BlockTyped, BlockAt
  <2> QED  BY <1>3, <1>4, <2>1, <2>2 DEF Answered
<1>7. Stacked'
  <2>1. frames = << >>
    BY <1>1 DEF Inv, Idle
  <2>2. Registered = 0 /\ Registered' = 0
    BY <1>3, <1>4, <2>1 DEF Registered, Depth
  <2> QED  BY <1>1, <2>2 DEF Inv, Stacked
<1> QED  BY <1>5, <1>6, <1>7 DEF Inv

LEMMA ParseInv ==
  ASSUME ValuesAssumption, MachineAssumption, Inv, parse_mir_program \/ compile_program
  PROVE  Inv'
<1>1. /\ phase \in {"text", "parsed"} /\ phase' \in {"parsed", "compiled", "rejected"}
      /\ UNCHANGED <<text, frames, rt_stack, ret>>
  BY DEF parse_mir_program, compile_program
<1>2. frames = << >>
  BY <1>1 DEF Inv, Idle
<1>3. Depth = 0 /\ Depth' = 0 /\ Registered = 0 /\ Registered' = 0
  BY <1>1, <1>2 DEF Depth, Registered
<1>4. Accepted' /\ program' \in {<< >>, Functions(text)}
  BY DEF parse_mir_program, compile_program, Inv, TypeOK, Accepted
<1>5. TypeOK'
  BY <1>1, <1>2, <1>4 DEF Inv, TypeOK
<1>6. Idle' /\ Nested' /\ Answered'
  BY <1>1, <1>2, <1>3 DEF Idle, Nested, Answered
<1>7. Stacked'
  BY <1>1, <1>3 DEF Inv, Stacked
<1> QED  BY <1>4, <1>5, <1>6, <1>7 DEF Inv

LEMMA InitInv ==
  ASSUME ValuesAssumption, MachineAssumption, Init
  PROVE  Inv
<1>1. frames = << >> /\ Depth = 0 /\ Registered = 0
  BY DEF Init, Depth, Registered
<1>2. TypeOK /\ Accepted /\ Idle
  BY <1>1 DEF Init, TypeOK, Accepted, Idle
<1>3. Nested /\ Answered
  BY <1>1 DEF Init, Nested, Answered
<1>4. Stacked
  BY <1>1 DEF Init, Stacked
<1> QED  BY <1>2, <1>3, <1>4 DEF Inv

LEMMA NextInv ==
  ASSUME ValuesAssumption, MachineAssumption, Inv, [Next]_vars
  PROVE  Inv'
<1>1. CASE parse_mir_program \/ compile_program
  BY <1>1, ParseInv
<1>2. CASE \E f \in DOMAIN program :
             \E actuals \in [DOMAIN program[f].args -> Actuals] : CallFromRust(f, actuals)
  BY <1>2, CallFromRustInv
<1>3. CASE Run
  <2>1. CASE Prologue
    BY <2>1, PrologueInv
  <2>2. CASE Execute
    BY <2>2, ExecuteInv
  <2>3. CASE Trap
    BY <2>3, StopInv DEF Trap, AtInstruction
  <2>4. CASE Jump
    BY <2>4, JumpInv
  <2>5. CASE Branch
    BY <2>5, BranchInv
  <2>6. CASE Invoke
    BY <2>6, InvokeInv
  <2>7. CASE Leave
    BY <2>7, LeaveInv
  <2>8. CASE Resume
    BY <2>8, ResumeInv
  <2>9. CASE Overrun
    BY <2>9, StopInv DEF Overrun, AtInstruction, AfterCall
  <2> QED  BY <1>3, <2>1, <2>2, <2>3, <2>4, <2>5, <2>6, <2>7, <2>8, <2>9 DEF Run
<1>4. CASE UNCHANGED vars
  <2>1. /\ TypeOK' = TypeOK /\ Accepted' = Accepted /\ Idle' = Idle
        /\ Nested' = Nested /\ Answered' = Answered /\ Stacked' = Stacked
    BY <1>4 DEF vars, TypeOK, Frame, Accepted, Idle, Nested, Answered, Stacked, Waits, Callee,
                BlockAt, Roots, Registered, Depth, Top, Code, Block
  <2> QED  BY <2>1 DEF Inv
<1> QED  BY <1>1, <1>2, <1>3, <1>4 DEF Next

-----------------------------------------------------------------------------
THEOREM Invariance == Spec => []Inv
<1>1. Init => Inv
  BY InitInv, ValuesAssumption, MachineAssumption
<1>2. Inv /\ [Next]_vars => Inv'
  BY NextInv, ValuesAssumption, MachineAssumption
<1> QED  BY <1>1, <1>2, PTL DEF Spec

(* No instruction of a compiled program uses an id that is out of range,   *)
(* whatever the text: what the parser looks up and the compiler checks     *)
(* (human_format.rs, cf_build.rs) is enough for all code that runs.        *)
THEOREM TypeCorrect == Spec => []TypeOK
<1>1. Inv => TypeOK
  BY DEF Inv
<1> QED  BY <1>1, Invariance, PTL

(* The runtime's stack lists the frames of the machine stack, each once    *)
(* with the gc slots of its function: push_stack_frame in the entry block  *)
(* and pop_stack_frame at every return (cf_build.rs) match on every path   *)
(* through every text that compiles.                                       *)
THEOREM RootsRegistered == Spec => []FramesRegistered
<1>1. Inv => FramesRegistered
  <2> SUFFICES ASSUME Inv
               PROVE  FramesRegistered
    OBVIOUS
  <2>1. Depth \in Nat
    BY LenProperties DEF Inv, TypeOK, Depth
  <2>2. Registered \in Nat
    BY <2>1 DEF Registered
  <2>3. rt_stack = [i \in 1..Registered |-> {<<i, l>> : l \in Roots(frames[i].fn)}]
    BY DEF Inv, Stacked
  <2>4. Len(rt_stack) = Registered
    BY <2>2, <2>3
  <2> QED  BY <2>3, <2>4 DEF FramesRegistered
<1> QED  BY <1>1, Invariance, PTL

(* A text is rejected only by one of the two panics. *)
Refused == phase = "rejected" => ~(NamesResolve(text) /\ Compiles(Functions(text)))

LEMMA RefusedStep ==
  ASSUME Inv, Refused, [Next]_vars
  PROVE  Refused'
<1>1. CASE parse_mir_program
  BY <1>1 DEF parse_mir_program, Refused
<1>2. CASE compile_program
  BY <1>2 DEF compile_program, Refused, Inv, Accepted
<1>3. CASE \E f \in DOMAIN program :
             \E actuals \in [DOMAIN program[f].args -> Actuals] : CallFromRust(f, actuals)
  BY <1>3 DEF CallFromRust, Refused
<1>4. CASE Run
  <2>1. phase = "running"
    BY <1>4 DEF Run, Prologue, Execute, Trap, Jump, Branch, Invoke, Leave, Resume, Overrun,
                AtInstruction, AtTerminator, AfterCall
  <2>2. phase' # "rejected"
    BY <1>4, <2>1 DEF Run, Prologue, Execute, Trap, Jump, Branch, Invoke, Leave, Resume, Overrun
  <2> QED  BY <2>2 DEF Refused
<1>5. CASE UNCHANGED vars
  BY <1>5 DEF vars, Refused
<1> QED  BY <1>1, <1>2, <1>3, <1>4, <1>5 DEF Next

(* parse_mir_program and compile_program together panic on exactly the     *)
(* texts whose names and types do not fit together, up to mixed types in   *)
(* stores, if no function has a local and a block of one name: all the     *)
(* checks they share out among them and Cranelift's verifier               *)
(* (human_format.rs, cf_build.rs) neither overlook a text nor refuse one   *)
(* that makes sense.                                                       *)
THEOREM AcceptsExactly == Spec => []AcceptsWellFormed
<1>1. Init => Refused
  BY DEF Init, Refused
<1>2. Inv /\ Refused /\ [Next]_vars => Refused'
  BY RefusedStep
<1>3. Inv /\ Refused => AcceptsWellFormed
  <2> SUFFICES ASSUME Inv, Refused
               PROVE  AcceptsWellFormed
    OBVIOUS
  <2>1. text \in Texts
    BY DEF Inv, TypeOK
  <2>2. Unambiguous(text) =>
          (NamesResolve(text) /\ Compiles(Functions(text)) <=> FitsTogether(text))
    BY <2>1, AcceptsFitting, ValuesAssumption, MachineAssumption
  <2>3. phase = "compiled" => NamesResolve(text) /\ Compiles(Functions(text))
    BY DEF Inv, Accepted
  <2> QED  BY <2>2, <2>3 DEF Refused, AcceptsWellFormed
<1> QED  BY <1>1, <1>2, <1>3, Invariance, PTL DEF Spec

-----------------------------------------------------------------------------
(* The slots of a function by the names of its locals.                     *)

Env(item, slots) == [n \in NamesIn(item.lets) |-> slots[LocalId(item, n)]]

(* Each name has a slot of its type, and no other name has it. *)
LEMMA LocalNamed ==
  ASSUME NEW item \in ItemForms, NEW n \in NamesIn(item.lets)
  PROVE  /\ LocalId(item, n) \in DOMAIN item.lets /\ LocalId(item, n) # 0
         /\ item.lets[LocalId(item, n)].name = n
         /\ item.lets[LocalId(item, n)].ty = LocalType(item, n)
         /\ LocalType(item, n) \in Type
<1>1. LocalId(item, n) # 0 => item.lets[LocalId(item, n)].name = n
  BY ItemParts, IdOfDeclaration DEF LocalId
<1>2. IsLocal(item, n, LocalType(item, n))
  BY DEF IsLocal
<1> QED  BY <1>1, <1>2, LocalFits

LEMMA OwnSlot ==
  ASSUME NEW item \in ItemForms, NEW n \in NamesIn(item.lets), NEW m,
         LocalId(item, m) = LocalId(item, n)
  PROVE  m = n
<1>1. LocalId(item, n) # 0 /\ item.lets[LocalId(item, n)].name = n
  BY LocalNamed
<1>2. m \in NamesIn(item.lets)
  BY <1>1, LocalFits
<1> QED  BY <1>1, <1>2, LocalNamed

Stores(item, slots, n, v) ==
  Env(item, [slots EXCEPT ![LocalId(item, n)] = v]) = [Env(item, slots) EXCEPT ![n] = v]

LEMMA EnvStored ==
  ASSUME NEW item \in ItemForms, NEW n \in NamesIn(item.lets),
         NEW slots \in [DOMAIN item.lets -> Int \cup {Undef}], NEW v
  PROVE  Stores(item, slots, n, v)
<1> DEFINE stored == [slots EXCEPT ![LocalId(item, n)] = v]
           id(m) == LocalId(item, m)
<1>1. \A m \in NamesIn(item.lets) : id(m) \in DOMAIN item.lets
  BY LocalNamed
<1>2. \A m \in NamesIn(item.lets) : m # n => id(m) # id(n)
  BY OwnSlot
<1>3. \A m \in NamesIn(item.lets) : stored[id(m)] = IF m = n THEN v ELSE slots[id(m)]
  BY <1>1, <1>2
<1> HIDE DEF id, stored
<1>4. /\ Env(item, stored) = [m \in NamesIn(item.lets) |-> stored[id(m)]]
      /\ Env(item, slots) = [m \in NamesIn(item.lets) |-> slots[id(m)]]
  BY DEF Env, id
<1>5. Env(item, stored) = [Env(item, slots) EXCEPT ![n] = v]
  BY <1>3, <1>4
<1> QED  BY <1>5 DEF Stores, stored

(* A function's own name, a block's own name. *)
LEMMA NamedFunction ==
  ASSUME ValuesAssumption, MachineAssumption, NEW items \in Texts, NEW f \in DOMAIN items
  PROVE  Named(items, items[f].name) = items[f]
<1>1. items \in Seq(ItemForms) /\ \A g, h \in DOMAIN items : items[g].name = items[h].name => g = h
  BY DEF MachineAssumption
<1>2. Range(items) = {items[i] : i \in DOMAIN items}
  BY DEF Range
<1>3. \A d \in Range(items) : d.name = items[f].name => d = items[f]
  BY <1>1, <1>2
<1>4. items[f] \in Range(items)
  BY <1>2
<1> QED  BY <1>3, <1>4 DEF Named

LEMMA NamedBlock ==
  ASSUME NEW item \in ItemForms, Distinct(item.blocks), NEW b \in DOMAIN item.blocks
  PROVE  Named(item.blocks, item.blocks[b].name) = item.blocks[b]
<1>1. Range(item.blocks) = {item.blocks[i] : i \in DOMAIN item.blocks}
  BY DEF Range
<1>2. \A d \in Range(item.blocks) : d.name = item.blocks[b].name => d = item.blocks[b]
  BY <1>1 DEF Distinct
<1>3. item.blocks[b] \in Range(item.blocks)
  BY <1>1
<1> QED  BY <1>2, <1>3 DEF Named

(* The meaning of a text reads it with the rules. *)
LEMMA SameRules ==
  /\ \A decls, n : Meant!Named(decls, n) = Named(decls, n)
  /\ \A decls : Meant!NamesIn(decls) = NamesIn(decls)
  /\ \A item, n : Meant!LocalType(item, n) = LocalType(item, n)
  /\ \A item, op : Meant!CallReading(item, op) = CallReading(item, op)
<1>1. \A s : Meant!Range(s) = Range(s)
  BY DEF Meant!Range, Range
<1>2. \A decls : Meant!NamesIn(decls) = NamesIn(decls)
  BY DEF Meant!NamesIn, NamesIn
<1>3. \A decls, n : Meant!Named(decls, n) = Named(decls, n)
  BY <1>1 DEF Meant!Named, Named
<1>4. \A item, n : Meant!LocalType(item, n) = LocalType(item, n)
  BY DEF Meant!LocalType, LocalType
<1>5. \A item, op : Meant!CallReading(item, op) = CallReading(item, op)
  BY DEF Meant!CallReading, CallReading, Meant!NamesIn, NamesIn
<1> QED  BY <1>2, <1>3, <1>4, <1>5

LEMMA SameValues ==
  /\ \A m, n : Meant!DivTraps(m, n) = DivTraps(m, n)
  /\ \A op, t, m, n : Meant!BinOp(op, t, m, n) = BinOp(op, t, m, n)
<1>1. \A m, n : Meant!DivTraps(m, n) = DivTraps(m, n)
  BY DEF Meant!DivTraps, DivTraps, Meant!IntMin, IntMin
<1>2. \A op, t, m, n : Meant!BinOp(op, t, m, n) = BinOp(op, t, m, n)
  BY DEF Meant!BinOp, BinOp, Meant!Arithmetic, Arithmetic, Meant!Comparisons, Comparisons,
         Meant!Compare, Compare, Meant!Wrap, Wrap, Meant!IntMin, IntMin,
         Meant!Quotient, Quotient, Meant!Magnitude, Magnitude
<1> QED  BY <1>1, <1>2

-----------------------------------------------------------------------------
(* The machine as the meaning sees it.                                     *)

View(fr) ==
  [fn    |-> text[fr.fn].name,
   block |-> text[fr.fn].blocks[fr.block].name,
   line  |-> IF fr.pc = 0 THEN 1 ELSE fr.pc,
   env   |-> Environment(fr)]

(* The item and the block on top. *)
TopItem == text[Top.fn]
Source  == TopItem.blocks[Top.block]

LEMMA Compiled ==
  ASSUME MachineAssumption, Inv, phase \in {"compiled", "running"}
  PROVE  /\ text \in Texts /\ text \in Seq(ItemForms)
         /\ program = Functions(text) /\ NamesResolve(text) /\ Compiles(Functions(text))
         /\ DOMAIN program = DOMAIN text
         /\ \A f \in DOMAIN text : text[f] \in ItemForms /\ Distinct(text[f].blocks)
<1>1. /\ text \in Texts /\ text \in Seq(ItemForms)
      /\ program = Functions(text) /\ NamesResolve(text) /\ Compiles(Functions(text))
  BY DEF Inv, TypeOK, Accepted, MachineAssumption
<1>2. DOMAIN program = DOMAIN text
  BY <1>1 DEF Functions
<1>3. \A f \in DOMAIN text : text[f] \in ItemForms /\ Distinct(text[f].blocks)
  BY <1>1, FuncParts, TakenName
<1> QED  BY <1>1, <1>2, <1>3

LEMMA TopSource ==
  ASSUME ValuesAssumption, MachineAssumption, Inv, phase = "running"
  PROVE  /\ Top.fn \in DOMAIN text /\ TopItem \in ItemForms
         /\ Top.block \in DOMAIN TopItem.blocks /\ Source \in BlockForms
         /\ Code = Functions(text)[Top.fn]
         /\ Block.ins_final = Terminator(text, TopItem, Source)
         /\ DOMAIN Block.instructions = DOMAIN Source.body
         /\ Len(Block.instructions) = Len(Source.body)
         /\ \A i \in DOMAIN Source.body :
              /\ Source.body[i] \in LineForms
              /\ Block.instructions[i] = Instruction(TopItem, Source.body[i])
         /\ Top.slots \in [DOMAIN TopItem.lets -> Int \cup {Undef}]
         /\ \A l \in DOMAIN TopItem.lets : Code.locals[l] = TopItem.lets[l].ty
<1>1. /\ text \in Texts /\ text \in Seq(ItemForms)
      /\ program = Functions(text) /\ NamesResolve(text) /\ Compiles(Functions(text))
      /\ DOMAIN program = DOMAIN text
      /\ \A f \in DOMAIN text : text[f] \in ItemForms /\ Distinct(text[f].blocks)
  BY Compiled
<1>2. /\ Top.fn \in DOMAIN text /\ Top.block \in DOMAIN Code.blocks
      /\ Top.slots \in [DOMAIN Code.locals -> Int \cup {Undef}]
      /\ Block = Code.blocks[Top.block] /\ Code = Functions(text)[Top.fn]
  BY <1>1, TopFrame
<1>3. /\ DOMAIN Code.locals = DOMAIN TopItem.lets /\ DOMAIN Code.blocks = DOMAIN TopItem.blocks
      /\ \A l \in DOMAIN TopItem.lets : Code.locals[l] = TopItem.lets[l].ty
  BY <1>1, <1>2, FuncParts DEF TopItem
<1>4. Source \in BlockForms /\ Source.body \in Seq(LineForms)
  BY <1>1, <1>2, <1>3, BlockParts DEF Source, TopItem
<1>5. /\ Block.ins_final = Terminator(text, TopItem, Source)
      /\ DOMAIN Block.instructions = DOMAIN Source.body
      /\ \A i \in DOMAIN Source.body : Block.instructions[i] = Instruction(TopItem, Source.body[i])
  BY <1>1, <1>2, <1>3, BlockTranslated DEF Source, TopItem
<1>6. /\ Len(Block.instructions) \in Nat
      /\ DOMAIN Block.instructions = 1..Len(Block.instructions)
  BY Running DEF BlockTyped
<1>7. /\ Len(Source.body) \in Nat /\ DOMAIN Source.body = 1..Len(Source.body)
      /\ \A i \in DOMAIN Source.body : Source.body[i] \in LineForms
  BY <1>4, LenProperties, ElementOfSeq
<1>8. Len(Block.instructions) = Len(Source.body)
  <2>1. PICK m \in Nat, n \in Nat : /\ m = Len(Block.instructions) /\ n = Len(Source.body)
                                   /\ 1..m = 1..n
    BY <1>5, <1>6, <1>7
  <2> QED  BY <2>1
<1> QED  BY <1>1, <1>2, <1>3, <1>4, <1>5, <1>7, <1>8 DEF TopItem

(* The activation that acts is the frame on top. *)
LEMMA ActingTop ==
  ASSUME ValuesAssumption, MachineAssumption, Inv, Sensible, phase = "running"
  PROVE  /\ Meant!Acting = {View(Top)}
         /\ Meant!ItemOf(View(Top)) = TopItem
         /\ Meant!BlockOf(View(Top)) = Source
         /\ Meant!Callers = [i \in 1..(Depth - 1) |-> View(frames[i])]
         /\ Activations = [i \in 1..Depth |-> View(frames[i])]
         /\ Len(Activations) = Depth
<1>1. Depth \in Nat \ {0} /\ DOMAIN frames = 1..Depth
  BY Running
<1>2. Activations = [i \in 1..Depth |-> View(frames[i])]
  BY <1>1 DEF Activations, View
<1>3. Len(Activations) = Depth /\ Activations[Depth] = View(Top)
  BY <1>1, <1>2 DEF Top
<1>4. Outcome = "running"
  BY DEF Outcome
<1>5. Meant!Acting = {View(Top)}
  BY <1>3, <1>4 DEF Meant!Acting
<1>6. Meant!Callers = SubSeq(Activations, 1, Depth - 1)
  BY <1>3 DEF Meant!Callers
<1>7. Meant!Callers = [i \in 1..(Depth - 1) |-> View(frames[i])]
  BY <1>1, <1>2, <1>6
<1>8. Named(text, TopItem.name) = TopItem
  BY TopSource, Compiled, NamedFunction DEF TopItem
<1>9. Named(TopItem.blocks, Source.name) = Source
  BY TopSource, Compiled, NamedBlock DEF TopItem, Source
<1>10. View(Top).fn = TopItem.name /\ View(Top).block = Source.name
  BY DEF View, TopItem, Source
<1>11. Meant!ItemOf(View(Top)) = TopItem
  BY <1>8, <1>10, SameRules DEF Meant!ItemOf
<1>12. Meant!BlockOf(View(Top)) = Source
  BY <1>9, <1>10, <1>11, SameRules DEF Meant!BlockOf
<1> QED  BY <1>2, <1>3, <1>5, <1>7, <1>11, <1>12

(* The activations with another frame on top. *)
LEMMA TopAppended ==
  ASSUME ValuesAssumption, MachineAssumption, Inv, Sensible, phase = "running", NEW fr
  PROVE  Meant!Callers \o <<View(fr)>>
           = [i \in 1..Depth |-> IF i = Depth THEN View(fr) ELSE View(frames[i])]
<1> DEFINE v(i) == View(frames[i])
           w    == View(fr)
<1>1. Depth \in Nat \ {0}
  BY Running
<1>2. Meant!Callers = [i \in 1..(Depth - 1) |-> v(i)]
  BY ActingTop
<1> HIDE DEF v, w
<1> DEFINE callers == [i \in 1..(Depth - 1) |-> v(i)]
           V       == {v(i) : i \in 1..(Depth - 1)} \cup {w}
<1>3. callers \in Seq(V) /\ w \in V
  BY <1>1, SeqDef
<1>4. callers \o <<w>> = Append(callers, w)
  <2> HIDE DEF callers, V
  <2> QED  BY <1>3, AppendIsConcat
<1>5. Append(callers, w) = [i \in 1..Depth |-> IF i = Depth THEN w ELSE v(i)]
  BY <1>1
<1> QED  BY <1>2, <1>4, <1>5 DEF v, w

(* Changing the frame on top changes the activation that acts. *)
LEMMA Updated ==
  ASSUME ValuesAssumption, MachineAssumption, Inv, Sensible, phase = "running",
         NEW fr, frames' = [frames EXCEPT ![Depth] = fr], text' = text
  PROVE  Meant!Update(View(fr))
<1>1. Depth \in Nat \ {0} /\ DOMAIN frames = 1..Depth
  BY Running
<1>2. /\ DOMAIN frames' = 1..Depth
      /\ \A i \in 1..Depth : frames'[i] = IF i = Depth THEN fr ELSE frames[i]
  BY <1>1
<1>3. Activations' = [i \in 1..Depth |-> View(frames'[i])]
  BY <1>2 DEF Activations, View, Environment
<1>4. Activations' = [i \in 1..Depth |-> IF i = Depth THEN View(fr) ELSE View(frames[i])]
  BY <1>2, <1>3
<1>5. Sensible' = Sensible
  BY DEF Sensible
<1> QED  BY <1>4, <1>5, TopAppended DEF Meant!Update

-----------------------------------------------------------------------------
(* Lines.                                                                  *)

LEMMA EnvOfFrame ==
  ASSUME NEW fr, fr.pc # 0
  PROVE  Environment(fr) = Env(text[fr.fn], fr.slots)
BY DEF Environment, Env

(* What a local of the function on top holds. *)
LEMMA LocalMeant ==
  ASSUME ValuesAssumption, MachineAssumption, Inv, phase = "running", Top.pc # 0,
         NEW n \in NamesIn(TopItem.lets)
  PROVE  View(Top).env[n] = Top.slots[LocalId(TopItem, n)]
BY EnvOfFrame DEF View, Env, TopItem

LEMMA OperandMeant ==
  ASSUME ValuesAssumption, MachineAssumption, Inv, phase = "running", Top.pc # 0,
         NEW o, o.kind = "place" => o.name \in NamesIn(TopItem.lets)
  PROVE  Value(Operand(TopItem, o)) = Meant!Meaning(View(Top), o)
<1>1. CASE o.kind = "place"
  BY <1>1, LocalMeant DEF Value, Operand, Meant!Meaning
<1>2. CASE o.kind # "place"
  BY <1>2 DEF Value, Operand, Meant!Meaning
<1> QED  BY <1>1, <1>2

(* What the rules ask of a text whose types agree. *)
LineTyped(item, line) == LineWellFormed(item, line, LAMBDA to, from : to = from)

EndTyped(items, item, block) == TerminatorWellFormed(items, item, block, LAMBDA to, from : to = from)

LEMMA TypedParts ==
  ASSUME NEW items, WellTyped(items), NEW f \in DOMAIN items, NEW b \in DOMAIN items[f].blocks
  PROVE  /\ EndTyped(items, items[f], items[f].blocks[b])
         /\ \A i \in DOMAIN items[f].blocks[b].body :
              LineTyped(items[f], items[f].blocks[b].body[i])
BY DEF WellTyped, WellFormed, LineTyped, EndTyped

(* In a text whose types agree every store is as wide as its slot, and     *)
(* arithmetic is at the width of i32.                                      *)
LEMMA LineTypes ==
  ASSUME ValuesAssumption, MachineAssumption, Inv, Sensible, phase = "running",
         NEW i \in DOMAIN Source.body
  PROVE  LET line == Source.body[i]
             ins  == Block.instructions[i]
         IN  /\ ins.place = LocalId(TopItem, line.place) /\ ins.op = line.op
             /\ line.place \in NamesIn(TopItem.lets)
             /\ ValueType(Code, ins) = Code.locals[ins.place] /\ Code.locals[ins.place] \in Type
             /\ DOMAIN ins.operands = DOMAIN line.operands
             /\ line.op \in {"alloc", "read"} \cup Comparisons \cup Arithmetic
             /\ line.op = "read" => DOMAIN line.operands = {1}
             /\ line.op \in Comparisons \cup Arithmetic => DOMAIN line.operands = {1, 2}
             /\ \A k \in DOMAIN line.operands :
                  /\ ins.operands[k] = Operand(TopItem, line.operands[k])
                  /\ line.operands[k].kind = "place" => line.operands[k].name \in NamesIn(TopItem.lets)
                  /\ line.op \in Arithmetic => OperandType(Code, ins.operands[k]) = "i32"
<1> DEFINE item == TopItem
           line == Source.body[i]
           ins  == Block.instructions[i]
           Place(ty) == IsLocal(item, line.place, ty)
           All(ty) == \A k \in DOMAIN line.operands : IsOperand(item, line.operands[k], ty)
           ty(k) == OperandType(Code, ins.operands[k])
<1>1. /\ Top.fn \in DOMAIN text /\ item \in ItemForms /\ Code = Functions(text)[Top.fn]
      /\ text \in Seq(ItemForms)
      /\ Top.block \in DOMAIN item.blocks /\ line \in LineForms /\ ins = Instruction(item, line)
      /\ \A l \in DOMAIN item.lets : Code.locals[l] = item.lets[l].ty
  BY TopSource, Compiled
<1>2. LineTyped(item, line)
  BY <1>1, TypedParts DEF Sensible, SensibleTexts, TopItem, Source
<1>3. /\ ins.place = LocalId(item, line.place)
      /\ ins.op = line.op
      /\ line.op \in {"alloc", "read"} \cup Comparisons \cup Arithmetic
      /\ DOMAIN ins.operands = DOMAIN line.operands
      /\ line.op = "alloc" => DOMAIN line.operands = {}
      /\ line.op = "read" => DOMAIN line.operands = {1}
      /\ line.op \in Comparisons \cup Arithmetic => DOMAIN line.operands = {1, 2}
      /\ \A k \in DOMAIN line.operands :
           line.operands[k] \in OperandForms /\ ins.operands[k] = Operand(item, line.operands[k])
  BY <1>1, InstructionParts
<1>4. \A t : Place(t) => /\ line.place \in NamesIn(item.lets)
                         /\ Code.locals[ins.place] = t
  BY <1>1, <1>3, LocalFits
<1>5. \A k \in DOMAIN line.operands : \A t :
        IsOperand(item, line.operands[k], t) => ty(k) = t
  BY <1>1, <1>3, OperandFits DEF TopItem
<1>6. \A t : All(t) => \A k \in DOMAIN line.operands :
        /\ ty(k) = t
        /\ line.operands[k].kind = "place" => line.operands[k].name \in NamesIn(item.lets)
  BY <1>5 DEF IsOperand, IsLocal
<1>7. /\ line.op = "alloc" => Place("gc")
      /\ line.op = "read" => \E to \in Type : Place(to) /\ All(to)
      /\ line.op = "eq" => Place("bool") /\ (All("i32") \/ All("bool"))
      /\ line.op \in {"le", "lt"} => Place("bool") /\ All("i32")
      /\ line.op \in Arithmetic => Place("i32") /\ All("i32")
  <2> DEFINE W == LineTyped(item, line)
  <2>1. line.op = "alloc" => (W <=> Place("gc"))
    BY DEF LineTyped, LineWellFormed, Arithmetic
  <2>2. line.op = "read" => (W <=> \E to, from \in Type : Place(to) /\ All(from) /\ to = from)
    BY DEF LineTyped, LineWellFormed, Arithmetic
  <2>3. line.op = "eq" => (W <=> Place("bool") /\ (All("i32") \/ All("bool")))
    BY DEF LineTyped, LineWellFormed, Arithmetic
  <2>4. line.op \in {"le", "lt"} => (W <=> Place("bool") /\ All("i32"))
    BY DEF LineTyped, LineWellFormed, Arithmetic
  <2>5. line.op \in Arithmetic =>
          (W <=> Place("i32") /\ \E t \in Type : All(t) /\ "i32" = t)
    BY DEF LineTyped, LineWellFormed, Arithmetic
  <2> HIDE DEF Place, All
  <2> QED  BY <1>2, <2>1, <2>2, <2>3, <2>4, <2>5
<1>8. ValueType(Code, ins) =
        CASE line.op = "alloc" -> "gc"
          [] line.op = "read"  -> ty(1)
          [] OTHER -> BinOpResult(line.op, ty(1))
  BY <1>3 DEF ValueType
<1> HIDE DEF item, line, ins, Place, All, ty
<1>9. /\ line.place \in NamesIn(item.lets)
      /\ ValueType(Code, ins) = Code.locals[ins.place] /\ Code.locals[ins.place] \in Type
      /\ \A k \in DOMAIN line.operands :
           /\ line.operands[k].kind = "place" => line.operands[k].name \in NamesIn(item.lets)
           /\ line.op \in Arithmetic => ty(k) = "i32"
  <2>1. CASE line.op = "alloc"
    BY <1>3, <1>4, <1>7, <1>8, <2>1 DEF Type, Arithmetic
  <2>2. CASE line.op = "read"
    BY <1>3, <1>4, <1>6, <1>7, <1>8, <2>2 DEF Type, Arithmetic
  <2>3. CASE line.op \in Comparisons
    BY <1>3, <1>4, <1>6, <1>7, <1>8, <2>3 DEF Type, Arithmetic, Comparisons, BinOpResult
  <2>4. CASE line.op \in Arithmetic
    BY <1>3, <1>4, <1>6, <1>7, <1>8, <2>4 DEF Type, Arithmetic, Comparisons, BinOpResult
  <2> QED  BY <1>3, <2>1, <2>2, <2>3, <2>4
<1> QED  BY <1>3, <1>9 DEF item, line, ins, ty

LEMMA EvaluateMeant ==
  ASSUME ValuesAssumption, MachineAssumption, Inv, Sensible, phase = "running",
         NEW i \in DOMAIN Source.body, Top.pc # 0
  PROVE  LET line == Source.body[i]
             ins  == Block.instructions[i]
         IN  /\ Evaluate(ins) = Meant!MeaningOf(View(Top), line)
             /\ \A k \in DOMAIN line.operands :
                  Value(ins.operands[k]) = Meant!Meaning(View(Top), line.operands[k])
<1> DEFINE line == Source.body[i]
           ins  == Block.instructions[i]
           m(k) == Meant!Meaning(View(Top), line.operands[k])
<1>1. /\ ins.op = line.op
      /\ line.op \in {"alloc", "read"} \cup Comparisons \cup Arithmetic
      /\ line.op = "read" => DOMAIN line.operands = {1}
      /\ line.op \in Comparisons \cup Arithmetic => DOMAIN line.operands = {1, 2}
      /\ \A k \in DOMAIN line.operands :
           /\ ins.operands[k] = Operand(TopItem, line.operands[k])
           /\ line.operands[k].kind = "place" => line.operands[k].name \in NamesIn(TopItem.lets)
           /\ line.op \in Arithmetic => OperandType(Code, ins.operands[k]) = "i32"
  BY LineTypes
<1>2. \A k \in DOMAIN line.operands : Value(ins.operands[k]) = m(k)
  BY <1>1, OperandMeant
<1>3. Evaluate(ins) =
        CASE line.op = "alloc" -> 1
          [] line.op = "read"  -> Value(ins.operands[1])
          [] OTHER -> BinOp(line.op, OperandType(Code, ins.operands[1]),
                            Value(ins.operands[1]), Value(ins.operands[2]))
  BY <1>1 DEF Evaluate
<1>4. Meant!MeaningOf(View(Top), line) =
        CASE line.op = "alloc" -> 1
          [] line.op = "read"  -> m(1)
          [] OTHER -> BinOp(line.op, "i32", m(1), m(2))
  BY SameValues DEF Meant!MeaningOf
<1>5. \A op \in Comparisons : \A t, v, w : BinOp(op, t, v, w) = BinOp(op, "i32", v, w)
  BY DEF BinOp, Comparisons, Arithmetic
<1> HIDE DEF line, ins, m
<1>6. CASE line.op \in {"alloc", "read"}
  BY <1>1, <1>2, <1>3, <1>4, <1>6 DEF line, ins, m
<1>7. CASE line.op \in Comparisons
  BY <1>1, <1>2, <1>3, <1>4, <1>5, <1>7 DEF Comparisons, line, ins, m
<1>8. CASE line.op \in Arithmetic
  BY <1>1, <1>2, <1>3, <1>4, <1>8 DEF Arithmetic, line, ins, m
<1> QED  BY <1>1, <1>6, <1>7, <1>8 DEF line, ins

LEMMA TopStored ==
  ASSUME ValuesAssumption, MachineAssumption, Inv, phase = "running",
         NEW n \in NamesIn(TopItem.lets), NEW v
  PROVE  Env(TopItem, [Top.slots EXCEPT ![LocalId(TopItem, n)] = v])
           = [Env(TopItem, Top.slots) EXCEPT ![n] = v]
<1>1. Stores(TopItem, Top.slots, n, v)
  BY TopSource, EnvStored
<1> QED  BY <1>1 DEF Stores

(* An activation from its parts, and its changes. *)
ActOf(fn, block, line, env) == [fn |-> fn, block |-> block, line |-> line, env |-> env]

Advance(act)         == [act EXCEPT !.line = @ + 1]
Bind(act, n, v)      == [act EXCEPT !.env[n] = v]
AdvanceBind(act, n, v) == [act EXCEPT !.line = @ + 1, !.env[n] = v]

LEMMA ActParts ==
  ASSUME NEW fn, NEW block, NEW line, NEW env
  PROVE  LET act == ActOf(fn, block, line, env)
         IN  act.fn = fn /\ act.block = block /\ act.line = line /\ act.env = env
BY DEF ActOf

ActChange(act, fn, block, line, env) ==
  /\ Advance(act) = ActOf(fn, block, line + 1, env)
  /\ \A n, v : Bind(act, n, v) = ActOf(fn, block, line, [env EXCEPT ![n] = v])
  /\ \A n, v : AdvanceBind(act, n, v) = ActOf(fn, block, line + 1, [env EXCEPT ![n] = v])
  /\ \A next : Meant!At(act, next) = ActOf(fn, next, 1, env)

LEMMA ActChanges ==
  ASSUME NEW fn, NEW block, NEW line, NEW env
  PROVE  ActChange(ActOf(fn, block, line, env), fn, block, line, env)
<1> DEFINE act == ActOf(fn, block, line, env)
           fields == {"fn", "block", "line", "env"}
<1>1. DOMAIN act = fields /\ act.fn = fn /\ act.block = block /\ act.line = line /\ act.env = env
  BY DEF ActOf
<1>2. Advance(act) = ActOf(fn, block, line + 1, env)
  BY DEF Advance, ActOf
<1>3. ASSUME NEW n, NEW v
      PROVE  Bind(act, n, v) = ActOf(fn, block, line, [env EXCEPT ![n] = v])
  BY DEF Bind, ActOf
<1> HIDE DEF act
<1>4. ASSUME NEW n, NEW v
      PROVE  AdvanceBind(act, n, v) = ActOf(fn, block, line + 1, [env EXCEPT ![n] = v])
  <2> DEFINE x == line + 1
             y == [env EXCEPT ![n] = v]
             p == [act EXCEPT !.line = x, !.env = y]
  <2>1. AdvanceBind(act, n, v) = p
    BY <1>1 DEF AdvanceBind
  <2> HIDE DEF x, y
  <2>2. /\ p = [i \in fields |-> p[i]]
        /\ p.fn = fn /\ p.block = block /\ p.line = x /\ p.env = y
    BY <1>1
  <2> HIDE DEF p
  <2>3. p = ActOf(fn, block, x, y)
    BY <2>2 DEF ActOf
  <2> QED  BY <2>1, <2>3 DEF x, y
<1>5. ASSUME NEW next
      PROVE  Meant!At(act, next) = ActOf(fn, next, 1, env)
  <2> DEFINE p == [act EXCEPT !.block = next, !.line = 1]
  <2>1. /\ p = [i \in fields |-> p[i]]
        /\ p.fn = fn /\ p.block = next /\ p.line = 1 /\ p.env = env
    BY <1>1
  <2> HIDE DEF p
  <2>2. p = ActOf(fn, next, 1, env)
    BY <2>1 DEF ActOf
  <2> QED  BY <2>2 DEF Meant!At, p
<1> QED  BY <1>2, <1>3, <1>4, <1>5 DEF act, ActChange

LEMMA ViewOf ==
  ASSUME NEW b, NEW pc, pc # 0, NEW slots
  PROVE  View([fn |-> Top.fn, block |-> b, pc |-> pc, slots |-> slots])
           = ActOf(TopItem.name, TopItem.blocks[b].name, pc, Env(TopItem, slots))
<1> DEFINE fr == [fn |-> Top.fn, block |-> b, pc |-> pc, slots |-> slots]
<1>1. fr.fn = Top.fn /\ fr.block = b /\ fr.pc = pc /\ fr.slots = slots
  OBVIOUS
<1> HIDE DEF fr
<1>2. View(fr) = ActOf(TopItem.name, TopItem.blocks[b].name, pc, Env(TopItem, slots))
  BY <1>1, EnvOfFrame DEF View, TopItem, ActOf
<1> QED  BY <1>2 DEF fr

LEMMA ViewTop ==
  ASSUME ValuesAssumption, MachineAssumption, Inv, phase = "running", Top.pc # 0
  PROVE  View(Top) = ActOf(TopItem.name, Source.name, Top.pc, Env(TopItem, Top.slots))
BY TopFrame, ViewOf DEF Source

(* A step inside the function on top. *)
LEMMA Moved ==
  ASSUME ValuesAssumption, MachineAssumption, Inv, Sensible, phase = "running",
         NEW b, NEW pc, pc # 0, NEW slots, SetTop(b, pc, slots), text' = text
  PROVE  Meant!Update(ActOf(TopItem.name, TopItem.blocks[b].name, pc, Env(TopItem, slots)))
<1> DEFINE fr == [fn |-> Top.fn, block |-> b, pc |-> pc, slots |-> slots]
<1>1. frames' = [frames EXCEPT ![Depth] = fr]
  BY DEF SetTop
<1> HIDE DEF fr
<1>2. Meant!Update(View(fr))
  BY <1>1, Updated
<1> QED  BY <1>2, ViewOf DEF fr

(* While the code runs and where it stops. *)
LEMMA StillRunning ==
  ASSUME Sensible, text' = text
  PROVE  /\ phase = "running" => Outcome = "running"
         /\ phase' = "running" => Outcome' = "running"
         /\ phase' = "returned" => Outcome' = "returned"
         /\ phase' = "trapped" => Outcome' = "trapped"
         /\ Sensible'
BY DEF Outcome, Sensible

LEMMA ExecuteRefines ==
  ASSUME ValuesAssumption, MachineAssumption, Inv, Sensible, Execute
  PROVE  Meant!Line(View(Top))
<1> DEFINE i    == Top.pc
           line == Source.body[i]
           ins  == Block.instructions[i]
           act  == View(Top)
           m    == Meant!MeaningOf(act, line)
<1>1. /\ phase = "running" /\ i \in DOMAIN Block.instructions /\ ~Traps(ins)
      /\ UNCHANGED <<text, program, phase, rt_stack, ret>>
      /\ SetTop(Top.block, i + 1,
                [Top.slots EXCEPT
                   ![ins.place] = StoredIn(Code.locals[ins.place], ValueType(Code, ins), Evaluate(ins))])
  BY DEF Execute, AtInstruction
<1>2. i \in DOMAIN Source.body /\ i \in Nat /\ i # 0 /\ i + 1 # 0
  <2>1. i \in 1..Len(Block.instructions) /\ Len(Block.instructions) \in Nat
    BY <1>1, Running DEF BlockTyped
  <2> QED  BY <1>1, <2>1, TopSource
<1>3. /\ ins.place = LocalId(TopItem, line.place) /\ ins.op = line.op
      /\ line.place \in NamesIn(TopItem.lets)
      /\ ValueType(Code, ins) = Code.locals[ins.place]
      /\ line.op = "div" => DOMAIN line.operands = {1, 2}
  BY <1>1, <1>2, LineTypes DEF Arithmetic
<1>4. /\ Evaluate(ins) = m
      /\ \A k \in DOMAIN line.operands :
           Value(ins.operands[k]) = Meant!Meaning(act, line.operands[k])
  BY <1>1, <1>2, EvaluateMeant
<1>5. SetTop(Top.block, i + 1, [Top.slots EXCEPT ![LocalId(TopItem, line.place)] = m])
  BY <1>1, <1>3, <1>4 DEF StoredIn
<1>6. Env(TopItem, [Top.slots EXCEPT ![LocalId(TopItem, line.place)] = m])
        = [Env(TopItem, Top.slots) EXCEPT ![line.place] = m]
  <2> HIDE DEF m, line
  <2> QED  BY <1>1, <1>3, TopStored
<1>7. act = ActOf(TopItem.name, Source.name, i, Env(TopItem, Top.slots))
  BY <1>1, <1>2, ViewTop
<1>8. Meant!Update(AdvanceBind(act, line.place, m))
  <2>1. Meant!Update(ActOf(TopItem.name, Source.name, i + 1,
                           [Env(TopItem, Top.slots) EXCEPT ![line.place] = m]))
    <3> HIDE DEF m, line, i
    <3> QED  BY <1>1, <1>2, <1>5, <1>6, Moved DEF Source
  <2>2. AdvanceBind(act, line.place, m)
          = ActOf(TopItem.name, Source.name, i + 1, [Env(TopItem, Top.slots) EXCEPT ![line.place] = m])
    <3>1. ActChange(act, TopItem.name, Source.name, i, Env(TopItem, Top.slots))
      BY <1>7, ActChanges
    <3> HIDE DEF m, line, i, act
    <3> QED  BY <3>1 DEF ActChange
  <2> QED  BY <2>1, <2>2
<1>9. line.op = "div" =>
        ~DivTraps(Meant!Meaning(act, line.operands[1]), Meant!Meaning(act, line.operands[2]))
  <2> SUFFICES ASSUME line.op = "div"
               PROVE  ~DivTraps(Meant!Meaning(act, line.operands[1]), Meant!Meaning(act, line.operands[2]))
    OBVIOUS
  <2>1. ins.op = "div" /\ 1 \in DOMAIN line.operands /\ 2 \in DOMAIN line.operands
    BY <1>3
  <2>2. ~DivTraps(Value(ins.operands[1]), Value(ins.operands[2]))
    BY <1>1, <2>1 DEF Traps
  <2>3. /\ Value(ins.operands[1]) = Meant!Meaning(act, line.operands[1])
        /\ Value(ins.operands[2]) = Meant!Meaning(act, line.operands[2])
    <3> HIDE DEF ins, line, act
    <3> QED  BY <1>4, <2>1
  <2> QED  BY <2>2, <2>3
<1>10. Meant!BlockOf(act) = Source /\ act.line = i
  BY <1>1, <1>7, ActingTop, ActParts
<1>11. Outcome' = Outcome /\ Sensible' = Sensible
  BY <1>1 DEF Outcome, Sensible
<1> HIDE DEF i, ins, act, m
<1>12. /\ act.line \in DOMAIN Source.body
       /\ Source.body[act.line].op = "div" =>
            ~DivTraps(Meant!Meaning(act, Source.body[act.line].operands[1]),
                      Meant!Meaning(act, Source.body[act.line].operands[2]))
       /\ Meant!Update([act EXCEPT !.line = @ + 1,
                                   !.env[Source.body[act.line].place]
                                      = Meant!MeaningOf(act, Source.body[act.line])])
  BY <1>2, <1>8, <1>9, <1>10 DEF m, AdvanceBind
<1> QED  BY <1>1, <1>10, <1>11, <1>12, SameValues DEF Meant!Line, act

LEMMA TrapRefines ==
  ASSUME ValuesAssumption, MachineAssumption, Inv, Sensible, Trap
  PROVE  Meant!DivisionTraps(View(Top))
<1> DEFINE i    == Top.pc
           line == Source.body[i]
           ins  == Block.instructions[i]
           act  == View(Top)
<1>1. /\ phase = "running" /\ i \in DOMAIN Block.instructions /\ MayTrap(ins)
      /\ UNCHANGED <<text, program, frames, rt_stack, ret>> /\ phase' = "trapped"
  BY DEF Trap, AtInstruction
<1>2. i \in DOMAIN Source.body /\ i \in Nat /\ i # 0
  <2>1. i \in 1..Len(Block.instructions) /\ Len(Block.instructions) \in Nat
    BY <1>1, Running DEF BlockTyped
  <2> QED  BY <1>1, <2>1, TopSource
<1>3. /\ ins.op = line.op
      /\ line.op \in Arithmetic =>
           /\ DOMAIN line.operands = {1, 2}
           /\ \A k \in {1, 2} : OperandType(Code, ins.operands[k]) = "i32"
  BY <1>1, <1>2, LineTypes
<1>4. \A k \in DOMAIN line.operands :
        Value(ins.operands[k]) = Meant!Meaning(act, line.operands[k])
  BY <1>1, <1>2, EvaluateMeant
<1>5. act.line = i /\ Meant!BlockOf(act) = Source
  BY <1>1, <1>2, ViewTop, ActingTop, ActParts
<1>6. Activations' = Activations /\ Outcome' = "trapped" /\ Sensible' = Sensible
  BY <1>1 DEF Activations, Environment, Outcome, Sensible
<1> HIDE DEF i, ins, act, line
<1>7. /\ line.op = "div"
      /\ \/ Undef \in {Meant!Meaning(act, line.operands[1]), Meant!Meaning(act, line.operands[2])}
         \/ DivTraps(Meant!Meaning(act, line.operands[1]), Meant!Meaning(act, line.operands[2]))
  BY <1>1, <1>3, <1>4 DEF MayTrap, Traps, Arithmetic
<1> QED  BY <1>1, <1>2, <1>5, <1>6, <1>7, SameValues DEF Meant!DivisionTraps, act, line

-----------------------------------------------------------------------------
(* Terminators.                                                            *)

(* The source of the terminator on top. *)
LEMMA EndSource ==
  ASSUME ValuesAssumption, MachineAssumption, Inv, phase = "running"
  PROVE  LET op   == Source.operands
             kind == Block.ins_final.kind
         IN  /\ op \in Seq(STRING) /\ Source.ins \in {"br", "brif", "call", "return"}
             /\ Block.ins_final =
                  CASE Source.ins = "br"     -> Br(BlockId(TopItem, Nth(op, 1)))
                    [] Source.ins = "brif"   -> BrIf(TopItem, op)
                    [] Source.ins = "call"   -> Call(text, TopItem, op)
                    [] Source.ins = "return" -> Return(TopItem, op)
             /\ kind = "Br"     <=> Source.ins = "br"
             /\ kind = "BrIf"   <=> Source.ins = "brif"
             /\ kind = "Call"   <=> Source.ins = "call"
             /\ kind = "Return" <=> Source.ins = "return"
<1>1. Source.operands \in Seq(STRING) /\ Source.ins \in {"br", "brif", "call", "return"}
  BY TopSource DEF BlockForms
<1>2. Block.ins_final = Terminator(text, TopItem, Source)
  BY TopSource
<1>3. \A n : Br(n).kind = "Br"
  BY DEF Br
<1>4. BrIf(TopItem, Source.operands).kind = "BrIf"
  BY DEF BrIf
<1>5. Call(text, TopItem, Source.operands).kind = "Call"
  BY DEF Call
<1>6. Return(TopItem, Source.operands).kind = "Return"
  BY DEF Return
<1> QED  BY <1>1, <1>2, <1>3, <1>4, <1>5, <1>6 DEF Terminator

LEMMA EndReached ==
  ASSUME ValuesAssumption, MachineAssumption, Inv, Sensible, NEW kind, AtTerminator(kind)
  PROVE  /\ phase = "running" /\ Block.ins_final.kind = kind
         /\ Top.pc \in Nat /\ Top.pc # 0
         /\ Meant!AtEnd(View(Top), Source.ins)
         /\ EndTyped(text, TopItem, Source)
<1>1. phase = "running" /\ Top.pc = Len(Block.instructions) + 1 /\ Block.ins_final.kind = kind
  BY DEF AtTerminator
<1>2. Len(Block.instructions) \in Nat
  BY <1>1, Running DEF BlockTyped
<1>3. Top.pc \in Nat /\ Top.pc # 0
  BY <1>1, <1>2
<1>4. View(Top).line = Top.pc /\ Meant!BlockOf(View(Top)) = Source
  BY <1>1, <1>3, ViewTop, ActingTop, ActParts
<1>5. Meant!AtEnd(View(Top), Source.ins)
  BY <1>1, <1>4, TopSource DEF Meant!AtEnd
<1>6. EndTyped(text, TopItem, Source)
  BY <1>1, TopSource, Compiled, TypedParts DEF Sensible, SensibleTexts, TopItem, Source
<1> QED  BY <1>1, <1>3, <1>5, <1>6

(* A jump to a block of a name. *)
LEMMA BlockNamed ==
  ASSUME NEW item \in ItemForms, NEW n \in NamesIn(item.blocks)
  PROVE  item.blocks[BlockId(item, n)].name = n
BY ItemParts, IdOfDeclaration DEF BlockId, NamesIn

LEMMA Entered ==
  ASSUME ValuesAssumption, MachineAssumption, Inv, Sensible, phase = "running",
         NEW n \in NamesIn(TopItem.blocks), NEW slots, GoTo(BlockId(TopItem, n), slots), text' = text
  PROVE  Meant!Update(ActOf(TopItem.name, n, 1, Env(TopItem, slots)))
<1>1. TopItem.blocks[BlockId(TopItem, n)].name = n
  BY TopSource, BlockNamed
<1>2. SetTop(BlockId(TopItem, n), 1, slots)
  BY DEF GoTo, StartOf
<1>3. Meant!Update(ActOf(TopItem.name, TopItem.blocks[BlockId(TopItem, n)].name, 1, Env(TopItem, slots)))
  BY <1>2, Moved
<1> QED  BY <1>1, <1>3

(* The same from the activation that acts. *)
LEMMA EnteredAt ==
  ASSUME ValuesAssumption, MachineAssumption, Inv, Sensible, phase = "running", Top.pc # 0,
         NEW n \in NamesIn(TopItem.blocks), GoTo(BlockId(TopItem, n), Top.slots), text' = text
  PROVE  Meant!Update(Meant!At(View(Top), n))
<1>1. ActChange(View(Top), TopItem.name, Source.name, Top.pc, Env(TopItem, Top.slots))
  BY ViewTop, ActChanges
<1>2. Meant!At(View(Top), n) = ActOf(TopItem.name, n, 1, Env(TopItem, Top.slots))
  BY <1>1 DEF ActChange
<1> QED  BY <1>2, Entered

LEMMA JumpRefines ==
  ASSUME ValuesAssumption, MachineAssumption, Inv, Sensible, Jump
  PROVE  Meant!GoOn(View(Top))
<1> DEFINE op == Source.operands
<1>1. /\ AtTerminator("Br") /\ GoTo(Block.ins_final.next, Top.slots)
      /\ UNCHANGED <<text, program, phase, rt_stack, ret>>
  BY DEF Jump
<1>2. /\ phase = "running" /\ Top.pc # 0 /\ Meant!AtEnd(View(Top), Source.ins)
      /\ EndTyped(text, TopItem, Source) /\ Block.ins_final.kind = "Br"
  BY <1>1, EndReached
<1>3. /\ op \in Seq(STRING) /\ Source.ins = "br"
      /\ Block.ins_final.next = BlockId(TopItem, Nth(op, 1))
  BY <1>2, EndSource DEF Br
<1>4. op # << >> /\ op[1] \in NamesIn(TopItem.blocks)
  BY <1>2, <1>3 DEF EndTyped, TerminatorWellFormed, IsTarget
<1>5. Nth(op, 1) = op[1]
  BY <1>3, <1>4, NthName, EmptySeq
<1>6. Meant!Update(Meant!At(View(Top), op[1]))
  BY <1>1, <1>2, <1>3, <1>4, <1>5, EnteredAt
<1>7. Meant!BlockOf(View(Top)) = Source
  BY <1>2, ActingTop
<1>8. Outcome' = Outcome /\ Sensible' = Sensible
  BY <1>1 DEF Outcome, Sensible
<1> QED  BY <1>1, <1>2, <1>3, <1>6, <1>7, <1>8 DEF Meant!GoOn

LEMMA BranchRefines ==
  ASSUME ValuesAssumption, MachineAssumption, Inv, Sensible, Branch
  PROVE  Meant!Decide(View(Top))
<1> DEFINE op   == Source.operands
           term == Block.ins_final
           v    == Top.slots[term.cond]
<1>1. PICK b \in Taken(term, v) :
        /\ AtTerminator("BrIf") /\ GoTo(b, Top.slots)
        /\ UNCHANGED <<text, program, phase, rt_stack, ret>>
  BY DEF Branch
<1>2. /\ phase = "running" /\ Top.pc # 0 /\ Meant!AtEnd(View(Top), Source.ins)
      /\ EndTyped(text, TopItem, Source) /\ term.kind = "BrIf"
  BY <1>1, EndReached
<1>3. op \in Seq(STRING) /\ Source.ins = "brif" /\ term = BrIf(TopItem, op)
  BY <1>2, EndSource
<1>4. /\ Len(op) >= 3 /\ op[1] \in NamesIn(TopItem.lets)
      /\ op[2] \in NamesIn(TopItem.blocks) /\ op[3] \in NamesIn(TopItem.blocks)
  BY <1>2, <1>3 DEF EndTyped, TerminatorWellFormed, IsTarget, IsLocal
<1>5. Nth(op, 1) = op[1] /\ Nth(op, 2) = op[2] /\ Nth(op, 3) = op[3]
  BY <1>3, <1>4, NthName
<1>6. /\ term.cond = LocalId(TopItem, op[1])
      /\ term.is_true = BlockId(TopItem, op[2]) /\ term.is_false = BlockId(TopItem, op[3])
  BY <1>3, <1>5 DEF BrIf
<1>7. View(Top).env[op[1]] = v
  BY <1>2, <1>4, <1>6, LocalMeant
<1>8. \/ v # 0 /\ b = BlockId(TopItem, op[2])
      \/ v \in {0, Undef} /\ b = BlockId(TopItem, op[3])
  BY <1>6 DEF Taken
<1>9. \/ v # 0 /\ Meant!Update(Meant!At(View(Top), op[2]))
      \/ v \in {0, Undef} /\ Meant!Update(Meant!At(View(Top), op[3]))
  <2> HIDE DEF v
  <2>1. CASE v # 0 /\ b = BlockId(TopItem, op[2])
    BY <1>1, <1>2, <1>4, <2>1, EnteredAt
  <2>2. CASE v \in {0, Undef} /\ b = BlockId(TopItem, op[3])
    BY <1>1, <1>2, <1>4, <2>2, EnteredAt
  <2> QED  BY <1>8, <2>1, <2>2
<1>10. Meant!BlockOf(View(Top)) = Source
  BY <1>2, ActingTop
<1>11. Outcome' = Outcome /\ Sensible' = Sensible
  BY <1>1 DEF Outcome, Sensible
<1> HIDE DEF v
<1> QED  BY <1>1, <1>2, <1>3, <1>7, <1>9, <1>10, <1>11 DEF Meant!Decide

-----------------------------------------------------------------------------
(* Calls.                                                                  *)

(* What the parser makes of a call's operands is what the rules read. *)
LEMMA CallSource ==
  ASSUME ValuesAssumption, MachineAssumption, Inv, Sensible, phase = "running", Source.ins = "call"
  PROVE  LET op      == Source.operands
             term    == Block.ins_final
             reading == CallReading(TopItem, op)
         IN  /\ term.func \in DOMAIN text /\ Named(text, op[1]) = text[term.func]
             /\ reading.next \in NamesIn(TopItem.blocks)
             /\ term.next = BlockId(TopItem, reading.next)
             /\ DOMAIN reading.args = DOMAIN term.args
             /\ \A i \in DOMAIN term.args : /\ reading.args[i] \in NamesIn(TopItem.lets)
                                            /\ term.args[i] = LocalId(TopItem, reading.args[i])
             /\ reading.store = << >> <=> term.store_ret = None
             /\ reading.store # << >> =>
                  /\ reading.store[1] \in NamesIn(TopItem.lets)
                  /\ term.store_ret = LocalId(TopItem, reading.store[1])
                  /\ Code.locals[term.store_ret] = program[term.func].return_type
                  /\ Code.locals[term.store_ret] \in Type
<1> DEFINE op      == Source.operands
           term    == Block.ins_final
           item    == TopItem
           reading == CallReading(item, op)
           k       == NextAt(item, op)
<1>1. /\ text \in Texts /\ text \in Seq(ItemForms) /\ program = Functions(text) /\ NamesResolve(text)
      /\ Top.fn \in DOMAIN text /\ item \in ItemForms /\ item.blocks # << >>
      /\ Top.block \in DOMAIN item.blocks
      /\ Code = Functions(text)[Top.fn]
      /\ \A l \in DOMAIN item.lets : Code.locals[l] = item.lets[l].ty
  BY TopSource, Compiled DEF MachineAssumption, TopItem
<1>2. op \in Seq(STRING) /\ term = Call(text, item, op)
  BY EndSource
<1>3. Resolved(Call(text, item, op))
  <2>1. Resolved(Terminator(text, text[Top.fn], text[Top.fn].blocks[Top.block]))
    BY <1>1 DEF NamesResolve, TopItem
  <2> QED  BY <1>2, <2>1, TopSource DEF TopItem, Source
<1>4. /\ k <= Len(op) /\ op[k] \in NamesIn(item.blocks) /\ FuncId(text, op[1]) # 0
  BY <1>1, <1>2, <1>3, GoodSplit
<1>5. /\ term.next = BlockId(item, op[k])
      /\ term.args = [i \in 1..(Len(op) - k) |-> LocalId(item, op[k + i])]
  <2> HIDE DEF item, op, term, k
  <2> QED  BY <1>1, <1>2, <1>4, CallAt DEF k
<1>6. k \in {2, 3} /\ (k = 2 <=> term.store_ret = None)
  BY <1>2 DEF NextAt, Call
<1>7. /\ term.store_ret # None => /\ op[2] \in NamesIn(item.lets)
                                  /\ term.store_ret = LocalId(item, op[2])
  BY <1>1, <1>2, StoreFits DEF Call
<1>8. Len(op) \in Nat
  BY <1>2, LenProperties
<1>9. NamesIn(item.lets) \cap NamesIn(item.blocks) = {}
  BY <1>1 DEF Sensible, SensibleTexts, Unambiguous, TopItem
<1>10. reading = [store |-> SubSeq(op, 2, k - 1), next |-> op[k], args |-> SubSeq(op, k + 1, Len(op))]
  <2>1. k \in 2..Len(op)
    BY <1>4, <1>6, <1>8
  <2>2. \A j \in 2..Len(op) : j < k => op[j] \notin NamesIn(item.blocks)
    BY <1>6, <1>7, <1>8, <1>9
  <2> HIDE DEF k, item, op
  <2> QED  BY <1>2, <1>4, <2>1, <2>2, ReadingAt
<1>11. /\ term.func = FuncId(text, op[1]) /\ term.func \in DOMAIN text
       /\ Named(text, op[1]) = text[term.func]
  <2>1. Nth(op, 1) = op[1]
    BY <1>2, <1>4, <1>6, <1>8, NthName
  <2>2. term.func = FuncId(text, op[1])
    BY <1>2, <2>1 DEF Call
  <2>3. \A f, g \in DOMAIN text : text[f].name = text[g].name => f = g
    BY <1>1 DEF MachineAssumption
  <2> QED  BY <1>1, <1>4, <2>2, <2>3, FuncFits
<1>12. EndTyped(text, item, Source)
  BY <1>1, TypedParts DEF Sensible, SensibleTexts, TopItem, Source
<1>13. /\ \A i \in DOMAIN reading.args : \E ty \in Type : IsLocal(item, reading.args[i], ty)
       /\ reading.store # << >> =>
            \E to \in Type : IsLocal(item, reading.store[1], to) /\ to = Named(text, op[1]).ret
  <2> HIDE DEF item, reading, op
  <2> QED  BY <1>12 DEF EndTyped, TerminatorWellFormed, CallWellFormed, op, reading
<1> HIDE DEF item, reading, term, op, k
<1>14. DOMAIN reading.args = DOMAIN term.args /\ \A i \in DOMAIN term.args : reading.args[i] = op[k + i]
  <2>1. PICK n \in Nat, j \in {2, 3} : n = Len(op) /\ j = k /\ j <= n
    BY <1>4, <1>6, <1>8
  <2>2. /\ DOMAIN SubSeq(op, j + 1, n) = 1..(n - (j + 1) + 1)
        /\ \A i \in 1..(n - (j + 1) + 1) : SubSeq(op, j + 1, n)[i] = op[j + 1 + i - 1]
    BY <1>2, <2>1, SubSeqParts
  <2>3. n - (j + 1) + 1 = n - j /\ \A i \in 1..(n - j) : j + 1 + i - 1 = j + i
    BY <2>1
  <2>4. reading.args = SubSeq(op, j + 1, n) /\ DOMAIN term.args = 1..(n - j)
    BY <1>5, <1>10, <2>1
  <2> QED  BY <2>1, <2>2, <2>3, <2>4
<1>15. \A i \in DOMAIN term.args : /\ reading.args[i] \in NamesIn(item.lets)
                                   /\ term.args[i] = LocalId(item, reading.args[i])
  BY <1>5, <1>13, <1>14 DEF IsLocal
<1>16. /\ k = 2 => reading.store = << >>
       /\ k = 3 => reading.store # << >> /\ reading.store[1] = op[2]
  <2>1. ASSUME k = 2
        PROVE  reading.store = << >>
    BY <1>2, <1>10, <2>1
  <2>2. ASSUME k = 3
        PROVE  reading.store # << >> /\ reading.store[1] = op[2]
    <3>1. reading.store = SubSeq(op, 2, 2)
      BY <1>10, <2>2
    <3>2. Len(SubSeq(op, 2, 2)) = 1 /\ SubSeq(op, 2, 2)[1] = op[2]
      BY <1>2, <1>4, <1>8, <2>2, SubSeqProperties
    <3>3. Len(reading.store) = 1 /\ reading.store[1] = op[2]
      BY <3>1, <3>2
    <3> QED  BY <3>3, EmptySeq
  <2> QED  BY <2>1, <2>2
<1>17. reading.store # << >> =>
         /\ reading.store[1] \in NamesIn(item.lets)
         /\ term.store_ret = LocalId(item, reading.store[1])
         /\ Code.locals[term.store_ret] = program[term.func].return_type
         /\ Code.locals[term.store_ret] \in Type
  <2> SUFFICES ASSUME reading.store # << >>
               PROVE  /\ reading.store[1] \in NamesIn(item.lets)
                      /\ term.store_ret = LocalId(item, reading.store[1])
                      /\ Code.locals[term.store_ret] = program[term.func].return_type
                      /\ Code.locals[term.store_ret] \in Type
    OBVIOUS
  <2>1. reading.store[1] = op[2] /\ term.store_ret = LocalId(item, op[2]) /\ term.store_ret # None
    BY <1>6, <1>7, <1>16
  <2>2. PICK to \in Type : IsLocal(item, op[2], to) /\ to = text[term.func].ret
    BY <1>11, <1>13, <2>1
  <2>3. Code.locals[term.store_ret] = to
    BY <1>1, <2>1, <2>2, LocalFits
  <2>4. program[term.func].return_type = text[term.func].ret
    BY <1>1, <1>11, FuncParts
  <2> QED  BY <2>1, <2>2, <2>3, <2>4 DEF IsLocal
<1>18. reading.store = << >> <=> term.store_ret = None
  BY <1>6, <1>16
<1>19. reading.next \in NamesIn(item.blocks) /\ term.next = BlockId(item, reading.next)
  BY <1>4, <1>5, <1>10
<1> QED  BY <1>11, <1>14, <1>15, <1>17, <1>18, <1>19 DEF item, reading, op, term

(* A new frame is a new activation: an argument goes to the slot of its    *)
(* name, the last of those that share one stays, and roots are null before *)
(* the first instruction.                                                  *)
LEMMA NewActivation ==
  ASSUME ValuesAssumption, MachineAssumption, Inv, phase \in {"compiled", "running"},
         NEW f \in DOMAIN text, NEW actuals
  PROVE  View(NewFrame(f, actuals)) = Meant!Activation(text[f], actuals)
<1> DEFINE item  == text[f]
           func  == program[f]
           slots == [l \in DOMAIN func.locals |->
                       LET i == IdOf(func.args, l) IN IF i = 0 THEN Undef ELSE actuals[i]]
           P(n)  == {i \in DOMAIN item.args : item.args[i] = n}
           given(n) == IF P(n) = {} THEN Undef
                       ELSE actuals[CHOOSE i \in P(n) : \A j \in P(n) : j <= i]
<1>1. /\ text \in Texts /\ text \in Seq(ItemForms) /\ program = Functions(text)
      /\ NamesResolve(text) /\ Compiles(Functions(text)) /\ item \in ItemForms
  BY Compiled
<1>2. /\ DOMAIN func.locals = DOMAIN item.lets /\ DOMAIN func.args = DOMAIN item.args
      /\ \A i \in DOMAIN item.args : func.args[i] = LocalId(item, item.args[i])
      /\ func.entrypoint = BlockId(item, item.blocks[1].name)
  BY <1>1, FuncParts
<1>3. func.args \in Seq(DOMAIN func.locals)
  <2>1. f \in DOMAIN program
    BY Compiled
  <2>2. FuncTyped(program, program[f])
    BY <1>1, <2>1, CompiledTyped DEF ProgramTyped
  <2> QED  BY <2>2 DEF FuncTyped
<1>4. item.blocks[func.entrypoint].name = item.blocks[1].name
  <2>1. item.blocks # << >> /\ item.blocks \in Seq(BlockForms)
    BY <1>1, ItemParts DEF MachineAssumption
  <2>2. 1 \in DOMAIN item.blocks
    BY <2>1, EmptySeq, LenProperties
  <2>3. item.blocks[1].name \in NamesIn(item.blocks)
    BY <2>2 DEF NamesIn
  <2> QED  BY <1>1, <1>2, <2>3, BlockNamed
<1>5. \A n \in NamesIn(item.lets) : slots[LocalId(item, n)] = given(n)
  <2> TAKE n \in NamesIn(item.lets)
  <2> DEFINE l == LocalId(item, n)
             i == IdOf(func.args, l)
  <2>1. l \in DOMAIN func.locals
    BY <1>1, <1>2, LocalNamed
  <2>2. slots[l] = IF i = 0 THEN Undef ELSE actuals[i]
    BY <2>1
  <2>3. \A j \in DOMAIN item.args : item.args[j] = n <=> func.args[j] = l
    BY <1>1, <1>2, OwnSlot
  <2>4. P(n) = {j \in DOMAIN func.args : func.args[j] = l}
    BY <1>2, <2>3
  <2>5. /\ i # 0 <=> i \in DOMAIN func.args
        /\ i # 0 <=> \E j \in DOMAIN func.args : func.args[j] = l
        /\ i # 0 => func.args[i] = l
        /\ \A j \in DOMAIN func.args : func.args[j] = l => j <= i
    BY <1>3, IdOfName, IdOfDeclared
  <2>6. DOMAIN func.args \subseteq Nat
    BY <1>3, LenProperties
  <2> HIDE DEF l, i, slots, P, func, item
  <2>7. P(n) = {} <=> i = 0
    BY <2>4, <2>5
  <2>8. ASSUME i # 0
        PROVE  i = CHOOSE j \in P(n) : \A m \in P(n) : m <= j
    <3>1. i \in P(n) /\ \A m \in P(n) : m <= i
      BY <2>4, <2>5, <2>8
    <3>2. \A j \in P(n) : (\A m \in P(n) : m <= j) => j = i
      BY <2>4, <2>6, <3>1
    <3> QED  BY <3>1, <3>2
  <2> QED  BY <2>2, <2>7, <2>8 DEF l
<1>6. NewFrame(f, actuals) = [fn |-> f, block |-> func.entrypoint, pc |-> 0, slots |-> slots]
  BY DEF NewFrame
<1> HIDE DEF slots
<1>7. View(NewFrame(f, actuals)) =
        [fn |-> item.name, block |-> item.blocks[1].name, line |-> 1,
         env |-> [n \in NamesIn(item.lets) |->
                    IF LocalType(item, n) = "gc" THEN 0 ELSE slots[LocalId(item, n)]]]
  <2> DEFINE fr == [fn |-> f, block |-> func.entrypoint, pc |-> 0, slots |-> slots]
  <2>1. fr.fn = f /\ fr.block = func.entrypoint /\ fr.pc = 0 /\ fr.slots = slots
    OBVIOUS
  <2> HIDE DEF fr, func
  <2>2. View(fr) =
          [fn |-> item.name, block |-> item.blocks[1].name, line |-> 1,
           env |-> [n \in NamesIn(item.lets) |->
                      IF LocalType(item, n) = "gc" THEN 0 ELSE slots[LocalId(item, n)]]]
    BY <1>4, <2>1 DEF View, Environment
  <2> QED  BY <1>6, <2>2 DEF fr
<1>8. Meant!Activation(item, actuals) =
        [fn |-> item.name, block |-> item.blocks[1].name, line |-> 1,
         env |-> [n \in NamesIn(item.lets) |->
                    IF LocalType(item, n) = "gc" THEN 0 ELSE given(n)]]
  BY DEF Meant!Activation, Meant!NamesIn, NamesIn, Meant!LocalType, LocalType
<1> HIDE DEF item, given
<1>9. [n \in NamesIn(item.lets) |->
         IF LocalType(item, n) = "gc" THEN 0 ELSE slots[LocalId(item, n)]]
        = [n \in NamesIn(item.lets) |->
             IF LocalType(item, n) = "gc" THEN 0 ELSE given(n)]
  BY <1>5
<1> QED  BY <1>7, <1>8, <1>9 DEF item

LEMMA CallFromRustRefines ==
  ASSUME ValuesAssumption, MachineAssumption, Inv, Sensible,
         NEW f \in DOMAIN program, NEW actuals \in [DOMAIN program[f].args -> Actuals],
         CallFromRust(f, actuals)
  PROVE  Meant!Begin
<1>1. /\ phase = "compiled" /\ phase' = "running" /\ frames' = <<NewFrame(f, actuals)>>
      /\ UNCHANGED <<text, program, rt_stack, ret>>
  BY DEF CallFromRust
<1>2. text \in Seq(ItemForms) /\ program = Functions(text) /\ f \in DOMAIN text
  BY <1>1, Compiled
<1>3. actuals \in [DOMAIN text[f].args -> Actuals]
  BY <1>2, FuncParts
<1>4. View(NewFrame(f, actuals)) = Meant!Activation(text[f], actuals)
  BY <1>1, <1>2, NewActivation
<1>5. Activations' = <<View(NewFrame(f, actuals))>>
  <2> DEFINE fr == NewFrame(f, actuals)
  <2> HIDE DEF fr
  <2>1. frames' = <<fr>> /\ text' = text
    BY <1>1 DEF fr
  <2>2. DOMAIN frames' = {1} /\ frames'[1] = fr
    BY <2>1
  <2>3. Activations' = [i \in {1} |-> View(fr)]
    BY <2>1, <2>2 DEF Activations, View, Environment
  <2>4. DOMAIN <<View(fr)>> = {1}
    OBVIOUS
  <2> QED  BY <2>3, <2>4 DEF fr
<1>6. Outcome = "idle" /\ Outcome' = "running" /\ Sensible'
  BY <1>1 DEF Outcome, Sensible
<1>7. text[f] \in Meant!Range(text)
  BY <1>2 DEF Meant!Range
<1>8. Activations' = <<Meant!Activation(text[f], actuals)>>
  BY <1>4, <1>5
<1>9. \E item \in Meant!Range(text) : \E given \in [DOMAIN item.args -> Actuals] :
        Activations' = <<Meant!Activation(item, given)>>
  BY <1>3, <1>7, <1>8
<1> QED  BY <1>1, <1>6, <1>9 DEF Meant!Begin

LEMMA InvokeRefines ==
  ASSUME ValuesAssumption, MachineAssumption, Inv, Sensible, Invoke
  PROVE  Meant!CallItem(View(Top))
<1> DEFINE op      == Source.operands
           term    == Block.ins_final
           reading == CallReading(TopItem, op)
           actuals == [i \in DOMAIN term.args |-> Top.slots[term.args[i]]]
           waiting == [fn |-> Top.fn, block |-> Top.block, pc |-> Top.pc + 1, slots |-> Top.slots]
           new     == NewFrame(term.func, actuals)
           act     == View(Top)
<1>1. /\ AtTerminator("Call") /\ UNCHANGED <<text, program, phase, rt_stack, ret>>
      /\ frames' = Append([frames EXCEPT ![Depth] = [Top EXCEPT !.pc = @ + 1]], new)
  BY DEF Invoke
<1>2. /\ phase = "running" /\ Top.pc \in Nat /\ Top.pc # 0 /\ Top.pc + 1 # 0
      /\ Meant!AtEnd(act, Source.ins) /\ term.kind = "Call"
  BY <1>1, EndReached
<1>3. Source.ins = "call"
  BY <1>2, EndSource
<1>4. /\ term.func \in DOMAIN text /\ Named(text, op[1]) = text[term.func]
      /\ DOMAIN reading.args = DOMAIN term.args
      /\ \A i \in DOMAIN term.args : /\ reading.args[i] \in NamesIn(TopItem.lets)
                                     /\ term.args[i] = LocalId(TopItem, reading.args[i])
  BY <1>2, <1>3, CallSource
<1>5. actuals = [i \in DOMAIN reading.args |-> act.env[reading.args[i]]]
  <2> HIDE DEF reading, term, act
  <2>1. \A i \in DOMAIN term.args : act.env[reading.args[i]] = Top.slots[term.args[i]]
    BY <1>2, <1>4, LocalMeant DEF act
  <2> QED  BY <1>4, <2>1
<1>6. View(new) = Meant!Activation(Named(text, op[1]), actuals)
  BY <1>2, <1>4, NewActivation
<1>7. View(waiting) = Advance(act)
  <2>1. View(waiting) = ActOf(TopItem.name, Source.name, Top.pc + 1, Env(TopItem, Top.slots))
    BY <1>2, ViewOf DEF Source
  <2>2. ActChange(act, TopItem.name, Source.name, Top.pc, Env(TopItem, Top.slots))
    BY <1>2, ViewTop, ActChanges
  <2> QED  BY <2>1, <2>2 DEF ActChange
<1>8. frames' = Append([frames EXCEPT ![Depth] = waiting], new)
  <2>1. [Top EXCEPT !.pc = @ + 1] = waiting
    BY <1>2, TopFrame
  <2> QED  BY <1>1, <2>1
<1>9. Depth \in Nat \ {0} /\ DOMAIN frames = 1..Depth /\ frames \in Seq(Frame)
  BY <1>2, Running
<1> HIDE DEF waiting, new, act, actuals, reading, term, op
<1>10. /\ DOMAIN frames' = 1..(Depth + 1)
       /\ \A i \in 1..(Depth + 1) :
            frames'[i] = IF i = Depth + 1 THEN new ELSE IF i = Depth THEN waiting ELSE frames[i]
  <2> DEFINE halted == [frames EXCEPT ![Depth] = waiting]
             F      == Frame \cup {waiting, new}
  <2>1. halted \in Seq(F) /\ Len(halted) = Depth
        /\ \A i \in 1..Depth : halted[i] = IF i = Depth THEN waiting ELSE frames[i]
    <3>1. frames \in Seq(F)
      BY <1>9, SeqDef
    <3> QED  BY <1>9, <3>1, ExceptSeq
  <2> HIDE DEF halted
  <2>2. /\ Append(halted, new) \in Seq(F) /\ Len(Append(halted, new)) = Depth + 1
        /\ \A i \in 1..Depth : Append(halted, new)[i] = halted[i]
        /\ Append(halted, new)[Depth + 1] = new
    BY <2>1, AppendProperties
  <2>3. frames' = Append(halted, new)
    BY <1>8 DEF halted
  <2>4. DOMAIN frames' = 1..(Depth + 1)
    BY <2>2, <2>3, LenProperties
  <2> QED  BY <1>9, <2>1, <2>2, <2>3, <2>4
<1>11. Activations' = [i \in 1..(Depth + 1) |->
                         IF i = Depth + 1 THEN View(new)
                         ELSE IF i = Depth THEN View(waiting) ELSE View(frames[i])]
  <2>1. Activations' = [i \in 1..(Depth + 1) |-> View(frames'[i])]
    <3>1. text' = text
      BY <1>1
    <3> QED  BY <1>10, <3>1 DEF Activations, View, Environment
  <2> QED  BY <1>10, <2>1
<1>12. Meant!Callers \o <<View(waiting), View(new)>>
         = [i \in 1..(Depth + 1) |->
              IF i = Depth + 1 THEN View(new)
              ELSE IF i = Depth THEN View(waiting) ELSE View(frames[i])]
  <2> DEFINE v(i) == View(frames[i])
             w == View(waiting)
             n == View(new)
             callers == [i \in 1..(Depth - 1) |-> v(i)]
             V == {v(i) : i \in 1..(Depth - 1)} \cup {w, n}
  <2>1. Meant!Callers = callers
    BY <1>2, ActingTop
  <2> HIDE DEF v, w, n
  <2>2. callers \in Seq(V) /\ Len(callers) = Depth - 1 /\ <<w, n>> \in Seq(V)
    BY <1>9, SeqDef
  <2> DEFINE both == callers \o <<w, n>>
  <2>3. /\ both \in Seq(V) /\ Len(both) = Depth + 1
        /\ \A i \in 1..(Depth + 1) :
             both[i] = IF i <= Depth - 1 THEN callers[i] ELSE <<w, n>>[i - (Depth - 1)]
    <3> HIDE DEF callers, V
    <3>1. Len(<<w, n>>) = 2 /\ (Depth - 1) + 2 = Depth + 1
      BY <1>9
    <3> QED  BY <2>2, <3>1, ConcatProperties
  <2>4. \A i \in 1..(Depth + 1) :
          both[i] = IF i = Depth + 1 THEN n ELSE IF i = Depth THEN w ELSE v(i)
    <3>1. <<w, n>>[1] = w /\ <<w, n>>[2] = n
      OBVIOUS
    <3>2. Depth - (Depth - 1) = 1 /\ Depth + 1 - (Depth - 1) = 2
      BY <1>9
    <3> HIDE DEF both
    <3> QED  BY <1>9, <2>3, <3>1, <3>2
  <2>5. both = [i \in 1..(Depth + 1) |-> both[i]]
    <3> HIDE DEF both, V
    <3> QED  BY <2>3, LenProperties
  <2>6. both = [i \in 1..(Depth + 1) |-> IF i = Depth + 1 THEN n ELSE IF i = Depth THEN w ELSE v(i)]
    <3> HIDE DEF both, V
    <3> QED  BY <2>4, <2>5
  <2> QED  BY <2>1, <2>6 DEF v, w, n
<1>13. Activations' = Meant!Callers \o <<Advance(act), Meant!Activation(Named(text, op[1]), actuals)>>
  BY <1>6, <1>7, <1>11, <1>12
<1>14. Meant!ItemOf(act) = TopItem /\ Meant!BlockOf(act) = Source
  BY <1>2, ActingTop DEF act
<1>15. Outcome' = Outcome /\ Sensible' = Sensible
  BY <1>1 DEF Outcome, Sensible
<1>16. /\ \A n : Meant!Named(text, n) = Named(text, n)
       /\ Meant!CallReading(TopItem, op) = reading
  BY SameRules DEF reading
<1>17. Activations' =
         LET args    == Meant!CallReading(Meant!ItemOf(act), Meant!BlockOf(act).operands).args
             given   == [i \in DOMAIN args |-> act.env[args[i]]]
         IN  Meant!Callers \o
               <<[act EXCEPT !.line = @ + 1],
                 Meant!Activation(Meant!Named(text, Meant!BlockOf(act).operands[1]), given)>>
  BY <1>5, <1>13, <1>14, <1>16 DEF op, Advance
<1> QED  BY <1>1, <1>2, <1>3, <1>15, <1>17 DEF Meant!CallItem, act

LEMMA LeaveRefines ==
  ASSUME ValuesAssumption, MachineAssumption, Inv, Sensible, Leave
  PROVE  Meant!Answer(View(Top))
<1> DEFINE op   == Source.operands
           term == Block.ins_final
           l    == term.value
           act  == View(Top)
<1>1. /\ AtTerminator("Return") /\ UNCHANGED <<text, program>>
      /\ ret' = IF l = None THEN None ELSE LoadAs(Code.return_type, Code.locals[l], Top.slots[l])
      /\ frames' = SubSeq(frames, 1, Depth - 1)
      /\ phase' = IF Depth = 1 THEN "returned" ELSE phase
  BY DEF Leave
<1>2. /\ phase = "running" /\ Top.pc # 0 /\ Meant!AtEnd(act, Source.ins)
      /\ EndTyped(text, TopItem, Source) /\ term.kind = "Return"
  BY <1>1, EndReached
<1>3. op \in Seq(STRING) /\ Source.ins = "return" /\ term = Return(TopItem, op)
  BY <1>2, EndSource
<1>4. l = IF op = << >> THEN None ELSE LocalId(TopItem, op[1])
  BY <1>3 DEF Return
<1>5. op # << >> => IsLocal(TopItem, op[1], TopItem.ret)
  <2> DEFINE item == TopItem
  <2>1. IF item.ret = None THEN op = << >>
        ELSE op # << >> /\ \E from \in Type : IsLocal(item, op[1], from) /\ item.ret = from
    <3> HIDE DEF item
    <3> QED  BY <1>2, <1>3 DEF EndTyped, TerminatorWellFormed, ReturnWellFormed, item
  <2> QED  BY <2>1
<1>6. ret' = IF op = << >> THEN None ELSE act.env[op[1]]
  <2>1. CASE op = << >>
    BY <1>1, <1>4, <2>1
  <2>2. CASE op # << >>
    <3>1. op[1] \in NamesIn(TopItem.lets) /\ LocalType(TopItem, op[1]) = TopItem.ret
      BY <1>5, <2>2 DEF IsLocal
    <3>2. l = LocalId(TopItem, op[1]) /\ l \in DOMAIN TopItem.lets
          /\ TopItem.lets[l].ty = TopItem.ret
      BY <1>2, <1>4, <2>2, <3>1, TopSource, LocalNamed
    <3>3. l # None
      <4>1. DOMAIN TopItem.lets \subseteq Nat
        BY <1>2, TopSource, ItemParts, LenProperties
      <4> QED  BY <3>2, <4>1 DEF ValuesAssumption
    <3>4. Code.locals[l] = TopItem.ret /\ Code.return_type = TopItem.ret
      BY <1>2, <3>2, TopSource, Compiled, FuncParts DEF TopItem
    <3>5. ret' = Top.slots[l]
      BY <1>1, <3>3, <3>4 DEF LoadAs
    <3>6. act.env[op[1]] = Top.slots[LocalId(TopItem, op[1])]
      BY <1>2, <3>1, LocalMeant
    <3> QED  BY <2>2, <3>2, <3>5, <3>6
  <2> QED  BY <2>1, <2>2
<1>7. Depth \in Nat \ {0} /\ DOMAIN frames = 1..Depth /\ frames \in Seq(Frame)
  BY <1>2, Running
<1>8. DOMAIN frames' = 1..(Depth - 1) /\ \A i \in 1..(Depth - 1) : frames'[i] = frames[i]
  <2>1. /\ frames' \in Seq(Frame) /\ Len(frames') = Depth - 1
        /\ \A i \in 1..(Depth - 1) : frames'[i] = frames[i]
    BY <1>1, <1>7, SubSeqProperties DEF Depth
  <2> QED  BY <2>1, LenProperties
<1>9. Activations' = Meant!Callers
  <2>1. Activations' = [i \in 1..(Depth - 1) |-> View(frames'[i])]
    <3>1. Activations' = [i \in DOMAIN frames' |->
             [fn    |-> text[frames'[i].fn].name,
              block |-> text[frames'[i].fn].blocks[frames'[i].block].name,
              line  |-> IF frames'[i].pc = 0 THEN 1 ELSE frames'[i].pc,
              env   |-> Environment(frames'[i])]]
      BY <1>1 DEF Activations, Environment
    <3>2. DOMAIN frames' = 1..(Depth - 1)
      BY <1>8
    <3> QED  BY <3>1, <3>2 DEF View
  <2>2. Meant!Callers = [i \in 1..(Depth - 1) |-> View(frames[i])]
    BY <1>2, ActingTop
  <2> QED  BY <1>8, <2>1, <2>2
<1>10. Meant!BlockOf(act) = Source /\ Len(Activations) = Depth
  BY <1>2, ActingTop
<1>11. Sensible' /\ Outcome' = IF Depth = 1 THEN "returned" ELSE "running"
  BY <1>1, <1>2 DEF Outcome, Sensible
<1> HIDE DEF op, term, l, act
<1> QED  BY <1>1, <1>2, <1>3, <1>6, <1>9, <1>10, <1>11 DEF Meant!Answer, op, act

LEMMA ResumeRefines ==
  ASSUME ValuesAssumption, MachineAssumption, Inv, Sensible, Resume
  PROVE  Meant!Deliver(View(Top))
<1> DEFINE op      == Source.operands
           term    == Block.ins_final
           l       == term.store_ret
           reading == CallReading(TopItem, op)
           act     == View(Top)
           n       == reading.store[1]
           slots   == IF l = None THEN Top.slots
                      ELSE [Top.slots EXCEPT
                              ![l] = StoredIn(Code.locals[l], program[term.func].return_type, ret)]
<1>1. /\ phase = "running" /\ Top.pc = Len(Block.instructions) + 2
      /\ GoTo(term.next, slots) /\ ret' = None
      /\ UNCHANGED <<text, program, phase, rt_stack>>
  BY DEF Resume, AfterCall
<1>2. Len(Block.instructions) \in Nat /\ Top.pc # 0
  BY <1>1, Running DEF BlockTyped
<1>3. Source.ins = "call"
  <2>1. Waits(Top) /\ Block = BlockAt(Top)
    BY <1>1, Running DEF Inv, Answered
  <2> QED  BY <1>1, <2>1, EndSource DEF Waits
<1>4. /\ reading.next \in NamesIn(TopItem.blocks) /\ term.next = BlockId(TopItem, reading.next)
      /\ reading.store = << >> <=> l = None
      /\ reading.store # << >> => /\ n \in NamesIn(TopItem.lets) /\ l = LocalId(TopItem, n)
                                  /\ Code.locals[l] = program[term.func].return_type
  BY <1>1, <1>3, CallSource
<1>5. Meant!Update(ActOf(TopItem.name, reading.next, 1, Env(TopItem, slots)))
  <2> HIDE DEF slots, reading, term
  <2> QED  BY <1>1, <1>4, Entered
<1>6. Env(TopItem, slots) = IF reading.store = << >> THEN Env(TopItem, Top.slots)
                            ELSE [Env(TopItem, Top.slots) EXCEPT ![n] = ret]
  <2> HIDE DEF reading, term, n, l
  <2>1. CASE reading.store = << >>
    BY <1>4, <2>1
  <2>2. CASE reading.store # << >>
    <3>1. slots = [Top.slots EXCEPT ![LocalId(TopItem, n)] = ret]
      BY <1>4, <2>2 DEF StoredIn
    <3>2. Env(TopItem, [Top.slots EXCEPT ![LocalId(TopItem, n)] = ret])
            = [Env(TopItem, Top.slots) EXCEPT ![n] = ret]
      BY <1>1, <1>4, <2>2, TopStored
    <3> QED  BY <2>2, <3>1, <3>2
  <2> QED  BY <2>1, <2>2
<1> DEFINE next == Meant!At(act, reading.next)
<1>7. ActOf(TopItem.name, reading.next, 1, Env(TopItem, slots))
        = IF reading.store = << >> THEN next ELSE Bind(next, n, ret)
  <2>1. ActChange(act, TopItem.name, Source.name, Top.pc, Env(TopItem, Top.slots))
    BY <1>1, <1>2, ViewTop, ActChanges
  <2> HIDE DEF reading, n, act, slots
  <2>2. next = ActOf(TopItem.name, reading.next, 1, Env(TopItem, Top.slots))
    BY <2>1 DEF ActChange
  <2> HIDE DEF next
  <2>3. ActChange(next, TopItem.name, reading.next, 1, Env(TopItem, Top.slots))
    BY <2>2, ActChanges
  <2>4. Bind(next, n, ret) = ActOf(TopItem.name, reading.next, 1, [Env(TopItem, Top.slots) EXCEPT ![n] = ret])
    BY <2>3 DEF ActChange
  <2> QED  BY <1>6, <2>2, <2>4
<1>8. /\ Meant!ItemOf(act) = TopItem /\ Meant!BlockOf(act) = Source
      /\ act.line = Len(Source.body) + 2
  BY <1>1, <1>2, ActingTop, ViewTop, ActParts, TopSource
<1>9. Meant!CallReading(TopItem, op) = reading
  BY SameRules
<1>10. Sensible' /\ Outcome' = Outcome
  BY <1>1 DEF Outcome, Sensible
<1> HIDE DEF slots, term, l, act, reading, n, op
<1>11. Meant!Update(IF reading.store = << >> THEN next ELSE [next EXCEPT !.env[n] = ret])
  BY <1>5, <1>7 DEF Bind
<1> HIDE DEF next
<1> QED  BY <1>1, <1>8, <1>9, <1>10, <1>11 DEF Meant!Deliver, act, op, n, next

-----------------------------------------------------------------------------
(* Steps the meaning does not see.                                         *)

(* push_stack_frame writes null where the meaning has it from the start. *)
LEMMA PrologueRefines ==
  ASSUME ValuesAssumption, MachineAssumption, Inv, Sensible, Prologue
  PROVE  UNCHANGED Meant!vars
<1> DEFINE slots == [l \in DOMAIN Top.slots |-> IF l \in Roots(Top.fn) THEN 0 ELSE Top.slots[l]]
           item  == TopItem
<1>1. /\ phase = "running" /\ Top.pc = 0 /\ SetTop(Top.block, 1, slots)
      /\ UNCHANGED <<text, program, phase, ret>>
  BY DEF Prologue
<1>2. /\ item \in ItemForms /\ Code = program[Top.fn]
      /\ Top.slots \in [DOMAIN item.lets -> Int \cup {Undef}]
      /\ \A l \in DOMAIN item.lets : Code.locals[l] = item.lets[l].ty
      /\ DOMAIN Code.locals = DOMAIN item.lets
  BY <1>1, TopSource, TopFrame, Compiled, FuncParts DEF TopItem
<1>3. \A n \in NamesIn(item.lets) :
        slots[LocalId(item, n)]
          = IF LocalType(item, n) = "gc" THEN 0 ELSE Top.slots[LocalId(item, n)]
  <2> TAKE n \in NamesIn(item.lets)
  <2> DEFINE l == LocalId(item, n)
  <2>1. l \in DOMAIN item.lets /\ item.lets[l].ty = LocalType(item, n)
    BY <1>2, LocalNamed
  <2>2. l \in Roots(Top.fn) <=> LocalType(item, n) = "gc"
    BY <1>2, <2>1 DEF Roots
  <2>3. DOMAIN Top.slots = DOMAIN item.lets
    BY <1>2
  <2> HIDE DEF l, item
  <2> QED  BY <2>1, <2>2, <2>3 DEF l
<1> HIDE DEF slots, item
<1>4. Env(TopItem, slots) = Environment(Top)
  <2>1. Env(item, slots) = [n \in NamesIn(item.lets) |-> slots[LocalId(item, n)]]
    BY DEF Env
  <2>2. Environment(Top) =
          [n \in NamesIn(item.lets) |->
             IF LocalType(item, n) = "gc" THEN 0 ELSE Top.slots[LocalId(item, n)]]
    BY <1>1 DEF Environment, item, TopItem
  <2> QED  BY <1>3, <2>1, <2>2 DEF item
<1>5. ActOf(TopItem.name, TopItem.blocks[Top.block].name, 1, Env(TopItem, slots)) = View(Top)
  BY <1>1, <1>4 DEF ActOf, View, TopItem
<1>6. Meant!Update(View(Top))
  <2>1. Meant!Update(ActOf(TopItem.name, TopItem.blocks[Top.block].name, 1, Env(TopItem, slots)))
    BY <1>1, Moved
  <2> QED  BY <1>5, <2>1
<1>7. Sensible' = Sensible /\ Outcome' = Outcome
  BY <1>1 DEF Outcome, Sensible
<1>8. Meant!Callers \o <<View(Top)>> = Activations
  <2> DEFINE v(i) == View(frames[i])
  <2>1. Activations = [i \in 1..Depth |-> v(i)]
    BY <1>1, ActingTop
  <2>2. PICK fr : fr = Top
    OBVIOUS
  <2>3. Meant!Callers \o <<View(fr)>> = [i \in 1..Depth |-> IF i = Depth THEN View(fr) ELSE v(i)]
    BY <1>1, TopAppended
  <2>4. View(fr) = v(Depth)
    BY <2>2 DEF Top
  <2> HIDE DEF v
  <2>5. [i \in 1..Depth |-> IF i = Depth THEN View(fr) ELSE v(i)] = [i \in 1..Depth |-> v(i)]
    BY <2>4
  <2> QED  BY <2>1, <2>2, <2>3, <2>5
<1>9. Activations' = Activations
  BY <1>6, <1>7, <1>8 DEF Meant!Update
<1> QED  BY <1>1, <1>7, <1>9 DEF Meant!vars

(* No store leaves its slot. *)
LEMMA NoOverrun ==
  ASSUME ValuesAssumption, MachineAssumption, Inv, Sensible, Overrun
  PROVE  FALSE
<1>1. \A l, ty : ty \in Type /\ Code.locals[l] = ty => ~Overruns(Code, l, ty)
  BY DEF Overruns, Size, Type
<1>2. CASE /\ AtInstruction
           /\ LET ins == Block.instructions[Top.pc]
              IN  Overruns(Code, ins.place, ValueType(Code, ins))
  <2>1. phase = "running" /\ Top.pc \in DOMAIN Source.body
    BY <1>2, TopSource DEF AtInstruction
  <2>2. LET ins == Block.instructions[Top.pc]
        IN  ValueType(Code, ins) = Code.locals[ins.place] /\ Code.locals[ins.place] \in Type
    BY <2>1, LineTypes
  <2> QED  BY <1>1, <1>2, <2>2
<1>3. CASE /\ AfterCall
           /\ LET term == Block.ins_final
              IN  /\ term.store_ret # None
                  /\ Overruns(Code, term.store_ret, program[term.func].return_type)
  <2>1. phase = "running" /\ Top.pc = Len(Block.instructions) + 2
    BY <1>3 DEF AfterCall
  <2>2. Source.ins = "call"
    <3>1. Waits(Top) /\ Block = BlockAt(Top)
      BY <2>1, Running DEF Inv, Answered
    <3> QED  BY <2>1, <3>1, EndSource DEF Waits
  <2>3. LET term == Block.ins_final
        IN  term.store_ret # None => /\ Code.locals[term.store_ret] = program[term.func].return_type
                                     /\ Code.locals[term.store_ret] \in Type
    BY <2>1, <2>2, CallSource
  <2> QED  BY <1>1, <1>3, <2>3
<1> QED  BY <1>2, <1>3 DEF Overrun

LEMMA ParseRefines ==
  ASSUME Inv, Sensible, parse_mir_program \/ compile_program
  PROVE  UNCHANGED Meant!vars
<1>1. /\ phase \in {"text", "parsed"} /\ phase' \in {"parsed", "compiled", "rejected"}
      /\ UNCHANGED <<text, frames, rt_stack, ret>>
  BY DEF parse_mir_program, compile_program
<1>2. Outcome = "idle" /\ Outcome' = "idle" /\ Sensible' = Sensible
  BY <1>1 DEF Outcome, Sensible
<1>3. Activations = << >> /\ Activations' = << >>
  BY <1>1 DEF Inv, Idle, Activations
<1> QED  BY <1>1, <1>2, <1>3 DEF Meant!vars

(* A text that makes no sense has no meaning to keep to. *)
LEMMA SenselessRefines ==
  ASSUME ~Sensible, text' = text
  PROVE  UNCHANGED Meant!vars
<1>1. ~Sensible'
  BY DEF Sensible
<1>2. Outcome = "idle" /\ Outcome' = "idle"
  BY <1>1 DEF Outcome
<1> QED  BY <1>1, <1>2 DEF Meant!vars

LEMMA InitRefines ==
  ASSUME Init
  PROVE  Meant!Init
<1>1. Activations = << >>
  BY DEF Init, Activations
<1>2. Outcome = "idle" /\ ret = None
  BY DEF Init, Outcome
<1> QED  BY <1>1, <1>2 DEF Meant!Init

LEMMA StepRefines ==
  ASSUME ValuesAssumption, MachineAssumption, Inv, [Next]_vars
  PROVE  [Meant!Next]_Meant!vars
<1>1. text' = text
  BY DEF Next, vars, parse_mir_program, compile_program, CallFromRust, Run, Prologue, Execute, Trap,
         Jump, Branch, Invoke, Leave, Resume, Overrun
<1>2. CASE ~Sensible
  BY <1>1, <1>2, SenselessRefines
<1>3. CASE Sensible
  <2>1. CASE parse_mir_program \/ compile_program
    BY <1>3, <2>1, ParseRefines
  <2>2. CASE \E f \in DOMAIN program :
               \E actuals \in [DOMAIN program[f].args -> Actuals] : CallFromRust(f, actuals)
    BY <1>3, <2>2, CallFromRustRefines DEF Meant!Next
  <2>3. ASSUME Run
        PROVE  [Meant!Next]_Meant!vars
    <3>1. phase = "running"
      BY <2>3 DEF Run, Prologue, Execute, Trap, Jump, Branch, Invoke, Leave, Resume, Overrun,
                  AtInstruction, AtTerminator, AfterCall
    <3>2. View(Top) \in Meant!Acting
      BY <1>3, <3>1, ActingTop
    <3>3. CASE Prologue
      BY <1>3, <3>3, PrologueRefines
    <3>4. CASE Execute
      BY <1>3, <3>2, <3>4, ExecuteRefines DEF Meant!Next
    <3>5. CASE Trap
      BY <1>3, <3>2, <3>5, TrapRefines DEF Meant!Next
    <3>6. CASE Jump
      BY <1>3, <3>2, <3>6, JumpRefines DEF Meant!Next
    <3>7. CASE Branch
      BY <1>3, <3>2, <3>7, BranchRefines DEF Meant!Next
    <3>8. CASE Invoke
      BY <1>3, <3>2, <3>8, InvokeRefines DEF Meant!Next
    <3>9. CASE Leave
      BY <1>3, <3>2, <3>9, LeaveRefines DEF Meant!Next
    <3>10. CASE Resume
      BY <1>3, <3>2, <3>10, ResumeRefines DEF Meant!Next
    <3>11. CASE Overrun
      BY <1>3, <3>11, NoOverrun
    <3> QED  BY <2>3, <3>3, <3>4, <3>5, <3>6, <3>7, <3>8, <3>9, <3>10, <3>11 DEF Run
  <2>4. CASE UNCHANGED vars
    BY <2>4 DEF vars, Meant!vars, Activations, Environment, Outcome, Sensible
  <2> QED  BY <2>1, <2>2, <2>3, <2>4 DEF Next
<1> QED  BY <1>2, <1>3

(* Compiled code does what the text says, step by step: for every text     *)
(* whose names and types are in order, whatever its functions, loops and   *)
(* recursion, the frames of the machine are the activations of an          *)
(* interpreter that reads the text by its names, and a result goes where   *)
(* the call says (human_format.rs and cf_build.rs together).               *)
THEOREM TextImplemented == Spec => ImplementsText
<1>1. Init => Meant!Init
  BY InitRefines
<1>2. Inv /\ [Next]_vars => [Meant!Next]_Meant!vars
  BY StepRefines, ValuesAssumption, MachineAssumption
<1> QED  BY <1>1, <1>2, Invariance, PTL DEF Spec, ImplementsText, Meant!Spec

=============================================================================
