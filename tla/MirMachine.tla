----------------------------- MODULE MirMachine -----------------------------
(***************************************************************************)
(* A MIR text compiled and run: parse_mir_program and compile_program      *)
(* accept or reject it (both panic), and the code that                     *)
(* function_to_cranelift emits runs on a stack of frames when the embedder *)
(* calls a function by its name.  One thread, one call from Rust.          *)
(*                                                                         *)
(* Runtime leaves open which instructions a function consists of and takes *)
(* for granted that each activation registers its gc slots once, before    *)
(* its first instruction, and unregisters them when it returns; this       *)
(* module has the instructions and branches, and FramesRegistered is what  *)
(* Runtime relies on.                                                      *)
(***************************************************************************)
EXTENDS MirText, MirRules

CONSTANTS
  Texts,     \* texts to compile
  Actuals,   \* arguments the embedder passes
  MaxDepth   \* bound: frames

(* Functions of one name would share one Func and leave an empty one over; *)
(* a function without blocks is left to Cranelift.                         *)
ASSUME MachineAssumption ==
  /\ MaxDepth \in Nat
  /\ Actuals \subseteq Int
  /\ Texts \subseteq Seq(ItemForms)
  /\ \A t \in Texts :
       /\ \A f, g \in DOMAIN t : t[f].name = t[g].name => f = g
       /\ \A f \in DOMAIN t : t[f].blocks # << >>

VARIABLES
  text,      \* the text
  program,   \* its functions, once parsed
  phase,     \* "text", "parsed", "compiled", "running", "returned";
             \* "rejected", "trapped", or "wild": beyond defined behaviour
  frames,    \* machine frames, outermost first
  rt_stack,  \* the runtime's stack: for each frame the slots it registered
  ret        \* return register

vars == <<text, program, phase, frames, rt_stack, ret>>

-----------------------------------------------------------------------------
(* The panics of function_to_cranelift.                                    *)

OperandType(func, o) == IF o.kind = "place" THEN func.locals[o.local] ELSE o.kind

ValueType(func, ins) ==
  CASE ins.op = "alloc" -> "gc"
    [] ins.op = "read"  -> OperandType(func, ins.operands[1])
    [] OTHER            -> BinOpResult(ins.op, OperandType(func, ins.operands[1]))

InstructionCompiles(func, ins) ==
  CASE ins.op = "alloc" -> func.locals[ins.place] = "gc"
    [] ins.op = "read"  -> TRUE
    [] OTHER -> BinOpTyped(ins.op, func.locals[ins.place], OperandType(func, ins.operands[1]))

TerminatorCompiles(functions, func, term) ==
  CASE term.kind = "Br"     -> term.next # 0
    [] term.kind = "BrIf"   -> func.locals[term.cond] = "bool"
    [] term.kind = "Call"   -> term.store_ret # None => functions[term.func].return_type # None
    [] term.kind = "Return" -> term.value # None => func.return_type # None

(* What Cranelift's verifier refuses in define_function: calls that do not *)
(* match the signature, a missing return value, operands of two types, and *)
(* a jump to the entry block.                                              *)
TerminatorVerified(functions, func, term) ==
  CASE term.kind = "Br"     -> term.next # func.entrypoint
    [] term.kind = "BrIf"   -> func.entrypoint \notin {term.is_true, term.is_false}
    [] term.kind = "Call"   ->
         LET callee == functions[term.func]
         IN  /\ term.next # func.entrypoint
             /\ [i \in DOMAIN term.args |-> func.locals[term.args[i]]]
                  = [i \in DOMAIN callee.args |-> callee.locals[callee.args[i]]]
    [] term.kind = "Return" -> func.return_type # None => term.value # None

InstructionVerified(func, ins) ==
  \A o \in DOMAIN ins.operands :
    OperandType(func, ins.operands[o]) = OperandType(func, ins.operands[1])

Compiles(functions) ==
  \A f \in DOMAIN functions : \A b \in DOMAIN functions[f].blocks :
    LET func  == functions[f]
        block == func.blocks[b]
    IN  /\ TerminatorCompiles(functions, func, block.ins_final)
        /\ TerminatorVerified(functions, func, block.ins_final)
        /\ \A i \in DOMAIN block.instructions :
             /\ InstructionCompiles(func, block.instructions[i])
             /\ InstructionVerified(func, block.instructions[i])

-----------------------------------------------------------------------------
Init ==
  /\ text \in Texts
  /\ program = << >>
  /\ phase = "text"
  /\ frames = << >>
  /\ rt_stack = << >>
  /\ ret = None

parse_mir_program ==
  /\ phase = "text"
  /\ IF NamesResolve(text)
     THEN program' = Functions(text) /\ phase' = "parsed"
     ELSE program' = program /\ phase' = "rejected"
  /\ UNCHANGED <<text, frames, rt_stack, ret>>

compile_program ==
  /\ phase = "parsed"
  /\ phase' = IF Compiles(program) THEN "compiled" ELSE "rejected"
  /\ UNCHANGED <<text, program, frames, rt_stack, ret>>

-----------------------------------------------------------------------------
(* Mutant: slots for the arguments only. *)
FrameOfArguments(f, actuals) ==
  LET func == program[f]
  IN  [fn    |-> f,
       block |-> func.entrypoint,
       pc    |-> 0,
       slots |-> [l \in Range(func.args) |-> actuals[IdOf(func.args, l)]]]

(* A frame: the slots of the locals, and where in which block it is.  In   *)
(* the entry block pc 0 stands before push_stack_frame.  The arguments are *)
(* stored in order, so the last one stays where two share a local.         *)
NewFrame(f, actuals) ==
  LET func == program[f]
  IN  [fn    |-> f,
       block |-> func.entrypoint,
       pc    |-> 0,
       slots |-> [l \in DOMAIN func.locals |->
                    LET i == IdOf(func.args, l) IN IF i = 0 THEN Undef ELSE actuals[i]]]

Roots(f) == {l \in DOMAIN program[f].locals : program[f].locals[l] = "gc"}

Depth == Len(frames)
Top   == frames[Depth]
Code  == program[Top.fn]
Block == Code.blocks[Top.block]

SetTop(block, pc, slots) ==
  frames' = [frames EXCEPT ![Depth] = [fn |-> Top.fn, block |-> block, pc |-> pc, slots |-> slots]]

(* The embedder calls a function it knows by name, with a fn pointer type  *)
(* that fits its signature.                                                *)
CallFromRust(f, actuals) ==
  /\ phase = "compiled"
  /\ phase' = "running"
  /\ frames' = <<NewFrame(f, actuals)>>
  /\ UNCHANGED <<text, program, rt_stack, ret>>

(* push_stack_frame: root slots are set to null and registered. *)
Prologue ==
  /\ phase = "running" /\ Top.pc = 0
  /\ SetTop(Top.block, 1,
            [l \in DOMAIN Top.slots |-> IF l \in Roots(Top.fn) THEN 0 ELSE Top.slots[l]])
  /\ rt_stack' = Append(rt_stack, {<<Depth, l>> : l \in Roots(Top.fn)})
  /\ UNCHANGED <<text, program, phase, ret>>

Value(o) == IF o.kind = "place" THEN Top.slots[o.local] ELSE o.val

Evaluate(ins) ==
  CASE ins.op = "alloc" -> 1
    [] ins.op = "read"  -> Value(ins.operands[1])
    [] OTHER -> BinOp(ins.op, OperandType(Code, ins.operands[1]),
                      Value(ins.operands[1]), Value(ins.operands[2]))

AtInstruction ==
  /\ phase = "running"
  /\ Top.pc \in DOMAIN Block.instructions

Traps(ins) == ins.op = "div" /\ DivTraps(Value(ins.operands[1]), Value(ins.operands[2]))

MayTrap(ins) ==
  /\ ins.op = "div"
  /\ \/ Traps(ins)
     \/ \E k \in {1, 2} : \/ Value(ins.operands[k]) = Undef
                        \/ OperandType(Code, ins.operands[k]) # "i32"

(* A store of type ty to the local l; one wider than the slot writes over  *)
(* its neighbours.                                                         *)
Overruns(func, l, ty) == Size[ty] > Size[func.locals[l]]

(* Ins::Assign and Ins::AllocGc *)
Execute ==
  /\ AtInstruction
  /\ LET ins == Block.instructions[Top.pc]
         ty  == ValueType(Code, ins)
     IN  /\ ~Traps(ins)
         /\ ~Overruns(Code, ins.place, ty)
         /\ SetTop(Top.block, Top.pc + 1,
                   [Top.slots EXCEPT
                      ![ins.place] = StoredIn(Code.locals[ins.place], ty, Evaluate(ins))])
  /\ UNCHANGED <<text, program, phase, rt_stack, ret>>

Trap ==
  /\ AtInstruction
  /\ MayTrap(Block.instructions[Top.pc])
  /\ phase' = "trapped"
  /\ UNCHANGED <<text, program, frames, rt_stack, ret>>

-----------------------------------------------------------------------------
AtTerminator(kind) ==
  /\ phase = "running"
  /\ Top.pc = Len(Block.instructions) + 1
  /\ Block.ins_final.kind = kind

(* Mutant: whichever block is entered, its code starts with the prologue.  *)
PrologueEverywhere(block) == 0

(* Only the entry block has the prologue. *)
StartOf(block) == 1

GoTo(block, slots) == SetTop(block, StartOf(block), slots)

Jump ==
  /\ AtTerminator("Br")
  /\ GoTo(Block.ins_final.next, Top.slots)
  /\ UNCHANGED <<text, program, phase, rt_stack, ret>>

(* Mutant: the targets of a branch swapped. *)
TakenOnFalse(term, v) ==
  {term.is_true : x \in {v} \ {1}} \cup {term.is_false : x \in {v} \ {0}}

(* Any byte but 0 is true. *)
Taken(term, v) ==
  {term.is_true : x \in {v} \ {0}} \cup {term.is_false : x \in {v} \cap {0, Undef}}

Branch ==
  /\ AtTerminator("BrIf")
  /\ \E block \in Taken(Block.ins_final, Top.slots[Block.ins_final.cond]) :
       GoTo(block, Top.slots)
  /\ UNCHANGED <<text, program, phase, rt_stack, ret>>

(* The caller waits after its terminator's call instruction. *)
Invoke ==
  /\ AtTerminator("Call")
  /\ Depth < MaxDepth
  /\ LET term    == Block.ins_final
         actuals == [i \in DOMAIN term.args |-> Top.slots[term.args[i]]]
         waiting == [Top EXCEPT !.pc = @ + 1]
     IN  frames' = Append([frames EXCEPT ![Depth] = waiting], NewFrame(term.func, actuals))
  /\ UNCHANGED <<text, program, phase, rt_stack, ret>>

(* pop_stack_frame, then the value is loaded with the function's type. *)
Leave ==
  /\ AtTerminator("Return")
  /\ rt_stack' = SubSeq(rt_stack, 1, Len(rt_stack) - 1)
  /\ LET l == Block.ins_final.value
     IN  ret' = IF l = None THEN None
                ELSE LoadAs(Code.return_type, Code.locals[l], Top.slots[l])
  /\ frames' = SubSeq(frames, 1, Depth - 1)
  /\ phase' = IF Depth = 1 THEN "returned" ELSE phase
  /\ UNCHANGED <<text, program>>

(* The rest of a call's terminator, in the caller. *)
AfterCall ==
  /\ phase = "running"
  /\ Top.pc = Len(Block.instructions) + 2

Resume ==
  /\ AfterCall
  /\ LET term   == Block.ins_final
         stored == program[term.func].return_type
         l      == term.store_ret
     IN  /\ l # None => ~Overruns(Code, l, stored)
         /\ GoTo(term.next,
                 IF l = None THEN Top.slots
                 ELSE [Top.slots EXCEPT ![l] = StoredIn(Code.locals[l], stored, ret)])
  /\ ret' = None
  /\ UNCHANGED <<text, program, phase, rt_stack>>

(* A store wider than its slot. *)
Overrun ==
  /\ \/ /\ AtInstruction
        /\ LET ins == Block.instructions[Top.pc]
           IN  Overruns(Code, ins.place, ValueType(Code, ins))
     \/ /\ AfterCall
        /\ LET term == Block.ins_final
           IN  /\ term.store_ret # None
               /\ Overruns(Code, term.store_ret, program[term.func].return_type)
  /\ phase' = "wild"
  /\ UNCHANGED <<text, program, frames, rt_stack, ret>>

(* Compiled code between the embedder's call and its return. *)
Run ==
  \/ Prologue
  \/ Execute
  \/ Trap
  \/ Jump
  \/ Branch
  \/ Invoke
  \/ Leave
  \/ Resume
  \/ Overrun

Next ==
  \/ parse_mir_program
  \/ compile_program
  \/ \E f \in DOMAIN program :
       \E actuals \in [DOMAIN program[f].args -> Actuals] : CallFromRust(f, actuals)
  \/ Run

(* One thread runs the code and nothing suspends it. *)
Spec == Init /\ [][Next]_vars /\ WF_vars(Run)

-----------------------------------------------------------------------------
(* Frames of the program's functions. *)
Frame ==
  {fr \in [fn : DOMAIN program, block : Nat, pc : Nat, slots : Seq(Int \cup {Undef})] :
     LET func == program[fr.fn]
     IN  /\ fr.block \in DOMAIN func.blocks
         /\ fr.pc <= Len(func.blocks[fr.block].instructions) + 2
         /\ DOMAIN fr.slots = DOMAIN func.locals}

(* In particular no compiled instruction uses an id that is out of range.  *)
TypeOK ==
  /\ text \in Texts
  /\ program \in {<< >>, Functions(text)}
  /\ phase \in {"text", "parsed", "compiled", "running", "returned",
                "rejected", "trapped", "wild"}
  /\ frames \in Seq(Frame)
  /\ ret \in Int \cup {Undef, None}

(* While the frame on top is before its push_stack_frame, the runtime does *)
(* not know it yet.                                                        *)
Registered == IF Depth > 0 /\ Top.pc = 0 THEN Depth - 1 ELSE Depth

(* At every instruction the runtime's stack lists the frames on the        *)
(* machine stack and no other, each once, with the gc slots of its own     *)
(* function: through loops back to any block, recursion, and returns out   *)
(* of any block.  A slot registered after its frame is gone, or twice,     *)
(* would be read or written by a later collection as a root.               *)
FramesRegistered ==
  /\ Len(rt_stack) = Registered
  /\ \A i \in 1..Registered : rt_stack[i] = {<<i, l>> : l \in Roots(frames[i].fn)}

(* The compiler takes exactly the texts that make sense up to mixed types  *)
(* in stores, where names are not ambiguous: it panics neither on a good   *)
(* text, nor takes one with a dangling name, a call that does not match    *)
(* its callee or its result, or a branch that would run the prologue again.*)
AcceptsWellFormed ==
  /\ phase = "rejected" => ~(Unambiguous(text) /\ FitsTogether(text))
  /\ phase = "compiled" => (Unambiguous(text) => FitsTogether(text))

(* Compiled code does what the text says, line by line, for texts whose    *)
(* names and types are in order: see MirMeaning.  In particular `call`     *)
(* reads its operands as meant and no store leaves its slot.               *)
SensibleTexts == {t \in Texts : Unambiguous(t) /\ NoGcParameters(t) /\ WellTyped(t)}

Sensible == text \in SensibleTexts

(* By name: the value of a local is in the slot of its last declaration.   *)
Environment(fr) ==
  LET item == text[fr.fn]
  IN  [n \in NamesIn(item.lets) |->
         IF fr.pc = 0 /\ LocalType(item, n) = "gc" THEN 0 ELSE fr.slots[LocalId(item, n)]]

Activations ==
  [i \in DOMAIN frames |->
     [fn    |-> text[frames[i].fn].name,
      block |-> text[frames[i].fn].blocks[frames[i].block].name,
      line  |-> IF frames[i].pc = 0 THEN 1 ELSE frames[i].pc,
      env   |-> Environment(frames[i])]]

Outcome ==
  IF ~Sensible \/ phase \in {"text", "parsed", "compiled", "rejected"} THEN "idle" ELSE phase

Meant == INSTANCE MirMeaning WITH
  calls   <- IF Sensible THEN Activations ELSE << >>,
  outcome <- Outcome,
  result  <- IF Sensible THEN ret ELSE None

ImplementsText == Meant!Spec

=============================================================================
