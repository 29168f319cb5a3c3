# EmScript2 in TLA+

A verification project for EmScript2: a compiler from a textual mid-level
representation (MIR) to machine code, and the garbage-collected runtime the
compiled code runs on. File names below are under `src/emscript_main/src/`.

## The system

| part | state | operations | interacts with |
|---|---|---|---|
| MIR front end, `dag_program/human_format.rs` | tables of locals, blocks and functions by name | parse a text into a `Program` | interner |
| Interner and layout, `dag_program/mod.rs` | `id2info`, `info2id` | `get_id`, `declare_type`, `define_type`, `layout` | front end, compiler |
| Compiler, `dag_program/cf_build.rs` | one Cranelift function at a time | translate functions, choose root slots, register types and roots | registers with the runtime; emitted code calls builtins |
| Runtime, `runtime/mod.rs` | `stack`, `heap`, `extern_refcount`, `types`, `funcs`, behind one mutex | builtins `push_stack_frame`, `pop_stack_frame`, `alloc_gc`; `safepoint`, `sweep`, counts | called by compiled code and by handles |
| `Gc<T>`, `runtime/mod.rs` | a pointer, counted in `extern_refcount` | `new`, `clone`, `drop`, `as_ptr`, `Deref` | the embedder's only hold on blocks |
| `Rooted<T>` and `NonRooted<T>`, module `testing` | likewise; pointers inside objects are not counted | `new`, `null`, `clone`, `drop`, `as_rooted`, `set` | prototype of a safe replacement of `Gc<T>` |
| `interp.rs`, `rich_ast`, grammar, examples | | | not modelled, or only as the embedder (below) |

A collection happens at a *safepoint*: on entry to every compiled function, and
when the last handle on a block is dropped. Its roots are the slots the
compiler registered for each frame on `rt.stack`, and the counted addresses.

What is hard here: a pointer the collector does not see is harmless until a
much later safepoint, in another function, with another handle; a freed address
comes back with another type; the return register is invisible to the runtime
for a moment; the roots and field offsets the collector trusts are computed by
another component; memory is handed out uncleared; a panic inside the runtime
aborts the process or poisons its mutex; names become ids by tables in which a
later declaration hides an earlier one; the compiler checks types where it
happens to look at them, and leaves the rest to Cranelift's verifier or to
nobody; a store is as wide as its value, not as its slot.

What makes each part correct:

- collector: nothing a program can reach is freed, all else is at some sweep; marking ends and reads only allocated blocks;
- handles: counts equal the handles that exist;
- compiler: every gc pointer a program holds at a safepoint is in a slot or at an offset the runtime knows, places are inside their object;
- front end and compiler: what is compiled is what the text declares; what does
  not fit together is rejected, and the code that runs does what the text says.

## The modules

| module | models | checked by |
|---|---|---|
| `Reachability` | least closed set of a pointer graph (a measure, not code) | via the others |
| `GcHeap` | the heap half of `Runtime`: operators from runtime value to runtime value | via the others |
| `Runtime` | compiled functions, builtins, `Gc<T>` handles, one thread | `MCRuntime` |
| `AbstractGc` | what any collector promises; `Runtime` implements it | property `ImplementsCollector` |
| `MarkSweep` | the loops of `sweep`, one iteration a step | `MCMarkSweep` |
| `RootedApi` | `Rooted` and `NonRooted` | `MCRootedApi` |
| `TypeTable` | interner, layout, type registration, places | `MCTypeTable` |
| `FrameRoots` | root offsets and the addresses made of them, over Cranelift's frame layout | `MCFrameRoots` |
| `MirValues` | types and values of locals, `BinOp` at machine width | via the others |
| `MirText` | the parser of function items: names to ids, `call` operands, blocks | via `MirMachine` |
| `MirMachine` | the compiler's panics, Cranelift's verifier, the emitted code on a stack of frames | `MCMir` |
| `MirRules`, `MirMeaning` | reference: which texts fit together, and what running one means, by name | properties `AcceptsWellFormed`, `ImplementsText` |
| `GcHeapProofs`, `RuntimeProofs` | theorems on `Runtime`, and the lemmas on `GcHeap` all share | TLAPS |
| `MarkSweepProofs`, `RootedApiProofs` | theorems on the loops of `sweep`, on `CloningSpec` | TLAPS |
| `MirTextProofs`, `MirProofs` | lemmas on the parser, theorems on `MirMachine` | TLAPS |
| `Folding`, `TypeTableProofs` | what folds and recursive functions compute; theorems on `TypeTable` | TLAPS |

**GcHeap.** A runtime value has `heap`, `mem`, `extern_refcount` as in the
struct (`mem` is the contents of the pointer fields of each block), and
`panicked`. Several of the code's methods run in one critical section of
`with_instance`, so each is an operator, and operators compose as the calls do:
a decrement contains a safepoint, a safepoint a sweep. The result is a set
where the outcome depends on the clock (`safepoint` skips a sweep if no time
has passed) or on indeterminate memory. An unwritten word is `Wild`; a sweep
that reads one may find any words, chosen as one set for the whole sweep.

**Runtime.** `stack` holds the machine frames, of which `rt.stack` is the list
of root slots. An action is one MIR instruction or terminator (`Assign`,
`AllocPlace`, `Call`, `Return`, `StoreRet`) or one embedder operation
(`CallFromRust`, `GcNewFromReturn`, `GcClone`, `GcNewFromField`,
`GcStoreField`, `GcDrop`). Which instructions a function consists of is left
open, so the model covers every program over its locals. `ret` is the return
register, filled by `Return` and emptied by `StoreRet` or the embedder. A
non-gc value is not modelled; a place `<<l, f>>` has at most one dereference,
longer ones go through another local. `Untracked` locals are those that hold a
gc pointer without having type `GcRef`. Dereferencing null kills the process
and is not a step. The embedder wraps a returned address before it calls or
drops anything, as `main.rs` does and `Gc::new` requires.

**MarkSweep** starts from every heap without dangling pointers, with every
choice of frame roots and counted addresses, and takes hash tables and offsets
in every order. Its reference is `GcHeap!Sweep`: the two are independent, one a
loop and one a least closed set.

**RootedApi.** `NextCloning` is the interface without moving a `Rooted` into a
new object; `Next` has all of it. A panic stops everything, since
`with_instance` unwraps the mutex.

**TypeTable** runs the parser's two passes and the registration loop over every
small text. Layouts are computed bottom up, level by level; the code recurses
top down. Both give the same on types where the recursion ends; where it does
not, the action is `Overflow`, the abort of the process.

**FrameRoots** is where a root is an address. `Runtime` and `MirMachine`, their
runs and their theorems take the root the compiler registers for a local to be
that local's slot. By `FrameRoots` it seldom is (finding 7), so what they show is
of a runtime that has the right addresses. A frame's layout is
Cranelift's, not the repository's, and is modelled as version 0.128 reports it.

**MirMachine** takes a text through the stages of the program: `"text"`,
`"parsed"`, `"compiled"`, `"running"`, `"returned"`; or it ends as `"rejected"`
(a panic of the parser or the compiler), `"trapped"` (the division
instruction), or `"wild"` (a store wider than its slot, after which nothing is
modelled).

| code | model |
|---|---|
| `parse_mir_program`: function passes, `peeking_next` in `call`, blocks defined by name | `MirText`: `IdOf`, `Call`, `StoreRet`, `BasicBlock`, `Func`, `NamesResolve`; action `parse_mir_program` |
| `function_to_cranelift`: the `match`es that panic | `InstructionCompiles`, `TerminatorCompiles` |
| `define_function`: signature, operand types, entry block (Cranelift) | `InstructionVerified`, `TerminatorVerified` (external) |
| arguments stored in slots, `push_stack_frame` | `NewFrame`, `Prologue` |
| `Ins::Assign`, `Ins::AllocGc`; a store of the value's width | `Execute`, `Overrun` |
| `Br`, `BrIf`, `Call`, `Return` | `Jump`, `Branch`, `Invoke` and `Resume`, `Leave` |

Types are given to it (`TypeTable` makes them) and places are locals
(projections are in `TypeTable` and `Runtime`). It does not contain the
collector: `Runtime` takes for granted that an activation registers its root
slots once, before its first instruction, and unregisters them when it returns.
`FramesRegistered` is that assumption, shown of the real control flow. In the
other direction, a gc value is only null or not null here.

`MirMeaning` interprets the text by its names: environments instead of slots,
no ids, no widths, no parser and no compiler; `call` is read by another rule
(the next block is the first operand that names a block) than the parser's (the
result's place is the operand that names a local). They agree on texts in which
no function has a local and a block of one name (`Unambiguous`).
`AcceptsWellFormed` compares the compiler with the static rules of `MirRules`;
`ImplementsText` says that the code refines the interpreter, for texts whose
types agree and without gc parameters, whose arguments the prologue wipes
(finding 1). What a local holds before its first store is `Undef`: any value,
in both.

### Contract

The collector is exact for programs that keep three conditions no compiler pass
enforces. They are definitions in `Runtime`, not hidden in guards, and the
runs `runtime_untracked`, `runtime_embedded` and `runtime_uninit` drop the first, in
its two halves, and the third:

- `RootMapComplete`: no gc pointer in an untracked local or in a struct embedded in a block;
- `TypesAgree`: a pointer is stored only where a pointer of its type is declared (`Assignable` says which types a program mixes; the compiler compares none);
- `WritesBeforeReads`: no safepoint between an `alloc` and the stores to the block's pointer fields while the block is reachable for marking, and no unwritten field loaded into a local. It asks nothing of the slots of a frame that is being entered: that a sweep finds none of them unwritten is up to `push_stack_frame`, and a conjunct of `GcInv`.

`DisciplinedSpec` is `Spec` restricted to steps that keep the third; the other
two are conditions on constants. With `Spec` the code panics, with an incomplete
root map it frees blocks in use (see Findings). Nothing enforces the second
either: a store compares no types (`cf_build.rs:372`), so with a larger
`Assignable` one store breaks `WellTyped`, and no run repeats that.

## The runs

Distinct states are those of a full run with the symmetry of the cfg.

| run | states | shows |
|---|---|---|
| `runtime_safe` | 33 k | under the contract: `NoDangling`, `WellTyped`, `NeverPanics`, `RefcountExact`, inductive `GcInv`, refinement of `AbstractGc` |
| `runtime_argument` | violation | a gc argument does not reach the callee |
| `runtime_uninit` | violation | without `WritesBeforeReads`, a sweep follows unwritten memory |
| `runtime_untracked` | violation | with an untracked local, a block in use is freed |
| `runtime_embedded` | violation | with a gc pointer in an embedded struct, a block in use is freed |
| `frame_roots` | violation | the registered addresses are not those of the gc slots |
| `sweep_graphs` | 645 k | the loops end and compute `Sweep`, also over unwritten fields; tri-colour invariant |
| `rooted_clones` | 9 k | objects stay valid, counts match, exactly the garbage goes |
| `rooted_move` | violation | moving the last `Rooted` into a new object frees it |
| `type_texts` | 22 k | the interner's maps agree, layout, places, type table, placeholders |
| `type_large_struct` | violation | a large struct is copied in part |
| `mir_programs` | 12 k | every frame registered once, accepted texts are the well-formed ones, code does what the text says, Fibonacci answers |

Bounds. `runtime_safe`: three addresses, two handles, calls two deep, two
types (`Node` with a pointer to each type, `Leaf` with none), two functions with
two pointer locals each. A wrong free needs a block, a second one to reach it
from, and a place to reuse the address; an error between frames needs two
frames; a count needs two handles on one block. `sweep_graphs`: three
two-pointer blocks give every cycle and sharing pattern of three nodes, with one
frame root and one counted address, which may be equal; lists of three Nodes add
the unwritten words. It has a liveness property, so TLC may not use a symmetry:
`Canonical` keeps one of the initial states that differ in names only. `rooted_clones`: four objects and
variables, one more than `test_runtime_gc`. `type_texts`: one struct with up to
three fields or two with up to two and one, over eight field types, so that
fields of size 1 and 8, embedding, recursion, indirect recursion, repeated names
and a struct called `bool` all occur; places of up to three projections. `mir_programs`: 3254 texts, generated and
not listed: each call with up to three operands after the function, over names
that are a local, a block, both or neither, against every signature of the
callee; each branch and return likewise; each single line with operands of every
type; a block declared twice; a call from a loop; and `mir_fib.txt` as it is in
the repository, recursive and iterative. `Actuals` is 0, 1 and 5, so that
branches go both ways and recursion is as deep as `MaxDepth`, 5, allows.
`IntMax`, 127, stands for the largest `i32`: arithmetic wraps around in the same
way, and texts do reach the divisions that trap.

`CHECK_DEADLOCK FALSE` where the modelled algorithm ends (`MarkSweep`,
`TypeTable`, and `MirMachine`, whose program returns, traps, is rejected or
reaches `MaxDepth`). `Runtime` and `RootedApi` have no step that stops for good in the
passing runs, so deadlock is checked there.

Fairness is assumed twice. `MarkSweep` has `WF_vars(Next)`: the loop runs in one
thread that holds the runtime's lock until `sweep` returns; `Terminates` needs
nothing more. `MirMachine` has `WF_vars(Run)`: compiled code runs on the
embedder's thread and nothing suspends it; `FibonacciAnswers` needs it from the
call to the return, and says nothing of whether the embedder calls. Elsewhere
the code promises no progress: a program may simply not call anything, and a
safepoint may skip its sweep.

## The proofs

Each theorem is for every value of the constants: any number of functions,
types, addresses, handles, blocks and frames, any heap, any text.

| module | theorem | states |
|---|---|---|
| `RuntimeProofs` | `TypeCorrect` | `Spec => []TypeOK`, no assumption on programs |
| `RuntimeProofs` | `Invariant`, `Safety`, `NoPanic`, `CountsExact` | under the contract: `GcInv`, `NoDangling`, `NeverPanics`, `RefcountExact` |
| `RuntimeProofs` | `Refinement`, `PointersTyped` | under the contract: `ImplementsCollector`; with `TypesAgree` too, `WellTyped` |
| `MarkSweepProofs` | `TypeCorrect`, `TriColour`, `SweepCorrect` | `TypeOK`, `NothingForgotten`, `ComputesSweep` |
| `RootedApiProofs` | `TypeCorrect`, `WellFormed`, `CountsExact`, `FreesGarbage` | of `CloningSpec`: `TypeOK`, `HeapWellFormed`, `RootedCounted`, `FreesExactlyGarbage` |
| `TypeTableProofs` | `TypeCorrect`, `PrimitivesKept`, `PlaceholdersGone` | of the interner: `TypeOK` with `MapsAgree` and `RtTypesInStep`, `PrimitivesStay`, `NoPlaceholderUsed` |
| `TypeTableProofs` | `StructsLaidOut`, `PlacesInside`, `PointersRegistered` | of the layouts: `FieldsDisjoint`, `PlacesFit(n)` for every `n` (`PlacesInBounds` is `PlacesFit(3)`), `RegisteredPointers` |
| `MirProofs` | `TypeCorrect`, `RootsRegistered`, `AcceptsExactly` | `TypeOK`, `FramesRegistered`, `AcceptsWellFormed` |
| `MirProofs` | `TextImplemented` | `ImplementsText` |

*Runtime.* `NoDangling` is not inductive. It speaks of what is reachable and a
sweep follows roots; to know that nothing held is freed one needs that every
handle is counted (`RefcountExact`) and every local a root (`RootMapComplete`);
to know that the sweep does not panic, that no block, not even garbage, points
to a freed one (`HeapClosed`), because a program could otherwise find it again.
`GcInv` is their conjunction, with what `push_stack_frame` sees to, that no root
slot is unwritten when a sweep reads it (the contract does not promise that). It is checked
by TLC in `runtime_safe` beside the proof. The argument, per action: stores and loads move pointers that were held or in
the heap already (`Held` and `HeapClosed` stay); `alloc_gc` adds a block whose
fields are unwritten; a sweep keeps a set closed under the fields of its blocks,
and it contains every root, hence everything held.

*Refinement.* From `GcInv`, a step of `Runtime` is a step of `AbstractGc` or a
stutter. The sweeps are the hard part: the abstract collector frees all of what
no pointer of the program leads to and nothing else, so what a sweep starts
from must be exactly what the program holds: registered slots are the locals
by `RootMapComplete`, counted addresses the handles by `RefcountExact`. `PointersTyped` adds to
`GcInv` that every usable pointer and every written field finds a block of its
declared type; reuse of an address is sound because nothing held was freed.

*MarkSweep.* `Inv` follows the loops: nothing dangles in the heap sweep was called on
(`Begun`); while roots are collected each is on the visit stack or pending
(`Collecting`); while marking, each root is marked or to be visited, and nothing
else than the reachable is (`Marking`), with the tri-colour `NothingForgotten`;
when the stack is empty the marked set is thus closed, and retaining removes
from the table what is not in it (`Retaining`). `ComputesSweep` is then that
marked set against the least closed set of `GcHeap!Sweep`.

*RootedApi.* The invariant is that the heap is closed, that no field of a block
is unwritten (`Rooted::new` writes the whole object), that every `Rooted` finds
an object, and that counts are exact. A decrement then sweeps a heap whose
roots are what `Rooted` values exist.

*TypeTable.* What it computes are folds (over the fields of a struct and the
references of a path) and a recursive function (over levels of embedding), so
its theorems need induction. `Folding` gives it without an operator parameter:
a set of naturals that has 0 and each successor is all of them, from the
library's well-founded relations; a fold is the last of the values of its run;
and a step function defines its recursion. Each property of a fold is then one
step of its run. The invariant of the parser, `ParseInv`, is that both maps of
the interner mention ids and types that exist (`IsTable`), that the primitives
are its first four entries (`HasPrims`), that the maps lead to each other
(`Agrees`), that names have ids and those of
structs lie beyond the primitives (`NamesKept`: this is why no text redefines
`i32`, a struct called `i32` included), and that what has been read is defined
and whatever a type mentions is either named or a pointer (`Defined`). The maps agree because a definition
goes to an id that no info leads to, a placeholder, or to one of a struct of the
same name: after that an info of the first struct leads to the second. At the
end of the second pass all that is named is defined, hence `PlaceholdersGone`.
The table says nothing of what a struct's fields are, so the layouts are a
second part: each level of `Layouts` lays out, by a run over the fields, only
types whose fields are laid out on the level below (`LevelsGrow`, `LayoutsFit`),
with `RoundsUp` for the padding. `PlacesInside` is by induction over the
projections, any number of them, where the run looks at three. `RegisteredPointers`
is about a type's own fields; it says that the missing pointers of finding 4 are
the only ones.
`PointersRegistered` needs of the loop that what it has written stays the
layout's (`Registered`, with `ParseInv` the inductive `IInv`).

*MirMachine.* `Inv` has: the text was accepted if there is code (`Accepted`), no
frames before it runs (`Idle`), every frame below the top stands after a call
whose callee is the function above it (`Nested`), a return register is filled as
the function above declared when a caller resumes (`Answered`), and `rt_stack`
is the list of the registered frames (`Stacked`). `Nested` is what makes
`Leave` pop the slots of the frame that ends. `MirTextProofs` shows what names
that resolve give: ids in range, in every position the machine uses.
`TypeCorrect` therefore says that code that compiles mentions no local, block,
function or operand that is not there, whatever the text. `AcceptsExactly`
compares the checks with the rules, text by text: a lemma for a line and for
each terminator (`LineFits`, `BrFits`, `BrIfFits`, `CallFits`, `ReturnFits`),
and one that a block whose name is declared again cannot compile (`TakenName`).
`CallFits` is where the two readings of a call meet; it needs that no name is
both a local and a block.

*What the text means.* `TextImplemented` maps each frame to an activation: the
names of its function and block for the ids, the line for the instruction, and
for each name the content of its slot (`View`, `Env`). Every step of the machine
is one step of `MirMeaning` or none: parsing, compiling and the prologue are
none, `Execute`, `Jump`, `Branch`, `Invoke`, `Leave`, `Resume` are one each, a
trapping division is one, and an `Overrun` is impossible when the types agree,
for then a store has its slot's width (`NoOverrun`). Three facts carry it. A
name has one slot and a slot one name, also where a declaration is repeated, so
that a store changes one name's value (`OwnSlot`, `EnvStored`). What the
parser's reading of a call makes of its operands is what the rules read
(`CallSource`, from `CallFits`). A result goes to the place of the very call
that the frame below stands at, whatever recursion lies between, which is
`Nested` and `Answered`. A text outside `SensibleTexts` maps to an interpreter
that stays idle: the theorem says nothing of it. One of its conditions, that no
parameter is a gc pointer, the proof does not use, as `MirMeaning` starts such a
name as null too; it keeps finding 1 out of what "does what the text says"
means.

Model-checked only: `FibonacciAnswers` and `Terminates`, which are liveness
under fairness. All invariants and refinements of the passing runs are theorems.

## Findings

Each is a run that TLC finds violated, against a sentence of the repository;
`PROJECT.json` has the quotations.

1. Gc arguments are nulled on function entry (`runtime_argument`).
2. Uncleared blocks are read by sweeps (`runtime_uninit`).
3. Gc pointers in locals that are not of type `GcRef` are not roots (`runtime_untracked`).
4. Gc pointers in structs embedded in blocks are not traced (`runtime_embedded`).
5. `Rooted::new` frees what it is about to store (`rooted_move`).
6. Struct sizes wrap at 2^16 on copy (`type_large_struct`).
7. Roots are registered at offsets from the bottom of the frame and looked for below the frame pointer (`frame_roots`).

## Plan

Built: `GcHeap`, `Runtime`, `AbstractGc`, `MarkSweep`, `RootedApi`, `TypeTable`;
`FrameRoots`; `MirText` to `MirMachine`, which are the function half of the front end and the
control flow of compiled code; the proofs above. Threads, once planned, are
dropped: `runtime/mod.rs:358` says the runtime does not support them.

Worth adding: structs and projections in `MirMachine`, which then could
run `run_example_mul2add1`; `MirMachine` composed with `Runtime`, in place of
the interface `FramesRegistered`; then the theorems of `Runtime` for the
programs the compiler makes, instead of for every program that keeps the contract.

## Not modelled, and why

- Code generation and linking: Cranelift's, as is the frame layout that `FrameRoots` takes as given. A root is its slot in `Runtime` and `MirMachine`.
- What the parser should make of a `call` whose operand names both a local and a block: nothing in the repository says (`Unambiguous`). What an ill-typed store of an integer does to the slots around it: the run ends there (`Overrun`).
- In `MirMachine`: structs, references, `f32` and `i64` locals, so also the example `mir_mul2add1.txt`; places with projections; functions of one name, whose bodies go into one function, and functions without blocks (`MachineAssumption`); names of operators and terminators that do not exist, a panic of the parser; the program's entrypoint, which the compiler does not read.
- `interp.rs`: commented out of the build. `rich_ast`: data types without operations. The grammar: pure parsing, generated by LALRPOP.
- `IntoRooted::root`: `todo!()`.
- Logging.
- Threads, and panics that unwind: the runtime is documented as single-threaded, and the models stop at the first panic.

## Running

    tlc -config RuntimeSafe.cfg MCRuntime.tla
    tlc -config MirPrograms.cfg MCMir.tla
    tlapm RuntimeProofs.tla
    tlapm MirProofs.tla

Proofs take up to ten minutes a module: `MirProofs` and `TypeTableProofs` are
the longest.

`PROJECT.json` lists every run with its module and cfg, a mutant of the code
for each property (defined next to what it mutates and marked `Mutant`), and
the source lines each definition stands for.
