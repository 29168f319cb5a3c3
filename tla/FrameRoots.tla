----------------------------- MODULE FrameRoots -----------------------------
(***************************************************************************)
(* Where the runtime looks for the root slots of a frame.                  *)
(*                                                                         *)
(* compile_program (cf_build.rs) registers the offset of each gc slot in   *)
(* the frame layout that Cranelift reports; compiled code passes its frame *)
(* pointer to push_stack_frame (runtime/mod.rs), which subtracts the       *)
(* offset from it.  Runtime and MirMachine take the result to be the slot; *)
(* here it is an address, counted in words.                                *)
(*                                                                         *)
(* The layout of a frame is Cranelift's, outside the repository, and       *)
(* modelled as version 0.128 has it: slots of at least a word, in the      *)
(* order of their creation, from the bottom of the frame up, the whole     *)
(* rounded up to 16 bytes, with the saved registers between them and the   *)
(* frame pointer.  A slot's offset counts from the bottom of the frame.    *)
(* Arguments are passed in registers.                                      *)
(***************************************************************************)
EXTENDS Naturals, Sequences

CONSTANTS
  Func,       \* compiled functions
  GcLocal,    \* GcLocal[fn]: of each local in order, whether its type is GcRef;
              \* locals are a word long
  Saved,      \* words of registers that a function saves
  StackTop,   \* the frame pointer of an outermost function
  MaxDepth    \* bound: call depth

VARIABLES
  roots,      \* RtFuncData of the functions compiled so far: root offsets
  frames,     \* machine frames, outermost first: function and frame pointer
  rt_stack    \* the runtime's frames: root addresses

vars == <<roots, frames, rt_stack>>

-----------------------------------------------------------------------------
(* The frame layout. *)

slot_offset(l) == l - 1

frame_to_fp_offset(fn) ==
  LET slots == Len(GcLocal[fn])
  IN  slots + (slots % 2) + Saved

(* The address of a slot, which stack_store and stack_load use.            *)
SlotAddress(frame, l) == frame.fp - frame_to_fp_offset(frame.fn) + slot_offset(l)

-----------------------------------------------------------------------------
(* gc_root_stackslots of function_to_cranelift *)
gc_roots(fn) == {l \in DOMAIN GcLocal[fn] : GcLocal[fn][l]}

Init ==
  /\ roots = << >>
  /\ frames = << >>
  /\ rt_stack = << >>

(* The loop of compile_program, for one function. *)
CompileFunction(fn) ==
  /\ fn \notin DOMAIN roots
  /\ roots' = [f \in DOMAIN roots \cup {fn} |->
                 IF f = fn THEN {slot_offset(l) : l \in gc_roots(fn)} ELSE roots[f]]
  /\ UNCHANGED <<frames, rt_stack>>

(* The frame of a call, below the caller's, its return address and the     *)
(* saved frame pointer.                                                    *)
CalleeFp ==
  IF frames = << >> THEN StackTop
  ELSE LET caller == frames[Len(frames)]
       IN  caller.fp - frame_to_fp_offset(caller.fn) - 2

(* A call: the entry block passes its frame pointer to push_stack_frame.   *)
PushStackFrame(fn) ==
  /\ DOMAIN roots = Func
  /\ Len(frames) < MaxDepth
  /\ frames' = Append(frames, [fn |-> fn, fp |-> CalleeFp])
  /\ rt_stack' = Append(rt_stack, {CalleeFp - offset : offset \in roots[fn]})
  /\ UNCHANGED roots

PopStackFrame ==
  /\ frames # << >>
  /\ frames' = SubSeq(frames, 1, Len(frames) - 1)
  /\ rt_stack' = SubSeq(rt_stack, 1, Len(rt_stack) - 1)
  /\ UNCHANGED roots

Next ==
  \/ \E fn \in Func : CompileFunction(fn) \/ PushStackFrame(fn)
  \/ PopStackFrame

Spec == Init /\ [][Next]_vars

-----------------------------------------------------------------------------
(* Each registered frame lists the addresses of its gc slots: what the     *)
(* comment on RtFuncData::roots says of the offsets ("Negative offsets     *)
(* from the frame pointer"), and what Runtime and MirMachine rely on when  *)
(* push_stack_frame writes null there and sweep reads there.               *)
RootsAreSlots ==
  \A i \in DOMAIN rt_stack :
    rt_stack[i] = {SlotAddress(frames[i], l) : l \in gc_roots(frames[i].fn)}

=============================================================================
