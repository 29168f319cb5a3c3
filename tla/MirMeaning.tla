----------------------------- MODULE MirMeaning -----------------------------
(***************************************************************************)
(* What running a MIR text means: an interpreter that goes through the     *)
(* text by its names, with one environment for each activation.  No ids,   *)
(* slots, frames or types, no parser and no compiler.                      *)
(***************************************************************************)
EXTENDS MirRules

CONSTANT Actuals   \* arguments of the first call

VARIABLES
  text,     \* the text
  calls,    \* activations, outermost first
  outcome,  \* "idle", "running", "returned" or "trapped"
  result    \* what the last return gave, while it is under way

vars == <<text, calls, outcome, result>>

(* A local starts as null if it is a gc pointer, as anything otherwise.    *)
(* When two parameters share a name it has the last argument's value.      *)
Activation(item, actuals) ==
  LET Passed(n) == {i \in DOMAIN item.args : item.args[i] = n}
  IN  [fn    |-> item.name,
       block |-> item.blocks[1].name,
       line  |-> 1,
       env   |-> [n \in NamesIn(item.lets) |->
                    IF LocalType(item, n) = "gc" THEN 0
                    ELSE IF Passed(n) = {} THEN Undef
                    ELSE actuals[CHOOSE i \in Passed(n) : \A j \in Passed(n) : j <= i]]]

Init ==
  /\ calls = << >>
  /\ outcome = "idle"
  /\ result = None

(* The activation that has control, if any. *)
Acting == IF outcome = "running" THEN {calls[Len(calls)]} ELSE {}

Callers == SubSeq(calls, 1, Len(calls) - 1)

Update(act) == calls' = Callers \o <<act>>

At(act, block) == [act EXCEPT !.block = block, !.line = 1]

ItemOf(act)  == Named(text, act.fn)
BlockOf(act) == Named(ItemOf(act).blocks, act.block)

Begin ==
  /\ outcome = "idle"
  /\ \E item \in Range(text) : \E actuals \in [DOMAIN item.args -> Actuals] :
       calls' = <<Activation(item, actuals)>>
  /\ outcome' = "running"
  /\ UNCHANGED <<text, result>>

Meaning(act, o) == IF o.kind = "place" THEN act.env[o.name] ELSE o.val

MeaningOf(act, line) ==
  CASE line.op = "alloc" -> 1
    [] line.op = "read"  -> Meaning(act, line.operands[1])
    [] OTHER -> BinOp(line.op, "i32", Meaning(act, line.operands[1]), Meaning(act, line.operands[2]))

Line(act) ==
  /\ act.line \in DOMAIN BlockOf(act).body
  /\ LET line == BlockOf(act).body[act.line]
     IN  /\ line.op = "div" => ~DivTraps(Meaning(act, line.operands[1]), Meaning(act, line.operands[2]))
         /\ Update([act EXCEPT !.line = @ + 1, !.env[line.place] = MeaningOf(act, line)])
  /\ UNCHANGED <<text, outcome, result>>

DivisionTraps(act) ==
  /\ act.line \in DOMAIN BlockOf(act).body
  /\ LET line == BlockOf(act).body[act.line]
         m    == Meaning(act, line.operands[1])
         n    == Meaning(act, line.operands[2])
     IN  line.op = "div" /\ (Undef \in {m, n} \/ DivTraps(m, n))
  /\ outcome' = "trapped"
  /\ UNCHANGED <<text, calls, result>>

AtEnd(act, ins) ==
  /\ act.line = Len(BlockOf(act).body) + 1
  /\ BlockOf(act).ins = ins

(* `br next` *)
GoOn(act) ==
  /\ AtEnd(act, "br")
  /\ Update(At(act, BlockOf(act).operands[1]))
  /\ UNCHANGED <<text, outcome, result>>

(* `brif cond yes no` *)
Decide(act) ==
  /\ AtEnd(act, "brif")
  /\ LET op   == BlockOf(act).operands
         cond == act.env[op[1]]
     IN  \/ cond # 0 /\ Update(At(act, op[2]))
         \/ cond \in {0, Undef} /\ Update(At(act, op[3]))
  /\ UNCHANGED <<text, outcome, result>>

(* `call f ...`; this activation waits at the line after its last. *)
CallItem(act) ==
  /\ AtEnd(act, "call")
  /\ LET op      == BlockOf(act).operands
         args    == CallReading(ItemOf(act), op).args
         actuals == [i \in DOMAIN args |-> act.env[args[i]]]
         waiting == [act EXCEPT !.line = @ + 1]
     IN  calls' = Callers \o <<waiting, Activation(Named(text, op[1]), actuals)>>
  /\ UNCHANGED <<text, outcome, result>>

(* `return` or `return v` *)
Answer(act) ==
  /\ AtEnd(act, "return")
  /\ result' = LET op == BlockOf(act).operands
               IN  IF op = << >> THEN None ELSE act.env[op[1]]
  /\ calls' = Callers
  /\ outcome' = IF Len(calls) = 1 THEN "returned" ELSE "running"
  /\ UNCHANGED text

(* Back in the caller: the result goes where the call says. *)
Deliver(act) ==
  /\ act.line = Len(BlockOf(act).body) + 2
  /\ LET reading == CallReading(ItemOf(act), BlockOf(act).operands)
         next    == At(act, reading.next)
     IN  Update(IF reading.store = << >> THEN next
                ELSE [next EXCEPT !.env[reading.store[1]] = result])
  /\ result' = None
  /\ UNCHANGED <<text, outcome>>

Next ==
  \/ Begin
  \/ \E act \in Acting :
       \/ Line(act)
       \/ DivisionTraps(act)
       \/ GoOn(act)
       \/ Decide(act)
       \/ CallItem(act)
       \/ Answer(act)
       \/ Deliver(act)

Spec == Init /\ [][Next]_vars

=============================================================================
