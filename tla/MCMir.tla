-------------------------------- MODULE MCMir -------------------------------
(***************************************************************************)
(* Instances of MirMachine for TLC: the repository's text mir_fib.txt, and *)
(* small texts of a function "f" that may call "g", with every terminator  *)
(* over the names in scope, unknown ones, one that is both a local and a   *)
(* block, repeated declarations, and bodies that mix types.                *)
(***************************************************************************)
EXTENDS MirMachine

Let(name, ty) == [name |-> name, ty |-> ty]
BlockText(name, body, ins, operands) ==
  [name |-> name, body |-> body, ins |-> ins, operands |-> operands]
Item(name, args, rt, lets, blocks) ==
  [name |-> name, args |-> args, ret |-> rt, lets |-> lets, blocks |-> blocks]

P(n)    == [kind |-> "place", name |-> n, val |-> 0]
I(v)    == [kind |-> "i32", name |-> "", val |-> v]
Line(place, op, operands) == [place |-> place, op |-> op, operands |-> operands]

-----------------------------------------------------------------------------
(* mir_fib.txt *)
Fibonacci ==
  <<Item("fibonacci", <<"n">>, "i32", <<Let("n", "i32"), Let("tmp", "i32"), Let("cond", "bool")>>,
      <<BlockText("bb0", <<Line("cond", "le", <<P("n"), I(1)>>)>>, "brif", <<"cond", "base_case", "bb1">>),
        BlockText("base_case", << >>, "return", <<"n">>),
        BlockText("bb1", <<Line("n", "add", <<P("n"), I(-1)>>)>>, "call", <<"fibonacci", "tmp", "bb2", "n">>),
        BlockText("bb2", <<Line("n", "add", <<P("n"), I(-1)>>)>>, "call", <<"fibonacci", "n", "bb3", "n">>),
        BlockText("bb3", <<Line("n", "add", <<P("n"), P("tmp")>>)>>, "return", <<"n">>)>>),
    Item("fibonacci_iter", <<"n">>, "i32",
      <<Let("n", "i32"), Let("a", "i32"), Let("b", "i32"), Let("tmp", "i32"), Let("i", "i32"),
        Let("loop_cond", "bool")>>,
      <<BlockText("entry", <<Line("a", "read", <<I(0)>>), Line("b", "read", <<I(1)>>),
                             Line("i", "read", <<I(0)>>)>>, "br", <<"loop_head">>),
        BlockText("loop_head", <<Line("loop_cond", "lt", <<P("i"), P("n")>>)>>,
                  "brif", <<"loop_cond", "loop_body", "end">>),
        BlockText("loop_body", <<Line("i", "add", <<P("i"), I(1)>>), Line("tmp", "read", <<P("b")>>),
                                 Line("b", "add", <<P("a"), P("b")>>), Line("a", "read", <<P("tmp")>>)>>,
                  "br", <<"loop_head">>),
        BlockText("end", << >>, "return", <<"a">>)>>)>>

-----------------------------------------------------------------------------
B(v) == [kind |-> "bool", name |-> "", val |-> v]

StdLets == <<Let("x", "i32"), Let("c", "bool"), Let("r", "gc")>>

(* fn g: one block that allocates and returns what its type asks for. *)
G(args, rt) ==
  Item("g", args, rt, <<Let("a", "i32"), Let("d", "gc")>>,
       <<BlockText("g0", <<Line("d", "alloc", << >>)>>, "return",
                   IF rt = None THEN << >> ELSE IF rt = "gc" THEN <<"d">> ELSE <<"a">>)>>)

(* fn f(x) -> i32: the block under test, then a loop that counts x down. *)
F(args, lets, body, ins, operands) ==
  Item("f", args, "i32", lets,
       <<BlockText("b0", body, ins, operands),
         BlockText("b1", <<Line("c", "lt", <<I(0), P("x")>>), Line("x", "add", <<P("x"), I(-1)>>)>>,
                   "brif", <<"c", "b1", "b2">>),
         BlockText("b2", << >>, "return", <<"x">>)>>)

Names == {"x", "c", "b0", "b1"}

Operands(names, n) == UNION {[1..k -> names] : k \in 0..n}

Cond == <<Line("c", "eq", <<P("x"), I(1)>>)>>

(* Every call of g with up to three operands after it, against every       *)
(* signature, also where "b1" is a local too; and calls of "f" and of an   *)
(* unknown function.                                                       *)
CallTexts ==
  {<<F(<<"x">>, lets, << >>, "call", <<"g">> \o op), G(args, rt)>> :
     lets \in {StdLets, Append(StdLets, Let("b1", "i32"))},
     op \in Operands(Names \cup {"r"}, 3),
     args \in {<< >>, <<"a">>},
     rt \in {None, "i32", "bool", "gc"}}
  \cup
  {<<F(<<"x">>, StdLets, << >>, "call", op)>> : op \in Operands({"f", "h", "x", "b1"}, 3)}

BranchTexts ==
  {<<F(<<"x">>, StdLets, Cond, "brif", op)>> : op \in Operands(Names \cup {"b2", "zz"}, 3)}
  \cup
  {<<F(args, lets, Cond, ins, op)>> :
     args \in {<<"x">>, <<"x", "x">>, <<"zz">>},
     lets \in {StdLets, <<Let("x", "bool")>> \o StdLets},
     ins \in {"br", "return"},
     op \in Operands(Names \cup {"b2", "zz"}, 1)}

BodyTexts ==
  LET Op == {P("x"), P("c"), P("r"), I(0), B(1)}
  IN  {<<F(<<"x">>, StdLets, <<line>>, "br", <<"b1">>)>> :
         line \in
           {Line(place, op, <<m, n>>) : place \in {"x", "c", "r"}, op \in {"eq", "lt", "add", "div"},
                                        m \in Op, n \in Op}
           \cup {Line(place, "read", <<m>>) : place \in {"x", "c", "r", "zz"}, m \in Op \cup {P("zz")}}
           \cup {Line(place, "alloc", << >>) : place \in {"x", "c", "r"}}}

(* A block declared twice. *)
RepeatedBlock ==
  <<Item("f", <<"x">>, "i32", StdLets,
         <<BlockText("b0", Cond, "br", <<"b1">>),
           BlockText("b1", << >>, "return", <<"x">>),
           BlockText("b1", Cond, "return", <<"x">>)>>)>>

(* g called from a loop, by a function with gc locals. *)
CallsInLoop ==
  <<Item("f", <<"x">>, "i32", StdLets,
         <<BlockText("b0", <<Line("r", "alloc", << >>)>>, "br", <<"b1">>),
           BlockText("b1", <<Line("c", "lt", <<I(0), P("x")>>), Line("x", "add", <<P("x"), I(-1)>>)>>,
                     "brif", <<"c", "b2", "b3">>),
           BlockText("b2", << >>, "call", <<"g", "r", "b1", "x">>),
           BlockText("b3", << >>, "return", <<"x">>)>>),
    G(<<"a">>, "gc")>>

SmallTexts ==
  {Fibonacci, RepeatedBlock, CallsInLoop} \cup CallTexts \cup BranchTexts \cup BodyTexts

(* TLC computes SmallTexts once if it does not itself replace a constant.  *)
AllTexts == SmallTexts

-----------------------------------------------------------------------------
Fib[n \in Nat] == IF n <= 1 THEN n ELSE Fib[n - 1] + Fib[n - 2]

Started(f, a) ==
  /\ text = Fibonacci /\ Depth = 1
  /\ Top.fn = f /\ Top.pc = 0 /\ Top.slots[1] = a

(* The embedder's call fibonacci(a) of either version, and likewise its    *)
(* fibonacci_iter(a), returns with the a-th Fibonacci number, as           *)
(* run_example_fib expects: recursion and loop end, and no activation      *)
(* touches another's locals.                                               *)
FibonacciAnswers ==
  \A f \in {1, 2} : \A a \in Actuals : Started(f, a) ~> phase = "returned" /\ ret = Fib[a]

=============================================================================
