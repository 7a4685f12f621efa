----------------------------- MODULE Semantics -----------------------------
(***************************************************************************)
(* What a program means, read off its tree by evaluating expressions in     *)
(* environments: the reference the compiled program is compared with.  It   *)
(* knows nothing of value_map, symbols, blocks or activations.              *)
(***************************************************************************)
EXTENDS ForgeProperties

\* Evaluation gives a value, or says how it ended the program.
Val(v)     == [end |-> "value", value |-> v]
Ends(how)  == [end |-> how, value |-> NoResult]
IsValue(r) == r.end = "value"

\* Node n is part of an expression, or the value of a `let` or a `return`.
Consumed(n) ==
    \E m \in Nodes :
        \/ "kids" \in DOMAIN ast[m] /\ \E i \in DOMAIN ast[m].kids : Kid(m, i) = n
        \/ m = n + 1 /\ (ast[m].k = "let" \/ (ast[m].k = "return" /\ ast[m].expr))

\* The statements whose surroundings are `around`, in source order.
Statements(around) ==
    SetToSortSeq({n \in Nodes : /\ path[n] = around
                                /\ ast[n].k \notin {"fn", "test", "end"}
                                /\ ~Consumed(n)}, <)

Function(f) == CHOOSE d \in TopLevelFns : ast[d].name = f

Parameters(d, args) ==
    [x \in ParamNames(d) |->
        args[Max({i \in DOMAIN args : ast[d].params[i].name = x})]]

BinaryValue(n, a, b) ==
    LET o == ast[n].op
    IN  CASE o \in CmpOps -> Val(IF Holds(o, a, b) THEN True ELSE False)
          [] o = "/" /\ Undefined(a, b, ty[n]) -> Ends("undefined")
          [] OTHER -> Val(Wrap(Arith(o, a, b), ty[n]))

RECURSIVE Eval(_, _, _), Run(_, _, _)

\* Node n, with the variables env, `depth` calls below the entry point.  The
\* operands of a node are evaluated from left to right.
Eval(n, env, depth) ==
    LET results == IF "kids" \in DOMAIN ast[n]
                     THEN [i \in DOMAIN ast[n].kids |-> Eval(Kid(n, i), env, depth)]
                     ELSE <<>>
        failed  == {i \in DOMAIN results : ~IsValue(results[i])}
        args    == [i \in DOMAIN results |-> results[i].value]
    IN  CASE failed # {} -> results[Min(failed)]
          [] ast[n].k = "int"   -> Val(ast[n].value)
          [] ast[n].k = "ident" -> Val(env[ast[n].name])
          [] ast[n].k = "bin"   -> BinaryValue(n, args[1], args[2])
          [] ast[n].k = "intrinsic" -> IF args[1] = True THEN Val(NoResult) ELSE Ends("abort")
          [] ast[n].k = "call" ->
                IF depth = StackLimit
                  THEN Ends("stack")
                  ELSE LET d == Function(ast[n].name)
                       IN  Run(Statements(<<d>>), Parameters(d, args), depth + 1)

\* A list of statements, up to its end or a `return`.
Run(statements, env, depth) ==
    IF statements = <<>>
      THEN Val(NoResult)
      ELSE LET n     == Head(statements)
               isLet == ast[n].k = "let"
               isRet == ast[n].k = "return"
               r     == CASE isRet /\ ~ast[n].expr -> Val(NoResult)
                          [] isLet \/ isRet        -> Eval(n - 1, env, depth)
                          [] OTHER                 -> Eval(n, env, depth)
           IN  IF ~IsValue(r) \/ isRet
                 THEN r
                 ELSE Run(Tail(statements),
                          IF isLet THEN Overwrite(env, Entry(ast[n].name, r.value)) ELSE env,
                          depth)

\* The code at module scope and then, under `forge test`, each test.
Meaning ==
    LET tests    == IF run_tests THEN SetToSortSeq(TestDecls, <) ELSE <<>>
        RunTest(r, d) ==
            IF ~IsValue(r) THEN r
            ELSE IF StackLimit = 1 THEN Ends("stack") ELSE Run(Statements(<<d>>), <<>>, 2)
        r        == FoldLeft(RunTest, Run(Statements(<<>>), <<>>, 1), tests)
    IN  IF IsValue(r) THEN "returned" ELSE r.end

\* The compiled program does what its source means: it returns, or ends at the
\* assertion that fails, the call that is one too deep or the division that is
\* undefined, whichever comes first in the source's own order: the code at
\* module scope, then the tests in their order, none of them after one failed.
\* After an undefined division it may do anything.  Of a source with a Gap this
\* is promised only if the module is valid all the same.
ExecutionMatchesSource ==
    why \in {"returned", "abort", "stack", "division"} /\ (IRValid \/ ~Gap)
        => Meaning \in {why, "undefined"}
=============================================================================
