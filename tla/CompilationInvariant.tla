------------------------ MODULE CompilationInvariant ------------------------
(***************************************************************************)
(* Why the compiled program does what its source says: where in the module  *)
(* each step of the source ended up, and how the activations of the running *)
(* program are calls of SourceMachine.  All of it is claimed of the sources *)
(* without a Gap only.                                                     *)
(***************************************************************************)
EXTENDS SoundnessInvariant, ExecutionInvariant

\* The steps of body p before node n are its first operations.
Before(p, n) == Cardinality({m \in 1..n - 1 : path[m] = p /\ IsStep(m)})

\* Node n is operation Index(n) of its function.
Index(n) == Before(path[n], n) + 1

\* Operation o does what node n says, to the values of its operands.
Renders(o, n) ==
    /\ ast[n].k = "int" => o.op = "constant" /\ o.attr = <<ast[n].value>>
    /\ ast[n].k = "bin" => o.op = ast[n].op /\ o.args = Operands(n, vals)
    /\ ast[n].k = "call" =>
          o.op = "call" /\ o.attr = Sym(ast[n].name) /\ o.args = Operands(n, vals)
    /\ ast[n].k = "intrinsic" => o.op = "assert" /\ o.args = <<vals[Kid(n, 1)]>>
    /\ ast[n].k = "return" =>
          o.op = "return" /\ o.args = IF ast[n].expr THEN <<vals[n - 1]>> ELSE <<>>
    /\ ast[n].k = "end" => o.op = "return" /\ o.args = <<>>
    /\ ast[n].k \in {"int", "bin", "call"} => o.type = ty[n]

StepCompiled(n) ==
    IsStep(n) =>
        LET ops == funcs[FnOf(path[n])].ops
        IN  /\ Index(n) \in DOMAIN ops /\ Renders(ops[Index(n)], n)
            /\ ast[n].k \in {"int", "bin", "call"} => vals[n].at = Index(n)

\* A value is a parameter, or the result of a step up to its node.
ValueInPlace(n) ==
    ast[n].k \in ValueKinds =>
        vals[n] \in Value /\ vals[n].at # 0 /\ vals[n].at <= Before(path[n], n + 1)

\* The first operations of function f are those of its steps before node n.
StepsFirst(f, n) ==
    \A i \in 1..Before(Body(f), n) : \E m \in Steps(Body(f)) : m < n /\ Index(m) = i

\* It has no others.
Accounted(f, n) == Len(funcs[f].ops) = Before(Body(f), n) /\ StepsFirst(f, n)

\* Test n is called by its number.
TestNumber(n) == Cardinality({m \in TestDecls : m < n})

\* While the module is generated: so far.
CompilingInv ==
    /\ \A n \in DOMAIN vals : StepCompiled(n) /\ ValueInPlace(n)
    /\ \A f \in DOMAIN funcs : Accounted(f, pos)
    /\ Len(test_symbols) = Cardinality(TestsSoFar)
    /\ \A n \in TestsSoFar : funcs[n].sym = TestSym(TestNumber(n))

\* After its steps, __main calls the tests by their numbers and returns.
TestCalls == IF run_tests THEN Cardinality(TestDecls) ELSE 0
MainSteps == Before(<<>>, Len(ast) + 1)

TestsCalled ==
    LET main == funcs[Main].ops
    IN  /\ Len(main) = MainSteps + TestCalls + 1
        /\ \A i \in 1..TestCalls :
              LET o == main[MainSteps + i]
              IN  o.op = "call" /\ o.attr = TestSym(i - 1) /\ o.args = <<>>
        /\ main[Len(main)].op = "return"

\* And when it is complete.
CompleteInv ==
    /\ DOMAIN funcs = {Main} \cup TopLevelFns \cup TestDecls
    /\ funcs[Main].sym = Sym("__main") /\ Prototypes
    /\ \A n \in TestDecls : funcs[n].sym = TestSym(TestNumber(n))
    /\ Len(vals) = Len(ast)
    /\ \A n \in Nodes : CheckedNode(n) /\ StepCompiled(n) /\ ValueInPlace(n)
    /\ \A f \in DOMAIN funcs \ {Main} : Accounted(f, Len(ast) + 1)
    /\ StepsFirst(Main, Len(ast) + 1) /\ TestsCalled

CompilationInv ==
    ~Gap =>
        /\ phase = "generate" /\ pos > 0 => CompilingInv
        /\ phase \in {"lower", "execute", "run"} => CompleteInv
        /\ phase = "run" => stack[1].fn = Main

-----------------------------------------------------------------------------
\* The program runs or has ended, and its source says what it has to do.
Specified == (phase = "run" \/ why \in {"division", "abort", "stack", "returned"}) /\ ~Gap

\* The step of body p that comes after k others, or the end of the tree.
StepNumber(p, k) == Min({n \in Steps(p) : Before(p, n) = k} \cup {Len(ast) + 1})

\* The value that v has in activation a, and a as a call that stands at node n:
\* at the step after the operations that a has run.
ValueIn(a, v) == IF v.at < 0 THEN a.args[-v.at] ELSE a.results[v.at]

CallAt(a) ==
    [n \in 1..Len(ast) + 1 |->
        [fn |-> a.fn, args |-> a.args, at |-> n,
         values |-> [m \in ValueNodes(Body(a.fn), n) |-> ValueIn(a, vals[m])]]]

CallIn(a) == CallAt(a)[StepNumber(Body(a.fn), Len(a.results))]

TestsRun ==
    {n \in TestDecls : TestNumber(n) < Len(stack[1].results) - MainSteps}

\* What SourceMachine's variables are in a state of the compiler.
Machine == IF ~Specified THEN "idle" ELSE IF phase = "run" THEN "running" ELSE why

CallsOf(activations) == [i \in DOMAIN activations |-> CallIn(activations[i])]

Source == INSTANCE SourceMachine WITH
    testing <- run_tests, machine <- Machine, calls <- CallsOf(stack), ran <- TestsRun

ImplementsSource == Source!Spec
=============================================================================
