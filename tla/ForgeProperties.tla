-------------------------- MODULE ForgeProperties --------------------------
(***************************************************************************)
(* What the compiler must do, over the passes composed in Forge.            *)
(***************************************************************************)
EXTENDS Forge, SourceSteps

Phases == {"start", "parse", "resolve", "check", "generate", "lower", "execute", "run", "done"}

\* The steps that may end the process.
Reasons ==
    {"none", "usage", "parser", "std::stoi", "resolver", "checker", "return_type.top",
     "functions.at", "null value", "value_map.at", "callee", "intrinsic", "addEntryBlock",
     "--emit-mlir", "--emit-llvm", "lower", "jit", "invalid", "ill-formed", "division",
     "abort", "stack", "returned"}

TypeNames == Types \cup {NoType}

Value == [fn : Nat, at : Int, type : TypeNames]

\* Every variable has a value of its type.
TypeOK ==
    /\ ast \in Seq(Node) /\ path \in Seq(Seq(Nat)) /\ Len(path) = Len(ast)
    /\ open \in Seq(Nat) /\ tail \in BOOLEAN
    /\ phase \in Phases /\ pos \in Nat /\ has_errors \in BOOLEAN
    /\ exit \in {"none", "success", "failure", "crash"} /\ why \in Reasons
    /\ argv \in Invocations
    /\ variables \subseteq STRING /\ functions \subseteq STRING
    /\ saved \in Seq(SUBSET STRING)
    /\ Range(symbol_types) \subseteq TypeNames /\ return_type \in Seq(TypeNames)
    /\ ty \in Seq(TypeNames) /\ Len(ty) <= Len(ast)
    /\ vals \in Seq(Value) /\ Len(vals) <= Len(ast)
    /\ Range(value_map) \subseteq Value

-----------------------------------------------------------------------------
\* The body in which the cursor stands.
Here == IF pos \in Nodes THEN path[pos] ELSE <<>>

\* An accepted tree never fails a lookup of the generator: value_map.at finds
\* every variable, every callee and intrinsic is the one that generate()
\* asserts.  The generator trusts the SymbolResolver and the TypeChecker here.
LookupsSucceed == why \notin {"value_map.at", "callee", "intrinsic"}

\* A variable reads the value its lexical binder gave it: the last `let` of
\* its body before it, or else the body's last parameter of that name.  The
\* generator saves, clears and restores one value_map around every body.
ValueIsLexical ==
    \A n \in DOMAIN vals :
        ast[n].k = "ident" =>
            LET x == ast[n].name
                b == Binder(x, n)
            IN  IF ast[b].k = "let"
                  THEN vals[n] = vals[b - 1]
                  ELSE /\ funcs[vals[n].fn].sym = Sym(ast[b].name)
                       /\ vals[n].at =
                              -Max({i \in DOMAIN ast[b].params : ast[b].params[i].name = x})

\* Name resolution is lexical scoping: the resolver rejects a source exactly
\* if it breaks the scoping rule, and reports so in its own pass.
ScopingVerdict ==
    CASE phase \in {"start", "parse", "resolve"} -> "none"
      [] phase = "done" /\ why \in {"usage", "parser", "std::stoi"} -> "none"
      [] phase = "done" /\ why = "resolver" -> "rejected"
      [] OTHER -> "accepted"

Lexical == INSTANCE LexicalScoping WITH verdict <- ScopingVerdict

ImplementsLexicalScoping == Lexical!Spec

-----------------------------------------------------------------------------
\* The type a `return` of declaration n must have.
DeclaredReturn(n) == IF ast[n].k = "fn" THEN Resolve(ast[n].ret) ELSE None

\* While the checker is in a body, its stack of return types is that of the
\* declarations around the cursor: each `return` meets its own declaration.
ReturnTypesMirrorNesting ==
    phase = "check" /\ pos > 0 =>
        return_type = [i \in DOMAIN Here |-> DeclaredReturn(Here[i])]

\* The sources the checker accepts although no valid IR exists for them, each
\* of which a comment or a run of this project names.

\* A @assert, which has no value, stands where a value is used.
AssertUsedAsValue ==
    \E n \in Nodes :
        \/ "kids" \in DOMAIN ast[n]
             /\ \E i \in DOMAIN ast[n].kids : ast[Kid(n, i)].k = "intrinsic"
        \/ ast[n].k = "let" /\ ast[n - 1].k = "intrinsic"
        \/ ast[n].k = "return" /\ ast[n].expr /\ ast[n - 1].k = "intrinsic"

\* + - * / of two integer types: check_int does not compare them.
MixedArithmetic ==
    \E n \in DOMAIN ty :
        /\ ast[n].k = "bin" /\ ast[n].op \in ArithOps
        /\ Clash(ty[Kid(n, 1)], ty[Kid(n, 2)])

\* A name is bound at module scope and in a body: symbol_types has one entry.
SharedName ==
    \E m, n \in Nodes :
        /\ ast[m].k = "let" /\ path[m] = <<>>
        /\ \/ ast[n].k = "let" /\ path[n] # <<>> /\ ast[n].name = ast[m].name
           \/ ast[m].name \in ParamNames(n)

\* Two functions have one name, or one has the name of the entry point.
DuplicateFunction ==
    \/ "__main" \in NamesOf(TopLevelFns)
    \/ \E m, n \in TopLevelFns : m # n /\ ast[m].name = ast[n].name

\* A `return` that is not the last statement of a function.
EarlyReturn ==
    \E n \in Nodes : ast[n].k = "return" /\ (n = Len(ast) \/ ast[n + 1].k # "end")

Gap == AssertUsedAsValue \/ MixedArithmetic \/ SharedName \/ DuplicateFunction \/ EarlyReturn

\* But for those, what the front end accepts the generator turns into a
\* module that MLIR's verifier accepts: neither generator nor lowering fails on
\* it, and what runs is what it says.
InvalidModule == {"null value", "addEntryBlock", "lower", "invalid"}

AcceptedIsSound ==
    /\ phase \in {"lower", "execute"} /\ ~Gap => IRValid
    /\ why \in InvalidModule => Gap

\* The checker's type of an expression is the type of the value generated for
\* it, though checker and generator compute it each on its own.
TypesAgree ==
    ~Gap => \A n \in DOMAIN vals :
                ast[n].k \in {"int", "ident", "bin", "call"} => vals[n].type = ty[n]

-----------------------------------------------------------------------------
CallsTest(o) == o.op = "call" /\ o.attr \in Range(test_symbols)

\* `forge test` calls every test exactly once, in source order, after the
\* top-level code and before __main returns; `forge build` calls none.  No other
\* function calls a test.
TestsRunInOrder ==
    phase \in {"lower", "execute"} =>
        LET ops       == funcs[Main].ops
            calls     == {i \in DOMAIN ops : CallsTest(ops[i])}
            called(i) == LookupSymbol(ops[i].attr)
        IN  /\ \A i \in calls, j \in DOMAIN ops : i < j => j \in calls \/ j = Len(ops)
            /\ Len(ops) \notin calls
            /\ {called(i) : i \in calls} = IF run_tests THEN TestDecls ELSE {}
            /\ \A i, j \in calls : i < j => called(i) < called(j)
            /\ \A f \in DOMAIN funcs \ {Main} :
                   \A i \in DOMAIN funcs[f].ops : ~CallsTest(funcs[f].ops[i])

\* A diagnostic is fatal: once one was reported, no pass takes it back, the
\* generator does nothing, and the command does not succeed.
DiagnosticsAreFatal ==
    [][has_errors => has_errors' /\ UNCHANGED genVars /\ exit' # "success"]_vars

LastTest == {n \in TestDecls : \A m \in TestDecls : m <= n}

\* `forge test` runs the tests of a source without a Gap to the last one, if
\* nothing fails before: declared anywhere in the source, generated there, and
\* called passes later by a symbol (MLIRGenerator.cpp:76), it is entered in the
\* end.  The others come before it (TestsRunInOrder).
LastTestRuns ==
    phase = "generate" /\ run_tests /\ ~emit_mlir /\ ~emit_llvm /\ LastTest # {} /\ ~Gap
        ~> \/ phase = "run" /\ Top.fn \in LastTest
           \/ why \in {"jit", "abort", "division", "stack"}
=============================================================================
