--------------------------- MODULE MLIRGenerator ---------------------------
(***************************************************************************)
(* MLIRGenerator (lib/Conversion/ASTToMLIR/MLIRGenerator.cpp): turns an     *)
(* accepted tree into a module of func.func's.  It checks nothing again: it *)
(* relies on the passes before it, by asserts that a release build drops,   *)
(* by value_map.at, and by building operations on whatever value it gets.   *)
(*                                                                         *)
(* The functions of the module are indexed by the node that declares them,  *)
(* and __main by 0, which is their order in the module as far as a lookup   *)
(* by symbol can tell.                                                     *)
(***************************************************************************)
EXTENDS ForgeAST, TypeRegistry

VARIABLES
    funcs,        \* the functions of the MLIR module
    ip,           \* the insertion point: [fn, block], at the block's end
    frames,       \* saved_ip and saved_value_map of the bodies under way
    value_map,    \* the value of each name in scope
    vals,         \* vals[n]: what generate() returned for node n
    test_symbols  \* the symbols of the tests, in order of generation

genVars == <<funcs, ip, frames, value_map, vals, test_symbols>>

GenInit ==
    /\ funcs = <<>> /\ ip = [fn |-> 0, block |-> 0] /\ frames = <<>>
    /\ value_map = <<>> /\ vals = <<>> /\ test_symbols = <<>>

Generating(k) == phase = "generate" /\ At(k)

Main       == 0
Sym(name)  == <<name>>
TestSym(i) == <<"__test", i>>

\* An mlir::Value: result of an operation (at > 0) or block argument (at < 0).
NoValue == [fn |-> 0, at |-> 0, type |-> NoType]

Func(sym, params, rets, blocks) ==
    [sym |-> sym, params |-> params, rets |-> rets, blocks |-> blocks, ops |-> <<>>]

\* ModuleOp::lookupSymbol: the first function of that name.
Declared(sym)     == \E f \in DOMAIN funcs : funcs[f].sym = sym
LookupSymbol(sym) == Min({f \in DOMAIN funcs : funcs[f].sym = sym})

\* `attr` is the callee of a call, and the value of a constant.
Operation(op, args, attr, type) ==
    [op |-> op, args |-> args, attr |-> attr, type |-> type, block |-> ip.block]

\* Op::create at the insertion point: with a null operand it crashes.  A
\* result, if the operation has one, is what generate() returns.
Create(op, args, attr, type) ==
    IF NoValue \in Range(args)
      THEN Stop("crash", "null value") /\ UNCHANGED genVars
      ELSE /\ funcs' = [funcs EXCEPT ![ip.fn].ops =
                            Append(@, Operation(op, args, attr, type))]
           /\ vals' = Append(vals,
                  IF type = NoType
                    THEN NoValue
                    ELSE [fn |-> ip.fn, at |-> Len(funcs[ip.fn].ops) + 1, type |-> type])
           /\ Step
           /\ UNCHANGED <<has_errors, ip, frames, value_map, test_symbols>>

-----------------------------------------------------------------------------
FuncType(n) ==
    LET ret == Resolve(ast[n].ret)
    IN  Func(Sym(ast[n].name),
             [i \in DOMAIN ast[n].params |-> Resolve(ast[n].params[i].type)],
             IF ret = NoType THEN <<>> ELSE <<ret>>, 0)

\* __main with its entry block, and a prototype of every top-level function.
GenBegin ==
    /\ phase = "generate"
    /\ pos = 0
    /\ funcs' = [n \in {Main} \cup TopLevelFns |->
                    IF n = Main THEN Func(Sym("__main"), <<>>, <<>>, 1) ELSE FuncType(n)]
    /\ ip' = [fn |-> Main, block |-> 1]
    /\ Step
    /\ UNCHANGED <<has_errors, frames, value_map, vals, test_symbols>>

\* Mutant of GenIntLiteral: a literal is as wide as the `int` of the tree.
GenIntLiteral32 ==
    /\ Generating("int")
    /\ Create("constant", <<>>, <<ast[pos].value>>, "i32")

GenIntLiteral ==
    /\ Generating("int")
    /\ Create("constant", <<>>, <<ast[pos].value>>, "i64")

\* value_map.at throws on a name that is not there.
GenIdentifier ==
    /\ Generating("ident")
    /\ IF ast[pos].name \in DOMAIN value_map
         THEN /\ vals' = Append(vals, value_map[ast[pos].name])
              /\ Step
              /\ UNCHANGED <<has_errors, funcs, ip, frames, value_map, test_symbols>>
         ELSE Stop("crash", "value_map.at") /\ UNCHANGED genVars

\* Mutant of GenBinaryOperator: the operands change places.
GenBinaryOperatorSwapped ==
    /\ Generating("bin")
    /\ LET o == Reverse(Operands(pos, vals))
       IN  Create(ast[pos].op, o, <<>>, IF ast[pos].op \in CmpOps THEN "i1" ELSE o[1].type)

\* An arithmetic operation takes its result type from its first operand.
GenBinaryOperator ==
    /\ Generating("bin")
    /\ LET o == Operands(pos, vals)
       IN  Create(ast[pos].op, o, <<>>, IF ast[pos].op \in CmpOps THEN "i1" ELSE o[1].type)

\* Without its asserts the build would dereference the missing callee.
GenCall ==
    /\ Generating("call")
    /\ LET sym  == Sym(ast[pos].name)
           rets == funcs[LookupSymbol(sym)].rets
       IN  IF ast[pos].name # Indirect /\ Declared(sym)
             THEN Create("call", Operands(pos, vals), sym,
                         IF rets = <<>> THEN NoType ELSE rets[1])
             ELSE Stop("crash", "callee") /\ UNCHANGED genVars

GenIntrinsicCall ==
    /\ Generating("intrinsic")
    /\ IF ast[pos].name = "assert" /\ ast[pos].kids # <<>>
         THEN Create("assert", <<Operands(pos, vals)[1]>>, <<>>, NoType)
         ELSE Stop("crash", "intrinsic") /\ UNCHANGED genVars

\* Mutant of GenLet: a name keeps its first value.
GenLetInserts ==
    /\ Generating("let")
    /\ value_map' = Overwrite(Entry(ast[pos].name, vals[pos - 1]), value_map)
    /\ vals' = Append(vals, NoValue)
    /\ Step
    /\ UNCHANGED <<has_errors, funcs, ip, frames, test_symbols>>

GenLet ==
    /\ Generating("let")
    /\ value_map' = Overwrite(value_map, Entry(ast[pos].name, vals[pos - 1]))
    /\ vals' = Append(vals, NoValue)
    /\ Step
    /\ UNCHANGED <<has_errors, funcs, ip, frames, test_symbols>>

GenReturn ==
    /\ Generating("return")
    /\ Create("return", IF ast[pos].expr THEN <<vals[pos - 1]>> ELSE <<>>, <<>>, NoType)

-----------------------------------------------------------------------------
\* The body at hand gets block b of function f, and a value_map of its own.
EnterBody(f, b, values) ==
    /\ frames' = Append(frames, [ip |-> ip, value_map |-> value_map])
    /\ ip' = [fn |-> f, block |-> b]
    /\ value_map' = values
    /\ vals' = Append(vals, NoValue)
    /\ Step
    /\ UNCHANGED has_errors

\* entry->getArgument(i), for the last parameter of each name.
EntryArguments(f) ==
    [x \in ParamNames(pos) |->
        LET i == Max({j \in DOMAIN ast[pos].params : ast[pos].params[j].name = x})
        IN  [fn |-> f, at |-> -i, type |-> funcs[f].params[i]]]

\* addEntryBlock asserts that the function has no body yet; without asserts
\* it adds one more block, which has the arguments of the first declaration.
GenFn ==
    /\ Generating("fn")
    /\ LET sym == Sym(ast[pos].name)
           f   == LookupSymbol(sym)
       IN  \/ /\ Declared(sym)
              /\ Len(ast[pos].params) <= Len(funcs[f].params)
              /\ funcs' = [funcs EXCEPT ![f].blocks = @ + 1]
              /\ EnterBody(f, funcs[f].blocks + 1, EntryArguments(f))
              /\ UNCHANGED test_symbols
           \/ /\ ~Declared(sym) \/ funcs[f].blocks > 0
              /\ Stop("crash", "addEntryBlock")
              /\ UNCHANGED genVars

\* Mutant of GenTest: the symbols are not numbered.
GenTestSameSymbol ==
    /\ Generating("test")
    /\ LET sym == TestSym(0)
       IN  /\ funcs' = Overwrite(funcs, Entry(pos, Func(sym, <<>>, <<>>, 1)))
           /\ test_symbols' = Append(test_symbols, sym)
    /\ EnterBody(pos, 1, <<>>)

GenTest ==
    /\ Generating("test")
    /\ LET sym == TestSym(Len(test_symbols))
       IN  /\ funcs' = Overwrite(funcs, Entry(pos, Func(sym, <<>>, <<>>, 1)))
           /\ test_symbols' = Append(test_symbols, sym)
    /\ EnterBody(pos, 1, <<>>)

Terminated(ops, block) ==
    ops # <<>> /\ Last(ops).op = "return" /\ Last(ops).block = block

\* The last statement's value is what a function without a return returns.
ImplicitReturn ==
    LET inFn == ast[Last(path[pos])].k = "fn"
    IN  Operation("return",
                  IF inFn /\ vals[pos - 1] # NoValue THEN <<vals[pos - 1]>> ELSE <<>>,
                  <<>>, NoType)

CloseBody ==
    funcs' = IF Terminated(funcs[ip.fn].ops, ip.block)
               THEN funcs ELSE [funcs EXCEPT ![ip.fn].ops = Append(@, ImplicitReturn)]

\* Mutant of GenEnd: the values of the body are not forgotten.
GenEndOpen ==
    /\ Generating("end")
    /\ CloseBody
    /\ ip' = Last(frames).ip
    /\ frames' = Front(frames)
    /\ vals' = Append(vals, NoValue)
    /\ Step
    /\ UNCHANGED <<has_errors, value_map, test_symbols>>

\* After the body: a return is added if the block does not end with one.
GenEnd ==
    /\ Generating("end")
    /\ CloseBody
    /\ ip' = Last(frames).ip
    /\ value_map' = Last(frames).value_map
    /\ frames' = Front(frames)
    /\ vals' = Append(vals, NoValue)
    /\ Step
    /\ UNCHANGED <<has_errors, test_symbols>>

\* Mutant of GenFinish: the tests are called whatever the command is.
GenFinishAlways(run_tests) ==
    /\ phase = "generate"
    /\ pos = Len(ast) + 1
    /\ LET calls == [i \in DOMAIN test_symbols |->
                       Operation("call", <<>>, test_symbols[i], NoType)]
       IN  funcs' = [funcs EXCEPT ![ip.fn].ops =
                        @ \o Append(calls, Operation("return", <<>>, <<>>, NoType))]
    /\ Enter("lower")
    /\ UNCHANGED <<ip, frames, value_map, vals, test_symbols>>

\* `forge test` calls the tests, in order, after the top-level code.
GenFinish(run_tests) ==
    /\ phase = "generate"
    /\ pos = Len(ast) + 1
    /\ LET calls == IF run_tests
                      THEN [i \in DOMAIN test_symbols |->
                               Operation("call", <<>>, test_symbols[i], NoType)]
                      ELSE <<>>
       IN  funcs' = [funcs EXCEPT ![ip.fn].ops =
                        @ \o Append(calls, Operation("return", <<>>, <<>>, NoType))]
    /\ Enter("lower")
    /\ UNCHANGED <<ip, frames, value_map, vals, test_symbols>>

GenNext(run_tests) ==
    \/ GenBegin
    \/ GenIntLiteral
    \/ GenIdentifier
    \/ GenBinaryOperator
    \/ GenCall
    \/ GenIntrinsicCall
    \/ GenLet
    \/ GenReturn
    \/ GenFn
    \/ GenTest
    \/ GenEnd
    \/ GenFinish(run_tests)
=============================================================================
