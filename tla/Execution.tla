----------------------------- MODULE Execution -----------------------------
(***************************************************************************)
(* forge::execute (lib/Target/JIT.cpp) and the program it runs: the steps   *)
(* of the JIT that may fail, and then __main, one operation at a time, as   *)
(* lowering and LLVM make each arith, cf and func operation behave.         *)
(***************************************************************************)
EXTENDS IRVerifier, Arithmetic

CONSTANT
    StackLimit  \* bound: how many activations the native stack holds

ASSUME StackAssumption == StackLimit \in Nat \ {0}

VARIABLE stack  \* the activations of the running program, __main's first

ExecInit == stack = <<>>

\* results[i] is the value of the function's i-th operation, which has run.
Activation(f, args) == [fn |-> f, args |-> args, results |-> <<>>]

Top        == Last(stack)
Current    == funcs[Top.fn].ops[Len(Top.results) + 1]
ValueOf(v) == IF v.at < 0 THEN Top.args[-v.at] ELSE Top.results[v.at]
Operand(i) == ValueOf(Current.args[i])

-----------------------------------------------------------------------------
\* Translation, target machine, optimizer, engine: each may report and fail.
JITFails ==
    /\ phase = "execute"
    /\ Stop("failure", "jit")
    /\ UNCHANGED stack

\* Of an invalid module, which nothing rejects, translation may make anything:
\* the program that the operations say, or one that does something else.
RunInvalid ==
    /\ phase = "execute"
    /\ ~IRValid
    /\ \E code \in {"success", "failure", "crash"} : Stop(code, "invalid")
    /\ UNCHANGED stack

\* ExecutionEngine::invoke("__main")
Invoke ==
    /\ phase = "execute"
    /\ Enter("run")
    /\ stack' = <<Activation(Main, <<>>)>>

\* Value v is an argument of the activation, or a result that it has.
Present(v) ==
    v.fn = Top.fn /\ IF v.at < 0 THEN -v.at \in DOMAIN Top.args ELSE v.at \in DOMAIN Top.results

\* The function has a next operation, with the values and types that it takes.
Executable ==
    /\ Len(Top.results) < Len(funcs[Top.fn].ops)
    /\ WellTyped(Top.fn, Current)
    /\ \A v \in Range(Current.args) : Present(v)

\* Nothing at run time asks whether it does: an operation that is not
\* executable does anything.
RunIllFormed ==
    /\ phase = "run"
    /\ ~Executable
    /\ \E code \in {"success", "failure", "crash"} : Stop(code, "ill-formed")
    /\ UNCHANGED stack

Running(ops) == phase = "run" /\ Executable /\ Current.op \in ops

\* The operation is done; its function goes on to the next.
Result(v) ==
    /\ stack' = Append(Front(stack), [Top EXCEPT !.results = Append(@, v)])
    /\ UNCHANGED runVars

RunConstant ==
    /\ Running({"constant"})
    /\ Result(Wrap(Current.attr[1], Current.type))

RunArith ==
    /\ Running(ArithOps)
    /\ Current.op = "/" => ~Undefined(Operand(1), Operand(2), Current.type)
    /\ Result(Wrap(Arith(Current.op, Operand(1), Operand(2)), Current.type))

\* A division traps, or has any result, depending on the machine.
RunUndefined ==
    /\ Running({"/"})
    /\ Undefined(Operand(1), Operand(2), Current.type)
    /\ \/ \E v \in Signed(Current.type) : Result(v)
       \/ Stop("crash", "division") /\ UNCHANGED stack

RunCompare ==
    /\ Running(CmpOps)
    /\ Result(IF Holds(Current.op, Operand(1), Operand(2)) THEN True ELSE False)

\* cf.assert, lowered with abortOnFailure.
RunAssert ==
    /\ Running({"assert"})
    /\ IF Operand(1) = True THEN Result(NoResult)
                            ELSE Stop("crash", "abort") /\ UNCHANGED stack

RunCall ==
    /\ Running({"call"})
    /\ IF Len(stack) < StackLimit
         THEN /\ stack' = Append(stack, Activation(LookupSymbol(Current.attr),
                              [i \in DOMAIN Current.args |-> Operand(i)]))
              /\ UNCHANGED runVars
         ELSE Stop("crash", "stack") /\ UNCHANGED stack

\* The value returned is the result of the caller's call.
Returned == IF Current.args = <<>> THEN NoResult ELSE Operand(1)

RunReturn ==
    /\ Running({"return"})
    /\ Len(stack) > 1
    /\ LET caller == Len(stack) - 1
       IN  stack' = [Front(stack) EXCEPT ![caller].results = Append(@, Returned)]
    /\ UNCHANGED runVars

\* __main returns: invoke() has no error, and execute() is true.
RunEnd ==
    /\ Running({"return"})
    /\ Len(stack) = 1
    /\ Stop("success", "returned")
    /\ UNCHANGED stack

ExecNext ==
    \/ JITFails
    \/ RunInvalid
    \/ Invoke
    \/ RunIllFormed
    \/ RunConstant
    \/ RunArith
    \/ RunUndefined
    \/ RunCompare
    \/ RunAssert
    \/ RunCall
    \/ RunReturn
    \/ RunEnd
=============================================================================
