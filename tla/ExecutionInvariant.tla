------------------------- MODULE ExecutionInvariant -------------------------
(***************************************************************************)
(* What the front end owes the running program: the module obeys the rules  *)
(* that nothing verifies, and so an operation never reads a value that does *)
(* not exist, or one that its type does not have.                           *)
(***************************************************************************)
EXTENDS ForgeProperties

\* An operation without a result, of NoType, leaves NoResult.
HasType(v, type) ==
    IF type \in IntegerTypes THEN v \in Signed(type) ELSE type = NoType /\ v = NoResult

\* An activation has the arguments its function takes, and the results of the
\* operations it ran; it has not run off the end.
ActivationOK(a) ==
    /\ a.fn \in DOMAIN funcs
    /\ Len(a.args) = Len(funcs[a.fn].params)
    /\ \A i \in DOMAIN a.args : HasType(a.args[i], funcs[a.fn].params[i])
    /\ Len(a.results) < Len(funcs[a.fn].ops)
    /\ \A i \in DOMAIN a.results : HasType(a.results[i], funcs[a.fn].ops[i].type)

NextOp(a) == funcs[a.fn].ops[Len(a.results) + 1]

\* The activation above a is of the function that a is calling.
Calls(a, callee) ==
    NextOp(a).op = "call" /\ NextOp(a).attr = funcs[callee.fn].sym

RunInv ==
    phase = "run" =>
        /\ IRValid
        /\ stack \in Seq([fn : DOMAIN funcs, args : Seq(Int), results : Seq(Int)])
        /\ stack # <<>>
        /\ Len(stack) <= StackLimit
        /\ \A i \in DOMAIN stack : ActivationOK(stack[i])
        /\ \A i \in 1..Len(stack) - 1 : Calls(stack[i], stack[i + 1])

\* Of a source without a Gap, which the front end makes a valid module of.
ExecutionInv == ~Gap => RunInv

\* The program made of a source without a Gap reads only values that exist, each
\* one of its type: every operation that it comes to has the operands it takes,
\* which are arguments of its activation or results of operations that ran in
\* it, and they have values of their types.  Nothing verifies the module, and
\* nothing at run time checks this (JIT.cpp:53): it rests on the checker and the
\* generator, and on calls and returns that pair up.
OperandsAreTyped ==
    phase = "run" /\ ~Gap =>
        /\ Executable
        /\ \A i \in DOMAIN Current.args : HasType(Operand(i), Current.args[i].type)
=============================================================================
