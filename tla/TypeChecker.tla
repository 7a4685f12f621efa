---------------------------- MODULE TypeChecker ----------------------------
(***************************************************************************)
(* forge::TypeChecker (lib/Frontend/TypeChecker.cpp): infer() gives every   *)
(* node a type.  The null type NoType says "no opinion": it is the type of  *)
(* what was reported already, of @assert, and of a name with no known type, *)
(* and every comparison but that of `return` lets it pass.                  *)
(*                                                                         *)
(* infer(Call) and infer(IntrinsicCall) skip the arguments once they have   *)
(* reported the call itself; here the arguments are visited first, which    *)
(* can only add diagnostics to a run that fails anyway.                     *)
(***************************************************************************)
EXTENDS ForgeAST, TypeRegistry

VARIABLES
    symbol_types,         \* the type of each name, one table for all bodies
    function_signatures,  \* by name: the last declaration of it
    return_type,          \* the return types of the bodies under way
    ty                    \* ty[n]: what infer() returned for node n

checkerVars == <<symbol_types, function_signatures, return_type, ty>>

CheckerInit ==
    symbol_types = <<>> /\ function_signatures = <<>> /\ return_type = <<>> /\ ty = <<>>

Checking(k) == phase = "check" /\ At(k)

\* infer() returns t and the pass goes on.
Infer(t) == ty' = Append(ty, t) /\ Step

Unknown(name) == Resolve(name) = NoType
Clash(t, u)   == t # NoType /\ u # NoType /\ t # u

FunctionSignature(n) ==
    [params |-> [i \in DOMAIN ast[n].params |-> Resolve(ast[n].params[i].type)],
     ret    |-> Resolve(ast[n].ret)]

\* A repeated parameter name has the type of its last occurrence.
ParamTypes(n) ==
    [x \in ParamNames(n) |->
        LET named == {i \in DOMAIN ast[n].params : ast[n].params[i].name = x}
        IN  Resolve(ast[n].params[Max(named)].type)]

-----------------------------------------------------------------------------
CheckerBegin ==
    /\ phase = "check"
    /\ pos = 0
    /\ function_signatures' =
           [f \in NamesOf(TopLevelFns) |->
               FunctionSignature(Max({n \in TopLevelFns : ast[n].name = f}))]
    /\ Report(\E n \in TopLevelFns :
                  Unknown(ast[n].ret) \/ \E p \in Range(ast[n].params) : Unknown(p.type))
    /\ Step
    /\ UNCHANGED <<symbol_types, return_type, ty>>

CheckIntLiteral ==
    /\ Checking("int")
    /\ Infer("i64")
    /\ UNCHANGED <<has_errors, symbol_types, function_signatures, return_type>>

CheckIdentifier ==
    /\ Checking("ident")
    /\ LET x == ast[pos].name
       IN  Infer(IF x \in DOMAIN symbol_types THEN symbol_types[x] ELSE NoType)
    /\ UNCHANGED <<has_errors, symbol_types, function_signatures, return_type>>

\* Mutant of BadOperands: a comparison does not compare its operands' types.
BadOperandKinds(op, lhs, rhs) ==
    lhs # NoType /\ rhs # NoType /\ {lhs, rhs} \ IntegerTypes # {}

\* check_int and check_cmp: only a comparison wants operands of one type.
BadOperands(op, lhs, rhs) ==
    /\ lhs # NoType /\ rhs # NoType
    /\ \/ {lhs, rhs} \ IntegerTypes # {}
       \/ op \in CmpOps /\ lhs # rhs

BinaryType(op, lhs, rhs) ==
    CASE NoType \in {lhs, rhs} \/ BadOperands(op, lhs, rhs) -> NoType
      [] op \in ArithOps -> lhs
      [] OTHER           -> "i1"

CheckBinaryOperator ==
    /\ Checking("bin")
    /\ LET o == Operands(pos, ty)
       IN  /\ Report(BadOperands(ast[pos].op, o[1], o[2]))
           /\ Infer(BinaryType(ast[pos].op, o[1], o[2]))
    /\ UNCHANGED <<symbol_types, function_signatures, return_type>>

\* Mutant of BadArguments: only their number is checked.
BadArgumentCount(params, args) == Len(args) # Len(params)

BadArguments(params, args) ==
    \/ Len(args) # Len(params)
    \/ \E i \in DOMAIN args : Clash(args[i], params[i])

\* Mutant of CheckCall: the call has no type.
CheckCallUntyped ==
    /\ Checking("call")
    /\ LET f == ast[pos].name
       IN  Report(\/ f = Indirect
                  \/ /\ f \in DOMAIN function_signatures
                     /\ BadArguments(function_signatures[f].params, Operands(pos, ty)))
    /\ Infer(NoType)
    /\ UNCHANGED <<symbol_types, function_signatures, return_type>>

\* A call of an unknown name was reported by the SymbolResolver.
CheckCall ==
    /\ Checking("call")
    /\ LET f == ast[pos].name
       IN  IF f # Indirect /\ f \in DOMAIN function_signatures
             THEN /\ Report(BadArguments(function_signatures[f].params, Operands(pos, ty)))
                  /\ Infer(function_signatures[f].ret)
             ELSE Report(f = Indirect) /\ Infer(NoType)
    /\ UNCHANGED <<symbol_types, function_signatures, return_type>>

BadIntrinsic(name, args) ==
    name # "assert" \/ Len(args) # 1 \/ Clash(args[1], "i1")

CheckIntrinsicCall ==
    /\ Checking("intrinsic")
    /\ Report(BadIntrinsic(ast[pos].name, Operands(pos, ty)))
    /\ Infer(NoType)
    /\ UNCHANGED <<symbol_types, function_signatures, return_type>>

CheckLet ==
    /\ Checking("let")
    /\ LET b         == ast[pos]
           inferred  == ty[pos - 1]
           annotated == IF b.type = NoAnnotation THEN NoType ELSE Resolve(b.type)
           clash     == Clash(annotated, inferred)
           t         == CASE clash               -> NoType
                          [] annotated # NoType -> annotated
                          [] OTHER              -> inferred
       IN  /\ Report(clash \/ (b.type # NoAnnotation /\ annotated = NoType))
           /\ symbol_types' = IF t = NoType THEN symbol_types
                                            ELSE Overwrite(symbol_types, Entry(b.name, t))
           /\ Infer(t)
    /\ UNCHANGED <<function_signatures, return_type>>

\* The type of the returned expression, compared as it is: null too.
ReturnedType(n) == IF ast[n].expr THEN ty[n - 1] ELSE None

\* Mutant of CheckReturn: a `return` without a value is not compared.
CheckReturnOfValue ==
    /\ Checking("return")
    /\ return_type # <<>>
    /\ Report(ast[pos].expr /\ ReturnedType(pos) # Last(return_type))
    /\ Infer(NoType)
    /\ UNCHANGED <<symbol_types, function_signatures, return_type>>

CheckReturn ==
    /\ Checking("return")
    /\ return_type # <<>>
    /\ Report(ReturnedType(pos) # Last(return_type))
    /\ Infer(NoType)
    /\ UNCHANGED <<symbol_types, function_signatures, return_type>>

\* A `return` outside of every body reads the top of an empty std::stack:
\* undefined, so a crash or a comparison with whatever was read.
CheckModuleReturn ==
    /\ Checking("return")
    /\ return_type = <<>>
    /\ \/ /\ \E mismatch \in BOOLEAN : Report(mismatch)
          /\ Infer(NoType)
       \/ Stop("crash", "return_type.top") /\ UNCHANGED ty
    /\ UNCHANGED <<symbol_types, function_signatures, return_type>>

\* FunctionDecl: the parameters join symbol_types, for good.
CheckFn ==
    /\ Checking("fn")
    /\ pos \in TopLevelFns
    /\ symbol_types' = Overwrite(symbol_types, ParamTypes(pos))
    /\ return_type' = Append(return_type, Resolve(ast[pos].ret))
    /\ Infer(NoType)
    /\ UNCHANGED <<has_errors, function_signatures>>

\* functions.at() throws: only the functions of Module::nodes were entered.
CheckNestedFn ==
    /\ Checking("fn")
    /\ pos \notin TopLevelFns
    /\ Stop("crash", "functions.at")
    /\ UNCHANGED checkerVars

CheckTest ==
    /\ Checking("test")
    /\ return_type' = Append(return_type, None)
    /\ Infer(NoType)
    /\ UNCHANGED <<has_errors, symbol_types, function_signatures>>

\* Mutant of CheckEnd: the return type is not popped.
CheckEndUnpopped ==
    /\ Checking("end")
    /\ Infer(NoType)
    /\ UNCHANGED <<has_errors, symbol_types, function_signatures, return_type>>

\* The end of FunctionDecl's and of TestDecl's handler.
CheckEnd ==
    /\ Checking("end")
    /\ return_type' = Front(return_type)
    /\ Infer(NoType)
    /\ UNCHANGED <<has_errors, symbol_types, function_signatures>>

CheckerReturn ==
    /\ phase = "check"
    /\ pos = Len(ast) + 1
    /\ Verdict("checker", "generate")
    /\ UNCHANGED checkerVars

CheckerNext ==
    \/ CheckerBegin
    \/ CheckIntLiteral
    \/ CheckIdentifier
    \/ CheckBinaryOperator
    \/ CheckCall
    \/ CheckIntrinsicCall
    \/ CheckLet
    \/ CheckReturn
    \/ CheckModuleReturn
    \/ CheckFn
    \/ CheckNestedFn
    \/ CheckTest
    \/ CheckEnd
    \/ CheckerReturn
=============================================================================
