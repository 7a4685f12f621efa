--------------------------- MODULE SymbolResolver ---------------------------
(***************************************************************************)
(* forge::SymbolResolver (lib/Frontend/SymbolResolver.cpp): every variable  *)
(* is bound in its body, every direct callee is a top-level function.       *)
(***************************************************************************)
EXTENDS ForgeAST

VARIABLES
    variables,  \* names visible in the current body scope
    functions,  \* top-level functions, visible everywhere
    saved       \* the `saved` locals of the check() calls under way

resolverVars == <<variables, functions, saved>>

ResolverInit == variables = {} /\ functions = {} /\ saved = <<>>

Resolving(k) == phase = "resolve" /\ At(k)

ResolverBegin ==
    /\ phase = "resolve"
    /\ pos = 0
    /\ functions' = NamesOf(TopLevelFns)
    /\ Step
    /\ UNCHANGED <<has_errors, variables, saved>>

\* IntLiteral, BinaryOperator, IntrinsicCall, ReturnStmt: only their children
\* are resolved, and those come before them.
ResolveChildren ==
    /\ \E k \in {"int", "bin", "intrinsic", "return"} : Resolving(k)
    /\ Step
    /\ UNCHANGED <<has_errors, resolverVars>>

ResolveIdentifier ==
    /\ Resolving("ident")
    /\ Report(ast[pos].name \notin variables)
    /\ Step
    /\ UNCHANGED resolverVars

\* A callee that is not an identifier was resolved as an ordinary value.
ResolveCall ==
    /\ Resolving("call")
    /\ Report(ast[pos].name # Indirect /\ ast[pos].name \notin functions)
    /\ Step
    /\ UNCHANGED resolverVars

\* The value was resolved before: `let x = x` does not see itself.
ResolveLet ==
    /\ Resolving("let")
    /\ variables' = variables \cup {ast[pos].name}
    /\ Step
    /\ UNCHANGED <<has_errors, functions, saved>>

\* Mutant of ResolveBody: the variables around the body stay visible.
ResolveBodyInside ==
    /\ Resolving("fn") \/ Resolving("test")
    /\ saved' = Append(saved, variables)
    /\ variables' = variables \cup ParamNames(pos)
    /\ Step
    /\ UNCHANGED <<has_errors, functions>>

\* FunctionDecl and TestDecl, before the body ...
ResolveBody ==
    /\ Resolving("fn") \/ Resolving("test")
    /\ saved' = Append(saved, variables)
    /\ variables' = ParamNames(pos)
    /\ Step
    /\ UNCHANGED <<has_errors, functions>>

\* Mutant of ResolveEnd: the names of the body are not forgotten.
ResolveEndOpen ==
    /\ Resolving("end")
    /\ saved' = Front(saved)
    /\ Step
    /\ UNCHANGED <<has_errors, functions, variables>>

\* ... and after it.
ResolveEnd ==
    /\ Resolving("end")
    /\ variables' = Last(saved)
    /\ saved' = Front(saved)
    /\ Step
    /\ UNCHANGED <<has_errors, functions>>

ResolverReturn ==
    /\ phase = "resolve"
    /\ pos = Len(ast) + 1
    /\ Verdict("resolver", "check")
    /\ UNCHANGED resolverVars

ResolverNext ==
    \/ ResolverBegin
    \/ ResolveChildren
    \/ ResolveIdentifier
    \/ ResolveCall
    \/ ResolveLet
    \/ ResolveBody
    \/ ResolveEnd
    \/ ResolverReturn
=============================================================================
