---------------------------- MODULE ForgeClaims ----------------------------
(***************************************************************************)
(* What comments and tests of the repository say of the compiler and the    *)
(* code does not do.  Each is refuted by a run of its own.                  *)
(***************************************************************************)
EXTENDS ForgeProperties

\* Parser.h:13, "`fn` can also appear inside a body": a function inside a body
\* is compiled, or reported; the type checker does not throw on it.
FnInsideBody == why # "functions.at"

\* return_type_mismatch.fg:18, a `return` "must not read an empty return-type
\* stack": also not one at module scope, where the grammar allows it.
ReturnStackIsRead ==
    phase = "check" /\ At("return") => return_type # <<>>

\* TypeChecker.cpp:172, "@assert is statement-position and produces no value":
\* no source is accepted that uses the value of one.
AssertIsStatement == phase = "generate" => ~AssertUsedAsValue

\* SymbolResolver.cpp:76, "Each body gets a fresh variable scope seeded with
\* its parameters": in an accepted source, a variable has the type of the
\* `let` or parameter of its own body that binds it.
BodyHasFreshScope ==
    phase = "generate" =>
        \A n \in Nodes :
            ast[n].k = "ident" =>
                LET x == ast[n].name
                    b == Binder(x, n)
                IN  ty[n] = IF ast[b].k = "let" THEN ty[b] ELSE ParamTypes(b)[x]

\* function_calls.fg:3, "A call resolves to the named function and lowers to
\* func.call": the operands of a call are those the callee declares.
CallResolvesToNamed ==
    phase = "lower" =>
        \A f \in DOMAIN funcs :
            \A o \in Range(funcs[f].ops) :
                o.op = "call" => TypesOf(o.args) = funcs[LookupSymbol(o.attr)].params
=============================================================================
