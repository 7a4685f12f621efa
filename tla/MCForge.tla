------------------------------ MODULE MCForge ------------------------------
(***************************************************************************)
(* Values for the constants of Forge: menus of expressions and headers from *)
(* which the parser composes every source up to a bound.                    *)
(***************************************************************************)
EXTENDS CompilationInvariant, Semantics, ForgeClaims

\* What convert() builds: the arguments one after the other, then the root.
Flatten(args) == FlattenSeq(args)
Back(args)    == [i \in DOMAIN args |-> 1 + Len(FlattenSeq(SubSeq(args, i + 1, Len(args))))]

Num(v)            == <<IntLiteral(v)>>
Lit               == Num(1)
Var(x)            == <<Identifier(x)>>
Op(o, a, b)       == a \o b \o <<BinaryOperator(o, Len(b) + 1, 1)>>
CallOf(f, args)   == Append(Flatten(args), Call(f, Back(args)))
AtCall(f, args)   == Append(Flatten(args), IntrinsicCall(f, Back(args)))
AssertOf(a)       == AtCall("assert", <<a>>)

Header(x, t)      == [name |-> x, type |-> t]
Fn(f, params, t)  == [name |-> f, params |-> params, ret |-> t]

Build == {<<"a.fg">>}
Test  == {<<"test", "a.fg">>}

-----------------------------------------------------------------------------
\* Names: two variables that may be bound or not, in any body.
ScopingExpressions == {Lit, Var("x"), Var("y"), CallOf("f", <<Var("x")>>)}
ScopingBindings    == {Header("x", NoAnnotation), Header("y", NoAnnotation)}
ScopingSignatures  == {Fn("f", <<Header("x", "i64")>>, "i64")}

\* Types: literals, bools and a parameter that may be neither, and what
\* combines them; no calls.
TypingExpressions ==
    {Lit, Var("x"), Op("+", Var("x"), Lit), Op("==", Var("x"), Lit), AssertOf(Var("x"))}
TypingBindings    == {Header("x", NoAnnotation), Header("x", "bool")}
TypingSignatures  ==
    {Fn("f", <<Header("x", "i32")>>, "i32"), Fn("g", <<Header("x", "bool")>>, "i64")}

\* Calls: forward, recursive, with good and bad arguments, of functions that
\* may be defined twice.
CallExpressions == {Lit, CallOf("f", <<Lit>>), CallOf("f", <<Var("x")>>)}
CallSignatures  ==
    {Fn("f", <<Header("x", "i64")>>, "i64"), Fn("g", <<Header("x", "bool")>>, "i64")}

\* Tests, and every shape of the command line.
TestExpressions == {Lit, AssertOf(Op("==", Lit, Lit)), CallOf("f", <<>>),
     Lit \o CallOf(Indirect, <<>>)}
TestSignatures  == {Fn("f", <<>>, "i64")}
CommandLines    ==
    {<<>>, <<"test">>, <<"a.fg">>, <<"build", "a.fg">>, <<"test", "a.fg">>,
     <<"--emit-mlir", "test", "a.fg">>, <<"test", "a.fg", "--emit-llvm">>}

\* Programs: a function of one number that may call itself, and what tells one
\* value, one order or one test from another.
RunExpressions ==
    {Op("+", Var("x"), Num(1)), CallOf("f", <<Num(1)>>), Op("/", Num(1), Num(0)),
     AssertOf(Op("<", CallOf("f", <<Num(1)>>), Num(1))), AssertOf(Op("<", Num(1), Num(1)))}
RunSignatures  == {Fn("f", <<Header("x", "i64")>>, "i64")}

\* Scaled down so that the numbers of the menu overflow.
Halves == [type \in IntegerTypes |-> IF type = "i1" THEN 1 ELSE 2]

-----------------------------------------------------------------------------
\* The menus of the claims: just what each is about.
AssertExpressions == {Lit, AssertOf(Op("==", Lit, Lit))}
LetX              == {Header("x", NoAnnotation)}

ShadowExpressions == {Lit, Var("x")}
ShadowSignatures  == {Fn("f", <<Header("x", "bool")>>, "bool")}

HomonymExpressions == {Lit, CallOf("f", <<Lit>>)}
HomonymSignatures  ==
    {Fn("f", <<Header("x", "i64")>>, "i64"), Fn("f", <<Header("x", "bool")>>, "i64")}
=============================================================================
