------------------------- MODULE SoundnessInvariant -------------------------
(***************************************************************************)
(* Why an accepted source becomes valid IR: what the type checker has seen  *)
(* of the tree, and what the generator has made of it, up to the cursor.    *)
(* All of it but the shape of the tree is claimed of the sources without a  *)
(* Gap only.                                                               *)
(***************************************************************************)
EXTENDS GeneratorInvariant

ExprKinds  == {"int", "ident", "bin", "call", "intrinsic"}
ValueKinds == ExprKinds \ {"intrinsic"}

\* The expression that node n takes as an operand, binds or returns stands in
\* n's body; tests stand at the top; the body of a function ends with a return.
ShapedNode(n) ==
    /\ "kids" \in DOMAIN ast[n] =>
          \A i \in DOMAIN ast[n].kids :
             ast[Kid(n, i)].k \in ExprKinds /\ path[Kid(n, i)] = path[n]
    /\ ast[n].k = "let" \/ (ast[n].k = "return" /\ ast[n].expr) =>
          ast[n - 1].k \in ExprKinds /\ path[n - 1] = path[n]
    /\ ast[n].k = "test" => path[n] = <<>>
    /\ ast[n].k = "end" /\ ast[Last(path[n])].k = "fn" => ast[n - 1].k = "return"

Shaped == \A n \in Nodes : ShapedNode(n)

-----------------------------------------------------------------------------
ScalarTypes == IntegerTypes \cup Floats

\* The types that a declaration of function n gives its parameters and result.
ParamList(n) == [i \in DOMAIN ast[n].params |-> Resolve(ast[n].params[i].type)]

SignaturesKnown ==
    \A n \in TopLevelFns :
        /\ Resolve(ast[n].ret) \in ScalarTypes
        /\ \A i \in DOMAIN ast[n].params : Resolve(ast[n].params[i].type) \in ScalarTypes

\* The type of variable x as bound by node b, and at node n of body p.
TypeOf(b, x)       == IF ast[b].k = "let" THEN ty[b] ELSE ParamTypes(b)[x]
TypeIn(x, p, n)    == TypeOf(BinderIn(x, p, n), x)
KidTypes(n)        == [i \in DOMAIN ast[n].kids |-> ty[Kid(n, i)]]

\* What the checker has made sure of at node n.
CheckedNode(n) ==
    /\ ast[n].k \in ValueKinds \cup {"let"} => ty[n] \in ScalarTypes
    /\ ast[n].k = "int" => ty[n] = "i64"
    /\ ast[n].k = "ident" => ty[n] = TypeIn(ast[n].name, path[n], n)
    /\ ast[n].k = "bin" =>
          /\ ty[Kid(n, 1)] \in IntegerTypes /\ ty[Kid(n, 2)] = ty[Kid(n, 1)]
          /\ ty[n] = IF ast[n].op \in CmpOps THEN "i1" ELSE ty[Kid(n, 1)]
    /\ ast[n].k = "call" =>
          \E g \in TopLevelFns :
             /\ ast[g].name = ast[n].name
             /\ KidTypes(n) = ParamList(g) /\ ty[n] = Resolve(ast[g].ret)
    /\ ast[n].k = "intrinsic" => KidTypes(n) = <<"i1">>
    /\ ast[n].k = "let" => ty[n] = ty[n - 1]
    /\ ast[n].k = "fn" => path[n] = <<>>
    /\ ast[n].k = "return" /\ path[n] # <<>> =>
          IF ast[Last(path[n])].k = "fn"
            THEN ast[n].expr /\ ty[n - 1] = Resolve(ast[Last(path[n])].ret)
            ELSE ~ast[n].expr

\* symbol_types, one table for all bodies, is right in the two that are in use.
SymbolsMirrorScope ==
    \A p \in {<<>>, PathAt(pos)} : \A x \in Scope(p, pos) :
        x \in DOMAIN symbol_types /\ symbol_types[x] = TypeIn(x, p, pos)

CheckedInv ==
    /\ phase = "check" /\ pos > 0 /\ ~has_errors =>
          /\ SignaturesKnown /\ SymbolsMirrorScope
          /\ DOMAIN function_signatures = NamesOf(TopLevelFns)
          /\ \A f \in NamesOf(TopLevelFns) : \E g \in TopLevelFns :
                ast[g].name = f /\ function_signatures[f] = FunctionSignature(g)
          /\ \A n \in Nodes : n < pos => CheckedNode(n)
    /\ phase = "generate" => SignaturesKnown /\ \A n \in Nodes : CheckedNode(n)

-----------------------------------------------------------------------------
\* The function in which the nodes of body p are generated.
FnOf(p) == IF p = <<>> THEN Main ELSE Last(p)

\* Every function has the type of its declaration, and a block from its
\* declaration on.
DeclarationsInv ==
    /\ \A f \in DOMAIN funcs :
          IF f \in TopLevelFns
            THEN /\ funcs[f].params = ParamList(f) /\ funcs[f].rets = <<Resolve(ast[f].ret)>>
                 /\ funcs[f].blocks = IF f < pos THEN 1 ELSE 0
            ELSE funcs[f].params = <<>> /\ funcs[f].rets = <<>> /\ funcs[f].blocks = 1
    /\ ip = [fn |-> FnOf(PathAt(pos)), block |-> 1]
    /\ \A i \in DOMAIN frames : frames[i].ip = [fn |-> Main, block |-> 1]

\* What generate() returned for a value node can be used in its body from there
\* on, at the type the checker gave the node.
ValuesInv ==
    \A n \in DOMAIN vals :
        ast[n].k \in ValueKinds =>
            LET f == FnOf(path[n])
            IN  vals[n].type = ty[n] /\ Dominates(vals[n], f, Len(funcs[f].ops) + 1)

\* The verifier's rules hold of operation i of function f, and a return is the
\* last operation so far.
Verified(f, i) ==
    LET o == funcs[f].ops[i]
    IN  /\ WellTyped(f, o) /\ o.block = 1
        /\ \A v \in Range(o.args) : Dominates(v, f, i)
        /\ o.op = "return" => i = Len(funcs[f].ops)

OperationsInv == \A f \in DOMAIN funcs : \A i \in DOMAIN funcs[f].ops : Verified(f, i)

\* Exactly the bodies that are complete have their return.
HasReturned(f) == funcs[f].ops # <<>> /\ Last(funcs[f].ops).op = "return"

BodiesInv ==
    \A f \in DOMAIN funcs :
        HasReturned(f) <=>
            /\ f # Main
            /\ IF f = FnOf(PathAt(pos)) THEN ast[pos - 1].k = "return" ELSE f < pos

GeneratedInv ==
    phase = "generate" /\ pos > 0 =>
        DeclarationsInv /\ ValuesInv /\ OperationsInv /\ BodiesInv

\* A validated module stays as it is until it runs.
SoundnessInv ==
    /\ Shaped
    /\ phase # "done" => why = "none"
    /\ ~Gap => CheckedInv /\ GeneratedInv
    /\ TypesAgree /\ AcceptedIsSound
=============================================================================
