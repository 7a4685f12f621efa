------------------------------ MODULE Scoping ------------------------------
(***************************************************************************)
(* Forge's scoping rule, stated on the tree and not on any pass: a body     *)
(* sees its parameters and the `let`s before in the same body, never those  *)
(* of the bodies around it; every body sees the top-level functions.        *)
(***************************************************************************)
EXTENDS ForgeAST

\* The `let`s of the body of p's innermost declaration that precede node n.
Lets(p, n) ==
    {m \in Nodes : m < n /\ ast[m].k = "let" /\ path[m] = p}

ParamsOf(p) == IF p = <<>> THEN {} ELSE ParamNames(Last(p))

\* The variables visible at node n, when n stands in the body p.
Scope(p, n) == ParamsOf(p) \cup NamesOf(Lets(p, n))

ScopeAt(n) == Scope(path[n], n)

\* Node n names nothing that is out of its scope.
WellScopedNode(n) ==
    /\ ast[n].k = "ident" => ast[n].name \in ScopeAt(n)
    /\ ast[n].k = "call" /\ ast[n].name # Indirect => ast[n].name \in NamesOf(TopLevelFns)

WellScoped == \A n \in Nodes : WellScopedNode(n)

\* The node that binds x at node n of the body p: the last `let`, or else the
\* parameter list; a name no node binds is bound by 0.
BinderIn(x, p, n) ==
    LET lets == {m \in Lets(p, n) : ast[m].name = x}
    IN  CASE lets # {} -> Max(lets)
          [] lets = {} /\ x \in ParamsOf(p) -> Last(p)
          [] OTHER -> 0

Binder(x, n) == BinderIn(x, path[n], n)
=============================================================================
