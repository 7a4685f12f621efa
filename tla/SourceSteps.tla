----------------------------- MODULE SourceSteps -----------------------------
(***************************************************************************)
(* What of a body happens when it runs, and in which order, stated on the   *)
(* tree: its literals, operators, calls, @asserts and returns, as they      *)
(* stand.  A `let` and a name do nothing; they are other words for a value. *)
(***************************************************************************)
EXTENDS Scoping

TestDecls == {n \in Nodes : ast[n].k = "test"}

ModuleScope == 0  \* in place of a declaration: the code around all of them

\* The path of the nodes of declaration d's body.
Body(d) == IF d = ModuleScope THEN <<>> ELSE <<d>>

\* A body that ends without a `return` returns there.
IsStep(n) ==
    \/ ast[n].k \in {"int", "bin", "call", "intrinsic", "return"}
    \/ ast[n].k = "end" /\ ast[n - 1].k # "return"

Steps(p) == {n \in Nodes : path[n] = p /\ IsStep(n)}

\* The step of body p that follows node n, or the end of the tree.
StepAfter(p, n) == Min({m \in Steps(p) : m > n} \cup {Len(ast) + 1})

\* The nodes of body p before node n that have a value.
ValueNodes(p, n) ==
    {m \in 1..n - 1 : path[m] = p /\ ast[m].k \in {"int", "ident", "bin", "call"}}
=============================================================================
