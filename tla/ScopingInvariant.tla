-------------------------- MODULE ScopingInvariant --------------------------
(***************************************************************************)
(* Why the generator's lookups succeed: the inductive invariant that links  *)
(* the resolver's and the generator's tables to the scopes of the tree.     *)
(***************************************************************************)
EXTENDS ForgeProperties

\* The declarations around node n, where the node after the last one stands
\* in the block being read.
PathAt(n) == IF n \in Nodes THEN path[n] ELSE open

\* The names each body under way will see again when the bodies inside it end.
OuterScopes(n) == [i \in 1..Len(PathAt(n)) |-> ScopeAt(PathAt(n)[i])]

\* path is the nesting of the declarations of ast.
Nested(n) ==
    \A i \in 1..Len(PathAt(n)) :
        LET d == PathAt(n)[i]
        IN  /\ d \in Nodes /\ d < n
            /\ ast[d].k \in {"fn", "test"}
            /\ path[d] = SubSeq(PathAt(n), 1, i - 1)
            /\ \A m \in Nodes : d < m /\ m < n => Len(path[m]) >= i

TreeInv ==
    /\ ast \in Seq(Node) /\ path \in Seq(Seq(Nat)) /\ Len(path) = Len(ast)
    /\ open \in Seq(Nat)
    /\ PathAt(1) = <<>>
    /\ \A n \in Nodes : PathAt(n + 1) = PathAfter(n)
    /\ \A n \in Nodes : ast[n].k = "end" => path[n] # <<>>
    /\ \A n \in 1..Len(ast) + 1 : Nested(n)

CursorInv == pos \in 0..Len(ast) + 1

\* While the resolver runs, its table is the scope at the cursor.
ResolveInv ==
    phase = "resolve" =>
        IF pos = 0
          THEN variables = {} /\ saved = <<>>
          ELSE /\ variables = Scope(PathAt(pos), pos)
               /\ saved = OuterScopes(pos)
               /\ functions = NamesOf(TopLevelFns)
               /\ ~has_errors => \A n \in Nodes : n < pos => WellScopedNode(n)

\* Later passes run on well-scoped trees only.
AcceptInv ==
    phase \in {"check", "generate", "lower", "execute", "run"} => WellScoped

\* What TypeChecker leaves of calls and intrinsics, for the generator's asserts.
CallableNode(n) ==
    /\ ast[n].k = "call" => ast[n].name # Indirect
    /\ ast[n].k = "intrinsic" => ast[n].name = "assert" /\ Len(ast[n].kids) = 1

CheckInv ==
    /\ phase = "check" /\ ~has_errors => \A n \in Nodes : n < pos => CallableNode(n)
    /\ phase = "generate" => \A n \in Nodes : CallableNode(n)

\* Every top-level function stays declared, under its name.
Prototypes ==
    \A n \in TopLevelFns :
        /\ n \in DOMAIN funcs
        /\ "sym" \in DOMAIN funcs[n] /\ funcs[n].sym = Sym(ast[n].name)

\* While the generator runs, value_map has a value for the scope at the cursor.
GenerateInv ==
    /\ phase \in {"start", "parse", "resolve", "check"} => value_map = <<>> /\ frames = <<>>
    /\ phase = "generate" =>
        IF pos = 0
          THEN value_map = <<>> /\ frames = <<>>
          ELSE /\ DOMAIN value_map = Scope(PathAt(pos), pos)
               /\ frames \in Seq(Range(frames)) /\ Len(frames) = Len(PathAt(pos))
               /\ \A i \in DOMAIN frames : DOMAIN frames[i].value_map = OuterScopes(pos)[i]
               /\ Prototypes

\* Before its pass, a component is in its initial state; and a pass after the
\* parser finds every block closed.
QuietInv ==
    /\ phase \in {"start", "parse"} => variables = {} /\ saved = <<>> /\ pos = 0
    /\ phase \notin {"start", "parse", "done"} => open = <<>>
    /\ phase = "start" => ast = <<>>

IInv ==
    /\ TreeInv /\ CursorInv /\ QuietInv /\ ResolveInv /\ AcceptInv /\ CheckInv /\ GenerateInv
    /\ LookupsSucceed
=============================================================================
